------------------------- MODULE BackupStoreProofs -------------------------
(* For every number of servers, workers, slots, policies and bounds: what the   *)
(* backups promise holds at every step of every operation (BackupStoreInv).     *)
EXTENDS BackupStoreInv, FiniteSetTheorems, WellFoundedInduction, TLAPS

-----------------------------------------------------------------------------
(* Finite sets of identifiers.                                             *)

\* A finite set of numbers that is not empty has a largest one, and Max is it.
LEMMA MaxIsLargest ==
    ASSUME NEW S, S \subseteq Int, IsFiniteSet(S), S # {}
    PROVE  Max(S) \in S /\ \A y \in S : y <= Max(S)
<1> DEFINE Above(x) == {y \in S : y > x}
           C == {Above(x) : x \in S}
           R == StrictSubsetOrdering(S)
<1>1. C \subseteq FiniteSubsetsOf(S) /\ C # {}
  <2>1. \A x \in S : Above(x) \in SUBSET S /\ IsFiniteSet(Above(x))
    BY FS_Subset
  <2>. QED BY <2>1 DEF FiniteSubsetsOf
<1>2. PICK U \in C : \A V \in C : ~(<<V, U>> \in R)
  <2>1. IsWellFoundedOn(R, FiniteSubsetsOf(S)) BY FS_StrictSubsetOrderingWellFounded
  <2>. HIDE DEF C, R
  <2>. QED BY <2>1, <1>1, WFMin
<1>3. PICK x \in S : U = Above(x) BY <1>2
<1>4. Above(x) = {}
  <2>1. SUFFICES ASSUME NEW z \in Above(x) PROVE FALSE OBVIOUS
  <2>2. Above(z) \in C OBVIOUS
  <2>3. Above(z) \subseteq Above(x)
    <3>1. \A y \in S : y > z => y > x BY <2>1
    <3>. QED BY <3>1
  <2>4. z \notin Above(z) /\ z \in Above(x) BY <2>1
  <2>5. <<Above(z), Above(x)>> \in R BY <2>3, <2>4 DEF StrictSubsetOrdering
  <2>. QED BY <2>2, <2>5, <1>2, <1>3
<1>5. \A y \in S : x >= y BY <1>4
<1>. QED BY <1>5 DEF Max

\* ... and a smallest one.
LEMMA SmallestExists ==
    ASSUME NEW S, S \subseteq Int, IsFiniteSet(S), S # {}
    PROVE  \E x \in S : \A y \in S : x <= y
<1> DEFINE Below(x) == {y \in S : y < x}
           C == {Below(x) : x \in S}
           R == StrictSubsetOrdering(S)
<1>1. C \subseteq FiniteSubsetsOf(S) /\ C # {}
  <2>1. \A x \in S : Below(x) \in SUBSET S /\ IsFiniteSet(Below(x))
    BY FS_Subset
  <2>. QED BY <2>1 DEF FiniteSubsetsOf
<1>2. PICK U \in C : \A V \in C : ~(<<V, U>> \in R)
  <2>1. IsWellFoundedOn(R, FiniteSubsetsOf(S)) BY FS_StrictSubsetOrderingWellFounded
  <2>. HIDE DEF C, R
  <2>. QED BY <2>1, <1>1, WFMin
<1>3. PICK x \in S : U = Below(x) BY <1>2
<1>4. Below(x) = {}
  <2>1. SUFFICES ASSUME NEW z \in Below(x) PROVE FALSE OBVIOUS
  <2>2. Below(z) \in C OBVIOUS
  <2>3. Below(z) \subseteq Below(x)
    <3>1. \A y \in S : y < z => y < x BY <2>1
    <3>. QED BY <3>1
  <2>4. z \notin Below(z) /\ z \in Below(x) BY <2>1
  <2>5. <<Below(z), Below(x)>> \in R BY <2>3, <2>4 DEF StrictSubsetOrdering
  <2>. QED BY <2>2, <2>5, <1>2, <1>3
<1>. QED BY <1>4

\* The numbers of S that have at most k of S at or above them are at most k.
LEMMA LargestAreFew ==
    ASSUME NEW S, S \subseteq Int, IsFiniteSet(S), NEW k \in Nat,
           NEW T \in SUBSET S, \A i \in T : Cardinality({j \in S : j >= i}) <= k
    PROVE  Cardinality(T) <= k
<1>1. IsFiniteSet(T) BY FS_Subset
<1>2. CASE T = {} BY <1>2, FS_EmptySet
<1>3. CASE T # {}
  <2>1. PICK m \in T : \A y \in T : m <= y BY <1>1, <1>3, SmallestExists
  <2> DEFINE U == {j \in S : j >= m}
  <2>2. T \subseteq U BY <2>1
  <2>3. IsFiniteSet(U) BY FS_Subset
  <2>4. Cardinality(T) <= Cardinality(U) /\ Cardinality(U) \in Nat /\ Cardinality(T) \in Nat
    BY <1>1, <2>2, <2>3, FS_Subset, FS_CardinalityType
  <2>5. Cardinality(U) <= k BY <2>1
  <2>. QED BY <2>4, <2>5
<1>. QED BY <1>2, <1>3

-----------------------------------------------------------------------------
(* The retention plan (planRetention).                                     *)

\* The successful records of a server are finitely many numbers.
LEMMA SuccessfulFinite ==
    ASSUME TypeOK, NEW s \in Servers
    PROVE  Successful(s) \subseteq Int /\ IsFiniteSet(Successful(s))
<1>1. Ids \subseteq Int /\ IsFiniteSet(Ids) BY FS_Interval, BoundsAssumption DEF Ids
<1>2. Successful(s) \in SUBSET Ids BY DEF Successful, Active
<1>. QED BY <1>1, <1>2, FS_Subset

\* What goes to the trash is successful and unprotected, and a newer success stays.
LEMMA PlanLeavesNewest ==
    ASSUME TypeOK, NEW s \in Servers, NEW i \in PlanTrash(s)
    PROVE  /\ i \in Successful(s) /\ ~rows[i].protected
           /\ \E j \in Successful(s) \ PlanTrash(s) : j > i
<1>1. i \in Successful(s) /\ ~rows[i].protected /\ i # Newest(s) BY DEF PlanTrash
<1>2. Newest(s) \in Successful(s) /\ i <= Newest(s)
  BY <1>1, SuccessfulFinite, MaxIsLargest DEF Newest
<1>3. Newest(s) \notin PlanTrash(s) BY DEF PlanTrash
<1>4. i \in Int /\ Newest(s) \in Int BY <1>1, <1>2, SuccessfulFinite
<1>. QED BY <1>1, <1>2, <1>3, <1>4

\* Without what goes to the trash, the unprotected successes meet the policy's count.
LEMMA PlanMeetsCount ==
    ASSUME TypeOK, NEW s \in Servers, policy[s].keep > 0
    PROVE  Cardinality(Spare(s) \ PlanTrash(s)) <= policy[s].keep
<1> DEFINE S == Spare(s)
           T == S \ PlanTrash(s)
           k == policy[s].keep
<1>1. k \in Nat BY PolicyAssumption DEF TypeOK
<1>2. S \subseteq Successful(s) /\ S \subseteq Int /\ IsFiniteSet(S)
  BY SuccessfulFinite, FS_Subset DEF Spare
<1>3. ASSUME NEW i \in T PROVE Cardinality({j \in S : j >= i}) <= k
  <2>1. CASE i = Newest(s)
    <3>1. \A j \in Successful(s) : j <= i
      BY <2>1, <1>2, SuccessfulFinite, MaxIsLargest DEF Newest
    <3>2. {j \in S : j >= i} = {i} BY <3>1, <1>2
    <3>. QED BY <3>2, <1>1, FS_Singleton
  <2>2. CASE i # Newest(s)
    <3>1. {j \in S : j >= i} = {j \in Successful(s) : j >= i /\ ~rows[j].protected}
      BY DEF Spare
    <3>2. ~(Cardinality({j \in Successful(s) : j >= i /\ ~rows[j].protected}) > k)
      BY <2>2 DEF Spare, PlanTrash
    <3>3. Cardinality({j \in S : j >= i}) \in Nat BY <1>2, FS_Subset, FS_CardinalityType
    <3>4. ~(Cardinality({j \in S : j >= i}) > k) BY <3>1, <3>2, Zenon
    <3> HIDE DEF S, k
    <3>. QED BY <3>3, <3>4, <1>1
  <2>. QED BY <2>1, <2>2
<1> HIDE DEF S, k
<1>4. T \in SUBSET S OBVIOUS
<1>. QED BY <1>1, <1>2, <1>3, <1>4, LargestAreFew DEF S, k

\* The record a deletion is at belongs to the server, is in the trash and unprotected.
LEMMA DoomedIsTrash ==
    ASSUME TypeOK, NEW w \in Workers, Planned(w), pc[w] \in {"remove", "drop"}
    PROVE  /\ Doomed(w) \in InTrash(Of(w)) /\ ~rows[Doomed(w)].protected
           /\ job[w].op # "purge" => Doomed(w) \in plan[w].purge
<1>1. CASE job[w].op = "purge" BY <1>1 DEF Planned, Doomed
<1>2. CASE job[w].op # "purge"
  <2>1. plan[w].purge # {} /\ plan[w].purge \in SUBSET Ids BY <1>2 DEF Planned, TypeOK
  <2>2. Ids \subseteq Int /\ IsFiniteSet(Ids) BY FS_Interval, BoundsAssumption DEF Ids
  <2>3. Max(plan[w].purge) \in plan[w].purge BY <2>1, <2>2, FS_Subset, MaxIsLargest
  <2>. QED BY <1>2, <2>3 DEF Planned, Doomed
<1>. QED BY <1>1, <1>2

-----------------------------------------------------------------------------
(* What a step of one operation leaves to the others.                      *)

\* Two operations past the lock are on different servers.
LEMMA HoldersApart ==
    ASSUME BInv, NEW w \in Workers, NEW u \in Workers \ {w}, Holds(w), Holds(u)
    PROVE  Of(u) # Of(w)
BY DEF BInv, OpInv, Control

\* A step leaves the server s as it is.
Stands(s) ==
    /\ \A i \in Ids : i \in Records(s) \/ i \in Records(s)' =>
          rows'[i] = rows[i] /\ archive'[i] = archive[i]
    /\ world'[s] = world[s] /\ kept'[s] = kept[s] /\ policy'[s] = policy[s]

\* So does every step of another operation with the server an operation holds.
LEMMA ServerStands ==
    ASSUME BInv, TypeOK', NEW w \in Workers, NEW u \in Workers \ {w}, Guarantee(w), Holds(u),
           NEW s \in Servers, Of(u) = s
    PROVE  Stands(s)
<1>1. CASE ~Holds(w)
  <2>1. rows' = rows /\ archive' = archive /\ world' = world /\ kept' = kept /\ policy' = policy
    BY <1>1 DEF Guarantee, Leaves, disk
  <2>. QED BY <2>1 DEF Stands
<1>2. CASE Holds(w)
  <2>1. s # Of(w) BY <1>2, HoldersApart
  <2>2. \A i \in Ids : rows[i].status \in Statuses /\ rows'[i].status \in Statuses
    BY DEF BInv, TypeOK, Rows
  <2>3. \A i \in Ids : i \in Records(s) \/ i \in Records(s)' =>
          rows'[i] = rows[i] /\ archive'[i] = archive[i]
    BY <2>1 DEF Guarantee, Leaves, Records
  <2>4. world'[s] = world[s] /\ kept'[s] = kept[s] /\ policy'[s] = policy[s]
    BY <2>1 DEF Guarantee, Leaves
  <2>. QED BY <2>3, <2>4 DEF Stands
<1>. QED BY <1>1, <1>2

\* The sets of records of a server that stands are the same.
LEMMA SameSets ==
    ASSUME NEW s, Stands(s)
    PROVE  /\ Records(s)' = Records(s) /\ Successful(s)' = Successful(s)
           /\ InTrash(s)' = InTrash(s) /\ Spare(s)' = Spare(s)
<1>1. Records(s)' = Records(s) BY DEF Records, Stands
<1>2. Successful(s)' = Successful(s) BY DEF Stands, Records, Successful, Active
<1>3. InTrash(s)' = InTrash(s) BY DEF Stands, Records, InTrash
<1>4. Spare(s)' = Spare(s) BY <1>2 DEF Stands, Spare, Records, Successful, Active
<1>. QED BY <1>1, <1>2, <1>3, <1>4

\* What the invariant says of an operation survives a step of another one.
LEMMA OthersKeep ==
    ASSUME BInv, TypeOK', NEW w \in Workers, Guarantee(w), NEW u \in Workers \ {w}
    PROVE  OpInv(u)'
<1>1. OpInv(u) /\ TypeOK BY DEF BInv
<1>2. SameLocals(u) BY DEF Guarantee
<1>3. Control(u)' BY <1>1, <1>2 DEF OpInv, Control, SameLocals, Of, Holds
<1>4. PICK s : s = Of(u) OBVIOUS
<1>5. Of(u)' = s /\ Id(u)' = Id(u) /\ Holds(u)' = Holds(u) /\ Sweeping(u)' = Sweeping(u)
      /\ Unnumbered(u)' = Unnumbered(u) /\ Doomed(u)' = Doomed(u)
  BY <1>2, <1>4 DEF SameLocals, Of, Id, Holds, Sweeping, Unnumbered, Doomed
<1>6. pc[u] # "idle" => s \in Servers BY <1>1, <1>4 DEF OpInv, Control
<1>7. Holds(u) => Stands(s) BY <1>4, <1>6, ServerStands DEF Holds
<1>8. Holds(u) => /\ Records(s)' = Records(s) /\ Successful(s)' = Successful(s)
                  /\ InTrash(s)' = InTrash(s) /\ Spare(s)' = Spare(s)
  BY <1>7, SameSets
<1>9. Numbered(u)'
  <2>1. Id(u)' \in 0..made'
    BY <1>1, <1>5 DEF OpInv, Numbered, Guarantee, Leaves, TypeOK
  <2>2. ASSUME job[u].op \in ChangeOps \union {"restore"}
        PROVE  Id(u) # 0 /\ (rows'[Id(u)].status # "none" => rows'[Id(u)].srv = s)
    <3>1. Id(u) \in Ids /\ (rows[Id(u)].status # "none" => rows[Id(u)].srv = s)
      <4>1. Id(u) # 0 /\ Id(u) \in 0..made /\ (rows[Id(u)].status # "none" => rows[Id(u)].srv = s)
        BY <1>1, <1>4, <2>2 DEF OpInv, Numbered
      <4>. QED BY <4>1, <1>1, BoundsAssumption DEF TypeOK, Ids
    <3>2. CASE rows[Id(u)].status = "none" BY <3>1, <3>2, <2>2, <1>1 DEF Guarantee, Leaves, OpInv, Numbered
    <3>3. CASE rows[Id(u)].status # "none"
      BY <3>1, <3>3, <2>2, <1>1 DEF Guarantee, Leaves, OpInv, Numbered
    <3>. QED BY <3>2, <3>3
  <2>3. job[u].op \in CreateOps /\ ~Unnumbered(u) =>
            Id(u) # 0 /\ \A i \in Records(s)' : i <= Id(u)
    <3>1. job[u].op \in CreateOps /\ ~Unnumbered(u) => Holds(u)
      BY <1>1 DEF OpInv, Control, Unnumbered, Holds, NoJob, CreateOps
    <3>. QED BY <3>1, <1>1, <1>4, <1>8 DEF OpInv, Numbered
  <2>4. ASSUME pc[u] = "u_insert"
        PROVE  rows'[Id(u)].status = "none" /\ \A v \in Workers \ {u} : Id(v)' # Id(u)
    <3>1. Id(u) \in Ids /\ rows[Id(u)].status = "none" /\ \A v \in Workers \ {u} : Id(v) # Id(u)
      <4>1. /\ Id(u) # 0 /\ Id(u) \in 0..made /\ rows[Id(u)].status = "none"
            /\ \A v \in Workers \ {u} : Id(v) # Id(u)
        BY <1>1, <2>4 DEF OpInv, Numbered, Control, Unnumbered, CreateOps
      <4>. QED BY <4>1, <1>1, BoundsAssumption DEF TypeOK, Ids
    <3>2. rows'[Id(u)].status = "none" BY <3>1 DEF Guarantee, Leaves
    <3>3. ASSUME NEW v \in Workers \ {u} PROVE Id(v)' # Id(u)
      <4>1. CASE v = w BY <4>1, <2>4 DEF Guarantee, Distinct, Id
      <4>2. CASE v # w BY <4>2, <3>1 DEF Guarantee, SameLocals, Id
      <4>. QED BY <4>1, <4>2
    <3>. QED BY <3>2, <3>3
  <2>5. pc[u] \in {"b_archive", "b_save", "b_fail", "b_commit"} =>
            Id(u) \in Records(s)' /\ rows'[Id(u)].status = "pending"
    BY <1>1, <1>4, <1>7, <1>8 DEF OpInv, Numbered, Holds, Stands, Records
  <2>. QED BY <2>1, <2>2, <2>3, <2>4, <2>5, <1>2, <1>5 DEF Numbered, SameLocals
<1>10. Planned(u)'
  <2>1. CASE ~Holds(u)
    BY <2>1, <1>1, <1>2, <1>5 DEF OpInv, Planned, Holds, SameLocals, Sweeping, NoPlan
  <2>2. CASE Holds(u)
    <3>1. /\ Records(s)' = Records(s) /\ Successful(s)' = Successful(s)
          /\ InTrash(s)' = InTrash(s)
      BY <2>2, <1>8
    <3>2. \A i \in Records(s) : rows'[i] = rows[i] /\ archive'[i] = archive[i]
      BY <2>2, <1>7 DEF Stands, Records
    <3>3. Successful(s) \subseteq Records(s) /\ InTrash(s) \subseteq Records(s)
      BY DEF Successful, Active, InTrash, Records
    <3>4. pc[u] = "drop" => Doomed(u) \in InTrash(s) BY <1>1, <1>4, DoomedIsTrash DEF OpInv
    <3>5. pc[u] = "drop" => archive'[Doomed(u)] = 0
      BY <1>1, <3>2, <3>3, <3>4 DEF OpInv, Planned
    <3>6. pc'[u] = pc[u] /\ job'[u] = job[u] /\ plan'[u] = plan[u] BY <1>2 DEF SameLocals
    <3>7. pc[u] \in {"remove", "drop"} =>
            IF job[u].op = "purge"
            THEN plan[u] = NoPlan /\ Id(u) \in InTrash(s) /\ ~rows'[Id(u)].protected
            ELSE plan[u].purge # {}
      BY <1>1, <1>4, <3>2, <3>3 DEF OpInv, Planned
    <3>8. \A i \in plan[u].purge : i \in InTrash(s) /\ ~rows'[i].protected
      BY <1>1, <1>4, <3>2, <3>3 DEF OpInv, Planned
    <3>9. \A i \in plan[u].trash :
            /\ i \in Successful(s) /\ ~rows'[i].protected
            /\ \E j \in Successful(s) \ plan[u].trash : j > i
      BY <1>1, <1>4, <3>2, <3>3 DEF OpInv, Planned
    <3>. QED BY <1>1, <1>4, <1>5, <3>1, <3>5, <3>6, <3>7, <3>8, <3>9 DEF OpInv, Planned
  <2>. QED BY <2>1, <2>2
<1>11. OnCourse(u)'
  <2>1. Sweeping(u) => Holds(u) BY DEF Sweeping, Holds
  <2>2. Holds(u) => Spare(s)' = Spare(s) /\ policy'[s] = policy[s] BY <1>7, <1>8 DEF Stands
  <2>. QED BY <1>1, <1>2, <1>4, <1>5, <2>1, <2>2 DEF OpInv, OnCourse, SameLocals
<1>12. Restoring(u)'
  <2>1. CASE pc[u] \notin {"r_stage", "r_aside", "r_swap", "r_back"}
    BY <2>1, <1>2 DEF Restoring, SameLocals
  <2>2. CASE pc[u] \in {"r_stage", "r_aside", "r_swap", "r_back"}
    <3>1. Holds(u) BY <2>2 DEF Holds
    <3>2. Id(u) \in Successful(s) BY <2>2, <1>1, <1>4 DEF OpInv, Restoring
    <3>3. Id(u) \in Records(s) BY <3>2 DEF Successful, Active, Records
    <3>4. Successful(s)' = Successful(s) /\ archive'[Id(u)] = archive[Id(u)]
          /\ world'[s] = world[s] /\ kept'[s] = kept[s]
      BY <3>1, <3>3, <1>7, <1>8 DEF Stands, Records
    <3>. QED BY <1>1, <1>2, <1>4, <1>5, <3>2, <3>4 DEF OpInv, Restoring, SameLocals
  <2>. QED BY <2>1, <2>2
<1>13. Changing(u)'
  <2>1. CASE pc[u] # "g_write" BY <2>1, <1>2 DEF Changing, SameLocals
  <2>2. CASE pc[u] = "g_write"
    <3>1. Holds(u) /\ Changeable(job[u].op, rows[Id(u)]) /\ rows[Id(u)].status # "none"
      BY <2>2, <1>1 DEF Holds, OpInv, Changing, Changeable
    <3>2. Id(u) # 0 /\ Id(u) \in 0..made /\ rows[Id(u)].srv = s
      BY <2>2, <3>1, <1>1, <1>4 DEF OpInv, Numbered, Control, Holds, ChangeOps
    <3>3. Id(u) \in Records(s) BY <3>1, <3>2, <1>1, BoundsAssumption DEF Records, TypeOK, Ids
    <3>4. rows'[Id(u)] = rows[Id(u)] BY <3>1, <3>3, <1>7 DEF Stands, Records
    <3>5. Changeable(job[u].op, rows[Id(u)])' = Changeable(job[u].op, rows[Id(u)])
      BY <3>4, <1>2, <1>5 DEF Changeable, SameLocals
    <3>. QED BY <3>1, <3>5 DEF Changing
  <2>. QED BY <2>1, <2>2
<1>. QED BY <1>3, <1>9, <1>10, <1>11, <1>12, <1>13 DEF OpInv

-----------------------------------------------------------------------------
(* The parts of a step: what is shared, and what is the operation's own.   *)

SharedOK ==
    /\ rows \in [Ids -> Rows]
    /\ \A i \in Ids : rows[i].status = "none" => rows[i] = NoRow
    /\ archive \in [Ids -> Versions] /\ world \in [Servers -> Versions]
    /\ kept \in [Servers -> Seq(Versions)]
    /\ policy \in [Servers -> Policies] /\ clock \in 1..MaxClock
    /\ note \in [kind : {"none", "completed", "failed"}, id : 0..MaxBackups]
    /\ made \in 0..MaxBackups
    /\ budget \in [ops : 0..MaxOps, backups : 0..MaxBackups, faults : 0..MaxFaults,
                   crashes : 0..MaxCrashes]

LocalsOK ==
    /\ lock \in [Servers -> Workers \union {NoOne}] /\ slots \subseteq Workers
    /\ pc \in [Workers -> Labels] /\ job \in [Workers -> Jobs] /\ tmp \in [Workers -> Versions]
    /\ plan \in [Workers -> [purge : SUBSET Ids, trash : SUBSET Ids]]
    /\ clean \in [Workers -> BOOLEAN] /\ gone \in [Workers -> BOOLEAN]

Others(w) == \A u \in Workers \ {w} : SameLocals(u)

\* What a step of w has to show of the shared state ...
SharedStep(w) ==
    /\ SharedOK' /\ RowsInv' /\ AnnouncedTruthfully' /\ Leaves(w)
    /\ \A i \in Ids : i > made' => rows'[i].status = "none"

\* ... and of its own.
LocalStep(w) == LocalsOK' /\ Others(w) /\ Distinct(w) /\ OpInv(w)'

Counted == made + budget.backups + Cardinality({w \in Workers : Unnumbered(w)}) <= MaxBackups

\* Together they keep the invariant.
LEMMA StepKeeps ==
    ASSUME BInv, NEW w \in Workers, SharedStep(w), LocalStep(w), Counted'
    PROVE  BInv'
<1>1. TypeOK' BY DEF SharedStep, LocalStep, SharedOK, LocalsOK, TypeOK
<1>2. NumbersInv' BY DEF SharedStep, Counted, NumbersInv
<1>3. Guarantee(w) BY DEF SharedStep, LocalStep, Guarantee, Others
<1>4. \A u \in Workers : OpInv(u)' BY <1>1, <1>3, OthersKeep DEF LocalStep
<1>. QED BY <1>1, <1>2, <1>4 DEF BInv, SharedStep

\* No step but a new backup's makes more of them wait for an identifier.
LEMMA CountKept ==
    ASSUME BInv, NEW w \in Workers, Others(w), Unnumbered(w)' => Unnumbered(w),
           made' = made, budget'.backups = budget.backups
    PROVE  Counted'
<1> DEFINE U == {u \in Workers : Unnumbered(u)}
           V == {u \in Workers : Unnumbered(u)'}
<1>1. V \in SUBSET U BY DEF Others, SameLocals, Unnumbered
<1>2. IsFiniteSet(U) BY ActorsAssumption, FS_Subset
<1>3. Cardinality(V) <= Cardinality(U) /\ Cardinality(V) \in Nat /\ Cardinality(U) \in Nat
  BY <1>1, <1>2, FS_Subset, FS_CardinalityType
<1>4. made + budget.backups + Cardinality(U) <= MaxBackups BY DEF BInv, NumbersInv
<1>5. made \in Nat /\ budget.backups \in Nat /\ MaxBackups \in Nat
  BY BoundsAssumption DEF BInv, TypeOK
<1> HIDE DEF U, V
<1>6. made + budget.backups + Cardinality(V) <= MaxBackups BY <1>3, <1>4, <1>5
<1>. QED BY <1>6 DEF Counted, V

\* A call that works or fails spends at most a fault.
LEMMA BudgetKept ==
    ASSUME TypeOK, NEW w \in Workers, NEW call,
           Works(w) \/ Fails(w, call) \/ FailsDetached(call) \/ UNCHANGED budget
    PROVE  /\ budget' \in [ops : 0..MaxOps, backups : 0..MaxBackups, faults : 0..MaxFaults,
                           crashes : 0..MaxCrashes]
           /\ budget'.backups = budget.backups
<1>1. CASE budget' = budget BY <1>1 DEF TypeOK
<1>2. CASE SpendFault /\ budget.faults > 0
  <2>1. budget.faults - 1 \in 0..MaxFaults BY <1>2, BoundsAssumption DEF TypeOK
  <2>. QED BY <1>2, <2>1 DEF SpendFault, TypeOK
<1>. QED BY <1>1, <1>2 DEF Works, Fails, FailsDetached, CanFail

\* A step that changes nothing shared but the budget.
LEMMA SharedStays ==
    ASSUME BInv, NEW w \in Workers, UNCHANGED <<rows, disk, policy, clock, made>>, Quiet,
           budget' \in [ops : 0..MaxOps, backups : 0..MaxBackups, faults : 0..MaxFaults,
                        crashes : 0..MaxCrashes]
    PROVE  SharedStep(w)
<1>1. rows' = rows /\ archive' = archive /\ world' = world /\ kept' = kept /\ policy' = policy
      /\ clock' = clock /\ made' = made
  BY DEF disk
<1>2. note' \in [kind : {"none", "completed", "failed"}, id : 0..MaxBackups]
  BY BoundsAssumption DEF Quiet, NoNote
<1>3. SharedOK' BY <1>1, <1>2 DEF SharedOK, BInv, TypeOK
<1>4. RowsInv' BY <1>1 DEF RowsInv, BInv
<1>5. AnnouncedTruthfully' BY DEF AnnouncedTruthfully, Quiet, NoNote
<1>6. Leaves(w) BY <1>1 DEF Leaves, disk, BInv, TypeOK
<1>. QED BY <1>1, <1>3, <1>4, <1>5, <1>6 DEF SharedStep, BInv, NumbersInv

\* An operation that keeps its identifier, or gives it up, takes nobody's.
LEMMA KeptIsDistinct ==
    ASSUME BInv, NEW w \in Workers, job'[w].id \in {Id(w), 0}
    PROVE  Distinct(w)
<1>1. ASSUME NEW u \in Workers \ {w}, pc[u] = "u_insert" PROVE Id(u) # 0 /\ Id(w) # Id(u)
  BY <1>1 DEF BInv, OpInv, Numbered, Control, Unnumbered, CreateOps
<1>. QED BY <1>1 DEF Distinct

\* The operation returns: nothing is left of it.
LEMMA FinishEnds ==
    ASSUME BInv, NEW w \in Workers, Finish(w), SharedOK'
    PROVE  LocalStep(w) /\ ~Unnumbered(w)'
<1>1. TypeOK BY DEF BInv
<1>2. LocalsOK'
  <2>1. NoJob \in Jobs /\ NoPlan \in [purge : SUBSET Ids, trash : SUBSET Ids] /\ 0 \in Versions
        /\ "idle" \in Labels
    BY BoundsAssumption DEF NoJob, Jobs, NoPlan, Versions, Labels
  <2>. QED BY <1>1, <2>1 DEF Finish, Goto, LocalsOK, TypeOK
<1>3. Others(w)
  BY <1>1, ActorsAssumption DEF Finish, Goto, Others, SameLocals, TypeOK
<1>4. pc'[w] = "idle" /\ job'[w] = NoJob /\ plan'[w] = NoPlan /\ w \notin slots'
  BY <1>1 DEF Finish, Goto, TypeOK
<1>5. Distinct(w) BY <1>4, KeptIsDistinct DEF NoJob
<1>6. OpInv(w)'
  <2>1. Control(w)' BY <1>4 DEF Control, NoJob, Holds
  <2>2. Numbered(w)'
    BY <1>4, BoundsAssumption
    DEF Numbered, NoJob, Id, ChangeOps, CreateOps, SharedOK
  <2>3. Planned(w)' BY <1>4 DEF Planned, NoPlan, Sweeping
  <2>4. OnCourse(w)' /\ Restoring(w)' /\ Changing(w)'
    BY <1>4 DEF OnCourse, Restoring, Changing, Sweeping
  <2>. QED BY <2>1, <2>2, <2>3, <2>4 DEF OpInv
<1>7. ~Unnumbered(w)' BY <1>4 DEF Unnumbered, NoJob, CreateOps
<1>. QED BY <1>2, <1>3, <1>5, <1>6, <1>7 DEF LocalStep

\* An operation returns and the numbers stand.
LEMMA FinishKeeps ==
    ASSUME BInv, NEW w \in Workers, Finish(w), SharedStep(w),
           made' = made, budget'.backups = budget.backups
    PROVE  BInv'
<1>1. LocalStep(w) /\ ~Unnumbered(w)' BY FinishEnds DEF SharedStep
<1>2. Counted' BY <1>1, CountKept DEF LocalStep
<1>. QED BY <1>1, <1>2, StepKeeps

\* An operation goes on to its next label.
LEMMA ProceedKeeps ==
    ASSUME BInv, NEW w \in Workers, NEW l \in Labels, Proceed(w, l)
    PROVE  /\ LocalsOK' /\ Others(w) /\ Distinct(w)
           /\ pc'[w] = l /\ job'[w] = job[w] /\ tmp'[w] = tmp[w] /\ plan'[w] = plan[w]
           /\ clean'[w] = clean[w] /\ lock' = lock /\ slots' = slots
<1>1. TypeOK BY DEF BInv
<1>2. LocalsOK' /\ Others(w) BY <1>1 DEF Proceed, Goto, locks, LocalsOK, Others, SameLocals, TypeOK
<1>3. Distinct(w) BY KeptIsDistinct DEF Proceed, Id
<1>. QED BY <1>1, <1>2, <1>3 DEF Proceed, Goto, locks, TypeOK

-----------------------------------------------------------------------------
(* Requests, the lock of a server, cancellation.                           *)

\* The context of a call is cancelled.
LEMMA CancelKeeps ==
    ASSUME BInv, NEW w \in Workers, Cancel(w)
    PROVE  BInv'
<1>1. TypeOK BY DEF BInv
<1>2. budget' \in [ops : 0..MaxOps, backups : 0..MaxBackups, faults : 0..MaxFaults,
                   crashes : 0..MaxCrashes]
      /\ budget'.backups = budget.backups
  <2>1. budget.faults > 0 /\ SpendFault BY DEF Cancel, CanFail
  <2>2. budget.faults - 1 \in 0..MaxFaults BY <1>1, <2>1, BoundsAssumption DEF TypeOK
  <2>. QED BY <1>1, <2>1, <2>2 DEF SpendFault, TypeOK
<1>3. SharedStep(w) BY <1>2, SharedStays DEF Cancel
<1>4. UNCHANGED <<lock, slots, pc, job, tmp, plan, clean>> BY DEF Cancel, locks
<1>5. gone' \in [Workers -> BOOLEAN] BY <1>1 DEF Cancel, TypeOK
<1>6. LocalsOK' /\ Others(w) BY <1>1, <1>4, <1>5 DEF LocalsOK, TypeOK, Others, SameLocals
<1>7. Distinct(w) BY <1>4, KeptIsDistinct DEF Id
<1>8. OpInv(w)'
  <2>1. OpInv(w) /\ UNCHANGED <<rows, archive, world, kept, policy, made>>
    BY DEF Cancel, disk, BInv
  <2>2. Control(w)' BY <1>4, <2>1 DEF OpInv, Control, Of, Holds
  <2>3. Numbered(w)'
    BY <1>4, <2>1 DEF OpInv, Numbered, Of, Id, Unnumbered, Records
  <2>4. Planned(w)' /\ OnCourse(w)' /\ Restoring(w)' /\ Changing(w)'
    BY <1>4, <2>1
    DEF OpInv, Planned, OnCourse, Restoring, Changing, Of, Id, Sweeping, InTrash, Successful,
        Active, Spare, Doomed, Changeable
  <2>. QED BY <2>2, <2>3, <2>4 DEF OpInv
<1>9. Counted' BY <1>2, <1>4, <1>6, CountKept DEF Cancel, Unnumbered
<1>. QED BY <1>3, <1>6, <1>7, <1>8, <1>9, StepKeeps DEF LocalStep

\* A call on a server begins.
LEMMA BeginKeeps ==
    ASSUME BInv, NEW w \in Workers, NEW o \in Ops \ (ChangeOps \union {"restore"}),
           NEW s \in Servers, Begin(w, o, s)
    PROVE  BInv'
<1>1. TypeOK /\ OpInv(w) BY DEF BInv
<1>2. o \in AllOps BY OpsAssumption
<1>3. budget' \in [ops : 0..MaxOps, backups : 0..MaxBackups, faults : 0..MaxFaults,
                   crashes : 0..MaxCrashes]
  <2>1. budget.ops \in 0..MaxOps /\ budget.backups \in 0..MaxBackups BY <1>1 DEF TypeOK
  <2>2. budget.ops > 0 /\ (o \in CreateOps => budget.backups > 0) BY DEF Begin
  <2>3. budget.ops - 1 \in 0..MaxOps
        /\ (o \in CreateOps => budget.backups - 1 \in 0..MaxBackups)
    BY <2>1, <2>2, BoundsAssumption
  <2>. QED BY <1>1, <2>3 DEF Begin, TypeOK
<1>4. SharedStep(w) BY <1>3, SharedStays DEF Begin
<1>5. pc'[w] = "lock" /\ job'[w] = [op |-> o, srv |-> s, id |-> 0, day |-> 0] /\ pc[w] = "idle"
  BY <1>1 DEF Begin, Goto, TypeOK
<1>6. LocalsOK' /\ Others(w)
  <2>1. [op |-> o, srv |-> s, id |-> 0, day |-> 0] \in Jobs BY <1>2, BoundsAssumption DEF Jobs
  <2>. QED BY <1>1, <2>1 DEF Begin, Goto, locks, LocalsOK, TypeOK, Labels, Others, SameLocals
<1>7. Distinct(w) BY <1>5, KeptIsDistinct
<1>8. OpInv(w)'
  <2>1. plan'[w] = NoPlan /\ w \notin slots'
    BY <1>1, <1>5 DEF Begin, locks, OpInv, Planned, Control, Holds
  <2>2. Control(w)' BY <1>2, <1>5, <2>1 DEF Control, Of, Holds
  <2>3. Numbered(w)'
    BY <1>1, <1>5, BoundsAssumption DEF Numbered, Id, Begin, Unnumbered, TypeOK
  <2>4. Planned(w)' BY <1>5, <2>1 DEF Planned, Sweeping, NoPlan
  <2>. QED BY <1>5, <2>2, <2>3, <2>4 DEF OpInv, OnCourse, Restoring, Changing, Sweeping
<1>9. Counted'
  <2>1. CASE o \notin CreateOps
    <3>1. ~Unnumbered(w)' BY <1>5, <2>1 DEF Unnumbered
    <3>2. budget'.backups = budget.backups BY <1>1, <2>1 DEF Begin, TypeOK
    <3>. QED BY <1>6, <3>1, <3>2, CountKept DEF Begin
  <2>2. CASE o \in CreateOps
    <3> DEFINE U == {u \in Workers : Unnumbered(u)}
               V == {u \in Workers : Unnumbered(u)'}
    <3>1. V \in SUBSET (U \union {w}) BY <1>6 DEF Others, SameLocals, Unnumbered
    <3>2. IsFiniteSet(U) BY ActorsAssumption, FS_Subset
    <3>3. IsFiniteSet(U \union {w}) /\ Cardinality(U \union {w}) <= Cardinality(U) + 1
          /\ Cardinality(U) \in Nat
      <4> HIDE DEF U
      <4>1. Cardinality(U) \in Nat BY <3>2, FS_CardinalityType
      <4>2. IsFiniteSet(U \union {w})
            /\ Cardinality(U \union {w}) = IF w \in U THEN Cardinality(U) ELSE Cardinality(U) + 1
        BY <3>2, FS_AddElement, Zenon
      <4>3. CASE w \in U BY <4>1, <4>2, <4>3
      <4>4. CASE w \notin U BY <4>1, <4>2, <4>4
      <4>. QED BY <4>3, <4>4
    <3>4. Cardinality(V) <= Cardinality(U \union {w}) /\ Cardinality(V) \in Nat
          /\ Cardinality(U \union {w}) \in Nat
      BY <3>1, <3>3, FS_Subset, FS_CardinalityType
    <3>5. budget'.backups = budget.backups - 1 /\ made' = made BY <1>1, <2>2 DEF Begin, TypeOK
    <3>6. made + budget.backups + Cardinality(U) <= MaxBackups BY DEF BInv, NumbersInv
    <3>7. made \in Nat /\ budget.backups \in Nat /\ MaxBackups \in Nat
      BY <1>1, BoundsAssumption DEF TypeOK
    <3> HIDE DEF U, V
    <3>8. made' + budget'.backups + Cardinality(V) <= MaxBackups
      BY <3>3, <3>4, <3>5, <3>6, <3>7
    <3>. QED BY <3>8 DEF Counted, V
  <2>. QED BY <2>1, <2>2
<1>. QED BY <1>4, <1>6, <1>7, <1>8, <1>9, StepKeeps DEF LocalStep

\* A call on a backup begins.
LEMMA BeginOnKeeps ==
    ASSUME BInv, NEW w \in Workers, NEW o \in Ops \intersect (ChangeOps \union {"restore"}),
           NEW i \in Ids, BeginOn(w, o, i)
    PROVE  BInv'
<1>1. TypeOK /\ OpInv(w) BY DEF BInv
<1>2. o \in AllOps /\ o \notin CreateOps BY OpsAssumption DEF ChangeOps, CreateOps
<1>3. rows[i].status # "none" /\ rows[i].srv \in Servers /\ i <= made /\ i # 0 /\ i \in 0..MaxBackups
  <2>1. rows[i].status # "none" BY DEF BeginOn
  <2>2. rows[i].srv \in Servers /\ ~(i > made) BY <2>1 DEF BInv, RowsInv, NumbersInv
  <2>3. made \in 0..MaxBackups BY <1>1 DEF TypeOK
  <2>. QED BY <2>1, <2>2, <2>3, BoundsAssumption DEF Ids
<1>4. budget' \in [ops : 0..MaxOps, backups : 0..MaxBackups, faults : 0..MaxFaults,
                   crashes : 0..MaxCrashes]
      /\ budget'.backups = budget.backups
  <2>1. budget.ops - 1 \in 0..MaxOps BY <1>1, BoundsAssumption DEF BeginOn, TypeOK
  <2>. QED BY <1>1, <2>1 DEF BeginOn, TypeOK
<1>5. SharedStep(w) BY <1>4, SharedStays DEF BeginOn
<1>6. pc'[w] = "lock" /\ job'[w] = [op |-> o, srv |-> rows[i].srv, id |-> i, day |-> 0] /\ pc[w] = "idle"
  BY <1>1 DEF BeginOn, Goto, TypeOK
<1>7. LocalsOK' /\ Others(w)
  <2>1. [op |-> o, srv |-> rows[i].srv, id |-> i, day |-> 0] \in Jobs
    BY <1>2, <1>3, BoundsAssumption DEF Jobs
  <2>. QED BY <1>1, <2>1 DEF BeginOn, Goto, locks, LocalsOK, TypeOK, Labels, Others, SameLocals
<1>8. Distinct(w)
  <2>1. ASSUME NEW u \in Workers \ {w}, pc[u] = "u_insert" PROVE rows[Id(u)].status = "none"
    BY <2>1 DEF BInv, OpInv, Numbered
  <2>. QED BY <1>3, <1>6, <2>1 DEF Distinct
<1>9. OpInv(w)'
  <2>1. plan'[w] = NoPlan /\ w \notin slots' /\ made' = made /\ rows' = rows
    BY <1>1, <1>6 DEF BeginOn, locks, OpInv, Planned, Control, Holds
  <2>2. Control(w)' BY <1>2, <1>3, <1>6, <2>1 DEF Control, Of, Holds
  <2>3. Numbered(w)'
    BY <1>1, <1>2, <1>3, <1>6, <2>1, BoundsAssumption DEF Numbered, Id, Of, Unnumbered, TypeOK
  <2>4. Planned(w)' BY <1>6, <2>1 DEF Planned, Sweeping, NoPlan
  <2>. QED BY <1>6, <2>2, <2>3, <2>4 DEF OpInv, OnCourse, Restoring, Changing, Sweeping
<1>10. ~Unnumbered(w)' BY <1>2, <1>6 DEF Unnumbered
<1>11. Counted' BY <1>4, <1>7, <1>10, CountKept DEF BeginOn
<1>. QED BY <1>5, <1>7, <1>8, <1>9, <1>11, StepKeeps DEF LocalStep

\* An operation of a step that changes nothing shared and nothing of its job or plan.
LEMMA StandingStep ==
    ASSUME BInv, NEW w \in Workers, UNCHANGED <<rows, disk, policy, clock, made>>, Quiet,
           budget' \in [ops : 0..MaxOps, backups : 0..MaxBackups, faults : 0..MaxFaults,
                        crashes : 0..MaxCrashes],
           budget'.backups = budget.backups,
           LocalsOK', Others(w), job'[w] = job[w], plan'[w] = plan[w],
           pc[w] \in {"lock", "slot", "check", "r_get", "g_get"},
           Control(w)', Restoring(w)', Changing(w)', Unnumbered(w)' = Unnumbered(w),
           pc'[w] \notin {"u_insert", "b_archive", "b_save", "b_fail", "b_commit",
                          "drop", "c_trash", "c_end"},
           pc'[w] = "remove" =>
              job[w].op = "purge" /\ Id(w) \in InTrash(Of(w)) /\ ~rows[Id(w)].protected,
           pc'[w] = "c_plan" => job[w].op \notin CreateOps
    PROVE  BInv'
<1>1. OpInv(w) /\ TypeOK BY DEF BInv
<1>2. rows' = rows /\ archive' = archive /\ made' = made BY DEF disk
<1>3. plan[w] = NoPlan BY <1>1 DEF OpInv, Planned
<1>4. Numbered(w)' BY <1>1, <1>2 DEF OpInv, Numbered, Id, Of, Records, Unnumbered
<1>5. Planned(w)'
  BY <1>2, <1>3 DEF Planned, NoPlan, Sweeping, InTrash, Id, Of, CreateOps
<1>6. OnCourse(w)' BY DEF OnCourse, Sweeping
<1>7. Distinct(w) BY KeptIsDistinct DEF Id
<1>8. Counted' BY CountKept
<1>9. SharedStep(w) BY SharedStays
<1>. QED BY <1>4, <1>5, <1>6, <1>7, <1>8, <1>9, StepKeeps DEF LocalStep, OpInv

\* lockOperation: the server's lock.
LEMMA TakeLockKeeps ==
    ASSUME BInv, NEW w \in Workers, TakeLock(w)
    PROVE  BInv'
<1>1. TypeOK /\ OpInv(w) BY DEF BInv
<1>2. Of(w) \in Servers BY <1>1 DEF OpInv, Control, TakeLock
<1>3. pc[w] = "lock" /\ pc'[w] = "slot" /\ lock'[Of(w)] = w /\ job' = job /\ plan' = plan
      /\ slots' = slots
  BY <1>1, <1>2 DEF TakeLock, Goto, TypeOK
<1>4. LocalsOK' BY <1>1, <1>2 DEF TakeLock, Goto, LocalsOK, TypeOK, Labels
<1>5. Others(w)
  BY <1>1, <1>2, ActorsAssumption DEF TakeLock, Goto, Others, SameLocals, TypeOK
<1>6. Control(w)' BY <1>1, <1>3 DEF OpInv, Control, Holds, Of
<1>7. budget' \in [ops : 0..MaxOps, backups : 0..MaxBackups, faults : 0..MaxFaults,
                   crashes : 0..MaxCrashes]
  BY <1>1 DEF TakeLock, TypeOK
<1>8. Unnumbered(w)' = Unnumbered(w) BY <1>3 DEF Unnumbered
<1>9. Restoring(w)' /\ Changing(w)' BY <1>3 DEF Restoring, Changing
<1>10. UNCHANGED <<rows, disk, policy, clock, made>> /\ Quiet /\ budget' = budget
  BY DEF TakeLock
<1>. QED BY <1>3, <1>4, <1>5, <1>6, <1>7, <1>8, <1>9, <1>10, StandingStep

\* ... and a slot.
LEMMA TakeSlotKeeps ==
    ASSUME BInv, NEW w \in Workers, TakeSlot(w)
    PROVE  BInv'
<1>1. TypeOK /\ OpInv(w) BY DEF BInv
<1>2. Of(w) \in Servers /\ job[w].op \in AllOps BY <1>1 DEF OpInv, Control, TakeSlot
<1>3. pc[w] = "slot" /\ pc'[w] = AfterLock(job[w].op) /\ job' = job /\ plan' = plan
      /\ lock' = lock /\ slots' = slots \union {w}
  BY <1>1, <1>2 DEF TakeSlot, Goto, TypeOK
<1>4. /\ job[w].op \in {"backup", "restore"} => pc'[w] = "check"
      /\ job[w].op = "upload" => pc'[w] = "u_save"
      /\ job[w].op \in SweepOps => pc'[w] = "c_plan"
      /\ job[w].op \in ChangeOps => pc'[w] = "g_get"
      /\ job[w].op = "policy" => pc'[w] = "policy"
  BY <1>3 DEF AfterLock, SweepOps, ChangeOps
<1>5. pc'[w] \in Labels BY <1>2, <1>4 DEF AllOps, CreateOps, SweepOps, ChangeOps, Labels
<1>6. LocalsOK' BY <1>1, <1>2, <1>3, <1>5 DEF TakeSlot, Goto, LocalsOK, TypeOK
<1>7. Others(w) BY <1>1, <1>2 DEF TakeSlot, Goto, Others, SameLocals, TypeOK
<1>8. Control(w)'
  BY <1>1, <1>2, <1>3, <1>4
  DEF OpInv, Control, Holds, Of, AllOps, CreateOps, SweepOps, ChangeOps
<1>9. budget' \in [ops : 0..MaxOps, backups : 0..MaxBackups, faults : 0..MaxFaults,
                   crashes : 0..MaxCrashes]
  BY <1>1 DEF TakeSlot, TypeOK
<1>10. Unnumbered(w)' = Unnumbered(w) BY <1>2, <1>3, <1>4 DEF Unnumbered, CreateOps
<1>11. Restoring(w)' /\ Changing(w)'
  BY <1>2, <1>4 DEF Restoring, Changing, AllOps, CreateOps, SweepOps, ChangeOps
<1>12. UNCHANGED <<rows, disk, policy, clock, made>> /\ Quiet /\ budget' = budget
  BY DEF TakeSlot
<1>13. /\ pc'[w] \in {"check", "u_save", "c_plan", "g_get", "policy"}
       /\ pc'[w] = "c_plan" => job[w].op \notin CreateOps
  BY <1>2, <1>4 DEF AllOps, CreateOps, SweepOps, ChangeOps
<1>. QED BY <1>3, <1>6, <1>7, <1>8, <1>9, <1>10, <1>11, <1>12, <1>13, StandingStep

\* Either wait of lockOperation ends with the context.
LEMMA GiveUpKeeps ==
    ASSUME BInv, NEW w \in Workers, GiveUp(w)
    PROVE  BInv'
<1>1. budget' \in [ops : 0..MaxOps, backups : 0..MaxBackups, faults : 0..MaxFaults,
                   crashes : 0..MaxCrashes]
  BY DEF GiveUp, BInv, TypeOK
<1>2. SharedStep(w) BY <1>1, SharedStays DEF GiveUp
<1>. QED BY <1>2, FinishKeeps DEF GiveUp

\* withData before its callback.
LEMMA CheckKeeps ==
    ASSUME BInv, NEW w \in Workers, Check(w)
    PROVE  BInv'
<1>1. TypeOK /\ OpInv(w) BY DEF BInv
<1>2. budget' \in [ops : 0..MaxOps, backups : 0..MaxBackups, faults : 0..MaxFaults,
                   crashes : 0..MaxCrashes]
      /\ budget' = budget
  BY <1>1 DEF Check, TypeOK
<1>3. SharedStep(w) BY <1>2, SharedStays DEF Check
<1>4. CASE Finish(w) BY <1>2, <1>3, <1>4, FinishKeeps DEF Check
<1>5. CASE Proceed(w, IF job[w].op = "backup" THEN "b_insert" ELSE "r_get")
  <2> DEFINE l == IF job[w].op = "backup" THEN "b_insert" ELSE "r_get"
  <2>1. l \in Labels /\ l \in {"b_insert", "r_get"} /\ (l = "b_insert" <=> job[w].op = "backup")
    BY DEF Labels
  <2>2. /\ LocalsOK' /\ Others(w) /\ Distinct(w)
        /\ pc'[w] = l /\ job'[w] = job[w] /\ plan'[w] = plan[w]
        /\ lock' = lock /\ slots' = slots
    BY <1>5, <2>1, ProceedKeeps
  <2> HIDE DEF l
  <2>3. pc[w] = "check" /\ job[w].op \in {"backup", "restore"}
    BY <1>1 DEF Check, OpInv, Control
  <2>4. Control(w)' BY <1>1, <2>1, <2>2, <2>3 DEF OpInv, Control, Holds, Of
  <2>5. Unnumbered(w)' = Unnumbered(w) BY <2>1, <2>2, <2>3 DEF Unnumbered, CreateOps
  <2>6. Restoring(w)' /\ Changing(w)' BY <2>1, <2>2 DEF Restoring, Changing
  <2>. QED BY <1>2, <2>1, <2>2, <2>3, <2>4, <2>5, <2>6, StandingStep DEF Check
<1>. QED BY <1>4, <1>5 DEF Check

-----------------------------------------------------------------------------
(* Restore                                                                 *)

\* Restore reads the record again under the lock.
LEMMA RestoreGetKeeps ==
    ASSUME BInv, NEW w \in Workers, RestoreGet(w)
    PROVE  BInv'
<1>1. TypeOK /\ OpInv(w) BY DEF BInv
<1>2. budget' \in [ops : 0..MaxOps, backups : 0..MaxBackups, faults : 0..MaxFaults,
                   crashes : 0..MaxCrashes]
      /\ budget'.backups = budget.backups
  BY <1>1, BudgetKept DEF RestoreGet
<1>3. SharedStep(w) BY <1>2, SharedStays DEF RestoreGet
<1>4. CASE Finish(w) BY <1>2, <1>3, <1>4, FinishKeeps DEF RestoreGet
<1>5. CASE /\ rows[Id(w)].status = "completed" /\ rows[Id(w)].deleted = 0
           /\ Proceed(w, "r_stage")
  <2>1. /\ LocalsOK' /\ Others(w) /\ Distinct(w)
        /\ pc'[w] = "r_stage" /\ job'[w] = job[w] /\ plan'[w] = plan[w]
        /\ lock' = lock /\ slots' = slots
    BY <1>5, ProceedKeeps DEF Labels
  <2>2. pc[w] = "r_get" /\ job[w].op = "restore" BY <1>1 DEF RestoreGet, OpInv, Control
  <2>3. Control(w)' BY <1>1, <2>1, <2>2 DEF OpInv, Control, Holds, Of
  <2>4. Unnumbered(w)' = Unnumbered(w) BY <2>1, <2>2 DEF Unnumbered, CreateOps
  <2>5. Id(w) \in Ids /\ rows[Id(w)].srv = Of(w)
    <3>1. Id(w) # 0 /\ Id(w) \in 0..made /\ rows[Id(w)].srv = Of(w)
      BY <1>1, <1>5, <2>2 DEF OpInv, Numbered
    <3>. QED BY <3>1, <1>1, BoundsAssumption DEF TypeOK, Ids
  <2>6. Restoring(w)' /\ Changing(w)'
    BY <1>5, <2>1, <2>5 DEF Restoring, Changing, Successful, Active, Of, Id, RestoreGet
  <2>. QED BY <1>2, <2>1, <2>2, <2>3, <2>4, <2>6, StandingStep DEF RestoreGet
<1>. QED BY <1>4, <1>5 DEF RestoreGet

\* The archive is extracted.
LEMMA RestoreStageKeeps ==
    ASSUME BInv, NEW w \in Workers, RestoreStage(w)
    PROVE  BInv'
<1>1. TypeOK /\ OpInv(w) BY DEF BInv
<1>2. budget' \in [ops : 0..MaxOps, backups : 0..MaxBackups, faults : 0..MaxFaults,
                   crashes : 0..MaxCrashes]
      /\ budget'.backups = budget.backups
  BY <1>1, BudgetKept DEF RestoreStage
<1>3. SharedStep(w) BY <1>2, SharedStays DEF RestoreStage
<1>4. CASE Finish(w) BY <1>2, <1>3, <1>4, FinishKeeps DEF RestoreStage
<1>5. CASE /\ archive[Id(w)] # 0 /\ tmp' = [tmp EXCEPT ![w] = archive[Id(w)]]
           /\ Goto(w, "r_aside") /\ UNCHANGED <<locks, job, plan, clean, gone>>
  <2>1. pc[w] = "r_stage" /\ job[w].op = "restore" /\ Id(w) \in Successful(Of(w))
        /\ Id(w) \in Ids
    BY <1>1 DEF RestoreStage, OpInv, Control, Restoring, Successful, Active
  <2>2. LocalsOK' /\ Others(w)
    BY <1>1, <1>5, <2>1 DEF Goto, locks, LocalsOK, TypeOK, Labels, Others, SameLocals
  <2>3. /\ pc'[w] = "r_aside" /\ job' = job /\ plan' = plan /\ clean' = clean
        /\ lock' = lock /\ slots' = slots /\ tmp'[w] = archive[Id(w)]
    BY <1>1, <1>5 DEF Goto, locks, TypeOK
  <2>4. UNCHANGED <<rows, archive, world, kept, policy, made>> BY DEF RestoreStage, disk
  <2>5. Control(w)' BY <1>1, <2>1, <2>3 DEF OpInv, Control, Holds, Of
  <2>6. Numbered(w)' BY <1>1, <2>1, <2>3, <2>4 DEF OpInv, Numbered, Id, Of, CreateOps
  <2>7. Planned(w)' BY <1>1, <2>1, <2>3 DEF OpInv, Planned, NoPlan, Sweeping
  <2>8. OnCourse(w)' /\ Changing(w)' BY <2>3 DEF OnCourse, Changing, Sweeping
  <2>9. Restoring(w)'
    BY <1>5, <2>1, <2>3, <2>4 DEF Restoring, Id, Of, Successful, Active
  <2>10. Distinct(w) BY <2>3, KeptIsDistinct DEF Id
  <2>11. ~Unnumbered(w)' BY <2>3 DEF Unnumbered
  <2>12. Counted' BY <1>2, <2>2, <2>4, <2>11, CountKept
  <2>. QED BY <1>3, <2>2, <2>5, <2>6, <2>7, <2>8, <2>9, <2>10, <2>12, StepKeeps
           DEF LocalStep, OpInv
<1>. QED BY <1>4, <1>5 DEF RestoreStage

\* A change reads its record under the lock.
LEMMA ChangeGetKeeps ==
    ASSUME BInv, NEW w \in Workers, ChangeGet(w)
    PROVE  BInv'
<1>1. TypeOK /\ OpInv(w) BY DEF BInv
<1>2. budget' \in [ops : 0..MaxOps, backups : 0..MaxBackups, faults : 0..MaxFaults,
                   crashes : 0..MaxCrashes]
      /\ budget'.backups = budget.backups
  BY <1>1, BudgetKept DEF ChangeGet
<1>3. SharedStep(w) BY <1>2, SharedStays DEF ChangeGet
<1>4. CASE Finish(w) BY <1>2, <1>3, <1>4, FinishKeeps DEF ChangeGet
<1>5. CASE /\ Changeable(job[w].op, rows[Id(w)])
           /\ Proceed(w, IF job[w].op = "purge" THEN "remove" ELSE "g_write")
  <2> DEFINE l == IF job[w].op = "purge" THEN "remove" ELSE "g_write"
  <2>1. l \in Labels /\ l \in {"remove", "g_write"} /\ (l = "remove" <=> job[w].op = "purge")
    BY DEF Labels
  <2>2. /\ LocalsOK' /\ Others(w) /\ Distinct(w)
        /\ pc'[w] = l /\ job'[w] = job[w] /\ plan'[w] = plan[w]
        /\ lock' = lock /\ slots' = slots
    BY <1>5, <2>1, ProceedKeeps
  <2> HIDE DEF l
  <2>3. pc[w] = "g_get" /\ job[w].op \in ChangeOps BY <1>1 DEF ChangeGet, OpInv, Control
  <2>4. Control(w)' BY <1>1, <2>1, <2>2, <2>3 DEF OpInv, Control, Holds, Of
  <2>5. Unnumbered(w)' = Unnumbered(w)
    BY <2>2, <2>3 DEF Unnumbered, CreateOps, ChangeOps
  <2>6. Id(w) \in Ids /\ rows[Id(w)].srv = Of(w) /\ rows[Id(w)].status # "none"
    <3>1. Id(w) # 0 /\ Id(w) \in 0..made /\ rows[Id(w)].srv = Of(w)
          /\ rows[Id(w)].status # "none"
      BY <1>1, <1>5, <2>3 DEF OpInv, Numbered, Changeable
    <3>. QED BY <3>1, <1>1, BoundsAssumption DEF TypeOK, Ids
  <2>7. rows' = rows BY DEF ChangeGet
  <2>8. Restoring(w)' /\ Changing(w)'
    BY <1>5, <2>1, <2>2, <2>7 DEF Restoring, Changing, Changeable, Id
  <2>9. l = "remove" =>
          job[w].op = "purge" /\ Id(w) \in InTrash(Of(w)) /\ ~rows[Id(w)].protected
    BY <1>5, <2>1, <2>6 DEF Changeable, InTrash
  <2>. QED BY <1>2, <2>1, <2>2, <2>3, <2>4, <2>5, <2>8, <2>9, StandingStep DEF ChangeGet
<1>. QED BY <1>4, <1>5 DEF ChangeGet

-----------------------------------------------------------------------------
(* What the steps write.                                                   *)

BudgetOK ==
    budget \in [ops : 0..MaxOps, backups : 0..MaxBackups, faults : 0..MaxFaults,
                crashes : 0..MaxCrashes]
NoteOK == note \in [kind : {"none", "completed", "failed"}, id : 0..MaxBackups]

\* A record of the server is written.
LEMMA RowWritten ==
    ASSUME BInv, NEW w \in Workers, Holds(w), Of(w) \in Servers, NEW i \in Ids, NEW r \in Rows,
           rows' = [rows EXCEPT ![i] = r],
           r.status = "none" => r = NoRow,
           r.status # "none" => r.srv = Of(w) /\ i <= made',
           r.protected => r.status = "completed" /\ r.deleted = 0,
           r.status = "pending" => r.deleted = 0,
           rows[i].status # "none" => rows[i].srv = Of(w),
           rows[i].status = "none" => \A u \in Workers \ {w} : Id(u) # i,
           UNCHANGED <<disk, policy, clock>>, made' \in made..MaxBackups,
           BudgetOK', NoteOK', AnnouncedTruthfully'
    PROVE  SharedStep(w)
<1>1. TypeOK BY DEF BInv
<1>2. archive' = archive /\ world' = world /\ kept' = kept /\ policy' = policy /\ clock' = clock
  BY DEF disk
<1>3. rows' \in [Ids -> Rows] /\ rows'[i] = r /\ \A j \in Ids \ {i} : rows'[j] = rows[j]
  BY <1>1 DEF TypeOK
<1>4. made \in 0..MaxBackups /\ made' \in 0..MaxBackups /\ made' >= made
  BY <1>1, BoundsAssumption DEF TypeOK
<1>5. SharedOK' BY <1>1, <1>2, <1>3, <1>4 DEF SharedOK, TypeOK, BudgetOK, NoteOK
<1>6. RowsInv' BY <1>3 DEF BInv, RowsInv
<1>7. Leaves(w) BY <1>2, <1>3, <1>4 DEF Leaves
<1>8. \A j \in Ids : j > made' => rows'[j].status = "none"
  BY <1>3, <1>4 DEF BInv, NumbersInv, Ids
<1>. QED BY <1>5, <1>6, <1>7, <1>8 DEF SharedStep

\* An archive is written or removed.
LEMMA ArchiveWritten ==
    ASSUME BInv, NEW w \in Workers, Holds(w), NEW i \in Ids, NEW v \in Versions,
           archive' = [archive EXCEPT ![i] = v],
           rows[i].status # "none" => rows[i].srv = Of(w),
           UNCHANGED <<rows, world, kept, policy, clock>>, made' \in made..MaxBackups,
           BudgetOK', Quiet
    PROVE  SharedStep(w)
<1>1. TypeOK BY DEF BInv
<1>2. archive' \in [Ids -> Versions] /\ \A j \in Ids \ {i} : archive'[j] = archive[j]
  BY <1>1 DEF TypeOK
<1>3. made \in 0..MaxBackups /\ made' \in 0..MaxBackups /\ made' >= made
  BY <1>1, BoundsAssumption DEF TypeOK
<1>4. NoteOK' /\ AnnouncedTruthfully'
  BY BoundsAssumption DEF Quiet, NoNote, NoteOK, AnnouncedTruthfully
<1>5. SharedOK' BY <1>1, <1>2, <1>3, <1>4 DEF SharedOK, TypeOK, BudgetOK, NoteOK
<1>6. RowsInv' BY DEF BInv, RowsInv
<1>7. Leaves(w) BY <1>2, <1>3 DEF Leaves
<1>8. \A j \in Ids : j > made' => rows'[j].status = "none"
  BY <1>3 DEF BInv, NumbersInv, Ids
<1>. QED BY <1>4, <1>5, <1>6, <1>7, <1>8 DEF SharedStep

\* The files of the server or its policy change.
LEMMA FilesWritten ==
    ASSUME BInv, NEW w \in Workers, Holds(w),
           world' \in [Servers -> Versions], kept' \in [Servers -> Seq(Versions)],
           policy' \in [Servers -> Policies],
           \A s \in Servers \ {Of(w)} :
              world'[s] = world[s] /\ kept'[s] = kept[s] /\ policy'[s] = policy[s],
           UNCHANGED <<rows, archive, clock, made>>, BudgetOK', Quiet
    PROVE  SharedStep(w)
<1>1. TypeOK BY DEF BInv
<1>2. NoteOK' /\ AnnouncedTruthfully'
  BY BoundsAssumption DEF Quiet, NoNote, NoteOK, AnnouncedTruthfully
<1>3. SharedOK' BY <1>1, <1>2 DEF SharedOK, TypeOK, BudgetOK, NoteOK
<1>4. RowsInv' BY DEF BInv, RowsInv
<1>5. Leaves(w) BY <1>1 DEF Leaves, TypeOK
<1>. QED BY <1>2, <1>3, <1>4, <1>5 DEF SharedStep, BInv, NumbersInv

-----------------------------------------------------------------------------
(* Backup and UploadBackup                                                 *)

\* An identifier is left for an operation that waits for one, and nobody has it.
LEMMA NumberLeft ==
    ASSUME BInv, NEW w \in Workers, Unnumbered(w)
    PROVE  /\ made + 1 \in Ids /\ made + 1 \in made..MaxBackups
           /\ rows[made + 1] = NoRow
           /\ \A u \in Workers : Id(u) \in Int /\ Id(u) < made + 1
           /\ \A i \in Ids : rows[i].status # "none" => i <= made
<1> DEFINE U == {u \in Workers : Unnumbered(u)}
<1>1. TypeOK BY DEF BInv
<1>2. IsFiniteSet(U) BY ActorsAssumption, FS_Subset
<1>3. Cardinality(U) \in Nat /\ Cardinality(U) # 0
  <2>1. U # {} OBVIOUS
  <2> HIDE DEF U
  <2>. QED BY <1>2, <2>1, FS_CardinalityType, FS_EmptySet
<1>4. made + budget.backups + Cardinality(U) <= MaxBackups BY DEF BInv, NumbersInv
<1>5. made \in Nat /\ budget.backups \in Nat /\ MaxBackups \in Nat
  BY <1>1, BoundsAssumption DEF TypeOK
<1> HIDE DEF U
<1>6. made + 1 \in Ids /\ made + 1 \in made..MaxBackups BY <1>3, <1>4, <1>5 DEF Ids
<1>7. rows[made + 1] = NoRow BY <1>1, <1>5, <1>6 DEF BInv, NumbersInv, TypeOK
<1>8. ASSUME NEW u \in Workers PROVE Id(u) \in Int /\ Id(u) < made + 1
  <2>1. Id(u) \in 0..made BY DEF BInv, OpInv, Numbered
  <2>. QED BY <2>1, <1>5
<1>9. ASSUME NEW i \in Ids, rows[i].status # "none" PROVE i <= made
  BY <1>5, <1>9 DEF BInv, NumbersInv, Ids
<1>. QED BY <1>6, <1>7, <1>8, <1>9

\* A backup that gets its identifier leaves the wait for one.
LEMMA NumberTaken ==
    ASSUME BInv, NEW w \in Workers, Unnumbered(w), Others(w), ~Unnumbered(w)',
           made' = made + 1, budget'.backups = budget.backups
    PROVE  Counted'
<1> DEFINE U == {u \in Workers : Unnumbered(u)}
           V == {u \in Workers : Unnumbered(u)'}
<1>1. V \in SUBSET (U \ {w}) BY DEF Others, SameLocals, Unnumbered
<1>2. IsFiniteSet(U) /\ w \in U BY ActorsAssumption, FS_Subset
<1> HIDE DEF U, V
<1>3. IsFiniteSet(U \ {w}) /\ Cardinality(U \ {w}) = Cardinality(U) - 1
  BY <1>2, FS_RemoveElement
<1>4. Cardinality(U) \in Nat /\ Cardinality(V) \in Nat /\ Cardinality(V) <= Cardinality(U \ {w})
  BY <1>1, <1>2, <1>3, FS_Subset, FS_CardinalityType
<1>5. made + budget.backups + Cardinality(U) <= MaxBackups BY DEF BInv, NumbersInv, U
<1>6. made \in Nat /\ budget.backups \in Nat /\ MaxBackups \in Nat
  BY BoundsAssumption DEF BInv, TypeOK
<1>7. made' + budget'.backups + Cardinality(V) <= MaxBackups BY <1>3, <1>4, <1>5, <1>6
<1>. QED BY <1>7 DEF Counted, V

\* A backup at work on its pending record.
LEMMA PendingStep ==
    ASSUME BInv, NEW w \in Workers, SharedStep(w), LocalsOK', Holds(w), Of(w) \in Servers,
           lock' = lock, slots' = slots, plan'[w] = plan[w],
           pc[w] \in {"b_insert", "b_archive", "b_save"},
           pc'[w] \in {"b_archive", "b_save", "b_fail", "b_commit"},
           job'[w].op = "backup", job'[w].srv = Of(w), Id(w)' \in 1..made',
           Id(w)' \in Ids, rows'[Id(w)'].srv = Of(w), rows'[Id(w)'].status = "pending",
           \A i \in Ids : rows'[i].srv = Of(w) /\ rows'[i].status # "none" => i <= Id(w)'
    PROVE  OpInv(w)' /\ ~Unnumbered(w)'
<1>1. OpInv(w) BY DEF BInv
<1>2. Control(w)' BY <1>1 DEF OpInv, Control, Holds, Of, AllOps, CreateOps
<1>3. Numbered(w)'
  BY DEF Numbered, Records, Of, Id, ChangeOps, CreateOps
<1>4. plan'[w] = NoPlan BY <1>1 DEF OpInv, Planned
<1>5. Planned(w)' BY <1>4 DEF Planned, NoPlan, Sweeping
<1>6. OnCourse(w)' /\ Restoring(w)' /\ Changing(w)' /\ ~Unnumbered(w)'
  BY DEF OnCourse, Restoring, Changing, Sweeping, Unnumbered
<1>. QED BY <1>2, <1>3, <1>5, <1>6 DEF OpInv

\* What the invariant says of a backup at work on its record.
LEMMA PendingFacts ==
    ASSUME BInv, NEW w \in Workers, pc[w] \in {"b_archive", "b_save", "b_fail", "b_commit"}
    PROVE  /\ Holds(w) /\ Of(w) \in Servers /\ job[w].op = "backup" /\ ~Unnumbered(w)
           /\ Id(w) \in Ids /\ Id(w) \in 1..made
           /\ rows[Id(w)].srv = Of(w) /\ rows[Id(w)].status = "pending"
           /\ \A i \in Ids : rows[i].srv = Of(w) /\ rows[i].status # "none" => i <= Id(w)
<1>1. TypeOK /\ OpInv(w) BY DEF BInv
<1>2. Holds(w) /\ Of(w) \in Servers /\ job[w].op = "backup" /\ ~Unnumbered(w)
  BY <1>1 DEF OpInv, Control, Holds, Unnumbered
<1>3. /\ Id(w) \in 0..made /\ Id(w) # 0 /\ Id(w) \in Records(Of(w))
      /\ rows[Id(w)].status = "pending" /\ \A i \in Records(Of(w)) : i <= Id(w)
  BY <1>1, <1>2 DEF OpInv, Numbered, CreateOps
<1>. QED BY <1>1, <1>2, <1>3 DEF Records, TypeOK

\* The record is inserted as pending.
LEMMA BackupInsertKeeps ==
    ASSUME BInv, NEW w \in Workers, BackupInsert(w)
    PROVE  BInv'
<1>1. TypeOK /\ OpInv(w) BY DEF BInv
<1>2. pc[w] = "b_insert" /\ job[w].op = "backup" /\ Of(w) \in Servers /\ Holds(w)
      /\ Unnumbered(w) /\ Id(w) \in 0..made
  BY <1>1 DEF BackupInsert, OpInv, Control, Numbered, Holds, Unnumbered, CreateOps
<1> DEFINE n == made + 1
<1>3. /\ n \in Ids /\ n \in made..MaxBackups /\ rows[n] = NoRow
      /\ \A u \in Workers : Id(u) \in Int /\ Id(u) < n
      /\ \A i \in Ids : rows[i].status # "none" => i <= made
  BY <1>2, NumberLeft
<1>4. BudgetOK' /\ budget'.backups = budget.backups
  BY <1>1, BudgetKept DEF BackupInsert, BudgetOK
<1>5. made' = n /\ UNCHANGED <<disk, policy, clock>> BY DEF BackupInsert
<1> HIDE DEF n
<1>6. \A u \in Workers \ {w} : Id(u) # n BY <1>3 DEF Ids
<1>7. n \in Int /\ made \in Nat BY <1>1, <1>3 DEF Ids, TypeOK
<1>8. CASE Record(w, n, "pending", clock) /\ Quiet /\ job' = [job EXCEPT ![w].id = n]
           /\ Goto(w, "b_archive") /\ UNCHANGED <<locks, tmp, plan, clean, gone>>
  <2> DEFINE r == [srv |-> Of(w), status |-> "pending", protected |-> FALSE,
                   created |-> clock, deleted |-> 0]
  <2>1. r \in Rows BY <1>1, <1>2, BoundsAssumption DEF Rows, Statuses, TypeOK
  <2>2. rows' = [rows EXCEPT ![n] = r] BY <1>8 DEF Record
  <2>3. NoteOK' /\ AnnouncedTruthfully'
    BY <1>8, BoundsAssumption DEF Quiet, NoNote, NoteOK, AnnouncedTruthfully
  <2>4. r.status = "pending" /\ r.srv = Of(w) /\ r.protected = FALSE /\ r.deleted = 0 OBVIOUS
  <2> HIDE DEF r
  <2>5. rows[n].status = "none" BY <1>3 DEF NoRow
  <2>6. SharedStep(w)
    <3>1. n <= made' /\ made' \in made..MaxBackups BY <1>3, <1>5, <1>7
    <3>2. r.status # "none" /\ ~r.protected BY <2>4
    <3>. QED
      BY <1>2, <1>3, <1>4, <1>5, <1>6, <2>1, <2>2, <2>3, <2>4, <2>5, <3>1, <3>2, RowWritten
  <2>7. n \in 0..MaxBackups BY <1>3, BoundsAssumption DEF Ids
  <2>8. LocalsOK'
    <3>1. [job[w] EXCEPT !.id = n] \in Jobs
      <4>1. job[w] \in Jobs BY <1>1 DEF TypeOK
      <4>. QED BY <4>1, <2>7 DEF Jobs
    <3>2. job' \in [Workers -> Jobs] BY <1>1, <1>8, <3>1 DEF TypeOK
    <3>. QED BY <1>1, <1>8, <3>2 DEF LocalsOK, TypeOK, Goto, locks, Labels
  <2>9. Others(w) BY <1>1, <1>8 DEF Others, SameLocals, TypeOK, Goto, locks
  <2>10. /\ pc'[w] = "b_archive" /\ job'[w].op = "backup" /\ job'[w].srv = Of(w)
         /\ job'[w].id = n /\ plan' = plan /\ lock' = lock /\ slots' = slots
    BY <1>1, <1>2, <1>8 DEF TypeOK, Goto, locks, Of, Jobs
  <2>11. Distinct(w) BY <1>6, <2>10 DEF Distinct
  <2>12. rows'[n] = r /\ \A i \in Ids \ {n} : rows'[i] = rows[i] BY <1>1, <1>3, <2>2 DEF TypeOK
  <2>13. n \in 1..made' BY <1>3, <1>5 DEF Ids
  <2>14. OpInv(w)' /\ ~Unnumbered(w)'
    <3>1. \A i \in Ids : rows'[i].srv = Of(w) /\ rows'[i].status # "none" => i <= n
      BY <1>3, <1>7, <2>12 DEF Ids
    <3>. QED BY <1>2, <1>3, <2>4, <2>6, <2>8, <2>10, <2>12, <2>13, <3>1, PendingStep DEF Id
  <2>15. Counted' BY <1>2, <1>4, <1>5, <2>9, <2>14, NumberTaken DEF n
  <2>. QED BY <2>6, <2>8, <2>9, <2>11, <2>14, <2>15, StepKeeps DEF LocalStep
<1>9. CASE Announce("failed", n) /\ Finish(w) /\ UNCHANGED rows
  <2>1. note' = [kind |-> "failed", id |-> n] /\ n \in 0..MaxBackups
    BY <1>3, <1>9, BoundsAssumption DEF Announce, Ids
  <2>2. NoteOK' BY <2>1 DEF NoteOK
  <2>3. rows'[n] = NoRow /\ rows' = [rows EXCEPT ![n] = NoRow]
    BY <1>1, <1>3, <1>9 DEF TypeOK
  <2>4. AnnouncedTruthfully' BY <2>1, <2>3 DEF AnnouncedTruthfully, NoRow
  <2>5. NoRow \in Rows /\ NoRow.status = "none" /\ NoRow.protected = FALSE
    BY BoundsAssumption DEF NoRow, Rows, Statuses
  <2>6. SharedStep(w)
    BY <1>2, <1>3, <1>4, <1>5, <1>6, <2>2, <2>3, <2>4, <2>5, RowWritten
  <2>7. LocalStep(w) /\ ~Unnumbered(w)' BY <1>9, <2>6, FinishEnds DEF SharedStep
  <2>8. Counted' BY <1>2, <1>4, <1>5, <2>7, NumberTaken DEF LocalStep, n
  <2>. QED BY <2>6, <2>7, <2>8, StepKeeps
<1>. QED BY <1>8, <1>9 DEF BackupInsert, n

\* The world is archived into a temporary file, or cannot be.
LEMMA BackupArchiveKeeps ==
    ASSUME BInv, NEW w \in Workers, BackupArchive(w)
    PROVE  BInv'
<1>1. TypeOK BY DEF BInv
<1>2. pc[w] = "b_archive" BY DEF BackupArchive
<1>3. BudgetOK' /\ budget'.backups = budget.backups
  BY <1>1, BudgetKept DEF BackupArchive, BudgetOK
<1>4. SharedStep(w) BY <1>3, SharedStays DEF BackupArchive, BudgetOK
<1>5. /\ LocalsOK' /\ Others(w) /\ job' = job /\ plan' = plan /\ lock' = lock /\ slots' = slots
      /\ pc'[w] \in {"b_save", "b_fail"}
  <2>1. CASE Proceed(w, "b_fail")
    BY <1>1, <2>1 DEF Proceed, Goto, locks, LocalsOK, Others, SameLocals, TypeOK, Labels
  <2>2. CASE /\ tmp' = [tmp EXCEPT ![w] = world[Of(w)]] /\ Goto(w, "b_save")
             /\ UNCHANGED <<locks, job, plan, clean, gone>>
    <3>1. world[Of(w)] \in Versions BY <1>1, <1>2, PendingFacts DEF TypeOK
    <3>. QED BY <1>1, <2>2, <3>1 DEF Goto, locks, LocalsOK, Others, SameLocals, TypeOK, Labels
  <2>. QED BY <2>1, <2>2 DEF BackupArchive
<1>6. OpInv(w)' /\ ~Unnumbered(w)'
  <2>1. rows' = rows /\ made' = made BY DEF BackupArchive
  <2>. QED BY <1>2, <1>4, <1>5, <2>1, PendingFacts, PendingStep DEF Id, Of
<1>7. Distinct(w) BY <1>5, KeptIsDistinct DEF Id
<1>8. Counted' BY <1>3, <1>5, <1>6, CountKept DEF BackupArchive
<1>. QED BY <1>4, <1>5, <1>6, <1>7, <1>8, StepKeeps DEF LocalStep

\* The archive is saved, or cannot be.
LEMMA BackupSaveKeeps ==
    ASSUME BInv, NEW w \in Workers, BackupSave(w)
    PROVE  BInv'
<1>1. TypeOK BY DEF BInv
<1>2. pc[w] = "b_save" BY DEF BackupSave
<1>3. BudgetOK' /\ budget'.backups = budget.backups
  BY <1>1, BudgetKept DEF BackupSave, BudgetOK
<1>4. SharedStep(w)
  <2>1. CASE archive' = [archive EXCEPT ![Id(w)] = tmp[w]]
    <3>1. tmp[w] \in Versions /\ made' \in made..MaxBackups
      BY <1>1, BoundsAssumption DEF TypeOK, BackupSave
    <3>. QED BY <1>2, <1>3, <2>1, <3>1, PendingFacts, ArchiveWritten DEF BackupSave
  <2>2. CASE UNCHANGED archive BY <1>3, <2>2, SharedStays DEF BackupSave, disk, BudgetOK
  <2>. QED BY <2>1, <2>2 DEF BackupSave
<1>5. /\ LocalsOK' /\ Others(w) /\ Distinct(w) /\ job'[w] = job[w] /\ plan'[w] = plan[w]
      /\ lock' = lock /\ slots' = slots /\ pc'[w] \in {"b_commit", "b_fail"}
  BY ProceedKeeps DEF BackupSave, Labels
<1>6. OpInv(w)' /\ ~Unnumbered(w)'
  <2>1. rows' = rows /\ made' = made BY DEF BackupSave
  <2>. QED BY <1>2, <1>4, <1>5, <2>1, PendingFacts, PendingStep DEF Id, Of
<1>7. Counted' BY <1>3, <1>5, <1>6, CountKept DEF BackupSave
<1>. QED BY <1>4, <1>5, <1>6, <1>7, StepKeeps DEF LocalStep

\* SetStatus(failed).
LEMMA BackupFailKeeps ==
    ASSUME BInv, NEW w \in Workers, BackupFail(w)
    PROVE  BInv'
<1>1. TypeOK BY DEF BInv
<1>2. pc[w] = "b_fail" /\ Finish(w) /\ note' = [kind |-> "failed", id |-> Id(w)]
      /\ UNCHANGED <<disk, policy, clock, made>>
  BY DEF BackupFail, Announce
<1>3. BudgetOK' /\ budget'.backups = budget.backups
  BY <1>1, BudgetKept DEF BackupFail, BudgetOK
<1>4. /\ Holds(w) /\ Of(w) \in Servers /\ Id(w) \in Ids /\ Id(w) \in 1..made
      /\ rows[Id(w)].srv = Of(w) /\ rows[Id(w)].status = "pending"
  BY <1>2, PendingFacts
<1>5. NoteOK' BY <1>2, <1>4 DEF NoteOK, Ids
<1>6. rows[Id(w)] \in Rows /\ rows[Id(w)].deleted = 0 /\ ~rows[Id(w)].protected
  BY <1>1, <1>4 DEF TypeOK, BInv, RowsInv
<1>7. SharedStep(w)
  <2>1. ASSUME NEW r \in Rows, rows' = [rows EXCEPT ![Id(w)] = r], r.srv = Of(w),
               r.status \in {"failed", "pending"}, r.deleted = 0, ~r.protected
        PROVE  SharedStep(w)
    <3>1. AnnouncedTruthfully'
      <4>1. rows'[Id(w)] = r BY <1>1, <1>4, <2>1 DEF TypeOK
      <4>. QED BY <1>2, <2>1, <4>1 DEF AnnouncedTruthfully
    <3>2. made' \in made..MaxBackups /\ Id(w) <= made'
      BY <1>1, <1>2, <1>4, BoundsAssumption DEF TypeOK
    <3>. QED BY <1>2, <1>3, <1>4, <1>5, <2>1, <3>1, <3>2, RowWritten
  <2>2. CASE rows' = [rows EXCEPT ![Id(w)].status = "failed"]
    <3> DEFINE r == [rows[Id(w)] EXCEPT !.status = "failed"]
    <3>1. r \in Rows /\ r.srv = Of(w) /\ r.status = "failed" /\ r.deleted = 0 /\ ~r.protected
      BY <1>4, <1>6 DEF Rows, Statuses
    <3>2. rows' = [rows EXCEPT ![Id(w)] = r] BY <2>2
    <3>. QED BY <2>1, <3>1, <3>2
  <2>3. CASE UNCHANGED rows
    <3>1. rows' = [rows EXCEPT ![Id(w)] = rows[Id(w)]] BY <1>1, <1>4, <2>3 DEF TypeOK
    <3>. QED BY <1>4, <1>6, <2>1, <3>1
  <2>. QED BY <2>2, <2>3 DEF BackupFail
<1>. QED BY <1>2, <1>3, <1>7, FinishKeeps

\* The sweep after a backup or an upload that has just been completed.
LEMMA SweepBegins ==
    ASSUME BInv, NEW w \in Workers, SharedStep(w), LocalsOK', Holds(w), Of(w) \in Servers,
           lock' = lock, slots' = slots, plan'[w] = NoPlan, pc[w] # "slot",
           pc'[w] = "c_plan", job'[w] = job[w], job[w].op \in CreateOps, made' = made,
           Id(w) \in Ids, Id(w) \in 1..made,
           rows'[Id(w)].srv = Of(w), rows'[Id(w)].status = "completed", rows'[Id(w)].deleted = 0,
           \A i \in Ids : rows'[i].srv = Of(w) /\ rows'[i].status # "none" => i <= Id(w)
    PROVE  OpInv(w)' /\ ~Unnumbered(w)'
<1>1. OpInv(w) BY DEF BInv
<1>2. Control(w)' BY <1>1 DEF OpInv, Control, Holds, Of, AllOps, CreateOps
<1>3. Numbered(w)' BY DEF Numbered, Records, Of, Id, ChangeOps, CreateOps
<1>4. Id(w)' = Id(w) /\ Of(w)' = Of(w) BY DEF Id, Of
<1>5. Planned(w)'
  BY <1>4 DEF Planned, NoPlan, Sweeping, Successful, Active, CreateOps
<1>6. OnCourse(w)' /\ Restoring(w)' /\ Changing(w)' /\ ~Unnumbered(w)'
  BY DEF OnCourse, Restoring, Changing, Sweeping, Unnumbered
<1>. QED BY <1>2, <1>3, <1>5, <1>6 DEF OpInv

\* The record is completed, or the failure of the UPDATE announced.
LEMMA BackupCommitKeeps ==
    ASSUME BInv, NEW w \in Workers, BackupCommit(w)
    PROVE  BInv'
<1>1. TypeOK /\ OpInv(w) BY DEF BInv
<1>2. pc[w] = "b_commit" /\ UNCHANGED <<disk, policy, clock, made>> BY DEF BackupCommit
<1>3. BudgetOK' /\ budget'.backups = budget.backups
  BY <1>1, BudgetKept DEF BackupCommit, BudgetOK
<1>4. /\ Holds(w) /\ Of(w) \in Servers /\ Id(w) \in Ids /\ Id(w) \in 1..made
      /\ rows[Id(w)].srv = Of(w) /\ rows[Id(w)].status = "pending" /\ job[w].op = "backup"
      /\ \A i \in Ids : rows[i].srv = Of(w) /\ rows[i].status # "none" => i <= Id(w)
  BY <1>2, PendingFacts
<1>5. rows[Id(w)] \in Rows /\ rows[Id(w)].deleted = 0 /\ ~rows[Id(w)].protected
  BY <1>1, <1>4 DEF TypeOK, BInv, RowsInv
<1>6. made' \in made..MaxBackups /\ Id(w) <= made'
  BY <1>1, <1>2, <1>4, BoundsAssumption DEF TypeOK
<1>7. CASE UNCHANGED rows /\ Announce("failed", Id(w)) /\ Finish(w)
  <2>1. note' = [kind |-> "failed", id |-> Id(w)] BY <1>7 DEF Announce
  <2>2. NoteOK' /\ AnnouncedTruthfully'
    BY <1>4, <1>7, <2>1 DEF NoteOK, Ids, AnnouncedTruthfully
  <2>3. rows' = [rows EXCEPT ![Id(w)] = rows[Id(w)]] BY <1>1, <1>4, <1>7 DEF TypeOK
  <2>4. SharedStep(w) BY <1>2, <1>3, <1>4, <1>5, <1>6, <2>2, <2>3, RowWritten
  <2>. QED BY <1>2, <1>3, <1>7, <2>4, FinishKeeps
<1>8. CASE /\ rows' = [rows EXCEPT ![Id(w)].status = "completed"]
           /\ Quiet /\ Proceed(w, "c_plan")
  <2> DEFINE r == [rows[Id(w)] EXCEPT !.status = "completed"]
  <2>1. r \in Rows /\ r.srv = Of(w) /\ r.status = "completed" /\ r.deleted = 0 /\ ~r.protected
    BY <1>4, <1>5 DEF Rows, Statuses
  <2>2. rows' = [rows EXCEPT ![Id(w)] = r] BY <1>8
  <2>3. NoteOK' /\ AnnouncedTruthfully'
    BY <1>8, BoundsAssumption DEF Quiet, NoNote, NoteOK, AnnouncedTruthfully
  <2> HIDE DEF r
  <2>4. SharedStep(w) BY <1>2, <1>3, <1>4, <1>6, <2>1, <2>2, <2>3, RowWritten
  <2>5. /\ LocalsOK' /\ Others(w) /\ Distinct(w) /\ job'[w] = job[w] /\ plan'[w] = plan[w]
        /\ lock' = lock /\ slots' = slots /\ pc'[w] = "c_plan"
    BY <1>8, ProceedKeeps DEF Labels
  <2>6. rows'[Id(w)] = r /\ \A i \in Ids \ {Id(w)} : rows'[i] = rows[i]
    BY <1>1, <1>4, <2>2 DEF TypeOK
  <2>7. OpInv(w)' /\ ~Unnumbered(w)'
    <3>1. \A i \in Ids : rows'[i].srv = Of(w) /\ rows'[i].status # "none" => i <= Id(w)
      BY <1>4, <2>6 DEF Ids
    <3>2. plan[w] = NoPlan BY <1>1, <1>2 DEF OpInv, Planned
    <3>. QED BY <1>2, <1>4, <2>1, <2>4, <2>5, <2>6, <3>1, <3>2, SweepBegins DEF CreateOps
  <2>8. Counted' BY <1>2, <1>3, <2>5, <2>7, CountKept
  <2>. QED BY <2>4, <2>5, <2>7, <2>8, StepKeeps DEF LocalStep
<1>. QED BY <1>7, <1>8 DEF BackupCommit

\* The uploaded archive is saved under a new identifier.
LEMMA UploadSaveKeeps ==
    ASSUME BInv, NEW w \in Workers, UploadSave(w)
    PROVE  BInv'
<1>1. TypeOK /\ OpInv(w) BY DEF BInv
<1>2. pc[w] = "u_save" /\ job[w].op = "upload" /\ Of(w) \in Servers /\ Holds(w)
      /\ Unnumbered(w) /\ lock[Of(w)] = w /\ plan[w] = NoPlan
  BY <1>1 DEF UploadSave, OpInv, Control, Planned, Holds, Unnumbered, CreateOps
<1> DEFINE n == made + 1
<1>3. /\ n \in Ids /\ n \in made..MaxBackups /\ rows[n] = NoRow
      /\ \A u \in Workers : Id(u) \in Int /\ Id(u) < n
      /\ \A i \in Ids : rows[i].status # "none" => i <= made
  BY <1>2, NumberLeft
<1>4. BudgetOK' /\ budget'.backups = budget.backups
  BY <1>1, BudgetKept DEF UploadSave, BudgetOK
<1>5. made' = n /\ UNCHANGED <<rows, world, kept, policy, clock>> /\ Quiet BY DEF UploadSave
<1> HIDE DEF n
<1>6. \A u \in Workers \ {w} : Id(u) # n BY <1>3 DEF Ids
<1>7. n \in Int /\ made \in Nat /\ made' \in made..MaxBackups /\ n \in 1..made'
      /\ n \in 0..MaxBackups
  BY <1>1, <1>3, <1>5, BoundsAssumption DEF Ids, TypeOK
<1>8. rows[n].status = "none" BY <1>3 DEF NoRow
<1>9. ASSUME NEW v \in Versions, archive' = [archive EXCEPT ![n] = v] PROVE SharedStep(w)
  BY <1>2, <1>3, <1>4, <1>5, <1>7, <1>8, <1>9, ArchiveWritten
<1>10. CASE /\ \E v \in Versions \ {0} : archive' = [archive EXCEPT ![n] = v]
            /\ job' = [job EXCEPT ![w].id = n, ![w].day = clock] /\ Goto(w, "u_insert")
            /\ UNCHANGED <<locks, tmp, plan, clean, gone>>
  <2>1. SharedStep(w) BY <1>9, <1>10
  <2>2. LocalsOK'
    <3>1. [job[w] EXCEPT !.id = n, !.day = clock] \in Jobs
      <4>1. job[w] \in Jobs /\ clock \in 0..MaxClock BY <1>1, BoundsAssumption DEF TypeOK
      <4>. QED BY <4>1, <1>7 DEF Jobs
    <3>2. job' \in [Workers -> Jobs] BY <1>1, <1>10, <3>1 DEF TypeOK
    <3>. QED BY <1>1, <1>10, <3>2 DEF LocalsOK, TypeOK, Goto, locks, Labels
  <2>3. Others(w) BY <1>1, <1>10 DEF Others, SameLocals, TypeOK, Goto, locks
  <2>4. /\ pc'[w] = "u_insert" /\ job'[w].op = "upload" /\ job'[w].srv = Of(w)
        /\ job'[w].id = n /\ plan' = plan /\ lock' = lock /\ slots' = slots
    BY <1>1, <1>2, <1>10 DEF TypeOK, Goto, locks, Of, Jobs
  <2>5. Distinct(w) BY <1>6, <2>4 DEF Distinct
  <2>6. Id(w)' = n /\ Of(w)' = Of(w) /\ \A u \in Workers \ {w} : Id(u)' = Id(u)
    BY <2>3, <2>4 DEF Id, Of, Others, SameLocals
  <2>7. Control(w)' BY <1>1, <1>2, <2>4, <2>6 DEF OpInv, Control, Holds, AllOps, CreateOps
  <2>8. Numbered(w)'
    <3>1. \A i \in Records(Of(w)) : i <= n BY <1>3, <1>7 DEF Records, Ids
    <3>2. n # 0 /\ n \in 0..made' BY <1>7
    <3>. QED
      BY <1>5, <1>6, <1>8, <2>4, <2>6, <3>1, <3>2
      DEF Numbered, Records, ChangeOps, CreateOps
  <2>9. Planned(w)' BY <1>2, <2>4 DEF Planned, NoPlan, Sweeping
  <2>10. OnCourse(w)' /\ Restoring(w)' /\ Changing(w)' /\ ~Unnumbered(w)'
    BY <2>4 DEF OnCourse, Restoring, Changing, Sweeping, Unnumbered
  <2>11. Counted' BY <1>2, <1>4, <1>5, <2>3, <2>10, NumberTaken DEF n
  <2>. QED BY <2>1, <2>2, <2>3, <2>5, <2>7, <2>8, <2>9, <2>10, <2>11, StepKeeps
           DEF LocalStep, OpInv
<1>11. CASE UNCHANGED archive /\ Finish(w)
  <2>1. archive' = [archive EXCEPT ![n] = archive[n]] /\ archive[n] \in Versions
    BY <1>1, <1>3, <1>11 DEF TypeOK
  <2>2. SharedStep(w) BY <1>9, <2>1
  <2>3. LocalStep(w) /\ ~Unnumbered(w)' BY <1>11, <2>2, FinishEnds DEF SharedStep
  <2>4. Counted' BY <1>2, <1>4, <1>5, <2>3, NumberTaken DEF LocalStep, n
  <2>. QED BY <2>2, <2>3, <2>4, StepKeeps
<1>. QED BY <1>10, <1>11 DEF UploadSave, n

\* Its record is inserted, completed.
LEMMA UploadInsertKeeps ==
    ASSUME BInv, NEW w \in Workers, UploadInsert(w)
    PROVE  BInv'
<1>1. TypeOK /\ OpInv(w) BY DEF BInv
<1>2. pc[w] = "u_insert" /\ UNCHANGED <<disk, policy, clock, made>> /\ Quiet BY DEF UploadInsert
<1>3. BudgetOK' /\ budget'.backups = budget.backups
  BY <1>1, BudgetKept DEF UploadInsert, BudgetOK
<1>4. /\ Holds(w) /\ Of(w) \in Servers /\ job[w].op = "upload" /\ plan[w] = NoPlan
      /\ ~Unnumbered(w)
  BY <1>1, <1>2 DEF OpInv, Control, Planned, Holds, Unnumbered
<1>5. /\ Id(w) # 0 /\ Id(w) \in 0..made /\ rows[Id(w)].status = "none"
      /\ \A u \in Workers \ {w} : Id(u) # Id(w)
      /\ \A i \in Records(Of(w)) : i <= Id(w)
  BY <1>1, <1>2, <1>4 DEF OpInv, Numbered, CreateOps
<1>6. Id(w) \in Ids /\ Id(w) \in 1..made /\ made' \in made..MaxBackups /\ Id(w) <= made'
  BY <1>1, <1>2, <1>5, BoundsAssumption DEF TypeOK, Ids
<1>7. CASE UNCHANGED rows /\ Finish(w)
  BY <1>2, <1>3, <1>7, SharedStays, FinishKeeps DEF BudgetOK
<1>8. CASE Record(w, Id(w), "completed", job[w].day) /\ Proceed(w, "c_plan")
  <2> DEFINE r == [srv |-> Of(w), status |-> "completed", protected |-> FALSE,
                   created |-> job[w].day, deleted |-> 0]
  <2>1. r \in Rows
    <3>1. job[w] \in Jobs BY <1>1 DEF TypeOK
    <3>. QED BY <3>1, <1>4, BoundsAssumption DEF Rows, Statuses, Jobs
  <2>2. rows' = [rows EXCEPT ![Id(w)] = r] BY <1>8 DEF Record
  <2>3. NoteOK' /\ AnnouncedTruthfully'
    BY <1>2, BoundsAssumption DEF Quiet, NoNote, NoteOK, AnnouncedTruthfully
  <2>4. r.status = "completed" /\ r.srv = Of(w) /\ r.protected = FALSE /\ r.deleted = 0
    OBVIOUS
  <2> HIDE DEF r
  <2>5. SharedStep(w)
    BY <1>2, <1>3, <1>4, <1>5, <1>6, <2>1, <2>2, <2>3, <2>4, RowWritten
  <2>6. /\ LocalsOK' /\ Others(w) /\ Distinct(w) /\ job'[w] = job[w] /\ plan'[w] = plan[w]
        /\ lock' = lock /\ slots' = slots /\ pc'[w] = "c_plan"
    BY <1>8, ProceedKeeps DEF Labels
  <2>7. rows'[Id(w)] = r /\ \A i \in Ids \ {Id(w)} : rows'[i] = rows[i]
    BY <1>1, <1>6, <2>2 DEF TypeOK
  <2>8. OpInv(w)' /\ ~Unnumbered(w)'
    <3>1. \A i \in Ids : rows'[i].srv = Of(w) /\ rows'[i].status # "none" => i <= Id(w)
      BY <1>5, <1>6, <2>7 DEF Ids, Records
    <3>. QED
      BY <1>2, <1>4, <1>6, <2>4, <2>5, <2>6, <2>7, <3>1, SweepBegins DEF CreateOps
  <2>9. Counted' BY <1>2, <1>3, <2>6, <2>8, CountKept
  <2>. QED BY <2>5, <2>6, <2>8, <2>9, StepKeeps DEF LocalStep
<1>. QED BY <1>7, <1>8 DEF UploadInsert

-----------------------------------------------------------------------------
(* Restore replaces the files.                                             *)

\* What the invariant says of a restore past its stage.
LEMMA RestoreFacts ==
    ASSUME BInv, NEW w \in Workers, pc[w] \in {"r_aside", "r_swap", "r_back"}
    PROVE  /\ Holds(w) /\ Of(w) \in Servers /\ job[w].op = "restore" /\ ~Unnumbered(w)
           /\ plan[w] = NoPlan /\ Id(w) \in Successful(Of(w))
           /\ pc[w] # "r_aside" => world[Of(w)] = 0 /\ kept[Of(w)] # <<>>
           /\ kept[Of(w)] \in Seq(Versions) /\ tmp[w] \in Versions
<1>1. TypeOK /\ OpInv(w) BY DEF BInv
<1>2. Holds(w) /\ Of(w) \in Servers /\ job[w].op = "restore" /\ ~Unnumbered(w)
  BY <1>1 DEF OpInv, Control, Holds, Unnumbered
<1>. QED BY <1>1, <1>2 DEF OpInv, Planned, Restoring, TypeOK

\* A restore goes on to its next label.
LEMMA RestoreGoesOn ==
    ASSUME BInv, NEW w \in Workers, NEW l \in {"r_swap", "r_back"}, Proceed(w, l),
           pc[w] \in {"r_aside", "r_swap"}, SharedStep(w), budget'.backups = budget.backups,
           UNCHANGED <<rows, archive, made>>,
           world'[Of(w)] = 0, kept'[Of(w)] # <<>>
    PROVE  BInv'
<1>1. TypeOK /\ OpInv(w) BY DEF BInv
<1>2. /\ LocalsOK' /\ Others(w) /\ Distinct(w)
      /\ pc'[w] = l /\ job'[w] = job[w] /\ tmp'[w] = tmp[w] /\ plan'[w] = plan[w]
      /\ lock' = lock /\ slots' = slots
  BY ProceedKeeps DEF Labels
<1>3. job[w].op = "restore" /\ Holds(w) /\ plan[w] = NoPlan /\ Id(w) \in Successful(Of(w))
  BY RestoreFacts
<1>4. Control(w)' BY <1>1, <1>2, <1>3 DEF OpInv, Control, Holds, Of
<1>5. Numbered(w)' BY <1>1, <1>2, <1>3 DEF OpInv, Numbered, Id, Of, CreateOps
<1>6. Planned(w)' BY <1>2, <1>3 DEF Planned, NoPlan, Sweeping
<1>7. OnCourse(w)' /\ Changing(w)' /\ ~Unnumbered(w)'
  BY <1>2 DEF OnCourse, Changing, Sweeping, Unnumbered
<1>8. Restoring(w)'
  BY <1>1, <1>2, <1>3 DEF OpInv, Restoring, Id, Of, Successful, Active
<1>9. Counted' BY <1>2, <1>7, CountKept
<1>. QED BY <1>2, <1>4, <1>5, <1>6, <1>7, <1>8, <1>9, StepKeeps DEF LocalStep, OpInv

\* The data directory is renamed to .mcm-recovery-*.
LEMMA RestoreAsideKeeps ==
    ASSUME BInv, NEW w \in Workers, RestoreAside(w)
    PROVE  BInv'
<1>1. TypeOK BY DEF BInv
<1>2. pc[w] = "r_aside" /\ UNCHANGED <<rows, archive, policy, clock, made>> /\ Quiet
  BY DEF RestoreAside
<1>3. BudgetOK' /\ budget'.backups = budget.backups
  BY <1>1, BudgetKept DEF RestoreAside, BudgetOK
<1>4. Holds(w) /\ Of(w) \in Servers /\ kept[Of(w)] \in Seq(Versions) BY <1>2, RestoreFacts
<1>5. CASE /\ kept' = [kept EXCEPT ![Of(w)] = Append(@, world[Of(w)])]
           /\ world' = [world EXCEPT ![Of(w)] = 0]
           /\ Proceed(w, "r_swap")
  <2>1. 0 \in Versions /\ world[Of(w)] \in Versions
    BY <1>1, <1>4, BoundsAssumption DEF TypeOK, Versions
  <2> DEFINE k == Append(kept[Of(w)], world[Of(w)])
  <2>2. k \in Seq(Versions) /\ k # <<>>
    <3>1. Len(k) = Len(kept[Of(w)]) + 1 /\ k \in Seq(Versions) /\ Len(kept[Of(w)]) \in Nat
      BY <1>4, <2>1
    <3> HIDE DEF k
    <3>2. Len(k) # 0 BY <3>1
    <3>. QED BY <3>1, <3>2
  <2>3. world' \in [Servers -> Versions] /\ world'[Of(w)] = 0
        /\ \A s \in Servers \ {Of(w)} : world'[s] = world[s]
    BY <1>1, <1>4, <1>5, <2>1 DEF TypeOK
  <2> HIDE DEF k
  <2>4. kept' = [kept EXCEPT ![Of(w)] = k] BY <1>5 DEF k
  <2>5. kept' \in [Servers -> Seq(Versions)] /\ kept'[Of(w)] = k
        /\ \A s \in Servers \ {Of(w)} : kept'[s] = kept[s]
    BY <1>1, <1>4, <2>2, <2>4 DEF TypeOK
  <2>6. policy' \in [Servers -> Policies] BY <1>1, <1>2 DEF TypeOK
  <2>7. SharedStep(w) BY <1>2, <1>3, <1>4, <2>3, <2>5, <2>6, FilesWritten
  <2>. QED BY <1>2, <1>3, <1>5, <2>2, <2>3, <2>5, <2>7, RestoreGoesOn
<1>6. CASE UNCHANGED <<world, kept>> /\ Finish(w)
  BY <1>2, <1>3, <1>6, SharedStays, FinishKeeps DEF BudgetOK, disk
<1>. QED BY <1>5, <1>6 DEF RestoreAside

\* The stage takes its place.
LEMMA RestoreSwapKeeps ==
    ASSUME BInv, NEW w \in Workers, RestoreSwap(w)
    PROVE  BInv'
<1>1. TypeOK BY DEF BInv
<1>2. pc[w] = "r_swap" /\ UNCHANGED <<rows, archive, kept, policy, clock, made>> /\ Quiet
  BY DEF RestoreSwap
<1>3. BudgetOK' /\ budget'.backups = budget.backups
  BY <1>1, BudgetKept DEF RestoreSwap, BudgetOK
<1>4. Holds(w) /\ Of(w) \in Servers /\ tmp[w] \in Versions
      /\ world[Of(w)] = 0 /\ kept[Of(w)] # <<>>
  BY <1>2, RestoreFacts
<1>5. kept' \in [Servers -> Seq(Versions)] /\ policy' \in [Servers -> Policies]
  BY <1>1, <1>2 DEF TypeOK
<1>6. CASE world' = [world EXCEPT ![Of(w)] = tmp[w]] /\ Finish(w)
  <2>1. world' \in [Servers -> Versions] /\ \A s \in Servers \ {Of(w)} : world'[s] = world[s]
    BY <1>1, <1>4, <1>6 DEF TypeOK
  <2>2. SharedStep(w) BY <1>2, <1>3, <1>4, <1>5, <2>1, FilesWritten
  <2>. QED BY <1>2, <1>3, <1>6, <2>2, FinishKeeps
<1>7. CASE UNCHANGED world /\ Proceed(w, "r_back")
  <2>1. SharedStep(w) BY <1>2, <1>3, <1>7, SharedStays DEF BudgetOK, disk
  <2>. QED BY <1>2, <1>3, <1>4, <1>7, <2>1, RestoreGoesOn
<1>. QED BY <1>6, <1>7 DEF RestoreSwap

\* If it cannot, the previous directory is renamed back.
LEMMA RestoreBackKeeps ==
    ASSUME BInv, NEW w \in Workers, RestoreBack(w)
    PROVE  BInv'
<1>1. TypeOK BY DEF BInv
<1>2. pc[w] = "r_back" /\ UNCHANGED <<rows, archive, policy, clock, made>> /\ Quiet /\ Finish(w)
  BY DEF RestoreBack
<1>3. BudgetOK' /\ budget'.backups = budget.backups
  BY <1>1, BudgetKept DEF RestoreBack, BudgetOK
<1>4. Holds(w) /\ Of(w) \in Servers /\ kept[Of(w)] \in Seq(Versions) /\ kept[Of(w)] # <<>>
  BY <1>2, RestoreFacts
<1>5. policy' \in [Servers -> Policies] BY <1>1, <1>2 DEF TypeOK
<1> DEFINE n == Len(kept[Of(w)])
<1>6. CASE /\ world' = [world EXCEPT ![Of(w)] = kept[Of(w)][n]]
           /\ kept' = [kept EXCEPT ![Of(w)] = SubSeq(@, 1, n - 1)]
  <2> DEFINE k == SubSeq(kept[Of(w)], 1, n - 1)
  <2>1. kept[Of(w)][n] \in Versions /\ k \in Seq(Versions)
    <3>1. n \in Nat /\ n > 0 BY <1>4
    <3>2. kept[Of(w)][n] \in Versions BY <1>4, <3>1
    <3>3. \A i \in 1..(n - 1) : kept[Of(w)][i] \in Versions BY <1>4, <3>1
    <3>4. k \in Seq(Versions) BY <1>4, <3>1, <3>3
    <3>. QED BY <3>2, <3>4
  <2>2. world' \in [Servers -> Versions] /\ \A s \in Servers \ {Of(w)} : world'[s] = world[s]
    BY <1>1, <1>4, <1>6, <2>1 DEF TypeOK
  <2>3. kept' = [kept EXCEPT ![Of(w)] = k] BY <1>6
  <2> HIDE DEF k
  <2>4. kept' \in [Servers -> Seq(Versions)] /\ \A s \in Servers \ {Of(w)} : kept'[s] = kept[s]
    BY <1>1, <1>4, <2>1, <2>3 DEF TypeOK
  <2>5. SharedStep(w) BY <1>2, <1>3, <1>4, <1>5, <2>2, <2>4, FilesWritten
  <2>. QED BY <1>2, <1>3, <2>5, FinishKeeps
<1>7. CASE UNCHANGED <<world, kept>>
  BY <1>2, <1>3, <1>7, SharedStays, FinishKeeps DEF BudgetOK, disk
<1>. QED BY <1>6, <1>7 DEF RestoreBack

-----------------------------------------------------------------------------
(* cleanupLocked and deleteLocked                                          *)

\* What the invariant says of a sweep.
LEMMA SweepFacts ==
    ASSUME BInv, NEW w \in Workers, Sweeping(w)
    PROVE  /\ Holds(w) /\ Of(w) \in Servers /\ ~Unnumbered(w) /\ pc[w] # "slot"
           /\ job[w].op \in CreateOps \union SweepOps \union {"purge"}
           /\ job[w].op = "purge" => pc[w] \in {"remove", "drop"}
           /\ job[w].op \in CreateOps =>
                 /\ Id(w) \in Successful(Of(w)) \ plan[w].trash
                 /\ \A i \in Records(Of(w)) : i <= Id(w)
<1>1. TypeOK /\ OpInv(w) BY DEF BInv
<1>2. Holds(w) /\ Of(w) \in Servers /\ ~Unnumbered(w) /\ pc[w] # "slot"
      /\ job[w].op \in CreateOps \union SweepOps \union {"purge"}
      /\ (job[w].op = "purge" => pc[w] \in {"remove", "drop"})
  BY <1>1 DEF OpInv, Control, Holds, Unnumbered, Sweeping, CreateOps, SweepOps
<1>3. job[w].op \in CreateOps => Id(w) \in Successful(Of(w)) \ plan[w].trash
  BY <1>1 DEF OpInv, Planned
<1>4. job[w].op \in CreateOps => \A i \in Records(Of(w)) : i <= Id(w)
  BY <1>1, <1>2 DEF OpInv, Numbered
<1>. QED BY <1>2, <1>3, <1>4

\* A sweep goes on with what is left of its plan.
LEMMA SweepGoesOn ==
    ASSUME BInv, NEW w \in Workers, Sweeping(w), job[w].op # "purge",
           NEW s \in Servers, Of(w) = s,
           SharedStep(w), LocalsOK', Others(w), lock' = lock, slots' = slots,
           job'[w] = job[w], made' = made, budget'.backups = budget.backups,
           pc'[w] = Sweep(w), Records(s)' \subseteq Records(s),
           \A i \in plan'[w].purge : i \in InTrash(s)' /\ ~rows'[i].protected,
           \A i \in plan'[w].trash :
              /\ i \in Successful(s)' /\ ~rows'[i].protected
              /\ \E j \in Successful(s)' \ plan'[w].trash : j > i,
           job[w].op \in CreateOps => Id(w) \in Successful(s)' \ plan'[w].trash,
           job[w].op # "empty" /\ clean'[w] /\ policy'[s].keep > 0 =>
              Cardinality(Spare(s)' \ plan'[w].trash) <= policy'[s].keep
    PROVE  BInv'
<1>1. TypeOK /\ OpInv(w) BY DEF BInv
<1>2. /\ Holds(w) /\ ~Unnumbered(w) /\ pc[w] # "slot"
      /\ job[w].op \in CreateOps \union SweepOps
  BY SweepFacts
<1>3. Of(w)' = s /\ Id(w)' = Id(w) BY DEF Of, Id
<1>4. /\ pc'[w] \in {"remove", "c_trash", "c_end"}
      /\ pc'[w] = "remove" => plan'[w].purge # {}
      /\ pc'[w] = "c_trash" => plan'[w].purge = {} /\ plan'[w].trash # {}
      /\ pc'[w] = "c_end" => plan'[w].purge = {} /\ plan'[w].trash = {}
  BY DEF Sweep
<1>5. pc'[w] = "c_end" => plan'[w] = NoPlan
  <2>1. plan'[w] \in [purge : SUBSET Ids, trash : SUBSET Ids] BY DEF LocalsOK
  <2>. QED BY <1>4, <2>1 DEF NoPlan
<1>6. Control(w)' BY <1>1, <1>2, <1>3, <1>4 DEF OpInv, Control, Holds
<1>7. Numbered(w)'
  BY <1>1, <1>2, <1>3, <1>4
  DEF OpInv, Numbered, CreateOps, SweepOps, ChangeOps
<1>8. Planned(w)' BY <1>3, <1>4, <1>5 DEF Planned
<1>9. OnCourse(w)' BY <1>3, <1>4 DEF OnCourse
<1>10. Restoring(w)' /\ Changing(w)' /\ ~Unnumbered(w)'
  BY <1>4 DEF Restoring, Changing, Unnumbered
<1>11. Distinct(w) BY KeptIsDistinct DEF Id
<1>12. Counted' BY <1>10, CountKept
<1>. QED BY <1>6, <1>7, <1>8, <1>9, <1>10, <1>11, <1>12, StepKeeps DEF LocalStep, OpInv

\* The plan of a sweep is made.
LEMMA PlanKeeps ==
    ASSUME BInv, NEW w \in Workers, Plan(w)
    PROVE  BInv'
<1>1. TypeOK /\ OpInv(w) BY DEF BInv
<1>2. pc[w] = "c_plan" /\ Sweeping(w) /\ UNCHANGED <<rows, disk, policy, clock, made>> /\ Quiet
      /\ UNCHANGED <<locks, job, tmp, gone>> /\ Goto(w, Sweep(w))
  BY DEF Plan, Sweeping
<1>3. BudgetOK' /\ budget'.backups = budget.backups
  BY <1>1, BudgetKept DEF Plan, BudgetOK
<1>4. SharedStep(w) BY <1>2, <1>3, SharedStays DEF BudgetOK
<1>5. PICK s \in Servers : s = Of(w) BY <1>2, SweepFacts
<1>6. Sweep(w) \in {"remove", "c_trash", "c_end"} BY DEF Sweep
<1>7. job[w].op \in CreateOps \union SweepOps /\ plan[w] = NoPlan
  BY <1>1, <1>2 DEF OpInv, Control, Planned
<1>8. /\ Records(s)' = Records(s) /\ Successful(s)' = Successful(s) /\ InTrash(s)' = InTrash(s)
      /\ Spare(s)' = Spare(s) /\ policy'[s] = policy[s]
  BY <1>2 DEF Records, Successful, Active, InTrash, Spare
<1>9. ASSUME plan' \in [Workers -> [purge : SUBSET Ids, trash : SUBSET Ids]],
             \A u \in Workers \ {w} : plan'[u] = plan[u] /\ clean'[u] = clean[u],
             clean' \in [Workers -> BOOLEAN]
      PROVE  LocalsOK' /\ Others(w) /\ pc'[w] = Sweep(w)
  <2>1. pc' \in [Workers -> Labels] /\ pc'[w] = Sweep(w)
        /\ \A u \in Workers \ {w} : pc'[u] = pc[u]
    <3> DEFINE l == Sweep(w)
    <3>1. l \in Labels BY <1>6 DEF Labels
    <3>2. pc' = [pc EXCEPT ![w] = l] BY <1>2 DEF Goto
    <3> HIDE DEF l
    <3>3. pc' \in [Workers -> Labels] /\ pc'[w] = l /\ \A u \in Workers \ {w} : pc'[u] = pc[u]
      BY <1>1, <3>1, <3>2 DEF TypeOK
    <3>. QED BY <3>3 DEF l
  <2>. QED BY <1>1, <1>2, <1>9, <2>1 DEF LocalsOK, Others, SameLocals, TypeOK, locks
<1>10. CASE plan' = [plan EXCEPT ![w] = PlanFor(w)] /\ UNCHANGED clean
  <2>1. PlanFor(w) \in [purge : SUBSET Ids, trash : SUBSET Ids]
    BY DEF PlanFor, InTrash, PlanPurge, PlanTrash, Successful, Active
  <2>2. LocalsOK' /\ Others(w) /\ pc'[w] = Sweep(w) BY <1>1, <1>9, <1>10, <2>1 DEF TypeOK
  <2>3. plan'[w] = PlanFor(w) BY <1>1, <1>10 DEF TypeOK
  <2>4. \A i \in plan'[w].purge : i \in InTrash(s) /\ ~rows[i].protected
    BY <1>5, <2>3 DEF PlanFor, PlanPurge
  <2>5. /\ job[w].op = "empty" => plan'[w].trash = {}
        /\ job[w].op # "empty" => plan'[w].trash = PlanTrash(s)
    BY <1>5, <2>3 DEF PlanFor
  <2>6. \A i \in plan'[w].trash :
           /\ i \in Successful(s) /\ ~rows[i].protected
           /\ \E j \in Successful(s) \ plan'[w].trash : j > i
    BY <1>1, <2>5, PlanLeavesNewest
  <2>7. job[w].op \in CreateOps => Id(w) \in Successful(s) \ plan'[w].trash
    <3>1. SUFFICES ASSUME job[w].op \in CreateOps PROVE Id(w) \in Successful(s) \ PlanTrash(s)
      BY <2>5 DEF CreateOps
    <3>2. Id(w) \in Successful(s) /\ \A i \in Records(s) : i <= Id(w)
      BY <1>2, <1>5, <3>1, SweepFacts
    <3>3. Newest(s) \in Successful(s) /\ Id(w) <= Newest(s)
      BY <1>1, <3>2, SuccessfulFinite, MaxIsLargest DEF Newest
    <3>4. Newest(s) <= Id(w) BY <3>2, <3>3 DEF Successful, Active, Records
    <3>5. Id(w) \in Int /\ Newest(s) \in Int BY <1>1, <3>2, <3>3, SuccessfulFinite
    <3>6. Id(w) = Newest(s) BY <3>3, <3>4, <3>5
    <3>. QED BY <3>2, <3>6 DEF PlanTrash
  <2>8. job[w].op # "empty" /\ policy[s].keep > 0 =>
          Cardinality(Spare(s) \ plan'[w].trash) <= policy[s].keep
    BY <1>1, <2>5, PlanMeetsCount
  <2>9. rows' = rows /\ lock' = lock /\ slots' = slots /\ job' = job /\ made' = made
    BY <1>2 DEF locks
  <2>. QED
    BY <1>2, <1>3, <1>4, <1>5, <1>7, <1>8, <2>2, <2>4, <2>6, <2>7, <2>8, <2>9, SweepGoesOn
    DEF CreateOps, SweepOps
<1>11. CASE UNCHANGED plan /\ clean' = [clean EXCEPT ![w] = FALSE]
  <2>1. LocalsOK' /\ Others(w) /\ pc'[w] = Sweep(w) /\ ~clean'[w]
    BY <1>1, <1>9, <1>11 DEF TypeOK
  <2>2. plan'[w].purge = {} /\ plan'[w].trash = {} BY <1>7, <1>11 DEF NoPlan
  <2>3. job[w].op \in CreateOps => Id(w) \in Successful(s) BY <1>2, <1>5, SweepFacts
  <2>4. lock' = lock /\ slots' = slots /\ job' = job /\ made' = made BY <1>2 DEF locks
  <2>. QED
    BY <1>2, <1>3, <1>4, <1>5, <1>7, <1>8, <2>1, <2>2, <2>3, <2>4, SweepGoesOn
    DEF CreateOps, SweepOps
<1>. QED BY <1>10, <1>11 DEF Plan

\* deleteLocked has a record of the trash that is not protected in hand.
LEMMA DeletionFacts ==
    ASSUME BInv, NEW w \in Workers, pc[w] \in {"remove", "drop"}
    PROVE  /\ Holds(w) /\ Of(w) \in Servers /\ Sweeping(w)
           /\ Doomed(w) \in InTrash(Of(w)) /\ ~rows[Doomed(w)].protected
           /\ Doomed(w) \in Ids /\ rows[Doomed(w)].srv = Of(w)
           /\ rows[Doomed(w)].status # "none" /\ rows[Doomed(w)].deleted # 0
<1>1. TypeOK /\ Planned(w) BY DEF BInv, OpInv
<1>2. Doomed(w) \in InTrash(Of(w)) /\ ~rows[Doomed(w)].protected BY <1>1, DoomedIsTrash
<1>3. Doomed(w) \in Ids /\ rows[Doomed(w)].srv = Of(w) /\ rows[Doomed(w)].status # "none"
      /\ rows[Doomed(w)].deleted > 0
  BY <1>2 DEF InTrash
<1>4. Sweeping(w) BY DEF Sweeping
<1>. QED BY <1>2, <1>3, <1>4, SweepFacts

\* deleteLocked is done with a record, gone or not.
LEMMA NextDoomedKeeps ==
    ASSUME BInv, NEW w \in Workers, pc[w] \in {"remove", "drop"}, NEW ok \in BOOLEAN,
           NextDoomed(w, ok), SharedStep(w), made' = made, budget'.backups = budget.backups,
           policy' = policy,
           rows' = rows \/ rows' = [rows EXCEPT ![Doomed(w)] = NoRow]
    PROVE  BInv'
<1>1. TypeOK /\ OpInv(w) BY DEF BInv
<1>2. CASE job[w].op = "purge"
  BY <1>2, FinishKeeps DEF NextDoomed
<1>3. CASE job[w].op # "purge"
  <2>1. /\ plan' = [plan EXCEPT ![w].purge = @ \ {Doomed(w)}]
        /\ clean' = [clean EXCEPT ![w] = @ /\ ok]
        /\ Goto(w, Sweep(w)) /\ UNCHANGED <<locks, job, tmp, gone>>
    BY <1>3 DEF NextDoomed
  <2>2. PICK s \in Servers : s = Of(w) BY DeletionFacts
  <2> DEFINE d == Doomed(w)
             l == Sweep(w)
  <2>3. l \in {"remove", "c_trash", "c_end"} /\ l \in Labels BY DEF Sweep, Labels
  <2>4. pc' = [pc EXCEPT ![w] = l] BY <2>1 DEF Goto
  <2>5. d \in InTrash(s) /\ d \in Ids /\ rows[d].srv = s /\ rows[d].deleted # 0
        /\ rows[d].status # "none"
    BY <2>2, DeletionFacts
  <2> HIDE DEF d, l
  <2>6. plan[w] \in [purge : SUBSET Ids, trash : SUBSET Ids] BY <1>1 DEF TypeOK
  <2>7. /\ plan' \in [Workers -> [purge : SUBSET Ids, trash : SUBSET Ids]]
        /\ plan'[w].purge = plan[w].purge \ {d} /\ plan'[w].trash = plan[w].trash
        /\ \A u \in Workers \ {w} : plan'[u] = plan[u]
    <3> DEFINE q == [plan[w] EXCEPT !.purge = @ \ {d}]
    <3>1. q \in [purge : SUBSET Ids, trash : SUBSET Ids]
          /\ q.purge = plan[w].purge \ {d} /\ q.trash = plan[w].trash
      BY <2>6
    <3>2. plan' = [plan EXCEPT ![w] = q] BY <2>1 DEF d
    <3> HIDE DEF q
    <3>. QED BY <1>1, <3>1, <3>2 DEF TypeOK
  <2>8. /\ clean' \in [Workers -> BOOLEAN] /\ (clean'[w] => clean[w])
        /\ \A u \in Workers \ {w} : clean'[u] = clean[u]
    BY <1>1, <2>1 DEF TypeOK
  <2>9. pc' \in [Workers -> Labels] /\ pc'[w] = l /\ \A u \in Workers \ {w} : pc'[u] = pc[u]
    BY <1>1, <2>3, <2>4 DEF TypeOK
  <2>10. LocalsOK' /\ Others(w)
    BY <1>1, <2>1, <2>7, <2>8, <2>9 DEF LocalsOK, Others, SameLocals, TypeOK, locks
  <2>11. \A i \in Ids \ {d} : rows'[i] = rows[i] BY <1>1, <2>5 DEF TypeOK, d
  <2>12. rows'[d] = rows[d] \/ rows'[d] = NoRow BY <1>1, <2>5 DEF TypeOK, d
  <2>13. NoRow.status = "none" BY DEF NoRow
  <2>14. Records(s)' \subseteq Records(s) BY <2>11, <2>12, <2>13 DEF Records
  <2>15. Successful(s)' = Successful(s) /\ Spare(s)' = Spare(s)
    <3>1. d \notin Active(s) /\ d \notin Active(s)' BY <2>5, <2>12, <2>13 DEF Active
    <3>2. Successful(s)' = Successful(s) BY <2>11, <3>1 DEF Successful, Active
    <3>3. \A i \in Successful(s) : rows'[i] = rows[i]
      BY <2>11, <3>1 DEF Successful, Active
    <3>. QED BY <3>2, <3>3 DEF Spare
  <2>16. \A i \in plan'[w].purge : i \in InTrash(s)' /\ ~rows'[i].protected
    BY <1>1, <2>2, <2>7, <2>11 DEF OpInv, Planned, InTrash
  <2>17. \A i \in plan'[w].trash :
            /\ i \in Successful(s)' /\ ~rows'[i].protected
            /\ \E j \in Successful(s)' \ plan'[w].trash : j > i
    <3>1. \A i \in plan[w].trash :
            /\ i \in Successful(s) /\ ~rows[i].protected
            /\ \E j \in Successful(s) \ plan[w].trash : j > i
      BY <1>1, <2>2 DEF OpInv, Planned
    <3>2. \A i \in Successful(s) : i # d /\ i \in Ids BY <2>5 DEF Successful, Active
    <3>. QED BY <2>7, <2>11, <2>15, <3>1, <3>2
  <2>18. job[w].op \in CreateOps => Id(w) \in Successful(s)' \ plan'[w].trash
    BY <2>2, <2>7, <2>15, DeletionFacts, SweepFacts
  <2>19. job[w].op # "empty" /\ clean'[w] /\ policy'[s].keep > 0 =>
            Cardinality(Spare(s)' \ plan'[w].trash) <= policy'[s].keep
    BY <1>1, <1>3, <2>2, <2>7, <2>8, <2>15, DeletionFacts DEF OpInv, OnCourse
  <2>20. lock' = lock /\ slots' = slots /\ job' = job BY <2>1 DEF locks
  <2>. QED
    BY <1>3, <2>2, <2>9, <2>10, <2>14, <2>16, <2>17, <2>18, <2>19, <2>20, DeletionFacts,
       SweepGoesOn
    DEF l
<1>. QED BY <1>2, <1>3

\* deleteLocked removes the archive ...
LEMMA DeleteArchiveKeeps ==
    ASSUME BInv, NEW w \in Workers, DeleteArchive(w)
    PROVE  BInv'
<1>1. TypeOK /\ OpInv(w) BY DEF BInv
<1>2. pc[w] = "remove" /\ UNCHANGED <<rows, world, kept, policy, clock, made>> /\ Quiet
  BY DEF DeleteArchive
<1>3. BudgetOK' /\ budget'.backups = budget.backups
  BY <1>1, BudgetKept DEF DeleteArchive, BudgetOK
<1>4. Holds(w) /\ Of(w) \in Servers /\ Sweeping(w) /\ Doomed(w) \in Ids
      /\ rows[Doomed(w)].srv = Of(w)
  BY <1>2, DeletionFacts
<1>5. made' \in made..MaxBackups /\ 0 \in Versions
  BY <1>1, <1>2, BoundsAssumption DEF TypeOK, Versions
<1>6. CASE UNCHANGED archive /\ NextDoomed(w, FALSE)
  <2>1. SharedStep(w) BY <1>2, <1>3, <1>6, SharedStays DEF BudgetOK, disk
  <2>. QED BY <1>2, <1>3, <1>6, <2>1, NextDoomedKeeps
<1>7. CASE archive' = [archive EXCEPT ![Doomed(w)] = 0] /\ Proceed(w, "drop")
  <2>1. SharedStep(w) BY <1>2, <1>3, <1>4, <1>5, <1>7, ArchiveWritten
  <2>2. /\ LocalsOK' /\ Others(w) /\ Distinct(w) /\ job'[w] = job[w] /\ plan'[w] = plan[w]
        /\ clean'[w] = clean[w] /\ lock' = lock /\ slots' = slots /\ pc'[w] = "drop"
    BY <1>7, ProceedKeeps DEF Labels
  <2>3. Of(w)' = Of(w) /\ Id(w)' = Id(w) /\ Doomed(w)' = Doomed(w)
    BY <2>2 DEF Of, Id, Doomed
  <2>4. archive'[Doomed(w)] = 0 BY <1>1, <1>4, <1>7 DEF TypeOK
  <2>5. rows' = rows /\ policy' = policy /\ made' = made BY <1>2
  <2>6. PICK s \in Servers : s = Of(w) BY <1>4
  <2>7. Successful(s)' = Successful(s) /\ InTrash(s)' = InTrash(s) /\ Spare(s)' = Spare(s)
        /\ Records(s)' = Records(s)
    BY <2>5 DEF Successful, Active, InTrash, Spare, Records
  <2>8. Control(w)' BY <1>1, <1>2, <2>2, <2>3 DEF OpInv, Control, Holds
  <2>9. ~Unnumbered(w)' /\ ~Unnumbered(w) BY <1>2, <2>2 DEF Unnumbered
  <2>10. Numbered(w)'
    BY <1>1, <2>2, <2>3, <2>5, <2>6, <2>7, <2>9 DEF OpInv, Numbered
  <2>11. Planned(w)'
    BY <1>1, <1>2, <1>4, <2>2, <2>3, <2>4, <2>5, <2>6, <2>7 DEF OpInv, Planned
  <2>12. OnCourse(w)'
    BY <1>1, <1>2, <1>4, <2>2, <2>3, <2>5, <2>6, <2>7 DEF OpInv, OnCourse
  <2>13. Restoring(w)' /\ Changing(w)' BY <2>2 DEF Restoring, Changing
  <2>14. Counted' BY <1>3, <2>2, <2>5, <2>9, CountKept
  <2>. QED BY <2>1, <2>2, <2>8, <2>10, <2>11, <2>12, <2>13, <2>14, StepKeeps
           DEF LocalStep, OpInv
<1>. QED BY <1>6, <1>7 DEF DeleteArchive

\* ... and then the record.
LEMMA DeleteRecordKeeps ==
    ASSUME BInv, NEW w \in Workers, DeleteRecord(w)
    PROVE  BInv'
<1>1. TypeOK BY DEF BInv
<1>2. pc[w] = "drop" /\ UNCHANGED <<disk, policy, clock, made>> /\ Quiet BY DEF DeleteRecord
<1>3. BudgetOK' /\ budget'.backups = budget.backups
  BY <1>1, BudgetKept DEF DeleteRecord, BudgetOK
<1>4. Holds(w) /\ Of(w) \in Servers /\ Doomed(w) \in Ids /\ rows[Doomed(w)].srv = Of(w)
      /\ rows[Doomed(w)].status # "none"
  BY <1>2, DeletionFacts
<1>5. CASE UNCHANGED rows /\ NextDoomed(w, FALSE)
  <2>1. SharedStep(w) BY <1>2, <1>3, <1>5, SharedStays DEF BudgetOK
  <2>. QED BY <1>2, <1>3, <1>5, <2>1, NextDoomedKeeps
<1>6. CASE rows' = [rows EXCEPT ![Doomed(w)] = NoRow] /\ NextDoomed(w, TRUE)
  <2>1. NoRow \in Rows /\ NoRow.status = "none" /\ NoRow.protected = FALSE
    BY BoundsAssumption DEF NoRow, Rows, Statuses
  <2>2. NoteOK' /\ AnnouncedTruthfully'
    BY <1>2, BoundsAssumption DEF Quiet, NoNote, NoteOK, AnnouncedTruthfully
  <2>3. made' \in made..MaxBackups BY <1>1, <1>2, BoundsAssumption DEF TypeOK
  <2>4. SharedStep(w) BY <1>2, <1>3, <1>4, <1>6, <2>1, <2>2, <2>3, RowWritten
  <2>. QED BY <1>2, <1>3, <1>6, <2>4, NextDoomedKeeps
<1>. QED BY <1>5, <1>6 DEF DeleteRecord

\* trashLocked for one record of the plan.
LEMMA SweepToTrashKeeps ==
    ASSUME BInv, NEW w \in Workers, SweepToTrash(w)
    PROVE  BInv'
<1>1. TypeOK /\ OpInv(w) BY DEF BInv
<1>2. pc[w] = "c_trash" /\ Sweeping(w) /\ UNCHANGED <<disk, policy, clock, made>> /\ Quiet
      /\ UNCHANGED <<locks, job, tmp, gone>> /\ Goto(w, Sweep(w))
  BY DEF SweepToTrash, Sweeping
<1>3. BudgetOK' /\ budget'.backups = budget.backups
  BY <1>1, BudgetKept DEF SweepToTrash, BudgetOK
<1>4. Holds(w) /\ Of(w) \in Servers /\ job[w].op # "purge" BY <1>2, SweepFacts
<1>5. PICK s \in Servers : s = Of(w) BY <1>4
<1> DEFINE m == Max(plan[w].trash)
           l == Sweep(w)
<1>6. /\ plan' = [plan EXCEPT ![w].trash = @ \ {m}] /\ pc' = [pc EXCEPT ![w] = l]
      /\ \/ rows' = [rows EXCEPT ![m].deleted = clock] /\ UNCHANGED clean
         \/ UNCHANGED rows /\ clean' = [clean EXCEPT ![w] = FALSE]
  BY <1>2 DEF SweepToTrash, Goto
<1>7. plan[w] \in [purge : SUBSET Ids, trash : SUBSET Ids] BY <1>1 DEF TypeOK
<1>8. /\ plan[w].purge = {} /\ plan[w].trash # {}
      /\ \A i \in plan[w].trash :
            /\ i \in Successful(s) /\ ~rows[i].protected
            /\ \E j \in Successful(s) \ plan[w].trash : j > i
  BY <1>1, <1>2, <1>5 DEF OpInv, Planned
<1>9. m \in plan[w].trash
  <2>1. Ids \subseteq Int /\ IsFiniteSet(Ids) BY FS_Interval, BoundsAssumption DEF Ids
  <2>2. plan[w].trash \in SUBSET Ids BY <1>7
  <2>. QED BY <1>8, <2>1, <2>2, FS_Subset, MaxIsLargest
<1>10. l \in {"remove", "c_trash", "c_end"} /\ l \in Labels BY DEF Sweep, Labels
<1> HIDE DEF m, l
<1>11. /\ m \in Ids /\ m \in Successful(s) /\ ~rows[m].protected /\ rows[m].srv = s
       /\ rows[m].status = "completed" /\ rows[m] \in Rows
  BY <1>1, <1>7, <1>8, <1>9 DEF Successful, Active, TypeOK
<1>12. /\ plan' \in [Workers -> [purge : SUBSET Ids, trash : SUBSET Ids]]
       /\ plan'[w].purge = {} /\ plan'[w].trash = plan[w].trash \ {m}
       /\ \A u \in Workers \ {w} : plan'[u] = plan[u]
  <2> DEFINE q == [plan[w] EXCEPT !.trash = @ \ {m}]
  <2>1. q \in [purge : SUBSET Ids, trash : SUBSET Ids]
        /\ q.trash = plan[w].trash \ {m} /\ q.purge = {}
    BY <1>7, <1>8
  <2>2. plan' = [plan EXCEPT ![w] = q] BY <1>6
  <2> HIDE DEF q
  <2>. QED BY <1>1, <2>1, <2>2 DEF TypeOK
<1>13. pc' \in [Workers -> Labels] /\ pc'[w] = l /\ \A u \in Workers \ {w} : pc'[u] = pc[u]
  BY <1>1, <1>6, <1>10 DEF TypeOK
<1>14. clean' \in [Workers -> BOOLEAN] /\ \A u \in Workers \ {w} : clean'[u] = clean[u]
  BY <1>1, <1>6 DEF TypeOK
<1>15. LocalsOK' /\ Others(w)
  BY <1>1, <1>2, <1>12, <1>13, <1>14 DEF LocalsOK, Others, SameLocals, TypeOK, locks
<1>16. lock' = lock /\ slots' = slots /\ job' = job /\ made' = made /\ policy' = policy
  BY <1>2 DEF locks
<1>17. job[w].op \in CreateOps => Id(w) \in Successful(s) \ plan[w].trash
  BY <1>2, <1>5, SweepFacts
<1>18. CASE UNCHANGED rows /\ clean' = [clean EXCEPT ![w] = FALSE]
  <2>1. SharedStep(w) BY <1>2, <1>3, <1>18, SharedStays DEF BudgetOK
  <2>2. ~clean'[w] BY <1>1, <1>18 DEF TypeOK
  <2>3. Successful(s)' = Successful(s) /\ Records(s)' = Records(s)
    BY <1>18 DEF Successful, Active, Records
  <2>4. /\ \A i \in plan'[w].purge : i \in InTrash(s)' /\ ~rows'[i].protected
        /\ Records(s)' \subseteq Records(s) /\ job'[w] = job[w] /\ pc'[w] = Sweep(w)
    BY <1>12, <1>13, <1>16, <2>3 DEF l
  <2>5. \A i \in plan'[w].trash :
           /\ i \in Successful(s)' /\ ~rows'[i].protected
           /\ \E j \in Successful(s)' \ plan'[w].trash : j > i
    BY <1>8, <1>12, <1>18, <2>3
  <2>6. job[w].op \in CreateOps => Id(w) \in Successful(s)' \ plan'[w].trash
    BY <1>12, <1>17, <2>3
  <2>. QED
    BY <1>2, <1>3, <1>4, <1>5, <1>15, <1>16, <2>1, <2>2, <2>4, <2>5, <2>6, SweepGoesOn
<1>19. CASE rows' = [rows EXCEPT ![m].deleted = clock] /\ UNCHANGED clean
  <2> DEFINE r == [rows[m] EXCEPT !.deleted = clock]
  <2>1. clock \in 0..MaxClock /\ clock # 0 BY <1>1, BoundsAssumption DEF TypeOK
  <2>2. r \in Rows /\ r.srv = s /\ r.status = "completed" /\ ~r.protected /\ r.deleted # 0
    BY <1>11, <2>1 DEF Rows
  <2>3. rows' = [rows EXCEPT ![m] = r] BY <1>19
  <2> HIDE DEF r
  <2>4. NoteOK' /\ AnnouncedTruthfully'
    BY <1>2, BoundsAssumption DEF Quiet, NoNote, NoteOK, AnnouncedTruthfully
  <2>5. made' \in made..MaxBackups /\ m <= made'
    <3>1. ~(m > made) BY <1>11 DEF BInv, NumbersInv
    <3>2. made \in 0..MaxBackups /\ m \in Int BY <1>1, <1>11 DEF TypeOK, Ids
    <3>. QED BY <1>16, <3>1, <3>2, BoundsAssumption
  <2>6. SharedStep(w)
    BY <1>2, <1>3, <1>4, <1>5, <1>11, <2>2, <2>3, <2>4, <2>5, RowWritten
  <2>7. rows'[m] = r /\ \A i \in Ids \ {m} : rows'[i] = rows[i]
    BY <1>1, <1>11, <2>3 DEF TypeOK
  <2>8. Records(s)' = Records(s) BY <1>11, <2>2, <2>7 DEF Records
  <2>9. Successful(s)' = Successful(s) \ {m}
    BY <1>11, <2>2, <2>7 DEF Successful, Active
  <2>10. Spare(s)' = Spare(s) \ {m} BY <2>7, <2>9 DEF Spare, Successful, Active
  <2>11. Spare(s)' \ plan'[w].trash = Spare(s) \ plan[w].trash BY <1>9, <1>12, <2>10
  <2>12. job[w].op # "empty" /\ clean'[w] /\ policy'[s].keep > 0 =>
            Cardinality(Spare(s)' \ plan'[w].trash) <= policy'[s].keep
    BY <1>1, <1>2, <1>4, <1>5, <1>16, <1>19, <2>11 DEF OpInv, OnCourse
  <2>13. job[w].op \in CreateOps => Id(w) \in Successful(s)' \ plan'[w].trash
    BY <1>9, <1>12, <1>17, <2>9
  <2>14. \A i \in plan'[w].trash :
            /\ i \in Successful(s)' /\ ~rows'[i].protected
            /\ \E j \in Successful(s)' \ plan'[w].trash : j > i
    BY <1>7, <1>8, <1>9, <1>12, <2>7, <2>9
  <2>15. /\ \A i \in plan'[w].purge : i \in InTrash(s)' /\ ~rows'[i].protected
         /\ Records(s)' \subseteq Records(s) /\ job'[w] = job[w] /\ pc'[w] = Sweep(w)
    BY <1>12, <1>13, <1>16, <2>8 DEF l
  <2>. QED
    BY <1>2, <1>3, <1>4, <1>5, <1>15, <1>16, <2>6, <2>12, <2>13, <2>14, <2>15, SweepGoesOn
<1>. QED BY <1>6, <1>18, <1>19

\* The end of a sweep, and of the backup before it.
LEMMA SweepEndKeeps ==
    ASSUME BInv, NEW w \in Workers, SweepEnd(w)
    PROVE  BInv'
<1>1. TypeOK BY DEF BInv
<1>2. pc[w] = "c_end" /\ Sweeping(w) /\ Finish(w)
      /\ UNCHANGED <<rows, disk, policy, clock, made, budget>>
  BY DEF SweepEnd, Sweeping
<1>3. BudgetOK' /\ budget'.backups = budget.backups BY <1>1, <1>2 DEF BudgetOK, TypeOK
<1>4. CASE Quiet BY <1>2, <1>3, <1>4, SharedStays, FinishKeeps DEF BudgetOK
<1>5. CASE job[w].op = "backup" /\ Announce("completed", Id(w))
  <2>1. Id(w) \in Successful(Of(w)) /\ Holds(w) /\ Of(w) \in Servers
    BY <1>2, <1>5, SweepFacts DEF CreateOps
  <2>2. Id(w) \in Ids /\ rows[Id(w)].status = "completed" /\ rows[Id(w)].deleted = 0
        /\ rows[Id(w)].srv = Of(w) /\ rows[Id(w)] \in Rows
    BY <1>1, <2>1 DEF Successful, Active, TypeOK
  <2>3. note' = [kind |-> "completed", id |-> Id(w)] BY <1>5 DEF Announce
  <2>4. NoteOK' /\ AnnouncedTruthfully' BY <1>2, <2>2, <2>3 DEF NoteOK, Ids, AnnouncedTruthfully
  <2>5. rows' = [rows EXCEPT ![Id(w)] = rows[Id(w)]] BY <1>1, <1>2, <2>2 DEF TypeOK
  <2>6. made' \in made..MaxBackups /\ Id(w) <= made'
    <3>1. ~(Id(w) > made) BY <2>2 DEF BInv, NumbersInv
    <3>2. made \in 0..MaxBackups /\ Id(w) \in Int BY <1>1, <2>2 DEF TypeOK, Ids
    <3>. QED BY <1>2, <3>1, <3>2, BoundsAssumption
  <2>7. SharedStep(w) BY <1>2, <1>3, <2>1, <2>2, <2>4, <2>5, <2>6, RowWritten
  <2>. QED BY <1>2, <1>3, <2>7, FinishKeeps
<1>. QED BY <1>4, <1>5 DEF SweepEnd

-----------------------------------------------------------------------------
(* changeBackup and SavePolicy                                             *)

\* A change is written to the record that was read.
LEMMA ChangeWriteKeeps ==
    ASSUME BInv, NEW w \in Workers, ChangeWrite(w)
    PROVE  BInv'
<1>1. TypeOK /\ OpInv(w) BY DEF BInv
<1>2. pc[w] = "g_write" /\ Finish(w) /\ Quiet /\ UNCHANGED <<disk, policy, clock, made>>
  BY DEF ChangeWrite
<1>3. BudgetOK' /\ budget'.backups = budget.backups
  BY <1>1, BudgetKept DEF ChangeWrite, BudgetOK
<1>4. Holds(w) /\ Of(w) \in Servers /\ job[w].op \in ChangeOps \ {"purge"}
      /\ Changeable(job[w].op, rows[Id(w)])
  BY <1>1, <1>2 DEF OpInv, Control, Holds, Changing
<1>5. rows[Id(w)].status # "none" BY <1>4 DEF Changeable
<1>6. Id(w) \in Ids /\ Id(w) <= made /\ rows[Id(w)].srv = Of(w) /\ made' \in made..MaxBackups
  <2>1. Id(w) \in 0..made /\ Id(w) # 0 /\ rows[Id(w)].srv = Of(w)
    BY <1>1, <1>4, <1>5 DEF OpInv, Numbered
  <2>. QED BY <1>1, <1>2, <2>1, BoundsAssumption DEF TypeOK, Ids
<1>7. CASE UNCHANGED rows
  BY <1>2, <1>3, <1>7, SharedStays, FinishKeeps DEF BudgetOK
<1>8. CASE rows' = [rows EXCEPT ![Id(w)] = Changed(job[w].op, @)]
  <2> DEFINE o == job[w].op
             q == rows[Id(w)]
             r == Changed(o, q)
  <2>1. q \in Rows /\ q.srv = Of(w) /\ q.status # "none" /\ Changeable(o, q)
        /\ (q.protected => q.status = "completed" /\ q.deleted = 0)
        /\ (q.status = "pending" => q.deleted = 0)
    BY <1>1, <1>4, <1>5, <1>6 DEF TypeOK, BInv, RowsInv
  <2>2. clock \in 0..MaxClock /\ 0 \in 0..MaxClock BY <1>1, BoundsAssumption DEF TypeOK
  <2>3. o \in {"trash", "recover", "protect", "unprotect"} BY <1>4 DEF ChangeOps
  <2>4. rows' = [rows EXCEPT ![Id(w)] = r] BY <1>8
  <2> HIDE DEF o, q
  <2>5. /\ r \in Rows /\ r.srv = Of(w) /\ r.status = q.status
        /\ r.protected => r.status = "completed" /\ r.deleted = 0
        /\ r.status = "pending" => r.deleted = 0
    <3>1. CASE o = "trash"
      <4>1. r = [q EXCEPT !.deleted = clock] BY <3>1 DEF Changed
      <4>2. ~q.protected /\ q.status # "pending" BY <2>1, <3>1 DEF Changeable
      <4>. QED BY <2>1, <2>2, <4>1, <4>2 DEF Rows
    <3>2. CASE o = "recover"
      <4>1. r = [q EXCEPT !.deleted = 0, !.protected = q.status = "completed"]
        BY <3>2 DEF Changed
      <4>. QED BY <2>1, <2>2, <4>1 DEF Rows
    <3>3. CASE o = "protect"
      <4>1. r = [q EXCEPT !.protected = TRUE] BY <3>3 DEF Changed
      <4>2. q.deleted = 0 /\ q.status = "completed" BY <2>1, <3>3 DEF Changeable
      <4>. QED BY <2>1, <2>2, <4>1, <4>2 DEF Rows
    <3>4. CASE o = "unprotect"
      <4>1. r = [q EXCEPT !.protected = FALSE] BY <3>4 DEF Changed
      <4>. QED BY <2>1, <2>2, <4>1 DEF Rows
    <3>. QED BY <2>3, <3>1, <3>2, <3>3, <3>4
  <2>6. NoteOK' /\ AnnouncedTruthfully'
    BY <1>2, BoundsAssumption DEF Quiet, NoNote, NoteOK, AnnouncedTruthfully
  <2>7. r.status # "none" BY <2>1, <2>5
  <2>8. Id(w) <= made' BY <1>2, <1>6
  <2> HIDE DEF r
  <2>9. SharedStep(w)
    BY <1>2, <1>3, <1>4, <1>5, <1>6, <2>4, <2>5, <2>6, <2>7, <2>8, RowWritten
  <2>. QED BY <1>2, <1>3, <2>9, FinishKeeps
<1>. QED BY <1>5, <1>7, <1>8 DEF ChangeWrite

\* A policy is saved.
LEMMA SavePolicyKeeps ==
    ASSUME BInv, NEW w \in Workers, SavePolicy(w)
    PROVE  BInv'
<1>1. TypeOK /\ OpInv(w) BY DEF BInv
<1>2. pc[w] = "policy" /\ Finish(w) /\ Quiet /\ UNCHANGED <<rows, disk, clock, made>>
  BY DEF SavePolicy
<1>3. BudgetOK' /\ budget'.backups = budget.backups
  BY <1>1, BudgetKept DEF SavePolicy, BudgetOK
<1>4. Holds(w) BY <1>2 DEF Holds
<1>5. policy' \in [Servers -> Policies] /\ \A s \in Servers \ {Of(w)} : policy'[s] = policy[s]
  BY <1>1 DEF SavePolicy, TypeOK
<1>6. SharedStep(w)
  BY <1>1, <1>2, <1>3, <1>4, <1>5, FilesWritten DEF TypeOK, disk
<1>. QED BY <1>2, <1>3, <1>6, FinishKeeps

-----------------------------------------------------------------------------
(* The environment.                                                        *)

\* The clock, and the running server's own files.
LEMMA EnvironmentKeeps ==
    ASSUME BInv, Tick \/ \E s \in Servers : Play(s)
    PROVE  BInv'
<1>1. TypeOK BY DEF BInv
<1>2. UNCHANGED <<rows, archive, kept, policy, lock, slots, pc, job, tmp, plan, clean, gone, made,
                  budget>> /\ Quiet
  BY DEF Tick, Play, disk, locks, locals
<1>3. clock' \in 1..MaxClock BY <1>1, BoundsAssumption DEF TypeOK, Tick, Play
<1>4. world' \in [Servers -> Versions]
      /\ \A s \in Servers : world[s] = 0 => world'[s] = 0
  <2>1. CASE Tick BY <1>1, <2>1 DEF Tick, disk, TypeOK
  <2>2. ASSUME NEW s \in Servers, Play(s)
        PROVE  world' \in [Servers -> Versions] /\ \A t \in Servers : world[t] = 0 => world'[t] = 0
    <3>1. world[s] + 1 \in Versions /\ world[s] # 0 BY <2>2, BoundsAssumption DEF Play, Versions
    <3>. QED BY <1>1, <2>2, <3>1 DEF Play, TypeOK
  <2>. QED BY <2>1, <2>2
<1>5. NoteOK' /\ AnnouncedTruthfully'
  BY <1>2, BoundsAssumption DEF Quiet, NoNote, NoteOK, AnnouncedTruthfully
<1>6. TypeOK' BY <1>1, <1>2, <1>3, <1>4, <1>5 DEF TypeOK, NoteOK
<1>7. RowsInv' BY <1>2 DEF BInv, RowsInv
<1>8. NumbersInv' BY <1>2 DEF BInv, NumbersInv, Unnumbered
<1>9. ASSUME NEW w \in Workers PROVE OpInv(w)'
  <2>1. OpInv(w) BY DEF BInv
  <2>2. Control(w)' BY <1>2, <2>1 DEF OpInv, Control, Of, Holds
  <2>3. Numbered(w)' BY <1>2, <2>1 DEF OpInv, Numbered, Of, Id, Unnumbered, Records
  <2>4. Planned(w)' /\ OnCourse(w)' /\ Changing(w)'
    BY <1>2, <2>1
    DEF OpInv, Planned, OnCourse, Changing, Of, Id, Sweeping, InTrash, Successful,
        Active, Spare, Doomed, Changeable
  <2>5. Restoring(w)'
    <3>1. pc[w] \in {"r_swap", "r_back"} => Of(w) \in Servers BY <2>1 DEF OpInv, Control
    <3>. QED BY <1>2, <1>4, <2>1, <3>1 DEF OpInv, Restoring, Of, Id, Successful, Active
  <2>. QED BY <2>2, <2>3, <2>4, <2>5 DEF OpInv
<1>. QED BY <1>5, <1>6, <1>7, <1>8, <1>9 DEF BInv

\* The panel dies: every operation is gone, what it left stays.
LEMMA CrashKeeps ==
    ASSUME BInv, Crash
    PROVE  BInv'
<1>1. TypeOK BY DEF BInv
<1>2. rows' = rows /\ archive' = archive /\ world' = world /\ kept' = kept /\ policy' = policy
      /\ clock' = clock /\ made' = made /\ Quiet
  BY DEF Crash, disk
<1>3. BudgetOK' /\ budget'.backups = budget.backups
  <2>1. budget.crashes \in 0..MaxCrashes /\ budget.crashes > 0 BY <1>1 DEF Crash, TypeOK
  <2>2. budget.crashes - 1 \in 0..MaxCrashes BY <2>1, BoundsAssumption
  <2>. QED BY <1>1, <2>2 DEF Crash, TypeOK, BudgetOK
<1>4. /\ lock' = [s \in Servers |-> NoOne] /\ slots' = {}
      /\ pc' = [w \in Workers |-> "idle"]
      /\ job' = [w \in Workers |-> NoJob] /\ tmp' = [w \in Workers |-> 0]
      /\ plan' = [w \in Workers |-> NoPlan] /\ clean' = [w \in Workers |-> TRUE]
      /\ gone' = [w \in Workers |-> FALSE]
  BY DEF Crash
<1>5. NoteOK' /\ AnnouncedTruthfully'
  BY <1>2, BoundsAssumption DEF Quiet, NoNote, NoteOK, AnnouncedTruthfully
<1>6. LocalsOK'
  <2>1. NoJob \in Jobs /\ NoPlan \in [purge : SUBSET Ids, trash : SUBSET Ids] /\ 0 \in Versions
        /\ "idle" \in Labels
    BY BoundsAssumption DEF NoJob, Jobs, NoPlan, Versions, Labels
  <2>. QED BY <1>4, <2>1 DEF LocalsOK
<1>7. TypeOK' BY <1>1, <1>2, <1>3, <1>5, <1>6 DEF TypeOK, LocalsOK, NoteOK, BudgetOK
<1>8. RowsInv' BY <1>2 DEF BInv, RowsInv
<1>9. NumbersInv'
  <2>1. {w \in Workers : Unnumbered(w)'} = {} BY <1>4 DEF Unnumbered
  <2>2. Cardinality({w \in Workers : Unnumbered(w)'}) = 0 BY <2>1, FS_EmptySet
  <2> DEFINE U == {w \in Workers : Unnumbered(w)}
  <2>3. IsFiniteSet(U) BY ActorsAssumption, FS_Subset
  <2>4. made + budget.backups + Cardinality(U) <= MaxBackups BY DEF BInv, NumbersInv
  <2> HIDE DEF U
  <2>5. Cardinality(U) \in Nat BY <2>3, FS_CardinalityType
  <2>6. made \in Nat /\ budget.backups \in Nat /\ MaxBackups \in Nat
    BY <1>1, BoundsAssumption DEF TypeOK
  <2>7. made' + budget'.backups + 0 <= MaxBackups BY <1>2, <1>3, <2>4, <2>5, <2>6
  <2>8. \A i \in Ids : i > made' => rows'[i].status = "none" BY <1>2 DEF BInv, NumbersInv
  <2>. QED BY <2>2, <2>7, <2>8 DEF NumbersInv
<1>10. ASSUME NEW w \in Workers PROVE OpInv(w)'
  <2>1. pc'[w] = "idle" /\ job'[w] = NoJob /\ plan'[w] = NoPlan /\ w \notin slots' BY <1>4
  <2>2. Control(w)' BY <2>1 DEF Control, NoJob, Holds
  <2>3. Numbered(w)'
    BY <1>1, <1>2, <2>1, BoundsAssumption
    DEF Numbered, NoJob, Id, ChangeOps, CreateOps, TypeOK
  <2>4. Planned(w)' BY <2>1 DEF Planned, NoPlan, Sweeping
  <2>5. OnCourse(w)' /\ Restoring(w)' /\ Changing(w)'
    BY <2>1 DEF OnCourse, Restoring, Changing, Sweeping
  <2>. QED BY <2>2, <2>3, <2>4, <2>5 DEF OpInv
<1>. QED BY <1>5, <1>7, <1>8, <1>9, <1>10 DEF BInv

-----------------------------------------------------------------------------
(* The invariant of the backups.                                           *)

\* It holds at the start.
LEMMA InitInv == Init => BInv
<1> SUFFICES ASSUME Init PROVE BInv OBVIOUS
<1>1. PICK s \in Servers :
        rows = [i \in Ids |-> IF i > Existing THEN NoRow
                              ELSE [srv |-> s, status |-> "completed", protected |-> FALSE,
                                    created |-> 1, deleted |-> 0]]
  BY DEF Init
<1>2. MaxBackups \in Nat /\ Existing \in 0..MaxBackups /\ MaxClock \in Nat /\ 1 \in 0..MaxClock
      /\ 0 \in 0..MaxClock /\ 0 \in Versions /\ 1 \in Versions
  BY BoundsAssumption DEF Versions
<1>3. NoRow \in Rows /\ NoRow.status = "none" /\ NoRow.protected = FALSE
  BY <1>2 DEF NoRow, Rows, Statuses
<1>4. /\ rows \in [Ids -> Rows]
      /\ \A i \in Ids : rows[i].status = "none" => rows[i] = NoRow
      /\ \A i \in Ids : i > Existing => rows[i].status = "none"
      /\ \A i \in Ids : rows[i].status \in {"none", "completed"} /\ ~rows[i].protected
      /\ \A i \in Ids : rows[i].status # "none" => rows[i].srv \in Servers
  <2> DEFINE r == [srv |-> s, status |-> "completed", protected |-> FALSE,
                   created |-> 1, deleted |-> 0]
  <2>1. r \in Rows /\ r.status = "completed" /\ r.protected = FALSE /\ r.srv = s
    BY <1>2 DEF Rows, Statuses
  <2>2. rows = [i \in Ids |-> IF i > Existing THEN NoRow ELSE r] BY <1>1
  <2> HIDE DEF r
  <2>. QED BY <1>3, <2>1, <2>2
<1>5. BudgetOK /\ budget.backups = MaxBackups - Existing /\ made = Existing
  <2>1. MaxBackups - Existing \in 0..MaxBackups /\ MaxOps \in 0..MaxOps
        /\ MaxFaults \in 0..MaxFaults /\ MaxCrashes \in 0..MaxCrashes
    BY BoundsAssumption
  <2>. QED BY <2>1 DEF Init, BudgetOK
<1>6. NoteOK /\ AnnouncedTruthfully
  BY <1>2 DEF Init, NoNote, NoteOK, AnnouncedTruthfully
<1>7. LocalsOK
  <2>1. NoJob \in Jobs /\ NoPlan \in [purge : SUBSET Ids, trash : SUBSET Ids] /\ "idle" \in Labels
    BY <1>2 DEF NoJob, Jobs, NoPlan, Labels
  <2>. QED BY <1>2, <2>1 DEF Init, LocalsOK
<1>8. TypeOK
  <2>1. archive \in [Ids -> Versions] /\ world \in [Servers -> Versions]
        /\ kept \in [Servers -> Seq(Versions)]
    BY <1>2 DEF Init
  <2>2. policy \in [Servers -> Policies] /\ clock \in 1..MaxClock
    BY BoundsAssumption DEF Init
  <2>. QED BY <1>2, <1>4, <1>5, <1>6, <1>7, <2>1, <2>2
           DEF TypeOK, LocalsOK, NoteOK, BudgetOK
<1>9. RowsInv BY <1>4 DEF RowsInv
<1>10. NumbersInv
  <2>1. {w \in Workers : Unnumbered(w)} = {} BY DEF Init, Unnumbered
  <2>2. Cardinality({w \in Workers : Unnumbered(w)}) = 0 BY <2>1, FS_EmptySet
  <2>3. Existing + (MaxBackups - Existing) + 0 <= MaxBackups BY <1>2
  <2>. QED BY <1>4, <1>5, <2>2, <2>3 DEF NumbersInv
<1>11. ASSUME NEW w \in Workers PROVE OpInv(w)
  <2>1. pc[w] = "idle" /\ job[w] = NoJob /\ plan[w] = NoPlan /\ w \notin slots BY DEF Init
  <2>2. Control(w) BY <2>1 DEF Control, NoJob, Holds
  <2>3. Numbered(w)
    BY <1>2, <1>5, <2>1 DEF Numbered, NoJob, Id, ChangeOps, CreateOps
  <2>4. Planned(w) BY <2>1 DEF Planned, NoPlan, Sweeping
  <2>5. OnCourse(w) /\ Restoring(w) /\ Changing(w)
    BY <2>1 DEF OnCourse, Restoring, Changing, Sweeping
  <2>. QED BY <2>2, <2>3, <2>4, <2>5 DEF OpInv
<1>. QED BY <1>6, <1>8, <1>9, <1>10, <1>11 DEF BInv

\* A step in which nothing happens keeps it.
LEMMA StutterKeeps == ASSUME BInv, UNCHANGED vars PROVE BInv'
<1>1. UNCHANGED <<rows, archive, world, kept, policy, clock, lock, slots, pc, job, tmp, plan,
                  clean, gone, note, made, budget>>
  BY DEF vars, disk, locks, locals
<1>2. TypeOK' /\ RowsInv' /\ NumbersInv' /\ AnnouncedTruthfully'
  BY <1>1 DEF BInv, TypeOK, RowsInv, NumbersInv, AnnouncedTruthfully, Unnumbered
<1>3. ASSUME NEW w \in Workers PROVE OpInv(w)'
  <2>1. OpInv(w) BY DEF BInv
  <2>2. Control(w)' BY <1>1, <2>1 DEF OpInv, Control, Of, Holds
  <2>3. Numbered(w)' BY <1>1, <2>1 DEF OpInv, Numbered, Of, Id, Unnumbered, Records
  <2>4. Planned(w)' /\ OnCourse(w)' /\ Changing(w)'
    BY <1>1, <2>1
    DEF OpInv, Planned, OnCourse, Changing, Of, Id, Sweeping, InTrash, Successful,
        Active, Spare, Doomed, Changeable
  <2>5. Restoring(w)' BY <1>1, <2>1 DEF OpInv, Restoring, Of, Id, Successful, Active
  <2>. QED BY <2>2, <2>3, <2>4, <2>5 DEF OpInv
<1>. QED BY <1>2, <1>3 DEF BInv

\* Every step keeps it: of a request, of an operation and of the environment.
LEMMA NextInv == BInv /\ [Next]_vars => BInv'
<1> SUFFICES ASSUME BInv, [Next]_vars PROVE BInv' OBVIOUS
<1>1. ASSUME NEW w \in Workers, Request(w) PROVE BInv'
  BY <1>1, BeginKeeps, BeginOnKeeps DEF Request
<1>2. ASSUME NEW w \in Workers, Cancel(w) PROVE BInv' BY <1>2, CancelKeeps
<1>3. ASSUME NEW w \in Workers, Work(w) PROVE BInv'
  BY <1>3, TakeLockKeeps, TakeSlotKeeps, GiveUpKeeps, CheckKeeps, BackupInsertKeeps,
     BackupArchiveKeeps, BackupSaveKeeps, BackupFailKeeps, BackupCommitKeeps, UploadSaveKeeps,
     UploadInsertKeeps, RestoreGetKeeps, RestoreStageKeeps, RestoreAsideKeeps, RestoreSwapKeeps,
     RestoreBackKeeps, PlanKeeps, DeleteArchiveKeeps, DeleteRecordKeeps, SweepToTrashKeeps,
     SweepEndKeeps, ChangeGetKeeps, ChangeWriteKeeps, SavePolicyKeeps
  DEF Work
<1>4. CASE Tick \/ \E s \in Servers : Play(s) BY <1>4, EnvironmentKeeps
<1>5. CASE Crash BY <1>5, CrashKeeps
<1>6. CASE UNCHANGED vars BY <1>6, StutterKeeps
<1>. QED BY <1>1, <1>2, <1>3, <1>4, <1>5, <1>6 DEF Next

\* BInv is an invariant of the backups.
THEOREM BackupsInvariance == Spec => []BInv
<1>1. Init => BInv BY InitInv
<1>2. BInv /\ [Next]_vars => BInv' BY NextInv
<1>. QED BY <1>1, <1>2, PTL DEF Spec

-----------------------------------------------------------------------------
(* Which steps change a record, an archive and the files of a server.      *)

RecordStep(w) ==
    \/ BackupInsert(w) \/ UploadInsert(w) \/ BackupFail(w) \/ BackupCommit(w)
    \/ DeleteRecord(w) \/ SweepToTrash(w) \/ ChangeWrite(w)
ArchiveStep(w) == BackupSave(w) \/ UploadSave(w) \/ DeleteArchive(w)
FilesStep(w) == RestoreAside(w) \/ RestoreSwap(w) \/ RestoreBack(w)

\* Every other action leaves them alone.
LEMMA Changers ==
    ASSUME [Next]_vars
    PROVE  /\ rows' = rows \/ \E w \in Workers : RecordStep(w)
           /\ archive' = archive \/ \E w \in Workers : ArchiveStep(w)
           /\ \/ world' = world /\ kept' = kept
              \/ \E w \in Workers : FilesStep(w)
              \/ \E s \in Servers : Play(s)
<1>1. ASSUME NEW w \in Workers, Request(w) \/ Cancel(w) \/ TakeLock(w) \/ TakeSlot(w) \/ GiveUp(w)
      PROVE  rows' = rows /\ archive' = archive /\ world' = world /\ kept' = kept
  BY <1>1 DEF Request, Begin, BeginOn, Cancel, TakeLock, TakeSlot, GiveUp, disk
<1>2. ASSUME NEW w \in Workers,
             \/ Check(w) \/ BackupArchive(w) \/ RestoreGet(w) \/ RestoreStage(w) \/ Plan(w)
             \/ SweepEnd(w) \/ ChangeGet(w) \/ SavePolicy(w)
      PROVE  rows' = rows /\ archive' = archive /\ world' = world /\ kept' = kept
  BY <1>2
  DEF Check, BackupArchive, RestoreGet, RestoreStage, Plan, SweepEnd, ChangeGet, SavePolicy, disk
<1>3. ASSUME NEW w \in Workers, RecordStep(w)
      PROVE  archive' = archive /\ world' = world /\ kept' = kept
  BY <1>3
  DEF RecordStep, BackupInsert, UploadInsert, BackupFail, BackupCommit, DeleteRecord,
      SweepToTrash, ChangeWrite, disk
<1>4. ASSUME NEW w \in Workers, ArchiveStep(w)
      PROVE  rows' = rows /\ world' = world /\ kept' = kept
  BY <1>4 DEF ArchiveStep, BackupSave, UploadSave, DeleteArchive
<1>5. ASSUME NEW w \in Workers, FilesStep(w) PROVE rows' = rows /\ archive' = archive
  BY <1>5 DEF FilesStep, RestoreAside, RestoreSwap, RestoreBack
<1>6. ASSUME NEW s \in Servers, Play(s) PROVE rows' = rows /\ archive' = archive
  BY <1>6 DEF Play
<1>7. CASE Tick \/ Crash \/ UNCHANGED vars BY <1>7 DEF Tick, Crash, vars, disk
<1>. QED
  BY <1>1, <1>2, <1>3, <1>4, <1>5, <1>6, <1>7
  DEF Next, Work, RecordStep, ArchiveStep, FilesStep

\* What can happen to a record in one step: it is inserted, a pending one gets its
\* status, one of the trash is deleted after its archive, a sweep or a request changes it.
Inserted(i) ==
    rows[i].status = "none" /\ rows'[i].status # "none" /\ rows'[i].deleted = 0
Settled(i) ==
    rows[i].status = "pending" /\ rows'[i].status # "none" /\ rows'[i].deleted = rows[i].deleted
Dropped(w, i) ==
    pc[w] = "drop" /\ ~rows[i].protected /\ archive[i] = 0
Trashed(w, i) ==
    /\ pc[w] = "c_trash" /\ ~rows[i].protected /\ rows'[i].status = rows[i].status
    /\ \E j \in Successful(rows[i].srv) : j > i /\ rows'[j] = rows[j]
ChangedBy(w, i) ==
    /\ pc[w] = "g_write" /\ rows'[i].status = rows[i].status
    /\ rows[i].protected => rows'[i].deleted = 0

LEMMA RecordChanges ==
    ASSUME BInv, NEW w \in Workers, RecordStep(w), NEW i \in Ids, rows'[i] # rows[i]
    PROVE  /\ \/ Inserted(i) \/ Settled(i) \/ Dropped(w, i) \/ Trashed(w, i) \/ ChangedBy(w, i)
           /\ \A u \in Workers \ {w} : plan'[u] = plan[u]
           /\ pc[w] = "c_trash" => Trashed(w, i)
<1>1. TypeOK /\ OpInv(w) BY DEF BInv
<1>2. rows \in [Ids -> Rows] /\ plan \in [Workers -> [purge : SUBSET Ids, trash : SUBSET Ids]]
  BY <1>1 DEF TypeOK
<1>3. ASSUME NEW u \in Workers \ {w}, Finish(w) \/ NextDoomed(w, TRUE) \/ NextDoomed(w, FALSE)
      PROVE  plan'[u] = plan[u]
  BY <1>2, <1>3 DEF Finish, NextDoomed
<1>4. CASE BackupInsert(w)
  <2>1. rows' = [rows EXCEPT ![made + 1] = [srv |-> Of(w), status |-> "pending",
                    protected |-> FALSE, created |-> clock, deleted |-> 0]]
        /\ plan' = plan /\ pc[w] = "b_insert"
    BY <1>4 DEF BackupInsert, Record
  <2>2. i = made + 1 /\ rows'[i].status = "pending" /\ rows'[i].deleted = 0
    BY <1>2, <2>1
  <2>3. i > made BY <1>1, <2>2, BoundsAssumption DEF TypeOK
  <2>4. rows[i].status = "none" BY <2>3 DEF BInv, NumbersInv
  <2>. QED BY <2>1, <2>2, <2>4 DEF Inserted
<1>5. CASE UploadInsert(w)
  <2>1. rows' = [rows EXCEPT ![Id(w)] = [srv |-> Of(w), status |-> "completed",
                    protected |-> FALSE, created |-> job[w].day, deleted |-> 0]]
        /\ plan' = plan /\ pc[w] = "u_insert"
    BY <1>5 DEF UploadInsert, Record, Proceed
  <2>2. i = Id(w) /\ rows'[i].status = "completed" /\ rows'[i].deleted = 0
    BY <1>2, <2>1
  <2>3. rows[i].status = "none" BY <1>1, <2>1, <2>2 DEF OpInv, Numbered
  <2>. QED BY <2>1, <2>2, <2>3 DEF Inserted
<1>6. CASE BackupFail(w)
  <2>1. rows' = [rows EXCEPT ![Id(w)].status = "failed"] /\ Finish(w) /\ pc[w] = "b_fail"
    BY <1>6 DEF BackupFail
  <2>2. i = Id(w) /\ rows[i].status = "pending" BY <1>2, <2>1, PendingFacts
  <2>3. rows'[i] = [rows[i] EXCEPT !.status = "failed"] BY <1>2, <2>1, <2>2
  <2>4. rows'[i].status = "failed" /\ rows'[i].deleted = rows[i].deleted
    BY <1>2, <2>3 DEF Rows
  <2>. QED BY <1>3, <2>1, <2>2, <2>4 DEF Settled
<1>7. CASE BackupCommit(w)
  <2>1. rows' = [rows EXCEPT ![Id(w)].status = "completed"] /\ plan' = plan /\ pc[w] = "b_commit"
    BY <1>7 DEF BackupCommit, Proceed
  <2>2. i = Id(w) /\ rows[i].status = "pending" BY <1>2, <2>1, PendingFacts
  <2>3. rows'[i] = [rows[i] EXCEPT !.status = "completed"] BY <1>2, <2>1, <2>2
  <2>4. rows'[i].status = "completed" /\ rows'[i].deleted = rows[i].deleted
    BY <1>2, <2>3 DEF Rows
  <2>. QED BY <2>1, <2>2, <2>4 DEF Settled
<1>8. CASE DeleteRecord(w)
  <2>1. rows' = [rows EXCEPT ![Doomed(w)] = NoRow] /\ NextDoomed(w, TRUE) /\ pc[w] = "drop"
    BY <1>8 DEF DeleteRecord
  <2>2. i = Doomed(w) BY <1>2, <2>1
  <2>3. ~rows[i].protected BY <2>1, <2>2, DeletionFacts
  <2>4. archive[i] = 0 BY <1>1, <2>1, <2>2 DEF OpInv, Planned
  <2>. QED BY <1>3, <2>1, <2>3, <2>4 DEF Dropped
<1>9. CASE SweepToTrash(w)
  <2> DEFINE m == Max(plan[w].trash)
  <2>1. /\ rows' = [rows EXCEPT ![m].deleted = clock] /\ pc[w] = "c_trash"
        /\ plan' = [plan EXCEPT ![w].trash = @ \ {m}]
    BY <1>9 DEF SweepToTrash
  <2>2. plan[w].trash \in SUBSET Ids /\ plan[w].trash # {}
    BY <1>1, <1>2, <2>1 DEF OpInv, Planned
  <2>3. m \in plan[w].trash
    <3>1. Ids \subseteq Int /\ IsFiniteSet(Ids) BY FS_Interval, BoundsAssumption DEF Ids
    <3>. QED BY <2>2, <3>1, FS_Subset, MaxIsLargest
  <2> HIDE DEF m
  <2>4. i = m /\ rows'[i] = [rows[i] EXCEPT !.deleted = clock] BY <1>2, <2>1
  <2>5. PICK s \in Servers : s = Of(w)
    <3>1. Sweeping(w) BY <2>1 DEF Sweeping
    <3>. QED BY <3>1, SweepFacts
  <2>6. /\ i \in Successful(s) /\ ~rows[i].protected
        /\ \E j \in Successful(s) \ plan[w].trash : j > i
    BY <1>1, <2>3, <2>4, <2>5 DEF OpInv, Planned
  <2>7. PICK j \in Successful(s) \ plan[w].trash : j > i BY <2>6
  <2>8. rows[i].srv = s /\ j \in Ids /\ j # i BY <2>3, <2>4, <2>6, <2>7 DEF Successful, Active
  <2>9. rows'[j] = rows[j] BY <1>2, <2>1, <2>4, <2>8
  <2>10. rows'[i].status = rows[i].status BY <1>2, <2>4 DEF Rows
  <2>11. Trashed(w, i) BY <2>1, <2>6, <2>7, <2>8, <2>9, <2>10 DEF Trashed
  <2>12. \A u \in Workers \ {w} : plan'[u] = plan[u] BY <1>2, <2>1
  <2>. QED BY <2>11, <2>12
<1>10. CASE ChangeWrite(w)
  <2> DEFINE o == job[w].op
             q == rows[i]
             r == Changed(o, q)
  <2>1. /\ rows' = IF rows[Id(w)].status = "none" THEN rows
                   ELSE [rows EXCEPT ![Id(w)] = Changed(job[w].op, @)]
        /\ Finish(w) /\ pc[w] = "g_write"
    BY <1>10 DEF ChangeWrite
  <2>2. i = Id(w) /\ rows' = [rows EXCEPT ![i] = r] BY <1>2, <2>1
  <2>3. rows'[i] = r BY <1>2, <2>2
  <2>4. Changeable(o, q) /\ o \in ChangeOps \ {"purge"} /\ q \in Rows
    BY <1>1, <1>2, <2>1, <2>2 DEF OpInv, Control, Changing
  <2>5. o \in {"trash", "recover", "protect", "unprotect"} BY <2>4 DEF ChangeOps
  <2> HIDE DEF o, q
  <2>6. r.status = q.status /\ (q.protected => r.deleted = 0)
    <3>1. CASE o = "trash"
      <4>1. r = [q EXCEPT !.deleted = clock] BY <3>1 DEF Changed
      <4>2. ~q.protected BY <2>4, <3>1 DEF Changeable
      <4>. QED BY <2>4, <4>1, <4>2 DEF Rows
    <3>2. CASE o = "recover"
      <4>1. r = [q EXCEPT !.deleted = 0, !.protected = q.status = "completed"]
        BY <3>2 DEF Changed
      <4>. QED BY <2>4, <4>1 DEF Rows
    <3>3. CASE o = "protect"
      <4>1. r = [q EXCEPT !.protected = TRUE] BY <3>3 DEF Changed
      <4>2. q.deleted = 0 BY <2>4, <3>3 DEF Changeable
      <4>. QED BY <2>4, <4>1, <4>2 DEF Rows
    <3>4. CASE o = "unprotect"
      <4>1. r = [q EXCEPT !.protected = FALSE] BY <3>4 DEF Changed
      <4>2. q.deleted = 0 BY <2>4, <3>4 DEF Changeable
      <4>. QED BY <2>4, <4>1, <4>2 DEF Rows
    <3>. QED BY <2>5, <3>1, <3>2, <3>3, <3>4
  <2> HIDE DEF r
  <2>7. ChangedBy(w, i) BY <2>1, <2>3, <2>6 DEF ChangedBy, q
  <2>. QED BY <1>3, <2>1, <2>7
<1>. QED BY <1>4, <1>5, <1>6, <1>7, <1>8, <1>9, <1>10 DEF RecordStep

\* The archive of a protected record is not written and not removed.
LEMMA ArchiveChanges ==
    ASSUME BInv, NEW w \in Workers, ArchiveStep(w), NEW i \in Ids, archive'[i] # archive[i]
    PROVE  ~rows[i].protected
<1>1. TypeOK BY DEF BInv
<1>2. archive \in [Ids -> Versions] BY <1>1 DEF TypeOK
<1>3. CASE BackupSave(w)
  <2>1. archive' = [archive EXCEPT ![Id(w)] = tmp[w]] /\ pc[w] = "b_save"
    BY <1>3 DEF BackupSave
  <2>2. i = Id(w) /\ rows[i].status = "pending" BY <1>2, <2>1, PendingFacts
  <2>. QED BY <2>2 DEF BInv, RowsInv
<1>4. CASE UploadSave(w)
  <2>1. PICK v \in Versions : archive' = [archive EXCEPT ![made + 1] = v]
    BY <1>4 DEF UploadSave
  <2>2. i = made + 1 BY <1>2, <2>1
  <2>3. i > made BY <1>1, <2>2, BoundsAssumption DEF TypeOK
  <2>. QED BY <2>3 DEF BInv, NumbersInv, RowsInv
<1>5. CASE DeleteArchive(w)
  <2>1. archive' = [archive EXCEPT ![Doomed(w)] = 0] /\ pc[w] = "remove"
    BY <1>5 DEF DeleteArchive
  <2>2. i = Doomed(w) BY <1>2, <2>1
  <2>. QED BY <2>1, <2>2, DeletionFacts
<1>. QED BY <1>3, <1>4, <1>5 DEF ArchiveStep

-----------------------------------------------------------------------------
(* What the backups promise.                                               *)

\* Every variable keeps its type, for any number of servers, workers and failures.
THEOREM BackupsTypeCorrect == Spec => []TypeOK
<1>1. BInv => TypeOK BY DEF BInv
<1>. QED BY <1>1, BackupsInvariance, PTL

\* A notification never contradicts the record it is about: what Backup announces as
\* completed is a success outside the trash, what it announces as failed is not a success.
THEOREM AnnouncementsAreTrue == Spec => []AnnouncedTruthfully
<1>1. BInv => AnnouncedTruthfully BY DEF BInv
<1>. QED BY <1>1, BackupsInvariance, PTL

\* After a cleanup in which no call failed the count of the policy is met, whatever the
\* other operations did to other servers and however often retention was interrupted before.
THEOREM CleanSweepMeetsQuota == Spec => []QuotaMet
<1>1. BInv => QuotaMet
  <2> SUFFICES ASSUME BInv, NEW w \in Workers, pc[w] = "c_end", clean[w],
                      job[w].op # "empty", policy[Of(w)].keep > 0
               PROVE  Cardinality({i \in Successful(Of(w)) : ~rows[i].protected})
                         <= policy[Of(w)].keep
    BY DEF QuotaMet
  <2>1. Sweeping(w) /\ OpInv(w) BY DEF Sweeping, BInv
  <2>2. job[w].op # "purge" /\ plan[w].trash = {}
    BY <2>1, SweepFacts DEF OpInv, Planned, NoPlan
  <2>3. Cardinality(Spare(Of(w)) \ plan[w].trash) <= policy[Of(w)].keep
    BY <2>1, <2>2 DEF OpInv, OnCourse
  <2>. QED BY <2>2, <2>3 DEF Spare
<1>. QED BY <1>1, BackupsInvariance, PTL

\* deleteLocked removes the archive before the record: a record that disappears leaves no
\* archive behind, although its removal may fail, be retried and be cut short by a crash.
THEOREM RecordsOutliveArchives == Spec => RecordOutlivesArchive
<1> DEFINE A == \A i \in Ids :
                   rows[i].status # "none" /\ rows'[i].status = "none" => archive[i] = 0
<1>1. BInv /\ [Next]_vars => A
  <2> SUFFICES ASSUME BInv, [Next]_vars, NEW i \in Ids,
                      rows[i].status # "none", rows'[i].status = "none"
               PROVE  archive[i] = 0
    OBVIOUS
  <2>1. PICK w \in Workers : RecordStep(w) BY Changers
  <2>. QED BY <2>1, RecordChanges DEF Inserted, Settled, Dropped, Trashed, ChangedBy
<1>2. BInv /\ [Next]_vars => [A]_vars BY <1>1
<1>. QED BY <1>2, BackupsInvariance, PTL DEF Spec, RecordOutlivesArchive

\* A protected snapshot and its archive stay as they are, and a sweep that moves a snapshot
\* to the trash leaves a newer successful one: what a plan was made for still holds when it
\* is carried out, because Protect, Recover and every sweep share the lock of the server.
THEOREM SparedSnapshotsStay == Spec => SparedStay
<1> DEFINE A == \A i \in Ids : ProtectedStays(i) /\ NewerStays(i)
<1>1. ASSUME BInv, [Next]_vars, NEW i \in Ids PROVE ProtectedStays(i)
  <2> SUFFICES ASSUME rows[i].protected
               PROVE  /\ rows'[i].status = "completed" /\ rows'[i].deleted = 0
                      /\ archive'[i] = archive[i]
    BY DEF ProtectedStays
  <2>1. rows[i].status = "completed" /\ rows[i].deleted = 0 BY <1>1 DEF BInv, RowsInv
  <2>2. archive'[i] = archive[i]
    <3>1. ASSUME archive'[i] # archive[i] PROVE FALSE
      <4>1. PICK w \in Workers : ArchiveStep(w) BY <1>1, <3>1, Changers
      <4>. QED BY <1>1, <3>1, <4>1, ArchiveChanges
    <3>. QED BY <3>1
  <2>3. rows'[i].status = "completed" /\ rows'[i].deleted = 0
    <3>1. CASE rows'[i] # rows[i]
      <4>1. PICK w \in Workers : RecordStep(w) BY <1>1, <3>1, Changers
      <4>. QED BY <1>1, <2>1, <3>1, <4>1, RecordChanges
               DEF Inserted, Settled, Dropped, Trashed, ChangedBy
    <3>. QED BY <2>1, <3>1
  <2>. QED BY <2>2, <2>3
<1>2. ASSUME BInv, [Next]_vars, NEW i \in Ids PROVE NewerStays(i)
  <2> SUFFICES ASSUME NEW w \in Workers, pc[w] = "c_trash", plan'[w] # plan[w],
                      rows[i].deleted = 0, rows'[i].deleted > 0
               PROVE  \E j \in Successful(rows[i].srv) : j > i /\ rows'[j] = rows[j]
    BY DEF NewerStays
  <2>1. rows'[i] # rows[i] OBVIOUS
  <2>2. PICK u \in Workers : RecordStep(u) BY <1>2, <2>1, Changers
  <2>3. u = w BY <1>2, <2>1, <2>2, RecordChanges
  <2>. QED BY <1>2, <2>1, <2>2, <2>3, RecordChanges DEF Trashed
<1>3. BInv /\ [Next]_vars => [A]_vars BY <1>1, <1>2
<1>. QED BY <1>3, BackupsInvariance, PTL DEF Spec, SparedStay

\* Between the two renames of a restore the files of a server are beside its data directory,
\* and the restore puts them there or back before anything else may touch them: no step but
\* one of the running server takes a content from where it is.
THEOREM RestoresLoseNothing == Spec => RestoreLosesNothing
<1> DEFINE A == \A s \in Servers : OnDisk(s) \subseteq OnDisk(s)' \/ world'[s] = world[s] + 1
<1>1. ASSUME BInv, [Next]_vars, NEW s \in Servers
      PROVE  OnDisk(s) \subseteq OnDisk(s)' \/ world'[s] = world[s] + 1
  <2>1. /\ world \in [Servers -> Versions] /\ kept \in [Servers -> Seq(Versions)]
        /\ kept[s] \in Seq(Versions)
    BY <1>1 DEF BInv, TypeOK
  <2>2. CASE world'[s] = world[s] /\ kept'[s] = kept[s] BY <2>2 DEF OnDisk
  <2>3. ASSUME NEW p \in Servers, Play(p), ~(world'[s] = world[s] /\ kept'[s] = kept[s])
        PROVE  world'[s] = world[s] + 1
    BY <2>1, <2>3 DEF Play
  <2>4. ASSUME NEW w \in Workers, FilesStep(w), ~(world'[s] = world[s] /\ kept'[s] = kept[s])
        PROVE  OnDisk(s) \subseteq OnDisk(s)'
    <3>1. CASE RestoreAside(w)
      <4>1. kept' = [kept EXCEPT ![Of(w)] = Append(@, world[Of(w)])]
            /\ world' = [world EXCEPT ![Of(w)] = 0]
        BY <2>4, <3>1 DEF RestoreAside
      <4>2. s = Of(w) BY <2>1, <2>4, <4>1
      <4>3. kept'[s] = Append(kept[s], world[s]) BY <2>1, <4>1, <4>2
      <4> DEFINE n == Len(kept[s])
      <4>4. /\ Len(kept'[s]) = n + 1 /\ kept'[s][n + 1] = world[s] /\ n \in Nat
            /\ \A k \in 1..n : kept'[s][k] = kept[s][k]
        BY <2>1, <4>3
      <4> HIDE DEF n
      <4>5. n + 1 \in 1..(n + 1) /\ 1..n \subseteq 1..(n + 1) BY <4>4
      <4>. QED BY <4>4, <4>5 DEF OnDisk, n
    <3>2. CASE RestoreSwap(w)
      <4>1. kept' = kept /\ world' = [world EXCEPT ![Of(w)] = tmp[w]] /\ pc[w] = "r_swap"
        BY <2>4, <3>2 DEF RestoreSwap
      <4>2. s = Of(w) /\ world[s] = 0 BY <1>1, <2>1, <2>4, <4>1, RestoreFacts
      <4>. QED BY <4>1, <4>2 DEF OnDisk
    <3>3. CASE RestoreBack(w)
      <4> DEFINE n == Len(kept[Of(w)])
      <4>1. kept' = [kept EXCEPT ![Of(w)] = SubSeq(@, 1, n - 1)]
            /\ world' = [world EXCEPT ![Of(w)] = kept[Of(w)][n]] /\ pc[w] = "r_back"
        BY <2>4, <3>3 DEF RestoreBack
      <4>2. s = Of(w) /\ world[s] = 0 BY <1>1, <2>1, <2>4, <4>1, RestoreFacts
      <4>3. kept'[s] = SubSeq(kept[s], 1, n - 1) /\ world'[s] = kept[s][n]
        BY <2>1, <4>1, <4>2
      <4>4. n \in Nat /\ n = Len(kept[s]) BY <2>1, <4>2
      <4>5. /\ Len(kept'[s]) = (IF n = 0 THEN 0 ELSE n - 1)
            /\ \A k \in 1..(n - 1) : kept'[s][k] = kept[s][k]
        BY <2>1, <4>3, <4>4
      <4> HIDE DEF n
      <4>6. \A k \in 1..n : k = n \/ k \in 1..(n - 1) BY <4>4
      <4>. QED BY <4>2, <4>3, <4>4, <4>5, <4>6 DEF OnDisk
    <3>. QED BY <2>4, <3>1, <3>2, <3>3 DEF FilesStep
  <2>. QED BY <1>1, <2>2, <2>3, <2>4, Changers
<1>2. BInv /\ [Next]_vars => [A]_vars BY <1>1
<1>. QED BY <1>2, BackupsInvariance, PTL DEF Spec, RestoreLosesNothing

\* What a restore puts in place of a server's files is the archive of a snapshot that is a
\* success outside the trash at that moment, although its record was read two slow calls
\* before and trashing, purging and retention may be asked for in between.
THEOREM RestoresUseSuccesses == Spec => RestoresSuccessful
<1> DEFINE A == \A w \in Workers : pc[w] = "r_swap" /\ world[Of(w)] = 0 /\ world'[Of(w)] # 0 =>
                   Id(w) \in Successful(Of(w)) /\ world'[Of(w)] = archive[Id(w)]
<1>1. BInv /\ [Next]_vars => A
  <2> SUFFICES ASSUME BInv, [Next]_vars, NEW w \in Workers,
                      pc[w] = "r_swap", world[Of(w)] = 0, world'[Of(w)] # 0
               PROVE  Id(w) \in Successful(Of(w)) /\ world'[Of(w)] = archive[Id(w)]
    OBVIOUS
  <2>1. /\ Holds(w) /\ Of(w) \in Servers /\ Id(w) \in Successful(Of(w))
        /\ tmp[w] = archive[Id(w)] /\ world \in [Servers -> Versions]
    BY RestoreFacts DEF BInv, OpInv, Restoring, TypeOK
  <2>2. ASSUME NEW s \in Servers, Play(s) PROVE FALSE
    <3>1. world' = [world EXCEPT ![s] = @ + 1] /\ world[s] \in 1..(MaxVersion - 1)
      BY <2>2 DEF Play
    <3>2. s = Of(w) BY <2>1, <3>1
    <3>. QED BY <3>1, <3>2
  <2>3. ASSUME NEW u \in Workers, FilesStep(u), u # w PROVE FALSE
    <3>1. pc[u] \in {"r_aside", "r_swap", "r_back"}
      BY <2>3 DEF FilesStep, RestoreAside, RestoreSwap, RestoreBack
    <3>2. Of(u) # Of(w) BY <2>1, <2>3, <3>1, RestoreFacts, HoldersApart
    <3>3. world'[Of(w)] = world[Of(w)]
      BY <2>1, <2>3, <3>2 DEF FilesStep, RestoreAside, RestoreSwap, RestoreBack
    <3>. QED BY <3>3
  <2>4. FilesStep(w) BY <2>2, <2>3, Changers
  <2>5. RestoreSwap(w) BY <2>4 DEF FilesStep, RestoreAside, RestoreBack
  <2>6. world'[Of(w)] = tmp[w] BY <2>1, <2>5 DEF RestoreSwap
  <2>. QED BY <2>1, <2>6
<1>2. BInv /\ [Next]_vars => [A]_vars BY <1>1
<1>. QED BY <1>2, BackupsInvariance, PTL DEF Spec, RestoresSuccessful

\* The slots are held by operations that hold the lock of their server: however many requests
\* queue for one server, the slots stay free for the others.
THEOREM SlotsAreAtWork == Spec => []SlotsAreWorking
<1>1. BInv => SlotsAreWorking
  BY DEF BInv, OpInv, Control, Holds, SlotsAreWorking, TypeOK
<1>. QED BY <1>1, BackupsInvariance, PTL

\* Expiry and emptying may take whatever the trash holds: no record there is protected or
\* still being written.
THEOREM TrashIsForTheTaking == Spec => []TrashIsSpare
<1>1. BInv => TrashIsSpare BY DEF BInv, RowsInv, TrashIsSpare
<1>. QED BY <1>1, BackupsInvariance, PTL
=============================================================================
