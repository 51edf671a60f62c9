------------------------- MODULE CatalogInstallProofs -------------------------
(* Installing from a catalogue: IInv is inductive, and so RightFile,            *)
(* QuietListTruthful and NeverWithout hold of any catalogue, any directory and  *)
(* any number of clicks, handlers and failures.                                 *)
EXTENDS CatalogInstallInv, FiniteSetTheorems, SequenceTheorems, TLAPS

-----------------------------------------------------------------------------
(* Releases, dependencies and old jars.                                        *)

LEMMA JarsAre ==
    ASSUME NEW j \in Jars
    PROVE  /\ j.p \in Projects /\ j.v \in Releases[j.p] /\ Releases[j.p] # {}
           /\ j = Jar(j.p, j.v) /\ Direct(j) \subseteq Projects
<1>1. PICK p \in Projects : \E v \in Releases[p] : j = Jar(p, v) BY DEF Jars
<1>2. j.p = p /\ j.v \in Releases[p] BY <1>1 DEF Jar
<1>. QED BY <1>1, <1>2, InstallAssumption DEF Direct, Jar

LEMMA NewestIs ==
    ASSUME NEW p \in Projects, Releases[p] # {}
    PROVE  Newest(p) \in Jars /\ Newest(p).p = p
<1> DEFINE v == CHOOSE v \in Releases[p] : \A w \in Releases[p] : w <= v
<1>1. \E u \in Releases[p] : \A w \in Releases[p] : w <= u BY InstallAssumption
<1>2. v \in Releases[p] BY <1>1
<1>3. Newest(p) = Jar(p, v) BY DEF Newest
<1> HIDE DEF v
<1>4. Jar(p, v) \in Jars BY <1>2 DEF Jars
<1>. QED BY <1>3, <1>4 DEF Jar

\* What is missing are projects, not the one that is installed.
LEMMA MissingAre ==
    ASSUME TypeOK, NEW f \in FlowSet, NEW j \in Jars, NEW unread
    PROVE  /\ Unread(f, j, unread) \subseteq Projects
           /\ NoSelf => j.p \notin Unread(f, j, unread)
<1>1. Direct(j) \subseteq Projects BY JarsAre
<1>2. ASSUME NEW q \in Projects, NEW have PROVE Follow(q, have) \subseteq Projects
  BY NewestIs, JarsAre DEF Follow
<1>3. ASSUME NEW have
      PROVE  /\ ResolveModrinth(j, have, unread) \subseteq Projects
             /\ j.p \notin ResolveModrinth(j, have, unread)
  <2> DEFINE first == Direct(j) \ {j.p}
             more == (UNION {Follow(q, have) : q \in first \ unread}) \ {j.p}
  <2>1. first \subseteq Projects /\ j.p \notin first BY <1>1
  <2>2. ASSUME NEW x \in more PROVE x \in Projects /\ x # j.p
    <3>1. PICK q \in first \ unread : x \in Follow(q, have) OBVIOUS
    <3>2. Follow(q, have) \subseteq Projects BY <1>2, <2>1, <3>1
    <3>3. x # j.p OBVIOUS
    <3>4. x \in Projects BY <3>1, <3>2
    <3>. QED BY <3>3, <3>4
  <2>3. ResolveModrinth(j, have, unread) = first \cup more BY DEF ResolveModrinth
  <2>. QED BY <2>1, <2>2, <2>3
<1>4. NoSelf => j.p \notin Direct(j) BY DEF NoSelf
<1>. QED BY <1>1, <1>3, <1>4 DEF Unread, Resolve, ResolveCurseForge

\* An old jar is another one of the project, the only one where each project has one.
LEMMA OldJarsAre ==
    ASSUME TypeOK, NEW j \in Jars, NEW seen \in SUBSET Jars, NEW old \in OldJars(j, seen)
    PROVE  /\ old \in Jars \cup {None} /\ Replaced(j, old)
           /\ OneEach(dir) /\ Of(j.p, seen) = Of(j.p, dir) => Knows(j, old)
<1>1. Found(j, seen) = Of(j.p, seen)
  BY DEF Found, ModrinthOldJar, HangarOldJar, SpigetOldJar, CurseForgeOldJar, Of
<1>2. None \notin Jars BY InstallAssumption
<1>3. CASE Of(j.p, seen) = {}
  <2>1. old = None BY <1>1, <1>3 DEF OldJars
  <2>. QED BY <2>1, <1>3 DEF Replaced, Knows
<1>4. CASE Of(j.p, seen) # {}
  <2>1. PICK k \in Of(j.p, seen) : old = IF k = j THEN None ELSE k BY <1>1, <1>4 DEF OldJars
  <2>2. k \in Jars /\ k.p = j.p BY DEF Of
  <2>3. ASSUME OneEach(dir), Of(j.p, seen) = Of(j.p, dir) PROVE Of(j.p, dir) = {k}
    BY <2>3 DEF Of, OneEach
  <2>. QED BY <1>2, <2>1, <2>2, <2>3 DEF Replaced, Knows
<1>. QED BY <1>3, <1>4

\* What a batch installs after the project are distinct projects.
LEMMA BatchIs ==
    ASSUME TypeOK, prompt # None
    PROVE  /\ Batch \in Seq(Jars)
           /\ \A i \in DOMAIN Batch : Batch[i].p \in prompt.missing
           /\ \A i, k \in DOMAIN Batch : Batch[k].p = Batch[i].p => k = i
<1> DEFINE D == chosen \cap WithFile
           S == {Newest(d) : d \in D}
           n == Cardinality(S)
<1>1. prompt.missing \subseteq Projects BY DEF TypeOK, Prompts
<1>2. \A d \in D : d \in prompt.missing /\ Newest(d) \in Jars /\ Newest(d).p = d
  BY <1>1, NewestIs DEF WithFile
<1>3. IsFiniteSet(S)
  <2>1. IsFiniteSet(D) BY <1>1, <1>2, InstallAssumption, FS_Subset
  <2>2. [d \in D |-> Newest(d)] \in Surjection(D, S) BY DEF Surjection
  <2>. QED BY <2>1, <2>2, FS_Surjection
<1>4. n \in Nat BY <1>3, FS_CardinalityType
<1>5. Batch \in [1..n -> S] /\ \A a, b \in 1..n : Batch[a] = Batch[b] => a = b
  <2>1. ExistsBijection(1..n, S) BY <1>3, FS_CardinalityType
  <2>2. PICK g : g \in Bijection(1..n, S) BY <2>1 DEF ExistsBijection
  <2>3. g \in [1..n -> S] /\ IsInjective(g) BY <2>2 DEF Bijection, Injection
  <2>4. SetToSeq(S) \in [1..n -> S] /\ IsInjective(SetToSeq(S)) BY <2>3 DEF SetToSeq
  <2>. QED BY <2>4 DEF Batch, IsInjective
<1> HIDE DEF n
<1>6. Batch \in Seq(Jars) BY <1>2, <1>4, <1>5
<1>7. \A i \in DOMAIN Batch : Batch[i] \in S /\ Batch[i].p \in prompt.missing BY <1>2, <1>5
<1>8. \A a, b \in S : a.p = b.p => a = b BY <1>2
<1>. QED BY <1>5, <1>6, <1>7, <1>8

\* A handler that starts, with an id of its own.
LEMMA NewFlowIs ==
    ASSUME TypeOK, Cardinality(flows) < MaxFlows,
           NEW kind \in {"one", "pick", "batch", "delete"}, NEW p \in Projects,
           NEW jar \in Jars \cup {None},
           NEW at \in {"find", "download", "replace", "done", "failed", "confirm", "delete"}
    PROVE  LET f == NewFlow(kind, p, jar, at)
           IN  /\ f \in FlowSet /\ f.kind = kind /\ f.p = p /\ f.jar = jar /\ f.old = None
               /\ f.left = <<>> /\ f.at = at /\ f.seen = items
<1> DEFINE ids == {f.id : f \in flows}
<1>1. IsFiniteSet(flows) /\ MaxFlows \in Nat BY InstallAssumption DEF TypeOK
<1>2. \E i \in 1..MaxFlows : \A f \in flows : f.id # i
  <2>1. [f \in flows |-> f.id] \in Surjection(flows, ids) BY DEF Surjection
  <2>2. IsFiniteSet(ids) /\ Cardinality(ids) <= Cardinality(flows) BY <1>1, <2>1, FS_Surjection
  <2>3. Cardinality(ids) < MaxFlows
    BY <1>1, <2>2, FS_CardinalityType
  <2>4. IsFiniteSet(1..MaxFlows) /\ Cardinality(1..MaxFlows) = MaxFlows BY <1>1, FS_Interval
  <2>5. ~(1..MaxFlows \subseteq ids)
    BY <1>1, <2>2, <2>3, <2>4, FS_Subset, FS_CardinalityType
  <2>. QED BY <2>5
<1>3. (CHOOSE i \in 1..MaxFlows : \A f \in flows : f.id # i) \in Nat BY <1>1, <1>2
<1>4. items \in SUBSET Jars /\ marks \in SUBSET Projects BY DEF TypeOK
<1>. QED BY <1>3, <1>4 DEF NewFlow, FlowSet

-----------------------------------------------------------------------------
(* Clicks and failures, and what a step that does little keeps.               *)

\* A click is an overlap unless nothing but a confirmation was waited for.
LEMMA PressKept ==
    ASSUME TypeOK, NEW keeps \in BOOLEAN, Press(keeps)
    PROVE  /\ history' \in Histories /\ history'.failed = history.failed
           /\ history'.overtaken = history.overtaken
           /\ ~history'.overlap => ~history.overlap /\ Waits
           /\ Orderly' => Orderly /\ Waits /\ ~keeps
<1>1. history \in Histories /\ history.overlap \in BOOLEAN /\ history.kept \in BOOLEAN
  BY DEF TypeOK, Histories
<1>2. PICK w \in BOOLEAN : w = Waits BY DEF Waits
<1>3. (history.overlap \/ ~w) \in BOOLEAN /\ (history.kept \/ keeps) \in BOOLEAN BY <1>1
<1>4. history' = [history EXCEPT !.overlap = (history.overlap \/ ~w), !.kept = (history.kept \/ keeps)]
  BY <1>2 DEF Press
<1>5. history' \in Histories BY <1>1, <1>3, <1>4 DEF Histories
<1>6. /\ history'.overlap = (history.overlap \/ ~w) /\ history'.kept = (history.kept \/ keeps)
      /\ history'.failed = history.failed /\ history'.overtaken = history.overtaken
  BY <1>1, <1>4 DEF Histories
<1>7. ~history'.overlap => ~history.overlap /\ Waits BY <1>2, <1>6
<1>8. Orderly' => Orderly /\ Waits /\ ~keeps BY <1>2, <1>6 DEF Orderly
<1>. QED BY <1>5, <1>6, <1>7, <1>8

LEMMA NetFailsKept ==
    ASSUME TypeOK, NetFails
    PROVE  /\ history' \in Histories /\ history'.failed /\ history'.overtaken = history.overtaken
           /\ history'.overlap = history.overlap /\ ~Orderly'
BY DEF TypeOK, Histories, NetFails, Note, Orderly

\* When a click comes that is no overlap, the list is the directory.
LEMMA Rested ==
    ASSUME IInv, Waits, ~Confirming, ~history.overtaken, ~history.failed
    PROVE  flows = {} /\ loads = <<>> /\ items = dir /\ (Orderly => OneEach(dir))
<1>1. flows = {} /\ loads = <<>> BY DEF Waits, Confirming
<1>. QED BY <1>1 DEF IInv, CurrentInv, OrderInv

LEMMA MovedAreFinite ==
    ASSUME IsFiniteSet(flows), NEW f, NEW g,
           flows' = flows \ {f} \/ flows' = (flows \ {f}) \cup {g}
    PROVE  IsFiniteSet(flows')
<1>1. IsFiniteSet(flows \cup {g}) BY FS_AddElement
<1>2. flows' \subseteq flows \cup {g} OBVIOUS
<1>. QED BY <1>1, <1>2, FS_Subset

LEMMA ShapeKept ==
    ASSUME ShapeInv, NEW g, flows' \subseteq flows \cup {g}, g \in flows \/ FlowOK(g)',
           history.failed => history'.failed,
           update' # None => update' = update \/ Replaced(update'.jar, update'.old),
           listing' = "failed" => listing = "failed" \/ history'.failed
    PROVE  ShapeInv'
<1>1. \A f \in flows' : FlowOK(f)' BY DEF ShapeInv, FlowOK
<1>2. update' # None => Replaced(update'.jar, update'.old) BY DEF ShapeInv
<1>3. listing' = "failed" => history'.failed BY DEF ShapeInv
<1>. QED BY <1>1, <1>2, <1>3 DEF ShapeInv, Replaced

LEMMA RightKept ==
    ASSUME RightInv, NEW g, flows' \subseteq flows \cup {g}, g \in flows \/ RightFlow(g)',
           history.failed => history'.failed, tab' = tab,
           update' # None => update' = update \/ update'.p = update'.jar.p \/ Wrong',
           prompt' # None => prompt' = prompt \/ prompt'.p = prompt'.jar.p \/ Wrong',
           listing' = "idle" /\ selected' # None => shown' = selected'
    PROVE  RightInv'
<1>1. Wrong => Wrong' BY DEF Wrong
<1>2. \A f \in flows' : RightFlow(f)' BY <1>1 DEF RightInv, RightFlow
<1>3. /\ update' # None => update'.p = update'.jar.p \/ Wrong'
      /\ prompt' # None => prompt'.p = prompt'.jar.p \/ Wrong'
  BY <1>1 DEF RightInv
<1>. QED BY <1>2, <1>3 DEF RightInv

LEMMA CurrentKept ==
    ASSUME CurrentInv, UNCHANGED <<dir, items, loads>>,
           history.overtaken => history'.overtaken, history.failed => history'.failed,
           (\A f \in flows' : ~Pending(f)) => history'.failed \/ \A f \in flows : ~Pending(f)
    PROVE  CurrentInv'
BY DEF CurrentInv, Pending

\* A click opens or closes a dialog.
LEMMA ScreenKeeps ==
    ASSUME IInv, NEW keeps \in BOOLEAN, Press(keeps), ~Confirming,
           UNCHANGED <<tab, dir, items, loads, flows, marks>>,
           update' \in Updates \cup {None}, prompt' \in Prompts \cup {None}, chosen' \subseteq Projects,
           selected' \in Projects \cup {None}, shown' \in Projects \cup {None},
           listing' \in {"idle", "loading", "failed"},
           update' # None => Replaced(update'.jar, update'.old) /\ (update'.p = update'.jar.p \/ Wrong),
           prompt' # None => prompt'.p = prompt'.jar.p \/ Wrong,
           NoSelf /\ prompt' # None => prompt'.jar.p \notin prompt'.missing,
           listing' = "failed" => history.failed,
           listing' = "idle" /\ selected' # None => shown' = selected',
           Orderly /\ items = dir /\ OneEach(dir) /\ update' # None =>
               prompt' = None /\ Of(update'.jar.p, dir) = {update'.old}
    PROVE  IInv'
<1>1. TypeOK /\ ShapeInv /\ RightInv /\ CurrentInv /\ AloneInv /\ OrderInv BY DEF IInv
<1>2. /\ history' \in Histories /\ history'.failed = history.failed
      /\ history'.overtaken = history.overtaken
      /\ ~history'.overlap => ~history.overlap
      /\ Orderly' => Orderly /\ Waits
  BY <1>1, PressKept
<1>3. Wrong' = Wrong BY <1>2 DEF Wrong
<1>4. TypeOK' BY <1>1, <1>2 DEF TypeOK
<1>6. ShapeInv'
  <2>1. \A f \in flows' : FlowOK(f)' BY <1>1, <1>2 DEF ShapeInv, FlowOK
  <2>. QED BY <1>2, <2>1 DEF ShapeInv, Replaced
<1>7. RightInv' BY <1>1, <1>3 DEF RightInv, RightFlow
<1>8. CurrentInv' BY <1>1, <1>2, CurrentKept
<1>9. AloneInv' BY <1>1, <1>2 DEF AloneInv
<1>10. OrderInv'
  <2>1. ASSUME Orderly'
        PROVE  /\ flows' = {} /\ OneEach(dir')
               /\ update' # None => prompt' = None /\ Of(update'.jar.p, dir') = {update'.old}
    BY <1>2, <2>1, Rested DEF Orderly
  <2>. QED BY <2>1 DEF OrderInv
<1>. QED BY <1>4, <1>6, <1>7, <1>8, <1>9, <1>10 DEF IInv

\* A click starts a handler.
LEMMA StartKeeps ==
    ASSUME IInv, NEW keeps \in BOOLEAN, Press(keeps), ~Confirming,
           UNCHANGED <<tab, dir, items, loads, marks, chosen, selected, shown, listing>>,
           NEW n \in FlowSet, flows' = flows \cup {n}, n.at \in {"find", "download", "confirm"},
           FlowOK(n), RightFlow(n), update' \in {update, None}, prompt' \in {prompt, None},
           Orderly /\ ~keeps /\ flows = {} /\ items = dir /\ OneEach(dir) => FlowKnows(n)'
    PROVE  IInv'
<1>1. TypeOK /\ ShapeInv /\ RightInv /\ CurrentInv /\ AloneInv /\ OrderInv BY DEF IInv
<1>2. /\ history' \in Histories /\ history'.failed = history.failed
      /\ history'.overtaken = history.overtaken
      /\ ~history'.overlap => ~history.overlap /\ Waits
      /\ Orderly' => Orderly /\ Waits /\ ~keeps
  BY <1>1, PressKept
<1>3. Wrong' = Wrong BY <1>2 DEF Wrong
<1>4. FlowOK(n)' /\ RightFlow(n)' BY <1>2, <1>3 DEF FlowOK, RightFlow, Replaced
<1>5. TypeOK'
  <2>1. IsFiniteSet(flows') BY <1>1, FS_AddElement DEF TypeOK
  <2>. QED BY <1>1, <1>2, <2>1 DEF TypeOK
<1>6. ShapeInv' BY <1>1, <1>2, <1>4, ShapeKept DEF ShapeInv
<1>7. RightInv' BY <1>1, <1>2, <1>4, RightKept DEF RightInv
<1>8. CurrentInv' BY <1>1, <1>2, CurrentKept DEF Pending
<1>9. AloneInv'
  <2>1. ASSUME ~history'.overlap PROVE flows' = {n} BY <1>2, <2>1 DEF Waits, Confirming
  <2>. QED BY <2>1 DEF AloneInv
<1>10. OrderInv'
  <2>1. ASSUME Orderly'
        PROVE  /\ flows' = {n} /\ FlowKnows(n)'
               /\ update' # None => prompt' = None /\ Of(update'.jar.p, dir') = {update'.old}
    <3>1. flows = {} /\ items = dir /\ OneEach(dir) BY <1>2, <2>1, Rested DEF Orderly
    <3>2. FlowKnows(n)' BY <1>2, <2>1, <3>1
    <3>3. update' # None => prompt = None /\ Of(update.jar.p, dir) = {update.old} /\ update' = update
      BY <1>1, <1>2, <2>1, <3>1 DEF OrderInv
    <3>. QED BY <3>1, <3>2, <3>3
  <2>2. NoSelf /\ prompt' # None => prompt'.jar.p \notin prompt'.missing BY <1>1 DEF OrderInv
  <2>3. flows' # {} OBVIOUS
  <2>. QED BY <2>1, <2>2, <2>3 DEF OrderInv
<1>. QED BY <1>5, <1>6, <1>7, <1>8, <1>9, <1>10 DEF IInv

-----------------------------------------------------------------------------
(* Clicks.                                                                     *)

\* A handler looks for the file, knowing the list of this moment;
LEMMA FindKeeps ==
    ASSUME IInv, Click, ~Confirming, update = None, prompt = None,
           UNCHANGED <<tab, server, marks, screen>>,
           NEW kind \in {"one", "pick"}, NEW p \in Projects, NEW jar \in Jars \cup {None},
           jar # None /\ p # jar.p => Wrong, Start(NewFlow(kind, p, jar, "find"))
    PROVE  IInv'
<1>1. TypeOK /\ Press(FALSE) BY DEF IInv, Click
<1>2. PICK n : n = NewFlow(kind, p, jar, "find") OBVIOUS
<1>3. /\ n \in FlowSet /\ n.kind = kind /\ n.p = p /\ n.jar = jar /\ n.old = None
      /\ n.at = "find" /\ n.seen = items /\ flows' = flows \cup {n}
  BY <1>1, <1>2, NewFlowIs DEF Start
<1>4. UNCHANGED <<dir, items, loads, update, prompt, chosen, selected, shown, listing>>
  BY DEF server, screen
<1>5. FlowOK(n) /\ RightFlow(n) BY <1>3 DEF FlowOK, RightFlow, Replaced
<1>6. Orderly /\ items = dir /\ OneEach(dir) => FlowKnows(n)'
  <2> SUFFICES ASSUME items = dir, OneEach(dir) PROVE FlowKnows(n)' OBVIOUS
  <2>1. n.seen = dir' /\ OneEach(dir') /\ update' = None /\ prompt' = None BY <1>3, <1>4
  <2>. QED BY <1>3, <2>1 DEF FlowKnows
<1>. QED BY <1>1, <1>3, <1>4, <1>5, <1>6, StartKeeps

\* downloads, or asks what to do with an old jar;
LEMMA InstallNowKeeps ==
    ASSUME IInv, Click, ~Confirming, update = None, prompt = None,
           UNCHANGED <<tab, server, marks>>,
           NEW kind \in {"one", "pick"}, NEW p \in Projects, NEW jar \in Jars, p # jar.p => Wrong,
           InstallNow(kind, p, jar)
    PROVE  IInv'
<1>1. TypeOK /\ ShapeInv /\ RightInv /\ OrderInv /\ Press(FALSE) /\ items \in SUBSET Jars
  BY DEF IInv, Click, TypeOK
<1>2. UNCHANGED <<dir, items, loads>> BY DEF server
<1>3. PICK old \in OldJars(jar, items) :
        \/ old # None /\ AskReplace(p, jar, old) /\ UNCHANGED <<flows, installing>>
        \/ old = None /\ Start(NewFlow(kind, p, jar, "download")) /\ UNCHANGED screen
  BY DEF InstallNow
<1>4. old \in Jars \cup {None} /\ Replaced(jar, old) BY <1>1, <1>3, OldJarsAre
<1>5. items = dir /\ OneEach(dir) => Knows(jar, old) BY <1>1, <1>3, OldJarsAre
<1>6. CASE old # None /\ AskReplace(p, jar, old) /\ UNCHANGED <<flows, installing>>
  <2>1. PICK u : u = [p |-> p, jar |-> jar, old |-> old] OBVIOUS
  <2>2. u \in Updates /\ u.p = p /\ u.jar = jar /\ u.old = old BY <1>4, <1>6, <2>1 DEF Updates
  <2>3. update' = u /\ UNCHANGED <<flows, prompt, chosen, selected, shown, listing>>
    BY <1>6, <2>1 DEF AskReplace
  <2>4. Replaced(u.jar, u.old) /\ (u.p = u.jar.p \/ Wrong) BY <1>4, <2>2
  <2>5. items = dir /\ OneEach(dir) => Of(u.jar.p, dir) = {u.old} BY <1>5, <1>6, <2>2 DEF Knows
  <2>. QED BY <1>1, <1>2, <2>2, <2>3, <2>4, <2>5, ScreenKeeps DEF TypeOK, ShapeInv, RightInv
<1>7. CASE old = None /\ Start(NewFlow(kind, p, jar, "download")) /\ UNCHANGED screen
  <2>1. PICK n : n = NewFlow(kind, p, jar, "download") OBVIOUS
  <2>2. /\ n \in FlowSet /\ n.kind = kind /\ n.p = p /\ n.jar = jar /\ n.old = None
        /\ n.at = "download" /\ n.seen = items /\ flows' = flows \cup {n}
    BY <1>1, <1>7, <2>1, NewFlowIs DEF Start
  <2>3. UNCHANGED <<update, prompt, chosen, selected, shown, listing>> BY <1>7 DEF screen
  <2>4. FlowOK(n) /\ RightFlow(n) BY <2>2, InstallAssumption DEF FlowOK, RightFlow, Replaced
  <2>5. items = dir /\ OneEach(dir) => FlowKnows(n)'
    <3> SUFFICES ASSUME items = dir, OneEach(dir) PROVE FlowKnows(n)' OBVIOUS
    <3>1. Knows(n.jar, n.old)' BY <1>2, <1>5, <1>7, <2>2 DEF Knows
    <3>. QED BY <1>2, <2>2, <3>1 DEF FlowKnows
  <2>. QED BY <1>1, <1>2, <2>2, <2>3, <2>4, <2>5, StartKeeps
<1>. QED BY <1>3, <1>6, <1>7

\* or asks for the confirmation of a deletion.
LEMMA AskDeleteKeeps ==
    ASSUME IInv, Click, ~Confirming, update' = None, NEW j \in Jars, AskDelete(j),
           UNCHANGED <<tab, server, marks, prompt, chosen, selected, shown, listing>>
    PROVE  IInv'
<1>1. TypeOK /\ Press(FALSE) /\ j.p \in Projects BY JarsAre DEF IInv, Click
<1>2. PICK n : n = [NewFlow("delete", j.p, j, "confirm") EXCEPT !.seen = {}] OBVIOUS
<1>3. /\ n \in FlowSet /\ n.kind = "delete" /\ n.p = j.p /\ n.jar = j /\ n.old = None
      /\ n.at = "confirm" /\ flows' = flows \cup {n}
  <2>1. PICK m : m = NewFlow("delete", j.p, j, "confirm") OBVIOUS
  <2>2. /\ m \in FlowSet /\ m.kind = "delete" /\ m.p = j.p /\ m.jar = j /\ m.old = None
        /\ m.at = "confirm" /\ flows' = flows \cup {n}
    BY <1>1, <1>2, <2>1, NewFlowIs DEF AskDelete, Start
  <2>3. n = [m EXCEPT !.seen = {}] BY <1>2, <2>1
  <2>. QED BY <2>2, <2>3 DEF FlowSet
<1>4. UNCHANGED <<dir, items, loads>> BY DEF server
<1>5. FlowOK(n) /\ RightFlow(n) BY <1>3, InstallAssumption DEF FlowOK, RightFlow, Replaced
<1>6. OneEach(dir) => FlowKnows(n)' BY <1>3, <1>4 DEF FlowKnows
<1>. QED BY <1>1, <1>3, <1>4, <1>5, <1>6, StartKeeps

\* A card: install, list the releases, delete.
LEMMA CardsKeep ==
    ASSUME IInv, Cards, tab' = tab
    PROVE  IInv'
<1>1. /\ TypeOK /\ ShapeInv /\ RightInv /\ OrderInv /\ Click /\ ~Confirming
      /\ update = None /\ prompt = None /\ selected = None /\ UNCHANGED <<tab, server, marks>>
  BY DEF IInv, Cards, Covered
<1>2. ASSUME NEW p \in Projects, FindFiles(p) PROVE IInv'
  BY <1>1, <1>2, FindKeeps DEF FindFiles
<1>3. ASSUME NEW p \in Projects, SpigetOneClick(p) PROVE IInv'
  <2>1. Newest(p) \in Jars /\ Newest(p).p = p BY <1>3, NewestIs DEF SpigetOneClick, SpigetCard
  <2>2. PICK jar : jar = Newest(p) OBVIOUS
  <2>. QED BY <1>1, <1>3, <2>1, <2>2, InstallNowKeeps DEF SpigetOneClick
<1>4. ASSUME NEW p \in Projects, OpenReleases(p), UNCHANGED flows PROVE IInv'
  <2>1. Press(FALSE) /\ UNCHANGED <<dir, items, loads, flows, update, prompt, chosen, shown>>
        /\ selected' = p /\ listing' = "loading"
    BY <1>1, <1>4 DEF Click, server, OpenReleases
  <2>. QED BY <1>1, <2>1, ScreenKeeps DEF TypeOK
<1>5. ASSUME NEW j \in items, AskDelete(j), UNCHANGED screen PROVE IInv'
  <2>1. j \in Jars BY <1>1 DEF TypeOK
  <2>. QED BY <1>1, <1>5, <2>1, AskDeleteKeeps DEF screen
<1>6. Listed \subseteq Projects BY InstallAssumption
<1>. QED BY <1>2, <1>3, <1>4, <1>5, <1>6 DEF Cards, ModrinthOneClick, HangarOneClick, CurseForgeOneClick

\* The dialog of the releases: those listed are of the selected project.
LEMMA ReleaseDialogKeeps ==
    ASSUME IInv, ReleaseDialog, tab' = tab
    PROVE  IInv'
<1>1. /\ TypeOK /\ ShapeInv /\ RightInv /\ OrderInv /\ Click /\ ~Confirming
      /\ update = None /\ prompt = None /\ selected # None /\ UNCHANGED <<tab, server, marks>>
  BY DEF IInv, ReleaseDialog
<1>2. selected \in Projects BY <1>1 DEF TypeOK
<1>3. ASSUME NEW j \in Jars, ModrinthPick(j) \/ HangarPick(j) \/ SpigetPick(j) \/ CurseForgePick(j)
      PROVE  IInv'
  <2>1. selected # j.p => Wrong
    BY <1>1, <1>3 DEF ModrinthPick, HangarPick, SpigetPick, CurseForgePick, ModrinthOffers,
                      HangarOffers, SpigetOffers, CurseForgeOffers, TypeOK, ShapeInv, RightInv, Wrong
  <2>2. PICK p : p = selected OBVIOUS
  <2>3. CASE InstallNow("pick", selected, j)
    BY <1>1, <1>2, <2>1, <2>2, <2>3, InstallNowKeeps
  <2>4. CASE Start(NewFlow("pick", selected, j, "find")) /\ UNCHANGED screen
    BY <1>1, <1>2, <2>1, <2>2, <2>4, FindKeeps
  <2>. QED BY <1>3, <2>3, <2>4 DEF ModrinthPick, HangarPick, SpigetPick, CurseForgePick
<1>4. ASSUME NEW j \in items, AskDelete(j), UNCHANGED screen PROVE IInv'
  <2>1. j \in Jars BY <1>1 DEF TypeOK
  <2>. QED BY <1>1, <1>4, <2>1, AskDeleteKeeps DEF screen
<1>5. CASE CloseReleases
  <2>1. /\ Press(FALSE) /\ UNCHANGED <<dir, items, loads, flows, update, prompt, chosen>>
        /\ selected' = None /\ shown' = None /\ listing' = "idle"
    BY <1>1, <1>5 DEF Click, server, CloseReleases
  <2>. QED BY <1>1, <2>1, ScreenKeeps DEF TypeOK
<1>. QED BY <1>3, <1>4, <1>5 DEF ReleaseDialog

\* The dialog about an old jar.
LEMMA UpdateDialogKeeps ==
    ASSUME IInv, UpdateDialog, tab' = tab
    PROVE  IInv'
<1>1. /\ TypeOK /\ ShapeInv /\ RightInv /\ OrderInv /\ ~Confirming
      /\ update # None /\ UNCHANGED <<tab, server, marks>> /\ UNCHANGED <<dir, items, loads>>
  BY DEF IInv, UpdateDialog, CanAnswer, server
<1>2. /\ update \in Updates /\ update.p \in Projects /\ update.jar \in Jars /\ update.old \in Jars
      /\ Replaced(update.jar, update.old) /\ (update.p = update.jar.p \/ Wrong)
  BY <1>1 DEF TypeOK, Updates, ShapeInv, RightInv
<1>3. update.old # None /\ update.jar # None BY <1>2, InstallAssumption
<1>4. ASSUME NEW keeps \in BOOLEAN, Press(keeps), UNCHANGED screen, NEW old \in {None, update.old},
             keeps \/ old = update.old,
             Start([UpdateFlow EXCEPT !.old = old])
      PROVE  IInv'
  <2>1. PICK n : n = [UpdateFlow EXCEPT !.old = old] OBVIOUS
  <2>2. /\ n \in FlowSet /\ n.kind = "one" /\ n.p = update.p /\ n.jar = update.jar
        /\ n.old = old /\ n.at = "download" /\ flows' = flows \cup {n}
    <3>1. PICK m : m = UpdateFlow OBVIOUS
    <3>2. /\ m \in FlowSet /\ m.kind = "one" /\ m.p = update.p /\ m.jar = update.jar
          /\ m.at = "download" /\ flows' = flows \cup {n}
      BY <1>1, <1>2, <1>4, <2>1, <3>1, NewFlowIs DEF Start, UpdateFlow
    <3>3. n = [m EXCEPT !.old = old] /\ old \in Jars \cup {None} BY <1>2, <1>4, <2>1, <3>1
    <3>. QED BY <3>2, <3>3 DEF FlowSet
  <2>3. UNCHANGED <<update, prompt, chosen, selected, shown, listing>> BY <1>4 DEF screen
  <2>4. FlowOK(n) /\ RightFlow(n) BY <1>2, <1>3, <1>4, <2>2 DEF FlowOK, RightFlow, Replaced
  <2>5. ASSUME Orderly, ~keeps, items = dir, OneEach(dir), flows = {} PROVE FlowKnows(n)'
    <3>1. Of(update.jar.p, dir) = {update.old} BY <1>1, <2>5 DEF OrderInv
    <3>2. Knows(n.jar, n.old)' BY <1>1, <1>3, <1>4, <2>2, <2>5, <3>1 DEF Knows
    <3>. QED BY <1>1, <2>2, <2>5, <3>2 DEF FlowKnows
  <2>. QED BY <1>1, <1>4, <2>2, <2>3, <2>4, <2>5, StartKeeps
<1>5. CASE ReplaceOld BY <1>4, <1>5 DEF ReplaceOld, Click
<1>6. CASE KeepBoth
  <2>1. UpdateFlow = [UpdateFlow EXCEPT !.old = None]
    <3>1. PICK m : m = UpdateFlow OBVIOUS
    <3>2. m \in FlowSet /\ m.old = None
      BY <1>1, <1>2, <1>6, <3>1, NewFlowIs DEF Start, UpdateFlow, KeepBoth
    <3>3. m = [m EXCEPT !.old = None] BY <3>2 DEF FlowSet
    <3>. QED BY <3>1, <3>3
  <2>. QED BY <1>4, <1>6, <2>1 DEF KeepBoth
<1>7. CASE DeleteOld
  <2>1. PICK j : j = update.old OBVIOUS
  <2>. QED BY <1>1, <1>2, <1>7, <2>1, AskDeleteKeeps DEF DeleteOld
<1>8. CASE LeaveOld
  <2>1. Press(FALSE) /\ UNCHANGED <<flows, prompt, chosen, selected, shown, listing>> /\ update' = None
    BY <1>8 DEF LeaveOld, Click
  <2>. QED BY <1>1, <2>1, ScreenKeeps DEF TypeOK, ShapeInv, RightInv, OrderInv
<1>. QED BY <1>5, <1>6, <1>7, <1>8 DEF UpdateDialog

\* The dialog about dependencies.
LEMMA DependencyDialogKeeps ==
    ASSUME IInv, DependencyDialog, tab' = tab
    PROVE  IInv'
<1>1. /\ TypeOK /\ ShapeInv /\ RightInv /\ OrderInv /\ ~Confirming
      /\ prompt # None /\ UNCHANGED <<tab, marks>> /\ UNCHANGED <<dir, items, loads>>
  BY DEF IInv, DependencyDialog, server
<1>2. /\ prompt \in Prompts /\ prompt.p \in Projects /\ prompt.jar \in Jars
      /\ prompt.missing \subseteq Projects /\ (prompt.p = prompt.jar.p \/ Wrong)
      /\ items \in SUBSET Jars /\ prompt.jar # None
  BY <1>1, InstallAssumption DEF TypeOK, Prompts, RightInv
<1>3. ASSUME NEW old \in OldJars(prompt.jar, items)
      PROVE  /\ old \in Jars \cup {None} /\ Replaced(prompt.jar, old)
             /\ items = dir /\ OneEach(dir) => Knows(prompt.jar, old)
  BY <1>1, <1>2, OldJarsAre
<1>4. CASE Toggle
  <2>1. /\ Press(FALSE) /\ chosen' \subseteq Projects
        /\ UNCHANGED <<flows, update, prompt, selected, shown, listing>>
    BY <1>1, <1>2, <1>4 DEF Toggle, Click, TypeOK
  <2>2. Orderly /\ items = dir /\ OneEach(dir) /\ update' # None => FALSE
    BY <1>1, <2>1 DEF OrderInv
  <2>. QED BY <1>1, <2>1, <2>2, ScreenKeeps DEF TypeOK, ShapeInv, RightInv, OrderInv
<1>5. CASE CancelPrompt
  <2>1. /\ Press(FALSE) /\ prompt' = None
        /\ UNCHANGED <<flows, update, chosen, selected, shown, listing>>
    BY <1>5 DEF CancelPrompt, Click
  <2>2. Orderly /\ items = dir /\ OneEach(dir) /\ update' # None => FALSE
    BY <1>1, <2>1 DEF OrderInv
  <2>. QED BY <1>1, <2>1, <2>2, ScreenKeeps DEF TypeOK, ShapeInv, RightInv
<1>6. CASE InstallAll
  <2>1. PICK old \in OldJars(prompt.jar, items) :
          Start([NewFlow("batch", prompt.p, prompt.jar, "download") EXCEPT !.old = old, !.left = Batch])
    BY <1>6 DEF InstallAll
  <2>2. PICK n : n = [NewFlow("batch", prompt.p, prompt.jar, "download") EXCEPT !.old = old, !.left = Batch]
    OBVIOUS
  <2>3. /\ n \in FlowSet /\ n.kind = "batch" /\ n.p = prompt.p /\ n.jar = prompt.jar /\ n.old = old
        /\ n.left = Batch /\ n.at = "download" /\ n.seen = items /\ flows' = flows \cup {n}
    <3>1. PICK m : m = NewFlow("batch", prompt.p, prompt.jar, "download") OBVIOUS
    <3>2. /\ m \in FlowSet /\ m.kind = "batch" /\ m.p = prompt.p /\ m.jar = prompt.jar
          /\ m.at = "download" /\ m.seen = items /\ flows' = flows \cup {n}
      BY <1>1, <1>2, <2>1, <2>2, <3>1, NewFlowIs DEF Start
    <3>3. Batch \in Seq(Jars) /\ old \in Jars \cup {None} BY <1>1, <1>3, <2>1, BatchIs
    <3>4. n = [m EXCEPT !.old = old, !.left = Batch] BY <2>2, <3>1
    <3>. QED BY <3>2, <3>3, <3>4 DEF FlowSet
  <2>4. Press(FALSE) /\ UNCHANGED <<update, prompt, chosen, selected, shown, listing>>
    BY <1>6 DEF InstallAll, Click, screen
  <2>5. FlowOK(n) /\ RightFlow(n) BY <1>2, <1>3, <2>1, <2>3 DEF FlowOK, RightFlow
  <2>6. ASSUME Orderly, flows = {}, items = dir, OneEach(dir) PROVE FlowKnows(n)'
    <3>1. update' = None BY <1>1, <2>4, <2>6 DEF OrderInv
    <3>2. Knows(n.jar, n.old)' BY <1>1, <1>3, <2>1, <2>3, <2>6 DEF Knows
    <3>3. prompt.jar.p \notin prompt.missing BY <1>1, <2>6 DEF OrderInv, Orderly
    <3>4. BatchKnows(n)'
      <4>1. \A k \in DOMAIN n.left : /\ Of(n.left[k].p, n.seen) = Of(n.left[k].p, dir)
                                    /\ n.left[k].p # n.jar.p
        BY <1>1, <2>3, <2>6, <3>3, BatchIs
      <4>2. \A k, l \in DOMAIN n.left : n.left[l].p = n.left[k].p => l = k BY <1>1, <2>3, BatchIs
      <4>3. dir' = dir BY <1>1
      <4>. QED BY <4>1, <4>2, <4>3 DEF BatchKnows, Of
    <3>. QED BY <1>1, <2>3, <2>6, <3>1, <3>2, <3>4 DEF FlowKnows
  <2>. QED BY <1>1, <2>3, <2>4, <2>5, <2>6, StartKeeps
<1>7. CASE SkipDependencies
  <2>1. PICK old \in OldJars(prompt.jar, items) :
          \/ /\ old # None /\ update' = [p |-> prompt.p, jar |-> prompt.jar, old |-> old]
             /\ UNCHANGED flows
          \/ /\ old = None /\ Start(NewFlow("one", prompt.p, prompt.jar, "download"))
             /\ UNCHANGED update
    BY <1>7 DEF SkipDependencies
  <2>2. Press(FALSE) /\ prompt' = None /\ UNCHANGED <<chosen, selected, shown, listing>>
    BY <1>7 DEF SkipDependencies, Click
  <2>3. CASE old # None /\ update' = [p |-> prompt.p, jar |-> prompt.jar, old |-> old] /\ UNCHANGED flows
    <3>1. PICK u : u = [p |-> prompt.p, jar |-> prompt.jar, old |-> old] OBVIOUS
    <3>2. u \in Updates /\ u.p = prompt.p /\ u.jar = prompt.jar /\ u.old = old /\ update' = u
      BY <1>2, <1>3, <2>1, <2>3, <3>1 DEF Updates
    <3>3. Replaced(u.jar, u.old) /\ (u.p = u.jar.p \/ Wrong) BY <1>2, <1>3, <2>1, <3>2
    <3>4. items = dir /\ OneEach(dir) => Of(u.jar.p, dir) = {u.old}
      BY <1>3, <2>1, <2>3, <3>2 DEF Knows
    <3>. QED BY <1>1, <2>2, <2>3, <3>2, <3>3, <3>4, ScreenKeeps DEF TypeOK, ShapeInv, RightInv
  <2>4. CASE old = None /\ Start(NewFlow("one", prompt.p, prompt.jar, "download")) /\ UNCHANGED update
    <3>1. PICK n : n = NewFlow("one", prompt.p, prompt.jar, "download") OBVIOUS
    <3>2. /\ n \in FlowSet /\ n.kind = "one" /\ n.p = prompt.p /\ n.jar = prompt.jar /\ n.old = None
          /\ n.at = "download" /\ flows' = flows \cup {n}
      BY <1>1, <1>2, <2>4, <3>1, NewFlowIs DEF Start
    <3>3. FlowOK(n) /\ RightFlow(n) BY <1>2, <3>2 DEF FlowOK, RightFlow, Replaced
    <3>4. items = dir /\ OneEach(dir) => FlowKnows(n)'
      <4> SUFFICES ASSUME items = dir, OneEach(dir) PROVE FlowKnows(n)' OBVIOUS
      <4>1. Knows(n.jar, n.old)' BY <1>1, <1>3, <2>1, <2>4, <3>2 DEF Knows
      <4>. QED BY <1>1, <3>2, <4>1 DEF FlowKnows
    <3>. QED BY <1>1, <2>2, <2>4, <3>2, <3>3, <3>4, StartKeeps
  <2>. QED BY <2>1, <2>3, <2>4
<1>. QED BY <1>4, <1>5, <1>6, <1>7 DEF DependencyDialog

\* The confirmation of a deletion.
LEMMA ConfirmKeeps ==
    ASSUME IInv, Confirm, tab' = tab
    PROVE  IInv'
<1>1. PICK f \in flows : /\ f.at = "confirm" /\ Click
                         /\ Move(f, [f EXCEPT !.at = "delete"]) \/ Return(f)
  BY DEF Confirm
<1>2. /\ TypeOK /\ ShapeInv /\ RightInv /\ CurrentInv /\ AloneInv /\ OrderInv /\ Press(FALSE)
      /\ f \in FlowSet
  BY <1>1 DEF IInv, Click, TypeOK
<1>3. UNCHANGED <<dir, items, loads, marks, update, prompt, chosen, selected, shown, listing>>
  BY DEF Confirm, server, screen
<1>4. PICK g : g = [f EXCEPT !.at = "delete"] OBVIOUS
<1>5. /\ g \in FlowSet /\ g.at = "delete" /\ g.kind = f.kind /\ g.jar = f.jar /\ g.old = f.old /\ g.p = f.p
  BY <1>2, <1>4 DEF FlowSet
<1>6. flows' = (flows \ {f}) \cup {g} \/ flows' = flows \ {f} BY <1>1, <1>4 DEF Move, Return
<1>7. /\ history' \in Histories /\ history'.failed = history.failed
      /\ history'.overtaken = history.overtaken
      /\ ~history'.overlap => ~history.overlap
      /\ Orderly' => Orderly
  BY <1>2, PressKept
<1>8. FlowOK(f) /\ RightFlow(f) BY <1>2 DEF ShapeInv, RightInv
<1>9. FlowOK(g)' /\ RightFlow(g)'
  BY <1>1, <1>5, <1>8 DEF FlowOK, RightFlow, Replaced
<1>10. TypeOK'
  <2>1. IsFiniteSet(flows') BY <1>2, <1>6, MovedAreFinite DEF TypeOK
  <2>. QED BY <1>2, <1>3, <1>5, <1>6, <1>7, <2>1 DEF TypeOK
<1>11. ShapeInv' BY <1>2, <1>3, <1>6, <1>7, <1>9, ShapeKept DEF ShapeInv
<1>12. RightInv' BY <1>2, <1>3, <1>6, <1>7, <1>9, RightKept DEF RightInv
<1>13. CurrentInv' BY <1>1, <1>2, <1>3, <1>5, <1>6, <1>7, CurrentKept DEF Pending
<1>14. AloneInv' BY <1>2, <1>3, <1>5, <1>6, <1>7 DEF AloneInv
<1>15. OrderInv'
  <2>1. ASSUME Orderly' PROVE flows' \subseteq {g} /\ OneEach(dir') /\ update' = None
    <3>1. Orderly /\ flows = {f} BY <1>2, <1>7, <2>1 DEF AloneInv, Orderly
    <3>2. FlowKnows(f) /\ f.kind = "delete" BY <1>1, <1>2, <1>8, <3>1 DEF OrderInv, FlowOK
    <3>. QED BY <1>1, <1>3, <1>6, <3>1, <3>2 DEF FlowKnows
  <2>2. NoSelf /\ prompt' # None => prompt'.jar.p \notin prompt'.missing BY <1>2, <1>3 DEF OrderInv
  <2>3. Orderly' => FlowKnows(g)' BY <1>1, <1>5, <1>8, <2>1 DEF FlowKnows, FlowOK
  <2>. QED BY <2>1, <2>2, <2>3 DEF OrderInv
<1>. QED BY <1>10, <1>11, <1>12, <1>13, <1>14, <1>15 DEF IInv

-----------------------------------------------------------------------------
(* A handler finds the file it was called for.                                 *)

\* It returns, and may leave a dialog;
LEMMA FindReturns ==
    ASSUME IInv, NEW f \in flows, f.at = "find", Return(f),
           UNCHANGED <<tab, dir, items, loads, marks>>,
           history' \in Histories, history'.overtaken = history.overtaken,
           history'.overlap = history.overlap, history.failed => history'.failed, Orderly' => Orderly,
           update' \in Updates \cup {None}, prompt' \in Prompts \cup {None}, chosen' \subseteq Projects,
           selected' \in Projects \cup {None}, shown' \in Projects \cup {None},
           listing' \in {"idle", "loading", "failed"},
           \/ update' = update
           \/ Replaced(update'.jar, update'.old) /\ (update'.p = update'.jar.p \/ Wrong'),
           prompt' = prompt \/ prompt'.p = prompt'.jar.p \/ Wrong',
           NoSelf /\ prompt' # None => prompt'.jar.p \notin prompt'.missing,
           listing' = "failed" => listing = "failed",
           listing' = "idle" /\ selected' # None => shown' = selected',
           f.seen = dir /\ OneEach(dir) /\ prompt = None /\ update = None /\ update' # None =>
               prompt' = None /\ Of(update'.jar.p, dir) = {update'.old}
    PROVE  IInv'
<1>1. TypeOK /\ ShapeInv /\ RightInv /\ CurrentInv /\ AloneInv /\ OrderInv BY DEF IInv
<1>2. flows' = flows \ {f} BY DEF Return
<1>3. TypeOK'
  <2>1. IsFiniteSet(flows') BY <1>1, <1>2, MovedAreFinite DEF TypeOK
  <2>. QED BY <1>1, <1>2, <2>1 DEF TypeOK
<1>4. ShapeInv' BY <1>1, <1>2, ShapeKept
<1>5. RightInv' BY <1>1, <1>2, RightKept
<1>6. CurrentInv' BY <1>1, <1>2, CurrentKept DEF Pending
<1>7. AloneInv' BY <1>1, <1>2 DEF AloneInv
<1>8. OrderInv'
  <2>1. ASSUME Orderly'
        PROVE  /\ flows' = {} /\ OneEach(dir')
               /\ update' # None => prompt' = None /\ Of(update'.jar.p, dir') = {update'.old}
    <3>1. flows = {f} /\ FlowKnows(f) BY <1>1, <2>1 DEF AloneInv, OrderInv, Orderly
    <3>. QED BY <1>2, <3>1 DEF FlowKnows
  <2>. QED BY <2>1 DEF OrderInv
<1>. QED BY <1>3, <1>4, <1>5, <1>6, <1>7, <1>8 DEF IInv

\* or goes on to the download.
LEMMA FindMoves ==
    ASSUME IInv, NEW f \in flows, f.at = "find", NEW j \in Jars, f.jar # None \/ f.p = j.p,
           f.jar = None \/ j = f.jar, NEW g \in FlowSet, g.at = "download",
           g.kind = f.kind, g.jar = j, g.old = f.old, g.p = f.p, Move(f, g),
           UNCHANGED <<tab, dir, items, loads, marks, update, prompt, chosen, selected, shown, listing>>,
           history' \in Histories, history'.overtaken = history.overtaken,
           history'.overlap = history.overlap, history.failed => history'.failed, Orderly' => Orderly,
           f.seen = dir /\ OneEach(dir) => Knows(j, None)
    PROVE  IInv'
<1>1. /\ TypeOK /\ ShapeInv /\ RightInv /\ CurrentInv /\ AloneInv /\ OrderInv /\ f \in FlowSet
      /\ FlowOK(f) /\ RightFlow(f) /\ None \notin Jars
  BY InstallAssumption DEF IInv, TypeOK, ShapeInv, RightInv
<1>3. g.kind \in {"one", "pick"} /\ g.old = None BY <1>1 DEF FlowOK
<1>4. flows' = (flows \ {f}) \cup {g} BY DEF Move
<1>5. FlowOK(g)' /\ RightFlow(g)'
  BY <1>1, <1>3 DEF FlowOK, RightFlow, Replaced, Wrong
<1>6. TypeOK'
  <2>1. IsFiniteSet(flows') BY <1>1, <1>4, MovedAreFinite DEF TypeOK
  <2>. QED BY <1>1, <1>3, <1>4, <2>1 DEF TypeOK
<1>7. ShapeInv' BY <1>1, <1>4, <1>5, ShapeKept DEF ShapeInv
<1>8. RightInv' BY <1>1, <1>4, <1>5, RightKept DEF RightInv
<1>9. CurrentInv' BY <1>1, <1>4, CurrentKept DEF Pending
<1>10. AloneInv' BY <1>1, <1>3, <1>4 DEF AloneInv
<1>11. OrderInv'
  <2>1. ASSUME Orderly'
        PROVE  flows' = {g} /\ FlowKnows(g)' /\ update' = None
    <3>1. flows = {f} /\ FlowKnows(f) BY <1>1, <2>1 DEF AloneInv, OrderInv, Orderly
    <3>2. OneEach(dir) /\ f.seen = dir /\ update = None BY <3>1 DEF FlowKnows
    <3>3. Knows(g.jar, g.old)' BY <1>3, <3>2 DEF Knows
    <3>. QED BY <1>3, <1>4, <3>1, <3>2, <3>3 DEF FlowKnows
  <2>2. NoSelf /\ prompt' # None => prompt'.jar.p \notin prompt'.missing BY <1>1 DEF OrderInv
  <2>. QED BY <2>1, <2>2 DEF OrderInv
<1>. QED BY <1>6, <1>7, <1>8, <1>9, <1>10, <1>11 DEF IInv

\* The file it chose, and what is missing or old, are known from the list it saw.
LEMMA ChosenIs ==
    ASSUME TypeOK, RightInv, NEW f \in flows, f.kind # "batch", ~NoRelease(f)
    PROVE  /\ Chosen(f) \in Jars /\ (f.jar # None \/ f.p = Chosen(f).p)
           /\ f.jar = None \/ Chosen(f) = f.jar
           /\ f.p = Chosen(f).p \/ Wrong
           /\ f \in FlowSet /\ f.p \in Projects /\ f.seen \in SUBSET Jars
<1>1. f \in FlowSet /\ f.p \in Projects /\ f.jar \in Jars \cup {None} /\ f.seen \in SUBSET Jars
  BY DEF TypeOK, FlowSet
<1>2. RightFlow(f) BY DEF RightInv
<1>3. CASE f.jar = None BY <1>1, <1>3, NewestIs DEF Chosen, NoRelease
<1>4. CASE f.jar # None BY <1>1, <1>2, <1>4 DEF Chosen, RightFlow
<1>. QED BY <1>1, <1>3, <1>4

LEMMA GoOnKeeps ==
    ASSUME IInv, NEW f \in flows, f.at = "find", ~NoRelease(f), GoOn(f, Chosen(f)),
           UNCHANGED <<tab, dir, items, loads, marks>>,
           history' \in Histories, history'.overtaken = history.overtaken,
           history'.overlap = history.overlap, history.failed => history'.failed, Orderly' => Orderly
    PROVE  IInv'
<1>1. TypeOK /\ ShapeInv /\ RightInv /\ OrderInv /\ f.kind # "batch"
  BY DEF IInv, ShapeInv, FlowOK
<1>2. PICK j : j = Chosen(f) OBVIOUS
<1>3. /\ j \in Jars /\ (f.jar # None \/ f.p = j.p) /\ (f.jar = None \/ j = f.jar)
      /\ (f.p = j.p \/ Wrong) /\ f.p \in Projects /\ f.seen \in SUBSET Jars
  BY <1>1, <1>2, ChosenIs
<1>4. PICK old \in OldJars(j, f.seen) :
        \/ old # None /\ AskReplace(f.p, j, old) /\ Return(f)
        \/ /\ old = None /\ Move(f, [f EXCEPT !.jar = j, !.at = "download"])
           /\ UNCHANGED screen
  BY <1>2 DEF GoOn
<1>5. /\ old \in Jars \cup {None} /\ Replaced(j, old)
      /\ f.seen = dir /\ OneEach(dir) => Knows(j, old)
  BY <1>1, <1>3, <1>4, OldJarsAre
<1>6. CASE old # None /\ AskReplace(f.p, j, old) /\ Return(f)
  <2>1. PICK u : u = [p |-> f.p, jar |-> j, old |-> old] OBVIOUS
  <2>2. u \in Updates /\ u.p = f.p /\ u.jar = j /\ u.old = old /\ update' = u
        /\ UNCHANGED <<prompt, chosen, selected, shown, listing>>
    BY <1>3, <1>5, <1>6, <2>1 DEF AskReplace, Updates
  <2>3. Wrong => Wrong' BY DEF Wrong
  <2>4. f.seen = dir /\ OneEach(dir) => Of(u.jar.p, dir) = {u.old} BY <1>5, <1>6, <2>2 DEF Knows
  <2>5. Replaced(update'.jar, update'.old) /\ (update'.p = update'.jar.p \/ Wrong')
    BY <1>3, <1>5, <2>2, <2>3
  <2>6. NoSelf /\ prompt' # None => prompt'.jar.p \notin prompt'.missing BY <1>1, <2>2 DEF OrderInv
  <2>. QED BY <1>1, <1>6, <2>2, <2>4, <2>5, <2>6, FindReturns DEF TypeOK, RightInv
<1>7. CASE /\ old = None /\ Move(f, [f EXCEPT !.jar = j, !.at = "download"])
           /\ UNCHANGED screen
  <2>1. UNCHANGED <<update, prompt, chosen, selected, shown, listing>> BY <1>7 DEF screen
  <2>2. f.seen = dir /\ OneEach(dir) => Knows(j, None) BY <1>5, <1>7
  <2>3. PICK g : g = [f EXCEPT !.jar = j, !.at = "download"] OBVIOUS
  <2>4. /\ g \in FlowSet /\ g.at = "download" /\ g.kind = f.kind /\ g.jar = j /\ g.old = f.old
        /\ g.p = f.p /\ Move(f, g)
    BY <1>1, <1>3, <1>7, <2>3 DEF TypeOK, FlowSet
  <2>. QED BY <1>3, <2>1, <2>2, <2>3, <2>4, FindMoves
<1>. QED BY <1>4, <1>6, <1>7

LEMMA AskDependenciesKeeps ==
    ASSUME IInv, NEW f \in flows, f.at = "find", ~NoRelease(f), NEW unread, NEW bare \in SUBSET Projects,
           AskDependencies(f.p, Chosen(f), Unread(f, Chosen(f), unread), bare), Return(f),
           UNCHANGED <<tab, dir, items, loads, marks>>,
           history' \in Histories, history'.overtaken = history.overtaken,
           history'.overlap = history.overlap, history.failed => history'.failed, Orderly' => Orderly
    PROVE  IInv'
<1>1. TypeOK /\ ShapeInv /\ RightInv /\ OrderInv /\ f.kind # "batch"
  BY DEF IInv, ShapeInv, FlowOK
<1>2. PICK j : j = Chosen(f) OBVIOUS
<1>3. j \in Jars /\ (f.p = j.p \/ Wrong) /\ f \in FlowSet /\ f.p \in Projects
  BY <1>1, <1>2, ChosenIs
<1>4. PICK missing : missing = Unread(f, j, unread) OBVIOUS
<1>5. missing \subseteq Projects /\ (NoSelf => j.p \notin missing) BY <1>1, <1>3, <1>4, MissingAre
<1>6. PICK q : q = [p |-> f.p, jar |-> j, missing |-> missing, bare |-> bare] OBVIOUS
<1>7. /\ q \in Prompts /\ q.p = f.p /\ q.jar = j /\ q.missing = missing /\ prompt' = q
      /\ chosen' \in {Defaults(j, missing), chosen} /\ UNCHANGED <<update, selected, shown, listing>>
  BY <1>2, <1>3, <1>4, <1>5, <1>6 DEF AskDependencies, Prompts
<1>8. chosen' \subseteq Projects BY <1>1, <1>5, <1>7 DEF Defaults, TypeOK
<1>9. Wrong => Wrong' BY DEF Wrong
<1>10. prompt'.p = prompt'.jar.p \/ Wrong' BY <1>3, <1>7, <1>9
<1>11. NoSelf => prompt'.jar.p \notin prompt'.missing BY <1>5, <1>7
<1>. QED BY <1>1, <1>7, <1>8, <1>10, <1>11, FindReturns DEF TypeOK, RightInv

LEMMA FindsKeep ==
    ASSUME IInv, NEW f \in flows, Finds(f), tab' = tab
    PROVE  IInv'
<1>1. /\ f.at = "find" /\ TypeOK /\ RightInv /\ OrderInv /\ f \in FlowSet /\ f.p \in Projects
      /\ UNCHANGED <<tab, dir, items, loads, marks>> /\ history' = history
  BY DEF IInv, Finds, TypeOK, FlowSet, server
<1>2. /\ history' \in Histories /\ history'.overtaken = history.overtaken
      /\ history'.overlap = history.overlap /\ (history.failed => history'.failed)
      /\ Orderly' => Orderly
  BY <1>1 DEF TypeOK, Orderly, NoSelf
<1>3. CASE NoRelease(f)
  <2>1. /\ Return(f) /\ selected' = f.p /\ listing' = "loading"
        /\ UNCHANGED <<update, prompt, chosen, shown>>
    BY <1>3 DEF Finds, OpenReleases
  <2>2. NoSelf /\ prompt' # None => prompt'.jar.p \notin prompt'.missing BY <1>1, <2>1 DEF OrderInv
  <2>. QED BY <1>1, <1>2, <2>1, <2>2, FindReturns DEF TypeOK
<1>4. CASE ~NoRelease(f) /\ GoOn(f, Chosen(f)) BY <1>1, <1>2, <1>4, GoOnKeeps
<1>5. CASE /\ ~NoRelease(f) /\ Return(f)
           /\ AskDependencies(f.p, Chosen(f), Missing(f, Chosen(f)), {})
  BY <1>1, <1>2, <1>5, AskDependenciesKeeps DEF Missing
<1>. QED BY <1>3, <1>4, <1>5 DEF Finds, Decide

LEMMA FindFailsKeeps ==
    ASSUME IInv, NEW f \in flows, FindFails(f), tab' = tab
    PROVE  IInv'
<1>1. /\ f.at = "find" /\ TypeOK /\ ShapeInv /\ RightInv /\ OrderInv /\ f \in FlowSet /\ f.p \in Projects
      /\ UNCHANGED <<tab, dir, items, loads, marks>> /\ NetFails
  BY DEF IInv, FindFails, TypeOK, FlowSet, server
<1>2. /\ history' \in Histories /\ history'.overtaken = history.overtaken
      /\ history'.overlap = history.overlap /\ (history.failed => history'.failed)
      /\ Orderly' => Orderly
  BY <1>1, NetFailsKept
<1>3. f.kind # "batch" BY <1>1 DEF ShapeInv, FlowOK
<1>4. ASSUME NEW q PROVE ~NoRelease(f) /\ q \in Missing(f, Chosen(f)) => {q} \in SUBSET Projects
  BY <1>1, <1>3, ChosenIs, MissingAre DEF Missing
<1>5. CASE Return(f) /\ UNCHANGED screen
  <2>1. UNCHANGED <<update, prompt, chosen, selected, shown, listing>> BY <1>5 DEF screen
  <2>2. NoSelf /\ prompt' # None => prompt'.jar.p \notin prompt'.missing BY <1>1, <2>1 DEF OrderInv
  <2>. QED BY <1>1, <1>2, <1>5, <2>1, <2>2, FindReturns DEF TypeOK, RightInv
<1>6. CASE ~NoRelease(f) /\ GoOn(f, Chosen(f)) BY <1>1, <1>2, <1>6, GoOnKeeps
<1>7. ASSUME NEW unread, NEW bare \in SUBSET Projects, ~NoRelease(f), Return(f),
             AskDependencies(f.p, Chosen(f), Unread(f, Chosen(f), unread), bare)
      PROVE  IInv'
  BY <1>1, <1>2, <1>7, AskDependenciesKeeps
<1>8. CASE ~NoRelease(f) /\ NoProjects(f, Chosen(f)) BY <1>6, <1>7, <1>8 DEF NoProjects
<1>9. CASE /\ ~NoRelease(f) /\ Return(f)
           /\ \E q \in Missing(f, Chosen(f)) : NoVersions(f, Chosen(f), q) \/ NoFiles(f, Chosen(f), q)
  BY <1>4, <1>7, <1>9 DEF NoVersions, NoFiles, Missing
<1>. QED BY <1>5, <1>8, <1>9 DEF FindFails

-----------------------------------------------------------------------------
(* The server, and what a handler does with its answer.                        *)

\* The server changes the directory, or the request fails.
LEMMA ServerKeeps ==
    ASSUME IInv, NEW f \in flows, NEW g \in FlowSet, Move(f, g), dir' \subseteq Jars,
           UNCHANGED <<tab, items, loads, marks, screen>>,
           g.kind = f.kind, g.p = f.p, g.jar = f.jar, FlowOK(g)',
           history' \in Histories, history.failed => history'.failed,
           history'.overlap = history.overlap, Orderly' => Orderly,
           history'.failed \/ Pending(g), g.at = "replace" => g.jar \in dir',
           Orderly' /\ FlowKnows(f) => FlowKnows(g)' /\ (update # None => Pending(g))
    PROVE  IInv'
<1>1. /\ TypeOK /\ ShapeInv /\ RightInv /\ CurrentInv /\ AloneInv /\ OrderInv /\ RightFlow(f)
      /\ UNCHANGED <<update, prompt, chosen, selected, shown, listing>>
  BY DEF IInv, RightInv, screen
<1>2. flows' = (flows \ {f}) \cup {g} BY DEF Move
<1>3. Wrong => Wrong' BY <1>1 DEF Wrong
<1>4. RightFlow(g)' BY <1>1, <1>3 DEF RightFlow
<1>5. TypeOK'
  <2>1. IsFiniteSet(flows') BY <1>1, <1>2, MovedAreFinite DEF TypeOK
  <2>. QED BY <1>1, <1>2, <2>1 DEF TypeOK
<1>6. ShapeInv' BY <1>1, <1>2, ShapeKept DEF ShapeInv
<1>7. RightInv' BY <1>1, <1>2, <1>4, RightKept DEF RightInv
<1>8. CurrentInv' BY <1>2 DEF CurrentInv, Pending
<1>9. AloneInv' BY <1>1, <1>2 DEF AloneInv
<1>10. OrderInv'
  <2>1. ASSUME Orderly'
        PROVE  /\ flows' = {g} /\ FlowKnows(g)'
               /\ update' # None => /\ prompt' = None /\ g.kind \in {"one", "pick"}
                                    /\ g.at \in {"download", "replace", "done"}
    <3>1. flows = {f} /\ FlowKnows(f) BY <1>1, <2>1 DEF AloneInv, OrderInv, Orderly
    <3>2. update # None => prompt = None /\ g.kind \in {"one", "pick"}
      BY <1>1, <2>1, <3>1 DEF OrderInv, FlowKnows, FlowSet
    <3>. QED BY <1>1, <1>2, <2>1, <3>1, <3>2 DEF Pending
  <2>2. NoSelf /\ prompt' # None => prompt'.jar.p \notin prompt'.missing BY <1>1 DEF OrderInv
  <2>. QED BY <2>1, <2>2 DEF OrderInv
<1>. QED BY <1>5, <1>6, <1>7, <1>8, <1>9, <1>10 DEF IInv

\* A jar of its own project changes nothing for the others of a batch.
LEMMA BatchKept ==
    ASSUME NEW f \in FlowSet, NEW g, BatchKnows(f), g.left = f.left, g.jar = f.jar, g.seen = f.seen,
           \A p \in Projects : p # f.jar.p => Of(p, dir') = Of(p, dir)
    PROVE  BatchKnows(g)'
<1>1. \A i \in DOMAIN f.left : f.left[i].p \in Projects BY JarsAre DEF FlowSet
<1>2. \A i \in DOMAIN f.left : /\ Of(f.left[i].p, f.seen) = Of(f.left[i].p, dir')
                               /\ f.left[i].p # f.jar.p
  BY <1>1 DEF BatchKnows
<1>. QED BY <1>2 DEF BatchKnows, Of

LEMMA PublishKeeps ==
    ASSUME IInv, NEW f \in flows, Publish(f), tab' = tab
    PROVE  IInv'
<1>1. /\ TypeOK /\ f \in FlowSet /\ FlowOK(f) /\ f.at = "download" /\ history' = history
      /\ UNCHANGED <<items, loads, marks, screen>> /\ dir' = dir \cup {f.jar}
  BY DEF IInv, TypeOK, ShapeInv, Publish
<1>2. PICK g : g = [f EXCEPT !.at = IF f.old = None THEN "done" ELSE "replace"] OBVIOUS
<1>3. /\ g \in FlowSet /\ g.kind = f.kind /\ g.p = f.p /\ g.jar = f.jar /\ g.old = f.old
      /\ g.left = f.left /\ g.seen = f.seen /\ Move(f, g)
      /\ g.at = IF f.old = None THEN "done" ELSE "replace"
  BY <1>1, <1>2 DEF FlowSet, Publish
<1>4. f.jar \in Jars /\ f.jar # None /\ f.kind # "delete" /\ Replaced(f.jar, f.old)
  BY <1>1 DEF FlowOK, FlowSet
<1>5. FlowOK(g)' BY <1>1, <1>3, <1>4 DEF FlowOK, Replaced
<1>6. ASSUME FlowKnows(f) PROVE FlowKnows(g)'
  <2>1. OneEach(dir) /\ Knows(f.jar, f.old) BY <1>1, <1>6 DEF FlowKnows
  <2>2. OneEach(IF g.at = "replace" THEN dir' \ {g.old} ELSE dir')
    BY <1>1, <1>3, <1>4, <2>1 DEF OneEach, Knows, Of
  <2>3. \A p \in Projects : p # f.jar.p => Of(p, dir') = Of(p, dir) BY <1>1 DEF Of
  <2>4. f.kind = "batch" => BatchKnows(g)' BY <1>1, <1>3, <1>6, <2>3, BatchKept DEF FlowKnows
  <2>5. update' = update BY <1>1 DEF screen
  <2>6. OneEach(IF g.at = "replace" THEN dir \ {g.old} ELSE dir)' BY <2>2
  <2>. QED BY <1>3, <1>6, <2>4, <2>5, <2>6 DEF FlowKnows
<1>7. Orderly' => Orderly BY <1>1 DEF Orderly, NoSelf
<1>8. Pending(g) BY <1>3 DEF Pending
<1>9. dir' \subseteq Jars /\ history' \in Histories BY <1>1, <1>4 DEF TypeOK
<1>. QED BY <1>1, <1>3, <1>5, <1>6, <1>7, <1>8, <1>9, ServerKeeps

LEMMA ReplaceKeeps ==
    ASSUME IInv, NEW f \in flows, Replace(f), tab' = tab
    PROVE  IInv'
<1>1. /\ TypeOK /\ f \in FlowSet /\ FlowOK(f) /\ f.at = "replace"
      /\ UNCHANGED <<items, loads, marks, screen>> /\ dir' = dir \ {f.old}
  BY DEF IInv, TypeOK, ShapeInv, Replace
<1>2. PICK g : g = [f EXCEPT !.at = IF f.old \in dir THEN "done" ELSE "failed"] OBVIOUS
<1>3. /\ g \in FlowSet /\ g.kind = f.kind /\ g.p = f.p /\ g.jar = f.jar /\ g.old = f.old
      /\ g.left = f.left /\ g.seen = f.seen /\ Move(f, g)
      /\ g.at = IF f.old \in dir THEN "done" ELSE "failed"
  BY <1>1, <1>2 DEF FlowSet, Replace
<1>4. f.jar \in Jars /\ f.jar # None /\ f.kind # "delete" /\ Replaced(f.jar, f.old) /\ f.old # None
  BY <1>1 DEF FlowOK, FlowSet
<1>5. PICK gone \in BOOLEAN : gone = (f.old \notin dir) OBVIOUS
<1>6. /\ history' \in Histories /\ history'.failed = (history.failed \/ gone)
      /\ history'.overlap = history.overlap /\ history'.overtaken = history.overtaken
      /\ history'.kept = history.kept
  <2>1. history' = [history EXCEPT !.failed = (history.failed \/ gone)] BY <1>5 DEF Replace
  <2>2. history \in Histories /\ (history.failed \/ gone) \in BOOLEAN BY <1>1 DEF TypeOK, Histories
  <2>. QED BY <2>1, <2>2 DEF Histories
<1>7. FlowOK(g)' BY <1>1, <1>3, <1>4, <1>5, <1>6 DEF FlowOK, Replaced
<1>8. Orderly' => Orderly /\ f.old \in dir BY <1>5, <1>6 DEF Orderly, NoSelf
<1>9. ASSUME FlowKnows(f), f.old \in dir PROVE FlowKnows(g)'
  <2>1. OneEach(dir \ {f.old}) BY <1>1, <1>9 DEF FlowKnows
  <2>2. OneEach(dir)' BY <1>1, <2>1 DEF OneEach
  <2>3. \A p \in Projects : p # f.jar.p => Of(p, dir') = Of(p, dir) BY <1>1, <1>4 DEF Of, Replaced
  <2>4. f.kind = "batch" => BatchKnows(g)' BY <1>1, <1>3, <1>9, <2>3, BatchKept DEF FlowKnows
  <2>5. update' = update BY <1>1 DEF screen
  <2>. QED BY <1>3, <1>9, <2>2, <2>4, <2>5 DEF FlowKnows
<1>10. dir' \subseteq Jars BY <1>1 DEF TypeOK
<1>11. history'.failed \/ Pending(g) BY <1>3, <1>5, <1>6 DEF Pending
<1>12. Orderly' => Pending(g) BY <1>3, <1>8 DEF Pending
<1>. QED BY <1>1, <1>3, <1>6, <1>7, <1>8, <1>9, <1>10, <1>11, <1>12, ServerKeeps

LEMMA DeletesKeeps ==
    ASSUME IInv, NEW f \in flows, Deletes(f), tab' = tab
    PROVE  IInv'
<1>1. /\ TypeOK /\ f \in FlowSet /\ FlowOK(f) /\ f.at = "delete" /\ f.kind = "delete"
      /\ UNCHANGED <<items, loads, marks, screen>> /\ dir' = dir \ {f.jar}
  BY DEF IInv, TypeOK, ShapeInv, Deletes, FlowOK
<1>2. PICK g : g = [f EXCEPT !.at = IF f.jar \in dir THEN "done" ELSE "failed"] OBVIOUS
<1>3. /\ g \in FlowSet /\ g.kind = f.kind /\ g.p = f.p /\ g.jar = f.jar /\ g.old = f.old
      /\ Move(f, g) /\ g.at = IF f.jar \in dir THEN "done" ELSE "failed"
  BY <1>1, <1>2 DEF FlowSet, Deletes
<1>5. PICK gone \in BOOLEAN : gone = (f.jar \notin dir) OBVIOUS
<1>6. /\ history' \in Histories /\ history'.failed = (history.failed \/ gone)
      /\ history'.overlap = history.overlap /\ history'.overtaken = history.overtaken
      /\ history'.kept = history.kept
  <2>1. history' = [history EXCEPT !.failed = (history.failed \/ gone), !.deleted = TRUE]
    BY <1>5 DEF Deletes
  <2>2. history \in Histories /\ (history.failed \/ gone) \in BOOLEAN BY <1>1 DEF TypeOK, Histories
  <2>. QED BY <2>1, <2>2 DEF Histories
<1>7. FlowOK(g)' BY <1>1, <1>3, <1>5, <1>6 DEF FlowOK, Replaced
<1>8. Orderly' => Orderly /\ f.jar \in dir BY <1>5, <1>6 DEF Orderly, NoSelf
<1>9. ASSUME FlowKnows(f), f.jar \in dir PROVE FlowKnows(g)'
  <2>1. OneEach(dir) /\ update' = None BY <1>1, <1>9 DEF FlowKnows, screen
  <2>2. OneEach(dir)' BY <1>1, <2>1 DEF OneEach
  <2>. QED BY <1>1, <1>3, <1>9, <2>1, <2>2 DEF FlowKnows
<1>10. dir' \subseteq Jars BY <1>1 DEF TypeOK
<1>11. history'.failed \/ Pending(g) BY <1>3, <1>5, <1>6 DEF Pending
<1>12. Orderly' => Pending(g) BY <1>3, <1>8 DEF Pending
<1>13. g.at # "replace" BY <1>3
<1>. QED BY <1>1, <1>3, <1>6, <1>7, <1>8, <1>9, <1>10, <1>11, <1>12, <1>13, ServerKeeps

LEMMA RequestFailsKeeps ==
    ASSUME IInv, NEW f \in flows, RequestFails(f), tab' = tab
    PROVE  IInv'
<1>1. /\ TypeOK /\ f \in FlowSet /\ FlowOK(f) /\ NetFails /\ dir' = dir
      /\ UNCHANGED <<items, loads, marks, screen>>
  BY DEF IInv, TypeOK, ShapeInv, RequestFails, server
<1>2. PICK g : g = [f EXCEPT !.at = "failed"] OBVIOUS
<1>3. /\ g \in FlowSet /\ g.kind = f.kind /\ g.p = f.p /\ g.jar = f.jar /\ g.old = f.old
      /\ Move(f, g) /\ g.at = "failed"
  BY <1>1, <1>2 DEF FlowSet, RequestFails
<1>4. /\ history' \in Histories /\ history'.failed /\ ~Orderly'
      /\ history'.overlap = history.overlap
  BY <1>1, NetFailsKept
<1>5. FlowOK(g)' BY <1>1, <1>3, <1>4 DEF FlowOK, Replaced
<1>6. dir' \subseteq Jars /\ g.at # "replace" BY <1>1, <1>3 DEF TypeOK
<1>. QED BY <1>1, <1>3, <1>4, <1>5, <1>6, ServerKeeps

\* A handler that returns asks for the list, unless it failed.
LEMMA AnswerKeeps ==
    ASSUME IInv, NEW f \in flows, f.at # "replace", Return(f),
           UNCHANGED <<tab, dir, items, chosen, selected, shown, listing, history>>,
           loads' = Append(loads, None) \/ (history.failed /\ loads' = loads),
           marks' \subseteq Projects, update' \in {update, None}, prompt' \in {prompt, None},
           f.kind \in {"one", "pick"} => update' = None \/ history.failed
    PROVE  IInv'
<1>1. /\ TypeOK /\ ShapeInv /\ RightInv /\ CurrentInv /\ AloneInv /\ OrderInv /\ f \in FlowSet
      /\ flows' = flows \ {f}
  BY DEF IInv, TypeOK, Return
<1>2. loads \in Seq((SUBSET Jars) \cup {None}) BY <1>1 DEF TypeOK
<1>3. TypeOK'
  <2>1. IsFiniteSet(flows') BY <1>1, MovedAreFinite DEF TypeOK
  <2>2. loads' \in Seq((SUBSET Jars) \cup {None}) BY <1>2
  <2>. QED BY <1>1, <2>1, <2>2 DEF TypeOK
<1>4. ShapeInv' BY <1>1, ShapeKept
<1>5. RightInv' BY <1>1, RightKept DEF RightInv
<1>6. CurrentInv'
  <2>1. CASE loads' = Append(loads, None)
    <3>1. loads' # <<>> /\ loads'[Len(loads')] = None BY <1>2, <2>1
    <3>. QED BY <3>1 DEF CurrentInv
  <2>2. CASE history.failed BY <2>2 DEF CurrentInv
  <2>. QED BY <2>1, <2>2
<1>7. AloneInv' BY <1>1 DEF AloneInv
<1>8. OrderInv'
  <2>1. ASSUME Orderly' PROVE flows' = {} /\ OneEach(dir') /\ update' = None
    <3>1. Orderly BY <2>1 DEF Orderly, NoSelf
    <3>2. flows = {f} /\ FlowKnows(f) BY <1>1, <3>1 DEF AloneInv, OrderInv, Orderly
    <3>3. ~history.failed BY <3>1 DEF Orderly
    <3>. QED BY <1>1, <3>2, <3>3 DEF FlowKnows, FlowSet
  <2>2. NoSelf /\ prompt' # None => prompt'.jar.p \notin prompt'.missing BY <1>1 DEF OrderInv
  <2>. QED BY <2>1, <2>2 DEF OrderInv
<1>. QED BY <1>3, <1>4, <1>5, <1>6, <1>7, <1>8 DEF IInv

LEMMA AnswersKeep ==
    ASSUME IInv, NEW f \in flows, Installed(f) \/ InstallFailed(f) \/ BatchEnds(f) \/ Deleted(f),
           tab' = tab
    PROVE  IInv'
<1>1. /\ TypeOK /\ f \in FlowSet /\ FlowOK(f) /\ marks \subseteq Projects
      /\ f.p \in Projects /\ f.jar \in Jars \cup {None}
  BY DEF IInv, TypeOK, ShapeInv, FlowSet
<1>2. f.jar \in Jars => f.jar.p \in Projects BY JarsAre
<1>3. f.at = "done" => f.jar \in Jars BY <1>1 DEF FlowOK
<1>4. f.at = "failed" => history.failed BY <1>1 DEF FlowOK
<1>5. CASE Installed(f)
  <2>1. /\ f.at = "done" /\ Return(f) /\ update' = None /\ loads' = Append(loads, None)
        /\ marks' = marks \cup {f.p}
        /\ UNCHANGED <<dir, items, prompt, chosen, selected, shown, listing, history>>
    BY <1>5 DEF Installed, Reload
  <2>2. marks' \subseteq Projects BY <1>1, <2>1
  <2>. QED BY <2>1, <2>2, AnswerKeeps
<1>6. CASE InstallFailed(f)
  <2>1. /\ f.at = "failed" /\ Return(f)
        /\ UNCHANGED <<dir, items, loads, marks, update, prompt, chosen, selected, shown, listing, history>>
    BY <1>6 DEF InstallFailed, server, screen
  <2>. QED BY <1>1, <1>4, <2>1, AnswerKeeps
<1>7. CASE BatchEnds(f)
  <2>1. /\ f.at \in {"done", "failed"} /\ f.kind = "batch" /\ Return(f)
        /\ UNCHANGED <<dir, items, update, chosen, selected, shown, listing, history>>
        /\ prompt' \in {prompt, None}
        /\ \/ f.at = "done" /\ loads' = Append(loads, None) /\ marks' = marks \cup {f.jar.p}
           \/ f.at = "failed" /\ UNCHANGED <<loads, marks>>
    BY <1>7 DEF BatchEnds, Reload
  <2>2. marks' \subseteq Projects BY <1>1, <1>2, <1>3, <2>1
  <2>. QED BY <1>4, <2>1, <2>2, AnswerKeeps
<1>8. CASE Deleted(f)
  <2>1. /\ f.at \in {"done", "failed"} /\ f.kind = "delete" /\ Return(f)
        /\ UNCHANGED <<dir, items, update, prompt, chosen, selected, shown, listing, history>>
        /\ \/ f.at = "done" /\ loads' = Append(loads, None) /\ marks' = marks \ {selected}
           \/ f.at = "failed" /\ UNCHANGED <<loads, marks>>
    BY <1>8 DEF Deleted, Reload, screen
  <2>2. marks' \subseteq Projects BY <1>1, <2>1
  <2>. QED BY <1>4, <2>1, <2>2, AnswerKeeps
<1>. QED BY <1>5, <1>6, <1>7, <1>8

\* A batch goes on with the next project, which its jars have not touched.
LEMMA BatchGoesOnKeeps ==
    ASSUME IInv, NEW f \in flows, BatchGoesOn(f), tab' = tab
    PROVE  IInv'
<1>1. /\ TypeOK /\ ShapeInv /\ RightInv /\ AloneInv /\ OrderInv
      /\ f \in FlowSet /\ FlowOK(f) /\ f.at = "done" /\ f.kind = "batch" /\ f.left # <<>>
      /\ UNCHANGED <<dir, items, update, prompt, chosen, selected, shown, listing, history>>
      /\ loads' = Append(loads, None) /\ marks' = marks \cup {f.jar.p}
  BY DEF IInv, TypeOK, ShapeInv, BatchGoesOn, screen, Reload
<1>2. PICK old \in OldJars(Head(f.left), f.seen) : Move(f, Item(f, Head(f.left), old))
  BY DEF BatchGoesOn
<1>3. PICK j : j = Head(f.left) OBVIOUS
<1>4. /\ f.left \in Seq(Jars) /\ f.seen \in SUBSET Jars /\ f.jar \in Jars /\ j \in Jars
      /\ j = f.left[1] /\ 1 \in DOMAIN f.left /\ Tail(f.left) \in Seq(Jars)
  BY <1>1, <1>3 DEF FlowSet, FlowOK
<1>5. /\ old \in Jars \cup {None} /\ Replaced(j, old)
      /\ OneEach(dir) /\ Of(j.p, f.seen) = Of(j.p, dir) => Knows(j, old)
  BY <1>1, <1>2, <1>3, <1>4, OldJarsAre
<1>6. PICK g : g = Item(f, j, old) OBVIOUS
<1>7. /\ g \in FlowSet /\ g.kind = "batch" /\ g.jar = j /\ g.old = old /\ g.left = Tail(f.left)
      /\ g.at = "download" /\ g.seen = f.seen
  BY <1>1, <1>4, <1>5, <1>6 DEF Item, FlowSet
<1>8. flows' = (flows \ {f}) \cup {g} BY <1>2, <1>3, <1>6 DEF Move
<1>9. j # None /\ f.jar.p \in Projects BY <1>4, InstallAssumption, JarsAre
<1>10. FlowOK(g)' /\ RightFlow(g)' BY <1>5, <1>7, <1>9 DEF FlowOK, RightFlow, Replaced
<1>11. TypeOK'
  <2>1. IsFiniteSet(flows') BY <1>1, <1>8, MovedAreFinite DEF TypeOK
  <2>2. loads' \in Seq((SUBSET Jars) \cup {None}) BY <1>1 DEF TypeOK
  <2>. QED BY <1>1, <1>7, <1>8, <1>9, <2>1, <2>2 DEF TypeOK
<1>12. ShapeInv' BY <1>1, <1>8, <1>10, ShapeKept DEF ShapeInv
<1>13. RightInv' BY <1>1, <1>8, <1>10, RightKept DEF RightInv
<1>14. CurrentInv'
  <2>1. loads' # <<>> /\ loads'[Len(loads')] = None BY <1>1 DEF TypeOK
  <2>. QED BY <2>1 DEF CurrentInv
<1>15. AloneInv' BY <1>1, <1>7, <1>8 DEF AloneInv
<1>16. OrderInv'
  <2>1. ASSUME Orderly' PROVE flows' = {g} /\ FlowKnows(g)' /\ update' = None
    <3>1. Orderly BY <1>1, <2>1 DEF Orderly, NoSelf
    <3>2. flows = {f} /\ FlowKnows(f) BY <1>1, <3>1 DEF AloneInv, OrderInv, Orderly
    <3>3. OneEach(dir) /\ update = None /\ BatchKnows(f) BY <1>1, <3>2 DEF FlowKnows
    <3>4. Knows(j, old) BY <1>4, <1>5, <3>3 DEF BatchKnows
    <3>5. BatchKnows(g)
      <4>1. \A i \in DOMAIN g.left : i + 1 \in DOMAIN f.left /\ g.left[i] = f.left[i + 1] /\ i + 1 # 1
        BY <1>1, <1>4, <1>7
      <4>2. \A i \in DOMAIN g.left : /\ Of(g.left[i].p, g.seen) = Of(g.left[i].p, dir)
                                    /\ g.left[i].p # g.jar.p
        BY <1>4, <1>7, <3>3, <4>1 DEF BatchKnows
      <4>3. \A i, k \in DOMAIN g.left : g.left[k].p = g.left[i].p => k + 1 = i + 1
        BY <3>3, <4>1 DEF BatchKnows
      <4>4. DOMAIN g.left \subseteq Nat BY <1>4, <1>7
      <4>5. \A i, k \in DOMAIN g.left : g.left[k].p = g.left[i].p => k = i BY <4>3, <4>4
      <4>. QED BY <4>2, <4>5 DEF BatchKnows
    <3>6. Knows(g.jar, g.old)' /\ BatchKnows(g)' /\ OneEach(dir)' /\ update' = None
      BY <1>1, <1>7, <3>3, <3>4, <3>5 DEF Knows, BatchKnows
    <3>. QED BY <1>7, <1>8, <3>2, <3>6 DEF FlowKnows
  <2>2. NoSelf /\ prompt' # None => prompt'.jar.p \notin prompt'.missing BY <1>1 DEF OrderInv
  <2>. QED BY <2>1, <2>2 DEF OrderInv
<1>. QED BY <1>11, <1>12, <1>13, <1>14, <1>15, <1>16 DEF IInv

-----------------------------------------------------------------------------
(* Lists on their way, and every step.                                         *)

\* What a step that touches neither directory, handler nor dialog keeps.
LEMMA QuietKeeps ==
    ASSUME IInv, UNCHANGED <<tab, dir, flows, marks, update, prompt, chosen, selected>>,
           items' \subseteq Jars, loads' \in Seq((SUBSET Jars) \cup {None}), CurrentInv',
           shown' \in Projects \cup {None}, listing' \in {"idle", "loading", "failed"},
           history' \in Histories, history.failed => history'.failed,
           history'.overlap = history.overlap, Orderly' => Orderly,
           listing' = "failed" => history'.failed,
           listing' = "idle" /\ selected' # None => shown' = selected'
    PROVE  IInv'
<1>1. TypeOK /\ ShapeInv /\ RightInv /\ AloneInv /\ OrderInv BY DEF IInv
<1>2. TypeOK' BY <1>1 DEF TypeOK
<1>3. ShapeInv'
  <2>1. \A f \in flows' : FlowOK(f)' BY <1>1 DEF ShapeInv, FlowOK
  <2>. QED BY <1>1, <2>1 DEF ShapeInv, Replaced
<1>4. RightInv' BY <1>1 DEF RightInv, RightFlow, Wrong
<1>5. AloneInv' BY <1>1 DEF AloneInv
<1>6. OrderInv'
  <2>1. ASSUME Orderly, NEW f \in flows, FlowKnows(f) PROVE FlowKnows(f)'
    BY <2>1 DEF FlowKnows, Knows, BatchKnows
  <2>. QED BY <1>1, <2>1 DEF OrderInv
<1>. QED BY <1>2, <1>3, <1>4, <1>5, <1>6 DEF IInv

LEMMA ListReleasesKeeps ==
    ASSUME IInv, ListReleases, tab' = tab
    PROVE  IInv'
<1>1. /\ TypeOK /\ ShapeInv /\ RightInv /\ CurrentInv
      /\ UNCHANGED <<tab, dir, items, loads, flows, marks, update, prompt, chosen, selected>>
  BY DEF IInv, ListReleases, server
<1>2. CASE Lists
  <2>1. shown' = selected /\ listing' = "idle" /\ history' = history BY <1>2 DEF Lists
  <2>2. Orderly' => Orderly BY <2>1 DEF Orderly, NoSelf
  <2>3. CurrentInv' BY <1>1, <2>1, CurrentKept
  <2>. QED BY <1>1, <2>1, <2>2, <2>3, QuietKeeps DEF TypeOK
<1>3. CASE ListingFails
  <2>1. NetFails /\ listing' = "failed" /\ shown' = shown BY <1>3 DEF ListingFails
  <2>2. /\ history' \in Histories /\ history'.failed /\ ~Orderly'
        /\ history'.overlap = history.overlap
    BY <1>1, <2>1, NetFailsKept
  <2>3. CurrentInv' BY <2>2 DEF CurrentInv
  <2>. QED BY <1>1, <2>1, <2>2, <2>3, QuietKeeps DEF TypeOK
<1>. QED BY <1>2, <1>3 DEF ListReleases

\* A list that is not delivered keeps its place, counted from the last.
LEMMA LoadingKeeps ==
    ASSUME IInv, Loading, tab' = tab
    PROVE  IInv'
<1>1. /\ TypeOK /\ ShapeInv /\ RightInv /\ CurrentInv /\ loads \in Seq((SUBSET Jars) \cup {None})
      /\ UNCHANGED <<tab, dir, flows, marks, update, prompt, chosen, selected, shown, listing>>
  BY DEF IInv, TypeOK, Loading, Served, Delivered, screen
<1>2. CASE Served
  <2>1. PICK i \in DOMAIN loads : loads' = [loads EXCEPT ![i] = dir] BY <1>2 DEF Served
  <2>2. UNCHANGED <<items, history>> BY <1>2 DEF Served
  <2>3. loads' \in Seq((SUBSET Jars) \cup {None}) BY <1>1, <2>1 DEF TypeOK
  <2>4. CurrentInv'
    <3>1. loads # <<>> /\ loads' # <<>> /\ Len(loads') = Len(loads) BY <1>1, <2>1
    <3>2. loads'[Len(loads')] \in {dir, loads[Len(loads)]} BY <1>1, <2>1, <3>1
    <3>. QED BY <1>1, <2>2, <3>1, <3>2 DEF CurrentInv, Pending
  <2>5. Orderly' => Orderly BY <2>2 DEF Orderly, NoSelf
  <2>. QED BY <1>1, <2>2, <2>3, <2>4, <2>5, QuietKeeps DEF TypeOK, ShapeInv, RightInv
<1>3. CASE Delivered
  <2>1. PICK i \in DOMAIN loads :
          /\ loads' = SubSeq(loads, 1, i - 1) \o SubSeq(loads, i + 1, Len(loads))
          /\ \/ /\ loads[i] # None /\ items' = loads[i]
                /\ history' = [history EXCEPT !.overtaken = @ \/ i > 1]
             \/ NetFails /\ UNCHANGED items
    BY <1>3 DEF Delivered
  <2>2. loads' \in Seq((SUBSET Jars) \cup {None}) BY <1>1, <2>1
  <2>3. CASE NetFails /\ UNCHANGED items
    <3>1. /\ history' \in Histories /\ history'.failed /\ ~Orderly'
          /\ history'.overlap = history.overlap
      BY <1>1, <2>3, NetFailsKept
    <3>2. CurrentInv' BY <3>1 DEF CurrentInv
    <3>. QED BY <1>1, <2>2, <2>3, <3>1, <3>2, QuietKeeps DEF TypeOK, ShapeInv, RightInv
  <2>4. CASE /\ loads[i] # None /\ items' = loads[i]
             /\ history' = [history EXCEPT !.overtaken = @ \/ i > 1]
    <3> i \in 1..Len(loads) /\ Len(loads) \in Nat BY <1>1
    <3>1. PICK late \in BOOLEAN : (history.overtaken \/ late) = (history.overtaken \/ i > 1) /\ (late <=> i > 1)
      <4>1. CASE i > 1 BY <4>1
      <4>2. CASE ~(i > 1) BY <4>2
      <4>. QED BY <4>1, <4>2
    <3>2. /\ history' \in Histories /\ history'.overtaken = (history.overtaken \/ late)
          /\ history'.overlap = history.overlap /\ history'.failed = history.failed
          /\ history'.kept = history.kept
      <4>1. history' = [history EXCEPT !.overtaken = (history.overtaken \/ late)] BY <2>4, <3>1
      <4>2. history \in Histories /\ (history.overtaken \/ late) \in BOOLEAN
        BY <1>1 DEF TypeOK, Histories
      <4>. QED BY <4>1, <4>2 DEF Histories
    <3>3. Orderly' => Orderly BY <3>2 DEF Orderly, NoSelf
    <3>4. items' \subseteq Jars BY <1>1, <2>4
    <3>5. CurrentInv'
      <4> SUFFICES ASSUME ~history'.overtaken, ~history'.failed, \A f \in flows' : ~Pending(f)
                   PROVE  IF loads' = <<>> THEN items' = dir'
                          ELSE loads'[Len(loads')] \in {None, dir'}
        BY DEF CurrentInv, Pending
      <4>1. i = 1 /\ loads # <<>> /\ Len(loads) \in Nat BY <1>1, <3>1, <3>2
      <4>2. loads[Len(loads)] \in {None, dir} BY <1>1, <3>2, <4>1 DEF CurrentInv
      <4>3. /\ Len(loads') = Len(loads) - 1
            /\ \A k \in 1..(Len(loads) - 1) : loads'[k] = loads[k + 1]
        <5>1. SubSeq(loads, 1, 0) = <<>> BY <1>1
        <5>2. PICK rest : rest = Tail(loads) OBVIOUS
        <5>3. /\ rest \in Seq((SUBSET Jars) \cup {None}) /\ Len(rest) = Len(loads) - 1
              /\ \A k \in 1..(Len(loads) - 1) : rest[k] = loads[k + 1]
          BY <1>1, <4>1, <5>2
        <5>4. loads' = <<>> \o rest BY <1>1, <2>1, <4>1, <5>1, <5>2, TailIsSubSeq
        <5>5. loads' = rest BY <5>3, <5>4
        <5>. QED BY <5>3, <5>5
      <4>4. CASE Len(loads) = 1
        <5>1. items' = dir BY <2>4, <4>1, <4>2, <4>4
        <5>. QED BY <1>1, <2>2, <4>3, <4>4, <5>1
      <4>5. CASE Len(loads) # 1
        <5>1. loads'[Len(loads')] = loads[Len(loads)] BY <1>1, <4>1, <4>3, <4>5
        <5>2. loads' # <<>> BY <1>1, <4>1, <4>3, <4>5
        <5>. QED BY <1>1, <4>2, <5>1, <5>2
      <4>. QED BY <4>4, <4>5
    <3>. QED BY <1>1, <2>2, <3>2, <3>3, <3>4, <3>5, QuietKeeps DEF TypeOK, ShapeInv, RightInv
  <2>. QED BY <2>1, <2>3, <2>4
<1>. QED BY <1>2, <1>3 DEF Loading

LEMMA InitInv == Init => IInv
<1> SUFFICES ASSUME Init PROVE IInv OBVIOUS
<1>1. /\ dir \subseteq Jars /\ OneEach(dir) /\ items = dir /\ loads = <<>> /\ flows = {} /\ marks = {}
      /\ update = None /\ prompt = None /\ chosen = {} /\ selected = None /\ shown = None
      /\ listing = "idle"
  BY DEF Init, OneEach
<1>2. history \in Histories BY DEF Init, Histories
<1>3. IsFiniteSet(flows) BY <1>1, FS_EmptySet
<1>4. TypeOK BY <1>1, <1>2, <1>3 DEF TypeOK, Init
<1>5. ShapeInv /\ RightInv /\ CurrentInv /\ AloneInv /\ OrderInv
  BY <1>1 DEF ShapeInv, RightInv, CurrentInv, AloneInv, OrderInv
<1>. QED BY <1>4, <1>5 DEF IInv

LEMMA NextInv == IInv /\ [Next]_vars => IInv'
<1> SUFFICES ASSUME IInv, [Next]_vars PROVE IInv' OBVIOUS
<1>1. CASE FlowSteps /\ tab' = tab
  <2>1. PICK f \in flows :
          \/ Finds(f) \/ FindFails(f)
          \/ Publish(f) \/ Replace(f) \/ RequestFails(f)
          \/ Installed(f) \/ InstallFailed(f)
          \/ BatchGoesOn(f) \/ BatchEnds(f)
          \/ Deletes(f) \/ Deleted(f)
    BY <1>1 DEF FlowSteps
  <2>. QED BY <1>1, <2>1, FindsKeep, FindFailsKeeps, PublishKeeps, ReplaceKeeps, RequestFailsKeeps,
              AnswersKeep, BatchGoesOnKeeps, DeletesKeeps
<1>2. CASE (ListReleases \/ Loading) /\ tab' = tab BY <1>2, ListReleasesKeeps, LoadingKeeps
<1>3. CASE User /\ tab' = tab
  BY <1>3, CardsKeep, ReleaseDialogKeeps, UpdateDialogKeeps, DependencyDialogKeeps, ConfirmKeeps
     DEF User
<1>4. CASE UNCHANGED vars
  <2>1. /\ UNCHANGED <<tab, dir, flows, marks, update, prompt, chosen, selected>>
        /\ UNCHANGED <<items, loads, shown, listing, history>>
    BY <1>4 DEF vars
  <2>2. Orderly' => Orderly BY <2>1 DEF Orderly, NoSelf
  <2>3. CurrentInv' BY <2>1, CurrentKept DEF IInv
  <2>. QED BY <2>1, <2>2, <2>3, QuietKeeps DEF IInv, TypeOK, ShapeInv, RightInv
<1>. QED BY <1>1, <1>2, <1>3, <1>4 DEF Next, Progress

-----------------------------------------------------------------------------
(* What it establishes.                                                        *)

\* Whatever is clicked and whatever fails, IInv holds: what a handler knows after its
\* awaits, what the dialogs remember, and which list is current (the handlers of the
\* four browsers, ModsPanel's load).
THEOREM InstallInvariance == Spec => []IInv
<1>. QED BY InitInv, NextInv, PTL DEF Spec

\* A handler installs the file of the project it was opened for, from any catalogue;
\* only a listing of releases that failed, and not on Modrinth, leaves another's files
\* under the title of a project (the effects that list releases).
THEOREM RightFileInstalled == Spec => []RightFile
<1>1. IInv => RightFile BY DEF IInv, RightInv, RightFlow, Wrong, RightFile
<1>. QED BY <1>1, InstallInvariance, PTL

\* Once nothing runs ModsPanel lists what the server has, and no update left two jars
\* of one project by itself, as long as no release names its own project among those it
\* needs (onModInstalled, findExistingOldJar, handleConfirmInstallWithDependencies).
THEOREM QuietListIsTruthful == ASSUME NoSelf PROVE Spec => []QuietListTruthful
<1>1. IInv => QuietListTruthful
  <2> SUFFICES ASSUME IInv, Idle, ~history.overtaken, ~history.failed
               PROVE  items = dir /\ (Twice => history.kept \/ history.overlap)
    BY DEF QuietListTruthful
  <2>1. items = dir BY DEF IInv, CurrentInv, Idle
  <2>2. ASSUME ~history.kept, ~history.overlap PROVE OneEach(dir)
    BY <2>2, NoSelf DEF IInv, OrderInv, Orderly, Idle
  <2>. QED BY <2>1, <2>2 DEF Twice, OneEach
<1>. QED BY <1>1, InstallInvariance, PTL

\* The last jar of a project leaves the server only by a deletion the user confirmed, or
\* where a click came while another action was under way (executeInstall, downloadMod).
THEOREM UpdatesKeepAJar == Spec => NeverWithout
<1> DEFINE Kept == \A p \in Present(dir) \ Present(dir') :
                      history.overlap \/ \E f \in flows : f.kind = "delete" /\ f.jar.p = p
<1>1. IInv /\ [Next]_vars => [Kept]_vars
  <2> SUFFICES ASSUME IInv, Next, ~history.overlap, NEW p \in Present(dir), p \notin Present(dir')
               PROVE  \E f \in flows : f.kind = "delete" /\ f.jar.p = p
    OBVIOUS
  <2>1. p \in Projects /\ dir # dir' /\ ~(dir \subseteq dir') BY DEF Present, InDir
  <2>2. PICK f \in flows : Replace(f) \/ Deletes(f)
    BY <2>1 DEF Next, Progress, User, FlowSteps, Finds, FindFails, Publish, RequestFails, Installed,
                InstallFailed, BatchGoesOn, BatchEnds, Deleted, ListReleases, Loading, Served, Delivered,
                Cards, ReleaseDialog, UpdateDialog, DependencyDialog, Confirm, server
  <2>3. FlowOK(f) BY DEF IInv, ShapeInv
  <2>4. CASE Replace(f)
    <3>1. f.jar \in dir /\ dir' = dir \ {f.old} /\ f.old # None
      BY <2>3, <2>4 DEF Replace, IInv, AloneInv, FlowOK
    <3>2. f.old.p = f.jar.p /\ f.old # f.jar BY <2>3, <3>1 DEF FlowOK, Replaced
    <3>. QED BY <3>1, <3>2 DEF Present, InDir
  <2>5. CASE Deletes(f)
    BY <2>3, <2>5 DEF Deletes, FlowOK, Present, InDir
  <2>. QED BY <2>2, <2>4, <2>5
<1>. QED BY <1>1, InstallInvariance, PTL DEF Spec, NeverWithout
=============================================================================
