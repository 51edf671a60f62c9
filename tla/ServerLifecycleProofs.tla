----------------------- MODULE ServerLifecycleProofs ------------------------
(***************************************************************************)
(* The theorems of ServerLifecycle: the inductive invariant, what follows  *)
(* from it, and that the operations implement DataGuard.  The first part   *)
(* is rely-guarantee: every step of an operation preserves what IInv says  *)
(* of the goroutine that takes it and disturbs no other one, with a lemma  *)
(* for each group of actions and in it one case for each action.           *)
(***************************************************************************)
EXTENDS ServerLifecycleInv, TLAPS


\* The row keeps its container and stays well-typed.
RowKept == row' \in Rows /\ row'.cid = row.cid /\ row'.here = row.here /\ note' \in Events

\* setState on any row: it stays well-typed, keeps its container id and its
\* existence, and announces a known event.
LEMMA SetStateKept ==
    ASSUME row \in Rows, NEW next \in States, SetState(next)
    PROVE  RowKept
<1>1. (next = "running") \in BOOLEAN OBVIOUS
<1>2. CASE row.here
  <2>1. row' \in Rows BY <1>1, <1>2 DEF SetState, Rows
  <2>2. row'.cid = row.cid /\ row'.here = row.here BY <1>2 DEF SetState, Rows
  <2>3. note' \in Events BY <1>2 DEF SetState, Events, NoteFor
  <2>. QED BY <2>1, <2>2, <2>3 DEF RowKept
<1>3. CASE ~row.here BY <1>3 DEF SetState, RowKept, Events
<1>. QED BY <1>2, <1>3

\* A failed call leaves the budget in bounds.
LEMMA SpendKept ==
    ASSUME budget \in Budgets, NEW c, CanFail(c), SpendFault
    PROVE  budget' \in Budgets
<1>1. budget.faults \in 0..MaxFaults /\ budget.faults > 0 BY DEF Budgets, CanFail
<1>2. budget.faults - 1 \in 0..MaxFaults BY <1>1, BoundsAssumption
<1> QED BY <1>2 DEF SpendFault, Budgets

\* So does a container that was created.
LEMMA CreateKept ==
    ASSUME budget \in Budgets, budget.cids > 0, budget' = [budget EXCEPT !.cids = @ - 1]
    PROVE  budget' \in Budgets
<1>1. budget.cids \in 0..MaxCid BY DEF Budgets
<1>2. budget.cids - 1 \in 0..MaxCid BY <1>1, BoundsAssumption
<1> QED BY <1>2 DEF Budgets

\* The container may have ended or be gone.
BoxLowered ==
    /\ box' \in Boxes /\ asked' \in BOOLEAN
    /\ box'.st = "running" => box.st = "running" /\ box'.id = box.id

\* The container cid may have been started.
BoxRaised(cid) ==
    /\ box' \in Boxes /\ asked' \in BOOLEAN /\ alerted' \in BOOLEAN
    /\ box'.id = box.id
    /\ box'.st = "running" => box.st = "running" \/ Present(cid)

\* docker stop leaves the container it names down and starts none.
LEMMA DockerStoppedKept ==
    ASSUME TypeOK, NEW cid, DockerStopped(cid)
    PROVE  BoxLowered /\ ~(Present(cid) /\ box'.st = "running")
BY DEF TypeOK, DockerStopped, BoxLowered, Boxes, Halted, Up, Present

\* Nor does a kill start a container.
LEMMA DockerKilledKept ==
    ASSUME TypeOK, NEW cid, DockerKilled(cid)
    PROVE  BoxLowered
BY DEF TypeOK, DockerKilled, BoxLowered, Boxes, Halted, Up, Present

\* Removing a container leaves it not running.
LEMMA DockerRemovedKept ==
    ASSUME TypeOK, NEW cid, DockerRemoved(cid)
    PROVE  BoxLowered /\ (Present(cid) => box'.st # "running")
<1>1. CASE Present(cid)
  <2>1. NoBox \in Boxes /\ NoBox.st # "running" BY BoundsAssumption DEF NoBox, Boxes
  <2>2. (box.st = "running") \in BOOLEAN OBVIOUS
  <2>3. asked' \in BOOLEAN BY <1>1, <2>2 DEF TypeOK, DockerRemoved
  <2>. QED BY <1>1, <2>1, <2>3 DEF DockerRemoved, BoxLowered
<1>2. CASE ~Present(cid) BY <1>2 DEF TypeOK, DockerRemoved, BoxLowered
<1>. QED BY <1>1, <1>2

\* docker start raises only the container it names.
LEMMA DockerStartedKept ==
    ASSUME TypeOK, NEW cid, DockerStarted(cid)
    PROVE  BoxRaised(cid)
BY DEF TypeOK, DockerStarted, BoxRaised, Boxes, ghosts

\* A goroutine's copy of the row stays well-typed when its container id is set,
LEMMA CopiesCid ==
    ASSUME NEW f \in [Procs -> Copies], NEW w \in Procs, NEW n \in 0..MaxCid
    PROVE  [f EXCEPT ![w].cid = n] \in [Procs -> Copies]
BY DEF Copies

\* when its state is set,
LEMMA CopiesState ==
    ASSUME NEW f \in [Procs -> Copies], NEW w \in Procs, NEW s \in States
    PROVE  [f EXCEPT ![w].state = s] \in [Procs -> Copies]
BY DEF Copies

\* Zero, the empty container id, is in range.
LEMMA NoCid == 0 \in 0..MaxCid
BY BoundsAssumption

\* and when both are cleared, as in the rebuilds.
LEMMA CopiesCleared ==
    ASSUME NEW f \in [Procs -> Copies], NEW w \in Procs
    PROVE  [f EXCEPT ![w].state = "stopped", ![w].cid = 0] \in [Procs -> Copies]
<1>1. "stopped" \in States BY DEF States
<1>. QED BY <1>1, NoCid DEF Copies

\* A goroutine that gets to its files does not start or end the server by it.
Opens(w) == pc'[w] \in DataLabels => (box'.st = "running" <=> box.st = "running")
\* What the other goroutines rely on in a step of w.
Rely(w) ==
    /\ \A v \in Procs \ {w} :
          /\ pc'[v] = pc[v] /\ op'[v] = op[v] /\ own'[v] = own[v] /\ srv'[v] = srv[v]
          /\ life = v => life' = v
          /\ writer = v => writer' = v
          /\ v \in readers => v \in readers'
    /\ \/ /\ row'.cid = row.cid /\ row'.here = row.here
          /\ box'.st = "running" => box.st = "running"
       \/ /\ life = w
          /\ box'.st = "running" => box.st = "running" \/ w \in readers
    /\ Opens(w)

\* What a step of w gives: its own part of the invariant and what others rely on.
Guarantee(w) == TypeOK' /\ GlobalInv' /\ ProcInv(w)' /\ Rely(w)

\* The steps that take and release the lifecycle lock (lockLifecycle) and the
\* world lock (lockWorld), and the return of a request, give the guarantee.
LEMMA LockStepKeeps ==
    ASSUME TypeOK, GlobalInv, NEW w \in Procs, ProcInv(w), LockStep(w)
    PROVE  Guarantee(w)
<1>. USE DEF StopOps, WorldOps, BootOps, LockOps, StopLabels, EnsureLabels, StartLabels,
    DataLabels, OtherLabels, Goto, Silent, locks, ghosts
<1>1. CASE AcquireLifecycle(w)
  <2>. USE <1>1 DEF AfterLock, AcquireLifecycle
  <2>1. RowKept BY DEF States, Events, RowKept, TypeOK
  <2>2. pc' \in [Procs -> Labels] BY DEF ProcInv, OpInv, TypeOK, Labels
  <2>3. TypeOK' BY BoundsAssumption, <2>1, <2>2 DEF Disks, Events, AllOps, Copies, Rows, States,
      Boxes, Budgets, RowKept, TypeOK
  <2>4. GlobalInv' /\ Rely(w) BY ProcsAssumption DEF RunningTracked, Rely, Opens, GlobalInv
  <2>5. OpInv(w)' /\ LockInv(w)' BY DEF Writing, ProcInv, OpInv, LockInv
  <2>6. CopyInv(w)' /\ DownInv(w)' BY DEF DownInv, ProcInv, OpInv, CopyInv
  <2>. QED BY <2>3, <2>4, <2>5, <2>6 DEF Guarantee, ProcInv
<1>2. CASE AcquireWorld(w)
  <2>. USE <1>2 DEF AfterWorld, AcquireWorld
  <2>1. RowKept BY DEF States, Events, RowKept, TypeOK
  <2>2. pc' \in [Procs -> Labels] BY DEF ProcInv, OpInv, TypeOK, Labels
  <2>3. TypeOK' BY BoundsAssumption, <2>1, <2>2 DEF Disks, Events, AllOps, Copies, Rows, States,
      Boxes, Budgets, RowKept, TypeOK
  <2>4. GlobalInv' /\ Rely(w) BY ProcsAssumption DEF RunningTracked, Rely, Opens, GlobalInv
  <2>5. OpInv(w)' /\ LockInv(w)' BY DEF Locked, ProcInv, OpInv, LockInv
  <2>6. CopyInv(w)' /\ DownInv(w)' BY DEF DownInv, ProcInv, OpInv, CopyInv
  <2>. QED BY <2>3, <2>4, <2>5, <2>6 DEF Guarantee, ProcInv
<1>3. CASE AcquireWorldShared(w)
  <2>. USE <1>3 DEF AcquireWorldShared
  <2>1. RowKept BY DEF States, Events, RowKept, TypeOK
  <2>2. pc' \in [Procs -> Labels] BY DEF TypeOK, Labels
  <2>3. TypeOK' BY <2>1, <2>2 DEF RowKept, TypeOK
  <2>4. GlobalInv' /\ Rely(w) BY DEF RunningTracked, Rely, Opens, GlobalInv
  <2>5. OpInv(w)' /\ LockInv(w)' BY DEF Locked, Writing, ProcInv, OpInv, LockInv
  <2>6. CopyInv(w)' /\ DownInv(w)' BY DEF DownInv, CopyInv
  <2>. QED BY <2>3, <2>4, <2>5, <2>6 DEF Guarantee, ProcInv
<1>4. CASE Return(w)
  <2>. USE <1>4 DEF Blank, Return
  <2>1. RowKept BY DEF States, Events, RowKept, TypeOK
  <2>2. pc' \in [Procs -> Labels] BY DEF TypeOK, Labels
  <2>3. TypeOK' BY BoundsAssumption, <2>1, <2>2 DEF Copies, States, RowKept, TypeOK
  <2>4. GlobalInv' /\ Rely(w) BY DEF RunningTracked, Rely, Opens, GlobalInv
  <2>5. OpInv(w)' /\ LockInv(w)' BY DEF Locked, Writing, OpInv, LockInv
  <2>6. CopyInv(w)' /\ DownInv(w)' BY DEF DownInv, CopyInv, TypeOK
  <2>. QED BY <2>3, <2>4, <2>5, <2>6 DEF Guarantee, ProcInv
<1>. QED BY <1>1, <1>2, <1>3, <1>4 DEF LockStep

\* The steps of stopLocked.
LEMMA StopStepKeeps ==
    ASSUME TypeOK, GlobalInv, NEW w \in Procs, ProcInv(w), StopStep(w)
    PROVE  Guarantee(w)
<1>. USE DEF StopOps, WorldOps, BootOps, LockOps, StopLabels, EnsureLabels, StartLabels,
    DataLabels, OtherLabels, Goto, Silent, locks, ghosts
<1>1. CASE StopGet(w)
  <2>. USE <1>1 DEF AfterStop, Snapshot, StopGet
  <2>1. RowKept BY DEF States, Events, RowKept, TypeOK
  <2>2. pc' \in [Procs -> Labels] BY DEF ProcInv, OpInv, TypeOK, Labels
  <2>3. srv' \in [Procs -> Copies] BY DEF Copies, Rows, TypeOK
  <2>4. TypeOK' BY BoundsAssumption, <2>1, <2>2, <2>3 DEF Disks, Events, AllOps, Copies, Rows,
      States, Boxes, Budgets, RowKept, TypeOK
  <2>5. GlobalInv' /\ Rely(w) BY DEF RunningTracked, Rely, Opens, GlobalInv
  <2>6. OpInv(w)' /\ LockInv(w)' BY DEF Locked, Writing, ProcInv, OpInv, LockInv
  <2>7. CopyInv(w)' /\ DownInv(w)' BY <2>1 DEF RunningTracked, DownInv, Boxes, Rows, Copies,
      Locked, Writing, RowKept, GlobalInv, ProcInv, OpInv, LockInv, CopyInv, TypeOK
  <2>. QED BY <2>4, <2>5, <2>6, <2>7 DEF Guarantee, ProcInv
<1>2. CASE StopPeek(w)
  <2>. USE <1>2 DEF AfterStop, Present, StopPeek
  <2>1. RowKept BY DEF States, Events, RowKept, TypeOK
  <2>2. budget' \in Budgets BY SpendKept DEF FailsDetached, Fails, TypeOK
  <2>3. pc' \in [Procs -> Labels] BY DEF ProcInv, OpInv, TypeOK, Labels
  <2>4. TypeOK' BY <2>1, <2>2, <2>3 DEF RowKept, TypeOK
  <2>5. GlobalInv' /\ Rely(w) BY DEF RunningTracked, Rely, Opens, GlobalInv, TypeOK
  <2>6. OpInv(w)' /\ LockInv(w)' BY DEF Locked, Writing, ProcInv, OpInv, LockInv, TypeOK
  <2>7. CopyInv(w)' /\ DownInv(w)' BY DEF DownInv, ProcInv, OpInv, CopyInv, TypeOK
  <2>. QED BY <2>4, <2>5, <2>6, <2>7 DEF Guarantee, ProcInv
<1>3. CASE StopMark(w)
  <2>. USE <1>3 DEF StopMark
  <2>1. RowKept BY SetStateKept DEF States, Events, RowKept, TypeOK
  <2>2. pc' \in [Procs -> Labels] BY DEF TypeOK, Labels
  <2>3. TypeOK' BY <2>1, <2>2 DEF RowKept, TypeOK
  <2>4. GlobalInv' /\ Rely(w) BY <2>1 DEF RunningTracked, RowKept, Rely, Opens, GlobalInv,
      TypeOK
  <2>5. OpInv(w)' /\ LockInv(w)' BY DEF Locked, Writing, ProcInv, OpInv, LockInv, TypeOK
  <2>6. CopyInv(w)' /\ DownInv(w)' BY <2>1 DEF RunningTracked, DownInv, RowKept, GlobalInv,
      ProcInv, CopyInv, TypeOK
  <2>. QED BY <2>3, <2>4, <2>5, <2>6 DEF Guarantee, ProcInv
<1>4. CASE StopInspect(w)
  <2>. USE <1>4 DEF Present, StopInspect
  <2>1. RowKept BY DEF States, Events, RowKept, TypeOK
  <2>2. budget' \in Budgets BY SpendKept DEF FailsDetached, Fails, TypeOK
  <2>3. pc' \in [Procs -> Labels] BY DEF TypeOK, Labels
  <2>4. TypeOK' BY <2>1, <2>2, <2>3 DEF RowKept, TypeOK
  <2>5. GlobalInv' /\ Rely(w) BY DEF RunningTracked, Rely, Opens, GlobalInv, TypeOK
  <2>6. OpInv(w)' /\ LockInv(w)' BY DEF Locked, Writing, ProcInv, OpInv, LockInv, TypeOK
  <2>7. CopyInv(w)' /\ DownInv(w)' BY DEF RunningTracked, DownInv, GlobalInv, ProcInv, CopyInv,
      TypeOK
  <2>. QED BY <2>4, <2>5, <2>6, <2>7 DEF Guarantee, ProcInv
<1>5. CASE StopSend(w)
  <2>. USE <1>5 DEF Present, Up, StopSend
  <2>1. RowKept BY DEF States, Events, RowKept, TypeOK
  <2>2. budget' \in Budgets BY SpendKept DEF FailsDetached, Fails, TypeOK
  <2>3. pc' \in [Procs -> Labels] BY DEF TypeOK, Labels
  <2>4. asked' \in BOOLEAN BY DEF TypeOK
  <2>5. TypeOK' BY <2>1, <2>2, <2>3, <2>4 DEF RowKept, TypeOK
  <2>6. GlobalInv' /\ Rely(w) BY DEF RunningTracked, Rely, Opens, GlobalInv, TypeOK
  <2>7. OpInv(w)' /\ LockInv(w)' BY DEF Locked, Writing, ProcInv, OpInv, LockInv, TypeOK
  <2>8. CopyInv(w)' /\ DownInv(w)' BY DEF DownInv, ProcInv, CopyInv, TypeOK
  <2>. QED BY <2>5, <2>6, <2>7, <2>8 DEF Guarantee, ProcInv
<1>6. CASE StopWait(w)
  <2>. USE <1>6 DEF Present, StopWait
  <2>1. RowKept BY DEF States, Events, RowKept, TypeOK
  <2>2. pc' \in [Procs -> Labels] BY DEF TypeOK, Labels
  <2>3. TypeOK' BY <2>1, <2>2 DEF RowKept, TypeOK
  <2>4. GlobalInv' /\ Rely(w) BY DEF RunningTracked, Rely, Opens, GlobalInv, TypeOK
  <2>5. OpInv(w)' /\ LockInv(w)' BY DEF Locked, Writing, ProcInv, OpInv, LockInv, TypeOK
  <2>6. CopyInv(w)' /\ DownInv(w)' BY DEF DownInv, ProcInv, CopyInv, TypeOK
  <2>. QED BY <2>3, <2>4, <2>5, <2>6 DEF Guarantee, ProcInv
<1>7. CASE StopHalt(w)
  <2>. USE <1>7 DEF Present, Up, StopHalt
  <2>1. RowKept BY DEF States, Events, RowKept, TypeOK
  <2>2. budget' \in Budgets BY SpendKept DEF FailsDetached, Fails, TypeOK
  <2>3. BoxLowered BY DockerStoppedKept DEF TypeOK, BoxLowered, BoxRaised
  <2>4. pc' \in [Procs -> Labels] BY DEF TypeOK, Labels
  <2>5. TypeOK' BY <2>1, <2>2, <2>4, <2>3 DEF RowKept, BoxLowered, TypeOK
  <2>6. GlobalInv' BY <2>3 DEF RunningTracked, BoxLowered, GlobalInv
  <2>7. Rely(w) BY <2>3 DEF BoxLowered, Rely, Opens, TypeOK
  <2>8. OpInv(w)' /\ LockInv(w)' BY DEF Locked, Writing, ProcInv, OpInv, LockInv, TypeOK
  <2>9. CopyInv(w)' BY DEF ProcInv, CopyInv, TypeOK
  <2>10. pc'[w] = "p_fin" => box'.st # "running" BY DockerStoppedKept DEF TypeOK
  <2>11. DownInv(w)' BY <2>10 DEF DownInv, TypeOK
  <2>. QED BY <2>5, <2>6, <2>7, <2>8, <2>9, <2>11 DEF Guarantee, ProcInv
<1>8. CASE MarkError(w)
  <2>. USE <1>8 DEF MarkError
  <2>1. RowKept BY SetStateKept DEF States, Events, RowKept, TypeOK
  <2>2. pc' \in [Procs -> Labels] BY DEF TypeOK, Labels
  <2>3. TypeOK' BY <2>1, <2>2 DEF RowKept, TypeOK
  <2>4. GlobalInv' /\ Rely(w) BY <2>1 DEF RunningTracked, RowKept, Rely, Opens, GlobalInv
  <2>5. OpInv(w)' /\ LockInv(w)' BY DEF Locked, Writing, OpInv, LockInv, TypeOK
  <2>6. CopyInv(w)' /\ DownInv(w)' BY DEF DownInv, CopyInv, TypeOK
  <2>. QED BY <2>3, <2>4, <2>5, <2>6 DEF Guarantee, ProcInv
<1>9. CASE StopFinish(w)
  <2>. USE <1>9 DEF AfterStop, Blank, StopFinish
  <2>1. RowKept BY SetStateKept DEF States, TypeOK
  <2>2. pc' \in [Procs -> Labels] BY DEF ProcInv, OpInv, TypeOK, Labels
  <2>3. srv' \in [Procs -> Copies] BY BoundsAssumption DEF Copies, States, TypeOK
  <2>4. TypeOK' BY BoundsAssumption, <2>1, <2>2, <2>3 DEF Disks, Events, AllOps, Copies, Rows,
      States, Boxes, Budgets, RowKept, TypeOK
  <2>5. GlobalInv' /\ Rely(w) BY <2>1 DEF RunningTracked, RowKept, Rely, Opens, GlobalInv
  <2>6. OpInv(w)' /\ LockInv(w)' BY DEF Locked, Writing, ProcInv, OpInv, LockInv
  <2>7. CopyInv(w)' /\ DownInv(w)' BY <2>1 DEF DownInv, RowKept, ProcInv, OpInv, CopyInv
  <2>. QED BY <2>4, <2>5, <2>6, <2>7 DEF Guarantee, ProcInv
<1>. QED BY <1>1, <1>2, <1>3, <1>4, <1>5, <1>6, <1>7, <1>8, <1>9 DEF StopStep

\* The steps of startLocked, of ensureContainerLocked and of the docker calls
\* Create makes in the background.
LEMMA StartStepKeeps ==
    ASSUME TypeOK, GlobalInv, NEW w \in Procs, ProcInv(w), StartStep(w)
    PROVE  Guarantee(w)
<1>. USE DEF StopOps, WorldOps, BootOps, LockOps, StopLabels, EnsureLabels, StartLabels,
    DataLabels, OtherLabels, Goto, Silent, locks, ghosts
<1>1. CASE StartGet(w)
  <2>. USE <1>1 DEF Snapshot, StartGet
  <2>1. RowKept BY DEF States, Events, RowKept, TypeOK
  <2>2. pc' \in [Procs -> Labels] BY DEF TypeOK, Labels
  <2>3. TypeOK' BY <2>1, <2>2 DEF Copies, Rows, RowKept, TypeOK
  <2>4. GlobalInv' /\ Rely(w) BY DEF RunningTracked, Rely, Opens, GlobalInv
  <2>5. OpInv(w)' /\ LockInv(w)' BY DEF Locked, Writing, ProcInv, OpInv, LockInv
  <2>6. CopyInv(w)' /\ DownInv(w)' BY DEF DownInv, ProcInv, OpInv, CopyInv, TypeOK
  <2>. QED BY <2>3, <2>4, <2>5, <2>6 DEF Guarantee, ProcInv
<1>2. CASE StartInspect(w)
  <2>. USE <1>2 DEF Present, Up, StartInspect
  <2>1. RowKept BY DEF States, Events, RowKept, TypeOK
  <2>2. budget' \in Budgets BY SpendKept DEF FailsDetached, Fails, TypeOK
  <2>3. pc' \in [Procs -> Labels] BY DEF TypeOK, Labels
  <2>4. TypeOK' BY <2>1, <2>2, <2>3 DEF RowKept, TypeOK
  <2>5. GlobalInv' /\ Rely(w) BY DEF RunningTracked, Rely, Opens, GlobalInv, TypeOK
  <2>6. OpInv(w)' /\ LockInv(w)' BY DEF Locked, Writing, ProcInv, OpInv, LockInv, TypeOK
  <2>7. CopyInv(w)' /\ DownInv(w)' BY DEF DownInv, ProcInv, OpInv, CopyInv, TypeOK
  <2>. QED BY <2>4, <2>5, <2>6, <2>7 DEF Guarantee, ProcInv
<1>3. CASE EnsureGet(w)
  <2>. USE <1>3 DEF Snapshot, Cut, EnsureGet
  <2>1. RowKept BY DEF States, Events, RowKept, TypeOK
  <2>2. pc' \in [Procs -> Labels] BY DEF TypeOK, Labels
  <2>3. TypeOK' BY <2>1, <2>2 DEF Copies, Rows, RowKept, TypeOK
  <2>4. GlobalInv' /\ Rely(w) BY DEF RunningTracked, Rely, Opens, GlobalInv
  <2>5. OpInv(w)' /\ LockInv(w)' BY DEF Locked, Writing, ProcInv, OpInv, LockInv
  <2>6. CopyInv(w)' /\ DownInv(w)' BY DEF DownInv, ProcInv, CopyInv, TypeOK
  <2>. QED BY <2>3, <2>4, <2>5, <2>6 DEF Guarantee, ProcInv
<1>4. CASE EnsureExists(w)
  <2>. USE <1>4 DEF Present, Cut, AfterEnsure, EnsureExists
  <2>1. RowKept BY DEF States, Events, RowKept, TypeOK
  <2>2. budget' \in Budgets BY SpendKept DEF FailsDetached, Fails, TypeOK
  <2>3. pc' \in [Procs -> Labels] BY DEF TypeOK, Labels
  <2>4. TypeOK' BY <2>1, <2>2, <2>3 DEF RowKept, TypeOK
  <2>5. GlobalInv' /\ Rely(w) BY DEF RunningTracked, Rely, Opens, GlobalInv, TypeOK
  <2>6. OpInv(w)' /\ LockInv(w)' BY DEF Locked, Writing, ProcInv, OpInv, LockInv, TypeOK
  <2>7. CopyInv(w)' /\ DownInv(w)' BY DEF RunningTracked, DownInv, GlobalInv, ProcInv, CopyInv,
      TypeOK
  <2>. QED BY <2>4, <2>5, <2>6, <2>7 DEF Guarantee, ProcInv
<1>5. CASE EnsureClear(w)
  <2>. USE <1>5 DEF Cut, EnsureClear
  <2>1. row' \in Rows /\ note' \in Events BY BoundsAssumption DEF Rows, Events, TypeOK
  <2>2. pc' \in [Procs -> Labels] BY DEF TypeOK, Labels
  <2>3. srv' \in [Procs -> Copies]
    <3>1. CASE Cut(w) BY <3>1 DEF EnsureClear, TypeOK
    <3>2. CASE ~Cut(w)
      <4>1. srv' = [srv EXCEPT ![w].cid = 0] BY <3>2 DEF EnsureClear
      <4>. QED BY <4>1, CopiesCid, NoCid DEF TypeOK
    <3>. QED BY <3>1, <3>2
  <2>4. TypeOK' BY <2>1, <2>2, <2>3 DEF TypeOK
  <2>5. GlobalInv' BY DEF RunningTracked, GlobalInv, ProcInv, CopyInv
  <2>6. Rely(w) BY DEF Locked, Rely, Opens, TypeOK, ProcInv, LockInv
  <2>7. OpInv(w)' /\ LockInv(w)' BY DEF Locked, Writing, ProcInv, OpInv, LockInv, TypeOK
  <2>8. CopyInv(w)' BY DEF Rows, ProcInv, CopyInv, TypeOK
  <2>9. DownInv(w)' BY DEF DownInv, TypeOK
  <2>. QED BY <2>4, <2>5, <2>6, <2>7, <2>8, <2>9 DEF Guarantee, ProcInv
<1>6. CASE EnsureJar(w)
  <2>. USE <1>6 DEF Cut, EnsureJar
  <2>1. RowKept BY SetStateKept DEF States, Events, RowKept, TypeOK
  <2>2. pc' \in [Procs -> Labels] BY DEF TypeOK, Labels
  <2>3. srv' \in [Procs -> Copies] BY BoundsAssumption DEF Copies, Rows, Boxes, States, TypeOK
  <2>4. TypeOK' BY BoundsAssumption, <2>1, <2>2, <2>3 DEF Disks, Events, AllOps, Copies, Rows,
      States, Boxes, Budgets, RowKept, TypeOK
  <2>5. GlobalInv' /\ Rely(w) BY <2>1 DEF RunningTracked, RowKept, Rely, Opens, GlobalInv,
      TypeOK
  <2>6. OpInv(w)' /\ LockInv(w)' BY DEF Locked, Writing, ProcInv, OpInv, LockInv, TypeOK
  <2>7. CopyInv(w)' /\ DownInv(w)' BY <2>1 DEF DownInv, RowKept, ProcInv, CopyInv, TypeOK
  <2>. QED BY <2>4, <2>5, <2>6, <2>7 DEF Guarantee, ProcInv
<1>7. CASE EnsureFetch(w)
  <2>. USE <1>7 DEF EnsureFetch
  <2>1. RowKept BY DEF States, Events, RowKept, TypeOK
  <2>2. budget' \in Budgets BY SpendKept DEF FailsDetached, Fails, TypeOK
  <2>3. pc' \in [Procs -> Labels] BY DEF TypeOK, Labels
  <2>4. TypeOK' BY BoundsAssumption, <2>1, <2>2, <2>3 DEF Disks, Events, AllOps, Copies, Rows,
      States, Boxes, Budgets, RowKept, TypeOK
  <2>5. GlobalInv' /\ Rely(w) BY DEF RunningTracked, Rely, Opens, GlobalInv, TypeOK
  <2>6. OpInv(w)' /\ LockInv(w)' BY DEF Locked, Writing, ProcInv, OpInv, LockInv, TypeOK
  <2>7. CopyInv(w)' /\ DownInv(w)' BY DEF DownInv, ProcInv, CopyInv, TypeOK
  <2>. QED BY <2>4, <2>5, <2>6, <2>7 DEF Guarantee, ProcInv
<1>8. CASE EnsureCreate(w)
  <2>. USE <1>8 DEF Cut, EnsureCreate
  <2>1. RowKept BY DEF States, Events, RowKept, TypeOK
  <2>2. budget' \in Budgets BY SpendKept, CreateKept DEF FailsDetached, Fails, TypeOK
  <2>3. pc' \in [Procs -> Labels] BY DEF TypeOK, Labels
  <2>4. TypeOK' BY BoundsAssumption, <2>1, <2>2, <2>3 DEF Boxes, Budgets, RowKept, TypeOK
  <2>5. GlobalInv' /\ Rely(w) BY DEF RunningTracked, Rely, Opens, GlobalInv, TypeOK
  <2>6. OpInv(w)' /\ LockInv(w)' BY DEF Locked, Writing, ProcInv, OpInv, LockInv, TypeOK
  <2>7. CopyInv(w)' /\ DownInv(w)' BY DEF DownInv, ProcInv, CopyInv, TypeOK
  <2>. QED BY <2>4, <2>5, <2>6, <2>7 DEF Guarantee, ProcInv
<1>9. CASE EnsureRecord(w)
  <2>. USE <1>9 DEF Cut, EnsureRecord
  <2>1. row' \in Rows /\ note' \in Events BY DEF Rows, Boxes, Events, TypeOK
  <2>2. pc' \in [Procs -> Labels] BY DEF TypeOK, Labels
  <2>3. srv' \in [Procs -> Copies]
    <3>1. CASE Cut(w) BY <3>1 DEF EnsureRecord, TypeOK
    <3>2. CASE ~Cut(w)
      <4>1. srv' = [srv EXCEPT ![w].cid = box.id] BY <3>2 DEF EnsureRecord
      <4>2. box.id \in 0..MaxCid BY DEF TypeOK, Boxes
      <4>. QED BY <4>1, <4>2, CopiesCid DEF TypeOK
    <3>. QED BY <3>1, <3>2
  <2>4. TypeOK' BY <2>1, <2>2, <2>3 DEF TypeOK
  <2>5. GlobalInv' BY DEF RunningTracked, Rows, GlobalInv, TypeOK
  <2>6. Rely(w) BY DEF Locked, Rely, Opens, TypeOK, ProcInv, LockInv
  <2>7. OpInv(w)' /\ LockInv(w)' BY DEF Locked, Writing, ProcInv, OpInv, LockInv, TypeOK
  <2>8. CopyInv(w)' BY DEF Rows, Copies, ProcInv, CopyInv, TypeOK
  <2>9. DownInv(w)' BY DEF DownInv, TypeOK
  <2>. QED BY <2>4, <2>5, <2>6, <2>7, <2>8, <2>9 DEF Guarantee, ProcInv
<1>10. CASE EnsureSettle(w)
  <2>. USE <1>10 DEF Cut, AfterEnsure, EnsureSettle
  <2>1. RowKept BY SetStateKept DEF States, Events, RowKept, TypeOK
  <2>2. pc' \in [Procs -> Labels] BY DEF TypeOK, Labels
  <2>3. TypeOK' BY BoundsAssumption, <2>1, <2>2 DEF Disks, Events, AllOps, Copies, Rows, States,
      Boxes, Budgets, RowKept, TypeOK
  <2>4. GlobalInv' /\ Rely(w) BY <2>1 DEF RunningTracked, RowKept, Rely, Opens, GlobalInv
  <2>5. OpInv(w)' /\ LockInv(w)' BY DEF Locked, Writing, ProcInv, OpInv, LockInv
  <2>6. CopyInv(w)' /\ DownInv(w)' BY <2>1 DEF DownInv, RowKept, ProcInv, OpInv, CopyInv
  <2>. QED BY <2>3, <2>4, <2>5, <2>6 DEF Guarantee, ProcInv
<1>11. CASE StartPorts(w)
  <2>. USE <1>11 DEF StartPorts
  <2>1. RowKept BY DEF States, Events, RowKept, TypeOK
  <2>2. budget' \in Budgets BY SpendKept DEF FailsDetached, Fails, TypeOK
  <2>3. pc' \in [Procs -> Labels] BY DEF TypeOK, Labels
  <2>4. TypeOK' BY <2>1, <2>2, <2>3 DEF RowKept, TypeOK
  <2>5. GlobalInv' /\ Rely(w) BY DEF RunningTracked, Rely, Opens, GlobalInv, TypeOK
  <2>6. OpInv(w)' /\ LockInv(w)' BY DEF Locked, Writing, ProcInv, OpInv, LockInv, TypeOK
  <2>7. CopyInv(w)' /\ DownInv(w)' BY DEF DownInv, ProcInv, CopyInv, TypeOK
  <2>. QED BY <2>4, <2>5, <2>6, <2>7 DEF Guarantee, ProcInv
<1>12. CASE StartMark(w)
  <2>. USE <1>12 DEF PendingInitialState, StartMark
  <2>1. RowKept BY SetStateKept DEF States, TypeOK
  <2>2. pc' \in [Procs -> Labels] BY DEF TypeOK, Labels
  <2>3. TypeOK' BY <2>1, <2>2 DEF RowKept, TypeOK
  <2>4. GlobalInv' /\ Rely(w) BY <2>1 DEF RunningTracked, RowKept, Rely, Opens, GlobalInv
  <2>5. OpInv(w)' /\ LockInv(w)' BY DEF Locked, Writing, ProcInv, OpInv, LockInv
  <2>6. CopyInv(w)' /\ DownInv(w)' BY <2>1 DEF DownInv, RowKept, ProcInv, CopyInv
  <2>. QED BY <2>3, <2>4, <2>5, <2>6 DEF Guarantee, ProcInv
<1>13. CASE StartBoot(w)
  <2>. USE <1>13 DEF Present, StartBoot
  <2>1. RowKept BY DEF States, Events, RowKept, TypeOK
  <2>2. budget' \in Budgets BY SpendKept DEF FailsDetached, Fails, TypeOK
  <2>3. BoxRaised(srv[w].cid) BY DockerStartedKept DEF TypeOK, BoxLowered, BoxRaised
  <2>4. pc' \in [Procs -> Labels] BY DEF TypeOK, Labels
  <2>5. TypeOK' BY <2>1, <2>2, <2>4, <2>3 DEF RowKept, BoxRaised, TypeOK
  <2>6. GlobalInv' /\ Rely(w) BY <2>3 DEF RunningTracked, Locked, BoxRaised, Rely, Opens,
      GlobalInv, TypeOK, ProcInv, LockInv, CopyInv
  <2>7. OpInv(w)' /\ LockInv(w)' BY DEF Locked, Writing, ProcInv, OpInv, LockInv, TypeOK
  <2>8. CopyInv(w)' /\ DownInv(w)' BY DEF DownInv, ProcInv, CopyInv, TypeOK
  <2>. QED BY <2>5, <2>6, <2>7, <2>8 DEF Guarantee, ProcInv
<1>14. CASE StartRun(w)
  <2>. USE <1>14 DEF PendingInitialState, StartRun
  <2>1. RowKept BY SetStateKept DEF States, TypeOK
  <2>2. pc' \in [Procs -> Labels] BY DEF TypeOK, Labels
  <2>3. TypeOK' BY <2>1, <2>2 DEF RowKept, TypeOK
  <2>4. GlobalInv' /\ Rely(w) BY <2>1 DEF RunningTracked, RowKept, Rely, Opens, GlobalInv
  <2>5. OpInv(w)' /\ LockInv(w)' BY DEF Locked, Writing, OpInv, LockInv, TypeOK
  <2>6. CopyInv(w)' /\ DownInv(w)' BY DEF DownInv, CopyInv
  <2>. QED BY <2>3, <2>4, <2>5, <2>6 DEF Guarantee, ProcInv
<1>. QED BY <1>1, <1>2, <1>3, <1>4, <1>5, <1>6, <1>7, <1>8, <1>9, <1>10, <1>11, <1>12, <1>13,
    <1>14 DEF StartStep

\* The steps of Kill, which takes no lock.
LEMMA KillStepKeeps ==
    ASSUME TypeOK, GlobalInv, NEW w \in Procs, ProcInv(w), KillStep(w)
    PROVE  Guarantee(w)
<1>. USE DEF StopOps, WorldOps, BootOps, LockOps, StopLabels, EnsureLabels, StartLabels,
    DataLabels, OtherLabels, Goto, Silent, locks, ghosts
<1>1. CASE KillTry(w)
  <2>. USE <1>1 DEF KillTry
  <2>1. RowKept BY DEF States, Events, RowKept, TypeOK
  <2>2. pc' \in [Procs -> Labels] BY DEF TypeOK, Labels
  <2>3. TypeOK' BY <2>1, <2>2 DEF RowKept, TypeOK
  <2>4. GlobalInv' /\ Rely(w) BY ProcsAssumption DEF RunningTracked, Rely, Opens, GlobalInv
  <2>5. OpInv(w)' /\ LockInv(w)' BY DEF Locked, Writing, OpInv, LockInv
  <2>6. CopyInv(w)' /\ DownInv(w)' BY DEF DownInv, CopyInv
  <2>. QED BY <2>3, <2>4, <2>5, <2>6 DEF Guarantee, ProcInv
<1>2. CASE KillGet(w)
  <2>. USE <1>2 DEF Snapshot, KillGet
  <2>1. RowKept BY DEF States, Events, RowKept, TypeOK
  <2>2. pc' \in [Procs -> Labels] BY DEF TypeOK, Labels
  <2>3. TypeOK' BY <2>1, <2>2 DEF Copies, Rows, RowKept, TypeOK
  <2>4. GlobalInv' /\ Rely(w) BY DEF RunningTracked, Rely, Opens, GlobalInv
  <2>5. OpInv(w)' /\ LockInv(w)' BY DEF Locked, Writing, OpInv, LockInv
  <2>6. CopyInv(w)' /\ DownInv(w)' BY DEF DownInv, CopyInv
  <2>. QED BY <2>3, <2>4, <2>5, <2>6 DEF Guarantee, ProcInv
<1>3. CASE KillMark(w)
  <2>. USE <1>3 DEF KillMark
  <2>1. RowKept BY SetStateKept DEF States, Events, RowKept, TypeOK
  <2>2. pc' \in [Procs -> Labels] BY DEF TypeOK, Labels
  <2>3. TypeOK' BY <2>1, <2>2 DEF RowKept, TypeOK
  <2>4. GlobalInv' /\ Rely(w) BY <2>1 DEF RunningTracked, RowKept, Rely, Opens, GlobalInv,
      TypeOK
  <2>5. OpInv(w)' /\ LockInv(w)' BY DEF Locked, Writing, OpInv, LockInv, TypeOK
  <2>6. CopyInv(w)' /\ DownInv(w)' BY DEF DownInv, CopyInv, TypeOK
  <2>. QED BY <2>3, <2>4, <2>5, <2>6 DEF Guarantee, ProcInv
<1>4. CASE KillKill(w)
  <2>. USE <1>4 DEF Present, Up, KillKill
  <2>1. RowKept BY DEF States, Events, RowKept, TypeOK
  <2>2. budget' \in Budgets BY SpendKept DEF FailsDetached, Fails, TypeOK
  <2>3. BoxLowered BY DockerKilledKept DEF TypeOK, BoxLowered, BoxRaised
  <2>4. pc' \in [Procs -> Labels] BY DEF TypeOK, Labels
  <2>5. TypeOK' BY <2>1, <2>2, <2>4, <2>3 DEF RowKept, BoxLowered, TypeOK
  <2>6. GlobalInv' /\ Rely(w) BY <2>3 DEF RunningTracked, BoxLowered, Rely, Opens, GlobalInv,
      TypeOK
  <2>7. OpInv(w)' /\ LockInv(w)' BY DEF Locked, Writing, OpInv, LockInv, TypeOK
  <2>8. CopyInv(w)' /\ DownInv(w)' BY DEF DownInv, CopyInv, TypeOK
  <2>. QED BY <2>5, <2>6, <2>7, <2>8 DEF Guarantee, ProcInv
<1>5. CASE KillFinish(w)
  <2>. USE <1>5 DEF KillFinish
  <2>1. RowKept BY SetStateKept DEF States, Events, RowKept, TypeOK
  <2>2. pc' \in [Procs -> Labels] BY DEF TypeOK, Labels
  <2>3. TypeOK' BY BoundsAssumption, <2>1, <2>2 DEF Disks, Events, AllOps, Copies, Rows, States,
      Boxes, Budgets, RowKept, TypeOK
  <2>4. GlobalInv' /\ Rely(w) BY <2>1 DEF RunningTracked, RowKept, Rely, Opens, GlobalInv
  <2>5. OpInv(w)' /\ LockInv(w)' BY DEF Locked, Writing, OpInv, LockInv
  <2>6. CopyInv(w)' /\ DownInv(w)' BY DEF DownInv, CopyInv
  <2>. QED BY <2>3, <2>4, <2>5, <2>6 DEF Guarantee, ProcInv
<1>. QED BY <1>1, <1>2, <1>3, <1>4, <1>5 DEF KillStep

\* The steps of SendConsoleCommand, which takes no lock.
LEMMA ConsoleStepKeeps ==
    ASSUME TypeOK, GlobalInv, NEW w \in Procs, ProcInv(w), ConsoleStep(w)
    PROVE  Guarantee(w)
<1>. USE DEF StopOps, WorldOps, BootOps, LockOps, StopLabels, EnsureLabels, StartLabels,
    DataLabels, OtherLabels, Goto, Silent, locks, ghosts
<1>1. CASE ConsoleGet(w)
  <2>. USE <1>1 DEF Snapshot, ConsoleGet
  <2>1. RowKept BY DEF States, Events, RowKept, TypeOK
  <2>2. pc' \in [Procs -> Labels] BY DEF TypeOK, Labels
  <2>3. TypeOK' BY <2>1, <2>2 DEF Copies, Rows, RowKept, TypeOK
  <2>4. GlobalInv' /\ Rely(w) BY DEF RunningTracked, Rely, Opens, GlobalInv
  <2>5. OpInv(w)' /\ LockInv(w)' BY DEF Locked, Writing, OpInv, LockInv
  <2>6. CopyInv(w)' /\ DownInv(w)' BY DEF DownInv, CopyInv
  <2>. QED BY <2>3, <2>4, <2>5, <2>6 DEF Guarantee, ProcInv
<1>2. CASE ConsoleSend(w)
  <2>. USE <1>2 DEF Present, Up, ConsoleSend
  <2>1. RowKept BY DEF States, Events, RowKept, TypeOK
  <2>2. budget' \in Budgets BY SpendKept DEF FailsDetached, Fails, TypeOK
  <2>3. pc' \in [Procs -> Labels] BY DEF TypeOK, Labels
  <2>4. asked' \in BOOLEAN BY DEF TypeOK
  <2>5. TypeOK' BY <2>1, <2>2, <2>3, <2>4 DEF RowKept, TypeOK
  <2>6. GlobalInv' /\ Rely(w) BY DEF RunningTracked, Rely, Opens, GlobalInv, TypeOK
  <2>7. OpInv(w)' /\ LockInv(w)' BY DEF Locked, Writing, OpInv, LockInv, TypeOK
  <2>8. CopyInv(w)' /\ DownInv(w)' BY DEF DownInv, CopyInv, TypeOK
  <2>. QED BY <2>5, <2>6, <2>7, <2>8 DEF Guarantee, ProcInv
<1>3. CASE ConsoleMark(w)
  <2>. USE <1>3 DEF ConsoleMark
  <2>1. RowKept BY SetStateKept DEF States, Events, RowKept, TypeOK
  <2>2. pc' \in [Procs -> Labels] BY DEF TypeOK, Labels
  <2>3. TypeOK' BY <2>1, <2>2 DEF RowKept, TypeOK
  <2>4. GlobalInv' /\ Rely(w) BY <2>1 DEF RunningTracked, RowKept, Rely, Opens, GlobalInv
  <2>5. OpInv(w)' /\ LockInv(w)' BY DEF Locked, Writing, OpInv, LockInv
  <2>6. CopyInv(w)' /\ DownInv(w)' BY DEF DownInv, CopyInv
  <2>. QED BY <2>3, <2>4, <2>5, <2>6 DEF Guarantee, ProcInv
<1>. QED BY <1>1, <1>2, <1>3 DEF ConsoleStep

\* The steps of Update, Recreate and Delete once the server is down.
LEMMA RebuildStepKeeps ==
    ASSUME TypeOK, GlobalInv, NEW w \in Procs, ProcInv(w), RebuildStep(w)
    PROVE  Guarantee(w)
<1>. USE DEF StopOps, WorldOps, BootOps, LockOps, StopLabels, EnsureLabels, StartLabels,
    DataLabels, OtherLabels, Goto, Silent, locks, ghosts
<1>1. CASE RecreateGet(w)
  <2>. USE <1>1 DEF Online, Snapshot, RecreateGet
  <2>1. RowKept BY DEF States, Events, RowKept, TypeOK
  <2>2. pc' \in [Procs -> Labels] BY DEF TypeOK, Labels
  <2>3. TypeOK' BY <2>1, <2>2 DEF Copies, Rows, RowKept, TypeOK
  <2>4. GlobalInv' /\ Rely(w) BY DEF RunningTracked, Rely, Opens, GlobalInv
  <2>5. OpInv(w)' /\ LockInv(w)' BY DEF Locked, Writing, ProcInv, OpInv, LockInv
  <2>6. CopyInv(w)' /\ DownInv(w)' BY DEF RunningTracked, DownInv, GlobalInv, CopyInv, TypeOK
  <2>. QED BY <2>3, <2>4, <2>5, <2>6 DEF Guarantee, ProcInv
<1>2. CASE RecreatePeek(w)
  <2>. USE <1>2 DEF Present, Up, RecreatePeek
  <2>1. RowKept BY DEF States, Events, RowKept, TypeOK
  <2>2. budget' \in Budgets BY SpendKept DEF FailsDetached, Fails, TypeOK
  <2>3. pc' \in [Procs -> Labels] BY DEF TypeOK, Labels
  <2>4. was' \in [Procs -> BOOLEAN] BY DEF TypeOK
  <2>5. TypeOK' BY <2>1, <2>2, <2>3, <2>4 DEF RowKept, TypeOK
  <2>6. GlobalInv' /\ Rely(w) BY DEF RunningTracked, Rely, Opens, GlobalInv, TypeOK
  <2>7. OpInv(w)' /\ LockInv(w)' BY DEF Locked, Writing, ProcInv, OpInv, LockInv, TypeOK
  <2>8. CopyInv(w)' /\ DownInv(w)' BY DEF DownInv, ProcInv, OpInv, CopyInv, TypeOK
  <2>. QED BY <2>5, <2>6, <2>7, <2>8 DEF Guarantee, ProcInv
<1>3. CASE RecreateReGet(w)
  <2>. USE <1>3 DEF Snapshot, RecreateReGet
  <2>1. RowKept BY DEF States, Events, RowKept, TypeOK
  <2>2. pc' \in [Procs -> Labels] BY DEF TypeOK, Labels
  <2>3. TypeOK' BY <2>1, <2>2 DEF Copies, Rows, RowKept, TypeOK
  <2>4. GlobalInv' /\ Rely(w) BY DEF RunningTracked, Rely, Opens, GlobalInv
  <2>5. OpInv(w)' /\ LockInv(w)' BY DEF Locked, Writing, ProcInv, OpInv, LockInv
  <2>6. CopyInv(w)' /\ DownInv(w)' BY DEF DownInv, ProcInv, CopyInv, TypeOK
  <2>. QED BY <2>3, <2>4, <2>5, <2>6 DEF Guarantee, ProcInv
<1>4. CASE RemoveContainer(w)
  <2>. USE <1>4 DEF AfterRemove, AfterRemoveFails, Present, NoBox, RemoveContainer
  <2>1. RowKept BY DEF States, Events, RowKept, TypeOK
  <2>2. budget' \in Budgets BY SpendKept DEF FailsDetached, Fails, TypeOK
  <2>3. BoxLowered BY DockerRemovedKept DEF TypeOK, BoxLowered, BoxRaised
  <2>4. pc' \in [Procs -> Labels] BY DEF ProcInv, OpInv, TypeOK, Labels
  <2>5. TypeOK' BY <2>1, <2>2, <2>4, <2>3 DEF RowKept, BoxLowered, TypeOK
  <2>6. GlobalInv' BY <2>3 DEF RunningTracked, BoxLowered, GlobalInv
  <2>7. Rely(w) BY <2>3 DEF DownInv, BoxLowered, Rely, Opens, TypeOK, ProcInv
  <2>8. OpInv(w)' /\ LockInv(w)' BY DEF Locked, Writing, ProcInv, OpInv, LockInv, TypeOK
  <2>9. CopyInv(w)' BY DEF ProcInv, OpInv, CopyInv, TypeOK
  <2>10. op[w] # "recreate" => box'.st # "running" BY <2>3 DEF DownInv, ProcInv, BoxLowered
  <2>11. pc' = [pc EXCEPT ![w] = AfterRemove(op[w])] => box'.st # "running" \/ op[w] # "recreate"
      BY DEF RunningTracked, TypeOK, DockerRemoved, GlobalInv, ProcInv, CopyInv
  <2>12. DownInv(w)' BY <2>10, <2>11 DEF DownInv
  <2>. QED BY <2>5, <2>6, <2>7, <2>8, <2>9, <2>12 DEF Guarantee, ProcInv
<1>5. CASE RecreateClear(w)
  <2>. USE <1>5 DEF RecreateClear
  <2>1. row' \in Rows /\ note' \in Events BY NoCid DEF Rows, States, Events, TypeOK
  <2>2. pc' \in [Procs -> Labels] BY DEF TypeOK, Labels
  <2>3. TypeOK' BY <2>1, <2>2 DEF TypeOK
  <2>4. GlobalInv' BY DEF RunningTracked, DownInv, GlobalInv, ProcInv
  <2>5. Rely(w) BY DEF Locked, Rely, Opens, ProcInv, LockInv
  <2>6. OpInv(w)' /\ LockInv(w)' BY DEF Locked, Writing, ProcInv, OpInv, LockInv
  <2>7. CopyInv(w)' BY DEF CopyInv
  <2>8. DownInv(w)' BY DEF DownInv, TypeOK
  <2>. QED BY <2>3, <2>4, <2>5, <2>6, <2>7, <2>8 DEF Guarantee, ProcInv
<1>6. CASE UpdateGet(w)
  <2>. USE <1>6 DEF Snapshot, UpdateGet
  <2>1. RowKept BY DEF States, Events, RowKept, TypeOK
  <2>2. pc' \in [Procs -> Labels] BY DEF TypeOK, Labels
  <2>3. TypeOK' BY <2>1, <2>2 DEF Copies, Rows, RowKept, TypeOK
  <2>4. GlobalInv' /\ Rely(w) BY DEF RunningTracked, Rely, Opens, GlobalInv, TypeOK
  <2>5. OpInv(w)' /\ LockInv(w)' BY DEF Locked, Writing, ProcInv, OpInv, LockInv, TypeOK
  <2>6. CopyInv(w)' /\ DownInv(w)' BY DEF DownInv, CopyInv, TypeOK
  <2>. QED BY <2>3, <2>4, <2>5, <2>6 DEF Guarantee, ProcInv
<1>7. CASE UpdateClear(w)
  <2>. USE <1>7 DEF UpdateClear
  <2>1. row' \in Rows /\ note' \in Events BY BoundsAssumption DEF Rows, Events, TypeOK
  <2>2. pc' \in [Procs -> Labels] BY DEF TypeOK, Labels
  <2>3. own' \in [Procs -> Copies]
    <3>1. CASE gone[w] BY <3>1 DEF UpdateClear, TypeOK
    <3>2. CASE ~gone[w]
      <4>1. own' = [own EXCEPT ![w].state = "stopped", ![w].cid = 0] BY <3>2 DEF UpdateClear
      <4>. QED BY <4>1, CopiesCleared DEF TypeOK
    <3>. QED BY <3>1, <3>2
  <2>4. TypeOK' BY <2>1, <2>2, <2>3 DEF TypeOK
  <2>5. GlobalInv' BY DEF RunningTracked, DownInv, GlobalInv, ProcInv
  <2>6. Rely(w) BY DEF Locked, Rely, Opens, TypeOK, ProcInv, LockInv
  <2>7. OpInv(w)' /\ LockInv(w)' BY DEF Locked, Writing, ProcInv, OpInv, LockInv, TypeOK
  <2>8. CopyInv(w)' BY DEF Rows, Copies, CopyInv, TypeOK
  <2>9. DownInv(w)' BY DEF DownInv, TypeOK
  <2>. QED BY <2>4, <2>5, <2>6, <2>7, <2>8, <2>9 DEF Guarantee, ProcInv
<1>8. CASE UpdateWrite(w)
  <2>. USE <1>8 DEF UpdateWrite
  <2>1. row' \in Rows /\ note' \in Events BY BoundsAssumption DEF Rows, Copies, Boxes, States,
      Events, TypeOK
  <2>2. pc' \in [Procs -> Labels] BY DEF TypeOK, Labels
  <2>3. TypeOK' BY <2>1, <2>2 DEF TypeOK
  <2>4. GlobalInv' /\ Rely(w) BY DEF RunningTracked, Rely, Opens, GlobalInv, ProcInv, CopyInv
  <2>5. OpInv(w)' /\ LockInv(w)' BY DEF Locked, Writing, OpInv, LockInv, TypeOK
  <2>6. CopyInv(w)' /\ DownInv(w)' BY DEF DownInv, CopyInv, TypeOK
  <2>. QED BY <2>3, <2>4, <2>5, <2>6 DEF Guarantee, ProcInv
<1>9. CASE DeleteGet(w)
  <2>. USE <1>9 DEF Snapshot, DeleteGet
  <2>1. RowKept BY DEF States, Events, RowKept, TypeOK
  <2>2. pc' \in [Procs -> Labels] BY DEF TypeOK, Labels
  <2>3. TypeOK' BY <2>1, <2>2 DEF Copies, Rows, RowKept, TypeOK
  <2>4. GlobalInv' /\ Rely(w) BY DEF RunningTracked, Rely, Opens, GlobalInv
  <2>5. OpInv(w)' /\ LockInv(w)' BY DEF Locked, Writing, ProcInv, OpInv, LockInv
  <2>6. CopyInv(w)' /\ DownInv(w)' BY DEF RunningTracked, DownInv, GlobalInv, CopyInv, TypeOK
  <2>. QED BY <2>3, <2>4, <2>5, <2>6 DEF Guarantee, ProcInv
<1>10. CASE DeleteRow(w)
  <2>. USE <1>10 DEF DeleteRow
  <2>1. row' \in Rows /\ note' \in Events BY BoundsAssumption DEF Rows, Copies, Boxes, States,
      Events, TypeOK
  <2>2. pc' \in [Procs -> Labels] BY DEF TypeOK, Labels
  <2>3. TypeOK' BY <2>1, <2>2 DEF TypeOK
  <2>4. GlobalInv' BY DEF RunningTracked, DownInv, GlobalInv, ProcInv
  <2>5. Rely(w)
    <3>1. life = w /\ pc' = [pc EXCEPT ![w] = "done"] /\ UNCHANGED <<box, locks, op, own, srv>>
      BY DEF DeleteRow, Goto, ProcInv, LockInv, Locked
    <3>2. pc'[w] = "done" BY <3>1 DEF TypeOK
    <3>3. Opens(w) BY <3>2 DEF Opens, DataLabels
    <3>4. QED BY <3>1, <3>3 DEF Rely, TypeOK, locks
  <2>6. OpInv(w)' /\ LockInv(w)' BY DEF Locked, Writing, OpInv, LockInv, TypeOK
  <2>7. CopyInv(w)' BY DEF CopyInv
  <2>8. DownInv(w)' BY DEF DownInv, TypeOK
  <2>. QED BY <2>3, <2>4, <2>5, <2>6, <2>7, <2>8 DEF Guarantee, ProcInv
<1>11. CASE InstallGet(w)
  <2>. USE <1>11 DEF Snapshot, InstallGet
  <2>1. RowKept BY DEF States, Events, RowKept, TypeOK
  <2>2. pc' \in [Procs -> Labels] BY DEF TypeOK, Labels
  <2>3. TypeOK' BY <2>1, <2>2 DEF Copies, Rows, RowKept, TypeOK
  <2>4. GlobalInv' /\ Rely(w) BY DEF RunningTracked, Rely, Opens, GlobalInv
  <2>5. OpInv(w)' /\ LockInv(w)' BY DEF Locked, Writing, ProcInv, OpInv, LockInv
  <2>6. CopyInv(w)' /\ DownInv(w)' BY DEF DownInv, CopyInv, TypeOK
  <2>. QED BY <2>3, <2>4, <2>5, <2>6 DEF Guarantee, ProcInv
<1>12. CASE InstallStage(w)
  <2>. USE <1>12 DEF InstallStage
  <2>1. RowKept BY DEF States, Events, RowKept, TypeOK
  <2>2. budget' \in Budgets BY SpendKept DEF FailsDetached, Fails, TypeOK
  <2>3. pc' \in [Procs -> Labels] BY DEF TypeOK, Labels
  <2>4. TypeOK' BY <2>1, <2>2, <2>3 DEF RowKept, TypeOK
  <2>5. GlobalInv' /\ Rely(w) BY DEF RunningTracked, Rely, Opens, GlobalInv, TypeOK
  <2>6. OpInv(w)' /\ LockInv(w)' BY DEF Locked, Writing, ProcInv, OpInv, LockInv, TypeOK
  <2>7. CopyInv(w)' /\ DownInv(w)' BY DEF DownInv, ProcInv, CopyInv, TypeOK
  <2>. QED BY <2>4, <2>5, <2>6, <2>7 DEF Guarantee, ProcInv
<1>13. CASE InstallClear(w)
  <2>. USE <1>13 DEF InstallClear
  <2>1. row' \in Rows /\ note' \in Events BY BoundsAssumption DEF Rows, Events, TypeOK
  <2>2. pc' \in [Procs -> Labels] BY DEF TypeOK, Labels
  <2>3. own' \in [Procs -> Copies]
    <3>1. CASE gone[w] BY <3>1 DEF InstallClear, TypeOK
    <3>2. CASE ~gone[w]
      <4>1. own' = [own EXCEPT ![w].cid = 0] BY <3>2 DEF InstallClear
      <4>2. "stopped" \in States BY DEF States
      <4>. QED BY <4>1, <4>2, NoCid DEF TypeOK, Copies
    <3>. QED BY <3>1, <3>2
  <2>4. TypeOK' BY <2>1, <2>2, <2>3 DEF TypeOK
  <2>5. GlobalInv' BY DEF RunningTracked, DownInv, GlobalInv, ProcInv
  <2>6. Rely(w) BY DEF Locked, Rely, Opens, TypeOK, ProcInv, LockInv
  <2>7. OpInv(w)' /\ LockInv(w)' BY DEF Locked, Writing, ProcInv, OpInv, LockInv, TypeOK
  <2>8. CopyInv(w)' BY DEF Copies, CopyInv, TypeOK
  <2>9. DownInv(w)' BY DEF DownInv, ProcInv
  <2>. QED BY <2>4, <2>5, <2>6, <2>7, <2>8, <2>9 DEF Guarantee, ProcInv
<1>14. CASE InstallCommit(w)
  <2>. USE <1>14 DEF InstallCommit
  <2>1. row' \in Rows /\ note' \in Events BY DEF Rows, States, Events, TypeOK
  <2>2. pc' \in [Procs -> Labels] BY DEF TypeOK, Labels
  <2>3. srv' \in [Procs -> Copies]
    <3>1. CASE gone[w] BY <3>1 DEF InstallCommit, TypeOK
    <3>2. CASE ~gone[w]
      <4>1. srv' = [srv EXCEPT ![w] = [own[w] EXCEPT !.state = "stopped"]] BY <3>2
          DEF InstallCommit
      <4>2. [own[w] EXCEPT !.state = "stopped"] \in Copies BY DEF TypeOK, Copies, States
      <4>. QED BY <4>1, <4>2 DEF TypeOK
    <3>. QED BY <3>1, <3>2
  <2>4. disk' \in Disks /\ UNCHANGED <<own, box, life, writer, readers, op, was, gone, task,
      ghosts, budget>> BY DEF Disks, TypeOK
  <2>5. TypeOK' BY <2>1, <2>2, <2>3, <2>4 DEF TypeOK
  <2>6. GlobalInv' BY DEF RunningTracked, Rows, GlobalInv, TypeOK
  <2>7. Rely(w) BY DEF Locked, Rely, Opens, TypeOK, ProcInv, LockInv
  <2>8. OpInv(w)' /\ LockInv(w)' BY DEF Locked, Writing, ProcInv, OpInv, LockInv, TypeOK
  <2>9. CopyInv(w)' BY DEF Copies, ProcInv, OpInv, CopyInv, TypeOK
  <2>10. DownInv(w)' BY DEF DownInv, ProcInv
  <2>. QED BY <2>5, <2>6, <2>7, <2>8, <2>9, <2>10 DEF Guarantee, ProcInv
<1>15. CASE LogsGet(w)
  <2>. USE <1>15 DEF Snapshot, LogsGet
  <2>1. RowKept BY DEF States, Events, RowKept, TypeOK
  <2>2. pc' \in [Procs -> Labels] BY DEF TypeOK, Labels
  <2>3. TypeOK' BY <2>1, <2>2 DEF Copies, Rows, RowKept, TypeOK
  <2>4. GlobalInv' /\ Rely(w) BY DEF RunningTracked, Rely, Opens, GlobalInv
  <2>5. OpInv(w)' /\ LockInv(w)' BY DEF Locked, Writing, ProcInv, OpInv, LockInv
  <2>6. CopyInv(w)' /\ DownInv(w)' BY DEF DownInv, CopyInv, TypeOK
  <2>. QED BY <2>3, <2>4, <2>5, <2>6 DEF Guarantee, ProcInv
<1>. QED BY <1>1, <1>2, <1>3, <1>4, <1>5, <1>6, <1>7, <1>8, <1>9, <1>10, <1>11, <1>12, <1>13,
    <1>14, <1>15 DEF RebuildStep

\* The steps of InstallModpack.
LEMMA ModpackStepKeeps ==
    ASSUME TypeOK, GlobalInv, NEW w \in Procs, ProcInv(w), ModpackStep(w)
    PROVE  Guarantee(w)
<1>. USE DEF StopOps, WorldOps, BootOps, LockOps, StopLabels, EnsureLabels, StartLabels,
    DataLabels, OtherLabels, Goto, Silent, locks, ghosts
<1>1. CASE ModpackFetch(w)
  <2>. USE <1>1 DEF ModpackFetch
  <2>1. RowKept BY DEF States, Events, RowKept, TypeOK
  <2>2. budget' \in Budgets BY SpendKept DEF FailsDetached, Fails, TypeOK
  <2>3. pc' \in [Procs -> Labels] BY DEF TypeOK, Labels
  <2>4. task' \in BOOLEAN BY DEF TypeOK
  <2>5. TypeOK' BY <2>1, <2>2, <2>3, <2>4 DEF RowKept, TypeOK
  <2>6. GlobalInv' BY DEF RunningTracked, GlobalInv
  <2>7. Rely(w) BY DEF Rely, Opens, TypeOK
  <2>8. OpInv(w)' /\ LockInv(w)' BY DEF Locked, Writing, ProcInv, OpInv, LockInv, TypeOK
  <2>9. CopyInv(w)' BY DEF ProcInv, CopyInv, TypeOK
  <2>10. DownInv(w)' BY DEF DownInv, TypeOK
  <2>. QED BY <2>5, <2>6, <2>7, <2>8, <2>9, <2>10 DEF Guarantee, ProcInv
<1>2. CASE ModpackMark(w)
  <2>. USE <1>2 DEF ModpackMark
  <2>1. RowKept BY SetStateKept DEF States, Events, RowKept, TypeOK
  <2>2. pc' \in [Procs -> Labels] BY DEF TypeOK, Labels
  <2>3. TypeOK' BY <2>1, <2>2 DEF RowKept, TypeOK
  <2>4. GlobalInv' /\ Rely(w) BY <2>1 DEF RunningTracked, RowKept, Rely, Opens, GlobalInv
  <2>5. OpInv(w)' /\ LockInv(w)' BY DEF Locked, Writing, ProcInv, OpInv, LockInv
  <2>6. CopyInv(w)' /\ DownInv(w)' BY DEF DownInv, ProcInv, CopyInv
  <2>. QED BY <2>3, <2>4, <2>5, <2>6 DEF Guarantee, ProcInv
<1>3. CASE ModpackGet(w)
  <2>. USE <1>3 DEF Snapshot, ModpackGet
  <2>1. RowKept BY DEF States, Events, RowKept, TypeOK
  <2>2. pc' \in [Procs -> Labels] BY DEF TypeOK, Labels
  <2>3. TypeOK' BY <2>1, <2>2 DEF Copies, Rows, RowKept, TypeOK
  <2>4. GlobalInv' /\ Rely(w) BY DEF RunningTracked, Rely, Opens, GlobalInv
  <2>5. OpInv(w)' /\ LockInv(w)' BY DEF Locked, Writing, ProcInv, OpInv, LockInv
  <2>6. CopyInv(w)' /\ DownInv(w)' BY DEF DownInv, ProcInv, CopyInv, TypeOK
  <2>. QED BY <2>3, <2>4, <2>5, <2>6 DEF Guarantee, ProcInv
<1>4. CASE ModpackPublish(w)
  <2>. USE <1>4 DEF ModpackPublish
  <2>1. RowKept BY DEF States, Events, RowKept, TypeOK
  <2>2. budget' \in Budgets BY SpendKept DEF FailsDetached, Fails, TypeOK
  <2>3. pc' \in [Procs -> Labels] BY DEF TypeOK, Labels
  <2>4. TypeOK' BY <2>1, <2>2, <2>3 DEF RowKept, TypeOK
  <2>5. GlobalInv' /\ Rely(w) BY DEF RunningTracked, Rely, Opens, GlobalInv, TypeOK
  <2>6. OpInv(w)' /\ LockInv(w)' BY DEF Locked, Writing, ProcInv, OpInv, LockInv, TypeOK
  <2>7. CopyInv(w)' /\ DownInv(w)' BY DEF DownInv, ProcInv, CopyInv, TypeOK
  <2>. QED BY <2>4, <2>5, <2>6, <2>7 DEF Guarantee, ProcInv
<1>5. CASE ModpackClear(w)
  <2>. USE <1>5 DEF ModpackClear
  <2>1. row' \in Rows /\ note' \in Events BY BoundsAssumption DEF Rows, Events, TypeOK
  <2>2. pc' \in [Procs -> Labels] BY DEF TypeOK, Labels
  <2>3. TypeOK' BY <2>1, <2>2 DEF TypeOK
  <2>4. GlobalInv' /\ Rely(w) BY DEF RunningTracked, DownInv, Locked, Rely, Opens, GlobalInv,
      ProcInv, LockInv
  <2>5. OpInv(w)' /\ LockInv(w)' BY DEF Locked, Writing, ProcInv, OpInv, LockInv
  <2>6. CopyInv(w)' /\ DownInv(w)' BY DEF DownInv, ProcInv, CopyInv
  <2>. QED BY <2>3, <2>4, <2>5, <2>6 DEF Guarantee, ProcInv
<1>6. CASE ModpackCommit(w)
  <2>. USE <1>6 DEF PackBins, ModpackCommit
  <2>1. RowKept BY DEF States, Events, RowKept, TypeOK
  <2>2. pc' \in [Procs -> Labels] BY DEF TypeOK, Labels
  <2>3. TypeOK' BY <2>1, <2>2 DEF Disks, RowKept, TypeOK
  <2>4. GlobalInv' /\ Rely(w) BY DEF RunningTracked, Rely, Opens, GlobalInv, TypeOK
  <2>5. OpInv(w)' /\ LockInv(w)' BY DEF Locked, Writing, ProcInv, OpInv, LockInv, TypeOK
  <2>6. CopyInv(w)' /\ DownInv(w)' BY DEF DownInv, ProcInv, CopyInv, TypeOK
  <2>. QED BY <2>3, <2>4, <2>5, <2>6 DEF Guarantee, ProcInv
<1>7. CASE ModpackFinish(w)
  <2>. USE <1>7 DEF ModpackFinish
  <2>1. RowKept BY SetStateKept DEF States, Events, RowKept, TypeOK
  <2>2. pc' \in [Procs -> Labels] BY DEF TypeOK, Labels
  <2>3. TypeOK' BY BoundsAssumption, <2>1, <2>2 DEF Disks, Events, AllOps, Copies, Rows, States,
      Boxes, Budgets, RowKept, TypeOK
  <2>4. GlobalInv' /\ Rely(w) BY <2>1 DEF RunningTracked, RowKept, Rely, Opens, GlobalInv
  <2>5. OpInv(w)' /\ LockInv(w)' BY DEF Locked, Writing, OpInv, LockInv, TypeOK
  <2>6. CopyInv(w)' /\ DownInv(w)' BY DEF DownInv, CopyInv
  <2>. QED BY <2>3, <2>4, <2>5, <2>6 DEF Guarantee, ProcInv
<1>8. CASE ModpackFail(w)
  <2>. USE <1>8 DEF ModpackFail
  <2>1. RowKept BY SetStateKept DEF States, TypeOK
  <2>2. pc' \in [Procs -> Labels] BY DEF TypeOK, Labels
  <2>3. TypeOK' BY BoundsAssumption, <2>1, <2>2 DEF Disks, Events, AllOps, Copies, Rows, States,
      Boxes, Budgets, RowKept, TypeOK
  <2>4. GlobalInv' /\ Rely(w) BY <2>1 DEF RunningTracked, RowKept, Rely, Opens, GlobalInv
  <2>5. OpInv(w)' /\ LockInv(w)' BY DEF Locked, Writing, OpInv, LockInv, TypeOK
  <2>6. CopyInv(w)' /\ DownInv(w)' BY DEF DownInv, CopyInv
  <2>. QED BY <2>3, <2>4, <2>5, <2>6 DEF Guarantee, ProcInv
<1>. QED BY <1>1, <1>2, <1>3, <1>4, <1>5, <1>6, <1>7, <1>8 DEF ModpackStep

\* The steps of Install, of a backup or a restore, and of a world edit.
LEMMA DataStepKeeps ==
    ASSUME TypeOK, GlobalInv, NEW w \in Procs, ProcInv(w), DataStep(w)
    PROVE  Guarantee(w)
<1>. USE DEF StopOps, WorldOps, BootOps, LockOps, StopLabels, EnsureLabels, StartLabels,
    DataLabels, OtherLabels, Goto, Silent, locks, ghosts
<1>1. CASE DataGet(w)
  <2>. USE <1>1 DEF Online, DataGet
  <2>1. RowKept BY DEF States, Events, RowKept, TypeOK
  <2>2. pc' \in [Procs -> Labels] BY DEF TypeOK, Labels
  <2>3. TypeOK' BY <2>1, <2>2 DEF RowKept, TypeOK
  <2>4. GlobalInv' /\ Rely(w) BY DEF RunningTracked, Rely, Opens, GlobalInv
  <2>5. OpInv(w)' /\ LockInv(w)' BY DEF Locked, Writing, ProcInv, OpInv, LockInv
  <2>6. CopyInv(w)' /\ DownInv(w)' BY DEF DownInv, ProcInv, OpInv, CopyInv
  <2>. QED BY <2>3, <2>4, <2>5, <2>6 DEF Guarantee, ProcInv
<1>2. CASE DataCheck(w)
  <2>. USE <1>2 DEF Offline, Present, Up, DataStopped, DataCheck
  <2>1. RowKept BY DEF States, Events, RowKept, TypeOK
  <2>2. budget' \in Budgets BY SpendKept DEF FailsDetached, Fails, TypeOK
  <2>3. pc' \in [Procs -> Labels] BY DEF TypeOK, Labels
  <2>4. TypeOK' BY <2>1, <2>2, <2>3 DEF RowKept, TypeOK
  <2>5. GlobalInv' /\ Rely(w) BY DEF RunningTracked, Rely, Opens, GlobalInv, TypeOK
  <2>6. OpInv(w)' /\ LockInv(w)' BY DEF Locked, Writing, ProcInv, OpInv, LockInv, TypeOK
  <2>7. CopyInv(w)' /\ DownInv(w)' BY DEF DownInv, ProcInv, CopyInv, TypeOK
  <2>. QED BY <2>4, <2>5, <2>6, <2>7 DEF Guarantee, ProcInv
<1>3. CASE DataDone(w)
  <2>. USE <1>3 DEF DataDone
  <2>1. RowKept BY DEF States, Events, RowKept, TypeOK
  <2>2. pc' \in [Procs -> Labels] BY DEF TypeOK, Labels
  <2>3. TypeOK' BY <2>1, <2>2 DEF RowKept, TypeOK
  <2>4. GlobalInv' /\ Rely(w) BY DEF RunningTracked, Writing, Rely, Opens, GlobalInv, TypeOK,
      ProcInv, LockInv
  <2>5. OpInv(w)' /\ LockInv(w)' BY DEF Locked, Writing, ProcInv, OpInv, LockInv, TypeOK
  <2>6. CopyInv(w)' /\ DownInv(w)' BY DEF DownInv, CopyInv, TypeOK
  <2>. QED BY <2>3, <2>4, <2>5, <2>6 DEF Guarantee, ProcInv
<1>4. CASE EditCheck(w)
  <2>. USE <1>4 DEF Offline, Present, Up, DataStopped, EditCheck
  <2>1. RowKept BY DEF States, Events, RowKept, TypeOK
  <2>2. budget' \in Budgets BY SpendKept DEF FailsDetached, Fails, TypeOK
  <2>3. pc' \in [Procs -> Labels] BY DEF TypeOK, Labels
  <2>4. TypeOK' BY <2>1, <2>2, <2>3 DEF RowKept, TypeOK
  <2>5. GlobalInv' /\ Rely(w) BY DEF RunningTracked, Rely, Opens, GlobalInv, TypeOK
  <2>6. OpInv(w)' /\ LockInv(w)' BY DEF Locked, Writing, ProcInv, OpInv, LockInv, TypeOK
  <2>7. CopyInv(w)' /\ DownInv(w)' BY DEF RunningTracked, DownInv, GlobalInv, CopyInv, TypeOK
  <2>. QED BY <2>4, <2>5, <2>6, <2>7 DEF Guarantee, ProcInv
<1>5. CASE FilesDone(w)
  <2>. USE <1>5 DEF FilesDone
  <2>1. RowKept BY DEF States, Events, RowKept, TypeOK
  <2>2. pc' \in [Procs -> Labels] BY DEF TypeOK, Labels
  <2>3. TypeOK' BY <2>1, <2>2 DEF RowKept, TypeOK
  <2>4. GlobalInv' /\ Rely(w) BY DEF RunningTracked, Rely, Opens, GlobalInv
  <2>5. OpInv(w)' /\ LockInv(w)' BY DEF Locked, Writing, ProcInv, OpInv, LockInv
  <2>6. CopyInv(w)' /\ DownInv(w)' BY DEF DownInv, CopyInv, TypeOK
  <2>. QED BY <2>3, <2>4, <2>5, <2>6 DEF Guarantee, ProcInv
<1>. QED BY <1>1, <1>2, <1>3, <1>4, <1>5 DEF DataStep

\* The steps of the monitor's Status call.
LEMMA StatusStepKeeps ==
    ASSUME TypeOK, GlobalInv, ProcInv(Monitor), StatusStep
    PROVE  Guarantee(Monitor)
<1>0. Monitor \in Procs BY DEF Procs
<1>. USE <1>0 DEF StopOps, WorldOps, BootOps, LockOps, StopLabels, EnsureLabels, StartLabels,
    DataLabels, OtherLabels, Goto, Silent, locks, ghosts
<1>1. CASE StatusGet
  <2>. USE <1>1 DEF Snapshot, StatusGet
  <2>1. RowKept BY DEF States, Events, RowKept, TypeOK
  <2>2. pc' \in [Procs -> Labels] BY DEF TypeOK, Labels
  <2>3. own' \in [Procs -> Copies] BY DEF Copies, Rows, TypeOK
  <2>4. TypeOK' BY <2>1, <2>2, <2>3 DEF RowKept, TypeOK
  <2>5. GlobalInv' BY DEF RunningTracked, GlobalInv
  <2>6. Rely(Monitor)
    <3>1. Opens(Monitor) BY DEF Opens, DataLabels, StatusGet, Goto, TypeOK
    <3>. QED BY <2>1, <3>1, ProcsAssumption DEF Rely, StatusGet, TypeOK, locks, Goto, RowKept
  <2>7. OpInv(Monitor)' /\ LockInv(Monitor)' BY DEF Writing, OpInv, LockInv
  <2>8. CopyInv(Monitor)' BY DEF CopyInv, TypeOK
  <2>9. DownInv(Monitor)' BY DEF DownInv
  <2>. QED BY <2>4, <2>5, <2>6, <2>7, <2>8, <2>9 DEF Guarantee, ProcInv
<1>2. CASE StatusInspect
  <2>. USE <1>2 DEF Online, Present, StatusInspect
  <2>1. RowKept BY DEF States, Events, RowKept, TypeOK
  <2>2. budget' \in Budgets BY SpendKept DEF FailsDetached, TypeOK
  <2>3. pc' \in [Procs -> Labels] BY DEF TypeOK, Labels
  <2>4. srv' \in [Procs -> Copies]
    <3>1. Observed(own[Monitor].state, box.st, box.exit) \in States
       BY DEF Observed, MapDockerState, TypeOK, Copies, States, Boxes
    <3>2. \/ srv' = [srv EXCEPT ![Monitor].state = Observed(own[Monitor].state, box.st, box.exit)]
          \/ srv' = srv
      BY DEF StatusInspect
    <3>. QED BY <3>1, <3>2, CopiesState DEF TypeOK
  <2>5. was' \in [Procs -> BOOLEAN] BY DEF MapDockerState, Observed, TypeOK
  <2>6. TypeOK' BY <2>1, <2>2, <2>3, <2>4, <2>5 DEF RowKept, TypeOK
  <2>7. GlobalInv' BY DEF RunningTracked, GlobalInv
  <2>8. Rely(Monitor) BY DEF Rely, Opens, TypeOK
  <2>9. OpInv(Monitor)' /\ LockInv(Monitor)' BY DEF Locked, Writing, ProcInv, OpInv, LockInv,
      TypeOK
  <2>10. CopyInv(Monitor)' BY DEF CopyInv, TypeOK
  <2>11. DownInv(Monitor)' BY DEF DownInv, TypeOK
  <2>. QED BY <2>6, <2>7, <2>8, <2>9, <2>10, <2>11 DEF Guarantee, ProcInv
<1>3. CASE StatusApply
  <2>. USE <1>3 DEF ObserveState, StatusApply
  <2>1. RowKept /\ alerted' \in BOOLEAN
    <3>1. srv[Monitor].state \in States BY DEF TypeOK, Copies
    <3>2. PICK k \in {"crashed", "none"} : ObserveState(own[Monitor].state, srv[Monitor].state, k)
        BY DEF StatusApply
    <3>3. (srv[Monitor].state = "running") \in BOOLEAN OBVIOUS
    <3>4. RowKept 
      <4>1. NoteFor(row.state, srv[Monitor].state, k) \in Events BY DEF NoteFor, Events
      <4>2. row' \in Rows /\ row'.cid = row.cid /\ row'.here = row.here  BY <3>1, <3>2, <3>3
          DEF ObserveState, TypeOK, Rows
      <4>. QED BY <3>2, <4>1, <4>2 DEF ObserveState, RowKept, Events
    <3>5. alerted' \in BOOLEAN
      <4>1. (note' = "crashed") \in BOOLEAN OBVIOUS
      <4>. QED BY <4>1 DEF StatusApply, TypeOK
    <3>. QED BY <3>4, <3>5
  <2>2. pc' \in [Procs -> Labels] BY DEF TypeOK, Labels
  <2>3. alerted' \in BOOLEAN OBVIOUS
  <2>4. TypeOK' BY <2>2, <2>1 DEF TypeOK, RowKept
  <2>5. GlobalInv' BY <2>1 DEF RunningTracked, GlobalInv, RowKept
  <2>6. Rely(Monitor) BY DEF Locked, Rely, Opens, ProcInv, LockInv
  <2>7. OpInv(Monitor)' /\ LockInv(Monitor)' BY DEF Locked, Writing, OpInv, LockInv, TypeOK
  <2>8. CopyInv(Monitor)' BY DEF CopyInv
  <2>9. DownInv(Monitor)' BY DEF DownInv
  <2>. QED BY <2>4, <2>5, <2>6, <2>7, <2>8, <2>9 DEF Guarantee, ProcInv
<1>4. CASE StatusSince
  <2>. USE <1>4 DEF StatusSince
  <2>1. RowKept BY SetStateKept DEF States, TypeOK
  <2>2. pc' \in [Procs -> Labels] BY DEF TypeOK, Labels
  <2>3. TypeOK' BY <2>1, <2>2 DEF RowKept, TypeOK
  <2>4. GlobalInv' /\ Rely(Monitor) BY <2>1 DEF RunningTracked, RowKept, Rely, Opens, GlobalInv
  <2>5. OpInv(Monitor)' /\ LockInv(Monitor)' BY DEF Locked, Writing, OpInv, LockInv, TypeOK
  <2>6. CopyInv(Monitor)' /\ DownInv(Monitor)' BY DEF DownInv, CopyInv
  <2>. QED BY <2>3, <2>4, <2>5, <2>6 DEF Guarantee, ProcInv
<1>. QED BY <1>1, <1>2, <1>3, <1>4 DEF StatusStep

-----------------------------------------------------------------------------
(* The invariant, and what follows from it.                                  *)

\* What a step of w relies on leaves the invariant of every other goroutine
\* intact: either the row keeps its container and no container starts, or w holds
\* the lifecycle mutex and then no other goroutine is where that matters.
LEMMA OthersKeep ==
    ASSUME IInv, NEW w \in Procs, Rely(w), NEW v \in Procs, v # w
    PROVE  ProcInv(v)'
<1>1. OpInv(v)' BY DEF IInv, ProcInv, OpInv, Rely
<1>2. LockInv(v)' BY DEF IInv, ProcInv, LockInv, Rely
<1>3. CopyInv(v)'
  <2>1. CASE row'.cid = row.cid /\ row'.here = row.here /\ (box'.st = "running" => box.st = "running")
    BY <2>1 DEF IInv, ProcInv, CopyInv, Rely
  <2>2. CASE life = w
    <3>1. pc[v] \notin Locked BY <2>2 DEF IInv, ProcInv, LockInv
    <3>. QED BY <3>1 DEF IInv, ProcInv, CopyInv, Rely, Locked, StopLabels, EnsureLabels,
        StartLabels
  <2>. QED BY <2>1, <2>2 DEF Rely
<1>4. DownInv(v)'
  <2>1. CASE box'.st = "running" => box.st = "running"
    BY <2>1 DEF IInv, ProcInv, DownInv, Rely
  <2>2. CASE life = w /\ w \in readers
    <3>1. pc[v] \notin Locked BY <2>2 DEF IInv, ProcInv, LockInv
    <3>2. pc[v] # "e_files" BY <2>2, ProcsAssumption DEF IInv, GlobalInv, ProcInv, LockInv,
        Writing
    <3>. QED BY <3>1, <3>2 DEF IInv, ProcInv, DownInv, Rely, Locked, StopLabels, EnsureLabels,
        StartLabels
  <2>. QED BY <2>1, <2>2 DEF Rely
<1>. QED BY <1>1, <1>2, <1>3, <1>4 DEF ProcInv

\* A step that gives the guarantee preserves the whole invariant.
LEMMA GuaranteeSuffices ==
    ASSUME IInv, NEW w \in Procs, Guarantee(w)
    PROVE  IInv'
BY OthersKeep DEF Guarantee, IInv

\* A request that begins gives the guarantee.
LEMMA BeginKeeps ==
    ASSUME IInv, NEW w \in Workers, NEW o \in Ops, Begin(w, o)
    PROVE  Guarantee(w)
<1>1. w \in Procs BY DEF Procs
<1>2. RowKept BY DEF IInv, TypeOK, RowKept, Begin, Silent, Events
<1>3. budget' \in Budgets
  <2>1. budget.ops \in 0..MaxOps /\ budget.ops > 0 BY DEF Begin, IInv, TypeOK, Budgets
  <2>2. budget.ops - 1 \in 0..MaxOps BY <2>1, BoundsAssumption
  <2>. QED BY <2>2 DEF Begin, IInv, TypeOK, Budgets
<1>4. TypeOK'
  <2>1. o \in AllOps BY OpsAssumption
  <2>2. Entry(o) \in Labels BY <2>1 DEF Entry, Labels, OtherLabels
  <2>. QED BY <1>1, <1>2, <1>3, <2>1, <2>2 DEF Begin, Goto, IInv, TypeOK, RowKept, locks, ghosts
<1>5. GlobalInv' BY <1>2 DEF IInv, GlobalInv, RunningTracked, RowKept, Begin, locks
<1>6. Rely(w)
  <2>1. pc'[w] \in {"k_try", "c_get", "e_world", "n_fetch", "lock"}
    BY <1>1 DEF Begin, Goto, Entry, IInv, TypeOK
  <2>2. Opens(w) BY <2>1 DEF Opens, DataLabels
  <2>. QED BY <1>1, <1>2, <2>2 DEF Rely, RowKept, Begin, Goto, IInv, TypeOK, locks
<1>7. ProcInv(w)'
  <2>1. o \in AllOps BY OpsAssumption
  <2>2. pc'[w] = Entry(o) /\ op'[w] = o /\ srv'[w] = srv[w] /\ pc[w] = "idle"
    BY <1>1 DEF Begin, Goto, IInv, TypeOK
  <2>3. srv[w].cid = 0 BY <1>1, <2>2 DEF IInv, ProcInv, CopyInv
  <2>4. OpInv(w)'
    BY <2>1, <2>2 DEF OpInv, AllOps, Entry, LockOps, StopOps, WorldOps, StopLabels, EnsureLabels,
        StartLabels
  <2>5. LockInv(w)'
    BY <2>2 DEF LockInv, Entry, Locked, Writing, StopLabels, EnsureLabels, StartLabels
  <2>6. CopyInv(w)'
    BY <2>2, <2>3 DEF CopyInv, Entry, StopLabels, EnsureLabels
  <2>7. DownInv(w)' BY <2>2 DEF DownInv, Entry
  <2>. QED BY <2>4, <2>5, <2>6, <2>7 DEF ProcInv
<1>. QED BY <1>4, <1>5, <1>6, <1>7 DEF Guarantee

\* So does a client that closes its connection.
LEMMA DisconnectKeeps ==
    ASSUME IInv, NEW w \in Procs, Disconnect(w)
    PROVE  Guarantee(w)
<1>1. RowKept BY DEF IInv, TypeOK, RowKept, Disconnect, Silent, Events
<1>2. budget' \in Budgets BY SpendKept DEF Disconnect, IInv, TypeOK
<1>3. TypeOK' BY <1>1, <1>2 DEF Disconnect, IInv, TypeOK, RowKept, locks, ghosts
<1>4. GlobalInv' BY <1>1 DEF IInv, GlobalInv, RunningTracked, RowKept, Disconnect, locks
<1>5. Rely(w) BY <1>1 DEF Rely, Opens, RowKept, Disconnect, IInv, locks
<1>6. ProcInv(w)'
  BY <1>1 DEF IInv, ProcInv, OpInv, LockInv, CopyInv, DownInv, RowKept, Disconnect, locks
<1>. QED BY <1>3, <1>4, <1>5, <1>6 DEF Guarantee

\* What happens outside the panel (a container ends, an installer finishes, a
\* container disappears) preserves the invariant and starts no container.
LEMMA EnvironmentKeeps ==
    ASSUME IInv, ContainerExit \/ InstallerStep \/ ContainerLost
    PROVE  IInv' /\ (box'.st = "running" => box.st = "running") /\ UNCHANGED <<pc, locks>>
<1>1. RowKept
  BY DEF IInv, TypeOK, RowKept, ContainerExit, InstallerStep, ContainerLost, Silent, Events
<1>2. BoxLowered
  <2>1. CASE ContainerExit BY <2>1 DEF ContainerExit, Halted, BoxLowered, IInv, TypeOK, Boxes,
      ghosts
  <2>2. CASE InstallerStep BY <2>2 DEF InstallerStep, BoxLowered, IInv, TypeOK, ghosts
  <2>3. CASE ContainerLost BY <2>3, DockerRemovedKept DEF ContainerLost, IInv
  <2>. QED BY <2>1, <2>2, <2>3
<1>3. budget' \in Budgets
  BY SpendKept DEF ContainerExit, InstallerStep, ContainerLost, IInv, TypeOK
<1>4. disk' \in Disks
  <2>1. disk \in Disks /\ disk.mark \in BOOLEAN BY DEF IInv, TypeOK, Disks
  <2>2. CASE ContainerExit
    <3>1. PICK m \in BOOLEAN : disk' = [disk EXCEPT !.mark = m] BY <2>1, <2>2 DEF ContainerExit
    <3>. QED BY <2>1, <3>1 DEF Disks
  <2>3. CASE InstallerStep BY <2>1, <2>3 DEF InstallerStep, Disks
  <2>4. CASE ContainerLost BY <2>1, <2>4 DEF ContainerLost
  <2>. QED BY <2>2, <2>3, <2>4
<1>5. UNCHANGED <<locks, locals, task, alerted>>
  BY DEF ContainerExit, InstallerStep, ContainerLost, ghosts
<1>6. TypeOK' BY <1>1, <1>2, <1>3, <1>4, <1>5 DEF IInv, TypeOK, RowKept, BoxLowered, locks, locals
<1>7. GlobalInv' BY <1>1, <1>2, <1>5 DEF IInv, GlobalInv, RunningTracked, RowKept, BoxLowered,
    locks
<1>8. ASSUME NEW v \in Procs PROVE ProcInv(v)'
  BY <1>1, <1>2, <1>5 DEF IInv, ProcInv, OpInv, LockInv, CopyInv, DownInv, RowKept, BoxLowered,
      locks, locals
<1>. QED BY <1>2, <1>5, <1>6, <1>7, <1>8 DEF IInv, BoxLowered, locals

\* The end of the panel preserves the invariant: no goroutine survives it.
LEMMA PanelCrashKeeps ==
    ASSUME IInv, PanelCrash
    PROVE  IInv' /\ box' = box /\ \A v \in Procs : pc'[v] = "idle"
<1>1. RowKept BY DEF IInv, TypeOK, RowKept, PanelCrash, Silent, Events
<1>2. budget' \in Budgets
  <2>1. budget.crashes \in 0..MaxCrashes /\ budget.crashes > 0 BY DEF PanelCrash, IInv, TypeOK,
      Budgets
  <2>2. budget.crashes - 1 \in 0..MaxCrashes BY <2>1, BoundsAssumption
  <2>. QED BY <2>2 DEF PanelCrash, IInv, TypeOK, Budgets
<1>3. Blank \in Copies BY NoCid DEF Blank, Copies, States
<1>4. disk' \in Disks BY DEF PanelCrash, IInv, TypeOK, Disks
<1>5. pc' \in [Procs -> Labels] BY DEF PanelCrash, Labels, OtherLabels
<1>6. TypeOK'
  BY <1>1, <1>2, <1>3, <1>4, <1>5 DEF PanelCrash, IInv, TypeOK, RowKept, ghosts
<1>7. GlobalInv' BY <1>1 DEF PanelCrash, IInv, GlobalInv, RunningTracked, RowKept
<1>8. ASSUME NEW v \in Procs PROVE ProcInv(v)'
  <2>1. pc'[v] = "idle" /\ srv'[v].cid = 0 BY DEF PanelCrash, Blank
  <2>. QED BY <2>1 DEF ProcInv, OpInv, LockInv, CopyInv, DownInv, Locked, Writing, StopLabels,
      EnsureLabels, StartLabels
<1>. QED BY <1>6, <1>7, <1>8 DEF PanelCrash, IInv

\* The invariant holds of a new server, of one that was stopped before and of one
\* that runs.
LEMMA InitEstablishes == Init => IInv
<1> SUFFICES ASSUME Init PROVE IInv OBVIOUS
<1>1. /\ row \in Rows /\ box \in Boxes /\ disk \in Disks /\ budget \in Budgets
      /\ box.st = "running" => row.here /\ row.cid = box.id /\ box.id # 0
  <2>1. CASE InitFresh
    <3>1. box \in Boxes /\ box.st # "running" BY <2>1, NoCid DEF InitFresh, Boxes, NoBox
    <3>2. row \in Rows BY <2>1, NoCid DEF InitFresh, Rows, States
    <3>3. disk \in Disks BY <2>1 DEF InitFresh, Disks
    <3>4. budget \in Budgets BY <2>1, BoundsAssumption DEF InitFresh, Budgets
    <3>. QED BY <3>1, <3>2, <3>3, <3>4
  <2>2. CASE InitKept
    <3>1. 1 \in 0..MaxCid /\ MaxCid - 1 \in 0..MaxCid BY <2>2, BoundsAssumption DEF InitKept
    <3>. QED BY <2>2, <3>1, BoundsAssumption DEF InitKept, Rows, Boxes, Disks, States, Budgets
  <2>3. CASE InitRunning
    <3>1. 1 \in 0..MaxCid /\ MaxCid - 1 \in 0..MaxCid BY <2>3, BoundsAssumption DEF InitRunning
    <3>. QED BY <2>3, <3>1, BoundsAssumption DEF InitRunning, Rows, Boxes, Disks, States, Budgets
  <2>. QED BY <2>1, <2>2, <2>3 DEF Init
<1>3. \A w \in Procs : pc[w] \in {"idle", "lock"} /\ op[w] \in {"none", "provision"}
                       /\ (pc[w] = "lock" => op[w] = "provision")
  BY DEF Init, InitFresh, InitKept, InitRunning
<1>4. pc \in [Procs -> Labels]
  BY DEF Init, InitFresh, InitKept, InitRunning, Labels, OtherLabels
<1>5. Blank \in Copies BY NoCid DEF Blank, Copies, States
<1>6. TypeOK
  BY <1>1, <1>4, <1>5 DEF Init, TypeOK, Events
<1>7. GlobalInv BY <1>1 DEF Init, GlobalInv, RunningTracked
<1>8. ASSUME NEW w \in Procs PROVE ProcInv(w)
  <2>1. srv[w].cid = 0 BY DEF Init, Blank
  <2>. QED BY <2>1, <1>3 DEF ProcInv, OpInv, LockInv, CopyInv, DownInv, LockOps, Locked, Writing,
      StopLabels, EnsureLabels, StartLabels
<1>. QED BY <1>6, <1>7, <1>8 DEF IInv

\* Every step of an operation gives the guarantee.
LEMMA StepGuarantees ==
    ASSUME IInv, NEW w \in Procs, Step(w)
    PROVE  Guarantee(w)
<1>1. TypeOK /\ GlobalInv /\ ProcInv(w) BY DEF IInv
<1>. QED BY <1>1, LockStepKeeps, StopStepKeeps, StartStepKeeps, KillStepKeeps, ConsoleStepKeeps,
            RebuildStepKeeps, ModpackStepKeeps, DataStepKeeps DEF Step

\* So does every step of the monitor's Status call.
LEMMA StatusGuarantees ==
    ASSUME IInv, StatusStep
    PROVE  Guarantee(Monitor)
<1>1. Monitor \in Procs BY DEF Procs
<1>. QED BY <1>1, StatusStepKeeps DEF IInv

\* A step that changes nothing preserves the invariant.
LEMMA StutterKeeps ==
    ASSUME IInv, UNCHANGED vars
    PROVE  IInv'
BY DEF vars, locks, locals, ghosts, IInv, TypeOK, GlobalInv, RunningTracked, ProcInv, OpInv,
    LockInv, CopyInv, DownInv

\* Every step preserves the invariant.
LEMMA NextKeeps == IInv /\ [Next]_vars => IInv'
<1> SUFFICES ASSUME IInv, [Next]_vars PROVE IInv' OBVIOUS
<1>1. ASSUME NEW w \in Workers, NEW o \in Ops, Begin(w, o) PROVE IInv'
  BY <1>1, BeginKeeps, GuaranteeSuffices DEF Procs
<1>2. ASSUME NEW w \in Procs, Step(w) PROVE IInv'
  BY <1>2, StepGuarantees, GuaranteeSuffices
<1>3. ASSUME NEW w \in Procs, Disconnect(w) PROVE IInv'
  BY <1>3, DisconnectKeeps, GuaranteeSuffices
<1>4. CASE StatusStep BY <1>4, StatusGuarantees, GuaranteeSuffices DEF Procs
<1>5. CASE Environment BY <1>5, EnvironmentKeeps, PanelCrashKeeps DEF Environment
<1>6. CASE UNCHANGED vars BY <1>6, StutterKeeps
<1>. QED BY <1>1, <1>2, <1>3, <1>4, <1>5, <1>6 DEF Next

\* The invariant holds in every state: of any number of goroutines, operations,
\* containers, failed calls, disconnected clients and panel crashes.
THEOREM Invariance == Spec => []IInv
<1>1. Init => IInv BY InitEstablishes
<1>2. IInv /\ [Next]_vars => IInv' BY NextKeeps
<1>. QED BY <1>1, <1>2, PTL DEF Spec

\* Every variable keeps its type.
THEOREM TypeCorrect == Spec => []TypeOK
<1>1. IInv => TypeOK BY DEF IInv
<1>. QED BY <1>1, Invariance, PTL

\* A container that runs is the one recorded in the server's row
\* (ensureContainerLocked records it before startLocked boots it).
THEOREM RunningIsTracked == Spec => []RunningTracked
<1>1. IInv => RunningTracked BY DEF IInv, GlobalInv
<1>. QED BY <1>1, Invariance, PTL

\* Under the invariant files are used by one goroutine and with the server down.
LEMMA IInvQuiescent == IInv => DataQuiescent
<1> SUFFICES ASSUME IInv, NEW w \in Procs, pc[w] \in DataLabels
             PROVE  box.st # "running" /\ \A v \in Procs : pc[v] \in DataLabels => v = w
    BY DEF DataQuiescent
<1>1. \A v \in Procs : pc[v] \in DataLabels => writer = v
  BY DEF IInv, ProcInv, LockInv, DataLabels, Writing
<1>2. box.st # "running" BY DEF IInv, ProcInv, DownInv, DataLabels
<1>. QED BY <1>1, <1>2

\* The files of a server are read for a backup, restored, installed or edited by
\* one operation at a time and never under a running server (WithStoppedData, the
\* locks of Install, InstallModpack and WriteNBT).
THEOREM DataIsQuiescent == Spec => []DataQuiescent
BY Invariance, IInvQuiescent, PTL

\* The same of the next state.
LEMMA QuiescentNext == IInv' => DataQuiescent'
BY IInvQuiescent, PTL

\* Initial states map to initial states of DataGuard.
LEMMA InitGuarded == Init => Guard!Init
<1> SUFFICES ASSUME Init PROVE Guard!Init OBVIOUS
<1>1. (box.st = "running") \in BOOLEAN OBVIOUS
<1>2. \A w \in Procs : pc[w] \in {"idle", "lock"} BY DEF Init, InitFresh, InitKept, InitRunning
<1>. QED BY <1>1, <1>2 DEF Guard!Init, DataLabels

\* A guaranteed step of w opens or closes its own use of the files, boots or
\* halts the server while nobody uses them, or is a stutter of DataGuard.
LEMMA GuaranteeGuarded ==
    ASSUME IInv, NEW w \in Procs, Guarantee(w)
    PROVE  [Guard!Next]_(Guard!gvars)
<1> DEFINE up == box.st = "running"
           using == {v \in Procs : pc[v] \in DataLabels}
<1>1. DataQuiescent /\ DataQuiescent' BY GuaranteeSuffices, IInvQuiescent, QuiescentNext
<1>2. ASSUME NEW v \in Procs, v # w PROVE v \in using <=> v \in using'
  BY <1>2 DEF Guarantee, Rely
<1>3. CASE using = {} /\ using' = {}
  <2>. QED BY <1>3 DEF Guard!Next, Guard!gvars, Guard!Boot, Guard!Halt
<1>4. CASE using = {} /\ using' # {}
  <2>1. using' = {w} BY <1>2, <1>4
  <2>2. pc'[w] \in DataLabels BY <2>1
  <2>3. ~up' BY <1>1, <2>2 DEF DataQuiescent
  <2>4. ~up BY <2>2, <2>3 DEF Guarantee, Rely, Opens
  <2>. QED BY <1>4, <2>1, <2>3, <2>4 DEF Guard!Next, Guard!Open
<1>5. CASE using # {}
  <2>1. PICK u \in Procs : pc[u] \in DataLabels BY <1>5
  <2>2. using = {u} /\ ~up BY <1>1, <2>1 DEF DataQuiescent
  <2>3. ~up'
    <3>1. writer = u BY <2>1 DEF IInv, ProcInv, LockInv, DataLabels, Writing
    <3>2. readers = {} BY <3>1, ProcsAssumption DEF IInv, GlobalInv
    <3>. QED BY <2>2, <3>2 DEF Guarantee, Rely
  <2>4. CASE using' = {} BY <1>5, <2>2, <2>3, <2>4 DEF Guard!Next, Guard!Close
  <2>5. CASE using' # {}
    <3>1. using' = {u}
      <4>1. CASE w = u BY <1>2, <2>2, <2>5, <4>1
      <4>2. CASE w # u
        <5>1. pc'[u] \in DataLabels BY <1>2, <2>1, <4>2
        <5>. QED BY <1>1, <5>1 DEF DataQuiescent
      <4>. QED BY <4>1, <4>2
    <3>. QED BY <2>2, <2>3, <3>1 DEF Guard!gvars
  <2>. QED BY <2>4, <2>5
<1>. QED BY <1>3, <1>4, <1>5

\* What happens outside the panel is a step or a stutter of DataGuard.
LEMMA EnvironmentGuarded ==
    ASSUME IInv, Environment \/ UNCHANGED vars
    PROVE  [Guard!Next]_(Guard!gvars)
<1> DEFINE up == box.st = "running"
           using == {v \in Procs : pc[v] \in DataLabels}
<1>1. CASE UNCHANGED vars BY <1>1 DEF vars, locals, Guard!gvars
<1>2. CASE PanelCrash
  <2>1. using' = {} /\ up' = up BY <1>2, PanelCrashKeeps DEF DataLabels
  <2>. QED BY <2>1 DEF Guard!Next, Guard!Close, Guard!gvars
<1>3. CASE ContainerExit \/ InstallerStep \/ ContainerLost
  <2>1. using' = using /\ (up' => up) BY <1>3, EnvironmentKeeps
  <2>. QED BY <2>1 DEF Guard!Next, Guard!Halt, Guard!gvars
<1>. QED BY <1>1, <1>2, <1>3 DEF Environment

\* Every step maps to a step or a stutter of DataGuard.
LEMMA NextGuarded == IInv /\ [Next]_vars => [Guard!Next]_(Guard!gvars)
<1> SUFFICES ASSUME IInv, [Next]_vars PROVE [Guard!Next]_(Guard!gvars) OBVIOUS
<1>1. ASSUME NEW w \in Procs, Guarantee(w) PROVE [Guard!Next]_(Guard!gvars)
  BY <1>1, GuaranteeGuarded
<1>2. ASSUME NEW w \in Workers, NEW o \in Ops, Begin(w, o) PROVE Guarantee(w)
  BY <1>2, BeginKeeps
<1>3. ASSUME NEW w \in Procs, Step(w) \/ Disconnect(w) PROVE Guarantee(w)
  BY <1>3, StepGuarantees, DisconnectKeeps
<1>4. CASE StatusStep BY <1>1, <1>4, StatusGuarantees DEF Procs
<1>5. CASE Environment \/ UNCHANGED vars BY <1>5, EnvironmentGuarded
<1>. QED BY <1>1, <1>2, <1>3, <1>4, <1>5 DEF Next, Procs

\* The operations of the server package implement DataGuard, the abstract lock
\* between using the files of a server and running it.
THEOREM ImplementsGuard == Spec => GuardSpec
<1>1. Init => Guard!Init BY InitGuarded
<1>2. IInv /\ [Next]_vars => [Guard!Next]_(Guard!gvars) BY NextGuarded
<1>. QED BY <1>1, <1>2, Invariance, PTL DEF Spec, GuardSpec, Guard!Spec
=============================================================================
