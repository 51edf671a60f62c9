---------------------- MODULE ServerLifecycleTracking ----------------------
(***************************************************************************)
(* What the row of a server can be trusted for: a row that says stopped    *)
(* has no running container where nobody kills, and a container is always  *)
(* the one of the row where no server is deleted and no client leaves.     *)
(* And what Status can be trusted for: it never replaces a stop that was   *)
(* requested after it looked, where no update meets a force stop, and its  *)
(* crash alerts are true where every end of the server takes the mutex.    *)
(***************************************************************************)
EXTENDS ServerLifecycleProofs

-----------------------------------------------------------------------------
(* A row that says stopped.                                                    *)

\* A step of w that writes no "stopped", starts no container, and does not get
\* to where one of them is about to happen.
Plain(w) ==
    /\ pc'[w] \notin KillLabels \cup SettledLabels \cup {"s_boot", "u_write", "t_apply"}
    /\ op'[w] # "kill"
    /\ row'.here = row.here
    /\ row'.state = "stopped" => row.state = "stopped"
    /\ box'.st = "running" => box.st = "running"

\* What a step of w owes to StoppedMeansDown: only the holder of the mutex writes
\* "stopped", and it is true when it does.
Truthful(w) ==
    /\ row'.state = "stopped" => row.state = "stopped" \/ life = w
    /\ StoppedMeansDown'
    /\ BelievedInv(w)'

\* A plain step owes nothing more.
LEMMA PlainIsTruthful ==
    ASSUME BelievedAll, NEW w \in Procs, Plain(w)
    PROVE  Truthful(w)
BY DEF Plain, Truthful, BelievedAll, BelievedInv, StoppedMeansDown

\* A truthful step leaves what the other goroutines are about to write true.
LEMMA TruthfulSuffices ==
    ASSUME BelievedAll, NEW w \in Procs, Guarantee(w), Truthful(w)
    PROVE  BelievedAll'
<1>1. IInv' BY GuaranteeSuffices DEF BelievedAll
<1>2. ASSUME NEW v \in Procs, v # w PROVE BelievedInv(v)'
  <2>1. /\ pc'[v] = pc[v] /\ op'[v] = op[v] /\ own'[v] = own[v] /\ srv'[v] = srv[v]
    BY <1>2 DEF Guarantee, Rely
  <2>2. BelievedInv(v) BY DEF BelievedAll
  <2>3. CASE life = w
    <3>1. pc[v] \notin Locked BY <1>2, <2>3 DEF BelievedAll, IInv, ProcInv, LockInv
    <3>. QED BY <2>1, <2>2, <3>1 DEF BelievedInv, Locked, EnsureLabels, StartLabels, SettledLabels
  <2>4. CASE life # w
    <3>1. box'.st = "running" => box.st = "running" BY <2>4 DEF Guarantee, Rely
    <3>2. row'.state = "stopped" => row.state = "stopped" BY <2>4 DEF Truthful
    <3>. QED BY <2>1, <2>2, <3>1, <3>2 DEF BelievedInv
  <2>. QED BY <2>3, <2>4
<1>. QED BY <1>1, <1>2 DEF BelievedAll, Truthful

\* setState with another state than stopped.
LEMMA SetStateOther ==
    ASSUME row \in Rows, NEW next \in States \ {"stopped"}, SetState(next)
    PROVE  /\ row'.here = row.here
           /\ row'.state = "stopped" => row.state = "stopped"
           /\ row.here => row'.state = next
BY DEF SetState, Rows

\* The steps of the locks.
LEMMA LockStepTruthful ==
    ASSUME BelievedAll, NEW w \in Procs, LockStep(w)
    PROVE  Plain(w)
<1>. USE DEF Goto, Silent, KillLabels, SettledLabels
<1>1. pc \in [Procs -> Labels] /\ OpInv(w) /\ BelievedInv(w) /\ op \in [Procs -> AllOps \union {"none", "provision"}]
  BY DEF BelievedAll, IInv, TypeOK, ProcInv
<1>2. CASE AcquireLifecycle(w)
  BY <1>1, <1>2 DEF AcquireLifecycle, AfterLock, Plain, OpInv, LockOps, StopOps, WorldOps, BelievedInv
<1>3. CASE AcquireWorld(w)
  BY <1>1, <1>3 DEF AcquireWorld, AfterWorld, Plain, OpInv, WorldOps, BelievedInv
<1>4. CASE AcquireWorldShared(w)
  BY <1>1, <1>4 DEF AcquireWorldShared, Plain, BelievedInv
<1>5. CASE Return(w)
  BY <1>1, <1>5 DEF Return, Plain, BelievedInv
<1>. QED BY <1>2, <1>3, <1>4, <1>5 DEF LockStep

\* The steps of stopLocked: only the last one says stopped.
LEMMA StopStepTruthful ==
    ASSUME BelievedAll, NEW w \in Procs, StopStep(w)
    PROVE  Truthful(w)
<1>. USE DEF Goto, Silent, KillLabels, SettledLabels
<1>1. /\ TypeOK /\ OpInv(w) /\ LockInv(w) /\ DownInv(w) /\ BelievedInv(w)
      /\ pc \in [Procs -> Labels] /\ row \in Rows
  BY DEF BelievedAll, IInv, TypeOK, ProcInv
<1>2. CASE StopGet(w)
  BY <1>1, <1>2, PlainIsTruthful DEF StopGet, AfterStop, Plain, OpInv, StopLabels, StopOps, WorldOps,
      BelievedInv
<1>3. CASE StopPeek(w)
  BY <1>1, <1>3, PlainIsTruthful DEF StopPeek, AfterStop, Plain, OpInv, StopLabels, StopOps, WorldOps,
      BelievedInv
<1>4. CASE StopMark(w)
  <2>1. "stopping" \in States \ {"stopped"} BY DEF States
  <2>. QED BY <1>1, <1>4, <2>1, SetStateOther, PlainIsTruthful DEF StopMark, Plain, BelievedInv
<1>5. CASE StopInspect(w) \/ StopSend(w) \/ StopWait(w)
  BY <1>1, <1>5, PlainIsTruthful DEF StopInspect, StopSend, StopWait, Plain, BelievedInv
<1>6. CASE StopHalt(w)
  <2>1. BoxLowered
    <3>1. CASE DockerStopped(srv[w].cid) BY <1>1, <3>1, DockerStoppedKept
    <3>2. CASE UNCHANGED <<box, asked>> BY <1>1, <3>2 DEF BoxLowered, TypeOK
    <3>. QED BY <1>6, <3>1, <3>2 DEF StopHalt
  <2>. QED BY <1>1, <1>6, <2>1, PlainIsTruthful DEF StopHalt, Plain, BelievedInv, BoxLowered
<1>7. CASE MarkError(w)
  <2>1. "error" \in States \ {"stopped"} BY DEF States
  <2>. QED BY <1>1, <1>7, <2>1, SetStateOther, PlainIsTruthful DEF MarkError, Plain, BelievedInv
<1>8. CASE StopFinish(w)
  <2>1. life = w BY <1>1, <1>8 DEF StopFinish, LockInv, Locked, StopLabels
  <2>2. box'.st # "running" BY <1>1, <1>8 DEF StopFinish, DownInv
  <2>3. BelievedInv(w)'
    BY <1>1, <1>8, <2>2 DEF StopFinish, AfterStop, OpInv, StopLabels, StopOps, WorldOps, BelievedInv
  <2>. QED BY <2>1, <2>2, <2>3 DEF Truthful, StoppedMeansDown
<1>. QED BY <1>2, <1>3, <1>4, <1>5, <1>6, <1>7, <1>8 DEF StopStep

\* The steps of startLocked and ensureContainer: the row says starting when the
\* container boots, and what was provisioned is not running yet.
LEMMA StartStepTruthful ==
    ASSUME BelievedAll, NEW w \in Procs, StartStep(w)
    PROVE  Truthful(w)
<1>. USE DEF Goto, Silent, KillLabels, SettledLabels
<1>1. /\ TypeOK /\ OpInv(w) /\ LockInv(w) /\ CopyInv(w) /\ DownInv(w) /\ BelievedInv(w)
      /\ pc \in [Procs -> Labels] /\ row \in Rows /\ StoppedMeansDown
  BY DEF BelievedAll, IInv, TypeOK, ProcInv
<1>2. CASE StartGet(w) \/ StartInspect(w) \/ EnsureGet(w) \/ StartPorts(w)
  BY <1>1, <1>2, PlainIsTruthful DEF StartGet, StartInspect, EnsureGet, StartPorts, Plain, BelievedInv
<1>3. CASE EnsureExists(w)
  BY <1>1, <1>3, PlainIsTruthful DEF EnsureExists, AfterEnsure, Plain, BelievedInv
<1>4. CASE EnsureClear(w)
  BY <1>1, <1>4, PlainIsTruthful DEF EnsureClear, Plain, BelievedInv, Rows
<1>5. CASE EnsureJar(w)
  <2>1. "installing" \in States \ {"stopped"} BY DEF States
  <2>. QED BY <1>1, <1>5, <2>1, SetStateOther, PlainIsTruthful DEF EnsureJar, Plain, BelievedInv
<1>6. CASE EnsureFetch(w)
  BY <1>1, <1>6, PlainIsTruthful DEF EnsureFetch, Plain, BelievedInv
<1>7. CASE EnsureCreate(w)
  <2>1. row' = row /\ op' = op /\ pc'[w] \in {"s_record", "done"}
    BY <1>1, <1>7 DEF EnsureCreate
  <2>2. box'.st = "running" => pc'[w] = "done" /\ box' = box
    BY <1>1, <1>7 DEF EnsureCreate
  <2>. QED BY <1>1, <2>1, <2>2 DEF Truthful, StoppedMeansDown, BelievedInv
<1>8. CASE EnsureRecord(w)
  <2>1. box' = box /\ op' = op /\ row'.here = row.here /\ row'.state = row.state
    BY <1>1, <1>8 DEF EnsureRecord, Rows
  <2>2. pc'[w] \in {"done", "s_settle"} /\ box.st # "running" BY <1>1, <1>8 DEF EnsureRecord, BelievedInv
  <2>. QED BY <1>1, <2>1, <2>2 DEF Truthful, StoppedMeansDown, BelievedInv
<1>9. CASE EnsureSettle(w)
  <2>1. life = w BY <1>1, <1>9 DEF EnsureSettle, LockInv, Locked, EnsureLabels
  <2>2. box' = box /\ op' = op /\ pc'[w] \in {"done", "s_ports"} /\ box.st # "running"
    BY <1>1, <1>9 DEF EnsureSettle, AfterEnsure, BelievedInv
  <2>. QED BY <1>1, <2>1, <2>2 DEF Truthful, StoppedMeansDown, BelievedInv
<1>10. CASE StartMark(w)
  <2>1. row.here BY <1>1, <1>10 DEF StartMark, CopyInv
  <2>2. {"installing", "starting"} \subseteq States \ {"stopped"} BY DEF States
  <2>3. row'.state # "stopped" BY <1>1, <1>10, <2>1, <2>2, SetStateOther DEF StartMark
  <2>4. op' = op /\ pc'[w] = "s_boot" BY <1>1, <1>10 DEF StartMark
  <2>. QED BY <1>1, <2>3, <2>4 DEF Truthful, StoppedMeansDown, BelievedInv
<1>11. CASE StartBoot(w)
  <2>1. row' = row /\ row.state # "stopped" BY <1>1, <1>11 DEF StartBoot, BelievedInv
  <2>2. op' = op /\ pc'[w] \in {"s_run", "s_fail"} BY <1>1, <1>11 DEF StartBoot
  <2>. QED BY <1>1, <2>1, <2>2 DEF Truthful, StoppedMeansDown, BelievedInv
<1>12. CASE StartRun(w)
  <2>1. {"installing", "running"} \subseteq States \ {"stopped"} BY DEF States
  <2>. QED BY <1>1, <1>12, <2>1, SetStateOther, PlainIsTruthful DEF StartRun, Plain, BelievedInv
<1>. QED BY <1>2, <1>3, <1>4, <1>5, <1>6, <1>7, <1>8, <1>9, <1>10, <1>11, <1>12 DEF StartStep

\* The console says stopping at most.
LEMMA ConsoleStepTruthful ==
    ASSUME BelievedAll, NEW w \in Procs, ConsoleStep(w)
    PROVE  Plain(w)
<1>. USE DEF Goto, Silent, KillLabels, SettledLabels
<1>1. BelievedInv(w) /\ pc \in [Procs -> Labels] /\ row \in Rows
  BY DEF BelievedAll, IInv, TypeOK
<1>2. "stopping" \in States \ {"stopped"} BY DEF States
<1>. QED BY <1>1, <1>2, SetStateOther DEF ConsoleStep, ConsoleGet, ConsoleSend, ConsoleMark, Plain,
    BelievedInv

\* Recreate, Update, Delete and Install write "stopped" after the container was
\* seen down, or from a copy of the row that is current.
LEMMA RebuildStepTruthful ==
    ASSUME BelievedAll, NEW w \in Procs, RebuildStep(w)
    PROVE  Truthful(w)
<1>. USE DEF Goto, Silent, KillLabels, SettledLabels
<1>1. /\ TypeOK /\ OpInv(w) /\ LockInv(w) /\ DownInv(w) /\ BelievedInv(w)
      /\ pc \in [Procs -> Labels] /\ row \in Rows /\ own \in [Procs -> Copies] /\ StoppedMeansDown
  BY DEF BelievedAll, IInv, TypeOK, ProcInv
<1>2. CASE RecreateGet(w) \/ RecreatePeek(w) \/ RecreateReGet(w) \/ DeleteGet(w) \/ InstallGet(w)
           \/ LogsGet(w)
  BY <1>1, <1>2, PlainIsTruthful DEF RecreateGet, RecreatePeek, RecreateReGet, DeleteGet, InstallGet,
      LogsGet, Plain, BelievedInv
<1>3. CASE RemoveContainer(w)
  <2>1. BoxLowered
    <3>1. CASE DockerRemoved(own[w].cid) BY <1>1, <3>1, DockerRemovedKept
    <3>2. CASE UNCHANGED <<box, asked>> BY <1>1, <3>2 DEF BoxLowered, TypeOK
    <3>. QED BY <1>3, <3>1, <3>2 DEF RemoveContainer
  <2>2. pc'[w] \in {"r_clear", "u_clear", "d_row", "i_clear", "n_clear", "i_undo", "n_undo", "done"}
    BY <1>1, <1>3 DEF RemoveContainer, AfterRemove, AfterRemoveFails, OpInv
  <2>3. row' = row /\ op' = op BY <1>3 DEF RemoveContainer
  <2>. QED BY <1>1, <2>1, <2>2, <2>3, PlainIsTruthful DEF Plain, BelievedInv, BoxLowered
<1>4. CASE RecreateClear(w)
  <2>1. life = w /\ box' = box /\ box.st # "running"
    BY <1>1, <1>4 DEF RecreateClear, LockInv, DownInv, Locked
  <2>2. op' = op /\ pc'[w] \in {"s_world", "done"} BY <1>1, <1>4 DEF RecreateClear
  <2>. QED BY <1>1, <2>1, <2>2 DEF Truthful, StoppedMeansDown, BelievedInv
<1>5. CASE UpdateGet(w)
  <2>1. row' = row /\ box' = box /\ op' = op BY <1>5 DEF UpdateGet
  <2>2. pc'[w] \in {"done", "p_get", "u_write"} BY <1>1, <1>5 DEF UpdateGet
  <2>3. pc'[w] = "u_write" => row.here /\ own'[w].state = row.state
    BY <1>1, <1>5 DEF UpdateGet, Snapshot
  <2>. QED BY <1>1, <2>1, <2>2, <2>3 DEF Truthful, StoppedMeansDown, BelievedInv
<1>6. CASE UpdateClear(w)
  <2>1. box' = box /\ op' = op /\ row'.here = row.here /\ row'.state = row.state
    BY <1>1, <1>6 DEF UpdateClear, Rows
  <2>2. box.st # "running" /\ pc'[w] \in {"done", "u_write"} BY <1>1, <1>6 DEF UpdateClear, DownInv
  <2>. QED BY <1>1, <2>1, <2>2 DEF Truthful, StoppedMeansDown, BelievedInv
<1>7. CASE UpdateWrite(w)
  <2>1. life = w BY <1>1, <1>7 DEF UpdateWrite, LockInv, Locked
  <2>2. box' = box /\ op' = op /\ pc'[w] = "done" BY <1>1, <1>7 DEF UpdateWrite
  <2>3. StoppedMeansDown'
    <3>1. CASE gone[w] BY <1>1, <1>7, <2>2, <3>1 DEF UpdateWrite, StoppedMeansDown
    <3>2. CASE ~gone[w]
      <4>1. row'.state = own[w].state BY <1>1, <1>7, <3>2 DEF UpdateWrite, Rows
      <4>. QED BY <1>1, <1>7, <2>2, <4>1 DEF UpdateWrite, StoppedMeansDown, BelievedInv
    <3>. QED BY <3>1, <3>2
  <2>. QED BY <1>1, <2>1, <2>2, <2>3 DEF Truthful, BelievedInv
<1>8. CASE DeleteRow(w)
  <2>1. box' = box /\ op' = op /\ pc'[w] = "done" BY <1>1, <1>8 DEF DeleteRow
  <2>2. row'.state = row.state /\ (row'.here => row.here) BY <1>1, <1>8 DEF DeleteRow, Rows
  <2>. QED BY <1>1, <2>1, <2>2 DEF Truthful, StoppedMeansDown, BelievedInv
<1>9. CASE InstallStage(w)
  BY <1>1, <1>9, PlainIsTruthful DEF InstallStage, Plain, BelievedInv
<1>10. CASE InstallClear(w)
  BY <1>1, <1>10, PlainIsTruthful DEF InstallClear, Plain, BelievedInv, Rows
<1>11. CASE InstallCommit(w)
  <2>1. life = w /\ box' = box /\ box.st # "running"
    BY <1>1, <1>11 DEF InstallCommit, LockInv, DownInv, Locked
  <2>2. op' = op /\ pc'[w] \in {"i_undo", "s_ensure"} BY <1>1, <1>11 DEF InstallCommit
  <2>. QED BY <1>1, <2>1, <2>2 DEF Truthful, StoppedMeansDown, BelievedInv
<1>. QED BY <1>2, <1>3, <1>4, <1>5, <1>6, <1>7, <1>8, <1>9, <1>10, <1>11 DEF RebuildStep

\* InstallModpack records installing, and stopped or error at its end.
LEMMA ModpackStepTruthful ==
    ASSUME BelievedAll, NEW w \in Procs, ModpackStep(w)
    PROVE  Truthful(w)
<1>. USE DEF Goto, Silent, KillLabels, SettledLabels
<1>1. /\ TypeOK /\ OpInv(w) /\ LockInv(w) /\ DownInv(w) /\ BelievedInv(w)
      /\ pc \in [Procs -> Labels] /\ row \in Rows /\ StoppedMeansDown
  BY DEF BelievedAll, IInv, TypeOK, ProcInv
<1>2. CASE ModpackFetch(w) \/ ModpackGet(w) \/ ModpackPublish(w)
  BY <1>1, <1>2, PlainIsTruthful DEF ModpackFetch, ModpackGet, ModpackPublish, Plain, BelievedInv
<1>3. CASE ModpackMark(w) \/ ModpackFail(w)
  <2>1. {"installing", "error"} \subseteq States \ {"stopped"} BY DEF States
  <2>. QED BY <1>1, <1>3, <2>1, SetStateOther, PlainIsTruthful DEF ModpackMark, ModpackFail, Plain,
      BelievedInv
<1>4. CASE ModpackClear(w)
  BY <1>1, <1>4, PlainIsTruthful DEF ModpackClear, Plain, BelievedInv, Rows
<1>5. CASE ModpackCommit(w)
  <2>1. row' = row /\ box' = box /\ op' = op /\ pc'[w] \in {"n_undo", "n_fin"} /\ box.st # "running"
    BY <1>1, <1>5 DEF ModpackCommit, DownInv
  <2>. QED BY <1>1, <2>1 DEF Truthful, StoppedMeansDown, BelievedInv
<1>6. CASE ModpackFinish(w)
  <2>1. life = w BY <1>1, <1>6 DEF ModpackFinish, LockInv, Locked
  <2>2. box' = box /\ op' = op /\ pc'[w] = "done" /\ box.st # "running"
    BY <1>1, <1>6 DEF ModpackFinish, BelievedInv
  <2>. QED BY <1>1, <2>1, <2>2 DEF Truthful, StoppedMeansDown, BelievedInv
<1>. QED BY <1>2, <1>3, <1>4, <1>5, <1>6 DEF ModpackStep

\* Backups, restores and edits leave the row alone.
LEMMA DataStepTruthful ==
    ASSUME BelievedAll, NEW w \in Procs, DataStep(w)
    PROVE  Plain(w)
<1>. USE DEF Goto, Silent, KillLabels, SettledLabels
<1>1. BelievedInv(w) /\ pc \in [Procs -> Labels] BY DEF BelievedAll, IInv, TypeOK
<1>. QED BY <1>1 DEF DataStep, DataGet, DataCheck, DataDone, EditCheck, FilesDone, Plain, BelievedInv

\* Status says stopped of a container it saw down, holding the mutex since.
LEMMA StatusStepTruthful ==
    ASSUME BelievedAll, StatusStep
    PROVE  Truthful(Monitor)
<1>. USE DEF Goto, Silent, KillLabels, SettledLabels
<1>1. /\ Monitor \in Procs /\ TypeOK /\ LockInv(Monitor) /\ BelievedInv(Monitor)
      /\ pc \in [Procs -> Labels] /\ row \in Rows /\ srv \in [Procs -> Copies] /\ StoppedMeansDown
  BY DEF BelievedAll, IInv, TypeOK, ProcInv, Procs
<1>2. CASE StatusGet
  BY <1>1, <1>2, PlainIsTruthful DEF StatusGet, Plain, BelievedInv
<1>3. CASE StatusInspect
  <2>1. row' = row /\ box' = box /\ op' = op BY <1>3 DEF StatusInspect
  <2>2. pc'[Monitor] \in {"t_apply", "t_since", "done"} BY <1>1, <1>3 DEF StatusInspect
  <2>3. ASSUME pc'[Monitor] = "t_apply", srv'[Monitor].state = "stopped" PROVE box.st # "running"
    <3>1. Observed(own[Monitor].state, box.st, box.exit) = "stopped" /\ own[Monitor].state # "stopped"
      BY <1>1, <1>3, <2>3 DEF StatusInspect, Copies
    <3>. QED BY <3>1 DEF Observed, MapDockerState
  <2>. QED BY <1>1, <2>1, <2>2, <2>3 DEF Truthful, StoppedMeansDown, BelievedInv
<1>4. CASE StatusApply
  <2>1. life = Monitor BY <1>1, <1>4 DEF StatusApply, LockInv, Locked
  <2>2. box' = box /\ op' = op /\ pc'[Monitor] = "done" BY <1>1, <1>4 DEF StatusApply
  <2>3. row' = row \/ row'.state = srv[Monitor].state
    BY <1>1, <1>4 DEF StatusApply, ObserveState, Rows
  <2>4. srv[Monitor].state = "stopped" => box.st # "running" BY <1>1, <1>4 DEF StatusApply, BelievedInv
  <2>. QED BY <1>1, <2>1, <2>2, <2>3, <2>4 DEF Truthful, StoppedMeansDown, BelievedInv
<1>5. CASE StatusSince
  <2>1. "running" \in States \ {"stopped"} BY DEF States
  <2>. QED BY <1>1, <1>5, <2>1, SetStateOther, PlainIsTruthful DEF StatusSince, Plain, BelievedInv
<1>. QED BY <1>2, <1>3, <1>4, <1>5 DEF StatusStep

\* Every step keeps what a stopped row says, as long as no operation is a kill.
LEMMA BelievedNext ==
    ASSUME "kill" \notin Ops
    PROVE  BelievedAll /\ [Next]_vars => BelievedAll'
<1> SUFFICES ASSUME BelievedAll, [Next]_vars PROVE BelievedAll' OBVIOUS
<1>1. IInv /\ pc \in [Procs -> Labels] BY DEF BelievedAll, IInv, TypeOK
<1>2. ASSUME NEW w \in Workers, NEW o \in Ops, Begin(w, o) PROVE BelievedAll'
  <2>1. w \in Procs BY DEF Procs
  <2>2. o # "kill" /\ op'[w] = o BY <1>1, <1>2, <2>1 DEF Begin, IInv, TypeOK
  <2>3. pc'[w] \in {"c_get", "e_world", "n_fetch", "lock"}
    BY <1>1, <1>2, <2>1, <2>2 DEF Begin, Goto, Entry
  <2>4. Plain(w) BY <1>2, <2>2, <2>3 DEF Plain, Begin, Silent, KillLabels, SettledLabels
  <2>. QED BY <1>1, <1>2, <2>1, <2>4, BeginKeeps, PlainIsTruthful, TruthfulSuffices
<1>3. ASSUME NEW w \in Procs, Disconnect(w) PROVE BelievedAll'
  <2>1. BelievedInv(w) BY DEF BelievedAll
  <2>2. Truthful(w)
    BY <1>3, <2>1 DEF Truthful, Disconnect, Silent, BelievedAll, BelievedInv, StoppedMeansDown
  <2>. QED BY <1>1, <1>3, <2>2, DisconnectKeeps, TruthfulSuffices
<1>4. ASSUME NEW w \in Procs, Step(w) PROVE BelievedAll'
  <2>1. Guarantee(w) BY <1>1, <1>4, StepGuarantees
  <2>2. ~KillStep(w)
    <3>1. pc[w] \notin KillLabels BY DEF BelievedAll, BelievedInv
    <3>. QED BY <3>1 DEF KillLabels, KillStep, KillTry, KillGet, KillMark, KillKill, KillFinish
  <2>3. Truthful(w)
    BY <1>4, <2>2, LockStepTruthful, StopStepTruthful, StartStepTruthful, ConsoleStepTruthful,
       RebuildStepTruthful, ModpackStepTruthful, DataStepTruthful, PlainIsTruthful DEF Step
  <2>. QED BY <2>1, <2>3, TruthfulSuffices
<1>5. CASE StatusStep
  BY <1>1, <1>5, StatusStepTruthful, StatusGuarantees, TruthfulSuffices DEF Procs
<1>6. CASE ContainerExit \/ InstallerStep \/ ContainerLost
  <2>1. IInv' /\ (box'.st = "running" => box.st = "running") BY <1>1, <1>6, EnvironmentKeeps
  <2>2. UNCHANGED <<row, pc, op, own, srv>>
    BY <1>6 DEF ContainerExit, InstallerStep, ContainerLost, Silent, locals
  <2>. QED BY <2>1, <2>2 DEF BelievedAll, BelievedInv, StoppedMeansDown
<1>7. CASE PanelCrash
  <2>1. IInv' /\ box' = box /\ row' = row BY <1>1, <1>7, PanelCrashKeeps DEF PanelCrash, Silent
  <2>2. ASSUME NEW v \in Procs PROVE BelievedInv(v)'
    BY <1>7 DEF PanelCrash, BelievedInv, KillLabels, SettledLabels
  <2>. QED BY <2>1, <2>2 DEF BelievedAll, StoppedMeansDown
<1>8. CASE UNCHANGED vars
  <2>1. IInv' BY <1>1, <1>8, StutterKeeps
  <2>. QED BY <1>8, <2>1 DEF vars, locals, BelievedAll, BelievedInv, StoppedMeansDown
<1>. QED BY <1>2, <1>3, <1>4, <1>5, <1>6, <1>7, <1>8 DEF Next, Environment

\* At first a row says stopped of a container that is down.
LEMMA BelievedInit == Init => BelievedAll
<1> SUFFICES ASSUME Init PROVE BelievedAll OBVIOUS
<1>1. IInv BY InitEstablishes
<1>2. row.state # "stopped" \/ box.st # "running"
  <2>1. CASE InitFresh BY <2>1 DEF InitFresh, NoBox
  <2>2. CASE InitKept BY <2>2 DEF InitKept
  <2>3. CASE InitRunning BY <2>3 DEF InitRunning
  <2>. QED BY <2>1, <2>2, <2>3 DEF Init
<1>3. \A w \in Procs : pc[w] \in {"idle", "lock"} /\ op[w] \in {"none", "provision"}
  BY DEF Init, InitFresh, InitKept, InitRunning
<1>. QED BY <1>1, <1>2, <1>3 DEF BelievedAll, BelievedInv, StoppedMeansDown, KillLabels, SettledLabels

\* A row that says stopped has no running container, whatever fails, whoever
\* disconnects and wherever the panel dies, as long as nobody uses Kill, which
\* records stopped without waiting for the mutex (stopLocked, ensureContainer,
\* Recreate, Update, Install, InstallModpack and Status all record it holding it).
THEOREM StoppedIsDown ==
    ASSUME "kill" \notin Ops
    PROVE  Spec => []StoppedMeansDown
<1>1. Init => BelievedAll BY BelievedInit
<1>2. BelievedAll /\ [Next]_vars => BelievedAll' BY BelievedNext
<1>3. BelievedAll => StoppedMeansDown BY DEF BelievedAll
<1>. QED BY <1>1, <1>2, <1>3, PTL DEF Spec

-----------------------------------------------------------------------------
(* Every container is the one of the row.                                      *)

\* A step of w that creates no container, forgets none, and does not get to where
\* the row is about to.
Steady(w) ==
    /\ row'.here = row.here /\ row'.cid = row.cid
    /\ box'.id \in {box.id, 0}
    /\ pc[w] # "s_record" /\ pc'[w] \notin ClearLabels \cup DeleteLabels
    /\ op'[w] # "delete" /\ \A v \in Procs : ~gone'[v]
    /\ budget'.crashes = budget.crashes

\* What a step of w owes to EveryContainerTracked: only the holder of the mutex
\* creates a container.
Traceable(w) ==
    /\ row'.here /\ EveryContainerTracked' /\ ForgottenInv(w)'
    /\ box'.id = 0 \/ box'.id = box.id \/ life = w
    /\ budget'.crashes = budget.crashes
    /\ \A v \in Procs : ~gone'[v]

\* A step that gives both keeps every container tracked.
LEMMA TraceableSuffices ==
    ASSUME TrackedAll, NEW w \in Procs, Guarantee(w), Traceable(w)
    PROVE  TrackedAll'
<1>1. IInv' BY GuaranteeSuffices DEF TrackedAll
<1>2. ASSUME NEW v \in Procs, v # w PROVE ForgottenInv(v)'
  <2>1. pc'[v] = pc[v] /\ op'[v] = op[v] BY <1>2 DEF Guarantee, Rely
  <2>2. ForgottenInv(v) /\ ~gone'[v] /\ budget'.crashes = budget.crashes BY DEF TrackedAll, Traceable
  <2>3. CASE life = w
    <3>1. pc[v] \notin Locked BY <1>2, <2>3 DEF TrackedAll, IInv, ProcInv, LockInv
    <3>. QED BY <2>1, <2>2, <3>1 DEF ForgottenInv, Locked, EnsureLabels, ClearLabels
  <2>4. CASE life # w
    BY <2>1, <2>2, <2>4 DEF ForgottenInv, Traceable
  <2>. QED BY <2>3, <2>4
<1>. QED BY <1>1, <1>2 DEF TrackedAll, Traceable

\* A steady step is traceable.
LEMMA SteadyIsTraceable ==
    ASSUME TrackedAll, NEW w \in Procs, Guarantee(w), Steady(w)
    PROVE  Traceable(w)
<1>1. EveryContainerTracked'
  <2> SUFFICES ASSUME box'.id # 0, budget'.crashes = MaxCrashes
               PROVE  (row'.here /\ row'.cid = box'.id) \/ \E v \in Procs : pc'[v] = "s_record"
      BY DEF EveryContainerTracked
  <2>1. box'.id = box.id /\ budget.crashes = MaxCrashes BY DEF Steady
  <2>2. CASE row.here /\ row.cid = box.id BY <2>1, <2>2 DEF Steady
  <2>3. CASE \E v \in Procs : pc[v] = "s_record"
    <3>1. PICK v \in Procs : pc[v] = "s_record" BY <2>3
    <3>2. v # w BY <3>1 DEF Steady
    <3>. QED BY <3>1, <3>2 DEF Guarantee, Rely
  <2>. QED BY <2>1, <2>2, <2>3 DEF TrackedAll, EveryContainerTracked
<1>. QED BY <1>1 DEF Steady, Traceable, TrackedAll, ForgottenInv

\* Where a goroutine holds the mutex and is not about to record a container, the
\* container that exists is that of the row.
LEMMA KnownHere ==
    ASSUME TrackedAll, NEW w \in Procs, pc[w] \in Locked, pc[w] # "s_record",
           budget.crashes = MaxCrashes
    PROVE  box.id # 0 => row.cid = box.id
<1>1. life = w BY DEF TrackedAll, IInv, ProcInv, LockInv
<1>2. ASSUME NEW v \in Procs, pc[v] = "s_record" PROVE FALSE
  <2>1. life = v BY <1>2 DEF TrackedAll, IInv, ProcInv, LockInv, Locked, EnsureLabels
  <2>. QED BY <1>1, <1>2, <2>1
<1>. QED BY <1>2 DEF TrackedAll, EveryContainerTracked

\* docker start, stop and kill keep the container; docker rm keeps it or takes it.
LEMMA DockerKeepsId ==
    ASSUME box \in Boxes, NEW cid,
           DockerStopped(cid) \/ DockerKilled(cid) \/ DockerStarted(cid) \/ DockerRemoved(cid)
    PROVE  box'.id \in {box.id, 0}
<1>1. CASE DockerStopped(cid) BY <1>1 DEF DockerStopped, Halted, Boxes
<1>2. CASE DockerKilled(cid) BY <1>2 DEF DockerKilled, Halted, Boxes
<1>3. CASE DockerStarted(cid) BY <1>3 DEF DockerStarted, Boxes
<1>4. CASE DockerRemoved(cid) BY <1>4 DEF DockerRemoved, NoBox
<1>. QED BY <1>1, <1>2, <1>3, <1>4

\* A failed call spends no crash.
LEMMA SpendKeepsCrashes ==
    ASSUME budget \in Budgets, SpendFault
    PROVE  budget'.crashes = budget.crashes
BY DEF SpendFault, Budgets

\* The steps of the locks.
LEMMA LockStepSteady ==
    ASSUME TrackedAll, NEW w \in Procs, LockStep(w)
    PROVE  Steady(w)
<1>. USE DEF Goto, Silent, ClearLabels, DeleteLabels
<1>1. /\ pc \in [Procs -> Labels] /\ OpInv(w) /\ ForgottenInv(w)
      /\ op \in [Procs -> AllOps \union {"none", "provision"}]
      /\ gone \in [Procs -> BOOLEAN] /\ \A v \in Procs : ~gone[v]
  BY DEF TrackedAll, IInv, TypeOK, ProcInv, ForgottenInv
<1>2. CASE AcquireLifecycle(w)
  BY <1>1, <1>2 DEF AcquireLifecycle, AfterLock, Steady, OpInv, LockOps, StopOps, WorldOps, ForgottenInv
<1>3. CASE AcquireWorld(w)
  BY <1>1, <1>3 DEF AcquireWorld, AfterWorld, Steady, OpInv, WorldOps, ForgottenInv
<1>4. CASE AcquireWorldShared(w)
  BY <1>1, <1>4 DEF AcquireWorldShared, Steady, ForgottenInv
<1>5. CASE Return(w)
  BY <1>1, <1>5 DEF Return, Steady, ForgottenInv
<1>. QED BY <1>2, <1>3, <1>4, <1>5 DEF LockStep

\* The steps of stopLocked and Kill.
LEMMA StopStepSteady ==
    ASSUME TrackedAll, NEW w \in Procs, StopStep(w) \/ KillStep(w)
    PROVE  Steady(w)
<1>. USE DEF Goto, Silent, ClearLabels, DeleteLabels
<1>1. /\ pc \in [Procs -> Labels] /\ OpInv(w) /\ ForgottenInv(w) /\ row \in Rows /\ box \in Boxes
      /\ budget \in Budgets /\ \A v \in Procs : ~gone[v]
  BY DEF TrackedAll, IInv, TypeOK, ProcInv, ForgottenInv
<1>2. {"stopping", "stopped", "error"} \subseteq States BY DEF States
<1>3. CASE StopGet(w)
  BY <1>1, <1>3 DEF StopGet, AfterStop, Steady, OpInv, StopLabels, StopOps, WorldOps, ForgottenInv
<1>4. CASE StopPeek(w)
  BY <1>1, <1>4, SpendKeepsCrashes DEF StopPeek, Fails, AfterStop, Steady, OpInv, StopLabels, StopOps,
      WorldOps, ForgottenInv
<1>5. CASE StopMark(w) \/ MarkError(w) \/ KillMark(w) \/ KillFinish(w)
  <2>1. row'.here = row.here /\ row'.cid = row.cid
    BY <1>1, <1>2, <1>5, SetStateKept DEF StopMark, MarkError, KillMark, KillFinish, RowKept
  <2>. QED BY <1>1, <1>5, <2>1 DEF StopMark, MarkError, KillMark, KillFinish, Steady, ForgottenInv
<1>6. CASE StopInspect(w) \/ StopSend(w)
  BY <1>1, <1>6, SpendKeepsCrashes DEF StopInspect, StopSend, Fails, Steady, ForgottenInv
<1>7. CASE StopWait(w) \/ KillTry(w) \/ KillGet(w)
  BY <1>1, <1>7 DEF StopWait, KillTry, KillGet, Steady, ForgottenInv
<1>8. CASE StopHalt(w)
  <2>1. box'.id \in {box.id, 0} BY <1>1, <1>8, DockerKeepsId DEF StopHalt
  <2>2. budget'.crashes = budget.crashes
    BY <1>1, <1>8, SpendKeepsCrashes DEF StopHalt, Fails, FailsDetached
  <2>. QED BY <1>1, <1>8, <2>1, <2>2 DEF StopHalt, Steady, ForgottenInv
<1>9. CASE StopFinish(w)
  <2>1. row'.here = row.here /\ row'.cid = row.cid
    BY <1>1, <1>2, <1>9, SetStateKept DEF StopFinish, RowKept
  <2>. QED BY <1>1, <1>9, <2>1 DEF StopFinish, AfterStop, Steady, OpInv, StopLabels, StopOps, WorldOps,
      ForgottenInv
<1>10. CASE KillKill(w)
  <2>1. box'.id \in {box.id, 0} BY <1>1, <1>10, DockerKeepsId DEF KillKill
  <2>2. budget'.crashes = budget.crashes BY <1>1, <1>10, SpendKeepsCrashes DEF KillKill, Fails
  <2>. QED BY <1>1, <1>10, <2>1, <2>2 DEF KillKill, Steady, ForgottenInv
<1>. QED BY <1>3, <1>4, <1>5, <1>6, <1>7, <1>8, <1>9, <1>10 DEF StopStep, KillStep

\* The steps of startLocked and ensureContainer: the id is forgotten when the
\* container has gone, and recorded after one was created.
LEMMA StartStepTraceable ==
    ASSUME TrackedAll, NEW w \in Procs, StartStep(w)
    PROVE  Traceable(w)
<1>. USE DEF Goto, Silent, ClearLabels, DeleteLabels
<1>1. /\ pc \in [Procs -> Labels] /\ OpInv(w) /\ LockInv(w) /\ CopyInv(w) /\ ForgottenInv(w)
      /\ row \in Rows /\ box \in Boxes /\ budget \in Budgets /\ row.here /\ \A v \in Procs : ~gone[v]
  BY DEF TrackedAll, IInv, TypeOK, ProcInv, ForgottenInv
<1>2. Guarantee(w) BY StepGuarantees DEF TrackedAll, Step
<1>3. {"installing", "stopped", "starting", "running"} \subseteq States BY DEF States
<1>4. CASE StartGet(w) \/ EnsureGet(w)
  BY <1>1, <1>2, <1>4, SteadyIsTraceable DEF StartGet, EnsureGet, Steady, ForgottenInv
<1>5. CASE StartInspect(w) \/ EnsureFetch(w) \/ StartPorts(w)
  BY <1>1, <1>2, <1>5, SteadyIsTraceable, SpendKeepsCrashes DEF StartInspect, EnsureFetch, StartPorts,
      FailsDetached, Steady, ForgottenInv
<1>6. CASE EnsureExists(w)
  <2>1. /\ row' = row /\ box' = box /\ op' = op /\ gone' = gone /\ budget'.crashes = budget.crashes
        /\ pc[w] = "s_exists"
    BY <1>1, <1>6, SpendKeepsCrashes DEF EnsureExists, FailsDetached
  <2>2. pc'[w] \in {"done", "s_ports", "s_clear"} BY <1>1, <1>6 DEF EnsureExists, AfterEnsure
  <2>3. CASE pc'[w] # "s_clear"
    BY <1>1, <1>2, <2>1, <2>2, <2>3, SteadyIsTraceable DEF Steady, ForgottenInv
  <2>4. CASE pc'[w] = "s_clear"
    <3>1. ~Present(srv[w].cid) /\ srv[w].cid = row.cid
      BY <1>1, <1>6, <2>1, <2>4 DEF EnsureExists, CopyInv, AfterEnsure
    <3>2. budget.crashes = MaxCrashes => box.id = 0
      BY <2>1, <3>1, KnownHere DEF Present, Locked, EnsureLabels
    <3>3. EveryContainerTracked' BY <2>1, <3>2 DEF EveryContainerTracked
    <3>. QED BY <1>1, <2>1, <2>4, <3>2, <3>3 DEF Traceable, ForgottenInv
  <2>. QED BY <2>3, <2>4
<1>7. CASE EnsureClear(w)
  <2>1. /\ box' = box /\ op' = op /\ gone' = gone /\ budget' = budget /\ row'.here
        /\ pc'[w] \in {"done", "s_jar"}
    BY <1>1, <1>7 DEF EnsureClear, Rows
  <2>2. budget.crashes = MaxCrashes => box.id = 0 BY <1>1, <1>7 DEF EnsureClear, ForgottenInv
  <2>. QED BY <1>1, <2>1, <2>2 DEF Traceable, ForgottenInv, EveryContainerTracked
<1>8. CASE EnsureJar(w) \/ EnsureSettle(w) \/ StartMark(w) \/ StartRun(w)
  <2>1. row'.here = row.here /\ row'.cid = row.cid
    BY <1>1, <1>3, <1>8, SetStateKept DEF EnsureJar, EnsureSettle, StartMark, StartRun, RowKept
  <2>. QED BY <1>1, <1>2, <1>8, <2>1, SteadyIsTraceable DEF EnsureJar, EnsureSettle, AfterEnsure,
      StartMark, StartRun, Steady, ForgottenInv
<1>9. CASE EnsureCreate(w)
  <2>1. /\ row' = row /\ op' = op /\ gone' = gone /\ budget'.crashes = budget.crashes
        /\ pc[w] = "s_create"
    BY <1>1, <1>9, SpendKeepsCrashes DEF EnsureCreate, FailsDetached, Budgets
  <2>2. (pc'[w] = "done" /\ box' = box) \/ pc'[w] = "s_record" BY <1>1, <1>9 DEF EnsureCreate
  <2>3. CASE pc'[w] = "done" /\ box' = box
    BY <1>1, <1>2, <2>1, <2>3, SteadyIsTraceable DEF Steady, ForgottenInv
  <2>4. CASE pc'[w] = "s_record"
    <3>1. life = w BY <1>1, <2>1 DEF LockInv, Locked, EnsureLabels
    <3>. QED BY <1>1, <2>1, <2>4, <3>1 DEF Traceable, ForgottenInv, EveryContainerTracked
  <2>. QED BY <2>2, <2>3, <2>4
<1>10. CASE EnsureRecord(w)
  <2>1. ~Cut(w) BY <1>1 DEF Cut
  <2>2. /\ box' = box /\ op' = op /\ gone' = gone /\ budget' = budget
        /\ row'.here /\ row'.cid = box.id /\ pc'[w] = "s_settle"
    BY <1>1, <1>10, <2>1 DEF EnsureRecord, Rows
  <2>. QED BY <1>1, <2>2 DEF Traceable, ForgottenInv, EveryContainerTracked
<1>11. CASE StartBoot(w)
  <2>1. box'.id \in {box.id, 0} BY <1>1, <1>11, DockerKeepsId DEF StartBoot
  <2>2. budget'.crashes = budget.crashes BY <1>1, <1>11, SpendKeepsCrashes DEF StartBoot, FailsDetached
  <2>. QED BY <1>1, <1>2, <1>11, <2>1, <2>2, SteadyIsTraceable DEF StartBoot, Steady, ForgottenInv
<1>. QED BY <1>4, <1>5, <1>6, <1>7, <1>8, <1>9, <1>10, <1>11 DEF StartStep

\* The console command leaves row and container to each other.
LEMMA ConsoleStepSteady ==
    ASSUME TrackedAll, NEW w \in Procs, ConsoleStep(w)
    PROVE  Steady(w)
<1>. USE DEF Goto, Silent, ClearLabels, DeleteLabels
<1>1. /\ pc \in [Procs -> Labels] /\ ForgottenInv(w) /\ row \in Rows /\ budget \in Budgets
      /\ \A v \in Procs : ~gone[v]
  BY DEF TrackedAll, IInv, TypeOK, ForgottenInv
<1>2. CASE ConsoleGet(w) BY <1>1, <1>2 DEF ConsoleGet, Steady, ForgottenInv
<1>3. CASE ConsoleSend(w)
  BY <1>1, <1>3, SpendKeepsCrashes DEF ConsoleSend, Fails, Steady, ForgottenInv
<1>4. CASE ConsoleMark(w)
  <2>1. "stopping" \in States BY DEF States
  <2>2. row'.here = row.here /\ row'.cid = row.cid
    BY <1>1, <1>4, <2>1, SetStateKept DEF ConsoleMark, RowKept
  <2>. QED BY <1>1, <1>4, <2>2 DEF ConsoleMark, Steady, ForgottenInv
<1>. QED BY <1>2, <1>3, <1>4 DEF ConsoleStep

\* removeContainer: on success the container of the row is gone, so no container is
\* left for the row to forget.
LEMMA RemoveTraceable ==
    ASSUME TrackedAll, NEW w \in Procs, RemoveContainer(w)
    PROVE  Traceable(w)
<1>1. /\ pc \in [Procs -> Labels] /\ OpInv(w) /\ CopyInv(w) /\ ForgottenInv(w) /\ pc[w] = "x_remove"
      /\ box \in Boxes /\ budget \in Budgets /\ row.here /\ \A v \in Procs : ~gone[v]
  BY DEF TrackedAll, IInv, TypeOK, ProcInv, ForgottenInv, RemoveContainer
<1>2. /\ row' = row /\ op' = op /\ gone' = gone /\ budget'.crashes = budget.crashes
  BY <1>1, SpendKeepsCrashes DEF RemoveContainer, Fails, Silent
<1>3. box'.id \in {box.id, 0} BY <1>1, DockerKeepsId DEF RemoveContainer
<1>4. budget.crashes = MaxCrashes => (box.id # 0 => row.cid = box.id)
  BY <1>1, KnownHere DEF Locked
<1>5. pc'[w] \notin DeleteLabels \cup {"s_clear"}
  BY <1>1 DEF RemoveContainer, Goto, AfterRemove, AfterRemoveFails, OpInv, DeleteLabels, ForgottenInv
<1>6. ASSUME pc'[w] \in ClearLabels, budget.crashes = MaxCrashes PROVE box'.id = 0
  <2>1. DockerRemoved(own[w].cid)
    BY <1>1, <1>6 DEF RemoveContainer, Goto, AfterRemoveFails, ClearLabels, OpInv
  <2>2. own[w].cid = row.cid BY <1>1 DEF CopyInv
  <2>. QED BY <1>4, <1>6, <2>1, <2>2 DEF DockerRemoved, Present, NoBox
<1>7. EveryContainerTracked' BY <1>1, <1>2, <1>3, <1>4 DEF EveryContainerTracked
<1>. QED BY <1>1, <1>2, <1>3, <1>5, <1>6, <1>7 DEF Traceable, ForgottenInv

\* Recreate, Update and Install forget a container that has gone.
LEMMA RebuildStepTraceable ==
    ASSUME TrackedAll, NEW w \in Procs, RebuildStep(w)
    PROVE  Traceable(w)
<1>. USE DEF Goto, Silent, ClearLabels, DeleteLabels
<1>1. /\ pc \in [Procs -> Labels] /\ OpInv(w) /\ LockInv(w) /\ CopyInv(w) /\ ForgottenInv(w)
      /\ row \in Rows /\ box \in Boxes /\ budget \in Budgets /\ row.here /\ \A v \in Procs : ~gone[v]
  BY DEF TrackedAll, IInv, TypeOK, ProcInv, ForgottenInv
<1>2. Guarantee(w) BY StepGuarantees DEF TrackedAll, Step
<1>3. CASE RecreateGet(w) \/ RecreateReGet(w)
  <2>1. /\ row' = row /\ box' = box /\ op' = op /\ gone' = gone /\ budget' = budget
        /\ pc[w] \in {"r_get", "r_reget"}
    BY <1>3 DEF RecreateGet, RecreateReGet
  <2>2. pc'[w] \in {"p_get", "r_peek", "x_remove", "done"} \/ (pc'[w] = "r_clear" /\ row.cid = 0)
    BY <1>1, <1>3 DEF RecreateGet, RecreateReGet
  <2>3. CASE pc'[w] = "r_clear" /\ row.cid = 0
    <3>1. budget.crashes = MaxCrashes => box.id = 0 BY <2>1, <2>3, KnownHere DEF Locked
    <3>. QED BY <1>1, <2>1, <2>3, <3>1 DEF Traceable, ForgottenInv, EveryContainerTracked
  <2>4. CASE pc'[w] \in {"p_get", "r_peek", "x_remove", "done"}
    BY <1>1, <1>2, <2>1, <2>4, SteadyIsTraceable DEF Steady, ForgottenInv
  <2>. QED BY <2>2, <2>3, <2>4
<1>4. CASE RecreatePeek(w) \/ InstallStage(w)
  BY <1>1, <1>2, <1>4, SpendKeepsCrashes, SteadyIsTraceable DEF RecreatePeek, InstallStage, Fails,
      FailsDetached, Steady, ForgottenInv
<1>5. CASE RemoveContainer(w) BY <1>5, RemoveTraceable
<1>6. CASE RecreateClear(w) \/ UpdateClear(w) \/ InstallClear(w)
  <2>1. /\ box' = box /\ op' = op /\ gone' = gone /\ budget' = budget /\ row'.here
        /\ pc'[w] \in {"s_world", "done", "u_write", "i_write", "i_undo"}
    BY <1>1, <1>6 DEF RecreateClear, UpdateClear, InstallClear, Rows
  <2>2. budget.crashes = MaxCrashes => box.id = 0
    BY <1>1, <1>6 DEF RecreateClear, UpdateClear, InstallClear, ForgottenInv
  <2>. QED BY <1>1, <2>1, <2>2 DEF Traceable, ForgottenInv, EveryContainerTracked
<1>7. CASE UpdateGet(w) \/ InstallGet(w) \/ LogsGet(w)
  BY <1>1, <1>2, <1>7, SteadyIsTraceable DEF UpdateGet, InstallGet, LogsGet, Steady, ForgottenInv
<1>8. CASE UpdateWrite(w)
  <2>1. own[w].cid = row.cid BY <1>1, <1>8 DEF UpdateWrite, CopyInv
  <2>2. row'.here = row.here /\ row'.cid = row.cid BY <1>1, <1>8, <2>1 DEF UpdateWrite, Rows
  <2>. QED BY <1>1, <1>2, <1>8, <2>2, SteadyIsTraceable DEF UpdateWrite, Steady, ForgottenInv
<1>9. CASE DeleteGet(w) \/ DeleteRow(w)
  BY <1>1, <1>9 DEF DeleteGet, DeleteRow, ForgottenInv
<1>10. CASE InstallCommit(w)
  <2>1. row'.here = row.here /\ row'.cid = row.cid BY <1>1, <1>10 DEF InstallCommit, Rows
  <2>. QED BY <1>1, <1>2, <1>10, <2>1, SteadyIsTraceable DEF InstallCommit, Steady, ForgottenInv
<1>. QED BY <1>3, <1>4, <1>5, <1>6, <1>7, <1>8, <1>9, <1>10 DEF RebuildStep

\* So does InstallModpack, of a pack for another runtime.
LEMMA ModpackStepTraceable ==
    ASSUME TrackedAll, NEW w \in Procs, ModpackStep(w)
    PROVE  Traceable(w)
<1>. USE DEF Goto, Silent, ClearLabels, DeleteLabels
<1>1. /\ pc \in [Procs -> Labels] /\ ForgottenInv(w) /\ row \in Rows /\ budget \in Budgets /\ row.here
      /\ \A v \in Procs : ~gone[v]
  BY DEF TrackedAll, IInv, TypeOK, ForgottenInv
<1>2. Guarantee(w) BY StepGuarantees DEF TrackedAll, Step
<1>3. CASE ModpackFetch(w) \/ ModpackPublish(w)
  BY <1>1, <1>2, <1>3, SpendKeepsCrashes, SteadyIsTraceable DEF ModpackFetch, ModpackPublish, Fails,
      Steady, ForgottenInv
<1>4. CASE ModpackMark(w) \/ ModpackFinish(w) \/ ModpackFail(w)
  <2>1. {"installing", "stopped", "error"} \subseteq States BY DEF States
  <2>2. row'.here = row.here /\ row'.cid = row.cid
    BY <1>1, <1>4, <2>1, SetStateKept DEF ModpackMark, ModpackFinish, ModpackFail, RowKept
  <2>. QED BY <1>1, <1>2, <1>4, <2>2, SteadyIsTraceable DEF ModpackMark, ModpackFinish, ModpackFail,
      Steady, ForgottenInv
<1>5. CASE ModpackGet(w) \/ ModpackCommit(w)
  BY <1>1, <1>2, <1>5, SteadyIsTraceable DEF ModpackGet, ModpackCommit, Steady, ForgottenInv
<1>6. CASE ModpackClear(w)
  <2>1. /\ box' = box /\ op' = op /\ gone' = gone /\ budget' = budget /\ row'.here
        /\ pc'[w] \in {"n_undo", "n_write"}
    BY <1>1, <1>6 DEF ModpackClear, Rows
  <2>2. budget.crashes = MaxCrashes => box.id = 0 BY <1>1, <1>6 DEF ModpackClear, ForgottenInv
  <2>. QED BY <1>1, <2>1, <2>2 DEF Traceable, ForgottenInv, EveryContainerTracked
<1>. QED BY <1>3, <1>4, <1>5, <1>6 DEF ModpackStep

\* Backups, restores and edits leave both alone,
LEMMA DataStepSteady ==
    ASSUME TrackedAll, NEW w \in Procs, DataStep(w)
    PROVE  Steady(w)
<1>. USE DEF Goto, Silent, ClearLabels, DeleteLabels
<1>1. /\ pc \in [Procs -> Labels] /\ ForgottenInv(w) /\ budget \in Budgets /\ \A v \in Procs : ~gone[v]
  BY DEF TrackedAll, IInv, TypeOK, ForgottenInv
<1>. QED BY <1>1, SpendKeepsCrashes DEF DataStep, DataGet, DataCheck, DataDone, EditCheck, FilesDone,
    Fails, Steady, ForgottenInv

\* and so does Status.
LEMMA StatusStepSteady ==
    ASSUME TrackedAll, StatusStep
    PROVE  Steady(Monitor)
<1>. USE DEF Goto, Silent, ClearLabels, DeleteLabels
<1>1. /\ Monitor \in Procs /\ pc \in [Procs -> Labels] /\ ForgottenInv(Monitor) /\ row \in Rows
      /\ srv \in [Procs -> Copies] /\ budget \in Budgets /\ \A v \in Procs : ~gone[v]
  BY DEF TrackedAll, IInv, TypeOK, ForgottenInv, Procs
<1>2. CASE StatusGet BY <1>1, <1>2 DEF StatusGet, Steady, ForgottenInv
<1>3. CASE StatusInspect
  BY <1>1, <1>3, SpendKeepsCrashes DEF StatusInspect, FailsDetached, Steady, ForgottenInv
<1>4. CASE StatusApply
  <2>1. row'.here = row.here /\ row'.cid = row.cid BY <1>1, <1>4 DEF StatusApply, ObserveState, Rows
  <2>. QED BY <1>1, <1>4, <2>1 DEF StatusApply, Steady, ForgottenInv
<1>5. CASE StatusSince
  <2>1. "running" \in States BY DEF States
  <2>2. row'.here = row.here /\ row'.cid = row.cid
    BY <1>1, <1>5, <2>1, SetStateKept DEF StatusSince, RowKept
  <2>. QED BY <1>1, <1>5, <2>2 DEF StatusSince, Steady, ForgottenInv
<1>. QED BY <1>2, <1>3, <1>4, <1>5 DEF StatusStep

\* Every step keeps every container tracked, as long as no server is deleted and no
\* client leaves.
LEMMA TrackedNext ==
    ASSUME "delete" \notin Ops, "disconnect" \notin Faults
    PROVE  TrackedAll /\ [Next]_vars => TrackedAll'
<1> SUFFICES ASSUME TrackedAll, [Next]_vars PROVE TrackedAll' OBVIOUS
<1>1. /\ IInv /\ pc \in [Procs -> Labels] /\ budget \in Budgets /\ row \in Rows
      /\ box \in Boxes /\ \A v \in Procs : ~gone[v]
  BY DEF TrackedAll, IInv, TypeOK, ForgottenInv
<1>2. ASSUME NEW w \in Workers, NEW o \in Ops, Begin(w, o) PROVE TrackedAll'
  <2>1. w \in Procs BY DEF Procs
  <2>2. o # "delete" /\ op'[w] = o BY <1>1, <1>2, <2>1 DEF Begin, IInv, TypeOK
  <2>3. pc[w] = "idle" /\ pc'[w] \in {"k_try", "c_get", "e_world", "n_fetch", "lock"}
    BY <1>1, <1>2, <2>1 DEF Begin, Goto, Entry
  <2>4. budget'.crashes = budget.crashes BY <1>1, <1>2 DEF Begin, Budgets
  <2>5. Steady(w)
    BY <1>1, <1>2, <2>2, <2>3, <2>4 DEF Steady, Begin, Silent, ClearLabels, DeleteLabels
  <2>. QED BY <1>1, <1>2, <2>1, <2>5, BeginKeeps, SteadyIsTraceable, TraceableSuffices
<1>3. ASSUME NEW w \in Procs, Disconnect(w) PROVE FALSE
  BY <1>3 DEF Disconnect, CanFail
<1>4. ASSUME NEW w \in Procs, Step(w) PROVE TrackedAll'
  <2>1. Guarantee(w) BY <1>1, <1>4, StepGuarantees
  <2>2. Traceable(w)
    BY <1>4, <2>1, LockStepSteady, StopStepSteady, StartStepTraceable, ConsoleStepSteady,
       RebuildStepTraceable, ModpackStepTraceable, DataStepSteady, SteadyIsTraceable DEF Step
  <2>. QED BY <2>1, <2>2, TraceableSuffices
<1>5. CASE StatusStep
  <2>1. Guarantee(Monitor) /\ Monitor \in Procs BY <1>1, <1>5, StatusGuarantees DEF Procs
  <2>. QED BY <1>5, <2>1, StatusStepSteady, SteadyIsTraceable, TraceableSuffices
<1>6. CASE ContainerExit \/ InstallerStep \/ ContainerLost
  <2>1. IInv' BY <1>1, <1>6, EnvironmentKeeps
  <2>2. UNCHANGED <<row, pc, op, own, srv, gone>>
    BY <1>6 DEF ContainerExit, InstallerStep, ContainerLost, Silent, locals
  <2>3. box'.id \in {box.id, 0}
    BY <1>1, <1>6, DockerKeepsId DEF ContainerExit, InstallerStep, ContainerLost, Halted, Boxes
  <2>4. budget'.crashes = budget.crashes
    BY <1>1, <1>6, SpendKeepsCrashes DEF ContainerExit, InstallerStep, ContainerLost
  <2>. QED BY <2>1, <2>2, <2>3, <2>4 DEF TrackedAll, ForgottenInv, EveryContainerTracked
<1>7. CASE PanelCrash
  <2>1. IInv' /\ row' = row BY <1>1, <1>7, PanelCrashKeeps DEF PanelCrash, Silent
  <2>2. budget'.crashes # MaxCrashes
    <3>1. budget.crashes \in 0..MaxCrashes /\ budget.crashes > 0 /\ budget'.crashes = budget.crashes - 1
      BY <1>1, <1>7 DEF PanelCrash, Budgets
    <3>. QED BY <3>1, BoundsAssumption
  <2>3. ASSUME NEW v \in Procs PROVE ForgottenInv(v)'
    BY <1>7, <2>2 DEF PanelCrash, ForgottenInv, DeleteLabels
  <2>. QED BY <2>1, <2>2, <2>3 DEF TrackedAll, EveryContainerTracked
<1>8. CASE UNCHANGED vars
  <2>1. IInv' BY <1>1, <1>8, StutterKeeps
  <2>. QED BY <1>8, <2>1 DEF vars, locals, TrackedAll, ForgottenInv, EveryContainerTracked
<1>. QED BY <1>2, <1>3, <1>4, <1>5, <1>6, <1>7, <1>8 DEF Next, Environment

\* At first the container, if there is one, is that of the row.
LEMMA TrackedInit == Init => TrackedAll
<1> SUFFICES ASSUME Init PROVE TrackedAll OBVIOUS
<1>1. IInv BY InitEstablishes
<1>2. row.here /\ (box.id # 0 => row.cid = box.id)
  <2>1. CASE InitFresh BY <2>1 DEF InitFresh, NoBox
  <2>2. CASE InitKept BY <2>2 DEF InitKept
  <2>3. CASE InitRunning BY <2>3 DEF InitRunning
  <2>. QED BY <2>1, <2>2, <2>3 DEF Init
<1>3. \A w \in Procs : pc[w] \in {"idle", "lock"} /\ op[w] \in {"none", "provision"} /\ ~gone[w]
  BY DEF Init, InitFresh, InitKept, InitRunning
<1>. QED BY <1>1, <1>2, <1>3 DEF TrackedAll, ForgottenInv, EveryContainerTracked, ClearLabels,
    DeleteLabels

\* While the panel lives, every container is that of the row or about to be recorded
\* in it: a container that could not be removed is never forgotten, one that an
\* inspection could not see is not replaced (ensureContainer, removeContainer,
\* Recreate, Update, Install, InstallModpack). The two operations that can lose one
\* are a deletion, which a provisioning may still follow, and a request whose client
\* leaves between docker.Create and the update that records the id.
THEOREM ContainersAreTracked ==
    ASSUME "delete" \notin Ops, "disconnect" \notin Faults
    PROVE  Spec => []EveryContainerTracked
<1>1. Init => TrackedAll BY TrackedInit
<1>2. TrackedAll /\ [Next]_vars => TrackedAll' BY TrackedNext
<1>3. TrackedAll => EveryContainerTracked BY DEF TrackedAll
<1>. QED BY <1>1, <1>2, <1>3, PTL DEF Spec

-----------------------------------------------------------------------------
(* What Status does with what it saw.                                          *)

\* A step is of one goroutine: it keeps its operation until it returns, and the
\* panel lives.
LEMMA StepIsOfOne ==
    ASSUME TypeOK, NEW w \in Procs, Step(w)
    PROVE  /\ \A v \in Procs \ {w} : was'[v] = was[v] /\ gone'[v] = gone[v]
           /\ op'[w] \in {op[w], "none"} /\ gone'[w] \in {gone[w], FALSE}
           /\ budget'.crashes = budget.crashes
<1>. USE DEF Fails, FailsDetached, SpendFault, Silent, Goto
<1>1. /\ was \in [Procs -> BOOLEAN] /\ gone \in [Procs -> BOOLEAN] /\ budget \in Budgets
      /\ op \in [Procs -> AllOps \union {"none", "provision"}]
  BY DEF TypeOK
<1>2. CASE LockStep(w)
  BY <1>1, <1>2 DEF LockStep, AcquireLifecycle, AcquireWorld, AcquireWorldShared, Return
<1>3. CASE StopStep(w)
  BY <1>1, <1>3 DEF Budgets, StopStep, StopGet, StopPeek, StopMark, StopInspect, StopSend, StopWait, StopHalt,
      MarkError, StopFinish
<1>4. CASE StartStep(w)
  BY <1>1, <1>4 DEF Budgets, StartStep, StartGet, StartInspect, EnsureGet, EnsureExists, EnsureClear,
      EnsureJar, EnsureFetch, EnsureCreate, EnsureRecord, EnsureSettle, StartPorts, StartMark,
      StartBoot, StartRun
<1>5. CASE KillStep(w)
  BY <1>1, <1>5 DEF Budgets, KillStep, KillTry, KillGet, KillMark, KillKill, KillFinish
<1>6. CASE ConsoleStep(w)
  BY <1>1, <1>6 DEF Budgets, ConsoleStep, ConsoleGet, ConsoleSend, ConsoleMark
<1>7. CASE RebuildStep(w)
  BY <1>1, <1>7 DEF Budgets, RebuildStep, RecreateGet, RecreatePeek, RecreateReGet, RemoveContainer,
      RecreateClear, UpdateGet, UpdateClear, UpdateWrite, DeleteGet, DeleteRow, InstallGet,
      InstallStage, InstallClear, InstallCommit, LogsGet
<1>8. CASE ModpackStep(w)
  BY <1>1, <1>8 DEF Budgets, ModpackStep, ModpackFetch, ModpackMark, ModpackGet, ModpackPublish,
      ModpackClear, ModpackCommit, ModpackFinish, ModpackFail
<1>9. CASE DataStep(w)
  BY <1>1, <1>9 DEF Budgets, DataStep, DataGet, DataCheck, DataDone, EditCheck, FilesDone
<1>. QED BY <1>2, <1>3, <1>4, <1>5, <1>6, <1>7, <1>8, <1>9 DEF Step

\* Where a step leads: to Kill, to the console and to the writes of Update only from
\* there, and never into Status.
LEMMA StepLabels ==
    ASSUME TypeOK, NEW w \in Procs, OpInv(w), Step(w)
    PROVE  /\ pc'[w] \in KillLabels \cup ConsoleLabels => pc[w] \in KillLabels \cup ConsoleLabels
           /\ pc'[w] \in {"u_get", "u_clear", "u_write"} => op[w] = "update"
           /\ pc[w] \notin {"t_inspect", "t_apply", "t_since"}
           /\ pc'[w] \notin {"t_inspect", "t_apply", "t_since"}
<1>. USE DEF Silent, Goto, KillLabels, ConsoleLabels
<1>1. pc \in [Procs -> Labels] BY DEF TypeOK
<1>2. CASE LockStep(w)
  BY <1>1, <1>2 DEF LockStep, AcquireLifecycle, AcquireWorld, AcquireWorldShared, Return, AfterLock,
      AfterWorld, OpInv, LockOps, StopOps, WorldOps
<1>3. CASE StopStep(w)
  BY <1>1, <1>3 DEF StopStep, StopGet, StopPeek, StopMark, StopInspect, StopSend, StopWait, StopHalt,
      MarkError, StopFinish, AfterStop, OpInv, StopLabels, StopOps, WorldOps
<1>4. CASE StartStep(w)
  BY <1>1, <1>4 DEF StartStep, StartGet, StartInspect, EnsureGet, EnsureExists, EnsureClear,
      EnsureJar, EnsureFetch, EnsureCreate, EnsureRecord, EnsureSettle, StartPorts, StartMark,
      StartBoot, StartRun, AfterEnsure
<1>5. CASE KillStep(w)
  BY <1>1, <1>5 DEF KillStep, KillTry, KillGet, KillMark, KillKill, KillFinish
<1>6. CASE ConsoleStep(w)
  BY <1>1, <1>6 DEF ConsoleStep, ConsoleGet, ConsoleSend, ConsoleMark
<1>7. CASE RebuildStep(w)
  BY <1>1, <1>7 DEF RebuildStep, RecreateGet, RecreatePeek, RecreateReGet, RemoveContainer,
      RecreateClear, UpdateGet, UpdateClear, UpdateWrite, DeleteGet, DeleteRow, InstallGet,
      InstallStage, InstallClear, InstallCommit, LogsGet, AfterRemove, AfterRemoveFails, OpInv
<1>8. CASE ModpackStep(w)
  BY <1>1, <1>8 DEF ModpackStep, ModpackFetch, ModpackMark, ModpackGet, ModpackPublish,
      ModpackClear, ModpackCommit, ModpackFinish, ModpackFail
<1>9. CASE DataStep(w)
  BY <1>1, <1>9 DEF DataStep, DataGet, DataCheck, DataDone, EditCheck, FilesDone
<1>. QED BY <1>2, <1>3, <1>4, <1>5, <1>6, <1>7, <1>8, <1>9 DEF Step

\* Without Kill and the console, whoever changes the row or the container, or asks
\* for its end, holds the mutex.
LEMMA ChangesAreLocked ==
    ASSUME IInv, NEW w \in Procs, HeldInv(w), Step(w)
    PROVE  life = w \/ UNCHANGED <<row, box, asked, alerted>>
<1>1. pc[w] \in Locked => life = w BY DEF IInv, ProcInv, LockInv
<1>2. OpInv(w) /\ pc[w] \notin KillLabels \cup ConsoleLabels BY DEF IInv, ProcInv, HeldInv
<1>. USE DEF Silent, ghosts, KillLabels, ConsoleLabels, Locked
<1>3. CASE LockStep(w)
  BY <1>3 DEF LockStep, AcquireLifecycle, AcquireWorld, AcquireWorldShared, Return
<1>4. CASE StopStep(w)
  BY <1>1, <1>2, <1>4 DEF StopStep, StopGet, StopPeek, StopMark, StopInspect, StopSend, StopWait, StopHalt,
      MarkError, StopFinish, StopLabels, EnsureLabels
<1>5. CASE StartStep(w)
  BY <1>1, <1>5 DEF StartStep, StartGet, StartInspect, EnsureGet, EnsureExists, EnsureClear,
      EnsureJar, EnsureFetch, EnsureCreate, EnsureRecord, EnsureSettle, StartPorts, StartMark,
      StartBoot, StartRun, StartLabels, EnsureLabels
<1>6. CASE KillStep(w)
  BY <1>2, <1>6 DEF KillStep, KillTry, KillGet, KillMark, KillKill, KillFinish
<1>7. CASE ConsoleStep(w)
  BY <1>2, <1>7 DEF ConsoleStep, ConsoleGet, ConsoleSend, ConsoleMark
<1>8. CASE RebuildStep(w)
  BY <1>1, <1>8 DEF RebuildStep, RecreateGet, RecreatePeek, RecreateReGet, RemoveContainer,
      RecreateClear, UpdateGet, UpdateClear, UpdateWrite, DeleteGet, DeleteRow, InstallGet,
      InstallStage, InstallClear, InstallCommit, LogsGet
<1>9. CASE ModpackStep(w)
  BY <1>1, <1>9 DEF ModpackStep, ModpackFetch, ModpackMark, ModpackGet, ModpackPublish,
      ModpackClear, ModpackCommit, ModpackFinish, ModpackFail
<1>10. CASE DataStep(w)
  BY <1>10 DEF DataStep, DataGet, DataCheck, DataDone, EditCheck, FilesDone
<1>. QED BY <1>3, <1>4, <1>5, <1>6, <1>7, <1>8, <1>9, <1>10 DEF Step

\* A step of an operation leaves what Status knows as it is: it is not of the monitor,
\* or changes nothing, as the monitor holds the mutex.
LEMMA StepKeepsSeen ==
    ASSUME SeenAll, NEW w \in Procs, Step(w)
    PROVE  SeenAll'
<1>1. /\ IInv /\ HeldInv(w) /\ TypeOK /\ OpInv(w) /\ Monitor \in Procs
  BY DEF SeenAll, IInv, ProcInv, Procs
<1>2. Guarantee(w) /\ IInv' BY <1>1, StepGuarantees, GuaranteeSuffices
<1>3. /\ op'[w] \in {op[w], "none"} /\ pc'[w] \notin KillLabels \cup ConsoleLabels
      /\ pc'[w] \notin {"t_inspect", "t_apply", "t_since"}
  BY <1>1, StepIsOfOne, StepLabels DEF HeldInv
<1>4. ASSUME NEW v \in Procs PROVE HeldInv(v)'
  BY <1>1, <1>2, <1>3 DEF Guarantee, Rely, HeldInv, SeenAll
<1>5. SeenInv'
  <2>1. CASE w = Monitor BY <1>3, <2>1 DEF SeenInv
  <2>2. CASE w # Monitor
    <3>1. pc'[Monitor] = pc[Monitor] /\ own'[Monitor] = own[Monitor] /\ srv'[Monitor] = srv[Monitor]
      BY <1>1, <1>2, <2>2 DEF Guarantee, Rely
    <3>2. CASE pc[Monitor] \in {"t_inspect", "t_apply", "t_since"}
      <4>1. life = Monitor BY <1>1, <3>2 DEF IInv, ProcInv, LockInv, Locked
      <4>2. row' = row BY <1>1, <2>2, <4>1, ChangesAreLocked
      <4>. QED BY <3>1, <4>2 DEF SeenAll, SeenInv
    <3>3. CASE pc[Monitor] \notin {"t_inspect", "t_apply", "t_since"} BY <3>1, <3>3 DEF SeenInv
    <3>. QED BY <3>2, <3>3
  <2>. QED BY <2>1, <2>2
<1>. QED BY <1>2, <1>4, <1>5 DEF SeenAll

\* What Status concludes from a stop intent is that it lasts or that the container is
\* down; it concludes that a server is up from a container that runs.
LEMMA ObservedIsSound ==
    ASSUME NEW state, box \in Boxes, NEW seen, seen = Observed(state, box.st, box.exit)
    PROVE  /\ state = "stopping" => seen = state \/ seen \in Offline
           /\ seen \in Online => seen = state \/ box.st = "running"
           /\ seen = "running" => box.st = "running"
           /\ box.st = "exited" => seen \in Offline
           /\ box.st = "running" => seen # "stopped"
BY DEF Observed, MapDockerState, Offline, Online, Boxes

\* So does a step of Status.
LEMMA StatusKeepsSeen ==
    ASSUME SeenAll, StatusStep
    PROVE  SeenAll'
<1>. USE DEF Goto, Silent
<1>1. /\ IInv /\ HeldInv(Monitor) /\ SeenInv /\ Monitor \in Procs /\ pc \in [Procs -> Labels]
      /\ own \in [Procs -> Copies] /\ srv \in [Procs -> Copies] /\ box \in Boxes
  BY DEF SeenAll, IInv, TypeOK, Procs
<1>2. Guarantee(Monitor) /\ IInv' BY <1>1, StatusGuarantees, GuaranteeSuffices
<1>3. /\ op' = op /\ pc'[Monitor] \in {"t_inspect", "t_apply", "t_since", "done"}
  BY <1>1 DEF StatusStep, StatusGet, StatusInspect, StatusApply, StatusSince
<1>4. ASSUME NEW v \in Procs PROVE HeldInv(v)'
  BY <1>1, <1>2, <1>3 DEF Guarantee, Rely, HeldInv, SeenAll, KillLabels, ConsoleLabels
<1>5. SeenInv'
  <2>1. CASE StatusGet BY <1>1, <2>1 DEF StatusGet, SeenInv, Snapshot
  <2>2. CASE StatusInspect
    <3>1. pc'[Monitor] \in {"t_apply", "t_since", "done"} /\ row' = row /\ own' = own
      BY <1>1, <2>2 DEF StatusInspect
    <3>2. row.state = own[Monitor].state BY <1>1, <2>2 DEF StatusInspect, SeenInv
    <3>3. CASE pc'[Monitor] = "done" BY <3>3 DEF SeenInv
    <3>4. CASE pc'[Monitor] # "done"
      <4>. DEFINE seen == Observed(own[Monitor].state, box.st, box.exit)
      <4>1. /\ srv' = [srv EXCEPT ![Monitor].state = seen]
            /\ pc'[Monitor] = IF seen # own[Monitor].state THEN "t_apply"
                              ELSE IF seen = "running" /\ ~own[Monitor].since THEN "t_since" ELSE "done"
        BY <1>1, <2>2, <3>4 DEF StatusInspect
      <4>2. srv'[Monitor].state = seen BY <1>1, <4>1 DEF Copies
      <4>3. own[Monitor].state = "stopping" => seen = "stopping" \/ seen \in Offline
        BY <1>1, ObservedIsSound
      <4>. QED BY <3>1, <3>2, <4>1, <4>2, <4>3 DEF SeenInv
    <3>. QED BY <3>3, <3>4
  <2>3. CASE StatusApply \/ StatusSince BY <1>1, <2>3 DEF StatusApply, StatusSince, SeenInv
  <2>. QED BY <2>1, <2>2, <2>3 DEF StatusStep
<1>. QED BY <1>2, <1>4, <1>5 DEF SeenAll

\* What Status is about to record comes of the inspection, and no other step touches it.
LEMMA AppliedNext == AppliedAll /\ [Next]_vars => AppliedAll'
<1> SUFFICES ASSUME AppliedAll, [Next]_vars PROVE AppliedAll' OBVIOUS
<1>1. /\ IInv /\ AppliedInv /\ Monitor \in Procs /\ pc \in [Procs -> Labels] /\ box \in Boxes
      /\ own \in [Procs -> Copies] /\ srv \in [Procs -> Copies]
  BY DEF AppliedAll, IInv, TypeOK, Procs
<1>2. IInv' BY <1>1, NextKeeps
<1>. SUFFICES AppliedInv' BY <1>2 DEF AppliedAll
<1>3. ASSUME NEW w \in Workers, NEW o \in Ops, Begin(w, o) PROVE AppliedInv'
  <2>1. w \in Procs /\ w # Monitor BY ProcsAssumption DEF Procs
  <2>2. pc'[Monitor] = pc[Monitor] BY <1>1, <1>3, <2>1 DEF Begin, Goto
  <2>. QED BY <1>1, <1>3, <2>2 DEF Begin, Silent, AppliedInv
<1>4. ASSUME NEW w \in Procs, Disconnect(w) PROVE AppliedInv'
  BY <1>1, <1>4 DEF Disconnect, Silent, AppliedInv
<1>5. ASSUME NEW w \in Procs, Step(w) PROVE AppliedInv'
  <2>1. Guarantee(w) /\ OpInv(w) BY <1>1, <1>5, StepGuarantees DEF IInv, ProcInv
  <2>2. pc'[w] # "t_apply" BY <1>1, <1>5, <2>1, StepLabels DEF IInv
  <2>3. w # Monitor => /\ pc'[Monitor] = pc[Monitor] /\ own'[Monitor] = own[Monitor]
                       /\ srv'[Monitor] = srv[Monitor]
    BY <1>1, <2>1 DEF Guarantee, Rely
  <2>. QED BY <1>1, <2>2, <2>3 DEF AppliedInv
<1>6. CASE StatusStep
  <2>. USE DEF Goto, Silent
  <2>1. CASE StatusGet BY <1>1, <2>1 DEF StatusGet, AppliedInv
  <2>2. CASE StatusInspect
    <3>1. CASE pc'[Monitor] # "t_apply" BY <3>1 DEF AppliedInv
    <3>2. CASE pc'[Monitor] = "t_apply"
      <4>. DEFINE seen == Observed(own[Monitor].state, box.st, box.exit)
      <4>1. /\ srv' = [srv EXCEPT ![Monitor].state = seen] /\ own' = own
            /\ seen # own[Monitor].state
        BY <1>1, <2>2, <3>2 DEF StatusInspect
      <4>2. srv'[Monitor].state = seen BY <1>1, <4>1 DEF Copies
      <4>3. own[Monitor].state = "stopping" => seen = "stopping" \/ seen \in Offline
        BY <1>1, ObservedIsSound
      <4>. HIDE DEF seen
      <4>. QED BY <4>1, <4>2, <4>3 DEF AppliedInv
    <3>. QED BY <3>1, <3>2
  <2>3. CASE StatusApply \/ StatusSince BY <1>1, <2>3 DEF StatusApply, StatusSince, AppliedInv
  <2>. QED BY <1>6, <2>1, <2>2, <2>3 DEF StatusStep
<1>7. CASE ContainerExit \/ InstallerStep \/ ContainerLost
  BY <1>1, <1>7 DEF ContainerExit, InstallerStep, ContainerLost, Silent, locals, AppliedInv
<1>8. CASE PanelCrash BY <1>1, <1>8 DEF PanelCrash, AppliedInv
<1>9. CASE UNCHANGED vars BY <1>1, <1>9 DEF vars, locals, AppliedInv
<1>. QED BY <1>3, <1>4, <1>5, <1>6, <1>7, <1>8, <1>9 DEF Next, Environment

\* What Status concludes from the container replaces a requested stop only by a state of a
\* container that is down, whatever runs beside it and whatever fails: changeState drops
\* what was concluded of another state of the row.
THEOREM ConclusionsYieldToStops == Spec => ObservationsYield
<1>1. Init => AppliedAll
  <2>1. Init => \A w \in Procs : pc[w] \in {"idle", "lock"}
    BY DEF Init, InitFresh, InitKept, InitRunning
  <2>. QED BY <2>1, InitEstablishes DEF AppliedAll, AppliedInv, Procs
<1>2. AppliedAll =>
        (StatusApply /\ row.state = "stopping" => row'.state \in {"stopping"} \union Offline)
  BY DEF AppliedAll, AppliedInv, IInv, TypeOK, Rows, StatusApply, ObserveState
<1>. QED BY <1>1, <1>2, AppliedNext, PTL DEF Spec, ObservationsYield

\* Every step keeps what Status knows, where nobody ends the server without the mutex.
LEMMA SeenNext ==
    ASSUME Ops \cap {"kill", "console"} = {}
    PROVE  SeenAll /\ [Next]_vars => SeenAll'
<1> SUFFICES ASSUME SeenAll, [Next]_vars PROVE SeenAll' OBVIOUS
<1>1. /\ IInv /\ Monitor \in Procs /\ pc \in [Procs -> Labels]
      /\ op \in [Procs -> AllOps \union {"none", "provision"}]
  BY DEF SeenAll, IInv, TypeOK, Procs
<1>2. ASSUME NEW w \in Workers, NEW o \in Ops, Begin(w, o) PROVE SeenAll'
  <2>1. w \in Procs /\ w # Monitor BY ProcsAssumption DEF Procs
  <2>2. Guarantee(w) /\ IInv' BY <1>1, <1>2, <2>1, BeginKeeps, GuaranteeSuffices
  <2>3. op'[w] = o /\ pc'[w] \in {"e_world", "n_fetch", "lock"} /\ o \notin {"kill", "console"}
    BY <1>1, <1>2, <2>1 DEF Begin, Goto, Entry
  <2>4. \A v \in Procs \ {w} : pc'[v] = pc[v] /\ op'[v] = op[v] BY <2>2 DEF Guarantee, Rely
  <2>5. row' = row /\ own' = own /\ srv' = srv BY <1>2 DEF Begin, Silent
  <2>6. ASSUME NEW v \in Procs PROVE HeldInv(v)'
    BY <2>3, <2>4 DEF HeldInv, SeenAll, KillLabels, ConsoleLabels
  <2>. QED BY <1>1, <2>1, <2>2, <2>4, <2>5, <2>6 DEF SeenAll, SeenInv
<1>3. ASSUME NEW w \in Procs, Disconnect(w) PROVE SeenAll'
  <2>1. IInv' BY <1>1, <1>3, DisconnectKeeps, GuaranteeSuffices
  <2>. QED BY <1>3, <2>1 DEF Disconnect, Silent, SeenAll, SeenInv, HeldInv
<1>4. ASSUME NEW w \in Procs, Step(w) PROVE SeenAll' BY <1>4, StepKeepsSeen
<1>5. CASE StatusStep BY <1>5, StatusKeepsSeen
<1>6. CASE ContainerExit \/ InstallerStep \/ ContainerLost
  <2>1. IInv' BY <1>1, <1>6, EnvironmentKeeps
  <2>2. UNCHANGED <<row, pc, op, own, srv>>
    BY <1>6 DEF ContainerExit, InstallerStep, ContainerLost, Silent, locals
  <2>. QED BY <2>1, <2>2 DEF SeenAll, SeenInv, HeldInv
<1>7. CASE PanelCrash
  <2>1. IInv' BY <1>1, <1>7, PanelCrashKeeps
  <2>. QED BY <1>1, <1>7, <2>1 DEF PanelCrash, SeenAll, SeenInv, HeldInv, KillLabels, ConsoleLabels
<1>8. CASE UNCHANGED vars
  <2>1. IInv' BY <1>1, <1>8, StutterKeeps
  <2>. QED BY <1>8, <2>1 DEF vars, locals, SeenAll, SeenInv, HeldInv
<1>. QED BY <1>2, <1>3, <1>4, <1>5, <1>6, <1>7, <1>8 DEF Next, Environment

\* At first Status has seen nothing.
LEMMA SeenInit == Init => SeenAll
<1> SUFFICES ASSUME Init PROVE SeenAll OBVIOUS
<1>1. IInv BY InitEstablishes
<1>2. \A w \in Procs : pc[w] \in {"idle", "lock"} /\ op[w] \in {"none", "provision"}
  BY DEF Init, InitFresh, InitKept, InitRunning
<1>. QED BY <1>1, <1>2 DEF SeenAll, SeenInv, HeldInv, KillLabels, ConsoleLabels, Procs

\* setState records the start time with the state running, and forgets it with any
\* other.
LEMMA SetStateSince ==
    ASSUME row \in Rows, row.state = "running" => row.since, NEW next, SetState(next)
    PROVE  row'.state = "running" => row'.since
BY DEF SetState, Rows

\* Only Update writes running without a start time.
LEMMA StepKeepsSince ==
    ASSUME TypeOK, NEW w \in Procs, OpInv(w), NoUpdateInv(w), Step(w),
           row.state = "running" => row.since
    PROVE  row'.state = "running" => row'.since
<1>. USE DEF Silent
<1>1. row \in Rows BY DEF TypeOK
<1>2. CASE LockStep(w)
  BY <1>1, <1>2 DEF LockStep, AcquireLifecycle, AcquireWorld, AcquireWorldShared, Return
<1>3. CASE StopStep(w)
  BY <1>1, <1>3, SetStateSince DEF StopStep, StopGet, StopPeek, StopMark, StopInspect, StopSend,
      StopWait, StopHalt, MarkError, StopFinish
<1>4. CASE StartStep(w)
  <2>1. CASE EnsureClear(w) \/ EnsureRecord(w)
    BY <1>1, <2>1 DEF EnsureClear, EnsureRecord, Rows
  <2>2. CASE ~(EnsureClear(w) \/ EnsureRecord(w))
    BY <1>1, <1>4, <2>2, SetStateSince DEF StartStep, StartGet, StartInspect, EnsureGet, EnsureExists,
        EnsureJar, EnsureFetch, EnsureCreate, EnsureSettle, StartPorts, StartMark, StartBoot, StartRun
  <2>. QED BY <2>1, <2>2
<1>5. CASE KillStep(w)
  BY <1>1, <1>5, SetStateSince DEF KillStep, KillTry, KillGet, KillMark, KillKill, KillFinish
<1>6. CASE ConsoleStep(w)
  BY <1>1, <1>6, SetStateSince DEF ConsoleStep, ConsoleGet, ConsoleSend, ConsoleMark
<1>7. CASE RebuildStep(w)
  BY <1>1, <1>7 DEF RebuildStep, RecreateGet, RecreatePeek, RecreateReGet, RemoveContainer,
      RecreateClear, UpdateGet, UpdateClear, UpdateWrite, DeleteGet, DeleteRow, InstallGet,
      InstallStage, InstallClear, InstallCommit, LogsGet, NoUpdateInv, Rows
<1>8. CASE ModpackStep(w)
  BY <1>1, <1>8, SetStateSince DEF ModpackStep, ModpackFetch, ModpackMark, ModpackGet, ModpackPublish,
      ModpackClear, ModpackCommit, ModpackFinish, ModpackFail, Rows
<1>9. CASE DataStep(w)
  BY <1>1, <1>9 DEF DataStep, DataGet, DataCheck, DataDone, EditCheck, FilesDone
<1>. QED BY <1>2, <1>3, <1>4, <1>5, <1>6, <1>7, <1>8, <1>9 DEF Step

\* So Status never writes a start time that is missing.
LEMMA StatusKeepsSince ==
    ASSUME SinceAll, StatusStep
    PROVE  SinceInv'
<1>. USE DEF Goto, Silent
<1>1. /\ SinceInv /\ Monitor \in Procs /\ pc \in [Procs -> Labels] /\ own \in [Procs -> Copies]
      /\ srv \in [Procs -> Copies] /\ box \in Boxes /\ row \in Rows
  BY DEF SinceAll, IInv, TypeOK, Procs
<1>2. CASE StatusGet BY <1>1, <1>2 DEF StatusGet, SinceInv, Snapshot
<1>3. CASE StatusInspect
  <2>1. pc'[Monitor] \in {"t_apply", "t_since", "done"} /\ row' = row /\ own' = own
    BY <1>1, <1>3 DEF StatusInspect
  <2>2. CASE pc'[Monitor] = "done" BY <1>1, <2>1, <2>2 DEF SinceInv
  <2>3. CASE pc'[Monitor] # "done"
    <3>. DEFINE seen == Observed(own[Monitor].state, box.st, box.exit)
    <3>1. /\ srv' = [srv EXCEPT ![Monitor].state = seen]
          /\ pc'[Monitor] = IF seen # own[Monitor].state THEN "t_apply"
                            ELSE IF seen = "running" /\ ~own[Monitor].since THEN "t_since" ELSE "done"
      BY <1>1, <1>3, <2>3 DEF StatusInspect
    <3>2. srv'[Monitor].state = seen BY <1>1, <3>1 DEF Copies
    <3>3. own[Monitor].state = "running" => own[Monitor].since
      BY <1>1, <1>3 DEF StatusInspect, SinceInv
    <3>4. own[Monitor].state = "stopping" => seen = "stopping" \/ seen \in Offline
      BY <1>1, ObservedIsSound
    <3>. HIDE DEF seen
    <3>. QED BY <1>1, <2>1, <3>1, <3>2, <3>3, <3>4 DEF SinceInv
  <2>. QED BY <2>2, <2>3
<1>4. CASE StatusApply
  BY <1>1, <1>4 DEF StatusApply, ObserveState, SinceInv, Rows
<1>5. CASE StatusSince BY <1>1, <1>5 DEF StatusSince, SinceInv
<1>. QED BY <1>2, <1>3, <1>4, <1>5 DEF StatusStep

\* Every step keeps this, where no row is written back.
LEMMA SinceNext ==
    ASSUME "update" \notin Ops
    PROVE  SinceAll /\ [Next]_vars => SinceAll'
<1> SUFFICES ASSUME SinceAll, [Next]_vars PROVE SinceAll' OBVIOUS
<1>1. /\ IInv /\ TypeOK /\ Monitor \in Procs /\ pc \in [Procs -> Labels] /\ SinceInv
      /\ op \in [Procs -> AllOps \union {"none", "provision"}]
  BY DEF SinceAll, IInv, TypeOK, Procs
<1>2. ASSUME NEW w \in Workers, NEW o \in Ops, Begin(w, o) PROVE SinceAll'
  <2>1. w \in Procs /\ w # Monitor BY ProcsAssumption DEF Procs
  <2>2. Guarantee(w) /\ IInv' BY <1>1, <1>2, <2>1, BeginKeeps, GuaranteeSuffices
  <2>3. op'[w] = o /\ pc'[w] \in {"k_try", "c_get", "e_world", "n_fetch", "lock"} /\ o # "update"
    BY <1>1, <1>2, <2>1 DEF Begin, Goto, Entry
  <2>4. \A v \in Procs \ {w} : pc'[v] = pc[v] /\ op'[v] = op[v] BY <2>2 DEF Guarantee, Rely
  <2>5. row' = row /\ own' = own /\ srv' = srv BY <1>2 DEF Begin, Silent
  <2>6. ASSUME NEW v \in Procs PROVE NoUpdateInv(v)' BY <2>3, <2>4 DEF NoUpdateInv, SinceAll
  <2>. QED BY <1>1, <2>1, <2>2, <2>4, <2>5, <2>6 DEF SinceAll, SinceInv
<1>3. ASSUME NEW w \in Procs, Disconnect(w) PROVE SinceAll'
  <2>1. IInv' BY <1>1, <1>3, DisconnectKeeps, GuaranteeSuffices
  <2>. QED BY <1>3, <2>1 DEF Disconnect, Silent, SinceAll, SinceInv, NoUpdateInv
<1>4. ASSUME NEW w \in Procs, Step(w) PROVE SinceAll'
  <2>1. Guarantee(w) /\ IInv' /\ OpInv(w) /\ NoUpdateInv(w)
    BY <1>1, <1>4, StepGuarantees, GuaranteeSuffices DEF IInv, ProcInv, SinceAll
  <2>2. /\ op'[w] \in {op[w], "none"} /\ pc'[w] \notin {"u_get", "u_clear", "u_write"}
        /\ pc'[w] \notin {"t_inspect", "t_apply", "t_since"}
    BY <1>1, <1>4, <2>1, StepIsOfOne, StepLabels DEF NoUpdateInv
  <2>3. \A v \in Procs \ {w} : /\ pc'[v] = pc[v] /\ op'[v] = op[v]
                               /\ own'[v] = own[v] /\ srv'[v] = srv[v]
    BY <2>1 DEF Guarantee, Rely
  <2>4. ASSUME NEW v \in Procs PROVE NoUpdateInv(v)'
    BY <2>1, <2>2, <2>3 DEF NoUpdateInv, SinceAll
  <2>5. row'.state = "running" => row'.since BY <1>1, <1>4, <2>1, StepKeepsSince DEF SinceInv
  <2>6. SinceInv'
    <3>1. CASE w = Monitor BY <2>2, <2>5, <3>1 DEF SinceInv
    <3>2. CASE w # Monitor BY <1>1, <2>3, <2>5, <3>2 DEF SinceInv
    <3>. QED BY <3>1, <3>2
  <2>. QED BY <2>1, <2>4, <2>6 DEF SinceAll
<1>5. CASE StatusStep
  <2>1. Guarantee(Monitor) /\ IInv' BY <1>1, <1>5, StatusGuarantees, GuaranteeSuffices
  <2>2. op' = op /\ pc'[Monitor] \in {"t_inspect", "t_apply", "t_since", "done"}
    BY <1>1, <1>5 DEF StatusStep, StatusGet, StatusInspect, StatusApply, StatusSince, Goto
  <2>3. ASSUME NEW v \in Procs PROVE NoUpdateInv(v)'
    BY <2>1, <2>2 DEF Guarantee, Rely, NoUpdateInv, SinceAll
  <2>. QED BY <1>5, <2>1, <2>3, StatusKeepsSince DEF SinceAll
<1>6. CASE ContainerExit \/ InstallerStep \/ ContainerLost
  <2>1. IInv' BY <1>1, <1>6, EnvironmentKeeps
  <2>2. UNCHANGED <<row, pc, op, own, srv>>
    BY <1>6 DEF ContainerExit, InstallerStep, ContainerLost, Silent, locals
  <2>. QED BY <2>1, <2>2 DEF SinceAll, SinceInv, NoUpdateInv
<1>7. CASE PanelCrash
  <2>1. IInv' BY <1>1, <1>7, PanelCrashKeeps
  <2>. QED BY <1>1, <1>7, <2>1 DEF PanelCrash, Silent, SinceAll, SinceInv, NoUpdateInv
<1>8. CASE UNCHANGED vars
  <2>1. IInv' BY <1>1, <1>8, StutterKeeps
  <2>. QED BY <1>8, <2>1 DEF vars, locals, SinceAll, SinceInv, NoUpdateInv
<1>. QED BY <1>2, <1>3, <1>4, <1>5, <1>6, <1>7, <1>8 DEF Next, Environment

\* At first a server that runs has its start time.
LEMMA SinceInit == Init => SinceAll
<1> SUFFICES ASSUME Init PROVE SinceAll OBVIOUS
<1>1. IInv BY InitEstablishes
<1>2. \A w \in Procs : pc[w] \in {"idle", "lock"} /\ op[w] \in {"none", "provision"}
  BY DEF Init, InitFresh, InitKept, InitRunning
<1>3. row.state = "running" => row.since
  <2>1. CASE InitFresh BY <2>1 DEF InitFresh
  <2>2. CASE InitKept BY <2>2 DEF InitKept
  <2>3. CASE InitRunning BY <2>3 DEF InitRunning
  <2>. QED BY <2>1, <2>2, <2>3 DEF Init
<1>. QED BY <1>1, <1>2, <1>3 DEF SinceAll, SinceInv, NoUpdateInv, Procs

\* A step of Status replaces a stop intent only by a state of a container that is
\* down, where either invariant holds.
LEMMA StatusYields ==
    ASSUME SeenAll \/ SinceAll, StatusStep, row.state = "stopping"
    PROVE  row'.state \in {"stopping"} \union Offline
<1>1. /\ row \in Rows
      /\ pc[Monitor] = "t_apply" /\ own[Monitor].state = "stopping" => srv[Monitor].state \in Offline
      /\ pc[Monitor] # "t_since"
  BY DEF SeenAll, SinceAll, SeenInv, SinceInv, IInv, TypeOK
<1>. QED BY <1>1 DEF StatusStep, StatusGet, StatusInspect, StatusApply, StatusSince, ObserveState,
      Silent, Rows

\* An observation of Status never replaces a stop that was requested after it read the
\* row, where no row is written back from a copy, or where nobody ends the server
\* without the mutex: changeState drops it as the state is not the expected one, and
\* the start time it writes without one is never missing, or nobody wrote in between.
\* With a force stop during an update that keeps running in its copy, it does.
THEOREM StatusYieldsToStops ==
    ASSUME "update" \notin Ops \/ Ops \cap {"kill", "console"} = {}
    PROVE  Spec => RequestedStopKept
<1>1. CASE "update" \notin Ops
  <2>1. Init => SinceAll BY SinceInit
  <2>2. SinceAll /\ [Next]_vars => SinceAll' BY <1>1, SinceNext
  <2>3. SinceAll => (StatusStep /\ row.state = "stopping" => row'.state \in {"stopping"} \union Offline)
    BY StatusYields
  <2>. QED BY <2>1, <2>2, <2>3, PTL DEF Spec, RequestedStopKept
<1>2. CASE Ops \cap {"kill", "console"} = {}
  <2>1. Init => SeenAll BY SeenInit
  <2>2. SeenAll /\ [Next]_vars => SeenAll' BY <1>2, SeenNext
  <2>3. SeenAll => (StatusStep /\ row.state = "stopping" => row'.state \in {"stopping"} \union Offline)
    BY StatusYields
  <2>. QED BY <2>1, <2>2, <2>3, PTL DEF Spec, RequestedStopKept
<1>. QED BY <1>1, <1>2

-----------------------------------------------------------------------------
(* Alerts.                                                                     *)

\* What a step of w owes to the truth of alerts: where the container ended as asked,
\* the row says so or w is about to.
Alerts(w) == EndsInv' /\ AlertInv(w)'

\* A step of w that changes nothing an alert is about, and gets to no label where
\* something is about to be.
SpecialLabels == StoppingLabels \cup {"s_record", "s_settle", "s_jar", "s_run", "t_since",
                                      "u_write", "t_apply"}
Still(w) ==
    /\ UNCHANGED <<row, box, asked, alerted>>
    /\ ~Answers(w) /\ ~Asking(w)
    /\ pc'[w] \notin SpecialLabels

\* The witness of EndsInv is another goroutine, which stays where it is.
LEMMA EndsStay ==
    ASSUME EndsInv, NEW w \in Procs, Rely(w), UNCHANGED <<row, box, asked, alerted>>,
           ~Answers(w), ~Asking(w)
    PROVE  EndsInv'
<1>1. \A v \in Procs \ {w} : pc'[v] = pc[v] /\ op'[v] = op[v] BY DEF Rely
<1>2. ASSUME (Ended /\ row.state \in Online)' PROVE \E v \in Procs : Answers(v)'
  <2>1. Ended /\ row.state \in Online BY <1>2 DEF Ended, Accounted
  <2>2. PICK v \in Procs : Answers(v) BY <2>1 DEF EndsInv
  <2>. QED BY <1>1, <2>2 DEF Answers
<1>3. ASSUME (Accounted /\ box.st = "running")' PROVE \E v \in Procs : Asking(v)'
  <2>1. Accounted /\ box.st = "running" BY <1>3 DEF Accounted
  <2>2. PICK v \in Procs : Asking(v) BY <2>1 DEF EndsInv
  <2>. QED BY <1>1, <2>2 DEF Asking
<1>. QED BY <1>2, <1>3 DEF EndsInv

\* A still step keeps alerts true.
LEMMA StillAlerts ==
    ASSUME EndsInv, NEW w \in Procs, Rely(w), Still(w)
    PROVE  Alerts(w)
BY EndsStay DEF Still, Alerts, AlertInv, SpecialLabels

\* So does one after which no container ended as asked is recorded as one that
\* should be up, and none runs on.
LEMMA EndedAlerts ==
    ASSUME NEW w \in Procs,
           (Ended /\ row.state \in Online)' => Answers(w)',
           (Accounted /\ box.st = "running")' => Asking(w)'
    PROVE  EndsInv'
BY DEF EndsInv

\* With the mutex it is w itself that answers for a container that ended.
LEMMA HolderAnswers ==
    ASSUME IInv, EndsInv, NEW w \in Procs, life = w
    PROVE  /\ Ended /\ row.state \in Online => Answers(w)
           /\ Accounted /\ box.st = "running" => Asking(w)
<1>1. ASSUME NEW v \in Procs, Answers(v) \/ Asking(v) PROVE v = w
  <2>1. pc[v] \in Locked
    BY <1>1 DEF Answers, Asking, PackLabels, Locked, StopLabels, EnsureLabels, StartLabels
  <2>. QED BY <2>1 DEF IInv, ProcInv, LockInv
<1>. QED BY <1>1 DEF EndsInv

\* Where Alerts is needed: the panel never died.
Lives == budget.crashes = MaxCrashes

\* What is known of a goroutine about to take a step.
Knows(w) ==
    /\ IInv /\ HeldInv(w) /\ (gone[w] => op[w] # "modpack")
    /\ EndsInv /\ AlertInv(w)
    /\ Guarantee(w)

\* The steps of the locks.
LEMMA LockStepAlerts ==
    ASSUME NEW w \in Procs, Knows(w), LockStep(w)
    PROVE  Alerts(w)
<1>. USE DEF Goto, Silent, SpecialLabels, StoppingLabels, ghosts, Answers, Asking, PackLabels
<1>1. /\ EndsInv /\ Rely(w) /\ pc \in [Procs -> Labels] /\ OpInv(w)
      /\ op \in [Procs -> AllOps \union {"none", "provision"}]
  BY DEF Knows, IInv, TypeOK, ProcInv, Guarantee
<1>2. CASE AcquireLifecycle(w)
  BY <1>1, <1>2, StillAlerts DEF AcquireLifecycle, AfterLock, Still, OpInv, LockOps, StopOps, WorldOps
<1>3. CASE AcquireWorld(w)
  BY <1>1, <1>3, StillAlerts DEF AcquireWorld, AfterWorld, Still, OpInv, WorldOps
<1>4. CASE AcquireWorldShared(w)
  BY <1>1, <1>4, StillAlerts DEF AcquireWorldShared, Still
<1>5. CASE Return(w)
  BY <1>1, <1>5, StillAlerts DEF Return, Still
<1>. QED BY <1>2, <1>3, <1>4, <1>5 DEF LockStep

\* The steps of backups and edits.
LEMMA DataStepAlerts ==
    ASSUME NEW w \in Procs, Knows(w), DataStep(w)
    PROVE  Alerts(w)
<1>. USE DEF Goto, Silent, SpecialLabels, StoppingLabels, PackLabels, ghosts
<1>1. EndsInv /\ Rely(w) /\ pc \in [Procs -> Labels] BY DEF Knows, IInv, TypeOK, Guarantee
<1>2. CASE pc[w] # "n_undo"
  BY <1>1, <1>2, StillAlerts DEF DataStep, DataGet, DataCheck, DataDone, EditCheck, FilesDone, Still,
      Answers, Asking
<1>3. CASE pc[w] = "n_undo"
  <2>1. /\ UNCHANGED <<row, box, asked, alerted>> /\ pc'[w] = "n_fail"
    BY <1>1, <1>3 DEF DataStep, DataGet, DataCheck, DataDone, EditCheck, FilesDone
  <2>2. IInv /\ life = w BY <1>3 DEF Knows, IInv, ProcInv, LockInv, Locked
  <2>3. Accounted /\ box.st = "running" => Asking(w) BY <1>1, <2>2, HolderAnswers
  <2>4. EndsInv' BY <1>3, <2>1, <2>3, EndedAlerts DEF Answers, Asking, Accounted
  <2>. QED BY <2>1, <2>4 DEF Alerts, AlertInv
<1>. QED BY <1>2, <1>3

\* setState of a row that is there, and of one that is not.
LEMMA SetStateSets ==
    ASSUME row \in Rows, NEW next, SetState(next)
    PROVE  /\ row'.here = row.here /\ row'.cid = row.cid
           /\ row.here => row'.state = next
           /\ note' # "crashed"
BY DEF SetState, Rows, NoteFor

\* The steps of stopLocked: the row says stopping before the container is asked to
\* end, and it is asked until it has.
LEMMA StopStepAlerts ==
    ASSUME "stop" \notin Faults, NEW w \in Procs, Knows(w), StopStep(w)
    PROVE  Alerts(w)
<1>. USE DEF Goto, Silent, SpecialLabels, StoppingLabels, ghosts, Answers, Asking, PackLabels
<1>1. /\ EndsInv /\ AlertInv(w) /\ Rely(w) /\ pc \in [Procs -> Labels] /\ OpInv(w) /\ IInv /\ TypeOK
      /\ row \in Rows /\ pc[w] \notin KillLabels /\ CopyInv(w) /\ LockInv(w) /\ DownInv(w)
      /\ RunningTracked /\ (box.st = "running" => box.id # 0)
  BY DEF Knows, IInv, TypeOK, ProcInv, Guarantee, HeldInv, GlobalInv
<1>2. pc[w] \in StopLabels \cup {"s_fail"}
  BY <1>1 DEF StopStep, StopGet, StopPeek, StopMark, StopInspect, StopSend, StopWait, StopHalt,
      MarkError, StopFinish, StopLabels, KillLabels
<1>3. life = w BY <1>1, <1>2 DEF LockInv, Locked, EnsureLabels
<1>4. /\ Ended /\ row.state \in Online => Answers(w)
      /\ Accounted /\ box.st = "running" => Asking(w)
  BY <1>1, <1>3, HolderAnswers
<1>5. CASE StopGet(w)
  BY <1>1, <1>5, StillAlerts DEF StopGet, AfterStop, Still, OpInv, StopLabels, StopOps, WorldOps
<1>6. CASE StopPeek(w)
  BY <1>1, <1>6, StillAlerts DEF StopPeek, AfterStop, Still, OpInv, StopLabels, StopOps, WorldOps
<1>7. CASE StopMark(w)
  <2>1. CASE gone[w] BY <1>1, <1>7, <2>1, StillAlerts DEF StopMark, Still
  <2>2. CASE ~gone[w]
    <3>1. /\ pc[w] = "p_mark" /\ pc'[w] \in {"p_fin", "p_inspect"} /\ UNCHANGED <<box, asked, alerted>>
          /\ SetState("stopping")
      BY <1>1, <1>7, <2>2 DEF StopMark
    <3>2. row'.here => row'.state = "stopping" BY <1>1, <3>1, SetStateSets
    <3>3. AlertInv(w)' BY <3>1, <3>2 DEF AlertInv, Online
    <3>4. EndsInv' BY <1>4, <3>1, <3>2, EndedAlerts DEF Ended, Accounted, Online
    <3>. QED BY <3>3, <3>4 DEF Alerts
  <2>. QED BY <2>1, <2>2
<1>8. CASE StopInspect(w)
  <2>1. /\ UNCHANGED <<row, box, asked, alerted>> /\ pc[w] = "p_inspect"
        /\ pc'[w] \in {"p_fin", "p_send", "p_halt", "done"}
    BY <1>1, <1>8 DEF StopInspect
  <2>2. EndsInv' BY <1>1, <2>1, EndsStay
  <2>3. AlertInv(w)' BY <1>1, <2>1 DEF AlertInv
  <2>. QED BY <2>2, <2>3 DEF Alerts
<1>9. CASE StopSend(w)
  <2>1. /\ UNCHANGED <<row, box, alerted>> /\ pc[w] = "p_send"
        /\ \/ asked' /\ pc'[w] = "p_wait"
           \/ asked' = asked /\ pc'[w] = "p_haltctx"
    BY <1>1, <1>9 DEF StopSend
  <2>2. row.here => row.state \notin Online BY <1>1, <2>1 DEF AlertInv
  <2>3. EndsInv' BY <1>4, <2>1, <2>2, EndedAlerts DEF Ended, Accounted
  <2>4. AlertInv(w)' BY <2>1, <2>2 DEF AlertInv
  <2>. QED BY <2>3, <2>4 DEF Alerts
<1>10. CASE StopWait(w)
  <2>1. /\ UNCHANGED <<row, box, asked, alerted>> /\ pc[w] = "p_wait"
        /\ (pc'[w] = "p_fin" /\ box.st # "running") \/ pc'[w] = "p_halt"
    BY <1>1, <1>10 DEF StopWait
  <2>2. row.here => row.state \notin Online BY <1>1, <2>1 DEF AlertInv
  <2>3. EndsInv' BY <1>4, <2>1, <2>2, EndedAlerts DEF Ended, Accounted
  <2>4. AlertInv(w)' BY <2>1, <2>2 DEF AlertInv
  <2>. QED BY <2>3, <2>4 DEF Alerts
<1>11. CASE StopHalt(w)
  <2>1. /\ UNCHANGED <<row, alerted>> /\ pc[w] \in {"p_haltctx", "p_halt"}
        /\ pc'[w] \in {"p_fin", "p_fail", "done"}
    BY <1>1, <1>11 DEF StopHalt
  <2>2. row.here => row.state \notin Online BY <1>1, <2>1 DEF AlertInv
  <2>3. AlertInv(w)' BY <2>1, <2>2 DEF AlertInv
  <2>4. CASE DockerStopped(srv[w].cid)
    <3>1. srv[w].cid = row.cid BY <1>1, <2>1 DEF CopyInv, StopLabels
    <3>2. box'.st # "running"
      BY <1>1, <2>4, <3>1 DEF DockerStopped, Up, Present, Halted, RunningTracked, TypeOK, Boxes
    <3>3. EndsInv' BY <2>1, <2>2, <3>2, EndedAlerts DEF Ended, Accounted
    <3>. QED BY <2>3, <3>3 DEF Alerts
  <2>5. CASE UNCHANGED <<box, asked>> /\ pc[w] = "p_haltctx"
    <3>1. EndsInv' BY <1>1, <2>1, <2>5, EndsStay
    <3>. QED BY <2>3, <3>1 DEF Alerts
  <2>. QED BY <1>11, <2>4, <2>5 DEF StopHalt, Fails, FailsDetached, CanFail
<1>12. CASE MarkError(w)
  <2>1. /\ SetState("error") /\ pc[w] \in {"p_fail", "s_fail"} /\ pc'[w] = "done"
        /\ UNCHANGED <<box, asked, alerted>>
    BY <1>1, <1>12 DEF MarkError, KillLabels
  <2>2. row'.here => row'.state = "error" BY <1>1, <2>1, SetStateSets
  <2>3. EndsInv' BY <1>4, <2>1, <2>2, EndedAlerts DEF Ended, Accounted, Online
  <2>. QED BY <2>1, <2>3 DEF Alerts, AlertInv
<1>13. CASE StopFinish(w)
  <2>1. /\ SetState("stopped") /\ pc[w] = "p_fin" /\ UNCHANGED <<box, asked, alerted>>
        /\ pc'[w] \notin SpecialLabels
    BY <1>1, <1>13 DEF StopFinish, AfterStop, OpInv, StopLabels, StopOps, WorldOps
  <2>2. row'.here => row'.state = "stopped" BY <1>1, <2>1, SetStateSets
  <2>3. EndsInv' BY <1>4, <2>1, <2>2, EndedAlerts DEF Ended, Accounted, Online
  <2>. QED BY <2>1, <2>3 DEF Alerts, AlertInv
<1>. QED BY <1>5, <1>6, <1>7, <1>8, <1>9, <1>10, <1>11, <1>12, <1>13 DEF StopStep

\* The steps of startLocked and ensureContainer: a server is recorded as up with a
\* container that never ran, or was started since, or the error follows.
LEMMA StartStepAlerts ==
    ASSUME NEW w \in Procs, Knows(w), StartStep(w)
    PROVE  Alerts(w)
<1>. USE DEF Goto, Silent, SpecialLabels, StoppingLabels, ghosts, Answers, Asking, PackLabels
<1>1. /\ EndsInv /\ AlertInv(w) /\ Rely(w) /\ pc \in [Procs -> Labels] /\ OpInv(w) /\ IInv /\ TypeOK
      /\ row \in Rows /\ box \in Boxes /\ srv \in [Procs -> Copies] /\ CopyInv(w) /\ LockInv(w)
  BY DEF Knows, IInv, TypeOK, ProcInv, Guarantee
<1>2. pc[w] \in StartLabels \cup EnsureLabels
  BY <1>1 DEF StartStep, StartGet, StartInspect, EnsureGet, EnsureExists, EnsureClear, EnsureJar,
      EnsureFetch, EnsureCreate, EnsureRecord, EnsureSettle, StartPorts, StartMark, StartBoot,
      StartRun, StartLabels, EnsureLabels
<1>3. life = w BY <1>1, <1>2 DEF LockInv, Locked
<1>4. /\ Ended /\ row.state \in Online => Answers(w)
      /\ Accounted /\ box.st = "running" => Asking(w)
  BY <1>1, <1>3, HolderAnswers
<1>5. CASE StartGet(w) \/ StartInspect(w)
  BY <1>1, <1>5, StillAlerts DEF StartGet, StartInspect, Still
<1>6. CASE EnsureGet(w)
  <2>1. /\ UNCHANGED <<row, box, asked, alerted, op, gone>> /\ pc[w] = "s_ensure"
        /\ pc'[w] = "s_exists" \/ (pc'[w] = "s_jar" /\ (row.here /\ ~Cut(w) => row.cid = 0))
    BY <1>1, <1>6 DEF EnsureGet, Snapshot
  <2>2. EndsInv' BY <1>1, <2>1, EndsStay
  <2>3. AlertInv(w)' BY <2>1 DEF AlertInv, Cut
  <2>. QED BY <2>2, <2>3 DEF Alerts
<1>7. CASE EnsureExists(w) \/ EnsureFetch(w) \/ StartPorts(w)
  BY <1>1, <1>7, StillAlerts DEF EnsureExists, AfterEnsure, EnsureFetch, StartPorts, Still
<1>8. CASE EnsureClear(w)
  <2>1. CASE Cut(w) BY <1>1, <1>8, <2>1, StillAlerts DEF EnsureClear, Still
  <2>2. CASE ~Cut(w)
    <3>1. /\ row'.cid = 0 /\ UNCHANGED <<box, asked, alerted>> /\ pc[w] = "s_clear" /\ pc'[w] = "s_jar"
      BY <1>1, <1>8, <2>2 DEF EnsureClear, Rows
    <3>2. EndsInv' BY <1>4, <3>1, EndedAlerts DEF Ended, Accounted
    <3>. QED BY <3>1, <3>2 DEF Alerts, AlertInv
  <2>. QED BY <2>1, <2>2
<1>9. CASE EnsureJar(w)
  <2>1. CASE row' = row
    BY <1>1, <1>9, <2>1, StillAlerts DEF EnsureJar, Still
  <2>2. CASE row' # row
    <3>1. /\ SetState("installing") /\ ~Cut(w) /\ UNCHANGED <<box, asked, alerted>>
          /\ pc[w] = "s_jar" /\ pc'[w] = "s_fetch"
      BY <1>1, <1>9, <2>2 DEF EnsureJar
    <3>2. row'.here => row'.cid = 0 BY <1>1, <3>1, SetStateSets DEF AlertInv
    <3>3. EndsInv' BY <1>4, <3>1, <3>2, EndedAlerts DEF Ended, Accounted
    <3>. QED BY <3>1, <3>3 DEF Alerts, AlertInv
  <2>. QED BY <2>1, <2>2
<1>10. CASE EnsureCreate(w)
  <2>1. CASE pc'[w] = "s_record"
    <3>1. /\ box'.st = "created" BY <1>1, <1>10, <2>1 DEF EnsureCreate
    <3>2. EndsInv' BY <3>1, EndedAlerts DEF Ended
    <3>. QED BY <2>1, <3>1, <3>2 DEF Alerts, AlertInv
  <2>2. CASE pc'[w] # "s_record"
    BY <1>1, <1>10, <2>2, StillAlerts DEF EnsureCreate, Still
  <2>. QED BY <2>1, <2>2
<1>11. CASE EnsureRecord(w)
  <2>1. CASE Cut(w) BY <1>1, <1>11, <2>1, StillAlerts DEF EnsureRecord, Still
  <2>2. CASE ~Cut(w)
    <3>1. box' = box /\ pc'[w] = "s_settle" /\ box.st = "created"
      BY <1>1, <1>11, <2>2 DEF EnsureRecord, AlertInv
    <3>2. EndsInv' BY <3>1, EndedAlerts DEF Ended
    <3>. QED BY <3>1, <3>2 DEF Alerts, AlertInv
  <2>. QED BY <2>1, <2>2
<1>12. CASE EnsureSettle(w)
  <2>1. box' = box /\ pc'[w] \in {"done", "s_ports"} /\ box.st = "created"
    BY <1>1, <1>12 DEF EnsureSettle, AfterEnsure, AlertInv
  <2>2. EndsInv' BY <2>1, EndedAlerts DEF Ended
  <2>. QED BY <2>1, <2>2 DEF Alerts, AlertInv
<1>13. CASE StartMark(w)
  <2>1. UNCHANGED <<box, asked, alerted>> /\ pc[w] = "s_mark" /\ pc'[w] = "s_boot"
    BY <1>1, <1>13 DEF StartMark
  <2>2. EndsInv' BY <1>4, <2>1, EndedAlerts DEF Accounted
  <2>. QED BY <2>1, <2>2 DEF Alerts, AlertInv
<1>14. CASE StartBoot(w)
  <2>1. row' = row /\ pc[w] = "s_boot" BY <1>1, <1>14 DEF StartBoot
  <2>2. ~(Accounted /\ box.st = "running")' BY <1>1, <1>4, <1>14 DEF StartBoot, DockerStarted, Accounted
  <2>3. CASE pc'[w] = "s_fail"
    <3>1. EndsInv' BY <2>2, <2>3, EndedAlerts
    <3>. QED BY <2>3, <3>1 DEF Alerts, AlertInv
  <2>4. CASE pc'[w] # "s_fail"
    <3>1. pc'[w] = "s_run" /\ Present(srv[w].cid) /\ DockerStarted(srv[w].cid)
      BY <1>1, <1>14, <2>4 DEF StartBoot
    <3>2. box'.st = "running" BY <1>1, <3>1 DEF DockerStarted, Boxes
    <3>3. ~Ended' BY <2>2, <3>2 DEF Ended
    <3>4. EndsInv' BY <2>2, <3>3, EndedAlerts
    <3>. QED BY <3>1, <3>3, <3>4 DEF Alerts, AlertInv
  <2>. QED BY <2>3, <2>4
<1>15. CASE StartRun(w)
  <2>1. /\ UNCHANGED <<box, asked, alerted>> /\ pc[w] = "s_run" /\ pc'[w] = "done" /\ ~Ended
    BY <1>1, <1>15 DEF StartRun, AlertInv
  <2>2. row'.here = row.here /\ row'.cid = row.cid BY <1>1, <1>15, SetStateSets DEF StartRun
  <2>3. EndsInv' BY <1>4, <2>1, <2>2, EndedAlerts DEF Ended, Accounted
  <2>. QED BY <2>1, <2>3 DEF Alerts, AlertInv
<1>. QED BY <1>5, <1>6, <1>7, <1>8, <1>9, <1>10, <1>11, <1>12, <1>13, <1>14, <1>15 DEF StartStep

\* The steps of Recreate, Update, Delete, Install and the log stream: a container that
\* is removed ends no more, a row that is written back says what it said.
LEMMA RebuildStepAlerts ==
    ASSUME NEW w \in Procs, Knows(w), RebuildStep(w)
    PROVE  Alerts(w)
<1>. USE DEF Goto, Silent, SpecialLabels, StoppingLabels, ghosts, Answers, Asking, PackLabels
<1>1. /\ EndsInv /\ AlertInv(w) /\ Rely(w) /\ pc \in [Procs -> Labels] /\ OpInv(w) /\ IInv /\ TypeOK
      /\ row \in Rows /\ box \in Boxes /\ own \in [Procs -> Copies] /\ CopyInv(w) /\ LockInv(w)
  BY DEF Knows, IInv, TypeOK, ProcInv, Guarantee
<1>2. pc[w] \in Locked
  BY <1>1 DEF RebuildStep, RecreateGet, RecreatePeek, RecreateReGet, RemoveContainer, RecreateClear,
      UpdateGet, UpdateClear, UpdateWrite, DeleteGet, DeleteRow, InstallGet, InstallStage,
      InstallClear, InstallCommit, LogsGet, Locked
<1>3. life = w BY <1>1, <1>2 DEF LockInv
<1>4. /\ Ended /\ row.state \in Online => Answers(w)
      /\ Accounted /\ box.st = "running" => Asking(w)
  BY <1>1, <1>3, HolderAnswers
<1>5. CASE RecreateGet(w) \/ RecreatePeek(w) \/ RecreateReGet(w)
  BY <1>1, <1>5, StillAlerts DEF RecreateGet, RecreatePeek, RecreateReGet, Still
<1>6. CASE RemoveContainer(w)
  <2>1. /\ row' = row /\ alerted' = alerted /\ op' = op /\ pc[w] = "x_remove"
    BY <1>1, <1>6 DEF RemoveContainer
  <2>2. /\ pc'[w] \in {"r_clear", "u_clear", "d_row", "i_clear", "n_clear", "i_undo", "n_undo", "done"}
        /\ op[w] = "modpack" => pc'[w] \in PackLabels
    BY <1>1, <1>6, <2>1 DEF RemoveContainer, AfterRemove, AfterRemoveFails, OpInv
  <2>3. CASE UNCHANGED <<box, asked>>
    <3>1. EndsInv' BY <1>4, <2>1, <2>2, <2>3, EndedAlerts DEF Ended, Accounted
    <3>. QED BY <2>2, <3>1 DEF Alerts, AlertInv
  <2>4. CASE box' = NoBox
    <3>1. EndsInv' BY <2>1, <2>4, EndedAlerts DEF Ended, NoBox
    <3>. QED BY <2>2, <3>1 DEF Alerts, AlertInv
  <2>. QED BY <1>6, <2>3, <2>4 DEF RemoveContainer, DockerRemoved
<1>7. CASE RecreateClear(w)
  <2>1. /\ row'.cid = 0 /\ UNCHANGED <<box, asked, alerted>> /\ pc[w] = "r_clear"
        /\ pc'[w] \in {"s_world", "done"}
    BY <1>1, <1>7 DEF RecreateClear, Rows
  <2>2. EndsInv' BY <1>4, <2>1, EndedAlerts DEF Ended, Accounted
  <2>. QED BY <2>1, <2>2 DEF Alerts, AlertInv
<1>8. CASE UpdateGet(w)
  <2>1. /\ UNCHANGED <<row, box, asked, alerted>> /\ pc[w] = "u_get"
        /\ pc'[w] \in {"done", "p_get", "u_write"} /\ own'[w].state = row.state
    BY <1>1, <1>8 DEF UpdateGet, Snapshot
  <2>2. EndsInv' BY <1>1, <2>1, EndsStay
  <2>. QED BY <2>1, <2>2 DEF Alerts, AlertInv
<1>9. CASE UpdateClear(w)
  <2>1. CASE gone[w] BY <1>1, <1>9, <2>1, StillAlerts DEF UpdateClear, Still
  <2>2. CASE ~gone[w]
    <3>1. /\ row'.cid = 0 /\ UNCHANGED <<box, asked, alerted>> /\ pc[w] = "u_clear"
          /\ pc'[w] = "u_write" /\ own'[w].state = "stopped"
      BY <1>1, <1>9, <2>2 DEF UpdateClear, Rows, Copies
    <3>2. EndsInv' BY <1>4, <3>1, EndedAlerts DEF Ended, Accounted
    <3>. QED BY <3>1, <3>2 DEF Alerts, AlertInv
  <2>. QED BY <2>1, <2>2
<1>10. CASE UpdateWrite(w)
  <2>1. /\ UNCHANGED <<box, asked, alerted>> /\ pc[w] = "u_write" /\ pc'[w] = "done"
        /\ row'.here = row.here /\ row'.cid = row.cid /\ row'.state \in {row.state, "stopped"}
    BY <1>1, <1>10 DEF UpdateWrite, AlertInv, CopyInv, Rows
  <2>2. EndsInv' BY <1>4, <2>1, EndedAlerts DEF Ended, Accounted, Online
  <2>. QED BY <2>1, <2>2 DEF Alerts, AlertInv
<1>11. CASE DeleteRow(w)
  <2>1. CASE gone[w] BY <1>1, <1>11, <2>1, StillAlerts DEF DeleteRow, Still
  <2>2. CASE ~gone[w]
    <3>1. ~row'.here /\ UNCHANGED <<box, asked, alerted>> /\ pc[w] = "d_row" /\ pc'[w] = "done"
      BY <1>1, <1>11, <2>2 DEF DeleteRow, Rows
    <3>2. EndsInv' BY <1>4, <3>1, EndedAlerts DEF Ended, Accounted
    <3>. QED BY <3>1, <3>2 DEF Alerts, AlertInv
  <2>. QED BY <2>1, <2>2
<1>12. CASE DeleteGet(w) \/ InstallGet(w) \/ InstallStage(w) \/ LogsGet(w)
  <2>1. /\ UNCHANGED <<row, box, asked, alerted>> /\ pc[w] \in {"d_get", "i_get", "i_files", "l_get"}
        /\ pc'[w] \in {"done", "p_get", "d_row", "x_remove", "i_write", "s_ensure"}
    BY <1>1, <1>12 DEF DeleteGet, InstallGet, InstallStage, LogsGet
  <2>. QED BY <1>1, <2>1, StillAlerts DEF Still
<1>13. CASE InstallClear(w)
  <2>1. CASE gone[w] BY <1>1, <1>13, <2>1, StillAlerts DEF InstallClear, Still
  <2>2. CASE ~gone[w]
    <3>1. /\ row'.cid = 0 /\ UNCHANGED <<box, asked, alerted>> /\ pc[w] = "i_clear"
          /\ pc'[w] = "i_write"
      BY <1>1, <1>13, <2>2 DEF InstallClear, Rows
    <3>2. EndsInv' BY <1>4, <3>1, EndedAlerts DEF Ended, Accounted
    <3>. QED BY <3>1, <3>2 DEF Alerts, AlertInv
  <2>. QED BY <2>1, <2>2
<1>14. CASE InstallCommit(w)
  <2>1. CASE gone[w] BY <1>1, <1>14, <2>1, StillAlerts DEF InstallCommit, Still
  <2>2. CASE ~gone[w]
    <3>1. /\ row'.state = "stopped" /\ UNCHANGED <<box, asked, alerted>> /\ pc[w] = "i_write"
          /\ pc'[w] = "s_ensure"
      BY <1>1, <1>14, <2>2 DEF InstallCommit, Rows
    <3>2. EndsInv' BY <1>4, <3>1, EndedAlerts DEF Accounted, Online
    <3>. QED BY <3>1, <3>2 DEF Alerts, AlertInv
  <2>. QED BY <2>1, <2>2
<1>. QED BY <1>5, <1>6, <1>7, <1>8, <1>9, <1>10, <1>11, <1>12, <1>13, <1>14 DEF RebuildStep

\* InstallModpack says installing over a container that was stopped, and stopped or
\* error before it gives the mutex back: its client stays.
LEMMA ModpackStepAlerts ==
    ASSUME NEW w \in Procs, Knows(w), ModpackStep(w)
    PROVE  Alerts(w)
<1>. USE DEF Goto, Silent, SpecialLabels, StoppingLabels, ghosts, Answers, Asking, PackLabels
<1>1. /\ EndsInv /\ AlertInv(w) /\ Rely(w) /\ pc \in [Procs -> Labels] /\ OpInv(w) /\ IInv
      /\ row \in Rows /\ LockInv(w) /\ (gone[w] => op[w] # "modpack")
  BY DEF Knows, IInv, TypeOK, ProcInv, Guarantee
<1>2. CASE ModpackFetch(w)
  BY <1>1, <1>2, StillAlerts DEF ModpackFetch, Still
<1>3. CASE ~ModpackFetch(w)
  <2>1. pc[w] \in {"n_mark"} \cup PackLabels /\ op' = op /\ UNCHANGED <<box, asked, alerted>>
    BY <1>1, <1>3 DEF ModpackStep, ModpackMark, ModpackGet, ModpackPublish, ModpackClear, ModpackCommit,
       ModpackFinish, ModpackFail
  <2>2. life = w /\ op[w] = "modpack" /\ ~gone[w] BY <1>1, <2>1 DEF LockInv, OpInv, Locked
  <2>3. ~(Accounted /\ box.st = "running") BY <1>1, <2>1, <2>2, HolderAnswers
  <2>4. CASE ModpackFinish(w) \/ ModpackFail(w)
    <3>1. pc'[w] = "done" /\ (SetState("stopped") \/ SetState("error"))
      BY <1>1, <2>2, <2>4 DEF ModpackFinish, ModpackFail
    <3>2. row'.here => row'.state \in Offline
      <4>1. CASE SetState("stopped") BY <1>1, <4>1, SetStateSets DEF Offline
      <4>2. CASE SetState("error") BY <1>1, <4>2, SetStateSets DEF Offline
      <4>. QED BY <3>1, <4>1, <4>2
    <3>3. EndsInv' BY <2>1, <2>3, <3>2, EndedAlerts DEF Ended, Accounted, Online, Offline
    <3>. QED BY <3>1, <3>3 DEF Alerts, AlertInv
  <2>5. CASE ~(ModpackFinish(w) \/ ModpackFail(w))
    <3>1. pc'[w] \in PackLabels \cup {"x_remove"}
      BY <1>1, <1>3, <2>5 DEF ModpackStep, ModpackMark, ModpackGet, ModpackPublish, ModpackClear,
         ModpackCommit
    <3>2. Answers(w)' BY <2>1, <2>2, <3>1
    <3>3. EndsInv' BY <2>1, <2>3, <3>2, EndedAlerts DEF Accounted
    <3>. QED BY <3>1, <3>3 DEF Alerts, AlertInv
  <2>. QED BY <2>4, <2>5
<1>. QED BY <1>2, <1>3

\* The step of an operation.
LEMMA StepAlerts ==
    ASSUME "stop" \notin Faults, NEW w \in Procs, Knows(w), Step(w)
    PROVE  Alerts(w)
<1>1. ~KillStep(w) /\ ~ConsoleStep(w)
  BY DEF Knows, HeldInv, KillStep, KillTry, KillGet, KillMark, KillKill, KillFinish, ConsoleStep,
      ConsoleGet, ConsoleSend, ConsoleMark, KillLabels, ConsoleLabels
<1>. QED BY <1>1, LockStepAlerts, StopStepAlerts, StartStepAlerts, RebuildStepAlerts,
            ModpackStepAlerts, DataStepAlerts DEF Step

\* The steps of Status: it records a server as up that it saw running while it held
\* the mutex, and alerts of a container that it saw down and whose end is unaccounted.
LEMMA StatusStepAlerts ==
    ASSUME SeenInv, Knows(Monitor), StatusStep
    PROVE  /\ Alerts(Monitor)
           /\ note' = "crashed" => ~asked /\ ~alerted
<1>. USE DEF Goto, Silent, SpecialLabels, StoppingLabels, ghosts, Answers, Asking, PackLabels
<1>1. /\ EndsInv /\ AlertInv(Monitor) /\ Rely(Monitor) /\ pc \in [Procs -> Labels] /\ IInv /\ TypeOK
      /\ row \in Rows /\ box \in Boxes /\ own \in [Procs -> Copies] /\ srv \in [Procs -> Copies]
      /\ was \in [Procs -> BOOLEAN] /\ LockInv(Monitor) /\ Monitor \in Procs
  BY DEF Knows, IInv, TypeOK, ProcInv, Guarantee, Procs
<1>2. CASE StatusGet
  <2>1. Still(Monitor) /\ note' = "none" BY <1>1, <1>2 DEF StatusGet, Still
  <2>. QED BY <1>1, <2>1, StillAlerts
<1>3. CASE ~StatusGet
  <2>1. pc[Monitor] \in {"t_inspect", "t_apply", "t_since"} /\ box' = box /\ asked' = asked
    BY <1>1, <1>3 DEF StatusStep, StatusInspect, StatusApply, StatusSince
  <2>2. life = Monitor BY <1>1, <2>1 DEF LockInv, Locked
  <2>3. ~(Accounted /\ box.st = "running") /\ ~(Ended /\ row.state \in Online)
    BY <1>1, <2>1, <2>2, HolderAnswers
  <2>4. CASE StatusInspect
    <3>1. /\ row' = row /\ alerted' = alerted /\ own' = own /\ note' = "none" /\ pc[Monitor] = "t_inspect"
          /\ pc'[Monitor] \in {"t_apply", "t_since", "done"}
      BY <1>1, <2>4 DEF StatusInspect
    <3>2. EndsInv' BY <2>1, <2>3, <3>1, EndedAlerts, <1>1 DEF Ended, Accounted
    <3>3. CASE pc'[Monitor] = "done" BY <3>1, <3>2, <3>3 DEF Alerts, AlertInv
    <3>4. CASE pc'[Monitor] # "done"
      <4>. DEFINE seen == Observed(own[Monitor].state, box.st, box.exit)
      <4>1. /\ srv' = [srv EXCEPT ![Monitor].state = seen]
            /\ was' = [was EXCEPT ![Monitor] = /\ box.st = "exited" /\ own[Monitor].state \in Online]
            /\ pc'[Monitor] = IF seen # own[Monitor].state THEN "t_apply"
                              ELSE IF seen = "running" /\ ~own[Monitor].since THEN "t_since" ELSE "done"
            /\ Present(own[Monitor].cid)
        BY <1>1, <2>4, <3>4 DEF StatusInspect
      <4>2. srv'[Monitor].state = seen BY <1>1, <4>1 DEF Copies
      <4>3. was'[Monitor] <=> box.st = "exited" /\ own[Monitor].state \in Online BY <1>1, <4>1
      <4>4. /\ seen \in Online => seen = own[Monitor].state \/ box.st = "running"
            /\ seen = "running" => box.st = "running"
            /\ box.st = "exited" => seen \in Offline
        BY <1>1, ObservedIsSound
      <4>5. row.here /\ own[Monitor].state = row.state /\ own[Monitor].cid = row.cid
        BY <3>1 DEF SeenInv
      <4>. HIDE DEF seen
      <4>6. CASE pc'[Monitor] = "t_apply"
        <5>1. seen \in Online => ~Ended' BY <2>1, <2>3, <3>1, <4>1, <4>4, <4>6 DEF Ended, Accounted
        <5>2. was'[Monitor] => seen \in Offline /\ box'.st # "running" /\ ~Accounted'
          BY <2>1, <2>3, <3>1, <4>1, <4>3, <4>4, <4>5 DEF Ended, Accounted, Present
        <5>. QED BY <3>1, <3>2, <4>2, <4>3, <4>6, <5>1, <5>2 DEF Alerts, AlertInv
      <4>7. CASE pc'[Monitor] = "t_since"
        <5>1. ~Ended' BY <2>1, <2>3, <3>1, <4>1, <4>4, <4>7 DEF Ended, Accounted
        <5>. QED BY <3>1, <3>2, <4>7, <5>1 DEF Alerts, AlertInv
      <4>. QED BY <3>1, <3>4, <4>6, <4>7
    <3>. QED BY <3>3, <3>4
  <2>5. CASE StatusApply
    <3>1. /\ pc[Monitor] = "t_apply" /\ pc'[Monitor] = "done" /\ (alerted' <=> alerted \/ note' = "crashed")
          /\ ObserveState(own[Monitor].state, srv[Monitor].state,
                          IF was[Monitor] THEN "crashed" ELSE "none")
      BY <1>1, <2>5 DEF StatusApply
    <3>2. note' = "crashed" => was[Monitor] /\ row.here /\ row.state = own[Monitor].state
      BY <3>1 DEF ObserveState, NoteFor
    <3>3. note' = "crashed" => ~asked /\ ~alerted /\ box.st # "running"
      BY <3>1, <3>2, <1>1 DEF AlertInv, Accounted
    <3>4. /\ row'.here = row.here /\ row'.cid = row.cid
          /\ row' = row \/ row'.state = srv[Monitor].state
          /\ note' = "crashed" => row'.state = srv[Monitor].state
      BY <1>1, <3>1 DEF ObserveState, Rows
    <3>5. ~(Accounted /\ box.st = "running")'
      BY <2>1, <2>3, <3>1, <3>3 DEF Accounted
    <3>6. ~(Ended /\ row.state \in Online)'
      <4>1. CASE note' = "crashed"
        <5>1. srv[Monitor].state \in Offline BY <1>1, <3>1, <3>2, <4>1 DEF AlertInv
        <5>. QED BY <3>4, <4>1, <5>1 DEF Offline, Online
      <4>2. CASE note' # "crashed"
        <5>1. Ended' => Ended BY <2>1, <3>1, <3>4, <4>2 DEF Ended, Accounted
        <5>. QED BY <1>1, <2>3, <3>1, <3>4, <5>1 DEF AlertInv
      <4>. QED BY <4>1, <4>2
    <3>7. EndsInv' BY <3>5, <3>6, EndedAlerts, <1>1
    <3>. QED BY <3>1, <3>3, <3>7 DEF Alerts, AlertInv
  <2>6. CASE StatusSince
    <3>1. /\ pc[Monitor] = "t_since" /\ pc'[Monitor] = "done" /\ alerted' = alerted
          /\ row'.here = row.here /\ row'.cid = row.cid /\ note' # "crashed"
      BY <1>1, <2>6, SetStateSets DEF StatusSince
    <3>2. ~Ended BY <1>1, <3>1 DEF AlertInv
    <3>3. EndsInv' BY <2>1, <2>3, <3>1, <3>2, EndedAlerts, <1>1 DEF Ended, Accounted
    <3>. QED BY <3>1, <3>3 DEF Alerts, AlertInv
  <2>. QED BY <1>3, <2>4, <2>5, <2>6 DEF StatusStep
<1>. QED BY <1>2, <1>3

\* What the step of a goroutine leaves of the others: whoever changes what an alert
\* is about holds the mutex, and nobody else is where that matters.
LEMMA AlertsSuffice ==
    ASSUME IInv, \A v \in Procs : AlertInv(v), NEW w \in Procs, Rely(w), Alerts(w),
           life = w \/ UNCHANGED <<row, box, asked, alerted>>,
           \A v \in Procs \ {w} : was'[v] = was[v] /\ gone'[v] = gone[v]
    PROVE  EndsInv' /\ \A v \in Procs : AlertInv(v)'
<1>1. ASSUME NEW v \in Procs, v # w PROVE AlertInv(v)'
  <2>1. /\ pc'[v] = pc[v] /\ op'[v] = op[v] /\ own'[v] = own[v] /\ srv'[v] = srv[v]
        /\ was'[v] = was[v] /\ gone'[v] = gone[v] /\ AlertInv(v)
    BY <1>1 DEF Rely
  <2>2. CASE life = w
    <3>1. pc[v] \notin Locked BY <1>1, <2>2 DEF IInv, ProcInv, LockInv
    <3>. QED BY <2>1, <3>1 DEF AlertInv, Locked, StoppingLabels, StopLabels, EnsureLabels, StartLabels
  <2>3. CASE UNCHANGED <<row, box, asked, alerted>>
    BY <2>1, <2>3 DEF AlertInv, Ended, Accounted, Cut
  <2>. QED BY <2>2, <2>3
<1>. QED BY <1>1 DEF Alerts

\* The step of an operation, for everybody.
LEMMA StepKeepsAlerts ==
    ASSUME "stop" \notin Faults, "modpack" \notin Ops \/ "disconnect" \notin Faults,
           AlertAll, Lives, NEW w \in Procs, Step(w)
    PROVE  EndsInv' /\ \A v \in Procs : AlertInv(v)'
<1>1. /\ IInv /\ TypeOK /\ HeldInv(w) /\ (gone[w] => op[w] # "modpack")
      /\ EndsInv /\ \A v \in Procs : AlertInv(v)
  BY DEF PackInv, AlertAll, SeenAll, IInv, Lives
<1>2. Guarantee(w) BY <1>1, StepGuarantees
<1>3. Alerts(w) BY <1>1, <1>2, StepAlerts DEF Knows
<1>. QED BY <1>1, <1>2, <1>3, AlertsSuffice, ChangesAreLocked, StepIsOfOne DEF Guarantee

\* The same of a step of Status, which holds the mutex for all it writes.
LEMMA StatusKeepsAlerts ==
    ASSUME "modpack" \notin Ops \/ "disconnect" \notin Faults, AlertAll, Lives, StatusStep
    PROVE  /\ EndsInv' /\ \A v \in Procs : AlertInv(v)'
           /\ note' = "crashed" => ~asked /\ ~alerted
<1>1. /\ IInv /\ HeldInv(Monitor) /\ (gone[Monitor] => op[Monitor] # "modpack")
      /\ EndsInv /\ (\A v \in Procs : AlertInv(v)) /\ Monitor \in Procs /\ SeenInv
  BY DEF PackInv, AlertAll, SeenAll, Lives, Procs
<1>2. Guarantee(Monitor) BY <1>1, StatusGuarantees
<1>3. Alerts(Monitor) /\ (note' = "crashed" => ~asked /\ ~alerted)
  BY <1>1, <1>2, StatusStepAlerts DEF Knows
<1>4. life = Monitor \/ UNCHANGED <<row, box, asked, alerted>>
  <2>1. pc[Monitor] \in Locked => life = Monitor BY <1>1 DEF IInv, ProcInv, LockInv
  <2>. QED BY <2>1 DEF StatusStep, StatusGet, StatusInspect, StatusApply, StatusSince, Locked, Silent,
          ghosts
<1>5. \A v \in Procs \ {Monitor} : was'[v] = was[v] /\ gone'[v] = gone[v]
  <2>1. was \in [Procs -> BOOLEAN] BY <1>1 DEF IInv, TypeOK
  <2>. QED BY <2>1 DEF StatusStep, StatusGet, StatusInspect, StatusApply, StatusSince
<1>. QED BY <1>1, <1>2, <1>3, <1>4, <1>5, AlertsSuffice DEF Guarantee

\* What the container does by itself, or somebody else to it, is accounted for by
\* whoever was before.
LEMMA EnvironmentKeepsAlerts ==
    ASSUME EndsInv, NEW v \in Procs, AlertInv(v), ContainerExit \/ InstallerStep \/ ContainerLost
    PROVE  EndsInv' /\ AlertInv(v)'
<1>1. UNCHANGED <<row, pc, op, own, srv, was, gone, alerted>>
  BY DEF ContainerExit, InstallerStep, ContainerLost, Silent, locals, ghosts
<1>2. CASE ContainerExit
  <2>1. box.st = "running" /\ box'.st = "exited" /\ box'.id = box.id /\ asked' = asked
    BY <1>2 DEF ContainerExit, Halted, ghosts, IInv, TypeOK, Boxes
  <2>2. EndsInv' BY <1>1, <2>1 DEF EndsInv, Ended, Accounted, Answers, Asking
  <2>3. AlertInv(v)' BY <1>1, <2>1 DEF AlertInv, Ended, Accounted, Cut
  <2>. QED BY <2>2, <2>3
<1>3. CASE InstallerStep
  <2>1. UNCHANGED <<box, asked>> BY <1>3 DEF InstallerStep, ghosts
  <2>2. EndsInv' BY <1>1, <2>1 DEF EndsInv, Ended, Accounted, Answers, Asking
  <2>3. AlertInv(v)' BY <1>1, <2>1 DEF AlertInv, Ended, Accounted, Cut
  <2>. QED BY <2>2, <2>3
<1>4. CASE ContainerLost
  <2>1. box' = NoBox /\ (asked' <=> asked \/ box.st = "running")
    BY <1>4 DEF ContainerLost, DockerRemoved, Present
  <2>2. ~Ended' /\ box'.st = "created" BY <1>1, <2>1 DEF Ended, NoBox
  <2>3. EndsInv' BY <2>2 DEF EndsInv
  <2>4. AlertInv(v)' BY <1>1, <2>1, <2>2 DEF AlertInv, Accounted, Cut
  <2>. QED BY <2>3, <2>4
<1>. QED BY <1>2, <1>3, <1>4

\* Every step keeps alerts true, where every way to end the server takes the mutex and
\* none of them fails or is left half way.
LEMMA AlertNext ==
    ASSUME Ops \cap {"kill", "console"} = {}, "stop" \notin Faults,
           "modpack" \notin Ops \/ "disconnect" \notin Faults
    PROVE  AlertAll /\ [Next]_vars => AlertAll'
<1> SUFFICES ASSUME AlertAll, [Next]_vars PROVE AlertAll' OBVIOUS
<1>1. SeenAll' BY SeenNext DEF AlertAll
<1>2. /\ IInv /\ TypeOK /\ budget \in Budgets /\ Monitor \in Procs
      /\ pc \in [Procs -> Labels] /\ gone \in [Procs -> BOOLEAN]
      /\ op \in [Procs -> AllOps \union {"none", "provision"}]
  BY DEF AlertAll, SeenAll, IInv, TypeOK, Procs
<1>3. ASSUME NEW w \in Workers, NEW o \in Ops, Begin(w, o) PROVE AlertAll'
  <2>1. w \in Procs BY DEF Procs
  <2>2. /\ pc'[w] \in {"e_world", "n_fetch", "lock"} /\ op'[w] = o /\ pc[w] = "idle"
        /\ \A v \in Procs \ {w} : pc'[v] = pc[v] /\ op'[v] = op[v]
    BY <1>2, <1>3, <2>1 DEF Begin, Goto, Entry
  <2>3. UNCHANGED <<row, box, asked, alerted, own, srv, was, gone>> /\ budget'.crashes = budget.crashes
    BY <1>2, <1>3 DEF Begin, Silent, ghosts, Budgets
  <2>5. PackInv' BY <2>2, <2>3 DEF AlertAll, PackInv
  <2>6. ASSUME Lives PROVE EndsInv' /\ \A v \in Procs : AlertInv(v)'
    <3>1. EndsInv /\ (\A v \in Procs : AlertInv(v)) /\ Rely(w)
      BY <1>2, <1>3, <2>6, BeginKeeps DEF AlertAll, Lives, Guarantee
    <3>2. Alerts(w)
      BY <2>1, <2>2, <2>3, <3>1, StillAlerts
      DEF Still, Answers, Asking, SpecialLabels, StoppingLabels, PackLabels
    <3>. QED BY <1>2, <2>1, <2>3, <3>1, <3>2, AlertsSuffice
  <2>. QED BY <1>1, <2>3, <2>5, <2>6 DEF AlertAll, Lives
<1>4. ASSUME NEW w \in Procs, Disconnect(w) PROVE AlertAll'
  <2>1. /\ UNCHANGED <<row, box, asked, alerted, pc, op, own, srv, was>>
        /\ budget'.crashes = budget.crashes
        /\ \A v \in Procs \ {w} : gone'[v] = gone[v]
        /\ gone'[w] /\ "disconnect" \in Faults
    BY <1>2, <1>4 DEF Disconnect, Silent, ghosts, CanFail, SpendFault, Budgets
  <2>3. PackInv' BY <2>1 DEF AlertAll, PackInv
  <2>4. ASSUME Lives PROVE EndsInv' /\ \A v \in Procs : AlertInv(v)'
    <3>1. EndsInv /\ \A v \in Procs : AlertInv(v) BY <2>4 DEF AlertAll, Lives
    <3>2. EndsInv' BY <2>1, <3>1 DEF EndsInv, Ended, Accounted, Answers, Asking
    <3>3. \A v \in Procs : AlertInv(v)' BY <2>1, <3>1 DEF AlertInv, Ended, Accounted, Cut
    <3>. QED BY <3>2, <3>3
  <2>. QED BY <1>1, <2>1, <2>3, <2>4 DEF AlertAll, Lives
<1>5. ASSUME NEW w \in Procs, Step(w) PROVE AlertAll'
  <2>1. /\ \A v \in Procs \ {w} : gone'[v] = gone[v]
        /\ op'[w] \in {op[w], "none"} /\ gone'[w] \in {gone[w], FALSE}
        /\ budget'.crashes = budget.crashes
    BY <1>2, <1>5, StepIsOfOne
  <2>2. \A v \in Procs \ {w} : op'[v] = op[v] BY <1>2, <1>5, StepGuarantees DEF Guarantee, Rely
  <2>3. PackInv' BY <2>1, <2>2 DEF AlertAll, PackInv
  <2>4. Lives => EndsInv' /\ \A v \in Procs : AlertInv(v)' BY <1>5, StepKeepsAlerts
  <2>. QED BY <1>1, <2>1, <2>3, <2>4 DEF AlertAll, Lives
<1>6. CASE StatusStep
  <2>1. UNCHANGED <<gone, op>> /\ budget'.crashes = budget.crashes
    BY <1>2, <1>6 DEF StatusStep, StatusGet, StatusInspect, StatusApply, StatusSince, FailsDetached,
       SpendFault, Budgets
  <2>2. Lives => EndsInv' /\ \A v \in Procs : AlertInv(v)' BY <1>6, StatusKeepsAlerts
  <2>. QED BY <1>1, <2>1, <2>2 DEF PackInv, AlertAll, Lives
<1>7. CASE ContainerExit \/ InstallerStep \/ ContainerLost
  <2>1. UNCHANGED <<gone, op>> /\ budget'.crashes = budget.crashes
    BY <1>2, <1>7 DEF ContainerExit, InstallerStep, ContainerLost, SpendFault, Budgets, locals
  <2>2. ASSUME Lives PROVE EndsInv' /\ \A v \in Procs : AlertInv(v)'
    <3>1. EndsInv /\ \A v \in Procs : AlertInv(v) BY <2>2 DEF AlertAll, Lives
    <3>. QED BY <1>2, <1>7, <3>1, EnvironmentKeepsAlerts
  <2>. QED BY <1>1, <2>1, <2>2 DEF PackInv, AlertAll, Lives
<1>8. CASE PanelCrash
  <2>1. budget'.crashes # MaxCrashes
    <3>1. budget.crashes \in 0..MaxCrashes /\ budget.crashes > 0 /\ budget'.crashes = budget.crashes - 1
      BY <1>2, <1>8 DEF PanelCrash, Budgets
    <3>. QED BY <3>1, BoundsAssumption
  <2>2. \A v \in Procs : ~gone'[v] /\ op'[v] = "none" BY <1>8 DEF PanelCrash
  <2>. QED BY <1>1, <2>1, <2>2 DEF PackInv, AlertAll
<1>9. CASE UNCHANGED vars
  <2>1. UNCHANGED <<row, box, asked, alerted, pc, op, own, srv, was, gone, budget>>
    BY <1>9 DEF vars, locals, ghosts
  <2>2. ASSUME Lives PROVE EndsInv' /\ \A v \in Procs : AlertInv(v)'
    <3>1. EndsInv /\ \A v \in Procs : AlertInv(v) BY <2>2 DEF AlertAll, Lives
    <3>2. EndsInv' BY <2>1, <3>1 DEF EndsInv, Ended, Accounted, Answers, Asking
    <3>3. \A v \in Procs : AlertInv(v)' BY <2>1, <3>1 DEF AlertInv, Ended, Accounted, Cut
    <3>. QED BY <3>2, <3>3
  <2>. QED BY <1>1, <2>1, <2>2 DEF PackInv, AlertAll, Lives
<1>. QED BY <1>3, <1>4, <1>5, <1>6, <1>7, <1>8, <1>9 DEF Next, Environment

\* At first a container that is down is that of a server that is recorded as down.
LEMMA AlertInit == Init => AlertAll
<1> SUFFICES ASSUME Init PROVE AlertAll OBVIOUS
<1>1. SeenAll BY SeenInit
<1>2. \A w \in Procs : pc[w] \in {"idle", "lock"} /\ op[w] \in {"none", "provision"}
  BY DEF Init, InitFresh, InitKept, InitRunning
<1>3. /\ box.st = "running" => ~Accounted
      /\ row.state \notin Online \/ box.st = "running"
  <2>1. alerted = FALSE /\ asked = (box.st # "running") BY DEF Init
  <2>2. CASE InitFresh BY <2>1, <2>2 DEF InitFresh, Online, Accounted
  <2>3. CASE InitKept BY <2>1, <2>3 DEF InitKept, Online, Accounted
  <2>4. CASE InitRunning BY <2>1, <2>4 DEF InitRunning, Accounted
  <2>. QED BY <2>2, <2>3, <2>4 DEF Init
<1>4. EndsInv BY <1>3 DEF EndsInv, Ended
<1>5. \A w \in Procs : AlertInv(w)
  BY <1>2 DEF AlertInv, StoppingLabels
<1>6. PackInv BY <1>2 DEF PackInv, Init
<1>. QED BY <1>1, <1>4, <1>5, <1>6 DEF AlertAll

\* Only Status sends a crash alert.
LEMMA OnlyStatusAlerts ==
    ASSUME NEW w \in Procs, Step(w)
    PROVE  note' # "crashed"
<1>. USE DEF Silent, SetState, NoteFor
<1>1. CASE LockStep(w)
  BY <1>1 DEF LockStep, AcquireLifecycle, AcquireWorld, AcquireWorldShared, Return
<1>2. CASE StopStep(w)
  BY <1>2 DEF StopStep, StopGet, StopPeek, StopMark, StopInspect, StopSend, StopWait, StopHalt,
      MarkError, StopFinish
<1>3. CASE StartStep(w)
  BY <1>3 DEF StartStep, StartGet, StartInspect, EnsureGet, EnsureExists, EnsureClear,
      EnsureJar, EnsureFetch, EnsureCreate, EnsureRecord, EnsureSettle, StartPorts, StartMark,
      StartBoot, StartRun
<1>4. CASE KillStep(w)
  BY <1>4 DEF KillStep, KillTry, KillGet, KillMark, KillKill, KillFinish
<1>5. CASE ConsoleStep(w)
  BY <1>5 DEF ConsoleStep, ConsoleGet, ConsoleSend, ConsoleMark
<1>6. CASE RebuildStep(w)
  BY <1>6 DEF RebuildStep, RecreateGet, RecreatePeek, RecreateReGet, RemoveContainer,
      RecreateClear, UpdateGet, UpdateClear, UpdateWrite, DeleteGet, DeleteRow, InstallGet,
      InstallStage, InstallClear, InstallCommit, LogsGet
<1>7. CASE ModpackStep(w)
  BY <1>7 DEF ModpackStep, ModpackFetch, ModpackMark, ModpackGet, ModpackPublish,
      ModpackClear, ModpackCommit, ModpackFinish, ModpackFail
<1>8. CASE DataStep(w)
  BY <1>8 DEF DataStep, DataGet, DataCheck, DataDone, EditCheck, FilesDone
<1>. QED BY <1>1, <1>2, <1>3, <1>4, <1>5, <1>6, <1>7, <1>8 DEF Step

\* A crash alert is sent only for a container that nobody asked to end, and once, as
\* long as the panel does not die: where no user ends the server from outside of the
\* mutex (Kill, the console), no stop of the container fails, and no client leaves the
\* installation of a modpack.  Without each of these a server that was stopped on
\* request can be reported as crashed.
THEOREM CrashAlertsAreTrue ==
    ASSUME Ops \cap {"kill", "console"} = {}, "stop" \notin Faults,
           "modpack" \notin Ops \/ "disconnect" \notin Faults
    PROVE  Spec => CrashAlertTruthful
<1>1. Init => AlertAll BY AlertInit
<1>2. AlertAll /\ [Next]_vars => AlertAll' BY AlertNext
<1>3. AlertAll /\ [Next]_vars =>
        [note' = "crashed" /\ budget'.crashes = MaxCrashes => ~asked /\ ~alerted]_vars
  <2> SUFFICES ASSUME AlertAll, Next, note' = "crashed", budget'.crashes = MaxCrashes
               PROVE  ~asked /\ ~alerted
    OBVIOUS
  <2>1. CASE StatusStep
    <3>1. budget'.crashes = budget.crashes
      BY <2>1 DEF StatusStep, StatusGet, StatusInspect, StatusApply, StatusSince, FailsDetached,
         SpendFault, Budgets, AlertAll, SeenAll, IInv, TypeOK
    <3>. QED BY <2>1, <3>1, StatusKeepsAlerts DEF Lives
  <2>2. ~\E w \in Procs : Step(w) BY OnlyStatusAlerts
  <2>. QED BY <2>1, <2>2 DEF Next, Begin, Disconnect, Environment, ContainerExit, InstallerStep,
          ContainerLost, PanelCrash, Silent
<1>. QED BY <1>1, <1>2, <1>3, PTL DEF Spec, CrashAlertTruthful
=============================================================================
