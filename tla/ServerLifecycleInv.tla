------------------------ MODULE ServerLifecycleInv ------------------------
(***************************************************************************)
(* The inductive invariant of ServerLifecycle behind DataQuiescent and     *)
(* RunningTracked: which locks a goroutine holds at each label, how far    *)
(* its copies of the row are current, and where the container is known to  *)
(* be down.                                                                *)
(***************************************************************************)
EXTENDS ServerLifecycle

\* Operations that boot the server with startLocked.
BootOps == {"start", "restart", "recreate", "backup"}
\* Operations that stop it with stopLocked under the world lock.
WorldOps == {"delete", "install", "modpack", "uninstall", "backup", "restore"}
StopOps == {"stop", "restart", "recreate", "update"} \union WorldOps
LockOps == StopOps \union {"start", "logs", "provision"}

\* Labels reached only with the lifecycle mutex.
Locked == StopLabels \union EnsureLabels \union StartLabels \union
          {"s_world", "t_inspect", "t_apply", "t_since", "r_get", "r_peek", "r_reget",
           "r_clear", "x_remove", "u_get", "u_clear", "u_write", "d_world", "d_get",
           "d_row", "w_world", "i_get", "i_files", "i_undo", "i_clear", "i_write", "n_mark",
           "n_get", "n_files", "n_undo", "n_clear", "n_write", "n_fin", "n_fail",
           "b_get", "b_check", "b_files", "m_files", "l_get"}

\* Labels reached only with the world lock held for writing.
Writing == {"d_get", "d_row", "i_get", "i_files", "i_undo", "i_clear", "i_write",
            "n_mark", "n_get", "n_files", "n_undo", "n_clear", "n_write",
            "b_get", "b_check", "b_files", "m_files", "e_check", "e_files"}

\* The operation in progress at a label.
OpInv(w) ==
    /\ pc[w] = "lock" => op[w] \in LockOps
    /\ pc[w] = "w_world" => op[w] \in WorldOps \ {"delete"}
    /\ pc[w] \in StopLabels => op[w] \in StopOps
    /\ pc[w] \in StartLabels \union {"s_world"} => op[w] \in BootOps
    /\ pc[w] \in EnsureLabels => op[w] \in BootOps \union {"install", "logs", "provision"}
    /\ pc[w] \in {"r_get", "r_peek", "r_reget", "r_clear"} => op[w] = "recreate"
    /\ pc[w] \in {"u_get", "u_clear", "u_write"} => op[w] = "update"
    /\ pc[w] \in {"d_world", "d_get", "d_row"} => op[w] = "delete"
    /\ pc[w] \in {"i_get", "i_files", "i_undo", "i_clear", "i_write"} => op[w] = "install"
    /\ pc[w] \in {"n_fetch", "n_mark", "n_get", "n_files", "n_undo", "n_clear", "n_write",
                  "n_fin", "n_fail"} => op[w] = "modpack"
    /\ pc[w] \in {"b_get", "b_check", "b_files"} => op[w] \in {"backup", "restore"}
    /\ pc[w] = "l_get" => op[w] = "logs"
    /\ pc[w] = "x_remove" => op[w] \in {"recreate", "update", "delete", "install", "modpack"}

LockInv(w) ==
    /\ pc[w] \in Locked => life = w
    /\ pc[w] \in Writing => writer = w
    /\ pc[w] \in StopLabels \union {"x_remove"} /\ op[w] \in WorldOps => writer = w
    /\ pc[w] \in StartLabels => w \in readers
    /\ pc[w] \in EnsureLabels /\ op[w] \in BootOps => w \in readers

\* Where the code relies on its copy of the row.
CopyInv(w) ==
    /\ pc[w] \in {"idle", "lock", "n_fetch"} => srv[w].cid = 0
    /\ pc[w] \in StopLabels \ {"p_get", "p_fail", "p_fin"} => srv[w].cid = row.cid
    /\ pc[w] \in {"s_inspect", "s_exists", "s_clear", "s_ports", "s_mark", "s_boot"} =>
         srv[w].cid = row.cid /\ row.here
    /\ pc[w] = "s_settle" /\ row.here => srv[w].cid = row.cid
    /\ pc[w] \in EnsureLabels /\ op[w] \in BootOps => row.here
    /\ pc[w] = "s_ensure" /\ op[w] \notin BootOps => srv[w].cid = 0
    /\ pc[w] = "s_clear" => box.st # "running"
    /\ pc[w] \in {"r_peek", "x_remove", "u_write", "i_files", "n_files"} => own[w].cid = row.cid
    /\ pc[w] = "i_write" => own[w].cid = 0
    /\ pc[w] \in StopLabels /\ op[w] \in {"update", "delete", "install"} =>
         own[w].cid = row.cid

\* Where the container is down.
DownInv(w) ==
    /\ pc[w] \in {"p_fin", "r_reget", "r_clear", "u_clear", "d_row", "i_files", "i_undo",
                  "i_clear", "i_write", "n_mark", "n_get", "n_files", "n_undo", "n_clear",
                  "n_write", "m_files", "b_check", "b_files", "e_files"} =>
         box.st # "running"
    /\ pc[w] = "x_remove" /\ op[w] # "recreate" => box.st # "running"

\* The lock for writing excludes every reader, a running container has an id.
GlobalInv ==
    /\ writer # NoOne => readers = {}
    /\ box.st = "running" => box.id # 0
    /\ RunningTracked

ProcInv(w) == OpInv(w) /\ LockInv(w) /\ CopyInv(w) /\ DownInv(w)

IInv == TypeOK /\ GlobalInv /\ \A w \in Procs : ProcInv(w)
-----------------------------------------------------------------------------
(* Where a row that says stopped can be believed.  Kill is the one operation    *)
(* that writes it without the mutex, so this holds where nobody kills.          *)

\* The steps of Kill, and those that leave the container down.
KillLabels == {"k_try", "k_get", "k_mark", "k_kill", "k_fail", "k_fin"}
SettledLabels == {"s_record", "s_settle", "n_fin"}

\* What a goroutine is about to write of the state is true of the container.
BelievedInv(w) ==
    /\ pc[w] \notin KillLabels /\ op[w] # "kill"
    /\ pc[w] \in SettledLabels => box.st # "running"
    /\ pc[w] = "s_boot" => row.state # "stopped"
    /\ pc[w] = "u_write" /\ own[w].state = "stopped" => box.st # "running"
    /\ pc[w] = "t_apply" /\ srv[w].state = "stopped" => box.st # "running"

BelievedAll == IInv /\ StoppedMeansDown /\ \A w \in Procs : BelievedInv(w)

-----------------------------------------------------------------------------
(* Where every container is known, as long as the panel does not die: no       *)
(* server is deleted, and no client leaves.                                     *)

ClearLabels == {"s_clear", "r_clear", "u_clear", "i_clear", "n_clear"}
DeleteLabels == {"d_world", "d_get", "d_row"}

\* A row that forgets its container has none.
ForgottenInv(w) ==
    /\ pc[w] \notin DeleteLabels /\ op[w] # "delete" /\ ~gone[w]
    /\ pc[w] \in ClearLabels /\ budget.crashes = MaxCrashes => box.id = 0

TrackedAll ==
    /\ IInv /\ row.here /\ EveryContainerTracked
    /\ \A w \in Procs : ForgottenInv(w)
-----------------------------------------------------------------------------
(* What Status is about to record.                                            *)

\* A stop intent that Status read is replaced only by what a container that is down shows.
AppliedInv ==
    pc[Monitor] = "t_apply" /\ own[Monitor].state = "stopping" => srv[Monitor].state \in Offline

AppliedAll == IInv /\ AppliedInv

-----------------------------------------------------------------------------
(* Where what Status saw is still so when it is recorded: nobody ends the      *)
(* server without the mutex, that is by Kill or by a command in the console.   *)

ConsoleLabels == {"c_get", "c_send", "c_mark"}

\* The state that Status read is that of the row, and a stop intent that it read
\* is replaced only by what a container that is down shows.
SeenInv ==
    /\ pc[Monitor] = "t_inspect" =>
         row.here /\ own[Monitor].state = row.state /\ own[Monitor].cid = row.cid
    /\ pc[Monitor] = "t_apply" /\ own[Monitor].state = "stopping" =>
         srv[Monitor].state \in Offline
    /\ pc[Monitor] = "t_since" => row.state # "stopping"

HeldInv(w) == pc[w] \notin KillLabels \cup ConsoleLabels /\ op[w] \notin {"kill", "console"}

SeenAll == IInv /\ SeenInv /\ \A w \in Procs : HeldInv(w)

\* With Kill and the console, but where no row is written back from a copy: a row
\* that says running has its start time, and Status never writes it.
SinceInv ==
    /\ row.state = "running" => row.since
    /\ pc[Monitor] = "t_inspect" /\ own[Monitor].state = "running" => own[Monitor].since
    /\ pc[Monitor] = "t_apply" /\ own[Monitor].state = "stopping" =>
         srv[Monitor].state \in Offline
    /\ pc[Monitor] # "t_since"

NoUpdateInv(w) == pc[w] \notin {"u_get", "u_clear", "u_write"} /\ op[w] # "update"

SinceAll == IInv /\ SinceInv /\ \A w \in Procs : NoUpdateInv(w)

-----------------------------------------------------------------------------
(* Where a crash alert is true, as long as the panel does not die: no stop of   *)
(* a container fails, and no client leaves an installation of a modpack.        *)

\* The end of the container was asked for, or an alert of it was sent.
Accounted == asked \/ alerted
\* ... and the container is the one of the row, which Status would inspect.
Ended == Accounted /\ row.here /\ row.cid # 0 /\ box.id = row.cid /\ box.st # "created"

StoppingLabels == {"p_inspect", "p_send", "p_wait", "p_haltctx", "p_halt", "p_fail", "p_fin"}
PackLabels == {"n_get", "n_files", "n_undo", "n_clear", "n_write", "n_fin", "n_fail"}

\* A goroutine that will say otherwise, or boot the container, before it gives the
\* mutex back.
Answers(w) == \/ pc[w] \in {"s_boot", "s_fail"} \cup PackLabels
              \/ pc[w] = "x_remove" /\ op[w] = "modpack"
Asking(w) == pc[w] \in {"p_wait", "p_halt"}

\* A container that ended as asked is not recorded as one that should be up, and
\* one that was asked to end does not run on unwatched.
EndsInv == /\ Ended /\ row.state \in Online => \E w \in Procs : Answers(w)
           /\ Accounted /\ box.st = "running" => \E w \in Procs : Asking(w)

AlertInv(w) ==
    /\ pc[w] \in StoppingLabels /\ row.here => row.state \notin Online
    /\ pc[w] \in {"s_record", "s_settle"} => box.st = "created"
    /\ pc[w] = "s_jar" /\ row.here /\ ~Cut(w) => row.cid = 0
    /\ pc[w] \in {"s_run", "t_since"} => ~Ended
    /\ pc[w] = "u_write" => own[w].state \in {row.state, "stopped"}
    /\ pc[w] = "t_apply" /\ srv[w].state \in Online => ~Ended
    /\ pc[w] = "t_apply" /\ was[w] =>
         /\ own[w].state \in Online /\ srv[w].state \in Offline /\ box.st # "running"
         /\ row.here /\ row.state = own[w].state => ~Accounted

\* Only a client that may leave leaves, and only what may be asked for is executed.
PackInv == \A w \in Procs : /\ gone[w] => "disconnect" \in Faults
                            /\ op[w] = "modpack" => "modpack" \in Ops

AlertAll ==
    /\ SeenAll
    /\ PackInv
    /\ budget.crashes = MaxCrashes => EndsInv /\ \A w \in Procs : AlertInv(w)
=============================================================================
