-------------------------- MODULE ServerLifecycle --------------------------
(***************************************************************************)
(* The life of one Minecraft server in the panel: the row of the servers   *)
(* table, the container named mcm-<id> that the runtime keeps, the files   *)
(* of the server, and the goroutines (requests, scheduled actions, the     *)
(* status monitor) that operate on them.                                   *)
(*                                                                         *)
(* Every operation of internal/servers is a sequence of steps separated    *)
(* where another goroutine can run: at each read or write of the database, *)
(* each call to the container runtime and each lock.  stopLocked and       *)
(* startLocked are used as subroutines by the other operations, as in the  *)
(* code: pc values "p_*" are the body of stopLocked and "s_*" the body of  *)
(* startLocked; `op' says where their callers continue.                    *)
(*                                                                         *)
(* Servers share no lock and no row here, so one server is modelled.  The  *)
(* states installing and building, which the code always treats alike, are *)
(* one state "installing"; container states exited, dead and stopped are   *)
(* one state "exited" whose exit code is "ok" (0, 130, 143) or "bad".      *)
(***************************************************************************)
EXTENDS Naturals, FiniteSets

CONSTANTS
    Workers,     \* request, schedule and background goroutines
    Monitor,     \* the goroutine of RunStatusMonitor
    Provisioner, \* the background goroutine Create starts for the server
    NoOne,       \* the holder of a free lock
    Ops,         \* the operations the workers may be asked for
    Faults,      \* the runtime calls that may fail
    Commands,    \* the console commands users send that end the server
    MaxOps,      \* bound on the operations started
    MaxCid,      \* bound on the containers created
    MaxFaults,   \* bound on the failed calls
    MaxCrashes   \* bound on the panel crashes

Procs == Workers \union {Monitor, Provisioner}

AllOps == {"start", "stop", "kill", "restart", "recreate", "update", "delete",
           "install", "modpack", "backup", "restore", "uninstall", "logs",
           "console", "edit"}

AllFaults == {"inspect", "create", "boot", "stop", "kill", "remove", "send",
              "jar", "ports", "disconnect", "rm"}

States == {"stopped", "starting", "running", "stopping", "error", "installing"}
Online == {"running", "starting", "installing"}
Offline == {"stopped", "error"}
Events == {"none", "started", "stopped", "crashed", "error"}

ASSUME ProcsAssumption == /\ Monitor \notin Workers /\ Provisioner \notin Workers
                          /\ Monitor # Provisioner /\ NoOne \notin Procs
ASSUME OpsAssumption == /\ Ops \subseteq AllOps /\ Faults \subseteq AllFaults
                        /\ Commands \subseteq {"stop", "shutdown"}
ASSUME BoundsAssumption == /\ MaxOps \in Nat /\ MaxCid \in Nat
                           /\ MaxFaults \in Nat /\ MaxCrashes \in Nat

VARIABLES
    row,      \* the row of table servers: [here, state, cid, since]; cid 0 is
              \* the empty container_id, since says that started_at is set
    box,      \* the container holding the name mcm-<id>: [id, st, exit]
    disk,     \* [bin, mark]: the server executable and the file .mcm_state
    life,     \* holder of the lifecycle mutex
    writer,   \* holder of the world lock for writing
    readers,  \* holders of the world lock for reading
    pc,       \* where each goroutine is
    op,       \* the operation each goroutine executes
    own,      \* the operation's own copy of the row: [state, cid, since]
    srv,      \* the copy of the row read by stopLocked or startLocked
    was,      \* wasOnline, wasRunning: the server was up when the op began
    gone,     \* the request's context is cancelled (client disconnected)
    task,     \* an active task progress entry is recorded for the server
    note,     \* the notification sent by the last step
    asked,    \* the panel asked the container to end since it last started
    alerted,  \* a crash alert was sent since the container last started
    budget    \* what is left of the bounds: [ops, cids, faults, crashes]

locals == <<pc, op, own, srv, was, gone>>
locks  == <<life, writer, readers>>
ghosts == <<asked, alerted>>
vars   == <<row, box, disk, locks, locals, task, note, ghosts, budget>>

-----------------------------------------------------------------------------
(* Control labels.                                                         *)

StopLabels  == {"p_get", "p_peek", "p_mark", "p_inspect", "p_send", "p_wait",
                "p_haltctx", "p_halt", "p_fail", "p_fin"}
\* ensureContainer, of startLocked, Install, Console and Create's goroutine.
EnsureLabels == {"s_ensure", "s_exists", "s_clear", "s_jar", "s_fetch",
                 "s_create", "s_record", "s_settle", "s_fail"}
\* The rest of startLocked, under the world lock for reading.
StartLabels == {"s_get", "s_inspect", "s_ports", "s_mark", "s_boot", "s_run"}
\* A goroutine is reading or replacing the files of the server.
DataLabels  == {"b_files", "i_files", "i_undo", "n_files", "n_undo", "m_files", "e_files"}
OtherLabels == {"idle", "lock", "done", "s_world", "k_try", "k_get", "k_mark",
                "k_kill", "k_fail", "k_fin", "t_inspect", "t_apply", "t_since",
                "c_get", "c_send", "c_mark", "r_get", "r_peek", "r_reget",
                "r_clear", "x_remove", "u_get", "u_clear", "u_write", "d_world",
                "d_get", "d_row", "w_world", "i_get", "i_clear", "i_write",
                "n_fetch", "n_mark", "n_get", "n_clear", "n_write", "n_fail", "n_fin",
                "b_get", "b_check", "e_world", "e_check", "l_get"}
Labels == StopLabels \union EnsureLabels \union StartLabels \union DataLabels \union OtherLabels

Goto(w, l) == pc' = [pc EXCEPT ![w] = l]

\* Where an operation begins.
Entry(o) == CASE o = "kill" -> "k_try"
              [] o = "console" -> "c_get"
              [] o = "edit" -> "e_world"
              [] o = "modpack" -> "n_fetch"
              [] OTHER -> "lock"

\* Where an operation continues once it holds the lifecycle mutex.
AfterLock(o) == CASE o = "start" -> "s_world"
                  [] o \in {"stop", "restart"} -> "p_get"
                  [] o = "recreate" -> "r_get"
                  [] o = "update" -> "u_get"
                  [] o = "delete" -> "d_world"
                  [] o \in {"install", "modpack", "uninstall", "backup", "restore"} -> "w_world"
                  [] o = "logs" -> "l_get"
                  [] o = "provision" -> "s_ensure"

\* Where an operation continues once it holds the world lock for writing.
AfterWorld(o) == CASE o = "install" -> "i_get"
                   [] o \in {"modpack", "uninstall"} -> "p_get"
                   [] o \in {"backup", "restore"} -> "b_get"

\* Where the caller of stopLocked continues when it succeeds.
AfterStop(o) == CASE o = "stop" -> "done"
                  [] o = "restart" -> "s_world"
                  [] o = "recreate" -> "r_reget"
                  [] o \in {"update", "delete"} -> "x_remove"
                  [] o = "install" -> "i_files"
                  [] o = "modpack" -> "n_mark"
                  [] o = "uninstall" -> "m_files"
                  [] o \in {"backup", "restore"} -> "b_check"

\* Where the caller of removeContainer continues when it succeeds.
AfterRemove(o) == CASE o = "recreate" -> "r_clear"
                    [] o = "update" -> "u_clear"
                    [] o = "delete" -> "d_row"
                    [] o = "install" -> "i_clear"
                    [] o = "modpack" -> "n_clear"

\* ... and when it fails: files that were swapped are put back.
AfterRemoveFails(o) == CASE o = "install" -> "i_undo"
                         [] o = "modpack" -> "n_undo"
                         [] OTHER -> "done"

-----------------------------------------------------------------------------
(* The database, the notifications and the runtime, as the steps use them. *)

Snapshot == [state |-> row.state, cid |-> row.cid, since |-> row.since]
Blank == [state |-> "stopped", cid |-> 0, since |-> FALSE]

\* The event changeState sends when the state goes from prev to next; kind is
\* the explicit kind of the caller ("none" when it gives none).
NoteFor(prev, next, kind) ==
    IF prev = next THEN "none"
    ELSE IF kind # "none" THEN kind
    ELSE IF next = "running" THEN "started"
    ELSE IF next = "stopped" /\ prev \in {"running", "starting", "stopping"} THEN "stopped"
    ELSE IF next = "error" THEN "error"
    ELSE "none"

\* changeState without an expected state: one transaction.  A row that was
\* deleted meanwhile is not an error.
SetState(next) ==
    /\ row' = IF row.here THEN [row EXCEPT !.state = next, !.since = next = "running"]
                           ELSE row
    /\ note' = IF row.here THEN NoteFor(row.state, next, "none") ELSE "none"

\* Variant: the observation is applied whatever the row says by now.
ObserveStateBlindly(expected, next, kind) ==
    /\ row' = IF row.here THEN [row EXCEPT !.state = next, !.since = next = "running"] ELSE row
    /\ note' = IF row.here THEN NoteFor(row.state, next, kind) ELSE "none"

\* changeState with an expected state: the observation is dropped when the
\* row changed since it was read.
ObserveState(expected, next, kind) ==
    IF row.here /\ row.state = expected
    THEN /\ row' = [row EXCEPT !.state = next, !.since = next = "running"]
         /\ note' = NoteFor(row.state, next, kind)
    ELSE UNCHANGED row /\ note' = "none"

Silent == UNCHANGED row /\ note' = "none"

CanFail(call) == call \in Faults /\ budget.faults > 0
SpendFault == budget' = [budget EXCEPT !.faults = @ - 1]

\* A runtime call with the request's context fails once the client is gone;
\* otherwise it fails when the runtime does.
Fails(w, call) == \/ gone[w] /\ UNCHANGED budget
                  \/ ~gone[w] /\ CanFail(call) /\ SpendFault
\* The same for a call whose context outlives the request.
FailsDetached(call) == CanFail(call) /\ SpendFault

\* The container the id names exists.
Present(cid) == cid # 0 /\ box.id = cid
Up(cid) == Present(cid) /\ box.st = "running"

NoBox == [id |-> 0, st |-> "created", exit |-> "ok"]
Halted(code) == [box EXCEPT !.st = "exited", !.exit = code]

\* docker stop on the container cid.  A server that saves within the grace
\* period exits with code 0; one that does not is killed, code 137.  A
\* container that is not running is left as it is.
DockerStopped(cid) ==
    IF Up(cid)
    THEN /\ \E code \in {"ok", "bad"} : box' = Halted(code)
         /\ asked' = TRUE
    ELSE UNCHANGED <<box, asked>>

\* docker stop with timeout 0, which Kill uses: SIGKILL, exit code 137.
DockerKilled(cid) ==
    IF Up(cid) THEN box' = Halted("bad") /\ asked' = TRUE
               ELSE UNCHANGED <<box, asked>>

\* Variant: the runtime's own status is stored as the state.
MapDockerStateRaw(st, exit) == st

\* mapDockerState for the container states of the model.
MapDockerState(st, exit) ==
    CASE st = "running" -> "running"
      [] st = "exited" -> IF exit = "ok" THEN "stopped" ELSE "error"
      [] st = "created" -> "stopped"

\* pendingInitialState: an installer is running or is about to run.
PendingInitialState == disk.mark \/ disk.bin = "installer"
-----------------------------------------------------------------------------
\* A server registered by Create, which provisions it in the background unless
\* its type is custom.
InitFresh ==
    /\ row = [here |-> TRUE, state |-> "stopped", cid |-> 0, since |-> FALSE]
    /\ box = NoBox
    /\ disk \in [bin : {"missing", "ready"}, mark : {FALSE}]
    /\ \E l \in {"idle", "lock"} : pc = [w \in Procs |-> IF w = Provisioner THEN l ELSE "idle"]
    /\ budget = [ops |-> MaxOps, cids |-> MaxCid, faults |-> MaxFaults, crashes |-> MaxCrashes]

\* A server that was stopped before, with its container.
InitKept ==
    /\ MaxCid > 0
    /\ row = [here |-> TRUE, state |-> "stopped", cid |-> 1, since |-> FALSE]
    /\ box = [id |-> 1, st |-> "exited", exit |-> "ok"]
    /\ disk = [bin |-> "ready", mark |-> FALSE]
    /\ pc = [w \in Procs |-> "idle"]
    /\ budget = [ops |-> MaxOps, cids |-> MaxCid - 1, faults |-> MaxFaults,
                 crashes |-> MaxCrashes]

\* A server that runs while the panel starts.
InitRunning ==
    /\ MaxCid > 0
    /\ row = [here |-> TRUE, state |-> "running", cid |-> 1, since |-> TRUE]
    /\ box = [id |-> 1, st |-> "running", exit |-> "ok"]
    /\ disk = [bin |-> "ready", mark |-> FALSE]
    /\ pc = [w \in Procs |-> "idle"]
    /\ budget = [ops |-> MaxOps, cids |-> MaxCid - 1, faults |-> MaxFaults,
                 crashes |-> MaxCrashes]

Init ==
    /\ InitFresh \/ InitKept \/ InitRunning
    /\ life = NoOne /\ writer = NoOne /\ readers = {}
    /\ op = [w \in Procs |-> IF pc[w] = "lock" THEN "provision" ELSE "none"]
    /\ own = [w \in Procs |-> Blank]
    /\ srv = [w \in Procs |-> Blank]
    /\ was = [w \in Procs |-> FALSE]
    /\ gone = [w \in Procs |-> FALSE]
    /\ task = FALSE /\ note = "none"
    /\ asked = (box.st # "running") /\ alerted = FALSE

-----------------------------------------------------------------------------
(* Requests, locks and the end of an operation.                            *)

Begin(w, o) ==
    /\ pc[w] = "idle" /\ budget.ops > 0
    /\ op' = [op EXCEPT ![w] = o]
    /\ budget' = [budget EXCEPT !.ops = @ - 1]
    /\ Goto(w, Entry(o))
    /\ Silent /\ UNCHANGED <<box, disk, locks, own, srv, was, gone, task, ghosts>>

\* The client closes the connection: the context of its request is cancelled.
\* Start and Recreate detach from it at once.
Disconnect(w) ==
    /\ pc[w] \notin {"idle", "done"} /\ ~gone[w] /\ CanFail("disconnect")
    /\ op[w] \notin {"start", "recreate"}
    /\ gone' = [gone EXCEPT ![w] = TRUE]
    /\ SpendFault
    /\ Silent /\ UNCHANGED <<box, disk, locks, pc, op, own, srv, was, task, ghosts>>

\* Variant: the mutex is only tried, as Kill does.
AcquireLifecycleTry(w) ==
    /\ pc[w] = "lock"
    /\ life' = IF life = NoOne THEN w ELSE life
    /\ Goto(w, AfterLock(op[w]))
    /\ Silent /\ UNCHANGED <<box, disk, writer, readers, op, own, srv, was, gone, task,
                             ghosts, budget>>

AcquireLifecycle(w) ==
    /\ pc[w] = "lock" /\ life = NoOne
    /\ life' = w
    /\ Goto(w, AfterLock(op[w]))
    /\ Silent /\ UNCHANGED <<box, disk, writer, readers, op, own, srv, was, gone, task,
                             ghosts, budget>>

\* lockWorld(id, true); Delete, the data operations and world edits use it.
AcquireWorld(w) ==
    /\ pc[w] \in {"w_world", "d_world", "e_world"}
    /\ writer = NoOne /\ readers = {}
    /\ writer' = w
    /\ Goto(w, CASE pc[w] = "w_world" -> AfterWorld(op[w])
                 [] pc[w] = "d_world" -> "d_get"
                 [] pc[w] = "e_world" -> "e_check")
    /\ Silent /\ UNCHANGED <<box, disk, life, readers, op, own, srv, was, gone, task,
                             ghosts, budget>>

\* Variant: startLocked does not wait for the writer.
AcquireWorldSharedAnyway(w) ==
    /\ pc[w] = "s_world"
    /\ readers' = readers \union {w}
    /\ Goto(w, "s_get")
    /\ Silent /\ UNCHANGED <<box, disk, life, writer, op, own, srv, was, gone, task,
                             ghosts, budget>>

\* lockWorld(id, false) at the head of startLocked.
AcquireWorldShared(w) ==
    /\ pc[w] = "s_world" /\ writer = NoOne
    /\ readers' = readers \union {w}
    /\ Goto(w, "s_get")
    /\ Silent /\ UNCHANGED <<box, disk, life, writer, op, own, srv, was, gone, task,
                             ghosts, budget>>

\* The operation returns: its deferred unlocks run, its variables are gone.
Return(w) ==
    /\ pc[w] = "done"
    /\ life' = IF life = w THEN NoOne ELSE life
    /\ writer' = IF writer = w THEN NoOne ELSE writer
    /\ readers' = readers \ {w}
    /\ Goto(w, "idle")
    /\ op' = [op EXCEPT ![w] = "none"]
    /\ own' = [own EXCEPT ![w] = Blank] /\ srv' = [srv EXCEPT ![w] = Blank]
    /\ was' = [was EXCEPT ![w] = FALSE] /\ gone' = [gone EXCEPT ![w] = FALSE]
    /\ Silent /\ UNCHANGED <<box, disk, task, ghosts, budget>>

-----------------------------------------------------------------------------
(* stopLocked                                                              *)

StopGet(w) ==
    /\ pc[w] = "p_get"
    /\ srv' = [srv EXCEPT ![w] = Snapshot]
    /\ Goto(w, IF ~row.here \/ gone[w] THEN "done"
               ELSE IF row.state # "stopped" THEN "p_mark"
               ELSE IF row.cid = 0 THEN AfterStop(op[w]) ELSE "p_peek")
    /\ Silent /\ UNCHANGED <<box, disk, locks, op, own, was, gone, task, ghosts, budget>>

\* A server recorded as stopped is left alone if its container is down too.
StopPeek(w) ==
    /\ pc[w] = "p_peek"
    /\ \/ /\ ~gone[w] /\ UNCHANGED budget
          /\ Goto(w, IF Present(srv[w].cid) /\ box.st # "running"
                     THEN AfterStop(op[w]) ELSE "p_mark")
       \/ Fails(w, "inspect") /\ Goto(w, "p_mark")
    /\ Silent /\ UNCHANGED <<box, disk, locks, op, own, srv, was, gone, task, ghosts>>

\* setState(stopping): the stop intent is recorded before the container goes.
StopMark(w) ==
    /\ pc[w] = "p_mark"
    /\ IF gone[w] THEN Silent /\ Goto(w, "done")
       ELSE /\ SetState("stopping")
            /\ Goto(w, IF srv[w].cid = 0 THEN "p_fin" ELSE "p_inspect")
    /\ UNCHANGED <<box, disk, locks, op, own, srv, was, gone, task, ghosts, budget>>

StopInspect(w) ==
    /\ pc[w] = "p_inspect"
    /\ \/ /\ ~gone[w] /\ UNCHANGED budget
          /\ Goto(w, IF ~Present(srv[w].cid) \/ box.st = "exited" THEN "p_fin"
                     ELSE IF box.st = "running" THEN "p_send" ELSE "p_halt")
       \/ Fails(w, "inspect") /\ Goto(w, "done")
    /\ Silent /\ UNCHANGED <<box, disk, locks, op, own, srv, was, gone, task, ghosts>>

\* The stop command goes to the server's console.
StopSend(w) ==
    /\ pc[w] = "p_send"
    /\ \/ /\ ~gone[w] /\ UNCHANGED budget
          /\ IF Up(srv[w].cid) THEN asked' = TRUE /\ Goto(w, "p_wait")
                               ELSE UNCHANGED asked /\ Goto(w, "p_haltctx")
       \/ Fails(w, "send") /\ UNCHANGED asked /\ Goto(w, "p_haltctx")
    /\ Silent /\ UNCHANGED <<box, disk, locks, op, own, srv, was, gone, task, alerted>>

\* Variant: after 15 s the server is taken to be down.
StopWaitHopeful(w) ==
    /\ pc[w] = "p_wait" /\ Goto(w, "p_fin")
    /\ Silent /\ UNCHANGED <<box, disk, locks, op, own, srv, was, gone, task, ghosts, budget>>

\* Variant: after 15 s the operation gives up.
StopWaitGivesUp(w) ==
    /\ pc[w] = "p_wait"
    /\ \/ ~gone[w] /\ Present(srv[w].cid) /\ box.st # "running" /\ Goto(w, "p_fin")
       \/ Goto(w, "done")
    /\ Silent /\ UNCHANGED <<box, disk, locks, op, own, srv, was, gone, task, ghosts, budget>>

\* Poll until the container is seen down; after 15 s stop it by force.
StopWait(w) ==
    /\ pc[w] = "p_wait"
    /\ \/ ~gone[w] /\ Present(srv[w].cid) /\ box.st # "running" /\ Goto(w, "p_fin")
       \/ Goto(w, "p_halt")
    /\ Silent /\ UNCHANGED <<box, disk, locks, op, own, srv, was, gone, task, ghosts, budget>>

\* docker.Stop; "p_haltctx" calls it with the context of the request.  A call
\* that fails may have stopped the container all the same.
StopHalt(w) ==
    /\ pc[w] \in {"p_haltctx", "p_halt"}
    /\ \/ /\ ~(pc[w] = "p_haltctx" /\ gone[w]) /\ UNCHANGED budget
          /\ DockerStopped(srv[w].cid)
          /\ Goto(w, IF Present(srv[w].cid) THEN "p_fin" ELSE "p_fail")
       \/ /\ IF pc[w] = "p_haltctx" THEN Fails(w, "stop") ELSE FailsDetached("stop")
          /\ \/ UNCHANGED <<box, asked>>
             \/ DockerStopped(srv[w].cid)
          /\ Goto(w, IF pc[w] = "p_haltctx" /\ gone[w] THEN "done" ELSE "p_fail")
    /\ Silent /\ UNCHANGED <<disk, locks, op, own, srv, was, gone, task, alerted>>

\* A lifecycle operation failed: setState(error), then return.
MarkError(w) ==
    /\ pc[w] \in {"p_fail", "k_fail", "s_fail"}
    /\ IF pc[w] = "k_fail" /\ gone[w] THEN Silent ELSE SetState("error")
    /\ Goto(w, "done")
    /\ UNCHANGED <<box, disk, locks, op, own, srv, was, gone, task, ghosts, budget>>

\* .mcm_state is removed and the server recorded as stopped.
StopFinish(w) ==
    /\ pc[w] = "p_fin"
    /\ disk' = [disk EXCEPT !.mark = FALSE]
    /\ SetState("stopped")
    /\ srv' = [srv EXCEPT ![w] = Blank]
    /\ Goto(w, AfterStop(op[w]))
    /\ UNCHANGED <<box, locks, op, own, was, gone, task, ghosts, budget>>

-----------------------------------------------------------------------------
(* startLocked, whose context outlives the request, and ensureContainer,   *)
(* which Install and Console call with the context of the request.         *)

Cut(w) == gone[w] /\ op[w] \in {"install", "logs"}

StartGet(w) ==
    /\ pc[w] = "s_get"
    /\ srv' = [srv EXCEPT ![w] = Snapshot]
    /\ Goto(w, IF ~row.here THEN "done"
               ELSE IF row.state = "running" /\ row.cid # 0 THEN "s_inspect" ELSE "s_ensure")
    /\ Silent /\ UNCHANGED <<box, disk, locks, op, own, was, gone, task, ghosts, budget>>

\* A server recorded as running whose container runs needs no start.
StartInspect(w) ==
    /\ pc[w] = "s_inspect"
    /\ \/ Goto(w, IF Up(srv[w].cid) THEN "done" ELSE "s_ensure") /\ UNCHANGED budget
       \/ FailsDetached("inspect") /\ Goto(w, "s_ensure")
    /\ Silent /\ UNCHANGED <<box, disk, locks, op, own, srv, was, gone, task, ghosts>>

\* The row is read again; when that fails the caller's copy is used.
EnsureGet(w) ==
    /\ pc[w] = "s_ensure"
    /\ LET copy == IF row.here /\ ~Cut(w) THEN Snapshot ELSE srv[w]
       IN /\ srv' = [srv EXCEPT ![w] = copy]
          /\ Goto(w, IF copy.cid # 0 THEN "s_exists" ELSE "s_jar")
    /\ Silent /\ UNCHANGED <<box, disk, locks, op, own, was, gone, task, ghosts, budget>>

\* Where the caller of ensureContainer continues when it succeeds.
AfterEnsure(o) == IF o \in {"install", "logs", "provision"} THEN "done" ELSE "s_ports"

\* Variant: an inspection that fails counts as a container that is gone.
EnsureExistsGone(w) ==
    /\ pc[w] = "s_exists"
    /\ \/ /\ ~Cut(w) /\ UNCHANGED budget
          /\ Goto(w, IF Present(srv[w].cid) THEN AfterEnsure(op[w]) ELSE "s_clear")
       \/ FailsDetached("inspect") /\ Goto(w, "s_clear")
    /\ Silent /\ UNCHANGED <<box, disk, locks, op, own, srv, was, gone, task, ghosts>>

EnsureExists(w) ==
    /\ pc[w] = "s_exists"
    /\ \/ /\ ~Cut(w) /\ UNCHANGED budget
          /\ Goto(w, IF Present(srv[w].cid) THEN AfterEnsure(op[w]) ELSE "s_clear")
       \/ /\ IF Cut(w) THEN UNCHANGED budget ELSE FailsDetached("inspect")
          /\ Goto(w, "done")
    /\ Silent /\ UNCHANGED <<box, disk, locks, op, own, srv, was, gone, task, ghosts>>

\* The recorded container was removed: clearContainerID.
EnsureClear(w) ==
    /\ pc[w] = "s_clear"
    /\ IF Cut(w) THEN UNCHANGED <<row, srv>> /\ Goto(w, "done")
       ELSE /\ row' = [row EXCEPT !.cid = 0]
            /\ srv' = [srv EXCEPT ![w].cid = 0]
            /\ Goto(w, "s_jar")
    /\ note' = "none"
    /\ UNCHANGED <<box, disk, locks, op, own, was, gone, task, ghosts, budget>>

\* The server software is missing: the row says installing while it downloads.
EnsureJar(w) ==
    /\ pc[w] = "s_jar"
    /\ IF disk.bin = "missing"
       THEN /\ IF Cut(w) THEN Silent ELSE SetState("installing")
            /\ srv' = [srv EXCEPT ![w].state = "installing"]
            /\ task' = TRUE
            /\ Goto(w, "s_fetch")
       ELSE Silent /\ UNCHANGED <<srv, task>> /\ Goto(w, "s_create")
    /\ UNCHANGED <<box, disk, locks, op, own, was, gone, ghosts, budget>>

\* The download ends with a server jar, an installer, or an error; the task
\* entry then says failed, which is not active.
EnsureFetch(w) ==
    /\ pc[w] = "s_fetch"
    /\ \/ /\ \E b \in {"ready", "installer"} : disk' = [disk EXCEPT !.bin = b]
          /\ Goto(w, "s_create") /\ UNCHANGED <<task, budget>>
       \/ /\ FailsDetached("jar")
          /\ task' = FALSE
          /\ Goto(w, "s_fail") /\ UNCHANGED disk
    /\ Silent /\ UNCHANGED <<box, locks, op, own, srv, was, gone, ghosts>>

\* docker.Create refuses when the name mcm-<id> is taken.  Its errors leave
\* the state and the task entry as they are.
EnsureCreate(w) ==
    /\ pc[w] = "s_create"
    /\ \/ /\ ~Cut(w) /\ box.id = 0 /\ budget.cids > 0
          /\ box' = [id |-> MaxCid - budget.cids + 1, st |-> "created", exit |-> "ok"]
          /\ budget' = [budget EXCEPT !.cids = @ - 1]
          /\ Goto(w, "s_record")
       \/ /\ Cut(w) \/ box.id # 0 \/ budget.cids = 0
          /\ Goto(w, "done") /\ UNCHANGED <<box, budget>>
       \/ FailsDetached("create") /\ Goto(w, "done") /\ UNCHANGED box
    /\ Silent /\ UNCHANGED <<disk, locks, op, own, srv, was, gone, task, ghosts>>

\* UPDATE servers SET container_id; a deleted row is not an error.
EnsureRecord(w) ==
    /\ pc[w] = "s_record"
    /\ IF Cut(w) THEN UNCHANGED <<row, srv>> /\ Goto(w, "done")
       ELSE /\ row' = IF row.here THEN [row EXCEPT !.cid = box.id] ELSE row
            /\ srv' = [srv EXCEPT ![w].cid = box.id]
            /\ Goto(w, "s_settle")
    /\ note' = "none"
    /\ UNCHANGED <<box, disk, locks, op, own, was, gone, task, ghosts, budget>>

\* Variant: the task entry is left behind.
EnsureSettleKeepsTask(w) ==
    /\ pc[w] = "s_settle"
    /\ IF srv[w].state = "installing" /\ ~Cut(w) THEN SetState("stopped") ELSE Silent
    /\ Goto(w, AfterEnsure(op[w]))
    /\ UNCHANGED <<box, disk, locks, op, own, srv, was, gone, task, ghosts, budget>>

\* Provisioning ends: installing becomes stopped, the task entry is cleared.
EnsureSettle(w) ==
    /\ pc[w] = "s_settle"
    /\ IF srv[w].state = "installing" /\ ~Cut(w) THEN SetState("stopped") ELSE Silent
    /\ task' = FALSE
    /\ Goto(w, AfterEnsure(op[w]))
    /\ UNCHANGED <<box, disk, locks, op, own, srv, was, gone, ghosts, budget>>

StartPorts(w) ==
    /\ pc[w] = "s_ports"
    /\ \/ Goto(w, "s_mark") /\ UNCHANGED budget
       \/ FailsDetached("ports") /\ Goto(w, "s_fail")
    /\ Silent /\ UNCHANGED <<box, disk, locks, op, own, srv, was, gone, task, ghosts>>

StartMark(w) ==
    /\ pc[w] = "s_mark"
    /\ SetState(IF PendingInitialState THEN "installing" ELSE "starting")
    /\ Goto(w, "s_boot")
    /\ UNCHANGED <<box, disk, locks, op, own, srv, was, gone, task, ghosts, budget>>

\* docker start on the container cid.
DockerStarted(cid) ==
    IF Present(cid) /\ box.st # "running"
    THEN /\ box' = [box EXCEPT !.st = "running", !.exit = "ok"]
         /\ asked' = FALSE /\ alerted' = FALSE
    ELSE UNCHANGED <<box, ghosts>>

\* docker.Start.  A call that fails may have started the container.
StartBoot(w) ==
    /\ pc[w] = "s_boot"
    /\ \/ /\ DockerStarted(srv[w].cid) /\ UNCHANGED budget
          /\ Goto(w, IF Present(srv[w].cid) THEN "s_run" ELSE "s_fail")
       \/ /\ FailsDetached("boot")
          /\ UNCHANGED <<box, ghosts>> \/ DockerStarted(srv[w].cid)
          /\ Goto(w, "s_fail")
    /\ Silent /\ UNCHANGED <<disk, locks, op, own, srv, was, gone, task>>

StartRun(w) ==
    /\ pc[w] = "s_run"
    /\ SetState(IF PendingInitialState THEN "installing" ELSE "running")
    /\ Goto(w, "done")
    /\ UNCHANGED <<box, disk, locks, op, own, srv, was, gone, task, ghosts, budget>>

-----------------------------------------------------------------------------
(* Kill: the mutex is only tried, and the steps go on without it.          *)

KillTry(w) ==
    /\ pc[w] = "k_try"
    /\ life' = IF life = NoOne THEN w ELSE life
    /\ Goto(w, "k_get")
    /\ Silent /\ UNCHANGED <<box, disk, writer, readers, op, own, srv, was, gone, task,
                             ghosts, budget>>

KillGet(w) ==
    /\ pc[w] = "k_get"
    /\ own' = [own EXCEPT ![w] = Snapshot]
    /\ Goto(w, IF ~row.here \/ gone[w] THEN "done" ELSE "k_mark")
    /\ Silent /\ UNCHANGED <<box, disk, locks, op, srv, was, gone, task, ghosts, budget>>

KillMark(w) ==
    /\ pc[w] = "k_mark"
    /\ IF gone[w] THEN Silent /\ Goto(w, "done")
       ELSE SetState("stopping") /\ Goto(w, IF own[w].cid = 0 THEN "k_fin" ELSE "k_kill")
    /\ UNCHANGED <<box, disk, locks, op, own, srv, was, gone, task, ghosts, budget>>

KillKill(w) ==
    /\ pc[w] = "k_kill"
    /\ \/ /\ ~gone[w] /\ UNCHANGED budget
          /\ DockerKilled(own[w].cid)
          /\ Goto(w, IF Present(own[w].cid) THEN "k_fin" ELSE "k_fail")
       \/ /\ Fails(w, "kill")
          /\ UNCHANGED <<box, asked>> \/ DockerKilled(own[w].cid)
          /\ Goto(w, "k_fail")
    /\ Silent /\ UNCHANGED <<disk, locks, op, own, srv, was, gone, task, alerted>>

KillFinish(w) ==
    /\ pc[w] = "k_fin"
    /\ disk' = [disk EXCEPT !.mark = FALSE]
    /\ IF gone[w] THEN Silent ELSE SetState("stopped")
    /\ Goto(w, "done")
    /\ UNCHANGED <<box, locks, op, own, srv, was, gone, task, ghosts, budget>>

-----------------------------------------------------------------------------
(* Status, which the monitor calls every five seconds.  When the mutex is  *)
(* taken it only reads the row, a step that changes nothing.               *)

\* Variant: Status does not try the mutex first.
StatusGetUnlocked ==
    /\ pc[Monitor] = "idle"
    /\ row.here /\ row.cid # 0
    /\ own' = [own EXCEPT ![Monitor] = Snapshot]
    /\ Goto(Monitor, "t_inspect")
    /\ Silent /\ UNCHANGED <<box, disk, locks, op, srv, was, gone, task, ghosts, budget>>

StatusGet ==
    /\ pc[Monitor] = "idle" /\ life = NoOne
    /\ row.here /\ row.cid # 0
    /\ life' = Monitor
    /\ own' = [own EXCEPT ![Monitor] = Snapshot]
    /\ Goto(Monitor, "t_inspect")
    /\ Silent /\ UNCHANGED <<box, disk, writer, readers, op, srv, was, gone, task,
                             ghosts, budget>>

\* Variant: a stop intent is kept for good.
ObservedStopSticks(state, st, exit) ==
    IF state = "stopping" THEN state ELSE MapDockerState(st, exit)

\* Variant: an error stays until an operation clears it.
ObservedErrorSticks(state, st, exit) ==
    IF state = "error" \/ (state = "stopping" /\ st = "running") THEN state
    ELSE MapDockerState(st, exit)

\* What Status concludes from an inspection of the container, given the state
\* it read; it keeps that state where the code returns early.
Observed(state, st, exit) ==
    IF \/ state = "stopping" /\ st = "running"
       \/ st = "created" /\ state \in {"starting", "installing"}
    THEN state
    ELSE IF st = "running" /\ disk.mark THEN "installing"
    ELSE MapDockerState(st, exit)

\* The inspection.  own.state keeps what was read; srv.state what was seen, and
\* was whether the container was seen to have exited while it should be up.
StatusInspect ==
    /\ pc[Monitor] = "t_inspect"
    /\ \/ /\ Present(own[Monitor].cid)
          /\ LET seen == Observed(own[Monitor].state, box.st, box.exit)
             IN /\ srv' = [srv EXCEPT ![Monitor].state = seen]
                /\ was' = [was EXCEPT ![Monitor] = /\ box.st = "exited"
                                                   /\ own[Monitor].state \in Online]
                /\ Goto(Monitor, IF seen # own[Monitor].state THEN "t_apply"
                                 ELSE IF seen = "running" /\ ~own[Monitor].since
                                 THEN "t_since" ELSE "done")
          /\ UNCHANGED budget
       \/ ~Present(own[Monitor].cid) /\ Goto(Monitor, "done") /\ UNCHANGED <<srv, was, budget>>
       \/ FailsDetached("inspect") /\ Goto(Monitor, "done") /\ UNCHANGED <<srv, was>>
    /\ Silent /\ UNCHANGED <<box, disk, locks, op, own, gone, task, ghosts>>

\* The observation is recorded unless the row changed since it was read.
StatusApply ==
    /\ pc[Monitor] = "t_apply"
    /\ ObserveState(own[Monitor].state, srv[Monitor].state,
                    IF was[Monitor] THEN "crashed" ELSE "none")
    /\ alerted' = (alerted \/ note' = "crashed")
    /\ Goto(Monitor, "done")
    /\ UNCHANGED <<box, disk, locks, op, own, srv, was, gone, task, asked, budget>>

\* A running row without its start time gets it, whatever the row says by now.
StatusSince ==
    /\ pc[Monitor] = "t_since"
    /\ SetState("running")
    /\ Goto(Monitor, "done")
    /\ UNCHANGED <<box, disk, locks, op, own, srv, was, gone, task, ghosts, budget>>

-----------------------------------------------------------------------------
(* SendConsoleCommand with a command that ends the server.                 *)

ConsoleGet(w) ==
    /\ pc[w] = "c_get"
    /\ own' = [own EXCEPT ![w] = Snapshot]
    /\ Goto(w, IF row.here /\ row.state = "running" /\ row.cid # 0 /\ ~gone[w]
               THEN "c_send" ELSE "done")
    /\ Silent /\ UNCHANGED <<box, disk, locks, op, srv, was, gone, task, ghosts, budget>>

\* Only stop and end are recognised; velocity also ends on shutdown.
ConsoleSend(w) ==
    /\ pc[w] = "c_send"
    /\ \/ /\ Up(own[w].cid) /\ ~gone[w]
          /\ asked' = TRUE
          /\ \E c \in Commands : Goto(w, IF c = "stop" THEN "c_mark" ELSE "done")
          /\ UNCHANGED budget
       \/ /\ ~Up(own[w].cid) /\ Goto(w, "done") /\ UNCHANGED <<asked, budget>>
       \/ Fails(w, "send") /\ Goto(w, "done") /\ UNCHANGED asked
    /\ Silent /\ UNCHANGED <<box, disk, locks, op, own, srv, was, gone, task, alerted>>

ConsoleMark(w) ==
    /\ pc[w] = "c_mark"
    /\ IF gone[w] THEN Silent ELSE SetState("stopping")
    /\ Goto(w, "done")
    /\ UNCHANGED <<box, disk, locks, op, own, srv, was, gone, task, ghosts, budget>>

-----------------------------------------------------------------------------
(* Recreate, Update, Delete and the removal of the container they share.   *)

RecreateGet(w) ==
    /\ pc[w] = "r_get"
    /\ own' = [own EXCEPT ![w] = Snapshot]
    /\ was' = [was EXCEPT ![w] = row.state \in Online]
    /\ Goto(w, IF ~row.here THEN "done"
               ELSE IF row.state \in Online THEN "p_get"
               ELSE IF row.cid # 0 THEN "r_peek" ELSE "r_clear")
    /\ Silent /\ UNCHANGED <<box, disk, locks, op, srv, gone, task, ghosts, budget>>

\* A server that is not recorded online may have a running container.
RecreatePeek(w) ==
    /\ pc[w] = "r_peek"
    /\ \/ /\ was' = [was EXCEPT ![w] = Up(own[w].cid)]
          /\ Goto(w, IF Up(own[w].cid) THEN "p_get" ELSE "x_remove")
          /\ UNCHANGED budget
       \/ FailsDetached("inspect") /\ Goto(w, "x_remove") /\ UNCHANGED was
    /\ Silent /\ UNCHANGED <<box, disk, locks, op, own, srv, gone, task, ghosts>>

RecreateReGet(w) ==
    /\ pc[w] = "r_reget"
    /\ own' = [own EXCEPT ![w] = Snapshot]
    /\ Goto(w, IF ~row.here THEN "done" ELSE IF row.cid # 0 THEN "x_remove" ELSE "r_clear")
    /\ Silent /\ UNCHANGED <<box, disk, locks, op, srv, was, gone, task, ghosts, budget>>

\* docker rm --force on the container cid.
DockerRemoved(cid) ==
    IF Present(cid) THEN box' = NoBox /\ asked' = (asked \/ box.st = "running")
                    ELSE UNCHANGED <<box, asked>>

\* Variant: removal is best effort, every error is tolerated.
RemoveContainerBestEffort(w) ==
    /\ pc[w] = "x_remove"
    /\ \/ UNCHANGED budget /\ DockerRemoved(own[w].cid)
       \/ Fails(w, "remove") /\ UNCHANGED <<box, asked>>
    /\ Goto(w, AfterRemove(op[w]))
    /\ Silent /\ UNCHANGED <<disk, locks, op, own, srv, was, gone, task, alerted>>

\* removeContainer tolerates a container that is gone, and no other error.
RemoveContainer(w) ==
    /\ pc[w] = "x_remove"
    /\ \/ /\ ~gone[w] /\ UNCHANGED budget
          /\ DockerRemoved(own[w].cid)
          /\ Goto(w, AfterRemove(op[w]))
       \/ /\ Fails(w, "remove")
          /\ UNCHANGED <<box, asked>> \/ DockerRemoved(own[w].cid)
          /\ Goto(w, AfterRemoveFails(op[w]))
    /\ Silent /\ UNCHANGED <<disk, locks, op, own, srv, was, gone, task, alerted>>

\* One UPDATE forgets the container and the state, without a notification.
RecreateClear(w) ==
    /\ pc[w] = "r_clear"
    /\ row' = [row EXCEPT !.state = "stopped", !.cid = 0, !.since = FALSE]
    /\ note' = "none"
    /\ Goto(w, IF was[w] THEN "s_world" ELSE "done")
    /\ UNCHANGED <<box, disk, locks, op, own, srv, was, gone, task, ghosts, budget>>

\* A new host port for a server with a container takes the container down.
UpdateGet(w) ==
    /\ pc[w] = "u_get"
    /\ own' = [own EXCEPT ![w] = Snapshot]
    /\ IF ~row.here \/ gone[w] THEN Goto(w, "done")
       ELSE \E newPort \in BOOLEAN :
              Goto(w, IF newPort /\ row.cid # 0 THEN "p_get" ELSE "u_write")
    /\ Silent /\ UNCHANGED <<box, disk, locks, op, srv, was, gone, task, ghosts, budget>>

UpdateClear(w) ==
    /\ pc[w] = "u_clear"
    /\ IF gone[w] THEN UNCHANGED <<row, own>> /\ Goto(w, "done")
       ELSE /\ row' = [row EXCEPT !.cid = 0]
            /\ own' = [own EXCEPT ![w].state = "stopped", ![w].cid = 0]
            /\ Goto(w, "u_write")
    /\ note' = "none"
    /\ UNCHANGED <<box, disk, locks, op, srv, was, gone, task, ghosts, budget>>

\* The whole row is written back from the copy, state and container included.
UpdateWrite(w) ==
    /\ pc[w] = "u_write"
    /\ row' = IF gone[w] THEN row
              ELSE [row EXCEPT !.state = own[w].state, !.cid = own[w].cid]
    /\ note' = "none"
    /\ Goto(w, "done")
    /\ UNCHANGED <<box, disk, locks, op, own, srv, was, gone, task, ghosts, budget>>

DeleteGet(w) ==
    /\ pc[w] = "d_get"
    /\ own' = [own EXCEPT ![w] = Snapshot]
    /\ Goto(w, IF ~row.here \/ gone[w] THEN "done"
               ELSE IF row.cid # 0 THEN "p_get" ELSE "d_row")
    /\ Silent /\ UNCHANGED <<box, disk, locks, op, srv, was, gone, task, ghosts, budget>>

DeleteRow(w) ==
    /\ pc[w] = "d_row"
    /\ row' = IF gone[w] THEN row ELSE [row EXCEPT !.here = FALSE]
    /\ note' = "none"
    /\ Goto(w, "done")
    /\ UNCHANGED <<box, disk, locks, op, own, srv, was, gone, task, ghosts, budget>>

-----------------------------------------------------------------------------
(* Install with provisioning, Console (the log stream).                    *)

InstallGet(w) ==
    /\ pc[w] = "i_get"
    /\ own' = [own EXCEPT ![w] = Snapshot]
    /\ Goto(w, IF ~row.here \/ gone[w] THEN "done" ELSE "p_get")
    /\ Silent /\ UNCHANGED <<box, disk, locks, op, srv, was, gone, task, ghosts, budget>>

\* stageRuntime swaps the executables under the world lock.  The swap is
\* undone unless the operation commits, so it shows from InstallCommit on.
InstallStage(w) ==
    /\ pc[w] = "i_files"
    /\ \/ /\ ~gone[w] /\ UNCHANGED budget
          /\ Goto(w, IF own[w].cid # 0 THEN "x_remove" ELSE "i_write")
       \/ Fails(w, "jar") /\ Goto(w, "done")
    /\ Silent /\ UNCHANGED <<box, disk, locks, op, own, srv, was, gone, task, ghosts>>

InstallClear(w) ==
    /\ pc[w] = "i_clear"
    /\ IF gone[w] THEN UNCHANGED <<row, own>> /\ Goto(w, "i_undo")
       ELSE /\ row' = [row EXCEPT !.cid = 0]
            /\ own' = [own EXCEPT ![w].cid = 0]
            /\ Goto(w, "i_write")
    /\ note' = "none"
    /\ UNCHANGED <<box, disk, locks, op, srv, was, gone, task, ghosts, budget>>

InstallCommit(w) ==
    /\ pc[w] = "i_write"
    /\ IF gone[w] THEN UNCHANGED <<row, disk, srv>> /\ Goto(w, "i_undo")
       ELSE /\ row' = [row EXCEPT !.state = "stopped"]
            /\ \E b \in {"ready", "installer"} : disk' = [disk EXCEPT !.bin = b]
            /\ srv' = [srv EXCEPT ![w] = [own[w] EXCEPT !.state = "stopped"]]
            /\ Goto(w, "s_ensure")
    /\ note' = "none"
    /\ UNCHANGED <<box, locks, op, own, was, gone, task, ghosts, budget>>

LogsGet(w) ==
    /\ pc[w] = "l_get"
    /\ srv' = [srv EXCEPT ![w] = Snapshot]
    /\ Goto(w, IF row.here /\ row.cid = 0 /\ ~gone[w] THEN "s_ensure" ELSE "done")
    /\ Silent /\ UNCHANGED <<box, disk, locks, op, own, was, gone, task, ghosts, budget>>

-----------------------------------------------------------------------------
(* InstallModpack, and the download its request makes before it.           *)

\* An uploaded archive is there already.  The download of one records a task
\* entry, which is still active when InstallModpack begins.
ModpackFetch(w) ==
    /\ pc[w] = "n_fetch"
    /\ \/ /\ ~gone[w] /\ UNCHANGED budget
          /\ UNCHANGED task \/ task' = TRUE
          /\ Goto(w, "lock")
       \/ Fails(w, "jar") /\ task' = FALSE /\ Goto(w, "done")
    /\ Silent /\ UNCHANGED <<box, disk, locks, op, own, srv, was, gone, ghosts>>

\* From here on every error records the state error and a failed task.
ModpackMark(w) ==
    /\ pc[w] = "n_mark"
    /\ IF gone[w] THEN Silent ELSE SetState("installing")
    /\ task' = TRUE
    /\ Goto(w, "n_get")
    /\ UNCHANGED <<box, disk, locks, op, own, srv, was, gone, ghosts, budget>>

ModpackGet(w) ==
    /\ pc[w] = "n_get"
    /\ own' = [own EXCEPT ![w] = Snapshot]
    /\ Goto(w, IF ~row.here \/ gone[w] THEN "n_fail" ELSE "n_files")
    /\ Silent /\ UNCHANGED <<box, disk, locks, op, srv, was, gone, task, ghosts, budget>>

\* The pack is staged and published; it may be refused, or a download fail.  A
\* pack for another runtime takes the container down.
ModpackPublish(w) ==
    /\ pc[w] = "n_files"
    /\ \/ ~gone[w] /\ Goto(w, "n_write") /\ UNCHANGED budget
       \/ ~gone[w] /\ own[w].cid # 0 /\ Goto(w, "x_remove") /\ UNCHANGED budget
       \/ ~gone[w] /\ Goto(w, "n_fail") /\ UNCHANGED budget
       \/ Fails(w, "jar") /\ Goto(w, "n_fail")
    /\ Silent /\ UNCHANGED <<box, disk, locks, op, own, srv, was, gone, task, ghosts>>

ModpackClear(w) ==
    /\ pc[w] = "n_clear"
    /\ row' = IF gone[w] THEN row ELSE [row EXCEPT !.cid = 0]
    /\ note' = "none"
    /\ Goto(w, IF gone[w] THEN "n_undo" ELSE "n_write")
    /\ UNCHANGED <<box, disk, locks, op, own, srv, was, gone, task, ghosts, budget>>

\* The executables a pack may leave in the server's directory.
PackBins == {disk.bin, "ready", "installer"}

\* The row gets the runtime of the pack, and the swapped files stay.
ModpackCommit(w) ==
    /\ pc[w] = "n_write"
    /\ IF gone[w] THEN UNCHANGED disk /\ Goto(w, "n_undo")
       ELSE /\ \E b \in PackBins : disk' = [disk EXCEPT !.bin = b]
            /\ Goto(w, "n_fin")
    /\ Silent /\ UNCHANGED <<box, locks, op, own, srv, was, gone, task, ghosts, budget>>

ModpackFinish(w) ==
    /\ pc[w] = "n_fin"
    /\ IF gone[w] THEN Silent ELSE SetState("stopped")
    /\ task' = FALSE
    /\ Goto(w, "done")
    /\ UNCHANGED <<box, disk, locks, op, own, srv, was, gone, ghosts, budget>>

ModpackFail(w) ==
    /\ pc[w] = "n_fail"
    /\ SetState("error")
    /\ task' = FALSE
    /\ Goto(w, "done")
    /\ UNCHANGED <<box, disk, locks, op, own, srv, was, gone, ghosts, budget>>

-----------------------------------------------------------------------------
(* WithStoppedData (backups and restores), UninstallModpack, world edits.  *)

DataGet(w) ==
    /\ pc[w] = "b_get"
    /\ was' = [was EXCEPT ![w] = row.state \in Online]
    /\ Goto(w, IF ~row.here \/ gone[w] \/ task THEN "done" ELSE "p_get")
    /\ Silent /\ UNCHANGED <<box, disk, locks, op, own, srv, gone, task, ghosts, budget>>

\* Variant: the row alone is trusted.
DataStoppedByRow == row.here /\ row.state \in Offline /\ ~task

\* nbtStopped: the row, the container and the task entry all say inactive.
DataStopped == /\ row.here /\ row.state \in Offline
               /\ ~Up(row.cid) /\ ~task

DataCheck(w) ==
    /\ pc[w] = "b_check"
    /\ \/ /\ ~gone[w] /\ UNCHANGED budget
          /\ Goto(w, IF DataStopped THEN "b_files" ELSE "done")
       \/ Fails(w, "inspect") /\ Goto(w, "done")
    /\ Silent /\ UNCHANGED <<box, disk, locks, op, own, srv, was, gone, task, ghosts>>

\* Variant: the world lock is kept while the server resumes.
DataDoneKeepsLock(w) ==
    /\ pc[w] = "b_files"
    /\ Goto(w, IF op[w] = "backup" /\ was[w] THEN "s_world" ELSE "done")
    /\ Silent /\ UNCHANGED <<box, disk, locks, op, own, srv, was, gone, task, ghosts, budget>>

\* The archive is written or extracted.  A backup, failed or not, resumes a
\* server that was up, and gives the world lock back before it does.
DataDone(w) ==
    /\ pc[w] = "b_files"
    /\ IF op[w] = "backup" /\ was[w]
       THEN writer' = NoOne /\ Goto(w, "s_world")
       ELSE UNCHANGED writer /\ Goto(w, "done")
    /\ Silent /\ UNCHANGED <<box, disk, life, readers, op, own, srv, was, gone, task,
                             ghosts, budget>>

\* worldServer and WriteNBT check the same under the world lock alone.
EditCheck(w) ==
    /\ pc[w] = "e_check"
    /\ \/ /\ ~gone[w] /\ UNCHANGED budget
          /\ Goto(w, IF DataStopped THEN "e_files" ELSE "done")
       \/ Fails(w, "inspect") /\ Goto(w, "done")
    /\ Silent /\ UNCHANGED <<box, disk, locks, op, own, srv, was, gone, task, ghosts>>

\* The edit, the removal of a modpack or the undoing of a swap ends.
FilesDone(w) ==
    /\ pc[w] \in {"e_files", "m_files", "i_undo", "n_undo"}
    /\ Goto(w, IF pc[w] = "n_undo" THEN "n_fail" ELSE "done")
    /\ Silent /\ UNCHANGED <<box, disk, locks, op, own, srv, was, gone, task, ghosts, budget>>

-----------------------------------------------------------------------------
(* The container on its own, and the panel process.                        *)

\* The server exits: asked to, by itself, or out of memory.  The entry script
\* removes .mcm_state unless it was killed.
ContainerExit ==
    /\ box.st = "running"
    /\ \E code \in {"ok", "bad"} : box' = Halted(code)
    /\ \E m \in {disk.mark, FALSE} : disk' = [disk EXCEPT !.mark = m]
    /\ Silent /\ UNCHANGED <<locks, locals, task, ghosts, budget>>

\* The entry script runs the installer and says so in .mcm_state.
InstallerStep ==
    /\ box.st = "running" /\ disk.bin = "installer"
    /\ disk' = IF disk.mark THEN [bin |-> "ready", mark |-> FALSE]
                            ELSE [disk EXCEPT !.mark = TRUE]
    /\ Silent /\ UNCHANGED <<box, locks, locals, task, ghosts, budget>>

\* An administrator removes the container outside the panel.
ContainerLost ==
    /\ box.id # 0 /\ CanFail("rm") /\ SpendFault
    /\ DockerRemoved(box.id)
    /\ Silent /\ UNCHANGED <<disk, locks, locals, task, alerted>>

\* The panel dies and restarts: locks, goroutines and task entries are lost,
\* the database, the container and the files are not.  An installation that
\* had swapped the executables, or was about to, is left as it is.
PanelCrash ==
    /\ budget.crashes > 0
    /\ budget' = [budget EXCEPT !.crashes = @ - 1]
    /\ life' = NoOne /\ writer' = NoOne /\ readers' = {}
    /\ pc' = [w \in Procs |-> "idle"]
    /\ op' = [w \in Procs |-> "none"]
    /\ own' = [w \in Procs |-> Blank] /\ srv' = [w \in Procs |-> Blank]
    /\ was' = [w \in Procs |-> FALSE] /\ gone' = [w \in Procs |-> FALSE]
    /\ task' = FALSE
    /\ \/ UNCHANGED disk
       \/ /\ \E w \in Workers :
                \/ pc[w] \in {"i_files", "i_clear", "i_write", "i_undo",
                             "n_files", "n_clear", "n_write", "n_undo"}
                \/ pc[w] = "x_remove" /\ op[w] \in {"install", "modpack"}
          /\ \E b \in {"ready", "installer"} : disk' = [disk EXCEPT !.bin = b]
    /\ Silent /\ UNCHANGED <<box, ghosts>>

-----------------------------------------------------------------------------
LockStep(w) == AcquireLifecycle(w) \/ AcquireWorld(w) \/ AcquireWorldShared(w) \/ Return(w)

StopStep(w) == \/ StopGet(w) \/ StopPeek(w) \/ StopMark(w) \/ StopInspect(w)
               \/ StopSend(w) \/ StopWait(w) \/ StopHalt(w) \/ MarkError(w)
               \/ StopFinish(w)

StartStep(w) == \/ StartGet(w) \/ StartInspect(w) \/ EnsureGet(w) \/ EnsureExists(w)
                \/ EnsureClear(w) \/ EnsureJar(w) \/ EnsureFetch(w) \/ EnsureCreate(w)
                \/ EnsureRecord(w) \/ EnsureSettle(w) \/ StartPorts(w) \/ StartMark(w)
                \/ StartBoot(w) \/ StartRun(w)

KillStep(w) == KillTry(w) \/ KillGet(w) \/ KillMark(w) \/ KillKill(w) \/ KillFinish(w)

ConsoleStep(w) == ConsoleGet(w) \/ ConsoleSend(w) \/ ConsoleMark(w)

RebuildStep(w) == \/ RecreateGet(w) \/ RecreatePeek(w) \/ RecreateReGet(w)
                  \/ RemoveContainer(w) \/ RecreateClear(w)
                  \/ UpdateGet(w) \/ UpdateClear(w) \/ UpdateWrite(w)
                  \/ DeleteGet(w) \/ DeleteRow(w)
                  \/ InstallGet(w) \/ InstallStage(w) \/ InstallClear(w)
                  \/ InstallCommit(w) \/ LogsGet(w)

ModpackStep(w) == \/ ModpackFetch(w) \/ ModpackMark(w) \/ ModpackGet(w)
                  \/ ModpackPublish(w) \/ ModpackClear(w) \/ ModpackCommit(w)
                  \/ ModpackFinish(w) \/ ModpackFail(w)

DataStep(w) == DataGet(w) \/ DataCheck(w) \/ DataDone(w) \/ EditCheck(w) \/ FilesDone(w)

StatusStep == StatusGet \/ StatusInspect \/ StatusApply \/ StatusSince

\* A goroutine executes the next step of its operation.
Step(w) == \/ LockStep(w) \/ StopStep(w) \/ StartStep(w) \/ KillStep(w)
           \/ ConsoleStep(w) \/ RebuildStep(w) \/ ModpackStep(w) \/ DataStep(w)

Environment == ContainerExit \/ InstallerStep \/ ContainerLost \/ PanelCrash

Next == \/ \E w \in Workers, o \in Ops : Begin(w, o)
        \/ \E w \in Procs : Step(w) \/ Disconnect(w)
        \/ StatusStep
        \/ Environment

Spec == Init /\ [][Next]_vars

\* The scheduler runs every goroutine and the ticker runs the monitor.  A
\* goroutine that waits for the mutex competes with the monitor, which takes it
\* again and again: sync.Mutex hands it to the oldest waiter after 1 ms.
Fairness == /\ \A w \in Procs : /\ WF_vars(Step(w))
                                /\ SF_vars(AcquireLifecycle(w))
            /\ WF_vars(StatusStep)
FairSpec == Spec /\ Fairness

-----------------------------------------------------------------------------
(* Properties.                                                             *)

Rows    == [here : BOOLEAN, state : States, cid : 0..MaxCid, since : BOOLEAN]
Copies  == [state : States, cid : 0..MaxCid, since : BOOLEAN]
Boxes   == [id : 0..MaxCid, st : {"created", "running", "exited"}, exit : {"ok", "bad"}]
Disks   == [bin : {"missing", "installer", "ready"}, mark : BOOLEAN]
Budgets == [ops : 0..MaxOps, cids : 0..MaxCid, faults : 0..MaxFaults, crashes : 0..MaxCrashes]

\* Every variable keeps its type: the copies goroutines hold are copies of the
\* row, and no lock is held by a goroutine that does not exist.
TypeOK ==
    /\ row \in Rows /\ box \in Boxes /\ disk \in Disks /\ budget \in Budgets
    /\ life \in Procs \union {NoOne} /\ writer \in Procs \union {NoOne}
    /\ readers \subseteq Procs
    /\ pc \in [Procs -> Labels]
    /\ op \in [Procs -> AllOps \union {"none", "provision"}]
    /\ own \in [Procs -> Copies] /\ srv \in [Procs -> Copies]
    /\ was \in [Procs -> BOOLEAN] /\ gone \in [Procs -> BOOLEAN]
    /\ task \in BOOLEAN /\ note \in Events
    /\ asked \in BOOLEAN /\ alerted \in BOOLEAN

\* The files of the server are archived, replaced or edited by one operation
\* at a time and never while the server runs: what WithStoppedData,
\* stageRuntime, UninstallModpack and the world edits rely on.
DataQuiescent ==
    \A w \in Procs : pc[w] \in DataLabels =>
        /\ box.st # "running"
        /\ \A v \in Procs : pc[v] \in DataLabels => v = w

\* The promise of DataGuard: the files belong to the server or to one operation.
Guard == INSTANCE DataGuard WITH
    Users <- Procs,
    up <- box.st = "running",
    using <- {w \in Procs : pc[w] \in DataLabels}
GuardSpec == Guard!Spec

\* A container that runs is the one the row names, so Stop, Kill and Status
\* always reach it.
RunningTracked == box.st = "running" => row.here /\ row.cid = box.id

\* Every container is tracked, except between docker.Create and the update
\* that records its id, and when the panel died there.
EveryContainerTracked ==
    box.id # 0 /\ budget.crashes = MaxCrashes =>
                  \/ row.here /\ row.cid = box.id
                  \/ \E w \in Procs : pc[w] = "s_record"

\* A deleted server leaves no container behind.
DeletedLeavesNoContainer == ~row.here => box.id = 0

\* A row that says stopped has no running container.
StoppedMeansDown == row.here /\ row.state = "stopped" => box.st # "running"

\* An active task entry has an operation behind it; without one it would lock
\* backups and world edits out for good.
TaskHasOwner == task => \E w \in Procs : pc[w] \in EnsureLabels \/ op[w] = "modpack"

\* The crash alert is sent for a container nobody in the panel asked to end, and once
\* for an exit, as long as the panel does not die in between and forget that it asked.
CrashAlertTruthful ==
    [][note' = "crashed" /\ budget'.crashes = MaxCrashes => ~asked /\ ~alerted]_vars

\* No error is reported for a container the panel asked to end, unless a call
\* to the runtime failed.
DeliberateStopIsNoError ==
    [][note' = "error" => ~asked \/ budget'.faults < MaxFaults]_vars

\* What Status concludes from the container replaces a requested stop only by a state of
\* a container that is down, whoever asked for the stop since Status read the row: the
\* comparison in changeState.  The write of a missing start time does not compare.
ObservationsYield ==
    [][StatusApply /\ row.state = "stopping" => row'.state \in {"stopping"} \union Offline]_vars

\* The same of every write of Status: status reads cannot overwrite a newer operation
\* (notifications.go:23).  The code breaks this: a row that runs without its start time
\* gets it with the state running, also when a stop was requested meanwhile.
RequestedStopKept ==
    [][StatusStep /\ row.state = "stopping" => row'.state \in {"stopping"} \union Offline]_vars

\* Once requests stop coming, the row catches up with the container, whatever the
\* panel died in: one that runs is recorded as online, and not as stopping for ever
\* unless the panel died in the stop; one that is down is recorded as offline.
StatusConverges ==
    <>[](/\ box.st = "running" => \/ row.state \in Online
                                  \/ row.state = "stopping" /\ budget.crashes < MaxCrashes
         /\ row.here /\ row.cid = box.id /\ box.st = "exited" => row.state \in Offline)

\* Every operation ends: the mutex, the world lock and the polls never block
\* it for good.
AllReturn == \A w \in Workers : pc[w] # "idle" ~> pc[w] = "idle"
=============================================================================
