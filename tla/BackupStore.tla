---------------------------- MODULE BackupStore ----------------------------
(***************************************************************************)
(* The backups of the servers: the table backups, the archives on disk or  *)
(* in S3, the data directories a restore replaces, and the goroutines of   *)
(* requests, schedules and RunRetention that create, restore, trash,       *)
(* protect and delete them (internal/backups).                             *)
(*                                                                         *)
(* Every operation takes the lock of its server and then one of a few      *)
(* slots shared by all servers (lockOperation), and proceeds by database   *)
(* and storage calls any of which can fail or find its context cancelled.  *)
(*                                                                         *)
(* Identifiers are numbers in order of creation.  A List is ordered by     *)
(* created_at DESC, rowid DESC, which is the descending order of the       *)
(* numbers, because a record is dated and inserted under the server's lock *)
(* (the clock is assumed not to step back).  The content of a data         *)
(* directory or of an archive is a version number, 0 when there is none.   *)
(* That a server's files stand still while withData runs its callback is   *)
(* what ServerLifecycle establishes; here it is the guard of Play.         *)
(***************************************************************************)
EXTENDS Integers, FiniteSets, Sequences, FiniteSetsExt

CONSTANTS
    Servers, Workers,
    NoOne,       \* the holder of a free lock
    Slots,       \* the operations that may run at once: cap(s.slots)
    Policies,    \* the retention policies: [keep, age, trash], 0 disables
    Ops,         \* the operations the workers may be asked for
    Faults,      \* the calls that may fail
    Existing,    \* the completed backups of the first server at the start
    MaxBackups,  \* bound on the backups there are
    MaxVersion,  \* bound on the versions of a server's files
    MaxClock,    \* bound on the clock, in days
    MaxOps,      \* bound on the operations started
    MaxFaults,   \* bound on the failed calls
    MaxCrashes   \* bound on the panel crashes

Ids == 1..MaxBackups
Versions == 0..MaxVersion

CreateOps == {"backup", "upload"}
SweepOps  == {"cleanup", "empty"}
ChangeOps == {"trash", "recover", "protect", "unprotect", "purge"}
AllOps == CreateOps \union SweepOps \union ChangeOps \union {"restore", "policy"}
AllFaults == {"db", "archive", "save", "remove", "rename", "timeout", "disconnect"}

ASSUME ActorsAssumption == NoOne \notin Workers /\ IsFiniteSet(Workers)
ASSUME OpsAssumption == Ops \subseteq AllOps /\ Faults \subseteq AllFaults
ASSUME PolicyAssumption == Policies \subseteq [keep : Nat, age : Nat, trash : Nat]
ASSUME BoundsAssumption ==
    /\ MaxBackups \in Nat /\ MaxVersion \in Nat \ {0} /\ MaxClock \in Nat \ {0}
    /\ MaxOps \in Nat /\ Existing \in 0..MaxBackups /\ MaxFaults \in Nat
    /\ MaxCrashes \in Nat /\ Slots \in Nat \ {0}

VARIABLES
    rows,     \* table backups; status "none" where there is no record
    archive,  \* the content of the archive saved under each identifier
    world,    \* the content of each server's data directory
    kept,     \* the contents kept in .mcm-recovery-* directories
    policy,   \* table backup_policies
    clock,    \* the day
    lock,     \* operationLocks: the holder of each server's lock
    slots,    \* s.slots: the workers that hold a slot
    pc,       \* where each worker is
    job,      \* [op, srv, id, day]: the call each worker serves, and the day an upload began
    tmp,      \* the content of each worker's temporary archive or stage
    plan,     \* [purge, trash]: what is left of the worker's retention plan
    clean,    \* no call of the worker's cleanup has failed
    gone,     \* the worker's context is cancelled or has timed out
    note,     \* the notification sent by the last step: [kind, id]
    made,     \* the identifiers given out
    budget    \* what is left of the bounds: [ops, backups, faults, crashes]

disk   == <<archive, world, kept>>
locks  == <<lock, slots>>
locals == <<pc, job, tmp, plan, clean, gone>>
vars   == <<rows, disk, policy, clock, locks, locals, note, made, budget>>

NoRow  == [srv |-> NoOne, status |-> "none", protected |-> FALSE, created |-> 0, deleted |-> 0]
NoJob  == [op |-> "none", srv |-> NoOne, id |-> 0, day |-> 0]
NoPlan == [purge |-> {}, trash |-> {}]
NoNote == [kind |-> "none", id |-> 0]

Goto(w, l) == pc' = [pc EXCEPT ![w] = l]
Of(w) == job[w].srv
Id(w) == job[w].id

-----------------------------------------------------------------------------
(* The records of a server and the retention plan.                         *)

Active(s) == {i \in Ids : rows[i].srv = s /\ rows[i].status # "none" /\ rows[i].deleted = 0}
InTrash(s) == {i \in Ids : rows[i].srv = s /\ rows[i].status # "none" /\ rows[i].deleted > 0}
Successful(s) == {i \in Active(s) : rows[i].status = "completed"}
Newest(s) == Max(Successful(s))

\* days is a limit of the policy and day the date it is counted from.
Expired(day, days) == days > 0 /\ day <= clock - days

\* Variant: no snapshot is exempt.
PlanTrashNoExemption(s) ==
    {i \in Successful(s) :
        /\ ~rows[i].protected
        /\ \/ /\ policy[s].keep > 0
              /\ Cardinality({j \in Successful(s) : j >= i /\ ~rows[j].protected}) > policy[s].keep
           \/ Expired(rows[i].created, policy[s].age)}

\* Variant: one snapshot more than the count is kept.
PlanTrashOneMore(s) ==
    {i \in Successful(s) :
        /\ i # Newest(s)
        /\ ~rows[i].protected
        /\ \/ /\ policy[s].keep > 0
              /\ Cardinality({j \in Successful(s) : j > i /\ ~rows[j].protected}) > policy[s].keep
           \/ Expired(rows[i].created, policy[s].age)}

\* planRetention, ToTrash: the completed, unprotected snapshots beyond the
\* count of unprotected ones or the age, but never the newest completed one.
PlanTrash(s) ==
    {i \in Successful(s) :
        /\ i # Newest(s)
        /\ ~rows[i].protected
        /\ \/ /\ policy[s].keep > 0
              /\ Cardinality({j \in Successful(s) : j >= i /\ ~rows[j].protected}) > policy[s].keep
           \/ Expired(rows[i].created, policy[s].age)}

\* planRetention, ToPurge.
PlanPurge(s) ==
    {i \in InTrash(s) : ~rows[i].protected /\ Expired(rows[i].deleted, policy[s].trash)}

-----------------------------------------------------------------------------
(* Calls that fail.                                                        *)

CanFail(call) == call \in Faults /\ budget.faults > 0
SpendFault == budget' = [budget EXCEPT !.faults = @ - 1]
\* A call made with the context of the operation.
Works(w) == ~gone[w] /\ UNCHANGED budget
Fails(w, call) == \/ gone[w] /\ UNCHANGED budget
                  \/ ~gone[w] /\ CanFail(call) /\ SpendFault
\* A call that no context reaches.
FailsDetached(call) == CanFail(call) /\ SpendFault

Quiet == note' = NoNote
\* SetProgress with stage completed or failed of operation backup.
Announce(kind, id) == note' = [kind |-> kind, id |-> id]

\* The operation returns: its deferred releases run.
Finish(w) ==
    /\ lock' = [s \in Servers |-> IF lock[s] = w THEN NoOne ELSE lock[s]]
    /\ slots' = slots \ {w}
    /\ Goto(w, "idle")
    /\ job' = [job EXCEPT ![w] = NoJob] /\ tmp' = [tmp EXCEPT ![w] = 0]
    /\ plan' = [plan EXCEPT ![w] = NoPlan] /\ clean' = [clean EXCEPT ![w] = TRUE]
    /\ gone' = [gone EXCEPT ![w] = FALSE]
\* The operation goes on.
Proceed(w, l) == Goto(w, l) /\ UNCHANGED <<locks, job, tmp, plan, clean, gone>>

-----------------------------------------------------------------------------
Init ==
    /\ \E s \in Servers :
          rows = [i \in Ids |-> IF i > Existing THEN NoRow
                                ELSE [srv |-> s, status |-> "completed", protected |-> FALSE,
                                      created |-> 1, deleted |-> 0]]
    /\ archive = [i \in Ids |-> IF i > Existing THEN 0 ELSE 1]
    /\ world = [s \in Servers |-> 1] /\ kept = [s \in Servers |-> <<>>]
    /\ policy \in [Servers -> Policies]
    /\ clock = 1
    /\ lock = [s \in Servers |-> NoOne] /\ slots = {}
    /\ pc = [w \in Workers |-> "idle"]
    /\ job = [w \in Workers |-> NoJob] /\ tmp = [w \in Workers |-> 0]
    /\ plan = [w \in Workers |-> NoPlan] /\ clean = [w \in Workers |-> TRUE]
    /\ gone = [w \in Workers |-> FALSE]
    /\ note = NoNote /\ made = Existing
    /\ budget = [ops |-> MaxOps, backups |-> MaxBackups - Existing, faults |-> MaxFaults,
                 crashes |-> MaxCrashes]

-----------------------------------------------------------------------------
(* Requests, the lock of a server, cancellation.                           *)

\* A call on a server: Backup, UploadBackup, Cleanup, SavePolicy.
Begin(w, o, s) ==
    /\ pc[w] = "idle" /\ budget.ops > 0
    /\ o \in CreateOps => budget.backups > 0
    /\ job' = [job EXCEPT ![w] = [op |-> o, srv |-> s, id |-> 0, day |-> 0]]
    /\ budget' = [budget EXCEPT !.ops = @ - 1,
                                !.backups = IF o \in CreateOps THEN @ - 1 ELSE @]
    /\ Goto(w, "lock") /\ Quiet
    /\ UNCHANGED <<rows, disk, policy, clock, locks, tmp, plan, clean, gone, made>>

\* A call on a backup reads its record first: Restore, changeBackup.
BeginOn(w, o, i) ==
    /\ pc[w] = "idle" /\ budget.ops > 0
    /\ rows[i].status # "none"
    /\ o = "restore" => rows[i].status = "completed" /\ rows[i].deleted = 0
    /\ job' = [job EXCEPT ![w] = [op |-> o, srv |-> rows[i].srv, id |-> i, day |-> 0]]
    /\ budget' = [budget EXCEPT !.ops = @ - 1]
    /\ Goto(w, "lock") /\ Quiet
    /\ UNCHANGED <<rows, disk, policy, clock, locks, tmp, plan, clean, gone, made>>

\* The 30 minutes of a backup, an upload or a restore, or the 5 of a sweep,
\* are over, or the panel's shutdown cancels a scheduled one; the client of
\* any other request closes its connection.
Cancel(w) ==
    /\ pc[w] # "idle" /\ ~gone[w]
    /\ CanFail(IF job[w].op \in CreateOps \union {"restore", "cleanup"}
               THEN "timeout" ELSE "disconnect")
    /\ gone' = [gone EXCEPT ![w] = TRUE] /\ SpendFault /\ Quiet
    /\ UNCHANGED <<rows, disk, policy, clock, locks, pc, job, tmp, plan, clean, made>>

AfterLock(o) == CASE o \in {"backup", "restore"} -> "check"
                  [] o = "upload" -> "u_save"
                  [] o \in SweepOps -> "c_plan"
                  [] o \in ChangeOps -> "g_get"
                  [] o = "policy" -> "policy"

\* lockOperation: the server's lock ...
TakeLock(w) ==
    /\ pc[w] = "lock" /\ lock[Of(w)] = NoOne
    /\ lock' = [lock EXCEPT ![Of(w)] = w]
    /\ Goto(w, "slot") /\ Quiet
    /\ UNCHANGED <<rows, disk, policy, clock, slots, job, tmp, plan, clean, gone, made, budget>>

\* ... and then a slot.
TakeSlot(w) ==
    /\ pc[w] = "slot" /\ Cardinality(slots \union {w}) <= Slots
    /\ slots' = slots \union {w}
    /\ Goto(w, AfterLock(job[w].op)) /\ Quiet
    /\ UNCHANGED <<rows, disk, policy, clock, lock, job, tmp, plan, clean, gone, made, budget>>

\* Either wait ends when the context does.
GiveUp(w) ==
    /\ pc[w] \in {"lock", "slot"} /\ gone[w]
    /\ Finish(w) /\ Quiet
    /\ UNCHANGED <<rows, disk, policy, clock, made, budget>>

-----------------------------------------------------------------------------
(* Backup                                                                  *)

\* withData: the server may be gone, busy or refuse to stop.
Check(w) ==
    /\ pc[w] = "check"
    /\ \/ ~gone[w] /\ Proceed(w, IF job[w].op = "backup" THEN "b_insert" ELSE "r_get")
       \/ Finish(w)
    /\ Quiet /\ UNCHANGED <<rows, disk, policy, clock, made, budget>>

Record(w, id, status, day) ==
    rows' = [rows EXCEPT ![id] = [srv |-> Of(w), status |-> status, protected |-> FALSE,
                                  created |-> day, deleted |-> 0]]

\* The record is inserted as pending.
BackupInsert(w) ==
    /\ pc[w] = "b_insert"
    /\ made' = made + 1
    /\ \/ /\ Works(w) /\ Record(w, made + 1, "pending", clock) /\ Quiet
          /\ job' = [job EXCEPT ![w].id = made + 1] /\ Goto(w, "b_archive")
          /\ UNCHANGED <<locks, tmp, plan, clean, gone>>
       \/ Fails(w, "db") /\ Announce("failed", made + 1) /\ Finish(w) /\ UNCHANGED rows
    /\ UNCHANGED <<disk, policy, clock>>

\* archiveWorld into a temporary file.
BackupArchive(w) ==
    /\ pc[w] = "b_archive"
    /\ \/ /\ Works(w) /\ world[Of(w)] # 0
          /\ tmp' = [tmp EXCEPT ![w] = world[Of(w)]] /\ Goto(w, "b_save")
          /\ UNCHANGED <<locks, job, plan, clean, gone>>
       \/ Fails(w, "archive") /\ Proceed(w, "b_fail")
       \/ world[Of(w)] = 0 /\ UNCHANGED budget /\ Proceed(w, "b_fail")
    /\ Quiet /\ UNCHANGED <<rows, disk, policy, clock, made>>

\* saveLocalArchive, which no context reaches, or putObject.
BackupSave(w) ==
    /\ pc[w] = "b_save"
    /\ \/ /\ UNCHANGED budget /\ archive' = [archive EXCEPT ![Id(w)] = tmp[w]]
          /\ Proceed(w, "b_commit")
       \/ Fails(w, "save") /\ UNCHANGED archive /\ Proceed(w, "b_fail")
    /\ Quiet /\ UNCHANGED <<rows, world, kept, policy, clock, made>>

\* SetStatus(failed), whose own error is ignored.
BackupFail(w) ==
    /\ pc[w] = "b_fail"
    /\ \/ Works(w) /\ rows' = [rows EXCEPT ![Id(w)].status = "failed"]
       \/ Fails(w, "db") /\ UNCHANGED rows
    /\ Announce("failed", Id(w)) /\ Finish(w)
    /\ UNCHANGED <<disk, policy, clock, made>>

\* Variant: the error of the UPDATE is ignored.
BackupCommitAnyway(w) ==
    /\ pc[w] = "b_commit"
    /\ \/ Works(w) /\ rows' = [rows EXCEPT ![Id(w)].status = "completed"]
       \/ Fails(w, "db") /\ UNCHANGED rows
    /\ Quiet /\ Proceed(w, "c_plan")
    /\ UNCHANGED <<disk, policy, clock, made>>

\* The record is completed; enforceRetention follows.
BackupCommit(w) ==
    /\ pc[w] = "b_commit"
    /\ \/ /\ Works(w) /\ rows' = [rows EXCEPT ![Id(w)].status = "completed"]
          /\ Quiet /\ Proceed(w, "c_plan")
       \/ Fails(w, "db") /\ UNCHANGED rows /\ Announce("failed", Id(w)) /\ Finish(w)
    /\ UNCHANGED <<disk, policy, clock, made>>

-----------------------------------------------------------------------------
(* UploadBackup: the archive first, then the record.                       *)

UploadSave(w) ==
    /\ pc[w] = "u_save"
    /\ made' = made + 1
    /\ \/ /\ Works(w)
          /\ \E v \in Versions \ {0} : archive' = [archive EXCEPT ![made + 1] = v]
          /\ job' = [job EXCEPT ![w].id = made + 1, ![w].day = clock] /\ Goto(w, "u_insert")
          /\ UNCHANGED <<locks, tmp, plan, clean, gone>>
       \/ Fails(w, "save") /\ UNCHANGED archive /\ Finish(w)
    /\ Quiet /\ UNCHANGED <<rows, world, kept, policy, clock>>

UploadInsert(w) ==
    /\ pc[w] = "u_insert"
    /\ \/ Works(w) /\ Record(w, Id(w), "completed", job[w].day) /\ Proceed(w, "c_plan")
       \/ Fails(w, "db") /\ UNCHANGED rows /\ Finish(w)
    /\ Quiet /\ UNCHANGED <<disk, policy, clock, made>>

-----------------------------------------------------------------------------
(* Restore                                                                 *)

\* Variant: what was read before the lock is not read again.
RestoreGetOnce(w) ==
    /\ pc[w] = "r_get"
    /\ Works(w) /\ Proceed(w, "r_stage")
    /\ Quiet /\ UNCHANGED <<rows, disk, policy, clock, made>>

\* The record is read again under the lock.
RestoreGet(w) ==
    /\ pc[w] = "r_get"
    /\ \/ /\ Works(w) /\ rows[Id(w)].status = "completed" /\ rows[Id(w)].deleted = 0
          /\ Proceed(w, "r_stage")
       \/ Works(w) /\ ~(rows[Id(w)].status = "completed" /\ rows[Id(w)].deleted = 0) /\ Finish(w)
       \/ Fails(w, "db") /\ Finish(w)
    /\ Quiet /\ UNCHANGED <<rows, disk, policy, clock, made>>

\* The archive is extracted into a stage beside the data directory.
RestoreStage(w) ==
    /\ pc[w] = "r_stage"
    /\ \/ /\ Works(w) /\ archive[Id(w)] # 0 /\ world[Of(w)] # 0
          /\ tmp' = [tmp EXCEPT ![w] = archive[Id(w)]] /\ Goto(w, "r_aside")
          /\ UNCHANGED <<locks, job, plan, clean, gone>>
       \/ (archive[Id(w)] = 0 \/ world[Of(w)] = 0) /\ UNCHANGED budget /\ Finish(w)
       \/ Fails(w, "archive") /\ Finish(w)
    /\ Quiet /\ UNCHANGED <<rows, disk, policy, clock, made>>

\* Variant: the data directory is removed to make room for the stage.
RestoreAsideRemoves(w) ==
    /\ pc[w] = "r_aside"
    /\ world' = [world EXCEPT ![Of(w)] = 0] /\ UNCHANGED <<kept, budget>>
    /\ Proceed(w, "r_swap")
    /\ Quiet /\ UNCHANGED <<rows, archive, policy, clock, made>>

\* The data directory is renamed to .mcm-recovery-*.
RestoreAside(w) ==
    /\ pc[w] = "r_aside"
    /\ \/ /\ UNCHANGED budget
          /\ kept' = [kept EXCEPT ![Of(w)] = Append(@, world[Of(w)])]
          /\ world' = [world EXCEPT ![Of(w)] = 0]
          /\ Proceed(w, "r_swap")
       \/ FailsDetached("rename") /\ UNCHANGED <<world, kept>> /\ Finish(w)
    /\ Quiet /\ UNCHANGED <<rows, archive, policy, clock, made>>

\* The stage takes its place.
RestoreSwap(w) ==
    /\ pc[w] = "r_swap"
    /\ \/ UNCHANGED budget /\ world' = [world EXCEPT ![Of(w)] = tmp[w]] /\ Finish(w)
       \/ FailsDetached("rename") /\ UNCHANGED world /\ Proceed(w, "r_back")
    /\ Quiet /\ UNCHANGED <<rows, archive, kept, policy, clock, made>>

\* If it cannot, the previous directory is renamed back.
RestoreBack(w) ==
    /\ pc[w] = "r_back"
    /\ LET n == Len(kept[Of(w)]) IN
       \/ /\ UNCHANGED budget
          /\ world' = [world EXCEPT ![Of(w)] = kept[Of(w)][n]]
          /\ kept' = [kept EXCEPT ![Of(w)] = SubSeq(@, 1, n - 1)]
       \/ FailsDetached("rename") /\ UNCHANGED <<world, kept>>
    /\ Finish(w) /\ Quiet
    /\ UNCHANGED <<rows, archive, policy, clock, made>>

-----------------------------------------------------------------------------
(* cleanupLocked: after a backup or an upload, from RunRetention, from the *)
(* cleanup request, and to empty the trash.                                *)

Sweep(w) == IF plan'[w].purge # {} THEN "remove"
            ELSE IF plan'[w].trash # {} THEN "c_trash" ELSE "c_end"

PlanFor(w) ==
    IF job[w].op = "empty"
    THEN [purge |-> {i \in InTrash(Of(w)) : ~rows[i].protected /\ rows[i].status # "pending"},
          trash |-> {}]
    ELSE [purge |-> PlanPurge(Of(w)), trash |-> PlanTrash(Of(w))]

\* The policy and both lists are read.
Plan(w) ==
    /\ pc[w] = "c_plan"
    /\ \/ Works(w) /\ plan' = [plan EXCEPT ![w] = PlanFor(w)] /\ UNCHANGED clean
       \/ Fails(w, "db") /\ UNCHANGED plan /\ clean' = [clean EXCEPT ![w] = FALSE]
    /\ Goto(w, Sweep(w)) /\ Quiet
    /\ UNCHANGED <<rows, disk, policy, clock, locks, job, tmp, gone, made>>

\* The record deleteLocked is at: of a sweep the newest in the plan.
Doomed(w) == IF job[w].op = "purge" THEN Id(w) ELSE Max(plan[w].purge)

\* deleteLocked is done with the record: Purge returns, a sweep goes on.
NextDoomed(w, ok) ==
    IF job[w].op = "purge" THEN Finish(w)
    ELSE /\ plan' = [plan EXCEPT ![w].purge = @ \ {Doomed(w)}]
         /\ clean' = [clean EXCEPT ![w] = @ /\ ok]
         /\ Goto(w, Sweep(w))
         /\ UNCHANGED <<locks, job, tmp, gone>>

\* Variant: an archive that cannot be removed is forgotten.
DeleteArchiveBestEffort(w) ==
    /\ pc[w] = "remove"
    /\ \/ UNCHANGED budget /\ archive' = [archive EXCEPT ![Doomed(w)] = 0]
       \/ Fails(w, "remove") /\ UNCHANGED archive
    /\ Proceed(w, "drop")
    /\ Quiet /\ UNCHANGED <<rows, world, kept, policy, clock, made>>

\* deleteLocked removes the archive ...
DeleteArchive(w) ==
    /\ pc[w] = "remove"
    /\ \/ /\ UNCHANGED budget /\ archive' = [archive EXCEPT ![Doomed(w)] = 0]
          /\ Proceed(w, "drop")
       \/ Fails(w, "remove") /\ UNCHANGED archive /\ NextDoomed(w, FALSE)
    /\ Quiet /\ UNCHANGED <<rows, world, kept, policy, clock, made>>

\* ... and then the record.
DeleteRecord(w) ==
    /\ pc[w] = "drop"
    /\ \/ Works(w) /\ rows' = [rows EXCEPT ![Doomed(w)] = NoRow] /\ NextDoomed(w, TRUE)
       \/ Fails(w, "db") /\ UNCHANGED rows /\ NextDoomed(w, FALSE)
    /\ Quiet /\ UNCHANGED <<disk, policy, clock, made>>

\* trashLocked for the snapshots the policy does not keep.
SweepToTrash(w) ==
    /\ pc[w] = "c_trash"
    /\ LET i == Max(plan[w].trash) IN
       /\ \/ /\ Works(w) /\ UNCHANGED clean
             /\ rows' = [rows EXCEPT ![i].deleted = clock]
          \/ Fails(w, "db") /\ UNCHANGED rows /\ clean' = [clean EXCEPT ![w] = FALSE]
       /\ plan' = [plan EXCEPT ![w].trash = @ \ {i}]
    /\ Goto(w, Sweep(w)) /\ Quiet
    /\ UNCHANGED <<disk, policy, clock, locks, job, tmp, gone, made>>

\* A backup is announced whatever became of the cleanup after it.
SweepEnd(w) ==
    /\ pc[w] = "c_end"
    /\ IF job[w].op = "backup" THEN Announce("completed", Id(w)) ELSE Quiet
    /\ Finish(w)
    /\ UNCHANGED <<rows, disk, policy, clock, made, budget>>

-----------------------------------------------------------------------------
(* changeBackup: Trash, Recover, Protect, Purge; and SavePolicy.           *)

\* What the change requires of the record read under the lock.
Changeable(o, r) ==
    /\ r.status # "none"
    /\ CASE o = "trash" -> ~r.protected /\ r.status # "pending" /\ r.deleted = 0
         [] o = "recover" -> r.deleted > 0
         [] o \in {"protect", "unprotect"} -> r.deleted = 0 /\ r.status = "completed"
         [] o = "purge" -> r.deleted > 0 /\ ~r.protected /\ r.status # "pending"

ChangeGet(w) ==
    /\ pc[w] = "g_get"
    /\ \/ /\ Works(w) /\ Changeable(job[w].op, rows[Id(w)])
          /\ Proceed(w, IF job[w].op = "purge" THEN "remove" ELSE "g_write")
       \/ Works(w) /\ ~Changeable(job[w].op, rows[Id(w)]) /\ Finish(w)
       \/ Fails(w, "db") /\ Finish(w)
    /\ Quiet /\ UNCHANGED <<rows, disk, policy, clock, made>>

Changed(o, r) ==
    CASE o = "trash" -> [r EXCEPT !.deleted = clock]
      [] o = "recover" -> [r EXCEPT !.deleted = 0, !.protected = r.status = "completed"]
      [] o = "protect" -> [r EXCEPT !.protected = TRUE]
      [] o = "unprotect" -> [r EXCEPT !.protected = FALSE]

\* An UPDATE of a record that is gone changes nothing.
ChangeWrite(w) ==
    /\ pc[w] = "g_write"
    /\ \/ /\ Works(w)
          /\ rows' = IF rows[Id(w)].status = "none" THEN rows
                     ELSE [rows EXCEPT ![Id(w)] = Changed(job[w].op, @)]
       \/ Fails(w, "db") /\ UNCHANGED rows
    /\ Finish(w) /\ Quiet
    /\ UNCHANGED <<disk, policy, clock, made>>

SavePolicy(w) ==
    /\ pc[w] = "policy"
    /\ \/ Works(w) /\ \E p \in Policies : policy' = [policy EXCEPT ![Of(w)] = p]
       \/ Fails(w, "db") /\ UNCHANGED policy
    /\ Finish(w) /\ Quiet
    /\ UNCHANGED <<rows, disk, clock, made>>

-----------------------------------------------------------------------------
(* The environment: time, the running servers, the end of the panel.       *)

Tick ==
    /\ clock < MaxClock /\ clock' = clock + 1 /\ Quiet
    /\ UNCHANGED <<rows, disk, policy, locks, locals, made, budget>>

\* A worker runs the callback of withData.
InData(w) == pc[w] \in {"b_insert", "b_archive", "b_save", "b_fail", "b_commit", "c_plan", "remove",
                        "drop", "c_trash", "c_end", "r_get", "r_stage", "r_aside", "r_swap",
                        "r_back"} /\ job[w].op \in {"backup", "restore"}

\* A running server changes its files: never while withData runs a callback.
Play(s) ==
    /\ world[s] \in 1..(MaxVersion - 1)
    /\ \A w \in Workers : Of(w) = s => ~InData(w)
    /\ world' = [world EXCEPT ![s] = @ + 1] /\ Quiet
    /\ UNCHANGED <<rows, archive, kept, policy, clock, locks, locals, made, budget>>

\* The panel dies and is started again: the operations are gone, and nothing
\* looks at what they left.
Crash ==
    /\ budget.crashes > 0 /\ budget' = [budget EXCEPT !.crashes = @ - 1]
    /\ lock' = [s \in Servers |-> NoOne] /\ slots' = {}
    /\ pc' = [w \in Workers |-> "idle"]
    /\ job' = [w \in Workers |-> NoJob] /\ tmp' = [w \in Workers |-> 0]
    /\ plan' = [w \in Workers |-> NoPlan] /\ clean' = [w \in Workers |-> TRUE]
    /\ gone' = [w \in Workers |-> FALSE]
    /\ Quiet /\ UNCHANGED <<rows, disk, policy, clock, made>>

Work(w) ==
    \/ TakeLock(w) \/ TakeSlot(w) \/ GiveUp(w) \/ Check(w)
    \/ BackupInsert(w) \/ BackupArchive(w) \/ BackupSave(w) \/ BackupFail(w) \/ BackupCommit(w)
    \/ UploadSave(w) \/ UploadInsert(w)
    \/ RestoreGet(w) \/ RestoreStage(w) \/ RestoreAside(w) \/ RestoreSwap(w) \/ RestoreBack(w)
    \/ Plan(w) \/ DeleteArchive(w) \/ DeleteRecord(w) \/ SweepToTrash(w) \/ SweepEnd(w)
    \/ ChangeGet(w) \/ ChangeWrite(w) \/ SavePolicy(w)

Request(w) ==
    \/ \E o \in Ops \ (ChangeOps \union {"restore"}), s \in Servers : Begin(w, o, s)
    \/ \E o \in Ops \intersect (ChangeOps \union {"restore"}), i \in Ids : BeginOn(w, o, i)

Next ==
    \/ \E w \in Workers : Request(w) \/ Cancel(w) \/ Work(w)
    \/ Tick \/ \E s \in Servers : Play(s)
    \/ Crash

Spec == Init /\ [][Next]_vars

\* Goroutines run, and both channels of lockOperation serve their senders in
\* the order they came.
FairSpec ==
    Spec /\ \A w \in Workers : WF_vars(Work(w)) /\ SF_vars(TakeLock(w)) /\ SF_vars(TakeSlot(w))

-----------------------------------------------------------------------------
(* Properties.                                                             *)

Statuses == {"none", "pending", "completed", "failed"}
Labels == {"idle", "lock", "slot", "check", "b_insert", "b_archive", "b_save", "b_fail", "b_commit",
           "u_save", "u_insert", "r_get", "r_stage", "r_aside", "r_swap", "r_back",
           "c_plan", "remove", "drop", "c_trash", "c_end", "g_get", "g_write", "policy"}
Rows == [srv : Servers \union {NoOne}, status : Statuses, protected : BOOLEAN,
         created : 0..MaxClock, deleted : 0..MaxClock]
Jobs == [op : AllOps \union {"none"}, srv : Servers \union {NoOne}, id : 0..MaxBackups,
         day : 0..MaxClock]

\* Every variable keeps its type, and a record that does not exist has no
\* fields set.
TypeOK ==
    /\ rows \in [Ids -> Rows]
    /\ \A i \in Ids : rows[i].status = "none" => rows[i] = NoRow
    /\ archive \in [Ids -> Versions] /\ world \in [Servers -> Versions]
    /\ kept \in [Servers -> Seq(Versions)]
    /\ policy \in [Servers -> Policies] /\ clock \in 1..MaxClock
    /\ lock \in [Servers -> Workers \union {NoOne}] /\ slots \subseteq Workers
    /\ pc \in [Workers -> Labels] /\ job \in [Workers -> Jobs] /\ tmp \in [Workers -> Versions]
    /\ plan \in [Workers -> [purge : SUBSET Ids, trash : SUBSET Ids]]
    /\ clean \in [Workers -> BOOLEAN] /\ gone \in [Workers -> BOOLEAN]
    /\ note \in [kind : {"none", "completed", "failed"}, id : 0..MaxBackups]
    /\ made \in 0..MaxBackups
    /\ budget \in [ops : 0..MaxOps, backups : 0..MaxBackups, faults : 0..MaxFaults,
                   crashes : 0..MaxCrashes]

\* "Failed storage deletions preserve the database record for retry": a record
\* never goes while its archive stays behind.
RecordOutlivesArchive ==
    [][\A i \in Ids : rows[i].status # "none" /\ rows'[i].status = "none" => archive[i] = 0]_vars

\* What README.md:800-802 promises to keep, while requests, other sweeps and faults
\* change the records a sweep has planned for:
\* - a protected snapshot stays: nothing trashes it, deletes it or touches its archive
\*   (Protect, Recover, trashLocked and deleteLocked share the lock);
ProtectedStays(i) ==
    rows[i].protected => /\ rows'[i].status = "completed" /\ rows'[i].deleted = 0
                         /\ archive'[i] = archive[i]
\* - "The newest successful backup is always retained": when retention moves a
\*   snapshot to the trash, a newer successful one of the server stays.
NewerStays(i) ==
    /\ \E w \in Workers : pc[w] = "c_trash" /\ plan'[w] # plan[w]
    /\ rows[i].deleted = 0 /\ rows'[i].deleted > 0
    => \E j \in Successful(rows[i].srv) : j > i /\ rows'[j] = rows[j]
SparedStay == [][\A i \in Ids : ProtectedStays(i) /\ NewerStays(i)]_vars

\* When a cleanup ends in which no call failed, the server has no more
\* unprotected snapshots than the policy's count (planRetention).
QuotaMet ==
    \A w \in Workers :
        /\ pc[w] = "c_end" /\ clean[w] /\ job[w].op # "empty" /\ policy[Of(w)].keep > 0
        => Cardinality({i \in Successful(Of(w)) : ~rows[i].protected}) <= policy[Of(w)].keep

\* The files of a server that a restore replaces are never lost: what is in
\* the data directory or beside it stays in one of the two, whatever fails and
\* wherever the panel dies; only the running server changes its own files.
OnDisk(s) == ({world[s]} \union {kept[s][n] : n \in 1..Len(kept[s])}) \ {0}
RestoreLosesNothing ==
    [][\A s \in Servers : OnDisk(s) \subseteq OnDisk(s)' \/ world'[s] = world[s] + 1]_vars

\* What is put in place of a server's files is the archive of a snapshot that
\* is successful and not in the trash at that moment.
RestoresSuccessful ==
    [][\A w \in Workers : pc[w] = "r_swap" /\ world[Of(w)] = 0 /\ world'[Of(w)] # 0 =>
          Id(w) \in Successful(Of(w)) /\ world'[Of(w)] = archive[Id(w)]]_vars

\* "Completed" is announced of a snapshot that is successful, "failed" of one
\* that is not.
AnnouncedTruthfully ==
    /\ note.kind = "completed" => rows[note.id].status = "completed" /\ rows[note.id].deleted = 0
    /\ note.kind = "failed" => rows[note.id].status # "completed"

-----------------------------------------------------------------------------
(* Properties outside the run: three that hold of smaller instances, and two *)
(* that the code breaks (README.md of this directory).                      *)

\* A slot is held only by the operation at work on its server: operations that
\* queue for one server never use up the slots of the others (lockOperation
\* takes the server's lock first).
SlotsAreWorking == \A w \in slots : \E s \in Servers : lock[s] = w

\* The trash holds no protected and no pending record, so that expiry may take
\* whatever it finds there (trashLocked, Protect and Recover keep it so).
TrashIsSpare ==
    \A i \in Ids : rows[i].deleted > 0 => ~rows[i].protected /\ rows[i].status # "pending"

\* Every operation returns.
AllReturn == \A w \in Workers : []<>(pc[w] = "idle")

\* "The newest successful backup always stays available".
NewestIsAvailable == \A s \in Servers : Successful(s) # {} => archive[Newest(s)] # 0

\* A pending record is the work of an operation that is still running.
PendingIsRunning ==
    \A i \in Ids : rows[i].status = "pending" => \E w \in Workers : job[w].id = i
=============================================================================
