---------------------------- MODULE TaskScheduler ----------------------------
(* The task scheduler (internal/schedules): one row of scheduled_tasks, the    *)
(* polling loops of the panel processes that open its database, the workers    *)
(* they start, and the requests that edit the row meanwhile.                   *)
EXTENDS Integers, FiniteSets

CONSTANTS Panels,      \* panel processes on one database
          Clients,     \* concurrent API requests
          Crons,       \* saved expressions, with their time zone
          NextRun,     \* NextRun[c][t]: the first run of expression c after time t
          Steps,       \* actions in the chain of the task
          MaxTime,     \* bound: the clock stops there
          MaxEdits,    \* bound: requests
          MaxFaults,   \* bound: database errors
          MaxDowns     \* bound: shutdowns and crashes of a panel process

Times == 0..MaxTime

ASSUME BoundsAssumption ==
    /\ Steps \in Nat \ {0} /\ MaxTime \in Nat /\ MaxEdits \in Nat
    /\ MaxFaults \in Nat /\ MaxDowns \in Nat

\* Every saved expression has an upcoming run, as normalize requires.
ASSUME CronsAssumption ==
    \A c \in Crons : \A t \in Times : NextRun[c][t] \in Nat /\ NextRun[c][t] > t

VARIABLES row,       \* the task's row; ver stands for updated_at, unique per write
          clock,     \* wall clock
          mode,      \* per panel: process off, on, or stopping (Stop cancelled its context)
          loop,      \* per panel: where its goroutine is, with the tick's locals
          busy,      \* per panel: Scheduler.running has the task
          workers,   \* the goroutines run(ctx, task), all panels
          launched,  \* history: the runs started, numbered
          boot,      \* per panel: when its process started
          req,       \* per client: the request between its read and its write
          budget     \* what is left of the bounds

vars == <<row, clock, mode, loop, busy, workers, launched, boot, req, budget>>

Statuses == {"", "running", "success", "failed", "skipped"}
NoRow  == [here |-> FALSE, on |-> FALSE, cron |-> "none", next |-> 0, ver |-> 0, status |-> ""]
NoReq  == [op |-> "none", panel |-> "none", cron |-> "none", on |-> FALSE, next |-> 0]
NoKey  == [at |-> 0, ver |-> 0]
Rested == [at |-> "idle", now |-> 0, startup |-> FALSE, key |-> NoKey, cron |-> "none"]

\* The run that a row's next_run_at names.
Key(r) == [at |-> r.next, ver |-> r.ver]
Due(now) == row.here /\ row.on /\ row.next # 0 /\ row.next <= now

SpendFault == budget.faults > 0 /\ budget' = [budget EXCEPT !.faults = @ - 1]
\* A statement on the scheduler's context: it fails once Stop has cancelled it.
Fails(p)  == IF mode[p] = "stopping" THEN budget' = budget ELSE SpendFault
Works(p)  == mode[p] = "on" /\ budget' = budget
SetStatus(s) == row' = IF row.here THEN [row EXCEPT !.status = s] ELSE row

Init ==
    /\ \/ row = NoRow
       \/ \E c \in Crons, s \in {"", "running"} :
             row = [here |-> TRUE, on |-> TRUE, cron |-> c, next |-> NextRun[c][0],
                    ver |-> 1, status |-> s]
    /\ clock = 0
    /\ mode = [p \in Panels |-> "off"]
    /\ loop = [p \in Panels |-> Rested]
    /\ busy = [p \in Panels |-> FALSE]
    /\ workers = {} /\ launched = {}
    /\ boot = [p \in Panels |-> 0]
    /\ req = [c \in Clients |-> NoReq]
    /\ budget = [edits |-> MaxEdits, faults |-> MaxFaults, downs |-> MaxDowns]

ClockTick ==
    /\ clock < MaxTime
    /\ clock' = clock + 1
    /\ UNCHANGED <<row, mode, loop, busy, workers, launched, boot, req, budget>>

-----------------------------------------------------------------------------
(* The process: Start, Stop and a crash.                                      *)

Start(p) ==
    /\ mode[p] = "off"
    /\ mode' = [mode EXCEPT ![p] = "on"]
    /\ loop' = [loop EXCEPT ![p] = [Rested EXCEPT !.at = "recover"]]
    /\ busy' = [busy EXCEPT ![p] = FALSE]
    /\ boot' = [boot EXCEPT ![p] = clock]
    /\ UNCHANGED <<row, clock, workers, launched, req, budget>>

\* Variant: the interrupted run is not recovered.
RecoverNothing(p) ==
    /\ loop[p].at = "recover" /\ (Fails(p) \/ Works(p))
    /\ loop' = [loop EXCEPT ![p] = [@ EXCEPT !.at = "list", !.now = clock, !.startup = TRUE]]
    /\ UNCHANGED <<row, clock, mode, busy, workers, launched, boot, req>>

\* Variant: the first tick is an ordinary one.
RecoverThenTick(p) ==
    /\ loop[p].at = "recover"
    /\ \/ Fails(p) /\ row' = row
       \/ /\ Works(p)
          /\ row' = IF row.status = "running" THEN [row EXCEPT !.status = "failed"] ELSE row
    /\ loop' = [loop EXCEPT ![p] = [@ EXCEPT !.at = "list", !.now = clock, !.startup = FALSE]]
    /\ UNCHANGED <<clock, mode, busy, workers, launched, boot, req>>

Recover(p) ==
    /\ loop[p].at = "recover"
    /\ \/ Fails(p) /\ row' = row
       \/ /\ Works(p)
          /\ row' = IF row.status = "running" THEN [row EXCEPT !.status = "failed"] ELSE row
    /\ loop' = [loop EXCEPT ![p] = [@ EXCEPT !.at = "list", !.now = clock, !.startup = TRUE]]
    /\ UNCHANGED <<clock, mode, busy, workers, launched, boot, req>>

Stop(p) ==
    /\ mode[p] = "on"
    /\ budget.downs > 0 /\ budget' = [budget EXCEPT !.downs = @ - 1]
    /\ mode' = [mode EXCEPT ![p] = "stopping"]
    /\ UNCHANGED <<row, clock, loop, busy, workers, launched, boot, req>>

Gone(p) ==
    /\ mode' = [mode EXCEPT ![p] = "off"]
    /\ loop' = [loop EXCEPT ![p] = Rested]
    /\ workers' = {w \in workers : w.panel # p}
    /\ req' = [c \in Clients |-> IF req[c].panel = p THEN NoReq ELSE req[c]]
    /\ UNCHANGED <<row, clock, busy, launched, boot>>

\* Stop returns when the loop and every worker have; the process then ends.
StopReturns(p) ==
    /\ mode[p] = "stopping" /\ loop[p].at = "idle"
    /\ \A w \in workers : w.panel # p
    /\ Gone(p) /\ UNCHANGED budget

\* The process dies, or main's drain deadline passes while a worker runs.
Crash(p) ==
    /\ mode[p] # "off"
    /\ budget.downs > 0 /\ budget' = [budget EXCEPT !.downs = @ - 1]
    /\ Gone(p)

-----------------------------------------------------------------------------
(* One tick of a panel's loop.                                                *)

Ticker(p) ==
    /\ mode[p] = "on" /\ loop[p].at = "idle"
    /\ loop' = [loop EXCEPT ![p] = [@ EXCEPT !.at = "list", !.now = clock, !.startup = FALSE]]
    /\ UNCHANGED <<row, clock, mode, busy, workers, launched, boot, req, budget>>

\* Variant: the loop ends at a database error.
ListOrDie(p) ==
    /\ loop[p].at = "list"
    /\ \/ Fails(p) /\ loop' = [loop EXCEPT ![p].at = "ended"]
       \/ /\ Works(p)
          /\ loop' = [loop EXCEPT ![p] = IF Due(loop[p].now)
                         THEN [@ EXCEPT !.at = "claim", !.key = Key(row),
                                                        !.cron = row.cron]
                         ELSE Rested]
    /\ UNCHANGED <<row, clock, mode, busy, workers, launched, boot, req>>

List(p) ==
    /\ loop[p].at = "list"
    /\ \/ Fails(p) /\ loop' = [loop EXCEPT ![p] = Rested]
       \/ /\ Works(p)
          /\ loop' = [loop EXCEPT ![p] = IF Due(loop[p].now)
                                         THEN [@ EXCEPT !.at = "claim", !.key = Key(row),
                                                        !.cron = row.cron]
                                         ELSE Rested]
    /\ UNCHANGED <<row, clock, mode, busy, workers, launched, boot, req>>

\* What follows the claim of a run: it is skipped, or its start is recorded.
Claimed(l) == IF l.startup THEN "skip" ELSE "record"

\* Variant: the UPDATE does not compare next_run_at and updated_at.
ClaimById(p) ==
    LET l == loop[p] IN
    /\ l.at = "claim"
    /\ Works(p)
    /\ IF row.here /\ row.on
       THEN /\ row' = [row EXCEPT !.next = NextRun[l.cron][l.now]]
            /\ loop' = [loop EXCEPT ![p] = IF busy[p] THEN Rested
                                           ELSE [l EXCEPT !.at = Claimed(l)]]
            /\ busy' = [busy EXCEPT ![p] = @ \/ ~l.startup]
       ELSE loop' = [loop EXCEPT ![p] = Rested] /\ UNCHANGED <<row, busy>>
    /\ UNCHANGED <<clock, mode, workers, launched, boot, req>>

\* Variant: Scheduler.running is not consulted.
ClaimBusyToo(p) ==
    LET l == loop[p] IN
    /\ l.at = "claim"
    /\ Works(p)
    /\ IF row.here /\ row.on /\ Key(row) = l.key
       THEN /\ row' = [row EXCEPT !.next = NextRun[l.cron][l.now]]
            /\ loop' = [loop EXCEPT ![p].at = Claimed(l)]
            /\ busy' = [busy EXCEPT ![p] = @ \/ ~l.startup]
       ELSE loop' = [loop EXCEPT ![p] = Rested] /\ UNCHANGED <<row, busy>>
    /\ UNCHANGED <<clock, mode, workers, launched, boot, req>>

\* Scheduler.mu is held over the read of running and the conditional UPDATE.
Claim(p) ==
    LET l == loop[p] IN
    /\ l.at = "claim"
    /\ \/ Fails(p) /\ loop' = [loop EXCEPT ![p] = Rested] /\ UNCHANGED <<row, busy>>
       \/ /\ Works(p) /\ ~(row.here /\ row.on /\ Key(row) = l.key)
          /\ loop' = [loop EXCEPT ![p] = Rested] /\ UNCHANGED <<row, busy>>
       \/ /\ Works(p) /\ row.here /\ row.on /\ Key(row) = l.key
          /\ row' = [row EXCEPT !.next = NextRun[l.cron][l.now]]
          /\ loop' = [loop EXCEPT ![p] = IF busy[p] THEN Rested
                                         ELSE [l EXCEPT !.at = Claimed(l)]]
          /\ busy' = [busy EXCEPT ![p] = @ \/ ~l.startup]
    /\ UNCHANGED <<clock, mode, workers, launched, boot, req>>

Skip(p) ==
    /\ loop[p].at = "skip"
    /\ \/ Fails(p) /\ row' = row
       \/ Works(p) /\ SetStatus("skipped")
    /\ loop' = [loop EXCEPT ![p] = Rested]
    /\ UNCHANGED <<clock, mode, busy, workers, launched, boot, req>>

\* Variant: a start that could not be recorded leaves the task in running.
RecordKeepsBusy(p) ==
    /\ loop[p].at = "record"
    /\ \/ Fails(p) /\ UNCHANGED <<row, workers, launched>>
       \/ /\ Works(p) /\ SetStatus("running")
          /\ LET n == Cardinality(launched) + 1 IN
             /\ launched' = launched \union {[n |-> n, panel |-> p, key |-> loop[p].key]}
             /\ workers' = workers \union {[n |-> n, panel |-> p, left |-> Steps, out |-> "none"]}
    /\ loop' = [loop EXCEPT ![p] = Rested]
    /\ UNCHANGED <<busy, clock, mode, boot, req>>

\* The start is recorded and the worker goroutine started.
Record(p) ==
    /\ loop[p].at = "record"
    /\ \/ /\ Fails(p)
          /\ busy' = [busy EXCEPT ![p] = FALSE]
          /\ UNCHANGED <<row, workers, launched>>
       \/ /\ Works(p) /\ SetStatus("running")
          /\ LET n == Cardinality(launched) + 1 IN
             /\ launched' = launched \union {[n |-> n, panel |-> p, key |-> loop[p].key]}
             /\ workers' = workers \union {[n |-> n, panel |-> p, left |-> Steps, out |-> "none"]}
          /\ busy' = busy
    /\ loop' = [loop EXCEPT ![p] = Rested]
    /\ UNCHANGED <<clock, mode, boot, req>>

-----------------------------------------------------------------------------
(* A worker: executeTask, then the result, then the release.                  *)

Becomes(w, v) == workers' = (workers \ {w}) \union {v}

\* One action of the chain returns without an error; its context must still be live.
ActionDone(w) ==
    /\ w.out = "none" /\ mode[w.panel] = "on"
    /\ Becomes(w, [w EXCEPT !.left = @ - 1, !.out = IF w.left = 1 THEN "success" ELSE "none"])
    /\ UNCHANGED <<row, clock, mode, loop, busy, launched, boot, req, budget>>

\* One action returns an error, panics, times out or is cancelled.
ActionFails(w) ==
    /\ w.out = "none"
    /\ Becomes(w, [w EXCEPT !.out = "failed"])
    /\ UNCHANGED <<row, clock, mode, loop, busy, launched, boot, req, budget>>

\* Variant: the result is written on the context that Stop cancels.
FinishOnContext(w) ==
    /\ w.out \in {"success", "failed"}
    /\ \/ Fails(w.panel) /\ row' = row
       \/ Works(w.panel) /\ SetStatus(w.out)
    /\ Becomes(w, [w EXCEPT !.out = "written"])
    /\ UNCHANGED <<clock, mode, loop, busy, launched, boot, req>>

\* The result is written on a context of its own, which Stop does not cancel.
Finish(w) ==
    /\ w.out \in {"success", "failed"}
    /\ \/ SpendFault /\ row' = row
       \/ SetStatus(w.out) /\ budget' = budget
    /\ Becomes(w, [w EXCEPT !.out = "written"])
    /\ UNCHANGED <<clock, mode, loop, busy, launched, boot, req>>

Release(w) ==
    /\ w.out = "written"
    /\ workers' = workers \ {w}
    /\ busy' = [busy EXCEPT ![w.panel] = FALSE]
    /\ UNCHANGED <<row, clock, mode, loop, launched, boot, req, budget>>

WorkerStep(w) == ActionDone(w) \/ ActionFails(w) \/ Finish(w) \/ Release(w)

-----------------------------------------------------------------------------
(* The requests: what is read and computed, then the write.                   *)

SpendEdit == budget.edits > 0 /\ budget' = [budget EXCEPT !.edits = @ - 1]

Asks(c, p, op, cron, on) ==
    /\ req[c] = NoReq /\ mode[p] # "off" /\ SpendEdit
    /\ req' = [req EXCEPT ![c] =
          [op |-> op, panel |-> p, cron |-> cron, on |-> on,
           next |-> IF on THEN NextRun[cron][clock] ELSE 0]]
    /\ UNCHANGED <<row, clock, mode, loop, busy, workers, launched, boot>>

CreateAsk(c, p) == row.ver = 0 /\ \E cron \in Crons, on \in BOOLEAN : Asks(c, p, "create", cron, on)
UpdateAsk(c, p) == row.here /\ \E cron \in Crons, on \in BOOLEAN : Asks(c, p, "update", cron, on)
\* SetEnabled computes the next run from the expression it has just read.
SetEnabledAsk(c, p) == row.here /\ \E on \in BOOLEAN : Asks(c, p, "enable", row.cron, on)

Answered(c) ==
    /\ req' = [req EXCEPT ![c] = NoReq]
    /\ UNCHANGED <<clock, mode, loop, busy, workers, launched, boot, budget>>

CreateWrite(c) ==
    /\ req[c].op = "create"
    /\ row' = IF row.ver = 0
              THEN [here |-> TRUE, on |-> req[c].on, cron |-> req[c].cron,
                    next |-> req[c].next, ver |-> 1, status |-> ""]
              ELSE row
    /\ Answered(c)

UpdateWrite(c) ==
    /\ req[c].op = "update"
    /\ row' = IF row.here
              THEN [row EXCEPT !.on = req[c].on, !.cron = req[c].cron,
                               !.next = req[c].next, !.ver = row.ver + 1]
              ELSE row
    /\ Answered(c)

SetEnabledWrite(c) ==
    /\ req[c].op = "enable"
    /\ row' = IF row.here
              THEN [row EXCEPT !.on = req[c].on, !.next = req[c].next, !.ver = row.ver + 1]
              ELSE row
    /\ Answered(c)

Delete(c, p) ==
    /\ req[c] = NoReq /\ mode[p] # "off" /\ row.here /\ SpendEdit
    /\ row' = [row EXCEPT !.here = FALSE]
    /\ UNCHANGED <<clock, mode, loop, busy, workers, launched, boot, req>>

-----------------------------------------------------------------------------

TickStep(p) == Ticker(p) \/ List(p) \/ Claim(p) \/ Skip(p) \/ Record(p)
Process(p)  == Start(p) \/ Recover(p) \/ Stop(p) \/ StopReturns(p) \/ Crash(p)
Ask(c, p)   == CreateAsk(c, p) \/ UpdateAsk(c, p) \/ SetEnabledAsk(c, p) \/ Delete(c, p)
Write(c)    == CreateWrite(c) \/ UpdateWrite(c) \/ SetEnabledWrite(c)

Next ==
    \/ ClockTick
    \/ \E p \in Panels : Process(p) \/ TickStep(p)
    \/ \E w \in workers : WorkerStep(w)
    \/ \E c \in Clients : Write(c) \/ \E p \in Panels : Ask(c, p)

Spec == Init /\ [][Next]_vars

WorkersOf(p) == \E w \in workers : w.panel = p /\ WorkerStep(w)

\* The loop's goroutine and its workers are scheduled, the service manager starts
\* a panel that has ended, and each action of a worker ends at its timeout.
Fairness ==
    /\ WF_vars(ClockTick)
    /\ \A p \in Panels :
          /\ WF_vars(Start(p)) /\ WF_vars(Recover(p)) /\ WF_vars(StopReturns(p))
          /\ WF_vars(TickStep(p)) /\ WF_vars(WorkersOf(p))

FairSpec == Spec /\ Fairness

-----------------------------------------------------------------------------
(* Properties.                                                                *)

Keys  == [at : Nat, ver : Nat]
Loops == [at : {"idle", "recover", "list", "claim", "skip", "record"}, now : Times,
          startup : BOOLEAN, key : Keys, cron : Crons \union {"none"}]

Reqs  == [op : {"none", "create", "update", "enable"}, panel : Panels \union {"none"},
          cron : Crons \union {"none"}, on : BOOLEAN, next : Nat]
Rows  == [here : BOOLEAN, on : BOOLEAN, cron : Crons \union {"none"}, next : Nat, ver : Nat,
          status : Statuses]
Runs  == [n : Nat, panel : Panels, left : Nat, out : {"none", "success", "failed", "written"}]

\* Every variable holds a value of its kind: statuses of the migration, loops of Start.
TypeOK ==
    /\ row \in Rows
    /\ clock \in Times
    /\ mode \in [Panels -> {"off", "on", "stopping"}]
    /\ loop \in [Panels -> Loops]
    /\ busy \in [Panels -> BOOLEAN]
    /\ workers \subseteq Runs
    /\ launched \subseteq [n : Nat, panel : Panels, key : Keys]
    /\ boot \in [Panels -> Times]
    /\ req \in [Clients -> Reqs]
    /\ budget \in [edits : 0..MaxEdits, faults : 0..MaxFaults, downs : 0..MaxDowns]

\* No run is dispatched twice, by one panel process or by two: a run is an occurrence
\* (next_run_at) of one configuration (updated_at) of the task.
AtMostOnce == \A a, b \in launched : a.key = b.key => a = b

\* A task cannot overlap its own previous execution within the panel process.
NoOverlap == \A a, b \in workers : a.panel = b.panel => a = b

\* A run that fell due before the panel process started is never dispatched by it:
\* missed runs are skipped after downtime, whatever requests edit the task meanwhile, by
\* a panel alone on its database and as long as every statement is carried out.
NoReplay ==
    [][budget.faults = MaxFaults => \A l \in launched' \ launched : l.key.at > boot[l.panel]]_vars

\* Between its recovery and its Stop, a panel alone on its database shows a task as
\* running exactly while a worker of it runs, and never an interrupted run as running,
\* as long as every statement is carried out.
StatusTruthful ==
    \A p \in Panels :
        budget.faults = MaxFaults /\ row.here /\ mode[p] = "on" /\ loop[p].at # "recover" =>
        (row.status = "running" <=> \E w \in workers : w.panel = p /\ w.out # "written")

\* A panel that stops in order (Stop waits for its workers) leaves no run it started
\* recorded as running, as long as every statement is carried out.
StopSettles ==
    [][\A p \in Panels : budget.faults = MaxFaults /\ mode[p] = "stopping" /\ loop[p].at = "idle"
           /\ (\E w \in workers : w.panel = p /\ w.out = "written" /\ w \notin workers')
           => row.status # "running" \/ ~row.here]_vars

\* A task marked in Scheduler.running is released again, whichever step failed: no task
\* is refused for ever.
MarkReleased == \A p \in Panels : busy[p] ~> ~busy[p] \/ mode[p] = "off"

\* A due run of an active task is taken (run, dropped or skipped), whatever crashes.
DueIsTaken == Due(clock) ~> ~Due(clock)

\* A run shown as running is not shown so for ever, even if the panel died under it: it
\* is settled, or the statement that records its result or its recovery has failed.
RunsSettle ==
    (row.here /\ row.status = "running")
        ~> (row.status # "running" \/ ~row.here \/ budget.faults < MaxFaults)

=============================================================================
