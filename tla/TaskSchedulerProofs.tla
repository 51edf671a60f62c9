------------------------- MODULE TaskSchedulerProofs -------------------------
(* For every number of panel processes, clients, expressions and bounds: no    *)
(* run is dispatched twice and no task overlaps itself within a panel process. *)
EXTENDS TaskScheduler, FiniteSetTheorems, TLAPS

\* A run the row will not name again: its configuration was replaced, or the row's next
\* run was moved past it.
Spent(k) == k.ver < row.ver \/ (k.ver = row.ver /\ k.at < row.next)

Idle(p) == \A w \in workers : w.panel # p

\* A panel about to start a worker holds a run of its own that no worker was started for.
InHand ==
    \A p \in Panels : loop[p].at = "record" =>
        /\ Spent(loop[p].key) /\ busy[p] /\ Idle(p)
        /\ \A l \in launched : l.key # loop[p].key
        /\ \A q \in Panels \ {p} : loop[q].at = "record" => loop[q].key # loop[p].key

\* A panel about to claim a run holds one that was due, of a configuration that was saved.
Listed ==
    \A p \in Panels : loop[p].at = "claim" =>
        loop[p].key.at <= loop[p].now /\ loop[p].cron \in Crons

LaunchedSpent == \A l \in launched : Spent(l.key)
Marked == \A w \in workers : busy[w.panel] /\ (w.out = "none" => w.left > 0)
Off    == \A p \in Panels : mode[p] = "off" => loop[p].at = "idle" /\ Idle(p)
Saved  == /\ row.here => row.cron \in Crons
          /\ \A c \in Clients : req[c].op # "none" => req[c].cron \in Crons

SInv ==
    /\ TypeOK /\ IsFiniteSet(launched) /\ Saved
    /\ LaunchedSpent /\ InHand /\ Listed /\ AtMostOnce
    /\ Marked /\ Off /\ NoOverlap

-----------------------------------------------------------------------------

\* The finite history of launched runs has a number for the next one.
LEMMA NumberIsNat ==
    ASSUME IsFiniteSet(launched)
    PROVE  Cardinality(launched) + 1 \in Nat
<1>1. Cardinality(launched) \in Nat BY FS_CardinalityType
<1>. QED BY <1>1

\* A database error leaves the bounds in range (SpendFault), and so does a statement.
LEMMA BudgetKept ==
    ASSUME TypeOK, NEW p \in Panels, Fails(p) \/ Works(p) \/ SpendFault
    PROVE  budget' \in [edits : 0..MaxEdits, faults : 0..MaxFaults, downs : 0..MaxDowns]
<1>1. CASE budget' = budget BY <1>1 DEF TypeOK
<1>2. CASE SpendFault
  <2>1. budget.faults - 1 \in 0..MaxFaults BY <1>2, BoundsAssumption DEF SpendFault, TypeOK
  <2>. QED BY <1>2, <2>1 DEF SpendFault, TypeOK
<1>. QED BY <1>1, <1>2 DEF Fails, Works

\* SetStatus writes last_status only: what the row runs, and when, is left alone.
LEMMA StatusKept ==
    ASSUME TypeOK, NEW s \in Statuses, SetStatus(s)
    PROVE  row' \in Rows /\ Key(row') = Key(row) /\ row'.here = row.here /\ row'.cron = row.cron
BY DEF TypeOK, Rows, SetStatus, Key

\* Saved expressions give a later run (normalize, tick).
LEMMA NextIsLater ==
    ASSUME NEW c \in Crons, NEW t \in Times
    PROVE  NextRun[c][t] \in Nat /\ NextRun[c][t] > t
BY CronsAssumption

\* The loop at rest.
LEMMA RestedIsLoop == Rested \in Loops /\ Rested.at = "idle"
<1>1. 0 \in Times BY BoundsAssumption DEF Times
<1>. QED BY <1>1 DEF Rested, NoKey, Keys, Loops

\* Start begins a process whose map of running tasks is empty.
LEMMA StartKeeps ==
    ASSUME SInv, NEW p \in Panels, Start(p)
    PROVE  SInv'
<1>1. TypeOK'
  <2>1. [Rested EXCEPT !.at = "recover"] \in Loops BY RestedIsLoop DEF Loops
  <2>. QED BY <2>1 DEF SInv, Start, TypeOK
<1>2. LaunchedSpent' /\ AtMostOnce' /\ NoOverlap' /\ Saved'
  BY DEF SInv, Start, LaunchedSpent, AtMostOnce, NoOverlap, Saved, Spent
<1>3. InHand' /\ Listed' BY DEF SInv, Start, TypeOK, InHand, Listed, Spent, Idle
<1>4. Marked' /\ Off' BY DEF SInv, Start, TypeOK, Marked, Off, Idle
<1>. QED BY <1>1, <1>2, <1>3, <1>4 DEF SInv, Start

\* Recover rewrites the status of an interrupted run only.
LEMMA RecoverKeeps ==
    ASSUME SInv, NEW p \in Panels, Recover(p)
    PROVE  SInv'
<1>1. row' \in Rows /\ Key(row') = Key(row) /\ row'.here = row.here /\ row'.cron = row.cron
  <2>1. CASE row' = row BY <2>1 DEF SInv, TypeOK
  <2>2. CASE row' = [row EXCEPT !.status = "failed"] BY <2>2 DEF SInv, TypeOK, Rows, Statuses, Key
  <2>. QED BY <2>1, <2>2 DEF Recover
<1>2. TypeOK' BY <1>1, BudgetKept DEF SInv, Recover, TypeOK, Loops
<1>3. LaunchedSpent' /\ AtMostOnce' /\ NoOverlap' /\ Saved'
  BY <1>1 DEF SInv, Recover, LaunchedSpent, AtMostOnce, NoOverlap, Saved, Spent, Key
<1>4. InHand' /\ Listed' BY <1>1 DEF SInv, Recover, TypeOK, InHand, Listed, Spent, Idle, Key
<1>5. Marked' /\ Off' BY DEF SInv, Recover, TypeOK, Marked, Off, Idle
<1>. QED BY <1>2, <1>3, <1>4, <1>5 DEF SInv, Recover

\* Stop cancels the context; the loop and the workers notice later.
LEMMA StopKeeps ==
    ASSUME SInv, NEW p \in Panels, Stop(p)
    PROVE  SInv'
<1>1. TypeOK' BY BoundsAssumption DEF SInv, Stop, TypeOK
<1>2. LaunchedSpent' /\ AtMostOnce' /\ NoOverlap' /\ Saved'
  BY DEF SInv, Stop, LaunchedSpent, AtMostOnce, NoOverlap, Saved, Spent
<1>3. InHand' /\ Listed' BY DEF SInv, Stop, InHand, Listed, Spent, Idle
<1>4. Marked' /\ Off' BY DEF SInv, Stop, TypeOK, Marked, Off, Idle
<1>. QED BY <1>1, <1>2, <1>3, <1>4 DEF SInv, Stop

\* A process that ends takes its loop, its workers and its requests along.
LEMMA GoneKeeps ==
    ASSUME SInv, NEW p \in Panels, StopReturns(p) \/ Crash(p)
    PROVE  SInv'
<1>1. Gone(p) BY DEF StopReturns, Crash
<1>2. budget' \in [edits : 0..MaxEdits, faults : 0..MaxFaults, downs : 0..MaxDowns]
  BY BoundsAssumption DEF SInv, StopReturns, Crash, TypeOK
<1>3. NoReq \in Reqs BY DEF NoReq, Reqs
<1>4. TypeOK' BY <1>1, <1>2, <1>3, RestedIsLoop DEF SInv, Gone, TypeOK
<1>5. LaunchedSpent' /\ AtMostOnce' /\ NoOverlap'
  BY <1>1 DEF SInv, Gone, LaunchedSpent, AtMostOnce, NoOverlap, Spent
<1>6. Saved' BY <1>1 DEF SInv, Gone, Saved, NoReq
<1>7. InHand' /\ Listed'
  BY <1>1 DEF SInv, Gone, TypeOK, InHand, Listed, Spent, Idle, Rested
<1>8. Marked' /\ Off' BY <1>1 DEF SInv, Gone, TypeOK, Marked, Off, Idle, Rested
<1>. QED BY <1>1, <1>4, <1>5, <1>6, <1>7, <1>8 DEF SInv, Gone

\* The ticker fires and the due rows are listed: nothing is claimed yet.
LEMMA LookKeeps ==
    ASSUME SInv, NEW p \in Panels, Ticker(p) \/ List(p)
    PROVE  SInv'
<1>1. budget' \in [edits : 0..MaxEdits, faults : 0..MaxFaults, downs : 0..MaxDowns]
  BY BudgetKept DEF SInv, Ticker, List, TypeOK
<1>2. /\ UNCHANGED <<row, clock, mode, busy, workers, launched, boot, req>>
      /\ \A q \in Panels \ {p} : loop'[q] = loop[q]
      /\ loop'[p].at \in {"idle", "list", "claim"} /\ loop[p].at # "record"
  <2>1. CASE Ticker(p) BY <2>1 DEF SInv, Ticker, TypeOK
  <2>2. CASE List(p)
    <3>1. CASE loop' = [loop EXCEPT ![p] = Rested]
      BY <2>2, <3>1, RestedIsLoop DEF SInv, List, TypeOK
    <3>2. CASE loop' = [loop EXCEPT ![p] = [@ EXCEPT !.at = "claim", !.key = Key(row),
        !.cron = row.cron]]
      BY <2>2, <3>2 DEF SInv, List, TypeOK, Loops
    <3>. QED BY <2>2, <3>1, <3>2 DEF List
  <2>. QED BY <2>1, <2>2
<1>3. loop' \in [Panels -> Loops]
  <2>1. Key(row) \in Keys /\ Rested \in Loops /\ row.cron \in Crons \union {"none"}
    BY RestedIsLoop DEF SInv, TypeOK, Rows, Key, Keys
  <2>2. clock \in Times /\ loop[p] \in Loops BY DEF SInv, TypeOK
  <2>3. CASE Ticker(p)
    <3>1. [loop[p] EXCEPT !.at = "list", !.now = clock, !.startup = FALSE] \in Loops
      BY <2>2 DEF Loops
    <3>. QED BY <2>3, <3>1 DEF SInv, Ticker, TypeOK
  <2>4. CASE List(p)
    <3>1. [loop[p] EXCEPT !.at = "claim", !.key = Key(row), !.cron = row.cron] \in Loops
      BY <2>1, <2>2 DEF Loops
    <3>. QED BY <2>1, <2>4, <3>1 DEF SInv, List, TypeOK
  <2>. QED BY <2>3, <2>4
<1>4. TypeOK' BY <1>1, <1>2, <1>3 DEF SInv, TypeOK
<1>5. LaunchedSpent' /\ AtMostOnce' /\ NoOverlap' /\ Saved'
  BY <1>2 DEF SInv, LaunchedSpent, AtMostOnce, NoOverlap, Saved, Spent
<1>6. InHand' BY <1>2 DEF SInv, InHand, Spent, Idle
<1>7. loop'[p].at = "claim" => loop'[p].key.at <= loop'[p].now /\ loop'[p].cron \in Crons
  <2>1. CASE Ticker(p) BY <2>1 DEF SInv, Ticker, TypeOK, Loops
  <2>2. CASE List(p)
    <3>1. CASE loop' = [loop EXCEPT ![p] = Rested] BY <3>1, RestedIsLoop DEF SInv, TypeOK
    <3>2. CASE Due(loop[p].now) /\
               loop' = [loop EXCEPT ![p] = [@ EXCEPT !.at = "claim", !.key = Key(row),
                   !.cron = row.cron]]
      BY <3>2 DEF SInv, TypeOK, Loops, Due, Key, Saved
    <3>. QED BY <2>2, <3>1, <3>2 DEF List
  <2>. QED BY <2>1, <2>2
<1>8. Listed' BY <1>2, <1>7 DEF SInv, Listed
<1>9. mode[p] = "off" => loop[p].at = "idle" /\ loop'[p].at = "idle"
  BY DEF SInv, Ticker, List, Off
<1>10. Marked' /\ Off' BY <1>2, <1>9 DEF SInv, Marked, Off, Idle
<1>. QED BY <1>2, <1>4, <1>5, <1>6, <1>8, <1>10 DEF SInv

\* The conditional UPDATE that claims a run moves the row past it, so the run is spent for
\* every other panel, and the mark in running keeps this one from claiming another.
LEMMA ClaimKeeps ==
    ASSUME SInv, NEW p \in Panels, Claim(p)
    PROVE  SInv'
<1>1. budget' \in [edits : 0..MaxEdits, faults : 0..MaxFaults, downs : 0..MaxDowns]
  BY BudgetKept DEF SInv, Claim
<1>2. UNCHANGED <<clock, mode, workers, launched, boot, req>> /\ loop[p].at = "claim"
  BY DEF Claim
<1>3. Rested \in Loops /\ Rested.at = "idle" BY RestedIsLoop
<1>4. ASSUME loop' = [loop EXCEPT ![p] = Rested], UNCHANGED <<row, busy>>
      PROVE  SInv'
  <2>1. TypeOK' BY <1>1, <1>2, <1>3, <1>4 DEF SInv, TypeOK
  <2>2. LaunchedSpent' /\ AtMostOnce' /\ NoOverlap' /\ Saved'
    BY <1>2, <1>4 DEF SInv, LaunchedSpent, AtMostOnce, NoOverlap, Saved, Spent
  <2>3. InHand' /\ Listed'
    BY <1>2, <1>3, <1>4 DEF SInv, TypeOK, InHand, Listed, Spent, Idle
  <2>4. Marked' /\ Off' BY <1>2, <1>3, <1>4 DEF SInv, TypeOK, Marked, Off, Idle
  <2>. QED BY <1>2, <2>1, <2>2, <2>3, <2>4 DEF SInv
<1>5. ASSUME row.here, Key(row) = loop[p].key,
             row' = [row EXCEPT !.next = NextRun[loop[p].cron][loop[p].now]],
             loop' = [loop EXCEPT ![p] = IF busy[p] THEN Rested
                                              ELSE [loop[p] EXCEPT !.at = Claimed(loop[p])]],
             busy' = [busy EXCEPT ![p] = @ \/ ~loop[p].startup]
      PROVE  SInv'
  <2>1. /\ loop[p] \in Loops /\ loop[p].key.at <= loop[p].now
        /\ loop[p].cron \in Crons /\ loop[p].now \in Times
    BY <1>2 DEF SInv, TypeOK, Listed, Loops
  <2>2. NextRun[loop[p].cron][loop[p].now] \in Nat /\ NextRun[loop[p].cron][loop[p].now] > loop[p].now
    BY <2>1, NextIsLater
  <2>3. /\ row' \in Rows /\ row'.ver = row.ver /\ row'.next > row.next
        /\ row'.here = row.here /\ row'.cron = row.cron
    <3>1. row.next = loop[p].key.at BY <1>5 DEF Key
    <3>2. row.next \in Nat /\ loop[p].now \in Nat BY <2>1 DEF SInv, TypeOK, Rows, Times
    <3>3. NextRun[loop[p].cron][loop[p].now] > row.next BY <2>1, <2>2, <3>1, <3>2
    <3>. QED BY <1>5, <2>2, <3>3 DEF SInv, TypeOK, Rows
  <2>4. /\ \A q \in Panels \ {p} : loop'[q] = loop[q] /\ busy'[q] = busy[q]
        /\ loop'[p].at \in {"idle", "skip", "record"} /\ loop' \in [Panels -> Loops]
        /\ busy' \in [Panels -> BOOLEAN] /\ (busy[p] => busy'[p])
        /\ loop'[p].at = "record" => ~busy[p] /\ busy'[p] /\ loop'[p].key = loop[p].key
    <3>1. [loop[p] EXCEPT !.at = Claimed(loop[p])] \in Loops BY <2>1 DEF Loops, Claimed
    <3>. QED BY <1>3, <1>5, <2>1, <3>1 DEF SInv, TypeOK, Loops, Claimed
  <2>5. TypeOK' BY <1>1, <1>2, <2>3, <2>4 DEF SInv, TypeOK
  <2>6. ASSUME NEW k \in Keys, Spent(k) PROVE Spent(k)' /\ k # Key(row)
    BY <2>3, <2>6 DEF Spent, Key, SInv, TypeOK, Rows, Keys
  <2>7. \A l \in launched : l.key \in Keys BY DEF SInv, TypeOK
  <2>8. \A q \in Panels : loop[q].key \in Keys BY DEF SInv, TypeOK, Loops
  <2>9. LaunchedSpent' /\ AtMostOnce' /\ NoOverlap'
    BY <1>2, <2>6, <2>7 DEF SInv, LaunchedSpent, AtMostOnce, NoOverlap
  <2>10. InHand'
    <3>1. ASSUME NEW q \in Panels, loop[q].at = "record"
          PROVE loop[q].key # Key(row) /\ q # p /\ loop'[q] = loop[q]
      BY <1>2, <2>4, <2>6, <2>8, <3>1 DEF SInv, InHand
    <3>2. \A l \in launched : l.key # Key(row) BY <2>6, <2>7 DEF SInv, LaunchedSpent
    <3>3. ASSUME NEW q \in Panels, loop'[q].at = "record", q # p PROVE
            /\ Spent(loop[q].key)' /\ busy'[q] /\ Idle(q)'
            /\ \A l \in launched : l.key # loop'[q].key
            /\ loop[q].at = "record" /\ loop'[q] = loop[q]
      <4>1. loop[q].at = "record" /\ loop'[q] = loop[q] BY <2>4, <3>3
      <4>2. ASSUME NEW k \in Keys, k = loop[q].key PROVE Spent(k)'
        BY <2>6, <4>1, <4>2 DEF SInv, InHand
      <4>3. Spent(loop[q].key)' BY <2>8, <4>1, <4>2
      <4>. QED BY <1>2, <2>4, <3>3, <4>1, <4>3 DEF SInv, InHand, Idle
    <3>4. loop'[p].at = "record" =>
            /\ Spent(loop[p].key)' /\ busy'[p] /\ Idle(p)' /\ loop'[p].key = Key(row)
      <4>1. Idle(p)' <=> Idle(p) BY <1>2 DEF Idle
      <4>2. ~busy[p] => Idle(p) BY DEF SInv, Marked, Idle
      <4>3. ASSUME NEW k, k = Key(row) PROVE Spent(k)' BY <2>3, <4>3 DEF Spent, Key, SInv, TypeOK,
          Rows
      <4>. QED BY <1>5, <2>4, <4>1, <4>2, <4>3
    <3>. QED BY <1>2, <3>1, <3>2, <3>3, <3>4 DEF SInv, InHand
  <2>11. Listed' /\ Saved' BY <1>2, <2>3, <2>4 DEF SInv, Listed, Saved
  <2>12. Marked' BY <1>2, <2>4 DEF SInv, Marked, TypeOK, Runs
  <2>13. Off' BY <1>2, <2>4 DEF SInv, Off, Idle
  <2>. QED BY <1>2, <2>5, <2>9, <2>10, <2>11, <2>12, <2>13 DEF SInv
<1>. QED BY <1>4, <1>5 DEF Claim

\* A missed run is skipped.
LEMMA SkipKeeps ==
    ASSUME SInv, NEW p \in Panels, Skip(p)
    PROVE  SInv'
<1>1. row' \in Rows /\ Key(row') = Key(row) /\ row'.here = row.here /\ row'.cron = row.cron
  BY StatusKept DEF SInv, Skip, TypeOK, Statuses
<1>2. TypeOK' BY <1>1, BudgetKept, RestedIsLoop DEF SInv, Skip, TypeOK
<1>3. LaunchedSpent' /\ AtMostOnce' /\ NoOverlap' /\ Saved'
  BY <1>1 DEF SInv, Skip, LaunchedSpent, AtMostOnce, NoOverlap, Saved, Spent, Key
<1>4. InHand' /\ Listed'
  BY <1>1 DEF SInv, Skip, TypeOK, InHand, Listed, Spent, Idle, Key, Rested
<1>5. Marked' /\ Off' BY DEF SInv, Skip, TypeOK, Marked, Off, Idle, Rested
<1>. QED BY <1>2, <1>3, <1>4, <1>5 DEF SInv, Skip

\* The worker is started for the run in hand, or the mark is taken back.
LEMMA RecordKeeps ==
    ASSUME SInv, NEW p \in Panels, Record(p)
    PROVE  SInv'
<1>1. budget' \in [edits : 0..MaxEdits, faults : 0..MaxFaults, downs : 0..MaxDowns]
  BY BudgetKept DEF SInv, Record
<1>2. /\ UNCHANGED <<clock, mode, boot, req>> /\ loop[p].at = "record"
      /\ loop' = [loop EXCEPT ![p] = Rested] BY DEF Record
<1>3. Rested \in Loops /\ Rested.at = "idle" BY RestedIsLoop
<1>4. Spent(loop[p].key) /\ busy[p] /\ Idle(p) /\ mode[p] # "off"
  BY <1>2 DEF SInv, InHand, Off
<1>5. ASSUME busy' = [busy EXCEPT ![p] = FALSE], UNCHANGED <<row, workers, launched>>
      PROVE  SInv'
  <2>1. TypeOK' BY <1>1, <1>2, <1>3, <1>5 DEF SInv, TypeOK
  <2>2. LaunchedSpent' /\ AtMostOnce' /\ NoOverlap' /\ Saved'
    BY <1>2, <1>5 DEF SInv, LaunchedSpent, AtMostOnce, NoOverlap, Saved, Spent
  <2>3. InHand' /\ Listed'
    BY <1>2, <1>3, <1>5 DEF SInv, TypeOK, InHand, Listed, Spent, Idle
  <2>4. Marked' /\ Off'
    BY <1>2, <1>3, <1>4, <1>5 DEF SInv, TypeOK, Marked, Off, Idle, Runs
  <2>. QED BY <1>2, <1>5, <2>1, <2>2, <2>3, <2>4 DEF SInv
<1>6. ASSUME SetStatus("running"), busy' = busy, NEW n \in Nat,
             launched' = launched \union {[n |-> n, panel |-> p, key |-> loop[p].key]},
             workers' = workers \union {[n |-> n, panel |-> p, left |-> Steps, out |-> "none"]}
      PROVE  SInv'
  <2>1. row' \in Rows /\ Key(row') = Key(row) /\ row'.here = row.here /\ row'.cron = row.cron
    BY <1>6, StatusKept DEF SInv, Statuses
  <2>2. loop[p].key \in Keys BY DEF SInv, TypeOK, Loops
  <2>3. TypeOK'
    BY <1>1, <1>2, <1>3, <1>6, <2>1, <2>2, BoundsAssumption DEF SInv, TypeOK, Runs
  <2>4. IsFiniteSet(launched') BY <1>6, FS_AddElement DEF SInv
  <2>5. \A k : Spent(k)' <=> Spent(k) BY <2>1 DEF Spent, Key
  <2>6. LaunchedSpent' BY <1>4, <1>6, <2>5 DEF SInv, LaunchedSpent
  <2>7. AtMostOnce' BY <1>2, <1>6 DEF SInv, AtMostOnce, InHand
  <2>8. NoOverlap' BY <1>4, <1>6 DEF SInv, NoOverlap, Idle
  <2>9. Saved' /\ Listed' BY <1>2, <1>3, <2>1 DEF SInv, Saved, Listed, TypeOK
  <2>10. InHand'
    BY <1>2, <1>3, <1>6, <2>5 DEF SInv, InHand, Idle, TypeOK
  <2>11. Marked' BY <1>4, <1>6, BoundsAssumption DEF SInv, Marked
  <2>12. Off' BY <1>2, <1>3, <1>4, <1>6 DEF SInv, Off, Idle, TypeOK
  <2>. QED BY <2>3, <2>4, <2>6, <2>7, <2>8, <2>9, <2>10, <2>11, <2>12 DEF SInv
<1>. QED BY <1>5, <1>6, NumberIsNat DEF Record, SInv

\* A worker advances, records its result on a context of its own and is released last.
LEMMA WorkerKeeps ==
    ASSUME SInv, NEW w \in workers, WorkerStep(w)
    PROVE  SInv'
<1>1. w \in Runs /\ w.panel \in Panels /\ busy[w.panel] /\ (w.out = "none" => w.left > 0)
  BY DEF SInv, TypeOK, Runs, Marked
<1>2. budget' \in [edits : 0..MaxEdits, faults : 0..MaxFaults, downs : 0..MaxDowns]
  BY <1>1, BudgetKept DEF SInv, TypeOK, WorkerStep, ActionDone, ActionFails, Finish, Release
<1>3. row' \in Rows /\ Key(row') = Key(row) /\ row'.here = row.here /\ row'.cron = row.cron
  BY StatusKept DEF SInv, TypeOK, Statuses, WorkerStep, ActionDone, ActionFails, Finish, Release
<1>4. UNCHANGED <<clock, mode, loop, launched, boot, req>>
  BY DEF WorkerStep, ActionDone, ActionFails, Finish, Release
<1>5. loop[w.panel].at # "record" BY <1>1 DEF SInv, InHand, Idle
<1>6. \A u \in workers : u.panel = w.panel => u = w BY DEF SInv, NoOverlap
<1>7. LaunchedSpent' /\ AtMostOnce' /\ Saved' /\ Listed'
  BY <1>3, <1>4 DEF SInv, LaunchedSpent, AtMostOnce, Saved, Listed, Spent, Key
<1>8. CASE Release(w)
  <2>1. workers' = workers \ {w} /\ busy' = [busy EXCEPT ![w.panel] = FALSE] BY <1>8 DEF Release
  <2>2. TypeOK' BY <1>1, <1>2, <1>3, <1>4, <2>1 DEF SInv, TypeOK
  <2>3. NoOverlap' /\ Off' BY <1>4, <2>1 DEF SInv, NoOverlap, Off, Idle
  <2>4. Marked' BY <1>1, <1>6, <2>1 DEF SInv, Marked, TypeOK, Runs
  <2>5. InHand' BY <1>3, <1>4, <1>5, <2>1 DEF SInv, InHand, Spent, Key, Idle, TypeOK
  <2>. QED BY <1>4, <1>7, <2>2, <2>3, <2>4, <2>5 DEF SInv
<1>9. CASE ~Release(w)
  <2>1. PICK v \in Runs : Becomes(w, v) /\ v.panel = w.panel /\ (v.out = "none" => v.left > 0)
    <3>1. CASE ActionDone(w)
      <4> DEFINE v == [w EXCEPT !.left = @ - 1, !.out = IF w.left = 1 THEN "success" ELSE "none"]
      <4>1. w.out = "none" /\ w.left > 0 /\ Becomes(w, v) BY <1>1, <3>1 DEF ActionDone
      <4>2. w.left - 1 \in Nat /\ (w.left = 1 \/ w.left - 1 > 0) BY <1>1, <4>1 DEF Runs
      <4>3. v \in Runs /\ v.panel = w.panel
        <5>1. CASE w.left = 1 BY <1>1, <4>2, <5>1 DEF Runs
        <5>2. CASE w.left # 1 BY <1>1, <4>2, <5>2 DEF Runs
        <5>. QED BY <5>1, <5>2
      <4>4. v.out = "none" => v.left > 0
        <5>1. CASE w.left = 1 BY <1>1, <5>1 DEF Runs
        <5>2. CASE w.left # 1 BY <1>1, <4>2, <5>2 DEF Runs
        <5>. QED BY <5>1, <5>2
      <4> HIDE DEF v
      <4>. QED BY <4>1, <4>3, <4>4
    <3>2. CASE ActionFails(w) BY <1>1, <3>2 DEF ActionFails, Runs
    <3>3. CASE Finish(w) BY <1>1, <3>3 DEF Finish, Runs
    <3>. QED BY <1>9, <3>1, <3>2, <3>3 DEF WorkerStep
  <2>2. workers' = (workers \ {w}) \union {v} BY <2>1 DEF Becomes
  <2>3. busy' = busy BY <1>9 DEF WorkerStep, ActionDone, ActionFails, Finish
  <2>4. TypeOK' BY <1>2, <1>3, <1>4, <2>2, <2>3 DEF SInv, TypeOK
  <2>5. NoOverlap' BY <1>6, <2>1, <2>2 DEF SInv, NoOverlap
  <2>6. Off' BY <1>4, <2>1, <2>2 DEF SInv, Off, Idle
  <2>7. Marked' BY <1>1, <2>1, <2>2, <2>3 DEF SInv, Marked
  <2>8. InHand' BY <1>3, <1>4, <1>5, <2>1, <2>2, <2>3 DEF SInv, InHand, Spent, Key, Idle
  <2>. QED BY <1>4, <1>7, <2>4, <2>5, <2>6, <2>7, <2>8 DEF SInv
<1>. QED BY <1>8, <1>9

\* A request reads the row and computes the next run, or deletes the row.
LEMMA AskKeeps ==
    ASSUME SInv, NEW c \in Clients, NEW p \in Panels, Ask(c, p)
    PROVE  SInv'
<1>1. budget' \in [edits : 0..MaxEdits, faults : 0..MaxFaults, downs : 0..MaxDowns]
  <2>1. SpendEdit BY DEF Ask, CreateAsk, UpdateAsk, SetEnabledAsk, Asks, Delete
  <2>2. budget.edits - 1 \in 0..MaxEdits BY <2>1, BoundsAssumption DEF SInv, TypeOK, SpendEdit
  <2>. QED BY <2>1, <2>2 DEF SInv, TypeOK, SpendEdit
<1>2. /\ UNCHANGED <<clock, mode, loop, busy, workers, launched, boot>>
      /\ row' \in Rows /\ Key(row') = Key(row) /\ row'.cron = row.cron /\ (row'.here => row.here)
  BY DEF Ask, CreateAsk, UpdateAsk, SetEnabledAsk, Asks, Delete, SInv, TypeOK, Rows, Key
<1>3. req' \in [Clients -> Reqs] /\ \A d \in Clients : req'[d].op # "none" => req'[d].cron \in Crons
  <2>1. CASE Delete(c, p) BY <2>1 DEF Delete, SInv, TypeOK, Saved
  <2>2. ASSUME NEW op \in {"create", "update", "enable"}, NEW cron \in Crons, NEW on \in BOOLEAN,
               Asks(c, p, op, cron, on)
        PROVE  req' \in [Clients -> Reqs] /\ \A d \in Clients : req'[d].op # "none" => req'[d].cron \in Crons
    <3>1. clock \in Times BY DEF SInv, TypeOK
    <3>2. (IF on THEN NextRun[cron][clock] ELSE 0) \in Nat BY <3>1, NextIsLater
    <3>. QED BY <2>2, <3>2 DEF Asks, SInv, TypeOK, Reqs, Saved
  <2>. QED BY <2>1, <2>2 DEF Ask, CreateAsk, UpdateAsk, SetEnabledAsk, SInv, Saved
<1>4. TypeOK' BY <1>1, <1>2, <1>3 DEF SInv, TypeOK
<1>5. LaunchedSpent' /\ AtMostOnce' /\ NoOverlap' /\ Saved' /\ Listed' /\ Marked' /\ Off'
  BY <1>2, <1>3 DEF SInv, LaunchedSpent, AtMostOnce, NoOverlap, Saved, Listed, Marked, Off, Idle,
      Spent, Key
<1>6. InHand' BY <1>2 DEF SInv, InHand, Spent, Key, Idle
<1>. QED BY <1>2, <1>4, <1>5, <1>6 DEF SInv

\* A row written by an UPDATE of the configuration.
LEMMA RowWritten ==
    ASSUME NEW r \in Rows, NEW on \in BOOLEAN, NEW cron \in Crons, NEW next \in Nat
    PROVE  [r EXCEPT !.on = on, !.cron = cron, !.next = next, !.ver = r.ver + 1] \in Rows
<1>1. r.ver + 1 \in Nat BY DEF Rows
<1>. QED BY <1>1 DEF Rows

\* A request's write stamps the row anew: every earlier run of it is spent.
LEMMA WriteKeeps ==
    ASSUME SInv, NEW c \in Clients, Write(c)
    PROVE  SInv'
<1>1. UNCHANGED <<clock, mode, loop, busy, workers, launched, boot, budget>>
      /\ req' = [req EXCEPT ![c] = NoReq]
  BY DEF Write, CreateWrite, UpdateWrite, SetEnabledWrite, Answered
<1>2. NoReq \in Reqs /\ NoReq.op = "none" BY DEF NoReq, Reqs
<1>3. /\ row' \in Rows /\ (row'.here => row'.cron \in Crons)
      /\ row' = row \/ row'.ver > row.ver
  <2>1. req[c] \in Reqs /\ row \in Rows /\ (req[c].op # "none" => req[c].cron \in Crons)
        /\ (row.here => row.cron \in Crons)
    BY DEF SInv, TypeOK, Saved
  <2>2. req[c].on \in BOOLEAN /\ req[c].next \in Nat BY <2>1 DEF Reqs
  <2>3. CASE row' = row BY <2>1, <2>3
  <2>4. CASE CreateWrite(c) /\ row.ver = 0
    <3>1. row' = [here |-> TRUE, on |-> req[c].on, cron |-> req[c].cron,
                  next |-> req[c].next, ver |-> 1, status |-> ""] /\ req[c].cron \in Crons
      BY <2>1, <2>4 DEF CreateWrite
    <3>2. row' \in Rows BY <2>2, <3>1 DEF Rows, Statuses
    <3>3. row'.ver = 1 /\ row'.cron \in Crons BY <3>1
    <3>. QED BY <2>4, <3>2, <3>3
  <2>5. CASE UpdateWrite(c) /\ row.here
    <3>1. row' = [row EXCEPT !.on = req[c].on, !.cron = req[c].cron,
                             !.next = req[c].next, !.ver = row.ver + 1] /\ req[c].cron \in Crons
      BY <2>1, <2>5 DEF UpdateWrite
    <3>2. row' \in Rows BY <2>1, <2>2, <3>1, RowWritten
    <3>3. row'.ver = row.ver + 1 /\ row'.cron \in Crons /\ row.ver \in Nat BY <2>1, <3>1 DEF Rows
    <3>. QED BY <3>2, <3>3
  <2>6. CASE SetEnabledWrite(c) /\ row.here
    <3>1. row' = [row EXCEPT !.on = req[c].on, !.next = req[c].next, !.ver = row.ver + 1]
      BY <2>6 DEF SetEnabledWrite
    <3>2. row' = [row EXCEPT !.on = req[c].on, !.cron = row.cron, !.next = req[c].next,
        !.ver = row.ver + 1]
      BY <2>1, <3>1 DEF Rows
    <3>5. row' \in Rows BY <2>1, <2>2, <2>6, <3>2, RowWritten
    <3>3. row'.ver = row.ver + 1 /\ row'.cron = row.cron /\ row.ver \in Nat BY <2>1, <3>1 DEF Rows
    <3>. QED BY <2>1, <2>6, <3>5, <3>3
  <2>. QED BY <2>3, <2>4, <2>5, <2>6 DEF Write, CreateWrite, UpdateWrite, SetEnabledWrite
<1>4. TypeOK' BY <1>1, <1>2, <1>3 DEF SInv, TypeOK
<1>5. ASSUME NEW k \in Keys, Spent(k) PROVE Spent(k)'
  BY <1>3, <1>5 DEF Spent, Keys, Rows, SInv, TypeOK
<1>6. (\A l \in launched : l.key \in Keys) /\ (\A q \in Panels : loop[q].key \in Keys)
  BY DEF SInv, TypeOK, Loops
<1>7. LaunchedSpent' BY <1>1, <1>5, <1>6 DEF SInv, LaunchedSpent
<1>8. InHand' BY <1>1, <1>5, <1>6 DEF SInv, InHand, Idle
<1>9. AtMostOnce' /\ NoOverlap' /\ Listed' /\ Marked' /\ Off'
  BY <1>1 DEF SInv, AtMostOnce, NoOverlap, Listed, Marked, Off, Idle
<1>10. Saved' BY <1>1, <1>2, <1>3 DEF SInv, Saved, TypeOK
<1>. QED BY <1>1, <1>4, <1>7, <1>8, <1>9, <1>10 DEF SInv

\* The clock and a stutter change none of it.
LEMMA ClockKeeps ==
    ASSUME SInv, ClockTick \/ UNCHANGED vars
    PROVE  SInv'
<1>1. UNCHANGED <<row, mode, loop, busy, workers, launched, boot, req, budget>>
  BY DEF ClockTick, vars
<1>2. clock' \in Times BY BoundsAssumption DEF SInv, TypeOK, ClockTick, vars, Times
<1>. QED BY <1>1, <1>2 DEF SInv, TypeOK, Saved, LaunchedSpent, InHand, Listed, AtMostOnce,
             Marked, Off, NoOverlap, Spent, Idle

\* The invariant holds when the panel starts.
LEMMA InitInv == Init => SInv
<1> SUFFICES ASSUME Init PROVE SInv OBVIOUS
<1>1. row \in Rows /\ (row.here => row.cron \in Crons)
  <2>1. 0 \in Times BY BoundsAssumption DEF Times
  <2>2. CASE row = NoRow BY <2>2 DEF NoRow, Rows, Statuses
  <2>3. ASSUME NEW c \in Crons, NEW s \in Statuses,
               row = [here |-> TRUE, on |-> TRUE, cron |-> c, next |-> NextRun[c][0],
                      ver |-> 1, status |-> s]
        PROVE  row \in Rows /\ row.cron \in Crons
    BY <2>1, <2>3, NextIsLater DEF Rows
  <2>. QED BY <2>2, <2>3 DEF Init, NoRow, Statuses
<1>2. TypeOK
  <2>1. 0 \in Times /\ NoReq \in Reqs /\ Rested \in Loops
    BY BoundsAssumption, RestedIsLoop DEF Times, NoReq, Reqs
  <2>2. budget \in [edits : 0..MaxEdits, faults : 0..MaxFaults, downs : 0..MaxDowns]
    <3>1. MaxEdits \in 0..MaxEdits /\ MaxFaults \in 0..MaxFaults /\ MaxDowns \in 0..MaxDowns
      BY BoundsAssumption
    <3>. QED BY <3>1 DEF Init
  <2>. QED BY <1>1, <2>1, <2>2 DEF Init, TypeOK
<1>3. IsFiniteSet(launched) BY FS_EmptySet DEF Init
<1>. QED BY <1>1, <1>2, <1>3 DEF Init, SInv, Saved, NoReq, LaunchedSpent, InHand, Listed,
             AtMostOnce, Marked, Off, NoOverlap, Idle, Rested

\* Every step preserves it: of a panel, of its workers, of a request or of the clock.
LEMMA NextInv == SInv /\ [Next]_vars => SInv'
<1> SUFFICES ASSUME SInv, [Next]_vars PROVE SInv' OBVIOUS
<1>1. ASSUME NEW p \in Panels, Process(p) \/ TickStep(p) PROVE SInv'
  BY <1>1, StartKeeps, RecoverKeeps, StopKeeps, GoneKeeps, LookKeeps, ClaimKeeps, SkipKeeps,
     RecordKeeps DEF Process, TickStep
<1>2. ASSUME NEW w \in workers, WorkerStep(w) PROVE SInv' BY <1>2, WorkerKeeps
<1>3. ASSUME NEW c \in Clients, NEW p \in Panels, Ask(c, p) PROVE SInv' BY <1>3, AskKeeps
<1>4. ASSUME NEW c \in Clients, Write(c) PROVE SInv' BY <1>4, WriteKeeps
<1>5. CASE ClockTick \/ UNCHANGED vars BY <1>5, ClockKeeps
<1>. QED BY <1>1, <1>2, <1>3, <1>4, <1>5 DEF Next

\* SInv is an invariant of the scheduler.
THEOREM SchedulerInvariance == Spec => []SInv
<1>1. Init => SInv BY InitInv
<1>2. SInv /\ [Next]_vars => SInv' BY NextInv
<1>. QED BY <1>1, <1>2, PTL DEF Spec

\* However many panel processes share the database and whatever requests edit the task, no
\* occurrence of one configuration of it is dispatched twice (the claim of tick).
THEOREM DispatchedAtMostOnce == Spec => []AtMostOnce
<1>1. SInv => AtMostOnce BY DEF SInv
<1>. QED BY <1>1, SchedulerInvariance, PTL

\* A task never overlaps its own previous execution within a panel process (the map running).
THEOREM NeverOverlaps == Spec => []NoOverlap
<1>1. SInv => NoOverlap BY DEF SInv
<1>. QED BY <1>1, SchedulerInvariance, PTL

-----------------------------------------------------------------------------
(* A panel alone on its database: what the row shows of it, and which runs it *)
(* still dispatches after it was down.                                        *)

\* A process that is starting: it recovers, or its first tick is not over.
Booting(p) == loop[p].at = "recover" \/ loop[p].startup

\* Until then it has no worker and no task marked, and only then it skips runs.
Boots ==
    \A p \in Panels :
        /\ Booting(p) => Idle(p) /\ ~busy[p]
        /\ loop[p].at = "skip" => loop[p].startup
        /\ loop[p].at = "recover" => ~loop[p].startup

\* A task that was never saved has no run and no worker.
Unborn ==
    /\ row.here => row.ver > 0
    /\ row.ver = 0 => row.next = 0
    /\ launched = {} => workers = {}

\* A tick comes after the start of its process; a request is computed after it too.
Clocked ==
    \A p \in Panels :
        /\ boot[p] <= clock
        /\ loop[p].at \in {"list", "claim", "skip", "record"} => boot[p] <= loop[p].now
        /\ loop[p].at = "claim" => loop[p].key.at > 0
Asked ==
    \A c \in Clients : req[c].op # "none" =>
        /\ req[c].panel \in Panels /\ mode[req[c].panel] # "off"
        /\ req[c].next = 0 \/ req[c].next > boot[req[c].panel]

\* Every statement so far was carried out.
Faultless == budget.faults = MaxFaults

\* Once a worker has written its result the task is not shown as running.
Settled ==
    \A w \in workers : Faultless /\ row.here /\ w.out = "written" => row.status # "running"

\* After the first tick of a process the task's next run is one after its start.
Fresh ==
    \A p \in Panels :
        Faultless /\ mode[p] = "on" /\ row.here /\ row.on /\ row.next # 0 =>
            \/ row.next > boot[p]
            \/ loop[p].at = "recover"
            \/ loop[p].at = "list" /\ loop[p].startup
            \/ loop[p].at = "claim" /\ loop[p].startup /\ Key(row) = loop[p].key
FreshInHand ==
    \A p \in Panels :
        Faultless /\ mode[p] = "on" /\ loop[p].at = "record" => loop[p].key.at > boot[p]


AloneInv ==
    /\ SInv /\ Boots /\ Unborn /\ Clocked /\ Asked
    /\ StatusTruthful /\ Settled /\ Fresh /\ FreshInHand

\* One panel process at most opens the database.
Alone == \A p, q \in Panels : p = q

\* The numbers of the model are what they seem to be.
LEMMA Numbers ==
    ASSUME TypeOK
    PROVE  /\ clock \in Nat /\ clock <= MaxTime /\ row.next \in Nat /\ row.ver \in Nat
           /\ budget.faults \in Nat /\ MaxFaults \in Nat /\ budget.faults <= MaxFaults
           /\ \A p \in Panels : boot[p] \in Nat /\ loop[p].now \in Nat /\ loop[p].now \in Times
                                /\ loop[p].key.at \in Nat /\ loop[p].key.ver \in Nat
<1>1. Times \subseteq Nat /\ MaxTime \in Nat BY BoundsAssumption DEF Times
<1>2. clock \in 0..MaxTime BY DEF TypeOK, Times
<1>3. budget.faults \in 0..MaxFaults BY DEF TypeOK
<1>4. \A p \in Panels : loop[p] \in Loops BY DEF TypeOK
<1>5. \A p \in Panels : loop[p].now \in Times /\ loop[p].key \in Keys BY <1>4 DEF Loops
<1>6. row \in Rows BY DEF TypeOK
<1>7. row.next \in Nat /\ row.ver \in Nat BY <1>6 DEF Rows
<1>8. clock \in Nat /\ clock <= MaxTime BY <1>1, <1>2
<1>9. budget.faults \in Nat /\ budget.faults <= MaxFaults /\ MaxFaults \in Nat
  BY <1>3, BoundsAssumption
<1>10. \A p \in Panels : boot[p] \in Nat BY <1>1 DEF TypeOK
<1>11. \A p \in Panels : loop[p].key.at \in Nat /\ loop[p].key.ver \in Nat BY <1>5 DEF Keys
<1>. QED BY <1>1, <1>5, <1>7, <1>8, <1>9, <1>10, <1>11

\* A statement that fails is a fault, unless the process is being stopped.
LEMMA FaultShows ==
    ASSUME TypeOK, SpendFault
    PROVE  ~Faultless'
<1>1. budget.faults \in Nat /\ MaxFaults \in Nat /\ budget.faults <= MaxFaults BY Numbers
<1>2. budget' = [budget EXCEPT !.faults = @ - 1] BY DEF SpendFault
<1>3. budget'.faults = budget.faults - 1 BY <1>2 DEF TypeOK
<1>. QED BY <1>1, <1>3 DEF Faultless

LEMMA FailureShows ==
    ASSUME TypeOK, NEW p \in Panels, Fails(p), Faultless'
    PROVE  mode[p] = "stopping" /\ budget' = budget
BY FaultShows DEF Fails

\* A task that was never saved has had no run.
LEMMA UnbornIsUnused ==
    ASSUME SInv, Unborn, row.ver = 0
    PROVE  workers = {} /\ \A p \in Panels : loop[p].at # "record"
<1>1. row.next = 0 BY DEF Unborn
<1>2. \A k \in Keys : ~Spent(k)
  <2> TAKE k \in Keys
  <2>1. k.at \in Nat /\ k.ver \in Nat BY DEF Keys
  <2>. QED BY <1>1, <2>1 DEF Spent
<1>3. launched = {}
  <2>1. \A l \in launched : l.key \in Keys /\ Spent(l.key)
    BY DEF SInv, TypeOK, LaunchedSpent
  <2>. QED BY <1>2, <2>1
<1>4. \A p \in Panels : loop[p].key \in Keys BY DEF SInv, TypeOK, Loops
<1>. QED BY <1>2, <1>3, <1>4 DEF SInv, Unborn, InHand

\* Start: everything begins with the recovery.
LEMMA AloneStart ==
    ASSUME AloneInv, Alone, NEW p \in Panels, Start(p)
    PROVE  AloneInv'
<1>1. SInv' BY StartKeeps DEF AloneInv
<1>2. TypeOK /\ loop \in [Panels -> Loops] /\ busy \in [Panels -> BOOLEAN]
      /\ boot \in [Panels -> Times] /\ mode \in [Panels -> {"off", "on", "stopping"}]
  BY DEF AloneInv, SInv, TypeOK
<1>3. /\ loop'[p].at = "recover" /\ loop'[p].startup = FALSE /\ busy'[p] = FALSE
      /\ boot'[p] = clock /\ mode[p] = "off"
      /\ \A q \in Panels \ {p} : loop'[q] = loop[q] /\ busy'[q] = busy[q] /\ boot'[q] = boot[q]
      /\ \A q \in Panels \ {p} : mode'[q] = mode[q]
      /\ UNCHANGED <<row, clock, workers, launched, req, budget>>
  BY <1>2 DEF Start, Rested
<1>4. Idle(p) BY <1>3 DEF AloneInv, SInv, Off
<1>5. Boots' BY <1>3, <1>4 DEF AloneInv, Boots, Booting, Idle
<1>6. Unborn' BY <1>3 DEF AloneInv, Unborn
<1>7. Clocked' BY <1>2, <1>3, Numbers DEF AloneInv, Clocked
<1>8. Asked' BY <1>3 DEF AloneInv, Asked
<1>9. StatusTruthful' BY <1>3 DEF AloneInv, Alone, StatusTruthful
<1>10. Settled' BY <1>3 DEF AloneInv, Settled, Faultless
<1>11. Fresh' /\ FreshInHand' BY <1>3 DEF Alone, Fresh, FreshInHand
<1>. QED BY <1>1, <1>5, <1>6, <1>7, <1>8, <1>9, <1>10, <1>11 DEF AloneInv

\* Recover: an interrupted run becomes failed, and the first tick begins.
LEMMA AloneRecover ==
    ASSUME AloneInv, Alone, NEW p \in Panels, Recover(p)
    PROVE  AloneInv'
<1>1. SInv' BY RecoverKeeps DEF AloneInv
<1>2. TypeOK /\ loop \in [Panels -> Loops] BY DEF AloneInv, SInv, TypeOK
<1>3. /\ loop[p].at = "recover" /\ loop'[p].at = "list" /\ loop'[p].startup /\ loop'[p].now = clock
      /\ \A q \in Panels \ {p} : loop'[q] = loop[q]
      /\ UNCHANGED <<clock, mode, busy, workers, launched, boot, req>>
  BY <1>2 DEF Recover, Loops
<1>4. /\ row'.here = row.here /\ row'.on = row.on /\ row'.next = row.next /\ row'.ver = row.ver
      /\ Faultless' /\ mode[p] = "on" => row'.status # "running" /\ budget' = budget
      /\ Faultless' => budget' = budget
      /\ row'.status = "running" => row.status = "running"
  BY <1>2, FailureShows DEF Recover, TypeOK, Rows, Works
<1>5. Idle(p) /\ ~busy[p] BY <1>3 DEF AloneInv, Boots, Booting
<1>6. Boots' BY <1>3, <1>5 DEF AloneInv, Boots, Booting, Idle
<1>7. Unborn' BY <1>3, <1>4 DEF AloneInv, Unborn
<1>8. Clocked' BY <1>3 DEF AloneInv, Clocked
<1>9. Asked' BY <1>3 DEF AloneInv, Asked
<1>10. StatusTruthful' BY <1>3, <1>4, <1>5 DEF Alone, StatusTruthful, Faultless, Idle
<1>11. Settled' BY <1>3, <1>4 DEF AloneInv, Settled, Faultless
<1>12. Fresh' /\ FreshInHand' BY <1>3 DEF Alone, Fresh, FreshInHand
<1>. QED BY <1>1, <1>6, <1>7, <1>8, <1>9, <1>10, <1>11, <1>12 DEF AloneInv

\* Stop cancels the context.
LEMMA AloneStop ==
    ASSUME AloneInv, Alone, NEW p \in Panels, Stop(p)
    PROVE  AloneInv'
<1>1. SInv' BY StopKeeps DEF AloneInv
<1>2. /\ mode'[p] = "stopping" /\ \A q \in Panels \ {p} : mode'[q] = mode[q]
      /\ budget'.faults = budget.faults
      /\ UNCHANGED <<row, clock, loop, busy, workers, launched, boot, req>>
  BY DEF AloneInv, SInv, TypeOK, Stop
<1>3. Boots' /\ Unborn' /\ Clocked' BY <1>2 DEF AloneInv, Boots, Booting, Idle, Unborn, Clocked
<1>4. Asked' BY <1>2 DEF AloneInv, Asked
<1>5. StatusTruthful' /\ Settled' /\ Fresh' /\ FreshInHand'
  BY <1>2 DEF AloneInv, Alone, StatusTruthful, Settled, Fresh, FreshInHand, Faultless
<1>. QED BY <1>1, <1>3, <1>4, <1>5 DEF AloneInv

\* The process ends, in order or not.
LEMMA AloneGone ==
    ASSUME AloneInv, Alone, NEW p \in Panels, StopReturns(p) \/ Crash(p)
    PROVE  AloneInv'
<1>1. SInv' BY GoneKeeps DEF AloneInv
<1>2. TypeOK BY DEF AloneInv, SInv
<1>3. Gone(p) /\ budget'.faults = budget.faults BY <1>2 DEF StopReturns, Crash, TypeOK
<1>4. /\ loop' = [loop EXCEPT ![p] = Rested] /\ mode' = [mode EXCEPT ![p] = "off"]
      /\ workers' = {w \in workers : w.panel # p}
      /\ req' = [c \in Clients |-> IF req[c].panel = p THEN NoReq ELSE req[c]]
      /\ UNCHANGED <<row, clock, busy, launched, boot>>
  BY <1>3 DEF Gone
<1>5. /\ loop'[p] = Rested /\ mode'[p] = "off"
      /\ \A q \in Panels \ {p} : loop'[q] = loop[q] /\ mode'[q] = mode[q]
  BY <1>2, <1>4 DEF TypeOK
<1>6. Boots' BY <1>4, <1>5 DEF AloneInv, Boots, Booting, Idle, Rested
<1>7. Unborn' BY <1>4 DEF AloneInv, Unborn
<1>8. Clocked' BY <1>4, <1>5 DEF AloneInv, Clocked, Rested
<1>9. Asked' BY <1>4, <1>5 DEF AloneInv, Asked, NoReq
<1>10. StatusTruthful' /\ Settled' /\ Fresh' /\ FreshInHand'
  BY <1>3, <1>4, <1>5
  DEF AloneInv, Alone, StatusTruthful, Settled, Fresh, FreshInHand, Faultless
<1>. QED BY <1>1, <1>6, <1>7, <1>8, <1>9, <1>10 DEF AloneInv

\* A statement does not fail and work.
LEMMA FailsOrWorks ==
    ASSUME TypeOK, NEW p \in Panels, Fails(p)
    PROVE  ~Works(p)
<1>1. budget.faults \in Nat BY Numbers
<1>2. SpendFault => budget' # budget
  <2>1. SpendFault => budget'.faults = budget.faults - 1 BY DEF SpendFault, TypeOK
  <2>. QED BY <1>1, <2>1
<1>. QED BY <1>2 DEF Fails, Works

\* The ticker fires, and the due rows are listed.
LEMMA AloneLook ==
    ASSUME AloneInv, Alone, NEW p \in Panels, Ticker(p) \/ List(p)
    PROVE  AloneInv'
<1>1. SInv' BY LookKeeps DEF AloneInv
<1>2. TypeOK /\ loop \in [Panels -> Loops] BY DEF AloneInv, SInv, TypeOK
<1>3. /\ UNCHANGED <<row, clock, mode, busy, workers, launched, boot, req>>
      /\ \A q \in Panels \ {p} : loop'[q] = loop[q]
      /\ loop[p].at \in {"idle", "list"}
  BY <1>2 DEF Ticker, List
<1>4. /\ boot[p] \in Nat /\ clock \in Nat /\ row.next \in Nat /\ loop[p].now \in Nat
      /\ boot[p] <= clock /\ (loop[p].at = "list" => boot[p] <= loop[p].now)
  BY <1>2, Numbers DEF AloneInv, Clocked
<1>5. Faultless' => budget' = budget BY <1>2, FailureShows DEF Ticker, List, Works
<1>6. \/ loop'[p] = Rested /\ (Faultless' /\ mode[p] = "on" => ~Due(loop[p].now))
      \/ loop'[p].at = "list" /\ ~loop'[p].startup /\ loop'[p].now = clock /\ loop[p].at = "idle"
      \/ /\ loop[p].at = "list" /\ loop'[p].at = "claim" /\ Due(loop[p].now)
         /\ loop'[p].key = Key(row) /\ loop'[p].now = loop[p].now
         /\ loop'[p].startup = loop[p].startup
  <2>1. CASE Ticker(p) BY <1>2, <2>1 DEF Ticker, Loops
  <2>2. CASE List(p) /\ loop'[p] = Rested
    <3>1. ASSUME Faultless', mode[p] = "on", Due(loop[p].now) PROVE FALSE
      <4>1. ~Fails(p) BY <1>2, <3>1, FailureShows
      <4>2. loop'[p].at = "claim" BY <1>2, <2>2, <3>1, <4>1 DEF List, Loops
      <4>. QED BY <2>2, <4>2 DEF Rested
    <3>. QED BY <2>2, <3>1
  <2>3. CASE List(p) /\ loop'[p] # Rested
    <3>1. Due(loop[p].now) /\ loop[p].at = "list"
          /\ loop'[p] = [loop[p] EXCEPT !.at = "claim", !.key = Key(row), !.cron = row.cron]
      BY <1>2, <2>3 DEF List
    <3>. QED BY <1>2, <3>1 DEF Loops
  <2>. QED BY <2>1, <2>2, <2>3
<1>7. Boots' BY <1>3, <1>6 DEF AloneInv, Boots, Booting, Idle, Rested
<1>8. Unborn' BY <1>3 DEF AloneInv, Unborn
<1>9. Clocked' BY <1>3, <1>4, <1>6 DEF AloneInv, Clocked, Rested, Due, Key
<1>10. Asked' BY <1>3 DEF AloneInv, Asked
<1>11. StatusTruthful'
  <2>1. \A q \in Panels : q = p BY DEF Alone
  <2>2. \A q \in Panels : loop[q].at # "recover" BY <1>3, <2>1
  <2>. QED BY <1>3, <1>5, <2>2 DEF AloneInv, StatusTruthful, Faultless
<1>12. Settled' BY <1>3, <1>5 DEF AloneInv, Settled, Faultless
<1>13. Fresh'
  <2>1. SUFFICES ASSUME Faultless', mode[p] = "on", row.here, row.on, row.next # 0,
                        ~(row.next > boot[p])
                 PROVE  loop'[p].at = "claim" /\ loop'[p].startup /\ Key(row) = loop'[p].key
    BY <1>3 DEF Alone, Fresh
  <2>2. loop[p].at = "list" /\ loop[p].startup
    <3>1. Faultless BY <1>5, <2>1 DEF Faultless
    <3>2. loop[p].at \notin {"recover", "claim"} BY <1>3
    <3>. QED BY <2>1, <3>1, <3>2 DEF AloneInv, Fresh
  <2>3. Due(loop[p].now) BY <1>4, <2>1, <2>2 DEF Due
  <2>. QED BY <1>6, <2>1, <2>2, <2>3
<1>14. FreshInHand' BY <1>3, <1>6 DEF Alone, FreshInHand, Rested
<1>. QED BY <1>1, <1>7, <1>8, <1>9, <1>10, <1>11, <1>12, <1>13, <1>14 DEF AloneInv

\* The claim moves the task's next run past the tick.
LEMMA AloneClaim ==
    ASSUME AloneInv, Alone, NEW p \in Panels, Claim(p)
    PROVE  AloneInv'
<1>1. SInv' BY ClaimKeeps DEF AloneInv
<1>2. TypeOK /\ loop \in [Panels -> Loops] /\ busy \in [Panels -> BOOLEAN] /\ row \in Rows
  BY DEF AloneInv, SInv, TypeOK
<1> DEFINE l == loop[p]
           won == Works(p) /\ row.here /\ row.on /\ Key(row) = l.key
<1>3. /\ UNCHANGED <<clock, mode, workers, launched, boot, req>> /\ l.at = "claim"
      /\ \A q \in Panels \ {p} : loop'[q] = loop[q] /\ busy'[q] = busy[q]
  BY <1>2 DEF Claim
<1>4. /\ boot[p] \in Nat /\ row.next \in Nat /\ l.now \in Times /\ l.now \in Nat
      /\ l.key.at \in Nat /\ boot[p] <= l.now /\ l.key.at > 0
  BY <1>2, <1>3, Numbers DEF AloneInv, Clocked
<1>5. Faultless' => budget' = budget BY <1>2, FailureShows DEF Claim, Works
<1>6. \/ /\ ~won /\ loop'[p] = Rested /\ row' = row /\ busy'[p] = busy[p]
         /\ Faultless' /\ mode[p] = "on" => ~(row.here /\ row.on /\ Key(row) = l.key)
      \/ /\ won /\ row' = [row EXCEPT !.next = NextRun[l.cron][l.now]]
         /\ \/ loop'[p] = Rested /\ busy'[p] = busy[p]
            \/ /\ loop'[p] = [l EXCEPT !.at = Claimed(l)]
               /\ busy'[p] = (busy[p] \/ ~l.startup)
  <2>1. CASE Fails(p) /\ loop' = [loop EXCEPT ![p] = Rested] /\ UNCHANGED <<row, busy>>
    <3>1. ~Works(p) BY <1>2, <2>1, FailsOrWorks
    <3>2. ~(Faultless' /\ mode[p] = "on") BY <1>2, <2>1, FailureShows
    <3>. QED BY <1>2, <2>1, <3>1, <3>2
  <2>2. CASE /\ Works(p) /\ ~(row.here /\ row.on /\ Key(row) = l.key)
             /\ loop' = [loop EXCEPT ![p] = Rested] /\ UNCHANGED <<row, busy>>
    BY <1>2, <2>2
  <2>3. CASE /\ won /\ row' = [row EXCEPT !.next = NextRun[l.cron][l.now]]
             /\ loop' = [loop EXCEPT ![p] = IF busy[p] THEN Rested
                                            ELSE [l EXCEPT !.at = Claimed(l)]]
             /\ busy' = [busy EXCEPT ![p] = @ \/ ~l.startup]
    <3>1. busy'[p] = (busy[p] \/ ~l.startup) BY <1>2, <2>3
    <3>2. CASE busy[p] BY <1>2, <2>3, <3>1, <3>2
    <3>3. CASE ~busy[p] BY <1>2, <2>3, <3>1, <3>3
    <3>. QED BY <3>2, <3>3
  <2>. QED BY <2>1, <2>2, <2>3 DEF Claim
<1>7. Claimed(l) = (IF l.startup THEN "skip" ELSE "record") BY DEF Claimed
<1>8. /\ row'.here = row.here /\ row'.on = row.on /\ row'.ver = row.ver
      /\ row'.status = row.status
      /\ won => row'.next \in Nat /\ row'.next > l.now
      /\ ~won => row' = row
  <2>1. l.cron \in Crons BY <1>3 DEF AloneInv, SInv, Listed
  <2>2. NextRun[l.cron][l.now] \in Nat /\ NextRun[l.cron][l.now] > l.now
    BY <1>4, <2>1, NextIsLater
  <2>. QED BY <1>2, <1>6, <2>2 DEF Rows
<1>9. \/ loop'[p] = Rested
      \/ /\ won /\ loop'[p].startup = l.startup /\ loop'[p].key = l.key /\ loop'[p].now = l.now
         /\ loop'[p].at = (IF l.startup THEN "skip" ELSE "record")
         /\ busy'[p] = (busy[p] \/ ~l.startup)
  BY <1>2, <1>6, <1>7 DEF Loops
<1>10. Boots'
  <2>1. ASSUME Booting(p)' PROVE Booting(p) /\ ~busy'[p]
    <3>1. loop'[p] # Rested BY <2>1 DEF Booting, Rested
    <3>2. l.startup
      <4>1. loop'[p].at # "recover" BY <1>9, <3>1
      <4>. QED BY <1>9, <2>1, <3>1, <4>1 DEF Booting
    <3>3. Booting(p) /\ ~busy[p] BY <3>2 DEF AloneInv, Boots, Booting
    <3>. QED BY <1>9, <3>1, <3>2, <3>3
  <2>2. (loop'[p].at = "skip" => loop'[p].startup) /\ loop'[p].at # "recover"
    BY <1>9 DEF Rested
  <2>. QED BY <1>3, <2>1, <2>2 DEF AloneInv, Boots, Booting, Idle
<1>11. Unborn'
  <2>1. won => row.ver # 0
    <3>1. won => row.here OBVIOUS
    <3>. QED BY <1>4, <3>1, <1>2, Numbers DEF AloneInv, Unborn
  <2>. QED BY <1>3, <1>8, <2>1 DEF AloneInv, Unborn
<1>12. Clocked' BY <1>3, <1>4, <1>9 DEF AloneInv, Clocked, Rested
<1>13. Asked' BY <1>3 DEF AloneInv, Asked
<1>14. StatusTruthful'
  <2>1. \A q \in Panels : loop[q].at # "recover" BY <1>3 DEF Alone
  <2>. QED BY <1>3, <1>5, <1>8, <2>1 DEF AloneInv, StatusTruthful, Faultless
<1>15. Settled' BY <1>3, <1>5, <1>8 DEF AloneInv, Settled, Faultless
<1>16. Fresh'
  <2>1. SUFFICES ASSUME Faultless', mode[p] = "on", row.here, row.on, row'.next # 0
                 PROVE  row'.next > boot[p]
    BY <1>3, <1>8 DEF Alone, Fresh
  <2>2. CASE won BY <1>4, <1>8, <2>2
  <2>3. CASE ~won
    <3>1. Key(row) # l.key /\ row' = row BY <1>6, <2>1, <2>3
    <3>. QED BY <1>3, <1>5, <2>1, <3>1 DEF AloneInv, Fresh, Faultless
  <2>. QED BY <2>2, <2>3
<1>17. FreshInHand'
  <2>1. SUFFICES ASSUME Faultless', mode[p] = "on", loop'[p].at = "record"
                 PROVE  loop'[p].key.at > boot[p]
    BY <1>3 DEF Alone, FreshInHand
  <2>2. won /\ loop'[p].key = l.key /\ ~l.startup BY <1>9, <2>1 DEF Rested
  <2>3. row.next = l.key.at BY <2>2 DEF Key
  <2>4. row.next > boot[p]
    BY <1>3, <1>4, <1>5, <2>1, <2>2, <2>3 DEF AloneInv, Fresh, Faultless
  <2>. QED BY <2>2, <2>3, <2>4
<1>. QED BY <1>1, <1>10, <1>11, <1>12, <1>13, <1>14, <1>15, <1>16, <1>17 DEF AloneInv

\* A run of the first tick is skipped.
LEMMA AloneSkip ==
    ASSUME AloneInv, Alone, NEW p \in Panels, Skip(p)
    PROVE  AloneInv'
<1>1. SInv' BY SkipKeeps DEF AloneInv
<1>2. TypeOK /\ loop \in [Panels -> Loops] BY DEF AloneInv, SInv, TypeOK
<1>3. /\ loop[p].at = "skip" /\ loop'[p] = Rested
      /\ \A q \in Panels \ {p} : loop'[q] = loop[q]
      /\ UNCHANGED <<clock, mode, busy, workers, launched, boot, req>>
  BY <1>2 DEF Skip
<1>4. /\ row'.here = row.here /\ row'.on = row.on /\ row'.next = row.next /\ row'.ver = row.ver
      /\ row'.status \in {row.status, "skipped"} /\ (Faultless' => budget' = budget)
  BY <1>2, FailureShows DEF Skip, SetStatus, Works, TypeOK, Rows
<1>5. Idle(p) BY <1>3 DEF AloneInv, Boots, Booting
<1>6. Boots' BY <1>3 DEF AloneInv, Boots, Booting, Idle, Rested
<1>7. Unborn' BY <1>3, <1>4 DEF AloneInv, Unborn
<1>8. Clocked' BY <1>3 DEF AloneInv, Clocked, Rested
<1>9. Asked' BY <1>3 DEF AloneInv, Asked
<1>10. StatusTruthful'
  BY <1>3, <1>4, <1>5 DEF AloneInv, Alone, StatusTruthful, Faultless, Idle
<1>11. Settled' BY <1>3, <1>4 DEF AloneInv, Settled, Faultless
<1>12. Fresh'
  BY <1>3, <1>4 DEF AloneInv, Alone, Fresh, Faultless
<1>13. FreshInHand' BY <1>3 DEF Alone, FreshInHand, Rested
<1>. QED BY <1>1, <1>6, <1>7, <1>8, <1>9, <1>10, <1>11, <1>12, <1>13 DEF AloneInv

\* The start of a run is recorded, and its worker begins.
LEMMA AloneRecord ==
    ASSUME AloneInv, Alone, NEW p \in Panels, Record(p)
    PROVE  AloneInv'
<1>1. SInv' BY RecordKeeps DEF AloneInv
<1>2. TypeOK /\ loop \in [Panels -> Loops] /\ busy \in [Panels -> BOOLEAN]
  BY DEF AloneInv, SInv, TypeOK
<1>3. /\ loop[p].at = "record" /\ loop'[p] = Rested
      /\ \A q \in Panels \ {p} : loop'[q] = loop[q] /\ busy'[q] = busy[q]
      /\ UNCHANGED <<clock, mode, boot, req>>
  BY <1>2 DEF Record
<1>4. busy[p] /\ Idle(p) BY <1>3 DEF AloneInv, SInv, InHand
<1>5. Faultless' => budget' = budget BY <1>2, FailureShows DEF Record, Works
<1> DEFINE n == Cardinality(launched) + 1
           v == [n |-> n, panel |-> p, left |-> Steps, out |-> "none"]
<1>6. \/ /\ ~(Faultless' /\ mode[p] = "on") /\ UNCHANGED <<row, workers, launched>>
      \/ /\ mode[p] = "on" /\ SetStatus("running") /\ workers' = workers \union {v}
         /\ launched' = launched \union {[n |-> n, panel |-> p, key |-> loop[p].key]}
  BY <1>2, FailureShows DEF Record, Works
<1>7. v.panel = p /\ v.out = "none" OBVIOUS
<1> HIDE DEF v
<1>8. /\ row'.here = row.here /\ row'.on = row.on /\ row'.next = row.next /\ row'.ver = row.ver
      /\ row'.here /\ row' # row => row'.status = "running"
      /\ SetStatus("running") /\ row.here => row'.status = "running"
  BY <1>2, <1>6 DEF SetStatus, TypeOK, Rows
<1>9. Boots' BY <1>3, <1>4 DEF Alone, Boots, Booting, Rested
<1>10. Unborn' BY <1>6, <1>8 DEF AloneInv, Unborn
<1>11. Clocked' BY <1>3 DEF AloneInv, Clocked, Rested
<1>12. Asked' BY <1>3 DEF AloneInv, Asked
<1>13. StatusTruthful'
  <2>1. CASE ~(Faultless' /\ mode[p] = "on")
    BY <1>3, <2>1 DEF Alone, StatusTruthful, Faultless
  <2>2. CASE Faultless' /\ mode[p] = "on"
    <3>1. SetStatus("running") /\ v \in workers' BY <1>6, <2>2
    <3>. QED BY <1>3, <1>7, <1>8, <3>1 DEF Alone, StatusTruthful
  <2>. QED BY <2>1, <2>2
<1>14. Settled'
  <2>1. \A w \in workers : w.panel \in Panels BY <1>2 DEF TypeOK, Runs
  <2>2. workers = {} BY <1>4, <2>1 DEF Alone, Idle
  <2>. QED BY <1>6, <1>7, <2>2 DEF Settled
<1>15. Fresh' BY <1>3, <1>5, <1>8 DEF AloneInv, Alone, Fresh, Faultless
<1>16. FreshInHand' BY <1>3 DEF Alone, FreshInHand, Rested
<1>. QED BY <1>1, <1>9, <1>10, <1>11, <1>12, <1>13, <1>14, <1>15, <1>16 DEF AloneInv

\* A worker goes on, writes its result or is released.
LEMMA AloneWorker ==
    ASSUME AloneInv, Alone, NEW w \in workers, WorkerStep(w)
    PROVE  AloneInv'
<1>1. SInv' BY WorkerKeeps DEF AloneInv
<1>2. TypeOK /\ w \in Runs /\ w.panel \in Panels /\ workers \subseteq Runs
      /\ busy \in [Panels -> BOOLEAN]
  BY DEF AloneInv, SInv, TypeOK, Runs
<1>3. \A u \in workers : u = w
  <2>1. \A u \in workers : u.panel = w.panel BY <1>2 DEF Alone, Runs
  <2>. QED BY <2>1 DEF AloneInv, SInv, NoOverlap
<1> DEFINE p == w.panel
<1>4. UNCHANGED <<clock, mode, loop, launched, boot, req>>
  BY DEF WorkerStep, ActionDone, ActionFails, Finish, Release
<1>5. /\ row'.here = row.here /\ row'.on = row.on /\ row'.next = row.next /\ row'.ver = row.ver
  BY <1>2 DEF WorkerStep, ActionDone, ActionFails, Finish, Release, SetStatus, TypeOK, Rows
<1>6. \/ /\ UNCHANGED <<row, busy, budget>> /\ w.out = "none"
         /\ \E v \in Runs : workers' = {v} /\ v.panel = p /\ v.out \in {"none", "success", "failed"}
      \/ /\ busy' = busy /\ w.out \in {"success", "failed"}
         /\ \E v \in Runs : workers' = {v} /\ v.panel = p /\ v.out = "written"
         /\ Faultless' => budget' = budget /\ (row.here => row'.status = w.out)
      \/ /\ UNCHANGED <<row, budget>> /\ w.out = "written" /\ workers' = {}
         /\ busy' = [busy EXCEPT ![p] = FALSE]
  <2>1. CASE ActionDone(w)
    <3> DEFINE v == [w EXCEPT !.left = @ - 1, !.out = IF w.left = 1 THEN "success" ELSE "none"]
    <3>1. workers' = {v} /\ w.out = "none" BY <1>3, <2>1 DEF ActionDone, Becomes
    <3>2. v.panel = p /\ v.out \in {"none", "success"} BY <1>2 DEF Runs
    <3>3. v \in Runs BY <1>1, <3>1 DEF SInv, TypeOK
    <3> HIDE DEF v
    <3>. QED BY <2>1, <3>1, <3>2, <3>3 DEF ActionDone
  <2>2. CASE ActionFails(w)
    <3> DEFINE v == [w EXCEPT !.out = "failed"]
    <3>1. workers' = {v} /\ w.out = "none" BY <1>3, <2>2 DEF ActionFails, Becomes
    <3>2. v.panel = p /\ v.out = "failed" /\ v \in Runs BY <1>2 DEF Runs
    <3> HIDE DEF v
    <3>. QED BY <2>2, <3>1, <3>2 DEF ActionFails
  <2>3. CASE Finish(w)
    <3> DEFINE v == [w EXCEPT !.out = "written"]
    <3>1. workers' = {v} /\ w.out \in {"success", "failed"} BY <1>3, <2>3 DEF Finish, Becomes
    <3>2. v.panel = p /\ v.out = "written" /\ v \in Runs BY <1>2 DEF Runs
    <3> HIDE DEF v
    <3>3. Faultless' => SetStatus(w.out) /\ budget' = budget BY <1>2, <2>3, FaultShows DEF Finish
    <3>4. SetStatus(w.out) /\ row.here => row'.status = w.out
      BY <1>2 DEF SetStatus, TypeOK, Rows
    <3>5. busy' = busy BY <2>3 DEF Finish
    <3>. QED BY <3>1, <3>2, <3>3, <3>4, <3>5
  <2>4. CASE Release(w)
    <3>1. workers' = {} BY <1>3, <2>4 DEF Release
    <3>. QED BY <2>4, <3>1 DEF Release
  <2>. QED BY <2>1, <2>2, <2>3, <2>4 DEF WorkerStep
<1>7. Faultless' => budget' = budget BY <1>6
<1>8. ~Booting(p) BY <1>2 DEF AloneInv, Boots, Idle
<1>9. Boots' BY <1>2, <1>4, <1>8 DEF AloneInv, Alone, Boots, Booting
<1>10. Unborn'
  <2>1. launched' = {} => workers' = {} BY <1>4 DEF AloneInv, Unborn
  <2>. QED BY <1>5, <2>1 DEF AloneInv, Unborn
<1>11. Clocked' /\ Asked' BY <1>4 DEF AloneInv, Clocked, Asked
<1>12. StatusTruthful'
  <2>1. SUFFICES ASSUME Faultless', row.here, mode[p] = "on", loop[p].at # "recover"
                 PROVE  row'.status = "running"
                           <=> \E u \in workers' : u.panel = p /\ u.out # "written"
    BY <1>2, <1>4, <1>5 DEF Alone, StatusTruthful, Faultless
  <2>2. row.status = "running" <=> w.out # "written"
    BY <1>2, <1>3, <1>7, <2>1 DEF AloneInv, StatusTruthful, Faultless
  <2>. QED BY <1>6, <2>1, <2>2
<1>13. Settled'
  <2>1. w.out = "none" \/ w.out \in {"success", "failed"} \/ w.out = "written" BY <1>6
  <2>. QED BY <1>5, <1>6, <2>1 DEF Settled
<1>14. Fresh' /\ FreshInHand'
  BY <1>4, <1>5, <1>7 DEF AloneInv, Fresh, FreshInHand, Faultless, Key
<1>. QED BY <1>1, <1>9, <1>10, <1>11, <1>12, <1>13, <1>14 DEF AloneInv

\* A request reads the task and computes its next run, or deletes it.
LEMMA AloneAsk ==
    ASSUME AloneInv, Alone, NEW c \in Clients, NEW p \in Panels, Ask(c, p)
    PROVE  AloneInv'
<1>1. SInv' BY AskKeeps DEF AloneInv
<1>2. TypeOK /\ row \in Rows /\ req \in [Clients -> Reqs] /\ clock \in Times /\ clock \in Nat
      /\ boot[p] \in Nat /\ boot[p] <= clock
  BY Numbers DEF AloneInv, SInv, TypeOK, Clocked
<1>3. /\ UNCHANGED <<clock, mode, loop, busy, workers, launched, boot>>
      /\ mode[p] # "off" /\ budget'.faults = budget.faults
  BY <1>2 DEF Ask, CreateAsk, UpdateAsk, SetEnabledAsk, Asks, Delete, SpendEdit, TypeOK
<1>4. /\ row'.on = row.on /\ row'.next = row.next /\ row'.ver = row.ver
      /\ row'.status = row.status /\ (row'.here => row.here)
  BY <1>2 DEF Ask, CreateAsk, UpdateAsk, SetEnabledAsk, Asks, Delete, Rows
<1>5. Boots' /\ Clocked' BY <1>3 DEF AloneInv, Boots, Booting, Idle, Clocked
<1>6. Unborn' BY <1>3, <1>4 DEF AloneInv, Unborn
<1>7. Asked'
  <2>1. CASE Delete(c, p) BY <1>3, <2>1 DEF AloneInv, Asked, Delete
  <2>2. ASSUME NEW op, NEW cron \in Crons, NEW on \in BOOLEAN, Asks(c, p, op, cron, on)
        PROVE  Asked'
    <3> DEFINE r == [op |-> op, panel |-> p, cron |-> cron, on |-> on,
                     next |-> IF on THEN NextRun[cron][clock] ELSE 0]
    <3>1. NextRun[cron][clock] \in Nat /\ NextRun[cron][clock] > clock
      BY <1>2, NextIsLater
    <3>2. r.panel = p /\ (r.next = 0 \/ r.next > boot[p]) BY <1>2, <3>1
    <3>3. req' = [req EXCEPT ![c] = r] BY <2>2 DEF Asks
    <3> HIDE DEF r
    <3>. QED BY <1>2, <1>3, <3>2, <3>3 DEF AloneInv, Asked
  <2>3. CASE CreateAsk(c, p) BY <2>2, <2>3 DEF CreateAsk
  <2>4. CASE UpdateAsk(c, p) BY <2>2, <2>4 DEF UpdateAsk
  <2>5. CASE SetEnabledAsk(c, p)
    <3>1. row.cron \in Crons BY <2>5 DEF SetEnabledAsk, AloneInv, SInv, Saved
    <3>. QED BY <2>2, <2>5, <3>1 DEF SetEnabledAsk
  <2>. QED BY <2>1, <2>3, <2>4, <2>5 DEF Ask
<1>8. StatusTruthful' /\ Settled' /\ FreshInHand'
  BY <1>3, <1>4 DEF AloneInv, StatusTruthful, Settled, FreshInHand, Faultless
<1>9. Fresh' BY <1>3, <1>4 DEF AloneInv, Fresh, Faultless, Key
<1>. QED BY <1>1, <1>5, <1>6, <1>7, <1>8, <1>9 DEF AloneInv

\* A request writes what it has computed: the next run is after the process started.
LEMMA AloneWrite ==
    ASSUME AloneInv, Alone, NEW c \in Clients, Write(c)
    PROVE  AloneInv'
<1>1. SInv' BY WriteKeeps DEF AloneInv
<1>2. TypeOK /\ row \in Rows /\ req \in [Clients -> Reqs] /\ row.ver \in Nat
  BY Numbers DEF AloneInv, SInv, TypeOK
<1>3. /\ req' = [req EXCEPT ![c] = NoReq] /\ req[c].op # "none"
      /\ UNCHANGED <<clock, mode, loop, busy, workers, launched, boot, budget>>
  BY DEF Write, CreateWrite, UpdateWrite, SetEnabledWrite, Answered
<1> DEFINE p == req[c].panel
<1>4. p \in Panels /\ mode[p] # "off" /\ (req[c].next = 0 \/ req[c].next > boot[p])
  BY <1>3 DEF AloneInv, Asked
<1>5. \/ row' = row
      \/ /\ row.ver = 0 /\ row'.status = "" /\ row'.ver = 1 /\ row'.next = req[c].next
      \/ /\ row.here /\ row'.status = row.status /\ row'.ver = row.ver + 1
         /\ row'.next = req[c].next
  <2>1. CASE CreateWrite(c) BY <1>2, <2>1 DEF CreateWrite
  <2>2. CASE UpdateWrite(c)
    <3>1. CASE ~row.here BY <2>2, <3>1 DEF UpdateWrite
    <3>2. CASE row.here
      <4>1. row' = [row EXCEPT !.on = req[c].on, !.cron = req[c].cron,
                               !.next = req[c].next, !.ver = row.ver + 1]
        BY <2>2, <3>2 DEF UpdateWrite
      <4>. QED BY <1>2, <3>2, <4>1 DEF Rows
    <3>. QED BY <3>1, <3>2
  <2>3. CASE SetEnabledWrite(c)
    <3>1. CASE ~row.here BY <2>3, <3>1 DEF SetEnabledWrite
    <3>2. CASE row.here
      <4>1. row' = [row EXCEPT !.on = req[c].on, !.next = req[c].next, !.ver = row.ver + 1]
        BY <2>3, <3>2 DEF SetEnabledWrite
      <4>. QED BY <1>2, <3>2, <4>1 DEF Rows
    <3>. QED BY <3>1, <3>2
  <2>. QED BY <2>1, <2>2, <2>3 DEF Write
<1>6. row.ver = 0 => workers = {} BY UnbornIsUnused DEF AloneInv
<1>7. Boots' /\ Clocked' BY <1>3 DEF AloneInv, Boots, Booting, Idle, Clocked
<1>8. Unborn'
  <2>1. CASE row' = row BY <1>3, <2>1 DEF AloneInv, Unborn
  <2>2. CASE row'.ver = 1 \/ row'.ver = row.ver + 1
    <3>1. row'.ver > 0 /\ row'.ver # 0 BY <1>2, <2>2
    <3>. QED BY <1>3, <3>1 DEF AloneInv, Unborn
  <2>. QED BY <1>5, <2>1, <2>2
<1>9. Asked' BY <1>2, <1>3 DEF AloneInv, Asked, NoReq
<1>10. StatusTruthful' BY <1>3, <1>5, <1>6 DEF AloneInv, StatusTruthful, Faultless
<1>11. Settled' BY <1>3, <1>5, <1>6 DEF AloneInv, Settled, Faultless
<1>12. Fresh'
  <2>1. \A q \in Panels : q = p BY <1>4 DEF Alone
  <2>2. CASE row' = row BY <1>3, <2>2 DEF AloneInv, Fresh, Faultless
  <2>3. CASE row'.next = req[c].next BY <1>3, <1>4, <2>1, <2>3 DEF Fresh
  <2>. QED BY <1>5, <2>2, <2>3
<1>13. FreshInHand' BY <1>3 DEF AloneInv, FreshInHand, Faultless
<1>. QED BY <1>1, <1>7, <1>8, <1>9, <1>10, <1>11, <1>12, <1>13 DEF AloneInv

\* Time passes.
LEMMA AloneClock ==
    ASSUME AloneInv, Alone, ClockTick \/ UNCHANGED vars
    PROVE  AloneInv'
<1>1. SInv' BY ClockKeeps DEF AloneInv
<1>2. TypeOK BY DEF AloneInv, SInv
<1>3. /\ UNCHANGED <<row, mode, loop, busy, workers, launched, boot, req, budget>>
      /\ clock' \in {clock, clock + 1}
  BY DEF ClockTick, vars
<1>4. Clocked' BY <1>2, <1>3, Numbers DEF AloneInv, Clocked
<1>5. Boots' /\ Unborn' /\ Asked' BY <1>3 DEF AloneInv, Boots, Booting, Idle, Unborn, Asked
<1>6. StatusTruthful' /\ Settled' /\ Fresh' /\ FreshInHand'
  BY <1>3 DEF AloneInv, StatusTruthful, Settled, Fresh, FreshInHand, Faultless
<1>. QED BY <1>1, <1>4, <1>5, <1>6 DEF AloneInv

\* It holds when the panel starts.
LEMMA AloneInit == Init => AloneInv
<1> SUFFICES ASSUME Init PROVE AloneInv OBVIOUS
<1>1. SInv BY InitInv
<1>2. /\ \A p \in Panels : loop[p].at = "idle" /\ ~loop[p].startup /\ boot[p] = 0
      /\ \A p \in Panels : mode[p] = "off"
      /\ \A c \in Clients : req[c].op = "none"
      /\ workers = {} /\ launched = {} /\ clock = 0
  BY DEF Init, Rested, NoReq
<1>3. (row.here => row.ver > 0) /\ (row.ver = 0 => row.next = 0)
  <2>1. CASE row = NoRow BY <2>1 DEF NoRow
  <2>2. ASSUME NEW c \in Crons, NEW s \in {"", "running"},
               row = [here |-> TRUE, on |-> TRUE, cron |-> c, next |-> NextRun[c][0],
                      ver |-> 1, status |-> s]
        PROVE  row.ver = 1
    BY <2>2
  <2>3. CASE row.ver = 1 BY <2>3
  <2>. QED BY <2>1, <2>2, <2>3 DEF Init
<1>5. Boots /\ Unborn /\ Clocked /\ Asked
  BY <1>2, <1>3 DEF Boots, Booting, Idle, Unborn, Clocked, Asked
<1>6. StatusTruthful /\ Settled /\ Fresh /\ FreshInHand
  BY <1>2 DEF StatusTruthful, Settled, Fresh, FreshInHand
<1>. QED BY <1>1, <1>5, <1>6 DEF AloneInv

\* Every step of a panel alone on its database preserves it.
LEMMA AloneNext == Alone => (AloneInv /\ [Next]_vars => AloneInv')
<1> SUFFICES ASSUME Alone, AloneInv, [Next]_vars PROVE AloneInv' OBVIOUS
<1>1. ASSUME NEW p \in Panels, Process(p) \/ TickStep(p) PROVE AloneInv'
  BY <1>1, AloneStart, AloneRecover, AloneStop, AloneGone, AloneLook, AloneClaim, AloneSkip,
     AloneRecord DEF Process, TickStep
<1>2. ASSUME NEW w \in workers, WorkerStep(w) PROVE AloneInv' BY <1>2, AloneWorker
<1>3. ASSUME NEW c \in Clients, NEW p \in Panels, Ask(c, p) PROVE AloneInv' BY <1>3, AloneAsk
<1>4. ASSUME NEW c \in Clients, Write(c) PROVE AloneInv' BY <1>4, AloneWrite
<1>5. CASE ClockTick \/ UNCHANGED vars BY <1>5, AloneClock
<1>. QED BY <1>1, <1>2, <1>3, <1>4, <1>5 DEF Next

\* AloneInv is an invariant of a panel alone on its database.
LEMMA AloneInvariance ==
    ASSUME Alone
    PROVE  Spec => []AloneInv
<1>1. Init => AloneInv BY AloneInit
<1>2. AloneInv /\ [Next]_vars => AloneInv' BY AloneNext
<1>. QED BY <1>1, <1>2, PTL DEF Spec

\* A panel alone on its database shows a task as running exactly while a worker of it runs,
\* from its recovery to its Stop: whatever starts, edits, deletions, stops and crashes came
\* before, and as long as every statement was carried out (Recover, tick, run).
THEOREM StatusIsTruthful ==
    ASSUME Alone
    PROVE  Spec => []StatusTruthful
<1>1. AloneInv => StatusTruthful BY DEF AloneInv
<1>. QED BY <1>1, AloneInvariance, PTL

\* A run that fell due while the panel was down is never dispatched: the first tick claims it
\* and only skips it, and an edit between the listing and the claim cannot bring it back.
THEOREM MissedRunsAreSkipped ==
    ASSUME Alone
    PROVE  Spec => NoReplay
<1>1. AloneInv /\ [Next]_vars =>
        [budget.faults = MaxFaults =>
            \A l \in launched' \ launched : l.key.at > boot[l.panel]]_vars
  <2> SUFFICES ASSUME AloneInv, Next, budget.faults = MaxFaults, NEW l \in launched' \ launched
               PROVE  l.key.at > boot[l.panel]
    OBVIOUS
  <2>1. PICK p \in Panels : Record(p)
    BY DEF Next, Process, TickStep, WorkerStep, Write, Ask, ClockTick, Start, Recover, Stop,
           StopReturns, Crash, Gone, Ticker, List, Claim, Skip, ActionDone, ActionFails, Finish,
           Release, CreateWrite, UpdateWrite, SetEnabledWrite, Answered, CreateAsk, UpdateAsk,
           SetEnabledAsk, Asks, Delete
  <2>2. l.panel = p /\ l.key = loop[p].key /\ mode[p] = "on" /\ loop[p].at = "record"
    BY <2>1 DEF Record, Works
  <2>. QED BY <2>2 DEF AloneInv, FreshInHand, Faultless
<1>. QED BY <1>1, AloneInvariance, PTL DEF Spec, NoReplay

\* A panel that stops in order waits for its workers, whose results are written on a context
\* of their own: it leaves no run of its own recorded as running.
THEOREM OrderlyStopSettles ==
    ASSUME Alone
    PROVE  Spec => StopSettles
<1>1. AloneInv =>
        \A p \in Panels : budget.faults = MaxFaults /\ mode[p] = "stopping" /\ loop[p].at = "idle"
           /\ (\E w \in workers : w.panel = p /\ w.out = "written" /\ w \notin workers')
           => row.status # "running" \/ ~row.here
  BY DEF AloneInv, Settled, Faultless
<1>. QED BY <1>1, AloneInvariance, PTL DEF StopSettles
=============================================================================
