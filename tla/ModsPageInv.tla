------------------------------ MODULE ModsPageInv ------------------------------
(* The inductive invariant of ModsPage behind RestReportTruthful,               *)
(* UpgradeIsWhole and NotResurrected: who may be under way beside whom, what a  *)
(* check in flight and the caches still say of the jars, and what a report that *)
(* stays on the screen has to do with the list it was asked for.                *)
EXTENDS MCModsPage

Kinds == {"load", "check", "panel", "scan", "batch", "all", "jar", "backup", "one", "pick",
          "choose", "upload", "remove", "toggle"}
Stages == {"confirm", "backup", "put", "delete", "toggle", "apply", "install", "installed",
           "done"}
Scopes  == [items : SUBSET Jars, seen : Versions, target : Versions]
Reports == [scope : Scopes, of : Snapshots]
Histories == [overlap : BOOLEAN, failed : BOOLEAN, missed : SUBSET Mods]
IsFlow(f) ==
    f \in [id : {f.id}, kind : Kinds, mine : BOOLEAN, scope : Scopes \cup {None},
           at : Stages \cup {"list", "listed", "ask", "asked", "answered", "failed"},
           jar : Jars \cup {None}, old : {f.old}, got : Snapshots \cup {None},
           left : SUBSET Jars, kept : Snapshots \cup {None}, failed : BOOLEAN, force : BOOLEAN]

\* The variables that the argument is about keep their types.
TypeOK ==
    /\ disk \subseteq Jars /\ version \in Versions
    /\ cache \in [Keys -> Snapshots \cup {None}] /\ calls \in [Keys -> Snapshots \cup {None}]
    /\ tab \in Tabs /\ items \subseteq Jars /\ seen \in Versions /\ target \in Versions
    /\ report \in Reports \cup {None} /\ history \in Histories
    /\ \A f \in flows : IsFlow(f)

\* A handler works unless it only lists, checks or scans: only one that works changes
\* anything on the server.
Works(f) == f.kind \notin {"load", "check", "scan"} /\ ~f.force

\* What a handler holds at each of its awaits.
FlowOK(f) ==
    /\ f.at \in Stages => Works(f)
    /\ f.kind = "load" => f.at \in {"list", "listed", "failed"}
    /\ f.kind \notin {"load", "check"} => f.scope \in Scopes
    /\ f.at \in {"put", "delete"} => f.jar \in Jars
    /\ f.at = "confirm" /\ f.kind \notin {"batch", "panel", "all", "jar"} => f.jar \in Jars
    /\ f.at = "install" => f.kind \in {"all", "jar"}
    /\ f.at \in {"listed", "answered", "apply"} => f.got \in Snapshots
    /\ f.at \in {"answered", "apply"} /\ f.kind \notin {"check", "panel"} =>
         f.got.target = f.scope.target
    /\ f.at = "apply" => \A j \in f.left : Proposed(j.mod, f.got.target) \in Jars
    /\ f.got # None => f.got.missed \subseteq history.missed
    /\ f.at = "failed" => history.failed
    /\ f.kind = "all" /\ f.failed => f.at = "apply"
    /\ f.kind = "all" /\ ~f.force /\ f.at \in {"ask", "asked", "answered", "apply"} =>
         f.kept \in Snapshots
    /\ tab = "list" /\ f.kind \in Mounted => ~f.mine

\* The report is there with the helper only, every check in flight is waited for, and
\* a check of another version answers for that one.
ShapeInv ==
    /\ tab = "list" => report = None
    /\ \A k \in Keys : calls[k] # None => Waiting(k) # {}
    /\ \A k \in Versions : /\ cache[k] # None => cache[k].target = k
                           /\ calls[k] # None => calls[k].target = k
    /\ \A f \in flows : FlowOK(f)
    /\ \A k \in Keys : /\ cache[k] # None => cache[k].missed \subseteq history.missed
                       /\ calls[k] # None => calls[k].missed \subseteq history.missed
    /\ report # None => report.of.missed \subseteq history.missed

\* As long as no click came while a handler ran, one that works is alone, so that what
\* the checks found is what the server has, and a batch meets the jars it looks for.
Alone(fs) == \A f \in fs : Works(f) => fs = {f}
CalmFlow(f) ==
    /\ f.at \in {"listed", "answered"} => f.got.disk = disk
    /\ f.at = "apply" => \A j \in f.left : j \in disk /\ j # Proposed(j.mod, f.got.target)
    /\ f.failed => history.failed
    /\ f.kind = "all" /\ ~f.force =>
         /\ f.at \in {"ask", "asked", "answered"} => f.kept.disk = disk
         /\ f.at = "apply" => f.left \subseteq f.kept.disk
Picks(f) == f.kind \in {"pick", "choose"} /\ f.mine
CalmInv ==
    /\ \A k \in Keys : /\ cache[k] # None => cache[k].disk = disk
                       /\ calls[k] # None => calls[k].disk = disk
    /\ Alone(flows) /\ \A f \in flows : CalmFlow(f) /\ (picker # None => Picks(f))

\* And as long as nothing failed: the upgrade knows the jars, the list is right unless a
\* handler will ask for another, and a report tells of the jars as they are, or as they
\* are listed where it was asked for; only the latter while a handler may change them.
CanFit(j, v, missed) ==
    Proposed(j.mod, v) # None \/ Catalogue[j.mod] = "none" \/ j.mod \in missed
OrderlyFlow(f) ==
    f.kind = "all" /\ ~f.force =>
        /\ f.at \in {"confirm", "backup"} =>
             /\ f.got \in Snapshots /\ f.got.disk = disk /\ f.got.target = f.scope.target
             /\ Missing(f.got) = {}
        /\ f.at \in {"ask", "asked", "answered", "apply"} =>
             \A j \in disk : CanFit(j, f.scope.target, history.missed)
        /\ f.at = "apply" => \A j \in disk \ f.left : Fits(j, f.scope.target, history.missed)
        /\ f.at = "install" => \A j \in disk : Fits(j, f.scope.target, history.missed)
Dirty(f) == f.at \in {"list", "listed", "apply", "install", "installed", "done"}
Sure     == picker # None \/ \E f \in flows : Works(f)
OrderlyInv ==
    /\ \A f \in flows : OrderlyFlow(f)
    /\ (\A f \in flows : ~Dirty(f)) => items = disk
    /\ report # None =>
         /\ report.of.disk = disk \/ report.of.disk = report.scope.items
         /\ Sure => report.of.disk = report.scope.items

IInv ==
    /\ TypeOK /\ ShapeInv
    /\ ~history.overlap => CalmInv
    /\ ~history.overlap /\ ~history.failed => OrderlyInv
=============================================================================
