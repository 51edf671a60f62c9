------------------------------ MODULE ModsPage ------------------------------
(* The mods page of a server (web/src/components): the list and the updates of *)
(* ModsPanel, the move to another version of the game by VersionUpdateHelper,  *)
(* ModJarPickerDialog, and the API they call (internal/servers/updates.go),    *)
(* which caches and shares its checks. A handler is a flow; over its awaits it *)
(* keeps the props of the render that created it.                              *)
EXTENDS Integers, FiniteSets

CONSTANTS Mods, Versions,
          First, Current, \* the newest version of the game, and the one installed
          Available,      \* Available[m]: the versions that a release of m is for
          Catalogue,      \* Catalogue[m]: where m is looked up
          Newest,         \* Newest[m]: the version that its newest release is for
          Installed,      \* the jars that may be there at the beginning
          None,
          MaxFlows,       \* bound: handlers under way when another starts
          MaxInputs,      \* bound: clicks
          MaxFails        \* bound: requests that fail

Jar(m, v) == [mod |-> m, for |-> v]
Jars == UNION {{Jar(m, v) : v \in Available[m]} : m \in Mods}
\* What a check read, what it was for, and the mods whose lookup failed in it.
Snapshots == [disk : SUBSET Jars, version : Versions, target : Versions,
              missed : SUBSET Mods]

ASSUME ModsPageAssumption ==
    /\ {First, Current} \subseteq Versions /\ "now" \notin Versions
    /\ \A m \in Mods : /\ Available[m] \subseteq Versions /\ Newest[m] \in Available[m]
                       /\ Catalogue[m] \in {"modrinth", "curseforge", "hangar", "none"}
    /\ Installed \subseteq SUBSET Jars /\ None \notin Jars \cup Snapshots

VARIABLES
    disk, version,          \* the server: its jars and its software
    cache, calls,           \* what the checks found last; the checks in flight
    tab, items, updates,    \* ModsPanel
    seen,                   \* the prop server.version
    target, report, picker, \* VersionUpdateHelper and the picker
    busy,                   \* the flags of both, which make the buttons spin
    flows,                  \* handlers that have not returned
    history, budget

vars == <<disk, version, cache, calls, tab, items, updates, seen, target, report, picker,
          busy, flows, history, budget>>
server == <<disk, version, cache, calls>>
page   == <<tab, items, updates, seen, target, report, picker>>

Now    == "now"                  \* the key of CheckModUpdates; of the other, the target
Tabs   == {"list", "helper"}     \* the tabs of ModsPanel itself; its version helper
Keys   == Versions \cup {Now}
Helper == {"scan", "batch", "all", "jar", "backup"}   \* its flags, and the flows they
Mounted == Helper \cup {"one", "pick"}                \* belong to, end with its mount

-----------------------------------------------------------------------------
(* What a check finds in the jars it read. Modrinth and CurseForge are asked    *)
(* for the releases for a version, Hangar (and Spiget, which is asked the same) *)
(* for the newest release, whatever it is for; a jar of no catalogue is         *)
(* "untracked". A lookup that fails leaves the mod not_available, or untracked  *)
(* when it was Modrinth's, and the report is ready in spite of the untracked.   *)

Snapshot(key) == [disk |-> disk, version |-> version,
                  target |-> IF key = Now THEN version ELSE key, missed |-> {}]
Filters == {"modrinth", "curseforge"}
Proposed(m, v) ==
    CASE Catalogue[m] = "hangar"                         -> Jar(m, Newest[m])
      [] Catalogue[m] \in Filters /\ v \in Available[m] -> Jar(m, v)
      [] OTHER                                           -> None
Updates(s) == {j \in s.disk : /\ j.mod \notin s.missed
                              /\ Proposed(j.mod, s.target) \notin {None, j}}
Missing(s) == {j \in s.disk :
                 \/ j.mod \notin s.missed /\ Catalogue[j.mod] \in Filters
                    /\ Proposed(j.mod, s.target) = None
                 \/ j.mod \in s.missed /\ Catalogue[j.mod] \in {"curseforge", "hangar"}}
Ready(s)   == Missing(s) = {}

\* reportScope, and whether the report on the screen is the one for it.
Scope == [items |-> items, seen |-> seen, target |-> target]
\* Variant: the report stays for another list of mods.
ShownForTarget == tab = "helper" /\ report # None /\ report.of.target = target
Shown == /\ tab = "helper" /\ report # None /\ report.scope = Scope
         /\ report.of.target = target /\ report.of.version = seen

Quiet   == flows = {}
Covered == picker # None \/ \E f \in flows : f.at = "confirm"
Fails   == budget.fails > 0 /\ budget' = [budget EXCEPT !.fails = @ - 1]
Click   == /\ budget.inputs > 0 /\ budget' = [budget EXCEPT !.inputs = @ - 1]
           /\ history' = [history EXCEPT !.overlap = @ \/ ~Quiet]

Id(fs) == CHOOSE i \in 1..(2 * MaxFlows) : \A f \in fs : f.id # i
New(kind, at) == [id |-> Id(flows), kind |-> kind, at |-> at, mine |-> TRUE, scope |-> Scope,
                  jar |-> None, old |-> None, got |-> None, left |-> {}, kept |-> None,
                  failed |-> FALSE, force |-> FALSE]
Load(check, others) == [New("load", "list") EXCEPT !.id = Id(others), !.force = check,
                                                   !.scope = None]
Start(f)   == Cardinality(flows) < MaxFlows /\ flows' = flows \cup {f}
Move(f, g) == flows' = (flows \ {f}) \cup {g}
Goto(f, a) == Move(f, [f EXCEPT !.at = a])
\* Going on while a new load() runs.
MoveAndLoad(f, g) == LET fs == (flows \ {f}) \cup {g}
                     IN  flows' = fs \cup {Load(TRUE, fs)}
\* The finally of a handler; a component that is gone ignores it.
Flag(f)    == IF f.mine THEN {f.kind} ELSE {}
Ends(f)    == flows' = flows \ {f} /\ busy' = busy \ Flag(f)
EndsWithLoad(f, check) == LET fs == flows \ {f}
                          IN  flows' = fs \cup {Load(check, fs)} /\ busy' = busy \ Flag(f)

Init ==
    /\ disk \in Installed
    /\ version = Current /\ cache = [k \in Keys |-> None] /\ calls = cache
    /\ tab \in Tabs /\ items = {} /\ updates = {} /\ seen = Current
    /\ target = First /\ report = None /\ picker = None /\ busy = {}
    /\ flows = {[id |-> 1, kind |-> "load", at |-> "list", mine |-> TRUE, scope |-> None,
                 jar |-> None, old |-> None, got |-> None, left |-> {}, kept |-> None,
                 failed |-> FALSE, force |-> TRUE]}
    /\ history = [overlap |-> FALSE, failed |-> FALSE, missed |-> {}]
    /\ budget = [inputs |-> MaxInputs, fails |-> MaxFails]

-----------------------------------------------------------------------------
(* The checks of the API: one that is not forced takes what the cache holds    *)
(* for ten minutes, any other joins the check in flight with its key or reads  *)
(* the jars. A change of the jars empties the caches, but not what a check in  *)
(* flight has read.                                                            *)

\* Variant: the caches outlive the jars.
KeepCaches == UNCHANGED cache
Invalidate == cache' = [k \in Keys |-> None]
Key(f) == IF f.kind \in {"check", "panel"} THEN Now ELSE f.scope.target

Cached(f) == /\ ~f.force /\ cache[Key(f)] # None
             /\ Move(f, [f EXCEPT !.at = "answered", !.got = cache[Key(f)]]) /\ UNCHANGED calls
Joins(f)  == /\ calls' = [calls EXCEPT ![Key(f)] = IF @ = None THEN Snapshot(Key(f)) ELSE @]
             /\ Goto(f, "asked")
Asks(f) == /\ f.at = "ask" /\ (Cached(f) \/ Joins(f))
           /\ UNCHANGED <<disk, version, cache, page, busy, history, budget>>

Waiting(key) == {f \in flows : f.at = "asked" /\ Key(f) = key}
Answers(key, found) ==
    /\ cache' = IF key = Now /\ calls[key].version # version THEN cache
                ELSE [cache EXCEPT ![key] = found]
    /\ flows' = (flows \ Waiting(key))
                \cup {[f EXCEPT !.at = "answered", !.got = found] : f \in Waiting(key)}
\* The lookups of a check that fail are not an error of the check.
Lookups(s) == {m \in Mods : Catalogue[m] # "none" /\ \E j \in s.disk : j.mod = m}
CallEnds(key) ==
    /\ calls[key] # None /\ calls' = [calls EXCEPT ![key] = None]
    /\ \/ \E lost \in SUBSET Lookups(calls[key]) :
             /\ Answers(key, [calls[key] EXCEPT !.missed = lost])
             /\ IF lost = {} THEN UNCHANGED budget ELSE Fails
             /\ history' = [history EXCEPT !.missed = @ \cup lost]
       \/ /\ Fails /\ history' = [history EXCEPT !.failed = TRUE] /\ UNCHANGED cache
          /\ flows' = (flows \ Waiting(key))
                      \cup {[f EXCEPT !.at = "failed"] : f \in Waiting(key)}
    /\ UNCHANGED <<disk, version, page, busy>>

\* BatchUpdateMods and BatchUpdateTargetMods replace what the check found, one jar
\* after the other: the new one is there before the old one goes, or stays.
Applying(f) == f.kind \in {"batch", "all", "panel"} /\ ~f.force
Batch(f) ==
    /\ f.at = "answered" /\ Applying(f)
    /\ Move(f, [f EXCEPT !.at = "apply", !.left = Updates(f.got)])
    /\ UNCHANGED <<server, page, busy, history, budget>>
Apply(f, j) ==
    /\ \/ /\ disk' = (disk \cup {Proposed(j.mod, f.got.target)}) \ {j} /\ Invalidate
          /\ Move(f, [f EXCEPT !.left = @ \ {j}, !.failed = @ \/ j \notin disk])
          /\ UNCHANGED <<history, budget>>
       \/ /\ Fails /\ history' = [history EXCEPT !.failed = TRUE]
          /\ Move(f, [f EXCEPT !.left = @ \ {j}, !.failed = TRUE])
          /\ \/ UNCHANGED <<disk, cache>>
             \/ disk' = disk \cup {Proposed(j.mod, f.got.target)} /\ Invalidate
    /\ UNCHANGED <<version, calls, page, busy>>
Applies(f) == f.at = "apply" /\ \E j \in f.left : Apply(f, j)

\* One jar: handleUpdateMod saves the new one, and its branch for the old one is empty;
\* handleDownloadMod and handleUploadMod delete the old one, which must still be there.
PutOnly(f)    == disk' = disk \cup {f.jar} /\ Goto(f, "done") /\ UNCHANGED history
PutReplace(f) == /\ disk' = (disk \cup {f.jar}) \ ({f.old} \ {f.jar})
                 /\ LET gone == f.old \notin disk \cup {f.jar, None}
                    IN  /\ Goto(f, IF gone THEN "failed" ELSE "done")
                        /\ history' = [history EXCEPT !.failed = @ \/ gone]
Puts(f) == /\ f.at = "put" /\ (IF f.kind = "one" THEN PutOnly(f) ELSE PutReplace(f))
           /\ Invalidate /\ UNCHANGED <<version, calls, page, busy, budget>>
\* SetModEnabled renames the file, which no check looks at.
Toggles(f) == /\ f.at = "toggle" /\ Goto(f, IF f.jar \in disk THEN "done" ELSE "failed")
              /\ history' = [history EXCEPT !.failed = @ \/ f.jar \notin disk]
              /\ Invalidate /\ UNCHANGED <<disk, version, calls, page, busy, budget>>
Deletes(f) == /\ f.at = "delete" /\ disk' = disk \ {f.jar}
              /\ Goto(f, IF f.jar \in disk THEN "done" ELSE "failed")
              /\ history' = [history EXCEPT !.failed = @ \/ f.jar \notin disk]
              /\ Invalidate /\ UNCHANGED <<version, calls, page, busy, budget>>
Installs(f) == /\ f.at = "install" /\ version' = f.scope.target /\ Invalidate
               /\ Goto(f, "installed")
               /\ UNCHANGED <<disk, calls, page, busy, history, budget>>
RequestFails(f) ==
    /\ f.at \in {"list", "put", "delete", "toggle", "install", "backup"} /\ Fails
    /\ history' = [history EXCEPT !.failed = TRUE] /\ Goto(f, "failed")
    /\ UNCHANGED <<server, page, busy>>

-----------------------------------------------------------------------------
(* The handlers, from one answer to their next request.                        *)

\* load() and checkForUpdates of ModsPanel: checkingRef drops a check while another runs.
Lists(f) == /\ f.kind = "load" /\ f.at = "list"
            /\ Move(f, [f EXCEPT !.at = "listed", !.got = Snapshot(Now)])
            /\ UNCHANGED <<server, page, busy, history, budget>>
ClosedPicker(i, s, t) == IF tab = "helper" /\ <<i, s, t>> # <<items, seen, target>> THEN None
                         ELSE picker
Listed(f) ==
    /\ f.kind = "load" /\ f.at = "listed" /\ items' = f.got.disk
    /\ IF f.force /\ items' # {} /\ "check" \notin busy
       THEN /\ Move(f, [f EXCEPT !.kind = "check", !.at = "ask", !.got = None, !.force = FALSE])
            /\ busy' = busy \cup {"check"} /\ UNCHANGED updates
       ELSE /\ flows' = flows \ {f} /\ UNCHANGED busy
            /\ updates' = IF f.force /\ items' = {} THEN {} ELSE updates
    /\ picker' = ClosedPicker(items', seen, target)
    /\ UNCHANGED <<server, tab, seen, target, report, history, budget>>
TakesUpdates(f) ==
    /\ f.kind = "check" /\ f.at = "answered" /\ updates' = Updates(f.got) /\ Ends(f)
    /\ UNCHANGED <<server, tab, items, seen, target, report, picker, history, budget>>

\* scanCompatibility, and the silent refresh at the end of the two batches.
TakesReport(f) ==
    /\ f.at = "answered" /\ f.force /\ f.kind \in Helper /\ Ends(f)
    /\ report' = IF f.mine THEN [scope |-> f.scope, of |-> f.got] ELSE report
    /\ UNCHANGED <<server, tab, items, updates, seen, target, picker, history, budget>>

Refresh(f, kind) == MoveAndLoad(f, [f EXCEPT !.kind = kind, !.at = "ask", !.force = TRUE])

\* Variant: a mod that could not be updated does not stop the upgrade.
BatchEndsAnyway(f) ==
    /\ f.at = "apply" /\ f.left = {} /\ Invalidate
    /\ \/ f.kind = "panel" /\ EndsWithLoad(f, TRUE)
       \/ f.kind = "batch" /\ Refresh(f, "batch") /\ UNCHANGED busy
       \/ f.kind = "all" /\ Goto(f, "install") /\ UNCHANGED busy
    /\ UNCHANGED <<disk, version, calls, page, history, budget>>
BatchEnds(f) ==
    /\ f.at = "apply" /\ f.left = {} /\ Invalidate
    /\ \/ f.kind = "panel" /\ EndsWithLoad(f, TRUE)
       \/ f.kind = "batch" /\ Refresh(f, "batch") /\ UNCHANGED busy
       \/ f.kind = "all" /\ f.failed /\ Ends(f)
       \/ f.kind = "all" /\ ~f.failed /\ Goto(f, "install") /\ UNCHANGED busy
    /\ UNCHANGED <<disk, version, calls, page, history, budget>>
\* Variant: the updates do not wait for the backup.
BacksUpLater(f) ==
    /\ f.at = "backup"
    /\ \/ f.kind = "backup" /\ Ends(f)
       \/ f.kind = "all" /\ Goto(f, "ask") /\ UNCHANGED busy
    /\ UNCHANGED <<server, page, history, budget>>
BacksUp(f) ==
    /\ f.at = "backup"
    /\ \/ f.kind = "backup" /\ Ends(f)
       \/ /\ f.kind = "all" /\ UNCHANGED busy
          /\ Move(f, [f EXCEPT !.at = IF Updates(f.got) = {} THEN "install" ELSE "ask",
                               !.kept = Snapshot(Now)])
    /\ UNCHANGED <<server, page, history, budget>>
AfterInstall(f) ==
    /\ f.at = "installed"
    /\ \/ f.kind = "jar" /\ EndsWithLoad(f, TRUE)
       \/ f.kind = "all" /\ Refresh(f, "all") /\ UNCHANGED busy
    /\ UNCHANGED <<server, page, history, budget>>
\* Upload and deletion do not check for updates again; a single update scans.
AfterPut(f) ==
    /\ f.at = "done"
    /\ \/ f.kind \in {"upload", "remove", "toggle"} /\ EndsWithLoad(f, FALSE) /\ UNCHANGED picker
       \/ f.kind = "choose" /\ EndsWithLoad(f, TRUE) /\ picker' = None
       \/ /\ f.kind \in {"one", "pick"} /\ Refresh(f, "scan")
          /\ busy' = (busy \ Flag(f)) \cup (IF f.mine THEN {"scan"} ELSE {})
          /\ picker' = (IF f.kind = "pick" /\ f.mine THEN None ELSE picker)
    /\ UNCHANGED <<server, tab, items, updates, seen, target, report, history, budget>>
Failed(f) == f.at = "failed" /\ Ends(f) /\ UNCHANGED <<server, page, history, budget>>

FlowSteps == \E f \in flows :
    \/ Asks(f) \/ Batch(f) \/ Applies(f)
    \/ Puts(f) \/ Toggles(f) \/ Deletes(f) \/ Installs(f) \/ BacksUp(f)
    \/ RequestFails(f) \/ Lists(f) \/ Listed(f) \/ TakesUpdates(f) \/ TakesReport(f)
    \/ BatchEnds(f) \/ AfterInstall(f) \/ AfterPut(f) \/ Failed(f)

\* The page of the server fetches it again; its new version selects another target.
Refetch == /\ seen # version /\ seen' = version /\ target' = First
           /\ picker' = ClosedPicker(items, version, First)
           /\ UNCHANGED <<server, tab, items, updates, report, busy, flows, history, budget>>

-----------------------------------------------------------------------------
(* What the user clicks.                                                       *)

Button(f) == ~Covered /\ Click /\ Start(f)
Idle(flags) == busy \cap flags = {}

Remove(j) == tab = "list" /\ Button([New("remove", "confirm") EXCEPT !.jar = j])
             /\ UNCHANGED <<busy, picker, target>>
Toggle(j) == tab = "list" /\ Button([New("toggle", "toggle") EXCEPT !.jar = j])
             /\ UNCHANGED <<busy, picker, target>>
ListPicker(j) == /\ tab = "list" /\ j \in updates /\ ~Covered /\ Click /\ picker' = j
                 /\ UNCHANGED <<busy, flows, target>>
Rows      == \E j \in items : Toggle(j) \/ Remove(j) \/ ListPicker(j)
Reload    == tab = "list" /\ Button(Load(TRUE, flows)) /\ UNCHANGED <<busy, picker, target>>
Older(k)  == {i \in items : i.mod = k.mod /\ i # k}
Upload(k) == /\ tab = "list"
             /\ \/ Older(k) = {} /\ Button([New("upload", "put") EXCEPT !.jar = k])
                \/ \E i \in Older(k) :
                      Button([New("upload", "confirm") EXCEPT !.jar = k, !.old = i])
             /\ UNCHANGED <<busy, picker, target>>
CheckUpdates == /\ tab = "list" /\ Idle({"check"}) /\ items # {}
                /\ Button([New("check", "ask") EXCEPT !.force = TRUE])
                /\ busy' = busy \cup {"check"} /\ UNCHANGED <<picker, target>>
UpdateAll == /\ tab = "list" /\ updates # {} /\ Idle({"panel", "check"})
             /\ Button(New("panel", "confirm")) /\ UNCHANGED <<busy, picker, target>>
Header     == Reload \/ CheckUpdates
ListTab    == (\E k \in Jars : Upload(k)) \/ UpdateAll
UpdatesTab == UpdateAll \/ (Idle({"panel"}) /\ CheckUpdates)
UpToDate   == updates = {} /\ CheckUpdates
UpdateRows == \E j \in items \cap updates : ListPicker(j)

Select == /\ tab = "helper" /\ ~Covered /\ Click /\ target' \in Versions \ {target}
          /\ UNCHANGED <<busy, picker, flows>>
Scan   == /\ tab = "helper" /\ Idle({"scan"}) /\ busy' = busy \cup {"scan"}
          /\ Button([New("scan", "ask") EXCEPT !.force = TRUE]) /\ UNCHANGED <<picker, target>>
OfReport(kind) == [New(kind, "confirm") EXCEPT !.got = report.of]
UpdateMods == /\ Updates(report.of) # {} /\ Idle({"batch", "all", "scan"})
              /\ Button(OfReport("batch")) /\ UNCHANGED busy
OneClick   == /\ Ready(report.of) /\ Idle({"all", "batch", "jar", "scan"})
              /\ Button(OfReport("all")) /\ UNCHANGED busy
UpgradeJar == /\ Ready(report.of) /\ Idle({"all", "jar", "scan", "batch"})
              /\ Button(OfReport("jar")) /\ UNCHANGED busy
Backup     == /\ Idle({"backup"}) /\ Button(New("backup", "backup"))
              /\ busy' = busy \cup {"backup"}
UpdateOne  == /\ \E j \in Updates(report.of) :
                    Button([New("one", "confirm") EXCEPT !.jar = Proposed(j.mod, target), !.old = j])
              /\ UNCHANGED busy
HelperPicker(j) == /\ ~Covered /\ Click /\ picker' = j /\ UNCHANGED <<busy, flows, target>>
Verdict    == (OneClick \/ UpdateMods \/ UpgradeJar) /\ UNCHANGED <<picker, target>>
Toolbar    == Backup /\ UNCHANGED <<picker, target>>
HelperRows == \/ UpdateOne /\ UNCHANGED <<picker, target>>
              \/ \E j \in items : HelperPicker(j)
Report     == Shown /\ Idle({"scan"}) /\ (Verdict \/ Toolbar \/ HelperRows)
Banner     == Select \/ Scan
EmptyState == ~Shown /\ Scan

\* ModJarPickerDialog, of the page or of the helper: it lists the releases for the
\* version that is installed, all of them where the catalogue is not asked for a
\* version, or uploads any jar.
Releases   == {k \in Jars : /\ k.mod = picker.mod /\ Catalogue[k.mod] # "none"
                            /\ Catalogue[k.mod] \in Filters => k.for = seen}
DeletesOld == {picker, None}
PutJar(k)  == /\ picker # None /\ Idle({"pick", "choose"}) /\ Click
              /\ LET kind == IF tab = "helper" THEN "pick" ELSE "choose"
                 IN  /\ busy' = busy \cup {kind}
                     /\ \E old \in DeletesOld :
                            Start([New(kind, "put") EXCEPT !.jar = k, !.old = old])
              /\ UNCHANGED <<picker, target>>
PickJar    == picker # None /\ \E k \in Releases : PutJar(k)
UploadJar  == picker # None /\ \E k \in Jars : k.mod = picker.mod /\ PutJar(k)
ClosePicker == /\ picker # None /\ Idle({"pick", "choose"}) /\ picker' = None
               /\ UNCHANGED <<busy, flows, target, history, budget>>

\* The modal of a handler: the upload goes on without deleting when it is refused.
FirstRequest(f) == CASE f.kind \in {"batch", "panel"} -> "ask" [] f.kind = "all" -> "backup"
                     [] f.kind = "jar" -> "install" [] f.kind = "remove" -> "delete"
                     [] OTHER -> "put"
Confirm == \E f \in flows :
    /\ f.at = "confirm"
    /\ \/ /\ Goto(f, FirstRequest(f))
          /\ busy' = busy \cup ({f.kind} \cap {"batch", "all", "jar", "panel"})
       \/ /\ UNCHANGED busy
          /\ IF f.kind = "upload" THEN Move(f, [f EXCEPT !.at = "put", !.old = None])
             ELSE flows' = flows \ {f}
    /\ UNCHANGED <<picker, target, history, budget>>

\* Leaving the tab of the helper unmounts it; its handlers go on.
SwitchTab ==
    /\ ~Covered /\ tab' \in Tabs \ {tab} /\ budget.inputs > 0
    /\ budget' = [budget EXCEPT !.inputs = @ - 1]
    /\ target' = First /\ busy' = busy \ (Mounted \cup {"pick"})
    /\ flows' = {[f EXCEPT !.mine = @ /\ f.kind \notin Mounted] : f \in flows}
    /\ report' = None /\ UNCHANGED <<server, items, updates, seen, picker, history>>

User == \/ /\ \/ Header \/ ListTab \/ Rows \/ UpdatesTab \/ UpToDate \/ UpdateRows
              \/ Banner \/ EmptyState \/ Report \/ PickJar \/ UploadJar \/ ClosePicker \/ Confirm
           /\ UNCHANGED <<server, tab, items, updates, seen, report>>
        \/ SwitchTab

Progress == FlowSteps \/ (\E k \in Keys : CallEnds(k)) \/ Refetch
Next == Progress \/ User

\* Every request ends and the page is polled; the user may stop at any point.
Spec == Init /\ [][Next]_vars /\ WF_vars(Progress)
=============================================================================
