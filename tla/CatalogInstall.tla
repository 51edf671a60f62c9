--------------------------- MODULE CatalogInstall ---------------------------
(* Installing from a catalogue (web/src/components): the handlers of the four  *)
(* browsers, their dialogs, the resolution of dependencies, the list of        *)
(* ModsPanel, and the directory of jars the API edits. A handler is a flow     *)
(* that keeps, over its awaits, the props it saw when it was called.           *)
EXTENDS Integers, Sequences, FiniteSets, SequencesExt

CONSTANTS Projects,    \* the projects of the catalogue
          Releases,    \* Releases[p]: its releases for this server, newest the largest
          Depends,     \* Depends[j]: the projects the release j requires, and may use
          Libraries,   \* the projects in the category "library"
          Listed,      \* the projects on cards, the results of the search
          None,
          MaxFlows,    \* bound: handlers running at once
          MaxLoads,    \* bound: lists of installed jars on their way
          MaxInputs,   \* bound: clicks
          MaxFails     \* bound: requests that fail

Jar(p, v) == [p |-> p, v |-> v]
Jars == UNION {{Jar(p, v) : v \in Releases[p]} : p \in Projects}

ASSUME InstallAssumption ==
    /\ None \notin Projects /\ None \notin Jars /\ IsFiniteSet(Projects) /\ MaxFlows \in Nat
    /\ \A p \in Projects : /\ Releases[p] \subseteq Nat
                           /\ Releases[p] = {} \/ \E v \in Releases[p] : \A w \in Releases[p] : w <= v
    /\ \A j \in Jars : Depends[j].required \cup Depends[j].optional \subseteq Projects
    /\ Libraries \subseteq Projects /\ Listed \subseteq Projects

VARIABLES tab,        \* the browser that is open
          dir,        \* the jars in the server's directory
          items,      \* ModsPanel's list, the prop installedMods
          loads,      \* lists requested, and answered with what dir was
          flows,      \* the handlers that have not returned
          marks,      \* installedIds, installedSlugs: what this browser installed
          installing, \* installingId: the one project whose buttons spin
          batching,   \* isBatchInstalling
          update,     \* updatePrompt: replace the old jar?
          prompt,     \* dependencyPrompt: with which dependencies?
          chosen,     \* selectedIds of ModDependenciesDialog
          selected,   \* selectedProject: whose release dialog is open
          shown,      \* whose releases it lists
          listing,    \* its request: "idle", "loading" or "failed"
          history,    \* what the user and the network did so far
          budget

vars == <<tab, dir, items, loads, flows, marks, installing, batching, update, prompt,
          chosen, selected, shown, listing, history, budget>>
screen == <<update, prompt, chosen, selected, shown, listing>>
server == <<dir, items, loads>>

Idle == flows = {} /\ loads = <<>>
\* A handler that waits for the confirmation of a deletion has done nothing yet.
Waits == loads = <<>> /\ \A f \in flows : f.at = "confirm"
Note(field) == history' = [history EXCEPT ![field] = TRUE]
\* A click, and whether something was still going on when it came.
Press(keeps) == /\ budget.inputs > 0 /\ budget' = [budget EXCEPT !.inputs = @ - 1]
                /\ history' = [history EXCEPT !.overlap = @ \/ ~Waits, !.kept = @ \/ keeps]
Click == Press(FALSE)
NetFails == /\ budget.fails > 0 /\ budget' = [budget EXCEPT !.fails = @ - 1]
            /\ Note("failed")

Newest(p) == Jar(p, CHOOSE v \in Releases[p] : \A w \in Releases[p] : w <= v)
InDir(p, jars) == \E j \in jars : j.p = p

Init ==
    /\ tab \in {"modrinth", "hangar", "spiget", "curseforge"}
    /\ dir \in {d \in SUBSET Jars : \A j, k \in d : j.p = k.p => j = k}
    /\ items = dir /\ loads = <<>> /\ flows = {} /\ marks = {}
    /\ installing = None /\ batching = FALSE /\ update = None /\ prompt = None
    /\ chosen = {} /\ selected = None /\ shown = None /\ listing = "idle"
    /\ history = [overlap |-> FALSE, failed |-> FALSE, kept |-> FALSE,
                  overtaken |-> FALSE, deleted |-> FALSE]
    /\ budget = [inputs |-> MaxInputs, fails |-> MaxFails]

-----------------------------------------------------------------------------
(* Dependencies: breadth first, each project once, not through what is         *)
(* installed, and what has no release for this server is listed without file.  *)

Direct(j) == Depends[j].required \cup Depends[j].optional
Follow(q, have) == IF q \in have \/ Releases[q] = {} THEN {} ELSE Direct(Newest(q))

\* What is found when nothing is learnt of what the dependencies in unread need.
\* Variant: what a dependency needs is not resolved.
ResolveShallow(j, have, unread) == Direct(j) \ {j.p}
ResolveModrinth(j, have, unread) ==
    LET first == Direct(j) \ {j.p}
    IN  first \cup ((UNION {Follow(q, have) : q \in first \ unread}) \ {j.p})
ResolveCurseForge(j) == Direct(j)

Resolve(j, have, unread) == IF tab = "modrinth" THEN ResolveModrinth(j, have, unread)
                                                ELSE ResolveCurseForge(j)
Resolves == tab \in {"modrinth", "curseforge"}
Have(f) == {p \in Projects : InDir(p, f.seen)} \cup f.marked
Unread(f, j, unread) == IF Resolves THEN Resolve(j, Have(f), unread) \ Have(f) ELSE {}
Missing(f, j) == Unread(f, j, {})

\* Ticked by default: what is required and the libraries; all when there are none.
Required(j) == Depends[j].required
               \cup UNION {Depends[Newest(q)].required : q \in {r \in Direct(j) : Releases[r] # {}}}
Defaults(j, missing) == LET needed == missing \cap (Required(j) \cup Libraries)
                        IN  IF needed = {} THEN missing ELSE needed

-----------------------------------------------------------------------------
(* findExistingOldJar: another jar of the project in the list the handler saw. *)
ModrinthOldJar(j, seen)   == {k \in seen : k.p = j.p}
HangarOldJar(j, seen)     == {k \in seen : k.p = j.p}
SpigetOldJar(j, seen)     == {k \in seen : k.p = j.p}
CurseForgeOldJar(j, seen) == {k \in seen : k.p = j.p}
Found(j, seen) == CASE tab = "modrinth" -> ModrinthOldJar(j, seen)
                    [] tab = "hangar" -> HangarOldJar(j, seen)
                    [] tab = "spiget" -> SpigetOldJar(j, seen)
                    [] OTHER -> CurseForgeOldJar(j, seen)
\* The first that find() meets; None when it is the same file.
OldJars(j, seen) == IF Found(j, seen) = {} THEN {None}
                    ELSE {IF k = j THEN None ELSE k : k \in Found(j, seen)}

NewFlow(kind, p, jar, at) ==
    [id |-> CHOOSE i \in 1..MaxFlows : \A f \in flows : f.id # i, kind |-> kind, p |-> p,
     jar |-> jar, old |-> None, left |-> <<>>, at |-> at, seen |-> items, marked |-> marks]
Start(f)   == Cardinality(flows) < MaxFlows /\ flows' = flows \cup {f}
Move(f, g) == flows' = (flows \ {f}) \cup {g}
Return(f)  == flows' = flows \ {f}
Spin(x)    == installing' = x
Card(p)    == Jar(p, 0)

\* Dialogs a handler opens. ModDependenciesDialog takes its defaults when it is mounted.
AskDependencies(p, jar, missing, bare) ==
    /\ prompt' = [p |-> p, jar |-> jar, missing |-> missing, bare |-> bare]
    /\ chosen' = IF prompt = None THEN Defaults(jar, missing) ELSE chosen
    /\ UNCHANGED <<update, selected, shown, listing>>
AskReplace(p, jar, old) ==
    /\ update' = [p |-> p, jar |-> jar, old |-> old]
    /\ UNCHANGED <<prompt, chosen, selected, shown, listing>>
OpenReleases(p) ==
    /\ selected' = p /\ listing' = "loading"
    /\ UNCHANGED <<update, prompt, chosen, shown>>

-----------------------------------------------------------------------------
(* The install handlers: one click on a card, or a release from the dialog.    *)

\* Without an old jar the handler that needs nothing more downloads at once.
InstallNow(kind, p, jar) == \E old \in OldJars(jar, items) :
    \/ old # None /\ AskReplace(p, jar, old) /\ UNCHANGED <<flows, installing>>
    \/ old = None /\ Start(NewFlow(kind, p, jar, "download")) /\ Spin(Card(p)) /\ UNCHANGED screen

FindFiles(p) == Start(NewFlow("one", p, None, "find")) /\ Spin(Card(p)) /\ UNCHANGED screen

\* Where the button of a card is enabled.
ModrinthCard(p)   == tab = "modrinth" /\ installing # Card(p)
HangarCard(p)     == tab = "hangar" /\ installing # Card(p)
SpigetCard(p)     == tab = "spiget" /\ installing # Card(p) /\ Releases[p] # {}
CurseForgeCard(p) == /\ tab = "curseforge" /\ installing # Card(p)
                     /\ p \notin marks /\ ~InDir(p, items)
ModrinthOneClick(p)   == ModrinthCard(p) /\ FindFiles(p)
HangarOneClick(p)     == HangarCard(p) /\ FindFiles(p)
CurseForgeOneClick(p) == CurseForgeCard(p) /\ FindFiles(p)
SpigetOneClick(p)     == SpigetCard(p) /\ InstallNow("one", p, Newest(p))

\* The release dialog: its project is selected, its list may be another's (shown).
ModrinthOffers(j)   == tab = "modrinth" /\ listing = "idle" /\ j.p = shown
\* Variant: the buttons work while the releases of another project are loading.
HangarOffersEarly(j) == tab = "hangar" /\ j.p = shown
HangarOffers(j)     == tab = "hangar" /\ listing # "loading" /\ j.p = shown
SpigetOffers(j)     == tab = "spiget" /\ listing # "loading" /\ j.p = shown
CurseForgeOffers(j) == tab = "curseforge" /\ listing # "loading" /\ installing # j /\ j.p = shown
ModrinthPick(j) ==
    /\ ModrinthOffers(j)
    /\ IF Direct(j) = {} THEN InstallNow("pick", selected, j)
       ELSE Start(NewFlow("pick", selected, j, "find")) /\ UNCHANGED <<installing, screen>>
HangarPick(j) == HangarOffers(j) /\ InstallNow("pick", selected, j)
SpigetPick(j) == SpigetOffers(j) /\ InstallNow("pick", selected, j)
CurseForgePick(j) ==
    /\ CurseForgeOffers(j) /\ Start(NewFlow("pick", selected, j, "find"))
    /\ Spin(j) /\ UNCHANGED screen

\* handleInstallVersion of ModrinthBrowser never touches installingId itself.
Unspin(f) == Spin(IF f.kind = "pick" /\ tab = "modrinth" THEN installing ELSE None)

GoOn(f, j) == \E old \in OldJars(j, f.seen) :
    \/ old # None /\ AskReplace(f.p, j, old) /\ Return(f) /\ Unspin(f)
    \/ /\ old = None /\ Move(f, [f EXCEPT !.jar = j, !.at = "download"])
       /\ Spin(Card(f.p)) /\ UNCHANGED screen
Decide(f, j, missing) ==
    \/ missing # {} /\ AskDependencies(f.p, j, missing, {}) /\ Return(f) /\ Unspin(f)
    \/ missing = {} /\ GoOn(f, j)

Chosen(f) == IF f.jar = None THEN Newest(f.p) ELSE f.jar
NoRelease(f) == f.jar = None /\ Releases[f.p] = {}

Finds(f) ==
    /\ f.at = "find" /\ UNCHANGED <<budget, history, server, marks, batching>>
    /\ IF NoRelease(f) THEN Return(f) /\ Spin(None) /\ OpenReleases(f.p)
       ELSE Decide(f, Chosen(f), Missing(f, Chosen(f)))

\* What a resolution does with a request that fails: without the projects that the
\* release names it goes on as if it needed nothing; without the projects that these
\* need it asks for the first level; and a dependency whose releases, or whose address,
\* are not learnt is listed without a file, and what it needs is not.
NoProjects(f, j) ==
    \/ Resolves /\ GoOn(f, j)
    \/ /\ tab = "modrinth" /\ Unread(f, j, Projects) # {}
       /\ AskDependencies(f.p, j, Unread(f, j, Projects), {}) /\ Return(f) /\ Unspin(f)
NoVersions(f, j, q) == tab = "modrinth" /\ AskDependencies(f.p, j, Unread(f, j, {q}), {q})
NoFiles(f, j, q)    == tab = "curseforge" /\ AskDependencies(f.p, j, Missing(f, j), {q})
FindFails(f) ==
    /\ f.at = "find" /\ NetFails /\ UNCHANGED <<server, marks, batching>>
    /\ \/ Return(f) /\ Unspin(f) /\ UNCHANGED screen
       \/ ~NoRelease(f) /\ NoProjects(f, Chosen(f))
       \/ /\ ~NoRelease(f) /\ Return(f) /\ Unspin(f)
          /\ \E q \in Missing(f, Chosen(f)) :
                NoVersions(f, Chosen(f), q) \/ NoFiles(f, Chosen(f), q)

-----------------------------------------------------------------------------
(* executeInstall and the batch: POST mods/download writes the jar, then       *)
(* deletes the old one under another lock; every success reloads the list.     *)

Reload == Len(loads) < MaxLoads /\ loads' = Append(loads, None)

\* The server: publish the jar; delete the old one, an error when it is gone.
\* Variant: the old jar makes room, and then the download fails.
PublishInPlace(f) ==
    /\ f.at = "download" /\ dir' = (dir \ {f.old}) \cup (IF budget.fails > 0 THEN {} ELSE {f.jar})
    /\ Move(f, [f EXCEPT !.at = "done"])
    /\ UNCHANGED <<items, loads, marks, installing, batching, screen, history, budget>>
Publish(f) ==
    /\ f.at = "download" /\ dir' = dir \cup {f.jar}
    /\ Move(f, [f EXCEPT !.at = IF f.old = None THEN "done" ELSE "replace"])
    /\ UNCHANGED <<items, loads, marks, installing, batching, screen, history, budget>>
Replace(f) ==
    /\ f.at = "replace" /\ dir' = dir \ {f.old}
    /\ Move(f, [f EXCEPT !.at = IF f.old \in dir THEN "done" ELSE "failed"])
    /\ history' = [history EXCEPT !.failed = @ \/ f.old \notin dir]
    /\ UNCHANGED <<items, loads, marks, installing, batching, screen, budget>>
RequestFails(f) ==
    /\ f.at \in {"download", "replace", "done", "delete"} /\ NetFails
    /\ Move(f, [f EXCEPT !.at = "failed"])
    /\ UNCHANGED <<server, marks, installing, batching, screen>>

\* executeInstall's answer.
\* Variant: the list is not reloaded.
InstalledQuietly(f) ==
    /\ f.at = "done" /\ f.kind \in {"one", "pick"}
    /\ marks' = marks \cup {f.p} /\ Spin(None) /\ update' = None /\ Return(f)
    /\ UNCHANGED <<server, batching, prompt, chosen, selected, shown, listing, history, budget>>
Installed(f) ==
    /\ f.at = "done" /\ f.kind \in {"one", "pick"}
    /\ Reload /\ marks' = marks \cup {f.p} /\ Spin(None) /\ update' = None /\ Return(f)
    /\ UNCHANGED <<dir, items, batching, prompt, chosen, selected, shown, listing, history, budget>>
InstallFailed(f) ==
    /\ f.at = "failed" /\ f.kind \in {"one", "pick"}
    /\ Spin(None) /\ Return(f)
    /\ UNCHANGED <<server, marks, batching, screen, history, budget>>

\* handleConfirmInstallWithDependencies: the project first, then one after the other.
Item(f, j, old) == [f EXCEPT !.jar = j, !.old = old, !.left = Tail(f.left), !.at = "download"]
BatchGoesOn(f) ==
    /\ f.at = "done" /\ f.kind = "batch" /\ f.left # <<>>
    /\ Reload /\ marks' = marks \cup {f.jar.p}
    /\ \E old \in OldJars(Head(f.left), f.seen) : Move(f, Item(f, Head(f.left), old))
    /\ UNCHANGED <<dir, items, installing, batching, screen, history, budget>>
BatchEnds(f) ==
    /\ f.kind = "batch" /\ Return(f) /\ Spin(None) /\ batching' = FALSE
    /\ \/ /\ f.at = "done" /\ f.left = <<>> /\ prompt' = None
          /\ Reload /\ marks' = marks \cup {f.jar.p}
       \/ f.at = "failed" /\ UNCHANGED <<prompt, loads, marks>>
    /\ UNCHANGED <<dir, items, update, chosen, selected, shown, listing, history, budget>>

\* handleDeleteMod, from its confirmation on.
AskDelete(j) == Start([NewFlow("delete", j.p, j, "confirm") EXCEPT !.seen = {}])
Deletes(f) ==
    /\ f.at = "delete"
    /\ dir' = dir \ {f.jar}
    /\ Move(f, [f EXCEPT !.at = IF f.jar \in dir THEN "done" ELSE "failed"])
    /\ history' = [history EXCEPT !.failed = @ \/ f.jar \notin dir, !.deleted = TRUE]
    /\ UNCHANGED <<items, loads, marks, installing, batching, screen, budget>>
Deleted(f) ==
    /\ f.kind = "delete" /\ Return(f)
    /\ \/ f.at = "done" /\ Reload /\ marks' = marks \ {selected}
       \/ f.at = "failed" /\ UNCHANGED <<loads, marks>>
    /\ UNCHANGED <<dir, items, installing, batching, screen, history, budget>>

FlowSteps == \E f \in flows :
    \/ Finds(f) \/ FindFails(f)
    \/ Publish(f) \/ Replace(f) \/ RequestFails(f)
    \/ Installed(f) \/ InstallFailed(f)
    \/ BatchGoesOn(f) \/ BatchEnds(f)
    \/ Deletes(f) \/ Deleted(f)

-----------------------------------------------------------------------------
(* What the user clicks.                                                       *)

Confirming == \E f \in flows : f.at = "confirm"
Covered == update # None \/ prompt # None \/ selected # None \/ Confirming

Cards ==
    /\ ~Covered /\ Click
    /\ \/ \E p \in Listed : \/ ModrinthOneClick(p) \/ HangarOneClick(p)
                            \/ SpigetOneClick(p) \/ CurseForgeOneClick(p)
       \/ \E p \in Listed : OpenReleases(p) /\ UNCHANGED <<flows, installing>>
       \/ \E j \in items : AskDelete(j) /\ UNCHANGED <<installing, screen>>
    /\ UNCHANGED <<server, marks, batching>>

CloseReleases == /\ selected' = None /\ shown' = None /\ listing' = "idle"
                 /\ UNCHANGED <<update, prompt, chosen, flows, installing>>
ReleaseDialog ==
    /\ selected # None /\ update = None /\ prompt = None /\ ~Confirming /\ Click
    /\ \/ \E j \in Jars : ModrinthPick(j) \/ HangarPick(j) \/ SpigetPick(j) \/ CurseForgePick(j)
       \/ \E j \in items : AskDelete(j) /\ UNCHANGED <<installing, screen>>
       \/ CloseReleases
    /\ UNCHANGED <<server, marks, batching>>

\* The effect that lists the releases of the selected project, the last one only.
Lists == shown' = selected /\ listing' = "idle" /\ UNCHANGED <<history, budget>>
ListingFails == NetFails /\ listing' = "failed" /\ UNCHANGED shown
ListReleases ==
    /\ listing = "loading" /\ (Lists \/ ListingFails)
    /\ UNCHANGED <<server, marks, flows, installing, batching, update, prompt, chosen, selected>>

\* ModUpdateDialog: replace, keep both, delete only, or leave. CurseForgeBrowser does
\* not disable it while it installs.
CanAnswer == update # None /\ (installing = None \/ tab = "curseforge") /\ ~Confirming
UpdateFlow == NewFlow("one", update.p, update.jar, "download")
ReplaceOld == /\ Click /\ Start([UpdateFlow EXCEPT !.old = update.old]) /\ Spin(Card(update.p))
              /\ UNCHANGED screen
KeepBoth   == Press(TRUE) /\ Start(UpdateFlow) /\ Spin(Card(update.p)) /\ UNCHANGED screen
DeleteOld  == /\ Click /\ AskDelete(update.old) /\ update' = None
              /\ UNCHANGED <<installing, prompt, chosen, selected, shown, listing>>
LeaveOld   == /\ Click /\ update' = None
              /\ UNCHANGED <<flows, installing, prompt, chosen, selected, shown, listing>>
UpdateDialog == /\ CanAnswer
                /\ ReplaceOld \/ KeepBoth \/ DeleteOld \/ LeaveOld
                /\ UNCHANGED <<server, marks, batching>>

\* ModDependenciesDialog. Its checkboxes; all that are chosen; the project alone; no.
Toggle == /\ Click /\ \E d \in prompt.missing :
                chosen' = IF d \in chosen THEN chosen \ {d} ELSE chosen \cup {d}
          /\ UNCHANGED <<flows, installing, batching, update, prompt, selected, shown, listing>>
\* A dependency without a file is passed over.
WithFile == {d \in prompt.missing \ prompt.bare : Releases[d] # {}}
Batch == SetToSeq({Newest(d) : d \in chosen \cap WithFile})
InstallAll ==
    /\ Click /\ batching' = TRUE
    /\ \E old \in OldJars(prompt.jar, items) :
          LET f == NewFlow("batch", prompt.p, prompt.jar, "download")
          IN  Start([f EXCEPT !.old = old, !.left = Batch])
    /\ UNCHANGED <<installing, screen>>
SkipDependencies ==
    /\ Click /\ prompt' = None
    /\ \E old \in OldJars(prompt.jar, items) :
          \/ /\ old # None /\ update' = [p |-> prompt.p, jar |-> prompt.jar, old |-> old]
             /\ UNCHANGED <<flows, installing>>
          \/ /\ old = None /\ Start(NewFlow("one", prompt.p, prompt.jar, "download"))
             /\ Spin(Card(prompt.p)) /\ UNCHANGED update
    /\ UNCHANGED <<batching, chosen, selected, shown, listing>>
CancelPrompt == /\ Click /\ prompt' = None /\ Spin(None)
                /\ UNCHANGED <<flows, batching, update, chosen, selected, shown, listing>>
DependencyDialog ==
    /\ prompt # None /\ ~batching /\ ~Confirming
    /\ Toggle \/ InstallAll \/ SkipDependencies \/ CancelPrompt
    /\ UNCHANGED <<server, marks>>

Confirm == \E f \in flows :
    /\ f.at = "confirm" /\ Click
    /\ Move(f, [f EXCEPT !.at = "delete"]) \/ Return(f)
    /\ UNCHANGED <<server, marks, installing, batching, screen>>

-----------------------------------------------------------------------------
\* ModsPanel's load: the server answers with what it has, the answers may overtake
\* each other, and one that fails leaves the list as it is.
Served == \E i \in DOMAIN loads :
    /\ loads[i] = None /\ loads' = [loads EXCEPT ![i] = dir]
    /\ UNCHANGED <<dir, items, history, budget>>
Delivered == \E i \in DOMAIN loads :
    /\ loads' = SubSeq(loads, 1, i - 1) \o SubSeq(loads, i + 1, Len(loads))
    /\ \/ /\ loads[i] # None /\ items' = loads[i] /\ UNCHANGED budget
          /\ history' = [history EXCEPT !.overtaken = @ \/ i > 1]
       \/ NetFails /\ UNCHANGED items
    /\ UNCHANGED dir
Loading == /\ Served \/ Delivered
           /\ UNCHANGED <<flows, marks, installing, batching, screen>>

Progress == FlowSteps \/ ListReleases \/ Loading
User == Cards \/ ReleaseDialog \/ UpdateDialog \/ DependencyDialog \/ Confirm
Next == (Progress \/ User) /\ UNCHANGED tab

\* Every request ends; the user need not answer.
Spec == Init /\ [][Next]_vars /\ WF_vars(Progress /\ UNCHANGED tab)
=============================================================================
