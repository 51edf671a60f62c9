----------------------------- MODULE FileManager -----------------------------
(* The Files tab (web/src/components/file-manager.tsx, nbt-editor.tsx,          *)
(* file-conflict-dialog.tsx) and the files behind it (internal/servers). The    *)
(* folder being shown, the text editor and the NBT editor each send requests    *)
(* and keep, until the answer, what they read when the request was sent. Equal  *)
(* requests that are under way together are one.                                *)
(* A content stands for its own revision, which is a hash of it.                *)
EXTENDS Integers, FiniteSets

CONSTANTS Root, Folder, \* the data directory and the one folder in it
          Texts,        \* names the text editor opens
          Tags,         \* names the NBT editor opens
          Contents,     \* what a file may hold
          Empty,        \* the empty text, one of them
          Delivered,    \* contents that come by an upload, an archive, another user
          Broken,       \* an NBT document that documentError refuses
          Disk0,        \* the files at first
          Permissions,  \* what the user may do: "write", "delete"
          Absent,       \* the revision '' and the content of no file
          Directory, None,
          MaxInputs,    \* bound: clicks and keystrokes
          MaxFails,     \* bound: requests that fail
          MaxOthers     \* bound: changes by other users or by the game

Names == Texts \cup Tags
P(d, n) == [dir |-> d, name |-> n]
Paths == {P(d, n) : d \in {Root, Folder}, n \in Names \cup {Folder}}

ASSUME FilesAssumption ==
    /\ Empty \in Contents /\ Delivered \subseteq Contents
    /\ Root # Folder /\ Folder \notin Names /\ Texts \cap Tags = {}
    /\ {Broken, Absent, Directory, None} \cap Contents = {}
    /\ None \notin Paths
    /\ Disk0 \in [Paths -> Contents \cup {Directory, Absent}]
    /\ {MaxInputs, MaxFails, MaxOthers} \subseteq Nat

VARIABLES disk,     \* the server's files
          stopped,  \* whether the game server is: NBT is written only then
          cwd, entries, selected, busy,
          editor,   \* the text editor; seen: the contents the user was shown
          nbt,      \* the NBT editor, likewise
          requests, \* what was sent and not answered
          history,  \* whether the page missed what is in the folder shown (stale), and
                    \* whether something was written between the two steps of a save
          budget

vars == <<disk, stopped, cwd, entries, selected, busy, editor, nbt, requests, history, budget>>
browser == <<cwd, entries, selected, busy>>

-----------------------------------------------------------------------------
(* The files.                                                                  *)

Listing(d) == {n \in Names \cup {Folder} : disk[P(d, n)] # Absent}
Under(p) == {q \in Paths : q = p \/ (p = P(Root, Folder) /\ q.dir = Folder)}
Drop(p) == [q \in Paths |-> IF q \in Under(p) THEN Absent ELSE disk[q]]
Put(p, c) == [disk EXCEPT ![p] = c, ![P(Root, Folder)] = IF p.dir = Folder THEN Directory ELSE @]

\* A change asked for through run(): a file made, a folder made, a file renamed.
Does(e) == CASE e.op = "put"   -> Put(e.to, e.content)
             [] e.op = "mkdir" -> Put(e.to, Directory)
             [] OTHER          -> [disk EXCEPT ![e.from] = Absent, ![e.to] = disk[e.from]]
Possible(e) == CASE e.op = "put"   -> TRUE
                 [] e.op = "mkdir" -> disk[e.to] \in {Absent, Directory}
                 [] OTHER          -> disk[e.from] # Absent

\* WriteFileContent compares and then publishes, under a mutex of the editors:
\* what is written without it may come in between.
Publishing == \E r \in requests : r.kind = "save" /\ r.step = "compared"

-----------------------------------------------------------------------------
(* The page.                                                                   *)

NoText == [path |-> None, content |-> Empty, dirty |-> FALSE, busy |-> FALSE,
           revision |-> None, conflict |-> None, seen |-> {}]
NoNBT == [path |-> None, root |-> None, revision |-> None, dirty |-> FALSE, busy |-> FALSE,
          editable |-> FALSE, conflict |-> FALSE, seen |-> {}]

\* A load asks for the folder it was made for; got: what the server read for it.
List(d, ends) == [kind |-> "list", dir |-> d, ends |-> ends, got |-> None]
Ask(r) == requests' = requests \cup {r}

Init ==
    /\ disk = Disk0 /\ stopped = TRUE
    /\ cwd = Root /\ entries = {} /\ selected = {} /\ busy = FALSE
    /\ editor = NoText /\ nbt = NoNBT /\ requests = {List(Root, "load")}
    /\ history = [stale |-> FALSE, between |-> FALSE]
    /\ budget = [inputs |-> MaxInputs, fails |-> MaxFails, others |-> MaxOthers]

Press == budget.inputs > 0 /\ budget' = [budget EXCEPT !.inputs = @ - 1] /\ UNCHANGED history
Fails == budget.fails > 0 /\ budget' = [budget EXCEPT !.fails = @ - 1]
NetFails == Fails /\ UNCHANGED history
Quiet == UNCHANGED <<history, budget>>
Between == /\ history' = [history EXCEPT !.between = @ \/ Publishing] /\ UNCHANGED budget

Writes == "write" \in Permissions /\ ~busy
Deletes == "delete" \in Permissions /\ ~busy /\ ~editor.busy
\* The browser is on screen, and no conflict is being reviewed over it.
Browsing == nbt.path = None /\ editor.conflict = None

-----------------------------------------------------------------------------
(* The browser: the listing, and the changes that lock it until they are done. *)

\* The effect of a changed cwd: the old entries stay until the answer.
Goes(d) == /\ ~busy /\ Press
           /\ cwd' = d /\ selected' = {} /\ Ask(List(d, "load"))
           /\ UNCHANGED <<disk, stopped, entries, busy, editor, nbt>>
Crumbs == cwd = Folder /\ Goes(Root)
EnterFolder == cwd = Root /\ Folder \in entries /\ Goes(Folder)

Refresh == /\ ~busy /\ Press /\ Ask(List(cwd, "load"))
           /\ UNCHANGED <<disk, stopped, browser, editor, nbt>>

Select(names) == /\ ~busy /\ Press /\ selected' = names
                 /\ UNCHANGED <<disk, stopped, cwd, entries, busy, editor, nbt, requests>>
SelectEntry(n) == \/ Select({n})
                  \/ n \in selected /\ Select(selected \ {n})
                  \/ n \notin selected /\ Select(selected \cup {n})
SelectRange == \E range \in SUBSET entries : Cardinality(range) > 1 /\ Select(range)
SelectAll == entries # {} /\ Select(IF selected = entries THEN {} ELSE entries)
ContextEntry(n) == n \notin selected /\ Select({n})

Run(e, ends) ==
    /\ Writes /\ Press /\ busy' = TRUE
    /\ Ask([kind |-> "run", effect |-> e, dir |-> cwd, ends |-> ends])
    /\ UNCHANGED <<disk, stopped, cwd, entries, selected, editor, nbt>>
Makes(d, ends) == \E n \in Names, c \in Delivered :
    Run([op |-> "put", to |-> P(d, n), content |-> c], ends)

Upload == Makes(cwd, "run")
FromUrl == Makes(cwd, "run")
Archive == entries # {} /\ Makes(cwd, "run")
ArchiveSelected == selected # {} /\ Makes(cwd, "zip")
Unzip == entries # {} /\ \E d \in {cwd, Folder} : Makes(d, "run")
Mkdir == cwd = Root /\ Run([op |-> "mkdir", to |-> P(Root, Folder)], "run")
Rename(n) == n \in Names /\ \E m \in Names \ {n} :
    Run([op |-> "move", from |-> P(cwd, n), to |-> P(cwd, m)], "run")

\* The confirmation names the open file when its unsaved text goes too: drops is
\* the text the user agreed to lose, as it is for a reload of NBT.
DeleteEntries(names) ==
    /\ Deletes /\ names # {} /\ Press /\ busy' = TRUE
    /\ Ask([kind |-> "delete", dir |-> cwd, todo |-> names, gone |-> {}, open |-> editor.path,
            drops |-> IF editor.dirty /\ \E n \in names : editor.path \in Under(P(cwd, n))
                      THEN editor.content ELSE None])
    /\ UNCHANGED <<disk, stopped, cwd, entries, selected, editor, nbt>>
Delete(n) == DeleteEntries({n})
DeleteSelected == DeleteEntries(entries \cap selected)

-----------------------------------------------------------------------------
(* The text editor. Unsaved text is given up only after a confirmation, which  *)
(* each action here takes as given.                                            *)

OpenEditor(n, names) ==
    /\ n \in Texts /\ ~busy /\ ~editor.busy /\ Press /\ selected' = names
    /\ editor' = [NoText EXCEPT !.path = P(cwd, n), !.busy = TRUE]
    /\ Ask([kind |-> "open", path |-> P(cwd, n)])
    /\ UNCHANGED <<disk, stopped, cwd, entries, busy, nbt>>

NewFile ==
    /\ Writes /\ ~editor.busy /\ Press
    /\ \E n \in Texts : editor' = [NoText EXCEPT !.path = P(cwd, n), !.dirty = TRUE, !.revision = Absent, !.seen = {Absent}]
    /\ UNCHANGED <<disk, stopped, browser, nbt, requests>>

CloseEditor == /\ editor.path # None /\ ~editor.busy /\ Press /\ editor' = NoText
               /\ UNCHANGED <<disk, stopped, browser, nbt, requests>>

Editing == editor.path # None /\ ~editor.busy /\ editor.revision # None
\* Variant: the text stays editable while the browser is busy.
EditTextAnyway == /\ Editing /\ Press
                  /\ \E c \in Contents : editor' = [editor EXCEPT !.content = c, !.dirty = TRUE]
                  /\ UNCHANGED <<disk, stopped, browser, nbt, requests>>
EditText == /\ Writes /\ Editing /\ Press
            /\ \E c \in Contents : editor' = [editor EXCEPT !.content = c, !.dirty = TRUE]
            /\ UNCHANGED <<disk, stopped, browser, nbt, requests>>

SaveEditor(expected) ==
    /\ Editing /\ Press
    /\ editor' = [editor EXCEPT !.busy = TRUE]
    /\ Ask([kind |-> "save", step |-> "sent", path |-> editor.path, dir |-> cwd,
            content |-> editor.content, expected |-> expected])
    /\ UNCHANGED <<disk, stopped, browser, nbt>>

EditorPane == EditText \/ (Writes /\ SaveEditor(editor.revision)) \/ CloseEditor

KeepEditing == /\ Press /\ editor' = [editor EXCEPT !.conflict = None]
               /\ UNCHANGED <<disk, stopped, browser, nbt, requests>>
UseServerVersion ==
    /\ editor.conflict # Absent /\ Press
    /\ editor' = [editor EXCEPT !.content = editor.conflict, !.revision = editor.conflict,
                  !.dirty = FALSE, !.conflict = None]
    /\ UNCHANGED <<disk, stopped, browser, nbt, requests>>
Review == /\ editor.conflict # None /\ ~editor.busy
          /\ KeepEditing \/ UseServerVersion \/ SaveEditor(editor.conflict)

-----------------------------------------------------------------------------
(* The NBT editor, which takes the place of the browser.                       *)

ReadNBT(p, drops) == Ask([kind |-> "nbtread", path |-> p, drops |-> drops])
OpenNBT(n, names) ==
    /\ n \in Tags /\ ~busy /\ ~editor.busy /\ Press /\ selected' = names
    /\ editor' = [editor EXCEPT !.path = None, !.dirty = FALSE]
    /\ nbt' = [NoNBT EXCEPT !.path = P(cwd, n), !.busy = TRUE]
    /\ ReadNBT(P(cwd, n), None)
    /\ UNCHANGED <<disk, stopped, cwd, entries, busy>>

\* Reload, Reload saved file and Try again; unsaved changes after confirmation.
ReloadNBT == /\ ~nbt.busy /\ Press /\ nbt' = [nbt EXCEPT !.busy = TRUE]
             /\ ReadNBT(nbt.path, IF nbt.dirty THEN nbt.root ELSE None)
             /\ UNCHANGED <<disk, stopped, browser, editor>>
CloseNBT == /\ ~nbt.busy /\ Press /\ nbt' = NoNBT /\ Ask(List(cwd, "load"))
            /\ UNCHANGED <<disk, stopped, browser, editor>>

\* A value out of range or a name used twice; adding refuses the latter.
Valid(doc) == doc # Broken
Changes(docs) == /\ nbt.editable /\ stopped /\ ~nbt.busy /\ "write" \in Permissions /\ Press
                 /\ \E doc \in docs : nbt' = [nbt EXCEPT !.root = doc, !.dirty = TRUE]
                 /\ UNCHANGED <<disk, stopped, browser, editor, requests>>
TagFields == Changes(Contents \cup {Broken})
AddTag == Changes(IF Valid(nbt.root) THEN Contents ELSE {Broken})
QuickFields == Changes(Contents \cup {Broken})

SaveNBT ==
    /\ nbt.dirty /\ nbt.editable /\ stopped /\ ~nbt.busy /\ ~nbt.conflict
    /\ Valid(nbt.root) /\ Press /\ nbt' = [nbt EXCEPT !.busy = TRUE]
    /\ Ask([kind |-> "nbtsave", path |-> nbt.path, content |-> nbt.root, expected |-> nbt.revision])
    /\ UNCHANGED <<disk, stopped, browser, editor>>

NBTPage == /\ nbt.path # None
           /\ ReloadNBT \/ CloseNBT \/ SaveNBT \/ TagFields \/ AddTag \/ QuickFields

-----------------------------------------------------------------------------
(* What the user can reach: the buttons and menus of the page.                 *)

\* A click on a name selects it and opens it.
EntryClick(n) == (n = Folder /\ EnterFolder) \/ OpenNBT(n, {n}) \/ OpenEditor(n, {n})

Toolbar == Upload \/ Mkdir \/ NewFile \/ ArchiveSelected \/ DeleteSelected \/ Refresh
UrlForm == FromUrl
SelectionHeader == SelectAll
EntryRow == \E n \in entries :
    \/ SelectEntry(n) \/ EntryClick(n) \/ OpenNBT(n, selected) \/ OpenEditor(n, selected)
    \/ Unzip \/ Archive \/ Rename(n) \/ Delete(n)
\* The menu of an entry selects it, or is that of the selected entries.
EntryMenu == \E n \in entries :
    \/ ContextEntry(n)
    \/ /\ n \in selected /\ Cardinality(selected) > 1 /\ (ArchiveSelected \/ DeleteSelected)
    \/ /\ selected = {n}
       /\ \/ ~editor.busy /\ EntryClick(n)
          \/ Unzip \/ Archive \/ Rename(n) \/ Delete(n)
FolderMenu == \/ NewFile \/ Mkdir \/ Upload \/ FromUrl \/ Refresh
              \/ ArchiveSelected \/ DeleteSelected

BrowserPage ==
    /\ Browsing
    /\ \/ Toolbar \/ UrlForm \/ Crumbs \/ SelectionHeader \/ SelectRange
       \/ EntryRow \/ EntryMenu \/ FolderMenu \/ EditorPane

-----------------------------------------------------------------------------
(* Answers. A request ends with one of them, or fails without having worked;   *)
(* a save may also have worked when its answer is lost.                        *)

Done(r) == requests' = requests \ {r}
Then(r, next) == requests' = (requests \ {r}) \cup {next}

\* What the handler does last: finally, and after run().
Ends(how, left) ==
    /\ busy' = (busy /\ how \notin {"run", "zip"})
    /\ selected' = IF how = "zip" THEN {} ELSE left
    /\ editor' = [editor EXCEPT !.busy = @ /\ how # "save"]

\* The server reads the folder, and the page takes the answer of any load, also of
\* one that was made for another folder or overtaken by a change.
ListRead(r) ==
    /\ r.got = None /\ Then(r, [r EXCEPT !.got = Listing(r.dir)]) /\ Quiet
    /\ UNCHANGED <<disk, stopped, browser, editor, nbt>>
Listed(r) ==
    /\ r.got # None /\ Done(r) /\ entries' = r.got /\ Ends(r.ends, selected \cap r.got)
    /\ history' = [history EXCEPT !.stale = r.dir # cwd \/ r.got # Listing(r.dir)]
    /\ UNCHANGED <<disk, stopped, cwd, nbt, budget>>
ListFails(r) ==
    /\ Fails /\ history' = [history EXCEPT !.stale = TRUE] /\ Done(r) /\ Ends(r.ends, selected)
    /\ UNCHANGED <<disk, stopped, cwd, entries, nbt>>

\* Variant: the listing is not asked for again.
RunsBlindly(r) ==
    /\ Possible(r.effect) /\ disk' = Does(r.effect) /\ Done(r) /\ Ends(r.ends, selected)
    /\ Between /\ UNCHANGED <<stopped, cwd, entries, nbt>>
Runs(r) ==
    /\ Possible(r.effect) /\ disk' = Does(r.effect) /\ Then(r, List(r.dir, r.ends))
    /\ Between /\ UNCHANGED <<stopped, browser, editor, nbt>>
RunFails(r) ==
    /\ IF Possible(r.effect) THEN NetFails ELSE Quiet
    /\ Done(r) /\ Ends(r.ends, selected)
    /\ UNCHANGED <<disk, stopped, cwd, entries, nbt>>

\* handleDeleteEntries goes on after a failure; an open file that goes is closed.
First(r) == CHOOSE n \in Names \cup {Folder} : n \in r.todo \/ r.todo = {}
Deleted(r, n) ==
    /\ r.todo # {} /\ disk[P(r.dir, n)] # Absent /\ disk' = Drop(P(r.dir, n)) /\ Quiet
    /\ Then(r, [r EXCEPT !.todo = @ \ {n}, !.gone = @ \cup {n}])
    /\ editor' = IF r.open \in Under(P(r.dir, n)) THEN NoText ELSE editor
    /\ UNCHANGED <<stopped, browser, nbt>>
DeleteFails(r, n) ==
    /\ r.todo # {}
    /\ IF disk[P(r.dir, n)] # Absent THEN NetFails ELSE Quiet
    /\ Then(r, [r EXCEPT !.todo = @ \ {n}])
    /\ UNCHANGED <<disk, stopped, browser, editor, nbt>>
DeleteEnds(r) ==
    /\ r.todo = {} /\ selected' = selected \ r.gone /\ Then(r, List(r.dir, "run")) /\ Quiet
    /\ UNCHANGED <<disk, stopped, cwd, entries, busy, editor, nbt>>

Opened(r) ==
    /\ disk[r.path] \in Contents /\ Done(r) /\ Quiet
    /\ editor' = [editor EXCEPT !.content = disk[r.path], !.revision = disk[r.path],
                  !.busy = FALSE, !.seen = {disk[r.path]}]
    /\ UNCHANGED <<disk, stopped, browser, nbt>>
OpenFails(r) ==
    /\ IF disk[r.path] \in Contents THEN NetFails ELSE Quiet
    /\ Done(r) /\ editor' = [editor EXCEPT !.busy = FALSE]
    /\ UNCHANGED <<disk, stopped, browser, nbt>>

\* WriteFileContent: compare, under the mutex.
Compares(r) ==
    /\ r.step = "sent" /\ ~Publishing /\ disk[r.path] = r.expected
    /\ Then(r, [r EXCEPT !.step = "compared"]) /\ Quiet
    /\ UNCHANGED <<disk, stopped, browser, editor, nbt>>
\* Variant: on a conflict the page takes over the revision without a review.
ConflictAdopted(r) ==
    /\ r.step = "sent" /\ ~Publishing /\ disk[r.path] \in (Contents \cup {Absent}) \ {r.expected}
    /\ Done(r) /\ Quiet
    /\ editor' = [editor EXCEPT !.busy = FALSE, !.revision = disk[r.path]]
    /\ UNCHANGED <<disk, stopped, browser, nbt>>
Conflicts(r) ==
    /\ r.step = "sent" /\ ~Publishing /\ disk[r.path] \in (Contents \cup {Absent}) \ {r.expected}
    /\ Done(r) /\ Quiet
    /\ editor' = [editor EXCEPT !.busy = FALSE, !.conflict = disk[r.path], !.seen = @ \cup {disk[r.path]}]
    /\ UNCHANGED <<disk, stopped, browser, nbt>>
\* Then publish. The page takes over the revision and lists the folder again.
Saved(r) ==
    /\ r.step = "compared" /\ disk' = Put(r.path, r.content) /\ Quiet
    /\ Then(r, List(r.dir, "save"))
    /\ editor' = [editor EXCEPT !.revision = r.content, !.conflict = None, !.dirty = FALSE,
                  !.seen = {r.content}]
    /\ UNCHANGED <<stopped, browser, nbt>>
SaveFails(r) ==
    /\ Fails /\ Done(r) /\ editor' = [editor EXCEPT !.busy = FALSE]
    /\ \/ UNCHANGED <<disk, history>>
       \/ /\ r.step = "compared" /\ disk' = Put(r.path, r.content)
          /\ history' = [history EXCEPT !.stale = TRUE]
    /\ UNCHANGED <<stopped, browser, nbt>>

NBTRead(r) ==
    /\ disk[r.path] \in Contents /\ Done(r) /\ Quiet
    /\ nbt' = [nbt EXCEPT !.root = disk[r.path], !.revision = disk[r.path], !.dirty = FALSE,
               !.editable = stopped, !.conflict = FALSE, !.busy = FALSE, !.seen = {disk[r.path]}]
    /\ UNCHANGED <<disk, stopped, browser, editor>>
\* WriteNBT: refused while the server runs, and by another revision.
NBTSaved(r) ==
    /\ stopped /\ disk[r.path] = r.expected /\ disk' = Put(r.path, r.content)
    /\ Done(r) /\ Quiet
    /\ nbt' = [nbt EXCEPT !.root = r.content, !.revision = r.content, !.dirty = FALSE,
               !.editable = TRUE, !.busy = FALSE, !.seen = {r.content}]
    /\ UNCHANGED <<stopped, browser, editor>>
NBTRefused(r) ==
    /\ ~stopped \/ disk[r.path] # r.expected
    /\ Done(r) /\ Quiet /\ nbt' = [nbt EXCEPT !.busy = FALSE, !.conflict = stopped]
    /\ UNCHANGED <<disk, stopped, browser, editor>>
NBTReadFails(r) ==
    /\ IF disk[r.path] \in Contents THEN NetFails ELSE Quiet
    /\ Done(r) /\ nbt' = [nbt EXCEPT !.busy = FALSE]
    /\ UNCHANGED <<disk, stopped, browser, editor>>
NBTSaveFails(r) ==
    /\ NetFails /\ Done(r) /\ nbt' = [nbt EXCEPT !.busy = FALSE]
    /\ \/ disk' = disk
       \/ stopped /\ disk[r.path] = r.expected /\ disk' = Put(r.path, r.content)
    /\ UNCHANGED <<stopped, browser, editor>>

Answers == \E r \in requests :
    \/ r.kind = "list" /\ (ListRead(r) \/ Listed(r) \/ ListFails(r))
    \/ r.kind = "run" /\ (Runs(r) \/ RunFails(r))
    \/ r.kind = "delete" /\ (Deleted(r, First(r)) \/ DeleteFails(r, First(r)) \/ DeleteEnds(r))
    \/ r.kind = "open" /\ (Opened(r) \/ OpenFails(r))
    \/ r.kind = "save" /\ (Compares(r) \/ Conflicts(r) \/ Saved(r) \/ SaveFails(r))
    \/ r.kind = "nbtread" /\ (NBTRead(r) \/ NBTReadFails(r))
    \/ r.kind = "nbtsave" /\ (NBTSaved(r) \/ NBTRefused(r) \/ NBTSaveFails(r))

\* Others: an editor elsewhere, which holds the mutex; uploads, deletions and the
\* game, which do not; and the server starting or stopping.
Other == /\ budget.others > 0 /\ budget' = [budget EXCEPT !.others = @ - 1]
         /\ UNCHANGED <<browser, editor, nbt, requests>>
OtherChanges ==
    /\ Other /\ UNCHANGED stopped
    /\ \E p \in Paths : \E c \in (Delivered \cup {Absent}) \ {disk[p]} :
         /\ disk[p] # Directory /\ p.name # Folder /\ disk' = IF c = Absent THEN Drop(p) ELSE Put(p, c)
         /\ history' = [history EXCEPT !.stale = TRUE, !.between = @ \/ Publishing]
Switches == Other /\ stopped' = ~stopped /\ UNCHANGED <<disk, history>>

Next == BrowserPage \/ Review \/ NBTPage \/ Answers \/ OtherChanges \/ Switches
Spec == Init /\ [][Next]_vars /\ WF_vars(Answers)
=============================================================================
