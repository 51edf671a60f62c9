------------------------- MODULE FileManagerProofs -------------------------
(* The Files tab: FInv is inductive, and so the three properties of FileManager *)
(* hold of any files, any users and any number of clicks, failures and changes  *)
(* by others.                                                                   *)
EXTENDS FileManagerInv, TLAPS

-----------------------------------------------------------------------------
(* Paths, requests and the bounds.                                             *)

\* A request of a kind has the fields of that kind.
LEMMA Kinds ==
    ASSUME NEW r \in AllReqs
    PROVE  /\ r.kind = "list" => r \in ListReqs
           /\ r.kind = "run" => r \in RunReqs
           /\ r.kind = "delete" => r \in DeleteReqs
           /\ r.kind = "open" => r \in OpenReqs
           /\ r.kind = "save" => r \in SaveReqs
           /\ r.kind = "nbtread" => r \in NBTReadReqs
           /\ r.kind = "nbtsave" => r \in NBTSaveReqs
BY DEF AllReqs, ListReqs, RunReqs, DeleteReqs, OpenReqs, SaveReqs, NBTReadReqs, NBTSaveReqs

\* The files the editors open are paths, and are not the folder.
LEMMA Places ==
    /\ TextPaths \subseteq Paths /\ TagPaths \subseteq Paths /\ TextPaths \cap TagPaths = {}
    /\ P(Root, Folder) \in Paths /\ P(Root, Folder) \notin TextPaths \cup TagPaths
    /\ None \notin TextPaths \cup TagPaths
    /\ \A d \in Folders, n \in Names \cup {Folder} : P(d, n) \in Paths
    /\ \A d \in Folders, n \in Texts : P(d, n) \in TextPaths
    /\ \A d \in Folders, n \in Tags : P(d, n) \in TagPaths
<1>1. /\ \A d \in Folders, n \in Names \cup {Folder} : P(d, n) \in Paths
      /\ \A d \in Folders, n \in Texts : P(d, n) \in TextPaths
      /\ \A d \in Folders, n \in Tags : P(d, n) \in TagPaths
  BY DEF Paths, Folders, TextPaths, TagPaths
<1>2. TextPaths \subseteq Paths /\ TagPaths \subseteq Paths /\ P(Root, Folder) \in Paths
  BY <1>1 DEF TextPaths, TagPaths, Names, Folders
<1>3. \A p \in TextPaths : p.name \in Texts BY DEF TextPaths, P
<1>4. \A p \in TagPaths : p.name \in Tags BY DEF TagPaths, P
<1>5. P(Root, Folder).name = Folder BY DEF P
<1>. QED BY <1>1, <1>2, <1>3, <1>4, <1>5, FilesAssumption DEF Names

\* A click spends an input, a failure spends one too.
LEMMA PressKept ==
    ASSUME TypeOK, Press
    PROVE  /\ budget' \in Budgets /\ history' \in Histories /\ history' = history
           /\ budget'.inputs # budget.inputs
<1>1. budget.inputs \in Nat /\ budget.inputs > 0 /\ budget'.inputs = budget.inputs - 1
  BY DEF TypeOK, Budgets, Press
<1>2. budget.inputs - 1 \in Nat BY <1>1
<1>3. budget' \in Budgets BY <1>2 DEF TypeOK, Budgets, Press
<1>4. budget'.inputs # budget.inputs BY <1>1
<1>. QED BY <1>3, <1>4 DEF Press, TypeOK

LEMMA FailsKept ==
    ASSUME TypeOK, Fails
    PROVE  budget' \in Budgets
<1>1. budget.fails \in Nat /\ budget.fails > 0 BY DEF TypeOK, Budgets, Fails
<1>2. budget.fails - 1 \in Nat BY <1>1
<1>. QED BY <1>2 DEF TypeOK, Budgets, Fails

LEMMA NetFailsKept ==
    ASSUME TypeOK, NetFails
    PROVE  budget' \in Budgets /\ history' \in Histories /\ history' = history
BY FailsKept DEF NetFails, TypeOK

\* A request that is sent locks the part of the page that sent it.
LEMMA AskKeepsLocks ==
    ASSUME LockInv, NEW n, requests' \subseteq requests \cup {n},
           EditorReq(n) => ~editor.busy /\ editor'.busy,
           BusyReq(n) => ~busy /\ busy',
           NBTReq(n) => ~nbt.busy /\ nbt'.busy,
           editor.busy => editor'.busy, busy => busy', nbt.busy => nbt'.busy
    PROVE  LockInv'
BY DEF LockInv

\* An answer releases it, unless another request takes its place.
LEMMA DoneKeepsLocks ==
    ASSUME LockInv, NEW r \in requests, requests' = requests \ {r},
           editor.busy => editor'.busy \/ EditorReq(r),
           busy => busy' \/ BusyReq(r), nbt.busy => nbt'.busy \/ NBTReq(r)
    PROVE  LockInv'
BY DEF LockInv

LEMMA ThenKeepsLocks ==
    ASSUME LockInv, NEW r \in requests, NEW n, requests' = (requests \ {r}) \cup {n},
           EditorReq(n) => EditorReq(r) /\ editor'.busy,
           BusyReq(n) => BusyReq(r) /\ busy',
           NBTReq(n) => NBTReq(r) /\ nbt'.busy,
           editor.busy => editor'.busy \/ EditorReq(r),
           busy => busy' \/ BusyReq(r), nbt.busy => nbt'.busy \/ NBTReq(r)
    PROVE  LockInv'
BY DEF LockInv

\* A click that sends nothing and one that sends a request keep what is shown.
LEMMA PressKeepsShown ==
    ASSUME FInv, Press, cwd' = cwd, entries' = entries, disk' = disk, requests' = requests
    PROVE  ShownInv'
BY PressKept DEF FInv, ShownInv, Fresh, Listing, BusyReq

LEMMA AskKeepsShown ==
    ASSUME FInv, Press, NEW n, requests' = requests \cup {n}, BusyReq(n) => n.dir = cwd',
           cwd' = cwd \/ ~busy,
           n.kind = "list" \/ (cwd' = cwd /\ entries' = entries /\ disk' = disk)
    PROVE  ShownInv'
<1>1. history' = history BY PressKept DEF FInv
<1>2. \A r \in requests : BusyReq(r) => r.dir = cwd' BY DEF FInv, ShownInv, LockInv
<1>3. Fresh' => \/ entries' = Listing(cwd)'
                \/ \E r \in requests' : r.kind \in {"list", "delete"}
  BY <1>1 DEF FInv, ShownInv, Fresh, Listing
<1>4. \A r \in requests' : BusyReq(r) => r.dir = cwd' BY <1>2
<1>. QED BY <1>3, <1>4 DEF ShownInv, BusyReq

\* What the editors rely on is kept by a step that leaves them alone.
LEMMA TextKept ==
    ASSUME TextInv, editor' = editor, NEW n, requests' \subseteq requests \cup {n},
           n.kind \notin {"open", "save", "delete"} \/ n \in requests,
           \A r \in requests : r.kind = "save" /\ r.step = "compared" /\ ~history'.between
               => ~history.between /\ disk'[r.path] = disk[r.path]
    PROVE  TextInv'
BY DEF TextInv, SavesShown, DropsAgreed

LEMMA NBTKept ==
    ASSUME NBTInv, nbt' = nbt, cwd' = cwd \/ nbt.path = None,
           NEW n, requests' \subseteq requests \cup {n},
           n.kind \notin {"nbtread", "nbtsave"} \/ n \in requests
    PROVE  NBTInv'
BY DEF NBTInv

\* An editor with nothing open.
LEMMA Nothing == NoText \in Editors /\ NoNBT \in NBTs
<1>1. Empty \in Contents /\ None \in Revisions BY FilesAssumption DEF Revisions
<1>. QED BY <1>1 DEF NoText, NoNBT, Editors, NBTs

-----------------------------------------------------------------------------
(* Clicks.                                                                     *)

\* Another folder is shown.
LEMMA GoesKeeps ==
    ASSUME FInv, Browsing, NEW d \in Folders, Goes(d)
    PROVE  FInv'
<1> DEFINE n == List(d, "load")
<1>1. TypeOK /\ LockInv /\ TextInv /\ NBTInv /\ Press BY DEF FInv, Goes
<1>2. requests' = requests \cup {n} BY DEF Goes, Ask
<1>3. n \in ListReqs /\ n.kind = "list" /\ n.dir = d /\ n.ends = "load" BY DEF ListReqs, List
<1> HIDE DEF n
<1>4. TypeOK' BY <1>1, <1>2, <1>3, PressKept DEF Goes, TypeOK, AllReqs
<1>5. LockInv' BY <1>1, <1>2, <1>3, AskKeepsLocks DEF Goes, EditorReq, BusyReq, NBTReq
<1>6. TextInv' BY <1>1, <1>2, <1>3, PressKept, TextKept DEF Goes
<1>7. NBTInv' BY <1>1, <1>2, <1>3, NBTKept DEF Goes, Browsing
<1>8. ShownInv' BY <1>1, <1>2, <1>3, AskKeepsShown DEF BusyReq, Goes
<1>. QED BY <1>4, <1>5, <1>6, <1>7, <1>8 DEF FInv

LEMMA RefreshKeeps ==
    ASSUME FInv, Refresh
    PROVE  FInv'
<1> DEFINE n == List(cwd, "load")
<1>1. TypeOK /\ LockInv /\ TextInv /\ NBTInv /\ Press BY DEF FInv, Refresh
<1>2. requests' = requests \cup {n} BY DEF Refresh, Ask
<1>3. n \in ListReqs /\ n.kind = "list" /\ n.dir = cwd /\ n.ends = "load"
  BY <1>1 DEF ListReqs, List, TypeOK
<1>4. UNCHANGED <<disk, stopped, cwd, entries, selected, busy, editor, nbt>> BY DEF Refresh, browser
<1> HIDE DEF n
<1>5. TypeOK' BY <1>1, <1>2, <1>3, <1>4, PressKept DEF TypeOK, AllReqs
<1>6. LockInv' BY <1>1, <1>2, <1>3, <1>4, AskKeepsLocks DEF EditorReq, BusyReq, NBTReq
<1>7. TextInv' BY <1>1, <1>2, <1>3, <1>4, PressKept, TextKept
<1>8. NBTInv' BY <1>1, <1>2, <1>3, <1>4, NBTKept
<1>9. ShownInv' BY <1>1, <1>2, <1>3, <1>4, AskKeepsShown DEF BusyReq
<1>. QED BY <1>5, <1>6, <1>7, <1>8, <1>9 DEF FInv

\* Entries are selected.
LEMMA SelectKeeps ==
    ASSUME FInv, NEW names \in SUBSET entries, Select(names)
    PROVE  FInv'
<1>1. TypeOK /\ LockInv /\ TextInv /\ NBTInv /\ Press BY DEF FInv, Select
<1>2. TypeOK' BY <1>1, PressKept DEF Select, TypeOK
<1>3. LockInv' BY <1>1 DEF Select, LockInv
<1>4. TextInv' BY <1>1, PressKept DEF Select, TextInv, SavesShown, DropsAgreed
<1>5. NBTInv' BY <1>1 DEF Select, NBTInv
<1>6. ShownInv' BY <1>1, PressKeepsShown DEF Select
<1>. QED BY <1>2, <1>3, <1>4, <1>5, <1>6 DEF FInv

\* A change is asked for that locks the browser.
LEMMA RunKeeps ==
    ASSUME FInv, NEW e \in Effects, NEW ends \in {"run", "zip"}, Run(e, ends)
    PROVE  FInv'
<1> DEFINE n == [kind |-> "run", effect |-> e, dir |-> cwd, ends |-> ends]
<1>1. TypeOK /\ LockInv /\ TextInv /\ NBTInv /\ Press /\ ~busy BY DEF FInv, Run, Writes
<1>2. requests' = requests \cup {n} BY DEF Run, Ask
<1>3. n \in RunReqs /\ n.kind = "run" /\ n.dir = cwd BY <1>1 DEF RunReqs, TypeOK
<1> HIDE DEF n
<1>4. TypeOK' BY <1>1, <1>2, <1>3, PressKept DEF Run, TypeOK, AllReqs
<1>5. LockInv' BY <1>1, <1>2, <1>3, AskKeepsLocks DEF Run, EditorReq, BusyReq, NBTReq
<1>6. TextInv' BY <1>1, <1>2, <1>3, PressKept, TextKept DEF Run
<1>7. NBTInv' BY <1>1, <1>2, <1>3, NBTKept DEF Run
<1>8. ShownInv' BY <1>1, <1>2, <1>3, AskKeepsShown DEF BusyReq, Run
<1>. QED BY <1>4, <1>5, <1>6, <1>7, <1>8 DEF FInv

\* A deletion is confirmed for the text that is open now.
LEMMA DeleteEntriesKeeps ==
    ASSUME FInv, Browsing, NEW names \in SUBSET (Names \cup {Folder}), DeleteEntries(names)
    PROVE  FInv'
<1> DEFINE drops == IF editor.dirty /\ \E m \in names : editor.path \in Under(P(cwd, m))
                    THEN editor.content ELSE None
           n == [kind |-> "delete", dir |-> cwd, todo |-> names, gone |-> {}, open |-> editor.path,
                 drops |-> drops]
<1>1. TypeOK /\ LockInv /\ TextInv /\ NBTInv /\ Press /\ ~busy /\ ~editor.busy
  BY DEF FInv, DeleteEntries, Deletes
<1>2. requests' = requests \cup {n} BY DEF DeleteEntries, Ask
<1>3. drops \in Contents \cup {None} /\ editor.path \in TextPaths \cup {None} BY <1>1 DEF TypeOK, Editors
<1>4. \A m \in names : editor.dirty /\ editor.path \in Under(P(cwd, m)) => drops = editor.content
  OBVIOUS
<1> HIDE DEF drops
<1>5. n \in DeleteReqs BY <1>1, <1>3 DEF DeleteReqs, TypeOK
<1>6. /\ n.kind = "delete" /\ n.dir = cwd /\ n.todo = names /\ n.open = editor.path /\ n.drops = drops
  OBVIOUS
<1> HIDE DEF n
<1>7. TypeOK' BY <1>1, <1>2, <1>5, PressKept DEF DeleteEntries, TypeOK, AllReqs
<1>8. LockInv' BY <1>1, <1>2, <1>6, AskKeepsLocks DEF DeleteEntries, EditorReq, BusyReq, NBTReq
<1>9. TextInv'
  <2>1. UNCHANGED <<disk, editor>> /\ history'.between = history.between
    BY <1>1, PressKept DEF DeleteEntries
  <2>2. PICK q : q = n OBVIOUS
  <2>3. \A m \in q.todo : editor'.dirty /\ q.open \in Under(P(q.dir, m)) => q.drops = editor'.content
    BY <1>4, <1>6, <2>1, <2>2
  <2>4. ~editor'.busy /\ editor'.conflict = None BY <1>1, <2>1 DEF Browsing
  <2>5. DropsAgreed(q)' BY <2>3, <2>4 DEF DropsAgreed
  <2>6. SavesShown(q)' /\ q.kind # "open" BY <1>6, <2>2 DEF SavesShown
  <2>7. ASSUME NEW r \in requests
        PROVE  (r.kind = "open" => ~editor'.dirty /\ editor'.conflict = None) /\ SavesShown(r)' /\ DropsAgreed(r)'
    BY <1>1, <2>1 DEF TextInv, SavesShown, DropsAgreed
  <2>8. {editor'.revision, editor'.conflict} \subseteq editor'.seen \cup {None}
    BY <1>1, <2>1 DEF TextInv
  <2>. QED BY <1>2, <2>2, <2>5, <2>6, <2>7, <2>8 DEF TextInv
<1>10. NBTInv' BY <1>1, <1>2, <1>6, NBTKept DEF DeleteEntries
<1>11. ShownInv' BY <1>1, <1>2, <1>6, AskKeepsShown DEF BusyReq, DeleteEntries
<1>. QED BY <1>7, <1>8, <1>9, <1>10, <1>11 DEF FInv

\* A file is opened, or a new one begun.
LEMMA OpenEditorKeeps ==
    ASSUME FInv, NEW m, NEW names \in SUBSET entries, OpenEditor(m, names)
    PROVE  FInv'
<1> DEFINE n == [kind |-> "open", path |-> P(cwd, m)]
           new == [NoText EXCEPT !.path = P(cwd, m), !.busy = TRUE]
<1>1. /\ TypeOK /\ LockInv /\ TextInv /\ NBTInv /\ Press /\ ~busy /\ ~editor.busy /\ m \in Texts
      /\ editor' = new
  BY DEF FInv, OpenEditor
<1>2. requests' = requests \cup {n} BY DEF OpenEditor, Ask
<1>3. P(cwd, m) \in TextPaths BY <1>1, Places DEF TypeOK
<1>4. n \in OpenReqs /\ n.kind = "open" BY <1>3 DEF OpenReqs
<1>5. new \in Editors BY <1>3, Nothing DEF Editors
<1>6. new.busy /\ ~new.dirty /\ new.revision = None /\ new.conflict = None BY DEF NoText
<1> HIDE DEF n, new
<1>7. TypeOK' BY <1>1, <1>2, <1>4, <1>5, PressKept DEF OpenEditor, TypeOK, AllReqs
<1>8. LockInv' BY <1>1, <1>2, <1>4, <1>6, AskKeepsLocks DEF OpenEditor, EditorReq, BusyReq, NBTReq
<1>9. TextInv'
  <2>1. \A r \in requests : r.kind \notin {"save", "delete"} BY <1>1 DEF LockInv, EditorReq, BusyReq
  <2>. QED BY <1>1, <1>2, <1>4, <1>6, <2>1 DEF TextInv, SavesShown, DropsAgreed
<1>10. NBTInv' BY <1>1, <1>2, <1>4, NBTKept DEF OpenEditor
<1>11. ShownInv' BY <1>1, <1>2, <1>4, AskKeepsShown DEF BusyReq, OpenEditor
<1>. QED BY <1>7, <1>8, <1>9, <1>10, <1>11 DEF FInv

LEMMA NewFileKeeps ==
    ASSUME FInv, NewFile
    PROVE  FInv'
<1>1. TypeOK /\ LockInv /\ TextInv /\ NBTInv /\ Press /\ ~busy /\ ~editor.busy
  BY DEF FInv, NewFile, Writes
<1>2. PICK m \in Texts : editor' = [NoText EXCEPT !.path = P(cwd, m), !.dirty = TRUE,
                                      !.revision = Absent, !.seen = {Absent}]
  BY DEF NewFile
<1>3. P(cwd, m) \in TextPaths BY <1>1, Places DEF TypeOK
<1>4. editor' \in Editors BY <1>2, <1>3, Nothing DEF Editors, Revisions
<1>5. ~editor'.busy /\ editor'.revision = Absent /\ editor'.conflict = None /\ editor'.seen = {Absent}
  BY <1>2 DEF NoText
<1>6. UNCHANGED <<disk, stopped, cwd, entries, selected, busy, nbt, requests>> BY DEF NewFile, browser
<1>7. TypeOK' BY <1>1, <1>4, <1>6, PressKept DEF TypeOK
<1>8. \A r \in requests : ~EditorReq(r) /\ r.kind # "delete" BY <1>1 DEF LockInv, BusyReq
<1>9. LockInv' BY <1>1, <1>6, <1>8 DEF LockInv
<1>10. TextInv' BY <1>1, <1>5, <1>6, <1>8 DEF TextInv, SavesShown, DropsAgreed, EditorReq
<1>11. NBTInv' BY <1>1, <1>6 DEF NBTInv
<1>12. ShownInv' BY <1>1, <1>6, PressKeepsShown
<1>. QED BY <1>7, <1>9, <1>10, <1>11, <1>12 DEF FInv

LEMMA CloseEditorKeeps ==
    ASSUME FInv, CloseEditor
    PROVE  FInv'
<1>1. TypeOK /\ LockInv /\ TextInv /\ NBTInv /\ Press /\ ~editor.busy /\ editor' = NoText
  BY DEF FInv, CloseEditor
<1>2. UNCHANGED <<disk, stopped, cwd, entries, selected, busy, nbt, requests>>
  BY DEF CloseEditor, browser
<1>3. TypeOK' BY <1>1, <1>2, Nothing, PressKept DEF TypeOK
<1>4. \A r \in requests : ~EditorReq(r) BY <1>1 DEF LockInv
<1>5. LockInv' BY <1>1, <1>2, <1>4 DEF LockInv
<1>6. TextInv' BY <1>1, <1>2, <1>4 DEF TextInv, SavesShown, DropsAgreed, EditorReq, NoText
<1>7. NBTInv' BY <1>1, <1>2 DEF NBTInv
<1>8. ShownInv' BY <1>1, <1>2, PressKeepsShown
<1>. QED BY <1>3, <1>5, <1>6, <1>7, <1>8 DEF FInv

\* The text is typed, or what a conflict shows is taken or put aside.
LEMMA EditTextKeeps ==
    ASSUME FInv, EditText
    PROVE  FInv'
<1>1. TypeOK /\ LockInv /\ TextInv /\ NBTInv /\ Press /\ ~editor.busy /\ ~busy
  BY DEF FInv, EditText, Editing, Writes
<1>2. PICK c \in Contents : editor' = [editor EXCEPT !.content = c, !.dirty = TRUE] BY DEF EditText
<1>3. UNCHANGED <<disk, stopped, cwd, entries, selected, busy, nbt, requests>> BY DEF EditText, browser
<1>4. editor' \in Editors BY <1>1, <1>2 DEF TypeOK, Editors
<1>5. /\ editor'.busy = editor.busy /\ editor'.revision = editor.revision
      /\ editor'.conflict = editor.conflict /\ editor'.seen = editor.seen
  BY <1>1, <1>2 DEF TypeOK, Editors
<1>6. TypeOK' BY <1>1, <1>3, <1>4, PressKept DEF TypeOK
<1>7. \A r \in requests : ~EditorReq(r) /\ r.kind # "delete" BY <1>1 DEF LockInv, BusyReq
<1>8. LockInv' BY <1>1, <1>3, <1>7 DEF LockInv
<1>9. TextInv' BY <1>1, <1>3, <1>5, <1>7 DEF TextInv, SavesShown, DropsAgreed, EditorReq
<1>10. NBTInv' BY <1>1, <1>3 DEF NBTInv
<1>11. ShownInv' BY <1>1, <1>3, PressKeepsShown
<1>. QED BY <1>6, <1>8, <1>9, <1>10, <1>11 DEF FInv

LEMMA ReviewKeeps ==
    ASSUME FInv, editor.conflict # None, ~editor.busy, KeepEditing \/ UseServerVersion
    PROVE  FInv'
<1>1. TypeOK /\ LockInv /\ TextInv /\ NBTInv /\ Press BY DEF FInv, KeepEditing, UseServerVersion
<1>2. UNCHANGED <<disk, stopped, cwd, entries, selected, busy, nbt, requests>>
  BY DEF KeepEditing, UseServerVersion, browser
<1>3. editor.conflict \in Contents \cup {Absent} /\ None \in Revisions
  BY <1>1 DEF TypeOK, Editors, Revisions
<1>4. /\ editor' \in Editors /\ editor'.busy = editor.busy /\ editor'.conflict = None
      /\ editor'.seen = editor.seen /\ editor'.revision \in {editor.revision, editor.conflict}
  <2>1. CASE KeepEditing BY <1>1, <1>3, <2>1 DEF KeepEditing, TypeOK, Editors
  <2>2. CASE UseServerVersion BY <1>1, <1>3, <2>2 DEF UseServerVersion, TypeOK, Editors, Revisions
  <2>. QED BY <2>1, <2>2
<1>5. TypeOK' BY <1>1, <1>2, <1>4, PressKept DEF TypeOK
<1>6. \A r \in requests : ~EditorReq(r) /\ r.kind # "delete"
  BY <1>1 DEF LockInv, TextInv, DropsAgreed
<1>7. LockInv' BY <1>1, <1>2, <1>6 DEF LockInv
<1>8. TextInv' BY <1>1, <1>2, <1>4, <1>6 DEF TextInv, SavesShown, DropsAgreed, EditorReq
<1>9. NBTInv' BY <1>1, <1>2 DEF NBTInv
<1>10. ShownInv' BY <1>1, <1>2, PressKeepsShown
<1>. QED BY <1>5, <1>7, <1>8, <1>9, <1>10 DEF FInv

\* The text is sent to be saved over a revision that was shown.
LEMMA SaveEditorKeeps ==
    ASSUME FInv, NEW expected \in {editor.revision, editor.conflict}, expected # None,
           ~busy \/ editor.conflict # None, SaveEditor(expected)
    PROVE  FInv'
<1> DEFINE n == [kind |-> "save", step |-> "sent", path |-> editor.path, dir |-> cwd,
                 content |-> editor.content, expected |-> expected]
<1>1. /\ TypeOK /\ LockInv /\ TextInv /\ NBTInv /\ Press /\ ~editor.busy /\ editor.path # None
      /\ editor' = [editor EXCEPT !.busy = TRUE]
  BY DEF FInv, SaveEditor, Editing
<1>2. requests' = requests \cup {n} BY DEF SaveEditor, Ask
<1>3. UNCHANGED <<disk, stopped, cwd, entries, selected, busy, nbt>> BY DEF SaveEditor, browser
<1>4. /\ editor' \in Editors /\ editor'.busy /\ editor'.dirty = editor.dirty
      /\ editor'.revision = editor.revision /\ editor'.conflict = editor.conflict
      /\ editor'.seen = editor.seen
  BY <1>1 DEF TypeOK, Editors
<1>5. expected \in Contents \cup {Absent} /\ expected \in editor.seen
  BY <1>1 DEF TypeOK, Editors, Revisions, TextInv
<1>6. n \in SaveReqs BY <1>1, <1>5 DEF SaveReqs, TypeOK, Editors
<1>7. n.kind = "save" /\ n.dir = cwd /\ n.step = "sent" /\ n.expected = expected OBVIOUS
<1> HIDE DEF n
<1>8. TypeOK' BY <1>1, <1>2, <1>3, <1>4, <1>6, PressKept DEF TypeOK, AllReqs
<1>9. LockInv' BY <1>1, <1>2, <1>3, <1>4, <1>7, AskKeepsLocks DEF EditorReq, BusyReq, NBTReq
<1>10. \A r \in requests : r.kind \notin {"open", "save", "delete"}
  BY <1>1 DEF LockInv, EditorReq, BusyReq, TextInv, DropsAgreed
<1>11. TextInv' BY <1>1, <1>2, <1>4, <1>5, <1>7, <1>10 DEF TextInv, SavesShown, DropsAgreed
<1>12. NBTInv' BY <1>1, <1>2, <1>3, <1>7, NBTKept
<1>13. ShownInv' BY <1>1, <1>2, <1>3, <1>7, AskKeepsShown DEF BusyReq
<1>. QED BY <1>8, <1>9, <1>11, <1>12, <1>13 DEF FInv

\* The NBT editor opens a file, or reads it again.
LEMMA OpenNBTKeeps ==
    ASSUME FInv, Browsing, NEW m, NEW names \in SUBSET entries, OpenNBT(m, names)
    PROVE  FInv'
<1> DEFINE n == [kind |-> "nbtread", path |-> P(cwd, m), drops |-> None]
           new == [NoNBT EXCEPT !.path = P(cwd, m), !.busy = TRUE]
<1>1. /\ TypeOK /\ LockInv /\ TextInv /\ NBTInv /\ Press /\ ~busy /\ ~editor.busy /\ m \in Tags
      /\ nbt' = new /\ editor' = [editor EXCEPT !.path = None, !.dirty = FALSE]
  BY DEF FInv, OpenNBT
<1>2. requests' = requests \cup {n} BY DEF OpenNBT, ReadNBT, Ask
<1>3. P(cwd, m) \in TagPaths /\ P(cwd, m) # None /\ P(cwd, m).dir = cwd
  BY <1>1, Places DEF TypeOK, P
<1>4. n \in NBTReadReqs /\ n.kind = "nbtread" BY <1>3 DEF NBTReadReqs
<1>5. new \in NBTs BY <1>3, Nothing DEF NBTs
<1>6. /\ new.busy /\ ~new.dirty /\ ~new.editable /\ new.path # None /\ new.path.dir = cwd
  BY <1>3 DEF NoNBT
<1>7. /\ editor' \in Editors /\ editor'.busy = editor.busy /\ editor'.revision = editor.revision
      /\ editor'.conflict = editor.conflict /\ editor'.seen = editor.seen
  BY <1>1 DEF TypeOK, Editors
<1> HIDE DEF n, new
<1>8. TypeOK' BY <1>1, <1>2, <1>4, <1>5, <1>7, PressKept DEF OpenNBT, TypeOK, AllReqs
<1>9. ~nbt.busy BY <1>1 DEF Browsing, NBTInv
<1>10. LockInv'
  BY <1>1, <1>2, <1>4, <1>6, <1>7, <1>9, AskKeepsLocks DEF OpenNBT, EditorReq, BusyReq, NBTReq
<1>11. \A r \in requests : r.kind \notin {"open", "save", "delete", "nbtread", "nbtsave"}
  BY <1>1, <1>9 DEF LockInv, EditorReq, BusyReq, NBTReq
<1>12. TextInv' BY <1>1, <1>2, <1>4, <1>7, <1>11 DEF TextInv, SavesShown, DropsAgreed
<1>13. NBTInv' BY <1>1, <1>2, <1>4, <1>6, <1>11 DEF NBTInv, OpenNBT
<1>14. ShownInv' BY <1>1, <1>2, <1>4, AskKeepsShown DEF BusyReq, OpenNBT
<1>. QED BY <1>8, <1>10, <1>12, <1>13, <1>14 DEF FInv

LEMMA ReloadNBTKeeps ==
    ASSUME FInv, nbt.path # None, ReloadNBT
    PROVE  FInv'
<1> DEFINE drops == IF nbt.dirty THEN nbt.root ELSE None
           n == [kind |-> "nbtread", path |-> nbt.path, drops |-> drops]
<1>1. /\ TypeOK /\ LockInv /\ TextInv /\ NBTInv /\ Press /\ ~nbt.busy
      /\ nbt' = [nbt EXCEPT !.busy = TRUE]
  BY DEF FInv, ReloadNBT
<1>2. requests' = requests \cup {n} BY DEF ReloadNBT, ReadNBT, Ask
<1>3. UNCHANGED <<disk, stopped, cwd, entries, selected, busy, editor>> BY DEF ReloadNBT, browser
<1>4. drops \in Contents \cup {Broken, None} /\ (nbt.dirty => drops = nbt.root)
  BY <1>1 DEF TypeOK, NBTs, NBTInv
<1> HIDE DEF drops
<1>5. n \in NBTReadReqs BY <1>1, <1>4 DEF NBTReadReqs, TypeOK, NBTs
<1>6. n.kind = "nbtread" /\ n.drops = drops OBVIOUS
<1>7. /\ nbt' \in NBTs /\ nbt'.busy /\ nbt'.dirty = nbt.dirty /\ nbt'.root = nbt.root
      /\ nbt'.editable = nbt.editable /\ nbt'.revision = nbt.revision /\ nbt'.seen = nbt.seen
      /\ nbt'.path = nbt.path
  BY <1>1 DEF TypeOK, NBTs
<1> HIDE DEF n
<1>8. TypeOK' BY <1>1, <1>2, <1>3, <1>5, <1>7, PressKept DEF TypeOK, AllReqs
<1>9. LockInv' BY <1>1, <1>2, <1>3, <1>6, <1>7, AskKeepsLocks DEF EditorReq, BusyReq, NBTReq
<1>10. TextInv' BY <1>1, <1>2, <1>3, <1>6, PressKept, TextKept
<1>11. \A r \in requests : ~NBTReq(r) BY <1>1 DEF LockInv
<1>12. NBTInv' BY <1>1, <1>2, <1>3, <1>4, <1>6, <1>7, <1>11 DEF NBTInv, NBTReq
<1>13. ShownInv' BY <1>1, <1>2, <1>3, <1>6, AskKeepsShown DEF BusyReq
<1>. QED BY <1>8, <1>9, <1>10, <1>12, <1>13 DEF FInv

LEMMA CloseNBTKeeps ==
    ASSUME FInv, CloseNBT
    PROVE  FInv'
<1> DEFINE n == List(cwd, "load")
<1>1. TypeOK /\ LockInv /\ TextInv /\ NBTInv /\ Press /\ ~nbt.busy /\ nbt' = NoNBT
  BY DEF FInv, CloseNBT
<1>2. requests' = requests \cup {n} BY DEF CloseNBT, Ask
<1>3. n \in ListReqs /\ n.kind = "list" /\ n.dir = cwd /\ n.ends = "load"
  BY <1>1 DEF ListReqs, List, TypeOK
<1>4. UNCHANGED <<disk, stopped, cwd, entries, selected, busy, editor>> BY DEF CloseNBT, browser
<1> HIDE DEF n
<1>5. TypeOK' BY <1>1, <1>2, <1>3, <1>4, Nothing, PressKept DEF TypeOK, AllReqs
<1>6. LockInv' BY <1>1, <1>2, <1>3, <1>4, AskKeepsLocks DEF EditorReq, BusyReq, NBTReq
<1>7. TextInv' BY <1>1, <1>2, <1>3, <1>4, PressKept, TextKept
<1>8. NBTInv' BY <1>1, <1>2, <1>3 DEF NBTInv, NoNBT, LockInv, NBTReq
<1>9. ShownInv' BY <1>1, <1>2, <1>3, <1>4, AskKeepsShown DEF BusyReq
<1>. QED BY <1>5, <1>6, <1>7, <1>8, <1>9 DEF FInv

\* A tag is changed or added.
LEMMA ChangesKeeps ==
    ASSUME FInv, NEW docs \in SUBSET (Contents \cup {Broken}), Changes(docs)
    PROVE  FInv'
<1>1. TypeOK /\ LockInv /\ TextInv /\ NBTInv /\ Press /\ ~nbt.busy /\ nbt.editable BY DEF FInv, Changes
<1>2. PICK doc \in docs : nbt' = [nbt EXCEPT !.root = doc, !.dirty = TRUE] BY DEF Changes
<1>3. UNCHANGED <<disk, stopped, cwd, entries, selected, busy, editor, requests>> BY DEF Changes, browser
<1>4. /\ nbt' \in NBTs /\ nbt'.busy = nbt.busy /\ nbt'.root = doc /\ nbt'.path = nbt.path
      /\ nbt'.editable = nbt.editable /\ nbt'.revision = nbt.revision /\ nbt'.seen = nbt.seen
  BY <1>1, <1>2 DEF TypeOK, NBTs
<1>5. TypeOK' BY <1>1, <1>3, <1>4, PressKept DEF TypeOK
<1>6. \A r \in requests : ~NBTReq(r) BY <1>1 DEF LockInv
<1>7. LockInv' BY <1>1, <1>3, <1>4 DEF LockInv
<1>8. TextInv' BY <1>1, <1>3, PressKept DEF TextInv, SavesShown, DropsAgreed
<1>9. NBTInv' BY <1>1, <1>3, <1>4, <1>6 DEF NBTInv, NBTReq
<1>10. ShownInv' BY <1>1, <1>3, PressKeepsShown
<1>. QED BY <1>5, <1>7, <1>8, <1>9, <1>10 DEF FInv

LEMMA SaveNBTKeeps ==
    ASSUME FInv, nbt.path # None, SaveNBT
    PROVE  FInv'
<1> DEFINE n == [kind |-> "nbtsave", path |-> nbt.path, content |-> nbt.root, expected |-> nbt.revision]
<1>1. /\ TypeOK /\ LockInv /\ TextInv /\ NBTInv /\ Press /\ ~nbt.busy /\ nbt.dirty /\ nbt.editable
      /\ nbt.root # Broken /\ nbt' = [nbt EXCEPT !.busy = TRUE]
  BY DEF FInv, SaveNBT, Valid
<1>2. requests' = requests \cup {n} BY DEF SaveNBT, Ask
<1>3. UNCHANGED <<disk, stopped, cwd, entries, selected, busy, editor>> BY DEF SaveNBT, browser
<1>4. nbt.root \in Contents /\ nbt.revision \in Contents /\ nbt.revision \in nbt.seen
  BY <1>1 DEF TypeOK, NBTs, NBTInv
<1>5. n \in NBTSaveReqs BY <1>1, <1>4 DEF NBTSaveReqs, TypeOK, NBTs
<1>6. n.kind = "nbtsave" /\ n.content = nbt.root /\ n.path = nbt.path /\ n.expected = nbt.revision OBVIOUS
<1>7. /\ nbt' \in NBTs /\ nbt'.busy /\ nbt'.dirty = nbt.dirty /\ nbt'.root = nbt.root
      /\ nbt'.editable = nbt.editable /\ nbt'.revision = nbt.revision /\ nbt'.seen = nbt.seen
      /\ nbt'.path = nbt.path
  BY <1>1 DEF TypeOK, NBTs
<1> HIDE DEF n
<1>8. TypeOK' BY <1>1, <1>2, <1>3, <1>5, <1>7, PressKept DEF TypeOK, AllReqs
<1>9. LockInv' BY <1>1, <1>2, <1>3, <1>6, <1>7, AskKeepsLocks DEF EditorReq, BusyReq, NBTReq
<1>10. TextInv' BY <1>1, <1>2, <1>3, <1>6, PressKept, TextKept
<1>11. \A r \in requests : ~NBTReq(r) BY <1>1 DEF LockInv
<1>12. NBTInv' BY <1>1, <1>2, <1>3, <1>4, <1>6, <1>7, <1>11 DEF NBTInv, NBTReq
<1>13. ShownInv' BY <1>1, <1>2, <1>3, <1>6, AskKeepsShown DEF BusyReq
<1>. QED BY <1>8, <1>9, <1>10, <1>12, <1>13 DEF FInv

\* What the buttons of the page can do, in the browser,
LEMMA BrowserPageKeeps ==
    ASSUME FInv, BrowserPage
    PROVE  FInv'
<1>1. TypeOK /\ Browsing /\ cwd \in Folders /\ entries \subseteq Names \cup {Folder}
      /\ selected \subseteq entries
  BY DEF FInv, TypeOK, BrowserPage
<1>2. CASE Crumbs \/ EnterFolder BY <1>1, <1>2, GoesKeeps DEF Crumbs, EnterFolder, Folders
<1>3. CASE Refresh BY <1>3, RefreshKeeps
<1>4. CASE SelectAll \/ SelectRange BY <1>1, <1>4, SelectKeeps DEF SelectAll, SelectRange
<1>5. ASSUME NEW n \in entries, SelectEntry(n) \/ ContextEntry(n) PROVE FInv'
  BY <1>1, <1>5, SelectKeeps DEF SelectEntry, ContextEntry
<1>6. ASSUME NEW d \in Folders, NEW ends \in {"run", "zip"}, Makes(d, ends) PROVE FInv'
  <2>1. PICK m \in Names, c \in Delivered : Run([op |-> "put", to |-> P(d, m), content |-> c], ends)
    BY <1>6 DEF Makes
  <2>2. [op |-> "put", to |-> P(d, m), content |-> c] \in Effects BY Places DEF Effects
  <2>. QED BY <2>1, <2>2, RunKeeps
<1>7. CASE Upload \/ FromUrl \/ Archive \/ ArchiveSelected \/ Unzip
  BY <1>1, <1>6, <1>7 DEF Upload, FromUrl, Archive, ArchiveSelected, Unzip, Folders
<1>8. CASE Mkdir
  <2>1. [op |-> "mkdir", to |-> P(Root, Folder)] \in Effects BY DEF Effects
  <2>. QED BY <1>8, <2>1, RunKeeps DEF Mkdir
<1>9. ASSUME NEW n, Rename(n) PROVE FInv'
  <2>1. PICK m \in Names \ {n} : n \in Names /\ Run([op |-> "move", from |-> P(cwd, n), to |-> P(cwd, m)], "run")
    BY <1>9 DEF Rename
  <2>2. [op |-> "move", from |-> P(cwd, n), to |-> P(cwd, m)] \in Effects
    BY <1>1, <2>1, Places DEF Effects
  <2>. QED BY <2>1, <2>2, RunKeeps
<1>10. ASSUME NEW n \in entries, Delete(n) PROVE FInv'
  BY <1>1, <1>10, DeleteEntriesKeeps DEF Delete
<1>11. CASE DeleteSelected BY <1>1, <1>11, DeleteEntriesKeeps DEF DeleteSelected
<1>12. ASSUME NEW n \in entries, EntryClick(n) PROVE FInv'
  BY <1>1, <1>2, <1>12, OpenNBTKeeps, OpenEditorKeeps DEF EntryClick
<1>13. CASE Toolbar BY <1>3, <1>7, <1>8, <1>11, <1>13, NewFileKeeps DEF Toolbar
<1>14. CASE EntryRow
  <2>1. PICK n \in entries : \/ SelectEntry(n) \/ EntryClick(n) \/ OpenNBT(n, selected)
                             \/ OpenEditor(n, selected) \/ Unzip \/ Archive \/ Rename(n) \/ Delete(n)
    BY <1>14 DEF EntryRow
  <2>. QED BY <1>1, <1>5, <1>7, <1>9, <1>10, <1>12, <2>1, OpenNBTKeeps, OpenEditorKeeps
<1>15. CASE EntryMenu
  <2>1. PICK n \in entries : \/ ContextEntry(n) \/ ArchiveSelected \/ DeleteSelected \/ EntryClick(n)
                             \/ Unzip \/ Archive \/ Rename(n) \/ Delete(n)
    BY <1>15 DEF EntryMenu
  <2>. QED BY <1>5, <1>7, <1>9, <1>10, <1>11, <1>12, <2>1
<1>16. CASE FolderMenu BY <1>3, <1>7, <1>8, <1>11, <1>16, NewFileKeeps DEF FolderMenu
<1>17. CASE EditorPane
  BY <1>17, EditTextKeeps, CloseEditorKeeps, SaveEditorKeeps DEF EditorPane, Writes, SaveEditor, Editing
<1>. QED BY <1>2, <1>4, <1>7, <1>13, <1>14, <1>15, <1>16, <1>17 DEF BrowserPage, UrlForm, SelectionHeader

\* in the review of a conflict, and in the NBT editor.
LEMMA DialogsKeep ==
    ASSUME FInv, Review \/ NBTPage
    PROVE  FInv'
<1>1. CASE Review
  BY <1>1, ReviewKeeps, SaveEditorKeeps DEF Review
<1>2. CASE NBTPage
  <2>1. CASE TagFields \/ AddTag \/ QuickFields
    <3>1. PICK docs \in SUBSET (Contents \cup {Broken}) : Changes(docs)
      BY <2>1 DEF TagFields, AddTag, QuickFields
    <3>. QED BY <3>1, ChangesKeeps
  <2>. QED BY <1>2, <2>1, ReloadNBTKeeps, CloseNBTKeeps, SaveNBTKeeps DEF NBTPage
<1>. QED BY <1>1, <1>2

-----------------------------------------------------------------------------
(* Answers.                                                                    *)

\* What a handler does last releases what its request had locked.
LEMMA EndsKept ==
    ASSUME TypeOK, NEW how, NEW left, Ends(how, left)
    PROVE  /\ editor' \in Editors /\ busy' \in BOOLEAN /\ selected' \subseteq left
           /\ editor'.busy = (editor.busy /\ how # "save") /\ busy' = (busy /\ how \notin {"run", "zip"})
           /\ editor'.path = editor.path /\ editor'.content = editor.content
           /\ editor'.dirty = editor.dirty /\ editor'.revision = editor.revision
           /\ editor'.conflict = editor.conflict /\ editor'.seen = editor.seen
<1>1. editor \in Editors /\ editor.busy \in BOOLEAN /\ busy \in BOOLEAN BY DEF TypeOK, Editors
<1>2. (how # "save") \in BOOLEAN /\ (how \notin {"run", "zip"}) \in BOOLEAN OBVIOUS
<1>3. (editor.busy /\ how # "save") \in BOOLEAN BY <1>1, <1>2
<1>4. editor' = [editor EXCEPT !.busy = (editor.busy /\ how # "save")] BY DEF Ends
<1>5. editor' \in Editors BY <1>1, <1>3, <1>4 DEF Editors
<1>6. /\ editor'.busy = (editor.busy /\ how # "save")
      /\ editor'.path = editor.path /\ editor'.content = editor.content
      /\ editor'.dirty = editor.dirty /\ editor'.revision = editor.revision
      /\ editor'.conflict = editor.conflict /\ editor'.seen = editor.seen
  BY <1>1, <1>4 DEF Editors
<1>7. busy' \in BOOLEAN /\ busy' = (busy /\ how \notin {"run", "zip"}) /\ selected' \subseteq left
  BY <1>1 DEF Ends
<1>. QED BY <1>5, <1>6, <1>7

\* The text editor keeps what it relies on when it is released.
LEMMA ReleaseKeepsText ==
    ASSUME TextInv, requests' \subseteq requests, disk' = disk,
           history'.between = history.between, editor'.busy => editor.busy,
           editor'.content = editor.content, editor'.dirty = editor.dirty,
           editor'.revision = editor.revision, editor'.conflict = editor.conflict,
           editor'.seen = editor.seen
    PROVE  TextInv'
BY DEF TextInv, SavesShown, DropsAgreed

\* What the NBT editor relies on when requests only end.
LEMMA DoneKeepsNBT ==
    ASSUME NBTInv, nbt' = nbt, cwd' = cwd, requests' \subseteq requests
    PROVE  NBTInv'
BY DEF NBTInv

\* The entries that are shown, when a request ends
LEMMA DoneKeepsShown ==
    ASSUME FInv, NEW r \in requests, requests' = requests \ {r}, cwd' = cwd, Fresh' => Fresh,
           r.kind \notin {"list", "delete"}, entries' = entries, Listing(cwd)' = Listing(cwd)
    PROVE  ShownInv'
<1>1. \A s \in requests' : BusyReq(s) => s.dir = cwd' BY DEF FInv, ShownInv
<1>2. Fresh' => \/ entries' = Listing(cwd)'
                \/ \E s \in requests' : s.kind \in {"list", "delete"}
  BY DEF FInv, ShownInv
<1>. QED BY <1>1, <1>2 DEF ShownInv, BusyReq

\* and when another one follows it.
LEMMA ThenKeepsShown ==
    ASSUME FInv, NEW r \in requests, NEW n, requests' = (requests \ {r}) \cup {n}, cwd' = cwd,
           BusyReq(n) => BusyReq(r), n.dir = r.dir,
           \/ n.kind \in {"list", "delete"}
           \/ /\ r.kind \notin {"list", "delete"} /\ entries' = entries
              /\ Listing(cwd)' = Listing(cwd) /\ (Fresh' => Fresh)
    PROVE  ShownInv'
<1>1. \A s \in requests' : BusyReq(s) => s.dir = cwd' BY DEF FInv, ShownInv
<1>2. Fresh' => \/ entries' = Listing(cwd)'
                \/ \E s \in requests' : s.kind \in {"list", "delete"}
  BY DEF FInv, ShownInv
<1>. QED BY <1>1, <1>2 DEF ShownInv, BusyReq

\* Names and contents stay what they are when the files change.
LEMMA PutKept ==
    ASSUME TypeOK, NEW p \in Paths, NEW c \in Contents \cup {Directory, Absent}, disk' = Put(p, c)
    PROVE  /\ disk' \in [Paths -> Contents \cup {Directory, Absent}]
           /\ \A q \in Paths \ {p, P(Root, Folder)} : disk'[q] = disk[q]
           /\ p # P(Root, Folder) => disk'[p] = c
           /\ p.dir # Folder /\ p # P(Root, Folder) => disk'[P(Root, Folder)] = disk[P(Root, Folder)]
BY Places DEF Put, TypeOK

LEMMA DropKept ==
    ASSUME TypeOK, NEW p, disk' = Drop(p)
    PROVE  disk' \in [Paths -> Contents \cup {Directory, Absent}]
BY DEF Drop, TypeOK

LEMMA DoesKept ==
    ASSUME TypeOK, NEW e \in Effects, disk' = Does(e)
    PROVE  disk' \in [Paths -> Contents \cup {Directory, Absent}]
<1>1. CASE e.op = "put"
  <2>1. e.to \in Paths /\ e.content \in Contents BY <1>1, FilesAssumption DEF Effects
  <2>. QED BY <1>1, <2>1, PutKept DEF Does
<1>2. CASE e.op = "mkdir"
  <2>1. e.to \in Paths BY <1>2, Places DEF Effects
  <2>. QED BY <1>2, <2>1, PutKept DEF Does
<1>3. CASE e.op = "move"
  <2>1. e.to \in Paths /\ e.from \in Paths BY <1>3 DEF Effects
  <2>. QED BY <1>3, <2>1 DEF Does, TypeOK
<1>. QED BY <1>1, <1>2, <1>3 DEF Effects

\* The server reads the folder,
LEMMA ListReadKeeps ==
    ASSUME FInv, NEW r \in requests, r.kind = "list", ListRead(r)
    PROVE  FInv'
<1>1. TypeOK /\ LockInv /\ TextInv /\ NBTInv /\ r \in ListReqs BY Kinds DEF FInv, TypeOK
<1>2. PICK q : q = [r EXCEPT !.got = Listing(r.dir)] OBVIOUS
<1>3. q \in ListReqs /\ q.kind = "list" /\ q.dir = r.dir /\ q.ends = r.ends
  BY <1>1, <1>2 DEF ListReqs, Listing
<1>4. /\ requests' = (requests \ {r}) \cup {q}
      /\ UNCHANGED <<disk, stopped, cwd, entries, selected, busy, editor, nbt, history, budget>>
  BY <1>2 DEF ListRead, Then, browser, Quiet
<1>5. TypeOK' BY <1>1, <1>3, <1>4 DEF TypeOK, AllReqs
<1>6. LockInv' BY <1>1, <1>3, <1>4, ThenKeepsLocks DEF LockInv, EditorReq, BusyReq, NBTReq
<1>7. TextInv' BY <1>1, <1>3, <1>4, TextKept
<1>8. NBTInv' BY <1>1, <1>3, <1>4, NBTKept
<1>9. ShownInv' BY <1>3, <1>4, ThenKeepsShown DEF BusyReq
<1>. QED BY <1>5, <1>6, <1>7, <1>8, <1>9 DEF FInv

\* and the page takes what it read, or the load fails.
LEMMA ListKeeps ==
    ASSUME FInv, NEW r \in requests, r.kind = "list", Listed(r) \/ ListFails(r)
    PROVE  FInv'
<1>1. TypeOK /\ LockInv /\ TextInv /\ NBTInv /\ r \in ListReqs BY Kinds DEF FInv, TypeOK
<1>2. requests' = requests \ {r} /\ UNCHANGED <<disk, stopped, cwd, nbt>>
  BY DEF Listed, ListFails, Done
<1>3. PICK left \in SUBSET selected : Ends(r.ends, left) /\ left \subseteq entries'
  BY <1>1 DEF Listed, ListFails, TypeOK
<1>4. history' \in Histories /\ budget' \in Budgets /\ history'.between = history.between
  <2>1. CASE Listed(r) BY <1>1, <2>1 DEF Listed, TypeOK, Histories
  <2>2. CASE ListFails(r) BY <1>1, <2>2, FailsKept DEF ListFails, TypeOK, Histories
  <2>. QED BY <2>1, <2>2
<1>5. entries' \subseteq Names \cup {Folder} BY <1>1 DEF Listed, ListFails, ListReqs, TypeOK
<1>6. TypeOK' BY <1>1, <1>2, <1>3, <1>4, <1>5, EndsKept DEF TypeOK
<1>7. LockInv' BY <1>1, <1>2, <1>3, EndsKept, DoneKeepsLocks DEF EditorReq, BusyReq, NBTReq
<1>8. TextInv' BY <1>1, <1>2, <1>3, <1>4, EndsKept, ReleaseKeepsText
<1>9. NBTInv' BY <1>1, <1>2, DoneKeepsNBT
<1>10. Fresh' => entries' = Listing(cwd)'
  <2>1. CASE Listed(r)
    <3>1. history'.stale = (r.dir # cwd \/ r.got # Listing(r.dir))
      BY <1>1, <2>1 DEF Listed, TypeOK, Histories
    <3>2. entries' = r.got /\ Listing(cwd)' = Listing(cwd) BY <1>2, <2>1 DEF Listed, Listing
    <3>. QED BY <3>1, <3>2 DEF Fresh
  <2>2. CASE ListFails(r) BY <1>1, <2>2 DEF ListFails, TypeOK, Histories, Fresh
  <2>. QED BY <2>1, <2>2
<1>11. \A s \in requests' : BusyReq(s) => s.dir = cwd' BY <1>2 DEF FInv, ShownInv
<1>12. ShownInv' BY <1>10, <1>11 DEF ShownInv, BusyReq
<1>. QED BY <1>6, <1>7, <1>8, <1>9, <1>12 DEF FInv

\* A change is done, and then the folder listed; or it is refused or fails.
LEMMA RunAnswerKeeps ==
    ASSUME FInv, NEW r \in requests, r.kind = "run", Runs(r) \/ RunFails(r)
    PROVE  FInv'
<1>1. TypeOK /\ LockInv /\ TextInv /\ NBTInv /\ r \in RunReqs BY Kinds DEF FInv, TypeOK
<1>2. CASE Runs(r)
  <2> DEFINE n == List(r.dir, r.ends)
  <2>1. requests' = (requests \ {r}) \cup {n} /\ UNCHANGED <<stopped, cwd, entries, selected, busy, editor, nbt>>
    BY <1>2 DEF Runs, Then, browser
  <2>2. n \in ListReqs /\ n.kind = "list" /\ n.dir = r.dir /\ n.ends = r.ends /\ r.ends \in {"run", "zip"}
    BY <1>1 DEF RunReqs, ListReqs, List
  <2> HIDE DEF n
  <2>3. disk' \in [Paths -> Contents \cup {Directory, Absent}] BY <1>1, <1>2, DoesKept DEF Runs, RunReqs
  <2>4. /\ history' \in Histories /\ history'.between = (history.between \/ Publishing)
        /\ budget' = budget /\ (Fresh' => Fresh)
    <3>1. history \in Histories /\ history.between \in BOOLEAN /\ Publishing \in BOOLEAN
      BY <1>1 DEF TypeOK, Histories, Publishing
    <3>2. history' = [history EXCEPT !.between = (history.between \/ Publishing)] /\ budget' = budget
      BY <1>2 DEF Runs, Between
    <3> HIDE DEF Publishing
    <3>3. (history.between \/ Publishing) \in BOOLEAN BY <3>1
    <3>. QED BY <3>1, <3>2, <3>3 DEF Histories, Fresh
  <2>5. TypeOK' BY <1>1, <2>1, <2>2, <2>3, <2>4 DEF TypeOK, AllReqs
  <2>6. LockInv' BY <1>1, <2>1, <2>2, ThenKeepsLocks DEF LockInv, EditorReq, BusyReq, NBTReq
  <2>7. \A s \in requests : s.kind = "save" /\ s.step = "compared" => Publishing BY DEF Publishing
  <2>8. TextInv' BY <1>1, <2>1, <2>2, <2>4, <2>7, TextKept
  <2>9. NBTInv' BY <1>1, <2>1, <2>2, NBTKept
  <2>10. ShownInv' BY <2>1, <2>2, <2>4, ThenKeepsShown DEF BusyReq
  <2>. QED BY <2>5, <2>6, <2>8, <2>9, <2>10 DEF FInv
<1>3. CASE RunFails(r)
  <2>1. /\ requests' = requests \ {r} /\ UNCHANGED <<disk, stopped, cwd, entries, nbt>>
        /\ Ends(r.ends, selected) /\ r.ends \in {"run", "zip"}
    BY <1>1, <1>3 DEF RunFails, Done, RunReqs
  <2>2. /\ history' \in Histories /\ budget' \in Budgets /\ history'.between = history.between
        /\ Fresh' => Fresh
    BY <1>1, <1>3, NetFailsKept DEF RunFails, Quiet, TypeOK, Fresh
  <2>3. TypeOK' BY <1>1, <2>1, <2>2, EndsKept DEF TypeOK
  <2>4. LockInv' BY <1>1, <2>1, EndsKept, DoneKeepsLocks DEF EditorReq, BusyReq, NBTReq
  <2>5. TextInv' BY <1>1, <2>1, <2>2, EndsKept, ReleaseKeepsText
  <2>6. NBTInv' BY <1>1, <2>1, DoneKeepsNBT
  <2>7. Listing(cwd)' = Listing(cwd) BY <2>1 DEF Listing
  <2>8. ShownInv' BY <2>1, <2>2, <2>7, DoneKeepsShown
  <2>. QED BY <2>3, <2>4, <2>5, <2>6, <2>8 DEF FInv
<1>. QED BY <1>2, <1>3

\* The text editor is alone with the request it waits for, and so is the
\* NBT editor.
LEMMA TextAlone ==
    ASSUME TextInv, LockInv, NEW r \in requests, EditorReq(r)
    PROVE  \A s \in requests \ {r} : s.kind \notin {"open", "save", "delete"}
BY DEF TextInv, LockInv, EditorReq, DropsAgreed

LEMMA NBTAlone ==
    ASSUME LockInv, NEW r \in requests, NBTReq(r)
    PROVE  \A s \in requests \ {r} : s.kind \notin {"nbtread", "nbtsave"}
BY DEF LockInv, NBTReq

\* A name is deleted, and with it an open file; or it cannot be.
LEMMA FirstTodo ==
    ASSUME NEW r \in DeleteReqs, r.todo # {}
    PROVE  First(r) \in r.todo
BY DEF First, DeleteReqs

LEMMA DeletedKeeps ==
    ASSUME FInv, NEW r \in requests, r.kind = "delete", NEW n \in r.todo, Deleted(r, n)
    PROVE  FInv'
<1>1. TypeOK /\ LockInv /\ TextInv /\ NBTInv /\ r \in DeleteReqs BY Kinds DEF FInv, TypeOK
<1>2. PICK q : q = [r EXCEPT !.todo = @ \ {n}, !.gone = @ \cup {n}] OBVIOUS
<1>3. /\ q \in DeleteReqs /\ q.kind = "delete" /\ q.dir = r.dir /\ q.todo \subseteq r.todo
      /\ q.open = r.open /\ q.drops = r.drops
  BY <1>1, <1>2 DEF DeleteReqs
<1>4. /\ requests' = (requests \ {r}) \cup {q}
      /\ UNCHANGED <<stopped, cwd, entries, selected, busy, nbt, history, budget>>
  BY <1>2 DEF Deleted, Then, browser, Quiet
<1>5. disk' \in [Paths -> Contents \cup {Directory, Absent}] BY <1>1, DropKept DEF Deleted
<1>6. editor' = NoText \/ editor' = editor BY DEF Deleted
<1>7. NoText \in Editors /\ ~NoText.busy /\ ~NoText.dirty /\ NoText.revision = None /\ NoText.conflict = None
  BY Nothing DEF NoText
<1>8. TypeOK' BY <1>1, <1>3, <1>4, <1>5, <1>6, <1>7 DEF TypeOK, AllReqs
<1>9. ~editor.busy /\ editor.conflict = None BY <1>1 DEF TextInv, DropsAgreed
<1>10. LockInv' BY <1>1, <1>3, <1>4, <1>6, <1>7, <1>9, ThenKeepsLocks DEF LockInv, EditorReq, BusyReq, NBTReq
<1>11. TextInv'
  <2>1. \A s \in requests \ {r} : s.kind \notin {"open", "save", "delete"}
    BY <1>1, <1>9 DEF LockInv, EditorReq, BusyReq
  <2>2. {editor'.revision, editor'.conflict} \subseteq editor'.seen \cup {None}
    BY <1>1, <1>6, <1>7 DEF TextInv
  <2>3. \A m \in q.todo : editor'.dirty /\ q.open \in Under(P(q.dir, m)) => q.drops = editor'.content
    BY <1>1, <1>3, <1>6, <1>7 DEF TextInv, DropsAgreed
  <2>4. DropsAgreed(q)' BY <1>6, <1>7, <1>9, <2>3 DEF DropsAgreed
  <2>5. SavesShown(q)' /\ q.kind # "open" BY <1>3 DEF SavesShown
  <2>6. \A s \in requests \ {r} : SavesShown(s)' /\ DropsAgreed(s)' BY <2>1 DEF SavesShown, DropsAgreed
  <2>. QED BY <1>4, <2>1, <2>2, <2>4, <2>5, <2>6 DEF TextInv
<1>12. NBTInv' BY <1>1, <1>3, <1>4, NBTKept
<1>13. ShownInv' BY <1>3, <1>4, ThenKeepsShown DEF Fresh, BusyReq
<1>. QED BY <1>8, <1>10, <1>11, <1>12, <1>13 DEF FInv

LEMMA DeleteFailsKeeps ==
    ASSUME FInv, NEW r \in requests, r.kind = "delete", NEW n \in r.todo, DeleteFails(r, n)
    PROVE  FInv'
<1>1. TypeOK /\ LockInv /\ TextInv /\ NBTInv /\ r \in DeleteReqs BY Kinds DEF FInv, TypeOK
<1>2. PICK q : q = [r EXCEPT !.todo = @ \ {n}] OBVIOUS
<1>3. /\ q \in DeleteReqs /\ q.kind = "delete" /\ q.dir = r.dir /\ q.todo \subseteq r.todo
      /\ q.open = r.open /\ q.drops = r.drops
  BY <1>1, <1>2 DEF DeleteReqs
<1>4. /\ requests' = (requests \ {r}) \cup {q}
      /\ UNCHANGED <<disk, stopped, cwd, entries, selected, busy, editor, nbt>>
  BY <1>2 DEF DeleteFails, Then, browser
<1>5. /\ history' \in Histories /\ budget' \in Budgets /\ history'.between = history.between
      /\ Fresh' => Fresh
  BY <1>1, NetFailsKept DEF DeleteFails, Quiet, TypeOK, Fresh
<1>6. TypeOK' BY <1>1, <1>3, <1>4, <1>5 DEF TypeOK, AllReqs
<1>7. LockInv' BY <1>1, <1>3, <1>4, ThenKeepsLocks DEF LockInv, EditorReq, BusyReq, NBTReq
<1>8. TextInv'
  <2>1. DropsAgreed(q)' BY <1>1, <1>3, <1>4 DEF TextInv, DropsAgreed
  <2>2. SavesShown(q)' /\ q.kind # "open" BY <1>3 DEF SavesShown
  <2>3. \A s \in requests : (s.kind = "open" => ~editor.dirty /\ editor.conflict = None)
                            /\ SavesShown(s)' /\ DropsAgreed(s)'
    BY <1>1, <1>4, <1>5 DEF TextInv, SavesShown, DropsAgreed
  <2>4. {editor'.revision, editor'.conflict} \subseteq editor'.seen \cup {None} BY <1>1, <1>4 DEF TextInv
  <2>. QED BY <1>4, <2>1, <2>2, <2>3, <2>4 DEF TextInv
<1>9. NBTInv' BY <1>1, <1>3, <1>4, NBTKept
<1>10. ShownInv' BY <1>3, <1>4, <1>5, ThenKeepsShown DEF BusyReq
<1>. QED BY <1>6, <1>7, <1>8, <1>9, <1>10 DEF FInv

\* The folder is listed after the last of the names.
LEMMA DeleteEndsKeeps ==
    ASSUME FInv, NEW r \in requests, r.kind = "delete", DeleteEnds(r)
    PROVE  FInv'
<1> DEFINE n == List(r.dir, "run")
<1>1. TypeOK /\ LockInv /\ TextInv /\ NBTInv /\ r \in DeleteReqs BY Kinds DEF FInv, TypeOK
<1>2. /\ requests' = (requests \ {r}) \cup {n} /\ selected' \subseteq selected
      /\ UNCHANGED <<disk, stopped, cwd, entries, busy, editor, nbt, history, budget>>
  BY DEF DeleteEnds, Then, Quiet
<1>3. n \in ListReqs /\ n.kind = "list" /\ n.dir = r.dir /\ n.ends = "run"
  BY <1>1 DEF DeleteReqs, ListReqs, List
<1> HIDE DEF n
<1>4. TypeOK' BY <1>1, <1>2, <1>3 DEF TypeOK, AllReqs
<1>5. LockInv' BY <1>1, <1>2, <1>3, ThenKeepsLocks DEF LockInv, EditorReq, BusyReq, NBTReq
<1>6. TextInv' BY <1>1, <1>2, <1>3, TextKept
<1>7. NBTInv' BY <1>1, <1>2, <1>3, NBTKept
<1>8. ShownInv' BY <1>2, <1>3, ThenKeepsShown DEF Fresh, BusyReq
<1>. QED BY <1>4, <1>5, <1>6, <1>7, <1>8 DEF FInv

\* The file is in the editor, or could not be read.
LEMMA OpenAnswerKeeps ==
    ASSUME FInv, NEW r \in requests, r.kind = "open", Opened(r) \/ OpenFails(r)
    PROVE  FInv'
<1>1. TypeOK /\ LockInv /\ TextInv /\ NBTInv /\ r \in OpenReqs BY Kinds DEF FInv, TypeOK
<1>2. requests' = requests \ {r} /\ UNCHANGED <<disk, stopped, cwd, entries, selected, busy, nbt>>
  BY DEF Opened, OpenFails, Done, browser
<1>3. /\ history' \in Histories /\ budget' \in Budgets /\ history'.between = history.between
      /\ Fresh' => Fresh
  BY <1>1, NetFailsKept DEF Opened, OpenFails, Quiet, TypeOK, Fresh
<1>4. editor \in Editors /\ ~editor.dirty /\ editor.conflict = None BY <1>1 DEF TextInv, TypeOK
<1>5. /\ editor' \in Editors /\ ~editor'.dirty /\ ~editor'.busy /\ editor'.conflict = None
      /\ editor'.revision \in editor'.seen \cup {None}
  <2>1. CASE Opened(r) BY <1>4, <2>1 DEF Opened, Editors, Revisions
  <2>2. CASE OpenFails(r) BY <1>1, <1>4, <2>2 DEF OpenFails, Editors, TextInv
  <2>. QED BY <2>1, <2>2
<1>6. TypeOK' BY <1>1, <1>2, <1>3, <1>5 DEF TypeOK
<1>7. LockInv' BY <1>1, <1>2, DoneKeepsLocks DEF EditorReq
<1>8. \A s \in requests' : s.kind \notin {"open", "save", "delete"}
  BY <1>1, <1>2, TextAlone DEF EditorReq
<1>9. TextInv' BY <1>5, <1>8 DEF TextInv, SavesShown, DropsAgreed
<1>10. NBTInv' BY <1>1, <1>2, DoneKeepsNBT
<1>11. Listing(cwd)' = Listing(cwd) BY <1>2 DEF Listing
<1>12. ShownInv' BY <1>2, <1>3, <1>11, DoneKeepsShown
<1>. QED BY <1>6, <1>7, <1>9, <1>10, <1>12 DEF FInv

\* A save finds the revision it expects and goes on under the mutex,
LEMMA ComparesKeeps ==
    ASSUME FInv, NEW r \in requests, r.kind = "save", Compares(r)
    PROVE  FInv'
<1>1. TypeOK /\ LockInv /\ TextInv /\ NBTInv /\ r \in SaveReqs BY Kinds DEF FInv, TypeOK
<1>2. PICK q : q = [r EXCEPT !.step = "compared"] OBVIOUS
<1>3. /\ q \in SaveReqs /\ q.kind = "save" /\ q.dir = r.dir /\ q.path = r.path
      /\ q.expected = r.expected
  BY <1>1, <1>2 DEF SaveReqs
<1>4. /\ requests' = (requests \ {r}) \cup {q} /\ disk[r.path] = r.expected
      /\ UNCHANGED <<disk, stopped, cwd, entries, selected, busy, editor, nbt, history, budget>>
  BY <1>2 DEF Compares, Then, browser, Quiet
<1>5. TypeOK' BY <1>1, <1>3, <1>4 DEF TypeOK, AllReqs
<1>6. LockInv' BY <1>1, <1>3, <1>4, ThenKeepsLocks DEF LockInv, EditorReq, BusyReq, NBTReq
<1>7. TextInv'
  <2>1. \A s \in requests \ {r} : s.kind \notin {"open", "save", "delete"}
    BY <1>1, TextAlone DEF EditorReq
  <2>2. SavesShown(q)' BY <1>1, <1>3, <1>4 DEF TextInv, SavesShown
  <2>3. DropsAgreed(q)' /\ q.kind # "open" BY <1>3 DEF DropsAgreed
  <2>4. \A s \in requests \ {r} : SavesShown(s)' /\ DropsAgreed(s)' BY <2>1 DEF SavesShown, DropsAgreed
  <2>. QED BY <1>1, <1>4, <2>1, <2>2, <2>3, <2>4 DEF TextInv
<1>8. NBTInv' BY <1>1, <1>3, <1>4, NBTKept
<1>9. Listing(cwd)' = Listing(cwd) /\ (Fresh' => Fresh) BY <1>4 DEF Listing, Fresh
<1>10. ShownInv' BY <1>3, <1>4, <1>9, ThenKeepsShown DEF Fresh, BusyReq
<1>. QED BY <1>5, <1>6, <1>7, <1>8, <1>10 DEF FInv

\* publishes, after which the folder is listed,
LEMMA SavedKeeps ==
    ASSUME FInv, NEW r \in requests, r.kind = "save", Saved(r)
    PROVE  FInv'
<1> DEFINE n == List(r.dir, "save")
<1>1. TypeOK /\ LockInv /\ TextInv /\ NBTInv /\ r \in SaveReqs BY Kinds DEF FInv, TypeOK
<1>2. /\ requests' = (requests \ {r}) \cup {n} /\ disk' = Put(r.path, r.content)
      /\ UNCHANGED <<stopped, cwd, entries, selected, busy, nbt, history, budget>>
  BY DEF Saved, Then, browser, Quiet
<1>3. n \in ListReqs /\ n.kind = "list" /\ n.dir = r.dir /\ n.ends = "save"
  BY <1>1 DEF SaveReqs, ListReqs, List
<1> HIDE DEF n
<1>4. r.path \in Paths /\ r.content \in Contents BY <1>1, Places DEF SaveReqs
<1>5. disk' \in [Paths -> Contents \cup {Directory, Absent}] BY <1>1, <1>2, <1>4, PutKept
<1>6. /\ editor' \in Editors /\ editor'.busy = editor.busy /\ editor'.revision \in editor'.seen
      /\ editor'.conflict = None
  BY <1>1, <1>4 DEF Saved, TypeOK, Editors, Revisions
<1>7. TypeOK' BY <1>1, <1>2, <1>3, <1>5, <1>6 DEF TypeOK, AllReqs
<1>8. LockInv' BY <1>1, <1>2, <1>3, <1>6, ThenKeepsLocks DEF LockInv, EditorReq, BusyReq, NBTReq
<1>9. \A s \in requests' : s.kind \notin {"open", "save", "delete"}
  BY <1>1, <1>2, <1>3, TextAlone DEF EditorReq
<1>10. TextInv' BY <1>6, <1>9 DEF TextInv, SavesShown, DropsAgreed
<1>11. NBTInv' BY <1>1, <1>2, <1>3, NBTKept
<1>12. ShownInv' BY <1>2, <1>3, ThenKeepsShown DEF Fresh, BusyReq
<1>. QED BY <1>7, <1>8, <1>10, <1>11, <1>12 DEF FInv

\* is refused, or fails.
LEMMA SaveEndsKeeps ==
    ASSUME FInv, NEW r \in requests, r.kind = "save", Conflicts(r) \/ SaveFails(r)
    PROVE  FInv'
<1>1. TypeOK /\ LockInv /\ TextInv /\ NBTInv /\ r \in SaveReqs BY Kinds DEF FInv, TypeOK
<1>2. requests' = requests \ {r} /\ UNCHANGED <<stopped, cwd, entries, selected, busy, nbt>>
  BY DEF Conflicts, SaveFails, Done, browser
<1>3. /\ history' \in Histories /\ budget' \in Budgets /\ history'.between = history.between
      /\ Fresh' => Fresh /\ disk' = disk
  <2>1. CASE Conflicts(r) BY <1>1, <2>1 DEF Conflicts, Quiet, TypeOK, Fresh
  <2>2. CASE SaveFails(r) BY <1>1, <2>2, FailsKept DEF SaveFails, TypeOK, Histories, Fresh
  <2>. QED BY <2>1, <2>2
<1>4. r.path \in Paths /\ r.content \in Contents BY <1>1, Places DEF SaveReqs
<1>5. disk' \in [Paths -> Contents \cup {Directory, Absent}]
  <2>1. disk' = disk \/ disk' = Put(r.path, r.content) BY DEF Conflicts, SaveFails
  <2>. QED BY <1>1, <1>4, <2>1, PutKept DEF TypeOK
<1>6. /\ editor' \in Editors /\ ~editor'.busy
      /\ {editor'.revision, editor'.conflict} \subseteq editor'.seen \cup {None}
  <2>1. editor \in Editors /\ {editor.revision, editor.conflict} \subseteq editor.seen \cup {None}
    BY <1>1 DEF TypeOK, TextInv
  <2>2. CASE Conflicts(r) BY <2>1, <2>2 DEF Conflicts, Editors, Revisions
  <2>3. CASE SaveFails(r) BY <2>1, <2>3 DEF SaveFails, Editors
  <2>. QED BY <2>2, <2>3
<1>7. TypeOK' BY <1>1, <1>2, <1>3, <1>5, <1>6 DEF TypeOK
<1>8. LockInv' BY <1>1, <1>2, DoneKeepsLocks DEF EditorReq
<1>9. \A s \in requests' : s.kind \notin {"open", "save", "delete"}
  BY <1>1, <1>2, TextAlone DEF EditorReq
<1>10. TextInv' BY <1>6, <1>9 DEF TextInv, SavesShown, DropsAgreed
<1>11. NBTInv' BY <1>1, <1>2, DoneKeepsNBT
<1>12. ShownInv'
  <2>1. CASE Fresh'
    <3>1. disk' = disk /\ Fresh BY <1>3, <2>1
    <3>2. Listing(cwd)' = Listing(cwd) BY <1>2, <3>1 DEF Listing
    <3>. QED BY <1>2, <3>1, <3>2, DoneKeepsShown
  <2>2. CASE ~Fresh'
    <3>1. \A s \in requests' : BusyReq(s) => s.dir = cwd' BY <1>2 DEF FInv, ShownInv
    <3>. QED BY <2>2, <3>1 DEF ShownInv, BusyReq
  <2>. QED BY <2>1, <2>2
<1>. QED BY <1>7, <1>8, <1>10, <1>11, <1>12 DEF FInv

\* An NBT file is in its editor, or could not be read; a save of it is refused.
LEMMA NBTAnswerKeeps ==
    ASSUME FInv, NEW r \in requests,
           \/ r.kind = "nbtread" /\ (NBTRead(r) \/ NBTReadFails(r))
           \/ r.kind = "nbtsave" /\ NBTRefused(r)
    PROVE  FInv'
<1>1. TypeOK /\ LockInv /\ TextInv /\ NBTInv BY DEF FInv
<1>2. /\ requests' = requests \ {r}
      /\ UNCHANGED <<disk, stopped, cwd, entries, selected, busy, editor>>
  BY DEF NBTRead, NBTReadFails, NBTRefused, Done, browser
<1>3. /\ history' \in Histories /\ budget' \in Budgets /\ history'.between = history.between
      /\ Fresh' => Fresh
  BY <1>1, NetFailsKept DEF NBTRead, NBTReadFails, NBTRefused, Quiet, TypeOK, Fresh
<1>4. nbt \in NBTs /\ stopped \in BOOLEAN BY <1>1 DEF TypeOK
<1>5. /\ nbt' \in NBTs /\ nbt'.path = nbt.path /\ ~nbt'.busy
      /\ nbt'.editable => nbt'.revision \in nbt'.seen
      /\ nbt'.dirty => nbt'.root \in Contents \cup {Broken}
  <2>1. CASE NBTRead(r) BY <1>4, <2>1 DEF NBTRead, NBTs
  <2>2. CASE NBTReadFails(r) BY <1>1, <1>4, <2>2 DEF NBTReadFails, NBTs, NBTInv
  <2>3. CASE NBTRefused(r) BY <1>1, <1>4, <2>3 DEF NBTRefused, NBTs, NBTInv
  <2>. QED BY <2>1, <2>2, <2>3
<1>6. TypeOK' BY <1>1, <1>2, <1>3, <1>5 DEF TypeOK
<1>7. LockInv' BY <1>1, <1>2, DoneKeepsLocks DEF NBTReq
<1>8. TextInv' BY <1>1, <1>2, <1>3, ReleaseKeepsText
<1>9. \A s \in requests' : s.kind \notin {"nbtread", "nbtsave"} BY <1>1, <1>2, NBTAlone DEF NBTReq
<1>10. NBTInv' BY <1>1, <1>2, <1>5, <1>9 DEF NBTInv
<1>11. Listing(cwd)' = Listing(cwd) BY <1>2 DEF Listing
<1>12. ShownInv' BY <1>2, <1>3, <1>11, DoneKeepsShown
<1>. QED BY <1>6, <1>7, <1>8, <1>10, <1>12 DEF FInv

\* A save of NBT replaces the document that was read, and no name comes or goes.
LEMMA NBTPutKept ==
    ASSUME FInv, NEW r \in requests, r.kind = "nbtsave", disk[r.path] = r.expected,
           disk' = Put(r.path, r.content), cwd' = cwd
    PROVE  /\ disk' \in [Paths -> Contents \cup {Directory, Absent}]
           /\ Listing(cwd)' = Listing(cwd)
           /\ \A q \in TextPaths : disk'[q] = disk[q]
<1>1. TypeOK /\ r \in NBTSaveReqs BY Kinds DEF FInv, TypeOK
<1>2. /\ r.path \in TagPaths /\ r.path \in Paths /\ r.content \in Contents /\ r.path.dir = cwd
      /\ r.expected \in Contents /\ r.path # P(Root, Folder) /\ cwd \in Folders
  BY <1>1, Places DEF NBTSaveReqs, FInv, NBTInv, TypeOK, TagPaths, P, Folders
<1>3. /\ disk' \in [Paths -> Contents \cup {Directory, Absent}] /\ disk'[r.path] = r.content
      /\ \A q \in Paths \ {r.path, P(Root, Folder)} : disk'[q] = disk[q]
      /\ cwd # Folder => disk'[P(Root, Folder)] = disk[P(Root, Folder)]
  BY <1>1, <1>2, PutKept
<1>4. disk[r.path] # Absent /\ disk'[r.path] # Absent BY <1>2, <1>3, FilesAssumption
<1>5. \A n \in Names \cup {Folder} : P(cwd, n) \in Paths BY <1>2, Places
<1>6. \A n \in Names \cup {Folder} : P(cwd, n) = P(Root, Folder) => cwd = Root BY DEF P
<1>7. \A n \in Names \cup {Folder} : (disk'[P(cwd, n)] # Absent) <=> (disk[P(cwd, n)] # Absent)
  BY <1>3, <1>4, <1>5, <1>6, FilesAssumption
<1>8. Listing(cwd)' = Listing(cwd) BY <1>7 DEF Listing
<1>9. \A q \in TextPaths : q \in Paths /\ q \notin {r.path, P(Root, Folder)} BY <1>2, Places
<1>. QED BY <1>3, <1>8, <1>9

LEMMA NBTSaveKeeps ==
    ASSUME FInv, NEW r \in requests, r.kind = "nbtsave", NBTSaved(r) \/ NBTSaveFails(r)
    PROVE  FInv'
<1>1. TypeOK /\ LockInv /\ TextInv /\ NBTInv /\ r \in NBTSaveReqs BY Kinds DEF FInv, TypeOK
<1>2. requests' = requests \ {r} /\ UNCHANGED <<stopped, cwd, entries, selected, busy, editor>>
  BY DEF NBTSaved, NBTSaveFails, Done, browser
<1>3. /\ history' \in Histories /\ budget' \in Budgets /\ history'.between = history.between
      /\ Fresh' => Fresh
  BY <1>1, NetFailsKept DEF NBTSaved, NBTSaveFails, Quiet, TypeOK, Fresh
<1>4. disk' = disk \/ (disk[r.path] = r.expected /\ disk' = Put(r.path, r.content))
  BY DEF NBTSaved, NBTSaveFails
<1>5. /\ disk' \in [Paths -> Contents \cup {Directory, Absent}] /\ Listing(cwd)' = Listing(cwd)
      /\ \A q \in TextPaths : disk'[q] = disk[q]
  BY <1>1, <1>2, <1>4, NBTPutKept DEF TypeOK, Listing
<1>6. nbt \in NBTs /\ r.content \in Contents BY <1>1 DEF TypeOK, NBTSaveReqs
<1>7. /\ nbt' \in NBTs /\ nbt'.path = nbt.path /\ ~nbt'.busy
      /\ nbt'.editable => nbt'.revision \in nbt'.seen
      /\ nbt'.dirty => nbt'.root \in Contents \cup {Broken}
  <2>1. CASE NBTSaved(r) BY <1>6, <2>1 DEF NBTSaved, NBTs
  <2>2. CASE NBTSaveFails(r) BY <1>1, <1>6, <2>2 DEF NBTSaveFails, NBTs, NBTInv
  <2>. QED BY <2>1, <2>2
<1>8. TypeOK' BY <1>1, <1>2, <1>3, <1>5, <1>7 DEF TypeOK
<1>9. LockInv' BY <1>1, <1>2, DoneKeepsLocks DEF NBTReq
<1>10. TextInv'
  <2>1. \A s \in requests : s.kind = "save" => s.path \in TextPaths
    BY <1>1, Kinds DEF TypeOK, SaveReqs
  <2>. QED BY <1>1, <1>2, <1>3, <1>5, <2>1 DEF TextInv, SavesShown, DropsAgreed
<1>11. \A s \in requests' : s.kind \notin {"nbtread", "nbtsave"} BY <1>1, <1>2, NBTAlone DEF NBTReq
<1>12. NBTInv' BY <1>1, <1>2, <1>7, <1>11 DEF NBTInv
<1>13. ShownInv' BY <1>2, <1>3, <1>5, DoneKeepsShown
<1>. QED BY <1>8, <1>9, <1>10, <1>12, <1>13 DEF FInv

\* Whatever is answered,
LEMMA AnswersKeep ==
    ASSUME FInv, Answers
    PROVE  FInv'
<1>1. PICK r \in requests :
        \/ r.kind = "list" /\ (ListRead(r) \/ Listed(r) \/ ListFails(r))
        \/ r.kind = "run" /\ (Runs(r) \/ RunFails(r))
        \/ r.kind = "delete" /\ (Deleted(r, First(r)) \/ DeleteFails(r, First(r)) \/ DeleteEnds(r))
        \/ r.kind = "open" /\ (Opened(r) \/ OpenFails(r))
        \/ r.kind = "save" /\ (Compares(r) \/ Conflicts(r) \/ Saved(r) \/ SaveFails(r))
        \/ r.kind = "nbtread" /\ (NBTRead(r) \/ NBTReadFails(r))
        \/ r.kind = "nbtsave" /\ (NBTSaved(r) \/ NBTRefused(r) \/ NBTSaveFails(r))
  BY DEF Answers
<1>2. CASE r.kind = "delete"
  <2>1. r \in DeleteReqs BY <1>2, Kinds DEF FInv, TypeOK
  <2>2. CASE Deleted(r, First(r))
    <3>1. First(r) \in r.todo BY <2>1, <2>2, FirstTodo DEF Deleted
    <3>. QED BY <1>2, <2>2, <3>1, DeletedKeeps
  <2>3. CASE DeleteFails(r, First(r))
    <3>1. First(r) \in r.todo BY <2>1, <2>3, FirstTodo DEF DeleteFails
    <3>. QED BY <1>2, <2>3, <3>1, DeleteFailsKeeps
  <2>. QED BY <1>1, <1>2, <2>2, <2>3, DeleteEndsKeeps
<1>3. CASE r.kind \in {"list", "run", "open"} BY <1>1, <1>3, ListReadKeeps, ListKeeps, RunAnswerKeeps, OpenAnswerKeeps
<1>4. CASE r.kind = "save" BY <1>1, <1>4, ComparesKeeps, SavedKeeps, SaveEndsKeeps
<1>5. CASE r.kind \in {"nbtread", "nbtsave"} BY <1>1, <1>5, NBTAnswerKeeps, NBTSaveKeeps
<1>. QED BY <1>1, <1>2, <1>3, <1>4, <1>5

\* and whatever others do.
LEMMA OthersKeep ==
    ASSUME FInv, OtherChanges \/ Switches
    PROVE  FInv'
<1>1. TypeOK /\ LockInv /\ TextInv /\ NBTInv BY DEF FInv
<1>2. /\ UNCHANGED <<cwd, entries, selected, busy, editor, nbt, requests>>
      /\ budget' = [budget EXCEPT !.others = @ - 1] /\ budget.others > 0
  BY DEF OtherChanges, Switches, Other, browser
<1>3. budget.others - 1 \in Nat BY <1>1, <1>2 DEF TypeOK, Budgets
<1>4. budget' \in Budgets BY <1>1, <1>2, <1>3 DEF TypeOK, Budgets
<1>5. CASE OtherChanges
  <2>1. PICK p \in Paths, c \in Delivered \cup {Absent} :
          /\ disk' = IF c = Absent THEN Drop(p) ELSE Put(p, c)
          /\ history' = [history EXCEPT !.stale = TRUE, !.between = @ \/ Publishing]
    BY <1>5 DEF OtherChanges
  <2>2. c \in Contents \cup {Directory, Absent} BY FilesAssumption
  <2>3. disk' = Drop(p) \/ disk' = Put(p, c) BY <2>1
  <2>4. disk' \in [Paths -> Contents \cup {Directory, Absent}] BY <1>1, <2>2, <2>3, DropKept, PutKept
  <2>5. history \in Histories /\ history.between \in BOOLEAN /\ Publishing \in BOOLEAN
    BY <1>1 DEF TypeOK, Histories, Publishing
  <2>6. \A s \in requests : s.kind = "save" /\ s.step = "compared" => Publishing BY DEF Publishing
  <2>7. history' = [history EXCEPT !.stale = TRUE, !.between = (history.between \/ Publishing)]
    BY <2>1
  <2> HIDE DEF Publishing
  <2>8. (history.between \/ Publishing) \in BOOLEAN BY <2>5
  <2>9. /\ history' \in Histories /\ history'.between = (history.between \/ Publishing)
        /\ history'.stale
    BY <2>5, <2>7, <2>8 DEF Histories
  <2>10. UNCHANGED stopped BY <1>5 DEF OtherChanges
  <2>11. TypeOK' BY <1>1, <1>2, <1>4, <2>4, <2>9, <2>10 DEF TypeOK
  <2>12. LockInv' BY <1>1, <1>2 DEF LockInv
  <2>13. TextInv' BY <1>1, <1>2, <2>6, <2>9 DEF TextInv, SavesShown, DropsAgreed
  <2>14. NBTInv' BY <1>1, <1>2 DEF NBTInv
  <2>15. ShownInv' BY <1>2, <2>9 DEF FInv, ShownInv, Fresh, BusyReq
  <2>. QED BY <2>11, <2>12, <2>13, <2>14, <2>15 DEF FInv
<1>6. CASE Switches
  <2>1. UNCHANGED <<disk, history>> /\ stopped' = ~stopped BY <1>6 DEF Switches
  <2>2. TypeOK' BY <1>1, <1>2, <1>4, <2>1 DEF TypeOK
  <2>3. LockInv' /\ NBTInv' BY <1>1, <1>2 DEF LockInv, NBTInv
  <2>4. TextInv' BY <1>1, <1>2, <2>1 DEF TextInv, SavesShown, DropsAgreed
  <2>5. ShownInv' BY <1>2, <2>1 DEF FInv, ShownInv, Fresh, Listing, BusyReq
  <2>. QED BY <2>2, <2>3, <2>4, <2>5 DEF FInv
<1>. QED BY <1>5, <1>6

-----------------------------------------------------------------------------
(* The invariant.                                                              *)

LEMMA InitInv == Init => FInv
<1> SUFFICES ASSUME Init PROVE FInv OBVIOUS
<1> DEFINE n == List(Root, "load")
<1>1. n \in ListReqs /\ n.kind = "list" /\ n.dir = Root /\ n.ends = "load"
  BY DEF ListReqs, List, Folders
<1>2. requests = {n} BY DEF Init
<1> HIDE DEF n
<1>3. /\ NoText.revision = None /\ NoText.conflict = None /\ ~NoNBT.editable /\ ~NoNBT.dirty
      /\ ~NoNBT.busy /\ NoNBT.path = None
  BY DEF NoText, NoNBT
<1>4. TypeOK
  <2>1. budget \in Budgets BY FilesAssumption DEF Init, Budgets
  <2>2. history \in Histories BY DEF Init, Histories
  <2>. QED BY <1>1, <1>2, <2>1, <2>2, Nothing, FilesAssumption DEF Init, TypeOK, AllReqs, Folders
<1>5. LockInv BY <1>1, <1>2 DEF LockInv, EditorReq, BusyReq, NBTReq
<1>6. TextInv BY <1>1, <1>2, <1>3 DEF Init, TextInv, SavesShown, DropsAgreed
<1>7. NBTInv BY <1>1, <1>2, <1>3 DEF Init, NBTInv
<1>8. ShownInv BY <1>1, <1>2 DEF ShownInv, BusyReq
<1>. QED BY <1>4, <1>5, <1>6, <1>7, <1>8 DEF FInv

LEMMA StutterKeeps ==
    ASSUME FInv, UNCHANGED vars
    PROVE  FInv'
<1>1. UNCHANGED <<disk, stopped, cwd, entries, selected, busy, editor, nbt, requests, history, budget>>
  BY DEF vars
<1>2. TypeOK' /\ LockInv' /\ NBTInv' BY <1>1 DEF FInv, TypeOK, LockInv, NBTInv
<1>3. TextInv' BY <1>1 DEF FInv, TextInv, SavesShown, DropsAgreed
<1>4. ShownInv' BY <1>1 DEF FInv, ShownInv, Fresh, Listing, BusyReq
<1>. QED BY <1>2, <1>3, <1>4 DEF FInv

LEMMA NextInv == FInv /\ [Next]_vars => FInv'
BY BrowserPageKeeps, DialogsKeep, AnswersKeep, OthersKeep, StutterKeeps DEF Next

\* FInv is an invariant of the Files tab.
THEOREM FilesInvariance == Spec => []FInv
<1>1. Init => FInv BY InitInv
<1>2. FInv /\ [Next]_vars => FInv' BY NextInv
<1>. QED BY <1>1, <1>2, PTL DEF Spec

-----------------------------------------------------------------------------
(* What follows from it.                                                       *)

\* Unless a load or a deletion is under way, or the page missed something, the entries are
\* those of the folder shown and what is selected is among them, whatever clicks overlap;
\* and a change or a deletion goes on in the folder shown (Goes, load, run,
\* handleDeleteEntries, saveEditor).
THEOREM EntriesAreTheFolders == Spec => []EntriesAreCurrent
<1>1. FInv => EntriesAreCurrent BY DEF FInv, ShownInv, Fresh, BusyReq, TypeOK, EntriesAreCurrent
<1>. QED BY <1>1, FilesInvariance, PTL

\* A click writes no file; it counts as an input.
LEMMA ClicksOnly ==
    ASSUME TypeOK, BrowserPage \/ Review \/ NBTPage
    PROVE  disk' = disk /\ budget'.inputs # budget.inputs
<1>1. Press /\ disk' = disk
  <2>1. CASE NBTPage
    BY <2>1 DEF NBTPage, ReloadNBT, CloseNBT, SaveNBT, TagFields, AddTag, QuickFields, Changes
  <2>2. CASE Review BY <2>2 DEF Review, KeepEditing, UseServerVersion, SaveEditor
  <2>3. ASSUME NEW e, NEW ends, Run(e, ends) PROVE Press /\ disk' = disk BY <2>3 DEF Run
  <2>4. ASSUME NEW d, NEW ends, Makes(d, ends) PROVE Press /\ disk' = disk BY <2>3, <2>4 DEF Makes
  <2>5. ASSUME Upload \/ FromUrl \/ Archive \/ ArchiveSelected \/ Unzip \/ Mkdir PROVE Press /\ disk' = disk
    BY <2>3, <2>4, <2>5 DEF Upload, FromUrl, Archive, ArchiveSelected, Unzip, Mkdir
  <2>6. ASSUME NEW names, DeleteEntries(names) PROVE Press /\ disk' = disk BY <2>6 DEF DeleteEntries
  <2>7. ASSUME NewFile \/ Refresh \/ Crumbs \/ EnterFolder PROVE Press /\ disk' = disk
    BY <2>7 DEF NewFile, Refresh, Crumbs, EnterFolder, Goes
  <2>8. ASSUME NEW names, Select(names) PROVE Press /\ disk' = disk BY <2>8 DEF Select
  <2>9. ASSUME NEW n, NEW names, OpenNBT(n, names) \/ OpenEditor(n, names) PROVE Press /\ disk' = disk
    BY <2>9 DEF OpenNBT, OpenEditor
  <2>10. ASSUME NEW n, Rename(n) \/ Delete(n) \/ EntryClick(n) \/ SelectEntry(n) \/ ContextEntry(n)
         PROVE  Press /\ disk' = disk
    BY <2>3, <2>6, <2>7, <2>8, <2>9, <2>10 DEF Rename, Delete, EntryClick, SelectEntry, ContextEntry
  <2>11. CASE Toolbar \/ UrlForm \/ FolderMenu
    BY <2>5, <2>6, <2>7, <2>11 DEF Toolbar, UrlForm, FolderMenu, DeleteSelected
  <2>12. CASE EntryRow \/ EntryMenu
    BY <2>5, <2>6, <2>9, <2>10, <2>12 DEF EntryRow, EntryMenu, DeleteSelected
  <2>13. CASE Crumbs \/ SelectionHeader \/ SelectRange
    BY <2>7, <2>8, <2>13 DEF SelectionHeader, SelectAll, SelectRange
  <2>14. CASE EditorPane BY <2>14 DEF EditorPane, EditText, SaveEditor, CloseEditor
  <2>. QED BY <2>1, <2>2, <2>11, <2>12, <2>13, <2>14 DEF BrowserPage
<1>. QED BY <1>1, PressKept

\* A save of text or NBT replaces only what its user has been shown, whatever others wrote
\* meanwhile, but for what is written without the mutex after the comparison of revisions.
THEOREM SavesReplaceWhatWasShown == Spec => NoLostUpdate
<1> DEFINE Kept == \A r \in requests \ requests' :
        r.kind \in {"save", "nbtsave"} /\ Replaces(r) => Shown(r) \/ history.between
<1>1. ASSUME FInv, Next PROVE Kept
  <2>1. TypeOK /\ TextInv /\ NBTInv BY <1>1 DEF FInv
  <2>2. CASE BrowserPage \/ Review \/ NBTPage BY <2>1, <2>2, ClicksOnly DEF Replaces
  <2>3. CASE OtherChanges \/ Switches BY <2>3 DEF OtherChanges, Switches, Other
  <2>4. CASE Answers
    <3>1. SUFFICES ASSUME NEW r \in requests, r \notin requests', r.kind \in {"save", "nbtsave"},
                          Replaces(r)
                   PROVE  Shown(r) \/ history.between
      OBVIOUS
    <3>2. PICK s \in requests :
        \/ s.kind = "list" /\ (ListRead(s) \/ Listed(s) \/ ListFails(s))
        \/ s.kind = "run" /\ (Runs(s) \/ RunFails(s))
        \/ s.kind = "delete" /\ (Deleted(s, First(s)) \/ DeleteFails(s, First(s)) \/ DeleteEnds(s))
        \/ s.kind = "open" /\ (Opened(s) \/ OpenFails(s))
        \/ s.kind = "save" /\ (Compares(s) \/ Conflicts(s) \/ Saved(s) \/ SaveFails(s))
        \/ s.kind = "nbtread" /\ (NBTRead(s) \/ NBTReadFails(s))
        \/ s.kind = "nbtsave" /\ (NBTSaved(s) \/ NBTRefused(s) \/ NBTSaveFails(s))
      BY <2>4 DEF Answers
    <3>3. requests \ {s} \subseteq requests'
      BY <3>2 DEF ListRead, Listed, ListFails, Runs, RunFails, Deleted, DeleteFails, DeleteEnds, Opened, OpenFails,
                  Compares, Conflicts, Saved, SaveFails, NBTRead, NBTReadFails, NBTSaved, NBTRefused,
                  NBTSaveFails, Done, Then
    <3>4. s = r BY <3>1, <3>3
    <3>5. CASE r.kind = "save"
      <4>1. r.step = "compared" BY <3>1, <3>2, <3>4, <3>5 DEF Compares, Conflicts, Saved, SaveFails, Replaces
      <4>. QED BY <2>1, <3>5, <4>1 DEF TextInv, SavesShown, Shown
    <3>6. CASE r.kind = "nbtsave"
      <4>1. disk[r.path] = r.expected
        BY <3>1, <3>2, <3>4, <3>6 DEF NBTSaved, NBTRefused, NBTSaveFails, Replaces
      <4>. QED BY <2>1, <3>6, <4>1 DEF NBTInv, Shown
    <3>. QED BY <3>1, <3>5, <3>6
  <2>. QED BY <1>1, <2>2, <2>3, <2>4 DEF Next
<1>2. UNCHANGED vars => Kept BY DEF vars
<1>3. FInv /\ [Next]_vars => [Kept]_vars BY <1>1, <1>2
<1>. QED BY <1>3, FilesInvariance, PTL DEF Spec, NoLostUpdate

\* No answer takes unsaved text or an unsaved document away but the one whose loss the user
\* confirmed, however late it comes and whatever was typed after the confirmation.
THEOREM TypedTextStays == Spec => TypedKept
<1> DEFINE Kept == budget'.inputs = budget.inputs =>
        /\ editor.dirty /\ <<editor'.path, editor'.content>> # <<editor.path, editor.content>>
             => GivesUp(editor.content)
        /\ nbt.dirty /\ nbt'.root # nbt.root => GivesUp(nbt.root)
<1>1. ASSUME FInv, Next PROVE Kept
  <2>1. TypeOK /\ TextInv /\ NBTInv BY <1>1 DEF FInv
  <2>2. CASE BrowserPage \/ Review \/ NBTPage BY <2>1, <2>2, ClicksOnly
  <2>3. CASE OtherChanges \/ Switches BY <2>3 DEF OtherChanges, Switches, Other
  <2>4. CASE Answers
    <3>1. PICK s \in requests :
        \/ s.kind = "list" /\ (ListRead(s) \/ Listed(s) \/ ListFails(s))
        \/ s.kind = "run" /\ (Runs(s) \/ RunFails(s))
        \/ s.kind = "delete" /\ (Deleted(s, First(s)) \/ DeleteFails(s, First(s)) \/ DeleteEnds(s))
        \/ s.kind = "open" /\ (Opened(s) \/ OpenFails(s))
        \/ s.kind = "save" /\ (Compares(s) \/ Conflicts(s) \/ Saved(s) \/ SaveFails(s))
        \/ s.kind = "nbtread" /\ (NBTRead(s) \/ NBTReadFails(s))
        \/ s.kind = "nbtsave" /\ (NBTSaved(s) \/ NBTRefused(s) \/ NBTSaveFails(s))
      BY <2>4 DEF Answers
    <3>2. editor \in Editors /\ nbt \in NBTs BY <2>1 DEF TypeOK
    <3>3. CASE s.kind \in {"list", "run"}
      <4>1. nbt' = nbt BY <3>1, <3>3 DEF ListRead, Listed, ListFails, Runs, RunFails
      <4>2. editor' = editor \/ \E how, left : Ends(how, left)
        BY <3>1, <3>3 DEF ListRead, Listed, ListFails, Runs, RunFails
      <4>. QED BY <2>1, <4>1, <4>2, EndsKept
    <3>4. CASE s.kind = "delete"
      <4>1. nbt' = nbt BY <3>1, <3>4 DEF Deleted, DeleteFails, DeleteEnds
      <4>2. CASE Deleted(s, First(s))
        <5>1. s \in DeleteReqs BY <2>1, <3>4, Kinds DEF TypeOK
        <5>2. First(s) \in s.todo BY <4>2, <5>1, FirstTodo DEF Deleted
        <5>3. editor' = editor \/ (editor.dirty => s.drops = editor.content)
          BY <2>1, <3>4, <4>2, <5>2 DEF Deleted, TextInv, DropsAgreed
        <5>. QED BY <3>4, <4>1, <5>3 DEF GivesUp
      <4>3. CASE ~Deleted(s, First(s)) BY <3>1, <3>4, <4>1, <4>3 DEF DeleteFails, DeleteEnds
      <4>. QED BY <4>2, <4>3
    <3>5. CASE s.kind = "open"
      BY <2>1, <3>1, <3>5 DEF TextInv, Opened, OpenFails
    <3>6. CASE s.kind = "save"
      <4>1. nbt' = nbt BY <3>1, <3>6 DEF Compares, Conflicts, Saved, SaveFails
      <4>2. editor'.path = editor.path /\ editor'.content = editor.content
        BY <3>1, <3>2, <3>6 DEF Compares, Conflicts, Saved, SaveFails, Editors
      <4>. QED BY <4>1, <4>2
    <3>7. CASE s.kind = "nbtread"
      <4>1. editor' = editor BY <3>1, <3>7 DEF NBTRead, NBTReadFails
      <4>2. nbt.dirty => s.drops = nbt.root BY <2>1, <3>7 DEF NBTInv
      <4>. QED BY <3>7, <4>1, <4>2 DEF GivesUp
    <3>8. CASE s.kind = "nbtsave"
      <4>1. editor' = editor BY <3>1, <3>8 DEF NBTSaved, NBTRefused, NBTSaveFails
      <4>2. s.content = nbt.root BY <2>1, <3>8 DEF NBTInv
      <4>3. nbt'.root = nbt.root
        BY <3>1, <3>2, <3>8, <4>2 DEF NBTSaved, NBTRefused, NBTSaveFails, NBTs
      <4>. QED BY <4>1, <4>3
    <3>. QED BY <3>1, <3>3, <3>4, <3>5, <3>6, <3>7, <3>8
  <2>. QED BY <1>1, <2>2, <2>3, <2>4 DEF Next
<1>2. UNCHANGED vars => Kept BY DEF vars
<1>3. FInv /\ [Next]_vars => [Kept]_vars BY <1>1, <1>2
<1>. QED BY <1>3, FilesInvariance, PTL DEF Spec, TypedKept
=============================================================================
