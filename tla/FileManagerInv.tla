-------------------------- MODULE FileManagerInv --------------------------
(* The inductive invariant of FileManager behind EntriesAreCurrent, NoLostUpdate *)
(* and TypedKept: which requests can be under way together, and what the page still *)
(* is what it was when it sent one.                                             *)
EXTENDS MCFileManager

Folders == {Root, Folder}
TextPaths == {P(d, n) : d \in Folders, n \in Texts}
TagPaths == {P(d, n) : d \in Folders, n \in Tags}
Revisions == Contents \cup {Absent, None}

\* What is sent to the server, by kind.
ListReqs == [kind : {"list"}, dir : Folders, ends : {"load", "run", "zip", "save"},
             got : {None} \cup SUBSET (Names \cup {Folder})]
Effects == [op : {"put"}, to : Paths, content : Delivered]
           \cup [op : {"mkdir"}, to : {P(Root, Folder)}] \cup [op : {"move"}, from : Paths, to : Paths]
RunReqs == [kind : {"run"}, effect : Effects, dir : Folders, ends : {"run", "zip"}]
DeleteReqs == [kind : {"delete"}, dir : Folders, todo : SUBSET (Names \cup {Folder}),
               gone : SUBSET (Names \cup {Folder}), open : TextPaths \cup {None},
               drops : Contents \cup {None}]
OpenReqs == [kind : {"open"}, path : TextPaths]
SaveReqs == [kind : {"save"}, step : {"sent", "compared"}, path : TextPaths, dir : Folders,
             content : Contents, expected : Contents \cup {Absent}]
NBTReadReqs == [kind : {"nbtread"}, path : TagPaths, drops : Contents \cup {Broken, None}]
NBTSaveReqs == [kind : {"nbtsave"}, path : TagPaths, content : Contents, expected : Contents]
AllReqs == ListReqs \cup RunReqs \cup DeleteReqs \cup OpenReqs \cup SaveReqs \cup NBTReadReqs
           \cup NBTSaveReqs

Editors == [path : TextPaths \cup {None}, content : Contents, dirty : BOOLEAN, busy : BOOLEAN,
            revision : Revisions, conflict : Revisions, seen : SUBSET (Contents \cup {Absent})]
NBTs == [path : TagPaths \cup {None}, root : Contents \cup {Broken, None},
         revision : Contents \cup {None}, dirty : BOOLEAN, busy : BOOLEAN, editable : BOOLEAN,
         conflict : BOOLEAN, seen : SUBSET Contents]
Histories == [stale : BOOLEAN, between : BOOLEAN]
Budgets == [inputs : Nat, fails : Nat, others : Nat]

\* Every variable keeps its type.
TypeOK ==
    /\ disk \in [Paths -> Contents \cup {Directory, Absent}] /\ stopped \in BOOLEAN
    /\ cwd \in Folders /\ entries \subseteq Names \cup {Folder} /\ selected \subseteq entries
    /\ busy \in BOOLEAN /\ editor \in Editors /\ nbt \in NBTs /\ requests \subseteq AllReqs
    /\ history \in Histories /\ budget \in Budgets

\* The requests after which the text editor, the browser and the NBT editor are
\* released; each of the three has one at most, and is locked until it ends.
EditorReq(r) == r.kind \in {"open", "save"} \/ (r.kind = "list" /\ r.ends = "save")
BusyReq(r) == r.kind \in {"run", "delete"} \/ (r.kind = "list" /\ r.ends \in {"run", "zip"})
NBTReq(r) == r.kind \in {"nbtread", "nbtsave"}

LockInv ==
    /\ \A r \in requests : /\ EditorReq(r) => editor.busy
                           /\ BusyReq(r) => busy
                           /\ NBTReq(r) => nbt.busy
    /\ \A r, s \in requests : \/ EditorReq(r) /\ EditorReq(s)
                              \/ BusyReq(r) /\ BusyReq(s)
                              \/ NBTReq(r) /\ NBTReq(s)
                              => r = s

\* The text editor: a revision it holds was shown, an answer that replaces the
\* text finds it saved, and a deletion finds the text it was confirmed for.
SavesShown(r) ==
    r.kind = "save" =>
        /\ r.expected \in editor.seen
        /\ r.step = "compared" /\ ~history.between => disk[r.path] = r.expected
DropsAgreed(r) ==
    r.kind = "delete" =>
        /\ ~editor.busy /\ editor.conflict = None
        /\ \A n \in r.todo : editor.dirty /\ r.open \in Under(P(r.dir, n)) => r.drops = editor.content
TextInv ==
    /\ {editor.revision, editor.conflict} \subseteq editor.seen \cup {None}
    /\ \A r \in requests : /\ r.kind = "open" => ~editor.dirty /\ editor.conflict = None
                           /\ SavesShown(r) /\ DropsAgreed(r)

\* The NBT editor, likewise.
NBTInv ==
    /\ nbt.editable => nbt.revision \in nbt.seen
    /\ nbt.dirty => nbt.root \in Contents \cup {Broken}
    /\ nbt.busy => nbt.path # None
    /\ nbt.path # None => nbt.path.dir = cwd
    /\ \A r \in requests :
          /\ r.kind = "nbtread" /\ nbt.dirty => r.drops = nbt.root
          /\ r.kind = "nbtsave" => r.content = nbt.root /\ r.path = nbt.path /\ r.expected \in nbt.seen

\* The entries are those of the folder shown unless the page missed something or a load or
\* a deletion is to come; the page stays in the folder of what keeps the browser locked.
Fresh == ~history.stale
ShownInv ==
    /\ Fresh => \/ entries = Listing(cwd)
                \/ \E r \in requests : r.kind \in {"list", "delete"}
    /\ \A r \in requests : BusyReq(r) => r.dir = cwd

FInv == TypeOK /\ LockInv /\ TextInv /\ NBTInv /\ ShownInv
=============================================================================
