--------------------------- MODULE MCFileManager ---------------------------
(* FileManager on three files and one folder, and its properties.             *)
EXTENDS FileManager

CONSTANTS A, N, C1, C2
MCDisk0 == [p \in Paths |-> CASE p = P(Root, Folder) -> Directory
                              [] p = P(Root, N) -> C1
                              [] p.name = A -> IF p.dir = Root THEN C1 ELSE C2
                              [] OTHER -> Absent]
MCTexts == {A}
MCTags == {N}
MCContents == {C1, C2}
MCDelivered == {C2}

\* Unless a load or a deletion is under way, the entries shown are those of the folder
\* shown, and what is selected, which "Delete selected" and "Zip" act on, is among them;
\* and while a change or a deletion goes on, the page stays in the folder it goes on in.
\* That holds through overlapping clicks, saves that end in another folder, changes that
\* fail halfway. Excused (stale), until the next good load, is what the page has no way to
\* know: a load that failed, a save whose answer was lost, a change by others; and what it
\* could: load takes an answer that came for another folder or after a later change.
\* (Goes, load, run, handleDeleteEntries, saveEditor.)
EntriesAreCurrent ==
    /\ \/ entries = Listing(cwd) /\ selected \subseteq Listing(cwd)
       \/ history.stale
       \/ \E r \in requests : r.kind \in {"list", "delete"}
    /\ \A r \in requests : r.kind \in {"run", "delete"} => r.dir = cwd

\* What a deletion names is in the folder it deletes in. The code breaks this: the entries
\* of the folder before stay on the screen, and can be selected and deleted, until the
\* answer for a changed folder comes (file-manager.tsx:168), and when a late one comes.
DeletesWhatIsShown ==
    [][\A r \in requests' \ requests :
        r.kind = "delete" /\ budget'.inputs < budget.inputs /\ ~history.stale => r.todo \subseteq Listing(r.dir)]_vars

\* A save never replaces what its user has not been shown, by the editor or by the
\* comparison of a conflict, whatever others wrote since (saveEditor,
\* FileConflictDialog, WriteFileContent, WriteNBT). Excused is what is written,
\* without the mutex of the editors, after the comparison of revisions.
Replaces(r) == disk'[r.path] # disk[r.path]
Shown(r) == disk[r.path] \in (IF r.kind = "save" THEN editor.seen ELSE nbt.seen)
NoLostUpdate ==
    [][\A r \in requests \ requests' :
        r.kind \in {"save", "nbtsave"} /\ Replaces(r) => Shown(r) \/ history.between]_vars

\* No answer takes unsaved text away, unless it is the very text that the user
\* agreed to lose: neither an answer that comes late nor a deletion that was
\* confirmed before the text was typed (editor and NBT alike).
GivesUp(c) == \E r \in requests : r.kind \in {"delete", "nbtread"} /\ r.drops = c
TypedKept ==
    [][budget'.inputs = budget.inputs =>
        /\ editor.dirty /\ <<editor'.path, editor'.content>> # <<editor.path, editor.content>>
             => GivesUp(editor.content)
        /\ nbt.dirty /\ nbt'.root # nbt.root => GivesUp(nbt.root)]_vars

=============================================================================
