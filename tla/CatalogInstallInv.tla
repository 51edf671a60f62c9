--------------------------- MODULE CatalogInstallInv ---------------------------
(* The inductive invariants of CatalogInstall behind RightFile,                 *)
(* QuietListTruthful and NeverWithout: what a handler relies on after its       *)
(* awaits, and what the dialogs remember for the next click.                    *)
EXTENDS MCCatalogInstall

FlowSet == [id : Nat, kind : {"one", "pick", "batch", "delete"}, p : Projects,
            jar : Jars \cup {None}, old : Jars \cup {None}, left : Seq(Jars),
            at : {"find", "download", "replace", "done", "failed", "confirm", "delete"},
            seen : SUBSET Jars, marked : SUBSET Projects]
Updates == [p : Projects, jar : Jars, old : Jars]
Prompts == [p : Projects, jar : Jars, missing : SUBSET Projects, bare : SUBSET Projects]
Histories == [overlap : BOOLEAN, failed : BOOLEAN, kept : BOOLEAN, overtaken : BOOLEAN,
              deleted : BOOLEAN]

\* Every variable keeps its type.
TypeOK ==
    /\ tab \in {"modrinth", "hangar", "spiget", "curseforge"}
    /\ dir \subseteq Jars /\ items \subseteq Jars /\ loads \in Seq((SUBSET Jars) \cup {None})
    /\ flows \subseteq FlowSet /\ IsFiniteSet(flows) /\ marks \subseteq Projects
    /\ update \in Updates \cup {None} /\ prompt \in Prompts \cup {None} /\ chosen \subseteq Projects
    /\ selected \in Projects \cup {None} /\ shown \in Projects \cup {None}
    /\ listing \in {"idle", "loading", "failed"} /\ history \in Histories

\* What a handler holds at each of its awaits; an old jar is another one of the same
\* project.
Replaced(jar, old) == old # None => old.p = jar.p /\ old # jar
FlowOK(f) ==
    /\ f.jar = None => f.at \in {"find", "failed"}
    /\ f.kind = "delete" => f.at \in {"confirm", "delete", "done", "failed"}
    /\ f.at \in {"confirm", "delete"} => f.kind = "delete"
    /\ f.at = "find" => f.kind \in {"one", "pick"}
    /\ f.at = "find" \/ f.kind = "delete" => f.old = None
    /\ f.at = "replace" => f.old # None
    /\ f.at = "failed" => history.failed
    /\ Replaced(f.jar, f.old)
ShapeInv ==
    /\ \A f \in flows : FlowOK(f)
    /\ update # None => Replaced(update.jar, update.old)
    /\ listing = "failed" => history.failed

\* The file is that of the project, from the click over each dialog to the handler.
Wrong == history.failed /\ tab # "modrinth"
RightFlow(f) ==
    /\ f.jar # None /\ f.kind # "batch" /\ f.p # f.jar.p => Wrong
    /\ f.kind = "delete" => f.p = f.jar.p
RightInv ==
    /\ \A f \in flows : RightFlow(f)
    /\ update # None => update.p = update.jar.p \/ Wrong
    /\ prompt # None => prompt.p = prompt.jar.p \/ Wrong
    /\ listing = "idle" /\ selected # None => shown = selected

\* The list of jars, or the one asked for last, is current, unless a handler changed
\* the directory and will ask for another.
Pending(f) == f.at \in {"replace", "done"}
CurrentInv ==
    ~history.overtaken /\ ~history.failed /\ (\A f \in flows : ~Pending(f)) =>
        IF loads = <<>> THEN items = dir ELSE loads[Len(loads)] \in {None, dir}

\* Without a click that overlapped there is one handler, and what it published stays.
AloneInv ==
    ~history.overlap =>
        /\ \A f, g \in flows : f = g
        /\ \A f \in flows : f.at = "replace" => f.jar \in dir

\* No release names its own project among those it needs.
NoSelf == \A j \in Jars : j.p \notin Direct(j)

\* And where besides nothing failed, was overtaken or kept, a project has one jar but
\* while it is replaced, and a handler and the dialogs know it.
Orderly == NoSelf /\ ~history.overlap /\ ~history.failed /\ ~history.overtaken /\ ~history.kept
Of(p, jars) == {k \in jars : k.p = p}
OneEach(jars) == \A j, k \in jars : j.p = k.p => j = k
Knows(jar, old) == IF old = None THEN Of(jar.p, dir) \subseteq {jar} ELSE Of(jar.p, dir) = {old}
BatchKnows(f) ==
    \A i \in DOMAIN f.left :
        /\ Of(f.left[i].p, f.seen) = Of(f.left[i].p, dir) /\ f.left[i].p # f.jar.p
        /\ \A k \in DOMAIN f.left : f.left[k].p = f.left[i].p => k = i
FlowKnows(f) ==
    /\ OneEach(IF f.at = "replace" THEN dir \ {f.old} ELSE dir)
    /\ f.at = "find" => f.seen = dir /\ prompt = None /\ update = None
    /\ f.at = "download" => Knows(f.jar, f.old)
    /\ f.kind \in {"batch", "delete"} => update = None
    /\ f.kind = "batch" => BatchKnows(f)
OrderInv ==
    /\ NoSelf /\ prompt # None => prompt.jar.p \notin prompt.missing
    /\ Orderly =>
        /\ flows = {} => OneEach(dir)
        /\ \A f \in flows : FlowKnows(f)
        /\ update # None =>
            /\ prompt = None
            /\ \/ Of(update.jar.p, dir) = {update.old}
               \/ \E f \in flows : f.kind \in {"one", "pick"} /\ f.at \in {"download", "replace", "done"}

IInv == TypeOK /\ ShapeInv /\ RightInv /\ CurrentInv /\ AloneInv /\ OrderInv
=============================================================================
