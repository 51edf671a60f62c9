----------------------------- MODULE MCModsPage -----------------------------
(* ModsPage on four mods: one with a release for each version, one for the new  *)
(* version only, one of Hangar whose newest release is for the old version, and *)
(* one of no catalogue.                                                         *)
EXTENDS ModsPage, TLC

A(v) == Jar("a", v)
MCInstalled == {{A("v1"), Jar("b", "v2"), Jar("u", "v1")}, {A("v2"), Jar("h", "v1")}}
MCAvailable == [m \in Mods |-> CASE m = "a" -> {"v1", "v2"} [] m = "b" -> {"v2"}
                                 [] OTHER   -> {"v1"}]
MCCatalogue == [m \in Mods |-> CASE m = "a" -> "modrinth" [] m = "b" -> "curseforge"
                                 [] m = "h" -> "hangar" [] OTHER -> "none"]
MCNewest    == [m \in Mods |-> IF m \in {"a", "b"} THEN "v2" ELSE "v1"]

\* Once nothing runs, a report that the helper still shows is about these jars, this
\* software and this target, although the one who asked for it kept an older list, and
\* the answer may come from a check that another request started. What the lookups of
\* that check missed it keeps. Excused by failed requests and clicks while another
\* handler ran (reportScope).
RestReportTruthful ==
    Quiet /\ seen = version /\ Shown /\ ~history.failed /\ ~history.overlap =>
        report.of = [Snapshot(target) EXCEPT !.missed = report.of.missed] /\ items = disk

Of(kind) == {f \in flows : f.kind = kind}

\* The one-click upgrade changes the software only when every jar is the one that its
\* catalogue proposes for the new version, which for Modrinth and CurseForge is a
\* release for that version: after a mod that failed the software stays where it is.
\* Not so for a mod of no catalogue and for one whose lookup failed in a check: those the
\* code leaves as they are. Every jar that it replaces is in the backup it has taken
\* before. What the user started beside it may still bring an old jar back or replace
\* another, and a request that failed before it began may have left it a report of other
\* jars (handleOneClickUpgrade, "Create a full pre-upgrade server backup").
Fits(j, v, missed) ==
    Proposed(j.mod, v) = j \/ Catalogue[j.mod] = "none" \/ j.mod \in missed
UpgradesWhole == \/ version' = version \/ history.overlap
                 \/ \E f \in Of("jar") : f.at = "install"
                 \/ history.failed /\ \A f \in Of("all") : ~f.failed
                 \/ \A j \in disk : Fits(j, version', history.missed)
Saved(f) == f.kept # None /\ (history.overlap \/ disk \ disk' \subseteq f.kept.disk)
UpgradeIsWhole ==
    [][UpgradesWhole /\ \A f \in Of("all") \ flows' : f.at = "apply" => Saved(f)]_vars

\* A mod comes to the server only in a jar that the user chose: a batch never brings
\* back one that was deleted, though it works through what a check had found before
\* (InvalidateModUpdatesCache, BatchUpdateMods). A check that overlapped the deletion
\* fills the cache with it again, the excuse.
Present(d) == {j.mod : j \in d}
NotResurrected == [][\A m \in Present(disk') \ Present(disk) :
    history.overlap \/ \E f \in flows : f.jar # None /\ f.jar.mod = m]_vars

\* What comments and texts of the program say, and the code does not (no run checks
\* these). The comment on handleUpdateMod, "downloads and applies a new jar version,
\* removing the old jar": once it has answered, the old jar is gone.
UpdateReplaces == \A f \in Of("one") : f.at = "done" /\ ~history.overlap => f.old \notin disk
\* The verdict of the helper, "Compatible releases are available for all" the mods: each
\* of them has a release for the target.
ReadyMeansReleases ==
    Shown /\ Ready(report.of) => \A j \in report.of.disk : target \in Available[j.mod]
\* What follows from that verdict: no software goes under a jar that is not for it.
UpgradeFits ==
    [][version' # version /\ ~history.overlap /\ ~history.failed =>
           (\E f \in Of("jar") : f.at = "install") \/ \A j \in disk : j.for = version']_vars

=============================================================================
