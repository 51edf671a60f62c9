-------------------------- MODULE MCCatalogInstall --------------------------
(* CatalogInstall on a project whose newest release requires a library, a      *)
(* library of that library, and a project without a release for this server    *)
(* that only the last one requires.                                            *)
EXTENDS CatalogInstall, TLC

MCProjects == {"app", "lib", "core", "pack"}
MCReleases == [p \in MCProjects |->
                  CASE p = "app" -> {1, 2} [] p = "pack" -> {} [] OTHER -> {1}]
MCDepends  == [j \in Jars |->
                  CASE j = Jar("app", 2) -> [required |-> {"lib"}, optional |-> {}]
                    [] j.p = "lib"  -> [required |-> {}, optional |-> {"core", "app"}]
                    [] j.p = "core" -> [required |-> {"pack"}, optional |-> {}]
                    [] OTHER        -> [required |-> {}, optional |-> {}]]

Walks(j, have, n) == {w \in UNION {[1..k -> Projects] : k \in 2..n + 1} :
    /\ w[1] = j.p
    /\ \A i \in 1..(Len(w) - 1) :
          w[i + 1] # j.p /\ w[i + 1] \in Direct(IF i = 1 THEN j ELSE Newest(w[i]))
    /\ \A i \in 2..(Len(w) - 1) : w[i] \notin have /\ Releases[w[i]] # {}}
Reachable(j, have, n) == {w[Len(w)] : w \in Walks(j, have, n)}

\* The dialog opens with exactly what the release needs, two levels deep on Modrinth
\* and one on CurseForge, and the server does not have: although it was computed from
\* the list and the marks a handler saw before its awaits. A request of the resolution
\* that fails leaves some of it out, and never adds to it. Excused once something ran
\* beside it, an earlier request failed, or a jar was deleted, after which installedIds
\* still names the project (resolveModrinthDependencies, resolveCurseForgeDependencies).
PromptIsNeeded ==
    [][prompt' # None /\ prompt' # prompt
           /\ ~history.overlap /\ ~history.failed /\ ~history.deleted =>
        LET have == {q \in Projects : InDir(q, dir)}
            deep == IF tab = "modrinth" THEN 2 ELSE 1
            need == Reachable(prompt'.jar, have, deep) \ have
        IN  /\ prompt'.missing \subseteq need
            /\ history'.failed \/ prompt'.missing = need]_vars

\* Once nothing runs ModsPanel lists the jars of the server, and two jars of one
\* project remain only where the user chose to keep both or clicked while another
\* action was under way, so that a handler decided on an old list. Lists that
\* overtook each other and failed requests are the only excuses (onModInstalled,
\* onModDeleted, findExistingOldJar).
Twice == \E j, k \in dir : j.p = k.p /\ j # k
QuietListTruthful ==
    Idle /\ ~history.overtaken /\ ~history.failed =>
        items = dir /\ (Twice => history.kept \/ history.overlap)

\* A handler installs the file of the project it was opened for, whichever dialog
\* was opened meanwhile: only a listing of releases that failed leaves those of
\* another project under the title of the selected one, and not on Modrinth, whose
\* buttons wait for the listing (the effects that list releases).
RightFile == \A f \in flows :
    f.jar # None /\ f.kind # "batch" /\ f.p # f.jar.p => history.failed /\ tab # "modrinth"

\* A server loses the last jar of a project only where the user confirmed its
\* deletion: updating never deletes the old jar before the new one is there, and a
\* failed download leaves the old one (executeInstall, downloadMod). Excused is a click
\* while another action was under way: two handlers may each replace the jar that the
\* other one installs.
Present(d) == {p \in Projects : InDir(p, d)}
NeverWithout == [][\A p \in Present(dir) \ Present(dir') :
                     history.overlap \/ \E f \in flows : f.kind = "delete" /\ f.jar.p = p]_vars

=============================================================================
