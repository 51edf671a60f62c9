----------------------------- MODULE ModsPageProofs -----------------------------
(* The mods page: IInv is inductive, and so RestReportTruthful, UpgradeIsWhole   *)
(* and NotResurrected hold of any mods, versions and jars, and of any number of  *)
(* clicks, handlers and failures.                                                *)
EXTENDS ModsPageInv, TLAPS

-----------------------------------------------------------------------------
(* Handlers that start, and handlers that go on.                               *)

LEMMA NewIs ==
    ASSUME TypeOK, NEW kind \in Kinds, NEW at \in Stages \cup {"ask"}
    PROVE  LET f == New(kind, at)
           IN  /\ IsFlow(f) /\ f.kind = kind /\ f.at = at /\ f.mine = TRUE /\ f.scope = Scope
               /\ f.jar = None /\ f.got = None /\ f.left = {} /\ ~f.failed /\ f.force = FALSE
               /\ f.scope \in Scopes
<1>1. Scope \in Scopes BY DEF Scope, Scopes, TypeOK
<1>. QED BY <1>1 DEF New, IsFlow

LEMMA LoadIs ==
    ASSUME TypeOK, NEW check \in BOOLEAN, NEW fs
    PROVE  LET f == Load(check, fs)
           IN  /\ IsFlow(f) /\ f.kind = "load" /\ f.at = "list" /\ ~f.failed /\ f.got = None
               /\ f.force = check
<1>. QED BY DEF Load, New, IsFlow, Kinds

\* A load that starts is in order whatever the rest does.
LEMMA LoadOK ==
    ASSUME NEW f, f.kind = "load", f.at = "list", ~f.failed, f.got = None
    PROVE  FlowOK(f) /\ CalmFlow(f) /\ OrderlyFlow(f) /\ Dirty(f) /\ ~Works(f)
BY DEF FlowOK, CalmFlow, OrderlyFlow, Dirty, Works, Stages, Mounted, Helper

LEMMA GotoIs ==
    ASSUME NEW f, IsFlow(f),
           NEW a \in Stages \cup {"list", "listed", "ask", "asked", "answered", "failed"}
    PROVE  LET g == [f EXCEPT !.at = a]
           IN  /\ IsFlow(g) /\ g.at = a /\ g.kind = f.kind /\ g.mine = f.mine
               /\ g.scope = f.scope /\ g.jar = f.jar /\ g.got = f.got /\ g.left = f.left
               /\ g.kept = f.kept /\ g.failed = f.failed /\ g.force = f.force
BY DEF IsFlow

LEMMA Cleared ==
    ASSUME cache' = [k \in Keys |-> None]
    PROVE  cache' \in [Keys -> Snapshots \cup {None}] /\ \A k \in Keys : cache'[k] = None
OBVIOUS

LEMMA NowIsKey == Versions \subseteq Keys /\ Now \in Keys /\ Now \notin Versions
BY ModsPageAssumption DEF Keys, Now

LEMMA SnapshotIs ==
    ASSUME TypeOK, NEW key \in Keys
    PROVE  /\ Snapshot(key) \in Snapshots /\ Snapshot(key).disk = disk /\ Snapshot(key).missed = {}
           /\ key # Now => Snapshot(key).target = key
BY DEF Snapshot, Snapshots, TypeOK, Keys

LEMMA KeyIs ==
    ASSUME NEW f, IsFlow(f), FlowOK(f), f.at \in {"ask", "asked"}
    PROVE  /\ Key(f) \in Keys
           /\ f.kind \notin {"check", "panel"} => Key(f) = f.scope.target /\ Key(f) \in Versions
BY DEF Key, FlowOK, Keys, Scopes, Works

LEMMA JarIs ==
    ASSUME NEW j \in Jars
    PROVE  /\ j.mod \in Mods /\ j # None
           /\ Catalogue[j.mod] \in {"modrinth", "curseforge", "hangar", "none"}
BY ModsPageAssumption DEF Jars, Jar

\* What a catalogue proposes is a jar of the mod.
LEMMA ProposedIs ==
    ASSUME NEW m \in Mods, NEW v, Proposed(m, v) # None
    PROVE  Proposed(m, v) \in Jars /\ Proposed(m, v).mod = m
<1>1. \A w \in Available[m] : Jar(m, w) \in Jars /\ Jar(m, w).mod = m BY DEF Jars, Jar
<1>2. Newest[m] \in Available[m] BY ModsPageAssumption
<1>. QED BY <1>1, <1>2 DEF Proposed

LEMMA FailsIs ==
    ASSUME TypeOK, history' = [history EXCEPT !.failed = TRUE]
    PROVE  /\ history' \in Histories /\ history'.failed
           /\ history'.overlap = history.overlap /\ history'.missed = history.missed
BY DEF TypeOK, Histories

-----------------------------------------------------------------------------
(* What a step keeps.                                                          *)

\* One that ends, or goes on without beginning to work, leaves any other alone.
LEMMA AloneKept ==
    ASSUME Alone(flows), NEW f \in flows, NEW G, flows' = (flows \ {f}) \cup G,
           (\A g \in G : ~Works(g)) \/ (Works(f) /\ \E g : G = {g})
    PROVE  Alone(flows)'
<1>1. ASSUME NEW h \in flows \ {f} PROVE ~Works(h) BY <1>1 DEF Alone
<1>2. CASE \A g \in G : ~Works(g) BY <1>1, <1>2 DEF Alone
<1>3. CASE Works(f) /\ \E g : G = {g}
  <2>1. flows = {f} BY <1>3 DEF Alone
  <2>. QED BY <1>3, <2>1 DEF Alone
<1>. QED BY <1>2, <1>3

LEMMA WaitKept ==
    ASSUME ShapeInv, UNCHANGED calls, NEW f \in flows, f.at # "asked",
           flows \ {f} \subseteq flows'
    PROVE  \A k \in Keys : calls'[k] # None => Waiting(k)' # {}
<1> SUFFICES ASSUME NEW k \in Keys, calls[k] # None PROVE Waiting(k)' # {} OBVIOUS
<1>1. PICK h \in flows : h.at = "asked" /\ Key(h) = k BY DEF ShapeInv, Waiting
<1>. QED BY <1>1 DEF Waiting

LEMMA FlowOKKept ==
    ASSUME NEW h, FlowOK(h), tab' = tab, history.failed => history'.failed,
           history.missed \subseteq history'.missed
    PROVE  FlowOK(h)'
BY DEF FlowOK

\* A handler goes on or ends, maybe with a load, and no jar changes.
LEMMA StepKeeps ==
    ASSUME IInv, NEW f \in flows, f.at # "asked", NEW G, flows' = (flows \ {f}) \cup G,
           \A g \in G : IsFlow(g) /\ FlowOK(g)',
           (\A g \in G : ~Works(g)) \/ (Works(f) /\ \E g : G = {g}),
           UNCHANGED <<disk, calls, tab, seen, target>>, version' \in Versions,
           items' \subseteq Jars, cache' = cache \/ cache' = [k \in Keys |-> None],
           picker' \in {picker, None}, report' \in Reports \cup {None},
           tab = "list" => report' = None,
           report' = report \/ report'.of.missed \subseteq history.missed,
           history' \in Histories,
           history'.overlap = history.overlap, history.failed => history'.failed,
           history'.missed = history.missed,
           ~history.overlap => \A g \in G : CalmFlow(g)' /\ (picker' # None => Picks(g)),
           ~history.overlap /\ ~history'.failed =>
               /\ \A g \in G : OrderlyFlow(g)'
               /\ \/ \E g \in G : Dirty(g)
                  \/ items' = disk
                  \/ ~Dirty(f) /\ items' = items
               /\ report' = report \/ (report'.of.disk = disk /\ ~Works(f) /\ picker' = None)
    PROVE  IInv'
<1>1. TypeOK /\ ShapeInv BY DEF IInv
<1>2. TypeOK' BY <1>1, Cleared DEF TypeOK
<1>3. ShapeInv'
  <2>1. \A h \in flows' : FlowOK(h)' BY <1>1, FlowOKKept DEF ShapeInv
  <2>2. \A k \in Keys : calls'[k] # None => Waiting(k)' # {} BY <1>1, WaitKept
  <2>3. /\ \A k \in Keys : cache'[k] = cache[k] \/ cache'[k] = None
        /\ Versions \subseteq Keys
    BY NowIsKey
  <2>. QED BY <1>1, <2>1, <2>2, <2>3 DEF ShapeInv
<1>4. ASSUME ~history.overlap PROVE CalmInv'
  <2>1. CalmInv BY <1>4 DEF IInv
  <2>2. Alone(flows)' BY <2>1, AloneKept DEF CalmInv
  <2>3. \A h \in flows \ {f} : CalmFlow(h)' /\ (picker' # None => Picks(h))
    BY <2>1 DEF CalmInv, CalmFlow, Picks
  <2>4. \A k \in Keys : cache'[k] = cache[k] \/ cache'[k] = None OBVIOUS
  <2>. QED BY <1>4, <2>1, <2>2, <2>3, <2>4 DEF CalmInv
<1>5. ASSUME ~history.overlap, ~history'.failed PROVE OrderlyInv'
  <2>1. CalmInv /\ OrderlyInv BY <1>5 DEF IInv
  <2>2. \A h \in flows' : OrderlyFlow(h)'
    <3>1. \A h \in flows : OrderlyFlow(h)' BY <2>1 DEF OrderlyInv, OrderlyFlow
    <3>. QED BY <1>5, <3>1
  <2>3. ASSUME \A h \in flows' : ~Dirty(h) PROVE items' = disk
    <3>1. ~Dirty(f) => \A h \in flows : ~Dirty(h) BY <2>3
    <3>. QED BY <1>5, <2>1, <2>3, <3>1 DEF OrderlyInv
  <2>4. Sure' => Sure
    BY DEF Sure
  <2>5. ~Works(f) /\ picker' = None => ~Sure'
    <3>1. ~Works(f) => \A h \in flows : ~Works(h) BY <2>1 DEF CalmInv, Alone
    <3>. QED BY <3>1 DEF Sure
  <2>. QED BY <1>5, <2>1, <2>2, <2>3, <2>4, <2>5 DEF OrderlyInv
<1>. QED BY <1>2, <1>3, <1>4, <1>5 DEF IInv

\* One that works is alone when it changes the jars, and empties the caches.
LEMMA ChangeKeeps ==
    ASSUME IInv, NEW f \in flows, Works(f), f.at # "asked",
           NEW g, IsFlow(g), FlowOK(g)', flows' = (flows \ {f}) \cup {g},
           Works(g), g.kind = f.kind, g.mine = f.mine,
           disk' \subseteq Jars, cache' = [k \in Keys |-> None], UNCHANGED <<version, calls, page>>,
           history' \in Histories,
           history'.overlap = history.overlap, history.failed => history'.failed,
           history'.missed = history.missed,
           ~history.overlap => CalmFlow(g)',
           ~history.overlap /\ ~history'.failed => OrderlyFlow(g)' /\ Dirty(g)
    PROVE  IInv'
<1>1. TypeOK /\ ShapeInv BY DEF IInv
<1>2. TypeOK' BY <1>1, Cleared DEF TypeOK, page
<1>3. ShapeInv'
  <2>1. tab' = tab /\ report' = report BY DEF page
  <2>2. \A h \in flows' : FlowOK(h)' BY <1>1, <2>1, FlowOKKept DEF ShapeInv
  <2>3. \A k \in Keys : calls'[k] # None => Waiting(k)' # {} BY <1>1, WaitKept
  <2>4. (\A k \in Keys : cache'[k] = None) /\ Versions \subseteq Keys BY NowIsKey
  <2>. QED BY <1>1, <2>1, <2>2, <2>3, <2>4 DEF ShapeInv
<1>4. ASSUME ~history.overlap PROVE CalmInv'
  <2>1. CalmInv /\ flows = {f} BY <1>4 DEF IInv, CalmInv, Alone
  <2>2. flows' = {g} BY <2>1
  <2>3. \A k \in Keys : calls[k] = None BY <1>1, <2>1 DEF ShapeInv, Waiting
  <2>4. picker' # None => Picks(g) BY <2>1 DEF CalmInv, Picks, page
  <2>. QED BY <1>4, <2>2, <2>3, <2>4 DEF CalmInv, Alone
<1>5. ASSUME ~history.overlap, ~history'.failed PROVE OrderlyInv'
  <2>1. CalmInv /\ OrderlyInv /\ flows = {f} BY <1>5 DEF IInv, CalmInv, Alone
  <2>2. flows' = {g} BY <2>1
  <2>3. report # None => report.of.disk = report.scope.items BY <2>1 DEF OrderlyInv, Sure
  <2>. QED BY <1>5, <2>2, <2>3 DEF OrderlyInv, page
<1>. QED BY <1>2, <1>3, <1>4, <1>5 DEF IInv

\* A click is an overlap unless nothing ran.
LEMMA ClickIs ==
    ASSUME TypeOK, Click
    PROVE  /\ history' \in Histories /\ history'.failed = history.failed
           /\ history'.missed = history.missed
           /\ ~history'.overlap => ~history.overlap /\ flows = {}
<1>1. PICK q \in BOOLEAN : q = Quiet BY DEF Quiet
<1>2. history \in Histories BY DEF TypeOK
<1>3. history' = [history EXCEPT !.overlap = (history.overlap \/ ~q)] BY <1>1 DEF Click
<1>4. history' \in Histories BY <1>2, <1>3 DEF Histories
<1>5. /\ history'.failed = history.failed /\ history'.overlap = (history.overlap \/ ~q)
      /\ history'.missed = history.missed
  BY <1>2, <1>3 DEF Histories
<1>. QED BY <1>1, <1>4, <1>5 DEF Quiet

\* What a report that is shown says while nothing runs and nothing failed.
LEMMA ShownIs ==
    ASSUME IInv, Shown, flows = {}, ~history.overlap, ~history.failed
    PROVE  report.of.disk = disk /\ report.of.disk = report.scope.items
<1>1. items = disk BY DEF IInv, OrderlyInv
<1>2. report # None /\ report.scope.items = items BY DEF Shown, Scope
<1>. QED BY <1>1, <1>2 DEF IInv, OrderlyInv

\* A click starts a handler, which works from the report that is shown, if from any.
LEMMA StartKeeps ==
    ASSUME IInv, Click, NEW g, IsFlow(g), FlowOK(g), CalmFlow(g)', flows' = flows \cup {g},
           UNCHANGED <<server, tab, items, seen, report, picker>>, target' \in Versions,
           picker = None \/ Picks(g), ~Dirty(g) \/ g.kind = "load",
           ~Works(g) \/ report = None \/ picker # None \/ Shown,
           flows = {} /\ ~history'.overlap /\ ~history'.failed => OrderlyFlow(g)'
    PROVE  IInv'
<1>1. TypeOK /\ ShapeInv BY DEF IInv
<1>2. /\ history' \in Histories /\ history'.failed = history.failed
      /\ history'.missed = history.missed
      /\ ~history'.overlap => ~history.overlap /\ flows = {}
  BY <1>1, ClickIs
<1>3. TypeOK' BY <1>1, <1>2 DEF TypeOK, server
<1>4. ShapeInv'
  <2>1. UNCHANGED <<cache, calls, tab, report>> BY DEF server
  <2>2. FlowOK(g)' BY <1>2, <2>1, FlowOKKept
  <2>3. \A h \in flows' : FlowOK(h)' BY <1>1, <1>2, <2>1, <2>2, FlowOKKept DEF ShapeInv
  <2>4. \A k \in Keys : calls'[k] # None => Waiting(k)' # {} BY <1>1, <2>1 DEF ShapeInv, Waiting
  <2>. QED BY <1>1, <1>2, <2>1, <2>3, <2>4 DEF ShapeInv
<1>5. ASSUME ~history'.overlap PROVE CalmInv'
  <2>1. CalmInv /\ flows' = {g} BY <1>2, <1>5 DEF IInv
  <2>. QED BY <2>1 DEF CalmInv, Alone, server
<1>6. ASSUME ~history'.overlap, ~history'.failed PROVE OrderlyInv'
  <2>1. OrderlyInv /\ flows = {} /\ flows' = {g} BY <1>2, <1>6 DEF IInv
  <2>2. items = disk BY <2>1 DEF OrderlyInv
  <2>3. ASSUME report # None
        PROVE  /\ report.of.disk = disk \/ report.of.disk = report.scope.items
               /\ Works(g) \/ picker # None => report.of.disk = report.scope.items
    BY <1>2, <1>6, <2>1, <2>3, ShownIs DEF OrderlyInv, Sure
  <2>. QED BY <1>6, <2>1, <2>2, <2>3 DEF OrderlyInv, Sure, server
<1>. QED BY <1>3, <1>4, <1>5, <1>6 DEF IInv

\* A click, or closing a dialog, changes only what is on the screen.
LEMMA ScreenKeeps ==
    ASSUME IInv, UNCHANGED <<server, tab, items, report, flows>>, seen' \in Versions,
           target' \in Versions, Click \/ UNCHANGED history,
           picker' = picker \/ picker' = None \/ (Click /\ (report = None \/ Shown))
    PROVE  IInv'
<1>1. TypeOK /\ ShapeInv BY DEF IInv
<1>2. /\ history' \in Histories /\ history'.failed = history.failed
      /\ history'.missed = history.missed
      /\ ~history'.overlap => ~history.overlap
      /\ Click /\ ~history'.overlap => flows = {}
  BY <1>1, ClickIs DEF TypeOK
<1>3. TypeOK' BY <1>1, <1>2 DEF TypeOK, server
<1>4. ShapeInv'
  <2>1. UNCHANGED <<cache, calls, tab, report>> BY DEF server
  <2>2. \A h \in flows' : FlowOK(h)' BY <1>1, <1>2, <2>1, FlowOKKept DEF ShapeInv
  <2>3. \A k \in Keys : calls'[k] # None => Waiting(k)' # {} BY <1>1, <2>1 DEF ShapeInv, Waiting
  <2>. QED BY <1>1, <1>2, <2>1, <2>2, <2>3 DEF ShapeInv
<1>5. ASSUME ~history'.overlap PROVE CalmInv'
  <2>1. CalmInv BY <1>2, <1>5 DEF IInv
  <2>2. \A h \in flows : CalmFlow(h)' BY <1>2, <2>1 DEF CalmInv, CalmFlow, server
  <2>3. picker' # None => \A h \in flows : Picks(h) BY <1>2, <1>5, <2>1 DEF CalmInv
  <2>. QED BY <2>1, <2>2, <2>3 DEF CalmInv, Alone, server
<1>6. ASSUME ~history'.overlap, ~history'.failed PROVE OrderlyInv'
  <2>1. CalmInv /\ OrderlyInv BY <1>2, <1>6 DEF IInv
  <2>2. \A h \in flows : OrderlyFlow(h)' BY <1>2, <2>1 DEF OrderlyInv, OrderlyFlow, server
  <2>3. report # None /\ Sure' => report.of.disk = report.scope.items
    <3>1. CASE picker' = picker \/ picker' = None BY <2>1, <3>1 DEF OrderlyInv, Sure
    <3>2. CASE Click /\ (report = None \/ Shown) BY <1>2, <1>6, <3>2, ShownIs
    <3>. QED BY <3>1, <3>2
  <2>. QED BY <2>1, <2>2, <2>3 DEF OrderlyInv, server
<1>. QED BY <1>3, <1>4, <1>5, <1>6 DEF IInv

\* What the invariant says of a handler.
LEMMA FlowHas ==
    ASSUME IInv, NEW f \in flows
    PROVE  /\ IsFlow(f) /\ FlowOK(f) /\ TypeOK /\ ShapeInv
           /\ ~history.overlap =>
                /\ CalmFlow(f) /\ Alone(flows) /\ (picker # None => Picks(f))
                /\ Works(f) => flows = {f}
           /\ ~history.overlap /\ ~history.failed => OrderlyFlow(f)
BY DEF IInv, TypeOK, ShapeInv, CalmInv, OrderlyInv, Alone

-----------------------------------------------------------------------------
(* The checks of the API.                                                      *)

LEMMA CachedInv ==
    ASSUME IInv, NEW f \in flows, f.at = "ask", Cached(f),
           UNCHANGED <<disk, version, cache, page, busy, history, budget>>
    PROVE  IInv'
<1>0. PICK g : g = [f EXCEPT !.at = "answered", !.got = cache[Key(f)]] OBVIOUS
<1>1. IsFlow(f) /\ FlowOK(f) /\ TypeOK /\ ShapeInv BY FlowHas
<1>2. Key(f) \in Keys /\ (f.kind \notin {"check", "panel"} =>
         Key(f) = f.scope.target /\ Key(f) \in Versions)
  BY <1>1, KeyIs
<1>3. /\ cache[Key(f)] \in Snapshots /\ (Key(f) \in Versions => cache[Key(f)].target = Key(f))
      /\ cache[Key(f)].missed \subseteq history.missed
  BY <1>1, <1>2 DEF Cached, TypeOK, ShapeInv
<1>4. /\ IsFlow(g) /\ g.at = "answered" /\ g.got = cache[Key(f)] /\ g.kind = f.kind
      /\ g.mine = f.mine /\ g.scope = f.scope /\ g.left = f.left /\ g.kept = f.kept
      /\ g.failed = f.failed /\ g.force = f.force
  BY <1>0, <1>1, <1>3 DEF IsFlow
<1>5. flows' = (flows \ {f}) \cup {g} BY <1>0 DEF Cached, Move
<1>6. Works(g) => Works(f) BY <1>4 DEF Works
<1>7. FlowOK(g)' BY <1>1, <1>2, <1>3, <1>4 DEF FlowOK, Stages, page
<1>8. ASSUME ~history.overlap PROVE CalmFlow(g)' /\ (picker' # None => Picks(g))
  <2>1. CalmFlow(f) /\ (picker # None => Picks(f)) BY <1>8, FlowHas
  <2>2. cache[Key(f)].disk = disk BY <1>2, <1>3, <1>8 DEF IInv, CalmInv, Cached
  <2>. QED BY <1>4, <2>1, <2>2 DEF CalmFlow, Picks, page
<1>9. ASSUME ~history.overlap, ~history.failed PROVE OrderlyFlow(g)'
  BY <1>4, <1>9, FlowHas DEF OrderlyFlow
<1>10. /\ UNCHANGED <<disk, calls, tab, seen, target, items, picker, report, history>>
       /\ version' \in Versions /\ items' \subseteq Jars /\ report' \in Reports \cup {None}
       /\ tab = "list" => report' = None
       /\ history' \in Histories
  BY <1>1 DEF TypeOK, ShapeInv, page, Cached
<1>11. ~Dirty(f) BY DEF Dirty
<1>12. \/ \A h \in {g} : ~Works(h)
       \/ Works(f) /\ \E h : {g} = {h}
  BY <1>6
<1>. QED BY <1>4, <1>5, <1>7, <1>8, <1>9, <1>10, <1>11, <1>12, StepKeeps

LEMMA JoinsInv ==
    ASSUME IInv, NEW f \in flows, f.at = "ask", Joins(f),
           UNCHANGED <<disk, version, cache, page, busy, history, budget>>
    PROVE  IInv'
<1> DEFINE g == [f EXCEPT !.at = "asked"]
           k0 == Key(f)
<1>1. IsFlow(f) /\ FlowOK(f) /\ TypeOK /\ ShapeInv BY FlowHas
<1>2. k0 \in Keys BY <1>1, KeyIs
<1>3. /\ IsFlow(g) /\ g.at = "asked" /\ g.kind = f.kind /\ g.mine = f.mine
      /\ g.scope = f.scope /\ g.jar = f.jar /\ g.got = f.got /\ g.left = f.left
      /\ g.kept = f.kept /\ g.failed = f.failed /\ g.force = f.force
  BY <1>1, GotoIs
<1>4. flows' = (flows \ {f}) \cup {g} BY DEF Joins, Goto, Move
<1>5. Key(g) = k0 BY <1>3 DEF Key
<1>6. \A k \in Keys : /\ k # k0 => calls'[k] = calls[k]
                      /\ calls'[k] = calls[k] \/ calls'[k] = Snapshot(k)
  BY <1>1, <1>2 DEF Joins, TypeOK
<1>7. calls' \in [Keys -> Snapshots \cup {None}]
  <2>1. Snapshot(k0) \in Snapshots BY <1>1, <1>2, SnapshotIs
  <2>. QED BY <1>1, <2>1 DEF Joins, TypeOK
<1> HIDE DEF g, k0
<1>8. TypeOK' BY <1>1, <1>3, <1>4, <1>7 DEF TypeOK, page
<1>9. ShapeInv'
  <2>1. FlowOK(g)' BY <1>1, <1>3 DEF FlowOK, Stages, page
  <2>2. \A h \in flows' : FlowOK(h)' BY <1>1, <1>4, <2>1, FlowOKKept DEF ShapeInv, page
  <2>3. ASSUME NEW k \in Keys, calls'[k] # None PROVE Waiting(k)' # {}
    <3>1. CASE k = k0 BY <1>3, <1>4, <1>5, <3>1 DEF Waiting
    <3>2. CASE k # k0
      <4>1. PICK h \in flows : h.at = "asked" /\ Key(h) = k
        BY <1>1, <1>6, <2>3, <3>2 DEF ShapeInv, Waiting
      <4>2. h \in flows' BY <1>4, <4>1
      <4>. QED BY <4>1, <4>2 DEF Waiting
    <3>. QED BY <3>1, <3>2
  <2>4. \A k \in Versions : calls'[k] # None => calls'[k].target = k
    BY <1>1, <1>6, SnapshotIs, NowIsKey DEF ShapeInv
  <2>5. tab' = "list" => report' = None BY <1>1 DEF ShapeInv, page
  <2>6. \A k \in Keys : calls'[k] # None => calls'[k].missed \subseteq history.missed
    BY <1>1, <1>6, SnapshotIs DEF ShapeInv
  <2>. QED BY <1>1, <2>2, <2>3, <2>4, <2>5, <2>6 DEF ShapeInv, page
<1>10. Works(g) <=> Works(f) BY <1>3 DEF Works
<1>11. ASSUME ~history.overlap PROVE CalmInv'
  <2>1. CalmInv /\ CalmFlow(f) /\ (picker # None => Picks(f)) BY <1>11, FlowHas DEF IInv
  <2>2. Alone(flows)' BY <1>4, <1>10, <2>1, AloneKept DEF CalmInv
  <2>3. CalmFlow(g)' /\ (picker # None => Picks(g)) BY <1>3, <2>1 DEF CalmFlow, Picks
  <2>4. \A h \in flows : CalmFlow(h)' /\ (picker # None => Picks(h)) BY <2>1 DEF CalmInv, CalmFlow
  <2>5. \A k \in Keys : calls'[k] # None => calls'[k].disk = disk
    BY <1>1, <1>6, <2>1, SnapshotIs DEF CalmInv
  <2>. QED BY <1>4, <2>1, <2>2, <2>3, <2>4, <2>5 DEF CalmInv, page
<1>12. ASSUME ~history.overlap, ~history.failed PROVE OrderlyInv'
  <2>1. OrderlyInv BY <1>12 DEF IInv
  <2>2. OrderlyFlow(g)' BY <1>3, <1>12, FlowHas DEF OrderlyFlow
  <2>3. \A h \in flows' : OrderlyFlow(h)' BY <1>4, <2>1, <2>2 DEF OrderlyInv, OrderlyFlow
  <2>4. ~Dirty(f) BY DEF Dirty
  <2>5. (\A h \in flows' : ~Dirty(h)) => \A h \in flows : ~Dirty(h) BY <1>4, <2>4
  <2>6. Sure' => Sure BY <1>4, <1>10 DEF Sure, page
  <2>. QED BY <2>1, <2>3, <2>5, <2>6 DEF OrderlyInv, page
<1>. QED BY <1>8, <1>9, <1>11, <1>12 DEF IInv

(* What a check that ends leaves behind: its answer `got`, or a failure. *)
Ended(key, at, got) ==
    /\ got \in Snapshots /\ got.disk = calls[key].disk /\ got.target = calls[key].target
    /\ \/ /\ at = "answered"
          /\ \E lost \in SUBSET Mods :
               /\ got.missed = lost
               /\ history' = [history EXCEPT !.missed = history.missed \cup lost]
          /\ cache' = cache \/ cache' = [cache EXCEPT ![key] = got]
          /\ flows' = (flows \ Waiting(key))
                      \cup {[f EXCEPT !.at = "answered", !.got = got] : f \in Waiting(key)}
       \/ /\ at = "failed" /\ history' = [history EXCEPT !.failed = TRUE]
          /\ UNCHANGED cache
          /\ flows' = (flows \ Waiting(key))
                      \cup {[f EXCEPT !.at = "failed"] : f \in Waiting(key)}

LEMMA CallEndsInv ==
    ASSUME IInv, NEW key \in Keys, CallEnds(key)
    PROVE  IInv'
<1>1. TypeOK /\ ShapeInv BY DEF IInv
<1>2. /\ calls[key] \in Snapshots /\ calls[key] # None
      /\ (key \in Versions => calls[key].target = key)
  BY <1>1 DEF CallEnds, TypeOK, ShapeInv
<1>0. PICK at, got : Ended(key, at, got)
  <2>1. ASSUME NEW lost \in SUBSET Lookups(calls[key]), NEW got,
               got = [calls[key] EXCEPT !.missed = lost]
        PROVE  /\ got \in Snapshots /\ got.disk = calls[key].disk
               /\ got.target = calls[key].target /\ got.missed = lost /\ lost \in SUBSET Mods
    BY <1>2, <2>1 DEF Snapshots, Lookups
  <2>2. CASE \E lost \in SUBSET Lookups(calls[key]) :
               /\ Answers(key, [calls[key] EXCEPT !.missed = lost])
               /\ history' = [history EXCEPT !.missed = history.missed \cup lost]
    <3>1. PICK lost \in SUBSET Lookups(calls[key]) :
               /\ Answers(key, [calls[key] EXCEPT !.missed = lost])
               /\ history' = [history EXCEPT !.missed = history.missed \cup lost]
      BY <2>2
    <3>2. PICK got : got = [calls[key] EXCEPT !.missed = lost] OBVIOUS
    <3>3. Answers(key, got) BY <3>1, <3>2
    <3>4. /\ cache' = cache \/ cache' = [cache EXCEPT ![key] = got]
          /\ flows' = (flows \ Waiting(key))
                      \cup {[f EXCEPT !.at = "answered", !.got = got] : f \in Waiting(key)}
      BY <3>3 DEF Answers
    <3>5. /\ got \in Snapshots /\ got.disk = calls[key].disk
          /\ got.target = calls[key].target /\ got.missed = lost /\ lost \in SUBSET Mods
      BY <2>1, <3>2
    <3>6. Ended(key, "answered", got) BY <3>1, <3>4, <3>5 DEF Ended
    <3>. QED BY <3>6
  <2>3. CASE /\ history' = [history EXCEPT !.failed = TRUE] /\ UNCHANGED cache
             /\ flows' = (flows \ Waiting(key))
                         \cup {[f EXCEPT !.at = "failed"] : f \in Waiting(key)}
    <3>1. Ended(key, "failed", calls[key]) BY <1>2, <2>3 DEF Ended
    <3>. QED BY <3>1
  <2>. QED BY <2>2, <2>3 DEF CallEnds
<1>3. Ended(key, at, got) /\ at \in {"answered", "failed"} BY <1>0 DEF Ended
<1>4. UNCHANGED <<disk, version, tab, items, seen, target, report, picker>>
  BY DEF CallEnds, page
<1>5. /\ \/ at = "answered" /\ flows' = (flows \ Waiting(key))
                          \cup {[f EXCEPT !.at = "answered", !.got = got] : f \in Waiting(key)}
         \/ at = "failed" /\ flows' = (flows \ Waiting(key))
                          \cup {[f EXCEPT !.at = "failed"] : f \in Waiting(key)}
      /\ cache' = cache \/ (at = "answered" /\ cache' = [cache EXCEPT ![key] = got])
  BY <1>3 DEF Ended
<1>6. /\ history' \in Histories /\ history'.overlap = history.overlap
      /\ history.failed => history'.failed
      /\ history.missed \subseteq history'.missed
      /\ at = "failed" => history'.failed
      /\ at = "answered" => got.missed \subseteq history'.missed
  <2>1. history \in Histories BY <1>1 DEF TypeOK
  <2>2. ASSUME NEW lost \in SUBSET Mods,
               history' = [history EXCEPT !.missed = history.missed \cup lost]
        PROVE  /\ history' \in Histories /\ history'.overlap = history.overlap
               /\ history'.failed = history.failed /\ history'.missed = history.missed \cup lost
    BY <2>1, <2>2 DEF Histories
  <2>3. CASE at = "answered"
    <3>1. PICK lost \in SUBSET Mods :
            /\ got.missed = lost
            /\ history' = [history EXCEPT !.missed = history.missed \cup lost]
      BY <1>3, <2>3 DEF Ended
    <3>. QED BY <2>2, <2>3, <3>1
  <2>4. CASE at = "failed" BY <1>1, <1>3, <2>4, FailsIs DEF Ended
  <2>. QED BY <1>3, <2>3, <2>4 DEF Ended
<1>7. \A g \in flows' : g \in flows \ Waiting(key) \/
        \E f \in flows : /\ f.at = "asked" /\ Key(f) = key /\ IsFlow(g) /\ g.at = at
                         /\ g.got = IF at = "answered" THEN got ELSE f.got
                         /\ g.kind = f.kind /\ g.mine = f.mine /\ g.scope = f.scope
                         /\ g.jar = f.jar /\ g.left = f.left /\ g.kept = f.kept
                         /\ g.failed = f.failed /\ g.force = f.force
                         /\ (flows = {f} => flows' = {g})
  <2> SUFFICES ASSUME NEW g \in flows', g \notin flows \ Waiting(key)
               PROVE  \E f \in flows :
                        /\ f.at = "asked" /\ Key(f) = key /\ IsFlow(g) /\ g.at = at
                        /\ g.got = IF at = "answered" THEN got ELSE f.got
                        /\ g.kind = f.kind /\ g.mine = f.mine /\ g.scope = f.scope
                        /\ g.jar = f.jar /\ g.left = f.left /\ g.kept = f.kept
                        /\ g.failed = f.failed /\ g.force = f.force
                        /\ (flows = {f} => flows' = {g})
    OBVIOUS
  <2>1. CASE at = "answered"
    <3>1. flows' = (flows \ Waiting(key))
                   \cup {[f EXCEPT !.at = "answered", !.got = got] : f \in Waiting(key)}
      BY <1>5, <2>1
    <3>2. PICK f \in Waiting(key) : g = [f EXCEPT !.at = "answered", !.got = got] BY <3>1
    <3>3. f \in flows /\ f.at = "asked" /\ Key(f) = key BY <3>2 DEF Waiting
    <3>4. IsFlow(f) BY <3>3, FlowHas
    <3>5. /\ IsFlow(g) /\ g.at = at /\ g.got = got /\ g.kind = f.kind /\ g.mine = f.mine
          /\ g.scope = f.scope /\ g.jar = f.jar /\ g.left = f.left /\ g.kept = f.kept
          /\ g.failed = f.failed /\ g.force = f.force
      BY <1>3, <2>1, <3>2, <3>4 DEF Ended, IsFlow
    <3>6. flows = {f} => flows' = {g} BY <3>1, <3>2, <3>3 DEF Waiting
    <3>. QED BY <2>1, <3>3, <3>5, <3>6
  <2>2. CASE at = "failed"
    <3>1. flows' = (flows \ Waiting(key)) \cup {[f EXCEPT !.at = "failed"] : f \in Waiting(key)}
      BY <1>5, <2>2
    <3>2. PICK f \in Waiting(key) : g = [f EXCEPT !.at = "failed"] BY <3>1
    <3>3. f \in flows /\ f.at = "asked" /\ Key(f) = key BY <3>2 DEF Waiting
    <3>4. IsFlow(f) BY <3>3, FlowHas
    <3>5. /\ IsFlow(g) /\ g.at = at /\ g.kind = f.kind /\ g.mine = f.mine
          /\ g.scope = f.scope /\ g.jar = f.jar /\ g.left = f.left /\ g.kept = f.kept
          /\ g.failed = f.failed /\ g.force = f.force /\ g.got = f.got
      BY <2>2, <3>2, <3>4, GotoIs
    <3>6. flows = {f} => flows' = {g} BY <3>1, <3>2, <3>3 DEF Waiting
    <3>. QED BY <2>2, <3>3, <3>5, <3>6
  <2>. QED BY <1>5, <2>1, <2>2
<1>8. \A k \in Keys : /\ k # key => calls'[k] = calls[k]
                      /\ calls'[k] = None \/ calls'[k] = calls[k]
                      /\ \/ cache'[k] = cache[k]
                         \/ k = key /\ cache'[k] = got /\ at = "answered"
  BY <1>1, <1>5 DEF CallEnds, TypeOK
<1>9. TypeOK'
  <2>1. /\ cache' \in [Keys -> Snapshots \cup {None}]
        /\ calls' \in [Keys -> Snapshots \cup {None}]
    BY <1>1, <1>3, <1>5 DEF Ended, CallEnds, TypeOK
  <2>2. \A g \in flows' : IsFlow(g) BY <1>1, <1>7 DEF TypeOK
  <2>. QED BY <1>1, <1>4, <1>6, <2>1, <2>2 DEF TypeOK
<1>10. ShapeInv'
  <2>1. ASSUME NEW g \in flows' PROVE FlowOK(g)'
    <3>1. CASE g \in flows BY <1>1, <1>4, <1>6, <3>1, FlowOKKept DEF ShapeInv
    <3>2. CASE g \notin flows
      <4>1. PICK f \in flows :
              /\ f.at = "asked" /\ Key(f) = key /\ IsFlow(g) /\ g.at = at
              /\ g.got = IF at = "answered" THEN got ELSE f.got
              /\ g.kind = f.kind /\ g.mine = f.mine /\ g.scope = f.scope /\ g.jar = f.jar
              /\ g.left = f.left /\ g.kept = f.kept /\ g.failed = f.failed /\ g.force = f.force
        BY <1>7, <3>2
      <4>2. FlowOK(f) /\ (f.kind \notin {"check", "panel"} =>
                             key = f.scope.target /\ key \in Versions)
        BY <4>1, FlowHas, KeyIs
      <4>3. \/ at = "answered" /\ got.missed \subseteq history'.missed
            \/ at = "failed" /\ history'.failed
        BY <1>5, <1>6
      <4>4. g.got # None => g.got.missed \subseteq history'.missed
        BY <1>6, <4>1, <4>2, <4>3 DEF FlowOK
      <4>5. at = "answered" => got \in Snapshots /\ (key \in Versions => got.target = key)
        BY <1>2, <1>3 DEF Ended
      <4>. QED BY <1>4, <1>6, <4>1, <4>2, <4>3, <4>4, <4>5 DEF FlowOK, Stages
    <3>. QED BY <3>1, <3>2
  <2>2. ASSUME NEW k \in Keys, calls'[k] # None PROVE Waiting(k)' # {}
    <3>1. k # key
      <4>1. calls'[key] = None BY <1>1 DEF CallEnds, TypeOK
      <4>. QED BY <2>2, <4>1
    <3>2. PICK h \in flows : h.at = "asked" /\ Key(h) = k
      BY <1>1, <1>8, <2>2, <3>1 DEF ShapeInv, Waiting
    <3>3. h \notin Waiting(key) BY <3>1, <3>2 DEF Waiting
    <3>4. h \in flows' BY <1>5, <3>2, <3>3
    <3>. QED BY <3>2, <3>4 DEF Waiting
  <2>3. \A k \in Versions : /\ cache'[k] # None => cache'[k].target = k
                            /\ calls'[k] # None => calls'[k].target = k
    BY <1>1, <1>2, <1>3, <1>8, NowIsKey DEF Ended, ShapeInv
  <2>5. /\ \A k \in Keys : /\ cache'[k] # None => cache'[k].missed \subseteq history'.missed
                           /\ calls'[k] # None => calls'[k].missed \subseteq history'.missed
        /\ report' # None => report'.of.missed \subseteq history'.missed
    <3>1. \A k \in Keys : cache'[k] # None => cache'[k].missed \subseteq history'.missed
      BY <1>1, <1>6, <1>8 DEF ShapeInv
    <3>2. \A k \in Keys : calls'[k] # None => calls'[k].missed \subseteq history'.missed
      BY <1>1, <1>6, <1>8 DEF ShapeInv
    <3>3. report # None => report.of.missed \subseteq history.missed BY <1>1 DEF ShapeInv
    <3>. QED BY <1>4, <1>6, <3>1, <3>2, <3>3
  <2>4. tab' = "list" => report' = None BY <1>1, <1>4 DEF ShapeInv
  <2>6. \A h \in flows' : FlowOK(h)' BY <2>1
  <2>7. \A k \in Keys : calls'[k] # None => Waiting(k)' # {} BY <2>2
  <2>. QED BY <2>3, <2>4, <2>5, <2>6, <2>7 DEF ShapeInv
<1>11. ASSUME ~history.overlap PROVE CalmInv'
  <2>1. CalmInv /\ got.disk = disk BY <1>2, <1>3, <1>11 DEF Ended, IInv, CalmInv
  <2>2. ASSUME NEW g \in flows', g \notin flows
        PROVE  /\ CalmFlow(g)' /\ (picker # None => Picks(g))
               /\ Works(g) => flows' = {g}
    <3>1. PICK f \in flows :
              /\ f.at = "asked" /\ Key(f) = key /\ IsFlow(g) /\ g.at = at
              /\ g.got = IF at = "answered" THEN got ELSE f.got
              /\ g.kind = f.kind /\ g.mine = f.mine /\ g.scope = f.scope /\ g.jar = f.jar
              /\ g.left = f.left /\ g.kept = f.kept /\ g.failed = f.failed /\ g.force = f.force
              /\ (flows = {f} => flows' = {g})
      BY <1>7, <2>2
    <3>2. CalmFlow(f) /\ (picker # None => Picks(f)) /\ (Works(f) => flows = {f})
      BY <1>11, FlowHas
    <3>3. at = "answered" \/ at = "failed" BY <1>5
    <3>. QED BY <1>4, <1>6, <2>1, <3>1, <3>2, <3>3 DEF CalmFlow, Picks, Works
  <2>3. ASSUME NEW h \in flows, h \in flows'
        PROVE  CalmFlow(h)' /\ (picker # None => Picks(h)) /\ (Works(h) => flows' = {h})
    <3>1. CalmFlow(h)' /\ (picker # None => Picks(h)) BY <1>4, <1>6, <2>1 DEF CalmInv, CalmFlow
    <3>2. ASSUME Works(h) PROVE flows' = {h}
      <4>1. flows = {h} BY <2>1, <3>2 DEF CalmInv, Alone
      <4>2. CASE \A g \in flows' : g \in flows BY <2>3, <4>1, <4>2
      <4>3. CASE \E g \in flows' : g \notin flows
        <5>1. PICK g \in flows' : g \notin flows BY <4>3
        <5>2. flows' = {g} BY <1>7, <4>1, <5>1
        <5>. QED BY <2>3, <5>1, <5>2
      <4>. QED BY <4>2, <4>3
    <3>. QED BY <3>1, <3>2
  <2>4. \A k \in Keys : /\ cache'[k] # None => cache'[k].disk = disk
                        /\ calls'[k] # None => calls'[k].disk = disk
    BY <1>8, <2>1 DEF CalmInv
  <2>. QED BY <1>4, <2>2, <2>3, <2>4 DEF CalmInv, Alone
<1>12. ASSUME ~history.overlap, ~history'.failed PROVE OrderlyInv'
  <2>1. OrderlyInv /\ at = "answered" BY <1>5, <1>6, <1>12 DEF IInv
  <2>2. ASSUME NEW g \in flows', g \notin flows
        PROVE  /\ OrderlyFlow(g)' /\ ~Dirty(g) /\ (Works(g) => Sure)
    <3>1. PICK f \in flows :
              /\ f.at = "asked" /\ g.at = at /\ g.kind = f.kind /\ g.scope = f.scope
              /\ g.left = f.left /\ g.force = f.force
      BY <1>7, <2>2
    <3>2. OrderlyFlow(f) BY <2>1 DEF OrderlyInv
    <3>. QED BY <1>4, <1>6, <2>1, <3>1, <3>2 DEF OrderlyFlow, CanFit, Dirty, Works, Sure
  <2>3. \A h \in flows : OrderlyFlow(h)'
    BY <1>4, <1>6, <2>1 DEF OrderlyInv, OrderlyFlow, CanFit, Fits
  <2>4. \A h \in flows \ flows' : ~Dirty(h) BY <1>5 DEF Waiting, Dirty
  <2>5. (\A h \in flows' : ~Dirty(h)) => \A h \in flows : ~Dirty(h) BY <2>4
  <2>6. Sure' => Sure BY <1>4, <2>2 DEF Sure
  <2>. QED BY <1>4, <2>1, <2>2, <2>3, <2>5, <2>6 DEF OrderlyInv
<1>. QED BY <1>6, <1>9, <1>10, <1>11, <1>12 DEF IInv

-----------------------------------------------------------------------------
(* Going on, ending, and going on while a load runs.                           *)

LEMMA GoesOn ==
    ASSUME IInv, NEW f \in flows, f.at # "asked", NEW g, IsFlow(g), FlowOK(g)',
           flows' = (flows \ {f}) \cup {g}, Works(g) => Works(f), Picks(f) => Picks(g),
           UNCHANGED <<disk, calls, page>>, version' \in Versions,
           cache' = cache \/ cache' = [k \in Keys |-> None],
           history' \in Histories,
           history'.overlap = history.overlap, history.failed => history'.failed,
           history'.missed = history.missed,
           ~history.overlap => CalmFlow(g)',
           ~history.overlap /\ ~history'.failed => OrderlyFlow(g)' /\ (Dirty(f) => Dirty(g))
    PROVE  IInv'
<1>1. TypeOK /\ ShapeInv /\ (~history.overlap /\ picker # None => Picks(f)) BY FlowHas
<1>2. /\ UNCHANGED <<tab, seen, target, items, picker, report>> /\ items' \subseteq Jars
      /\ report' \in Reports \cup {None} /\ (tab = "list" => report' = None)
  BY <1>1 DEF TypeOK, ShapeInv, page
<1>3. (\A h \in {g} : ~Works(h)) \/ (Works(f) /\ \E h : {g} = {h}) OBVIOUS
<1>. QED BY <1>1, <1>2, <1>3, StepKeeps

LEMMA EndsOn ==
    ASSUME IInv, NEW f \in flows, f.at # "asked", NEW G, flows' = (flows \ {f}) \cup G,
           \A g \in G : IsFlow(g) /\ g.kind = "load" /\ g.at = "list" /\ ~g.failed /\ g.got = None,
           G = {} \/ picker' = None \/ ~Picks(f),
           UNCHANGED <<server, tab, items, seen, target, report, history>>
           \/ /\ UNCHANGED <<disk, version, calls, tab, items, seen, target, report, history>>
              /\ cache' = [k \in Keys |-> None],
           picker' \in {picker, None},
           ~history.overlap /\ ~history.failed => G # {} \/ ~Dirty(f)
    PROVE  IInv'
<1>1. TypeOK /\ ShapeInv /\ (~history.overlap /\ picker # None => Picks(f)) BY FlowHas
<1>2. \A g \in G : FlowOK(g)' /\ CalmFlow(g)' /\ OrderlyFlow(g)' /\ Dirty(g) /\ ~Works(g)
  BY LoadOK DEF FlowOK, CalmFlow, OrderlyFlow, Stages, Mounted, Helper
<1>3. UNCHANGED <<disk, version, calls, tab, items, seen, target, report, history>> BY DEF server
<1>4. cache' = cache \/ cache' = [k \in Keys |-> None] BY DEF server
<1>5. /\ version' \in Versions /\ items' \subseteq Jars /\ report' \in Reports \cup {None}
      /\ (tab = "list" => report' = None) /\ history' \in Histories
  BY <1>1, <1>3 DEF TypeOK, ShapeInv
<1>6. ~history.overlap => \A g \in G : picker' # None => Picks(g) BY <1>1
<1>7. ~history.overlap /\ ~history.failed =>
        (\E g \in G : Dirty(g)) \/ (~Dirty(f) /\ items' = items)
  BY <1>2, <1>3
<1>. QED BY <1>1, <1>2, <1>3, <1>4, <1>5, <1>6, <1>7, StepKeeps

LEMMA RefreshKeeps ==
    ASSUME IInv, NEW f \in flows, f.at # "asked", NEW kind \in {"scan", "batch", "all"},
           Refresh(f, kind), f.kind \in Mounted, kind = "all" => ~f.failed,
           picker' = None \/ ~Picks(f), picker' \in {picker, None},
           UNCHANGED <<disk, version, calls, tab, items, seen, target, report, history>>,
           cache' = cache \/ cache' = [k \in Keys |-> None]
    PROVE  IInv'
<1>1. PICK g : g = [f EXCEPT !.kind = kind, !.at = "ask", !.force = TRUE] OBVIOUS
<1>2. PICK l : l = Load(TRUE, (flows \ {f}) \cup {g}) OBVIOUS
<1>3. flows' = (flows \ {f}) \cup {g, l} BY <1>1, <1>2 DEF Refresh, MoveAndLoad
<1>4. /\ IsFlow(f) /\ FlowOK(f) /\ TypeOK /\ ShapeInv
      /\ (~history.overlap => CalmFlow(f) /\ (picker # None => Picks(f)))
  BY FlowHas
<1>5. /\ IsFlow(g) /\ g.kind = kind /\ g.at = "ask" /\ g.force = TRUE /\ g.mine = f.mine
      /\ g.scope = f.scope /\ g.failed = f.failed /\ g.got = f.got
  BY <1>1, <1>4 DEF IsFlow, Kinds
<1>6. IsFlow(l) /\ l.kind = "load" /\ l.at = "list" /\ ~l.failed /\ l.got = None BY <1>2, <1>4, LoadIs
<1>7. FlowOK(l)' /\ CalmFlow(l)' /\ OrderlyFlow(l)' /\ Dirty(l) /\ ~Works(l)
  BY <1>6, LoadOK DEF FlowOK, CalmFlow, OrderlyFlow, Stages, Mounted, Helper
<1>8. f.kind \notin {"load", "check"} BY DEF Mounted, Helper
<1>9. FlowOK(g)' BY <1>4, <1>5, <1>8 DEF FlowOK, Stages, Mounted, Helper
<1>10. ~Works(g) /\ OrderlyFlow(g)' BY <1>5 DEF Works, OrderlyFlow
<1>11. ~history.overlap => CalmFlow(g)' BY <1>4, <1>5 DEF CalmFlow
<1>12. ~history.overlap => picker' = None BY <1>4
<1>13. /\ version' \in Versions /\ items' \subseteq Jars /\ report' \in Reports \cup {None}
       /\ (tab = "list" => report' = None) /\ history' \in Histories
  BY <1>4 DEF TypeOK, ShapeInv
<1>14. PICK G : G = {g, l} OBVIOUS
<1>15. /\ flows' = (flows \ {f}) \cup G /\ \A h \in G : IsFlow(h) /\ FlowOK(h)'
       /\ \A h \in G : ~Works(h)
  BY <1>3, <1>5, <1>6, <1>7, <1>9, <1>10, <1>14
<1>16. ~history.overlap => \A h \in G : CalmFlow(h)' /\ (picker' # None => Picks(h))
  BY <1>7, <1>11, <1>12, <1>14
<1>17. (\A h \in G : OrderlyFlow(h)') /\ (\E h \in G : Dirty(h)) /\ report' = report
  BY <1>7, <1>10, <1>14
<1>. QED BY <1>13, <1>15, <1>16, <1>17, StepKeeps

-----------------------------------------------------------------------------
(* What the API does with the jars and the software.                           *)

LEMMA BatchInv ==
    ASSUME IInv, NEW f \in flows, Batch(f)
    PROVE  IInv'
<1>1. PICK g : g = [f EXCEPT !.at = "apply", !.left = Updates(f.got)] BY DEF Batch
<1>2. flows' = (flows \ {f}) \cup {g} /\ f.at = "answered" BY <1>1 DEF Batch, Move
<1>3. IsFlow(f) /\ FlowOK(f) /\ TypeOK BY FlowHas
<1>4. /\ f.got \in Snapshots /\ Updates(f.got) \subseteq f.got.disk /\ f.got.disk \subseteq Jars
      /\ f.got # None
      /\ \A j \in Updates(f.got) : /\ Proposed(j.mod, f.got.target) \in Jars
                                 /\ j # Proposed(j.mod, f.got.target)
      /\ \A j \in f.got.disk \ Updates(f.got) :
            j.mod \in f.got.missed \/ Proposed(j.mod, f.got.target) \in {None, j}
  <2>1. f.got \in Snapshots BY <1>2, <1>3 DEF FlowOK
  <2>2. f.got.disk \subseteq Jars BY <2>1 DEF Snapshots
  <2>. QED BY <2>1, <2>2, JarIs, ProposedIs, ModsPageAssumption DEF Updates
<1>5. /\ IsFlow(g) /\ g.at = "apply" /\ g.left = Updates(f.got) /\ g.kind = f.kind
      /\ g.mine = f.mine /\ g.scope = f.scope /\ g.got = f.got /\ g.kept = f.kept
      /\ g.failed = f.failed /\ g.force = f.force
  BY <1>1, <1>3, <1>4 DEF IsFlow, Stages
<1>6. Works(f) /\ Works(g) BY <1>5 DEF Batch, Applying, Works
<1>7. FlowOK(g)' BY <1>2, <1>3, <1>4, <1>5, <1>6 DEF FlowOK, Batch, page
<1>8. ASSUME ~history.overlap PROVE CalmFlow(g)'
  <2>1. CalmFlow(f) BY <1>8, FlowHas
  <2>2. f.got.disk = disk BY <1>2, <2>1 DEF CalmFlow
  <2>3. g.kind = "all" /\ ~g.force => f.kept.disk = disk BY <1>2, <1>5, <2>1 DEF CalmFlow
  <2>. QED BY <1>4, <1>5, <2>1, <2>2, <2>3 DEF CalmFlow, Batch, server
<1>9. ASSUME ~history.overlap, ~history.failed PROVE OrderlyFlow(g)' /\ Dirty(g)
  <2>1. CalmFlow(f) /\ OrderlyFlow(f) BY <1>9, FlowHas
  <2>2. f.got.disk = disk BY <1>2, <2>1 DEF CalmFlow
  <2>3. f.kind = "all" => f.got.target = f.scope.target BY <1>2, <1>3 DEF FlowOK
  <2>4. f.got.missed \subseteq history.missed BY <1>3, <1>4 DEF FlowOK
  <2>. QED BY <1>2, <1>4, <1>5, <2>1, <2>2, <2>3, <2>4
           DEF OrderlyFlow, CanFit, Fits, Dirty, Batch, server
<1>10. /\ UNCHANGED <<disk, calls, page>> /\ cache' = cache /\ history' = history
       /\ version' \in Versions /\ history' \in Histories
  BY <1>3 DEF TypeOK, Batch, server
<1>11. Picks(f) => Picks(g) BY <1>5 DEF Picks
<1>. QED BY <1>2, <1>5, <1>6, <1>7, <1>8, <1>9, <1>10, <1>11, GoesOn

LEMMA ApplyInv ==
    ASSUME IInv, NEW f \in flows, f.at = "apply", NEW j \in f.left, Apply(f, j)
    PROVE  IInv'
<1>1. IsFlow(f) /\ FlowOK(f) /\ TypeOK BY FlowHas
<1>0. PICK p : p = Proposed(j.mod, f.got.target) OBVIOUS
<1>2. /\ j \in Jars /\ Works(f) /\ p \in Jars /\ p.mod = j.mod /\ f.got \in Snapshots
      /\ f.kind # "load"
  <2>1. /\ j \in Jars /\ Works(f) /\ p \in Jars /\ f.got \in Snapshots /\ f.kind # "load"
    BY <1>0, <1>1 DEF FlowOK, Stages, IsFlow, Works
  <2>. QED BY <1>0, <2>1, JarIs, ProposedIs
<1>3. UNCHANGED <<version, calls, page>> BY DEF Apply
<1>4. CASE /\ disk' = (disk \cup {p}) \ {j} /\ Invalidate
           /\ Move(f, [f EXCEPT !.left = @ \ {j}, !.failed = @ \/ j \notin disk])
           /\ UNCHANGED <<history, budget>>
  <2>1. PICK b \in BOOLEAN : b = (f.failed \/ j \notin disk) OBVIOUS
  <2>2. PICK g : g = [f EXCEPT !.left = f.left \ {j}, !.failed = b] OBVIOUS
  <2>3. flows' = (flows \ {f}) \cup {g} BY <1>4, <2>1, <2>2 DEF Move
  <2>4. /\ IsFlow(g) /\ g.left = f.left \ {j} /\ g.failed = b /\ g.kind = f.kind /\ g.at = "apply"
        /\ g.mine = f.mine /\ g.scope = f.scope /\ g.got = f.got /\ g.kept = f.kept
        /\ g.force = f.force
    BY <1>1, <2>2 DEF IsFlow
  <2>5. Works(g) BY <1>2, <2>4 DEF Works
  <2>6. FlowOK(g)' BY <1>1, <1>3, <1>4, <2>4, <2>5 DEF FlowOK, page
  <2>7. disk' \subseteq Jars BY <1>1, <1>2, <1>4 DEF TypeOK
  <2>8. ASSUME ~history.overlap PROVE CalmFlow(g)'
    <3>1. CalmFlow(f) BY <2>8, FlowHas
    <3>2. j \in disk /\ \A k \in f.left : k \in disk BY <3>1 DEF CalmFlow
    <3>3. b = f.failed BY <1>1, <2>1, <3>2 DEF IsFlow
    <3>. QED BY <1>4, <2>4, <3>1, <3>2, <3>3 DEF CalmFlow
  <2>9. ASSUME ~history.overlap, ~history.failed PROVE OrderlyFlow(g)' /\ Dirty(g)
    <3>1. CalmFlow(f) /\ OrderlyFlow(f) BY <2>9, FlowHas
    <3>2. j \in disk BY <3>1 DEF CalmFlow
    <3>3. f.kind = "all" => f.got.target = f.scope.target BY <1>1 DEF FlowOK
    <3>. QED BY <1>0, <1>2, <1>4, <2>4, <3>1, <3>2, <3>3 DEF OrderlyFlow, CanFit, Fits, Dirty
  <2>10. cache' = [k \in Keys |-> None] /\ history' = history
    BY <1>4 DEF Invalidate
  <2>11. history' \in Histories BY <1>1, <2>10 DEF TypeOK
  <2>. QED BY <1>2, <1>3, <2>3, <2>4, <2>5, <2>6, <2>7, <2>8, <2>9, <2>10, <2>11, ChangeKeeps
<1>5. CASE /\ Fails /\ history' = [history EXCEPT !.failed = TRUE]
           /\ Move(f, [f EXCEPT !.left = @ \ {j}, !.failed = TRUE])
           /\ \/ UNCHANGED <<disk, cache>>
              \/ disk' = disk \cup {p} /\ Invalidate
  <2>1. PICK g : g = [f EXCEPT !.left = f.left \ {j}, !.failed = TRUE] OBVIOUS
  <2>2. flows' = (flows \ {f}) \cup {g} BY <1>5, <2>1 DEF Move
  <2>3. /\ IsFlow(g) /\ g.left = f.left \ {j} /\ g.kind = f.kind /\ g.at = "apply"
        /\ g.mine = f.mine /\ g.scope = f.scope /\ g.got = f.got /\ g.kept = f.kept
        /\ g.force = f.force
    BY <1>1, <2>1 DEF IsFlow
  <2>4. /\ history' \in Histories /\ history'.failed
        /\ history'.overlap = history.overlap /\ history'.missed = history.missed
    BY <1>1, <1>5, FailsIs
  <2>5. FlowOK(g)' BY <1>1, <1>2, <1>3, <2>3, <2>4 DEF FlowOK, Works, page
  <2>6. ~history.overlap => CalmFlow(g)'
    BY <1>5, <2>3, <2>4, FlowHas DEF CalmFlow
  <2>7. Picks(f) => Picks(g) BY <2>3 DEF Picks
  <2>8. CASE UNCHANGED <<disk, cache>>
    <3>1. version' \in Versions /\ cache' = cache /\ disk' = disk
      BY <1>1, <1>3, <2>8 DEF TypeOK
    <3>. QED BY <1>2, <1>3, <2>2, <2>3, <2>4, <2>5, <2>6, <2>7, <3>1, GoesOn
  <2>9. CASE disk' = disk \cup {p} /\ Invalidate
    <3>1. disk' \subseteq Jars /\ cache' = [k \in Keys |-> None]
      BY <1>1, <1>2, <2>9 DEF TypeOK, Invalidate
    <3>2. Works(g) BY <1>2, <2>3 DEF Works
    <3>. QED BY <1>2, <1>3, <2>2, <2>3, <2>4, <2>5, <2>6, <3>1, <3>2, ChangeKeeps
  <2>. QED BY <1>5, <2>8, <2>9
<1>. QED BY <1>0, <1>4, <1>5 DEF Apply

\* The new jar is saved; the old one goes, or was gone.
LEMMA PutsInv ==
    ASSUME IInv, NEW f \in flows, Puts(f)
    PROVE  IInv'
<1>1. IsFlow(f) /\ FlowOK(f) /\ TypeOK /\ f.at = "put" BY FlowHas DEF Puts
<1>2. f.jar \in Jars /\ Works(f) BY <1>1 DEF FlowOK, Stages
<1>3. UNCHANGED <<version, calls, page>> /\ cache' = [k \in Keys |-> None]
  BY DEF Puts, Invalidate
<1>4. /\ disk' \subseteq Jars
      /\ \/ Goto(f, "done") /\ history' = history
         \/ Goto(f, "done") /\ history' = [history EXCEPT !.failed = history.failed \/ FALSE]
         \/ Goto(f, "failed") /\ history' = [history EXCEPT !.failed = history.failed \/ TRUE]
  <2>1. CASE PutOnly(f) BY <1>1, <1>2, <2>1 DEF PutOnly, TypeOK
  <2>2. CASE PutReplace(f)
    <3>1. PICK gone \in BOOLEAN : gone = (f.old \notin disk \cup {f.jar, None}) OBVIOUS
    <3>2. /\ Goto(f, IF gone THEN "failed" ELSE "done")
          /\ history' = [history EXCEPT !.failed = history.failed \/ gone]
      BY <2>2, <3>1 DEF PutReplace
    <3>3. disk' \subseteq Jars BY <1>1, <1>2, <2>2 DEF PutReplace, TypeOK
    <3>. QED BY <3>2, <3>3
  <2>. QED BY <2>1, <2>2 DEF Puts
<1>5. PICK a \in {"done", "failed"} :
        /\ Goto(f, a) /\ history' \in Histories
        /\ history'.overlap = history.overlap /\ (history.failed => history'.failed)
        /\ history'.missed = history.missed
        /\ a = "failed" => history'.failed
  BY <1>1, <1>4 DEF TypeOK, Histories
<1>6. PICK g : g = [f EXCEPT !.at = a] OBVIOUS
<1>7. flows' = (flows \ {f}) \cup {g} BY <1>5, <1>6 DEF Goto, Move
<1>8. /\ IsFlow(g) /\ g.at = a /\ g.kind = f.kind /\ g.mine = f.mine
      /\ g.scope = f.scope /\ g.jar = f.jar /\ g.got = f.got /\ g.left = f.left
      /\ g.kept = f.kept /\ g.failed = f.failed /\ g.force = f.force
  BY <1>1, <1>5, <1>6 DEF IsFlow, Stages
<1>9. Works(g) BY <1>2, <1>8 DEF Works
<1>10. FlowOK(g)' BY <1>1, <1>3, <1>5, <1>8, <1>9 DEF FlowOK, Works, page
<1>11. ~history.overlap => CalmFlow(g)' BY <1>1, <1>5, <1>8, FlowHas DEF CalmFlow
<1>12. ~history'.failed => OrderlyFlow(g)' /\ Dirty(g)
  BY <1>5, <1>8 DEF OrderlyFlow, Dirty
<1>. QED BY <1>1, <1>2, <1>3, <1>4, <1>5, <1>7, <1>8, <1>9, <1>10, <1>11, <1>12, ChangeKeeps

\* A jar is deleted, or was gone.
LEMMA DeletesInv ==
    ASSUME IInv, NEW f \in flows, Deletes(f)
    PROVE  IInv'
<1>1. IsFlow(f) /\ FlowOK(f) /\ TypeOK /\ f.at = "delete" BY FlowHas DEF Deletes
<1>2. Works(f) BY <1>1 DEF FlowOK, Stages
<1>3. /\ UNCHANGED <<version, calls, page>> /\ cache' = [k \in Keys |-> None]
      /\ disk' \subseteq Jars
  BY <1>1 DEF Deletes, Invalidate, TypeOK
<1>4. PICK gone \in BOOLEAN : gone = (f.jar \notin disk) OBVIOUS
<1>5. Goto(f, IF gone THEN "failed" ELSE "done") /\ history' = [history EXCEPT !.failed = @ \/ gone]
  BY <1>4 DEF Deletes
<1>6. PICK a \in {"done", "failed"} :
        /\ Goto(f, a) /\ history' \in Histories
        /\ history'.overlap = history.overlap /\ (history.failed => history'.failed)
        /\ history'.missed = history.missed
        /\ a = "failed" => history'.failed
  BY <1>1, <1>5 DEF TypeOK, Histories
<1>7. PICK g : g = [f EXCEPT !.at = a] OBVIOUS
<1>8. flows' = (flows \ {f}) \cup {g} BY <1>6, <1>7 DEF Goto, Move
<1>9. /\ IsFlow(g) /\ g.at = a /\ g.kind = f.kind /\ g.mine = f.mine
      /\ g.scope = f.scope /\ g.jar = f.jar /\ g.got = f.got /\ g.left = f.left
      /\ g.kept = f.kept /\ g.failed = f.failed /\ g.force = f.force
  BY <1>1, <1>6, <1>7 DEF IsFlow, Stages
<1>10. Works(g) BY <1>2, <1>9 DEF Works
<1>11. FlowOK(g)' BY <1>1, <1>3, <1>6, <1>9, <1>10 DEF FlowOK, Works, page
<1>12. ~history.overlap => CalmFlow(g)' BY <1>1, <1>6, <1>9, FlowHas DEF CalmFlow
<1>13. ~history'.failed => OrderlyFlow(g)' /\ Dirty(g)
  BY <1>6, <1>9 DEF OrderlyFlow, Dirty
<1>. QED BY <1>1, <1>2, <1>3, <1>6, <1>8, <1>9, <1>10, <1>11, <1>12, <1>13, ChangeKeeps

\* A file is renamed, or was gone: the jars stay.
LEMMA TogglesInv ==
    ASSUME IInv, NEW f \in flows, Toggles(f)
    PROVE  IInv'
<1>1. IsFlow(f) /\ FlowOK(f) /\ TypeOK /\ f.at = "toggle" BY FlowHas DEF Toggles
<1>2. Works(f) BY <1>1 DEF FlowOK, Stages
<1>3. /\ UNCHANGED <<disk, calls, page>> /\ cache' = [k \in Keys |-> None]
      /\ version' \in Versions
  BY <1>1 DEF Toggles, Invalidate, TypeOK
<1>4. PICK gone \in BOOLEAN : gone = (f.jar \notin disk) OBVIOUS
<1>5. Goto(f, IF gone THEN "failed" ELSE "done") /\ history' = [history EXCEPT !.failed = @ \/ gone]
  BY <1>4 DEF Toggles
<1>6. PICK a \in {"done", "failed"} :
        /\ Goto(f, a) /\ history' \in Histories
        /\ history'.overlap = history.overlap /\ (history.failed => history'.failed)
        /\ history'.missed = history.missed
        /\ a = "failed" => history'.failed
  BY <1>1, <1>5 DEF TypeOK, Histories
<1>7. PICK g : g = [f EXCEPT !.at = a] OBVIOUS
<1>8. flows' = (flows \ {f}) \cup {g} BY <1>6, <1>7 DEF Goto, Move
<1>9. /\ IsFlow(g) /\ g.at = a /\ g.kind = f.kind /\ g.mine = f.mine
      /\ g.scope = f.scope /\ g.jar = f.jar /\ g.got = f.got /\ g.left = f.left
      /\ g.kept = f.kept /\ g.failed = f.failed /\ g.force = f.force
  BY <1>1, <1>6, <1>7 DEF IsFlow, Stages
<1>10. Works(g) BY <1>2, <1>9 DEF Works
<1>11. FlowOK(g)' BY <1>1, <1>3, <1>6, <1>9, <1>10 DEF FlowOK, Works, page
<1>12. ~history.overlap => CalmFlow(g)' BY <1>1, <1>6, <1>9, FlowHas DEF CalmFlow
<1>13. ~history'.failed => OrderlyFlow(g)' /\ Dirty(g)
  BY <1>6, <1>9 DEF OrderlyFlow, Dirty
<1>14. Picks(f) => Picks(g) BY <1>9 DEF Picks
<1>. QED BY <1>1, <1>2, <1>3, <1>6, <1>8, <1>9, <1>10, <1>11, <1>12, <1>13, <1>14, GoesOn

\* The software is installed.
LEMMA InstallsInv ==
    ASSUME IInv, NEW f \in flows, Installs(f)
    PROVE  IInv'
<1>1. IsFlow(f) /\ FlowOK(f) /\ TypeOK /\ f.at = "install" BY FlowHas DEF Installs
<1>2. Works(f) BY <1>1 DEF FlowOK, Stages
<1>3. f.scope.target \in Versions
  <2>1. f.scope \in Scopes BY <1>1, <1>2 DEF FlowOK, Stages, Works, IsFlow
  <2>. QED BY <2>1 DEF Scopes
<1>4. /\ UNCHANGED <<disk, calls, page>> /\ cache' = [k \in Keys |-> None]
      /\ version' \in Versions /\ history' = history
      /\ history' \in Histories
  BY <1>1, <1>3 DEF Installs, Invalidate, TypeOK
<1>5. PICK g : g = [f EXCEPT !.at = "installed"] OBVIOUS
<1>6. flows' = (flows \ {f}) \cup {g} BY <1>5 DEF Installs, Goto, Move
<1>7. /\ IsFlow(g) /\ g.at = "installed" /\ g.kind = f.kind /\ g.mine = f.mine
      /\ g.scope = f.scope /\ g.jar = f.jar /\ g.got = f.got /\ g.left = f.left
      /\ g.kept = f.kept /\ g.failed = f.failed /\ g.force = f.force
  BY <1>1, <1>5 DEF IsFlow, Stages
<1>8. Works(g) BY <1>2, <1>7 DEF Works
<1>9. FlowOK(g)' BY <1>1, <1>4, <1>7, <1>8 DEF FlowOK, Works, page
<1>10. ~history.overlap => CalmFlow(g)' BY <1>1, <1>4, <1>7, FlowHas DEF CalmFlow
<1>11. OrderlyFlow(g)' /\ Dirty(g) BY <1>7 DEF OrderlyFlow, Dirty
<1>12. Picks(f) => Picks(g) BY <1>7 DEF Picks
<1>. QED BY <1>1, <1>2, <1>4, <1>6, <1>7, <1>9, <1>10, <1>11, <1>12, GoesOn

\* A request fails.
LEMMA RequestFailsInv ==
    ASSUME IInv, NEW f \in flows, RequestFails(f)
    PROVE  IInv'
<1>1. IsFlow(f) /\ FlowOK(f) /\ TypeOK /\ f.at # "asked" BY FlowHas DEF RequestFails
<1>2. /\ UNCHANGED <<disk, calls, page>> /\ cache' = cache /\ version' \in Versions
  BY <1>1 DEF RequestFails, server, TypeOK
<1>3. /\ history' \in Histories /\ history'.failed
      /\ history'.overlap = history.overlap /\ history'.missed = history.missed
  BY <1>1, FailsIs DEF RequestFails
<1>4. PICK g : g = [f EXCEPT !.at = "failed"] OBVIOUS
<1>5. flows' = (flows \ {f}) \cup {g} BY <1>4 DEF RequestFails, Goto, Move
<1>6. /\ IsFlow(g) /\ g.at = "failed" /\ g.kind = f.kind /\ g.mine = f.mine
      /\ g.scope = f.scope /\ g.jar = f.jar /\ g.got = f.got /\ g.left = f.left
      /\ g.kept = f.kept /\ g.failed = f.failed /\ g.force = f.force
  BY <1>1, <1>4 DEF IsFlow
<1>7. Works(g) => Works(f) BY <1>6 DEF Works
<1>8. FlowOK(g)'
  <2>1. f.kind = "all" => ~f.failed BY <1>1 DEF FlowOK, RequestFails
  <2>. QED BY <1>1, <1>2, <1>3, <1>6, <2>1 DEF FlowOK, Stages, page
<1>9. ~history.overlap => CalmFlow(g)' BY <1>3, <1>6 DEF CalmFlow
<1>10. Picks(f) => Picks(g) BY <1>6 DEF Picks
<1>. QED BY <1>1, <1>2, <1>3, <1>5, <1>6, <1>7, <1>8, <1>9, <1>10, GoesOn

-----------------------------------------------------------------------------
(* The handlers, from one answer to their next request.                        *)

LEMMA ListsInv ==
    ASSUME IInv, NEW f \in flows, Lists(f)
    PROVE  IInv'
<1>1. IsFlow(f) /\ FlowOK(f) /\ TypeOK /\ f.kind = "load" /\ f.at = "list"
  BY FlowHas DEF Lists
<1>2. PICK got : got = Snapshot(Now) OBVIOUS
<1>3. got \in Snapshots /\ got.disk = disk /\ got.missed = {}
  BY <1>1, <1>2, SnapshotIs, NowIsKey
<1>4. /\ UNCHANGED <<disk, calls, page>> /\ cache' = cache /\ version' \in Versions
      /\ history' = history /\ history' \in Histories
  BY <1>1 DEF Lists, server, TypeOK
<1>5. PICK g : g = [f EXCEPT !.at = "listed", !.got = got] OBVIOUS
<1>6. flows' = (flows \ {f}) \cup {g} BY <1>2, <1>5 DEF Lists, Move
<1>7. /\ IsFlow(g) /\ g.at = "listed" /\ g.kind = "load" /\ g.got = got /\ g.failed = f.failed
  BY <1>1, <1>3, <1>5 DEF IsFlow
<1>8. ~Works(g) BY <1>7 DEF Works
<1>9. FlowOK(g)' BY <1>3, <1>7 DEF FlowOK, Stages, Mounted, Helper
<1>10. ~history.overlap => CalmFlow(g)' BY <1>3, <1>4, <1>7, FlowHas DEF CalmFlow
<1>11. OrderlyFlow(g)' /\ Dirty(g) BY <1>7 DEF OrderlyFlow, Dirty
<1>12. ~Picks(f) BY <1>1 DEF Picks
<1>. QED BY <1>1, <1>4, <1>6, <1>7, <1>8, <1>9, <1>10, <1>11, <1>12, GoesOn

\* The list is there, and may be followed by a check for updates.
LEMMA ListedInv ==
    ASSUME IInv, NEW f \in flows, Listed(f)
    PROVE  IInv'
<1>1. /\ IsFlow(f) /\ FlowOK(f) /\ TypeOK /\ ShapeInv /\ f.kind = "load" /\ f.at = "listed"
      /\ ~history.overlap => CalmFlow(f) /\ (picker # None => Picks(f))
  BY FlowHas DEF Listed
<1>2. f.got \in Snapshots /\ f.got.disk \subseteq Jars BY <1>1 DEF FlowOK, Snapshots
<1>3. /\ UNCHANGED <<disk, calls, tab, seen, target>> /\ cache' = cache /\ report' = report
      /\ history' = history /\ version' \in Versions /\ items' \subseteq Jars
      /\ report' \in Reports \cup {None} /\ (tab = "list" => report' = None)
      /\ history' \in Histories /\ picker' \in {picker, None}
  BY <1>1, <1>2 DEF Listed, server, TypeOK, ShapeInv, ClosedPicker
<1>4. ~history.overlap => items' = disk BY <1>1 DEF CalmFlow, Listed
<1>5. ~Works(f) /\ ~Picks(f) BY <1>1 DEF Works, Picks
<1>6. PICK c : c = [f EXCEPT !.kind = "check", !.at = "ask", !.got = None, !.force = FALSE]
  OBVIOUS
<1>7. PICK G : flows' = (flows \ {f}) \cup G /\ G \in {{}, {c}}
  <2>1. Move(f, c) \/ flows' = flows \ {f} BY <1>6 DEF Listed
  <2>2. flows \ {f} = (flows \ {f}) \cup {} OBVIOUS
  <2>. QED BY <2>1, <2>2 DEF Move
<1>8. IsFlow(c) /\ c.kind = "check" /\ c.at = "ask" /\ c.failed = f.failed /\ c.got = None
  BY <1>1, <1>6 DEF IsFlow, Kinds
<1>9. FlowOK(c)' /\ ~Works(c) /\ OrderlyFlow(c)'
  BY <1>8 DEF FlowOK, Works, OrderlyFlow, Stages, Mounted, Helper
<1>10. ~history.overlap => CalmFlow(c)' /\ picker' = None
  BY <1>1, <1>3, <1>5, <1>8 DEF CalmFlow
<1>. QED BY <1>1, <1>3, <1>4, <1>7, <1>8, <1>9, <1>10, StepKeeps

LEMMA TakesUpdatesInv ==
    ASSUME IInv, NEW f \in flows, TakesUpdates(f)
    PROVE  IInv'
<1>1. /\ f.at # "asked" /\ ~Picks(f) /\ ~Dirty(f) /\ picker' \in {picker, None}
      /\ UNCHANGED <<server, tab, items, seen, target, report, history>>
  BY DEF TakesUpdates, Picks, Dirty
<1>2. flows' = (flows \ {f}) \cup {} BY DEF TakesUpdates, Ends
<1>. QED BY <1>1, <1>2, EndsOn

\* A report of the jars as they are, for the list that was there at the click.
LEMMA TakesReportInv ==
    ASSUME IInv, NEW f \in flows, TakesReport(f)
    PROVE  IInv'
<1>1. /\ IsFlow(f) /\ FlowOK(f) /\ TypeOK /\ ShapeInv /\ f.at = "answered" /\ f.kind \in Helper
      /\ ~history.overlap => CalmFlow(f) /\ (picker # None => Picks(f))
  BY FlowHas DEF TakesReport
<1>2. f.got \in Snapshots /\ f.scope \in Scopes /\ f.got.missed \subseteq history.missed
  BY <1>1, ModsPageAssumption DEF FlowOK, Helper
<1>3. /\ UNCHANGED <<disk, calls, tab, seen, target, items, picker, history>> /\ cache' = cache
      /\ version' \in Versions /\ items' \subseteq Jars
      /\ history' \in Histories
  BY <1>1 DEF TakesReport, server, TypeOK
<1>4. report' = report \/ (f.mine /\ report' = [scope |-> f.scope, of |-> f.got])
  BY DEF TakesReport
<1>5. report' \in Reports \cup {None} BY <1>1, <1>2, <1>4 DEF Reports, TypeOK
<1>6. tab = "list" => report' = None BY <1>1, <1>4 DEF FlowOK, ShapeInv, Mounted
<1>7. ~Works(f) /\ ~Picks(f) /\ ~Dirty(f) BY <1>1 DEF TakesReport, Works, Picks, Dirty, Helper
<1>8. ~history.overlap => report' = report \/ (report'.of.disk = disk /\ picker' = None)
  BY <1>1, <1>3, <1>4, <1>7 DEF CalmFlow
<1>12. report' = report \/ report'.of.missed \subseteq history.missed BY <1>2, <1>4
<1>9. PICK G : G = {} OBVIOUS
<1>10. flows' = (flows \ {f}) \cup G BY <1>9 DEF TakesReport, Ends
<1>11. items' = items /\ picker' \in {picker, None} /\ \A g \in G : FALSE BY <1>3, <1>9
<1>. QED BY <1>1, <1>3, <1>5, <1>6, <1>7, <1>8, <1>9, <1>10, <1>11, <1>12, StepKeeps

\* A handler that ends with a load.
LEMMA EndsLoadingInv ==
    ASSUME IInv, NEW f \in flows, f.at # "asked", NEW check \in BOOLEAN, EndsWithLoad(f, check),
           picker' = None \/ ~Picks(f), picker' \in {picker, None},
           UNCHANGED <<disk, version, calls, tab, items, seen, target, report, history>>,
           cache' = cache \/ cache' = [k \in Keys |-> None]
    PROVE  IInv'
<1>1. PICK l : l = Load(check, flows \ {f}) OBVIOUS
<1>2. IsFlow(l) /\ l.kind = "load" /\ l.at = "list" /\ ~l.failed /\ l.got = None BY <1>1, FlowHas, LoadIs
<1>3. PICK G : G = {l} OBVIOUS
<1>4. flows' = (flows \ {f}) \cup G /\ G # {} BY <1>1, <1>3 DEF EndsWithLoad
<1>5. \A g \in G : IsFlow(g) /\ g.kind = "load" /\ g.at = "list" /\ ~g.failed /\ g.got = None BY <1>2, <1>3
<1>. QED BY <1>4, <1>5, EndsOn DEF server

\* A handler that just ends.
LEMMA EndsInv ==
    ASSUME IInv, NEW f \in flows, f.at # "asked", flows' = flows \ {f}, picker' \in {picker, None},
           UNCHANGED <<disk, version, calls, tab, items, seen, target, report, history>>,
           cache' = cache \/ cache' = [k \in Keys |-> None],
           ~history.overlap /\ ~history.failed => ~Dirty(f)
    PROVE  IInv'
<1>1. PICK G : G = {} OBVIOUS
<1>2. flows' = (flows \ {f}) \cup G /\ \A g \in G : FALSE BY <1>1
<1>. QED BY <1>1, <1>2, EndsOn DEF server

\* The upgrade goes on to the software when the batch has replaced every jar.
LEMMA BatchEndsInv ==
    ASSUME IInv, NEW f \in flows, BatchEnds(f)
    PROVE  IInv'
<1>1. IsFlow(f) /\ FlowOK(f) /\ TypeOK /\ ShapeInv /\ f.at = "apply" /\ f.left = {}
  BY FlowHas DEF BatchEnds
<1>2. UNCHANGED <<disk, version, calls, tab, items, seen, target, report, history, picker>>
  BY DEF BatchEnds, page
<1>3. cache' = [k \in Keys |-> None] BY DEF BatchEnds, Invalidate
<1>4. Works(f) BY <1>1 DEF FlowOK, Stages
<1>5. CASE f.kind = "panel" /\ EndsWithLoad(f, TRUE)
  BY <1>1, <1>2, <1>3, <1>5, EndsLoadingInv DEF Picks
<1>6. CASE f.kind = "batch" /\ Refresh(f, "batch")
  BY <1>1, <1>2, <1>3, <1>6, RefreshKeeps DEF Picks, Mounted, Helper
<1>7. CASE f.kind = "all" /\ f.failed /\ Ends(f)
  <2>1. ~history.overlap => history.failed BY <1>7, FlowHas DEF CalmFlow
  <2>. QED BY <1>1, <1>2, <1>3, <1>7, <2>1, EndsInv DEF Ends
<1>8. CASE f.kind = "all" /\ ~f.failed /\ Goto(f, "install")
  <2>1. PICK g : g = [f EXCEPT !.at = "install"] OBVIOUS
  <2>2. flows' = (flows \ {f}) \cup {g} BY <1>8, <2>1 DEF Goto, Move
  <2>3. /\ IsFlow(g) /\ g.at = "install" /\ g.kind = f.kind /\ g.mine = f.mine
        /\ g.scope = f.scope /\ g.jar = f.jar /\ g.got = f.got /\ g.left = f.left
        /\ g.kept = f.kept /\ g.failed = f.failed /\ g.force = f.force
    BY <1>1, <2>1 DEF IsFlow, Stages
  <2>4. Works(g) /\ (Picks(f) => Picks(g)) BY <1>4, <2>3 DEF Works, Picks
  <2>5. FlowOK(g)' BY <1>1, <1>2, <1>8, <2>3, <2>4 DEF FlowOK, Works
  <2>6. ~history.overlap => CalmFlow(g)' BY <1>8, <2>3 DEF CalmFlow
  <2>7. ~history.overlap /\ ~history.failed => OrderlyFlow(g)' /\ Dirty(g)
    BY <1>1, <1>2, <2>3, FlowHas DEF OrderlyFlow, Dirty
  <2>8. /\ UNCHANGED <<disk, calls, page>> /\ version' \in Versions /\ history' = history
        /\ history' \in Histories
    BY <1>1, <1>2 DEF BatchEnds, TypeOK
  <2>. QED BY <1>1, <1>3, <1>4, <2>2, <2>3, <2>4, <2>5, <2>6, <2>7, <2>8, GoesOn
<1>. QED BY <1>5, <1>6, <1>7, <1>8 DEF BatchEnds

\* The upgrade has its backup: of the jars that the report told it of.
LEMMA BacksUpInv ==
    ASSUME IInv, NEW f \in flows, BacksUp(f)
    PROVE  IInv'
<1>1. IsFlow(f) /\ FlowOK(f) /\ TypeOK /\ ShapeInv /\ f.at = "backup"
  BY FlowHas DEF BacksUp
<1>2. UNCHANGED <<disk, version, cache, calls, tab, items, seen, target, report, history, picker>>
  BY DEF BacksUp, page, server
<1>3. Works(f) BY <1>1 DEF FlowOK, Stages
<1>4. CASE f.kind = "backup" /\ Ends(f) BY <1>1, <1>2, <1>4, EndsInv DEF Dirty, Ends
<1>5. CASE /\ f.kind = "all"
           /\ Move(f, [f EXCEPT !.at = IF Updates(f.got) = {} THEN "install" ELSE "ask",
                                !.kept = Snapshot(Now)])
  <2>1. PICK kept : kept = Snapshot(Now) OBVIOUS
  <2>2. kept \in Snapshots /\ kept.disk = disk BY <1>1, <2>1, SnapshotIs, NowIsKey
  <2> DEFINE P(x) == Move(f, [f EXCEPT !.at = x, !.kept = Snapshot(Now)])
  <2>3. P(IF Updates(f.got) = {} THEN "install" ELSE "ask") BY <1>5
  <2> HIDE DEF P
  <2>4. PICK a \in {"install", "ask"} : P(a) /\ (a = "install" => Updates(f.got) = {})
    BY <2>3
  <2> USE DEF P
  <2>5. PICK g : g = [f EXCEPT !.at = a, !.kept = kept] /\ flows' = (flows \ {f}) \cup {g}
    BY <2>1, <2>4 DEF Move
  <2> HIDE DEF P
  <2>6. /\ IsFlow(g) /\ g.at = a /\ g.kind = f.kind /\ g.mine = f.mine
        /\ g.scope = f.scope /\ g.jar = f.jar /\ g.got = f.got /\ g.left = f.left
        /\ g.kept = kept /\ g.failed = f.failed /\ g.force = f.force
    <3>1. a \in Stages \cup {"list", "listed", "ask", "asked", "answered", "failed"}
      BY DEF Stages
    <3>. QED BY <1>1, <2>2, <2>5, <3>1 DEF IsFlow
  <2>7. Works(g) /\ (Picks(f) => Picks(g)) BY <1>3, <2>6 DEF Works, Picks
  <2>8. f.failed = FALSE BY <1>1, <1>5 DEF FlowOK, IsFlow
  <2>9. FlowOK(g)' BY <1>1, <1>2, <1>5, <2>2, <2>6, <2>7, <2>8 DEF FlowOK, Works
  <2>10. CalmFlow(g)' BY <1>2, <2>2, <2>6, <2>8 DEF CalmFlow
  <2>11. ASSUME ~history.overlap, ~history.failed PROVE OrderlyFlow(g)'
    <3>1. /\ f.got \in Snapshots /\ f.got.disk = disk /\ f.got.target = f.scope.target
          /\ Missing(f.got) = {}
      BY <1>1, <1>3, <1>5, <2>11, FlowHas DEF OrderlyFlow, Works
    <3>2. f.got # None /\ f.got.missed \subseteq history.missed
      BY <1>1, <3>1, ModsPageAssumption DEF FlowOK
    <3>3. \A j \in disk : CanFit(j, f.scope.target, history.missed)
      <4> SUFFICES ASSUME NEW j \in disk PROVE CanFit(j, f.scope.target, history.missed)
        OBVIOUS
      <4>1. j \in Jars BY <1>1 DEF TypeOK
      <4>2. Catalogue[j.mod] \in {"modrinth", "curseforge", "hangar", "none"} /\ j.mod \in Mods
        BY <4>1, JarIs
      <4>3. Catalogue[j.mod] = "hangar" => Proposed(j.mod, f.scope.target) # None
        <5>1. Newest[j.mod] \in Available[j.mod] BY <4>2, ModsPageAssumption
        <5>2. Jar(j.mod, Newest[j.mod]) \in Jars BY <4>2, <5>1 DEF Jars
        <5>3. Jar(j.mod, Newest[j.mod]) # None BY <5>2, ModsPageAssumption
        <5>. QED BY <5>3 DEF Proposed, Filters
      <4>. QED BY <3>1, <3>2, <4>2, <4>3 DEF Missing, Filters, CanFit
    <3>4. a = "install" => \A j \in disk : Fits(j, f.scope.target, history.missed)
      BY <2>4, <3>1, <3>2, <3>3 DEF Updates, CanFit, Fits
    <3>. QED BY <1>2, <2>6, <3>3, <3>4 DEF OrderlyFlow
  <2>12. /\ UNCHANGED <<disk, calls, page>> /\ version' \in Versions /\ history' = history
         /\ history' \in Histories /\ cache' = cache
    BY <1>1, <1>2 DEF BacksUp, TypeOK
  <2>13. ~Dirty(f) BY <1>1 DEF Dirty
  <2>. QED BY <1>1, <1>3, <2>5, <2>6, <2>7, <2>9, <2>10, <2>11, <2>12, <2>13, GoesOn
<1>. QED BY <1>4, <1>5 DEF BacksUp

LEMMA AfterInstallInv ==
    ASSUME IInv, NEW f \in flows, AfterInstall(f)
    PROVE  IInv'
<1>1. FlowOK(f) /\ f.at = "installed" BY FlowHas DEF AfterInstall
<1>2. /\ UNCHANGED <<disk, version, calls, tab, items, seen, target, report, history>>
      /\ cache' = cache /\ picker' = picker
  BY DEF AfterInstall, page, server
<1>3. CASE f.kind = "jar" /\ EndsWithLoad(f, TRUE) BY <1>1, <1>2, <1>3, EndsLoadingInv DEF Picks
<1>4. CASE f.kind = "all" /\ Refresh(f, "all")
  <2>1. ~f.failed BY <1>1, <1>4 DEF FlowOK
  <2>. QED BY <1>1, <1>2, <1>4, <2>1, RefreshKeeps DEF Picks, Mounted, Helper
<1>. QED BY <1>3, <1>4 DEF AfterInstall

LEMMA AfterPutInv ==
    ASSUME IInv, NEW f \in flows, AfterPut(f)
    PROVE  IInv'
<1>1. f.at = "done" BY DEF AfterPut
<1>2. /\ UNCHANGED <<disk, version, calls, tab, items, seen, target, report, history>>
      /\ cache' = cache
  BY DEF AfterPut, server
<1>3. CASE f.kind \in {"upload", "remove", "toggle"} /\ EndsWithLoad(f, FALSE) /\ UNCHANGED picker
  BY <1>1, <1>2, <1>3, EndsLoadingInv DEF Picks
<1>4. CASE f.kind = "choose" /\ EndsWithLoad(f, TRUE) /\ picker' = None
  BY <1>1, <1>2, <1>4, EndsLoadingInv
<1>5. CASE /\ f.kind \in {"one", "pick"} /\ Refresh(f, "scan")
           /\ picker' = (IF f.kind = "pick" /\ f.mine THEN None ELSE picker)
  <2>1. (picker' = None \/ ~Picks(f)) /\ picker' \in {picker, None} BY <1>5 DEF Picks
  <2>. QED BY <1>1, <1>2, <1>5, <2>1, RefreshKeeps DEF Mounted
<1>. QED BY <1>3, <1>4, <1>5 DEF AfterPut

LEMMA FailedInv ==
    ASSUME IInv, NEW f \in flows, Failed(f)
    PROVE  IInv'
<1>1. f.at = "failed" /\ Ends(f) /\ ~Dirty(f) BY DEF Failed, Dirty
<1>2. /\ UNCHANGED <<disk, version, calls, tab, items, seen, target, report, history>>
      /\ cache' = cache /\ picker' = picker
  BY DEF Failed, page, server
<1>. QED BY <1>1, <1>2, EndsInv DEF Ends

LEMMA FlowStepsInv ==
    ASSUME IInv, FlowSteps
    PROVE  IInv'
<1>1. PICK f \in flows :
        \/ Asks(f) \/ Batch(f) \/ Applies(f)
        \/ Puts(f) \/ Toggles(f) \/ Deletes(f) \/ Installs(f) \/ BacksUp(f)
        \/ RequestFails(f) \/ Lists(f) \/ Listed(f) \/ TakesUpdates(f) \/ TakesReport(f)
        \/ BatchEnds(f) \/ AfterInstall(f) \/ AfterPut(f) \/ Failed(f)
  BY DEF FlowSteps
<1>2. CASE Asks(f) BY <1>2, CachedInv, JoinsInv DEF Asks
<1>3. CASE Applies(f) BY <1>3, ApplyInv DEF Applies
<1>. QED BY <1>1, <1>2, <1>3, BatchInv, PutsInv, TogglesInv, DeletesInv, InstallsInv, BacksUpInv,
            RequestFailsInv, ListsInv, ListedInv, TakesUpdatesInv, TakesReportInv, BatchEndsInv,
            AfterInstallInv, AfterPutInv, FailedInv

-----------------------------------------------------------------------------
(* The page is fetched again, its tab is switched, a dialog is answered.       *)

LEMMA RefetchInv ==
    ASSUME IInv, Refetch
    PROVE  IInv'
<1>1. TypeOK BY DEF IInv
<1>2. /\ UNCHANGED <<server, tab, items, report, flows, history>>
      /\ seen' \in Versions /\ target' \in Versions /\ (picker' = picker \/ picker' = None)
  BY <1>1, ModsPageAssumption DEF Refetch, ClosedPicker, TypeOK
<1>. QED BY <1>2, ScreenKeeps

\* The handlers of a component that is gone work on; what they find is for nobody.
LEMMA SwitchTabInv ==
    ASSUME IInv, SwitchTab
    PROVE  IInv'
<1>1. TypeOK /\ ShapeInv BY DEF IInv
<1>2. /\ UNCHANGED <<disk, version, cache, calls, items, seen, history>>
      /\ picker = None /\ picker' = None /\ report' = None
      /\ tab' \in Tabs /\ target' \in Versions
  BY ModsPageAssumption DEF SwitchTab, server, Covered
<1>3. flows' = {[f EXCEPT !.mine = f.mine /\ f.kind \notin Mounted] : f \in flows}
  BY DEF SwitchTab
<1>4. ASSUME NEW f \in flows, NEW g, g = [f EXCEPT !.mine = f.mine /\ f.kind \notin Mounted]
      PROVE  /\ IsFlow(g) /\ g.at = f.at /\ g.kind = f.kind /\ g.scope = f.scope
             /\ g.jar = f.jar /\ g.got = f.got /\ g.left = f.left /\ g.kept = f.kept
             /\ g.failed = f.failed /\ g.force = f.force /\ (g.kind \in Mounted => ~g.mine)
  <2>1. PICK b \in BOOLEAN : b = (f.mine /\ f.kind \notin Mounted) OBVIOUS
  <2>2. g = [f EXCEPT !.mine = b] BY <1>4, <2>1
  <2>3. IsFlow(f) BY FlowHas
  <2>. QED BY <2>1, <2>2, <2>3 DEF IsFlow
<1>5. \A g \in flows' : \E f \in flows :
        /\ IsFlow(g) /\ g.at = f.at /\ g.kind = f.kind /\ g.scope = f.scope
        /\ g.jar = f.jar /\ g.got = f.got /\ g.left = f.left /\ g.kept = f.kept
        /\ g.failed = f.failed /\ g.force = f.force /\ (g.kind \in Mounted => ~g.mine)
  <2>1. ASSUME NEW g \in flows'
        PROVE  \E f \in flows : g = [f EXCEPT !.mine = f.mine /\ f.kind \notin Mounted]
    BY <1>3
  <2>. QED BY <1>4, <2>1
<1>6. \A f \in flows : \E g \in flows' : g.at = f.at /\ g.kind = f.kind /\ g.scope = f.scope
  <2>1. ASSUME NEW f \in flows
        PROVE  \E g \in flows' : g = [f EXCEPT !.mine = f.mine /\ f.kind \notin Mounted]
    BY <1>3
  <2>. QED BY <1>4, <2>1
<1>7. ASSUME NEW f, flows = {f} PROVE \E g : flows' = {g}
  <2>1. PICK g : g = [f EXCEPT !.mine = f.mine /\ f.kind \notin Mounted] OBVIOUS
  <2>2. g \in flows' /\ \A h \in flows' : h = g BY <1>3, <1>7, <2>1
  <2>. QED BY <2>2
<1>8. TypeOK' BY <1>1, <1>2, <1>5 DEF TypeOK
<1>9. ShapeInv'
  <2>1. ASSUME NEW g \in flows' PROVE FlowOK(g)'
    <3>1. PICK f \in flows :
            /\ IsFlow(g) /\ g.at = f.at /\ g.kind = f.kind /\ g.scope = f.scope
            /\ g.jar = f.jar /\ g.got = f.got /\ g.left = f.left /\ g.kept = f.kept
            /\ g.failed = f.failed /\ g.force = f.force /\ (g.kind \in Mounted => ~g.mine)
      BY <1>5
    <3>2. FlowOK(f) BY FlowHas
    <3>. QED BY <1>2, <3>1, <3>2 DEF FlowOK, Works
  <2>2. ASSUME NEW k \in Keys, calls[k] # None PROVE Waiting(k)' # {}
    <3>1. PICK f \in flows : f.at = "asked" /\ Key(f) = k BY <1>1, <2>2 DEF ShapeInv, Waiting
    <3>2. PICK g \in flows' : g.at = f.at /\ g.kind = f.kind /\ g.scope = f.scope BY <1>6
    <3>3. Key(g) = k BY <3>1, <3>2 DEF Key
    <3>. QED BY <3>1, <3>2, <3>3 DEF Waiting
  <2>. QED BY <1>1, <1>2, <2>1, <2>2 DEF ShapeInv
<1>10. ASSUME ~history.overlap PROVE CalmInv'
  <2>1. CalmInv BY <1>10 DEF IInv
  <2>2. ASSUME NEW g \in flows' PROVE CalmFlow(g)' /\ (Works(g) => flows' = {g})
    <3>1. PICK f \in flows :
            /\ g.at = f.at /\ g.kind = f.kind /\ g.got = f.got /\ g.left = f.left
            /\ g.kept = f.kept /\ g.failed = f.failed /\ g.force = f.force
      BY <1>5
    <3>2. CalmFlow(f) /\ (Works(f) => flows = {f}) BY <1>10, FlowHas
    <3>. QED BY <1>2, <1>7, <3>1, <3>2 DEF CalmFlow, Works
  <2>. QED BY <1>2, <2>1, <2>2 DEF CalmInv, Alone
<1>11. ASSUME ~history.overlap, ~history.failed PROVE OrderlyInv'
  <2>1. OrderlyInv BY <1>11 DEF IInv
  <2>2. ASSUME NEW g \in flows' PROVE OrderlyFlow(g)'
    <3>1. PICK f \in flows :
            /\ g.at = f.at /\ g.kind = f.kind /\ g.scope = f.scope /\ g.got = f.got
            /\ g.left = f.left /\ g.force = f.force
      BY <1>5
    <3>2. OrderlyFlow(f) BY <2>1 DEF OrderlyInv
    <3>. QED BY <1>2, <3>1, <3>2 DEF OrderlyFlow
  <2>3. (\A g \in flows' : ~Dirty(g)) => \A f \in flows : ~Dirty(f) BY <1>6 DEF Dirty
  <2>. QED BY <1>2, <2>1, <2>2, <2>3 DEF OrderlyInv
<1>. QED BY <1>2, <1>8, <1>9, <1>10, <1>11 DEF IInv

\* A dialog is answered: the handler goes on to its first request, or ends.
LEMMA ConfirmInv ==
    ASSUME IInv, Confirm, UNCHANGED <<server, tab, items, updates, seen, report>>
    PROVE  IInv'
<1>1. PICK f \in flows :
        /\ f.at = "confirm"
        /\ \/ Goto(f, FirstRequest(f))
           \/ f.kind = "upload" /\ Move(f, [f EXCEPT !.at = "put", !.old = None])
           \/ flows' = flows \ {f}
  <2> DEFINE Refused(f) == IF f.kind = "upload" THEN Move(f, [f EXCEPT !.at = "put", !.old = None])
                           ELSE flows' = flows \ {f}
  <2>1. PICK f \in flows :
          /\ f.at = "confirm"
          /\ \/ /\ Goto(f, FirstRequest(f))
                /\ busy' = busy \cup ({f.kind} \cap {"batch", "all", "jar", "panel"})
             \/ /\ UNCHANGED busy
                /\ Refused(f)
          /\ UNCHANGED <<picker, target, history, budget>>
    BY DEF Confirm
  <2>. QED BY <2>1
<1>2. /\ UNCHANGED <<disk, version, calls, tab, items, seen, target, report, history>>
      /\ cache' = cache /\ picker' = picker /\ history' = history
      /\ UNCHANGED <<disk, calls, page>>
  BY DEF Confirm, server, page
<1>3. IsFlow(f) /\ FlowOK(f) /\ TypeOK /\ Works(f) /\ ~Dirty(f)
  BY <1>1, FlowHas DEF FlowOK, Stages, Dirty
<1>4. f.kind = "all" => f.failed = FALSE BY <1>1, <1>3 DEF FlowOK, IsFlow
<1>5. version' \in Versions /\ history' \in Histories
  BY <1>2, <1>3 DEF TypeOK
<1>6. ASSUME NEW a \in {"ask", "backup", "install", "delete", "put"}, NEW g, IsFlow(g),
             g.at = a, g.kind = f.kind, g.mine = f.mine, g.scope = f.scope, g.jar = f.jar,
             g.got = f.got, g.left = f.left, g.kept = f.kept, g.failed = f.failed,
             g.force = f.force, flows' = (flows \ {f}) \cup {g},
             a \in {"delete", "put"} => f.kind \notin {"batch", "panel", "all", "jar"},
             a = "ask" => f.kind # "all", a = "install" => f.kind = "jar"
      PROVE  IInv'
  <2>1. Works(g) /\ (Picks(f) => Picks(g)) BY <1>3, <1>6 DEF Works, Picks
  <2>2. FlowOK(g)' BY <1>1, <1>2, <1>3, <1>4, <1>6, <2>1 DEF FlowOK, Works
  <2>3. ~history.overlap => CalmFlow(g)' BY <1>2, <1>4, <1>6, FlowHas DEF CalmFlow
  <2>4. ~history.overlap /\ ~history.failed => OrderlyFlow(g)'
    BY <1>1, <1>2, <1>6, FlowHas DEF OrderlyFlow, Missing
  <2>. QED BY <1>1, <1>2, <1>3, <1>5, <1>6, <2>1, <2>2, <2>3, <2>4, GoesOn
<1>7. CASE Goto(f, FirstRequest(f))
  <2>1. PICK a \in {"ask", "backup", "install", "delete", "put"} :
          /\ a = FirstRequest(f)
          /\ a \in {"delete", "put"} => f.kind \notin {"batch", "panel", "all", "jar"}
          /\ a = "ask" => f.kind # "all"
          /\ a = "install" => f.kind = "jar"
    BY DEF FirstRequest
  <2>2. PICK g : g = [f EXCEPT !.at = a] OBVIOUS
  <2>3. flows' = (flows \ {f}) \cup {g} BY <1>7, <2>1, <2>2 DEF Goto, Move
  <2>4. a \in Stages \cup {"list", "listed", "ask", "asked", "answered", "failed"} BY DEF Stages
  <2>5. /\ IsFlow(g) /\ g.at = a /\ g.kind = f.kind /\ g.mine = f.mine
        /\ g.scope = f.scope /\ g.jar = f.jar /\ g.got = f.got /\ g.left = f.left
        /\ g.kept = f.kept /\ g.failed = f.failed /\ g.force = f.force
    BY <1>3, <2>2, <2>4 DEF IsFlow
  <2>. QED BY <1>6, <2>1, <2>3, <2>5
<1>8. CASE f.kind = "upload" /\ Move(f, [f EXCEPT !.at = "put", !.old = None])
  <2>1. PICK g : g = [f EXCEPT !.at = "put", !.old = None] OBVIOUS
  <2>2. flows' = (flows \ {f}) \cup {g} BY <1>8, <2>1 DEF Move
  <2>3. /\ IsFlow(g) /\ g.at = "put" /\ g.kind = f.kind /\ g.mine = f.mine
        /\ g.scope = f.scope /\ g.jar = f.jar /\ g.got = f.got /\ g.left = f.left
        /\ g.kept = f.kept /\ g.failed = f.failed /\ g.force = f.force
    BY <1>3, <2>1 DEF IsFlow, Stages
  <2>. QED BY <1>6, <1>8, <2>2, <2>3
<1>9. CASE flows' = flows \ {f} BY <1>1, <1>2, <1>3, <1>9, EndsInv
<1>. QED BY <1>1, <1>7, <1>8, <1>9

-----------------------------------------------------------------------------
(* The clicks.                                                                 *)

\* A handler as it begins, with what its click gave it.
Fresh(g, kind, at) == /\ IsFlow(g) /\ g.kind = kind /\ g.at = at /\ g.mine = TRUE
                      /\ g.scope = Scope /\ g.failed = FALSE
                      /\ g.got # None => report # None /\ g.got = report.of

LEMMA FreshIs ==
    ASSUME IInv, NEW kind \in Kinds, NEW at \in Stages \cup {"ask"}, NEW g, g = New(kind, at)
    PROVE  Fresh(g, kind, at) /\ g.force = FALSE
BY NewIs DEF IInv, IsFlow, Fresh

LEMMA FreshForced ==
    ASSUME IInv, NEW kind \in Kinds, NEW at \in Stages \cup {"ask"},
           NEW g, g = [New(kind, at) EXCEPT !.force = TRUE]
    PROVE  Fresh(g, kind, at) /\ g.force = TRUE
<1>1. PICK n : n = New(kind, at) OBVIOUS
<1>2. Fresh(n, kind, at) /\ n.force = FALSE BY <1>1, FreshIs
<1>3. g = [n EXCEPT !.force = TRUE] BY <1>1
<1>. QED BY <1>2, <1>3 DEF Fresh, IsFlow

LEMMA FreshJar ==
    ASSUME IInv, NEW kind \in Kinds, NEW at \in Stages \cup {"ask"}, NEW jar \in Jars,
           NEW g, g = [New(kind, at) EXCEPT !.jar = jar]
    PROVE  Fresh(g, kind, at) /\ g.force = FALSE /\ g.jar = jar
<1>1. PICK n : n = New(kind, at) OBVIOUS
<1>2. Fresh(n, kind, at) /\ n.force = FALSE BY <1>1, FreshIs
<1>3. g = [n EXCEPT !.jar = jar] BY <1>1
<1>. QED BY <1>2, <1>3 DEF Fresh, IsFlow

LEMMA FreshOld ==
    ASSUME NEW kind, NEW at, NEW h, Fresh(h, kind, at), NEW old,
           NEW g, g = [h EXCEPT !.old = old]
    PROVE  Fresh(g, kind, at) /\ g.force = h.force /\ g.jar = h.jar
BY DEF Fresh, IsFlow

LEMMA FreshGot ==
    ASSUME IInv, NEW kind \in Kinds, NEW at \in Stages \cup {"ask"}, NEW got \in Snapshots,
           report # None, got = report.of, NEW g, g = [New(kind, at) EXCEPT !.got = got]
    PROVE  Fresh(g, kind, at) /\ g.force = FALSE /\ g.got = got
<1>1. PICK n : n = New(kind, at) OBVIOUS
<1>2. Fresh(n, kind, at) /\ n.force = FALSE BY <1>1, FreshIs
<1>3. g = [n EXCEPT !.got = got] BY <1>1
<1>. QED BY <1>2, <1>3 DEF Fresh, IsFlow

\* What a click starts: a check, or a handler with a dialog or a request before it.
LEMMA StartsInv ==
    ASSUME IInv, Click, NEW g, flows' = flows \cup {g}, Fresh(g, g.kind, g.at),
           \/ g.kind \in {"check", "scan"} /\ g.at = "ask" /\ g.force
           \/ g.at \in {"confirm", "put", "toggle", "backup"} /\ Works(g),
           g.at = "put" => g.jar \in Jars,
           g.at = "confirm" /\ g.kind \notin {"batch", "panel", "all", "jar"} => g.jar \in Jars,
           g.kind \in Mounted => tab = "helper",
           g.kind = "all" => g.at = "confirm" /\ Shown /\ Ready(report.of) /\ g.got = report.of,
           UNCHANGED <<server, tab, items, seen, report, picker, target>>,
           picker = None \/ Picks(g),
           g.kind \in {"check", "scan"} \/ tab = "list" \/ picker # None \/ Shown
    PROVE  IInv'
<1>1. TypeOK /\ ShapeInv BY DEF IInv
<1>2. /\ Scope \in Scopes /\ IsFlow(g) /\ g.mine = TRUE /\ g.scope = Scope /\ g.failed = FALSE
  BY <1>1 DEF Scope, Scopes, TypeOK, Fresh
<1>3. g.kind # "load" /\ ~Dirty(g) BY DEF Works, Dirty
<1>4. FlowOK(g)
  <2>0. g.got # None => g.got.missed \subseteq history.missed BY <1>1 DEF Fresh, ShapeInv
  <2>1. CASE g.kind \in {"check", "scan"} /\ g.at = "ask" /\ g.force
    BY <1>2, <2>0, <2>1 DEF FlowOK, Stages
  <2>2. CASE g.at \in {"confirm", "put", "toggle", "backup"} /\ Works(g)
    BY <1>2, <1>3, <2>0, <2>2 DEF FlowOK
  <2>. QED BY <2>1, <2>2
<1>5. CalmFlow(g)' BY <1>2 DEF CalmFlow
<1>6. ~Works(g) \/ report = None \/ picker # None \/ Shown BY <1>1 DEF Works, ShapeInv
<1>7. target' \in Versions BY <1>1 DEF TypeOK
<1>8. ASSUME flows = {}, ~history'.overlap, ~history'.failed PROVE OrderlyFlow(g)'
  <2>1. CASE g.kind # "all" BY <2>1 DEF OrderlyFlow
  <2>2. CASE g.kind = "all"
    <3>1. ~history.overlap /\ ~history.failed BY <1>1, <1>8, ClickIs
    <3>2. report.of.disk = disk /\ report # None /\ report.of.target = target
      BY <1>8, <2>2, <3>1, ShownIs DEF Shown
    <3>3. g.scope.target = target BY <1>2 DEF Scope
    <3>4. g.got \in Snapshots BY <1>1, <2>2, <3>2 DEF TypeOK, Reports
    <3>5. Missing(g.got) = {} BY <2>2 DEF Ready
    <3>6. disk' = disk BY DEF server
    <3>. QED BY <2>2, <3>2, <3>3, <3>4, <3>5, <3>6 DEF OrderlyFlow, Missing
  <2>. QED BY <2>1, <2>2
<1>. QED BY <1>2, <1>3, <1>4, <1>5, <1>6, <1>7, <1>8, StartKeeps

LEMMA RemoveInv ==
    ASSUME IInv, NEW j \in items, Remove(j), UNCHANGED <<server, tab, items, updates, seen, report>>
    PROVE  IInv'
<1>1. j \in Jars /\ "remove" \in Kinds /\ "confirm" \in Stages
  BY DEF IInv, TypeOK, Kinds, Stages
<1>2. PICK g : g = [New("remove", "confirm") EXCEPT !.jar = j] OBVIOUS
<1>3. Fresh(g, "remove", "confirm") /\ g.force = FALSE /\ g.jar = j
  <2>1. Fresh(g, "remove", "confirm") /\ g.force = FALSE BY <1>1, <1>2, FreshJar
  <2>2. g.jar = j BY <1>1, <1>2, FreshJar
  <2>. QED BY <2>1, <2>2
<1>4. /\ tab = "list" /\ Click /\ flows' = flows \cup {g} /\ picker = None
      /\ UNCHANGED <<picker, target>>
  BY <1>2 DEF Remove, Button, Start, Covered
<1>. QED BY <1>1, <1>3, <1>4, StartsInv DEF Fresh, Works, Mounted, Helper

LEMMA ToggleInv ==
    ASSUME IInv, NEW j \in items, Toggle(j), UNCHANGED <<server, tab, items, updates, seen, report>>
    PROVE  IInv'
<1>1. j \in Jars /\ "toggle" \in Kinds /\ "toggle" \in Stages
  BY DEF IInv, TypeOK, Kinds, Stages
<1>2. PICK g : g = [New("toggle", "toggle") EXCEPT !.jar = j] OBVIOUS
<1>3. Fresh(g, "toggle", "toggle") /\ g.force = FALSE BY <1>1, <1>2, FreshJar
<1>4. /\ tab = "list" /\ Click /\ flows' = flows \cup {g} /\ picker = None
      /\ UNCHANGED <<picker, target>>
  BY <1>2 DEF Toggle, Button, Start, Covered
<1>. QED BY <1>3, <1>4, StartsInv DEF Fresh, Works, Mounted, Helper

LEMMA UploadInv ==
    ASSUME IInv, NEW k \in Jars, Upload(k), UNCHANGED <<server, tab, items, updates, seen, report>>
    PROVE  IInv'
<1>1. tab = "list" /\ UNCHANGED <<picker, target>> BY DEF Upload
<1>2. "upload" \in Kinds /\ {"put", "confirm"} \subseteq Stages BY DEF Kinds, Stages
<1>3. ASSUME NEW at \in {"put", "confirm"}, NEW g, Fresh(g, "upload", at), g.force = FALSE, g.jar = k,
             Button(g)
      PROVE  IInv'
  <2>1. Click /\ flows' = flows \cup {g} /\ picker = None BY <1>3 DEF Button, Start, Covered
  <2>. QED BY <1>1, <1>3, <2>1, StartsInv DEF Fresh, Works, Mounted, Helper
<1>4. CASE Button([New("upload", "put") EXCEPT !.jar = k])
  <2>1. PICK g : g = [New("upload", "put") EXCEPT !.jar = k] OBVIOUS
  <2>2. Fresh(g, "upload", "put") /\ g.force = FALSE BY <1>2, <2>1, FreshJar
  <2>3. g.jar = k BY <1>2, <2>1, FreshJar
  <2>. QED BY <1>3, <1>4, <2>1, <2>2, <2>3
<1>5. ASSUME NEW i, Button([New("upload", "confirm") EXCEPT !.jar = k, !.old = i]) PROVE IInv'
  <2>1. PICK h : h = [New("upload", "confirm") EXCEPT !.jar = k] OBVIOUS
  <2>2. Fresh(h, "upload", "confirm") /\ h.force = FALSE BY <1>2, <2>1, FreshJar
  <2>3. h.jar = k BY <1>2, <2>1, FreshJar
  <2>4. PICK g : g = [h EXCEPT !.old = i] OBVIOUS
  <2>5. Fresh(g, "upload", "confirm") /\ g.force = FALSE /\ g.jar = k
    BY <2>2, <2>3, <2>4, FreshOld
  <2>. QED BY <1>3, <1>5, <2>1, <2>4, <2>5
<1>. QED BY <1>4, <1>5 DEF Upload

LEMMA ReloadInv ==
    ASSUME IInv, Reload, UNCHANGED <<server, tab, items, updates, seen, report>>
    PROVE  IInv'
<1>1. TypeOK BY DEF IInv
<1>2. PICK l : l = Load(TRUE, flows) OBVIOUS
<1>3. IsFlow(l) /\ l.kind = "load" /\ l.at = "list" /\ ~l.failed /\ l.got = None BY <1>1, <1>2, LoadIs
<1>4. FlowOK(l) /\ CalmFlow(l)' /\ OrderlyFlow(l)' /\ ~Works(l)
  BY <1>3, LoadOK DEF CalmFlow, OrderlyFlow
<1>5. Click /\ flows' = flows \cup {l} /\ picker = None /\ UNCHANGED <<picker, target>>
  BY <1>2 DEF Reload, Button, Start, Covered
<1>6. target' \in Versions BY <1>1, <1>5 DEF TypeOK
<1>. QED BY <1>3, <1>4, <1>5, <1>6, StartKeeps

LEMMA CheckUpdatesInv ==
    ASSUME IInv, CheckUpdates, UNCHANGED <<server, tab, items, updates, seen, report>>
    PROVE  IInv'
<1>1. "check" \in Kinds BY DEF Kinds
<1>2. PICK g : g = [New("check", "ask") EXCEPT !.force = TRUE] OBVIOUS
<1>3. Fresh(g, "check", "ask") /\ g.force BY <1>1, <1>2, FreshForced
<1>4. Click /\ flows' = flows \cup {g} /\ picker = None /\ UNCHANGED <<picker, target>>
  BY <1>2 DEF CheckUpdates, Button, Start, Covered
<1>. QED BY <1>3, <1>4, StartsInv DEF Fresh, Mounted, Helper

LEMMA UpdateAllInv ==
    ASSUME IInv, UpdateAll, UNCHANGED <<server, tab, items, updates, seen, report>>
    PROVE  IInv'
<1>1. "panel" \in Kinds /\ "confirm" \in Stages BY DEF Kinds, Stages
<1>2. PICK g : g = New("panel", "confirm") OBVIOUS
<1>3. Fresh(g, "panel", "confirm") /\ g.force = FALSE BY <1>1, <1>2, FreshIs
<1>4. /\ tab = "list" /\ Click /\ flows' = flows \cup {g} /\ picker = None
      /\ UNCHANGED <<picker, target>>
  BY <1>2 DEF UpdateAll, Button, Start, Covered
<1>. QED BY <1>3, <1>4, StartsInv DEF Fresh, Works, Mounted, Helper

\* The version helper: what it starts works from the report that it shows.
LEMMA ScanInv ==
    ASSUME IInv, Scan, UNCHANGED <<server, tab, items, updates, seen, report>>
    PROVE  IInv'
<1>1. "scan" \in Kinds BY DEF Kinds
<1>2. PICK g : g = [New("scan", "ask") EXCEPT !.force = TRUE] OBVIOUS
<1>3. Fresh(g, "scan", "ask") /\ g.force BY <1>1, <1>2, FreshForced
<1>4. /\ tab = "helper" /\ Click /\ flows' = flows \cup {g} /\ picker = None
      /\ UNCHANGED <<picker, target>>
  BY <1>2 DEF Scan, Button, Start, Covered
<1>. QED BY <1>3, <1>4, StartsInv DEF Fresh

LEMMA VerdictInv ==
    ASSUME IInv, Shown, Verdict, UNCHANGED <<server, tab, items, updates, seen, report>>
    PROVE  IInv'
<1>1. report \in Reports /\ report.of \in Snapshots /\ tab = "helper"
  BY DEF Shown, IInv, TypeOK, Reports
<1>2. PICK kind \in {"batch", "all", "jar"} :
        /\ Button(OfReport(kind)) /\ (kind = "all" => Ready(report.of))
        /\ UNCHANGED <<picker, target>>
  BY DEF Verdict, OneClick, UpdateMods, UpgradeJar
<1>3. kind \in Kinds /\ "confirm" \in Stages BY DEF Kinds, Stages
<1>4. PICK g : g = [New(kind, "confirm") EXCEPT !.got = report.of] OBVIOUS
<1>5. Fresh(g, kind, "confirm") /\ g.force = FALSE
  BY <1>1, <1>3, <1>4, FreshGot DEF Shown
<1>6. g.got = report.of BY <1>1, <1>3, <1>4, FreshGot DEF Shown
<1>7. Click /\ flows' = flows \cup {g} /\ picker = None
  BY <1>2, <1>4 DEF OfReport, Button, Start, Covered
<1>. QED BY <1>1, <1>2, <1>5, <1>6, <1>7, StartsInv DEF Fresh, Works

LEMMA ToolbarInv ==
    ASSUME IInv, Shown, Toolbar, UNCHANGED <<server, tab, items, updates, seen, report>>
    PROVE  IInv'
<1>1. "backup" \in Kinds /\ "backup" \in Stages BY DEF Kinds, Stages
<1>2. PICK g : g = New("backup", "backup") OBVIOUS
<1>3. Fresh(g, "backup", "backup") /\ g.force = FALSE BY <1>1, <1>2, FreshIs
<1>4. /\ tab = "helper" /\ Click /\ flows' = flows \cup {g} /\ picker = None
      /\ UNCHANGED <<picker, target>>
  BY <1>2 DEF Toolbar, Backup, Button, Start, Covered, Shown
<1>. QED BY <1>3, <1>4, StartsInv DEF Fresh, Works

LEMMA UpdateOneInv ==
    ASSUME IInv, Shown, UpdateOne, UNCHANGED <<server, tab, items, updates, seen, report>>,
           UNCHANGED <<picker, target>>
    PROVE  IInv'
<1>1. /\ report \in Reports /\ report.of \in Snapshots /\ tab = "helper"
      /\ report.of.target = target /\ report.of.disk \subseteq Jars
  BY DEF Shown, IInv, TypeOK, Reports, Snapshots
<1>2. PICK j \in Updates(report.of) :
        Button([New("one", "confirm") EXCEPT !.jar = Proposed(j.mod, target), !.old = j])
  BY DEF UpdateOne
<1>3. PICK k : k = Proposed(j.mod, target) OBVIOUS
<1>4. k \in Jars BY <1>1, <1>2, <1>3, JarIs, ProposedIs DEF Updates
<1>5. "one" \in Kinds /\ "confirm" \in Stages BY DEF Kinds, Stages
<1>6. PICK h : h = [New("one", "confirm") EXCEPT !.jar = k] OBVIOUS
<1>7. Fresh(h, "one", "confirm") /\ h.force = FALSE BY <1>4, <1>5, <1>6, FreshJar
<1>8. h.jar = k BY <1>4, <1>5, <1>6, FreshJar
<1>9. PICK g : g = [h EXCEPT !.old = j] OBVIOUS
<1>10. Fresh(g, "one", "confirm") /\ g.force = FALSE /\ g.jar = k
  BY <1>7, <1>8, <1>9, FreshOld
<1>11. Click /\ flows' = flows \cup {g} /\ picker = None
  BY <1>2, <1>3, <1>6, <1>9 DEF Button, Start, Covered
<1>. QED BY <1>1, <1>4, <1>10, <1>11, StartsInv DEF Fresh, Works

\* The picker starts its handler, and stays over the page until that ends.
LEMMA PutJarInv ==
    ASSUME IInv, NEW k \in Jars, PutJar(k), UNCHANGED <<server, tab, items, updates, seen, report>>
    PROVE  IInv'
<1>1. PICK kind \in {"pick", "choose"} : \E old :
        /\ kind = IF tab = "helper" THEN "pick" ELSE "choose"
        /\ Start([New(kind, "put") EXCEPT !.jar = k, !.old = old])
  BY DEF PutJar
<1>2. kind \in Kinds /\ "put" \in Stages BY DEF Kinds, Stages
<1>3. PICK old : Start([New(kind, "put") EXCEPT !.jar = k, !.old = old]) BY <1>1
<1>4. PICK h : h = [New(kind, "put") EXCEPT !.jar = k] OBVIOUS
<1>5. Fresh(h, kind, "put") /\ h.force = FALSE BY <1>2, <1>4, FreshJar
<1>6. h.jar = k BY <1>2, <1>4, FreshJar
<1>7. PICK g : g = [h EXCEPT !.old = old] OBVIOUS
<1>8. Fresh(g, kind, "put") /\ g.force = FALSE /\ g.jar = k BY <1>5, <1>6, <1>7, FreshOld
<1>9. Click /\ flows' = flows \cup {g} /\ picker # None /\ UNCHANGED <<picker, target>>
  BY <1>3, <1>4, <1>7 DEF PutJar, Start
<1>10. g.kind \in Mounted => tab = "helper" BY <1>1, <1>8 DEF Mounted, Helper, Fresh
<1>. QED BY <1>8, <1>9, <1>10, StartsInv DEF Fresh, Works, Picks

\* A row's picker opens, another version is selected, the picker is closed.
LEMMA ScreenInv ==
    ASSUME IInv, UNCHANGED <<server, tab, items, updates, seen, report>>,
           \/ \E j : ListPicker(j)
           \/ Shown /\ \E j : HelperPicker(j)
           \/ Select \/ ClosePicker
    PROVE  IInv'
<1>1. TypeOK /\ ShapeInv /\ seen' \in Versions BY DEF IInv, TypeOK
<1>2. CASE \E j : ListPicker(j)
  <2>1. /\ tab = "list" /\ Click /\ UNCHANGED <<flows, target>>
    BY <1>2 DEF ListPicker
  <2>2. report = None /\ target' \in Versions BY <1>1, <2>1 DEF ShapeInv, TypeOK
  <2>. QED BY <1>1, <2>1, <2>2, ScreenKeeps
<1>3. CASE Shown /\ \E j : HelperPicker(j)
  <2>1. Click /\ UNCHANGED <<flows, target>> /\ target' \in Versions
    BY <1>1, <1>3 DEF HelperPicker, TypeOK
  <2>. QED BY <1>1, <1>3, <2>1, ScreenKeeps
<1>4. CASE Select
  <2>1. Click /\ UNCHANGED <<flows, picker>> /\ target' \in Versions BY <1>4 DEF Select
  <2>. QED BY <1>1, <2>1, ScreenKeeps
<1>5. CASE ClosePicker
  <2>1. UNCHANGED <<flows, history>> /\ picker' = None /\ target' \in Versions
    BY <1>1, <1>5 DEF ClosePicker, TypeOK
  <2>. QED BY <1>1, <2>1, ScreenKeeps
<1>. QED BY <1>2, <1>3, <1>4, <1>5

LEMMA UserInv ==
    ASSUME IInv, User
    PROVE  IInv'
<1>1. CASE SwitchTab BY <1>1, SwitchTabInv
<1>2. CASE /\ \/ Header \/ ListTab \/ Rows \/ UpdatesTab \/ UpToDate \/ UpdateRows
              \/ Banner \/ EmptyState \/ Report \/ PickJar \/ UploadJar \/ ClosePicker \/ Confirm
           /\ UNCHANGED <<server, tab, items, updates, seen, report>>
  <2>0. UNCHANGED <<server, tab, items, updates, seen, report>> BY <1>2
  <2>1. CASE Header \/ ListTab \/ UpdatesTab \/ UpToDate
    BY <2>0, <2>1, ReloadInv, CheckUpdatesInv, UpdateAllInv, UploadInv
       DEF Header, ListTab, UpdatesTab, UpToDate
  <2>2. CASE Rows \/ UpdateRows
    BY <2>0, <2>2, ToggleInv, RemoveInv, ScreenInv DEF Rows, UpdateRows
  <2>3. CASE Banner \/ EmptyState BY <2>0, <2>3, ScanInv, ScreenInv DEF Banner, EmptyState
  <2>4. CASE Report
    BY <2>0, <2>4, VerdictInv, ToolbarInv, UpdateOneInv, ScreenInv DEF Report, HelperRows
  <2>5. CASE PickJar \/ UploadJar
    BY <2>0, <2>5, PutJarInv DEF PickJar, UploadJar, Releases
  <2>. QED BY <1>2, <2>0, <2>1, <2>2, <2>3, <2>4, <2>5, ScreenInv, ConfirmInv
<1>. QED BY <1>1, <1>2 DEF User

-----------------------------------------------------------------------------

LEMMA InitInv ==
    ASSUME Init
    PROVE  IInv
<1>1. PICK l : l = [id |-> 1, kind |-> "load", at |-> "list", mine |-> TRUE, scope |-> None,
                    jar |-> None, old |-> None, got |-> None, left |-> {}, kept |-> None,
                    failed |-> FALSE, force |-> TRUE]
  OBVIOUS
<1>2. flows = {l} BY <1>1 DEF Init
<1>3. IsFlow(l) /\ l.kind = "load" /\ l.at = "list" /\ ~l.failed /\ l.got = None
  BY <1>1 DEF IsFlow, Kinds
<1>4. FlowOK(l) /\ CalmFlow(l) /\ OrderlyFlow(l) /\ Dirty(l) /\ ~Works(l) BY <1>3, LoadOK
<1>5. TypeOK
  <2>1. disk \subseteq Jars /\ version \in Versions /\ seen \in Versions /\ target \in Versions
    BY ModsPageAssumption DEF Init
  <2>. QED BY <1>2, <1>3, <2>1 DEF Init, TypeOK, Histories
<1>6. ShapeInv BY <1>2, <1>4, NowIsKey DEF Init, ShapeInv
<1>7. CalmInv BY <1>2, <1>4 DEF Init, CalmInv, Alone
<1>8. OrderlyInv BY <1>2, <1>4 DEF Init, OrderlyInv
<1>. QED BY <1>5, <1>6, <1>7, <1>8 DEF IInv

LEMMA StutterInv ==
    ASSUME IInv, UNCHANGED vars
    PROVE  IInv'
<1>1. TypeOK' BY DEF IInv, TypeOK, vars
<1>2. ShapeInv' BY DEF IInv, ShapeInv, vars, FlowOK, Waiting, Works, Key
<1>3. CalmInv => CalmInv' BY DEF CalmInv, CalmFlow, Alone, vars
<1>4. OrderlyInv => OrderlyInv' BY DEF OrderlyInv, OrderlyFlow, Sure, vars
<1>5. history' = history BY DEF vars
<1>. QED BY <1>1, <1>2, <1>3, <1>4, <1>5 DEF IInv

LEMMA NextInv ==
    ASSUME IInv, [Next]_vars
    PROVE  IInv'
BY FlowStepsInv, CallEndsInv, RefetchInv, UserInv, StutterInv DEF Next, Progress

\* The mods page keeps its inductive invariant: who may work beside whom
\* (VersionUpdateHelper, ModsPanel), what its caches and checks know of the jars
\* (internal/servers/updates.go), and what a report on the screen says of the list.
THEOREM ModsInvariance == Spec => []IInv
<1>1. Init => IInv BY InitInv
<1>2. IInv /\ [Next]_vars => IInv' BY NextInv
<1>. QED BY <1>1, <1>2, PTL DEF Spec

\* A report that stays on the screen when nothing runs says what the API would say now
\* of these mods and this version (reportScope of VersionUpdateHelper), after any number
\* of checks that were cached or shared, unless a request failed or handlers overlapped.
THEOREM ReportIsTruthful == Spec => []RestReportTruthful
<1>1. IInv => RestReportTruthful
  <2> SUFFICES ASSUME IInv, Quiet, seen = version, Shown, ~history.failed, ~history.overlap
               PROVE  /\ report.of = [Snapshot(target) EXCEPT !.missed = report.of.missed]
                      /\ items = disk
    BY DEF RestReportTruthful
  <2>1. flows = {} BY DEF Quiet
  <2>2. items = disk BY <2>1 DEF IInv, OrderlyInv
  <2>3. report.of.disk = disk BY <2>1, ShownIs
  <2>4. report.of.target = target /\ report.of.version = version BY DEF Shown
  <2>5. report.of \in Snapshots BY DEF Shown, IInv, TypeOK, Reports
  <2>6. target # Now BY NowIsKey DEF IInv, TypeOK
  <2>. QED BY <2>2, <2>3, <2>4, <2>5, <2>6 DEF Snapshot, Snapshots
<1>. QED BY <1>1, ModsInvariance, PTL

-----------------------------------------------------------------------------
(* Who changes the jars, and who the software.                                 *)

LEMMA UserChangesNothing ==
    ASSUME User
    PROVE  disk' = disk /\ version' = version
BY DEF User, SwitchTab, server

LEMMA ServerSteps ==
    ASSUME Next
    PROVE  /\ version' = version \/ \E f \in flows : Installs(f) /\ disk' = disk
           /\ disk' = disk \/ \E f \in flows : Applies(f) \/ Puts(f) \/ Deletes(f)
<1>1. CASE FlowSteps
  <2>1. PICK f \in flows :
          \/ Asks(f) \/ Batch(f) \/ Applies(f)
          \/ Puts(f) \/ Toggles(f) \/ Deletes(f) \/ Installs(f) \/ BacksUp(f)
          \/ RequestFails(f) \/ Lists(f) \/ Listed(f) \/ TakesUpdates(f) \/ TakesReport(f)
          \/ BatchEnds(f) \/ AfterInstall(f) \/ AfterPut(f) \/ Failed(f)
    BY <1>1 DEF FlowSteps
  <2>2. CASE Applies(f) \/ Puts(f) \/ Deletes(f)
    BY <2>2 DEF Applies, Apply, Puts, Deletes
  <2>3. CASE Installs(f) BY <2>3 DEF Installs
  <2>4. CASE Asks(f) \/ Batch(f) \/ Toggles(f) \/ BacksUp(f) \/ RequestFails(f)
    BY <2>4 DEF Asks, Batch, Toggles, BacksUp, RequestFails, server
  <2>5. CASE Lists(f) \/ Listed(f) \/ TakesUpdates(f) \/ TakesReport(f)
    BY <2>5 DEF Lists, Listed, TakesUpdates, TakesReport, server
  <2>6. CASE BatchEnds(f) \/ AfterInstall(f) \/ AfterPut(f) \/ Failed(f)
    BY <2>6 DEF BatchEnds, AfterInstall, AfterPut, Failed, server
  <2>. QED BY <2>1, <2>2, <2>3, <2>4, <2>5, <2>6
<1>2. CASE \E k \in Keys : CallEnds(k) BY <1>2 DEF CallEnds
<1>3. CASE Refetch BY <1>3 DEF Refetch, server
<1>. QED BY <1>1, <1>2, <1>3, UserChangesNothing DEF Next, Progress

LEMMA UpgradeStep ==
    ASSUME IInv, Next
    PROVE  UpgradesWhole /\ \A f \in Of("all") \ flows' : f.at = "apply" => Saved(f)
<1>1. UpgradesWhole
  <2> SUFFICES ASSUME version' # version, ~history.overlap PROVE UpgradesWhole
    BY DEF UpgradesWhole
  <2>1. PICK f \in flows : Installs(f) BY ServerSteps
  <2>2. f.at = "install" /\ version' = f.scope.target BY <2>1 DEF Installs
  <2>3. FlowOK(f) /\ flows = {f} BY <2>2, FlowHas DEF FlowOK, Stages
  <2>4. CASE f.kind = "jar" BY <2>2, <2>4 DEF UpgradesWhole, Of
  <2>5. CASE f.kind = "all"
    <3>1. \A g \in Of("all") : ~g.failed BY <2>2, <2>3, <2>5 DEF Of, FlowOK
    <3>2. ~f.force BY <2>2, <2>3 DEF FlowOK, Stages, Works
    <3>3. ~history.failed => \A j \in disk : Fits(j, version', history.missed)
      BY <2>2, <2>5, <3>2, FlowHas DEF OrderlyFlow
    <3>. QED BY <3>1, <3>3 DEF UpgradesWhole
  <2>. QED BY <2>2, <2>3, <2>4, <2>5 DEF FlowOK
<1>2. ASSUME NEW f \in Of("all") \ flows', f.at = "apply" PROVE Saved(f)
  <2>1. f \in flows /\ f.kind = "all" BY <1>2 DEF Of
  <2>2. FlowOK(f) /\ Works(f) BY <1>2, <2>1, FlowHas DEF FlowOK, Stages
  <2>3. f.kept \in Snapshots /\ f.kept # None
    BY <1>2, <2>1, <2>2, ModsPageAssumption DEF FlowOK, Works
  <2>4. ASSUME ~history.overlap PROVE disk \ disk' \subseteq f.kept.disk
    <3>1. flows = {f} /\ CalmFlow(f) BY <2>1, <2>2, <2>4, FlowHas
    <3>2. f.left \subseteq f.kept.disk BY <1>2, <2>1, <2>2, <3>1 DEF CalmFlow, Works
    <3>3. disk' = disk \/ Applies(f)
      BY <1>2, <3>1, ServerSteps DEF Puts, Deletes
    <3>4. ASSUME NEW j \in f.left, Apply(f, j) PROVE disk \ disk' \subseteq {j}
      BY <3>4 DEF Apply
    <3>. QED BY <3>2, <3>3, <3>4 DEF Applies
  <2>. QED BY <2>3, <2>4 DEF Saved
<1>. QED BY <1>1, <1>2

\* The one-click upgrade changes the software only when every jar is the one that its
\* catalogue proposes for the new version, or its mod is in no catalogue, or a lookup of
\* it failed; and each jar that it replaces is in the backup it has taken
\* (handleOneClickUpgrade, CheckTargetVersionCompatibility).
THEOREM UpgradeWhole == Spec => UpgradeIsWhole
<1>1. IInv /\ [Next]_vars =>
        [UpgradesWhole /\ \A f \in Of("all") \ flows' : f.at = "apply" => Saved(f)]_vars
  BY UpgradeStep
<1>. QED BY <1>1, ModsInvariance, PTL DEF Spec, UpgradeIsWhole

\* No batch brings a mod back that was deleted (BatchUpdateMods): one that comes to the
\* server is in a jar that the user chose, while handlers do not overlap.
THEOREM NothingResurrected == Spec => NotResurrected
<1>1. ASSUME IInv, Next, NEW m \in Present(disk') \ Present(disk), ~history.overlap
      PROVE  \E f \in flows : f.jar # None /\ f.jar.mod = m
  <2>1. PICK k \in disk' : k.mod = m /\ k \notin disk BY <1>1 DEF Present
  <2>2. PICK f \in flows : Applies(f) \/ Puts(f) \/ Deletes(f) BY <1>1, <2>1, ServerSteps
  <2>3. CASE Applies(f)
    <3>1. PICK j \in f.left : Apply(f, j) /\ f.at = "apply" BY <2>3 DEF Applies
    <3>2. j \in disk BY <1>1, <3>1, FlowHas DEF CalmFlow
    <3>3. k = Proposed(j.mod, f.got.target) BY <2>1, <3>1 DEF Apply
    <3>4. j \in Jars /\ k \in Jars
      <4>1. FlowOK(f) /\ IsFlow(f) BY <1>1, FlowHas
      <4>2. f.left \subseteq Jars BY <4>1 DEF IsFlow
      <4>3. Proposed(j.mod, f.got.target) \in Jars BY <3>1, <4>1 DEF FlowOK
      <4>. QED BY <3>1, <3>3, <4>2, <4>3
    <3>5. k.mod = j.mod BY <3>3, <3>4, JarIs, ProposedIs
    <3>. QED BY <1>1, <2>1, <3>2, <3>5 DEF Present
  <2>4. CASE Puts(f)
    <3>1. f.jar \in Jars BY <1>1, <2>4, FlowHas DEF FlowOK, Puts
    <3>2. k = f.jar BY <2>1, <2>4 DEF Puts, PutOnly, PutReplace
    <3>. QED BY <2>1, <3>1, <3>2, ModsPageAssumption
  <2>5. CASE Deletes(f) BY <2>1, <2>5 DEF Deletes
  <2>. QED BY <2>2, <2>3, <2>4, <2>5
<1>2. IInv /\ [Next]_vars =>
        [\A m \in Present(disk') \ Present(disk) :
            history.overlap \/ \E f \in flows : f.jar # None /\ f.jar.mod = m]_vars
  BY <1>1
<1>. QED BY <1>2, ModsInvariance, PTL DEF Spec, NotResurrected
=============================================================================
