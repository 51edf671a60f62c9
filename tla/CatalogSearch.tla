---------------------------- MODULE CatalogSearch ----------------------------
(* The search of the four catalogue browsers (web/src/components): debounced   *)
(* filters, paging by scrolling or by a button, and the requests in flight.    *)
(* CatalogBrowser mounts one browser at a time. Requests of one URL share one  *)
(* promise (api/rate-limited-fetch.ts), and with it its first caller's abort;  *)
(* the others wait for a place in the queue of their catalogue.                *)
EXTENDS Integers, Sequences, FiniteSets

CONSTANTS Filters,     \* what the search box, categories, sort order and toggles select
          Default,     \* the filters of a browser that was just mounted
          Matches,     \* Matches[f]: how many projects of the catalogue match f
          PageSize,    \* projects per page
          MaxCalls,    \* bound: searches in flight at once
          MaxInputs,   \* bound: clicks and key strokes
          MaxFails     \* bound: searches that fail

ASSUME SearchAssumption ==
    /\ PageSize \in Nat \ {0} /\ MaxCalls \in Nat /\ MaxInputs \in Nat /\ MaxFails \in Nat
    /\ Matches \in [Filters -> Nat] /\ Default \in Filters

Providers == {"modrinth", "hangar", "spiget", "curseforge"}

VARIABLES tab,      \* activeProvider: the browser that is mounted
          key,      \* CurseForge: an API key is stored
          editing,  \* CurseForge: the key form covers the browser
          filters,  \* the filters the user chose, in the browser's state
          timer,    \* searchTimeoutRef: a search is due after the debounce
          next,     \* offsetRef, or page * PageSize in SpigetBrowser
          fetching, \* isFetchingRef of the two browsers that have it
          view,     \* results, total, loading, loadingMore, error
          calls,    \* the searches between their request and the end of their finally
          queue,    \* the queue of the catalogue: promises that wait for a place
          lost,     \* history: the last search took over a request that was aborted
          mixed,    \* history: a load-more asked for the first page, no search having answered
          budget

vars == <<tab, key, editing, filters, timer, next, fetching, view, calls, queue, lost, mixed, budget>>

Fresh(p)  == IF p = "spiget" THEN PageSize ELSE 0
Blank     == [results |-> <<>>, total |-> 0, loading |-> FALSE, more |-> FALSE, error |-> FALSE]
Spend     == budget.inputs > 0 /\ budget' = [budget EXCEPT !.inputs = @ - 1]
SpendFail == budget.fails > 0 /\ budget' = [budget EXCEPT !.fails = @ - 1]
Ready     == tab # "curseforge" \/ key
Covered   == tab = "curseforge" /\ (editing \/ ~key)

Project(f, n) == [of |-> f, n |-> n]
\* What a catalogue answers for one page.
Page(url) == LET last == url.from + PageSize
                 end  == IF last < Matches[url.of] THEN last ELSE Matches[url.of]
             IN  [i \in 1..(IF end > url.from THEN end - url.from ELSE 0) |->
                     Project(url.of, url.from + i)]

Init ==
    /\ tab = "modrinth" /\ key \in BOOLEAN /\ editing = FALSE
    /\ filters = Default /\ timer = TRUE /\ next = 0 /\ fetching = FALSE
    /\ view = Blank /\ calls = {} /\ queue = <<>> /\ lost = FALSE /\ mixed = FALSE
    /\ budget = [inputs |-> MaxInputs, fails |-> MaxFails]

-----------------------------------------------------------------------------
(* performSearch: abort the search before, take the offset, show the spinner,  *)
(* send. A request whose URL is still in flight is joined, aborted or not.      *)

\* Variant: performSearch without the abort.
AbortedNever == calls
Aborted == {[c EXCEPT !.live = FALSE] : c \in calls}
Flying(url) == {c.promise : c \in {d \in calls : d.url = url /\ d.known}}

\* A request is the filters and the first project asked for, whatever their encoding.
ModrinthUrl(offset)  == [of |-> filters, from |-> offset]
HangarUrl(offset)    == [of |-> filters, from |-> offset]
SpigetUrl(page)      == [of |-> filters, from |-> (page - 1) * PageSize]
CurseForgeUrl(index) == [of |-> filters, from |-> index]

\* scheduleDomainRequest: so many requests of a catalogue at once. Who waits in its
\* queue is aborted only when its turn comes.
MaxConcurrent == IF tab = "spiget" THEN 1 ELSE 2
Waiting == {queue[i] : i \in DOMAIN queue}
Running == {c.promise : c \in calls} \ Waiting
Enters(id) == queue' = IF Cardinality(Running) < MaxConcurrent THEN queue ELSE Append(queue, id)
\* Variant: a place is given back only by a request that was answered.
LeavesUnlessAborted(c) == queue' = IF queue = <<>> \/ ~c.live THEN queue ELSE Tail(queue)
Leaves(c) == queue' = IF queue = <<>> THEN queue ELSE Tail(queue)

Send(reset, url) ==
    LET id == CHOOSE i \in 1..MaxCalls : \A c \in calls : c.id # i
    IN  /\ Cardinality(calls) < MaxCalls
        /\ IF Flying(url) = {} THEN Enters(id) ELSE UNCHANGED queue
        /\ calls' = Aborted \cup {[id |-> id, url |-> url, reset |-> reset, live |-> TRUE,
                promise |-> IF Flying(url) = {} THEN id ELSE CHOOSE p \in Flying(url) : TRUE,
                known |-> TRUE]}
        /\ lost' = FALSE
        /\ mixed' = (mixed \/ (~reset /\ url.from = 0))

Spinner(reset) ==
    view' = IF reset THEN [view EXCEPT !.loading = TRUE, !.error = FALSE]
                     ELSE [view EXCEPT !.more = TRUE]

ModrinthSearch(reset) ==
    /\ fetching => reset
    /\ fetching' = TRUE
    /\ Send(reset, ModrinthUrl(IF reset THEN 0 ELSE next))
    /\ next' = IF reset THEN 0 ELSE next
    /\ Spinner(reset)

HangarSearch(reset) ==
    /\ ~fetching \/ reset
    /\ fetching' = TRUE
    /\ next' = IF reset THEN 0 ELSE next
    /\ Send(reset, HangarUrl(next'))
    /\ Spinner(reset)

\* next = page * PageSize is where page + 1 begins; setPage(1) changes a dependency
\* of the debounce effect.
SpigetSearch(reset) ==
    /\ Send(reset, SpigetUrl(IF reset THEN 1 ELSE next \div PageSize + 1))
    /\ next' = IF reset THEN PageSize ELSE next
    /\ Spinner(reset) /\ UNCHANGED fetching

CurseForgeSearch(reset) ==
    /\ key
    /\ Send(reset, CurseForgeUrl(IF reset THEN 0 ELSE next))
    /\ next' = IF reset THEN 0 ELSE next
    /\ Spinner(reset) /\ UNCHANGED fetching

PerformSearch(reset) ==
    \/ tab = "modrinth" /\ ModrinthSearch(reset)
    \/ tab = "hangar" /\ HangarSearch(reset)
    \/ tab = "spiget" /\ SpigetSearch(reset)
    \/ tab = "curseforge" /\ CurseForgeSearch(reset)

\* SpigetBrowser lists page among the dependencies of performSearch: a change of
\* page starts the debounce again.
\* Variant: results among the dependencies of the debounce effect.
PageEffectOnResults == timer' = (timer \/ view'.results # view.results)
PageEffect == timer' = (timer \/ (tab = "spiget" /\ next' # next))

-----------------------------------------------------------------------------
(* The rest of performSearch, when its request ends.                           *)

Sharers(c) == {d \in calls : d.promise = c.promise}
Finally(c) == calls' = calls \ Sharers(c) /\ fetching' = FALSE /\ Leaves(c)

\* Spiget's page holds no count, and setPage takes the page asked for.
After(c) == IF tab = "spiget" THEN c.url.from + PageSize
                              ELSE c.url.from + Len(Page(c.url))

Answer(c) ==
    /\ Finally(c)
    /\ view' = [view EXCEPT !.loading = FALSE, !.more = FALSE,
                            !.results = IF c.reset THEN Page(c.url) ELSE @ \o Page(c.url),
                            !.total = IF tab = "spiget" THEN 0 ELSE Matches[c.url.of]]
    /\ next' = After(c)
    /\ mixed' = (mixed /\ ~c.reset)
    /\ UNCHANGED <<lost, budget>>

Fail(c) ==
    /\ SpendFail
    /\ Finally(c)
    /\ view' = [view EXCEPT !.loading = FALSE, !.more = FALSE, !.error = TRUE]
    /\ UNCHANGED <<next, lost, mixed>>

\* AbortError, of all who wait for the promise: they return in silence, after finally.
Abort(c) ==
    /\ Finally(c)
    /\ view' = [view EXCEPT !.loading = FALSE, !.more = FALSE]
    /\ lost' = (lost \/ \E d \in Sharers(c) : d.live)
    /\ UNCHANGED <<next, mixed, budget>>

RequestEnds == /\ \E c \in calls :
                     /\ c.promise = c.id /\ c.id \in Running
                     /\ \/ c.live /\ (Answer(c) \/ Fail(c))
                        \/ ~c.live /\ Abort(c)
               /\ PageEffect /\ UNCHANGED <<tab, key, editing, filters>>

-----------------------------------------------------------------------------
(* What starts a search: the debounce, the scroll sentinel, and the buttons.   *)

HasMore == Len(view.results) < view.total /\ Len(view.results) > 0

Debounce == timer /\ PerformSearch(TRUE) /\ UNCHANGED budget
            /\ timer' = (tab = "spiget" /\ next' # next)

ModrinthSentinel == tab = "modrinth" /\ HasMore /\ ~view.loading /\ ~view.more
HangarSentinel   == tab = "hangar" /\ HasMore /\ ~view.loading /\ ~view.more
Sentinel == /\ ModrinthSentinel \/ HangarSentinel
            /\ PerformSearch(FALSE) /\ PageEffect /\ UNCHANGED budget

\* The buttons that load the next page.
ModrinthMore   == tab = "modrinth" /\ HasMore /\ ~view.more
HangarMore     == tab = "hangar" /\ HasMore /\ ~view.more
SpigetMore     == tab = "spiget" /\ view.results # <<>> /\ ~view.loading /\ ~view.more
CurseForgeMore == tab = "curseforge" /\ HasMore /\ ~view.loading /\ ~view.more
LoadMore == /\ ModrinthMore \/ HangarMore \/ SpigetMore \/ CurseForgeMore
            /\ PerformSearch(FALSE) /\ PageEffect /\ Spend

\* Retry is shown with an error; ModrinthBrowser has a refresh button as well.
ModrinthRefresh == tab = "modrinth" /\ (view.error \/ ~view.loading)
HangarRetry     == tab = "hangar" /\ view.error
SpigetRetry     == tab = "spiget" /\ view.error
CurseForgeRetry == tab = "curseforge" /\ view.error
Refresh == /\ ModrinthRefresh \/ HangarRetry \/ SpigetRetry \/ CurseForgeRetry
           /\ PerformSearch(TRUE) /\ PageEffect /\ Spend

\* The search box, its clear button, categories, sort order, toggles, and the reset of
\* all of them: what another choice selects, or the same after two quick changes.
Choose == filters' \in Filters
ModrinthFilters   == tab = "modrinth" /\ Choose
HangarFilters     == tab = "hangar" /\ Choose
SpigetFilters     == tab = "spiget" /\ Choose
CurseForgeFilters == tab = "curseforge" /\ Choose

\* Every change makes a new performSearch, and its effect arms the timer again.
Typing == /\ ModrinthFilters \/ HangarFilters \/ SpigetFilters \/ CurseForgeFilters
          /\ timer' = Ready /\ Spend
          /\ UNCHANGED <<next, fetching, view, calls, queue, lost, mixed>>

Controls == /\ ~Covered /\ UNCHANGED <<tab, key, editing>>
            /\ \/ Typing
               \/ (LoadMore \/ Refresh) /\ UNCHANGED filters

-----------------------------------------------------------------------------
\* setCurseForgeApiKey empties the table of requests in flight; only a key that
\* was not there before changes performSearch.
SaveKey == /\ Covered /\ Spend
           /\ key' = TRUE /\ editing' = FALSE
           /\ timer' = (timer \/ ~key)
           /\ calls' = {[c EXCEPT !.known = FALSE] : c \in calls}
           /\ UNCHANGED <<tab, filters, next, fetching, view, queue, lost, mixed>>

KeyForm == /\ tab = "curseforge" /\ key /\ editing' = ~editing /\ Spend
           /\ UNCHANGED <<tab, key, filters, timer, next, fetching, view, calls, queue, lost, mixed>>

\* The browser that leaves loses its state and its timer; its requests are not
\* aborted, and what they set is nobody's.
Switch == \E p \in Providers \ {tab} :
    /\ tab' = p /\ filters' = Default /\ Spend
    /\ timer' = (p # "curseforge" \/ key) /\ editing' = FALSE /\ next' = Fresh(p) /\ fetching' = FALSE
    /\ view' = Blank /\ calls' = {} /\ queue' = <<>> /\ lost' = FALSE /\ mixed' = FALSE
    /\ UNCHANGED key

Next == \/ RequestEnds
        \/ (Debounce \/ Sentinel) /\ UNCHANGED <<tab, key, editing, filters>>
        \/ Controls \/ SaveKey \/ KeyForm \/ Switch

\* Timers fire and requests end: fetch has a time limit and the back-off a maximum.
Spec == /\ Init /\ [][Next]_vars
        /\ WF_vars(Debounce /\ UNCHANGED <<tab, key, editing, filters>>)
        /\ WF_vars(RequestEnds)
=============================================================================
