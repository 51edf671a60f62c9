--------------------------- MODULE CatalogSearchInv ---------------------------
(* The inductive invariant of CatalogSearch behind RestIsCurrent: while no       *)
(* search is due, what the list, the offset and the search in flight have to do  *)
(* with the filters.                                                             *)
EXTENDS MCCatalogSearch

Projects == [of : Filters, n : Nat]
IsCall(c) == c \in [id : {c.id}, url : [of : Filters, from : Nat], reset : BOOLEAN,
                    live : BOOLEAN, promise : {c.promise}, known : BOOLEAN]

\* The variables that the argument is about keep their types.
TypeOK ==
    /\ tab \in Providers /\ key \in BOOLEAN /\ filters \in Filters /\ timer \in BOOLEAN
    /\ next \in Nat /\ lost \in BOOLEAN /\ mixed \in BOOLEAN
    /\ view \in [results : Seq(Projects), total : Nat, loading : BOOLEAN, more : BOOLEAN,
                 error : BOOLEAN]
    /\ \A c \in calls : IsCall(c)

Live == {c \in calls : c.live}

\* The list ends with the first n projects of the filters, and nothing precedes
\* them unless a load-more took the place of the search.
Listed(n) ==
    /\ n >= FirstPage /\ (tab # "spiget" => view.total = Matches[filters])
    /\ \E old \in 0..Len(view.results) :
         /\ old + n = Len(view.results)
         /\ \A i \in 1..n : view.results[old + i] = Project(filters, i)
         /\ old = 0 \/ (mixed /\ tab # "spiget")

\* A search in flight that was not aborted asks for what the filters select: from the
\* first project on, or from where the list ends. In SpigetBrowser the answer to a
\* load-more changes the page, and with it starts the debounce.
LiveInv(c) ==
    /\ c.url.of = filters
    /\ c.reset => c.url.from = 0 /\ next = Fresh(tab)
    /\ ~c.reset => IF tab = "spiget" THEN c.url.from + PageSize # next
                   ELSE c.url.from = next /\ (next = 0 => mixed)

SearchInv ==
    Ready /\ ~timer =>
        /\ \A c \in Live : LiveInv(c)
        /\ next # 0 /\ tab # "spiget" => Listed(next)
        /\ Live = {} /\ ~view.error /\ ~lost => Listed(IF tab = "spiget" THEN FirstPage ELSE next)

IInv == TypeOK /\ (\A c, d \in Live : c = d) /\ SearchInv
=============================================================================
