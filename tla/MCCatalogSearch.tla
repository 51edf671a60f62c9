--------------------------- MODULE MCCatalogSearch ---------------------------
(* CatalogSearch on two choices of filters, one of them with two pages.        *)
EXTENDS CatalogSearch, TLC

MCMatches == [f \in {"wide", "narrow"} |-> IF f = "wide" THEN 3 ELSE 1]

Resting == ~timer /\ calls = {}
FirstOf(n) == [i \in 1..n |-> Project(filters, i)]
FirstPage  == Len(Page([of |-> filters, from |-> 0]))

\* Once nothing is due or in flight the list ends with the projects the chosen
\* filters select, from the first on, without a gap and at least one page of them;
\* nothing else precedes them, unless a load-more had replaced the search, which
\* SpigetBrowser alone repairs. An error shown, or a search that took over an
\* aborted request, is the only excuse (performSearch of the four browsers).
RestIsCurrent ==
    Resting /\ Ready /\ ~view.error /\ ~lost =>
        \E old \in 0..Len(view.results) :
            LET own == SubSeq(view.results, old + 1, Len(view.results))
            IN  /\ own = FirstOf(Len(own)) /\ Len(own) >= FirstPage
                /\ old = 0 \/ (mixed /\ tab # "spiget")
                /\ tab # "spiget" => view.total = Matches[filters]

\* When the user stops, the browser comes to rest: the debounce, the page effect of
\* SpigetBrowser and the scroll sentinel do not start each other for ever.
ComesToRest == <>[](Resting /\ ~view.loading /\ ~view.more)

=============================================================================
