------------------------- MODULE CatalogSearchProofs -------------------------
(* The theorems of CatalogSearch: the inductive invariant, and the list that a   *)
(* browser shows at rest, for any catalogue, any page size and any number of     *)
(* searches in flight.                                                           *)
EXTENDS CatalogSearchInv, SequenceTheorems, TLAPS

Urls == [of : Filters, from : Nat]

-----------------------------------------------------------------------------
(* Pages and lists.                                                            *)

\* A page holds the projects that follow the first one asked for.
LEMMA PageShape ==
    ASSUME NEW url \in Urls
    PROVE  /\ Page(url) \in Seq(Projects) /\ Len(Page(url)) \in Nat
           /\ \A i \in 1..Len(Page(url)) : Page(url)[i] = Project(url.of, url.from + i)
<1>. DEFINE last == url.from + PageSize
            end == IF last < Matches[url.of] THEN last ELSE Matches[url.of]
            m == IF end > url.from THEN end - url.from ELSE 0
<1>1. m \in Nat /\ url.from \in Nat /\ url.of \in Filters BY SearchAssumption DEF Urls
<1>2. Page(url) = [i \in 1..m |-> Project(url.of, url.from + i)] BY DEF Page
<1>. HIDE DEF m
<1>3. \A i \in 1..m : Project(url.of, url.from + i) \in Projects BY <1>1 DEF Project, Projects
<1>4. Page(url) \in Seq(Projects) /\ Len(Page(url)) = m BY <1>1, <1>2, <1>3
<1>. QED BY <1>1, <1>2, <1>4

\* The first page of the filters alone is a list of them.
LEMMA FirstPageIsListed ==
    ASSUME TypeOK, NEW url \in Urls, url.of = filters, url.from = 0,
           UNCHANGED <<tab, filters>>, view'.results = Page(url),
           tab # "spiget" => view'.total = Matches[filters]
    PROVE  Listed(Len(Page(url)))'
<1>1. url = [of |-> filters, from |-> 0] BY DEF Urls
<1>2. /\ Len(Page(url)) \in Nat
      /\ \A i \in 1..Len(Page(url)) : Page(url)[i] = Project(filters, i)
  BY PageShape
<1>3. FirstPage' = Len(Page(url)) BY <1>1 DEF FirstPage, Page
<1>. DEFINE n == Len(Page(url))
<1>4. 0 \in 0..Len(view'.results) /\ 0 + n = Len(view'.results) BY <1>2
<1>5. \A i \in 1..n : view'.results[0 + i] = Project(filters', i) BY <1>2
<1>. QED BY <1>2, <1>3, <1>4, <1>5 DEF Listed

\* A page that follows the list makes it longer.
LEMMA PageExtends ==
    ASSUME TypeOK, NEW url \in Urls, url.of = filters, Listed(url.from),
           UNCHANGED <<tab, filters, mixed>>, view'.results = view.results \o Page(url),
           tab # "spiget" => view'.total = Matches[filters]
    PROVE  Listed(url.from + Len(Page(url)))'
<1>. DEFINE more == Page(url)
            n == url.from
<1>1. /\ more \in Seq(Projects) /\ Len(more) \in Nat
      /\ \A i \in 1..Len(more) : more[i] = Project(filters, n + i)
  BY PageShape
<1>2. view.results \in Seq(Projects) /\ n \in Nat BY DEF TypeOK, Urls
<1>3. FirstPage' = FirstPage BY DEF FirstPage, Page
<1>4. PICK old \in 0..Len(view.results) :
        /\ old + n = Len(view.results)
        /\ \A i \in 1..n : view.results[old + i] = Project(filters, i)
        /\ old = 0 \/ (mixed /\ tab # "spiget")
  BY DEF Listed
<1>5. FirstPage \in Nat /\ n >= FirstPage
  <2>1. [of |-> filters, from |-> 0] \in Urls BY DEF TypeOK, Urls
  <2>. QED BY <2>1, PageShape DEF FirstPage, Listed
<1>. HIDE DEF more, n
<1>6. /\ Len(view'.results) = Len(view.results) + Len(more)
      /\ \A i \in 1..Len(view.results) : view'.results[i] = view.results[i]
      /\ \A i \in 1..Len(more) : view'.results[Len(view.results) + i] = more[i]
  <2>1. view'.results = view.results \o more BY DEF more
  <2>. QED BY <1>1, <1>2, <2>1, ConcatProperties
<1>7. Len(view.results) \in Nat BY <1>2
<1>8. old \in 0..Len(view'.results) /\ old + (n + Len(more)) = Len(view'.results)
  <2>1. old \in Nat /\ old + n = Len(view.results) BY <1>4
  <2>2. Len(more) \in Nat /\ n \in Nat BY <1>1, <1>2
  <2>3. Len(view'.results) = old + n + Len(more) BY <1>6, <2>1
  <2>4. old + n + Len(more) = old + (n + Len(more)) /\ old <= old + n + Len(more) BY <2>1, <2>2
  <2>. QED BY <2>1, <2>2, <2>3, <2>4
<1>9. ASSUME NEW i \in 1..(n + Len(more)) PROVE view'.results[old + i] = Project(filters', i)
  <2>1. CASE i <= n
    <3>1. old + i \in 1..Len(view.results) BY <1>2, <1>4, <1>7, <2>1
    <3>. QED BY <1>2, <1>4, <1>6, <2>1, <3>1
  <2>2. CASE ~(i <= n)
    <3>1. i - n \in 1..Len(more) /\ old + i = Len(view.results) + (i - n) /\ n + (i - n) = i
      BY <1>1, <1>2, <1>4, <1>7, <2>2
    <3>. QED BY <1>1, <1>6, <3>1
  <2>. QED BY <2>1, <2>2
<1>10. n + Len(more) >= FirstPage' BY <1>1, <1>2, <1>3, <1>5
<1>. QED BY <1>4, <1>8, <1>9, <1>10 DEF Listed, more, n

\* A first page that follows another list is a list behind it.
LEMMA PageFollows ==
    ASSUME TypeOK, NEW url \in Urls, url.of = filters, url.from = 0, tab # "spiget", mixed,
           UNCHANGED <<tab, filters, mixed>>, view'.results = view.results \o Page(url),
           view'.total = Matches[filters]
    PROVE  Listed(Len(Page(url)))'
<1>1. url = [of |-> filters, from |-> 0] BY DEF Urls
<1>2. /\ Page(url) \in Seq(Projects) /\ Len(Page(url)) \in Nat
      /\ \A i \in 1..Len(Page(url)) : Page(url)[i] = Project(filters, i)
  BY PageShape
<1>3. view.results \in Seq(Projects) BY DEF TypeOK
<1>4. FirstPage' = Len(Page(url)) BY <1>1 DEF FirstPage, Page
<1>. DEFINE more == Page(url)
            old == Len(view.results)
<1>. HIDE DEF more
<1>5. /\ Len(view'.results) = old + Len(more)
      /\ \A i \in 1..Len(more) : view'.results[old + i] = more[i]
  <2>1. view'.results = view.results \o more BY DEF more
  <2>. QED BY <1>2, <1>3, <2>1, ConcatProperties DEF more
<1>6. old \in 0..Len(view'.results) BY <1>2, <1>3, <1>5 DEF more
<1>7. \A i \in 1..Len(more) : view'.results[old + i] = Project(filters', i) BY <1>2, <1>5 DEF more
<1>8. Len(more) >= FirstPage' BY <1>2, <1>4 DEF more
<1>. HIDE DEF old
<1>9. \E k \in 0..Len(view'.results) :
        /\ k + Len(more) = Len(view'.results)
        /\ \A i \in 1..Len(more) : view'.results[k + i] = Project(filters', i)
        /\ k = 0 \/ (mixed' /\ tab' # "spiget")
  BY <1>5, <1>6, <1>7
<1>10. Listed(Len(more))' BY <1>8, <1>9 DEF Listed
<1>. QED BY <1>10 DEF more

\* A list stays one while its projects and the filters do.
LEMMA ListStays ==
    ASSUME NEW n \in Nat, Listed(n), UNCHANGED <<tab, filters>>, mixed => mixed',
           view'.results = view.results, view'.total = view.total
    PROVE  Listed(n)'
BY DEF Listed, FirstPage, Page

-----------------------------------------------------------------------------
(* Searches.                                                                   *)

\* A search aborts the ones before, and is the only one that is not aborted.
LEMMA SendSends ==
    ASSUME TypeOK, NEW reset \in BOOLEAN, NEW url \in Urls, Send(reset, url)
    PROVE  /\ \A c \in calls' : IsCall(c)
           /\ \A c, d \in Live' : c = d
           /\ \A c \in Live' : c.url = url /\ c.reset = reset
           /\ Live' # {}
           /\ lost' = FALSE /\ mixed' = (mixed \/ (~reset /\ url.from = 0))
<1>. DEFINE id == CHOOSE i \in 1..MaxCalls : \A c \in calls : c.id # i
            promise == IF Flying(url) = {} THEN id ELSE CHOOSE p \in Flying(url) : TRUE
            new == [id |-> id, url |-> url, reset |-> reset, live |-> TRUE,
                    promise |-> promise, known |-> TRUE]
<1>1. calls' = Aborted \cup {new} /\ lost' = FALSE /\ mixed' = (mixed \/ (~reset /\ url.from = 0))
  BY DEF Send
<1>. HIDE DEF id, promise
<1>2. IsCall(new) /\ new.live /\ new.url = url /\ new.reset = reset BY DEF IsCall, Urls
<1>. HIDE DEF new
<1>3. ASSUME NEW c \in Aborted PROVE IsCall(c) /\ ~c.live
  <2>1. PICK d \in calls : c = [d EXCEPT !.live = FALSE] BY <1>3 DEF Aborted
  <2>2. IsCall(d) BY DEF TypeOK
  <2>. QED BY <2>1, <2>2 DEF IsCall
<1>. QED BY <1>1, <1>2, <1>3 DEF Live

\* The remainder of a division is less than the divisor.
LEMMA NextPage ==
    ASSUME NEW n \in Nat
    PROVE  /\ ((n \div PageSize + 1) - 1) * PageSize \in Nat
           /\ ((n \div PageSize + 1) - 1) * PageSize + PageSize # n
           /\ (1 - 1) * PageSize = 0
<1>1. PageSize \in Nat /\ PageSize > 0 BY SearchAssumption
<1>2. n \div PageSize \in Nat BY <1>1
<1>3. n = (n \div PageSize) * PageSize + (n % PageSize) /\ n % PageSize \in 0..(PageSize - 1) BY <1>1
<1>4. (n \div PageSize) * PageSize \in Nat BY <1>1, <1>2
<1>5. (n \div PageSize + 1) - 1 = n \div PageSize BY <1>2
<1>. QED BY <1>1, <1>3, <1>4, <1>5

\* What a search of each browser does to the offset, and what it asks for.
LEMMA SearchAsks ==
    ASSUME TypeOK, NEW reset \in BOOLEAN, PerformSearch(reset)
    PROVE  /\ \E url \in Urls :
                 /\ Send(reset, url) /\ url.of = filters
                 /\ reset => url.from = 0
                 /\ ~reset => IF tab = "spiget" THEN url.from + PageSize # next
                              ELSE url.from = next
           /\ next' = IF reset THEN Fresh(tab) ELSE next
           /\ view' \in [results : Seq(Projects), total : Nat, loading : BOOLEAN, more : BOOLEAN,
                         error : BOOLEAN]
           /\ view'.results = view.results /\ view'.total = view.total
           /\ Ready
<1>1. /\ next \in Nat /\ filters \in Filters /\ tab \in Providers
      /\ view \in [results : Seq(Projects), total : Nat, loading : BOOLEAN, more : BOOLEAN,
                   error : BOOLEAN]
  BY DEF TypeOK
<1>2. Spinner(reset) BY DEF PerformSearch, ModrinthSearch, HangarSearch, SpigetSearch, CurseForgeSearch
<1>3. /\ view' \in [results : Seq(Projects), total : Nat, loading : BOOLEAN, more : BOOLEAN,
                    error : BOOLEAN]
      /\ view'.results = view.results /\ view'.total = view.total
  BY <1>1, <1>2 DEF Spinner
<1>4. \A n \in Nat : [of |-> filters, from |-> n] \in Urls BY <1>1 DEF Urls
<1>5. CASE tab = "spiget" /\ SpigetSearch(reset)
  <2>1. next' = IF reset THEN Fresh(tab) ELSE next BY <1>5 DEF SpigetSearch, Fresh
  <2>2. CASE reset
    <3>1. Send(reset, [of |-> filters, from |-> (1 - 1) * PageSize])
      BY <1>5, <2>2 DEF SpigetSearch, SpigetUrl
    <3>2. Send(reset, [of |-> filters, from |-> 0]) BY <3>1, NextPage
    <3>. QED BY <1>3, <1>4, <1>5, <2>1, <2>2, <3>2 DEF Ready
  <2>3. CASE ~reset
    <3>. DEFINE page == next \div PageSize + 1
                url == SpigetUrl(page)
    <3>1. Send(reset, url)
      <4>1. (IF reset THEN 1 ELSE next \div PageSize + 1) = page BY <2>3
      <4>. QED BY <1>5, <4>1 DEF SpigetSearch
    <3>2. url.of = filters /\ url.from = (page - 1) * PageSize
          /\ url = [of |-> filters, from |-> (page - 1) * PageSize]
      BY DEF SpigetUrl
    <3>3. (page - 1) * PageSize \in Nat /\ (page - 1) * PageSize + PageSize # next
      BY <1>1, NextPage
    <3>. HIDE DEF page
    <3>4. url \in Urls /\ url.from + PageSize # next BY <1>4, <3>2, <3>3
    <3>. HIDE DEF url
    <3>. QED BY <1>3, <1>5, <2>1, <2>3, <3>1, <3>2, <3>4 DEF Ready
  <2>. QED BY <2>2, <2>3
<1>6. CASE tab = "modrinth" /\ ModrinthSearch(reset)
  BY <1>1, <1>3, <1>4, <1>6 DEF ModrinthSearch, ModrinthUrl, Ready, Fresh
<1>7. CASE tab = "hangar" /\ HangarSearch(reset)
  BY <1>1, <1>3, <1>4, <1>7 DEF HangarSearch, HangarUrl, Ready, Fresh
<1>8. CASE tab = "curseforge" /\ CurseForgeSearch(reset)
  BY <1>1, <1>3, <1>4, <1>8 DEF CurseForgeSearch, CurseForgeUrl, Ready, Fresh
<1>. QED BY <1>5, <1>6, <1>7, <1>8 DEF PerformSearch

\* A search by the filters: what it asks for is what the list wants.
LEMMA SearchKeeps ==
    ASSUME IInv, NEW reset \in BOOLEAN, PerformSearch(reset), UNCHANGED <<tab, key, filters>>,
           timer' \in BOOLEAN, ~reset => (timer => timer')
    PROVE  IInv'
<1>1. TypeOK BY DEF IInv
<1>2. PICK url \in Urls :
        /\ Send(reset, url) /\ url.of = filters
        /\ reset => url.from = 0
        /\ ~reset => IF tab = "spiget" THEN url.from + PageSize # next ELSE url.from = next
  BY <1>1, SearchAsks
<1>3. /\ next' = IF reset THEN Fresh(tab) ELSE next
      /\ view' \in [results : Seq(Projects), total : Nat, loading : BOOLEAN, more : BOOLEAN,
                    error : BOOLEAN]
      /\ view'.results = view.results /\ view'.total = view.total
  BY <1>1, SearchAsks
<1>4. /\ \A c \in calls' : IsCall(c)
      /\ \A c, d \in Live' : c = d
      /\ \A c \in Live' : c.url = url /\ c.reset = reset
      /\ Live' # {} /\ lost' = FALSE /\ mixed' = (mixed \/ (~reset /\ url.from = 0))
  BY <1>1, <1>2, SendSends
<1>5. PageSize \in Nat /\ next \in Nat BY <1>1, SearchAssumption DEF TypeOK
<1>6. TypeOK'
  <2>1. next' \in Nat BY <1>3, <1>5 DEF Fresh
  <2>2. mixed' \in BOOLEAN BY <1>1, <1>4 DEF TypeOK
  <2>. QED BY <1>1, <1>3, <1>4, <2>1, <2>2 DEF TypeOK, IsCall
<1>7. SearchInv'
  <2> SUFFICES ASSUME Ready', ~timer'
               PROVE  /\ \A c \in Live' : LiveInv(c)'
                      /\ next' # 0 /\ tab # "spiget" => Listed(next)'
    BY <1>4 DEF SearchInv
  <2>1. CASE reset
    <3>1. \A c \in Live' : LiveInv(c)' BY <1>2, <1>3, <1>4, <2>1 DEF LiveInv, Fresh
    <3>. QED BY <1>3, <2>1, <3>1 DEF Fresh
  <2>2. CASE ~reset
    <3>1. ~timer /\ Ready BY <2>2 DEF Ready
    <3>2. next # 0 /\ tab # "spiget" => Listed(next) BY <3>1 DEF IInv, SearchInv
    <3>3. next' # 0 /\ tab # "spiget" => Listed(next)'
      BY <1>3, <1>4, <1>5, <2>2, <3>2, ListStays
    <3>4. \A c \in Live' : LiveInv(c)' BY <1>2, <1>3, <1>4, <2>2 DEF LiveInv
    <3>. QED BY <3>3, <3>4
  <2>. QED BY <2>1, <2>2
<1>. QED BY <1>4, <1>6, <1>7 DEF IInv

-----------------------------------------------------------------------------
(* Answers.                                                                    *)

\* The answer of the search in flight: the list is that of the filters.
LEMMA AnswerKeeps ==
    ASSUME IInv, NEW c \in Live, Answer(c), PageEffect, UNCHANGED <<tab, key, editing, filters>>
    PROVE  IInv'
<1>1. /\ TypeOK /\ IsCall(c) /\ c.live /\ c \in calls BY DEF IInv, TypeOK, Live
<1>2. /\ c.url \in Urls /\ c.reset \in BOOLEAN /\ PageSize \in Nat /\ PageSize > 0
      /\ Matches[c.url.of] \in Nat
  BY <1>1, SearchAssumption DEF IsCall, Urls
<1>. DEFINE page == Page(c.url)
<1>3. page \in Seq(Projects) /\ Len(page) \in Nat BY <1>2, PageShape
<1>4. Live' = {} BY <1>1 DEF Answer, Finally, Sharers, Live, IInv
<1>5. /\ view' = [view EXCEPT !.loading = FALSE, !.more = FALSE,
                              !.results = IF c.reset THEN page ELSE @ \o page,
                              !.total = IF tab = "spiget" THEN 0 ELSE Matches[c.url.of]]
      /\ next' = After(c) /\ mixed' = (mixed /\ ~c.reset) /\ lost' = lost
  BY DEF Answer
<1>. HIDE DEF page
<1>6. /\ view'.results = IF c.reset THEN page ELSE view.results \o page
      /\ view'.total = IF tab = "spiget" THEN 0 ELSE Matches[c.url.of]
      /\ view' \in [results : Seq(Projects), total : Nat, loading : BOOLEAN, more : BOOLEAN,
                    error : BOOLEAN]
  <2>1. view \in [results : Seq(Projects), total : Nat, loading : BOOLEAN, more : BOOLEAN,
                  error : BOOLEAN]
    BY <1>1 DEF TypeOK
  <2>2. view.results \o page \in Seq(Projects) BY <1>3, <2>1, ConcatProperties
  <2>. QED BY <1>2, <1>3, <1>5, <2>1, <2>2
<1>7. After(c) = (IF tab = "spiget" THEN c.url.from + PageSize ELSE c.url.from + Len(page))
  BY DEF After, page
<1>8. TypeOK'
  <2>1. next' \in Nat BY <1>2, <1>3, <1>5, <1>7 DEF Urls
  <2>2. mixed' \in BOOLEAN /\ lost' \in BOOLEAN BY <1>1, <1>5 DEF TypeOK
  <2>3. \A d \in calls' : IsCall(d) BY <1>1 DEF Answer, Finally, TypeOK, IsCall
  <2>4. timer' \in BOOLEAN BY <1>1 DEF PageEffect, TypeOK
  <2>. QED BY <1>1, <1>6, <2>1, <2>2, <2>3, <2>4 DEF TypeOK
<1>9. SearchInv'
  <2> SUFFICES ASSUME Ready', ~timer'
               PROVE  Listed(IF tab = "spiget" THEN FirstPage ELSE next)'
    BY <1>4 DEF SearchInv
  <2>1. ~timer /\ Ready /\ (tab = "spiget" => next' = next)
    BY <1>1 DEF PageEffect, Ready, TypeOK
  <2>2. LiveInv(c) /\ (next # 0 /\ tab # "spiget" => Listed(next)) BY <2>1 DEF IInv, SearchInv
  <2>3. c.url.of = filters /\ (tab # "spiget" => view'.total = Matches[filters])
    BY <1>6, <2>2 DEF LiveInv
  <2>4. CASE c.reset
    <3>1. c.url.from = 0 BY <2>2, <2>4 DEF LiveInv
    <3>2. Listed(Len(page))' BY <1>1, <1>2, <1>6, <2>3, <2>4, <3>1, FirstPageIsListed DEF page
    <3>3. FirstPage' = Len(page)
      <4>1. c.url = [of |-> filters, from |-> 0] BY <1>2, <2>3, <3>1 DEF Urls
      <4>. QED BY <4>1 DEF FirstPage, Page, page
    <3>4. tab # "spiget" => next' = Len(page) BY <1>3, <1>5, <1>7, <3>1
    <3>. QED BY <3>2, <3>3, <3>4
  <2>5. CASE ~c.reset
    <3>1. tab # "spiget" BY <1>5, <1>7, <2>1, <2>2, <2>5 DEF LiveInv
    <3>2. c.url.from = next /\ (next = 0 => mixed) /\ mixed' = mixed
      BY <1>1, <1>5, <2>2, <2>5, <3>1 DEF LiveInv, TypeOK
    <3>3. next' = c.url.from + Len(page) BY <1>5, <1>7, <3>1
    <3>4. CASE next # 0
      <4>1. Listed(c.url.from) BY <2>2, <3>1, <3>2, <3>4
      <4>2. Listed(c.url.from + Len(page))'
        BY <1>1, <1>2, <1>6, <2>3, <2>5, <3>2, <4>1, PageExtends DEF page
      <4>. QED BY <3>1, <3>3, <4>2
    <3>5. CASE next = 0
      <4>1. Listed(Len(page))'
        BY <1>1, <1>2, <1>6, <2>3, <2>5, <3>1, <3>2, <3>5, PageFollows DEF page
      <4>2. next' = Len(page) BY <1>3, <3>2, <3>3, <3>5
      <4>. QED BY <3>1, <4>1, <4>2
    <3>. QED BY <3>4, <3>5
  <2>. QED BY <2>4, <2>5
<1>. QED BY <1>4, <1>8, <1>9 DEF IInv

\* A search that fails shows it; one that was aborted leaves the list as it was, and if
\* it takes another with it, that is what lost tells.
LEMMA EndKeeps ==
    ASSUME IInv, NEW c \in calls, Fail(c) \/ Abort(c), PageEffect,
           UNCHANGED <<tab, key, editing, filters>>
    PROVE  IInv'
<1>1. TypeOK /\ calls' \subseteq calls /\ Live' \subseteq Live
  BY DEF IInv, Fail, Abort, Finally, Live
<1>2. /\ next' = next /\ mixed' = mixed
      /\ view'.results = view.results /\ view'.total = view.total
      /\ view' \in [results : Seq(Projects), total : Nat, loading : BOOLEAN, more : BOOLEAN,
                    error : BOOLEAN]
      /\ lost' \in BOOLEAN /\ timer' = timer
      /\ view'.error \/ (view'.error = view.error /\ (Live' # {} \/ Live = {} \/ lost')
                         /\ (lost => lost'))
  <2>1. CASE Fail(c) BY <1>1, <2>1 DEF Fail, PageEffect, TypeOK
  <2>2. CASE Abort(c)
    <3>1. Live' # {} \/ Live = {} \/ lost' BY <2>2 DEF Abort, Finally, Live
    <3>. QED BY <1>1, <2>2, <3>1 DEF Abort, PageEffect, TypeOK
  <2>. QED BY <2>1, <2>2
<1>3. TypeOK' BY <1>1, <1>2 DEF TypeOK, IsCall
<1>4. SearchInv'
  <2> SUFFICES ASSUME Ready', ~timer'
               PROVE  /\ \A d \in Live' : LiveInv(d)'
                      /\ next # 0 /\ tab # "spiget" => Listed(next)'
                      /\ Live' = {} /\ ~view'.error /\ ~lost' =>
                            Listed(IF tab = "spiget" THEN FirstPage ELSE next)'
    BY <1>2 DEF SearchInv
  <2>1. ~timer /\ Ready BY <1>2 DEF Ready
  <2>2. /\ \A d \in Live : LiveInv(d)
        /\ next # 0 /\ tab # "spiget" => Listed(next)
        /\ Live = {} /\ ~view.error /\ ~lost => Listed(IF tab = "spiget" THEN FirstPage ELSE next)
    BY <2>1 DEF IInv, SearchInv
  <2>3. next \in Nat /\ FirstPage \in Nat /\ FirstPage' = FirstPage
    <3>1. [of |-> filters, from |-> 0] \in Urls BY <1>1 DEF TypeOK, Urls
    <3>. QED BY <1>1, <3>1, PageShape DEF TypeOK, FirstPage, Page
  <2>4. \A n \in Nat : Listed(n) => Listed(n)' BY <1>2, ListStays
  <2>5. \A d \in Live' : LiveInv(d)' BY <1>1, <1>2, <2>2 DEF LiveInv
  <2>6. Live' = {} /\ ~view'.error /\ ~lost' => Live = {} /\ ~view.error /\ ~lost BY <1>2
  <2>7. Listed(IF tab = "spiget" THEN FirstPage ELSE next) =>
          Listed(IF tab = "spiget" THEN FirstPage ELSE next)'
    <3>1. CASE tab = "spiget" BY <1>2, <2>3, <3>1, ListStays
    <3>2. CASE tab # "spiget" BY <1>2, <2>3, <3>2, ListStays
    <3>. QED BY <3>1, <3>2
  <2>8. next # 0 /\ tab # "spiget" => Listed(next)' BY <1>2, <2>2, <2>3, ListStays
  <2>. QED BY <2>2, <2>5, <2>6, <2>7, <2>8
<1>. QED BY <1>1, <1>3, <1>4 DEF IInv

\* A request ends.
LEMMA RequestEndsKeeps ==
    ASSUME IInv, RequestEnds
    PROVE  IInv'
<1>1. PICK c \in calls : (c.live /\ (Answer(c) \/ Fail(c))) \/ (~c.live /\ Abort(c))
  BY DEF RequestEnds
<1>2. PageEffect /\ UNCHANGED <<tab, key, editing, filters>> BY DEF RequestEnds
<1>3. CASE c.live /\ Answer(c)
  <2>1. c \in Live BY <1>3 DEF Live
  <2>. QED BY <1>2, <1>3, <2>1, AnswerKeeps
<1>. QED BY <1>1, <1>2, <1>3, EndKeeps

-----------------------------------------------------------------------------
(* Everything else.                                                            *)

\* The debounce, the sentinel and the buttons search by the filters; every other
\* control makes a search due, where there can be one, or touches nothing of it.
LEMMA NextKeeps == IInv /\ [Next]_vars => IInv'
<1> SUFFICES ASSUME IInv, [Next]_vars PROVE IInv' OBVIOUS
<1>1. TypeOK /\ PageSize \in Nat BY SearchAssumption DEF IInv
<1>2. CASE RequestEnds BY <1>2, RequestEndsKeeps
<1>3. CASE Debounce /\ UNCHANGED <<tab, key, editing, filters>>
  <2>1. PerformSearch(TRUE) /\ timer' \in BOOLEAN BY <1>3 DEF Debounce
  <2>. QED BY <1>3, <2>1, SearchKeeps
<1>4. CASE Sentinel /\ UNCHANGED <<tab, key, editing, filters>>
  <2>1. PerformSearch(FALSE) /\ timer' \in BOOLEAN /\ (timer => timer')
    BY <1>1, <1>4 DEF Sentinel, PageEffect, TypeOK
  <2>. QED BY <1>4, <2>1, SearchKeeps
<1>5. CASE Controls
  <2>1. CASE Typing
    <3>1. filters' \in Filters /\ timer' = Ready
      BY <2>1 DEF Typing, ModrinthFilters, HangarFilters, SpigetFilters, CurseForgeFilters, Choose
    <3>2. UNCHANGED <<tab, key, next, view, calls, lost, mixed>> BY <1>5, <2>1 DEF Typing, Controls
    <3>3. TypeOK' BY <1>1, <3>1, <3>2 DEF TypeOK, IsCall, Ready
    <3>4. SearchInv' BY <3>1, <3>2 DEF SearchInv, Ready
    <3>. QED BY <3>2, <3>3, <3>4 DEF IInv, Live
  <2>2. CASE LoadMore /\ UNCHANGED filters
    <3>1. PerformSearch(FALSE) /\ timer' \in BOOLEAN /\ (timer => timer')
      BY <1>1, <2>2 DEF LoadMore, PageEffect, TypeOK
    <3>. QED BY <1>5, <2>2, <3>1, SearchKeeps DEF Controls
  <2>3. CASE Refresh /\ UNCHANGED filters
    <3>1. PerformSearch(TRUE) /\ timer' \in BOOLEAN
      BY <1>1, <2>3 DEF Refresh, PageEffect, TypeOK
    <3>. QED BY <1>5, <2>3, <3>1, SearchKeeps DEF Controls
  <2>. QED BY <1>5, <2>1, <2>2, <2>3 DEF Controls
<1>6. CASE SaveKey
  <2>1. /\ UNCHANGED <<tab, filters, next, view, lost, mixed>> /\ key' = TRUE
        /\ timer' = (timer \/ ~key) /\ calls' = {[c EXCEPT !.known = FALSE] : c \in calls}
    BY <1>6 DEF SaveKey
  <2>2. ASSUME NEW c \in calls'
        PROVE  IsCall(c) /\ \E d \in calls : /\ c.live = d.live /\ c.url = d.url /\ c.reset = d.reset
                                             /\ c = [d EXCEPT !.known = FALSE]
    <3>1. PICK d \in calls : c = [d EXCEPT !.known = FALSE] BY <2>1, <2>2
    <3>2. IsCall(d) BY <1>1 DEF TypeOK
    <3>3. c.live = d.live /\ c.url = d.url /\ c.reset = d.reset BY <3>1, <3>2 DEF IsCall
    <3>4. IsCall(c) BY <3>1, <3>2 DEF IsCall
    <3>. QED BY <3>1, <3>3, <3>4
  <2>3. TypeOK' BY <1>1, <2>1, <2>2 DEF TypeOK
  <2>4. \A c, d \in Live' : c = d
    <3> SUFFICES ASSUME NEW c \in Live', NEW d \in Live' PROVE c = d OBVIOUS
    <3>1. PICK a \in calls : c.live = a.live /\ c = [a EXCEPT !.known = FALSE] BY <2>2 DEF Live
    <3>2. PICK b \in calls : d.live = b.live /\ d = [b EXCEPT !.known = FALSE] BY <2>2 DEF Live
    <3>3. a = b BY <3>1, <3>2 DEF IInv, Live
    <3>. QED BY <3>1, <3>2, <3>3
  <2>5. SearchInv'
    <3> SUFFICES ASSUME Ready', ~timer'
                 PROVE  /\ \A c \in Live' : LiveInv(c)'
                        /\ next # 0 /\ tab # "spiget" => Listed(next)'
                        /\ Live' = {} /\ ~view.error /\ ~lost =>
                              Listed(IF tab = "spiget" THEN FirstPage ELSE next)'
      BY <2>1 DEF SearchInv
    <3>1. Ready /\ ~timer BY <2>1 DEF Ready
    <3>2. /\ \A c \in Live : LiveInv(c)
          /\ next # 0 /\ tab # "spiget" => Listed(next)
          /\ Live = {} /\ ~view.error /\ ~lost => Listed(IF tab = "spiget" THEN FirstPage ELSE next)
      BY <3>1 DEF IInv, SearchInv
    <3>3. ASSUME NEW c \in Live' PROVE LiveInv(c)'
      <4>1. PICK d \in calls : c.live = d.live /\ c.url = d.url /\ c.reset = d.reset
        BY <2>2 DEF Live
      <4>2. d \in Live BY <4>1 DEF Live
      <4>3. LiveInv(d) BY <3>2, <4>2
      <4>. QED BY <2>1, <4>1, <4>3 DEF LiveInv
    <3>4. Live' = {} => Live = {}
      <4>1. ASSUME NEW d \in Live PROVE [d EXCEPT !.known = FALSE] \in Live'
        <5>1. IsCall(d) /\ d \in calls /\ d.live BY <1>1 DEF TypeOK, Live
        <5>2. [d EXCEPT !.known = FALSE].live BY <5>1 DEF IsCall
        <5>. QED BY <2>1, <5>1, <5>2 DEF Live
      <4>. QED BY <4>1
    <3>5. UNCHANGED <<view, filters, tab, mixed, next>> BY <2>1
    <3>. QED BY <3>2, <3>3, <3>4, <3>5 DEF Listed, FirstPage, Page
  <2>. QED BY <2>3, <2>4, <2>5 DEF IInv
<1>7. CASE KeyForm \/ UNCHANGED vars
  <2>1. UNCHANGED <<tab, key, filters, timer, next, view, calls, lost, mixed>>
    BY <1>7 DEF KeyForm, vars
  <2>2. Live' = Live BY <2>1 DEF Live
  <2>3. TypeOK' BY <1>1, <2>1 DEF TypeOK, IsCall
  <2>4. SearchInv' BY <2>1, <2>2 DEF IInv, SearchInv, LiveInv, Listed, Ready, FirstPage, Page
  <2>. QED BY <2>2, <2>3, <2>4 DEF IInv
<1>8. CASE Switch
  <2>1. /\ tab' \in Providers /\ filters' = Default /\ timer' = (tab' # "curseforge" \/ key)
        /\ next' = Fresh(tab') /\ view' = Blank /\ calls' = {} /\ lost' = FALSE /\ mixed' = FALSE
        /\ key' = key
    BY <1>8 DEF Switch
  <2>2. TypeOK'
    <3>1. next' \in Nat BY <1>1, <2>1 DEF Fresh
    <3>2. <<>> \in Seq(Projects) OBVIOUS
    <3>. QED BY <1>1, <2>1, <3>1, <3>2, SearchAssumption DEF TypeOK, Blank
  <2>3. SearchInv' BY <1>1, <2>1 DEF SearchInv, Ready, TypeOK
  <2>. QED BY <2>1, <2>2, <2>3 DEF IInv, Live
<1>. QED BY <1>2, <1>3, <1>4, <1>5, <1>6, <1>7, <1>8 DEF Next

\* At first a search is due.
LEMMA InitEstablishes == Init => IInv
<1> SUFFICES ASSUME Init PROVE IInv OBVIOUS
<1>1. TypeOK
  <2>1. <<>> \in Seq(Projects) OBVIOUS
  <2>. QED BY <2>1, SearchAssumption DEF Init, TypeOK, Providers, Blank
<1>2. SearchInv /\ Live = {} BY DEF Init, SearchInv, Live
<1>. QED BY <1>1, <1>2 DEF IInv

\* What the invariant says of a browser at rest.
LEMMA IInvRest == IInv => RestIsCurrent
<1> SUFFICES ASSUME IInv, Resting, Ready, ~view.error, ~lost
             PROVE  \E old \in 0..Len(view.results) :
                      LET own == SubSeq(view.results, old + 1, Len(view.results))
                      IN  /\ own = FirstOf(Len(own)) /\ Len(own) >= FirstPage
                          /\ old = 0 \/ (mixed /\ tab # "spiget")
                          /\ tab # "spiget" => view.total = Matches[filters]
  BY DEF RestIsCurrent
<1>1. TypeOK /\ Live = {} /\ ~timer BY DEF IInv, Resting, Live
<1>. DEFINE n == IF tab = "spiget" THEN FirstPage ELSE next
<1>2. Listed(n) BY <1>1 DEF IInv, SearchInv
<1>3. n \in Nat
  <2>1. [of |-> filters, from |-> 0] \in Urls BY <1>1 DEF TypeOK, Urls
  <2>. QED BY <1>1, <2>1, PageShape DEF TypeOK, FirstPage
<1>. HIDE DEF n
<1>4. PICK old \in 0..Len(view.results) :
        /\ old + n = Len(view.results)
        /\ \A i \in 1..n : view.results[old + i] = Project(filters, i)
        /\ old = 0 \/ (mixed /\ tab # "spiget")
  BY <1>2 DEF Listed
<1>. DEFINE own == SubSeq(view.results, old + 1, Len(view.results))
<1>5. view.results \in Seq(Projects) /\ Len(view.results) \in Nat BY <1>1 DEF TypeOK
<1>6. own = [i \in 1..n |-> view.results[old + i]]
  <2>1. own = [i \in 1..((Len(view.results) - (old + 1)) + 1) |-> view.results[i + ((old + 1) - 1)]]
    BY <1>4, <1>5 DEF SubSeq
  <2>2. (Len(view.results) - (old + 1)) + 1 = n BY <1>3, <1>4, <1>5
  <2>3. \A i \in 1..n : i + ((old + 1) - 1) = old + i BY <1>3, <1>4
  <2>. QED BY <2>1, <2>2, <2>3
<1>. HIDE DEF own
<1>7. own = FirstOf(n) /\ Len(own) = n BY <1>3, <1>4, <1>6 DEF FirstOf
<1>8. own = FirstOf(Len(own)) /\ Len(own) >= FirstPage BY <1>2, <1>7 DEF Listed
<1>. QED BY <1>2, <1>4, <1>8 DEF own, Listed

-----------------------------------------------------------------------------

\* The invariant holds in every state.
THEOREM SearchInvariance == Spec => []IInv
<1>1. Init => IInv BY InitEstablishes
<1>2. IInv /\ [Next]_vars => IInv' BY NextKeeps
<1>. QED BY <1>1, <1>2, PTL DEF Spec

\* Once nothing is due or in flight, the list of a browser is that of its filters, from
\* the first project on and without a gap, whatever was typed, loaded, aborted, joined
\* or switched before.
THEOREM ListIsCurrent == Spec => []RestIsCurrent
<1>1. IInv => RestIsCurrent BY IInvRest
<1>. QED BY <1>1, SearchInvariance, PTL
=============================================================================
