----------------------------- MODULE SearchPage -----------------------------
(***************************************************************************)
(* The search page of the documentation: the Search object of              *)
(* searchtools.js.  When the document is ready, init takes the query from  *)
(* the address and loadIndex asks for the index.  The index script calls   *)
(* setIndex.  The query waits for the index; its results are displayed one *)
(* after the other, each when the source text of the one before it has     *)
(* arrived and its animation has ended.                                    *)
(*                                                                         *)
(* A result is [descr, score, title]: descr says whether it has a          *)
(* description, title is the rank of its title in the alphabet.            *)
(* An answer of the server, a timer and an animation that ends are steps   *)
(* of their own.                                                           *)
(***************************************************************************)
EXTENDS Integers, Sequences, FiniteSets

LOCAL INSTANCE SequencesExt

CONSTANTS
  Results,      \* the results a query can have
  MaxResults    \* bound: the number of results of a query

VARIABLES
  HAS_SOURCE,   \* DOCUMENTATION_OPTIONS.HAS_SOURCE
  Search,       \* the Search object, and what its displayNextItem works on
  readyCalled,  \* which of the two functions that search.html makes ready call were called
  request,      \* the request of loadIndex: none, sent or over
  searchindexloader,   \* the script element: empty, loading or over
  queries       \* history: how often query was called

searchVars == <<HAS_SOURCE, Search, readyCalled, request, searchindexloader, queries>>

(* timers counts the pending timeouts of pulse; results is what is left to *)
(* display, output the list on the page; waiting is what displayNextItem   *)
(* waits for; status is the number in the status line, -1 while empty.     *)
SearchPageInit ==
  /\ HAS_SOURCE \in BOOLEAN
  /\ Search = [_index |-> FALSE, _queued_query |-> FALSE, _pulse_status |-> -1, timers |-> 0,
               results |-> <<>>, resultCount |-> 0, item |-> <<>>, waiting |-> "nothing", output |-> <<>>,
               title |-> "none", status |-> -1]
  /\ readyCalled = {}
  /\ request = "none"
  /\ searchindexloader = "empty"
  /\ queries = 0

(* The comparison function of query is not positive. *)
inOrder(r, s) == r.score < s.score \/ (r.score = s.score /\ r.title >= s.title)

(* The results a query can have, sorted. *)
Sorted ==
  {rs \in UNION {[1 .. n -> Results] : n \in 0 .. MaxResults} :
     \A i \in 1 .. Len(rs) - 1 : inOrder(rs[i], rs[i + 1])}

stopPulse(S) == [S EXCEPT !._pulse_status = 0]

pulse(S) == [S EXCEPT !._pulse_status = (@ + 1) % 4]

(* The first pulse is drawn at once and sets the timeout of the next. *)
startPulse(S) == IF S._pulse_status >= 0 THEN S ELSE [pulse(S) EXCEPT !.timers = @ + 1]

(* Variant: the end of an animation calls nothing when there is a source. *)
displayNextItemForgets(S) ==
  IF S.results # <<>>
  THEN [S EXCEPT !.results = Front(@), !.output = Append(@, Last(S.results)),
                 !.waiting = IF HAS_SOURCE THEN "nothing" ELSE "slide"]
  ELSE [stopPulse(S) EXCEPT !.waiting = "nothing", !.title = "Search Results", !.status = S.resultCount]

(* displayNextItem pops a result.  A page whose source is there is         *)
(* appended when the source has arrived, any other result at once.  With   *)
(* no result left the search is over.                                      *)
displayNextItem(S) ==
  IF S.results # <<>>
  THEN LET next == Last(S.results)
           popped == [S EXCEPT !.results = Front(@)]
       IN IF ~next.descr /\ HAS_SOURCE THEN [popped EXCEPT !.item = <<next>>, !.waiting = "source"]
          ELSE [popped EXCEPT !.item = <<>>, !.waiting = "slide", !.output = Append(@, next)]
  ELSE [stopPulse(S) EXCEPT !.waiting = "nothing", !.title = "Search Results", !.status = S.resultCount]

query(S, rs) == displayNextItem([S EXCEPT !.results = rs, !.resultCount = Len(rs)])

(* What performSearch does before it looks for the index. *)
prepareSearch(S) == startPulse([S EXCEPT !.title = "Searching"])

(* Search.init without a query in the address *)
InitWithoutQuery ==
  /\ "init" \notin readyCalled
  /\ readyCalled' = readyCalled \cup {"init"}
  /\ UNCHANGED <<HAS_SOURCE, Search, request, searchindexloader, queries>>

(* Search.init with a query, while the index is not there *)
InitDefersQuery ==
  /\ "init" \notin readyCalled /\ ~Search._index
  /\ readyCalled' = readyCalled \cup {"init"}
  /\ Search' = [prepareSearch(Search) EXCEPT !._queued_query = TRUE]
  /\ UNCHANGED <<HAS_SOURCE, request, searchindexloader, queries>>

(* Search.init with a query: "index already loaded, the browser was quick!" *)
(* The query fails on an index that lacks the title of a result: it throws *)
(* before it displays anything.                                            *)
InitRunsQuery ==
  /\ "init" \notin readyCalled /\ Search._index
  /\ readyCalled' = readyCalled \cup {"init"}
  /\ Search' = prepareSearch(Search) \/ \E rs \in Sorted : Search' = query(prepareSearch(Search), rs)
  /\ queries' = queries + 1
  /\ UNCHANGED <<HAS_SOURCE, request, searchindexloader>>

loadIndex ==
  /\ "loadIndex" \notin readyCalled
  /\ readyCalled' = readyCalled \cup {"loadIndex"}
  /\ request' = "sent"
  /\ UNCHANGED <<HAS_SOURCE, Search, searchindexloader, queries>>

(* Variant: the waiting query is not forgotten. *)
setIndexKeepsQuery(S) == [S EXCEPT !._index = TRUE]

(* setIndex, up to its call of query *)
setIndex(S) == [S EXCEPT !._index = TRUE, !._queued_query = FALSE]

(* The index script runs and calls setIndex, which runs the waiting query. *)
RunIndexScript ==
  IF Search._queued_query
  THEN (\E rs \in Sorted : Search' = query(setIndex(Search), rs)) /\ queries' = queries + 1
  ELSE Search' = setIndex(Search) /\ UNCHANGED queries

(* The query fails on an index that lacks the title of a result: setIndex  *)
(* throws after the index is set and the query taken.                      *)
IndexScriptThrows ==
  /\ Search._queued_query
  /\ Search' = setIndex(Search)
  /\ queries' = queries + 1

IndexLoaded ==
  /\ request = "sent"
  /\ request' = "over"
  /\ RunIndexScript
  /\ UNCHANGED <<HAS_SOURCE, readyCalled, searchindexloader>>

(* The request failed, or evaluating its text did: complete is called with *)
(* a status that is not success, and the script element gets the address.  *)
IndexFailed ==
  /\ request = "sent"
  /\ request' = "over"
  /\ searchindexloader' = "loading"
  /\ IndexScriptThrows \/ UNCHANGED <<Search, queries>>
  /\ UNCHANGED <<HAS_SOURCE, readyCalled>>

(* The script element has loaded the index, or could not. *)
LoaderRuns ==
  /\ searchindexloader = "loading"
  /\ searchindexloader' = "over"
  /\ RunIndexScript \/ IndexScriptThrows
  /\ UNCHANGED <<HAS_SOURCE, readyCalled, request>>

LoaderFails ==
  /\ searchindexloader = "loading"
  /\ searchindexloader' = "over"
  /\ UNCHANGED <<HAS_SOURCE, Search, readyCalled, request, queries>>

(* The answer for the source of a page, with or without text: the page is  *)
(* appended and slides down.                                               *)
SourceArrives ==
  /\ Search.waiting = "source"
  /\ Search' = [Search EXCEPT !.output = @ \o Search.item, !.item = <<>>, !.waiting = "slide"]
  /\ UNCHANGED <<HAS_SOURCE, readyCalled, request, searchindexloader, queries>>

SlideEnds ==
  /\ Search.waiting = "slide"
  /\ Search' = displayNextItem(Search)
  /\ UNCHANGED <<HAS_SOURCE, readyCalled, request, searchindexloader, queries>>

(* A timeout of pulse, which sets the next. *)
Pulse ==
  /\ Search.timers > 0
  /\ LET drawn == pulse(Search)
     IN Search' = [drawn EXCEPT !.timers = IF drawn._pulse_status > -1 THEN @ ELSE @ - 1]
  /\ UNCHANGED <<HAS_SOURCE, readyCalled, request, searchindexloader, queries>>

SearchPageNext ==
  \/ InitWithoutQuery \/ InitDefersQuery \/ InitRunsQuery \/ loadIndex
  \/ IndexLoaded \/ IndexFailed \/ LoaderRuns \/ LoaderFails
  \/ SourceArrives \/ SlideEnds \/ Pulse

(* The ready functions are called one after the other, requests are        *)
(* answered and animations end.                                            *)
SearchPageFairness ==
  /\ WF_searchVars(readyCalled # {} /\ loadIndex)
  /\ WF_searchVars(IndexLoaded \/ IndexFailed)
  /\ WF_searchVars(LoaderRuns \/ LoaderFails)
  /\ WF_searchVars(SourceArrives)
  /\ WF_searchVars(SlideEnds)

SearchPageSpec == SearchPageInit /\ [][SearchPageNext]_searchVars /\ SearchPageFairness

(***************************************************************************)
(* Properties                                                              *)
(***************************************************************************)

(* Every state of the page is of its type. *)
SearchPageTypeOK ==
  /\ HAS_SOURCE \in BOOLEAN
  /\ Search.results \in Seq(Results) /\ Search.output \in Seq(Results) /\ Search.item \in Seq(Results)
  /\ Search._pulse_status \in -1 .. 3
  /\ Search.waiting \in {"nothing", "source", "slide"}
  /\ readyCalled \subseteq {"init", "loadIndex"}

(* A query is run once, however often the index script runs (a second time *)
(* when the first run threw), and it waits exactly until the index is set. *)
QueryRunsOnce ==
  /\ queries <= 1
  /\ Search._queued_query => ~Search._index /\ queries = 0
  /\ Search.title # "none" => Search._queued_query \/ queries = 1

(* The list shows the results from the best down, an earlier title first   *)
(* among equal scores: whatever is still to come ranks no higher.          *)
BestFirst ==
  LET order == Search.output \o Search.item \o Reverse(Search.results)
      rank(i, j) == \/ order[i].score > order[j].score
                    \/ order[i].score = order[j].score /\ order[i].title <= order[j].title
  IN \A i, j \in DOMAIN order : i < j => rank(i, j)

(* No result is lost or shown twice while requests and animations follow   *)
(* one another, and the number in the status line is that of the list.     *)
NothingLost ==
  /\ Len(Search.output) + Len(Search.item) + Len(Search.results) = Search.resultCount
  /\ Search.status # -1 => Search.status = Len(Search.output) /\ Search.title = "Search Results"

(* One timeout of pulse is pending from the start of a search on, and it   *)
(* stays: stopPulse sets the status to 0, from which the next pulse counts *)
(* on, so the dots are drawn for as long as the page is open.              *)
OnePulseForever ==
  [][Search.title # "none" => Search'.timers = 1 /\ Search'._pulse_status >= 0]_searchVars

(* A search is not left waiting: its title becomes Search Results, unless  *)
(* no index could be loaded or the query failed on it.                     *)
SearchFinishes ==
  Search.title = "Searching" ~>
    \/ Search.title = "Search Results"
    \/ Search.waiting = "nothing" /\ Search.output = <<>> /\ (searchindexloader = "over" \/ queries = 1)

(* A query runs once, whenever the index comes, and its results are shown  *)
(* from the best down, none of them lost; one timer draws the dots.        *)
ResultsInOrder ==
  /\ [](SearchPageTypeOK /\ QueryRunsOnce /\ BestFirst /\ NothingLost)
  /\ OnePulseForever
=============================================================================
