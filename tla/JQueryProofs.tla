---------------------------- MODULE JQueryProofs ----------------------------
(***************************************************************************)
(* Proofs about Ready and DataCache.  For any number of holds and          *)
(* releases: readyWait counts them, the callbacks wait for them, and they  *)
(* do not run before the document is parsed.  For any finite number of     *)
(* elements: each reads its own data only, although numbers are used       *)
(* again.                                                                  *)
(***************************************************************************)
EXTENDS Ready, DataCache, FiniteSetTheorems, TLAPS

(* The prover of the leaves that name none. *)
USE Zenon

(***************************************************************************)
(* Ready                                                                   *)
(***************************************************************************)


Parsed == dom.readyState # "loading" \/ dom.scrolls

(***************************************************************************)
(* The inductive invariant.  WaitCounts is inductive with the types.  For  *)
(* NotBeforeParsed all that can call jQuery.ready has to be tied to the    *)
(* document: no event comes and no timer is set before it is parsed, and   *)
(* holdReady(false) gets past the counter only when the page was ready.    *)
(***************************************************************************)
SignsOfParsed ==
  /\ dom.events # {} => Parsed
  /\ balanced =>
       /\ timers > 0 => Parsed
       /\ isReady => dom.body /\ Parsed
       /\ readyList = "resolved" => isReady

ReadyInv == ReadyTypeOK /\ WaitCounts /\ SignsOfParsed

(* What jQuery.ready may be called with: holdReady(false) has counted held *)
(* down before it calls, and is not balanced when nothing was held.        *)
Called(wait, due) ==
  /\ wait \in BOOLEAN /\ due \in Nat
  /\ held' = (IF wait THEN held - 1 ELSE held)
  /\ balanced' => balanced /\ (wait => held > 0)
  /\ dom'.body = dom.body /\ (Parsed <=> Parsed')
  /\ balanced /\ ~wait => Parsed
  /\ balanced /\ due > 0 => Parsed

------------------------------------------------------------------------------
(* holdReady(false) gets past the counter only when the page was ready.    *)
LEMMA ReleaseNeedsReady ==
  ASSUME ReadyInv, NEW due, Called(TRUE, due), balanced', ~aborts(TRUE)
  PROVE  isReady /\ held' = 0
<1>1. readyWait \in Int /\ held \in Int
  BY DEF ReadyInv, ReadyTypeOK
<1>2. readyWait = held + (IF isReady THEN 0 ELSE 1) /\ held > 0
  BY DEF Called, ReadyInv, WaitCounts
<1>3. readyWait - 1 = 0 /\ held' = held - 1
  BY DEF Called, aborts, counted
<1> QED
  BY <1>1, <1>2, <1>3, SMT

(* A call of jQuery.ready keeps the counter right. *)
LEMMA ReadyCounts ==
  ASSUME ReadyInv, NEW wait, NEW due, Called(wait, due), ready(wait, due)
  PROVE  WaitCounts'
<1>1. readyWait \in Int /\ held \in Int
  BY DEF ReadyInv, ReadyTypeOK
<1>2. SUFFICES ASSUME balanced'
               PROVE  readyWait' = held' + (IF isReady' THEN 0 ELSE 1) /\ held' >= 0
  BY DEF WaitCounts
<1>3. readyWait = held + (IF isReady THEN 0 ELSE 1) /\ held >= 0 /\ (wait => held > 0) /\ wait \in BOOLEAN
  BY <1>2 DEF Called, ReadyInv, WaitCounts
<1>4. CASE wait = TRUE
  <2>1. readyWait' = readyWait - 1 /\ held' = held - 1
    BY <1>4 DEF Called, ready, counted, left
  <2>2. isReady' = isReady
    <3>1. CASE aborts(TRUE)
      BY <1>4, <3>1 DEF ready
    <3>2. CASE ~aborts(TRUE)
      <4>1. isReady = TRUE
        BY <1>2, <1>4, <3>2, ReleaseNeedsReady DEF ReadyInv, ReadyTypeOK
      <4> QED
        BY <4>1 DEF ready
    <3> QED
      BY <3>1, <3>2
  <2> QED
    BY <1>1, <1>3, <1>4, <2>1, <2>2, SMT
<1>5. CASE wait = FALSE
  BY <1>1, <1>3, <1>5, SMT DEF Called, ready, counted, left, aborts
<1> QED
  BY <1>3, <1>4, <1>5

(* A call of jQuery.ready keeps the signs. *)
LEMMA ReadyAfterParsed ==
  ASSUME ReadyInv, NEW wait, NEW due, Called(wait, due), ready(wait, due)
  PROVE  balanced' =>
           /\ timers' > 0 => Parsed'
           /\ isReady' => dom'.body /\ Parsed'
           /\ readyList' = "resolved" => isReady'
<1>1. SUFFICES ASSUME balanced'
               PROVE  /\ timers' > 0 => Parsed'
                      /\ isReady' => dom'.body /\ Parsed'
                      /\ readyList' = "resolved" => isReady'
  OBVIOUS
<1>2. /\ balanced /\ wait \in BOOLEAN /\ dom'.body = dom.body /\ (Parsed <=> Parsed')
      /\ ~wait => Parsed
      /\ due > 0 => Parsed
      /\ isReady => dom.body /\ Parsed
      /\ readyList = "resolved" => isReady
  BY <1>1 DEF Called, ReadyInv, SignsOfParsed
<1>3. wait /\ ~aborts(wait) => isReady
  BY <1>1, <1>2, ReleaseNeedsReady
<1>4. CASE aborts(wait)
  BY <1>2, <1>4, SMT DEF ready
<1>5. CASE ~aborts(wait) /\ ~bodyExists
  BY <1>2, <1>3, <1>5, SMT DEF ready
<1>6. CASE ~aborts(wait) /\ bodyExists
  BY <1>2, <1>3, <1>6 DEF ready, bodyExists
<1> QED
  BY <1>4, <1>5, <1>6

(* The callbacks start when nothing is held. *)
LEMMA ReadyWaits ==
  ASSUME ReadyInv, NEW wait, NEW due, Called(wait, due), ready(wait, due),
         balanced', readyList # "resolved", readyList' = "resolved"
  PROVE  held' = 0
<1>1. readyWait \in Int /\ held \in Int
  BY DEF ReadyInv, ReadyTypeOK
<1>2. ~aborts(wait) /\ runs(wait) /\ wait \in BOOLEAN
  BY DEF ready, Called
<1>3. CASE wait = TRUE
  BY <1>2, <1>3, ReleaseNeedsReady
<1>4. CASE wait = FALSE
  <2>1. held' = held /\ held >= 0 /\ readyWait = held + 1
    BY <1>2, <1>4 DEF Called, ReadyInv, WaitCounts, aborts
  <2>2. readyWait - 1 <= 0
    BY <1>2, <1>4 DEF runs, left, counted
  <2> QED
    BY <1>1, <2>1, <2>2, SMT
<1> QED
  BY <1>2, <1>3, <1>4

(* The types that jQuery.ready changes. *)
LEMMA ReadyTypes ==
  ASSUME ReadyTypeOK, NEW wait \in BOOLEAN, NEW due \in Nat, ready(wait, due)
  PROVE  /\ isReady' \in BOOLEAN
         /\ readyWait' \in Int /\ timers' \in Nat
         /\ readyList' \in {"none", "pending", "resolved"}
<1>1. isReady' = isReady \/ isReady' = TRUE
  BY DEF ready
<1>2. isReady' \in BOOLEAN
  BY <1>1 DEF ReadyTypeOK
<1>3. readyWait' \in Int /\ timers' \in Nat
  BY SMT DEF ready, ReadyTypeOK, counted, left, again
<1>4. readyList' \in {"none", "pending", "resolved"}
  BY DEF ready, ReadyTypeOK
<1> QED
  BY <1>2, <1>3, <1>4

------------------------------------------------------------------------------
(* The initial state satisfies the invariant. *)
LEMMA InitReadyInv ==
  ASSUME ReadyInit
  PROVE  ReadyInv
<1> DEFINE Dom == [api : {"addEventListener", "attachEvent"}, frame : BOOLEAN, body : BOOLEAN, scrolls : BOOLEAN,
                   readyState : {"loading", "interactive", "complete"},
                   events : SUBSET {"DOMContentLoaded", "readystatechange", "load"}]
<1>1. isReady \in BOOLEAN /\ scrollTimer \in BOOLEAN /\ balanced \in BOOLEAN
  BY Zenon DEF ReadyInit
<1>2. dom \in Dom
  <2>1. PICK api \in {"addEventListener", "attachEvent"}, frame \in BOOLEAN :
          dom = [api |-> api, frame |-> frame, readyState |-> "loading", body |-> FALSE, events |-> {}, scrolls |-> FALSE]
    BY Zenon DEF ReadyInit
  <2>2. {} \in SUBSET {"DOMContentLoaded", "readystatechange", "load"} /\ FALSE \in BOOLEAN
    BY Zenon
  <2> QED
    BY <2>1, <2>2
<1>3. ReadyTypeOK
  BY <1>1, <1>2, SMT DEF ReadyInit, ReadyTypeOK
<1>4. WaitCounts
  BY SMT DEF ReadyInit, WaitCounts
<1>5. SignsOfParsed
  BY SMT DEF ReadyInit, SignsOfParsed
<1> QED
  BY <1>3, <1>4, <1>5 DEF ReadyInv

(* holdReady(true) counts up on both sides. *)
LEMMA HoldKeeps ==
  ASSUME ReadyInv, Hold
  PROVE  ReadyInv'
<1>1. ReadyTypeOK'
  BY SMT DEF ReadyInv, Hold, ReadyTypeOK
<1>2. WaitCounts'
  BY SMT DEF ReadyInv, Hold, ReadyTypeOK, WaitCounts
<1>3. SignsOfParsed'
  BY DEF ReadyInv, Hold, SignsOfParsed, Parsed
<1> QED
  BY <1>1, <1>2, <1>3 DEF ReadyInv

(* Every step that calls jQuery.ready keeps the invariant.                 *)
LEMMA CallKeeps ==
  ASSUME ReadyInv, NEW wait, NEW due, Called(wait, due), ready(wait, due),
         ReadyTypeOK', dom'.events # {} => Parsed'
  PROVE  ReadyInv'
<1>1. WaitCounts'
  BY ReadyCounts
<1>2. SignsOfParsed'
  BY ReadyAfterParsed DEF SignsOfParsed
<1> QED
  BY <1>1, <1>2 DEF ReadyInv

(* holdReady(false) *)
LEMMA ReleaseCalls ==
  ASSUME ReadyInv, Release
  PROVE  Called(TRUE, timers) /\ ready(TRUE, timers) /\ ReadyTypeOK' /\ (dom'.events # {} => Parsed')
<1>1. balanced' = (balanced /\ held > 0) /\ held' = held - 1 /\ dom' = dom /\ ready(TRUE, timers)
  BY DEF Release
<1>2. timers \in Nat
  BY DEF ReadyInv, ReadyTypeOK
<1>3. Called(TRUE, timers)
  BY <1>1, <1>2 DEF Called, ReadyInv, SignsOfParsed, Parsed
<1>4. balanced' \in BOOLEAN
  BY <1>1
<1>5. held' \in Int /\ counts' \in [hold : Nat, release : Nat]
  BY <1>1, SMT DEF Release, ReadyInv, ReadyTypeOK
<1>6. ReadyTypeOK'
  BY <1>1, <1>2, <1>4, <1>5, ReadyTypes DEF Release, ReadyInv, ReadyTypeOK
<1> QED
  BY <1>1, <1>3, <1>6 DEF ReadyInv, SignsOfParsed, Parsed

(* The readyList is created; a timer is set when the document is complete. *)
LEMMA PromiseKeeps ==
  ASSUME ReadyInv, promise
  PROVE  ReadyInv'
<1>1. scrollTimer' \in BOOLEAN
  BY DEF promise, ReadyInv, ReadyTypeOK
<1>2. listening' \subseteq {"DOMContentLoaded", "readystatechange", "load"}
  <2>1. \/ listening' = listening
        \/ listening' = {"DOMContentLoaded", "load"}
        \/ listening' = {"readystatechange", "load"}
    BY DEF promise
  <2> QED
    BY <2>1 DEF ReadyInv, ReadyTypeOK
<1>3. timers' \in Nat /\ readyList' = "pending"
  BY SMT DEF promise, ReadyInv, ReadyTypeOK
<1>4. UNCHANGED <<isReady, readyWait, dom, held, counts, balanced>>
  BY DEF promise
<1>5. ReadyTypeOK'
  BY <1>1, <1>2, <1>4, <1>3 DEF ReadyInv, ReadyTypeOK
<1>6. WaitCounts'
  BY DEF ReadyInv, promise, WaitCounts
<1>7. SignsOfParsed'
  BY DEF ReadyInv, promise, ReadyTypeOK, SignsOfParsed, Parsed
<1> QED
  BY <1>5, <1>6, <1>7 DEF ReadyInv

(* A timer comes, which was set after the document was parsed.             *)
LEMMA TimerCalls ==
  ASSUME ReadyInv, Timer
  PROVE  Called(FALSE, timers - 1) /\ ready(FALSE, timers - 1) /\ ReadyTypeOK' /\ (dom'.events # {} => Parsed')
<1>1. timers - 1 \in Nat /\ timers > 0
  BY SMT DEF Timer, ReadyInv, ReadyTypeOK
<1>2. ready(FALSE, timers - 1) /\ UNCHANGED <<listening, scrollTimer, dom, held, counts, balanced>>
  BY DEF Timer
<1>3. Called(FALSE, timers - 1)
  BY <1>1, <1>2 DEF Called, ReadyInv, SignsOfParsed, Parsed
<1>4. ReadyTypeOK'
  BY <1>1, <1>2, ReadyTypes DEF ReadyInv, ReadyTypeOK
<1> QED
  BY <1>2, <1>3, <1>4 DEF ReadyInv, SignsOfParsed, Parsed

(* doScroll worked, which is a sign that the document is parsed.           *)
LEMMA ScrollKeeps ==
  ASSUME ReadyInv, doScrollCheck
  PROVE  /\ ReadyInv'
         /\ ~isReady => Called(FALSE, timers) /\ ready(FALSE, timers)
         /\ isReady => UNCHANGED readyList
<1>1. scrollTimer' = FALSE /\ UNCHANGED <<dom, held, counts, balanced>> /\ timers \in Nat
  BY DEF doScrollCheck, ReadyInv, ReadyTypeOK
<1>2. CASE isReady
  <2>1. UNCHANGED <<isReady, readyWait, readyList, listening, timers>>
    BY <1>2 DEF doScrollCheck
  <2>2. ReadyTypeOK'
    BY <1>1, <2>1 DEF ReadyInv, ReadyTypeOK
  <2> QED
    BY <1>1, <1>2, <2>1, <2>2 DEF ReadyInv, WaitCounts, SignsOfParsed, Parsed
<1>3. CASE ~isReady
  <2>1. dom.scrolls /\ listening' = {} /\ ready(FALSE, timers)
    BY <1>3 DEF doScrollCheck
  <2>2. Called(FALSE, timers)
    BY <1>1, <2>1 DEF Called, Parsed
  <2>3. ReadyTypeOK'
    BY <1>1, <2>1, ReadyTypes DEF ReadyInv, ReadyTypeOK
  <2>4. dom'.events # {} => Parsed'
    BY <1>1, <2>1 DEF Parsed
  <2>5. ReadyInv'
    BY <2>1, <2>2, <2>3, <2>4, CallKeeps
  <2> QED
    BY <1>3, <2>1, <2>2, <2>5
<1> QED
  BY <1>2, <1>3

(* An event of the document, which comes after it is parsed; it is heard   *)
(* or not.                                                                 *)
LEMMA EventKeeps ==
  ASSUME ReadyInv, Event
  PROVE  /\ ReadyInv'
         /\ (Called(FALSE, timers) /\ ready(FALSE, timers)) \/ UNCHANGED readyList
<1>1. PICK event \in dom.events :
        /\ dom' = [dom EXCEPT !.events = @ \ {event}]
        /\ \/ completed(event)
           \/ event \notin listening /\ UNCHANGED <<isReady, readyWait, readyList, listening, timers>>
        /\ UNCHANGED <<scrollTimer, held, counts, balanced>>
  BY DEF Event
<1>2. Parsed
  BY DEF ReadyInv, SignsOfParsed
<1>3. /\ dom'.body = dom.body /\ dom'.readyState = dom.readyState /\ dom'.scrolls = dom.scrolls
      /\ dom' \in [api : {"addEventListener", "attachEvent"}, frame : BOOLEAN, body : BOOLEAN, scrolls : BOOLEAN,
                   readyState : {"loading", "interactive", "complete"},
                   events : SUBSET {"DOMContentLoaded", "readystatechange", "load"}]
  BY <1>1 DEF ReadyInv, ReadyTypeOK
<1>4. Parsed'
  BY <1>2, <1>3 DEF Parsed
<1>5. CASE UNCHANGED <<isReady, readyWait, readyList, listening, timers>>
  <2>1. ReadyTypeOK'
    BY <1>1, <1>3, <1>5 DEF ReadyInv, ReadyTypeOK
  <2>2. WaitCounts'
    BY <1>1, <1>5 DEF ReadyInv, WaitCounts
  <2>3. SignsOfParsed'
    BY <1>1, <1>3, <1>4, <1>5 DEF ReadyInv, SignsOfParsed
  <2> QED
    BY <1>5, <2>1, <2>2, <2>3 DEF ReadyInv
<1>6. CASE listening' = {} /\ ready(FALSE, timers)
  <2>1. timers \in Nat
    BY DEF ReadyInv, ReadyTypeOK
  <2>2. Called(FALSE, timers)
    BY <1>1, <1>2, <1>3, <1>4, <2>1 DEF Called
  <2>3. ReadyTypeOK'
    BY <1>1, <1>3, <1>6, <2>1, ReadyTypes DEF ReadyInv, ReadyTypeOK
  <2>4. ReadyInv'
    BY <1>4, <1>6, <2>2, <2>3, CallKeeps
  <2> QED
    BY <1>6, <2>2, <2>4
<1> QED
  BY <1>1, <1>5, <1>6 DEF completed

(* The browser: the body and the readyState only advance, and the events   *)
(* follow the readyState.                                                  *)
LEMMA BrowserKeeps ==
  ASSUME ReadyInv, Browser
  PROVE  ReadyInv'
<1> DEFINE Dom == [api : {"addEventListener", "attachEvent"}, frame : BOOLEAN, body : BOOLEAN, scrolls : BOOLEAN,
                   readyState : {"loading", "interactive", "complete"},
                   events : SUBSET {"DOMContentLoaded", "readystatechange", "load"}]
<1>1. dom \in Dom
  BY DEF ReadyInv, ReadyTypeOK
<1>2. /\ dom' \in Dom
      /\ dom.body => dom'.body
      /\ Parsed => Parsed'
      /\ dom'.events = dom.events \/ Parsed'
  <2>1. CASE ~dom.body /\ dom' = [dom EXCEPT !.body = TRUE]
    BY <1>1, <2>1 DEF Parsed
  <2>2. CASE ~dom.scrolls /\ dom' = [dom EXCEPT !.scrolls = TRUE]
    BY <1>1, <2>2 DEF Parsed
  <2>3. CASE dom' = [dom EXCEPT !.readyState = "interactive",
                       !.events = @ \cup {IF dom.api = "attachEvent" THEN "readystatechange" ELSE "DOMContentLoaded"}]
    BY <1>1, <2>3 DEF Parsed
  <2>4. CASE dom' = [dom EXCEPT !.readyState = "complete",
                       !.events = IF dom.api = "attachEvent" THEN {"readystatechange", "load"} ELSE {"load"}]
    BY <1>1, <2>4 DEF Parsed
  <2> QED
    BY <2>1, <2>2, <2>3, <2>4 DEF Browser
<1>3. UNCHANGED <<isReady, readyWait, readyList, listening, timers, scrollTimer, held, counts, balanced>>
  BY DEF Browser
<1>4. ReadyTypeOK'
  BY <1>2, <1>3 DEF ReadyInv, ReadyTypeOK
<1>5. WaitCounts'
  BY <1>3 DEF ReadyInv, WaitCounts
<1>6. SignsOfParsed'
  BY <1>2, <1>3 DEF ReadyInv, SignsOfParsed
<1> QED
  BY <1>4, <1>5, <1>6 DEF ReadyInv

(* Every step keeps the invariant, and starts the callbacks only when      *)
(* nothing is held.                                                        *)
LEMMA NextKeeps ==
  ASSUME ReadyInv, [ReadyNext]_readyVars
  PROVE  /\ ReadyInv'
         /\ balanced' /\ readyList # "resolved" /\ readyList' = "resolved" => held' = 0
<1>1. CASE UNCHANGED readyVars
  BY <1>1 DEF readyVars, ReadyInv, ReadyTypeOK, WaitCounts, SignsOfParsed, Parsed
<1>2. CASE Hold
  BY <1>2, HoldKeeps DEF Hold
<1>3. CASE Release
  BY <1>3, ReleaseCalls, CallKeeps, ReadyWaits
<1>4. CASE promise
  BY <1>4, PromiseKeeps DEF promise
<1>5. CASE Event
  BY <1>5, EventKeeps, ReadyWaits
<1>6. CASE Timer
  BY <1>6, TimerCalls, CallKeeps, ReadyWaits
<1>7. CASE doScrollCheck
  BY <1>7, ScrollKeeps, ReadyWaits
<1>8. CASE Browser
  BY <1>8, BrowserKeeps DEF Browser
<1> QED
  BY <1>1, <1>2, <1>3, <1>4, <1>5, <1>6, <1>7, <1>8 DEF ReadyNext

(* The invariant holds in every state. *)
LEMMA ReadyInvariant == ReadySpec => []ReadyInv
<1>1. ReadyInit => ReadyInv
  BY InitReadyInv
<1>2. ReadyInv /\ [ReadyNext]_readyVars => ReadyInv'
  BY NextKeeps
<1> QED
  BY <1>1, <1>2, PTL DEF ReadySpec

(* The types of jQuery.ready's counter, list, timers and document. *)
THEOREM ReadyTypesHold == ReadySpec => []ReadyTypeOK
<1>1. ReadyInv => ReadyTypeOK
  BY DEF ReadyInv
<1> QED
  BY <1>1, ReadyInvariant, PTL

(* readyWait counts the holds of any number of balanced calls of holdReady *)
(* and the document that is not ready.                                     *)
THEOREM HoldsCounted == ReadySpec => []WaitCounts
<1>1. ReadyInv => WaitCounts
  BY DEF ReadyInv
<1> QED
  BY <1>1, ReadyInvariant, PTL

(* The callbacks of ready do not run before the document is parsed.        *)
THEOREM RunsAfterParsed == ReadySpec => []NotBeforeParsed
<1>1. ReadyInv => NotBeforeParsed
  BY DEF ReadyInv, SignsOfParsed, Parsed, NotBeforeParsed
<1> QED
  BY <1>1, ReadyInvariant, PTL

(* The callbacks of ready do not start while somebody holds them back.     *)
THEOREM HoldsRespected == ReadySpec => HeldBack
<1> DEFINE Waits == balanced' /\ readyList # "resolved" /\ readyList' = "resolved" => held' = 0
<1>1. ReadyInv /\ [ReadyNext]_readyVars => [Waits]_readyVars
  BY NextKeeps
<1> QED
  BY <1>1, ReadyInvariant, PTL DEF ReadySpec, HeldBack

(* The callbacks of ready run in time, with any number of holds and in     *)
(* every kind of browser: all that ReadyInTime says.                       *)
THEOREM RunsInTime == ReadySpec => ReadyInTime
BY ReadyTypesHold, HoldsCounted, RunsAfterParsed, HoldsRespected, PTL DEF ReadyInTime

(***************************************************************************)
(* DataCache                                                               *)
(***************************************************************************)


KeptValues == Values \cup {fromText(text) : text \in Texts} \cup {Undefined}

Entries == [pvt : SUBSET {"events", "parsedAttrs"}, hasData : BOOLEAN, data : [Names -> KeptValues]]

(* The numbers that elements carry. *)
Used(s) == {s.expando[e] : e \in Nodes} \ {0}

Free(s) == Range(s.deletedIds)

(***************************************************************************)
(* What holds of the store between calls.  An element has a number exactly *)
(* when it has an entry, and the numbers that elements have or had are all *)
(* below guid.  A new one is made only when all of these are in use, by    *)
(* other elements than the one that asks.                                  *)
(***************************************************************************)
StoreTypeOK(s) ==
  /\ s = [expando |-> s.expando, cache |-> s.cache, deletedIds |-> s.deletedIds, guid |-> s.guid]
  /\ s.expando \in [Nodes -> Nat]
  /\ s.cache \in [Used(s) -> Entries]
  /\ s.deletedIds \in Seq(Nat)
  /\ s.guid \in Nat /\ s.guid >= 1

NumbersOK(s) ==
  /\ \A e, f \in Nodes : s.expando[e] # 0 /\ s.expando[e] = s.expando[f] => e = f
  /\ IsInjective(s.deletedIds)
  /\ Free(s) \cap Used(s) = {}
  /\ Free(s) \cup Used(s) \subseteq 1 .. s.guid - 1
  /\ Cardinality(Free(s) \cup Used(s)) <= Cardinality(Nodes)

StoreOK(s) == StoreTypeOK(s) /\ NumbersOK(s)

(* What an element's entry holds; one without an entry has nothing. *)
View(s, e) == IF HasEntry(s, e) THEN EntryOf(s, e) ELSE NewEntry

(* The other elements see what they saw before. *)
OthersSame(s, new, e) ==
  \A f \in Nodes : f # e => (HasEntry(new, f) <=> HasEntry(s, f)) /\ View(new, f) = View(s, f)

LEMMA EntryFacts ==
  ASSUME NEW s, StoreOK(s), NEW e \in Nodes
  PROVE  /\ HasEntry(s, e) <=> s.expando[e] # 0
         /\ View(s, e) \in Entries
<1>1. DOMAIN s.cache = Used(s) /\ s.expando \in [Nodes -> Nat] /\ s.cache \in [Used(s) -> Entries]
  BY DEF StoreOK, StoreTypeOK
<1>2. HasEntry(s, e) <=> s.expando[e] # 0
  BY <1>1 DEF HasEntry, Used
<1>3. NewEntry \in Entries
  BY DEF NewEntry, Entries, NoData, KeptValues
<1>4. HasEntry(s, e) => EntryOf(s, e) \in Entries
  BY <1>1 DEF HasEntry, EntryOf
<1> QED
  BY <1>2, <1>3, <1>4 DEF View

(* The store after element e got number id: the numbers to be used again   *)
(* are then ids and the next new one is n.                                 *)
Numbered(s, e, id, ids, n) ==
  [expando |-> [s.expando EXCEPT ![e] = id],
   cache |-> [i \in DOMAIN s.cache \cup {id} |-> IF i = id THEN NewEntry ELSE s.cache[i]],
   deletedIds |-> ids, guid |-> n]

LEMMA NumberedTypes ==
  ASSUME NEW s, StoreOK(s), NEW e \in Nodes, s.expando[e] = 0,
         NEW id \in Nat, id # 0, id \notin Used(s), NEW ids \in Seq(Nat), NEW n \in Nat, n >= 1
  PROVE  LET new == Numbered(s, e, id, ids, n)
         IN /\ StoreTypeOK(new) /\ Used(new) = Used(s) \cup {id}
            /\ \A d, f \in Nodes : new.expando[d] # 0 /\ new.expando[d] = new.expando[f] => d = f
            /\ HasEntry(new, e) /\ EntryOf(new, e) = NewEntry /\ OthersSame(s, new, e)
<1> DEFINE new == Numbered(s, e, id, ids, n)
<1>1. /\ new.expando = [s.expando EXCEPT ![e] = id] /\ new.deletedIds = ids /\ new.guid = n
      /\ new.cache = [i \in DOMAIN s.cache \cup {id} |-> IF i = id THEN NewEntry ELSE s.cache[i]]
      /\ new = [expando |-> new.expando, cache |-> new.cache, deletedIds |-> new.deletedIds, guid |-> new.guid]
  BY DEF Numbered
<1> HIDE DEF new
<1>2. /\ s.expando \in [Nodes -> Nat] /\ s.cache \in [Used(s) -> Entries] /\ DOMAIN s.cache = Used(s)
      /\ \A d, f \in Nodes : s.expando[d] # 0 /\ s.expando[d] = s.expando[f] => d = f
  BY DEF StoreOK, StoreTypeOK, NumbersOK
<1>3. new.expando \in [Nodes -> Nat] /\ new.expando[e] = id /\ \A f \in Nodes : f # e => new.expando[f] = s.expando[f]
  BY <1>1, <1>2
<1>4. Used(new) = Used(s) \cup {id}
  BY <1>3 DEF Used
<1>5. NewEntry \in Entries
  BY DEF NewEntry, Entries, NoData, KeptValues
<1>6. new.cache \in [Used(new) -> Entries] /\ DOMAIN new.cache = Used(new)
      /\ new.cache[id] = NewEntry /\ \A i \in Used(s) : new.cache[i] = s.cache[i]
  <2>1. \A i \in Used(s) : s.cache[i] \in Entries /\ i # id
    BY <1>2
  <2>2. new.cache = [i \in Used(new) |-> IF i = id THEN NewEntry ELSE s.cache[i]]
    BY <1>1, <1>2, <1>4
  <2> QED
    BY <2>1, <2>2, <1>4, <1>5
<1>7. StoreTypeOK(new)
  BY <1>1, <1>3, <1>6 DEF StoreTypeOK
<1>8. \A d, f \in Nodes : new.expando[d] # 0 /\ new.expando[d] = new.expando[f] => d = f
  <2> SUFFICES ASSUME NEW d \in Nodes, NEW f \in Nodes, new.expando[d] # 0, new.expando[d] = new.expando[f]
               PROVE  d = f
    OBVIOUS
  <2>1. \A c \in Nodes : s.expando[c] # id
    BY DEF Used
  <2> QED
    BY <1>2, <1>3, <2>1
<1>9. HasEntry(new, e) /\ EntryOf(new, e) = NewEntry
  BY <1>3, <1>4, <1>6 DEF HasEntry, EntryOf
<1>10. OthersSame(s, new, e)
  <2> SUFFICES ASSUME NEW f \in Nodes, f # e
               PROVE  (HasEntry(new, f) <=> HasEntry(s, f)) /\ View(new, f) = View(s, f)
    BY DEF OthersSame
  <2>1. new.expando[f] = s.expando[f] /\ s.expando[f] # id
    BY <1>3, <1>2 DEF Used
  <2>2. HasEntry(new, f) <=> HasEntry(s, f)
    BY <2>1, <1>2, <1>4, <1>6 DEF HasEntry
  <2>3. HasEntry(s, f) => EntryOf(new, f) = EntryOf(s, f)
    BY <2>1, <1>2, <1>6 DEF HasEntry, EntryOf
  <2> QED
    BY <2>2, <2>3 DEF View
<1> QED
  BY <1>4, <1>7, <1>8, <1>9, <1>10 DEF new

(* The last of a sequence without repetitions, and the others. *)
LEMMA LastOfDistinct ==
  ASSUME NEW ids \in Seq(Nat), IsInjective(ids), ids # <<>>
  PROVE  /\ Popped(ids) \in Nat /\ AfterPop(ids) \in Seq(Nat) /\ IsInjective(AfterPop(ids))
         /\ Popped(ids) \in Range(ids) /\ Range(AfterPop(ids)) = Range(ids) \ {Popped(ids)}
<1>1. Len(ids) \in Nat /\ Len(ids) >= 1 /\ DOMAIN ids = 1 .. Len(ids) /\ Popped(ids) = ids[Len(ids)]
  BY SMT DEF Popped
<1>2. /\ AfterPop(ids) \in Seq(Nat) /\ DOMAIN AfterPop(ids) = 1 .. Len(ids) - 1
      /\ \A i \in 1 .. Len(ids) - 1 : AfterPop(ids)[i] = ids[i]
  BY <1>1, SMT DEF AfterPop
<1>3. Popped(ids) \in Nat /\ Popped(ids) \in Range(ids)
  BY <1>1, SMT DEF Range
<1>4. \A i, j \in 1 .. Len(ids) : ids[i] = ids[j] => i = j
  BY <1>1 DEF IsInjective
<1>5. IsInjective(AfterPop(ids))
  <2>1. \A i \in 1 .. Len(ids) - 1 : i \in 1 .. Len(ids)
    BY <1>1, SMT
  <2> QED
    BY <2>1, <1>2, <1>4 DEF IsInjective
<1>6. Range(AfterPop(ids)) = {ids[i] : i \in 1 .. Len(ids) - 1}
  BY <1>2 DEF Range
<1>7. {ids[i] : i \in 1 .. Len(ids) - 1} = {ids[i] : i \in 1 .. Len(ids)} \ {ids[Len(ids)]}
  BY <1>1, <1>4, SMT
<1> QED
  BY <1>1, <1>2, <1>3, <1>5, <1>6, <1>7 DEF Range

LEMMA AppendDistinct ==
  ASSUME NEW ids \in Seq(Nat), IsInjective(ids), NEW id \in Nat, id \notin Range(ids)
  PROVE  /\ Append(ids, id) \in Seq(Nat) /\ Range(Append(ids, id)) = Range(ids) \cup {id}
         /\ IsInjective(Append(ids, id))
<1> DEFINE more == Append(ids, id)
<1>1. Len(ids) \in Nat /\ DOMAIN ids = 1 .. Len(ids) /\ DOMAIN more = 1 .. Len(ids) + 1 /\ more \in Seq(Nat)
  BY SMT
<1>2. (\A i \in 1 .. Len(ids) : more[i] = ids[i]) /\ more[Len(ids) + 1] = id
  BY SMT
<1> HIDE DEF more
<1>3. 1 .. Len(ids) + 1 = (1 .. Len(ids)) \cup {Len(ids) + 1}
  BY <1>1, SMT
<1>4. Range(more) = Range(ids) \cup {id}
  <2>1. Range(more) = {more[i] : i \in (1 .. Len(ids)) \cup {Len(ids) + 1}} /\ Range(ids) = {ids[i] : i \in 1 .. Len(ids)}
    BY <1>1, <1>3 DEF Range
  <2> QED
    BY <2>1, <1>2
<1>5. \A i \in 1 .. Len(ids) : ids[i] # id
  BY <1>1 DEF Range
<1>6. \A i, j \in 1 .. Len(ids) : ids[i] = ids[j] => i = j
  BY <1>1 DEF IsInjective
<1>7. IsInjective(more)
  <2>1. DOMAIN more = (1 .. Len(ids)) \cup {Len(ids) + 1}
    BY <1>1, <1>3
  <2> QED
    BY <2>1, <1>2, <1>5, <1>6 DEF IsInjective
<1> QED
  BY <1>1, <1>4, <1>7 DEF more

(* A number that is used again comes from the end of deletedIds. *)
LEMMA ReusedNumber ==
  ASSUME NEW s, StoreOK(s), NEW e \in Nodes, s.expando[e] = 0, s.deletedIds # <<>>
  PROVE  LET new == Numbered(s, e, Popped(s.deletedIds), AfterPop(s.deletedIds), s.guid)
         IN /\ StoreOK(new) /\ HasEntry(new, e) /\ EntryOf(new, e) = NewEntry /\ OthersSame(s, new, e)
            /\ Popped(s.deletedIds) \notin DOMAIN s.cache
<1> DEFINE id == Popped(s.deletedIds)
           ids == AfterPop(s.deletedIds)
           new == Numbered(s, e, id, ids, s.guid)
<1>1. /\ s.deletedIds \in Seq(Nat) /\ IsInjective(s.deletedIds) /\ DOMAIN s.cache = Used(s)
      /\ Free(s) \cap Used(s) = {} /\ Free(s) \cup Used(s) \subseteq 1 .. s.guid - 1
      /\ s.guid \in Nat /\ s.guid >= 1 /\ Cardinality(Free(s) \cup Used(s)) <= Cardinality(Nodes)
  BY DEF StoreOK, StoreTypeOK, NumbersOK
<1>2. /\ id \in Nat /\ ids \in Seq(Nat) /\ IsInjective(ids)
      /\ id \in Free(s) /\ Range(ids) = Free(s) \ {id}
  BY <1>1, LastOfDistinct DEF Free
<1>3. new.deletedIds = ids /\ new.guid = s.guid
  BY DEF Numbered
<1> HIDE DEF id, ids
<1>4. id \in 1 .. s.guid - 1 /\ id \notin Used(s)
  BY <1>1, <1>2
<1>5. id # 0
  BY <1>1, <1>4, SMT
<1>6. /\ StoreTypeOK(new) /\ Used(new) = Used(s) \cup {id}
      /\ \A d, f \in Nodes : new.expando[d] # 0 /\ new.expando[d] = new.expando[f] => d = f
      /\ HasEntry(new, e) /\ EntryOf(new, e) = NewEntry /\ OthersSame(s, new, e)
  BY <1>1, <1>2, <1>4, <1>5, NumberedTypes
<1> HIDE DEF new
<1>7. Free(new) = Free(s) \ {id}
  BY <1>2, <1>3 DEF Free
<1>8. Free(new) \cap Used(new) = {} /\ Free(new) \cup Used(new) = Free(s) \cup Used(s)
  BY <1>1, <1>2, <1>6, <1>7
<1>9. NumbersOK(new)
  BY <1>1, <1>2, <1>3, <1>6, <1>8 DEF NumbersOK
<1> QED
  BY <1>1, <1>4, <1>6, <1>9 DEF StoreOK, new, id, ids

(* While all numbers are in use and one element has none, there are fewer  *)
(* numbers than elements, so that there may be one more.                   *)
LEMMA NumbersLeft ==
  ASSUME NEW s, StoreOK(s), NEW e \in Nodes, s.expando[e] = 0, s.deletedIds = <<>>
  PROVE  Free(s) = {} /\ \A id : Cardinality(Used(s) \cup {id}) <= Cardinality(Nodes)
<1>1. s.expando \in [Nodes -> Nat]
  BY DEF StoreOK, StoreTypeOK
<1>2. Free(s) = {}
  BY SMT DEF Free, Range
<1>4. IsFiniteSet(Nodes \ {e}) /\ Cardinality(Nodes \ {e}) = Cardinality(Nodes) - 1 /\ Cardinality(Nodes) \in Nat
  BY DataAssumption, FS_RemoveElement, FS_CardinalityType
<1> DEFINE carried == {f \in Nodes : s.expando[f] # 0}
           number == [f \in carried |-> s.expando[f]]
<1>5. carried \subseteq Nodes \ {e}
  OBVIOUS
<1>6. IsFiniteSet(carried) /\ Cardinality(carried) <= Cardinality(Nodes) - 1 /\ Cardinality(carried) \in Nat
  <2> HIDE DEF carried
  <2>1. carried \in SUBSET (Nodes \ {e})
    BY <1>5
  <2>2. IsFiniteSet(carried) /\ Cardinality(carried) <= Cardinality(Nodes \ {e})
    BY <1>4, <2>1, FS_Subset
  <2> QED
    BY <1>4, <2>2, FS_CardinalityType
<1>7. number \in Surjection(carried, Used(s))
  BY <1>1 DEF Surjection, Used
<1>8. IsFiniteSet(Used(s)) /\ Cardinality(Used(s)) <= Cardinality(carried)
  BY <1>6, <1>7, FS_Surjection
<1> HIDE DEF carried, number
<1>9. ASSUME NEW id PROVE Cardinality(Used(s) \cup {id}) <= Cardinality(Nodes)
  <2>1. Cardinality(Used(s)) \in Nat
    BY <1>8, FS_CardinalityType
  <2>2. Cardinality(Used(s) \cup {id}) = Cardinality(Used(s)) \/ Cardinality(Used(s) \cup {id}) = Cardinality(Used(s)) + 1
    BY <1>8, FS_AddElement
  <2> QED
    BY <1>4, <1>6, <1>8, <2>1, <2>2, SMT
<1> QED
  BY <1>2, <1>9

(* When none can be used again, a new number is made. *)
LEMMA NewNumber ==
  ASSUME NEW s, StoreOK(s), NEW e \in Nodes, s.expando[e] = 0, s.deletedIds = <<>>
  PROVE  LET new == Numbered(s, e, s.guid, s.deletedIds, s.guid + 1)
         IN /\ StoreOK(new) /\ HasEntry(new, e) /\ EntryOf(new, e) = NewEntry /\ OthersSame(s, new, e)
            /\ s.guid \notin DOMAIN s.cache
<1> DEFINE new == Numbered(s, e, s.guid, s.deletedIds, s.guid + 1)
<1>1. /\ s.deletedIds \in Seq(Nat) /\ IsInjective(s.deletedIds) /\ DOMAIN s.cache = Used(s)
      /\ Free(s) \cap Used(s) = {} /\ Free(s) \cup Used(s) \subseteq 1 .. s.guid - 1
      /\ s.guid \in Nat /\ s.guid >= 1
  BY DEF StoreOK, StoreTypeOK, NumbersOK
<1>2. Free(s) = {} /\ Cardinality(Used(s) \cup {s.guid}) <= Cardinality(Nodes)
  BY NumbersLeft
<1>3. new.deletedIds = s.deletedIds /\ new.guid = s.guid + 1
  BY DEF Numbered
<1>4. /\ s.guid \notin 1 .. s.guid - 1 /\ s.guid # 0 /\ s.guid + 1 \in Nat /\ s.guid + 1 >= 1
      /\ 1 .. (s.guid + 1) - 1 = (1 .. s.guid - 1) \cup {s.guid}
  BY <1>1, SMT
<1>5. s.guid \notin Used(s) /\ s.guid \notin Free(s)
  BY <1>1, <1>4
<1>6. /\ StoreTypeOK(new) /\ Used(new) = Used(s) \cup {s.guid}
      /\ \A d, f \in Nodes : new.expando[d] # 0 /\ new.expando[d] = new.expando[f] => d = f
      /\ HasEntry(new, e) /\ EntryOf(new, e) = NewEntry /\ OthersSame(s, new, e)
  BY <1>1, <1>4, <1>5, NumberedTypes
<1> HIDE DEF new
<1>7. Free(new) = Free(s)
  BY <1>3 DEF Free
<1>8. /\ Free(new) \cap Used(new) = {} /\ Free(new) \cup Used(new) = Used(s) \cup {s.guid}
      /\ Free(new) \cup Used(new) \subseteq 1 .. new.guid - 1
  BY <1>1, <1>2, <1>3, <1>4, <1>6, <1>7
<1>9. NumbersOK(new)
  BY <1>1, <1>2, <1>3, <1>6, <1>8 DEF NumbersOK
<1> QED
  BY <1>1, <1>5, <1>6, <1>9 DEF StoreOK, new

(***************************************************************************)
(* The three operations on the store that the calls are made of.           *)
(***************************************************************************)

(* internalData finds the element's entry, or makes an empty one that no   *)
(* other element sees.                                                     *)
LEMMA WithEntry ==
  ASSUME NEW s, StoreOK(s), NEW e \in Nodes
  PROVE  LET new == withEntry(s, e)
         IN StoreOK(new) /\ HasEntry(new, e) /\ View(new, e) = View(s, e) /\ OthersSame(s, new, e)
<1>1. CASE s.expando[e] # 0
  <2>1. HasEntry(s, e)
    BY <1>1, EntryFacts
  <2>2. withEntry(s, e) = s
    BY <1>1, <2>1 DEF withEntry, HasEntry
  <2> QED
    BY <2>1, <2>2 DEF OthersSame
<1>2. CASE s.expando[e] = 0
  <2>1. ~HasEntry(s, e)
    BY <1>2, EntryFacts
  <2>2. s = [expando |-> s.expando, cache |-> s.cache, deletedIds |-> s.deletedIds, guid |-> s.guid]
    BY DEF StoreOK, StoreTypeOK
  <2>3. CASE s.deletedIds # <<>>
    <3>1. withEntry(s, e) = Numbered(s, e, Popped(s.deletedIds), AfterPop(s.deletedIds), s.guid)
      BY <1>2, <2>2, <2>3, ReusedNumber DEF withEntry, Numbered
    <3> QED
      BY <1>2, <2>1, <2>3, <3>1, ReusedNumber DEF View
  <2>4. CASE s.deletedIds = <<>>
    <3>1. withEntry(s, e) = Numbered(s, e, s.guid, s.deletedIds, s.guid + 1)
      BY <1>2, <2>2, <2>4, NewNumber DEF withEntry, Numbered
    <3> QED
      BY <1>2, <2>1, <2>4, <3>1, NewNumber DEF View
  <2> QED
    BY <2>3, <2>4
<1> QED
  BY <1>1, <1>2

LEMMA SetEntryStore ==
  ASSUME NEW s, StoreOK(s), NEW e \in Nodes, HasEntry(s, e), NEW entry \in Entries
  PROVE  LET new == SetEntry(s, e, entry)
         IN /\ StoreOK(new) /\ HasEntry(new, e) /\ EntryOf(new, e) = entry /\ View(new, e) = entry
            /\ OthersSame(s, new, e)
<1> DEFINE new == SetEntry(s, e, entry)
<1>0. s = [expando |-> s.expando, cache |-> s.cache, deletedIds |-> s.deletedIds, guid |-> s.guid]
  BY DEF StoreOK, StoreTypeOK
<1>1. /\ s.expando \in [Nodes -> Nat] /\ s.cache \in [Used(s) -> Entries]
      /\ \A d, f \in Nodes : s.expando[d] # 0 /\ s.expando[d] = s.expando[f] => d = f
  BY DEF StoreOK, StoreTypeOK, NumbersOK
<1>20. new = [expando |-> s.expando, cache |-> [s.cache EXCEPT ![s.expando[e]] = entry],
              deletedIds |-> s.deletedIds, guid |-> s.guid]
  BY <1>0, SMT DEF SetEntry
<1> HIDE DEF new
<1>2. /\ new.expando = s.expando /\ new.deletedIds = s.deletedIds /\ new.guid = s.guid
      /\ new.cache = [s.cache EXCEPT ![s.expando[e]] = entry]
  BY <1>20
<1>21. new = [expando |-> new.expando, cache |-> new.cache, deletedIds |-> new.deletedIds, guid |-> new.guid]
  BY <1>20
<1>3. Used(new) = Used(s) /\ Free(new) = Free(s)
  <2>1. new.expando = s.expando /\ new.deletedIds = s.deletedIds
    BY <1>2
  <2> QED
    BY <2>1, SMT DEF Used, Free
<1>4. new.cache \in [Used(new) -> Entries]
  BY <1>1, <1>2, <1>3
<1>5. StoreOK(new)
  BY <1>2, <1>21, <1>3, <1>4 DEF StoreOK, StoreTypeOK, NumbersOK
<1>6. s.expando[e] \in DOMAIN s.cache /\ s.expando[e] # 0
  BY EntryFacts DEF HasEntry
<1>7. HasEntry(new, e) /\ EntryOf(new, e) = entry
  BY <1>1, <1>2, <1>6 DEF HasEntry, EntryOf
<1>8. OthersSame(s, new, e)
  <2> SUFFICES ASSUME NEW f \in Nodes, f # e
               PROVE  (HasEntry(new, f) <=> HasEntry(s, f)) /\ View(new, f) = View(s, f)
    BY DEF OthersSame
  <2>1. s.expando[f] # s.expando[e]
    BY <1>1, <1>6
  <2> QED
    BY <1>1, <1>2, <2>1 DEF HasEntry, EntryOf, View
<1> QED
  BY <1>5, <1>7, <1>8 DEF new, View

(* cleanData takes the entry and the number, which is kept for another.    *)
LEMMA CleanDataStore ==
  ASSUME NEW s, StoreOK(s), NEW e \in Nodes
  PROVE  LET new == cleanData(s, e)
         IN StoreOK(new) /\ ~HasEntry(new, e) /\ View(new, e) = NewEntry /\ OthersSame(s, new, e)
<1> DEFINE new == cleanData(s, e)
           id == s.expando[e]
<1>1. CASE ~HasEntry(s, e)
  BY <1>1 DEF cleanData, View, OthersSame
<1>2. CASE HasEntry(s, e)
  <2>0. s = [expando |-> s.expando, cache |-> s.cache, deletedIds |-> s.deletedIds, guid |-> s.guid]
    BY DEF StoreOK, StoreTypeOK
  <2>1. /\ s.expando \in [Nodes -> Nat] /\ s.cache \in [Used(s) -> Entries] /\ DOMAIN s.cache = Used(s)
        /\ s.deletedIds \in Seq(Nat) /\ s.guid \in Nat /\ s.guid >= 1
    BY DEF StoreOK, StoreTypeOK
  <2>2. /\ \A d, f \in Nodes : s.expando[d] # 0 /\ s.expando[d] = s.expando[f] => d = f
        /\ IsInjective(s.deletedIds) /\ Free(s) \cap Used(s) = {} /\ Free(s) \cup Used(s) \subseteq 1 .. s.guid - 1
        /\ Cardinality(Free(s) \cup Used(s)) <= Cardinality(Nodes)
    BY DEF StoreOK, NumbersOK
  <2>3. /\ new.expando = [s.expando EXCEPT ![e] = 0] /\ new.deletedIds = Append(s.deletedIds, id)
        /\ new.guid = s.guid /\ new.cache = [i \in DOMAIN s.cache \ {id} |-> s.cache[i]]
    <3>1. new = [s EXCEPT !.cache = Restrict(@, DOMAIN @ \ {s.expando[e]}), !.deletedIds = Append(@, s.expando[e]),
                          !.expando[e] = 0]
      BY <1>2 DEF cleanData
    <3> QED
      BY <2>0, <3>1 DEF Restrict
  <2>31. new = [expando |-> new.expando, cache |-> new.cache, deletedIds |-> new.deletedIds, guid |-> new.guid]
    BY <1>2, <2>0 DEF cleanData
  <2> HIDE DEF new
  <2>4. id # 0 /\ id \in Used(s) /\ id \in Nat /\ id \notin Free(s)
    <3>1. id # 0
      BY <1>2, EntryFacts
    <3>2. id \in Nat /\ id \in Used(s)
      BY <2>1, <3>1 DEF Used
    <3> QED
      BY <2>2, <3>1, <3>2
  <2>5. new.expando \in [Nodes -> Nat] /\ new.expando[e] = 0 /\ \A f \in Nodes : f # e => new.expando[f] = s.expando[f]
    BY <2>1, <2>3, SMT
  <2>6. \A f \in Nodes : f # e => s.expando[f] # id
    BY <2>2, <2>4
  <2> HIDE DEF id
  <2>7. Used(new) = Used(s) \ {id}
    <3>1. Used(s) = {s.expando[f] : f \in Nodes} \ {0} /\ Used(new) = {new.expando[f] : f \in Nodes} \ {0}
      BY DEF Used
    <3> QED
      BY <3>1, <2>4, <2>5, <2>6 DEF id
  <2>8. new.deletedIds \in Seq(Nat) /\ Free(new) = Free(s) \cup {id} /\ IsInjective(new.deletedIds)
    <3>1. s.deletedIds \in Seq(Nat) /\ IsInjective(s.deletedIds) /\ id \in Nat /\ id \notin Range(s.deletedIds)
      BY <2>1, <2>2, <2>4 DEF Free
    <3>2. /\ Append(s.deletedIds, id) \in Seq(Nat) /\ Range(Append(s.deletedIds, id)) = Range(s.deletedIds) \cup {id}
          /\ IsInjective(Append(s.deletedIds, id))
      BY <3>1, AppendDistinct
    <3>3. new.deletedIds = Append(s.deletedIds, id)
      BY <2>3
    <3> QED
      BY <3>2, <3>3 DEF Free
  <2>9. new.cache \in [Used(new) -> Entries] /\ \A i \in Used(new) : new.cache[i] = s.cache[i]
    BY <2>1, <2>3, <2>7
  <2>10. StoreTypeOK(new)
    BY <2>1, <2>3, <2>31, <2>5, <2>8, <2>9 DEF StoreTypeOK
  <2>11. \A d, f \in Nodes : new.expando[d] # 0 /\ new.expando[d] = new.expando[f] => d = f
    BY <2>2, <2>5
  <2>12. NumbersOK(new)
    <3>1. new.guid = s.guid
      BY <2>3
    <3>2. Free(new) \cap Used(new) = {} /\ Free(new) \cup Used(new) = Free(s) \cup Used(s)
      BY <2>2, <2>4, <2>7, <2>8
    <3> QED
      BY <2>2, <2>8, <2>11, <3>1, <3>2 DEF NumbersOK
  <2>13. ~HasEntry(new, e)
    BY <2>5, <2>10, <2>12, EntryFacts DEF StoreOK
  <2>14. OthersSame(s, new, e)
    <3> SUFFICES ASSUME NEW f \in Nodes, f # e
                 PROVE  (HasEntry(new, f) <=> HasEntry(s, f)) /\ View(new, f) = View(s, f)
      BY DEF OthersSame
    <3>1. new.expando[f] = s.expando[f] /\ s.expando[f] # id /\ DOMAIN new.cache = Used(new)
      BY <2>5, <2>6, <2>9
    <3>2. HasEntry(new, f) <=> HasEntry(s, f)
      BY <3>1, <2>1, <2>7 DEF HasEntry
    <3>3. HasEntry(s, f) => EntryOf(new, f) = EntryOf(s, f)
      BY <3>1, <2>1, <2>7, <2>9 DEF HasEntry, EntryOf
    <3> QED
      BY <3>2, <3>3 DEF View
  <2> QED
    BY <2>10, <2>12, <2>13, <2>14 DEF StoreOK, View, new
<1> QED
  BY <1>1, <1>2

(***************************************************************************)
(* What the calls do to the entry of their element.                        *)
(***************************************************************************)

(* new is s with this entry for e, and for the other elements what it was. *)
Becoming(s, new, e, entry) == StoreOK(new) /\ View(new, e) = entry /\ OthersSame(s, new, e)

LEMMA GetFromView ==
  ASSUME NEW s, NEW e, NEW name \in Names
  PROVE  getData(s, e, name) =
           IF View(s, e).data[name] # Undefined THEN View(s, e).data[name] ELSE View(s, e).data["aB"]
<1>1. \A n \in Names : NewEntry.data[n] = Undefined
  BY DEF NewEntry, NoData
<1>2. "aB" \in Names
  BY DEF Names
<1> QED
  BY <1>1, <1>2 DEF getData, View, camelCase

LEMMA ThroughEntry ==
  ASSUME NEW s, StoreOK(s), NEW e \in Nodes, NEW entry \in Entries
  PROVE  Becoming(s, SetEntry(withEntry(s, e), e, entry), e, entry)
<1> DEFINE with == withEntry(s, e)
<1>1. StoreOK(with) /\ HasEntry(with, e) /\ OthersSame(s, with, e)
  BY WithEntry
<1> HIDE DEF with
<1>2. /\ StoreOK(SetEntry(with, e, entry)) /\ View(SetEntry(with, e, entry), e) = entry
      /\ OthersSame(with, SetEntry(with, e, entry), e)
  BY <1>1, SetEntryStore
<1> QED
  BY <1>1, <1>2 DEF OthersSame, Becoming, with

LEMMA EntryOfWith ==
  ASSUME NEW s, StoreOK(s), NEW e \in Nodes
  PROVE  EntryOf(withEntry(s, e), e) = View(s, e) /\ View(s, e) \in Entries
BY WithEntry, EntryFacts DEF View

LEMMA WithValueFields ==
  ASSUME NEW entry \in Entries, NEW name \in Names, NEW value \in KeptValues
  PROVE  /\ withValue(entry, name, value) \in Entries
         /\ withValue(entry, name, value).pvt = entry.pvt
         /\ withValue(entry, name, value).data = [entry.data EXCEPT ![name] = value]
<1> DEFINE data == [entry.data EXCEPT ![name] = value]
<1>1. /\ entry = [pvt |-> entry.pvt, hasData |-> entry.hasData, data |-> entry.data]
      /\ entry.pvt \in SUBSET {"events", "parsedAttrs"} /\ entry.data \in [Names -> KeptValues]
  BY DEF Entries
<1>2. data \in [Names -> KeptValues]
  BY <1>1
<1>3. withValue(entry, name, value) = [pvt |-> entry.pvt, hasData |-> TRUE, data |-> data]
  BY DEF withValue
<1> HIDE DEF data
<1>4. [pvt |-> entry.pvt, hasData |-> TRUE, data |-> data] \in Entries
  BY <1>1, <1>2 DEF Entries
<1>5. /\ withValue(entry, name, value).pvt = entry.pvt
      /\ withValue(entry, name, value).data = [entry.data EXCEPT ![name] = value]
  BY DEF withValue
<1> QED
  BY <1>3, <1>4, <1>5

LEMMA SetObjectStore ==
  ASSUME NEW s, StoreOK(s), NEW e \in Nodes, NEW name \in Names, NEW value \in KeptValues
  PROVE  /\ Becoming(s, setObject(s, e, name, value), e, withValue(View(s, e), name, value))
         /\ Becoming(s, setData(s, e, name, value), e, withValue(View(s, e), "aB", value))
<1>1. /\ setObject(s, e, name, value) = SetEntry(withEntry(s, e), e, withValue(View(s, e), name, value))
      /\ setData(s, e, name, value) = SetEntry(withEntry(s, e), e, withValue(View(s, e), "aB", value))
  BY EntryOfWith DEF setObject, setData, camelCase
<1>2. "aB" \in Names /\ View(s, e) \in Entries
  BY EntryOfWith DEF Names
<1>3. withValue(View(s, e), name, value) \in Entries /\ withValue(View(s, e), "aB", value) \in Entries
  BY <1>2, WithValueFields
<1> QED
  BY <1>1, <1>3, ThroughEntry

Keeping(entry, keys) == [entry EXCEPT !.pvt = @ \cup keys]

LEMMA SetPrivateStore ==
  ASSUME NEW s, StoreOK(s), NEW e \in Nodes, NEW keys \in SUBSET {"events", "parsedAttrs"}
  PROVE  /\ Becoming(s, setPrivate(s, e, keys), e, Keeping(View(s, e), keys))
         /\ Keeping(View(s, e), keys).pvt = View(s, e).pvt \cup keys
         /\ Keeping(View(s, e), keys).data = View(s, e).data
<1>1. setPrivate(s, e, keys) = SetEntry(withEntry(s, e), e, Keeping(View(s, e), keys))
  BY EntryOfWith DEF setPrivate, Keeping
<1>2. ASSUME NEW entry \in Entries
      PROVE  /\ Keeping(entry, keys) \in Entries /\ Keeping(entry, keys).pvt = entry.pvt \cup keys
             /\ Keeping(entry, keys).data = entry.data
  BY <1>2, SMT DEF Keeping, Entries
<1>3. View(s, e) \in Entries
  BY EntryOfWith
<1> QED
  BY <1>1, <1>2, <1>3, ThroughEntry

(* The other elements see what they saw, also after two operations. *)
LEMMA OthersTwice ==
  ASSUME NEW s, NEW mid, NEW new, NEW e, OthersSame(s, mid, e), OthersSame(mid, new, e)
  PROVE  OthersSame(s, new, e)
BY DEF OthersSame

(* An entry is put back, or taken away if it is empty. *)
putBack(s, e, entry) ==
  IF isEmptyDataObject(entry) THEN cleanData(SetEntry(s, e, entry), e) ELSE SetEntry(s, e, entry)

LEMMA PutBack ==
  ASSUME NEW s, StoreOK(s), NEW e \in Nodes, HasEntry(s, e), NEW entry \in Entries
  PROVE  /\ StoreOK(putBack(s, e, entry)) /\ OthersSame(s, putBack(s, e, entry), e)
         /\ View(putBack(s, e, entry), e).pvt = entry.pvt /\ View(putBack(s, e, entry), e).data = entry.data
<1> DEFINE new == putBack(s, e, entry)
<1> USE DEF putBack
<1>1. /\ StoreOK(SetEntry(s, e, entry)) /\ View(SetEntry(s, e, entry), e) = entry
      /\ OthersSame(s, SetEntry(s, e, entry), e)
  BY SetEntryStore
<1>2. CASE isEmptyDataObject(entry)
  <2>1. StoreOK(new) /\ View(new, e) = NewEntry /\ OthersSame(SetEntry(s, e, entry), new, e)
    BY <1>1, <1>2, CleanDataStore
  <2>2. NewEntry.pvt = entry.pvt /\ NewEntry.data = entry.data
    BY <1>2 DEF isEmptyDataObject, NewEntry
  <2> QED
    BY <1>1, <2>1, <2>2, OthersTwice
<1>3. CASE ~isEmptyDataObject(entry)
  BY <1>1, <1>3
<1> QED
  BY <1>2, <1>3

(* removeData takes names out of the data and leaves the rest alone. *)
Removed(s, new, e, names) ==
  /\ StoreOK(new) /\ OthersSame(s, new, e) /\ View(new, e).pvt = View(s, e).pvt
  /\ \/ View(new, e).data = NoData
     \/ View(new, e).data = [n \in Names |-> IF n \in names THEN Undefined ELSE View(s, e).data[n]]

LEMMA RemoveDataStore ==
  ASSUME NEW s, StoreOK(s), NEW e \in Nodes, NEW names
  PROVE  Removed(s, removeData(s, e, names), e, names)
<1> USE DEF Removed
<1> DEFINE new == removeData(s, e, names)
           entry == EntryOf(s, e)
           rest == [n \in Names |-> IF n \in names THEN Undefined ELSE entry.data[n]]
<1>1. CASE ~HasEntry(s, e)
  <2>1. new = s /\ View(s, e) = NewEntry
    BY <1>1 DEF removeData, View
  <2>2. NewEntry.data = NoData
    BY DEF NewEntry
  <2> QED
    BY <2>1, <2>2 DEF OthersSame
<1>2. CASE HasEntry(s, e)
  <2>1. entry \in Entries /\ View(s, e) = entry
    BY <1>2, EntryFacts DEF View
  <2>2. /\ entry = [pvt |-> entry.pvt, hasData |-> entry.hasData, data |-> entry.data]
        /\ entry.pvt \in SUBSET {"events", "parsedAttrs"} /\ entry.hasData \in BOOLEAN
        /\ entry.data \in [Names -> KeptValues]
    BY <2>1 DEF Entries
  <2>3. rest \in [Names -> KeptValues] /\ NoData \in [Names -> KeptValues]
    BY <2>2 DEF KeptValues, NoData
  <2>4. CASE entry.hasData /\ rest # NoData
    <3>1. new = SetEntry(s, e, [entry EXCEPT !.data = rest])
      BY <1>2, <2>4 DEF removeData
    <3>2. /\ [entry EXCEPT !.data = rest] \in Entries /\ [entry EXCEPT !.data = rest].pvt = entry.pvt
          /\ [entry EXCEPT !.data = rest].data = rest
      <4> HIDE DEF rest, entry
      <4> QED
        BY <2>2, <2>3 DEF Entries
    <3> DEFINE less == [entry EXCEPT !.data = rest]
    <3> HIDE DEF entry, rest, less
    <3>3. StoreOK(new) /\ OthersSame(s, new, e) /\ View(new, e) = less
      <4>1. less \in Entries /\ new = SetEntry(s, e, less)
        BY <3>1, <3>2 DEF less
      <4> HIDE DEF new
      <4> QED
        BY <1>2, <4>1, SetEntryStore
    <3> QED
      BY <2>1, <3>2, <3>3 DEF rest, less
  <2>5. CASE ~(entry.hasData /\ rest # NoData)
    <3> DEFINE without == [pvt |-> entry.pvt, hasData |-> FALSE, data |-> NoData]
    <3>1. new = putBack(s, e, without)
      BY <1>2, <2>5 DEF removeData, dropData, putBack
    <3>3. without \in Entries /\ without.pvt = entry.pvt /\ without.data = NoData
      BY <2>2, <2>3 DEF Entries
    <3> HIDE DEF without, entry, new
    <3>4. /\ StoreOK(new) /\ OthersSame(s, new, e)
          /\ View(new, e).pvt = without.pvt /\ View(new, e).data = without.data
      BY <1>2, <3>1, <3>3, PutBack
    <3> QED
      BY <2>1, <3>3, <3>4 DEF new
  <2> QED
    BY <2>4, <2>5
<1> QED
  BY <1>1, <1>2

LEMMA RemovePrivateStore ==
  ASSUME NEW s, StoreOK(s), NEW e \in Nodes, HasEntry(s, e), NEW keys
  PROVE  LET new == removePrivate(s, e, keys)
         IN /\ StoreOK(new) /\ OthersSame(s, new, e)
            /\ View(new, e).pvt = View(s, e).pvt \ keys /\ View(new, e).data = View(s, e).data
<1> DEFINE new == removePrivate(s, e, keys)
           entry == EntryOf(s, e)
           without == [entry EXCEPT !.pvt = @ \ keys]
<1>1. entry \in Entries /\ View(s, e) = entry
  BY EntryFacts DEF View
<1>2. without \in Entries /\ without.pvt = entry.pvt \ keys /\ without.data = entry.data
  <2> HIDE DEF entry
  <2> QED
    BY <1>1, SMT DEF Entries
<1>3. new = putBack(s, e, without)
  BY DEF removePrivate, putBack
<1> HIDE DEF without, entry, new
<1>4. /\ StoreOK(new) /\ OthersSame(s, new, e)
      /\ View(new, e).pvt = without.pvt /\ View(new, e).data = without.data
  <2>1. without \in Entries
    BY <1>2
  <2> QED
    BY <2>1, <1>3, PutBack
<1> QED
  BY <1>1, <1>2, <1>4 DEF new

(***************************************************************************)
(* The invariant: beside the store, that the last value set is the one     *)
(* under the camel case, and nothing is under the other name, unless an    *)
(* object brought it.                                                      *)
(***************************************************************************)
KeyOK(e) ==
  e \notin plain => View(store, e).data["a-b"] = Undefined /\ View(store, e).data["aB"] = expected[e]

DataInv ==
  /\ StoreOK(store)
  /\ attribute \in [Nodes -> Texts \cup {Undefined}]
  /\ DOMAIN expected = Nodes
  /\ \A e \in Nodes : KeyOK(e)

HasEvents(s, e) == "events" \in View(s, e).pvt

(* What a call for e has to do with its entry so that the invariant holds  *)
(* after it, and with its events.                                          *)
LEMMA DataCallKeeps ==
  ASSUME DataInv, NEW e \in Nodes, StoreOK(store'), OthersSame(store, store', e),
         attribute' \in [Nodes -> Texts \cup {Undefined}],
         NEW value, expected' = [expected EXCEPT ![e] = value],
         \A f \in Nodes : f # e => (f \in plain' <=> f \in plain),
         e \notin plain' => View(store', e).data["a-b"] = Undefined /\ View(store', e).data["aB"] = value
  PROVE  DataInv' /\ \A f \in Nodes \ {e} : HasEvents(store, f) => HasEvents(store', f)
<1>1. DOMAIN expected = Nodes
  BY DEF DataInv
<1>2. DOMAIN expected' = Nodes /\ expected'[e] = value /\ \A f \in Nodes : f # e => expected'[f] = expected[f]
  BY <1>1
<1>3. \A f \in Nodes : f # e => View(store', f) = View(store, f) /\ (f \in plain' <=> f \in plain)
  BY DEF OthersSame
<1>4. \A f \in Nodes : KeyOK(f)'
  <2> SUFFICES ASSUME NEW f \in Nodes PROVE KeyOK(f)'
    OBVIOUS
  <2>1. CASE f = e
    BY <2>1, <1>2 DEF KeyOK
  <2>2. CASE f # e
    BY <2>2, <1>2, <1>3 DEF KeyOK, DataInv
  <2> QED
    BY <2>1, <2>2
<1> QED
  BY <1>2, <1>3, <1>4 DEF DataInv, HasEvents

LEMMA NamesTwo == Names = {"a-b", "aB"} /\ "a-b" # "aB"
BY DEF Names

(* The calls that put a value of the user under a name. *)
LEMMA PutKeeps ==
  ASSUME DataInv, NEW e \in Nodes, NEW value \in KeptValues, NEW name \in Names,
         Becoming(store, store', e, withValue(View(store, e), name, value)),
         expected' = [expected EXCEPT ![e] = value], UNCHANGED attribute,
         plain' = IF name = "aB" THEN plain ELSE plain \cup {e}
  PROVE  DataInv' /\ \A f \in Nodes : HasEvents(store, f) => HasEvents(store', f)
<1>1. StoreOK(store) /\ attribute \in [Nodes -> Texts \cup {Undefined}] /\ KeyOK(e)
  BY DEF DataInv
<1>2. View(store, e) \in Entries
  BY <1>1, EntryFacts
<1>3. View(store, e).data \in [Names -> KeptValues]
  BY <1>2 DEF Entries
<1>4. StoreOK(store') /\ OthersSame(store, store', e) /\ View(store', e) = withValue(View(store, e), name, value)
  BY DEF Becoming
<1>5. /\ View(store', e).pvt = View(store, e).pvt
      /\ View(store', e).data = [View(store, e).data EXCEPT ![name] = value]
  <2>1. /\ withValue(View(store, e), name, value).pvt = View(store, e).pvt
        /\ withValue(View(store, e), name, value).data = [View(store, e).data EXCEPT ![name] = value]
    BY <1>2, WithValueFields
  <2> QED
    BY <1>4, <2>1
<1>6. e \notin plain' => View(store', e).data["a-b"] = Undefined /\ View(store', e).data["aB"] = value
  BY <1>1, <1>3, <1>5, NamesTwo DEF KeyOK
<1>7. \A f \in Nodes : f # e => (f \in plain' <=> f \in plain)
  OBVIOUS
<1>8. DataInv' /\ \A f \in Nodes \ {e} : HasEvents(store, f) => HasEvents(store', f)
  BY <1>1, <1>4, <1>6, <1>7, DataCallKeeps
<1>9. HasEvents(store, e) => HasEvents(store', e)
  BY <1>5 DEF HasEvents
<1> QED
  BY <1>8, <1>9

LEMMA SetDataKeeps ==
  ASSUME DataInv, NEW e \in Nodes, SetData(e)
  PROVE  DataInv' /\ \A f \in Nodes : HasEvents(store, f) => HasEvents(store', f)
<1>1. PICK name \in Names, value \in Values :
        /\ store' = setData(store, e, name, value) /\ expected' = [expected EXCEPT ![e] = value]
        /\ UNCHANGED <<attribute, plain>>
  BY DEF SetData, Becomes
<1>2. value \in KeptValues /\ "aB" \in Names /\ StoreOK(store)
  BY NamesTwo DEF KeptValues, DataInv
<1>3. Becoming(store, store', e, withValue(View(store, e), "aB", value))
  BY <1>1, <1>2, SetObjectStore
<1> QED
  BY <1>1, <1>2, <1>3, PutKeeps

LEMMA SetObjectKeeps ==
  ASSUME DataInv, NEW e \in Nodes, SetObject(e)
  PROVE  DataInv' /\ \A f \in Nodes : HasEvents(store, f) => HasEvents(store', f)
<1>1. PICK name \in Names, value \in Values :
        /\ store' = setObject(store, e, name, value) /\ expected' = [expected EXCEPT ![e] = value]
        /\ plain' = (IF name = "aB" THEN plain ELSE plain \cup {e}) /\ UNCHANGED attribute
  BY DEF SetObject, Becomes, camelCase
<1>2. value \in KeptValues /\ StoreOK(store)
  BY DEF KeptValues, DataInv
<1>3. Becoming(store, store', e, withValue(View(store, e), name, value))
  BY <1>1, <1>2, SetObjectStore
<1> QED
  BY <1>1, <1>2, <1>3, PutKeeps

(* A call that leaves what was set, and what the element has, alone. *)
LEMMA SameKeeps ==
  ASSUME DataInv, NEW e \in Nodes, StoreOK(store'), OthersSame(store, store', e),
         View(store', e).data = View(store, e).data,
         expected' = [expected EXCEPT ![e] = expected[e]], UNCHANGED <<attribute, plain>>
  PROVE  DataInv' /\ \A f \in Nodes \ {e} : HasEvents(store, f) => HasEvents(store', f)
<1>1. attribute' \in [Nodes -> Texts \cup {Undefined}] /\ KeyOK(e)
  BY DEF DataInv
<1>2. e \notin plain' => View(store', e).data["a-b"] = Undefined /\ View(store', e).data["aB"] = expected[e]
  BY <1>1 DEF KeyOK
<1> QED
  BY <1>1, <1>2, DataCallKeeps

(* A value of the attribute is read as if it had been set. *)
LEMMA DataAttrStore ==
  ASSUME DataInv, NEW s, StoreOK(s), NEW e \in Nodes, NEW name \in Names
  PROVE  \/ dataAttr(s, e, name) = s
         \/ \E value \in KeptValues : Becoming(s, dataAttr(s, e, name), e, withValue(View(s, e), "aB", value))
<1>1. CASE getData(s, e, name) = Undefined /\ attribute[e] # Undefined
  <2>1. attribute[e] \in Texts
    BY <1>1 DEF DataInv
  <2>2. fromText(attribute[e]) \in KeptValues
    BY <2>1 DEF KeptValues
  <2>3. dataAttr(s, e, name) = setData(s, e, name, fromText(attribute[e]))
    BY <1>1 DEF dataAttr
  <2> QED
    BY <2>2, <2>3, SetObjectStore
<1>2. CASE ~(getData(s, e, name) = Undefined /\ attribute[e] # Undefined)
  BY <1>2 DEF dataAttr
<1> QED
  BY <1>1, <1>2

LEMMA GetDataKeeps ==
  ASSUME DataInv, NEW e \in Nodes, GetData(e)
  PROVE  DataInv' /\ \A f \in Nodes : HasEvents(store, f) => HasEvents(store', f)
<1>1. PICK name \in Names :
        /\ store' = dataAttr(store, e, name)
        /\ expected' = [expected EXCEPT ![e] = IF store' = store THEN expected[e] ELSE getData(store', e, name)]
        /\ UNCHANGED <<attribute, plain>>
  BY DEF GetData, Becomes
<1>2. StoreOK(store) /\ attribute' \in [Nodes -> Texts \cup {Undefined}] /\ KeyOK(e)
  BY <1>1 DEF DataInv
<1>3. CASE store' = store
  <2>1. OthersSame(store, store', e) /\ StoreOK(store') /\ View(store', e).data = View(store, e).data
    BY <1>2, <1>3 DEF OthersSame
  <2>2. expected' = [expected EXCEPT ![e] = expected[e]]
    BY <1>1, <1>3
  <2>3. DataInv'
    BY <1>1, <2>1, <2>2, SameKeeps
  <2> QED
    BY <1>3, <2>3
<1>4. CASE store' # store
  <2>1. PICK value \in KeptValues : Becoming(store, store', e, withValue(View(store, e), "aB", value))
    BY <1>1, <1>2, <1>4, DataAttrStore
  <2>2. View(store, e) \in Entries /\ "aB" \in Names
    BY <1>2, EntryFacts, NamesTwo
  <2>3. View(store, e).data \in [Names -> KeptValues]
    BY <2>2 DEF Entries
  <2>4. StoreOK(store') /\ OthersSame(store, store', e) /\ View(store', e) = withValue(View(store, e), "aB", value)
    BY <2>1 DEF Becoming
  <2>5. /\ View(store', e).pvt = View(store, e).pvt
        /\ View(store', e).data = [View(store, e).data EXCEPT !["aB"] = value]
    <3>1. /\ withValue(View(store, e), "aB", value).pvt = View(store, e).pvt
          /\ withValue(View(store, e), "aB", value).data = [View(store, e).data EXCEPT !["aB"] = value]
      BY DEF withValue
    <3> QED
      BY <2>4, <3>1
  <2>6. View(store', e).data["aB"] = value /\ View(store', e).data["a-b"] = View(store, e).data["a-b"]
    BY <2>3, <2>5, NamesTwo
  <2>7. getData(store', e, name) =
          IF View(store', e).data[name] # Undefined THEN View(store', e).data[name] ELSE View(store', e).data["aB"]
    BY GetFromView
  <2>8. name = "a-b" \/ name = "aB"
    BY NamesTwo
  <2>9. e \notin plain' =>
          View(store', e).data["a-b"] = Undefined /\ View(store', e).data["aB"] = getData(store', e, name)
    BY <1>1, <1>2, <2>6, <2>7, <2>8 DEF KeyOK
  <2>10. expected' = [expected EXCEPT ![e] = getData(store', e, name)]
    BY <1>1, <1>4
  <2>11. \A f \in Nodes : f # e => (f \in plain' <=> f \in plain)
    BY <1>1
  <2>12. DataInv' /\ \A f \in Nodes \ {e} : HasEvents(store, f) => HasEvents(store', f)
    BY <1>2, <2>4, <2>9, <2>10, <2>11, DataCallKeeps
  <2> QED
    BY <2>5, <2>12 DEF HasEvents
<1> QED
  BY <1>3, <1>4

(* What .data() leaves in the store: the attribute's value may have been   *)
(* read, and the name with the dash and the events are as they were.       *)
LEMMA GetAllStore ==
  ASSUME DataInv, NEW e \in Nodes, GetAll(e)
  PROVE  /\ StoreOK(store') /\ OthersSame(store, store', e)
         /\ View(store', e).data["a-b"] = View(store, e).data["a-b"]
         /\ View(store, e).pvt \subseteq View(store', e).pvt
<1> DEFINE old == View(store, e)
           entry == [old EXCEPT !.hasData = TRUE]
           open == SetEntry(withEntry(store, e), e, entry)
           mid == dataAttr(open, e, "aB")
<1>1. StoreOK(store)
  BY DEF DataInv
<1>2. old \in Entries /\ EntryOf(withEntry(store, e), e) = old
  BY <1>1, EntryOfWith
<1>3. store' = open \/ store' = setPrivate(mid, e, {"parsedAttrs"})
  BY <1>2 DEF GetAll, Becomes
<1>4. entry \in Entries /\ entry.pvt = old.pvt /\ entry.data = old.data
  <2> HIDE DEF old
  <2> QED
    BY <1>2 DEF Entries
<1> HIDE DEF entry
<1>5. Becoming(store, open, e, entry)
  BY <1>1, <1>4, ThroughEntry
<1> HIDE DEF open, old
<1>6. StoreOK(open) /\ OthersSame(store, open, e) /\ View(open, e) = entry
  BY <1>5 DEF Becoming
<1>7. /\ StoreOK(mid) /\ OthersSame(store, mid, e) /\ View(mid, e).pvt = old.pvt
      /\ View(mid, e).data["a-b"] = old.data["a-b"]
  <2>1. CASE mid = open
    BY <1>4, <1>6, <2>1
  <2>2. CASE mid # open
    <3>1. "aB" \in Names
      BY NamesTwo
    <3>2. PICK value \in KeptValues : Becoming(open, mid, e, withValue(View(open, e), "aB", value))
      BY <1>6, <2>2, <3>1, DataAttrStore
    <3> HIDE DEF mid
    <3>3. StoreOK(mid) /\ OthersSame(open, mid, e) /\ View(mid, e) = withValue(entry, "aB", value)
      BY <1>6, <3>2 DEF Becoming
    <3>4. /\ withValue(entry, "aB", value).pvt = entry.pvt
          /\ withValue(entry, "aB", value).data = [entry.data EXCEPT !["aB"] = value]
      BY DEF withValue
    <3>5. entry.data \in [Names -> KeptValues]
      BY <1>4 DEF Entries
    <3>6. [entry.data EXCEPT !["aB"] = value]["a-b"] = entry.data["a-b"]
      BY <3>5, NamesTwo
    <3>7. OthersSame(store, mid, e)
      BY <1>6, <3>3, OthersTwice
    <3> QED
      BY <1>4, <3>3, <3>4, <3>6, <3>7
  <2> QED
    BY <2>1, <2>2
<1>8. CASE store' = open
  BY <1>4, <1>6, <1>8 DEF old
<1>9. CASE store' = setPrivate(mid, e, {"parsedAttrs"})
  <2> HIDE DEF mid
  <2>1. {"parsedAttrs"} \in SUBSET {"events", "parsedAttrs"}
    OBVIOUS
  <2>2. /\ Becoming(mid, store', e, Keeping(View(mid, e), {"parsedAttrs"}))
        /\ Keeping(View(mid, e), {"parsedAttrs"}).pvt = View(mid, e).pvt \cup {"parsedAttrs"}
        /\ Keeping(View(mid, e), {"parsedAttrs"}).data = View(mid, e).data
    <3>1. StoreOK(mid)
      BY <1>7
    <3>2. /\ Becoming(mid, setPrivate(mid, e, {"parsedAttrs"}), e, Keeping(View(mid, e), {"parsedAttrs"}))
          /\ Keeping(View(mid, e), {"parsedAttrs"}).pvt = View(mid, e).pvt \cup {"parsedAttrs"}
          /\ Keeping(View(mid, e), {"parsedAttrs"}).data = View(mid, e).data
      BY <2>1, <3>1, SetPrivateStore
    <3> QED
      BY <1>9, <3>2
  <2>3. StoreOK(store') /\ OthersSame(mid, store', e) /\ View(store', e) = Keeping(View(mid, e), {"parsedAttrs"})
    BY <2>2 DEF Becoming
  <2>4. OthersSame(store, store', e)
    BY <1>7, <2>3, OthersTwice
  <2> QED
    BY <1>7, <2>2, <2>3, <2>4 DEF old
<1> QED
  BY <1>3, <1>8, <1>9

LEMMA GetAllKeeps ==
  ASSUME DataInv, NEW e \in Nodes, GetAll(e)
  PROVE  DataInv' /\ \A f \in Nodes : HasEvents(store, f) => HasEvents(store', f)
<1> DEFINE value == IF getData(store', e, "aB") = getData(store, e, "aB") THEN expected[e] ELSE getData(store', e, "aB")
<1>1. expected' = [expected EXCEPT ![e] = value] /\ UNCHANGED <<attribute, plain>>
  BY DEF GetAll, Becomes
<1>2. attribute' \in [Nodes -> Texts \cup {Undefined}] /\ KeyOK(e)
  BY <1>1 DEF DataInv
<1>3. /\ getData(store', e, "aB") = View(store', e).data["aB"]
      /\ getData(store, e, "aB") = View(store, e).data["aB"]
  BY GetFromView, NamesTwo
<1>4. e \notin plain' => View(store', e).data["a-b"] = Undefined /\ View(store', e).data["aB"] = value
  BY <1>1, <1>2, <1>3, GetAllStore DEF KeyOK
<1> HIDE DEF value
<1>5. \A f \in Nodes : f # e => (f \in plain' <=> f \in plain)
  BY <1>1
<1>6. StoreOK(store') /\ OthersSame(store, store', e) /\ View(store, e).pvt \subseteq View(store', e).pvt
  BY GetAllStore
<1>7. DataInv' /\ \A f \in Nodes \ {e} : HasEvents(store, f) => HasEvents(store', f)
  BY <1>1, <1>2, <1>4, <1>5, <1>6, DataCallKeeps
<1> QED
  BY <1>6, <1>7 DEF HasEvents

LEMMA RemoveDataKeeps ==
  ASSUME DataInv, NEW e \in Nodes, RemoveData(e)
  PROVE  DataInv' /\ \A f \in Nodes : HasEvents(store, f) => HasEvents(store', f)
<1>1. PICK name \in Names, array \in BOOLEAN :
        store' = removeData(store, e, IF array THEN {name, "aB"} ELSE namesOf(store, e, name))
  BY DEF RemoveData, camelCase
<1> DEFINE names == IF array THEN {name, "aB"} ELSE namesOf(store, e, name)
<1>2. expected' = [expected EXCEPT ![e] = Undefined] /\ UNCHANGED <<attribute, plain>>
  BY DEF RemoveData
<1>3. StoreOK(store) /\ attribute' \in [Nodes -> Texts \cup {Undefined}] /\ KeyOK(e)
  BY <1>2 DEF DataInv
<1>4. e \notin plain => "aB" \in names
  <2>1. HasEntry(store, e) => View(store, e) = EntryOf(store, e)
    BY DEF View
  <2> QED
    BY <1>3, <2>1, NamesTwo DEF namesOf, KeyOK, camelCase
<1>5. store' = removeData(store, e, names)
  BY <1>1
<1> HIDE DEF names
<1>6. /\ StoreOK(store') /\ OthersSame(store, store', e) /\ View(store', e).pvt = View(store, e).pvt
      /\ \/ View(store', e).data = NoData
         \/ View(store', e).data = [n \in Names |-> IF n \in names THEN Undefined ELSE View(store, e).data[n]]
  <2>1. Removed(store, store', e, names)
    BY <1>3, <1>5, RemoveDataStore
  <2> QED
    BY <2>1 DEF Removed
<1>7. NoData["a-b"] = Undefined /\ NoData["aB"] = Undefined
  BY NamesTwo DEF NoData
<1>8. e \notin plain' => View(store', e).data["a-b"] = Undefined /\ View(store', e).data["aB"] = Undefined
  BY <1>2, <1>3, <1>4, <1>6, <1>7, NamesTwo DEF KeyOK
<1>9. \A f \in Nodes : f # e => (f \in plain' <=> f \in plain)
  BY <1>2
<1>10. DataInv' /\ \A f \in Nodes \ {e} : HasEvents(store, f) => HasEvents(store', f)
  BY <1>2, <1>3, <1>6, <1>8, <1>9, DataCallKeeps
<1> QED
  BY <1>6, <1>10 DEF HasEvents

LEMMA RemoveAllDataKeeps ==
  ASSUME DataInv, NEW e \in Nodes, RemoveAllData(e)
  PROVE  DataInv' /\ \A f \in Nodes : HasEvents(store, f) => HasEvents(store', f)
<1>1. /\ store' = removeData(store, e, Names) /\ expected' = [expected EXCEPT ![e] = Undefined]
      /\ plain' = plain \ {e} /\ UNCHANGED attribute
  BY DEF RemoveAllData, Becomes
<1>2. StoreOK(store) /\ attribute' \in [Nodes -> Texts \cup {Undefined}]
  BY <1>1 DEF DataInv
<1>3. /\ StoreOK(store') /\ OthersSame(store, store', e) /\ View(store', e).pvt = View(store, e).pvt
      /\ \/ View(store', e).data = NoData
         \/ View(store', e).data = [n \in Names |-> IF n \in Names THEN Undefined ELSE View(store, e).data[n]]
  <2>1. Removed(store, store', e, Names)
    BY <1>1, <1>2, RemoveDataStore
  <2> QED
    BY <2>1 DEF Removed
<1>4. NoData["a-b"] = Undefined /\ NoData["aB"] = Undefined
  BY NamesTwo DEF NoData
<1>5. View(store', e).data["a-b"] = Undefined /\ View(store', e).data["aB"] = Undefined
  BY <1>3, <1>4, NamesTwo
<1>6. \A f \in Nodes : f # e => (f \in plain' <=> f \in plain)
  BY <1>1
<1>7. DataInv' /\ \A f \in Nodes \ {e} : HasEvents(store, f) => HasEvents(store', f)
  BY <1>1, <1>2, <1>3, <1>5, <1>6, DataCallKeeps
<1> QED
  BY <1>3, <1>7 DEF HasEvents

LEMMA RemoveNodeKeeps ==
  ASSUME DataInv, NEW e \in Nodes, RemoveNode(e)
  PROVE  DataInv' /\ \A f \in Nodes \ {e} : HasEvents(store, f) => HasEvents(store', f)
<1>1. /\ store' = cleanData(store, e) /\ expected' = [expected EXCEPT ![e] = Undefined]
      /\ plain' = plain \ {e} /\ UNCHANGED attribute
  BY DEF RemoveNode, Becomes
<1>2. StoreOK(store) /\ attribute' \in [Nodes -> Texts \cup {Undefined}]
  BY <1>1 DEF DataInv
<1>3. StoreOK(store') /\ OthersSame(store, store', e) /\ View(store', e) = NewEntry
  BY <1>1, <1>2, CleanDataStore
<1>4. NewEntry.data["a-b"] = Undefined /\ NewEntry.data["aB"] = Undefined
  BY NamesTwo DEF NoData, NewEntry
<1>5. \A f \in Nodes : f # e => (f \in plain' <=> f \in plain)
  BY <1>1
<1> QED
  BY <1>1, <1>2, <1>3, <1>4, <1>5, DataCallKeeps

(* A number that a handler takes is none that an element has or had. *)
LEMMA HandlerGuidStore ==
  ASSUME NEW s, StoreOK(s), NEW e \in Nodes, NEW fresh \in BOOLEAN
  PROVE  LET new == handlerGuid(s, fresh)
         IN StoreOK(new) /\ View(new, e) = View(s, e) /\ OthersSame(s, new, e)
<1> DEFINE new == handlerGuid(s, fresh)
<1>1. CASE ~fresh
  BY <1>1 DEF handlerGuid, OthersSame
<1>2. CASE fresh
  <2>0. s = [expando |-> s.expando, cache |-> s.cache, deletedIds |-> s.deletedIds, guid |-> s.guid]
    BY DEF StoreOK, StoreTypeOK
  <2>1. new = [expando |-> s.expando, cache |-> s.cache, deletedIds |-> s.deletedIds, guid |-> s.guid + 1]
    BY <1>2, <2>0 DEF handlerGuid
  <2> HIDE DEF new
  <2>2. /\ new.expando = s.expando /\ new.cache = s.cache /\ new.deletedIds = s.deletedIds /\ new.guid = s.guid + 1
        /\ new = [expando |-> new.expando, cache |-> new.cache, deletedIds |-> new.deletedIds, guid |-> new.guid]
    BY <2>1
  <2>3. Used(new) = Used(s) /\ Free(new) = Free(s)
    BY <2>2 DEF Used, Free
  <2>4. s.guid \in Nat /\ s.guid >= 1
    BY DEF StoreOK, StoreTypeOK
  <2>5. new.guid \in Nat /\ new.guid >= 1 /\ 1 .. s.guid - 1 \subseteq 1 .. new.guid - 1
    BY <2>2, <2>4, SMT
  <2>6. StoreTypeOK(new)
    BY <2>2, <2>3, <2>5 DEF StoreOK, StoreTypeOK
  <2>7. NumbersOK(new)
    BY <2>2, <2>3, <2>5 DEF StoreOK, NumbersOK
  <2>8. \A f \in Nodes : (HasEntry(new, f) <=> HasEntry(s, f)) /\ View(new, f) = View(s, f)
    BY <2>2 DEF HasEntry, View, EntryOf
  <2> QED
    <3>1. StoreOK(new) /\ View(new, e) = View(s, e) /\ OthersSame(s, new, e)
      BY <2>6, <2>7, <2>8 DEF StoreOK, OthersSame
    <3> QED
      BY <3>1 DEF new
<1> QED
  BY <1>1, <1>2

LEMMA BindEventsKeeps ==
  ASSUME DataInv, NEW e \in Nodes, BindEvents(e)
  PROVE  DataInv' /\ \A f \in Nodes : HasEvents(store, f) => HasEvents(store', f)
<1>0. PICK fresh \in BOOLEAN :
        Becomes(setPrivate(handlerGuid(withEntry(store, e), fresh), e, {"events"}), e, expected[e])
  BY DEF BindEvents
<1> DEFINE with == withEntry(store, e)
           mid == handlerGuid(with, fresh)
<1>1. /\ store' = setPrivate(mid, e, {"events"}) /\ expected' = [expected EXCEPT ![e] = expected[e]]
      /\ UNCHANGED <<attribute, plain>>
  BY <1>0 DEF BindEvents, Becomes
<1>2. StoreOK(mid) /\ View(mid, e) = View(store, e) /\ OthersSame(store, mid, e)
  <2>1. StoreOK(store)
    BY DEF DataInv
  <2>2. StoreOK(with) /\ View(with, e) = View(store, e) /\ OthersSame(store, with, e)
    BY <2>1, WithEntry
  <2> HIDE DEF with
  <2>3. StoreOK(mid) /\ View(mid, e) = View(with, e) /\ OthersSame(with, mid, e)
    BY <2>2, HandlerGuidStore
  <2> HIDE DEF mid
  <2> QED
    BY <2>2, <2>3, OthersTwice
<1> HIDE DEF mid
<1>3. /\ Becoming(mid, store', e, Keeping(View(mid, e), {"events"}))
      /\ Keeping(View(mid, e), {"events"}).pvt = View(mid, e).pvt \cup {"events"}
      /\ Keeping(View(mid, e), {"events"}).data = View(mid, e).data
  <2>0. {"events"} \in SUBSET {"events", "parsedAttrs"}
    OBVIOUS
  <2>1. /\ Becoming(mid, setPrivate(mid, e, {"events"}), e, Keeping(View(mid, e), {"events"}))
        /\ Keeping(View(mid, e), {"events"}).pvt = View(mid, e).pvt \cup {"events"}
        /\ Keeping(View(mid, e), {"events"}).data = View(mid, e).data
    BY <1>2, <2>0, SetPrivateStore
  <2> QED
    BY <1>1, <2>1
<1>4. StoreOK(store') /\ OthersSame(mid, store', e) /\ View(store', e) = Keeping(View(mid, e), {"events"})
  BY <1>3 DEF Becoming
<1>41. OthersSame(store, store', e)
  BY <1>2, <1>4, OthersTwice
<1>5. View(store', e).data = View(store, e).data /\ HasEvents(store', e)
  BY <1>2, <1>3, <1>4 DEF HasEvents
<1>6. DataInv' /\ \A f \in Nodes \ {e} : HasEvents(store, f) => HasEvents(store', f)
  BY <1>1, <1>4, <1>41, <1>5, SameKeeps
<1> QED
  BY <1>5, <1>6

LEMMA UnbindEventsKeeps ==
  ASSUME DataInv, NEW e \in Nodes, UnbindEvents(e)
  PROVE  DataInv' /\ \A f \in Nodes \ {e} : HasEvents(store, f) => HasEvents(store', f)
<1>1. /\ HasEntry(store, e) /\ store' = removePrivate(store, e, {"events"})
      /\ expected' = [expected EXCEPT ![e] = expected[e]] /\ UNCHANGED <<attribute, plain>>
  BY DEF UnbindEvents, Becomes
<1>2. StoreOK(store)
  BY DEF DataInv
<1>3. StoreOK(store') /\ OthersSame(store, store', e) /\ View(store', e).data = View(store, e).data
  <2> DEFINE keys == {"events"}
             new == removePrivate(store, e, keys)
  <2> HIDE DEF keys
  <2>1. StoreOK(new) /\ OthersSame(store, new, e) /\ View(new, e).data = View(store, e).data
    BY <1>1, <1>2, RemovePrivateStore
  <2> HIDE DEF new
  <2>2. store' = new
    BY <1>1 DEF new, keys
  <2> QED
    BY <2>1, <2>2
<1> QED
  BY <1>1, <1>3, SameKeeps

LEMMA SetAttributeKeeps ==
  ASSUME DataInv, NEW e \in Nodes, SetAttribute(e)
  PROVE  DataInv' /\ \A f \in Nodes : HasEvents(store, f) => HasEvents(store', f)
<1>1. PICK text \in Texts \cup {Undefined} : attribute' = [attribute EXCEPT ![e] = text]
  BY DEF SetAttribute
<1>2. UNCHANGED <<store, expected, plain>>
  BY DEF SetAttribute
<1>3. attribute' \in [Nodes -> Texts \cup {Undefined}]
  BY <1>1 DEF DataInv
<1> QED
  BY <1>2, <1>3 DEF DataInv, KeyOK

(* The events of an element go only with its last handler or with itself. *)
EventsStay ==
  \A e \in Nodes : HasEvents(store, e) => HasEvents(store', e) \/ UnbindEvents(e) \/ RemoveNode(e)

LEMMA DataStep ==
  ASSUME DataInv, DataNext
  PROVE  DataInv' /\ EventsStay
<1>1. PICK e \in Nodes :
        \/ SetData(e) \/ SetObject(e) \/ GetData(e) \/ GetAll(e) \/ SetAttribute(e) \/ RemoveData(e)
        \/ RemoveAllData(e) \/ BindEvents(e) \/ UnbindEvents(e) \/ RemoveNode(e)
  BY DEF DataNext
<1> DEFINE Kept == \A f \in Nodes : HasEvents(store, f) => HasEvents(store', f)
<1>2. Kept => EventsStay
  BY DEF EventsStay
<1>3. CASE SetData(e) \/ SetObject(e) \/ GetData(e) \/ GetAll(e)
  BY <1>2, <1>3, SetDataKeeps, SetObjectKeeps, GetDataKeeps, GetAllKeeps
<1>4. CASE SetAttribute(e) \/ RemoveData(e) \/ RemoveAllData(e) \/ BindEvents(e)
  BY <1>2, <1>4, SetAttributeKeeps, RemoveDataKeeps, RemoveAllDataKeeps, BindEventsKeeps
<1>5. CASE UnbindEvents(e) \/ RemoveNode(e)
  <2>1. DataInv' /\ \A f \in Nodes \ {e} : HasEvents(store, f) => HasEvents(store', f)
    BY <1>5, UnbindEventsKeeps, RemoveNodeKeeps
  <2> QED
    BY <1>5, <2>1 DEF EventsStay
<1> QED
  BY <1>1, <1>3, <1>4, <1>5

LEMMA DataStarts == DataInit => DataInv
<1> SUFFICES ASSUME DataInit PROVE DataInv
  OBVIOUS
<1>1. /\ store = [expando |-> [e \in Nodes |-> 0], cache |-> <<>>, deletedIds |-> <<>>, guid |-> 1]
      /\ attribute = [e \in Nodes |-> Undefined] /\ expected = [e \in Nodes |-> Undefined]
  BY DEF DataInit
<1>2. /\ store.expando = [e \in Nodes |-> 0] /\ store.cache = <<>> /\ store.deletedIds = <<>> /\ store.guid = 1
      /\ store = [expando |-> store.expando, cache |-> store.cache, deletedIds |-> store.deletedIds, guid |-> store.guid]
  BY <1>1
<1>3. Used(store) = {}
  BY <1>2 DEF Used
<1>4. <<>> \in [{} -> Entries] /\ <<>> \in Seq(Nat) /\ DOMAIN <<>> = {}
  BY SMT
<1>5. Free(store) = {} /\ IsInjective(store.deletedIds)
  BY <1>2, <1>4 DEF Free, Range, IsInjective
<1>6. Cardinality(Nodes) \in Nat
  BY DataAssumption, FS_CardinalityType
<1>7. {} \subseteq 1 .. 1 - 1 /\ 0 <= Cardinality(Nodes) /\ 1 \in Nat /\ 1 >= 1 /\ 0 \in Nat
  BY <1>6, SMT
<1>8. store.expando \in [Nodes -> Nat] /\ \A e \in Nodes : store.expando[e] = 0
  BY <1>2, <1>7
<1>9. StoreTypeOK(store)
  BY <1>2, <1>3, <1>4, <1>7, <1>8 DEF StoreTypeOK
<1>10. NumbersOK(store)
  <2>1. Free(store) \cup Used(store) = {} /\ Cardinality({}) = 0
    BY <1>3, <1>5, FS_EmptySet
  <2> QED
    BY <1>2, <1>3, <1>5, <1>7, <1>8, <2>1 DEF NumbersOK
<1>11. \A e \in Nodes : View(store, e) = NewEntry
  BY <1>8, <1>9, <1>10, EntryFacts DEF StoreOK, View
<1>12. NewEntry.data["a-b"] = Undefined /\ NewEntry.data["aB"] = Undefined
  BY NamesTwo DEF NewEntry, NoData
<1>13. \A e \in Nodes : KeyOK(e)
  BY <1>1, <1>11, <1>12 DEF KeyOK
<1> QED
  BY <1>1, <1>9, <1>10, <1>13 DEF DataInv, StoreOK

LEMMA DataInvSays == DataInv => OwnEntry /\ IdsBounded /\ ReadsLastWrite
<1> SUFFICES ASSUME DataInv PROVE OwnEntry /\ IdsBounded /\ ReadsLastWrite
  OBVIOUS
<1>1. StoreOK(store) /\ \A e \in Nodes : KeyOK(e)
  BY DEF DataInv
<1>2. store.expando \in [Nodes -> Nat] /\ DOMAIN store.cache = Used(store)
  BY <1>1 DEF StoreOK, StoreTypeOK
<1>3. /\ \A e, f \in Nodes : store.expando[e] # 0 /\ store.expando[e] = store.expando[f] => e = f
      /\ IsInjective(store.deletedIds) /\ Free(store) \cap Used(store) = {}
      /\ Free(store) \cup Used(store) \subseteq 1 .. store.guid - 1 /\ store.guid \in Nat
      /\ Cardinality(Free(store) \cup Used(store)) <= Cardinality(Nodes)
  BY <1>1 DEF StoreOK, StoreTypeOK, NumbersOK
<1>4. Range(store.expando) \ {0} = Used(store)
  BY <1>2 DEF Range, Used
<1>5. 0 \notin Free(store)
  <2>1. 0 \notin 1 .. store.guid - 1
    BY <1>3, SMT
  <2> QED
    BY <1>3, <2>1
<1>6. Free(store) \cap Range(store.expando) = {} /\ Used(store) \subseteq Range(store.expando)
  <2>1. Free(store) \cap Used(store) = {}
    BY <1>3
  <2> QED
    BY <1>4, <1>5, <2>1
<1>7. OwnEntry
  BY <1>2, <1>3, <1>6 DEF OwnEntry, Free
<1>8. IdsBounded
  <2>1. (Range(store.expando) \ {0}) \cup Range(store.deletedIds) = Free(store) \cup Used(store)
    BY <1>4 DEF Free
  <2> QED
    BY <1>3, <2>1 DEF IdsBounded
<1>9. ReadsLastWrite
  <2> SUFFICES ASSUME NEW e \in Nodes, e \notin plain, NEW name \in Names PROVE getData(store, e, name) = expected[e]
    BY DEF ReadsLastWrite
  <2>1. name = "a-b" \/ name = "aB"
    BY NamesTwo
  <2>2. getData(store, e, name) =
          IF View(store, e).data[name] # Undefined THEN View(store, e).data[name] ELSE View(store, e).data["aB"]
    BY GetFromView
  <2>3. View(store, e).data["a-b"] = Undefined /\ View(store, e).data["aB"] = expected[e]
    BY <1>1 DEF KeyOK
  <2> QED
    BY <2>1, <2>2, <2>3
<1> QED
  BY <1>7, <1>8, <1>9

LEMMA EventsSeen ==
  ASSUME NEW s, NEW e
  PROVE  HasEvents(s, e) <=> HasEntry(s, e) /\ "events" \in EntryOf(s, e).pvt
BY DEF HasEvents, View, NewEntry

(***************************************************************************)
(* For any finite number of elements, whatever is set, read, removed and   *)
(* bound for them in any order: an entry of jQuery.cache belongs to one    *)
(* element and a number that waits to be used again to none, so that an    *)
(* element reads the value last set for it, under both names, and never    *)
(* another's; elements take no more numbers than there are elements,       *)
(* whatever handlers take from the same count; and the calls on            *)
(* the user's data leave the element's events alone.                       *)
(***************************************************************************)
THEOREM DataIsOwners == DataSpec => DataOfOwner
<1>1. DataInv /\ [DataNext]_dataVars => DataInv'
  <2> SUFFICES ASSUME DataInv, [DataNext]_dataVars PROVE DataInv'
    OBVIOUS
  <2>1. CASE UNCHANGED dataVars
    BY <2>1 DEF dataVars, DataInv, KeyOK
  <2> QED
    BY <2>1, DataStep
<1> DEFINE Stay ==
      \A e \in Nodes :
        HasEntry(store, e) /\ "events" \in EntryOf(store, e).pvt
          => (HasEntry(store', e) /\ "events" \in EntryOf(store', e).pvt) \/ UnbindEvents(e) \/ RemoveNode(e)
<1>2. DataInv /\ [DataNext]_dataVars => [Stay]_dataVars
  <2> SUFFICES ASSUME DataInv, DataNext PROVE Stay
    OBVIOUS
  <2>1. EventsStay
    BY DataStep
  <2> QED
    BY <2>1, EventsSeen DEF EventsStay
<1>3. DataSpec => []DataInv
  BY <1>1, DataStarts, PTL DEF DataSpec
<1>4. DataSpec => [][Stay]_dataVars
  BY <1>2, <1>3, PTL DEF DataSpec
<1>5. DataSpec => [](OwnEntry /\ IdsBounded /\ ReadsLastWrite)
  BY <1>3, DataInvSays, PTL
<1> QED
  BY <1>4, <1>5, PTL DEF DataOfOwner, EventsKept
=============================================================================
