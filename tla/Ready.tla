-------------------------------- MODULE Ready --------------------------------
(***************************************************************************)
(* When the callbacks of jQuery.fn.ready run.  jQuery.ready is called by   *)
(* the events of the document, by timers and by holdReady(false); it       *)
(* resolves readyList, which is a Deferred, once the document is ready and *)
(* nobody holds it back.                                                   *)
(*                                                                         *)
(* The document and the browser are external: the body is created and the  *)
(* readyState advances, events follow; in the old IE doScroll works from   *)
(* some time on, which may be before there is a body.                      *)
(***************************************************************************)
EXTENDS Integers

CONSTANTS
  MaxHolds,     \* bound: the calls of holdReady(true)
  MaxReleases   \* bound: the calls of holdReady(false)

ASSUME ReadyBounds == MaxHolds \in Nat /\ MaxReleases \in Nat

VARIABLES
  isReady, readyWait,
  readyList,    \* none, pending or resolved
  listening,    \* the events that completed is attached to
  timers,       \* the calls setTimeout(jQuery.ready) that are due
  scrollTimer,  \* whether doScrollCheck is due
  dom,          \* the document: api (of the browser), readyState, body, events to come, scrolls
  held,         \* how often holdReady(true) was called less how often holdReady(false)
  counts,       \* how often either was called
  balanced      \* whether no holdReady(false) came without its holdReady(true)

readyVars == <<isReady, readyWait, readyList, listening, timers, scrollTimer, dom, held, counts, balanced>>

ReadyInit ==
  /\ isReady = FALSE
  /\ readyWait = 1
  /\ readyList = "none"
  /\ listening = {}
  /\ timers = 0
  /\ scrollTimer = FALSE
  /\ \E api \in {"addEventListener", "attachEvent"}, frame \in BOOLEAN :
       dom = [api |-> api, frame |-> frame, readyState |-> "loading", body |-> FALSE, events |-> {}, scrolls |-> FALSE]
  /\ held = 0
  /\ counts = [hold |-> 0, release |-> 0]
  /\ balanced = TRUE

(* readyWait after holdReady(false) has counted down *)
counted(wait) == IF wait THEN readyWait - 1 ELSE readyWait

(* Variant: the ready event does not count down. *)
leftKeeps(wait) == counted(wait)

(* readyWait after the ready event has counted down, too *)
left(wait) == IF wait THEN counted(wait) ELSE counted(wait) - 1

(* "Abort if there are pending holds or we're already ready" *)
aborts(wait) == IF wait THEN counted(wait) # 0 ELSE isReady

runs(wait) == wait \/ left(wait) <= 0

bodyExists == dom.body

(* Variant: nothing is done when there is no body. *)
againNever(due) == due

again(due) == due + 1

(* jQuery.ready(wait).  Without a readyList the last case throws after it  *)
(* has set isReady; a readyList that is resolved stays so.                 *)
ready(wait, due) ==
  \/ /\ aborts(wait)
     /\ readyWait' = counted(wait) /\ timers' = due
     /\ UNCHANGED <<isReady, readyList>>
  \/ /\ ~aborts(wait) /\ ~bodyExists
     /\ readyWait' = counted(wait) /\ timers' = again(due)
     /\ UNCHANGED <<isReady, readyList>>
  \/ /\ ~aborts(wait) /\ bodyExists
     /\ isReady' = TRUE
     /\ readyWait' = left(wait)
     /\ readyList' = IF readyList = "pending" /\ runs(wait) THEN "resolved" ELSE readyList
     /\ timers' = due

Hold ==
  /\ counts.hold < MaxHolds
  /\ counts' = [counts EXCEPT !.hold = @ + 1]
  /\ readyWait' = readyWait + 1
  /\ held' = held + 1
  /\ UNCHANGED <<isReady, readyList, listening, timers, scrollTimer, dom, balanced>>

Release ==
  /\ counts.release < MaxReleases
  /\ counts' = [counts EXCEPT !.release = @ + 1]
  /\ held' = held - 1
  /\ balanced' = (balanced /\ held > 0)
  /\ ready(TRUE, timers)
  /\ UNCHANGED <<listening, scrollTimer, dom>>

(* jQuery.ready.promise, the first time *)
promise ==
  /\ readyList = "none"
  /\ readyList' = "pending"
  /\ \/ /\ dom.readyState = "complete"
        /\ timers' = timers + 1
        /\ UNCHANGED <<listening, scrollTimer>>
     \/ /\ dom.readyState # "complete" /\ dom.api = "addEventListener"
        /\ listening' = {"DOMContentLoaded", "load"}
        /\ UNCHANGED <<timers, scrollTimer>>
     \/ /\ dom.readyState # "complete" /\ dom.api = "attachEvent"
        /\ listening' = {"readystatechange", "load"}
        /\ scrollTimer' = ~dom.frame
        /\ UNCHANGED timers
  /\ UNCHANGED <<isReady, readyWait, dom, held, counts, balanced>>

(* completed, for an event *)
completed(event) ==
  /\ event \in listening
  /\ IF dom.api = "addEventListener" \/ event = "load" \/ dom.readyState = "complete"
     THEN listening' = {} /\ ready(FALSE, timers)
     ELSE UNCHANGED <<isReady, readyWait, readyList, listening, timers>>

(* An event is dispatched. *)
Event ==
  \E event \in dom.events :
    /\ dom' = [dom EXCEPT !.events = @ \ {event}]
    /\ \/ completed(event)
       \/ event \notin listening /\ UNCHANGED <<isReady, readyWait, readyList, listening, timers>>
    /\ UNCHANGED <<scrollTimer, held, counts, balanced>>

Timer ==
  /\ timers > 0
  /\ ready(FALSE, timers - 1)
  /\ UNCHANGED <<listening, scrollTimer, dom, held, counts, balanced>>

(* doScroll still throws: the check is due again in 50 ms, which changes   *)
(* nothing.  Otherwise it has worked, or the page is ready anyway.         *)
doScrollCheck ==
  /\ scrollTimer /\ (isReady \/ dom.scrolls)
  /\ scrollTimer' = FALSE
  /\ IF isReady THEN UNCHANGED <<isReady, readyWait, readyList, listening, timers>>
     ELSE listening' = {} /\ ready(FALSE, timers)
  /\ UNCHANGED <<dom, held, counts, balanced>>

(* The browser: a body, doScroll, and the readyState with its events. *)
Browser ==
  /\ \/ ~dom.body /\ dom' = [dom EXCEPT !.body = TRUE]
     \/ ~dom.scrolls /\ dom.api = "attachEvent" /\ dom' = [dom EXCEPT !.scrolls = TRUE]
     \/ dom.readyState = "loading" /\ dom.body
        /\ dom' = [dom EXCEPT !.readyState = "interactive",
                              !.events = @ \cup {IF dom.api = "attachEvent" THEN "readystatechange" ELSE "DOMContentLoaded"}]
     \/ dom.readyState = "interactive" /\ dom.events = {}
        /\ dom' = [dom EXCEPT !.readyState = "complete",
                              !.events = IF dom.api = "attachEvent" THEN {"readystatechange", "load"} ELSE {"load"}]
  /\ UNCHANGED <<isReady, readyWait, readyList, listening, timers, scrollTimer, held, counts, balanced>>

ReadyNext == Hold \/ Release \/ promise \/ Event \/ Timer \/ doScrollCheck \/ Browser

(* Timers and events come, and who holds the ready event releases it. *)
ReadyFairness ==
  /\ WF_readyVars(Event) /\ WF_readyVars(Timer) /\ WF_readyVars(doScrollCheck)
  /\ WF_readyVars(held > 0 /\ Release)

(* The document is loaded in the end, too. *)
ReadySpec == ReadyInit /\ [][ReadyNext]_readyVars /\ ReadyFairness /\ WF_readyVars(Browser)

(***************************************************************************)
(* Properties                                                              *)
(***************************************************************************)

(* The counter, the list and the listeners are of their types. *)
ReadyTypeOK ==
  /\ isReady \in BOOLEAN /\ scrollTimer \in BOOLEAN /\ balanced \in BOOLEAN
  /\ readyWait \in Int /\ timers \in Nat /\ held \in Int
  /\ readyList \in {"none", "pending", "resolved"}
  /\ listening \subseteq {"DOMContentLoaded", "readystatechange", "load"}
  /\ dom \in [api : {"addEventListener", "attachEvent"}, frame : BOOLEAN, body : BOOLEAN, scrolls : BOOLEAN,
              readyState : {"loading", "interactive", "complete"},
              events : SUBSET {"DOMContentLoaded", "readystatechange", "load"}]
  /\ counts \in [hold : Nat, release : Nat]

(* While holds and releases are balanced, readyWait counts the holds and   *)
(* one more until the document is ready, by whichever of the events,       *)
(* timers and checks got there first.                                      *)
WaitCounts == balanced => readyWait = held + (IF isReady THEN 0 ELSE 1) /\ held >= 0

(* While they are balanced, no callback of ready runs before the document  *)
(* is parsed and has a body (doScroll is the old IE's sign for parsed).    *)
NotBeforeParsed ==
  balanced /\ readyList = "resolved" => dom.body /\ (dom.readyState # "loading" \/ dom.scrolls)

(* "Hold the ready event": the callbacks do not start while it is held.    *)
HeldBack ==
  [][balanced' /\ readyList # "resolved" /\ readyList' = "resolved" => held' = 0]_readyVars

(* With balanced holds that are all released, the callbacks of ready run,  *)
(* even when they are added after the events of the document.              *)
EventuallyReady == (readyList = "pending") ~> (readyList = "resolved" \/ ~balanced)

(* The callbacks of ready run in time: not before the document is parsed   *)
(* and not while they are held back, since readyWait counts the holds.     *)
ReadyInTime ==
  /\ [](ReadyTypeOK /\ WaitCounts /\ NotBeforeParsed)
  /\ HeldBack
=============================================================================
