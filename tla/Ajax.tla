-------------------------------- MODULE Ajax --------------------------------
(***************************************************************************)
(* jQuery.ajax with the XMLHttpRequest transport: the calls of ajax, abort *)
(* and done, the timeout, the answers, and the global events with the      *)
(* counter jQuery.active.                                                  *)
(*                                                                         *)
(* JavaScript runs one piece of code at a time, but the library calls back *)
(* at many points, and there the callback may start requests, abort any    *)
(* request or throw.  stack holds the calls of ajax and done under way,    *)
(* the innermost first, each at the point where callbacks run: prefilter,  *)
(* ajaxStart, beforeSend and ajaxSend in ajax; settle (success, error and  *)
(* statusCode), outcome (ajaxSuccess or ajaxError), complete, ajaxComplete *)
(* and ajaxStop in done.  Answers and timeouts come when stack is empty.   *)
(***************************************************************************)
EXTENDS Integers, Sequences, FiniteSets

CONSTANTS
  Requests,
  Options    \* the options requests are made with: global, async, timeout and beforeSend, Booleans

ASSUME AjaxAssumption ==
  /\ IsFiniteSet(Requests)
  /\ Options \subseteq [global: BOOLEAN, async: BOOLEAN, timeout: BOOLEAN, beforeSend: BOOLEAN]

VARIABLES
  reqs,     \* for each request the variables of its call
  stack,
  active,   \* jQuery.active
  lit,      \* whether the last of ajaxStart and ajaxStop was ajaxStart
  threw     \* whether a callback threw

ajaxVars == <<reqs, stack, active, lit, threw>>

(* dones counts the passes through done; unnoticed says whether the        *)
(* request was aborted where ajax goes on without a look at state.         *)
NewRequest(options) ==
  [options |-> options, opened |-> FALSE, fireGlobals |-> FALSE, state |-> 0, transport |-> "none",
   timeoutTimer |-> FALSE, outcome |-> "pending", dones |-> 0, unnoticed |-> FALSE]

AjaxInit ==
  /\ reqs \in [Requests -> {NewRequest(options) : options \in Options}]
  /\ stack = <<>>
  /\ active = 0
  /\ lit = FALSE
  /\ threw = FALSE

Frame(r, at) == <<[r |-> r, at |-> at]>>

Top(at) == stack # <<>> /\ stack[1].at = at

(* The top frame goes on at another point, or returns. *)
Go(at) == stack' = Frame(stack[1].r, at) \o Tail(stack)
Returns == stack' = Tail(stack)

Set(r, fields) == reqs' = [reqs EXCEPT ![r] = fields]

CallbackPoints ==
  {"prefilter", "ajaxStart", "beforeSend", "ajaxSend", "settle", "outcome", "complete", "ajaxComplete", "ajaxStop"}

InCallback ==
  /\ stack # <<>> /\ stack[1].at \in CallbackPoints
  /\ stack[1].at = "beforeSend" => reqs[stack[1].r].options.beforeSend

UserCode == stack = <<>> \/ InCallback

(* done, up to its first callbacks, on a request that is q; the deferred   *)
(* is settled by the first call only.                                      *)
done(q, result) ==
  IF q.state = 2 THEN q
  ELSE [q EXCEPT !.state = 2, !.transport = "none", !.timeoutTimer = FALSE, !.dones = @ + 1,
                 !.outcome = IF @ = "pending" THEN result ELSE @]

(* The frames of a call of done: none when it returns at once. *)
doneFrames(q, new, r) == IF new.dones = q.dones THEN <<>> ELSE Frame(r, "settle")

(***************************************************************************)
(* ajax                                                                    *)
(***************************************************************************)

ajax(r) ==
  /\ UserCode /\ ~reqs[r].opened
  /\ Set(r, [reqs[r] EXCEPT !.opened = TRUE])
  /\ stack' = Frame(r, "prefilter") \o stack
  /\ UNCHANGED <<active, lit, threw>>

(* "If request was aborted inside a prefilter, stop there"; otherwise the  *)
(* request counts, and the first of a set of requests starts the events.   *)
AfterPrefilters ==
  LET r == stack[1].r
      q == reqs[r]
  IN /\ Top("prefilter")
     /\ \/ q.state = 2 /\ Returns /\ UNCHANGED <<reqs, active, lit>>
        \/ /\ q.state # 2
           /\ Set(r, [q EXCEPT !.fireGlobals = q.options.global])
           /\ active' = IF q.options.global THEN active + 1 ELSE active
           /\ lit' = (lit \/ (q.options.global /\ active = 0))
           /\ Go(IF q.options.global /\ active = 0 THEN "ajaxStart" ELSE "beforeSend")
     /\ UNCHANGED threw

AfterStart == Top("ajaxStart") /\ Go("beforeSend") /\ UNCHANGED <<reqs, active, lit, threw>>

(* beforeSend returned false or aborted the request: it is aborted if not  *)
(* done already.                                                           *)
Canceled ==
  LET r == stack[1].r
      new == done(reqs[r], "error")
  IN /\ Top("beforeSend") /\ reqs[r].options.beforeSend
     /\ Set(r, new)
     /\ stack' = doneFrames(reqs[r], new, r) \o Tail(stack)
     /\ UNCHANGED <<active, lit, threw>>

GoesOn(q) == ~(q.options.beforeSend /\ q.state = 2)

TransportFound ==
  LET q == reqs[stack[1].r]
  IN /\ Top("beforeSend") /\ GoesOn(q)
     /\ Set(stack[1].r, [q EXCEPT !.transport = "made"])
     /\ Go(IF q.fireGlobals THEN "ajaxSend" ELSE "send")
     /\ UNCHANGED <<active, lit, threw>>

NoTransport ==
  LET r == stack[1].r
      new == done(reqs[r], "error")
  IN /\ Top("beforeSend") /\ GoesOn(reqs[r])
     /\ Set(r, new)
     /\ stack' = doneFrames(reqs[r], new, r) \o Tail(stack)
     /\ UNCHANGED <<active, lit, threw>>

(* send of the xhr transport, which throws when the transport is not there *)
(* any more, and may fail; in sync mode the answer is there when it        *)
(* returns, otherwise the listener waits for it.                           *)
transportSend(q) ==
  {done(q, "error")} \cup
  (CASE q.transport # "made" -> {}
     [] q.transport = "made" /\ q.options.async -> {[q EXCEPT !.transport = "sent"]}
     [] OTHER -> {done(q, "success")})

(* The timer is set, state becomes 1 and the transport sends; ajax catches *)
(* what it throws.                                                         *)
Send ==
  LET r == stack[1].r
      ready == [reqs[r] EXCEPT !.state = 1, !.timeoutTimer = (reqs[r].options.async /\ reqs[r].options.timeout)]
  IN /\ Top("ajaxSend") \/ Top("send")
     /\ \E new \in transportSend(ready) :
          Set(r, new) /\ stack' = doneFrames(ready, new, r) \o Tail(stack)
     /\ UNCHANGED <<active, lit, threw>>

(***************************************************************************)
(* done                                                                    *)
(***************************************************************************)

AfterSettle ==
  /\ Top("settle")
  /\ Go(IF reqs[stack[1].r].fireGlobals THEN "outcome" ELSE "complete")
  /\ UNCHANGED <<reqs, active, lit, threw>>

AfterOutcome == Top("outcome") /\ Go("complete") /\ UNCHANGED <<reqs, active, lit, threw>>

(* Variant: a request that failed is not counted down. *)
AfterCompleteSuccess ==
  /\ Top("complete")
  /\ IF reqs[stack[1].r].fireGlobals /\ reqs[stack[1].r].outcome = "success" THEN Go("ajaxComplete") ELSE Returns
  /\ UNCHANGED <<reqs, active, lit, threw>>

AfterComplete ==
  /\ Top("complete")
  /\ IF reqs[stack[1].r].fireGlobals THEN Go("ajaxComplete") ELSE Returns
  /\ UNCHANGED <<reqs, active, lit, threw>>

(* "Handle the global AJAX counter" *)
AfterAjaxComplete ==
  /\ Top("ajaxComplete")
  /\ active' = active - 1
  /\ lit' = (lit /\ active # 1)
  /\ IF active = 1 THEN Go("ajaxStop") ELSE Returns
  /\ UNCHANGED <<reqs, threw>>

AfterStop == Top("ajaxStop") /\ Returns /\ UNCHANGED <<reqs, active, lit, threw>>

(***************************************************************************)
(* Callbacks, answers and timeouts                                         *)
(***************************************************************************)

(* abort, by a callback or by other code; what a transport that has sent   *)
(* the request does then is to drop it.                                    *)
abort(r) ==
  LET new == done(reqs[r], "error")
  IN /\ UserCode /\ reqs[r].opened /\ reqs[r].state # 2
     /\ Set(r, [new EXCEPT !.unnoticed = @ \/ \E i \in DOMAIN stack :
                  /\ stack[i].r = r
                  /\ stack[i].at = "ajaxSend" \/ (stack[i].at = "ajaxStart" /\ ~reqs[r].options.beforeSend)])
     /\ stack' = doneFrames(reqs[r], new, r) \o stack
     /\ UNCHANGED <<active, lit, threw>>

(* The exception leaves all the calls under way. *)
CallbackThrows ==
  /\ InCallback
  /\ stack' = <<>>
  /\ threw' = TRUE
  /\ UNCHANGED <<reqs, active, lit>>

Answer(r) ==
  \E result \in {"success", "error"} :
    /\ stack = <<>> /\ reqs[r].transport = "sent"
    /\ Set(r, done(reqs[r], result))
    /\ stack' = Frame(r, "settle")
    /\ UNCHANGED <<active, lit, threw>>

(* Variant: the timeout only drops the request. *)
TimeoutDrops(r) ==
  /\ stack = <<>> /\ reqs[r].timeoutTimer
  /\ Set(r, [reqs[r] EXCEPT !.timeoutTimer = FALSE, !.transport = "none"])
  /\ UNCHANGED <<stack, active, lit, threw>>

Timeout(r) ==
  LET new == done([reqs[r] EXCEPT !.timeoutTimer = FALSE], "error")
  IN /\ stack = <<>> /\ reqs[r].timeoutTimer
     /\ Set(r, new)
     /\ stack' = doneFrames(reqs[r], new, r)
     /\ UNCHANGED <<active, lit, threw>>

Library ==
  \/ AfterPrefilters \/ AfterStart \/ Canceled \/ TransportFound \/ NoTransport \/ Send
  \/ AfterSettle \/ AfterOutcome \/ AfterComplete \/ AfterAjaxComplete \/ AfterStop

AjaxNext ==
  \/ Library \/ CallbackThrows
  \/ \E r \in Requests : ajax(r) \/ abort(r) \/ Answer(r) \/ Timeout(r)

(* Code that runs goes on, and timers come.  An answer may never come. *)
AjaxFairness == WF_ajaxVars(Library) /\ \A r \in Requests : WF_ajaxVars(Timeout(r))

AjaxSpec == AjaxInit /\ [][AjaxNext]_ajaxVars /\ AjaxFairness

(***************************************************************************)
(* Properties                                                              *)
(***************************************************************************)

Regular == ~threw /\ \A r \in Requests : ~reqs[r].unnoticed

(* The counter and the requests are of their types.  *)
AjaxTypeOK ==
  /\ active \in Int
  /\ \A r \in Requests : /\ reqs[r].state \in 0 .. 2
                         /\ reqs[r].transport \in {"none", "made", "sent"}
                         /\ reqs[r].transport = "sent" => reqs[r].state = 1

(* jQuery.active, "the number of active queries", is that number whenever  *)
(* no code of the library runs, unless a callback threw or a request was   *)
(* aborted where ajax does not notice (by a handler of ajaxSend, or of     *)
(* ajaxStart when there is no beforeSend): however callbacks start and     *)
(* abort requests from within one another.                                 *)
ActiveCounts ==
  stack = <<>> /\ Regular =>
    active = Cardinality({r \in Requests : reqs[r].fireGlobals /\ reqs[r].state < 2})

(* An indicator that ajaxStart lights and ajaxStop puts out is lit exactly *)
(* while there are active requests, under the same conditions.             *)
IndicatorRight == stack = <<>> /\ Regular => lit = (active > 0)

(* "Called once": a request passes through done once, whichever of the     *)
(* answer, the timeout and abort comes first and whatever its callbacks    *)
(* do, unless it was aborted where ajax does not notice.                   *)
DoneOnce == \A r \in Requests : ~reqs[r].unnoticed => reqs[r].dones <= 1

(* The timer of a request is set only while the request is under way.      *)
TimerOnlyActive ==
  \A r \in Requests : reqs[r].timeoutTimer => reqs[r].state = 1

(* A request that is sent with a timeout is settled, and its callbacks for *)
(* complete run, unless a callback throws.                                 *)
TimeoutSettles ==
  \A r \in Requests : (reqs[r].state = 1 /\ reqs[r].timeoutTimer) ~> (reqs[r].outcome # "pending" /\ stack = <<>>)

(* Requests are counted right and settled once, with their timers cleared, *)
(* whatever callbacks do at the points where ajax and done call them.      *)
RequestsCounted ==
  /\ AjaxTypeOK
  /\ ActiveCounts
  /\ IndicatorRight
  /\ DoneOnce
  /\ TimerOnlyActive
=============================================================================
