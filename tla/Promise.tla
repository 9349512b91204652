------------------------------ MODULE Promise -------------------------------
(***************************************************************************)
(* What a promise of jQuery.Deferred is for its users: it is resolved or   *)
(* rejected at most once, and then calls the callbacks for that outcome,   *)
(* each once and in the order they were added, with the value of the       *)
(* outcome.  Callbacks are numbered as they are added.                     *)
(***************************************************************************)
EXTENDS Naturals

VARIABLES
  outcome,     \* pending, or the list whose callbacks are called and the value
  registered,  \* how many callbacks were added
  waiting,     \* for either list the callbacks that were not called yet
  called       \* the callbacks that were called, and with which value

promiseVars == <<outcome, registered, waiting, called>>

Pending == [list |-> "none", value |-> 0]

PromiseInit ==
  /\ outcome = Pending
  /\ registered = 0
  /\ waiting = [list \in {"done", "fail"} |-> {}]
  /\ called = {}

Settle(list) ==
  /\ outcome = Pending
  /\ outcome' # Pending /\ outcome'.list = list
  /\ UNCHANGED <<registered, waiting, called>>

(* done, fail and always; progress adds to neither list. *)
Register(lists) ==
  /\ registered' = registered + 1
  /\ waiting' = [list \in DOMAIN waiting |->
                   IF list \in lists THEN waiting[list] \cup {registered + 1} ELSE waiting[list]]
  /\ UNCHANGED <<outcome, called>>

(* The callback that has waited longest is called. *)
CallBack ==
  /\ outcome # Pending
  /\ \E r \in waiting[outcome.list] :
       /\ \A s \in waiting[outcome.list] : r <= s
       /\ waiting' = [waiting EXCEPT ![outcome.list] = @ \ {r}]
       /\ called' = called \cup {<<r, outcome.value>>}
  /\ UNCHANGED <<outcome, registered>>

PromiseNext ==
  \/ \E list \in {"done", "fail"} : Settle(list)
  \/ \E lists \in SUBSET {"done", "fail"} : Register(lists)
  \/ CallBack

PromiseSpec == PromiseInit /\ [][PromiseNext]_promiseVars
=============================================================================
