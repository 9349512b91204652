------------------------------ MODULE MCJQuery ------------------------------
(* Lists of callbacks, promises, the callbacks of jsonp, and what jQuery   *)
(* keeps for elements: data and event handlers.  A behaviour is one of the *)
(* part that Init chooses.                                                 *)
EXTENDS Callbacks, Deferred, WhenThen, Jsonp, DataCache, Events

CONSTANT ns1

VARIABLE part

(* A handler for an element or for one inside it, and by one, with a name. *)
SomeBindings ==
  {[selector |-> selector, ns |-> IF one THEN {ns1} ELSE {}, one |-> one] : selector \in {None, 1}, one \in BOOLEAN}

(* The parts that are not chosen have one initial state. *)
Init ==
  /\ part \in {"callbacks", "deferred", "when", "jsonp", "data", "events"}
  /\ CallbacksInit /\ (part # "callbacks" => cb.options = {})
  /\ WhenInit /\ (part # "when" => args = <<>> /\ fns = [done |-> Missing, fail |-> Missing, progress |-> Missing])
  /\ DeferredInit /\ JsonpInit /\ DataInit /\ EventsInit

Next ==
  /\ UNCHANGED part
  /\ \/ part = "callbacks" /\ CallbacksNext /\ UNCHANGED <<deferredVars, whenVars, jsonpVars, dataVars, eventVars>>
     \/ part = "deferred" /\ DeferredNext /\ UNCHANGED <<callbackVars, whenVars, jsonpVars, dataVars, eventVars>>
     \/ part = "when" /\ WhenNext /\ UNCHANGED <<callbackVars, deferredVars, jsonpVars, dataVars, eventVars>>
     \/ part = "jsonp" /\ JsonpNext /\ UNCHANGED <<callbackVars, deferredVars, whenVars, dataVars, eventVars>>
     \/ part = "data" /\ DataNext /\ UNCHANGED <<callbackVars, deferredVars, whenVars, jsonpVars, eventVars>>
     \/ part = "events" /\ EventsNext /\ UNCHANGED <<callbackVars, deferredVars, whenVars, jsonpVars, dataVars>>

Spec == Init /\ [][Next]_<<part, callbackVars, deferredVars, whenVars, jsonpVars, dataVars, eventVars>>
=============================================================================
