------------------------------- MODULE Events -------------------------------
(***************************************************************************)
(* jQuery.event, for one type of event: handlers are bound to elements,    *)
(* directly or for elements below them that a selector matches, and an     *)
(* event is dispatched to them, from the user or from trigger.  Handlers   *)
(* run while others wait: they bind and remove handlers, remove elements,  *)
(* stop the propagation and trigger further events.                        *)
(*                                                                         *)
(* trigger calls the handlers along the path of the element itself, and    *)
(* then the method of the element with the event's name (its default       *)
(* action).  That makes the browser send a native event, to jQuery's       *)
(* handlers too, which discard it by jQuery.event.triggered; a listener    *)
(* that was not bound by jQuery (Foreign) runs with it.                    *)
(***************************************************************************)
EXTENDS Integers, Sequences, FiniteSets

LOCAL INSTANCE SequencesExt

CONSTANTS
  Depth,      \* the elements: 1 .. Depth, each inside the next one
  HandlerFns, \* the handlers, with their guids
  Namespaces, \* the namespaces of events
  None,       \* no selector, no handler, no element
  Foreign,    \* a listener that was not bound by jQuery
  Bindings,   \* how handlers are bound: the selector, the namespaces, and whether by one
  MaxBinds,   \* bound: how often on and one are called
  MaxEvents   \* bound: how many events there are

VARIABLES
  handlers,      \* events[type] of each element
  delegateCount, \* its property delegateCount
  listener,      \* whether the element has jQuery's native listener
  attached,      \* whether the element is inside the next one
  dispatching,   \* the events under way, the innermost first
  triggered,     \* jQuery.event.triggered
  binds,         \* how often on and one were called
  called,        \* for each event, the calls: the binding and the element; once it
                 \* has ended, those of what one bound
  queuedTwice,   \* history: the bindings two events under way were about to call
  reentered      \* history: whether an event was triggered in the default action of another

eventVars ==
  <<handlers, delegateCount, listener, attached, dispatching, triggered, binds, called, queuedTwice, reentered>>

Elements == 1 .. Depth

EventsInit ==
  /\ handlers = [e \in Elements |-> <<>>]
  /\ delegateCount = [e \in Elements |-> 0]
  /\ listener = [e \in Elements |-> FALSE]
  /\ attached = [e \in Elements |-> e # Depth]
  /\ dispatching = <<>>
  /\ triggered = FALSE
  /\ binds = 0
  /\ called = <<>>
  /\ queuedTwice = {}
  /\ reentered = FALSE

(***************************************************************************)
(* Binding                                                                 *)
(***************************************************************************)

(* A namespaced name stands for what has at least its namespaces. *)
namespace_re(ns, h) == ns \subseteq h.ns

(* "Add to the element's handler list, delegates in front" *)
insert(hs, count, h) == IF h.selector # None THEN InsertAt(hs, count + 1, h) ELSE Append(hs, h)

(* What remove takes off: all that fits the handler and the selector, if   *)
(* they are given, and the namespaces.                                     *)
Fits(h, fn, selector, ns) ==
  /\ fn = None \/ h.fn = fn
  /\ selector = None \/ h.selector = selector
  /\ namespace_re(ns, h)

Delegates(hs) == Len(SelectSeq(hs, LAMBDA h : h.selector # None))

countAfter(count, before, after) == count - (Delegates(before) - Delegates(after))

(* "Remove generic event handler if we removed something and no more       *)
(* handlers exist"                                                         *)
listens(before, after) == after # <<>>

removeHandlers(e, fn, selector, ns) ==
  LET left == SelectSeq(handlers[e], LAMBDA h : ~Fits(h, fn, selector, ns))
  IN /\ handlers' = [handlers EXCEPT ![e] = left]
     /\ delegateCount' = [delegateCount EXCEPT ![e] = countAfter(@, handlers[e], left)]
     /\ listener' = [listener EXCEPT ![e] = listens(handlers[e], left)]

(* User code runs: outside all events, or in the innermost handler. *)
ScriptRuns == dispatching # <<>> => dispatching[1].running # None

On(e, fn, selector, ns, one) ==
  /\ ScriptRuns /\ binds < MaxBinds
  /\ selector # None => selector < e
  /\ binds' = binds + 1
  /\ LET h == [id |-> binds + 1, fn |-> fn, selector |-> selector, ns |-> ns, one |-> one]
     IN handlers' = [handlers EXCEPT ![e] = insert(@, delegateCount[e], h)]
  /\ delegateCount' = [delegateCount EXCEPT ![e] = IF selector # None THEN @ + 1 ELSE @]
  /\ listener' = [listener EXCEPT ![e] = TRUE]
  /\ UNCHANGED <<attached, dispatching, triggered, called, queuedTwice, reentered>>

Off(e, fn, selector, ns) ==
  /\ ScriptRuns
  /\ removeHandlers(e, fn, selector, ns)
  /\ handlers' # handlers
  /\ UNCHANGED <<attached, dispatching, triggered, binds, called, queuedTwice, reentered>>

(* .remove() of an element cleans all below it. *)
RemoveElement(e) ==
  /\ ScriptRuns /\ attached[e]
  /\ attached' = [attached EXCEPT ![e] = FALSE]
  /\ LET Keeps(x) == x > e \/ \E y \in x .. e - 1 : ~attached[y]
     IN /\ handlers' = [x \in Elements |-> IF Keeps(x) THEN handlers[x] ELSE <<>>]
        /\ delegateCount' = [x \in Elements |-> IF Keeps(x) THEN delegateCount[x] ELSE 0]
        /\ listener' = [x \in Elements |-> Keeps(x) /\ listener[x]]
  /\ UNCHANGED <<dispatching, triggered, binds, called, queuedTwice, reentered>>

(***************************************************************************)
(* Dispatching                                                             *)
(***************************************************************************)

(* The way of an event from its target up, determined in advance. *)
eventPath(target) ==
  LET above == {e \in target .. Depth : \A x \in target .. e - 1 : attached[x]}
  IN SetToSortSeq(above, LAMBDA a, b : a < b)

NewEvent(no, native, target, ns) ==
  [no |-> no, native |-> native, target |-> target, path |-> eventPath(target), queue |-> <<>>, group |-> None,
   delegateTarget |-> None, running |-> None, stopped |-> FALSE, immediate |-> FALSE, prevented |-> FALSE, ns |-> ns]

(* jQuery.event.handlers: for each element from the target up to below e   *)
(* the delegates that match it, then those of e itself.  It follows the    *)
(* parents the elements have now and selects within e: once the target is  *)
(* no longer below e, no delegate matches.                                 *)
handlerQueue(e, target) ==
  LET hs == handlers[e]
      direct == SubSeq(hs, delegateCount[e] + 1, Len(hs))
      within == \A x \in target .. e - 1 : attached[x]
      below == FlattenSeq([i \in 1 .. e - target |->
                 SelectSeq(SubSeq(hs, 1, delegateCount[e]), LAMBDA h : within /\ h.selector = target + i - 1)])
      calls(seq, x) == [i \in DOMAIN seq |-> [elem |-> x, h |-> seq[i]]]
  IN [i \in DOMAIN below |-> [elem |-> below[i].selector, h |-> below[i]]] \o calls(direct, e)

SetTop(event) == dispatching' = [dispatching EXCEPT ![1] = event]

Begin(event) ==
  /\ dispatching' = <<event>> \o dispatching
  /\ called' = Append(called, <<>>)
  /\ reentered' = (reentered \/ triggered)

(* The user clicks. *)
NativeEvent(target) ==
  /\ dispatching = <<>> /\ Len(called) < MaxEvents
  /\ Begin(NewEvent(Len(called) + 1, TRUE, target, {}))
  /\ UNCHANGED <<handlers, delegateCount, listener, attached, triggered, binds, queuedTwice>>

trigger(target, ns) ==
  /\ ScriptRuns /\ Len(called) < MaxEvents
  /\ Begin(NewEvent(Len(called) + 1, FALSE, target, ns))
  /\ UNCHANGED <<handlers, delegateCount, listener, attached, triggered, binds, queuedTwice>>

Between == dispatching # <<>> /\ dispatching[1].running = None

(* Variant: events in the default action are not discarded. *)
handleAlways(e) == listener[e]

(* eventHandle, which calls dispatch *)
handle(e) == listener[e] /\ ~triggered

(* The event comes to the next element of its path. *)
NextElement ==
  /\ Between /\ dispatching[1].queue = <<>> /\ dispatching[1].path # <<>> /\ ~dispatching[1].stopped
  /\ LET event == dispatching[1]
         e == Head(event.path)
         queue == IF handle(e) THEN handlerQueue(e, event.target) ELSE <<>>
         others == UNION {{c.h.id : c \in ToSet(dispatching[i].queue)} : i \in 2 .. Len(dispatching)}
     IN /\ SetTop([event EXCEPT !.path = Tail(@), !.queue = queue, !.delegateTarget = e, !.group = None])
        /\ queuedTwice' = queuedTwice \cup (others \cap {c.h.id : c \in ToSet(queue)})
  /\ UNCHANGED <<handlers, delegateCount, listener, attached, triggered, binds, called, reentered>>

(* The wrapper that one makes calls off with the event first. *)
offOne(event, h) ==
  IF h.one THEN removeHandlers(event.delegateTarget, h.fn, h.selector, h.ns)
  ELSE UNCHANGED <<handlers, delegateCount, listener>>

(* The loops of dispatch: handlers of the same element go on until         *)
(* stopImmediatePropagation, others until stopPropagation.                 *)
goesOn(event, call) == IF call.elem = event.group THEN ~event.immediate ELSE ~event.stopped

CallHandler ==
  /\ Between /\ dispatching[1].queue # <<>>
  /\ LET event == dispatching[1]
         call == Head(event.queue)
     IN /\ goesOn(event, call) /\ namespace_re(event.ns, call.h)
        /\ SetTop([event EXCEPT !.queue = Tail(@), !.group = call.elem, !.running = call.h.fn])
        /\ offOne(event, call.h)
        /\ called' = [called EXCEPT ![event.no] = Append(@, [id |-> call.h.id, elem |-> call.elem, one |-> call.h.one])]
  /\ UNCHANGED <<attached, triggered, binds, queuedTwice, reentered>>

(* A handler without the event's namespace is passed over. *)
PassOver ==
  /\ Between /\ dispatching[1].queue # <<>>
  /\ LET event == dispatching[1]
         call == Head(event.queue)
     IN /\ goesOn(event, call) /\ ~namespace_re(event.ns, call.h)
        /\ SetTop([event EXCEPT !.queue = Tail(@), !.group = call.elem])
  /\ UNCHANGED <<handlers, delegateCount, listener, attached, triggered, binds, called, queuedTwice, reentered>>

(* The rest of the queue is left when the propagation was stopped. *)
LeaveQueue ==
  /\ Between /\ dispatching[1].queue # <<>> /\ ~goesOn(dispatching[1], Head(dispatching[1].queue))
  /\ SetTop([dispatching[1] EXCEPT !.queue = <<>>])
  /\ UNCHANGED <<handlers, delegateCount, listener, attached, triggered, binds, called, queuedTwice, reentered>>

(* A handler returns, false or another value, or it has called             *)
(* stopPropagation or stopImmediatePropagation before.                     *)
HandlerReturns ==
  /\ dispatching # <<>> /\ dispatching[1].running # None
  /\ \E how \in {"undefined", "false", "stop", "immediate"} :
       /\ dispatching[1].running = Foreign => how = "undefined"
       /\ SetTop([dispatching[1] EXCEPT !.running = None, !.stopped = @ \/ how # "undefined",
                                  !.immediate = @ \/ how = "immediate", !.prevented = @ \/ how = "false"])
  /\ UNCHANGED <<handlers, delegateCount, listener, attached, triggered, binds, called, queuedTwice, reentered>>

Finished == Between /\ dispatching[1].queue = <<>> /\ (dispatching[1].path = <<>> \/ dispatching[1].stopped)

(* trigger calls the method of the element: the browser dispatches it. *)
DefaultAction ==
  /\ Finished /\ ~dispatching[1].native /\ ~dispatching[1].prevented
  /\ triggered' = TRUE
  /\ LET event == dispatching[1]
     IN dispatching' = <<[NewEvent(event.no, TRUE, event.target, {}) EXCEPT !.running = Foreign],
                   event>> \o Tail(dispatching)
  /\ UNCHANGED <<handlers, delegateCount, listener, attached, binds, called, queuedTwice, reentered>>

(* Behind the method of the element, triggered is reset and trigger returns. *)
EndEvent ==
  /\ Finished /\ (dispatching[1].native \/ dispatching[1].prevented)
  /\ LET inTrigger == dispatching[1].native /\ Len(dispatching) > 1
     IN /\ dispatching' = SubSeq(dispatching, IF inTrigger THEN 3 ELSE 2, Len(dispatching))
        /\ triggered' = (triggered /\ ~inTrigger)
  /\ called' = [called EXCEPT ![dispatching[1].no] = SelectSeq(@, LAMBDA c : c.one)]
  /\ UNCHANGED <<handlers, delegateCount, listener, attached, binds, queuedTwice, reentered>>

EventsNext ==
  \/ \E e \in Elements, fn \in HandlerFns, way \in Bindings : On(e, fn, way.selector, way.ns, way.one)
  \/ \E e \in Elements, fn \in HandlerFns \cup {None}, selector \in Elements \cup {None}, ns \in SUBSET Namespaces :
       Off(e, fn, selector, ns)
  \/ \E e \in Elements : RemoveElement(e) \/ NativeEvent(e)
  \/ \E e \in Elements, ns \in SUBSET Namespaces : trigger(e, ns)
  \/ NextElement \/ CallHandler \/ PassOver \/ LeaveQueue \/ HandlerReturns \/ DefaultAction \/ EndEvent

EventsSpec == EventsInit /\ [][EventsNext]_eventVars

(***************************************************************************)
(* Properties                                                              *)
(***************************************************************************)

(* The delegates, and only they, are in front, as many as are counted:     *)
(* dispatch tells them from the others by the count alone.                 *)
DelegatesFirst ==
  \A e \in Elements : \A i \in DOMAIN handlers[e] :
    (handlers[e][i].selector # None) <=> i <= delegateCount[e]

(* An element has jQuery's native listener while it has handlers. *)
ListensForHandlers == \A e \in Elements : listener[e] <=> handlers[e] # <<>>

(* An event calls a handler once for an element, also when it is triggered *)
(* and has a default action: unless another event was triggered in one.    *)
CalledOncePerEvent ==
  ~reentered => \A no \in DOMAIN called :
                  IsInjective([i \in DOMAIN called[no] |-> <<called[no][i].id, called[no][i].elem>>])

(* Handlers are called from the target upwards: a delegate, which handles  *)
(* an element below, before the handlers of the element it is bound to.    *)
BubblesUp ==
  ~reentered => \A no \in DOMAIN called : \A i, k \in DOMAIN called[no] :
                  i < k => called[no][i].elem <= called[no][k].elem

CallsOf(id) == {<<no, i>> \in (DOMAIN called) \X (1 .. MaxBinds * MaxEvents * Depth) :
                  i \in DOMAIN called[no] /\ called[no][i].id = id /\ called[no][i].one}

(* What one bound is called once, unless an event that was about to call   *)
(* it is interrupted by another that does.                                 *)
OneCalledOnce == \A id \in 1 .. binds : id \notin queuedTwice => Cardinality(CallsOf(id)) <= 1

(* An element whose propagation was stopped has no calls at elements above *)
(* the one that was handled then: the element that is handled changes only *)
(* in events that go on.                                                   *)
StopsAbove ==
  [][dispatching # <<>> /\ dispatching[1].stopped =>
       LET before == called[dispatching[1].no]
           after == called'[dispatching[1].no]
       IN before # <<>> /\ called' # called /\ Len(after) > Len(before)
            => after[Len(after)].elem = before[Len(before)].elem]_eventVars

(* An event calls each handler that it should once, from the target        *)
(* upwards until it is stopped, however handlers bind, remove and trigger  *)
(* meanwhile.                                                              *)
HandledOnce ==
  /\ [](DelegatesFirst /\ ListensForHandlers /\ CalledOncePerEvent /\ BubblesUp /\ OneCalledOnce)
  /\ StopsAbove
=============================================================================
