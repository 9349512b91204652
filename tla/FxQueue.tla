------------------------------ MODULE FxQueue -------------------------------
(***************************************************************************)
(* The animations of one element: its queue fx with the sentinel           *)
(* "inprogress", the hooks of the queue with the promises that wait for    *)
(* it, the running timers of jQuery.fx and the interval that ticks.        *)
(*                                                                         *)
(* An item is an animation, which takes time (anim) or none (instant), an  *)
(* animation with queue: false that takes time (free) or none (freeInstant,*)
(* as without properties), an animation of no property (empty), which is   *)
(* not queued but dequeues, a delay, or a function (fn) that calls next    *)
(* later.  dequeue starts an item, and an animation that ends dequeues, so *)
(* the operators below are recursive; they map the state fx before a call  *)
(* to that behind it.                                                      *)
(***************************************************************************)
EXTENDS Integers, Sequences, FiniteSets

LOCAL INSTANCE SequencesExt

CONSTANTS
  MaxItems,   \* bound: the items that are made
  MaxStops    \* bound: the calls of stop, finish and clearQueue

VARIABLES
  fx,         \* the state of the element and of jQuery.fx: a record
  kinds,      \* the kinds of the items made so far
  stops,      \* how often stop, finish and clearQueue were called
  promised,   \* promise() of the element: none, waiting or resolved
  overrun,    \* whether stop, finish, clearQueue or an empty animation let an item go on that ran
  stranded    \* whether stop or finish ended a delay and left it to no one to dequeue

fxVars == <<fx, kinds, stops, promised, overrun, stranded>>

Sentinel == 0

FxInit ==
  /\ fx = [queue |-> <<>>, hooks |-> FALSE, stop |-> 0, unqueued |-> 0, timers |-> <<>>, stopped |-> {},
           timerId |-> FALSE, pending |-> {}, finish |-> FALSE, ended |-> {}, emptied |-> FALSE]
  /\ kinds = <<>>
  /\ stops = 0
  /\ promised = "none"
  /\ overrun = FALSE
  /\ stranded = FALSE

Queued(kind) == kind \notin {"free", "freeInstant"}

Animates(kind) == kind \in {"anim", "instant", "free"}

(* hooks.empty.fire, which waits for the animations outside the queue; the *)
(* queue and the hooks are removed.                                        *)
emptyFire(s) ==
  IF s.unqueued > 0 THEN s
  ELSE [s EXCEPT !.queue = <<>>, !.hooks = FALSE, !.stop = 0, !.emptied = TRUE]

RECURSIVE dequeue(_, _), complete(_, _, _), start(_, _, _)

(* Variant: no sentinel is put in front. *)
shiftQueueBare(s) ==
  LET q == IF s.queue # <<>> /\ Head(s.queue) = Sentinel THEN Tail(s.queue) ELSE s.queue
  IN IF q = <<>> THEN [item |-> Sentinel, queue |-> <<>>] ELSE [item |-> Head(q), queue |-> Tail(q)]

(* The item that dequeue shifts off, and the queue then, with the sentinel. *)
shiftQueue(s) ==
  LET q == IF s.queue # <<>> /\ Head(s.queue) = Sentinel THEN Tail(s.queue) ELSE s.queue
  IN IF q = <<>> THEN [item |-> Sentinel, queue |-> <<>>]
     ELSE [item |-> Head(q), queue |-> <<Sentinel>> \o Tail(q)]

(* dequeue, when the items are of the kinds ks *)
dequeue(s, ks) ==
  LET shifted == shiftQueue(s)
      next == [s EXCEPT !.queue = shifted.queue, !.hooks = TRUE]
  IN IF shifted.item = Sentinel THEN emptyFire(next)
     ELSE start([next EXCEPT !.stop = 0], ks, shifted.item)

(* An item is called.  Animation calls jQuery.fx.timer, whose first call   *)
(* of the timer ends an animation that takes no time or has no property;   *)
(* with the flag finish an animation is stopped at its end at once.        *)
start(s, ks, item) ==
  CASE ks[item] \in {"instant", "empty"} -> complete(s, ks, item)
    [] ks[item] = "freeInstant" -> complete([s EXCEPT !.hooks = TRUE, !.unqueued = @ + 1], ks, item)
    [] ks[item] \in {"anim", "free"} ->
         LET runs == [s EXCEPT !.timers = Append(@, item), !.timerId = TRUE,
                               !.hooks = @ \/ ks[item] = "free",
                               !.unqueued = @ + (IF ks[item] = "free" THEN 1 ELSE 0)]
         IN IF s.finish THEN complete([runs EXCEPT !.stopped = @ \cup {item}], ks, item) ELSE runs
    [] ks[item] = "delay" -> [s EXCEPT !.pending = @ \cup {item}, !.stop = item]
    [] ks[item] = "fn" -> [s EXCEPT !.pending = @ \cup {item}]

(* Variant: the last animation outside the queue does not fire empty. *)
completeQuiet(s, ks, item) ==
  LET ended == [s EXCEPT !.ended = @ \cup {item}]
  IN IF Queued(ks[item]) THEN dequeue(ended, ks) ELSE [ended EXCEPT !.unqueued = @ - 1]

(* An animation is resolved: one of the queue dequeues the next item, one  *)
(* outside it counts down.                                                 *)
complete(s, ks, item) ==
  LET ended == [s EXCEPT !.ended = @ \cup {item}]
  IN IF Queued(ks[item]) THEN dequeue(ended, ks)
     ELSE LET fewer == [ended EXCEPT !.unqueued = @ - 1] IN IF s.queue = <<>> THEN emptyFire(fewer) ELSE fewer

(* anim.stop(gotoEnd) *)
animStop(s, ks, item, gotoEnd) ==
  LET halted == [s EXCEPT !.stopped = @ \cup {item}]
  IN CASE item \in s.stopped -> s
       [] item \notin s.stopped /\ (gotoEnd \/ ~Queued(ks[item])) -> complete(halted, ks, item)
       [] OTHER -> [halted EXCEPT !.ended = @ \cup {item}]

(* The loop over the timers, downwards, in stop and finish: those chosen   *)
(* are stopped and removed.                                                *)
RECURSIVE stopTimers(_, _, _, _, _)
stopTimers(s, ks, index, chosen, gotoEnd) ==
  IF index = 0 THEN s
  ELSE LET item == s.timers[index]
           after == animStop(s, ks, item, gotoEnd)
       IN IF item \in chosen
          THEN stopTimers([after EXCEPT !.timers = RemoveAt(@, index)], ks, index - 1, chosen, gotoEnd)
          ELSE stopTimers(s, ks, index - 1, chosen, gotoEnd)

(* The timers whose elem is the element: a timer that is resolved has lost *)
(* it, and may still be in the list.                                       *)
ownTimers(s) == ToSet(s.timers) \ s.stopped

(* queue(type, []): the sentinel goes, too, and the empty queue is dequeued. *)
emptyQueue(s, ks) == dequeue([s EXCEPT !.queue = <<>>, !.hooks = TRUE], ks)

(* stop(clearQueue, gotoEnd) *)
stop(s, ks, clearQueue, gotoEnd) ==
  LET entry == IF clearQueue THEN emptyQueue(s, ks) ELSE s
      hooked == [entry EXCEPT !.pending = @ \ {entry.stop}, !.stop = 0]
      halted == stopTimers(hooked, ks, Len(hooked.timers), ownTimers(hooked), gotoEnd)
  IN IF ownTimers(hooked) = {} \/ ~gotoEnd THEN dequeue(halted, ks) ELSE halted

(* finish(): the animations that wait are called with the flag set. *)
finish(s, ks) ==
  LET queued == {i \in ownTimers(s) : Queued(ks[i])}
      entry == [s EXCEPT !.finish = TRUE, !.queue = <<>>, !.pending = @ \ {s.stop}]
      halted == stopTimers(entry, ks, Len(entry.timers), queued, TRUE)
      waiting == SelectSeq(s.queue, LAMBDA i : i # Sentinel /\ Animates(ks[i]))
      called(t, i) == start(t, ks, i)
  IN [FoldLeft(called, halted, waiting) EXCEPT !.finish = FALSE]

RECURSIVE tickFrom(_, _, _, _)

(* The loop of tick from index on: a timer that is stopped, or whose time  *)
(* is over, is removed; timers that are added meanwhile are called, too.   *)
tickFrom(s, ks, index, over) ==
  IF index > Len(s.timers) THEN s
  ELSE LET item == s.timers[index]
           after == IF item \in over \ s.stopped THEN complete(s, ks, item) ELSE s
       IN IF item \in over \cup s.stopped
          THEN tickFrom([after EXCEPT !.timers = RemoveAt(@, index)], ks, index, over)
          ELSE tickFrom(s, ks, index + 1, over)

tick(s, ks, over) ==
  LET after == tickFrom(s, ks, 1, over) IN [after EXCEPT !.timerId = @ /\ after.timers # <<>>]

(***************************************************************************)
(* The calls, the interval and the timeouts                                *)
(***************************************************************************)

(* The items of the queue that run: animations, and what waits for next.   *)
Running(s) == {i \in ownTimers(s) : Queued(kinds[i])} \cup s.pending

FxBecomes(s) ==
  /\ fx' = [s EXCEPT !.emptied = FALSE]
  /\ promised' = IF promised = "waiting" /\ s.emptied THEN "resolved" ELSE promised

(* animate, delay and queue; an animation that is empty or free does not   *)
(* wait in the queue.                                                      *)
Queue(kind) ==
  LET item == Len(kinds) + 1
      ks == Append(kinds, kind)
      longer == [fx EXCEPT !.queue = Append(@, item), !.hooks = TRUE]
  IN /\ item <= MaxItems
     /\ kinds' = ks
     /\ FxBecomes(IF kind = "empty" \/ ~Queued(kind) THEN start(fx, ks, item)
                  ELSE IF longer.queue[1] # Sentinel THEN dequeue(longer, ks) ELSE longer)
     /\ overrun' = (overrun \/ (kind = "empty" /\ Running(fx) # {}))
     /\ UNCHANGED <<stops, stranded>>

(* tick; those whose time is over have it together. *)
Tick ==
  \E over \in SUBSET ToSet(fx.timers) :
    /\ fx.timerId
    /\ fx.timers = <<>> \/ (over \cup fx.stopped) \cap ToSet(fx.timers) # {}
    /\ FxBecomes(tick(fx, kinds, over))
    /\ UNCHANGED <<kinds, stops, overrun, stranded>>

(* The timeout of a delay, or a function, calls next. *)
CallQueued ==
  \E item \in fx.pending :
    /\ FxBecomes(dequeue([fx EXCEPT !.pending = @ \ {item}, !.ended = @ \cup {item}], kinds))
    /\ UNCHANGED <<kinds, stops, overrun, stranded>>

Interfere(s) ==
  /\ stops < MaxStops
  /\ stops' = stops + 1
  /\ FxBecomes(s)
  /\ overrun' = (overrun \/ Running(fx) \cap Running(s) # {})
  /\ UNCHANGED kinds

Stop(clearQueue, gotoEnd) ==
  /\ Interfere(stop(fx, kinds, clearQueue, gotoEnd))
  /\ stranded' = (stranded \/ (gotoEnd /\ fx.pending # {} /\ ownTimers(fx) # {}))

Finish ==
  /\ Interfere(finish(fx, kinds))
  /\ stranded' = (stranded \/ fx.pending # {})

ClearQueue ==
  /\ Interfere(emptyQueue(fx, kinds))
  /\ UNCHANGED stranded

(* promise(): "resolved when queues of a certain type are emptied" *)
Promise ==
  /\ promised = "none"
  /\ promised' = IF fx.hooks THEN "waiting" ELSE "resolved"
  /\ UNCHANGED <<fx, kinds, stops, overrun, stranded>>

FxNext ==
  \/ \E kind \in {"anim", "instant", "free", "freeInstant", "empty", "delay", "fn"} : Queue(kind)
  \/ Tick \/ CallQueued \/ Finish \/ ClearQueue \/ Promise
  \/ \E clearQueue, gotoEnd \in BOOLEAN : Stop(clearQueue, gotoEnd)

(* The interval ticks, animations end, and every delay and function calls next. *)
FxFairness == WF_fxVars(Tick) /\ WF_fxVars(CallQueued)

FxSpec == FxInit /\ [][FxNext]_fxVars /\ FxFairness

(***************************************************************************)
(* Properties                                                              *)
(***************************************************************************)

(* The queue, the timers and the hooks are of their types; the sentinel is *)
(* at most in front.                                                       *)
FxTypeOK ==
  /\ \A i \in DOMAIN fx.queue : fx.queue[i] \in 0 .. MaxItems /\ (fx.queue[i] = Sentinel => i = 1)
  /\ IsInjective(fx.timers) /\ ToSet(fx.timers) \subseteq DOMAIN kinds
  /\ fx.unqueued \in 0 .. MaxItems

(* "a progress sentinel to prevent the fx queue from being automatically   *)
(* dequeued": one item of the queue runs at a time, unless the queue was   *)
(* cleared under one that goes on (stop(true) is such a case when a delay  *)
(* runs: the hooks that could stop it are removed first), or an animation  *)
(* of no property was called while one ran: it dequeues the next at once.  *)
OneAtATime == ~overrun => Cardinality(Running(fx)) <= 1

(* Items wait only behind one that runs and will dequeue them, unless a    *)
(* delay was ended by stop or finish while other animations ran.           *)
NothingStranded == fx.queue # <<>> /\ ~stranded => Running(fx) # {}

(* The interval ticks while there is a timer. *)
TicksWhileAnimating == fx.timers # <<>> => fx.timerId

(* A promise of the element that waits is not resolved before the last     *)
(* animation of the element has ended, under the same conditions.          *)
PromiseNotEarly ==
  [][promised = "waiting" /\ promised' = "resolved" /\ ~overrun' =>
       Running(fx') = {} /\ fx'.queue = <<>> /\ fx'.unqueued = 0]_fxVars

(* It is resolved in the end. *)
PromiseKept == (promised = "waiting") ~> (promised = "resolved" \/ stranded)

(* The queue moves on one item at a time: what waits has something to wait *)
(* for, what is animated is ticked, and a promise does not come early.     *)
QueueMoves ==
  /\ [](FxTypeOK /\ OneAtATime /\ NothingStranded /\ TicksWhileAnimating)
  /\ PromiseNotEarly
=============================================================================
