--------------------------- MODULE CallbackLists ---------------------------
(***************************************************************************)
(* The list that jQuery.Callbacks returns, as operators on a record of the *)
(* variables of its closure.  The loop of fire is cut at the calls of the  *)
(* callbacks, since a callback may use the list it is called from:         *)
(* fireStart enters the loop, the callback at firingIndex is called,       *)
(* fireReturn goes on behind it, and fireEnd leaves the loop.              *)
(*                                                                         *)
(* Positions count from 0 as in the code; list[i] is At(cb, i).  A list    *)
(* that is undefined is Gone, a stack that is undefined or false is Gone,  *)
(* a memory that is undefined or false is Gone.                            *)
(***************************************************************************)
EXTENDS Integers, Sequences

CONSTANT Gone

(* Callbacks(options): options is the set of the flags that are given. *)
NewList(options) ==
  [options |-> options, list |-> <<>>, stack |-> IF "once" \in options THEN Gone ELSE <<>>,
   memory |-> Gone, fired |-> FALSE, firing |-> FALSE, firingIndex |-> 0, firingLength |-> 0, firingStart |-> 0]

At(cb, i) == cb.list[i + 1]

has(cb, fn) == \E i \in DOMAIN cb.list : cb.list[i] = fn

disable(cb) == [cb EXCEPT !.list = Gone, !.stack = Gone, !.memory = Gone]

(* fire, up to the loop *)
fireStart(cb, data) ==
  [cb EXCEPT !.memory = IF "memory" \in cb.options THEN data ELSE Gone,
             !.fired = TRUE, !.firingIndex = cb.firingStart, !.firingStart = 0,
             !.firingLength = Len(cb.list), !.firing = TRUE]

fireContinues(cb) == cb.list # Gone /\ cb.firingIndex < cb.firingLength

(* Behind the loop.  The list goes on with the next call of fire that      *)
(* waits in the stack: then it is firing again.                            *)
fireEnd(cb) ==
  LET stopped == [cb EXCEPT !.firing = FALSE]
  IN CASE cb.list = Gone -> stopped
       [] cb.list # Gone /\ cb.stack # Gone ->
            IF cb.stack = <<>> THEN stopped ELSE fireStart([stopped EXCEPT !.stack = Tail(@)], Head(cb.stack))
       [] cb.list # Gone /\ cb.stack = Gone /\ cb.memory # Gone -> [stopped EXCEPT !.list = <<>>]
       [] OTHER -> disable(stopped)

(* A callback has returned. *)
fireReturn(cb) == [cb EXCEPT !.firingIndex = @ + 1]

(* A callback has returned false, with stopOnFalse. *)
fireBreak(cb) == [cb EXCEPT !.memory = Gone]

(* add, of different functions: into the current batch when the list       *)
(* fires; with a memory they are called right away.                        *)
add(cb, fns) ==
  LET new == IF "unique" \in cb.options THEN SelectSeq(fns, LAMBDA fn : ~has(cb, fn)) ELSE fns
      longer == [cb EXCEPT !.list = @ \o new]
  IN CASE cb.list = Gone -> cb
       [] cb.list # Gone /\ cb.firing -> [longer EXCEPT !.firingLength = Len(longer.list)]
       [] cb.list # Gone /\ ~cb.firing /\ cb.memory # Gone ->
            fireStart([longer EXCEPT !.firingStart = Len(cb.list)], cb.memory)
       [] OTHER -> longer

empty(cb) == [cb EXCEPT !.list = <<>>, !.firingLength = 0]

lock(cb) == IF cb.memory = Gone THEN disable(cb) ELSE [cb EXCEPT !.stack = Gone]

fireWith(cb, data) ==
  CASE cb.list = Gone \/ (cb.fired /\ cb.stack = Gone) -> cb
    [] ~(cb.list = Gone \/ (cb.fired /\ cb.stack = Gone)) /\ cb.firing -> [cb EXCEPT !.stack = Append(@, data)]
    [] OTHER -> fireStart(cb, data)
=============================================================================
