------------------------------ MODULE Callbacks ------------------------------
(***************************************************************************)
(* A list of jQuery.Callbacks in use.  While a callback is called (pc is   *)
(* call) it may use the list itself; otherwise its owner does (pc is       *)
(* idle).  A callback returns false or something else, or throws, which    *)
(* leaves the loop of fire with firing set.                                *)
(***************************************************************************)
EXTENDS CallbackLists, FiniteSets

LOCAL INSTANCE SequencesExt

CONSTANTS
  Fns,        \* the callbacks
  MaxFires,   \* bound: the calls of fire, whose data are numbered
  MaxAdds     \* bound: the calls of add

VARIABLES
  cb,      \* the list
  pc,      \* idle, loop (in the loop of fire) or call (in a callback)
  fires,   \* how often fire was called
  adds,    \* how often add was called
  data,    \* the data of the round
  todo,    \* what the round still has to call: the callbacks, one after the other
  latest,  \* the data each callback was last called with, 0 before
  given,   \* the data callbacks were called with
  emptied, \* whether a callback has emptied the list since it was last fired
  thrown   \* whether a callback threw

callbackVars == <<cb, pc, fires, adds, data, todo, latest, given, emptied, thrown>>

(* Variant: the position of the loop is not moved. *)
removeOneStays(c, index) ==
  [c EXCEPT !.list = RemoveAt(@, index + 1),
            !.firingLength = IF c.firing /\ index <= @ THEN @ - 1 ELSE @]

(* The body of the loop in remove, for the callback at index. *)
removeOne(c, index) ==
  [c EXCEPT !.list = RemoveAt(@, index + 1),
            !.firingLength = IF c.firing /\ index <= @ THEN @ - 1 ELSE @,
            !.firingIndex = IF c.firing /\ index <= @ THEN @ - 1 ELSE @]

remove(c, fn) ==
  IF c.list = Gone THEN c
  ELSE FoldLeft(LAMBDA d, i : IF c.list[Len(c.list) - i] = fn THEN removeOne(d, Len(c.list) - i - 1) ELSE d,
                c, [i \in 1 .. Len(c.list) |-> i - 1])

CallbacksInit ==
  /\ cb \in {NewList(options) : options \in SUBSET {"once", "memory", "unique", "stopOnFalse"}}
  /\ pc = "idle"
  /\ fires = 0
  /\ adds = 0
  /\ data = 0
  /\ todo = <<>>
  /\ latest = [fn \in Fns |-> 0]
  /\ given = {}
  /\ emptied = FALSE
  /\ thrown = FALSE

Outside == pc \in {"idle", "call"}

(* A use of the list from outside the loop may start a round with the data d. *)
Use(c, d) ==
  /\ cb' = c
  /\ pc' = IF c.firing /\ ~cb.firing THEN "loop" ELSE pc
  /\ data' = IF c.firing /\ ~cb.firing THEN d ELSE data
  /\ UNCHANGED <<latest, given, thrown>>

Add ==
  \E fn \in Fns :
    /\ Outside /\ adds < MaxAdds
    /\ adds' = adds + 1
    /\ Use(add(cb, <<fn>>), cb.memory)
    /\ todo' = IF cb.list = Gone \/ ("unique" \in cb.options /\ has(cb, fn)) THEN todo
               ELSE IF pc = "call" \/ (~cb.firing /\ cb.memory # Gone) THEN Append(todo, fn) ELSE todo
    /\ UNCHANGED <<fires, emptied>>

RemoveFn ==
  \E fn \in Fns :
    /\ Outside
    /\ Use(remove(cb, fn), data)
    /\ todo' = SelectSeq(todo, LAMBDA g : g # fn)
    /\ UNCHANGED <<fires, adds, emptied>>

Empty ==
  /\ Outside
  /\ Use(empty(cb), data)
  /\ todo' = <<>>
  /\ emptied' = (emptied \/ pc = "call")
  /\ UNCHANGED <<fires, adds>>

Disable ==
  /\ Outside
  /\ Use(disable(cb), data)
  /\ todo' = <<>>
  /\ UNCHANGED <<fires, adds, emptied>>

Lock ==
  /\ Outside
  /\ Use(lock(cb), data)
  /\ todo' = IF cb.memory = Gone THEN <<>> ELSE todo
  /\ UNCHANGED <<fires, adds, emptied>>

Fire ==
  /\ Outside /\ fires < MaxFires
  /\ fires' = fires + 1
  /\ Use(fireWith(cb, fires + 1), fires + 1)
  /\ todo' = IF pc' = "loop" THEN cb.list ELSE todo
  /\ emptied' = (emptied /\ pc' # "loop")
  /\ UNCHANGED adds

CallNext ==
  /\ pc = "loop" /\ fireContinues(cb)
  /\ pc' = "call"
  /\ latest' = [latest EXCEPT ![At(cb, cb.firingIndex)] = data]
  /\ given' = given \cup {data}
  /\ todo' = Tail(todo)
  /\ UNCHANGED <<cb, fires, adds, data, emptied, thrown>>

(* The round is over; the next may wait in the stack. *)
Leave(c) ==
  /\ cb' = c
  /\ pc' = IF c.firing THEN "loop" ELSE "idle"
  /\ data' = IF c.firing THEN Head(cb.stack) ELSE data
  /\ todo' = IF c.firing THEN c.list ELSE <<>>
  /\ emptied' = (emptied /\ ~c.firing)
  /\ UNCHANGED <<fires, adds, latest, given, thrown>>

Return ==
  /\ pc = "call"
  /\ cb' = fireReturn(cb)
  /\ pc' = "loop"
  /\ UNCHANGED <<fires, adds, data, todo, latest, given, emptied, thrown>>

(* A callback returns false. *)
ReturnFalse ==
  /\ pc = "call" /\ "stopOnFalse" \in cb.options
  /\ Leave(fireEnd(fireBreak(cb)))

(* The exception leaves fire. *)
Throw ==
  /\ pc = "call"
  /\ pc' = "idle"
  /\ thrown' = TRUE
  /\ todo' = <<>>
  /\ UNCHANGED <<cb, fires, adds, data, latest, given, emptied>>

EndFire ==
  /\ pc = "loop" /\ ~fireContinues(cb)
  /\ Leave(fireEnd(cb))

CallbacksNext ==
  \/ Add \/ RemoveFn \/ Empty \/ Disable \/ Lock \/ Fire
  \/ CallNext \/ Return \/ ReturnFalse \/ Throw \/ EndFire

CallbacksSpec == CallbacksInit /\ [][CallbacksNext]_callbackVars

(***************************************************************************)
(* Properties                                                              *)
(***************************************************************************)

(* The variables of the closure are of their types; in a round the length  *)
(* the loop runs to is that of the list, so no call is of undefined.       *)
CallbacksTypeOK ==
  /\ cb.list = Gone \/ cb.list \in Seq(Fns)
  /\ cb.memory = Gone \/ cb.memory \in 1 .. MaxFires
  /\ cb.stack = Gone \/ cb.stack \in Seq(1 .. MaxFires)
  /\ pc # "idle" => cb.firing /\ (cb.list # Gone => cb.firingLength = Len(cb.list))

(* A round calls each callback that is in the list when its turn comes     *)
(* exactly once, in order, however callbacks add and remove one another    *)
(* while they are called.  (Not so when one empties the list: firingIndex  *)
(* stays, and as many of the callbacks added then are passed over.)        *)
RoundCallsEachOnce ==
  pc = "loop" /\ ~emptied => todo = IF cb.list = Gone THEN <<>>
                        ELSE SubSeq(cb.list, cb.firingIndex + 1, cb.firingLength)

(* "memory": whenever the list is left alone and has a memory, every       *)
(* callback in it has been called with the memorized value last, also the  *)
(* ones that were added after or during the round.                         *)
MemoryDelivered ==
  pc = "idle" /\ ~thrown /\ ~emptied /\ cb.memory # Gone =>
    \A i \in DOMAIN cb.list : latest[cb.list[i]] = cb.memory

(* "once": all callbacks of the list see the data of one call of fire.     *)
OnceFiredOnce == "once" \in cb.options => Cardinality(given) <= 1

(* After a callback has thrown the list calls nothing any more: it stays   *)
(* firing, and what is added or fired only waits.                          *)
ThrowStopsList == [][thrown => UNCHANGED <<latest, given>> /\ pc' = "idle"]_callbackVars

(* A list keeps what jQuery.Callbacks promises while its callbacks use it: *)
(* each is called once in a round, with the memorized value when it comes  *)
(* late, with one value if once, and never again after one of them threw.  *)
CallbacksKept ==
  /\ [](CallbacksTypeOK /\ RoundCallsEachOnce /\ MemoryDelivered /\ OnceFiredOnce)
  /\ ThrowStopsList
=============================================================================
