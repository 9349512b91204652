------------------------------ MODULE WhenThen ------------------------------
(***************************************************************************)
(* jQuery.when(args).then(handlers): what becomes of the promise that when *)
(* returns, the master, and of the one that then returns, newDefer, while  *)
(* the promises among the arguments are settled in any order, before or    *)
(* after the calls; they notify after the call of when.  The promises are  *)
(* those of module Promise; p is settled with the value Value(p).  A       *)
(* handler may return a promise itself.                                    *)
(***************************************************************************)
EXTENDS Integers, Sequences, FiniteSets

LOCAL INSTANCE SequencesExt

CONSTANTS
  Promises,
  Plain,        \* an argument that is no promise; its value
  Missing,      \* no handler; the value of an argument that is not known yet
  Returned,     \* a handler that returns a value; that value
  Throws,       \* a handler that throws
  MaxArgs,      \* bound: the arguments of when
  MaxNotifies   \* bound: the notifications

VARIABLES
  args, fns,
  phase,                    \* called: none, when or then
  out,                      \* each promise: pending, done or fail
  order,                    \* the promises in the order they were settled
  remaining, resolveValues, progressValues,
  master, newDefer,         \* their states and values
  memory,                   \* what the master remembers of the last notification it passed on
  atCall,                   \* how many promises were settled when when was called
  follows,                  \* the promises handlers returned, which newDefer follows
  notified,                 \* the progressValues that the handler for progress was given
  notes                     \* the latest notification of each promise, numbered

whenVars == <<args, fns, phase, out, order, remaining, resolveValues, progressValues, master, newDefer,
              memory, atCall, follows, notified, notes>>

Waiting == [state |-> "pending", value |-> <<>>]

WhenInit ==
  /\ args \in UNION {[1 .. n -> Promises \cup {Plain}] : n \in 0 .. MaxArgs}
  /\ fns \in [done : {Missing, Returned, Throws} \cup Promises, fail : {Missing, Returned} \cup Promises,
                   progress : {Missing} \cup Promises]
  /\ phase = "none"
  /\ out = [p \in Promises |-> "pending"]
  /\ order = <<>>
  /\ remaining = 0
  /\ resolveValues = <<>> /\ progressValues = <<>>
  /\ master = Waiting /\ newDefer = Waiting
  /\ memory = <<>>
  /\ atCall = 0
  /\ follows = {}
  /\ notified = <<>>
  /\ notes = [p \in Promises |-> 0]

Value(p) == <<p>>

isPromise(x) == x \in Promises

(* The subordinate is returned itself. *)
single == Len(args) = 1 /\ isPromise(args[1])

settle(m, state, value) == IF m = Waiting THEN [state |-> state, value |-> value] ELSE m

(* Variant: the value is put where the countdown stands. *)
updateFuncInOrder(w, i, value) ==
  LET vs == [w.resolveValues EXCEPT ![w.remaining] = value]
  IN [w EXCEPT !.resolveValues = vs, !.remaining = @ - 1,
               !.master = IF w.remaining = 1 THEN settle(@, "done", vs) ELSE @]

(* The function for the i-th argument, in which it is resolved; w has the  *)
(* variables of when.                                                      *)
updateFunc(w, i, value) ==
  LET vs == [w.resolveValues EXCEPT ![i] = value]
  IN [w EXCEPT !.resolveValues = vs, !.remaining = @ - 1,
               !.master = IF w.remaining = 1 THEN settle(@, "done", vs) ELSE @]

(* The callbacks of when run for the i-th argument, a promise in this state. *)
Callback(w, i, state) ==
  CASE state = "done" -> updateFunc(w, i, Value(args[i]))
    [] state = "fail" -> [w EXCEPT !.master = settle(@, "fail", <<Value(args[i])>>)]
    [] state = "pending" -> w

(* The body of the loop in when: an argument that is settled already calls *)
(* back at once.                                                           *)
listen(w, i) ==
  IF isPromise(args[i]) THEN Callback(w, i, out[args[i]]) ELSE [w EXCEPT !.remaining = @ - 1]

(* What the function that then adds to the master does to newDefer, unless *)
(* the handler throws or returns a promise.                                *)
forward(m) ==
  CASE fns[m.state] = Missing -> m
    [] fns[m.state] = Returned -> [state |-> m.state, value |-> <<Returned>>]
    [] OTHER -> Waiting

Follow(o, p) == IF o[p] = "pending" THEN Waiting ELSE [state |-> o[p], value |-> <<Value(p)>>]

(* newDefer when the master becomes m, p, if there is one, is settled, and *)
(* the promises are as in o: the first to settle it counts.                *)
newDeferOf(o, m, called, ps) ==
  LET handled == called /\ m.state # "pending"
      returned == handled /\ isPromise(fns[m.state])
      followed == {p \in ps \cap follows : o[p] # "pending"}
  IN CASE newDefer # Waiting -> newDefer
       [] newDefer = Waiting /\ handled /\ ~returned /\ forward(m) # Waiting -> forward(m)
       [] newDefer = Waiting /\ returned /\ o[fns[m.state]] # "pending" -> Follow(o, fns[m.state])
       [] newDefer = Waiting /\ ~(handled /\ ~returned /\ forward(m) # Waiting)
            /\ ~(returned /\ o[fns[m.state]] # "pending") /\ followed # {} ->
            Follow(o, CHOOSE p \in followed : TRUE)
       [] OTHER -> Waiting

(* The promises a handler has returned when the master becomes m. *)
followsOf(m, called) == follows \cup ({fns[m.state] : x \in IF called /\ m.state # "pending" THEN {1} ELSE {}}
                                       \cap Promises)

Fold(op(_, _), w, set) == FoldLeft(op, w, SetToSortSeq(set, <))

(* jQuery.when(args) *)
when ==
  LET n == Len(args)
      entry == [remaining |-> IF n = 1 THEN 0 ELSE n, resolveValues |-> args, master |-> Waiting]
      looped == IF n > 1 THEN Fold(listen, entry, 1 .. n) ELSE entry
      left == IF single THEN 1 ELSE looped.remaining
  IN /\ phase = "none"
     /\ phase' = "when"
     /\ remaining' = left
     /\ resolveValues' = looped.resolveValues
     /\ progressValues' = [i \in DOMAIN args |-> 0]
     /\ master' = IF single THEN Follow(out, args[1])
                  ELSE IF left = 0 THEN settle(looped.master, "done", looped.resolveValues) ELSE looped.master
     /\ atCall' = Len(order)
     /\ UNCHANGED <<args, fns, out, order, newDefer, memory, follows, notified, notes>>

(* The handler for progress is called with progressValues pv; what it      *)
(* returns may be a promise, which the promise next follows then.          *)
progress(pv, next, links) ==
  /\ notified' = Append(notified, pv)
  /\ follows' = links \cup ({fns.progress} \cap Promises)
  /\ newDefer' = IF isPromise(fns.progress) /\ next = Waiting THEN Follow(out, fns.progress) ELSE next

(* master.then(handlers).  A notification that the master remembers is     *)
(* passed on at once, as it was then, even when the master is settled.     *)
then ==
  LET next == newDeferOf(out, master, TRUE, {})
      links == followsOf(master, TRUE)
      threw == master.state # "pending" /\ fns[master.state] = Throws
  IN /\ phase = "when"
     /\ phase' = "then"
     /\ \/ memory # <<>> /\ ~threw /\ progress(memory[1], next, links)
        \/ memory = <<>> /\ newDefer' = next /\ follows' = links /\ UNCHANGED notified
        \/ memory # <<>> /\ threw /\ UNCHANGED <<newDefer, follows, notified>>
     /\ UNCHANGED <<args, fns, out, order, remaining, resolveValues, progressValues, master, memory, atCall, notes>>

(* A promise is settled, and its callbacks run: those of when, and through *)
(* them those of then, before those that a returned promise was given.     *)
SettlePromise(p, state) ==
  LET o == [out EXCEPT ![p] = state]
      entry == [remaining |-> remaining, resolveValues |-> resolveValues, master |-> master]
      called(w, i) == Callback(w, i, state)
      after == Fold(called, entry, {i \in DOMAIN args : args[i] = p})
      m == IF single THEN Follow(o, args[1]) ELSE after.master
      turned == phase = "then" /\ master = Waiting
  IN /\ out[p] = "pending"
     /\ out' = o
     /\ order' = Append(order, p)
     /\ IF phase = "none" THEN UNCHANGED <<remaining, resolveValues, master, newDefer, follows>>
        ELSE /\ remaining' = IF single THEN remaining ELSE after.remaining
             /\ resolveValues' = IF single THEN resolveValues ELSE after.resolveValues
             /\ master' = m
             /\ newDefer' = newDeferOf(o, m, turned, {p})
             /\ follows' = IF turned THEN followsOf(m, TRUE) ELSE follows
     /\ UNCHANGED <<args, fns, phase, progressValues, memory, atCall, notified, notes>>

(* progressValues after a notification of p *)
noted(p, n) == [i \in DOMAIN args |-> IF args[i] = p THEN n ELSE progressValues[i]]

(* A promise notifies: progressValues are updated, and a master that is    *)
(* not settled notifies the handler.                                       *)
NotifyPromise(p) ==
  LET total == Cardinality({x \in 1 .. MaxNotifies : \E r \in Promises : notes[r] >= x})
      pv == noted(p, total + 1)
      heard == master = Waiting /\ \E i \in DOMAIN args : args[i] = p
  IN /\ phase # "none" /\ out[p] = "pending" /\ total < MaxNotifies
     /\ notes' = [notes EXCEPT ![p] = total + 1]
     /\ progressValues' = pv
     /\ memory' = IF heard THEN <<pv>> ELSE memory
     /\ IF heard /\ phase = "then" THEN progress(pv, newDefer, follows) ELSE UNCHANGED <<newDefer, follows, notified>>
     /\ UNCHANGED <<args, fns, phase, out, order, remaining, resolveValues, master, atCall>>

WhenNext ==
  \/ when \/ then
  \/ \E p \in Promises : NotifyPromise(p) \/ \E state \in {"done", "fail"} : SettlePromise(p, state)

WhenSpec == WhenInit /\ [][WhenNext]_whenVars

(***************************************************************************)
(* Properties                                                              *)
(***************************************************************************)

(* The master is resolved once every argument that is a promise is, with   *)
(* the values in the places of the arguments, and it is rejected with the  *)
(* value of the argument that was rejected first: also when promises were  *)
(* settled before the call (of those that were rejected then, the first in *)
(* the arguments counts), when one is given twice and when there are no    *)
(* arguments.                                                              *)
MasterIsAll ==
  phase # "none" =>
    LET failedIn(ps) == SelectSeq(ps, LAMBDA x : isPromise(x) /\ out[x] = "fail" /\ \E i \in DOMAIN args : args[i] = x)
        early == {order[i] : i \in 1 .. atCall}
        first == IF failedIn(SubSeq(order, 1, atCall)) # <<>>
                 THEN Head(failedIn(SelectSeq(args, LAMBDA x : x \in early)))
                 ELSE Head(failedIn(order))
    IN /\ master.state = "done" <=> \A i \in DOMAIN args : isPromise(args[i]) => out[args[i]] = "done"
       /\ master.state = "done" => master.value = [i \in DOMAIN args |-> IF isPromise(args[i]) THEN Value(args[i]) ELSE args[i]]
       /\ master.state = "fail" <=> failedIn(args) # <<>>
       /\ master.state = "fail" => master.value = <<Value(first)>>

(* A rejection stays one unless a handler returns a promise: newDefer is   *)
(* resolved only when the master is, or when a promise that a handler      *)
(* returned is.                                                            *)
RejectionStays ==
  newDefer.state # "pending" /\ newDefer.state # master.state =>
    \E p \in follows : out[p] = newDefer.state /\ newDefer.value = <<Value(p)>>

(* newDefer waits for nothing else than the master, a promise that a       *)
(* handler returned, or a handler that threw.                              *)
ThenSettles ==
  phase = "then" /\ master.state # "pending" /\ newDefer.state = "pending" =>
    \/ fns[master.state] = Throws
    \/ fns[master.state] \in follows /\ out[fns[master.state]] = "pending"

(* What the handler for progress is told of an argument is the latest      *)
(* notification of that promise.                                           *)
ProgressIsLatest ==
  notified # <<>> /\ master = Waiting =>
    \A i \in DOMAIN args : isPromise(args[i]) => notified[Len(notified)][i] = notes[args[i]]

(* The outcomes of when and then follow from those of the arguments and of *)
(* the promises that handlers return, in whatever order these are settled. *)
OutcomesFollow ==
  /\ MasterIsAll
  /\ RejectionStays
  /\ ThenSettles
  /\ ProgressIsLatest
=============================================================================
