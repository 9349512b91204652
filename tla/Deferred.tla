------------------------------ MODULE Deferred ------------------------------
(***************************************************************************)
(* One deferred object of jQuery: three callback lists, of which those for *)
(* done and fail begin with callbacks that set the state, disable the      *)
(* other list and lock the list for progress.                              *)
(*                                                                         *)
(* A callback may use the deferred, and so start a list from within a      *)
(* call of another: frames are the loops of fire under way, the innermost  *)
(* first.  A list fires in one loop at most.                               *)
(***************************************************************************)
EXTENDS CallbackLists

CONSTANTS
  MaxRegs,    \* bound: the calls of done, fail, progress and always
  MaxCalls    \* bound: the calls of resolve, reject and notify, whose values are numbered

VARIABLES
  lists,      \* the three callback lists
  state,      \* what state() returns
  frames,     \* the loops under way: the list, whether in a user's callback, and the value
  regs,       \* the callbacks added: for each the lists, when it was added
  calls,      \* how often resolve, reject and notify were called
  settled,    \* the list and the value of the resolve or reject that took effect
  log,        \* the calls of users' callbacks: the callback, the list and the value
  raised      \* whether a callback threw

deferredVars == <<lists, state, frames, regs, calls, settled, log, raised>>

ListNames == {"done", "fail", "progress"}

User(r) == <<"user", r>>

(* The lists hold the deferred's own callbacks and those of users. *)
Callee == {"state", "disable", "lock", "user"} \X Nat

ASSUME GoneAssumption == Gone \notin Nat \cup Seq(Nat) \cup Seq(Callee)

(* Variant: the list for progress is not locked. *)
internalsNoLock(list) == <<<<"state", 0>>, <<"disable", 0>>>>

(* Variant: the other list is not disabled. *)
internalsNoDisable(list) == <<<<"state", 0>>, <<"lock", 0>>>>

(* What Deferred adds to the list for done and to that for fail. *)
internals(list) == <<<<"state", 0>>, <<"disable", 0>>, <<"lock", 0>>>>

other(list) == IF list = "done" THEN "fail" ELSE "done"

DeferredInit ==
  /\ lists = [list \in ListNames |-> IF list = "progress" THEN NewList({"memory"})
                                     ELSE add(NewList({"once", "memory"}), internals(list))]
  /\ state = "pending"
  /\ frames = <<>>
  /\ regs = <<>>
  /\ calls = 0
  /\ settled = [list |-> "none", value |-> 0]
  /\ log = <<>>
  /\ raised = FALSE

(* Code that uses the deferred runs: outside all loops or in a callback. *)
UserRuns == frames # <<>> => frames[1].inCall

(* The frame of a loop that the new lists run and the old ones do not. *)
Started(new, value) ==
  LET begun == {list \in ListNames : new[list].firing /\ ~lists[list].firing}
  IN IF begun = {} THEN frames
     ELSE <<[list |-> CHOOSE list \in begun : TRUE, inCall |-> FALSE, value |-> value]>> \o frames

(* resolve, reject and notify: fireWith of the list *)
FireDeferred(list) ==
  LET new == [lists EXCEPT ![list] = fireWith(@, calls + 1)]
  IN /\ UserRuns /\ calls < MaxCalls
     /\ calls' = calls + 1
     /\ lists' = new
     /\ frames' = Started(new, calls + 1)
     /\ settled' = IF list # "progress" /\ new[list].firing /\ ~lists[list].firing
                   THEN [list |-> list, value |-> calls + 1] ELSE settled
     /\ UNCHANGED <<state, regs, log, raised>>

(* done, fail and progress add to a list; always adds to the first two, of *)
(* which one at most is not disabled when the other can start.             *)
AddTo(names) ==
  LET r == Len(regs) + 1
      new == [list \in ListNames |-> IF list \in names THEN add(lists[list], <<User(r)>>) ELSE lists[list]]
      memory == {lists[list].memory : list \in names} \ {Gone}
  IN /\ UserRuns /\ Len(regs) < MaxRegs
     /\ regs' = Append(regs, names)
     /\ lists' = new
     /\ frames' = Started(new, IF memory = {} THEN 0 ELSE CHOOSE m \in memory : TRUE)
     /\ UNCHANGED <<state, calls, settled, log, raised>>

Current == LET frame == frames[1] IN At(lists[frame.list], lists[frame.list].firingIndex)

InLoop == frames # <<>> /\ ~frames[1].inCall /\ fireContinues(lists[frames[1].list])

(* One of the deferred's own callbacks runs and returns. *)
RunInternal ==
  LET list == frames[1].list
      next == [lists EXCEPT ![list] = fireReturn(@)]
  IN /\ InLoop /\ Current[1] # "user"
     /\ state' = IF Current[1] = "state" THEN IF list = "done" THEN "resolved" ELSE "rejected" ELSE state
     /\ lists' = CASE Current[1] = "disable" -> [next EXCEPT ![other(list)] = disable(@)]
                   [] Current[1] = "lock" -> [next EXCEPT !["progress"] = lock(@)]
                   [] OTHER -> next
     /\ UNCHANGED <<frames, regs, calls, settled, log, raised>>

CallUser ==
  /\ InLoop /\ Current[1] = "user"
  /\ frames' = [frames EXCEPT ![1].inCall = TRUE]
  /\ log' = Append(log, [reg |-> Current[2], list |-> frames[1].list, value |-> frames[1].value])
  /\ UNCHANGED <<lists, state, regs, calls, settled, raised>>

ReturnUser ==
  /\ frames # <<>> /\ frames[1].inCall
  /\ frames' = [frames EXCEPT ![1].inCall = FALSE]
  /\ lists' = [lists EXCEPT ![frames[1].list] = fireReturn(@)]
  /\ UNCHANGED <<state, regs, calls, settled, log, raised>>

(* The exception leaves all the loops; their lists stay firing. *)
ThrowUser ==
  /\ frames # <<>> /\ frames[1].inCall
  /\ frames' = <<>>
  /\ raised' = TRUE
  /\ UNCHANGED <<lists, state, regs, calls, settled, log>>

EndLoop ==
  LET list == frames[1].list
      new == fireEnd(lists[list])
  IN /\ frames # <<>> /\ ~frames[1].inCall /\ ~fireContinues(lists[list])
     /\ lists' = [lists EXCEPT ![list] = new]
     /\ frames' = IF new.firing THEN [frames EXCEPT ![1].value = Head(lists[list].stack)] ELSE Tail(frames)
     /\ UNCHANGED <<state, regs, calls, settled, log, raised>>

DeferredNext ==
  \/ \E list \in ListNames : FireDeferred(list)
  \/ \E names \in {{"done"}, {"fail"}, {"progress"}, {"done", "fail"}} : AddTo(names)
  \/ RunInternal \/ CallUser \/ ReturnUser \/ ThrowUser \/ EndLoop

DeferredSpec == DeferredInit /\ [][DeferredNext]_deferredVars

(***************************************************************************)
(* Properties                                                              *)
(***************************************************************************)

(* state() and the lists are what they can be; no list is in two loops,    *)
(* and a list in a loop is firing.                                         *)
DeferredTypeOK ==
  /\ state \in {"pending", "resolved", "rejected"}
  /\ \A i, j \in DOMAIN frames : frames[i].list = frames[j].list => i = j
  /\ \A i \in DOMAIN frames : lists[frames[i].list].firing
  /\ \A i \in DOMAIN frames : i > 1 => frames[i].inCall

(* The mapping to Promise: a callback waits until it is in the log. *)
waitingOf(list) ==
  {r \in DOMAIN regs : list \in regs[r] /\ ~\E i \in DOMAIN log : log[i].list = list /\ log[i].reg = r}

Abstract == INSTANCE Promise WITH
  outcome <- settled,
  registered <- Len(regs),
  waiting <- [list \in {"done", "fail"} |-> waitingOf(list)],
  called <- {<<log[i].reg, log[i].value>> : i \in {j \in DOMAIN log : log[j].list # "progress"}}

(* The deferred is a promise, however its callbacks use it while they are  *)
(* called: only the first resolve or reject counts, and every callback is  *)
(* called at most once, in order, for the outcome it was added for.        *)
IsPromise == Abstract!PromiseSpec

(* When the deferred is settled, no loop is under way and no callback      *)
(* threw, every callback for the outcome has been called: those added      *)
(* before, during and after the call of resolve or reject.                 *)
NobodyWaits ==
  frames = <<>> /\ ~raised /\ settled.list # "none" => waitingOf(settled.list) = {}

(* A user's callback for done or fail that asks for the state is told the  *)
(* outcome it was called for.                                              *)
StateSeen ==
  \A i \in DOMAIN frames : frames[i].inCall /\ frames[i].list # "progress" =>
    state = IF frames[i].list = "done" THEN "resolved" ELSE "rejected"

(* Each callback for progress sees the notifications in order and none     *)
(* twice, and no notification that was made after the deferred was         *)
(* settled: also when callbacks notify, or settle the deferred, while they *)
(* are notified.                                                           *)
NotifiedInOrder ==
  \A j \in DOMAIN log : log[j].list = "progress" =>
    /\ settled.list # "none" => log[j].value < settled.value
    /\ \A i \in 1 .. j - 1 : log[i].reg = log[j].reg => log[i].value < log[j].value

(* Whoever waits for the deferred is told, after the state has changed,    *)
(* and notifications come in order and before the outcome.                 *)
ToldInOrder ==
  /\ DeferredTypeOK
  /\ NobodyWaits
  /\ StateSeen
  /\ NotifiedInOrder
=============================================================================
