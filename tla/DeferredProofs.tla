--------------------------- MODULE DeferredProofs ---------------------------
(***************************************************************************)
(* Proofs about Deferred, for any number of callbacks and calls: it is a   *)
(* promise, and whoever waits for it is told in order.                     *)
(*                                                                         *)
(* The inductive invariant DInv has a part for each list on its own:       *)
(* OnceOK says which callbacks of the list for done or fail still wait,    *)
(* NoteOK what the callbacks for progress have been told.  What an         *)
(* operation of CallbackLists does to them is a lemma about one list.      *)
(* FramesFit ties the loops to the lists, and SettledFit says how far the  *)
(* deferred's own callbacks got.  The other invariant is ForItsList.       *)
(***************************************************************************)
EXTENDS Deferred, TLAPS

(* The prover of the leaves that name none. *)
USE Zenon

ListOrGone == Seq(Callee) \cup {Gone}

StackOrGone == Seq(Nat) \cup {Gone}

MemoryOrGone == Nat \cup {Gone}

CallbackList ==
  [options: SUBSET {"once", "memory"}, list: ListOrGone, stack: StackOrGone, memory: MemoryOrGone,
   fired: BOOLEAN, firing: BOOLEAN, firingIndex: Nat, firingLength: Nat, firingStart: Nat]

Frame == [list: ListNames, inCall: BOOLEAN, value: Nat]

Outcomes == {"done", "fail"}

IsUser(c) == c[1] = "user"

(***************************************************************************)
(* One list.  loop says that its loop is under way and not in a user's     *)
(* callback; the first callback that is not called yet is then the one at  *)
(* firingIndex, and else the one behind it, also when it threw.            *)
(***************************************************************************)
Next1(cb, loop) == IF ~cb.firing THEN 1 ELSE IF loop THEN cb.firingIndex + 1 ELSE cb.firingIndex + 2

(* The deferred's own callbacks are in front, and users' callbacks in the  *)
(* order in which they were added.                                         *)
OwnFirst(list) == Len(list) >= 3 /\ \A i \in 1 .. 3 : list[i] = internals("done")[i]

InOrderOfAdding(list, n) ==
  /\ \A i \in DOMAIN list : list[i][2] <= n
  /\ \A i \in DOMAIN list : ~IsUser(list[i]) => i <= 3 /\ OwnFirst(list)
  /\ \A i, j \in DOMAIN list : i < j /\ IsUser(list[i]) => IsUser(list[j]) /\ list[i][2] < list[j][2]

LoopOK(cb, loop) ==
  cb.firing => /\ cb.fired /\ cb.firingLength = Len(cb.list)
               /\ IF loop THEN cb.firingIndex <= Len(cb.list) ELSE cb.firingIndex < Len(cb.list)

(* The users' callbacks from position p on. *)
Behind(list, p) == {list[i][2] : i \in {j \in DOMAIN list : j >= p /\ IsUser(list[j])}}

WaitingIn(cb, loop) == Behind(cb.list, Next1(cb, loop))

(* The list for done or fail, of which the callbacks wait. *)
OnceOK(cb, loop, wait, n) ==
  /\ cb \in CallbackList /\ cb.options = {"once", "memory"} /\ cb.stack = Gone /\ cb.firingStart = 0
  /\ loop => cb.firing
  /\ cb.list = Gone => ~cb.fired /\ ~cb.firing /\ cb.memory = Gone
  /\ cb.list # Gone =>
       /\ InOrderOfAdding(cb.list, n)
       /\ ~cb.fired => cb.memory = Gone /\ OwnFirst(cb.list)
       /\ cb.fired => cb.memory # Gone
       /\ cb.fired /\ ~cb.firing => cb.list = <<>>
       /\ LoopOK(cb, loop)
       /\ wait = WaitingIn(cb, loop)

(* The list for progress, with the notes that its callbacks were given, of *)
(* m notifications so far.                                                 *)
NoteOK(cb, loop, notes, n, m) ==
  /\ cb \in CallbackList /\ cb.options = {"memory"} /\ cb.firingStart = 0
  /\ loop => cb.firing
  /\ cb.list = Gone => cb.stack = Gone /\ cb.memory = Gone /\ ~cb.firing
  /\ cb.stack = Gone /\ cb.list # Gone => cb.memory # Gone
  /\ cb.memory # Gone => cb.fired /\ cb.memory <= m
  /\ cb.stack # Gone => /\ \A i \in DOMAIN cb.stack : cb.stack[i] <= m /\ (cb.memory # Gone => cb.memory < cb.stack[i])
                        /\ \A i, j \in DOMAIN cb.stack : i < j => cb.stack[i] < cb.stack[j]
                        /\ ~cb.firing => cb.stack = <<>>
  /\ \A note \in notes : cb.memory # Gone /\ note[2] <= cb.memory
  /\ cb.list # Gone =>
       /\ InOrderOfAdding(cb.list, n)
       /\ \A i \in DOMAIN cb.list : IsUser(cb.list[i])
       /\ LoopOK(cb, loop)
       /\ cb.firing => cb.memory # Gone
       /\ cb.firing => \A i \in DOMAIN cb.list : i >= Next1(cb, loop) =>
            \A note \in notes : note[1] = cb.list[i][2] => note[2] < cb.memory

(* How many of its own callbacks a list that was fired has called. *)
Internal(cb) == IF cb.list # <<>> /\ ~IsUser(cb.list[1]) THEN cb.firingIndex ELSE 3

(* The innermost of the loops is that of the list, and not in a callback of a user. *)
InLoopIn(fr, list) == fr # <<>> /\ fr[1].list = list /\ ~fr[1].inCall

InLoopOf(list) == InLoopIn(frames, list)

(* The calls of callbacks for done and fail, and those of callbacks for progress. *)
Called == {<<log[i].reg, log[i].value>> : i \in {j \in DOMAIN log : log[j].list # "progress"}}

Notes == {<<log[i].reg, log[i].value>> : i \in {j \in DOMAIN log : log[j].list = "progress"}}

(* The loops fr and the lists ls fit: a list fires in one loop, for the    *)
(* value that it remembers, or its loop was left by an exception.          *)
FramesFit(fr, ls, threw) ==
  /\ fr \in Seq(Frame)
  /\ \A i, j \in DOMAIN fr : fr[i].list = fr[j].list => i = j
  /\ \A i \in DOMAIN fr : ls[fr[i].list].firing /\ fr[i].value = ls[fr[i].list].memory
  /\ \A i \in DOMAIN fr : i > 1 => fr[i].inCall
  /\ ~threw => \A list \in ListNames : ls[list].firing => \E i \in DOMAIN fr : fr[i].list = list

(***************************************************************************)
(* Who settles the deferred goes on to set the state, to disable the other *)
(* list and to lock the third before a callback runs: s is what settled it *)
(* and st the state, m the calls so far.                                   *)
(***************************************************************************)
SettledFit(fr, ls, s, st, m) ==
  /\ s \in [list: {"none"} \cup Outcomes, value: Nat]
  /\ s.list = "none" => s.value = 0 /\ \A list \in Outcomes : ~ls[list].fired /\ ls[list].list # Gone
  /\ s.list # "none" =>
       /\ ls[s.list].fired /\ ls[s.list].memory = s.value /\ s.value \in 1 .. m
       /\ ~ls[other(s.list)].fired
       /\ ls["progress"].memory # Gone => ls["progress"].memory < s.value
       /\ Internal(ls[s.list]) < 3 => InLoopIn(fr, s.list)
       /\ Internal(ls[s.list]) >= 1 => st = IF s.list = "done" THEN "resolved" ELSE "rejected"
       /\ Internal(ls[s.list]) >= 2 => ls[other(s.list)].list = Gone
       /\ Internal(ls[s.list]) >= 3 => ls["progress"].stack = Gone

LogOK ==
  /\ log \in Seq([reg: Nat, list: ListNames, value: Nat])
  /\ \A i \in DOMAIN log : log[i].reg \in 0 .. Len(regs)
  /\ \A i, j \in DOMAIN log : i < j /\ log[i].list = "progress" /\ log[j].list = "progress" /\ log[i].reg = log[j].reg
                                => log[i].value < log[j].value

Types ==
  /\ DOMAIN lists = ListNames
  /\ state \in {"pending", "resolved", "rejected"}
  /\ regs \in Seq(SUBSET ListNames) /\ calls \in Nat /\ raised \in BOOLEAN

DInv ==
  /\ Types
  /\ \A list \in Outcomes : OnceOK(lists[list], InLoopOf(list), waitingOf(list), Len(regs))
  /\ NoteOK(lists["progress"], InLoopOf("progress"), Notes, Len(regs), calls)
  /\ FramesFit(frames, lists, raised)
  /\ SettledFit(frames, lists, settled, state, calls)
  /\ LogOK

------------------------------------------------------------------------------
(* Callbacks and the lists of them. *)

LEMMA CallbackFacts ==
  /\ \A c \in Callee : c[2] \in Nat /\ (IsUser(c) => c = User(c[2]))
  /\ \A r \in Nat : User(r) \in Callee /\ IsUser(User(r)) /\ User(r)[2] = r
BY SMT DEF Callee, IsUser, User

LEMMA InternalFacts ==
  LET own == internals("done")
  IN /\ own \in Seq(Callee) /\ DOMAIN own = 1 .. 3 /\ Len(own) = 3
     /\ \A list : internals(list) = own
     /\ own[1][1] = "state" /\ own[2][1] = "disable" /\ own[3][1] = "lock"
     /\ own[1][2] = 0 /\ own[2][2] = 0 /\ own[3][2] = 0
BY SMT DEF internals, Callee

LEMMA InternalNotUser ==
  \A i \in 1 .. 3 : ~IsUser(internals("done")[i]) /\ internals("done")[i][2] = 0
<1>1. \A i \in 1 .. 3 : i = 1 \/ i = 2 \/ i = 3
  BY SMT
<1>2. "state" # "user" /\ "disable" # "user" /\ "lock" # "user"
  OBVIOUS
<1> QED
  BY <1>1, <1>2, InternalFacts DEF IsUser

LEMMA AppendFacts ==
  ASSUME NEW list \in Seq(Callee), NEW n \in Nat, InOrderOfAdding(list, n)
  PROVE  LET longer == list \o <<User(n + 1)>>
         IN /\ longer \in Seq(Callee) /\ Len(longer) = Len(list) + 1
            /\ \A i \in DOMAIN list : i \in DOMAIN longer /\ longer[i] = list[i]
            /\ longer[Len(list) + 1] = User(n + 1) /\ Len(list) + 1 \in DOMAIN longer
            /\ \A i \in DOMAIN longer : i \in DOMAIN list \/ i = Len(list) + 1
            /\ InOrderOfAdding(longer, n + 1)
            /\ OwnFirst(list) => OwnFirst(longer)
            /\ \A p \in Nat : p <= Len(list) + 1 => Behind(longer, p) = Behind(list, p) \cup {n + 1}
<1> DEFINE longer == list \o <<User(n + 1)>>
           last == Len(list) + 1
<1>1. User(n + 1) \in Callee /\ IsUser(User(n + 1)) /\ User(n + 1)[2] = n + 1
  <2>1. n + 1 \in Nat
    BY SMT
  <2> QED
    BY <2>1, CallbackFacts
<1>2. /\ longer \in Seq(Callee) /\ Len(longer) = last
      /\ \A i \in DOMAIN list : i \in DOMAIN longer /\ longer[i] = list[i] /\ i < last
      /\ longer[last] = User(n + 1) /\ last \in DOMAIN longer
      /\ \A i \in DOMAIN longer : i \in DOMAIN list \/ i = last
  <2> HIDE DEF User
  <2> QED
    BY <1>1, SMT
<1> HIDE DEF longer, last
<1>3. \A i \in DOMAIN list : list[i] \in Callee /\ list[i][2] \in Nat
  BY CallbackFacts, SMT
<1>5. OwnFirst(list) => OwnFirst(longer)
  <2>1. OwnFirst(list) => 1 .. 3 \subseteq DOMAIN list /\ Len(longer) >= 3
    BY <1>2, SMT DEF OwnFirst, last
  <2> QED
    BY <2>1, <1>2 DEF OwnFirst
<1>4. InOrderOfAdding(longer, n + 1)
  <2>1. \A i \in DOMAIN list : list[i][2] <= n + 1 /\ list[i][2] < n + 1
    BY <1>3, SMT DEF InOrderOfAdding
  <2>2. n + 1 <= n + 1 /\ ~(last < last)
    BY SMT DEF last
  <2>3. \A i \in DOMAIN longer : longer[i][2] <= n + 1
    BY <1>1, <1>2, <2>1, <2>2
  <2>4. \A i \in DOMAIN longer : ~IsUser(longer[i]) => i <= 3 /\ OwnFirst(longer)
    BY <1>1, <1>2, <1>5 DEF InOrderOfAdding
  <2>5. ASSUME NEW i \in DOMAIN longer, NEW j \in DOMAIN longer, i < j, IsUser(longer[i])
        PROVE  IsUser(longer[j]) /\ longer[i][2] < longer[j][2]
    <3>1. i \in DOMAIN list
      <4>1. CASE i = last
        <5>1. j \in DOMAIN list => j < last
          BY <1>2
        <5>2. last \in Nat /\ (j \in DOMAIN list => j \in Nat)
          BY SMT DEF last
        <5>3. ~(last < j)
          BY <1>2, <5>1, <5>2, <2>2, SMT
        <5> QED
          BY <4>1, <5>3, <2>5
      <4> QED
        BY <4>1, <1>2
    <3>2. CASE j \in DOMAIN list
      BY <3>1, <3>2, <1>2, <2>5 DEF InOrderOfAdding
    <3>3. CASE j = last
      BY <3>1, <3>3, <1>1, <1>2, <2>1
    <3> QED
      BY <3>2, <3>3, <1>2
  <2> QED
    BY <2>3, <2>4, <2>5 DEF InOrderOfAdding
<1>6. ASSUME NEW p \in Nat, p <= last
      PROVE  Behind(longer, p) = Behind(list, p) \cup {n + 1}
  <2>1. last >= p
    BY <1>6, SMT DEF last
  <2>2. ASSUME NEW r \in Behind(longer, p)
        PROVE  r \in Behind(list, p) \cup {n + 1}
    <3>1. PICK i \in DOMAIN longer : i >= p /\ IsUser(longer[i]) /\ r = longer[i][2]
      BY <2>2 DEF Behind
    <3> QED
      BY <3>1, <1>1, <1>2 DEF Behind
  <2>3. Behind(list, p) \subseteq Behind(longer, p)
    BY <1>2 DEF Behind
  <2>4. n + 1 \in Behind(longer, p)
    BY <1>1, <1>2, <2>1 DEF Behind
  <2> QED
    BY <2>2, <2>3, <2>4
<1> QED
  BY <1>2, <1>4, <1>5, <1>6 DEF longer, last

(* A list is one of the callbacks or Gone. *)
LEMMA ListFacts ==
  ASSUME NEW cb \in CallbackList
  PROVE  /\ cb.list # Gone => cb.list \in Seq(Callee) /\ Len(cb.list) \in Nat /\ DOMAIN cb.list = 1 .. Len(cb.list)
         /\ cb.stack # Gone => cb.stack \in Seq(Nat)
         /\ cb.memory # Gone => cb.memory \in Nat
         /\ cb.fired \in BOOLEAN /\ cb.firing \in BOOLEAN
         /\ cb.firingIndex \in Nat /\ cb.firingLength \in Nat /\ cb.firingStart \in Nat
<1>1. /\ cb.list \in ListOrGone /\ cb.stack \in StackOrGone /\ cb.memory \in MemoryOrGone
      /\ cb.fired \in BOOLEAN /\ cb.firing \in BOOLEAN
      /\ cb.firingIndex \in Nat /\ cb.firingLength \in Nat /\ cb.firingStart \in Nat
  BY SMT DEF CallbackList
<1>2. cb.list \in Seq(Callee) => Len(cb.list) \in Nat /\ DOMAIN cb.list = 1 .. Len(cb.list)
  BY SMT
<1> QED
  BY <1>1, <1>2 DEF ListOrGone, StackOrGone, MemoryOrGone

LEMMA GoneIsNone ==
  /\ \A s \in Seq(Callee) : s # Gone
  /\ \A s \in Seq(Nat) : s # Gone
  /\ \A i \in Nat : i # Gone
BY GoneAssumption

(* One field of a list is assigned. *)
LEMMA AssignedTypes ==
  ASSUME NEW cb \in CallbackList
  PROVE  /\ \A v \in ListOrGone : [cb EXCEPT !.list = v] \in CallbackList
         /\ \A v \in StackOrGone : [cb EXCEPT !.stack = v] \in CallbackList
         /\ \A v \in MemoryOrGone : [cb EXCEPT !.memory = v] \in CallbackList
         /\ \A v \in BOOLEAN : [cb EXCEPT !.fired = v] \in CallbackList
         /\ \A v \in BOOLEAN : [cb EXCEPT !.firing = v] \in CallbackList
         /\ \A v \in Nat : [cb EXCEPT !.firingIndex = v] \in CallbackList
         /\ \A v \in Nat : [cb EXCEPT !.firingLength = v] \in CallbackList
         /\ \A v \in Nat : [cb EXCEPT !.firingStart = v] \in CallbackList
<1>1. \A v \in ListOrGone : [cb EXCEPT !.list = v] \in CallbackList
  BY SMT DEF CallbackList
<1>2. \A v \in StackOrGone : [cb EXCEPT !.stack = v] \in CallbackList
  BY SMT DEF CallbackList
<1>3. \A v \in MemoryOrGone : [cb EXCEPT !.memory = v] \in CallbackList
  BY SMT DEF CallbackList
<1>4. \A v \in BOOLEAN : [cb EXCEPT !.fired = v] \in CallbackList
  BY SMT DEF CallbackList
<1>5. \A v \in BOOLEAN : [cb EXCEPT !.firing = v] \in CallbackList
  BY SMT DEF CallbackList
<1>6. \A v \in Nat : [cb EXCEPT !.firingIndex = v] \in CallbackList
  BY SMT DEF CallbackList
<1>7. \A v \in Nat : [cb EXCEPT !.firingLength = v] \in CallbackList
  BY SMT DEF CallbackList
<1>8. \A v \in Nat : [cb EXCEPT !.firingStart = v] \in CallbackList
  BY SMT DEF CallbackList
<1> QED
  BY <1>1, <1>2, <1>3, <1>4, <1>5, <1>6, <1>7, <1>8

(* The fields of a list after each of the operations. *)
LEMMA StartFields ==
  ASSUME NEW cb \in CallbackList, cb.list # Gone, "memory" \in cb.options, NEW data \in Nat
  PROVE  LET new == fireStart(cb, data)
         IN /\ new \in CallbackList /\ new.options = cb.options /\ new.list = cb.list /\ new.stack = cb.stack
            /\ new.memory = data /\ new.fired = TRUE /\ new.firing = TRUE
            /\ new.firingIndex = cb.firingStart /\ new.firingStart = 0 /\ new.firingLength = Len(cb.list)
<1>1. Len(cb.list) \in Nat
  BY ListFacts
<1> DEFINE new == fireStart(cb, data)
<1>2. new = [cb EXCEPT !.memory = data, !.fired = TRUE, !.firingIndex = cb.firingStart, !.firingStart = 0,
                       !.firingLength = Len(cb.list), !.firing = TRUE]
  BY DEF fireStart
<1> HIDE DEF new
<1>3. /\ new.options = cb.options /\ new.list = cb.list /\ new.stack = cb.stack
      /\ new.memory = data /\ new.fired = TRUE /\ new.firing = TRUE
      /\ new.firingIndex = cb.firingStart /\ new.firingStart = 0 /\ new.firingLength = Len(cb.list)
  BY <1>2 DEF CallbackList
<1>4. data \in MemoryOrGone /\ 0 \in Nat /\ TRUE \in BOOLEAN /\ cb.firingStart \in Nat
  BY ListFacts, SMT DEF MemoryOrGone
<1>5. new \in CallbackList
  <2> DEFINE c1 == [cb EXCEPT !.memory = data]
             c2 == [c1 EXCEPT !.fired = TRUE]
             c3 == [c2 EXCEPT !.firingIndex = cb.firingStart]
             c4 == [c3 EXCEPT !.firingStart = 0]
             c5 == [c4 EXCEPT !.firingLength = Len(cb.list)]
  <2>1. new = [c5 EXCEPT !.firing = TRUE]
    BY <1>2
  <2>2. c1 \in CallbackList
    BY <1>4, AssignedTypes
  <2> HIDE DEF c1
  <2>3. c2 \in CallbackList
    BY <1>4, <2>2, AssignedTypes
  <2> HIDE DEF c2
  <2>4. c3 \in CallbackList
    BY <1>4, <2>3, AssignedTypes
  <2> HIDE DEF c3
  <2>5. c4 \in CallbackList
    BY <1>4, <2>4, AssignedTypes
  <2> HIDE DEF c4
  <2>6. c5 \in CallbackList
    BY <1>1, <2>5, AssignedTypes
  <2> HIDE DEF c5
  <2> QED
    BY <1>4, <2>1, <2>6, AssignedTypes
<1> QED
  BY <1>3, <1>5 DEF new

LEMMA ReturnFields ==
  ASSUME NEW cb \in CallbackList
  PROVE  LET new == fireReturn(cb)
         IN /\ new \in CallbackList /\ new.options = cb.options /\ new.list = cb.list /\ new.stack = cb.stack
            /\ new.memory = cb.memory /\ new.fired = cb.fired /\ new.firing = cb.firing
            /\ new.firingIndex = cb.firingIndex + 1 /\ new.firingStart = cb.firingStart
            /\ new.firingLength = cb.firingLength
BY SMT DEF fireReturn, CallbackList

LEMMA DisableFields ==
  ASSUME NEW cb \in CallbackList
  PROVE  LET new == disable(cb)
         IN /\ new \in CallbackList /\ new.options = cb.options /\ new.list = Gone /\ new.stack = Gone
            /\ new.memory = Gone /\ new.fired = cb.fired /\ new.firing = cb.firing
            /\ new.firingIndex = cb.firingIndex /\ new.firingStart = cb.firingStart
            /\ new.firingLength = cb.firingLength
<1> DEFINE new == disable(cb)
<1>1. new = [cb EXCEPT !.list = Gone, !.stack = Gone, !.memory = Gone]
  BY DEF disable
<1> HIDE DEF new
<1>2. /\ new.options = cb.options /\ new.list = Gone /\ new.stack = Gone
      /\ new.memory = Gone /\ new.fired = cb.fired /\ new.firing = cb.firing
      /\ new.firingIndex = cb.firingIndex /\ new.firingStart = cb.firingStart
      /\ new.firingLength = cb.firingLength
  BY <1>1 DEF CallbackList
<1>3. Gone \in ListOrGone /\ Gone \in StackOrGone /\ Gone \in MemoryOrGone
  BY DEF ListOrGone, StackOrGone, MemoryOrGone
<1>4. new \in CallbackList
  <2> DEFINE c1 == [cb EXCEPT !.list = Gone]
             c2 == [c1 EXCEPT !.stack = Gone]
  <2>1. new = [c2 EXCEPT !.memory = Gone]
    BY <1>1
  <2>2. c1 \in CallbackList
    BY <1>3, AssignedTypes
  <2> HIDE DEF c1
  <2>3. c2 \in CallbackList
    BY <1>3, <2>2, AssignedTypes
  <2> HIDE DEF c2
  <2> QED
    BY <1>3, <2>1, <2>3, AssignedTypes
<1> QED
  BY <1>2, <1>4 DEF new

------------------------------------------------------------------------------
(* The lists for done and fail: what each operation makes of OnceOK. *)

(* What OnceOK says of a list that is not Gone. *)
LEMMA OnceFacts ==
  ASSUME NEW cb, NEW loop \in BOOLEAN, NEW wait, NEW n \in Nat, OnceOK(cb, loop, wait, n)
  PROVE  /\ cb \in CallbackList /\ cb.options = {"once", "memory"} /\ cb.stack = Gone /\ cb.firingStart = 0
         /\ cb.fired \in BOOLEAN /\ cb.firing \in BOOLEAN /\ cb.firingIndex \in Nat
         /\ cb.firing => cb.fired
         /\ cb.fired => cb.list # Gone
         /\ cb.list # Gone => cb.list \in Seq(Callee) /\ Len(cb.list) \in Nat /\ DOMAIN cb.list = 1 .. Len(cb.list)
         /\ cb.fired => cb.memory # Gone /\ cb.memory \in Nat
<1>1. cb \in CallbackList
  BY DEF OnceOK
<1>2. cb.memory # Gone => cb.memory \in Nat
  BY <1>1, ListFacts
<1>3. cb.list # Gone => cb.list \in Seq(Callee) /\ Len(cb.list) \in Nat /\ DOMAIN cb.list = 1 .. Len(cb.list)
  BY <1>1, ListFacts
<1> QED
  BY <1>1, <1>2, <1>3, ListFacts DEF OnceOK, LoopOK

LEMMA OnceLater ==
  ASSUME NEW cb, NEW loop \in BOOLEAN, NEW wait, NEW n \in Nat, OnceOK(cb, loop, wait, n)
  PROVE  OnceOK(cb, loop, wait, n + 1)
<1>1. ASSUME cb.list # Gone
      PROVE  InOrderOfAdding(cb.list, n + 1)
  <2>1. cb.list \in Seq(Callee)
    BY <1>1, OnceFacts
  <2>2. \A i \in DOMAIN cb.list : cb.list[i] \in Callee /\ cb.list[i][2] \in Nat
    BY <2>1, CallbackFacts, SMT
  <2>3. \A i \in DOMAIN cb.list : cb.list[i][2] <= n
    BY <1>1 DEF OnceOK, InOrderOfAdding
  <2>4. \A i \in DOMAIN cb.list : cb.list[i][2] <= n + 1
    BY <2>2, <2>3, SMT
  <2> QED
    BY <1>1, <2>4 DEF OnceOK, InOrderOfAdding
<1> QED
  BY <1>1 DEF OnceOK

LEMMA FireOnce ==
  ASSUME NEW cb, NEW wait, NEW n \in Nat, OnceOK(cb, FALSE, wait, n), NEW data \in Nat
  PROVE  LET new == fireWith(cb, data)
         IN /\ cb.list = Gone \/ cb.fired => new = cb
            /\ cb.list # Gone /\ ~cb.fired =>
                 /\ OnceOK(new, TRUE, wait, n)
                 /\ new.fired /\ new.firing /\ ~cb.firing /\ new.memory = data /\ Internal(new) = 0
<1> DEFINE new == fireWith(cb, data)
<1>0. FALSE \in BOOLEAN
  OBVIOUS
<1>1. cb.list = Gone \/ cb.fired => new = cb
  BY <1>0, OnceFacts DEF fireWith
<1>2. ASSUME cb.list # Gone, ~cb.fired
      PROVE  /\ OnceOK(new, TRUE, wait, n)
             /\ new.fired /\ new.firing /\ ~cb.firing /\ new.memory = data /\ Internal(new) = 0
  <2>1. /\ cb \in CallbackList /\ cb.options = {"once", "memory"} /\ cb.stack = Gone /\ cb.firingStart = 0
        /\ ~cb.firing /\ cb.list \in Seq(Callee) /\ Len(cb.list) \in Nat
    BY <1>0, <1>2, OnceFacts
  <2>2. new = fireStart(cb, data)
    BY <1>2, <2>1 DEF fireWith
  <2>3. "memory" \in cb.options
    BY <2>1
  <2>4. /\ new \in CallbackList /\ new.options = cb.options /\ new.list = cb.list /\ new.stack = cb.stack
        /\ new.memory = data /\ new.fired = TRUE /\ new.firing = TRUE
        /\ new.firingIndex = 0 /\ new.firingStart = 0 /\ new.firingLength = Len(cb.list)
    <3> DEFINE s == fireStart(cb, data)
    <3>1. /\ s \in CallbackList /\ s.options = cb.options /\ s.list = cb.list /\ s.stack = cb.stack
          /\ s.memory = data /\ s.fired = TRUE /\ s.firing = TRUE
          /\ s.firingIndex = cb.firingStart /\ s.firingStart = 0 /\ s.firingLength = Len(cb.list)
      BY <1>2, <2>1, <2>3, StartFields
    <3>2. new = s
      BY <2>2
    <3> HIDE DEF s, new
    <3> QED
      BY <2>1, <3>1, <3>2
  <2> HIDE DEF new
  <2>5. OwnFirst(cb.list) /\ InOrderOfAdding(cb.list, n) /\ wait = WaitingIn(cb, FALSE)
    BY <1>2 DEF OnceOK
  <2>6. Next1(cb, FALSE) = 1 /\ Next1(new, TRUE) = 1
    <3>1. 0 + 1 = 1
      BY SMT
    <3> QED
      BY <3>1, <2>1, <2>4 DEF Next1
  <2>7. wait = WaitingIn(new, TRUE)
    BY <2>4, <2>5, <2>6 DEF WaitingIn
  <2>8. LoopOK(new, TRUE)
    <3>1. 0 <= Len(cb.list)
      BY <2>1, SMT
    <3> QED
      BY <3>1, <2>4 DEF LoopOK
  <2>9. data # Gone
    BY GoneIsNone
  <2>10. OnceOK(new, TRUE, wait, n)
    <3>1. new.list = Gone => ~new.fired /\ ~new.firing /\ new.memory = Gone
      BY <1>2, <2>4
    <3>2. new.fired /\ ~new.firing => new.list = <<>>
      BY <2>4
    <3>3. InOrderOfAdding(new.list, n) /\ (~new.fired => new.memory = Gone /\ OwnFirst(new.list))
      BY <2>4, <2>5
    <3>4. /\ new \in CallbackList /\ new.options = {"once", "memory"} /\ new.stack = Gone /\ new.firingStart = 0
          /\ new.firing /\ new.memory # Gone
      BY <2>1, <2>4, <2>9
    <3> QED
      BY <2>7, <2>8, <3>1, <3>2, <3>3, <3>4 DEF OnceOK
  <2>11. Internal(new) = 0
    <3>1. 1 \in 1 .. 3
      BY SMT
    <3>2. ~IsUser(cb.list[1])
      BY <2>5, <3>1, InternalNotUser DEF OwnFirst
    <3>3. cb.list # <<>>
      BY <2>5, SMT DEF OwnFirst
    <3> QED
      BY <2>4, <3>2, <3>3 DEF Internal
  <2> QED
    BY <2>1, <2>4, <2>10, <2>11
<1> QED
  BY <1>1, <1>2

LEMMA ReturnOnce ==
  ASSUME NEW cb, NEW wait, NEW n \in Nat, OnceOK(cb, FALSE, wait, n), cb.firing
  PROVE  LET new == fireReturn(cb)
         IN /\ OnceOK(new, TRUE, wait, n) /\ new.fired /\ new.firing /\ new.memory = cb.memory
            /\ Internal(cb) >= 3 => Internal(new) >= 3
<1> DEFINE new == fireReturn(cb)
<1>0. FALSE \in BOOLEAN
  OBVIOUS
<1>1. /\ cb \in CallbackList /\ cb.options = {"once", "memory"} /\ cb.stack = Gone /\ cb.firingStart = 0
      /\ cb.fired /\ cb.list # Gone /\ cb.list \in Seq(Callee) /\ Len(cb.list) \in Nat /\ cb.firingIndex \in Nat
  BY <1>0, OnceFacts
<1>2. /\ new \in CallbackList /\ new.options = cb.options /\ new.list = cb.list /\ new.stack = cb.stack
      /\ new.memory = cb.memory /\ new.fired = cb.fired /\ new.firing = cb.firing
      /\ new.firingIndex = cb.firingIndex + 1 /\ new.firingStart = cb.firingStart
      /\ new.firingLength = cb.firingLength
  BY <1>1, ReturnFields
<1> HIDE DEF new
<1>3. Next1(cb, FALSE) = Next1(new, TRUE)
  <2>1. (cb.firingIndex + 1) + 1 = cb.firingIndex + 2
    BY <1>1, SMT
  <2> QED
    BY <1>2, <2>1 DEF Next1
<1>4. LoopOK(new, TRUE)
  <2>1. cb.firingIndex < Len(cb.list) /\ cb.firingLength = Len(cb.list)
    BY <1>1 DEF OnceOK, LoopOK
  <2>2. cb.firingIndex + 1 <= Len(cb.list)
    BY <1>1, <2>1, SMT
  <2> QED
    BY <1>1, <1>2, <2>1, <2>2 DEF LoopOK
<1>5. wait = WaitingIn(new, TRUE)
  BY <1>1, <1>2, <1>3 DEF OnceOK, WaitingIn
<1>6. OnceOK(new, TRUE, wait, n)
  BY <1>1, <1>2, <1>4, <1>5 DEF OnceOK
<1>7. Internal(cb) >= 3 => Internal(new) >= 3
  <2>1. cb.firingIndex >= 3 => cb.firingIndex + 1 >= 3
    BY <1>1, SMT
  <2>2. 3 >= 3
    BY SMT
  <2> QED
    BY <1>2, <2>1, <2>2 DEF Internal
<1> QED
  BY <1>1, <1>2, <1>6, <1>7 DEF new

(* The callback at firingIndex of a list in its loop. *)
LEMMA AtFacts ==
  ASSUME NEW cb, NEW wait, NEW n \in Nat, OnceOK(cb, TRUE, wait, n), fireContinues(cb)
  PROVE  LET p == cb.firingIndex + 1
         IN /\ p \in DOMAIN cb.list /\ At(cb, cb.firingIndex) = cb.list[p] /\ cb.list[p] \in Callee
            /\ cb.firing /\ Next1(cb, TRUE) = p /\ cb.firingIndex < Len(cb.list) /\ wait = Behind(cb.list, p)
            /\ InOrderOfAdding(cb.list, n) /\ 1 \in DOMAIN cb.list /\ cb.list # <<>>
<1> DEFINE p == cb.firingIndex + 1
<1>0. TRUE \in BOOLEAN
  OBVIOUS
<1>1. /\ cb.list # Gone /\ cb.list \in Seq(Callee) /\ Len(cb.list) \in Nat /\ cb.firingIndex \in Nat /\ cb.firing
      /\ cb.firingIndex < cb.firingLength /\ DOMAIN cb.list = 1 .. Len(cb.list)
  BY <1>0, OnceFacts DEF fireContinues, OnceOK
<1>2. cb.firingIndex < Len(cb.list)
  BY <1>1 DEF OnceOK, LoopOK
<1>3. p \in 1 .. Len(cb.list) /\ 1 \in 1 .. Len(cb.list)
  BY <1>1, <1>2, SMT
<1>4. cb.list[p] \in Callee /\ cb.list # <<>>
  BY <1>1, <1>3, SMT
<1>5. Next1(cb, TRUE) = p
  BY <1>1 DEF Next1
<1>6. wait = Behind(cb.list, p) /\ InOrderOfAdding(cb.list, n)
  BY <1>1, <1>5 DEF OnceOK, WaitingIn
<1> QED
  BY <1>1, <1>2, <1>3, <1>4, <1>5, <1>6 DEF At

LEMMA AddFields ==
  ASSUME NEW cb \in CallbackList, cb.list # Gone, "memory" \in cb.options, cb.firingStart = 0, NEW c \in Callee
  PROVE  LET new == add(cb, <<c>>)
             longer == cb.list \o <<c>>
         IN /\ new \in CallbackList /\ new.options = cb.options /\ new.stack = cb.stack /\ new.memory = cb.memory
            /\ new.list = longer /\ new.firingStart = 0
            /\ cb.firing => /\ new.firing /\ new.fired = cb.fired /\ new.firingIndex = cb.firingIndex
                            /\ new.firingLength = Len(longer)
            /\ ~cb.firing /\ cb.memory # Gone =>
                 new.firing /\ new.fired /\ new.firingIndex = Len(cb.list) /\ new.firingLength = Len(longer)
            /\ ~cb.firing /\ cb.memory = Gone => ~new.firing /\ new.fired = cb.fired
<1> DEFINE new == add(cb, <<c>>)
           longer == cb.list \o <<c>>
           c1 == [cb EXCEPT !.list = longer]
<1>1. cb.list \in Seq(Callee) /\ Len(cb.list) \in Nat
  BY ListFacts
<1>2. longer \in Seq(Callee) /\ Len(longer) \in Nat
  BY <1>1, SMT
<1>3. longer \in ListOrGone /\ longer # Gone
  BY <1>2, GoneIsNone DEF ListOrGone
<1>4. ~("unique" \in cb.options)
  <2>1. cb.options \in SUBSET {"once", "memory"}
    BY SMT DEF CallbackList
  <2>2. "unique" # "once" /\ "unique" # "memory"
    OBVIOUS
  <2> QED
    BY <2>1, <2>2
<1> HIDE DEF longer
<1>5. /\ c1 \in CallbackList /\ c1.options = cb.options /\ c1.stack = cb.stack /\ c1.memory = cb.memory
      /\ c1.list = longer /\ c1.firingStart = cb.firingStart /\ c1.firing = cb.firing /\ c1.fired = cb.fired
      /\ c1.firingIndex = cb.firingIndex
  <2>1. c1 \in CallbackList
    BY <1>3, AssignedTypes
  <2> QED
    BY <2>1 DEF CallbackList
<1>6. ASSUME cb.firing
      PROVE  /\ new \in CallbackList /\ new.options = cb.options /\ new.stack = cb.stack /\ new.memory = cb.memory
             /\ new.list = longer /\ new.firingStart = 0
             /\ new.firing /\ new.fired = cb.fired /\ new.firingIndex = cb.firingIndex
             /\ new.firingLength = Len(longer)
  <2>1. new = [c1 EXCEPT !.firingLength = Len(c1.list)]
    BY <1>4, <1>6 DEF add, longer
  <2>2. Len(c1.list) = Len(longer)
    BY <1>5
  <2> HIDE DEF new, c1
  <2>3. new = [c1 EXCEPT !.firingLength = Len(longer)]
    BY <2>1, <2>2
  <2>4. new \in CallbackList
    BY <1>2, <1>5, <2>3, AssignedTypes
  <2> QED
    BY <1>5, <1>6, <2>3, <2>4 DEF CallbackList
<1>7. ASSUME ~cb.firing, cb.memory # Gone
      PROVE  /\ new \in CallbackList /\ new.options = cb.options /\ new.stack = cb.stack /\ new.memory = cb.memory
             /\ new.list = longer /\ new.firingStart = 0
             /\ new.firing /\ new.fired /\ new.firingIndex = Len(cb.list) /\ new.firingLength = Len(longer)
  <2> DEFINE c2 == [c1 EXCEPT !.firingStart = Len(cb.list)]
             s == fireStart(c2, cb.memory)
  <2>1. new = s
    BY <1>4, <1>7 DEF add, longer
  <2>2. cb.memory \in Nat
    BY <1>7, ListFacts
  <2> HIDE DEF c1, new
  <2>3. c2 \in CallbackList
    BY <1>1, <1>5, AssignedTypes
  <2>4. /\ c2.options = cb.options /\ c2.stack = cb.stack /\ c2.list = longer /\ c2.firingStart = Len(cb.list)
    BY <1>5, <2>3 DEF CallbackList
  <2> HIDE DEF c2
  <2>5. c2.list # Gone /\ "memory" \in c2.options
    BY <1>3, <2>4
  <2>6. /\ s \in CallbackList /\ s.options = c2.options /\ s.list = c2.list /\ s.stack = c2.stack
        /\ s.memory = cb.memory /\ s.fired = TRUE /\ s.firing = TRUE
        /\ s.firingIndex = c2.firingStart /\ s.firingStart = 0 /\ s.firingLength = Len(c2.list)
    BY <2>2, <2>3, <2>5, StartFields
  <2> HIDE DEF s
  <2> QED
    BY <2>1, <2>4, <2>6
<1>8. ASSUME ~cb.firing, cb.memory = Gone
      PROVE  /\ new \in CallbackList /\ new.options = cb.options /\ new.stack = cb.stack /\ new.memory = cb.memory
             /\ new.list = longer /\ new.firingStart = 0
             /\ ~new.firing /\ new.fired = cb.fired
  <2>1. new = c1
    BY <1>4, <1>8 DEF add, longer
  <2> HIDE DEF c1, new
  <2> QED
    BY <1>5, <1>8, <2>1
<1> HIDE DEF new
<1>9. QED
  BY <1>6, <1>7, <1>8 DEF new, longer

LEMMA AddOnce ==
  ASSUME NEW cb, NEW wait, NEW n \in Nat, OnceOK(cb, FALSE, wait, n)
  PROVE  LET new == add(cb, <<User(n + 1)>>)
         IN /\ OnceOK(new, new.firing /\ ~cb.firing, wait \cup {n + 1}, n + 1)
            /\ new.fired = cb.fired /\ new.memory = cb.memory
            /\ cb.firing => new.firing
            /\ new.firing => cb.memory # Gone
            /\ cb.list = Gone => new = cb
            /\ cb.list # Gone => new.list # Gone
            /\ Internal(cb) >= 3 /\ cb.fired => Internal(new) >= 3
<1> DEFINE c == User(n + 1)
           new == add(cb, <<c>>)
           longer == cb.list \o <<c>>
           starts == new.firing /\ ~cb.firing
<1>0. FALSE \in BOOLEAN /\ c \in Callee /\ IsUser(c)
  <2>1. n + 1 \in Nat
    BY SMT
  <2> QED
    BY <2>1, CallbackFacts
<1>1. /\ cb \in CallbackList /\ cb.options = {"once", "memory"} /\ cb.stack = Gone /\ cb.firingStart = 0
      /\ cb.fired \in BOOLEAN /\ cb.firing \in BOOLEAN /\ cb.firingIndex \in Nat
      /\ (cb.firing => cb.fired) /\ (cb.fired => cb.list # Gone) /\ (cb.fired => cb.memory # Gone)
      /\ (cb.list # Gone => cb.list \in Seq(Callee) /\ Len(cb.list) \in Nat)
  BY <1>0, OnceFacts
<1>2. CASE cb.list = Gone
  <2>1. new = cb
    BY <1>2 DEF add
  <2>2. ~cb.fired /\ ~cb.firing /\ cb.memory = Gone
    BY <1>1, <1>2 DEF OnceOK
  <2>3. OnceOK(cb, FALSE, wait \cup {n + 1}, n + 1)
    BY <1>2 DEF OnceOK
  <2>4. (cb.firing /\ ~cb.firing) = FALSE
    OBVIOUS
  <2> HIDE DEF new
  <2>5. OnceOK(new, new.firing /\ ~cb.firing, wait \cup {n + 1}, n + 1)
    BY <2>1, <2>3, <2>4
  <2> QED
    BY <1>2, <2>1, <2>2, <2>5 DEF new
<1>3. CASE cb.list # Gone
  <2> DEFINE k == Len(cb.list)
  <2>1. "memory" \in cb.options
    BY <1>1
  <2>2. /\ new \in CallbackList /\ new.options = cb.options /\ new.stack = cb.stack /\ new.memory = cb.memory
        /\ new.list = longer /\ new.firingStart = 0
        /\ cb.firing => /\ new.firing /\ new.fired = cb.fired /\ new.firingIndex = cb.firingIndex
                        /\ new.firingLength = Len(longer)
        /\ ~cb.firing /\ cb.memory # Gone =>
             new.firing /\ new.fired /\ new.firingIndex = k /\ new.firingLength = Len(longer)
        /\ ~cb.firing /\ cb.memory = Gone => ~new.firing /\ new.fired = cb.fired
    BY <1>0, <1>1, <1>3, <2>1, AddFields
  <2> HIDE DEF new
  <2>3. InOrderOfAdding(cb.list, n) /\ wait = Behind(cb.list, Next1(cb, FALSE)) /\ LoopOK(cb, FALSE)
    BY <1>3 DEF OnceOK, WaitingIn
  <2>4. /\ longer \in Seq(Callee) /\ Len(longer) = k + 1
        /\ \A i \in DOMAIN cb.list : i \in DOMAIN longer /\ longer[i] = cb.list[i]
        /\ longer[k + 1] = c
        /\ InOrderOfAdding(longer, n + 1)
        /\ (OwnFirst(cb.list) => OwnFirst(longer))
        /\ \A p \in Nat : p <= k + 1 => Behind(longer, p) = Behind(cb.list, p) \cup {n + 1}
    BY <1>1, <1>3, <2>3, AppendFacts
  <2>5. longer # Gone
    BY <2>4, GoneIsNone
  <2> HIDE DEF longer
  <2>6. k \in Nat /\ (cb.memory = Gone => ~cb.fired /\ ~cb.firing)
    BY <1>1, <1>3
  <2>7. cb.memory # Gone => cb.fired
    BY <1>1, <1>3 DEF OnceOK
  <2>8. new.fired = cb.fired /\ (new.firing => cb.memory # Gone) /\ new.firing \in BOOLEAN
    <3>1. new.firing \in BOOLEAN /\ new.fired \in BOOLEAN
      BY <2>2, ListFacts
    <3> QED
      BY <1>1, <2>2, <2>6, <2>7, <3>1
  <2>9. ASSUME cb.firing
        PROVE  /\ starts = FALSE /\ wait \cup {n + 1} = WaitingIn(new, FALSE) /\ LoopOK(new, FALSE)
               /\ Internal(cb) >= 3 => Internal(new) >= 3
    <3>1. cb.firingIndex < k /\ cb.firingLength = k
      BY <2>3, <2>9 DEF LoopOK
    <3>2. cb.firingIndex + 2 <= k + 1 /\ cb.firingIndex + 2 \in Nat /\ cb.firingIndex < k + 1 /\ k # 0
      BY <1>1, <2>6, <3>1, SMT
    <3>3. Next1(cb, FALSE) = cb.firingIndex + 2 /\ Next1(new, FALSE) = cb.firingIndex + 2
      BY <2>2, <2>9 DEF Next1
    <3>4. LoopOK(new, FALSE)
      BY <1>1, <2>2, <2>4, <2>9, <3>2 DEF LoopOK
    <3>5. wait \cup {n + 1} = WaitingIn(new, FALSE)
      BY <2>2, <2>3, <2>4, <3>2, <3>3 DEF WaitingIn
    <3>6. cb.list # <<>> /\ longer # <<>> /\ longer[1] = cb.list[1]
      <4>1. cb.list # <<>> /\ longer # <<>>
        BY <1>1, <1>3, <2>4, <3>2, SMT
      <4>2. 1 \in DOMAIN cb.list
        BY <1>1, <1>3, <3>2, SMT
      <4> QED
        BY <4>1, <4>2, <2>4
    <3>7. Internal(new) = Internal(cb)
      BY <2>2, <2>9, <3>6 DEF Internal
    <3> QED
      BY <2>2, <2>9, <3>4, <3>5, <3>7
  <2>10. ASSUME ~cb.firing, cb.memory # Gone
         PROVE  /\ starts = TRUE /\ wait \cup {n + 1} = WaitingIn(new, TRUE) /\ LoopOK(new, TRUE)
                /\ Internal(new) >= 3
    <3>1. cb.list = <<>>
      BY <1>3, <2>7, <2>10 DEF OnceOK
    <3>2. k = 0
      BY <3>1, SMT
    <3>3. Next1(cb, FALSE) = 1 /\ Next1(new, TRUE) = 1
      <4>1. 0 + 1 = 1
        BY SMT
      <4> QED
        BY <4>1, <2>2, <2>10, <3>2 DEF Next1
    <3>4. LoopOK(new, TRUE)
      <4>1. 0 <= k + 1
        BY <3>2, SMT
      <4> QED
        BY <4>1, <2>2, <2>4, <2>10, <3>2 DEF LoopOK
    <3>5. 1 <= k + 1 /\ 1 \in Nat /\ k + 1 = 1
      BY <3>2, SMT
    <3>6. wait \cup {n + 1} = WaitingIn(new, TRUE)
      BY <2>2, <2>3, <2>4, <3>3, <3>5 DEF WaitingIn
    <3>7. IsUser(longer[1])
      BY <1>0, <2>4, <3>5
    <3>8. 3 >= 3
      BY SMT
    <3>9. Internal(new) = 3
      BY <2>2, <3>7 DEF Internal
    <3> QED
      BY <2>2, <2>10, <3>4, <3>6, <3>8, <3>9
  <2>11. ASSUME ~cb.firing, cb.memory = Gone
         PROVE  /\ starts = FALSE /\ wait \cup {n + 1} = WaitingIn(new, FALSE) /\ LoopOK(new, FALSE)
    <3>1. Next1(cb, FALSE) = 1 /\ Next1(new, FALSE) = 1
      BY <2>2, <2>11 DEF Next1
    <3>2. 1 <= k + 1 /\ 1 \in Nat
      BY <2>6, SMT
    <3>3. wait \cup {n + 1} = WaitingIn(new, FALSE)
      BY <2>2, <2>3, <2>4, <3>1, <3>2 DEF WaitingIn
    <3> QED
      BY <2>2, <2>11, <3>3 DEF LoopOK
  <2>12. wait \cup {n + 1} = WaitingIn(new, starts) /\ LoopOK(new, starts)
    BY <1>1, <2>9, <2>10, <2>11
  <2>13. OnceOK(new, starts, wait \cup {n + 1}, n + 1)
    <3>1. ~new.fired => new.memory = Gone /\ OwnFirst(new.list)
      BY <1>3, <2>2, <2>4, <2>8 DEF OnceOK
    <3>2. new.fired => new.memory # Gone /\ new.firing
      BY <1>1, <2>2, <2>8
    <3>3. InOrderOfAdding(new.list, n + 1) /\ new.list # Gone
      BY <2>2, <2>4, <2>5
    <3>4. new \in CallbackList /\ new.options = {"once", "memory"} /\ new.stack = Gone /\ new.firingStart = 0
      BY <1>1, <2>2
    <3>5. starts => new.firing
      OBVIOUS
    <3> HIDE DEF starts
    <3> QED
      BY <2>12, <3>1, <3>2, <3>3, <3>4, <3>5 DEF OnceOK
  <2>14. Internal(cb) >= 3 /\ cb.fired => Internal(new) >= 3
    BY <1>1, <2>9, <2>10
  <2> QED
    BY <1>3, <2>2, <2>5, <2>8, <2>13, <2>14 DEF new
<1> QED
  BY <1>2, <1>3

LEMMA CallOnce ==
  ASSUME NEW cb, NEW wait, NEW n \in Nat, OnceOK(cb, TRUE, wait, n), fireContinues(cb),
         IsUser(At(cb, cb.firingIndex))
  PROVE  LET r == At(cb, cb.firingIndex)[2]
         IN /\ r \in wait /\ \A s \in wait : r <= s
            /\ OnceOK(cb, FALSE, wait \ {r}, n)
            /\ Internal(cb) >= 3
<1> DEFINE p == cb.firingIndex + 1
           r == At(cb, cb.firingIndex)[2]
<1>0. TRUE \in BOOLEAN
  OBVIOUS
<1>1. /\ p \in DOMAIN cb.list /\ At(cb, cb.firingIndex) = cb.list[p] /\ cb.list[p] \in Callee
      /\ cb.firing /\ Next1(cb, TRUE) = p /\ cb.firingIndex < Len(cb.list) /\ wait = Behind(cb.list, p)
      /\ InOrderOfAdding(cb.list, n) /\ 1 \in DOMAIN cb.list /\ cb.list # <<>>
  BY AtFacts
<1>2. /\ cb.list # Gone /\ cb.list \in Seq(Callee) /\ Len(cb.list) \in Nat /\ DOMAIN cb.list = 1 .. Len(cb.list)
      /\ cb.firingIndex \in Nat /\ p \in Nat
  <2>1. cb.firingIndex \in Nat
    BY <1>0, OnceFacts
  <2>2. p \in Nat
    BY <2>1, SMT
  <2> QED
    BY <1>0, <2>1, <2>2, OnceFacts DEF fireContinues
<1>3. r = cb.list[p][2] /\ IsUser(cb.list[p]) /\ r \in Nat
  BY <1>1, CallbackFacts
<1> HIDE DEF r
<1>4. p >= p /\ r <= r
  BY <1>2, <1>3, SMT
<1>5. r \in wait
  BY <1>1, <1>3, <1>4 DEF Behind
<1>6. ASSUME NEW i \in DOMAIN cb.list, i >= p, i # p, IsUser(cb.list[i])
      PROVE  r < cb.list[i][2] /\ cb.list[i][2] \in Nat
  <2>1. p < i
    BY <1>2, <1>6, SMT
  <2>2. cb.list[i] \in Callee
    BY <1>2, SMT
  <2> QED
    BY <1>1, <1>3, <1>6, <2>1, <2>2, CallbackFacts DEF InOrderOfAdding
<1>7. \A s \in wait : r <= s
  <2> SUFFICES ASSUME NEW s \in wait
               PROVE  r <= s
    OBVIOUS
  <2>1. PICK i \in DOMAIN cb.list : i >= p /\ IsUser(cb.list[i]) /\ s = cb.list[i][2]
    BY <1>1 DEF Behind
  <2>2. CASE i = p
    BY <2>1, <2>2, <1>3, <1>4
  <2>3. CASE i # p
    <3>1. r < s /\ s \in Nat
      BY <1>6, <2>1, <2>3
    <3> QED
      BY <3>1, <1>3, SMT
  <2> QED
    BY <2>2, <2>3
<1>8. Next1(cb, FALSE) = cb.firingIndex + 2 /\ LoopOK(cb, FALSE)
  BY <1>1, <1>2 DEF Next1, LoopOK, OnceOK
<1>9. wait \ {r} = WaitingIn(cb, FALSE)
  <2> DEFINE q == cb.firingIndex + 2
  <2>1. \A i \in DOMAIN cb.list : i >= q <=> i >= p /\ i # p
    BY <1>2, SMT
  <2> HIDE DEF p, q
  <2>2. ASSUME NEW s \in wait \ {r}
        PROVE  s \in Behind(cb.list, q)
    <3>1. PICK i \in DOMAIN cb.list : i >= p /\ IsUser(cb.list[i]) /\ s = cb.list[i][2]
      BY <1>1 DEF Behind
    <3>2. i # p
      BY <3>1, <2>2, <1>3
    <3> QED
      BY <2>1, <3>1, <3>2 DEF Behind
  <2>3. ASSUME NEW s \in Behind(cb.list, q)
        PROVE  s \in wait \ {r}
    <3>1. PICK i \in DOMAIN cb.list : i >= q /\ IsUser(cb.list[i]) /\ s = cb.list[i][2]
      BY <2>3 DEF Behind
    <3>2. i >= p /\ i # p
      BY <2>1, <3>1
    <3>3. r < s /\ s \in Nat
      BY <1>6, <3>1, <3>2
    <3>4. s # r
      BY <1>3, <3>3, SMT
    <3> QED
      BY <1>1, <3>1, <3>2, <3>4 DEF Behind
  <2>4. Behind(cb.list, q) = WaitingIn(cb, FALSE)
    BY <1>8 DEF WaitingIn, q
  <2> QED
    BY <2>2, <2>3, <2>4
<1>10. OnceOK(cb, FALSE, wait \ {r}, n)
  BY <1>2, <1>8, <1>9 DEF OnceOK
<1>11. Internal(cb) >= 3
  <2>1. 3 >= 3
    BY SMT
  <2>2. ASSUME ~IsUser(cb.list[1])
        PROVE  cb.firingIndex >= 3
    <3>1. \A i \in 1 .. 3 : cb.list[i] = internals("done")[i]
      BY <1>1, <2>2 DEF InOrderOfAdding, OwnFirst
    <3>2. ~(p \in 1 .. 3)
      BY <1>3, <3>1, InternalNotUser
    <3> QED
      BY <1>2, <3>2, SMT
  <2> QED
    BY <2>1, <2>2 DEF Internal
<1> QED
  BY <1>5, <1>7, <1>10, <1>11 DEF r

LEMMA InternalOnce ==
  ASSUME NEW cb, NEW wait, NEW n \in Nat, OnceOK(cb, TRUE, wait, n), fireContinues(cb),
         ~IsUser(At(cb, cb.firingIndex))
  PROVE  LET new == fireReturn(cb)
             k == cb.firingIndex
         IN /\ OnceOK(new, TRUE, wait, n) /\ new.fired /\ new.firing /\ new.memory = cb.memory
            /\ k \in 0 .. 2 /\ At(cb, k) = internals("done")[k + 1]
            /\ Internal(cb) = k /\ Internal(new) = k + 1
<1> DEFINE p == cb.firingIndex + 1
           new == fireReturn(cb)
<1>0. TRUE \in BOOLEAN
  OBVIOUS
<1>1. /\ p \in DOMAIN cb.list /\ At(cb, cb.firingIndex) = cb.list[p] /\ cb.list[p] \in Callee
      /\ cb.firing /\ Next1(cb, TRUE) = p /\ cb.firingIndex < Len(cb.list) /\ wait = Behind(cb.list, p)
      /\ InOrderOfAdding(cb.list, n) /\ 1 \in DOMAIN cb.list /\ cb.list # <<>>
  BY AtFacts
<1>2. /\ cb \in CallbackList /\ cb.options = {"once", "memory"} /\ cb.stack = Gone /\ cb.firingStart = 0
      /\ cb.list # Gone /\ cb.list \in Seq(Callee) /\ Len(cb.list) \in Nat /\ DOMAIN cb.list = 1 .. Len(cb.list)
      /\ cb.firingIndex \in Nat /\ cb.fired
  BY <1>0, <1>1, OnceFacts DEF fireContinues
<1>3. /\ new \in CallbackList /\ new.options = cb.options /\ new.list = cb.list /\ new.stack = cb.stack
      /\ new.memory = cb.memory /\ new.fired = cb.fired /\ new.firing = cb.firing
      /\ new.firingIndex = p /\ new.firingStart = cb.firingStart
      /\ new.firingLength = cb.firingLength
  BY <1>2, ReturnFields
<1> HIDE DEF new
<1>4. ~IsUser(cb.list[p])
  BY <1>1
<1>5. p <= 3 /\ OwnFirst(cb.list)
  BY <1>1, <1>4 DEF InOrderOfAdding
<1>6. /\ cb.firingIndex \in 0 .. 2 /\ p \in 1 .. 3 /\ 1 \in 1 .. 3
  BY <1>2, <1>5, SMT
<1>7. cb.list[p] = internals("done")[p] /\ ~IsUser(cb.list[1])
  BY <1>5, <1>6, InternalNotUser DEF OwnFirst
<1>8. Behind(cb.list, p) = Behind(cb.list, p + 1)
  <2>1. \A i \in DOMAIN cb.list : i >= p + 1 <=> i >= p /\ i # p
    BY <1>2, SMT
  <2> HIDE DEF p
  <2> QED
    BY <1>4, <2>1 DEF Behind
<1>9. Next1(new, TRUE) = p + 1
  BY <1>1, <1>3 DEF Next1
<1>10. wait = WaitingIn(new, TRUE)
  BY <1>1, <1>3, <1>8, <1>9 DEF WaitingIn
<1>11. LoopOK(new, TRUE)
  <2>1. p <= Len(cb.list)
    BY <1>1, <1>2, SMT
  <2>2. cb.firingLength = Len(cb.list)
    BY <1>1, <1>2 DEF OnceOK, LoopOK
  <2> QED
    BY <1>2, <1>3, <2>1, <2>2 DEF LoopOK
<1>12. OnceOK(new, TRUE, wait, n)
  BY <1>1, <1>2, <1>3, <1>10, <1>11 DEF OnceOK
<1>13. Internal(cb) = cb.firingIndex /\ Internal(new) = p
  BY <1>1, <1>3, <1>7 DEF Internal
<1> QED
  BY <1>1, <1>2, <1>3, <1>6, <1>7, <1>12, <1>13 DEF new

LEMMA EndOnce ==
  ASSUME NEW cb, NEW wait, NEW n \in Nat, OnceOK(cb, TRUE, wait, n), ~fireContinues(cb)
  PROVE  LET new == fireEnd(cb)
         IN /\ OnceOK(new, FALSE, wait, n) /\ new.fired /\ cb.fired /\ ~new.firing /\ new.memory = cb.memory
            /\ Internal(new) = 3 /\ Internal(cb) >= 3
<1> DEFINE new == fireEnd(cb)
           c1 == [cb EXCEPT !.firing = FALSE]
<1>0. TRUE \in BOOLEAN
  OBVIOUS
<1>1. /\ cb \in CallbackList /\ cb.options = {"once", "memory"} /\ cb.stack = Gone /\ cb.firingStart = 0
      /\ cb.firing /\ cb.fired /\ cb.list # Gone /\ cb.memory # Gone
      /\ cb.list \in Seq(Callee) /\ Len(cb.list) \in Nat /\ DOMAIN cb.list = 1 .. Len(cb.list)
      /\ cb.firingIndex \in Nat
  <2>1. cb.firing
    BY DEF OnceOK
  <2> QED
    BY <1>0, <2>1, OnceFacts
<1>2. new = [c1 EXCEPT !.list = <<>>]
  BY <1>1 DEF fireEnd
<1>3. /\ c1 \in CallbackList /\ c1.options = cb.options /\ c1.stack = cb.stack /\ c1.firingStart = 0
      /\ c1.fired = cb.fired /\ c1.firing = FALSE /\ c1.memory = cb.memory
  <2>1. c1 \in CallbackList
    BY <1>1, AssignedTypes
  <2> QED
    BY <1>1, <2>1 DEF CallbackList
<1>4. <<>> \in Seq(Callee) /\ <<>> \in ListOrGone
  <2>1. <<>> \in Seq(Callee)
    BY SMT
  <2> QED
    BY <2>1 DEF ListOrGone
<1> HIDE DEF new, c1
<1>5. /\ new \in CallbackList /\ new.options = cb.options /\ new.stack = cb.stack /\ new.firingStart = 0
      /\ new.fired = cb.fired /\ new.firing = FALSE /\ new.memory = cb.memory /\ new.list = <<>>
  <2>1. new \in CallbackList
    BY <1>2, <1>3, <1>4, AssignedTypes
  <2> QED
    BY <1>2, <1>3, <2>1 DEF CallbackList
<1>6. \A i \in DOMAIN cb.list : ~(i >= cb.firingIndex + 1)
  <2>1. cb.firingLength = Len(cb.list) /\ ~(cb.firingIndex < cb.firingLength)
    BY <1>1 DEF OnceOK, LoopOK, fireContinues
  <2> QED
    BY <1>1, <2>1, SMT
<1>7. wait = {}
  <2>1. wait = Behind(cb.list, cb.firingIndex + 1)
    BY <1>1 DEF OnceOK, WaitingIn, Next1
  <2> QED
    BY <1>6, <2>1 DEF Behind
<1>8. DOMAIN new.list = {}
  BY <1>5, SMT
<1>9. WaitingIn(new, FALSE) = {}
  BY <1>8 DEF WaitingIn, Behind
<1>10. InOrderOfAdding(new.list, n) /\ LoopOK(new, FALSE)
  BY <1>5, <1>8 DEF InOrderOfAdding, LoopOK
<1>11. <<>> # Gone
  BY <1>4, GoneIsNone
<1>12. OnceOK(new, FALSE, wait, n)
  BY <1>1, <1>5, <1>7, <1>9, <1>10, <1>11 DEF OnceOK
<1>13. Internal(cb) >= 3
  <2>1. 3 >= 3
    BY SMT
  <2>2. ASSUME cb.list # <<>>, ~IsUser(cb.list[1])
        PROVE  cb.firingIndex >= 3
    <3>1. 1 \in DOMAIN cb.list
      BY <1>1, <2>2, SMT
    <3>2. Len(cb.list) >= 3
      BY <1>1, <2>2, <3>1 DEF OnceOK, InOrderOfAdding, OwnFirst
    <3>3. cb.firingLength = Len(cb.list) /\ ~(cb.firingIndex < cb.firingLength)
      BY <1>1 DEF OnceOK, LoopOK, fireContinues
    <3> QED
      BY <1>1, <3>2, <3>3, SMT
  <2> QED
    BY <2>1, <2>2 DEF Internal
<1>14. Internal(new) = 3
  BY <1>5 DEF Internal
<1> QED
  BY <1>1, <1>5, <1>12, <1>13, <1>14 DEF new

LEMMA DisableOnce ==
  ASSUME NEW cb, NEW wait, NEW n \in Nat, OnceOK(cb, FALSE, wait, n), ~cb.fired
  PROVE  LET new == disable(cb)
         IN OnceOK(new, FALSE, wait, n) /\ ~new.fired /\ ~cb.firing /\ ~new.firing /\ new.list = Gone
<1> DEFINE new == disable(cb)
<1>0. FALSE \in BOOLEAN
  OBVIOUS
<1>1. cb \in CallbackList /\ cb.options = {"once", "memory"} /\ cb.firingStart = 0 /\ ~cb.firing
  BY <1>0, OnceFacts
<1>2. /\ new \in CallbackList /\ new.options = cb.options /\ new.list = Gone /\ new.stack = Gone
      /\ new.memory = Gone /\ new.fired = cb.fired /\ new.firing = cb.firing /\ new.firingStart = cb.firingStart
  BY <1>1, DisableFields
<1> HIDE DEF new
<1>3. OnceOK(new, FALSE, wait, n)
  BY <1>1, <1>2 DEF OnceOK
<1> QED
  BY <1>1, <1>2, <1>3 DEF new

(* When every callback was called, nobody waits. *)
LEMMA DoneOnce ==
  ASSUME NEW cb, NEW wait, NEW n \in Nat, NEW loop, OnceOK(cb, loop, wait, n), cb.fired, ~cb.firing
  PROVE  wait = {}
<1>1. cb.list # Gone
  BY DEF OnceOK
<1>2. cb.list = <<>> /\ wait = WaitingIn(cb, loop)
  BY <1>1 DEF OnceOK
<1>3. DOMAIN cb.list = {}
  BY <1>2, SMT
<1> QED
  BY <1>2, <1>3 DEF WaitingIn, Behind

LEMMA InternalNat ==
  ASSUME NEW cb \in CallbackList
  PROVE  Internal(cb) \in Nat
<1>1. 3 \in Nat /\ cb.firingIndex \in Nat
  BY ListFacts, SMT
<1> QED
  BY <1>1 DEF Internal

------------------------------------------------------------------------------
(* The list for progress: what each operation makes of NoteOK. *)

LEMMA NoteFacts ==
  ASSUME NEW cb, NEW loop \in BOOLEAN, NEW notes, NEW n \in Nat, NEW m \in Nat, NoteOK(cb, loop, notes, n, m)
  PROVE  /\ cb \in CallbackList /\ cb.options = {"memory"} /\ cb.firingStart = 0 /\ "memory" \in cb.options
         /\ cb.fired \in BOOLEAN /\ cb.firing \in BOOLEAN /\ cb.firingIndex \in Nat
         /\ cb.firing => cb.list # Gone /\ cb.memory # Gone /\ cb.fired
         /\ cb.list # Gone => cb.list \in Seq(Callee) /\ Len(cb.list) \in Nat /\ DOMAIN cb.list = 1 .. Len(cb.list)
         /\ cb.memory # Gone => cb.memory \in Nat
         /\ cb.stack # Gone => cb.stack \in Seq(Nat)
<1>1. cb \in CallbackList
  BY DEF NoteOK
<1>2. /\ cb.fired \in BOOLEAN /\ cb.firing \in BOOLEAN /\ cb.firingIndex \in Nat
      /\ (cb.list # Gone => cb.list \in Seq(Callee) /\ Len(cb.list) \in Nat /\ DOMAIN cb.list = 1 .. Len(cb.list))
      /\ (cb.memory # Gone => cb.memory \in Nat)
      /\ (cb.stack # Gone => cb.stack \in Seq(Nat))
  BY <1>1, ListFacts
<1>3. cb.firing => cb.list # Gone /\ cb.memory # Gone /\ cb.fired
  BY DEF NoteOK
<1>4. cb.options = {"memory"} /\ cb.firingStart = 0
  BY DEF NoteOK
<1> QED
  BY <1>1, <1>2, <1>3, <1>4

(* What NoteOK says of the stack, the notifications that wait. *)
StackOK(cb, m) ==
  cb.stack # Gone => /\ \A i \in DOMAIN cb.stack : cb.stack[i] <= m /\ (cb.memory # Gone => cb.memory < cb.stack[i])
                     /\ \A i, j \in DOMAIN cb.stack : i < j => cb.stack[i] < cb.stack[j]
                     /\ ~cb.firing => cb.stack = <<>>

LEMMA NoteLater ==
  ASSUME NEW cb, NEW loop \in BOOLEAN, NEW notes, NEW n \in Nat, NEW m \in Nat, NoteOK(cb, loop, notes, n, m)
  PROVE  NoteOK(cb, loop, notes, n, m + 1) /\ NoteOK(cb, loop, notes, n + 1, m)
<1>1. ASSUME cb.list # Gone
      PROVE  InOrderOfAdding(cb.list, n + 1)
  <2>1. cb.list \in Seq(Callee)
    BY <1>1, NoteFacts
  <2>2. \A i \in DOMAIN cb.list : cb.list[i] \in Callee /\ cb.list[i][2] \in Nat
    BY <2>1, CallbackFacts, SMT
  <2>3. \A i \in DOMAIN cb.list : cb.list[i][2] <= n
    BY <1>1 DEF NoteOK, InOrderOfAdding
  <2>4. \A i \in DOMAIN cb.list : cb.list[i][2] <= n + 1
    BY <2>2, <2>3, SMT
  <2> QED
    BY <1>1, <2>4 DEF NoteOK, InOrderOfAdding
<1>2. cb.memory # Gone => cb.memory <= m + 1
  <2>1. cb.memory # Gone => cb.memory <= m /\ cb.memory \in Nat
    BY NoteFacts DEF NoteOK
  <2> QED
    BY <2>1, SMT
<1>3. cb.stack # Gone => \A i \in DOMAIN cb.stack : cb.stack[i] <= m + 1
  <2>1. cb.stack # Gone => cb.stack \in Seq(Nat) /\ \A i \in DOMAIN cb.stack : cb.stack[i] <= m
    BY NoteFacts DEF NoteOK
  <2> QED
    BY <2>1, SMT
<1>4. NoteOK(cb, loop, notes, n + 1, m)
  BY <1>1 DEF NoteOK
<1>5. NoteOK(cb, loop, notes, n, m + 1)
  BY <1>2, <1>3 DEF NoteOK
<1> QED
  BY <1>4, <1>5

LEMMA ReturnNote ==
  ASSUME NEW cb, NEW notes, NEW n \in Nat, NEW m \in Nat, NoteOK(cb, FALSE, notes, n, m), cb.firing
  PROVE  LET new == fireReturn(cb)
         IN NoteOK(new, TRUE, notes, n, m) /\ new.firing /\ new.memory = cb.memory /\ new.stack = cb.stack
<1> DEFINE new == fireReturn(cb)
<1>0. FALSE \in BOOLEAN
  OBVIOUS
<1>1. /\ cb \in CallbackList /\ cb.list # Gone /\ cb.list \in Seq(Callee) /\ Len(cb.list) \in Nat
      /\ cb.firingIndex \in Nat /\ cb.fired /\ cb.memory # Gone
  BY <1>0, NoteFacts
<1>2. /\ new \in CallbackList /\ new.options = cb.options /\ new.list = cb.list /\ new.stack = cb.stack
      /\ new.memory = cb.memory /\ new.fired = cb.fired /\ new.firing = cb.firing
      /\ new.firingIndex = cb.firingIndex + 1 /\ new.firingStart = cb.firingStart
      /\ new.firingLength = cb.firingLength
  BY <1>1, ReturnFields
<1> HIDE DEF new
<1>3. Next1(cb, FALSE) = Next1(new, TRUE)
  <2>1. (cb.firingIndex + 1) + 1 = cb.firingIndex + 2
    BY <1>1, SMT
  <2> QED
    BY <1>2, <2>1 DEF Next1
<1>4. LoopOK(new, TRUE)
  <2>1. cb.firingIndex < Len(cb.list) /\ cb.firingLength = Len(cb.list)
    BY <1>1 DEF NoteOK, LoopOK
  <2>2. cb.firingIndex + 1 <= Len(cb.list)
    BY <1>1, <2>1, SMT
  <2> QED
    BY <1>1, <1>2, <2>1, <2>2 DEF LoopOK
<1>5. /\ new.options = {"memory"} /\ new.firingStart = 0
      /\ (new.memory # Gone => new.fired /\ new.memory <= m)
      /\ \A note \in notes : new.memory # Gone /\ note[2] <= new.memory
  BY <1>2 DEF NoteOK
<1>6. StackOK(new, m)
  BY <1>2 DEF NoteOK, StackOK
<1>7. /\ InOrderOfAdding(new.list, n)
      /\ \A i \in DOMAIN new.list : IsUser(new.list[i])
      /\ \A i \in DOMAIN new.list : i >= Next1(new, TRUE) =>
            \A note \in notes : note[1] = new.list[i][2] => note[2] < new.memory
  <2>1. /\ InOrderOfAdding(cb.list, n) /\ \A i \in DOMAIN cb.list : IsUser(cb.list[i])
        /\ \A i \in DOMAIN cb.list : i >= Next1(cb, FALSE) =>
             \A note \in notes : note[1] = cb.list[i][2] => note[2] < cb.memory
    BY <1>1 DEF NoteOK
  <2> QED
    BY <1>2, <1>3, <2>1
<1>8. NoteOK(new, TRUE, notes, n, m)
  BY <1>1, <1>2, <1>4, <1>5, <1>6, <1>7 DEF NoteOK, StackOK
<1> QED
  BY <1>2, <1>8 DEF new

LEMMA AddNote ==
  ASSUME NEW cb, NEW notes, NEW n \in Nat, NEW m \in Nat, NoteOK(cb, FALSE, notes, n, m),
         \A note \in notes : note[1] # n + 1
  PROVE  LET new == add(cb, <<User(n + 1)>>)
         IN /\ NoteOK(new, new.firing /\ ~cb.firing, notes, n + 1, m)
            /\ new.memory = cb.memory /\ new.stack = cb.stack
            /\ cb.firing => new.firing
            /\ new.firing => cb.memory # Gone
<1> DEFINE c == User(n + 1)
           new == add(cb, <<c>>)
           longer == cb.list \o <<c>>
           starts == new.firing /\ ~cb.firing
<1>0. FALSE \in BOOLEAN /\ c \in Callee /\ IsUser(c) /\ c[2] = n + 1
  <2>1. n + 1 \in Nat
    BY SMT
  <2> QED
    BY <2>1, CallbackFacts
<1>1. /\ cb \in CallbackList /\ cb.options = {"memory"} /\ cb.firingStart = 0 /\ "memory" \in cb.options
      /\ cb.fired \in BOOLEAN /\ cb.firing \in BOOLEAN /\ cb.firingIndex \in Nat
      /\ (cb.firing => cb.list # Gone /\ cb.memory # Gone /\ cb.fired)
      /\ (cb.list # Gone => cb.list \in Seq(Callee) /\ Len(cb.list) \in Nat)
  BY <1>0, NoteFacts
<1>2. CASE cb.list = Gone
  <2>1. new = cb
    BY <1>2 DEF add
  <2>2. ~cb.firing /\ cb.memory = Gone
    BY <1>1, <1>2 DEF NoteOK
  <2>3. NoteOK(cb, FALSE, notes, n + 1, m)
    BY <1>0, NoteLater
  <2>4. (cb.firing /\ ~cb.firing) = FALSE
    OBVIOUS
  <2> HIDE DEF new
  <2>5. NoteOK(new, new.firing /\ ~cb.firing, notes, n + 1, m)
    BY <2>1, <2>3, <2>4
  <2> QED
    BY <1>2, <2>1, <2>2, <2>5 DEF new
<1>3. CASE cb.list # Gone
  <2> DEFINE k == Len(cb.list)
  <2>2. /\ new \in CallbackList /\ new.options = cb.options /\ new.stack = cb.stack /\ new.memory = cb.memory
        /\ new.list = longer /\ new.firingStart = 0
        /\ cb.firing => /\ new.firing /\ new.fired = cb.fired /\ new.firingIndex = cb.firingIndex
                        /\ new.firingLength = Len(longer)
        /\ ~cb.firing /\ cb.memory # Gone =>
             new.firing /\ new.fired /\ new.firingIndex = k /\ new.firingLength = Len(longer)
        /\ ~cb.firing /\ cb.memory = Gone => ~new.firing /\ new.fired = cb.fired
    BY <1>0, <1>1, <1>3, AddFields
  <2> HIDE DEF new
  <2>3. InOrderOfAdding(cb.list, n) /\ LoopOK(cb, FALSE) /\ (\A i \in DOMAIN cb.list : IsUser(cb.list[i]))
    BY <1>3 DEF NoteOK
  <2>4. /\ longer \in Seq(Callee) /\ Len(longer) = k + 1 /\ DOMAIN longer = 1 .. k + 1
        /\ \A i \in DOMAIN cb.list : i \in DOMAIN longer /\ longer[i] = cb.list[i]
        /\ longer[k + 1] = c
        /\ \A i \in DOMAIN longer : i \in DOMAIN cb.list \/ i = k + 1
        /\ InOrderOfAdding(longer, n + 1)
    <3>1. /\ longer \in Seq(Callee) /\ Len(longer) = k + 1
          /\ \A i \in DOMAIN cb.list : i \in DOMAIN longer /\ longer[i] = cb.list[i]
          /\ longer[k + 1] = c
          /\ \A i \in DOMAIN longer : i \in DOMAIN cb.list \/ i = k + 1
          /\ InOrderOfAdding(longer, n + 1)
      BY <1>1, <1>3, <2>3, AppendFacts
    <3> HIDE DEF longer, k
    <3>2. DOMAIN longer = 1 .. k + 1
      BY <3>1, SMT
    <3> QED
      BY <3>1, <3>2
  <2>5. longer # Gone
    BY <2>4, GoneIsNone
  <2> HIDE DEF longer
  <2>6. k \in Nat
    BY <1>1, <1>3
  <2>7. \A i \in DOMAIN longer : IsUser(longer[i])
    BY <1>0, <2>3, <2>4
  <2>8. \A note \in notes : cb.memory # Gone /\ note[1] # longer[k + 1][2]
    <3>1. \A note \in notes : cb.memory # Gone
      BY DEF NoteOK
    <3>2. longer[k + 1][2] = n + 1
      BY <1>0, <2>4
    <3> QED
      BY <3>1, <3>2
  <2>15. cb.firing => \A i \in DOMAIN cb.list : i >= Next1(cb, FALSE) =>
                        \A note \in notes : note[1] = cb.list[i][2] => note[2] < cb.memory
    BY <1>3 DEF NoteOK
  <2>9. ASSUME cb.firing
        PROVE  /\ starts = FALSE /\ LoopOK(new, FALSE)
               /\ \A i \in DOMAIN longer : i >= Next1(new, FALSE) =>
                    \A note \in notes : note[1] = longer[i][2] => note[2] < cb.memory
    <3>1. cb.firingIndex < k /\ cb.firingLength = k
      BY <2>3, <2>9 DEF LoopOK
    <3>2. cb.firingIndex < k + 1
      BY <1>1, <2>6, <3>1, SMT
    <3>3. Next1(new, FALSE) = Next1(cb, FALSE)
      BY <2>2, <2>9 DEF Next1
    <3>4. LoopOK(new, FALSE)
      BY <1>1, <2>2, <2>4, <2>9, <3>2 DEF LoopOK
    <3>5. ASSUME NEW i \in DOMAIN longer, i >= Next1(new, FALSE), NEW note \in notes, note[1] = longer[i][2]
          PROVE  note[2] < cb.memory
      <4>1. i \in DOMAIN cb.list
        BY <2>4, <2>8, <3>5
      <4> QED
        BY <2>4, <2>9, <2>15, <3>3, <3>5, <4>1
    <3> QED
      BY <2>2, <2>9, <3>4, <3>5
  <2>10. ASSUME ~cb.firing, cb.memory # Gone
         PROVE  /\ starts = TRUE /\ LoopOK(new, TRUE)
                /\ \A i \in DOMAIN longer : i >= Next1(new, TRUE) =>
                     \A note \in notes : note[1] = longer[i][2] => note[2] < cb.memory
    <3>1. Next1(new, TRUE) = k + 1
      BY <2>2, <2>10 DEF Next1
    <3>2. LoopOK(new, TRUE)
      <4>1. k <= k + 1
        BY <2>6, SMT
      <4> QED
        BY <4>1, <2>2, <2>4, <2>10 DEF LoopOK
    <3>3. \A i \in DOMAIN longer : i >= k + 1 => i = k + 1
      BY <2>4, <2>6, SMT
    <3> QED
      BY <2>2, <2>8, <2>10, <3>1, <3>2, <3>3
  <2>11. ASSUME ~cb.firing, cb.memory = Gone
         PROVE  starts = FALSE /\ ~new.firing /\ LoopOK(new, FALSE)
    BY <2>2, <2>11 DEF LoopOK
  <2>12. /\ LoopOK(new, starts)
         /\ new.firing => \A i \in DOMAIN longer : i >= Next1(new, starts) =>
                            \A note \in notes : note[1] = longer[i][2] => note[2] < cb.memory
    BY <1>1, <2>9, <2>10, <2>11
  <2>13. /\ StackOK(new, m) /\ (cb.firing => new.firing) /\ (new.firing => cb.memory # Gone)
         /\ (cb.memory # Gone => new.fired)
    <3>1. cb.memory # Gone => cb.fired
      BY DEF NoteOK
    <3> QED
      BY <1>1, <2>2, <3>1 DEF NoteOK, StackOK
  <2>14. NoteOK(new, starts, notes, n + 1, m)
    <3>1. /\ new \in CallbackList /\ new.options = {"memory"} /\ new.firingStart = 0 /\ new.list # Gone
          /\ InOrderOfAdding(new.list, n + 1) /\ (\A i \in DOMAIN new.list : IsUser(new.list[i]))
      BY <1>1, <2>2, <2>4, <2>5, <2>7
    <3>2. /\ new.stack = Gone => new.memory # Gone
          /\ new.memory # Gone => new.fired /\ new.memory <= m
          /\ \A note \in notes : new.memory # Gone /\ note[2] <= new.memory
      BY <1>3, <2>2, <2>13 DEF NoteOK
    <3>3. starts => new.firing
      OBVIOUS
    <3>4. new.firing => new.memory # Gone
      BY <2>2, <2>13
    <3>5. new.firing => \A i \in DOMAIN new.list : i >= Next1(new, starts) =>
                            \A note \in notes : note[1] = new.list[i][2] => note[2] < new.memory
      BY <2>2, <2>12
    <3> HIDE DEF starts
    <3> QED
      BY <2>12, <2>13, <3>1, <3>2, <3>3, <3>4, <3>5 DEF NoteOK, StackOK
  <2> QED
    BY <2>2, <2>13, <2>14 DEF new
<1> QED
  BY <1>2, <1>3

(* A loop for a notification that is later than those before can start. *)
CanStart(cb, data, notes, n, m) ==
  /\ cb \in CallbackList /\ cb.options = {"memory"} /\ cb.firingStart = 0
  /\ cb.list # Gone /\ cb.stack # Gone /\ data <= m
  /\ \A i \in DOMAIN cb.stack : cb.stack[i] <= m /\ data < cb.stack[i]
  /\ \A i, j \in DOMAIN cb.stack : i < j => cb.stack[i] < cb.stack[j]
  /\ \A note \in notes : note[2] < data /\ note[2] <= data
  /\ InOrderOfAdding(cb.list, n) /\ \A i \in DOMAIN cb.list : IsUser(cb.list[i])

LEMMA StartNote ==
  ASSUME NEW cb, NEW notes, NEW n \in Nat, NEW m \in Nat, NEW data \in Nat, CanStart(cb, data, notes, n, m)
  PROVE  LET new == fireStart(cb, data)
         IN /\ NoteOK(new, TRUE, notes, n, m) /\ new.firing /\ new.memory = data
<1> DEFINE new == fireStart(cb, data)
<1>1. "memory" \in cb.options /\ cb.list \in Seq(Callee) /\ Len(cb.list) \in Nat /\ data # Gone
  BY ListFacts, GoneIsNone DEF CanStart
<1>2. /\ new \in CallbackList /\ new.options = cb.options /\ new.list = cb.list /\ new.stack = cb.stack
      /\ new.memory = data /\ new.fired = TRUE /\ new.firing = TRUE
      /\ new.firingIndex = 0 /\ new.firingStart = 0 /\ new.firingLength = Len(cb.list)
  BY <1>1, StartFields DEF CanStart
<1> HIDE DEF new
<1>3. LoopOK(new, TRUE)
  <2>1. 0 <= Len(cb.list)
    BY <1>1, SMT
  <2> QED
    BY <1>2, <2>1 DEF LoopOK
<1>4. StackOK(new, m)
  BY <1>2 DEF StackOK, CanStart
<1>5. NoteOK(new, TRUE, notes, n, m)
  BY <1>1, <1>2, <1>3, <1>4 DEF NoteOK, StackOK, CanStart
<1> QED
  BY <1>2, <1>5 DEF new

LEMMA FireNote ==
  ASSUME NEW cb, NEW notes, NEW n \in Nat, NEW m \in Nat, NoteOK(cb, FALSE, notes, n, m),
         \A note \in notes : note[2] \in Nat
  PROVE  LET new == fireWith(cb, m + 1)
         IN /\ NoteOK(new, new.firing /\ ~cb.firing, notes, n, m + 1)
            /\ cb.stack = Gone => new = cb
            /\ cb.firing => new.firing /\ new.memory = cb.memory
            /\ new.firing /\ ~cb.firing => new.memory = m + 1
            /\ ~new.firing => new.memory = cb.memory
<1> DEFINE new == fireWith(cb, m + 1)
           starts == new.firing /\ ~cb.firing
<1>0. FALSE \in BOOLEAN /\ m + 1 \in Nat
  BY SMT
<1>1. /\ cb \in CallbackList /\ cb.options = {"memory"} /\ cb.firingStart = 0
      /\ cb.fired \in BOOLEAN /\ cb.firing \in BOOLEAN
      /\ (cb.firing => cb.list # Gone /\ cb.memory # Gone /\ cb.fired)
      /\ (cb.memory # Gone => cb.memory \in Nat)
      /\ (cb.stack # Gone => cb.stack \in Seq(Nat))
  BY <1>0, NoteFacts
<1>2. cb.stack = Gone => cb.list = Gone \/ cb.fired
  BY DEF NoteOK
<1>3. CASE cb.list = Gone \/ (cb.fired /\ cb.stack = Gone)
  <2>1. new = cb
    BY <1>3 DEF fireWith
  <2>2. NoteOK(cb, FALSE, notes, n, m + 1)
    BY <1>0, NoteLater
  <2>3. (cb.firing /\ ~cb.firing) = FALSE
    OBVIOUS
  <2> HIDE DEF new
  <2>4. NoteOK(new, new.firing /\ ~cb.firing, notes, n, m + 1)
    BY <2>1, <2>2, <2>3
  <2> QED
    BY <2>1, <2>4 DEF new
<1>4. CASE ~(cb.list = Gone \/ (cb.fired /\ cb.stack = Gone)) /\ cb.firing
  <2>1. new = [cb EXCEPT !.stack = Append(@, m + 1)]
    BY <1>4 DEF fireWith
  <2>2. cb.list # Gone /\ cb.stack # Gone /\ cb.stack \in Seq(Nat) /\ cb.memory \in Nat /\ cb.memory # Gone /\ cb.fired
    BY <1>1, <1>2, <1>4
  <2> DEFINE s == cb.stack
             t == Append(s, m + 1)
  <2>3. t \in Seq(Nat) /\ t # <<>>
    BY <1>0, <2>2, SMT
  <2>4. t \in StackOrGone /\ t # Gone
    BY <2>3, GoneIsNone DEF StackOrGone
  <2>5. new \in CallbackList
    <3>1. new = [cb EXCEPT !.stack = t]
      BY <2>1
    <3> HIDE DEF new, t
    <3> QED
      BY <1>1, <2>4, <3>1, AssignedTypes
  <2>6. /\ new.options = cb.options /\ new.list = cb.list /\ new.stack = t /\ new.memory = cb.memory
        /\ new.fired = cb.fired /\ new.firing = cb.firing /\ new.firingIndex = cb.firingIndex
        /\ new.firingStart = cb.firingStart /\ new.firingLength = cb.firingLength
    BY <1>1, <2>1 DEF CallbackList
  <2> HIDE DEF new
  <2>7. /\ \A i \in DOMAIN s : s[i] <= m /\ cb.memory < s[i]
        /\ \A i, j \in DOMAIN s : i < j => s[i] < s[j]
        /\ cb.memory <= m
    BY <2>2 DEF NoteOK
  <2>8. /\ \A i \in DOMAIN t : t[i] <= m + 1 /\ cb.memory < t[i]
        /\ \A i, j \in DOMAIN t : i < j => t[i] < t[j]
        /\ cb.memory <= m + 1
    <3>1. s \in Seq(Nat) /\ cb.memory \in Nat
      BY <2>2
    <3> HIDE DEF s
    <3>2. DOMAIN s = 1 .. Len(s) /\ DOMAIN t = 1 .. Len(s) + 1 /\ Len(s) \in Nat
      BY <3>1, SMT
    <3>3. \A i \in DOMAIN t : IF i \in DOMAIN s THEN t[i] = s[i] /\ t[i] \in Nat ELSE t[i] = m + 1
      BY <3>1, <3>2, SMT
    <3>4. \A i, j \in DOMAIN t : i < j => i \in DOMAIN s
      BY <3>2, SMT
    <3> HIDE DEF t
    <3>5. \A i \in DOMAIN t : t[i] <= m + 1 /\ cb.memory < t[i]
      BY <2>7, <3>1, <3>3, SMT
    <3>6. \A i \in DOMAIN s : s[i] < m + 1
      BY <2>7, <3>1, SMT
    <3>7. \A i, j \in DOMAIN t : i < j => t[i] < t[j]
      <4> SUFFICES ASSUME NEW i \in DOMAIN t, NEW j \in DOMAIN t, i < j
                   PROVE  t[i] < t[j]
        OBVIOUS
      <4>1. i \in DOMAIN s /\ t[i] = s[i]
        BY <3>3, <3>4
      <4>2. CASE j \in DOMAIN s
        <5>1. t[j] = s[j]
          BY <3>3, <4>2
        <5> QED
          BY <2>7, <4>1, <4>2, <5>1
      <4>3. CASE j \notin DOMAIN s
        <5>1. t[j] = m + 1
          BY <3>3, <4>3
        <5> QED
          BY <3>6, <4>1, <5>1
      <4> QED
        BY <4>2, <4>3
    <3>8. cb.memory <= m + 1
      BY <2>7, <3>1, SMT
    <3> QED
      BY <3>5, <3>7, <3>8
  <2> HIDE DEF t
  <2>9. Next1(new, FALSE) = Next1(cb, FALSE) /\ LoopOK(new, FALSE)
    <3>1. LoopOK(cb, FALSE)
      BY <2>2 DEF NoteOK
    <3> QED
      BY <2>6, <3>1 DEF Next1, LoopOK
  <2>10. NoteOK(new, FALSE, notes, n, m + 1)
    <3>1. StackOK(new, m + 1)
      BY <1>4, <2>6, <2>8 DEF StackOK
    <3>2. /\ InOrderOfAdding(new.list, n)
          /\ \A i \in DOMAIN new.list : IsUser(new.list[i])
          /\ \A note \in notes : note[2] <= new.memory
          /\ \A i \in DOMAIN new.list : i >= Next1(new, FALSE) =>
               \A note \in notes : note[1] = new.list[i][2] => note[2] < new.memory
      BY <1>4, <2>2, <2>6, <2>9 DEF NoteOK
    <3> QED
      BY <1>1, <2>2, <2>4, <2>5, <2>6, <2>8, <2>9, <3>1, <3>2 DEF NoteOK, StackOK
  <2>11. starts = FALSE
    BY <1>4
  <2> QED
    BY <1>4, <2>2, <2>6, <2>10, <2>11 DEF new
<1>5. CASE ~(cb.list = Gone \/ (cb.fired /\ cb.stack = Gone)) /\ ~cb.firing
  <2>1. new = fireStart(cb, m + 1)
    BY <1>5 DEF fireWith
  <2>2. cb.list # Gone /\ cb.stack # Gone /\ cb.stack = <<>>
    BY <1>2, <1>5 DEF NoteOK
  <2>3. DOMAIN cb.stack = {}
    BY <2>2, SMT
  <2>4. m + 1 <= m + 1
    BY SMT
  <2>5. \A note \in notes : note[2] < m + 1 /\ note[2] <= m + 1
    <3>1. \A note \in notes : note[2] <= cb.memory /\ cb.memory \in Nat /\ cb.memory <= m
      BY <1>1 DEF NoteOK
    <3> QED
      BY <3>1, SMT
  <2>6. InOrderOfAdding(cb.list, n) /\ \A i \in DOMAIN cb.list : IsUser(cb.list[i])
    BY <2>2 DEF NoteOK
  <2> HIDE DEF new
  <2>7. NoteOK(fireStart(cb, m + 1), TRUE, notes, n, m + 1) /\ fireStart(cb, m + 1).firing
        /\ fireStart(cb, m + 1).memory = m + 1
    <3>1. CanStart(cb, m + 1, notes, n, m + 1)
      BY <1>1, <2>2, <2>3, <2>4, <2>5, <2>6 DEF CanStart
    <3> QED
      BY <1>0, <3>1, StartNote
  <2>8. NoteOK(new, TRUE, notes, n, m + 1) /\ new.firing /\ new.memory = m + 1
    BY <2>1, <2>7
  <2>9. starts = TRUE
    BY <1>5, <2>8
  <2> QED
    BY <1>5, <2>2, <2>8, <2>9 DEF new
<1> QED
  BY <1>3, <1>4, <1>5

LEMMA CallNote ==
  ASSUME NEW cb, NEW notes, NEW n \in Nat, NEW m \in Nat, NoteOK(cb, TRUE, notes, n, m), fireContinues(cb)
  PROVE  LET r == At(cb, cb.firingIndex)[2]
         IN /\ NoteOK(cb, FALSE, notes \cup {<<r, cb.memory>>}, n, m)
            /\ \A note \in notes : note[1] = r => note[2] < cb.memory
            /\ r \in Nat /\ r <= n /\ IsUser(At(cb, cb.firingIndex))
<1> DEFINE p == cb.firingIndex + 1
           r == At(cb, cb.firingIndex)[2]
           last == <<r, cb.memory>>
<1>0. TRUE \in BOOLEAN
  OBVIOUS
<1>1. /\ cb \in CallbackList /\ cb.firing /\ cb.list # Gone /\ cb.memory # Gone /\ cb.fired /\ cb.memory \in Nat
      /\ cb.list \in Seq(Callee) /\ Len(cb.list) \in Nat /\ DOMAIN cb.list = 1 .. Len(cb.list)
      /\ cb.firingIndex \in Nat
  <2>1. cb.firing
    BY DEF NoteOK
  <2> QED
    BY <1>0, <2>1, NoteFacts
<1>2. /\ LoopOK(cb, TRUE) /\ cb.firingIndex < Len(cb.list) /\ InOrderOfAdding(cb.list, n)
      /\ (\A i \in DOMAIN cb.list : IsUser(cb.list[i]))
      /\ \A i \in DOMAIN cb.list : i >= Next1(cb, TRUE) =>
           \A note \in notes : note[1] = cb.list[i][2] => note[2] < cb.memory
  BY <1>1 DEF NoteOK, LoopOK, fireContinues
<1>3. p \in DOMAIN cb.list /\ p >= p /\ p \in Nat
  BY <1>1, <1>2, SMT
<1>4. cb.list[p] \in Callee
  BY <1>1, <1>3, SMT
<1>5. r = cb.list[p][2] /\ r \in Nat /\ r <= n /\ IsUser(cb.list[p]) /\ At(cb, cb.firingIndex) = cb.list[p]
  BY <1>2, <1>3, <1>4, CallbackFacts DEF At, InOrderOfAdding
<1>6. Next1(cb, TRUE) = p /\ Next1(cb, FALSE) = cb.firingIndex + 2
  BY <1>1 DEF Next1
<1> HIDE DEF r
<1>7. \A note \in notes : note[1] = r => note[2] < cb.memory
  BY <1>2, <1>3, <1>5, <1>6
<1>8. last[1] = r /\ last[2] = cb.memory /\ cb.memory <= cb.memory
  BY <1>1, SMT
<1>9. \A i \in DOMAIN cb.list : i >= cb.firingIndex + 2 => i >= p /\ r # cb.list[i][2]
  <2> SUFFICES ASSUME NEW i \in DOMAIN cb.list, i >= cb.firingIndex + 2
               PROVE  i >= p /\ r # cb.list[i][2]
    OBVIOUS
  <2>1. p < i /\ i >= p
    BY <1>1, SMT
  <2>2. cb.list[i] \in Callee
    BY <1>1, SMT
  <2>3. r < cb.list[i][2] /\ cb.list[i][2] \in Nat
    BY <1>2, <1>3, <1>5, <2>1, <2>2, CallbackFacts DEF InOrderOfAdding
  <2>4. r # cb.list[i][2]
    BY <1>5, <2>3, SMT
  <2> QED
    BY <2>1, <2>4
<1> HIDE DEF last, p
<1> DEFINE all == notes \cup {last}
<1>10. \A note \in all : note \in notes \/ note = last
  OBVIOUS
<1>11. \A note \in all : note[2] <= cb.memory
  BY <1>8, <1>10 DEF NoteOK
<1>12. \A i \in DOMAIN cb.list : i >= Next1(cb, FALSE) =>
         \A note \in all : note[1] = cb.list[i][2] => note[2] < cb.memory
  BY <1>2, <1>6, <1>8, <1>9, <1>10
<1>13. LoopOK(cb, FALSE)
  BY <1>1, <1>2 DEF LoopOK
<1> HIDE DEF all
<1>14. NoteOK(cb, FALSE, all, n, m)
  <2>1. StackOK(cb, m)
    BY DEF NoteOK, StackOK
  <2>2. /\ cb.options = {"memory"} /\ cb.firingStart = 0 /\ cb.memory <= m
    BY <1>1 DEF NoteOK
  <2> QED
    BY <1>1, <1>2, <1>11, <1>12, <1>13, <2>1, <2>2 DEF NoteOK, StackOK
<1> QED
  BY <1>5, <1>7, <1>14 DEF all, last, r

LEMMA EndNote ==
  ASSUME NEW cb, NEW notes, NEW n \in Nat, NEW m \in Nat, NoteOK(cb, TRUE, notes, n, m),
         \A note \in notes : note[2] \in Nat, ~fireContinues(cb)
  PROVE  LET new == fireEnd(cb)
         IN /\ NoteOK(new, new.firing, notes, n, m)
            /\ new.firing => new.memory = Head(cb.stack) /\ cb.stack # Gone /\ Head(cb.stack) \in Nat
            /\ ~new.firing => new.memory = cb.memory
            /\ cb.stack = Gone => new.stack = Gone /\ ~new.firing
<1> DEFINE new == fireEnd(cb)
           c1 == [cb EXCEPT !.firing = FALSE]
<1>0. TRUE \in BOOLEAN /\ FALSE \in BOOLEAN
  OBVIOUS
<1>1. /\ cb \in CallbackList /\ cb.options = {"memory"} /\ cb.firingStart = 0
      /\ cb.firing /\ cb.list # Gone /\ cb.memory # Gone /\ cb.fired /\ cb.memory \in Nat
      /\ (cb.stack # Gone => cb.stack \in Seq(Nat))
  <2>1. cb.firing
    BY DEF NoteOK
  <2> QED
    BY <1>0, <2>1, NoteFacts
<1>2. /\ c1 \in CallbackList /\ c1.options = cb.options /\ c1.stack = cb.stack /\ c1.firingStart = 0
      /\ c1.fired = cb.fired /\ c1.firing = FALSE /\ c1.memory = cb.memory /\ c1.list = cb.list
  <2>1. c1 \in CallbackList
    BY <1>0, <1>1, AssignedTypes
  <2> QED
    BY <1>1, <2>1 DEF CallbackList
<1>3. /\ InOrderOfAdding(cb.list, n) /\ (\A i \in DOMAIN cb.list : IsUser(cb.list[i]))
      /\ \A note \in notes : note[2] <= cb.memory
      /\ cb.memory <= m
  BY <1>1 DEF NoteOK
<1>4. CASE cb.stack = Gone
  <2>1. new = [c1 EXCEPT !.list = <<>>]
    BY <1>1, <1>4 DEF fireEnd
  <2>2. <<>> \in Seq(Callee) /\ <<>> \in ListOrGone
    <3>1. <<>> \in Seq(Callee)
      BY SMT
    <3> QED
      BY <3>1 DEF ListOrGone
  <2> HIDE DEF c1, new
  <2>3. /\ new \in CallbackList /\ new.options = cb.options /\ new.stack = cb.stack /\ new.firingStart = 0
        /\ new.fired = cb.fired /\ new.firing = FALSE /\ new.memory = cb.memory /\ new.list = <<>>
    <3>1. new \in CallbackList
      BY <1>2, <2>1, <2>2, AssignedTypes
    <3> QED
      BY <1>2, <2>1, <3>1 DEF CallbackList
  <2>4. DOMAIN new.list = {}
    BY <2>3, SMT
  <2>5. InOrderOfAdding(new.list, n) /\ LoopOK(new, FALSE) /\ \A i \in DOMAIN new.list : IsUser(new.list[i])
    BY <2>3, <2>4 DEF InOrderOfAdding, LoopOK
  <2>6. <<>> # Gone
    BY <2>2, GoneIsNone
  <2>7. NoteOK(new, FALSE, notes, n, m)
    BY <1>1, <1>3, <1>4, <2>3, <2>5, <2>6 DEF NoteOK
  <2> QED
    BY <1>4, <2>3, <2>7 DEF new
<1>5. CASE cb.stack # Gone /\ cb.stack = <<>>
  <2>1. new = c1
    BY <1>1, <1>5 DEF fireEnd
  <2> HIDE DEF c1, new
  <2>2. DOMAIN cb.stack = {}
    BY <1>5, SMT
  <2>3. LoopOK(new, FALSE) /\ StackOK(new, m)
    BY <1>2, <1>5, <2>1, <2>2 DEF LoopOK, StackOK
  <2>4. NoteOK(new, FALSE, notes, n, m)
    BY <1>1, <1>2, <1>3, <1>5, <2>1, <2>3 DEF NoteOK, StackOK
  <2> QED
    BY <1>2, <1>5, <2>1, <2>4 DEF new
<1>6. CASE cb.stack # Gone /\ cb.stack # <<>>
  <2> DEFINE s == cb.stack
             c2 == [c1 EXCEPT !.stack = Tail(s)]
  <2>1. new = fireStart(c2, Head(s))
    <3>1. c1.stack = s
      BY <1>2
    <3>2. new = fireStart([c1 EXCEPT !.stack = Tail(@)], Head(s))
      BY <1>1, <1>6 DEF fireEnd
    <3> QED
      BY <3>1, <3>2
  <2> HIDE DEF c1, new
  <2>2. /\ \A i \in DOMAIN s : s[i] <= m /\ cb.memory < s[i]
        /\ \A i, j \in DOMAIN s : i < j => s[i] < s[j]
    BY <1>1, <1>6 DEF NoteOK
  <2>3. s \in Seq(Nat) /\ s # <<>>
    BY <1>1, <1>6
  <2> HIDE DEF s
  <2>4. /\ Tail(s) \in Seq(Nat) /\ Head(s) = s[1] /\ 1 \in DOMAIN s /\ s[1] \in Nat
        /\ \A i \in DOMAIN Tail(s) : i + 1 \in DOMAIN s /\ Tail(s)[i] = s[i + 1] /\ 1 < i + 1 /\ i \in Nat
    BY <2>3, SMT
  <2>5. /\ \A i \in DOMAIN Tail(s) : Tail(s)[i] <= m /\ Head(s) < Tail(s)[i]
        /\ Head(s) <= m /\ Head(s) \in Nat /\ cb.memory < Head(s)
    BY <2>2, <2>4
  <2>6. \A i, j \in DOMAIN Tail(s) : i < j => Tail(s)[i] < Tail(s)[j]
    <3>1. \A i, j \in DOMAIN Tail(s) : i < j => i + 1 < j + 1
      BY <2>4, SMT
    <3> QED
      BY <2>2, <2>4, <3>1
  <2>7. Tail(s) \in StackOrGone /\ Tail(s) # Gone
    BY <2>4, GoneIsNone DEF StackOrGone
  <2>8. /\ c2 \in CallbackList /\ c2.options = {"memory"} /\ c2.firingStart = 0 /\ c2.list = cb.list
        /\ c2.stack = Tail(s)
    <3>1. c2 \in CallbackList
      BY <1>2, <2>7, AssignedTypes
    <3> QED
      BY <1>1, <1>2, <3>1 DEF CallbackList
  <2> HIDE DEF c2
  <2>9. \A note \in notes : note[2] < Head(s) /\ note[2] <= Head(s)
    BY <1>1, <1>3, <2>5, SMT
  <2> DEFINE t == Tail(s)
             h == Head(s)
  <2>10. /\ \A i \in DOMAIN c2.stack : c2.stack[i] <= m /\ h < c2.stack[i]
         /\ \A i, j \in DOMAIN c2.stack : i < j => c2.stack[i] < c2.stack[j]
         /\ c2.list # Gone /\ c2.stack # Gone /\ h \in Nat /\ h <= m
         /\ InOrderOfAdding(c2.list, n) /\ (\A i \in DOMAIN c2.list : IsUser(c2.list[i]))
    BY <1>1, <1>3, <2>5, <2>6, <2>7, <2>8
  <2> HIDE DEF t, h
  <2>11. \A note \in notes : note[2] < h /\ note[2] <= h
    BY <2>9 DEF h
  <2>12. NoteOK(fireStart(c2, h), TRUE, notes, n, m) /\ fireStart(c2, h).firing /\ fireStart(c2, h).memory = h
    <3>1. CanStart(c2, h, notes, n, m)
      BY <2>8, <2>10, <2>11 DEF CanStart
    <3> QED
      BY <2>10, <3>1, StartNote
  <2>13. new = fireStart(c2, h) /\ new.firing \in BOOLEAN
    <3>1. new = fireStart(c2, h)
      BY <2>1 DEF h
    <3>2. new \in CallbackList
      BY <2>12, <3>1 DEF NoteOK
    <3> QED
      BY <3>1, <3>2, ListFacts
  <2>14. new.firing = TRUE /\ NoteOK(new, TRUE, notes, n, m) /\ new.memory = h
    BY <2>12, <2>13
  <2> QED
    BY <1>6, <2>10, <2>14 DEF h, s, new
<1> QED
  BY <1>4, <1>5, <1>6

LEMMA LockNote ==
  ASSUME NEW cb, NEW notes, NEW n \in Nat, NEW m \in Nat, NoteOK(cb, FALSE, notes, n, m)
  PROVE  LET new == lock(cb)
         IN NoteOK(new, FALSE, notes, n, m) /\ new.stack = Gone /\ new.memory = cb.memory /\ new.firing = cb.firing
<1> DEFINE new == lock(cb)
<1>0. FALSE \in BOOLEAN
  OBVIOUS
<1>1. /\ cb \in CallbackList /\ cb.options = {"memory"} /\ cb.firingStart = 0
      /\ (cb.firing => cb.list # Gone /\ cb.memory # Gone /\ cb.fired)
  BY <1>0, NoteFacts
<1>2. CASE cb.memory = Gone
  <2>1. new = disable(cb)
    BY <1>2 DEF lock
  <2> DEFINE d == disable(cb)
  <2>2. /\ d \in CallbackList /\ d.options = cb.options /\ d.list = Gone /\ d.stack = Gone
        /\ d.memory = Gone /\ d.firing = cb.firing /\ d.firingStart = cb.firingStart
    BY <1>1, DisableFields
  <2> HIDE DEF new, d
  <2>3. new = d
    BY <2>1 DEF d
  <2>4. \A note \in notes : FALSE
    BY <1>2 DEF NoteOK
  <2>5. NoteOK(d, FALSE, notes, n, m)
    BY <1>1, <1>2, <2>2, <2>4 DEF NoteOK
  <2> QED
    BY <1>2, <2>2, <2>3, <2>5 DEF new
<1>3. CASE cb.memory # Gone
  <2>1. new = [cb EXCEPT !.stack = Gone]
    BY <1>3 DEF lock
  <2>2. Gone \in StackOrGone
    BY DEF StackOrGone
  <2>3. new \in CallbackList
    BY <1>1, <2>1, <2>2, AssignedTypes
  <2>4. /\ new.options = cb.options /\ new.list = cb.list /\ new.stack = Gone /\ new.memory = cb.memory
        /\ new.fired = cb.fired /\ new.firing = cb.firing /\ new.firingIndex = cb.firingIndex
        /\ new.firingStart = cb.firingStart /\ new.firingLength = cb.firingLength
    BY <1>1, <2>1 DEF CallbackList
  <2> HIDE DEF new
  <2>5. Next1(new, FALSE) = Next1(cb, FALSE)
    BY <2>4 DEF Next1
  <2>6. LoopOK(cb, FALSE) => LoopOK(new, FALSE)
    BY <2>4 DEF LoopOK
  <2>7. NoteOK(new, FALSE, notes, n, m)
    BY <1>3, <2>3, <2>4, <2>5, <2>6 DEF NoteOK
  <2> QED
    BY <2>4, <2>7 DEF new
<1> QED
  BY <1>2, <1>3

------------------------------------------------------------------------------
(* The loops under way. *)

(* As far as the loops go, ls2 differs from ls only in the lists given. *)
SameBut(ls, ls2, changed) ==
  \A list \in ListNames \ changed :
    ls2[list].firing = ls[list].firing /\ (ls[list].firing => ls2[list].memory = ls[list].memory)

LEMMA FrameFacts ==
  ASSUME NEW fr \in Seq(Frame)
  PROVE  /\ \A i \in DOMAIN fr : fr[i] \in Frame /\ fr[i].list \in ListNames /\ fr[i].inCall \in BOOLEAN /\ fr[i].value \in Nat
         /\ DOMAIN fr = 1 .. Len(fr) /\ Len(fr) \in Nat
         /\ fr # <<>> => 1 \in DOMAIN fr
<1>1. \A i \in DOMAIN fr : fr[i] \in Frame
  BY SMT
<1>2. \A f \in Frame : f.list \in ListNames /\ f.inCall \in BOOLEAN /\ f.value \in Nat
  BY SMT DEF Frame
<1>3. DOMAIN fr = 1 .. Len(fr) /\ Len(fr) \in Nat /\ (fr # <<>> => 1 \in DOMAIN fr)
  BY SMT
<1> QED
  BY <1>1, <1>2, <1>3

LEMMA FrameAssigned ==
  ASSUME NEW f \in Frame
  PROVE  /\ \A b \in BOOLEAN : LET g == [f EXCEPT !.inCall = b]
                              IN g \in Frame /\ g.list = f.list /\ g.inCall = b /\ g.value = f.value
         /\ \A v \in Nat : LET g == [f EXCEPT !.value = v]
                          IN g \in Frame /\ g.list = f.list /\ g.inCall = f.inCall /\ g.value = v
<1>1. \A b \in BOOLEAN : LET g == [f EXCEPT !.inCall = b]
                        IN g \in Frame /\ g.list = f.list /\ g.inCall = b /\ g.value = f.value
  BY SMT DEF Frame
<1>2. \A v \in Nat : LET g == [f EXCEPT !.value = v]
                    IN g \in Frame /\ g.list = f.list /\ g.inCall = f.inCall /\ g.value = v
  BY SMT DEF Frame
<1> QED
  BY <1>1, <1>2

LEMMA FramesKeep ==
  ASSUME NEW fr, NEW ls, NEW ls2, NEW threw, FramesFit(fr, ls, threw), SameBut(ls, ls2, {})
  PROVE  FramesFit(fr, ls2, threw)
<1>1. \A list \in ListNames : ls2[list].firing = ls[list].firing /\ (ls[list].firing => ls2[list].memory = ls[list].memory)
  BY DEF SameBut
<1>2. \A i \in DOMAIN fr : fr[i].list \in ListNames
  BY FrameFacts DEF FramesFit
<1> QED
  BY <1>1, <1>2 DEF FramesFit

LEMMA FramesPush ==
  ASSUME NEW fr, NEW ls, NEW ls2, NEW threw, FramesFit(fr, ls, threw),
         fr # <<>> => fr[1].inCall,
         NEW l \in ListNames, SameBut(ls, ls2, {l}), ~ls[l].firing, ls2[l].firing, ls2[l].memory \in Nat
  PROVE  LET fr2 == <<[list |-> l, inCall |-> FALSE, value |-> ls2[l].memory]>> \o fr
         IN /\ FramesFit(fr2, ls2, threw)
            /\ InLoopIn(fr2, l) /\ \A k \in ListNames : InLoopIn(fr2, k) => k = l
<1> DEFINE f == [list |-> l, inCall |-> FALSE, value |-> ls2[l].memory]
           fr2 == <<f>> \o fr
<1>1. f \in Frame /\ f.list = l /\ f.inCall = FALSE /\ f.value = ls2[l].memory
  BY SMT DEF Frame
<1>0. /\ \A i, j \in DOMAIN fr : fr[i].list = fr[j].list => i = j
      /\ \A i \in DOMAIN fr : ls[fr[i].list].firing /\ fr[i].value = ls[fr[i].list].memory
      /\ \A i \in DOMAIN fr : i > 1 => fr[i].inCall
  BY DEF FramesFit
<1>2. fr \in Seq(Frame)
  BY DEF FramesFit
<1> HIDE DEF f
<1>3. /\ fr2 \in Seq(Frame) /\ fr2 # <<>> /\ 1 \in DOMAIN fr2 /\ fr2[1] = f
      /\ \A i \in DOMAIN fr2 : i = 1 \/ (i > 1 /\ i - 1 \in DOMAIN fr /\ fr2[i] = fr[i - 1] /\ (i - 1 = 1 \/ i - 1 > 1))
      /\ \A i \in DOMAIN fr : i + 1 \in DOMAIN fr2 /\ fr2[i + 1] = fr[i]
  BY <1>1, <1>2, SMT
<1> HIDE DEF fr2
<1>4. \A i \in DOMAIN fr : fr[i].list # l /\ fr[i].list \in ListNames
  BY <1>2, FrameFacts DEF FramesFit
<1>5. \A list \in ListNames : list # l =>
        ls2[list].firing = ls[list].firing /\ (ls[list].firing => ls2[list].memory = ls[list].memory)
  BY DEF SameBut
<1>12. ASSUME NEW i \in DOMAIN fr2, i # 1
       PROVE  /\ fr2[i].list # l /\ fr2[i].list \in ListNames
              /\ ls[fr2[i].list].firing /\ fr2[i].value = ls[fr2[i].list].memory
  <2>1. PICK k \in DOMAIN fr : fr2[i] = fr[k]
    BY <1>3, <1>12
  <2>2. fr[k].list # l /\ fr[k].list \in ListNames /\ ls[fr[k].list].firing /\ fr[k].value = ls[fr[k].list].memory
    BY <1>0, <1>4
  <2> QED
    BY <2>1, <2>2
<1>13. fr2[1].list = l
  BY <1>1, <1>3
<1>6. ASSUME NEW i \in DOMAIN fr2, NEW j \in DOMAIN fr2, fr2[i].list = fr2[j].list
      PROVE  i = j
  <2>1. CASE i = 1 /\ j = 1
    BY <2>1
  <2>2. CASE i = 1 /\ j # 1
    <3>1. fr2[i].list = l /\ fr2[j].list # l
      BY <1>12, <1>13, <2>2
    <3> QED
      BY <1>6, <3>1
  <2>3. CASE i # 1 /\ j = 1
    <3>1. fr2[j].list = l /\ fr2[i].list # l
      BY <1>12, <1>13, <2>3
    <3> QED
      BY <1>6, <3>1
  <2>4. CASE i # 1 /\ j # 1
    <3>0. i - 1 \in DOMAIN fr /\ j - 1 \in DOMAIN fr /\ fr2[i] = fr[i - 1] /\ fr2[j] = fr[j - 1]
      BY <1>3, <2>4
    <3>1. i - 1 = j - 1
      BY <1>0, <1>6, <3>0
    <3>2. i \in Int /\ j \in Int
      BY <1>3, SMT
    <3> QED
      BY <3>1, <3>2, SMT
  <2> QED
    BY <2>1, <2>2, <2>3, <2>4
<1>7. ASSUME NEW i \in DOMAIN fr2
      PROVE  ls2[fr2[i].list].firing /\ fr2[i].value = ls2[fr2[i].list].memory
  <2>1. CASE i = 1
    BY <1>1, <1>3, <2>1
  <2>2. CASE i # 1
    <3>1. /\ fr2[i].list # l /\ fr2[i].list \in ListNames
          /\ ls[fr2[i].list].firing /\ fr2[i].value = ls[fr2[i].list].memory
      BY <1>12, <2>2
    <3> QED
      BY <1>5, <3>1
  <2> QED
    BY <2>1, <2>2
<1>8. ASSUME NEW i \in DOMAIN fr2, i > 1
      PROVE  fr2[i].inCall
  <2>1. ~(1 > 1)
    BY SMT
  <2>2. i # 1
    BY <1>8, <2>1
  <2>3. i - 1 \in DOMAIN fr /\ fr2[i] = fr[i - 1] /\ (i - 1 = 1 \/ i - 1 > 1)
    BY <1>3, <2>2
  <2>4. fr # <<>>
    BY <2>3, SMT
  <2> QED
    BY <1>0, <2>3, <2>4
<1>9. ASSUME ~threw, NEW list \in ListNames, ls2[list].firing
      PROVE  \E i \in DOMAIN fr2 : fr2[i].list = list
  <2>1. CASE list = l
    BY <1>1, <1>3, <2>1
  <2>2. CASE list # l
    <3>1. ls[list].firing
      BY <1>5, <1>9, <2>2
    <3>2. PICK i \in DOMAIN fr : fr[i].list = list
      BY <1>9, <3>1 DEF FramesFit
    <3> QED
      BY <1>3, <3>2
  <2> QED
    BY <2>1, <2>2
<1>10. FramesFit(fr2, ls2, threw)
  BY <1>3, <1>6, <1>7, <1>8, <1>9 DEF FramesFit
<1>11. InLoopIn(fr2, l) /\ \A k \in ListNames : InLoopIn(fr2, k) => k = l
  BY <1>1, <1>3 DEF InLoopIn
<1> QED
  BY <1>10, <1>11 DEF fr2, f

(* The innermost loop goes on, with another value or in another place. *)
LEMMA FramesTop ==
  ASSUME NEW fr, NEW ls, NEW ls2, NEW threw, FramesFit(fr, ls, threw), fr # <<>>, NEW f \in Frame,
         f.list = fr[1].list, SameBut(ls, ls2, {f.list}), ls2[f.list].firing, f.value = ls2[f.list].memory
  PROVE  LET fr2 == [fr EXCEPT ![1] = f]
         IN /\ FramesFit(fr2, ls2, threw) /\ fr2 # <<>> /\ fr2[1] = f
            /\ \A k : InLoopIn(fr2, k) = (k = f.list /\ ~f.inCall)
<1> DEFINE fr2 == [fr EXCEPT ![1] = f]
<1>0. /\ \A i, j \in DOMAIN fr : fr[i].list = fr[j].list => i = j
      /\ \A i \in DOMAIN fr : ls[fr[i].list].firing /\ fr[i].value = ls[fr[i].list].memory
      /\ \A i \in DOMAIN fr : i > 1 => fr[i].inCall
  BY DEF FramesFit
<1>1. fr \in Seq(Frame) /\ 1 \in DOMAIN fr
  <2>1. fr \in Seq(Frame)
    BY DEF FramesFit
  <2> QED
    BY <2>1, FrameFacts
<1>2. /\ fr2 \in Seq(Frame) /\ DOMAIN fr2 = DOMAIN fr /\ fr2 # <<>> /\ fr2[1] = f
      /\ \A i \in DOMAIN fr : i # 1 => fr2[i] = fr[i]
  BY <1>1, SMT
<1> HIDE DEF fr2
<1>3. \A i \in DOMAIN fr : fr2[i].list = fr[i].list /\ fr[i].list \in ListNames /\ (i # 1 => fr[i].list # f.list)
  <2>1. \A i \in DOMAIN fr : fr[i].list \in ListNames
    BY <1>1, FrameFacts
  <2>2. \A i \in DOMAIN fr : i # 1 => fr[i].list # f.list
    BY <1>0, <1>1
  <2> QED
    BY <1>2, <2>1, <2>2
<1>4. \A list \in ListNames : list # f.list =>
        ls2[list].firing = ls[list].firing /\ (ls[list].firing => ls2[list].memory = ls[list].memory)
  BY DEF SameBut
<1>5. ASSUME NEW i \in DOMAIN fr2, NEW j \in DOMAIN fr2, fr2[i].list = fr2[j].list
      PROVE  i = j
  <2>1. i \in DOMAIN fr /\ j \in DOMAIN fr /\ fr[i].list = fr[j].list
    BY <1>2, <1>3, <1>5
  <2> QED
    BY <1>0, <2>1
<1>6. ASSUME NEW i \in DOMAIN fr2
      PROVE  ls2[fr2[i].list].firing /\ fr2[i].value = ls2[fr2[i].list].memory
  <2>1. CASE i = 1
    BY <1>2, <2>1
  <2>2. CASE i # 1
    <3>1. i \in DOMAIN fr /\ fr2[i] = fr[i] /\ fr[i].list \in ListNames /\ fr[i].list # f.list
      BY <1>2, <1>3, <2>2
    <3> QED
      BY <1>0, <1>4, <3>1
  <2> QED
    BY <2>1, <2>2
<1>7. ASSUME NEW i \in DOMAIN fr2, i > 1
      PROVE  fr2[i].inCall
  <2>1. ~(1 > 1)
    BY SMT
  <2>2. i # 1
    BY <1>7, <2>1
  <2> QED
    BY <1>0, <1>2, <1>7, <2>2
<1>8. ASSUME ~threw, NEW list \in ListNames, ls2[list].firing
      PROVE  \E i \in DOMAIN fr2 : fr2[i].list = list
  <2>1. CASE list = f.list
    BY <1>1, <1>2, <2>1
  <2>2. CASE list # f.list
    <3>1. PICK i \in DOMAIN fr : fr[i].list = list
      BY <1>4, <1>8, <2>2 DEF FramesFit
    <3> QED
      BY <1>2, <1>3, <3>1
  <2> QED
    BY <2>1, <2>2
<1>9. FramesFit(fr2, ls2, threw)
  BY <1>2, <1>5, <1>6, <1>7, <1>8 DEF FramesFit
<1>10. ASSUME NEW k
       PROVE  InLoopIn(fr2, k) = (k = f.list /\ ~f.inCall)
  BY <1>2 DEF InLoopIn
<1> QED
  BY <1>2, <1>9, <1>10 DEF fr2

LEMMA FramesPop ==
  ASSUME NEW fr, NEW ls, NEW ls2, NEW threw, FramesFit(fr, ls, threw), fr # <<>>,
         SameBut(ls, ls2, {fr[1].list}), ~ls2[fr[1].list].firing
  PROVE  FramesFit(Tail(fr), ls2, threw) /\ \A k : ~InLoopIn(Tail(fr), k)
<1> DEFINE l == fr[1].list
           fr2 == Tail(fr)
<1>0. /\ \A i, j \in DOMAIN fr : fr[i].list = fr[j].list => i = j
      /\ \A i \in DOMAIN fr : ls[fr[i].list].firing /\ fr[i].value = ls[fr[i].list].memory
      /\ \A i \in DOMAIN fr : i > 1 => fr[i].inCall
  BY DEF FramesFit
<1>1. fr \in Seq(Frame) /\ 1 \in DOMAIN fr
  <2>1. fr \in Seq(Frame)
    BY DEF FramesFit
  <2> QED
    BY <2>1, FrameFacts
<1>2. /\ fr2 \in Seq(Frame)
      /\ \A i \in DOMAIN fr2 : i \in Int /\ i + 1 \in DOMAIN fr /\ fr2[i] = fr[i + 1] /\ i + 1 > 1 /\ i + 1 # 1
      /\ \A i \in DOMAIN fr : i # 1 => i - 1 \in DOMAIN fr2 /\ fr2[i - 1] = fr[i]
      /\ fr2 # <<>> => 1 \in DOMAIN fr2
  BY <1>1, SMT
<1> HIDE DEF fr2
<1>3. \A i \in DOMAIN fr2 : fr2[i].list # l /\ fr2[i].list \in ListNames
  <2>1. \A i \in DOMAIN fr : fr[i].list \in ListNames
    BY <1>1, FrameFacts
  <2>2. \A i \in DOMAIN fr : i # 1 => fr[i].list # l
    BY <1>0, <1>1
  <2> SUFFICES ASSUME NEW i \in DOMAIN fr2
               PROVE  fr2[i].list # l /\ fr2[i].list \in ListNames
    OBVIOUS
  <2>3. i + 1 \in DOMAIN fr /\ i + 1 # 1 /\ fr2[i] = fr[i + 1]
    BY <1>2
  <2> QED
    BY <2>1, <2>2, <2>3
<1>4. \A list \in ListNames : list # l =>
        ls2[list].firing = ls[list].firing /\ (ls[list].firing => ls2[list].memory = ls[list].memory)
  BY DEF SameBut
<1>5. ASSUME NEW i \in DOMAIN fr2, NEW j \in DOMAIN fr2, fr2[i].list = fr2[j].list
      PROVE  i = j
  <2>1. i + 1 = j + 1
    <3>1. i + 1 \in DOMAIN fr /\ j + 1 \in DOMAIN fr /\ fr2[i] = fr[i + 1] /\ fr2[j] = fr[j + 1]
      BY <1>2
    <3> QED
      BY <1>0, <1>5, <3>1
  <2>2. i \in Int /\ j \in Int
    BY <1>2
  <2> QED
    BY <2>1, <2>2, SMT
<1>6. ASSUME NEW i \in DOMAIN fr2
      PROVE  ls2[fr2[i].list].firing /\ fr2[i].value = ls2[fr2[i].list].memory /\ fr2[i].inCall
  <2>1. i + 1 \in DOMAIN fr /\ fr2[i] = fr[i + 1] /\ i + 1 > 1
    BY <1>2
  <2>2. ls[fr2[i].list].firing /\ fr2[i].value = ls[fr2[i].list].memory /\ fr2[i].inCall
    BY <1>0, <2>1
  <2> QED
    BY <1>3, <1>4, <2>2
<1>7. ASSUME ~threw, NEW list \in ListNames, ls2[list].firing
      PROVE  \E i \in DOMAIN fr2 : fr2[i].list = list
  <2>1. list # l
    BY <1>7
  <2>2. PICK i \in DOMAIN fr : fr[i].list = list
    BY <1>4, <1>7, <2>1 DEF FramesFit
  <2>3. i # 1
    BY <2>1, <2>2
  <2> QED
    BY <1>2, <2>2, <2>3
<1>8. FramesFit(fr2, ls2, threw)
  BY <1>2, <1>5, <1>6, <1>7 DEF FramesFit
<1>9. \A k : ~InLoopIn(fr2, k)
  BY <1>2, <1>6 DEF InLoopIn
<1> QED
  BY <1>8, <1>9 DEF fr2

------------------------------------------------------------------------------
(* What the invariant says at once. *)

LEMMA ListNameFacts ==
  /\ Outcomes \subseteq ListNames /\ "progress" \in ListNames /\ "progress" \notin Outcomes
  /\ ListNames = Outcomes \cup {"progress"} /\ "none" \notin ListNames
  /\ \A list \in Outcomes : /\ other(list) \in Outcomes /\ other(list) # list /\ list # "none" /\ list # "progress"
                            /\ \A k \in Outcomes : k = list \/ k = other(list)
<1>1. "done" # "fail" /\ "done" # "progress" /\ "fail" # "progress" /\ "none" # "done" /\ "none" # "fail" /\ "none" # "progress"
  OBVIOUS
<1>2. other("done") = "fail" /\ other("fail") = "done"
  BY <1>1 DEF other
<1> QED
  BY <1>1, <1>2 DEF Outcomes, ListNames

LEMMA DFacts ==
  ASSUME DInv
  PROVE  /\ Len(regs) \in Nat /\ calls \in Nat /\ raised \in BOOLEAN /\ DOMAIN lists = ListNames
         /\ \A list \in ListNames : lists[list] \in CallbackList /\ lists[list].firing \in BOOLEAN /\ lists[list].fired \in BOOLEAN
         /\ \A list \in Outcomes : lists[list].firing => lists[list].fired
         /\ settled \in [list: {"none"} \cup Outcomes, value: Nat]
         /\ frames \in Seq(Frame)
<1>1. Len(regs) \in Nat
  <2>1. regs \in Seq(SUBSET ListNames)
    BY DEF DInv, Types
  <2> QED
    BY <2>1, SMT
<1>2. \A list \in ListNames : lists[list] \in CallbackList
  BY ListNameFacts DEF DInv, OnceOK, NoteOK
<1>3. \A list \in ListNames : lists[list].firing \in BOOLEAN /\ lists[list].fired \in BOOLEAN
  BY <1>2, ListFacts
<1>4. ASSUME NEW list \in Outcomes
      PROVE  lists[list].firing => lists[list].fired
  <2>1. OnceOK(lists[list], InLoopOf(list), waitingOf(list), Len(regs)) /\ InLoopOf(list) \in BOOLEAN
    BY DEF DInv, InLoopOf, InLoopIn
  <2> QED
    BY <1>1, <2>1, OnceFacts
<1>5. calls \in Nat /\ raised \in BOOLEAN /\ DOMAIN lists = ListNames
  BY DEF DInv, Types
<1>6. settled \in [list: {"none"} \cup Outcomes, value: Nat] /\ frames \in Seq(Frame)
  BY DEF DInv, SettledFit, FramesFit
<1> QED
  BY <1>1, <1>2, <1>3, <1>4, <1>5, <1>6

LEMMA SettledTypes ==
  ASSUME NEW s \in [list: {"none"} \cup Outcomes, value: Nat]
  PROVE  /\ s.value \in Nat /\ (s.list # "none" => s.list \in Outcomes)
         /\ \A t \in [list: {"none"} \cup Outcomes, value: Nat] : t.list = s.list /\ t.value = s.value => t = s
BY SMT

(* What fires is what settled the deferred. *)
LEMMA FiredIsSettled ==
  ASSUME DInv, NEW list \in Outcomes, lists[list].fired
  PROVE  settled.list = list
<1>1. settled.list # "none"
  BY DEF DInv, SettledFit
<1>2. settled.list \in Outcomes
  BY <1>1, DFacts, SettledTypes
<1>3. ~lists[other(settled.list)].fired
  BY <1>1 DEF DInv, SettledFit
<1> QED
  BY <1>2, <1>3, ListNameFacts

(* After the deferred's own callbacks have run. *)
LEMMA SettledThrough ==
  ASSUME DInv, settled.list # "none", ~InLoopOf(settled.list)
  PROVE  /\ settled.list \in Outcomes /\ Internal(lists[settled.list]) >= 3
         /\ lists[other(settled.list)].list = Gone /\ ~lists[other(settled.list)].fired
         /\ lists["progress"].stack = Gone
         /\ state = IF settled.list = "done" THEN "resolved" ELSE "rejected"
<1>1. settled.list \in Outcomes
  BY DFacts, SettledTypes
<1>2. Internal(lists[settled.list]) \in Nat
  BY <1>1, DFacts, ListNameFacts, InternalNat
<1>3. ~(Internal(lists[settled.list]) < 3)
  BY DEF DInv, SettledFit, InLoopOf
<1>4. /\ Internal(lists[settled.list]) >= 1 /\ Internal(lists[settled.list]) >= 2
      /\ Internal(lists[settled.list]) >= 3
  BY <1>2, <1>3, SMT
<1> QED
  BY <1>1, <1>4 DEF DInv, SettledFit

LEMMA UserRunsFacts ==
  ASSUME UserRuns
  PROVE  \A list : InLoopOf(list) = FALSE
BY DEF UserRuns, InLoopOf, InLoopIn

(* The state that settled the deferred stays when its own callbacks have run. *)
LEMMA SettledStays ==
  ASSUME NEW fr, NEW ls, NEW s, NEW st, NEW m \in Nat, SettledFit(fr, ls, s, st, m),
         NEW fr2, NEW ls2, NEW m2 \in Nat, m <= m2,
         \A list \in Outcomes : ls2[list].fired = ls[list].fired /\ (ls2[list].list = Gone <=> ls[list].list = Gone),
         s.list # "none" => /\ ls2[s.list].memory = ls[s.list].memory
                            /\ Internal(ls[s.list]) >= 3 /\ Internal(ls2[s.list]) >= 3
                            /\ Internal(ls[s.list]) \in Nat /\ Internal(ls2[s.list]) \in Nat
                            /\ ls2["progress"].memory = ls["progress"].memory
                            /\ ls2["progress"].stack = Gone
  PROVE  SettledFit(fr2, ls2, s, st, m2)
<1>1. s \in [list: {"none"} \cup Outcomes, value: Nat]
  BY DEF SettledFit
<1>2. s.list = "none" => s.value = 0 /\ \A list \in Outcomes : ~ls2[list].fired /\ ls2[list].list # Gone
  BY DEF SettledFit
<1>3. ASSUME s.list # "none"
      PROVE  /\ ls2[s.list].fired /\ ls2[s.list].memory = s.value /\ s.value \in 1 .. m2
             /\ ~ls2[other(s.list)].fired
             /\ ls2["progress"].memory # Gone => ls2["progress"].memory < s.value
             /\ Internal(ls2[s.list]) < 3 => InLoopIn(fr2, s.list)
             /\ Internal(ls2[s.list]) >= 1 => st = IF s.list = "done" THEN "resolved" ELSE "rejected"
             /\ Internal(ls2[s.list]) >= 2 => ls2[other(s.list)].list = Gone
             /\ Internal(ls2[s.list]) >= 3 => ls2["progress"].stack = Gone
  <2>1. s.list \in Outcomes /\ other(s.list) \in Outcomes
    BY <1>1, <1>3, SettledTypes, ListNameFacts
  <2>2. ls2[s.list].fired /\ ls2[s.list].memory = s.value /\ s.value \in 1 .. m /\ ~ls2[other(s.list)].fired
    BY <1>3, <2>1 DEF SettledFit
  <2>3. s.value \in 1 .. m2
    BY <2>2, SMT
  <2>4. ls2["progress"].memory # Gone => ls2["progress"].memory < s.value
    BY <1>3 DEF SettledFit
  <2>5. ~(Internal(ls2[s.list]) < 3) /\ Internal(ls[s.list]) >= 1 /\ Internal(ls[s.list]) >= 2
    BY <1>3, SMT
  <2>6. st = IF s.list = "done" THEN "resolved" ELSE "rejected"
    BY <1>3, <2>5 DEF SettledFit
  <2>7. ls2[other(s.list)].list = Gone
    BY <1>3, <2>1, <2>5 DEF SettledFit
  <2> QED
    BY <1>3, <2>2, <2>3, <2>4, <2>5, <2>6, <2>7
<1> QED
  BY <1>1, <1>2, <1>3 DEF SettledFit

(* The frame of a loop that starts. *)
LEMMA StartedOne ==
  ASSUME NEW new, NEW v, NEW l \in ListNames, new[l].firing, ~lists[l].firing,
         \A k \in ListNames \ {l} : new[k].firing => lists[k].firing
  PROVE  Started(new, v) = <<[list |-> l, inCall |-> FALSE, value |-> v]>> \o frames
<1> DEFINE begun == {list \in ListNames : new[list].firing /\ ~lists[list].firing}
<1>1. begun = {l}
  OBVIOUS
<1>2. (CHOOSE list \in begun : TRUE) = l
  BY <1>1
<1> QED
  BY <1>1, <1>2 DEF Started

LEMMA StartedNone ==
  ASSUME NEW new, NEW v, \A k \in ListNames : new[k].firing => lists[k].firing
  PROVE  Started(new, v) = frames
BY DEF Started

(* The log and who waits. *)
LEMMA SameLog ==
  ASSUME UNCHANGED <<regs, log>>
  PROVE  (\A list : waitingOf(list)' = waitingOf(list)) /\ Notes' = Notes /\ (LogOK => LogOK')
BY DEF waitingOf, Notes, LogOK

LEMMA Registered ==
  ASSUME DInv, NEW names \in SUBSET ListNames, regs' = Append(regs, names), log' = log
  PROVE  /\ Len(regs)' = Len(regs) + 1 /\ regs' \in Seq(SUBSET ListNames)
         /\ \A list : waitingOf(list)' = IF list \in names THEN waitingOf(list) \cup {Len(regs) + 1} ELSE waitingOf(list)
         /\ Notes' = Notes /\ LogOK'
         /\ \A note \in Notes : note[1] # Len(regs) + 1
<1> DEFINE n == Len(regs)
<1>1. regs \in Seq(SUBSET ListNames) /\ n \in Nat
  BY DFacts DEF DInv, Types
<1>2. /\ regs' \in Seq(SUBSET ListNames) /\ Len(regs') = n + 1 /\ DOMAIN regs' = DOMAIN regs \cup {n + 1}
      /\ (\A r \in DOMAIN regs : regs'[r] = regs[r] /\ r # n + 1) /\ regs'[n + 1] = names
  BY <1>1, SMT
<1>3. \A i \in DOMAIN log : log[i].reg \in 0 .. n
  BY DEF DInv, LogOK
<1>4. \A i \in DOMAIN log : log[i].reg # n + 1 /\ log[i].reg \in 0 .. n + 1
  BY <1>1, <1>3, SMT
<1>5. ASSUME NEW list
      PROVE  waitingOf(list)' = IF list \in names THEN waitingOf(list) \cup {n + 1} ELSE waitingOf(list)
  <2>1. \A r : r \in waitingOf(list)' <=> /\ r \in DOMAIN regs \cup {n + 1} /\ list \in regs'[r]
                                          /\ ~\E i \in DOMAIN log : log[i].list = list /\ log[i].reg = r
    BY <1>2 DEF waitingOf
  <2>2. \A r \in DOMAIN regs : r \in waitingOf(list)' <=> r \in waitingOf(list)
    BY <1>2, <2>1 DEF waitingOf
  <2>3. n + 1 \in waitingOf(list)' <=> list \in names
    BY <1>2, <1>4, <2>1
  <2>4. \A r \in waitingOf(list) : r \in DOMAIN regs
    BY DEF waitingOf
  <2>5. \A r \in waitingOf(list)' : r \in DOMAIN regs \/ r = n + 1
    BY <2>1
  <2>6. CASE list \in names
    BY <2>2, <2>3, <2>4, <2>5, <2>6
  <2>7. CASE list \notin names
    <3>1. \A r \in waitingOf(list)' : r \in DOMAIN regs
      BY <2>3, <2>5, <2>7
    <3>2. waitingOf(list)' = waitingOf(list)
      BY <2>2, <2>4, <3>1
    <3> QED
      BY <2>7, <3>2
  <2> QED
    BY <2>6, <2>7
<1>6. Notes' = Notes
  BY DEF Notes
<1>7. LogOK'
  BY <1>2, <1>4 DEF DInv, LogOK
<1>8. ASSUME NEW note \in Notes
      PROVE  note[1] # n + 1
  <2>1. PICK i \in DOMAIN log : note = <<log[i].reg, log[i].value>>
    BY DEF Notes
  <2>2. note[1] = log[i].reg
    BY <2>1
  <2> QED
    BY <1>4, <2>2
<1> QED
  BY <1>2, <1>5, <1>6, <1>7, <1>8

LEMMA Logged ==
  ASSUME DInv, NEW r \in 0 .. Len(regs), NEW l \in ListNames, NEW v \in Nat,
         log' = Append(log, [reg |-> r, list |-> l, value |-> v]), regs' = regs,
         l = "progress" => \A note \in Notes : note[1] = r => note[2] < v
  PROVE  /\ \A list : waitingOf(list)' = IF list = l THEN waitingOf(list) \ {r} ELSE waitingOf(list)
         /\ Notes' = IF l = "progress" THEN Notes \cup {<<r, v>>} ELSE Notes
         /\ Called' = IF l # "progress" THEN Called \cup {<<r, v>>} ELSE Called
         /\ LogOK'
<1> DEFINE e == [reg |-> r, list |-> l, value |-> v]
           Entry == [reg: Nat, list: ListNames, value: Nat]
           k == Len(log) + 1
<1>1. log \in Seq(Entry) /\ Len(regs) \in Nat
  BY DFacts DEF DInv, LogOK
<1>2. e \in Entry /\ e.reg = r /\ e.list = l /\ e.value = v
  BY <1>1, SMT
<1> HIDE DEF e, Entry
<1>3. log' = Append(log, e)
  BY DEF e
<1>4. /\ log' \in Seq(Entry) /\ DOMAIN log' = DOMAIN log \cup {k} /\ log'[k] = e
      /\ (\A i \in DOMAIN log : log'[i] = log[i] /\ i < k) /\ (\A i \in DOMAIN log \cup {k} : ~(k < i))
  BY <1>1, <1>2, <1>3, SMT
<1> HIDE DEF k
<1>5. ASSUME NEW list
      PROVE  waitingOf(list)' = IF list = l THEN waitingOf(list) \ {r} ELSE waitingOf(list)
  <2>1. \A s : (\E i \in DOMAIN log' : log'[i].list = list /\ log'[i].reg = s)
                 <=> (\E i \in DOMAIN log : log[i].list = list /\ log[i].reg = s) \/ (l = list /\ r = s)
    BY <1>2, <1>4
  <2>2. \A s : s \in waitingOf(list)' <=> s \in waitingOf(list) /\ ~(l = list /\ r = s)
    BY <2>1 DEF waitingOf
  <2> QED
    BY <2>2
<1>6. Notes' = IF l = "progress" THEN Notes \cup {<<r, v>>} ELSE Notes
  <2>1. \A x : x \in Notes' <=> \E i \in DOMAIN log' : log'[i].list = "progress" /\ x = <<log'[i].reg, log'[i].value>>
    BY DEF Notes
  <2>2. \A x : x \in Notes <=> \E i \in DOMAIN log : log[i].list = "progress" /\ x = <<log[i].reg, log[i].value>>
    BY DEF Notes
  <2>3. \A x : x \in Notes' <=> x \in Notes \/ (l = "progress" /\ x = <<r, v>>)
    <3>1. ASSUME NEW x \in Notes'
          PROVE  x \in Notes \/ (l = "progress" /\ x = <<r, v>>)
      <4>1. PICK i \in DOMAIN log' : log'[i].list = "progress" /\ x = <<log'[i].reg, log'[i].value>>
        BY <2>1, <3>1
      <4>2. CASE i \in DOMAIN log
        BY <1>4, <2>2, <4>1, <4>2
      <4>3. CASE i = k
        BY <1>2, <1>4, <4>1, <4>3
      <4> QED
        BY <1>4, <4>2, <4>3
    <3>2. ASSUME NEW x \in Notes
          PROVE  x \in Notes'
      <4>1. PICK i \in DOMAIN log : log[i].list = "progress" /\ x = <<log[i].reg, log[i].value>>
        BY <2>2, <3>2
      <4>2. i \in DOMAIN log' /\ log'[i] = log[i]
        BY <1>4
      <4> QED
        BY <2>1, <4>1, <4>2
    <3>3. ASSUME l = "progress"
          PROVE  <<r, v>> \in Notes'
      <4>1. k \in DOMAIN log' /\ log'[k].list = "progress" /\ <<r, v>> = <<log'[k].reg, log'[k].value>>
        BY <1>2, <1>4, <3>3
      <4> QED
        BY <2>1, <4>1
    <3> QED
      BY <3>1, <3>2, <3>3
  <2> QED
    BY <2>3
<1>8. Called' = IF l # "progress" THEN Called \cup {<<r, v>>} ELSE Called
  <2>1. \A x : x \in Called' <=> \E i \in DOMAIN log' : log'[i].list # "progress" /\ x = <<log'[i].reg, log'[i].value>>
    BY DEF Called
  <2>2. \A x : x \in Called <=> \E i \in DOMAIN log : log[i].list # "progress" /\ x = <<log[i].reg, log[i].value>>
    BY DEF Called
  <2>3. \A x : x \in Called' <=> x \in Called \/ (l # "progress" /\ x = <<r, v>>)
    <3>1. ASSUME NEW x \in Called'
          PROVE  x \in Called \/ (l # "progress" /\ x = <<r, v>>)
      <4>1. PICK i \in DOMAIN log' : log'[i].list # "progress" /\ x = <<log'[i].reg, log'[i].value>>
        BY <2>1, <3>1
      <4>2. CASE i \in DOMAIN log
        BY <1>4, <2>2, <4>1, <4>2
      <4>3. CASE i = k
        BY <1>2, <1>4, <4>1, <4>3
      <4> QED
        BY <1>4, <4>2, <4>3
    <3>2. ASSUME NEW x \in Called
          PROVE  x \in Called'
      <4>1. PICK i \in DOMAIN log : log[i].list # "progress" /\ x = <<log[i].reg, log[i].value>>
        BY <2>2, <3>2
      <4>2. i \in DOMAIN log' /\ log'[i] = log[i]
        BY <1>4
      <4> QED
        BY <2>1, <4>1, <4>2
    <3>3. ASSUME l # "progress"
          PROVE  <<r, v>> \in Called'
      <4>1. k \in DOMAIN log' /\ log'[k].list # "progress" /\ <<r, v>> = <<log'[k].reg, log'[k].value>>
        BY <1>2, <1>4, <3>3
      <4> QED
        BY <2>1, <4>1
    <3> QED
      BY <3>1, <3>2, <3>3
  <2> QED
    BY <2>3
<1>7. LogOK'
  <2>1. \A i \in DOMAIN log' : log'[i].reg \in 0 .. Len(regs')
    BY <1>2, <1>4 DEF DInv, LogOK
  <2>2. ASSUME NEW i \in DOMAIN log', NEW j \in DOMAIN log', i < j, log'[i].list = "progress", log'[j].list = "progress",
               log'[i].reg = log'[j].reg
        PROVE  log'[i].value < log'[j].value
    <3>1. i \in DOMAIN log
      BY <1>4, <2>2
    <3>2. CASE j \in DOMAIN log
      BY <1>4, <2>2, <3>1, <3>2 DEF DInv, LogOK
    <3>3. CASE j = k
      <4>1. l = "progress" /\ log[i].reg = r /\ log'[j].value = v /\ log'[i] = log[i] /\ log[i].list = "progress"
        BY <1>2, <1>4, <2>2, <3>1, <3>3
      <4> DEFINE note == <<log[i].reg, log[i].value>>
      <4>2. note \in Notes
        BY <3>1, <4>1 DEF Notes
      <4>3. note[1] = r /\ note[2] = log[i].value
        BY <4>1
      <4> HIDE DEF note
      <4> QED
        BY <4>1, <4>2, <4>3
    <3> QED
      BY <1>4, <3>2, <3>3
  <2> QED
    BY <1>4, <2>1, <2>2 DEF LogOK, Entry
<1> QED
  BY <1>5, <1>6, <1>7, <1>8

------------------------------------------------------------------------------
(* The steps: each keeps the invariant and is a step of the promise or changes nothing of it. *)

RefStep == [Abstract!PromiseNext]_(Abstract!promiseVars)

LEMMA Stutters ==
  ASSUME UNCHANGED <<settled, regs, log>>
  PROVE  RefStep
<1>1. (\A list : waitingOf(list)' = waitingOf(list))
  BY DEF waitingOf
<1> QED
  BY <1>1 DEF RefStep, Abstract!promiseVars

LEMMA NotesNat ==
  ASSUME DInv
  PROVE  \A note \in Notes : note[2] \in Nat
<1> SUFFICES ASSUME NEW note \in Notes
             PROVE  note[2] \in Nat
  OBVIOUS
<1>1. PICK i \in DOMAIN log : note = <<log[i].reg, log[i].value>>
  BY DEF Notes
<1> DEFINE Entry == [reg: Nat, list: ListNames, value: Nat]
<1>2. log \in Seq(Entry)
  BY DEF DInv, LogOK
<1>5. \A e \in Entry : e.value \in Nat
  BY SMT
<1> HIDE DEF Entry
<1>6. log[i] \in Entry
  BY <1>2, SMT
<1>3. log[i].value \in Nat
  BY <1>5, <1>6
<1>4. note[2] = log[i].value
  BY <1>1
<1> QED
  BY <1>3, <1>4

(* A list for done or fail goes on as far as what settled the deferred is concerned. *)
GoesOn(cb, new) ==
  /\ new \in CallbackList /\ new.fired = cb.fired /\ (new.list = Gone <=> cb.list = Gone)
  /\ cb.fired => new.memory = cb.memory /\ (Internal(cb) >= 3 => Internal(new) >= 3)

LEMMA ThroughStays ==
  ASSUME DInv, settled.list # "none" => Internal(lists[settled.list]) >= 3,
         settled' = settled, state' = state, calls' \in Nat, calls <= calls',
         \A list \in Outcomes : GoesOn(lists[list], lists'[list]),
         settled.list # "none" => lists'["progress"].memory = lists["progress"].memory,
         lists["progress"].stack = Gone => lists'["progress"].stack = Gone
  PROVE  SettledFit(frames', lists', settled', state', calls')
<1>1. SettledFit(frames, lists, settled, state, calls) /\ calls \in Nat
  BY DFacts DEF DInv
<1>2. \A list \in Outcomes : /\ lists'[list].fired = lists[list].fired
                             /\ (lists'[list].list = Gone <=> lists[list].list = Gone)
  BY DEF GoesOn
<1>3. ASSUME settled.list # "none"
      PROVE  LET s == settled.list
             IN /\ lists'[s].memory = lists[s].memory
                /\ Internal(lists[s]) >= 3 /\ Internal(lists'[s]) >= 3
                /\ Internal(lists[s]) \in Nat /\ Internal(lists'[s]) \in Nat
                /\ lists'["progress"].memory = lists["progress"].memory
                /\ lists'["progress"].stack = Gone
  <2>1. settled.list \in Outcomes
    BY <1>3, DFacts, SettledTypes
  <2>2. lists[settled.list].fired /\ lists["progress"].stack = Gone
    BY <1>1, <1>3 DEF SettledFit
  <2>3. GoesOn(lists[settled.list], lists'[settled.list]) /\ lists[settled.list] \in CallbackList
    BY <2>1, DFacts, ListNameFacts
  <2>4. Internal(lists[settled.list]) \in Nat /\ Internal(lists'[settled.list]) \in Nat
    BY <2>3, InternalNat DEF GoesOn
  <2> QED
    BY <1>3, <2>2, <2>3, <2>4 DEF GoesOn
<1>4. SettledFit(frames', lists', settled, state, calls')
  BY <1>1, <1>2, <1>3, SettledStays
<1> QED
  BY <1>4

LEMMA GoesOnSame ==
  ASSUME NEW cb \in CallbackList
  PROVE  GoesOn(cb, cb)
BY DEF GoesOn

(* What the steps below know of the lists while a user runs. *)
LEMMA UserRunsLists ==
  ASSUME DInv, \A list : InLoopOf(list) = FALSE
  PROVE  /\ \A list \in Outcomes : OnceOK(lists[list], FALSE, waitingOf(list), Len(regs))
         /\ NoteOK(lists["progress"], FALSE, Notes, Len(regs), calls)
         /\ settled.list # "none" => Internal(lists[settled.list]) >= 3
BY SettledThrough DEF DInv

LEMMA ThrowKeeps ==
  ASSUME DInv, ThrowUser
  PROVE  DInv' /\ RefStep
<1>1. /\ frames # <<>> /\ frames[1].inCall /\ frames' = <<>> /\ raised' = TRUE
      /\ UNCHANGED <<lists, state, regs, calls, settled, log>>
  BY DEF ThrowUser
<1>2. \A list : InLoopOf(list) = FALSE /\ InLoopOf(list)' = FALSE
  BY <1>1 DEF InLoopOf, InLoopIn
<1>3. /\ (\A list : waitingOf(list)' = waitingOf(list)) /\ Notes' = Notes /\ LogOK'
  BY <1>1, SameLog DEF DInv
<1>4. Types'
  BY <1>1 DEF DInv, Types
<1>5. /\ \A list \in Outcomes : OnceOK(lists[list], FALSE, waitingOf(list), Len(regs))
      /\ NoteOK(lists["progress"], FALSE, Notes, Len(regs), calls)
      /\ (settled.list # "none" => Internal(lists[settled.list]) >= 3)
  BY <1>2, UserRunsLists
<1>6. FramesFit(<<>>, lists, TRUE)
  <2>1. <<>> \in Seq(Frame) /\ DOMAIN <<>> = {}
    BY SMT
  <2> QED
    BY <2>1 DEF FramesFit
<1>7. SettledFit(frames', lists', settled', state', calls')
  <2>1. calls \in Nat /\ \A list \in Outcomes : lists[list] \in CallbackList
    BY DFacts, ListNameFacts
  <2>2. calls <= calls
    BY <2>1, SMT
  <2> QED
    BY <1>1, <1>5, <2>1, <2>2, ThroughStays, GoesOnSame
<1>8. DInv'
  BY <1>1, <1>2, <1>3, <1>4, <1>5, <1>6, <1>7 DEF DInv
<1> QED
  BY <1>1, <1>8, Stutters

LEMMA ReturnKeeps ==
  ASSUME DInv, ReturnUser
  PROVE  DInv' /\ RefStep
<1> DEFINE l == frames[1].list
           f == [frames[1] EXCEPT !.inCall = FALSE]
           new == fireReturn(lists[l])
<1>1. /\ frames # <<>> /\ frames[1].inCall /\ frames' = [frames EXCEPT ![1] = f]
      /\ lists' = [lists EXCEPT ![l] = new]
      /\ UNCHANGED <<state, regs, calls, settled, log, raised>>
  BY DEF ReturnUser
<1>2. \A list : InLoopOf(list) = FALSE
  BY <1>1 DEF InLoopOf, InLoopIn
<1>3. /\ (\A list : waitingOf(list)' = waitingOf(list)) /\ Notes' = Notes /\ LogOK'
  BY <1>1, SameLog DEF DInv
<1>4. /\ FramesFit(frames, lists, raised) /\ frames[1] \in Frame /\ l \in ListNames /\ lists[l].firing
      /\ frames[1].value = lists[l].memory
  <2>1. FramesFit(frames, lists, raised) /\ 1 \in DOMAIN frames
    BY <1>1, DFacts, FrameFacts DEF DInv
  <2> QED
    BY <2>1, DFacts, FrameFacts DEF FramesFit
<1>5. /\ DOMAIN lists = ListNames /\ lists'[l] = new /\ \A k \in ListNames : k # l => lists'[k] = lists[k]
  BY <1>1, <1>4, DFacts
<1>6. f \in Frame /\ f.list = l /\ f.inCall = FALSE /\ f.value = frames[1].value
  BY <1>4, FrameAssigned
<1> HIDE DEF f
<1>7. /\ \A list \in Outcomes : OnceOK(lists[list], FALSE, waitingOf(list), Len(regs))
      /\ NoteOK(lists["progress"], FALSE, Notes, Len(regs), calls)
      /\ (settled.list # "none" => Internal(lists[settled.list]) >= 3)
  BY <1>2, UserRunsLists
<1>8. Len(regs) \in Nat /\ calls \in Nat /\ raised \in BOOLEAN
  BY DFacts
<1>9. /\ new.firing /\ new.memory = lists[l].memory
      /\ l \in Outcomes => /\ OnceOK(new, TRUE, waitingOf(l), Len(regs)) /\ new.fired /\ lists[l].fired
                           /\ Internal(lists[l]) >= 3 => Internal(new) >= 3
      /\ l = "progress" => NoteOK(new, TRUE, Notes, Len(regs), calls) /\ new.stack = lists[l].stack
  <2>1. CASE l \in Outcomes
    BY <1>4, <1>7, <1>8, <2>1, ReturnOnce, DFacts, ListNameFacts
  <2>2. CASE l = "progress"
    BY <1>4, <1>7, <1>8, <2>2, ReturnNote, ListNameFacts
  <2> QED
    BY <1>4, <2>1, <2>2, ListNameFacts
<1> HIDE DEF new
<1>10. SameBut(lists, lists', {l})
  BY <1>5 DEF SameBut
<1>11. /\ FramesFit(frames', lists', raised)
       /\ \A k : InLoopIn(frames', k) = (k = l)
  <2>1. lists'[f.list].firing /\ f.value = lists'[f.list].memory
    BY <1>4, <1>5, <1>6, <1>9
  <2>2. /\ FramesFit([frames EXCEPT ![1] = f], lists', raised)
        /\ \A k : InLoopIn([frames EXCEPT ![1] = f], k) = (k = f.list /\ ~f.inCall)
    BY <1>1, <1>4, <1>6, <1>10, <2>1, FramesTop
  <2> QED
    BY <1>1, <1>6, <2>2
<1>12. Types'
  BY <1>1, DFacts DEF DInv, Types
<1>13. \A list \in Outcomes : OnceOK(lists'[list], InLoopIn(frames', list), waitingOf(list)', Len(regs'))
  <2> SUFFICES ASSUME NEW list \in Outcomes
               PROVE  OnceOK(lists'[list], InLoopIn(frames', list), waitingOf(list), Len(regs))
    BY <1>1, <1>3
  <2>1. CASE list = l
    <3>1. InLoopIn(frames', list) = TRUE /\ lists'[list] = new
      BY <1>5, <1>11, <2>1
    <3> QED
      BY <1>9, <2>1, <3>1
  <2>2. CASE list # l
    <3>1. InLoopIn(frames', list) = FALSE /\ lists'[list] = lists[list]
      BY <1>5, <1>11, <2>2, ListNameFacts
    <3> QED
      BY <1>7, <3>1
  <2> QED
    BY <2>1, <2>2
<1>14. NoteOK(lists'["progress"], InLoopIn(frames', "progress"), Notes', Len(regs'), calls')
  <2>1. CASE l = "progress"
    <3>1. InLoopIn(frames', "progress") = TRUE /\ lists'["progress"] = new
      BY <1>5, <1>11, <2>1
    <3> QED
      BY <1>1, <1>3, <1>9, <2>1, <3>1
  <2>2. CASE l # "progress"
    <3>1. InLoopIn(frames', "progress") = FALSE /\ lists'["progress"] = lists["progress"]
      BY <1>5, <1>11, <2>2, ListNameFacts
    <3> QED
      BY <1>1, <1>3, <1>7, <3>1
  <2> QED
    BY <2>1, <2>2
<1>15. SettledFit(frames', lists', settled', state', calls')
  <2>1. calls <= calls' /\ calls' \in Nat
    BY <1>1, <1>8, SMT
  <2>2. ASSUME NEW list \in Outcomes
        PROVE  GoesOn(lists[list], lists'[list])
    <3>1. CASE list = l
      <4>1. new \in CallbackList /\ new.list # Gone /\ lists[l].list # Gone /\ new.fired /\ lists[l].fired
            /\ new.fired \in BOOLEAN /\ lists[l].fired \in BOOLEAN
        <5>1. TRUE \in BOOLEAN /\ FALSE \in BOOLEAN
          OBVIOUS
        <5> QED
          BY <1>7, <1>8, <1>9, <3>1, <5>1, OnceFacts
      <4> QED
        BY <1>5, <1>9, <3>1, <4>1 DEF GoesOn
    <3>2. CASE list # l
      BY <1>5, <3>2, GoesOnSame, DFacts, ListNameFacts
    <3> QED
      BY <3>1, <3>2
  <2>3. lists'["progress"].memory = lists["progress"].memory /\ lists'["progress"].stack = lists["progress"].stack
    BY <1>5, <1>9, ListNameFacts
  <2> QED
    BY <1>1, <1>7, <2>1, <2>2, <2>3, ThroughStays
<1>16. DInv'
  BY <1>1, <1>3, <1>11, <1>12, <1>13, <1>14, <1>15 DEF DInv, InLoopOf
<1> QED
  BY <1>1, <1>16, Stutters

(* The innermost loop, when it is in no callback of a user. *)
LEMMA TopFacts ==
  ASSUME DInv, frames # <<>>
  PROVE  LET l == frames[1].list
         IN /\ FramesFit(frames, lists, raised) /\ frames[1] \in Frame /\ l \in ListNames /\ lists[l].firing
            /\ frames[1].value = lists[l].memory /\ frames[1].value \in Nat
            /\ l \in Outcomes => lists[l].fired /\ settled.list = l
<1> DEFINE l == frames[1].list
<1>1. FramesFit(frames, lists, raised) /\ 1 \in DOMAIN frames
  BY DFacts, FrameFacts DEF DInv
<1>2. frames[1] \in Frame /\ l \in ListNames /\ lists[l].firing /\ frames[1].value = lists[l].memory /\ frames[1].value \in Nat
  BY <1>1, DFacts, FrameFacts DEF FramesFit
<1>3. l \in Outcomes => lists[l].fired /\ settled.list = l
  BY <1>2, DFacts, FiredIsSettled
<1> QED
  BY <1>1, <1>2, <1>3

LEMMA TopLoop ==
  ASSUME DInv, frames # <<>>, ~frames[1].inCall
  PROVE  LET l == frames[1].list
         IN /\ \A k : InLoopOf(k) = (k = l)
            /\ \A k \in Outcomes : OnceOK(lists[k], k = l, waitingOf(k), Len(regs))
            /\ NoteOK(lists["progress"], l = "progress", Notes, Len(regs), calls)
            /\ l = "progress" /\ settled.list # "none" => Internal(lists[settled.list]) >= 3
<1> DEFINE l == frames[1].list
<1>1. \A k : InLoopOf(k) = (k = l)
  BY DEF InLoopOf, InLoopIn
<1>2. ASSUME NEW k \in Outcomes
      PROVE  OnceOK(lists[k], k = l, waitingOf(k), Len(regs))
  BY <1>1 DEF DInv
<1>3. NoteOK(lists["progress"], l = "progress", Notes, Len(regs), calls)
  <2>1. InLoopOf("progress") = (l = "progress")
    BY <1>1
  <2> QED
    BY <2>1 DEF DInv
<1>4. ASSUME l = "progress", settled.list # "none"
      PROVE  Internal(lists[settled.list]) >= 3
  <2>1. settled.list \in Outcomes
    BY <1>4, DFacts, SettledTypes
  <2>2. ~InLoopOf(settled.list)
    BY <1>1, <1>4, <2>1, ListNameFacts
  <2> QED
    BY <1>4, <2>2, SettledThrough
<1> HIDE DEF l
<1> QED
  BY <1>1, <1>2, <1>3, <1>4 DEF l

(* A loop of done or fail ends. *)
LEMMA EndOutcome ==
  ASSUME DInv, EndLoop, frames[1].list \in Outcomes
  PROVE  DInv'
<1> DEFINE l == frames[1].list
           new == fireEnd(lists[l])
<1>1. /\ frames # <<>> /\ ~frames[1].inCall /\ ~fireContinues(lists[l])
      /\ lists' = [lists EXCEPT ![l] = new]
      /\ frames' = IF new.firing THEN [frames EXCEPT ![1].value = Head(lists[l].stack)] ELSE Tail(frames)
      /\ UNCHANGED <<state, regs, calls, settled, log, raised>>
  BY DEF EndLoop
<1>2. /\ (\A list : waitingOf(list)' = waitingOf(list)) /\ Notes' = Notes /\ LogOK'
  BY <1>1, SameLog DEF DInv
<1>3. /\ FramesFit(frames, lists, raised) /\ l \in ListNames /\ lists[l].fired /\ settled.list = l
  BY <1>1, TopFacts
<1>4. /\ \A k \in Outcomes : OnceOK(lists[k], k = l, waitingOf(k), Len(regs))
      /\ NoteOK(lists["progress"], l = "progress", Notes, Len(regs), calls)
  BY <1>1, TopLoop
<1>5. Len(regs) \in Nat /\ calls \in Nat /\ DOMAIN lists = ListNames
  BY DFacts
<1>6. lists'[l] = new /\ \A k \in ListNames : k # l => lists'[k] = lists[k]
  BY <1>1, <1>3, <1>5
<1>7. l # "progress" /\ (l = "progress") = FALSE /\ "progress" \in ListNames
  BY ListNameFacts
<1>8. OnceOK(lists[l], TRUE, waitingOf(l), Len(regs))
  <2>1. (l = l) = TRUE
    OBVIOUS
  <2> QED
    BY <1>4, <2>1
<1>9. /\ OnceOK(new, FALSE, waitingOf(l), Len(regs)) /\ new.fired /\ ~new.firing /\ new.memory = lists[l].memory
      /\ Internal(new) = 3 /\ Internal(lists[l]) >= 3
  BY <1>1, <1>5, <1>8, EndOnce
<1> HIDE DEF new
<1>10. frames' = Tail(frames) /\ SameBut(lists, lists', {l})
  BY <1>1, <1>6, <1>9 DEF SameBut
<1>11. FramesFit(frames', lists', raised) /\ \A k : ~InLoopIn(frames', k)
  <2>1. ~lists'[frames[1].list].firing
    BY <1>6, <1>9
  <2>2. FramesFit(Tail(frames), lists', raised) /\ \A k : ~InLoopIn(Tail(frames), k)
    BY <1>1, <1>3, <1>10, <2>1, FramesPop
  <2> QED
    BY <1>10, <2>2
<1>12. \A k : InLoopIn(frames', k) = FALSE
  BY <1>11 DEF InLoopIn
<1>13. Types'
  BY <1>1, <1>5 DEF DInv, Types
<1>14. \A list \in Outcomes : OnceOK(lists'[list], InLoopIn(frames', list), waitingOf(list)', Len(regs'))
  <2> SUFFICES ASSUME NEW list \in Outcomes
               PROVE  OnceOK(lists'[list], FALSE, waitingOf(list), Len(regs))
    BY <1>1, <1>2, <1>12
  <2>1. CASE list = l
    BY <1>6, <1>9, <2>1
  <2>2. CASE list # l
    <3>1. (list = l) = FALSE /\ lists'[list] = lists[list]
      BY <1>6, <2>2, ListNameFacts
    <3> QED
      BY <1>4, <3>1
  <2> QED
    BY <2>1, <2>2
<1>15. NoteOK(lists'["progress"], InLoopIn(frames', "progress"), Notes', Len(regs'), calls')
  BY <1>1, <1>2, <1>4, <1>6, <1>7, <1>12
<1>16. SettledFit(frames', lists', settled', state', calls')
  <2>1. calls <= calls' /\ calls' \in Nat
    BY <1>1, <1>5, SMT
  <2>2. ASSUME NEW list \in Outcomes
        PROVE  GoesOn(lists[list], lists'[list])
    <3>1. CASE list = l
      <4>0. TRUE \in BOOLEAN /\ FALSE \in BOOLEAN
        OBVIOUS
      <4>1. new \in CallbackList /\ new.list # Gone /\ lists[l].list # Gone
            /\ new.fired \in BOOLEAN /\ lists[l].fired \in BOOLEAN
        BY <1>3, <1>5, <1>8, <1>9, <4>0, OnceFacts
      <4>2. 3 >= 3
        BY SMT
      <4> QED
        BY <1>3, <1>6, <1>9, <3>1, <4>1, <4>2 DEF GoesOn
    <3>2. CASE list # l
      BY <1>6, <3>2, GoesOnSame, DFacts, ListNameFacts
    <3> QED
      BY <3>1, <3>2
  <2>3. lists'["progress"] = lists["progress"]
    BY <1>6, <1>7
  <2> QED
    BY <1>1, <1>3, <1>9, <2>1, <2>2, <2>3, ThroughStays
<1> QED
  BY <1>1, <1>2, <1>11, <1>13, <1>14, <1>15, <1>16 DEF DInv, InLoopOf

(* A loop of progress ends, or goes on with the next notification. *)
LEMMA EndProgress ==
  ASSUME DInv, EndLoop, frames[1].list = "progress"
  PROVE  DInv'
<1> DEFINE p == "progress"
           cb == lists["progress"]
           new == fireEnd(cb)
           f == [frames[1] EXCEPT !.value = Head(cb.stack)]
<1>1. /\ frames # <<>> /\ ~frames[1].inCall /\ ~fireContinues(cb)
      /\ lists' = [lists EXCEPT !["progress"] = new]
      /\ frames' = IF new.firing THEN [frames EXCEPT ![1] = f] ELSE Tail(frames)
      /\ UNCHANGED <<state, regs, calls, settled, log, raised>>
  BY DEF EndLoop
<1>2. /\ (\A list : waitingOf(list)' = waitingOf(list)) /\ Notes' = Notes /\ LogOK'
  BY <1>1, SameLog DEF DInv
<1>3. FramesFit(frames, lists, raised) /\ frames[1] \in Frame
  BY <1>1, TopFacts
<1>4. /\ \A k \in Outcomes : OnceOK(lists[k], k = "progress", waitingOf(k), Len(regs))
      /\ NoteOK(cb, "progress" = "progress", Notes, Len(regs), calls)
      /\ (settled.list # "none" => Internal(lists[settled.list]) >= 3)
  BY <1>1, TopLoop
<1>5. Len(regs) \in Nat /\ calls \in Nat /\ DOMAIN lists = ListNames /\ "progress" \in ListNames
  BY DFacts, ListNameFacts
<1>6. lists'["progress"] = new /\ \A k \in ListNames : k # "progress" => lists'[k] = lists[k]
  BY <1>1, <1>5
<1>7. \A k \in Outcomes : k \in ListNames /\ k # "progress" /\ (k = "progress") = FALSE
  BY ListNameFacts
<1>8. NoteOK(cb, TRUE, Notes, Len(regs), calls)
  <2>1. ("progress" = "progress") = TRUE
    OBVIOUS
  <2> QED
    BY <1>4, <2>1
<1>9. /\ NoteOK(new, new.firing, Notes, Len(regs), calls)
      /\ (new.firing => new.memory = Head(cb.stack) /\ cb.stack # Gone /\ Head(cb.stack) \in Nat)
      /\ (~new.firing => new.memory = cb.memory)
      /\ (cb.stack = Gone => new.stack = Gone /\ ~new.firing)
  BY <1>1, <1>5, <1>8, NotesNat, EndNote
<1>10. new.firing \in BOOLEAN
  <2>1. new \in CallbackList
    BY <1>9 DEF NoteOK
  <2> QED
    BY <2>1, ListFacts
<1> HIDE DEF new, cb
<1>11. SameBut(lists, lists', {"progress"})
  BY <1>6 DEF SameBut
<1>12. FramesFit(frames', lists', raised) /\ \A k : InLoopIn(frames', k) = (k = "progress" /\ new.firing)
  <2>1. CASE new.firing
    <3>1. f \in Frame /\ f.list = "progress" /\ f.inCall = frames[1].inCall /\ f.value = Head(cb.stack)
      BY <1>3, <1>9, <2>1, FrameAssigned
    <3> HIDE DEF f
    <3>2. f.list = frames[1].list /\ SameBut(lists, lists', {f.list}) /\ lists'[f.list].firing /\ f.value = lists'[f.list].memory
      BY <1>6, <1>9, <1>11, <2>1, <3>1
    <3>3. /\ FramesFit([frames EXCEPT ![1] = f], lists', raised)
          /\ \A k : InLoopIn([frames EXCEPT ![1] = f], k) = (k = f.list /\ ~f.inCall)
      BY <1>1, <1>3, <3>1, <3>2, FramesTop
    <3>4. frames' = [frames EXCEPT ![1] = f]
      BY <1>1, <2>1
    <3>5. FramesFit(frames', lists', raised) /\ \A k : InLoopIn(frames', k) = (k = f.list /\ ~f.inCall)
      BY <3>3, <3>4
    <3>6. ASSUME NEW k
          PROVE  (k = f.list /\ ~f.inCall) = (k = "progress" /\ new.firing)
      BY <1>1, <2>1, <3>1
    <3> QED
      BY <3>5, <3>6
  <2>2. CASE ~new.firing
    <3>1. ~lists'[frames[1].list].firing /\ SameBut(lists, lists', {frames[1].list})
      BY <1>6, <1>11, <2>2
    <3>2. FramesFit(Tail(frames), lists', raised) /\ \A k : ~InLoopIn(Tail(frames), k)
      BY <1>1, <1>3, <3>1, FramesPop
    <3>3. frames' = Tail(frames)
      BY <1>1, <2>2
    <3>4. ASSUME NEW k
          PROVE  InLoopIn(frames', k) = (k = "progress" /\ new.firing)
      BY <2>2, <3>2, <3>3 DEF InLoopIn
    <3> QED
      BY <3>2, <3>3, <3>4
  <2> QED
    BY <2>1, <2>2
<1>13. Types'
  BY <1>1, <1>5 DEF DInv, Types
<1>14. \A list \in Outcomes : OnceOK(lists'[list], InLoopIn(frames', list), waitingOf(list)', Len(regs'))
  <2> SUFFICES ASSUME NEW list \in Outcomes
               PROVE  OnceOK(lists[list], InLoopIn(frames', list), waitingOf(list), Len(regs))
    BY <1>1, <1>2, <1>6, <1>7
  <2>1. InLoopIn(frames', list) = FALSE /\ (list = "progress") = FALSE
    BY <1>7, <1>12
  <2> QED
    BY <1>4, <2>1
<1>15. NoteOK(lists'["progress"], InLoopIn(frames', "progress"), Notes', Len(regs'), calls')
  <2>1. InLoopIn(frames', "progress") = new.firing
    BY <1>10, <1>12
  <2> QED
    BY <1>1, <1>2, <1>6, <1>9, <2>1
<1>16. SettledFit(frames', lists', settled', state', calls')
  <2>1. calls <= calls' /\ calls' \in Nat
    BY <1>1, <1>5, SMT
  <2>2. \A list \in Outcomes : GoesOn(lists[list], lists'[list])
    BY <1>6, <1>7, GoesOnSame, DFacts
  <2>3. settled.list # "none" => cb.stack = Gone
    BY <1>4 DEF DInv, SettledFit, cb
  <2>4. /\ settled.list # "none" => lists'["progress"].memory = lists["progress"].memory
        /\ lists["progress"].stack = Gone => lists'["progress"].stack = Gone
    BY <1>6, <1>9, <2>3 DEF cb
  <2> QED
    BY <1>1, <1>4, <2>1, <2>2, <2>4, ThroughStays
<1> QED
  BY <1>1, <1>2, <1>12, <1>13, <1>14, <1>15, <1>16 DEF DInv, InLoopOf

LEMMA EndKeeps ==
  ASSUME DInv, EndLoop
  PROVE  DInv' /\ RefStep
<1>1. frames[1].list \in ListNames /\ UNCHANGED <<settled, regs, log>>
  BY TopFacts DEF EndLoop
<1>2. DInv'
  BY <1>1, EndOutcome, EndProgress, ListNameFacts
<1> QED
  BY <1>1, <1>2, Stutters

(* The step of the promise when a callback for done or fail is called. *)
LEMMA CallsBack ==
  ASSUME NEW r, settled.list \in Outcomes, settled' = settled, regs' = regs,
         r \in waitingOf(settled.list), \A s \in waitingOf(settled.list) : r <= s,
         \A list : waitingOf(list)' = IF list = settled.list THEN waitingOf(list) \ {r} ELSE waitingOf(list),
         Called' = Called \cup {<<r, settled.value>>}
  PROVE  RefStep
<1> DEFINE waiting == [list \in {"done", "fail"} |-> waitingOf(list)]
           l == settled.list
<1>1. settled # Abstract!Pending
  <2>1. Abstract!Pending.list = "none"
    BY DEF Abstract!Pending
  <2> QED
    BY <2>1, ListNameFacts
<1>2. l \in {"done", "fail"} /\ waiting[l] = waitingOf(l)
  BY DEF Outcomes
<1>3. waiting' = [waiting EXCEPT ![l] = @ \ {r}]
  <2>1. waiting' = [list \in {"done", "fail"} |-> waitingOf(list)']
    OBVIOUS
  <2>2. \A list \in {"done", "fail"} : waitingOf(list)' = IF list = l THEN waiting[l] \ {r} ELSE waiting[list]
    BY <1>2
  <2>3. [waiting EXCEPT ![l] = @ \ {r}] = [list \in {"done", "fail"} |-> IF list = l THEN waiting[l] \ {r} ELSE waiting[list]]
    BY <1>2
  <2> QED
    BY <2>1, <2>2, <2>3
<1> HIDE DEF waiting
<1>4. /\ r \in waiting[l] /\ \A s \in waiting[l] : r <= s
  BY <1>2
<1>5. Abstract!CallBack
  BY <1>1, <1>3, <1>4 DEF Abstract!CallBack, waiting, Called
<1> QED
  BY <1>5 DEF RefStep, Abstract!PromiseNext

LEMMA CallKeeps ==
  ASSUME DInv, CallUser
  PROVE  DInv' /\ RefStep
<1> DEFINE l == frames[1].list
           v == frames[1].value
           r == Current[2]
           f == [frames[1] EXCEPT !.inCall = TRUE]
<1>1. /\ frames # <<>> /\ ~frames[1].inCall /\ fireContinues(lists[l])
      /\ Current = At(lists[l], lists[l].firingIndex) /\ IsUser(Current)
      /\ frames' = [frames EXCEPT ![1] = f]
      /\ log' = Append(log, [reg |-> r, list |-> l, value |-> v])
      /\ UNCHANGED <<lists, state, regs, calls, settled, raised>>
  BY DEF CallUser, InLoop, Current, IsUser
<1>2. /\ FramesFit(frames, lists, raised) /\ frames[1] \in Frame /\ l \in ListNames /\ lists[l].firing
      /\ v = lists[l].memory /\ v \in Nat
      /\ (l \in Outcomes => lists[l].fired /\ settled.list = l)
  BY <1>1, TopFacts
<1>3. /\ \A k \in Outcomes : OnceOK(lists[k], k = l, waitingOf(k), Len(regs))
      /\ NoteOK(lists["progress"], l = "progress", Notes, Len(regs), calls)
      /\ (l = "progress" /\ settled.list # "none" => Internal(lists[settled.list]) >= 3)
  BY <1>1, TopLoop
<1>4. Len(regs) \in Nat /\ calls \in Nat /\ DOMAIN lists = ListNames /\ regs \in Seq(SUBSET ListNames)
  BY DFacts DEF DInv, Types
<1>5. f \in Frame /\ f.list = l /\ f.inCall = TRUE /\ f.value = v
  BY <1>2, FrameAssigned
<1> HIDE DEF f, v
<1>6. ASSUME l \in Outcomes
      PROVE  /\ r \in waitingOf(l) /\ \A s \in waitingOf(l) : r <= s
             /\ OnceOK(lists[l], FALSE, waitingOf(l) \ {r}, Len(regs))
             /\ Internal(lists[l]) >= 3
  <2>1. (l = l) = TRUE
    OBVIOUS
  <2>2. OnceOK(lists[l], TRUE, waitingOf(l), Len(regs))
    BY <1>3, <1>6, <2>1
  <2> QED
    BY <1>1, <1>4, <2>2, CallOnce
<1>7. ASSUME l = "progress"
      PROVE  /\ NoteOK(lists[l], FALSE, Notes \cup {<<r, v>>}, Len(regs), calls)
             /\ \A note \in Notes : note[1] = r => note[2] < v
             /\ r \in Nat /\ r <= Len(regs)
  <2>1. (l = "progress") = TRUE
    BY <1>7
  <2>2. NoteOK(lists[l], TRUE, Notes, Len(regs), calls)
    BY <1>3, <1>7, <2>1
  <2>3. /\ NoteOK(lists[l], FALSE, Notes \cup {<<r, lists[l].memory>>}, Len(regs), calls)
        /\ \A note \in Notes : note[1] = r => note[2] < lists[l].memory
        /\ r \in Nat /\ r <= Len(regs)
    BY <1>1, <1>4, <2>2, CallNote
  <2> QED
    BY <1>2, <2>3
<1> HIDE DEF r
<1>8. r \in 0 .. Len(regs)
  <2>1. CASE l \in Outcomes
    <3>1. r \in DOMAIN regs
      BY <1>6, <2>1 DEF waitingOf
    <3> QED
      BY <1>4, <3>1, SMT
  <2>2. CASE l = "progress"
    <3>1. r \in Nat /\ r <= Len(regs)
      BY <1>7, <2>2
    <3> QED
      BY <1>4, <3>1, SMT
  <2> QED
    BY <1>2, <2>1, <2>2, ListNameFacts
<1>9. /\ \A list : waitingOf(list)' = IF list = l THEN waitingOf(list) \ {r} ELSE waitingOf(list)
      /\ Notes' = IF l = "progress" THEN Notes \cup {<<r, v>>} ELSE Notes
      /\ Called' = IF l # "progress" THEN Called \cup {<<r, v>>} ELSE Called
      /\ LogOK'
  <2>1. l \in ListNames /\ v \in Nat /\ regs' = regs /\ log' = Append(log, [reg |-> r, list |-> l, value |-> v])
    BY <1>1, <1>2
  <2>2. l = "progress" => \A note \in Notes : note[1] = r => note[2] < v
    BY <1>7
  <2> HIDE DEF l
  <2> QED
    BY <1>8, <2>1, <2>2, Logged
<1>10. FramesFit(frames', lists', raised) /\ \A k : InLoopIn(frames', k) = FALSE
  <2>1. SameBut(lists, lists', {f.list}) /\ lists'[f.list].firing /\ f.value = lists'[f.list].memory /\ f.list = frames[1].list
    BY <1>1, <1>2, <1>5 DEF SameBut
  <2>2. /\ FramesFit([frames EXCEPT ![1] = f], lists', raised)
        /\ [frames EXCEPT ![1] = f][1] = f
    <3>1. FramesFit(frames, lists, raised) /\ frames # <<>> /\ f \in Frame
      BY <1>1, <1>2, <1>5
    <3>2. f.list = frames[1].list
      BY <2>1
    <3>3. SameBut(lists, lists', {f.list})
      BY <2>1
    <3>4. lists'[f.list].firing /\ f.value = lists'[f.list].memory
      BY <2>1
    <3> HIDE DEF l
    <3>5. FramesFit([frames EXCEPT ![1] = f], lists', raised)
      BY <3>1, <3>2, <3>3, <3>4, FramesTop
    <3>6. [frames EXCEPT ![1] = f][1] = f
      <4>1. 1 \in DOMAIN frames
        BY <3>1, DFacts, FrameFacts
      <4> QED
        BY <4>1
    <3> QED
      BY <3>5, <3>6
  <2>3. FramesFit(frames', lists', raised)
    BY <1>1, <2>2
  <2>4. frames'[1] = f
    BY <1>1, <2>2
  <2>5. \A k : InLoopIn(frames', k) = FALSE
    BY <1>5, <2>4 DEF InLoopIn
  <2> QED
    BY <2>3, <2>5
<1>11. Types'
  BY <1>1 DEF DInv, Types
<1>12. \A list \in Outcomes : OnceOK(lists'[list], InLoopIn(frames', list), waitingOf(list)', Len(regs'))
  <2> SUFFICES ASSUME NEW list \in Outcomes
               PROVE  OnceOK(lists[list], FALSE, waitingOf(list)', Len(regs))
    BY <1>1, <1>10
  <2>1. CASE list = l
    BY <1>6, <1>9, <2>1
  <2>2. CASE list # l
    <3>1. (list = l) = FALSE
      BY <2>2
    <3>2. waitingOf(list)' = waitingOf(list)
      BY <1>9, <2>2
    <3> QED
      BY <1>3, <3>1, <3>2
  <2> QED
    BY <2>1, <2>2
<1>13. NoteOK(lists'["progress"], InLoopIn(frames', "progress"), Notes', Len(regs'), calls')
  <2>1. CASE l = "progress"
    BY <1>1, <1>7, <1>9, <1>10, <2>1
  <2>2. CASE l # "progress"
    <3>1. (l = "progress") = FALSE /\ Notes' = Notes
      BY <1>9, <2>2
    <3> QED
      BY <1>1, <1>3, <1>10, <3>1
  <2> QED
    BY <2>1, <2>2
<1>14. SettledFit(frames', lists', settled', state', calls')
  <2>1. calls <= calls' /\ calls' \in Nat
    BY <1>1, <1>4, SMT
  <2>2. \A list \in Outcomes : GoesOn(lists[list], lists'[list])
    BY <1>1, GoesOnSame, DFacts, ListNameFacts
  <2>3. settled.list # "none" => Internal(lists[settled.list]) >= 3
    BY <1>2, <1>3, <1>6, ListNameFacts
  <2> QED
    BY <1>1, <2>1, <2>2, <2>3, ThroughStays
<1>15. DInv'
  BY <1>1, <1>9, <1>10, <1>11, <1>12, <1>13, <1>14 DEF DInv, InLoopOf
<1>16. RefStep
  <2>1. CASE l \in Outcomes
    <3>1. settled.list = l /\ v = settled.value /\ l # "progress"
      BY <1>2, <2>1, ListNameFacts DEF DInv, SettledFit
    <3> HIDE DEF l
    <3>2. settled.list \in Outcomes /\ settled' = settled /\ regs' = regs
      BY <1>1, <2>1, <3>1
    <3>3. r \in waitingOf(settled.list) /\ \A s \in waitingOf(settled.list) : r <= s
      BY <1>6, <2>1, <3>1
    <3>4. \A list : waitingOf(list)' = IF list = settled.list THEN waitingOf(list) \ {r} ELSE waitingOf(list)
      BY <1>9, <3>1
    <3>5. Called' = Called \cup {<<r, settled.value>>}
      BY <1>9, <3>1
    <3> QED
      BY <3>2, <3>3, <3>4, <3>5, CallsBack
  <2>2. CASE l = "progress"
    <3>1. Called' = Called
      BY <1>9, <2>2
    <3>2. \A list \in Outcomes : waitingOf(list)' = waitingOf(list)
      BY <1>9, <2>2, ListNameFacts
    <3>3. [list \in {"done", "fail"} |-> waitingOf(list)]' = [list \in {"done", "fail"} |-> waitingOf(list)]
      BY <3>2 DEF Outcomes
    <3> QED
      BY <1>1, <3>1, <3>3 DEF RefStep, Abstract!promiseVars, Called
  <2> QED
    BY <1>2, <2>1, <2>2, ListNameFacts
<1> QED
  BY <1>15, <1>16

(* One of the deferred's own callbacks runs: k of them have run before. *)
LEMMA InternalStep ==
  ASSUME DInv, RunInternal
  PROVE  LET l == frames[1].list
             cb == lists[l]
             new == fireReturn(cb)
             k == cb.firingIndex
         IN /\ l \in Outcomes /\ settled.list = l /\ InLoopOf(l) /\ InLoopIn(frames', l) /\ frames # <<>>
            /\ OnceOK(new, TRUE, waitingOf(l), Len(regs)) /\ new.fired /\ new.firing /\ cb.firing
            /\ new.memory = cb.memory /\ Internal(cb) = k /\ Internal(new) = k + 1 /\ k \in 0 .. 2
            /\ Current = internals("done")[k + 1]
<1> DEFINE l == frames[1].list
           cb == lists[l]
           new == fireReturn(cb)
           k == cb.firingIndex
<1>1. /\ frames # <<>> /\ ~frames[1].inCall /\ fireContinues(cb) /\ Current = At(cb, k) /\ ~IsUser(Current)
      /\ frames' = frames
  BY DEF RunInternal, InLoop, Current, IsUser
<1>2. l \in ListNames /\ cb.firing /\ (l \in Outcomes => settled.list = l)
  BY <1>1, TopFacts
<1>3. /\ \A j : InLoopOf(j) = (j = l)
      /\ \A j \in Outcomes : OnceOK(lists[j], j = l, waitingOf(j), Len(regs))
      /\ NoteOK(lists["progress"], l = "progress", Notes, Len(regs), calls)
  BY <1>1, TopLoop
<1>4. Len(regs) \in Nat /\ calls \in Nat
  BY DFacts
<1>5. l # "progress"
  <2>1. SUFFICES ASSUME l = "progress"
                 PROVE  FALSE
    OBVIOUS
  <2>2. (l = "progress") = TRUE
    BY <2>1
  <2>3. NoteOK(cb, TRUE, Notes, Len(regs), calls)
    BY <1>3, <2>1, <2>2
  <2> QED
    BY <1>1, <1>4, <2>3, CallNote
<1>6. l \in Outcomes
  BY <1>2, <1>5, ListNameFacts
<1>7. OnceOK(cb, TRUE, waitingOf(l), Len(regs))
  <2>1. (l = l) = TRUE
    OBVIOUS
  <2> QED
    BY <1>3, <1>6, <2>1
<1>8. /\ OnceOK(new, TRUE, waitingOf(l), Len(regs)) /\ new.fired /\ new.firing /\ new.memory = cb.memory
      /\ k \in 0 .. 2 /\ At(cb, k) = internals("done")[k + 1] /\ Internal(cb) = k /\ Internal(new) = k + 1
  BY <1>1, <1>4, <1>7, InternalOnce
<1>9. InLoopOf(l) /\ InLoopIn(frames', l)
  BY <1>1, <1>3 DEF InLoopOf
<1> QED
  BY <1>1, <1>2, <1>6, <1>8, <1>9

LEMMA InternalKeeps ==
  ASSUME DInv, RunInternal
  PROVE  DInv' /\ RefStep
<1> DEFINE l == frames[1].list
           o == other(l)
           cb == lists[l]
           new == fireReturn(cb)
           k == cb.firingIndex
           next == [lists EXCEPT ![l] = new]
           after == IF l = "done" THEN "resolved" ELSE "rejected"
<1>1. /\ l \in Outcomes /\ settled.list = l /\ InLoopOf(l) /\ InLoopIn(frames', l) /\ frames # <<>>
      /\ OnceOK(new, TRUE, waitingOf(l), Len(regs)) /\ new.fired /\ new.firing /\ cb.firing
      /\ new.memory = cb.memory /\ Internal(cb) = k /\ Internal(new) = k + 1 /\ k \in 0 .. 2
      /\ Current = internals("done")[k + 1]
  BY InternalStep
<1>2. /\ state' = IF Current[1] = "state" THEN after ELSE state
      /\ lists' = CASE Current[1] = "disable" -> [next EXCEPT ![o] = disable(@)]
                    [] Current[1] = "lock" -> [next EXCEPT !["progress"] = lock(@)]
                    [] OTHER -> next
      /\ UNCHANGED <<frames, regs, calls, settled, log, raised>>
  BY DEF RunInternal
<1>3. /\ o \in Outcomes /\ o # l /\ l \in ListNames /\ o \in ListNames /\ "progress" \in ListNames
      /\ l # "progress" /\ o # "progress" /\ l # "none"
      /\ (\A list \in ListNames : list = l \/ list = o \/ list = "progress")
      /\ (\A list \in Outcomes : list = l \/ list = o)
  BY <1>1, ListNameFacts
<1>4. Len(regs) \in Nat /\ calls \in Nat /\ DOMAIN lists = ListNames /\ \A list \in ListNames : lists[list] \in CallbackList
  BY DFacts
<1>5. OnceOK(lists[o], FALSE, waitingOf(o), Len(regs)) /\ NoteOK(lists["progress"], FALSE, Notes, Len(regs), calls)
  <2>1. ~frames[1].inCall
    BY <1>1 DEF InLoopOf, InLoopIn
  <2>2. /\ OnceOK(lists[o], o = l, waitingOf(o), Len(regs))
        /\ NoteOK(lists["progress"], l = "progress", Notes, Len(regs), calls)
    BY <1>1, <1>3, <2>1, TopLoop
  <2>3. (o = l) = FALSE /\ (l = "progress") = FALSE
    BY <1>3
  <2> QED
    BY <2>2, <2>3
<1>6. ~lists[o].fired
  BY <1>1, <1>3 DEF DInv, SettledFit
<1>7. /\ OnceOK(disable(lists[o]), FALSE, waitingOf(o), Len(regs)) /\ ~disable(lists[o]).fired
      /\ ~lists[o].firing /\ ~disable(lists[o]).firing /\ disable(lists[o]).list = Gone
  BY <1>4, <1>5, <1>6, DisableOnce
<1>8. /\ NoteOK(lock(lists["progress"]), FALSE, Notes, Len(regs), calls) /\ lock(lists["progress"]).stack = Gone
      /\ lock(lists["progress"]).memory = lists["progress"].memory
      /\ lock(lists["progress"]).firing = lists["progress"].firing
  BY <1>4, <1>5, LockNote
<1> DEFINE own == internals("done")
<1>9. /\ (k = 0 => Current[1] = "state") /\ (k = 1 => Current[1] = "disable") /\ (k = 2 => Current[1] = "lock")
      /\ (k = 0 \/ k = 1 \/ k = 2)
  <2>1. k = 0 \/ k = 1 \/ k = 2
    BY <1>1, SMT
  <2>2. 0 + 1 = 1 /\ 1 + 1 = 2 /\ 2 + 1 = 3
    BY SMT
  <2> QED
    BY <1>1, <2>1, <2>2, InternalFacts
<1> HIDE DEF new, own, after, o, k
<1>10. /\ DOMAIN next = ListNames /\ next[l] = new /\ next[o] = lists[o] /\ next["progress"] = lists["progress"]
  BY <1>3, <1>4
<1> HIDE DEF next
<1>11. "state" # "disable" /\ "state" # "lock" /\ "disable" # "lock"
  OBVIOUS
<1>12. /\ DOMAIN lists' = ListNames /\ lists'[l] = new
       /\ lists'[o] = IF k = 1 THEN disable(lists[o]) ELSE lists[o]
       /\ lists'["progress"] = IF k = 2 THEN lock(lists["progress"]) ELSE lists["progress"]
       /\ state' = IF k = 0 THEN after ELSE state
  <2>0. 0 # 1 /\ 0 # 2 /\ 1 # 2
    BY SMT
  <2>1. CASE k = 0
    <3>1. lists' = next /\ state' = after
      BY <1>2, <1>9, <1>11, <2>1
    <3> QED
      BY <1>10, <2>0, <2>1, <3>1
  <2>2. CASE k = 1
    <3>1. lists' = [next EXCEPT ![o] = disable(@)] /\ state' = state
      BY <1>2, <1>9, <1>11, <2>2
    <3>2. DOMAIN lists' = ListNames /\ lists'[l] = new /\ lists'[o] = disable(lists[o]) /\ lists'["progress"] = lists["progress"]
      BY <1>3, <1>10, <3>1
    <3> QED
      BY <2>0, <2>2, <3>1, <3>2
  <2>3. CASE k = 2
    <3>1. lists' = [next EXCEPT !["progress"] = lock(@)] /\ state' = state
      BY <1>2, <1>9, <1>11, <2>3
    <3>2. DOMAIN lists' = ListNames /\ lists'[l] = new /\ lists'[o] = lists[o] /\ lists'["progress"] = lock(lists["progress"])
      BY <1>3, <1>10, <3>1
    <3> QED
      BY <2>0, <2>3, <3>1, <3>2
  <2> QED
    BY <1>9, <2>1, <2>2, <2>3
<1> DEFINE lo == lists'[o]
           lp == lists'["progress"]
<1>13. /\ OnceOK(lo, FALSE, waitingOf(o), Len(regs)) /\ ~lo.fired /\ ~lo.firing /\ ~lists[o].firing
       /\ (k = 1 => lo.list = Gone) /\ (k # 1 => lo = lists[o])
  BY <1>5, <1>6, <1>7, <1>12
<1>14. /\ NoteOK(lp, FALSE, Notes, Len(regs), calls) /\ lp.memory = lists["progress"].memory
       /\ lp.firing = lists["progress"].firing /\ (k = 2 => lp.stack = Gone)
  BY <1>5, <1>8, <1>12
<1> HIDE DEF lo, lp
<1>15. /\ (\A list : waitingOf(list)' = waitingOf(list)) /\ Notes' = Notes /\ LogOK'
  BY <1>2, SameLog DEF DInv
<1>16. Types'
  <2>1. after \in {"resolved", "rejected"}
    BY DEF after
  <2> QED
    BY <1>2, <1>12, <2>1 DEF DInv, Types
<1>17. SameBut(lists, lists', {})
  <2>1. /\ lists'[l].firing = cb.firing /\ lists'[l].memory = cb.memory
    <3>1. cb.firing \in BOOLEAN /\ new.firing \in BOOLEAN
      <4>1. new \in CallbackList
        BY <1>1 DEF OnceOK
      <4> QED
        BY <1>3, <1>4, <4>1, ListFacts
    <3> QED
      BY <1>1, <1>12, <3>1
  <2>2. /\ lists'[o].firing = lists[o].firing /\ ~lists[o].firing
    <3>1. lo.firing \in BOOLEAN /\ lists[o].firing \in BOOLEAN
      <4>1. lo \in CallbackList
        BY <1>13 DEF OnceOK
      <4> QED
        BY <1>3, <1>4, <4>1, ListFacts
    <3> QED
      BY <1>13, <3>1 DEF lo
  <2>3. lists'["progress"].firing = lists["progress"].firing /\ lists'["progress"].memory = lists["progress"].memory
    BY <1>14 DEF lp
  <2> QED
    BY <1>3, <2>1, <2>2, <2>3 DEF SameBut
<1>18. FramesFit(frames', lists', raised')
  <2>1. FramesFit(frames, lists, raised)
    BY DEF DInv
  <2>2. FramesFit(frames, lists', raised)
    BY <1>17, <2>1, FramesKeep
  <2> QED
    BY <1>2, <2>2
<1>19. InLoopIn(frames', l) = TRUE /\ InLoopIn(frames', o) = FALSE /\ InLoopIn(frames', "progress") = FALSE
  BY <1>1, <1>3 DEF InLoopIn
<1>20. \A list \in Outcomes : OnceOK(lists'[list], InLoopIn(frames', list), waitingOf(list)', Len(regs'))
  <2> SUFFICES ASSUME NEW list \in Outcomes
               PROVE  OnceOK(lists'[list], InLoopIn(frames', list), waitingOf(list), Len(regs))
    BY <1>2, <1>15
  <2>1. CASE list = l
    BY <1>1, <1>12, <1>19, <2>1
  <2>2. CASE list = o
    BY <1>13, <1>19, <2>2 DEF lo
  <2> QED
    BY <1>3, <2>1, <2>2
<1>21. NoteOK(lists'["progress"], InLoopIn(frames', "progress"), Notes', Len(regs'), calls')
  BY <1>2, <1>14, <1>15, <1>19 DEF lp
<1>22. SettledFit(frames', lists', settled', state', calls')
  <2>1. /\ settled \in [list: {"none"} \cup Outcomes, value: Nat]
        /\ cb.fired /\ cb.memory = settled.value /\ settled.value \in 1 .. calls
        /\ (lists["progress"].memory # Gone => lists["progress"].memory < settled.value)
        /\ (k >= 1 => state = after)
        /\ (k >= 2 => lists[o].list = Gone)
    BY <1>1, <1>3 DEF DInv, SettledFit, after, o
  <2>2. /\ lists'[l].fired /\ lists'[l].memory = settled.value /\ ~lists'[o].fired
        /\ (lists'["progress"].memory # Gone => lists'["progress"].memory < settled.value)
    BY <1>1, <1>12, <1>13, <1>14, <2>1 DEF lo, lp
  <2>3. Internal(lists'[l]) = k + 1
    BY <1>1, <1>12
  <2>4. /\ (k + 1 >= 1 => k = 0 \/ k >= 1) /\ (k + 1 >= 2 => k = 1 \/ k >= 2) /\ (k + 1 >= 3 => k = 2)
        /\ (k >= 1 => k # 0) /\ (k >= 2 => k # 1)
    BY <1>9, SMT
  <2>5. k + 1 >= 1 => state' = after
    BY <1>12, <2>1, <2>4
  <2>6. k + 1 >= 2 => lists'[o].list = Gone
    BY <1>13, <2>1, <2>4 DEF lo
  <2>7. k + 1 >= 3 => lists'["progress"].stack = Gone
    BY <1>14, <2>4 DEF lp
  <2>8. settled'.list = l /\ settled' = settled /\ calls' = calls /\ settled'.list # "none"
    BY <1>1, <1>2, <1>3
  <2> HIDE DEF l, cb
  <2> QED
    BY <1>1, <2>1, <2>2, <2>3, <2>5, <2>6, <2>7, <2>8 DEF SettledFit, o, after
<1>23. DInv'
  BY <1>15, <1>16, <1>18, <1>20, <1>21, <1>22 DEF DInv, InLoopOf
<1> QED
  BY <1>2, <1>23, Stutters

(* The lists and the loops after a step of user code that starts the loop of l or, when starts is FALSE, none. *)
LEMMA UserStarts ==
  ASSUME DInv, UserRuns, NEW v, NEW new, NEW l \in ListNames, NEW starts \in BOOLEAN,
         frames' = Started(new, v), lists' = new, raised' = raised, SameBut(lists, new, {l}),
         \A k \in ListNames \ {l} : new[k].firing => lists[k].firing,
         starts = (new[l].firing /\ ~lists[l].firing),
         starts => v = new[l].memory /\ v \in Nat,
         ~starts => new[l].firing = lists[l].firing /\ (lists[l].firing => new[l].memory = lists[l].memory)
  PROVE  /\ FramesFit(frames', lists', raised')
         /\ InLoopIn(frames', l) = starts
         /\ \A k \in ListNames \ {l} : InLoopIn(frames', k) = FALSE
<1>1. FramesFit(frames, lists, raised) /\ (frames # <<>> => frames[1].inCall)
  BY DEF DInv, UserRuns
<1>2. CASE starts
  <2>1. new[l].firing /\ ~lists[l].firing /\ v = new[l].memory /\ new[l].memory \in Nat
    BY <1>2
  <2> DEFINE fr2 == <<[list |-> l, inCall |-> FALSE, value |-> new[l].memory]>> \o frames
  <2>2. frames' = fr2
    BY <2>1, StartedOne
  <2>3. /\ FramesFit(fr2, new, raised)
        /\ InLoopIn(fr2, l) /\ \A k \in ListNames : InLoopIn(fr2, k) => k = l
    BY <1>1, <2>1, FramesPush
  <2> HIDE DEF fr2
  <2>4. InLoopIn(fr2, l) = TRUE /\ \A k \in ListNames \ {l} : InLoopIn(fr2, k) = FALSE
    BY <2>3 DEF InLoopIn
  <2> QED
    BY <1>2, <2>2, <2>3, <2>4
<1>3. CASE ~starts
  <2>1. new[l].firing => lists[l].firing
    BY <1>3
  <2>2. \A k \in ListNames : new[k].firing => lists[k].firing
    BY <2>1
  <2>3. frames' = frames
    BY <2>2, StartedNone
  <2>4. SameBut(lists, new, {})
    BY <1>3 DEF SameBut
  <2>5. FramesFit(frames, new, raised)
    BY <1>1, <2>4, FramesKeep
  <2>6. \A k : InLoopIn(frames, k) = FALSE
    BY <1>1 DEF InLoopIn
  <2> QED
    BY <1>3, <2>3, <2>5, <2>6
<1> QED
  BY <1>2, <1>3

(* notify *)
LEMMA NotifyKeeps ==
  ASSUME DInv, FireDeferred("progress")
  PROVE  DInv' /\ RefStep
<1> DEFINE cb == lists["progress"]
           x == fireWith(cb, calls + 1)
           new == [lists EXCEPT !["progress"] = x]
           starts == x.firing /\ ~cb.firing
<1>1. /\ UserRuns /\ calls' = calls + 1 /\ lists' = new /\ frames' = Started(new, calls + 1) /\ settled' = settled
      /\ UNCHANGED <<state, regs, log, raised>>
  BY DEF FireDeferred
<1>2. \A list : InLoopOf(list) = FALSE
  BY <1>1, UserRunsFacts
<1>3. /\ \A list \in Outcomes : OnceOK(lists[list], FALSE, waitingOf(list), Len(regs))
      /\ NoteOK(cb, FALSE, Notes, Len(regs), calls)
      /\ (settled.list # "none" => Internal(lists[settled.list]) >= 3)
  BY <1>2, UserRunsLists
<1>4. Len(regs) \in Nat /\ calls \in Nat /\ DOMAIN lists = ListNames /\ "progress" \in ListNames /\ cb.firing \in BOOLEAN
  BY DFacts, ListNameFacts
<1>5. calls + 1 \in Nat /\ calls <= calls + 1
  BY <1>4, SMT
<1>6. /\ NoteOK(x, starts, Notes, Len(regs), calls + 1)
      /\ (cb.stack = Gone => x = cb)
      /\ (cb.firing => x.firing /\ x.memory = cb.memory)
      /\ (starts => x.memory = calls + 1)
      /\ (~x.firing => x.memory = cb.memory)
  <2>1. \A note \in Notes : note[2] \in Nat
    BY NotesNat
  <2> HIDE DEF cb
  <2>2. NoteOK(cb, FALSE, Notes, Len(regs), calls) /\ Len(regs) \in Nat /\ calls \in Nat
    BY <1>3, <1>4
  <2>3. /\ NoteOK(fireWith(cb, calls + 1), fireWith(cb, calls + 1).firing /\ ~cb.firing, Notes, Len(regs), calls + 1)
        /\ (cb.stack = Gone => fireWith(cb, calls + 1) = cb)
        /\ (cb.firing => fireWith(cb, calls + 1).firing /\ fireWith(cb, calls + 1).memory = cb.memory)
        /\ (fireWith(cb, calls + 1).firing /\ ~cb.firing => fireWith(cb, calls + 1).memory = calls + 1)
        /\ (~fireWith(cb, calls + 1).firing => fireWith(cb, calls + 1).memory = cb.memory)
    BY <2>1, <2>2, FireNote
  <2> QED
    BY <2>3
<1>7. x.firing \in BOOLEAN
  <2>1. x \in CallbackList
    BY <1>6 DEF NoteOK
  <2> QED
    BY <2>1, ListFacts
<1> HIDE DEF x
<1>8. new["progress"] = x /\ \A k \in ListNames \ {"progress"} : new[k] = lists[k]
  BY <1>4
<1> HIDE DEF new
<1>9. /\ FramesFit(frames', lists', raised') /\ InLoopIn(frames', "progress") = starts
      /\ \A k \in ListNames \ {"progress"} : InLoopIn(frames', k) = FALSE
  <2>1. SameBut(lists, new, {"progress"}) /\ \A k \in ListNames \ {"progress"} : new[k].firing => lists[k].firing
    BY <1>8 DEF SameBut
  <2>2. starts = (new["progress"].firing /\ ~lists["progress"].firing) /\ starts \in BOOLEAN
    BY <1>8
  <2>3. starts => calls + 1 = new["progress"].memory /\ calls + 1 \in Nat
    BY <1>5, <1>6, <1>8
  <2>4. ~starts => /\ new["progress"].firing = lists["progress"].firing
                   /\ (lists["progress"].firing => new["progress"].memory = lists["progress"].memory)
    <3>1. ~starts => x.firing = cb.firing
      <4>1. CASE cb.firing = TRUE
        BY <1>6, <1>7, <4>1
      <4>2. CASE cb.firing = FALSE
        BY <1>7, <4>2
      <4> QED
        BY <1>4, <4>1, <4>2
    <3> QED
      BY <1>6, <1>8, <3>1
  <2> HIDE DEF starts
  <2> QED
    BY <1>1, <1>4, <2>1, <2>2, <2>3, <2>4, UserStarts
<1>10. /\ (\A list : waitingOf(list)' = waitingOf(list)) /\ Notes' = Notes /\ LogOK'
  BY <1>1, SameLog DEF DInv
<1>11. Types'
  <2>1. DOMAIN new = ListNames
    BY <1>4 DEF new
  <2> QED
    BY <1>1, <1>5, <2>1 DEF DInv, Types
<1>12. \A list \in Outcomes : list \in ListNames \ {"progress"} /\ lists'[list] = lists[list]
  BY <1>1, <1>8, ListNameFacts
<1>13. \A list \in Outcomes : OnceOK(lists'[list], InLoopIn(frames', list), waitingOf(list)', Len(regs'))
  <2> SUFFICES ASSUME NEW list \in Outcomes
               PROVE  OnceOK(lists[list], FALSE, waitingOf(list), Len(regs))
    BY <1>1, <1>9, <1>10, <1>12
  <2> QED
    BY <1>3
<1>14. NoteOK(lists'["progress"], InLoopIn(frames', "progress"), Notes', Len(regs'), calls')
  BY <1>1, <1>6, <1>8, <1>9, <1>10
<1>15. SettledFit(frames', lists', settled', state', calls')
  <2>1. \A list \in Outcomes : GoesOn(lists[list], lists'[list])
    BY <1>12, GoesOnSame, DFacts
  <2>2. settled.list # "none" => cb.stack = Gone
    BY <1>3 DEF DInv, SettledFit
  <2>3. /\ settled.list # "none" => lists'["progress"].memory = lists["progress"].memory
        /\ lists["progress"].stack = Gone => lists'["progress"].stack = Gone
    BY <1>1, <1>6, <1>8, <2>2
  <2>4. calls' \in Nat /\ calls <= calls' /\ settled' = settled /\ state' = state
    BY <1>1, <1>5
  <2> QED
    BY <1>3, <2>1, <2>3, <2>4, ThroughStays
<1>16. DInv'
  BY <1>9, <1>10, <1>11, <1>13, <1>14, <1>15 DEF DInv, InLoopOf
<1> QED
  BY <1>1, <1>16, Stutters

(* resolve or reject of a deferred that is settled, or that can be settled no more *)
LEMMA FireAgainKeeps ==
  ASSUME DInv, NEW l \in Outcomes, FireDeferred(l), lists[l].list = Gone \/ lists[l].fired
  PROVE  DInv' /\ RefStep
<1> DEFINE cb == lists[l]
           x == fireWith(cb, calls + 1)
           new == [lists EXCEPT ![l] = x]
<1>1. /\ UserRuns /\ calls' = calls + 1 /\ lists' = new /\ frames' = Started(new, calls + 1)
      /\ settled' = (IF l # "progress" /\ new[l].firing /\ ~lists[l].firing THEN [list |-> l, value |-> calls + 1] ELSE settled)
      /\ UNCHANGED <<state, regs, log, raised>>
  BY DEF FireDeferred
<1>2. \A list : InLoopOf(list) = FALSE
  BY <1>1, UserRunsFacts
<1>3. /\ \A list \in Outcomes : OnceOK(lists[list], FALSE, waitingOf(list), Len(regs))
      /\ NoteOK(lists["progress"], FALSE, Notes, Len(regs), calls)
      /\ (settled.list # "none" => Internal(lists[settled.list]) >= 3)
  BY <1>2, UserRunsLists
<1>4. Len(regs) \in Nat /\ calls \in Nat /\ DOMAIN lists = ListNames
  BY DFacts
<1>5. calls + 1 \in Nat /\ calls <= calls + 1 /\ FALSE \in BOOLEAN
  BY <1>4, SMT
<1>6. x = cb
  BY <1>3, <1>4, <1>5, FireOnce
<1> HIDE DEF x
<1>7. DOMAIN new = ListNames /\ \A k \in ListNames : new[k] = lists[k]
  BY <1>4, <1>6
<1> HIDE DEF new
<1>8. (\A k \in ListNames : lists'[k] = lists[k]) /\ settled' = settled /\ frames' = frames
  <2>1. (\A k \in ListNames : new[k].firing => lists[k].firing) /\ l \in ListNames
    BY <1>7, ListNameFacts
  <2>2. Started(new, calls + 1) = frames
    BY <2>1, StartedNone
  <2>3. ~(new[l].firing /\ ~lists[l].firing)
    BY <2>1
  <2> QED
    BY <1>1, <1>7, <2>2, <2>3
<1>9. /\ (\A list : waitingOf(list)' = waitingOf(list)) /\ Notes' = Notes /\ LogOK'
  BY <1>1, SameLog DEF DInv
<1>10. Types'
  BY <1>1, <1>5, <1>7 DEF DInv, Types
<1>11. FramesFit(frames', lists', raised')
  <2>1. SameBut(lists, lists', {}) /\ FramesFit(frames, lists, raised)
    BY <1>8 DEF SameBut, DInv
  <2>2. FramesFit(frames, lists', raised)
    BY <2>1, FramesKeep
  <2> QED
    BY <1>1, <1>8, <2>2
<1>12. \A list : InLoopIn(frames', list) = FALSE
  BY <1>2, <1>8 DEF InLoopOf
<1>13. \A list \in Outcomes : OnceOK(lists'[list], InLoopIn(frames', list), waitingOf(list)', Len(regs'))
  <2> SUFFICES ASSUME NEW list \in Outcomes
               PROVE  OnceOK(lists[list], FALSE, waitingOf(list), Len(regs))
    BY <1>1, <1>8, <1>9, <1>12, ListNameFacts
  <2> QED
    BY <1>3
<1>14. NoteOK(lists'["progress"], InLoopIn(frames', "progress"), Notes', Len(regs'), calls')
  <2>1. NoteOK(lists["progress"], FALSE, Notes, Len(regs), calls + 1)
    BY <1>3, <1>4, <1>5, NoteLater
  <2> QED
    BY <1>1, <1>8, <1>9, <1>12, <2>1, ListNameFacts
<1>15. SettledFit(frames', lists', settled', state', calls')
  <2>1. \A list \in Outcomes : GoesOn(lists[list], lists'[list])
    BY <1>8, GoesOnSame, DFacts, ListNameFacts
  <2>2. calls' \in Nat /\ calls <= calls' /\ settled' = settled /\ state' = state
    BY <1>1, <1>5, <1>8
  <2> QED
    BY <1>3, <1>8, <2>1, <2>2, ThroughStays, ListNameFacts
<1>16. DInv'
  BY <1>9, <1>10, <1>11, <1>13, <1>14, <1>15 DEF DInv, InLoopOf
<1> QED
  BY <1>1, <1>8, <1>16, Stutters

(* The step of the promise when the deferred is settled. *)
LEMMA Settles ==
  ASSUME NEW l \in Outcomes, NEW v \in Nat, settled.list = "none",
         settled \in [list: {"none"} \cup Outcomes, value: Nat], settled.value = 0,
         settled' = [list |-> l, value |-> v], UNCHANGED <<regs, log>>
  PROVE  RefStep
<1>1. settled = Abstract!Pending
  <2>1. /\ Abstract!Pending \in [list: {"none"} \cup Outcomes, value: Nat]
        /\ Abstract!Pending.list = "none" /\ Abstract!Pending.value = 0
    BY SMT DEF Abstract!Pending
  <2> QED
    BY <2>1, SettledTypes
<1>2. settled'.list = l /\ settled' # Abstract!Pending
  <2>1. settled'.list = l
    OBVIOUS
  <2>2. Abstract!Pending.list = "none"
    BY DEF Abstract!Pending
  <2> QED
    BY <2>1, <2>2, ListNameFacts
<1>3. \A list : waitingOf(list)' = waitingOf(list)
  BY DEF waitingOf
<1>4. Abstract!Settle(l)
  BY <1>1, <1>2, <1>3 DEF Abstract!Settle
<1> QED
  BY <1>4 DEF RefStep, Abstract!PromiseNext, Outcomes

(* resolve or reject that settles the deferred *)
LEMMA SettleKeeps ==
  ASSUME DInv, NEW l \in Outcomes, FireDeferred(l), lists[l].list # Gone, ~lists[l].fired
  PROVE  DInv' /\ RefStep
<1> DEFINE cb == lists[l]
           o == other(l)
           x == fireWith(cb, calls + 1)
           new == [lists EXCEPT ![l] = x]
<1>1. /\ UserRuns /\ calls' = calls + 1 /\ lists' = new /\ frames' = Started(new, calls + 1)
      /\ settled' = (IF l # "progress" /\ new[l].firing /\ ~lists[l].firing THEN [list |-> l, value |-> calls + 1] ELSE settled)
      /\ UNCHANGED <<state, regs, log, raised>>
  BY DEF FireDeferred
<1>2. \A list : InLoopOf(list) = FALSE
  BY <1>1, UserRunsFacts
<1>3. /\ \A list \in Outcomes : OnceOK(lists[list], FALSE, waitingOf(list), Len(regs))
      /\ NoteOK(lists["progress"], FALSE, Notes, Len(regs), calls)
  BY <1>2, UserRunsLists
<1>4. Len(regs) \in Nat /\ calls \in Nat /\ DOMAIN lists = ListNames
  BY DFacts
<1>5. calls + 1 \in Nat /\ calls + 1 \in 1 .. calls + 1
  BY <1>4, SMT
<1>6. /\ OnceOK(x, TRUE, waitingOf(l), Len(regs))
      /\ x.fired /\ x.firing /\ ~cb.firing /\ x.memory = calls + 1 /\ Internal(x) = 0
  BY <1>3, <1>4, <1>5, FireOnce
<1> HIDE DEF x
<1>7. /\ l \in ListNames /\ l # "progress" /\ l # "none" /\ "progress" \in ListNames
      /\ o \in Outcomes /\ o # l /\ o \in ListNames
      /\ (\A list \in Outcomes : list = l \/ list = o) /\ (\A list \in Outcomes : list \in ListNames)
  BY ListNameFacts
<1>8. new[l] = x /\ \A k \in ListNames \ {l} : new[k] = lists[k]
  BY <1>4, <1>7
<1>9. DOMAIN new = ListNames
  BY <1>4
<1> HIDE DEF new
<1>10. settled.list = "none" /\ settled.value = 0 /\ settled \in [list: {"none"} \cup Outcomes, value: Nat]
  <2>1. settled.list = "none"
    <3>1. SUFFICES ASSUME settled.list # "none"
                   PROVE  FALSE
      OBVIOUS
    <3>2. settled.list \in Outcomes /\ lists[other(settled.list)].list = Gone /\ lists[settled.list].fired
      BY <1>2, <3>1, SettledThrough DEF DInv, SettledFit
    <3> QED
      BY <3>2, ListNameFacts
  <2> QED
    BY <2>1, DFacts DEF DInv, SettledFit
<1>11. settled' = [list |-> l, value |-> calls + 1]
  BY <1>1, <1>6, <1>7, <1>8
<1>12. RefStep
  BY <1>1, <1>5, <1>10, <1>11, Settles
<1>13. /\ FramesFit(frames', lists', raised') /\ InLoopIn(frames', l) = TRUE
       /\ \A k \in ListNames \ {l} : InLoopIn(frames', k) = FALSE
  <2>1. SameBut(lists, new, {l}) /\ \A k \in ListNames \ {l} : new[k].firing => lists[k].firing
    BY <1>8 DEF SameBut
  <2>2. TRUE = (new[l].firing /\ ~lists[l].firing) /\ TRUE \in BOOLEAN
    BY <1>6, <1>8
  <2>3. calls + 1 = new[l].memory
    BY <1>6, <1>8
  <2> QED
    BY <1>1, <1>5, <1>7, <2>1, <2>2, <2>3, UserStarts
<1>14. /\ (\A list : waitingOf(list)' = waitingOf(list)) /\ Notes' = Notes /\ LogOK'
  BY <1>1, SameLog DEF DInv
<1>15. Types'
  BY <1>1, <1>5, <1>9 DEF DInv, Types
<1>16. lists'[l] = x /\ lists'[o] = lists[o] /\ lists'["progress"] = lists["progress"]
  BY <1>1, <1>7, <1>8
<1>17. \A list \in Outcomes : OnceOK(lists'[list], InLoopIn(frames', list), waitingOf(list)', Len(regs'))
  <2> SUFFICES ASSUME NEW list \in Outcomes
               PROVE  OnceOK(lists'[list], InLoopIn(frames', list), waitingOf(list), Len(regs))
    BY <1>1, <1>14
  <2>1. CASE list = l
    BY <1>6, <1>13, <1>16, <2>1
  <2>2. CASE list = o
    BY <1>3, <1>7, <1>13, <1>16, <2>2
  <2> QED
    BY <1>7, <2>1, <2>2
<1>18. NoteOK(lists'["progress"], InLoopIn(frames', "progress"), Notes', Len(regs'), calls')
  <2>1. NoteOK(lists["progress"], FALSE, Notes, Len(regs), calls + 1)
    <3>1. FALSE \in BOOLEAN
      OBVIOUS
    <3> QED
      BY <1>3, <1>4, <3>1, NoteLater
  <2>2. InLoopIn(frames', "progress") = FALSE
    BY <1>7, <1>13
  <2> QED
    BY <1>1, <1>14, <1>16, <2>1, <2>2
<1>19. SettledFit(frames', lists', settled', state', calls')
  <2>1. settled'.list = l /\ settled'.value = calls + 1 /\ settled' \in [list: {"none"} \cup Outcomes, value: Nat]
    <3>1. calls + 1 \in Nat /\ l \in {"none"} \cup Outcomes
      BY <1>5
    <3> QED
      BY <1>11, <3>1
  <2>2. ~lists[o].fired
    BY <1>7, <1>10 DEF DInv, SettledFit
  <2>3. lists["progress"].memory # Gone => lists["progress"].memory < calls + 1
    <3>1. lists["progress"].memory # Gone => lists["progress"].memory \in Nat /\ lists["progress"].memory <= calls
      <4>1. FALSE \in BOOLEAN
        OBVIOUS
      <4>2. lists["progress"].memory # Gone => lists["progress"].memory \in Nat
        BY <1>3, <1>4, <4>1, NoteFacts
      <4>3. lists["progress"].memory # Gone => lists["progress"].memory <= calls
        BY <1>3 DEF NoteOK
      <4> QED
        BY <4>2, <4>3
    <3> QED
      BY <1>4, <3>1, SMT
  <2>4. ~(0 >= 1) /\ ~(0 >= 2) /\ ~(0 >= 3)
    BY SMT
  <2>5. calls' = calls + 1 /\ InLoopIn(frames', l)
    BY <1>1, <1>13
  <2> QED
    BY <1>5, <1>6, <1>7, <1>16, <2>1, <2>2, <2>3, <2>4, <2>5 DEF SettledFit
<1>20. DInv'
  BY <1>13, <1>14, <1>15, <1>17, <1>18, <1>19 DEF DInv, InLoopOf
<1> QED
  BY <1>12, <1>20

LEMMA FireKeeps ==
  ASSUME DInv, NEW l \in ListNames, FireDeferred(l)
  PROVE  DInv' /\ RefStep
BY NotifyKeeps, FireAgainKeeps, SettleKeeps, ListNameFacts

(* The step of the promise when a callback is added. *)
LEMMA Registers ==
  ASSUME NEW names, settled' = settled, Called' = Called, Len(regs)' = Len(regs) + 1,
         \A list : waitingOf(list)' = IF list \in names THEN waitingOf(list) \cup {Len(regs) + 1} ELSE waitingOf(list)
  PROVE  RefStep
<1> DEFINE waiting == [list \in {"done", "fail"} |-> waitingOf(list)]
           added == names \cap {"done", "fail"}
<1>1. DOMAIN waiting = {"done", "fail"} /\ \A list \in {"done", "fail"} : waiting[list] = waitingOf(list)
  OBVIOUS
<1>2. waiting' = [list \in DOMAIN waiting |-> IF list \in added THEN waiting[list] \cup {Len(regs) + 1} ELSE waiting[list]]
  <2>1. waiting' = [list \in {"done", "fail"} |-> waitingOf(list)']
    OBVIOUS
  <2>2. \A list \in {"done", "fail"} : waitingOf(list)' = IF list \in added THEN waiting[list] \cup {Len(regs) + 1} ELSE waiting[list]
    BY <1>1
  <2> HIDE DEF added
  <2> QED
    BY <1>1, <2>1, <2>2
<1> HIDE DEF waiting
<1>3. Abstract!Register(added)
  BY <1>2 DEF Abstract!Register, waiting, Called
<1>4. added \in SUBSET {"done", "fail"}
  OBVIOUS
<1> QED
  BY <1>3, <1>4 DEF RefStep, Abstract!PromiseNext

(* What a call of done, fail, progress or always does to the lists. *)
Added(names) == [list \in ListNames |-> IF list \in names THEN add(lists[list], <<User(Len(regs) + 1)>>) ELSE lists[list]]

Begins(names, k) == Added(names)[k].firing /\ ~lists[k].firing

LEMMA AddedOutcome ==
  ASSUME DInv, UserRuns, NEW names, NEW k \in Outcomes
  PROVE  LET wait == IF k \in names THEN waitingOf(k) \cup {Len(regs) + 1} ELSE waitingOf(k)
             new == Added(names)[k]
         IN /\ OnceOK(new, Begins(names, k), wait, Len(regs) + 1)
            /\ GoesOn(lists[k], new)
            /\ new.memory = lists[k].memory /\ new.firing \in BOOLEAN
            /\ lists[k].firing => new.firing
            /\ Begins(names, k) => k \in names /\ lists[k].memory # Gone
            /\ lists[k].memory # Gone => lists[k].fired
<1> DEFINE cb == lists[k]
           new == Added(names)[k]
           n == Len(regs)
<1>1. OnceOK(cb, FALSE, waitingOf(k), n) /\ n \in Nat /\ k \in ListNames /\ cb \in CallbackList /\ FALSE \in BOOLEAN
  BY UserRunsFacts, UserRunsLists, DFacts, ListNameFacts
<1>2. cb.memory # Gone => cb.fired
  BY <1>1 DEF OnceOK
<1>3. CASE k \in names
  <2>1. new = add(cb, <<User(n + 1)>>)
    BY <1>1, <1>3 DEF Added
  <2> HIDE DEF new, cb, n
  <2> DEFINE x == add(cb, <<User(n + 1)>>)
  <2>2. /\ OnceOK(x, x.firing /\ ~cb.firing, waitingOf(k) \cup {n + 1}, n + 1)
        /\ x.fired = cb.fired /\ x.memory = cb.memory
        /\ (cb.firing => x.firing)
        /\ (x.firing => cb.memory # Gone)
        /\ (cb.list = Gone => x = cb)
        /\ (cb.list # Gone => x.list # Gone)
        /\ (Internal(cb) >= 3 /\ cb.fired => Internal(x) >= 3)
    BY <1>1, AddOnce
  <2> HIDE DEF x
  <2>3. x = new
    BY <2>1 DEF x
  <2>4. x \in CallbackList
    BY <2>2 DEF OnceOK
  <2>5. x.firing \in BOOLEAN
    BY <2>4, ListFacts
  <2>6. GoesOn(cb, x)
    BY <2>2, <2>4 DEF GoesOn
  <2>7. Begins(names, k) = (x.firing /\ ~cb.firing)
    BY <2>3 DEF Begins, new, cb
  <2> QED
    BY <1>2, <1>3, <2>2, <2>3, <2>5, <2>6, <2>7 DEF new, cb, n
<1>4. CASE k \notin names
  <2>1. new = cb
    BY <1>1, <1>4 DEF Added
  <2>2. Begins(names, k) = FALSE
    BY <2>1 DEF Begins
  <2>3. OnceOK(cb, FALSE, waitingOf(k), n + 1)
    BY <1>1, OnceLater
  <2>4. GoesOn(cb, cb) /\ cb.firing \in BOOLEAN
    BY <1>1, GoesOnSame, ListFacts
  <2> HIDE DEF new, cb, n
  <2> QED
    BY <1>2, <1>4, <2>1, <2>2, <2>3, <2>4 DEF new, cb, n
<1> QED
  BY <1>3, <1>4

LEMMA AddedProgress ==
  ASSUME DInv, UserRuns, NEW names, \A note \in Notes : note[1] # Len(regs) + 1
  PROVE  LET new == Added(names)["progress"]
         IN /\ NoteOK(new, Begins(names, "progress"), Notes, Len(regs) + 1, calls)
            /\ new.memory = lists["progress"].memory /\ new.firing \in BOOLEAN
            /\ new.stack = lists["progress"].stack
            /\ lists["progress"].firing => new.firing
            /\ Begins(names, "progress") => "progress" \in names /\ lists["progress"].memory # Gone
<1> DEFINE k == "progress"
           cb == lists[k]
           new == Added(names)[k]
           n == Len(regs)
<1>1. /\ NoteOK(cb, FALSE, Notes, n, calls) /\ n \in Nat /\ calls \in Nat /\ k \in ListNames /\ cb \in CallbackList
      /\ FALSE \in BOOLEAN
  BY UserRunsFacts, UserRunsLists, DFacts, ListNameFacts
<1>3. CASE k \in names
  <2>1. new = add(cb, <<User(n + 1)>>)
    BY <1>1, <1>3 DEF Added
  <2>0. \A note \in Notes : note[1] # n + 1
    OBVIOUS
  <2> HIDE DEF new, cb, n
  <2> DEFINE x == add(cb, <<User(n + 1)>>)
  <2>2. /\ NoteOK(x, x.firing /\ ~cb.firing, Notes, n + 1, calls)
        /\ x.memory = cb.memory /\ x.stack = cb.stack
        /\ (cb.firing => x.firing)
        /\ (x.firing => cb.memory # Gone)
    BY <1>1, <2>0, AddNote
  <2> HIDE DEF x
  <2>3. x = new
    BY <2>1 DEF x
  <2>4. x \in CallbackList
    BY <2>2 DEF NoteOK
  <2>5. x.firing \in BOOLEAN
    BY <2>4, ListFacts
  <2>7. Begins(names, k) = (x.firing /\ ~cb.firing)
    BY <2>3 DEF Begins, new, cb
  <2> QED
    BY <1>3, <2>2, <2>3, <2>5, <2>7 DEF new, cb, n
<1>4. CASE k \notin names
  <2>1. new = cb
    BY <1>1, <1>4 DEF Added
  <2>2. Begins(names, k) = FALSE
    BY <2>1 DEF Begins
  <2>3. NoteOK(cb, FALSE, Notes, n + 1, calls)
    BY <1>1, NoteLater
  <2>4. cb.firing \in BOOLEAN
    BY <1>1, ListFacts
  <2> HIDE DEF new, cb, n
  <2> QED
    BY <1>4, <2>1, <2>2, <2>3, <2>4 DEF new, cb, n
<1> QED
  BY <1>3, <1>4

(* One list at most begins, and it goes on with the value that it remembers. *)
LEMMA OneBegins ==
  ASSUME DInv, UserRuns, NEW names, names \subseteq Outcomes \/ names = {"progress"}, NEW l \in ListNames, Begins(names, l),
         l \in names, lists[l].memory # Gone,
         \A k \in Outcomes : lists[k].memory # Gone => lists[k].fired,
         \A k \in ListNames : Begins(names, k) => k \in names /\ lists[k].memory # Gone
  PROVE  /\ \A k \in ListNames \ {l} : ~Begins(names, k)
         /\ ({lists[k].memory : k \in names} \ {Gone}) = {lists[l].memory}
         /\ lists[l].memory \in Nat
<1>1. ASSUME NEW k \in names \ {l}
      PROVE  lists[k].memory = Gone
  <2>1. l \in Outcomes /\ k \in Outcomes
    BY <1>1, ListNameFacts
  <2>2. lists[l].fired
    BY <2>1
  <2>3. settled.list = l
    BY <2>1, <2>2, FiredIsSettled
  <2>4. ~lists[k].fired
    BY <1>1, <2>1, <2>3, FiredIsSettled
  <2> QED
    BY <2>1, <2>4
<1>2. \A k \in ListNames \ {l} : ~Begins(names, k)
  BY <1>1
<1>3. ({lists[k].memory : k \in names} \ {Gone}) = {lists[l].memory}
  BY <1>1
<1>4. lists[l].memory \in Nat
  BY DFacts, ListFacts
<1> QED
  BY <1>2, <1>3, <1>4

LEMMA AddKeeps ==
  ASSUME DInv, NEW names \in {{"done"}, {"fail"}, {"progress"}, {"done", "fail"}}, AddTo(names)
  PROVE  DInv' /\ RefStep
<1> DEFINE new == Added(names)
           n == Len(regs)
           memory == {lists[k].memory : k \in names} \ {Gone}
           v == IF memory = {} THEN 0 ELSE CHOOSE m \in memory : TRUE
<1>1. /\ UserRuns /\ regs' = Append(regs, names) /\ lists' = new /\ frames' = Started(new, v)
      /\ UNCHANGED <<state, calls, settled, log, raised>>
  BY DEF AddTo, Added
<1>2. names \in SUBSET ListNames /\ (names \subseteq Outcomes \/ names = {"progress"})
  BY DEF ListNames, Outcomes
<1>3. /\ Len(regs') = n + 1 /\ regs' \in Seq(SUBSET ListNames)
      /\ \A list : waitingOf(list)' = IF list \in names THEN waitingOf(list) \cup {n + 1} ELSE waitingOf(list)
      /\ Notes' = Notes /\ LogOK'
      /\ \A note \in Notes : note[1] # n + 1
  BY <1>1, <1>2, Registered
<1>4. DOMAIN lists = ListNames /\ DOMAIN new = ListNames
  BY DFacts DEF Added
<1>5. ASSUME NEW k \in Outcomes
      PROVE  /\ OnceOK(new[k], Begins(names, k), waitingOf(k)', n + 1)
             /\ GoesOn(lists[k], new[k])
             /\ new[k].memory = lists[k].memory /\ new[k].firing \in BOOLEAN
             /\ (lists[k].firing => new[k].firing)
             /\ (Begins(names, k) => k \in names /\ lists[k].memory # Gone)
             /\ (lists[k].memory # Gone => lists[k].fired)
  <2>1. LET wait == IF k \in names THEN waitingOf(k) \cup {Len(regs) + 1} ELSE waitingOf(k)
        IN /\ OnceOK(new[k], Begins(names, k), wait, Len(regs) + 1)
           /\ GoesOn(lists[k], new[k])
           /\ new[k].memory = lists[k].memory /\ new[k].firing \in BOOLEAN
           /\ lists[k].firing => new[k].firing
           /\ Begins(names, k) => k \in names /\ lists[k].memory # Gone
           /\ lists[k].memory # Gone => lists[k].fired
    BY <1>1, AddedOutcome
  <2> QED
    BY <1>3, <2>1
<1>6. /\ NoteOK(new["progress"], Begins(names, "progress"), Notes, n + 1, calls)
      /\ new["progress"].memory = lists["progress"].memory /\ new["progress"].firing \in BOOLEAN
      /\ new["progress"].stack = lists["progress"].stack
      /\ (lists["progress"].firing => new["progress"].firing)
      /\ (Begins(names, "progress") => "progress" \in names /\ lists["progress"].memory # Gone)
  BY <1>1, <1>3, AddedProgress
<1>7. \A k \in ListNames : /\ new[k].memory = lists[k].memory /\ new[k].firing \in BOOLEAN
                           /\ (lists[k].firing => new[k].firing)
                           /\ (Begins(names, k) => k \in names /\ lists[k].memory # Gone)
  BY <1>5, <1>6, ListNameFacts
<1>8. \A k : Begins(names, k) = (new[k].firing /\ ~lists[k].firing)
  BY DEF Begins
<1> HIDE DEF new
<1>9. \A k \in ListNames : ~Begins(names, k) => new[k].firing = lists[k].firing
  <2> SUFFICES ASSUME NEW k \in ListNames, ~Begins(names, k)
               PROVE  new[k].firing = lists[k].firing
    OBVIOUS
  <2>1. new[k].firing \in BOOLEAN /\ lists[k].firing \in BOOLEAN
    BY <1>7, DFacts
  <2>2. new[k].firing <=> lists[k].firing
    BY <1>7, <1>8
  <2> QED
    BY <2>1, <2>2
<1>10. /\ FramesFit(frames', lists', raised')
       /\ \A k \in ListNames : InLoopIn(frames', k) = Begins(names, k)
  <2>1. CASE \E l \in ListNames : Begins(names, l)
    <3>1. PICK l \in ListNames : Begins(names, l)
      BY <2>1
    <3>2. /\ \A k \in ListNames \ {l} : ~Begins(names, k)
          /\ memory = {lists[l].memory} /\ lists[l].memory \in Nat
      <4>1. l \in names /\ lists[l].memory # Gone
        BY <1>7, <3>1
      <4>2. \A k \in Outcomes : lists[k].memory # Gone => lists[k].fired
        BY <1>5
      <4>3. \A k \in ListNames : Begins(names, k) => k \in names /\ lists[k].memory # Gone
        BY <1>7
      <4> QED
        BY <1>1, <1>2, <3>1, <4>1, <4>2, <4>3, OneBegins
    <3>3. v = new[l].memory /\ v \in Nat
      <4>1. v = lists[l].memory
        BY <3>2
      <4> QED
        BY <1>7, <3>2, <4>1
    <3>4. SameBut(lists, new, {l}) /\ \A k \in ListNames \ {l} : new[k].firing => lists[k].firing
      <4>1. \A k \in ListNames \ {l} : new[k].firing = lists[k].firing
        BY <1>9, <3>2
      <4> QED
        BY <1>7, <4>1 DEF SameBut
    <3>5. TRUE = (new[l].firing /\ ~lists[l].firing) /\ TRUE \in BOOLEAN
      BY <1>8, <3>1
    <3> HIDE DEF v
    <3>6. /\ FramesFit(frames', lists', raised') /\ InLoopIn(frames', l) = TRUE
          /\ \A k \in ListNames \ {l} : InLoopIn(frames', k) = FALSE
      BY <1>1, <3>3, <3>4, <3>5, UserStarts
    <3>7. Begins(names, l) = TRUE /\ \A k \in ListNames \ {l} : Begins(names, k) = FALSE
      BY <3>1, <3>2 DEF Begins
    <3> QED
      BY <3>6, <3>7
  <2>2. CASE \A l \in ListNames : ~Begins(names, l)
    <3>1. \A k \in ListNames : new[k].firing = lists[k].firing
      BY <1>9, <2>2
    <3>2. SameBut(lists, new, {}) /\ \A k \in ListNames : new[k].firing => lists[k].firing
      BY <1>7, <3>1 DEF SameBut
    <3> HIDE DEF v
    <3>3. frames' = frames
      BY <1>1, <3>2, StartedNone
    <3>4. FramesFit(frames, new, raised)
      BY <3>2, FramesKeep DEF DInv
    <3>5. \A k \in ListNames : InLoopIn(frames, k) = FALSE /\ Begins(names, k) = FALSE
      BY <1>1, <2>2 DEF UserRuns, InLoopIn, Begins
    <3> QED
      BY <1>1, <3>3, <3>4, <3>5
  <2> QED
    BY <2>1, <2>2
<1>11. Types'
  BY <1>1, <1>3, <1>4 DEF DInv, Types
<1>12. \A list \in Outcomes : OnceOK(lists'[list], InLoopIn(frames', list), waitingOf(list)', Len(regs'))
  BY <1>1, <1>3, <1>5, <1>10, ListNameFacts
<1>13. NoteOK(lists'["progress"], InLoopIn(frames', "progress"), Notes', Len(regs'), calls')
  <2>1. InLoopIn(frames', "progress") = Begins(names, "progress")
    BY <1>10, ListNameFacts
  <2> QED
    BY <1>1, <1>3, <1>6, <2>1
<1>14. SettledFit(frames', lists', settled', state', calls')
  <2>1. \A list \in Outcomes : GoesOn(lists[list], lists'[list])
    BY <1>1, <1>5
  <2>2. calls \in Nat
    BY DFacts
  <2>3. calls' \in Nat /\ calls <= calls'
    BY <1>1, <2>2, SMT
  <2>4. settled.list # "none" => Internal(lists[settled.list]) >= 3
    BY <1>1, UserRunsFacts, UserRunsLists
  <2> QED
    BY <1>1, <1>6, <2>1, <2>3, <2>4, ThroughStays
<1>15. DInv'
  BY <1>3, <1>10, <1>11, <1>12, <1>13, <1>14 DEF DInv, InLoopOf
<1>16. RefStep
  <2>1. Called' = Called
    BY <1>1 DEF Called
  <2> QED
    BY <1>1, <1>3, <2>1, Registers
<1> QED
  BY <1>15, <1>16

LEMMA StepKeeps ==
  ASSUME DInv, [DeferredNext]_deferredVars
  PROVE  DInv' /\ RefStep
<1>1. CASE UNCHANGED deferredVars
  <2>1. UNCHANGED <<lists, state, frames, regs, calls, settled, log, raised>>
    BY <1>1 DEF deferredVars
  <2>2. (\A list : waitingOf(list)' = waitingOf(list)) /\ Notes' = Notes /\ LogOK'
    BY <2>1, SameLog DEF DInv
  <2>3. (\A list : InLoopOf(list)' = InLoopOf(list))
    BY <2>1 DEF InLoopOf
  <2>4. DInv'
    BY <2>1, <2>2, <2>3 DEF DInv, Types
  <2> QED
    BY <2>1, <2>4, Stutters
<1>2. CASE \E list \in ListNames : FireDeferred(list)
  BY <1>2, FireKeeps
<1>3. CASE \E names \in {{"done"}, {"fail"}, {"progress"}, {"done", "fail"}} : AddTo(names)
  BY <1>3, AddKeeps
<1>4. CASE RunInternal
  BY <1>4, InternalKeeps
<1>5. CASE CallUser
  BY <1>5, CallKeeps
<1>6. CASE ReturnUser
  BY <1>6, ReturnKeeps
<1>7. CASE ThrowUser
  BY <1>7, ThrowKeeps
<1>8. CASE EndLoop
  BY <1>8, EndKeeps
<1> QED
  BY <1>1, <1>2, <1>3, <1>4, <1>5, <1>6, <1>7, <1>8 DEF DeferredNext

------------------------------------------------------------------------------
(* Who is called was added for the list that calls: a callback for progress is called for nothing else. *)

Adds == {{"done"}, {"fail"}, {"progress"}, {"done", "fail"}}

AddedFor(list, name) == \A i \in DOMAIN list : list[i][2] \in DOMAIN regs /\ name \in regs[list[i][2]]

ForItsList ==
  /\ \A r \in DOMAIN regs : regs[r] \in Adds
  /\ lists["progress"].list # Gone => AddedFor(lists["progress"].list, "progress")
  /\ \A i \in DOMAIN log : log[i].reg \in DOMAIN regs /\ log[i].list \in regs[log[i].reg]

LEMMA ListKept ==
  ASSUME NEW cb \in CallbackList
  PROVE  /\ \A data : fireWith(cb, data).list = cb.list
         /\ fireReturn(cb).list = cb.list
         /\ lock(cb).list \in {cb.list, Gone}
         /\ fireEnd(cb).list \in {cb.list, <<>>, Gone}
<1>1. ASSUME NEW c, "list" \in DOMAIN c
      PROVE  /\ \A data : fireStart(c, data).list = c.list
             /\ disable(c).list = Gone
             /\ \A v : [c EXCEPT !.stack = v].list = c.list /\ "list" \in DOMAIN [c EXCEPT !.stack = v]
             /\ \A v : [c EXCEPT !.firing = v].list = c.list /\ "list" \in DOMAIN [c EXCEPT !.firing = v]
             /\ \A v : [c EXCEPT !.list = v].list = v
  BY <1>1 DEF fireStart, disable
<1>2. "list" \in DOMAIN cb
  BY DEF CallbackList
<1>3. ASSUME NEW data
      PROVE  fireWith(cb, data).list = cb.list
  BY <1>1, <1>2 DEF fireWith
<1>4. fireReturn(cb).list = cb.list
  BY ReturnFields
<1>5. lock(cb).list \in {cb.list, Gone}
  BY <1>1, <1>2 DEF lock
<1>6. fireEnd(cb).list \in {cb.list, <<>>, Gone}
  <2> DEFINE stopped == [cb EXCEPT !.firing = FALSE]
  <2>1. stopped.list = cb.list /\ "list" \in DOMAIN stopped
    BY <1>1, <1>2
  <2>2. /\ disable(stopped).list = Gone /\ [stopped EXCEPT !.list = <<>>].list = <<>>
        /\ \A v : [stopped EXCEPT !.stack = v].list = cb.list /\ "list" \in DOMAIN [stopped EXCEPT !.stack = v]
    BY <1>1, <2>1
  <2> HIDE DEF stopped
  <2>3. \A v, data : fireStart([stopped EXCEPT !.stack = v], data).list = cb.list
    <3> SUFFICES ASSUME NEW v, NEW data
                 PROVE  fireStart([stopped EXCEPT !.stack = v], data).list = cb.list
      OBVIOUS
    <3> DEFINE c == [stopped EXCEPT !.stack = v]
    <3>1. c.list = cb.list /\ "list" \in DOMAIN c
      BY <2>2
    <3> HIDE DEF c
    <3>2. fireStart(c, data).list = c.list
      BY <1>1, <3>1
    <3> QED
      BY <3>1, <3>2 DEF c
  <2>4. \/ fireEnd(cb) = stopped
        \/ fireEnd(cb) = fireStart([stopped EXCEPT !.stack = Tail(stopped.stack)], Head(cb.stack))
        \/ fireEnd(cb) = [stopped EXCEPT !.list = <<>>]
        \/ fireEnd(cb) = disable(stopped)
    BY DEF fireEnd, stopped
  <2>5. fireStart([stopped EXCEPT !.stack = Tail(stopped.stack)], Head(cb.stack)).list = cb.list
    BY <2>3
  <2> QED
    BY <2>1, <2>2, <2>4, <2>5
<1> QED
  BY <1>3, <1>4, <1>5, <1>6

(* No step but one that adds puts a callback into the list for progress. *)
LEMMA ProgressKept ==
  ASSUME DInv, DeferredNext, ~\E names \in Adds : AddTo(names)
  PROVE  regs' = regs /\ lists'["progress"].list \in {lists["progress"].list, <<>>, Gone}
<1> DEFINE cb == lists["progress"]
<1>1. /\ cb \in CallbackList /\ DOMAIN lists = ListNames /\ "progress" \in ListNames
      /\ \A list \in Outcomes : other(list) # "progress" /\ list # "progress"
  BY DFacts, ListNameFacts
<1>2. ASSUME NEW l \in ListNames, NEW x, lists' = [lists EXCEPT ![l] = x],
             l = "progress" => x.list \in {cb.list, <<>>, Gone}
      PROVE  lists'["progress"].list \in {cb.list, <<>>, Gone}
  <2>1. CASE l = "progress"
    BY <1>1, <1>2, <2>1
  <2>2. CASE l # "progress"
    <3>1. lists'["progress"] = cb
      BY <1>1, <1>2, <2>2
    <3> QED
      BY <3>1
  <2> QED
    BY <2>1, <2>2
<1>3. CASE \E list \in ListNames : FireDeferred(list)
  <2>1. PICK l \in ListNames : FireDeferred(l)
    BY <1>3
  <2>2. lists' = [lists EXCEPT ![l] = fireWith(lists[l], calls + 1)] /\ regs' = regs
    BY <2>1 DEF FireDeferred
  <2>3. fireWith(cb, calls + 1).list = cb.list
    BY <1>1, ListKept
  <2> QED
    BY <1>2, <2>2, <2>3
<1>4. CASE RunInternal
  <2> DEFINE l == frames[1].list
             next == [lists EXCEPT ![l] = fireReturn(lists[l])]
  <2>1. /\ lists' = CASE Current[1] = "disable" -> [next EXCEPT ![other(l)] = disable(@)]
                      [] Current[1] = "lock" -> [next EXCEPT !["progress"] = lock(@)]
                      [] OTHER -> next
        /\ regs' = regs /\ l \in Outcomes
    BY <1>4, InternalStep DEF RunInternal
  <2>2. DOMAIN next = ListNames /\ next["progress"] = cb
    BY <1>1, <2>1
  <2>3. other(l) # "progress"
    BY <1>1, <2>1
  <2> HIDE DEF next, l
  <2>4. lists'["progress"] = cb \/ lists'["progress"] = lock(cb)
    BY <1>1, <2>1, <2>2, <2>3
  <2> QED
    BY <1>1, <2>1, <2>4, ListKept
<1>5. CASE CallUser
  BY <1>5 DEF CallUser
<1>6. CASE ReturnUser
  <2>1. frames # <<>> /\ lists' = [lists EXCEPT ![frames[1].list] = fireReturn(lists[frames[1].list])] /\ regs' = regs
    BY <1>6 DEF ReturnUser
  <2>2. frames[1].list \in ListNames /\ fireReturn(cb).list = cb.list
    BY <1>1, <2>1, TopFacts, ListKept
  <2> QED
    BY <1>2, <2>1, <2>2
<1>7. CASE ThrowUser
  BY <1>7 DEF ThrowUser
<1>8. CASE EndLoop
  <2>1. frames # <<>> /\ lists' = [lists EXCEPT ![frames[1].list] = fireEnd(lists[frames[1].list])] /\ regs' = regs
    BY <1>8 DEF EndLoop
  <2>2. frames[1].list \in ListNames /\ fireEnd(cb).list \in {cb.list, <<>>, Gone}
    BY <1>1, <2>1, TopFacts, ListKept
  <2> QED
    BY <1>2, <2>1, <2>2
<1> QED
  BY <1>3, <1>4, <1>5, <1>6, <1>7, <1>8 DEF DeferredNext, Adds

LEMMA ForItsListStays ==
  ASSUME DInv, ForItsList, [DeferredNext]_deferredVars
  PROVE  ForItsList'
<1> DEFINE p == lists["progress"].list
<1>1. regs \in Seq(SUBSET ListNames) /\ DOMAIN lists = ListNames /\ "progress" \in ListNames
  BY DFacts, ListNameFacts DEF DInv, Types
<1>2. CASE UNCHANGED deferredVars
  BY <1>2 DEF deferredVars, ForItsList, AddedFor
<1>3. ASSUME NEW names \in Adds, AddTo(names)
      PROVE  ForItsList'
  <2> DEFINE n == Len(regs)
             x == add(lists["progress"], <<User(n + 1)>>)
  <2>1. /\ UserRuns /\ regs' = Append(regs, names) /\ log' = log
        /\ lists'["progress"] = IF "progress" \in names THEN x ELSE lists["progress"]
    BY <1>1, <1>3 DEF AddTo
  <2>2. names \in SUBSET ListNames
    BY DEF Adds, ListNames
  <2>3. /\ DOMAIN regs' = DOMAIN regs \cup {n + 1} /\ regs'[n + 1] = names
        /\ \A r \in DOMAIN regs : regs'[r] = regs[r]
    BY <1>1, <2>1, <2>2, SMT
  <2>4. \A r \in DOMAIN regs' : regs'[r] \in Adds
    BY <2>3 DEF ForItsList
  <2>5. \A i \in DOMAIN log' : log'[i].reg \in DOMAIN regs' /\ log'[i].list \in regs'[log'[i].reg]
    BY <2>1, <2>3 DEF ForItsList
  <2>6. p # Gone => \A i \in DOMAIN p : p[i][2] \in DOMAIN regs' /\ "progress" \in regs'[p[i][2]]
    BY <2>3 DEF ForItsList, AddedFor
  <2>7. ASSUME lists'["progress"].list # Gone
        PROVE  \A i \in DOMAIN lists'["progress"].list :
                 /\ lists'["progress"].list[i][2] \in DOMAIN regs'
                 /\ "progress" \in regs'[lists'["progress"].list[i][2]]
    <3>1. CASE "progress" \notin names
      BY <2>1, <2>6, <2>7, <3>1
    <3>2. CASE "progress" \in names /\ p = Gone
      <4>1. x = lists["progress"]
        BY <3>2 DEF add
      <4> QED
        BY <2>1, <2>7, <3>2, <4>1
    <3>3. CASE "progress" \in names /\ p # Gone
      <4>1. /\ NoteOK(lists["progress"], FALSE, Notes, n, calls) /\ n \in Nat /\ calls \in Nat
            /\ FALSE \in BOOLEAN
        BY <2>1, UserRunsFacts, UserRunsLists, DFacts
      <4>2. /\ lists["progress"] \in CallbackList /\ "memory" \in lists["progress"].options
            /\ lists["progress"].firingStart = 0 /\ p \in Seq(Callee)
        BY <3>3, <4>1, NoteFacts
      <4>3. n + 1 \in Nat
        BY <4>1, SMT
      <4>4. User(n + 1) \in Callee /\ User(n + 1)[2] = n + 1
        BY <4>3, CallbackFacts
      <4>5. x.list = p \o <<User(n + 1)>>
        BY <3>3, <4>2, <4>4, AddFields
      <4> DEFINE c == User(n + 1)
      <4> HIDE DEF c, x, n
      <4>6. lists'["progress"].list = p \o <<c>> /\ c \in Callee /\ c[2] = n + 1
        BY <2>1, <3>3, <4>4, <4>5 DEF c
      <4>7. /\ DOMAIN (p \o <<c>>) = DOMAIN p \cup {Len(p) + 1} /\ (p \o <<c>>)[Len(p) + 1] = c
            /\ \A i \in DOMAIN p : (p \o <<c>>)[i] = p[i]
        BY <4>2, <4>6, SMT
      <4> DEFINE q == p \o <<c>>
      <4> HIDE DEF q, p
      <4>8. ASSUME NEW i \in DOMAIN q
            PROVE  q[i][2] \in DOMAIN regs' /\ "progress" \in regs'[q[i][2]]
        <5>1. CASE i \in DOMAIN p
          BY <2>6, <3>3, <4>7, <5>1 DEF q
        <5>2. CASE i = Len(p) + 1
          <6>1. q[i][2] = n + 1
            BY <4>6, <4>7, <5>2 DEF q
          <6>2. n + 1 \in DOMAIN regs' /\ "progress" \in regs'[n + 1]
            BY <2>3, <3>3
          <6> QED
            BY <6>1, <6>2
        <5> QED
          BY <4>7, <5>1, <5>2 DEF q
      <4> QED
        BY <4>6, <4>8 DEF q
    <3> QED
      BY <3>1, <3>2, <3>3
  <2> QED
    BY <2>4, <2>5, <2>7 DEF ForItsList, AddedFor
<1>4. ASSUME DeferredNext, ~\E names \in Adds : AddTo(names)
      PROVE  ForItsList'
  <2>1. regs' = regs /\ lists'["progress"].list \in {p, <<>>, Gone}
    BY <1>4, ProgressKept
  <2>2. lists'["progress"].list # Gone =>
          \A i \in DOMAIN lists'["progress"].list : /\ lists'["progress"].list[i][2] \in DOMAIN regs
                                                    /\ "progress" \in regs[lists'["progress"].list[i][2]]
    <3>1. CASE lists'["progress"].list = p
      BY <3>1 DEF ForItsList, AddedFor
    <3>2. CASE lists'["progress"].list = <<>>
      <4>1. DOMAIN lists'["progress"].list = {}
        BY <3>2, SMT
      <4> QED
        BY <4>1
    <3> QED
      BY <2>1, <3>1, <3>2
  <2>3. \A i \in DOMAIN log' : log'[i].reg \in DOMAIN regs /\ log'[i].list \in regs[log'[i].reg]
    <3>1. CASE log' = log
      BY <3>1 DEF ForItsList
    <3>2. CASE CallUser
      <4> DEFINE l == frames[1].list
                 r == Current[2]
                 e == [reg |-> r, list |-> l, value |-> frames[1].value]
      <4>1. /\ frames # <<>> /\ ~frames[1].inCall /\ fireContinues(lists[l]) /\ log' = Append(log, e)
            /\ Current = At(lists[l], lists[l].firingIndex) /\ IsUser(Current)
        BY <3>2 DEF CallUser, InLoop, Current, IsUser
      <4>2. /\ l \in ListNames /\ lists[l].firing /\ frames[1].value \in Nat
            /\ \A k \in Outcomes : OnceOK(lists[k], k = l, waitingOf(k), Len(regs))
            /\ NoteOK(lists["progress"], l = "progress", Notes, Len(regs), calls)
            /\ Len(regs) \in Nat /\ calls \in Nat
        BY <4>1, TopFacts, TopLoop, DFacts
      <4>3. r \in DOMAIN regs /\ l \in regs[r]
        <5>1. CASE l \in Outcomes
          <6>1. (l = l) = TRUE
            OBVIOUS
          <6>2. OnceOK(lists[l], TRUE, waitingOf(l), Len(regs))
            BY <4>2, <5>1, <6>1
          <6>3. r \in waitingOf(l)
            BY <4>1, <4>2, <6>2, CallOnce
          <6> QED
            BY <6>3 DEF waitingOf
        <5>2. CASE l = "progress"
          <6>1. (l = "progress") = TRUE
            BY <5>2
          <6>2. NoteOK(lists[l], TRUE, Notes, Len(regs), calls)
            BY <4>2, <5>2, <6>1
          <6>3. lists[l].list = p /\ p # Gone /\ p \in Seq(Callee) /\ LoopOK(lists[l], TRUE) /\ lists[l].firingIndex \in Nat
            <7>1. TRUE \in BOOLEAN
              OBVIOUS
            <7>2. p # Gone
              BY <4>1, <5>2 DEF fireContinues
            <7>3. p \in Seq(Callee) /\ lists[l].firingIndex \in Nat
              BY <4>2, <5>2, <6>2, <7>1, <7>2, NoteFacts
            <7>4. LoopOK(lists[l], TRUE)
              BY <5>2, <6>2, <7>2 DEF NoteOK
            <7> QED
              BY <5>2, <7>2, <7>3, <7>4
          <6>4. lists[l].firingIndex < Len(p)
            BY <4>1, <4>2, <6>3 DEF fireContinues, LoopOK
          <6>5. lists[l].firingIndex + 1 \in DOMAIN p
            BY <6>3, <6>4, SMT
          <6>6. Current = p[lists[l].firingIndex + 1]
            BY <4>1, <6>3 DEF At
          <6> QED
            BY <5>2, <6>3, <6>5, <6>6 DEF ForItsList, AddedFor
        <5> QED
          BY <4>2, <5>1, <5>2, ListNameFacts
      <4>4. log \in Seq([reg: Nat, list: ListNames, value: Nat])
        BY DEF DInv, LogOK
      <4>5. e.reg = r /\ e.list = l
        OBVIOUS
      <4> DEFINE Entry == [reg: Nat, list: ListNames, value: Nat]
                 k == Len(log) + 1
      <4> HIDE DEF e, Entry, k
      <4>6. DOMAIN log' = DOMAIN log \cup {k} /\ log'[k] = e /\ \A i \in DOMAIN log : log'[i] = log[i]
        <5>1. log \in Seq(Entry) /\ log' = Append(log, e)
          BY <4>1, <4>4 DEF Entry
        <5> QED
          BY <5>1, SMT DEF k
      <4> QED
        BY <4>3, <4>5, <4>6 DEF ForItsList
    <3>3. log' = log \/ CallUser
      BY <1>4 DEF DeferredNext, Adds, FireDeferred, RunInternal, ReturnUser, ThrowUser, EndLoop
    <3> QED
      BY <3>1, <3>2, <3>3
  <2> QED
    BY <2>1, <2>2, <2>3 DEF ForItsList, AddedFor
<1> QED
  BY <1>2, <1>3, <1>4

------------------------------------------------------------------------------
(* The deferred that was just made. *)

LEMMA NewFacts ==
  ASSUME NEW options \in {{"memory"}, {"once", "memory"}}
  PROVE  LET cb == NewList(options)
         IN /\ cb \in CallbackList /\ cb.options = options /\ cb.list = <<>>
            /\ cb.stack = (IF "once" \in options THEN Gone ELSE <<>>) /\ cb.memory = Gone
            /\ cb.fired = FALSE /\ cb.firing = FALSE /\ cb.firingIndex = 0 /\ cb.firingStart = 0
<1> DEFINE cb == NewList(options)
<1>1. <<>> \in Seq(Callee) /\ <<>> \in Seq(Nat) /\ 0 \in Nat
  BY SMT
<1>2. <<>> \in ListOrGone /\ <<>> \in StackOrGone /\ Gone \in StackOrGone /\ Gone \in MemoryOrGone
  BY <1>1 DEF ListOrGone, StackOrGone, MemoryOrGone
<1>3. options \in SUBSET {"once", "memory"} /\ (IF "once" \in options THEN Gone ELSE <<>>) \in StackOrGone
  BY <1>2
<1>4. cb \in CallbackList
  BY <1>1, <1>2, <1>3 DEF NewList, CallbackList
<1>5. /\ cb.options = options /\ cb.list = <<>>
      /\ cb.stack = (IF "once" \in options THEN Gone ELSE <<>>) /\ cb.memory = Gone
      /\ cb.fired = FALSE /\ cb.firing = FALSE /\ cb.firingIndex = 0 /\ cb.firingStart = 0
  BY DEF NewList
<1> QED
  BY <1>4, <1>5

LEMMA NewOnce ==
  ASSUME NEW list
  PROVE  LET new == add(NewList({"once", "memory"}), internals(list))
         IN OnceOK(new, FALSE, {}, 0) /\ ~new.fired /\ ~new.firing /\ new.list # Gone
<1> DEFINE own == internals("done")
           cb == NewList({"once", "memory"})
           longer == [cb EXCEPT !.list = cb.list \o own]
           new == add(cb, internals(list))
<1>1. /\ cb \in CallbackList /\ cb.options = {"once", "memory"} /\ cb.list = <<>> /\ cb.stack = Gone /\ cb.memory = Gone
      /\ cb.fired = FALSE /\ cb.firing = FALSE /\ cb.firingStart = 0
  <2>1. {"once", "memory"} \in {{"memory"}, {"once", "memory"}} /\ "once" \in {"once", "memory"}
    OBVIOUS
  <2> QED
    BY <2>1, NewFacts
<1>2. /\ own \in Seq(Callee) /\ DOMAIN own = 1 .. 3 /\ Len(own) = 3 /\ internals(list) = own
      /\ \A i \in 1 .. 3 : ~IsUser(own[i]) /\ own[i][2] = 0
  BY InternalFacts, InternalNotUser
<1> HIDE DEF own, cb
<1>3. <<>> \o own = own /\ <<>> \in Seq(Callee)
  BY <1>2, SMT
<1>4. own # Gone /\ <<>> # Gone
  BY <1>2, <1>3, GoneIsNone
<1>5. new = longer
  <2>1. "unique" \notin cb.options
    BY <1>1
  <2> QED
    BY <1>1, <1>2, <1>4, <2>1 DEF add
<1>6. longer \in CallbackList
  <2>1. cb.list \o own \in ListOrGone
    BY <1>1, <1>2, <1>3 DEF ListOrGone
  <2> QED
    BY <1>1, <2>1, AssignedTypes
<1>7. /\ longer.options = {"once", "memory"} /\ longer.list = own /\ longer.stack = Gone /\ longer.memory = Gone
      /\ longer.fired = FALSE /\ longer.firing = FALSE /\ longer.firingStart = 0
  BY <1>1, <1>3 DEF CallbackList
<1> HIDE DEF longer, new
<1>8. OwnFirst(own)
  <2>1. Len(own) >= 3
    BY <1>2, SMT
  <2> QED
    BY <2>1 DEF OwnFirst, own
<1>9. InOrderOfAdding(own, 0)
  <2>1. \A i \in DOMAIN own : own[i][2] <= 0 /\ i <= 3
    BY <1>2, SMT
  <2> QED
    BY <1>2, <1>8, <2>1 DEF InOrderOfAdding
<1>10. {} = WaitingIn(longer, FALSE)
  BY <1>2, <1>7 DEF WaitingIn, Behind
<1>11. LoopOK(longer, FALSE)
  BY <1>7 DEF LoopOK
<1>12. OnceOK(longer, FALSE, {}, 0)
  BY <1>4, <1>6, <1>7, <1>8, <1>9, <1>10, <1>11 DEF OnceOK
<1> QED
  BY <1>4, <1>5, <1>7, <1>12 DEF new, cb

LEMMA NewNote ==
  LET new == NewList({"memory"})
  IN NoteOK(new, FALSE, {}, 0, 0) /\ ~new.firing /\ new.list = <<>>
<1> DEFINE new == NewList({"memory"})
<1>1. /\ new \in CallbackList /\ new.options = {"memory"} /\ new.list = <<>> /\ new.stack = <<>> /\ new.memory = Gone
      /\ new.fired = FALSE /\ new.firing = FALSE /\ new.firingStart = 0
  <2>1. {"memory"} \in {{"memory"}, {"once", "memory"}} /\ "once" \notin {"memory"}
    OBVIOUS
  <2> QED
    BY <2>1, NewFacts
<1> HIDE DEF new
<1>2. <<>> \in Seq(Callee) /\ DOMAIN <<>> = {}
  BY SMT
<1>3. <<>> # Gone
  BY <1>2, GoneIsNone
<1>4. InOrderOfAdding(<<>>, 0) /\ LoopOK(new, FALSE)
  BY <1>1, <1>2 DEF InOrderOfAdding, LoopOK
<1>5. NoteOK(new, FALSE, {}, 0, 0)
  BY <1>1, <1>2, <1>3, <1>4 DEF NoteOK
<1> QED
  BY <1>1, <1>5 DEF new

LEMMA InitHolds ==
  ASSUME DeferredInit
  PROVE  DInv /\ ForItsList /\ Abstract!PromiseInit
<1>1. /\ state = "pending" /\ frames = <<>> /\ regs = <<>> /\ calls = 0
      /\ settled = [list |-> "none", value |-> 0] /\ log = <<>> /\ raised = FALSE
  BY DEF DeferredInit
<1>2. DOMAIN lists = ListNames /\ lists["progress"] = NewList({"memory"})
  BY ListNameFacts DEF DeferredInit
<1>3. \A list \in Outcomes : lists[list] = add(NewList({"once", "memory"}), internals(list))
  BY ListNameFacts DEF DeferredInit
<1>4. \A list \in Outcomes : OnceOK(lists[list], FALSE, {}, 0) /\ ~lists[list].fired /\ ~lists[list].firing /\ lists[list].list # Gone
  BY <1>3, NewOnce
<1>5. NoteOK(lists["progress"], FALSE, {}, 0, 0) /\ ~lists["progress"].firing /\ lists["progress"].list = <<>>
  BY <1>2, NewNote
<1>6. DOMAIN <<>> = {} /\ Len(<<>>) = 0 /\ 0 \in Nat
  BY SMT
<1>7. \A list : waitingOf(list) = {} /\ InLoopOf(list) = FALSE
  BY <1>1, <1>6 DEF waitingOf, InLoopOf, InLoopIn
<1>8. Notes = {} /\ Called = {}
  BY <1>1, <1>6 DEF Notes, Called
<1>9. Len(regs) = 0 /\ calls = 0
  BY <1>1, <1>6
<1>10. Types
  <2>1. <<>> \in Seq(SUBSET ListNames)
    BY SMT
  <2> QED
    BY <1>1, <1>2, <1>6, <2>1 DEF Types
<1>11. FramesFit(frames, lists, raised)
  <2>1. <<>> \in Seq(Frame)
    BY SMT
  <2>2. \A list \in ListNames : ~lists[list].firing
    BY <1>4, <1>5, ListNameFacts
  <2> QED
    BY <1>1, <1>6, <2>1, <2>2 DEF FramesFit
<1>12. settled.list = "none" /\ settled.value = 0 /\ settled \in [list: {"none"} \cup Outcomes, value: Nat]
  <2>1. "none" \in {"none"} \cup Outcomes
    OBVIOUS
  <2> QED
    BY <1>1, <1>6, <2>1
<1>13. SettledFit(frames, lists, settled, state, calls)
  BY <1>4, <1>12 DEF SettledFit
<1>14. LogOK
  <2>1. <<>> \in Seq([reg: Nat, list: ListNames, value: Nat])
    BY SMT
  <2> QED
    BY <1>1, <1>6, <2>1 DEF LogOK
<1>15. DInv
  BY <1>4, <1>5, <1>7, <1>8, <1>9, <1>10, <1>11, <1>13, <1>14 DEF DInv
<1>16. ForItsList
  BY <1>1, <1>5, <1>6 DEF ForItsList, AddedFor
<1>17. Abstract!PromiseInit
  <2>1. settled = Abstract!Pending
    BY <1>1 DEF Abstract!Pending
  <2>2. [list \in {"done", "fail"} |-> waitingOf(list)] = [list \in {"done", "fail"} |-> {}]
    BY <1>7
  <2> QED
    BY <1>8, <1>9, <2>1, <2>2 DEF Abstract!PromiseInit, Called
<1> QED
  BY <1>15, <1>16, <1>17

------------------------------------------------------------------------------
(* What the invariants imply. *)

LEMMA Told ==
  ASSUME DInv, ForItsList
  PROVE  ToldInOrder
<1>1. DeferredTypeOK
  BY DEF DInv, Types, FramesFit, DeferredTypeOK
<1>2. NobodyWaits
  <2> SUFFICES ASSUME frames = <<>>, ~raised, settled.list # "none"
               PROVE  waitingOf(settled.list) = {}
    BY DEF NobodyWaits
  <2>1. settled.list \in Outcomes /\ lists[settled.list].fired
    BY DFacts, SettledTypes DEF DInv, SettledFit
  <2>2. DOMAIN frames = {}
    BY SMT
  <2>3. ~lists[settled.list].firing
    BY <2>1, <2>2, ListNameFacts DEF DInv, FramesFit
  <2>4. OnceOK(lists[settled.list], InLoopOf(settled.list), waitingOf(settled.list), Len(regs)) /\ Len(regs) \in Nat
    BY <2>1, DFacts DEF DInv
  <2> QED
    BY <2>1, <2>3, <2>4, DoneOnce
<1>3. StateSeen
  <2> SUFFICES ASSUME NEW i \in DOMAIN frames, frames[i].inCall, frames[i].list # "progress"
               PROVE  state = IF frames[i].list = "done" THEN "resolved" ELSE "rejected"
    BY DEF StateSeen
  <2>1. frames[i].list \in ListNames /\ lists[frames[i].list].firing
    BY DFacts, FrameFacts DEF DInv, FramesFit
  <2>2. frames[i].list \in Outcomes
    BY <2>1, ListNameFacts
  <2>3. settled.list = frames[i].list
    BY <2>1, <2>2, DFacts, FiredIsSettled
  <2>4. ~InLoopOf(settled.list)
    <3>1. SUFFICES ASSUME frames # <<>>, frames[1].list = frames[i].list, ~frames[1].inCall
                   PROVE  FALSE
      BY <2>3 DEF InLoopOf, InLoopIn
    <3>2. 1 \in DOMAIN frames
      BY <3>1, DFacts, FrameFacts
    <3>3. i = 1
      BY <3>1, <3>2 DEF DInv, FramesFit
    <3> QED
      BY <3>1, <3>3
  <2> QED
    BY <2>2, <2>3, <2>4, SettledThrough, ListNameFacts
<1>4. NotifiedInOrder
  <2> SUFFICES ASSUME NEW j \in DOMAIN log, log[j].list = "progress"
               PROVE  /\ settled.list # "none" => log[j].value < settled.value
                      /\ \A i \in 1 .. j - 1 : log[i].reg = log[j].reg => log[i].value < log[j].value
    BY DEF NotifiedInOrder
  <2> DEFINE note == <<log[j].reg, log[j].value>>
  <2>1. note \in Notes /\ note[2] = log[j].value
    BY DEF Notes
  <2> HIDE DEF note
  <2>2. settled.list # "none" => log[j].value < settled.value
    <3> SUFFICES ASSUME settled.list # "none"
                 PROVE  log[j].value < settled.value
      OBVIOUS
    <3> DEFINE m == lists["progress"].memory
    <3>1. m # Gone /\ note[2] <= m
      BY <2>1 DEF DInv, NoteOK
    <3>2. m < settled.value
      BY <3>1 DEF DInv, SettledFit
    <3>3. m \in Nat /\ settled.value \in Nat /\ note[2] \in Nat
      BY <2>1, <3>1, DFacts, ListFacts, ListNameFacts, SettledTypes, NotesNat
    <3> HIDE DEF m
    <3>4. note[2] < settled.value
      BY <3>1, <3>2, <3>3, SMT
    <3> QED
      BY <2>1, <3>4
  <2>3. ASSUME NEW i \in 1 .. j - 1, log[i].reg = log[j].reg
        PROVE  log[i].value < log[j].value
    <3>1. i \in DOMAIN log /\ i < j
      <4> DEFINE Entry == [reg: Nat, list: ListNames, value: Nat]
      <4>1. log \in Seq(Entry)
        BY DEF DInv, LogOK
      <4> HIDE DEF Entry
      <4> QED
        BY <4>1, SMT
    <3>2. log[j].reg \in DOMAIN regs /\ "progress" \in regs[log[j].reg] /\ regs[log[j].reg] \in Adds
      BY DEF ForItsList
    <3>3. regs[log[j].reg] = {"progress"}
      BY <3>2 DEF Adds
    <3>4. log[i].list = "progress"
      BY <2>3, <3>1, <3>3 DEF ForItsList
    <3> QED
      BY <2>3, <3>1, <3>4 DEF DInv, LogOK
  <2> QED
    BY <2>2, <2>3
<1> QED
  BY <1>1, <1>2, <1>3, <1>4 DEF ToldInOrder

(***************************************************************************)
(* Whoever waits for a deferred is told: once it is settled, no loop of    *)
(* fire is under way and no callback threw, every callback that done,      *)
(* fail or always added for the outcome has been called.  A callback that  *)
(* asks for the state is told the outcome, and the callbacks of progress   *)
(* see the notifications in order, none twice and none made after resolve  *)
(* or reject, however callbacks resolve, notify or add while they run.     *)
(***************************************************************************)
THEOREM DeferredTells == DeferredSpec => []ToldInOrder
<1>1. DeferredInit => DInv /\ ForItsList
  BY InitHolds
<1>2. DInv /\ ForItsList /\ [DeferredNext]_deferredVars => (DInv /\ ForItsList)'
  BY StepKeeps, ForItsListStays
<1>3. DInv /\ ForItsList => ToldInOrder
  BY Told
<1> QED
  BY <1>1, <1>2, <1>3, PTL DEF DeferredSpec

(***************************************************************************)
(* The three callback lists of Deferred together are a promise: the first  *)
(* resolve or reject settles it for good, and then the callbacks for that  *)
(* outcome are called, each once, in the order in which they were added    *)
(* and with the value of that call.                                        *)
(***************************************************************************)
THEOREM DeferredIsPromise == DeferredSpec => IsPromise
<1>1. DeferredInit => DInv /\ Abstract!PromiseInit
  BY InitHolds
<1>2. DInv /\ [DeferredNext]_deferredVars => DInv' /\ [Abstract!PromiseNext]_(Abstract!promiseVars)
  BY StepKeeps DEF RefStep
<1> QED
  BY <1>1, <1>2, PTL DEF DeferredSpec, IsPromise, Abstract!PromiseSpec
=============================================================================
