------------------------------ MODULE AjaxProofs ------------------------------
(***************************************************************************)
(* Proofs about the requests of jQuery, for any number of them and any     *)
(* options: they are counted right and settled once, whatever callbacks    *)
(* do at the points where ajax and done call them.                         *)
(***************************************************************************)
EXTENDS Ajax, FiniteSetTheorems, TLAPS

(* The prover of the leaves that name none. *)
USE Zenon

AjaxPoints == {"prefilter", "ajaxStart", "beforeSend", "ajaxSend", "send"}

DonePoints == {"settle", "outcome", "complete", "ajaxComplete", "ajaxStop"}

(* The points of done before the request is counted down. *)
CountedPoints == {"settle", "outcome", "complete", "ajaxComplete"}

OptionType == [global: BOOLEAN, async: BOOLEAN, timeout: BOOLEAN, beforeSend: BOOLEAN]

RequestType ==
  [options: OptionType, opened: BOOLEAN, fireGlobals: BOOLEAN, state: {0, 1, 2},
   transport: {"none", "made", "sent"}, timeoutTimer: BOOLEAN, outcome: {"pending", "success", "error"},
   dones: Nat, unnoticed: BOOLEAN]

FrameType == [r: Requests, at: AjaxPoints \cup DonePoints]

(* A request by itself: what is under way is in state 1, done is passed    *)
(* when the state becomes 2, and nothing has happened before ajax.         *)
RequestOK(q) ==
  /\ q.transport = "sent" => q.state = 1
  /\ q.timeoutTimer => q.state = 1
  /\ ~q.unnoticed => q.dones = IF q.state = 2 THEN 1 ELSE 0
  /\ ~q.opened => q.state = 0 /\ ~q.fireGlobals

(* A call under way and its request: ajax has passed the points where it   *)
(* looks at the state, unless the abort went unnoticed, and done is under  *)
(* way in state 2 only.                                                    *)
FrameOK(f, q) ==
  /\ q.opened
  /\ f.at = "prefilter" => ~q.fireGlobals
  /\ f.at = "ajaxComplete" => q.fireGlobals
  /\ ~q.unnoticed =>
       /\ f.at \in {"ajaxSend", "send"} => q.state # 2
       /\ f.at \in {"ajaxStart", "beforeSend"} /\ ~q.options.beforeSend => q.state # 2
       /\ f.at \in DonePoints => q.state = 2

(* A call in which a callback runs. *)
Calling(f, q) == f.at \in CallbackPoints /\ (f.at = "beforeSend" => q.options.beforeSend)

(* Two calls of ajax, or of done, for one request. *)
Clash(f, g, q) ==
  \/ f.at \in AjaxPoints /\ g.at \in AjaxPoints
  \/ f.at \in DonePoints /\ g.at \in DonePoints /\ ~q.unnoticed

AllCalling(s, qs) == \A i \in DOMAIN s : Calling(s[i], qs[s[i].r])

NoClash(f, s, qs) == \A i \in DOMAIN s : s[i].r = f.r => ~Clash(f, s[i], qs[f.r])

StackOK(s, qs) ==
  /\ s \in Seq(FrameType)
  /\ \A i \in DOMAIN s : FrameOK(s[i], qs[s[i].r])
  /\ \A i \in DOMAIN s : i > 1 => Calling(s[i], qs[s[i].r])
  /\ \A i, j \in DOMAIN s : i # j /\ s[i].r = s[j].r => ~Clash(s[i], s[j], qs[s[i].r])

(* done is under way for a request and has not counted it down. *)
InDone(s, r) == \E i \in DOMAIN s : s[i].r = r /\ s[i].at \in CountedPoints

Counted(s, qs) == {r \in Requests : qs[r].fireGlobals /\ (qs[r].state # 2 \/ InDone(s, r))}

(* The inductive invariant.  While code of the library runs, the counter   *)
(* also counts the requests whose done is under way.                       *)
AInv ==
  /\ reqs \in [Requests -> RequestType]
  /\ active \in Int /\ lit \in BOOLEAN /\ threw \in BOOLEAN
  /\ \A r \in Requests : RequestOK(reqs[r])
  /\ StackOK(stack, reqs)
  /\ Regular => active = Cardinality(Counted(stack, reqs)) /\ (lit <=> active > 0)

LEMMA ConsFacts ==
  ASSUME NEW S, NEW s \in Seq(S), NEW f \in S
  PROVE  /\ <<f>> \o s \in Seq(S)
         /\ DOMAIN (<<f>> \o s) = 1 .. Len(s) + 1
         /\ (<<f>> \o s)[1] = f
         /\ \A i \in DOMAIN (<<f>> \o s) : i # 1 => i - 1 \in DOMAIN s /\ (<<f>> \o s)[i] = s[i - 1]
         /\ \A i \in DOMAIN s : i + 1 \in DOMAIN (<<f>> \o s) /\ i + 1 # 1 /\ (<<f>> \o s)[i + 1] = s[i]
BY SMT

LEMMA TailFacts ==
  ASSUME NEW S, NEW s \in Seq(S), s # <<>>
  PROVE  /\ Tail(s) \in Seq(S)
         /\ 1 \in DOMAIN s /\ s[1] \in S
         /\ \A i \in DOMAIN Tail(s) : i + 1 \in DOMAIN s /\ i + 1 > 1 /\ Tail(s)[i] = s[i + 1]
         /\ \A i \in DOMAIN s : i # 1 => i - 1 \in DOMAIN Tail(s) /\ Tail(s)[i - 1] = s[i]
BY SMT

(* The innermost call returns. *)
LEMMA PopStack ==
  ASSUME NEW qs, NEW s, StackOK(s, qs), s # <<>>
  PROVE  /\ StackOK(Tail(s), qs) /\ AllCalling(Tail(s), qs) /\ NoClash(s[1], Tail(s), qs)
         /\ s[1] \in FrameType /\ FrameOK(s[1], qs[s[1].r])
<1>1. s \in Seq(FrameType)
  BY DEF StackOK
<1> DEFINE t == Tail(s)
<1>2. /\ t \in Seq(FrameType)
      /\ 1 \in DOMAIN s /\ s[1] \in FrameType
      /\ \A i \in DOMAIN t : i + 1 \in DOMAIN s /\ i + 1 > 1 /\ t[i] = s[i + 1]
  BY <1>1, TailFacts
<1>3. \A i \in DOMAIN t : i \in Int
  BY <1>2, SMT
<1> HIDE DEF t
<1>4. AllCalling(t, qs)
  BY <1>2 DEF StackOK, AllCalling
<1>5. \A i, j \in DOMAIN t : i # j /\ t[i].r = t[j].r => ~Clash(t[i], t[j], qs[t[i].r])
  <2> SUFFICES ASSUME NEW i \in DOMAIN t, NEW j \in DOMAIN t, i # j, t[i].r = t[j].r
               PROVE  ~Clash(t[i], t[j], qs[t[i].r])
    OBVIOUS
  <2>1. i + 1 # j + 1
    BY <1>3, SMT
  <2> QED
    BY <1>2, <2>1 DEF StackOK
<1>6. StackOK(t, qs)
  BY <1>2, <1>4, <1>5 DEF StackOK, AllCalling
<1>7. NoClash(s[1], t, qs)
  <2> SUFFICES ASSUME NEW i \in DOMAIN t, t[i].r = s[1].r PROVE ~Clash(s[1], t[i], qs[s[1].r])
    BY DEF NoClash
  <2>1. i + 1 # 1
    BY <1>2, SMT
  <2> QED
    BY <1>2, <2>1 DEF StackOK
<1> QED
  BY <1>2, <1>4, <1>6, <1>7 DEF StackOK, t

(* A call is made from a callback, or goes on. *)
LEMMA PushStack ==
  ASSUME NEW qs, NEW s, NEW f \in FrameType, StackOK(s, qs), AllCalling(s, qs),
         FrameOK(f, qs[f.r]), NoClash(f, s, qs)
  PROVE  StackOK(<<f>> \o s, qs)
<1>1. s \in Seq(FrameType)
  BY DEF StackOK
<1> DEFINE t == <<f>> \o s
<1>2. /\ t \in Seq(FrameType) /\ t[1] = f
      /\ \A i \in DOMAIN t : i # 1 => i - 1 \in DOMAIN s /\ t[i] = s[i - 1]
  BY <1>1, ConsFacts, SMT
<1>3. \A i \in DOMAIN t : i \in Int
  BY <1>2, SMT
<1> HIDE DEF t
<1>4. \A i \in DOMAIN t : FrameOK(t[i], qs[t[i].r])
  BY <1>2 DEF StackOK
<1>5. \A i \in DOMAIN t : i > 1 => Calling(t[i], qs[t[i].r])
  <2>1. \A i \in DOMAIN t : i > 1 => i # 1
    BY <1>3, SMT
  <2> QED
    BY <1>2, <2>1 DEF AllCalling
<1>6. ASSUME NEW i \in DOMAIN t, NEW j \in DOMAIN t, i # j, t[i].r = t[j].r
      PROVE  ~Clash(t[i], t[j], qs[t[i].r])
  <2>1. CASE i = 1
    BY <1>2, <1>6, <2>1 DEF NoClash
  <2>2. CASE j = 1
    <3>1. i # 1 /\ ~Clash(t[j], t[i], qs[t[j].r])
      BY <1>2, <1>6, <2>2 DEF NoClash
    <3> QED
      BY <1>6, <3>1 DEF Clash
  <2>3. CASE i # 1 /\ j # 1
    <3>1. i - 1 # j - 1
      BY <1>3, <1>6, SMT
    <3> QED
      BY <1>2, <1>6, <2>3, <3>1 DEF StackOK
  <2> QED
    BY <2>1, <2>2, <2>3
<1>7. StackOK(t, qs)
  BY <1>2, <1>4, <1>5, <1>6 DEF StackOK
<1> QED
  BY <1>7 DEF t

(* The fields of one request change. *)
LEMMA UpdateStack ==
  ASSUME NEW qs \in [Requests -> RequestType], NEW new \in RequestType, NEW r \in Requests, NEW s, StackOK(s, qs),
         new.options = qs[r].options, qs[r].unnoticed => new.unnoticed,
         \A i \in DOMAIN s : s[i].r = r => FrameOK(s[i], new)
  PROVE  /\ StackOK(s, [qs EXCEPT ![r] = new])
         /\ AllCalling(s, qs) => AllCalling(s, [qs EXCEPT ![r] = new])
         /\ \A f \in FrameType : NoClash(f, s, qs) => NoClash(f, s, [qs EXCEPT ![r] = new])
<1> DEFINE ps == [qs EXCEPT ![r] = new]
<1>1. ps[r] = new /\ \A p \in Requests : p # r => ps[p] = qs[p]
  OBVIOUS
<1> HIDE DEF ps
<1>2. s \in Seq(FrameType) /\ \A i \in DOMAIN s : s[i] \in FrameType /\ s[i].r \in Requests
  <2>1. s \in Seq(FrameType)
    BY DEF StackOK
  <2>2. \A i \in DOMAIN s : s[i] \in FrameType
    BY <2>1, SMT
  <2>3. \A f \in FrameType : f.r \in Requests
    BY DEF FrameType
  <2> QED
    BY <2>1, <2>2, <2>3
<1>3. \A f \in FrameType, p \in Requests : Calling(f, qs[p]) => Calling(f, ps[p])
  <2> SUFFICES ASSUME NEW f \in FrameType, NEW p \in Requests, Calling(f, qs[p]) PROVE Calling(f, ps[p])
    OBVIOUS
  <2>1. ps[p].options = qs[p].options
    BY <1>1
  <2> QED
    BY <2>1 DEF Calling
<1>4. \A f, g \in FrameType, p \in Requests : Clash(f, g, ps[p]) => Clash(f, g, qs[p])
  <2> SUFFICES ASSUME NEW f \in FrameType, NEW g \in FrameType, NEW p \in Requests, Clash(f, g, ps[p])
               PROVE  Clash(f, g, qs[p])
    OBVIOUS
  <2>1. ~ps[p].unnoticed => ~qs[p].unnoticed
    BY <1>1
  <2> QED
    BY <2>1 DEF Clash
<1>5. \A i \in DOMAIN s : FrameOK(s[i], ps[s[i].r])
  <2> SUFFICES ASSUME NEW i \in DOMAIN s PROVE FrameOK(s[i], ps[s[i].r])
    OBVIOUS
  <2>1. CASE s[i].r = r
    BY <1>1, <2>1
  <2>2. CASE s[i].r # r
    BY <1>1, <1>2, <2>2 DEF StackOK
  <2> QED
    BY <2>1, <2>2
<1>6. StackOK(s, ps)
  BY <1>2, <1>3, <1>4, <1>5 DEF StackOK
<1>7. AllCalling(s, qs) => AllCalling(s, ps)
  BY <1>2, <1>3 DEF AllCalling
<1>8. \A f \in FrameType : NoClash(f, s, qs) => NoClash(f, s, ps)
  <2>1. \A f \in FrameType : f.r \in Requests
    BY DEF FrameType
  <2> QED
    BY <1>2, <1>4, <2>1 DEF NoClash
<1> QED
  BY <1>6, <1>7, <1>8 DEF ps

(* done settles a request that is not settled, and counts its pass. *)
LEMMA DoneFacts ==
  ASSUME NEW q \in RequestType, RequestOK(q), q.opened, NEW result \in {"success", "error"}
  PROVE  /\ done(q, result) \in RequestType /\ RequestOK(done(q, result))
         /\ done(q, result).state = 2 /\ done(q, result).opened
         /\ done(q, result).options = q.options /\ done(q, result).fireGlobals = q.fireGlobals
         /\ done(q, result).unnoticed = q.unnoticed
         /\ q.state = 2 => done(q, result) = q
         /\ q.state # 2 => done(q, result).dones = q.dones + 1
<1>1. CASE q.state = 2
  <2>1. done(q, result) = q
    BY <1>1 DEF done
  <2> QED
    BY <1>1, <2>1
<1>2. CASE q.state # 2
  <2> DEFINE a == [q EXCEPT !.state = 2]
             b == [a EXCEPT !.transport = "none"]
             c == [b EXCEPT !.timeoutTimer = FALSE]
             d == [c EXCEPT !.dones = q.dones + 1]
             e == [d EXCEPT !.outcome = IF q.outcome = "pending" THEN result ELSE q.outcome]
  <2>1. /\ a \in RequestType /\ a.state = 2 /\ a.opened = q.opened /\ a.options = q.options
        /\ a.fireGlobals = q.fireGlobals /\ a.unnoticed = q.unnoticed /\ a.dones = q.dones /\ a.outcome = q.outcome
    BY DEF RequestType
  <2> HIDE DEF a
  <2>2. /\ b \in RequestType /\ b.state = 2 /\ b.opened = q.opened /\ b.options = q.options
        /\ b.fireGlobals = q.fireGlobals /\ b.unnoticed = q.unnoticed /\ b.dones = q.dones /\ b.outcome = q.outcome
        /\ b.transport = "none"
    BY <2>1 DEF RequestType
  <2> HIDE DEF b
  <2>3. /\ c \in RequestType /\ c.state = 2 /\ c.opened = q.opened /\ c.options = q.options
        /\ c.fireGlobals = q.fireGlobals /\ c.unnoticed = q.unnoticed /\ c.dones = q.dones /\ c.outcome = q.outcome
        /\ c.transport = "none" /\ c.timeoutTimer = FALSE
    BY <2>2 DEF RequestType
  <2> HIDE DEF c
  <2>4. q.dones + 1 \in Nat /\ q.dones \in Nat
    BY SMT DEF RequestType
  <2>5. /\ d \in RequestType /\ d.state = 2 /\ d.opened = q.opened /\ d.options = q.options
        /\ d.fireGlobals = q.fireGlobals /\ d.unnoticed = q.unnoticed /\ d.dones = q.dones + 1 /\ d.outcome = q.outcome
        /\ d.transport = "none" /\ d.timeoutTimer = FALSE
    BY <2>3, <2>4 DEF RequestType
  <2> HIDE DEF d
  <2>6. (IF q.outcome = "pending" THEN result ELSE q.outcome) \in {"pending", "success", "error"}
    BY DEF RequestType
  <2>7. /\ e \in RequestType /\ e.state = 2 /\ e.opened = q.opened /\ e.options = q.options
        /\ e.fireGlobals = q.fireGlobals /\ e.unnoticed = q.unnoticed /\ e.dones = q.dones + 1
        /\ e.transport = "none" /\ e.timeoutTimer = FALSE
    BY <2>5, <2>6 DEF RequestType
  <2>8. done(q, result) = e
    <3>1. d.outcome = q.outcome /\ c.dones = q.dones
      BY <2>3, <2>5
    <3> QED
      BY <1>2, <3>1 DEF done, a, b, c, d, e
  <2> HIDE DEF e
  <2>9. RequestOK(e)
    BY <1>2, <2>4, <2>7, SMT DEF RequestOK
  <2> QED
    BY <1>2, <2>7, <2>8, <2>9
<1> QED
  BY <1>1, <1>2

(* Who is counted when a call begins, goes on or returns. *)
LEMMA InDoneCons ==
  ASSUME NEW s \in Seq(FrameType), NEW f \in FrameType, NEW r
  PROVE  InDone(<<f>> \o s, r) <=> (f.r = r /\ f.at \in CountedPoints) \/ InDone(s, r)
<1> DEFINE t == <<f>> \o s
<1>1. /\ 1 \in DOMAIN t /\ t[1] = f
      /\ \A i \in DOMAIN t : i # 1 => i - 1 \in DOMAIN s /\ t[i] = s[i - 1]
      /\ \A i \in DOMAIN s : i + 1 \in DOMAIN t /\ t[i + 1] = s[i]
  BY ConsFacts, SMT
<1> HIDE DEF t
<1>2. InDone(t, r) => (f.r = r /\ f.at \in CountedPoints) \/ InDone(s, r)
  BY <1>1 DEF InDone
<1>3. (f.r = r /\ f.at \in CountedPoints) \/ InDone(s, r) => InDone(t, r)
  BY <1>1 DEF InDone
<1> QED
  BY <1>2, <1>3 DEF t

LEMMA InDoneTail ==
  ASSUME NEW s \in Seq(FrameType), s # <<>>, NEW r
  PROVE  InDone(s, r) <=> (s[1].r = r /\ s[1].at \in CountedPoints) \/ InDone(Tail(s), r)
<1> DEFINE t == Tail(s)
<1>1. /\ 1 \in DOMAIN s
      /\ \A i \in DOMAIN t : i + 1 \in DOMAIN s /\ t[i] = s[i + 1]
      /\ \A i \in DOMAIN s : i # 1 => i - 1 \in DOMAIN t /\ t[i - 1] = s[i]
  BY TailFacts
<1> HIDE DEF t
<1>2. InDone(s, r) => (s[1].r = r /\ s[1].at \in CountedPoints) \/ InDone(t, r)
  BY <1>1 DEF InDone
<1>3. (s[1].r = r /\ s[1].at \in CountedPoints) \/ InDone(t, r) => InDone(s, r)
  BY <1>1 DEF InDone
<1> QED
  BY <1>2, <1>3 DEF t

(* No call of ajax below would go on as if the request were not done. *)
NoticedBelow(t, q, r) ==
  \A i \in DOMAIN t : t[i].r = r /\ ~q.unnoticed =>
    /\ t[i].at \notin {"ajaxSend", "send"}
    /\ t[i].at \in {"ajaxStart", "beforeSend"} => q.options.beforeSend

(* The requests qs once r has become new. *)
Changed(qs, r, new) == [qs EXCEPT ![r] = new]

(* done is called on a request that is not settled, and no call of ajax    *)
(* for it is at a point where it would not notice.                         *)
LEMMA Settling ==
  ASSUME NEW qs \in [Requests -> RequestType], NEW r \in Requests, NEW t, StackOK(t, qs), AllCalling(t, qs),
         NEW new \in RequestType, qs[r].state # 2, new.state = 2, new.opened,
         new.options = qs[r].options, new.fireGlobals = qs[r].fireGlobals, qs[r].unnoticed => new.unnoticed,
         NoticedBelow(t, new, r)
  PROVE  /\ StackOK(Frame(r, "settle") \o t, Changed(qs, r, new))
         /\ Counted(Frame(r, "settle") \o t, Changed(qs, r, new)) = Counted(t, qs)
<1> DEFINE f == [r |-> r, at |-> "settle"]
           ps == [qs EXCEPT ![r] = new]
<1>1. Frame(r, "settle") = <<f>> /\ f \in FrameType /\ f.r = r /\ f.at = "settle"
  BY DEF Frame, FrameType, DonePoints
<1>2. t \in Seq(FrameType) /\ \A i \in DOMAIN t : FrameOK(t[i], qs[t[i].r])
  BY DEF StackOK
<1>3. \A i \in DOMAIN t : t[i].r = r => FrameOK(t[i], new)
  <2> SUFFICES ASSUME NEW i \in DOMAIN t, t[i].r = r PROVE FrameOK(t[i], new)
    OBVIOUS
  <2>1. FrameOK(t[i], qs[r])
    BY <1>2
  <2> QED
    BY <2>1 DEF FrameOK, NoticedBelow
<1>4. NoClash(f, t, qs)
  <2> SUFFICES ASSUME NEW i \in DOMAIN t, t[i].r = r PROVE ~Clash(f, t[i], qs[r])
    BY <1>1 DEF NoClash
  <2>1. FrameOK(t[i], qs[r])
    BY <1>2
  <2> QED
    BY <1>1, <2>1 DEF FrameOK, Clash, AjaxPoints
<1>5. StackOK(t, ps) /\ AllCalling(t, ps) /\ NoClash(f, t, ps)
  BY <1>1, <1>3, <1>4, UpdateStack
<1>6. ps[r] = new /\ \A p \in Requests : p # r => ps[p] = qs[p]
  OBVIOUS
<1> HIDE DEF ps
<1>7. FrameOK(f, ps[f.r])
  BY <1>1, <1>6 DEF FrameOK
<1> HIDE DEF f
<1>8. StackOK(<<f>> \o t, ps)
  BY <1>1, <1>5, <1>7, PushStack
<1>9. Counted(<<f>> \o t, ps) = Counted(t, qs)
  <2>1. \A p \in Requests : InDone(<<f>> \o t, p) <=> p = r \/ InDone(t, p)
    BY <1>1, <1>2, InDoneCons DEF CountedPoints
  <2>2. \A p \in Requests : ps[p].fireGlobals /\ (ps[p].state # 2 \/ InDone(<<f>> \o t, p))
                            <=> qs[p].fireGlobals /\ (qs[p].state # 2 \/ InDone(t, p))
    <3> SUFFICES ASSUME NEW p \in Requests
                 PROVE  ps[p].fireGlobals /\ (ps[p].state # 2 \/ InDone(<<f>> \o t, p))
                            <=> qs[p].fireGlobals /\ (qs[p].state # 2 \/ InDone(t, p))
      OBVIOUS
    <3>1. CASE p = r
      BY <1>6, <2>1, <3>1
    <3>2. CASE p # r
      BY <1>6, <2>1, <3>2
    <3> QED
      BY <3>1, <3>2
  <2> QED
    BY <2>2 DEF Counted
<1> QED
  BY <1>1, <1>8, <1>9 DEF ps, Changed

(* The steps that change a request and the calls under way, but not who is *)
(* counted.                                                                *)
LEMMA KeepStep ==
  ASSUME AInv, NEW r \in Requests, NEW new \in RequestType, RequestOK(new), reqs[r].unnoticed => new.unnoticed,
         reqs' = [reqs EXCEPT ![r] = new], StackOK(stack', reqs'), UNCHANGED <<active, lit, threw>>,
         Regular' => Counted(stack', reqs') = Counted(stack, reqs)
  PROVE  AInv'
<1>1. reqs \in [Requests -> RequestType] /\ \A p \in Requests : RequestOK(reqs[p])
  BY DEF AInv
<1>2. /\ reqs' \in [Requests -> RequestType]
      /\ reqs'[r] = new /\ \A p \in Requests : p # r => reqs'[p] = reqs[p]
  BY <1>1
<1>3. \A p \in Requests : RequestOK(reqs'[p])
  BY <1>1, <1>2
<1>4. Regular' => Regular
  BY <1>2 DEF Regular
<1>5. Regular' => active' = Cardinality(Counted(stack', reqs')) /\ (lit' <=> active' > 0)
  BY <1>4 DEF AInv
<1> QED
  BY <1>2, <1>3, <1>5 DEF AInv

(* The steps that leave the requests as they are. *)
LEMMA SameStep ==
  ASSUME AInv, reqs' = reqs, StackOK(stack', reqs), UNCHANGED <<active, lit, threw>>,
         Regular => Counted(stack', reqs) = Counted(stack, reqs)
  PROVE  AInv'
<1>1. Regular' <=> Regular
  BY DEF Regular
<1> QED
  BY <1>1 DEF AInv

LEMMA AjaxBegins == AjaxInit => AInv
<1> SUFFICES ASSUME AjaxInit PROVE AInv
  OBVIOUS
<1>1. Options \subseteq OptionType
  BY AjaxAssumption DEF OptionType
<1>2. \A o \in Options : /\ NewRequest(o) \in RequestType /\ RequestOK(NewRequest(o))
                         /\ ~NewRequest(o).fireGlobals
  BY <1>1, SMT DEF NewRequest, RequestType, RequestOK
<1>3. reqs \in [Requests -> {NewRequest(o) : o \in Options}]
  BY DEF AjaxInit
<1>4. \A r \in Requests : \E o \in Options : reqs[r] = NewRequest(o)
  BY <1>3
<1>5. \A r \in Requests : reqs[r] \in RequestType /\ RequestOK(reqs[r]) /\ ~reqs[r].fireGlobals
  BY <1>2, <1>4
<1>6. reqs \in [Requests -> RequestType]
  BY <1>3, <1>5
<1>7. StackOK(stack, reqs)
  BY SMT DEF AjaxInit, StackOK
<1>8. Counted(stack, reqs) = {}
  BY <1>5 DEF Counted
<1>9. active = Cardinality(Counted(stack, reqs)) /\ (lit <=> active > 0)
  BY <1>8, FS_EmptySet, SMT DEF AjaxInit
<1>10. active \in Int
  BY SMT DEF AjaxInit
<1>11. lit \in BOOLEAN /\ threw \in BOOLEAN
  BY DEF AjaxInit
<1> QED
  BY <1>5, <1>6, <1>7, <1>9, <1>10, <1>11 DEF AInv

(* The innermost call, and those below it. *)
LEMMA TopFacts ==
  ASSUME AInv, stack # <<>>
  PROVE  /\ stack[1] \in FrameType /\ stack[1].r \in Requests /\ stack[1].at \in AjaxPoints \cup DonePoints
         /\ reqs \in [Requests -> RequestType]
         /\ reqs[stack[1].r] \in RequestType /\ RequestOK(reqs[stack[1].r]) /\ reqs[stack[1].r].opened
         /\ FrameOK(stack[1], reqs[stack[1].r])
         /\ StackOK(Tail(stack), reqs) /\ AllCalling(Tail(stack), reqs) /\ NoClash(stack[1], Tail(stack), reqs)
         /\ Tail(stack) \in Seq(FrameType)
         /\ \A p \in Requests :
              InDone(stack, p) <=> (stack[1].r = p /\ stack[1].at \in CountedPoints) \/ InDone(Tail(stack), p)
<1>1. StackOK(stack, reqs) /\ stack \in Seq(FrameType)
  BY DEF AInv, StackOK
<1>2. /\ StackOK(Tail(stack), reqs) /\ AllCalling(Tail(stack), reqs) /\ NoClash(stack[1], Tail(stack), reqs)
      /\ stack[1] \in FrameType /\ FrameOK(stack[1], reqs[stack[1].r])
  BY <1>1, PopStack
<1>3. stack[1].r \in Requests /\ stack[1].at \in AjaxPoints \cup DonePoints
  BY <1>2 DEF FrameType
<1>4. reqs \in [Requests -> RequestType] /\ RequestOK(reqs[stack[1].r])
  BY <1>3 DEF AInv
<1>5. reqs[stack[1].r] \in RequestType /\ reqs[stack[1].r].opened
  BY <1>2, <1>3, <1>4 DEF FrameOK
<1>6. Tail(stack) \in Seq(FrameType)
  BY <1>2 DEF StackOK
<1> QED
  BY <1>1, <1>2, <1>3, <1>4, <1>5, <1>6, InDoneTail

(* ajax, or done, goes on at another point. *)
LEMMA GoStack ==
  ASSUME AInv, stack # <<>>, NEW r, r = stack[1].r, NEW at \in AjaxPoints \cup DonePoints,
         at \in AjaxPoints <=> stack[1].at \in AjaxPoints,
         NEW new \in RequestType, new.options = reqs[r].options, reqs[r].unnoticed => new.unnoticed,
         FrameOK([r |-> r, at |-> at], new),
         \A i \in DOMAIN Tail(stack) : Tail(stack)[i].r = r => FrameOK(Tail(stack)[i], new)
  PROVE  /\ StackOK(Frame(r, at) \o Tail(stack), [reqs EXCEPT ![r] = new])
         /\ \A p \in Requests : InDone(Frame(r, at) \o Tail(stack), p)
                                <=> (p = r /\ at \in CountedPoints) \/ InDone(Tail(stack), p)
<1> DEFINE f == [r |-> r, at |-> at]
           t == Tail(stack)
           ps == [reqs EXCEPT ![r] = new]
<1>1. r \in Requests /\ Frame(r, at) = <<f>> /\ f \in FrameType /\ f.r = r /\ f.at = at
  BY TopFacts DEF Frame, FrameType
<1>2. StackOK(t, reqs) /\ AllCalling(t, reqs) /\ NoClash(stack[1], t, reqs) /\ t \in Seq(FrameType)
  BY TopFacts
<1>3. NoClash(f, t, reqs)
  <2> SUFFICES ASSUME NEW i \in DOMAIN t, t[i].r = r PROVE ~Clash(f, t[i], reqs[r])
    BY <1>1 DEF NoClash
  <2>1. ~Clash(stack[1], t[i], reqs[r])
    BY <1>2 DEF NoClash
  <2>2. f.at \in DonePoints <=> stack[1].at \in DonePoints
    BY <1>1, TopFacts DEF AjaxPoints, DonePoints
  <2> QED
    BY <1>1, <2>1, <2>2 DEF Clash
<1>4. StackOK(t, ps) /\ AllCalling(t, ps) /\ NoClash(f, t, ps)
  BY <1>1, <1>2, <1>3, TopFacts, UpdateStack
<1>5. ps[r] = new
  BY <1>1, TopFacts
<1> HIDE DEF f, ps, t
<1>6. StackOK(<<f>> \o t, ps)
  BY <1>1, <1>4, <1>5, PushStack DEF f
<1>7. \A p \in Requests : InDone(<<f>> \o t, p) <=> (f.r = p /\ f.at \in CountedPoints) \/ InDone(t, p)
  BY <1>1, <1>2, InDoneCons
<1> QED
  BY <1>1, <1>6, <1>7 DEF ps, t

(* A step in done that neither counts down nor returns, or ajax after      *)
(* ajaxStart.                                                              *)
LEMMA GoesOnStep ==
  ASSUME AInv, stack # <<>>, NEW at \in AjaxPoints \cup DonePoints, Go(at), UNCHANGED <<reqs, active, lit, threw>>,
         at \in AjaxPoints <=> stack[1].at \in AjaxPoints,
         at \in CountedPoints <=> stack[1].at \in CountedPoints,
         FrameOK([r |-> stack[1].r, at |-> at], reqs[stack[1].r])
  PROVE  AInv'
<1> DEFINE r == stack[1].r
<1>1. r \in Requests /\ reqs[r] \in RequestType /\ reqs \in [Requests -> RequestType]
  BY TopFacts
<1>2. [reqs EXCEPT ![r] = reqs[r]] = reqs
  BY <1>1
<1>3. \A i \in DOMAIN Tail(stack) : Tail(stack)[i].r = r => FrameOK(Tail(stack)[i], reqs[r])
  BY TopFacts DEF StackOK
<1>4. /\ StackOK(Frame(r, at) \o Tail(stack), reqs)
      /\ \A p \in Requests : InDone(Frame(r, at) \o Tail(stack), p)
                             <=> (p = r /\ at \in CountedPoints) \/ InDone(Tail(stack), p)
  BY <1>1, <1>2, <1>3, GoStack, SMT
<1>5. stack' = Frame(r, at) \o Tail(stack)
  BY DEF Go
<1> HIDE DEF r
<1>6. \A p \in Requests : InDone(stack', p) <=> InDone(stack, p)
  BY <1>4, <1>5, TopFacts DEF r
<1>7. Counted(stack', reqs) = Counted(stack, reqs)
  BY <1>6 DEF Counted
<1> QED
  BY <1>4, <1>5, <1>7, SameStep

(* A call returns that does not count. *)
LEMMA ReturnsStep ==
  ASSUME AInv, stack # <<>>, Returns, UNCHANGED <<reqs, active, lit, threw>>,
         stack[1].at \in CountedPoints => ~reqs[stack[1].r].fireGlobals
  PROVE  AInv'
<1>1. stack' = Tail(stack) /\ StackOK(Tail(stack), reqs)
  BY TopFacts DEF Returns
<1>2. \A p \in Requests : reqs[p].fireGlobals => (InDone(stack', p) <=> InDone(stack, p))
  BY <1>1, TopFacts
<1>3. Counted(stack', reqs) = Counted(stack, reqs)
  BY <1>2 DEF Counted
<1> QED
  BY <1>1, <1>3, SameStep

(* The steps of ajax and done between the callbacks that change no more    *)
(* than where they are.                                                    *)
LEMMA PassingSteps ==
  ASSUME AInv, AfterStart \/ AfterSettle \/ AfterOutcome \/ AfterComplete \/ AfterStop
  PROVE  AInv'
<1> DEFINE q == reqs[stack[1].r]
<1>1. CASE AfterStart
  <2>1. Top("ajaxStart") /\ Go("beforeSend") /\ UNCHANGED <<reqs, active, lit, threw>>
    BY <1>1 DEF AfterStart
  <2>2. stack # <<>> /\ stack[1].at = "ajaxStart"
    BY <2>1 DEF Top
  <2>3. FrameOK([r |-> stack[1].r, at |-> "beforeSend"], q)
    BY <2>2, TopFacts DEF FrameOK, DonePoints
  <2>4. "beforeSend" \in AjaxPoints /\ "ajaxStart" \in AjaxPoints
        /\ "beforeSend" \notin CountedPoints /\ "ajaxStart" \notin CountedPoints
    BY DEF AjaxPoints, CountedPoints
  <2> QED
    BY <2>1, <2>2, <2>3, <2>4, GoesOnStep
<1>2. CASE AfterSettle
  <2>1. /\ Top("settle") /\ Go(IF q.fireGlobals THEN "outcome" ELSE "complete")
        /\ UNCHANGED <<reqs, active, lit, threw>>
    BY <1>2 DEF AfterSettle
  <2>2. stack # <<>> /\ stack[1].at = "settle"
    BY <2>1 DEF Top
  <2>3. FrameOK([r |-> stack[1].r, at |-> "outcome"], q) /\ FrameOK([r |-> stack[1].r, at |-> "complete"], q)
    BY <2>2, TopFacts DEF FrameOK, DonePoints
  <2>4. /\ {"settle", "outcome", "complete"} \cap AjaxPoints = {}
        /\ {"settle", "outcome", "complete"} \subseteq CountedPoints
        /\ {"settle", "outcome", "complete"} \subseteq AjaxPoints \cup DonePoints
    BY DEF AjaxPoints, CountedPoints, DonePoints
  <2> DEFINE at == IF q.fireGlobals THEN "outcome" ELSE "complete"
  <2>5. at \in {"settle", "outcome", "complete"} /\ FrameOK([r |-> stack[1].r, at |-> at], q)
    BY <2>3
  <2> HIDE DEF at
  <2>6. Go(at)
    BY <2>1 DEF at
  <2> QED
    BY <2>1, <2>2, <2>4, <2>5, <2>6, GoesOnStep
<1>3. CASE AfterOutcome
  <2>1. Top("outcome") /\ Go("complete") /\ UNCHANGED <<reqs, active, lit, threw>>
    BY <1>3 DEF AfterOutcome
  <2>2. stack # <<>> /\ stack[1].at = "outcome"
    BY <2>1 DEF Top
  <2>3. FrameOK([r |-> stack[1].r, at |-> "complete"], q)
    BY <2>2, TopFacts DEF FrameOK, DonePoints
  <2>4. /\ {"outcome", "complete"} \cap AjaxPoints = {}
        /\ {"outcome", "complete"} \subseteq CountedPoints
        /\ {"outcome", "complete"} \subseteq AjaxPoints \cup DonePoints
    BY DEF AjaxPoints, CountedPoints, DonePoints
  <2> QED
    BY <2>1, <2>2, <2>3, <2>4, GoesOnStep
<1>4. CASE AfterComplete
  <2>1. /\ Top("complete") /\ IF q.fireGlobals THEN Go("ajaxComplete") ELSE Returns
        /\ UNCHANGED <<reqs, active, lit, threw>>
    BY <1>4 DEF AfterComplete
  <2>2. stack # <<>> /\ stack[1].at = "complete"
    BY <2>1 DEF Top
  <2>3. CASE q.fireGlobals
    <3>1. FrameOK([r |-> stack[1].r, at |-> "ajaxComplete"], q)
      BY <2>2, <2>3, TopFacts DEF FrameOK, DonePoints
    <3>2. /\ {"ajaxComplete", "complete"} \cap AjaxPoints = {}
          /\ {"ajaxComplete", "complete"} \subseteq CountedPoints
          /\ {"ajaxComplete", "complete"} \subseteq AjaxPoints \cup DonePoints
      BY DEF AjaxPoints, CountedPoints, DonePoints
    <3> QED
      BY <2>1, <2>2, <2>3, <3>1, <3>2, GoesOnStep
  <2>4. CASE ~q.fireGlobals
    BY <2>1, <2>2, <2>4, ReturnsStep
  <2> QED
    BY <2>3, <2>4
<1>5. CASE AfterStop
  <2>1. Top("ajaxStop") /\ Returns /\ UNCHANGED <<reqs, active, lit, threw>>
    BY <1>5 DEF AfterStop
  <2>2. stack # <<>> /\ stack[1].at \notin CountedPoints
    BY <2>1 DEF Top, CountedPoints
  <2> QED
    BY <2>1, <2>2, ReturnsStep
<1> QED
  BY <1>1, <1>2, <1>3, <1>4, <1>5

LEMMA CountedFinite ==
  ASSUME NEW s, NEW qs
  PROVE  IsFiniteSet(Counted(s, qs)) /\ Cardinality(Counted(s, qs)) \in Nat
<1>1. Counted(s, qs) \in SUBSET Requests
  BY DEF Counted
<1> QED
  BY <1>1, AjaxAssumption, FS_Subset, FS_CardinalityType

(* "Handle the global AJAX counter": the request was counted, and no other *)
(* call of done is under way for it.                                       *)
LEMMA CountDown ==
  ASSUME AInv, AfterAjaxComplete
  PROVE  AInv'
<1> DEFINE r == stack[1].r
           q == reqs[r]
<1>1. /\ stack # <<>> /\ stack[1].at = "ajaxComplete"
      /\ active' = active - 1
      /\ lit' = (lit /\ active # 1)
      /\ IF active = 1 THEN Go("ajaxStop") ELSE Returns
      /\ UNCHANGED <<reqs, threw>>
  BY DEF AfterAjaxComplete, Top
<1>2. r \in Requests /\ q \in RequestType /\ FrameOK(stack[1], q) /\ reqs \in [Requests -> RequestType]
  BY <1>1, TopFacts
<1>3. q.fireGlobals /\ (~q.unnoticed => q.state = 2)
  BY <1>1, <1>2 DEF FrameOK, DonePoints
<1>4. "ajaxComplete" \in CountedPoints /\ "ajaxStop" \notin CountedPoints
      /\ "ajaxComplete" \in DonePoints /\ "ajaxStop" \in DonePoints /\ CountedPoints \subseteq DonePoints
      /\ "ajaxComplete" \notin AjaxPoints /\ "ajaxStop" \notin AjaxPoints
  BY DEF CountedPoints, DonePoints, AjaxPoints
<1>5. ~q.unnoticed => ~InDone(Tail(stack), r)
  <2> SUFFICES ASSUME ~q.unnoticed, NEW i \in DOMAIN Tail(stack), Tail(stack)[i].r = r,
                      Tail(stack)[i].at \in CountedPoints
               PROVE  FALSE
    BY DEF InDone
  <2>1. ~Clash(stack[1], Tail(stack)[i], q)
    BY <1>1, TopFacts DEF NoClash
  <2> QED
    BY <1>1, <1>4, <2>1 DEF Clash
<1>6. StackOK(stack', reqs) /\ \A p \in Requests : InDone(stack', p) <=> InDone(Tail(stack), p)
  <2>1. CASE active = 1
    <3>1. stack' = Frame(r, "ajaxStop") \o Tail(stack)
      BY <1>1, <2>1 DEF Go
    <3>2. [reqs EXCEPT ![r] = q] = reqs
      BY <1>2
    <3>3. \A i \in DOMAIN Tail(stack) : Tail(stack)[i].r = r => FrameOK(Tail(stack)[i], q)
      BY <1>1, TopFacts DEF StackOK
    <3>4. FrameOK([r |-> r, at |-> "ajaxStop"], q)
      BY <1>1, <1>2, <1>3 DEF FrameOK
    <3>5. /\ StackOK(Frame(r, "ajaxStop") \o Tail(stack), reqs)
          /\ \A p \in Requests : InDone(Frame(r, "ajaxStop") \o Tail(stack), p)
                                 <=> (p = r /\ "ajaxStop" \in CountedPoints) \/ InDone(Tail(stack), p)
      BY <1>1, <1>2, <1>4, <3>2, <3>3, <3>4, GoStack, SMT
    <3> QED
      BY <1>4, <3>1, <3>5
  <2>2. CASE active # 1
    BY <1>1, <2>2, TopFacts DEF Returns
  <2> QED
    BY <2>1, <2>2
<1>7. Regular' <=> Regular
  BY <1>1 DEF Regular
<1> HIDE DEF q
<1>8. ASSUME Regular PROVE active' = Cardinality(Counted(stack', reqs')) /\ (lit' <=> active' > 0)
  <2>1. ~q.unnoticed
    BY <1>2, <1>8 DEF Regular, q
  <2>2. r \in Counted(stack, reqs)
    BY <1>1, <1>2, <1>3, <1>4, TopFacts DEF Counted, q
  <2>3. Counted(stack', reqs') = Counted(stack, reqs) \ {r}
    <3>1. \A p \in Requests : p # r => (InDone(stack', p) <=> InDone(stack, p))
      BY <1>1, <1>6, TopFacts
    <3>2. ~InDone(stack', r) /\ reqs[r].state = 2
      BY <1>2, <1>3, <1>5, <1>6, <2>1 DEF q
    <3> QED
      BY <1>1, <3>1, <3>2 DEF Counted
  <2>4. Cardinality(Counted(stack', reqs')) = Cardinality(Counted(stack, reqs)) - 1
    BY <2>2, <2>3, CountedFinite, FS_RemoveElement
  <2>5. active = Cardinality(Counted(stack, reqs)) /\ (lit <=> active > 0) /\ active \in Nat /\ active # 0
    <3>1. Counted(stack, reqs) # {}
      BY <2>2
    <3>2. Cardinality(Counted(stack, reqs)) # 0
      BY <3>1, CountedFinite, FS_EmptySet
    <3> QED
      BY <1>8, <3>2, CountedFinite DEF AInv
  <2>6. active' = Cardinality(Counted(stack', reqs'))
    BY <1>1, <2>4, <2>5
  <2>7. active' > 0 <=> active # 1
    BY <1>1, <2>5, SMT
  <2>8. lit
    BY <2>5, SMT
  <2>9. lit' <=> active # 1
    BY <1>1, <2>8
  <2> QED
    BY <2>6, <2>7, <2>9
<1>9. active' \in Int
  BY <1>1, SMT DEF AInv
<1>10. lit' \in BOOLEAN /\ threw' \in BOOLEAN
  BY <1>1 DEF AInv
<1>11. reqs' = reqs
  BY <1>1
<1> QED
  BY <1>6, <1>7, <1>8, <1>9, <1>10, <1>11 DEF AInv

(* Where code of the user runs, all calls under way are in callbacks. *)
LEMMA UserCalls ==
  ASSUME AInv, UserCode
  PROVE  AllCalling(stack, reqs)
<1>1. stack \in Seq(FrameType) /\ \A i \in DOMAIN stack : i > 1 => Calling(stack[i], reqs[stack[i].r])
  BY DEF AInv, StackOK
<1> SUFFICES ASSUME NEW i \in DOMAIN stack PROVE Calling(stack[i], reqs[stack[i].r])
  BY DEF AllCalling
<1>2. i = 1 \/ i > 1
  BY <1>1, SMT
<1>3. stack # <<>>
  BY <1>1, SMT
<1>4. Calling(stack[1], reqs[stack[1].r])
  BY <1>3 DEF UserCode, InCallback, Calling
<1> QED
  BY <1>1, <1>2, <1>4

LEMMA AjaxStep ==
  ASSUME AInv, NEW r \in Requests, ajax(r)
  PROVE  AInv'
<1> DEFINE new == [reqs[r] EXCEPT !.opened = TRUE]
           f == [r |-> r, at |-> "prefilter"]
<1>1. /\ UserCode /\ ~reqs[r].opened
      /\ reqs' = [reqs EXCEPT ![r] = new]
      /\ stack' = <<f>> \o stack
      /\ UNCHANGED <<active, lit, threw>>
  BY DEF ajax, Set, Frame
<1>2. reqs \in [Requests -> RequestType] /\ reqs[r] \in RequestType /\ RequestOK(reqs[r]) /\ StackOK(stack, reqs)
  BY DEF AInv
<1>3. /\ new \in RequestType /\ new.opened /\ new.options = reqs[r].options /\ new.unnoticed = reqs[r].unnoticed
      /\ new.state = reqs[r].state /\ new.fireGlobals = reqs[r].fireGlobals /\ new.transport = reqs[r].transport
      /\ new.timeoutTimer = reqs[r].timeoutTimer /\ new.dones = reqs[r].dones
  BY <1>2 DEF RequestType
<1> HIDE DEF new
<1>4. RequestOK(new) /\ ~new.fireGlobals
  BY <1>1, <1>2, <1>3 DEF RequestOK
<1>5. f \in FrameType /\ f.r = r /\ f.at = "prefilter"
  BY DEF FrameType, AjaxPoints
<1> HIDE DEF f
<1>6. stack \in Seq(FrameType) /\ \A i \in DOMAIN stack : stack[i].r # r
  BY <1>1, <1>2 DEF StackOK, FrameOK
<1>7. NoClash(f, stack, reqs)
  BY <1>5, <1>6 DEF NoClash
<1>8. StackOK(stack, reqs') /\ AllCalling(stack, reqs') /\ NoClash(f, stack, reqs')
  BY <1>1, <1>2, <1>3, <1>5, <1>6, <1>7, UserCalls, UpdateStack
<1>9. reqs'[r] = new /\ \A p \in Requests : p # r => reqs'[p] = reqs[p]
  BY <1>1, <1>2
<1>10. FrameOK(f, reqs'[f.r])
  BY <1>3, <1>4, <1>5, <1>9 DEF FrameOK, DonePoints
<1>11. StackOK(stack', reqs')
  BY <1>1, <1>5, <1>8, <1>10, PushStack
<1>12. Counted(stack', reqs') = Counted(stack, reqs)
  <2>1. \A p \in Requests : InDone(stack', p) <=> InDone(stack, p)
    BY <1>1, <1>5, <1>6, InDoneCons DEF CountedPoints
  <2>2. \A p \in Requests : reqs'[p].fireGlobals = reqs[p].fireGlobals /\ reqs'[p].state = reqs[p].state
    BY <1>3, <1>9
  <2> QED
    BY <2>1, <2>2 DEF Counted
<1> QED
  BY <1>1, <1>3, <1>4, <1>11, <1>12, KeepStep

(* No other call of ajax is under way for the request of the innermost.    *)
LEMMA OnlyDoneBelow ==
  ASSUME AInv, stack # <<>>, stack[1].at \in AjaxPoints
  PROVE  \A i \in DOMAIN Tail(stack) : Tail(stack)[i].r = stack[1].r =>
           /\ Tail(stack)[i].at \in DonePoints
           /\ FrameOK(Tail(stack)[i], reqs[stack[1].r])
<1> SUFFICES ASSUME NEW i \in DOMAIN Tail(stack), Tail(stack)[i].r = stack[1].r
             PROVE  Tail(stack)[i].at \in DonePoints /\ FrameOK(Tail(stack)[i], reqs[stack[1].r])
  OBVIOUS
<1>1. Tail(stack) \in Seq(FrameType) /\ StackOK(Tail(stack), reqs) /\ NoClash(stack[1], Tail(stack), reqs)
  BY TopFacts
<1>2. Tail(stack)[i] \in FrameType
  BY <1>1, SMT
<1>3. Tail(stack)[i].at \in AjaxPoints \cup DonePoints
  BY <1>2 DEF FrameType
<1>4. Tail(stack)[i].at \notin AjaxPoints
  BY <1>1 DEF NoClash, Clash
<1> QED
  BY <1>1, <1>3, <1>4 DEF StackOK

LEMMA TransportStep ==
  ASSUME AInv, TransportFound
  PROVE  AInv'
<1> DEFINE r == stack[1].r
           q == reqs[r]
           new == [q EXCEPT !.transport = "made"]
           at == IF q.fireGlobals THEN "ajaxSend" ELSE "send"
<1>1. /\ stack # <<>> /\ stack[1].at = "beforeSend" /\ GoesOn(q)
      /\ reqs' = [reqs EXCEPT ![r] = new]
      /\ stack' = Frame(r, at) \o Tail(stack)
      /\ UNCHANGED <<active, lit, threw>>
  BY DEF TransportFound, Top, Set, Go
<1>2. /\ r \in Requests /\ q \in RequestType /\ RequestOK(q) /\ FrameOK(stack[1], q)
      /\ reqs \in [Requests -> RequestType]
  BY <1>1, TopFacts
<1>3. /\ new \in RequestType /\ new.opened = q.opened /\ new.options = q.options /\ new.unnoticed = q.unnoticed
      /\ new.state = q.state /\ new.fireGlobals = q.fireGlobals /\ new.transport = "made"
      /\ new.timeoutTimer = q.timeoutTimer /\ new.dones = q.dones
  BY <1>2 DEF RequestType
<1> HIDE DEF new, q
<1>4. RequestOK(new)
  BY <1>2, <1>3 DEF RequestOK
<1>5. at \in {"ajaxSend", "send"}
  OBVIOUS
<1> HIDE DEF at
<1>6. ~q.unnoticed => q.state # 2
  BY <1>1, <1>2 DEF FrameOK, GoesOn
<1>7. FrameOK([r |-> r, at |-> at], new)
  BY <1>2, <1>3, <1>5, <1>6 DEF FrameOK, DonePoints
<1>8. "beforeSend" \in AjaxPoints /\ "beforeSend" \notin CountedPoints
      /\ at \in AjaxPoints /\ at \notin CountedPoints
  BY <1>5 DEF AjaxPoints, CountedPoints
<1>9. \A i \in DOMAIN Tail(stack) : Tail(stack)[i].r = r => FrameOK(Tail(stack)[i], new)
  <2>1. \A i \in DOMAIN Tail(stack) : Tail(stack)[i].r = r => FrameOK(Tail(stack)[i], q)
    BY <1>1, <1>8, OnlyDoneBelow DEF q
  <2> QED
    BY <1>3, <2>1 DEF FrameOK
<1>10. /\ StackOK(stack', reqs')
       /\ \A p \in Requests : InDone(stack', p) <=> (p = r /\ at \in CountedPoints) \/ InDone(Tail(stack), p)
  BY <1>1, <1>2, <1>3, <1>7, <1>8, <1>9, GoStack DEF q
<1>11. Counted(stack', reqs') = Counted(stack, reqs)
  <2>1. \A p \in Requests : InDone(stack', p) <=> InDone(stack, p)
    BY <1>1, <1>8, <1>10, TopFacts
  <2>2. \A p \in Requests : reqs'[p].fireGlobals = reqs[p].fireGlobals /\ reqs'[p].state = reqs[p].state
    BY <1>1, <1>2, <1>3 DEF q
  <2> QED
    BY <2>1, <2>2 DEF Counted
<1> QED
  BY <1>1, <1>2, <1>3, <1>4, <1>10, <1>11, KeepStep DEF q

(* done is called with the calls t below it. *)
LEMMA DoneCalled ==
  ASSUME NEW qs \in [Requests -> RequestType], NEW r \in Requests, NEW t, StackOK(t, qs), AllCalling(t, qs),
         RequestOK(qs[r]), qs[r].opened, NoticedBelow(t, qs[r], r),
         NEW result \in {"success", "error"}, NEW new, new = done(qs[r], result)
  PROVE  /\ StackOK(doneFrames(qs[r], new, r) \o t, Changed(qs, r, new))
         /\ Counted(doneFrames(qs[r], new, r) \o t, Changed(qs, r, new)) = Counted(t, qs)
<1>1. qs[r] \in RequestType /\ t \in Seq(FrameType)
  BY DEF StackOK
<1>2. /\ new \in RequestType /\ new.state = 2 /\ new.opened /\ new.options = qs[r].options
      /\ new.fireGlobals = qs[r].fireGlobals /\ new.unnoticed = qs[r].unnoticed
      /\ qs[r].state = 2 => new = qs[r]
      /\ qs[r].state # 2 => new.dones = qs[r].dones + 1
  BY <1>1, DoneFacts, SMT
<1>3. CASE qs[r].state = 2
  <2>1. doneFrames(qs[r], new, r) = <<>> /\ Changed(qs, r, new) = qs
    BY <1>2, <1>3 DEF doneFrames, Changed
  <2>2. <<>> \o t = t
    BY <1>1, SMT
  <2> QED
    BY <2>1, <2>2
<1>4. CASE qs[r].state # 2
  <2>1. new.dones # qs[r].dones
    <3>1. qs[r].dones \in Nat
      BY <1>1 DEF RequestType
    <3> QED
      BY <1>2, <1>4, <3>1, SMT
  <2>2. doneFrames(qs[r], new, r) = Frame(r, "settle")
    BY <2>1 DEF doneFrames
  <2>3. NoticedBelow(t, new, r)
    BY <1>2 DEF NoticedBelow
  <2>4. /\ StackOK(Frame(r, "settle") \o t, Changed(qs, r, new))
        /\ Counted(Frame(r, "settle") \o t, Changed(qs, r, new)) = Counted(t, qs)
    BY <1>2, <1>4, <2>3, Settling
  <2> QED
    BY <2>2, <2>4
<1> QED
  BY <1>3, <1>4

(* Below a call of ajax there are only calls of done for its request. *)
LEMMA NoticedByCaller ==
  ASSUME AInv, stack # <<>>, stack[1].at \in AjaxPoints, NEW q
  PROVE  NoticedBelow(Tail(stack), q, stack[1].r)
<1>1. \A i \in DOMAIN Tail(stack) : Tail(stack)[i].r = stack[1].r => Tail(stack)[i].at \in DonePoints
  BY OnlyDoneBelow
<1> QED
  BY <1>1 DEF NoticedBelow, DonePoints

(* ajax calls done before it has sent the request. *)
LEMMA NotSentStep ==
  ASSUME AInv, Canceled \/ NoTransport
  PROVE  AInv'
<1> DEFINE r == stack[1].r
           q == reqs[r]
           new == done(q, "error")
<1>1. /\ stack # <<>> /\ stack[1].at = "beforeSend"
      /\ reqs' = [reqs EXCEPT ![r] = new]
      /\ stack' = doneFrames(q, new, r) \o Tail(stack)
      /\ UNCHANGED <<active, lit, threw>>
  BY DEF Canceled, NoTransport, Top, Set
<1>2. /\ r \in Requests /\ q \in RequestType /\ RequestOK(q) /\ q.opened
      /\ reqs \in [Requests -> RequestType] /\ StackOK(Tail(stack), reqs) /\ AllCalling(Tail(stack), reqs)
  BY <1>1, TopFacts
<1>3. new \in RequestType /\ RequestOK(new) /\ new.unnoticed = q.unnoticed
  BY <1>2, DoneFacts
<1>4. NoticedBelow(Tail(stack), q, r)
  <2>1. stack[1].at \in AjaxPoints
    BY <1>1 DEF AjaxPoints
  <2> QED
    BY <1>1, <2>1, NoticedByCaller
<1>5. new = done(q, "error") /\ "error" \in {"success", "error"}
  OBVIOUS
<1>6. Counted(Tail(stack), reqs) = Counted(stack, reqs)
  <2>1. \A p \in Requests : InDone(stack, p) <=> InDone(Tail(stack), p)
    BY <1>1, TopFacts DEF CountedPoints
  <2> QED
    BY <2>1 DEF Counted
<1> HIDE DEF new, r
<1>7. StackOK(stack', reqs') /\ Counted(stack', reqs') = Counted(Tail(stack), reqs)
  <2>1. /\ StackOK(doneFrames(q, new, r) \o Tail(stack), Changed(reqs, r, new))
        /\ Counted(doneFrames(q, new, r) \o Tail(stack), Changed(reqs, r, new)) = Counted(Tail(stack), reqs)
    BY <1>2, <1>4, <1>5, DoneCalled, SMT
  <2>2. reqs' = Changed(reqs, r, new)
    BY <1>1 DEF Changed
  <2> QED
    BY <1>1, <2>1, <2>2
<1> QED
  BY <1>1, <1>2, <1>3, <1>6, <1>7, KeepStep

(* The request that Send hands to the transport. *)
ReadyOf(q) == [q EXCEPT !.state = 1, !.timeoutTimer = (q.options.async /\ q.options.timeout)]

LEMMA ReadyFacts ==
  ASSUME NEW q \in RequestType, RequestOK(q), q.opened, ~q.unnoticed => q.state # 2
  PROVE  /\ ReadyOf(q) \in RequestType /\ RequestOK(ReadyOf(q)) /\ ReadyOf(q).opened /\ ReadyOf(q).state = 1
         /\ ReadyOf(q).options = q.options /\ ReadyOf(q).fireGlobals = q.fireGlobals
         /\ ReadyOf(q).unnoticed = q.unnoticed
<1> DEFINE ready == ReadyOf(q)
           a == [q EXCEPT !.state = 1]
           timer == (q.options.async /\ q.options.timeout)
<1>1. /\ a \in RequestType /\ a.state = 1 /\ a.opened = q.opened /\ a.options = q.options
      /\ a.fireGlobals = q.fireGlobals /\ a.unnoticed = q.unnoticed /\ a.dones = q.dones
  BY DEF RequestType
<1>2. ready = [a EXCEPT !.timeoutTimer = timer]
  BY DEF ReadyOf
<1> HIDE DEF a
<1>3. timer \in BOOLEAN
  OBVIOUS
<1> HIDE DEF timer
<1>4. /\ ready \in RequestType /\ ready.state = 1 /\ ready.opened = q.opened /\ ready.options = q.options
      /\ ready.fireGlobals = q.fireGlobals /\ ready.unnoticed = q.unnoticed /\ ready.dones = q.dones
  BY <1>1, <1>2, <1>3 DEF RequestType
<1>5. RequestOK(ready)
  BY <1>4, SMT DEF RequestOK
<1> QED
  BY <1>4, <1>5

(* What transport.send may do to the request: it is under way, or done. *)
LEMMA SendOutcomes ==
  ASSUME NEW q, NEW new \in transportSend(q)
  PROVE  \/ new = [q EXCEPT !.transport = "sent"]
         \/ \E result \in {"success", "error"} : new = done(q, result)
BY DEF transportSend

LEMMA SendStep ==
  ASSUME AInv, Send
  PROVE  AInv'
<1> DEFINE r == stack[1].r
           q == reqs[r]
           ready == ReadyOf(q)
<1>1. PICK new \in transportSend(ready) :
        reqs' = [reqs EXCEPT ![r] = new] /\ stack' = doneFrames(ready, new, r) \o Tail(stack)
  BY DEF Send, Set, ReadyOf
<1>2. /\ stack # <<>> /\ stack[1].at \in {"ajaxSend", "send"}
      /\ UNCHANGED <<active, lit, threw>>
  BY DEF Send, Top
<1>3. /\ r \in Requests /\ q \in RequestType /\ RequestOK(q) /\ q.opened /\ FrameOK(stack[1], q)
      /\ reqs \in [Requests -> RequestType] /\ StackOK(Tail(stack), reqs) /\ AllCalling(Tail(stack), reqs)
      /\ Tail(stack) \in Seq(FrameType)
  BY <1>2, TopFacts
<1>4. ~q.unnoticed => q.state # 2
  BY <1>2, <1>3 DEF FrameOK
<1>5. /\ ready \in RequestType /\ RequestOK(ready) /\ ready.opened /\ ready.state = 1
      /\ ready.options = q.options /\ ready.fireGlobals = q.fireGlobals /\ ready.unnoticed = q.unnoticed
  BY <1>3, <1>4, ReadyFacts
<1>6. stack[1].at \in AjaxPoints /\ stack[1].at \notin CountedPoints
  BY <1>2 DEF AjaxPoints, CountedPoints
<1> HIDE DEF ready
<1>7. \A i \in DOMAIN Tail(stack) : Tail(stack)[i].r = r =>
        Tail(stack)[i].at \in DonePoints /\ FrameOK(Tail(stack)[i], q)
  BY <1>2, <1>6, OnlyDoneBelow
<1>8. NoticedBelow(Tail(stack), ready, r)
  BY <1>2, <1>6, NoticedByCaller
<1>9. \A i \in DOMAIN Tail(stack) : Tail(stack)[i].r = r => FrameOK(Tail(stack)[i], ready)
  BY <1>4, <1>5, <1>7 DEF FrameOK, DonePoints
<1> DEFINE mid == Changed(reqs, r, ready)
<1>10. /\ mid \in [Requests -> RequestType] /\ mid[r] = ready
       /\ \A p \in Requests : p # r => mid[p] = reqs[p]
  BY <1>3, <1>5 DEF Changed
<1>11. StackOK(Tail(stack), mid) /\ AllCalling(Tail(stack), mid)
  BY <1>3, <1>5, <1>9, UpdateStack DEF Changed
<1>12. \A p \in Requests : InDone(stack, p) <=> InDone(Tail(stack), p)
  BY <1>2, <1>6, TopFacts
<1>13. q.state # 2 => Counted(Tail(stack), mid) = Counted(stack, reqs)
  <2>1. \A p \in Requests : /\ mid[p].fireGlobals = reqs[p].fireGlobals
                            /\ p # r => mid[p].state = reqs[p].state
    BY <1>5, <1>10
  <2>2. mid[r].state # 2
    BY <1>5, <1>10, SMT
  <2> HIDE DEF mid
  <2> QED
    BY <1>3, <1>12, <2>1, <2>2 DEF Counted
<1>14. ASSUME new.unnoticed = q.unnoticed, Regular' PROVE q.state # 2
  <2>1. reqs'[r] = new
    BY <1>1, <1>3
  <2>2. ~q.unnoticed
    BY <1>3, <1>14, <2>1 DEF Regular
  <2> QED
    BY <1>4, <2>2
<1>15. Changed(mid, r, new) = reqs'
  BY <1>1, <1>3 DEF Changed
<1> HIDE DEF mid
<1>16. CASE new = [ready EXCEPT !.transport = "sent"]
  <2>1. /\ new \in RequestType /\ new.state = 1 /\ new.opened /\ new.dones = ready.dones
        /\ new.options = q.options /\ new.fireGlobals = q.fireGlobals /\ new.unnoticed = q.unnoticed
        /\ new.timeoutTimer = ready.timeoutTimer
    BY <1>5, <1>16 DEF RequestType
  <2>2. RequestOK(new)
    BY <1>5, <2>1 DEF RequestOK
  <2>3. \A i \in DOMAIN Tail(stack) : Tail(stack)[i].r = r => FrameOK(Tail(stack)[i], new)
    BY <1>4, <1>7, <2>1 DEF FrameOK, DonePoints
  <2>4. StackOK(Tail(stack), reqs')
    BY <1>1, <1>3, <2>1, <2>3, UpdateStack
  <2>5. stack' = Tail(stack)
    <3>1. doneFrames(ready, new, r) = <<>>
      BY <2>1 DEF doneFrames
    <3> QED
      BY <1>1, <1>3, <3>1, SMT
  <2>6. reqs'[r] = new /\ \A p \in Requests : p # r => reqs'[p] = reqs[p]
    BY <1>1, <1>3
  <2>7. Regular' => Counted(stack', reqs') = Counted(stack, reqs)
    BY <1>12, <1>14, <2>1, <2>5, <2>6, SMT DEF Counted
  <2> QED
    BY <1>1, <1>2, <1>3, <2>1, <2>2, <2>4, <2>5, <2>7, KeepStep
<1>17. ASSUME NEW result \in {"success", "error"}, new = done(ready, result) PROVE AInv'
  <2>1. new \in RequestType /\ RequestOK(new) /\ new.unnoticed = q.unnoticed
    BY <1>5, <1>17, DoneFacts, SMT
  <2>2. /\ StackOK(doneFrames(mid[r], new, r) \o Tail(stack), Changed(mid, r, new))
        /\ Counted(doneFrames(mid[r], new, r) \o Tail(stack), Changed(mid, r, new)) = Counted(Tail(stack), mid)
    <3>1. RequestOK(mid[r]) /\ mid[r].opened /\ NoticedBelow(Tail(stack), mid[r], r) /\ new = done(mid[r], result)
      BY <1>5, <1>8, <1>10, <1>17
    <3> QED
      BY <1>3, <1>10, <1>11, <3>1, DoneCalled, SMT
  <2>3. StackOK(stack', reqs') /\ Counted(stack', reqs') = Counted(Tail(stack), mid)
    BY <1>1, <1>10, <1>15, <2>2
  <2>4. Regular' => Counted(stack', reqs') = Counted(stack, reqs)
    BY <1>13, <1>14, <2>1, <2>3
  <2> QED
    BY <1>1, <1>2, <1>3, <2>1, <2>3, <2>4, KeepStep
<1> QED
  BY <1>1, <1>16, <1>17, SendOutcomes

LEMMA AjaxAborts ==
  ASSUME AInv, NEW r \in Requests, abort(r)
  PROVE  AInv'
<1> DEFINE q == reqs[r]
           settled == done(q, "error")
           missed == \E i \in DOMAIN stack :
                       /\ stack[i].r = r
                       /\ stack[i].at = "ajaxSend" \/ (stack[i].at = "ajaxStart" /\ ~q.options.beforeSend)
           flag == (settled.unnoticed \/ missed)
           new == [settled EXCEPT !.unnoticed = flag]
<1>1. /\ UserCode /\ q.opened /\ q.state # 2
      /\ reqs' = [reqs EXCEPT ![r] = new]
      /\ stack' = doneFrames(q, settled, r) \o stack
      /\ UNCHANGED <<active, lit, threw>>
  BY DEF abort, Set
<1>2. reqs \in [Requests -> RequestType] /\ q \in RequestType /\ RequestOK(q) /\ StackOK(stack, reqs)
  BY DEF AInv
<1>3. AllCalling(stack, reqs)
  BY <1>1, UserCalls
<1>4. /\ settled \in RequestType /\ RequestOK(settled) /\ settled.state = 2 /\ settled.opened
      /\ settled.options = q.options /\ settled.fireGlobals = q.fireGlobals
      /\ settled.unnoticed = q.unnoticed /\ settled.dones = q.dones + 1
  BY <1>1, <1>2, DoneFacts
<1>5. flag \in BOOLEAN /\ (~flag => ~missed) /\ (q.unnoticed => flag)
  BY <1>4
<1> HIDE DEF settled, flag
<1>6. /\ new \in RequestType /\ new.unnoticed = flag /\ new.state = 2 /\ new.opened /\ new.options = q.options
      /\ new.fireGlobals = q.fireGlobals /\ new.dones = settled.dones
      /\ new.transport = settled.transport /\ new.timeoutTimer = settled.timeoutTimer
  BY <1>4, <1>5 DEF RequestType
<1>7. RequestOK(new)
  <2>1. ~flag => ~settled.unnoticed
    BY DEF flag
  <2> QED
    BY <1>4, <1>6, <2>1 DEF RequestOK
<1>8. stack' = Frame(r, "settle") \o stack
  <2>1. settled.dones # q.dones
    <3>1. q.dones \in Nat
      BY <1>2 DEF RequestType
    <3> QED
      BY <1>4, <3>1, SMT
  <2>2. doneFrames(q, settled, r) = Frame(r, "settle")
    BY <2>1 DEF doneFrames
  <2> QED
    BY <1>1, <2>2
<1> HIDE DEF new
<1>9. NoticedBelow(stack, new, r)
  <2> SUFFICES ASSUME NEW i \in DOMAIN stack, stack[i].r = r, ~new.unnoticed
               PROVE  /\ stack[i].at \notin {"ajaxSend", "send"}
                      /\ stack[i].at \in {"ajaxStart", "beforeSend"} => q.options.beforeSend
    BY <1>6 DEF NoticedBelow
  <2>1. Calling(stack[i], q)
    BY <1>3 DEF AllCalling
  <2>2. ~missed
    BY <1>5, <1>6
  <2>3. stack[i].at # "ajaxSend" /\ (stack[i].at = "ajaxStart" => q.options.beforeSend)
    BY <2>2
  <2> QED
    BY <2>1, <2>3 DEF Calling, CallbackPoints
<1>10. /\ StackOK(Frame(r, "settle") \o stack, Changed(reqs, r, new))
       /\ Counted(Frame(r, "settle") \o stack, Changed(reqs, r, new)) = Counted(stack, reqs)
  BY <1>1, <1>2, <1>3, <1>5, <1>6, <1>9, Settling
<1>11. StackOK(stack', reqs') /\ Counted(stack', reqs') = Counted(stack, reqs)
  <2>1. reqs' = Changed(reqs, r, new)
    BY <1>1 DEF Changed
  <2> QED
    BY <1>8, <1>10, <2>1
<1> QED
  BY <1>1, <1>5, <1>6, <1>7, <1>11, KeepStep

(* Nothing runs, and done is called for a request under way. *)
LEMMA SettleIdle ==
  ASSUME AInv, stack = <<>>, NEW r \in Requests, reqs[r].state = 1,
         NEW new \in RequestType, RequestOK(new), new.state = 2, new.opened, new.options = reqs[r].options,
         new.fireGlobals = reqs[r].fireGlobals, new.unnoticed = reqs[r].unnoticed,
         reqs' = [reqs EXCEPT ![r] = new], stack' = Frame(r, "settle"), UNCHANGED <<active, lit, threw>>
  PROVE  AInv'
<1>1. reqs \in [Requests -> RequestType] /\ StackOK(stack, reqs) /\ AllCalling(stack, reqs)
  BY SMT DEF AInv, AllCalling
<1>2. NoticedBelow(stack, new, r)
  BY SMT DEF NoticedBelow
<1>3. /\ StackOK(Frame(r, "settle") \o stack, Changed(reqs, r, new))
      /\ Counted(Frame(r, "settle") \o stack, Changed(reqs, r, new)) = Counted(stack, reqs)
  <2>1. reqs[r].state # 2
    BY SMT
  <2> QED
    BY <1>1, <1>2, <2>1, Settling
<1>4. Frame(r, "settle") \o stack = stack' /\ reqs' = Changed(reqs, r, new)
  BY SMT DEF Frame, Changed
<1>5. StackOK(stack', reqs') /\ Counted(stack', reqs') = Counted(stack, reqs)
  BY <1>3, <1>4
<1> QED
  BY <1>5, KeepStep

LEMMA AnswerStep ==
  ASSUME AInv, NEW r \in Requests, Answer(r)
  PROVE  AInv'
<1>1. PICK result \in {"success", "error"} :
        /\ stack = <<>> /\ reqs[r].transport = "sent"
        /\ reqs' = [reqs EXCEPT ![r] = done(reqs[r], result)]
        /\ stack' = Frame(r, "settle")
        /\ UNCHANGED <<active, lit, threw>>
  BY DEF Answer, Set
<1>2. reqs[r] \in RequestType /\ RequestOK(reqs[r])
  BY DEF AInv
<1>3. reqs[r].state = 1 /\ reqs[r].opened
  BY <1>1, <1>2, SMT DEF RequestOK
<1> DEFINE new == done(reqs[r], result)
<1>4. /\ new \in RequestType /\ RequestOK(new) /\ new.state = 2 /\ new.opened /\ new.options = reqs[r].options
      /\ new.fireGlobals = reqs[r].fireGlobals /\ new.unnoticed = reqs[r].unnoticed
  BY <1>2, <1>3, DoneFacts, SMT
<1> HIDE DEF new
<1>5. reqs' = [reqs EXCEPT ![r] = new]
  BY <1>1 DEF new
<1> QED
  BY <1>1, <1>3, <1>4, <1>5, SettleIdle

LEMMA TimeoutStep ==
  ASSUME AInv, NEW r \in Requests, Timeout(r)
  PROVE  AInv'
<1> DEFINE q == reqs[r]
           late == [q EXCEPT !.timeoutTimer = FALSE]
           new == done(late, "error")
<1>1. /\ stack = <<>> /\ q.timeoutTimer
      /\ reqs' = [reqs EXCEPT ![r] = new]
      /\ stack' = doneFrames(q, new, r)
      /\ UNCHANGED <<active, lit, threw>>
  BY DEF Timeout, Set
<1>2. q \in RequestType /\ RequestOK(q)
  BY DEF AInv
<1>3. q.state = 1 /\ q.opened
  BY <1>1, <1>2, SMT DEF RequestOK
<1>4. /\ late \in RequestType /\ late.state = 1 /\ late.opened /\ late.options = q.options
      /\ late.fireGlobals = q.fireGlobals /\ late.unnoticed = q.unnoticed /\ late.dones = q.dones
      /\ late.transport = q.transport /\ ~late.timeoutTimer
  BY <1>2, <1>3 DEF RequestType
<1>5. RequestOK(late)
  BY <1>2, <1>3, <1>4 DEF RequestOK
<1> HIDE DEF late
<1>6. /\ new \in RequestType /\ RequestOK(new) /\ new.state = 2 /\ new.opened /\ new.options = q.options
      /\ new.fireGlobals = q.fireGlobals /\ new.unnoticed = q.unnoticed /\ new.dones = q.dones + 1
  BY <1>4, <1>5, DoneFacts, SMT
<1> HIDE DEF new
<1>7. stack' = Frame(r, "settle")
  <2>1. q.dones \in Nat
    BY <1>2 DEF RequestType
  <2>2. new.dones # q.dones
    BY <1>6, <2>1, SMT
  <2> QED
    BY <1>1, <2>2 DEF doneFrames
<1> QED
  BY <1>1, <1>3, <1>6, <1>7, SettleIdle

LEMMA ThrowsStep ==
  ASSUME AInv, CallbackThrows
  PROVE  AInv'
<1>1. reqs' = reqs /\ active' = active /\ lit' = lit /\ stack' = <<>> /\ threw' = TRUE
  BY DEF CallbackThrows
<1>2. StackOK(<<>>, reqs)
  BY SMT DEF StackOK
<1>3. ~Regular'
  BY <1>1 DEF Regular
<1>4. StackOK(stack', reqs') /\ threw' \in BOOLEAN
  BY <1>1, <1>2
<1> QED
  BY <1>1, <1>3, <1>4 DEF AInv

(* A request that fires global events is counted, whether or not it is the *)
(* first.                                                                  *)
LEMMA CountUp ==
  ASSUME AInv, AfterPrefilters
  PROVE  AInv'
<1> DEFINE r == stack[1].r
           q == reqs[r]
           g == q.options.global
           new == [q EXCEPT !.fireGlobals = g]
           at == IF g /\ active = 0 THEN "ajaxStart" ELSE "beforeSend"
<1>1. stack # <<>> /\ stack[1].at = "prefilter" /\ threw' = threw
  BY DEF AfterPrefilters, Top
<1>2. /\ r \in Requests /\ q \in RequestType /\ RequestOK(q) /\ q.opened /\ FrameOK(stack[1], q)
      /\ reqs \in [Requests -> RequestType]
  BY <1>1, TopFacts
<1>3. CASE q.state = 2
  <2>1. Returns /\ UNCHANGED <<reqs, active, lit, threw>>
    BY <1>1, <1>3 DEF AfterPrefilters
  <2>2. stack[1].at \notin CountedPoints
    BY <1>1 DEF CountedPoints
  <2> QED
    BY <1>1, <2>1, <2>2, ReturnsStep
<1>4. CASE q.state # 2
  <2>1. /\ reqs' = [reqs EXCEPT ![r] = new]
        /\ active' = IF g THEN active + 1 ELSE active
        /\ lit' = (lit \/ (g /\ active = 0))
        /\ stack' = Frame(r, at) \o Tail(stack)
    BY <1>4 DEF AfterPrefilters, Set, Go
  <2>2. g \in BOOLEAN
    BY <1>2 DEF RequestType, OptionType
  <2>3. ~q.fireGlobals
    BY <1>1, <1>2 DEF FrameOK
  <2> HIDE DEF g
  <2>4. /\ new \in RequestType /\ new.fireGlobals = g /\ new.state = q.state /\ new.opened
        /\ new.options = q.options /\ new.unnoticed = q.unnoticed /\ new.dones = q.dones
        /\ new.transport = q.transport /\ new.timeoutTimer = q.timeoutTimer
    BY <1>2, <2>2 DEF RequestType
  <2>5. RequestOK(new)
    BY <1>2, <2>4 DEF RequestOK
  <2> HIDE DEF new
  <2>6. stack[1].at \in AjaxPoints
    BY <1>1 DEF AjaxPoints
  <2>7. at \in AjaxPoints /\ at \in {"ajaxStart", "beforeSend"} /\ at \notin CountedPoints
    BY DEF AjaxPoints, CountedPoints
  <2> HIDE DEF at
  <2>8. FrameOK([r |-> r, at |-> at], new)
    BY <1>4, <2>4, <2>7 DEF FrameOK, DonePoints
  <2>9. \A i \in DOMAIN Tail(stack) : Tail(stack)[i].r = r => FrameOK(Tail(stack)[i], new)
    <3> SUFFICES ASSUME NEW i \in DOMAIN Tail(stack), Tail(stack)[i].r = r PROVE FrameOK(Tail(stack)[i], new)
      OBVIOUS
    <3>1. Tail(stack)[i].at \in DonePoints /\ FrameOK(Tail(stack)[i], q)
      BY <1>1, <2>6, OnlyDoneBelow
    <3>2. Tail(stack)[i].at # "prefilter" /\ Tail(stack)[i].at # "ajaxComplete"
      BY <2>3, <3>1 DEF DonePoints, FrameOK
    <3> QED
      BY <2>4, <3>1, <3>2 DEF FrameOK
  <2>10. /\ StackOK(stack', reqs')
         /\ \A p \in Requests : InDone(stack', p) <=> InDone(Tail(stack), p)
    <3>1. at \in AjaxPoints \cup DonePoints
      BY <2>7
    <3>2. /\ StackOK(Frame(r, at) \o Tail(stack), [reqs EXCEPT ![r] = new])
          /\ \A p \in Requests : InDone(Frame(r, at) \o Tail(stack), p)
                                 <=> (p = r /\ at \in CountedPoints) \/ InDone(Tail(stack), p)
      BY <1>1, <2>4, <2>6, <2>7, <2>8, <2>9, <3>1, GoStack
    <3> QED
      BY <2>1, <2>7, <3>2
  <2>11. \A p \in Requests : InDone(stack', p) <=> InDone(stack, p)
    BY <1>1, <2>10, TopFacts DEF CountedPoints
  <2>12. /\ reqs' \in [Requests -> RequestType]
         /\ reqs'[r] = new /\ \A p \in Requests : p # r => reqs'[p] = reqs[p]
    BY <1>2, <2>1, <2>4
  <2>13. \A p \in Requests : RequestOK(reqs'[p])
    BY <2>5, <2>12 DEF AInv
  <2>14. Regular' => Regular
    BY <1>1, <2>4, <2>12 DEF Regular
  <2>15. active \in Int /\ lit \in BOOLEAN /\ threw \in BOOLEAN
         /\ (Regular => active = Cardinality(Counted(stack, reqs)) /\ (lit <=> active > 0))
    BY DEF AInv
  <2>16. IsFiniteSet(Counted(stack, reqs)) /\ Cardinality(Counted(stack, reqs)) \in Nat
    BY CountedFinite
  <2>17. CASE g
    <3>1. Counted(stack', reqs') = Counted(stack, reqs) \cup {r} /\ r \notin Counted(stack, reqs)
      <4>1. r \notin Counted(stack, reqs)
        BY <2>3 DEF Counted
      <4>2. r \in Counted(stack', reqs')
        BY <1>2, <1>4, <2>4, <2>12, <2>17 DEF Counted
      <4>3. \A p \in Requests : p # r => (p \in Counted(stack', reqs') <=> p \in Counted(stack, reqs))
        BY <2>11, <2>12 DEF Counted
      <4>4. Counted(stack', reqs') \subseteq Requests /\ Counted(stack, reqs) \subseteq Requests
        BY DEF Counted
      <4> QED
        BY <1>2, <4>1, <4>2, <4>3, <4>4
    <3>2. Cardinality(Counted(stack', reqs')) = Cardinality(Counted(stack, reqs)) + 1
      BY <2>16, <3>1, FS_AddElement
    <3>3. active' = active + 1 /\ (lit' <=> lit \/ active = 0)
      BY <2>1, <2>17
    <3>4. Regular' => active' = Cardinality(Counted(stack', reqs')) /\ (lit' <=> active' > 0)
      <4> SUFFICES ASSUME Regular'
                   PROVE  active' = Cardinality(Counted(stack', reqs')) /\ (lit' <=> active' > 0)
        OBVIOUS
      <4>1. active \in Nat /\ active = Cardinality(Counted(stack, reqs)) /\ (lit <=> active > 0)
        BY <2>14, <2>15, <2>16
      <4>2. active' > 0 /\ (active > 0 \/ active = 0)
        BY <3>3, <4>1, SMT
      <4>3. lit'
        BY <3>3, <4>1, <4>2
      <4> QED
        BY <3>2, <3>3, <4>1, <4>2, <4>3
    <3>5. active' \in Int
      BY <2>15, <3>3, SMT
    <3>6. lit' \in BOOLEAN
      BY <2>1
    <3>7. threw' \in BOOLEAN
      BY <1>1, <2>15
    <3> QED
      BY <2>10, <2>12, <2>13, <3>4, <3>5, <3>6, <3>7 DEF AInv
  <2>18. CASE ~g
    <3>1. active' = active
      BY <2>1, <2>18
    <3>2. lit' = lit
      <4>1. lit \in BOOLEAN /\ lit' = (lit \/ (g /\ active = 0)) /\ ~g
        BY <2>1, <2>15, <2>18
      <4> QED
        BY <4>1
    <3>3. \A p \in Requests : /\ reqs'[p].fireGlobals <=> reqs[p].fireGlobals
                              /\ reqs'[p].state = reqs[p].state
      BY <2>3, <2>4, <2>12, <2>18
    <3>4. Counted(stack', reqs') = Counted(stack, reqs)
      BY <2>11, <3>3 DEF Counted
    <3> QED
      BY <1>1, <2>10, <2>12, <2>13, <2>14, <2>15, <3>1, <3>2, <3>4 DEF AInv
  <2> QED
    BY <2>2, <2>17, <2>18
<1> QED
  BY <1>3, <1>4

LEMMA AjaxKeeps == AInv /\ [AjaxNext]_ajaxVars => AInv'
<1> SUFFICES ASSUME AInv, [AjaxNext]_ajaxVars PROVE AInv'
  OBVIOUS
<1>1. CASE Library
  BY <1>1, CountUp, PassingSteps, NotSentStep, TransportStep, SendStep, CountDown DEF Library
<1>2. CASE CallbackThrows
  BY <1>2, ThrowsStep
<1>3. ASSUME NEW r \in Requests, ajax(r) \/ abort(r) \/ Answer(r) \/ Timeout(r) PROVE AInv'
  BY <1>3, AjaxStep, AjaxAborts, AnswerStep, TimeoutStep
<1>4. CASE UNCHANGED ajaxVars
  <2>1. UNCHANGED <<reqs, stack, active, lit, threw>>
    BY <1>4 DEF ajaxVars
  <2>2. StackOK(stack', reqs) /\ Counted(stack', reqs) = Counted(stack, reqs)
    BY <2>1 DEF AInv
  <2> QED
    BY <2>1, <2>2, SameStep
<1> QED
  BY <1>1, <1>2, <1>3, <1>4 DEF AjaxNext

(* With nothing running, the requests counted are those under way. *)
LEMMA AInvSays == AInv => RequestsCounted
<1> SUFFICES ASSUME AInv PROVE RequestsCounted
  OBVIOUS
<1>1. \A r \in Requests : reqs[r] \in RequestType /\ RequestOK(reqs[r])
  BY DEF AInv
<1>2. AjaxTypeOK
  <2>1. \A r \in Requests : /\ reqs[r].state \in 0 .. 2
                            /\ reqs[r].transport \in {"none", "made", "sent"}
                            /\ reqs[r].transport = "sent" => reqs[r].state = 1
    BY <1>1, SMT DEF RequestType, RequestOK
  <2> QED
    BY <2>1 DEF AjaxTypeOK, AInv
<1>3. ASSUME stack = <<>>, Regular
      PROVE  /\ active = Cardinality({r \in Requests : reqs[r].fireGlobals /\ reqs[r].state < 2})
             /\ lit = (active > 0)
  <2>1. \A r \in Requests : ~InDone(stack, r) /\ (reqs[r].state # 2 <=> reqs[r].state < 2)
    BY <1>1, <1>3, SMT DEF InDone, RequestType
  <2>2. Counted(stack, reqs) = {r \in Requests : reqs[r].fireGlobals /\ reqs[r].state < 2}
    BY <2>1 DEF Counted
  <2>3. active = Cardinality(Counted(stack, reqs)) /\ (lit <=> active > 0) /\ lit \in BOOLEAN
    BY <1>3 DEF AInv
  <2>4. lit = (active > 0)
    BY <2>3, SMT
  <2> QED
    BY <2>2, <2>3, <2>4
<1>4. DoneOnce /\ TimerOnlyActive
  BY <1>1, SMT DEF DoneOnce, TimerOnlyActive, RequestType, RequestOK
<1> QED
  BY <1>2, <1>3, <1>4 DEF RequestsCounted, ActiveCounts, IndicatorRight

(* However callbacks start and abort requests from within one another, and *)
(* whenever answers and timeouts come, for any finite set of requests and  *)
(* any options: with no code running, jQuery.active is the number of the   *)
(* requests under way that fire global events and the indicator is lit     *)
(* while there are any (unless a callback threw, or aborted where ajax     *)
(* does not notice); a request passes through done once, and its timer is  *)
(* set only while it is under way.                                         *)
THEOREM CountedRight == AjaxSpec => []RequestsCounted
<1> QED
  BY AjaxBegins, AjaxKeeps, AInvSays, PTL DEF AjaxSpec
===============================================================================
