-------------------------- MODULE KeyExchangeProofs --------------------------
(***************************************************************************)
(* Proofs about KeyExchange, for any number of clients, of posts and of    *)
(* crashes: type correctness, agreement or the dummy secret, and agreement *)
(* while runs come one at a time.                                          *)
(***************************************************************************)
EXTENDS MCKeyExchange, TLAPS

Secrets == {None} \cup SUBSET (Keys \cup {AliceKey(e) : e \in Exchanges})

(***************************************************************************)
(* The inductive invariant: AgreementOrDummy follows from what a client    *)
(* fetched being a key of the field, whoever wrote it, and from the        *)
(* parameters of the keys the handlers generate.                           *)
(***************************************************************************)
IInv ==
  /\ TypeOK
  /\ secret \in [Exchanges -> Secrets]
  /\ AgreementOrDummy

(* Two exchanges have different keys and parameters. *)
LEMMA KeyFacts ==
  \A e \in Exchanges :
    /\ AliceKey(e) = [params |-> e, owner |-> "alice", run |-> e]
    /\ BobKey(e) = [params |-> e, owner |-> "bob", run |-> e]
    /\ BobKey(e) \in Keys
    /\ BobKey(e) \notin {Garbage, None}
    /\ BobSecret(e) = {AliceKey(e), BobKey(e)}
<1> SUFFICES ASSUME NEW e \in Exchanges
             PROVE  /\ AliceKey(e) = [params |-> e, owner |-> "alice", run |-> e]
                    /\ BobKey(e) = [params |-> e, owner |-> "bob", run |-> e]
                    /\ BobKey(e) \in Keys
                    /\ BobKey(e) \notin {Garbage, None}
                    /\ BobSecret(e) = {AliceKey(e), BobKey(e)}
  OBVIOUS
<1>1. AliceKey(e) = [params |-> e, owner |-> "alice", run |-> e]
  BY DEF AliceKey, Key, Params
<1>2. BobKey(e) = [params |-> e, owner |-> "bob", run |-> e]
  BY <1>1 DEF BobKey, Key
<1>3. BobKey(e) \in Keys
  BY DEF Keys
<1>4. BobKey(e) \notin {Garbage, None}
  BY <1>2, NoKeyAssumption DEF Key
<1>5. AliceKey(e).params = BobKey(e).params
  BY <1>1, <1>2
<1>6. BobSecret(e) = {AliceKey(e), BobKey(e)}
  BY <1>5 DEF BobSecret, Agree
<1> QED
  BY <1>1, <1>2, <1>3, <1>4, <1>6

(***************************************************************************)
(* What generateAliceSecretKey returns for any key the field may hold: the *)
(* handler's secret for the key of her own exchange, and {0,0} otherwise.  *)
(***************************************************************************)
LEMMA AliceAgrees ==
  ASSUME NEW e \in Exchanges, NEW key \in Keys
  PROVE  AliceSecret(e, key) \in {BobSecret(e), Dummy}
<1>1. CASE key \in {Garbage, None}
  BY <1>1 DEF AliceSecret
<1>2. CASE key = ForeignKey
  <2>1. AliceKey(e).params # key.params
    BY <1>2, KeyFacts, ExchangeAssumption DEF ForeignKey, Key
  <2> QED
    BY <2>1 DEF AliceSecret, Agree
<1>3. CASE key \in {BobKey(f) : f \in Exchanges}
  <2>1. PICK f \in Exchanges : key = BobKey(f)
    BY <1>3
  <2>2. AliceKey(e).params = e /\ key.params = f
    BY <2>1, KeyFacts
  <2>3. key \notin {Garbage, None}
    BY <2>1, KeyFacts
  <2>4. CASE f = e
    BY <2>1, <2>2, <2>3, <2>4, KeyFacts DEF AliceSecret, Agree
  <2>5. CASE f # e
    BY <2>2, <2>3, <2>5 DEF AliceSecret, Agree
  <2> QED
    BY <2>4, <2>5
<1> QED
  BY <1>1, <1>2, <1>3 DEF Keys

(* The handlers' secrets, and {0,0}, are sets of keys and not null. *)
LEMMA SecretType ==
  ASSUME NEW e \in Exchanges, NEW s \in {BobSecret(e), Dummy}
  PROVE  s \in Secrets /\ s \subseteq Keys \cup {AliceKey(e)}
BY KeyFacts DEF Secrets, Dummy

LEMMA InitInvariant == Init => IInv
<1> SUFFICES ASSUME Init PROVE IInv
  OBVIOUS
<1>1. None \in Keys
  BY DEF Keys
<1>2. 0 \in 0 .. MaxCrashes
  BY ExchangeAssumption
<1>3. pc \in [Actors -> Labels] /\ \A e \in Exchanges : pc[e] # "done"
  BY DEF Init, Labels, Actors
<1>4. TypeOK
  <2>1. bobpublickeyEnc \in Keys /\ pub \in [Exchanges -> Keys]
    BY <1>1 DEF Init
  <2>2. privateKey \in {BobSecret(e) : e \in Exchanges} \cup {Dummy, None}
    BY DEF Init
  <2>3. body \in [Posters -> PostedKeys \cup {None}]
    BY DEF Init
  <2>4. crashes \in 0 .. MaxCrashes /\ up \in BOOLEAN
    BY <1>2 DEF Init
  <2>5. \A e \in Exchanges :
          /\ pc[e] = "done" => secret[e] \subseteq Keys \cup {AliceKey(e)}
          /\ pc[e] # "done" => secret[e] = None
    BY <1>3 DEF Init
  <2> QED
    BY <1>3, <2>1, <2>2, <2>3, <2>4, <2>5 DEF TypeOK
<1>5. secret \in [Exchanges -> Secrets]
  BY DEF Init, Secrets
<1>6. AgreementOrDummy
  BY <1>3 DEF AgreementOrDummy
<1> QED
  BY <1>4, <1>5, <1>6 DEF IInv

(* A step that leaves secrets alone and moves one actor elsewhere than to  *)
(* or from the end of a client's run.                                      *)
LEMMA MoveStep ==
  ASSUME IInv, NEW a \in Actors, NEW label \in Labels, Goto(a, label),
         a \in Exchanges => label # "done" /\ pc[a] # "done",
         UNCHANGED secret
  PROVE  /\ pc' \in [Actors -> Labels]
         /\ secret' \in [Exchanges -> Secrets]
         /\ AgreementOrDummy'
         /\ \A e \in Exchanges :
              /\ pc'[e] = "done" => secret'[e] \subseteq Keys \cup {AliceKey(e)}
              /\ pc'[e] # "done" => secret'[e] = None
<1>1. pc \in [Actors -> Labels] /\ Exchanges \subseteq Actors
  BY DEF IInv, TypeOK, Actors
<1>2. pc' \in [Actors -> Labels]
  BY <1>1 DEF Goto
<1>3. \A e \in Exchanges : pc'[e] = "done" <=> pc[e] = "done"
  BY <1>1 DEF Goto
<1>4. AgreementOrDummy'
  BY <1>3 DEF IInv, AgreementOrDummy
<1> QED
  BY <1>2, <1>3, <1>4 DEF IInv, TypeOK

(***************************************************************************)
(* The controller's fields after a step of a handler or client.            *)
(***************************************************************************)
FieldsOK ==
  /\ bobpublickeyEnc \in Keys
  /\ privateKey \in {BobSecret(e) : e \in Exchanges} \cup {Dummy, None}
  /\ up \in BOOLEAN
  /\ body \in [Posters -> PostedKeys \cup {None}]
  /\ pub \in [Exchanges -> Keys]
  /\ crashes \in 0 .. MaxCrashes

(* A step of one actor, other than the last of a run, keeps the invariant  *)
(* when it keeps the types of the fields.                                  *)
LEMMA MoveInvariant ==
  ASSUME IInv, NEW a \in Actors, NEW label \in Labels, Goto(a, label),
         a \in Exchanges => label # "done" /\ pc[a] # "done",
         UNCHANGED secret, FieldsOK'
  PROVE  IInv'
<1>1. /\ pc' \in [Actors -> Labels]
      /\ secret' \in [Exchanges -> Secrets]
      /\ AgreementOrDummy'
      /\ \A e \in Exchanges :
           /\ pc'[e] = "done" => secret'[e] \subseteq Keys \cup {AliceKey(e)}
           /\ pc'[e] # "done" => secret'[e] = None
  BY MoveStep
<1>2. TypeOK'
  BY <1>1 DEF FieldsOK, TypeOK
<1> QED
  BY <1>1, <1>2 DEF IInv

(* Begin, and the client's requests. *)
LEMMA ClientStep ==
  ASSUME IInv, NEW e \in Exchanges, Begin(e) \/ Request(e)
  PROVE  IInv'
<1>1. PICK label \in {"hello", "post", "pa.pub", "gb.log", "failed"} :
        /\ Goto(e, label) /\ pc[e] # "done"
        /\ UNCHANGED <<fields, local, up, crashes>>
  BY DEF Begin, Request, Send
<1>2. FieldsOK'
  BY <1>1 DEF IInv, TypeOK, FieldsOK, fields, local
<1>3. label \in Labels /\ label # "done" /\ e \in Actors
  BY DEF Labels, AtServer, Actors
<1>4. UNCHANGED secret
  BY <1>1 DEF local
<1> QED
  BY <1>1, <1>2, <1>3, <1>4, MoveInvariant

LEMMA PostAliceStep ==
  ASSUME IInv, NEW e \in Exchanges, PostAlicePublicKey(e)
  PROVE  IInv'
<1>1. PICK label \in {"pa.secret", "get"} : Goto(e, label) /\ pc[e] # "done"
  BY DEF PostAlicePublicKey
<1>2. FieldsOK'
  BY KeyFacts DEF PostAlicePublicKey, IInv, TypeOK, FieldsOK, local
<1>3. label \in Labels /\ label # "done" /\ e \in Actors
  BY DEF Labels, AtServer, Actors
<1>4. UNCHANGED secret
  BY DEF PostAlicePublicKey, local
<1> QED
  BY <1>1, <1>2, <1>3, <1>4, MoveInvariant

LEMMA GetBobStep ==
  ASSUME IInv, NEW e \in Exchanges, GetBobPublicKey(e)
  PROVE  IInv'
<1>1. PICK label \in {"failed", "gb.return", "derive"} : Goto(e, label) /\ pc[e] # "done"
  BY DEF GetBobPublicKey
<1>2. FieldsOK'
  BY DEF GetBobPublicKey, IInv, TypeOK, FieldsOK, fields, local
<1>3. label \in Labels /\ label # "done" /\ e \in Actors
  BY DEF Labels, AtServer, Actors
<1>4. UNCHANGED secret
  BY DEF GetBobPublicKey, local
<1> QED
  BY <1>1, <1>2, <1>3, <1>4, MoveInvariant

LEMMA PostBobStep ==
  ASSUME IInv, NEW p \in Posters, PostBobPublicKey(p)
  PROVE  IInv'
<1>1. PICK label \in {"pb.pub", "pb.secret", "done"} : Goto(p, label)
  BY DEF PostBobPublicKey
<1>2. PostedKeys \cup {None} \subseteq Keys
  BY PostedAssumption DEF Keys
<1>3. FieldsOK'
  BY <1>2 DEF PostBobPublicKey, IInv, TypeOK, FieldsOK, fields, local
<1>4. label \in Labels /\ p \in Actors /\ p \notin Exchanges
  BY ExchangeAssumption DEF Labels, AtServer, Actors
<1>5. UNCHANGED secret
  BY DEF PostBobPublicKey, local
<1> QED
  BY <1>1, <1>3, <1>4, <1>5, MoveInvariant

(* The end of a client's run: AliceAgrees is what it needs. *)
LEMMA DeriveStep ==
  ASSUME IInv, NEW e \in Exchanges, GenerateAliceSecretKey(e)
  PROVE  IInv'
<1> DEFINE s == AliceSecret(e, pub[e])
<1>1. pub[e] \in Keys /\ e \in Actors /\ Exchanges \subseteq Actors
  BY DEF IInv, TypeOK, Actors
<1>2. s \in {BobSecret(e), Dummy}
  BY <1>1, AliceAgrees
<1>3. s \in Secrets /\ s \subseteq Keys \cup {AliceKey(e)}
  BY <1>2, SecretType
<1>4. secret' = [secret EXCEPT ![e] = s] /\ pc' = [pc EXCEPT ![e] = "done"]
  BY DEF GenerateAliceSecretKey, Goto
<1> HIDE DEF s
<1>5. secret' \in [Exchanges -> Secrets] /\ secret'[e] = s
  BY <1>3, <1>4 DEF IInv
<1>6. pc' \in [Actors -> Labels] /\ pc'[e] = "done"
  BY <1>1, <1>4 DEF IInv, TypeOK, Labels
<1>7. \A f \in Exchanges : f # e => pc'[f] = pc[f] /\ secret'[f] = secret[f]
  BY <1>1, <1>4 DEF IInv, TypeOK
<1>8. AgreementOrDummy'
  BY <1>2, <1>5, <1>7 DEF IInv, AgreementOrDummy
<1>9. FieldsOK'
  BY DEF GenerateAliceSecretKey, IInv, TypeOK, FieldsOK, fields
<1>10. \A f \in Exchanges :
         /\ pc'[f] = "done" => secret'[f] \subseteq Keys \cup {AliceKey(f)}
         /\ pc'[f] # "done" => secret'[f] = None
  BY <1>3, <1>5, <1>6, <1>7 DEF IInv, TypeOK
<1>11. TypeOK'
  BY <1>6, <1>9, <1>10 DEF FieldsOK, TypeOK
<1> QED
  BY <1>5, <1>8, <1>11 DEF IInv

LEMMA CrashStep ==
  ASSUME IInv, Crash
  PROVE  IInv'
<1>1. crashes' \in 0 .. MaxCrashes
  BY ExchangeAssumption DEF Crash, IInv, TypeOK
<1>2. pc \in [Actors -> Labels] /\ Exchanges \subseteq Actors
  BY DEF IInv, TypeOK, Actors
<1>3. pc' \in [Actors -> Labels] /\ \A e \in Exchanges : pc'[e] = "done" <=> pc[e] = "done"
  BY <1>2 DEF Crash, Labels, AtServer
<1>4. None \in Keys
  BY DEF Keys
<1>5. FieldsOK'
  BY <1>1, <1>4 DEF Crash, IInv, TypeOK, FieldsOK, local
<1>6. UNCHANGED secret
  BY DEF Crash, local
<1>7. TypeOK'
  BY <1>3, <1>5, <1>6 DEF IInv, FieldsOK, TypeOK
<1>8. AgreementOrDummy'
  BY <1>3, <1>6 DEF IInv, AgreementOrDummy
<1> QED
  BY <1>6, <1>7, <1>8 DEF IInv

LEMMA NextInvariant == IInv /\ [Next]_vars => IInv'
<1> SUFFICES ASSUME IInv, [Next]_vars PROVE IInv'
  OBVIOUS
<1>1. ASSUME NEW e \in Exchanges, Begin(e) \/ Step(e) PROVE IInv'
  BY <1>1, ClientStep, PostAliceStep, GetBobStep, DeriveStep DEF Step
<1>2. ASSUME NEW p \in Posters, PostBobPublicKey(p) PROVE IInv'
  BY <1>2, PostBobStep
<1>3. CASE Crash
  BY <1>3, CrashStep
<1>4. CASE Restart
  BY <1>4 DEF Restart, fields, local, IInv, TypeOK, AgreementOrDummy
<1>5. CASE UNCHANGED vars
  BY <1>5 DEF vars, IInv, TypeOK, AgreementOrDummy
<1> QED
  BY <1>1, <1>2, <1>3, <1>4, <1>5 DEF Next

LEMMA Invariance == Spec => []IInv
BY InitInvariant, NextInvariant, PTL DEF Spec

(* The fields of the controller and the clients' results keep their types, *)
(* and a client has a secret exactly when its run is done.                 *)
THEOREM ExchangeTypes == Spec => []TypeOK
<1>1. IInv => TypeOK
  BY DEF IInv
<1> QED
  BY <1>1, Invariance, PTL

(***************************************************************************)
(* Any number of clients may race through the controller's two fields,     *)
(* with any number of overwriting posts and crashes: a run that ends has   *)
(* the secret its own handler computed, or {0,0}.                          *)
(***************************************************************************)
THEOREM AgreementHolds == Spec => []AgreementOrDummy
<1>1. IInv => AgreementOrDummy
  BY DEF IInv
<1> QED
  BY <1>1, Invariance, PTL

------------------------------------------------------------------------------
(* Runs that come one at a time. *)

AtRest(e) == pc[e] \in {"new", "done", "failed"}

(***************************************************************************)
(* While runs come one at a time, what the fields and the client hold at   *)
(* each step of the run under way: the key is its own from the handler's   *)
(* first write until the client has fetched it, except that a crash may    *)
(* have taken it.                                                          *)
(***************************************************************************)
RunHolds(e) ==
  /\ pc[e] \in {"pa.secret", "gb.return"} => bobpublickeyEnc = BobKey(e)
  /\ pc[e] \in {"get", "gb.log"} => bobpublickeyEnc \in {BobKey(e), None}
  /\ pc[e] = "derive" => pub[e] = BobKey(e)
  /\ pc[e] = "done" => secret[e] = BobSecret(e)

FieldsPaired ==
  \/ bobpublickeyEnc = None /\ privateKey = None
  \/ \E e \in Exchanges : bobpublickeyEnc = BobKey(e) /\ privateKey = BobSecret(e)
  \/ \E e \in Exchanges : pc[e] = "pa.secret"

AloneInv ==
  alone => /\ \A e, f \in Exchanges : ~AtRest(e) /\ ~AtRest(f) => e = f
           /\ \A p \in Posters : pc[p] = "new"
           /\ \A e \in Exchanges : RunHolds(e)
           /\ FieldsPaired

(* Alice's secret from the key of her own handler is the handler's. *)
LEMMA OwnKeyAgrees ==
  ASSUME NEW e \in Exchanges
  PROVE  AliceSecret(e, BobKey(e)) = BobSecret(e)
<1>1. AliceKey(e).params = e /\ BobKey(e).params = e /\ BobKey(e) \notin {Garbage, None}
  BY KeyFacts
<1> QED
  BY <1>1, KeyFacts DEF AliceSecret, Agree

(* A step of one run, while no other is under way, leaves the others' part *)
(* of the invariant alone: it says nothing of the fields for a run at      *)
(* rest.                                                                   *)
LEMMA OthersHold ==
  ASSUME IInv, NEW e \in Exchanges, NEW f \in Exchanges, f # e, AtRest(f), RunHolds(f),
         pc'[f] = pc[f], secret'[f] = secret[f]
  PROVE  RunHolds(f)'
<1>1. pc'[f] \notin {"pa.secret", "gb.return", "get", "gb.log", "derive"}
  BY DEF AtRest
<1>2. pc'[f] = "done" => secret'[f] = BobSecret(f)
  BY DEF RunHolds
<1>3. BobSecret(f)' = BobSecret(f)
  BY DEF BobSecret, Agree, BobKey, AliceKey, Key, Params, Dummy
<1> QED
  BY <1>1, <1>2, <1>3 DEF RunHolds

(* A step of run e, when it is the only one. *)
LEMMA RunStep ==
  ASSUME IInv, NEW e \in Exchanges, Begin(e) \/ Step(e), RunHolds(e), FieldsPaired,
         \A f \in Exchanges : f # e => AtRest(f)
  PROVE  RunHolds(e)' /\ FieldsPaired'
<1>0. e \in Actors /\ pc \in [Actors -> Labels] /\ secret \in [Exchanges -> Secrets]
      /\ pub \in [Exchanges -> Keys]
  BY DEF Actors, IInv, TypeOK
<1>1. \A f \in Exchanges : f # e => pc[f] # "pa.secret"
  BY DEF AtRest
<1> USE DEF RunHolds, FieldsPaired, Goto, fields, local
<1>2. CASE Begin(e)
  BY <1>0, <1>1, <1>2 DEF Begin
<1>3. CASE Request(e)
  BY <1>0, <1>1, <1>3 DEF Request, Send
<1>4. CASE PostAlicePublicKey(e)
  BY <1>0, <1>1, <1>4 DEF PostAlicePublicKey
<1>5. CASE GetBobPublicKey(e)
  BY <1>0, <1>1, <1>5 DEF GetBobPublicKey
<1>6. CASE GenerateAliceSecretKey(e)
  BY <1>0, <1>1, <1>6, OwnKeyAgrees DEF GenerateAliceSecretKey
<1> QED
  BY <1>2, <1>3, <1>4, <1>5, <1>6 DEF Step

(* The server's crash takes the fields, and fails the handler that wrote   *)
(* one of them.                                                            *)
LEMMA CrashHolds ==
  ASSUME IInv, Crash, \A e \in Exchanges : RunHolds(e)
  PROVE  FieldsPaired' /\ \A e \in Exchanges : RunHolds(e)'
<1>1. \A e \in Exchanges : e \in Actors
  BY DEF Actors
<1>2. \A e \in Exchanges : pc'[e] = IF pc[e] \in AtServer THEN "failed" ELSE pc[e]
  BY <1>1 DEF Crash
<1>3. FieldsPaired'
  BY DEF Crash, FieldsPaired
<1> QED
  BY <1>2, <1>3 DEF Crash, RunHolds, AtServer, local

LEMMA AloneStep ==
  ASSUME IInv, AloneInv, [RaceNext]_mcVars
  PROVE  AloneInv'
<1> SUFFICES ASSUME alone'
             PROVE  /\ \A e, f \in Exchanges : ~AtRest(e)' /\ ~AtRest(f)' => e = f
                    /\ \A p \in Posters : pc'[p] = "new"
                    /\ \A e \in Exchanges : RunHolds(e)'
                    /\ FieldsPaired'
  BY DEF AloneInv
<1>1. CASE UNCHANGED mcVars
  BY <1>1 DEF mcVars, vars, AloneInv, AtRest, RunHolds, FieldsPaired
<1>2. CASE RaceNext
  <2>1. /\ Next /\ alone
        /\ \A e, f \in Exchanges : ~AtRest(e)' /\ ~AtRest(f)' => e = f
        /\ \A p \in Posters : pc'[p] = "new"
    BY <1>2 DEF RaceNext, UnderWay, AtRest
  <2>2. /\ \A e, f \in Exchanges : ~AtRest(e) /\ ~AtRest(f) => e = f
        /\ \A e \in Exchanges : RunHolds(e)
        /\ FieldsPaired
    BY <2>1 DEF AloneInv
  <2>3. pc \in [Actors -> Labels] /\ Exchanges \subseteq Actors /\ Posters \subseteq Actors
    BY DEF IInv, TypeOK, Actors
  <2>4. ASSUME NEW e \in Exchanges, Begin(e) \/ Step(e)
        PROVE  FieldsPaired' /\ \A f \in Exchanges : RunHolds(f)'
    <3>1. PICK label : Goto(e, label)
      BY <2>4 DEF Begin, Step, Request, Send, PostAlicePublicKey, GetBobPublicKey, GenerateAliceSecretKey
    <3>2. \A f \in Exchanges : f # e => pc'[f] = pc[f]
      BY <2>3, <3>1 DEF Goto
    <3>3. \A f \in Exchanges : f # e => secret'[f] = secret[f]
      BY <2>4 DEF Begin, Step, Request, Send, PostAlicePublicKey, GetBobPublicKey, GenerateAliceSecretKey,
         local, IInv
    <3>4. ~AtRest(e) \/ ~AtRest(e)'
      BY <2>3, <2>4 DEF Begin, Step, Request, Send, PostAlicePublicKey, GetBobPublicKey,
         GenerateAliceSecretKey, AtRest, Goto
    <3>5. \A f \in Exchanges : f # e => AtRest(f)
      BY <2>1, <2>2, <3>2, <3>4 DEF AtRest
    <3>6. RunHolds(e)' /\ FieldsPaired'
      BY <2>2, <2>4, <3>5, RunStep
    <3>7. \A f \in Exchanges : f # e => RunHolds(f)'
      BY <2>2, <3>2, <3>3, <3>5, OthersHold
    <3> QED
      BY <3>6, <3>7
  <2>5. ASSUME NEW p \in Posters, PostBobPublicKey(p) PROVE FALSE
    BY <2>1, <2>3, <2>5 DEF PostBobPublicKey, Goto
  <2>6. ASSUME Crash PROVE FieldsPaired' /\ \A e \in Exchanges : RunHolds(e)'
    BY <2>2, <2>6, CrashHolds
  <2>7. ASSUME Restart PROVE FieldsPaired' /\ \A e \in Exchanges : RunHolds(e)'
    <3>1. UNCHANGED <<bobpublickeyEnc, privateKey, pc, pub, secret>>
      BY <2>7 DEF Restart, fields, local
    <3> QED
      BY <2>2, <3>1 DEF RunHolds, FieldsPaired
  <2>8. FieldsPaired' /\ \A e \in Exchanges : RunHolds(e)'
    BY <2>1, <2>4, <2>5, <2>6, <2>7 DEF Next
  <2> QED
    BY <2>1, <2>8
<1> QED
  BY <1>1, <1>2

(***************************************************************************)
(* For any number of runs that come one at a time, with crashes between    *)
(* any two of their steps: a run that is done has the secret of its        *)
(* handler, and the two fields belong together whenever no handler is      *)
(* between its two writes.                                                 *)
(***************************************************************************)
THEOREM AloneAgreement == RaceSpec => []AloneAgrees
<1>1. RaceInit => IInv /\ AloneInv
  <2>1. RaceInit => AloneInv
    BY DEF RaceInit, Init, AloneInv, AtRest, RunHolds, FieldsPaired, Actors
  <2> QED
    BY <2>1, InitInvariant DEF RaceInit
<1>2. IInv /\ AloneInv /\ [RaceNext]_mcVars => IInv' /\ AloneInv'
  <2>1. [RaceNext]_mcVars => [Next]_vars
    BY DEF RaceNext, mcVars, vars
  <2> QED
    BY <2>1, NextInvariant, AloneStep
<1>3. AloneInv => AloneAgrees
  <2> SUFFICES ASSUME AloneInv, alone PROVE SameSecret /\ PairCoherent
    BY DEF AloneAgrees
  <2>1. SameSecret
    BY DEF AloneInv, RunHolds, SameSecret
  <2>2. ASSUME \A a \in Actors : pc[a] \notin {"pa.secret", "pb.secret"}
        PROVE  IF bobpublickeyEnc = None THEN privateKey = None
               ELSE \E e \in Exchanges : bobpublickeyEnc = BobKey(e) /\ privateKey = BobSecret(e)
    <3>1. \A e \in Exchanges : e \in Actors /\ BobKey(e) # None
      BY KeyFacts DEF Actors
    <3> QED
      BY <2>2, <3>1 DEF AloneInv, FieldsPaired
  <2> QED
    BY <2>1, <2>2 DEF PairCoherent
<1> QED
  BY <1>1, <1>2, <1>3, PTL DEF RaceSpec
==============================================================================
