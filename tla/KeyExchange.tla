----------------------------- MODULE KeyExchange -----------------------------
(***************************************************************************)
(* The Diffie-Hellman exchange between ClientMainApp (Alice) and the       *)
(* controller (Bob).  Alice posts her public key, throws the response away *)
(* and fetches Bob's public key with a second request.  In between, Bob's  *)
(* key and his secret are in two fields of the controller that all request *)
(* threads share without synchronisation.  Anybody may also overwrite them *)
(* with postBobPublicKey.                                                  *)
(*                                                                         *)
(* A key is a record of the parameters and the key pair it belongs to; the *)
(* secret computed from two key pairs of the same parameters is the set of *)
(* the two.  An exchange e is one run of the client; its POST has one      *)
(* handler, so e names the handler's key pair too.                         *)
(***************************************************************************)
EXTENDS Naturals, FiniteSets

CONSTANTS
  Exchanges,    \* runs of ClientMainApp.DiffieHellman
  Concurrent,   \* how many of them may be under way at the same time
  Posters,      \* requests to postBobPublicKey
  PostedKeys,   \* the keys they post
  Foreign,      \* parameters of a valid key from elsewhere
  Garbage,      \* bytes that are no encoded key
  MaxCrashes,   \* bound: crashes of the server
  None          \* null

ASSUME ExchangeAssumption ==
  /\ Concurrent \in Nat /\ MaxCrashes \in Nat
  /\ Exchanges \cap Posters = {}
  /\ Foreign \notin Exchanges

Key(params, owner, e) == [params |-> params, owner |-> owner, run |-> e]

ForeignKey == Key(Foreign, "bob", Foreign)

ASSUME PostedAssumption == PostedKeys \subseteq {ForeignKey, Garbage, None}

ASSUME NoKeyAssumption ==
  /\ Garbage # None
  /\ \A params \in Exchanges \cup {Foreign}, owner \in {"alice", "bob"},
        e \in Exchanges \cup {Foreign} : Key(params, owner, e) \notin {Garbage, None}

Actors == Exchanges \cup Posters

VARIABLES
  bobpublickeyEnc,  \* the controller's field: a key, Garbage or null
  privateKey,       \* the controller's field: a secret or null
  up,               \* whether the server answers
  pc,               \* [Actors -> label]: the next step of a request or client
  body,             \* [Posters -> the key posted]
  pub,              \* [Exchanges -> the body of getBobPublicKey's response]
  secret,           \* [Exchanges -> Alice's secret, or null]
  crashes           \* crashes so far

vars == <<bobpublickeyEnc, privateKey, up, pc, body, pub, secret, crashes>>

(* The array {0,0} that stands for a secret when an exception was caught. *)
Dummy == {}

(* Variant: setup("USE_SKIP_DH_PARAMS"), the same parameters everywhere. *)
SkipParams(e) == Foreign

(* setup("GENERATE_DH_PARAMS"): the client's parameters are its own. *)
Params(e) == e

(* AliceKeyGenerate *)
AliceKey(e) == Key(Params(e), "alice", e)

(* BobKeyGenerate: a new key pair with the parameters of Alice's key. *)
BobKey(e) == Key(AliceKey(e).params, "bob", e)

(* doPhase and generateSecret, with keys of different parameters refused. *)
Agree(own, other) == IF own.params = other.params THEN {own, other} ELSE Dummy

(* generateBobSecretKey, called by the handler of e's POST. *)
BobSecret(e) == Agree(BobKey(e), AliceKey(e))

(* generateAliceSecretKey: whatever goes wrong, {0,0} is returned. *)
AliceSecret(e, key) ==
  IF key \in {Garbage, None} THEN Dummy ELSE Agree(AliceKey(e), key)

Goto(a, label) == pc' = [pc EXCEPT ![a] = label]

fields == <<bobpublickeyEnc, privateKey>>
local == <<body, pub, secret>>

Init ==
  /\ bobpublickeyEnc = None
  /\ privateKey = None
  /\ up = TRUE
  /\ pc = [a \in Actors |-> "new"]
  /\ body = [p \in Posters |-> None]
  /\ pub = [e \in Exchanges |-> None]
  /\ secret = [e \in Exchanges |-> None]
  /\ crashes = 0

UnderWay == {e \in Exchanges : pc[e] \notin {"new", "done", "failed"}}

(* DiffieHellman: generate a key pair, then GET helloworld. *)
Begin(e) ==
  /\ pc[e] = "new"
  /\ Cardinality(UnderWay) < Concurrent
  /\ Goto(e, "hello")
  /\ UNCHANGED <<fields, local, up, crashes>>

(* The client sends its next request; a refused connection is an exception *)
(* and ends the run.                                                       *)
Send(e, at, next) ==
  /\ pc[e] = at
  /\ Goto(e, IF up THEN next ELSE "failed")
  /\ UNCHANGED <<fields, local, up, crashes>>

(* The client's three requests, in order. *)
Request(e) ==
  \/ Send(e, "hello", "post")
  \/ Send(e, "post", "pa.pub")
  \/ Send(e, "get", "gb.log")

(* postAlicePublicKey: store Bob's public key, then his secret, and answer *)
(* with the public key, which the client does not look at.                 *)
PostAlicePublicKey(e) ==
  \/ /\ pc[e] = "pa.pub"
     /\ bobpublickeyEnc' = BobKey(e)
     /\ Goto(e, "pa.secret")
     /\ UNCHANGED <<privateKey, local, up, crashes>>
  \/ /\ pc[e] = "pa.secret"
     /\ privateKey' = BobSecret(e)
     /\ Goto(e, "get")
     /\ UNCHANGED <<bobpublickeyEnc, local, up, crashes>>

(* Variant: null is returned like any other value. *)
GetBobPublicKeyOrNull(e) ==
  /\ pc[e] = "gb.log"
  /\ pub' = [pub EXCEPT ![e] = bobpublickeyEnc]
  /\ Goto(e, "derive")
  /\ UNCHANGED <<fields, body, secret, up, crashes>>

(* Variant: the handler waits for a key instead of failing. *)
GetBobPublicKeyWaits(e) ==
  /\ pc[e] = "gb.log" /\ bobpublickeyEnc # None
  /\ pub' = [pub EXCEPT ![e] = bobpublickeyEnc]
  /\ Goto(e, "derive")
  /\ UNCHANGED <<fields, body, secret, up, crashes>>

(* getBobPublicKey reads the field twice.  The log statement's toHexString *)
(* throws on null, which is a 500 and an exception in the client.          *)
GetBobPublicKey(e) ==
  \/ /\ pc[e] = "gb.log"
     /\ Goto(e, IF bobpublickeyEnc = None THEN "failed" ELSE "gb.return")
     /\ UNCHANGED <<fields, local, up, crashes>>
  \/ /\ pc[e] = "gb.return"
     /\ pub' = [pub EXCEPT ![e] = bobpublickeyEnc]
     /\ Goto(e, "derive")
     /\ UNCHANGED <<fields, body, secret, up, crashes>>

(* generateAliceSecretKey on the key that was fetched *)
GenerateAliceSecretKey(e) ==
  /\ pc[e] = "derive"
  /\ secret' = [secret EXCEPT ![e] = AliceSecret(e, pub[e])]
  /\ Goto(e, "done")
  /\ UNCHANGED <<fields, body, pub, up, crashes>>

(***************************************************************************)
(* postBobPublicKey: store the posted key, then compute a secret.  The     *)
(* KeyAgreement is a fresh one that BobKeyGenerate never initialised, so a *)
(* key that parses gives {0,0}; a null or unparsable one is an exception,  *)
(* after the key was stored and before the secret is.                      *)
(***************************************************************************)
PostBobPublicKey(p) ==
  \/ /\ pc[p] = "new" /\ up
     /\ \E key \in PostedKeys : body' = [body EXCEPT ![p] = key]
     /\ Goto(p, "pb.pub")
     /\ UNCHANGED <<fields, pub, secret, up, crashes>>
  \/ /\ pc[p] = "pb.pub"
     /\ bobpublickeyEnc' = body[p]
     /\ Goto(p, IF body[p] \in {Garbage, None} THEN "done" ELSE "pb.secret")
     /\ UNCHANGED <<privateKey, local, up, crashes>>
  \/ /\ pc[p] = "pb.secret"
     /\ privateKey' = Dummy
     /\ Goto(p, "done")
     /\ UNCHANGED <<bobpublickeyEnc, local, up, crashes>>

AtServer == {"pa.pub", "pa.secret", "gb.log", "gb.return", "pb.pub", "pb.secret"}

(* The server dies: the fields are lost and its requests fail. *)
Crash ==
  /\ up /\ crashes < MaxCrashes
  /\ up' = FALSE
  /\ crashes' = crashes + 1
  /\ bobpublickeyEnc' = None
  /\ privateKey' = None
  /\ pc' = [a \in Actors |-> IF pc[a] \in AtServer THEN "failed" ELSE pc[a]]
  /\ UNCHANGED local

Restart ==
  /\ ~up
  /\ up' = TRUE
  /\ UNCHANGED <<fields, pc, local, crashes>>

Step(e) ==
  \/ Request(e) \/ PostAlicePublicKey(e) \/ GetBobPublicKey(e)
  \/ GenerateAliceSecretKey(e)

Next ==
  \/ \E e \in Exchanges : Begin(e) \/ Step(e)
  \/ \E p \in Posters : PostBobPublicKey(p)
  \/ Crash
  \/ Restart

Spec == Init /\ [][Next]_vars

(* A run that has begun goes on: the client's thread and the handler's are *)
(* scheduled.  Nobody has to begin a run, to post a key, or to restart.    *)
Fairness == \A e \in Exchanges : WF_vars(Step(e))

FairSpec == Spec /\ Fairness

------------------------------------------------------------------------------
Labels == AtServer \cup {"new", "hello", "post", "get", "derive", "done", "failed"}

Keys == {BobKey(e) : e \in Exchanges} \cup {ForeignKey, Garbage, None}

(* The fields hold keys and secrets the handlers computed, and a client    *)
(* has a secret exactly when its run is done.                              *)
TypeOK ==
  /\ bobpublickeyEnc \in Keys
  /\ privateKey \in {BobSecret(e) : e \in Exchanges} \cup {Dummy, None}
  /\ up \in BOOLEAN
  /\ pc \in [Actors -> Labels]
  /\ body \in [Posters -> PostedKeys \cup {None}]
  /\ pub \in [Exchanges -> Keys]
  /\ \A e \in Exchanges :
       /\ pc[e] = "done" => secret[e] \subseteq Keys \cup {AliceKey(e)}
       /\ pc[e] # "done" => secret[e] = None
  /\ crashes \in 0 .. MaxCrashes

(***************************************************************************)
(* Agreement or nothing: with any number of clients racing through the     *)
(* shared fields, overwriting posts and crashes, a client never ends with  *)
(* a plausible secret that Bob does not have: it is the secret the handler *)
(* of its own POST computed, or {0,0}.  (PostedAssumption: nobody posts a  *)
(* key made with a client's own parameters.)                               *)
(***************************************************************************)
AgreementOrDummy ==
  \A e \in Exchanges : pc[e] = "done" => secret[e] \in {BobSecret(e), Dummy}

(***************************************************************************)
(* A run that is done has the secret of its handler.  The comment in       *)
(* generateBobSecretKey says so: both generate the same shared secret.     *)
(* It takes runs that come one at a time.                                  *)
(***************************************************************************)
SameSecret ==
  \A e \in Exchanges : pc[e] = "done" => secret[e] = BobSecret(e)

(***************************************************************************)
(* When runs come one at a time, the two fields belong together whenever   *)
(* no handler is between its two writes, also after a crash: the secret    *)
(* that getPrivateKey returns is the one of the key getBobPublicKey does.  *)
(***************************************************************************)
PairCoherent ==
  (\A a \in Actors : pc[a] \notin {"pa.secret", "pb.secret"}) =>
    IF bobpublickeyEnc = None THEN privateKey = None
    ELSE \E e \in Exchanges : bobpublickeyEnc = BobKey(e) /\ privateKey = BobSecret(e)

(* Every run that has begun ends, with a secret or with an exception. *)
ExchangeEnds == \A e \in Exchanges : e \in UnderWay ~> pc[e] \in {"done", "failed"}
==============================================================================
