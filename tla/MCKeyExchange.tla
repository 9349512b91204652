---------------------------- MODULE MCKeyExchange ----------------------------
(* A few runs of the client, with posts of foreign keys.  The variable     *)
(* alone remembers whether the runs have come one at a time and nobody has *)
(* posted a key.                                                           *)
EXTENDS KeyExchange

AnyKey == {ForeignKey, Garbage, None}

VARIABLE alone

mcVars == <<vars, alone>>

RaceInit == Init /\ alone = TRUE

RaceNext ==
  /\ Next
  /\ alone' = (alone /\ (\A e, f \in UnderWay' : e = f) /\ (\A p \in Posters : pc'[p] = "new"))

RaceSpec == RaceInit /\ [][RaceNext]_mcVars

FairRaceSpec == RaceSpec /\ Fairness

(* While runs come one at a time, the one that is done has the secret of   *)
(* its handler, also after crashes between its requests, and the           *)
(* controller's two fields belong together whenever no handler is between  *)
(* its two writes: getPrivateKey answers with the secret of the key that   *)
(* getBobPublicKey answers with.                                           *)
AloneAgrees == alone => SameSecret /\ PairCoherent
==============================================================================
