------------------------------ MODULE MCServices ------------------------------
(***************************************************************************)
(* The two services of the server whose handlers race on state they share, *)
(* one of which is chosen in the initial state: a few runs of the key      *)
(* exchange client with posts of foreign keys, or request threads on a     *)
(* table of products.                                                      *)
(***************************************************************************)
EXTENDS MCKeyExchange, ProductStore

CONSTANTS shirt, mug, old, new

MCShirt == [productId |-> shirt, data |-> old]

MCMug == [productId |-> mug, data |-> old]

(* Posted products that differ from both: with the id of the first product *)
(* or one that may be free, and a version; or without one of them.         *)
MCAddBodies ==
  {[id |-> key[1], version |-> key[2], productId |-> mug, data |-> new] :
     key \in {1, MaxId} \X {0, 1} \cup {<<Null, Null>>, <<Null, 1>>, <<1, Null>>}}

VARIABLE part

ServicesInit == part \in {"keys", "products"} /\ RaceInit /\ StoreInit

(* The runs of the client may all have ended; the product API goes on. *)
ServicesNext ==
  /\ \/ part = "keys" /\ RaceNext /\ UNCHANGED storeVars
     \/ part = "products" /\ StoreNext /\ UNCHANGED mcVars
     \/ part = "keys" /\ UNCHANGED <<mcVars, storeVars>>
  /\ UNCHANGED part

(* Fairness asks nothing of a server that only handles products: no run of *)
(* the client has begun.                                                   *)
ServicesSpec == ServicesInit /\ [][ServicesNext]_<<mcVars, storeVars, part>> /\ Fairness
==============================================================================
