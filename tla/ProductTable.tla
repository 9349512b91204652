----------------------------- MODULE ProductTable -----------------------------
(***************************************************************************)
(* What the product API promises its clients: a table of products whose    *)
(* operations are atomic.  Every product has an id the table chose, in the *)
(* order of the inserts; only a product that is there can be changed or    *)
(* removed, and one that was removed does not come back.  The table lives  *)
(* in memory: a restart empties it and counts ids from 1 again.            *)
(***************************************************************************)
EXTENDS Naturals

CONSTANTS
  MaxId,       \* bound on the ids given out
  ProductIds,  \* application-specific product ids
  Data,        \* description, image URL and price of a product
  None         \* null

VARIABLES
  products,  \* [Ids -> Product or None]
  nextId     \* the next id to give out

Ids == 1 .. MaxId

Product == [productId: ProductIds, data: Data]

tableVars == <<products, nextId>>

TableInit ==
  /\ products = [i \in Ids |-> None]
  /\ nextId = 1

Insert(p) ==
  /\ nextId \in Ids
  /\ products' = [products EXCEPT ![nextId] = p]
  /\ nextId' = nextId + 1

(* update writes new data, add with the id and version of a stored product *)
(* all columns.                                                            *)
Replace(i, p) ==
  /\ products[i] # None
  /\ products' = [products EXCEPT ![i] = p]
  /\ UNCHANGED nextId

Remove(i) ==
  /\ products[i] # None
  /\ products' = [products EXCEPT ![i] = None]
  /\ UNCHANGED nextId

Clear == products' = [i \in Ids |-> None] /\ nextId' = 1

TableNext ==
  \/ \E p \in Product : Insert(p)
  \/ \E i \in Ids, p \in Product : Replace(i, p)
  \/ \E i \in Ids : Remove(i)
  \/ Clear

TableSpec == TableInit /\ [][TableNext]_tableVars
==============================================================================
