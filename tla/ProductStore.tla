----------------------------- MODULE ProductStore -----------------------------
(***************************************************************************)
(* The product API: ProductController and ProductServiceImpl on a JPA      *)
(* repository over an in-memory H2 table, with Product's @Version column   *)
(* as optimistic lock.                                                     *)
(*                                                                         *)
(* The persistence context stays open for the whole request (Spring Boot's *)
(* default), so updateProduct works on the entity it loaded: it reads the  *)
(* row in one step (getProductById) and writes it in a later one           *)
(* (saveProduct), with UPDATE ... WHERE id = ? AND version = ?.  Other     *)
(* requests run in between.  delete reads and deletes the same way.        *)
(***************************************************************************)
EXTENDS Naturals

CONSTANTS
  Threads,      \* request threads
  MaxId,        \* bound: ids the table gives out
  MaxVersion,   \* bound: versions of a row
  ProductIds,
  Data,         \* description, image URL and price of a product
  AddBodies,    \* the products clients post to add
  Shirt, Mug,   \* the two products SpringJpaBootstrap saves
  Null          \* null

Ids == 1 .. MaxId

Versions == 0 .. MaxVersion

Product == [productId: ProductIds, data: Data]

ASSUME StoreAssumption ==
  /\ MaxId \in Nat /\ MaxVersion \in Nat
  /\ Shirt \in Product /\ Mug \in Product
  /\ AddBodies \subseteq [id: Ids \cup {Null}, version: Versions \cup {Null},
                           productId: ProductIds, data: Data]
  /\ Null \notin ProductIds \cup Data \cup Nat

Row == [version: Versions, productId: ProductIds, data: Data]

ASSUME NoneIsNoRow == Null \notin Row \cup Product

(* The requests.  The body of add may carry an id and a version; update    *)
(* takes the id from the path and only the data from the body.             *)
ProductRequest ==
  [op: {"add"}, body: AddBodies]
  \cup [op: {"update"}, id: Ids, data: Data]
  \cup [op: {"delete"}, id: Ids]

VARIABLES
  rows,     \* [Ids -> Row or Null]: the table
  nextId,   \* the identity column's next value
  births,   \* history: [Ids -> how many rows got the id since the last start]
  started,  \* whether the context has started and requests are let in
  phase,    \* [Threads -> {"idle", "start", "save"}]
  req,      \* the request each thread handles
  loaded,   \* the row the entity was loaded from, null before
  reply     \* the HTTP status of the last request, null while it runs

table == <<rows, nextId, births>>

storeVars == <<table, started, phase, req, loaded, reply>>

StoreInit ==
  /\ rows = [i \in Ids |-> Null]
  /\ nextId = 1
  /\ births = [i \in Ids |-> 0]
  /\ started = FALSE
  /\ phase = [t \in Threads |-> "idle"]
  /\ req = [t \in Threads |-> Null]
  /\ loaded = [t \in Threads |-> Null]
  /\ reply = [t \in Threads |-> Null]

(* Variant: the identity column does not advance. *)
InsertRowSameId(version, p) ==
  /\ nextId \in Ids
  /\ rows' = [rows EXCEPT ![nextId] =
                [version |-> version, productId |-> p.productId, data |-> p.data]]
  /\ births' = [births EXCEPT ![nextId] = @ + 1]
  /\ UNCHANGED nextId

(* INSERT: a new row, under the identity column's next value. *)
InsertRow(version, p) ==
  /\ nextId \in Ids
  /\ rows' = [rows EXCEPT ![nextId] =
                [version |-> version, productId |-> p.productId, data |-> p.data]]
  /\ births' = [births EXCEPT ![nextId] = @ + 1]
  /\ nextId' = nextId + 1

Done(t, status) ==
  /\ phase' = [phase EXCEPT ![t] = "idle"]
  /\ reply' = [reply EXCEPT ![t] = status]
  /\ req' = [req EXCEPT ![t] = Null]
  /\ loaded' = [loaded EXCEPT ![t] = Null]
  /\ UNCHANGED started

(***************************************************************************)
(* loadProducts: on the context's refresh, before the server accepts       *)
(* requests, save the shirt and then the mug.                              *)
(***************************************************************************)
LoadProducts ==
  /\ ~started
  /\ IF nextId = 1
     THEN InsertRow(0, Shirt) /\ UNCHANGED started
     ELSE InsertRow(0, Mug) /\ started' = TRUE
  /\ UNCHANGED <<phase, req, loaded, reply>>

Receive(t) ==
  /\ started /\ phase[t] = "idle"
  /\ \E r \in ProductRequest : req' = [req EXCEPT ![t] = r]
  /\ phase' = [phase EXCEPT ![t] = "start"]
  /\ reply' = [reply EXCEPT ![t] = Null]
  /\ UNCHANGED <<table, started, loaded>>

Current(i, v) == rows[i] # Null /\ rows[i].version = v

(* Variant: no @Version in the WHERE clause. *)
UpdateRowUnchecked(i, v, p) ==
  /\ v < MaxVersion
  /\ rows' = [rows EXCEPT ![i] =
                [version |-> v + 1, productId |-> p.productId, data |-> p.data]]
  /\ UNCHANGED <<nextId, births>>

(* Variant: the version is checked and not counted up. *)
UpdateRowSameVersion(i, v, p) ==
  /\ Current(i, v)
  /\ rows' = [rows EXCEPT ![i] =
                [version |-> v, productId |-> p.productId, data |-> p.data]]
  /\ UNCHANGED <<nextId, births>>

(* UPDATE ... WHERE id = i AND version = v: writes every column and counts *)
(* the version up; finding no such row is the optimistic lock's failure.   *)
UpdateRow(i, v, p) ==
  /\ Current(i, v) /\ v < MaxVersion
  /\ rows' = [rows EXCEPT ![i] =
                [version |-> v + 1, productId |-> p.productId, data |-> p.data]]
  /\ UNCHANGED <<nextId, births>>

SameColumns(row, p) == row.productId = p.productId /\ row.data = p.data

(***************************************************************************)
(* saveProduct(product) with the posted product, which is not managed.  A  *)
(* product without version is new: persist inserts it, and refuses it when *)
(* it has an id.  Otherwise merge looks the id up: no such row (or no id), *)
(* it is inserted under a NEW id, keeping the posted version; a row of     *)
(* another version is an optimistic locking failure; a row of the same     *)
(* version is updated when a column differs.                               *)
(***************************************************************************)
SaveProduct(t) ==
  LET r == req[t].body
      known == r.id # Null /\ rows[r.id] # Null
  IN
  /\ phase[t] = "start" /\ req[t].op = "add"
  /\ \/ /\ r.version = Null /\ r.id = Null
        /\ InsertRow(0, r)
        /\ Done(t, "200")
     \/ /\ r.version = Null /\ r.id # Null
        /\ Done(t, "500")
        /\ UNCHANGED table
     \/ /\ r.version # Null /\ ~known
        /\ InsertRow(r.version, r)
        /\ Done(t, "200")
     \/ /\ r.version # Null /\ known /\ ~Current(r.id, r.version)
        /\ Done(t, "500")
        /\ UNCHANGED table
     \/ /\ r.version # Null /\ known /\ SameColumns(rows[r.id], r)
        /\ Current(r.id, r.version)
        /\ Done(t, "200")
        /\ UNCHANGED table
     \/ /\ r.version # Null /\ known /\ ~SameColumns(rows[r.id], r)
        /\ UpdateRow(r.id, r.version, r)
        /\ Done(t, "200")

(* The read that update and delete start with.  updateProduct on a missing *)
(* product dereferences null; deleting one is an exception of the          *)
(* repository.                                                             *)
FindOne(t) ==
  LET row == rows[req[t].id] IN
  /\ phase[t] = "start" /\ req[t].op \in {"update", "delete"}
  /\ \/ /\ row = Null
        /\ Done(t, "500")
     \/ /\ row # Null
        /\ loaded' = [loaded EXCEPT ![t] = row]
        /\ phase' = [phase EXCEPT ![t] = "save"]
        /\ UNCHANGED <<started, req, reply>>
  /\ UNCHANGED table

(***************************************************************************)
(* updateProduct after the read: set description, image and price on the   *)
(* loaded entity (not the productId, and not the posted version) and save  *)
(* it.  Hibernate writes nothing when nothing changed.                     *)
(***************************************************************************)
UpdateProduct(t) ==
  LET r == req[t]
      entity == [loaded[t] EXCEPT !.data = r.data]
  IN
  /\ phase[t] = "save" /\ r.op = "update"
  /\ \/ /\ entity = loaded[t]
        /\ Done(t, "200")
        /\ UNCHANGED table
     \/ /\ entity # loaded[t]
        /\ UpdateRow(r.id, entity.version, entity)
        /\ Done(t, "200")
     \/ /\ entity # loaded[t]
        /\ ~Current(r.id, entity.version)
        /\ Done(t, "500")
        /\ UNCHANGED table

(* Variant: deleting the last row gives its id back. *)
DeleteRowFreesId(i, v) ==
  /\ Current(i, v)
  /\ rows' = [rows EXCEPT ![i] = Null]
  /\ nextId' = IF i + 1 = nextId THEN i ELSE nextId
  /\ UNCHANGED births

(* deleteProduct's DELETE ... WHERE id = i AND version = v *)
DeleteRow(i, v) ==
  /\ Current(i, v)
  /\ rows' = [rows EXCEPT ![i] = Null]
  /\ UNCHANGED <<nextId, births>>

(* delete after the read: finding no such row is an exception. *)
DeleteProduct(t) ==
  LET i == req[t].id IN
  /\ phase[t] = "save" /\ req[t].op = "delete"
  /\ \/ /\ DeleteRow(i, loaded[t].version)
        /\ Done(t, "200")
     \/ /\ ~Current(i, loaded[t].version)
        /\ Done(t, "500")
        /\ UNCHANGED table

(* The process restarts: the in-memory table and the requests are gone. *)
StoreRestart ==
  /\ started
  /\ rows' = [i \in Ids |-> Null]
  /\ nextId' = 1
  /\ births' = [i \in Ids |-> 0]
  /\ started' = FALSE
  /\ phase' = [t \in Threads |-> "idle"]
  /\ req' = [t \in Threads |-> Null]
  /\ loaded' = [t \in Threads |-> Null]
  /\ reply' = [t \in Threads |-> Null]

StoreNext ==
  \/ LoadProducts
  \/ \E t \in Threads :
       Receive(t) \/ SaveProduct(t) \/ FindOne(t) \/ UpdateProduct(t) \/ DeleteProduct(t)
  \/ StoreRestart

StoreSpec == StoreInit /\ [][StoreNext]_storeVars

------------------------------------------------------------------------------
(* Every variable stays in the set its declaration names; a thread has     *)
(* loaded a row exactly between the two steps of update and delete.        *)
StoreTypeOK ==
  /\ rows \in [Ids -> Row \cup {Null}]
  /\ nextId \in 1 .. MaxId + 1
  /\ births \in [Ids -> Nat]
  /\ started \in BOOLEAN
  /\ phase \in [Threads -> {"idle", "start", "save"}]
  /\ req \in [Threads -> ProductRequest \cup {Null}]
  /\ loaded \in [Threads -> Row \cup {Null}]
  /\ reply \in [Threads -> {"200", "500", Null}]
  /\ \A t \in Threads :
       /\ phase[t] # "idle" => req[t] \in ProductRequest
       /\ phase[t] = "save" => loaded[t] \in Row /\ req[t].op # "add"

(***************************************************************************)
(* An id belongs to one product: from one start of the server to the next, *)
(* however adds, deletes and restarts interleave, no id is given to two    *)
(* rows, and every stored row has an id that was given out.  So a request  *)
(* that holds the id of a deleted product never meets another product      *)
(* under it.  (A restart empties the table and counts from 1 again.)       *)
(***************************************************************************)
IdsFresh ==
  \A i \in Ids : births[i] <= 1 /\ (rows[i] # Null => births[i] = 1)

(***************************************************************************)
(* The version identifies the contents of a row: if the row a request      *)
(* loaded still has the version it had, nothing in it has changed.  This   *)
(* is what the WHERE clauses of UPDATE and DELETE rely on.                 *)
(***************************************************************************)
VersionIdentifiesRow ==
  \A t \in Threads :
    LET row == rows[req[t].id] IN
    phase[t] = "save" /\ row # Null /\ row.version = loaded[t].version => row = loaded[t]

(***************************************************************************)
(* No lost update: a step that answers an update or a delete with 200      *)
(* changes the row only if the row is still the one that request had read; *)
(* in particular it never brings a deleted product back.                   *)
(***************************************************************************)
NoLostUpdate ==
  [][\A t \in Threads :
       phase[t] = "save" /\ phase'[t] = "idle" /\ rows'[req[t].id] # rows[req[t].id]
         => rows[req[t].id] = loaded[t] \/ ~started']_storeVars

(* The abstract table this store implements. *)
Table == INSTANCE ProductTable WITH
  None <- Null,
  products <- [i \in Ids |->
                 IF rows[i] = Null THEN Null
                 ELSE [productId |-> rows[i].productId, data |-> rows[i].data]]

(* Every interleaving of the handlers looks to the table's clients like    *)
(* atomic operations: the store implements ProductTable.                   *)
ImplementsTable == Table!TableSpec
==============================================================================
