-------------------------- MODULE ProductStoreProofs --------------------------
(***************************************************************************)
(* Proofs about ProductStore, for any number of threads and any bounds:    *)
(* its types, that ids are fresh, that the version identifies the contents *)
(* of a row, that no update is lost and that the store implements          *)
(* ProductTable.                                                           *)
(***************************************************************************)
EXTENDS ProductStore, TLAPS

(***************************************************************************)
(* The inductive invariant.  VersionIdentifiesRow is not inductive: a row  *)
(* that changed might change back to the version that was loaded.  It does *)
(* not because versions only grow while a row lives (the second conjunct), *)
(* and because the id of a deleted row is never given out again (the first *)
(* conjunct, with Numbered).                                               *)
(***************************************************************************)
KeptOf(t) ==
  LET i == req[t].id IN
  phase[t] = "save" =>
    /\ i < nextId
    /\ rows[i] # Null =>
         /\ loaded[t].version <= rows[i].version
         /\ rows[i].version = loaded[t].version => rows[i] = loaded[t]

(* The ids below nextId have been given out once each, the others never,   *)
(* and only an id that was given out has a row.                            *)
Numbered ==
  \A i \in Ids :
    /\ births[i] = (IF i < nextId THEN 1 ELSE 0)
    /\ i >= nextId => rows[i] = Null

IInv == StoreTypeOK /\ Numbered /\ \A t \in Threads : KeptOf(t)

(* What a step may do to the rows that were given out: leave a row, delete *)
(* it, or count its version up.                                                 *)
Grows ==
  /\ nextId <= nextId'
  /\ \A i \in Ids : i < nextId =>
       \/ rows'[i] = rows[i]
       \/ rows'[i] = Null
       \/ rows[i] # Null /\ rows[i].version < rows'[i].version

TableOK ==
  /\ rows' \in [Ids -> Row \cup {Null}]
  /\ nextId' \in 1 .. MaxId + 1
  /\ births' \in [Ids -> Nat]
  /\ Numbered'
  /\ Grows

------------------------------------------------------------------------------
(* A request other than add names an id of the table. *)
LEMMA IdOfRequest ==
  ASSUME NEW r \in ProductRequest, r.op # "add"
  PROVE  r.id \in Ids /\ (r.op = "update" => r.data \in Data)
BY DEF ProductRequest

(* The body of an add is one of the posted products. *)
LEMMA BodyOfRequest ==
  ASSUME NEW r \in ProductRequest, r.op = "add"
  PROVE  /\ r.body.id \in Ids \cup {Null}
         /\ r.body.version \in Versions \cup {Null}
         /\ r.body.productId \in ProductIds
         /\ r.body.data \in Data
BY StoreAssumption DEF ProductRequest

(* INSERT keeps the table well-formed. *)
LEMMA InsertKeeps ==
  ASSUME StoreTypeOK, Numbered, NEW v \in Versions, NEW p,
         p.productId \in ProductIds, p.data \in Data, InsertRow(v, p)
  PROVE  TableOK
<1> DEFINE row == [version |-> v, productId |-> p.productId, data |-> p.data]
<1>1. row \in Row
  BY DEF Row
<1>2. nextId \in Ids /\ nextId \in Nat /\ nextId' = nextId + 1 /\ MaxId \in Nat
  BY StoreAssumption DEF InsertRow, Ids
<1>3. rows' = [rows EXCEPT ![nextId] = row] /\ rows \in [Ids -> Row \cup {Null}]
  BY DEF InsertRow, StoreTypeOK
<1> HIDE DEF row
<1>4. rows' \in [Ids -> Row \cup {Null}]
  BY <1>1, <1>2, <1>3
<1>5. nextId' \in 1 .. MaxId + 1
  BY <1>2 DEF Ids
<1>8. births' = [births EXCEPT ![nextId] = births[nextId] + 1] /\ births \in [Ids -> Nat]
  BY DEF InsertRow, StoreTypeOK
<1>9. births' \in [Ids -> Nat]
  BY <1>2, <1>8
<1>6. Numbered'
  <2> SUFFICES ASSUME NEW i \in Ids
               PROVE  /\ births'[i] = (IF i < nextId' THEN 1 ELSE 0)
                      /\ i >= nextId' => rows'[i] = Null
    BY DEF Numbered
  <2>1. i \in Nat /\ births[i] = (IF i < nextId THEN 1 ELSE 0) /\ (i >= nextId => rows[i] = Null)
    BY DEF Numbered, Ids
  <2>2. CASE i = nextId
    BY <1>2, <1>8, <2>1, <2>2
  <2>3. CASE i # nextId
    BY <1>2, <1>3, <1>8, <2>1, <2>3
  <2> QED
    BY <2>2, <2>3
<1>7. Grows
  BY <1>2, <1>3 DEF Grows, Ids
<1> QED
  BY <1>4, <1>5, <1>6, <1>7, <1>9 DEF TableOK

(* UPDATE keeps the table well-formed and counts the version up. *)
LEMMA UpdateKeeps ==
  ASSUME StoreTypeOK, Numbered, NEW i \in Ids, NEW v \in Versions, NEW p,
         p.productId \in ProductIds, p.data \in Data, UpdateRow(i, v, p)
  PROVE  TableOK
<1> DEFINE row == [version |-> v + 1, productId |-> p.productId, data |-> p.data]
<1>1. v + 1 \in Versions /\ v \in Nat
  BY StoreAssumption DEF UpdateRow, Versions
<1>2. row \in Row /\ row.version = v + 1
  BY <1>1 DEF Row
<1>3. rows[i] # Null /\ rows[i].version = v /\ nextId' = nextId /\ births' = births
  BY DEF UpdateRow, Current
<1>4. rows' = [rows EXCEPT ![i] = row] /\ rows \in [Ids -> Row \cup {Null}] /\ nextId \in 1 .. MaxId + 1
  BY DEF UpdateRow, StoreTypeOK
<1> HIDE DEF row
<1>5. rows' \in [Ids -> Row \cup {Null}]
  BY <1>2, <1>4
<1>6. Numbered'
  BY <1>3, <1>4 DEF Numbered
<1>7. nextId \in Nat
  BY <1>4, StoreAssumption
<1>8. Grows
  BY <1>1, <1>2, <1>3, <1>4, <1>7 DEF Grows
<1> QED
  BY <1>3, <1>4, <1>5, <1>6, <1>8 DEF TableOK, StoreTypeOK

(* DELETE keeps the table well-formed. *)
LEMMA DeleteKeeps ==
  ASSUME StoreTypeOK, Numbered, NEW i \in Ids, NEW v, DeleteRow(i, v)
  PROVE  TableOK
<1>1. rows' = [rows EXCEPT ![i] = Null] /\ nextId' = nextId /\ births' = births
  BY DEF DeleteRow
<1>2. rows \in [Ids -> Row \cup {Null}] /\ nextId \in 1 .. MaxId + 1 /\ nextId \in Nat
  BY StoreAssumption DEF StoreTypeOK
<1> QED
  BY <1>1, <1>2 DEF TableOK, Numbered, Grows, StoreTypeOK

(* So does leaving it alone. *)
LEMMA SameKeeps ==
  ASSUME StoreTypeOK, Numbered, UNCHANGED table
  PROVE  TableOK
<1>1. nextId \in Nat /\ UNCHANGED <<rows, nextId, births>>
  BY StoreAssumption DEF StoreTypeOK, table
<1> QED
  BY <1>1 DEF StoreTypeOK, TableOK, Numbered, Grows

------------------------------------------------------------------------------
(* A thread that is not part of a step keeps what it relies on.            *)
LEMMA KeptStable ==
  ASSUME StoreTypeOK, TableOK, NEW u \in Threads, KeptOf(u),
         phase'[u] = phase[u], req'[u] = req[u], loaded'[u] = loaded[u]
  PROVE  KeptOf(u)'
<1>1. SUFFICES ASSUME phase[u] = "save" PROVE KeptOf(u)'
  BY DEF KeptOf
<1> DEFINE i == req[u].id
<1>2. i \in Ids /\ loaded[u] \in Row
  BY <1>1, IdOfRequest DEF StoreTypeOK
<1>3. i < nextId /\ nextId <= nextId' /\ nextId \in Nat /\ nextId' \in Nat /\ i \in Nat
  BY <1>1, <1>2, StoreAssumption DEF KeptOf, StoreTypeOK, TableOK, Grows, Ids
<1>4. rows[i] \in Row \cup {Null} /\ rows'[i] \in Row \cup {Null}
  BY <1>2 DEF StoreTypeOK, TableOK
<1>5. \A r \in Row : r.version \in Nat
  BY StoreAssumption DEF Row, Versions
<1>6. \/ rows'[i] = rows[i]
      \/ rows'[i] = Null
      \/ rows[i] # Null /\ rows[i].version < rows'[i].version
  BY <1>2, <1>3 DEF TableOK, Grows
<1>7. i < nextId'
  BY <1>3
<1>8. rows[i] # Null =>
        /\ loaded[u].version <= rows[i].version
        /\ rows[i].version = loaded[u].version => rows[i] = loaded[u]
  BY <1>1 DEF KeptOf
<1>9. rows'[i] # Null =>
        /\ loaded[u].version <= rows'[i].version
        /\ rows'[i].version = loaded[u].version => rows'[i] = loaded[u]
  BY <1>2, <1>4, <1>5, <1>6, <1>8
<1> QED
  BY <1>7, <1>9 DEF KeptOf

(* The end of a request, with whatever it did to the table. *)
LEMMA DoneKeeps ==
  ASSUME IInv, TableOK, NEW t \in Threads, NEW s \in {"200", "500"}, Done(t, s)
  PROVE  IInv'
<1>1. StoreTypeOK'
  BY DEF IInv, StoreTypeOK, TableOK, Done
<1>2. ASSUME NEW u \in Threads PROVE KeptOf(u)'
  <2>1. CASE u = t
    BY <2>1 DEF IInv, StoreTypeOK, Done, KeptOf
  <2>2. CASE u # t
    BY <2>2, KeptStable DEF IInv, StoreTypeOK, Done
  <2> QED
    BY <2>1, <2>2
<1> QED
  BY <1>1, <1>2 DEF IInv, TableOK

------------------------------------------------------------------------------
(* The initial state satisfies the invariant. *)
LEMMA InitIInv ==
  ASSUME StoreInit
  PROVE  IInv
<1>1. nextId \in 1 .. MaxId + 1
  BY StoreAssumption DEF StoreInit
<1>2. started \in BOOLEAN
  BY Zenon DEF StoreInit
<1>3. StoreTypeOK
  BY <1>1, <1>2 DEF StoreInit, StoreTypeOK
<1>4. Numbered
  BY StoreAssumption DEF StoreInit, Numbered, Ids
<1>5. \A t \in Threads : KeptOf(t)
  BY DEF StoreInit, KeptOf
<1> QED
  BY <1>3, <1>4, <1>5 DEF IInv

(* loadProducts inserts the two products; no request is under way.         *)
LEMMA LoadKeeps ==
  ASSUME IInv, LoadProducts
  PROVE  IInv'
<1>1. Shirt.productId \in ProductIds /\ Shirt.data \in Data /\ Mug.productId \in ProductIds /\ Mug.data \in Data
  BY StoreAssumption DEF Product
<1>2. 0 \in Versions
  BY StoreAssumption DEF Versions
<1>3. TableOK
  BY <1>1, <1>2, InsertKeeps DEF LoadProducts, IInv
<1>4. UNCHANGED <<phase, req, loaded, reply>> /\ started' \in BOOLEAN
  BY Zenon DEF LoadProducts, IInv, StoreTypeOK
<1>5. StoreTypeOK'
  BY <1>3, <1>4 DEF IInv, StoreTypeOK, TableOK
<1>6. \A u \in Threads : KeptOf(u)'
  BY <1>3, <1>4, KeptStable DEF IInv
<1> QED
  BY <1>3, <1>5, <1>6 DEF IInv, TableOK

(* A request arrives. *)
LEMMA ReceiveKeeps ==
  ASSUME IInv, NEW t \in Threads, Receive(t)
  PROVE  IInv'
<1>1. TableOK
  BY SameKeeps DEF Receive, IInv
<1>2. StoreTypeOK'
  BY DEF IInv, StoreTypeOK, Receive, table
<1>3. ASSUME NEW u \in Threads PROVE KeptOf(u)'
  <2>1. CASE u = t
    BY <2>1 DEF IInv, StoreTypeOK, Receive, KeptOf
  <2>2. CASE u # t
    BY <1>1, <2>2, KeptStable DEF IInv, StoreTypeOK, Receive
  <2> QED
    BY <2>1, <2>2
<1> QED
  BY <1>1, <1>2, <1>3 DEF IInv, TableOK

(* saveProduct inserts, updates, or answers without writing. *)
LEMMA SaveKeeps ==
  ASSUME IInv, NEW t \in Threads, SaveProduct(t)
  PROVE  IInv'
<1> DEFINE r == req[t].body
<1>1. /\ r.id \in Ids \cup {Null} /\ r.version \in Versions \cup {Null}
      /\ r.productId \in ProductIds /\ r.data \in Data
  BY BodyOfRequest DEF SaveProduct, IInv, StoreTypeOK
<1>2. 0 \in Versions
  BY StoreAssumption DEF Versions
<1>3. \E s \in {"200", "500"} : Done(t, s)
  BY DEF SaveProduct
<1>4. \/ InsertRow(0, r)
      \/ r.version # Null /\ InsertRow(r.version, r)
      \/ r.version # Null /\ r.id # Null /\ UpdateRow(r.id, r.version, r)
      \/ UNCHANGED table
  BY DEF SaveProduct
<1> HIDE DEF r
<1>5. TableOK
  BY <1>1, <1>2, <1>4, InsertKeeps, UpdateKeeps, SameKeeps DEF IInv
<1> QED
  BY <1>3, <1>5, DoneKeeps

(* The read of update and delete: the row it loads has been given out.     *)
LEMMA FindKeeps ==
  ASSUME IInv, NEW t \in Threads, FindOne(t)
  PROVE  IInv'
<1> DEFINE i == req[t].id
<1>1. i \in Ids /\ req[t] \in ProductRequest /\ req[t].op # "add"
  BY IdOfRequest DEF FindOne, IInv, StoreTypeOK
<1>2. TableOK
  BY SameKeeps DEF FindOne, IInv
<1>3. CASE rows[i] = Null
  BY <1>2, <1>3, DoneKeeps DEF FindOne
<1>4. CASE rows[i] # Null
  <2>1. /\ loaded' = [loaded EXCEPT ![t] = rows[i]] /\ phase' = [phase EXCEPT ![t] = "save"]
        /\ UNCHANGED <<started, req, reply, table>>
    BY <1>4 DEF FindOne
  <2>2. rows[i] \in Row
    BY <1>1, <1>4 DEF IInv, StoreTypeOK
  <2>3. StoreTypeOK'
    BY <1>1, <2>1, <2>2 DEF IInv, StoreTypeOK, table
  <2>4. ASSUME NEW u \in Threads PROVE KeptOf(u)'
    <3>1. CASE u = t
      <4>1. i < nextId
        BY <1>1, <1>4, StoreAssumption DEF IInv, Numbered, StoreTypeOK, Ids
      <4>2. rows[i].version <= rows[i].version
        BY <2>2, StoreAssumption DEF Row, Versions
      <4>3. loaded'[u] = rows[i] /\ rows'[i] = rows[i] /\ req'[u].id = i /\ nextId' = nextId
        BY <2>1, <3>1 DEF IInv, StoreTypeOK, table
      <4> QED
        BY <4>1, <4>2, <4>3 DEF KeptOf
    <3>2. CASE u # t
      BY <1>2, <2>1, <3>2, KeptStable DEF IInv, StoreTypeOK
    <3> QED
      BY <3>1, <3>2
  <2> QED
    BY <1>2, <2>3, <2>4 DEF IInv, TableOK
<1> QED
  BY <1>3, <1>4

(* updateProduct's write. *)
LEMMA UpdateProductKeeps ==
  ASSUME IInv, NEW t \in Threads, UpdateProduct(t)
  PROVE  IInv'
<1> DEFINE entity == [loaded[t] EXCEPT !.data = req[t].data]
<1>1. req[t].id \in Ids /\ req[t].data \in Data /\ loaded[t] \in Row
  BY IdOfRequest DEF UpdateProduct, IInv, StoreTypeOK
<1>2. entity.version \in Versions /\ entity.productId \in ProductIds /\ entity.data \in Data
  BY <1>1 DEF Row
<1>3. \E s \in {"200", "500"} : Done(t, s)
  BY DEF UpdateProduct
<1>4. UpdateRow(req[t].id, entity.version, entity) \/ UNCHANGED table
  BY DEF UpdateProduct
<1> HIDE DEF entity
<1>5. TableOK
  BY <1>1, <1>2, <1>4, UpdateKeeps, SameKeeps DEF IInv
<1> QED
  BY <1>3, <1>5, DoneKeeps

(* delete's write. *)
LEMMA DeleteProductKeeps ==
  ASSUME IInv, NEW t \in Threads, DeleteProduct(t)
  PROVE  IInv'
<1>1. req[t].id \in Ids
  BY IdOfRequest DEF DeleteProduct, IInv, StoreTypeOK
<1>2. \E s \in {"200", "500"} : Done(t, s)
  BY DEF DeleteProduct
<1>3. DeleteRow(req[t].id, loaded[t].version) \/ UNCHANGED table
  BY DEF DeleteProduct
<1>4. TableOK
  BY <1>1, <1>3, DeleteKeeps, SameKeeps DEF IInv
<1> QED
  BY <1>2, <1>4, DoneKeeps

(* A restart empties everything. *)
LEMMA RestartKeeps ==
  ASSUME IInv, StoreRestart
  PROVE  IInv'
<1>1. nextId' \in 1 .. MaxId + 1
  BY StoreAssumption DEF StoreRestart
<1>2. started' \in BOOLEAN
  BY Zenon DEF StoreRestart
<1>3. StoreTypeOK'
  BY <1>1, <1>2 DEF StoreRestart, StoreTypeOK
<1>4. Numbered'
  BY StoreAssumption DEF StoreRestart, Numbered, Ids
<1>5. \A t \in Threads : KeptOf(t)'
  BY DEF StoreRestart, KeptOf
<1> QED
  BY <1>3, <1>4, <1>5 DEF IInv

(* Every step keeps the invariant. *)
LEMMA NextKeeps ==
  ASSUME IInv, [StoreNext]_storeVars
  PROVE  IInv'
<1>1. CASE UNCHANGED storeVars
  BY <1>1 DEF storeVars, table, IInv, StoreTypeOK, Numbered, KeptOf
<1>2. CASE StoreNext
  BY <1>2, LoadKeeps, ReceiveKeeps, SaveKeeps, FindKeeps, UpdateProductKeeps, DeleteProductKeeps, RestartKeeps
     DEF StoreNext
<1> QED
  BY <1>1, <1>2

(* The invariant holds in every state the product API reaches. *)
LEMMA StoreInvariant == StoreSpec => []IInv
<1>1. StoreInit => IInv
  BY InitIInv
<1>2. IInv /\ [StoreNext]_storeVars => IInv'
  BY NextKeeps
<1> QED
  BY <1>1, <1>2, PTL DEF StoreSpec

(* The types of the product API's table, counter and requests. *)
THEOREM StoreTypes == StoreSpec => []StoreTypeOK
<1>1. IInv => StoreTypeOK
  BY DEF IInv
<1> QED
  BY <1>1, StoreInvariant, PTL

(* An id belongs to one product: from one start of the server to the next  *)
(* the identity column gives no id to two rows.                            *)
THEOREM FreshIds == StoreSpec => []IdsFresh
<1>1. IInv => IdsFresh
  BY StoreAssumption DEF IInv, Numbered, IdsFresh, StoreTypeOK, Ids
<1> QED
  BY <1>1, StoreInvariant, PTL

(* What the optimistic lock relies on: the same version, the same row.     *)
THEOREM VersionsIdentify == StoreSpec => []VersionIdentifiesRow
<1>1. IInv => VersionIdentifiesRow
  BY DEF IInv, KeptOf, VersionIdentifiesRow
<1> QED
  BY <1>1, StoreInvariant, PTL

------------------------------------------------------------------------------
(* A step that ends a request has found the row as it was loaded, or left  *)
(* it alone; only a restart takes rows away otherwise.                     *)
LEMMA WriteChecked ==
  ASSUME IInv, StoreNext, NEW t \in Threads, phase[t] = "save", phase'[t] = "idle",
         rows'[req[t].id] # rows[req[t].id]
  PROVE  rows[req[t].id] = loaded[t] \/ ~started'
<1>1. phase \in [Threads -> {"idle", "start", "save"}]
  BY DEF IInv, StoreTypeOK
<1>2. CASE LoadProducts
  BY <1>2 DEF LoadProducts
<1>3. CASE StoreRestart
  BY <1>3 DEF StoreRestart
<1>4. ASSUME NEW u \in Threads, Receive(u) \/ FindOne(u) PROVE FALSE
  BY <1>4 DEF Receive, FindOne, table
<1>5. ASSUME NEW u \in Threads, SaveProduct(u) PROVE FALSE
  BY <1>1, <1>5 DEF SaveProduct, Done
<1>6. ASSUME NEW u \in Threads, UpdateProduct(u) PROVE rows[req[t].id] = loaded[t]
  <2>1. u = t
    BY <1>1, <1>6 DEF UpdateProduct, Done
  <2>2. loaded[t] \in Row
    BY DEF IInv, StoreTypeOK
  <2>3. UpdateRow(req[t].id, [loaded[t] EXCEPT !.data = req[t].data].version, [loaded[t] EXCEPT !.data = req[t].data])
    BY <1>6, <2>1 DEF UpdateProduct, table
  <2>4. Current(req[t].id, loaded[t].version)
    BY <2>2, <2>3 DEF UpdateRow, Row
  <2> QED
    BY <2>4 DEF Current, IInv, KeptOf
<1>7. ASSUME NEW u \in Threads, DeleteProduct(u) PROVE rows[req[t].id] = loaded[t]
  <2>1. u = t
    BY <1>1, <1>7 DEF DeleteProduct, Done
  <2>2. Current(req[t].id, loaded[t].version)
    BY <1>7, <2>1 DEF DeleteProduct, DeleteRow, table
  <2> QED
    BY <2>2 DEF Current, IInv, KeptOf
<1> QED
  BY <1>2, <1>3, <1>4, <1>5, <1>6, <1>7 DEF StoreNext

(* No request that answers 200 overwrites or deletes a row that another    *)
(* request changed after it was read.                                      *)
THEOREM NoUpdateLost == StoreSpec => NoLostUpdate
<1> DEFINE Checked == \A t \in Threads :
             phase[t] = "save" /\ phase'[t] = "idle" /\ rows'[req[t].id] # rows[req[t].id]
               => rows[req[t].id] = loaded[t] \/ ~started'
<1>1. IInv /\ [StoreNext]_storeVars => [Checked]_storeVars
  BY WriteChecked
<1> QED
  BY <1>1, StoreInvariant, PTL DEF StoreSpec, NoLostUpdate

------------------------------------------------------------------------------
(* The product a row shows: the refinement mapping, row by row.            *)
Shown(row) == IF row = Null THEN Null ELSE [productId |-> row.productId, data |-> row.data]

Mapped == [i \in Ids |-> Shown(rows[i])]

(* A row shows a product, no row shows none. *)
LEMMA ShownRow ==
  ASSUME NEW row \in Row
  PROVE  Shown(row) \in Product /\ Shown(row) # Null /\ row # Null
BY NoneIsNoRow DEF Row, Product, Shown

(* INSERT is the table's Insert. *)
LEMMA InsertRefines ==
  ASSUME StoreTypeOK, NEW v \in Versions, NEW p, p.productId \in ProductIds, p.data \in Data, InsertRow(v, p)
  PROVE  Table!TableNext
<1> DEFINE row == [version |-> v, productId |-> p.productId, data |-> p.data]
           q == [productId |-> p.productId, data |-> p.data]
<1>1. row \in Row /\ Shown(row) = q /\ q \in Product
  BY NoneIsNoRow DEF Row, Shown, Product
<1>2. rows' = [rows EXCEPT ![nextId] = row] /\ rows \in [Ids -> Row \cup {Null}] /\ nextId \in Ids /\ nextId' = nextId + 1
  BY DEF InsertRow, StoreTypeOK
<1> HIDE DEF row, q
<1>3. Mapped' = [Mapped EXCEPT ![nextId] = q]
  BY <1>1, <1>2, Zenon DEF Mapped
<1>4. Table!Insert(q)
  BY <1>2, <1>3, Zenon DEF Table!Insert, Table!Ids, Mapped, Shown, Ids
<1> QED
  BY <1>1, <1>4 DEF Table!TableNext, Table!Product, Product

(* UPDATE is the table's Replace. *)
LEMMA UpdateRefines ==
  ASSUME StoreTypeOK, NEW i \in Ids, NEW v \in Versions, NEW p,
         p.productId \in ProductIds, p.data \in Data, UpdateRow(i, v, p)
  PROVE  Table!TableNext
<1> DEFINE row == [version |-> v + 1, productId |-> p.productId, data |-> p.data]
           q == [productId |-> p.productId, data |-> p.data]
<1>1. v + 1 \in Versions
  BY StoreAssumption DEF UpdateRow, Versions
<1>2. row \in Row /\ Shown(row) = q /\ q \in Product
  BY <1>1, NoneIsNoRow DEF Row, Shown, Product
<1>3. rows' = [rows EXCEPT ![i] = row] /\ rows \in [Ids -> Row \cup {Null}] /\ rows[i] # Null /\ nextId' = nextId
  BY DEF UpdateRow, Current, StoreTypeOK
<1> HIDE DEF row, q
<1>4. Mapped' = [Mapped EXCEPT ![i] = q] /\ Mapped[i] # Null
  BY <1>2, <1>3, ShownRow, Zenon DEF Mapped
<1>5. Table!Replace(i, q)
  BY <1>3, <1>4 DEF Table!Replace, Mapped, Shown, Ids
<1> QED
  BY <1>2, <1>5 DEF Table!TableNext, Table!Product, Product, Table!Ids, Ids

(* DELETE is the table's Remove. *)
LEMMA DeleteRefines ==
  ASSUME StoreTypeOK, NEW i \in Ids, NEW v, DeleteRow(i, v)
  PROVE  Table!TableNext
<1>1. rows' = [rows EXCEPT ![i] = Null] /\ rows \in [Ids -> Row \cup {Null}] /\ rows[i] # Null /\ nextId' = nextId
  BY DEF DeleteRow, Current, StoreTypeOK
<1>2. Mapped' = [Mapped EXCEPT ![i] = Null] /\ Mapped[i] # Null
  BY <1>1, ShownRow, Zenon DEF Mapped, Shown
<1>3. Table!Remove(i)
  BY <1>1, <1>2, Zenon DEF Table!Remove, Mapped, Shown, Ids
<1> QED
  BY <1>3 DEF Table!TableNext, Table!Ids, Ids

(* A step that leaves the table alone is a stutter. *)
LEMMA SameRefines ==
  ASSUME UNCHANGED table
  PROVE  UNCHANGED Table!tableVars
BY DEF Table!tableVars, table

(* Every step of the store is a step of the table or a stutter.            *)
LEMMA StepRefines ==
  ASSUME IInv, [StoreNext]_storeVars
  PROVE  [Table!TableNext]_Table!tableVars
<1> USE DEF IInv
<1>1. CASE UNCHANGED storeVars
  BY <1>1, SameRefines DEF storeVars
<1>2. CASE LoadProducts
  <2>1. 0 \in Versions /\ Shirt.productId \in ProductIds /\ Shirt.data \in Data /\ Mug.productId \in ProductIds /\ Mug.data \in Data
    BY StoreAssumption DEF Versions, Product
  <2> QED
    BY <1>2, <2>1, InsertRefines DEF LoadProducts
<1>3. ASSUME NEW t \in Threads, Receive(t) \/ FindOne(t) PROVE [Table!TableNext]_Table!tableVars
  BY <1>3, SameRefines DEF Receive, FindOne
<1>4. ASSUME NEW t \in Threads, SaveProduct(t) PROVE [Table!TableNext]_Table!tableVars
  <2> DEFINE r == req[t].body
  <2>1. /\ r.id \in Ids \cup {Null} /\ r.version \in Versions \cup {Null}
        /\ r.productId \in ProductIds /\ r.data \in Data
    BY <1>4, BodyOfRequest DEF SaveProduct, StoreTypeOK
  <2>2. 0 \in Versions
    BY StoreAssumption DEF Versions
  <2>3. \/ InsertRow(0, r)
        \/ r.version # Null /\ InsertRow(r.version, r)
        \/ r.version # Null /\ r.id # Null /\ UpdateRow(r.id, r.version, r)
        \/ UNCHANGED table
    BY <1>4 DEF SaveProduct
  <2> HIDE DEF r
  <2> QED
    BY <2>1, <2>2, <2>3, InsertRefines, UpdateRefines, SameRefines
<1>5. ASSUME NEW t \in Threads, UpdateProduct(t) PROVE [Table!TableNext]_Table!tableVars
  <2> DEFINE entity == [loaded[t] EXCEPT !.data = req[t].data]
  <2>1. req[t].id \in Ids /\ req[t].data \in Data /\ loaded[t] \in Row
    BY <1>5, IdOfRequest DEF UpdateProduct, StoreTypeOK
  <2>2. entity.version \in Versions /\ entity.productId \in ProductIds /\ entity.data \in Data
    BY <2>1 DEF Row
  <2>3. UpdateRow(req[t].id, entity.version, entity) \/ UNCHANGED table
    BY <1>5 DEF UpdateProduct
  <2> HIDE DEF entity
  <2> QED
    BY <2>1, <2>2, <2>3, UpdateRefines, SameRefines
<1>6. ASSUME NEW t \in Threads, DeleteProduct(t) PROVE [Table!TableNext]_Table!tableVars
  <2>1. req[t].id \in Ids
    BY <1>6, IdOfRequest DEF DeleteProduct, StoreTypeOK
  <2>2. DeleteRow(req[t].id, loaded[t].version) \/ UNCHANGED table
    BY <1>6 DEF DeleteProduct
  <2> QED
    BY <2>1, <2>2, DeleteRefines, SameRefines
<1>7. CASE StoreRestart
  <2>1. Table!Clear
    BY <1>7 DEF StoreRestart, Table!Clear, Table!Ids, Ids
  <2> QED
    BY <2>1 DEF Table!TableNext
<1> QED
  BY <1>1, <1>2, <1>3, <1>4, <1>5, <1>6, <1>7 DEF StoreNext

(* The product API implements a table with atomic operations. *)
THEOREM StoreImplementsTable == StoreSpec => ImplementsTable
<1>1. StoreInit => Table!TableInit
  BY DEF StoreInit, Table!TableInit, Table!Ids, Ids
<1>2. IInv /\ [StoreNext]_storeVars => [Table!TableNext]_Table!tableVars
  BY StepRefines
<1> QED
  BY <1>1, <1>2, StoreInvariant, PTL DEF StoreSpec, ImplementsTable, Table!TableSpec
==============================================================================
