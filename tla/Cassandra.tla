------------------------------ MODULE Cassandra ------------------------------
(***************************************************************************)
(* A Cassandra node, as far as SessionUtil uses it: one keyspace           *)
(* ("accounts"), the tables in it and the rows of the restaurants table.   *)
(* The node is outside the repository; its behaviour is taken from the CQL *)
(* statements SessionUtil sends and the exceptions it handles.             *)
(*                                                                         *)
(* A node is a record                                                      *)
(*   up        whether it answers at all,                                  *)
(*   keyspace  whether keyspace "accounts" exists,                         *)
(*   tables    the tables of the keyspace,                                 *)
(*   rows      the restaurants row of each primary key, or None.           *)
(***************************************************************************)
CONSTANTS
  RestaurantIds,   \* primary keys of table restaurants
  RestaurantData,  \* what a row holds besides its key (cuisine and seating)
  None             \* null: no row, no session, no cluster, no result

ASSUME NoneAssumption == None \notin RestaurantIds \cup RestaurantData

TableNames == {"test", "restaurants", "tables"}

Rows == [RestaurantIds -> RestaurantData \cup {None}]

NoRows == [id \in RestaurantIds |-> None]

Node == [up: BOOLEAN, keyspace: BOOLEAN, tables: SUBSET TableNames, rows: Rows]

(* A node that was just installed. *)
FreshNode == [up |-> TRUE, keyspace |-> FALSE, tables |-> {}, rows |-> NoRows]

(* The statements: their kind, and the table and the row they name. *)
Statement(cql, table) == [cql |-> cql, table |-> table, id |-> None, data |-> None]

CreateKeyspace == Statement("CREATE_KEYSPACE", None)

CreateTableNamed(table) == Statement("CREATE_TABLE", table)

DropTableNamed(table) == Statement("DROP_TABLE", table)

SelectRestaurants == Statement("SELECT", "restaurants")

InsertRestaurant(id, data) ==
  [cql |-> "INSERT", table |-> "restaurants", id |-> id, data |-> data]

(***************************************************************************)
(* Whether a node executes a statement or answers with an error.  No       *)
(* CREATE of SessionUtil says IF NOT EXISTS, so creating what exists is an *)
(* error; a row without its primary key is refused.                        *)
(***************************************************************************)
Accepts(node, stmt) ==
  /\ node.up
  /\ stmt.cql = "CREATE_KEYSPACE" => ~node.keyspace
  /\ stmt.cql = "CREATE_TABLE" => node.keyspace /\ stmt.table \notin node.tables
  /\ stmt.cql \in {"DROP_TABLE", "INSERT", "SELECT"} => stmt.table \in node.tables
  /\ stmt.cql = "INSERT" => stmt.id \in RestaurantIds

(* The node after executing an accepted statement; INSERT is an upsert. *)
After(node, stmt) ==
  [up |-> node.up,
   keyspace |-> IF stmt.cql = "CREATE_KEYSPACE" THEN TRUE ELSE node.keyspace,
   tables |-> (node.tables \cup {x \in {stmt.table} : stmt.cql = "CREATE_TABLE"})
                \ {x \in {stmt.table} : stmt.cql = "DROP_TABLE"},
   rows |-> IF stmt.cql = "INSERT" THEN [node.rows EXCEPT ![stmt.id] = stmt.data]
                                   ELSE node.rows]
==============================================================================
