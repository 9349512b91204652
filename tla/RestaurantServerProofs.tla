------------------------ MODULE RestaurantServerProofs ------------------------
(***************************************************************************)
(* Proofs about RestaurantServer, for any number of servers, threads and   *)
(* nodes, any configuration and any number of faults.                      *)
(*                                                                         *)
(* The inductive invariant IInv adds to TypeOK what a thread's label says  *)
(* about its locals (LabelOK) and, for the gate, that the keyspace a       *)
(* request created is still there (KeyspaceStays).  A handler is built     *)
(* from the shared steps ReadIp, SetupPooling, Connect and Execute, so     *)
(* each of them has a lemma, for whatever labels it is used with.          *)
(***************************************************************************)
EXTENDS RestaurantServer, TLAPS

(* The prover of the leaves that name none. *)
USE Zenon

(* The labels of testarguments before the pooling, and of setRestaurants: *)
(* the steps that look at the body of the request.                        *)
ConfigLabels == {"ta.ip", "ta.port", "ta.login"}

AddLabels == {"sr.ip", "sr.pool", "sr.build", "sr.connect", "sr.exec"}

TestLabels == {"ct.connect", "ct.exec", "dt.connect", "dt.exec"}

(* What thread t's locals are when it is about to take the step pc[t]. *)
LabelOK(t) ==
  /\ pc[t] \in ConnectLabels \cup ExecuteLabels => cluster[ServerOf[t]] # None
  /\ pc[t] \in ExecuteLabels => sess[t] \in Hosts
  /\ pc[t] \in PoolingLabels => addr[t] \in Addresses
  /\ pc[t] \in BuildLabels => addr[t] \in Hosts \cup {Unset} /\ cred[t] \in Logins
  /\ pc[t] \in ConfigLabels => op[t] = "testarguments"
  /\ pc[t] \in AddLabels => op[t] = "addRestaurant"
  /\ pc[t] \in TestLabels => made[t] # None

(* The keyspace a request created is there, and no other request created it. *)
KeyspaceStays ==
  /\ \A t \in Threads : made[t] # None => db[made[t]].keyspace
  /\ \A t, u \in Threads : t # u /\ made[t] # None => made[t] # made[u]

IInv ==
  /\ TypeOK
  /\ \A t \in Threads : LabelOK(t)
  /\ KeyspaceStays

(* A step from label at to label next that keeps to the kind of handler. *)
Flow(at, next) ==
  /\ next \in Labels \ ConfigLabels
  /\ next \in AddLabels => at \in AddLabels

(* An address resolves to a node, or stays the one that does not. *)
LEMMA ResolveType ==
  /\ \A ip \in Addresses : Resolve(ip) \in Hosts \cup {BadIp}
  /\ \A ip \in Hosts \cup {Unset} : Resolve(ip) \in Hosts
BY ServerAssumption DEF Resolve, Addresses

(* getCassandraIpAddress keeps the invariant. *)
LEMMA ReadIpStep ==
  ASSUME IInv, NEW t \in Threads, NEW at, NEW next \in PoolingLabels,
         Flow(at, next), ReadIp(t, at, next)
  PROVE  IInv'
<1>1. TypeOK'
  <2>1. config[ServerOf[t]].ip \in Addresses
    BY ServerAssumption DEF IInv, TypeOK, Config
  <2>2. next \in Labels
    BY DEF Flow
  <2> QED
    BY <2>1, <2>2 DEF IInv, TypeOK, ReadIp, Goto, server, request, env
<1>2. ASSUME NEW u \in Threads PROVE LabelOK(u)'
  <2>1. config[ServerOf[t]].ip \in Addresses
    BY ServerAssumption DEF IInv, TypeOK, Config
  <2>2. CASE u = t
    BY <2>1, <2>2 DEF IInv, TypeOK, LabelOK, ReadIp, Goto, server, request, env, Flow,
       PoolingLabels, BuildLabels, ConnectLabels, ExecuteLabels, TestLabels, ConfigLabels, AddLabels
  <2>3. CASE u # t
    BY <2>3 DEF IInv, TypeOK, LabelOK, ReadIp, Goto, server, request, env
  <2> QED
    BY <2>2, <2>3
<1>3. KeyspaceStays'
  BY DEF IInv, KeyspaceStays, ReadIp, env
<1> QED
  BY <1>1, <1>2, <1>3 DEF IInv

(* Labels that LabelOK says nothing of, where a step that failed may go on. *)
FailLabels == {"reply", "gr.ip", "tt.connect"}

(* setupPooling keeps the invariant: the Cluster it stores is complete, and *)
(* when it throws the field is as before.                                   *)
LEMMA SetupPoolingStep ==
  ASSUME IInv, NEW t \in Threads,
         NEW at \in PoolingLabels, NEW build \in BuildLabels,
         NEW ok \in {"cs.ip"} \cup (ConnectLabels \ TestLabels),
         NEW fail \in {"reply", "gr.ip"},
         Flow(at, build), Flow(build, ok), SetupPooling(t, at, build, ok, fail)
  PROVE  IInv'
<1> USE ServerAssumption, NoneIsNoCluster
<1>1. CASE /\ pc[t] = at
           /\ addr[t] # BadIp
           /\ cred' = [cred EXCEPT ![t] = config[ServerOf[t]].login]
           /\ Goto(t, build)
           /\ UNCHANGED <<server, request, addr, sess, rs, stored, made, seen, reply, env>>
  <2>1. config[ServerOf[t]].login \in Logins
    BY DEF IInv, TypeOK, Config
  <2>2. TypeOK'
    BY <1>1, <2>1 DEF IInv, TypeOK, Goto, server, request, env, Flow
  <2>3. ASSUME NEW u \in Threads PROVE LabelOK(u)'
    <3>1. CASE u = t
      <4>1. addr[t] \in Hosts \cup {Unset}
        BY <1>1 DEF IInv, LabelOK, Addresses
      <4> QED
        BY <1>1, <2>1, <3>1, <4>1 DEF IInv, TypeOK, LabelOK, Goto, server, request, env,
           Flow, PoolingLabels, BuildLabels, ConnectLabels, ExecuteLabels, TestLabels,
           ConfigLabels, AddLabels
    <3>2. CASE u # t
      BY <1>1, <3>2 DEF IInv, TypeOK, LabelOK, Goto, server, request, env
    <3> QED
      BY <3>1, <3>2
  <2>4. KeyspaceStays'
    BY <1>1 DEF IInv, KeyspaceStays, env
  <2> QED
    BY <2>2, <2>3, <2>4 DEF IInv
<1>2. CASE /\ pc[t] = at
           /\ addr[t] = BadIp
           /\ Goto(t, fail)
           /\ UNCHANGED cred
           /\ UNCHANGED <<server, request, addr, sess, rs, stored, made, seen, reply, env>>
  <2>1. TypeOK'
    BY <1>2 DEF IInv, TypeOK, Goto, server, request, env, Labels
  <2>2. ASSUME NEW u \in Threads PROVE LabelOK(u)'
    BY <1>2 DEF IInv, TypeOK, LabelOK, Goto, server, request, env,
       PoolingLabels, BuildLabels, ConnectLabels, ExecuteLabels, TestLabels,
       ConfigLabels, AddLabels
  <2>3. KeyspaceStays'
    BY <1>2 DEF IInv, KeyspaceStays, env
  <2> QED
    BY <2>1, <2>2, <2>3 DEF IInv
<1>3. CASE /\ pc[t] = build
           /\ cluster' = [cluster EXCEPT ![ServerOf[t]] =
                            [host |-> Resolve(addr[t]), port |-> NativePort,
                             login |-> cred[t], state |-> "new"]]
           /\ Goto(t, ok)
           /\ UNCHANGED <<config, status, request, locals, reply, env>>
  <2> DEFINE c == [host |-> Resolve(addr[t]), port |-> NativePort,
                   login |-> cred[t], state |-> "new"]
  <2>1. c \in Cluster
    BY <1>3, ResolveType DEF IInv, LabelOK, Cluster
  <2>2. c # None
    BY <2>1
  <2> HIDE DEF c
  <2>3. TypeOK'
    BY <1>3, <2>1 DEF IInv, TypeOK, Goto, request, locals, env, Flow, c
  <2>4. ASSUME NEW u \in Threads PROVE LabelOK(u)'
    <3>1. cluster'[ServerOf[u]] \in {c, cluster[ServerOf[u]]} /\ cluster'[ServerOf[t]] = c
      BY <1>3 DEF IInv, TypeOK, c
    <3>2. CASE u = t
      BY <1>3, <2>2, <3>1, <3>2, SMT DEF IInv, TypeOK, LabelOK, Goto, request, locals, env,
         Flow, PoolingLabels, BuildLabels, ConnectLabels, ExecuteLabels, TestLabels,
         ConfigLabels, AddLabels
    <3>3. CASE u # t
      BY <1>3, <2>2, <3>1, <3>3 DEF IInv, TypeOK, LabelOK, Goto, request, locals, env
    <3> QED
      BY <3>2, <3>3
  <2>5. KeyspaceStays'
    BY <1>3 DEF IInv, KeyspaceStays, env, locals
  <2> QED
    BY <2>3, <2>4, <2>5 DEF IInv
<1> QED
  BY <1>1, <1>2, <1>3 DEF SetupPooling

(* cluster.connect keeps the invariant: the field still holds a Cluster,   *)
(* and a thread that goes on to execute holds the Session of a node.       *)
LEMMA ConnectStep ==
  ASSUME IInv, NEW t \in Threads, NEW at \in ConnectLabels, NEW keyspace \in BOOLEAN,
         NEW ok \in ExecuteLabels \cup {"rt.connect", "gr.rows", "reply"},
         NEW fail \in FailLabels,
         Flow(at, ok), ok \in TestLabels => at \in TestLabels,
         Connect(t, at, keyspace, ok, fail)
  PROVE  IInv'
<1> USE ServerAssumption, NoneIsNoCluster
<1> DEFINE s == ServerOf[t]
<1>1. pc[t] = at /\ s \in Servers /\ cluster[s] \in Cluster
  BY DEF IInv, TypeOK, LabelOK, Connect
<1>2. PICK state \in {"new", "open", "closed"} :
        cluster' = [cluster EXCEPT ![s].state = state]
  BY <1>1 DEF Connect, Cluster
<1> DEFINE c == [cluster[s] EXCEPT !.state = state]
<1>3. c \in Cluster /\ c # None /\ cluster' = [cluster EXCEPT ![s] = c]
  BY <1>1, <1>2 DEF Cluster
<1>4. \/ sess' = [sess EXCEPT ![t] = cluster[s].host] /\ Goto(t, ok)
      \/ sess' = sess /\ Goto(t, fail)
  BY DEF Connect
<1>5. cluster[s].host \in Hosts
  BY <1>1 DEF Cluster
<1>6. UNCHANGED <<config, status, request, addr, cred, rs, stored, made, seen, reply, env>>
  BY DEF Connect
<1> HIDE DEF c
<1>7. TypeOK'
  <2>1. ok \in Labels /\ fail \in Labels
    BY DEF Flow, FailLabels, Labels, ConnectLabels
  <2>2. pc' \in [Threads -> Labels]
    BY <1>4, <2>1 DEF IInv, TypeOK, Goto
  <2>3. sess' \in [Threads -> Hosts \cup {None}]
    BY <1>4, <1>5 DEF IInv, TypeOK
  <2>4. cluster' \in [Servers -> Cluster \cup {None}]
    BY <1>3 DEF IInv, TypeOK
  <2> QED
    BY <1>6, <2>2, <2>3, <2>4 DEF IInv, TypeOK, request, env
<1>8. ASSUME NEW u \in Threads PROVE LabelOK(u)'
  <2>1. cluster'[ServerOf[u]] \in {c, cluster[ServerOf[u]]} /\ cluster'[s] = c
    BY <1>3 DEF IInv, TypeOK
  <2>2. CASE u = t
    <3>1. UNCHANGED <<op, addr, cred, made>>
      BY <1>6 DEF request
    <3>2. cluster'[ServerOf[u]] # None
      BY <1>3, <2>1, <2>2
    <3>3. CASE sess' = [sess EXCEPT ![t] = cluster[s].host] /\ Goto(t, ok)
      <4>1. pc'[u] = ok /\ sess'[u] \in Hosts
        BY <1>5, <2>2, <3>3 DEF IInv, TypeOK, Goto
      <4>2. ok \notin PoolingLabels \cup BuildLabels \cup ConfigLabels
        BY DEF PoolingLabels, BuildLabels, ConfigLabels, ExecuteLabels
      <4>3. ok \in AddLabels => op[u] = "addRestaurant"
        BY <1>1, <2>2 DEF IInv, LabelOK, Flow
      <4>4. ok \in TestLabels => made[u] # None
        BY <1>1, <2>2 DEF IInv, LabelOK
      <4> QED
        BY <3>1, <3>2, <4>1, <4>2, <4>3, <4>4 DEF LabelOK
    <3>4. CASE sess' = sess /\ Goto(t, fail)
      <4>1. pc'[u] = fail
        BY <2>2, <3>4 DEF IInv, TypeOK, Goto
      <4>2. fail \notin PoolingLabels \cup BuildLabels \cup ExecuteLabels \cup
                        ConfigLabels \cup AddLabels \cup TestLabels
        BY DEF FailLabels, PoolingLabels, BuildLabels, ExecuteLabels, ConfigLabels,
           AddLabels, TestLabels
      <4> QED
        BY <3>2, <4>1, <4>2 DEF LabelOK
    <3> QED
      BY <1>4, <3>3, <3>4
  <2>3. CASE u # t
    <3>1. pc'[u] = pc[u] /\ sess'[u] = sess[u]
      BY <1>4, <2>3 DEF IInv, TypeOK, Goto
    <3> QED
      BY <1>3, <1>6, <2>1, <3>1 DEF IInv, LabelOK, request
  <2> QED
    BY <2>2, <2>3
<1>9. KeyspaceStays'
  BY <1>6 DEF IInv, KeyspaceStays, env
<1> QED
  BY <1>7, <1>8, <1>9 DEF IInv

(* The statements SessionUtil sends: a table it creates is one of the three, *)
(* a row it inserts has restaurant data.                                     *)
StatementOK(stmt) ==
  /\ stmt.cql = "CREATE_TABLE" => stmt.table \in TableNames
  /\ stmt.cql = "INSERT" => stmt.data \in RestaurantData

(* An accepted statement leaves a node a node; it never drops the keyspace, *)
(* and CREATE KEYSPACE is accepted only where there was none.               *)
LEMMA AfterNode ==
  ASSUME NEW node \in Node, NEW stmt, StatementOK(stmt), Accepts(node, stmt)
  PROVE  /\ After(node, stmt) \in Node
         /\ node.keyspace => After(node, stmt).keyspace
         /\ stmt.cql = "CREATE_KEYSPACE" => ~node.keyspace /\ After(node, stmt).keyspace
<1> DEFINE after == After(node, stmt)
           tables == (node.tables \cup {x \in {stmt.table} : stmt.cql = "CREATE_TABLE"})
                       \ {x \in {stmt.table} : stmt.cql = "DROP_TABLE"}
           rows == IF stmt.cql = "INSERT"
                   THEN [node.rows EXCEPT ![stmt.id] = stmt.data] ELSE node.rows
           keyspace == IF stmt.cql = "CREATE_KEYSPACE" THEN TRUE ELSE node.keyspace
<1>1. tables \in SUBSET TableNames
  BY DEF Node, StatementOK
<1>2. rows \in Rows
  BY DEF Node, Rows, StatementOK, Accepts
<1>3. keyspace \in BOOLEAN
  BY DEF Node
<1>4. after = [up |-> node.up, keyspace |-> keyspace, tables |-> tables, rows |-> rows]
  BY DEF After
<1> HIDE DEF tables, rows, keyspace
<1>5. after \in Node
  BY <1>1, <1>2, <1>3, <1>4, SMT DEF Node
<1>6. after.keyspace = keyspace
  BY <1>4, SMT
<1> QED
  BY <1>5, <1>6 DEF Accepts, keyspace

(* A fault that happens leaves one less. *)
LEMMA FaultSpent ==
  ASSUME IInv, faults > 0, faults' = faults - 1
  PROVE  faults' \in 0 .. MaxFaults
<1>1. MaxFaults \in Nat
  BY ServerAssumption
<1>2. faults \in 0 .. MaxFaults
  BY DEF IInv, TypeOK
<1> QED
  BY <1>1, <1>2, SMT

(* session.execute keeps the invariant.  The gate: CREATE KEYSPACE succeeds *)
(* only on a node without the keyspace, and so one no request has created.  *)
LEMMA ExecuteStep ==
  ASSUME IInv, NEW t \in Threads, NEW at \in ExecuteLabels, NEW stmt, StatementOK(stmt),
         NEW ok \in ConnectLabels \cup {"reply", "gr.ip"}, NEW fail \in FailLabels,
         Flow(at, ok),
         ok \in TestLabels => at \in TestLabels \/ stmt.cql = "CREATE_KEYSPACE",
         Execute(t, at, stmt, ok, fail)
  PROVE  IInv'
<1> USE ServerAssumption
<1> DEFINE h == sess[t]
<1>1. pc[t] = at /\ h \in Hosts /\ h # None /\ db[h] \in Node /\ ServerOf[t] \in Servers
  BY DEF IInv, TypeOK, LabelOK, Execute
<1>2. UNCHANGED <<server, request, addr, cred, sess, seen, reply>>
  BY DEF Execute
<1>3. ok \in Labels /\ fail \in Labels
  BY DEF Flow, FailLabels, Labels, ConnectLabels
<1>4. ASSUME NEW next \in {ok, fail}, Goto(t, next),
             next \in TestLabels => made'[t] # None,
             \A u \in Threads \ {t} : made'[u] = made[u]
      PROVE  \A u \in Threads : LabelOK(u)'
  <2> TAKE u \in Threads
  <2>1. CASE u = t
    BY <1>1, <1>2, <1>4, <2>1 DEF IInv, TypeOK, LabelOK, Goto, server, request, Flow,
       FailLabels, PoolingLabels, BuildLabels, ConnectLabels, ExecuteLabels, TestLabels,
       ConfigLabels, AddLabels
  <2>2. CASE u # t
    BY <1>2, <1>4, <2>2 DEF IInv, TypeOK, LabelOK, Goto, server, request
  <2> QED
    BY <2>1, <2>2
<1>5. CASE /\ Accepts(db[h], stmt)
           /\ db' = [db EXCEPT ![h] = After(db[h], stmt)]
  <2> DEFINE node == After(db[h], stmt)
  <2>1. /\ node \in Node
        /\ db[h].keyspace => node.keyspace
        /\ stmt.cql = "CREATE_KEYSPACE" => ~db[h].keyspace /\ node.keyspace
    BY <1>1, <1>5, AfterNode
  <2>2. db' = [db EXCEPT ![h] = node]
    BY <1>5
  <2> HIDE DEF node
  <2>3. db' \in [Hosts -> Node]
    BY <2>1, <2>2 DEF IInv, TypeOK
  <2>4. \A g \in Hosts : db[g].keyspace => db'[g].keyspace
    BY <2>1, <2>2 DEF IInv, TypeOK
  <2>5. CASE Goto(t, ok) /\ KeepAnswer(t, stmt) /\ UNCHANGED faults
    <3>1. made' = [made EXCEPT ![t] = IF stmt.cql = "CREATE_KEYSPACE" THEN h ELSE made[t]]
      BY <2>5 DEF KeepAnswer
    <3>2. made' \in [Threads -> Hosts \cup {None}]
      BY <1>1, <3>1 DEF IInv, TypeOK
    <3>3. rs' \in [Threads -> Rows \cup {None}]
      BY <1>1, <2>5 DEF IInv, TypeOK, KeepAnswer, Node
    <3>4. stored' \in [Threads -> BOOLEAN]
      BY <2>5 DEF IInv, TypeOK, KeepAnswer
    <3>5. pc' \in [Threads -> Labels]
      BY <1>3, <2>5 DEF IInv, TypeOK, Goto
    <3>6. TypeOK'
      BY <1>2, <2>3, <2>5, <3>2, <3>3, <3>4, <3>5 DEF IInv, TypeOK, server, request
    <3>7. ok \in TestLabels => made'[t] # None
      BY <1>1, <3>1 DEF IInv, TypeOK, LabelOK
    <3>8. \A u \in Threads \ {t} : made'[u] = made[u]
      BY <3>1 DEF IInv, TypeOK
    <3>9. \A u \in Threads : LabelOK(u)'
      BY <1>4, <2>5, <3>7, <3>8
    <3>10. KeyspaceStays'
      <4>1. CASE stmt.cql = "CREATE_KEYSPACE"
        <5>1. \A u \in Threads : made[u] # h
          BY <1>1, <2>1, <4>1 DEF IInv, KeyspaceStays
        <5>2. made' = [made EXCEPT ![t] = h] /\ db'[h].keyspace
          BY <1>1, <2>1, <2>2, <3>1, <4>1 DEF IInv, TypeOK
        <5>3. made \in [Threads -> Hosts \cup {None}] /\ KeyspaceStays
          BY DEF IInv, TypeOK
        <5> QED
          BY <1>1, <2>4, <5>1, <5>2, <5>3 DEF KeyspaceStays
      <4>2. CASE stmt.cql # "CREATE_KEYSPACE"
        <5>1. made \in [Threads -> Hosts \cup {None}] /\ KeyspaceStays
          BY DEF IInv, TypeOK
        <5>2. \A u \in Threads : made'[u] = made[u]
          BY <3>1, <4>2, <5>1
        <5>3. \A u \in Threads : made[u] # None => made[u] \in Hosts
          BY <5>1
        <5> QED
          BY <2>4, <5>1, <5>2, <5>3 DEF KeyspaceStays
      <4> QED
        BY <4>1, <4>2
    <3> QED
      BY <3>6, <3>9, <3>10 DEF IInv
  <2>6. CASE /\ faults > 0 /\ faults' = faults - 1
             /\ Goto(t, fail) /\ UNCHANGED <<rs, stored, made>>
    <3>1. faults' \in 0 .. MaxFaults
      BY <2>6, FaultSpent
    <3>2. TypeOK'
      BY <1>2, <1>3, <2>3, <2>6, <3>1 DEF IInv, TypeOK, Goto, server, request
    <3>3. \A u \in Threads : LabelOK(u)'
      <4>1. fail \notin TestLabels
        BY DEF FailLabels, TestLabels
      <4>2. \A u \in Threads \ {t} : made'[u] = made[u]
        BY <2>6
      <4>3. Goto(t, fail)
        BY <2>6
      <4> QED
        BY <1>4, <4>1, <4>2, <4>3
    <3>4. KeyspaceStays'
      BY <2>4, <2>6 DEF IInv, TypeOK, KeyspaceStays
    <3> QED
      BY <3>2, <3>3, <3>4 DEF IInv
  <2> QED
    BY <1>5, <2>5, <2>6 DEF Execute
<1>6. CASE /\ ~Accepts(db[h], stmt)
           /\ Goto(t, fail) /\ UNCHANGED <<db, faults, rs, stored, made>>
  <2>1. TypeOK'
    BY <1>2, <1>3, <1>6 DEF IInv, TypeOK, Goto, server, request
  <2>2. \A u \in Threads : LabelOK(u)'
    BY <1>4, <1>6 DEF FailLabels, TestLabels
  <2>3. KeyspaceStays'
    BY <1>6 DEF IInv, KeyspaceStays
  <2> QED
    BY <2>1, <2>2, <2>3 DEF IInv
<1> QED
  BY <1>5, <1>6 DEF Execute

(* createSchema keeps the invariant. *)
LEMMA CreateSchemaStep ==
  ASSUME IInv, NEW t \in Threads, CreateSchema(t)
  PROVE  IInv'
<1>1. CASE ReadIp(t, "cs.ip", "cs.pool")
  BY <1>1, ReadIpStep DEF Flow, Labels, FailLabels, PoolingLabels, BuildLabels, ConnectLabels,
     ExecuteLabels, TestLabels, ConfigLabels, AddLabels
<1>2. CASE SetupPooling(t, "cs.pool", "cs.build", "cs.connect", "reply")
  BY <1>2, SetupPoolingStep DEF Flow, Labels, FailLabels, PoolingLabels, BuildLabels, ConnectLabels,
     ExecuteLabels, TestLabels, ConfigLabels, AddLabels
<1>3. CASE Connect(t, "cs.connect", FALSE, "cs.exec", "reply")
  BY <1>3, ConnectStep DEF Flow, Labels, FailLabels, PoolingLabels, BuildLabels, ConnectLabels,
     ExecuteLabels, TestLabels, ConfigLabels, AddLabels
<1>4. CASE Execute(t, "cs.exec", CreateKeyspace, "ct.connect", "reply")
  BY <1>4, ExecuteStep DEF Flow, Labels, FailLabels, PoolingLabels, BuildLabels, ConnectLabels,
     ExecuteLabels, TestLabels, ConfigLabels, AddLabels, StatementOK, Statement, CreateKeyspace
<1> QED
  BY <1>1, <1>2, <1>3, <1>4 DEF CreateSchema

(* createTable keeps the invariant. *)
LEMMA CreateTableStep ==
  ASSUME IInv, NEW t \in Threads, CreateTable(t)
  PROVE  IInv'
<1>1. CASE Connect(t, "ct.connect", TRUE, "ct.exec", "reply")
  BY <1>1, ConnectStep DEF Flow, Labels, FailLabels, PoolingLabels, BuildLabels, ConnectLabels,
     ExecuteLabels, TestLabels, ConfigLabels, AddLabels
<1>2. CASE Execute(t, "ct.exec", CreateTableNamed("test"), "dt.connect", "reply")
  BY <1>2, ExecuteStep DEF Flow, Labels, FailLabels, PoolingLabels, BuildLabels, ConnectLabels,
     ExecuteLabels, TestLabels, ConfigLabels, AddLabels, StatementOK, Statement, CreateTableNamed, TableNames
<1> QED
  BY <1>1, <1>2 DEF CreateTable

(* deleteTable keeps the invariant. *)
LEMMA DeleteTableStep ==
  ASSUME IInv, NEW t \in Threads, DeleteTable(t)
  PROVE  IInv'
<1>1. CASE Connect(t, "dt.connect", TRUE, "dt.exec", "reply")
  BY <1>1, ConnectStep DEF Flow, Labels, FailLabels, PoolingLabels, BuildLabels, ConnectLabels,
     ExecuteLabels, TestLabels, ConfigLabels, AddLabels
<1>2. CASE Execute(t, "dt.exec", DropTableNamed("test"), "reply", "reply")
  BY <1>2, ExecuteStep DEF Flow, Labels, FailLabels, PoolingLabels, BuildLabels, ConnectLabels,
     ExecuteLabels, TestLabels, ConfigLabels, AddLabels, StatementOK, Statement, DropTableNamed
<1> QED
  BY <1>1, <1>2 DEF DeleteTable

(* createRestaurantTable keeps the invariant. *)
LEMMA CreateRestaurantTableStep ==
  ASSUME IInv, NEW t \in Threads, CreateRestaurantTable(t)
  PROVE  IInv'
<1>1. CASE Connect(t, "rt.connect", TRUE, "rt.exec", "tt.connect")
  BY <1>1, ConnectStep DEF Flow, Labels, FailLabels, PoolingLabels, BuildLabels, ConnectLabels,
     ExecuteLabels, TestLabels, ConfigLabels, AddLabels
<1>2. CASE Execute(t, "rt.exec", CreateTableNamed("restaurants"), "tt.connect", "tt.connect")
  BY <1>2, ExecuteStep DEF Flow, Labels, FailLabels, PoolingLabels, BuildLabels, ConnectLabels,
     ExecuteLabels, TestLabels, ConfigLabels, AddLabels, StatementOK, Statement, CreateTableNamed, TableNames
<1> QED
  BY <1>1, <1>2 DEF CreateRestaurantTable

(* createTablesTable keeps the invariant. *)
LEMMA CreateTablesTableStep ==
  ASSUME IInv, NEW t \in Threads, CreateTablesTable(t)
  PROVE  IInv'
<1>1. CASE Connect(t, "tt.connect", TRUE, "tt.exec", "reply")
  BY <1>1, ConnectStep DEF Flow, Labels, FailLabels, PoolingLabels, BuildLabels, ConnectLabels,
     ExecuteLabels, TestLabels, ConfigLabels, AddLabels
<1>2. CASE Execute(t, "tt.exec", CreateTableNamed("tables"), "ix.connect", "reply")
  BY <1>2, ExecuteStep DEF Flow, Labels, FailLabels, PoolingLabels, BuildLabels, ConnectLabels,
     ExecuteLabels, TestLabels, ConfigLabels, AddLabels, StatementOK, Statement, CreateTableNamed, TableNames
<1> QED
  BY <1>1, <1>2 DEF CreateTablesTable

(* createIndex keeps the invariant. *)
LEMMA CreateIndexStep ==
  ASSUME IInv, NEW t \in Threads, CreateIndex(t)
  PROVE  IInv'
BY ConnectStep DEF CreateIndex, Flow, Labels, FailLabels, PoolingLabels, BuildLabels, ConnectLabels,
     ExecuteLabels, TestLabels, ConfigLabels, AddLabels

(* setupRestaurantDatabaseTables, with the methods it calls, keeps the invariant. *)
LEMMA SetupStep ==
  ASSUME IInv, NEW t \in Threads, SetupRestaurantDatabaseTables(t)
  PROVE  IInv'
<1>1. CASE ReadIp(t, "st.ip", "st.pool")
  BY <1>1, ReadIpStep DEF Flow, Labels, FailLabels, PoolingLabels, BuildLabels, ConnectLabels,
     ExecuteLabels, TestLabels, ConfigLabels, AddLabels
<1>2. CASE SetupPooling(t, "st.pool", "st.build", "st.connect", "reply")
  BY <1>2, SetupPoolingStep DEF Flow, Labels, FailLabels, PoolingLabels, BuildLabels, ConnectLabels,
     ExecuteLabels, TestLabels, ConfigLabels, AddLabels
<1>3. CASE Connect(t, "st.connect", TRUE, "rt.connect", "reply")
  BY <1>3, ConnectStep DEF Flow, Labels, FailLabels, PoolingLabels, BuildLabels, ConnectLabels,
     ExecuteLabels, TestLabels, ConfigLabels, AddLabels
<1> QED
  BY <1>1, <1>2, <1>3, CreateRestaurantTableStep, CreateTablesTableStep, CreateIndexStep
     DEF SetupRestaurantDatabaseTables

(* querySchema keeps the invariant. *)
LEMMA QuerySchemaStep ==
  ASSUME IInv, NEW t \in Threads, QuerySchema(t)
  PROVE  IInv'
<1>1. CASE ReadIp(t, "qs.ip", "qs.pool")
  BY <1>1, ReadIpStep DEF Flow, Labels, FailLabels, PoolingLabels, BuildLabels, ConnectLabels,
     ExecuteLabels, TestLabels, ConfigLabels, AddLabels
<1>2. CASE SetupPooling(t, "qs.pool", "qs.build", "qs.connect", "gr.ip")
  BY <1>2, SetupPoolingStep DEF Flow, Labels, FailLabels, PoolingLabels, BuildLabels, ConnectLabels,
     ExecuteLabels, TestLabels, ConfigLabels, AddLabels
<1>3. CASE Connect(t, "qs.connect", TRUE, "qs.exec", "gr.ip")
  BY <1>3, ConnectStep DEF Flow, Labels, FailLabels, PoolingLabels, BuildLabels, ConnectLabels,
     ExecuteLabels, TestLabels, ConfigLabels, AddLabels
<1>4. CASE Execute(t, "qs.exec", SelectRestaurants, "gr.ip", "gr.ip")
  BY <1>4, ExecuteStep DEF Flow, Labels, FailLabels, PoolingLabels, BuildLabels, ConnectLabels,
     ExecuteLabels, TestLabels, ConfigLabels, AddLabels, StatementOK, Statement, SelectRestaurants
<1> QED
  BY <1>1, <1>2, <1>3, <1>4 DEF QuerySchema

(* setRestaurants keeps the invariant: the row is the one that was posted. *)
LEMMA SetRestaurantsStep ==
  ASSUME IInv, NEW t \in Threads, SetRestaurants(t)
  PROVE  IInv'
<1>1. CASE ReadIp(t, "sr.ip", "sr.pool")
  BY <1>1, ReadIpStep DEF Flow, Labels, FailLabels, PoolingLabels, BuildLabels, ConnectLabels,
     ExecuteLabels, TestLabels, ConfigLabels, AddLabels
<1>2. CASE SetupPooling(t, "sr.pool", "sr.build", "sr.connect", "reply")
  BY <1>2, SetupPoolingStep DEF Flow, Labels, FailLabels, PoolingLabels, BuildLabels, ConnectLabels,
     ExecuteLabels, TestLabels, ConfigLabels, AddLabels
<1>3. CASE Connect(t, "sr.connect", TRUE, "sr.exec", "reply")
  BY <1>3, ConnectStep DEF Flow, Labels, FailLabels, PoolingLabels, BuildLabels, ConnectLabels,
     ExecuteLabels, TestLabels, ConfigLabels, AddLabels
<1>4. CASE Execute(t, "sr.exec", InsertRestaurant(arg[t].id, arg[t].data), "reply", "reply")
  <2>1. arg[t] \in Restaurant
    BY <1>4 DEF IInv, TypeOK, LabelOK, Execute, AddLabels
  <2>2. StatementOK(InsertRestaurant(arg[t].id, arg[t].data))
    BY <2>1 DEF StatementOK, InsertRestaurant, Restaurant
  <2> QED
    BY <1>4, <2>2, ExecuteStep DEF Flow, Labels, FailLabels, PoolingLabels, BuildLabels, ConnectLabels,
     ExecuteLabels, TestLabels, ConfigLabels, AddLabels
<1> QED
  BY <1>1, <1>2, <1>3, <1>4 DEF SetRestaurants

(* getRestaurants keeps the invariant. *)
LEMMA GetRestaurantsStep ==
  ASSUME IInv, NEW t \in Threads, GetRestaurants(t)
  PROVE  IInv'
<1>1. CASE ReadIp(t, "gr.ip", "gr.pool")
  BY <1>1, ReadIpStep DEF Flow, Labels, FailLabels, PoolingLabels, BuildLabels, ConnectLabels,
     ExecuteLabels, TestLabels, ConfigLabels, AddLabels
<1>2. CASE SetupPooling(t, "gr.pool", "gr.build", "gr.connect", "reply")
  BY <1>2, SetupPoolingStep DEF Flow, Labels, FailLabels, PoolingLabels, BuildLabels, ConnectLabels,
     ExecuteLabels, TestLabels, ConfigLabels, AddLabels
<1>3. CASE Connect(t, "gr.connect", TRUE, "gr.rows", "reply")
  BY <1>3, ConnectStep DEF Flow, Labels, FailLabels, PoolingLabels, BuildLabels, ConnectLabels,
     ExecuteLabels, TestLabels, ConfigLabels, AddLabels
<1>4. CASE /\ pc[t] = "gr.rows"
           /\ reply' = [reply EXCEPT ![t].rows = IF rs[t] = None THEN NoRows ELSE rs[t]]
           /\ Goto(t, "reply")
           /\ UNCHANGED <<server, request, locals, env>>
  <2>1. NoRows \in Rows
    BY DEF NoRows, Rows
  <2>2. reply' \in [Threads -> Reply]
    <3> DEFINE rows == IF rs[t] = None THEN NoRows ELSE rs[t]
               answer == [reply[t] EXCEPT !.rows = rows]
    <3>1. rows \in Rows
      BY <2>1 DEF IInv, TypeOK
    <3>2. reply[t] \in Reply /\ reply' = [reply EXCEPT ![t] = answer]
      BY <1>4 DEF IInv, TypeOK
    <3> HIDE DEF rows
    <3>3. answer \in Reply
      BY <3>1, <3>2 DEF Reply
    <3> QED
      BY <3>2, <3>3 DEF IInv, TypeOK
  <2>3. pc' \in [Threads -> Labels]
    BY <1>4 DEF IInv, TypeOK, Goto, Labels
  <2>4. TypeOK'
    BY <1>4, <2>2, <2>3 DEF IInv, TypeOK, server, request, locals, env
  <2>5. ASSUME NEW u \in Threads PROVE LabelOK(u)'
    BY <1>4 DEF IInv, TypeOK, LabelOK, Goto, server, request, locals,
       PoolingLabels, BuildLabels, ConnectLabels,
       ExecuteLabels, TestLabels, ConfigLabels, AddLabels
  <2>6. KeyspaceStays'
    BY <1>4 DEF IInv, KeyspaceStays, locals, env
  <2> QED
    BY <2>4, <2>5, <2>6 DEF IInv
<1> QED
  BY <1>1, <1>2, <1>3, <1>4 DEF GetRestaurants

(* A step that changes the configuration, and with it what has been seen, *)
(* and goes on to a label about which nothing new must hold.              *)
LEMMA ConfigStep ==
  ASSUME IInv, NEW t \in Threads,
         NEW next \in {"ta.port", "ta.login", "ta.pool", "la.port", "reply"},
         next \in {"ta.port", "ta.login"} => op[t] = "testarguments",
         next = "ta.pool" => addr'[t] \in Addresses,
         config' \in [Servers -> Config],
         addr' \in [Threads -> Addresses \cup {None}],
         \A u \in Threads \ {t} : addr'[u] = addr[u],
         seen' \in [Threads -> SUBSET (Hosts \cup {BadIp})],
         Goto(t, next),
         UNCHANGED <<cluster, status, request, cred, sess, rs, stored, made, reply, env>>
  PROVE  IInv'
<1>1. pc' \in [Threads -> Labels]
  BY DEF IInv, TypeOK, Goto, Labels, PoolingLabels
<1>2. TypeOK'
  BY <1>1 DEF IInv, TypeOK, request, env
<1>3. ASSUME NEW u \in Threads PROVE LabelOK(u)'
  <2>1. CASE u = t
    BY <2>1 DEF IInv, TypeOK, LabelOK, Goto, request,
       PoolingLabels, BuildLabels, ConnectLabels,
       ExecuteLabels, TestLabels, ConfigLabels, AddLabels
  <2>2. CASE u # t
    BY <2>2 DEF IInv, TypeOK, LabelOK, Goto, request
  <2> QED
    BY <2>1, <2>2
<1>4. KeyspaceStays'
  BY DEF IInv, KeyspaceStays, env
<1> QED
  BY <1>2, <1>3, <1>4 DEF IInv

(* setCassandraIpAddress stores an address and adds the node it names. *)
LEMMA SetAddressType ==
  ASSUME IInv, NEW t \in Threads, NEW ip \in Addresses, SetAddress(t, ip)
  PROVE  /\ config' \in [Servers -> Config]
         /\ seen' \in [Threads -> SUBSET (Hosts \cup {BadIp})]
<1>1. Resolve(ip) \in Hosts \cup {BadIp}
  BY ResolveType
<1>2. config' \in [Servers -> Config]
  <2> DEFINE s == ServerOf[t]
             cfg == [config[s] EXCEPT !.ip = ip]
  <2>1. s \in Servers /\ config[s] \in Config
    BY ServerAssumption DEF IInv, TypeOK
  <2>2. cfg \in Config
    BY <2>1 DEF Config
  <2>3. config' = [config EXCEPT ![s] = cfg]
    BY DEF SetAddress
  <2> QED
    BY <2>1, <2>2, <2>3 DEF IInv, TypeOK
<1>3. seen' \in [Threads -> SUBSET (Hosts \cup {BadIp})]
  BY <1>1 DEF IInv, TypeOK, SetAddress
<1> QED
  BY <1>2, <1>3

(* testarguments keeps the invariant, with and without a properties file. *)
LEMMA TestArgumentsStep ==
  ASSUME IInv, NEW t \in Threads, TestArguments(t)
  PROVE  IInv'
<1> DEFINE s == ServerOf[t]
           file == ConfigFile[s]
           given == IF file.kind = "complete" THEN file ELSE arg[t]
<1>1. s \in Servers /\ config[s] \in Config /\ config \in [Servers -> Config]
  BY ServerAssumption DEF IInv, TypeOK
<1>2. pc[t] \in ConfigLabels => arg[t] \in Config /\ op[t] = "testarguments"
  BY ServerAssumption DEF IInv, TypeOK, LabelOK
<1>3. file.ip \in Addresses /\ file.port \in Ports
  BY <1>1, ServerAssumption
<1>4. pc[t] \in ConfigLabels => given.ip \in Addresses /\ given.port \in Ports \cup {Unset}
  BY <1>2, <1>3 DEF Config
<1>5. /\ addr \in [Threads -> Addresses \cup {None}]
      /\ seen \in [Threads -> SUBSET (Hosts \cup {BadIp})]
  BY DEF IInv, TypeOK
<1>6. CASE /\ pc[t] = "ta.ip"
           /\ \/ /\ Goto(t, "reply")
                 /\ UNCHANGED <<config, seen>>
              \/ /\ SetAddress(t, given.ip)
                 /\ Goto(t, "ta.port")
           /\ UNCHANGED <<cluster, status, request, addr, cred, sess, rs, stored, made, reply, env>>
  <2>1. pc[t] \in ConfigLabels
    BY <1>6 DEF ConfigLabels
  <2>2. CASE Goto(t, "reply") /\ UNCHANGED <<config, seen>>
    <3>1. UNCHANGED <<cluster, status, request, cred, sess, rs, stored, made, reply, env>>
      BY <1>6
    <3>2. addr' = addr /\ config' = config /\ seen' = seen
      BY <1>6, <2>2
    <3>3. Goto(t, "reply")
      BY <2>2
    <3> QED
      BY <1>1, <1>5, <3>1, <3>2, <3>3, ConfigStep
  <2>3. CASE SetAddress(t, given.ip) /\ Goto(t, "ta.port")
    <3>1. /\ config' \in [Servers -> Config]
          /\ seen' \in [Threads -> SUBSET (Hosts \cup {BadIp})]
      BY <1>4, <2>1, <2>3, SetAddressType
    <3> QED
      <4>1. UNCHANGED <<cluster, status, request, cred, sess, rs, stored, made, reply, env>>
        BY <1>6
      <4>2. addr' = addr
        BY <1>6
      <4>3. op[t] = "testarguments"
        BY <1>2, <2>1
      <4>4. Goto(t, "ta.port")
        BY <2>3
      <4> QED
        BY <1>5, <3>1, <4>1, <4>2, <4>3, <4>4, ConfigStep
  <2> QED
    BY <1>6, <2>2, <2>3
<1>7. CASE /\ pc[t] = "ta.port"
           /\ config' = [config EXCEPT ![s].port = given.port]
           /\ Goto(t, "ta.login")
           /\ UNCHANGED <<cluster, status, request, locals, reply, env>>
  <2>1. pc[t] \in ConfigLabels
    BY <1>7 DEF ConfigLabels
  <2> DEFINE cfg == [config[s] EXCEPT !.port = given.port]
  <2> HIDE DEF given
  <2>2. cfg \in Config
    BY <1>1, <1>4, <2>1 DEF Config
  <2>3. config' \in [Servers -> Config]
    BY <1>1, <1>7, <2>2
  <2> QED
    BY <1>2, <1>5, <1>7, <2>1, <2>3, ConfigStep DEF locals
<1>8. CASE /\ pc[t] = "ta.login"
           /\ config' = [config EXCEPT ![s].login = arg[t].login]
           /\ addr' = [addr EXCEPT ![t] = arg[t].ip]
           /\ Goto(t, "ta.pool")
           /\ UNCHANGED <<cluster, status, request, cred, sess, rs, stored, made, seen, reply, env>>
  <2>1. arg[t].login \in Logins /\ arg[t].ip \in Addresses
    BY <1>2, <1>8 DEF ConfigLabels, Config
  <2> DEFINE cfg == [config[s] EXCEPT !.login = arg[t].login]
  <2>2. cfg \in Config
    BY <1>1, <2>1 DEF Config
  <2>3. config' \in [Servers -> Config]
    BY <1>1, <1>8, <2>2
  <2>4. /\ addr' \in [Threads -> Addresses \cup {None}] /\ addr'[t] \in Addresses
        /\ \A u \in Threads \ {t} : addr'[u] = addr[u]
    BY <1>5, <1>8, <2>1
  <2> QED
    BY <1>5, <1>8, <2>3, <2>4, ConfigStep
<1>9. CASE SetupPooling(t, "ta.pool", "ta.build", "cs.ip", "reply")
  BY <1>9, SetupPoolingStep DEF Flow, Labels, FailLabels, PoolingLabels, BuildLabels, ConnectLabels,
     ExecuteLabels, TestLabels, ConfigLabels, AddLabels
<1> QED
  BY <1>6, <1>7, <1>8, <1>9 DEF TestArguments, SetupDatabase, SetupLogin

(* localarguments keeps the invariant. *)
LEMMA LocalArgumentsStep ==
  ASSUME IInv, NEW t \in Threads, LocalArguments(t)
  PROVE  IInv'
<1> DEFINE s == ServerOf[t]
<1>1. s \in Servers /\ config[s] \in Config /\ config \in [Servers -> Config]
  BY ServerAssumption DEF IInv, TypeOK
<1>2. /\ addr \in [Threads -> Addresses \cup {None}]
      /\ seen \in [Threads -> SUBSET (Hosts \cup {BadIp})]
  BY DEF IInv, TypeOK
<1>3. CASE /\ SetAddress(t, Local)
           /\ Goto(t, "la.port")
           /\ UNCHANGED <<cluster, status, request, addr, cred, sess, rs, stored, made, reply, env>>
  <2>1. Local \in Addresses
    BY ServerAssumption DEF Addresses
  <2>2. /\ config' \in [Servers -> Config]
        /\ seen' \in [Threads -> SUBSET (Hosts \cup {BadIp})]
    BY <1>3, <2>1, SetAddressType
  <2> QED
    BY <1>2, <1>3, <2>2, ConfigStep
<1>4. CASE /\ config' = [config EXCEPT ![s].port = NativePort]
           /\ Goto(t, "reply")
           /\ UNCHANGED <<cluster, status, request, locals, reply, env>>
  <2> DEFINE cfg == [config[s] EXCEPT !.port = NativePort]
  <2>1. cfg \in Config
    BY <1>1, ServerAssumption DEF Config
  <2>2. config' \in [Servers -> Config]
    BY <1>1, <1>4, <2>1
  <2> QED
    BY <1>2, <1>4, <2>2, ConfigStep DEF locals
<1> QED
  BY <1>3, <1>4 DEF LocalArguments, SetuplocalDatabase

(* The constructor's own steps keep the invariant. *)
LEMMA ConstructorStep ==
  ASSUME IInv, NEW t \in Threads, Constructor(t)
  PROVE  IInv'
<1>1. CASE ReadIp(t, "ctor.ip", "ctor.pool")
  BY <1>1, ReadIpStep DEF Flow, Labels, FailLabels, PoolingLabels, BuildLabels, ConnectLabels,
     ExecuteLabels, TestLabels, ConfigLabels, AddLabels
<1>2. CASE SetupPooling(t, "ctor.pool", "ctor.build", "cs.ip", "reply")
  BY <1>2, SetupPoolingStep DEF Flow, Labels, FailLabels, PoolingLabels, BuildLabels, ConnectLabels,
     ExecuteLabels, TestLabels, ConfigLabels, AddLabels
<1> QED
  BY <1>1, <1>2 DEF Constructor

EntryLabels == {"ctor.ip", "ta.ip", "la.ip", "st.ip", "sr.ip", "qs.ip", "reply"}

(* A fresh stack frame keeps the invariant, when the body is of the kind *)
(* the handler takes.                                                    *)
LEMMA EnterStep ==
  ASSUME IInv, NEW t \in Threads, NEW handler \in AllHandlers \cup {"constructor"},
         NEW body \in Requests \cup Restaurant \cup {None}, NEW label \in EntryLabels,
         handler = "testarguments" => body \in Requests,
         handler = "addRestaurant" => body \in Restaurant,
         label \in ConfigLabels => handler = "testarguments",
         label \in AddLabels => handler = "addRestaurant",
         status' \in [Servers -> {"down", "starting", "up"}],
         Enter(t, handler, body, label)
  PROVE  IInv'
<1>1. Resolve(config[ServerOf[t]].ip) \in Hosts \cup {BadIp}
  BY ServerAssumption, ResolveType DEF IInv, TypeOK, Config
<1>2. NoReply \in Reply
  BY DEF NoReply, Reply, NoRows, Rows
<1>3. TypeOK'
  <2>1. pc' \in [Threads -> Labels]
    BY DEF IInv, TypeOK, Enter, Goto, Labels, EntryLabels
  <2>2. op' \in [Threads -> AllHandlers \cup {"constructor", None}]
    BY DEF IInv, TypeOK, Enter
  <2>3. arg' \in [Threads -> Requests \cup Restaurant \cup {None}]
    BY DEF IInv, TypeOK, Enter
  <2>3a. \A u \in Threads :
          /\ op'[u] = "testarguments" => arg'[u] \in Requests
          /\ op'[u] = "addRestaurant" => arg'[u] \in Restaurant
    <3> TAKE u \in Threads
    <3>1. CASE u = t
      BY <3>1 DEF IInv, TypeOK, Enter
    <3>2. CASE u # t
      BY <3>2 DEF IInv, TypeOK, Enter
    <3> QED
      BY <3>1, <3>2
  <2>4. seen' \in [Threads -> SUBSET (Hosts \cup {BadIp})]
    BY <1>1 DEF IInv, TypeOK, Enter
  <2>5. reply' \in [Threads -> Reply]
    BY <1>2 DEF IInv, TypeOK, Enter
  <2>6. /\ addr' \in [Threads -> Addresses \cup {None}]
        /\ cred' \in [Threads -> Logins \cup {None}]
        /\ sess' \in [Threads -> Hosts \cup {None}]
        /\ rs' \in [Threads -> Rows \cup {None}]
        /\ stored' \in [Threads -> BOOLEAN]
        /\ made' \in [Threads -> Hosts \cup {None}]
    BY DEF IInv, TypeOK, Enter
  <2> QED
    BY <2>1, <2>2, <2>3, <2>4, <2>3a, <2>5, <2>6 DEF IInv, TypeOK, Enter, env
<1>4. ASSUME NEW u \in Threads PROVE LabelOK(u)'
  <2>1. CASE u = t
    <3>1. pc'[u] = label /\ op'[u] = handler
      BY <2>1 DEF IInv, TypeOK, Enter, Goto
    <3>2. label \notin PoolingLabels \cup BuildLabels \cup ConnectLabels \cup
                      ExecuteLabels \cup TestLabels
      BY DEF EntryLabels, PoolingLabels, BuildLabels, ConnectLabels, ExecuteLabels,
         TestLabels
    <3> QED
      BY <3>1, <3>2 DEF LabelOK
  <2>2. CASE u # t
    BY <2>2 DEF IInv, TypeOK, LabelOK, Enter, Goto
  <2> QED
    BY <2>1, <2>2
<1>5. KeyspaceStays'
  <2>1. db' = db /\ made'[t] = None
    BY DEF IInv, TypeOK, Enter, env
  <2>2. \A u \in Threads : u # t => made'[u] = made[u]
    BY DEF IInv, TypeOK, Enter
  <2>3. ASSUME NEW u \in Threads, made'[u] # None PROVE made'[u] = made[u] /\ u # t
    BY <2>1, <2>2, <2>3
  <2>4. ASSUME NEW u \in Threads, made'[u] # None PROVE db'[made'[u]].keyspace
    BY <2>1, <2>3, <2>4 DEF IInv, KeyspaceStays
  <2>5. ASSUME NEW u \in Threads, NEW v \in Threads, u # v, made'[u] # None
        PROVE  made'[u] # made'[v]
    BY <2>1, <2>2, <2>3, <2>5 DEF IInv, KeyspaceStays
  <2> QED
    BY <2>4, <2>5 DEF KeyspaceStays
<1> QED
  BY <1>3, <1>4, <1>5 DEF IInv

(* A request, with the body its handler takes, keeps the invariant. *)
LEMMA ReceiveStep ==
  ASSUME IInv, NEW t \in Threads, Receive(t)
  PROVE  IInv'
<1>1. PICK handler \in Handlers :
        \E b \in Bodies(handler) : Enter(t, handler, b, FirstStep(handler))
  BY DEF Receive
<1> PICK body \in Bodies(handler) : Enter(t, handler, body, FirstStep(handler))
  BY <1>1
<1>2. handler \in AllHandlers
  BY ServerAssumption
<1>3. /\ handler = "testarguments" => body \in Requests
      /\ handler = "addRestaurant" => body \in Restaurant
      /\ body \in Requests \cup Restaurant \cup {None}
  BY DEF Bodies
<1>4. /\ FirstStep(handler) \in EntryLabels
      /\ FirstStep(handler) \in ConfigLabels => handler = "testarguments"
      /\ FirstStep(handler) \in AddLabels => handler = "addRestaurant"
  BY <1>2 DEF FirstStep, AllHandlers, EntryLabels, ConfigLabels, AddLabels
<1>5. status' \in [Servers -> {"down", "starting", "up"}]
  BY DEF Receive, IInv, TypeOK
<1> QED
  BY <1>2, <1>3, <1>4, <1>5, EnterStep

(* The start of a server keeps the invariant. *)
LEMMA StartStep ==
  ASSUME IInv, NEW t \in Threads, Start(t)
  PROVE  IInv'
<1>1. status' \in [Servers -> {"down", "starting", "up"}]
  BY DEF Start, IInv, TypeOK
<1> QED
  BY <1>1, EnterStep DEF Start, EntryLabels, ConfigLabels, AddLabels

(* The end of a handler keeps the invariant. *)
LEMMA ReturnStep ==
  ASSUME IInv, NEW t \in Threads, Return(t)
  PROVE  IInv'
<1> DEFINE cfg == config[ServerOf[t]]
           answer == CASE op[t] \in {"testarguments", "localarguments", "reportarguments"} ->
                            ReportArguments(reply[t], cfg)
                       [] op[t] = "addRestaurant" -> AddRestaurant(reply[t])
                       [] op[t] = "setupRestaurantDatabaseTables" -> SetupAnswer(reply[t])
                       [] OTHER -> reply[t]
<1>1. reply' = [reply EXCEPT ![t] = answer]
  BY DEF Return
<1>2. reply[t] \in Reply /\ cfg \in Config
  BY ServerAssumption DEF IInv, TypeOK
<1>3. answer \in Reply
  <2>1. ReportArguments(reply[t], cfg) \in Reply
    BY <1>2 DEF Reply, Config, ReportArguments
  <2>2. AddRestaurant(reply[t]) \in Reply /\ SetupAnswer(reply[t]) \in Reply
    BY <1>2 DEF Reply, AddRestaurant, SetupAnswer
  <2> QED
    BY <1>2, <2>1, <2>2
<1> HIDE DEF answer
<1>4. TypeOK'
  <2>1. pc' \in [Threads -> Labels]
    BY DEF IInv, TypeOK, Return, Goto, Labels
  <2>2. status' \in [Servers -> {"down", "starting", "up"}]
    BY DEF IInv, TypeOK, Return
  <2>3. reply' \in [Threads -> Reply]
    BY <1>1, <1>3 DEF IInv, TypeOK
  <2> QED
    BY <2>1, <2>2, <2>3 DEF IInv, TypeOK, Return, request, locals, env
<1>5. ASSUME NEW u \in Threads PROVE LabelOK(u)'
  BY DEF IInv, TypeOK, LabelOK, Return, Goto, request, locals,
       PoolingLabels, BuildLabels, ConnectLabels,
       ExecuteLabels, TestLabels, ConfigLabels, AddLabels
<1>6. KeyspaceStays'
  BY DEF IInv, KeyspaceStays, Return, locals, env
<1> QED
  BY <1>4, <1>5, <1>6 DEF IInv

(* A node that goes down or comes back keeps its keyspace and its tables. *)
LEMMA NodeStep ==
  ASSUME IInv, NEW h \in Hosts, NodeDown(h) \/ NodeUp(h)
  PROVE  IInv'
<1>1. PICK up \in BOOLEAN : db' = [db EXCEPT ![h].up = up]
  BY DEF NodeDown, NodeUp
<1> DEFINE node == [db[h] EXCEPT !.up = up]
<1>2. db[h] \in Node /\ node \in Node /\ node.keyspace = db[h].keyspace
  <2>1. db[h] \in Node
    BY DEF IInv, TypeOK
  <2> QED
    BY <2>1, SMT DEF Node
<1>3. db' = [db EXCEPT ![h] = node]
  BY <1>1
<1> HIDE DEF node
<1>4. UNCHANGED <<server, pc, request, locals, reply>>
  BY DEF NodeDown, NodeUp
<1>5. faults' \in 0 .. MaxFaults
  <2>1. CASE NodeDown(h)
    BY <2>1, FaultSpent DEF NodeDown
  <2>2. CASE NodeUp(h)
    BY <2>2 DEF NodeUp, IInv, TypeOK
  <2> QED
    BY <2>1, <2>2
<1>6. TypeOK'
  BY <1>2, <1>3, <1>4, <1>5 DEF IInv, TypeOK, server, request, locals
<1>7. ASSUME NEW u \in Threads PROVE LabelOK(u)'
  BY <1>4 DEF IInv, LabelOK, server, request, locals
<1>8. KeyspaceStays'
  <2>1. \A g \in Hosts : db[g].keyspace => db'[g].keyspace
    BY <1>2, <1>3 DEF IInv, TypeOK
  <2> QED
    BY <1>4, <2>1 DEF IInv, TypeOK, KeyspaceStays, locals
<1> QED
  BY <1>6, <1>7, <1>8 DEF IInv

(* A crash keeps the invariant: what the nodes hold is not lost with it. *)
LEMMA CrashStep ==
  ASSUME IInv, NEW s \in Servers, Crash(s)
  PROVE  IInv'
<1>1. faults' \in 0 .. MaxFaults
  BY FaultSpent DEF Crash
<1>2. NoReply \in Reply
  BY DEF NoReply, Reply, NoRows, Rows
<1>3. "idle" \in Labels
  BY DEF Labels
<1>4. TypeOK'
  <2>1. /\ config' \in [Servers -> Config]
        /\ cluster' \in [Servers -> Cluster \cup {None}]
        /\ status' \in [Servers -> {"down", "starting", "up"}]
    BY ServerAssumption DEF IInv, TypeOK, Crash
  <2>2. /\ pc' \in [Threads -> Labels]
        /\ reply' \in [Threads -> Reply]
        /\ seen' \in [Threads -> SUBSET (Hosts \cup {BadIp})]
    BY <1>2, <1>3 DEF IInv, TypeOK, Crash
  <2>3. /\ op' \in [Threads -> AllHandlers \cup {"constructor", None}]
        /\ arg' \in [Threads -> Requests \cup Restaurant \cup {None}]
        /\ addr' \in [Threads -> Addresses \cup {None}]
        /\ cred' \in [Threads -> Logins \cup {None}]
        /\ sess' \in [Threads -> Hosts \cup {None}]
        /\ rs' \in [Threads -> Rows \cup {None}]
        /\ stored' \in [Threads -> BOOLEAN]
        /\ made' \in [Threads -> Hosts \cup {None}]
    BY DEF IInv, TypeOK, Crash
  <2>4. ASSUME NEW u \in Threads
        PROVE  /\ op'[u] = "testarguments" => arg'[u] \in Requests
               /\ op'[u] = "addRestaurant" => arg'[u] \in Restaurant
    <3>1. None \notin {"testarguments", "addRestaurant"}
      BY NoneIsNoHandler DEF AllHandlers
    <3> QED
      BY <3>1 DEF IInv, TypeOK, Crash
  <2> QED
    BY <1>1, <2>1, <2>2, <2>3, <2>4 DEF IInv, TypeOK, Crash
<1>5. ASSUME NEW u \in Threads PROVE LabelOK(u)'
  <2>1. CASE ServerOf[u] = s
    BY <2>1 DEF Crash, LabelOK,
       PoolingLabels, BuildLabels, ConnectLabels,
       ExecuteLabels, TestLabels, ConfigLabels, AddLabels
  <2>2. CASE ServerOf[u] # s
    <3>1. cluster'[ServerOf[u]] = cluster[ServerOf[u]]
      BY <2>2, ServerAssumption DEF IInv, TypeOK, Crash
    <3> QED
      BY <2>2, <3>1 DEF IInv, LabelOK, Crash
  <2> QED
    BY <2>1, <2>2
<1>6. KeyspaceStays'
  BY DEF IInv, KeyspaceStays, Crash
<1> QED
  BY <1>4, <1>5, <1>6 DEF IInv

(* The initial states satisfy the invariant. *)
LEMMA InitInvariant == Init => IInv
<1> SUFFICES ASSUME Init PROVE IInv
  OBVIOUS
<1>1. NoReply \in Reply /\ FreshNode \in Node
  BY DEF NoReply, Reply, FreshNode, Node, NoRows, Rows
<1>2. None \notin {"testarguments", "addRestaurant"} /\ "idle" \in Labels
  BY NoneIsNoHandler DEF AllHandlers, Labels
<1>3. MaxFaults \in 0 .. MaxFaults
  <2>1. MaxFaults \in Nat
    BY ServerAssumption
  <2> QED
    BY <2>1, SMT
<1>4. TypeOK
  BY <1>1, <1>2, <1>3, ServerAssumption DEF Init, TypeOK
<1>5. ASSUME NEW t \in Threads PROVE LabelOK(t)
  BY DEF Init, LabelOK, PoolingLabels, BuildLabels, ConnectLabels, ExecuteLabels,
     TestLabels, ConfigLabels, AddLabels
<1>6. KeyspaceStays
  BY DEF Init, KeyspaceStays
<1> QED
  BY <1>4, <1>5, <1>6 DEF IInv

(* Every step of the system keeps the invariant. *)
LEMMA NextInvariant == IInv /\ [Next]_vars => IInv'
<1> SUFFICES ASSUME IInv, [Next]_vars PROVE IInv'
  OBVIOUS
<1>1. ASSUME NEW t \in Threads, Step(t) PROVE IInv'
  BY <1>1, ConstructorStep, TestArgumentsStep, LocalArgumentsStep, CreateSchemaStep,
     CreateTableStep, DeleteTableStep, SetupStep, SetRestaurantsStep, QuerySchemaStep,
     GetRestaurantsStep, ReturnStep DEF Step
<1>2. ASSUME NEW t \in Threads, Start(t) \/ Receive(t) PROVE IInv'
  BY <1>2, StartStep, ReceiveStep
<1>3. ASSUME NEW h \in Hosts, NodeDown(h) \/ NodeUp(h) PROVE IInv'
  BY <1>3, NodeStep
<1>4. ASSUME NEW s \in Servers, Crash(s) PROVE IInv'
  BY <1>4, CrashStep
<1>5. CASE UNCHANGED vars
  BY <1>5 DEF vars, IInv, TypeOK, LabelOK, KeyspaceStays
<1> QED
  BY <1>1, <1>2, <1>3, <1>4, <1>5 DEF Next

(* The invariant holds throughout. *)
LEMMA Invariance == Spec => []IInv
BY InitInvariant, NextInvariant, PTL DEF Spec

(***************************************************************************)
(* Type correctness of the server, its threads and the nodes, whatever the *)
(* handlers of RestaurantController and the methods of SessionUtil do.     *)
(***************************************************************************)
THEOREM TypeCorrect == Spec => []TypeOK
<1>1. IInv => TypeOK
  BY DEF IInv
<1> QED
  BY <1>1, Invariance, PTL

(***************************************************************************)
(* createSchema is a gate: in every deployment, at most one request in     *)
(* flight has created the keyspace of a node, and only a request that      *)
(* created one is in createTable or deleteTable.                           *)
(***************************************************************************)
THEOREM GateHolds == Spec => []KeyspaceGate
<1>1. IInv => KeyspaceGate
  BY DEF IInv, KeyspaceStays, KeyspaceGate, InTestSection, LabelOK, TestLabels
<1> QED
  BY <1>1, Invariance, PTL

(***************************************************************************)
(* No method of SessionUtil calls connect on a null cluster.               *)
(***************************************************************************)
THEOREM NoNullCluster == Spec => []ClusterBeforeConnect
<1>1. IInv => ClusterBeforeConnect
  BY DEF IInv, LabelOK, ClusterBeforeConnect
<1> QED
  BY <1>1, Invariance, PTL

(***************************************************************************)
(* What the requests do to the nodes, and which node they do it to.  These *)
(* proofs rest on IInv.                                                    *)
(*                                                                         *)
(* A handler is a path through the steps ReadIp, SetupPooling, Connect and *)
(* Execute.  The definitions below list where the code uses each, and the  *)
(* lemma StepForms says that a step of a thread is one of them, or one of  *)
(* the few steps that change the configuration or the answer.              *)
(***************************************************************************)

(* Where a handler reads the configured address. *)
Reading(t) ==
  \/ ReadIp(t, "ctor.ip", "ctor.pool")
  \/ ReadIp(t, "cs.ip", "cs.pool")
  \/ ReadIp(t, "st.ip", "st.pool")
  \/ ReadIp(t, "sr.ip", "sr.pool")
  \/ ReadIp(t, "qs.ip", "qs.pool")
  \/ ReadIp(t, "gr.ip", "gr.pool")

(* Where it builds a Cluster. *)
Pooling(t) ==
  \/ SetupPooling(t, "ctor.pool", "ctor.build", "cs.ip", "reply")
  \/ SetupPooling(t, "ta.pool", "ta.build", "cs.ip", "reply")
  \/ SetupPooling(t, "cs.pool", "cs.build", "cs.connect", "reply")
  \/ SetupPooling(t, "st.pool", "st.build", "st.connect", "reply")
  \/ SetupPooling(t, "sr.pool", "sr.build", "sr.connect", "reply")
  \/ SetupPooling(t, "qs.pool", "qs.build", "qs.connect", "gr.ip")
  \/ SetupPooling(t, "gr.pool", "gr.build", "gr.connect", "reply")

(* Where it opens a Session. *)
Connecting(t) ==
  \/ Connect(t, "cs.connect", FALSE, "cs.exec", "reply")
  \/ Connect(t, "ct.connect", TRUE, "ct.exec", "reply")
  \/ Connect(t, "dt.connect", TRUE, "dt.exec", "reply")
  \/ Connect(t, "st.connect", TRUE, "rt.connect", "reply")
  \/ Connect(t, "rt.connect", TRUE, "rt.exec", "tt.connect")
  \/ Connect(t, "tt.connect", TRUE, "tt.exec", "reply")
  \/ Connect(t, "ix.connect", TRUE, "reply", "reply")
  \/ Connect(t, "sr.connect", TRUE, "sr.exec", "reply")
  \/ Connect(t, "qs.connect", TRUE, "qs.exec", "gr.ip")
  \/ Connect(t, "gr.connect", TRUE, "gr.rows", "reply")

(* The statements that are sent. *)
Executing(t) ==
  \/ Execute(t, "cs.exec", CreateKeyspace, "ct.connect", "reply")
  \/ Execute(t, "ct.exec", CreateTableNamed("test"), "dt.connect", "reply")
  \/ Execute(t, "dt.exec", DropTableNamed("test"), "reply", "reply")
  \/ Execute(t, "rt.exec", CreateTableNamed("restaurants"), "tt.connect", "tt.connect")
  \/ Execute(t, "tt.exec", CreateTableNamed("tables"), "ix.connect", "reply")
  \/ Execute(t, "sr.exec", InsertRestaurant(arg[t].id, arg[t].data), "reply", "reply")
  \/ Execute(t, "qs.exec", SelectRestaurants, "gr.ip", "gr.ip")

Configuring(t) == SetupDatabase(t) \/ SetupLogin(t) \/ SetuplocalDatabase(t)

Listing(t) ==
  /\ pc[t] = "gr.rows"
  /\ reply' = [reply EXCEPT ![t].rows = IF rs[t] = None THEN NoRows ELSE rs[t]]
  /\ Goto(t, "reply")
  /\ UNCHANGED <<server, request, locals, env>>

(* A step of a thread is one of those. *)
LEMMA StepForms ==
  ASSUME NEW t \in Threads, Step(t)
  PROVE  \/ Reading(t) \/ Pooling(t) \/ Connecting(t) \/ Executing(t)
         \/ Configuring(t) \/ Listing(t) \/ Return(t)
<1>1. CASE Constructor(t)
  BY <1>1 DEF Constructor, Reading, Pooling
<1>2. CASE TestArguments(t)
  BY <1>2 DEF TestArguments, Configuring, Pooling
<1>3. CASE LocalArguments(t)
  BY <1>3 DEF LocalArguments, Configuring
<1>4. CASE CreateSchema(t)
  BY <1>4 DEF CreateSchema, Reading, Pooling, Connecting, Executing
<1>5. CASE CreateTable(t)
  BY <1>5 DEF CreateTable, Connecting, Executing
<1>6. CASE DeleteTable(t)
  BY <1>6 DEF DeleteTable, Connecting, Executing
<1>7. CASE SetupRestaurantDatabaseTables(t)
  BY <1>7 DEF SetupRestaurantDatabaseTables, CreateRestaurantTable, CreateTablesTable, CreateIndex,
     Reading, Pooling, Connecting, Executing
<1>8. CASE SetRestaurants(t)
  BY <1>8 DEF SetRestaurants, Reading, Pooling, Connecting, Executing
<1>9. CASE QuerySchema(t)
  BY <1>9 DEF QuerySchema, Reading, Pooling, Connecting, Executing
<1>10. CASE GetRestaurants(t)
  BY <1>10 DEF GetRestaurants, Reading, Pooling, Connecting, Listing
<1> QED
  BY <1>1, <1>2, <1>3, <1>4, <1>5, <1>6, <1>7, <1>8, <1>9, <1>10 DEF Step

------------------------------------------------------------------------------
(* What a statement does to a node. *)

(* An accepted statement keeps the keyspace, the tables it does not drop   *)
(* and the rows it does not insert.                                        *)
LEMMA AfterKeeps ==
  ASSUME NEW node \in Node, NEW stmt
  PROVE  /\ After(node, stmt).up = node.up
         /\ node.keyspace => After(node, stmt).keyspace
         /\ stmt.cql = "CREATE_KEYSPACE" => After(node, stmt).keyspace
         /\ stmt.cql # "CREATE_KEYSPACE" => After(node, stmt).keyspace = node.keyspace
         /\ stmt.cql = "CREATE_TABLE" => After(node, stmt).tables = node.tables \cup {stmt.table}
         /\ stmt.cql = "DROP_TABLE" => After(node, stmt).tables = node.tables \ {stmt.table}
         /\ stmt.cql \notin {"CREATE_TABLE", "DROP_TABLE"} => After(node, stmt).tables = node.tables
         /\ stmt.cql = "INSERT" => After(node, stmt).rows = [node.rows EXCEPT ![stmt.id] = stmt.data]
         /\ stmt.cql # "INSERT" => After(node, stmt).rows = node.rows
<1>1. /\ After(node, stmt).up = node.up
      /\ After(node, stmt).keyspace = IF stmt.cql = "CREATE_KEYSPACE" THEN TRUE ELSE node.keyspace
      /\ After(node, stmt).tables = (node.tables \cup {x \in {stmt.table} : stmt.cql = "CREATE_TABLE"})
                                      \ {x \in {stmt.table} : stmt.cql = "DROP_TABLE"}
      /\ After(node, stmt).rows = IF stmt.cql = "INSERT" THEN [node.rows EXCEPT ![stmt.id] = stmt.data]
                                  ELSE node.rows
  BY DEF After
<1>2. /\ stmt.cql = "CREATE_TABLE" => After(node, stmt).tables = node.tables \cup {stmt.table}
      /\ stmt.cql = "DROP_TABLE" => After(node, stmt).tables = node.tables \ {stmt.table}
      /\ stmt.cql \notin {"CREATE_TABLE", "DROP_TABLE"} => After(node, stmt).tables = node.tables
  <2>1. CASE stmt.cql = "CREATE_TABLE"
    BY <1>1, <2>1
  <2>2. CASE stmt.cql = "DROP_TABLE"
    BY <1>1, <2>2
  <2>3. CASE stmt.cql \notin {"CREATE_TABLE", "DROP_TABLE"}
    BY <1>1, <2>3
  <2> QED
    BY <2>1, <2>2, <2>3
<1> QED
  BY <1>1, <1>2

(* A statement changes the node of the Session, if it is accepted, and no  *)
(* other.                                                                  *)
LEMMA ExecuteEffect ==
  ASSUME IInv, NEW t \in Threads, NEW at \in ExecuteLabels, NEW stmt, NEW ok, NEW fail,
         Execute(t, at, stmt, ok, fail)
  PROVE  /\ sess[t] \in Hosts /\ db[sess[t]] \in Node /\ db \in [Hosts -> Node]
         /\ \/ ~Accepts(db[sess[t]], stmt) /\ db' = db
            \/ /\ Accepts(db[sess[t]], stmt)
               /\ db' = [db EXCEPT ![sess[t]] = After(db[sess[t]], stmt)]
<1>1. sess[t] \in Hosts
  BY DEF IInv, LabelOK, Execute
<1>2. db \in [Hosts -> Node] /\ db[sess[t]] \in Node
  BY <1>1 DEF IInv, TypeOK
<1> QED
  BY <1>1, <1>2 DEF Execute

------------------------------------------------------------------------------
(* No request destroys data. *)

LEMMA ExecuteKeepsData ==
  ASSUME IInv, NEW t \in Threads, NEW at \in ExecuteLabels, NEW stmt, NEW ok, NEW fail,
         stmt.cql = "DROP_TABLE" => stmt.table = "test",
         stmt.cql = "INSERT" => at = "sr.exec" /\ stmt.id = arg[t].id /\ stmt.data = arg[t].data,
         Execute(t, at, stmt, ok, fail)
  PROVE  KeepsData
<1> DEFINE h == sess[t]
           node == db[h]
           after == After(node, stmt)
<1>1. CASE db' = db
  BY <1>1 DEF KeepsData
<1>2. CASE /\ Accepts(node, stmt)
           /\ db' = [db EXCEPT ![h] = after]
  <2>1. h \in Hosts /\ node \in Node /\ db \in [Hosts -> Node]
    BY ExecuteEffect
  <2>2. db'[h] = after /\ \A g \in Hosts : g # h => db'[g] = db[g]
    BY <1>2, <2>1
  <2>3. /\ node.keyspace => after.keyspace
        /\ node.tables \ {"test"} \subseteq after.tables
    <3>1. node.keyspace => after.keyspace
      BY <2>1, AfterKeeps
    <3>2. /\ stmt.cql = "CREATE_TABLE" => after.tables = node.tables \cup {stmt.table}
          /\ stmt.cql = "DROP_TABLE" => after.tables = node.tables \ {stmt.table}
          /\ stmt.cql \notin {"CREATE_TABLE", "DROP_TABLE"} => after.tables = node.tables
      BY <2>1, AfterKeeps
    <3> HIDE DEF after, node
    <3> QED
      BY <3>1, <3>2
  <2>4. ASSUME NEW id \in RestaurantIds, after.rows[id] # node.rows[id]
        PROVE  /\ op[t] = "addRestaurant" /\ pc[t] = "sr.exec"
               /\ arg[t] = [id |-> id, data |-> after.rows[id]]
    <3>1. after.rows # node.rows
      BY <2>4
    <3>2. stmt.cql = "INSERT" /\ after.rows = [node.rows EXCEPT ![stmt.id] = stmt.data]
      BY <2>1, <3>1, AfterKeeps
    <3>3. node.rows \in [RestaurantIds -> RestaurantData \cup {None}]
      BY <2>1 DEF Node, Rows
    <3> HIDE DEF after, node
    <3>4. id = stmt.id /\ after.rows[id] = stmt.data
      BY <2>4, <3>2, <3>3
    <3>5. pc[t] = "sr.exec" /\ op[t] = "addRestaurant"
      BY <3>2 DEF IInv, LabelOK, Execute, AddLabels
    <3>6. arg[t] \in Restaurant
      BY <3>5 DEF IInv, TypeOK
    <3> QED
      BY <3>2, <3>4, <3>5, <3>6 DEF Restaurant
  <2> HIDE DEF h, node, after
  <2> QED
    BY <2>1, <2>2, <2>3, <2>4 DEF KeepsData, node
<1> QED
  BY <1>1, <1>2, ExecuteEffect

(* A step that sends no statement leaves the nodes alone. *)
LEMMA QuietSteps ==
  ASSUME NEW t \in Threads,
         Reading(t) \/ Pooling(t) \/ Connecting(t) \/ Configuring(t) \/ Listing(t) \/ Return(t)
  PROVE  UNCHANGED <<db, faults, made>>
<1>1. CASE Reading(t)
  BY <1>1 DEF Reading, ReadIp, env
<1>2. CASE Pooling(t)
  <2>1. ASSUME NEW at, NEW build, NEW ok, NEW fail, SetupPooling(t, at, build, ok, fail)
        PROVE  UNCHANGED <<db, faults, made>>
    BY <2>1 DEF SetupPooling, env, locals
  <2> QED
    BY <1>2, <2>1 DEF Pooling
<1>3. CASE Connecting(t)
  <2>1. ASSUME NEW at, NEW keyspace \in BOOLEAN, NEW ok, NEW fail, Connect(t, at, keyspace, ok, fail)
        PROVE  UNCHANGED <<db, faults, made>>
    BY <2>1 DEF Connect, env
  <2> QED
    BY <1>3, <2>1 DEF Connecting
<1>4. CASE Configuring(t)
  BY <1>4 DEF Configuring, SetupDatabase, SetupLogin, SetuplocalDatabase, env, locals
<1>5. CASE Listing(t)
  BY <1>5 DEF Listing, env, locals
<1>6. CASE Return(t)
  BY <1>6 DEF Return, env, locals
<1> QED
  BY <1>1, <1>2, <1>3, <1>4, <1>5, <1>6

LEMMA ExecutingKeepsData ==
  ASSUME IInv, NEW t \in Threads, Executing(t)
  PROVE  KeepsData
<1> USE DEF Statement, ExecuteLabels
<1>1. CASE Execute(t, "cs.exec", CreateKeyspace, "ct.connect", "reply")
  BY <1>1, ExecuteKeepsData DEF CreateKeyspace
<1>2. CASE Execute(t, "ct.exec", CreateTableNamed("test"), "dt.connect", "reply")
  BY <1>2, ExecuteKeepsData DEF CreateTableNamed
<1>3. CASE Execute(t, "dt.exec", DropTableNamed("test"), "reply", "reply")
  BY <1>3, ExecuteKeepsData DEF DropTableNamed
<1>4. CASE Execute(t, "rt.exec", CreateTableNamed("restaurants"), "tt.connect", "tt.connect")
  BY <1>4, ExecuteKeepsData DEF CreateTableNamed
<1>5. CASE Execute(t, "tt.exec", CreateTableNamed("tables"), "ix.connect", "reply")
  BY <1>5, ExecuteKeepsData DEF CreateTableNamed
<1>6. CASE Execute(t, "sr.exec", InsertRestaurant(arg[t].id, arg[t].data), "reply", "reply")
  BY <1>6, ExecuteKeepsData DEF InsertRestaurant
<1>7. CASE Execute(t, "qs.exec", SelectRestaurants, "gr.ip", "gr.ip")
  BY <1>7, ExecuteKeepsData DEF SelectRestaurants
<1> QED
  BY <1>1, <1>2, <1>3, <1>4, <1>5, <1>6, <1>7 DEF Executing

(***************************************************************************)
(* In every deployment, keyspaces, tables but the scratch one, and rows    *)
(* stay, and a row changes only to what a client posted to addRestaurant.  *)
(***************************************************************************)
THEOREM DataIsKept == Spec => DataKept
<1>1. ASSUME IInv, [Next]_vars PROVE [KeepsData]_db
  <2>1. db' = db => [KeepsData]_db
    OBVIOUS
  <2>2. ASSUME NEW t \in Threads, Step(t) PROVE [KeepsData]_db
    BY <1>1, <2>1, <2>2, StepForms, QuietSteps, ExecutingKeepsData
  <2>3. ASSUME NEW t \in Threads, Start(t) \/ Receive(t) PROVE [KeepsData]_db
    BY <2>3, <2>1 DEF Start, Receive, Enter, env
  <2>4. ASSUME NEW h \in Hosts, NodeDown(h) \/ NodeUp(h) PROVE [KeepsData]_db
    <3>1. PICK up \in BOOLEAN : db' = [db EXCEPT ![h].up = up]
      BY <2>4 DEF NodeDown, NodeUp
    <3>2. db \in [Hosts -> Node]
      BY <1>1 DEF IInv, TypeOK
    <3>3. ASSUME NEW g \in Hosts
          PROVE  db'[g].keyspace = db[g].keyspace /\ db'[g].tables = db[g].tables /\ db'[g].rows = db[g].rows
      BY <3>1, <3>2 DEF Node
    <3> QED
      BY <3>3 DEF KeepsData
  <2>5. ASSUME NEW s \in Servers, Crash(s) PROVE [KeepsData]_db
    BY <2>5, <2>1 DEF Crash
  <2>6. CASE UNCHANGED vars
    BY <2>6, <2>1 DEF vars
  <2> QED
    BY <1>1, <2>2, <2>3, <2>4, <2>5, <2>6 DEF Next
<1> QED
  BY <1>1, Invariance, PTL DEF Spec, DataKept

------------------------------------------------------------------------------
(* The scratch table of the only node. *)

CreatingTest == {"ct.connect", "ct.exec"}

DroppingTest == {"dt.connect", "dt.exec"}

(* No table without the keyspace; and where the requests are that create   *)
(* and drop the table tells whether it is there.                           *)
ScratchOf(h) ==
  /\ ~db[h].keyspace => "test" \notin db[h].tables
  /\ \A t \in Threads : pc[t] \in CreatingTest => "test" \notin db[h].tables
  /\ \A t \in Threads : pc[t] \in DroppingTest => "test" \in db[h].tables

(* A step that sends no statement goes on in the same part of the section. *)
LEMMA QuietLabels ==
  ASSUME NEW t \in Threads,
         Reading(t) \/ Pooling(t) \/ Connecting(t) \/ Configuring(t) \/ Listing(t) \/ Return(t)
  PROVE  \E next : /\ Goto(t, next)
                   /\ next \in CreatingTest => pc[t] \in CreatingTest
                   /\ next \in DroppingTest => pc[t] \in DroppingTest
<1> DEFINE Goes(next) == /\ Goto(t, next)
                         /\ next \in CreatingTest => pc[t] \in CreatingTest
                         /\ next \in DroppingTest => pc[t] \in DroppingTest
<1> SUFFICES \E next : Goes(next)
  OBVIOUS
<1>1. ASSUME NEW next, Goto(t, next), next \notin CreatingTest \cup DroppingTest
      PROVE  Goes(next)
  BY <1>1
<1>2. CASE Reading(t)
  BY <1>1, <1>2 DEF Reading, ReadIp, CreatingTest, DroppingTest
<1>3. CASE Pooling(t)
  <2>1. ASSUME NEW at, NEW build, NEW ok, NEW fail, SetupPooling(t, at, build, ok, fail)
        PROVE  Goto(t, build) \/ Goto(t, ok) \/ Goto(t, fail)
    BY <2>1 DEF SetupPooling
  <2>2. ASSUME NEW at, NEW build, NEW ok, NEW fail, SetupPooling(t, at, build, ok, fail),
               {build, ok, fail} \cap (CreatingTest \cup DroppingTest) = {}
        PROVE  \E next : Goes(next)
    BY <1>1, <2>1, <2>2
  <2> HIDE DEF Goes
  <2> QED
    BY <1>3, <2>2 DEF Pooling, CreatingTest, DroppingTest
<1>4. CASE Connecting(t)
  <2>1. ASSUME NEW at, NEW keyspace \in BOOLEAN, NEW ok, NEW fail, Connect(t, at, keyspace, ok, fail)
        PROVE  pc[t] = at /\ (Goto(t, ok) \/ Goto(t, fail))
    BY <2>1 DEF Connect
  <2>2. CASE Connect(t, "ct.connect", TRUE, "ct.exec", "reply")
    <3>1. pc[t] = "ct.connect" /\ (Goto(t, "ct.exec") \/ Goto(t, "reply"))
      BY <2>1, <2>2
    <3> QED
      BY <1>1, <3>1, SMT DEF CreatingTest, DroppingTest
  <2>3. CASE Connect(t, "dt.connect", TRUE, "dt.exec", "reply")
    <3>1. pc[t] = "dt.connect" /\ (Goto(t, "dt.exec") \/ Goto(t, "reply"))
      BY <2>1, <2>3
    <3> QED
      BY <1>1, <3>1 DEF CreatingTest, DroppingTest
  <2>4. ASSUME NEW at, NEW keyspace \in BOOLEAN, NEW ok, NEW fail, Connect(t, at, keyspace, ok, fail),
               ok \notin CreatingTest \cup DroppingTest, fail \notin CreatingTest \cup DroppingTest
        PROVE  \E next : Goes(next)
    BY <1>1, <2>1, <2>4
  <2>5. {"cs.exec", "rt.connect", "rt.exec", "tt.connect", "tt.exec", "sr.exec", "qs.exec", "gr.ip",
         "gr.rows", "reply"} \cap (CreatingTest \cup DroppingTest) = {}
    BY DEF CreatingTest, DroppingTest
  <2>6. CASE \/ Connect(t, "cs.connect", FALSE, "cs.exec", "reply")
             \/ Connect(t, "st.connect", TRUE, "rt.connect", "reply")
             \/ Connect(t, "rt.connect", TRUE, "rt.exec", "tt.connect")
             \/ Connect(t, "tt.connect", TRUE, "tt.exec", "reply")
             \/ Connect(t, "ix.connect", TRUE, "reply", "reply")
             \/ Connect(t, "sr.connect", TRUE, "sr.exec", "reply")
             \/ Connect(t, "qs.connect", TRUE, "qs.exec", "gr.ip")
             \/ Connect(t, "gr.connect", TRUE, "gr.rows", "reply")
    BY <2>4, <2>5, <2>6
  <2> QED
    BY <1>4, <2>2, <2>3, <2>6 DEF Connecting
<1>5. CASE Configuring(t)
  BY <1>1, <1>5 DEF Configuring, SetupDatabase, SetupLogin, SetuplocalDatabase, CreatingTest, DroppingTest
<1>6. CASE Listing(t)
  BY <1>1, <1>6 DEF Listing, CreatingTest, DroppingTest
<1>7. CASE Return(t)
  BY <1>1, <1>7 DEF Return, CreatingTest, DroppingTest
<1> QED
  BY <1>2, <1>3, <1>4, <1>5, <1>6, <1>7

(* A step that neither creates nor drops the table. *)
LEMMA ScratchKept ==
  ASSUME IInv, NEW h, ScratchOf(h), NEW t \in Threads, NEW next, Goto(t, next),
         "test" \in db'[h].tables <=> "test" \in db[h].tables,
         db[h].keyspace => db'[h].keyspace,
         next \in CreatingTest => "test" \notin db[h].tables,
         next \in DroppingTest => "test" \in db[h].tables
  PROVE  ScratchOf(h)'
<1>1. ASSUME NEW u \in Threads PROVE pc'[u] = pc[u] \/ (u = t /\ pc'[u] = next)
  BY DEF IInv, TypeOK, Goto
<1> QED
  BY <1>1 DEF ScratchOf

(* What an accepted statement leaves of a node, as AfterKeeps says. *)
Kept(old, new, stmt) ==
  /\ new.up = old.up
  /\ old.keyspace => new.keyspace
  /\ stmt.cql # "CREATE_KEYSPACE" => new.keyspace = old.keyspace
  /\ stmt.cql = "CREATE_TABLE" => new.tables = old.tables \cup {stmt.table}
  /\ stmt.cql = "DROP_TABLE" => new.tables = old.tables \ {stmt.table}
  /\ stmt.cql \notin {"CREATE_TABLE", "DROP_TABLE"} => new.tables = old.tables

LEMMA KeptAfter ==
  ASSUME NEW node \in Node, NEW stmt
  PROVE  Kept(node, After(node, stmt), stmt)
BY AfterKeeps DEF Kept

(* The gate: one request at a time is in createTable and deleteTable. *)
LEMMA OneInSection ==
  ASSUME IInv, NEW h \in Hosts, Hosts = {h}, NEW t \in Threads, NEW u \in Threads, t # u,
         pc[t] \in TestLabels
  PROVE  pc[u] \notin TestLabels
<1>1. made[t] \in Hosts \cup {None} /\ made[u] \in Hosts \cup {None}
  BY DEF IInv, TypeOK
<1>2. made[t] # None /\ made[t] # made[u]
  BY DEF IInv, LabelOK, KeyspaceStays
<1>3. made[u] = None
  BY <1>1, <1>2
<1> QED
  BY <1>3 DEF IInv, LabelOK

(* Where a statement leads, and what becomes of the only node. *)
LEMMA ExecuteAlone ==
  ASSUME IInv, NEW h \in Hosts, Hosts = {h}, NEW t \in Threads, NEW at \in ExecuteLabels,
         NEW stmt, NEW ok, NEW fail, Execute(t, at, stmt, ok, fail)
  PROVE  /\ db[h] \in Node /\ pc[t] = at
         /\ \/ Goto(t, fail) /\ db'[h] = db[h]
            \/ /\ Accepts(db[h], stmt) /\ Kept(db[h], db'[h], stmt)
               /\ Goto(t, ok) \/ Goto(t, fail)
<1>1. /\ sess[t] = h /\ db[h] \in Node /\ db \in [Hosts -> Node]
      /\ \/ ~Accepts(db[h], stmt) /\ db' = db
         \/ Accepts(db[h], stmt) /\ db' = [db EXCEPT ![h] = After(db[h], stmt)]
  BY ExecuteEffect
<1>2. CASE ~Accepts(db[h], stmt)
  <2>1. Goto(t, fail)
    BY <1>1, <1>2 DEF Execute
  <2> QED
    BY <1>1, <1>2, <2>1 DEF Execute
<1>3. CASE Accepts(db[h], stmt)
  <2>1. Goto(t, ok) \/ Goto(t, fail)
    BY <1>1, <1>3 DEF Execute
  <2>2. Kept(db[h], db'[h], stmt)
    <3>1. Kept(db[h], After(db[h], stmt), stmt)
      BY <1>1, KeptAfter
    <3>2. db'[h] = After(db[h], stmt)
      BY <1>1, <1>3
    <3> QED
      BY <3>1, <3>2
  <2> QED
    BY <1>1, <1>3, <2>1, <2>2 DEF Execute
<1> QED
  BY <1>2, <1>3

(* A statement about something else. *)
LEMMA OtherStatement ==
  ASSUME IInv, NEW h \in Hosts, Hosts = {h}, ScratchOf(h), NEW t \in Threads, NEW at \in ExecuteLabels,
         NEW stmt, NEW ok, NEW fail, Execute(t, at, stmt, ok, fail),
         stmt.cql \in {"CREATE_TABLE", "DROP_TABLE"} => stmt.table # "test",
         ok \in CreatingTest => stmt.cql = "CREATE_KEYSPACE",
         ok \notin DroppingTest, fail \notin CreatingTest \cup DroppingTest
  PROVE  ScratchOf(h)'
<1>1. CASE Goto(t, fail) /\ db'[h] = db[h]
  BY <1>1, ScratchKept
<1>2. CASE Accepts(db[h], stmt) /\ Kept(db[h], db'[h], stmt) /\ (Goto(t, ok) \/ Goto(t, fail))
  <2>1. db[h] \in Node
    BY ExecuteAlone
  <2>2. "test" \in db'[h].tables <=> "test" \in db[h].tables
    BY <1>2 DEF Kept
  <2>3. db[h].keyspace => db'[h].keyspace
    BY <1>2 DEF Kept
  <2>4. ok \in CreatingTest => "test" \notin db[h].tables
    BY <1>2 DEF ScratchOf, Accepts
  <2> QED
    BY <1>2, <2>2, <2>3, <2>4, ScratchKept
<1> QED
  BY <1>1, <1>2, ExecuteAlone

(* createTable's and deleteTable's statements. *)
LEMMA TestStatement ==
  ASSUME IInv, NEW h \in Hosts, Hosts = {h}, ScratchOf(h), NEW t \in Threads,
         NEW at \in {"ct.exec", "dt.exec"}, NEW stmt, NEW ok, Execute(t, at, stmt, ok, "reply"),
         \/ at = "ct.exec" /\ stmt = CreateTableNamed("test") /\ ok = "dt.connect"
         \/ at = "dt.exec" /\ stmt = DropTableNamed("test") /\ ok = "reply"
  PROVE  ScratchOf(h)'
<1>0. at \in ExecuteLabels
  BY DEF ExecuteLabels
<1>1. CASE Goto(t, "reply") /\ db'[h] = db[h]
  BY <1>1, ScratchKept DEF CreatingTest, DroppingTest
<1>2. CASE Accepts(db[h], stmt) /\ Kept(db[h], db'[h], stmt) /\ (Goto(t, ok) \/ Goto(t, "reply"))
  <2>1. db[h] \in Node /\ pc[t] = at
    BY <1>0, ExecuteAlone
  <2>2. ASSUME NEW u \in Threads, u # t PROVE pc'[u] \notin TestLabels
    <3>1. pc'[u] = pc[u]
      BY <1>2, <2>2 DEF IInv, TypeOK, Goto
    <3> QED
      BY <2>1, <2>2, <3>1, OneInSection DEF TestLabels
  <2>3. pc'[t] \in {ok, "reply"}
    BY <1>2 DEF IInv, TypeOK, Goto
  <2>4. CASE at = "ct.exec"
    <3>1. stmt.cql = "CREATE_TABLE" /\ stmt.table = "test" /\ ok = "dt.connect"
      BY <2>4, SMT DEF CreateTableNamed, Statement
    <3>2. db'[h].tables = db[h].tables \cup {"test"} /\ db'[h].keyspace
      <4>1. db'[h].tables = db[h].tables \cup {stmt.table} /\ db'[h].keyspace = db[h].keyspace
        BY <1>2, <3>1 DEF Kept
      <4> QED
        BY <1>2, <3>1, <4>1 DEF Accepts
    <3>3. ASSUME NEW u \in Threads PROVE pc'[u] \notin CreatingTest
      BY <2>2, <2>3, <3>1 DEF CreatingTest, TestLabels
    <3> QED
      BY <3>2, <3>3 DEF ScratchOf
  <2>5. CASE at = "dt.exec"
    <3>1. stmt.cql = "DROP_TABLE" /\ stmt.table = "test" /\ ok = "reply"
      BY <2>5, SMT DEF DropTableNamed, Statement
    <3>2. db'[h].tables = db[h].tables \ {"test"}
      BY <1>2, <3>1 DEF Kept
    <3>3. ASSUME NEW u \in Threads PROVE pc'[u] \notin DroppingTest
      BY <2>2, <2>3, <3>1 DEF DroppingTest, TestLabels
    <3> QED
      BY <3>2, <3>3 DEF ScratchOf
  <2> QED
    BY <2>4, <2>5
<1> QED
  BY <1>0, <1>1, <1>2, ExecuteAlone

LEMMA ExecutingScratch ==
  ASSUME IInv, NEW h \in Hosts, Hosts = {h}, ScratchOf(h), NEW t \in Threads, Executing(t)
  PROVE  ScratchOf(h)'
<1> USE DEF Statement, ExecuteLabels, CreatingTest, DroppingTest
<1>1. CASE Execute(t, "cs.exec", CreateKeyspace, "ct.connect", "reply")
  BY <1>1, OtherStatement, SMT DEF CreateKeyspace
<1>2. CASE Execute(t, "ct.exec", CreateTableNamed("test"), "dt.connect", "reply")
  BY <1>2, TestStatement
<1>3. CASE Execute(t, "dt.exec", DropTableNamed("test"), "reply", "reply")
  BY <1>3, TestStatement
<1>4. CASE Execute(t, "rt.exec", CreateTableNamed("restaurants"), "tt.connect", "tt.connect")
  BY <1>4, OtherStatement, SMT DEF CreateTableNamed
<1>5. CASE Execute(t, "tt.exec", CreateTableNamed("tables"), "ix.connect", "reply")
  BY <1>5, OtherStatement, SMT DEF CreateTableNamed
<1>6. CASE Execute(t, "sr.exec", InsertRestaurant(arg[t].id, arg[t].data), "reply", "reply")
  BY <1>6, OtherStatement, SMT DEF InsertRestaurant
<1>7. CASE Execute(t, "qs.exec", SelectRestaurants, "gr.ip", "gr.ip")
  BY <1>7, OtherStatement, SMT DEF SelectRestaurants
<1> QED
  BY <1>1, <1>2, <1>3, <1>4, <1>5, <1>6, <1>7 DEF Executing

(* A new request starts with another step. *)
LEMMA EnterLabel ==
  ASSUME NEW t \in Threads, Start(t) \/ Receive(t)
  PROVE  /\ \E next \in EntryLabels : Goto(t, next)
         /\ pc[t] = "idle" /\ made' = [made EXCEPT ![t] = None] /\ UNCHANGED <<config, cluster, db, faults>>
<1>1. CASE Start(t)
  BY <1>1 DEF Start, Enter, EntryLabels, env
<1>2. CASE Receive(t)
  <2>1. PICK handler \in Handlers : \E b \in Bodies(handler) : Enter(t, handler, b, FirstStep(handler))
    BY <1>2 DEF Receive
  <2>2. FirstStep(handler) \in EntryLabels
    BY ServerAssumption DEF FirstStep, AllHandlers, EntryLabels
  <2> QED
    BY <2>1, <2>2 DEF Enter, env
<1> QED
  BY <1>1, <1>2

LEMMA NextScratch ==
  ASSUME IInv, NEW h \in Hosts, Hosts = {h}, ScratchOf(h), [Next]_vars
  PROVE  ScratchOf(h)'
<1>1. ASSUME NEW t \in Threads, Step(t), ~Executing(t) PROVE ScratchOf(h)'
  <2>1. PICK next : /\ Goto(t, next)
                    /\ next \in CreatingTest => pc[t] \in CreatingTest
                    /\ next \in DroppingTest => pc[t] \in DroppingTest
    BY <1>1, StepForms, QuietLabels
  <2>2. db' = db
    BY <1>1, StepForms, QuietSteps
  <2> QED
    BY <2>1, <2>2, ScratchKept DEF ScratchOf
<1>2. ASSUME NEW t \in Threads, Executing(t) PROVE ScratchOf(h)'
  BY <1>2, ExecutingScratch
<1>3. ASSUME NEW t \in Threads, Start(t) \/ Receive(t) PROVE ScratchOf(h)'
  <2>1. PICK next \in EntryLabels : Goto(t, next)
    BY <1>3, EnterLabel
  <2>2. db' = db
    BY <1>3, EnterLabel
  <2>3. next \notin CreatingTest \cup DroppingTest
    BY DEF EntryLabels, CreatingTest, DroppingTest
  <2> QED
    BY <2>1, <2>2, <2>3, ScratchKept
<1>4. ASSUME NEW g \in Hosts, NodeDown(g) \/ NodeUp(g) PROVE ScratchOf(h)'
  <2>1. PICK up \in BOOLEAN : db' = [db EXCEPT ![h].up = up]
    BY <1>4 DEF NodeDown, NodeUp
  <2>2. db'[h].keyspace = db[h].keyspace /\ db'[h].tables = db[h].tables
    BY <2>1 DEF IInv, TypeOK, Node
  <2>3. pc' = pc
    BY <1>4 DEF NodeDown, NodeUp
  <2> QED
    BY <2>2, <2>3 DEF ScratchOf
<1>5. ASSUME NEW s \in Servers, Crash(s) PROVE ScratchOf(h)'
  <2>1. ASSUME NEW u \in Threads PROVE pc'[u] \in {"idle", pc[u]}
    BY <1>5 DEF Crash
  <2>2. db' = db
    BY <1>5 DEF Crash
  <2> QED
    BY <2>1, <2>2 DEF ScratchOf, CreatingTest, DroppingTest
<1>6. CASE UNCHANGED vars
  BY <1>6 DEF vars, ScratchOf
<1> QED
  BY <1>1, <1>2, <1>3, <1>4, <1>5, <1>6 DEF Next

XInv == \A h \in Hosts : Hosts = {h} => ScratchOf(h)

LEMMA ScratchInvariance == Spec => [](IInv /\ XInv)
<1>1. Init => XInv
  BY SMT DEF Init, XInv, ScratchOf, FreshNode, CreatingTest, DroppingTest
<1>2. IInv /\ XInv /\ [Next]_vars => XInv'
  BY NextScratch DEF XInv
<1> QED
  BY <1>1, <1>2, Invariance, PTL DEF Spec

(***************************************************************************)
(* With one node and any number of servers and threads, whatever crashes   *)
(* or times out: createTable never finds the scratch table there, and      *)
(* deleteTable never finds it gone.                                        *)
(***************************************************************************)
THEOREM ScratchExclusive == Spec => []ScratchTableExclusive
<1>1. XInv => ScratchTableExclusive
  BY DEF XInv, ScratchOf, ScratchTableExclusive, CreatingTest, DroppingTest
<1> QED
  BY <1>1, ScratchInvariance, PTL

------------------------------------------------------------------------------
(* The scratch table is dropped. *)

LoginOK(h, login) == <<h, login>> \in Accounts

(* While nothing has failed: the only node is up, every login on its way   *)
(* from the configuration to a Cluster is one it lets in, no Cluster is    *)
(* closed, and the table is there only while a request is about to drop    *)
(* it.                                                                     *)
Unharmed(h) ==
  /\ db[h].up
  /\ \A s \in Servers : LoginOK(h, config[s].login)
  /\ \A t \in Threads : pc[t] \in BuildLabels => LoginOK(h, cred[t])
  /\ \A s \in Servers : cluster[s] # None => cluster[s].state # "closed" /\ LoginOK(h, cluster[s].login)
  /\ "test" \in db[h].tables => \E t \in Threads : pc[t] \in DroppingTest

(* Faults are not given back. *)
LEMMA FaultsLeft ==
  ASSUME IInv, faults' = faults \/ (faults > 0 /\ faults' = faults - 1), faults' = MaxFaults
  PROVE  faults = MaxFaults /\ faults' = faults
<1>1. MaxFaults \in Nat /\ faults \in 0 .. MaxFaults
  BY ServerAssumption DEF IInv, TypeOK
<1> QED
  BY <1>1, SMT

(* A thread that goes on outside the part that drops the table, with a     *)
(* login that works, while everything else stays.                          *)
LEMMA UnharmedKept ==
  ASSUME IInv, NEW h, Unharmed(h), NEW t \in Threads, NEW next, Goto(t, next),
         pc[t] \in DroppingTest => next \in DroppingTest,
         \A u \in Threads : u # t => cred'[u] = cred[u],
         next \in BuildLabels => LoginOK(h, cred'[t]),
         \A s \in Servers : LoginOK(h, config'[s].login),
         \A s \in Servers : cluster'[s] # None => cluster'[s].state # "closed" /\ LoginOK(h, cluster'[s].login),
         db' = db
  PROVE  Unharmed(h)'
<1>1. pc'[t] = next /\ \A u \in Threads : u # t => pc'[u] = pc[u]
  BY DEF IInv, TypeOK, Goto
<1>2. ASSUME NEW u \in Threads, pc'[u] \in BuildLabels PROVE LoginOK(h, cred'[u])
  BY <1>1, <1>2 DEF Unharmed
<1>3. ASSUME NEW u \in Threads, pc[u] \in DroppingTest PROVE pc'[u] \in DroppingTest
  BY <1>1, <1>3
<1> QED
  BY <1>2, <1>3 DEF Unharmed, LoginOK

LEMMA ReadingUnharmed ==
  ASSUME IInv, NEW h, Unharmed(h), NEW t \in Threads, Reading(t)
  PROVE  Unharmed(h)'
<1>1. PICK at \in {"ctor.ip", "cs.ip", "st.ip", "sr.ip", "qs.ip", "gr.ip"}, next \in PoolingLabels :
        ReadIp(t, at, next)
  BY DEF Reading, PoolingLabels
<1>2. next \notin BuildLabels /\ pc[t] \notin DroppingTest
  BY <1>1 DEF ReadIp, PoolingLabels, BuildLabels, DroppingTest
<1>3. Goto(t, next) /\ UNCHANGED <<config, cluster, cred, db>>
  BY <1>1 DEF ReadIp, server, env
<1> QED
  BY <1>2, <1>3, UnharmedKept DEF Unharmed

LEMMA PoolingUnharmed ==
  ASSUME IInv, NEW h, Unharmed(h), NEW t \in Threads, Pooling(t)
  PROVE  Unharmed(h)'
<1>1. PICK at \in PoolingLabels, build \in BuildLabels, ok \in {"cs.ip"} \cup ConnectLabels,
           fail \in {"reply", "gr.ip"} : SetupPooling(t, at, build, ok, fail)
  BY DEF Pooling, PoolingLabels, BuildLabels, ConnectLabels
<1>2. /\ at \notin DroppingTest /\ build \notin DroppingTest
      /\ ok \notin BuildLabels /\ fail \notin BuildLabels
  BY DEF PoolingLabels, BuildLabels, ConnectLabels, DroppingTest
<1>3. ServerOf[t] \in Servers
  BY ServerAssumption
<1>4. CASE /\ pc[t] = at
           /\ \/ cred' = [cred EXCEPT ![t] = config[ServerOf[t]].login] /\ Goto(t, build)
              \/ cred' = cred /\ Goto(t, fail)
           /\ UNCHANGED <<config, cluster, db>>
  <2>1. \A u \in Threads : u # t => cred'[u] = cred[u]
    BY <1>4 DEF IInv, TypeOK
  <2>2. CASE cred' = [cred EXCEPT ![t] = config[ServerOf[t]].login] /\ Goto(t, build)
    <3>1. cred'[t] = config[ServerOf[t]].login
      BY <2>2 DEF IInv, TypeOK
    <3> QED
      BY <1>2, <1>3, <1>4, <2>1, <2>2, <3>1, UnharmedKept DEF Unharmed
  <2>3. CASE cred' = cred /\ Goto(t, fail)
    BY <1>2, <1>4, <2>1, <2>3, UnharmedKept DEF Unharmed
  <2> QED
    BY <1>4, <2>2, <2>3
<1>5. CASE /\ pc[t] = build
           /\ cluster' = [cluster EXCEPT ![ServerOf[t]] =
                            [host |-> Resolve(addr[t]), port |-> NativePort,
                             login |-> cred[t], state |-> "new"]]
           /\ Goto(t, ok)
           /\ UNCHANGED <<config, cred, db>>
  <2>1. LoginOK(h, cred[t])
    BY <1>5 DEF Unharmed
  <2>2. ASSUME NEW s \in Servers, cluster'[s] # None
        PROVE  cluster'[s].state # "closed" /\ LoginOK(h, cluster'[s].login)
    <3>1. CASE s = ServerOf[t]
      BY <1>5, <2>1, <3>1 DEF IInv, TypeOK
    <3>2. CASE s # ServerOf[t]
      BY <1>5, <2>2, <3>2 DEF IInv, TypeOK, Unharmed
    <3> QED
      BY <3>1, <3>2
  <2> QED
    BY <1>2, <1>5, <2>2, UnharmedKept DEF Unharmed
<1> QED
  BY <1>1, <1>4, <1>5 DEF SetupPooling, server, locals, env

(* A connect reaches the node: it finds no closed Cluster and closes none. *)
LEMMA ConnectUnharmed ==
  ASSUME IInv, NEW h \in Hosts, Hosts = {h}, Unharmed(h), NEW t \in Threads,
         NEW at \in ConnectLabels, NEW keyspace \in BOOLEAN, NEW ok, NEW fail,
         Connect(t, at, keyspace, ok, fail),
         ok \notin BuildLabels, fail \notin BuildLabels,
         at \in DroppingTest => ok \in DroppingTest
  PROVE  Unharmed(h)'
<1> DEFINE c == cluster[ServerOf[t]]
<1>1. ServerOf[t] \in Servers /\ pc[t] = at
  BY ServerAssumption DEF Connect
<1>2. c \in Cluster /\ c # None
  BY <1>1, NoneIsNoCluster, SMT DEF IInv, TypeOK, LabelOK
<1>3. c.host = h /\ c.state # "closed" /\ db[c.host].up /\ <<c.host, c.login>> \in Accounts
  BY <1>1, <1>2 DEF Cluster, Unharmed, LoginOK
<1>4. /\ cluster' = [cluster EXCEPT ![ServerOf[t]].state = "open"]
      /\ (keyspace => db[h].keyspace) => Goto(t, ok)
      /\ Goto(t, ok) \/ Goto(t, fail)
      /\ UNCHANGED <<config, cred, db>>
  BY <1>3 DEF Connect, env
<1>5. ASSUME NEW s \in Servers, cluster'[s] # None
      PROVE  cluster'[s].state # "closed" /\ LoginOK(h, cluster'[s].login)
  <2>1. CASE s = ServerOf[t]
    <3>1. cluster'[s] = [c EXCEPT !.state = "open"]
      BY <1>1, <1>4, <2>1 DEF IInv, TypeOK
    <3>2. cluster'[s].state = "open" /\ cluster'[s].login = c.login
      BY <1>2, <3>1 DEF Cluster
    <3> QED
      BY <1>3, <3>2 DEF LoginOK
  <2>2. CASE s # ServerOf[t]
    BY <1>4, <1>5, <2>2 DEF IInv, TypeOK, Unharmed
  <2> QED
    BY <2>1, <2>2
<1>6. CASE at \in DroppingTest
  <2>1. made[t] # None /\ made[t] \in Hosts \cup {None}
    BY <1>1, <1>6 DEF IInv, TypeOK, LabelOK, TestLabels, DroppingTest
  <2>2. db[h].keyspace
    BY <2>1 DEF IInv, KeyspaceStays
  <2> QED
    BY <1>1, <1>4, <1>5, <1>6, <2>2, UnharmedKept DEF Unharmed
<1>7. CASE at \notin DroppingTest
  BY <1>1, <1>4, <1>5, <1>7, UnharmedKept DEF Unharmed
<1> QED
  BY <1>6, <1>7

LEMMA ConnectingUnharmed ==
  ASSUME IInv, NEW h \in Hosts, Hosts = {h}, Unharmed(h), NEW t \in Threads, Connecting(t)
  PROVE  Unharmed(h)'
<1> DEFINE Nexts == {"cs.exec", "ct.exec", "rt.connect", "rt.exec", "tt.connect", "tt.exec", "sr.exec",
                     "qs.exec", "gr.ip", "gr.rows", "reply"}
<1>1. /\ Nexts \cap BuildLabels = {}
      /\ \A at \in ConnectLabels : at \in DroppingTest <=> at = "dt.connect"
      /\ "dt.exec" \in DroppingTest
  BY DEF BuildLabels, ConnectLabels, DroppingTest
<1>2. ASSUME NEW at \in ConnectLabels, at # "dt.connect", NEW keyspace \in BOOLEAN,
             NEW ok \in Nexts, NEW fail \in Nexts, Connect(t, at, keyspace, ok, fail)
      PROVE  Unharmed(h)'
  BY <1>1, <1>2, ConnectUnharmed
<1>3. CASE Connect(t, "dt.connect", TRUE, "dt.exec", "reply")
  <2>1. "dt.connect" \in ConnectLabels /\ "reply" \notin BuildLabels /\ "dt.exec" \notin BuildLabels
    BY DEF ConnectLabels, BuildLabels
  <2> QED
    BY <1>1, <1>3, <2>1, ConnectUnharmed
<1> USE DEF ConnectLabels
<1>4. CASE Connect(t, "cs.connect", FALSE, "cs.exec", "reply")
  BY <1>2, <1>4
<1>5. CASE Connect(t, "ct.connect", TRUE, "ct.exec", "reply")
  BY <1>2, <1>5
<1>6. CASE Connect(t, "st.connect", TRUE, "rt.connect", "reply")
  BY <1>2, <1>6
<1>7. CASE Connect(t, "rt.connect", TRUE, "rt.exec", "tt.connect")
  BY <1>2, <1>7
<1>8. CASE Connect(t, "tt.connect", TRUE, "tt.exec", "reply")
  BY <1>2, <1>8
<1>9. CASE Connect(t, "ix.connect", TRUE, "reply", "reply")
  BY <1>2, <1>9
<1>10. CASE Connect(t, "sr.connect", TRUE, "sr.exec", "reply")
  BY <1>2, <1>10
<1>11. CASE Connect(t, "qs.connect", TRUE, "qs.exec", "gr.ip")
  BY <1>2, <1>11
<1>12. CASE Connect(t, "gr.connect", TRUE, "gr.rows", "reply")
  BY <1>2, <1>12
<1> QED
  BY <1>3, <1>4, <1>5, <1>6, <1>7, <1>8, <1>9, <1>10, <1>11, <1>12 DEF Connecting

(* The configuration gets logins of requests only. *)
LEMMA ConfiguringUnharmed ==
  ASSUME IInv, NEW h \in Hosts, LoginsWork(h), Unharmed(h), NEW t \in Threads, Configuring(t)
  PROVE  Unharmed(h)'
<1>1. ServerOf[t] \in Servers /\ config \in [Servers -> Config]
  BY ServerAssumption DEF IInv, TypeOK
<1>2. PICK next \in {"reply", "ta.port", "ta.login", "ta.pool", "la.port"} : Goto(t, next)
  BY DEF Configuring, SetupDatabase, SetupLogin, SetuplocalDatabase
<1>3. next \notin BuildLabels /\ pc[t] \notin DroppingTest
  BY DEF Configuring, SetupDatabase, SetupLogin, SetuplocalDatabase, BuildLabels, DroppingTest
<1>4. UNCHANGED <<cluster, cred, db>>
  BY DEF Configuring, SetupDatabase, SetupLogin, SetuplocalDatabase, env, locals
<1>5. ASSUME NEW s \in Servers PROVE LoginOK(h, config'[s].login)
  <2>1. CASE SetupLogin(t)
    <3>1. arg[t] \in Requests
      BY <2>1 DEF SetupLogin, IInv, TypeOK, LabelOK, ConfigLabels
    <3>2. LoginOK(h, arg[t].login)
      BY <3>1 DEF LoginsWork, LoginOK
    <3>3. config'[s].login \in {arg[t].login, config[s].login}
      BY <1>1, <2>1 DEF SetupLogin, Config
    <3> QED
      BY <3>2, <3>3 DEF Unharmed
  <2>2. CASE SetupDatabase(t) \/ SetuplocalDatabase(t)
    <3>1. \/ config' = config
          \/ \E ip : config' = [config EXCEPT ![ServerOf[t]].ip = ip]
          \/ \E port : config' = [config EXCEPT ![ServerOf[t]].port = port]
      BY <2>2 DEF SetupDatabase, SetuplocalDatabase, SetAddress
    <3>2. config'[s].login = config[s].login
      <4>1. CASE s = ServerOf[t]
        BY <1>1, <3>1, <4>1 DEF Config
      <4>2. CASE s # ServerOf[t]
        BY <1>1, <3>1, <4>2
      <4> QED
        BY <4>1, <4>2
    <3> QED
      BY <3>2 DEF Unharmed
  <2> QED
    BY <2>1, <2>2 DEF Configuring
<1> QED
  BY <1>2, <1>3, <1>4, <1>5, UnharmedKept DEF Unharmed

LEMMA AnsweringUnharmed ==
  ASSUME IInv, NEW h \in Hosts, Unharmed(h), NEW t \in Threads, Listing(t) \/ Return(t)
  PROVE  Unharmed(h)'
<1>1. PICK next \in {"reply", "idle"} : Goto(t, next)
  BY DEF Listing, Return
<1>2. next \notin BuildLabels /\ pc[t] \notin DroppingTest
  BY DEF Listing, Return, BuildLabels, DroppingTest
<1>3. UNCHANGED <<config, cluster, cred, db>>
  BY DEF Listing, Return, server, locals, env
<1> QED
  BY <1>1, <1>2, <1>3, UnharmedKept DEF Unharmed

(* A statement that is answered: it leads on when the node accepts it, and *)
(* it leaves the table there only while a request is about to drop it.     *)
LEMMA ExecuteUnharmed ==
  ASSUME IInv, NEW h \in Hosts, Hosts = {h}, Unharmed(h), NEW t \in Threads, NEW at \in ExecuteLabels,
         NEW stmt, NEW ok, NEW fail, Execute(t, at, stmt, ok, fail), faults' = faults,
         ok \notin BuildLabels, fail \notin BuildLabels,
         \/ at # "dt.exec" /\ (stmt.cql = "CREATE_TABLE" => stmt.table # "test" \/ ok \in DroppingTest)
         \/ stmt.cql = "DROP_TABLE" /\ stmt.table = "test" /\ Accepts(db[h], stmt)
  PROVE  Unharmed(h)'
<1>1. faults \in Nat
  BY ServerAssumption, SMT DEF IInv, TypeOK
<1>2. /\ sess[t] = h /\ db[h] \in Node /\ db \in [Hosts -> Node]
      /\ \/ ~Accepts(db[h], stmt) /\ db' = db
         \/ Accepts(db[h], stmt) /\ db' = [db EXCEPT ![h] = After(db[h], stmt)]
  BY ExecuteEffect
<1>3. /\ pc[t] = at /\ UNCHANGED <<config, cluster, cred>>
      /\ Accepts(db[h], stmt) => Goto(t, ok)
      /\ ~Accepts(db[h], stmt) => Goto(t, fail)
  BY <1>1, <1>2, SMT DEF Execute, server
<1>4. PICK next \in {ok, fail} : Goto(t, next)
  BY <1>3
<1>5. pc'[t] = next /\ \A u \in Threads : u # t => pc'[u] = pc[u]
  BY <1>4 DEF IInv, TypeOK, Goto
<1>6. \A u \in Threads : pc'[u] \in BuildLabels => LoginOK(h, cred'[u])
  BY <1>3, <1>5 DEF Unharmed
<1>7. db'[h].up /\ ("test" \in db'[h].tables => \E u \in Threads : pc'[u] \in DroppingTest)
  <2>1. CASE ~Accepts(db[h], stmt)
    <3>1. pc[t] # "dt.exec" /\ pc[t] \in ExecuteLabels
      BY <1>3, <2>1
    <3>2. pc[t] \notin DroppingTest
      BY <3>1 DEF DroppingTest, ExecuteLabels
    <3>3. db'[h] = db[h] /\ \A u \in Threads : pc[u] \in DroppingTest => pc'[u] \in DroppingTest
      BY <1>2, <1>5, <2>1, <3>2
    <3> QED
      BY <3>3 DEF Unharmed
  <2>2. CASE Accepts(db[h], stmt)
    <3>1. db'[h] = After(db[h], stmt)
      BY <1>2, <2>2
    <3>2. Kept(db[h], After(db[h], stmt), stmt)
      BY <1>2, KeptAfter
    <3>3. Kept(db[h], db'[h], stmt)
      BY <3>1, <3>2
    <3>4. db'[h].up
      BY <3>3 DEF Kept, Unharmed
    <3>5. CASE at = "dt.exec"
      BY <3>3, <3>4, <3>5 DEF Kept
    <3>6. CASE at # "dt.exec"
      <4>1. pc'[t] = ok
        BY <1>3, <2>2 DEF IInv, TypeOK, Goto
      <4>2. pc[t] \notin DroppingTest
        BY <1>3, <3>6 DEF DroppingTest, ExecuteLabels
      <4>3. "test" \in db'[h].tables => "test" \in db[h].tables \/ ok \in DroppingTest
        BY <3>3, <3>6 DEF Kept
      <4> QED
        BY <1>5, <3>4, <4>1, <4>2, <4>3 DEF Unharmed
    <3> QED
      BY <3>5, <3>6
  <2> QED
    BY <2>1, <2>2
<1> QED
  BY <1>3, <1>6, <1>7 DEF Unharmed, LoginOK

LEMMA ExecutingUnharmed ==
  ASSUME IInv, NEW h \in Hosts, Hosts = {h}, ScratchOf(h), Unharmed(h), faults' = faults,
         NEW t \in Threads, Executing(t)
  PROVE  Unharmed(h)'
<1> USE DEF Statement, ExecuteLabels, BuildLabels, DroppingTest
<1>1. CASE Execute(t, "cs.exec", CreateKeyspace, "ct.connect", "reply")
  BY <1>1, ExecuteUnharmed, SMT DEF CreateKeyspace
<1>2. CASE Execute(t, "ct.exec", CreateTableNamed("test"), "dt.connect", "reply")
  BY <1>2, ExecuteUnharmed
<1>3. CASE Execute(t, "dt.exec", DropTableNamed("test"), "reply", "reply")
  <2>1. pc[t] = "dt.exec"
    BY <1>3 DEF Execute
  <2>2. db[h].up /\ "test" \in db[h].tables /\ db[h].keyspace
    BY <2>1 DEF Unharmed, ScratchOf
  <2>3. DropTableNamed("test").cql = "DROP_TABLE" /\ DropTableNamed("test").table = "test"
    BY DEF DropTableNamed
  <2>4. Accepts(db[h], DropTableNamed("test"))
    BY <2>2, <2>3 DEF Accepts
  <2> QED
    BY <1>3, <2>3, <2>4, ExecuteUnharmed
<1>4. CASE Execute(t, "rt.exec", CreateTableNamed("restaurants"), "tt.connect", "tt.connect")
  BY <1>4, ExecuteUnharmed, SMT DEF CreateTableNamed
<1>5. CASE Execute(t, "tt.exec", CreateTableNamed("tables"), "ix.connect", "reply")
  BY <1>5, ExecuteUnharmed, SMT DEF CreateTableNamed
<1>6. CASE Execute(t, "sr.exec", InsertRestaurant(arg[t].id, arg[t].data), "reply", "reply")
  BY <1>6, ExecuteUnharmed, SMT DEF InsertRestaurant
<1>7. CASE Execute(t, "qs.exec", SelectRestaurants, "gr.ip", "gr.ip")
  BY <1>7, ExecuteUnharmed, SMT DEF SelectRestaurants
<1> QED
  BY <1>1, <1>2, <1>3, <1>4, <1>5, <1>6, <1>7 DEF Executing

LEMMA StepUnharmed ==
  ASSUME IInv, XInv, NEW h \in Hosts, Hosts = {h}, LoginsWork(h), Unharmed(h), faults' = faults,
         NEW t \in Threads, Step(t)
  PROVE  Unharmed(h)'
<1>1. ScratchOf(h)
  BY DEF XInv
<1> QED
  BY <1>1, StepForms, ReadingUnharmed, PoolingUnharmed, ConnectingUnharmed, ExecutingUnharmed,
     ConfiguringUnharmed, AnsweringUnharmed

(* A step takes at most one fault. *)
LEMMA StepFaults ==
  ASSUME NEW t \in Threads, Step(t)
  PROVE  faults' = faults \/ (faults > 0 /\ faults' = faults - 1)
<1>1. ASSUME NEW at, NEW stmt, NEW ok, NEW fail, Execute(t, at, stmt, ok, fail)
      PROVE  faults' = faults \/ (faults > 0 /\ faults' = faults - 1)
  BY <1>1 DEF Execute
<1>2. CASE Executing(t)
  BY <1>1, <1>2 DEF Executing
<1> QED
  BY <1>2, StepForms, QuietSteps

LEMMA EnterUnharmed ==
  ASSUME IInv, NEW h \in Hosts, Unharmed(h), NEW t \in Threads, Start(t) \/ Receive(t)
  PROVE  Unharmed(h)'
<1>1. PICK next \in EntryLabels : Goto(t, next)
  BY EnterLabel
<1>2. next \notin BuildLabels
  BY DEF EntryLabels, BuildLabels
<1>3. pc[t] = "idle" /\ UNCHANGED <<config, cluster, db>>
  BY EnterLabel
<1>4. pc[t] \notin DroppingTest
  BY <1>3 DEF DroppingTest
<1>5. \A u \in Threads : u # t => cred'[u] = cred[u]
  BY DEF Start, Receive, Enter, IInv, TypeOK
<1> QED
  BY <1>1, <1>2, <1>3, <1>4, <1>5, UnharmedKept DEF Unharmed

DInv == \A h \in Hosts : Hosts = {h} /\ LoginsWork(h) /\ faults = MaxFaults => Unharmed(h)

LEMMA NextDropped ==
  ASSUME IInv, XInv, DInv, [Next]_vars
  PROVE  DInv'
<1> SUFFICES ASSUME NEW h \in Hosts, Hosts = {h}, LoginsWork(h), faults' = MaxFaults
             PROVE  Unharmed(h)'
  BY DEF DInv, LoginsWork
<1>1. MaxFaults \in Nat /\ faults \in 0 .. MaxFaults
  BY ServerAssumption DEF IInv, TypeOK
<1>2. ASSUME faults' = faults PROVE Unharmed(h)
  BY <1>2 DEF DInv
<1>3. ASSUME NEW t \in Threads, Step(t) PROVE Unharmed(h)'
  <2>1. faults' = faults
    BY <1>3, StepFaults, FaultsLeft
  <2> QED
    BY <1>2, <1>3, <2>1, StepUnharmed
<1>4. ASSUME NEW t \in Threads, Start(t) \/ Receive(t) PROVE Unharmed(h)'
  <2>1. faults' = faults
    BY <1>4, EnterLabel
  <2> QED
    BY <1>2, <1>4, <2>1, EnterUnharmed
<1>5. ASSUME NEW g \in Hosts, NodeDown(g) \/ NodeUp(g) PROVE Unharmed(h)'
  <2>1. CASE NodeDown(g)
    BY <1>1, <2>1, SMT DEF NodeDown
  <2>2. CASE NodeUp(g)
    <3>1. faults' = faults /\ g = h /\ ~db[h].up
      BY <2>2 DEF NodeUp
    <3> QED
      BY <1>2, <3>1 DEF Unharmed
  <2> QED
    BY <1>5, <2>1, <2>2
<1>6. ASSUME NEW s \in Servers, Crash(s) PROVE Unharmed(h)'
  BY <1>1, <1>6, SMT DEF Crash
<1>7. CASE UNCHANGED vars
  BY <1>2, <1>7 DEF vars, Unharmed, LoginOK
<1> QED
  BY <1>3, <1>4, <1>5, <1>6, <1>7 DEF Next

(***************************************************************************)
(* With one node that lets every login in, and any number of servers and   *)
(* threads: as long as nothing crashes, goes down or times out, the        *)
(* scratch table is there only while a request is about to drop it.        *)
(***************************************************************************)
THEOREM ScratchDropped == Spec => []ScratchTableDropped
<1>1. Init => DInv
  <2> SUFFICES ASSUME Init, NEW h \in Hosts, LoginsWork(h) PROVE Unharmed(h)
    BY DEF DInv
  <2>1. db[h].up /\ "test" \notin db[h].tables
    BY DEF Init, FreshNode
  <2>2. \A s \in Servers : LoginOK(h, config[s].login)
    BY DEF Init, LoginsWork, LoginOK
  <2>3. /\ \A t \in Threads : pc[t] \notin BuildLabels
        /\ \A s \in Servers : cluster[s] = None
    BY DEF Init, BuildLabels
  <2> QED
    BY <2>1, <2>2, <2>3 DEF Unharmed
<1>2. IInv /\ XInv /\ DInv /\ [Next]_vars => DInv'
  BY NextDropped
<1>3. DInv => ScratchTableDropped
  BY DEF DInv, Unharmed, ScratchTableDropped, DroppingTest
<1> QED
  BY <1>1, <1>2, <1>3, ScratchInvariance, PTL DEF Spec

------------------------------------------------------------------------------
(* Requests that come one at a time. *)

(* No two request threads share a server. *)
OneThreadEach == \A t, u \in Threads : ServerOf[t] = ServerOf[u] => t = u

(* The labels at which addr holds the configured address; testarguments    *)
(* pools for the request's first.                                          *)
AddrLabels == (PoolingLabels \cup BuildLabels) \ {"ta.pool", "ta.build"}

(* The address goes from the configuration to the builder, the Cluster and *)
(* the Session, and each of them holds one that the request has seen.      *)
NodeSeen(t) ==
  /\ pc[t] # "idle" => Resolve(config[ServerOf[t]].ip) \in seen[t]
  /\ pc[t] \in AddrLabels => Resolve(addr[t]) \in seen[t]
  /\ pc[t] \in ConnectLabels \cup ExecuteLabels => cluster[ServerOf[t]].host \in seen[t]
  /\ pc[t] \in ExecuteLabels => sess[t] \in seen[t]

(* The state that concerns thread u: its locals, and its server's. *)
OwnKept(u) ==
  /\ pc'[u] = pc[u] /\ op'[u] = op[u] /\ addr'[u] = addr[u] /\ sess'[u] = sess[u]
  /\ rs'[u] = rs[u] /\ seen'[u] = seen[u] /\ reply'[u] = reply[u]
  /\ config'[ServerOf[u]] = config[ServerOf[u]]
  /\ cluster'[ServerOf[u]] = cluster[ServerOf[u]]

(* A step of one thread leaves the state that concerns the others alone. *)
LEMMA OthersKept ==
  ASSUME IInv, OneThreadEach, NEW t \in Threads, Step(t) \/ Start(t) \/ Receive(t),
         NEW u \in Threads, u # t
  PROVE  OwnKept(u)
<1> USE DEF OwnKept, Goto, server, request, env, locals
<1>0. /\ ServerOf[t] \in Servers /\ ServerOf[u] \in Servers /\ ServerOf[t] # ServerOf[u]
      /\ config \in [Servers -> Config] /\ DOMAIN cluster = Servers
      /\ DOMAIN pc = Threads /\ DOMAIN op = Threads /\ DOMAIN addr = Threads /\ DOMAIN sess = Threads
      /\ DOMAIN rs = Threads /\ DOMAIN seen = Threads /\ DOMAIN reply = Threads
  BY ServerAssumption DEF IInv, TypeOK, OneThreadEach
<1>1. CASE Reading(t)
  <2>1. ASSUME NEW at, NEW next, ReadIp(t, at, next) PROVE OwnKept(u)
    BY <1>0, <2>1 DEF ReadIp
  <2> QED
    BY <1>1, <2>1 DEF Reading
<1>2. CASE Pooling(t)
  <2>1. ASSUME NEW at, NEW build, NEW ok, NEW fail, SetupPooling(t, at, build, ok, fail) PROVE OwnKept(u)
    BY <1>0, <2>1 DEF SetupPooling
  <2> QED
    BY <1>2, <2>1 DEF Pooling
<1>3. CASE Connecting(t)
  <2>1. ASSUME NEW at, NEW keyspace \in BOOLEAN, NEW ok, NEW fail, Connect(t, at, keyspace, ok, fail)
        PROVE  OwnKept(u)
    BY <1>0, <2>1 DEF Connect
  <2> QED
    BY <1>3, <2>1, Zenon DEF Connecting
<1>4. CASE Executing(t)
  <2>1. ASSUME NEW at, NEW stmt, NEW ok, NEW fail, Execute(t, at, stmt, ok, fail) PROVE OwnKept(u)
    BY <1>0, <2>1 DEF Execute, KeepAnswer
  <2> QED
    BY <1>4, <2>1 DEF Executing
<1>5. CASE Configuring(t)
  BY <1>0, <1>5 DEF Configuring, SetupDatabase, SetupLogin, SetuplocalDatabase, SetAddress
<1>6. CASE Listing(t)
  BY <1>0, <1>6 DEF Listing
<1>7. CASE Return(t)
  BY <1>0, <1>7 DEF Return
<1>8. CASE Start(t) \/ Receive(t)
  <2>1. ASSUME NEW handler, NEW body, NEW label, Enter(t, handler, body, label) PROVE OwnKept(u)
    BY <1>0, <2>1 DEF Enter
  <2> QED
    BY <1>8, <2>1 DEF Start, Receive
<1> QED
  BY <1>1, <1>2, <1>3, <1>4, <1>5, <1>6, <1>7, <1>8, StepForms

LEMMA OthersSeen ==
  ASSUME NEW u \in Threads, NodeSeen(u), OwnKept(u)
  PROVE  NodeSeen(u)'
BY DEF NodeSeen, OwnKept

LEMMA ReadingSeen ==
  ASSUME IInv, NEW t \in Threads, NodeSeen(t), Reading(t)
  PROVE  NodeSeen(t)'
<1>1. PICK at \in Labels \ {"idle"}, next \in AddrLabels \cap PoolingLabels : ReadIp(t, at, next)
  BY DEF Reading, AddrLabels, PoolingLabels, BuildLabels, Labels
<1>2. pc[t] # "idle" /\ pc'[t] = next
  BY <1>1 DEF ReadIp, Goto, IInv, TypeOK
<1>3. addr'[t] = config[ServerOf[t]].ip /\ UNCHANGED <<config, seen>>
  BY <1>1 DEF ReadIp, server, IInv, TypeOK
<1>4. next \notin ConnectLabels \cup ExecuteLabels
  BY DEF PoolingLabels, ConnectLabels, ExecuteLabels
<1> QED
  BY <1>2, <1>3, <1>4 DEF NodeSeen

LEMMA PoolingSeen ==
  ASSUME IInv, NEW t \in Threads, NodeSeen(t), Pooling(t)
  PROVE  NodeSeen(t)'
<1>1. PICK at \in PoolingLabels, build \in BuildLabels, ok \in {"cs.ip"} \cup ConnectLabels,
           fail \in {"reply", "gr.ip"} :
        /\ SetupPooling(t, at, build, ok, fail)
        /\ \/ at = "ta.pool" /\ build = "ta.build" /\ ok = "cs.ip"
           \/ at \in AddrLabels /\ build \in AddrLabels
  BY DEF Pooling, PoolingLabels, BuildLabels, ConnectLabels, AddrLabels
<1>2. /\ at # "idle" /\ build # "idle" /\ build \notin ConnectLabels \cup ExecuteLabels
      /\ ok \notin AddrLabels \cup ExecuteLabels
      /\ fail \notin AddrLabels \cup ConnectLabels \cup ExecuteLabels
      /\ "ta.build" \notin AddrLabels /\ "cs.ip" \notin ConnectLabels
  BY SMT DEF PoolingLabels, BuildLabels, ConnectLabels, ExecuteLabels, AddrLabels
<1>3. ServerOf[t] \in Servers
  BY ServerAssumption
<1>4. CASE pc[t] = at /\ (Goto(t, build) \/ Goto(t, fail)) /\ UNCHANGED <<config, addr, seen>>
  <2>1. pc'[t] \in {build, fail}
    BY <1>4 DEF Goto, IInv, TypeOK
  <2> QED
    BY <1>1, <1>2, <1>4, <2>1 DEF NodeSeen
<1>5. CASE /\ pc[t] = build
           /\ cluster' = [cluster EXCEPT ![ServerOf[t]] =
                            [host |-> Resolve(addr[t]), port |-> NativePort,
                             login |-> cred[t], state |-> "new"]]
           /\ Goto(t, ok)
           /\ UNCHANGED <<config, addr, seen>>
  <2>1. pc'[t] = ok
    BY <1>5 DEF Goto, IInv, TypeOK
  <2>2. cluster'[ServerOf[t]].host = Resolve(addr[t])
    BY <1>3, <1>5 DEF IInv, TypeOK
  <2> QED
    BY <1>1, <1>2, <1>5, <2>1, <2>2 DEF NodeSeen
<1> QED
  BY <1>1, <1>4, <1>5 DEF SetupPooling, server, locals

LEMMA ConnectSeen ==
  ASSUME IInv, NEW t \in Threads, NodeSeen(t), NEW at \in ConnectLabels, NEW keyspace \in BOOLEAN,
         NEW ok \in ConnectLabels \cup ExecuteLabels \cup {"gr.rows", "reply"},
         NEW fail \in {"reply", "tt.connect", "gr.ip"}, Connect(t, at, keyspace, ok, fail)
  PROVE  NodeSeen(t)'
<1> DEFINE c == cluster[ServerOf[t]]
<1>1. ServerOf[t] \in Servers /\ pc[t] = at
  BY ServerAssumption DEF Connect
<1>2. c \in Cluster
  BY <1>1, NoneIsNoCluster, SMT DEF IInv, TypeOK, LabelOK
<1>3. UNCHANGED <<config, seen>> /\ pc'[t] \in {ok, fail} /\ (pc'[t] = fail \/ sess'[t] = c.host)
  BY DEF Connect, Goto, IInv, TypeOK
<1>4. cluster'[ServerOf[t]].host = c.host
  <2>1. PICK state : cluster' = [cluster EXCEPT ![ServerOf[t]].state = state]
    BY DEF Connect
  <2> QED
    BY <1>1, <1>2, <2>1 DEF IInv, TypeOK, Cluster
<1>5. c.host \in seen[t] /\ Resolve(config[ServerOf[t]].ip) \in seen[t]
  BY <1>1 DEF NodeSeen, ConnectLabels
<1>6. /\ fail \notin AddrLabels \cup ExecuteLabels /\ ok \notin AddrLabels
  BY DEF AddrLabels, PoolingLabels, BuildLabels, ConnectLabels, ExecuteLabels
<1> HIDE DEF c
<1> QED
  BY <1>3, <1>4, <1>5, <1>6 DEF NodeSeen

LEMMA ConnectingSeen ==
  ASSUME IInv, NEW t \in Threads, NodeSeen(t), Connecting(t)
  PROVE  NodeSeen(t)'
<1> USE ConnectSeen DEF ConnectLabels, ExecuteLabels
<1>1. CASE Connect(t, "cs.connect", FALSE, "cs.exec", "reply")
  BY <1>1
<1>2. CASE Connect(t, "ct.connect", TRUE, "ct.exec", "reply")
  BY <1>2
<1>3. CASE Connect(t, "dt.connect", TRUE, "dt.exec", "reply")
  BY <1>3
<1>4. CASE Connect(t, "st.connect", TRUE, "rt.connect", "reply")
  BY <1>4
<1>5. CASE Connect(t, "rt.connect", TRUE, "rt.exec", "tt.connect")
  BY <1>5
<1>6. CASE Connect(t, "tt.connect", TRUE, "tt.exec", "reply")
  BY <1>6
<1>7. CASE Connect(t, "ix.connect", TRUE, "reply", "reply")
  BY <1>7
<1>8. CASE Connect(t, "sr.connect", TRUE, "sr.exec", "reply")
  BY <1>8
<1>9. CASE Connect(t, "qs.connect", TRUE, "qs.exec", "gr.ip")
  BY <1>9
<1>10. CASE Connect(t, "gr.connect", TRUE, "gr.rows", "reply")
  BY <1>10
<1> QED
  BY <1>1, <1>2, <1>3, <1>4, <1>5, <1>6, <1>7, <1>8, <1>9, <1>10, Zenon DEF Connecting

LEMMA ExecutingSeen ==
  ASSUME IInv, NEW t \in Threads, NodeSeen(t), Executing(t)
  PROVE  NodeSeen(t)'
<1> SUFFICES ASSUME NEW at \in ExecuteLabels, NEW stmt, NEW ok \in ConnectLabels \cup {"reply", "gr.ip"},
                    NEW fail \in {"reply", "tt.connect", "gr.ip"}, Execute(t, at, stmt, ok, fail)
             PROVE  NodeSeen(t)'
  BY DEF Executing, ExecuteLabels, ConnectLabels
<1>1. pc[t] = at /\ pc'[t] \in {ok, fail} /\ UNCHANGED <<config, cluster, seen>>
  BY DEF Execute, Goto, server, IInv, TypeOK
<1>2. at # "idle" /\ {ok, fail} \cap (AddrLabels \cup ExecuteLabels) = {}
  BY DEF AddrLabels, PoolingLabels, BuildLabels, ConnectLabels, ExecuteLabels
<1> QED
  BY <1>1, <1>2 DEF NodeSeen

LEMMA ConfiguringSeen ==
  ASSUME IInv, NEW t \in Threads, NodeSeen(t), Configuring(t)
  PROVE  NodeSeen(t)'
<1>1. ServerOf[t] \in Servers /\ config \in [Servers -> Config]
  BY ServerAssumption DEF IInv, TypeOK
<1>2. /\ pc[t] # "idle"
      /\ pc'[t] \in {"reply", "ta.port", "ta.login", "ta.pool", "la.port"}
  BY DEF Configuring, SetupDatabase, SetupLogin, SetuplocalDatabase, Goto, IInv, TypeOK
<1>3. \/ config'[ServerOf[t]].ip = config[ServerOf[t]].ip /\ seen' = seen
      \/ \E ip : config'[ServerOf[t]].ip = ip /\ seen'[t] = seen[t] \cup {Resolve(ip)}
  <2>1. CASE \E ip : SetAddress(t, ip)
    BY <1>1, <1>2, <2>1, SMT DEF SetAddress, Config
  <2>2. CASE /\ seen' = seen
             /\ \/ config' = config
                \/ \E port : config' = [config EXCEPT ![ServerOf[t]].port = port]
                \/ \E login : config' = [config EXCEPT ![ServerOf[t]].login = login]
    BY <1>1, <2>2 DEF Config
  <2> QED
    BY <2>1, <2>2 DEF Configuring, SetupDatabase, SetupLogin, SetuplocalDatabase, locals
<1>4. {"reply", "ta.port", "ta.login", "ta.pool", "la.port"}
        \cap (AddrLabels \cup ConnectLabels \cup ExecuteLabels) = {}
  BY DEF AddrLabels, PoolingLabels, BuildLabels, ConnectLabels, ExecuteLabels
<1>5. Resolve(config[ServerOf[t]].ip) \in seen[t]
  BY <1>2 DEF NodeSeen
<1>6. Resolve(config'[ServerOf[t]].ip) \in seen'[t]
  BY <1>3, <1>5
<1> QED
  BY <1>2, <1>4, <1>6 DEF NodeSeen, Resolve

LEMMA AnsweringSeen ==
  ASSUME IInv, NEW t \in Threads, NodeSeen(t), Listing(t) \/ Return(t)
  PROVE  NodeSeen(t)'
<1>1. pc[t] # "idle" /\ pc'[t] \in {"reply", "idle"} /\ UNCHANGED <<config, seen>>
  BY DEF Listing, Return, Goto, server, locals, IInv, TypeOK
<1>2. {"reply", "idle"} \cap (AddrLabels \cup ConnectLabels \cup ExecuteLabels) = {}
  BY DEF AddrLabels, PoolingLabels, BuildLabels, ConnectLabels, ExecuteLabels
<1> QED
  BY <1>1, <1>2 DEF NodeSeen

LEMMA EnterSeen ==
  ASSUME IInv, NEW t \in Threads, Start(t) \/ Receive(t)
  PROVE  NodeSeen(t)'
<1>1. PICK next \in EntryLabels : Goto(t, next)
  BY EnterLabel
<1>2. pc'[t] = next
  BY <1>1 DEF Goto, IInv, TypeOK
<1>3. config' = config /\ seen'[t] = {Resolve(config[ServerOf[t]].ip)}
  <2>1. DOMAIN seen = Threads
    BY DEF IInv, TypeOK
  <2>2. ASSUME NEW handler, NEW body, NEW label, Enter(t, handler, body, label)
        PROVE  config' = config /\ seen'[t] = {Resolve(config[ServerOf[t]].ip)}
    BY <2>1, <2>2 DEF Enter
  <2> QED
    BY <2>2 DEF Start, Receive
<1>4. next \notin AddrLabels \cup ConnectLabels \cup ExecuteLabels
  BY DEF EntryLabels, AddrLabels, PoolingLabels, BuildLabels, ConnectLabels, ExecuteLabels
<1> QED
  BY <1>2, <1>3, <1>4 DEF NodeSeen

LEMMA NextSeen ==
  ASSUME IInv, OneThreadEach, \A t \in Threads : NodeSeen(t), [Next]_vars
  PROVE  \A t \in Threads : NodeSeen(t)'
<1> SUFFICES ASSUME NEW u \in Threads PROVE NodeSeen(u)'
  OBVIOUS
<1>1. ASSUME NEW t \in Threads, Step(t) PROVE NodeSeen(u)'
  <2>1. CASE u = t
    BY <1>1, <2>1, StepForms, ReadingSeen, PoolingSeen, ConnectingSeen, ExecutingSeen, ConfiguringSeen,
       AnsweringSeen
  <2> QED
    BY <1>1, <2>1, OthersKept, OthersSeen
<1>2. ASSUME NEW t \in Threads, Start(t) \/ Receive(t) PROVE NodeSeen(u)'
  BY <1>2, EnterSeen, OthersKept, OthersSeen
<1>3. ASSUME NEW h \in Hosts, NodeDown(h) \/ NodeUp(h) PROVE NodeSeen(u)'
  BY <1>3 DEF NodeDown, NodeUp, NodeSeen, server, locals, Resolve
<1>4. ASSUME NEW s \in Servers, Crash(s) PROVE NodeSeen(u)'
  <2>1. CASE ServerOf[u] = s
    <3>1. pc'[u] = "idle"
      BY <1>4, <2>1 DEF Crash
    <3> QED
      BY <3>1 DEF NodeSeen, AddrLabels, PoolingLabels, BuildLabels, ConnectLabels, ExecuteLabels
  <2>2. CASE ServerOf[u] # s
    <3>1. ServerOf[u] \in Servers
      BY ServerAssumption
    <3>2. OwnKept(u)
      BY <1>4, <2>2, <3>1 DEF Crash, OwnKept, IInv, TypeOK
    <3> QED
      BY <3>2, OthersSeen
  <2> QED
    BY <2>1, <2>2
<1>5. CASE UNCHANGED vars
  BY <1>5 DEF vars, NodeSeen
<1> QED
  BY <1>1, <1>2, <1>3, <1>4, <1>5 DEF Next

(***************************************************************************)
(* When no two requests run in a server at a time, in any deployment and   *)
(* whatever fails: a Session executes on a node whose address was          *)
(* configured at some moment of the request.                               *)
(***************************************************************************)
THEOREM NodeUsedIsConfigured ==
  ASSUME OneThreadEach
  PROVE  Spec => []ConfiguredNodeUsed
<1> DEFINE SInv == \A t \in Threads : NodeSeen(t)
<1>1. Init => SInv
  BY SMT DEF Init, NodeSeen, AddrLabels, PoolingLabels, BuildLabels, ConnectLabels, ExecuteLabels
<1>2. IInv /\ SInv /\ [Next]_vars => SInv'
  BY NextSeen
<1>3. SInv => ConfiguredNodeUsed
  BY DEF NodeSeen, ConfiguredNodeUsed
<1> HIDE DEF SInv
<1> QED
  BY <1>1, <1>2, <1>3, Invariance, PTL DEF Spec

------------------------------------------------------------------------------
(* The list of restaurants, when requests come one at a time. *)

OneThread == \A t, u \in Threads : t = u

ListLabels == {"qs.ip", "qs.pool", "qs.build", "qs.connect", "qs.exec", "gr.ip", "gr.pool", "gr.build",
               "gr.connect", "gr.rows", "reply", "idle"}

ConfiguredNode(t) == Resolve(config[ServerOf[t]].ip)

(* The table of the configured node, if the address is one of a node. *)
TableOf(t) == {db[h].rows : h \in Hosts \cap {ConfiguredNode(t)}}

(* While the list is fetched, the address, the Cluster and the Session of  *)
(* querySchema are the configured node's; afterwards the results and the   *)
(* list are its table.                                                     *)
Listed(t) ==
  op[t] = "getRestaurants" =>
    /\ pc[t] \in ListLabels
    /\ pc[t] \in {"qs.pool", "qs.build"} => Resolve(addr[t]) = ConfiguredNode(t)
    /\ pc[t] \in {"qs.connect", "qs.exec"} => cluster[ServerOf[t]].host = ConfiguredNode(t)
    /\ pc[t] = "qs.exec" => sess[t] = ConfiguredNode(t)
    /\ rs[t] \in {None} \cup TableOf(t)
    /\ reply[t].rows \in {NoRows} \cup TableOf(t)

(* A step that leaves the configuration, the tables and what was read. *)
LEMMA ListedKept ==
  ASSUME NEW t \in Threads, Listed(t), op'[t] = op[t], config'[ServerOf[t]] = config[ServerOf[t]],
         rs'[t] = rs[t], reply'[t] = reply[t], \A h \in Hosts : db'[h].rows = db[h].rows,
         op[t] = "getRestaurants" => pc'[t] \in ListLabels,
         pc'[t] \in {"qs.pool", "qs.build"} => Resolve(addr'[t]) = ConfiguredNode(t),
         pc'[t] \in {"qs.connect", "qs.exec"} => cluster'[ServerOf[t]].host = ConfiguredNode(t),
         pc'[t] = "qs.exec" => sess'[t] = ConfiguredNode(t)
  PROVE  Listed(t)'
<1>1. ConfiguredNode(t)' = ConfiguredNode(t)
  BY DEF ConfiguredNode, Resolve
<1>2. TableOf(t)' = TableOf(t)
  BY <1>1 DEF TableOf
<1> QED
  BY <1>1, <1>2 DEF Listed

LEMMA ReadingListed ==
  ASSUME IInv, NEW t \in Threads, Listed(t), op[t] = "getRestaurants", Reading(t)
  PROVE  Listed(t)'
<1>1. PICK at \in {"qs.ip", "gr.ip"}, next \in {"qs.pool", "gr.pool"} : ReadIp(t, at, next)
  BY DEF Reading, ReadIp, Listed, ListLabels
<1>2. /\ UNCHANGED <<op, config, rs, reply, db>>
      /\ pc'[t] = next /\ addr'[t] = config[ServerOf[t]].ip
  BY <1>1 DEF ReadIp, Goto, server, request, env, IInv, TypeOK
<1> QED
  BY <1>2, ListedKept DEF ListLabels, ConfiguredNode

LEMMA PoolingListed ==
  ASSUME IInv, NEW t \in Threads, Listed(t), op[t] = "getRestaurants", Pooling(t)
  PROVE  Listed(t)'
<1>0. ServerOf[t] \in Servers
  BY ServerAssumption
<1>1. \/ SetupPooling(t, "qs.pool", "qs.build", "qs.connect", "gr.ip")
      \/ SetupPooling(t, "gr.pool", "gr.build", "gr.connect", "reply")
  BY DEF Pooling, SetupPooling, Listed, ListLabels
<1>2. UNCHANGED <<op, config, rs, reply, db, addr>>
  BY <1>1 DEF SetupPooling, server, request, locals, env
<1>3. CASE pc'[t] \in {"gr.build", "gr.connect", "gr.ip", "reply"}
  BY <1>2, <1>3, ListedKept DEF ListLabels
<1>4. CASE pc[t] = "qs.pool" /\ pc'[t] = "qs.build"
  BY <1>2, <1>4, ListedKept DEF Listed, ListLabels
<1>5. CASE /\ pc[t] = "qs.build" /\ pc'[t] = "qs.connect"
           /\ cluster'[ServerOf[t]].host = Resolve(addr[t])
  BY <1>2, <1>5, ListedKept DEF Listed, ListLabels
<1>6. ASSUME NEW at, NEW build, NEW ok, NEW fail, SetupPooling(t, at, build, ok, fail)
      PROVE  \/ pc[t] = at /\ pc'[t] \in {build, fail}
             \/ pc[t] = build /\ pc'[t] = ok /\ cluster'[ServerOf[t]].host = Resolve(addr[t])
  BY <1>0, <1>6, SMT DEF SetupPooling, Goto, IInv, TypeOK
<1>7. CASE SetupPooling(t, "qs.pool", "qs.build", "qs.connect", "gr.ip")
  BY <1>3, <1>4, <1>5, <1>6, <1>7
<1>8. CASE SetupPooling(t, "gr.pool", "gr.build", "gr.connect", "reply")
  BY <1>3, <1>6, <1>8
<1> QED
  BY <1>1, <1>7, <1>8

LEMMA ConnectingListed ==
  ASSUME IInv, NEW t \in Threads, Listed(t), op[t] = "getRestaurants", Connecting(t)
  PROVE  Listed(t)'
<1> DEFINE c == cluster[ServerOf[t]]
<1>1. ASSUME NEW at, NEW keyspace \in BOOLEAN, NEW ok, NEW fail, Connect(t, at, keyspace, ok, fail)
      PROVE  /\ pc[t] = at /\ pc'[t] \in {ok, fail} /\ (pc'[t] = fail \/ sess'[t] = c.host)
             /\ UNCHANGED <<op, config, rs, reply, db>>
  BY <1>1 DEF Connect, Goto, request, env, IInv, TypeOK
<1>2. \/ Connect(t, "qs.connect", TRUE, "qs.exec", "gr.ip")
      \/ Connect(t, "gr.connect", TRUE, "gr.rows", "reply")
  <2>1. ASSUME NEW at, at \notin ListLabels, NEW keyspace \in BOOLEAN, NEW ok, NEW fail,
               Connect(t, at, keyspace, ok, fail)
        PROVE  FALSE
    BY <1>1, <2>1 DEF Listed
  <2>2. {"cs.connect", "ct.connect", "dt.connect", "st.connect", "rt.connect", "tt.connect", "ix.connect",
         "sr.connect"} \cap ListLabels = {}
    BY DEF ListLabels
  <2>3. ~(\/ Connect(t, "cs.connect", FALSE, "cs.exec", "reply")
          \/ Connect(t, "ct.connect", TRUE, "ct.exec", "reply")
          \/ Connect(t, "dt.connect", TRUE, "dt.exec", "reply")
          \/ Connect(t, "st.connect", TRUE, "rt.connect", "reply")
          \/ Connect(t, "rt.connect", TRUE, "rt.exec", "tt.connect")
          \/ Connect(t, "tt.connect", TRUE, "tt.exec", "reply")
          \/ Connect(t, "ix.connect", TRUE, "reply", "reply")
          \/ Connect(t, "sr.connect", TRUE, "sr.exec", "reply"))
    BY <2>1, <2>2
  <2> QED
    BY <2>3, Zenon DEF Connecting
<1>3. CASE Connect(t, "gr.connect", TRUE, "gr.rows", "reply")
  <2>1. pc'[t] \in {"gr.rows", "reply"} /\ UNCHANGED <<op, config, rs, reply, db>>
    BY <1>1, <1>3
  <2> QED
    BY <2>1, ListedKept DEF ListLabels
<1>4. CASE Connect(t, "qs.connect", TRUE, "qs.exec", "gr.ip")
  <2>1. /\ pc[t] = "qs.connect" /\ pc'[t] \in {"qs.exec", "gr.ip"}
        /\ pc'[t] = "gr.ip" \/ sess'[t] = c.host
        /\ UNCHANGED <<op, config, rs, reply, db>>
    BY <1>1, <1>4
  <2>2. ServerOf[t] \in Servers
    BY ServerAssumption
  <2>3. c \in Cluster
    BY <2>1, <2>2, NoneIsNoCluster DEF IInv, TypeOK, LabelOK, ConnectLabels
  <2>4. cluster'[ServerOf[t]].host = c.host
    <3>1. PICK state : cluster' = [cluster EXCEPT ![ServerOf[t]].state = state]
      BY <1>4 DEF Connect
    <3> QED
      BY <2>2, <2>3, <3>1 DEF IInv, TypeOK, Cluster
  <2>5. c.host = ConfiguredNode(t)
    BY <2>1 DEF Listed
  <2> HIDE DEF c
  <2> QED
    BY <2>1, <2>4, <2>5, ListedKept DEF ListLabels
<1> QED
  BY <1>2, <1>3, <1>4

(* The only statement of the request is querySchema's, which changes no    *)
(* table.                                                                  *)
LEMMA ExecutingListed ==
  ASSUME IInv, NEW t \in Threads, Listed(t), op[t] = "getRestaurants", Executing(t)
  PROVE  Listed(t)'
<1>1. Execute(t, "qs.exec", SelectRestaurants, "gr.ip", "gr.ip")
  BY DEF Executing, Execute, Listed, ListLabels
<1>2. /\ pc[t] = "qs.exec" /\ pc'[t] = "gr.ip" /\ UNCHANGED <<op, config, reply>>
      /\ rs'[t] = rs[t] \/ rs'[t] = db[sess[t]].rows
  BY <1>1 DEF Execute, KeepAnswer, SelectRestaurants, Statement, Goto, server, request, IInv, TypeOK
<1>3. sess[t] = ConfiguredNode(t) /\ sess[t] \in Hosts
  BY <1>2 DEF Listed, IInv, LabelOK, ExecuteLabels
<1>4. ASSUME NEW h \in Hosts PROVE db'[h].rows = db[h].rows
  <2>1. SelectRestaurants.cql # "INSERT"
    BY DEF SelectRestaurants, Statement
  <2>2. db[sess[t]] \in Node /\ db \in [Hosts -> Node]
    BY <1>3 DEF IInv, TypeOK
  <2>3. After(db[sess[t]], SelectRestaurants).rows = db[sess[t]].rows
    BY <2>1, <2>2, AfterKeeps, Zenon
  <2>4. db' = db \/ db' = [db EXCEPT ![sess[t]] = After(db[sess[t]], SelectRestaurants)]
    BY <1>1 DEF Execute
  <2> QED
    BY <1>3, <2>2, <2>3, <2>4
<1>5. TableOf(t)' = TableOf(t)
  BY <1>2, <1>4 DEF TableOf, ConfiguredNode, Resolve
<1>6. rs'[t] \in {None} \cup TableOf(t)
  BY <1>2, <1>3 DEF Listed, TableOf
<1> QED
  BY <1>2, <1>5, <1>6 DEF Listed, ListLabels

LEMMA AnsweringListed ==
  ASSUME IInv, NEW t \in Threads, Listed(t), op[t] = "getRestaurants", Listing(t) \/ Return(t)
  PROVE  Listed(t)'
<1>1. pc'[t] \in {"reply", "idle"} /\ UNCHANGED <<op, config, rs, db>>
  BY DEF Listing, Return, Goto, server, request, locals, env, IInv, TypeOK
<1>2. TableOf(t)' = TableOf(t)
  BY <1>1 DEF TableOf, ConfiguredNode, Resolve
<1>3. reply'[t].rows \in {NoRows} \cup TableOf(t)
  <2>1. CASE Listing(t)
    <3>1. reply'[t].rows = IF rs[t] = None THEN NoRows ELSE rs[t]
      BY <2>1 DEF Listing, IInv, TypeOK, Reply
    <3> QED
      BY <3>1 DEF Listed
  <2>2. CASE Return(t)
    <3>1. reply'[t] = reply[t]
      BY <2>2 DEF Return, IInv, TypeOK
    <3> QED
      BY <3>1 DEF Listed
  <2> QED
    BY <2>1, <2>2
<1> QED
  BY <1>1, <1>2, <1>3 DEF Listed, ListLabels

LEMMA EnterListed ==
  ASSUME IInv, NEW t \in Threads, Start(t) \/ Receive(t)
  PROVE  Listed(t)'
<1>1. CASE Start(t)
  BY <1>1 DEF Start, Enter, Listed, IInv, TypeOK
<1>2. CASE Receive(t)
  <2>1. PICK handler \in Handlers : \E b \in Bodies(handler) : Enter(t, handler, b, FirstStep(handler))
    BY <1>2 DEF Receive
  <2>2. op'[t] = handler /\ pc'[t] = FirstStep(handler) /\ rs'[t] = None /\ reply'[t] = NoReply
    BY <2>1, SMT DEF Enter, Goto, IInv, TypeOK
  <2>3. handler = "getRestaurants" => FirstStep(handler) = "qs.ip"
    BY DEF FirstStep
  <2> QED
    BY <2>2, <2>3, SMT DEF Listed, ListLabels, NoReply
<1> QED
  BY <1>1, <1>2

LEMMA NextListed ==
  ASSUME IInv, OneThread, \A t \in Threads : Listed(t), [Next]_vars
  PROVE  \A t \in Threads : Listed(t)'
<1> SUFFICES ASSUME NEW t \in Threads PROVE Listed(t)'
  OBVIOUS
<1>1. CASE Step(t)
  <2>1. CASE op[t] = "getRestaurants"
    <3>1. ~Configuring(t)
      BY <2>1 DEF Configuring, SetupDatabase, SetupLogin, SetuplocalDatabase, Listed, ListLabels
    <3> QED
      BY <1>1, <2>1, <3>1, StepForms, ReadingListed, PoolingListed, ConnectingListed, ExecutingListed,
         AnsweringListed
  <2>2. CASE op[t] # "getRestaurants"
    <3>1. op' = op
      <4>1. ASSUME NEW at, NEW build, NEW ok, NEW fail, SetupPooling(t, at, build, ok, fail) PROVE op' = op
        BY <4>1 DEF SetupPooling, request
      <4>2. ASSUME NEW at, NEW keyspace \in BOOLEAN, NEW ok, NEW fail, Connect(t, at, keyspace, ok, fail)
            PROVE  op' = op
        BY <4>2 DEF Connect, request
      <4>3. ASSUME NEW at, NEW stmt, NEW ok, NEW fail, Execute(t, at, stmt, ok, fail) PROVE op' = op
        BY <4>3 DEF Execute, request
      <4>4. Pooling(t) => op' = op
        BY <4>1 DEF Pooling
      <4>5. Connecting(t) => op' = op
        BY <4>2, Zenon DEF Connecting
      <4>6. Executing(t) => op' = op
        BY <4>3 DEF Executing
      <4>7. Reading(t) \/ Configuring(t) \/ Listing(t) \/ Return(t) => op' = op
        BY DEF Reading, ReadIp, Configuring, SetupDatabase, SetupLogin, SetuplocalDatabase, Listing, Return,
           request
      <4> QED
        BY <1>1, <4>4, <4>5, <4>6, <4>7, StepForms
    <3> QED
      BY <2>2, <3>1 DEF Listed
  <2> QED
    BY <2>1, <2>2
<1>2. CASE Start(t) \/ Receive(t)
  BY <1>2, EnterListed
<1>3. ASSUME NEW g \in Hosts, NodeDown(g) \/ NodeUp(g) PROVE Listed(t)'
  <2>1. PICK up \in BOOLEAN : db' = [db EXCEPT ![g].up = up]
    BY <1>3 DEF NodeDown, NodeUp
  <2>2. \A h \in Hosts : db'[h].rows = db[h].rows
    BY <2>1 DEF IInv, TypeOK, Node
  <2>3. UNCHANGED <<pc, op, config, cluster, addr, sess, rs, reply>>
    BY <1>3 DEF NodeDown, NodeUp, server, request, locals
  <2> QED
    BY <2>2, <2>3, ListedKept DEF Listed
<1>4. ASSUME NEW s \in Servers, Crash(s) PROVE Listed(t)'
  <2>1. CASE ServerOf[t] = s
    BY <1>4, <2>1, NoneIsNoHandler DEF Crash, Listed, AllHandlers
  <2>2. CASE ServerOf[t] # s
    <3>1. ServerOf[t] \in Servers
      BY ServerAssumption
    <3>2. OwnKept(t) /\ db' = db
      BY <1>4, <2>2, <3>1 DEF Crash, OwnKept, IInv, TypeOK
    <3> QED
      BY <3>2, ListedKept DEF Listed, OwnKept
  <2> QED
    BY <2>1, <2>2
<1>5. CASE UNCHANGED vars
  BY <1>5, ListedKept DEF vars, Listed
<1> QED
  BY <1>1, <1>2, <1>3, <1>4, <1>5 DEF Next, OneThread

(***************************************************************************)
(* When requests come one at a time, whatever fails in between: the list   *)
(* that getRestaurants answers with is the configured node's table, or it  *)
(* is empty.                                                               *)
(***************************************************************************)
THEOREM ListIsOfTable ==
  ASSUME OneThread
  PROVE  Spec => []ListIsTable
<1> DEFINE LInv == \A t \in Threads : Listed(t)
<1>1. Init => LInv
  BY NoneIsNoHandler, SMT DEF Init, Listed, AllHandlers
<1>2. IInv /\ LInv /\ [Next]_vars => LInv'
  BY NextListed
<1>3. LInv => ListIsTable
  BY DEF Listed, ListIsTable, TableOf, ConfiguredNode
<1> HIDE DEF LInv
<1> QED
  BY <1>1, <1>2, <1>3, Invariance, PTL DEF Spec
==============================================================================
