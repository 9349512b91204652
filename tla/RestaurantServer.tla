--------------------------- MODULE RestaurantServer ---------------------------
(***************************************************************************)
(* The restaurant REST server: RestaurantController's handlers, the        *)
(* SessionUtil methods they call and the configuration Singleton, in front *)
(* of Cassandra nodes (module Cassandra).                                  *)
(*                                                                         *)
(* A server process has ONE SessionUtil bean.  All its request threads     *)
(* share the bean's field cluster and the configuration, without           *)
(* synchronisation, and a handler reads them again at every driver call.   *)
(* A handler is therefore a sequence of steps, one for each read or write  *)
(* of shared state and each call of the driver; pc[t] names the step       *)
(* thread t takes next.  The labels are prefixed by the method:            *)
(*   ctor   RestaurantController's constructor   ta  testarguments         *)
(*   la     localarguments / setuplocalDatabase  cs  createSchema          *)
(*   ct     createTable                          dt  deleteTable           *)
(*   st     setupRestaurantDatabaseTables        rt  createRestaurantTable *)
(*   tt     createTablesTable                    ix  createIndex           *)
(*   sr     setRestaurants                       qs  querySchema           *)
(*   gr     getRestaurants                                                 *)
(***************************************************************************)
EXTENDS Cassandra, Naturals

CONSTANTS
  Servers,     \* server processes (replicas)
  Threads,     \* request threads
  ServerOf,    \* the server each thread belongs to
  Hosts,       \* Cassandra nodes, named by their address
  Local,       \* the node at 127.0.0.1, which "" resolves to as well
  BadIp,       \* an address no node has (it does not resolve)
  Ports,
  NativePort,  \* the driver's default port, 9042
  Logins,      \* login and password, as one value
  Accounts,    \* the <<node, login>> pairs a node lets in
  Args,        \* the configuration each server is started with
  ConfigFile,  \* each server's resources/config/application.properties
  Handlers,    \* the handlers clients call
  Requests,    \* bodies of testarguments requests
  MaxFaults    \* how many crashes, outages and lost answers a run may have

Unset == ""   \* an address or a port that was not given

Addresses == Hosts \cup {Unset, BadIp}

Config == [ip: Addresses, port: Ports \cup {Unset}, login: Logins]

AllHandlers ==
  {"localarguments", "testarguments", "reportarguments",
   "setupRestaurantDatabaseTables", "addRestaurant", "getRestaurants"}

ASSUME ServerAssumption ==
  /\ ServerOf \in [Threads -> Servers]
  /\ Local \in Hosts /\ BadIp \notin Hosts \cup {Unset} /\ Unset \notin Hosts
  /\ None \notin Hosts \cup {Unset, BadIp}
  /\ NativePort \in Ports
  /\ Accounts \subseteq Hosts \X Logins
  /\ Args \in [Servers -> Config]
  /\ ConfigFile \in [Servers -> [kind: {"absent", "incomplete", "complete"},
                                 ip: Addresses, port: Ports]]
  /\ Handlers \subseteq AllHandlers
  /\ Requests \subseteq Config
  /\ MaxFaults \in Nat

ASSUME NoneIsNoHandler == None \notin AllHandlers

VARIABLES
  config,   \* [Servers -> Config]: the Singleton
  cluster,  \* [Servers -> Cluster or None]: SessionUtil.cluster
  status,   \* [Servers -> {"down", "starting", "up"}]
  pc,       \* [Threads -> Labels]: the next step of each thread
  op,       \* the handler a thread runs, or ran last
  arg,      \* the body of the request: a configuration or a restaurant
  addr,     \* the address passed to setupPooling
  cred,     \* the login the builder was given
  sess,     \* the node of the Session the thread holds
  rs,       \* the ResultSet of querySchema, null when it failed
  stored,   \* whether setRestaurants returned "200/Success"
  made,     \* the node whose keyspace this request created (history)
  seen,     \* the nodes configured since the request began (history)
  reply,    \* the response of the last request
  db,       \* [Hosts -> Node]
  faults    \* faults left

server == <<config, cluster, status>>
locals == <<addr, cred, sess, rs, stored, made, seen>>
request == <<op, arg>>
env == <<db, faults>>
vars == <<config, cluster, status, pc, op, arg, addr, cred, sess, rs, stored,
          made, seen, reply, db, faults>>

(* A driver Cluster: where it connects, as whom, and whether it has been   *)
(* initialised.  A failed initialisation closes it for good.               *)
Cluster == [host: Hosts, port: Ports, login: Logins,
            state: {"new", "open", "closed"}]

ASSUME NoneIsNoCluster == None \notin Cluster

PoolingLabels == {"ctor.pool", "ta.pool", "cs.pool", "st.pool", "sr.pool",
                  "qs.pool", "gr.pool"}

BuildLabels == {"ctor.build", "ta.build", "cs.build", "st.build", "sr.build",
                "qs.build", "gr.build"}

ConnectLabels == {"cs.connect", "ct.connect", "dt.connect", "st.connect",
                  "rt.connect", "tt.connect", "ix.connect", "sr.connect",
                  "qs.connect", "gr.connect"}

ExecuteLabels == {"cs.exec", "ct.exec", "dt.exec", "rt.exec", "tt.exec",
                  "sr.exec", "qs.exec"}

Labels == PoolingLabels \cup BuildLabels \cup ConnectLabels \cup ExecuteLabels \cup
  {"idle", "ctor.ip", "ta.ip", "ta.port", "ta.login", "la.ip", "la.port",
   "cs.ip", "st.ip", "sr.ip", "qs.ip", "gr.ip", "gr.rows", "reply"}

Restaurant == [id: RestaurantIds \cup {None}, data: RestaurantData]

NoReply == [code |-> None, ip |-> None, port |-> None, rows |-> NoRows]

Reply == [code: {None, "200/OK"}, ip: Addresses \cup {None},
          port: Ports \cup {Unset, None}, rows: Rows]

Goto(t, label) == pc' = [pc EXCEPT ![t] = label]

------------------------------------------------------------------------------
(* SessionUtil: the shared steps. *)

(* getCassandraIpAddress(), evaluated as the argument of setupPooling. *)
ReadIp(t, at, next) ==
  /\ pc[t] = at
  /\ addr' = [addr EXCEPT ![t] = config[ServerOf[t]].ip]
  /\ Goto(t, next)
  /\ UNCHANGED <<server, request, cred, sess, rs, stored, made, seen, reply, env>>

(* The node an address names. *)
Resolve(ip) == IF ip = Unset THEN Local ELSE ip

(* Variant: the exception is logged and the caller goes on. *)
SetupPoolingLogged(t, at, build, ok, fail) ==
  \/ /\ pc[t] = at
     /\ cred' = [cred EXCEPT ![t] = config[ServerOf[t]].login]
     /\ Goto(t, IF addr[t] = BadIp THEN ok ELSE build)
     /\ UNCHANGED <<server, request, addr, sess, rs, stored, made, seen, reply, env>>
  \/ /\ pc[t] = build
     /\ cluster' = [cluster EXCEPT ![ServerOf[t]] =
                      [host |-> Resolve(addr[t]), port |-> NativePort,
                       login |-> cred[t], state |-> "new"]]
     /\ Goto(t, ok)
     /\ UNCHANGED <<config, status, request, locals, reply, env>>

(***************************************************************************)
(* setupPooling: give a builder the address and the configured login, then *)
(* build a Cluster and overwrite the shared field.  The builder is never   *)
(* given a port.  Building opens no connection; an address that does not   *)
(* resolve is an exception and leaves the field as it was.                 *)
(***************************************************************************)
SetupPooling(t, at, build, ok, fail) ==
  \/ /\ pc[t] = at
     /\ \/ /\ addr[t] # BadIp
           /\ cred' = [cred EXCEPT ![t] = config[ServerOf[t]].login]
           /\ Goto(t, build)
        \/ /\ addr[t] = BadIp
           /\ Goto(t, fail)
           /\ UNCHANGED cred
     /\ UNCHANGED <<server, request, addr, sess, rs, stored, made, seen, reply, env>>
  \/ /\ pc[t] = build
     /\ cluster' = [cluster EXCEPT ![ServerOf[t]] =
                      [host |-> Resolve(addr[t]), port |-> NativePort,
                       login |-> cred[t], state |-> "new"]]
     /\ Goto(t, ok)
     /\ UNCHANGED <<config, status, request, locals, reply, env>>

(***************************************************************************)
(* cluster.connect(...) on whatever the shared field holds now.  The first *)
(* connect initialises the Cluster; when no node answers or lets it in,    *)
(* the driver closes it and every later use fails.  With a keyspace, the   *)
(* session also sends USE, which fails when the keyspace does not exist.   *)
(***************************************************************************)
Connect(t, at, keyspace, ok, fail) ==
  LET c == cluster[ServerOf[t]]
      reached == c.state # "closed" /\ db[c.host].up /\ <<c.host, c.login>> \in Accounts
      usable == reached /\ (keyspace => db[c.host].keyspace)
      state == IF reached THEN "open" ELSE IF c.state = "new" THEN "closed" ELSE c.state
  IN
  /\ pc[t] = at
  /\ cluster' = [cluster EXCEPT ![ServerOf[t]].state = state]
  /\ \/ /\ usable
        /\ sess' = [sess EXCEPT ![t] = c.host]
        /\ Goto(t, ok)
     \/ /\ ~usable
        /\ Goto(t, fail)
        /\ UNCHANGED sess
  /\ UNCHANGED <<config, status, request, addr, cred, rs, stored, made, seen, reply, env>>

(* What the caller of session.execute keeps of a successful answer. *)
KeepAnswer(t, stmt) ==
  LET h == sess[t] IN
  /\ rs' = [rs EXCEPT ![t] = IF stmt.cql = "SELECT" THEN db[h].rows ELSE @]
  /\ stored' = [stored EXCEPT ![t] = @ \/ stmt.cql = "INSERT"]
  /\ made' = [made EXCEPT ![t] = IF stmt.cql = "CREATE_KEYSPACE" THEN h ELSE @]

(***************************************************************************)
(* session.execute(stmt): the node executes the statement and answers; or  *)
(* it executes the statement and the answer is lost, so that the driver    *)
(* throws a timeout; or it answers with an error or not at all.            *)
(***************************************************************************)
Execute(t, at, stmt, ok, fail) ==
  LET h == sess[t] IN
  /\ pc[t] = at
  /\ \/ /\ Accepts(db[h], stmt)
        /\ db' = [db EXCEPT ![h] = After(@, stmt)]
        /\ \/ /\ Goto(t, ok)
              /\ KeepAnswer(t, stmt)
              /\ UNCHANGED faults
           \/ /\ faults > 0
              /\ faults' = faults - 1
              /\ Goto(t, fail)
              /\ UNCHANGED <<rs, stored, made>>
     \/ /\ ~Accepts(db[h], stmt)
        /\ Goto(t, fail)
        /\ UNCHANGED <<db, faults, rs, stored, made>>
  /\ UNCHANGED <<server, request, addr, cred, sess, seen, reply>>

------------------------------------------------------------------------------
(* SessionUtil's methods, each with the steps the controller's handlers go *)
(* through; "reply" is the end of the handler that called it.              *)

(* Variant: a keyspace that exists is no error. *)
CreateSchemaIfNotExists(t) ==
  \/ ReadIp(t, "cs.ip", "cs.pool")
  \/ SetupPooling(t, "cs.pool", "cs.build", "cs.connect", "reply")
  \/ Connect(t, "cs.connect", FALSE, "cs.exec", "reply")
  \/ Execute(t, "cs.exec", CreateKeyspace, "ct.connect", "ct.connect")

(***************************************************************************)
(* createSchema("accounts"): pool again, connect, CREATE KEYSPACE.  Every  *)
(* failure is a CustomException, which the constructor and testarguments   *)
(* catch around the whole sequence createSchema, createTable, deleteTable. *)
(***************************************************************************)
CreateSchema(t) ==
  \/ ReadIp(t, "cs.ip", "cs.pool")
  \/ SetupPooling(t, "cs.pool", "cs.build", "cs.connect", "reply")
  \/ Connect(t, "cs.connect", FALSE, "cs.exec", "reply")
  \/ Execute(t, "cs.exec", CreateKeyspace, "ct.connect", "reply")

(* Variant: deleteTable is not called. *)
CreateTableKept(t) ==
  \/ Connect(t, "ct.connect", TRUE, "ct.exec", "reply")
  \/ Execute(t, "ct.exec", CreateTableNamed("test"), "reply", "reply")

(* createTable("accounts", "test") *)
CreateTable(t) ==
  \/ Connect(t, "ct.connect", TRUE, "ct.exec", "reply")
  \/ Execute(t, "ct.exec", CreateTableNamed("test"), "dt.connect", "reply")

(* Variant: called with another table's name. *)
DeleteTableRestaurants(t) ==
  \/ Connect(t, "dt.connect", TRUE, "dt.exec", "reply")
  \/ Execute(t, "dt.exec", DropTableNamed("restaurants"), "reply", "reply")

(* deleteTable("accounts", "test") *)
DeleteTable(t) ==
  \/ Connect(t, "dt.connect", TRUE, "dt.exec", "reply")
  \/ Execute(t, "dt.exec", DropTableNamed("test"), "reply", "reply")

(* Variant: its exceptions are thrown, like createTablesTable's. *)
CreateRestaurantTableThrows(t) ==
  \/ Connect(t, "rt.connect", TRUE, "rt.exec", "reply")
  \/ Execute(t, "rt.exec", CreateTableNamed("restaurants"), "tt.connect", "reply")

(* createRestaurantTable logs its exceptions and returns normally. *)
CreateRestaurantTable(t) ==
  \/ Connect(t, "rt.connect", TRUE, "rt.exec", "tt.connect")
  \/ Execute(t, "rt.exec", CreateTableNamed("restaurants"), "tt.connect", "tt.connect")

(* Variant: retried until it works. *)
CreateTablesTableRetried(t) ==
  \/ Connect(t, "tt.connect", TRUE, "tt.exec", "reply")
  \/ Execute(t, "tt.exec", CreateTableNamed("tables"), "ix.connect", "tt.exec")

(* createTablesTable throws a CustomException, which ends the setup. *)
CreateTablesTable(t) ==
  \/ Connect(t, "tt.connect", TRUE, "tt.exec", "reply")
  \/ Execute(t, "tt.exec", CreateTableNamed("tables"), "ix.connect", "reply")

(* createIndex only opens a session; its CREATE INDEX is commented out. *)
CreateIndex(t) == Connect(t, "ix.connect", TRUE, "reply", "reply")

(***************************************************************************)
(* setupRestaurantDatabaseTables: pool, open a session that is not used,   *)
(* then the two tables and the index; whatever is thrown is logged only.   *)
(***************************************************************************)
SetupRestaurantDatabaseTables(t) ==
  \/ ReadIp(t, "st.ip", "st.pool")
  \/ SetupPooling(t, "st.pool", "st.build", "st.connect", "reply")
  \/ Connect(t, "st.connect", TRUE, "rt.connect", "reply")
  \/ CreateRestaurantTable(t)
  \/ CreateTablesTable(t)
  \/ CreateIndex(t)

(* Variant: uses the Cluster that is there. *)
SetRestaurantsNoPooling(t) ==
  \/ ReadIp(t, "sr.ip", "sr.connect")
  \/ Connect(t, "sr.connect", TRUE, "sr.exec", "reply")
  \/ Execute(t, "sr.exec", InsertRestaurant(arg[t].id, arg[t].data), "reply", "reply")

(* setRestaurants: pool, connect, upsert the row; exceptions become the    *)
(* string "500/Error...", which leaves stored FALSE.                       *)
SetRestaurants(t) ==
  \/ ReadIp(t, "sr.ip", "sr.pool")
  \/ SetupPooling(t, "sr.pool", "sr.build", "sr.connect", "reply")
  \/ Connect(t, "sr.connect", TRUE, "sr.exec", "reply")
  \/ Execute(t, "sr.exec", InsertRestaurant(arg[t].id, arg[t].data), "reply", "reply")

(* Variant: uses the Cluster that is there. *)
QuerySchemaNoPooling(t) ==
  \/ ReadIp(t, "qs.ip", "qs.connect")
  \/ Connect(t, "qs.connect", TRUE, "qs.exec", "gr.ip")
  \/ Execute(t, "qs.exec", SelectRestaurants, "gr.ip", "gr.ip")

(* querySchema: a failure is logged and the null ResultSet is returned. *)
QuerySchema(t) ==
  \/ ReadIp(t, "qs.ip", "qs.pool")
  \/ SetupPooling(t, "qs.pool", "qs.build", "qs.connect", "gr.ip")
  \/ Connect(t, "qs.connect", TRUE, "qs.exec", "gr.ip")
  \/ Execute(t, "qs.exec", SelectRestaurants, "gr.ip", "gr.ip")

(***************************************************************************)
(* getRestaurants(results): pool and connect once more, then walk through  *)
(* the results fetched before.  A failed connect, or null results, end in  *)
(* a CustomException and the controller answers with the empty list.       *)
(***************************************************************************)
GetRestaurants(t) ==
  \/ ReadIp(t, "gr.ip", "gr.pool")
  \/ SetupPooling(t, "gr.pool", "gr.build", "gr.connect", "reply")
  \/ Connect(t, "gr.connect", TRUE, "gr.rows", "reply")
  \/ /\ pc[t] = "gr.rows"
     /\ reply' = [reply EXCEPT ![t].rows = IF rs[t] = None THEN NoRows ELSE rs[t]]
     /\ Goto(t, "reply")
     /\ UNCHANGED <<server, request, locals, env>>

------------------------------------------------------------------------------
(* RestaurantController. *)

(* setCassandraIpAddress; every request in flight has now seen this node. *)
SetAddress(t, ip) ==
  LET s == ServerOf[t] IN
  /\ config' = [config EXCEPT ![s].ip = ip]
  /\ seen' = [u \in Threads |->
               IF ServerOf[u] = s /\ pc[u] # "idle" THEN seen[u] \cup {Resolve(ip)}
                                                   ELSE seen[u]]

(***************************************************************************)
(* setupDatabase: stores the properties file's address and then its port,  *)
(* or the request's when there is no file; a file without the two          *)
(* properties is a NullPointerException.                                   *)
(***************************************************************************)
SetupDatabase(t) ==
  LET file == ConfigFile[ServerOf[t]]
      given == IF file.kind = "complete" THEN file ELSE arg[t]
  IN
  \/ /\ pc[t] = "ta.ip"
     /\ \/ /\ file.kind = "incomplete"
           /\ Goto(t, "reply")
           /\ UNCHANGED <<config, seen>>
        \/ /\ file.kind # "incomplete"
           /\ SetAddress(t, given.ip)
           /\ Goto(t, "ta.port")
     /\ UNCHANGED <<cluster, status, request, addr, cred, sess, rs, stored, made, reply, env>>
  \/ /\ pc[t] = "ta.port"
     /\ config' = [config EXCEPT ![ServerOf[t]].port = given.port]
     /\ Goto(t, "ta.login")
     /\ UNCHANGED <<cluster, status, request, locals, reply, env>>

(* setupLogin stores the login; setupPooling comes next, for the address   *)
(* in the REQUEST.                                                         *)
SetupLogin(t) ==
  /\ pc[t] = "ta.login"
  /\ config' = [config EXCEPT ![ServerOf[t]].login = arg[t].login]
  /\ addr' = [addr EXCEPT ![t] = arg[t].ip]
  /\ Goto(t, "ta.pool")
  /\ UNCHANGED <<cluster, status, request, cred, sess, rs, stored, made, seen, reply, env>>

(* testarguments: store the configuration, pool, and go on to createSchema. *)
TestArguments(t) ==
  \/ SetupDatabase(t)
  \/ SetupLogin(t)
  \/ SetupPooling(t, "ta.pool", "ta.build", "cs.ip", "reply")

(* setuplocalDatabase: address and port, one after the other. *)
SetuplocalDatabase(t) ==
  \/ /\ pc[t] = "la.ip"
     /\ SetAddress(t, Local)
     /\ Goto(t, "la.port")
     /\ UNCHANGED <<cluster, status, request, addr, cred, sess, rs, stored, made, reply, env>>
  \/ /\ pc[t] = "la.port"
     /\ config' = [config EXCEPT ![ServerOf[t]].port = NativePort]
     /\ Goto(t, "reply")
     /\ UNCHANGED <<cluster, status, request, locals, reply, env>>

(* localarguments: only the configuration changes, no Cluster is built. *)
LocalArguments(t) == SetuplocalDatabase(t)

(* The constructor, run while Spring creates the bean. *)
Constructor(t) ==
  \/ ReadIp(t, "ctor.ip", "ctor.pool")
  \/ SetupPooling(t, "ctor.pool", "ctor.build", "cs.ip", "reply")

(* The first step of each handler. *)
FirstStep(handler) ==
  CASE handler = "testarguments" -> "ta.ip"
    [] handler = "localarguments" -> "la.ip"
    [] handler = "reportarguments" -> "reply"
    [] handler = "setupRestaurantDatabaseTables" -> "st.ip"
    [] handler = "addRestaurant" -> "sr.ip"
    [] handler = "getRestaurants" -> "qs.ip"

(* The bodies a client may post to a handler. *)
Bodies(handler) ==
  CASE handler = "testarguments" -> Requests
    [] handler = "addRestaurant" -> Restaurant
    [] OTHER -> {None}

(* The start of a request, or of the constructor: a fresh stack frame. *)
Enter(t, handler, body, label) ==
  /\ pc[t] = "idle"
  /\ Goto(t, label)
  /\ op' = [op EXCEPT ![t] = handler]
  /\ arg' = [arg EXCEPT ![t] = body]
  /\ addr' = [addr EXCEPT ![t] = None]
  /\ cred' = [cred EXCEPT ![t] = None]
  /\ sess' = [sess EXCEPT ![t] = None]
  /\ rs' = [rs EXCEPT ![t] = None]
  /\ stored' = [stored EXCEPT ![t] = FALSE]
  /\ made' = [made EXCEPT ![t] = None]
  /\ seen' = [seen EXCEPT ![t] = {Resolve(config[ServerOf[t]].ip)}]
  /\ reply' = [reply EXCEPT ![t] = NoReply]
  /\ UNCHANGED <<config, cluster, env>>

(* Tomcat hands a request to an idle thread once the context is up. *)
Receive(t) ==
  /\ status[ServerOf[t]] = "up"
  /\ \E handler \in Handlers : \E body \in Bodies(handler) :
       Enter(t, handler, body, FirstStep(handler))
  /\ UNCHANGED status

(* A server process starts: one thread runs the constructor. *)
Start(t) ==
  /\ status[ServerOf[t]] = "down"
  /\ status' = [status EXCEPT ![ServerOf[t]] = "starting"]
  /\ Enter(t, "constructor", None, "ctor.ip")

(* The configuration handlers answer with the address and port set now. *)
ReportArguments(answer, cfg) == [answer EXCEPT !.ip = cfg.ip, !.port = cfg.port]

(* addRestaurant ignores what setRestaurants returned. *)
AddRestaurant(answer) == [answer EXCEPT !.code = "200/OK"]

(* The exceptions of the setup were logged: the answer is always the same. *)
SetupAnswer(answer) == [answer EXCEPT !.code = "200/OK"]

(* The end of a handler; getRestaurants answers with the list it has.  The *)
(* end of the constructor, however it went, lets requests in.              *)
Return(t) ==
  /\ pc[t] = "reply"
  /\ Goto(t, "idle")
  /\ reply' = [reply EXCEPT ![t] =
       CASE op[t] \in {"testarguments", "localarguments", "reportarguments"} ->
              ReportArguments(@, config[ServerOf[t]])
         [] op[t] = "addRestaurant" -> AddRestaurant(@)
         [] op[t] = "setupRestaurantDatabaseTables" -> SetupAnswer(@)
         [] OTHER -> @]
  /\ status' = IF op[t] = "constructor"
               THEN [status EXCEPT ![ServerOf[t]] = "up"] ELSE status
  /\ UNCHANGED <<config, cluster, request, locals, env>>

------------------------------------------------------------------------------
(* The environment. *)

NodeDown(h) ==
  /\ faults > 0 /\ db[h].up
  /\ faults' = faults - 1
  /\ db' = [db EXCEPT ![h].up = FALSE]
  /\ UNCHANGED <<server, pc, request, locals, reply>>

NodeUp(h) ==
  /\ ~db[h].up
  /\ db' = [db EXCEPT ![h].up = TRUE]
  /\ UNCHANGED <<server, pc, request, locals, reply, faults>>

(* A server process dies; it will start again with its command line. *)
Crash(s) ==
  LET Dropped(f, v) == [t \in Threads |-> IF ServerOf[t] = s THEN v ELSE f[t]] IN
  /\ faults > 0 /\ status[s] # "down"
  /\ faults' = faults - 1
  /\ status' = [status EXCEPT ![s] = "down"]
  /\ config' = [config EXCEPT ![s] = Args[s]]
  /\ cluster' = [cluster EXCEPT ![s] = None]
  /\ pc' = Dropped(pc, "idle")
  /\ op' = Dropped(op, None)
  /\ arg' = Dropped(arg, None)
  /\ addr' = Dropped(addr, None)
  /\ cred' = Dropped(cred, None)
  /\ sess' = Dropped(sess, None)
  /\ rs' = Dropped(rs, None)
  /\ stored' = Dropped(stored, FALSE)
  /\ made' = Dropped(made, None)
  /\ seen' = Dropped(seen, {})
  /\ reply' = Dropped(reply, NoReply)
  /\ UNCHANGED db

Init ==
  /\ config = Args
  /\ cluster = [s \in Servers |-> None]
  /\ status = [s \in Servers |-> "down"]
  /\ pc = [t \in Threads |-> "idle"]
  /\ op = [t \in Threads |-> None]
  /\ arg = [t \in Threads |-> None]
  /\ addr = [t \in Threads |-> None]
  /\ cred = [t \in Threads |-> None]
  /\ sess = [t \in Threads |-> None]
  /\ rs = [t \in Threads |-> None]
  /\ stored = [t \in Threads |-> FALSE]
  /\ made = [t \in Threads |-> None]
  /\ seen = [t \in Threads |-> {}]
  /\ reply = [t \in Threads |-> NoReply]
  /\ db = [h \in Hosts |-> FreshNode]
  /\ faults = MaxFaults

(* A step of the code of the handler thread t is running. *)
Step(t) ==
  \/ Constructor(t) \/ TestArguments(t) \/ LocalArguments(t)
  \/ CreateSchema(t) \/ CreateTable(t) \/ DeleteTable(t)
  \/ SetupRestaurantDatabaseTables(t)
  \/ SetRestaurants(t) \/ QuerySchema(t) \/ GetRestaurants(t)
  \/ Return(t)

Next ==
  \/ \E t \in Threads : Start(t) \/ Receive(t) \/ Step(t)
  \/ \E h \in Hosts : NodeDown(h) \/ NodeUp(h)
  \/ \E s \in Servers : Crash(s)

Spec == Init /\ [][Next]_vars

(***************************************************************************)
(* Threads that are running a handler get on with it (the JVM schedules    *)
(* them and every driver call ends, at the latest by a timeout), a server  *)
(* that is down is started again and an outage ends.  Clients are under no *)
(* obligation, except where Operator says so: someone keeps posting        *)
(* testarguments and setupRestaurantDatabaseTables, as the deployment      *)
(* scripts do.                                                             *)
(***************************************************************************)
Fairness ==
  /\ \A t \in Threads : WF_vars(Step(t)) /\ WF_vars(Start(t))
  /\ \A h \in Hosts : WF_vars(NodeUp(h))

Operator ==
  \A t \in Threads :
    /\ SF_vars(Receive(t) /\ op'[t] = "testarguments")
    /\ SF_vars(Receive(t) /\ op'[t] = "setupRestaurantDatabaseTables")

FairSpec == Spec /\ Fairness

OperatedSpec == FairSpec /\ Operator

------------------------------------------------------------------------------
(* Every variable stays in the set its declaration names. *)
TypeOK ==
  /\ config \in [Servers -> Config]
  /\ cluster \in [Servers -> Cluster \cup {None}]
  /\ status \in [Servers -> {"down", "starting", "up"}]
  /\ pc \in [Threads -> Labels]
  /\ op \in [Threads -> AllHandlers \cup {"constructor", None}]
  /\ arg \in [Threads -> Requests \cup Restaurant \cup {None}]
  /\ \A t \in Threads :
       /\ op[t] = "testarguments" => arg[t] \in Requests
       /\ op[t] = "addRestaurant" => arg[t] \in Restaurant
  /\ addr \in [Threads -> Addresses \cup {None}]
  /\ cred \in [Threads -> Logins \cup {None}]
  /\ sess \in [Threads -> Hosts \cup {None}]
  /\ rs \in [Threads -> Rows \cup {None}]
  /\ stored \in [Threads -> BOOLEAN]
  /\ made \in [Threads -> Hosts \cup {None}]
  /\ seen \in [Threads -> SUBSET (Hosts \cup {BadIp})]
  /\ reply \in [Threads -> Reply]
  /\ db \in [Hosts -> Node]
  /\ faults \in 0 .. MaxFaults

(* The part of the startup and testarguments sequences after createSchema, *)
(* where the scratch table "test" is created and dropped.                  *)
InTestSection(t) == pc[t] \in {"ct.connect", "ct.exec", "dt.connect", "dt.exec"}

(***************************************************************************)
(* CREATE KEYSPACE (createSchema) is a gate: of all the requests in        *)
(* flight, in all replicas and across crashes, at most one is past the     *)
(* createSchema of any one node, and only such a request goes on to        *)
(* createTable and deleteTable.                                            *)
(***************************************************************************)
KeyspaceGate ==
  /\ \A t \in Threads : InTestSection(t) => made[t] # None
  /\ \A t, u \in Threads : t # u /\ made[t] # None => made[t] # made[u]

(***************************************************************************)
(* With a single node, CREATE TABLE test never finds the table there and   *)
(* DROP TABLE test never finds it gone, however the constructor and        *)
(* testarguments of several threads and replicas interleave and whatever   *)
(* crashed before: createTable and deleteTable fail only for want of an    *)
(* answer.                                                                 *)
(***************************************************************************)
ScratchTableExclusive ==
  \A h \in Hosts : Hosts = {h} =>
    \A t \in Threads :
      /\ pc[t] \in {"ct.connect", "ct.exec"} => "test" \notin db[h].tables
      /\ pc[t] \in {"dt.connect", "dt.exec"} => "test" \in db[h].tables

(* The node lets in every login that a server can be given. *)
LoginsWork(h) ==
  \A cfg \in Requests \cup {Args[s] : s \in Servers} : <<h, cfg.login>> \in Accounts

(***************************************************************************)
(* With a single node that lets every login in, the scratch table outlives *)
(* its request only when a crash, an outage or a lost answer hit it:       *)
(* deleteTable is reached after every createTable that worked.  (A login   *)
(* the node refuses, posted in between, would close the shared Cluster     *)
(* before deleteTable connects.)                                           *)
(***************************************************************************)
ScratchTableDropped ==
  \A h \in Hosts :
    /\ Hosts = {h} /\ LoginsWork(h)
    /\ faults = MaxFaults
    /\ "test" \in db[h].tables
    => \E t \in Threads : pc[t] \in {"dt.connect", "dt.exec"}

(* No handler dereferences a null cluster: every path to a connect passes  *)
(* a setupPooling that succeeded in the same process.                      *)
ClusterBeforeConnect ==
  \A t \in Threads : pc[t] \in ConnectLabels => cluster[ServerOf[t]] # None

(* What a step may do to the data of the nodes. *)
KeepsData ==
  \A h \in Hosts :
    /\ db[h].keyspace => db'[h].keyspace
    /\ db[h].tables \ {"test"} \subseteq db'[h].tables
    /\ \A id \in RestaurantIds :
         db'[h].rows[id] # db[h].rows[id] =>
           \E t \in Threads : op[t] = "addRestaurant" /\ pc[t] = "sr.exec"
             /\ arg[t] = [id |-> id, data |-> db'[h].rows[id]]

(* No request destroys data: keyspaces, tables (but the scratch one) and   *)
(* rows, once there, stay; a row changes only to what a client posted.     *)
DataKept == [][KeepsData]_db

(***************************************************************************)
(* A request works on a configured node: whatever a Session is about to    *)
(* execute goes to a node whose address was configured at some moment of   *)
(* the request.  True of requests that come one at a time.                 *)
(***************************************************************************)
ConfiguredNodeUsed ==
  \A t \in Threads : pc[t] \in ExecuteLabels => sess[t] \in seen[t]

(***************************************************************************)
(* When requests come one at a time, a list that getRestaurants returns is *)
(* the configured node's table, or it is empty (as it is when the address  *)
(* resolves to no node): the results of querySchema are not mixed up with  *)
(* another node's by the second setupPooling.                              *)
(***************************************************************************)
ListIsTable ==
  \A t \in Threads :
    pc[t] = "idle" /\ op[t] = "getRestaurants" =>
      reply[t].rows \in
        {NoRows} \cup {db[h].rows : h \in Hosts \cap {Resolve(config[ServerOf[t]].ip)}}

(* "200/OK" from addRestaurant means the restaurant is in a table. *)
AddedIsStored ==
  \A t \in Threads :
    /\ op[t] = "addRestaurant"
    /\ reply[t].code = "200/OK"
    /\ arg[t].id \in RestaurantIds
    => \E h \in Hosts : db[h].rows[arg[t].id] # None

(* Every request is answered and every constructor ends. *)
RequestsReturn == \A t \in Threads : pc[t] # "idle" ~> pc[t] = "idle"

(***************************************************************************)
(* Setup converges: with one node, an operator who keeps retrying ends up  *)
(* with both tables, whatever was half done when a crash, an outage or a   *)
(* lost answer interrupted an earlier attempt.  (createRestaurantTable     *)
(* goes on when the table exists; createTablesTable, which does not, comes *)
(* second.)                                                                *)
(***************************************************************************)
SetupConverges ==
  <>(\A h \in Hosts : Hosts = {h} => {"restaurants", "tables"} \subseteq db[h].tables)
==============================================================================
