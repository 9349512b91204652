----------------------------- MODULE JsonpProofs -----------------------------
(***************************************************************************)
(* Proofs about JSONP requests, for any number of them: the names of their *)
(* callbacks keep the answers apart.                                       *)
(***************************************************************************)
EXTENDS Jsonp, FiniteSetTheorems, TLAPS

(* The prover of the leaves that name none. *)
USE Zenon

Names == MadeUp \cup {GivenName}

Installed == JsonpRequests \cup {NoFunction}

Waiting ==
  [phase: {"new", "loading", "done"}, name: Names, overwritten: Installed,
   responseContainer: SUBSET JsonpRequests, result: {"none", "parsererror", "success", "wrong", "abort"}]

JsonpTypeOK ==
  /\ globals \in [Names -> Installed]
  /\ nonce \in Nat /\ nonce >= 1
  /\ oldCallbacks \in Seq(Nat)
  /\ jsonp \in [JsonpRequests -> Waiting]
  /\ scripts \in [JsonpRequests -> {"none", "loading", "run", "removed", "gone"}]
  /\ crossed \in BOOLEAN

Begun == {r \in JsonpRequests : jsonp[r].phase # "new"}

(* Not more names were made up than requests were begun, and each is free  *)
(* or used by one request.                                                 *)
NamesOwned ==
  /\ nonce - 1 <= Cardinality(Begun)
  /\ \A i \in DOMAIN oldCallbacks : oldCallbacks[i] \in 1 .. nonce - 1
  /\ \A r \in JsonpRequests : Loading(r) /\ jsonp[r].name # GivenName => jsonp[r].name \in 1 .. nonce - 1
  /\ NamesNotShared

(* While nothing crossed, the globals that are defined are the callbacks   *)
(* of the requests that wait, and each has no data but its own.            *)
Apart ==
  /\ \A r \in JsonpRequests : Loading(r) => globals[jsonp[r].name] = r /\ jsonp[r].overwritten = NoFunction
  /\ \A name \in Names : globals[name] # NoFunction =>
       Loading(globals[name]) /\ jsonp[globals[name]].name = name
  /\ \A r \in JsonpRequests : jsonp[r].responseContainer \subseteq {r} /\ jsonp[r].result # "wrong"

(* The inductive invariant. *)
JInv ==
  /\ JsonpTypeOK
  /\ NamesOwned
  /\ \A r \in JsonpRequests : scripts[r] = "loading" => Loading(r)
  /\ ~crossed => Apart

LEMMA JsonpBegins == JsonpInit => JInv
<1> SUFFICES ASSUME JsonpInit PROVE JInv
  OBVIOUS
<1>1. \A r \in JsonpRequests :
        jsonp[r] = [phase |-> "new", name |-> GivenName, overwritten |-> NoFunction,
                    responseContainer |-> {}, result |-> "none"]
  BY DEF JsonpInit
<1>2. JsonpTypeOK
  <2>1. globals \in [Names -> Installed]
    BY DEF JsonpInit, Names, Installed
  <2>2. jsonp = [r \in JsonpRequests |-> [phase |-> "new", name |-> GivenName, overwritten |-> NoFunction,
                                          responseContainer |-> {}, result |-> "none"]]
    BY DEF JsonpInit
  <2>3. jsonp \in [JsonpRequests -> Waiting]
    BY <2>2 DEF Waiting, Names, Installed
  <2>4. oldCallbacks \in Seq(Nat) /\ nonce = 1
    BY SMT DEF JsonpInit
  <2>5. scripts \in [JsonpRequests -> {"none", "loading", "run", "removed", "gone"}]
    BY DEF JsonpInit
  <2>6. crossed \in BOOLEAN
    BY DEF JsonpInit
  <2> QED
    BY <2>1, <2>3, <2>4, <2>5, <2>6, SMT DEF JsonpTypeOK
<1>3. \A r \in JsonpRequests : ~Loading(r)
  BY <1>1, SMT DEF Loading
<1>4. NamesOwned
  <2>1. Begun = {}
    BY <1>1, SMT DEF Begun
  <2>2. nonce - 1 <= Cardinality(Begun)
    BY <2>1, FS_EmptySet, SMT DEF JsonpInit
  <2>3. oldCallbacks = <<>>
    BY DEF JsonpInit
  <2> QED
    BY <1>3, <2>2, <2>3, SMT DEF NamesOwned, NamesNotShared, IsInjective, ToSet
<1>5. Apart
  BY <1>1, <1>3 DEF Apart, JsonpInit, Names
<1>6. \A r \in JsonpRequests : scripts[r] # "loading"
  BY DEF JsonpInit
<1> QED
  BY <1>2, <1>4, <1>5, <1>6 DEF JInv

(* What the prefilter has done when it installed a callback. *)
LEMMA InstallFacts ==
  ASSUME JInv, NEW r \in JsonpRequests, NEW name \in Names, Install(r, name)
  PROVE  /\ jsonp' \in [JsonpRequests -> Waiting]
         /\ globals' \in [Names -> Installed]
         /\ scripts' \in [JsonpRequests -> {"none", "loading", "run", "removed", "gone"}]
         /\ jsonp[r].phase = "new" /\ jsonp'[r].phase = "loading" /\ jsonp'[r].name = name
         /\ jsonp'[r].overwritten = globals[name]
         /\ jsonp'[r].responseContainer = {} /\ jsonp'[r].result = "none"
         /\ \A q \in JsonpRequests : q # r => jsonp'[q] = jsonp[q] /\ scripts'[q] = scripts[q]
         /\ globals'[name] = r
         /\ \A n \in Names : n # name => globals'[n] = globals[n]
         /\ Begun' = Begun \cup {r} /\ r \notin Begun
<1>1. /\ jsonp[r].phase = "new"
      /\ jsonp' = [jsonp EXCEPT ![r] = [phase |-> "loading", name |-> name, overwritten |-> globals[name],
                                         responseContainer |-> {}, result |-> "none"]]
      /\ globals' = [globals EXCEPT ![name] = r]
      /\ scripts' = [scripts EXCEPT ![r] = "loading"]
  BY DEF Install
<1>2. JsonpTypeOK
  BY DEF JInv
<1>3. globals[name] \in Installed
  BY <1>2 DEF JsonpTypeOK
<1>4. /\ globals' \in [Names -> Installed]
      /\ globals'[name] = r
      /\ \A n \in Names : n # name => globals'[n] = globals[n]
  BY <1>1, <1>2 DEF JsonpTypeOK, Installed
<1>5. /\ scripts' \in [JsonpRequests -> {"none", "loading", "run", "removed", "gone"}]
      /\ \A q \in JsonpRequests : q # r => scripts'[q] = scripts[q]
  BY <1>1, <1>2 DEF JsonpTypeOK
<1>7. /\ jsonp' \in [JsonpRequests -> Waiting]
      /\ jsonp'[r].phase = "loading" /\ jsonp'[r].name = name /\ jsonp'[r].overwritten = globals[name]
      /\ jsonp'[r].responseContainer = {} /\ jsonp'[r].result = "none"
      /\ \A q \in JsonpRequests : q # r => jsonp'[q] = jsonp[q]
  BY <1>1, <1>2, <1>3 DEF JsonpTypeOK, Waiting
<1>8. Begun' = Begun \cup {r} /\ r \notin Begun
  <2>1. \A q \in JsonpRequests : jsonp'[q].phase # "new" <=> (q = r \/ jsonp[q].phase # "new")
    BY <1>1, <1>7
  <2> QED
    BY <1>1, <2>1 DEF Begun
<1> QED
  BY <1>1, <1>4, <1>5, <1>7, <1>8

(* A callback is installed under a name that nothing uses that waits, or   *)
(* something crossed; the list of free names and the next one to make up   *)
(* are adjusted.                                                           *)
LEMMA InstallStep ==
  ASSUME JInv, NEW r \in JsonpRequests, NEW name \in Names, Install(r, name),
         crossed' \in BOOLEAN, crossed => crossed',
         name # GivenName \/ ~crossed' => \A q \in JsonpRequests : Loading(q) => jsonp[q].name # name,
         nonce' \in Nat, nonce' = nonce \/ nonce' = nonce + 1,
         name # GivenName => name \in 1 .. nonce' - 1,
         oldCallbacks' \in Seq(Nat), IsInjective(oldCallbacks'),
         ToSet(oldCallbacks') \subseteq ToSet(oldCallbacks), name \notin ToSet(oldCallbacks')
  PROVE  JInv'
<1>1. JsonpTypeOK /\ NamesOwned
  BY DEF JInv
<1>2. nonce \in Nat /\ nonce >= 1 /\ nonce' >= nonce
  BY <1>1, SMT DEF JsonpTypeOK
<1>3. JsonpTypeOK'
  BY <1>2, InstallFacts, SMT DEF JsonpTypeOK
<1>4. \A q \in JsonpRequests : Loading(q)' <=> (q = r \/ Loading(q))
  BY InstallFacts, SMT DEF Loading
<1>5. ~Loading(r)
  BY InstallFacts DEF Loading
<1>6. NamesOwned'
  <2>1. nonce' - 1 <= Cardinality(Begun')
    <3>1. IsFiniteSet(Begun)
      BY FS_Subset, JsonpAssumption DEF Begun
    <3>2. Begun' = Begun \cup {r} /\ r \notin Begun
      BY InstallFacts
    <3>3. Cardinality(Begun') = Cardinality(Begun) + 1 /\ Cardinality(Begun) \in Nat
      BY <3>1, <3>2, FS_AddElement, FS_CardinalityType
    <3> QED
      BY <1>1, <1>2, <3>3, SMT DEF NamesOwned
  <2>2. \A i \in DOMAIN oldCallbacks' : oldCallbacks'[i] \in 1 .. nonce' - 1
    <3> SUFFICES ASSUME NEW i \in DOMAIN oldCallbacks' PROVE oldCallbacks'[i] \in 1 .. nonce' - 1
      OBVIOUS
    <3>1. PICK k \in DOMAIN oldCallbacks : oldCallbacks[k] = oldCallbacks'[i]
      BY DEF ToSet
    <3>2. oldCallbacks[k] \in 1 .. nonce - 1
      BY <1>1 DEF NamesOwned
    <3> QED
      BY <1>2, <3>1, <3>2, SMT
  <2>3. ASSUME NEW q \in JsonpRequests, Loading(q)', jsonp'[q].name # GivenName
        PROVE  jsonp'[q].name \in 1 .. nonce' - 1
    <3>1. CASE q = r
      BY <2>3, <3>1, InstallFacts, SMT
    <3>2. CASE q # r
      <4>1. jsonp'[q].name = jsonp[q].name /\ Loading(q)
        BY <1>4, <2>3, <3>2, InstallFacts, SMT
      <4>2. jsonp[q].name \in 1 .. nonce - 1
        BY <1>1, <2>3, <4>1 DEF NamesOwned
      <4> QED
        BY <1>2, <4>1, <4>2, SMT
    <3> QED
      BY <3>1, <3>2
  <2>4. ASSUME NEW p \in JsonpRequests, NEW q \in JsonpRequests, Loading(p)', Loading(q)', p # q,
               jsonp'[p].name # GivenName
        PROVE  jsonp'[p].name # jsonp'[q].name
    <3>1. CASE p = r
      <4>1. Loading(q) /\ jsonp'[q] = jsonp[q] /\ jsonp'[p].name = name
        BY <1>4, <2>4, <3>1, InstallFacts, SMT
      <4>2. jsonp[q].name # name
        BY <2>4, <4>1
      <4> QED
        BY <4>1, <4>2
    <3>2. CASE q = r /\ p # r
      <4>1. Loading(p) /\ jsonp'[p] = jsonp[p] /\ jsonp'[q].name = name
        BY <1>4, <2>4, <3>2, InstallFacts, SMT
      <4>2. name # GivenName => jsonp[p].name # name
        BY <4>1
      <4> QED
        BY <2>4, <4>1, <4>2
    <3>3. CASE p # r /\ q # r
      BY <1>1, <1>4, <2>4, <3>3, InstallFacts, SMT DEF NamesOwned, NamesNotShared
    <3> QED
      BY <3>1, <3>2, <3>3
  <2>5. ASSUME NEW q \in JsonpRequests, Loading(q)' PROVE jsonp'[q].name \notin ToSet(oldCallbacks')
    <3>1. CASE q = r
      BY <3>1, InstallFacts, SMT
    <3>2. CASE q # r
      BY <1>1, <1>4, <2>5, <3>2, InstallFacts, SMT DEF NamesOwned, NamesNotShared
    <3> QED
      BY <3>1, <3>2
  <2>6. NamesNotShared'
    BY <2>4, <2>5 DEF NamesNotShared
  <2> QED
    BY <2>1, <2>2, <2>3, <2>6 DEF NamesOwned
<1>7. \A q \in JsonpRequests : scripts'[q] = "loading" => Loading(q)'
  BY <1>4, InstallFacts, SMT DEF JInv
<1>8. ASSUME ~crossed' PROVE Apart'
  <2>1. Apart /\ \A q \in JsonpRequests : Loading(q) => jsonp[q].name # name
    BY <1>8 DEF JInv
  <2>2. globals[name] = NoFunction
    <3>1. globals[name] \in Installed
      BY <1>1 DEF JsonpTypeOK
    <3> QED
      BY <2>1, <3>1 DEF Apart, Installed
  <2>3. ASSUME NEW q \in JsonpRequests, Loading(q)'
        PROVE  globals'[jsonp'[q].name] = q /\ jsonp'[q].overwritten = NoFunction
    <3>1. CASE q = r
      BY <2>2, <3>1, InstallFacts, SMT
    <3>2. CASE q # r
      <4>1. jsonp'[q] = jsonp[q] /\ Loading(q) /\ jsonp[q].name # name /\ jsonp[q].name \in Names
        BY <1>1, <1>4, <2>1, <2>3, <3>2, InstallFacts, SMT DEF JsonpTypeOK, Waiting
      <4>2. globals[jsonp[q].name] = q /\ jsonp[q].overwritten = NoFunction
        BY <2>1, <4>1 DEF Apart
      <4>3. globals'[jsonp[q].name] = globals[jsonp[q].name]
        BY <4>1, InstallFacts, SMT
      <4> QED
        BY <4>1, <4>2, <4>3
    <3> QED
      BY <3>1, <3>2
  <2>4. ASSUME NEW n \in Names, globals'[n] # NoFunction
        PROVE  Loading(globals[n])' /\ jsonp'[globals'[n]].name = n
    <3>1. CASE n = name
      BY <1>4, <3>1, InstallFacts, SMT
    <3>2. CASE n # name
      <4>1. globals'[n] = globals[n] /\ globals[n] \in JsonpRequests
        BY <1>1, <2>4, <3>2, InstallFacts, SMT DEF JsonpTypeOK, Installed
      <4>2. Loading(globals[n]) /\ jsonp[globals[n]].name = n
        BY <2>1, <2>4, <4>1 DEF Apart
      <4>3. globals[n] # r
        BY <1>5, <4>2
      <4>4. jsonp'[globals[n]] = jsonp[globals[n]]
        BY <4>1, <4>3, InstallFacts, SMT
      <4> QED
        BY <4>1, <4>2, <4>4 DEF Loading
    <3> QED
      BY <3>1, <3>2
  <2>5. \A q \in JsonpRequests : jsonp'[q].responseContainer \subseteq {q} /\ jsonp'[q].result # "wrong"
    BY <2>1, InstallFacts, SMT DEF Apart
  <2> QED
    BY <2>3, <2>4, <2>5 DEF Apart
<1> QED
  BY <1>3, <1>6, <1>7, <1>8 DEF JInv

(* The caller gives the name. *)
LEMMA GivenStep ==
  ASSUME JInv, NEW r \in JsonpRequests, RequestWithName(r)
  PROVE  JInv'
<1>1. /\ Install(r, GivenName)
      /\ crossed' = (crossed \/ \E q \in JsonpRequests : Loading(q) /\ jsonp[q].name = GivenName)
      /\ UNCHANGED <<oldCallbacks, nonce>>
  BY DEF RequestWithName
<1>2. JsonpTypeOK /\ NamesOwned /\ GivenName \in Names
  BY DEF JInv, Names
<1>3. crossed' \in BOOLEAN /\ (crossed => crossed')
  BY <1>1
<1>4. ~crossed' => \A q \in JsonpRequests : Loading(q) => jsonp[q].name # GivenName
  BY <1>1
<1>5. /\ nonce' \in Nat /\ nonce' = nonce
      /\ oldCallbacks' \in Seq(Nat) /\ oldCallbacks' = oldCallbacks /\ IsInjective(oldCallbacks')
  BY <1>1, <1>2 DEF JsonpTypeOK, NamesOwned, NamesNotShared
<1>6. GivenName \notin ToSet(oldCallbacks')
  BY <1>5, JsonpAssumption, SMT DEF ToSet
<1> QED
  BY <1>1, <1>2, <1>3, <1>4, <1>5, <1>6, InstallStep

(* The name the default settings choose is free: it is taken from the list *)
(* of free names, or nobody has used it yet.                               *)
LEMMA ChosenName ==
  ASSUME JInv, NEW r \in JsonpRequests, jsonp[r].phase = "new"
  PROVE  /\ jsonpCallback.name \in MadeUp
         /\ \A q \in JsonpRequests : Loading(q) => jsonp[q].name # jsonpCallback.name
         /\ jsonpCallback.next \in Nat
         /\ jsonpCallback.next = nonce \/ jsonpCallback.next = nonce + 1
         /\ jsonpCallback.name \in 1 .. jsonpCallback.next - 1
         /\ jsonpCallback.rest \in Seq(Nat) /\ IsInjective(jsonpCallback.rest)
         /\ ToSet(jsonpCallback.rest) \subseteq ToSet(oldCallbacks)
         /\ jsonpCallback.name \notin ToSet(jsonpCallback.rest)
<1>1. JsonpTypeOK /\ NamesOwned
  BY DEF JInv
<1>2. nonce \in Nat /\ nonce >= 1 /\ oldCallbacks \in Seq(Nat)
  BY <1>1 DEF JsonpTypeOK
<1>3. nonce <= Cardinality(JsonpRequests) /\ Cardinality(JsonpRequests) \in Nat
  <2>1. IsFiniteSet(JsonpRequests) /\ Begun \in SUBSET JsonpRequests /\ Begun # JsonpRequests
    BY JsonpAssumption DEF Begun
  <2>2. /\ Cardinality(Begun) <= Cardinality(JsonpRequests) /\ Cardinality(Begun) # Cardinality(JsonpRequests)
        /\ IsFiniteSet(Begun)
    BY <2>1, FS_Subset
  <2>3. Cardinality(Begun) \in Nat /\ Cardinality(JsonpRequests) \in Nat
    BY <2>1, <2>2, FS_CardinalityType
  <2> QED
    BY <1>1, <1>2, <2>2, <2>3, SMT DEF NamesOwned
<1>4. CASE oldCallbacks = <<>>
  <2>1. jsonpCallback = [name |-> nonce, rest |-> <<>>, next |-> nonce + 1]
    BY <1>4 DEF jsonpCallback
  <2>2. nonce \in MadeUp /\ nonce \in 1 .. (nonce + 1) - 1
    BY <1>2, <1>3, SMT DEF MadeUp
  <2>3. \A q \in JsonpRequests : Loading(q) => jsonp[q].name # nonce
    <3> SUFFICES ASSUME NEW q \in JsonpRequests, Loading(q), jsonp[q].name = nonce PROVE FALSE
      OBVIOUS
    <3>1. nonce # GivenName
      BY <1>2, JsonpAssumption
    <3>2. nonce \in 1 .. nonce - 1
      BY <1>1, <3>1 DEF NamesOwned
    <3> QED
      BY <1>2, <3>2, SMT
  <2>4. <<>> \in Seq(Nat) /\ IsInjective(<<>>) /\ ToSet(<<>>) = {}
    BY SMT DEF IsInjective, ToSet
  <2> QED
    BY <1>2, <2>1, <2>2, <2>3, <2>4, SMT
<1>5. CASE oldCallbacks # <<>>
  <2> DEFINE l == Len(oldCallbacks)
             rest == SubSeq(oldCallbacks, 1, l - 1)
  <2>1. l \in Nat /\ l >= 1 /\ DOMAIN oldCallbacks = 1 .. l
    BY <1>2, <1>5, SMT
  <2>2. /\ rest \in Seq(Nat) /\ DOMAIN rest = 1 .. l - 1
        /\ \A i \in 1 .. l - 1 : rest[i] = oldCallbacks[i]
    BY <1>2, <2>1, SMT
  <2>3. jsonpCallback = [name |-> oldCallbacks[l], rest |-> rest, next |-> nonce]
    BY <1>5 DEF jsonpCallback, Last, Front
  <2> HIDE DEF l, rest
  <2>4. l \in DOMAIN oldCallbacks /\ oldCallbacks[l] \in 1 .. nonce - 1
    BY <1>1, <2>1, SMT DEF NamesOwned
  <2>5. oldCallbacks[l] \in MadeUp
    BY <1>2, <1>3, <2>4, SMT DEF MadeUp
  <2>6. \A i, j \in DOMAIN oldCallbacks : oldCallbacks[i] = oldCallbacks[j] => i = j
    BY <1>1 DEF NamesOwned, NamesNotShared, IsInjective
  <2>7. \A i \in 1 .. l - 1 : i \in DOMAIN oldCallbacks /\ i # l
    BY <2>1, SMT
  <2>8. IsInjective(rest) /\ ToSet(rest) \subseteq ToSet(oldCallbacks) /\ oldCallbacks[l] \notin ToSet(rest)
    BY <2>2, <2>4, <2>6, <2>7, SMT DEF IsInjective, ToSet
  <2>9. \A q \in JsonpRequests : Loading(q) => jsonp[q].name # oldCallbacks[l]
    BY <1>1, <2>4 DEF NamesOwned, NamesNotShared, ToSet
  <2> QED
    BY <1>2, <2>2, <2>3, <2>4, <2>5, <2>8, <2>9
<1> QED
  BY <1>4, <1>5

LEMMA ChosenStep ==
  ASSUME JInv, NEW r \in JsonpRequests, RequestJsonp(r)
  PROVE  JInv'
<1>1. /\ Install(r, jsonpCallback.name)
      /\ oldCallbacks' = jsonpCallback.rest
      /\ nonce' = jsonpCallback.next
      /\ crossed' = crossed
  BY DEF RequestJsonp
<1>2. jsonp[r].phase = "new" /\ crossed \in BOOLEAN
  BY <1>1 DEF Install, JInv, JsonpTypeOK
<1>3. jsonpCallback.name \in Names
  BY <1>2, ChosenName DEF Names
<1> QED
  BY <1>1, <1>2, <1>3, ChosenName, InstallStep

(* A callback that is called keeps the data and changes nothing else. *)
Received(old, new, q, data) ==
  /\ new \in [JsonpRequests -> Waiting]
  /\ \A p \in JsonpRequests :
       /\ new[p].phase = old[p].phase /\ new[p].name = old[p].name
       /\ new[p].overwritten = old[p].overwritten /\ new[p].result = old[p].result
       /\ new[p].responseContainer = IF p = q THEN {data} ELSE old[p].responseContainer

LEMMA ReceiveFacts ==
  ASSUME NEW table \in [JsonpRequests -> Waiting], NEW q \in Installed, NEW data \in JsonpRequests
  PROVE  Received(table, Receive(table, q, data), q, data)
<1>1. CASE q = NoFunction
  BY <1>1, JsonpAssumption DEF Receive, Received
<1>2. CASE q # NoFunction
  <2>1. q \in JsonpRequests
    BY <1>2 DEF Installed
  <2>2. Receive(table, q, data) = [table EXCEPT ![q] = [table[q] EXCEPT !.responseContainer = {data}]]
    BY <1>2 DEF Receive
  <2>3. table[q] \in Waiting
    BY <2>1
  <2> DEFINE new == [table[q] EXCEPT !.responseContainer = {data}]
  <2>4. /\ new \in Waiting /\ new.phase = table[q].phase /\ new.name = table[q].name
        /\ new.overwritten = table[q].overwritten /\ new.result = table[q].result /\ new.responseContainer = {data}
    BY <2>3 DEF Waiting
  <2> HIDE DEF new
  <2>5. Receive(table, q, data) = [table EXCEPT ![q] = new]
    BY <2>2 DEF new
  <2> QED
    BY <2>1, <2>4, <2>5 DEF Received
<1> QED
  BY <1>1, <1>2

(* The steps that leave the names and who waits under them as they are. *)
LEMMA NamesStay ==
  ASSUME NamesOwned, UNCHANGED <<oldCallbacks, nonce>>,
         \A p \in JsonpRequests : jsonp'[p].phase = jsonp[p].phase /\ jsonp'[p].name = jsonp[p].name
  PROVE  NamesOwned'
<1>1. Begun' = Begun /\ \A p \in JsonpRequests : Loading(p)' <=> Loading(p)
  BY DEF Begun, Loading
<1> QED
  BY <1>1, SMT DEF NamesOwned, NamesNotShared

LEMMA ScriptStep ==
  ASSUME JInv, NEW r \in JsonpRequests, RunScript(r)
  PROVE  JInv'
<1>1. PICK calls \in BOOLEAN :
        /\ scripts[r] \in {"loading", "removed"}
        /\ scripts' = [scripts EXCEPT ![r] = IF scripts[r] = "loading" THEN "run" ELSE "gone"]
        /\ jsonp' = IF calls THEN Receive(jsonp, globals[jsonp[r].name], r) ELSE jsonp
        /\ crossed' = (crossed \/ scripts[r] = "removed")
        /\ UNCHANGED <<globals, oldCallbacks, nonce>>
  BY DEF RunScript
<1>2. JsonpTypeOK /\ NamesOwned
  BY DEF JInv
<1>3. jsonp \in [JsonpRequests -> Waiting] /\ jsonp[r].name \in Names /\ globals[jsonp[r].name] \in Installed
  BY <1>2 DEF JsonpTypeOK, Waiting
<1>4. /\ jsonp' \in [JsonpRequests -> Waiting]
      /\ \A p \in JsonpRequests :
           /\ jsonp'[p].phase = jsonp[p].phase /\ jsonp'[p].name = jsonp[p].name
           /\ jsonp'[p].overwritten = jsonp[p].overwritten /\ jsonp'[p].result = jsonp[p].result
           /\ \/ jsonp'[p].responseContainer = jsonp[p].responseContainer
              \/ p = globals[jsonp[r].name] /\ jsonp'[p].responseContainer = {r}
  <2>1. CASE calls
    <3>1. jsonp' = Receive(jsonp, globals[jsonp[r].name], r)
      BY <1>1, <2>1
    <3>2. Received(jsonp, jsonp', globals[jsonp[r].name], r)
      BY <1>3, <3>1, ReceiveFacts
    <3> QED
      BY <3>2 DEF Received
  <2>2. CASE ~calls
    BY <1>1, <1>3, <2>2
  <2> QED
    BY <2>1, <2>2
<1>5. crossed' \in BOOLEAN /\ (~crossed' => ~crossed /\ scripts[r] = "loading")
  BY <1>1
<1>6. scripts' \in [JsonpRequests -> {"none", "loading", "run", "removed", "gone"}]
  BY <1>1, <1>2 DEF JsonpTypeOK
<1>7. JsonpTypeOK'
  BY <1>1, <1>2, <1>4, <1>5, <1>6 DEF JsonpTypeOK
<1>8. NamesOwned'
  BY <1>1, <1>2, <1>4, NamesStay
<1>9. \A q \in JsonpRequests : Loading(q)' <=> Loading(q)
  BY <1>4 DEF Loading
<1>10. \A q \in JsonpRequests : scripts'[q] = "loading" => Loading(q)'
  BY <1>1, <1>2, <1>9 DEF JInv, JsonpTypeOK
<1>11. ASSUME ~crossed' PROVE Apart'
  <2>1. Apart /\ Loading(r)
    BY <1>5, <1>11 DEF JInv
  <2>2. globals[jsonp[r].name] = r
    BY <2>1 DEF Apart
  <2>3. \A q \in JsonpRequests : jsonp'[q].responseContainer \subseteq {q} /\ jsonp'[q].result # "wrong"
    BY <1>4, <2>1, <2>2, SMT DEF Apart
  <2>4. \A q \in JsonpRequests : Loading(q)' => globals'[jsonp'[q].name] = q /\ jsonp'[q].overwritten = NoFunction
    <3> SUFFICES ASSUME NEW q \in JsonpRequests, Loading(q)'
                 PROVE  globals'[jsonp'[q].name] = q /\ jsonp'[q].overwritten = NoFunction
      OBVIOUS
    <3>1. jsonp'[q].name = jsonp[q].name /\ jsonp'[q].overwritten = jsonp[q].overwritten /\ globals' = globals
      BY <1>1, <1>4
    <3>2. globals[jsonp[q].name] = q /\ jsonp[q].overwritten = NoFunction
      BY <1>9, <2>1 DEF Apart
    <3> QED
      BY <3>1, <3>2
  <2>5. ASSUME NEW n \in Names, globals'[n] # NoFunction
        PROVE  Loading(globals[n])' /\ jsonp'[globals'[n]].name = n
    <3>1. globals'[n] = globals[n] /\ globals[n] \in JsonpRequests
      BY <1>1, <1>2, <2>5 DEF JsonpTypeOK, Installed
    <3>2. Loading(globals[n]) /\ jsonp[globals[n]].name = n
      BY <2>1, <2>5, <3>1 DEF Apart
    <3> QED
      BY <1>4, <3>1, <3>2 DEF Loading
  <2> QED
    BY <2>3, <2>4, <2>5 DEF Apart
<1> QED
  BY <1>7, <1>8, <1>10, <1>11 DEF JInv

(* A request is settled, with a result that is not wrong while nothing     *)
(* crossed: its name is free again.                                        *)
LEMMA SettleStep ==
  ASSUME JInv, NEW r \in JsonpRequests, NEW result \in {"parsererror", "success", "wrong", "abort"},
         NEW script \in {"removed", "gone"}, Settle(r, result, script),
         ~crossed => result # "wrong"
  PROVE  JInv'
<1> DEFINE q == jsonp[r]
           settled == [jsonp EXCEPT ![r] = [phase |-> "done", name |-> q.name, overwritten |-> NoFunction,
                                            responseContainer |-> {}, result |-> result]]
<1>1. /\ Loading(r)
      /\ globals' = [globals EXCEPT ![q.name] = q.overwritten]
      /\ oldCallbacks' = IF q.name = GivenName THEN oldCallbacks ELSE Append(oldCallbacks, q.name)
      /\ jsonp' = IF q.responseContainer = {} THEN settled
                  ELSE Receive(settled, q.overwritten, CHOOSE data \in q.responseContainer : TRUE)
      /\ scripts' = [scripts EXCEPT ![r] = script]
      /\ UNCHANGED <<nonce, crossed>>
  BY DEF Settle, restore
<1>2. JsonpTypeOK /\ NamesOwned
  BY DEF JInv
<1>3. /\ jsonp \in [JsonpRequests -> Waiting]
      /\ q.name \in Names /\ q.overwritten \in Installed /\ q.responseContainer \subseteq JsonpRequests
  BY <1>2 DEF JsonpTypeOK, Waiting
<1>4. /\ settled \in [JsonpRequests -> Waiting]
      /\ settled[r].phase = "done" /\ settled[r].name = q.name /\ settled[r].result = result
      /\ settled[r].responseContainer = {}
      /\ \A p \in JsonpRequests : p # r => settled[p] = jsonp[p]
  BY <1>3 DEF Waiting, Installed
<1>5. /\ jsonp' \in [JsonpRequests -> Waiting]
      /\ \A p \in JsonpRequests :
           /\ jsonp'[p].phase = settled[p].phase /\ jsonp'[p].name = settled[p].name
           /\ jsonp'[p].overwritten = settled[p].overwritten /\ jsonp'[p].result = settled[p].result
      /\ q.overwritten = NoFunction => jsonp' = settled
  <2> HIDE DEF q, settled
  <2>1. CASE q.responseContainer = {}
    <3>1. jsonp' = settled
      BY <1>1, <2>1
    <3> QED
      BY <1>4, <3>1
  <2>2. CASE q.responseContainer # {}
    <3> DEFINE data == CHOOSE data \in q.responseContainer : TRUE
    <3>1. data \in q.responseContainer
      BY <2>2
    <3>2. data \in JsonpRequests
      BY <1>3, <3>1
    <3> HIDE DEF data
    <3>3. jsonp' = Receive(settled, q.overwritten, data)
      BY <1>1, <2>2 DEF data
    <3>4. q.overwritten = NoFunction => jsonp' = settled
      BY <3>3 DEF Receive
    <3>5. Received(settled, jsonp', q.overwritten, data)
      BY <1>3, <1>4, <3>2, <3>3, ReceiveFacts
    <3> QED
      BY <3>4, <3>5 DEF Received
  <2> QED
    BY <2>1, <2>2
<1> HIDE DEF settled
<1>6. \A p \in JsonpRequests : jsonp'[p].name = jsonp[p].name
  BY <1>4, <1>5 DEF q
<1>7. \A p \in JsonpRequests : Loading(p)' <=> (Loading(p) /\ p # r)
  BY <1>4, <1>5 DEF Loading
<1>8. JsonpTypeOK'
  <2>1. globals' \in [Names -> Installed]
    BY <1>1, <1>2, <1>3 DEF JsonpTypeOK
  <2>2. scripts' \in [JsonpRequests -> {"none", "loading", "run", "removed", "gone"}]
    BY <1>1, <1>2 DEF JsonpTypeOK
  <2>3. oldCallbacks' \in Seq(Nat)
    <3>1. q.name # GivenName => q.name \in Nat
      BY <1>1, <1>2, SMT DEF NamesOwned
    <3> QED
      BY <1>1, <1>2, <3>1, SMT DEF JsonpTypeOK
  <2> QED
    BY <1>1, <1>2, <1>5, <2>1, <2>2, <2>3 DEF JsonpTypeOK
<1>9. NamesOwned'
  <2>1. Begun' = Begun
    <3>1. jsonp'[r].phase # "new" /\ jsonp[r].phase # "new"
      BY <1>1, <1>4, <1>5 DEF Loading
    <3>2. \A p \in JsonpRequests : p # r => jsonp'[p].phase = jsonp[p].phase
      BY <1>4, <1>5
    <3> QED
      BY <3>1, <3>2 DEF Begun
  <2>2. nonce' - 1 <= Cardinality(Begun')
    BY <1>1, <1>2, <2>1 DEF NamesOwned
  <2>3. \A p \in JsonpRequests : Loading(p)' /\ jsonp'[p].name # GivenName => jsonp'[p].name \in 1 .. nonce' - 1
    BY <1>1, <1>2, <1>6, <1>7 DEF NamesOwned
  <2>4. \A p, t \in JsonpRequests :
          Loading(p)' /\ Loading(t)' /\ p # t /\ jsonp'[p].name # GivenName => jsonp'[p].name # jsonp'[t].name
    BY <1>2, <1>6, <1>7 DEF NamesOwned, NamesNotShared
  <2>5. CASE q.name = GivenName
    <3>1. oldCallbacks' = oldCallbacks
      BY <1>1, <2>5
    <3>2. NamesNotShared'
      BY <1>2, <1>6, <1>7, <2>4, <3>1 DEF NamesOwned, NamesNotShared
    <3> QED
      BY <1>1, <1>2, <2>2, <2>3, <3>1, <3>2 DEF NamesOwned
  <2>6. CASE q.name # GivenName
    <3> DEFINE l == Len(oldCallbacks)
    <3>1. oldCallbacks' = Append(oldCallbacks, q.name) /\ oldCallbacks \in Seq(Nat)
      BY <1>1, <1>2, <2>6 DEF JsonpTypeOK
    <3>2. q.name \in 1 .. nonce - 1 /\ q.name \in Nat /\ q.name \notin ToSet(oldCallbacks)
      <4>1. q.name \in 1 .. nonce - 1
        BY <1>1, <1>2, <2>6 DEF NamesOwned
      <4>2. q.name \notin ToSet(oldCallbacks)
        BY <1>1, <1>2 DEF NamesOwned, NamesNotShared
      <4> QED
        BY <4>1, <4>2, SMT
    <3> HIDE DEF q
    <3>3. /\ l \in Nat /\ DOMAIN oldCallbacks = 1 .. l /\ DOMAIN oldCallbacks' = 1 .. l + 1
          /\ oldCallbacks'[l + 1] = q.name
          /\ \A i \in 1 .. l : oldCallbacks'[i] = oldCallbacks[i]
      BY <3>1, <3>2, SMT
    <3> HIDE DEF l
    <3>4. \A i \in DOMAIN oldCallbacks' : i = l + 1 \/ (i \in DOMAIN oldCallbacks /\ i \in 1 .. l)
      BY <3>3, SMT
    <3>5. \A i \in DOMAIN oldCallbacks : oldCallbacks[i] # q.name
      BY <3>2 DEF ToSet
    <3>6. IsInjective(oldCallbacks')
      BY <1>2, <3>3, <3>4, <3>5 DEF NamesOwned, NamesNotShared, IsInjective
    <3>7. \A i \in DOMAIN oldCallbacks' : oldCallbacks'[i] \in 1 .. nonce' - 1
      BY <1>1, <1>2, <3>2, <3>3, <3>4 DEF NamesOwned
    <3>8. ASSUME NEW p \in JsonpRequests, Loading(p)' PROVE jsonp'[p].name \notin ToSet(oldCallbacks')
      <4>1. Loading(p) /\ p # r /\ jsonp'[p].name = jsonp[p].name
        BY <1>6, <1>7, <3>8
      <4>2. jsonp[p].name \notin ToSet(oldCallbacks) /\ jsonp[p].name # q.name
        BY <1>1, <1>2, <2>6, <4>1 DEF NamesOwned, NamesNotShared, q
      <4> QED
        BY <3>3, <3>4, <4>1, <4>2 DEF ToSet
    <3>9. NamesNotShared'
      BY <2>4, <3>6, <3>8 DEF NamesNotShared
    <3> QED
      BY <2>2, <2>3, <3>7, <3>9 DEF NamesOwned
  <2> QED
    BY <2>5, <2>6
<1>10. \A p \in JsonpRequests : scripts'[p] = "loading" => Loading(p)'
  <2>1. \A p \in JsonpRequests : scripts'[p] = IF p = r THEN script ELSE scripts[p]
    BY <1>1, <1>2 DEF JsonpTypeOK
  <2> QED
    BY <1>7, <2>1 DEF JInv
<1>11. ASSUME ~crossed' PROVE Apart'
  <2>1. Apart /\ result # "wrong"
    BY <1>1, <1>11 DEF JInv
  <2>2. globals[q.name] = r /\ q.overwritten = NoFunction
    BY <1>1, <2>1 DEF Apart
  <2>3. jsonp' = settled
    BY <1>5, <2>2
  <2>4. globals'[q.name] = NoFunction /\ \A n \in Names : n # q.name => globals'[n] = globals[n]
    BY <1>1, <1>2, <1>3, <2>2 DEF JsonpTypeOK
  <2>5. ASSUME NEW p \in JsonpRequests, Loading(p)'
        PROVE  globals'[jsonp'[p].name] = p /\ jsonp'[p].overwritten = NoFunction
    <3>1. Loading(p) /\ p # r /\ jsonp'[p] = jsonp[p] /\ jsonp[p].name \in Names
      BY <1>3, <1>4, <1>7, <2>3, <2>5 DEF Waiting
    <3>2. globals[jsonp[p].name] = p /\ jsonp[p].overwritten = NoFunction
      BY <2>1, <3>1 DEF Apart
    <3>3. jsonp[p].name # q.name
      BY <2>2, <3>1, <3>2
    <3> QED
      BY <2>4, <3>1, <3>2, <3>3
  <2>6. ASSUME NEW n \in Names, globals'[n] # NoFunction
        PROVE  Loading(globals[n])' /\ jsonp'[globals'[n]].name = n
    <3>1. n # q.name /\ globals'[n] = globals[n] /\ globals[n] \in JsonpRequests
      BY <1>2, <2>4, <2>6 DEF JsonpTypeOK, Installed
    <3>2. Loading(globals[n]) /\ jsonp[globals[n]].name = n
      BY <2>1, <2>6, <3>1 DEF Apart
    <3>3. globals[n] # r
      BY <3>1, <3>2
    <3>4. jsonp'[globals[n]] = jsonp[globals[n]]
      BY <1>4, <2>3, <3>1, <3>3
    <3> QED
      BY <3>1, <3>2, <3>4 DEF Loading
  <2>7. \A p \in JsonpRequests : jsonp'[p].responseContainer \subseteq {p} /\ jsonp'[p].result # "wrong"
    BY <1>4, <2>1, <2>3 DEF Apart
  <2> QED
    BY <2>5, <2>6, <2>7 DEF Apart
<1> QED
  BY <1>8, <1>9, <1>10, <1>11 DEF JInv

LEMMA LoadedStep ==
  ASSUME JInv, NEW r \in JsonpRequests, ScriptLoaded(r)
  PROVE  JInv'
<1>1. PICK outcome \in convert(r) :
        Settle(r, IF outcome = "success" /\ r \notin jsonp[r].responseContainer THEN "wrong" ELSE outcome, "gone")
  BY DEF ScriptLoaded
<1> DEFINE result == IF outcome = "success" /\ r \notin jsonp[r].responseContainer THEN "wrong" ELSE outcome
<1>2. outcome \in {"parsererror", "success"} /\ (outcome = "success" => jsonp[r].responseContainer # {})
  BY DEF convert
<1>3. result \in {"parsererror", "success", "wrong", "abort"}
  BY <1>2
<1>4. ~crossed => result # "wrong"
  BY <1>2, SMT DEF JInv, Apart
<1> HIDE DEF result
<1>5. Settle(r, result, "gone")
  BY <1>1 DEF result
<1> QED
  BY <1>3, <1>4, <1>5, SettleStep

LEMMA AbortStep ==
  ASSUME JInv, NEW r \in JsonpRequests, AbortJsonp(r)
  PROVE  JInv'
BY SettleStep DEF AbortJsonp

(* However JSONP requests overlap, are aborted and are answered late, for  *)
(* any number of them: two that wait never share a name that was made up;  *)
(* and unless a script ran late or requests with a given name overlapped,  *)
(* each succeeds with its own data only, and the globals are as before     *)
(* when all are settled.                                                   *)
THEOREM JsonpApart == JsonpSpec => []AnswersApart
<1>1. JInv /\ [JsonpNext]_jsonpVars => JInv'
  <2> SUFFICES ASSUME JInv, [JsonpNext]_jsonpVars PROVE JInv'
    OBVIOUS
  <2>1. CASE JsonpNext
    <3>1. PICK r \in JsonpRequests :
            RequestWithName(r) \/ RequestJsonp(r) \/ RunScript(r) \/ ScriptLoaded(r) \/ AbortJsonp(r)
      BY <2>1 DEF JsonpNext
    <3> QED
      BY <3>1, GivenStep, ChosenStep, ScriptStep, LoadedStep, AbortStep
  <2>2. CASE UNCHANGED jsonpVars
    <3>1. UNCHANGED <<globals, oldCallbacks, nonce, jsonp, scripts, crossed>>
      BY <2>2 DEF jsonpVars
    <3>2. JsonpTypeOK' /\ (~crossed => Apart)'
      BY <3>1 DEF JInv, JsonpTypeOK, Loading, Apart
    <3>3. NamesOwned'
      BY <3>1 DEF JInv, NamesOwned, NamesNotShared, Begun, Loading
    <3>4. (\A r \in JsonpRequests : scripts[r] = "loading" => Loading(r))'
      BY <3>1 DEF JInv, Loading
    <3> QED
      BY <3>2, <3>3, <3>4 DEF JInv
  <2> QED
    BY <2>1, <2>2
<1>2. JInv => AnswersApart
  <2> SUFFICES ASSUME JInv PROVE AnswersApart
    OBVIOUS
  <2>1. OwnData
    BY DEF JInv, Apart, OwnData
  <2>2. NamesNotShared
    BY DEF JInv, NamesOwned
  <2>3. GlobalsRestored
    <3> SUFFICES ASSUME ~crossed, ~(\E r \in JsonpRequests : Loading(r)), NEW name \in DOMAIN globals
                 PROVE  globals[name] = NoFunction
      BY DEF GlobalsRestored
    <3>1. name \in Names /\ globals[name] \in Installed
      BY DEF JInv, JsonpTypeOK
    <3> QED
      BY <3>1 DEF JInv, Apart, Installed
  <2> QED
    BY <2>1, <2>2, <2>3 DEF AnswersApart
<1> QED
  BY JsonpBegins, <1>1, <1>2, PTL DEF JsonpSpec
==============================================================================
