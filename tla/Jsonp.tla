-------------------------------- MODULE Jsonp --------------------------------
(***************************************************************************)
(* JSONP requests: the prefilter that installs a global callback for each, *)
(* the script transport, and the names of callbacks that are used again.   *)
(*                                                                         *)
(* The name of a callback is taken from oldCallbacks or made up, or given  *)
(* by the caller in the options.  The answer is a script that calls the    *)
(* global function of that name; the transport hears that the script was   *)
(* loaded.  Nothing tells it that loading failed.  The browser is          *)
(* external; it may still run the script of a request that was aborted.    *)
(***************************************************************************)
EXTENDS Integers, SequencesExt

CONSTANTS
  JsonpRequests,
  GivenName,    \* the name that callers give
  NoFunction    \* a global that is undefined

ASSUME JsonpAssumption ==
  /\ IsFiniteSet(JsonpRequests)
  /\ NoFunction \notin JsonpRequests
  /\ GivenName \notin Nat

VARIABLES
  globals,        \* for each name the request whose callback is installed, or NoFunction
  oldCallbacks,
  nonce,          \* the next name to make up: a number
  jsonp,          \* for each request its variables
  scripts,        \* for each request its script: none, loading, run (but onload has not come), removed or gone
  crossed         \* whether a script ran late, or two requests with the given name overlapped

jsonpVars == <<globals, oldCallbacks, nonce, jsonp, scripts, crossed>>

MadeUp == 1 .. Cardinality(JsonpRequests)

JsonpInit ==
  /\ globals = [name \in MadeUp \cup {GivenName} |-> NoFunction]
  /\ oldCallbacks = <<>>
  /\ nonce = 1
  /\ jsonp = [r \in JsonpRequests |-> [phase |-> "new", name |-> GivenName, overwritten |-> NoFunction,
                                       responseContainer |-> {}, result |-> "none"]]
  /\ scripts = [r \in JsonpRequests |-> "none"]
  /\ crossed = FALSE

Loading(r) == jsonp[r].phase = "loading"

(* Variant: the name stays in the list. *)
jsonpCallbackPeeks ==
  IF oldCallbacks # <<>> THEN [name |-> Last(oldCallbacks), rest |-> oldCallbacks, next |-> nonce]
  ELSE [name |-> nonce, rest |-> <<>>, next |-> nonce + 1]

(* jsonpCallback of the default settings *)
jsonpCallback ==
  IF oldCallbacks # <<>> THEN [name |-> Last(oldCallbacks), rest |-> Front(oldCallbacks), next |-> nonce]
  ELSE [name |-> nonce, rest |-> <<>>, next |-> nonce + 1]

(* The prefilter, and the transport that inserts the script. *)
Install(r, name) ==
  /\ jsonp[r].phase = "new"
  /\ jsonp' = [jsonp EXCEPT ![r] = [phase |-> "loading", name |-> name, overwritten |-> globals[name],
                                    responseContainer |-> {}, result |-> "none"]]
  /\ globals' = [globals EXCEPT ![name] = r]
  /\ scripts' = [scripts EXCEPT ![r] = "loading"]

RequestWithName(r) ==
  /\ Install(r, GivenName)
  /\ crossed' = (crossed \/ \E q \in JsonpRequests : Loading(q) /\ jsonp[q].name = GivenName)
  /\ UNCHANGED <<oldCallbacks, nonce>>

RequestJsonp(r) ==
  /\ Install(r, jsonpCallback.name)
  /\ oldCallbacks' = jsonpCallback.rest
  /\ nonce' = jsonpCallback.next
  /\ UNCHANGED crossed

(* The function of a request that was called with the data of another.     *)
(* A request that is settled does not look at it any more.                 *)
Receive(table, q, data) == IF q = NoFunction THEN table ELSE [table EXCEPT ![q].responseContainer = {data}]

(* The script of a request runs: it calls the global of its name, which    *)
(* throws when that is undefined, or it does not call it.                  *)
RunScript(r) ==
  \E calls \in BOOLEAN :
    /\ scripts[r] \in {"loading", "removed"}
    /\ scripts' = [scripts EXCEPT ![r] = IF @ = "loading" THEN "run" ELSE "gone"]
    /\ jsonp' = IF calls THEN Receive(jsonp, globals[jsonp[r].name], r) ELSE jsonp
    /\ crossed' = (crossed \/ scripts[r] = "removed")
    /\ UNCHANGED <<globals, oldCallbacks, nonce>>

restore(r) == [globals EXCEPT ![jsonp[r].name] = jsonp[r].overwritten]

(* The request is settled, and the function added with always cleans up:   *)
(* it restores the global, frees a name that was made up, and hands the    *)
(* response to a function that was overwritten.                            *)
Settle(r, result, script) ==
  LET q == jsonp[r]
      settled == [jsonp EXCEPT ![r] = [phase |-> "done", name |-> q.name, overwritten |-> NoFunction,
                                       responseContainer |-> {}, result |-> result]]
  IN /\ Loading(r)
     /\ globals' = restore(r)
     /\ oldCallbacks' = IF q.name = GivenName THEN oldCallbacks ELSE Append(oldCallbacks, q.name)
     /\ jsonp' = IF q.responseContainer = {} THEN settled
                 ELSE Receive(settled, q.overwritten, CHOOSE data \in q.responseContainer : TRUE)
     /\ scripts' = [scripts EXCEPT ![r] = script]
     /\ UNCHANGED <<nonce, crossed>>

(* The converter "script json" *)
convert(r) == IF jsonp[r].responseContainer = {} THEN {"parsererror"} ELSE {"success"}

(* onload of the script; the data of a success are those in responseContainer. *)
ScriptLoaded(r) ==
  /\ scripts[r] = "run"
  /\ \E outcome \in convert(r) :
       Settle(r, IF outcome = "success" /\ r \notin jsonp[r].responseContainer THEN "wrong" ELSE outcome, "gone")

(* abort, or the timeout: the script is removed. *)
AbortJsonp(r) ==
  \/ scripts[r] = "loading" /\ Settle(r, "abort", "removed")
  \/ scripts[r] = "run" /\ Settle(r, "abort", "gone")

JsonpNext ==
  \E r \in JsonpRequests : RequestWithName(r) \/ RequestJsonp(r) \/ RunScript(r) \/ ScriptLoaded(r) \/ AbortJsonp(r)

JsonpSpec == JsonpInit /\ [][JsonpNext]_jsonpVars

(***************************************************************************)
(* Properties                                                              *)
(***************************************************************************)

(* A request succeeds with the data of its own script, unless the script   *)
(* of an aborted request ran late (its name may be in use again) or two    *)
(* requests with the same given name overlapped.                           *)
OwnData == ~crossed => \A r \in JsonpRequests : jsonp[r].result # "wrong"

(* A made-up name is free or used by one request that waits, never both,   *)
(* whatever is aborted or comes late: so two requests that wait never      *)
(* share one.                                                              *)
NamesNotShared ==
  /\ IsInjective(oldCallbacks)
  /\ \A q, r \in JsonpRequests :
       Loading(q) /\ Loading(r) /\ q # r /\ jsonp[q].name # GivenName => jsonp[q].name # jsonp[r].name
  /\ \A q \in JsonpRequests : Loading(q) => jsonp[q].name \notin ToSet(oldCallbacks)

(* When no request waits the globals are as they were before, unless       *)
(* requests with the given name overlapped or a script ran late.           *)
GlobalsRestored ==
  ~crossed /\ ~(\E r \in JsonpRequests : Loading(r)) => \A name \in DOMAIN globals : globals[name] = NoFunction

(* The answers of JSONP requests are kept apart by the names of their      *)
(* callbacks, and the globals are as before when all are answered.         *)
AnswersApart ==
  /\ OwnData
  /\ NamesNotShared
  /\ GlobalsRestored
=============================================================================
