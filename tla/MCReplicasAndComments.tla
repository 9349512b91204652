------------------------ MODULE MCReplicasAndComments ------------------------
(***************************************************************************)
(* Two replicas of the server with one request thread each, in front of    *)
(* the same Cassandra node (the Kubernetes deployment).  The first was     *)
(* given a properties file with an address, the second one without, and    *)
(* its command line names an address that does not resolve.                *)
(*                                                                         *)
(* In the same run, apart from them, the comments of a documentation page: *)
(* the popup with its list, and one comment with its vote, links and reply *)
(* form.  A behaviour is one of the part that the initial state chooses.   *)
(***************************************************************************)
EXTENDS RestaurantServer, CommentList, CommentWidgets

CONSTANTS s1, s2, t1, t2, h1, l1, p1, c1, c2

VARIABLE part

ThreadPerServer == [t \in Threads |-> IF t = t1 THEN s1 ELSE s2]

CommandLines ==
  [s \in Servers |-> [ip |-> IF s = s1 THEN h1 ELSE BadIp, port |-> Unset, login |-> l1]]

Files ==
  [s \in Servers |-> [kind |-> IF s = s1 THEN "complete" ELSE "incomplete",
                      ip |-> h1, port |-> p1]]

Bodies12 == {[ip |-> ip, port |-> p1, login |-> l1] : ip \in {h1, BadIp}}

Open == {<<h1, l1>>}

(* Ratings sort the comments down, ages up; the two orders differ. *)
SortKeys == [rating |-> (c1 :> 0 @@ c2 :> -1), age |-> (c1 :> 1 @@ c2 :> 2)]

(* The parts that are not chosen have one initial state. *)
PartInit ==
  /\ part \in {"replicas", "list", "widgets"}
  /\ Init
  /\ CommentListInit /\ (part # "list" => by = "rating")
  /\ CommentWidgetsInit /\ (part # "widgets" => moderator /\ comment.vote = 0)

(* Nobody has to click, so that only the server may not come to a halt. *)
PartNext ==
  /\ UNCHANGED part
  /\ \/ part = "replicas" /\ Next /\ UNCHANGED <<commentVars, widgetVars>>
     \/ part = "list" /\ CommentListNext /\ UNCHANGED <<vars, widgetVars>>
     \/ part = "widgets" /\ CommentWidgetsNext /\ UNCHANGED <<vars, commentVars>>
     \/ part # "replicas" /\ UNCHANGED <<vars, commentVars, widgetVars>>

PartSpec == PartInit /\ [][PartNext]_<<part, vars, commentVars, widgetVars>>
==============================================================================
