------------------------------- MODULE MCPages -------------------------------
(* The pages of the documentation, and the parts of jQuery that wait for   *)
(* the browser: the ready event, requests and animations.  A behaviour is  *)
(* one of the part that Init chooses.                                      *)
EXTENDS SearchPage, DocPage, Ready, Ajax, FxQueue

VARIABLE part

SomeResults == [descr : BOOLEAN, score : {5, 15}, title : {1, 2}]

(* A request that may be cancelled, one with a timeout, one that is not    *)
(* asynchronous, and one without global events.                            *)
SomeOptions ==
  {[global |-> TRUE, async |-> TRUE, timeout |-> FALSE, beforeSend |-> TRUE],
   [global |-> TRUE, async |-> TRUE, timeout |-> TRUE, beforeSend |-> FALSE],
   [global |-> TRUE, async |-> FALSE, timeout |-> FALSE, beforeSend |-> FALSE],
   [global |-> FALSE, async |-> TRUE, timeout |-> TRUE, beforeSend |-> TRUE]}

(* The parts that are not chosen have one initial state. *)
Init ==
  /\ part \in {"search", "page", "ready", "ajax", "fx"}
  /\ SearchPageInit /\ (part # "search" => HAS_SOURCE)
  /\ DocPageInit /\ (part # "page" => options.highlight /\ options.COLLAPSE_INDEX /\ winHeight = NavHeight)
  /\ ReadyInit /\ (part # "ready" => dom.api = "addEventListener" /\ dom.frame)
  /\ AjaxInit /\ (part # "ajax" => \A r \in Requests : ~reqs[r].options.async)
  /\ FxInit

Next ==
  /\ UNCHANGED part
  /\ \/ part = "search" /\ SearchPageNext /\ UNCHANGED <<docVars, readyVars, ajaxVars, fxVars>>
     \/ part = "page" /\ DocPageNext /\ UNCHANGED <<searchVars, readyVars, ajaxVars, fxVars>>
     \/ part = "ready" /\ ReadyNext /\ UNCHANGED <<searchVars, docVars, ajaxVars, fxVars>>
     \/ part = "ajax" /\ AjaxNext /\ UNCHANGED <<searchVars, docVars, readyVars, fxVars>>
     \/ part = "fx" /\ FxNext /\ UNCHANGED <<searchVars, docVars, readyVars, ajaxVars>>

vars == <<part, searchVars, docVars, readyVars, ajaxVars, fxVars>>

(* The fairness of every part.  Of the parts that are not chosen only the  *)
(* browser, which loads the document of the ready event, could take a step.*)
Spec ==
  /\ Init /\ [][Next]_vars
  /\ SearchPageFairness /\ WF_docVars(MarkWords) /\ AjaxFairness /\ FxFairness
  /\ ReadyFairness /\ WF_readyVars(part = "ready" /\ Browser)
==============================================================================
