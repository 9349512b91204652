---------------------------- MODULE FunctionCalls ----------------------------
(***************************************************************************)
(* One call of a pure function: the frame the functions of the             *)
(* documentation scripts that keep no state are checked in.  A behaviour   *)
(* is one call with one choice of arguments.                               *)
(***************************************************************************)

VARIABLE call   \* the function called and its arguments

Idle == [fn |-> "none"]

Call(c) == call = Idle /\ call' = c
=============================================================================
