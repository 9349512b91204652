---------------------------- MODULE MCAlgorithms ----------------------------
(* The functions that keep no state, one call at a time. *)
EXTENDS DocTools, Selectors, AjaxData, HexEncoding

(* The bytes at the edges: sign, zero, one and two digits. *)
EdgeBytes == {-128, -127, -16, -1, 0, 1, 9, 10, 15, 16, 127}

Init == call = Idle

Next == call = Idle /\ (UnderscoreNext \/ SearchNext \/ DocToolsNext \/ SelectorCalls \/ AjaxDataCalls \/ HexCalls)

Spec == Init /\ [][Next]_call
=============================================================================
