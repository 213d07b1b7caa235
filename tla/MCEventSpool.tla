---------------------------- MODULE MCEventSpool ----------------------------
(* Small instances of EventSpool.                                          *)
EXTENDS EventSpool

event == [lineage |-> 1, tag |-> "a", key |-> "k", sequence |-> 1]

(* Flow updates that are never superseded.                                 *)
Plain == [e \in 1..MaxEvents |-> [event EXCEPT !.key = NoKey, !.sequence = e]]

(* Samples of one node that arrive out of order, one of them twice.        *)
Samples == [e \in 1..MaxEvents |-> [event EXCEPT !.sequence = <<2, 1, 3, 3>>[e]]]
=============================================================================
