--------------------------- MODULE DispatchFairness ---------------------------
(***************************************************************************)
(* The lane scheduler on its own, driven by an arbitrary environment: at   *)
(* every dispatch any non-empty set of lanes may have an eligible run, and *)
(* any of them may hold the oldest one.  The history variable waited       *)
(* counts, for lane l, how often every other lane was served since l       *)
(* became eligible without being served.                                   *)
(***************************************************************************)
EXTENDS DispatchLanes

VARIABLE waited

vars == <<virtualTime, laneFinish, waited>>

(* The claim that serves lane l.  A lane that is not eligible at this      *)
(* dispatch has stopped waiting.                                           *)
Dispatch(l, eligible, oldest) ==
    /\ FirstLane(l, eligible, LAMBDA m : oldest[m])
    /\ ChargeLane(l)
    /\ waited' = [m \in Lanes |->
                    IF m \in eligible \ {l}
                    THEN [waited[m] EXCEPT ![l] = @ + 1]
                    ELSE [k \in Lanes |-> 0]]

Init ==
    /\ LaneInit
    /\ waited = [l \in Lanes |-> [m \in Lanes |-> 0]]

Next ==
    \E eligible \in SUBSET Lanes, oldest \in [Lanes -> {0, 1}], l \in Lanes :
        Dispatch(l, eligible, oldest)

Spec == Init /\ [][Next]_vars

-----------------------------------------------------------------------------
TypeOK ==
    /\ LaneTypeOK
    /\ waited \in [Lanes -> [Lanes -> Nat]]

(* No lane runs ahead of the virtual clock by more than one quantum of its *)
(* own, so a lane that comes back after serving a burst waits for at most  *)
(* one quantum (store.go:349, :362, :301-304).                             *)
BoundedLead == \A l \in Lanes : laneFinish[l] <= virtualTime + Quantum(l)

(* No starvation: while lane l stays eligible, another lane m is served at *)
(* most 1 + Quantum(l) / Quantum(m) times before l is.  A plugin lane can  *)
(* be passed at most five times by the core lane, and the core lane at     *)
(* most once by each plugin lane (store.go:242-244 and :330-363).          *)
BoundedBypass ==
    \A l, m \in Lanes : waited[l][m] * Quantum(m) <= Quantum(l) + Quantum(m)
=============================================================================
