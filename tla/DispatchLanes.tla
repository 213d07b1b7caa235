---------------------------- MODULE DispatchLanes ----------------------------
(***************************************************************************)
(* Weighted dispatch between lanes: the persisted virtual clock with which *)
(* the claim transaction of the job ledger chooses the lane to serve next  *)
(* (jobstore/store.go, selectDispatchLane and the two writes Claim makes   *)
(* with its result).                                                       *)
(*                                                                         *)
(* virtualTime is job_execution_budget.dispatch_virtual_time; laneFinish   *)
(* is the table job_dispatch_lanes, in which a lane without a row counts   *)
(* as 0.  The code keeps both as uint64: 2^64 / 1024 dispatches are out of *)
(* a deployment's reach, so they are natural numbers here.                 *)
(***************************************************************************)
EXTENDS Integers

CONSTANTS
    Lanes,        \* names of the dispatch lanes
    GroupLanes    \* the lanes "group:<execution group>"

ASSUME LanesAssumption == GroupLanes \subseteq Lanes

VARIABLES
    virtualTime,  \* start tag of the last dispatch
    laneFinish    \* finish tag of each lane's last dispatch

laneVars == <<virtualTime, laneFinish>>

CoreLane == "core"

dispatchWeight(l) ==
    IF l = CoreLane THEN 4 ELSE IF l \in GroupLanes THEN 2 ELSE 1

(* The virtual length of one dispatch: 1024 / weight, rounded up.          *)
Quantum(l) == (1024 + dispatchWeight(l) - 1) \div dispatchWeight(l)

(* Mutant: an idle lane banks its idle time.                               *)
EffectiveUnclamped(l) == laneFinish[l]

(* The virtual start time that a dispatch of lane l would get now.  An     *)
(* idle lane does not bank the time it was idle.                           *)
Effective(l) == IF laneFinish[l] > virtualTime THEN laneFinish[l] ELSE virtualTime

(* Lane l sorts first among the eligible lanes: least start, then the      *)
(* oldest head.  Lane names break the remaining ties; the name order is    *)
(* left open, so every lane that ties is allowed.                          *)
FirstLane(l, eligible, oldest(_)) ==
    /\ l \in eligible
    /\ \A m \in eligible :
          \/ Effective(l) < Effective(m)
          \/ Effective(l) = Effective(m) /\ oldest(l) <= oldest(m)

(* Mutant: the lane's own tag is not written back.                         *)
ChargeClockOnly(l) ==
    /\ virtualTime' = Effective(l)
    /\ UNCHANGED laneFinish

(* What Claim persists once lane l has been selected.                      *)
ChargeLane(l) ==
    /\ laneFinish' = [laneFinish EXCEPT ![l] = Effective(l) + Quantum(l)]
    /\ virtualTime' = Effective(l)

LaneInit ==
    /\ virtualTime = 0
    /\ laneFinish = [l \in Lanes |-> 0]

LaneTypeOK ==
    /\ virtualTime \in Nat
    /\ laneFinish \in [Lanes -> Nat]

=============================================================================
