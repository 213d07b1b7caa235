------------------------ MODULE DispatchFairnessProofs ------------------------
(***************************************************************************)
(* Proofs about the lane scheduler, for any set of lanes.                  *)
(***************************************************************************)
EXTENDS DispatchFairness, TLAPS

(* While l waits, the virtual clock either has not yet reached the start   *)
(* tag of l, or it stands still at it; in the second case every lane that  *)
(* passed l did so once and has moved its own tag beyond the clock.        *)
WaitingInv ==
    \A l, m \in Lanes : waited[l][m] > 0 =>
        /\ laneFinish[m] >= laneFinish[l] - Quantum(l) + waited[l][m] * Quantum(m)
        /\ \/ virtualTime <= laneFinish[l]
           \/ waited[l][m] = 1 /\ laneFinish[m] > virtualTime

IInv == TypeOK /\ BoundedLead /\ WaitingInv

(* The quanta of the three weights.                                        *)
LEMMA QuantumValues ==
    ASSUME NEW l \in Lanes
    PROVE  Quantum(l) \in {256, 512, 1024}
BY DEF Quantum, dispatchWeight

LEMMA InitInductive == Init => IInv
<1> SUFFICES ASSUME Init PROVE IInv
  OBVIOUS
<1>1. TypeOK
  BY DEF Init, LaneInit, TypeOK, LaneTypeOK
<1>2. BoundedLead
  <2> SUFFICES ASSUME NEW l \in Lanes
               PROVE  laneFinish[l] <= virtualTime + Quantum(l)
    BY DEF BoundedLead
  <2>1. laneFinish[l] = 0 /\ virtualTime = 0
    BY DEF Init, LaneInit
  <2> QED
    BY <2>1, QuantumValues
<1>3. WaitingInv
  BY DEF Init, WaitingInv
<1> QED
  BY <1>1, <1>2, <1>3 DEF IInv

LEMMA NextInductive == IInv /\ [Next]_vars => IInv'
<1> SUFFICES ASSUME IInv, [Next]_vars PROVE IInv'
  OBVIOUS
<1>1. CASE UNCHANGED vars
  <2>1. TypeOK'
    BY <1>1 DEF IInv, TypeOK, LaneTypeOK, vars
  <2>2. BoundedLead'
    BY <1>1 DEF IInv, BoundedLead, Quantum, dispatchWeight, vars
  <2>3. WaitingInv'
    BY <1>1 DEF IInv, WaitingInv, Quantum, dispatchWeight, vars
  <2> QED
    BY <2>1, <2>2, <2>3 DEF IInv
<1>2. ASSUME NEW eligible \in SUBSET Lanes, NEW oldest \in [Lanes -> {0, 1}],
             NEW s \in Lanes, Dispatch(s, eligible, oldest)
      PROVE  IInv'
  <2> DEFINE start == Effective(s)
  <2>1. /\ laneFinish \in [Lanes -> Nat] /\ virtualTime \in Nat
        /\ waited \in [Lanes -> [Lanes -> Nat]]
    BY DEF IInv, TypeOK, LaneTypeOK
  <2>2. /\ start \in Nat
        /\ start >= virtualTime
        /\ start >= laneFinish[s]
        /\ start = virtualTime \/ start = laneFinish[s]
    BY <2>1 DEF Effective
  <2>3. /\ virtualTime' = start
        /\ laneFinish' = [laneFinish EXCEPT ![s] = start + Quantum(s)]
    BY <1>2 DEF Dispatch, ChargeLane
  <2>4. \A m \in eligible : start <= Effective(m)
    BY <1>2, <2>1, <2>2 DEF Dispatch, FirstLane, Effective
  <2>5. \A m \in Lanes, k \in Lanes :
           waited'[m][k] = IF m \in eligible \ {s}
                           THEN IF k = s THEN waited[m][k] + 1 ELSE waited[m][k]
                           ELSE 0
    BY <1>2, <2>1 DEF Dispatch
  <2>6. TypeOK'
    <3>1. laneFinish' \in [Lanes -> Nat] /\ virtualTime' \in Nat
      BY <2>1, <2>2, <2>3, QuantumValues
    <3>2. waited' \in [Lanes -> [Lanes -> Nat]]
      BY <1>2, <2>1 DEF Dispatch
    <3> QED
      BY <3>1, <3>2 DEF TypeOK, LaneTypeOK
  <2>7. BoundedLead'
    <3> SUFFICES ASSUME NEW l \in Lanes
                 PROVE  laneFinish'[l] <= virtualTime' + Quantum(l)
      BY DEF BoundedLead, Quantum, dispatchWeight
    <3> laneFinish[l] <= virtualTime + Quantum(l)
      BY DEF IInv, BoundedLead
    <3> QED
      BY <2>1, <2>2, <2>3, QuantumValues
  <2>8. WaitingInv'
    <3> SUFFICES ASSUME NEW l \in Lanes, NEW m \in Lanes, waited'[l][m] > 0
                 PROVE  /\ laneFinish'[m] >= laneFinish'[l] - Quantum(l) + waited'[l][m] * Quantum(m)
                        /\ \/ virtualTime' <= laneFinish'[l]
                           \/ waited'[l][m] = 1 /\ laneFinish'[m] > virtualTime'
      BY DEF WaitingInv, Quantum, dispatchWeight
    <3>1. /\ l \in eligible /\ l # s
          /\ laneFinish'[l] = laneFinish[l]
          /\ start <= Effective(l)
      BY <2>1, <2>3, <2>4, <2>5
    <3>2. /\ waited[l][m] \in Nat
          /\ laneFinish[l] \in Nat /\ laneFinish[m] \in Nat
          /\ laneFinish[l] <= virtualTime + Quantum(l)
          /\ Quantum(m) \in {256, 512, 1024} /\ Quantum(l) \in {256, 512, 1024}
      BY <2>1, QuantumValues DEF IInv, BoundedLead
    <3>3. waited[l][m] > 0 =>
             /\ laneFinish[m] >= laneFinish[l] - Quantum(l) + waited[l][m] * Quantum(m)
             /\ \/ virtualTime <= laneFinish[l]
                \/ waited[l][m] = 1 /\ laneFinish[m] > virtualTime
      BY DEF IInv, WaitingInv
    <3>4. CASE m = s
      <4>1. /\ waited'[l][m] = waited[l][m] + 1
            /\ laneFinish'[m] = start + Quantum(m)
        BY <3>1, <3>4, <2>1, <2>3, <2>5
      <4>2. (waited[l][m] + 1) * Quantum(m) = waited[l][m] * Quantum(m) + Quantum(m)
        BY <3>2
      <4>3. CASE waited[l][m] = 0
        BY <4>1, <4>3, <2>1, <2>2, <2>3, <3>1, <3>2 DEF Effective
      <4>4. CASE waited[l][m] > 0
        <5> DEFINE done == waited[l][m] * Quantum(m)
        <5>1. done \in Int
          BY <3>2
        <5>2. virtualTime <= laneFinish[l]
          BY <3>1, <3>2, <3>3, <3>4, <4>4, <2>1, <2>2 DEF Effective
        <5>3. start <= laneFinish[l]
          BY <5>2, <3>1, <3>2, <2>1 DEF Effective
        <5>4. laneFinish[m] >= laneFinish[l] - Quantum(l) + done
          BY <3>3, <4>4
        <5>5. laneFinish'[m] >= laneFinish[l] - Quantum(l) + (done + Quantum(m))
          <6> HIDE DEF done, start
          <6> QED BY <5>1, <5>4, <4>1, <3>4, <3>2, <2>2, <2>1
        <5> HIDE DEF done, start
        <5> QED
          BY <5>3, <5>5, <4>1, <4>2, <3>1, <2>3 DEF done
      <4> QED
        BY <4>3, <4>4, <3>2
    <3>5. CASE m # s
      <4>1. waited'[l][m] = waited[l][m] /\ laneFinish'[m] = laneFinish[m]
        BY <3>1, <3>5, <2>1, <2>3, <2>5
      <4>2. start <= laneFinish[l] \/ start = virtualTime
        BY <3>1, <3>2, <2>1, <2>2 DEF Effective
      <4> HIDE DEF start
      <4> QED
        BY <4>1, <4>2, <3>1, <3>2, <3>3, <2>1, <2>2, <2>3
    <3> QED
      BY <3>4, <3>5
  <2> QED
    BY <2>6, <2>7, <2>8 DEF IInv
<1> QED
  BY <1>1, <1>2 DEF Next

LEMMA WaitingImpliesBypass == IInv => BoundedBypass
<1> SUFFICES ASSUME IInv, NEW l \in Lanes, NEW m \in Lanes
             PROVE  waited[l][m] * Quantum(m) <= Quantum(l) + Quantum(m)
  BY DEF BoundedBypass
<1>1. /\ waited[l][m] \in Nat /\ laneFinish[l] \in Nat /\ laneFinish[m] \in Nat
      /\ virtualTime \in Nat
      /\ laneFinish[m] <= virtualTime + Quantum(m)
      /\ Quantum(m) \in {256, 512, 1024} /\ Quantum(l) \in {256, 512, 1024}
  BY QuantumValues DEF IInv, TypeOK, LaneTypeOK, BoundedLead
<1>2. waited[l][m] > 0 =>
         /\ laneFinish[m] >= laneFinish[l] - Quantum(l) + waited[l][m] * Quantum(m)
         /\ \/ virtualTime <= laneFinish[l]
            \/ waited[l][m] = 1 /\ laneFinish[m] > virtualTime
  BY DEF IInv, WaitingInv
<1> DEFINE done == waited[l][m] * Quantum(m)
<1>3. done \in Int
  BY <1>1
<1>4. CASE waited[l][m] = 0
  BY <1>1, <1>4
<1>5. CASE waited[l][m] = 1
  BY <1>1, <1>5
<1>6. CASE waited[l][m] > 1
  <2>1. virtualTime <= laneFinish[l] /\ laneFinish[m] >= laneFinish[l] - Quantum(l) + done
    BY <1>1, <1>2, <1>6
  <2> HIDE DEF done
  <2>2. done <= Quantum(l) + Quantum(m)
    BY <2>1, <1>1, <1>3
  <2> QED
    BY <2>2 DEF done
<1> QED
  BY <1>1, <1>4, <1>5, <1>6

(* Type correctness of the lane scheduler.                                 *)
THEOREM LaneTypeCorrect == Spec => []TypeOK
<1>1. IInv => TypeOK
  BY DEF IInv
<1> QED
  BY <1>1, InitInductive, NextInductive, PTL DEF Spec

(* No lane is ever more than one of its own quanta ahead of the virtual    *)
(* clock, whatever becomes eligible and when.                              *)
THEOREM LaneLeadBounded == Spec => []BoundedLead
<1>1. IInv => BoundedLead
  BY DEF IInv
<1> QED
  BY <1>1, InitInductive, NextInductive, PTL DEF Spec

(* Freedom from starvation with an explicit bound: a lane that stays       *)
(* eligible is passed by lane m at most 1 + Quantum(l) / Quantum(m) times. *)
THEOREM LaneBypassBounded == Spec => []BoundedBypass
BY InitInductive, NextInductive, WaitingImpliesBypass, PTL DEF Spec
=============================================================================
