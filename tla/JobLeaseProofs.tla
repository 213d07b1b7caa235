--------------------------- MODULE JobLeaseProofs ---------------------------
(***************************************************************************)
(* The guarantees of a lease, proved for every ledger: exclusive use of a  *)
(* resource, exclusive maintenance, the budget, agreement of run and       *)
(* attempt rows, the completion fence and the attempt budget.              *)
(***************************************************************************)
EXTENDS JobLedgerProofs

-----------------------------------------------------------------------------
(* What a step may do to a lease                                           *)

(* Run r is leased after the step only if it was leased before it, by the  *)
(* same worker, under the same token and until the same time.              *)
LeaseKept(r) ==
    runs'[r].state \in Leased =>
       /\ runs[r].state \in Leased
       /\ runs'[r].job = runs[r].job
       /\ runs'[r].token = runs[r].token
       /\ runs'[r].worker = runs[r].worker
       /\ runs'[r].attempts = runs[r].attempts
       /\ runs'[r].expiresAt = runs[r].expiresAt

LEMMA QueuedRunState ==
    ASSUME NEW in, NEW s, NEW p
    PROVE  /\ QueuedRun(in, s, p).state = "queued"
           /\ QueuedRun(in, s, p).attempts = 0
           /\ QueuedRun(in, s, p).token = 0
           /\ QueuedRun(in, s, p).job = in
BY DEF QueuedRun, NoRun

LEMMA ExpiredRow ==
    ASSUME NEW r \in RunIds, ExpiredRuns[r].state \in Leased
    PROVE  ExpiredRuns[r] = runs[r] /\ ~ (runs[r].expiresAt <= clock)
<1>1. CASE runs[r].state \in Leased /\ runs[r].expiresAt <= clock
  <2>1. ExpiredRuns[r] = [runs[r] EXCEPT !.state = "unknown", !.finishedAt = clock]
    BY <1>1 DEF ExpiredRuns
  <2> QED
    BY <2>1 DEF Leased
<1>2. CASE ~ (runs[r].state \in Leased /\ runs[r].expiresAt <= clock)
  BY <1>2 DEF ExpiredRuns
<1> QED
  BY <1>1, <1>2

LEMMA ReconciledRow ==
    ASSUME TypeOK, NEW d \in Definitions, NEW r \in RunIds
    PROVE  \/ ReconciledRuns(d)[r] = runs[r]
           \/ /\ runs[r].state = "unknown"
              /\ ReconciledRuns(d)[r] = [runs[r] EXCEPT !.state = "interrupted"]
<1>1. runs \in [RunIds -> RunRows]
  BY DEF TypeOK
<1> QED
  BY <1>1 DEF ReconciledRuns, RunRows

LEMMA ReconciledLease ==
    ASSUME TypeOK, NEW d \in Definitions, NEW r \in RunIds,
           ReconciledRuns(d)[r].state \in Leased
    PROVE  ReconciledRuns(d)[r] = runs[r]
<1>1. runs[r] \in RunRows
  BY DEF TypeOK
<1>2. [runs[r] EXCEPT !.state = "interrupted"].state = "interrupted"
  BY <1>1 DEF RunRows
<1> QED
  BY <1>2, ReconciledRow DEF Leased

LEMMA ScheduleKeepsLeases ==
    ASSUME TypeOK, NEW d \in Definitions, Schedule(d), NEW r \in RunIds
    PROVE  LeaseKept(r)
<1>1. \/ runs'[r] = ReconciledRuns(d)[r]
      \/ \E in, s, p : runs'[r] = QueuedRun(in, s, p)
  BY ScheduleTypes DEF Schedule, ScheduleIdle, ScheduleSkip, ScheduleReuse,
                       ScheduleInsert, ScheduleRebind
<1> QED
  BY <1>1, ReconciledLease, QueuedRunState DEF LeaseKept, Leased

LEMMA FinishedRow ==
    ASSUME TypeOK, NEW t \in Tokens, NEW outcome \in Outcomes, Finish(t, outcome)
    PROVE  LET r == claims[t].run
               state == RecordedOutcome(runs[r], outcome)
           IN  /\ r \in RunIds
               /\ runs[r].token = t
               /\ runs[r].state \in Leased
               /\ runs'[r].state = state
               /\ state \notin Leased
               /\ runs'[r].job = runs[r].job
               /\ runs'[r].attempts = runs[r].attempts
               /\ runs'[r].token \in {0, t}
               /\ \A x \in RunIds \ {r} : runs'[x] = runs[x]
<1> DEFINE r == claims[t].run
           state == RecordedOutcome(runs[r], outcome)
<1>1. r \in RunIds /\ runs[r].token = t /\ runs[r].state \in Leased
  BY DEF Finish, HoldsLease
<1>2. runs \in [RunIds -> RunRows]
  BY DEF TypeOK
<1>3. state \notin Leased
  <2>1. state \in Outcomes
    BY <1>1, <1>2, RecordedOutcomeType
  <2> QED
    BY <2>1 DEF Outcomes, Leased
<1>4. /\ runs'[r].state = state /\ runs'[r].job = runs[r].job
      /\ runs'[r].attempts = runs[r].attempts
      /\ runs'[r].token \in {0, t}
      /\ \A x \in RunIds \ {r} : runs'[x] = runs[x]
  BY <1>1, <1>2 DEF Finish, RunRows
<1> QED
  BY <1>1, <1>3, <1>4

LEMMA CanceledRow ==
    ASSUME TypeOK, NEW rs \in SUBSET RunIds, CancelRuns(rs), NEW r \in RunIds
    PROVE  /\ LeaseKept(r)
           /\ runs'[r].job = runs[r].job /\ runs'[r].attempts = runs[r].attempts
           /\ runs'[r].token = runs[r].token
           /\ r \notin rs => runs'[r] = runs[r]
           /\ r \in rs /\ runs[r].state \in Leased => runs'[r].state = "cancel_requested"
           /\ r \in rs /\ runs[r].state \notin Leased => runs'[r].state = "canceled"
<1>1. runs[r] \in RunRows
  BY DEF TypeOK
<1>2. runs'[r] = IF r \notin rs THEN runs[r]
                 ELSE IF runs[r].state \in Leased
                 THEN [runs[r] EXCEPT !.state = "cancel_requested"]
                 ELSE [runs[r] EXCEPT !.state = "canceled", !.finishedAt = clock]
  BY DEF CancelRuns
<1> QED
  BY <1>1, <1>2 DEF LeaseKept, RunRows, Leased

(* Only a claim grants a lease.                                            *)
LEMMA LeasesKept ==
    ASSUME TypeOK, [Next]_vars,
           ~ \E w \in Workers, hs \in HandlerSets, r \in RunIds : ClaimRun(w, hs, r),
           NEW x \in RunIds
    PROVE  LeaseKept(x)
<1>0. runs \in [RunIds -> RunRows]
  BY DEF TypeOK
<1>1. ASSUME NEW in \in Submissions, Submit(in) PROVE LeaseKept(x)
  BY <1>0, <1>1, QueuedRunState DEF Submit, LeaseKept, Leased
<1>2. ASSUME NEW in \in Imports, ImportUnknown(in) PROVE LeaseKept(x)
  <2>1. [QueuedRun(in, Empty, Nil) EXCEPT !.state = "unknown"].state = "unknown"
    BY DEF QueuedRun, NoRun
  <2>2. \/ runs'[x] = runs[x]
        \/ runs'[x] = [QueuedRun(in, Empty, Nil) EXCEPT !.state = "unknown"]
    BY <1>0, <1>2 DEF ImportUnknown
  <2> QED
    BY <2>1, <2>2 DEF LeaseKept, Leased
<1>3. ASSUME NEW hs \in HandlerSets, ClaimEmpty(hs) PROVE LeaseKept(x)
  BY <1>3, ExpiredRow DEF ClaimEmpty, LeaseKept
<1>4. ASSUME NEW t \in Tokens, NEW outcome \in Outcomes, Finish(t, outcome) PROVE LeaseKept(x)
  BY <1>4, FinishedRow DEF LeaseKept
<1>5. ASSUME NEW r \in RunIds, RecordCancellation(r) PROVE LeaseKept(x)
  BY <1>5, CanceledRow DEF RecordCancellation
<1>6. ASSUME NEW h \in Handlers, CancelHandler(h) PROVE LeaseKept(x)
  BY <1>6, CanceledRow DEF CancelHandler
<1>7. ASSUME NEW r \in RunIds, NEW state \in {"succeeded", "failed"}, Resolve(r, state)
      PROVE  LeaseKept(x)
  BY <1>0, <1>7 DEF Resolve, LeaseKept, RunRows, Leased
<1>8. ASSUME NEW d \in Definitions, Schedule(d) PROVE LeaseKept(x)
  BY <1>8, ScheduleKeepsLeases
<1>9. ASSUME NEW state \in PrunableStates, Prune(state) PROVE LeaseKept(x)
  <2>1. runs'[x] = runs[x] \/ runs'[x] = NoRun
    BY <1>9 DEF Prune
  <2> QED
    BY <2>1 DEF NoRun, LeaseKept, Leased
<1>10. CASE Tick
  BY <1>10 DEF Tick, LeaseKept
<1>11. CASE UNCHANGED vars
  BY <1>11 DEF vars, LeaseKept
<1> QED
  BY <1>1, <1>2, <1>3, <1>4, <1>5, <1>6, <1>7, <1>8, <1>9, <1>10, <1>11 DEF Next

LEMMA ClaimedRow ==
    ASSUME TypeOK, NEW w \in Workers, NEW hs \in HandlerSets, NEW r \in RunIds,
           ClaimRun(w, hs, r)
    PROVE  /\ AdmissionOpen(ExpiredRuns)
           /\ r \in EligibleRuns(ExpiredRuns, hs)
           /\ ExpiredRuns[r] = runs[r]
           /\ runs[r].state \in Pending
           /\ runs'[r].job = runs[r].job
           /\ runs'[r].state = "running"
           /\ runs'[r].attempts = runs[r].attempts + 1
           /\ runs'[r].token = lastToken + 1
           /\ runs'[r].worker = w
           /\ \A x \in RunIds \ {r} : runs'[x] = ExpiredRuns[x] /\ LeaseKept(x)
<1>1. /\ AdmissionOpen(ExpiredRuns) /\ r \in EligibleRuns(ExpiredRuns, hs)
      /\ ExpiredRuns[r].state \in Pending
  BY DEF ClaimRun, EligibleRuns
<1>2. ExpiredRuns \in [RunIds -> RunRows] /\ runs \in [RunIds -> RunRows]
  BY ExpiredTypes DEF TypeOK
<1>3. ExpiredRuns[r] = runs[r]
  <2>1. CASE runs[r].state \in Leased /\ runs[r].expiresAt <= clock
    <3>1. ExpiredRuns[r] = [runs[r] EXCEPT !.state = "unknown", !.finishedAt = clock]
      BY <2>1 DEF ExpiredRuns
    <3> QED
      BY <1>1, <1>2, <3>1 DEF Pending, RunRows
  <2>2. CASE ~ (runs[r].state \in Leased /\ runs[r].expiresAt <= clock)
    BY <2>2 DEF ExpiredRuns
  <2> QED
    BY <2>1, <2>2
<1>4. runs' = [ExpiredRuns EXCEPT ![r] =
                [@ EXCEPT !.state = "running", !.token = lastToken + 1, !.worker = w,
                          !.expiresAt = clock + LeaseTimeout(ExpiredRuns, r),
                          !.attempts = ExpiredRuns[r].attempts + 1]]
  BY DEF ClaimRun
<1>5. /\ runs'[r].job = runs[r].job
      /\ runs'[r].state = "running"
      /\ runs'[r].attempts = runs[r].attempts + 1
      /\ runs'[r].token = lastToken + 1
      /\ runs'[r].worker = w
      /\ \A x \in RunIds \ {r} : runs'[x] = ExpiredRuns[x]
  BY <1>2, <1>3, <1>4 DEF RunRows
<1>6. \A x \in RunIds \ {r} : LeaseKept(x)
  BY <1>5, ExpiredRow DEF LeaseKept
<1> QED
  BY <1>1, <1>3, <1>5, <1>6

-----------------------------------------------------------------------------
(* Exclusive resources and exclusive maintenance                           *)

LEMMA InitNoLease == ASSUME Init PROVE LeasedRuns(runs) = {}
BY DEF Init, LeasedRuns, NoRun, Leased

LEMMA ExclusiveStep ==
    ASSUME TypeOK, [Next]_vars, ResourceExclusive
    PROVE  ResourceExclusive'
<1>1. ASSUME NEW w \in Workers, NEW hs \in HandlerSets, NEW r \in RunIds, ClaimRun(w, hs, r)
      PROVE  ResourceExclusive'
  <2>1. \A x \in RunIds \ {r} :
           /\ runs'[x].state \in Leased => ExpiredRuns[x].state \in Leased
           /\ runs'[x].job = ExpiredRuns[x].job
           /\ LeaseKept(x)
    BY <1>1, ClaimedRow
  <2>2. /\ runs'[r].job = ExpiredRuns[r].job
        /\ ExpiredRuns[r].job.resource # Empty =>
              ResourceFree(ExpiredRuns, ExpiredRuns[r].job.resource)
    BY <1>1, ClaimedRow DEF EligibleRuns
  <2> QED
    BY <2>1, <2>2 DEF ResourceExclusive, LeasedRuns, ResourceFree, LeaseKept
<1>2. CASE ~ \E w \in Workers, hs \in HandlerSets, r \in RunIds : ClaimRun(w, hs, r)
  <2>1. \A x \in RunIds : LeaseKept(x)
    BY <1>2, LeasesKept
  <2> QED
    BY <2>1 DEF ResourceExclusive, LeasedRuns, LeaseKept
<1> QED
  BY <1>1, <1>2

(* No two leases ever hold the same resource: whichever leases expire, are *)
(* cancelled, retried or lost in between, the check and the grant of a     *)
(* claim are one transaction.                                              *)
THEOREM ResourcesExclusive == Spec => []ResourceExclusive
<1>1. Init => ResourceExclusive
  BY InitNoLease DEF ResourceExclusive
<1>2. TypeOK /\ ResourceExclusive /\ [Next]_vars => ResourceExclusive'
  BY ExclusiveStep
<1> QED
  BY <1>1, <1>2, TypeCorrect, PTL DEF Spec

LEMMA MaintenanceStep ==
    ASSUME TypeOK, [Next]_vars, MaintenanceExclusive
    PROVE  MaintenanceExclusive'
<1>1. ASSUME NEW w \in Workers, NEW hs \in HandlerSets, NEW r \in RunIds, ClaimRun(w, hs, r)
      PROVE  MaintenanceExclusive'
  <2>1. \A x \in RunIds \ {r} : runs'[x] = ExpiredRuns[x]
    BY <1>1, ClaimedRow
  <2>2. /\ runs'[r].job = ExpiredRuns[r].job
        /\ ExpiredRuns[r].state \in Pending
        /\ MaintenanceHeld(ExpiredRuns) => LeasedRuns(ExpiredRuns) = {}
    BY <1>1, ClaimedRow DEF AdmissionOpen
  <2>3. CASE MaintenanceHeld(ExpiredRuns)
    BY <2>1, <2>2, <2>3 DEF MaintenanceExclusive, LeasedRuns
  <2>4. CASE ~ MaintenanceHeld(ExpiredRuns)
    BY <2>1, <2>2, <2>4 DEF MaintenanceExclusive, LeasedRuns, MaintenanceHeld, Unresolved
  <2> QED
    BY <2>3, <2>4
<1>2. CASE ~ \E w \in Workers, hs \in HandlerSets, r \in RunIds : ClaimRun(w, hs, r)
  <2>1. \A x \in RunIds : LeaseKept(x)
    BY <1>2, LeasesKept
  <2> QED
    BY <2>1 DEF MaintenanceExclusive, LeasedRuns, LeaseKept
<1> QED
  BY <1>1, <1>2

(* A leased maintenance run is the only lease there is.                    *)
THEOREM MaintenanceAlone == Spec => []MaintenanceExclusive
<1>1. Init => MaintenanceExclusive
  BY InitNoLease DEF MaintenanceExclusive
<1>2. TypeOK /\ MaintenanceExclusive /\ [Next]_vars => MaintenanceExclusive'
  BY MaintenanceStep
<1> QED
  BY <1>1, <1>2, TypeCorrect, PTL DEF Spec

-----------------------------------------------------------------------------
(* The budget                                                              *)

LEMMA FiniteRuns ==
    ASSUME NEW S \in SUBSET RunIds
    PROVE  IsFiniteSet(S) /\ Cardinality(S) \in Nat
<1>1. 1 \in Int /\ MaxRuns \in Int
  BY BoundsAssumption
<1>2. IsFiniteSet(RunIds)
  BY <1>1, FS_Interval DEF RunIds
<1>3. IsFiniteSet(S)
  BY <1>2, FS_Subset
<1> QED
  BY <1>3, FS_CardinalityType

LEMMA GrowsByOne ==
    ASSUME NEW S \in SUBSET RunIds, NEW r \in RunIds, NEW T \in SUBSET RunIds,
           T \subseteq S \cup {r}, NEW n \in Nat, Cardinality(S) < n
    PROVE  Cardinality(T) <= n
<1>1. IsFiniteSet(S) /\ Cardinality(S) \in Nat /\ Cardinality(T) \in Nat
  BY FiniteRuns
<1>2. /\ IsFiniteSet(S \cup {r})
      /\ Cardinality(S \cup {r}) <= Cardinality(S) + 1
  BY <1>1, FS_AddElement
<1>3. Cardinality(T) <= Cardinality(S \cup {r})
  BY <1>2, FS_Subset
<1>4. Cardinality(S \cup {r}) \in Nat
  BY <1>2, FS_CardinalityType
<1> QED
  BY <1>1, <1>2, <1>3, <1>4

LEMMA NeverGrows ==
    ASSUME NEW S \in SUBSET RunIds, NEW T \in SUBSET S, NEW n \in Nat,
           Cardinality(S) <= n
    PROVE  Cardinality(T) <= n
<1>1. IsFiniteSet(S) /\ Cardinality(S) \in Nat /\ Cardinality(T) \in Nat
  BY FiniteRuns
<1>2. Cardinality(T) <= Cardinality(S)
  BY <1>1, FS_Subset
<1> QED
  BY <1>1, <1>2

LEMMA CapacityStep ==
    ASSUME TypeOK, [Next]_vars, CapacityRespected
    PROVE  CapacityRespected'
<1> DEFINE inGroup(rs, g) == {r \in LeasedRuns(rs) : rs[r].job.group = g}
<1>0. Capacity \in Nat /\ \A g \in Groups : GroupCapacity[g] \in Nat
  BY BoundsAssumption
<1>1. ASSUME NEW w \in Workers, NEW hs \in HandlerSets, NEW r \in RunIds, ClaimRun(w, hs, r)
      PROVE  CapacityRespected'
  <2>1. \A x \in RunIds \ {r} : runs'[x] = ExpiredRuns[x] /\ LeaseKept(x)
    BY <1>1, ClaimedRow
  <2>2. /\ runs'[r].job = ExpiredRuns[r].job
        /\ Cardinality(LeasedRuns(ExpiredRuns)) < Capacity
        /\ ExpiredRuns[r].job.group # Empty => GroupFree(ExpiredRuns, ExpiredRuns[r].job.group)
    BY <1>1, ClaimedRow DEF AdmissionOpen, EligibleRuns
  <2>3. Cardinality(LeasedRuns(runs')) <= Capacity
    <3>1. LeasedRuns(runs') \subseteq LeasedRuns(ExpiredRuns) \cup {r}
      BY <2>1 DEF LeasedRuns
    <3>2. LeasedRuns(runs') \subseteq RunIds /\ LeasedRuns(ExpiredRuns) \subseteq RunIds
      BY DEF LeasedRuns
    <3> QED
      BY <1>0, <2>2, <3>1, <3>2, GrowsByOne
  <2>4. ASSUME NEW g \in Groups
        PROVE  Cardinality(inGroup(runs', g)) <= GroupCapacity[g]
    <3>1. inGroup(runs', g) \subseteq RunIds /\ inGroup(ExpiredRuns, g) \subseteq RunIds
          /\ inGroup(runs, g) \subseteq RunIds
      BY DEF LeasedRuns
    <3>2. CASE ExpiredRuns[r].job.group = g
      <4>1. inGroup(runs', g) \subseteq inGroup(ExpiredRuns, g) \cup {r}
        BY <2>1 DEF LeasedRuns
      <4>2. CASE g # Empty
        <5>1. Cardinality(inGroup(ExpiredRuns, g)) < GroupCapacity[g]
          BY <2>2, <3>2, <4>2 DEF GroupFree
        <5> HIDE DEF inGroup
        <5> QED
          BY <1>0, <3>1, <4>1, <5>1, GrowsByOne
      <4>3. CASE g = Empty
        BY <4>3, NamesAssumption
      <4> QED
        BY <4>2, <4>3
    <3>3. CASE ExpiredRuns[r].job.group # g
      <4>1. inGroup(runs', g) \subseteq inGroup(runs, g)
        BY <2>1, <2>2, <3>3 DEF LeasedRuns, LeaseKept
      <4>2. Cardinality(inGroup(runs, g)) <= GroupCapacity[g]
        BY DEF CapacityRespected
      <4> HIDE DEF inGroup
      <4> QED
        BY <1>0, <3>1, <4>1, <4>2, NeverGrows
    <3> QED
      BY <3>2, <3>3
  <2> QED
    BY <2>3, <2>4 DEF CapacityRespected
<1>2. CASE ~ \E w \in Workers, hs \in HandlerSets, r \in RunIds : ClaimRun(w, hs, r)
  <2>1. \A x \in RunIds : LeaseKept(x)
    BY <1>2, LeasesKept
  <2>2. Cardinality(LeasedRuns(runs')) <= Capacity
    <3>1. /\ LeasedRuns(runs') \subseteq LeasedRuns(runs)
          /\ LeasedRuns(runs) \subseteq RunIds
          /\ Cardinality(LeasedRuns(runs)) <= Capacity
      BY <2>1 DEF LeasedRuns, LeaseKept, CapacityRespected
    <3> QED
      BY <1>0, <3>1, NeverGrows
  <2>3. ASSUME NEW g \in Groups
        PROVE  Cardinality(inGroup(runs', g)) <= GroupCapacity[g]
    <3>1. /\ inGroup(runs', g) \subseteq inGroup(runs, g)
          /\ inGroup(runs, g) \subseteq RunIds
      BY <2>1 DEF LeasedRuns, LeaseKept
    <3>2. Cardinality(inGroup(runs, g)) <= GroupCapacity[g]
      BY DEF CapacityRespected
    <3> HIDE DEF inGroup
    <3> QED
      BY <1>0, <3>1, <3>2, NeverGrows
  <2> QED
    BY <2>2, <2>3 DEF CapacityRespected
<1> QED
  BY <1>1, <1>2

LEMMA InitCapacity == ASSUME Init PROVE CapacityRespected
<1>1. LeasedRuns(runs) = {} /\ Cardinality({}) = 0
  BY InitNoLease, FS_EmptySet
<1>2. \A g \in Groups : {r \in LeasedRuns(runs) : runs[r].job.group = g} = {}
  BY <1>1
<1>3. Capacity \in Nat /\ \A g \in Groups : GroupCapacity[g] \in Nat
  BY BoundsAssumption
<1> QED
  BY <1>1, <1>2, <1>3 DEF CapacityRespected

(* The number of leases never exceeds the budget, nor any execution group  *)
(* its own capacity.                                                       *)
THEOREM CapacityKept == Spec => []CapacityRespected
<1>1. Init => CapacityRespected
  BY InitCapacity
<1>2. TypeOK /\ CapacityRespected /\ [Next]_vars => CapacityRespected'
  BY CapacityStep
<1> QED
  BY <1>1, <1>2, TypeCorrect, PTL DEF Spec

-----------------------------------------------------------------------------
(* Agreement of runs, attempts and claims                                  *)

(* Identifiers not handed out yet have no rows.                            *)
Fresh ==
    /\ \A r \in RunIds : r > lastRun => runs[r].state = "absent"
    /\ \A r \in RunIds : runs[r].token <= lastToken
    /\ \A t \in Tokens : t > lastToken => claims[t] = NoClaim

(* A settled claim has lost its lease for good.                            *)
SettledIsOver ==
    \A t \in Tokens :
       /\ claims[t].settled \in {0, 1}
       /\ claims[t].settled = 1 =>
             \A r \in RunIds : runs[r].state \in Leased => runs[r].token # t

EvidenceInv == TypeOK /\ Fresh /\ LeaseEvidence /\ SettledIsOver

LEMMA IdentifierTypes ==
    ASSUME TypeOK
    PROVE  /\ lastRun \in Int /\ lastToken \in Int /\ 0 <= lastToken
           /\ \A r \in RunIds : r \in Int /\ runs[r].token \in Int
           /\ \A t \in Tokens : t \in Int
<1>1. /\ lastRun \in 0 .. MaxRuns /\ lastToken \in 0 .. MaxTokens
      /\ runs \in [RunIds -> RunRows]
  BY DEF TypeOK
<1>2. MaxRuns \in Int /\ MaxTokens \in Int
  BY BoundsAssumption
<1>3. \A r \in RunIds : runs[r].token \in 0 .. MaxTokens
  BY <1>1 DEF RunRows
<1> QED
  BY <1>1, <1>2, <1>3 DEF RunIds, Tokens

LEMMA FreshStep == ASSUME TypeOK, Fresh, [Next]_vars PROVE Fresh'
<1>0. /\ runs \in [RunIds -> RunRows] /\ claims \in [Tokens -> Claims]
      /\ lastRun \in Int /\ lastToken \in Int
      /\ \A r \in RunIds : r \in Int /\ runs[r].token \in Int
      /\ \A t \in Tokens : t \in Int
      /\ 0 <= lastToken
  BY IdentifierTypes DEF TypeOK
<1>1. ASSUME NEW in \in Submissions, Submit(in) PROVE Fresh'
  <2>1. \A r \in RunIds : \/ runs'[r] = runs[r]
                          \/ r = lastRun + 1 /\ runs'[r].token = 0
    BY <1>0, <1>1, QueuedRunState DEF Submit
  <2>2. lastRun' = lastRun + 1 /\ lastToken' = lastToken /\ claims' = claims
    BY <1>1 DEF Submit
  <2> QED
    BY <1>0, <2>1, <2>2 DEF Fresh
<1>2. ASSUME NEW in \in Imports, ImportUnknown(in) PROVE Fresh'
  <2>0. [QueuedRun(in, Empty, Nil) EXCEPT !.state = "unknown"].token = 0
    BY DEF QueuedRun, NoRun
  <2>1. \A r \in RunIds : \/ runs'[r] = runs[r]
                          \/ r = lastRun + 1 /\ runs'[r].token = 0
    BY <1>0, <1>2, <2>0 DEF ImportUnknown
  <2>2. lastRun' = lastRun + 1 /\ lastToken' = lastToken /\ claims' = claims
    BY <1>2 DEF ImportUnknown
  <2> QED
    BY <1>0, <2>1, <2>2 DEF Fresh
<1>3. \A r \in RunIds : /\ ExpiredRuns[r].token = runs[r].token
                        /\ runs[r].state = "absent" => ExpiredRuns[r].state = "absent"
  BY <1>0 DEF ExpiredRuns, RunRows, Leased
<1>4. ASSUME NEW hs \in HandlerSets, ClaimEmpty(hs) PROVE Fresh'
  BY <1>3, <1>4 DEF ClaimEmpty, Fresh
<1>5. ASSUME NEW w \in Workers, NEW hs \in HandlerSets, NEW r \in RunIds, ClaimRun(w, hs, r)
      PROVE  Fresh'
  <2>1. /\ runs[r].state \in Pending /\ runs'[r].token = lastToken + 1
        /\ \A x \in RunIds \ {r} : runs'[x] = ExpiredRuns[x]
    BY <1>5, ClaimedRow
  <2>2. /\ lastRun' = lastRun /\ lastToken' = lastToken + 1
        /\ \A t \in Tokens \ {lastToken + 1} : claims'[t] = claims[t]
    BY <1>0, <1>5 DEF ClaimRun
  <2>3. \A x \in RunIds : x > lastRun' => runs'[x].state = "absent"
    BY <1>0, <1>3, <2>1, <2>2 DEF Fresh, Pending
  <2>4. \A x \in RunIds : runs'[x].token <= lastToken'
    BY <1>0, <1>3, <2>1, <2>2 DEF Fresh
  <2>5. \A t \in Tokens : t > lastToken' => claims'[t] = NoClaim
    BY <1>0, <2>2 DEF Fresh
  <2> QED
    BY <2>3, <2>4, <2>5 DEF Fresh
<1>6. ASSUME NEW t \in Tokens, NEW outcome \in Outcomes, Finish(t, outcome) PROVE Fresh'
  <2> DEFINE r == claims[t].run
  <2>1. /\ r \in RunIds /\ runs[r].token = t /\ runs[r].state \in Leased
        /\ runs'[r].token \in {0, t}
        /\ \A x \in RunIds \ {r} : runs'[x] = runs[x]
    BY <1>6, FinishedRow
  <2>2. /\ lastRun' = lastRun /\ lastToken' = lastToken
        /\ \A u \in Tokens \ {t} : claims'[u] = claims[u]
    BY <1>0, <1>6 DEF Finish
  <2>3. t <= lastToken /\ ~ (r > lastRun)
    BY <1>0, <2>1 DEF Fresh, Leased
  <2> HIDE DEF r
  <2> QED
    BY <1>0, <2>1, <2>2, <2>3 DEF Fresh
<1>7. ASSUME NEW rs \in SUBSET RunIds, CancelRuns(rs),
             \A r \in rs : runs[r].state \in Pending \cup Leased
      PROVE  Fresh'
  <2>1. \A r \in RunIds : /\ runs'[r].token = runs[r].token
                          /\ r \notin rs => runs'[r] = runs[r]
    BY <1>7, CanceledRow
  <2>2. lastRun' = lastRun /\ lastToken' = lastToken /\ claims' = claims
    BY <1>7 DEF CancelRuns
  <2>3. \A r \in rs : runs[r].state # "absent"
    BY <1>7 DEF Pending, Leased
  <2> QED
    BY <1>0, <2>1, <2>2, <2>3 DEF Fresh
<1>8. ASSUME NEW r \in RunIds, RecordCancellation(r) PROVE Fresh'
  BY <1>7, <1>8 DEF RecordCancellation, Leased
<1>9. ASSUME NEW h \in Handlers, CancelHandler(h) PROVE Fresh'
  BY <1>7, <1>9 DEF CancelHandler
<1>10. ASSUME NEW r \in RunIds, NEW state \in {"succeeded", "failed"}, Resolve(r, state)
       PROVE  Fresh'
  <2>1. \A x \in RunIds : /\ runs'[x].token = runs[x].token
                          /\ x # r => runs'[x] = runs[x]
    BY <1>0, <1>10 DEF Resolve, RunRows
  <2> QED
    BY <1>0, <1>10, <2>1 DEF Resolve, Fresh
<1>11. ASSUME NEW d \in Definitions, Schedule(d) PROVE Fresh'
  <2>1. \A r \in RunIds :
           /\ ReconciledRuns(d)[r].token = runs[r].token
           /\ runs[r].state = "absent" => ReconciledRuns(d)[r] = runs[r]
    <3> SUFFICES ASSUME NEW r \in RunIds
                 PROVE  /\ ReconciledRuns(d)[r].token = runs[r].token
                        /\ runs[r].state = "absent" => ReconciledRuns(d)[r] = runs[r]
      OBVIOUS
    <3>1. [runs[r] EXCEPT !.state = "interrupted"].token = runs[r].token
      BY <1>0 DEF RunRows
    <3> QED
      BY <3>1, ReconciledRow
  <2>2. claims' = claims /\ lastToken' = lastToken
    BY <1>11 DEF Schedule, ScheduleIdle, ScheduleSkip, ScheduleReuse, ScheduleInsert,
                 ScheduleRebind
  <2>3. CASE ScheduleIdle(d) \/ ScheduleSkip(d) \/ ScheduleRebind(d)
    <3>1. runs' = ReconciledRuns(d) /\ lastRun' = lastRun
      BY <2>3 DEF ScheduleIdle, ScheduleSkip, ScheduleRebind
    <3> QED
      BY <1>0, <2>1, <2>2, <3>1 DEF Fresh
  <2>4. CASE ScheduleReuse(d)
    <3> DEFINE c == AdoptedRow(d).compactRun
    <3>1. /\ lastRun' = lastRun
          /\ \A r \in RunIds \ {c} : runs'[r] = ReconciledRuns(d)[r]
          /\ c \in RunIds => runs'[c].token = 0
          /\ ReconciledRuns(d)[c].state \in {"succeeded", "yielded"}
      BY <2>4, ScheduleTypes, QueuedRunState DEF ScheduleReuse, Reusable
    <3>2. c \in RunIds => runs[c].state # "absent"
      BY <2>1, <3>1
    <3> HIDE DEF c
    <3> QED
      BY <1>0, <2>1, <2>2, <3>1, <3>2 DEF Fresh
  <2>5. CASE ScheduleInsert(d)
    <3>1. /\ lastRun' = lastRun + 1
          /\ \A r \in RunIds \ {lastRun + 1} : runs'[r] = ReconciledRuns(d)[r]
          /\ lastRun + 1 \in RunIds => runs'[lastRun + 1].token = 0
      BY <2>5, ScheduleTypes, QueuedRunState DEF ScheduleInsert
    <3> QED
      BY <1>0, <2>1, <2>2, <3>1 DEF Fresh
  <2> QED
    BY <1>11, <2>3, <2>4, <2>5 DEF Schedule
<1>12. ASSUME NEW state \in PrunableStates, Prune(state) PROVE Fresh'
  <2>1. \A r \in RunIds : runs'[r] = runs[r] \/ runs'[r] = NoRun
    BY <1>12 DEF Prune
  <2>2. NoRun.token = 0 /\ NoRun.state = "absent"
    BY DEF NoRun
  <2>3. lastRun' = lastRun /\ lastToken' = lastToken /\ claims' = claims
    BY <1>12 DEF Prune
  <2> QED
    BY <1>0, <2>1, <2>2, <2>3 DEF Fresh
<1>13. CASE Tick
  BY <1>13 DEF Tick, Fresh
<1>14. CASE UNCHANGED vars
  BY <1>14 DEF vars, Fresh
<1> QED
  BY <1>1, <1>2, <1>4, <1>5, <1>6, <1>8, <1>9, <1>10, <1>11, <1>12, <1>13, <1>14 DEF Next

LEMMA ExpiredAttempt ==
    ASSUME NEW t \in Tokens
    PROVE  IF attempts[t].state \in Leased /\ attempts[t].expiresAt <= clock
           THEN ExpiredAttempts[t].state \notin Leased
           ELSE ExpiredAttempts[t] = attempts[t]
<1>1. CASE attempts[t].state \in Leased /\ attempts[t].expiresAt <= clock
  <2>1. ExpiredAttempts[t] = [attempts[t] EXCEPT !.state = "unknown", !.finishedAt = clock]
    BY <1>1 DEF ExpiredAttempts
  <2> QED
    BY <1>1, <2>1 DEF Leased
<1>2. CASE ~ (attempts[t].state \in Leased /\ attempts[t].expiresAt <= clock)
  BY <1>2 DEF ExpiredAttempts
<1> QED
  BY <1>1, <1>2

(* Leased(r) and its attempt, after the expiry updates of a claim.         *)
EvidenceOf(rs, as, r) ==
    LET t == rs[r].token IN
    /\ t \in Tokens
    /\ as[t].run = r
    /\ as[t].state = rs[r].state
    /\ as[t].number = rs[r].attempts
    /\ as[t].worker = rs[r].worker
    /\ as[t].expiresAt = rs[r].expiresAt

OpenAttemptOf(rs, as, t) ==
    as[t].state \in Leased => /\ as[t].run \in LeasedRuns(rs)
                              /\ rs[as[t].run].token = t

LEMMA EvidenceForm ==
    LeaseEvidence <=> /\ \A r \in LeasedRuns(runs) : EvidenceOf(runs, attempts, r)
                      /\ \A t \in Tokens : OpenAttemptOf(runs, attempts, t)
BY DEF LeaseEvidence, EvidenceOf, OpenAttemptOf

LEMMA ExpiredEvidence ==
    ASSUME TypeOK, LeaseEvidence
    PROVE  /\ \A r \in LeasedRuns(ExpiredRuns) : EvidenceOf(ExpiredRuns, ExpiredAttempts, r)
           /\ \A t \in Tokens : OpenAttemptOf(ExpiredRuns, ExpiredAttempts, t)
<1>1. ASSUME NEW r \in LeasedRuns(ExpiredRuns)
      PROVE  EvidenceOf(ExpiredRuns, ExpiredAttempts, r)
  <2>1. /\ r \in RunIds /\ ExpiredRuns[r] = runs[r] /\ r \in LeasedRuns(runs)
        /\ ~ (runs[r].expiresAt <= clock)
    BY ExpiredRow DEF LeasedRuns
  <2>2. EvidenceOf(runs, attempts, r)
    BY <2>1, EvidenceForm
  <2>3. ExpiredAttempts[runs[r].token] = attempts[runs[r].token]
    BY <2>1, <2>2, ExpiredAttempt DEF EvidenceOf
  <2> QED
    BY <2>1, <2>2, <2>3 DEF EvidenceOf
<1>2. ASSUME NEW t \in Tokens, ExpiredAttempts[t].state \in Leased
      PROVE  /\ ExpiredAttempts[t].run \in LeasedRuns(ExpiredRuns)
             /\ ExpiredRuns[ExpiredAttempts[t].run].token = t
  <2>1. /\ ExpiredAttempts[t] = attempts[t] /\ attempts[t].state \in Leased
        /\ ~ (attempts[t].expiresAt <= clock)
    BY <1>2, ExpiredAttempt
  <2> DEFINE r == attempts[t].run
  <2>2. r \in LeasedRuns(runs) /\ runs[r].token = t
    BY <2>1, EvidenceForm DEF OpenAttemptOf
  <2>3. attempts[t].expiresAt = runs[r].expiresAt
    BY <2>2, EvidenceForm DEF EvidenceOf
  <2>4. ExpiredRuns[r] = runs[r]
    BY <2>1, <2>2, <2>3 DEF ExpiredRuns, LeasedRuns
  <2> QED
    BY <2>1, <2>2, <2>4 DEF LeasedRuns
<1> QED
  BY <1>1, <1>2 DEF OpenAttemptOf

(* A step that touches no lease and closes no open attempt.                *)
LEMMA EvidenceUntouched ==
    ASSUME TypeOK, LeaseEvidence,
           \A r \in RunIds : \/ runs'[r] = runs[r]
                             \/ runs[r].state \notin Leased /\ runs'[r].state \notin Leased,
           \A t \in Tokens : \/ attempts'[t] = attempts[t]
                             \/ attempts[t].state \notin Leased /\ attempts'[t].state \notin Leased
    PROVE  LeaseEvidence'
<1>1. \A r \in LeasedRuns(runs) : EvidenceOf(runs, attempts, r)
  BY EvidenceForm
<1>2. \A t \in Tokens : OpenAttemptOf(runs, attempts, t)
  BY EvidenceForm
<1>3. ASSUME NEW r \in LeasedRuns(runs') PROVE EvidenceOf(runs', attempts', r)
  <2>1. r \in RunIds /\ runs'[r] = runs[r] /\ r \in LeasedRuns(runs)
    BY DEF LeasedRuns
  <2>2. EvidenceOf(runs, attempts, r)
    BY <1>1, <2>1
  <2>3. attempts'[runs[r].token] = attempts[runs[r].token]
    BY <2>1, <2>2 DEF EvidenceOf, LeasedRuns
  <2> QED
    BY <2>1, <2>2, <2>3 DEF EvidenceOf
<1>4. ASSUME NEW t \in Tokens, attempts'[t].state \in Leased
      PROVE  attempts'[t].run \in LeasedRuns(runs') /\ runs'[attempts'[t].run].token = t
  <2>1. attempts'[t] = attempts[t]
    BY <1>4
  <2>2. attempts[t].run \in LeasedRuns(runs) /\ runs[attempts[t].run].token = t
    BY <1>2, <1>4, <2>1 DEF OpenAttemptOf
  <2>3. runs'[attempts[t].run] = runs[attempts[t].run]
    BY <2>2 DEF LeasedRuns
  <2> QED
    BY <2>1, <2>2, <2>3 DEF LeasedRuns
<1> QED
  BY <1>3, <1>4 DEF LeaseEvidence, EvidenceOf

LEMMA ClaimEvidence ==
    ASSUME TypeOK, Fresh, LeaseEvidence,
           NEW w \in Workers, NEW hs \in HandlerSets, NEW r \in RunIds, ClaimRun(w, hs, r)
    PROVE  LeaseEvidence'
<1> DEFINE token == lastToken + 1
<1>1. /\ token \in Tokens /\ token \notin {runs[x].token : x \in RunIds}
  <2>1. lastToken \in 0 .. MaxTokens /\ lastToken < MaxTokens
    BY DEF TypeOK, ClaimRun
  <2>2. token \in Tokens
    BY <2>1, BoundsAssumption DEF Tokens
  <2>3. \A x \in RunIds : runs[x].token # token
    BY IdentifierTypes DEF Fresh
  <2> QED
    BY <2>2, <2>3
<1>2. attempts' = [ExpiredAttempts EXCEPT ![token] =
                     [run |-> r, number |-> ExpiredRuns[r].attempts + 1, worker |-> w,
                      state |-> "running",
                      expiresAt |-> clock + LeaseTimeout(ExpiredRuns, r),
                      finishedAt |-> Nil]]
  BY DEF ClaimRun
<1>3. /\ attempts'[token].run = r /\ attempts'[token].state = "running"
      /\ attempts'[token].number = ExpiredRuns[r].attempts + 1
      /\ attempts'[token].worker = w
      /\ attempts'[token].expiresAt = clock + LeaseTimeout(ExpiredRuns, r)
      /\ \A t \in Tokens \ {token} : attempts'[t] = ExpiredAttempts[t]
  BY <1>1, <1>2, ExpiredTypes
<1>4. /\ runs'[r].state = "running" /\ runs'[r].token = token /\ runs'[r].worker = w
      /\ runs'[r].attempts = ExpiredRuns[r].attempts + 1
      /\ ExpiredRuns[r].state \in Pending
      /\ \A x \in RunIds \ {r} : runs'[x] = ExpiredRuns[x]
  BY ClaimedRow
<1>5. runs'[r].expiresAt = clock + LeaseTimeout(ExpiredRuns, r)
  <2>1. ExpiredRuns \in [RunIds -> RunRows]
    BY ExpiredTypes
  <2> QED
    BY <2>1 DEF ClaimRun, RunRows
<1>6. EvidenceOf(runs', attempts', r) /\ r \in LeasedRuns(runs')
  BY <1>1, <1>3, <1>4, <1>5 DEF EvidenceOf, LeasedRuns, Leased
<1>7. ASSUME NEW x \in LeasedRuns(runs'), x # r
      PROVE  EvidenceOf(runs', attempts', x)
  <2>1. x \in RunIds /\ runs'[x] = ExpiredRuns[x] /\ x \in LeasedRuns(ExpiredRuns)
    BY <1>4, <1>7 DEF LeasedRuns
  <2>2. EvidenceOf(ExpiredRuns, ExpiredAttempts, x)
    BY <2>1, ExpiredEvidence
  <2>3. ExpiredRuns[x].token # token
    BY <1>1, <2>1, ExpiredRow DEF LeasedRuns
  <2> QED
    BY <1>3, <2>1, <2>2, <2>3 DEF EvidenceOf
<1>8. ASSUME NEW t \in Tokens, t # token, attempts'[t].state \in Leased
      PROVE  attempts'[t].run \in LeasedRuns(runs') /\ runs'[attempts'[t].run].token = t
  <2>1. attempts'[t] = ExpiredAttempts[t]
    BY <1>3, <1>8
  <2>2. /\ ExpiredAttempts[t].run \in LeasedRuns(ExpiredRuns)
        /\ ExpiredRuns[ExpiredAttempts[t].run].token = t
    BY <1>8, <2>1, ExpiredEvidence DEF OpenAttemptOf
  <2>3. ExpiredAttempts[t].run # r
    BY <1>4, <2>2 DEF LeasedRuns, Pending, Leased
  <2> QED
    BY <1>4, <2>1, <2>2, <2>3 DEF LeasedRuns
<1> QED
  BY <1>3, <1>4, <1>6, <1>7, <1>8 DEF LeaseEvidence, EvidenceOf

LEMMA FinishEvidence ==
    ASSUME TypeOK, LeaseEvidence,
           NEW t \in Tokens, NEW outcome \in Outcomes, Finish(t, outcome)
    PROVE  LeaseEvidence'
<1> DEFINE r == claims[t].run
           state == RecordedOutcome(runs[r], outcome)
<1>1. /\ r \in RunIds /\ runs[r].token = t /\ runs[r].state \in Leased
      /\ runs'[r].state = state /\ state \notin Leased
      /\ \A x \in RunIds \ {r} : runs'[x] = runs[x]
  BY FinishedRow
<1>2. /\ \A u \in Tokens \ {t} : attempts'[u] = attempts[u]
      /\ attempts'[t].state = state
  <2>1. attempts \in [Tokens -> AttemptRows]
    BY DEF TypeOK
  <2>2. attempts' = [attempts EXCEPT ![t].state = state, ![t].finishedAt = clock]
    BY DEF Finish
  <2> HIDE DEF state
  <2> QED
    BY <2>1, <2>2 DEF AttemptRows
<1> HIDE DEF state, r
<1>3. ASSUME NEW x \in LeasedRuns(runs') PROVE EvidenceOf(runs', attempts', x)
  <2>1. x \in RunIds /\ x # r /\ runs'[x] = runs[x] /\ x \in LeasedRuns(runs)
    BY <1>1 DEF LeasedRuns
  <2>2. EvidenceOf(runs, attempts, x) /\ EvidenceOf(runs, attempts, r)
    BY <1>1, <2>1, EvidenceForm DEF LeasedRuns
  <2>3. runs[x].token # t
    BY <1>1, <2>1, <2>2 DEF EvidenceOf
  <2> QED
    BY <1>2, <2>1, <2>2, <2>3 DEF EvidenceOf
<1>4. ASSUME NEW u \in Tokens, attempts'[u].state \in Leased
      PROVE  attempts'[u].run \in LeasedRuns(runs') /\ runs'[attempts'[u].run].token = u
  <2>1. u # t /\ attempts'[u] = attempts[u]
    BY <1>1, <1>2, <1>4
  <2>2. attempts[u].run \in LeasedRuns(runs) /\ runs[attempts[u].run].token = u
    BY <1>4, <2>1, EvidenceForm DEF OpenAttemptOf
  <2>3. attempts[u].run # r
    BY <1>1, <2>1, <2>2
  <2> QED
    BY <1>1, <2>1, <2>2, <2>3 DEF LeasedRuns
<1> QED
  BY <1>3, <1>4 DEF LeaseEvidence, EvidenceOf

LEMMA CancelEvidence ==
    ASSUME TypeOK, LeaseEvidence, NEW rs \in SUBSET RunIds, CancelRuns(rs)
    PROVE  LeaseEvidence'
<1>1. \A r \in RunIds :
         /\ LeaseKept(r)
         /\ runs'[r].token = runs[r].token
         /\ r \notin rs => runs'[r] = runs[r]
         /\ r \in rs /\ runs[r].state \in Leased => runs'[r].state = "cancel_requested"
  BY CanceledRow
<1> DEFINE stopped(t) == /\ attempts[t].state \in Leased
                         /\ \E r \in rs : runs[r].state \in Leased /\ runs[r].token = t
<1>2. \A t \in Tokens :
         /\ ~ stopped(t) => attempts'[t] = attempts[t]
         /\ stopped(t) => /\ attempts'[t].state = "cancel_requested"
                          /\ attempts'[t].run = attempts[t].run
                          /\ attempts'[t].number = attempts[t].number
                          /\ attempts'[t].worker = attempts[t].worker
                          /\ attempts'[t].expiresAt = attempts[t].expiresAt
  <2> SUFFICES ASSUME NEW t \in Tokens
               PROVE  /\ ~ stopped(t) => attempts'[t] = attempts[t]
                      /\ stopped(t) => /\ attempts'[t].state = "cancel_requested"
                                       /\ attempts'[t].run = attempts[t].run
                                       /\ attempts'[t].number = attempts[t].number
                                       /\ attempts'[t].worker = attempts[t].worker
                                       /\ attempts'[t].expiresAt = attempts[t].expiresAt
    OBVIOUS
  <2>1. attempts[t] \in AttemptRows
    BY DEF TypeOK
  <2>2. attempts'[t] = IF stopped(t) THEN [attempts[t] EXCEPT !.state = "cancel_requested"]
                                     ELSE attempts[t]
    BY DEF CancelRuns
  <2> HIDE DEF stopped
  <2> QED
    BY <2>1, <2>2 DEF AttemptRows
<1>3. ASSUME NEW r \in LeasedRuns(runs') PROVE EvidenceOf(runs', attempts', r)
  <2>1. r \in RunIds /\ r \in LeasedRuns(runs) /\ EvidenceOf(runs, attempts, r)
    BY <1>1, EvidenceForm DEF LeasedRuns, LeaseKept
  <2> DEFINE t == runs[r].token
  <2>2. t \in Tokens /\ attempts[t].run = r /\ attempts[t].state \in Leased
    BY <2>1 DEF EvidenceOf, LeasedRuns
  <2>3. stopped(t) <=> r \in rs
    <3>1. ASSUME NEW x \in rs, runs[x].state \in Leased, runs[x].token = t PROVE x = r
      BY <2>2, <3>1, EvidenceForm DEF EvidenceOf, LeasedRuns
    <3> QED
      BY <2>1, <2>2, <3>1 DEF LeasedRuns
  <2> HIDE DEF stopped
  <2>4. CASE r \in rs
    BY <1>1, <1>2, <2>1, <2>2, <2>3, <2>4 DEF EvidenceOf, LeasedRuns, LeaseKept
  <2>5. CASE r \notin rs
    BY <1>1, <1>2, <2>1, <2>2, <2>3, <2>5 DEF EvidenceOf
  <2> QED
    BY <2>4, <2>5
<1>4. ASSUME NEW t \in Tokens, attempts'[t].state \in Leased
      PROVE  attempts'[t].run \in LeasedRuns(runs') /\ runs'[attempts'[t].run].token = t
  <2>1. attempts'[t].run = attempts[t].run /\ attempts[t].state \in Leased
    BY <1>2, <1>4
  <2> DEFINE r == attempts[t].run
  <2>2. r \in LeasedRuns(runs) /\ runs[r].token = t /\ r \in RunIds
    BY <2>1, EvidenceForm DEF OpenAttemptOf, LeasedRuns
  <2>3. r \in LeasedRuns(runs')
    BY <1>1, <2>2 DEF LeasedRuns, Leased
  <2> QED
    BY <1>1, <2>1, <2>2, <2>3
<1> QED
  BY <1>3, <1>4 DEF LeaseEvidence, EvidenceOf

LEMMA ScheduleEvidence ==
    ASSUME TypeOK, Fresh, LeaseEvidence, NEW d \in Definitions, Schedule(d)
    PROVE  LeaseEvidence'
<1>0. \A r \in RunIds : \/ ReconciledRuns(d)[r] = runs[r]
                        \/ /\ runs[r].state \notin Leased
                           /\ ReconciledRuns(d)[r].state \notin Leased
  <2>1. \A r \in RunIds : [runs[r] EXCEPT !.state = "interrupted"].state = "interrupted"
    <3>1. runs \in [RunIds -> RunRows]
      BY DEF TypeOK
    <3> QED
      BY <3>1 DEF RunRows
  <2> QED
    BY <2>1, ReconciledRow DEF Leased
<1>1. CASE ScheduleIdle(d) \/ ScheduleSkip(d) \/ ScheduleRebind(d)
  <2>1. runs' = ReconciledRuns(d) /\ attempts' = attempts
    BY <1>1 DEF ScheduleIdle, ScheduleSkip, ScheduleRebind
  <2> QED
    BY <1>0, <2>1, EvidenceUntouched
<1>2. CASE ScheduleReuse(d)
  <2> DEFINE c == AdoptedRow(d).compactRun
             old == ReconciledRuns(d)[c]
  <2>1. /\ old.state \in {"succeeded", "yielded"}
        /\ attempts[old.token].state = old.state
        /\ \A r \in RunIds \ {c} : runs'[r] = ReconciledRuns(d)[r]
        /\ c \in RunIds => runs'[c].state = "queued"
        /\ attempts' = [attempts EXCEPT ![runs[c].token] = NoAttempt]
    BY <1>2, ScheduleTypes, QueuedRunState DEF ScheduleReuse, Reusable
  <2>2. c \in RunIds
    <3>1. c # 0
      BY <1>2 DEF ScheduleReuse, Reusable
    <3>2. c \in 0 .. MaxRuns
      BY ScheduleTypes DEF ScheduleRows
    <3> QED
      BY <3>1, <3>2, BoundsAssumption DEF RunIds
  <2>3. old = runs[c] /\ runs[c].state \notin Leased
    <3>1. [runs[c] EXCEPT !.state = "interrupted"].state = "interrupted"
      <4>1. runs[c] \in RunRows
        BY <2>2 DEF TypeOK
      <4> QED
        BY <4>1 DEF RunRows
    <3> QED
      BY <2>1, <2>2, <3>1, ReconciledRow DEF Leased
  <2>4. \A t \in Tokens : \/ attempts'[t] = attempts[t]
                          \/ attempts[t].state \notin Leased /\ attempts'[t].state \notin Leased
    <3>1. attempts \in [Tokens -> AttemptRows] /\ NoAttempt.state = "absent"
      BY DEF TypeOK, NoAttempt
    <3> QED
      BY <2>1, <2>3, <3>1 DEF Leased
  <2>5. \A r \in RunIds : \/ runs'[r] = runs[r]
                          \/ runs[r].state \notin Leased /\ runs'[r].state \notin Leased
    BY <1>0, <2>1, <2>3 DEF Leased
  <2> QED
    BY <2>4, <2>5, EvidenceUntouched
<1>3. CASE ScheduleInsert(d)
  <2>1. /\ \A r \in RunIds \ {lastRun + 1} : runs'[r] = ReconciledRuns(d)[r]
        /\ lastRun + 1 \in RunIds => runs'[lastRun + 1].state = "queued"
        /\ attempts' = attempts
    BY <1>3, ScheduleTypes, QueuedRunState DEF ScheduleInsert
  <2>2. lastRun + 1 \in RunIds => runs[lastRun + 1].state = "absent"
    BY IdentifierTypes DEF Fresh
  <2>3. \A r \in RunIds : \/ runs'[r] = runs[r]
                          \/ runs[r].state \notin Leased /\ runs'[r].state \notin Leased
    BY <1>0, <2>1, <2>2 DEF Leased
  <2> QED
    BY <2>1, <2>3, EvidenceUntouched
<1> QED
  BY <1>1, <1>2, <1>3 DEF Schedule

LEMMA EvidenceStep ==
    ASSUME TypeOK, Fresh, LeaseEvidence, [Next]_vars
    PROVE  LeaseEvidence'
<1>0. runs \in [RunIds -> RunRows] /\ attempts \in [Tokens -> AttemptRows]
  BY DEF TypeOK
<1>1. ASSUME NEW in \in Submissions, Submit(in) PROVE LeaseEvidence'
  <2>1. lastRun + 1 \in RunIds => runs[lastRun + 1].state = "absent"
    BY IdentifierTypes DEF Fresh
  <2>2. \A r \in RunIds : \/ runs'[r] = runs[r]
                          \/ runs[r].state \notin Leased /\ runs'[r].state \notin Leased
    BY <1>0, <1>1, <2>1, QueuedRunState DEF Submit, Leased
  <2>3. attempts' = attempts
    BY <1>1 DEF Submit
  <2> QED
    BY <2>2, <2>3, EvidenceUntouched
<1>2. ASSUME NEW in \in Imports, ImportUnknown(in) PROVE LeaseEvidence'
  <2>1. lastRun + 1 \in RunIds => runs[lastRun + 1].state = "absent"
    BY IdentifierTypes DEF Fresh
  <2>2. [QueuedRun(in, Empty, Nil) EXCEPT !.state = "unknown"].state = "unknown"
    BY DEF QueuedRun, NoRun
  <2>3. \A r \in RunIds : \/ runs'[r] = runs[r]
                          \/ runs[r].state \notin Leased /\ runs'[r].state \notin Leased
    BY <1>0, <1>2, <2>1, <2>2 DEF ImportUnknown, Leased
  <2>4. attempts' = attempts
    BY <1>2 DEF ImportUnknown
  <2> QED
    BY <2>3, <2>4, EvidenceUntouched
<1>3. ASSUME NEW hs \in HandlerSets, ClaimEmpty(hs) PROVE LeaseEvidence'
  <2>1. runs' = ExpiredRuns /\ attempts' = ExpiredAttempts
    BY <1>3 DEF ClaimEmpty
  <2> QED
    BY <2>1, ExpiredEvidence DEF LeaseEvidence, EvidenceOf, OpenAttemptOf
<1>4. ASSUME NEW w \in Workers, NEW hs \in HandlerSets, NEW r \in RunIds, ClaimRun(w, hs, r)
      PROVE  LeaseEvidence'
  BY <1>4, ClaimEvidence
<1>5. ASSUME NEW t \in Tokens, NEW outcome \in Outcomes, Finish(t, outcome)
      PROVE  LeaseEvidence'
  BY <1>5, FinishEvidence
<1>6. ASSUME NEW r \in RunIds, RecordCancellation(r) PROVE LeaseEvidence'
  BY <1>6, CancelEvidence DEF RecordCancellation
<1>7. ASSUME NEW h \in Handlers, CancelHandler(h) PROVE LeaseEvidence'
  BY <1>7, CancelEvidence DEF CancelHandler
<1>8. ASSUME NEW r \in RunIds, NEW state \in {"succeeded", "failed"}, Resolve(r, state)
      PROVE  LeaseEvidence'
  <2>1. \A x \in RunIds : \/ runs'[x] = runs[x]
                          \/ runs[x].state \notin Leased /\ runs'[x].state \notin Leased
    BY <1>0, <1>8 DEF Resolve, RunRows, Leased
  <2>2. attempts' = attempts
    BY <1>8 DEF Resolve
  <2> QED
    BY <2>1, <2>2, EvidenceUntouched
<1>9. ASSUME NEW d \in Definitions, Schedule(d) PROVE LeaseEvidence'
  BY <1>9, ScheduleEvidence
<1>10. ASSUME NEW state \in PrunableStates, Prune(state) PROVE LeaseEvidence'
  <2>0. PICK ids \in SUBSET PeriodicCandidates(state) :
           \E tokens \in SUBSET AttemptsOf(ids) :
              /\ attempts' = [t \in Tokens |-> IF t \in tokens THEN NoAttempt ELSE attempts[t]]
              /\ runs' = [r \in RunIds |->
                            IF /\ r \in ids
                               /\ \A t \in AttemptsOf(ids) \ tokens : attempts[t].run # r
                            THEN NoRun ELSE runs[r]]
    BY <1>10 DEF Prune
  <2>1. PICK tokens \in SUBSET AttemptsOf(ids) :
           /\ attempts' = [t \in Tokens |-> IF t \in tokens THEN NoAttempt ELSE attempts[t]]
           /\ runs' = [r \in RunIds |->
                         IF /\ r \in ids
                            /\ \A t \in AttemptsOf(ids) \ tokens : attempts[t].run # r
                         THEN NoRun ELSE runs[r]]
    BY <2>0
  <2>5. \A r \in RunIds : runs'[r] = runs[r] \/ (r \in ids /\ runs'[r] = NoRun)
    BY <2>1
  <2>2. \A r \in ids : r \in RunIds /\ runs[r].state \notin Leased
    BY DEF PeriodicCandidates, PrunableStates, Leased
  <2>3. NoRun.state \notin Leased /\ NoAttempt.state \notin Leased
    BY DEF NoRun, NoAttempt, Leased
  <2>4. \A t \in tokens : attempts[t].state \notin Leased
    BY <2>1, <2>2, EvidenceForm DEF AttemptsOf, OpenAttemptOf, LeasedRuns
  <2> QED
    BY <2>1, <2>2, <2>3, <2>4, <2>5, EvidenceUntouched
<1>11. CASE Tick
  BY <1>11 DEF Tick, LeaseEvidence, LeasedRuns
<1>12. CASE UNCHANGED vars
  BY <1>12 DEF vars, LeaseEvidence, LeasedRuns
<1> QED
  BY <1>1, <1>2, <1>3, <1>4, <1>5, <1>6, <1>7, <1>8, <1>9, <1>10, <1>11, <1>12 DEF Next

(* A completion is accepted only under the current lease, so a claim that  *)
(* is settled can never be settled again.                                  *)
LEMMA SettledStep ==
    ASSUME TypeOK, Fresh, LeaseEvidence, SettledIsOver, [Next]_vars
    PROVE  SettledIsOver'
<1>0. claims \in [Tokens -> Claims] /\ runs \in [RunIds -> RunRows]
  BY DEF TypeOK
<1>1. ASSUME NEW w \in Workers, NEW hs \in HandlerSets, NEW r \in RunIds, ClaimRun(w, hs, r)
      PROVE  SettledIsOver'
  <2>1. /\ \A t \in Tokens \ {lastToken + 1} : claims'[t] = claims[t]
        /\ lastToken + 1 \in Tokens => claims'[lastToken + 1].settled = 0
    BY <1>0, <1>1 DEF ClaimRun
  <2>2. /\ runs'[r].token = lastToken + 1
        /\ \A x \in RunIds \ {r} : LeaseKept(x)
    BY <1>1, ClaimedRow
  <2> QED
    BY <2>1, <2>2 DEF SettledIsOver, LeaseKept
<1>2. ASSUME NEW t \in Tokens, NEW outcome \in Outcomes, Finish(t, outcome)
      PROVE  SettledIsOver'
  <2> DEFINE r == claims[t].run
  <2>1. /\ r \in RunIds /\ runs[r].token = t /\ runs[r].state \in Leased
        /\ runs'[r].state \notin Leased
        /\ \A x \in RunIds \ {r} : runs'[x] = runs[x]
    BY <1>2, FinishedRow
  <2>2. claims[t].settled = 0
    BY <2>1 DEF SettledIsOver
  <2>3. claims'[t].settled = 1 /\ \A u \in Tokens \ {t} : claims'[u] = claims[u]
    <3>1. claims' = [claims EXCEPT ![t].settled = @ + 1]
      BY <1>2 DEF Finish
    <3> QED
      BY <1>0, <2>2, <3>1 DEF Claims
  <2>4. \A x \in RunIds \ {r} : runs[x].state \in Leased => runs[x].token # t
    BY <2>1 DEF LeaseEvidence, LeasedRuns
  <2> HIDE DEF r
  <2> QED
    BY <2>1, <2>3, <2>4 DEF SettledIsOver
<1>3. CASE /\ ~ \E w \in Workers, hs \in HandlerSets, r \in RunIds : ClaimRun(w, hs, r)
           /\ ~ \E t \in Tokens, outcome \in Outcomes : Finish(t, outcome)
  <2>1. claims' = claims
    BY <1>3 DEF Next, Submit, ImportUnknown, ClaimEmpty, RecordCancellation, CancelHandler,
                CancelRuns, Resolve, Schedule, ScheduleIdle, ScheduleSkip, ScheduleReuse,
                ScheduleInsert, ScheduleRebind, Prune, Tick, vars
  <2>2. \A x \in RunIds : LeaseKept(x)
    BY <1>3, LeasesKept
  <2> QED
    BY <2>1, <2>2 DEF SettledIsOver, LeaseKept
<1> QED
  BY <1>1, <1>2, <1>3

LEMMA InitEvidence == ASSUME Init PROVE EvidenceInv
<1>1. Fresh
  BY DEF Init, Fresh, NoRun
<1>2. LeaseEvidence
  BY InitNoLease DEF Init, LeaseEvidence, NoAttempt, Leased
<1>3. SettledIsOver
  BY DEF Init, SettledIsOver, NoClaim
<1> QED
  BY <1>1, <1>2, <1>3, InitType DEF EvidenceInv

LEMMA EvidenceInvariant == Spec => []EvidenceInv
<1>1. Init => EvidenceInv
  BY InitEvidence
<1>2. EvidenceInv /\ [Next]_vars => EvidenceInv'
  BY NextType, FreshStep, EvidenceStep, SettledStep DEF EvidenceInv
<1> QED
  BY <1>1, <1>2, PTL DEF Spec

(* Runs and attempts always tell the same story about a lease.             *)
THEOREM EvidenceAgrees == Spec => []LeaseEvidence
<1>1. EvidenceInv => LeaseEvidence
  BY DEF EvidenceInv
<1> QED
  BY <1>1, EvidenceInvariant, PTL

(* The completion fence of Finish: no lease is settled twice, whatever     *)
(* workers report, however late, and whichever rows are reused.            *)
THEOREM CompletionFence == Spec => []SettledOnce
<1>1. EvidenceInv => SettledOnce
  BY DEF EvidenceInv, SettledIsOver, SettledOnce
<1> QED
  BY <1>1, EvidenceInvariant, PTL

-----------------------------------------------------------------------------
(* The attempt budget                                                      *)

(* Whatever waits has an attempt left.                                     *)
BudgetInv ==
    \A r \in RunIds :
       /\ runs[r].attempts <= runs[r].job.max
       /\ runs[r].state \in Pending => runs[r].attempts < runs[r].job.max

(* A row that keeps its count, or was just queued, stays within budget.    *)
LEMMA BudgetRow ==
    ASSUME TypeOK, BudgetInv, NEW r \in RunIds, NEW row \in RunRows,
           \/ /\ row.job = runs[r].job /\ row.attempts = runs[r].attempts
              /\ row.state \in Pending => runs[r].state \in Pending
           \/ row.attempts = 0
    PROVE  /\ row.attempts <= row.job.max
           /\ row.state \in Pending => row.attempts < row.job.max
<1>1. row.job.max \in Nat \ {0}
  BY DEF RunRows, Jobs
<1> QED
  BY <1>1 DEF BudgetInv

LEMMA BudgetStep == ASSUME TypeOK, BudgetInv, [Next]_vars PROVE BudgetInv'
<1> DEFINE kept(r, row) ==
              \/ /\ row.job = runs[r].job /\ row.attempts = runs[r].attempts
                 /\ row.state \in Pending => runs[r].state \in Pending
              \/ row.attempts = 0
<1>0. runs \in [RunIds -> RunRows] /\ TypeOK' /\ runs' \in [RunIds -> RunRows]
  BY NextType DEF TypeOK
<1>A. ASSUME \A r \in RunIds : kept(r, runs'[r]) PROVE BudgetInv'
  BY <1>0, <1>A, BudgetRow DEF BudgetInv
<1>B. \A r \in RunIds : kept(r, runs[r]) /\ kept(r, ExpiredRuns[r])
  BY <1>0 DEF ExpiredRuns, RunRows, Pending
<1>1. ASSUME NEW in \in Submissions, Submit(in) PROVE BudgetInv'
  <2>1. \A r \in RunIds : runs'[r] = runs[r] \/ runs'[r].attempts = 0
    BY <1>0, <1>1, QueuedRunState DEF Submit
  <2> QED
    BY <1>A, <2>1
<1>2. ASSUME NEW in \in Imports, ImportUnknown(in) PROVE BudgetInv'
  <2>1. [QueuedRun(in, Empty, Nil) EXCEPT !.state = "unknown"].attempts = 0
    BY DEF QueuedRun, NoRun
  <2>2. \A r \in RunIds : runs'[r] = runs[r] \/ runs'[r].attempts = 0
    BY <1>0, <1>2, <2>1 DEF ImportUnknown
  <2> QED
    BY <1>A, <2>2
<1>3. ASSUME NEW hs \in HandlerSets, ClaimEmpty(hs) PROVE BudgetInv'
  <2>1. runs' = ExpiredRuns
    BY <1>3 DEF ClaimEmpty
  <2> QED
    BY <1>A, <1>B, <2>1
<1>4. ASSUME NEW w \in Workers, NEW hs \in HandlerSets, NEW r \in RunIds, ClaimRun(w, hs, r)
      PROVE  BudgetInv'
  <2>1. /\ runs[r].state \in Pending
        /\ runs'[r].job = runs[r].job
        /\ runs'[r].state = "running"
        /\ runs'[r].attempts = runs[r].attempts + 1
        /\ \A x \in RunIds \ {r} : runs'[x] = ExpiredRuns[x]
    BY <1>4, ClaimedRow
  <2>2. runs[r].attempts \in Nat /\ runs[r].job.max \in Nat
    BY <1>0 DEF RunRows, Jobs
  <2>3. runs'[r].attempts <= runs'[r].job.max /\ runs'[r].state \notin Pending
    BY <2>1, <2>2 DEF BudgetInv, Pending
  <2>4. ASSUME NEW x \in RunIds, x # r
        PROVE  /\ runs'[x].attempts <= runs'[x].job.max
               /\ runs'[x].state \in Pending => runs'[x].attempts < runs'[x].job.max
    <3>1. kept(x, runs'[x]) /\ runs'[x] \in RunRows
      BY <1>0, <1>B, <2>1, <2>4
    <3> QED
      BY <3>1, BudgetRow
  <2> QED
    BY <2>3, <2>4 DEF BudgetInv
<1>5. ASSUME NEW t \in Tokens, NEW outcome \in Outcomes, Finish(t, outcome) PROVE BudgetInv'
  <2> DEFINE r == claims[t].run
             state == RecordedOutcome(runs[r], outcome)
  <2>1. /\ r \in RunIds /\ runs'[r].state = state
        /\ runs'[r].job = runs[r].job /\ runs'[r].attempts = runs[r].attempts
        /\ \A x \in RunIds \ {r} : runs'[x] = runs[x]
    BY <1>5, FinishedRow
  <2>2. runs[r].attempts \in Nat /\ runs[r].job.max \in Nat
    BY <1>0, <2>1 DEF RunRows, Jobs
  <2>3. state \in Pending => runs[r].attempts < runs[r].job.max
    BY <2>1, <2>2 DEF RecordedOutcome, Pending, Outcomes
  <2> HIDE DEF r, state
  <2> QED
    BY <2>1, <2>3 DEF BudgetInv
<1>6. ASSUME NEW rs \in SUBSET RunIds, CancelRuns(rs) PROVE BudgetInv'
  <2>1. \A r \in RunIds : kept(r, runs'[r])
    BY <1>6, CanceledRow DEF Pending
  <2> QED
    BY <1>A, <2>1
<1>7. ASSUME NEW r \in RunIds, RecordCancellation(r) PROVE BudgetInv'
  BY <1>6, <1>7 DEF RecordCancellation
<1>8. ASSUME NEW h \in Handlers, CancelHandler(h) PROVE BudgetInv'
  BY <1>6, <1>8 DEF CancelHandler
<1>9. ASSUME NEW r \in RunIds, NEW state \in {"succeeded", "failed"}, Resolve(r, state)
      PROVE  BudgetInv'
  <2>1. \A x \in RunIds : kept(x, runs'[x])
    BY <1>0, <1>9 DEF Resolve, RunRows, Pending
  <2> QED
    BY <1>A, <2>1
<1>10. ASSUME NEW d \in Definitions, Schedule(d) PROVE BudgetInv'
  <2>1. \A r \in RunIds : \/ runs'[r] = ReconciledRuns(d)[r]
                          \/ runs'[r].attempts = 0
    BY <1>10, ScheduleTypes, QueuedRunState DEF Schedule, ScheduleIdle, ScheduleSkip,
       ScheduleReuse, ScheduleInsert, ScheduleRebind
  <2>2. \A r \in RunIds : kept(r, ReconciledRuns(d)[r])
    <3> SUFFICES ASSUME NEW r \in RunIds PROVE kept(r, ReconciledRuns(d)[r])
      OBVIOUS
    <3>1. kept(r, [runs[r] EXCEPT !.state = "interrupted"])
      BY <1>0 DEF RunRows, Pending
    <3> QED
      BY <3>1, ReconciledRow
  <2> QED
    BY <1>A, <2>1, <2>2
<1>11. ASSUME NEW state \in PrunableStates, Prune(state) PROVE BudgetInv'
  <2>1. \A r \in RunIds : runs'[r] = runs[r] \/ runs'[r] = NoRun
    BY <1>11 DEF Prune
  <2>2. NoRun.attempts = 0
    BY DEF NoRun
  <2> QED
    BY <1>A, <2>1, <2>2
<1>12. CASE Tick
  BY <1>12 DEF Tick, BudgetInv
<1>13. CASE UNCHANGED vars
  BY <1>13 DEF vars, BudgetInv
<1> QED
  BY <1>1, <1>2, <1>3, <1>4, <1>5, <1>7, <1>8, <1>9, <1>10, <1>11, <1>12, <1>13 DEF Next

(* No run is ever leased more often than its submission allows, through    *)
(* retries, expiries, cancellations and reused rows (store.go:398).        *)
THEOREM BudgetKept == Spec => []AttemptBudget
<1>1. Init => BudgetInv
  BY DEF Init, BudgetInv, NoRun, NoJob
<1>2. TypeOK /\ BudgetInv /\ [Next]_vars => BudgetInv'
  BY BudgetStep
<1>3. BudgetInv => AttemptBudget
  BY DEF BudgetInv, AttemptBudget
<1> QED
  BY <1>1, <1>2, <1>3, TypeCorrect, PTL DEF Spec
=============================================================================
