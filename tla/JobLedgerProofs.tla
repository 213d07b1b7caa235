--------------------------- MODULE JobLedgerProofs ---------------------------
(***************************************************************************)
(* Safety proofs for the job ledger, for every set of submissions,         *)
(* definitions, workers and every value of the bounds.                     *)
(***************************************************************************)
EXTENDS JobLedger, FiniteSetTheorems, TLAPS

-----------------------------------------------------------------------------
(* Types of the values the transactions compute                            *)

LEMMA DefaultRows ==
    /\ NoJob \in Jobs /\ NoRun \in RunRows /\ NoAttempt \in AttemptRows
    /\ NoSchedule \in ScheduleRows /\ NoClaim \in Claims
<1>0. Empty \in Text /\ CoreLane \in Lanes /\ 0 \in 0 .. MaxRuns /\ 0 \in 0 .. MaxTokens
  <2>2. Empty \in Text /\ CoreLane \in Lanes
    BY NamesAssumption
  <2>3. 0 \in 0 .. MaxRuns /\ 0 \in 0 .. MaxTokens
    BY BoundsAssumption
  <2> QED
    BY <2>2, <2>3
<1>1. NoKey \in Keys /\ NoJob \in Jobs
  BY <1>0 DEF NoKey, Keys, NoJob, Jobs, Nil
<1>2. NoRun \in RunRows
  BY <1>0, <1>1 DEF NoRun, RunRows, States, Nil
<1>3. NoAttempt \in AttemptRows
  BY <1>0 DEF NoAttempt, AttemptRows, States, Nil
<1>4. NoPlan \in Plans
  BY <1>0 DEF NoPlan, Plans, Nil
<1>5. NoSchedule \in ScheduleRows
  BY <1>0, <1>4 DEF NoSchedule, ScheduleRows, Nil
<1>6. NoClaim \in Claims
  BY <1>0, <1>1 DEF NoClaim, Claims
<1> QED
  BY <1>1, <1>2, <1>3, <1>5, <1>6

LEMMA ClockType == ASSUME TypeOK PROVE clock \in Int
BY BoundsAssumption DEF TypeOK

LEMMA QueuedRunType ==
    ASSUME TypeOK, NEW in \in Jobs, NEW s \in ScheduleIds \cup {Empty}, NEW p \in Int
    PROVE  QueuedRun(in, s, p) \in RunRows
<1>1. in.notBefore \in Int /\ clock \in Int
  BY ClockType DEF Jobs
<1> QED
  BY <1>1, DefaultRows DEF QueuedRun, RunRows, States, Unresolved, Pending

LEMMA ExpiredTypes ==
    ASSUME TypeOK
    PROVE  /\ ExpiredRuns \in [RunIds -> RunRows]
           /\ ExpiredAttempts \in [Tokens -> AttemptRows]
           /\ ExpiredSchedules \in [ScheduleIds -> ScheduleRows]
<1>1. clock \in Int
  BY ClockType
<1>2. ExpiredRuns \in [RunIds -> RunRows]
  <2>1. runs \in [RunIds -> RunRows]
    BY DEF TypeOK
  <2> QED
    BY <1>1, <2>1 DEF ExpiredRuns, RunRows, States, Unresolved
<1>3. ExpiredAttempts \in [Tokens -> AttemptRows]
  BY <1>1 DEF TypeOK, ExpiredAttempts, AttemptRows, States, Unresolved
<1>4. ExpiredSchedules \in [ScheduleIds -> ScheduleRows]
  <2>1. schedules \in [ScheduleIds -> ScheduleRows]
    BY DEF TypeOK
  <2> QED
    <3> SUFFICES ASSUME NEW s \in ScheduleIds
                 PROVE  [schedules[s] EXCEPT !.state = "unknown", !.failures = @ + 1]
                           \in ScheduleRows
      BY <2>1 DEF ExpiredSchedules
    <3>1. schedules[s] \in ScheduleRows /\ schedules[s].failures + 1 \in Nat
      BY <2>1 DEF ScheduleRows
    <3>2. "unknown" \in States
      BY DEF States, Unresolved
    <3> QED
      BY <3>1, <3>2 DEF ScheduleRows
<1> QED
  BY <1>2, <1>3, <1>4

LEMMA DefinitionType ==
    ASSUME NEW d \in Definitions
    PROVE  d \in [id : ScheduleIds, plan : Plans, immediate : BOOLEAN,
                  reconcile : BOOLEAN, suppress : BOOLEAN]
BY InputsAssumption

LEMMA SlotTypes ==
    ASSUME TypeOK, NEW row \in ScheduleRows
    PROVE  PlannedSlot(row) \in Int /\ NextSlot(row) \in Int
<1>1. clock \in Int /\ row.nextAt \in Int /\ row.plan.interval \in Nat \ {0}
  BY ClockType DEF ScheduleRows, Plans
<1>2. DueSteps(row.nextAt, row.plan.interval) \in Int
  BY <1>1 DEF DueSteps
<1> QED
  BY <1>1, <1>2 DEF PlannedSlot, NextSlot

LEMMA ScheduleTypes ==
    ASSUME TypeOK, NEW d \in Definitions
    PROVE  /\ ScheduleRow(d) \in ScheduleRows
           /\ ReconciledRuns(d) \in [RunIds -> RunRows]
           /\ AdoptedRow(d) \in ScheduleRows
           /\ ScheduledJob(d) \in Jobs
           /\ PlannedSlot(AdoptedRow(d)) \in Int
<1>1. /\ clock \in Int /\ YieldDelay \in Int
      /\ d.id \in ScheduleIds /\ d.id \in Text /\ d.plan \in Plans
  <2>1. clock \in Int /\ YieldDelay \in Int
    BY ClockType, BoundsAssumption
  <2>2. d.id \in ScheduleIds /\ d.plan \in Plans
    BY DefinitionType
  <2> QED
    BY <2>1, <2>2, NamesAssumption
<1>2. FirstPlannedAt(d) \in Int
  BY <1>1 DEF FirstPlannedAt, Plans
<1>3. ScheduleRow(d) \in ScheduleRows
  BY <1>1, <1>2, DefaultRows DEF ScheduleRow, TypeOK, ScheduleRows
<1>4. ReconciledRuns(d) \in [RunIds -> RunRows]
  <2>1. runs \in [RunIds -> RunRows]
    BY DEF TypeOK
  <2> QED
    <3>1. "interrupted" \in States
      BY DEF States, Terminal
    <3>2. \A r : [runs EXCEPT ![r].state = "interrupted"] \in [RunIds -> RunRows]
      BY <2>1, <3>1 DEF RunRows
    <3> QED
      BY <2>1, <3>2 DEF ReconciledRuns
<1>5. DetachedRow(d) \in ScheduleRows
  <2> DEFINE row == ScheduleRow(d)
             state == ReconciledRuns(d)[row.run].state
  <2>1. CASE row.run = 0
    BY <2>1, <1>3 DEF DetachedRow
  <2>2. CASE row.run # 0
    <3>1. row.run \in RunIds
      BY <2>2, <1>3, BoundsAssumption DEF ScheduleRows, RunIds
    <3>2. state \in States
      BY <3>1, <1>4 DEF RunRows
    <3>3. row.nextAt \in Int
      BY <1>3 DEF ScheduleRows
    <3> DEFINE next == IF state = "yielded" /\ row.nextAt > clock + YieldDelay
                       THEN clock + YieldDelay ELSE row.nextAt
    <3>4. DetachedRow(d) = [row EXCEPT !.run = 0, !.state = state, !.nextAt = next]
      BY <2>2 DEF DetachedRow
    <3>5. next \in Int /\ 0 \in 0 .. MaxRuns
      BY <3>3, <1>1, BoundsAssumption
    <3>6. row \in ScheduleRows
      BY <1>3
    <3> HIDE DEF row, state, next
    <3> QED
      BY <3>2, <3>4, <3>5, <3>6 DEF ScheduleRows
  <2> QED
    BY <2>1, <2>2
<1>6. AdoptedRow(d) \in ScheduleRows
  <2>1. 0 \in 0 .. MaxRuns
    BY BoundsAssumption
  <2> QED
    BY <1>1, <1>2, <1>5, <2>1 DEF AdoptedRow, ScheduleRows
<1>7. PlannedSlot(AdoptedRow(d)) \in Int
  BY <1>6, SlotTypes
<1>8. ScheduledJob(d) \in Jobs
  BY <1>1, <1>7 DEF ScheduledJob, Jobs, Keys, Plans, Nil
<1> QED
  BY <1>3, <1>4, <1>6, <1>7, <1>8

LEMMA DispatchedRowType ==
    ASSUME TypeOK, NEW d \in Definitions, NEW r \in RunIds
    PROVE  DispatchedRow(d, r) \in ScheduleRows
<1>1. AdoptedRow(d) \in ScheduleRows /\ NextSlot(AdoptedRow(d)) \in Int
  BY ScheduleTypes, SlotTypes
<1>2. r \in 0 .. MaxRuns
  BY DEF RunIds
<1> QED
  BY <1>1, <1>2 DEF DispatchedRow, ScheduleRows, States, Unresolved, Pending

-----------------------------------------------------------------------------
(* Type correctness                                                        *)

LEMMA StateNames ==
    /\ "queued" \in States /\ "running" \in States /\ "unknown" \in States
    /\ "cancel_requested" \in States /\ "canceled" \in States
    /\ "succeeded" \in States /\ "failed" \in States
    /\ Outcomes \subseteq States
BY DEF States, Unresolved, Pending, Leased, Terminal, Outcomes

LEMMA InsertedRunType ==
    ASSUME TypeOK, NEW in \in Jobs, Insertable(in), NEW row \in RunRows
    PROVE  /\ lastRun + 1 \in RunIds /\ lastRun + 1 \in 0 .. MaxRuns
           /\ [runs EXCEPT ![lastRun + 1] = row] \in [RunIds -> RunRows]
<1>1. lastRun \in 0 .. MaxRuns /\ lastRun < MaxRuns /\ runs \in [RunIds -> RunRows]
  BY DEF TypeOK, Insertable
<1> QED
  BY <1>1, BoundsAssumption DEF RunIds

LEMMA SubmitType == ASSUME TypeOK, NEW in \in Submissions, Submit(in) PROVE TypeOK'
<1>1. in \in Jobs
  BY InputsAssumption
<1>2. QueuedRun(in, Empty, Nil) \in RunRows
  BY <1>1, QueuedRunType DEF Nil
<1>3. lastRun' \in 0 .. MaxRuns /\ runs' \in [RunIds -> RunRows]
  BY <1>1, <1>2, InsertedRunType DEF Submit
<1> QED
  BY <1>3 DEF Submit, TypeOK, LaneTypeOK, laneVars

LEMMA ImportUnknownType == ASSUME TypeOK, NEW in \in Imports, ImportUnknown(in) PROVE TypeOK'
<1>1. in \in Jobs
  BY InputsAssumption
<1>2. [QueuedRun(in, Empty, Nil) EXCEPT !.state = "unknown"] \in RunRows
  <2>1. QueuedRun(in, Empty, Nil) \in RunRows
    BY <1>1, QueuedRunType DEF Nil
  <2> QED
    BY <2>1, StateNames DEF RunRows
<1>3. lastRun' \in 0 .. MaxRuns /\ runs' \in [RunIds -> RunRows]
  BY <1>1, <1>2, InsertedRunType DEF ImportUnknown
<1> QED
  BY <1>3 DEF ImportUnknown, TypeOK, LaneTypeOK, laneVars

LEMMA ClaimEmptyType == ASSUME TypeOK, NEW hs \in HandlerSets, ClaimEmpty(hs) PROVE TypeOK'
BY ExpiredTypes DEF ClaimEmpty, TypeOK, LaneTypeOK, laneVars

LEMMA ChargeLaneType ==
    ASSUME LaneTypeOK, NEW l \in Lanes, ChargeLane(l)
    PROVE  LaneTypeOK'
<1>1. Effective(l) \in Nat /\ Quantum(l) \in Nat
  BY DEF Effective, Quantum, dispatchWeight, LaneTypeOK
<1> QED
  BY <1>1 DEF ChargeLane, LaneTypeOK

LEMMA ClaimRunType ==
    ASSUME TypeOK, NEW w \in Workers, NEW hs \in HandlerSets, NEW r \in RunIds,
           ClaimRun(w, hs, r)
    PROVE  TypeOK'
<1>1. ExpiredRuns[r] \in RunRows
  BY ExpiredTypes
<1>2. /\ ExpiredRuns[r].job.lane \in Lanes
      /\ ExpiredRuns[r].job.owner \in Text
      /\ ExpiredRuns[r].job.key \in Keys
      /\ ExpiredRuns[r].attempts + 1 \in Nat
  BY <1>1 DEF RunRows, Jobs
<1>3. clock + LeaseTimeout(ExpiredRuns, r) \in Int
  <2>1. clock \in Int /\ DefaultTimeout \in Int
    BY ClockType, BoundsAssumption
  <2>2. ExpiredRuns[r].job.timeout \in Int /\ ExpiredRuns[r].schedule \in ScheduleIds \cup {Empty}
    BY <1>1 DEF RunRows, Jobs
  <2>3. \A s \in ScheduleIds : schedules[s].plan.timeout \in Int
    <3>1. schedules \in [ScheduleIds -> ScheduleRows]
      BY DEF TypeOK
    <3> QED
      BY <3>1 DEF ScheduleRows, Plans
  <2> QED
    BY <2>1, <2>2, <2>3 DEF LeaseTimeout
<1>4. lastToken + 1 \in Tokens /\ lastToken + 1 \in 0 .. MaxTokens
  <2>1. lastToken \in 0 .. MaxTokens /\ lastToken < MaxTokens
    BY DEF TypeOK, ClaimRun
  <2> QED
    BY <2>1, BoundsAssumption DEF Tokens
<1>5. r \in 0 .. MaxRuns
  BY DEF RunIds
<1>6. runs' \in [RunIds -> RunRows]
  <2>1. runs' = [ExpiredRuns EXCEPT ![r] =
                   [@ EXCEPT !.state = "running", !.token = lastToken + 1, !.worker = w,
                             !.expiresAt = clock + LeaseTimeout(ExpiredRuns, r),
                             !.attempts = ExpiredRuns[r].attempts + 1]]
    BY DEF ClaimRun
  <2> QED
    BY <1>1, <1>2, <1>3, <1>4, <2>1, ExpiredTypes, StateNames DEF RunRows
<1>7. attempts' \in [Tokens -> AttemptRows]
  <2>1. attempts' = [ExpiredAttempts EXCEPT ![lastToken + 1] =
                       [run |-> r, number |-> ExpiredRuns[r].attempts + 1, worker |-> w,
                        state |-> "running",
                        expiresAt |-> clock + LeaseTimeout(ExpiredRuns, r),
                        finishedAt |-> Nil]]
    BY DEF ClaimRun
  <2>2. [run |-> r, number |-> ExpiredRuns[r].attempts + 1, worker |-> w,
         state |-> "running", expiresAt |-> clock + LeaseTimeout(ExpiredRuns, r),
         finishedAt |-> Nil] \in AttemptRows
    BY <1>2, <1>3, <1>5, StateNames DEF AttemptRows, Nil
  <2> QED
    BY <2>1, <2>2, ExpiredTypes
<1>8. schedules' \in [ScheduleIds -> ScheduleRows]
  <2>1. ExpiredSchedules \in [ScheduleIds -> ScheduleRows]
    BY ExpiredTypes
  <2>2. \A x \in ScheduleIds :
           [ExpiredSchedules[x] EXCEPT !.state = "running", !.runs = @ + 1] \in ScheduleRows
    <3> SUFFICES ASSUME NEW x \in ScheduleIds
                 PROVE  [ExpiredSchedules[x] EXCEPT !.state = "running", !.runs = @ + 1]
                           \in ScheduleRows
      OBVIOUS
    <3>1. ExpiredSchedules[x] \in ScheduleRows /\ ExpiredSchedules[x].runs + 1 \in Nat
      BY <2>1 DEF ScheduleRows
    <3> QED
      BY <3>1, StateNames DEF ScheduleRows
  <2> QED
    BY <2>1, <2>2 DEF ClaimRun
<1>9. claims' \in [Tokens -> Claims]
  <2>1. claims' = [claims EXCEPT ![lastToken + 1] =
                     [run |-> r, worker |-> w, owner |-> ExpiredRuns[r].job.owner,
                      key |-> ExpiredRuns[r].job.key,
                      number |-> ExpiredRuns[r].attempts + 1, settled |-> 0]]
    BY DEF ClaimRun
  <2>2. claims \in [Tokens -> Claims]
    BY DEF TypeOK
  <2> QED
    BY <1>2, <1>5, <2>1, <2>2 DEF Claims
<1>10. LaneTypeOK'
  BY <1>2, ChargeLaneType DEF ClaimRun, TypeOK
<1> QED
  BY <1>4, <1>6, <1>7, <1>8, <1>9, <1>10 DEF ClaimRun, TypeOK

LEMMA RecordedOutcomeType ==
    ASSUME NEW run \in RunRows, NEW outcome \in Outcomes
    PROVE  RecordedOutcome(run, outcome) \in Outcomes
BY DEF RecordedOutcome, Outcomes

LEMMA RetryDelayType ==
    ASSUME NEW backoff, NEW number
    PROVE  RetryDelay(backoff, number) \in Int
BY BoundsAssumption DEF RetryDelay

LEMMA FinishType ==
    ASSUME TypeOK, NEW t \in Tokens, NEW outcome \in Outcomes, Finish(t, outcome)
    PROVE  TypeOK'
<1> DEFINE r == claims[t].run
           state == RecordedOutcome(runs[r], outcome)
<1>1. runs \in [RunIds -> RunRows] /\ clock \in Int /\ claims \in [Tokens -> Claims]
  BY ClockType DEF TypeOK
<1>2. r \in RunIds
  BY DEF Finish, HoldsLease
<1>3. state \in States
  BY <1>1, <1>2, RecordedOutcomeType, StateNames
<1>4. clock + RetryDelay(runs[r].job.backoff, runs[r].attempts) \in Int
  BY <1>1, RetryDelayType
<1>5. runs' \in [RunIds -> RunRows]
  <2> DEFINE waiting == [runs[r] EXCEPT !.state = state,
                            !.notBefore = clock + RetryDelay(runs[r].job.backoff,
                                                             runs[r].attempts),
                            !.finishedAt = Nil, !.token = 0,
                            !.worker = Empty, !.expiresAt = Nil]
             ended == [runs[r] EXCEPT !.state = state, !.finishedAt = clock]
  <2>1. runs' = [runs EXCEPT ![r] = IF state = "retry_wait" THEN waiting ELSE ended]
    BY <1>1, <1>2 DEF Finish
  <2>2. waiting \in RunRows
    <3>1. Nil \in Int /\ 0 \in 0 .. MaxTokens
      BY BoundsAssumption DEF Nil
    <3>2. runs[r] \in RunRows
      BY <1>1, <1>2
    <3> HIDE DEF state, r
    <3> QED
      BY <1>3, <1>4, <3>1, <3>2 DEF RunRows
  <2>3. ended \in RunRows
    <3>1. runs[r] \in RunRows
      BY <1>1, <1>2
    <3> HIDE DEF state, r
    <3> QED
      BY <1>1, <1>3, <3>1 DEF RunRows
  <2> HIDE DEF waiting, ended, state, r
  <2> QED
    BY <1>1, <1>2, <2>1, <2>2, <2>3
<1>6. attempts' \in [Tokens -> AttemptRows]
  <2>1. attempts' = [attempts EXCEPT ![t].state = state, ![t].finishedAt = clock]
    BY DEF Finish
  <2>2. attempts \in [Tokens -> AttemptRows]
    BY DEF TypeOK
  <2> HIDE DEF state
  <2> QED
    BY <1>1, <1>3, <2>1, <2>2 DEF AttemptRows
<1>7. schedules' \in [ScheduleIds -> ScheduleRows]
  <2>1. schedules \in [ScheduleIds -> ScheduleRows]
    BY DEF TypeOK
  <2>2. \A s \in ScheduleIds :
           [schedules[s] EXCEPT !.state = state,
                                !.failures = IF state \in {"failed", "unknown"}
                                             THEN @ + 1 ELSE @] \in ScheduleRows
    <3> SUFFICES ASSUME NEW s \in ScheduleIds
                 PROVE  [schedules[s] EXCEPT !.state = state,
                                !.failures = IF state \in {"failed", "unknown"}
                                             THEN @ + 1 ELSE @] \in ScheduleRows
      OBVIOUS
    <3> HIDE DEF state
    <3>1. schedules[s] \in ScheduleRows /\ schedules[s].failures \in Nat
      BY <2>1 DEF ScheduleRows
    <3>2. (IF state \in {"failed", "unknown"} THEN schedules[s].failures + 1
                                              ELSE schedules[s].failures) \in Nat
      BY <3>1
    <3> QED
      BY <3>1, <3>2, <1>3 DEF ScheduleRows
  <2> QED
    BY <2>1, <2>2 DEF Finish
<1>8. claims' \in [Tokens -> Claims]
  <2>1. claims' = [claims EXCEPT ![t].settled = @ + 1]
    BY DEF Finish
  <2>2. claims[t] \in Claims /\ claims[t].settled + 1 \in Nat
    BY <1>1 DEF Claims
  <2> QED
    BY <1>1, <2>1, <2>2 DEF Claims
<1> QED
  BY <1>5, <1>6, <1>7, <1>8 DEF Finish, TypeOK, LaneTypeOK, laneVars

LEMMA CancelRunsType ==
    ASSUME TypeOK, NEW rs \in SUBSET RunIds, CancelRuns(rs)
    PROVE  TypeOK'
<1>1. clock \in Int
  BY ClockType
<1>2. runs' \in [RunIds -> RunRows]
  <2>1. runs \in [RunIds -> RunRows]
    BY DEF TypeOK
  <2>2. \A r \in RunIds :
           /\ [runs[r] EXCEPT !.state = "cancel_requested"] \in RunRows
           /\ [runs[r] EXCEPT !.state = "canceled", !.finishedAt = clock] \in RunRows
    BY <1>1, <2>1, StateNames DEF RunRows
  <2> QED
    BY <2>1, <2>2 DEF CancelRuns
<1>3. attempts' \in [Tokens -> AttemptRows]
  <2>1. attempts \in [Tokens -> AttemptRows]
    BY DEF TypeOK
  <2>2. \A t \in Tokens :
           [attempts[t] EXCEPT !.state = "cancel_requested"] \in AttemptRows
    BY <2>1, StateNames DEF AttemptRows
  <2> QED
    BY <2>1, <2>2 DEF CancelRuns
<1>4. schedules' \in [ScheduleIds -> ScheduleRows]
  <2>1. schedules \in [ScheduleIds -> ScheduleRows]
    BY DEF TypeOK
  <2>2. \A s \in ScheduleIds :
           [schedules[s] EXCEPT !.state = CanceledState(runs[schedules[s].run].state)]
              \in ScheduleRows
    BY <2>1, StateNames DEF ScheduleRows, CanceledState
  <2> QED
    BY <2>1, <2>2 DEF CancelRuns
<1> QED
  BY <1>2, <1>3, <1>4 DEF CancelRuns, TypeOK, LaneTypeOK, laneVars

LEMMA ResolveType ==
    ASSUME TypeOK, NEW r \in RunIds, NEW state \in {"succeeded", "failed"},
           Resolve(r, state)
    PROVE  TypeOK'
<1>1. runs \in [RunIds -> RunRows] /\ clock \in Int /\ state \in States
  BY ClockType, StateNames DEF TypeOK
<1>2. runs' \in [RunIds -> RunRows]
  BY <1>1 DEF Resolve, RunRows
<1> QED
  BY <1>2 DEF Resolve, TypeOK, LaneTypeOK, laneVars

LEMMA ScheduleType == ASSUME TypeOK, NEW d \in Definitions, Schedule(d) PROVE TypeOK'
<1>0. /\ schedules \in [ScheduleIds -> ScheduleRows]
      /\ attempts \in [Tokens -> AttemptRows]
      /\ d.id \in ScheduleIds
  BY DefinitionType DEF TypeOK
<1>1. CASE ScheduleIdle(d)
  <2>1. runs' \in [RunIds -> RunRows] /\ schedules' \in [ScheduleIds -> ScheduleRows]
    BY <1>0, <1>1, ScheduleTypes DEF ScheduleIdle
  <2> QED
    BY <1>1, <2>1 DEF ScheduleIdle, TypeOK, LaneTypeOK, laneVars
<1>2. CASE ScheduleSkip(d)
  <2>1. [AdoptedRow(d) EXCEPT !.nextAt = NextSlot(AdoptedRow(d))] \in ScheduleRows
    BY ScheduleTypes, SlotTypes DEF ScheduleRows
  <2>2. runs' \in [RunIds -> RunRows] /\ schedules' \in [ScheduleIds -> ScheduleRows]
    BY <1>0, <1>2, <2>1, ScheduleTypes DEF ScheduleSkip
  <2> QED
    BY <1>2, <2>2 DEF ScheduleSkip, TypeOK, LaneTypeOK, laneVars
<1>3. CASE ScheduleReuse(d)
  <2> DEFINE c == AdoptedRow(d).compactRun
             row == QueuedRun(ScheduledJob(d), d.id, PlannedSlot(AdoptedRow(d)))
  <2>1. c \in RunIds
    <3>1. c # 0
      BY <1>3 DEF ScheduleReuse, Reusable
    <3>2. c \in 0 .. MaxRuns
      BY ScheduleTypes DEF ScheduleRows
    <3> QED
      BY <3>1, <3>2, BoundsAssumption DEF RunIds
  <2>2. row \in RunRows
    BY <1>0, ScheduleTypes, QueuedRunType
  <2>3. runs' \in [RunIds -> RunRows]
    <3>1. runs' = [ReconciledRuns(d) EXCEPT ![c] = row]
      BY <1>3 DEF ScheduleReuse
    <3> QED
      BY <2>2, <3>1, ScheduleTypes
  <2>4. attempts' \in [Tokens -> AttemptRows]
    BY <1>0, <1>3, DefaultRows DEF ScheduleReuse
  <2>5. schedules' \in [ScheduleIds -> ScheduleRows]
    <3>1. schedules' = [schedules EXCEPT ![d.id] = DispatchedRow(d, c)]
      BY <1>3 DEF ScheduleReuse
    <3>2. DispatchedRow(d, c) \in ScheduleRows
      BY <2>1, DispatchedRowType
    <3> QED
      BY <1>0, <3>1, <3>2
  <2> QED
    BY <1>3, <2>3, <2>4, <2>5 DEF ScheduleReuse, TypeOK, LaneTypeOK, laneVars
<1>4. CASE ScheduleInsert(d)
  <2> DEFINE row == QueuedRun(ScheduledJob(d), d.id, PlannedSlot(AdoptedRow(d)))
  <2>1. row \in RunRows
    BY <1>0, ScheduleTypes, QueuedRunType
  <2>2. lastRun + 1 \in RunIds /\ lastRun' \in 0 .. MaxRuns
    <3>1. Insertable(ScheduledJob(d)) /\ lastRun' = lastRun + 1 /\ ScheduledJob(d) \in Jobs
      BY <1>4, ScheduleTypes DEF ScheduleInsert
    <3> QED
      BY <2>1, <3>1, InsertedRunType
  <2>3. runs' \in [RunIds -> RunRows]
    <3>1. runs' = [ReconciledRuns(d) EXCEPT ![lastRun + 1] = row]
      BY <1>4 DEF ScheduleInsert
    <3> QED
      BY <2>1, <3>1, ScheduleTypes
  <2>4. schedules' \in [ScheduleIds -> ScheduleRows]
    <3>1. schedules' = [schedules EXCEPT ![d.id] = DispatchedRow(d, lastRun + 1)]
      BY <1>4 DEF ScheduleInsert
    <3>2. DispatchedRow(d, lastRun + 1) \in ScheduleRows
      BY <2>2, DispatchedRowType
    <3> QED
      BY <1>0, <3>1, <3>2
  <2> QED
    BY <1>4, <2>2, <2>3, <2>4 DEF ScheduleInsert, TypeOK, LaneTypeOK, laneVars
<1>5. CASE ScheduleRebind(d)
  <2>1. PICK r \in RunIds : /\ runs' = ReconciledRuns(d)
                            /\ schedules' = [schedules EXCEPT ![d.id] = DispatchedRow(d, r)]
    BY <1>5 DEF ScheduleRebind, Existing
  <2>2. runs' \in [RunIds -> RunRows] /\ schedules' \in [ScheduleIds -> ScheduleRows]
    BY <1>0, <2>1, ScheduleTypes, DispatchedRowType
  <2> QED
    BY <1>5, <2>2 DEF ScheduleRebind, TypeOK, LaneTypeOK, laneVars
<1> QED
  BY <1>1, <1>2, <1>3, <1>4, <1>5 DEF Schedule

LEMMA PruneType == ASSUME TypeOK, NEW state \in PrunableStates, Prune(state) PROVE TypeOK'
<1>1. /\ runs \in [RunIds -> RunRows] /\ attempts \in [Tokens -> AttemptRows]
      /\ NoRun \in RunRows /\ NoAttempt \in AttemptRows
  BY DefaultRows DEF TypeOK
<1>2. runs' \in [RunIds -> RunRows] /\ attempts' \in [Tokens -> AttemptRows]
  BY <1>1 DEF Prune
<1> QED
  BY <1>2 DEF Prune, TypeOK, LaneTypeOK, laneVars

LEMMA TickType == ASSUME TypeOK, Tick PROVE TypeOK'
<1>1. clock' \in 0 .. MaxTime
  BY BoundsAssumption DEF TypeOK, Tick
<1> QED
  BY <1>1 DEF Tick, TypeOK, LaneTypeOK, laneVars

LEMMA InitType == ASSUME Init PROVE TypeOK
<1>1. clock \in 0 .. MaxTime /\ lastRun \in 0 .. MaxRuns /\ lastToken \in 0 .. MaxTokens
  BY BoundsAssumption DEF Init
<1>2. LaneTypeOK
  BY DEF Init, LaneInit, LaneTypeOK
<1> QED
  BY <1>1, <1>2, DefaultRows DEF Init, TypeOK

LEMMA NextType == ASSUME TypeOK, [Next]_vars PROVE TypeOK'
<1>1. ASSUME NEW in \in Submissions, Submit(in) PROVE TypeOK'
  BY <1>1, SubmitType
<1>2. ASSUME NEW in \in Imports, ImportUnknown(in) PROVE TypeOK'
  BY <1>2, ImportUnknownType
<1>3. ASSUME NEW hs \in HandlerSets, ClaimEmpty(hs) PROVE TypeOK'
  BY <1>3, ClaimEmptyType
<1>4. ASSUME NEW w \in Workers, NEW hs \in HandlerSets, NEW r \in RunIds, ClaimRun(w, hs, r)
      PROVE  TypeOK'
  BY <1>4, ClaimRunType
<1>5. ASSUME NEW t \in Tokens, NEW outcome \in Outcomes, Finish(t, outcome) PROVE TypeOK'
  BY <1>5, FinishType
<1>6. ASSUME NEW r \in RunIds, RecordCancellation(r) PROVE TypeOK'
  BY <1>6, CancelRunsType DEF RecordCancellation
<1>7. ASSUME NEW h \in Handlers, CancelHandler(h) PROVE TypeOK'
  BY <1>7, CancelRunsType DEF CancelHandler
<1>8. ASSUME NEW r \in RunIds, NEW state \in {"succeeded", "failed"}, Resolve(r, state)
      PROVE  TypeOK'
  BY <1>8, ResolveType
<1>9. ASSUME NEW d \in Definitions, Schedule(d) PROVE TypeOK'
  BY <1>9, ScheduleType
<1>10. ASSUME NEW state \in PrunableStates, Prune(state) PROVE TypeOK'
  BY <1>10, PruneType
<1>11. CASE Tick
  BY <1>11, TickType
<1>12. CASE UNCHANGED vars
  BY <1>12 DEF vars, TypeOK, LaneTypeOK
<1> QED
  BY <1>1, <1>2, <1>3, <1>4, <1>5, <1>6, <1>7, <1>8, <1>9, <1>10, <1>11, <1>12 DEF Next

(* Every transaction leaves well-formed rows, and the lane clocks natural  *)
(* numbers, whatever is submitted, scheduled, cancelled or lost.           *)
THEOREM TypeCorrect == Spec => []TypeOK
<1>1. Init => TypeOK
  BY InitType
<1>2. TypeOK /\ [Next]_vars => TypeOK'
  BY NextType
<1> QED
  BY <1>1, <1>2, PTL DEF Spec
=============================================================================
