-------------------------- MODULE JobScheduleProofs --------------------------
(***************************************************************************)
(* What the ledger promises about schedules and about intents over time,   *)
(* proved for every ledger: one unresolved run per schedule, failures that *)
(* are counted once, an intent that is over once an attempt of it was      *)
(* lost, a bounded backlog, the life of a run and of its evidence.         *)
(***************************************************************************)
EXTENDS JobLeaseProofs

-----------------------------------------------------------------------------
(* The invariants                                                          *)

Present(r) == runs[r].state # "absent"

(* A run of a schedule is keyed by the schedule and the slot; other runs   *)
(* are keyed by something else.  A row that is gone belongs to nobody.     *)
SlotKeys ==
    \A r \in RunIds :
       /\ runs[r].schedule # Empty =>
             /\ Present(r)
             /\ runs[r].job.key.name = runs[r].schedule
             /\ runs[r].job.key.slot = runs[r].plannedAt
       /\ Present(r) /\ runs[r].schedule = Empty =>
             runs[r].job.key.name \notin ScheduleIds

(* A schedule that was never reconciled refers to no run.                  *)
UnbornIsBlank ==
    \A s \in ScheduleIds :
       ~ schedules[s].exists => schedules[s].run = 0 /\ schedules[s].compactRun = 0

(* The row kept for reuse stands for a slot that came due, and the next    *)
(* slot of the schedule lies behind it.                                    *)
SlotsAdvance ==
    \A s \in ScheduleIds :
       schedules[s].compactRun # 0 =>
          /\ runs[schedules[s].compactRun].plannedAt <= clock
          /\ runs[schedules[s].compactRun].plannedAt < schedules[s].nextAt

FlightInv == SlotKeys /\ UnbornIsBlank /\ ScheduleSingleFlight /\ SlotsAdvance

(* While the run of a schedule is leased the schedule says so, and the     *)
(* lease that may still fail is counted.                                   *)
FailureMargin ==
    \A s \in ScheduleIds :
       /\ schedules[s].failures <= schedules[s].runs
       /\ schedules[s].state \in Leased => schedules[s].failures < schedules[s].runs
       /\ \A r \in LeasedRuns(runs) : schedules[s].run = r => schedules[s].state \in Leased

(* Every intent is named, and has one row.                                 *)
IntentsUnique ==
    /\ \A r \in RunIds : Present(r) => runs[r].job.owner # Empty
    /\ \A r, x \in RunIds :
          /\ Present(r) /\ Present(x)
          /\ runs[r].job.owner = runs[x].job.owner
          /\ runs[r].job.key = runs[x].job.key
          => r = x

(* The lease a row names is the last one of its intent.                    *)
LeaseIsLatest ==
    \A r \in RunIds :
       Present(r) /\ runs[r].token # 0 =>
          /\ claims[runs[r].token].owner = runs[r].job.owner
          /\ claims[runs[r].token].key = runs[r].job.key
          /\ \A u \in Tokens : u > runs[r].token =>
                ~ (claims[u].owner = runs[r].job.owner /\ claims[u].key = runs[r].job.key)

(* A lost attempt is the one its run names, and that run is not going to   *)
(* be leased.                                                              *)
LostIsNamed ==
    \A t \in Tokens :
       attempts[t].state = "unknown" =>
          /\ attempts[t].run \in RunIds
          /\ runs[attempts[t].run].token = t
          /\ runs[attempts[t].run].state
                \in {"unknown", "interrupted", "succeeded", "failed"}

LostInv == IntentsUnique /\ LeaseIsLatest /\ LostIsNamed

-----------------------------------------------------------------------------
(* What a step does to the rows                                            *)

(* The row of x still is the row of the same intent, and no less resolved. *)
Carried(x) ==
    /\ runs'[x].job = runs[x].job
    /\ runs'[x].schedule = runs[x].schedule
    /\ runs'[x].plannedAt = runs[x].plannedAt
    /\ runs'[x].attempts \in {runs[x].attempts, runs[x].attempts + 1}
    /\ runs'[x].finishedAt \in {runs[x].finishedAt, clock, Nil}
    /\ runs'[x].state = "absent" <=> runs[x].state = "absent"
    /\ runs'[x].state \in Unresolved => runs[x].state \in Unresolved
    /\ runs'[x].state \in Pending \cup Leased => runs[x].state \in Pending \cup Leased

(* The references of schedule s are as they were.                          *)
Referring(s) ==
    /\ schedules'[s].exists = schedules[s].exists
    /\ schedules'[s].plan = schedules[s].plan
    /\ schedules'[s].nextAt = schedules[s].nextAt
    /\ schedules'[s].run = schedules[s].run
    /\ schedules'[s].compactRun = schedules[s].compactRun

LEMMA RowTypes ==
    ASSUME TypeOK
    PROVE  /\ runs \in [RunIds -> RunRows]
           /\ attempts \in [Tokens -> AttemptRows]
           /\ schedules \in [ScheduleIds -> ScheduleRows]
           /\ claims \in [Tokens -> Claims]
BY DEF TypeOK

LEMMA ExpiredCarried ==
    ASSUME TypeOK, NEW x \in RunIds
    PROVE  /\ ExpiredRuns[x].job = runs[x].job
           /\ ExpiredRuns[x].schedule = runs[x].schedule
           /\ ExpiredRuns[x].plannedAt = runs[x].plannedAt
           /\ ExpiredRuns[x].token = runs[x].token
           /\ ExpiredRuns[x].attempts = runs[x].attempts
           /\ ExpiredRuns[x].finishedAt \in {runs[x].finishedAt, clock}
           /\ \/ ExpiredRuns[x].state = runs[x].state
              \/ ExpiredRuns[x].state = "unknown" /\ runs[x].state \in Leased
<1>1. runs[x] \in RunRows
  BY RowTypes
<1> QED
  BY <1>1 DEF ExpiredRuns, RunRows

LEMMA ExpiredReferring ==
    ASSUME TypeOK, NEW s \in ScheduleIds
    PROVE  /\ ExpiredSchedules[s].exists = schedules[s].exists
           /\ ExpiredSchedules[s].plan = schedules[s].plan
           /\ ExpiredSchedules[s].nextAt = schedules[s].nextAt
           /\ ExpiredSchedules[s].run = schedules[s].run
           /\ ExpiredSchedules[s].compactRun = schedules[s].compactRun
           /\ ExpiredSchedules[s].runs = schedules[s].runs
<1>1. schedules[s] \in ScheduleRows
  BY RowTypes
<1> QED
  BY <1>1 DEF ExpiredSchedules, ScheduleRows

LEMMA ClaimCarries ==
    ASSUME TypeOK, NEW w \in Workers, NEW hs \in HandlerSets, NEW r \in RunIds,
           ClaimRun(w, hs, r)
    PROVE  (\A x \in RunIds : Carried(x)) /\ (\A s \in ScheduleIds : Referring(s))
<1>1. ASSUME NEW x \in RunIds PROVE Carried(x)
  <2>1. CASE x = r
    <3>1. /\ runs'[r].job = runs[r].job /\ runs'[r].state = "running"
          /\ runs[r].state \in Pending /\ ExpiredRuns[r] = runs[r]
          /\ runs'[r].attempts = runs[r].attempts + 1
      BY ClaimedRow
    <3>2. runs[r] \in RunRows /\ ExpiredRuns \in [RunIds -> RunRows]
      BY RowTypes, ExpiredTypes
    <3>3. /\ runs'[r].schedule = runs[r].schedule /\ runs'[r].plannedAt = runs[r].plannedAt
          /\ runs'[r].finishedAt = runs[r].finishedAt
      BY <3>1, <3>2 DEF ClaimRun, RunRows
    <3> QED
      BY <2>1, <3>1, <3>3 DEF Carried, Unresolved, Pending
  <2>2. CASE x # r
    <3>1. runs'[x] = ExpiredRuns[x]
      BY <2>2, ClaimedRow
    <3> QED
      BY <3>1, ExpiredCarried DEF Carried, Unresolved, Leased
  <2> QED
    BY <2>1, <2>2
<1>2. ASSUME NEW s \in ScheduleIds PROVE Referring(s)
  <2>1. ExpiredSchedules[s] \in ScheduleRows
    BY ExpiredTypes
  <2>2. \/ schedules'[s] = ExpiredSchedules[s]
        \/ schedules'[s] = [ExpiredSchedules[s] EXCEPT
                              !.state = "running", !.runs = ExpiredSchedules[s].runs + 1]
    BY DEF ClaimRun
  <2> QED
    BY <2>1, <2>2, ExpiredReferring DEF Referring, ScheduleRows
<1> QED
  BY <1>1, <1>2

LEMMA ClaimEmptyCarries ==
    ASSUME TypeOK, NEW hs \in HandlerSets, ClaimEmpty(hs)
    PROVE  (\A x \in RunIds : Carried(x)) /\ (\A s \in ScheduleIds : Referring(s))
<1>1. runs' = ExpiredRuns /\ schedules' = ExpiredSchedules
  BY DEF ClaimEmpty
<1> QED
  BY <1>1, ExpiredCarried, ExpiredReferring DEF Carried, Referring, Unresolved, Leased

LEMMA FinishCarries ==
    ASSUME TypeOK, NEW t \in Tokens, NEW outcome \in Outcomes, Finish(t, outcome)
    PROVE  (\A x \in RunIds : Carried(x)) /\ (\A s \in ScheduleIds : Referring(s))
<1> DEFINE r == claims[t].run
           state == RecordedOutcome(runs[r], outcome)
<1>1. /\ r \in RunIds /\ runs[r].state \in Leased
      /\ runs'[r].state = state
      /\ runs'[r].job = runs[r].job /\ runs'[r].attempts = runs[r].attempts
      /\ \A x \in RunIds \ {r} : runs'[x] = runs[x]
  BY FinishedRow
<1>2. /\ runs \in [RunIds -> RunRows] /\ schedules \in [ScheduleIds -> ScheduleRows]
  BY RowTypes
<1>3. /\ runs'[r].schedule = runs[r].schedule /\ runs'[r].plannedAt = runs[r].plannedAt
      /\ runs'[r].finishedAt \in {clock, Nil}
  <2>1. \/ \E n : runs'[r] = [runs[r] EXCEPT !.state = state, !.notBefore = n,
                                             !.finishedAt = Nil, !.token = 0,
                                             !.worker = Empty, !.expiresAt = Nil]
        \/ runs'[r] = [runs[r] EXCEPT !.state = state, !.finishedAt = clock]
    BY <1>1, <1>2 DEF Finish
  <2>2. runs[r] \in RunRows
    BY <1>1, <1>2
  <2>3. DOMAIN runs[r] = {"job", "state", "attempts", "notBefore", "createdAt", "finishedAt",
                          "token", "worker", "expiresAt", "schedule", "plannedAt"}
    BY <2>2 DEF RunRows
  <2> HIDE DEF state, r
  <2> QED
    BY <2>1, <2>3
<1>4. state \in Outcomes
  BY <1>1, <1>2, RecordedOutcomeType
<1>5. \A s \in ScheduleIds : Referring(s)
  <2> SUFFICES ASSUME NEW s \in ScheduleIds PROVE Referring(s)
    OBVIOUS
  <2>1. \/ schedules'[s] = schedules[s]
        \/ \E n : schedules'[s] = [schedules[s] EXCEPT !.state = state, !.failures = n]
    BY DEF Finish
  <2>2. schedules[s] \in ScheduleRows
    BY <1>2
  <2> HIDE DEF state
  <2> QED
    BY <2>1, <2>2 DEF Referring, ScheduleRows
<1> HIDE DEF r, state
<1>6. \A x \in RunIds : Carried(x)
  <2>1. Carried(r)
    BY <1>1, <1>3, <1>4 DEF Carried, Outcomes, Leased, Unresolved
  <2>2. \A x \in RunIds \ {r} : Carried(x)
    BY <1>1 DEF Carried
  <2> QED
    BY <2>1, <2>2
<1> QED
  BY <1>5, <1>6

LEMMA CancelCarries ==
    ASSUME TypeOK, NEW rs \in SUBSET RunIds, CancelRuns(rs),
           \A r \in rs : runs[r].state \in Pending \cup Leased
    PROVE  (\A x \in RunIds : Carried(x)) /\ (\A s \in ScheduleIds : Referring(s))
<1>1. ASSUME NEW x \in RunIds PROVE Carried(x)
  <2>1. runs[x] \in RunRows
    BY RowTypes
  <2>2. runs'[x] = IF x \notin rs THEN runs[x]
                   ELSE IF runs[x].state \in Leased
                   THEN [runs[x] EXCEPT !.state = "cancel_requested"]
                   ELSE [runs[x] EXCEPT !.state = "canceled", !.finishedAt = clock]
    BY DEF CancelRuns
  <2> QED
    BY <2>1, <2>2 DEF Carried, RunRows, Leased, Pending, Unresolved
<1>2. ASSUME NEW s \in ScheduleIds PROVE Referring(s)
  <2>1. schedules[s] \in ScheduleRows
    BY RowTypes
  <2>2. \/ schedules'[s] = schedules[s]
        \/ \E v : schedules'[s] = [schedules[s] EXCEPT !.state = v]
    BY DEF CancelRuns
  <2> QED
    BY <2>1, <2>2 DEF Referring, ScheduleRows
<1> QED
  BY <1>1, <1>2

LEMMA ResolveCarries ==
    ASSUME TypeOK, NEW r \in RunIds, NEW state \in {"succeeded", "failed"}, Resolve(r, state)
    PROVE  (\A x \in RunIds : Carried(x)) /\ (\A s \in ScheduleIds : Referring(s))
<1>1. runs \in [RunIds -> RunRows] /\ runs[r].state = "unknown" /\ schedules' = schedules
  BY RowTypes DEF Resolve
<1>2. runs' = [runs EXCEPT ![r].state = state, ![r].finishedAt = clock]
  BY DEF Resolve
<1>3. \A x \in RunIds : Carried(x)
  BY <1>1, <1>2 DEF Carried, RunRows, Unresolved, Pending, Leased
<1> QED
  BY <1>1, <1>3 DEF Referring

(* A submitted or imported run gets a fresh row.                           *)
LEMMA SubmittedRow ==
    ASSUME TypeOK, Fresh, NEW in \in Submissions \cup Imports,
           (in \in Submissions /\ Submit(in)) \/ (in \in Imports /\ ImportUnknown(in))
    PROVE  LET r == lastRun + 1 IN
           /\ r \in RunIds /\ ~ Present(r)
           /\ Insertable(in) /\ in \in Jobs
           /\ in.owner # Empty /\ in.key.name \notin ScheduleIds
           /\ runs'[r].job = in /\ runs'[r].schedule = Empty
           /\ runs'[r].token = 0 /\ runs'[r].state \in {"queued", "unknown"}
           /\ \A x \in RunIds \ {r} : runs'[x] = runs[x]
           /\ UNCHANGED <<clock, lastToken, attempts, schedules, claims>>
<1> DEFINE r == lastRun + 1
           queued == QueuedRun(in, Empty, Nil)
<1>1. /\ Insertable(in)
      /\ UNCHANGED <<clock, lastToken, attempts, schedules, claims>>
      /\ \/ runs' = [runs EXCEPT ![r] = queued]
         \/ runs' = [runs EXCEPT ![r] = [queued EXCEPT !.state = "unknown"]]
  BY DEF Submit, ImportUnknown
<1>2. r \in RunIds /\ r > lastRun /\ lastRun \in Int
  BY <1>1, BoundsAssumption DEF Insertable, TypeOK, RunIds
<1>3. /\ queued.job = in /\ queued.schedule = Empty
      /\ queued.token = 0 /\ queued.state = "queued"
      /\ LET u == [queued EXCEPT !.state = "unknown"] IN
         u.job = in /\ u.schedule = Empty /\ u.token = 0 /\ u.state = "unknown"
  BY DEF QueuedRun, NoRun
<1>4. runs \in [RunIds -> RunRows]
  BY RowTypes
<1>5. /\ in \in Jobs /\ in.owner # Empty /\ in.key.name \notin ScheduleIds
  BY InputsAssumption, ProducersAssumption
<1> HIDE DEF queued
<1>6. /\ runs'[r].job = in /\ runs'[r].schedule = Empty
      /\ runs'[r].token = 0 /\ runs'[r].state \in {"queued", "unknown"}
      /\ \A x \in RunIds \ {r} : runs'[x] = runs[x]
  BY <1>1, <1>2, <1>3, <1>4
<1>7. ~ Present(r)
  BY <1>2 DEF Fresh, Present
<1> QED
  BY <1>1, <1>2, <1>5, <1>6, <1>7

(* Retention removes only rows nobody refers to.                           *)
LEMMA PrunedRow ==
    ASSUME TypeOK, NEW state \in PrunableStates, Prune(state), NEW x \in RunIds
    PROVE  /\ \/ runs'[x] = runs[x]
              \/ /\ runs'[x] = NoRun
                 /\ runs[x].state \in PrunableStates
                 /\ runs[x].schedule # Empty
                 /\ runs[x].finishedAt # Nil /\ runs[x].finishedAt < clock - Retention
                 /\ \A s \in ScheduleIds : schedules[s].run # x /\ schedules[s].compactRun # x
           /\ UNCHANGED <<clock, lastRun, lastToken, schedules, claims>>
<1>1. PICK ids \in SUBSET PeriodicCandidates(state) :
         \A r \in RunIds : runs'[r] = runs[r] \/ (r \in ids /\ runs'[r] = NoRun)
  BY DEF Prune
<1>2. \A r \in ids : /\ runs[r].state = state
                     /\ runs[r].schedule # Empty
                     /\ runs[r].finishedAt # Nil /\ runs[r].finishedAt < clock - Retention
                     /\ \A s \in ScheduleIds : schedules[s].run # r /\ schedules[s].compactRun # r
  BY DEF PeriodicCandidates
<1> QED
  BY <1>1, <1>2 DEF Prune

(* What the reconciliation of a definition starts from.                    *)
LEMMA ScheduleRowFields ==
    ASSUME TypeOK, NEW d \in Definitions
    PROVE  LET old == ScheduleRow(d) IN
           /\ old.exists = TRUE /\ old \in ScheduleRows
           /\ schedules[d.id].exists => old = schedules[d.id]
           /\ ~ schedules[d.id].exists =>
                 /\ old.run = 0 /\ old.compactRun = 0 /\ old.state = Empty
                 /\ old.runs = 0 /\ old.failures = 0
<1>1. d.id \in ScheduleIds /\ schedules[d.id] \in ScheduleRows
  BY DefinitionType, RowTypes
<1>2. schedules[d.id].exists \in BOOLEAN
  BY <1>1 DEF ScheduleRows
<1>3. CASE schedules[d.id].exists
  BY <1>2, <1>3, ScheduleTypes DEF ScheduleRow
<1>4. CASE ~ schedules[d.id].exists
  <2>1. ScheduleRow(d) = [NoSchedule EXCEPT !.exists = TRUE, !.plan = d.plan,
                                            !.nextAt = FirstPlannedAt(d)]
    BY <1>4 DEF ScheduleRow
  <2> QED
    BY <1>4, <2>1, ScheduleTypes DEF NoSchedule
<1> QED
  BY <1>3, <1>4

LEMMA AdoptedRowFields ==
    ASSUME TypeOK, NEW d \in Definitions, Reconcilable(d)
    PROVE  LET row == AdoptedRow(d)
               old == ScheduleRow(d)
           IN  /\ row \in ScheduleRows
               /\ row.exists = TRUE /\ row.run = 0
               /\ row.runs = old.runs /\ row.failures = old.failures
               /\ row.state = old.state \/ row.state \in Terminal
               /\ row.compactRun # 0 =>
                     /\ row.compactRun = old.compactRun
                     /\ row.nextAt = old.nextAt \/ row.nextAt = clock + YieldDelay
<1> DEFINE row == AdoptedRow(d)
           old == ScheduleRow(d)
           mid == DetachedRow(d)
           state == ReconciledRuns(d)[old.run].state
           next == IF state = "yielded" /\ old.nextAt > clock + YieldDelay
                   THEN clock + YieldDelay ELSE old.nextAt
<1>1. old \in ScheduleRows /\ old.exists = TRUE /\ row \in ScheduleRows
  BY ScheduleRowFields, ScheduleTypes
<1>2. old.run # 0 => state \in Terminal
  BY DEF Reconcilable
<1>3. mid = IF old.run = 0 THEN old
            ELSE [old EXCEPT !.run = 0, !.state = state, !.nextAt = next]
  BY DEF DetachedRow
<1>4. next = old.nextAt \/ next = clock + YieldDelay
  OBVIOUS
<1>5. row = IF mid.plan = d.plan THEN mid
            ELSE [mid EXCEPT !.plan = d.plan, !.compactRun = 0, !.nextAt = FirstPlannedAt(d)]
  BY DEF AdoptedRow
<1> HIDE DEF old, state, next, mid, row
<1>6. /\ mid.exists = TRUE /\ mid.run = 0 /\ mid.compactRun = old.compactRun
      /\ mid.runs = old.runs /\ mid.failures = old.failures
      /\ mid.state = old.state \/ mid.state \in Terminal
      /\ mid.nextAt = old.nextAt \/ mid.nextAt = clock + YieldDelay
      /\ DOMAIN mid = DOMAIN old
  BY <1>1, <1>2, <1>3, <1>4 DEF ScheduleRows
<1>7. DOMAIN old = {"exists", "plan", "nextAt", "run", "compactRun", "state", "runs", "failures"}
  BY <1>1 DEF ScheduleRows
<1>8. CASE mid.plan = d.plan
  BY <1>1, <1>5, <1>6, <1>8 DEF row, old
<1>9. CASE mid.plan # d.plan
  <2>1. row = [mid EXCEPT !.plan = d.plan, !.compactRun = 0, !.nextAt = FirstPlannedAt(d)]
    BY <1>5, <1>9
  <2>2. /\ row.exists = mid.exists /\ row.run = mid.run /\ row.runs = mid.runs
        /\ row.failures = mid.failures /\ row.state = mid.state /\ row.compactRun = 0
    BY <2>1, <1>6, <1>7
  <2> QED
    BY <1>1, <1>6, <2>2 DEF row, old
<1> QED
  BY <1>8, <1>9

(* A due slot: the one that is planned came due, the next one did not.     *)
LEMMA SlotArithmetic ==
    ASSUME TypeOK, NEW row \in ScheduleRows, row.nextAt <= clock
    PROVE  /\ PlannedSlot(row) \in Int /\ NextSlot(row) \in Int
           /\ row.nextAt <= PlannedSlot(row)
           /\ PlannedSlot(row) <= clock
           /\ clock < NextSlot(row)
           /\ NextSlot(row) = PlannedSlot(row) + row.plan.interval
<1> DEFINE n == row.nextAt
           i == row.plan.interval
           q == (clock - n) \div i
<1>1. n \in Int /\ i \in Nat /\ i > 0 /\ clock \in Int /\ n <= clock
  BY ClockType DEF ScheduleRows, Plans
<1>2. DueSteps(n, i) = q + 1
  BY Zenon DEF DueSteps
<1>5. /\ PlannedSlot(row) = n + (DueSteps(n, i) - 1) * i
      /\ NextSlot(row) = n + DueSteps(n, i) * i
  BY Zenon DEF PlannedSlot, NextSlot
<1> HIDE DEF n, i
<1>3. q \in Int /\ q >= 0 /\ q * i <= clock - n /\ clock - n < (q + 1) * i
  BY <1>1
<1> HIDE DEF q
<1>4. /\ (q + 1) - 1 = q /\ q * i \in Int /\ q * i >= 0 /\ (q + 1) * i \in Int
      /\ (q + 1) * i = q * i + i
  BY <1>1, <1>3
<1>6. PlannedSlot(row) = n + q * i /\ NextSlot(row) = n + (q + 1) * i
  BY <1>2, <1>4, <1>5
<1> QED
  BY <1>1, <1>3, <1>4, <1>6 DEF n, i

(* A reconciliation either refreshes its row, or dispatches a run for the  *)
(* planned slot: a fresh or a reused row, or the run the slot already has. *)
Refreshed(d) ==
    /\ runs' = ReconciledRuns(d)
    /\ \/ schedules'[d.id] = AdoptedRow(d)
       \/ /\ AdoptedRow(d).nextAt <= clock
          /\ schedules'[d.id] = [AdoptedRow(d) EXCEPT !.nextAt = NextSlot(AdoptedRow(d))]

Queued(d, r) ==
    /\ runs'[r] = QueuedRun(ScheduledJob(d), d.id, PlannedSlot(AdoptedRow(d)))
    /\ Existing(ScheduledJob(d)) \subseteq {r}
    /\ checkPendingAdmission(ScheduledJob(d).owner, ScheduledJob(d).resource)
    /\ \/ ScheduleInsert(d) /\ r = lastRun + 1 /\ ~ Present(r)
       \/ /\ ScheduleReuse(d) /\ r = AdoptedRow(d).compactRun /\ Reusable(d, r)
          /\ attempts' = [attempts EXCEPT ![runs[r].token] = NoAttempt]

Rebound(d, r) ==
    /\ runs'[r] = ReconciledRuns(d)[r]
    /\ r \in Existing(ScheduledJob(d))

Dispatched(d, r) ==
    /\ AdoptedRow(d).nextAt <= clock
    /\ \A x \in RunIds \ {r} : runs'[x] = ReconciledRuns(d)[x]
    /\ schedules'[d.id] = DispatchedRow(d, r)
    /\ Queued(d, r) \/ Rebound(d, r)

LEMMA ScheduleEffect ==
    ASSUME TypeOK, Fresh, NEW d \in Definitions, Schedule(d)
    PROVE  /\ d.id \in ScheduleIds /\ Reconcilable(d)
           /\ \A s \in ScheduleIds \ {d.id} : schedules'[s] = schedules[s]
           /\ Refreshed(d) \/ \E r \in RunIds : Dispatched(d, r)
           /\ UNCHANGED <<clock, lastToken, claims>>
           /\ attempts' = attempts \/ ScheduleReuse(d)
<1>1. /\ d.id \in ScheduleIds /\ Reconcilable(d)
      /\ UNCHANGED <<clock, lastToken, claims>>
      /\ attempts' = attempts \/ ScheduleReuse(d)
  BY DefinitionType DEF Schedule, ScheduleIdle, ScheduleSkip, ScheduleReuse, ScheduleInsert,
                        ScheduleRebind
<1>2. schedules \in [ScheduleIds -> ScheduleRows] /\ ReconciledRuns(d) \in [RunIds -> RunRows]
  BY RowTypes, ScheduleTypes
<1>3. \A s \in ScheduleIds \ {d.id} : schedules'[s] = schedules[s]
  <2>1. \E v : schedules' = [schedules EXCEPT ![d.id] = v]
    BY DEF Schedule, ScheduleIdle, ScheduleSkip, ScheduleReuse, ScheduleInsert,
           ScheduleRebind
  <2> QED
    BY <1>2, <2>1
<1>4. ASSUME ScheduleIdle(d) PROVE Refreshed(d)
  BY <1>1, <1>2, <1>4 DEF ScheduleIdle, Refreshed
<1>5. ASSUME ScheduleSkip(d) PROVE Refreshed(d)
  <2>1. /\ AdoptedRow(d).nextAt <= clock
        /\ runs' = ReconciledRuns(d)
        /\ schedules' = [schedules EXCEPT ![d.id] =
                           [AdoptedRow(d) EXCEPT !.nextAt = NextSlot(AdoptedRow(d))]]
    BY <1>5 DEF ScheduleSkip, Due
  <2> QED
    BY <1>1, <1>2, <2>1 DEF Refreshed
<1>6. ASSUME ScheduleReuse(d) PROVE \E r \in RunIds : Dispatched(d, r)
  <2> DEFINE c == AdoptedRow(d).compactRun
             job == ScheduledJob(d)
             queued == QueuedRun(job, d.id, PlannedSlot(AdoptedRow(d)))
  <2>1. /\ AdoptedRow(d).nextAt <= clock /\ Reusable(d, c)
        /\ checkPendingAdmission(job.owner, job.resource)
        /\ Existing(job) \subseteq {c}
        /\ runs' = [ReconciledRuns(d) EXCEPT ![c] = queued]
        /\ attempts' = [attempts EXCEPT ![runs[c].token] = NoAttempt]
        /\ schedules' = [schedules EXCEPT ![d.id] = DispatchedRow(d, c)]
    BY <1>6 DEF ScheduleReuse, Due
  <2>2. c \in RunIds
    BY <2>1, ScheduleTypes, BoundsAssumption DEF Reusable, ScheduleRows, RunIds
  <2> HIDE DEF c, job, queued
  <2>3. /\ runs'[c] = queued /\ \A x \in RunIds \ {c} : runs'[x] = ReconciledRuns(d)[x]
        /\ schedules'[d.id] = DispatchedRow(d, c)
    BY <1>1, <1>2, <2>1, <2>2
  <2>4. Queued(d, c)
    BY <1>6, <2>1, <2>3 DEF Queued, c, job, queued
  <2>5. Dispatched(d, c)
    BY <2>1, <2>3, <2>4 DEF Dispatched
  <2> QED
    BY <2>2, <2>5
<1>7. ASSUME ScheduleInsert(d) PROVE \E r \in RunIds : Dispatched(d, r)
  <2> DEFINE r == lastRun + 1
             job == ScheduledJob(d)
             queued == QueuedRun(job, d.id, PlannedSlot(AdoptedRow(d)))
  <2>1. /\ AdoptedRow(d).nextAt <= clock
        /\ Insertable(job)
        /\ runs' = [ReconciledRuns(d) EXCEPT ![r] = queued]
        /\ schedules' = [schedules EXCEPT ![d.id] = DispatchedRow(d, r)]
    BY <1>7 DEF ScheduleInsert, Due
  <2>2. r \in RunIds /\ r > lastRun
    BY <2>1, BoundsAssumption DEF Insertable, TypeOK, RunIds
  <2>3. ~ Present(r)
    BY <2>2 DEF Fresh, Present
  <2>4. Existing(job) \subseteq {r} /\ checkPendingAdmission(job.owner, job.resource)
    BY <2>1 DEF Insertable
  <2> HIDE DEF r, job, queued
  <2>5. /\ runs'[r] = queued /\ \A x \in RunIds \ {r} : runs'[x] = ReconciledRuns(d)[x]
        /\ schedules'[d.id] = DispatchedRow(d, r)
    BY <1>1, <1>2, <2>1, <2>2
  <2>6. Queued(d, r)
    BY <1>7, <2>3, <2>4, <2>5 DEF Queued, r, job, queued
  <2>7. Dispatched(d, r)
    BY <2>1, <2>5, <2>6 DEF Dispatched
  <2> QED
    BY <2>2, <2>7
<1>8. ASSUME ScheduleRebind(d) PROVE \E r \in RunIds : Dispatched(d, r)
  <2>1. PICK r \in Existing(ScheduledJob(d)) :
           /\ runs' = ReconciledRuns(d)
           /\ schedules' = [schedules EXCEPT ![d.id] = DispatchedRow(d, r)]
    BY <1>8 DEF ScheduleRebind
  <2>2. AdoptedRow(d).nextAt <= clock /\ r \in RunIds
    BY <1>8 DEF ScheduleRebind, Due, Existing
  <2>3. schedules'[d.id] = DispatchedRow(d, r)
    BY <1>1, <1>2, <2>1
  <2> QED
    BY <2>1, <2>2, <2>3 DEF Dispatched, Rebound
<1>9. Refreshed(d) \/ \E r \in RunIds : Dispatched(d, r)
  BY <1>4, <1>5, <1>6, <1>7, <1>8 DEF Schedule
<1> QED
  BY <1>1, <1>3, <1>9

(* The reconciled rows are carried; the row of the schedule's own run is   *)
(* over.                                                                   *)
LEMMA ReconciledCarried ==
    ASSUME TypeOK, NEW d \in Definitions, NEW x \in RunIds,
           runs'[x] = ReconciledRuns(d)[x]
    PROVE  /\ Carried(x)
           /\ runs'[x].token = runs[x].token
           /\ runs'[x].attempts = runs[x].attempts
           /\ \/ runs'[x] = runs[x]
              \/ runs[x].state = "unknown" /\ runs'[x].state = "interrupted"
<1>1. runs[x] \in RunRows
  BY RowTypes
<1>2. LET i == [runs[x] EXCEPT !.state = "interrupted"] IN
      /\ i.state = "interrupted" /\ i.job = runs[x].job /\ i.schedule = runs[x].schedule
      /\ i.plannedAt = runs[x].plannedAt /\ i.token = runs[x].token
      /\ i.attempts = runs[x].attempts /\ i.finishedAt = runs[x].finishedAt
  BY <1>1 DEF RunRows
<1> QED
  BY <1>2, ReconciledRow DEF Carried, Unresolved, Pending, Leased

LEMMA DispatchedFields ==
    ASSUME TypeOK, NEW d \in Definitions, Reconcilable(d), NEW r \in RunIds
    PROVE  LET row == DispatchedRow(d, r) IN
           /\ row.exists = TRUE /\ row.run = r /\ row.state = "queued"
           /\ row.nextAt = NextSlot(AdoptedRow(d)) /\ row.plan = AdoptedRow(d).plan
           /\ row.compactRun \in {r, AdoptedRow(d).compactRun}
           /\ row.runs = ScheduleRow(d).runs /\ row.failures = ScheduleRow(d).failures
<1> DEFINE row == AdoptedRow(d)
           n == NextSlot(row)
           c == IF d.plan.compact THEN r ELSE row.compactRun
<1>1. /\ row \in ScheduleRows /\ row.exists = TRUE
      /\ row.runs = ScheduleRow(d).runs /\ row.failures = ScheduleRow(d).failures
  BY AdoptedRowFields
<1>2. DispatchedRow(d, r) = [row EXCEPT !.nextAt = n, !.run = r, !.compactRun = c,
                                        !.state = "queued"]
  BY DEF DispatchedRow
<1>3. c \in {r, row.compactRun}
  OBVIOUS
<1>4. DOMAIN row = {"exists", "plan", "nextAt", "run", "compactRun", "state", "runs", "failures"}
  BY <1>1 DEF ScheduleRows
<1> HIDE DEF row, n, c
<1>5. /\ DispatchedRow(d, r).exists = row.exists /\ DispatchedRow(d, r).run = r
      /\ DispatchedRow(d, r).state = "queued" /\ DispatchedRow(d, r).nextAt = n
      /\ DispatchedRow(d, r).compactRun = c /\ DispatchedRow(d, r).runs = row.runs
      /\ DispatchedRow(d, r).failures = row.failures /\ DispatchedRow(d, r).plan = row.plan
  BY <1>2, <1>4
<1> QED
  BY <1>1, <1>3, <1>5 DEF row, n

LEMMA QueuedRunFields ==
    ASSUME NEW d \in Definitions, NEW r, Queued(d, r)
    PROVE  /\ runs'[r].state = "queued" /\ runs'[r].schedule = d.id
           /\ runs'[r].plannedAt = PlannedSlot(AdoptedRow(d))
           /\ runs'[r].token = 0 /\ runs'[r].job = ScheduledJob(d)
           /\ runs'[r].finishedAt = Nil
           /\ runs'[r].job.owner = d.plan.owner /\ d.plan.owner # Empty
           /\ runs'[r].job.resource = d.plan.resource
           /\ runs'[r].job.key.name = d.id
           /\ runs'[r].job.key.slot = PlannedSlot(AdoptedRow(d))
<1>1. d.plan.owner # Empty
  BY ProducersAssumption
<1> QED
  BY <1>1 DEF Queued, QueuedRun, NoRun, ScheduledJob

Submitting(in) ==
    (in \in Submissions /\ Submit(in)) \/ (in \in Imports /\ ImportUnknown(in))

(* Only submissions, reconciliations and retention change which intent a   *)
(* row stands for.                                                         *)
Quiet ==
    /\ \A x \in RunIds : Carried(x)
    /\ \A s \in ScheduleIds : Referring(s)
    /\ clock' \in Int /\ clock <= clock'

LEMMA StepKinds ==
    ASSUME TypeOK, [Next]_vars
    PROVE  \/ Quiet
           \/ \E in \in Submissions \cup Imports : Submitting(in)
           \/ \E d \in Definitions : Schedule(d)
           \/ \E state \in PrunableStates : Prune(state)
<1>0. clock \in Int
  BY ClockType
<1>1. ASSUME NEW hs \in HandlerSets, ClaimEmpty(hs) PROVE Quiet
  <2>1. clock' = clock
    BY <1>1 DEF ClaimEmpty
  <2> QED
    BY <1>0, <1>1, <2>1, ClaimEmptyCarries DEF Quiet
<1>2. ASSUME NEW w \in Workers, NEW hs \in HandlerSets, NEW r \in RunIds, ClaimRun(w, hs, r)
      PROVE  Quiet
  <2>1. clock' = clock
    BY <1>2 DEF ClaimRun
  <2> QED
    BY <1>0, <1>2, <2>1, ClaimCarries DEF Quiet
<1>3. ASSUME NEW t \in Tokens, NEW outcome \in Outcomes, Finish(t, outcome) PROVE Quiet
  <2>1. clock' = clock
    BY <1>3 DEF Finish
  <2> QED
    BY <1>0, <1>3, <2>1, FinishCarries DEF Quiet
<1>4. ASSUME NEW rs \in SUBSET RunIds, CancelRuns(rs),
             \A r \in rs : runs[r].state \in Pending \cup Leased
      PROVE  Quiet
  <2>1. clock' = clock
    BY <1>4 DEF CancelRuns
  <2> QED
    BY <1>0, <1>4, <2>1, CancelCarries DEF Quiet
<1>5. ASSUME NEW r \in RunIds, RecordCancellation(r) PROVE Quiet
  BY <1>4, <1>5 DEF RecordCancellation, Leased
<1>6. ASSUME NEW h \in Handlers, CancelHandler(h) PROVE Quiet
  BY <1>4, <1>6 DEF CancelHandler
<1>7. ASSUME NEW r \in RunIds, NEW state \in {"succeeded", "failed"}, Resolve(r, state)
      PROVE  Quiet
  <2>1. clock' = clock
    BY <1>7 DEF Resolve
  <2> QED
    BY <1>0, <1>7, <2>1, ResolveCarries DEF Quiet
<1>8. ASSUME Tick PROVE Quiet
  BY <1>0, <1>8 DEF Tick, Quiet, Carried, Referring
<1>9. ASSUME UNCHANGED vars PROVE Quiet
  BY <1>0, <1>9 DEF vars, Quiet, Carried, Referring
<1>10. ASSUME NEW in \in Submissions, Submit(in)
       PROVE  \E i \in Submissions \cup Imports : Submitting(i)
  BY <1>10 DEF Submitting
<1>11. ASSUME NEW in \in Imports, ImportUnknown(in)
       PROVE  \E i \in Submissions \cup Imports : Submitting(i)
  BY <1>11 DEF Submitting
<1> QED
  BY <1>1, <1>2, <1>3, <1>5, <1>6, <1>7, <1>8, <1>9, <1>10, <1>11 DEF Next

-----------------------------------------------------------------------------
(* One unresolved run per schedule                                         *)

SlotKeyOf(r) ==
    /\ runs[r].schedule # Empty =>
          /\ Present(r)
          /\ runs[r].job.key.name = runs[r].schedule
          /\ runs[r].job.key.slot = runs[r].plannedAt
    /\ Present(r) /\ runs[r].schedule = Empty => runs[r].job.key.name \notin ScheduleIds

LEMMA SlotKeysStep ==
    ASSUME TypeOK, Fresh, SlotKeys, [Next]_vars
    PROVE  SlotKeys'
<1> SUFFICES ASSUME NEW x \in RunIds PROVE SlotKeyOf(x)'
  BY DEF SlotKeys, SlotKeyOf, Present
<1>1. SlotKeyOf(x)
  BY DEF SlotKeys, SlotKeyOf
<1>2. ASSUME Carried(x) PROVE SlotKeyOf(x)'
  BY <1>1, <1>2 DEF SlotKeyOf, Carried, Present
<1>3. ASSUME runs'[x] = runs[x] PROVE SlotKeyOf(x)'
  BY <1>1, <1>3 DEF SlotKeyOf, Present
<1>4. ASSUME NEW in \in Submissions \cup Imports, Submitting(in) PROVE SlotKeyOf(x)'
  <2>1. \/ runs'[x] = runs[x]
        \/ runs'[x].job = in /\ runs'[x].schedule = Empty
    BY <1>4, SubmittedRow DEF Submitting
  <2>2. in.key.name \notin ScheduleIds
    BY ProducersAssumption
  <2> QED
    BY <1>3, <2>1, <2>2 DEF SlotKeyOf
<1>5. ASSUME NEW d \in Definitions, Schedule(d) PROVE SlotKeyOf(x)'
  <2>1. CASE runs'[x] = ReconciledRuns(d)[x]
    BY <2>1, <1>2, ReconciledCarried
  <2>2. CASE Queued(d, x)
    <3>1. /\ runs'[x].state = "queued" /\ runs'[x].schedule = d.id
          /\ runs'[x].job.key.name = d.id
          /\ runs'[x].job.key.slot = runs'[x].plannedAt
      BY <2>2, QueuedRunFields
    <3>2. d.id # Empty
      BY DefinitionType, NamesAssumption
    <3> QED
      BY <3>1, <3>2 DEF SlotKeyOf, Present
  <2> QED
    BY <1>5, <2>1, <2>2, ScheduleEffect DEF Refreshed, Dispatched, Rebound
<1>6. ASSUME NEW state \in PrunableStates, Prune(state) PROVE SlotKeyOf(x)'
  <2>1. CASE runs'[x] = NoRun
    BY <2>1 DEF SlotKeyOf, NoRun, Present
  <2> QED
    BY <1>3, <1>6, <2>1, PrunedRow
<1> QED
  BY <1>2, <1>4, <1>5, <1>6, StepKinds DEF Quiet

LEMMA UnbornStep ==
    ASSUME TypeOK, Fresh, UnbornIsBlank, [Next]_vars
    PROVE  UnbornIsBlank'
<1> SUFFICES ASSUME NEW s \in ScheduleIds, ~ schedules'[s].exists
             PROVE  schedules'[s].run = 0 /\ schedules'[s].compactRun = 0
  BY DEF UnbornIsBlank
<1>1. ASSUME Referring(s) PROVE schedules'[s].run = 0 /\ schedules'[s].compactRun = 0
  BY <1>1 DEF Referring, UnbornIsBlank
<1>2. ASSUME schedules'[s] = schedules[s] PROVE Referring(s)
  BY <1>2 DEF Referring
<1>3. ASSUME NEW in \in Submissions \cup Imports, Submitting(in)
      PROVE  Referring(s)
  <2>1. schedules' = schedules
    BY <1>3 DEF Submitting, Submit, ImportUnknown
  <2> QED
    BY <1>2, <2>1
<1>4. ASSUME NEW state \in PrunableStates, Prune(state) PROVE Referring(s)
  <2>1. schedules' = schedules
    BY <1>4 DEF Prune
  <2> QED
    BY <1>2, <2>1
<1>5. ASSUME NEW d \in Definitions, Schedule(d) PROVE Referring(s)
  <2>1. CASE s # d.id
    BY <1>2, <1>5, <2>1, ScheduleEffect
  <2>2. CASE s = d.id
    <3>1. Reconcilable(d) /\ (Refreshed(d) \/ \E r \in RunIds : Dispatched(d, r))
      BY <1>5, ScheduleEffect
    <3>2. AdoptedRow(d) \in ScheduleRows /\ AdoptedRow(d).exists = TRUE
      BY <3>1, AdoptedRowFields
    <3>3. [AdoptedRow(d) EXCEPT !.nextAt = NextSlot(AdoptedRow(d))].exists = TRUE
      BY <3>2 DEF ScheduleRows
    <3>4. schedules'[d.id].exists = TRUE
      BY <3>1, <3>2, <3>3, DispatchedFields DEF Refreshed, Dispatched
    <3> QED
      BY <2>2, <3>4
  <2> QED
    BY <2>1, <2>2
<1> QED
  BY <1>1, <1>3, <1>4, <1>5, StepKinds DEF Quiet

LEMMA ReferredRuns ==
    ASSUME TypeOK, SlotKeys, ScheduleSingleFlight, NEW s \in ScheduleIds
    PROVE  /\ schedules[s].run # 0 =>
                 /\ schedules[s].run \in RunIds /\ Present(schedules[s].run)
                 /\ runs[schedules[s].run].schedule = s
           /\ schedules[s].compactRun # 0 =>
                 /\ schedules[s].compactRun \in RunIds /\ Present(schedules[s].compactRun)
                 /\ runs[schedules[s].compactRun].schedule = s
<1>1. schedules[s].run \in 0 .. MaxRuns /\ schedules[s].compactRun \in 0 .. MaxRuns
  BY RowTypes DEF ScheduleRows
<1>2. \A r \in 0 .. MaxRuns : r # 0 => r \in RunIds
  BY BoundsAssumption DEF RunIds
<1>3. s # Empty
  BY NamesAssumption
<1>4. \A r \in RunIds : runs[r].schedule = s => Present(r)
  BY <1>3 DEF SlotKeys
<1> QED
  BY <1>1, <1>2, <1>4 DEF ScheduleSingleFlight

(* The run that is dispatched belongs to the schedule, or is new.          *)
LEMMA DispatchStaysHome ==
    ASSUME TypeOK, SlotKeys, NEW d \in Definitions, NEW r \in RunIds, Dispatched(d, r)
    PROVE  /\ runs'[r].schedule = d.id
           /\ runs[r].schedule = d.id \/ ~ Present(r)
<1>1. CASE Queued(d, r)
  <2>1. runs'[r].schedule = d.id
    BY <1>1, QueuedRunFields
  <2>2. CASE ~ Present(r)
    BY <2>1, <2>2
  <2>3. CASE Reusable(d, r)
    <3>1. ReconciledRuns(d)[r].schedule = d.id
      BY <2>3 DEF Reusable
    <3>2. runs[r] \in RunRows
      BY RowTypes
    <3>3. [runs[r] EXCEPT !.state = "interrupted"].schedule = runs[r].schedule
      BY <3>2 DEF RunRows
    <3> QED
      BY <2>1, <3>1, <3>3, ReconciledRow
  <2> QED
    BY <1>1, <2>2, <2>3 DEF Queued
<1>2. CASE Rebound(d, r)
  <2>1. Present(r) /\ runs[r].job.key.name = d.id
    BY <1>2 DEF Rebound, Existing, ScheduledJob, Present
  <2>2. d.id \in ScheduleIds
    BY DefinitionType
  <2>3. runs[r].schedule = d.id
    BY <2>1, <2>2 DEF SlotKeys
  <2>4. runs'[r].schedule = runs[r].schedule
    BY <1>2, ReconciledCarried DEF Rebound, Carried
  <2> QED
    BY <2>3, <2>4
<1> QED
  BY <1>1, <1>2 DEF Dispatched

(* A schedule that is reconciled has no unresolved run.                    *)
LEMMA ReconciledIsOver ==
    ASSUME TypeOK, SlotKeys, UnbornIsBlank, ScheduleSingleFlight,
           NEW d \in Definitions, Reconcilable(d), NEW x \in RunIds,
           runs[x].schedule = d.id, runs'[x] = ReconciledRuns(d)[x]
    PROVE  runs'[x].state \notin Unresolved
<1> SUFFICES ASSUME runs'[x].state \in Unresolved PROVE FALSE
  OBVIOUS
<1>0. d.id \in ScheduleIds
  BY DefinitionType
<1>1. runs[x].state \in Unresolved
  BY ReconciledCarried DEF Carried
<1>2. schedules[d.id].run = x /\ x # 0
  BY <1>0, <1>1, BoundsAssumption DEF ScheduleSingleFlight, RunIds
<1>3. schedules[d.id].exists
  BY <1>0, <1>2 DEF UnbornIsBlank
<1>4. ScheduleRow(d).run = x
  BY <1>2, <1>3, ScheduleRowFields
<1>5. ReconciledRuns(d)[x].state \in Terminal
  BY <1>2, <1>4 DEF Reconcilable
<1> QED
  BY <1>5 DEF Unresolved, Terminal, Pending, Leased

FlightOf(s) ==
    /\ schedules[s].run # 0 => runs[schedules[s].run].schedule = s
    /\ schedules[s].compactRun # 0 => runs[schedules[s].compactRun].schedule = s
    /\ \A r \in RunIds :
          runs[r].schedule = s /\ runs[r].state \in Unresolved => schedules[s].run = r

LEMMA FlightStep ==
    ASSUME TypeOK, Fresh, SlotKeys, UnbornIsBlank, ScheduleSingleFlight, [Next]_vars
    PROVE  ScheduleSingleFlight'
<1> SUFFICES ASSUME NEW s \in ScheduleIds PROVE FlightOf(s)'
  BY DEF ScheduleSingleFlight, FlightOf
<1>0. s # Empty
  BY NamesAssumption
<1> DEFINE r0 == schedules[s].run
           c0 == schedules[s].compactRun
<1>1. /\ r0 # 0 => r0 \in RunIds /\ Present(r0) /\ runs[r0].schedule = s
      /\ c0 # 0 => c0 \in RunIds /\ Present(c0) /\ runs[c0].schedule = s
      /\ \A r \in RunIds :
            runs[r].schedule = s /\ runs[r].state \in Unresolved => r0 = r
  BY ReferredRuns DEF ScheduleSingleFlight
<1>2. ASSUME schedules'[s].run = r0, schedules'[s].compactRun = c0,
             \A x \in {r0, c0} \cap RunIds : runs'[x].schedule = runs[x].schedule,
             \A x \in RunIds : \/ Carried(x)
                               \/ runs'[x] = runs[x]
                               \/ runs'[x].schedule # s
      PROVE  FlightOf(s)'
  <2> HIDE DEF r0, c0
  <2>1. /\ r0 # 0 => runs'[r0].schedule = s
        /\ c0 # 0 => runs'[c0].schedule = s
    BY <1>1, <1>2
  <2>2. \A x \in RunIds :
           runs'[x].schedule = s /\ runs'[x].state \in Unresolved => r0 = x
    BY <1>1, <1>2 DEF Carried
  <2> QED
    BY <1>2, <2>1, <2>2 DEF FlightOf
<1>3. ASSUME Quiet PROVE FlightOf(s)'
  <2>1. Referring(s) /\ \A x \in RunIds : Carried(x)
    BY <1>3 DEF Quiet
  <2>2. \A x \in RunIds : runs'[x].schedule = runs[x].schedule
    BY <2>1 DEF Carried
  <2>3. schedules'[s].run = r0 /\ schedules'[s].compactRun = c0
    BY <2>1 DEF Referring
  <2> QED
    BY <1>2, <2>1, <2>2, <2>3
<1>4. ASSUME NEW in \in Submissions \cup Imports, Submitting(in) PROVE FlightOf(s)'
  <2> DEFINE n == lastRun + 1
  <2>1. /\ ~ Present(n) /\ runs'[n].schedule = Empty
        /\ \A x \in RunIds \ {n} : runs'[x] = runs[x]
        /\ schedules' = schedules
    BY <1>4, SubmittedRow DEF Submitting
  <2> HIDE DEF n
  <2>2. \A x \in {r0, c0} \cap RunIds : runs'[x].schedule = runs[x].schedule
    <3> SUFFICES ASSUME NEW x \in {r0, c0} \cap RunIds
                 PROVE  runs'[x].schedule = runs[x].schedule
      OBVIOUS
    <3>1. x # 0
      BY BoundsAssumption DEF RunIds
    <3>2. x # n
      BY <1>1, <2>1, <3>1
    <3> QED
      BY <2>1, <3>2
  <2>3. \A x \in RunIds : runs'[x] = runs[x] \/ runs'[x].schedule # s
    BY <1>0, <2>1
  <2> QED
    BY <1>2, <2>1, <2>2, <2>3
<1>5. ASSUME NEW state \in PrunableStates, Prune(state) PROVE FlightOf(s)'
  <2>1. schedules' = schedules
    BY <1>5 DEF Prune
  <2>2. \A x \in RunIds : \/ runs'[x] = runs[x]
                          \/ runs'[x] = NoRun /\ x \notin {r0, c0}
    BY <1>5, PrunedRow
  <2>3. NoRun.schedule = Empty
    BY DEF NoRun
  <2> HIDE DEF r0, c0
  <2>4. \A x \in {r0, c0} \cap RunIds : runs'[x].schedule = runs[x].schedule
    BY <2>2
  <2>5. \A x \in RunIds : runs'[x] = runs[x] \/ runs'[x].schedule # s
    BY <1>0, <2>2, <2>3
  <2> QED
    BY <1>2, <2>1, <2>4, <2>5 DEF r0, c0
<1>6. ASSUME NEW d \in Definitions, Schedule(d), s # d.id PROVE FlightOf(s)'
  <2>1. schedules'[s] = schedules[s] /\ (Refreshed(d) \/ \E r \in RunIds : Dispatched(d, r))
    BY <1>6, ScheduleEffect
  <2>2. \A x \in RunIds : \/ runs'[x] = ReconciledRuns(d)[x]
                          \/ runs'[x].schedule = d.id /\ (runs[x].schedule = d.id \/ ~ Present(x))
    BY <2>1, DispatchStaysHome DEF Refreshed, Dispatched
  <2>3. \A x \in RunIds : \/ Carried(x)
                          \/ runs'[x].schedule = d.id /\ (runs[x].schedule = d.id \/ ~ Present(x))
    BY <2>2, ReconciledCarried
  <2>4. \A x \in {r0, c0} \cap RunIds : runs'[x].schedule = runs[x].schedule
    <3> SUFFICES ASSUME NEW x \in {r0, c0} \cap RunIds
                 PROVE  runs'[x].schedule = runs[x].schedule
      OBVIOUS
    <3>1. x # 0
      BY BoundsAssumption DEF RunIds
    <3>2. Present(x) /\ runs[x].schedule = s
      BY <1>1, <3>1
    <3> QED
      BY <1>6, <2>3, <3>2 DEF Carried
  <2> QED
    BY <1>2, <1>6, <2>1, <2>3, <2>4
<1>7. ASSUME NEW d \in Definitions, Schedule(d), s = d.id PROVE FlightOf(s)'
  <2> DEFINE c1 == AdoptedRow(d).compactRun
  <2>1. Reconcilable(d)
    BY <1>7, ScheduleEffect
  <2>2. c1 = 0 \/ c1 = c0
    <3>1. c1 # 0 => c1 = ScheduleRow(d).compactRun
      BY <2>1, AdoptedRowFields
    <3> QED
      BY <1>7, <3>1, ScheduleRowFields
  <2>3. AdoptedRow(d) \in ScheduleRows /\ AdoptedRow(d).run = 0
    BY <2>1, AdoptedRowFields
  <2>4. ASSUME NEW x \in RunIds, runs'[x] = ReconciledRuns(d)[x]
        PROVE  /\ runs'[x].schedule = runs[x].schedule
               /\ runs'[x].schedule = s => runs'[x].state \notin Unresolved
    <3>1. runs'[x].schedule = runs[x].schedule
      BY <2>4, ReconciledCarried DEF Carried
    <3>2. runs[x].schedule = s => runs'[x].state \notin Unresolved
      BY <1>7, <2>1, <2>4, ReconciledIsOver
    <3> QED
      BY <3>1, <3>2
  <2>5. CASE Refreshed(d)
    <3>1. schedules'[s].run = 0 /\ schedules'[s].compactRun = c1
      BY <1>7, <2>3, <2>5 DEF Refreshed, ScheduleRows
    <3>2. \A x \in RunIds : runs'[x] = ReconciledRuns(d)[x]
      BY <2>5 DEF Refreshed
    <3> HIDE DEF c1, c0
    <3>3. c1 # 0 => runs'[c1].schedule = s
      BY <1>1, <2>2, <2>4, <3>2
    <3> QED
      BY <2>4, <3>1, <3>2, <3>3 DEF FlightOf
  <2>6. ASSUME NEW r \in RunIds, Dispatched(d, r) PROVE FlightOf(s)'
    <3>1. schedules'[s].run = r /\ schedules'[s].compactRun \in {r, c1}
      BY <1>7, <2>1, <2>6, DispatchedFields DEF Dispatched
    <3>2. runs'[r].schedule = s
      BY <1>7, <2>6, DispatchStaysHome
    <3>3. \A x \in RunIds \ {r} : runs'[x] = ReconciledRuns(d)[x]
      BY <2>6 DEF Dispatched
    <3> HIDE DEF c1, c0
    <3>4. c1 # 0 => runs'[c1].schedule = s
      BY <1>1, <2>2, <2>4, <3>2, <3>3
    <3>5. \A x \in RunIds :
             runs'[x].schedule = s /\ runs'[x].state \in Unresolved => r = x
      BY <2>4, <3>3
    <3> QED
      BY <3>1, <3>2, <3>4, <3>5 DEF FlightOf
  <2> QED
    BY <1>7, <2>5, <2>6, ScheduleEffect
<1> QED
  BY <1>3, <1>4, <1>5, <1>6, <1>7, StepKinds

(* The slot of the run that is dispatched is the planned one.              *)
LEMMA DispatchedSlot ==
    ASSUME TypeOK, SlotKeys, NEW d \in Definitions, NEW r \in RunIds, Dispatched(d, r)
    PROVE  runs'[r].plannedAt = PlannedSlot(AdoptedRow(d))
<1>1. CASE Queued(d, r)
  BY <1>1, QueuedRunFields
<1>2. CASE Rebound(d, r)
  <2>1. /\ Present(r) /\ runs[r].job.key.name = d.id
        /\ runs[r].job.key.slot = PlannedSlot(AdoptedRow(d))
    BY <1>2 DEF Rebound, Existing, ScheduledJob, Present
  <2>2. d.id \in ScheduleIds
    BY DefinitionType
  <2>3. runs[r].plannedAt = PlannedSlot(AdoptedRow(d))
    BY <2>1, <2>2 DEF SlotKeys
  <2> QED
    BY <1>2, <2>3, ReconciledCarried DEF Rebound, Carried
<1> QED
  BY <1>1, <1>2 DEF Dispatched

AdvanceOf(s) ==
    schedules[s].compactRun # 0 =>
       /\ runs[schedules[s].compactRun].plannedAt <= clock
       /\ runs[schedules[s].compactRun].plannedAt < schedules[s].nextAt

LEMMA AdvanceStep ==
    ASSUME TypeOK, Fresh, FlightInv, [Next]_vars
    PROVE  SlotsAdvance'
<1> SUFFICES ASSUME NEW s \in ScheduleIds PROVE AdvanceOf(s)'
  BY DEF SlotsAdvance, AdvanceOf
<1>0. SlotKeys /\ UnbornIsBlank /\ ScheduleSingleFlight /\ AdvanceOf(s)
  BY DEF FlightInv, SlotsAdvance, AdvanceOf
<1> DEFINE c0 == schedules[s].compactRun
<1>1. /\ c0 # 0 => c0 \in RunIds /\ Present(c0) /\ runs[c0].schedule = s
      /\ clock \in Int /\ schedules[s].nextAt \in Int
      /\ \A x \in RunIds : runs[x].plannedAt \in Int
      /\ YieldDelay \in Int /\ YieldDelay > 0
  BY <1>0, ReferredRuns, ClockType, RowTypes, BoundsAssumption DEF ScheduleRows, RunRows
<1>2. ASSUME schedules'[s].compactRun = c0, schedules'[s].nextAt = schedules[s].nextAt,
             c0 # 0 => runs'[c0].plannedAt = runs[c0].plannedAt,
             clock' \in Int, clock <= clock'
      PROVE  AdvanceOf(s)'
  BY <1>0, <1>1, <1>2 DEF AdvanceOf
<1>3. ASSUME Quiet PROVE AdvanceOf(s)'
  <2>1. Referring(s) /\ (c0 # 0 => Carried(c0)) /\ clock' \in Int /\ clock <= clock'
    BY <1>1, <1>3 DEF Quiet
  <2> QED
    BY <1>2, <2>1 DEF Referring, Carried
<1>4. ASSUME NEW in \in Submissions \cup Imports, Submitting(in) PROVE AdvanceOf(s)'
  <2>1. /\ ~ Present(lastRun + 1) /\ schedules' = schedules /\ clock' = clock
        /\ \A x \in RunIds \ {lastRun + 1} : runs'[x] = runs[x]
    BY <1>4, SubmittedRow DEF Submitting
  <2>2. c0 # 0 => runs'[c0] = runs[c0]
    BY <1>1, <2>1
  <2> QED
    BY <1>1, <1>2, <2>1, <2>2
<1>5. ASSUME NEW state \in PrunableStates, Prune(state) PROVE AdvanceOf(s)'
  <2>1. schedules' = schedules /\ clock' = clock
    BY <1>5 DEF Prune
  <2>2. c0 # 0 => runs'[c0] = runs[c0]
    BY <1>1, <1>5, PrunedRow
  <2> QED
    BY <1>1, <1>2, <2>1, <2>2
<1>6. ASSUME NEW d \in Definitions, Schedule(d), s # d.id PROVE AdvanceOf(s)'
  <2>1. /\ schedules'[s] = schedules[s] /\ clock' = clock
        /\ Refreshed(d) \/ \E r \in RunIds : Dispatched(d, r)
    BY <1>6, ScheduleEffect
  <2>2. ASSUME c0 # 0 PROVE runs'[c0] = ReconciledRuns(d)[c0]
    <3>1. ASSUME NEW r \in RunIds, Dispatched(d, r) PROVE c0 # r
      <4>1. runs[r].schedule = d.id \/ ~ Present(r)
        BY <1>0, <3>1, DispatchStaysHome
      <4> QED
        BY <1>1, <1>6, <2>2, <4>1
    <3>2. c0 \in RunIds
      BY <1>1, <2>2
    <3> HIDE DEF c0
    <3> QED
      BY <2>1, <3>1, <3>2 DEF Refreshed, Dispatched
  <2>3. c0 # 0 => runs'[c0].plannedAt = runs[c0].plannedAt
    BY <1>1, <2>2, ReconciledCarried DEF Carried
  <2> QED
    BY <1>1, <1>2, <2>1, <2>3
<1>7. ASSUME NEW d \in Definitions, Schedule(d), s = d.id PROVE AdvanceOf(s)'
  <2> DEFINE row == AdoptedRow(d)
             c1 == row.compactRun
  <2>1. Reconcilable(d) /\ clock' = clock
    BY <1>7, ScheduleEffect
  <2>2. row \in ScheduleRows /\ row.nextAt \in Int
    BY ScheduleTypes DEF ScheduleRows
  <2>3. c1 # 0 => /\ c1 = c0
                  /\ row.nextAt = schedules[s].nextAt \/ row.nextAt = clock + YieldDelay
    <3>1. c1 # 0 => /\ c1 = ScheduleRow(d).compactRun
                    /\ row.nextAt = ScheduleRow(d).nextAt \/ row.nextAt = clock + YieldDelay
      BY <2>1, AdoptedRowFields
    <3>2. c1 # 0 => ScheduleRow(d) = schedules[s]
      BY <1>7, <3>1, ScheduleRowFields
    <3> QED
      BY <3>1, <3>2
  <2>4. c1 # 0 => /\ c1 \in RunIds
                  /\ runs[c1].plannedAt <= clock
                  /\ runs[c1].plannedAt < row.nextAt
    <3> HIDE DEF row
    <3>1. ASSUME c1 # 0 PROVE /\ c1 \in RunIds
                              /\ runs[c1].plannedAt <= clock
                              /\ runs[c1].plannedAt < row.nextAt
      <4>1. c1 = c0 /\ c0 # 0 /\ c0 \in RunIds /\ runs[c0].plannedAt \in Int
        BY <1>1, <2>3, <3>1
      <4>2. runs[c0].plannedAt <= clock /\ runs[c0].plannedAt < schedules[s].nextAt
        BY <1>0, <4>1 DEF AdvanceOf
      <4> HIDE DEF c0
      <4>3. clock < clock + YieldDelay
        BY <1>1
      <4>4. runs[c0].plannedAt < row.nextAt
        BY <1>1, <2>3, <3>1, <4>1, <4>2, <4>3
      <4> QED
        BY <4>1, <4>2, <4>4
    <3> QED
      BY <3>1
  <2>5. ASSUME NEW x \in RunIds, runs'[x] = ReconciledRuns(d)[x]
        PROVE  runs'[x].plannedAt = runs[x].plannedAt
    BY <2>5, ReconciledCarried DEF Carried
  <2>6. ASSUME row.nextAt <= clock
        PROVE  /\ PlannedSlot(row) \in Int /\ NextSlot(row) \in Int
               /\ PlannedSlot(row) <= clock /\ clock < NextSlot(row)
    BY <2>2, <2>6, SlotArithmetic
  <2>7. CASE Refreshed(d)
    <3>1. /\ schedules'[s].compactRun = c1
          /\ \/ schedules'[s].nextAt = row.nextAt
             \/ row.nextAt <= clock /\ schedules'[s].nextAt = NextSlot(row)
      BY <1>7, <2>2, <2>7 DEF Refreshed, ScheduleRows
    <3>2. c1 # 0 => runs'[c1].plannedAt = runs[c1].plannedAt
      BY <2>4, <2>5, <2>7 DEF Refreshed
    <3> HIDE DEF row, c1
    <3>3. ASSUME c1 # 0 PROVE runs[c1].plannedAt < schedules'[s].nextAt
      <4>1. c1 \in RunIds /\ runs[c1].plannedAt \in Int
        BY <1>1, <2>4, <3>3
      <4> QED
        BY <1>1, <2>4, <2>6, <3>1, <3>3, <4>1
    <3> QED
      BY <2>1, <2>4, <3>1, <3>2, <3>3 DEF AdvanceOf
  <2>8. ASSUME NEW r \in RunIds, Dispatched(d, r) PROVE AdvanceOf(s)'
    <3>1. /\ schedules'[s].compactRun \in {r, c1}
          /\ schedules'[s].nextAt = NextSlot(row)
      BY <1>7, <2>1, <2>8, DispatchedFields DEF Dispatched
    <3>2. row.nextAt <= clock /\ \A x \in RunIds \ {r} : runs'[x] = ReconciledRuns(d)[x]
      BY <2>8 DEF Dispatched
    <3>3. runs'[r].plannedAt = PlannedSlot(row)
      BY <1>0, <2>8, DispatchedSlot
    <3> HIDE DEF row, c1
    <3>4. /\ PlannedSlot(row) \in Int /\ NextSlot(row) \in Int
          /\ PlannedSlot(row) <= clock /\ clock < NextSlot(row)
      BY <2>6, <3>2
    <3>5. PlannedSlot(row) < NextSlot(row)
      BY <1>1, <3>4
    <3>6. ASSUME schedules'[s].compactRun = r PROVE AdvanceOf(s)'
      BY <2>1, <3>1, <3>3, <3>4, <3>5, <3>6 DEF AdvanceOf
    <3>7. ASSUME schedules'[s].compactRun = c1, c1 # r, c1 # 0 PROVE AdvanceOf(s)'
      <4>1. c1 \in RunIds /\ runs[c1].plannedAt <= clock /\ runs[c1].plannedAt \in Int
        BY <1>1, <2>4, <3>7
      <4>2. runs'[c1].plannedAt = runs[c1].plannedAt
        BY <2>5, <3>2, <3>7, <4>1
      <4>3. runs[c1].plannedAt < NextSlot(row)
        BY <1>1, <3>4, <4>1
      <4> QED
        BY <2>1, <3>1, <3>7, <4>1, <4>2, <4>3 DEF AdvanceOf
    <3>8. ASSUME schedules'[s].compactRun = 0 PROVE AdvanceOf(s)'
      BY <3>8 DEF AdvanceOf
    <3> QED
      BY <3>1, <3>6, <3>7, <3>8
  <2> QED
    BY <1>7, <2>7, <2>8, ScheduleEffect
<1> QED
  BY <1>3, <1>4, <1>5, <1>6, <1>7, StepKinds

LEMMA FlightInit == Init => FlightInv
<1> SUFFICES ASSUME Init PROVE FlightInv
  OBVIOUS
<1>1. /\ \A r \in RunIds : runs[r] = NoRun
      /\ \A s \in ScheduleIds : schedules[s] = NoSchedule
  BY DEF Init
<1>2. /\ NoRun.state = "absent" /\ NoRun.schedule = Empty
      /\ NoSchedule.run = 0 /\ NoSchedule.compactRun = 0
  BY DEF NoRun, NoSchedule
<1>3. \A r \in RunIds : ~ Present(r) /\ runs[r].state \notin Unresolved
  BY <1>1, <1>2 DEF Present, Unresolved, Pending, Leased
<1> QED
  BY <1>1, <1>2, <1>3 DEF FlightInv, SlotKeys, UnbornIsBlank, ScheduleSingleFlight,
                          SlotsAdvance

LEMMA FlightInvStep == TypeOK /\ Fresh /\ FlightInv /\ [Next]_vars => FlightInv'
BY SlotKeysStep, UnbornStep, FlightStep, AdvanceStep DEF FlightInv

LEMMA FlightInvariant == Spec => []FlightInv
<1>1. EvidenceInv => TypeOK /\ Fresh
  BY DEF EvidenceInv
<1> QED
  BY <1>1, FlightInit, FlightInvStep, EvidenceInvariant, PTL DEF Spec

(* Scheduling is single flight (schedules.go:102-121, retention.go:26-30): *)
(* whatever definitions are reconciled, renamed, suppressed, interrupted   *)
(* or compacted, a schedule has at most one run that is not over, the one  *)
(* it points at, and neither retention nor reuse leaves it pointing at a   *)
(* row of somebody else.                                                   *)
THEOREM SchedulesSingleFlight == Spec => []ScheduleSingleFlight
<1>1. FlightInv => ScheduleSingleFlight
  BY DEF FlightInv
<1> QED
  BY <1>1, FlightInvariant, PTL

-----------------------------------------------------------------------------
(* Failures are counted once                                               *)

(* The margin of a schedule row against the runs rs.                       *)
Margin(row, rs) ==
    /\ row.failures <= row.runs
    /\ row.state \in Leased => row.failures < row.runs
    /\ \A r \in LeasedRuns(rs) : row.run = r => row.state \in Leased

LEMMA MarginForm == FailureMargin <=> \A s \in ScheduleIds : Margin(schedules[s], runs)
BY DEF FailureMargin, Margin

LEMMA CountTypes ==
    ASSUME TypeOK, NEW s \in ScheduleIds
    PROVE  schedules[s].failures \in Nat /\ schedules[s].runs \in Nat
BY RowTypes DEF ScheduleRows

(* A lease that runs out is counted by the claim that notices it.          *)
LEMMA ExpiredMargin ==
    ASSUME TypeOK, FailureMargin, NEW s \in ScheduleIds
    PROVE  Margin(ExpiredSchedules[s], ExpiredRuns)
<1>1. Margin(schedules[s], runs)
  BY MarginForm
<1>2. schedules[s] \in ScheduleRows /\ schedules[s].failures \in Nat /\ schedules[s].runs \in Nat
  BY RowTypes, CountTypes
<1> DEFINE lost == /\ schedules[s].state \in Leased
                   /\ schedules[s].run \in RunIds
                   /\ ExpiredRuns[schedules[s].run].state = "unknown"
<1>3. CASE lost
  <2> DEFINE row == ExpiredSchedules[s]
  <2>1. row = [schedules[s] EXCEPT !.state = "unknown", !.failures = schedules[s].failures + 1]
    BY <1>3 DEF ExpiredSchedules
  <2>2. /\ row.state = "unknown" /\ row.failures = schedules[s].failures + 1
        /\ row.runs = schedules[s].runs /\ row.run = schedules[s].run
    BY <1>2, <2>1 DEF ScheduleRows
  <2>3. schedules[s].failures < schedules[s].runs
    BY <1>1, <1>3 DEF Margin
  <2>4. schedules[s].run \notin LeasedRuns(ExpiredRuns)
    BY <1>3 DEF LeasedRuns, Leased
  <2> HIDE DEF row
  <2>5. Margin(row, ExpiredRuns)
    BY <1>2, <2>2, <2>3, <2>4 DEF Margin, Leased
  <2> QED
    BY <2>5 DEF row
<1>4. CASE ~ lost
  <2>1. ExpiredSchedules[s] = schedules[s]
    BY <1>4 DEF ExpiredSchedules
  <2>2. LeasedRuns(ExpiredRuns) \subseteq LeasedRuns(runs)
    BY ExpiredRow DEF LeasedRuns
  <2> QED
    BY <1>1, <2>1, <2>2 DEF Margin
<1> QED
  BY <1>3, <1>4

LEMMA ClaimMargin ==
    ASSUME TypeOK, SlotKeys, ScheduleSingleFlight, FailureMargin,
           NEW w \in Workers, NEW hs \in HandlerSets, NEW r \in RunIds, ClaimRun(w, hs, r),
           NEW s \in ScheduleIds
    PROVE  Margin(schedules'[s], runs')
<1> DEFINE old == ExpiredSchedules[s]
<1>1. Margin(old, ExpiredRuns)
  BY ExpiredMargin
<1>2. old \in ScheduleRows /\ old.failures \in Nat /\ old.runs \in Nat
      /\ old.run = schedules[s].run
  BY ExpiredTypes, ExpiredReferring DEF ScheduleRows
<1>3. LeasedRuns(runs') \subseteq LeasedRuns(ExpiredRuns) \cup {r}
  BY ClaimedRow DEF LeasedRuns
<1>4. r # 0 /\ ExpiredRuns[r].schedule = runs[r].schedule
  BY ExpiredCarried, BoundsAssumption DEF RunIds
<1>5. schedules'[s] = IF s = runs[r].schedule /\ old.run = r
                      THEN [old EXCEPT !.state = "running", !.runs = old.runs + 1]
                      ELSE old
  BY <1>4 DEF ClaimRun
<1>6. old.run = r => runs[r].schedule = s
  BY <1>2, <1>4 DEF ScheduleSingleFlight
<1> HIDE DEF old
<1>7. CASE old.run = r
  <2>1. schedules'[s] = [old EXCEPT !.state = "running", !.runs = old.runs + 1]
    BY <1>5, <1>6, <1>7
  <2>2. /\ schedules'[s].state = "running" /\ schedules'[s].runs = old.runs + 1
        /\ schedules'[s].failures = old.failures
    BY <1>2, <2>1 DEF ScheduleRows
  <2>3. old.failures <= old.runs
    BY <1>1 DEF Margin
  <2>4. old.failures <= old.runs + 1 /\ old.failures < old.runs + 1
    BY <1>2, <2>3
  <2> QED
    BY <2>2, <2>4 DEF Margin, Leased
<1>8. CASE old.run # r
  BY <1>1, <1>3, <1>5, <1>8 DEF Margin
<1> QED
  BY <1>7, <1>8

LEMMA FinishMargin ==
    ASSUME TypeOK, SlotKeys, ScheduleSingleFlight, FailureMargin,
           NEW t \in Tokens, NEW outcome \in Outcomes, Finish(t, outcome),
           NEW s \in ScheduleIds
    PROVE  Margin(schedules'[s], runs')
<1> DEFINE r == claims[t].run
           state == RecordedOutcome(runs[r], outcome)
           old == schedules[s]
           n == IF state \in {"failed", "unknown"} THEN old.failures + 1 ELSE old.failures
<1>1. /\ r \in RunIds /\ r \in LeasedRuns(runs)
      /\ state \notin Leased
      /\ LeasedRuns(runs') \subseteq LeasedRuns(runs) \ {r}
  BY FinishedRow DEF LeasedRuns
<1>2. /\ Margin(old, runs) /\ old \in ScheduleRows
      /\ old.failures \in Nat /\ old.runs \in Nat
  BY MarginForm, RowTypes, CountTypes
<1>3. schedules'[s] = IF s = runs[r].schedule /\ old.run = r
                      THEN [old EXCEPT !.state = state, !.failures = n]
                      ELSE old
  BY DEF Finish
<1>4. old.run = r => runs[r].schedule = s
  BY <1>1, BoundsAssumption DEF ScheduleSingleFlight, RunIds
<1>5. n = old.failures \/ n = old.failures + 1
  OBVIOUS
<1> HIDE DEF old, r, state, n
<1>6. CASE old.run = r
  <2>1. schedules'[s] = [old EXCEPT !.state = state, !.failures = n]
    BY <1>3, <1>4, <1>6
  <2>2. /\ schedules'[s].state = state /\ schedules'[s].runs = old.runs
        /\ schedules'[s].failures = n /\ schedules'[s].run = r
    BY <1>2, <1>6, <2>1 DEF ScheduleRows
  <2>3. old.failures < old.runs
    BY <1>1, <1>2, <1>6 DEF Margin
  <2>4. n <= old.runs
    BY <1>2, <1>5, <2>3
  <2> QED
    BY <1>1, <2>2, <2>4 DEF Margin
<1>7. CASE old.run # r
  BY <1>1, <1>2, <1>3, <1>7 DEF Margin
<1> QED
  BY <1>6, <1>7

LEMMA CancelMargin ==
    ASSUME TypeOK, ScheduleSingleFlight, FailureMargin,
           NEW rs \in SUBSET RunIds, CancelRuns(rs), NEW s \in ScheduleIds
    PROVE  Margin(schedules'[s], runs')
<1> DEFINE old == schedules[s]
           state == CanceledState(runs[old.run].state)
<1>1. /\ Margin(old, runs) /\ old \in ScheduleRows
  BY MarginForm, RowTypes
<1>2. LeasedRuns(runs') \subseteq LeasedRuns(runs)
  BY CanceledRow DEF LeasedRuns, LeaseKept
<1>3. schedules'[s] = IF old.run \in rs /\ runs[old.run].schedule = s
                      THEN [old EXCEPT !.state = state] ELSE old
  BY DEF CancelRuns
<1>4. /\ old.run \in LeasedRuns(runs) => state \in Leased
      /\ state \in Leased => (old.run \in RunIds => old.run \in LeasedRuns(runs))
  BY DEF CanceledState, LeasedRuns, Leased
<1> HIDE DEF old, state
<1>5. CASE old.run \in rs /\ runs[old.run].schedule = s
  <2>1. schedules'[s] = [old EXCEPT !.state = state]
    BY <1>3, <1>5
  <2>2. /\ schedules'[s].state = state /\ schedules'[s].runs = old.runs
        /\ schedules'[s].failures = old.failures /\ schedules'[s].run = old.run
    BY <1>1, <2>1 DEF ScheduleRows
  <2>3. state \in Leased => old.state \in Leased
    BY <1>1, <1>4, <1>5 DEF Margin
  <2> QED
    BY <1>1, <1>2, <1>4, <2>2, <2>3 DEF Margin
<1>6. CASE ~ (old.run \in rs /\ runs[old.run].schedule = s)
  BY <1>1, <1>2, <1>3, <1>6 DEF Margin
<1> QED
  BY <1>5, <1>6

LEMMA ScheduleMargin ==
    ASSUME TypeOK, Fresh, FlightInv, FailureMargin,
           NEW d \in Definitions, Schedule(d), NEW s \in ScheduleIds
    PROVE  Margin(schedules'[s], runs')
<1>0. SlotKeys /\ UnbornIsBlank /\ ScheduleSingleFlight
  BY DEF FlightInv
<1>1. Margin(schedules[s], runs)
  BY MarginForm
<1>2. LeasedRuns(runs') \subseteq LeasedRuns(runs)
  BY ScheduleKeepsLeases DEF LeasedRuns, LeaseKept
<1>3. CASE s # d.id
  <2>1. schedules'[s] = schedules[s]
    BY <1>3, ScheduleEffect
  <2> QED
    BY <1>1, <1>2, <2>1 DEF Margin
<1>4. CASE s = d.id
  <2> DEFINE row == AdoptedRow(d)
             old == ScheduleRow(d)
  <2>1. Reconcilable(d)
    BY ScheduleEffect
  <2>2. /\ row \in ScheduleRows /\ row.run = 0
        /\ row.runs = old.runs /\ row.failures = old.failures
        /\ row.state = old.state \/ row.state \in Terminal
    BY <2>1, AdoptedRowFields
  <2>3. /\ old.failures <= old.runs
        /\ old.state \in Leased => old.failures < old.runs
    <3>1. CASE schedules[d.id].exists
      BY <1>1, <1>4, <3>1, ScheduleRowFields DEF Margin
    <3>2. CASE ~ schedules[d.id].exists
      <4>1. old.state = Empty /\ old.runs = 0 /\ old.failures = 0
        BY <3>2, ScheduleRowFields
      <4>2. old.state \notin Leased
        BY <4>1 DEF Empty, Leased
      <4> QED
        BY <4>1, <4>2
    <3> QED
      BY <3>1, <3>2
  <2>4. CASE Refreshed(d)
    <3>1. /\ schedules'[s].run = 0 /\ schedules'[s].runs = row.runs
          /\ schedules'[s].failures = row.failures /\ schedules'[s].state = row.state
      BY <1>4, <2>2, <2>4 DEF Refreshed, ScheduleRows
    <3>2. 0 \notin LeasedRuns(runs')
      BY BoundsAssumption DEF LeasedRuns, RunIds
    <3>3. row.state \in Leased => old.state \in Leased
      BY <2>2 DEF Terminal, Leased
    <3> HIDE DEF row, old
    <3> QED
      BY <2>2, <2>3, <3>1, <3>2, <3>3 DEF Margin
  <2>5. ASSUME NEW r \in RunIds, Dispatched(d, r) PROVE Margin(schedules'[s], runs')
    <3>1. /\ schedules'[s].run = r /\ schedules'[s].runs = old.runs
          /\ schedules'[s].failures = old.failures /\ schedules'[s].state = "queued"
      <4>1. schedules'[s] = DispatchedRow(d, r)
        BY <1>4, <2>5 DEF Dispatched
      <4>2. /\ DispatchedRow(d, r).run = r /\ DispatchedRow(d, r).state = "queued"
            /\ DispatchedRow(d, r).runs = ScheduleRow(d).runs
            /\ DispatchedRow(d, r).failures = ScheduleRow(d).failures
        BY <2>1, DispatchedFields
      <4> QED
        BY <4>1, <4>2
    <3>2. runs'[r].state \notin Leased
      <4>1. CASE Queued(d, r)
        BY <4>1, QueuedRunFields DEF Leased
      <4>2. CASE Rebound(d, r)
        <5>1. runs'[r].schedule = d.id /\ runs'[r] = ReconciledRuns(d)[r]
          BY <1>0, <2>5, <4>2, DispatchStaysHome DEF Rebound
        <5>2. runs[r].schedule = d.id
          BY <5>1, ReconciledCarried DEF Carried
        <5> QED
          BY <1>0, <2>1, <5>1, <5>2, ReconciledIsOver DEF Unresolved
      <4> QED
        BY <2>5, <4>1, <4>2 DEF Dispatched
    <3>3. r \notin LeasedRuns(runs')
      BY <3>2 DEF LeasedRuns
    <3> QED
      BY <2>3, <3>1, <3>3 DEF Margin, Leased
  <2> QED
    BY <2>4, <2>5, ScheduleEffect
<1> QED
  BY <1>3, <1>4

LEMMA MarginStep == TypeOK /\ Fresh /\ FlightInv /\ FailureMargin /\ [Next]_vars => FailureMargin'
<1> SUFFICES ASSUME TypeOK, Fresh, FlightInv, FailureMargin, [Next]_vars,
                    NEW s \in ScheduleIds
             PROVE  Margin(schedules'[s], runs')
  BY DEF FailureMargin, Margin
<1>0. SlotKeys /\ ScheduleSingleFlight /\ Margin(schedules[s], runs)
  BY MarginForm DEF FlightInv
<1> DEFINE Goal == Margin(schedules'[s], runs')
<1>1. ASSUME schedules' = schedules,
             ~ \E w \in Workers, hs \in HandlerSets, r \in RunIds : ClaimRun(w, hs, r)
      PROVE  Goal
  <2>1. LeasedRuns(runs') \subseteq LeasedRuns(runs)
    BY <1>1, LeasesKept DEF LeasedRuns, LeaseKept
  <2> QED
    BY <1>0, <1>1, <2>1 DEF Margin
<1>2. ASSUME NEW w \in Workers, NEW hs \in HandlerSets, NEW r \in RunIds, ClaimRun(w, hs, r)
      PROVE  Goal
  BY <1>0, <1>2, ClaimMargin
<1>3. ASSUME NEW hs \in HandlerSets, ClaimEmpty(hs) PROVE Goal
  BY <1>3, ExpiredMargin DEF ClaimEmpty
<1>4. ASSUME NEW t \in Tokens, NEW outcome \in Outcomes, Finish(t, outcome) PROVE Goal
  BY <1>0, <1>4, FinishMargin
<1>5. ASSUME NEW r \in RunIds, RecordCancellation(r) PROVE Goal
  <2>1. CancelRuns({r}) /\ {r} \in SUBSET RunIds
    BY <1>5 DEF RecordCancellation
  <2> QED
    BY <1>0, <2>1, CancelMargin
<1>6. ASSUME NEW h \in Handlers, CancelHandler(h) PROVE Goal
  <2> DEFINE rs == {r \in RunIds : runs[r].job.handler = h /\ runs[r].state \in Pending \cup Leased}
  <2>1. CancelRuns(rs) /\ rs \in SUBSET RunIds
    BY <1>6 DEF CancelHandler
  <2> HIDE DEF rs
  <2> QED
    BY <1>0, <2>1, CancelMargin
<1>7. ASSUME NEW d \in Definitions, Schedule(d) PROVE Goal
  BY <1>7, ScheduleMargin
<1>8. ASSUME \/ \E in \in Submissions : Submit(in)
             \/ \E in \in Imports : ImportUnknown(in)
             \/ \E r \in RunIds, state \in {"succeeded", "failed"} : Resolve(r, state)
             \/ \E state \in PrunableStates : Prune(state)
             \/ Tick
             \/ UNCHANGED vars
      PROVE  Goal
  <2>1. schedules' = schedules
    BY <1>8 DEF Submit, ImportUnknown, Resolve, Prune, Tick, vars
  <2> HIDE DEF Goal
  <2> QED
    BY <1>1, <1>2, <2>1
<1> HIDE DEF Goal
<1>9. Goal
  BY <1>2, <1>3, <1>4, <1>5, <1>6, <1>7, <1>8 DEF Next
<1> QED
  BY <1>9 DEF Goal

LEMMA MarginInit == Init => FailureMargin
<1>1. /\ NoSchedule.failures = 0 /\ NoSchedule.runs = 0 /\ NoSchedule.state = Empty
  BY DEF NoSchedule
<1>2. Empty \notin Leased
  BY DEF Empty, Leased
<1>3. Init => LeasedRuns(runs) = {}
  BY InitNoLease
<1> QED
  BY <1>1, <1>2, <1>3 DEF Init, FailureMargin

(* The failure counter of a schedule never exceeds the leases counted for  *)
(* it (store.go:217, :414): a lost lease is counted by the completion that *)
(* arrives too late or by the claim that notices the expiry, never by both,*)
(* and a cancellation in between does not count it again.                  *)
THEOREM FailuresCountedOnce == Spec => []FailuresCounted
<1>1. EvidenceInv => TypeOK /\ Fresh
  BY DEF EvidenceInv
<1>2. FailureMargin => FailuresCounted
  BY DEF FailureMargin, FailuresCounted
<1> QED
  BY <1>1, <1>2, MarginInit, MarginStep, FlightInvariant, EvidenceInvariant, PTL DEF Spec

-----------------------------------------------------------------------------
(* A lost attempt is the last one of its intent                            *)

LEMMA IntentsStep ==
    ASSUME TypeOK, Fresh, IntentsUnique, [Next]_vars
    PROVE  IntentsUnique'
<1> DEFINE Kept(x) == Present(x)' => Present(x) /\ runs'[x].job = runs[x].job
           New(x, in) == /\ runs'[x].job = in /\ in.owner # Empty
                         /\ Existing(in) \subseteq {x}
<1>1. ASSUME NEW in, NEW n \in RunIds, New(n, in), \A x \in RunIds \ {n} : Kept(x)
      PROVE  IntentsUnique'
  <2>1. \A x \in RunIds : Present(x)' => runs'[x].job.owner # Empty
    BY <1>1 DEF IntentsUnique
  <2>2. ASSUME NEW x \in RunIds, x # n, Present(x)', runs'[x].job.owner = in.owner,
               runs'[x].job.key = in.key
        PROVE  FALSE
    <3>1. Kept(x)
      BY <1>1, <2>2
    <3>2. x \in Existing(in)
      BY <2>2, <3>1 DEF Existing, Present
    <3> QED
      BY <1>1, <2>2, <3>2
  <2>3. ASSUME NEW r \in RunIds, NEW x \in RunIds, Present(r)', Present(x)',
               runs'[r].job.owner = runs'[x].job.owner, runs'[r].job.key = runs'[x].job.key
        PROVE  r = x
    <3>1. CASE r = n \/ x = n
      BY <1>1, <2>2, <2>3, <3>1
    <3>2. CASE r # n /\ x # n
      <4>1. Kept(r) /\ Kept(x)
        BY <1>1, <3>2
      <4> QED
        BY <2>3, <4>1 DEF IntentsUnique
    <3> QED
      BY <3>1, <3>2
  <2> QED
    BY <2>1, <2>3 DEF IntentsUnique, Present
<1>2. ASSUME \A x \in RunIds : Kept(x) PROVE IntentsUnique'
  <2>1. \A x \in RunIds : Present(x)' => runs'[x].job.owner # Empty
    BY <1>2 DEF IntentsUnique
  <2>2. ASSUME NEW r \in RunIds, NEW x \in RunIds, Present(r)', Present(x)',
               runs'[r].job.owner = runs'[x].job.owner, runs'[r].job.key = runs'[x].job.key
        PROVE  r = x
    <3>1. Kept(r) /\ Kept(x)
      BY <1>2
    <3> QED
      BY <2>2, <3>1 DEF IntentsUnique
  <2> QED
    BY <2>1, <2>2 DEF IntentsUnique, Present
<1>3. ASSUME NEW x \in RunIds, Carried(x) PROVE Kept(x)
  BY <1>3 DEF Carried, Present
<1>4. ASSUME Quiet PROVE IntentsUnique'
  BY <1>2, <1>3, <1>4 DEF Quiet
<1>5. ASSUME NEW in \in Submissions \cup Imports, Submitting(in) PROVE IntentsUnique'
  <2>1. /\ lastRun + 1 \in RunIds /\ Insertable(in) /\ in.owner # Empty
        /\ runs'[lastRun + 1].job = in
        /\ \A x \in RunIds \ {lastRun + 1} : runs'[x] = runs[x]
    BY <1>5, SubmittedRow DEF Submitting
  <2>2. New(lastRun + 1, in)
    BY <2>1 DEF Insertable
  <2>3. \A x \in RunIds \ {lastRun + 1} : Kept(x)
    BY <2>1 DEF Present
  <2> QED
    BY <1>1, <2>1, <2>2, <2>3
<1>6. ASSUME NEW state \in PrunableStates, Prune(state) PROVE IntentsUnique'
  <2>1. NoRun.state = "absent"
    BY DEF NoRun
  <2>2. \A x \in RunIds : Kept(x)
    BY <1>6, <2>1, PrunedRow DEF Present
  <2> QED
    BY <1>2, <2>2
<1>7. ASSUME NEW d \in Definitions, Schedule(d) PROVE IntentsUnique'
  <2>1. ASSUME NEW x \in RunIds, runs'[x] = ReconciledRuns(d)[x] PROVE Kept(x)
    BY <1>3, <2>1, ReconciledCarried
  <2>2. ASSUME \A x \in RunIds : runs'[x] = ReconciledRuns(d)[x] PROVE IntentsUnique'
    BY <1>2, <2>1, <2>2
  <2>3. ASSUME NEW r \in RunIds, Queued(d, r), Dispatched(d, r) PROVE IntentsUnique'
    <3>1. New(r, ScheduledJob(d))
      <4>1. /\ runs'[r].job = ScheduledJob(d) /\ runs'[r].job.owner = d.plan.owner
            /\ d.plan.owner # Empty
        BY <2>3, QueuedRunFields
      <4>2. Existing(ScheduledJob(d)) \subseteq {r}
        BY <2>3 DEF Queued
      <4> QED
        BY <4>1, <4>2
    <3>2. \A x \in RunIds \ {r} : Kept(x)
      BY <2>1, <2>3 DEF Dispatched
    <3> QED
      BY <1>1, <3>1, <3>2
  <2> QED
    BY <1>7, <2>2, <2>3, ScheduleEffect DEF Refreshed, Dispatched, Rebound
<1> QED
  BY <1>4, <1>5, <1>6, <1>7, StepKinds

LatestOf(x) ==
    Present(x) /\ runs[x].token # 0 =>
       /\ claims[runs[x].token].owner = runs[x].job.owner
       /\ claims[runs[x].token].key = runs[x].job.key
       /\ \A u \in Tokens : u > runs[x].token =>
             ~ (claims[u].owner = runs[x].job.owner /\ claims[u].key = runs[x].job.key)

LEMMA ClaimLatest ==
    ASSUME TypeOK, Fresh, IntentsUnique, NEW x \in RunIds, LatestOf(x),
           NEW w \in Workers, NEW hs \in HandlerSets, NEW r \in RunIds, ClaimRun(w, hs, r)
    PROVE  LatestOf(x)'
<1> DEFINE n == lastToken + 1
<1>1. /\ runs[r].state \in Pending /\ ExpiredRuns[r] = runs[r]
      /\ runs'[r].job = runs[r].job /\ runs'[r].token = n
      /\ \A y \in RunIds \ {r} : runs'[y] = ExpiredRuns[y]
  BY ClaimedRow
<1>2. /\ n \in Tokens /\ lastToken \in Int /\ 0 <= lastToken
      /\ \A y \in RunIds : runs[y].token \in Int
      /\ \A u \in Tokens : u \in Int
  <2>1. lastToken < MaxTokens /\ MaxTokens \in Nat /\ lastToken \in Int /\ 0 <= lastToken
    BY IdentifierTypes, BoundsAssumption DEF ClaimRun
  <2> QED
    BY <2>1, IdentifierTypes DEF Tokens
<1>3. claims \in [Tokens -> Claims]
  BY RowTypes
<1>4. /\ claims'[n].owner = runs[r].job.owner /\ claims'[n].key = runs[r].job.key
      /\ \A u \in Tokens \ {n} : claims'[u] = claims[u]
  BY <1>1, <1>2, <1>3 DEF ClaimRun
<1>5. Present(r) /\ runs[r].job.owner # Empty
  BY <1>1 DEF Present, Pending, IntentsUnique
<1>6. \A u \in Tokens : u > n => claims'[u].owner = Empty
  <2>1. \A u \in Tokens : u > n => u > lastToken /\ u # n
    BY <1>2
  <2> QED
    BY <1>4, <2>1 DEF Fresh, NoClaim
<1> HIDE DEF n
<1>7. CASE x = r
  BY <1>1, <1>4, <1>5, <1>6, <1>7 DEF LatestOf
<1>8. CASE x # r
  <2> DEFINE t == runs[x].token
  <2>1. /\ runs'[x].job = runs[x].job /\ runs'[x].token = t
        /\ Present(x)' => Present(x)
    <3>1. runs'[x] = ExpiredRuns[x]
      BY <1>1, <1>8
    <3> QED
      BY <3>1, ExpiredCarried DEF Present, Leased
  <2>2. ASSUME Present(x), t # 0 PROVE LatestOf(x)'
    <3>1. t \in Tokens /\ t # n /\ t < n
      <4>1. t \in 0 .. MaxTokens /\ t <= lastToken /\ MaxTokens \in Nat
        BY RowTypes, BoundsAssumption DEF RunRows, Fresh
      <4> QED
        BY <1>2, <2>2, <4>1 DEF n, Tokens
    <3>2. ~ (claims'[n].owner = runs[x].job.owner /\ claims'[n].key = runs[x].job.key)
      BY <1>4, <1>5, <1>8, <2>2 DEF IntentsUnique
    <3>3. /\ claims[t].owner = runs[x].job.owner /\ claims[t].key = runs[x].job.key
          /\ \A u \in Tokens : u > t =>
                ~ (claims[u].owner = runs[x].job.owner /\ claims[u].key = runs[x].job.key)
      BY <2>2 DEF LatestOf
    <3> HIDE DEF t
    <3>4. /\ claims'[t].owner = runs[x].job.owner /\ claims'[t].key = runs[x].job.key
          /\ \A u \in Tokens : u > t =>
                ~ (claims'[u].owner = runs[x].job.owner /\ claims'[u].key = runs[x].job.key)
      BY <1>4, <3>1, <3>2, <3>3
    <3> QED
      BY <2>1, <3>4 DEF LatestOf
  <2> QED
    BY <2>1, <2>2 DEF LatestOf
<1> QED
  BY <1>7, <1>8

LEMMA LatestStep ==
    ASSUME TypeOK, Fresh, IntentsUnique, LeaseIsLatest, [Next]_vars
    PROVE  LeaseIsLatest'
<1> SUFFICES ASSUME NEW x \in RunIds PROVE LatestOf(x)'
  BY DEF LeaseIsLatest, LatestOf, Present
<1>0. LatestOf(x)
  BY DEF LeaseIsLatest, LatestOf
<1>1. ASSUME Present(x)' => Present(x), runs'[x].job = runs[x].job,
             runs'[x].token \in {0, runs[x].token},
             \A u \in Tokens : claims'[u].owner = claims[u].owner /\ claims'[u].key = claims[u].key
      PROVE  LatestOf(x)'
  <2>1. runs[x].token # 0 => runs[x].token \in Tokens
    BY RowTypes, BoundsAssumption DEF RunRows, Tokens
  <2> QED
    BY <1>0, <1>1, <2>1 DEF LatestOf
<1>2. ASSUME runs'[x].token = 0 PROVE LatestOf(x)'
  BY <1>2 DEF LatestOf
<1>3. ASSUME runs'[x] = runs[x], claims' = claims PROVE LatestOf(x)'
  BY <1>1, <1>3 DEF Present
<1>4. ASSUME NEW in \in Submissions \cup Imports, Submitting(in) PROVE LatestOf(x)'
  <2>1. claims' = claims /\ (runs'[x] = runs[x] \/ runs'[x].token = 0)
    BY <1>4, SubmittedRow DEF Submitting
  <2> QED
    BY <1>2, <1>3, <2>1
<1>5. ASSUME NEW in \in Submissions, Submit(in) PROVE LatestOf(x)'
  BY <1>4, <1>5 DEF Submitting
<1>6. ASSUME NEW in \in Imports, ImportUnknown(in) PROVE LatestOf(x)'
  BY <1>4, <1>6 DEF Submitting
<1>7. ASSUME NEW hs \in HandlerSets, ClaimEmpty(hs) PROVE LatestOf(x)'
  <2>1. runs'[x] = ExpiredRuns[x] /\ claims' = claims
    BY <1>7 DEF ClaimEmpty
  <2> QED
    BY <1>1, <2>1, ExpiredCarried DEF Present, Leased
<1>8. ASSUME NEW w \in Workers, NEW hs \in HandlerSets, NEW r \in RunIds, ClaimRun(w, hs, r)
      PROVE  LatestOf(x)'
  BY <1>0, <1>8, ClaimLatest
<1>9. ASSUME NEW t \in Tokens, NEW outcome \in Outcomes, Finish(t, outcome) PROVE LatestOf(x)'
  <2>1. Carried(x)
    BY <1>9, FinishCarries
  <2>2. runs'[x].token \in {0, runs[x].token}
    BY <1>9, FinishedRow
  <2>3. claims \in [Tokens -> Claims] /\ claims' = [claims EXCEPT ![t].settled = @ + 1]
    BY <1>9, RowTypes DEF Finish
  <2>4. \A u \in Tokens : claims'[u].owner = claims[u].owner /\ claims'[u].key = claims[u].key
    BY <2>3 DEF Claims
  <2> QED
    BY <1>1, <2>1, <2>2, <2>4 DEF Carried, Present
<1>10. ASSUME NEW rs \in SUBSET RunIds, CancelRuns(rs),
              \A r \in rs : runs[r].state \in Pending \cup Leased
       PROVE  LatestOf(x)'
  <2>1. Carried(x) /\ runs'[x].token = runs[x].token /\ claims' = claims
    BY <1>10, CancelCarries, CanceledRow DEF CancelRuns
  <2> QED
    BY <1>1, <2>1 DEF Carried, Present
<1>11. ASSUME NEW r \in RunIds, RecordCancellation(r) PROVE LatestOf(x)'
  BY <1>10, <1>11 DEF RecordCancellation, Leased
<1>12. ASSUME NEW h \in Handlers, CancelHandler(h) PROVE LatestOf(x)'
  BY <1>10, <1>12 DEF CancelHandler
<1>13. ASSUME NEW r \in RunIds, NEW state \in {"succeeded", "failed"}, Resolve(r, state)
       PROVE  LatestOf(x)'
  <2>1. Carried(x)
    BY <1>13, ResolveCarries
  <2>2. runs'[x].token = runs[x].token /\ claims' = claims
    BY <1>13, RowTypes DEF Resolve, RunRows
  <2> QED
    BY <1>1, <2>1, <2>2 DEF Carried, Present
<1>14. ASSUME NEW d \in Definitions, Schedule(d) PROVE LatestOf(x)'
  <2>1. claims' = claims
    BY <1>14, ScheduleEffect
  <2>2. CASE runs'[x] = ReconciledRuns(d)[x]
    BY <1>1, <2>1, <2>2, ReconciledCarried DEF Carried, Present
  <2>3. CASE Queued(d, x)
    BY <1>2, <2>3, QueuedRunFields
  <2> QED
    BY <1>14, <2>2, <2>3, ScheduleEffect DEF Refreshed, Dispatched, Rebound
<1>15. ASSUME NEW state \in PrunableStates, Prune(state) PROVE LatestOf(x)'
  <2>1. NoRun.token = 0
    BY DEF NoRun
  <2> QED
    BY <1>2, <1>3, <1>15, <2>1, PrunedRow
<1>16. ASSUME Tick \/ UNCHANGED vars PROVE LatestOf(x)'
  BY <1>3, <1>16 DEF Tick, vars
<1> QED
  BY <1>5, <1>6, <1>7, <1>8, <1>9, <1>11, <1>12, <1>13, <1>14, <1>15, <1>16 DEF Next

LostStates == {"unknown", "interrupted", "succeeded", "failed"}

LostOf(t) ==
    attempts[t].state = "unknown" =>
       /\ attempts[t].run \in RunIds
       /\ runs[attempts[t].run].token = t
       /\ runs[attempts[t].run].state \in LostStates

LEMMA LostForm == LostIsNamed <=> \A t \in Tokens : LostOf(t)
BY DEF LostIsNamed, LostOf, LostStates

(* An attempt that expires is the open attempt of a run that expires.      *)
LEMMA ExpiredLost ==
    ASSUME TypeOK, LeaseEvidence, LostIsNamed, NEW t \in Tokens,
           ExpiredAttempts[t].state = "unknown"
    PROVE  /\ ExpiredAttempts[t].run = attempts[t].run
           /\ attempts[t].run \in RunIds
           /\ ExpiredRuns[attempts[t].run].token = t
           /\ ExpiredRuns[attempts[t].run].state \in LostStates
<1>0. attempts[t] \in AttemptRows /\ runs \in [RunIds -> RunRows]
  BY RowTypes
<1>1. CASE attempts[t].state \in Leased /\ attempts[t].expiresAt <= clock
  <2> DEFINE r == attempts[t].run
  <2>1. r \in LeasedRuns(runs) /\ runs[r].token = t
    BY <1>1, EvidenceForm DEF OpenAttemptOf
  <2>2. attempts[t].expiresAt = runs[r].expiresAt
    BY <2>1, EvidenceForm DEF EvidenceOf
  <2>3. r \in RunIds /\ runs[r].state \in Leased /\ runs[r].expiresAt <= clock
    BY <1>1, <2>1, <2>2 DEF LeasedRuns
  <2>4. ExpiredRuns[r] = [runs[r] EXCEPT !.state = "unknown", !.finishedAt = clock]
    BY <2>3 DEF ExpiredRuns
  <2>5. ExpiredRuns[r].state = "unknown" /\ ExpiredRuns[r].token = t
    BY <1>0, <2>1, <2>3, <2>4 DEF RunRows
  <2>6. ExpiredAttempts[t].run = r
    BY <1>0, <1>1 DEF ExpiredAttempts, AttemptRows
  <2> QED
    BY <2>3, <2>5, <2>6 DEF LostStates
<1>2. CASE ~ (attempts[t].state \in Leased /\ attempts[t].expiresAt <= clock)
  <2> DEFINE r == attempts[t].run
  <2>1. ExpiredAttempts[t] = attempts[t]
    BY <1>2 DEF ExpiredAttempts
  <2>2. r \in RunIds /\ runs[r].token = t /\ runs[r].state \in LostStates
    BY <2>1, LostForm DEF LostOf
  <2>3. ExpiredRuns[r] = runs[r]
    BY <2>2 DEF ExpiredRuns, LostStates, Leased
  <2> QED
    BY <2>1, <2>2, <2>3
<1> QED
  BY <1>1, <1>2

LEMMA FinishLost ==
    ASSUME TypeOK, LeaseEvidence, LostIsNamed,
           NEW t \in Tokens, NEW outcome \in Outcomes, Finish(t, outcome),
           NEW u \in Tokens, attempts'[u].state = "unknown"
    PROVE  LostOf(u)'
<1> DEFINE r == claims[t].run
           state == RecordedOutcome(runs[r], outcome)
<1>1. /\ r \in RunIds /\ runs[r].token = t /\ runs[r].state \in Leased
      /\ runs'[r].state = state
      /\ \A x \in RunIds \ {r} : runs'[x] = runs[x]
  BY FinishedRow
<1>2. attempts \in [Tokens -> AttemptRows] /\ runs \in [RunIds -> RunRows]
  BY RowTypes
<1>3. attempts' = [attempts EXCEPT ![t].state = state, ![t].finishedAt = clock]
  BY DEF Finish
<1>4. attempts[t].run = r
  BY <1>1, EvidenceForm DEF LeasedRuns, EvidenceOf
<1>5. ASSUME state # "retry_wait" PROVE runs'[r].token = t
  <2>1. runs' = [runs EXCEPT ![r] = [runs[r] EXCEPT !.state = state, !.finishedAt = clock]]
    BY <1>5 DEF Finish
  <2> HIDE DEF r, state
  <2> QED
    BY <1>1, <1>2, <2>1 DEF RunRows
<1> HIDE DEF r, state
<1>6. CASE u = t
  <2>1. attempts'[t].state = state /\ attempts'[t].run = r
    BY <1>2, <1>3, <1>4 DEF AttemptRows
  <2> QED
    BY <1>1, <1>5, <1>6, <2>1 DEF LostOf, LostStates
<1>7. CASE u # t
  <2>1. attempts'[u] = attempts[u]
    BY <1>2, <1>3, <1>7
  <2>2. /\ attempts[u].run \in RunIds /\ runs[attempts[u].run].token = u
        /\ runs[attempts[u].run].state \in LostStates
    BY <2>1, LostForm DEF LostOf
  <2>3. runs'[attempts[u].run] = runs[attempts[u].run]
    BY <1>1, <1>7, <2>2
  <2> QED
    BY <2>1, <2>2, <2>3 DEF LostOf
<1> QED
  BY <1>6, <1>7

LEMMA LostStep ==
    ASSUME TypeOK, Fresh, LeaseEvidence, LostIsNamed, [Next]_vars
    PROVE  LostIsNamed'
<1> SUFFICES ASSUME NEW t \in Tokens, attempts'[t].state = "unknown" PROVE LostOf(t)'
  BY DEF LostIsNamed, LostOf, LostStates
<1> DEFINE r == attempts[t].run
<1>0. attempts \in [Tokens -> AttemptRows] /\ runs \in [RunIds -> RunRows]
  BY RowTypes
<1>1. ASSUME attempts[t].state = "unknown"
      PROVE  r \in RunIds /\ runs[r].token = t /\ runs[r].state \in LostStates
  BY <1>1, LostForm DEF LostOf
<1>2. ASSUME attempts'[t] = attempts[t], runs'[r].token = t, runs'[r].state \in LostStates
      PROVE  LostOf(t)'
  BY <1>1, <1>2 DEF LostOf
<1>3. ASSUME attempts'[t] = attempts[t], runs'[r] = runs[r] PROVE LostOf(t)'
  BY <1>1, <1>2, <1>3
<1>4. ASSUME NEW in \in Submissions \cup Imports, Submitting(in) PROVE LostOf(t)'
  <2>1. /\ attempts' = attempts /\ ~ Present(lastRun + 1)
        /\ \A x \in RunIds \ {lastRun + 1} : runs'[x] = runs[x]
    BY <1>4, SubmittedRow DEF Submitting
  <2>2. r # lastRun + 1
    BY <1>1, <2>1 DEF Present, LostStates
  <2> QED
    BY <1>1, <1>3, <2>1, <2>2
<1>5. ASSUME NEW in \in Submissions, Submit(in) PROVE LostOf(t)'
  BY <1>4, <1>5 DEF Submitting
<1>6. ASSUME NEW in \in Imports, ImportUnknown(in) PROVE LostOf(t)'
  BY <1>4, <1>6 DEF Submitting
<1>7. ASSUME NEW hs \in HandlerSets, ClaimEmpty(hs) PROVE LostOf(t)'
  <2>1. runs' = ExpiredRuns /\ attempts' = ExpiredAttempts
    BY <1>7 DEF ClaimEmpty
  <2> QED
    BY <2>1, ExpiredLost DEF LostOf
<1>8. ASSUME NEW w \in Workers, NEW hs \in HandlerSets, NEW x \in RunIds, ClaimRun(w, hs, x)
      PROVE  LostOf(t)'
  <2>1. /\ runs[x].state \in Pending /\ ExpiredRuns[x] = runs[x]
        /\ \A y \in RunIds \ {x} : runs'[y] = ExpiredRuns[y]
    BY <1>8, ClaimedRow
  <2>2. t # lastToken + 1 /\ attempts'[t] = ExpiredAttempts[t]
    <3>1. ExpiredAttempts \in [Tokens -> AttemptRows]
      BY ExpiredTypes
    <3>2. \E v : v.state = "running" /\ attempts' = [ExpiredAttempts EXCEPT ![lastToken + 1] = v]
      BY <1>8 DEF ClaimRun
    <3> QED
      BY <3>1, <3>2
  <2>3. /\ ExpiredAttempts[t].run = r /\ r \in RunIds /\ ExpiredRuns[r].token = t
        /\ ExpiredRuns[r].state \in LostStates
    BY <2>2, ExpiredLost
  <2>4. r # x
    BY <2>1, <2>3 DEF Pending, LostStates
  <2> QED
    BY <2>1, <2>2, <2>3, <2>4 DEF LostOf
<1>9. ASSUME NEW u \in Tokens, NEW outcome \in Outcomes, Finish(u, outcome) PROVE LostOf(t)'
  BY <1>9, FinishLost
<1>10. ASSUME NEW rs \in SUBSET RunIds, CancelRuns(rs),
              \A x \in rs : runs[x].state \in Pending \cup Leased
       PROVE  LostOf(t)'
  <2>1. \/ attempts'[t] = attempts[t]
        \/ attempts'[t] = [attempts[t] EXCEPT !.state = "cancel_requested"]
    BY <1>10 DEF CancelRuns
  <2>2. attempts'[t] = attempts[t]
    BY <1>0, <2>1 DEF AttemptRows
  <2>3. r \in RunIds /\ r \notin rs
    BY <1>1, <1>10, <2>2 DEF LostStates, Pending, Leased
  <2>4. runs'[r] = runs[r]
    BY <1>10, <2>3, CanceledRow
  <2> QED
    BY <1>3, <2>2, <2>4
<1>11. ASSUME NEW x \in RunIds, RecordCancellation(x) PROVE LostOf(t)'
  BY <1>10, <1>11 DEF RecordCancellation, Leased
<1>12. ASSUME NEW h \in Handlers, CancelHandler(h) PROVE LostOf(t)'
  BY <1>10, <1>12 DEF CancelHandler
<1>13. ASSUME NEW x \in RunIds, NEW state \in {"succeeded", "failed"}, Resolve(x, state)
       PROVE  LostOf(t)'
  <2>1. attempts' = attempts
    BY <1>13 DEF Resolve
  <2>2. /\ runs' = [runs EXCEPT ![x].state = state, ![x].finishedAt = clock]
    BY <1>13 DEF Resolve
  <2>3. r \in RunIds /\ runs[r].token = t /\ runs[r].state \in LostStates
    BY <1>1, <2>1
  <2>4. runs'[r].token = t /\ runs'[r].state \in LostStates
    BY <1>0, <2>2, <2>3 DEF RunRows, LostStates
  <2> QED
    BY <1>2, <2>1, <2>4
<1>14. ASSUME NEW d \in Definitions, Schedule(d) PROVE LostOf(t)'
  <2>1. ASSUME attempts'[t] = attempts[t], runs'[r] = ReconciledRuns(d)[r] PROVE LostOf(t)'
    <3>1. r \in RunIds /\ runs[r].token = t /\ runs[r].state \in LostStates
      BY <1>1, <2>1
    <3>2. /\ runs'[r].token = runs[r].token
          /\ runs'[r] = runs[r] \/ runs'[r].state = "interrupted"
      BY <2>1, <3>1, ReconciledCarried
    <3> QED
      BY <1>2, <2>1, <3>1, <3>2 DEF LostStates
  <2>2. ASSUME attempts' = attempts,
               \/ Refreshed(d)
               \/ \E x \in RunIds : Dispatched(d, x) /\ (Rebound(d, x) \/ ~ Present(x))
        PROVE  LostOf(t)'
    <3>1. r \in RunIds /\ Present(r)
      BY <1>1, <2>2 DEF LostStates, Present
    <3>2. runs'[r] = ReconciledRuns(d)[r]
      BY <2>2, <3>1 DEF Refreshed, Dispatched, Rebound
    <3> QED
      BY <2>1, <2>2, <3>2
  <2>4. CASE ScheduleReuse(d)
    <3>1. AdoptedRow(d).compactRun \in RunIds
      BY <2>4, ScheduleTypes, BoundsAssumption DEF ScheduleReuse, Reusable, ScheduleRows, RunIds
    <3> DEFINE x == AdoptedRow(d).compactRun
    <3>2. /\ Reusable(d, x)
          /\ attempts' = [attempts EXCEPT ![runs[x].token] = NoAttempt]
          /\ \A y \in RunIds \ {x} : runs'[y] = ReconciledRuns(d)[y]
      BY <2>4, ScheduleTypes DEF ScheduleReuse
    <3>3. runs[x].token # t /\ attempts'[t] = attempts[t]
      BY <1>0, <3>2 DEF NoAttempt
    <3>4. r \in RunIds /\ r # x
      BY <1>1, <3>3
    <3>5. runs'[r] = ReconciledRuns(d)[r]
      BY <3>2, <3>4
    <3> QED
      BY <2>1, <3>3, <3>5
  <2>5. CASE ~ ScheduleReuse(d)
    <3>1. attempts' = attempts
      BY <1>14, <2>5, ScheduleEffect
    <3>2. ASSUME NEW x \in RunIds, Dispatched(d, x) PROVE Rebound(d, x) \/ ~ Present(x)
      BY <2>5, <3>2 DEF Dispatched, Queued
    <3> QED
      BY <1>14, <2>2, <3>1, <3>2, ScheduleEffect
  <2> QED
    BY <2>4, <2>5
<1>15. ASSUME NEW state \in PrunableStates, Prune(state) PROVE LostOf(t)'
  <2>1. PICK ids \in SUBSET PeriodicCandidates(state) :
        \E ts \in SUBSET AttemptsOf(ids) :
           /\ attempts' = [u \in Tokens |-> IF u \in ts THEN NoAttempt ELSE attempts[u]]
           /\ runs' = [x \in RunIds |->
                         IF /\ x \in ids
                            /\ \A u \in AttemptsOf(ids) \ ts : attempts[u].run # x
                         THEN NoRun ELSE runs[x]]
    BY <1>15 DEF Prune
  <2>2. PICK ts \in SUBSET AttemptsOf(ids) :
           /\ attempts' = [u \in Tokens |-> IF u \in ts THEN NoAttempt ELSE attempts[u]]
           /\ runs' = [x \in RunIds |->
                         IF /\ x \in ids
                            /\ \A u \in AttemptsOf(ids) \ ts : attempts[u].run # x
                         THEN NoRun ELSE runs[x]]
    BY <2>1
  <2>3. t \notin ts /\ attempts'[t] = attempts[t]
    BY <2>2 DEF NoAttempt
  <2>4. r \in RunIds
    BY <1>1, <2>3
  <2>5. r \in ids => t \in AttemptsOf(ids) \ ts
    BY <2>3 DEF AttemptsOf
  <2>6. runs'[r] = runs[r]
    BY <2>2, <2>4, <2>5
  <2> QED
    BY <1>3, <2>3, <2>6
<1>16. ASSUME Tick \/ UNCHANGED vars PROVE LostOf(t)'
  BY <1>3, <1>16 DEF Tick, vars
<1> QED
  BY <1>5, <1>6, <1>7, <1>8, <1>9, <1>11, <1>12, <1>13, <1>14, <1>15, <1>16 DEF Next

LEMMA LostInvStep == EvidenceInv /\ LostInv /\ [Next]_vars => LostInv'
BY IntentsStep, LatestStep, LostStep DEF LostInv, EvidenceInv

LEMMA LostInit == Init => LostInv
<1> SUFFICES ASSUME Init PROVE LostInv
  OBVIOUS
<1>1. /\ \A r \in RunIds : runs[r] = NoRun
      /\ \A t \in Tokens : attempts[t] = NoAttempt
  BY DEF Init
<1>2. NoRun.state = "absent" /\ NoAttempt.state = "absent"
  BY DEF NoRun, NoAttempt
<1>3. \A r \in RunIds : ~ Present(r)
  BY <1>1, <1>2 DEF Present
<1> QED
  BY <1>1, <1>2, <1>3 DEF LostInv, IntentsUnique, LeaseIsLatest, LostIsNamed

LEMMA LostImplies == LostInv => LostAttemptIsLast
<1> SUFFICES ASSUME LostInv, NEW t \in Tokens, NEW u \in Tokens,
                    attempts[t].state = "unknown", u > t
             PROVE  ~ (claims[u].owner = claims[t].owner /\ claims[u].key = claims[t].key)
  BY DEF LostAttemptIsLast
<1> DEFINE r == attempts[t].run
<1>1. r \in RunIds /\ runs[r].token = t /\ Present(r)
  BY DEF LostInv, LostIsNamed, Present
<1>2. t # 0
  BY BoundsAssumption DEF Tokens
<1> HIDE DEF r
<1> QED
  BY <1>1, <1>2 DEF LostInv, LeaseIsLatest

LEMMA LostInvariant == Spec => []LostInv
BY LostInit, LostInvStep, EvidenceInvariant, PTL DEF Spec

(* An attempt whose outcome was lost is never replayed (history.go:48,     *)
(* compact.go:9-11, schedules.go:107): no later lease is granted for the   *)
(* same owner and key, whether the run is resolved by an operator,         *)
(* interrupted by its reconciler, considered for reuse or for retention.   *)
THEOREM LostIsNeverReplayed == Spec => []LostAttemptIsLast
BY LostInvariant, LostImplies, PTL

-----------------------------------------------------------------------------
(* The backlog                                                             *)

OpenRuns == {r \in RunIds : runs[r].state \in Pending \cup Leased}

OpenMaintenance == {r \in OpenRuns : runs[r].job.resource = MaintenanceResource}

LEMMA BacklogForm ==
    BacklogBounded <=> /\ Cardinality(OpenRuns \ OpenMaintenance) <= MaxPending + Capacity
                       /\ Cardinality(OpenMaintenance) <= 2
BY DEF BacklogBounded, OpenRuns, OpenMaintenance

(* Open runs were open before, as runs of the same job.                    *)
StaysOpen(x) == x \in OpenRuns' => x \in OpenRuns /\ runs'[x].job = runs[x].job

LEMMA CarriedOpen == ASSUME NEW x \in RunIds, Carried(x) PROVE StaysOpen(x)
BY DEF Carried, StaysOpen, OpenRuns

LEMMA BacklogShrinks ==
    ASSUME BacklogBounded, \A x \in RunIds : StaysOpen(x)
    PROVE  BacklogBounded'
<1>1. /\ OpenRuns \ OpenMaintenance \in SUBSET RunIds /\ OpenMaintenance \in SUBSET RunIds
      /\ MaxPending + Capacity \in Nat /\ 2 \in Nat
  BY BoundsAssumption DEF OpenRuns, OpenMaintenance
<1>2. /\ (OpenRuns \ OpenMaintenance)' \in SUBSET (OpenRuns \ OpenMaintenance)
      /\ OpenMaintenance' \in SUBSET OpenMaintenance
  BY DEF StaysOpen, OpenRuns, OpenMaintenance
<1>3. /\ Cardinality((OpenRuns \ OpenMaintenance)') <= MaxPending + Capacity
      /\ Cardinality(OpenMaintenance') <= 2
  BY <1>1, <1>2, BacklogForm, NeverGrows
<1> QED
  BY <1>3 DEF BacklogBounded, OpenRuns, OpenMaintenance

(* One run more, admitted on the rows to which it is added.                *)
LEMMA BacklogAdmits ==
    ASSUME CapacityRespected, MaintenanceExclusive, BacklogBounded,
           NEW owner, NEW n \in RunIds,
           checkPendingAdmission(owner, runs'[n].job.resource),
           \A x \in RunIds \ {n} : StaysOpen(x)
    PROVE  BacklogBounded'
<1> DEFINE L == LeasedRuns(runs)
<1>0. /\ MaxPending \in Nat /\ Capacity \in Nat
      /\ MaxPending + Capacity \in Nat /\ 2 \in Nat
  BY BoundsAssumption
<1>1. /\ OpenRuns \in SUBSET RunIds /\ OpenRuns \ OpenMaintenance \in SUBSET RunIds
      /\ OpenMaintenance \in SUBSET RunIds /\ L \in SUBSET RunIds
      /\ PendingRuns \in SUBSET RunIds /\ OpenRuns = PendingRuns \cup L
      /\ OpenRuns' \in SUBSET RunIds /\ OpenMaintenance' \in SUBSET RunIds
      /\ (OpenRuns \ OpenMaintenance)' \in SUBSET RunIds
  BY DEF OpenRuns, OpenMaintenance, PendingRuns, LeasedRuns
<1>2. CASE runs'[n].job.resource = MaintenanceResource
  <2>1. \A r \in PendingRuns : runs[r].job.resource # MaintenanceResource
    BY <1>2 DEF checkPendingAdmission
  <2>2. (OpenRuns \ OpenMaintenance)' \in SUBSET (OpenRuns \ OpenMaintenance)
    BY <1>2 DEF StaysOpen, OpenRuns, OpenMaintenance
  <2>3. Cardinality((OpenRuns \ OpenMaintenance)') <= MaxPending + Capacity
    BY <1>0, <1>1, <2>2, BacklogForm, NeverGrows
  <2> DEFINE M == OpenMaintenance \cap L
  <2>4. OpenMaintenance' \subseteq M \cup {n}
    BY <1>1, <2>1 DEF StaysOpen, OpenRuns, OpenMaintenance
  <2>5. Cardinality(M) < 2
    <3>1. CASE M = {}
      BY <3>1, FS_EmptySet
    <3>2. CASE M # {}
      <4>1. PICK y : y \in M
        BY <3>2
      <4>2. M = {y}
        BY <4>1 DEF MaintenanceExclusive, OpenMaintenance
      <4>3. Cardinality({y}) = 1
        BY FS_Singleton
      <4> QED
        BY <4>2, <4>3
    <3> QED
      BY <3>1, <3>2
  <2>6. M \in SUBSET RunIds
    BY <1>1
  <2> HIDE DEF M, L
  <2>7. Cardinality(OpenMaintenance') <= 2
    BY <1>0, <1>1, <2>4, <2>5, <2>6, GrowsByOne
  <2> QED
    BY <2>3, <2>7 DEF BacklogBounded, OpenRuns, OpenMaintenance
<1>3. CASE runs'[n].job.resource # MaintenanceResource
  <2>1. Cardinality(PendingRuns) < MaxPending /\ Cardinality(L) <= Capacity
    BY <1>3 DEF checkPendingAdmission, CapacityRespected
  <2> HIDE DEF L
  <2>2. Cardinality(OpenRuns) < MaxPending + Capacity
    <3>1. /\ IsFiniteSet(PendingRuns) /\ IsFiniteSet(L)
          /\ Cardinality(PendingRuns) \in Nat /\ Cardinality(L) \in Nat
          /\ Cardinality(PendingRuns \cap L) \in Nat
      BY <1>1, FiniteRuns
    <3>2. Cardinality(OpenRuns) = Cardinality(PendingRuns) + Cardinality(L)
                                     - Cardinality(PendingRuns \cap L)
      BY <1>1, <3>1, FS_Union
    <3> QED
      BY <1>0, <2>1, <3>1, <3>2
  <2>3. (OpenRuns \ OpenMaintenance)' \subseteq OpenRuns \cup {n}
    BY DEF StaysOpen, OpenRuns, OpenMaintenance
  <2>4. Cardinality((OpenRuns \ OpenMaintenance)') <= MaxPending + Capacity
    BY <1>0, <1>1, <2>2, <2>3, GrowsByOne
  <2>5. OpenMaintenance' \in SUBSET OpenMaintenance
    BY <1>3 DEF StaysOpen, OpenRuns, OpenMaintenance
  <2>6. Cardinality(OpenMaintenance') <= 2
    BY <1>0, <1>1, <2>5, BacklogForm, NeverGrows
  <2> QED
    BY <2>4, <2>6 DEF BacklogBounded, OpenRuns, OpenMaintenance
<1> QED
  BY <1>2, <1>3

LEMMA BacklogStep ==
    TypeOK /\ Fresh /\ CapacityRespected /\ MaintenanceExclusive /\ BacklogBounded /\ [Next]_vars
       => BacklogBounded'
<1> SUFFICES ASSUME TypeOK, Fresh, CapacityRespected, MaintenanceExclusive, BacklogBounded,
                    [Next]_vars
             PROVE  BacklogBounded'
  OBVIOUS
<1>1. ASSUME Quiet PROVE BacklogBounded'
  BY <1>1, CarriedOpen, BacklogShrinks DEF Quiet
<1>2. ASSUME NEW in \in Submissions \cup Imports, Submitting(in) PROVE BacklogBounded'
  <2> DEFINE n == lastRun + 1
  <2>1. /\ n \in RunIds /\ Insertable(in) /\ runs'[n].job = in
        /\ \A x \in RunIds \ {n} : runs'[x] = runs[x]
    BY <1>2, SubmittedRow DEF Submitting
  <2>2. checkPendingAdmission(in.owner, runs'[n].job.resource)
    BY <2>1 DEF Insertable
  <2> HIDE DEF n
  <2>3. \A x \in RunIds \ {n} : StaysOpen(x)
    BY <2>1 DEF StaysOpen, OpenRuns
  <2> QED
    BY <2>1, <2>2, <2>3, BacklogAdmits
<1>3. ASSUME NEW state \in PrunableStates, Prune(state) PROVE BacklogBounded'
  <2>1. NoRun.state \notin Pending \cup Leased
    BY DEF NoRun, Pending, Leased
  <2>2. \A x \in RunIds : StaysOpen(x)
    BY <1>3, <2>1, PrunedRow DEF StaysOpen, OpenRuns
  <2> QED
    BY <2>2, BacklogShrinks
<1>4. ASSUME NEW d \in Definitions, Schedule(d) PROVE BacklogBounded'
  <2>1. ASSUME NEW x \in RunIds, runs'[x] = ReconciledRuns(d)[x] PROVE StaysOpen(x)
    BY <2>1, ReconciledCarried, CarriedOpen
  <2>2. ASSUME \A x \in RunIds : runs'[x] = ReconciledRuns(d)[x] PROVE BacklogBounded'
    BY <2>1, <2>2, BacklogShrinks
  <2>3. ASSUME NEW r \in RunIds, Queued(d, r), Dispatched(d, r) PROVE BacklogBounded'
    <3>1. /\ checkPendingAdmission(ScheduledJob(d).owner, ScheduledJob(d).resource)
          /\ runs'[r].job = ScheduledJob(d)
      BY <2>3, QueuedRunFields DEF Queued
    <3>2. \A x \in RunIds \ {r} : StaysOpen(x)
      BY <2>1, <2>3 DEF Dispatched
    <3> QED
      BY <3>1, <3>2, BacklogAdmits
  <2> QED
    BY <1>4, <2>2, <2>3, ScheduleEffect DEF Refreshed, Dispatched, Rebound
<1> QED
  BY <1>1, <1>2, <1>3, <1>4, StepKinds

LEMMA BacklogInit == Init => BacklogBounded
<1> SUFFICES ASSUME Init PROVE BacklogBounded
  OBVIOUS
<1>1. OpenRuns = {} /\ OpenMaintenance = {} /\ OpenRuns \ OpenMaintenance = {}
  BY DEF Init, NoRun, OpenRuns, OpenMaintenance, Pending, Leased
<1>2. Cardinality({}) = 0 /\ 0 <= MaxPending + Capacity /\ 0 <= 2
  BY FS_EmptySet, BoundsAssumption
<1> QED
  BY <1>1, <1>2, BacklogForm

(* Admission bounds the work that piles up (admission.go:29, :21,          *)
(* store.go:402) although it looks only at the queue: retries that come    *)
(* back unchecked were leased, and leases are within the budget.           *)
THEOREM BacklogStaysBounded == Spec => []BacklogBounded
<1>1. EvidenceInv => TypeOK /\ Fresh
  BY DEF EvidenceInv
<1> QED
  BY <1>1, BacklogInit, BacklogStep, CapacityKept, MaintenanceAlone, EvidenceInvariant, PTL
     DEF Spec

-----------------------------------------------------------------------------
(* The life of a run, and of its evidence                                  *)

MayBecome(r) ==
    LET from == runs[r].state
        to == runs'[r].state
    IN  \/ from = to
        \/ from = "absent" /\ to \in {"queued", "unknown"}
        \/ from \in Pending /\ to \in {"running", "canceled"}
        \/ from = "running" /\ to \notin {"queued", "canceled", "interrupted", "absent"}
        \/ from = "cancel_requested" /\ to \in {"succeeded", "canceled", "unknown"}
        \/ from = "unknown" /\ to \in {"succeeded", "failed", "interrupted"}
        \/ /\ from \in {"succeeded", "yielded"} /\ to = "queued"
           /\ runs'[r].plannedAt > runs[r].plannedAt
        \/ from \in PrunableStates /\ to = "absent"

(* A row is reused for a later slot than the one it stood for.             *)
LEMMA ReuseMovesOn ==
    ASSUME TypeOK, FlightInv, NEW d \in Definitions, Reconcilable(d), NEW r \in RunIds,
           Dispatched(d, r), Queued(d, r), Reusable(d, r), r = AdoptedRow(d).compactRun
    PROVE  /\ runs[r].state \in {"succeeded", "yielded"}
           /\ runs'[r].plannedAt > runs[r].plannedAt
<1> DEFINE row == AdoptedRow(d)
           s == d.id
<1>0. s \in ScheduleIds /\ r # 0
  BY DefinitionType, BoundsAssumption DEF RunIds
<1>1. runs[r].state \in {"succeeded", "yielded"}
  <2>1. ReconciledRuns(d)[r].state \in {"succeeded", "yielded"}
    BY DEF Reusable
  <2>2. runs[r] \in RunRows
    BY RowTypes
  <2>3. [runs[r] EXCEPT !.state = "interrupted"].state = "interrupted"
    BY <2>2 DEF RunRows
  <2> QED
    BY <2>1, <2>3, ReconciledRow
<1>2. /\ r = schedules[s].compactRun
      /\ row.nextAt = schedules[s].nextAt \/ row.nextAt = clock + YieldDelay
  <2>1. /\ r = ScheduleRow(d).compactRun
        /\ row.nextAt = ScheduleRow(d).nextAt \/ row.nextAt = clock + YieldDelay
    BY <1>0, AdoptedRowFields
  <2>2. ScheduleRow(d) = schedules[s]
    BY <1>0, <2>1, ScheduleRowFields
  <2> QED
    BY <2>1, <2>2
<1>3. runs[r].plannedAt <= clock /\ runs[r].plannedAt < schedules[s].nextAt
  BY <1>0, <1>2 DEF FlightInv, SlotsAdvance
<1>4. /\ row \in ScheduleRows /\ row.nextAt \in Int /\ clock \in Int
      /\ YieldDelay \in Int /\ YieldDelay > 0 /\ runs[r].plannedAt \in Int
      /\ schedules[s].nextAt \in Int /\ row.nextAt <= clock
  BY <1>0, ScheduleTypes, ClockType, RowTypes, BoundsAssumption
     DEF ScheduleRows, RunRows, Dispatched
<1>5. PlannedSlot(row) \in Int /\ row.nextAt <= PlannedSlot(row)
  BY <1>4, SlotArithmetic
<1>6. runs'[r].plannedAt = PlannedSlot(row)
  BY QueuedRunFields
<1> HIDE DEF row
<1>7. runs[r].plannedAt < row.nextAt
  BY <1>2, <1>3, <1>4
<1> QED
  BY <1>1, <1>4, <1>5, <1>6, <1>7

LEMMA LifeStep ==
    ASSUME TypeOK, Fresh, FlightInv, [Next]_vars, NEW x \in RunIds
    PROVE  MayBecome(x)
<1>0. runs \in [RunIds -> RunRows]
  BY RowTypes
<1>1. ASSUME runs'[x] = runs[x] PROVE MayBecome(x)
  BY <1>1 DEF MayBecome
<1>2. ASSUME NEW in \in Submissions \cup Imports, Submitting(in) PROVE MayBecome(x)
  <2>1. \/ runs'[x] = runs[x]
        \/ ~ Present(x) /\ runs'[x].state \in {"queued", "unknown"}
    BY <1>2, SubmittedRow DEF Submitting
  <2> QED
    BY <1>1, <2>1 DEF MayBecome, Present
<1>3. ASSUME NEW in \in Submissions, Submit(in) PROVE MayBecome(x)
  BY <1>2, <1>3 DEF Submitting
<1>4. ASSUME NEW in \in Imports, ImportUnknown(in) PROVE MayBecome(x)
  BY <1>2, <1>4 DEF Submitting
<1>5. ASSUME runs'[x] = ExpiredRuns[x] PROVE MayBecome(x)
  BY <1>5, ExpiredCarried DEF MayBecome, Leased
<1>6. ASSUME NEW hs \in HandlerSets, ClaimEmpty(hs) PROVE MayBecome(x)
  BY <1>5, <1>6 DEF ClaimEmpty
<1>7. ASSUME NEW w \in Workers, NEW hs \in HandlerSets, NEW r \in RunIds, ClaimRun(w, hs, r)
      PROVE  MayBecome(x)
  <2>1. /\ runs[r].state \in Pending /\ runs'[r].state = "running"
        /\ \A y \in RunIds \ {r} : runs'[y] = ExpiredRuns[y]
    BY <1>7, ClaimedRow
  <2> QED
    BY <1>5, <2>1 DEF MayBecome
<1>8. ASSUME NEW t \in Tokens, NEW outcome \in Outcomes, Finish(t, outcome) PROVE MayBecome(x)
  <2> DEFINE r == claims[t].run
             state == RecordedOutcome(runs[r], outcome)
  <2>1. /\ r \in RunIds /\ runs[r].state \in Leased /\ runs'[r].state = state
        /\ \A y \in RunIds \ {r} : runs'[y] = runs[y]
    BY <1>8, FinishedRow
  <2>2. /\ runs[r].state = "cancel_requested" => state \in {"succeeded", "canceled", "unknown"}
        /\ runs[r].state = "running" =>
              state \notin {"queued", "canceled", "interrupted", "absent"}
    BY DEF RecordedOutcome, Outcomes
  <2> HIDE DEF state, r
  <2>3. MayBecome(r)
    BY <2>1, <2>2 DEF MayBecome, Leased
  <2> QED
    BY <1>1, <2>1, <2>3
<1>9. ASSUME NEW rs \in SUBSET RunIds, CancelRuns(rs),
             \A r \in rs : runs[r].state \in Pending \cup Leased
      PROVE  MayBecome(x)
  <2>1. /\ x \notin rs => runs'[x] = runs[x]
        /\ x \in rs /\ runs[x].state \in Leased => runs'[x].state = "cancel_requested"
        /\ x \in rs /\ runs[x].state \notin Leased => runs'[x].state = "canceled"
    BY <1>9, CanceledRow
  <2> QED
    BY <1>1, <1>9, <2>1 DEF MayBecome, Leased
<1>10. ASSUME NEW r \in RunIds, RecordCancellation(r) PROVE MayBecome(x)
  BY <1>9, <1>10 DEF RecordCancellation, Leased
<1>11. ASSUME NEW h \in Handlers, CancelHandler(h) PROVE MayBecome(x)
  BY <1>9, <1>11 DEF CancelHandler
<1>12. ASSUME NEW r \in RunIds, NEW state \in {"succeeded", "failed"}, Resolve(r, state)
       PROVE  MayBecome(x)
  <2>1. /\ runs[r].state = "unknown" /\ runs'[r].state = state
        /\ \A y \in RunIds \ {r} : runs'[y] = runs[y]
    BY <1>0, <1>12 DEF Resolve, RunRows
  <2> QED
    BY <1>1, <2>1 DEF MayBecome
<1>13. ASSUME NEW d \in Definitions, Schedule(d) PROVE MayBecome(x)
  <2>0. Reconcilable(d)
    BY <1>13, ScheduleEffect
  <2>1. CASE runs'[x] = ReconciledRuns(d)[x]
    BY <1>1, <2>1, ReconciledCarried DEF MayBecome
  <2>2. ASSUME Dispatched(d, x), Queued(d, x) PROVE MayBecome(x)
    <3>1. runs'[x].state = "queued"
      BY <2>2, QueuedRunFields
    <3>2. CASE ~ Present(x)
      BY <3>1, <3>2 DEF MayBecome, Present
    <3>3. CASE Reusable(d, x) /\ x = AdoptedRow(d).compactRun
      <4>1. /\ runs[x].state \in {"succeeded", "yielded"}
            /\ runs'[x].plannedAt > runs[x].plannedAt
        BY <2>0, <2>2, <3>3, ReuseMovesOn
      <4> QED
        BY <3>1, <4>1 DEF MayBecome
    <3> QED
      BY <2>2, <3>2, <3>3 DEF Queued
  <2> QED
    BY <1>13, <2>1, <2>2, ScheduleEffect DEF Refreshed, Dispatched, Rebound
<1>14. ASSUME NEW state \in PrunableStates, Prune(state) PROVE MayBecome(x)
  <2>1. NoRun.state = "absent"
    BY DEF NoRun
  <2> QED
    BY <1>1, <1>14, <2>1, PrunedRow DEF MayBecome
<1>15. ASSUME Tick \/ UNCHANGED vars PROVE MayBecome(x)
  BY <1>1, <1>15 DEF Tick, vars
<1> QED
  BY <1>3, <1>4, <1>6, <1>7, <1>8, <1>10, <1>11, <1>12, <1>13, <1>14, <1>15 DEF Next

(* What may become of a run, in every step of every ledger: an uncertain   *)
(* run leaves that state only by a verdict or its reconciler, a run asked  *)
(* to stop never goes back to the queue, and a finished row is revived     *)
(* only for a later slot (store.go:385-402, history.go:48, compact.go:9).  *)
THEOREM RunsLiveOnce == Spec => RunLifecycle
<1> DEFINE Life == \A r \in RunIds : MayBecome(r)
<1>1. EvidenceInv /\ FlightInv /\ [Next]_vars => [Life]_vars
  BY LifeStep DEF EvidenceInv
<1>2. Spec => [][Life]_vars
  BY <1>1, EvidenceInvariant, FlightInvariant, PTL DEF Spec
<1> QED
  BY <1>2 DEF RunLifecycle, MayBecome

Deletion(t) ==
    /\ attempts[t].state # "absent"
    /\ attempts'[t].state = "absent"
    => LET r == attempts[t].run IN
       /\ runs[r].state \in PrunableStates
       /\ runs'[r].state = "queued" =>
             /\ attempts[t].state \in {"succeeded", "yielded"}
             /\ runs[r].attempts = 1

LEMMA DeletionStep ==
    ASSUME TypeOK, Fresh, [Next]_vars, NEW t \in Tokens
    PROVE  Deletion(t)
<1>0. attempts \in [Tokens -> AttemptRows] /\ runs \in [RunIds -> RunRows]
  BY RowTypes
<1>1. ASSUME attempts'[t] = attempts[t] PROVE Deletion(t)
  BY <1>1 DEF Deletion
<1>2. ASSUME attempts'[t].state # "absent" PROVE Deletion(t)
  BY <1>2 DEF Deletion
<1>3. ASSUME NEW hs \in HandlerSets, ClaimEmpty(hs) PROVE Deletion(t)
  <2>1. attempts' = ExpiredAttempts
    BY <1>3 DEF ClaimEmpty
  <2> QED
    BY <1>0, <1>1, <1>2, <2>1 DEF ExpiredAttempts, AttemptRows
<1>4. ASSUME NEW w \in Workers, NEW hs \in HandlerSets, NEW r \in RunIds, ClaimRun(w, hs, r)
      PROVE  Deletion(t)
  <2>1. ExpiredAttempts \in [Tokens -> AttemptRows]
    BY ExpiredTypes
  <2>2. \E v : v.state = "running" /\ attempts' = [ExpiredAttempts EXCEPT ![lastToken + 1] = v]
    BY <1>4 DEF ClaimRun
  <2>3. attempts'[t] = ExpiredAttempts[t] \/ attempts'[t].state = "running"
    BY <2>1, <2>2
  <2>4. ExpiredAttempts[t] = attempts[t] \/ ExpiredAttempts[t].state = "unknown"
    BY <1>0 DEF ExpiredAttempts, AttemptRows
  <2> QED
    BY <1>1, <1>2, <2>3, <2>4
<1>5. ASSUME NEW u \in Tokens, NEW outcome \in Outcomes, Finish(u, outcome) PROVE Deletion(t)
  <2> DEFINE r == claims[u].run
             state == RecordedOutcome(runs[r], outcome)
  <2>1. r \in RunIds /\ attempts' = [attempts EXCEPT ![u].state = state, ![u].finishedAt = clock]
    BY <1>5 DEF Finish, HoldsLease
  <2>2. state \in Outcomes
    BY <1>0, <2>1, RecordedOutcomeType
  <2>3. state # "absent"
    BY <2>2 DEF Outcomes
  <2> HIDE DEF state, r
  <2>4. attempts'[t] = attempts[t] \/ attempts'[t].state = state
    BY <1>0, <2>1 DEF AttemptRows
  <2> QED
    BY <1>1, <1>2, <2>3, <2>4
<1>6. ASSUME NEW rs, CancelRuns(rs) PROVE Deletion(t)
  <2>1. \/ attempts'[t] = attempts[t]
        \/ attempts'[t] = [attempts[t] EXCEPT !.state = "cancel_requested"]
    BY <1>6 DEF CancelRuns
  <2> QED
    BY <1>0, <1>1, <1>2, <2>1 DEF AttemptRows
<1>7. ASSUME NEW r \in RunIds, RecordCancellation(r) PROVE Deletion(t)
  BY <1>6, <1>7 DEF RecordCancellation
<1>8. ASSUME NEW h \in Handlers, CancelHandler(h) PROVE Deletion(t)
  BY <1>6, <1>8 DEF CancelHandler
<1>9. ASSUME NEW d \in Definitions, Schedule(d) PROVE Deletion(t)
  <2>1. CASE attempts' = attempts
    BY <1>1, <2>1
  <2>2. CASE ScheduleReuse(d)
    <3> DEFINE c == AdoptedRow(d).compactRun
               old == ReconciledRuns(d)[c]
    <3>1. /\ Reusable(d, c) /\ attempts' = [attempts EXCEPT ![runs[c].token] = NoAttempt]
      BY <2>2 DEF ScheduleReuse
    <3>2. c \in RunIds
      BY <3>1, ScheduleTypes, BoundsAssumption DEF Reusable, ScheduleRows, RunIds
    <3>3. /\ old.state \in {"succeeded", "yielded"} /\ old.attempts = 1
          /\ attempts[old.token].run = c /\ attempts[old.token].state = old.state
      BY <3>1 DEF Reusable
    <3>4. old = runs[c]
      <4>1. [runs[c] EXCEPT !.state = "interrupted"].state = "interrupted"
        BY <1>0, <3>2 DEF RunRows
      <4> QED
        BY <3>2, <3>3, <4>1, ReconciledRow
    <3> HIDE DEF c, old
    <3>5. CASE t # runs[c].token
      BY <1>0, <1>1, <3>1, <3>5
    <3>6. CASE t = runs[c].token
      BY <3>3, <3>4, <3>6 DEF Deletion, PrunableStates
    <3> QED
      BY <3>5, <3>6
  <2> QED
    BY <1>9, <2>1, <2>2, ScheduleEffect
<1>10. ASSUME NEW state \in PrunableStates, Prune(state) PROVE Deletion(t)
  <2>1. PICK ids \in SUBSET PeriodicCandidates(state) :
        \E ts \in SUBSET AttemptsOf(ids) :
           attempts' = [u \in Tokens |-> IF u \in ts THEN NoAttempt ELSE attempts[u]]
    BY <1>10 DEF Prune
  <2>2. PICK ts \in SUBSET AttemptsOf(ids) :
           attempts' = [u \in Tokens |-> IF u \in ts THEN NoAttempt ELSE attempts[u]]
    BY <2>1
  <2>3. CASE t \notin ts
    BY <1>1, <2>2, <2>3
  <2>4. CASE t \in ts
    <3> DEFINE r == attempts[t].run
    <3>1. r \in RunIds /\ runs[r].state = state
      BY <2>4 DEF AttemptsOf, PeriodicCandidates
    <3>2. runs'[r] = runs[r] \/ runs'[r] = NoRun
      BY <1>10, <3>1, PrunedRow
    <3>3. runs'[r].state # "queued"
      BY <3>1, <3>2 DEF NoRun, PrunableStates
    <3> QED
      BY <3>1, <3>3 DEF Deletion
  <2> QED
    BY <2>3, <2>4
<1>11. ASSUME \/ \E in \in Submissions : Submit(in)
              \/ \E in \in Imports : ImportUnknown(in)
              \/ \E r \in RunIds, state \in {"succeeded", "failed"} : Resolve(r, state)
              \/ Tick
              \/ UNCHANGED vars
       PROVE  Deletion(t)
  <2>1. attempts' = attempts
    BY <1>11 DEF Submit, ImportUnknown, Resolve, Tick, vars
  <2> QED
    BY <1>1, <2>1
<1> QED
  BY <1>3, <1>4, <1>5, <1>7, <1>8, <1>9, <1>10, <1>11 DEF Next

(* Evidence survives in every ledger (retention.go:14-15, compact.go:9-11):*)
(* attempts are deleted only for runs in a prunable state, and a row is    *)
(* reused only over a single attempt that itself succeeded.                *)
THEOREM EvidenceIsKept == Spec => EvidenceKept
<1> DEFINE Kept == \A t \in Tokens : Deletion(t)
<1>1. EvidenceInv /\ [Next]_vars => [Kept]_vars
  BY DeletionStep DEF EvidenceInv
<1>2. Spec => [][Kept]_vars
  BY <1>1, EvidenceInvariant, PTL DEF Spec
<1> QED
  BY <1>2 DEF EvidenceKept, Deletion

-----------------------------------------------------------------------------
(* Every attempt of an intent is started once                              *)

(* The rows of a schedule outlast its slots: they are not compacted, and   *)
(* retention keeps them until the next slot is due.  This is true of every *)
(* name that is not a schedule's.                                          *)
Retained(name) ==
    \A d \in Definitions : d.id = name => ~ d.plan.compact /\ d.plan.interval <= Retention

(* The definition of a schedule is never changed, so it never plans afresh.*)
Unchanging(name) ==
    \A d, e \in Definitions : d.id = name /\ e.id = name => d.plan = e.plan

Traceable(name) == Retained(name) \/ Unchanging(name)

PlansAdopted ==
    \A s \in ScheduleIds :
       schedules[s].exists => \E d \in Definitions : d.id = s /\ d.plan = schedules[s].plan

(* A periodic run is created when its slot is due, and finishes later.     *)
FinishedLater ==
    \A r \in RunIds : runs[r].schedule # Empty =>
       /\ runs[r].plannedAt <= clock
       /\ runs[r].finishedAt # Nil => runs[r].plannedAt <= runs[r].finishedAt

(* A schedule that plans once has all its rows behind it.                  *)
SlotsBehind ==
    \A r \in RunIds : runs[r].schedule # Empty /\ Unchanging(runs[r].schedule) =>
       /\ schedules[runs[r].schedule].exists
       /\ runs[r].plannedAt < schedules[runs[r].schedule].nextAt

(* The slot will not be planned again.                                     *)
Past(name, slot) ==
    \/ Retained(name) /\ slot < clock - Retention
    \/ /\ Unchanging(name) /\ schedules[name].exists
       /\ slot <= clock /\ slot < schedules[name].nextAt

(* The row of the intent that lease t was granted for has counted it, ...  *)
Home(t) ==
    LET r == claims[t].run IN
    /\ r \in RunIds /\ Present(r)
    /\ runs[r].job.owner = claims[t].owner /\ runs[r].job.key = claims[t].key
    /\ claims[t].number <= runs[r].attempts

(* ... or it was reused or pruned and nobody will create another.          *)
Gone(t) ==
    /\ claims[t].key.name \in ScheduleIds
    /\ Past(claims[t].key.name, claims[t].key.slot)
    /\ \A r \in RunIds : Present(r) =>
          ~ (runs[r].job.owner = claims[t].owner /\ runs[r].job.key = claims[t].key)

AccountedOf(t) ==
    t <= lastToken /\ Traceable(claims[t].key.name) => Home(t) \/ Gone(t)

Accounted == \A t \in Tokens : AccountedOf(t)

StartsDiffer ==
    \A t, u \in Tokens :
       /\ t <= lastToken /\ u <= lastToken /\ t # u
       /\ claims[t].owner = claims[u].owner /\ claims[t].key = claims[u].key
       /\ Traceable(claims[t].key.name)
       => claims[t].number # claims[u].number

HistoryInv == PlansAdopted /\ FinishedLater /\ SlotsBehind /\ Accounted /\ StartsDiffer

LEMMA AdoptedPlan ==
    ASSUME TypeOK, NEW d \in Definitions
    PROVE  /\ AdoptedRow(d).plan = d.plan
           /\ ScheduleRow(d).plan = d.plan =>
                 AdoptedRow(d).nextAt \in {ScheduleRow(d).nextAt, clock + YieldDelay}
<1> DEFINE old == ScheduleRow(d)
           mid == DetachedRow(d)
           state == ReconciledRuns(d)[old.run].state
           next == IF state = "yielded" /\ old.nextAt > clock + YieldDelay
                   THEN clock + YieldDelay ELSE old.nextAt
<1>1. old \in ScheduleRows
  BY ScheduleTypes
<1>2. DOMAIN old = {"exists", "plan", "nextAt", "run", "compactRun", "state", "runs", "failures"}
  BY <1>1 DEF ScheduleRows
<1>3. mid = IF old.run = 0 THEN old
            ELSE [old EXCEPT !.run = 0, !.state = state, !.nextAt = next]
  BY DEF DetachedRow
<1>4. next \in {old.nextAt, clock + YieldDelay}
  OBVIOUS
<1>5. AdoptedRow(d) = IF mid.plan = d.plan THEN mid
                      ELSE [mid EXCEPT !.plan = d.plan, !.compactRun = 0,
                                       !.nextAt = FirstPlannedAt(d)]
  BY DEF AdoptedRow
<1> HIDE DEF old, state, next, mid
<1>6. /\ mid.plan = old.plan /\ mid.nextAt \in {old.nextAt, clock + YieldDelay}
      /\ DOMAIN mid = DOMAIN old
  BY <1>2, <1>3, <1>4
<1>7. AdoptedRow(d).plan = d.plan
  BY <1>2, <1>5, <1>6
<1> QED
  BY <1>5, <1>6, <1>7 DEF old

(* What a reconciliation leaves in the row of its schedule.                *)
LEMMA ReconciledSchedule ==
    ASSUME TypeOK, Fresh, NEW d \in Definitions, Schedule(d)
    PROVE  /\ d.id \in ScheduleIds
           /\ schedules'[d.id].exists = TRUE /\ schedules'[d.id].plan = d.plan
           /\ \/ schedules'[d.id].nextAt = AdoptedRow(d).nextAt
              \/ /\ AdoptedRow(d).nextAt <= clock
                 /\ schedules'[d.id].nextAt = NextSlot(AdoptedRow(d))
<1> DEFINE row == AdoptedRow(d)
           n == NextSlot(row)
<1>1. /\ d.id \in ScheduleIds /\ Reconcilable(d)
      /\ Refreshed(d) \/ \E r \in RunIds : Dispatched(d, r)
  BY ScheduleEffect
<1>2. row \in ScheduleRows /\ row.exists = TRUE /\ row.plan = d.plan
  BY <1>1, AdoptedRowFields, AdoptedPlan
<1>3. LET m == [row EXCEPT !.nextAt = n] IN
      m.exists = row.exists /\ m.plan = row.plan /\ m.nextAt = n
  <2> HIDE DEF row, n
  <2>1. row \in ScheduleRows
    BY <1>2
  <2> QED
    BY <2>1 DEF ScheduleRows
<1>4. ASSUME Refreshed(d)
      PROVE  \/ schedules'[d.id] = row
             \/ row.nextAt <= clock /\ schedules'[d.id] = [row EXCEPT !.nextAt = n]
  BY <1>4 DEF Refreshed
<1>5. ASSUME NEW r \in RunIds, Dispatched(d, r)
      PROVE  /\ row.nextAt <= clock /\ schedules'[d.id].exists = TRUE
             /\ schedules'[d.id].plan = row.plan /\ schedules'[d.id].nextAt = n
  <2>1. AdoptedRow(d).nextAt <= clock /\ schedules'[d.id] = DispatchedRow(d, r)
    BY <1>5, Zenon DEF Dispatched
  <2>2. /\ DispatchedRow(d, r).exists = TRUE
        /\ DispatchedRow(d, r).plan = AdoptedRow(d).plan
        /\ DispatchedRow(d, r).nextAt = NextSlot(AdoptedRow(d))
    BY <1>1, DispatchedFields, Zenon
  <2> QED
    BY <2>1, <2>2, Zenon
<1> HIDE DEF row, n
<1>6. /\ schedules'[d.id].exists = TRUE /\ schedules'[d.id].plan = row.plan
      /\ \/ schedules'[d.id].nextAt = row.nextAt
         \/ row.nextAt <= clock /\ schedules'[d.id].nextAt = n
  BY <1>1, <1>2, <1>3, <1>4, <1>5
<1> QED
  BY <1>1, <1>2, <1>6 DEF row, n

(* A schedule that plans once only moves forward.                          *)
LEMMA NextMovesOn ==
    ASSUME TypeOK, Fresh, PlansAdopted, NEW d \in Definitions, Schedule(d), Unchanging(d.id),
           schedules[d.id].exists, NEW p \in Int, p <= clock, p < schedules[d.id].nextAt
    PROVE  p < AdoptedRow(d).nextAt /\ p < schedules'[d.id].nextAt
<1> DEFINE row == AdoptedRow(d)
<1>1. d.id \in ScheduleIds /\ row \in ScheduleRows
  BY DefinitionType, ScheduleTypes
<1>2. ScheduleRow(d) = schedules[d.id]
  BY ScheduleRowFields
<1>3. PICK e \in Definitions : e.id = d.id /\ e.plan = schedules[d.id].plan
  BY <1>1 DEF PlansAdopted
<1>4. schedules[d.id].plan = d.plan
  BY <1>3 DEF Unchanging
<1>5. row.nextAt \in {schedules[d.id].nextAt, clock + YieldDelay}
  BY <1>2, <1>4, AdoptedPlan
<1>6. /\ clock \in Int /\ YieldDelay \in Int /\ YieldDelay > 0
      /\ schedules[d.id].nextAt \in Int /\ row.nextAt \in Int
  BY <1>1, ClockType, RowTypes, BoundsAssumption DEF ScheduleRows
<1>7. row.nextAt <= clock => NextSlot(row) \in Int /\ clock < NextSlot(row)
  BY <1>1, SlotArithmetic
<1>8. \/ schedules'[d.id].nextAt = row.nextAt
      \/ row.nextAt <= clock /\ schedules'[d.id].nextAt = NextSlot(row)
  BY ReconciledSchedule
<1> HIDE DEF row
<1>9. p < row.nextAt
  BY <1>5, <1>6
<1>10. p < schedules'[d.id].nextAt
  BY <1>6, <1>7, <1>8, <1>9
<1> QED
  BY <1>9, <1>10 DEF row

LEMMA PlansStep ==
    ASSUME TypeOK, Fresh, PlansAdopted, [Next]_vars
    PROVE  PlansAdopted'
<1> SUFFICES ASSUME NEW s \in ScheduleIds, schedules'[s].exists
             PROVE  \E d \in Definitions : d.id = s /\ d.plan = schedules'[s].plan
  BY DEF PlansAdopted
<1>1. ASSUME schedules'[s].exists = schedules[s].exists, schedules'[s].plan = schedules[s].plan
      PROVE  \E d \in Definitions : d.id = s /\ d.plan = schedules'[s].plan
  BY <1>1 DEF PlansAdopted
<1>2. ASSUME NEW d \in Definitions, Schedule(d)
      PROVE  \E e \in Definitions : e.id = s /\ e.plan = schedules'[s].plan
  <2>1. CASE s = d.id
    BY <1>2, <2>1, ReconciledSchedule
  <2>2. CASE s # d.id
    BY <1>1, <1>2, <2>2, ScheduleEffect
  <2> QED
    BY <2>1, <2>2
<1>3. ASSUME NEW in \in Submissions \cup Imports, Submitting(in)
      PROVE  schedules' = schedules
  BY <1>3 DEF Submitting, Submit, ImportUnknown
<1>4. ASSUME NEW state \in PrunableStates, Prune(state) PROVE schedules' = schedules
  BY <1>4 DEF Prune
<1> QED
  BY <1>1, <1>2, <1>3, <1>4, StepKinds DEF Quiet, Referring

LaterOf(r) ==
    runs[r].schedule # Empty =>
       /\ runs[r].plannedAt <= clock
       /\ runs[r].finishedAt # Nil => runs[r].plannedAt <= runs[r].finishedAt

LEMMA FinishedStep ==
    ASSUME TypeOK, Fresh, FinishedLater, [Next]_vars
    PROVE  FinishedLater'
<1> SUFFICES ASSUME NEW x \in RunIds PROVE LaterOf(x)'
  BY DEF FinishedLater, LaterOf
<1>1. LaterOf(x) /\ clock \in Int /\ runs[x].plannedAt \in Int
  BY ClockType, RowTypes DEF FinishedLater, LaterOf, RunRows
<1>2. ASSUME Carried(x), clock' \in Int, clock <= clock' PROVE LaterOf(x)'
  BY <1>1, <1>2 DEF LaterOf, Carried
<1>3. ASSUME runs'[x] = runs[x], clock' = clock PROVE LaterOf(x)'
  BY <1>1, <1>3 DEF LaterOf
<1>4. ASSUME runs'[x].schedule = Empty PROVE LaterOf(x)'
  BY <1>4 DEF LaterOf
<1>5. ASSUME NEW in \in Submissions \cup Imports, Submitting(in) PROVE LaterOf(x)'
  <2>1. clock' = clock /\ (runs'[x] = runs[x] \/ runs'[x].schedule = Empty)
    BY <1>5, SubmittedRow DEF Submitting
  <2> QED
    BY <1>3, <1>4, <2>1
<1>6. ASSUME NEW d \in Definitions, Schedule(d) PROVE LaterOf(x)'
  <2>1. clock' = clock
    BY <1>6, ScheduleEffect
  <2>2. CASE runs'[x] = ReconciledRuns(d)[x]
    BY <1>1, <1>2, <2>1, <2>2, ReconciledCarried
  <2>3. ASSUME Queued(d, x), Dispatched(d, x) PROVE LaterOf(x)'
    <3>1. AdoptedRow(d) \in ScheduleRows /\ AdoptedRow(d).nextAt <= clock
      BY <2>3, ScheduleTypes DEF Dispatched
    <3>2. PlannedSlot(AdoptedRow(d)) <= clock
      BY <3>1, SlotArithmetic
    <3>3. runs'[x].plannedAt = PlannedSlot(AdoptedRow(d)) /\ runs'[x].finishedAt = Nil
      BY <2>3, QueuedRunFields
    <3> QED
      BY <2>1, <3>2, <3>3 DEF LaterOf
  <2> QED
    BY <1>6, <2>2, <2>3, ScheduleEffect DEF Refreshed, Dispatched, Rebound
<1>7. ASSUME NEW state \in PrunableStates, Prune(state) PROVE LaterOf(x)'
  <2>1. NoRun.schedule = Empty
    BY DEF NoRun
  <2> QED
    BY <1>3, <1>4, <1>7, <2>1, PrunedRow
<1> QED
  BY <1>2, <1>5, <1>6, <1>7, StepKinds DEF Quiet

BehindOf(r) ==
    runs[r].schedule # Empty /\ Unchanging(runs[r].schedule) =>
       /\ schedules[runs[r].schedule].exists
       /\ runs[r].plannedAt < schedules[runs[r].schedule].nextAt

LEMMA BehindStep ==
    ASSUME TypeOK, Fresh, PlansAdopted, FinishedLater, SlotsBehind, [Next]_vars
    PROVE  SlotsBehind'
<1> SUFFICES ASSUME NEW x \in RunIds PROVE BehindOf(x)'
  BY DEF SlotsBehind, BehindOf, Unchanging
<1> DEFINE s == runs[x].schedule
<1>1. /\ BehindOf(x) /\ clock \in Int /\ runs[x].plannedAt \in Int
      /\ s # Empty => s \in ScheduleIds /\ runs[x].plannedAt <= clock
  BY ClockType, RowTypes DEF SlotsBehind, BehindOf, RunRows, FinishedLater
<1>2. ASSUME runs'[x].schedule = s, runs'[x].plannedAt = runs[x].plannedAt,
             s # Empty => schedules'[s].exists = schedules[s].exists
                          /\ schedules'[s].nextAt = schedules[s].nextAt
      PROVE  BehindOf(x)'
  BY <1>1, <1>2 DEF BehindOf, Unchanging
<1>3. ASSUME runs'[x] = runs[x], schedules' = schedules PROVE BehindOf(x)'
  BY <1>2, <1>3
<1>4. ASSUME runs'[x].schedule = Empty PROVE BehindOf(x)'
  BY <1>4 DEF BehindOf
<1>5. ASSUME NEW in \in Submissions \cup Imports, Submitting(in) PROVE BehindOf(x)'
  <2>1. schedules' = schedules /\ (runs'[x] = runs[x] \/ runs'[x].schedule = Empty)
    BY <1>5, SubmittedRow DEF Submitting
  <2> QED
    BY <1>3, <1>4, <2>1
<1>6. ASSUME NEW d \in Definitions, Schedule(d) PROVE BehindOf(x)'
  <2>1. ASSUME runs'[x] = ReconciledRuns(d)[x] PROVE BehindOf(x)'
    <3>1. runs'[x].schedule = s /\ runs'[x].plannedAt = runs[x].plannedAt
      BY <2>1, ReconciledCarried DEF Carried
    <3>2. CASE s # d.id
      BY <1>1, <1>2, <1>6, <3>1, <3>2, ScheduleEffect
    <3>3. CASE s = d.id
      <4>1. schedules'[d.id].exists = TRUE
        BY <1>6, ReconciledSchedule
      <4>2. ASSUME s # Empty, Unchanging(s) PROVE runs[x].plannedAt < schedules'[d.id].nextAt
        <5>1. /\ schedules[d.id].exists /\ runs[x].plannedAt < schedules[d.id].nextAt
              /\ Unchanging(d.id)
          BY <1>1, <3>3, <4>2 DEF BehindOf
        <5> QED
          BY <1>1, <1>6, <4>2, <5>1, NextMovesOn
      <4> QED
        BY <3>1, <3>3, <4>1, <4>2 DEF BehindOf, Unchanging
    <3> QED
      BY <3>2, <3>3
  <2>2. ASSUME Queued(d, x), Dispatched(d, x) PROVE BehindOf(x)'
    <3>1. /\ AdoptedRow(d) \in ScheduleRows /\ AdoptedRow(d).nextAt <= clock
          /\ schedules'[d.id] = DispatchedRow(d, x)
      BY <2>2, ScheduleTypes DEF Dispatched
    <3>2. /\ PlannedSlot(AdoptedRow(d)) <= clock /\ clock < NextSlot(AdoptedRow(d))
          /\ PlannedSlot(AdoptedRow(d)) \in Int /\ NextSlot(AdoptedRow(d)) \in Int
      BY <3>1, SlotArithmetic
    <3>3. runs'[x].plannedAt = PlannedSlot(AdoptedRow(d)) /\ runs'[x].schedule = d.id
      BY <2>2, QueuedRunFields
    <3>4. schedules'[d.id].exists = TRUE /\ schedules'[d.id].nextAt = NextSlot(AdoptedRow(d))
      <4>1. Reconcilable(d)
        BY <1>6, ScheduleEffect
      <4>2. /\ DispatchedRow(d, x).exists = TRUE
            /\ DispatchedRow(d, x).nextAt = NextSlot(AdoptedRow(d))
        BY <4>1, DispatchedFields, Zenon
      <4> QED
        BY <3>1, <4>2, Zenon
    <3> QED
      BY <1>1, <3>2, <3>3, <3>4 DEF BehindOf
  <2> QED
    BY <1>6, <2>1, <2>2, ScheduleEffect DEF Refreshed, Dispatched, Rebound
<1>7. ASSUME NEW state \in PrunableStates, Prune(state) PROVE BehindOf(x)'
  <2>1. NoRun.schedule = Empty
    BY DEF NoRun
  <2> QED
    BY <1>3, <1>4, <1>7, <2>1, PrunedRow
<1>8. ASSUME Quiet PROVE BehindOf(x)'
  <2>1. /\ runs'[x].schedule = s /\ runs'[x].plannedAt = runs[x].plannedAt
        /\ s # Empty => schedules'[s].exists = schedules[s].exists
                        /\ schedules'[s].nextAt = schedules[s].nextAt
    BY <1>1, <1>8 DEF Quiet, Carried, Referring
  <2> QED
    BY <1>2, <2>1
<1> QED
  BY <1>5, <1>6, <1>7, <1>8, StepKinds

(* What was handed to a worker stays what it was.                          *)
SameClaim(t) ==
    /\ claims'[t].run = claims[t].run /\ claims'[t].number = claims[t].number
    /\ claims'[t].owner = claims[t].owner /\ claims'[t].key = claims[t].key

LEMMA ClaimsKept ==
    ASSUME TypeOK, [Next]_vars
    PROVE  \/ lastToken' = lastToken /\ \A t \in Tokens : SameClaim(t)
           \/ \E w \in Workers, hs \in HandlerSets, r \in RunIds : ClaimRun(w, hs, r)
<1> DEFINE Same == lastToken' = lastToken /\ \A t \in Tokens : SameClaim(t)
<1>1. ASSUME NEW t \in Tokens, NEW outcome \in Outcomes, Finish(t, outcome) PROVE Same
  <2>1. /\ claims \in [Tokens -> Claims] /\ claims' = [claims EXCEPT ![t].settled = @ + 1]
        /\ lastToken' = lastToken
    BY <1>1, RowTypes DEF Finish
  <2> QED
    BY <2>1 DEF SameClaim, Claims
<1>2. ASSUME lastToken' = lastToken, claims' = claims PROVE Same
  BY <1>2 DEF SameClaim
<1>3. ASSUME NEW d \in Definitions, Schedule(d) PROVE Same
  BY <1>2, <1>3 DEF Schedule, ScheduleIdle, ScheduleSkip, ScheduleReuse, ScheduleInsert,
                    ScheduleRebind
<1>4. ASSUME NEW hs \in HandlerSets, ClaimEmpty(hs) PROVE Same
  BY <1>2, <1>4 DEF ClaimEmpty
<1>5. ASSUME NEW rs, CancelRuns(rs) PROVE Same
  BY <1>2, <1>5 DEF CancelRuns
<1>6. ASSUME NEW in, Submit(in) \/ ImportUnknown(in) PROVE Same
  BY <1>2, <1>6 DEF Submit, ImportUnknown
<1>7. ASSUME NEW r, NEW state, Resolve(r, state) PROVE Same
  BY <1>2, <1>7 DEF Resolve
<1>8. ASSUME NEW state, Prune(state) PROVE Same
  BY <1>2, <1>8 DEF Prune
<1>9. ASSUME Tick \/ UNCHANGED vars PROVE Same
  BY <1>2, <1>9 DEF Tick, vars
<1>10. ASSUME NEW r, RecordCancellation(r) PROVE Same
  BY <1>5, <1>10 DEF RecordCancellation
<1>11. ASSUME NEW h, CancelHandler(h) PROVE Same
  BY <1>5, <1>11 DEF CancelHandler
<1> HIDE DEF Same
<1>12. Same \/ \E w \in Workers, hs \in HandlerSets, r \in RunIds : ClaimRun(w, hs, r)
  BY <1>1, <1>3, <1>4, <1>6, <1>7, <1>8, <1>9, <1>10, <1>11 DEF Next
<1> QED
  BY <1>12 DEF Same

LEMMA ClaimKeyTypes ==
    ASSUME TypeOK, NEW t \in Tokens
    PROVE  /\ claims[t].number \in Nat /\ claims[t].key \in Keys
           /\ claims[t].key.slot \in Int
<1>1. claims[t] \in Claims
  BY RowTypes
<1> QED
  BY <1>1 DEF Claims, Keys

(* An intent whose row is gone is not taken up again while no row of it is *)
(* made and its slot stays past.                                           *)
LEMMA GoneKept ==
    ASSUME TypeOK, NEW t \in Tokens, Gone(t), SameClaim(t), clock' \in Int, clock <= clock',
           \A x \in RunIds : Present(x)' =>
              \/ Present(x) /\ runs'[x].job = runs[x].job
              \/ ~ (runs'[x].job.owner = claims[t].owner /\ runs'[x].job.key = claims[t].key),
           LET s == claims[t].key.name IN
           /\ Unchanging(s) /\ schedules[s].exists
           /\ claims[t].key.slot <= clock /\ claims[t].key.slot < schedules[s].nextAt
           => schedules'[s].exists /\ claims[t].key.slot < schedules'[s].nextAt
    PROVE  Gone(t)'
<1> DEFINE s == claims[t].key.name
           slot == claims[t].key.slot
<1>1. /\ slot \in Int /\ clock \in Int /\ Retention \in Int
  BY ClaimKeyTypes, ClockType, BoundsAssumption
<1>2. /\ claims'[t].key = claims[t].key /\ claims'[t].owner = claims[t].owner
  BY DEF SameClaim
<1>3. s \in ScheduleIds /\ Past(s, slot)
  BY DEF Gone
<1>4. CASE Retained(s) /\ slot < clock - Retention
  <2>1. slot < clock' - Retention
    BY <1>1, <1>4
  <2>2. Past(s, slot)'
    BY <1>2, <1>4, <2>1 DEF Past, Retained
  <2> QED
    BY <1>2, <1>3, <2>2 DEF Gone, Present
<1>5. CASE Unchanging(s) /\ schedules[s].exists /\ slot <= clock /\ slot < schedules[s].nextAt
  <2>1. slot <= clock' /\ schedules'[s].exists /\ slot < schedules'[s].nextAt
    BY <1>1, <1>5
  <2>2. Past(s, slot)'
    BY <1>2, <1>5, <2>1 DEF Past, Unchanging
  <2> QED
    BY <1>2, <1>3, <2>2 DEF Gone, Present
<1> QED
  BY <1>3, <1>4, <1>5 DEF Past

(* The row of an intent goes on counting.                                  *)
LEMMA HomeKept ==
    ASSUME TypeOK, NEW t \in Tokens, Home(t), SameClaim(t), Carried(claims[t].run)
    PROVE  Home(t)'
<1> DEFINE r == claims[t].run
<1>1. /\ r \in RunIds /\ Present(r)
      /\ runs[r].job.owner = claims[t].owner /\ runs[r].job.key = claims[t].key
      /\ claims[t].number <= runs[r].attempts
  BY DEF Home
<1>2. claims[t].number \in Nat /\ runs[r].attempts \in Nat
  BY <1>1, ClaimKeyTypes, RowTypes DEF RunRows
<1>3. /\ claims'[t].run = r /\ claims'[t].number = claims[t].number
      /\ claims'[t].owner = claims[t].owner /\ claims'[t].key = claims[t].key
  BY DEF SameClaim
<1>4. /\ runs'[r].state # "absent" /\ runs'[r].job = runs[r].job
      /\ runs'[r].attempts \in {runs[r].attempts, runs[r].attempts + 1}
  BY <1>1 DEF Carried, Present
<1> HIDE DEF r
<1>5. claims[t].number <= runs'[r].attempts
  BY <1>1, <1>2, <1>4
<1> QED
  BY <1>1, <1>3, <1>4, <1>5 DEF Home, Present

(* A lease counts itself.                                                  *)
LEMMA ClaimHome ==
    ASSUME TypeOK, NEW w \in Workers, NEW hs \in HandlerSets, NEW r \in RunIds,
           ClaimRun(w, hs, r), NEW n \in Int, n = lastToken + 1
    PROVE  /\ n \in Tokens /\ lastToken' = n /\ Home(n)'
           /\ Present(r) /\ claims'[n].number = runs[r].attempts + 1
           /\ claims'[n].owner = runs[r].job.owner /\ claims'[n].key = runs[r].job.key
           /\ \A u \in Tokens \ {n} : SameClaim(u)
<1>1. /\ runs[r].state \in Pending /\ ExpiredRuns[r] = runs[r]
      /\ runs'[r].job = runs[r].job /\ runs'[r].state = "running"
      /\ runs'[r].attempts = runs[r].attempts + 1
  BY ClaimedRow
<1>2. n \in Tokens /\ lastToken' = n
  <2>1. /\ lastToken < MaxTokens /\ MaxTokens \in Nat /\ lastToken \in Int /\ 0 <= lastToken
        /\ lastToken' = lastToken + 1
    BY IdentifierTypes, BoundsAssumption DEF ClaimRun
  <2> QED
    BY <2>1 DEF Tokens
<1>3. claims \in [Tokens -> Claims] /\ runs[r].attempts \in Nat
  BY RowTypes DEF RunRows
<1>4. /\ claims'[n].run = r /\ claims'[n].number = runs[r].attempts + 1
      /\ claims'[n].owner = runs[r].job.owner /\ claims'[n].key = runs[r].job.key
      /\ \A u \in Tokens \ {n} : claims'[u] = claims[u]
  BY <1>1, <1>2, <1>3 DEF ClaimRun
<1>5. Present(r) /\ Present(r)'
  BY <1>1 DEF Present, Pending
<1>6. Home(n)'
  BY <1>1, <1>3, <1>4, <1>5 DEF Home
<1> QED
  BY <1>2, <1>4, <1>5, <1>6 DEF SameClaim

LEMMA QuietAccounted ==
    ASSUME TypeOK, Quiet, NEW t \in Tokens, SameClaim(t), Home(t) \/ Gone(t)
    PROVE  Home(t)' \/ Gone(t)'
<1>1. ASSUME Home(t) PROVE Home(t)'
  BY <1>1, HomeKept DEF Home, Quiet
<1>2. ASSUME Gone(t) PROVE Gone(t)'
  <2>1. \A x \in RunIds : Present(x)' => Present(x) /\ runs'[x].job = runs[x].job
    BY DEF Quiet, Carried, Present
  <2>2. LET s == claims[t].key.name IN
        schedules'[s].exists = schedules[s].exists /\ schedules'[s].nextAt = schedules[s].nextAt
    BY <1>2 DEF Gone, Quiet, Referring
  <2>3. clock' \in Int /\ clock <= clock'
    BY DEF Quiet
  <2> QED
    BY <1>2, <2>1, <2>2, <2>3, GoneKept
<1> QED
  BY <1>1, <1>2

LEMMA SubmittingAccounted ==
    ASSUME TypeOK, Fresh, NEW in \in Submissions \cup Imports, Submitting(in),
           NEW t \in Tokens, SameClaim(t), Home(t) \/ Gone(t)
    PROVE  Home(t)' \/ Gone(t)'
<1> DEFINE n == lastRun + 1
<1>1. /\ ~ Present(n) /\ in.key.name \notin ScheduleIds /\ runs'[n].job = in
      /\ \A x \in RunIds \ {n} : runs'[x] = runs[x]
      /\ clock' = clock /\ schedules' = schedules
  BY SubmittedRow DEF Submitting
<1>2. clock \in Int
  BY ClockType
<1> HIDE DEF n
<1>3. ASSUME Home(t) PROVE Home(t)'
  <2>1. claims[t].run # n /\ claims[t].run \in RunIds
    BY <1>1, <1>3 DEF Home
  <2>2. Carried(claims[t].run)
    BY <1>1, <2>1 DEF Carried
  <2> QED
    BY <1>3, <2>2, HomeKept
<1>4. ASSUME Gone(t) PROVE Gone(t)'
  <2>1. claims[t].key.name \in ScheduleIds
    BY <1>4 DEF Gone
  <2>2. \A x \in RunIds : Present(x)' =>
           \/ Present(x) /\ runs'[x].job = runs[x].job
           \/ ~ (runs'[x].job.owner = claims[t].owner /\ runs'[x].job.key = claims[t].key)
    BY <1>1, <2>1 DEF Present
  <2> QED
    BY <1>1, <1>2, <1>4, <2>2, GoneKept
<1> QED
  BY <1>3, <1>4

LEMMA PruneAccounted ==
    ASSUME TypeOK, SlotKeys, IntentsUnique, FinishedLater, SlotsBehind,
           NEW state \in PrunableStates, Prune(state),
           NEW t \in Tokens, SameClaim(t), Home(t) \/ Gone(t), Traceable(claims[t].key.name)
    PROVE  Home(t)' \/ Gone(t)'
<1>1. /\ clock' = clock /\ schedules' = schedules /\ clock \in Int /\ Retention \in Int
      /\ \A x \in RunIds : runs'[x] = runs[x] \/ runs'[x] = NoRun
      /\ NoRun.state = "absent"
  BY PrunedRow, ClockType, BoundsAssumption DEF NoRun, Prune
<1>2. ASSUME Gone(t) PROVE Gone(t)'
  <2>1. \A x \in RunIds : Present(x)' => Present(x) /\ runs'[x].job = runs[x].job
    BY <1>1 DEF Present
  <2> QED
    BY <1>1, <1>2, <2>1, GoneKept
<1>3. ASSUME Home(t) PROVE Home(t)' \/ Gone(t)'
  <2> DEFINE r == claims[t].run
             s == claims[t].key.name
             slot == claims[t].key.slot
  <2>1. /\ r \in RunIds /\ Present(r)
        /\ runs[r].job.owner = claims[t].owner /\ runs[r].job.key = claims[t].key
    BY <1>3 DEF Home
  <2>2. CASE runs'[r] = runs[r]
    BY <1>3, <2>2, HomeKept DEF Carried
  <2>3. CASE runs'[r] = NoRun /\ runs[r].schedule # Empty /\ runs[r].finishedAt # Nil
             /\ runs[r].finishedAt < clock - Retention
    <3>1. /\ runs[r].schedule \in ScheduleIds /\ runs[r].plannedAt \in Int
          /\ runs[r].finishedAt \in Int
      BY <2>1, <2>3, RowTypes DEF RunRows
    <3>2. s = runs[r].schedule /\ slot = runs[r].plannedAt
      BY <2>1, <2>3 DEF SlotKeys
    <3>3. slot <= clock /\ slot <= runs[r].finishedAt
      BY <2>1, <2>3, <3>2 DEF FinishedLater
    <3>4. Unchanging(s) => schedules[s].exists /\ slot < schedules[s].nextAt
      BY <2>1, <2>3, <3>2 DEF SlotsBehind
    <3>5. slot < clock - Retention
      BY <1>1, <2>3, <3>1, <3>2, <3>3
    <3>6. Past(s, slot)'
      <4>1. claims'[t].key = claims[t].key
        BY DEF SameClaim
      <4> QED
        BY <1>1, <3>3, <3>4, <3>5, <4>1 DEF Past, Traceable, Retained, Unchanging
    <3>7. \A x \in RunIds : Present(x)' =>
             ~ (runs'[x].job.owner = claims[t].owner /\ runs'[x].job.key = claims[t].key)
      BY <1>1, <2>1, <2>3 DEF Present, IntentsUnique
    <3>8. claims'[t].key = claims[t].key /\ claims'[t].owner = claims[t].owner
      BY DEF SameClaim
    <3> QED
      BY <3>1, <3>2, <3>6, <3>7, <3>8 DEF Gone, Present
  <2> QED
    BY <2>1, <2>2, <2>3, PrunedRow
<1> QED
  BY <1>2, <1>3

(* The slot that is planned was not passed.                                *)
LEMMA PlannedIsNotPast ==
    ASSUME TypeOK, Fresh, PlansAdopted, NEW d \in Definitions, Schedule(d),
           AdoptedRow(d).nextAt <= clock, NEW p \in Int, Past(d.id, p)
    PROVE  p < PlannedSlot(AdoptedRow(d))
<1> DEFINE row == AdoptedRow(d)
<1>1. /\ row \in ScheduleRows /\ row.plan = d.plan /\ clock \in Int /\ Retention \in Int
      /\ row.nextAt \in Int /\ row.plan.interval \in Int
  BY ScheduleTypes, AdoptedPlan, ClockType, BoundsAssumption DEF ScheduleRows, Plans
<1>2. /\ PlannedSlot(row) \in Int /\ row.nextAt <= PlannedSlot(row)
      /\ clock < NextSlot(row) /\ NextSlot(row) = PlannedSlot(row) + row.plan.interval
  BY <1>1, SlotArithmetic
<1>3. CASE Retained(d.id) /\ p < clock - Retention
  <2>1. row.plan.interval <= Retention
    BY <1>1, <1>3 DEF Retained
  <2> HIDE DEF row
  <2> QED
    BY <1>1, <1>2, <1>3, <2>1 DEF row
<1>4. CASE Unchanging(d.id) /\ schedules[d.id].exists /\ p <= clock /\ p < schedules[d.id].nextAt
  <2>1. p < row.nextAt
    BY <1>4, NextMovesOn
  <2> HIDE DEF row
  <2> QED
    BY <1>1, <1>2, <2>1 DEF row
<1> QED
  BY <1>3, <1>4 DEF Past

LEMMA ScheduleGone ==
    ASSUME TypeOK, Fresh, PlansAdopted, NEW d \in Definitions, Schedule(d),
           NEW t \in Tokens, SameClaim(t), Gone(t)
    PROVE  Gone(t)'
<1> DEFINE s == claims[t].key.name
           slot == claims[t].key.slot
<1>1. /\ clock' = clock /\ clock \in Int /\ slot \in Int
      /\ Refreshed(d) \/ \E r \in RunIds : Dispatched(d, r)
      /\ \A x \in ScheduleIds \ {d.id} : schedules'[x] = schedules[x]
  BY ScheduleEffect, ClockType, ClaimKeyTypes
<1>2. s \in ScheduleIds /\ Past(s, slot)
  BY DEF Gone
<1>3. ASSUME Unchanging(s), schedules[s].exists, slot <= clock, slot < schedules[s].nextAt
      PROVE  schedules'[s].exists /\ slot < schedules'[s].nextAt
  <2>1. CASE s # d.id
    <3>1. schedules'[s] = schedules[s]
      BY <1>1, <1>2, <2>1
    <3> QED
      BY <1>3, <3>1
  <2>2. CASE s = d.id
    <3>1. schedules'[d.id].exists = TRUE
      BY ReconciledSchedule
    <3>2. slot < schedules'[d.id].nextAt
      BY <1>1, <1>3, <2>2, NextMovesOn
    <3> QED
      BY <2>2, <3>1, <3>2
  <2> QED
    BY <2>1, <2>2
<1>4. ASSUME NEW x \in RunIds, runs'[x] = ReconciledRuns(d)[x], runs'[x].state # "absent"
      PROVE  Present(x) /\ runs'[x].job = runs[x].job
  BY <1>4, ReconciledCarried DEF Carried, Present
<1>5. ASSUME NEW x \in RunIds, Queued(d, x), Dispatched(d, x)
      PROVE  ~ (runs'[x].job.owner = claims[t].owner /\ runs'[x].job.key = claims[t].key)
  <2> SUFFICES ASSUME runs'[x].job.key = claims[t].key PROVE FALSE
    OBVIOUS
  <2>1. s = d.id /\ slot = PlannedSlot(AdoptedRow(d))
    BY <1>5, QueuedRunFields
  <2>2. AdoptedRow(d).nextAt <= clock
    BY <1>5 DEF Dispatched
  <2>3. slot < PlannedSlot(AdoptedRow(d))
    BY <1>1, <1>2, <2>1, <2>2, PlannedIsNotPast
  <2> QED
    BY <1>1, <2>1, <2>3
<1>6. \A x \in RunIds : Present(x)' =>
         \/ Present(x) /\ runs'[x].job = runs[x].job
         \/ ~ (runs'[x].job.owner = claims[t].owner /\ runs'[x].job.key = claims[t].key)
  BY <1>1, <1>4, <1>5 DEF Refreshed, Dispatched, Rebound, Present
<1>7. clock <= clock' /\ clock' \in Int
  BY <1>1
<1> QED
  BY <1>3, <1>6, <1>7, GoneKept

LEMMA ScheduleHome ==
    ASSUME TypeOK, Fresh, FlightInv, IntentsUnique, PlansAdopted, FinishedLater, SlotsBehind,
           NEW d \in Definitions, Schedule(d),
           NEW t \in Tokens, SameClaim(t), Home(t), Traceable(claims[t].key.name)
    PROVE  Home(t)' \/ Gone(t)'
<1>0. PICK r \in RunIds : r = claims[t].run
  BY DEF Home
<1>1. /\ Present(r)
      /\ runs[r].job.owner = claims[t].owner /\ runs[r].job.key = claims[t].key
  BY <1>0 DEF Home
<1>2. CASE runs'[r] = ReconciledRuns(d)[r]
  BY <1>0, <1>2, ReconciledCarried, HomeKept
<1>3. ASSUME Queued(d, r), Dispatched(d, r) PROVE Gone(t)'
  <2> DEFINE slot == runs[r].plannedAt
  <2>1. Reusable(d, r) /\ r = AdoptedRow(d).compactRun
    BY <1>1, <1>3 DEF Queued
  <2>2. /\ d.plan.compact /\ runs[r].schedule = d.id
    <3>1. d.plan.compact /\ ReconciledRuns(d)[r].schedule = d.id
      BY <2>1 DEF Reusable
    <3>2. runs[r] \in RunRows
      BY RowTypes
    <3>3. [runs[r] EXCEPT !.state = "interrupted"].schedule = runs[r].schedule
      BY <3>2 DEF RunRows
    <3> QED
      BY <3>1, <3>3, ReconciledRow
  <2>3. d.id \in ScheduleIds /\ d.id # Empty
    BY DefinitionType, NamesAssumption
  <2>4. claims[t].key.name = d.id /\ claims[t].key.slot = slot
    BY <1>1, <2>2, <2>3 DEF FlightInv, SlotKeys
  <2>5. Unchanging(d.id)
    BY <2>2, <2>4 DEF Traceable, Retained
  <2>6. /\ slot \in Int /\ slot <= clock /\ schedules[d.id].exists /\ slot < schedules[d.id].nextAt
    BY <2>2, <2>3, <2>5, RowTypes DEF RunRows, FinishedLater, SlotsBehind
  <2>7. slot < schedules'[d.id].nextAt /\ slot < AdoptedRow(d).nextAt
    BY <2>5, <2>6, NextMovesOn
  <2>8. schedules'[d.id].exists = TRUE /\ clock' = clock
    BY ReconciledSchedule, ScheduleEffect
  <2>9. claims'[t].key = claims[t].key /\ claims'[t].owner = claims[t].owner
    BY DEF SameClaim
  <2>10. Past(d.id, claims[t].key.slot)'
    BY <2>4, <2>5, <2>6, <2>7, <2>8, <2>9 DEF Past, Unchanging
  <2>11. ASSUME NEW x \in RunIds, runs'[x].state # "absent",
                runs'[x].job.owner = claims[t].owner, runs'[x].job.key = claims[t].key
         PROVE  FALSE
    <3>1. CASE x = r
      <4>1. /\ AdoptedRow(d) \in ScheduleRows /\ AdoptedRow(d).nextAt <= clock
        BY <1>3, ScheduleTypes DEF Dispatched
      <4>2. /\ PlannedSlot(AdoptedRow(d)) \in Int /\ AdoptedRow(d).nextAt \in Int
            /\ AdoptedRow(d).nextAt <= PlannedSlot(AdoptedRow(d))
        BY <4>1, SlotArithmetic DEF ScheduleRows
      <4>3. slot = PlannedSlot(AdoptedRow(d))
        BY <1>3, <2>4, <2>11, <3>1, QueuedRunFields
      <4> QED
        BY <2>6, <2>7, <4>2, <4>3
    <3>2. CASE x # r
      <4>1. runs'[x] = ReconciledRuns(d)[x]
        BY <1>3, <3>2 DEF Dispatched
      <4>2. Present(x) /\ runs'[x].job = runs[x].job
        BY <2>11, <4>1, ReconciledCarried DEF Carried, Present
      <4> QED
        BY <1>1, <2>11, <3>2, <4>2 DEF IntentsUnique
    <3> QED
      BY <3>1, <3>2
  <2> HIDE DEF slot
  <2> QED
    BY <2>3, <2>4, <2>9, <2>10, <2>11 DEF Gone, Present
<1> QED
  BY <1>2, <1>3, ScheduleEffect DEF Refreshed, Dispatched, Rebound

LEMMA AccountedStep ==
    ASSUME TypeOK, Fresh, FlightInv, IntentsUnique, PlansAdopted, FinishedLater, SlotsBehind,
           Accounted, [Next]_vars
    PROVE  Accounted'
<1> SUFFICES ASSUME NEW t \in Tokens, t <= lastToken', Traceable(claims'[t].key.name)
             PROVE  Home(t)' \/ Gone(t)'
  BY DEF Accounted, AccountedOf, Traceable, Retained, Unchanging
<1>0. lastToken \in Int /\ t \in Int
  BY IdentifierTypes
<1>1. ASSUME t <= lastToken, SameClaim(t) PROVE Home(t)' \/ Gone(t)'
  <2>1. Traceable(claims[t].key.name)
    BY <1>1 DEF SameClaim
  <2>2. Home(t) \/ Gone(t)
    BY <1>1, <2>1 DEF Accounted, AccountedOf
  <2>3. ASSUME NEW d \in Definitions, Schedule(d) PROVE Home(t)' \/ Gone(t)'
    BY <1>1, <2>1, <2>2, <2>3, ScheduleHome, ScheduleGone
  <2>4. ASSUME NEW state \in PrunableStates, Prune(state) PROVE Home(t)' \/ Gone(t)'
    BY <1>1, <2>1, <2>2, <2>4, PruneAccounted DEF FlightInv
  <2>5. ASSUME NEW in \in Submissions \cup Imports, Submitting(in) PROVE Home(t)' \/ Gone(t)'
    BY <1>1, <2>2, <2>5, SubmittingAccounted
  <2>6. ASSUME Quiet PROVE Home(t)' \/ Gone(t)'
    BY <1>1, <2>2, <2>6, QuietAccounted
  <2> QED
    BY <2>3, <2>4, <2>5, <2>6, StepKinds
<1>2. ASSUME NEW w \in Workers, NEW hs \in HandlerSets, NEW r \in RunIds, ClaimRun(w, hs, r)
      PROVE  Home(t)' \/ Gone(t)'
  <2>1. PICK n \in Int : n = lastToken + 1
    BY <1>0
  <2>2. lastToken' = n /\ Home(n)' /\ \A u \in Tokens \ {n} : SameClaim(u)
    BY <1>2, <2>1, ClaimHome
  <2>3. CASE t = n
    BY <2>2, <2>3
  <2>4. CASE t # n
    BY <1>0, <1>1, <2>1, <2>2, <2>4
  <2> QED
    BY <2>3, <2>4
<1>3. ASSUME lastToken' = lastToken, \A u \in Tokens : SameClaim(u)
      PROVE  Home(t)' \/ Gone(t)'
  BY <1>1, <1>3
<1> QED
  BY <1>2, <1>3, ClaimsKept

LEMMA DifferStep ==
    ASSUME TypeOK, Fresh, IntentsUnique, Accounted, StartsDiffer, [Next]_vars
    PROVE  StartsDiffer'
<1> SUFFICES ASSUME NEW t \in Tokens, NEW u \in Tokens, t <= lastToken', u <= lastToken', t # u,
                    claims'[t].owner = claims'[u].owner, claims'[t].key = claims'[u].key,
                    Traceable(claims'[t].key.name)
             PROVE  claims'[t].number # claims'[u].number
  BY DEF StartsDiffer, Traceable, Retained, Unchanging
<1>0. lastToken \in Int /\ t \in Int /\ u \in Int
  BY IdentifierTypes
<1>1. ASSUME t <= lastToken, u <= lastToken, SameClaim(t), SameClaim(u)
      PROVE  claims'[t].number # claims'[u].number
  BY <1>1 DEF SameClaim, StartsDiffer
<1>2. ASSUME NEW w \in Workers, NEW hs \in HandlerSets, NEW r \in RunIds, ClaimRun(w, hs, r)
      PROVE  claims'[t].number # claims'[u].number
  <2>1. PICK n \in Int : n = lastToken + 1
    BY <1>0
  <2>2. /\ lastToken' = n /\ Present(r) /\ claims'[n].number = runs[r].attempts + 1
        /\ claims'[n].owner = runs[r].job.owner /\ claims'[n].key = runs[r].job.key
        /\ \A v \in Tokens \ {n} : SameClaim(v)
    BY <1>2, <2>1, ClaimHome
  <2>3. ASSUME NEW v \in Tokens, v # n, v <= lastToken', claims'[v].owner = claims'[n].owner,
               claims'[v].key = claims'[n].key, Traceable(claims'[v].key.name)
        PROVE  claims'[v].number # claims'[n].number
    <3>1. v <= lastToken /\ SameClaim(v)
      BY <1>0, <2>1, <2>2, <2>3, IdentifierTypes
    <3>2. /\ claims[v].owner = runs[r].job.owner /\ claims[v].key = runs[r].job.key
          /\ claims'[v].number = claims[v].number /\ Traceable(claims[v].key.name)
      BY <2>2, <2>3, <3>1 DEF SameClaim
    <3>3. Home(v) \/ Gone(v)
      BY <3>1, <3>2 DEF Accounted, AccountedOf
    <3>4. Home(v)
      BY <2>2, <3>2, <3>3 DEF Gone
    <3>5. claims[v].run = r /\ claims[v].number <= runs[r].attempts
      BY <2>2, <3>2, <3>4 DEF Home, IntentsUnique
    <3>6. claims[v].number \in Nat /\ runs[r].attempts \in Nat
      BY ClaimKeyTypes, RowTypes DEF RunRows
    <3> QED
      BY <2>2, <3>2, <3>5, <3>6
  <2>4. CASE t # n /\ u # n
    BY <1>0, <1>1, <2>1, <2>2, <2>4
  <2>5. CASE t = n
    BY <2>3, <2>5
  <2>6. CASE u = n
    BY <2>3, <2>6
  <2> QED
    BY <2>4, <2>5, <2>6
<1>3. ASSUME lastToken' = lastToken, \A v \in Tokens : SameClaim(v)
      PROVE  claims'[t].number # claims'[u].number
  BY <1>1, <1>3
<1> QED
  BY <1>2, <1>3, ClaimsKept

LEMMA HistoryStep ==
    EvidenceInv /\ FlightInv /\ LostInv /\ HistoryInv /\ [Next]_vars => HistoryInv'
BY PlansStep, FinishedStep, BehindStep, AccountedStep, DifferStep
   DEF EvidenceInv, LostInv, HistoryInv

LEMMA HistoryInit == Init => HistoryInv
<1> SUFFICES ASSUME Init PROVE HistoryInv
  OBVIOUS
<1>1. \A s \in ScheduleIds : schedules[s].exists = FALSE
  BY DEF Init, NoSchedule
<1>2. \A r \in RunIds : runs[r].schedule = Empty
  BY DEF Init, NoRun
<1>3. \A t \in Tokens : ~ (t <= lastToken)
  BY BoundsAssumption DEF Init, Tokens
<1> QED
  BY <1>1, <1>2, <1>3
     DEF HistoryInv, PlansAdopted, FinishedLater, SlotsBehind, Accounted, AccountedOf, StartsDiffer

LEMMA HistoryInvariant == Spec => []HistoryInv
BY HistoryInit, HistoryStep, EvidenceInvariant, FlightInvariant, LostInvariant, PTL DEF Spec

LEMMA OneOffIsTraceable ==
    ASSUME NEW name, name \notin ScheduleIds
    PROVE  Traceable(name)
<1>1. \A d \in Definitions : d.id # name
  BY DefinitionType
<1> QED
  BY <1>1 DEF Traceable, Retained

(* What was asked for once is done once (store.go:110-116): the same       *)
(* attempt of a one-off intent is never started twice, however its         *)
(* submission is repeated; nor is a slot of a schedule that keeps its rows *)
(* for an interval or keeps its definition (schedules.go:16, compact.go:9).*)
THEOREM IntentsStartOnce == Spec => []StartsDiffer
<1>1. HistoryInv => StartsDiffer
  BY DEF HistoryInv
<1> QED
  BY <1>1, HistoryInvariant, PTL

(* Where every schedule either keeps its rows until its next slot          *)
(* (retention.go:16, no compaction) or keeps its definition, no attempt of *)
(* any intent or slot is started twice, across retries, re-planned         *)
(* definitions, reused rows and pruned history.                            *)
THEOREM AttemptsStartOnce ==
    ASSUME \A s \in ScheduleIds : Traceable(s)
    PROVE  Spec => []AttemptStartedOnce
<1>1. \A name : Traceable(name)
  BY OneOffIsTraceable
<1>2. ASSUME EvidenceInv, StartsDiffer PROVE AttemptStartedOnce
  <2> SUFFICES ASSUME NEW t \in 1 .. lastToken, NEW u \in 1 .. lastToken, t # u,
                      claims[t].owner = claims[u].owner, claims[t].key = claims[u].key
               PROVE  claims[t].number # claims[u].number
    BY DEF AttemptStartedOnce
  <2>1. lastToken \in Int /\ lastToken <= MaxTokens /\ MaxTokens \in Nat
    BY <1>2, BoundsAssumption DEF EvidenceInv, TypeOK
  <2>2. t \in Tokens /\ u \in Tokens /\ t <= lastToken /\ u <= lastToken
    BY <2>1 DEF Tokens
  <2> QED
    BY <1>1, <1>2, <2>2 DEF StartsDiffer
<1>3. EvidenceInv /\ StartsDiffer => AttemptStartedOnce
  BY <1>2
<1> QED
  BY <1>3, IntentsStartOnce, EvidenceInvariant, PTL
=============================================================================
