------------------------------ MODULE JobLedger ------------------------------
(***************************************************************************)
(* The durable job ledger of zboard (backend/internal/adapters/            *)
(* persistence/jobstore): job_runs, job_attempts, job_schedules and the    *)
(* execution budget.  Every operation below runs in one transaction that   *)
(* first writes the single budget row (Store.lock), so each operation is   *)
(* one atomic action; pruning takes the schedule rows instead, which       *)
(* orders it against the only operation that could revive a terminal run.  *)
(* A transaction that returns an error is rolled back: it is an action     *)
(* that is not enabled.                                                    *)
(*                                                                         *)
(* Row identifiers are positive integers handed out in order, standing for *)
(* uuids: they are never reused.  0 is the empty string of a reference     *)
(* column, Nil a NULL timestamp, Empty an empty text column.  Times are    *)
(* ticks of one clock that all processes share (milliseconds in the code). *)
(* Columns that are only reported (sequence, missed_runs, last_state,      *)
(* last_started_at, last_finished_at) are left out.                        *)
(***************************************************************************)
EXTENDS DispatchLanes, FiniteSets

CONSTANTS
    Text,                   \* contents of text columns
    MaxRuns,                \* bound: job_runs rows ever created
    MaxTokens,              \* bound: leases ever granted
    MaxTime,                \* bound: ticks of the clock
    Workers,                \* worker identities
    HandlerSets,            \* the handler sets with which workers claim
    Submissions,            \* one-off submissions the producers make
    Imports,                \* intents attached from older tables at upgrade
    ScheduleIds,            \* identities of periodic definitions
    Definitions,            \* periodic definitions the runtime reconciles
    PluginOwners,           \* owners "plugin:..."
    Groups,                 \* execution groups with a row
    GroupCapacity,          \* job_execution_groups.capacity
    Capacity,               \* job_execution_budget.capacity
    MaxPending,             \* jobs.MaxPending
    MaxPluginPending,       \* jobs.MaxPluginPending
    MaxPluginOwnerPending,  \* jobs.MaxPluginOwnerPending
    DefaultTimeout,         \* lease length when the run names none
    YieldDelay,             \* 100 ms, in ticks
    MaxBackoff,             \* one hour, in ticks
    Retention,              \* age at which periodic history is pruned
    PruneBatch              \* periodicRetentionBatch

RunIds == 1 .. MaxRuns
Tokens == 1 .. MaxTokens
Nil == -1
Empty == ""

(* An idempotency key; a schedule's runs are keyed by schedule and slot.   *)
Keys == [name : Text, slot : Int]

(* A submission after prepareSubmission; stored in the run.                *)
Jobs == [owner : Text, key : Keys, handler : Text,
         resource : Text, group : Text, lane : Lanes,
         payload : Text, max : Nat \ {0}, backoff : Nat, timeout : Nat,
         notBefore : Int]

(* The persisted part of a definition: what scheduleDefinitionMatches      *)
(* compares.                                                               *)
Plans == [owner : Text, name : Text, handler : Text,
          resource : Text, group : Text, lane : Lanes,
          revision : Text, interval : Nat \ {0}, timeout : Nat \ {0},
          max : Nat \ {0}, backoff : Nat, policy : {"fire_once", "skip"},
          first : Int, compact : BOOLEAN]

ASSUME BoundsAssumption ==
    /\ MaxRuns \in Nat /\ MaxTokens \in Nat /\ MaxTime \in Nat
    /\ Capacity \in Nat \ {0}
    /\ GroupCapacity \in [Groups -> Nat]
    /\ MaxPending \in Nat /\ MaxPluginPending \in Nat
    /\ MaxPluginOwnerPending \in Nat
    /\ DefaultTimeout \in Nat \ {0} /\ YieldDelay \in Nat \ {0}
    /\ MaxBackoff \in Nat \ {0}
    /\ Retention \in Nat /\ PruneBatch \in Nat \ {0}

ASSUME NamesAssumption ==
    /\ CoreLane \in Lanes
    /\ Empty \in Text
    /\ Empty \notin Workers /\ Empty \notin Groups
    /\ Empty \notin ScheduleIds /\ ScheduleIds \subseteq Text

ASSUME InputsAssumption ==
    /\ Submissions \cup Imports \subseteq Jobs
    /\ Definitions \subseteq [id : ScheduleIds, plan : Plans,
                              immediate : BOOLEAN, reconcile : BOOLEAN,
                              suppress : BOOLEAN]

(* Empty owners are refused (store.go:76, schedules.go:54), and no         *)
(* producer of one-off work uses a key of the form of a schedule's: each   *)
(* prefixes its keys with its own name (requests.go:35 for the plugins).   *)
ASSUME ProducersAssumption ==
    /\ \A in \in Submissions \cup Imports :
          in.owner # Empty /\ in.key.name \notin ScheduleIds
    /\ \A d \in Definitions : d.plan.owner # Empty

VARIABLES
    clock,      \* the shared clock
    lastRun,    \* number of run rows ever created
    lastToken,  \* number of leases ever granted
    runs,       \* job_runs, by id
    attempts,   \* job_attempts, by token
    schedules,  \* job_schedules, by id
    claims      \* the claims handed to workers; settled counts the
                \* completions that were accepted for each (history)

ledgerVars == <<clock, lastRun, lastToken, runs, attempts, schedules, claims>>
vars == <<clock, lastRun, lastToken, runs, attempts, schedules, claims,
          virtualTime, laneFinish>>

-----------------------------------------------------------------------------
MaintenanceResource == "core:maintenance"

Pending  == {"queued", "retry_wait"}
Leased   == {"running", "cancel_requested"}
Unresolved == Pending \cup Leased \cup {"unknown"}
Terminal == {"succeeded", "failed", "yielded", "interrupted", "canceled"}
States   == Unresolved \cup Terminal \cup {"absent"}

NoKey == [name |-> Empty, slot |-> 0]

NoJob == [owner |-> Empty, key |-> NoKey, handler |-> Empty, resource |-> Empty,
          group |-> Empty, lane |-> CoreLane, payload |-> Empty, max |-> 1,
          backoff |-> 0, timeout |-> 0, notBefore |-> Nil]

NoRun == [job |-> NoJob, state |-> "absent", attempts |-> 0,
          notBefore |-> Nil, createdAt |-> Nil, finishedAt |-> Nil,
          token |-> 0, worker |-> Empty, expiresAt |-> Nil,
          schedule |-> Empty, plannedAt |-> Nil]

NoAttempt == [run |-> 0, number |-> 0, worker |-> Empty, state |-> "absent",
              expiresAt |-> Nil, finishedAt |-> Nil]

NoPlan == [owner |-> Empty, name |-> Empty, handler |-> Empty, resource |-> Empty,
           group |-> Empty, lane |-> CoreLane, revision |-> Empty, interval |-> 1,
           timeout |-> 1, max |-> 1, backoff |-> 0, policy |-> "fire_once",
           first |-> Nil, compact |-> FALSE]

NoSchedule == [exists |-> FALSE, plan |-> NoPlan, nextAt |-> Nil, run |-> 0,
               compactRun |-> 0, state |-> Empty, runs |-> 0, failures |-> 0]

NoClaim == [run |-> 0, worker |-> Empty, owner |-> Empty, key |-> NoKey,
            number |-> 0, settled |-> 0]

Init ==
    /\ clock = 0
    /\ lastRun = 0
    /\ lastToken = 0
    /\ runs = [r \in RunIds |-> NoRun]
    /\ attempts = [t \in Tokens |-> NoAttempt]
    /\ schedules = [s \in ScheduleIds |-> NoSchedule]
    /\ claims = [t \in Tokens |-> NoClaim]
    /\ LaneInit

-----------------------------------------------------------------------------
(* Submission and admission                                                *)

PendingRuns == {r \in RunIds : runs[r].state \in Pending}

(* Mutant: the limit is tested after, not before, the insertion.           *)
AdmissionOffByOne(owner, resource) == Cardinality(PendingRuns) <= MaxPending

(* The maintenance resource has one reserved slot; everything else shares  *)
(* MaxPending, plugins within their own limits.                            *)
checkPendingAdmission(owner, resource) ==
    IF resource = MaintenanceResource
    THEN \A r \in PendingRuns : runs[r].job.resource # MaintenanceResource
    ELSE /\ Cardinality(PendingRuns) < MaxPending
         /\ owner \in PluginOwners =>
               /\ Cardinality({r \in PendingRuns : runs[r].job.owner \in PluginOwners})
                     < MaxPluginPending
               /\ Cardinality({r \in PendingRuns : runs[r].job.owner = owner})
                     < MaxPluginOwnerPending

(* Mutant: finished runs do not answer for their key.                      *)
ExistingUnfinished(in) ==
    {r \in RunIds : /\ runs[r].state \in Unresolved
                    /\ runs[r].job.owner = in.owner
                    /\ runs[r].job.key = in.key}

Existing(in) ==
    {r \in RunIds : /\ runs[r].state # "absent"
                    /\ runs[r].job.owner = in.owner
                    /\ runs[r].job.key = in.key}

(* sha256 over the request: every field but the dispatch lane.             *)
Fingerprint(in) == [in EXCEPT !.lane = CoreLane]

(* Mutant: a state name the claim query does not know.                     *)
PendingRun(in, schedule, plannedAt) ==
    [NoRun EXCEPT !.job = in, !.state = "pending", !.notBefore = clock,
                  !.createdAt = clock]

QueuedRun(in, schedule, plannedAt) ==
    [NoRun EXCEPT !.job = in, !.state = "queued",
                  !.notBefore = IF in.notBefore = Nil THEN clock ELSE in.notBefore,
                  !.createdAt = clock,
                  !.schedule = schedule, !.plannedAt = plannedAt]

(* prepareSubmission: only the host may reserve the whole pool.  (The size *)
(* and range checks are met by every member of Jobs.)                      *)
prepareSubmission(in) == in.resource = MaintenanceResource => in.owner = "system"

(* insertSubmissionLocked for an intent that is not in the ledger yet.     *)
Insertable(in) ==
    /\ prepareSubmission(in)
    /\ Existing(in) = {}
    /\ checkPendingAdmission(in.owner, in.resource)
    /\ in.group # Empty => in.group \in Groups /\ GroupCapacity[in.group] > 0
    /\ lastRun < MaxRuns

(* Replaying an accepted submission returns the existing row, whatever its *)
(* state, and a different request under the same key is ErrConflict:       *)
(* neither changes the ledger.                                             *)
Submit(in) ==
    /\ Insertable(in)
    /\ runs' = [runs EXCEPT ![lastRun + 1] = QueuedRun(in, Empty, Nil)]
    /\ lastRun' = lastRun + 1
    /\ UNCHANGED <<clock, lastToken, attempts, schedules, claims, laneVars>>

(* Attach an intent that may already have been executed elsewhere.  The    *)
(* row becomes visible as unknown; it has no attempt and no lease.  (Its   *)
(* created_at is the older table's; nothing orders unknown runs by it.)    *)
ImportUnknown(in) ==
    /\ Insertable(in)
    /\ runs' = [runs EXCEPT ![lastRun + 1] =
                   [QueuedRun(in, Empty, Nil) EXCEPT !.state = "unknown"]]
    /\ lastRun' = lastRun + 1
    /\ UNCHANGED <<clock, lastToken, attempts, schedules, claims, laneVars>>

-----------------------------------------------------------------------------
(* Claim                                                                   *)

(* Mutant: the probe looks for work only.                                  *)
ProbePending(hs) ==
    \E r \in RunIds : /\ runs[r].state \in Pending
                      /\ runs[r].notBefore <= clock
                      /\ runs[r].job.handler \in hs

(* The cheap read outside the transaction.                                 *)
ClaimProbe(hs) ==
    \E r \in RunIds :
       \/ /\ runs[r].state \in Pending
          /\ runs[r].notBefore <= clock
          /\ runs[r].job.handler \in hs
       \/ runs[r].state \in Leased /\ runs[r].expiresAt <= clock

(* Mutant: the attempt of an expired lease is left open.                   *)
AttemptsLeftOpen == attempts

(* The three updates that persist uncertainty about expired leases.        *)
ExpiredAttempts ==
    [t \in Tokens |->
       IF attempts[t].state \in Leased /\ attempts[t].expiresAt <= clock
       THEN [attempts[t] EXCEPT !.state = "unknown", !.finishedAt = clock]
       ELSE attempts[t]]

(* Mutant: an expired lease is put back into the queue.                    *)
RequeuedRuns ==
    [r \in RunIds |->
       IF runs[r].state \in Leased /\ runs[r].expiresAt <= clock
       THEN [runs[r] EXCEPT !.state = "queued"] ELSE runs[r]]

ExpiredRuns ==
    [r \in RunIds |->
       IF runs[r].state \in Leased /\ runs[r].expiresAt <= clock
       THEN [runs[r] EXCEPT !.state = "unknown", !.finishedAt = clock]
       ELSE runs[r]]

ExpiredSchedules ==
    [s \in ScheduleIds |->
       IF /\ schedules[s].state \in Leased
          /\ schedules[s].run \in RunIds
          /\ ExpiredRuns[schedules[s].run].state = "unknown"
       THEN [schedules[s] EXCEPT !.state = "unknown", !.failures = @ + 1]
       ELSE schedules[s]]

LeasedRuns(rs) == {r \in RunIds : rs[r].state \in Leased}

(* Mutant: only waiting maintenance closes the ledger.                     *)
MaintenanceWaiting(rs) ==
    \E r \in RunIds : /\ rs[r].job.resource = MaintenanceResource
                      /\ rs[r].state \in Pending

(* A maintenance run that is not terminal closes the ledger to others, and *)
(* is itself admitted only when nothing runs and nothing is uncertain.     *)
MaintenanceHeld(rs) ==
    \E r \in RunIds : /\ rs[r].job.resource = MaintenanceResource
                      /\ rs[r].state \in Unresolved

(* Mutant: one lease too many.                                             *)
AdmissionOvercommitted(rs) ==
    /\ Cardinality(LeasedRuns(rs)) <= Capacity
    /\ MaintenanceHeld(rs) =>
          /\ LeasedRuns(rs) = {}
          /\ \A r \in RunIds : rs[r].state # "unknown"

AdmissionOpen(rs) ==
    /\ Cardinality(LeasedRuns(rs)) < Capacity
    /\ MaintenanceHeld(rs) =>
          /\ LeasedRuns(rs) = {}
          /\ \A r \in RunIds : rs[r].state # "unknown"

(* Mutant: a run asked to stop gives up its resource.                      *)
ResourceNotRunning(rs, resource) ==
    \A r \in RunIds : rs[r].state = "running" => rs[r].job.resource # resource

ResourceFree(rs, resource) ==
    \A r \in RunIds : rs[r].state \in Leased \cup {"unknown"} =>
                         rs[r].job.resource # resource

GroupFree(rs, group) ==
    /\ group \in Groups
    /\ Cardinality({r \in LeasedRuns(rs) : rs[r].job.group = group})
          < GroupCapacity[group]

(* Mutant: maintenance waits for an idle pool but does not hold back       *)
(* ordinary work.                                                          *)
EligibleBesideMaintenance(rs, hs) ==
    {r \in RunIds :
       /\ rs[r].state \in Pending
       /\ rs[r].notBefore <= clock
       /\ rs[r].job.handler \in hs
       /\ rs[r].job.resource # Empty => ResourceFree(rs, rs[r].job.resource)
       /\ rs[r].job.group # Empty => GroupFree(rs, rs[r].job.group)}

EligibleRuns(rs, hs) ==
    {r \in RunIds :
       /\ MaintenanceHeld(rs) =>
             /\ rs[r].job.resource = MaintenanceResource
             /\ rs[r].job.owner = "system"
       /\ rs[r].state \in Pending
       /\ rs[r].notBefore <= clock
       /\ rs[r].job.handler \in hs
       /\ rs[r].job.resource # Empty => ResourceFree(rs, rs[r].job.resource)
       /\ rs[r].job.group # Empty => GroupFree(rs, rs[r].job.group)}

(* The earliest not_before among the eligible runs of lane l.              *)
OldestOf(rs, eligible, l) ==
    CHOOSE n \in {rs[r].notBefore : r \in {x \in eligible : rs[x].job.lane = l}} :
       \A r \in {x \in eligible : rs[x].job.lane = l} : n <= rs[r].notBefore

(* First in the lane: not_before, then created_at.  Ties are broken by the *)
(* random run id, that is, by nothing.                                     *)
FirstInLane(rs, eligible, r) ==
    \A x \in eligible : rs[x].job.lane = rs[r].job.lane =>
       \/ rs[r].notBefore < rs[x].notBefore
       \/ rs[r].notBefore = rs[x].notBefore /\ rs[r].createdAt <= rs[x].createdAt

(* The run's own timeout, else its schedule's, else the claiming worker's. *)
LeaseTimeout(rs, r) ==
    IF rs[r].job.timeout > 0 THEN rs[r].job.timeout
    ELSE IF rs[r].schedule # Empty THEN schedules[rs[r].schedule].plan.timeout
    ELSE DefaultTimeout

(* Nothing can be leased: expiries are committed all the same.             *)
ClaimEmpty(hs) ==
    /\ ClaimProbe(hs)
    /\ ~ AdmissionOpen(ExpiredRuns) \/ EligibleRuns(ExpiredRuns, hs) = {}
    /\ runs' = ExpiredRuns
    /\ attempts' = ExpiredAttempts
    /\ schedules' = ExpiredSchedules
    /\ UNCHANGED <<clock, lastRun, lastToken, claims, laneVars>>

(* Worker w leases run r, under a fresh token.                             *)
ClaimRun(w, hs, r) ==
    LET eligible == EligibleRuns(ExpiredRuns, hs)
        number   == ExpiredRuns[r].attempts + 1
        expiry   == clock + LeaseTimeout(ExpiredRuns, r)
        token    == lastToken + 1
        s        == ExpiredRuns[r].schedule
    IN
    /\ lastToken < MaxTokens
    /\ ClaimProbe(hs)
    /\ AdmissionOpen(ExpiredRuns)
    /\ r \in eligible
    /\ FirstLane(ExpiredRuns[r].job.lane,
                 {ExpiredRuns[x].job.lane : x \in eligible},
                 LAMBDA l : OldestOf(ExpiredRuns, eligible, l))
    /\ FirstInLane(ExpiredRuns, eligible, r)
    /\ ChargeLane(ExpiredRuns[r].job.lane)
    /\ lastToken' = token
    /\ runs' = [ExpiredRuns EXCEPT ![r] =
                  [@ EXCEPT !.state = "running", !.token = token, !.worker = w,
                            !.expiresAt = expiry, !.attempts = number]]
    /\ attempts' = [ExpiredAttempts EXCEPT ![token] =
                      [run |-> r, number |-> number, worker |-> w,
                       state |-> "running", expiresAt |-> expiry,
                       finishedAt |-> Nil]]
    /\ schedules' = [x \in ScheduleIds |->
                       IF x = s /\ ExpiredSchedules[x].run = r
                       THEN [ExpiredSchedules[x] EXCEPT !.state = "running",
                                                        !.runs = @ + 1]
                       ELSE ExpiredSchedules[x]]
    /\ claims' = [claims EXCEPT ![token] =
                    [run |-> r, worker |-> w, owner |-> ExpiredRuns[r].job.owner,
                     key |-> ExpiredRuns[r].job.key, number |-> number,
                     settled |-> 0]]
    /\ UNCHANGED <<clock, lastRun>>

-----------------------------------------------------------------------------
(* Finish                                                                  *)

Outcomes == {"succeeded", "failed", "unknown", "yielded", "retry_wait", "canceled"}

(* Mutants: the fence without the token, and without the state.            *)
HoldsRun(t) ==
    LET r == claims[t].run IN
    /\ r \in RunIds
    /\ runs[r].worker = claims[t].worker
    /\ runs[r].state \in Leased

HoldsToken(t) ==
    LET r == claims[t].run IN
    /\ r \in RunIds
    /\ runs[r].token = t
    /\ runs[r].worker = claims[t].worker

(* The fence: the lease this claim names is still the current one.         *)
HoldsLease(t) ==
    LET r == claims[t].run IN
    /\ r \in RunIds
    /\ runs[r].token = t
    /\ runs[r].worker = claims[t].worker
    /\ runs[r].state \in Leased

(* Mutants: an attempt beyond the budget; a cancellation that is forgotten *)
(* when the worker answers.                                                *)
OutcomeOffByOne(run, outcome) ==
    LET reported == IF run.expiresAt <= clock THEN "unknown" ELSE outcome IN
    IF run.state = "cancel_requested"
    THEN IF reported \in {"succeeded", "canceled"} THEN reported ELSE "unknown"
    ELSE IF reported = "canceled" THEN "unknown"
    ELSE IF reported = "retry_wait" /\ run.attempts > run.job.max THEN "failed"
    ELSE reported

OutcomeAsReported(run, outcome) ==
    IF run.expiresAt <= clock THEN "unknown"
    ELSE IF outcome = "retry_wait" /\ run.attempts >= run.job.max THEN "failed"
    ELSE outcome

(* The outcome that is recorded when the worker reports outcome.  A lease  *)
(* that ran out, and any answer to a cancellation other than success or a  *)
(* confirmed stop, leaves the external effects uncertain.                  *)
RecordedOutcome(run, outcome) ==
    LET reported == IF run.expiresAt <= clock THEN "unknown" ELSE outcome IN
    IF run.state = "cancel_requested"
    THEN IF reported \in {"succeeded", "canceled"} THEN reported ELSE "unknown"
    ELSE IF reported = "canceled" THEN "unknown"
    ELSE IF reported = "retry_wait" /\ run.attempts >= run.job.max THEN "failed"
    ELSE reported

(* Exponential backoff, one second when none is given, capped at an hour.  *)
RetryDelay(backoff, number) ==
    LET base == IF backoff = 0 THEN 1 ELSE backoff
        full == base * 2 ^ (number - 1)
    IN  IF full \in 1 .. MaxBackoff THEN full ELSE MaxBackoff

(* Any claim ever granted may be presented, any number of times: workers   *)
(* stall, and replies are lost.  A claim that fails the fence gets         *)
(* ErrLeaseLost and changes nothing.                                       *)
Finish(t, outcome) ==
    LET r == claims[t].run
        state == RecordedOutcome(runs[r], outcome)
    IN
    /\ HoldsLease(t)
    /\ runs' = [runs EXCEPT ![r] =
                  IF state = "retry_wait"
                  THEN [@ EXCEPT !.state = state,
                                 !.notBefore = clock + RetryDelay(runs[r].job.backoff,
                                                                  runs[r].attempts),
                                 !.finishedAt = Nil, !.token = 0,
                                 !.worker = Empty, !.expiresAt = Nil]
                  ELSE [@ EXCEPT !.state = state, !.finishedAt = clock]]
    /\ attempts' = [attempts EXCEPT ![t].state = state, ![t].finishedAt = clock]
    /\ schedules' = [s \in ScheduleIds |->
                       IF s = runs[r].schedule /\ schedules[s].run = r
                       THEN [schedules[s] EXCEPT
                               !.state = state,
                               !.failures = IF state \in {"failed", "unknown"}
                                            THEN @ + 1 ELSE @]
                       ELSE schedules[s]]
    /\ claims' = [claims EXCEPT ![t].settled = @ + 1]
    /\ UNCHANGED <<clock, lastRun, lastToken, laneVars>>

-----------------------------------------------------------------------------
(* Cancellation and operator review                                        *)

CanceledState(state) == IF state \in Leased THEN "cancel_requested" ELSE "canceled"

(* Cancel every run of the set rs: pending runs end, leased runs keep      *)
(* their lease and are asked to stop.                                      *)
CancelRuns(rs) ==
    /\ runs' = [r \in RunIds |->
                  IF r \notin rs THEN runs[r]
                  ELSE IF runs[r].state \in Leased
                  THEN [runs[r] EXCEPT !.state = "cancel_requested"]
                  ELSE [runs[r] EXCEPT !.state = "canceled", !.finishedAt = clock]]
    /\ attempts' = [t \in Tokens |->
                      IF /\ attempts[t].state \in Leased
                         /\ \E r \in rs : runs[r].state \in Leased /\ runs[r].token = t
                      THEN [attempts[t] EXCEPT !.state = "cancel_requested"]
                      ELSE attempts[t]]
    /\ schedules' = [s \in ScheduleIds |->
                       IF schedules[s].run \in rs /\ runs[schedules[s].run].schedule = s
                       THEN [schedules[s] EXCEPT
                               !.state = CanceledState(runs[schedules[s].run].state)]
                       ELSE schedules[s]]
    /\ UNCHANGED <<clock, lastRun, lastToken, claims, laneVars>>

(* An administrator cancels one run; a run already asked to stop is left   *)
(* alone and every other state is ErrConflict.                             *)
RecordCancellation(r) ==
    /\ runs[r].state \in Pending \cup {"running"}
    /\ CancelRuns({r})

(* A handler is disabled or replaced.                                      *)
CancelHandler(h) ==
    CancelRuns({r \in RunIds : /\ runs[r].job.handler = h
                               /\ runs[r].state \in Pending \cup Leased})

(* An operator records the verified outcome of an uncertain run.           *)
Resolve(r, state) ==
    /\ runs[r].state = "unknown"
    /\ runs' = [runs EXCEPT ![r].state = state, ![r].finishedAt = clock]
    /\ UNCHANGED <<clock, lastRun, lastToken, attempts, schedules, claims, laneVars>>

-----------------------------------------------------------------------------
(* Periodic schedules                                                      *)

FirstPlannedAt(d) ==
    IF d.plan.first # Nil THEN d.plan.first
    ELSE IF d.immediate THEN clock ELSE clock + d.plan.interval

(* How many slots have come due at next, next + interval, ...              *)
DueSteps(next, interval) == (clock - next) \div interval + 1

(* Overdue slots collapse into the latest one (fire_once); with skip a     *)
(* schedule that missed a slot advances without a run.                     *)
SkipsSlot(row) == row.plan.policy = "skip" /\ DueSteps(row.nextAt, row.plan.interval) > 1

PlannedSlot(row) ==
    row.nextAt + (DueSteps(row.nextAt, row.plan.interval) - 1) * row.plan.interval

NextSlot(row) ==
    row.nextAt + DueSteps(row.nextAt, row.plan.interval) * row.plan.interval

(* The row as the transaction reads it, or creates it.                     *)
ScheduleRow(d) ==
    IF schedules[d.id].exists THEN schedules[d.id]
    ELSE [NoSchedule EXCEPT !.exists = TRUE, !.plan = d.plan,
                            !.nextAt = FirstPlannedAt(d)]

(* A core reconciler may go on after a lost run: the run is interrupted,   *)
(* its attempt keeps the unknown outcome.                                  *)
ReconciledRuns(d) ==
    LET r == ScheduleRow(d).run IN
    IF d.reconcile /\ r # 0 /\ runs[r].state = "unknown"
    THEN [runs EXCEPT ![r].state = "interrupted"]
    ELSE runs

(* The row once its finished run is detached.  A yielded run has more work *)
(* and pulls the next slot close.                                          *)
DetachedRow(d) ==
    LET row == ScheduleRow(d)
        state == ReconciledRuns(d)[row.run].state
    IN
    IF row.run = 0 THEN row
    ELSE [row EXCEPT !.run = 0, !.state = state,
                     !.nextAt = IF state = "yielded" /\ @ > clock + YieldDelay
                                THEN clock + YieldDelay ELSE @]

(* ... and the definition adopted: a changed definition plans afresh and   *)
(* gives up the row it reused.                                             *)
AdoptedRow(d) ==
    LET row == DetachedRow(d) IN
    IF row.plan = d.plan THEN row
    ELSE [row EXCEPT !.plan = d.plan, !.compactRun = 0,
                     !.nextAt = FirstPlannedAt(d)]

(* Periodic work never reserves the pool, and only core reconcilers that   *)
(* may go on after a loss compact their history.                           *)
DefinitionAccepted(d) ==
    /\ d.plan.resource # MaintenanceResource
    /\ d.plan.compact => /\ d.plan.owner = "system"
                         /\ d.reconcile
                         /\ d.plan.group = Empty

(* Mutant: an uncertain run counts as finished.                            *)
ReconcilableAfterLoss(d) ==
    /\ DefinitionAccepted(d)
    /\ schedules[d.id].exists => schedules[d.id].plan.owner = d.plan.owner
    /\ LET r == ScheduleRow(d).run IN
          r # 0 => ReconciledRuns(d)[r].state \in Terminal \cup {"unknown"}

(* The definition may be reconciled: it owns the row, and its last run is  *)
(* over.  Otherwise the transaction is left with nothing written.          *)
Reconcilable(d) ==
    /\ DefinitionAccepted(d)
    /\ schedules[d.id].exists => schedules[d.id].plan.owner = d.plan.owner
    /\ LET r == ScheduleRow(d).run IN
          r # 0 => ReconciledRuns(d)[r].state \in Terminal

Due(d) == AdoptedRow(d).nextAt <= clock /\ ~ d.suppress

ScheduledJob(d) ==
    [owner |-> d.plan.owner, key |-> [name |-> d.id, slot |-> PlannedSlot(AdoptedRow(d))],
     handler |-> d.plan.handler, resource |-> d.plan.resource,
     group |-> d.plan.group, lane |-> d.plan.lane,
     payload |-> d.plan.revision, max |-> d.plan.max,
     backoff |-> d.plan.backoff, timeout |-> d.plan.timeout,
     notBefore |-> Nil]

(* Mutant: the run's state alone decides, not its attempt.                 *)
ReusableByState(d, c) ==
    /\ d.plan.compact
    /\ c # 0
    /\ ReconciledRuns(d)[c].state \in {"succeeded", "yielded"}

(* reusePeriodicSuccess: run c is a clean success of this schedule, one    *)
(* attempt, on record with the very outcome of the run.                    *)
Reusable(d, c) ==
    /\ d.plan.compact
    /\ c # 0
    /\ LET old == ReconciledRuns(d)[c] IN
       /\ old.state \in {"succeeded", "yielded"}
       /\ old.schedule = d.id
       /\ old.job.owner = d.plan.owner
       /\ old.job.handler = d.plan.handler
       /\ old.attempts = 1
       /\ old.finishedAt # Nil
       /\ old.token \in Tokens
       /\ attempts[old.token].run = c
       /\ attempts[old.token].number = 1
       /\ attempts[old.token].state = old.state
       /\ attempts[old.token].finishedAt # Nil

(* No slot is due: the row is refreshed.                                   *)
ScheduleIdle(d) ==
    /\ Reconcilable(d)
    /\ ~ Due(d)
    /\ runs' = ReconciledRuns(d)
    /\ schedules' = [schedules EXCEPT ![d.id] = AdoptedRow(d)]
    /\ UNCHANGED <<clock, lastRun, lastToken, attempts, claims, laneVars>>

(* The due slots were missed and the policy is to skip them.               *)
ScheduleSkip(d) ==
    LET row == AdoptedRow(d) IN
    /\ Reconcilable(d)
    /\ Due(d)
    /\ SkipsSlot(row)
    /\ runs' = ReconciledRuns(d)
    /\ schedules' = [schedules EXCEPT ![d.id] =
                       [row EXCEPT !.nextAt = NextSlot(row)]]
    /\ UNCHANGED <<clock, lastRun, lastToken, attempts, claims, laneVars>>

(* The row after run r was generated for the due slot.                     *)
DispatchedRow(d, r) ==
    LET row == AdoptedRow(d) IN
    [row EXCEPT !.nextAt = NextSlot(row),
                !.run = r,
                !.compactRun = IF d.plan.compact THEN r ELSE @,
                !.state = "queued"]

(* The due slot gets the row of the last clean success: its attempt is     *)
(* deleted and every column of the run is overwritten.                     *)
ScheduleReuse(d) ==
    LET c == AdoptedRow(d).compactRun
        in == ScheduledJob(d)
    IN
    /\ Reconcilable(d)
    /\ Due(d)
    /\ ~ SkipsSlot(AdoptedRow(d))
    /\ Reusable(d, c)
    /\ checkPendingAdmission(in.owner, in.resource)
    /\ Existing(in) \subseteq {c}
    /\ runs' = [ReconciledRuns(d) EXCEPT ![c] = QueuedRun(in, d.id, PlannedSlot(AdoptedRow(d)))]
    /\ attempts' = [attempts EXCEPT ![runs[c].token] = NoAttempt]
    /\ schedules' = [schedules EXCEPT ![d.id] = DispatchedRow(d, c)]
    /\ UNCHANGED <<clock, lastRun, lastToken, claims, laneVars>>

(* The due slot gets a new run.                                            *)
ScheduleInsert(d) ==
    LET in == ScheduledJob(d) IN
    /\ Reconcilable(d)
    /\ Due(d)
    /\ ~ SkipsSlot(AdoptedRow(d))
    /\ ~ Reusable(d, AdoptedRow(d).compactRun)
    /\ Insertable(in)
    /\ runs' = [ReconciledRuns(d) EXCEPT ![lastRun + 1] =
                  QueuedRun(in, d.id, PlannedSlot(AdoptedRow(d)))]
    /\ lastRun' = lastRun + 1
    /\ schedules' = [schedules EXCEPT ![d.id] = DispatchedRow(d, lastRun + 1)]
    /\ UNCHANGED <<clock, lastToken, attempts, claims, laneVars>>

(* The due slot already has its run (the definition was re-planned): the   *)
(* schedule is pointed at it again.                                        *)
ScheduleRebind(d) ==
    /\ Reconcilable(d)
    /\ Due(d)
    /\ ~ SkipsSlot(AdoptedRow(d))
    /\ ~ Reusable(d, AdoptedRow(d).compactRun)
    /\ \E r \in Existing(ScheduledJob(d)) :
          /\ Fingerprint(runs[r].job) = Fingerprint(ScheduledJob(d))
          /\ runs' = ReconciledRuns(d)
          /\ schedules' = [schedules EXCEPT ![d.id] = DispatchedRow(d, r)]
    /\ UNCHANGED <<clock, lastRun, lastToken, attempts, claims, laneVars>>

Schedule(d) ==
    \/ ScheduleIdle(d)
    \/ ScheduleSkip(d)
    \/ ScheduleReuse(d)
    \/ ScheduleInsert(d)
    \/ ScheduleRebind(d)

-----------------------------------------------------------------------------
(* Retention                                                               *)

PrunableStates == {"succeeded", "yielded", "failed", "canceled"}

(* Mutant: the row kept for reuse is not protected.                        *)
UnboundCandidates(state) ==
    {r \in RunIds :
       /\ runs[r].schedule # Empty
       /\ runs[r].state = state
       /\ runs[r].finishedAt < clock - Retention
       /\ \A s \in ScheduleIds : schedules[s].run # r}

PeriodicCandidates(state) ==
    {r \in RunIds :
       /\ runs[r].schedule # Empty
       /\ runs[r].state = state
       /\ runs[r].finishedAt # Nil
       /\ runs[r].finishedAt < clock - Retention
       /\ \A s \in ScheduleIds : schedules[s].run # r /\ schedules[s].compactRun # r}

AttemptsOf(rs) == {t \in Tokens : attempts[t].state # "absent" /\ attempts[t].run \in rs}

IsBatchOf(batch, all) ==
    /\ batch \subseteq all
    /\ Cardinality(batch) <= PruneBatch
    /\ batch # all => Cardinality(batch) = PruneBatch

(* Candidates in one state are listed, oldest first, outside the           *)
(* transaction; those that still qualify inside it are the ids, so any     *)
(* part of a batch may remain.  The transaction deletes a batch of their   *)
(* attempts and the runs that are left without attempts.                   *)
Prune(state) ==
    \E ids \in SUBSET PeriodicCandidates(state) :
    \E tokens \in SUBSET AttemptsOf(ids) :
       /\ ids # {}
       /\ Cardinality(ids) <= PruneBatch
       /\ IsBatchOf(tokens, AttemptsOf(ids))
       /\ attempts' = [t \in Tokens |-> IF t \in tokens THEN NoAttempt ELSE attempts[t]]
       /\ runs' = [r \in RunIds |->
                     IF /\ r \in ids
                        /\ \A t \in AttemptsOf(ids) \ tokens : attempts[t].run # r
                     THEN NoRun ELSE runs[r]]
       /\ UNCHANGED <<clock, lastRun, lastToken, schedules, claims, laneVars>>

-----------------------------------------------------------------------------
Tick ==
    /\ clock < MaxTime
    /\ clock' = clock + 1
    /\ UNCHANGED <<lastRun, lastToken, runs, attempts, schedules, claims, laneVars>>

Handlers == UNION HandlerSets

Next ==
    \/ \E in \in Submissions : Submit(in)
    \/ \E in \in Imports : ImportUnknown(in)
    \/ \E hs \in HandlerSets : ClaimEmpty(hs)
    \/ \E w \in Workers, hs \in HandlerSets, r \in RunIds : ClaimRun(w, hs, r)
    \/ \E t \in Tokens, outcome \in Outcomes : Finish(t, outcome)
    \/ \E r \in RunIds : RecordCancellation(r)
    \/ \E h \in Handlers : CancelHandler(h)
    \/ \E r \in RunIds, state \in {"succeeded", "failed"} : Resolve(r, state)
    \/ \E d \in Definitions : Schedule(d)
    \/ \E state \in PrunableStates : Prune(state)
    \/ Tick

Spec == Init /\ [][Next]_vars
(* Workers poll for work and the clock runs: Runtime.work claims in a loop *)
(* with a bounded pause.  Completions, submissions, cancellations and      *)
(* schedule reconciliation are not assumed to happen.                      *)
Fairness ==
    /\ WF_vars(Tick)
    /\ \A hs \in HandlerSets :
          WF_vars(ClaimEmpty(hs) \/ \E w \in Workers, r \in RunIds : ClaimRun(w, hs, r))

FairSpec == Spec /\ Fairness

-----------------------------------------------------------------------------
(* Properties                                                              *)

RunRows == [job : Jobs, state : States, attempts : Nat, notBefore : Int,
            createdAt : Int, finishedAt : Int, token : 0 .. MaxTokens,
            worker : Workers \cup {Empty}, expiresAt : Int,
            schedule : ScheduleIds \cup {Empty}, plannedAt : Int]

AttemptRows == [run : 0 .. MaxRuns, number : Nat, worker : Workers \cup {Empty},
                state : States, expiresAt : Int, finishedAt : Int]

ScheduleRows == [exists : BOOLEAN, plan : Plans, nextAt : Int,
                 run : 0 .. MaxRuns, compactRun : 0 .. MaxRuns,
                 state : States \cup {Empty}, runs : Nat, failures : Nat]

Claims == [run : 0 .. MaxRuns, worker : Workers \cup {Empty}, owner : Text,
           key : Keys, number : Nat, settled : Nat]

TypeOK ==
    /\ clock \in 0 .. MaxTime
    /\ lastRun \in 0 .. MaxRuns
    /\ lastToken \in 0 .. MaxTokens
    /\ runs \in [RunIds -> RunRows]
    /\ attempts \in [Tokens -> AttemptRows]
    /\ schedules \in [ScheduleIds -> ScheduleRows]
    /\ claims \in [Tokens -> Claims]
    /\ LaneTypeOK

(* Two leases never hold the same resource, although a lease can run out,  *)
(* be cancelled or be retried between the steps of two workers             *)
(* (store.go:254).                                                         *)
ResourceExclusive ==
    \A r, x \in LeasedRuns(runs) :
       r # x /\ runs[r].job.resource # Empty => runs[r].job.resource # runs[x].job.resource

(* The budget and the execution groups are never overcommitted             *)
(* (store.go:224, :249).                                                   *)
CapacityRespected ==
    /\ Cardinality(LeasedRuns(runs)) <= Capacity
    /\ \A g \in Groups :
          Cardinality({r \in LeasedRuns(runs) : runs[r].job.group = g}) <= GroupCapacity[g]

(* A maintenance run executes alone (store.go:232-241, :252).              *)
MaintenanceExclusive ==
    \A r, x \in LeasedRuns(runs) :
       runs[r].job.resource = MaintenanceResource => x = r

(* The run row and the attempt row of a lease tell the same story: a       *)
(* leased run has exactly one open attempt, its own, in the same state and *)
(* with the same expiry, and no open attempt is without its run            *)
(* (store.go:211-216, :291-300, :421).                                     *)
LeaseEvidence ==
    /\ \A r \in LeasedRuns(runs) :
          LET t == runs[r].token IN
          /\ t \in Tokens
          /\ attempts[t].run = r
          /\ attempts[t].state = runs[r].state
          /\ attempts[t].number = runs[r].attempts
          /\ attempts[t].worker = runs[r].worker
          /\ attempts[t].expiresAt = runs[r].expiresAt
    /\ \A t \in Tokens : attempts[t].state \in Leased =>
          /\ attempts[t].run \in LeasedRuns(runs)
          /\ runs[attempts[t].run].token = t

(* A lease is settled at most once: however late or often a worker reports,*)
(* a completion under an old token never touches a run that was retried or *)
(* whose row was reused for a later slot (store.go:376, compact.go:9-11).  *)
SettledOnce == \A t \in Tokens : claims[t].settled <= 1

(* No run is leased more often than its submission allows, through         *)
(* retries, their backoff, expiries and cancellations: the claim counts    *)
(* an attempt but checks no limit, it relies on every transaction that     *)
(* puts a run back into the queue (store.go:291-300, :398).                *)
AttemptBudget == \A r \in RunIds : runs[r].attempts <= runs[r].job.max

(* An attempt whose outcome was lost is the last one of its intent: it is  *)
(* never replayed, not even after an operator declared it a success or the *)
(* schedule went on (history.go:48, compact.go:9-11, schedules.go:107).    *)
LostAttemptIsLast ==
    \A t, u \in Tokens :
       /\ attempts[t].state = "unknown"
       /\ u > t
       => ~ (claims[u].owner = claims[t].owner /\ claims[u].key = claims[t].key)

(* No two leases start the same attempt of the same intent, across         *)
(* retries, re-planned definitions, reused rows and pruned history: every  *)
(* intent, and so every planned slot, is executed at most once per         *)
(* attempt number (schedules.go:16, store.go:110-116).                     *)
AttemptStartedOnce ==
    \A t, u \in 1 .. lastToken :
       /\ t # u
       /\ claims[t].owner = claims[u].owner
       /\ claims[t].key = claims[u].key
       => claims[t].number # claims[u].number

(* A schedule has at most one unresolved run, the one it points at, and    *)
(* its references survive retention and compaction (schedules.go:102-121,  *)
(* retention.go:26-30).                                                    *)
ScheduleSingleFlight ==
    \A s \in ScheduleIds :
       /\ schedules[s].run # 0 => runs[schedules[s].run].schedule = s
       /\ schedules[s].compactRun # 0 => runs[schedules[s].compactRun].schedule = s
       /\ \A r \in RunIds :
             runs[r].schedule = s /\ runs[r].state \in Unresolved => schedules[s].run = r

(* The failure counter of a schedule counts a lease at most once, whether  *)
(* the loss is noticed by the worker or by a later claim (store.go:217,    *)
(* :414).                                                                  *)
FailuresCounted == \A s \in ScheduleIds : schedules[s].failures <= schedules[s].runs

(* Admission limits the work that can pile up even though retries return   *)
(* to the queue unchecked: unfinished ordinary runs never exceed           *)
(* MaxPending plus the budget, and maintenance never exceeds one leased    *)
(* and one queued run (admission.go:29, :21, store.go:402).                *)
BacklogBounded ==
    LET open == {r \in RunIds : runs[r].state \in Pending \cup Leased}
        maintenance == {r \in open : runs[r].job.resource = MaintenanceResource}
    IN  /\ Cardinality(open \ maintenance) <= MaxPending + Capacity
        /\ Cardinality(maintenance) <= 2

(* What may become of a run.  In particular an uncertain run leaves that   *)
(* state only by an operator's verdict or by its reconciler, a run asked   *)
(* to stop never goes back to the queue, and only a clean success of a     *)
(* compacting schedule is revived, for a later slot.                       *)
RunLifecycle ==
    [][\A r \in RunIds :
         LET from == runs[r].state
             to == runs'[r].state
         IN  \/ from = to
             \/ from = "absent" /\ to \in {"queued", "unknown"}
             \/ from \in Pending /\ to \in {"running", "canceled"}
             \/ from = "running" /\ to \notin {"queued", "canceled", "interrupted", "absent"}
             \/ from = "cancel_requested" /\ to \in {"succeeded", "canceled", "unknown"}
             \/ from = "unknown" /\ to \in {"succeeded", "failed", "interrupted"}
             \/ /\ from \in {"succeeded", "yielded"} /\ to = "queued"
                /\ runs'[r].plannedAt > runs[r].plannedAt
             \/ from \in PrunableStates /\ to = "absent"]_vars

(* Evidence survives: the attempts of a run that is unknown or was         *)
(* interrupted are never deleted, and a run's row is reused only over a    *)
(* single attempt that itself succeeded, never over one whose outcome was  *)
(* lost and later resolved (retention.go:14-15, compact.go:9-11).          *)
EvidenceKept ==
    [][\A t \in Tokens :
         /\ attempts[t].state # "absent"
         /\ attempts'[t].state = "absent"
         => LET r == attempts[t].run IN
            /\ runs[r].state \in PrunableStates
            /\ runs'[r].state = "queued" =>
                  /\ attempts[t].state \in {"succeeded", "yielded"}
                  /\ runs[r].attempts = 1]_vars

(* Cadence: the slots of an anchored schedule stay on its grid.  The code  *)
(* does not keep this for a run that yields (README, observations).        *)
CadenceAnchored ==
    \A s \in ScheduleIds :
       schedules[s].exists /\ schedules[s].plan.first # Nil =>
          (schedules[s].nextAt - schedules[s].plan.first) % schedules[s].plan.interval = 0

(* A lease does not stay open past its expiry for ever: the worker's       *)
(* completion or a later claim closes it (store.go:210-219).               *)
LeaseSettles ==
    \A r \in RunIds, t \in Tokens :
       (runs[r].token = t /\ runs[r].state \in Leased /\ runs[r].expiresAt <= MaxTime)
          ~> ~ (runs[r].token = t /\ runs[r].state \in Leased)

(* Host maintenance is not starved: once it is queued, and some lease is   *)
(* still to be granted, it is leased (or cancelled) before the ordinary    *)
(* work that is admitted beside it uses up the leases, unless an uncertain *)
(* run waits for an operator, or some lease is held until after the        *)
(* explored time (store.go:228-241, :252, admission.go:12-13).             *)
MaintenanceReached ==
    LET waits == \E r \in RunIds : /\ runs[r].state = "queued"
                                   /\ runs[r].job.resource = MaintenanceResource
    IN  waits /\ lastToken < MaxTokens
           ~> \/ ~ waits
              \/ \E r \in RunIds : runs[r].state = "unknown"
              \/ [](\E r \in LeasedRuns(runs) : runs[r].expiresAt > MaxTime)
=============================================================================
