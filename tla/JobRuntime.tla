----------------------------- MODULE JobRuntime -----------------------------
(***************************************************************************)
(* The job runtime of one process (capabilities/jobs): the table of        *)
(* registered handlers, the pool of workers that claim and execute runs,   *)
(* the scheduler loop, and the calls that administrators and plugins make  *)
(* on it.  A critical section of r.mu is one step.  claimMu and the        *)
(* scheduling mutex of a registration are held across database calls and   *)
(* are state.  The durable store is reduced to the runs it keeps; the      *)
(* transactions themselves are the subject of JobLedger.                   *)
(***************************************************************************)
EXTENDS Naturals, FiniteSets

CONSTANTS
    Ids,                \* names of definitions
    MaintenanceIds,     \* those registered with RegisterMaintenance
    Revisions,          \* revisions a definition may have
    Workers,            \* the goroutines of the pool
    Callers,            \* goroutines that call the runtime from outside
    HandlerResults,     \* what the handlers may return
    MaxRegs,            \* bound: registrations
    MaxRuns,            \* bound: runs submitted
    MaxAttempts,        \* attempts a run may have
    MaxCalls            \* bound: calls from outside

(* Ways for a handler to end; a panic is as uncertain as ErrUncertain.     *)
Outcomes == {"ok", "continue", "retry", "canceled", "uncertain", "failed"}

ASSUME RuntimeAssumption ==
    /\ HandlerResults \subseteq Outcomes
    /\ MaintenanceIds \subseteq Ids
    /\ Ids # {} /\ Revisions # {}
    /\ {MaxRegs, MaxRuns, MaxCalls} \subseteq Nat
    /\ MaxAttempts \in Nat \ {0}

(* The goroutines that may own a mutex are told apart.                     *)
ASSUME GoroutineAssumption ==
    /\ Workers \cap Callers = {}
    /\ (Workers \cup Callers) \cap {"loop", "nobody"} = {}

VARIABLES
    entries,    \* r.entries: the registration of each id, 0 for none
    regs,       \* registrations ever made
    lastReg,
    claimMu,    \* the workers in possession of r.claimMu
    closed,     \* r.ctx is canceled
    draining,   \* r.draining
    drained,    \* r.drained is closed
    ready, paused,  \* answers of the host's two gates
    loop,       \* the scheduler loop
    work,       \* the workers
    calls,      \* the callers
    callCount,
    runs,       \* the durable runs
    lastRun,
    retired,    \* history: registrations whose Remove or Detach returned
    revoked     \* history: registrations whose CancelHandler committed

table == <<entries, regs, lastReg>>
processVars == <<claimMu, closed, draining, drained>>
gates == <<ready, paused>>
callers == <<calls, callCount>>
storeVars == <<runs, lastRun>>
history == <<retired, revoked>>
vars == <<table, processVars, gates, loop, work, callers, storeVars, history>>

RegIds == 1..MaxRegs
RunIds == 1..MaxRuns
Nobody == "nobody"

Pending == {"queued", "retry_wait"}
Leased == {"running", "cancel_requested"}
Ended == {"succeeded", "failed", "unknown", "yielded", "canceled"}

NoReg == [id |-> CHOOSE i \in Ids : TRUE, revision |-> CHOOSE v \in Revisions : TRUE,
          canceled |-> FALSE, scheduling |-> Nobody]
NoRun == [id |-> CHOOSE i \in Ids : TRUE, revision |-> CHOOSE v \in Revisions : TRUE,
          state |-> "none", by |-> 0, attempts |-> 0]
Idle == [pc |-> "idle", seen |-> [i \in Ids |-> 0], live |-> {}, run |-> 0, reg |-> 0,
         ctx |-> "live", outcome |-> "none", target |-> 0]
NoCall == [op |-> "none", pc |-> "none", id |-> CHOOSE i \in Ids : TRUE, reg |-> 0, run |-> 0]

Init ==
    /\ entries = [i \in Ids |-> 0]
    /\ regs = [e \in RegIds |-> NoReg]
    /\ lastReg = 0
    /\ claimMu = Nobody
    /\ closed = FALSE /\ draining = FALSE /\ drained = FALSE
    /\ ready = FALSE /\ paused = FALSE
    /\ loop = [pc |-> "off", todo |-> {}, reg |-> 0]
    /\ work = [w \in Workers |-> [Idle EXCEPT !.pc = "off"]]
    /\ calls = [c \in Callers |-> NoCall]
    /\ callCount = 0
    /\ runs = [r \in RunIds |-> NoRun]
    /\ lastRun = 0
    /\ retired = {} /\ revoked = {}

-----------------------------------------------------------------------------
(* Contexts.  A registration's context is a child of the runtime's, the    *)
(* context of a run too; the context of a handler call is a child of the   *)
(* run's and is also canceled with the registration (context.AfterFunc).   *)
(* ctx says which of a worker's own two contexts has been canceled: none,  *)
(* that of the call, or that of the run and with it the call's.            *)

EntryDone(e) == closed \/ regs[e].canceled
RunDone(w) == closed \/ work[w].ctx = "run"
CallDone(w) == closed \/ work[w].ctx # "live" \/ EntryDone(work[w].reg)

(* The cancel function of the call's context.                              *)
CallCanceled(w) == IF work[w].ctx = "live" THEN [work[w] EXCEPT !.ctx = "call"] ELSE work[w]

(* Workers inside the handler of registration e: its WaitGroup active.     *)
InHandler == {"entered", "running", "request", "requesting"}
Active(e) == {w \in Workers : work[w].pc \in InHandler /\ work[w].reg = e}

(* Workers whose run is in the map r.active.                               *)
Interruptible == {w \in Workers : work[w].pc \in InHandler \ {"entered"}}

Halted(w) == work[w].pc \in {"off", "exit"}

(* The WaitGroup r.done: the loop, which waits for its workers.            *)
Done == loop.pc \in {"off", "exit"} /\ \A w \in Workers : Halted(w)

(* A maintenance pause interrupts what is not maintenance.                 *)
Interrupted ==
    [w \in Workers |->
       IF w \in Interruptible /\ regs[work[w].reg].id \notin MaintenanceIds
       THEN CallCanceled(w) ELSE work[w]]

-----------------------------------------------------------------------------
(* The durable store, as the runtime uses it                               *)

NewRun(id, revision, by) ==
    [NoRun EXCEPT !.id = id, !.revision = revision, !.state = "queued", !.by = by]

(* A committed Schedule or Submit.  Whether the transaction finds a reason *)
(* to insert nothing is the store's affair.                                *)
Inserted(id, revision, by) ==
    \/ UNCHANGED storeVars
    \/ /\ lastRun < MaxRuns
       /\ lastRun' = lastRun + 1
       /\ runs' = [runs EXCEPT ![lastRun + 1] = NewRun(id, revision, by)]

CancelHandler(id) ==
    [r \in RunIds |->
       IF runs[r].id # id THEN runs[r]
       ELSE IF runs[r].state \in Pending THEN [runs[r] EXCEPT !.state = "canceled"]
       ELSE IF runs[r].state = "running" THEN [runs[r] EXCEPT !.state = "cancel_requested"]
       ELSE runs[r]]

(* Mutant: one attempt too many.                                           *)
RecordedOffByOne(r, state) ==
    IF runs[r].state = "cancel_requested"
    THEN IF state \in {"succeeded", "canceled"} THEN state ELSE "unknown"
    ELSE IF state = "canceled" THEN "unknown"
    ELSE IF state = "retry_wait" /\ runs[r].attempts > MaxAttempts THEN "failed"
    ELSE state

(* What Finish records for the state the executor reports.                 *)
Recorded(r, state) ==
    IF runs[r].state = "cancel_requested"
    THEN IF state \in {"succeeded", "canceled"} THEN state ELSE "unknown"
    ELSE IF state = "canceled" THEN "unknown"
    ELSE IF state = "retry_wait" /\ runs[r].attempts >= MaxAttempts THEN "failed"
    ELSE state

(* Other producers, and processes with other registrations, submit too;    *)
(* one that runs another release submits a foreign revision.               *)
Foreign == "foreign"

Submit(id, revision) ==
    /\ lastRun < MaxRuns
    /\ lastRun' = lastRun + 1
    /\ runs' = [runs EXCEPT ![lastRun + 1] = NewRun(id, revision, 0)]
    /\ UNCHANGED <<table, processVars, gates, loop, work, callers, history>>

(* A lease nobody is going to finish runs out.                             *)
Expire(r) ==
    /\ runs[r].state \in Leased
    /\ \A w \in Workers : work[w].run # r
    /\ runs' = [runs EXCEPT ![r].state = "unknown"]
    /\ UNCHANGED <<table, processVars, gates, loop, work, callers, lastRun, history>>

-----------------------------------------------------------------------------
(* Workers: Runtime.work, runtimeExecutionStore.Claim, Executor.runOne     *)

Stays(w, worker) == work' = [work EXCEPT ![w] = worker]

(* Draining or closing ends a worker between two rounds.                   *)
WorkerExits(w) ==
    /\ work[w].pc = "idle"
    /\ draining \/ closed
    /\ Stays(w, [Idle EXCEPT !.pc = "exit"])
    /\ UNCHANGED <<table, processVars, gates, loop, callers, storeVars, history>>

Selected ==
    [i \in Ids |->
       IF /\ entries[i] # 0
          /\ ~ EntryDone(entries[i])
          /\ paused => i \in MaintenanceIds
       THEN entries[i] ELSE 0]

(* One round: the pause is enforced and the handlers to claim for are      *)
(* taken down.  r.draining was read at the top of the loop.                *)
WorkerSelects(w) ==
    /\ work[w].pc = "idle"
    /\ ready
    /\ LET all == IF paused THEN Interrupted ELSE work IN
       work' = IF \E i \in Ids : Selected[i] # 0
               THEN [all EXCEPT ![w] = [Idle EXCEPT !.pc = "claim", !.seen = Selected]]
               ELSE all
    /\ UNCHANGED <<table, processVars, gates, loop, callers, storeVars, history>>

(* Claim takes claimMu; a draining runtime admits nothing.                 *)
ClaimEnter(w) ==
    /\ work[w].pc = "claim"
    /\ claimMu = Nobody
    /\ IF draining
       THEN Stays(w, Idle) /\ UNCHANGED claimMu
       ELSE claimMu' = w /\ Stays(w, [work[w] EXCEPT !.pc = "admit"])
    /\ UNCHANGED <<table, closed, draining, drained, gates, loop, callers, storeVars, history>>

(* The handlers of the snapshot whose registration is still the current    *)
(* one and is not canceled.                                                *)
Live(w) ==
    {i \in Ids : /\ work[w].seen[i] # 0
                 /\ entries[i] = work[w].seen[i]
                 /\ ~ EntryDone(entries[i])}

ClaimRecheck(w) ==
    /\ work[w].pc = "admit"
    /\ IF Live(w) = {}
       THEN claimMu' = Nobody /\ Stays(w, Idle)
       ELSE Stays(w, [work[w] EXCEPT !.pc = "lease", !.live = Live(w)]) /\ UNCHANGED claimMu
    /\ UNCHANGED <<table, closed, draining, drained, gates, loop, callers, storeVars, history>>

(* Nothing to claim, an error of the store, or another worker's probe was  *)
(* empty less than a second ago (emptyUntil).                              *)
ClaimEmpty(w) ==
    /\ work[w].pc = "lease"
    /\ claimMu' = Nobody
    /\ Stays(w, Idle)
    /\ UNCHANGED <<table, closed, draining, drained, gates, loop, callers, storeVars, history>>

ClaimRun(w, r) ==
    /\ work[w].pc = "lease"
    /\ runs[r].state \in Pending
    /\ runs[r].id \in work[w].live
    /\ runs' = [runs EXCEPT ![r].state = "running", ![r].attempts = @ + 1]
    /\ claimMu' = Nobody
    /\ Stays(w, [Idle EXCEPT !.pc = "start", !.run = r, !.reg = work[w].seen[runs[r].id]])
    /\ UNCHANGED <<table, closed, draining, drained, gates, loop, callers, lastRun, history>>

(* Mutant: the registration's context is not looked at.                    *)
RefusalUnfenced(w) ==
    LET e == work[w].reg IN
    IF ~ ready \/ (paused /\ regs[e].id \notin MaintenanceIds) THEN "context"
    ELSE IF runs[work[w].run].revision # regs[e].revision THEN "failed"
    ELSE "none"

(* The wrapper around the handler.  Before it counts itself active it may  *)
(* turn the run down: the gates are looked at afresh, the revision must be *)
(* the registration's, and a canceled registration starts nothing.         *)
Refusal(w) ==
    LET e == work[w].reg IN
    IF ~ ready \/ (paused /\ regs[e].id \notin MaintenanceIds) THEN "context"
    ELSE IF runs[work[w].run].revision # regs[e].revision THEN "failed"
    ELSE IF EntryDone(e) THEN "context"
    ELSE "none"

HandlerEnters(w) ==
    /\ work[w].pc = "start"
    /\ IF Refusal(w) = "none"
       THEN Stays(w, [work[w] EXCEPT !.pc = "entered"])
       ELSE Stays(w, [work[w] EXCEPT !.pc = "finish", !.outcome = Refusal(w)])
    /\ UNCHANGED <<table, processVars, gates, loop, callers, storeVars, history>>

(* A second critical section puts the run into r.active, then the handler  *)
(* is called.                                                              *)
HandlerRuns(w) ==
    /\ work[w].pc = "entered"
    /\ Stays(w, [work[w] EXCEPT !.pc = "running"])
    /\ UNCHANGED <<table, processVars, gates, loop, callers, storeVars, history>>

(* A handler blames its context only when that is done.                    *)
HandlerReturns(w, outcome) ==
    /\ work[w].pc = "running"
    /\ outcome \in HandlerResults \/ (outcome = "context" /\ CallDone(w))
    /\ Stays(w, [work[w] EXCEPT !.pc = "finish", !.outcome = outcome,
                               !.ctx = IF @ = "run" THEN "run" ELSE "live"])
    /\ UNCHANGED <<table, processVars, gates, loop, callers, storeVars, history>>

(* The state runOne reports.                                               *)
Classified(outcome, done) ==
    IF outcome = "canceled" THEN "canceled"
    ELSE IF done \/ outcome \in {"uncertain", "context"} THEN "unknown"
    ELSE CASE outcome = "retry" -> "retry_wait"
           [] outcome = "continue" -> "yielded"
           [] outcome = "ok" -> "succeeded"
           [] OTHER -> "failed"

(* Finish commits, or fails and leaves the lease to its expiry.  Then the  *)
(* schedule of the run is looked up, to be checked at once.                *)
Finish(w) ==
    LET r == work[w].run
        e == entries[runs[r].id] IN
    /\ work[w].pc = "finish"
    /\ \/ runs' = [runs EXCEPT ![r].state =
                      Recorded(r, Classified(work[w].outcome, RunDone(w)))]
       \/ UNCHANGED runs
    /\ Stays(w, IF e = 0 \/ runs[r].id \in MaintenanceIds THEN Idle
                ELSE [Idle EXCEPT !.pc = "reconcile", !.target = e])
    /\ UNCHANGED <<table, processVars, gates, loop, callers, lastRun, history>>

(* nextCheck is reset under the scheduling mutex of what was looked up.    *)
ReconcileSchedule(w) ==
    /\ work[w].pc = "reconcile"
    /\ regs[work[w].target].scheduling = Nobody
    /\ Stays(w, Idle)
    /\ UNCHANGED <<table, processVars, gates, loop, callers, storeVars, history>>

(* The deadline of the lease, the timeout of the definition, and the poll  *)
(* that notices a cancellation recorded in the store.                      *)
InRun == InHandler \cup {"start", "finish"}

Deadline(w) ==
    /\ work[w].pc \in InRun
    /\ work[w].ctx # "run"
    /\ Stays(w, [work[w] EXCEPT !.ctx = "run"])
    /\ UNCHANGED <<table, processVars, gates, loop, callers, storeVars, history>>

Timeout(w) ==
    /\ work[w].pc \in InHandler
    /\ work[w].ctx = "live"
    /\ Stays(w, CallCanceled(w))
    /\ UNCHANGED <<table, processVars, gates, loop, callers, storeVars, history>>

(* Mutant: the poll ends when the handler starts.                          *)
PollUntilHandler(w) ==
    /\ work[w].pc = "start"
    /\ work[w].ctx # "run"
    /\ runs[work[w].run].state = "cancel_requested"
    /\ Stays(w, [work[w] EXCEPT !.ctx = "run"])
    /\ UNCHANGED <<table, processVars, gates, loop, callers, storeVars, history>>

PollCancellation(w) ==
    /\ work[w].pc \in InRun
    /\ work[w].ctx # "run"
    /\ runs[work[w].run].state = "cancel_requested"
    /\ Stays(w, [work[w] EXCEPT !.ctx = "run"])
    /\ UNCHANGED <<table, processVars, gates, loop, callers, storeVars, history>>

-----------------------------------------------------------------------------
(* RequestRegistered, called by a handler for a definition of its own      *)
(* owner: look up, take the scheduling mutex, look at the context, submit. *)

RequestLookup(w, id) ==
    /\ work[w].pc = "running"
    /\ id \notin MaintenanceIds
    /\ entries[id] # 0
    /\ regs[entries[id]].revision = regs[work[w].reg].revision
    /\ Stays(w, [work[w] EXCEPT !.pc = "request", !.target = entries[id]])
    /\ UNCHANGED <<table, processVars, gates, loop, callers, storeVars, history>>

RequestLock(w) ==
    LET e == work[w].target IN
    /\ work[w].pc = "request"
    /\ regs[e].scheduling = Nobody
    /\ IF EntryDone(e)
       THEN Stays(w, [work[w] EXCEPT !.pc = "running", !.target = 0]) /\ UNCHANGED regs
       ELSE /\ regs' = [regs EXCEPT ![e].scheduling = w]
            /\ Stays(w, [work[w] EXCEPT !.pc = "requesting"])
    /\ UNCHANGED <<entries, lastReg, processVars, gates, loop, callers, storeVars, history>>

RequestSubmit(w) ==
    LET e == work[w].target IN
    /\ work[w].pc = "requesting"
    /\ Inserted(regs[e].id, regs[e].revision, e)
    /\ regs' = [regs EXCEPT ![e].scheduling = Nobody]
    /\ Stays(w, [work[w] EXCEPT !.pc = "running", !.target = 0])
    /\ UNCHANGED <<entries, lastReg, processVars, gates, loop, callers, history>>

-----------------------------------------------------------------------------
(* Runtime.loop                                                            *)

Remaining(todo) ==
    IF todo = {} THEN [pc |-> "wait", todo |-> {}, reg |-> 0]
    ELSE [pc |-> "each", todo |-> todo, reg |-> 0]

LoopExits ==
    /\ loop.pc = "wait"
    /\ draining \/ closed
    /\ loop' = [loop EXCEPT !.pc = "exit"]
    /\ UNCHANGED <<table, processVars, gates, work, callers, storeVars, history>>

(* Mutant: a paused tick does nothing.                                     *)
LoopTickIdle ==
    /\ loop.pc = "wait"
    /\ ready
    /\ loop' = IF paused THEN loop
               ELSE Remaining({e \in RegIds : entries[regs[e].id] = e})
    /\ UNCHANGED <<table, processVars, gates, work, callers, storeVars, history>>

(* A tick enforces the pause, or takes down the registrations to visit.    *)
LoopTick ==
    /\ loop.pc = "wait"
    /\ ready
    /\ work' = IF paused THEN Interrupted ELSE work
    /\ loop' = IF paused THEN loop
               ELSE Remaining({e \in RegIds : entries[regs[e].id] = e})
    /\ UNCHANGED <<table, processVars, gates, callers, storeVars, history>>

(* Mutant: the context of the registration is not looked at.               *)
SchedulesAny(e) == ~ draining /\ regs[e].id \notin MaintenanceIds

(* A maintenance definition has no interval.                               *)
Schedules(e) == ~ draining /\ ~ EntryDone(e) /\ regs[e].id \notin MaintenanceIds

LoopLock(e) ==
    /\ loop.pc = "each"
    /\ e \in loop.todo
    /\ regs[e].scheduling = Nobody
    /\ IF Schedules(e)
       THEN /\ regs' = [regs EXCEPT ![e].scheduling = "loop"]
            /\ loop' = [loop EXCEPT !.pc = "schedule", !.reg = e]
       ELSE loop' = Remaining(loop.todo \ {e}) /\ UNCHANGED regs
    /\ UNCHANGED <<entries, lastReg, processVars, gates, work, callers, storeVars, history>>

LoopSchedule ==
    LET e == loop.reg IN
    /\ loop.pc = "schedule"
    /\ Inserted(regs[e].id, regs[e].revision, e)
    /\ regs' = [regs EXCEPT ![e].scheduling = Nobody]
    /\ loop' = IF lastRun' = lastRun THEN Remaining(loop.todo \ {e})
               ELSE [pc |-> "wake", todo |-> loop.todo \ {e}, reg |-> 0]
    /\ UNCHANGED <<entries, lastReg, processVars, gates, work, callers, history>>

(* wakeWorkers resets emptyUntil under claimMu, unless draining.           *)
LoopWake ==
    /\ loop.pc = "wake"
    /\ draining \/ claimMu = Nobody
    /\ loop' = Remaining(loop.todo)
    /\ UNCHANGED <<table, processVars, gates, work, callers, storeVars, history>>

-----------------------------------------------------------------------------
(* Calls from outside                                                      *)

Begin(c, call) ==
    /\ calls[c] = NoCall
    /\ callCount < MaxCalls
    /\ callCount' = callCount + 1
    /\ calls' = [calls EXCEPT ![c] = call]

Return(c) == calls' = [calls EXCEPT ![c] = NoCall]

Goes(c, pc) == calls' = [calls EXCEPT ![c].pc = pc]

(* Mutant: a registration that arrives while the runtime drains.           *)
AcceptsWhileDraining(id) == ~ closed /\ entries[id] = 0

Accepts(id) == ~ closed /\ ~ draining /\ entries[id] = 0

(* register: one critical section that also starts the loop, then          *)
(* emptyUntil is reset under claimMu.  A refused call changes nothing.     *)
Register(c, id, revision) ==
    /\ Accepts(id)
    /\ lastReg < MaxRegs
    /\ Begin(c, [NoCall EXCEPT !.op = "register", !.pc = "wake"])
    /\ lastReg' = lastReg + 1
    /\ regs' = [regs EXCEPT ![lastReg + 1] =
                   [NoReg EXCEPT !.id = id, !.revision = revision]]
    /\ entries' = [entries EXCEPT ![id] = lastReg + 1]
    /\ loop' = IF loop.pc = "off" THEN [loop EXCEPT !.pc = "wait"] ELSE loop
    /\ work' = IF loop.pc = "off" THEN [w \in Workers |-> Idle] ELSE work
    /\ UNCHANGED <<processVars, gates, storeVars, history>>

RegisterReturns(c) ==
    /\ calls[c].op = "register"
    /\ claimMu = Nobody
    /\ Return(c)
    /\ UNCHANGED <<table, processVars, gates, loop, work, callCount, storeVars, history>>

(* Remove waits for the handler, Deactivate does not.                      *)
Deactivates == {"remove", "deactivate"}

LookedUp(op, id) ==
    LET e == entries[id] IN
    [NoCall EXCEPT !.op = op, !.id = id, !.reg = e,
                   !.pc = IF e = 0 THEN "revokeUnknown" ELSE "lock"]

BeginDeactivate(c, op, id) ==
    /\ Begin(c, LookedUp(op, id))
    /\ UNCHANGED <<table, processVars, gates, loop, work, storeVars, history>>

(* The loop of deactivate goes round when the entry was another's.         *)
DeactivateAgain(c) ==
    /\ calls[c].pc = "lookup"
    /\ calls' = [calls EXCEPT ![c] = LookedUp(calls[c].op, calls[c].id)]
    /\ UNCHANGED <<table, processVars, gates, loop, work, callCount, storeVars, history>>

(* Nothing registered here: only the durable runs are canceled, after the  *)
(* lookup and with nothing held.                                           *)
DeactivateUnknownRevoke(c) ==
    /\ calls[c].pc = "revokeUnknown"
    /\ runs' = CancelHandler(calls[c].id) \/ UNCHANGED runs
    /\ Return(c)
    /\ UNCHANGED <<table, processVars, gates, loop, work, callCount, lastRun, history>>

(* With the scheduling mutex the entry is looked at again; another call    *)
(* may have replaced it.                                                   *)
DeactivateLock(c) ==
    LET e == calls[c].reg IN
    /\ calls[c].pc = "lock"
    /\ regs[e].scheduling = Nobody
    /\ IF entries[calls[c].id] # e
       THEN Goes(c, "lookup") /\ UNCHANGED regs
       ELSE /\ regs' = [regs EXCEPT ![e].canceled = TRUE, ![e].scheduling = c]
            /\ Goes(c, "revoke")
    /\ UNCHANGED <<entries, lastReg, processVars, gates, loop, work, callCount, storeVars, history>>

(* Mutant: the name is freed before the durable runs are canceled.         *)
DeactivateDeletesFirst(c) ==
    LET e == calls[c].reg IN
    /\ calls[c].pc = "revoke"
    /\ IF entries[calls[c].id] = e
       THEN /\ entries' = [entries EXCEPT ![calls[c].id] = 0]
            /\ UNCHANGED <<regs, runs, revoked, calls>>
       ELSE /\ runs' = CancelHandler(calls[c].id)
            /\ revoked' = revoked \cup {e}
            /\ regs' = [regs EXCEPT ![e].scheduling = Nobody]
            /\ UNCHANGED entries
            /\ IF calls[c].op = "remove" THEN Goes(c, "drainHandler") ELSE Return(c)
    /\ UNCHANGED <<lastReg, processVars, gates, loop, work, callCount, lastRun, retired>>

(* The revocation commits, or fails and is reported to the caller.         *)
DeactivateRevoke(c) ==
    LET e == calls[c].reg IN
    /\ calls[c].pc = "revoke"
    /\ \/ /\ runs' = CancelHandler(calls[c].id)
          /\ revoked' = revoked \cup {e}
       \/ UNCHANGED <<runs, revoked>>
    /\ Goes(c, "delete")
    /\ UNCHANGED <<table, processVars, gates, loop, work, callCount, lastRun, retired>>

(* Mutant: the handler is awaited with the scheduling mutex held.          *)
DeactivateDeleteWaits(c) ==
    LET e == calls[c].reg IN
    /\ calls[c].pc = "delete"
    /\ Active(e) = {}
    /\ entries' = [entries EXCEPT ![calls[c].id] = 0]
    /\ regs' = [regs EXCEPT ![e].scheduling = Nobody]
    /\ IF calls[c].op = "remove" THEN Goes(c, "drainHandler") ELSE Return(c)
    /\ UNCHANGED <<lastReg, processVars, gates, loop, work, callCount, storeVars, history>>

DeactivateDelete(c) ==
    LET e == calls[c].reg IN
    /\ calls[c].pc = "delete"
    /\ entries' = [entries EXCEPT ![calls[c].id] = 0]
    /\ regs' = [regs EXCEPT ![e].scheduling = Nobody]
    /\ IF calls[c].op = "remove" THEN Goes(c, "drainHandler") ELSE Return(c)
    /\ UNCHANGED <<lastReg, processVars, gates, loop, work, callCount, storeVars, history>>

RemoveReturns(c) ==
    LET e == calls[c].reg IN
    /\ calls[c].pc = "drainHandler"
    /\ Active(e) = {}
    /\ retired' = retired \cup {e}
    /\ Return(c)
    /\ UNCHANGED <<table, processVars, gates, loop, work, callCount, storeVars, revoked>>

BeginDetach(c, id) ==
    LET e == entries[id] IN
    /\ e # 0
    /\ Begin(c, [NoCall EXCEPT !.op = "detach", !.pc = "detachWait", !.id = id, !.reg = e])
    /\ regs' = [regs EXCEPT ![e].canceled = TRUE]
    /\ UNCHANGED <<entries, lastReg, processVars, gates, loop, work, storeVars, history>>

DetachWait(c) ==
    /\ calls[c].pc = "detachWait"
    /\ Active(calls[c].reg) = {}
    /\ Goes(c, "detachDelete")
    /\ UNCHANGED <<table, processVars, gates, loop, work, callCount, storeVars, history>>

(* Mutant: whatever is registered under the name is removed.               *)
WithoutName(id, e) == [entries EXCEPT ![id] = 0]

(* Only the detached registration itself is removed.                       *)
Without(id, e) == IF entries[id] = e THEN [entries EXCEPT ![id] = 0] ELSE entries

DetachDelete(c) ==
    LET e == calls[c].reg IN
    /\ calls[c].pc = "detachDelete"
    /\ regs[e].scheduling = Nobody
    /\ entries' = Without(calls[c].id, e)
    /\ retired' = retired \cup {e}
    /\ Return(c)
    /\ UNCHANGED <<regs, lastReg, processVars, gates, loop, work, callCount, storeVars, revoked>>

(* Drain refuses further work and waits; the caller may give up waiting.   *)
Drain(c) ==
    /\ Begin(c, [NoCall EXCEPT !.op = "drain", !.pc = "draining"])
    /\ draining' = TRUE
    /\ UNCHANGED <<table, claimMu, closed, drained, gates, loop, work, storeVars, history>>

DrainDone ==
    /\ draining /\ ~ drained
    /\ Done
    /\ drained' = TRUE
    /\ UNCHANGED <<table, claimMu, closed, draining, gates, loop, work, callers, storeVars, history>>

DrainReturns(c) ==
    /\ calls[c].op = "drain"
    /\ Return(c)
    /\ UNCHANGED <<table, processVars, gates, loop, work, callCount, storeVars, history>>

Close(c) ==
    /\ Begin(c, [NoCall EXCEPT !.op = "close", !.pc = "closing"])
    /\ closed' = TRUE
    /\ UNCHANGED <<table, claimMu, draining, drained, gates, loop, work, storeVars, history>>

CloseReturns(c) ==
    /\ calls[c].op = "close"
    /\ Done
    /\ Return(c)
    /\ UNCHANGED <<table, processVars, gates, loop, work, callCount, storeVars, history>>

(* CancellationService.Cancel: the store first, then the local context.    *)
Cancel(c, r) ==
    /\ runs[r].state \in Pending \cup Leased
    /\ Begin(c, IF runs[r].state \in Pending THEN NoCall
                ELSE [NoCall EXCEPT !.op = "cancel", !.pc = "cancelActive", !.run = r])
    /\ runs' = [runs EXCEPT ![r].state = IF @ \in Leased THEN "cancel_requested" ELSE "canceled"]
    /\ UNCHANGED <<table, processVars, gates, loop, work, lastRun, history>>

CancelActive(c) ==
    /\ calls[c].op = "cancel"
    /\ work' = [w \in Workers |->
                  IF w \in Interruptible /\ work[w].run = calls[c].run
                  THEN CallCanceled(w) ELSE work[w]]
    /\ Return(c)
    /\ UNCHANGED <<table, processVars, gates, loop, callCount, storeVars, history>>

(* The host opens the startup gate once, and pauses and resumes work.      *)
StartWork ==
    /\ ~ ready /\ ready' = TRUE
    /\ UNCHANGED <<table, processVars, paused, loop, work, callers, storeVars, history>>

Pause(c) ==
    /\ calls[c] = NoCall
    /\ callCount < MaxCalls
    /\ callCount' = callCount + 1
    /\ paused' = ~ paused
    /\ UNCHANGED <<table, processVars, ready, loop, work, calls, storeVars, history>>

-----------------------------------------------------------------------------
WorkerStep(w) ==
    \/ WorkerExits(w) \/ WorkerSelects(w)
    \/ ClaimEnter(w) \/ ClaimRecheck(w) \/ ClaimEmpty(w)
    \/ \E r \in RunIds : ClaimRun(w, r)
    \/ HandlerEnters(w) \/ HandlerRuns(w)
    \/ \E o \in HandlerResults \cup {"context"} : HandlerReturns(w, o)
    \/ Finish(w) \/ Deadline(w) \/ Timeout(w) \/ PollCancellation(w)
    \/ \E id \in Ids : RequestLookup(w, id)
    \/ RequestLock(w) \/ RequestSubmit(w) \/ ReconcileSchedule(w)

LoopStep ==
    \/ LoopExits \/ LoopTick \/ LoopSchedule \/ LoopWake
    \/ \E e \in RegIds : LoopLock(e)

CallerStep(c) ==
    \/ \E id \in Ids, v \in Revisions : Register(c, id, v)
    \/ RegisterReturns(c)
    \/ \E op \in Deactivates, id \in Ids : BeginDeactivate(c, op, id)
    \/ DeactivateAgain(c) \/ DeactivateUnknownRevoke(c) \/ DeactivateLock(c)
    \/ DeactivateRevoke(c) \/ DeactivateDelete(c) \/ RemoveReturns(c)
    \/ \E id \in Ids : BeginDetach(c, id)
    \/ DetachWait(c) \/ DetachDelete(c)
    \/ Drain(c) \/ DrainReturns(c) \/ Close(c) \/ CloseReturns(c)
    \/ \E r \in RunIds : Cancel(c, r)
    \/ CancelActive(c) \/ Pause(c)

Next ==
    \/ \E w \in Workers : WorkerStep(w)
    \/ LoopStep
    \/ \E c \in Callers : CallerStep(c)
    \/ DrainDone \/ StartWork
    \/ \E id \in Ids, v \in Revisions \cup {Foreign} : Submit(id, v)
    \/ \E r \in RunIds : Expire(r)

Spec == Init /\ [][Next]_vars

(* What the code's goroutines do sooner or later.  A handler is assumed to *)
(* return once its context is done, and a caller to be let go by the store *)
(* (every call has a timeout); nothing else is assumed of handlers, of the *)
(* clock or of the administrators.                                         *)
Fairness ==
    /\ \A w \in Workers :
          /\ WF_vars(\/ ClaimEnter(w) \/ ClaimRecheck(w) \/ ClaimEmpty(w)
                     \/ HandlerEnters(w) \/ HandlerRuns(w) \/ RequestSubmit(w)
                     \/ Finish(w))
          /\ SF_vars(RequestLock(w) \/ ReconcileSchedule(w)) /\ SF_vars(HandlerReturns(w, "context"))
          /\ WF_vars(PollCancellation(w)) /\ SF_vars(WorkerExits(w))
    /\ WF_vars(LoopTick \/ LoopSchedule)
    /\ SF_vars(LoopWake \/ \E e \in RegIds : LoopLock(e)) /\ SF_vars(LoopExits)
    /\ \A c \in Callers :
          /\ SF_vars(RegisterReturns(c) \/ DeactivateLock(c) \/ DetachDelete(c))
          /\ WF_vars(\/ DeactivateAgain(c) \/ DeactivateUnknownRevoke(c)
                     \/ DeactivateRevoke(c) \/ DeactivateDelete(c)
                     \/ RemoveReturns(c) \/ DetachWait(c) \/ CancelActive(c)
                     \/ CloseReturns(c))

FairSpec == Spec /\ Fairness

-----------------------------------------------------------------------------
(* Properties                                                              *)

Owners == Workers \cup Callers \cup {"loop", Nobody}

RegRows == [id : Ids, revision : Revisions, canceled : BOOLEAN, scheduling : Owners]

LoopRows == [pc : {"off", "wait", "each", "schedule", "wake", "exit"},
             todo : SUBSET RegIds, reg : 0..MaxRegs]

WorkRows == [pc : InRun \cup {"off", "idle", "claim", "admit", "lease", "reconcile", "exit"},
             seen : [Ids -> 0..MaxRegs], live : SUBSET Ids,
             run : 0..MaxRuns, reg : 0..MaxRegs, ctx : {"live", "call", "run"},
             outcome : Outcomes \cup {"none", "context"}, target : 0..MaxRegs]

CallRows == [op : Deactivates \cup {"none", "register", "detach", "drain", "close", "cancel"},
             pc : {"none", "wake", "lookup", "lock", "revoke", "revokeUnknown", "delete",
                   "drainHandler", "detachWait", "detachDelete", "draining", "closing",
                   "cancelActive"},
             id : Ids, reg : 0..MaxRegs, run : 0..MaxRuns]

RunRows == [id : Ids, revision : Revisions \cup {Foreign},
            state : Pending \cup Leased \cup Ended \cup {"none"},
            by : 0..MaxRegs, attempts : 0..MaxAttempts]

(* The table, the workers, the callers and the runs have their shapes; no  *)
(* run is attempted more often than its definition allows.                 *)
TypeOK ==
    /\ entries \in [Ids -> 0..MaxRegs]
    /\ regs \in [RegIds -> RegRows] /\ lastReg \in 0..MaxRegs
    /\ claimMu \in Workers \cup {Nobody}
    /\ {closed, draining, drained, ready, paused} \subseteq BOOLEAN
    /\ loop \in LoopRows
    /\ work \in [Workers -> WorkRows]
    /\ calls \in [Callers -> CallRows] /\ callCount \in 0..MaxCalls
    /\ runs \in [RunIds -> RunRows] /\ lastRun \in 0..MaxRuns
    /\ retired \cup revoked \subseteq RegIds

(* When Remove or Detach has returned, no worker is in the handler of that *)
(* registration and none enters it any more: a plugin may be unloaded.     *)
RemovedIsQuiet == \A e \in retired : Active(e) = {}

(* Once the revocation of a registration has committed, nothing that it    *)
(* scheduled or requested is pending: no scheduling write that was under   *)
(* way lands after CancelHandler.                                          *)
RevokedStaysEmpty ==
    \A r \in RunIds : runs[r].state \in Pending => runs[r].by \notin revoked

(* A drained runtime stays still: no loop, no worker, whatever             *)
(* registrations arrive while it drains.                                   *)
DrainIsFinal == drained => Done

(* A registration that nobody canceled is the one its name leads to: no    *)
(* Detach or Deactivate of a predecessor takes a successor out of the      *)
(* table.                                                                  *)
RegistrationKept ==
    \A e \in 1..lastReg : ~ regs[e].canceled => entries[regs[e].id] = e

(* The revocation of one registration cancels no run that another, live    *)
(* registration of the same name produced: the canceled entry fences the   *)
(* name until CancelHandler is done.                                       *)
RevocationSparesSuccessor ==
    [][\A c \in Callers, r \in RunIds :
         /\ calls[c].pc = "revoke" /\ calls'[c] # calls[c]
         /\ runs[r].state # runs'[r].state
         /\ runs[r].by # 0
         => regs[runs[r].by].canceled]_vars

(* Remove, Detach, Deactivate and Close come back, though the handler they *)
(* wait for may itself be waiting for the scheduling mutex of the          *)
(* registration that is going away.                                        *)
Blocking(c) == calls[c].op \in Deactivates \cup {"detach", "close", "cancel"}
CallsReturn == \A c \in Callers : Blocking(c) ~> calls[c] = NoCall

(* A cancellation recorded for a running handler reaches it, even when     *)
(* CancelActive looks before the run is in the table of active runs.       *)
CancelRequested(w) == /\ work[w].pc \in InHandler
                      /\ runs[work[w].run].state = "cancel_requested"
CancellationDelivered ==
    \A w \in Workers : CancelRequested(w) ~> (~ CancelRequested(w) \/ CallDone(w))

(* While the pause lasts it reaches every handler that is not maintenance, *)
(* even one that passed the pause check just before.                       *)
PauseOwed(w) ==
    /\ ready /\ paused /\ ~ draining /\ ~ closed
    /\ work[w].pc \in InHandler
    /\ regs[work[w].reg].id \notin MaintenanceIds
PauseReaches == \A w \in Workers : PauseOwed(w) ~> (~ PauseOwed(w) \/ CallDone(w))
=============================================================================
