-------------------------- MODULE JobRuntimeProofs --------------------------
(***************************************************************************)
(* Proofs about JobRuntime, for any number of definitions, registrations,  *)
(* workers, callers and runs.  The argument rests on one inductive         *)
(* invariant, Admission: every reference leads to a registration that was  *)
(* made, whoever writes on behalf of a registration owns its scheduling    *)
(* mutex, a registration on its way out is canceled and stays so, and the  *)
(* workers hold different leased runs.                                     *)
(***************************************************************************)
EXTENDS JobRuntime, TLAPS

-----------------------------------------------------------------------------
(* Rows                                                                    *)

(* The rows the runtime starts from have their types.                      *)
LEMMA BlankRows ==
    /\ NoReg \in RegRows /\ NoReg.canceled = FALSE /\ NoReg.scheduling = Nobody
    /\ NoRun \in RunRows /\ NoRun.state = "none" /\ NoRun.by = 0 /\ NoRun.attempts = 0
    /\ Idle \in WorkRows /\ Idle.pc = "idle" /\ Idle.run = 0 /\ Idle.seen = [i \in Ids |-> 0]
    /\ NoCall \in CallRows /\ NoCall.pc = "none" /\ NoCall.op = "none" /\ NoCall.run = 0
<1>1. (CHOOSE i \in Ids : TRUE) \in Ids
  BY RuntimeAssumption
<1>2. (CHOOSE v \in Revisions : TRUE) \in Revisions
  BY RuntimeAssumption
<1>3. /\ MaxRegs \in Nat /\ MaxRuns \in Nat /\ MaxAttempts \in Nat /\ MaxCalls \in Nat
  BY RuntimeAssumption
<1>4. NoReg \in RegRows /\ NoReg.canceled = FALSE /\ NoReg.scheduling = Nobody
  BY <1>1, <1>2 DEF NoReg, RegRows, Owners
<1>5. NoRun \in RunRows /\ NoRun.state = "none" /\ NoRun.by = 0 /\ NoRun.attempts = 0
  BY <1>1, <1>2, <1>3 DEF NoRun, RunRows
<1>6. Idle \in WorkRows /\ Idle.pc = "idle" /\ Idle.run = 0 /\ Idle.seen = [i \in Ids |-> 0]
  BY <1>3 DEF Idle, WorkRows
<1>7. NoCall \in CallRows /\ NoCall.pc = "none" /\ NoCall.op = "none" /\ NoCall.run = 0
  BY <1>1, <1>3 DEF NoCall, CallRows
<1> QED BY <1>4, <1>5, <1>6, <1>7

(* A run that enters the store.                                            *)
LEMMA FreshRun ==
    ASSUME NEW id \in Ids, NEW v \in Revisions \cup {Foreign}, NEW e \in 0..MaxRegs
    PROVE  /\ NewRun(id, v, e) \in RunRows
           /\ NewRun(id, v, e).id = id /\ NewRun(id, v, e).by = e
           /\ NewRun(id, v, e).state = "queued" /\ NewRun(id, v, e).attempts = 0
BY BlankRows DEF NewRun, RunRows, Pending

(* Canceling a context of a worker leaves everything else of it alone.     *)
LEMMA CancelSparesRow ==
    ASSUME NEW w \in Workers, work[w] \in WorkRows
    PROVE  /\ CallCanceled(w) \in WorkRows
           /\ CallCanceled(w).pc = work[w].pc /\ CallCanceled(w).reg = work[w].reg
           /\ CallCanceled(w).run = work[w].run /\ CallCanceled(w).target = work[w].target
           /\ CallCanceled(w).seen = work[w].seen /\ CallCanceled(w).live = work[w].live
           /\ CallCanceled(w).outcome = work[w].outcome
BY DEF CallCanceled, WorkRows

(* What Finish records is a state, and another attempt only for a run that *)
(* is not to be canceled and has attempts left.                            *)
LEMMA RecordedState ==
    ASSUME NEW r \in RunIds, runs[r] \in RunRows, NEW o, NEW d
    PROVE  /\ Recorded(r, Classified(o, d)) \in Ended \cup {"retry_wait"}
           /\ Recorded(r, Classified(o, d)) = "retry_wait"
              => runs[r].attempts < MaxAttempts /\ runs[r].state # "cancel_requested"
<1>1. Classified(o, d) \in {"canceled", "unknown", "retry_wait", "yielded", "succeeded", "failed"}
  BY DEF Classified
<1>2. runs[r].attempts \in Nat /\ MaxAttempts \in Nat
  BY RuntimeAssumption DEF RunRows
<1> QED BY <1>1, <1>2 DEF Recorded, Ended

-----------------------------------------------------------------------------

(* The inductive invariant                                                 *)

Made == 1..lastReg

(* Where a caller has a registration in hand, where it has canceled it,    *)
(* and where it owns its scheduling mutex.                                 *)
Sweeping == {"revoke", "delete"}
Withdrawing == Sweeping \cup {"drainHandler", "detachWait", "detachDelete"}
Concerned == Withdrawing \cup {"lock"}

(* Every reference is to a registration that was made, and its name is     *)
(* that of the registration.                                               *)
TableRefers ==
    \A i \in Ids : entries[i] # 0 => entries[i] \in Made /\ regs[entries[i]].id = i

LoopRefers ==
    /\ loop.todo \subseteq Made
    /\ loop.pc = "schedule" => loop.reg \in Made

WorkerRefers(row) ==
    /\ \A i \in Ids : row.seen[i] # 0 => row.seen[i] \in Made
    /\ row.pc = "lease" => \A i \in row.live : row.seen[i] # 0
    /\ row.pc \in InRun => row.reg \in Made
    /\ row.pc \in {"request", "requesting", "reconcile"} => row.target \in Made

CallerRefers(row) ==
    row.pc \in Concerned => row.reg \in Made /\ regs[row.reg].id = row.id

RunRefers(row) ==
    row.by # 0 => row.by \in Made /\ regs[row.by].id = row.id

References ==
    /\ TableRefers
    /\ LoopRefers
    /\ \A w \in Workers : WorkerRefers(work[w])
    /\ \A c \in Callers : CallerRefers(calls[c])
    /\ \A r \in RunIds : RunRefers(runs[r])
    /\ retired \cup revoked \subseteq Made

(* Who writes durable runs for a registration owns its scheduling mutex.   *)
(* While a caller revokes, the name still leads to what it revokes.        *)
MutexOwned ==
    /\ loop.pc = "schedule" => regs[loop.reg].scheduling = "loop"
    /\ \A w \in Workers :
          work[w].pc = "requesting" => regs[work[w].target].scheduling = w
    /\ \A c \in Callers :
          calls[c].pc \in Sweeping => /\ regs[calls[c].reg].scheduling = c
                                      /\ entries[calls[c].id] = calls[c].reg

(* A registration on its way out, or gone, is canceled: its handler is not *)
(* entered any more, and nobody but a caller takes its mutex.              *)
Fenced ==
    /\ \A c \in Callers : calls[c].pc \in Withdrawing => regs[calls[c].reg].canceled
    /\ \A c \in Callers : calls[c].pc = "detachDelete" => Active(calls[c].reg) = {}
    /\ \A e \in retired : regs[e].canceled /\ Active(e) = {}
    /\ \A e \in revoked : regs[e].canceled /\ regs[e].scheduling \in Callers \cup {Nobody}

(* A worker's run is leased and is no other worker's.  Runs that were not  *)
(* submitted are blank, and a pending one has an attempt left.             *)
Holding ==
    /\ \A w \in Workers :
          work[w].pc \in InRun => work[w].run \in RunIds /\ runs[work[w].run].state \in Leased
    /\ \A v, w \in Workers :
          v # w /\ work[v].pc \in InRun /\ work[w].pc \in InRun => work[v].run # work[w].run
    /\ \A r \in RunIds : r > lastRun => runs[r].state = "none"
    /\ \A r \in RunIds : runs[r].state \in Pending => runs[r].attempts < MaxAttempts

(* A revoked registration's runs have ended or are to be canceled.         *)
Swept ==
    \A r \in RunIds : runs[r].by \in revoked => runs[r].state \notin Pending \cup {"running"}

(* A drained runtime still refuses registrations.                          *)
Stopped == drained => draining /\ Done

Admission == References /\ MutexOwned /\ Fenced /\ Holding /\ Swept /\ RegistrationKept /\ Stopped

-----------------------------------------------------------------------------
(* Types                                                                   *)

LEMMA Bounds == /\ MaxRegs \in Nat /\ MaxRuns \in Nat /\ MaxAttempts \in Nat /\ MaxCalls \in Nat
                /\ MaxAttempts > 0
BY RuntimeAssumption

LEMMA TypesOfInit == Init => TypeOK
<1> SUFFICES ASSUME Init PROVE TypeOK
  OBVIOUS
<1>1. [Idle EXCEPT !.pc = "off"] \in WorkRows
  BY BlankRows DEF WorkRows
<1>2. 0 \in 0..MaxRegs /\ 0 \in 0..MaxRuns /\ 0 \in 0..MaxCalls
  BY Bounds
<1>3. loop \in LoopRows
  BY <1>2 DEF Init, LoopRows
<1>4. work \in [Workers -> WorkRows] /\ calls \in [Callers -> CallRows]
  BY <1>1, BlankRows DEF Init
<1>5. regs \in [RegIds -> RegRows] /\ runs \in [RunIds -> RunRows]
  BY BlankRows DEF Init
<1> QED BY <1>2, <1>3, <1>4, <1>5 DEF Init, TypeOK

(* The rows the workers leave behind when some calls are interrupted.      *)
LEMMA InterruptedRows ==
    ASSUME TypeOK
    PROVE  Interrupted \in [Workers -> WorkRows]
BY CancelSparesRow DEF TypeOK, Interrupted

(* What a registration schedules or requests is typed.                     *)
LEMMA InsertedRows ==
    ASSUME TypeOK, NEW e \in RegIds, Inserted(regs[e].id, regs[e].revision, e)
    PROVE  runs' \in [RunIds -> RunRows] /\ lastRun' \in 0..MaxRuns
<1>1. regs[e] \in RegRows /\ e \in 0..MaxRegs
  BY Bounds DEF TypeOK, RegIds
<1>2. NewRun(regs[e].id, regs[e].revision, e) \in RunRows
  BY <1>1, FreshRun DEF RegRows
<1>3. CASE UNCHANGED storeVars
  BY <1>3 DEF storeVars, TypeOK
<1>4. CASE /\ lastRun < MaxRuns
           /\ lastRun' = lastRun + 1
           /\ runs' = [runs EXCEPT ![lastRun + 1] = NewRun(regs[e].id, regs[e].revision, e)]
  <2>1. runs' \in [RunIds -> RunRows]
    BY <1>2, <1>4 DEF TypeOK
  <2>2. lastRun' \in 0..MaxRuns
    BY <1>4, Bounds DEF TypeOK
  <2> QED BY <2>1, <2>2
<1> QED BY <1>3, <1>4 DEF Inserted

LEMMA WorkerTypes ==
    ASSUME TypeOK, References, Holding, NEW w \in Workers, WorkerStep(w)
    PROVE  TypeOK'
<1> USE DEF Stays
<1>0. /\ work \in [Workers -> WorkRows] /\ work[w] \in WorkRows /\ Idle \in WorkRows
      /\ entries \in [Ids -> 0..MaxRegs] /\ regs \in [RegIds -> RegRows]
      /\ runs \in [RunIds -> RunRows] /\ lastRun \in 0..MaxRuns
  BY BlankRows DEF TypeOK
<1>sel. Selected \in [Ids -> 0..MaxRegs]
  BY <1>0, Bounds DEF Selected
<1>1. CASE WorkerExits(w)
  <2>1. [Idle EXCEPT !.pc = "exit"] \in WorkRows
    BY <1>0 DEF WorkRows
  <2> QED BY <1>1, <2>1 DEF WorkerExits, TypeOK, table, processVars, gates, callers, storeVars, history
<1>2. CASE WorkerSelects(w)
  <2>1. [Idle EXCEPT !.pc = "claim", !.seen = Selected] \in WorkRows
    BY <1>0, <1>sel DEF WorkRows
  <2>2. (IF paused THEN Interrupted ELSE work) \in [Workers -> WorkRows]
    BY <1>0, InterruptedRows
  <2>3. work' \in [Workers -> WorkRows]
    BY <1>2, <2>1, <2>2 DEF WorkerSelects
  <2> QED BY <1>2, <2>3 DEF WorkerSelects, TypeOK, table, processVars, gates, callers, storeVars, history
<1>3. CASE ClaimEnter(w)
  <2>1. [work[w] EXCEPT !.pc = "admit"] \in WorkRows
    BY <1>0 DEF WorkRows
  <2> QED BY <1>0, <1>3, <2>1 DEF ClaimEnter, TypeOK, table, gates, callers, storeVars, history
<1>4. CASE ClaimRecheck(w)
  <2>1. [work[w] EXCEPT !.pc = "lease", !.live = Live(w)] \in WorkRows
    BY <1>0 DEF WorkRows, Live
  <2> QED BY <1>0, <1>4, <2>1 DEF ClaimRecheck, TypeOK, table, gates, callers, storeVars, history
<1>5. CASE ClaimEmpty(w)
  BY <1>0, <1>5 DEF ClaimEmpty, TypeOK, table, gates, callers, storeVars, history
<1>6. ASSUME NEW r \in RunIds, ClaimRun(w, r) PROVE TypeOK'
  <2>1. [Idle EXCEPT !.pc = "start", !.run = r, !.reg = work[w].seen[runs[r].id]] \in WorkRows
    <3>1. runs[r].id \in Ids /\ work[w].seen \in [Ids -> 0..MaxRegs] /\ r \in 0..MaxRuns
      BY <1>0, Bounds DEF RunRows, WorkRows, RunIds
    <3>2. work[w].seen[runs[r].id] \in 0..MaxRegs
      BY <3>1
    <3> QED BY <1>0, <3>1, <3>2 DEF WorkRows, InRun
  <2>2. runs[r].attempts \in Nat /\ runs[r].attempts + 1 \in 0..MaxAttempts
    BY <1>0, <1>6, Bounds DEF Holding, ClaimRun, RunRows
  <2>3. [runs[r] EXCEPT !.state = "running", !.attempts = @ + 1] \in RunRows
    BY <1>0, <2>2 DEF RunRows, Leased
  <2>4. runs' \in [RunIds -> RunRows]
    BY <1>0, <1>6, <2>3 DEF ClaimRun
  <2> QED BY <1>0, <1>6, <2>1, <2>4 DEF ClaimRun, TypeOK, table, gates, callers, history
<1>7. CASE HandlerEnters(w)
  <2>1. [work[w] EXCEPT !.pc = "entered"] \in WorkRows
    BY <1>0 DEF WorkRows, InRun, InHandler
  <2>2. [work[w] EXCEPT !.pc = "finish", !.outcome = Refusal(w)] \in WorkRows
    BY <1>0 DEF WorkRows, InRun, Refusal, Outcomes
  <2> QED BY <1>0, <1>7, <2>1, <2>2
          DEF HandlerEnters, TypeOK, table, processVars, gates, callers, storeVars, history
<1>8. CASE HandlerRuns(w)
  <2>1. [work[w] EXCEPT !.pc = "running"] \in WorkRows
    BY <1>0 DEF WorkRows, InRun, InHandler
  <2> QED BY <1>0, <1>8, <2>1
          DEF HandlerRuns, TypeOK, table, processVars, gates, callers, storeVars, history
<1>9. ASSUME NEW o \in HandlerResults \cup {"context"}, HandlerReturns(w, o) PROVE TypeOK'
  <2> DEFINE ctx == IF work[w].ctx = "run" THEN "run" ELSE "live"
  <2>1. [work[w] EXCEPT !.pc = "finish", !.outcome = o, !.ctx = ctx] \in WorkRows
    BY <1>0, RuntimeAssumption DEF WorkRows, InRun
  <2>2. work' = [work EXCEPT ![w] = [work[w] EXCEPT !.pc = "finish", !.outcome = o, !.ctx = ctx]]
    BY <1>9 DEF HandlerReturns
  <2> HIDE DEF ctx
  <2> QED BY <1>0, <1>9, <2>1, <2>2
          DEF HandlerReturns, TypeOK, table, processVars, gates, callers, storeVars, history
<1>10. CASE Finish(w)
  <2>1. work[w].run \in RunIds
    BY <1>10 DEF Finish, Holding, InRun
  <2>2. [Idle EXCEPT !.pc = "reconcile", !.target = entries[runs[work[w].run].id]] \in WorkRows
    BY <1>0, <2>1 DEF WorkRows, RunRows
  <2>3. [runs[work[w].run] EXCEPT !.state =
            Recorded(work[w].run, Classified(work[w].outcome, RunDone(w)))] \in RunRows
    BY <1>0, <2>1, RecordedState DEF RunRows, Pending
  <2>4. runs' \in [RunIds -> RunRows]
    BY <1>0, <1>10, <2>3 DEF Finish
  <2> QED BY <1>0, <1>10, <2>2, <2>4 DEF Finish, TypeOK, table, processVars, gates, callers, history
<1>11. CASE Deadline(w) \/ PollCancellation(w)
  <2>1. [work[w] EXCEPT !.ctx = "run"] \in WorkRows
    BY <1>0 DEF WorkRows
  <2> QED BY <1>0, <1>11, <2>1 DEF Deadline, PollCancellation, TypeOK, table, processVars, gates,
                                   callers, storeVars, history
<1>12. CASE Timeout(w)
  BY <1>0, <1>12, CancelSparesRow
     DEF Timeout, TypeOK, table, processVars, gates, callers, storeVars, history
<1>13. ASSUME NEW id \in Ids, RequestLookup(w, id) PROVE TypeOK'
  <2>1. [work[w] EXCEPT !.pc = "request", !.target = entries[id]] \in WorkRows
    BY <1>0 DEF WorkRows, InRun, InHandler
  <2> QED BY <1>0, <1>13, <2>1
          DEF RequestLookup, TypeOK, table, processVars, gates, callers, storeVars, history
<1>14. [work[w] EXCEPT !.pc = "running", !.target = 0] \in WorkRows
  <2>1. 0 \in 0..MaxRegs
    BY Bounds
  <2> QED BY <1>0, <2>1 DEF WorkRows, InRun, InHandler
<1>15. CASE RequestLock(w)
  <2>1. [work[w] EXCEPT !.pc = "requesting"] \in WorkRows
    BY <1>0 DEF WorkRows, InRun, InHandler
  <2>2. work' \in [Workers -> WorkRows]
    BY <1>0, <1>14, <1>15, <2>1 DEF RequestLock
  <2>3. regs' \in [RegIds -> RegRows]
    BY <1>0, <1>15 DEF RequestLock, RegRows, Owners
  <2> QED BY <1>15, <2>2, <2>3 DEF RequestLock, TypeOK, processVars, gates, callers, storeVars, history
<1>16. CASE RequestSubmit(w)
  <2>1. work[w].target \in RegIds
    BY <1>16, Bounds DEF RequestSubmit, References, WorkerRefers, TypeOK, Made, RegIds
  <2>3. runs' \in [RunIds -> RunRows] /\ lastRun' \in 0..MaxRuns
    BY <1>16, <2>1, InsertedRows DEF RequestSubmit
  <2>4. regs' \in [RegIds -> RegRows]
    BY <1>0, <1>16 DEF RequestSubmit, RegRows, Owners
  <2>5. work' \in [Workers -> WorkRows]
    BY <1>0, <1>14, <1>16 DEF RequestSubmit
  <2> QED BY <1>16, <2>3, <2>4, <2>5 DEF RequestSubmit, TypeOK, processVars, gates, callers, history
<1>17. CASE ReconcileSchedule(w)
  BY <1>0, <1>17 DEF ReconcileSchedule, TypeOK, table, processVars, gates, callers, storeVars, history
<1> QED BY <1>1, <1>2, <1>3, <1>4, <1>5, <1>6, <1>7, <1>8, <1>9, <1>10, <1>11, <1>12, <1>13,
           <1>15, <1>16, <1>17 DEF WorkerStep

LEMMA LoopTypes ==
    ASSUME TypeOK, References, LoopStep
    PROVE  TypeOK'
<1>0. /\ loop \in LoopRows /\ loop.todo \subseteq RegIds /\ loop.reg \in 0..MaxRegs
      /\ 0 \in 0..MaxRegs /\ regs \in [RegIds -> RegRows]
  BY Bounds DEF TypeOK, LoopRows
<1>1. ASSUME NEW S, S \subseteq RegIds
      PROVE  Remaining(S) \in LoopRows
  BY <1>0, <1>1 DEF Remaining, LoopRows
<1>2. CASE LoopExits
  <2>1. [loop EXCEPT !.pc = "exit"] \in LoopRows
    BY <1>0 DEF LoopRows
  <2> QED BY <1>2, <2>1 DEF LoopExits, TypeOK, table, processVars, gates, callers, storeVars, history
<1>3. CASE LoopTick
  <2>1. loop' \in LoopRows
    BY <1>0, <1>1, <1>3 DEF LoopTick
  <2>2. work' \in [Workers -> WorkRows]
    BY <1>3, InterruptedRows DEF LoopTick, TypeOK
  <2> QED BY <1>3, <2>1, <2>2 DEF LoopTick, TypeOK, table, processVars, gates, callers, storeVars, history
<1>4. CASE LoopSchedule
  <2>1. loop.reg \in RegIds
    BY <1>4, Bounds DEF LoopSchedule, References, LoopRefers, TypeOK, Made, RegIds
  <2>2. runs' \in [RunIds -> RunRows] /\ lastRun' \in 0..MaxRuns
    BY <1>4, <2>1, InsertedRows DEF LoopSchedule
  <2>3. regs' \in [RegIds -> RegRows]
    BY <1>0, <1>4 DEF LoopSchedule, RegRows, Owners
  <2>4. [pc |-> "wake", todo |-> loop.todo \ {loop.reg}, reg |-> 0] \in LoopRows
    BY <1>0 DEF LoopRows
  <2>5. loop' \in LoopRows
    BY <1>0, <1>1, <1>4, <2>4 DEF LoopSchedule
  <2> QED BY <1>4, <2>2, <2>3, <2>5 DEF LoopSchedule, TypeOK, processVars, gates, callers, history
<1>5. CASE LoopWake
  <2>1. loop' \in LoopRows
    BY <1>0, <1>1, <1>5 DEF LoopWake
  <2> QED BY <1>5, <2>1 DEF LoopWake, TypeOK, table, processVars, gates, callers, storeVars, history
<1>6. ASSUME NEW e \in RegIds, LoopLock(e) PROVE TypeOK'
  <2>1. [loop EXCEPT !.pc = "schedule", !.reg = e] \in LoopRows
    <3>1. e \in 0..MaxRegs
      BY Bounds DEF RegIds
    <3> QED BY <1>0, <3>1 DEF LoopRows
  <2>2. loop' \in LoopRows
    BY <1>0, <1>1, <1>6, <2>1 DEF LoopLock
  <2>3. regs' \in [RegIds -> RegRows]
    BY <1>0, <1>6 DEF LoopLock, RegRows, Owners
  <2> QED BY <1>6, <2>2, <2>3 DEF LoopLock, TypeOK, processVars, gates, callers, storeVars, history
<1> QED BY <1>2, <1>3, <1>4, <1>5, <1>6 DEF LoopStep

(* The rows of a store that cancels what a name has under way.             *)
LEMMA SweptRows ==
    ASSUME TypeOK, NEW id \in Ids
    PROVE  CancelHandler(id) \in [RunIds -> RunRows]
<1>1. ASSUME NEW r \in RunIds
      PROVE  CancelHandler(id)[r] \in RunRows
  <2>1. runs[r] \in RunRows
    BY DEF TypeOK
  <2> QED BY <2>1 DEF CancelHandler, RunRows, Pending, Leased, Ended
<1> QED BY <1>1 DEF CancelHandler

LEMMA CallerTypes ==
    ASSUME TypeOK, References, NEW c \in Callers, CallerStep(c)
    PROVE  TypeOK'
<1>0. /\ calls \in [Callers -> CallRows] /\ calls[c] \in CallRows /\ NoCall \in CallRows
      /\ entries \in [Ids -> 0..MaxRegs] /\ regs \in [RegIds -> RegRows]
      /\ runs \in [RunIds -> RunRows] /\ callCount \in 0..MaxCalls
      /\ lastReg \in 0..MaxRegs /\ 0 \in 0..MaxRegs
  BY BlankRows, Bounds DEF TypeOK
<1>b. ASSUME NEW row \in CallRows, Begin(c, row)
      PROVE  calls' \in [Callers -> CallRows] /\ callCount' \in 0..MaxCalls
  BY <1>0, <1>b, Bounds DEF Begin
<1>r. Return(c) => calls' \in [Callers -> CallRows]
  BY <1>0 DEF Return
<1>g. ASSUME NEW pc \in {"lookup", "revoke", "delete", "drainHandler", "detachDelete"}, Goes(c, pc)
      PROVE  calls' \in [Callers -> CallRows]
  <2>1. [calls[c] EXCEPT !.pc = pc] \in CallRows
    BY <1>0 DEF CallRows
  <2> QED BY <1>0, <1>g, <2>1 DEF Goes
<1>l. ASSUME NEW op \in Deactivates, NEW id \in Ids
      PROVE  LookedUp(op, id) \in CallRows
  BY <1>0 DEF LookedUp, CallRows
<1>o. ASSUME calls[c].pc \in Concerned
      PROVE  calls[c].reg \in RegIds
  BY <1>o, Bounds DEF References, CallerRefers, TypeOK, Made, RegIds
<1>1. ASSUME NEW id \in Ids, NEW v \in Revisions, Register(c, id, v) PROVE TypeOK'
  <2>1. [NoCall EXCEPT !.op = "register", !.pc = "wake"] \in CallRows
    BY <1>0 DEF CallRows
  <2>2. calls' \in [Callers -> CallRows] /\ callCount' \in 0..MaxCalls
    BY <1>1, <1>b, <2>1 DEF Register
  <2>3. [NoReg EXCEPT !.id = id, !.revision = v] \in RegRows
    BY BlankRows DEF RegRows
  <2>4. regs' \in [RegIds -> RegRows]
    BY <1>0, <1>1, <2>3 DEF Register
  <2>5. lastReg' \in 0..MaxRegs /\ entries' \in [Ids -> 0..MaxRegs]
    BY <1>0, <1>1, Bounds DEF Register
  <2>6. loop' \in LoopRows
    BY <1>1 DEF Register, TypeOK, LoopRows
  <2>7. work' \in [Workers -> WorkRows]
    BY <1>1, BlankRows DEF Register, TypeOK
  <2> QED BY <1>1, <2>2, <2>4, <2>5, <2>6, <2>7
          DEF Register, TypeOK, processVars, gates, storeVars, history
<1>2. CASE RegisterReturns(c) \/ DrainReturns(c) \/ CloseReturns(c)
  BY <1>2, <1>r DEF RegisterReturns, DrainReturns, CloseReturns, TypeOK, table, processVars, gates,
                    storeVars, history
<1>3. ASSUME NEW op \in Deactivates, NEW id \in Ids, BeginDeactivate(c, op, id) PROVE TypeOK'
  <2>1. calls' \in [Callers -> CallRows] /\ callCount' \in 0..MaxCalls
    BY <1>3, <1>b, <1>l DEF BeginDeactivate
  <2> QED BY <1>3, <2>1 DEF BeginDeactivate, TypeOK, table, processVars, gates, storeVars, history
<1>4. CASE DeactivateAgain(c)
  <2>1. [NoCall EXCEPT !.op = calls[c].op, !.id = calls[c].id, !.reg = entries[calls[c].id],
                       !.pc = IF entries[calls[c].id] = 0 THEN "revokeUnknown" ELSE "lock"] \in CallRows
    BY <1>0 DEF CallRows
  <2>2. calls' \in [Callers -> CallRows]
    BY <1>0, <1>4, <2>1 DEF DeactivateAgain, LookedUp
  <2> QED BY <1>4, <2>2 DEF DeactivateAgain, TypeOK, table, processVars, gates, storeVars, history
<1>5. CASE DeactivateUnknownRevoke(c)
  <2>1. runs' \in [RunIds -> RunRows]
    BY <1>0, <1>5, SweptRows DEF DeactivateUnknownRevoke, CallRows
  <2> QED BY <1>5, <1>r, <2>1 DEF DeactivateUnknownRevoke, TypeOK, table, processVars, gates, history
<1>6. CASE DeactivateLock(c)
  <2>1. regs' \in [RegIds -> RegRows]
    <3>1. calls[c].reg \in RegIds
      BY <1>6, <1>o DEF DeactivateLock, Concerned
    <3>2. [regs[calls[c].reg] EXCEPT !.canceled = TRUE, !.scheduling = c] \in RegRows
      BY <1>0, <3>1 DEF RegRows, Owners
    <3> QED BY <1>0, <1>6, <3>1, <3>2 DEF DeactivateLock
  <2>2. calls' \in [Callers -> CallRows]
    BY <1>6, <1>g DEF DeactivateLock
  <2> QED BY <1>6, <2>1, <2>2 DEF DeactivateLock, TypeOK, processVars, gates, storeVars, history
<1>7. CASE DeactivateRevoke(c)
  <2>1. runs' \in [RunIds -> RunRows]
    BY <1>0, <1>7, SweptRows DEF DeactivateRevoke, CallRows
  <2>2. revoked' \subseteq RegIds
    BY <1>7, <1>o DEF DeactivateRevoke, TypeOK, Concerned, Withdrawing, Sweeping
  <2>3. calls' \in [Callers -> CallRows]
    BY <1>7, <1>g DEF DeactivateRevoke
  <2> QED BY <1>7, <2>1, <2>2, <2>3 DEF DeactivateRevoke, TypeOK, table, processVars, gates
<1>8. CASE DeactivateDelete(c)
  <2>1. regs' \in [RegIds -> RegRows]
    BY <1>0, <1>8 DEF DeactivateDelete, RegRows, Owners
  <2>2. calls' \in [Callers -> CallRows]
    BY <1>8, <1>g, <1>r DEF DeactivateDelete
  <2>3. entries' \in [Ids -> 0..MaxRegs]
    BY <1>0, <1>8 DEF DeactivateDelete
  <2> QED BY <1>8, <2>1, <2>2, <2>3 DEF DeactivateDelete, TypeOK, processVars, gates, storeVars, history
<1>9. CASE RemoveReturns(c)
  <2>1. retired' \subseteq RegIds
    BY <1>9, <1>o DEF RemoveReturns, TypeOK, Concerned, Withdrawing
  <2> QED BY <1>9, <1>r, <2>1 DEF RemoveReturns, TypeOK, table, processVars, gates, storeVars
<1>10. ASSUME NEW id \in Ids, BeginDetach(c, id) PROVE TypeOK'
  <2>1. [NoCall EXCEPT !.op = "detach", !.pc = "detachWait", !.id = id, !.reg = entries[id]] \in CallRows
    BY <1>0 DEF CallRows
  <2>2. calls' \in [Callers -> CallRows] /\ callCount' \in 0..MaxCalls
    BY <1>10, <1>b, <2>1 DEF BeginDetach
  <2>3. regs' \in [RegIds -> RegRows]
    BY <1>0, <1>10 DEF BeginDetach, RegRows
  <2> QED BY <1>10, <2>2, <2>3 DEF BeginDetach, TypeOK, processVars, gates, storeVars, history
<1>11. CASE DetachWait(c)
  BY <1>11, <1>g DEF DetachWait, TypeOK, table, processVars, gates, storeVars, history
<1>12. CASE DetachDelete(c)
  <2>1. retired' \subseteq RegIds
    BY <1>12, <1>o DEF DetachDelete, TypeOK, Concerned, Withdrawing
  <2>2. entries' \in [Ids -> 0..MaxRegs]
    BY <1>0, <1>12 DEF DetachDelete, Without
  <2> QED BY <1>12, <1>r, <2>1, <2>2 DEF DetachDelete, TypeOK, processVars, gates, storeVars
<1>13. CASE Drain(c)
  <2>1. [NoCall EXCEPT !.op = "drain", !.pc = "draining"] \in CallRows
    BY <1>0 DEF CallRows
  <2>2. calls' \in [Callers -> CallRows] /\ callCount' \in 0..MaxCalls
    BY <1>13, <1>b, <2>1 DEF Drain
  <2> QED BY <1>13, <2>2 DEF Drain, TypeOK, table, gates, storeVars, history
<1>14. CASE Close(c)
  <2>1. [NoCall EXCEPT !.op = "close", !.pc = "closing"] \in CallRows
    BY <1>0 DEF CallRows
  <2>2. calls' \in [Callers -> CallRows] /\ callCount' \in 0..MaxCalls
    BY <1>14, <1>b, <2>1 DEF Close
  <2> QED BY <1>14, <2>2 DEF Close, TypeOK, table, gates, storeVars, history
<1>15. ASSUME NEW r \in RunIds, Cancel(c, r) PROVE TypeOK'
  <2>1. [NoCall EXCEPT !.op = "cancel", !.pc = "cancelActive", !.run = r] \in CallRows
    <3>1. r \in 0..MaxRuns
      BY Bounds DEF RunIds
    <3> QED BY <1>0, <3>1 DEF CallRows
  <2>2. calls' \in [Callers -> CallRows] /\ callCount' \in 0..MaxCalls
    BY <1>0, <1>15, <1>b, <2>1 DEF Cancel
  <2>3. runs' \in [RunIds -> RunRows]
    BY <1>0, <1>15 DEF Cancel, RunRows, Leased, Ended
  <2> QED BY <1>15, <2>2, <2>3 DEF Cancel, TypeOK, table, processVars, gates, history
<1>16. CASE CancelActive(c)
  <2>1. work' \in [Workers -> WorkRows]
    BY <1>16, CancelSparesRow DEF CancelActive, TypeOK
  <2> QED BY <1>16, <1>r, <2>1 DEF CancelActive, TypeOK, table, processVars, gates, storeVars, history
<1>17. CASE Pause(c)
  <2>1. callCount' \in 0..MaxCalls
    BY <1>0, <1>17, Bounds DEF Pause
  <2> QED BY <1>17, <2>1 DEF Pause, TypeOK, table, processVars, storeVars, history
<1> QED BY <1>1, <1>2, <1>3, <1>4, <1>5, <1>6, <1>7, <1>8, <1>9, <1>10, <1>11, <1>12, <1>13,
           <1>14, <1>15, <1>16, <1>17 DEF CallerStep

LEMMA TypesKept ==
    ASSUME TypeOK, References, Holding, [Next]_vars
    PROVE  TypeOK'
<1>1. ASSUME NEW w \in Workers, WorkerStep(w) PROVE TypeOK'
  BY <1>1, WorkerTypes
<1>2. CASE LoopStep
  BY <1>2, LoopTypes
<1>3. ASSUME NEW c \in Callers, CallerStep(c) PROVE TypeOK'
  BY <1>3, CallerTypes
<1>4. CASE DrainDone
  BY <1>4 DEF DrainDone, TypeOK, table, gates, callers, storeVars, history
<1>5. CASE StartWork
  BY <1>5 DEF StartWork, TypeOK, table, processVars, callers, storeVars, history
<1>6. ASSUME NEW id \in Ids, NEW v \in Revisions \cup {Foreign}, Submit(id, v) PROVE TypeOK'
  <2>1. NewRun(id, v, 0) \in RunRows
    BY FreshRun, Bounds
  <2>2. runs' \in [RunIds -> RunRows]
    BY <1>6, <2>1 DEF Submit, TypeOK
  <2>3. lastRun' \in 0..MaxRuns
    BY <1>6, Bounds DEF Submit, TypeOK
  <2> QED BY <1>6, <2>2, <2>3 DEF Submit, TypeOK, table, processVars, gates, callers, history
<1>7. ASSUME NEW r \in RunIds, Expire(r) PROVE TypeOK'
  <2>1. runs' \in [RunIds -> RunRows]
    BY <1>7 DEF Expire, TypeOK, RunRows, Ended
  <2> QED BY <1>7, <2>1 DEF Expire, TypeOK, table, processVars, gates, callers, history
<1>8. CASE UNCHANGED vars
  BY <1>8 DEF vars, TypeOK, table, processVars, gates, callers, storeVars, history
<1> QED BY <1>1, <1>2, <1>3, <1>4, <1>5, <1>6, <1>7, <1>8 DEF Next

-----------------------------------------------------------------------------
(* Who changes what                                                        *)

(* A worker that is only told that its context is done stays where it is.  *)
SamePlace(w) ==
    /\ work'[w].pc = work[w].pc /\ work'[w].seen = work[w].seen /\ work'[w].live = work[w].live
    /\ work'[w].run = work[w].run /\ work'[w].reg = work[w].reg /\ work'[w].target = work[w].target

LEMMA InterruptedStay ==
    ASSUME TypeOK, NEW w \in Workers, work'[w] = Interrupted[w] \/ work'[w] = work[w]
    PROVE  SamePlace(w)
<1>1. work[w] \in WorkRows
  BY DEF TypeOK
<1>2. Interrupted[w] = CallCanceled(w) \/ Interrupted[w] = work[w]
  BY DEF Interrupted
<1> QED BY <1>1, <1>2, CancelSparesRow DEF SamePlace

(* A worker moves by its own steps; the first registration starts it.      *)
LEMMA WorkerMovesItself ==
    ASSUME TypeOK, [Next]_vars, NEW w \in Workers
    PROVE  \/ WorkerStep(w)
           \/ SamePlace(w)
           \/ /\ \E c \in Callers, id \in Ids, v \in Revisions : Register(c, id, v)
              /\ work'[w] = Idle
<1>0. work \in [Workers -> WorkRows] /\ work[w] \in WorkRows
  BY DEF TypeOK
<1>s. work' = work => SamePlace(w)
  BY DEF SamePlace
<1>1. ASSUME NEW v \in Workers, v # w, WorkerStep(v)
      PROVE  SamePlace(w)
  <2>1. CASE WorkerSelects(v)
    <3>1. work'[w] = Interrupted[w] \/ work'[w] = work[w]
      <4> DEFINE all == IF paused THEN Interrupted ELSE work
      <4>1. all \in [Workers -> WorkRows]
        BY <1>0, InterruptedRows
      <4>2. work' = all \/ work' = [all EXCEPT ![v] = [Idle EXCEPT !.pc = "claim", !.seen = Selected]]
        BY <2>1 DEF WorkerSelects
      <4>3. all[w] = Interrupted[w] \/ all[w] = work[w]
        OBVIOUS
      <4> HIDE DEF all
      <4> QED BY <1>1, <4>1, <4>2, <4>3
    <3> QED BY <3>1, InterruptedStay
  <2>2. CASE ~ WorkerSelects(v)
    <3>1. \E row : work' = [work EXCEPT ![v] = row]
      BY <1>1, <2>2 DEF WorkerStep, Stays, WorkerExits, ClaimEnter, ClaimRecheck, ClaimEmpty, ClaimRun,
           HandlerEnters, HandlerRuns, HandlerReturns, Finish, Deadline, Timeout, PollCancellation,
           RequestLookup, RequestLock, RequestSubmit, ReconcileSchedule
    <3>2. work'[w] = work[w]
      BY <1>0, <1>1, <3>1
    <3> QED BY <3>2 DEF SamePlace
  <2> QED BY <2>1, <2>2
<1>2. CASE LoopStep
  <2>1. work'[w] = Interrupted[w] \/ work'[w] = work[w]
    BY <1>2 DEF LoopStep, LoopExits, LoopTick, LoopSchedule, LoopWake, LoopLock
  <2> QED BY <2>1, InterruptedStay
<1>3. ASSUME NEW c \in Callers, CallerStep(c)
      PROVE  \/ SamePlace(w)
             \/ /\ \E id \in Ids, v \in Revisions : Register(c, id, v)
                /\ work'[w] = Idle
  <2>1. CASE CancelActive(c)
    <3>1. work'[w] = CallCanceled(w) \/ work'[w] = work[w]
      BY <2>1 DEF CancelActive
    <3> QED BY <1>0, <3>1, CancelSparesRow DEF SamePlace
  <2>2. ASSUME NEW id \in Ids, NEW v \in Revisions, Register(c, id, v)
        PROVE  SamePlace(w) \/ work'[w] = Idle
    <3>1. work' = work \/ work' = [u \in Workers |-> Idle]
      BY <2>2 DEF Register
    <3> QED BY <1>s, <3>1
  <2>3. CASE ~ CancelActive(c) /\ ~ \E id \in Ids, v \in Revisions : Register(c, id, v)
    <3>1. work' = work
      BY <1>3, <2>3 DEF CallerStep, RegisterReturns, BeginDeactivate, DeactivateAgain,
           DeactivateUnknownRevoke, DeactivateLock, DeactivateRevoke, DeactivateDelete, RemoveReturns,
           BeginDetach, DetachWait, DetachDelete, Drain, DrainReturns, Close, CloseReturns, Cancel, Pause
    <3> QED BY <1>s, <3>1
  <2> QED BY <2>1, <2>2, <2>3
<1>4. CASE \/ DrainDone \/ StartWork \/ (\E id \in Ids, v \in Revisions \cup {Foreign} : Submit(id, v))
           \/ (\E r \in RunIds : Expire(r)) \/ UNCHANGED vars
  BY <1>4, <1>s DEF DrainDone, StartWork, Submit, Expire, vars
<1> QED BY <1>1, <1>2, <1>3, <1>4 DEF Next

(* A caller moves by its own steps.                                        *)
LEMMA CallerMovesItself ==
    ASSUME TypeOK, [Next]_vars, NEW c \in Callers
    PROVE  calls'[c] = calls[c] \/ CallerStep(c)
<1>0. calls \in [Callers -> CallRows]
  BY DEF TypeOK
<1>1. ASSUME NEW d \in Callers, d # c, CallerStep(d)
      PROVE  calls'[c] = calls[c]
  <2>1. \/ calls' = calls
        \/ \E row : calls' = [calls EXCEPT ![d] = row]
    BY <1>1 DEF CallerStep, Begin, Return, Goes, Register, RegisterReturns, BeginDeactivate,
           DeactivateAgain, DeactivateUnknownRevoke, DeactivateLock, DeactivateRevoke,
           DeactivateDelete, RemoveReturns, BeginDetach, DetachWait, DetachDelete, Drain,
           DrainReturns, Close, CloseReturns, Cancel, CancelActive, Pause
  <2> QED BY <1>0, <1>1, <2>1
<1>2. CASE \E w \in Workers : WorkerStep(w)
  BY <1>2 DEF WorkerStep, callers, WorkerExits, WorkerSelects, ClaimEnter, ClaimRecheck, ClaimEmpty,
           ClaimRun, HandlerEnters, HandlerRuns, HandlerReturns, Finish, Deadline, Timeout,
           PollCancellation, RequestLookup, RequestLock, RequestSubmit, ReconcileSchedule
<1>3. CASE LoopStep
  BY <1>3 DEF LoopStep, callers, LoopExits, LoopTick, LoopSchedule, LoopWake, LoopLock
<1>4. CASE \/ DrainDone \/ StartWork \/ (\E id \in Ids, v \in Revisions \cup {Foreign} : Submit(id, v))
           \/ (\E r \in RunIds : Expire(r)) \/ UNCHANGED vars
  BY <1>4 DEF DrainDone, StartWork, Submit, Expire, vars, callers
<1> QED BY <1>1, <1>2, <1>3, <1>4 DEF Next

(* The steps that write the table.                                         *)
TableWrite ==
    \/ \E w \in Workers : RequestLock(w) \/ RequestSubmit(w)
    \/ LoopSchedule
    \/ \E e \in RegIds : LoopLock(e)
    \/ \E c \in Callers, id \in Ids, v \in Revisions : Register(c, id, v)
    \/ \E c \in Callers : DeactivateLock(c) \/ DeactivateDelete(c) \/ DetachDelete(c)
    \/ \E c \in Callers, id \in Ids : BeginDetach(c, id)

LEMMA TableWriters ==
    ASSUME [Next]_vars
    PROVE  UNCHANGED table \/ TableWrite
<1>1. ASSUME NEW w \in Workers, WorkerStep(w)
      PROVE  UNCHANGED table \/ TableWrite
  BY <1>1 DEF WorkerStep, TableWrite, WorkerExits, WorkerSelects, ClaimEnter, ClaimRecheck, ClaimEmpty,
         ClaimRun, HandlerEnters, HandlerRuns, HandlerReturns, Finish, Deadline, Timeout,
         PollCancellation, RequestLookup, ReconcileSchedule
<1>2. CASE LoopStep
  BY <1>2 DEF LoopStep, TableWrite, LoopExits, LoopTick, LoopWake
<1>3. ASSUME NEW c \in Callers, CallerStep(c)
      PROVE  UNCHANGED table \/ TableWrite
  BY <1>3 DEF CallerStep, TableWrite, RegisterReturns, BeginDeactivate, DeactivateAgain,
         DeactivateUnknownRevoke, DeactivateRevoke, RemoveReturns, DetachWait, Drain, DrainReturns,
         Close, CloseReturns, Cancel, CancelActive, Pause
<1>4. CASE \/ DrainDone \/ StartWork \/ (\E id \in Ids, v \in Revisions \cup {Foreign} : Submit(id, v))
           \/ (\E r \in RunIds : Expire(r)) \/ UNCHANGED vars
  BY <1>4 DEF DrainDone, StartWork, Submit, Expire, vars
<1> QED BY <1>1, <1>2, <1>3, <1>4 DEF Next

(* What happens to a registration that was made: its name stays, it does   *)
(* not come back once canceled, and its mutex changes hands only from      *)
(* nobody, or to nobody by a step of its owner.                            *)
Takes(e, o) ==
    \/ o \in Workers /\ RequestLock(o) /\ work[o].target = e /\ ~ EntryDone(e)
    \/ o = "loop" /\ LoopLock(e) /\ ~ EntryDone(e)
    \/ o \in Callers /\ DeactivateLock(o) /\ calls[o].reg = e

Gives(e, o) ==
    \/ o \in Workers /\ RequestSubmit(o) /\ work[o].target = e
    \/ o = "loop" /\ LoopSchedule /\ loop.reg = e
    \/ o \in Callers /\ DeactivateDelete(o) /\ calls[o].reg = e

LEMMA RegistrationLasts ==
    ASSUME TypeOK, References, MutexOwned, [Next]_vars, NEW e \in Made
    PROVE  /\ e \in Made'
           /\ regs'[e].id = regs[e].id
           /\ regs[e].canceled => regs'[e].canceled
           /\ \/ regs'[e].scheduling = regs[e].scheduling
              \/ regs[e].scheduling = Nobody /\ Takes(e, regs'[e].scheduling)
              \/ regs'[e].scheduling = Nobody /\ Gives(e, regs[e].scheduling)
<1> DEFINE Goal == /\ e \in Made'
                   /\ regs'[e].id = regs[e].id
                   /\ regs[e].canceled => regs'[e].canceled
                   /\ \/ regs'[e].scheduling = regs[e].scheduling
                      \/ regs[e].scheduling = Nobody /\ Takes(e, regs'[e].scheduling)
                      \/ regs'[e].scheduling = Nobody /\ Gives(e, regs[e].scheduling)
<1>0. /\ regs \in [RegIds -> RegRows] /\ e \in RegIds /\ regs[e] \in RegRows
      /\ lastReg \in Nat /\ e \in Nat /\ e <= lastReg
  BY Bounds DEF TypeOK, Made, RegIds
<1>m. lastReg' = lastReg => e \in Made'
  BY DEF Made
<1>1. CASE UNCHANGED table
  BY <1>1, <1>m DEF table
<1>2. ASSUME NEW w \in Workers, RequestLock(w) PROVE Goal
  <2>1. lastReg' = lastReg
    BY <1>2 DEF RequestLock
  <2>2. CASE regs' = regs
    BY <1>m, <2>1, <2>2
  <2>3. CASE /\ ~ EntryDone(work[w].target)
             /\ regs' = [regs EXCEPT ![work[w].target].scheduling = w]
    <3>1. CASE e = work[w].target
      <4>1. /\ regs'[e].scheduling = w /\ regs'[e].id = regs[e].id
            /\ regs'[e].canceled = regs[e].canceled
        BY <1>0, <2>3, <3>1 DEF RegRows
      <4>2. regs[e].scheduling = Nobody /\ Takes(e, w)
        BY <1>2, <2>3, <3>1 DEF RequestLock, Takes
      <4> QED BY <1>m, <2>1, <4>1, <4>2
    <3>2. CASE e # work[w].target
      <4>1. regs'[e] = regs[e]
        BY <1>0, <2>3, <3>2
      <4> QED BY <1>m, <2>1, <4>1
    <3> QED BY <3>1, <3>2
  <2> QED BY <1>2, <2>2, <2>3 DEF RequestLock
<1>3. ASSUME NEW w \in Workers, RequestSubmit(w) PROVE Goal
  <2>1. lastReg' = lastReg /\ regs' = [regs EXCEPT ![work[w].target].scheduling = Nobody]
    BY <1>3 DEF RequestSubmit
  <2>2. CASE e = work[w].target
    <3>1. /\ regs'[e].scheduling = Nobody /\ regs'[e].id = regs[e].id
          /\ regs'[e].canceled = regs[e].canceled
      BY <1>0, <2>1, <2>2 DEF RegRows
    <3>2. regs[e].scheduling = w /\ Gives(e, w)
      BY <1>3, <2>2 DEF RequestSubmit, MutexOwned, Gives
    <3> QED BY <1>m, <2>1, <3>1, <3>2
  <2>3. CASE e # work[w].target
    <3>1. regs'[e] = regs[e]
      BY <1>0, <2>1, <2>3
    <3> QED BY <1>m, <2>1, <3>1
  <2> QED BY <2>2, <2>3
<1>4. CASE LoopSchedule
  <2>1. lastReg' = lastReg /\ regs' = [regs EXCEPT ![loop.reg].scheduling = Nobody]
    BY <1>4 DEF LoopSchedule
  <2>2. CASE e = loop.reg
    <3>1. /\ regs'[e].scheduling = Nobody /\ regs'[e].id = regs[e].id
          /\ regs'[e].canceled = regs[e].canceled
      BY <1>0, <2>1, <2>2 DEF RegRows
    <3>2. regs[e].scheduling = "loop"
      BY <1>4, <2>2 DEF LoopSchedule, MutexOwned
    <3>3. Gives(e, "loop")
      BY <1>4, <2>2 DEF Gives
    <3> QED BY <1>m, <2>1, <3>1, <3>2, <3>3
  <2>3. CASE e # loop.reg
    <3>1. regs'[e] = regs[e]
      BY <1>0, <2>1, <2>3
    <3> QED BY <1>m, <2>1, <3>1
  <2> QED BY <2>2, <2>3
<1>5. ASSUME NEW f \in RegIds, LoopLock(f) PROVE Goal
  <2>1. lastReg' = lastReg
    BY <1>5 DEF LoopLock
  <2>2. CASE regs' = regs
    BY <1>m, <2>1, <2>2
  <2>3. CASE /\ ~ EntryDone(f)
             /\ regs' = [regs EXCEPT ![f].scheduling = "loop"]
    <3>1. CASE e = f
      <4>1. /\ regs'[e].scheduling = "loop" /\ regs'[e].id = regs[e].id
            /\ regs'[e].canceled = regs[e].canceled
        BY <1>0, <2>3, <3>1 DEF RegRows
      <4>2. regs[e].scheduling = Nobody
        BY <1>5, <3>1 DEF LoopLock
      <4>3. Takes(e, "loop")
        BY <1>5, <2>3, <3>1 DEF Takes
      <4> QED BY <1>m, <2>1, <4>1, <4>2, <4>3
    <3>2. CASE e # f
      <4>1. regs'[e] = regs[e]
        BY <1>0, <2>3, <3>2
      <4> QED BY <1>m, <2>1, <4>1
    <3> QED BY <3>1, <3>2
  <2> QED BY <1>5, <2>2, <2>3 DEF LoopLock, Schedules
<1>6. ASSUME NEW c \in Callers, NEW id \in Ids, NEW v \in Revisions, Register(c, id, v) PROVE Goal
  <2>1. lastReg' = lastReg + 1 /\ regs'[e] = regs[e]
    BY <1>0, <1>6 DEF Register
  <2>2. e \in Made'
    BY <1>0, <2>1 DEF Made
  <2> QED BY <2>1, <2>2
<1>7. ASSUME NEW c \in Callers, DeactivateLock(c) PROVE Goal
  <2>1. lastReg' = lastReg
    BY <1>7 DEF DeactivateLock
  <2>2. CASE regs' = regs
    BY <1>m, <2>1, <2>2
  <2>3. CASE regs' = [regs EXCEPT ![calls[c].reg].canceled = TRUE, ![calls[c].reg].scheduling = c]
    <3>1. CASE e = calls[c].reg
      <4>1. regs'[e].scheduling = c /\ regs'[e].id = regs[e].id /\ regs'[e].canceled
        BY <1>0, <2>3, <3>1 DEF RegRows
      <4>2. regs[e].scheduling = Nobody /\ Takes(e, c)
        BY <1>7, <2>3, <3>1 DEF DeactivateLock, Takes
      <4> QED BY <1>m, <2>1, <4>1, <4>2
    <3>2. CASE e # calls[c].reg
      <4>1. regs'[e] = regs[e]
        BY <1>0, <2>3, <3>2
      <4> QED BY <1>m, <2>1, <4>1
    <3> QED BY <3>1, <3>2
  <2> QED BY <1>7, <2>2, <2>3 DEF DeactivateLock
<1>8. ASSUME NEW c \in Callers, DeactivateDelete(c) PROVE Goal
  <2>1. lastReg' = lastReg /\ regs' = [regs EXCEPT ![calls[c].reg].scheduling = Nobody]
    BY <1>8 DEF DeactivateDelete
  <2>2. CASE e = calls[c].reg
    <3>1. /\ regs'[e].scheduling = Nobody /\ regs'[e].id = regs[e].id
          /\ regs'[e].canceled = regs[e].canceled
      BY <1>0, <2>1, <2>2 DEF RegRows
    <3>2. regs[e].scheduling = c /\ Gives(e, c)
      BY <1>8, <2>2 DEF DeactivateDelete, MutexOwned, Gives, Sweeping
    <3> QED BY <1>m, <2>1, <3>1, <3>2
  <2>3. CASE e # calls[c].reg
    <3>1. regs'[e] = regs[e]
      BY <1>0, <2>1, <2>3
    <3> QED BY <1>m, <2>1, <3>1
  <2> QED BY <2>2, <2>3
<1>9. ASSUME NEW c \in Callers, DetachDelete(c) PROVE Goal
  BY <1>9, <1>m DEF DetachDelete
<1>10. ASSUME NEW c \in Callers, NEW id \in Ids, BeginDetach(c, id) PROVE Goal
  <2>1. lastReg' = lastReg /\ regs' = [regs EXCEPT ![entries[id]].canceled = TRUE]
    BY <1>10 DEF BeginDetach
  <2>2. /\ regs'[e].scheduling = regs[e].scheduling /\ regs'[e].id = regs[e].id
        /\ regs[e].canceled => regs'[e].canceled
    BY <1>0, <2>1 DEF RegRows
  <2> QED BY <1>m, <2>1, <2>2
<1> QED BY <1>1, <1>2, <1>3, <1>4, <1>5, <1>6, <1>7, <1>8, <1>9, <1>10, TableWriters DEF TableWrite

(* The name of a registration is free, or leads to another, only after its *)
(* own deletion.                                                           *)
LEMMA EntryLasts ==
    ASSUME TypeOK, [Next]_vars, NEW i \in Ids
    PROVE  \/ entries'[i] = entries[i]
           \/ /\ entries[i] = 0
              /\ \E c \in Callers, v \in Revisions : Register(c, i, v)
           \/ /\ entries'[i] = 0
              /\ \E c \in Callers : DeactivateDelete(c) /\ calls[c].id = i
           \/ /\ entries'[i] = 0
              /\ \E c \in Callers : DetachDelete(c) /\ calls[c].id = i /\ entries[i] = calls[c].reg
<1>0. entries \in [Ids -> 0..MaxRegs]
  BY DEF TypeOK
<1>1. CASE UNCHANGED table
  BY <1>1 DEF table
<1>2. ASSUME NEW c \in Callers, NEW id \in Ids, NEW v \in Revisions, Register(c, id, v)
      PROVE  entries'[i] = entries[i] \/ (id = i /\ entries[i] = 0)
  BY <1>0, <1>2 DEF Register, Accepts
<1>3. ASSUME NEW c \in Callers, DeactivateDelete(c)
      PROVE  entries'[i] = entries[i] \/ (entries'[i] = 0 /\ calls[c].id = i)
  BY <1>0, <1>3 DEF DeactivateDelete
<1>4. ASSUME NEW c \in Callers, DetachDelete(c)
      PROVE  \/ entries'[i] = entries[i]
             \/ entries'[i] = 0 /\ calls[c].id = i /\ entries[i] = calls[c].reg
  BY <1>0, <1>4 DEF DetachDelete, Without
<1>5. CASE \/ \E w \in Workers : RequestLock(w) \/ RequestSubmit(w)
           \/ LoopSchedule
           \/ \E e \in RegIds : LoopLock(e)
           \/ \E c \in Callers : DeactivateLock(c)
           \/ \E c \in Callers, id \in Ids : BeginDetach(c, id)
  BY <1>5 DEF RequestLock, RequestSubmit, LoopSchedule, LoopLock, DeactivateLock, BeginDetach
<1> QED BY <1>1, <1>2, <1>3, <1>4, <1>5, TableWriters DEF TableWrite

(* A worker's own step.  A handler is entered only under a registration    *)
(* that is not canceled, a run is held only by claiming it, and a request  *)
(* is under way only with the mutex.                                       *)
LEMMA WorkerMoves ==
    ASSUME TypeOK, References, Holding, NEW w \in Workers, WorkerStep(w)
    PROVE  /\ WorkerRefers(work'[w])
           /\ work'[w].pc \in InHandler
              => /\ work'[w].reg = work[w].reg
                 /\ work[w].pc \in InHandler \/ ~ EntryDone(work[w].reg)
           /\ work'[w].pc \in InRun
              => \/ work[w].pc \in InRun /\ work'[w].run = work[w].run
                 \/ \E r \in RunIds : ClaimRun(w, r) /\ work'[w].run = r
           /\ work'[w].pc = "requesting"
              => /\ work'[w].target = work[w].target
                 /\ \/ work[w].pc = "requesting"
                    \/ RequestLock(w) /\ ~ EntryDone(work[w].target)
<1> USE DEF Stays
<1> DEFINE Goal == /\ WorkerRefers(work'[w])
                   /\ work'[w].pc \in InHandler
                      => /\ work'[w].reg = work[w].reg
                         /\ work[w].pc \in InHandler \/ ~ EntryDone(work[w].reg)
                   /\ work'[w].pc \in InRun
                      => \/ work[w].pc \in InRun /\ work'[w].run = work[w].run
                         \/ \E r \in RunIds : ClaimRun(w, r) /\ work'[w].run = r
                   /\ work'[w].pc = "requesting"
                      => /\ work'[w].target = work[w].target
                         /\ \/ work[w].pc = "requesting"
                            \/ RequestLock(w) /\ ~ EntryDone(work[w].target)
<1>0. /\ work \in [Workers -> WorkRows] /\ work[w] \in WorkRows /\ Idle \in WorkRows
      /\ entries \in [Ids -> 0..MaxRegs] /\ WorkerRefers(work[w]) /\ Idle.pc = "idle"
      /\ Idle.seen = [i \in Ids |-> 0]
  BY BlankRows DEF TypeOK, References
<1>out. ASSUME work'[w].pc \notin InRun \cup {"lease", "reconcile"},
               \A i \in Ids : work'[w].seen[i] # 0 => work'[w].seen[i] \in Made
        PROVE  Goal
  BY <1>out DEF WorkerRefers, InRun, InHandler
<1>idle. ASSUME work'[w] = Idle PROVE Goal
  BY <1>0, <1>idle, <1>out DEF InRun, InHandler
<1>1. CASE WorkerExits(w)
  <2>1. work'[w].pc = "exit" /\ work'[w].seen = [i \in Ids |-> 0]
    BY <1>0, <1>1 DEF WorkerExits, WorkRows
  <2> QED BY <2>1, <1>out DEF InRun, InHandler
<1>2. CASE WorkerSelects(w)
  <2> DEFINE all == IF paused THEN Interrupted ELSE work
  <2>1. all \in [Workers -> WorkRows]
    BY <1>0, InterruptedRows
  <2>2. work' = all \/ work' = [all EXCEPT ![w] = [Idle EXCEPT !.pc = "claim", !.seen = Selected]]
    BY <1>2 DEF WorkerSelects
  <2>3. CASE work' = all
    <3>1. SamePlace(w)
      BY <2>3, InterruptedStay
    <3> QED BY <1>0, <1>2, <1>out, <3>1 DEF WorkerSelects, SamePlace, WorkerRefers, InRun, InHandler
  <2>4. CASE work' = [all EXCEPT ![w] = [Idle EXCEPT !.pc = "claim", !.seen = Selected]]
    <3>1. work'[w].pc = "claim" /\ work'[w].seen = Selected
      <4> HIDE DEF all
      <4> QED BY <1>0, <2>1, <2>4 DEF WorkRows
    <3>2. \A i \in Ids : Selected[i] # 0 => Selected[i] \in Made
      BY DEF Selected, References, TableRefers
    <3> QED BY <1>out, <3>1, <3>2 DEF InRun, InHandler
  <2> QED BY <2>2, <2>3, <2>4
<1>3. CASE ClaimEnter(w)
  <2>1. work'[w] = Idle \/ (work'[w].pc = "admit" /\ work'[w].seen = work[w].seen)
    BY <1>0, <1>3 DEF ClaimEnter, WorkRows
  <2> QED BY <1>0, <2>1, <1>idle, <1>out DEF InRun, InHandler, WorkerRefers
<1>4. CASE ClaimRecheck(w)
  <2>1. \/ work'[w] = Idle
        \/ work'[w].pc = "lease" /\ work'[w].seen = work[w].seen /\ work'[w].live = Live(w)
    <3>1. work'[w] = Idle \/ work'[w] = [work[w] EXCEPT !.pc = "lease", !.live = Live(w)]
      BY <1>0, <1>4 DEF ClaimRecheck
    <3> QED BY <1>0, <3>1 DEF WorkRows
  <2>2. ASSUME work'[w].pc = "lease", work'[w].seen = work[w].seen, work'[w].live = Live(w)
        PROVE  Goal
    BY <1>0, <2>2 DEF WorkerRefers, InRun, InHandler, Live
  <2> QED BY <2>1, <2>2, <1>idle
<1>5. CASE ClaimEmpty(w) \/ ReconcileSchedule(w)
  BY <1>0, <1>5, <1>idle DEF ClaimEmpty, ReconcileSchedule
<1>6. ASSUME NEW r \in RunIds, ClaimRun(w, r) PROVE Goal
  <2>1. /\ work'[w].pc = "start" /\ work'[w].run = r /\ work'[w].reg = work[w].seen[runs[r].id]
        /\ work'[w].seen = [i \in Ids |-> 0]
    BY <1>0, <1>6 DEF ClaimRun, WorkRows
  <2>2. runs[r].id \in Ids
    BY DEF TypeOK, RunRows
  <2>3. work[w].seen[runs[r].id] \in Made
    BY <1>0, <1>6, <2>2 DEF ClaimRun, WorkerRefers
  <2> QED BY <1>6, <2>1, <2>3 DEF WorkerRefers, InRun, InHandler
<1>7. CASE HandlerEnters(w)
  <2>1. /\ work'[w].run = work[w].run /\ work'[w].reg = work[w].reg /\ work'[w].seen = work[w].seen
        /\ \/ work'[w].pc = "entered" /\ Refusal(w) = "none"
           \/ work'[w].pc = "finish"
    <3>1. \/ Refusal(w) = "none" /\ work'[w] = [work[w] EXCEPT !.pc = "entered"]
          \/ work'[w] = [work[w] EXCEPT !.pc = "finish", !.outcome = Refusal(w)]
      BY <1>0, <1>7 DEF HandlerEnters
    <3> QED BY <1>0, <3>1 DEF WorkRows
  <2>2. Refusal(w) = "none" => ~ EntryDone(work[w].reg)
    BY DEF Refusal
  <2>3. work[w].pc = "start"
    BY <1>7 DEF HandlerEnters
  <2> QED BY <1>0, <2>1, <2>2, <2>3 DEF WorkerRefers, InRun, InHandler
<1>8. CASE HandlerRuns(w) \/ \E o \in HandlerResults \cup {"context"} : HandlerReturns(w, o)
  <2>1. /\ work'[w].run = work[w].run /\ work'[w].reg = work[w].reg /\ work'[w].seen = work[w].seen
        /\ work'[w].pc \in {"running", "finish"}
    <3>1. CASE HandlerRuns(w)
      BY <1>0, <3>1 DEF HandlerRuns, WorkRows
    <3>2. ASSUME NEW o, HandlerReturns(w, o)
          PROVE  /\ work'[w].run = work[w].run /\ work'[w].reg = work[w].reg
                 /\ work'[w].seen = work[w].seen /\ work'[w].pc = "finish"
      BY <1>0, <3>2 DEF HandlerReturns, WorkRows
    <3> QED BY <1>8, <3>1, <3>2
  <2>2. work[w].pc \in InHandler
    BY <1>8 DEF HandlerRuns, HandlerReturns, InHandler
  <2> QED BY <1>0, <2>1, <2>2 DEF WorkerRefers, InRun, InHandler
<1>9. CASE Finish(w)
  <2> DEFINE e == entries[runs[work[w].run].id]
  <2>1. runs[work[w].run].id \in Ids
    BY <1>9 DEF Finish, Holding, InRun, TypeOK, RunRows
  <2>2. e # 0 => e \in Made
    BY <2>1 DEF References, TableRefers
  <2>3. \/ work'[w] = Idle
        \/ e # 0 /\ work'[w] = [Idle EXCEPT !.pc = "reconcile", !.target = e]
    BY <1>0, <1>9 DEF Finish
  <2> HIDE DEF e
  <2>4. ASSUME e # 0, work'[w] = [Idle EXCEPT !.pc = "reconcile", !.target = e] PROVE Goal
    <3>1. /\ work'[w].pc = "reconcile" /\ work'[w].target = e
          /\ work'[w].seen = [i \in Ids |-> 0]
      BY <1>0, <2>4 DEF WorkRows
    <3> QED BY <2>2, <2>4, <3>1 DEF WorkerRefers, InRun, InHandler
  <2> QED BY <2>3, <2>4, <1>idle
<1>10. CASE Deadline(w) \/ PollCancellation(w) \/ Timeout(w)
  <2>1. SamePlace(w)
    BY <1>0, <1>10, CancelSparesRow DEF Deadline, PollCancellation, Timeout, SamePlace, WorkRows
  <2> QED BY <1>0, <2>1 DEF SamePlace, WorkerRefers, InRun, InHandler
<1>11. ASSUME NEW id \in Ids, RequestLookup(w, id) PROVE Goal
  <2>1. /\ work'[w].run = work[w].run /\ work'[w].reg = work[w].reg /\ work'[w].seen = work[w].seen
        /\ work'[w].pc = "request" /\ work'[w].target = entries[id]
    BY <1>0, <1>11 DEF RequestLookup, WorkRows
  <2>2. work[w].pc = "running" /\ entries[id] \in Made
    BY <1>11 DEF RequestLookup, References, TableRefers
  <2> QED BY <1>0, <2>1, <2>2 DEF WorkerRefers, InRun, InHandler
<1>12. CASE RequestLock(w)
  <2>1. /\ work'[w].run = work[w].run /\ work'[w].reg = work[w].reg /\ work'[w].seen = work[w].seen
        /\ \/ work'[w].pc = "running"
           \/ /\ work'[w].pc = "requesting" /\ work'[w].target = work[w].target
              /\ ~ EntryDone(work[w].target)
    <3>1. \/ work'[w] = [work[w] EXCEPT !.pc = "running", !.target = 0]
          \/ ~ EntryDone(work[w].target) /\ work'[w] = [work[w] EXCEPT !.pc = "requesting"]
      BY <1>0, <1>12 DEF RequestLock
    <3> QED BY <1>0, <3>1 DEF WorkRows
  <2>2. work[w].pc = "request"
    BY <1>12 DEF RequestLock
  <2> QED BY <1>0, <1>12, <2>1, <2>2 DEF WorkerRefers, InRun, InHandler
<1>13. CASE RequestSubmit(w)
  <2>1. /\ work'[w].run = work[w].run /\ work'[w].reg = work[w].reg /\ work'[w].seen = work[w].seen
        /\ work'[w].pc = "running"
    BY <1>0, <1>13 DEF RequestSubmit, WorkRows
  <2>2. work[w].pc = "requesting"
    BY <1>13 DEF RequestSubmit
  <2> QED BY <1>0, <2>1, <2>2 DEF WorkerRefers, InRun, InHandler
<1> QED BY <1>1, <1>2, <1>3, <1>4, <1>5, <1>6, <1>7, <1>8, <1>9, <1>10, <1>11, <1>12, <1>13, Zenon
        DEF WorkerStep

(* A run is out of a worker's hands when it is finished, a mutex when the  *)
(* request is submitted.                                                   *)
LEMMA WorkerLetsGo ==
    ASSUME TypeOK, NEW w \in Workers
    PROVE  /\ Finish(w) => work'[w].pc \notin InRun
           /\ RequestSubmit(w) => work'[w].pc # "requesting"
<1>0. work \in [Workers -> WorkRows] /\ work[w] \in WorkRows /\ Idle \in WorkRows /\ Idle.pc = "idle"
  BY BlankRows DEF TypeOK
<1>1. ASSUME NEW e PROVE [Idle EXCEPT !.pc = "reconcile", !.target = e].pc = "reconcile"
  BY <1>0 DEF WorkRows
<1>2. Finish(w) => work'[w].pc \in {"idle", "reconcile"}
  BY <1>0, <1>1 DEF Finish, Stays
<1>3. RequestSubmit(w) => work'[w].pc = "running"
  BY <1>0 DEF RequestSubmit, Stays, WorkRows
<1> QED BY <1>2, <1>3 DEF InRun, InHandler

(* The steps that write the store.                                         *)
StoreWrite ==
    \/ \E w \in Workers, r \in RunIds : ClaimRun(w, r)
    \/ \E w \in Workers : Finish(w) \/ RequestSubmit(w)
    \/ LoopSchedule
    \/ \E c \in Callers : DeactivateUnknownRevoke(c) \/ DeactivateRevoke(c)
    \/ \E c \in Callers, r \in RunIds : Cancel(c, r)
    \/ \E id \in Ids, v \in Revisions \cup {Foreign} : Submit(id, v)
    \/ \E r \in RunIds : Expire(r)

LEMMA StoreWriters ==
    ASSUME [Next]_vars
    PROVE  UNCHANGED storeVars \/ StoreWrite
<1>1. ASSUME NEW w \in Workers, WorkerStep(w)
      PROVE  UNCHANGED storeVars \/ StoreWrite
  BY <1>1 DEF WorkerStep, StoreWrite, WorkerExits, WorkerSelects, ClaimEnter, ClaimRecheck, ClaimEmpty,
         HandlerEnters, HandlerRuns, HandlerReturns, Deadline, Timeout,
         PollCancellation, RequestLookup, RequestLock, ReconcileSchedule
<1>2. CASE LoopStep
  BY <1>2 DEF LoopStep, StoreWrite, LoopExits, LoopTick, LoopWake, LoopLock
<1>3. ASSUME NEW c \in Callers, CallerStep(c)
      PROVE  UNCHANGED storeVars \/ StoreWrite
  BY <1>3 DEF CallerStep, StoreWrite, Register, RegisterReturns, BeginDeactivate, DeactivateAgain,
         DeactivateLock, DeactivateDelete, RemoveReturns, BeginDetach, DetachWait, DetachDelete,
         Drain, DrainReturns, Close, CloseReturns, CancelActive, Pause
<1>4. CASE \/ DrainDone \/ StartWork \/ (\E id \in Ids, v \in Revisions \cup {Foreign} : Submit(id, v))
           \/ (\E r \in RunIds : Expire(r)) \/ UNCHANGED vars
  BY <1>4 DEF DrainDone, StartWork, StoreWrite, vars
<1> QED BY <1>1, <1>2, <1>3, <1>4 DEF Next

(* How a run enters the store: for nobody, or for a registration whose     *)
(* mutex the writer owns.                                                  *)
Writes(e) ==
    \/ LoopSchedule /\ loop.reg = e
    \/ \E w \in Workers : RequestSubmit(w) /\ work[w].target = e

Enters(r) ==
    /\ r = lastRun + 1 /\ lastRun' = lastRun + 1
    /\ runs'[r].state = "queued" /\ runs'[r].attempts = 0
    /\ \/ runs'[r].by = 0
       \/ /\ runs'[r].by \in Made /\ Writes(runs'[r].by)
          /\ runs'[r].id = regs[runs'[r].by].id

(* How a run in the store moves.                                           *)
Moves(r) ==
    /\ runs'[r].id = runs[r].id /\ runs'[r].by = runs[r].by
    /\ \/ /\ \E w \in Workers : ClaimRun(w, r)
          /\ runs[r].state \in Pending /\ runs'[r].state = "running"
       \/ /\ \E w \in Workers : Finish(w) /\ work[w].run = r
          /\ runs[r].state \in Leased /\ runs'[r].state \in Ended \cup {"retry_wait"}
          /\ runs'[r].state = "retry_wait"
             => runs'[r].attempts < MaxAttempts /\ runs[r].state = "running"
       \/ runs[r].state \in Pending /\ runs'[r].state = "canceled"
       \/ runs[r].state \in Leased /\ runs'[r].state = "cancel_requested"
       \/ Expire(r) /\ runs[r].state \in Leased /\ runs'[r].state = "unknown"

LEMMA InsertedEnters ==
    ASSUME TypeOK, NEW e \in RegIds, e \in Made, Writes(e),
           Inserted(regs[e].id, regs[e].revision, e), NEW r \in RunIds
    PROVE  (runs'[r] = runs[r] \/ Enters(r)) /\ lastRun' >= lastRun
<1>0. runs \in [RunIds -> RunRows] /\ lastRun \in Nat /\ regs[e] \in RegRows /\ e \in 0..MaxRegs
  BY Bounds DEF TypeOK, RegIds
<1>1. CASE UNCHANGED storeVars
  BY <1>0, <1>1 DEF storeVars
<1>2. CASE /\ lastRun' = lastRun + 1
           /\ runs' = [runs EXCEPT ![lastRun + 1] = NewRun(regs[e].id, regs[e].revision, e)]
  <2>1. CASE r # lastRun + 1
    BY <1>0, <1>2, <2>1
  <2>2. CASE r = lastRun + 1
    <3>1. runs'[r] = NewRun(regs[e].id, regs[e].revision, e)
      BY <1>0, <1>2, <2>2
    <3>2. regs[e].id \in Ids /\ regs[e].revision \in Revisions \cup {Foreign}
      BY <1>0 DEF RegRows
    <3>3. /\ runs'[r].id = regs[e].id /\ runs'[r].by = e
          /\ runs'[r].state = "queued" /\ runs'[r].attempts = 0
      BY <1>0, <3>1, <3>2, FreshRun
    <3>4. Enters(r)
      BY <1>2, <2>2, <3>3 DEF Enters
    <3> QED BY <1>0, <1>2, <3>4
  <2> QED BY <2>1, <2>2
<1> QED BY <1>1, <1>2 DEF Inserted

(* A revocation cancels the runs of one name.                              *)
LEMMA SweepMoves ==
    ASSUME TypeOK, NEW id \in Ids, NEW r \in RunIds, runs' = CancelHandler(id) \/ runs' = runs
    PROVE  runs'[r] = runs[r] \/ Moves(r)
<1>0. runs[r] \in RunRows
  BY DEF TypeOK
<1>1. \/ runs'[r] = runs[r]
      \/ runs[r].state \in Pending /\ runs'[r] = [runs[r] EXCEPT !.state = "canceled"]
      \/ runs[r].state = "running" /\ runs'[r] = [runs[r] EXCEPT !.state = "cancel_requested"]
  BY DEF CancelHandler
<1> QED BY <1>0, <1>1 DEF Moves, RunRows, Leased

LEMMA RunLasts ==
    ASSUME TypeOK, References, Holding, [Next]_vars, NEW r \in RunIds
    PROVE  /\ runs'[r] = runs[r] \/ Enters(r) \/ Moves(r)
           /\ lastRun' >= lastRun
<1> DEFINE Goal == /\ runs'[r] = runs[r] \/ Enters(r) \/ Moves(r)
                   /\ lastRun' >= lastRun
<1>0. runs \in [RunIds -> RunRows] /\ runs[r] \in RunRows /\ lastRun \in Nat
  BY DEF TypeOK
<1>1. CASE UNCHANGED storeVars
  BY <1>0, <1>1 DEF storeVars
<1>2. ASSUME NEW w \in Workers, NEW q \in RunIds, ClaimRun(w, q) PROVE Goal
  <2>1. CASE q # r
    BY <1>0, <1>2, <2>1 DEF ClaimRun
  <2>2. CASE q = r
    <3>1. runs'[r].id = runs[r].id /\ runs'[r].by = runs[r].by /\ runs'[r].state = "running"
      BY <1>0, <1>2, <2>2 DEF ClaimRun, RunRows
    <3>2. runs[r].state \in Pending /\ lastRun' = lastRun
      BY <1>2, <2>2 DEF ClaimRun
    <3> QED BY <1>0, <1>2, <2>2, <3>1, <3>2 DEF Moves
  <2> QED BY <2>1, <2>2
<1>3. ASSUME NEW w \in Workers, Finish(w) PROVE Goal
  <2> DEFINE state == Recorded(work[w].run, Classified(work[w].outcome, RunDone(w)))
  <2>1. lastRun' = lastRun /\ (runs' = runs \/ runs' = [runs EXCEPT ![work[w].run].state = state])
    BY <1>3 DEF Finish
  <2>2. CASE runs' = runs \/ work[w].run # r
    <3> HIDE DEF state
    <3> QED BY <1>0, <2>1, <2>2
  <2>3. CASE work[w].run = r /\ runs' = [runs EXCEPT ![work[w].run].state = state]
    <3>1. /\ state \in Ended \cup {"retry_wait"}
          /\ state = "retry_wait" => runs[r].attempts < MaxAttempts /\ runs[r].state # "cancel_requested"
      BY <1>0, <2>3, RecordedState
    <3> HIDE DEF state
    <3>2. /\ runs'[r].state = state /\ runs'[r].id = runs[r].id /\ runs'[r].by = runs[r].by
          /\ runs'[r].attempts = runs[r].attempts
      BY <1>0, <2>3 DEF RunRows
    <3>3. runs[r].state \in Leased
      BY <1>3, <2>3 DEF Finish, Holding, InRun
    <3> QED BY <1>0, <1>3, <2>1, <2>3, <3>1, <3>2, <3>3 DEF Moves, Leased
  <2> QED BY <2>1, <2>2, <2>3
<1>4. ASSUME NEW w \in Workers, RequestSubmit(w) PROVE Goal
  <2>1. work[w].target \in RegIds /\ work[w].target \in Made
    BY <1>4, Bounds DEF RequestSubmit, References, WorkerRefers, TypeOK, Made, RegIds
  <2>2. Writes(work[w].target)
    BY <1>4 DEF Writes
  <2> QED BY <1>4, <2>1, <2>2, InsertedEnters DEF RequestSubmit
<1>5. CASE LoopSchedule
  <2>1. loop.reg \in RegIds /\ loop.reg \in Made
    BY <1>5, Bounds DEF LoopSchedule, References, LoopRefers, TypeOK, Made, RegIds
  <2>2. Writes(loop.reg)
    BY <1>5 DEF Writes
  <2> QED BY <1>5, <2>1, <2>2, InsertedEnters DEF LoopSchedule
<1>6. ASSUME NEW c \in Callers, DeactivateUnknownRevoke(c) \/ DeactivateRevoke(c) PROVE Goal
  <2>1. calls[c].id \in Ids
    BY DEF TypeOK, CallRows
  <2>2. (runs' = CancelHandler(calls[c].id) \/ runs' = runs) /\ lastRun' = lastRun
    BY <1>6 DEF DeactivateUnknownRevoke, DeactivateRevoke
  <2> QED BY <1>0, <2>1, <2>2, SweepMoves
<1>7. ASSUME NEW c \in Callers, NEW q \in RunIds, Cancel(c, q) PROVE Goal
  <2>1. CASE q # r
    BY <1>0, <1>7, <2>1 DEF Cancel
  <2>2. CASE q = r
    <3>1. /\ runs'[r].id = runs[r].id /\ runs'[r].by = runs[r].by
          /\ \/ runs[r].state \in Leased /\ runs'[r].state = "cancel_requested"
             \/ runs[r].state \in Pending /\ runs'[r].state = "canceled"
      BY <1>0, <1>7, <2>2 DEF Cancel, RunRows
    <3>2. lastRun' = lastRun
      BY <1>7 DEF Cancel
    <3> QED BY <1>0, <3>1, <3>2 DEF Moves
  <2> QED BY <2>1, <2>2
<1>8. ASSUME NEW id \in Ids, NEW v \in Revisions \cup {Foreign}, Submit(id, v) PROVE Goal
  <2>1. lastRun' = lastRun + 1 /\ runs' = [runs EXCEPT ![lastRun + 1] = NewRun(id, v, 0)]
    BY <1>8 DEF Submit
  <2>2. CASE r # lastRun + 1
    BY <1>0, <2>1, <2>2
  <2>3. CASE r = lastRun + 1
    <3>1. runs'[r] = NewRun(id, v, 0)
      BY <1>0, <2>1, <2>3
    <3>2. runs'[r].by = 0 /\ runs'[r].state = "queued" /\ runs'[r].attempts = 0
      BY <3>1, FreshRun, Bounds
    <3> QED BY <1>0, <2>1, <2>3, <3>2 DEF Enters
  <2> QED BY <2>2, <2>3
<1>9. ASSUME NEW q \in RunIds, Expire(q) PROVE Goal
  <2>1. CASE q # r
    BY <1>0, <1>9, <2>1 DEF Expire
  <2>2. CASE q = r
    <3>1. /\ runs'[r].id = runs[r].id /\ runs'[r].by = runs[r].by /\ runs'[r].state = "unknown"
          /\ runs[r].state \in Leased
      BY <1>0, <1>9, <2>2 DEF Expire, RunRows
    <3>2. lastRun' = lastRun
      BY <1>9 DEF Expire
    <3> QED BY <1>0, <1>9, <2>2, <3>1, <3>2 DEF Moves
  <2> QED BY <2>1, <2>2
<1> QED BY <1>1, <1>2, <1>3, <1>4, <1>5, <1>6, <1>7, <1>8, <1>9, StoreWriters DEF StoreWrite

(* The loop's part.                                                        *)
LEMMA LoopMoves ==
    ASSUME TypeOK, References, [Next]_vars
    PROVE  /\ loop'.todo \subseteq Made
           /\ loop'.pc = "schedule"
              => \/ loop'.reg = loop.reg /\ loop.pc = "schedule" /\ ~ LoopSchedule
                 \/ loop'.reg \in Made /\ LoopLock(loop'.reg) /\ regs'[loop'.reg].scheduling = "loop"
<1> DEFINE Goal == /\ loop'.todo \subseteq Made
                   /\ loop'.pc = "schedule"
                      => \/ loop'.reg = loop.reg /\ loop.pc = "schedule" /\ ~ LoopSchedule
                         \/ /\ loop'.reg \in Made /\ LoopLock(loop'.reg)
                            /\ regs'[loop'.reg].scheduling = "loop"
<1>0. /\ loop \in LoopRows /\ loop.todo \subseteq Made /\ regs \in [RegIds -> RegRows]
      /\ loop.pc = "schedule" => loop.reg \in Made
  BY DEF TypeOK, References, LoopRefers
<1>s. LoopSchedule => loop'.pc # "schedule" /\ loop'.todo \subseteq Made
  BY <1>0 DEF LoopSchedule, Remaining
<1>1. CASE loop' = loop
  BY <1>0, <1>1, <1>s
<1>2. CASE LoopExits
  BY <1>0, <1>2 DEF LoopExits, LoopRows
<1>3. CASE LoopTick
  <2>1. {e \in RegIds : entries[regs[e].id] = e} \subseteq Made
    <3> SUFFICES ASSUME NEW e \in RegIds, entries[regs[e].id] = e PROVE e \in Made
      OBVIOUS
    <3>1. regs[e].id \in Ids /\ e # 0
      BY <1>0 DEF RegRows, RegIds
    <3> QED BY <3>1 DEF References, TableRefers
  <2>2. loop' = loop \/ loop' = Remaining({e \in RegIds : entries[regs[e].id] = e})
    BY <1>3 DEF LoopTick
  <2> QED BY <1>1, <2>1, <2>2 DEF Remaining
<1>4. CASE LoopWake
  BY <1>0, <1>4 DEF LoopWake, Remaining
<1>5. ASSUME NEW e \in RegIds, LoopLock(e) PROVE Goal
  <2>1. \/ loop' = Remaining(loop.todo \ {e})
        \/ /\ loop' = [loop EXCEPT !.pc = "schedule", !.reg = e]
           /\ regs' = [regs EXCEPT ![e].scheduling = "loop"]
    BY <1>5 DEF LoopLock
  <2>2. CASE loop' = Remaining(loop.todo \ {e})
    BY <1>0, <2>2 DEF Remaining
  <2>3. CASE /\ loop' = [loop EXCEPT !.pc = "schedule", !.reg = e]
             /\ regs' = [regs EXCEPT ![e].scheduling = "loop"]
    <3>1. loop'.todo = loop.todo /\ loop'.reg = e
      BY <1>0, <2>3 DEF LoopRows
    <3>2. regs'[e].scheduling = "loop"
      BY <1>0, <2>3 DEF RegRows
    <3>3. e \in Made
      BY <1>0, <1>5 DEF LoopLock
    <3> QED BY <1>0, <1>5, <3>1, <3>2, <3>3
  <2> QED BY <2>1, <2>2, <2>3
<1>6. CASE \E c \in Callers, id \in Ids, v \in Revisions : Register(c, id, v)
  <2>1. loop' = loop \/ loop' = [loop EXCEPT !.pc = "wait"]
    BY <1>6 DEF Register
  <2> QED BY <1>0, <1>1, <2>1 DEF LoopRows
<1>7. \/ loop' = loop \/ LoopStep
      \/ \E c \in Callers, id \in Ids, v \in Revisions : Register(c, id, v)
  <2>1. ASSUME NEW w \in Workers, WorkerStep(w) PROVE loop' = loop
    BY <2>1 DEF WorkerStep, WorkerExits, WorkerSelects, ClaimEnter, ClaimRecheck, ClaimEmpty,
         ClaimRun, HandlerEnters, HandlerRuns, HandlerReturns, Finish, Deadline, Timeout,
         PollCancellation, RequestLookup, RequestLock, RequestSubmit, ReconcileSchedule
  <2>2. ASSUME NEW c \in Callers, CallerStep(c)
        PROVE  loop' = loop \/ \E id \in Ids, v \in Revisions : Register(c, id, v)
    BY <2>2 DEF CallerStep, RegisterReturns, BeginDeactivate, DeactivateAgain,
         DeactivateUnknownRevoke, DeactivateLock, DeactivateRevoke, DeactivateDelete, RemoveReturns,
         BeginDetach, DetachWait, DetachDelete, Drain, DrainReturns, Close, CloseReturns, Cancel,
         CancelActive, Pause
  <2>3. CASE \/ DrainDone \/ StartWork \/ (\E id \in Ids, v \in Revisions \cup {Foreign} : Submit(id, v))
             \/ (\E r \in RunIds : Expire(r)) \/ UNCHANGED vars
    BY <2>3 DEF DrainDone, StartWork, Submit, Expire, vars
  <2> QED BY <2>1, <2>2, <2>3 DEF Next
<1> QED BY <1>1, <1>2, <1>3, <1>4, <1>5, <1>6, <1>7, <1>s DEF LoopStep

(* A caller's own step, where it has a registration in hand.               *)
LEMMA CallerMoves ==
    ASSUME TypeOK, NEW c \in Callers, CallerStep(c)
    PROVE  \/ calls'[c] = calls[c]
           \/ calls'[c].pc \notin Concerned
           \/ /\ calls'[c].id \in Ids /\ calls'[c].reg = entries[calls'[c].id] /\ calls'[c].reg # 0
              /\ calls'[c].pc = "lock"
           \/ /\ calls'[c].id \in Ids /\ calls'[c].reg = entries[calls'[c].id] /\ calls'[c].reg # 0
              /\ calls'[c].pc = "detachWait" /\ BeginDetach(c, calls'[c].id)
           \/ /\ calls'[c].reg = calls[c].reg /\ calls'[c].id = calls[c].id
              /\ \/ /\ calls'[c].pc = "revoke" /\ calls[c].pc = "lock" /\ DeactivateLock(c)
                    /\ entries[calls[c].id] = calls[c].reg
                    /\ regs' = [regs EXCEPT ![calls[c].reg].canceled = TRUE, ![calls[c].reg].scheduling = c]
                 \/ calls'[c].pc = "delete" /\ calls[c].pc = "revoke" /\ DeactivateRevoke(c)
                 \/ calls'[c].pc = "drainHandler" /\ calls[c].pc = "delete" /\ DeactivateDelete(c)
                 \/ /\ calls'[c].pc = "detachDelete" /\ calls[c].pc = "detachWait" /\ DetachWait(c)
<1> DEFINE Goal ==
           \/ calls'[c] = calls[c]
           \/ calls'[c].pc \notin Concerned
           \/ /\ calls'[c].id \in Ids /\ calls'[c].reg = entries[calls'[c].id] /\ calls'[c].reg # 0
              /\ calls'[c].pc = "lock"
           \/ /\ calls'[c].id \in Ids /\ calls'[c].reg = entries[calls'[c].id] /\ calls'[c].reg # 0
              /\ calls'[c].pc = "detachWait" /\ BeginDetach(c, calls'[c].id)
           \/ /\ calls'[c].reg = calls[c].reg /\ calls'[c].id = calls[c].id
              /\ \/ /\ calls'[c].pc = "revoke" /\ calls[c].pc = "lock" /\ DeactivateLock(c)
                    /\ entries[calls[c].id] = calls[c].reg
                    /\ regs' = [regs EXCEPT ![calls[c].reg].canceled = TRUE, ![calls[c].reg].scheduling = c]
                 \/ calls'[c].pc = "delete" /\ calls[c].pc = "revoke" /\ DeactivateRevoke(c)
                 \/ calls'[c].pc = "drainHandler" /\ calls[c].pc = "delete" /\ DeactivateDelete(c)
                 \/ /\ calls'[c].pc = "detachDelete" /\ calls[c].pc = "detachWait" /\ DetachWait(c)
<1>0. /\ calls \in [Callers -> CallRows] /\ calls[c] \in CallRows /\ NoCall \in CallRows
      /\ NoCall.pc = "none"
  BY BlankRows DEF TypeOK
<1>p. ASSUME NEW pc, pc \notin Concerned, calls'[c].pc = pc PROVE Goal
  BY <1>p
<1>n. {"none", "wake", "lookup", "revokeUnknown", "draining", "closing", "cancelActive"} \cap Concerned = {}
  BY DEF Concerned, Withdrawing, Sweeping
<1>r. Return(c) => Goal
  <2>1. Return(c) => calls'[c].pc = "none"
    BY <1>0 DEF Return
  <2> QED BY <2>1, <1>n
<1>b. ASSUME NEW row, Begin(c, row) PROVE calls'[c] = row
  BY <1>0, <1>b DEF Begin
<1>g. ASSUME NEW pc, Goes(c, pc)
      PROVE  calls'[c].pc = pc /\ calls'[c].reg = calls[c].reg /\ calls'[c].id = calls[c].id
  BY <1>0, <1>g DEF Goes, CallRows
<1>l. ASSUME NEW op, NEW id \in Ids, calls'[c] = LookedUp(op, id) PROVE Goal
  <2>1. /\ calls'[c].id = id /\ calls'[c].reg = entries[id]
        /\ calls'[c].pc = IF entries[id] = 0 THEN "revokeUnknown" ELSE "lock"
    BY <1>0, <1>l DEF LookedUp, CallRows
  <2> QED BY <2>1, <1>n
<1>1. CASE \E id \in Ids, v \in Revisions : Register(c, id, v)
  <2>1. calls'[c] = [NoCall EXCEPT !.op = "register", !.pc = "wake"]
    BY <1>1, <1>b DEF Register
  <2>2. calls'[c].pc = "wake"
    BY <1>0, <2>1 DEF CallRows
  <2> QED BY <2>2, <1>n
<1>2. CASE \/ RegisterReturns(c) \/ DrainReturns(c) \/ CloseReturns(c) \/ DeactivateUnknownRevoke(c)
           \/ RemoveReturns(c) \/ DetachDelete(c) \/ CancelActive(c)
  BY <1>2, <1>r DEF RegisterReturns, DrainReturns, CloseReturns, DeactivateUnknownRevoke,
                    RemoveReturns, DetachDelete, CancelActive
<1>3. CASE \E op \in Deactivates, id \in Ids : BeginDeactivate(c, op, id)
  BY <1>3, <1>b, <1>l DEF BeginDeactivate
<1>4. CASE DeactivateAgain(c)
  <2>1. calls[c].id \in Ids /\ calls'[c] = LookedUp(calls[c].op, calls[c].id)
    BY <1>0, <1>4 DEF DeactivateAgain, CallRows
  <2> QED BY <2>1, <1>l
<1>5. CASE DeactivateLock(c)
  <2>1. \/ Goes(c, "lookup")
        \/ /\ Goes(c, "revoke") /\ entries[calls[c].id] = calls[c].reg
           /\ regs' = [regs EXCEPT ![calls[c].reg].canceled = TRUE, ![calls[c].reg].scheduling = c]
    BY <1>5 DEF DeactivateLock
  <2>2. calls[c].pc = "lock"
    BY <1>5 DEF DeactivateLock
  <2> QED BY <1>5, <2>1, <2>2, <1>g, <1>n
<1>6. CASE DeactivateRevoke(c)
  <2>1. Goes(c, "delete") /\ calls[c].pc = "revoke"
    BY <1>6 DEF DeactivateRevoke
  <2> QED BY <1>6, <2>1, <1>g
<1>7. CASE DeactivateDelete(c)
  <2>1. (Goes(c, "drainHandler") \/ Return(c)) /\ calls[c].pc = "delete"
    BY <1>7 DEF DeactivateDelete
  <2> QED BY <1>7, <2>1, <1>g, <1>r
<1>8. ASSUME NEW id \in Ids, BeginDetach(c, id) PROVE Goal
  <2>1. calls'[c] = [NoCall EXCEPT !.op = "detach", !.pc = "detachWait", !.id = id, !.reg = entries[id]]
    BY <1>8, <1>b DEF BeginDetach
  <2>2. calls'[c].id = id /\ calls'[c].reg = entries[id] /\ calls'[c].pc = "detachWait"
    BY <1>0, <2>1 DEF CallRows
  <2>3. entries[id] # 0
    BY <1>8 DEF BeginDetach
  <2> QED BY <1>8, <2>2, <2>3
<1>9. CASE DetachWait(c)
  <2>1. Goes(c, "detachDelete") /\ calls[c].pc = "detachWait"
    BY <1>9 DEF DetachWait
  <2> QED BY <1>9, <2>1, <1>g
<1>10. CASE Drain(c)
  <2>1. calls'[c] = [NoCall EXCEPT !.op = "drain", !.pc = "draining"]
    BY <1>10, <1>b DEF Drain
  <2>2. calls'[c].pc = "draining"
    BY <1>0, <2>1 DEF CallRows
  <2> QED BY <2>2, <1>n
<1>11. CASE Close(c)
  <2>1. calls'[c] = [NoCall EXCEPT !.op = "close", !.pc = "closing"]
    BY <1>11, <1>b DEF Close
  <2>2. calls'[c].pc = "closing"
    BY <1>0, <2>1 DEF CallRows
  <2> QED BY <2>2, <1>n
<1>12. ASSUME NEW r \in RunIds, Cancel(c, r) PROVE Goal
  <2>1. \/ calls'[c] = NoCall
        \/ calls'[c] = [NoCall EXCEPT !.op = "cancel", !.pc = "cancelActive", !.run = r]
    BY <1>12, <1>b DEF Cancel
  <2>2. calls'[c].pc \in {"none", "cancelActive"}
    BY <1>0, <2>1 DEF CallRows
  <2> QED BY <2>2, <1>n
<1>13. CASE Pause(c)
  BY <1>13 DEF Pause
<1> QED BY <1>1, <1>2, <1>3, <1>4, <1>5, <1>6, <1>7, <1>8, <1>9, <1>10, <1>11, <1>12, <1>13, Zenon
        DEF CallerStep

LEMMA CallerLetsGo ==
    ASSUME TypeOK, NEW c \in Callers, DeactivateDelete(c)
    PROVE  calls'[c].pc \notin Sweeping
<1>0. calls \in [Callers -> CallRows] /\ calls[c] \in CallRows /\ NoCall.pc = "none"
  BY BlankRows DEF TypeOK
<1>1. calls'[c] = [calls[c] EXCEPT !.pc = "drainHandler"] \/ calls'[c] = NoCall
  BY <1>0 DEF DeactivateDelete, Goes, Return
<1>2. calls'[c].pc \in {"drainHandler", "none"}
  BY <1>0, <1>1 DEF CallRows
<1> QED BY <1>2 DEF Sweeping

(* What the two histories record.                                          *)
LEMMA HistoryGrows ==
    ASSUME [Next]_vars, NEW e
    PROVE  /\ e \in retired' => \/ e \in retired
                                \/ \E c \in Callers : /\ RemoveReturns(c) \/ DetachDelete(c)
                                                      /\ calls[c].reg = e
           /\ e \in revoked' => \/ e \in revoked
                                \/ \E c \in Callers : /\ DeactivateRevoke(c) /\ calls[c].reg = e
                                                      /\ runs' = CancelHandler(calls[c].id)
<1>1. ASSUME NEW w \in Workers, WorkerStep(w) PROVE UNCHANGED history
  BY <1>1 DEF WorkerStep, WorkerExits, WorkerSelects, ClaimEnter, ClaimRecheck, ClaimEmpty,
         ClaimRun, HandlerEnters, HandlerRuns, HandlerReturns, Finish, Deadline, Timeout,
         PollCancellation, RequestLookup, RequestLock, RequestSubmit, ReconcileSchedule
<1>2. LoopStep => UNCHANGED history
  BY DEF LoopStep, LoopExits, LoopTick, LoopSchedule, LoopWake, LoopLock
<1>3. ASSUME NEW c \in Callers, CallerStep(c)
      PROVE  \/ UNCHANGED history
             \/ RemoveReturns(c) \/ DetachDelete(c) \/ DeactivateRevoke(c)
  BY <1>3 DEF CallerStep, Register, RegisterReturns, BeginDeactivate, DeactivateAgain,
         DeactivateUnknownRevoke, DeactivateLock, DeactivateDelete,
         BeginDetach, DetachWait, Drain, DrainReturns, Close, CloseReturns, Cancel,
         CancelActive, Pause
<1>4. ASSUME NEW c \in Callers, RemoveReturns(c) \/ DetachDelete(c)
      PROVE  retired' = retired \cup {calls[c].reg} /\ revoked' = revoked
  BY <1>4 DEF RemoveReturns, DetachDelete
<1>5. ASSUME NEW c \in Callers, DeactivateRevoke(c)
      PROVE  /\ retired' = retired
             /\ \/ revoked' = revoked
                \/ revoked' = revoked \cup {calls[c].reg} /\ runs' = CancelHandler(calls[c].id)
  BY <1>5 DEF DeactivateRevoke
<1>6. ASSUME \/ DrainDone \/ StartWork \/ (\E id \in Ids, v \in Revisions \cup {Foreign} : Submit(id, v))
             \/ (\E r \in RunIds : Expire(r)) \/ UNCHANGED vars
      PROVE  UNCHANGED history
  BY <1>6 DEF DrainDone, StartWork, Submit, Expire, vars
<1>7. UNCHANGED history => retired' = retired /\ revoked' = revoked
  BY DEF history
<1>8. \/ UNCHANGED history
      \/ \E c \in Callers : RemoveReturns(c) \/ DetachDelete(c) \/ DeactivateRevoke(c)
  BY <1>1, <1>2, <1>3, <1>6 DEF Next
<1> QED BY <1>4, <1>5, <1>7, <1>8

-----------------------------------------------------------------------------
(* The parts of the invariant, one by one                                  *)

LEMMA ReferencesKept ==
    ASSUME TypeOK, TypeOK', References, MutexOwned, Holding, [Next]_vars
    PROVE  References'
<1>0. /\ entries \in [Ids -> 0..MaxRegs] /\ regs \in [RegIds -> RegRows] /\ lastReg \in 0..MaxRegs
      /\ lastReg \in Nat /\ Made \subseteq RegIds /\ 0 \notin Made
  BY Bounds DEF TypeOK, Made, RegIds
<1>1. \A e \in Made : e \in Made' /\ regs'[e].id = regs[e].id
  BY RegistrationLasts
<1>2. TableRefers'
  <2> SUFFICES ASSUME NEW i \in Ids, entries'[i] # 0
               PROVE  entries'[i] \in Made' /\ regs'[entries'[i]].id = i
    BY DEF TableRefers
  <2>1. CASE entries'[i] = entries[i]
    BY <1>1, <2>1 DEF References, TableRefers
  <2>2. ASSUME NEW c \in Callers, NEW v \in Revisions, Register(c, i, v)
        PROVE  entries'[i] \in Made' /\ regs'[entries'[i]].id = i
    <3>1. lastReg' = lastReg + 1 /\ entries'[i] = lastReg + 1
      BY <1>0, <2>2 DEF Register
    <3>2. lastReg + 1 \in RegIds
      BY <1>0, <2>2, Bounds DEF Register, RegIds
    <3>3. regs'[lastReg + 1] = [NoReg EXCEPT !.id = i, !.revision = v]
      BY <1>0, <2>2, <3>2 DEF Register
    <3>4. regs'[lastReg + 1].id = i
      BY <3>3, BlankRows DEF RegRows
    <3>5. lastReg + 1 \in Made'
      BY <1>0, <3>1 DEF Made
    <3> QED BY <3>1, <3>4, <3>5
  <2> QED BY <2>1, <2>2, EntryLasts
<1>3. LoopRefers'
  BY <1>1, LoopMoves DEF LoopRefers, References
<1>4. ASSUME NEW w \in Workers PROVE WorkerRefers(work[w])'
  <2>1. WorkerRefers(work'[w])
    <3>1. CASE WorkerStep(w)
      BY <3>1, WorkerMoves
    <3>2. CASE SamePlace(w)
      BY <3>2 DEF SamePlace, WorkerRefers, References
    <3>3. CASE work'[w] = Idle
      BY <3>3, BlankRows DEF WorkerRefers, InRun, InHandler
    <3> QED BY <3>1, <3>2, <3>3, WorkerMovesItself
  <2> QED BY <1>1, <2>1 DEF WorkerRefers
<1>5. ASSUME NEW c \in Callers PROVE CallerRefers(calls[c])'
  <2> SUFFICES ASSUME calls'[c].pc \in Concerned
               PROVE  calls'[c].reg \in Made' /\ regs'[calls'[c].reg].id = calls'[c].id
    BY DEF CallerRefers
  <2>1. calls'[c].reg \in Made /\ regs[calls'[c].reg].id = calls'[c].id
    <3>0. CallerRefers(calls[c])
      BY DEF References
    <3>1. CASE calls'[c] = calls[c]
      BY <3>0, <3>1 DEF CallerRefers
    <3>2. CASE /\ calls'[c].id \in Ids /\ calls'[c].reg = entries[calls'[c].id] /\ calls'[c].reg # 0
      BY <3>2 DEF References, TableRefers
    <3>3. CASE /\ calls'[c].reg = calls[c].reg /\ calls'[c].id = calls[c].id
               /\ calls[c].pc \in {"lock", "revoke", "delete", "detachWait"}
      BY <3>0, <3>3 DEF CallerRefers, Concerned, Withdrawing, Sweeping
    <3> QED BY <3>1, <3>2, <3>3, CallerMovesItself, CallerMoves
  <2> QED BY <1>1, <2>1
<1>6. ASSUME NEW r \in RunIds PROVE RunRefers(runs[r])'
  <2> SUFFICES ASSUME runs'[r].by # 0
               PROVE  runs'[r].by \in Made' /\ regs'[runs'[r].by].id = runs'[r].id
    BY DEF RunRefers
  <2>1. runs'[r].by \in Made /\ regs[runs'[r].by].id = runs'[r].id
    BY RunLasts DEF Enters, Moves, References, RunRefers
  <2> QED BY <1>1, <2>1
<1>7. ASSUME NEW e, e \in retired' \cup revoked' PROVE e \in Made'
  <2>1. ASSUME NEW c \in Callers, RemoveReturns(c) \/ DetachDelete(c) \/ DeactivateRevoke(c)
        PROVE  calls[c].reg \in Made
    BY <2>1 DEF RemoveReturns, DetachDelete, DeactivateRevoke, References, CallerRefers, Concerned,
                Withdrawing, Sweeping
  <2>2. e \in Made
    BY <1>7, <2>1, HistoryGrows DEF References
  <2> QED BY <1>1, <2>2
<1> QED BY <1>2, <1>3, <1>4, <1>5, <1>6, <1>7 DEF References

LEMMA MutexKept ==
    ASSUME TypeOK, References, MutexOwned, Holding, [Next]_vars
    PROVE  MutexOwned'
<1>0. /\ entries \in [Ids -> 0..MaxRegs] /\ regs \in [RegIds -> RegRows]
      /\ Made \subseteq RegIds /\ 0 \notin Made
  BY Bounds DEF TypeOK, Made, RegIds
<1>d. /\ Nobody \notin Workers /\ Nobody \notin Callers /\ "loop" # Nobody
      /\ "loop" \notin Workers /\ "loop" \notin Callers /\ Workers \cap Callers = {}
  BY GoroutineAssumption DEF Nobody
<1>1. ASSUME loop'.pc = "schedule" PROVE regs'[loop'.reg].scheduling = "loop"
  <2>1. CASE loop'.reg = loop.reg /\ loop.pc = "schedule" /\ ~ LoopSchedule
    <3>1. loop.reg \in Made /\ regs[loop.reg].scheduling = "loop"
      BY <2>1 DEF References, LoopRefers, MutexOwned
    <3>2. regs[loop.reg].scheduling # Nobody /\ ~ Gives(loop.reg, "loop")
      BY <1>d, <2>1, <3>1 DEF Gives
    <3> QED BY <2>1, <3>1, <3>2, RegistrationLasts
  <2> QED BY <1>1, <2>1, LoopMoves
<1>2. ASSUME NEW w \in Workers, work'[w].pc = "requesting"
      PROVE  regs'[work'[w].target].scheduling = w
  <2>1. ASSUME work[w].pc = "requesting", work'[w].target = work[w].target
        PROVE  regs'[work'[w].target].scheduling = w
    <3>1. work[w].target \in Made /\ regs[work[w].target].scheduling = w
      BY <2>1 DEF References, WorkerRefers, MutexOwned
    <3>2. ~ RequestSubmit(w)
      BY <1>2, WorkerLetsGo
    <3>3. regs[work[w].target].scheduling # Nobody /\ ~ Gives(work[w].target, w)
      BY <1>d, <3>1, <3>2 DEF Gives
    <3> QED BY <2>1, <3>1, <3>3, RegistrationLasts
  <2>2. CASE SamePlace(w)
    BY <1>2, <2>1, <2>2 DEF SamePlace
  <2>3. CASE work'[w] = Idle
    BY <1>2, <2>3, BlankRows
  <2>4. CASE WorkerStep(w)
    <3>1. work'[w].target = work[w].target
      BY <1>2, <2>4, WorkerMoves
    <3>2. CASE work[w].pc = "requesting"
      BY <2>1, <3>1, <3>2
    <3>3. CASE RequestLock(w) /\ ~ EntryDone(work[w].target)
      <4>1. work[w].target \in RegIds
        BY <1>0, <3>3 DEF RequestLock, References, WorkerRefers
      <4>2. regs' = [regs EXCEPT ![work[w].target].scheduling = w]
        BY <3>3 DEF RequestLock
      <4> QED BY <1>0, <3>1, <4>1, <4>2 DEF RegRows
    <3> QED BY <1>2, <2>4, <3>2, <3>3, WorkerMoves
  <2> QED BY <2>2, <2>3, <2>4, WorkerMovesItself
<1>3. ASSUME NEW c \in Callers, calls'[c].pc \in Sweeping
      PROVE  regs'[calls'[c].reg].scheduling = c /\ entries'[calls'[c].id] = calls'[c].reg
  <2>1. ASSUME calls[c].pc \in Sweeping, calls'[c].reg = calls[c].reg, calls'[c].id = calls[c].id
        PROVE  regs'[calls'[c].reg].scheduling = c /\ entries'[calls'[c].id] = calls'[c].reg
    <3>1. /\ calls[c].reg \in Made /\ regs[calls[c].reg].scheduling = c
          /\ entries[calls[c].id] = calls[c].reg
      BY <2>1 DEF References, CallerRefers, MutexOwned, Concerned, Withdrawing
    <3>2. ~ DeactivateDelete(c)
      BY <1>3, CallerLetsGo
    <3>3. regs[calls[c].reg].scheduling # Nobody /\ ~ Gives(calls[c].reg, c)
      BY <1>d, <3>1, <3>2 DEF Gives
    <3>4. regs'[calls[c].reg].scheduling = c
      BY <3>1, <3>3, RegistrationLasts
    <3>5. calls[c].id \in Ids
      BY DEF TypeOK, CallRows
    <3>6. ASSUME NEW d \in Callers, DeactivateDelete(d), calls[d].id = calls[c].id PROVE FALSE
      <4>1. regs[calls[d].reg].scheduling = d /\ entries[calls[d].id] = calls[d].reg
        BY <3>6 DEF DeactivateDelete, MutexOwned, Sweeping
      <4> QED BY <3>1, <3>2, <3>6, <4>1
    <3>7. ASSUME NEW d \in Callers, DetachDelete(d), entries[calls[c].id] = calls[d].reg PROVE FALSE
      BY <3>1, <3>3, <3>7 DEF DetachDelete
    <3>8. entries'[calls[c].id] = entries[calls[c].id]
      BY <1>0, <3>1, <3>5, <3>6, <3>7, EntryLasts
    <3> QED BY <2>1, <3>1, <3>4, <3>8
  <2>2. CASE calls'[c] = calls[c]
    BY <1>3, <2>1, <2>2
  <2>3. CASE calls'[c].reg = calls[c].reg /\ calls'[c].id = calls[c].id /\ calls[c].pc = "revoke"
    BY <2>1, <2>3 DEF Sweeping
  <2>4. CASE /\ calls'[c].reg = calls[c].reg /\ calls'[c].id = calls[c].id
             /\ calls[c].pc = "lock" /\ DeactivateLock(c) /\ entries[calls[c].id] = calls[c].reg
             /\ regs' = [regs EXCEPT ![calls[c].reg].canceled = TRUE, ![calls[c].reg].scheduling = c]
    <3>1. calls[c].reg \in RegIds
      BY <1>0, <2>4 DEF References, CallerRefers, Concerned
    <3>2. regs'[calls[c].reg].scheduling = c
      BY <1>0, <2>4, <3>1 DEF RegRows
    <3>3. entries' = entries
      BY <2>4 DEF DeactivateLock
    <3> QED BY <2>4, <3>2, <3>3
  <2> QED BY <1>3, <2>2, <2>3, <2>4, CallerMovesItself, CallerMoves DEF Sweeping, Concerned, Withdrawing
<1> QED BY <1>1, <1>2, <1>3 DEF MutexOwned

(* Nobody enters the handler of a canceled registration.                   *)
LEMMA QuietStays ==
    ASSUME TypeOK, References, Holding, [Next]_vars, NEW e, regs[e].canceled, Active(e) = {}
    PROVE  Active(e)' = {}
<1> SUFFICES ASSUME NEW w \in Workers, work'[w].pc \in InHandler, work'[w].reg = e
             PROVE  FALSE
  BY DEF Active
<1>0. ~ (work[w].pc \in InHandler /\ work[w].reg = e)
  BY DEF Active
<1>1. CASE WorkerStep(w)
  <2>1. work[w].reg = e /\ ~ EntryDone(e)
    BY <1>0, <1>1, WorkerMoves
  <2> QED BY <2>1 DEF EntryDone
<1>2. CASE SamePlace(w)
  BY <1>0, <1>2 DEF SamePlace
<1>3. CASE work'[w] = Idle
  BY <1>3, BlankRows DEF InHandler
<1> QED BY <1>1, <1>2, <1>3, WorkerMovesItself

LEMMA FencedKept ==
    ASSUME TypeOK, References, MutexOwned, Fenced, Holding, [Next]_vars
    PROVE  Fenced'
<1>0. /\ entries \in [Ids -> 0..MaxRegs] /\ regs \in [RegIds -> RegRows]
      /\ Made \subseteq RegIds /\ 0 \notin Made
  BY Bounds DEF TypeOK, Made, RegIds
<1>1. ASSUME NEW c \in Callers, calls'[c].pc \in Withdrawing
      PROVE  regs'[calls'[c].reg].canceled
  <2>1. ASSUME calls[c].pc \in Withdrawing, calls'[c].reg = calls[c].reg
        PROVE  regs'[calls'[c].reg].canceled
    <3>1. calls[c].reg \in Made /\ regs[calls[c].reg].canceled
      BY <2>1 DEF References, CallerRefers, Fenced, Concerned
    <3> QED BY <2>1, <3>1, RegistrationLasts
  <2>2. CASE calls'[c] = calls[c]
    BY <1>1, <2>1, <2>2
  <2>3. CASE calls'[c].reg = calls[c].reg /\ calls[c].pc \in {"revoke", "delete", "detachWait"}
    BY <2>1, <2>3 DEF Withdrawing, Sweeping
  <2>4. CASE /\ calls'[c].reg = calls[c].reg /\ calls[c].pc = "lock"
             /\ regs' = [regs EXCEPT ![calls[c].reg].canceled = TRUE, ![calls[c].reg].scheduling = c]
    <3>1. calls[c].reg \in RegIds
      BY <1>0, <2>4 DEF References, CallerRefers, Concerned
    <3> QED BY <1>0, <2>4, <3>1 DEF RegRows
  <2>5. CASE /\ calls'[c].id \in Ids /\ calls'[c].reg = entries[calls'[c].id] /\ calls'[c].reg # 0
             /\ BeginDetach(c, calls'[c].id)
    <3>1. regs' = [regs EXCEPT ![calls'[c].reg].canceled = TRUE]
      BY <2>5 DEF BeginDetach
    <3>2. calls'[c].reg \in RegIds
      BY <1>0, <2>5 DEF References, TableRefers
    <3> QED BY <1>0, <3>1, <3>2 DEF RegRows
  <2>6. "lock" \notin Withdrawing /\ Withdrawing \subseteq Concerned
    BY DEF Withdrawing, Sweeping, Concerned
  <2> QED BY <1>1, <2>2, <2>3, <2>4, <2>5, <2>6, CallerMovesItself, CallerMoves
<1>2. ASSUME NEW c \in Callers, calls'[c].pc = "detachDelete"
      PROVE  Active(calls[c].reg)' = {}
  <2> SUFFICES ASSUME NEW e, e = calls'[c].reg PROVE Active(e)' = {}
    BY DEF Active
  <2>1. /\ calls'[c].reg = calls[c].reg
        /\ \/ calls[c].pc = "detachDelete"
           \/ calls[c].pc = "detachWait" /\ DetachWait(c)
    BY <1>2, CallerMovesItself, CallerMoves DEF Concerned, Withdrawing
  <2>2. regs[e].canceled /\ Active(e) = {}
    BY <2>1 DEF Fenced, Withdrawing, DetachWait
  <2> QED BY <2>1, <2>2, QuietStays
<1>3. ASSUME NEW e \in retired' PROVE regs'[e].canceled /\ Active(e)' = {}
  <2>1. e \in Made /\ regs[e].canceled /\ Active(e) = {}
    <3>1. CASE e \in retired
      BY <3>1 DEF Fenced, References
    <3>2. ASSUME NEW c \in Callers, RemoveReturns(c) \/ DetachDelete(c), calls[c].reg = e
          PROVE  e \in Made /\ regs[e].canceled /\ Active(e) = {}
      <4>1. calls[c].pc \in {"drainHandler", "detachDelete"}
        BY <3>2 DEF RemoveReturns, DetachDelete
      <4>2. e \in Made /\ regs[e].canceled
        BY <3>2, <4>1 DEF References, CallerRefers, Fenced, Concerned, Withdrawing
      <4>3. Active(e) = {}
        BY <3>2 DEF RemoveReturns, DetachDelete, Fenced
      <4> QED BY <4>2, <4>3
    <3> QED BY <3>1, <3>2, HistoryGrows
  <2> QED BY <2>1, QuietStays, RegistrationLasts
<1>4. ASSUME NEW e \in revoked'
      PROVE  regs'[e].canceled /\ regs'[e].scheduling \in Callers \cup {Nobody}
  <2>1. e \in Made /\ regs[e].canceled /\ regs[e].scheduling \in Callers \cup {Nobody}
    <3>1. CASE e \in revoked
      BY <3>1 DEF Fenced, References
    <3>2. ASSUME NEW c \in Callers, DeactivateRevoke(c), calls[c].reg = e
          PROVE  e \in Made /\ regs[e].canceled /\ regs[e].scheduling \in Callers \cup {Nobody}
      <4>1. calls[c].pc = "revoke"
        BY <3>2 DEF DeactivateRevoke
      <4> QED BY <3>2, <4>1 DEF References, CallerRefers, Fenced, MutexOwned, Concerned, Withdrawing, Sweeping
    <3> QED BY <3>1, <3>2, HistoryGrows
  <2>2. ASSUME Takes(e, regs'[e].scheduling) PROVE regs'[e].scheduling \in Callers
    BY <2>1, <2>2 DEF Takes, EntryDone
  <2> QED BY <2>1, <2>2, RegistrationLasts
<1> QED BY <1>1, <1>2, <1>3, <1>4 DEF Fenced

(* A run that is held and not finished stays leased.                       *)
LEMMA HeldStaysLeased ==
    ASSUME TypeOK, References, Holding, [Next]_vars,
           NEW w \in Workers, work[w].pc \in InRun, work'[w].pc \in InRun
    PROVE  work[w].run \in RunIds /\ runs'[work[w].run].state \in Leased
<1> DEFINE r == work[w].run
<1>1. r \in RunIds /\ runs[r].state \in Leased
  BY DEF Holding
<1>2. lastRun \in Nat /\ r \in Nat
  BY <1>1 DEF TypeOK, RunIds
<1>3. ~ Enters(r)
  <2>1. lastRun + 1 > lastRun
    BY <1>2
  <2> QED BY <1>1, <2>1 DEF Enters, Holding, Leased
<1>4. ASSUME NEW v \in Workers, Finish(v), work[v].run = r PROVE FALSE
  <2>1. v # w
    BY <1>4, WorkerLetsGo
  <2>2. work[v].pc \in InRun
    BY <1>4 DEF Finish, InRun
  <2> QED BY <1>4, <2>1, <2>2 DEF Holding
<1>5. ~ Expire(r)
  BY DEF Expire
<1> HIDE DEF r
<1>6. Moves(r) => runs'[r].state \in Leased
  BY <1>1, <1>4, <1>5 DEF Moves, Leased, Pending
<1>7. runs'[r].state \in Leased
  BY <1>1, <1>3, <1>6, RunLasts
<1> QED BY <1>1, <1>7 DEF r

LEMMA HoldingKept ==
    ASSUME TypeOK, TypeOK', References, Holding, [Next]_vars
    PROVE  Holding'
<1>0. work \in [Workers -> WorkRows] /\ lastRun \in Nat /\ MaxAttempts \in Nat /\ MaxAttempts > 0
  BY Bounds DEF TypeOK
<1>h. ASSUME NEW w \in Workers, work'[w].pc \in InRun
      PROVE  \/ work[w].pc \in InRun /\ work'[w].run = work[w].run
             \/ \E r \in RunIds : ClaimRun(w, r) /\ work'[w].run = r
  <2>1. CASE WorkerStep(w)
    BY <1>h, <2>1, WorkerMoves
  <2>2. CASE SamePlace(w)
    BY <1>h, <2>2 DEF SamePlace
  <2>3. CASE work'[w] = Idle
    BY <1>h, <2>3, BlankRows DEF InRun, InHandler
  <2> QED BY <2>1, <2>2, <2>3, WorkerMovesItself
<1>1. ASSUME NEW w \in Workers, work'[w].pc \in InRun
      PROVE  work'[w].run \in RunIds /\ runs'[work'[w].run].state \in Leased
  <2>1. CASE work[w].pc \in InRun /\ work'[w].run = work[w].run
    BY <1>1, <2>1, HeldStaysLeased
  <2>2. ASSUME NEW r \in RunIds, ClaimRun(w, r), work'[w].run = r
        PROVE  work'[w].run \in RunIds /\ runs'[work'[w].run].state \in Leased
    <3>1. runs'[r].state = "running"
      BY <2>2 DEF ClaimRun, TypeOK, RunRows
    <3> QED BY <2>2, <3>1 DEF Leased
  <2> QED BY <1>1, <1>h, <2>1, <2>2
<1>2. ASSUME NEW v \in Workers, NEW w \in Workers, v # w,
             work'[v].pc \in InRun, work'[w].pc \in InRun
      PROVE  work'[v].run # work'[w].run
  <2>1. ASSUME NEW a \in Workers, NEW b \in Workers, a # b, work'[b].pc \in InRun,
               NEW r \in RunIds, ClaimRun(a, r)
        PROVE  work'[b].run # r
    <3>1. work'[b] = work[b]
      BY <1>0, <2>1 DEF ClaimRun, Stays
    <3>2. runs[work[b].run].state \in Leased
      BY <2>1, <3>1 DEF Holding
    <3>3. runs[r].state \in Pending
      BY <2>1 DEF ClaimRun
    <3> QED BY <3>1, <3>2, <3>3 DEF Leased, Pending
  <2> QED BY <1>2, <1>h, <2>1 DEF Holding
<1>3. ASSUME NEW r \in RunIds, r > lastRun' PROVE runs'[r].state = "none"
  <2>1. r \in Nat /\ lastRun' \in Nat
    BY DEF RunIds, TypeOK
  <2>2. lastRun' >= lastRun /\ (runs'[r] = runs[r] \/ Enters(r) \/ Moves(r))
    BY RunLasts
  <2>3. runs[r].state = "none"
    BY <1>0, <1>3, <2>1, <2>2 DEF Holding
  <2>4. ~ Enters(r)
    BY <1>0, <1>3, <2>1 DEF Enters
  <2>5. ~ Moves(r)
    BY <2>3 DEF Moves, Pending, Leased
  <2> QED BY <2>2, <2>3, <2>4, <2>5
<1>4. ASSUME NEW r \in RunIds, runs'[r].state \in Pending PROVE runs'[r].attempts < MaxAttempts
  <2>1. CASE runs'[r] = runs[r]
    BY <1>4, <2>1 DEF Holding
  <2>2. CASE Enters(r)
    BY <1>0, <2>2 DEF Enters
  <2>3. CASE Moves(r)
    BY <1>4, <2>3 DEF Moves, Pending, Leased, Ended
  <2> QED BY <2>1, <2>2, <2>3, RunLasts
<1> QED BY <1>1, <1>2, <1>3, <1>4 DEF Holding

(* Nothing enters the store for a registration once it is revoked.         *)
LEMMA SweptKept ==
    ASSUME TypeOK, References, MutexOwned, Fenced, Holding, Swept, [Next]_vars
    PROVE  Swept'
<1> SUFFICES ASSUME NEW r \in RunIds, runs'[r].by \in revoked'
             PROVE  runs'[r].state \notin Pending \cup {"running"}
  BY DEF Swept
<1>d. /\ Nobody \notin Workers /\ "loop" # Nobody
      /\ "loop" \notin Callers /\ Workers \cap Callers = {}
  BY GoroutineAssumption DEF Nobody
<1>1. CASE runs'[r].by \in revoked
  <2>1. ~ Enters(r)
    <3> DEFINE e == runs'[r].by
    <3>1. regs[e].scheduling \in Callers \cup {Nobody} /\ e \in Made
      BY <1>1 DEF Fenced, References
    <3> HIDE DEF e
    <3>2. ASSUME LoopSchedule, loop.reg = e PROVE FALSE
      BY <1>d, <3>1, <3>2 DEF LoopSchedule, MutexOwned
    <3>3. ASSUME NEW w \in Workers, RequestSubmit(w), work[w].target = e PROVE FALSE
      BY <1>d, <3>1, <3>3 DEF RequestSubmit, MutexOwned
    <3>4. e # 0
      BY <3>1 DEF Made
    <3> QED BY <3>2, <3>3, <3>4 DEF Enters, Writes, e
  <2>2. CASE runs'[r] = runs[r]
    BY <1>1, <2>2 DEF Swept
  <2>3. CASE Moves(r)
    <3>1. runs[r].state \notin Pending \cup {"running"}
      BY <1>1, <2>3 DEF Moves, Swept
    <3> QED BY <2>3, <3>1 DEF Moves, Pending, Leased, Ended
  <2> QED BY <2>1, <2>2, <2>3, RunLasts
<1>2. ASSUME NEW c \in Callers, DeactivateRevoke(c), calls[c].reg = runs'[r].by,
             runs' = CancelHandler(calls[c].id)
      PROVE  runs'[r].state \notin Pending \cup {"running"}
  <2>1. runs[r] \in RunRows
    BY DEF TypeOK
  <2>2. runs'[r].by = runs[r].by
    BY <1>2, <2>1 DEF CancelHandler, RunRows
  <2>3. calls[c].pc \in Concerned
    BY <1>2 DEF DeactivateRevoke, Concerned, Withdrawing, Sweeping
  <2>4. calls[c].reg \in Made /\ regs[calls[c].reg].id = calls[c].id
    BY <2>3 DEF References, CallerRefers
  <2>5. runs[r].id = calls[c].id
    BY <1>2, <2>2, <2>4 DEF References, RunRefers, Made
  <2> QED BY <1>2, <2>1, <2>5 DEF CancelHandler, RunRows, Pending
<1> QED BY <1>1, <1>2, HistoryGrows

LEMMA RegistrationKeptKept ==
    ASSUME TypeOK, References, MutexOwned, Fenced, Holding, RegistrationKept, [Next]_vars
    PROVE  RegistrationKept'
<1>0. /\ entries \in [Ids -> 0..MaxRegs] /\ regs \in [RegIds -> RegRows] /\ lastReg \in Nat
      /\ Made \subseteq RegIds /\ 0 \notin Made
  BY Bounds DEF TypeOK, Made, RegIds
<1> SUFFICES ASSUME NEW e \in 1..lastReg', ~ regs'[e].canceled
             PROVE  entries'[regs'[e].id] = e
  BY DEF RegistrationKept
<1>1. CASE e \in Made
  <2> DEFINE i == regs[e].id
  <2>1. /\ regs'[e].id = i /\ ~ regs[e].canceled /\ i \in Ids /\ entries[i] = e
    BY <1>0, <1>1, RegistrationLasts DEF RegistrationKept, RegRows, Made
  <2> HIDE DEF i
  <2>2. ASSUME NEW c \in Callers, DeactivateDelete(c), calls[c].id = i PROVE FALSE
    BY <2>1, <2>2 DEF DeactivateDelete, MutexOwned, Fenced, Withdrawing, Sweeping
  <2>3. ASSUME NEW c \in Callers, DetachDelete(c), entries[i] = calls[c].reg PROVE FALSE
    BY <2>1, <2>3 DEF DetachDelete, Fenced, Withdrawing
  <2>4. entries[i] # 0
    BY <1>0, <1>1, <2>1
  <2> QED BY <2>1, <2>2, <2>3, <2>4, EntryLasts
<1>2. CASE e \notin Made
  <2>1. lastReg' # lastReg
    BY <1>2 DEF Made
  <2>2. PICK c \in Callers, id \in Ids, v \in Revisions : Register(c, id, v)
    BY <2>1, TableWriters DEF table, TableWrite, RequestLock, RequestSubmit, LoopSchedule, LoopLock,
       DeactivateLock, DeactivateDelete, DetachDelete, BeginDetach
  <2>3. e = lastReg + 1 /\ e \in RegIds
    BY <1>0, <1>2, <2>2, Bounds DEF Register, Made, RegIds, TypeOK
  <2>4. regs'[e] = [NoReg EXCEPT !.id = id, !.revision = v] /\ entries'[id] = e
    BY <1>0, <2>2, <2>3 DEF Register
  <2>5. regs'[e].id = id
    BY <2>4, BlankRows DEF RegRows
  <2> QED BY <2>4, <2>5
<1> QED BY <1>1, <1>2

LEMMA StoppedKept ==
    ASSUME TypeOK, Stopped, [Next]_vars
    PROVE  Stopped'
<1> SUFFICES ASSUME drained' PROVE draining' /\ Done'
  BY DEF Stopped
<1>1. CASE ~ drained
  <2>1. DrainDone
    <3>1. ASSUME NEW w \in Workers, WorkerStep(w) PROVE drained' = drained
      BY <3>1 DEF WorkerStep, processVars, WorkerExits, WorkerSelects, ClaimEnter, ClaimRecheck, ClaimEmpty,
         ClaimRun, HandlerEnters, HandlerRuns, HandlerReturns, Finish, Deadline, Timeout,
         PollCancellation, RequestLookup, RequestLock, RequestSubmit, ReconcileSchedule
    <3>2. LoopStep => drained' = drained
      BY DEF LoopStep, processVars, LoopExits, LoopTick, LoopSchedule, LoopWake, LoopLock
    <3>3. ASSUME NEW c \in Callers, CallerStep(c) PROVE drained' = drained
      BY <3>3 DEF CallerStep, processVars, Register, RegisterReturns, BeginDeactivate, DeactivateAgain,
         DeactivateUnknownRevoke, DeactivateLock, DeactivateRevoke, DeactivateDelete, RemoveReturns,
         BeginDetach, DetachWait, DetachDelete, Drain, DrainReturns, Close, CloseReturns, Cancel,
         CancelActive, Pause
    <3>4. ASSUME \/ StartWork \/ (\E id \in Ids, v \in Revisions \cup {Foreign} : Submit(id, v))
                 \/ (\E r \in RunIds : Expire(r)) \/ UNCHANGED vars
          PROVE  drained' = drained
      BY <3>4 DEF StartWork, Submit, Expire, vars, processVars
    <3> QED BY <1>1, <3>1, <3>2, <3>3, <3>4 DEF Next
  <2> QED BY <2>1 DEF DrainDone, Done, Halted
<1>2. CASE drained
  <2>0. draining /\ loop.pc \in {"off", "exit"} /\ \A w \in Workers : work[w].pc \in {"off", "exit"}
    BY <1>2 DEF Stopped, Done, Halted
  <2>1. ASSUME NEW w \in Workers, WorkerStep(w) PROVE FALSE
    <3>1. work[w].pc \in {"off", "exit"}
      BY <2>0
    <3> QED BY <2>1, <3>1 DEF WorkerStep, WorkerExits, WorkerSelects, ClaimEnter, ClaimRecheck, ClaimEmpty,
         ClaimRun, HandlerEnters, HandlerRuns, HandlerReturns, Finish, Deadline, Timeout,
         PollCancellation, RequestLookup, RequestLock, RequestSubmit, ReconcileSchedule, InRun, InHandler
  <2>2. ~ LoopStep
    BY <2>0 DEF LoopStep, LoopExits, LoopTick, LoopSchedule, LoopWake, LoopLock
  <2>3. ASSUME NEW c \in Callers, NEW id \in Ids, NEW v \in Revisions, Register(c, id, v) PROVE FALSE
    BY <2>0, <2>3 DEF Register, Accepts
  <2>4. ASSUME NEW w \in Workers PROVE Halted(w)'
    BY <2>0, <2>1, <2>3, WorkerMovesItself DEF SamePlace, Halted
  <2>5. ASSUME NEW c \in Callers, CallerStep(c) PROVE loop' = loop /\ draining'
    BY <2>0, <2>3, <2>5 DEF CallerStep, processVars, RegisterReturns, BeginDeactivate, DeactivateAgain,
         DeactivateUnknownRevoke, DeactivateLock, DeactivateRevoke, DeactivateDelete, RemoveReturns,
         BeginDetach, DetachWait, DetachDelete, Drain, DrainReturns, Close, CloseReturns, Cancel,
         CancelActive, Pause
  <2>6. ASSUME \/ StartWork \/ (\E id \in Ids, v \in Revisions \cup {Foreign} : Submit(id, v))
               \/ (\E r \in RunIds : Expire(r)) \/ UNCHANGED vars \/ DrainDone
        PROVE  loop' = loop /\ draining'
    BY <2>0, <2>6 DEF StartWork, Submit, Expire, vars, processVars, DrainDone
  <2>7. loop' = loop /\ draining'
    BY <2>1, <2>2, <2>5, <2>6 DEF Next
  <2> QED BY <2>0, <2>4, <2>7 DEF Done
<1> QED BY <1>1, <1>2

-----------------------------------------------------------------------------
(* Theorems                                                                *)

LEMMA AdmissionStart == Init => Admission
<1> SUFFICES ASSUME Init PROVE Admission
  OBVIOUS
<1>1. /\ entries = [i \in Ids |-> 0] /\ lastReg = 0 /\ drained = FALSE
      /\ loop = [pc |-> "off", todo |-> {}, reg |-> 0]
      /\ work = [w \in Workers |-> [Idle EXCEPT !.pc = "off"]]
      /\ calls = [c \in Callers |-> NoCall] /\ runs = [r \in RunIds |-> NoRun]
      /\ retired = {} /\ revoked = {}
  BY DEF Init
<1>2. \A w \in Workers : work[w].pc = "off" /\ work[w].seen = [i \in Ids |-> 0]
  BY <1>1, BlankRows DEF WorkRows
<1>3. \A c \in Callers : calls[c].pc = "none"
  BY <1>1, BlankRows
<1>4. \A r \in RunIds : runs[r].state = "none" /\ runs[r].by = 0
  BY <1>1, BlankRows
<1>5. References
  BY <1>1, <1>2, <1>3, <1>4 DEF References, TableRefers, LoopRefers, WorkerRefers, CallerRefers, RunRefers,
     InRun, InHandler, Concerned, Withdrawing, Sweeping
<1>6. MutexOwned
  BY <1>1, <1>2, <1>3 DEF MutexOwned, Sweeping
<1>7. Fenced
  BY <1>1, <1>3 DEF Fenced, Withdrawing, Sweeping
<1>8. Holding
  BY <1>2, <1>4 DEF Holding, InRun, InHandler, Pending
<1>9. Swept /\ RegistrationKept /\ Stopped
  BY <1>1, <1>4 DEF Swept, RegistrationKept, Stopped
<1> QED BY <1>5, <1>6, <1>7, <1>8, <1>9 DEF Admission

LEMMA AdmissionStep ==
    ASSUME TypeOK, Admission, [Next]_vars
    PROVE  TypeOK' /\ Admission'
<1>1. TypeOK'
  BY TypesKept DEF Admission
<1>2. References' /\ MutexOwned' /\ Holding'
  BY <1>1, ReferencesKept, MutexKept, HoldingKept DEF Admission
<1>3. Fenced' /\ Swept'
  BY FencedKept, SweptKept DEF Admission
<1>4. RegistrationKept' /\ Stopped'
  BY RegistrationKeptKept, StoppedKept DEF Admission
<1> QED BY <1>1, <1>2, <1>3, <1>4 DEF Admission

(* The invariant holds of every behaviour of the runtime.                  *)
LEMMA Admitted == Spec => [](TypeOK /\ Admission)
<1>1. Init => TypeOK /\ Admission
  BY TypesOfInit, AdmissionStart
<1>2. TypeOK /\ Admission /\ [Next]_vars => (TypeOK /\ Admission)'
  BY AdmissionStep
<1> QED BY <1>1, <1>2, PTL DEF Spec

(* TypeOK holds of every number of workers, callers, registrations and     *)
(* runs: in particular the executor and Finish between them never give a   *)
(* run more attempts than its definition allows.                           *)
THEOREM RuntimeTypes == Spec => []TypeOK
BY Admitted, PTL

(* When Remove or Detach has returned, no worker is in the handler of that *)
(* registration, and none enters it later: the wrapper looks at the        *)
(* registration's context before it counts itself active, and whoever      *)
(* withdraws a registration cancels it before waiting.                     *)
THEOREM NobodyInRemovedHandler == Spec => []RemovedIsQuiet
<1>1. TypeOK /\ Admission => RemovedIsQuiet
  BY DEF Admission, Fenced, RemovedIsQuiet
<1> QED BY <1>1, Admitted, PTL

(* Once CancelHandler has committed for a registration, no run that it     *)
(* scheduled or requested is pending: the scheduling mutex keeps the       *)
(* writers out while the revocation commits, the canceled context after.   *)
THEOREM NothingPendingAfterRevocation == Spec => []RevokedStaysEmpty
<1>1. TypeOK /\ Admission => RevokedStaysEmpty
  BY DEF Admission, Swept, RevokedStaysEmpty
<1> QED BY <1>1, Admitted, PTL

(* A drained runtime stays still: the loop and the workers have ended, and *)
(* no registration starts them again.                                      *)
THEOREM DrainedStaysDrained == Spec => []DrainIsFinal
<1>1. TypeOK /\ Admission => DrainIsFinal
  BY DEF Admission, Stopped, DrainIsFinal
<1> QED BY <1>1, Admitted, PTL

(* The name of a registration that nobody canceled leads to it: neither    *)
(* Detach nor Deactivate of a predecessor removes a successor.             *)
THEOREM LiveRegistrationIsFound == Spec => []RegistrationKept
<1>1. TypeOK /\ Admission => RegistrationKept
  BY DEF Admission
<1> QED BY <1>1, Admitted, PTL

(* The runs that a revocation cancels were produced by registrations that  *)
(* are themselves canceled: while CancelHandler is under way the name is   *)
(* still taken by what is revoked, so nobody could register a successor.   *)
THEOREM SuccessorIsSpared == Spec => RevocationSparesSuccessor
<1> DEFINE Spares == \A c \in Callers, r \in RunIds :
                        /\ calls[c].pc = "revoke" /\ calls'[c] # calls[c]
                        /\ runs[r].state # runs'[r].state
                        /\ runs[r].by # 0
                        => regs[runs[r].by].canceled
<1>1. TypeOK /\ Admission /\ [Next]_vars => [Spares]_vars
  <2> SUFFICES ASSUME TypeOK, Admission, [Next]_vars,
                      NEW c \in Callers, NEW r \in RunIds,
                      calls[c].pc = "revoke", calls'[c] # calls[c],
                      runs[r].state # runs'[r].state, runs[r].by # 0
               PROVE  regs[runs[r].by].canceled
    OBVIOUS
  <2>1. CallerStep(c)
    BY CallerMovesItself
  <2>2. runs' = CancelHandler(calls[c].id)
    <3>1. calls[c] # NoCall /\ runs' # runs
      BY BlankRows
    <3> QED BY <2>1, <3>1 DEF CallerStep, storeVars, Register, RegisterReturns, BeginDeactivate,
               DeactivateAgain, DeactivateUnknownRevoke, DeactivateLock, DeactivateRevoke,
               DeactivateDelete, RemoveReturns, BeginDetach, DetachWait, DetachDelete, Drain,
               DrainReturns, Close, CloseReturns, Cancel, Begin, CancelActive, Pause
  <2>3. runs[r].id = calls[c].id
    BY <2>2 DEF CancelHandler
  <2>4. runs[r].by \in Made /\ regs[runs[r].by].id = calls[c].id
    BY <2>3 DEF Admission, References, RunRefers
  <2>5. entries[calls[c].id] = calls[c].reg /\ regs[calls[c].reg].canceled
    BY DEF Admission, MutexOwned, Fenced, Withdrawing, Sweeping
  <2>6. ~ regs[runs[r].by].canceled => entries[calls[c].id] = runs[r].by
    BY <2>4 DEF Admission, RegistrationKept, Made
  <2> QED BY <2>5, <2>6
<1>2. Spec => [][Spares]_vars
  BY <1>1, Admitted, PTL DEF Spec
<1> QED BY <1>2 DEF RevocationSparesSuccessor
=============================================================================
