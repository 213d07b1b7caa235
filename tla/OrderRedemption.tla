--------------------------- MODULE OrderRedemption ---------------------------
(***************************************************************************)
(* Discounts that an external provider holds for an order.  Payment and    *)
(* cancellation only write the wish to keep or to return the discount, in  *)
(* their own transaction (OrderPayments); workers then bring the provider  *)
(* in line.  A worker leases the row, asks the provider, reads the row     *)
(* again, sends at most one command and stores the answer.  Calls fail,    *)
(* answers get lost, requests arrive after the caller gave up, workers     *)
(* die, and a lease runs out under a slow worker.                          *)
(*                                                                         *)
(* The provider is external; what is assumed of it is its guarantee        *)
(* exclusive_until_core_finalization_v1: a hold ends only by a command,    *)
(* and a released key stays released.                                      *)
(***************************************************************************)
EXTENDS OrderPayments

CONSTANTS
    Workers,        \* runs of Step that may overlap: the job's and a creator's
    Stock,          \* holds the provider can give
    LeaseTime,      \* length of a lease, in ticks
    RetryDelay,     \* wait after an answer or a failure
    ConfirmDelay,   \* wait after a confirmed reservation
    MaxFaults       \* bound: failed calls, unheeded commits, crashes, outlived leases

ASSUME RedemptionAssumption ==
    /\ None \notin Workers
    /\ {Stock, LeaseTime, RetryDelay, ConfirmDelay, MaxFaults} \subseteq Nat

VARIABLES
    holds,          \* the provider's record of each order's key
    late,           \* commands whose sender no longer waits
    steps,          \* what each worker does
    faults          \* history: faults so far

redemptionVars == <<holds, late, steps, faults>>
allVars == <<vars, redemptionVars>>

Ready == [pc |-> "idle", order |-> None, command |-> "none", seen |-> "none"]

RedemptionInit ==
    /\ Init
    /\ holds = [o \in Discounted |-> "absent"]
    /\ late = {}
    /\ steps = [w \in Workers |-> Ready]
    /\ faults = 0

Fault == faults < MaxFaults /\ faults' = faults + 1

-----------------------------------------------------------------------------
(* The provider. *)

Held == {o \in Discounted : holds[o] \in {"reserved", "committed"}}

(* What a command may make of a hold. *)
Answers(o, command) ==
    CASE command = "reserve" /\ holds[o] = "absent" ->
            IF Cardinality(Held) < Stock THEN {"reserved", "rejected"} ELSE {"rejected"}
      [] command = "commit" /\ holds[o] = "reserved" -> {"committed", "reserved"}
      [] command = "release" /\ holds[o] \in {"absent", "reserved", "rejected"} -> {"released"}
      [] OTHER -> {holds[o]}

(* Answers that ValidateDiscountRedemptionResult lets through. *)
Valid(command, state) ==
    CASE command = "query" -> TRUE
      [] command = "reserve" -> state /= "absent"
      [] command = "commit" -> state \in {"committed", "reserved"}
      [] command = "release" -> state \in {"released", "committed"}

(* A command that was given up on arrives after all, or never. *)
LateCommand(r) ==
    /\ late' = late \ {r}
    /\ \/ \E state \in Answers(r.order, r.command) : holds' = [holds EXCEPT ![r.order] = state]
       \/ UNCHANGED holds
    /\ UNCHANGED <<vars, steps, faults>>

-----------------------------------------------------------------------------
(* The workers. *)

Final(o) ==
    \/ intents[o].desired = "commit" /\ intents[o].observed = "committed"
    \/ intents[o].desired = "release" /\ intents[o].observed = "released"

(* Mutant: a lease that ran out is never taken over. *)
ClaimUnleased(w, o) ==
    /\ steps[w].pc = "idle"
    /\ intents[o].desired /= "none"
    /\ intents[o].wait = 0 /\ intents[o].lease = None
    /\ ~Final(o)
    /\ intents' = [intents EXCEPT ![o].lease = w, ![o].until = LeaseTime]
    /\ steps' = [steps EXCEPT ![w] = [Ready EXCEPT !.pc = "query", !.order = o]]
    /\ UNCHANGED <<orders, funds, ledger, receipts, attempts, notified, adjustments, grants, holds, late, faults>>

(* The row is read and then leased if its revision did not move; a lease   *)
(* that misses writes nothing.                                             *)
Claim(w, o) ==
    /\ steps[w].pc = "idle"
    /\ intents[o].desired /= "none"
    /\ intents[o].wait = 0 /\ intents[o].until = 0
    /\ ~Final(o)
    /\ intents' = [intents EXCEPT ![o].lease = w, ![o].until = LeaseTime]
    /\ steps' = [steps EXCEPT ![w] = [Ready EXCEPT !.pc = "query", !.order = o]]
    /\ UNCHANGED <<orders, funds, ledger, receipts, attempts, notified, adjustments, grants, holds, late, faults>>

QueryAnswered(w) ==
    /\ steps[w].pc = "query"
    /\ steps' = [steps EXCEPT ![w].pc = "decide", ![w].seen = holds[steps[w].order]]
    /\ UNCHANGED <<vars, holds, late, faults>>

Ending(w, seen) == [steps EXCEPT ![w].pc = "finish", ![w].seen = seen]

NextDiscountRedemptionAction(desired, observed) ==
    CASE desired = "reserve" /\ observed = "absent" -> "reserve"
      [] desired = "commit" /\ observed = "reserved" -> "commit"
      [] desired = "release" /\ observed \in {"absent", "reserved", "rejected"} -> "release"
      [] OTHER -> "none"

(* Once confirmed, a hold that disappears is a conflict, not a reason to   *)
(* reserve again.                                                          *)
Disappeared(o, seen) ==
    /\ intents[o].token /\ intents[o].desired /= "release"
    /\ seen \in {"absent", "rejected", "released"}

(* The row is read again after the query. *)
Decide(w) ==
    LET o == steps[w].order
        command == NextDiscountRedemptionAction(intents[o].desired, steps[w].seen) IN
    /\ steps[w].pc = "decide"
    /\ steps' = IF Disappeared(o, steps[w].seen) THEN Ending(w, "conflict")
                ELSE IF intents[o].lease /= w THEN [steps EXCEPT ![w] = Ready]
                ELSE IF command = "none" THEN Ending(w, steps[w].seen)
                ELSE [steps EXCEPT ![w].pc = "command", ![w].command = command]
    /\ UNCHANGED <<vars, holds, late, faults>>

CommandAnswered(w) ==
    LET s == steps[w] IN
    /\ s.pc = "command"
    /\ \E state \in Answers(s.order, s.command) :
          /\ holds' = [holds EXCEPT ![s.order] = state]
          /\ steps' = Ending(w, IF Valid(s.command, state) THEN state ELSE "none")
          /\ IF s.command = "commit" /\ state = "reserved" THEN Fault ELSE UNCHANGED faults
    /\ UNCHANGED <<vars, late>>

Sent(w) == IF steps[w].pc = "command"
           THEN {[order |-> steps[w].order, command |-> steps[w].command]}
           ELSE {}

(* A call fails or times out; its command may still be on the way. *)
CallFails(w) ==
    /\ steps[w].pc \in {"query", "command"}
    /\ steps' = Ending(w, "none")
    /\ late' = late \cup Sent(w)
    /\ Fault
    /\ UNCHANGED <<vars, holds>>

Crash(w) ==
    /\ steps[w].pc /= "idle"
    /\ steps' = [steps EXCEPT ![w] = Ready]
    /\ late' = late \cup Sent(w)
    /\ Fault
    /\ UNCHANGED <<vars, holds>>

(* The answer is stored by whoever still has the lease.  The wish may have *)
(* changed meanwhile and is left alone.                                    *)
Stored(o, seen) ==
    [intents[o] EXCEPT !.lease = None, !.until = 0,
                       !.wait = IF seen = "reserved" THEN ConfirmDelay ELSE RetryDelay,
                       !.observed = IF seen = "none" THEN @ ELSE seen,
                       !.token = @ \/ seen \in {"reserved", "committed"}]

finish(w) ==
    LET o == steps[w].order IN
    /\ steps[w].pc = "finish"
    /\ intents' = IF intents[o].lease = w
                  THEN [intents EXCEPT ![o] = Stored(o, steps[w].seen)]
                  ELSE intents
    /\ steps' = [steps EXCEPT ![w] = Ready]
    /\ UNCHANGED <<orders, funds, ledger, receipts, attempts, notified, adjustments, grants, holds, late, faults>>

-----------------------------------------------------------------------------
(* The periodic job closes an order whose discount is held but not paid.   *)
(* It lists the orders whose next attempt is due before it opens the       *)
(* transactions, which do not look at the next attempt again.              *)
ExpireUnpaid(o) ==
    /\ orders[o].status \in Open
    /\ intents[o].desired = "reserve"
    /\ intents[o].window = 0
    /\ ~Live(o)
    /\ releaseOrderFunding(o)
    /\ appendWalletEntries(ReleaseEntries(o))
    /\ orders' = [orders EXCEPT ![o].status = "canceled"]
    /\ UNCHANGED <<receipts, attempts, notified, adjustments, grants, redemptionVars>>

Proceed(w) == QueryAnswered(w) \/ Decide(w) \/ CommandAnswered(w) \/ finish(w)

InTime(w, o) == steps[w].order = o /\ intents[o].lease = w

(* The clock passes the end of a lease whose worker is still busy. *)
Outlived == \E o \in Discounted, w \in Workers : InTime(w, o) /\ intents[o].until = 1

ClockStep ==
    /\ Tick
    /\ IF Outlived THEN Fault ELSE UNCHANGED faults
    /\ UNCHANGED <<holds, late, steps>>

RedemptionNext ==
    \/ ClockStep
    \/ (AdjustmentStep \/ \E o \in Orders : OrderStep(o)) /\ UNCHANGED redemptionVars
    \/ \E o \in Discounted : ExpireUnpaid(o)
    \/ \E r \in late : LateCommand(r)
    \/ \E w \in Workers, o \in Discounted : Claim(w, o)
    \/ \E w \in Workers : Proceed(w) \/ CallFails(w) \/ Crash(w)

RedemptionSpec == RedemptionInit /\ [][RedemptionNext]_allVars

(* The clock and the expiry jobs go on, the periodic job keeps claiming    *)
(* what is due, and a worker proceeds, since its calls have timeouts: two  *)
(* calls of at most three seconds fit in a lease of fifteen.               *)
RedemptionFairness ==
    /\ WF_allVars(ClockStep)
    /\ \A o \in Discounted :
          /\ WF_allVars(Expire(o) /\ UNCHANGED redemptionVars)
          /\ WF_allVars(ExpireUnpaid(o))
          /\ WF_allVars(\E w \in Workers : Claim(w, o))
    /\ \A w \in Workers : WF_allVars(Proceed(w))

FairRedemptionSpec == RedemptionSpec /\ RedemptionFairness

-----------------------------------------------------------------------------
(* While an order may be paid at its discounted price, and for good once   *)
(* it is paid, the provider holds the discount; and it is used up only by  *)
(* an order that was paid (discount_redemption.go:212-315, :108-180).      *)
HoldKept ==
    \A o \in Discounted :
        /\ ReservationHeld(o) \/ orders[o].status = "paid" => o \in Held
        /\ holds[o] = "committed" => orders[o].status = "paid"

(* No hold and no balance is left behind: for every order the discount is  *)
(* used up or returned and its funding captured or released in the end     *)
(* (discount_redemption.go:319-338, order_redemption_lifecycle.go:78-132). *)
HoldsSettle ==
    \A o \in Discounted :
        orders[o].status /= "absent" ~>
            /\ holds[o] \in {"committed", "released"}
            /\ funds[o].state /= "reserved"
=============================================================================
