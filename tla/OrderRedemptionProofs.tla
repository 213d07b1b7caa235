------------------------ MODULE OrderRedemptionProofs ------------------------
(***************************************************************************)
(* Safety proofs for discount redemption, for every set of orders and      *)
(* workers, every stock and any number of faults: the provider holds the   *)
(* discount of an order that is or may be paid, and the books of           *)
(* OrderPayments stay right while redemption runs beside it.               *)
(***************************************************************************)
EXTENDS OrderRedemption, OrderPaymentsProofs

-----------------------------------------------------------------------------
(* The inductive invariant.                                                *)

HoldStates == {"absent", "reserved", "rejected", "committed", "released"}
Commands == {"reserve", "commit", "release"}
StepRows ==
    [pc : {"idle", "query", "decide", "command", "finish"}, order : Discounted \cup {None},
     command : Commands \cup {"none"}, seen : HoldStates \cup {"none", "conflict"}]

RedemptionTyped ==
    /\ Typed(Workers \cup {None})
    /\ holds \in [Discounted -> HoldStates]
    /\ late \subseteq [order : Discounted, command : Commands]
    /\ steps \in [Workers -> StepRows]
    /\ \A w \in Workers : steps[w].pc # "idle" => steps[w].order \in Discounted
    /\ \A w \in Workers : steps[w].pc = "command" => steps[w].command \in Commands
    /\ faults \in Nat

(* The wish for a discount follows the order's status, and a wish to keep  *)
(* rests on a confirmed hold.                                              *)
WishFollows ==
    \A o \in Discounted :
        /\ intents[o].desired = "none" <=> orders[o].status = "absent"
        /\ intents[o].desired = "commit" <=> orders[o].status = "paid"
        /\ intents[o].desired = "commit" => intents[o].token

(* What was confirmed is still held, and what is used up was wished so. *)
ConfirmedHeld ==
    \A o \in Discounted :
        /\ intents[o].token /\ intents[o].desired # "release" => o \in Held
        /\ holds[o] = "committed" => intents[o].desired = "commit"

(* A command that may still arrive, however late, is still wished. *)
Wanted(o, command) ==
    /\ command = "release" => intents[o].desired = "release"
    /\ command = "commit" => intents[o].desired = "commit"

CommandsWanted ==
    /\ \A r \in late : Wanted(r.order, r.command)
    /\ \A w \in Workers : steps[w].pc = "command" => Wanted(steps[w].order, steps[w].command)

(* A hold that a worker saw lasts until it is asked back. *)
SeenHeld ==
    \A w \in Workers :
        /\ steps[w].pc \in {"decide", "finish"}
        /\ steps[w].seen \in {"reserved", "committed"}
        /\ intents[steps[w].order].desired # "release"
        => steps[w].order \in Held

RedemptionInv == WishFollows /\ ConfirmedHeld /\ CommandsWanted /\ SeenHeld

-----------------------------------------------------------------------------
(* What the transactions of OrderPayments do to the wish for a discount.   *)

Rests(o) ==
    /\ intents'[o].desired = intents[o].desired /\ intents'[o].token = intents[o].token
    /\ orders'[o].status = "paid" <=> orders[o].status = "paid"
    /\ orders'[o].status = "absent" <=> orders[o].status = "absent"

Opens(o) ==
    /\ orders[o].status = "absent" /\ orders'[o].status = "pending"
    /\ intents'[o].desired = "reserve" /\ ~intents'[o].token

GivesUp(o) ==
    /\ orders[o].status \notin {"absent", "paid"} /\ orders'[o].status \notin {"absent", "paid"}
    /\ intents[o].desired = "reserve" /\ intents'[o].desired = "release"

Commits(o) ==
    /\ ReservationHeld(o) /\ orders'[o].status = "paid"
    /\ intents'[o].desired = "commit" /\ intents'[o].token

Moves(o) == Rests(o) \/ Opens(o) \/ GivesUp(o) \/ Commits(o)

LEMMA DiscountedOrders == Discounted \subseteq Orders
BY PaymentAssumption

LEMMA ReleaseMoves ==
  ASSUME NEW H, Typed(H), NEW o \in Orders, Released(o), intents' = ReleaseIntent(o)
  PROVE  \A p \in Discounted : Moves(p)
<1>1. ASSUME NEW p \in Discounted, p # o PROVE Rests(p)
  <2>1. orders'[p] = orders[p]
    BY <1>1, DiscountedOrders DEF Released
  <2>2. intents'[p] = intents[p]
    BY <1>1 DEF ReleaseIntent, Typed
  <2> QED BY <2>1, <2>2 DEF Rests
<1>2. ASSUME o \in Discounted PROVE Moves(o)
  <2>1. CASE orders[o].status # "paid" /\ intents[o].desired = "reserve"
    <3>1. intents'[o].desired = "release"
      BY <1>2, <2>1 DEF ReleaseIntent, Typed, IntentRows
    <3> QED BY <2>1, <3>1 DEF Released, GivesUp, Moves
  <2>2. CASE ~(orders[o].status # "paid" /\ intents[o].desired = "reserve")
    <3>1. intents' = intents
      BY <2>2 DEF ReleaseIntent
    <3> QED BY <3>1 DEF Released, Rests, Moves
  <2> QED BY <2>1, <2>2
<1> QED BY <1>1, <1>2 DEF Moves

LEMMA PaidMoves ==
  ASSUME NEW H, Typed(H), NEW o \in Orders, Paid(o), ReservationHeld(o), intents' = CommitIntent(o)
  PROVE  \A p \in Discounted : Moves(p)
<1>1. ASSUME NEW p \in Discounted, p # o PROVE Rests(p)
  <2>1. orders'[p] = orders[p]
    BY <1>1, DiscountedOrders DEF Paid
  <2>2. intents'[p] = intents[p]
    BY <1>1 DEF CommitIntent, Typed
  <2> QED BY <2>1, <2>2 DEF Rests
<1>2. ASSUME o \in Discounted PROVE Commits(o)
  <2>1. intents[o].desired = "reserve" /\ intents[o].token
    BY <1>2 DEF ReservationHeld
  <2>2. intents'[o].desired = "commit" /\ intents'[o].token
    BY <1>2, <2>1 DEF CommitIntent, Typed, IntentRows
  <2> QED BY <2>2 DEF Commits, Paid
<1> QED BY <1>1, <1>2 DEF Moves

LEMMA OrderMoves ==
  ASSUME NEW H, Typed(H), NEW o \in Orders, OrderStep(o)
  PROVE  \A p \in Discounted : Moves(p)
<1>1. ASSUME UNCHANGED <<orders, intents>> PROVE \A p \in Discounted : Moves(p)
  BY <1>1 DEF Moves, Rests
<1>2. ASSUME NEW channel \in Channels, Create(o, channel) PROVE \A p \in Discounted : Moves(p)
  <2>1. ASSUME NEW p \in Discounted, p # o PROVE Rests(p)
    BY <1>2, <2>1, DiscountedOrders DEF Create, Typed, Rests
  <2>2. ASSUME o \in Discounted PROVE Opens(o)
    <3>1. intents'[o] = NewIntent
      BY <1>2, <2>2 DEF Create, Typed
    <3>2. orders[o].status = "absent" /\ orders'[o].status = "pending"
      BY <1>2 DEF Create, Typed, OrderRows
    <3> QED BY <3>1, <3>2 DEF Opens, NewIntent, NoIntent
  <2> QED BY <2>1, <2>2 DEF Moves
<1>3. ASSUME NEW balance \in BOOLEAN, Configure(o, balance) PROVE \A p \in Discounted : Moves(p)
  BY <1>1, <1>3 DEF Configure
<1>4. CASE Pay(o)
  BY <1>4, WhoPays, PaidMoves DEF Pay, setPaid
<1>5. CASE Expire(o)
  BY <1>5, WhoReleases, ReleaseMoves DEF Expire, releaseOrderFunding
<1>6. ASSUME NEW status \in {"failed", "canceled"}, NEW force \in BOOLEAN, Close(o, status, force)
      PROVE  \A p \in Discounted : Moves(p)
  BY <1>6, WhoReleases, ReleaseMoves DEF Close, releaseOrderFunding
<1>7. ASSUME NEW force \in BOOLEAN, Settle(o, force) PROVE \A p \in Discounted : Moves(p)
  BY <1>7, WhoPays, PaidMoves DEF Settle, setPaid
<1>8. ASSUME NEW p \in Providers, OpenCheckout(o, p) PROVE \A q \in Discounted : Moves(q)
  BY <1>1, <1>8 DEF OpenCheckout
<1>9. ASSUME NEW t \in Trades, RecordFailed(o, t) PROVE \A p \in Discounted : Moves(p)
  BY <1>9, WhoReleases, ReleaseMoves DEF RecordFailed, releaseOrderFunding
<1>10. ASSUME NEW t \in Trades, PaidFactStep(o, t) PROVE \A p \in Discounted : Moves(p)
  <2>0. PICK amount \in {Price[o], funds[o].cash} :
           \/ RepeatReceipt(o, t, amount) \/ BoundReceipt(o, t, amount)
           \/ ReviewReceipt(o, t, amount) \/ FulfillReceipt(o, t, amount)
           \/ CreditReceipt(o, t, amount)
    BY <1>10 DEF PaidFactStep
  <2>1. amount \in Nat
    BY PriceType DEF FundRows, Typed
  <2>2. CASE RepeatReceipt(o, t, amount) \/ BoundReceipt(o, t, amount) \/ ReviewReceipt(o, t, amount)
    BY <1>1, <2>2 DEF RepeatReceipt, BoundReceipt, ReviewReceipt
  <2>3. CASE FulfillReceipt(o, t, amount)
    BY <2>1, <2>3, WhoPays, PaidMoves DEF FulfillReceipt, setPaid
  <2>4. CASE CreditReceipt(o, t, amount)
    BY <2>1, <2>4, WhoReleases, ReleaseMoves DEF CreditReceipt, releaseOrderFunding
  <2> QED BY <2>0, <2>2, <2>3, <2>4
<1> QED BY <1>2, <1>3, <1>4, <1>5, <1>6, <1>7, <1>8, <1>9, <1>10 DEF OrderStep

LEMMA OtherMoves ==
  ASSUME NEW H, Typed(H), Tick \/ AdjustmentStep \/ UNCHANGED vars
  PROVE  \A p \in Discounted : Moves(p)
<1>1. UNCHANGED orders
  BY DEF Tick, AdjustmentStep, Resolve, Credit, Debit, Reverse, RecordPayout, vars
<1>2. CASE Tick
  <2>1. \A p \in Discounted : intents'[p].desired = intents[p].desired /\ intents'[p].token = intents[p].token
    BY <1>2 DEF Tick, Typed, IntentRows
  <2> QED BY <1>1, <2>1 DEF Moves, Rests
<1>3. CASE AdjustmentStep \/ UNCHANGED vars
  <2>1. UNCHANGED intents
    BY <1>3 DEF AdjustmentStep, Resolve, Credit, Debit, Reverse, RecordPayout, vars
  <2> QED BY <1>1, <2>1 DEF Moves, Rests
<1> QED BY <1>2, <1>3

LEMMA ExpireReleases ==
  ASSUME NEW H, Typed(H), NEW o \in Discounted, ExpireUnpaid(o)
  PROVE  o \in Orders /\ Released(o)
<1>1. o \in Orders /\ orders[o].status \in Open
  BY DiscountedOrders DEF ExpireUnpaid
<1> DEFINE row == [orders[o] EXCEPT !.status = "canceled"]
<1>2. row \in OrderRows /\ row.status = "canceled" /\ row.paid = orders[o].paid
  BY <1>1 DEF Typed, OrderRows, Statuses
<1>3. orders' = [orders EXCEPT ![o] = row]
  BY DEF ExpireUnpaid
<1>4. funds' = ReleaseFund(o)
  BY DEF ExpireUnpaid, releaseOrderFunding
<1> HIDE DEF row
<1>5. orders' \in [Orders -> OrderRows] /\ orders'[o] = row
      /\ \A p \in Orders \ {o} : orders'[p] = orders[p]
  BY <1>1, <1>2, <1>3 DEF Typed
<1> QED BY <1>1, <1>2, <1>4, <1>5 DEF Released, Open

(* A move of the wish keeps the invariant.                                 *)
LEMMA MovesKeep ==
  ASSUME RedemptionTyped, RedemptionInv, \A p \in Discounted : Moves(p),
         UNCHANGED <<holds, late, steps>>
  PROVE  RedemptionInv'
<1>a. ASSUME NEW o \in Discounted, ReservationHeld(o) PROVE intents[o].desired = "reserve" /\ intents[o].token
  BY <1>a DEF ReservationHeld
<1>1. WishFollows'
  BY DEF RedemptionInv, WishFollows, Moves, Rests, Opens, GivesUp, Commits
<1>2. ConfirmedHeld'
  BY <1>a DEF RedemptionInv, ConfirmedHeld, WishFollows, Moves, Rests, Opens, GivesUp, Commits, Held
<1>b. \A o \in Discounted : /\ intents[o].desired = "release" => intents'[o].desired = "release"
                            /\ intents[o].desired = "commit" => intents'[o].desired = "commit"
  BY <1>a DEF RedemptionInv, WishFollows, Moves, Rests, Opens, GivesUp, Commits
<1>3. CommandsWanted'
  BY <1>b DEF RedemptionInv, CommandsWanted, Wanted, RedemptionTyped
<1>4. SeenHeld'
  BY <1>b DEF RedemptionInv, SeenHeld, Held, RedemptionTyped
<1> QED BY <1>1, <1>2, <1>3, <1>4 DEF RedemptionInv


-----------------------------------------------------------------------------
(* Types                                                                   *)

LEMMA Delays == /\ LeaseTime \in Nat /\ RetryDelay \in Nat /\ ConfirmDelay \in Nat
                /\ MaxFaults \in Nat /\ Stock \in Nat
BY RedemptionAssumption

(* The provider's answers, and what a command makes of a hold.             *)
LEMMA AnswerType ==
  ASSUME NEW o \in Discounted, holds[o] \in HoldStates, NEW command, NEW state \in Answers(o, command)
  PROVE  /\ state \in HoldStates
         /\ holds[o] \in {"reserved", "committed"} /\ state \notin {"reserved", "committed"}
               => command = "release"
         /\ state = "committed" => command = "commit" \/ holds[o] = "committed"
BY DEF Answers, HoldStates

LEMMA WorkerTypes ==
  ASSUME RedemptionTyped,
         \/ \E r \in late : LateCommand(r)
         \/ \E w \in Workers, o \in Discounted : Claim(w, o)
         \/ \E w \in Workers : Proceed(w) \/ CallFails(w) \/ Crash(w)
  PROVE  RedemptionTyped'
<1> USE DEF RedemptionTyped
<1>0. ASSUME UNCHANGED vars PROVE Typed(Workers \cup {None})'
  BY <1>0 DEF Typed, vars
<1>a. \A f \in Nat : f + 1 \in Nat
  OBVIOUS
<1>1. ASSUME NEW r \in late, LateCommand(r) PROVE RedemptionTyped'
  <2>1. r.order \in Discounted /\ holds[r.order] \in HoldStates
    OBVIOUS
  <2>2. holds' \in [Discounted -> HoldStates]
    BY <1>1, <2>1, AnswerType DEF LateCommand
  <2> QED BY <1>0, <1>1, <2>2 DEF LateCommand
<1>2. ASSUME NEW w \in Workers, NEW o \in Discounted, Claim(w, o) PROVE RedemptionTyped'
  <2>1. intents' \in [Discounted -> IntentRows(Workers \cup {None})]
    <3> DEFINE row == [intents[o] EXCEPT !.lease = w, !.until = LeaseTime]
    <3>1. row \in IntentRows(Workers \cup {None})
      <4>1. intents[o] \in IntentRows(Workers \cup {None}) /\ w \in Workers \cup {None}
        BY DEF Typed
      <4>2. LeaseTime \in Nat
        BY Delays
      <4> QED BY <4>1, <4>2 DEF IntentRows
    <3>2. intents' = [intents EXCEPT ![o] = row]
      BY <1>2 DEF Claim
    <3> HIDE DEF row
    <3> QED BY <3>1, <3>2 DEF Typed
  <2>2. Typed(Workers \cup {None})'
    BY <1>2, <2>1 DEF Claim, Typed, ledger
  <2> DEFINE s == [Ready EXCEPT !.pc = "query", !.order = o]
  <2>3. s \in StepRows /\ s.pc = "query" /\ s.order = o
    BY DEF StepRows, Ready
  <2>4. steps' = [steps EXCEPT ![w] = s]
    BY <1>2 DEF Claim
  <2> HIDE DEF s
  <2>5. /\ steps' \in [Workers -> StepRows] /\ steps'[w] = s
        /\ \A v \in Workers \ {w} : steps'[v] = steps[v]
    BY <2>3, <2>4
  <2> QED BY <1>2, <2>2, <2>3, <2>5 DEF Claim
<1>3. ASSUME NEW w \in Workers, NEW s \in StepRows, steps' = [steps EXCEPT ![w] = s],
             s.pc # "idle" => s.order \in Discounted,
             s.pc = "command" => s.command \in Commands
      PROVE  /\ steps' \in [Workers -> StepRows]
             /\ \A v \in Workers : steps'[v].pc # "idle" => steps'[v].order \in Discounted
             /\ \A v \in Workers : steps'[v].pc = "command" => steps'[v].command \in Commands
  <2>1. steps' \in [Workers -> StepRows] /\ steps'[w] = s /\ \A v \in Workers \ {w} : steps'[v] = steps[v]
    BY <1>3
  <2> QED BY <1>3, <2>1
<1>b. Ready \in StepRows /\ Ready.pc = "idle"
  BY DEF StepRows, Ready
<1>c. ASSUME NEW w \in Workers, NEW seen \in HoldStates \cup {"none", "conflict"}, steps[w].pc # "idle",
             steps' = Ending(w, seen)
      PROVE  /\ steps' \in [Workers -> StepRows]
             /\ \A v \in Workers : steps'[v].pc # "idle" => steps'[v].order \in Discounted
             /\ \A v \in Workers : steps'[v].pc = "command" => steps'[v].command \in Commands
  <2> DEFINE s == [steps[w] EXCEPT !.pc = "finish", !.seen = seen]
  <2>1. s \in StepRows /\ s.pc = "finish" /\ s.order = steps[w].order
    BY <1>c DEF StepRows
  <2>2. steps' = [steps EXCEPT ![w] = s]
    BY <1>c DEF Ending
  <2>3. s.order \in Discounted
    BY <1>c, <2>1
  <2> HIDE DEF s
  <2> QED BY <1>3, <2>1, <2>2, <2>3
<1>4. ASSUME NEW w \in Workers, QueryAnswered(w) PROVE RedemptionTyped'
  <2> DEFINE s == [steps[w] EXCEPT !.pc = "decide", !.seen = holds[steps[w].order]]
  <2>1. steps[w].order \in Discounted /\ holds[steps[w].order] \in HoldStates
    BY <1>4 DEF QueryAnswered
  <2>2. s \in StepRows /\ s.pc = "decide" /\ s.order = steps[w].order
    BY <2>1 DEF StepRows
  <2>3. steps' = [steps EXCEPT ![w] = s]
    BY <1>4 DEF QueryAnswered
  <2> HIDE DEF s
  <2>4. /\ steps' \in [Workers -> StepRows]
        /\ \A v \in Workers : steps'[v].pc # "idle" => steps'[v].order \in Discounted
        /\ \A v \in Workers : steps'[v].pc = "command" => steps'[v].command \in Commands
    BY <1>3, <2>1, <2>2, <2>3
  <2> QED BY <1>0, <1>4, <2>4 DEF QueryAnswered
<1>5. ASSUME NEW w \in Workers, Decide(w) PROVE RedemptionTyped'
  <2> DEFINE o == steps[w].order
             command == NextDiscountRedemptionAction(intents[o].desired, steps[w].seen)
             s == [steps[w] EXCEPT !.pc = "command", !.command = command]
  <2>1. steps[w].pc = "decide" /\ steps[w].order \in Discounted
        /\ steps[w].seen \in HoldStates \cup {"none", "conflict"}
    BY <1>5 DEF Decide, StepRows
  <2>2. \/ steps' = Ending(w, "conflict") \/ steps' = [steps EXCEPT ![w] = Ready]
        \/ steps' = Ending(w, steps[w].seen)
        \/ command # "none" /\ steps' = [steps EXCEPT ![w] = s]
    BY <1>5 DEF Decide
  <2>3. command \in Commands \cup {"none"}
    BY DEF NextDiscountRedemptionAction, Commands
  <2> HIDE DEF command, o
  <2>4. s \in StepRows /\ s.pc = "command" /\ s.order = steps[w].order /\ s.command = command
    BY <2>3 DEF StepRows
  <2> HIDE DEF s
  <2>5. /\ steps' \in [Workers -> StepRows]
        /\ \A v \in Workers : steps'[v].pc # "idle" => steps'[v].order \in Discounted
        /\ \A v \in Workers : steps'[v].pc = "command" => steps'[v].command \in Commands
    BY <1>3, <1>b, <1>c, <2>1, <2>2, <2>3, <2>4
  <2> QED BY <1>0, <1>5, <2>5 DEF Decide
<1>6. ASSUME NEW w \in Workers, CommandAnswered(w) PROVE RedemptionTyped'
  <2>1. steps[w].pc = "command" /\ steps[w].order \in Discounted /\ holds[steps[w].order] \in HoldStates
    BY <1>6 DEF CommandAnswered
  <2>2. PICK state \in Answers(steps[w].order, steps[w].command) :
           /\ holds' = [holds EXCEPT ![steps[w].order] = state]
           /\ steps' = Ending(w, IF Valid(steps[w].command, state) THEN state ELSE "none")
           /\ faults' \in {faults, faults + 1}
    BY <1>6 DEF CommandAnswered, Fault
  <2>3. state \in HoldStates
    BY <2>1, AnswerType
  <2>4. holds' \in [Discounted -> HoldStates]
    BY <2>1, <2>2, <2>3
  <2>5. /\ steps' \in [Workers -> StepRows]
        /\ \A v \in Workers : steps'[v].pc # "idle" => steps'[v].order \in Discounted
        /\ \A v \in Workers : steps'[v].pc = "command" => steps'[v].command \in Commands
    BY <1>c, <2>1, <2>2, <2>3
  <2>6. faults' \in Nat
    BY <1>a, <2>2
  <2> QED BY <1>0, <1>6, <2>4, <2>5, <2>6 DEF CommandAnswered
<1>7. ASSUME NEW w \in Workers, steps[w].pc # "idle" PROVE Sent(w) \subseteq [order : Discounted, command : Commands]
  BY <1>7 DEF Sent
<1>8. ASSUME NEW w \in Workers, CallFails(w) PROVE RedemptionTyped'
  <2>1. steps[w].pc # "idle" /\ steps' = Ending(w, "none")
    BY <1>8 DEF CallFails
  <2>2. /\ steps' \in [Workers -> StepRows]
        /\ \A v \in Workers : steps'[v].pc # "idle" => steps'[v].order \in Discounted
        /\ \A v \in Workers : steps'[v].pc = "command" => steps'[v].command \in Commands
    BY <1>c, <2>1
  <2> QED BY <1>0, <1>7, <1>8, <1>a, <2>1, <2>2 DEF CallFails, Fault
<1>9. ASSUME NEW w \in Workers, Crash(w) PROVE RedemptionTyped'
  <2>1. steps[w].pc # "idle" /\ steps' = [steps EXCEPT ![w] = Ready]
    BY <1>9 DEF Crash
  <2>2. /\ steps' \in [Workers -> StepRows]
        /\ \A v \in Workers : steps'[v].pc # "idle" => steps'[v].order \in Discounted
        /\ \A v \in Workers : steps'[v].pc = "command" => steps'[v].command \in Commands
    BY <1>3, <1>b, <2>1
  <2> QED BY <1>0, <1>7, <1>9, <1>a, <2>1, <2>2 DEF Crash, Fault
<1>10. ASSUME NEW w \in Workers, finish(w) PROVE RedemptionTyped'
  <2>1. steps[w].order \in Discounted /\ steps[w].seen \in HoldStates \cup {"none", "conflict"}
    BY <1>10 DEF finish, StepRows
  <2>2. Stored(steps[w].order, steps[w].seen) \in IntentRows(Workers \cup {None})
    <3>1. intents[steps[w].order] \in IntentRows(Workers \cup {None}) /\ None \in Workers \cup {None}
      BY <2>1 DEF Typed
    <3>2. RetryDelay \in Nat /\ ConfirmDelay \in Nat /\ 0 \in Nat
      BY Delays
    <3>3. steps[w].seen \in {"none", "absent", "reserved", "rejected", "committed", "released", "conflict"}
      BY <2>1 DEF HoldStates
    <3> QED BY <3>1, <3>2, <3>3 DEF Stored, IntentRows
  <2>3. intents' \in [Discounted -> IntentRows(Workers \cup {None})]
    BY <1>10, <2>1, <2>2 DEF finish, Typed
  <2>4. Typed(Workers \cup {None})'
    BY <1>10, <2>3 DEF finish, Typed, ledger
  <2>5. steps' = [steps EXCEPT ![w] = Ready]
    BY <1>10 DEF finish
  <2>6. /\ steps' \in [Workers -> StepRows]
        /\ \A v \in Workers : steps'[v].pc # "idle" => steps'[v].order \in Discounted
        /\ \A v \in Workers : steps'[v].pc = "command" => steps'[v].command \in Commands
    BY <1>3, <1>b, <2>5
  <2> QED BY <1>10, <2>4, <2>6 DEF finish
<1> QED BY <1>1, <1>2, <1>4, <1>5, <1>6, <1>8, <1>9, <1>10 DEF Proceed


-----------------------------------------------------------------------------
(* A command that is still wished, whenever it arrives, takes no hold from *)
(* an order that does not give it up, and uses up none that is not paid.   *)
LEMMA CommandHarmless ==
  ASSUME RedemptionTyped, RedemptionInv, NEW o \in Discounted, NEW command \in Commands,
         Wanted(o, command), NEW state \in Answers(o, command),
         holds' = [holds EXCEPT ![o] = state], UNCHANGED intents
  PROVE  /\ ConfirmedHeld'
         /\ \A p \in Discounted : p \in Held /\ intents[p].desired # "release" => p \in Held'
<1>1. holds[o] \in HoldStates
  BY DEF RedemptionTyped
<1>2. /\ holds[o] \in {"reserved", "committed"} /\ state \notin {"reserved", "committed"}
            => command = "release"
      /\ state = "committed" => command = "commit" \/ holds[o] = "committed"
  BY <1>1, AnswerType
<1>3. holds'[o] = state /\ \A p \in Discounted \ {o} : holds'[p] = holds[p]
  BY DEF RedemptionTyped
<1>4. \A p \in Discounted : p \in Held /\ intents[p].desired # "release" => p \in Held'
  BY <1>2, <1>3 DEF Held, Wanted
<1>5. \A p \in Discounted : holds'[p] = "committed" => intents[p].desired = "commit"
  BY <1>2, <1>3 DEF Wanted, RedemptionInv, ConfirmedHeld
<1> QED BY <1>4, <1>5 DEF ConfirmedHeld, RedemptionInv

LEMMA WorkersKeep ==
  ASSUME RedemptionTyped, RedemptionTyped', RedemptionInv,
         \/ \E r \in late : LateCommand(r)
         \/ \E w \in Workers, o \in Discounted : Claim(w, o)
         \/ \E w \in Workers : Proceed(w) \/ CallFails(w) \/ Crash(w)
  PROVE  RedemptionInv'
<1>0. ASSUME UNCHANGED <<orders, intents>> PROVE WishFollows'
  BY <1>0 DEF RedemptionInv, WishFollows
<1>1. ASSUME UNCHANGED <<intents, holds>> PROVE ConfirmedHeld'
  BY <1>1 DEF RedemptionInv, ConfirmedHeld, Held
<1>2. ASSUME NEW r \in late, LateCommand(r) PROVE RedemptionInv'
  <2>1. r.order \in Discounted /\ r.command \in Commands /\ Wanted(r.order, r.command)
    BY DEF RedemptionTyped, RedemptionInv, CommandsWanted
  <2>2. UNCHANGED <<orders, intents, steps>> /\ late' \subseteq late
    BY <1>2 DEF LateCommand, vars
  <2>3. /\ ConfirmedHeld'
        /\ \A p \in Discounted : p \in Held /\ intents[p].desired # "release" => p \in Held'
    <3>1. CASE UNCHANGED holds
      BY <3>1, <1>1, <2>2 DEF Held
    <3>2. ASSUME NEW state \in Answers(r.order, r.command), holds' = [holds EXCEPT ![r.order] = state]
          PROVE  /\ ConfirmedHeld'
                 /\ \A p \in Discounted : p \in Held /\ intents[p].desired # "release" => p \in Held'
      BY <2>1, <2>2, <3>2, CommandHarmless
    <3> QED BY <1>2, <3>1, <3>2 DEF LateCommand
  <2>4. CommandsWanted'
    BY <2>2 DEF RedemptionInv, CommandsWanted, Wanted
  <2>5. SeenHeld'
    <3>1. \A w \in Workers : steps[w].pc \in {"decide", "finish"} => steps[w].order \in Discounted
      BY DEF RedemptionTyped
    <3> QED BY <2>2, <2>3, <3>1 DEF RedemptionInv, SeenHeld
  <2> QED BY <1>0, <2>2, <2>3, <2>4, <2>5 DEF RedemptionInv
<1>3. ASSUME NEW w \in Workers, NEW o \in Discounted, Claim(w, o) PROVE RedemptionInv'
  <2>1. /\ \A p \in Discounted : intents'[p].desired = intents[p].desired /\ intents'[p].token = intents[p].token
        /\ UNCHANGED <<orders, holds, late>>
    BY <1>3 DEF Claim, RedemptionTyped, Typed, IntentRows
  <2>2. steps'[w].pc = "query" /\ \A v \in Workers \ {w} : steps'[v] = steps[v]
    BY <1>3 DEF Claim, RedemptionTyped, Ready
  <2>3. WishFollows'
    BY <2>1 DEF RedemptionInv, WishFollows
  <2>4. ConfirmedHeld'
    BY <2>1 DEF RedemptionInv, ConfirmedHeld, Held
  <2>5. CommandsWanted'
    BY <2>1, <2>2 DEF RedemptionInv, CommandsWanted, Wanted, RedemptionTyped
  <2>6. SeenHeld'
    <3>1. \A v \in Workers : steps[v].pc \in {"decide", "finish"} => steps[v].order \in Discounted
      BY DEF RedemptionTyped
    <3> QED BY <2>1, <2>2, <3>1 DEF RedemptionInv, SeenHeld, Held
  <2> QED BY <2>3, <2>4, <2>5, <2>6 DEF RedemptionInv
<1>4. ASSUME NEW w \in Workers, UNCHANGED <<orders, intents>>, ConfirmedHeld',
             \A p \in Discounted : p \in Held /\ intents[p].desired # "release" => p \in Held',
             \A r \in late' : r \in late \/ Wanted(r.order, r.command),
             \A v \in Workers \ {w} : steps'[v] = steps[v],
             steps'[w].pc = "command" => Wanted(steps'[w].order, steps'[w].command),
             /\ steps'[w].pc \in {"decide", "finish"} /\ steps'[w].seen \in {"reserved", "committed"}
             /\ intents[steps'[w].order].desired # "release"
             => steps'[w].order \in Held'
      PROVE  RedemptionInv'
  <2>1. CommandsWanted'
    BY <1>4 DEF RedemptionInv, CommandsWanted, Wanted
  <2>2. \A v \in Workers : steps[v].pc \in {"decide", "finish"} => steps[v].order \in Discounted
    BY DEF RedemptionTyped
  <2>3. SeenHeld'
    BY <1>4, <2>2 DEF RedemptionInv, SeenHeld
  <2> QED BY <1>0, <1>4, <2>1, <2>3 DEF RedemptionInv
<1>5. ASSUME UNCHANGED <<intents, holds>>
      PROVE  /\ ConfirmedHeld'
             /\ \A p \in Discounted : p \in Held /\ intents[p].desired # "release" => p \in Held'
  BY <1>1, <1>5 DEF Held
<1>6. ASSUME NEW w \in Workers, QueryAnswered(w) PROVE RedemptionInv'
  <2>1. /\ steps[w].order \in Discounted
        /\ steps'[w].pc = "decide" /\ steps'[w].order = steps[w].order
        /\ steps'[w].seen = holds[steps[w].order]
        /\ \A v \in Workers \ {w} : steps'[v] = steps[v]
    BY <1>6 DEF QueryAnswered, RedemptionTyped, StepRows
  <2>2. UNCHANGED <<orders, intents, holds, late>>
    BY <1>6 DEF QueryAnswered, vars
  <2>3. steps'[w].seen \in {"reserved", "committed"} => steps'[w].order \in Held'
    BY <2>1, <2>2 DEF Held
  <2> QED BY <1>4, <1>5, <2>1, <2>2, <2>3
<1>7. ASSUME NEW w \in Workers, NEW seen, steps' = Ending(w, seen)
      PROVE  /\ steps'[w].pc = "finish" /\ steps'[w].order = steps[w].order /\ steps'[w].seen = seen
             /\ \A v \in Workers \ {w} : steps'[v] = steps[v]
  BY <1>7 DEF Ending, RedemptionTyped, StepRows
<1>8. ASSUME NEW w \in Workers, Decide(w) PROVE RedemptionInv'
  <2> DEFINE o == steps[w].order
             command == NextDiscountRedemptionAction(intents[o].desired, steps[w].seen)
  <2>1. steps[w].pc = "decide" /\ steps[w].order \in Discounted
    BY <1>8 DEF Decide, RedemptionTyped
  <2>2. UNCHANGED <<orders, intents, holds, late>>
    BY <1>8 DEF Decide, vars
  <2>3. CASE steps' = Ending(w, "conflict")
    BY <1>4, <1>5, <1>7, <2>2, <2>3
  <2>4. CASE steps' = [steps EXCEPT ![w] = Ready]
    <3>1. steps'[w].pc = "idle" /\ \A v \in Workers \ {w} : steps'[v] = steps[v]
      BY <2>4 DEF RedemptionTyped, Ready
    <3> QED BY <1>4, <1>5, <2>2, <3>1
  <2>5. CASE steps' = Ending(w, steps[w].seen)
    <3>1. /\ steps'[w].pc = "finish" /\ steps'[w].order = steps[w].order
          /\ steps'[w].seen = steps[w].seen /\ \A v \in Workers \ {w} : steps'[v] = steps[v]
      BY <1>7, <2>5
    <3>2. /\ steps[w].seen \in {"reserved", "committed"} /\ intents[steps[w].order].desired # "release"
          => steps[w].order \in Held'
      BY <2>1, <2>2 DEF RedemptionInv, SeenHeld, Held
    <3> QED BY <1>4, <1>5, <2>2, <3>1, <3>2
  <2>6. CASE steps' = [steps EXCEPT ![w].pc = "command", ![w].command = command]
    <3>1. /\ steps'[w].pc = "command" /\ steps'[w].order = steps[w].order
          /\ steps'[w].command = command /\ \A v \in Workers \ {w} : steps'[v] = steps[v]
      BY <2>6 DEF RedemptionTyped, StepRows
    <3>2. Wanted(steps[w].order, command)
      BY DEF Wanted, NextDiscountRedemptionAction
    <3> HIDE DEF command
    <3> QED BY <1>4, <1>5, <2>2, <3>1, <3>2
  <2> QED BY <1>8, <2>3, <2>4, <2>5, <2>6 DEF Decide
<1>9. ASSUME NEW w \in Workers, CommandAnswered(w) PROVE RedemptionInv'
  <2>1. /\ steps[w].pc = "command" /\ steps[w].order \in Discounted /\ steps[w].command \in Commands
        /\ Wanted(steps[w].order, steps[w].command)
    BY <1>9 DEF CommandAnswered, RedemptionTyped, RedemptionInv, CommandsWanted
  <2>2. PICK state \in Answers(steps[w].order, steps[w].command) :
           /\ holds' = [holds EXCEPT ![steps[w].order] = state]
           /\ steps' = Ending(w, IF Valid(steps[w].command, state) THEN state ELSE "none")
    BY <1>9 DEF CommandAnswered
  <2>3. UNCHANGED <<orders, intents, late>>
    BY <1>9 DEF CommandAnswered, vars
  <2>4. /\ ConfirmedHeld'
        /\ \A p \in Discounted : p \in Held /\ intents[p].desired # "release" => p \in Held'
    BY <2>1, <2>2, <2>3, CommandHarmless
  <2>5. /\ steps'[w].pc = "finish" /\ steps'[w].order = steps[w].order
        /\ steps'[w].seen \in {state, "none"}
        /\ \A v \in Workers \ {w} : steps'[v] = steps[v]
    BY <1>7, <2>2
  <2>6. steps'[w].seen \in {"reserved", "committed"} => steps'[w].order \in Held'
    BY <2>1, <2>2, <2>5 DEF Held, RedemptionTyped
  <2> QED BY <1>4, <2>3, <2>4, <2>5, <2>6
<1>10. ASSUME NEW w \in Workers PROVE \A r \in Sent(w) : Wanted(r.order, r.command)
  BY DEF Sent, RedemptionInv, CommandsWanted
<1>11. ASSUME NEW w \in Workers, CallFails(w) PROVE RedemptionInv'
  <2>1. UNCHANGED <<orders, intents, holds>> /\ late' = late \cup Sent(w)
    BY <1>11 DEF CallFails, vars
  <2>2. /\ steps'[w].pc = "finish" /\ steps'[w].seen = "none"
        /\ \A v \in Workers \ {w} : steps'[v] = steps[v]
    BY <1>7, <1>11 DEF CallFails
  <2> QED BY <1>4, <1>5, <1>10, <2>1, <2>2
<1>12. ASSUME NEW w \in Workers, Crash(w) PROVE RedemptionInv'
  <2>1. UNCHANGED <<orders, intents, holds>> /\ late' = late \cup Sent(w)
    BY <1>12 DEF Crash, vars
  <2>2. steps'[w].pc = "idle" /\ \A v \in Workers \ {w} : steps'[v] = steps[v]
    BY <1>12 DEF Crash, RedemptionTyped, Ready
  <2> QED BY <1>4, <1>5, <1>10, <2>1, <2>2
<1>13. ASSUME NEW w \in Workers, finish(w) PROVE RedemptionInv'
  <2> DEFINE o == steps[w].order
  <2>1. steps[w].pc = "finish" /\ o \in Discounted /\ UNCHANGED <<orders, holds, late>>
    BY <1>13 DEF finish, RedemptionTyped
  <2>2. steps'[w].pc = "idle" /\ \A v \in Workers \ {w} : steps'[v] = steps[v]
    BY <1>13 DEF finish, RedemptionTyped, Ready
  <2>3. /\ \A p \in Discounted : intents'[p].desired = intents[p].desired
        /\ \A p \in Discounted \ {o} : intents'[p] = intents[p]
        /\ \/ intents'[o].token = intents[o].token
           \/ intents'[o].token /\ steps[w].seen \in {"reserved", "committed"}
    <3>1. CASE intents[o].lease = w
      <4>1. intents' = [intents EXCEPT ![o] = Stored(o, steps[w].seen)]
        BY <1>13, <3>1 DEF finish
      <4>2. /\ Stored(o, steps[w].seen).desired = intents[o].desired
            /\ Stored(o, steps[w].seen).token
                  = (intents[o].token \/ steps[w].seen \in {"reserved", "committed"})
            /\ intents[o].token \in BOOLEAN
        BY <2>1 DEF Stored, RedemptionTyped, Typed, IntentRows
      <4>3. intents'[o] = Stored(o, steps[w].seen) /\ \A p \in Discounted \ {o} : intents'[p] = intents[p]
        BY <2>1, <4>1 DEF RedemptionTyped, Typed
      <4> QED BY <4>2, <4>3
    <3>2. CASE intents[o].lease # w
      BY <1>13, <3>2 DEF finish
    <3> QED BY <3>1, <3>2
  <2>4. WishFollows'
    BY <2>1, <2>3 DEF RedemptionInv, WishFollows
  <2>5. intents[o].desired # "release" /\ steps[w].seen \in {"reserved", "committed"} => o \in Held
    BY <2>1 DEF RedemptionInv, SeenHeld
  <2> HIDE DEF o
  <2>6. ConfirmedHeld'
    BY <2>1, <2>3, <2>5 DEF RedemptionInv, ConfirmedHeld, Held
  <2>7. CommandsWanted'
    BY <2>1, <2>2, <2>3 DEF RedemptionInv, CommandsWanted, Wanted, RedemptionTyped
  <2>8. SeenHeld'
    <3>1. \A v \in Workers : steps[v].pc \in {"decide", "finish"} => steps[v].order \in Discounted
      BY DEF RedemptionTyped
    <3> QED BY <2>1, <2>2, <2>3, <3>1 DEF RedemptionInv, SeenHeld, Held
  <2> QED BY <2>4, <2>6, <2>7, <2>8 DEF RedemptionInv
<1> QED BY <1>2, <1>3, <1>6, <1>8, <1>9, <1>11, <1>12, <1>13 DEF Proceed


-----------------------------------------------------------------------------
(* The steps put together.                                                 *)

LEMMA ExpireType ==
  ASSUME NEW H, Typed(H), NEW o \in Discounted, ExpireUnpaid(o)
  PROVE  Typed(H)'
<1>1. o \in Orders /\ Released(o)
  BY ExpireReleases
<1>2. account' \in AccountRows /\ entries' \subseteq EntryRows
  BY <1>1, ReleaseEntriesType, AppendType DEF Typed, ExpireUnpaid
<1>3. funds' \in [Orders -> FundRows] /\ intents' \in [Discounted -> IntentRows(H)]
  BY <1>1, ReleaseType DEF Typed, ExpireUnpaid
<1>4. orders' \in [Orders -> OrderRows]
  BY <1>1 DEF Released
<1> QED BY <1>2, <1>3, <1>4 DEF Typed, ExpireUnpaid

LEMMA RedemptionTypeStep ==
  ASSUME RedemptionTyped, [RedemptionNext]_allVars PROVE RedemptionTyped'
<1> DEFINE H == Workers \cup {None}
<1>0. Typed(H) /\ None \in H
  BY DEF RedemptionTyped
<1> HIDE DEF H
<1>1. ASSUME Typed(H)', UNCHANGED <<holds, late, steps>>, faults' \in Nat PROVE RedemptionTyped'
  BY <1>1 DEF RedemptionTyped, H
<1>2. CASE ClockStep
  <2>1. Typed(H)'
    BY <1>0, <1>2, TickType DEF ClockStep
  <2>2. faults' \in Nat
    BY <1>2 DEF ClockStep, Fault, RedemptionTyped
  <2> QED BY <1>1, <1>2, <2>1, <2>2 DEF ClockStep
<1>3. ASSUME AdjustmentStep \/ \E o \in Orders : OrderStep(o), UNCHANGED redemptionVars
      PROVE  RedemptionTyped'
  <2>1. Typed(H)'
    BY <1>0, <1>3, AdjustmentType, OrderType
  <2> QED BY <1>1, <1>3, <2>1 DEF redemptionVars, RedemptionTyped
<1>4. ASSUME NEW o \in Discounted, ExpireUnpaid(o) PROVE RedemptionTyped'
  <2>1. Typed(H)'
    BY <1>0, <1>4, ExpireType
  <2> QED BY <1>1, <1>4, <2>1 DEF ExpireUnpaid, redemptionVars, RedemptionTyped
<1>5. CASE UNCHANGED allVars
  <2>1. Typed(H)'
    BY <1>0, <1>5 DEF allVars, vars, Typed
  <2> QED BY <1>1, <1>5, <2>1 DEF allVars, redemptionVars, RedemptionTyped
<1> QED BY <1>2, <1>3, <1>4, <1>5, WorkerTypes DEF RedemptionNext

LEMMA RedemptionStep ==
  ASSUME RedemptionTyped, RedemptionTyped', RedemptionInv, [RedemptionNext]_allVars
  PROVE  RedemptionInv'
<1>0. Typed(Workers \cup {None})
  BY DEF RedemptionTyped
<1>1. CASE ClockStep
  <2>1. \A p \in Discounted : Moves(p)
    BY <1>0, <1>1, OtherMoves DEF ClockStep
  <2> QED BY <1>1, <2>1, MovesKeep DEF ClockStep
<1>2. ASSUME AdjustmentStep \/ \E o \in Orders : OrderStep(o), UNCHANGED redemptionVars
      PROVE  RedemptionInv'
  <2>1. \A p \in Discounted : Moves(p)
    BY <1>0, <1>2, OtherMoves, OrderMoves
  <2> QED BY <1>2, <2>1, MovesKeep DEF redemptionVars
<1>3. ASSUME NEW o \in Discounted, ExpireUnpaid(o) PROVE RedemptionInv'
  <2>1. o \in Orders /\ Released(o)
    BY <1>0, <1>3, ExpireReleases
  <2>2. \A p \in Discounted : Moves(p)
    BY <1>0, <1>3, <2>1, ReleaseMoves DEF ExpireUnpaid, releaseOrderFunding
  <2> QED BY <1>3, <2>2, MovesKeep DEF ExpireUnpaid, redemptionVars
<1>4. CASE UNCHANGED allVars
  <2>1. \A p \in Discounted : Moves(p)
    BY <1>0, <1>4, OtherMoves DEF allVars
  <2> QED BY <1>4, <2>1, MovesKeep DEF allVars, redemptionVars
<1> QED BY <1>1, <1>2, <1>3, <1>4, WorkersKeep DEF RedemptionNext

LEMMA RedemptionInitial == RedemptionInit => RedemptionTyped /\ RedemptionInv
<1> SUFFICES ASSUME RedemptionInit PROVE RedemptionTyped /\ RedemptionInv
  OBVIOUS
<1>1. Typed({None})
  BY InitType DEF RedemptionInit, TypeOK
<1>2. Typed(Workers \cup {None})
  BY <1>1 DEF Typed, IntentRows
<1>3. \A w \in Workers : steps[w] = Ready
  BY DEF RedemptionInit
<1>4. Ready \in StepRows /\ Ready.pc = "idle"
  BY DEF Ready, StepRows
<1>5. RedemptionTyped
  BY <1>2, <1>3, <1>4 DEF RedemptionTyped, RedemptionInit, HoldStates
<1>6. \A o \in Discounted : /\ orders[o] = NoOrder /\ intents[o] = NoIntent /\ holds[o] = "absent"
  BY DiscountedOrders DEF RedemptionInit, Init
<1>7. WishFollows /\ ConfirmedHeld
  BY <1>6 DEF WishFollows, ConfirmedHeld, NoOrder, NoIntent
<1>8. CommandsWanted /\ SeenHeld
  BY <1>3, <1>4 DEF CommandsWanted, SeenHeld, RedemptionInit
<1> QED BY <1>5, <1>7, <1>8 DEF RedemptionInv

LEMMA RedemptionAgrees == RedemptionSpec => [](RedemptionTyped /\ RedemptionInv)
BY RedemptionInitial, RedemptionTypeStep, RedemptionStep, PTL DEF RedemptionSpec

(* Whatever calls fail, answers get lost, commands arrive late, workers    *)
(* die or outlive their leases: the provider holds the discount of every   *)
(* order that may be paid at the discounted price and of every order that  *)
(* was, and no discount is used up by an order that is not paid            *)
(* (discount_redemption.go:212-315, :108-180).                             *)
THEOREM HoldIsKept == RedemptionSpec => []HoldKept
<1>1. ASSUME RedemptionInv PROVE HoldKept
  <2> SUFFICES ASSUME NEW o \in Discounted
               PROVE  /\ ReservationHeld(o) \/ orders[o].status = "paid" => o \in Held
                      /\ holds[o] = "committed" => orders[o].status = "paid"
    BY DEF HoldKept
  <2>1. ReservationHeld(o) => o \in Held
    BY <1>1 DEF RedemptionInv, ConfirmedHeld, ReservationHeld
  <2>2. orders[o].status = "paid" => o \in Held
    BY <1>1 DEF RedemptionInv, ConfirmedHeld, WishFollows
  <2>3. holds[o] = "committed" => orders[o].status = "paid"
    BY <1>1 DEF RedemptionInv, ConfirmedHeld, WishFollows
  <2> QED BY <2>1, <2>2, <2>3
<1> QED BY <1>1, RedemptionAgrees, PTL

-----------------------------------------------------------------------------
(* The books beside redemption.                                            *)

Books == RowsAgree /\ WalletExplained /\ PaidInFull

LEMMA BooksUntouched ==
  ASSUME NEW H, Typed(H), Typed(H)', Books,
         UNCHANGED <<orders, funds, account, entries, receipts, adjustments, grants>>
  PROVE  Books'
<1>1. RowsAgree'
  BY DEF Books, RowsAgree, KeysAgree, Booked, FundsAgree, OrdersAgree, ReviewsAgree, Configured
<1>2. PaidInFull'
  BY PriceUntouched DEF Books
<1>3. \A j \in Credits : Booked(<<"credit", j>>)' <=> Booked(<<"credit", j>>)
  BY BookedSame
<1>4. WalletExplained'
  BY <1>3, SameTotals DEF Books, WalletExplained
<1> QED BY <1>1, <1>2, <1>4 DEF Books

LEMMA BooksStep ==
  ASSUME NEW H, Typed(H), Typed(H)', Books, PaymentNext PROVE Books'
<1>1. RowsAgree'
  BY StepAgree DEF Books
<1>2. ASSUME NEW o \in Orders, OrderStep(o) PROVE Books'
  BY <1>1, <1>2, OrderPrice, OrderWallet DEF Books
<1>3. CASE AdjustmentStep
  BY <1>1, <1>3, OtherPrice, AdjustmentWallet DEF Books
<1>4. CASE Tick
  BY <1>1, <1>4, OtherPrice, OtherWallet DEF Books
<1> QED BY <1>2, <1>3, <1>4 DEF PaymentNext

LEMMA BooksExpire ==
  ASSUME NEW H, Typed(H), Typed(H)', Books, NEW o \in Discounted, ExpireUnpaid(o) PROVE Books'
<1>1. o \in Orders /\ Released(o) /\ appendWalletEntries(ReleaseEntries(o))
      /\ UNCHANGED <<receipts, adjustments, grants>>
  BY ExpireReleases DEF ExpireUnpaid
<1>2. RowsAgree'
  BY <1>1, ReleasedAgree DEF Books
<1>3. WalletExplained'
  BY <1>1, ReleasedWallet DEF Books
<1>4. \A p \in Orders : /\ orders'[p].status = "paid" <=> orders[p].status = "paid"
                        /\ funds'[p].wallet = funds[p].wallet
                        /\ funds'[p].state = "captured" <=> funds[p].state = "captured"
  BY <1>1, ReleasedFunds DEF Released
<1>5. PaidInFull'
  BY <1>1, <1>4, PriceUntouched DEF Books
<1> QED BY <1>2, <1>3, <1>5 DEF Books

LEMMA BooksInitial == Init => Books
BY InitAgree, InitWallet, InitPrice DEF Books

(* Redemption and its expiry job do not disturb the books: with any number *)
(* of workers beside the payments, balance is explained, reserved only for *)
(* open orders, and every paid order cost its price                        *)
(* (order_redemption_lifecycle.go:78-132, wallet_payments.go:213-252).     *)
THEOREM BooksBesideRedemption ==
  RedemptionSpec => [](WalletExplained /\ PaidInFull /\ HeldWhileOpen)
<1>1. ASSUME RedemptionTyped, RedemptionTyped', Books, [RedemptionNext]_allVars PROVE Books'
  <2> DEFINE H == Workers \cup {None}
  <2>0. Typed(H) /\ Typed(H)'
    BY <1>1 DEF RedemptionTyped
  <2> HIDE DEF H
  <2>1. CASE PaymentNext
    BY <1>1, <2>0, <2>1, BooksStep
  <2>2. ASSUME NEW o \in Discounted, ExpireUnpaid(o) PROVE Books'
    BY <1>1, <2>0, <2>2, BooksExpire
  <2>3. ASSUME \/ UNCHANGED allVars
               \/ \E r \in late : LateCommand(r)
               \/ \E w \in Workers, o \in Discounted : Claim(w, o)
               \/ \E w \in Workers : Proceed(w) \/ CallFails(w) \/ Crash(w)
        PROVE  Books'
    <3>1. UNCHANGED <<orders, funds, account, entries, receipts, adjustments, grants>>
      BY <2>3 DEF allVars, vars, LateCommand, Claim, Proceed, QueryAnswered, Decide, CommandAnswered,
         finish, CallFails, Crash, ledger
    <3> QED BY <1>1, <2>0, <3>1, BooksUntouched
  <2>4. ClockStep => PaymentNext
    BY DEF ClockStep, PaymentNext
  <2> QED BY <1>1, <2>1, <2>2, <2>3, <2>4 DEF RedemptionNext, PaymentNext
<1>2. Books => WalletExplained /\ PaidInFull /\ HeldWhileOpen
  BY DEF Books, RowsAgree, FundsAgree, HeldWhileOpen
<1>3. RedemptionInit => Books
  BY BooksInitial DEF RedemptionInit
<1> QED BY <1>1, <1>2, <1>3, RedemptionAgrees, PTL DEF RedemptionSpec
=============================================================================
