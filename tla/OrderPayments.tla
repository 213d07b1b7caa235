---------------------------- MODULE OrderPayments ----------------------------
(***************************************************************************)
(* Orders, their funding, the wallet and the receipts of one customer      *)
(* (adapters/persistence/commercestore), in one currency.  Every database  *)
(* transaction is one action: it locks the order row first, then the       *)
(* account, so transactions about the same order or wallet are serialised; *)
(* the model lets them come in every order.  A transaction that returns an *)
(* error is rolled back and is no step.                                    *)
(*                                                                         *)
(* Times are countdowns: a row that expires at T holds what is left until  *)
(* T, and Tick lowers all of them together.                                *)
(***************************************************************************)
EXTENDS Integers, FiniteSets, FiniteSetsExt

CONSTANTS
    Orders,
    TopUps,         \* orders of type topup
    Discounted,     \* orders whose price rests on a discount reservation
    Price,          \* payable_amount of an order
    Channels,       \* channels a purchase may be created with
    Trades,         \* payments at a provider (provider and trade number)
    Issuer,         \* the provider of a trade
    Plugins,        \* providers that are native plugins; others are integrations
    Credits,        \* administrator credits: idempotency keys
    Debits,         \* administrator debits: idempotency keys
    Amount,         \* amount of a credit or debit
    Lifetime        \* orderFundingLifetime, in ticks

Providers == {Issuer[t] : t \in Trades}
None == "none"

ASSUME PaymentAssumption ==
    /\ TopUps \subseteq Orders /\ Discounted \subseteq Orders \ TopUps
    /\ Price \in [Orders -> Nat]
    /\ \A o \in TopUps : Price[o] > 0
    /\ Plugins \subseteq Providers
    /\ {None, "wallet"} \cap Providers = {} /\ None \notin Trades
    /\ Amount \in [Credits \cup Debits -> Nat \ {0}]
    /\ Lifetime \in Nat \ {0}
    /\ \A S \in {Orders, Trades, Credits, Debits} : IsFiniteSet(S)

VARIABLES
    orders,
    funds,          \* order_fundings
    intents,        \* order_discount_redemptions
    account,        \* wallet_accounts
    entries,        \* wallet_entries: append-only, unique by key
    receipts,       \* payment_receipts
    attempts,       \* payment_attempts
    notified,       \* orders with a payment event
    adjustments,    \* wallet_adjustments
    grants          \* history: how often an order was fulfilled

ledger == <<account, entries>>
vars == <<orders, funds, intents, account, entries, receipts, attempts, notified,
          adjustments, grants>>

Open == {"pending", "failed"}
Statuses == Open \cup {"absent", "canceled", "paid"}

NoOrder == [status |-> "absent", channel |-> None, trade |-> None, paid |-> 0]
NoFund == [state |-> "none", balance |-> FALSE, wallet |-> 0, cash |-> 0, left |-> 0]
NoIntent == [desired |-> "none", observed |-> "none", token |-> FALSE, window |-> 0,
             wait |-> 0, lease |-> None, until |-> 0]
NoReceipt == [disposition |-> "none", order |-> None, amount |-> 0]

Init ==
    /\ orders = [o \in Orders |-> NoOrder]
    /\ funds = [o \in Orders |-> NoFund]
    /\ intents = [o \in Discounted |-> NoIntent]
    /\ account = [balance |-> 0, reserved |-> 0]
    /\ entries = {}
    /\ receipts = [t \in Trades |-> NoReceipt]
    /\ attempts = {}
    /\ notified = {}
    /\ adjustments = [d \in Debits |-> [status |-> "none", reversed |-> FALSE]]
    /\ grants = [o \in Orders |-> 0]

-----------------------------------------------------------------------------
(* The wallet: an account row and the entries that explain it. *)

Entry(key, balance, reserved) == [key |-> key, balance |-> balance, reserved |-> reserved]

Booked(key) == \E e \in entries : e.key = key

Fresh(es) == {e \in es : ~Booked(e.key)}

Total(f) == MapThenSumSet(LAMBDA x : f[x], DOMAIN f)

Balance(es) == account.balance + Total([e \in es |-> e.balance])
Reserved(es) == account.reserved + Total([e \in es |-> e.reserved])

(* An entry whose key exists is not applied again, and must be the same;   *)
(* the account never becomes negative or reserves more than it has.        *)
appendWalletEntries(es) ==
    /\ \A e \in es, f \in entries : f.key = e.key => f = e
    /\ Reserved(Fresh(es)) >= 0
    /\ Balance(Fresh(es)) >= Reserved(Fresh(es))
    /\ account' = [balance |-> Balance(Fresh(es)), reserved |-> Reserved(Fresh(es))]
    /\ entries' = entries \cup es

Available == account.balance - account.reserved

-----------------------------------------------------------------------------
(* Funding of an order and the reservation of its discount. *)

Configured(o) == funds[o].state /= "none"

Live(o) == funds[o].state = "reserved" /\ funds[o].left > 0

Cash(o) == IF Configured(o) THEN funds[o].cash ELSE Price[o]

(* The gate in front of every step that collects money for the order. *)
ReservationHeld(o) ==
    o \in Discounted =>
        /\ orders[o].status \in Open
        /\ intents[o].desired = "reserve" /\ intents[o].observed = "reserved"
        /\ intents[o].token
        /\ intents[o].window > 0 \/ Live(o)

(* Mutant: the wish to keep the discount of a paid order is overwritten. *)
ReleaseIntentAnyway(o) ==
    IF o \in Discounted /\ intents[o].desired \in {"reserve", "commit"}
    THEN [intents EXCEPT ![o].desired = "release", ![o].wait = 0]
    ELSE intents

(* releaseOrderFunding: the discount is asked back from an order that is   *)
(* not paid, and the reserved balance returns.                             *)
ReleaseIntent(o) ==
    IF o \in Discounted /\ orders[o].status /= "paid" /\ intents[o].desired = "reserve"
    THEN [intents EXCEPT ![o].desired = "release", ![o].wait = 0]
    ELSE intents

(* Mutant: a funding that ran out returns no balance. *)
ReleaseLiveEntries(o) ==
    IF Live(o) /\ funds[o].wallet > 0
    THEN {Entry(<<"release", o>>, 0, -funds[o].wallet)}
    ELSE {}

ReleaseEntries(o) ==
    IF funds[o].state = "reserved" /\ funds[o].wallet > 0
    THEN {Entry(<<"release", o>>, 0, -funds[o].wallet)}
    ELSE {}

ReleaseFund(o) ==
    [funds EXCEPT ![o].state = IF @ = "reserved" THEN "released" ELSE @, ![o].left = 0]

releaseOrderFunding(o) ==
    /\ intents' = ReleaseIntent(o)
    /\ funds' = ReleaseFund(o)

CaptureEntries(o) ==
    IF Configured(o) /\ funds[o].wallet > 0
    THEN {Entry(<<"capture", o>>, -funds[o].wallet, -funds[o].wallet)}
    ELSE {}

(* Mutant: only a funding with balance in it is closed by the payment. *)
CaptureBalance(o) ==
    IF funds[o].wallet > 0 THEN [funds EXCEPT ![o].state = "captured", ![o].left = 0] ELSE funds

CaptureFund(o) ==
    IF Configured(o) THEN [funds EXCEPT ![o].state = "captured", ![o].left = 0] ELSE funds

CommitIntent(o) ==
    IF o \in Discounted /\ intents[o].desired = "reserve"
    THEN [intents EXCEPT ![o].desired = "commit", ![o].wait = 0]
    ELSE intents

(* The writes of a settlement that goes through: the entitlement or the    *)
(* top-up, the captured balance, the committed discount.                   *)
setPaid(o, channel, trade) ==
    /\ orders' = [orders EXCEPT ![o] = [status |-> "paid", channel |-> channel,
                                        trade |-> trade, paid |-> Price[o]]]
    /\ funds' = CaptureFund(o)
    /\ intents' = CommitIntent(o)
    /\ appendWalletEntries(CaptureEntries(o)
              \cup IF o \in TopUps THEN {Entry(<<"topup", o>>, Price[o], 0)} ELSE {})
    /\ grants' = [grants EXCEPT ![o] = @ + 1]

OrderTransitionAllowed(from, to, force) ==
    \/ from = to
    \/ to = "paid" /\ from \in Open
    \/ to = "paid" /\ force /\ from = "canceled"
    \/ to \in {"failed", "canceled"} /\ from = "pending"
    \/ to = "canceled" /\ force /\ from = "failed"

-----------------------------------------------------------------------------
(* Actions of customers, administrators and the clock. *)

(* The discount's row; it can be paid for as long as a funding lives. *)
NewIntent == [NoIntent EXCEPT !.desired = "reserve", !.observed = "unknown", !.window = Lifetime]

Create(o, channel) ==
    /\ orders[o].status = "absent"
    /\ o \in TopUps => channel = "manual"
    /\ orders' = [orders EXCEPT ![o].status = "pending", ![o].channel = channel]
    /\ intents' = IF o \in Discounted
                  THEN [intents EXCEPT ![o] = NewIntent] ELSE intents
    /\ UNCHANGED <<funds, ledger, receipts, attempts, notified, adjustments, grants>>

(* The split of an order between balance and cash is fixed once.  Balance  *)
(* is reserved only while no provider has been asked or heard.             *)
Reservable(o) ==
    /\ \A a \in attempts : a.order /= o
    /\ o \notin notified
    /\ orders[o].trade = None

Configure(o, balance) ==
    LET wallet == IF balance THEN Min({Available, Price[o]}) ELSE 0 IN
    /\ orders[o].status \in Open
    /\ ReservationHeld(o)
    /\ o \notin TopUps
    /\ ~Configured(o)
    /\ wallet > 0 => Reservable(o)
    /\ appendWalletEntries(IF wallet > 0 THEN {Entry(<<"reserve", o>>, 0, wallet)} ELSE {})
    /\ funds' = [funds EXCEPT ![o] = [state |-> "reserved", balance |-> balance, wallet |-> wallet,
                                      cash |-> Price[o] - wallet, left |-> Lifetime]]
    /\ UNCHANGED <<orders, intents, receipts, attempts, notified, adjustments, grants>>

(* An order that balance covers is paid at once.  FulfillWithPrevious may  *)
(* refuse; the transaction is then rolled back.                            *)
Pay(o) ==
    /\ Live(o) /\ funds[o].cash = 0
    /\ orders[o].status \in Open
    /\ ReservationHeld(o)
    /\ setPaid(o, "wallet", orders[o].trade)
    /\ UNCHANGED <<receipts, attempts, notified, adjustments>>

Expire(o) ==
    /\ funds[o].state = "reserved" /\ funds[o].left = 0
    /\ orders[o].status \in Open \cup {"canceled"}
    /\ releaseOrderFunding(o)
    /\ appendWalletEntries(ReleaseEntries(o))
    /\ orders' = [orders EXCEPT ![o].status = "canceled"]
    /\ UNCHANGED <<receipts, attempts, notified, adjustments, grants>>

(* Cancel by the customer or an administrator, and the administrator's     *)
(* verdict that an order failed: both release what the order holds.        *)
Close(o, status, force) ==
    /\ orders[o].status /= "absent"
    /\ orders[o].status /= status
    /\ OrderTransitionAllowed(orders[o].status, status, force)
    /\ releaseOrderFunding(o)
    /\ appendWalletEntries(ReleaseEntries(o))
    /\ orders' = [orders EXCEPT ![o].status = status]
    /\ UNCHANGED <<receipts, attempts, notified, adjustments, grants>>

(* An administrator declares an order paid.  Reserved balance may not be   *)
(* captured this way, and a lapsed funding is refused.                     *)
Settle(o, force) ==
    /\ o \notin TopUps
    /\ orders[o].status \notin {"absent", "paid"}
    /\ OrderTransitionAllowed(orders[o].status, "paid", force)
    /\ ReservationHeld(o)
    /\ Configured(o) => Live(o) /\ funds[o].wallet = 0
    /\ setPaid(o, orders[o].channel, orders[o].trade)
    /\ UNCHANGED <<receipts, attempts, notified, adjustments>>

(* Mutant: a checkout of nothing, for an order that balance covers. *)
OpenAnyCheckout(o, p) ==
    /\ orders[o].status \in Open
    /\ \A a \in attempts : a.order /= o \/ a.provider /= p
    /\ ReservationHeld(o)
    /\ Configured(o) => Live(o)
    /\ attempts' = attempts \cup {[order |-> o, provider |-> p, amount |-> Cash(o)]}
    /\ UNCHANGED <<orders, funds, intents, ledger, receipts, notified, adjustments, grants>>

(* A provider is admitted to collect the order's cash.  A paid order bound *)
(* to the provider keeps its authority to report.                          *)
OpenCheckout(o, p) ==
    /\ orders[o].status /= "absent"
    /\ \A a \in attempts : a.order /= o \/ a.provider /= p
    /\ orders[o].status \in Open => ReservationHeld(o)
    /\ Cash(o) > 0
    /\ \/ orders[o].status \in Open /\ (Configured(o) => Live(o))
       \/ orders[o].status = "paid" /\ orders[o].channel = p /\ orders[o].trade /= None
    /\ attempts' = attempts \cup {[order |-> o, provider |-> p, amount |-> Cash(o)]}
    /\ UNCHANGED <<orders, funds, intents, ledger, receipts, notified, adjustments, grants>>

-----------------------------------------------------------------------------
(* Facts that providers report.  A repeated event is answered from the     *)
(* stored one; every step below is an event that was not seen before.      *)

(* An integration may report the whole price of an order that was split    *)
(* after it had collected.                                                 *)
UnplannedWhole(o, t, amount) ==
    /\ Configured(o) /\ Issuer[t] \notin Plugins
    /\ amount = Price[o] /\ amount /= funds[o].cash

Admitted(o, t, amount) ==
    Issuer[t] \in Plugins => [order |-> o, provider |-> Issuer[t], amount |-> amount] \in attempts

(* A failed payment closes nothing for good: the order can still be paid,  *)
(* but what it held is returned.                                           *)
RecordFailed(o, t) ==
    /\ orders[o].status /= "absent"
    /\ Cash(o) > 0 /\ Admitted(o, t, Cash(o))
    /\ orders[o].channel \in {"manual", Issuer[t]}
    /\ orders[o].trade \in {None, t}
    /\ OrderTransitionAllowed(orders[o].status, "failed", FALSE)
    /\ releaseOrderFunding(o)
    /\ appendWalletEntries(ReleaseEntries(o))
    /\ orders' = [orders EXCEPT ![o].status = "failed", ![o].channel = Issuer[t], ![o].trade = t]
    /\ notified' = notified \cup {o}
    /\ UNCHANGED <<receipts, attempts, adjustments, grants>>

PaidFact(o, t, amount) ==
    /\ orders[o].status /= "absent"
    /\ amount > 0
    /\ amount = Cash(o) \/ UnplannedWhole(o, t, amount)
    /\ Admitted(o, t, amount)
    /\ notified' = notified \cup {o}

(* The receipt of a trade is created once; later events about the trade    *)
(* find it and change nothing, or conflict with it.                        *)
NewReceipt(t) == receipts[t].disposition = "none"

Dispose(o, t, amount, disposition) ==
    receipts' = [receipts EXCEPT ![t] = [disposition |-> disposition, order |-> o, amount |-> amount]]

(* The order was settled by this very trade. *)
Bound(o, t) ==
    orders[o].status = "paid" /\ orders[o].channel = Issuer[t] /\ orders[o].trade = t

(* A payment without a receipt: only an operator can tell what this is.    *)
PaidByHand(o) ==
    /\ orders[o].paid > 0 /\ orders[o].trade = None
    /\ orders[o].channel /= "wallet" /\ o \notin TopUps

Fulfillable(o) ==
    orders[o].status \in Open \/ (o \in TopUps /\ orders[o].status = "canceled")

(* Mutant: the whole price is taken although the funding holds balance. *)
FundingLapsed(o, whole) == Configured(o) /\ ~Live(o)

FundingLost(o, whole) == Configured(o) /\ (whole \/ ~Live(o))

RepeatReceipt(o, t, amount) ==
    /\ PaidFact(o, t, amount)
    /\ ~NewReceipt(t)
    /\ receipts[t].order = o /\ receipts[t].amount = amount
    /\ UNCHANGED <<orders, funds, intents, ledger, receipts, attempts, adjustments, grants>>

BoundReceipt(o, t, amount) ==
    /\ PaidFact(o, t, amount)
    /\ NewReceipt(t) /\ Bound(o, t)
    /\ Dispose(o, t, amount, "legacy_applied")
    /\ UNCHANGED <<orders, funds, intents, ledger, attempts, adjustments, grants>>

ReviewReceipt(o, t, amount) ==
    /\ PaidFact(o, t, amount)
    /\ NewReceipt(t) /\ ~Bound(o, t) /\ PaidByHand(o)
    /\ Dispose(o, t, amount, "review_required")
    /\ UNCHANGED <<orders, funds, intents, ledger, attempts, adjustments, grants>>

FulfillReceipt(o, t, amount) ==
    /\ PaidFact(o, t, amount)
    /\ NewReceipt(t) /\ ~Bound(o, t) /\ ~PaidByHand(o)
    /\ Fulfillable(o) /\ ~FundingLost(o, UnplannedWhole(o, t, amount))
    /\ ReservationHeld(o)
    /\ setPaid(o, Issuer[t], t)
    /\ Dispose(o, t, amount, IF o \in TopUps THEN "wallet_topup" ELSE "fulfilled")
    /\ UNCHANGED <<attempts, adjustments>>

(* Money that cannot buy the order any more, or whose order fails its      *)
(* validation (the entitlement writes are rolled back to the savepoint),   *)
(* goes to the wallet.                                                     *)
CreditReceipt(o, t, amount) ==
    /\ PaidFact(o, t, amount)
    /\ NewReceipt(t) /\ ~Bound(o, t) /\ ~PaidByHand(o)
    /\ o \in TopUps => ~Fulfillable(o)
    /\ releaseOrderFunding(o)
    /\ orders' = [orders EXCEPT ![o].status = IF @ \in Open THEN "canceled" ELSE @]
    /\ appendWalletEntries(ReleaseEntries(o) \cup {Entry(<<"receipt", t>>, amount, 0)})
    /\ Dispose(o, t, amount, "wallet_credit")
    /\ UNCHANGED <<attempts, adjustments, grants>>

(* Mutant: an operator may change a verdict that is final. *)
ResolveAgain(t, disposition) ==
    /\ receipts[t].disposition \in {"review_required", "legacy_applied"}
    /\ receipts' = [receipts EXCEPT ![t].disposition = disposition]
    /\ appendWalletEntries(IF disposition = "wallet_credit"
                           THEN {Entry(<<"receipt", t>>, receipts[t].amount, 0)} ELSE {})
    /\ UNCHANGED <<orders, funds, intents, attempts, notified, adjustments, grants>>

(* An operator settles a receipt under review. *)
Resolve(t, disposition) ==
    /\ receipts[t].disposition = "review_required"
    /\ receipts' = [receipts EXCEPT ![t].disposition = disposition]
    /\ appendWalletEntries(IF disposition = "wallet_credit"
                           THEN {Entry(<<"receipt", t>>, receipts[t].amount, 0)} ELSE {})
    /\ UNCHANGED <<orders, funds, intents, attempts, notified, adjustments, grants>>

-----------------------------------------------------------------------------
(* Adjustments of the wallet by an administrator. *)

Credit(k) ==
    /\ ~Booked(<<"credit", k>>)
    /\ appendWalletEntries({Entry(<<"credit", k>>, Amount[k], 0)})
    /\ UNCHANGED <<orders, funds, intents, receipts, attempts, notified, adjustments, grants>>

Debit(d) ==
    /\ adjustments[d].status = "none"
    /\ Available >= Amount[d]
    /\ appendWalletEntries({Entry(<<"debit", d>>, -Amount[d], 0)})
    /\ adjustments' = [adjustments EXCEPT ![d].status = "pending"]
    /\ UNCHANGED <<orders, funds, intents, receipts, attempts, notified, grants>>

(* Whether the money left is reported later; a final report stands. *)
RecordPayout(d, outcome) ==
    /\ adjustments[d].status \in {"pending", "unknown", outcome}
    /\ adjustments' = [adjustments EXCEPT ![d].status = outcome]
    /\ UNCHANGED <<orders, funds, intents, ledger, receipts, attempts, notified, grants>>

Reverse(d) ==
    /\ adjustments[d].status = "failed" /\ ~adjustments[d].reversed
    /\ appendWalletEntries({Entry(<<"reversal", d>>, Amount[d], 0)})
    /\ adjustments' = [adjustments EXCEPT ![d].reversed = TRUE]
    /\ UNCHANGED <<orders, funds, intents, receipts, attempts, notified, grants>>

-----------------------------------------------------------------------------
Sooner(n) == IF n > 0 THEN n - 1 ELSE 0

Running ==
    \/ \E o \in Orders : funds[o].left > 0
    \/ \E o \in Discounted :
          intents[o].window > 0 \/ intents[o].wait > 0 \/ intents[o].until > 0

Tick ==
    /\ Running
    /\ funds' = [o \in Orders |-> [funds[o] EXCEPT !.left = Sooner(@)]]
    /\ intents' = [o \in Discounted |-> [intents[o] EXCEPT !.window = Sooner(@), !.wait = Sooner(@),
                                                           !.until = Sooner(@)]]
    /\ UNCHANGED <<orders, ledger, receipts, attempts, notified, adjustments, grants>>

PaidFactStep(o, t) ==
    \E amount \in {Price[o], funds[o].cash} :
        \/ RepeatReceipt(o, t, amount)
        \/ BoundReceipt(o, t, amount)
        \/ ReviewReceipt(o, t, amount)
        \/ FulfillReceipt(o, t, amount)
        \/ CreditReceipt(o, t, amount)

OrderStep(o) ==
    \/ \E channel \in Channels : Create(o, channel)
    \/ \E balance \in BOOLEAN : Configure(o, balance)
    \/ Pay(o)
    \/ Expire(o)
    \/ \E status \in {"failed", "canceled"}, force \in BOOLEAN : Close(o, status, force)
    \/ \E force \in BOOLEAN : Settle(o, force)
    \/ \E p \in Providers : OpenCheckout(o, p)
    \/ \E t \in Trades : RecordFailed(o, t) \/ PaidFactStep(o, t)

AdjustmentStep ==
    \/ \E t \in Trades, disposition \in {"wallet_credit", "legacy_applied"} : Resolve(t, disposition)
    \/ \E k \in Credits : Credit(k)
    \/ \E d \in Debits : Debit(d) \/ Reverse(d)
    \/ \E d \in Debits, outcome \in {"unknown", "succeeded", "failed"} : RecordPayout(d, outcome)

PaymentNext == Tick \/ AdjustmentStep \/ \E o \in Orders : OrderStep(o)

Spec == Init /\ [][PaymentNext]_vars

-----------------------------------------------------------------------------
OrderRows == [status : Statuses, channel : Channels \cup Providers \cup {None, "wallet"},
              trade : Trades \cup {None}, paid : Nat]
FundRows == [state : {"none", "reserved", "released", "captured"}, balance : BOOLEAN,
             wallet : Nat, cash : Nat, left : 0..Lifetime]
IntentRows(holders) ==
    [desired : {"none", "reserve", "commit", "release"},
     observed : {"none", "unknown", "absent", "reserved", "committed", "released",
                 "rejected", "conflict"},
     token : BOOLEAN, window : Nat, wait : Nat, lease : holders, until : Nat]
EntryKeys ==
    ({"reserve", "release", "capture", "topup"} \X Orders) \cup ({"receipt"} \X Trades)
        \cup ({"credit"} \X Credits) \cup ({"debit", "reversal"} \X Debits)
EntryRows == [key : EntryKeys, balance : Int, reserved : Int]
AccountRows == {a \in [balance : Nat, reserved : Nat] : a.reserved <= a.balance}
AdjustmentRows == [status : {"none", "pending", "unknown", "succeeded", "failed"}, reversed : BOOLEAN]
AttemptRows == [order : Orders, provider : Providers, amount : Nat \ {0}]
ReceiptRows == [disposition : {"none", "legacy_applied", "review_required", "fulfilled",
                               "wallet_topup", "wallet_credit"},
                order : Orders \cup {None}, amount : Nat]

Typed(holders) ==
    /\ orders \in [Orders -> OrderRows]
    /\ funds \in [Orders -> FundRows]
    /\ intents \in [Discounted -> IntentRows(holders)]
    /\ account \in AccountRows
    /\ entries \subseteq EntryRows
    /\ receipts \in [Trades -> ReceiptRows]
    /\ attempts \subseteq AttemptRows
    /\ notified \subseteq Orders
    /\ adjustments \in [Debits -> AdjustmentRows]
    /\ grants \in [Orders -> Nat]

(* The rows keep the types of their columns; the account is not negative   *)
(* and reserves no more than it has.                                       *)
TypeOK == Typed({None})

(* What the business rows say of the wallet, row by row. *)
Given == [k \in Credits |-> IF Booked(<<"credit", k>>) THEN Amount[k] ELSE 0]
ToppedUp == [o \in Orders |-> IF o \in TopUps /\ orders[o].status = "paid" THEN Price[o] ELSE 0]
Converted ==
    [t \in Trades |-> IF receipts[t].disposition = "wallet_credit" THEN receipts[t].amount ELSE 0]
Captured == [o \in Orders |-> IF funds[o].state = "captured" THEN funds[o].wallet ELSE 0]
Withdrawn ==
    [d \in Debits |-> IF adjustments[d].status /= "none" /\ ~adjustments[d].reversed
                     THEN Amount[d] ELSE 0]
SetAside == [o \in Orders |-> IF funds[o].state = "reserved" THEN funds[o].wallet ELSE 0]

(* Payments that bought order o. *)
Bought(o) ==
    [t \in Trades |-> IF /\ receipts[t].order = o
                        /\ receipts[t].disposition \in {"fulfilled", "wallet_topup"}
                     THEN receipts[t].amount ELSE 0]

(* Every minor unit of the wallet is explained by the business rows: what  *)
(* was credited, topped up, converted from a payment or given back, less   *)
(* what orders captured and debits took; and what is reserved is exactly   *)
(* what open fundings hold (wallet_credit.go:41-81 with all its callers).  *)
WalletExplained ==
    /\ account.reserved = Total(SetAside)
    /\ account.balance = Total(Given) + Total(ToppedUp) + Total(Converted)
                              - Total(Captured) - Total(Withdrawn)

(* A paid order was fulfilled once and cost its price: the payment that    *)
(* bought it and the balance it captured add up to the price, unless an    *)
(* administrator settled it by hand, which takes neither.  An order that   *)
(* is not paid gave nothing and took nothing (payment_facts.go:169-265,    *)
(* order_fulfillment.go:17-181).                                           *)
PaidInFull ==
    \A o \in Orders :
        LET taken == Total(Bought(o)) + Captured[o] IN
        IF orders[o].status = "paid"
        THEN grants[o] = 1 /\ (taken = Price[o] \/ (taken = 0 /\ o \notin TopUps))
        ELSE grants[o] = 0 /\ taken = 0

(* Reserved balance belongs to an order that can still be paid: whichever  *)
(* of payment, failure, expiry, cancellation and settlement comes first    *)
(* also ends the funding (wallet_payments.go:213-252, :316-355).           *)
HeldWhileOpen == \A o \in Orders : funds[o].state = "reserved" => orders[o].status \in Open

(* The refinement: dispositions are uses, fulfilments are deliveries. *)
UseOf(disposition) ==
    CASE disposition = "none" -> "none"
      [] disposition \in {"fulfilled", "wallet_topup"} -> "order"
      [] disposition = "wallet_credit" -> "wallet"
      [] disposition = "review_required" -> "review"
      [] disposition = "legacy_applied" -> "absorbed"

Settlement == INSTANCE PaymentSettlement WITH
    use <- [t \in Trades |-> UseOf(receipts[t].disposition)],
    credited <- {t \in Trades : Booked(<<"receipt", t>>)},
    delivered <- {o \in Orders : grants[o] > 0}

(* Whatever the order of reports, expiries, cancellations and settlements, *)
(* a payment has one use and an order is delivered once                    *)
(* (payment_facts.go:147-265, payment_receipts.go:62-117).                 *)
ImplementsSettlement == Settlement!Spec
=============================================================================
