------------------------- MODULE PaymentSettlement -------------------------
(***************************************************************************)
(* What the payment side of commerce promises, without orders' states,     *)
(* funding or wallets: a verified payment is put to exactly one use, once, *)
(* and an order is delivered at most once.  OrderPayments implements it.   *)
(***************************************************************************)
CONSTANTS Orders, Trades

VARIABLES
    use,        \* what each payment was put to
    credited,   \* payments that were added to the wallet
    delivered   \* orders that were fulfilled

vars == <<use, credited, delivered>>

Uses == {"none", "order", "wallet", "review", "absorbed"}

Init ==
    /\ use = [t \in Trades |-> "none"]
    /\ credited = {}
    /\ delivered = {}

PutTo(t, from, to) == use[t] \in from /\ use' = [use EXCEPT ![t] = to]

(* The payment buys its order. *)
Buy(t, o) ==
    /\ o \notin delivered
    /\ PutTo(t, {"none"}, "order")
    /\ delivered' = delivered \cup {o}
    /\ UNCHANGED credited

(* The payment becomes balance, at once or after a review. *)
Keep(t) ==
    /\ PutTo(t, {"none", "review"}, "wallet")
    /\ credited' = credited \cup {t}
    /\ UNCHANGED delivered

(* The payment waits for an operator. *)
Hold(t) == PutTo(t, {"none"}, "review") /\ UNCHANGED <<credited, delivered>>

(* The payment is the one a delivered order was already settled with. *)
Absorb(t, o) ==
    /\ o \in delivered
    /\ PutTo(t, {"none", "review"}, "absorbed")
    /\ UNCHANGED <<credited, delivered>>

(* An order is delivered without a new payment: by balance or by hand. *)
Grant(o) ==
    /\ o \notin delivered
    /\ delivered' = delivered \cup {o}
    /\ UNCHANGED <<use, credited>>

Next ==
    \/ \E t \in Trades : Keep(t) \/ Hold(t)
    \/ \E t \in Trades, o \in Orders : Buy(t, o) \/ Absorb(t, o)
    \/ \E o \in Orders : Grant(o)

Spec == Init /\ [][Next]_vars
=============================================================================
