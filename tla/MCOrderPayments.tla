--------------------------- MODULE MCOrderPayments ---------------------------
(* A purchase and a top-up of one customer, payments at a native plugin    *)
(* and at an integration, one credit and one debit.                        *)
EXTENDS OrderPayments, TLC

Prices == "buy" :> 2 @@ "top" :> 1
Issuers == "t1" :> "plugin" @@ "t2" :> "integration" @@ "t3" :> "plugin"
Amounts == [k \in Credits \cup Debits |-> 1]
=============================================================================
