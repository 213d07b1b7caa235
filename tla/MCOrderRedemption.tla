-------------------------- MODULE MCOrderRedemption --------------------------
(* One discounted order that can be paid by balance or at an integration,  *)
(* and two overlapping workers.                                            *)
EXTENDS OrderRedemption, TLC

Prices == "o" :> 1
Issuers == "t" :> "integration"
Amounts == [k \in Credits \cup Debits |-> 1]
=============================================================================
