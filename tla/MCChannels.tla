----------------------------- MODULE MCChannels -----------------------------
(* Instances of PaymentChannels for TLC: one user who buys through both.   *)
EXTENDS PaymentChannels, TLC

CONSTANTS p1, p2, r1, c1, c2

TheUser(S) == [x \in S |-> CHOOSE u \in Users : TRUE]
PaymentsByUser == TheUser(Payments)
ChargesByUser == TheUser(Charges)
ProPayments == [p \in Payments |-> "pro"]
EnterpriseCharges == [c \in Charges |-> "enterprise"]
RefundsOfFirst == [r \in Refunds |-> p1]
FullRefunds == [r \in Refunds |-> PaidTiers]
OneProcess == [w \in Workers |-> "api"]
NoLinks == {}
=============================================================================
