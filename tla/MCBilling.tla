----------------------------- MODULE MCBilling -----------------------------
(* Instances of Billing for TLC.                                          *)
EXTENDS Billing, TLC

CONSTANTS p1, p2, p3, r1, r2

OneUser == [p \in Payments |-> CHOOSE u \in Users : TRUE]
AllPro == [p \in Payments |-> "pro"]
FirstEnterprise == [p \in Payments |-> IF p = p1 THEN "enterprise" ELSE "pro"]
RefundsOfFirst == [r \in Refunds |-> p1]
FullRefunds == [r \in Refunds |-> PaidTiers]
FirstFull == [r \in Refunds |-> IF r = r1 THEN PaidTiers ELSE {"pro"}]
EachItsProcess == [w \in Workers |-> w]
OneProcess == [w \in Workers |-> "api"]

WorkerSymmetry == Permutations(Workers)

=============================================================================
