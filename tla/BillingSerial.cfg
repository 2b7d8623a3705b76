SPECIFICATION Spec
CONSTANTS
    p1 = p1
    p2 = p2
    p3 = p3
    r1 = r1
    r2 = r2
    Users = {u1}
    Charges = {}
    NoUser = NoUser
    NoCharge = NoCharge
    Duration = 2
    TrialDays = 1
    BonusDays = 1
    Payments = {p1, p2, p3}
    Refunds = {r1, r2}
    NoPayment = NoPayment
    PaymentUser <- OneUser
    PaymentPlan <- FirstEnterprise
    Mispriced = {p3}
    Referred = {p1}
    RefundOf <- RefundsOfFirst
    Covers <- FirstFull
    Workers = {w1}
    ProcessOf <- OneProcess
    MaxNow = 3
    MaxFailures = 1
INVARIANTS
    ActiveMirrored
    PartialRefundIgnored
PROPERTIES
    PurchaseExtends
