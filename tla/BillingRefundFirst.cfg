SPECIFICATION Spec
CONSTANTS
    p1 = p1
    p2 = p2
    p3 = p3
    r1 = r1
    r2 = r2
    Users = {u1}
    Charges = {}
    NoUser = NoUser
    NoCharge = NoCharge
    Duration = 2
    TrialDays = 1
    BonusDays = 1
    Payments = {p1}
    Refunds = {r1}
    NoPayment = NoPayment
    PaymentUser <- OneUser
    PaymentPlan <- AllPro
    Mispriced = {}
    Referred = {}
    RefundOf <- RefundsOfFirst
    Covers <- FullRefunds
    Workers = {w1}
    ProcessOf <- OneProcess
    MaxNow = 1
    MaxFailures = 1
PROPERTIES
    RefundedNeverActivates
