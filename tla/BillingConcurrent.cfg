SPECIFICATION Spec
CONSTANTS
    p1 = p1
    p2 = p2
    p3 = p3
    r1 = r1
    r2 = r2
    Users = {u1}
    Charges = {}
    NoUser = NoUser
    NoCharge = NoCharge
    Duration = 2
    TrialDays = 1
    BonusDays = 1
    Payments = {p1, p2}
    Refunds = {r1, r2}
    NoPayment = NoPayment
    PaymentUser <- OneUser
    PaymentPlan <- FirstEnterprise
    Mispriced = {}
    Referred = {p1}
    RefundOf <- RefundsOfFirst
    Covers <- FirstFull
    Workers = {w1, w2}
    ProcessOf <- EachItsProcess
    MaxNow = 2
    MaxFailures = 1
SYMMETRY WorkerSymmetry
INVARIANTS
    TypeOK
    ActsOnlyOnConfirmed
    ReferralPaidOnce
    PayoutsLostOnlyToDeaths
PROPERTIES
    RefundSticks
    ImplementsRegistry
