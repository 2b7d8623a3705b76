SPECIFICATION ChannelsSpec
CONSTANTS
    p1 = p1
    p2 = p2
    r1 = r1
    c1 = c1
    c2 = c2
    Users = {u1}
    NoUser = NoUser
    NoCharge = NoCharge
    NoPayment = NoPayment
    Duration = 2
    TrialDays = 0
    BonusDays = 1
    PaymentUser <- PaymentsByUser
    PaymentPlan <- ProPayments
    Mispriced = {}
    Referred = {}
    RefundOf <- RefundsOfFirst
    Covers <- FullRefunds
    Workers = {w1}
    ProcessOf <- OneProcess
    MaxFailures = 0
    ChargeUser <- ChargesByUser
    ChargePlan <- EnterpriseCharges
    ReferralLinks <- NoLinks
    AdminTiers = {}
    Handlers = {h1}
    MaxAttempts = 1
    LastDay = 1
    Payments = {p1}
    Refunds = {r1}
    Charges = {c1}
    OneAtATime = TRUE
    MaxNow = 1
INVARIANTS
    StarsDaysSurvive
