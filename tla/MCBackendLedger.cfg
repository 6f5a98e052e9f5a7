\* One handler at a time, with crashes and null lists, against the abstract ledger.
CONSTANTS
    r1 = r1
    r2 = r2
    r3 = r3
    a = a
    b = b
    p = p
    Requests = {r1, r2, r3}
    Addresses = {a, b}
    Payloads = {p}
    Amounts = {1}
    ApiSecret = "secret"
    Tokens = {"secret"}
    Forms = {"string", "object"}
    Capacity = 1
    Faults = TRUE
    Nil = Nil
SPECIFICATION FairSpec
INVARIANTS
    EveryCouponAccounted
PROPERTIES
    KeepsTheLedger
    MakesProgress
    EveryRequestAnswered
