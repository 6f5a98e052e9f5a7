\* One handler at a time, as behind Rack::Lock, with crashes.
CONSTANTS
    r1 = r1
    r2 = r2
    r3 = r3
    r4 = r4
    a = a
    b = b
    c = c
    p = p
    Requests = {r1, r2, r3, r4}
    Addresses = {a, b, c}
    Payloads = {p}
    Amounts = {1}
    ApiSecret = "secret"
    Tokens = {"secret", "other"}
    Forms = {"string"}
    Capacity = 1
    Faults = TRUE
    Nil = Nil
SPECIFICATION Spec
SYMMETRY Interchangeable
INVARIANTS
    TypeOK
    NoDoubleSpend
    VerdictStillHolds
    SpentOnlyByHolder
    AckIsDurable
    SupplyBounded
    RefusedForAReason
PROPERTIES
    MarksForGood
