\* Two handlers at a time, as in a threaded server, over one history.
CONSTANTS
    r1 = r1
    r2 = r2
    r3 = r3
    r4 = r4
    a = a
    b = b
    c = c
    p = p
    Requests = {r1, r2, r3}
    Addresses = {a, b}
    Payloads = {p}
    Amounts = {1}
    ApiSecret = "secret"
    Tokens = {"secret"}
    Forms = {"string"}
    Capacity = 2
    Faults = FALSE
    Nil = Nil
SPECIFICATION Spec
SYMMETRY Interchangeable
INVARIANTS
    NoDoubleSpend
