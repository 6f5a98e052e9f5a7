\* The words seeded twice, and more addresses than words.
CONSTANTS
    r1 = r1
    r2 = r2
    r3 = r3
    r4 = r4
    ann = ann
    bob = bob
    cay = cay
    kake = kake
    bil = bil
    hus = hus
    Nil = Nil
    Requests = {r1, r2, r3}
    Addresses = {ann, bob, cay}
    Words <- SeededTwice
    Spoken = {kake, bil}
    Tokens = {"secret"}
    ApiSecret = "secret"
    Capacity = 1
    Faults = FALSE
SPECIFICATION Spec
INVARIANTS
    WordResolves
