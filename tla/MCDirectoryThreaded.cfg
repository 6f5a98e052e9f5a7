\* Two handlers at a time, with crashes, and more addresses than words.
CONSTANTS
    r1 = r1
    r2 = r2
    r3 = r3
    r4 = r4
    ann = ann
    bob = bob
    cay = cay
    kake = kake
    bil = bil
    hus = hus
    Nil = Nil
    Requests = {r1, r2, r3}
    Addresses = {ann, bob, cay}
    Words <- TwoWords
    Spoken = {kake, bil, hus}
    Tokens = {"secret", "other"}
    ApiSecret = "secret"
    Capacity = 2
    Faults = TRUE
SPECIFICATION Spec
INVARIANTS
    WordResolves
PROPERTIES
    KeepsTheBook
