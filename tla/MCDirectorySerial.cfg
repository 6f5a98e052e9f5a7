\* One handler at a time, with crashes, and more addresses than words.
CONSTANTS
    r1 = r1
    r2 = r2
    r3 = r3
    r4 = r4
    ann = ann
    bob = bob
    cay = cay
    kake = kake
    bil = bil
    hus = hus
    Nil = Nil
    Requests = {r1, r2, r3, r4}
    Addresses = {ann, bob, cay}
    Words <- TwoWords
    Spoken = {kake, bil}
    Tokens = {"secret"}
    ApiSecret = "secret"
    Capacity = 1
    Faults = TRUE
SPECIFICATION FairSpec
INVARIANTS
    TypeOK
    WordResolves
    AddressStands
    OneWordEach
    OnlyBrokenRowsFail
PROPERTIES
    EveryAddressGetsWord
