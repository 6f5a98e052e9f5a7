\* Clicks handled two at a time, a phone, and any call may fail.
CONSTANTS
    c1 = c1
    c2 = c2
    c3 = c3
    m1 = m1
    u1 = u1
    u2 = u2
    phone = phone
    BuiltIn = BuiltIn
    burger = burger
    kake = kake
    bil = bil
    Nil = Nil
    Clicks = {c1, c2, c3}
    Amounts = {1}
    MaxAmount = 1
    MobileOrders = {m1}
    Users = {u1}
    SignedIn = {u1}
    Leavers = {}
    Mobiles = {phone}
    Titles = {burger}
    Words = {kake, bil}
    Capacity = 2
    Faults = TRUE
SPECIFICATION Spec
SYMMETRY Interchangeable
INVARIANTS
    TypeOK
    AlertMeansNothingTaken
    SentToTheWord
