\* Clicks handled one at a time, and any call may fail.
CONSTANTS
    c1 = c1
    c2 = c2
    c3 = c3
    m1 = m1
    u1 = u1
    u2 = u2
    phone = phone
    BuiltIn = BuiltIn
    burger = burger
    kake = kake
    bil = bil
    Nil = Nil
    Clicks = {c1, c2}
    Amounts = {0, 2}
    MaxAmount = 2
    MobileOrders = {}
    Users = {u1, u2}
    SignedIn = {u1}
    Leavers = {u1}
    Mobiles = {phone}
    Titles = {burger}
    Words = {kake}
    Capacity = 1
    Faults = TRUE
SPECIFICATION FairSpec
INVARIANTS
    ReturnWordLeadsBack
    SignedByTheMerchant
    AlertMeansNothingTaken
    OneTurnInDoubt
PROPERTIES
    EveryClickAnswered
