\* A create and two sends, one at a time, and any call may fail.
CONSTANTS
    c1 = c1
    c2 = c2
    c3 = c3
    m1 = m1
    u1 = u1
    u2 = u2
    phone = phone
    BuiltIn = BuiltIn
    burger = burger
    kake = kake
    bil = bil
    Nil = Nil
    Clicks = {c1, c2, c3}
    Amounts = {1}
    MaxAmount = 1
    MobileOrders = {}
    Users = {u1}
    SignedIn = {u1}
    Leavers = {}
    Mobiles = {phone}
    Titles = {burger}
    Words = {kake}
    Capacity = 1
    Faults = TRUE
SPECIFICATION Spec
SYMMETRY Interchangeable
INVARIANTS
    NoticeIsTrue
