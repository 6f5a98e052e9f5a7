\* Two handlers at a time, as in a threaded server, with every kind of request and
\* payments that leave change, while a merchant with two addresses loads a page.
CONSTANTS
    r1 = r1
    r2 = r2
    r3 = r3
    r4 = r4
    mine = mine
    till = till
    phone = phone
    p = p
    Requests = {r1, r2, r3}
    Addresses = {mine, till, phone}
    Payloads = {p}
    Amounts = {2}
    ApiSecret = "secret"
    Tokens = {"secret"}
    Forms = {"string", "object"}
    Capacity = 2
    Faults = TRUE
    Nil = Nil
    create_address = mine
    return_address = till
SPECIFICATION ListingSpec
SYMMETRY Interchangeable
INVARIANTS
    SpentOnlyByHolder
    RefusedForAReason
    EachCouponListedOnce
