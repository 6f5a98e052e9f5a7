\* A phone issues a coupon of its own and sends it to the merchant.
CONSTANTS
    r1 = r1
    r2 = r2
    r3 = r3
    r4 = r4
    mine = mine
    till = till
    phone = phone
    p = p
    Requests = {r1, r2}
    Addresses = {mine, till, phone}
    Payloads = {p}
    Amounts = {1}
    ApiSecret = "secret"
    Tokens = {"secret"}
    Forms = {"string"}
    Capacity = 1
    Faults = FALSE
    Nil = Nil
    create_address = mine
    return_address = till
SPECIFICATION ListingSpec
SYMMETRY Interchangeable
CONSTRAINT ReturnKeyIssuesNothing
INVARIANTS
    ReturnedIsComplete
