\* Two requests on their way at once, from one browser or two, and accounts
\* deleted and created.
CONSTANTS
    b1 = b1
    b2 = b2
    r1 = r1
    r2 = r2
    e1 = e1
    e2 = e2
    long1 = long1
    short = short
    Browsers = {b1, b2}
    Requests = {r1, r2}
    Emails = {e1, e2}
    Passwords = {long1, short}
    LongPasswords = {long1}
    MaxAccounts = 3
    Capacity = 2
    Nil = Nil
SPECIFICATION Spec
SYMMETRY Interchangeable
INVARIANTS
    TypeOK
    SessionIsOwn
    PasswordsAreLong
PROPERTIES
    GoneForGood
