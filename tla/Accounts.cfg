SPECIFICATION Spec
CONSTANTS
    a = a  b = b  p = p  q = q  long = long  h1 = h1  h2 = h2  o1 = o1
    Logins = {a, b}
    Passwords = {p, q, long}
    Long = {long}
    Blank = Blank
    Handlers = {h1, h2}
    OrderIds = {o1}
    NoRow = NoRow
    MaxId = 2
    MaxStarts = 2
    MaxFaults = 1
SYMMETRY Symmetric
INVARIANTS
    AccountsTypeOK
    TokenNamesItsUser
    OnePasswordEnters
    OrdersBelongToLogin
    CodesAreTrue
PROPERTIES
    KnownNeverRefused
