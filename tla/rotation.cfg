\* Two concurrent requests log in to two accounts, and rotate and revoke their tokens.
SPECIFICATION Spec
CONSTANTS
    e1 = e1
    e2 = e2
    p1 = p1
    p2 = p2
    Emails = {e1, e2}
    Passwords = {p1}
    Tokens = {t1, t2, t3, t4}
    Attempts = {a1}
    Reqs = {r1, r2}
    NoRow = NoRow
    NoToken = NoToken
    RefreshTTL = 0
    Window = 0
    MaxAttempts = 1
    Unhashable = {}
    InitialUsers <- TwoAccounts
    Ops = {"Login", "Refresh", "Logout"}
    Faults = {"error", "lostAck", "crash"}
    AdminEmail = NoRow
    AdminPassword = p1
VIEW RotationView
SYMMETRY RotationSymmetry
INVARIANTS TypeOK RequestsSound LineageSound RotationBound DeliveredTokensBacked
PROPERTIES ImplementsSessions SpentStaysSpent
