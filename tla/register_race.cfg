\* Two registrations of one address, with a database that answers.
SPECIFICATION Spec
CONSTANTS
    e1 = e1
    e2 = e2
    p1 = p1
    p2 = p2
    Emails = {e1}
    Passwords = {p1, p2}
    Tokens = {t1}
    Attempts = {a1}
    Reqs = {r1, r2}
    NoRow = NoRow
    NoToken = NoToken
    RefreshTTL = 1
    Window = 0
    MaxAttempts = 2
    Unhashable = {p2}
    InitialUsers <- NoAccount
    Ops = {"Register"}
    Faults = {}
    AdminEmail = NoRow
    AdminPassword = p1
INVARIANT TakenIsReported
