\* Two concurrent requests, logins right and wrong and the registration of the account they name,
\* against a limit of one failure.
SPECIFICATION FairSpec
CONSTANTS
    e1 = e1
    e2 = e2
    p1 = p1
    p2 = p2
    Emails = {e1}
    Passwords = {p1, p2}
    Tokens = {t1, t2}
    Attempts = {a1, a2, a3}
    Reqs = {r1, r2}
    NoRow = NoRow
    NoToken = NoToken
    RefreshTTL = 0
    Window = 1
    MaxAttempts = 1
    Unhashable = {}
    InitialUsers <- NoAccount
    Ops = {"Login", "Register"}
    Faults = {"error", "crash"}
    AdminEmail = NoRow
    AdminPassword = p1
INVARIANTS FailuresBounded
PROPERTIES LockExpires LockedStaysQuiet
