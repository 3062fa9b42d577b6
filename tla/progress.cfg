\* The same deployment with a database that answers, if not always in time: every
\* request and every pod gets through.
SPECIFICATION SysFairSpec
CONSTANTS
    e1 = e1
    p1 = p1
    p2 = p2
    p3 = p3
    r1 = r1
    r2 = r2
    q1 = q1
    q2 = q2
    Emails = {e1}
    Passwords = {p1}
    Tokens = {t1, t2}
    Attempts = {a1}
    Reqs = {r1, r2}
    Pods = {q1, q2}
    Host <- OneEach
    NoRow = NoRow
    NoToken = NoToken
    RefreshTTL = 0
    Window = 0
    MaxAttempts = 2
    Unhashable = {}
    InitialUsers <- Fresh
    Ops = {"Register", "Login", "Refresh"}
    Faults = {"lostAck"}
    AdminEmail = e1
    AdminPassword = p1
INVARIANTS InternalTells FailedBootsLeaveAccount
PROPERTIES RequestsEnd PodsComeUp
