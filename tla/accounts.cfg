\* Two pods start, serve and die while the administrator's address is registered.
SPECIFICATION SysSpec
CONSTANTS
    e1 = e1
    p1 = p1
    p2 = p2
    p3 = p3
    r1 = r1
    r2 = r2
    q1 = q1
    q2 = q2
    Emails = {e1}
    Passwords = {p1, p2, p3}
    Tokens = {t1}
    Attempts = {a1}
    Reqs = {r1, r2}
    Pods = {q1, q2}
    Host <- OneEach
    NoRow = NoRow
    NoToken = NoToken
    RefreshTTL = 0
    Window = 0
    MaxAttempts = 2
    Unhashable = {p3}
    InitialUsers <- FreshOrTaken
    Ops = {"Register", "Login"}
    Faults = {"error", "lostAck", "crash"}
    AdminEmail = e1
    AdminPassword = p2
INVARIANTS SysTypeOK AdminReady CreatedAccountHoldsPassword ConfirmedOnce RoleClaimCovered
PROPERTY ImplementsAuthService
