\* Two requests at a time through both caches, with everything that may fail.
SPECIFICATION PathSpec
CONSTANTS
    u1 = u1
    u2 = u2
    Users = {u1, u2}
    Slots = {s1, s2}
    Claims <- TwoCallers
    PageTTL = 1
    SummaryTTL = 1
    MaxHandling = 1
    Rows <- SixRows
    MaxAttempts = 2
    MaxEvents = 1
    Nil = Nil
    Nobody = Nobody
    Stranger = Stranger
    NoId = NoId
    None = None
    Trouble = {"redis", "db", "llm", "panic", "stop"}
SYMMETRY SlotSymmetry
INVARIANTS PathTypeOK AnswersBelong AnswersFresh FailuresAreOwn HitsAreCharged SummariesTellTheirWindow
