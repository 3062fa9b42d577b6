---------------------------- MODULE ThreatWindow ----------------------------
(***************************************************************************)
(* What the summaries of ReadPath say of the data they were made from: the  *)
(* window of threat_service.go, of the rows the two repositories list.  The *)
(* rows are free, as they may change between any two statements.            *)
(***************************************************************************)
EXTENDS ReadPath, Sequences

CONSTANTS
    Rows,         \* rows of login_attempts and audit_events, with their time `at'
    MaxAttempts,  \* LLM_MAX_ATTEMPTS
    MaxEvents,    \* LLM_MAX_EVENTS
    Nil           \* no time

ASSUME RowsAssumption == \A row \in Rows : row.at \in Int
ASSUME LimitsAssumption == MaxAttempts \in Nat /\ MaxEvents \in Nat
ASSUME NilAssumption == Nil \notin Int

Newer(first, second) == first.at >= second.at

Listed(list) == {list[i] : i \in DOMAIN list}

\* ORDER BY created_at DESC LIMIT limit: rows of one time come in any order.
Listings(table, limit) ==
    {list \in UNION {[1 .. n -> table] : n \in 0 .. limit} :
        /\ \A i, j \in DOMAIN list : i < j => list[i] # list[j] /\ Newer(list[i], list[j])
        /\ \A row \in table \ Listed(list) :
              Len(list) = limit /\ \A i \in DOMAIN list : Newer(list[i], row)}

\* The rows of one email address, and those of one actor.
ListRecentByEmail(attempts) == Listings(attempts, MaxAttempts)
ListRecentByActor(events) == Listings(events, MaxEvents)

\* The closure of earliest.
Consider(oldest, time) == IF oldest = Nil \/ time < oldest THEN time ELSE oldest

\* Variation: the first of each list is taken for its oldest.
EarliestOfFirst(attempts, events) ==
    LET oldest == IF attempts = <<>> THEN Nil ELSE Consider(Nil, attempts[1].at)
    IN  IF events = <<>> THEN oldest ELSE Consider(oldest, events[1].at)

\* The lists come newest first.
Earliest(attempts, events) ==
    LET oldest == IF attempts = <<>> THEN Nil
                  ELSE Consider(Nil, attempts[Len(attempts)].at)
    IN  IF events = <<>> THEN oldest ELSE Consider(oldest, events[Len(events)].at)

Window(attempts, events) ==
    [login_attempts |-> Len(attempts), audit_events |-> Len(events),
     since |-> Earliest(attempts, events)]

-----------------------------------------------------------------------------
\* Of whatever the tables hold, and however the lists order rows of one time, the
\* window names the oldest row seen and leaves out older ones only at a limit.
WindowTells ==
    \A attempts, events \in SUBSET Rows :
        \A listed \in ListRecentByEmail(attempts), seen \in ListRecentByActor(events) :
            LET window == Window(listed, seen)
                all == Listed(listed) \cup Listed(seen)
            IN  /\ window.since = Nil <=> all = {}
                /\ window.since # Nil =>
                      /\ \E row \in all : row.at = window.since
                      /\ \A row \in all : row.at >= window.since
                      /\ \A row \in attempts : row.at < window.since =>
                            window.login_attempts = MaxAttempts
                      /\ \A row \in events : row.at < window.since =>
                            window.audit_events = MaxEvents

\* A summary tells how far it looked: `since' is the time of the oldest
\* row it saw, missing only if it saw none ("earliest returns the oldest CreatedAt
\* across both slices, or nil if both are empty", threat_service.go:107), and rows
\* from before `since' exist only in a table whose list is at its limit.
SummariesTellTheirWindow == \A s \in Slots : At(s, "generate") => WindowTells
=============================================================================
