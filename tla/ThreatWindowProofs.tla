------------------------- MODULE ThreatWindowProofs -------------------------
(***************************************************************************)
(* The window of a threat summary, for every content of the two tables and   *)
(* all limits.                                                               *)
(***************************************************************************)
EXTENDS ThreatWindow, SequenceTheorems, TLAPS

\* The last row of a listing is its oldest, and rows left out are not newer.
LEMMA LastIsOldest ==
    ASSUME NEW table \in SUBSET Rows, NEW limit \in Nat,
           NEW list \in Listings(table, limit)
    PROVE  /\ Len(list) \in 0 .. limit /\ (list = <<>> <=> Len(list) = 0)
           /\ Listed(list) \subseteq Rows
           /\ list = <<>> <=> Listed(list) = {}
           /\ list # <<>> => /\ list[Len(list)] \in Listed(list)
                             /\ \A row \in Listed(list) : row.at >= list[Len(list)].at
           /\ \A row \in table \ Listed(list) :
                 Len(list) = limit /\ (list # <<>> => row.at <= list[Len(list)].at)
<1>1. PICK n \in 0 .. limit : list \in [1 .. n -> table]
    BY DEF Listings
<1>2. list \in Seq(table) /\ Len(list) = n /\ DOMAIN list = 1 .. n
    BY <1>1
<1>3. /\ \A i, j \in 1 .. n : i < j => list[i].at >= list[j].at
      /\ \A row \in table \ Listed(list) :
            Len(list) = limit /\ \A i \in 1 .. n : list[i].at >= row.at
    BY <1>2 DEF Listings, Newer
<1>4. list = <<>> <=> n = 0
    BY <1>2, EmptySeq
<1>5. Listed(list) \subseteq Rows /\ \A i \in 1 .. n : list[i] \in Listed(list)
    BY <1>1, <1>2 DEF Listed
<1>6. list = <<>> <=> Listed(list) = {}
    <2>1. CASE n = 0
        BY <1>2, <1>4, <2>1 DEF Listed
    <2>2. CASE n # 0
        <3>1. 1 \in 1 .. n
            BY <2>2
        <3>. QED BY <1>4, <1>5, <2>2, <3>1
    <2>. QED BY <2>1, <2>2
<1>7. ASSUME list # <<>>, NEW row \in Listed(list) PROVE row.at >= list[n].at
    <2>1. PICK i \in 1 .. n : row = list[i]
        BY <1>2, <1>7 DEF Listed
    <2>2. n \in 1 .. n /\ list[n] \in Rows
        BY <1>1, <2>1
    <2>3. CASE i = n
        BY <2>1, <2>2, <2>3, RowsAssumption
    <2>4. CASE i # n
        <3>1. i < n
            BY <2>1, <2>4
        <3>. QED BY <1>3, <2>1, <2>2, <3>1
    <2>. QED BY <2>3, <2>4
<1>8. list # <<>> => n \in 1 .. n
    BY <1>4
<1>9. ASSUME NEW row \in table \ Listed(list)
      PROVE  Len(list) = limit /\ (list # <<>> => row.at <= list[n].at)
    BY <1>3, <1>5, <1>8, RowsAssumption
<1>. QED BY <1>2, <1>4, <1>5, <1>6, <1>7, <1>8, <1>9

\* earliest finds the oldest of all listed rows, and what it does not account for
\* was cut off by a limit.
LEMMA WindowOfAnyRows == WindowTells
<1>1. SUFFICES ASSUME NEW attempts \in SUBSET Rows, NEW events \in SUBSET Rows,
                      NEW listed \in ListRecentByEmail(attempts),
                      NEW seen \in ListRecentByActor(events)
               PROVE  LET since == Earliest(listed, seen)
                          all == Listed(listed) \cup Listed(seen)
                      IN  /\ since = Nil <=> all = {}
                          /\ since # Nil =>
                                /\ \E row \in all : row.at = since
                                /\ \A row \in all : row.at >= since
                                /\ \A row \in attempts : row.at < since => Len(listed) = MaxAttempts
                                /\ \A row \in events : row.at < since => Len(seen) = MaxEvents
    BY DEF WindowTells, Window
<1>. DEFINE a == listed[Len(listed)].at
            e == seen[Len(seen)].at
            since == Earliest(listed, seen)
<1>2. /\ Listed(listed) \subseteq Rows
      /\ listed = <<>> <=> Listed(listed) = {}
      /\ listed # <<>> => /\ listed[Len(listed)] \in Listed(listed)
                          /\ \A row \in Listed(listed) : row.at >= a
      /\ \A row \in attempts \ Listed(listed) :
            Len(listed) = MaxAttempts /\ (listed # <<>> => row.at <= a)
    BY LastIsOldest, LimitsAssumption DEF ListRecentByEmail
<1>3. /\ Listed(seen) \subseteq Rows
      /\ seen = <<>> <=> Listed(seen) = {}
      /\ seen # <<>> => /\ seen[Len(seen)] \in Listed(seen)
                        /\ \A row \in Listed(seen) : row.at >= e
      /\ \A row \in events \ Listed(seen) :
            Len(seen) = MaxEvents /\ (seen # <<>> => row.at <= e)
    BY LastIsOldest, LimitsAssumption DEF ListRecentByActor
<1>4. /\ listed # <<>> => a \in Int
      /\ seen # <<>> => e \in Int
    BY <1>2, <1>3, RowsAssumption
<1>5. since = IF listed = <<>> THEN IF seen = <<>> THEN Nil ELSE e
              ELSE IF seen = <<>> \/ ~(e < a) THEN a ELSE e
    BY <1>4, NilAssumption DEF Earliest, Consider
<1>. HIDE DEF a, e, since
<1>6. since = Nil <=> listed = <<>> /\ seen = <<>>
    BY <1>4, <1>5, NilAssumption
<1>7. ASSUME since # Nil
      PROVE  /\ \E row \in Listed(listed) \cup Listed(seen) : row.at = since
             /\ \A row \in Listed(listed) \cup Listed(seen) : row.at >= since
    <2>1. \/ listed # <<>> /\ since = a
          \/ seen # <<>> /\ since = e
        BY <1>5, <1>7
    <2>2. /\ since \in Int
          /\ listed # <<>> => since <= a
          /\ seen # <<>> => since <= e
        BY <1>4, <1>5, <2>1
    <2>3. \E row \in Listed(listed) \cup Listed(seen) : row.at = since
        BY <1>2, <1>3, <2>1 DEF a, e
    <2>4. \A row \in Listed(listed) \cup Listed(seen) : row.at >= since
        <3>1. ASSUME NEW row \in Listed(listed) PROVE row.at >= since
            <4>1. listed # <<>> /\ row \in Rows
                BY <1>2
            <4>2. row.at \in Int /\ a \in Int /\ row.at >= a /\ since <= a
                BY <1>2, <1>4, <2>2, <4>1, RowsAssumption
            <4>. QED BY <2>2, <4>2
        <3>2. ASSUME NEW row \in Listed(seen) PROVE row.at >= since
            <4>1. seen # <<>> /\ row \in Rows
                BY <1>3
            <4>2. row.at \in Int /\ e \in Int /\ row.at >= e /\ since <= e
                BY <1>3, <1>4, <2>2, <4>1, RowsAssumption
            <4>. QED BY <2>2, <4>2
        <3>. QED BY <3>1, <3>2
    <2>. QED BY <2>3, <2>4
<1>8. ASSUME since # Nil, NEW row \in attempts, row.at < since
      PROVE  Len(listed) = MaxAttempts
    <2>1. row \notin Listed(listed)
        <3>1. \A r \in Listed(listed) : r.at >= since
            BY <1>7, <1>8
        <3>2. row.at \in Int /\ since \in Int
            BY <1>4, <1>5, <1>8, RowsAssumption
        <3>. QED BY <1>8, <3>1, <3>2
    <2>. QED BY <1>2, <2>1
<1>9. ASSUME since # Nil, NEW row \in events, row.at < since
      PROVE  Len(seen) = MaxEvents
    <2>1. row \notin Listed(seen)
        <3>1. \A r \in Listed(seen) : r.at >= since
            BY <1>7, <1>9
        <3>2. row.at \in Int /\ since \in Int
            BY <1>4, <1>5, <1>9, RowsAssumption
        <3>. QED BY <1>9, <3>1, <3>2
    <2>. QED BY <1>3, <2>1
<1>. QED BY <1>2, <1>3, <1>6, <1>7, <1>8, <1>9 DEF since

\* In every state of the read path the window of a summary that is about to be
\* generated tells how far it looked, for any rows and limits.
THEOREM SummariesTell == PathSpec => []SummariesTellTheirWindow
<1>1. SummariesTellTheirWindow
    BY WindowOfAnyRows DEF SummariesTellTheirWindow
<1>. QED BY <1>1, PTL
=============================================================================
