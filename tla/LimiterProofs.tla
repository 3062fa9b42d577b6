---------------------------- MODULE LimiterProofs ----------------------------
(***************************************************************************)
(* For every quota, number of concurrent calls, delay and clock offset: what *)
(* the limiter admits is bounded by Conservation, whatever fails.            *)
(***************************************************************************)
EXTENDS RedisLimiter, TLAPS

\* Capacity is the only product of the model; from here on it is a number.
LEMMA CapacityNat == Capacity \in Nat
BY QuotaAssumption DEF Capacity

\* A key is present only if the hash is there, and then it is a record of Hash.
LEMMA LevelType ==
    ASSUME LimiterTypeOK, NEW now \in Int
    PROVE  LevelAt(now) \in 0 .. Capacity
<1>1. CASE hash = NoKey
    BY <1>1, CapacityNat DEF LevelAt, KeyPresent
<1>2. CASE hash \in Hash
    <2>1. hash.t \in 0 .. Capacity /\ hash.ts \in Int
        BY <1>2 DEF Hash
    <2>. QED BY <2>1, CapacityNat DEF LevelAt, AtMost, AtLeastZero
<1>. QED BY <1>1, <1>2 DEF LimiterTypeOK

\* What the script leaves behind is of the right types.
LEMMA ScriptTypes ==
    ASSUME LimiterTypeOK, NEW now \in Int, RunScript(now)
    PROVE  /\ hash' \in Hash
           /\ taken' \in Nat /\ gift' \in Nat
           /\ first' \in Int \cup {NoKey}
           /\ latest' \in Int
<1>. DEFINE level == LevelAt(now)
            used == IF level >= Cost THEN Cost ELSE 0
<1>1. level \in 0 .. Capacity
    BY LevelType
<1>2. used \in Nat /\ level - used \in 0 .. Capacity
    BY <1>1, CapacityNat, QuotaAssumption
<1>3. Expiry \in Int
    BY CapacityNat, QuotaAssumption DEF Expiry, LimiterTypeOK
<1>4. GiftAt(now) \in Nat
    BY CapacityNat DEF GiftAt, AtLeastZero, LimiterTypeOK
<1>5. /\ hash' = [t |-> level - used, ts |-> now, expires |-> Expiry]
      /\ taken' = taken + used
      /\ first' = IF first = NoKey THEN now ELSE first
      /\ latest' = now
      /\ gift' = gift + GiftAt(now)
    BY DEF RunScript
<1>. HIDE DEF level, used
<1>6. hash' \in Hash
    BY <1>2, <1>3, <1>5 DEF Hash
<1>. QED BY <1>2, <1>4, <1>5, <1>6 DEF LimiterTypeOK

\* A pending call carries the time its pod read.
LEMMA StampInt ==
    ASSUME LimiterTypeOK, NEW c \in Calls, call[c] # NoKey
    PROVE  call[c].stamp \in Int
BY DEF LimiterTypeOK, Call

LEMMA LimiterTypeStep ==
    ASSUME LimiterTypeOK, [LimiterNext]_limiter
    PROVE  LimiterTypeOK'
<1>1. ASSUME NEW c \in Calls, Allow(c) PROVE LimiterTypeOK'
    <2>1. made' \in Nat
        BY <1>1 DEF Allow, LimiterTypeOK
    <2>2. [start |-> clock, stamp |-> clock + Offset[c]] \in Call
        BY OffsetAssumption DEF LimiterTypeOK, Call
    <2>3. call' \in [Calls -> Call \cup {NoKey}]
        BY <1>1, <2>2 DEF Allow, LimiterTypeOK
    <2>4. verdict' \in {"none", "admitted", "denied", "open"}
        BY <1>1 DEF Allow, LimiterTypeOK
    <2>. QED BY <1>1, <2>1, <2>3, <2>4 DEF Allow, LimiterTypeOK, history
<1>2. ASSUME NEW c \in Calls, Script(c) PROVE LimiterTypeOK'
    <2>1. RunScript(call[c].stamp) /\ call[c].stamp \in Int
        BY <1>2, StampInt DEF Script
    <2>2. call' \in [Calls -> Call \cup {NoKey}]
        BY <1>2 DEF Script, Return, LimiterTypeOK
    <2>3. verdict' \in {"none", "admitted", "denied", "open"}
        BY <1>2 DEF Script, Return
    <2>4. UNCHANGED <<clock, made>>
        BY <1>2 DEF Script
    <2>. QED BY <2>1, <2>2, <2>3, <2>4, ScriptTypes DEF LimiterTypeOK
<1>3. ASSUME NEW c \in Calls, ReplyLost(c) PROVE LimiterTypeOK'
    <2>1. RunScript(call[c].stamp) /\ call[c].stamp \in Int
        BY <1>3, StampInt DEF ReplyLost
    <2>2. made' \in Nat /\ UNCHANGED <<clock, call, verdict>>
        BY <1>3 DEF ReplyLost, LimiterTypeOK
    <2>. QED BY <2>1, <2>2, ScriptTypes DEF LimiterTypeOK
<1>4. ASSUME NEW c \in Calls, Unreachable(c) PROVE LimiterTypeOK'
    BY <1>4 DEF Unreachable, Return, LimiterTypeOK, history
<1>5. CASE Evict
    BY <1>5 DEF Evict, LimiterTypeOK, history
<1>6. CASE LimiterTick
    BY <1>6 DEF LimiterTick, LimiterTypeOK, history
<1>7. CASE UNCHANGED limiter
    BY <1>7 DEF limiter, history, LimiterTypeOK
<1>. QED BY <1>1, <1>2, <1>3, <1>4, <1>5, <1>6, <1>7 DEF LimiterNext

LEMMA LimiterTypeInit == LimiterInit => LimiterTypeOK
BY DEF LimiterInit, LimiterTypeOK

\* The limiter's state keeps its types.
THEOREM LimiterTypeCorrect == LimiterSpec => []LimiterTypeOK
BY LimiterTypeInit, LimiterTypeStep, PTL DEF LimiterSpec

-----------------------------------------------------------------------------
\* The heart of the argument: a script keeps the balance, because every unit of
\* refill is either time that passed since the last script, or a gift.
LEMMA ScriptConserves ==
    ASSUME LimiterTypeOK, Conservation, NEW now \in Int, RunScript(now)
    PROVE  Conservation'
<1>. DEFINE level == LevelAt(now)
            used == IF level >= Cost THEN Cost ELSE 0
<1>1. level \in 0 .. Capacity
    BY LevelType
<1>2. used \in Nat /\ level - used \in Nat
    BY <1>1, CapacityNat, QuotaAssumption
<1>3. /\ hash' = [t |-> level - used, ts |-> now, expires |-> Expiry]
      /\ taken' = taken + used
      /\ first' = IF first = NoKey THEN now ELSE first
      /\ latest' = now
      /\ gift' = gift + GiftAt(now)
    BY DEF RunScript
<1>4. first' \in Int /\ first' # NoKey
    BY <1>3, NoKeyAssumption DEF LimiterTypeOK
<1>5. level + taken <= Capacity + (now - first') + gift'
    <2>1. CASE first = NoKey
        <3>1. taken = 0 /\ GiftAt(now) = 0 /\ first' = now
            BY <2>1, <1>3 DEF Conservation, GiftAt
        <3>. QED BY <3>1, <1>1, <1>3, CapacityNat DEF LimiterTypeOK
    <2>2. CASE first # NoKey /\ KeyPresent
        <3>1. hash \in Hash /\ hash.t \in Int /\ hash.ts \in Int
            BY <2>2 DEF KeyPresent, LimiterTypeOK, Hash
        <3>2. hash.ts = latest /\ hash.t + taken <= Capacity + (latest - first) + gift
            BY <2>2 DEF KeyPresent, Conservation
        <3>3. level <= hash.t + AtLeastZero(now - latest)
            BY <2>2, <3>1, <3>2, CapacityNat DEF LevelAt, AtMost, AtLeastZero, LimiterTypeOK
        <3>4. gift' = gift + AtLeastZero(latest - now) /\ first' = first /\ first \in Int
            BY <2>2, <1>3 DEF GiftAt, LimiterTypeOK
        <3>. HIDE DEF level
        <3>. QED BY <3>1, <3>2, <3>3, <3>4, <1>1, CapacityNat
                 DEF AtLeastZero, LimiterTypeOK
    <2>3. CASE first # NoKey /\ ~KeyPresent
        <3>1. level = Capacity
            BY <2>3 DEF LevelAt
        <3>2. taken <= Capacity + (latest - first) + gift
            BY <2>3 DEF Conservation, AdmissionsBounded
        <3>3. gift' = gift + AtLeastZero(latest + Capacity - now) /\ first' = first /\ first \in Int
            BY <2>3, <1>3 DEF GiftAt, LimiterTypeOK
        <3>. HIDE DEF level
        <3>. QED BY <3>1, <3>2, <3>3, CapacityNat DEF AtLeastZero, LimiterTypeOK
    <2>. QED BY <2>1, <2>2, <2>3
<1>6. gift' \in Nat /\ taken' \in Nat
    BY ScriptTypes
<1>. HIDE DEF level, used
<1>7. hash' # NoKey /\ hash'.ts = latest' /\ hash'.t = level - used
    BY <1>3, NoKeyAssumption, ScriptTypes
<1>8. hash'.t + taken' <= Capacity + (latest' - first') + gift'
    BY <1>1, <1>2, <1>3, <1>4, <1>5, <1>6, <1>7, CapacityNat DEF LimiterTypeOK
<1>9. taken' <= Capacity + (latest' - first') + gift'
    BY <1>1, <1>2, <1>3, <1>4, <1>6, <1>7, <1>8, CapacityNat DEF LimiterTypeOK
<1>. QED BY <1>4, <1>7, <1>8, <1>9 DEF Conservation, AdmissionsBounded

LEMMA ConservationStep ==
    ASSUME LimiterTypeOK, Conservation, [LimiterNext]_limiter
    PROVE  Conservation'
<1>1. ASSUME NEW c \in Calls, Script(c) PROVE Conservation'
    BY <1>1, StampInt, ScriptConserves DEF Script
<1>2. ASSUME NEW c \in Calls, ReplyLost(c) PROVE Conservation'
    BY <1>2, StampInt, ScriptConserves DEF ReplyLost
<1>3. CASE Evict
    BY <1>3 DEF Evict, Conservation, AdmissionsBounded, history
<1>4. CASE UNCHANGED <<hash, history>>
    BY <1>4 DEF history, Conservation, AdmissionsBounded
<1>. QED BY <1>1, <1>2, <1>3, <1>4
         DEF LimiterNext, Allow, Unreachable, LimiterTick, limiter

LEMMA ConservationInit == LimiterInit => Conservation
BY DEF LimiterInit, Conservation, AdmissionsBounded

\* Whatever the order of the calls, the clocks, the lost replies and the
\* evictions: no more is admitted than a burst, the refill of the time between
\* the first and the last call, and what the script granted for time that had
\* not passed.
THEOREM AdmissionsStayBounded == LimiterSpec => []Conservation
<1>1. LimiterInit => LimiterTypeOK /\ Conservation
    BY LimiterTypeInit, ConservationInit
<1>2. LimiterTypeOK /\ Conservation /\ [LimiterNext]_limiter
          => LimiterTypeOK' /\ Conservation'
    BY LimiterTypeStep, ConservationStep
<1>. QED BY <1>1, <1>2, PTL DEF LimiterSpec

-----------------------------------------------------------------------------
\* A call under way is no older than its delay and its clock no further off than
\* the spread; a hash lives until its bucket has had the time to fill up.
LagInv ==
    /\ \A c \in Calls : call[c] # NoKey =>
          /\ call[c].start <= clock /\ clock <= call[c].start + MaxDelay
          /\ call[c].start <= call[c].stamp + Spread
          /\ call[c].stamp <= call[c].start + Spread
    /\ hash # NoKey =>
          /\ hash.ts <= clock + Spread
          /\ hash.ts + Capacity + Slack <= hash.expires + Spread

LEMMA StampNear ==
    ASSUME LimiterTypeOK, LagInv, NEW c \in Calls, call[c] # NoKey
    PROVE  /\ call[c].stamp \in Int
           /\ call[c].stamp <= clock + Spread
           /\ clock <= call[c].stamp + (MaxDelay + Spread)
<1>1. call[c].stamp \in Int /\ call[c].start \in Int /\ clock \in Int
    BY DEF LimiterTypeOK, Call
<1>. QED BY <1>1, OffsetAssumption, BoundsAssumption DEF LagInv

LEMMA ScriptKeepsLag ==
    ASSUME LimiterTypeOK, LagInv, NEW c \in Calls, call[c] # NoKey,
           RunScript(call[c].stamp), clock' = clock,
           \A d \in Calls : call'[d] # NoKey => call'[d] = call[d]
    PROVE  LagInv'
<1>1. hash'.ts = call[c].stamp /\ hash'.expires = clock + Capacity + Slack
    BY DEF RunScript, Expiry
<1>2. clock \in Int /\ Spread \in Nat /\ Slack \in Nat
    BY OffsetAssumption, QuotaAssumption DEF LimiterTypeOK
<1>3. hash'.ts + Capacity + Slack <= hash'.expires + Spread
    BY <1>1, <1>2, StampNear, CapacityNat
<1>4. hash'.ts <= clock + Spread
    BY <1>1, StampNear
<1>. QED BY <1>3, <1>4 DEF LagInv, Capacity

LEMMA LagInvStep ==
    ASSUME LimiterTypeOK, LagInv, [LimiterNext]_limiter
    PROVE  LagInv'
<1>1. ASSUME NEW c \in Calls, Allow(c) PROVE LagInv'
    <2>1. UNCHANGED <<clock, hash>>
        BY <1>1 DEF Allow
    <2>2. ASSUME NEW d \in Calls, call'[d] # NoKey
          PROVE  /\ call'[d].start <= clock /\ clock <= call'[d].start + MaxDelay
                 /\ call'[d].start <= call'[d].stamp + Spread
                 /\ call'[d].stamp <= call'[d].start + Spread
        <3>1. CASE call'[d] = call[d]
            BY <3>1, <2>2 DEF LagInv
        <3>2. CASE call'[d] # call[d]
            <4>1. d = c /\ call'[d] = [start |-> clock, stamp |-> clock + Offset[c]]
                BY <3>2, <1>1 DEF Allow, LimiterTypeOK
            <4>2. Offset[c] \in Int /\ Offset[c] <= Spread /\ -Spread <= Offset[c]
                BY OffsetAssumption
            <4>. QED BY <4>1, <4>2, OffsetAssumption, BoundsAssumption DEF LimiterTypeOK
        <3>. QED BY <3>1, <3>2
    <2>. QED BY <2>1, <2>2 DEF LagInv, Capacity
<1>2. ASSUME NEW c \in Calls, Script(c) PROVE LagInv'
    BY <1>2, ScriptKeepsLag DEF Script, Return, LimiterTypeOK
<1>3. ASSUME NEW c \in Calls, ReplyLost(c) PROVE LagInv'
    BY <1>3, ScriptKeepsLag DEF ReplyLost
<1>4. ASSUME NEW c \in Calls, Unreachable(c) PROVE LagInv'
    BY <1>4 DEF Unreachable, Return, LimiterTypeOK, LagInv, Capacity
<1>5. CASE Evict
    BY <1>5 DEF Evict, LagInv
<1>6. CASE LimiterTick
    <2>1. hash' = hash /\ call' = call /\ clock' = clock + 1 /\ clock \in Int
        BY <1>6 DEF LimiterTick, LimiterTypeOK
    <2>2. \A c \in Calls : call[c] # NoKey =>
              call[c].start <= clock + 1 /\ clock + 1 <= call[c].start + MaxDelay
        BY <1>6, <2>1, BoundsAssumption DEF LimiterTick, LimiterTypeOK, Call, LagInv
    <2>3. hash # NoKey => hash.ts <= (clock + 1) + Spread
        BY <2>1, OffsetAssumption DEF LimiterTypeOK, Hash, LagInv
    <2>. QED BY <2>1, <2>2, <2>3 DEF LagInv, Capacity
<1>7. CASE UNCHANGED limiter
    BY <1>7 DEF limiter, LagInv, Capacity
<1>. QED BY <1>1, <1>2, <1>3, <1>4, <1>5, <1>6, <1>7 DEF LimiterNext

LEMMA LagInvInit == LimiterInit => LagInv
BY DEF LimiterInit, LagInv

-----------------------------------------------------------------------------
\* An idle key outlives the refill of its bucket, but for what the call's delay and
\* the clocks exceed the slack by.
LEMMA IdleKeyGivesLittle ==
    ASSUME LimiterTypeOK, LagInv, Conservation, hash # NoKey,
           NEW c \in Calls, call[c] # NoKey,
           GiftAt(call[c].stamp) # 0, ~(call[c].stamp < latest)
    PROVE  GiftAt(call[c].stamp) <= (clock - call[c].start) + 2 * Spread - Slack
<1>. DEFINE now == call[c].stamp
            start == call[c].start
<1>1. /\ now \in Int /\ start \in Int /\ start <= now + Spread
      /\ clock \in Int /\ latest \in Int
    BY DEF LagInv, LimiterTypeOK, Call
<1>2. hash.ts = latest /\ hash.expires \in Int
    BY DEF Conservation, LimiterTypeOK, Hash
<1>3. hash.ts + Capacity + Slack <= hash.expires + Spread
    BY DEF LagInv
<1>4. GiftAt(now) # 0 /\ ~(now < latest)
    OBVIOUS
<1>. HIDE DEF now, start
<1>5. ~KeyPresent
    BY <1>1, <1>4 DEF GiftAt, AtLeastZero
<1>6. clock >= hash.expires
    BY <1>1, <1>2, <1>5 DEF KeyPresent
<1>7. GiftAt(now) = latest + Capacity - now
    BY <1>1, <1>4, <1>5, CapacityNat DEF GiftAt, AtLeastZero
<1>8. latest + Capacity - now <= (clock - start) + 2 * Spread - Slack
    BY <1>1, <1>2, <1>3, <1>6, CapacityNat, QuotaAssumption, OffsetAssumption
<1>. QED BY <1>7, <1>8 DEF now, start

\* A script never gives more than a full bucket and the time it is late.
LEMMA GiftBounded ==
    ASSUME LimiterTypeOK, NEW now \in Int
    PROVE  /\ GiftAt(now) \in Nat
           /\ now < latest => GiftAt(now) <= Capacity + (latest - now)
           /\ ~(now < latest) => GiftAt(now) <= Capacity
BY CapacityNat DEF GiftAt, AtLeastZero, LimiterTypeOK

\* A refill for time that had not passed comes from a call that ran after a later
\* one, from the loss of the key, or from a call so late that the slack of the
\* expiry did not cover it; and each of the three is bounded.
THEOREM GiftsAreExplained == LimiterSpec => GiftsExplained
<1>. DEFINE given == gift' - gift
            Explained ==
               \/ given = 0
               \/ latest' < latest /\ given <= Capacity + (latest - latest')
               \/ hash = NoKey /\ given <= Capacity
               \/ \E c \in Calls : /\ call[c] # NoKey
                                  /\ given <= (clock - call[c].start) + 2 * Spread - Slack
<1>1. LimiterInit => LimiterTypeOK /\ Conservation /\ LagInv
    BY LimiterTypeInit, ConservationInit, LagInvInit
<1>2. LimiterTypeOK /\ Conservation /\ LagInv /\ [LimiterNext]_limiter
          => LimiterTypeOK' /\ Conservation' /\ LagInv'
    BY LimiterTypeStep, ConservationStep, LagInvStep
<1>3. ASSUME LimiterTypeOK, Conservation, LagInv, [LimiterNext]_limiter PROVE Explained
    <2>1. ASSUME NEW c \in Calls, call[c] # NoKey, RunScript(call[c].stamp) PROVE Explained
        <3>0. call[c].stamp \in Int
            BY <2>1, <1>3, StampInt
        <3>1. given = GiftAt(call[c].stamp) /\ latest' = call[c].stamp
            BY <2>1, <3>0, <1>3, GiftBounded DEF RunScript, LimiterTypeOK
        <3>. HIDE DEF given
        <3>2. CASE given = 0
            BY <3>2
        <3>3. CASE latest' < latest
            BY <3>0, <3>1, <3>3, <1>3, GiftBounded
        <3>4. CASE ~(latest' < latest) /\ hash = NoKey
            BY <3>0, <3>1, <3>4, <1>3, GiftBounded
        <3>5. CASE given # 0 /\ ~(latest' < latest) /\ hash # NoKey
            BY <3>1, <3>5, <2>1, <1>3, IdleKeyGivesLittle
        <3>. QED BY <3>2, <3>3, <3>4, <3>5
    <2>2. CASE UNCHANGED gift
        BY <2>2, <1>3 DEF LimiterTypeOK
    <2>. QED BY <1>3, <2>1, <2>2
             DEF LimiterNext, Allow, Script, ReplyLost, Unreachable, Evict, LimiterTick,
                 history, limiter
<1>4. LimiterTypeOK /\ Conservation /\ LagInv /\ [LimiterNext]_limiter => [Explained]_limiter
    BY <1>3
<1>. QED BY <1>1, <1>2, <1>4, PTL DEF LimiterSpec, GiftsExplained

-----------------------------------------------------------------------------
\* Calls that run in step and a key that is never lost: no refill is a gift.
InStepInv ==
    /\ gift = 0 /\ 0 <= clock
    /\ first # NoKey => hash # NoKey /\ 0 <= first /\ latest <= clock

LEMMA InStepStep ==
    ASSUME MaxDelay = 0, Spread = 0, "evict" \notin Faults,
           LimiterTypeOK, Conservation, LagInv, InStepInv, [LimiterNext]_limiter
    PROVE  InStepInv'
<1>1. ASSUME NEW c \in Calls, call[c] # NoKey, RunScript(call[c].stamp), clock' = clock
      PROVE  InStepInv'
    <2>. DEFINE now == call[c].stamp
    <2>1. now = clock /\ clock \in Int
        BY <1>1, StampNear DEF LimiterTypeOK
    <2>2. /\ gift' = gift + GiftAt(now) /\ latest' = now
          /\ first' = IF first = NoKey THEN now ELSE first
        BY <1>1 DEF RunScript
    <2>3. hash' # NoKey
        BY <1>1, ScriptTypes, <2>1, NoKeyAssumption
    <2>4. GiftAt(now) = 0
        <3>1. CASE first = NoKey
            BY <3>1 DEF GiftAt
        <3>2. CASE first # NoKey
            <4>1. hash # NoKey /\ ~(now < latest)
                BY <2>1, <3>2 DEF InStepInv, LimiterTypeOK
            <4>2. clock - call[c].start <= 0
                BY <1>1 DEF LagInv, LimiterTypeOK, Call
            <4>3. (clock - call[c].start) + 2 * Spread - Slack <= 0
                BY <4>2, <1>1, QuotaAssumption DEF LimiterTypeOK, Call
            <4>4. GiftAt(now) \in Nat
                BY <2>1, GiftBounded
            <4>5. GiftAt(now) = 0 \/ GiftAt(now) <= (clock - call[c].start) + 2 * Spread - Slack
                BY <1>1, <4>1, IdleKeyGivesLittle
            <4>. HIDE DEF now
            <4>6. call[c].start \in Int /\ clock \in Int
                BY <1>1 DEF LimiterTypeOK, Call
            <4>. QED BY <4>3, <4>4, <4>5, <4>6, QuotaAssumption, OffsetAssumption
        <3>. QED BY <3>1, <3>2
    <2>. HIDE DEF now
    <2>. QED BY <1>1, <2>1, <2>2, <2>3, <2>4 DEF InStepInv
<1>2. CASE UNCHANGED <<hash, first, latest, gift>> /\ (clock' = clock \/ clock' = clock + 1)
    BY <1>2 DEF InStepInv, LimiterTypeOK
<1>. QED BY <1>1, <1>2
         DEF LimiterNext, Allow, Script, ReplyLost, Unreachable, Evict, LimiterTick,
             history, limiter

\* What ratelimit.go:24 says of sustained traffic is so where scripts run at the
\* time they are given, the pods agree on it and Redis keeps its keys, whatever
\* replies are lost: scripts admit no more than a burst and the refill of the time
\* that has passed.
THEOREM SustainedInStep ==
    ASSUME MaxDelay = 0, Spread = 0, "evict" \notin Faults
    PROVE  LimiterSpec => []SustainedBound
<1>1. LimiterInit => LimiterTypeOK /\ Conservation /\ LagInv /\ InStepInv
    BY LimiterTypeInit, ConservationInit, LagInvInit DEF LimiterInit, InStepInv
<1>2. LimiterTypeOK /\ Conservation /\ LagInv /\ InStepInv /\ [LimiterNext]_limiter
          => LimiterTypeOK' /\ Conservation' /\ LagInv' /\ InStepInv'
    BY LimiterTypeStep, ConservationStep, LagInvStep, InStepStep
<1>3. LimiterTypeOK /\ Conservation /\ InStepInv => SustainedBound
    BY CapacityNat DEF LimiterTypeOK, Conservation, AdmissionsBounded, InStepInv, SustainedBound
<1>. QED BY <1>1, <1>2, <1>3, PTL DEF LimiterSpec

-----------------------------------------------------------------------------
Drift == MaxDelay + Spread

LEMMA DriftNat == Drift \in Nat /\ Spread \in Nat /\ Spread <= Drift
BY OffsetAssumption, BoundsAssumption DEF Drift

LEMMA LevelInt == ASSUME LimiterTypeOK PROVE Level \in Int /\ Level <= Capacity
BY CapacityNat DEF Level, AtMost, LimiterTypeOK, Hash

\* What the script finds is the level of the bucket, give or take the drift; and
\* so is what it leaves, but for the tokens it takes.
LEMMA ScriptNearBucket ==
    ASSUME LimiterTypeOK, LagInv, NEW now \in Int,
           now <= clock + Spread, clock <= now + Drift
    PROVE  /\ LevelAt(now) <= Level + Drift
           /\ Level - Drift <= LevelAt(now)
           /\ \A used \in Nat :
                 LET left == AtMost((LevelAt(now) - used) + (clock - now), Capacity)
                 IN  /\ left >= Level - used - Drift
                     /\ left <= Level - used + 2 * Drift
<1>0. clock \in Int /\ Capacity \in Nat /\ Drift \in Nat /\ Spread \in Nat /\ Spread <= Drift
    BY CapacityNat, DriftNat DEF LimiterTypeOK
<1>1. CASE hash = NoKey
    <2>1. Level = Capacity /\ LevelAt(now) = Capacity
        BY <1>1 DEF Level, LevelAt, KeyPresent
    <2>. HIDE DEF Capacity, Drift
    <2>. QED BY <2>1, <1>0 DEF AtMost
<1>2. CASE hash # NoKey
    <2>1. /\ hash.t \in Int /\ 0 <= hash.t /\ hash.t <= Capacity
          /\ hash.ts \in Int /\ hash.expires \in Int
          /\ hash.ts <= clock + Spread /\ hash.ts + Capacity <= hash.expires + Spread
        BY <1>0, <1>2, QuotaAssumption DEF LimiterTypeOK, Hash, LagInv
    <2>2. Level = AtMost(hash.t + (clock - hash.ts), Capacity)
        BY <1>2 DEF Level
    <2>3. CASE KeyPresent
        <3>1. LevelAt(now) = AtMost(hash.t + AtLeastZero(now - hash.ts), Capacity)
            BY <2>3 DEF LevelAt
        <3>. HIDE DEF Capacity, Drift
        <3>. QED BY <3>1, <2>1, <2>2, <1>0 DEF AtMost, AtLeastZero
    <2>4. CASE ~KeyPresent
        <3>1. LevelAt(now) = Capacity
            BY <2>4 DEF LevelAt
        <3>2. clock >= hash.expires
            BY <2>1, <2>4, <1>0, <1>2 DEF KeyPresent
        <3>. HIDE DEF Capacity, Drift
        <3>3. Level <= Capacity /\ Level >= Capacity - Spread /\ Level \in Int
            BY <3>2, <2>1, <2>2, <1>0 DEF AtMost
        <3>. QED BY <3>1, <3>3, <1>0 DEF AtMost
    <2>. QED BY <2>3, <2>4
<1>. QED BY <1>1, <1>2

LEMMA ScriptMovesBucket ==
    ASSUME LimiterTypeOK, LagInv, LimiterTypeOK', NEW c \in Calls, call[c] # NoKey,
           RunScript(call[c].stamp), clock' = clock
    PROVE  \/ Bucket!Take /\ LevelAt(call[c].stamp) >= Cost
           \/ Bucket!Lack /\ ~(LevelAt(call[c].stamp) >= Cost)
<1>. DEFINE now == call[c].stamp
            found == LevelAt(now)
            used == IF found >= Cost THEN Cost ELSE 0
<1>1. now \in Int /\ now <= clock + Spread /\ clock <= now + Drift
    BY StampNear DEF Drift
<1>2. found \in 0 .. Capacity
    BY <1>1, LevelType
<1>3. found <= Level + Drift /\ Level - Drift <= found
    BY <1>1, ScriptNearBucket
<1>4. used \in Nat /\ found \in Int /\ taken \in Nat /\ Cost \in Nat
    BY <1>2, CapacityNat, QuotaAssumption DEF LimiterTypeOK
<1>5. /\ hash' = [t |-> found - used, ts |-> now, expires |-> Expiry]
      /\ taken' = taken + used
    BY DEF RunScript
<1>6. hash' # NoKey
    BY <1>1, ScriptTypes, NoKeyAssumption DEF LimiterTypeOK
<1>7. Level' = AtMost((found - used) + (clock - now), Capacity)
    <2>1. Level' = AtMost(hash'.t + (clock' - hash'.ts), Capacity)
        BY <1>6 DEF Level, Capacity
    <2>. HIDE DEF found, used, now
    <2>. QED BY <2>1, <1>5
<1>8. Level' >= Level - used - Drift /\ Level' <= Level - used + 2 * Drift
    <2>1. \A u \in Nat : LET left == AtMost((LevelAt(now) - u) + (clock - now), Capacity)
                         IN  left >= Level - u - Drift /\ left <= Level - u + 2 * Drift
        BY <1>1, ScriptNearBucket
    <2>. HIDE DEF used, now
    <2>. QED BY <2>1, <1>4, <1>7 DEF found
<1>9. Level' <= Capacity /\ Level \in Int /\ Drift \in Nat
    <2>1. (found - used) + (clock - now) \in Int
        BY <1>1, <1>4 DEF LimiterTypeOK
    <2>. HIDE DEF found, used, now
    <2>2. Level' <= Capacity
        BY <2>1, <1>7, CapacityNat DEF AtMost
    <2>. QED BY <2>2, LevelInt, DriftNat
<1>. HIDE DEF found, now
<1>10. CASE found >= Cost
    <2>1. used = Cost
        BY <1>10
    <2>. HIDE DEF used
    <2>. QED BY <2>1, <1>3, <1>4, <1>5, <1>8, <1>9, <1>10
             DEF Bucket!Take, Bucket!Leaves, Drift, found, now
<1>11. CASE ~(found >= Cost)
    <2>1. used = 0
        BY <1>11
    <2>. HIDE DEF used
    <2>2. Level - Drift < Cost
        BY <1>3, <1>4, <1>9, <1>11
    <2>. QED BY <2>1, <2>2, <1>4, <1>5, <1>8, <1>9, <1>11
             DEF Bucket!Lack, Bucket!Leaves, Drift, found, now
<1>. QED BY <1>10, <1>11 DEF found, now

\* Every step of the limiter is a step of the bucket, or none.
LEMMA LimiterRefines ==
    ASSUME Cost > 0, LimiterTypeOK, LimiterTypeOK', LagInv, [LimiterNext]_limiter
    PROVE  Bucket!BucketNext \/ UNCHANGED Bucket!bucket
<1>. USE DEF Bucket!BucketNext, Bucket!bucket
<1>1. ASSUME NEW c \in Calls, Allow(c)
      PROVE  Bucket!BucketNext \/ UNCHANGED Bucket!bucket
    <2>1. Level' = Level /\ taken' = taken
        BY <1>1 DEF Allow, Level, history, Capacity
    <2>2. CASE Burst > 0 /\ Cost > 0
        BY <1>1, <2>1, <2>2 DEF Allow
    <2>3. CASE ~(Burst > 0 /\ Cost > 0)
        <3>1. Burst = 0 /\ Cost \in Nat
            BY <2>3, QuotaAssumption
        <3>2. Capacity = 0
            BY <3>1 DEF Capacity
        <3>3. Level <= 0 /\ Level \in Int /\ Drift \in Nat /\ verdict' = "denied"
            BY <1>1, <2>3, <3>1, <3>2, LevelInt, DriftNat DEF Allow
        <3>4. Level - Drift < Cost
            BY <3>1, <3>3
        <3>5. Level' <= Capacity /\ Level' >= Level - 0 - Drift /\ Level' <= Level - 0 + 2 * Drift
            BY <2>1, <3>2, <3>3
        <3>. QED BY <2>1, <3>3, <3>4, <3>5 DEF Bucket!Deny, Bucket!Lack, Bucket!Leaves, Drift
    <2>. QED BY <2>2, <2>3
<1>2. ASSUME NEW c \in Calls, Script(c)
      PROVE  Bucket!BucketNext \/ UNCHANGED Bucket!bucket
    <2>1. /\ call[c] # NoKey /\ RunScript(call[c].stamp) /\ clock' = clock
          /\ verdict' = IF LevelAt(call[c].stamp) >= Cost THEN "admitted" ELSE "denied"
        BY <1>2 DEF Script, Return
    <2>. QED BY <2>1, ScriptMovesBucket DEF Bucket!Admit, Bucket!Deny
<1>3. ASSUME NEW c \in Calls, ReplyLost(c)
      PROVE  Bucket!BucketNext \/ UNCHANGED Bucket!bucket
    <2>1. /\ call[c] # NoKey /\ RunScript(call[c].stamp) /\ clock' = clock
          /\ verdict' = verdict /\ "replyLost" \in Faults
        BY <1>3 DEF ReplyLost
    <2>. QED BY <2>1, ScriptMovesBucket DEF Bucket!Unheard
<1>4. ASSUME NEW c \in Calls, Unreachable(c)
      PROVE  Bucket!BucketNext \/ UNCHANGED Bucket!bucket
    BY <1>4 DEF Unreachable, Return, history, Level, Capacity, Bucket!Open
<1>5. CASE Evict
    BY <1>5 DEF Evict, history, Level, Capacity, Bucket!Reset
<1>6. CASE LimiterTick
    <2>1. clock' = clock + 1 /\ hash' = hash /\ taken' = taken /\ verdict' = verdict
        BY <1>6 DEF LimiterTick, history
    <2>2. CASE hash = NoKey
        BY <2>1, <2>2 DEF Level, Capacity
    <2>3. CASE hash # NoKey
        <3>1. Level = AtMost(hash.t + (clock - hash.ts), Capacity)
            BY <2>3 DEF Level
        <3>2. Level' = AtMost(hash.t + ((clock + 1) - hash.ts), Capacity)
            <4>1. Level' = AtMost(hash'.t + (clock' - hash'.ts), Capacity)
                BY <2>1, <2>3 DEF Level, Capacity
            <4>. QED BY <4>1, <2>1
        <3>3. hash.t \in Int /\ hash.ts \in Int /\ clock \in Int
            BY <2>3 DEF LimiterTypeOK, Hash
        <3>4. Level' = Level \/ (Level' = Level + 1 /\ Level < Capacity)
            BY <3>1, <3>2, <3>3, CapacityNat DEF AtMost
        <3>. QED BY <2>1, <3>4 DEF Bucket!Fill
    <2>. QED BY <2>2, <2>3
<1>7. CASE UNCHANGED limiter
    BY <1>7 DEF limiter, history, Level, Capacity
<1>. QED BY <1>1, <1>2, <1>3, <1>4, <1>5, <1>6, <1>7 DEF LimiterNext

\* The lazily refilled, expiring hash of the script is a token bucket, for every
\* quota, delay, clock offset and fault: each request is off by no more than its
\* own delay and clock, and by nothing where calls run in step.
THEOREM LimiterIsTokenBucket ==
    ASSUME Cost > 0
    PROVE  LimiterSpec => ImplementsTokenBucket
<1>1. LimiterInit => LimiterTypeOK /\ LagInv /\ Bucket!BucketInit
    BY LimiterTypeInit, LagInvInit DEF LimiterInit, Bucket!BucketInit, Level
<1>2. LimiterTypeOK /\ LagInv /\ [LimiterNext]_limiter => LimiterTypeOK' /\ LagInv'
    BY LimiterTypeStep, LagInvStep
<1>3. LimiterTypeOK /\ LagInv /\ LimiterTypeOK' /\ [LimiterNext]_limiter
          => [Bucket!BucketNext]_(Bucket!bucket)
    BY LimiterRefines
<1>. QED BY <1>1, <1>2, <1>3, PTL DEF LimiterSpec, ImplementsTokenBucket, Bucket!BucketSpec
=============================================================================
