---------------------------- MODULE RedisLimiter ----------------------------
(***************************************************************************)
(* pkg/ratelimit/redis_limiter.go: the bucket of one key, kept as a Redis   *)
(* hash that is refilled when it is used and expires when it is not.        *)
(*                                                                          *)
(* The script is atomic, but the time it is given is not the time it runs:  *)
(* `now' is read from the clock of the calling pod before the call waits    *)
(* for a connection, the network and other scripts, so scripts may run with *)
(* times out of order, and Redis expires keys by its own clock.             *)
(***************************************************************************)
EXTENDS Integers

CONSTANTS
    Calls,     \* slots for concurrent calls of Allow, over all pods
    Offset,    \* how far each slot's pod clock is from that of Redis
    Spread,    \* assumption: the furthest a pod clock is from that of Redis
    Burst,     \* tokens in a full bucket
    Cost,      \* ticks in which one token is refilled, 1000 / ratePerSec; 0 for no rate
    Slack,     \* ticks a key outlives the refill of its bucket, 1000
    MaxDelay,  \* bound: the longest time from reading the clock to running the script
    NoKey,     \* the absence of the hash, or of a call
    Faults,    \* the faults that may happen
    Horizon,   \* bound: when the clock stops
    MaxCalls   \* bound: how many calls are made, resent ones included

ASSUME OffsetAssumption == Spread \in Nat /\ Offset \in [Calls -> -Spread .. Spread]
ASSUME QuotaAssumption == Burst \in Nat /\ Cost \in Nat /\ Slack \in Nat
ASSUME BoundsAssumption == MaxDelay \in Nat /\ Horizon \in Nat /\ MaxCalls \in Nat
ASSUME LimiterFaultsAssumption == Faults \subseteq {"down", "replyLost", "evict"}

Capacity == Burst * Cost

Hash == [t : 0 .. Capacity, ts : Int, expires : Int]
Call == [start : Int, stamp : Int]
ASSUME NoKeyAssumption == NoKey \notin Int \cup Hash \cup Call

VARIABLES
    clock,    \* the clock of Redis
    hash,     \* the Redis hash of the key
    call,     \* the calls under way
    verdict,  \* the last answer of Allow
    made,     \* how many calls were made, resent ones included
    taken,    \* history: units taken by the scripts that answered 1
    first,    \* history: the `now' of the first script, NoKey before it
    latest,   \* history: the `now' of the last script
    gift      \* history: units refilled for time that had not passed

history == <<taken, first, latest, gift>>
limiter == <<clock, hash, call, verdict, made, history>>

AtLeastZero(n) == IF n > 0 THEN n ELSE 0
AtMost(n, cap) == IF n < cap THEN n ELSE cap

LimiterTypeOK ==
    /\ clock \in Int
    /\ hash \in Hash \cup {NoKey}
    /\ call \in [Calls -> Call \cup {NoKey}]
    /\ verdict \in {"none", "admitted", "denied", "open"}
    /\ made \in Nat
    /\ taken \in Nat /\ gift \in Nat
    /\ first \in Int \cup {NoKey}
    /\ latest \in Int

LimiterInit ==
    /\ clock = 0
    /\ hash = NoKey
    /\ call = [c \in Calls |-> NoKey]
    /\ verdict = "none"
    /\ made = 0
    /\ taken = 0 /\ first = NoKey /\ latest = 0 /\ gift = 0

-----------------------------------------------------------------------------
\* Allow reads the pod's clock; a quota of nothing is refused without a call.
Allow(c) ==
    /\ call[c] = NoKey
    /\ made < MaxCalls
    /\ made' = made + 1
    /\ IF Burst > 0 /\ Cost > 0
       THEN /\ call' = [call EXCEPT ![c] =
                           [start |-> clock, stamp |-> clock + Offset[c]]]
            /\ UNCHANGED verdict
       ELSE verdict' = "denied" /\ UNCHANGED call
    /\ UNCHANGED <<clock, hash, history>>

\* The key is there for the script unless it was never set, evicted or expired.
KeyPresent == hash # NoKey /\ clock < hash.expires

\* Variation: an absent key starts from an empty bucket.
EmptyBucket(now) == IF KeyPresent THEN AtMost(hash.t + AtLeastZero(now - hash.ts), Capacity)
                    ELSE 0

\* Variation: the refill is not capped.
UncappedLevel(now) == IF KeyPresent THEN hash.t + AtLeastZero(now - hash.ts) ELSE Capacity

\* The level a script finds at `now', after its refill.
LevelAt(now) == IF KeyPresent THEN AtMost(hash.t + AtLeastZero(now - hash.ts), Capacity)
                ELSE Capacity

\* Units the script believes were refilled since the last one, but were not.
GiftAt(now) ==
    IF first = NoKey THEN 0
    ELSE IF KeyPresent THEN AtLeastZero(latest - now)
    ELSE AtLeastZero(latest + Capacity - now)

\* Variation: the key expires while its bucket may still be refilling.
ExpiryTooSoon == clock + Capacity

\* PEXPIRE: the time to refill a bucket from empty, plus the slack.
Expiry == clock + Capacity + Slack

\* Variation: `ts' is not written when the hash is there.
RunScriptKeepingTs(now) ==
    LET level == LevelAt(now)
        used == IF level >= Cost THEN Cost ELSE 0
    IN  /\ hash' = [t |-> level - used, ts |-> IF KeyPresent THEN hash.ts ELSE now,
                    expires |-> Expiry]
        /\ taken' = taken + used
        /\ first' = IF first = NoKey THEN now ELSE first
        /\ latest' = now
        /\ gift' = gift + GiftAt(now)

\* tokenBucketScript, but for the answer it returns.
RunScript(now) ==
    LET level == LevelAt(now)
        used == IF level >= Cost THEN Cost ELSE 0
    IN  /\ hash' = [t |-> level - used, ts |-> now, expires |-> Expiry]
        /\ taken' = taken + used
        /\ first' = IF first = NoKey THEN now ELSE first
        /\ latest' = now
        /\ gift' = gift + GiftAt(now)

Return(c, answer) == /\ call' = [call EXCEPT ![c] = NoKey]
                     /\ verdict' = answer

Script(c) ==
    /\ call[c] # NoKey
    /\ RunScript(call[c].stamp)
    /\ Return(c, IF LevelAt(call[c].stamp) >= Cost THEN "admitted" ELSE "denied")
    /\ UNCHANGED <<clock, made>>

\* The script ran but its reply did not arrive: the client sends it again, with
\* the same arguments, or gives up (Unreachable).
ReplyLost(c) ==
    /\ "replyLost" \in Faults
    /\ call[c] # NoKey
    /\ made < MaxCalls
    /\ made' = made + 1
    /\ RunScript(call[c].stamp)
    /\ UNCHANGED <<clock, call, verdict>>

\* The client gives up on Redis: Allow fails open.
Unreachable(c) ==
    /\ Faults \cap {"down", "replyLost"} # {}
    /\ call[c] # NoKey
    /\ Return(c, "open")
    /\ UNCHANGED <<clock, hash, made, history>>

\* maxmemory-policy allkeys-lru drops the key, or Redis restarts empty.
Evict ==
    /\ "evict" \in Faults
    /\ hash' = NoKey
    /\ UNCHANGED <<clock, call, verdict, made, history>>

LimiterTick ==
    /\ clock < Horizon
    /\ \A c \in Calls : call[c] # NoKey => clock - call[c].start < MaxDelay
    /\ clock' = clock + 1
    /\ UNCHANGED <<hash, call, verdict, made, history>>

LimiterNext ==
    \/ \E c \in Calls : Allow(c) \/ Script(c) \/ ReplyLost(c) \/ Unreachable(c)
    \/ Evict
    \/ LimiterTick

LimiterSpec == LimiterInit /\ [][LimiterNext]_limiter

-----------------------------------------------------------------------------
\* What was taken never exceeds a burst and the time between the first and the
\* last call, but for the refills the script granted for time that had not
\* passed: `ts' set back by a late call, a bucket found gone.  The bound that
\* remains of "without letting sustained traffic exceed perMinute".
AdmissionsBounded ==
    first # NoKey => taken <= Capacity + (latest - first) + gift

\* Why: the bucket is what is left of that allowance, and `ts' its end.
Conservation ==
    /\ first = NoKey => hash = NoKey /\ taken = 0
    /\ hash # NoKey =>
          /\ first # NoKey
          /\ hash.ts = latest
          /\ hash.t + taken <= Capacity + (latest - first) + gift
    /\ AdmissionsBounded

\* Where a refill for time that had not passed comes from, and how much it can
\* be: a call that ran after a later one gets back the time between the two, and
\* a bucket if it finds none; the loss of the key, one burst; and the idle key that
\* PEXPIRE drops, only what the call's own delay and the clocks exceed the slack by.
GiftsExplained ==
    [][ LET given == gift' - gift
        IN  \/ given = 0
            \/ latest' < latest /\ given <= Capacity + (latest - latest')
            \/ hash = NoKey /\ given <= Capacity
            \/ \E c \in Calls : /\ call[c] # NoKey
                               /\ given <= (clock - call[c].start) + 2 * Spread - Slack
      ]_limiter

\* "without letting sustained traffic exceed perMinute" (ratelimit.go:24): a
\* burst, and then no more than the refill of the time that has passed.
SustainedBound == taken <= Capacity + clock

-----------------------------------------------------------------------------
\* The level of the abstract bucket at this moment.
Level == IF hash = NoKey THEN Capacity
         ELSE AtMost(hash.t + (clock - hash.ts), Capacity)

Bucket == INSTANCE TokenBucket WITH level <- Level, Drift <- MaxDelay + Spread

\* The lazily refilled, expiring hash is a token bucket each of whose requests
\* is off by no more than its delay and its clock: idleness and expiry are
\* invisible, and where calls run in step the bucket is exact.
ImplementsTokenBucket == Bucket!BucketSpec
=============================================================================
