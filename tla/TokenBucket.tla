----------------------------- MODULE TokenBucket -----------------------------
(***************************************************************************)
(* What a rate limit promises (internal/middleware/ratelimit.go, brute_force *)
(* .go): a bucket holds a burst of tokens, fills steadily, and every         *)
(* admitted request takes one.  The unit of the level is the refill of one   *)
(* tick, so a token is worth Cost = 1000 / ratePerSec units of 1 ms.         *)
(*                                                                           *)
(* A request may see and leave the level off by Drift: with a Drift of zero  *)
(* and no Faults this is the textbook bucket.                                *)
(***************************************************************************)
EXTENDS Integers

CONSTANTS
    Capacity,  \* a full bucket, in units
    Cost,      \* one token, in units
    Drift,     \* how far a request's idea of the time may be off, in ticks
    Faults     \* what may fail: "down", "replyLost", "evict"

VARIABLES
    level,     \* what is in the bucket
    taken,     \* what has been taken out of it
    verdict    \* the last answer

bucket == <<level, taken, verdict>>

BucketInit == level = Capacity /\ taken = 0 /\ verdict = "none"

Fill == /\ level < Capacity
        /\ level' = level + 1
        /\ UNCHANGED <<taken, verdict>>

\* The level after a request that took `amount'.
Leaves(amount) ==
    /\ level' <= Capacity
    /\ level' >= level - amount - Drift
    /\ level' <= level - amount + 2 * Drift

\* A request finds a token and takes it, or finds none.
Take == /\ level + Drift >= Cost
        /\ Leaves(Cost)
        /\ taken' = taken + Cost

Lack == /\ level - Drift < Cost
        /\ Leaves(0)
        /\ taken' = taken

Admit == Take /\ verdict' = "admitted"

Deny == Lack /\ verdict' = "denied"

\* Nobody hears the answer.
Unheard == /\ "replyLost" \in Faults
           /\ Take \/ Lack
           /\ UNCHANGED verdict

\* Nobody asks the bucket.
Open == /\ Faults \cap {"down", "replyLost"} # {}
        /\ verdict' = "open"
        /\ UNCHANGED <<level, taken>>

\* The bucket is replaced by a full one.
Reset == /\ "evict" \in Faults
         /\ level' = Capacity
         /\ UNCHANGED <<taken, verdict>>

BucketNext == Fill \/ Admit \/ Deny \/ Unheard \/ Open \/ Reset

BucketSpec == BucketInit /\ [][BucketNext]_bucket
=============================================================================
