--------------------------- MODULE ReadPathProofs ---------------------------
(***************************************************************************)
(* For every number of requests, users, tokens and lifetimes: the caches     *)
(* hand data to whom it is meant for, and no older than AnswersFresh says.   *)
(***************************************************************************)
EXTENDS ReadPath, TLAPS

\* What an entry under key k is about.
About(k) == IF k[1] = "list" THEN <<"list", None>> ELSE k

\* Whoever stored it, an entry is about its key, and its body's age and what is
\* left of its lifetime stay within one lifetime and one request.
EntrySound(k) ==
    cache[k] # None =>
        /\ cache[k].body \in Body
        /\ cache[k].body.of = About(k)
        /\ cache[k].body.age + cache[k].left <= MaxHandling + TTL(k[1])

\* What the context c asks for: Asked(s), of a context instead of a slot.
Question(c) ==
    CASE c.route = "me"     -> <<"me", c.claims.uid>>
      [] c.route = "list"   -> <<"list", None>>
      [] c.route = "threat" -> <<"threat", c.target>>

\* The caller is entitled to the route.
Admitted(c) ==
    /\ c.claims \in Claims
    /\ c.route # "me" => c.claims.role = "admin"

\* A request under way was let in; what it holds answers its question, and what it
\* read itself is not older than the request.
Sound(c) ==
    /\ c.step # "audit" \/ c.body # None => Admitted(c)
    /\ c.body # None =>
          /\ c.body.of = Question(c)
          /\ c.body.age < TTL(c.route) + MaxHandling + c.busy
    /\ c.body # None /\ c.step # "audit" => c.body.age <= c.busy
    /\ c.step = "read" => c.route \in Pages
    /\ c.step = "user" => c.route \notin Pages
    /\ c.step \in {"signals", "generate"} => c.body # None
    /\ c.step = "set" /\ c.status = 200 => c.body # None

PathInv ==
    /\ PathTypeOK
    /\ \A k \in Key : EntrySound(k)
    /\ \A s \in Slots : ctx[s] # None => Sound(ctx[s])

-----------------------------------------------------------------------------
(* Facts about contexts *)

LEMMA TTLPositive == \A route : TTL(route) \in Nat \ {0}
BY TTLAssumption DEF TTL

LEMMA ContextFields ==
    ASSUME NEW c \in Context
    PROVE  /\ c.step \in Steps /\ c.route \in Routes
           /\ c.claims \in Claims \cup {Nobody}
           /\ c.target \in Targets /\ c.charge \in Charges
           /\ c.status \in Codes /\ c.body \in Body \cup {None}
           /\ c.cause \in Causes /\ c.busy \in 0 .. MaxHandling
           /\ c # None
BY NoneAssumption DEF Context

\* The updates the actions make, and the fields they leave alone.
Same(c, d) ==
    /\ d.route = c.route /\ d.claims = c.claims
    /\ d.target = c.target /\ d.busy = c.busy

Failed(c, status, cause, step) ==
    [c EXCEPT !.status = status, !.cause = cause, !.body = None, !.step = step]
Answered(c, status, body, step) ==
    [c EXCEPT !.status = status, !.step = step, !.body = body]
Gone(c, step) == [c EXCEPT !.step = step]
Charged(c, charge) == [c EXCEPT !.charge = charge, !.step = "cache"]
Generated(c) == [c EXCEPT !.status = 200, !.step = "set"]

\* Fields of an update d of c that its kind does not touch, and those it does.
Updated(c, d, status, body, step) ==
    /\ d \in Context
    /\ Same(c, d)
    /\ d.status = status /\ d.body = body /\ d.step = step

LEMMA FailedContext ==
    ASSUME NEW c \in Context, NEW status \in Codes, NEW cause \in Causes,
           NEW step \in Steps
    PROVE  Updated(c, Failed(c, status, cause, step), status, None, step)
<1>1. Failed(c, status, cause, step) \in Context
    BY DEF Context, Failed
<1>2. /\ Failed(c, status, cause, step).step = step
      /\ Failed(c, status, cause, step).status = status
      /\ Failed(c, status, cause, step).body = None
    BY DEF Context, Failed
<1>3. Same(c, Failed(c, status, cause, step))
    BY DEF Context, Failed, Same
<1>. QED BY <1>1, <1>2, <1>3 DEF Updated

LEMMA AnsweredContext ==
    ASSUME NEW c \in Context, NEW status \in Codes, NEW body \in Body \cup {None},
           NEW step \in Steps
    PROVE  Updated(c, Answered(c, status, body, step), status, body, step)
<1>1. Answered(c, status, body, step) \in Context
    BY DEF Context, Answered
<1>2. /\ Answered(c, status, body, step).step = step
      /\ Answered(c, status, body, step).status = status
      /\ Answered(c, status, body, step).body = body
    BY DEF Context, Answered
<1>3. Same(c, Answered(c, status, body, step))
    BY DEF Context, Answered, Same
<1>. QED BY <1>1, <1>2, <1>3 DEF Updated

LEMMA GoneContext ==
    ASSUME NEW c \in Context, NEW step \in Steps
    PROVE  Updated(c, Gone(c, step), c.status, c.body, step)
<1>1. Gone(c, step) \in Context
    BY DEF Context, Gone
<1>2. /\ Gone(c, step).step = step
      /\ Gone(c, step).status = c.status /\ Gone(c, step).body = c.body
    BY DEF Context, Gone
<1>3. Same(c, Gone(c, step))
    BY DEF Context, Gone, Same
<1>. QED BY <1>1, <1>2, <1>3 DEF Updated

LEMMA ChargedContext ==
    ASSUME NEW c \in Context, NEW charge \in Charges
    PROVE  Updated(c, Charged(c, charge), c.status, c.body, "cache")
<1>1. Charged(c, charge) \in Context
    <2>1. "cache" \in Steps
        BY DEF Steps
    <2>. QED BY <2>1 DEF Context, Charged
<1>2. /\ Charged(c, charge).step = "cache"
      /\ Charged(c, charge).status = c.status /\ Charged(c, charge).body = c.body
    BY DEF Context, Charged
<1>3. Same(c, Charged(c, charge))
    BY DEF Context, Charged, Same
<1>. QED BY <1>1, <1>2, <1>3 DEF Updated

LEMMA GeneratedContext ==
    \A c \in Context : Updated(c, Generated(c), 200, c.body, "set")
<1>1. 200 \in Codes /\ "set" \in Steps
    BY DEF Codes, Steps
<1>. QED BY <1>1 DEF Context, Same, Updated, Generated

\* A request under way stays sound if what it holds next is nothing or an answer
\* no older than the request.
LEMMA StaysSound ==
    ASSUME NEW c \in Context, Sound(c), c.step # "audit",
           NEW d \in Context, Same(c, d),
           d.body # None => d.body.of = Question(c) /\ d.body.age \in Nat
                            /\ d.body.age <= c.busy,
           d.step = "read" => c.route \in Pages,
           d.step = "user" => c.route \notin Pages,
           d.step \in {"signals", "generate"} => d.body # None,
           d.step = "set" /\ d.status = 200 => d.body # None
    PROVE  Sound(d)
<1>1. Question(d) = Question(c) /\ Admitted(d)
    BY DEF Question, Same, Admitted, Sound
<1>2. d.body # None => d.body.age < TTL(d.route) + MaxHandling + d.busy
    BY TTLPositive, ContextFields, HandlingAssumption DEF Same
<1>. QED BY <1>1, <1>2 DEF Sound, Same

\* The question of a request that reaches a handler has an answer's form.
LEMMA QuestionTopic ==
    ASSUME NEW c \in Context, Sound(c),
           c.step = "read" \/ (c.step = "user" /\ c.target \in Users)
    PROVE  Question(c) \in Topic
<1>1. c.claims \in Claims /\ c.claims.uid \in Users
    BY ClaimsAssumption DEF Sound, Admitted
<1>2. CASE c.route = "me"
    BY <1>1, <1>2 DEF Question, Topic, Pages, Routes
<1>3. CASE c.route = "list"
    BY <1>3 DEF Question, Topic
<1>4. CASE c.route = "threat"
    <2>1. c.target \in Users
        BY <1>4 DEF Sound, Pages
    <2>2. "threat" \in Routes
        BY DEF Routes
    <2>. QED BY <1>4, <2>1, <2>2 DEF Question, Topic
<1>. QED BY <1>2, <1>3, <1>4, ContextFields DEF Routes, Pages

-----------------------------------------------------------------------------
(* Every step keeps the invariant *)

LEMMA PathInvInit == PathInit => PathInv
BY DEF PathInit, PathInv, PathTypeOK, EntrySound

LEMMA AtContext ==
    ASSUME PathInv, NEW s \in Slots, ctx[s] # None
    PROVE  ctx[s] \in Context /\ Sound(ctx[s])
BY DEF PathInv, PathTypeOK

LEMMA AskedQuestion ==
    ASSUME NEW s \in Slots
    PROVE  Asked(s) = Question(ctx[s])
BY DEF Asked, Question

\* A step of one request that leaves the cache alone keeps the invariant if the
\* context it leaves behind is well-typed and sound.
LEMMA OneRequest ==
    ASSUME PathInv, NEW s \in Slots, NEW c \in Context \cup {None},
           ctx' = [ctx EXCEPT ![s] = c], UNCHANGED cache, c # None => Sound(c)
    PROVE  PathInv'
<1>1. PathTypeOK'
    BY DEF PathInv, PathTypeOK
<1>2. \A k \in Key : EntrySound(k)'
    BY DEF PathInv, EntrySound
<1>3. \A o \in Slots : ctx'[o] = IF o = s THEN c ELSE ctx[o]
    BY DEF PathInv, PathTypeOK
<1>4. \A o \in Slots : ctx'[o] # None => Sound(ctx'[o])
    BY <1>3 DEF PathInv
<1>5. (\A o \in Slots : ctx[o] # None => Sound(ctx[o]))'
    BY <1>4 DEF Sound, Admitted, Question
<1>. QED BY <1>1, <1>2, <1>5 DEF PathInv

LEMMA FailKeeps ==
    ASSUME PathInv, NEW s \in Slots, ctx[s] # None, ctx[s].step # "audit",
           UNCHANGED cache, NEW code \in Codes \ {200}, NEW cause \in Causes,
           NEW step \in {"set", "audit"}, Fail(s, code, cause, step)
    PROVE  PathInv'
<1>. DEFINE d == Failed(ctx[s], code, cause, step)
<1>1. code \in Codes /\ step \in Steps
    BY DEF Steps
<1>2. Updated(ctx[s], d, code, None, step)
    BY <1>1, AtContext, FailedContext
<1>3. ctx' = [ctx EXCEPT ![s] = d]
    BY DEF Fail, Failed
<1>. HIDE DEF d
<1>4. Sound(d)
    BY <1>2, AtContext, StaysSound DEF Updated
<1>. QED BY <1>2, <1>3, <1>4, OneRequest DEF Updated

LEMMA GotoKeeps ==
    ASSUME PathInv, NEW s \in Slots, ctx[s] # None, ctx[s].step # "audit",
           UNCHANGED cache, NEW step \in Steps, Goto(s, step), step # "set",
           step \in {"signals", "generate"} => ctx[s].body # None,
           step = "read" => ctx[s].route \in Pages,
           step = "user" => ctx[s].route \notin Pages
    PROVE  PathInv'
<1>. DEFINE d == Gone(ctx[s], step)
<1>1. Updated(ctx[s], d, ctx[s].status, ctx[s].body, step)
    BY AtContext, GoneContext
<1>2. ctx' = [ctx EXCEPT ![s] = d]
    BY DEF Goto, Gone
<1>. HIDE DEF d
<1>3. ctx[s].body # None => /\ ctx[s].body.of = Question(ctx[s])
                            /\ ctx[s].body.age \in Nat /\ ctx[s].body.age <= ctx[s].busy
    BY AtContext, ContextFields DEF Sound, Body
<1>4. Sound(d)
    BY <1>1, <1>3, AtContext, StaysSound DEF Updated
<1>. QED BY <1>1, <1>2, <1>4, OneRequest DEF Updated

LEMMA FoundKeeps ==
    ASSUME PathInv, NEW s \in Slots, ctx[s] # None, ctx[s].step # "audit",
           UNCHANGED cache, NEW step \in {"set", "signals"}, NEW code \in {0, 200},
           Found(s, step, code), Question(ctx[s]) \in Topic
    PROVE  PathInv'
<1>. DEFINE b == [of |-> Question(ctx[s]), age |-> 0]
            d == Answered(ctx[s], code, b, step)
<1>1. code \in Codes /\ step \in Steps
    BY DEF Steps, Codes
<1>2. /\ b \in Body \cup {None} /\ b # None
      /\ b.of = Question(ctx[s]) /\ b.age = 0
    BY NoneAssumption DEF Body
<1>3. ctx' = [ctx EXCEPT ![s] = d]
    BY AskedQuestion DEF Found, Answered
<1>. HIDE DEF b
<1>4. Updated(ctx[s], d, code, b, step)
    BY <1>1, <1>2, AtContext, AnsweredContext
<1>. HIDE DEF d
<1>5. ctx[s].busy \in Nat
    BY AtContext, ContextFields, HandlingAssumption
<1>6. Sound(d)
    BY <1>2, <1>4, <1>5, AtContext, StaysSound DEF Updated
<1>. QED BY <1>3, <1>4, <1>6, OneRequest DEF Updated

LEMMA RequestKeeps ==
    ASSUME PathInv, NEW s \in Slots, NEW route \in Routes,
           NEW claims \in Claims \cup {Nobody}, NEW target \in Targets,
           Request(s, route, claims, target)
    PROVE  PathInv'
<1>1. Refused(route, claims) \in Codes
    BY DEF Refused, Codes
<1>2. Refused(route, claims) = 0 =>
          claims \in Claims /\ (route # "me" => claims.role = "admin")
    BY DEF Refused
<1>3. "limit" \in Steps /\ "audit" \in Steps /\ "none" \in Causes /\ 0 \in 0 .. MaxHandling
    BY HandlingAssumption DEF Steps, Causes
<1>. DEFINE c == Arriving(route, claims, target)
<1>4. ctx' = [ctx EXCEPT ![s] = c] /\ UNCHANGED cache
    BY DEF Request
<1>5. "none" \in Charges
    BY DEF Charges
<1>6. c \in Context
    BY <1>1, <1>3, <1>5 DEF Context, Arriving
<1>7. /\ c.step = IF Refused(route, claims) = 0 THEN "limit" ELSE "audit"
      /\ c.route = route /\ c.claims = claims /\ c.body = None
    BY DEF Arriving
<1>8. Sound(c)
    BY <1>2, <1>7 DEF Sound, Admitted
<1>. QED BY <1>4, <1>6, <1>8, OneRequest

LEMMA LimitKeeps ==
    ASSUME PathInv, NEW s \in Slots, RateLimitByRole(s)
    PROVE  PathInv'
<1>1. ctx[s] # None /\ ctx[s].step = "limit" /\ UNCHANGED cache
    BY DEF RateLimitByRole, At
<1>2. ASSUME NEW charge \in Admissions,
             ctx' = [ctx EXCEPT ![s] = [@ EXCEPT !.charge = charge, !.step = "cache"]]
      PROVE  PathInv'
    <2>. DEFINE d == Charged(ctx[s], charge)
    <2>0. charge \in Charges
        BY DEF Admissions, Charges
    <2>1. Updated(ctx[s], d, ctx[s].status, ctx[s].body, "cache")
        BY <1>1, <2>0, AtContext, ChargedContext
    <2>2. ctx' = [ctx EXCEPT ![s] = d]
        BY <1>2 DEF Charged
    <2>. HIDE DEF d
    <2>3. ctx[s].body # None => /\ ctx[s].body.of = Question(ctx[s])
                                /\ ctx[s].body.age \in Nat /\ ctx[s].body.age <= ctx[s].busy
        BY <1>1, AtContext, ContextFields DEF Sound, Body
    <2>4. Sound(d)
        BY <1>1, <2>1, <2>3, AtContext, StaysSound DEF Updated
    <2>. QED BY <1>1, <2>1, <2>2, <2>4, OneRequest DEF Updated
<1>3. CASE Fail(s, IF ctx[s].claims.role \in Roles THEN 429 ELSE 403, "none", "audit")
    <2>. DEFINE code == IF ctx[s].claims.role \in Roles THEN 429 ELSE 403
    <2>1. code \in Codes \ {200} /\ "none" \in Causes
        BY DEF Codes, Causes
    <2>2. Fail(s, code, "none", "audit")
        BY <1>3
    <2>. HIDE DEF code
    <2>. QED BY <1>1, <2>1, <2>2, FailKeeps
<1>. QED BY <1>2, <1>3 DEF RateLimitByRole

\* A hit: the entry's own soundness becomes the request's.
LEMMA CacheGetKeeps ==
    ASSUME PathInv, NEW s \in Slots, CacheGet(s)
    PROVE  PathInv'
<1>1. ctx[s] # None /\ ctx[s].step = "cache" /\ UNCHANGED cache
    BY DEF CacheGet, At
<1>. DEFINE key == CacheKey(s)
<1>2. CASE Miss(s)
    BY <1>1, <1>2, GotoKeeps DEF Miss, Steps, Pages
<1>3. CASE /\ key \in Key /\ cache[key] # None
           /\ ctx' = [ctx EXCEPT ![s] =
                         [@ EXCEPT !.status = cache[key].status,
                                   !.step = "audit", !.body = cache[key].body]]
    <2>. DEFINE e == cache[key]
                d == Answered(ctx[s], e.status, e.body, "audit")
    <2>1. /\ e.left \in Nat \ {0} /\ e.status \in Codes
          /\ e.body \in Body \cup {None} /\ e.body # None /\ e.body.age \in Nat
          /\ e.body.of = About(key)
          /\ e.body.age + e.left <= MaxHandling + TTL(key[1])
        BY <1>3, NoneAssumption DEF PathInv, PathTypeOK, EntrySound, Entry, Body
    <2>2. key[1] = ctx[s].route
        BY DEF CacheKey
    <2>3. About(key) = Question(ctx[s])
        BY <1>1, AtContext, ContextFields DEF About, CacheKey, Question, Pages, Routes
    <2>4. ctx' = [ctx EXCEPT ![s] = d]
        BY <1>3 DEF Answered
    <2>5. "audit" \in Steps
        BY DEF Steps
    <2>. HIDE DEF key, e
    <2>6. Updated(ctx[s], d, e.status, e.body, "audit")
        BY <1>1, <2>1, <2>5, AtContext, AnsweredContext
    <2>. HIDE DEF d
    <2>7. e.body.age < TTL(ctx[s].route) + MaxHandling + ctx[s].busy
        <3>1. ctx[s].busy \in Nat /\ TTL(ctx[s].route) \in Nat
            BY <1>1, AtContext, ContextFields, TTLPositive, HandlingAssumption
        <3>2. e.body.age + e.left <= MaxHandling + TTL(ctx[s].route)
            BY <2>1, <2>2
        <3>3. e.body.age \in Nat /\ e.left \in Nat \ {0}
            BY <2>1
        <3>. QED BY <3>1, <3>2, <3>3, HandlingAssumption
    <2>8. Admitted(ctx[s])
        BY <1>1, AtContext DEF Sound
    <2>9. Admitted(d) /\ Question(d) = Question(ctx[s])
        BY <2>6, <2>8 DEF Admitted, Question, Same, Updated
    <2>10. Sound(d)
        BY <2>1, <2>3, <2>6, <2>7, <2>9 DEF Sound, Same, Updated
    <2>. QED BY <1>1, <2>4, <2>6, <2>10, OneRequest DEF Updated
<1>. QED BY <1>2, <1>3 DEF CacheGet

\* A store: the request's soundness becomes the entry's.
LEMMA CacheSetKeeps ==
    ASSUME PathInv, NEW s \in Slots, CacheSet(s)
    PROVE  PathInv'
<1>1. ctx[s] # None /\ ctx[s].step = "set" /\ Goto(s, "audit")
    BY DEF CacheSet, At
<1>2. CASE UNCHANGED cache
    BY <1>1, <1>2, GotoKeeps DEF Steps
<1>3. CASE ctx[s].status = 200 /\ Store(s)
    <2>. DEFINE key == CacheKey(s)
                e == [status |-> ctx[s].status, body |-> ctx[s].body,
                      left |-> TTL(ctx[s].route)]
                d == Gone(ctx[s], "audit")
    <2>1. cache' = [cache EXCEPT ![key] = e] /\ ctx' = [ctx EXCEPT ![s] = d]
        BY <1>1, <1>3 DEF Store, Goto, Gone
    <2>2. /\ ctx[s].body \in Body /\ ctx[s].body.of = Question(ctx[s])
          /\ ctx[s].body.age <= ctx[s].busy /\ ctx[s].busy <= MaxHandling
          /\ ctx[s].body.age \in Nat /\ ctx[s].busy \in Nat
        BY <1>1, <1>3, AtContext, ContextFields, HandlingAssumption DEF Sound, Body
    <2>3. e \in Entry
        BY <1>1, <2>2, AtContext, ContextFields, TTLPositive DEF Entry
    <2>4. key[1] = ctx[s].route /\ e.body = ctx[s].body /\ e.left = TTL(ctx[s].route)
        BY DEF CacheKey
    <2>5. About(key) = Question(ctx[s])
        BY <1>1, AtContext, ContextFields DEF About, CacheKey, Question, Pages, Routes
    <2>6. "audit" \in Steps
        BY DEF Steps
    <2>7. Updated(ctx[s], d, ctx[s].status, ctx[s].body, "audit")
        BY <1>1, <2>6, AtContext, GoneContext
    <2>. HIDE DEF key, e, d
    <2>8. Sound(d)
        BY <1>1, <2>2, <2>7, AtContext, StaysSound DEF Updated
    <2>9. PathTypeOK'
        BY <2>1, <2>3, <2>7 DEF PathInv, PathTypeOK, Updated
    <2>10. ASSUME NEW k \in Key PROVE EntrySound(k)'
        <3>1. cache'[k] = IF k = key THEN e ELSE cache[k]
            BY <2>1 DEF PathInv, PathTypeOK
        <3>2. CASE k = key
            <4>1. ctx[s].body.age + TTL(ctx[s].route) <= MaxHandling + TTL(ctx[s].route)
                BY <2>2, TTLPositive, HandlingAssumption
            <4>2. /\ cache'[k].body \in Body
                  /\ cache'[k].body.of = About(k)
                  /\ cache'[k].body.age + cache'[k].left <= MaxHandling + TTL(k[1])
                BY <3>1, <3>2, <4>1, <2>2, <2>4, <2>5
            <4>. QED BY <4>2 DEF EntrySound, About, TTL
        <3>3. CASE k # key
            BY <3>1, <3>3 DEF PathInv, EntrySound
        <3>. QED BY <3>2, <3>3
    <2>11. \A o \in Slots : ctx'[o] = IF o = s THEN d ELSE ctx[o]
        BY <2>1 DEF PathInv, PathTypeOK
    <2>12. \A o \in Slots : ctx'[o] # None => Sound(ctx'[o])
        BY <2>8, <2>11 DEF PathInv
    <2>13. (\A o \in Slots : ctx[o] # None => Sound(ctx[o]))'
        BY <2>12 DEF Sound, Admitted, Question
    <2>. QED BY <2>9, <2>10, <2>13 DEF PathInv
<1>. QED BY <1>2, <1>3 DEF CacheSet

LEMMA HandlersKeep ==
    ASSUME PathInv, NEW s \in Slots,
           ReadPage(s) \/ FindTarget(s) \/ ListSignals(s) \/ Generate(s) \/ BadTarget(s)
    PROVE  PathInv'
<1>1. /\ ctx[s] # None /\ UNCHANGED cache /\ ctx[s].step # "audit"
      /\ ctx[s].step \in {"cache", "read", "user", "signals", "generate"}
    BY DEF ReadPage, FindTarget, ListSignals, Generate, BadTarget, At
<1>2. CASE \E code \in {400, 404, 500, 503}, cause \in Causes,
              step \in {"set", "audit"} : Fail(s, code, cause, step)
    <2>1. PICK code \in {400, 404, 500, 503}, cause \in Causes,
               step \in {"set", "audit"} : Fail(s, code, cause, step)
        BY <1>2
    <2>2. code \in Codes \ {200}
        BY DEF Codes
    <2>. QED BY <1>1, <2>1, <2>2, FailKeeps
<1>3. CASE ctx[s].step = "read" /\ Found(s, "set", 200)
    <2>0. ctx[s] \in Context /\ Sound(ctx[s])
        BY <1>1, AtContext
    <2>1. Question(ctx[s]) \in Topic
        BY <1>3, <2>0, QuestionTopic
    <2>2. "set" \in {"set", "signals"} /\ 200 \in {0, 200}
        OBVIOUS
    <2>. QED BY <1>1, <1>3, <2>1, <2>2, FoundKeeps
<1>4. CASE ctx[s].step = "user" /\ ctx[s].target \in Users /\ Found(s, "signals", 0)
    BY <1>1, <1>4, AtContext, FoundKeeps, QuestionTopic
<1>5. CASE ctx[s].step = "signals" /\ Goto(s, "generate")
    <2>1. ctx[s].body # None
        BY <1>1, <1>5, AtContext DEF Sound
    <2>2. "generate" \in Steps
        BY DEF Steps
    <2>. QED BY <1>1, <1>5, <2>1, <2>2, GotoKeeps
<1>6. CASE ctx[s].step = "generate"
           /\ ctx' = [ctx EXCEPT ![s] = [@ EXCEPT !.status = 200, !.step = "set"]]
    <2>. DEFINE d == Generated(ctx[s])
    <2>1. Updated(ctx[s], d, 200, ctx[s].body, "set")
        BY <1>1, AtContext, GeneratedContext
    <2>2. ctx' = [ctx EXCEPT ![s] = d]
        BY <1>6 DEF Generated
    <2>. HIDE DEF d
    <2>3. /\ ctx[s].body # None /\ ctx[s].body.of = Question(ctx[s])
          /\ ctx[s].body.age \in Nat /\ ctx[s].body.age <= ctx[s].busy
        BY <1>1, <1>6, AtContext, ContextFields DEF Sound, Body
    <2>4. Sound(d)
        BY <1>1, <2>1, <2>3, AtContext, StaysSound DEF Updated
    <2>. QED BY <1>1, <2>1, <2>2, <2>4, OneRequest DEF Updated
<1>7. "none" \in Causes /\ "db" \in Causes /\ "llm" \in Causes /\ "absent" \in Causes
    BY DEF Causes
<1>. QED BY <1>2, <1>3, <1>4, <1>5, <1>6, <1>7
         DEF ReadPage, FindTarget, ListSignals, Generate, BadTarget, At

LEMMA LeavingKeeps ==
    ASSUME PathInv, NEW s \in Slots, Audit(s) \/ Panic(s) \/ Cut(s)
    PROVE  PathInv'
<1>1. ctx' = [ctx EXCEPT ![s] = None] /\ UNCHANGED cache
    BY DEF Audit, Panic, Cut
<1>. QED BY <1>1, OneRequest

LEMMA DropKeeps ==
    ASSUME PathInv, NEW key \in Key, Drop(key)
    PROVE  PathInv'
<1>1. UNCHANGED ctx /\ cache' = [cache EXCEPT ![key] = None]
    BY DEF Drop
<1>2. PathTypeOK'
    BY <1>1 DEF PathInv, PathTypeOK
<1>3. ASSUME NEW k \in Key PROVE EntrySound(k)'
    <2>1. cache'[k] = None \/ cache'[k] = cache[k]
        BY <1>1 DEF PathInv, PathTypeOK
    <2>. QED BY <2>1 DEF PathInv, EntrySound
<1>4. (\A o \in Slots : ctx[o] # None => Sound(ctx[o]))'
    BY <1>1 DEF PathInv, Sound, Admitted, Question
<1>. QED BY <1>2, <1>3, <1>4 DEF PathInv

\* A tick moves every age and every remaining lifetime by one.
LEMMA OlderBody ==
    ASSUME NEW b \in Body
    PROVE  /\ Older(b) \in Body /\ Older(b) # None
           /\ Older(b).of = b.of /\ b.age \in Nat /\ Older(b).age = b.age + 1
BY NoneAssumption DEF Older, Body

OlderContext(c) == [c EXCEPT !.busy = @ + 1, !.body = Older(@)]
OlderEntry(e) == [e EXCEPT !.left = @ - 1, !.body = Older(@)]

LEMMA OlderContextSound ==
    ASSUME NEW c \in Context, Sound(c), c.busy < MaxHandling
    PROVE  OlderContext(c) \in Context /\ Sound(OlderContext(c))
<1>. DEFINE d == OlderContext(c)
<1>1. c.busy \in Nat /\ c.busy + 1 \in 0 .. MaxHandling
    BY ContextFields, HandlingAssumption
<1>2. Older(c.body) \in Body \cup {None}
    BY ContextFields, OlderBody DEF Older
<1>3. d \in Context
    BY <1>1, <1>2 DEF Context, OlderContext
<1>4. /\ d.step = c.step /\ d.route = c.route /\ d.claims = c.claims
      /\ d.target = c.target /\ d.status = c.status
    BY DEF Context, OlderContext
<1>5. d.busy = c.busy + 1 /\ d.body = Older(c.body)
    BY DEF Context, OlderContext
<1>6. c.body = None <=> d.body = None
    BY <1>5, ContextFields, OlderBody DEF Older
<1>7. c.body # None => /\ d.body.of = c.body.of /\ c.body.age \in Nat
                       /\ d.body.age = c.body.age + 1
    BY <1>5, ContextFields, OlderBody
<1>. HIDE DEF d
<1>8. Question(d) = Question(c) /\ (Admitted(d) <=> Admitted(c))
    BY <1>4 DEF Question, Admitted
<1>9. d.body # None =>
          /\ d.body.age < TTL(d.route) + MaxHandling + d.busy
          /\ d.step # "audit" => d.body.age <= d.busy
    <2>1. SUFFICES ASSUME d.body # None
                   PROVE  /\ d.body.age < TTL(d.route) + MaxHandling + d.busy
                          /\ d.step # "audit" => d.body.age <= d.busy
        OBVIOUS
    <2>2. /\ c.body # None /\ c.body.age < TTL(c.route) + MaxHandling + c.busy
          /\ c.step # "audit" => c.body.age <= c.busy
        BY <1>6, <2>1 DEF Sound
    <2>3. TTL(c.route) \in Nat
        BY TTLPositive
    <2>. QED BY <1>1, <1>4, <1>5, <1>7, <2>2, <2>3, HandlingAssumption
<1>10. Sound(d)
    <2>1. /\ d.body # None => d.body.of = Question(d)
          /\ d.step # "audit" \/ d.body # None => Admitted(d)
        BY <1>4, <1>6, <1>7, <1>8 DEF Sound
    <2>. QED BY <1>4, <1>6, <1>9, <2>1 DEF Sound
<1>. QED BY <1>3, <1>10 DEF d

LEMMA OlderEntryType ==
    ASSUME NEW e \in Entry, e.left # 1
    PROVE  /\ OlderEntry(e) \in Entry
           /\ OlderEntry(e).body = Older(e.body)
           /\ e.left \in Nat /\ OlderEntry(e).left = e.left - 1
<1>1. e.left - 1 \in Nat \ {0} /\ Older(e.body) \in Body \cup {None}
    BY OlderBody DEF Entry, Older
<1>. QED BY <1>1 DEF Entry, OlderEntry

LEMMA TickKeeps ==
    ASSUME PathInv, PathTick
    PROVE  PathInv'
<1>1. ASSUME NEW s \in Slots
      PROVE  /\ ctx'[s] \in Context \cup {None}
             /\ ctx'[s] # None => Sound(ctx'[s])
    <2>1. CASE ctx[s] = None
        BY <2>1 DEF PathTick
    <2>2. CASE ctx[s] # None
        <3>1. ctx'[s] = OlderContext(ctx[s]) /\ ctx[s].busy < MaxHandling
            BY <2>2 DEF PathTick, OlderContext
        <3>. QED BY <2>2, <3>1, AtContext, OlderContextSound
    <2>. QED BY <2>1, <2>2
<1>2. ASSUME NEW k \in Key
      PROVE  cache'[k] \in Entry \cup {None} /\ EntrySound(k)'
    <2>1. CASE cache[k] = None \/ cache[k].left = 1
        <3>1. cache'[k] = None
            BY <2>1 DEF PathTick
        <3>. QED BY <3>1 DEF EntrySound
    <2>2. CASE ~(cache[k] = None \/ cache[k].left = 1)
        <3>1. cache'[k] = OlderEntry(cache[k])
            BY <2>2 DEF PathTick, OlderEntry
        <3>2. cache[k] \in Entry
            BY <2>2 DEF PathInv, PathTypeOK
        <3>3. /\ cache[k].body \in Body /\ cache[k].body.of = About(k)
              /\ cache[k].body.age + cache[k].left <= MaxHandling + TTL(k[1])
            BY <2>2 DEF PathInv, EntrySound
        <3>4. /\ cache'[k] \in Entry /\ cache'[k].body = Older(cache[k].body)
              /\ cache[k].left \in Nat /\ cache'[k].left = cache[k].left - 1
            BY <2>2, <3>1, <3>2, OlderEntryType
        <3>5. /\ cache'[k].body \in Body /\ cache'[k].body.of = About(k)
              /\ cache[k].body.age \in Nat
              /\ cache'[k].body.age = cache[k].body.age + 1
            BY <3>3, <3>4, OlderBody
        <3>6. cache'[k].body.age + cache'[k].left = cache[k].body.age + cache[k].left
            BY <3>4, <3>5
        <3>. QED BY <3>3, <3>4, <3>5, <3>6 DEF EntrySound, About, TTL
    <2>. QED BY <2>1, <2>2
<1>3. PathTypeOK'
    <2>1. /\ ctx' = [s \in Slots |-> ctx'[s]]
          /\ cache' = [k \in Key |-> cache'[k]]
        BY DEF PathTick
    <2>. QED BY <1>1, <1>2, <2>1 DEF PathTypeOK
<1>4. (\A s \in Slots : ctx[s] # None => Sound(ctx[s]))'
    BY <1>1 DEF Sound, Admitted, Question
<1>. QED BY <1>2, <1>3, <1>4 DEF PathInv

LEMMA PathInvStep == PathInv /\ [PathNext]_pathvars => PathInv'
<1>1. SUFFICES ASSUME PathInv, [PathNext]_pathvars PROVE PathInv'
    OBVIOUS
<1>2. CASE UNCHANGED pathvars
    <2>1. ctx' = ctx /\ cache' = cache
        BY <1>2 DEF pathvars
    <2>. QED BY <1>1, <2>1 DEF PathInv, PathTypeOK, EntrySound, Sound, Admitted, Question
<1>3. ASSUME NEW s \in Slots, Arrives(s) PROVE PathInv'
    <2>1. \A bearer \in Bearers \cup {None} : Auth(bearer) \in Claims \cup {Nobody}
        BY DEF Auth, ParseAccessToken, Bearers
    <2>. QED BY <1>1, <1>3, <2>1, RequestKeeps DEF Arrives
<1>4. ASSUME NEW s \in Slots, Goes(s) \/ Panic(s) \/ Cut(s)
      PROVE  PathInv'
    BY <1>1, <1>4, LimitKeeps, CacheGetKeeps, CacheSetKeeps, HandlersKeep, LeavingKeeps
       DEF Goes
<1>5. ASSUME NEW k \in Key, Drop(k) PROVE PathInv'
    BY <1>1, <1>5, DropKeeps
<1>6. CASE PathTick
    BY <1>1, <1>6, TickKeeps
<1>. QED BY <1>1, <1>2, <1>3, <1>4, <1>5, <1>6 DEF PathNext

LEMMA PathInvAlways == PathSpec => []PathInv
BY PathInvInit, PathInvStep, PTL DEF PathSpec

\* Whatever requests share the caches, and in whatever order they read and store,
\* data goes to whom it is meant for (response_cache.go's key per caller,
\* threat_service.go's key per user).
THEOREM AnswersStayHome == PathSpec => []AnswersBelong
<1>1. PathInv => AnswersBelong
    <2>1. SUFFICES ASSUME PathInv, NEW s \in Slots, ctx[s] # None, ctx[s].body # None
                   PROVE  /\ ctx[s].claims # Nobody
                          /\ ctx[s].body.of = Asked(s)
                          /\ ctx[s].route # "me" => ctx[s].claims.role = "admin"
        BY DEF AnswersBelong
    <2>. QED BY <2>1, AtContext, AskedQuestion, IdsAssumption DEF Sound, Admitted
<1>. QED BY <1>1, PathInvAlways, PTL

\* An answer from either cache is no older than a lifetime and the handling of
\* the request that filled the entry, whichever store came last.
THEOREM AnswersStayFresh == PathSpec => []AnswersFresh
<1>1. PathInv => AnswersFresh
    BY AtContext DEF AnswersFresh, Sound
<1>. QED BY <1>1, PathInvAlways, PTL

\* Every kind of request keeps its types through every step of the chain.
THEOREM PathTypeCorrect == PathSpec => []PathTypeOK
<1>1. PathInv => PathTypeOK
    BY DEF PathInv
<1>. QED BY <1>1, PathInvAlways, PTL

-----------------------------------------------------------------------------
(* Failures and charges *)

\* Why a request failed agrees with its status, and it has passed the limiter before
\* it reaches the caches.
Fair(c) ==
    /\ c.step \notin {"limit", "audit"} \/ c.status = 200 => c.charge \in Admissions
    /\ c.status = 500 => c.cause = "db"
    /\ c.status = 503 => c.cause = "llm"
    /\ c.status = 404 => c.cause = "absent"

\* None but good answers are stored.
GoodEntries == \A k \in Key : cache[k] # None => cache[k].status = 200

FairInv ==
    /\ PathTypeOK
    /\ GoodEntries
    /\ \A s \in Slots : ctx[s] # None => Fair(ctx[s])

\* A step of one request that leaves the cache as it is.
LEMMA FairRequest ==
    ASSUME FairInv, PathTypeOK', NEW s \in Slots, NEW c,
           ctx' = [ctx EXCEPT ![s] = c], UNCHANGED cache, c # None => Fair(c)
    PROVE  FairInv'
<1>1. \A o \in Slots : ctx'[o] = IF o = s THEN c ELSE ctx[o]
    BY DEF FairInv, PathTypeOK
<1>2. (\A o \in Slots : ctx[o] # None => Fair(ctx[o]))'
    BY <1>1 DEF FairInv, Fair
<1>3. GoodEntries'
    BY DEF FairInv, GoodEntries
<1>. QED BY <1>2, <1>3 DEF FairInv

LEMMA FairFailure ==
    ASSUME FairInv, PathTypeOK', NEW s \in Slots, ctx[s] # None, UNCHANGED cache,
           NEW code, NEW cause, NEW step \in {"set", "audit"},
           Fail(s, code, cause, step), code # 200,
           step = "set" => ctx[s].charge \in Admissions,
           code = 500 => cause = "db", code = 503 => cause = "llm",
           code = 404 => cause = "absent"
    PROVE  FairInv'
<1>. DEFINE c == Failed(ctx[s], code, cause, step)
<1>1. /\ c.status = code /\ c.cause = cause /\ c.step = step
      /\ c.charge = ctx[s].charge
    BY DEF FairInv, PathTypeOK, Context, Failed
<1>2. ctx' = [ctx EXCEPT ![s] = c]
    BY DEF Fail, Failed
<1>. HIDE DEF c
<1>3. Fair(c)
    BY <1>1 DEF Fair
<1>. QED BY <1>2, <1>3, FairRequest

\* A request that was let pass goes on without an answer, or with a 200.
LEMMA FairAnswer ==
    ASSUME FairInv, PathTypeOK', NEW s \in Slots, UNCHANGED cache,
           NEW c, c.charge \in Admissions, c.status \in {0, 200},
           ctx' = [ctx EXCEPT ![s] = c]
    PROVE  FairInv'
<1>1. Fair(c)
    BY DEF Fair
<1>. QED BY <1>1, FairRequest

LEMMA AnsweredFields ==
    ASSUME NEW c \in Context, NEW status, NEW body, NEW step
    PROVE  /\ Answered(c, status, body, step).status = status
           /\ Answered(c, status, body, step).charge = c.charge
BY DEF Context, Answered

LEMMA FairGoto ==
    ASSUME FairInv, PathTypeOK', NEW s \in Slots, UNCHANGED cache,
           ctx[s] # None, ctx[s].charge \in Admissions, NEW step, Goto(s, step)
    PROVE  FairInv'
<1>. DEFINE c == Gone(ctx[s], step)
<1>1. c.status = ctx[s].status /\ c.charge = ctx[s].charge /\ c.cause = ctx[s].cause
    BY DEF FairInv, PathTypeOK, Context, Gone
<1>2. ctx' = [ctx EXCEPT ![s] = c]
    BY DEF Goto, Gone
<1>. HIDE DEF c
<1>3. Fair(c)
    BY <1>1 DEF FairInv, Fair
<1>. QED BY <1>2, <1>3, FairRequest

\* Past the limiter and before Audit, a request has its admission.
LEMMA UnderWayAdmitted ==
    ASSUME FairInv, NEW s \in Slots, ctx[s] # None,
           ctx[s].step \notin {"limit", "audit"}
    PROVE  ctx[s].charge \in Admissions
BY DEF FairInv, Fair

LEMMA FairArrival ==
    ASSUME FairInv, PathTypeOK', NEW s \in Slots, Arrives(s)
    PROVE  FairInv'
<1>1. PICK route \in Routes, claims \in {Auth(bearer) : bearer \in Bearers \cup {None}},
           target \in Targets : Request(s, route, claims, target)
    BY DEF Arrives
<1>2. ctx' = [ctx EXCEPT ![s] = Arriving(route, claims, target)] /\ UNCHANGED cache
    BY <1>1 DEF Request
<1>3. Fair(Arriving(route, claims, target))
    BY DEF Fair, Arriving, Refused
<1>. QED BY <1>2, <1>3, FairRequest

LEMMA FairLimit ==
    ASSUME FairInv, PathTypeOK', NEW s \in Slots, RateLimitByRole(s)
    PROVE  FairInv'
<1>1. ctx[s] # None /\ UNCHANGED cache
    BY DEF RateLimitByRole, At
<1>2. CASE Fail(s, IF ctx[s].claims.role \in Roles THEN 429 ELSE 403, "none", "audit")
    BY <1>1, <1>2, FairFailure
<1>3. ASSUME NEW charge \in Admissions,
             ctx' = [ctx EXCEPT ![s] = [@ EXCEPT !.charge = charge, !.step = "cache"]]
      PROVE  FairInv'
    <2>. DEFINE c == Charged(ctx[s], charge)
    <2>1. c.status = ctx[s].status /\ c.cause = ctx[s].cause /\ c.charge = charge
        BY <1>1 DEF FairInv, PathTypeOK, Context, Charged
    <2>2. ctx' = [ctx EXCEPT ![s] = c]
        BY <1>3 DEF Charged
    <2>. HIDE DEF c
    <2>3. Fair(c)
        BY <1>1, <2>1 DEF FairInv, Fair
    <2>. QED BY <1>1, <2>2, <2>3, FairRequest
<1>. QED BY <1>2, <1>3 DEF RateLimitByRole

LEMMA FairCacheGet ==
    ASSUME FairInv, PathTypeOK', NEW s \in Slots, CacheGet(s)
    PROVE  FairInv'
<1>1. ctx[s] # None /\ ctx[s].step = "cache" /\ UNCHANGED cache
    BY DEF CacheGet, At
<1>2. ctx[s].charge \in Admissions
    BY <1>1, UnderWayAdmitted
<1>. DEFINE key == CacheKey(s)
<1>3. CASE Miss(s)
    BY <1>1, <1>2, <1>3, FairGoto DEF Miss
<1>4. CASE /\ key \in Key /\ cache[key] # None
           /\ ctx' = [ctx EXCEPT ![s] =
                         [@ EXCEPT !.status = cache[key].status,
                                   !.step = "audit", !.body = cache[key].body]]
    <2>1. cache[key].status = 200
        BY <1>4 DEF FairInv, GoodEntries
    <2>. DEFINE c == Answered(ctx[s], 200, cache[key].body, "audit")
    <2>2. ctx' = [ctx EXCEPT ![s] = c]
        BY <1>4, <2>1 DEF Answered
    <2>3. c.status = 200 /\ c.charge = ctx[s].charge
        BY <1>1, <1>2, AnsweredFields DEF FairInv, PathTypeOK
    <2>. HIDE DEF c
    <2>. QED BY <1>1, <1>2, <2>2, <2>3, FairAnswer
<1>. QED BY <1>3, <1>4 DEF CacheGet

LEMMA FairCacheSet ==
    ASSUME FairInv, PathTypeOK', NEW s \in Slots, CacheSet(s)
    PROVE  FairInv'
<1>1. ctx[s] # None /\ ctx[s].step = "set" /\ Goto(s, "audit")
    BY DEF CacheSet, At
<1>2. ctx[s].charge \in Admissions
    BY <1>1, UnderWayAdmitted
<1>3. CASE UNCHANGED cache
    BY <1>1, <1>2, <1>3, FairGoto
<1>4. CASE ctx[s].status = 200 /\ Store(s)
    <2>. DEFINE c == Gone(ctx[s], "audit")
    <2>1. c.status = 200 /\ c.charge = ctx[s].charge
        BY <1>1, <1>4 DEF FairInv, PathTypeOK, Context, Gone
    <2>2. ctx' = [ctx EXCEPT ![s] = c]
        BY <1>1 DEF Goto, Gone
    <2>. HIDE DEF c
    <2>3. Fair(c)
        BY <1>2, <2>1 DEF Fair
    <2>4. \A o \in Slots : ctx'[o] = IF o = s THEN c ELSE ctx[o]
        BY <2>2 DEF FairInv, PathTypeOK
    <2>5. (\A o \in Slots : ctx[o] # None => Fair(ctx[o]))'
        BY <2>3, <2>4 DEF FairInv, Fair
    <2>6. GoodEntries'
        BY <1>4 DEF Store, FairInv, PathTypeOK, GoodEntries
    <2>. QED BY <2>5, <2>6 DEF FairInv
<1>. QED BY <1>3, <1>4 DEF CacheSet

LEMMA FairHandlers ==
    ASSUME FairInv, PathTypeOK', NEW s \in Slots,
           ReadPage(s) \/ FindTarget(s) \/ ListSignals(s) \/ Generate(s) \/ BadTarget(s)
    PROVE  FairInv'
<1>1. ctx[s] # None /\ UNCHANGED cache /\ ctx[s].step \notin {"limit", "audit"}
    BY DEF ReadPage, FindTarget, ListSignals, Generate, BadTarget, At
<1>2. ctx[s].charge \in Admissions
    BY <1>1, UnderWayAdmitted
<1>3. CASE \/ Fail(s, 500, "db", "set") \/ Fail(s, 500, "db", "audit")
           \/ Fail(s, 404, "absent", "audit") \/ Fail(s, 503, "llm", "audit")
           \/ Fail(s, 400, "none", "audit")
    BY <1>1, <1>2, <1>3, FairFailure
<1>4. ASSUME NEW step, NEW code \in {0, 200}, Found(s, step, code) PROVE FairInv'
    <2>. DEFINE c == Answered(ctx[s], code, [of |-> Asked(s), age |-> 0], step)
    <2>1. ctx' = [ctx EXCEPT ![s] = c]
        BY <1>4 DEF Found, Answered
    <2>2. c.status = code /\ c.charge = ctx[s].charge
        BY <1>1, <1>2, AnsweredFields DEF FairInv, PathTypeOK
    <2>. HIDE DEF c
    <2>. QED BY <1>1, <1>2, <2>1, <2>2, FairAnswer
<1>5. CASE Goto(s, "generate")
    BY <1>1, <1>2, <1>5, FairGoto
<1>6. CASE ctx' = [ctx EXCEPT ![s] = [@ EXCEPT !.status = 200, !.step = "set"]]
    <2>. DEFINE c == Generated(ctx[s])
    <2>1. c.status = 200 /\ c.charge = ctx[s].charge
        BY <1>1 DEF FairInv, PathTypeOK, Context, Generated
    <2>2. ctx' = [ctx EXCEPT ![s] = c]
        BY <1>6 DEF Generated
    <2>. HIDE DEF c
    <2>. QED BY <1>1, <1>2, <2>1, <2>2, FairAnswer
<1>. QED BY <1>3, <1>4, <1>5, <1>6
         DEF ReadPage, FindTarget, ListSignals, Generate, BadTarget

LEMMA FairStop ==
    ASSUME FairInv, PathTypeOK', NEW s \in Slots, Audit(s) \/ Panic(s) \/ Cut(s)
    PROVE  FairInv'
BY FairRequest DEF Audit, Panic, Cut

LEMMA FairTick ==
    ASSUME FairInv, PathTypeOK', PathTick
    PROVE  FairInv'
<1>1. ASSUME NEW s \in Slots, ctx'[s] # None PROVE Fair(ctx'[s])
    <2>1. ctx[s] # None /\ ctx'[s] = OlderContext(ctx[s])
        BY <1>1 DEF PathTick, OlderContext
    <2>. DEFINE c == OlderContext(ctx[s])
    <2>2. /\ c.step = ctx[s].step /\ c.status = ctx[s].status
          /\ c.charge = ctx[s].charge /\ c.cause = ctx[s].cause
        BY <2>1 DEF FairInv, PathTypeOK, Context, OlderContext
    <2>. HIDE DEF c
    <2>3. Fair(c)
        BY <2>1, <2>2 DEF FairInv, Fair
    <2>. QED BY <2>1, <2>3 DEF c
<1>2. (\A s \in Slots : ctx[s] # None => Fair(ctx[s]))'
    BY <1>1 DEF Fair
<1>3. ASSUME NEW k \in Key, cache'[k] # None PROVE cache'[k].status = 200
    <2>1. cache[k] # None /\ cache'[k] = OlderEntry(cache[k])
        BY <1>3 DEF PathTick, OlderEntry
    <2>2. cache[k] \in Entry /\ cache[k].status = 200
        BY <2>1 DEF FairInv, PathTypeOK, GoodEntries
    <2>. QED BY <2>1, <2>2 DEF Entry, OlderEntry
<1>4. GoodEntries'
    BY <1>3 DEF GoodEntries
<1>. QED BY <1>2, <1>4 DEF FairInv

LEMMA FairDrop ==
    ASSUME FairInv, PathTypeOK', NEW key \in Key, Drop(key)
    PROVE  FairInv'
<1>1. UNCHANGED ctx /\ cache' = [cache EXCEPT ![key] = None]
    BY DEF Drop
<1>2. GoodEntries'
    BY <1>1 DEF FairInv, PathTypeOK, GoodEntries
<1>3. (\A s \in Slots : ctx[s] # None => Fair(ctx[s]))'
    BY <1>1 DEF FairInv, Fair
<1>. QED BY <1>2, <1>3 DEF FairInv

LEMMA FairInvStep == FairInv /\ PathTypeOK' /\ [PathNext]_pathvars => FairInv'
<1>1. SUFFICES ASSUME FairInv, PathTypeOK', [PathNext]_pathvars PROVE FairInv'
    OBVIOUS
<1>2. CASE UNCHANGED pathvars
    BY <1>1, <1>2 DEF pathvars, FairInv, GoodEntries, Fair
<1>3. ASSUME NEW s \in Slots,
             Arrives(s) \/ Goes(s) \/ Panic(s) \/ Cut(s)
      PROVE  FairInv'
    BY <1>1, <1>3, FairArrival, FairLimit, FairCacheGet, FairCacheSet, FairHandlers,
       FairStop DEF Goes
<1>4. ASSUME NEW k \in Key, Drop(k) PROVE FairInv'
    BY <1>1, <1>4, FairDrop
<1>. QED BY <1>1, <1>2, <1>3, <1>4, FairTick DEF PathNext

LEMMA FairInvAlways == PathSpec => []FairInv
<1>1. PathInit => FairInv
    BY PathInvInit DEF PathInit, FairInv, PathInv, GoodEntries
<1>. QED BY <1>1, FairInvStep, PathTypeCorrect, PTL DEF PathSpec

\* No request fails for another's failure, nor for an unavailable Redis: what a
\* cache replays succeeded (response_cache.go stores a 200 only).
THEOREM FailuresStayOwn == PathSpec => []FailuresAreOwn
<1>1. FairInv => FailuresAreOwn
    BY DEF FairInv, Fair, FailuresAreOwn
<1>. QED BY <1>1, FairInvAlways, PTL

\* The limiter stands before the caches: no answer goes round it, not even a hit, and
\* where Redis answers the limiter every answer took a token.
THEOREM AnswersAreCharged == PathSpec => []HitsAreCharged
<1>1. FairInv => HitsAreCharged
    BY DEF FairInv, Fair, Admissions, HitsAreCharged
<1>. QED BY <1>1, FairInvAlways, PTL

=============================================================================
