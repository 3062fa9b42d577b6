------------------------------ MODULE ReadPath ------------------------------
(***************************************************************************)
(* The authenticated GETs, /auth/me, /admin/users and                        *)
(* /admin/users/:id/threat-summary: the middleware chain internal/router     *)
(* puts around them, the response cache two of them go through, and the      *)
(* threat summary with a cache of its own.  Requests run concurrently over   *)
(* all pods, which may end under them; the cache in Redis is what they share. *)
(*                                                                          *)
(* Data.  A body is what it is about and how long ago the first of its rows  *)
(* was read.  The rows themselves are free to change at any moment.          *)
(***************************************************************************)
EXTENDS Integers

CONSTANTS
    Slots,        \* slots for concurrent requests, over all pods
    Users,        \* ids of users with a row
    Claims,       \* the [uid, role] of the access tokens that are valid
    PageTTL,      \* CACHE_TTL, in ticks
    SummaryTTL,   \* LLM_SUMMARY_TTL, in ticks
    MaxHandling,  \* assumption: the longest a request is under way
    Nobody,       \* no claims: a missing or refused access token
    Stranger,     \* the id of no user
    NoId,         \* a path parameter that is no UUID
    None,         \* the absence of a request, an entry or a body
    Trouble       \* what may go wrong

Roles == {"viewer", "analyst", "admin"}
Pages == {"me", "list"}
Routes == Pages \cup {"threat"}

ASSUME ClaimsAssumption == Claims \subseteq [uid : Users, role : Roles]
ASSUME TTLAssumption == PageTTL \in Nat \ {0} /\ SummaryTTL \in Nat \ {0}
ASSUME HandlingAssumption == MaxHandling \in Nat
ASSUME TroubleAssumption == Trouble \subseteq {"redis", "db", "llm", "panic", "stop"}
ASSUME IdsAssumption ==
    /\ Nobody \notin Claims
    /\ Stranger \notin Users /\ NoId \notin Users /\ None \notin Users
    /\ Stranger # NoId

TTL(route) == IF route \in Pages THEN PageTTL ELSE SummaryTTL

Targets == Users \cup {Stranger, NoId}

\* What a body is about: a user's profile, all users, a user's activity.
Topic == (Routes \X Users) \cup {<<"list", None>>}

Codes == {0, 200, 400, 401, 403, 404, 429, 500, 503}
Steps == {"limit", "cache", "read", "user", "signals", "generate", "set", "audit"}

Causes == {"none", "db", "llm", "absent"}

\* What the limiter made of the request: "open" if Redis did not answer it.
Charges == {"none", "taken", "open"}

Body == [of : Topic, age : Nat]
Entry == [status : Codes, body : Body \cup {None}, left : Nat \ {0}]
Key == Routes \X Users

\* gin.Context, with what the handlers keep on their stacks.
Context == [step : Steps, route : Routes, claims : Claims \cup {Nobody},
            target : Targets, charge : Charges,
            status : Codes, body : Body \cup {None},
            cause : Causes, busy : 0 .. MaxHandling]

ASSUME NoneAssumption == None \notin Context \cup Entry \cup Body

VARIABLES
    ctx,     \* the request in each slot
    cache    \* the keys "cache:GET:..." and "threat:summary:..." in Redis

pathvars == <<ctx, cache>>

PathTypeOK ==
    /\ ctx \in [Slots -> Context \cup {None}]
    /\ cache \in [Key -> Entry \cup {None}]

PathInit ==
    /\ ctx = [s \in Slots |-> None]
    /\ cache = [k \in Key |-> None]

-----------------------------------------------------------------------------
(* Requests and answers *)

At(s, step) == ctx[s] # None /\ ctx[s].step = step

\* The request goes on; the context keeps what ext does not name.
Goto(s, step) == ctx' = [ctx EXCEPT ![s].step = step]

\* abortError, respondError and respondValidationError: a code and no data.
Fail(s, code, cause, step) ==
    ctx' = [ctx EXCEPT ![s] = [@ EXCEPT !.status = code, !.cause = cause,
                                        !.body = None, !.step = step]]

-----------------------------------------------------------------------------
(* Middleware, in the order of internal/router *)

Bearers == [claims : Claims, signed : BOOLEAN, expired : BOOLEAN]

\* Signed with JWT_SECRET by HMAC, and not expired.
ParseAccessToken(token) ==
    IF token.signed /\ ~token.expired THEN token.claims ELSE Nobody

\* The claims of the Authorization header, None if it holds no bearer token.
Auth(bearer) == IF bearer = None THEN Nobody ELSE ParseAccessToken(bearer)

\* Auth and RequireRole(admin) look at nothing but the access token, so they are
\* part of the request's arrival: the code they refuse it with, or 0.
Refused(route, claims) ==
    CASE claims = Nobody                               -> 401
      [] claims # Nobody /\ route # "me" /\ claims.role # "admin" -> 403
      [] OTHER                                         -> 0

Arriving(route, claims, target) ==
    [step |-> IF Refused(route, claims) = 0 THEN "limit" ELSE "audit",
     route |-> route, claims |-> claims, target |-> target, charge |-> "none",
     status |-> Refused(route, claims), body |-> None, cause |-> "none", busy |-> 0]

Request(s, route, claims, target) ==
    /\ ctx[s] = None
    /\ ctx' = [ctx EXCEPT ![s] = Arriving(route, claims, target)]
    /\ UNCHANGED cache

\* Variation: the cache is asked before the limiter.
RateLimitAfterCache(s) ==
    /\ At(s, "limit")
    /\ Goto(s, "cache")
    /\ UNCHANGED cache

\* The verdicts that let a request pass: Allow took a token, or Redis did not
\* answer it and the error is ignored.
Admissions == {"taken"} \cup (IF "redis" \in Trouble THEN {"open"} ELSE {})

\* A role without a quota is refused without asking the limiter.
RateLimitByRole(s) ==
    /\ At(s, "limit")
    /\ \/ /\ ctx[s].claims.role \in Roles
          /\ \E charge \in Admissions :
                ctx' = [ctx EXCEPT ![s] = [@ EXCEPT !.charge = charge, !.step = "cache"]]
       \/ Fail(s, IF ctx[s].claims.role \in Roles THEN 429 ELSE 403, "none", "audit")
    /\ UNCHANGED cache

-----------------------------------------------------------------------------
(* The two caches *)

\* What the request asks for.
Asked(s) ==
    CASE ctx[s].route = "me"     -> <<"me", ctx[s].claims.uid>>
      [] ctx[s].route = "list"   -> <<"list", None>>
      [] ctx[s].route = "threat" -> <<"threat", ctx[s].target>>

\* Variation: the key of a page is its route alone.
CacheKeyOfRoute(s) ==
    <<ctx[s].route, IF ctx[s].route \in Pages THEN CHOOSE u \in Users : TRUE
                    ELSE ctx[s].target>>

\* A page is cached for the caller, a summary for the user it is about.
CacheKey(s) ==
    <<ctx[s].route, IF ctx[s].route \in Pages THEN ctx[s].claims.uid
                    ELSE ctx[s].target>>

Miss(s) == Goto(s, IF ctx[s].route \in Pages THEN "read" ELSE "user")

\* Summarize refuses an id that is no UUID before it asks the service.
BadTarget(s) ==
    /\ At(s, "cache")
    /\ ctx[s].route = "threat" /\ ctx[s].target = NoId
    /\ Fail(s, 400, "none", "audit")
    /\ UNCHANGED cache

\* Variation: what was replayed is stored again.
CacheGetStoringAgain(s) ==
    /\ At(s, "cache")
    /\ ~(ctx[s].route = "threat" /\ ctx[s].target = NoId)
    /\ LET key == CacheKey(s)
       IN  \/ /\ key \in Key /\ cache[key] # None
              /\ ctx' = [ctx EXCEPT ![s] =
                           [@ EXCEPT !.status = cache[key].status,
                                     !.step = "set", !.body = cache[key].body]]
           \/ (key \in Key => cache[key] = None) /\ Miss(s)
    /\ UNCHANGED cache

\* The hit is replayed as it was stored; an error counts as a miss.  The id of
\* no user has no entry, since it has no summary.
CacheGet(s) ==
    /\ At(s, "cache")
    /\ ~(ctx[s].route = "threat" /\ ctx[s].target = NoId)
    /\ LET key == CacheKey(s)
           hit == key \in Key /\ cache[key] # None
       IN  \/ /\ hit
              /\ ctx' = [ctx EXCEPT ![s] =
                           [@ EXCEPT !.status = cache[key].status,
                                     !.step = "audit", !.body = cache[key].body]]
           \/ ~hit /\ Miss(s)
           \/ "redis" \in Trouble /\ Miss(s)
    /\ UNCHANGED cache

\* Variation: the entry is stored without expiry.
StoreForever(s) ==
    cache' = [cache EXCEPT ![CacheKey(s)] =
        [status |-> ctx[s].status, body |-> ctx[s].body, left |-> 0]]

Store(s) ==
    cache' = [cache EXCEPT ![CacheKey(s)] =
        [status |-> ctx[s].status, body |-> ctx[s].body,
         left |-> TTL(ctx[s].route)]]

\* Variation: whatever the handler answered is stored.
CacheSetAlways(s) ==
    /\ At(s, "set")
    /\ Store(s)
    /\ Goto(s, "audit")

\* Only a 200 is stored, and only if Redis takes it; the outcome is ignored.
CacheSet(s) ==
    /\ At(s, "set")
    /\ \/ ctx[s].status = 200 /\ Store(s)
       \/ (ctx[s].status # 200 \/ "redis" \in Trouble) /\ UNCHANGED cache
    /\ Goto(s, "audit")

-----------------------------------------------------------------------------
(* Handlers *)

Found(s, step, code) ==
    ctx' = [ctx EXCEPT ![s] = [@ EXCEPT !.status = code, !.step = step,
                                        !.body = [of |-> Asked(s), age |-> 0]]]

\* Me and ListUsers: one statement.  A user of valid claims has a row, since
\* rows are never deleted.
ReadPage(s) ==
    /\ At(s, "read")
    /\ \/ Found(s, "set", 200)
       \/ "db" \in Trouble /\ Fail(s, 500, "db", "set")
    /\ UNCHANGED cache

\* SummarizeUser: FindByID ...
FindTarget(s) ==
    /\ At(s, "user")
    /\ \/ ctx[s].target \in Users /\ Found(s, "signals", 0)
       \/ ctx[s].target \notin Users /\ Fail(s, 404, "absent", "audit")
       \/ "db" \in Trouble /\ Fail(s, 500, "db", "audit")
    /\ UNCHANGED cache

\* ... ListRecentByEmail and ListRecentByActor ...
ListSignals(s) ==
    /\ At(s, "signals")
    /\ \/ Goto(s, "generate")
       \/ "db" \in Trouble /\ Fail(s, 500, "db", "audit")
    /\ UNCHANGED cache

\* What becomes of the call of the model: the client is disabled without a URL.
Replies == {"text", "blank", "status", "timeout", "disabled"}

\* All but a text with something in it is ErrUnavailable.
Unavailable(reply) == reply # "text"

\* ... and the model, whose failures are all ErrLLMUnavailable.
Generate(s) ==
    /\ At(s, "generate")
    /\ \E reply \in (IF "llm" \in Trouble THEN Replies ELSE {"text"}) :
          \/ ~Unavailable(reply)
             /\ ctx' = [ctx EXCEPT ![s] = [@ EXCEPT !.status = 200, !.step = "set"]]
          \/ Unavailable(reply) /\ Fail(s, 503, "llm", "audit")
    /\ UNCHANGED cache

-----------------------------------------------------------------------------
(* The end of a request *)

\* Audit, when the chain inside it has returned.  Whether its INSERT succeeds
\* changes nothing for the request.
Audit(s) ==
    /\ At(s, "audit")
    /\ ctx' = [ctx EXCEPT ![s] = None]
    /\ UNCHANGED cache

\* A panic of a handler unwinds the chain up to Recovery, which answers 500.
Panic(s) ==
    /\ "panic" \in Trouble
    /\ ctx[s] # None
    /\ ctx[s].step \in {"read", "user", "signals", "generate"}
    /\ ctx' = [ctx EXCEPT ![s] = None]
    /\ UNCHANGED cache

\* Its pod ends under the request: Shutdown gives up on it 10 s after SIGTERM, which
\* a summary may outlast, or the process is killed.
Cut(s) ==
    /\ "stop" \in Trouble
    /\ ctx[s] # None
    /\ ctx' = [ctx EXCEPT ![s] = None]
    /\ UNCHANGED cache

\* Time passes: bodies age and entries expire.
Older(body) == IF body = None THEN None ELSE [body EXCEPT !.age = @ + 1]

PathTick ==
    /\ \A s \in Slots : ctx[s] # None => ctx[s].busy < MaxHandling
    /\ ctx' = [s \in Slots |->
          IF ctx[s] = None THEN None
          ELSE [ctx[s] EXCEPT !.busy = @ + 1, !.body = Older(@)]]
    /\ cache' = [k \in Key |->
          IF cache[k] = None \/ cache[k].left = 1 THEN None
          ELSE [cache[k] EXCEPT !.left = @ - 1, !.body = Older(@)]]

\* maxmemory-policy allkeys-lru drops an entry.
Drop(k) ==
    /\ "redis" \in Trouble
    /\ cache[k] # None
    /\ cache' = [cache EXCEPT ![k] = None]
    /\ UNCHANGED ctx

-----------------------------------------------------------------------------
Arrives(s) ==
    \E route \in Routes, claims \in {Auth(bearer) : bearer \in Bearers \cup {None}},
       target \in Targets :
        /\ route \in Pages => target = NoId
        /\ Request(s, route, claims, target)

Goes(s) ==
    \/ RateLimitByRole(s) \/ BadTarget(s) \/ CacheGet(s) \/ CacheSet(s)
    \/ ReadPage(s) \/ FindTarget(s) \/ ListSignals(s) \/ Generate(s)
    \/ Audit(s)

PathNext ==
    \/ \E s \in Slots : Arrives(s) \/ Goes(s) \/ Panic(s) \/ Cut(s)
    \/ \E k \in Key : Drop(k)
    \/ PathTick

PathSpec == PathInit /\ [][PathNext]_pathvars

-----------------------------------------------------------------------------
\* Data goes to whom it is meant for: whoever filled the entry it came from, a
\* page answers the caller's own question, a summary is about the user that was
\* asked for, and what an admin route returned stays with admins.
AnswersBelong ==
    \A s \in Slots : ctx[s] # None /\ ctx[s].body # None =>
        /\ ctx[s].claims # Nobody
        /\ ctx[s].body.of = Asked(s)
        /\ ctx[s].route # "me" => ctx[s].claims.role = "admin"

\* What is answered was read no longer than a TTL and the handling of one
\* request before the request came in, though a slow request may store what it
\* read over what a later one has read and stored since.
AnswersFresh ==
    \A s \in Slots : ctx[s] # None /\ ctx[s].body # None =>
        ctx[s].body.age < TTL(ctx[s].route) + MaxHandling + ctx[s].busy

\* A request fails for reasons of its own: neither an unavailable Redis nor a
\* failure another request met turns it away ("Redis must never break a
\* request", response_cache.go:37).
FailuresAreOwn ==
    \A s \in Slots : ctx[s] # None =>
        /\ ctx[s].status = 500 => ctx[s].cause = "db"
        /\ ctx[s].status = 503 => ctx[s].cause = "llm"
        /\ ctx[s].status = 404 => ctx[s].cause = "absent"

\* No answer with data goes round the limiter, "even cache hits are charged"
\* (router.go:98): the request took a token, or Redis failed that very request's
\* call of the limiter, which is let pass uncharged then.
HitsAreCharged ==
    \A s \in Slots : ctx[s] # None /\ ctx[s].status = 200 =>
        \/ ctx[s].charge = "taken"
        \/ ctx[s].charge = "open" /\ "redis" \in Trouble

\* "every non-probe request written to audit_events" (README.md:106): a request
\* leaves through Audit.
EveryRequestAudited ==
    [][\A s \in Slots : ctx[s] # None /\ ctx'[s] = None => At(s, "audit")]_pathvars
=============================================================================
