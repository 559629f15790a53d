------------------------------- MODULE Identity -------------------------------
(***************************************************************************)
(* Who a request comes from: the Authenticator (notedthat-core/src/auth.rs) *)
(* and the OpenID Connect verifier with its cached key set                  *)
(* (notedthat-server/src/oidc.rs), while requests verify side by side, the  *)
(* issuer changes its keys or cannot be reached, and callers give up.       *)
(* Times are half seconds, so an expiry may fall between two whole seconds. *)
(***************************************************************************)
EXTENDS Integers, FiniteSets

CONSTANTS
    None,        \* no key id, no holder of the refetch lock
    Requests,    \* requests being authenticated side by side
    Kids,        \* key ids
    MaxKeys,     \* bound on the keys the issuer ever makes
    Expiries,    \* `exp` claims, in half seconds
    Leeway,      \* LEEWAY, in seconds
    MinRefetch,  \* MIN_REFETCH_INTERVAL, in half seconds
    MaxKeyAge,   \* MAX_KEY_AGE, in half seconds
    MaxNow       \* bound on the clock

VARIABLES
    now,        \* the clock
    published,  \* key id -> key, as the issuer publishes them
    made,       \* keys made so far
    cache,      \* KeyCache: keys, fetchedAt; servedAt and failed are history
    refetch,    \* holder of the refetch lock
    req         \* request -> where its authentication stands

vars == <<now, published, made, cache, refetch, req>>

\* Bearer tokens: the key id of the header, which may be missing, and the key
\* that signed it.  What it claims is chosen when the claims are first read:
\* `valid` are the ones decode checks besides exp, `user` and `sub` the
\* username claim and its fallback.
Texts == {"absent", "empty", "name"}
Token == [kid : Kids \union {None}, key : 1..MaxKeys]
Claims == [exp : Expiries, valid : {TRUE}, user : Texts, sub : Texts]
             \union [exp : Expiries, valid : {FALSE}, user : {"name"}, sub : {"name"}]
NoToken == [kid |-> None, key |-> 1]

\* What the Authorization headers hold besides such a token.
Headers == {"none", "two", "not text", "unknown scheme", "service token", "basic", "wrong basic", "shared-secret token"}
Schemes == {"Bearer", "BasicOrBearer"}

Idle == [pc |-> "idle", token |-> NoToken, asked |-> 0, known |-> FALSE, served |-> 0,
         out |-> "none", until |-> None]

Put(r, v) == [f \in DOMAIN req[r] |-> IF f \in DOMAIN v THEN v[f] ELSE req[r][f]]
Step(r, v) == req' = [req EXCEPT ![r] = Put(r, v)]
Finished(out, until) == [Idle EXCEPT !.pc = "done", !.out = out, !.until = until]

\* OidcVerifier::lookup: the key of that id, or without one the only key.
Lookup(keys, kid) ==
    IF kid # None
    THEN IF kid \in DOMAIN keys THEN keys[kid] ELSE None
    ELSE IF Cardinality(DOMAIN keys) = 1 THEN keys[CHOOSE k \in DOMAIN keys : TRUE] ELSE None

CacheAge == now - cache.fetchedAt

\* Authenticator::resolve for anything but a bearer token that may be the
\* issuer's: never a downgrade to anonymous.  verify refuses an HS* token
\* before it looks at a key.
Resolved(h, accept) ==
    IF h = "none" THEN "anyone"
    ELSE IF h = "service token" \/ (h = "basic" /\ accept = "BasicOrBearer") THEN "service"
    ELSE "refused"

Resolve(r) ==
    /\ req[r].pc \in {"idle", "done"}
    /\ \E out \in {Resolved(h, accept) : h \in Headers, accept \in Schemes} :
         req' = [req EXCEPT ![r] = Finished(out, None)]
    /\ UNCHANGED <<now, published, made, cache, refetch>>

\* Mutant: only an unknown key id refreshes the cached set.
NeedsRefreshUnknown(kid) == Lookup(cache.keys, kid) = None

NeedsRefresh(kid) == CacheAge > MaxKeyAge \/ Lookup(cache.keys, kid) = None

\* resolve_bearer with a token that is not the service token, and verify up
\* to the point where it may have to wait for the issuer.
Verify(r, t) ==
    /\ req[r].pc \in {"idle", "done"}
    /\ req' = [req EXCEPT ![r] =
                 [Idle EXCEPT !.token = t, !.asked = now, !.known = Lookup(published, t.kid) = t.key,
                              !.pc = IF NeedsRefresh(t.kid) THEN "refresh" ELSE "lookup"]]
    /\ UNCHANGED <<now, published, made, cache, refetch>>

\* Mutant: whoever was waiting for the lock fetches again.
RefreshUnlessFreshAlways(r) ==
    /\ req[r].pc = "refresh"
    /\ refetch = None
    /\ Step(r, [pc |-> "fetch"])
    /\ refetch' = r
    /\ UNCHANGED <<now, published, made, cache>>

\* OidcVerifier::refresh: the lock, then the age once more under it.
RefreshUnlessFresh(r) ==
    /\ req[r].pc = "refresh"
    /\ refetch = None
    /\ Step(r, [pc |-> IF CacheAge < MinRefetch THEN "lookup" ELSE "fetch"])
    /\ refetch' = IF CacheAge < MinRefetch THEN None ELSE r
    /\ UNCHANGED <<now, published, made, cache>>

\* The issuer answers, or does not; its answer may be old when it arrives.
Serve(r) ==
    /\ req[r].pc = "fetch"
    /\ Step(r, [pc |-> "served", served |-> now])
    /\ cache' = [cache EXCEPT !.answer = published]
    /\ UNCHANGED <<now, published, made, refetch>>

\* refresh, once fetch_jwks has answered: the keys are replaced.
FetchEnds(r) ==
    /\ req[r].pc = "served"
    /\ cache' = [keys |-> cache.answer, fetchedAt |-> now, servedAt |-> req[r].served,
                 failed |-> FALSE, answer |-> <<>>]
    /\ Step(r, [pc |-> "lookup"])
    /\ refetch' = None
    /\ UNCHANGED <<now, published, made>>

\* refresh, when it failed: the previous keys stay, the timestamp moves.
FetchFails(r) ==
    /\ req[r].pc = "fetch"
    /\ cache' = [cache EXCEPT !.fetchedAt = now, !.failed = TRUE]
    /\ Step(r, [pc |-> "lookup"])
    /\ refetch' = None
    /\ UNCHANGED <<now, published, made>>

\* The caller goes away or its deadline passes: the future is dropped, and
\* the lock with it.
Abandon(r) ==
    /\ req[r].pc \in {"refresh", "fetch", "served"}
    /\ req' = [req EXCEPT ![r] = Idle]
    /\ refetch' = IF refetch = r THEN None ELSE refetch
    /\ cache' = [cache EXCEPT !.answer = IF refetch = r THEN <<>> ELSE @]
    /\ UNCHANGED <<now, published, made>>

\* jsonwebtoken's check of exp: rounded to a second, `now` in whole seconds.
Rounded(exp) == (exp + 1) \div 2
Unexpired(exp, t) == Rounded(exp) >= t \div 2 - Leeway

\* Mutant: the instant is `exp` plus the leeway, a second too early.
ValidUntilBare(exp) == 2 * (Rounded(exp) + Leeway)

\* valid_until: the first instant at which the token is refused.
ValidUntil(exp) == 2 * (Rounded(exp) + Leeway + 1)

\* The subject: the username claim if there is one, else `sub`; text, not empty.
Subject(c) == IF c.user # "absent" THEN c.user ELSE c.sub

Judgement(t, c) ==
    LET key == Lookup(cache.keys, t.kid)
    IN CASE key = None -> "unknown key"
         [] key # None /\ key # t.key -> "bad signature"
         [] key = t.key -> IF c.valid /\ Unexpired(c.exp, now) /\ Subject(c) = "name"
                           THEN "user" ELSE "refused"

\* verify after the refresh: lookup, decode, subject, valid_until.
Judged(t, c) ==
    LET out == Judgement(t, c) IN Finished(out, IF out = "user" THEN ValidUntil(c.exp) ELSE None)

Judge(r) ==
    /\ req[r].pc = "lookup"
    /\ \E verdict \in {Judged(req[r].token, c) : c \in Claims} : req' = [req EXCEPT ![r] = verdict]
    /\ UNCHANGED <<now, published, made, cache, refetch>>

\* The issuer changes its set: a new key under a new or an old id, a key withdrawn.
Publish(keys) ==
    /\ published' = keys
    /\ req' = [r \in Requests |-> [req[r] EXCEPT !.known = @ /\ Lookup(keys, req[r].token.kid) = req[r].token.key]]
    /\ UNCHANGED <<now, cache, refetch>>

Rotate(kid) ==
    /\ made < MaxKeys
    /\ made' = made + 1
    /\ Publish([k \in DOMAIN published \union {kid} |-> IF k = kid THEN made + 1 ELSE published[k]])

Withdraw(kid) ==
    /\ kid \in DOMAIN published
    /\ DOMAIN published # {kid}
    /\ Publish([k \in DOMAIN published \ {kid} |-> published[k]])
    /\ UNCHANGED made

Tick ==
    /\ now < MaxNow
    /\ now' = now + 1
    /\ UNCHANGED <<published, made, cache, refetch, req>>

\* discover and assemble: the server starts only with the issuer's keys.
Init ==
    /\ now = 0
    /\ \E kid \in Kids : published = [k \in {kid} |-> 1]
    /\ made = 1
    /\ cache = [keys |-> published, fetchedAt |-> 0, servedAt |-> 0, failed |-> FALSE, answer |-> <<>>]
    /\ refetch = None
    /\ req = [r \in Requests |-> Idle]

Next ==
    \/ \E r \in Requests :
         \/ Resolve(r)
         \/ \E t \in Token : Verify(r, t)
         \/ RefreshUnlessFresh(r) \/ Serve(r) \/ FetchEnds(r) \/ FetchFails(r)
         \/ Judge(r) \/ Abandon(r)
    \/ \E kid \in Kids : Rotate(kid) \/ Withdraw(kid)
    \/ Tick

Spec == Init /\ [][Next]_vars

-----------------------------------------------------------------------------
\* A token is judged by keys asked for at most MaxKeyAge before the request,
\* and refused for an unknown key that the issuer publishes only when the last
\* answer is that recent that it may not be asked again, or asking failed
\* (oidc.rs verify, refresh).
JudgedByRecentKeys ==
    \A r \in Requests :
      req[r].pc = "lookup" =>
        /\ req[r].asked <= cache.fetchedAt + MaxKeyAge
        /\ req[r].known /\ Lookup(cache.keys, req[r].token.kid) = None =>
             \/ cache.failed
             \/ cache.servedAt <= req[r].asked /\ req[r].asked < cache.fetchedAt + MinRefetch

\* One request to the issuer at a time, and none within MinRefetch of the end
\* of the last one, however many tokens wait for it (oidc.rs refresh).
FetchesAreSpaced ==
    \A r \in Requests :
      req[r].pc \in {"fetch", "served"} => refetch = r /\ CacheAge >= MinRefetch

\* An event stream opened under a token ends at the first instant at which a
\* reconnect with that token is refused, no earlier and no later (oidc.rs
\* valid_until, router/events.rs expiry).
StreamsEndWithTheirToken ==
    \A r \in Requests, c \in Claims :
      req[r].pc = "lookup" /\ Judgement(req[r].token, c) = "user" =>
        \A t \in now..MaxNow + 2 * (Leeway + 2) : Unexpired(c.exp, t) <=> t < ValidUntil(c.exp)

\* A set of keys older than MaxKeyAge is refreshed before it is used again,
\* except within MinRefetch of the last attempt.
OldKeysAreRefetched ==
    \A r \in Requests :
      req[r].pc = "lookup" =>
        \/ req[r].asked <= cache.servedAt + MaxKeyAge
        \/ req[r].asked < cache.fetchedAt + MinRefetch
=============================================================================
