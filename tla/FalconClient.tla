---------------------------- MODULE FalconClient ----------------------------
(***************************************************************************)
(* The CrowdStrike client: concurrent calls of _request in                 *)
(* integrations/crowdstrike.py, which share one cached OAuth token and the *)
(* single-flight lock around its renewal, with with_retry of               *)
(* integrations/retry.py around every HTTP exchange.                       *)
(*                                                                         *)
(* Tokens are numbered as the API issues them, 0 is the empty string.  A   *)
(* token lapses when less than the refresh margin of its life is left; the *)
(* API accepts it during the margin.  It may also revoke tokens early.     *)
(***************************************************************************)
EXTENDS Naturals, FiniteSets

CONSTANTS
    Calls,       \* calls of _request, one per tool run
    None,        \* nobody
    Attempts,    \* attempts of with_retry
    MaxTokens,   \* bound on the tokens the API issues
    MaxRevoked   \* bound on the tokens it revokes

ASSUME ConstantsAssumption ==
    /\ None \notin Calls
    /\ Attempts \in Nat \ {0}
    /\ MaxTokens \in Nat \ {0} /\ MaxRevoked \in Nat

VARIABLES
    token,      \* e.token: the cached token
    expiry,     \* e.expiry: the token whose life it is the end of
    lock,       \* the call that holds e.lock
    issued,     \* how many tokens the API has issued
    lapsed,     \* the tokens past expiry - _REFRESH_MARGIN
    revoked,    \* the tokens the API has revoked
    pc,         \* pc[c]: where the call stands
    bearer,     \* bearer[c]: its local variable token
    attempt,    \* attempt[c]: attempts with_retry has made
    retried,    \* the calls made with _retried = True
    refused,    \* refused[c]: ghost, the tokens answered with 401 to c
    outcome,    \* outcome[c]: what a failed call raised
    clearings   \* ghost: how many calls invalidated the cache

entry == <<token, expiry, lock>>
api == <<issued, lapsed, revoked>>
call == <<pc, bearer, attempt, retried, refused, outcome>>
vars == <<entry, api, call, clearings>>

Tokens == 1..MaxTokens

TypeOK ==
    /\ token \in 0..MaxTokens /\ expiry \in 0..MaxTokens
    /\ lock \in Calls \cup {None}
    /\ issued \in 0..MaxTokens
    /\ lapsed \subseteq Tokens /\ revoked \subseteq Tokens
    /\ pc \in [Calls -> {"idle", "looking", "taking", "locking", "asking", "storing",
                         "releasing", "sending", "clearing", "done", "failed"}]
    /\ bearer \in [Calls -> 0..MaxTokens]
    /\ attempt \in [Calls -> 0..(Attempts - 1)]
    /\ retried \subseteq Calls
    /\ refused \in [Calls -> SUBSET (0..MaxTokens)]
    /\ outcome \in [Calls -> {"none", "network", "401", "429", "5xx", "token"}]
    /\ clearings \in Nat

Init ==
    /\ token = 0 /\ expiry = 0 /\ lock = None
    /\ issued = 0 /\ lapsed = {} /\ revoked = {}
    /\ pc = [c \in Calls |-> "idle"]
    /\ bearer = [c \in Calls |-> 0]
    /\ attempt = [c \in Calls |-> 0]
    /\ retried = {}
    /\ refused = [c \in Calls |-> {}]
    /\ outcome = [c \in Calls |-> "none"]
    /\ clearings = 0

-----------------------------------------------------------------------------
Go(c, next) == pc' = [pc EXCEPT ![c] = next]
Raises(c, error) == Go(c, "failed") /\ outcome' = [outcome EXCEPT ![c] = error]

\* e.token and time.monotonic() < e.expiry - _REFRESH_MARGIN
Cached == token # 0 /\ expiry # 0 /\ expiry \notin lapsed

(* _get_token *)

Begin(c) ==
    /\ pc[c] = "idle"
    /\ Go(c, "looking")
    /\ UNCHANGED <<entry, api, bearer, attempt, retried, refused, outcome, clearings>>

\* The first check, without the lock.
Look(c) ==
    /\ pc[c] = "looking"
    /\ Go(c, IF Cached THEN "taking" ELSE "locking")
    /\ UNCHANGED <<entry, api, bearer, attempt, retried, refused, outcome, clearings>>

\* return e.token: the entry is read again after the check.
Take(c) ==
    /\ pc[c] = "taking"
    /\ bearer' = [bearer EXCEPT ![c] = token]
    /\ Go(c, "sending")
    /\ UNCHANGED <<entry, api, attempt, retried, refused, outcome, clearings>>

LockUnchecked(c) ==
    /\ pc[c] = "locking"
    /\ lock = None
    /\ lock' = c
    /\ Go(c, "asking")
    /\ UNCHANGED <<token, expiry, api, bearer, attempt, retried, refused, outcome,
                   clearings>>

\* The lock, and the check again: another thread may have renewed the token.
Lock(c) ==
    /\ pc[c] = "locking"
    /\ lock = None
    /\ lock' = c
    /\ Go(c, IF Cached THEN "releasing" ELSE "asking")
    /\ UNCHANGED <<token, expiry, api, bearer, attempt, retried, refused, outcome,
                   clearings>>

\* The API issues a token: e.token is set, then e.expiry.
Issue(c) ==
    /\ pc[c] = "asking"
    /\ issued < MaxTokens
    /\ issued' = issued + 1
    /\ token' = issued + 1
    /\ attempt' = [attempt EXCEPT ![c] = 0]
    /\ Go(c, "storing")
    /\ UNCHANGED <<expiry, lock, lapsed, revoked, bearer, retried, refused, outcome,
                   clearings>>

Store(c) ==
    /\ pc[c] = "storing"
    /\ expiry' = issued
    /\ Go(c, "releasing")
    /\ UNCHANGED <<token, lock, api, bearer, attempt, retried, refused, outcome,
                   clearings>>

\* return e.token, out of the with block.
Release(c) ==
    /\ pc[c] = "releasing"
    /\ bearer' = [bearer EXCEPT ![c] = token]
    /\ lock' = None
    /\ Go(c, "sending")
    /\ UNCHANGED <<token, expiry, api, attempt, retried, refused, outcome, clearings>>

\* raise_for_status: an error answer of the token endpoint, at once.
IssueRefused(c) ==
    /\ pc[c] = "asking"
    /\ lock' = None
    /\ Raises(c, "token")
    /\ UNCHANGED <<token, expiry, api, bearer, attempt, retried, refused, clearings>>

-----------------------------------------------------------------------------
(* with_retry: only what httpx raises reaches its except branch, and the   *)
(* callables it is given return error answers instead of raising them.     *)

NetworkRetryOnceMore(c) ==
    /\ pc[c] \in {"asking", "sending"}
    /\ attempt[c] < Attempts
    /\ attempt' = [attempt EXCEPT ![c] = @ + 1]
    /\ UNCHANGED <<entry, api, pc, bearer, retried, refused, outcome, clearings>>

\* A timeout or a network error, with attempts left: back off and try again.
NetworkRetry(c) ==
    /\ pc[c] \in {"asking", "sending"}
    /\ attempt[c] < Attempts - 1
    /\ attempt' = [attempt EXCEPT ![c] = @ + 1]
    /\ UNCHANGED <<entry, api, pc, bearer, retried, refused, outcome, clearings>>

\* The last attempt: the exception is raised again and leaves the with block.
NetworkFails(c) ==
    /\ pc[c] \in {"asking", "sending"}
    /\ attempt[c] = Attempts - 1
    /\ lock' = IF lock = c THEN None ELSE lock
    /\ Raises(c, "network")
    /\ UNCHANGED <<token, expiry, api, bearer, attempt, retried, refused, clearings>>

-----------------------------------------------------------------------------
(* _request *)

Accepted(k) == k \in 1..issued /\ k \notin revoked

\* 2xx
Succeed(c) ==
    /\ pc[c] = "sending"
    /\ Accepted(bearer[c])
    /\ Go(c, "done")
    /\ UNCHANGED <<entry, api, bearer, attempt, retried, refused, outcome, clearings>>

UnauthorisedKeepingToken(c) ==
    /\ pc[c] = "sending"
    /\ ~Accepted(bearer[c])
    /\ c \notin retried
    /\ refused' = [refused EXCEPT ![c] = @ \cup {bearer[c]}]
    /\ Go(c, "looking")
    /\ retried' = retried \cup {c}
    /\ UNCHANGED <<entry, api, bearer, attempt, outcome, clearings>>

\* A 401 on the first try: _invalidate_token clears e.token, then e.expiry.
Unauthorised(c) ==
    /\ pc[c] = "sending"
    /\ ~Accepted(bearer[c])
    /\ c \notin retried
    /\ token' = 0
    /\ refused' = [refused EXCEPT ![c] = @ \cup {bearer[c]}]
    /\ clearings' = clearings + 1
    /\ Go(c, "clearing")
    /\ UNCHANGED <<expiry, lock, api, bearer, attempt, retried, outcome>>

AgainAndAgain(c) ==
    /\ attempt' = [attempt EXCEPT ![c] = 0]
    /\ Go(c, "looking")
    /\ UNCHANGED retried

Again(c) ==
    /\ retried' = retried \cup {c}
    /\ attempt' = [attempt EXCEPT ![c] = 0]
    /\ Go(c, "looking")

\* _invalidate_token's second assignment, and the call made again.
Clear(c) ==
    /\ pc[c] = "clearing"
    /\ expiry' = 0
    /\ Again(c)
    /\ UNCHANGED <<token, lock, api, bearer, refused, outcome, clearings>>

\* A 429 on the first try: wait, and make the call again.
Throttled(c) ==
    /\ pc[c] = "sending"
    /\ c \notin retried
    /\ Again(c)
    /\ UNCHANGED <<entry, api, bearer, refused, outcome, clearings>>

\* raise_for_status: any other error answer, and a 401 or 429 on the second try.
Refused(c) ==
    /\ pc[c] = "sending"
    /\ \/ Raises(c, "5xx")
       \/ c \in retried /\ Raises(c, "429")
       \/ c \in retried /\ ~Accepted(bearer[c]) /\ Raises(c, "401")
    /\ UNCHANGED <<entry, api, bearer, attempt, retried, refused, clearings>>

-----------------------------------------------------------------------------
Lapse ==
    /\ \E k \in (1..issued) \ lapsed : lapsed' = lapsed \cup {k}
    /\ UNCHANGED <<entry, issued, revoked, call, clearings>>

Revoke ==
    /\ Cardinality(revoked) < MaxRevoked
    /\ \E k \in (1..issued) \ revoked : revoked' = revoked \cup {k}
    /\ UNCHANGED <<entry, issued, lapsed, call, clearings>>

Over == (\A c \in Calls : pc[c] \in {"done", "failed"}) /\ UNCHANGED vars

CallStep(c) ==
    \/ Look(c) \/ Take(c) \/ Lock(c) \/ Issue(c) \/ Store(c) \/ Release(c)
    \/ IssueRefused(c) \/ NetworkRetry(c) \/ NetworkFails(c) \/ Succeed(c)
    \/ Unauthorised(c) \/ Clear(c) \/ Throttled(c) \/ Refused(c)

Next == (\E c \in Calls : Begin(c) \/ CallStep(c)) \/ Lapse \/ Revoke \/ Over

Spec == Init /\ [][Next]_vars

\* Tool calls run on, and HTTP exchanges end (60 s timeout).  The lock is
\* given to some waiter; nothing says which.
FairSpec == Spec /\ \A c \in Calls : WF_vars(CallStep(c))

-----------------------------------------------------------------------------
(* Properties *)

\* The token endpoint is spared: beyond the first token, one more is asked
\* for only when one has lapsed or the cache was invalidated (at most two for
\* an invalidation, whose two assignments may straddle a renewal), however
\* many calls find the cache empty at once.
EndpointIsSpared == issued <= 1 + Cardinality(lapsed) + 2 * clearings

\* The second try of a call never sends the token the first was refused with.
RefusedTokenIsNotReused ==
    \A c \in Calls :
        pc[c] = "sending" /\ c \in retried /\ bearer[c] # 0 => bearer[c] \notin refused[c]

\* Every tool call returns or raises: the retries end and the lock is freed.
CallsReturn == \A c \in Calls : pc[c] = "looking" ~> pc[c] \in {"done", "failed"}
=============================================================================
