---------------------------- MODULE LoginProofs -----------------------------
(***************************************************************************)
(* Proofs about SecretCache, for any secrets, values, readers and          *)
(* environments, and about Login, which looks the allowed group up there,  *)
(* for any tabs, accounts and groups.                                      *)
(*                                                                         *)
(* What the cache holds is as good as what threads are about to store, so  *)
(* the inductive invariants of the first part speak of both; its lemmas    *)
(* serve every module that extends SecretCache.                            *)
(***************************************************************************)
EXTENDS Login, TLAPS

-----------------------------------------------------------------------------
(* The secret cache *)

\* A key is a kind of entry and a secret.
LEMMA KeyParts == \A k \in Keys : k[1] \in {"any", "kv"} /\ k[2] \in Names
  BY DEF Keys

\* A fetch comes back with a word, whatever the vault does.
LEMMA FoundIsWord ==
    ASSUME SecretsTypeOK, NEW k \in Keys, NEW v \in Found(k) PROVE v \in Words
  BY SecretsAssumption, KeyParts DEF SecretsTypeOK, Found, Words

\* There is a key, so an idle thread is well typed.
LEMMA IdleIsLookup == Idle \in [at : Stages, key : Keys, got : Words]
<1>1. \E k \in Keys : TRUE
  <2>1. PICK n : n \in Names
    BY SecretsAssumption
  <2>2. <<"any", n>> \in Keys
    BY <2>1 DEF Keys
  <2> QED  BY <2>2
<1>2. (CHOOSE j \in Keys : TRUE) \in Keys
  BY <1>1
<1> QED  BY <1>2 DEF Idle, Lookup, Stages, Words

-----------------------------------------------------------------------------
\* One step of a lookup keeps the types.
LEMMA LookupTypes ==
    ASSUME SecretsTypeOK, NEW r \in Readers,
           (\E k \in Keys : Ask(r, k)) \/ LookupStep(r) \/ Leave(r)
    PROVE  SecretsTypeOK'
<1> USE DEF SecretsTypeOK
<1>1. CASE \E k \in Keys : Ask(r, k)
  BY <1>1 DEF Ask, Asking, Lookup, Stages, Words
<1>2. CASE Check(r)
  BY <1>2 DEF Check, Stages
<1>3. CASE Take(r)
  BY <1>3 DEF Take, Lookup, Stages, Words
<1>4. CASE FetchOrFail(r)
  <2>1. PICK v \in Found(lookup[r].key) :
            lookup' = [lookup EXCEPT ![r].at = "storing", ![r].got = v]
    BY <1>4 DEF FetchOrFail
  <2>2. v \in Words
    BY <2>1, FoundIsWord
  <2> QED  BY <1>4, <2>1, <2>2 DEF FetchOrFail, Stages
<1>5. CASE Store(r)
  BY <1>5 DEF Store, Stages
<1>6. CASE Leave(r)
  BY <1>6, IdleIsLookup DEF Leave
<1> QED  BY <1>1, <1>2, <1>3, <1>4, <1>5, <1>6 DEF LookupStep

\* So do an administrator, the outside world and a restart.
LEMMA SecretsTypes ==
    ASSUME SecretsTypeOK, [SecretsNext]_secrets PROVE SecretsTypeOK'
<1> USE SecretsAssumption DEF SecretsTypeOK
<1>1. CASE \E r \in Readers : (\E k \in Keys : Ask(r, k)) \/ LookupStep(r) \/ Leave(r)
  BY <1>1, LookupTypes
<1>2. CASE \E n \in Names, v \in Values : Write(n, v)
  BY <1>2 DEF Write, Becomes, Words
<1>3. CASE \E n \in Names, v \in Words : Rotate(n, v)
  BY <1>3 DEF Rotate, Becomes
<1>4. CASE Drop
  <2>1. <<"kv", writing>> \in Keys /\ writing \in Names
    BY <1>4 DEF Drop, Keys
  <2> QED  BY <1>4, <2>1 DEF Drop
<1>5. CASE ClearCache
  BY <1>5 DEF ClearCache
<1>6. CASE RestartSecrets
  <2>1. env' \in [Names -> Words] /\ vault' \in [Names -> Words]
    BY <1>6 DEF RestartSecrets
  <2> QED  BY <1>6, <2>1, IdleIsLookup DEF RestartSecrets
<1>7. CASE UNCHANGED secrets
  BY <1>7 DEF secrets
<1> QED  BY <1>1, <1>2, <1>3, <1>4, <1>5, <1>6, <1>7 DEF SecretsNext, Administer

\* The first state has them.
LEMMA SecretsInitTypes == ASSUME SecretsInit PROVE SecretsTypeOK
  BY SecretsAssumption, IdleIsLookup DEF SecretsInit, SecretsTypeOK

\* Every variable keeps to its type, whatever threads, administrators, the vault
\* and restarts do.
THEOREM SecretsTypeCorrect == SecretsSpec => []SecretsTypeOK
<1>1. SecretsInit => SecretsTypeOK
  BY SecretsInitTypes
<1>2. SecretsTypeOK /\ [SecretsNext]_secrets => SecretsTypeOK'
  BY SecretsTypes
<1> QED  BY <1>1, <1>2, PTL DEF SecretsSpec

-----------------------------------------------------------------------------
\* What a thread is about to store is an answer of this process as well ...
HeldWasThere ==
    /\ \A n \in Names : env[n] \in were[n] /\ vault[n] \in were[n]
    /\ \A r \in Readers :
          lookup[r].at = "storing" => lookup[r].got \in {Empty} \cup were[lookup[r].key[2]]

\* ... and for an entry that no write or change excuses it is what the vault holds.
HeldIsSeen ==
    \A r \in Readers :
        /\ lookup[r].at = "storing" /\ lookup[r].key[1] = "kv"
        /\ lookup[r].key[2] \notin excused \cup {writing}
        => lookup[r].got \in {Empty, vault[lookup[r].key[2]]}

CurrentInv == HeldWasThere /\ HeldIsSeen /\ CacheIsCurrent

\* One step of a lookup keeps the cache current.
LEMMA LookupKeepsCurrent ==
    ASSUME SecretsTypeOK, CurrentInv, NEW r \in Readers,
           (\E k \in Keys : Ask(r, k)) \/ LookupStep(r) \/ Leave(r)
    PROVE  CurrentInv'
<1> USE KeyParts
    DEF SecretsTypeOK, CurrentInv, HeldWasThere, HeldIsSeen, CacheIsCurrent, CachedWasThere,
        WriteIsSeen
<1>1. CASE \E k \in Keys : Ask(r, k)
  BY <1>1 DEF Ask, Asking, Lookup
<1>2. CASE Check(r)
  BY <1>2 DEF Check
<1>3. CASE Take(r)
  BY <1>3 DEF Take, Lookup
<1>4. CASE FetchOrFail(r)
  <2>1. PICK v \in Found(lookup[r].key) :
            lookup' = [lookup EXCEPT ![r].at = "storing", ![r].got = v]
    BY <1>4 DEF FetchOrFail
  <2>2. /\ v \in {Empty} \cup were[lookup[r].key[2]]
        /\ lookup[r].key[1] = "kv" => v \in {Empty, vault[lookup[r].key[2]]}
    BY <2>1 DEF Found
  <2> QED  BY <1>4, <2>1, <2>2 DEF FetchOrFail
<1>5. CASE Store(r)
  <2>1. lookup[r].at = "storing" /\ cache' = [cache EXCEPT ![lookup[r].key] = lookup[r].got]
        /\ UNCHANGED <<env, vault, writing, were, excused>>
    BY <1>5 DEF Store
  <2>2. HeldWasThere' /\ HeldIsSeen'
    BY <1>5 DEF Store
  <2>3. CachedWasThere'
    BY <2>1
  <2>4. WriteIsSeen'
    <3> SUFFICES ASSUME NEW n \in Names \ (excused \cup {writing})
                 PROVE  cache'[<<"kv", n>>] \in {Absent, Empty, vault[n]}
      BY <2>1
    <3>1. CASE lookup[r].key = <<"kv", n>>
      BY <2>1, <3>1
    <3>2. CASE lookup[r].key # <<"kv", n>>
      BY <2>1, <3>2 DEF Keys
    <3> QED  BY <3>1, <3>2
  <2> QED  BY <2>2, <2>3, <2>4
<1>6. CASE Leave(r)
  BY <1>6 DEF Leave, Idle, Lookup
<1> QED  BY <1>1, <1>2, <1>3, <1>4, <1>5, <1>6 DEF LookupStep

\* So does everything else: a write hides its secret until the drop, and the drop
\* notes the threads that straddle it.
LEMMA SecretsStayCurrent ==
    ASSUME SecretsTypeOK, CurrentInv, [SecretsNext]_secrets PROVE CurrentInv'
<1> USE SecretsAssumption, KeyParts
    DEF SecretsTypeOK, CurrentInv, HeldWasThere, HeldIsSeen, CacheIsCurrent, CachedWasThere,
        WriteIsSeen
<1>1. CASE \E r \in Readers : (\E k \in Keys : Ask(r, k)) \/ LookupStep(r) \/ Leave(r)
  BY <1>1, LookupKeepsCurrent
<1>2. CASE \E n \in Names, v \in Values : Write(n, v)
  BY <1>2 DEF Write, Becomes
<1>3. CASE \E n \in Names, v \in Words : Rotate(n, v)
  BY <1>3 DEF Rotate, Becomes
<1>4. CASE Drop
  <2>1. /\ writing \in Names /\ writing' = Nothing
        /\ cache' = [cache EXCEPT ![<<"kv", writing>>] = Absent]
        /\ UNCHANGED <<env, vault, lookup, were>>
    BY <1>4 DEF Drop
  <2>2. /\ excused \ {writing} \subseteq excused'
        /\ \A r \in Readers : Straddles(r, writing) => writing \in excused'
    BY <1>4 DEF Drop
  <2>3. HeldWasThere'
    BY <2>1
  <2>4. HeldIsSeen'
    <3> SUFFICES ASSUME NEW r \in Readers, lookup[r].at = "storing", lookup[r].key[1] = "kv",
                        lookup[r].key[2] \notin excused'
                 PROVE  lookup[r].got \in {Empty, vault[lookup[r].key[2]]}
      BY <2>1
    <3>1. CASE lookup[r].key[2] = writing
      <4>1. lookup[r].key = <<"kv", writing>>
        BY <3>1 DEF Keys
      <4> QED  BY <2>2, <3>1, <4>1 DEF Straddles
    <3>2. CASE lookup[r].key[2] # writing
      BY <2>2, <3>2
    <3> QED  BY <3>1, <3>2
  <2>5. CachedWasThere'
    BY <2>1
  <2>6. WriteIsSeen'
    <3> SUFFICES ASSUME NEW n \in Names \ excused'
                 PROVE  cache'[<<"kv", n>>] \in {Absent, Empty, vault[n]}
      BY <2>1
    <3>1. <<"kv", n>> \in Keys
      BY DEF Keys
    <3>2. CASE n = writing
      BY <2>1, <3>1, <3>2
    <3>3. CASE n # writing
      BY <2>1, <2>2, <3>1, <3>3
    <3> QED  BY <3>2, <3>3
  <2> QED  BY <2>3, <2>4, <2>5, <2>6
<1>5. CASE ClearCache
  BY <1>5 DEF ClearCache, Keys
<1>6. CASE RestartSecrets
  <2>1. /\ cache' = [k \in Keys |-> Absent] /\ \A r \in Readers : lookup'[r] = Idle
        /\ were' = [n \in Names |-> {env'[n], vault'[n]}]
    BY <1>6 DEF RestartSecrets
  <2>2. \A r \in Readers : lookup'[r].at = "idle"
    <3>1. Idle.at = "idle"
      BY DEF Idle, Lookup
    <3> QED  BY <2>1, <3>1
  <2>3. \A n \in Names : were'[n] = {env'[n], vault'[n]}
    BY <2>1, Zenon
  <2>4. \A k \in Keys : cache'[k] = Absent
    BY <2>1
  <2>5. WriteIsSeen'
    BY <2>4 DEF Keys
  <2> QED  BY <2>2, <2>3, <2>4, <2>5
<1>7. CASE UNCHANGED secrets
  BY <1>7 DEF secrets
<1> QED  BY <1>1, <1>2, <1>3, <1>4, <1>5, <1>6, <1>7 DEF SecretsNext, Administer

\* An empty cache is current.
LEMMA SecretsInitCurrent == ASSUME SecretsInit PROVE CurrentInv
  BY KeyParts DEF SecretsInit, CurrentInv, HeldWasThere, HeldIsSeen, CacheIsCurrent, CachedWasThere,
      WriteIsSeen, Idle, Lookup, Keys

\* Whatever lookups, writes, drops, changes of the vault and restarts interleave, no
\* cached value is older than the process, and none of get_kv_secret is older than
\* the last write, but for the overlaps CacheIsCurrent names.
THEOREM CacheStaysCurrent == SecretsSpec => []CacheIsCurrent
<1>1. SecretsInit => CurrentInv
  BY SecretsInitCurrent
<1>2. SecretsTypeOK /\ CurrentInv /\ [SecretsNext]_secrets => CurrentInv'
  BY SecretsStayCurrent
<1>3. CurrentInv => CacheIsCurrent
  BY DEF CurrentInv
<1> QED  BY <1>1, <1>2, <1>3, SecretsTypeCorrect, PTL DEF SecretsSpec

-----------------------------------------------------------------------------
(* Signing in uses the cache by its steps *)

GroupKey == <<"any", Group>>

LEMMA GroupKeyIsKey == GroupKey \in Keys
  BY LoginAssumption DEF GroupKey, Keys

\* A tab is a reader of secrets, and each step of it is at most one step of its
\* lookup.
LEMMA TabSecrets ==
    ASSUME NEW t \in Tabs, TabStep(t)
    PROVE  UNCHANGED secrets \/ Ask(t, GroupKey) \/ LookupStep(t) \/ Leave(t)
<1>1. CASE CallbackAccepted(t)
  BY <1>1 DEF CallbackAccepted, GroupKey
<1>2. CASE GateLooks(t) \/ Decide(t)
  BY <1>2 DEF GateLooks, Decide
<1>3. CASE ~(CallbackAccepted(t) \/ GateLooks(t) \/ Decide(t))
  BY <1>3 DEF TabStep, Send, Return, ServePage, ServeStatus, ServeLogin, CallbackFails, ServeLogout
<1> QED  BY <1>1, <1>2, <1>3

LEMMA LoginSecrets == [LoginNext]_loginVars => [SecretsNext]_secrets
<1> SUFFICES ASSUME [LoginNext]_loginVars PROVE [SecretsNext]_secrets
  OBVIOUS
<1>1. ASSUME NEW t \in Tabs, TabStep(t) PROVE [SecretsNext]_secrets
  BY <1>1, TabSecrets, GroupKeyIsKey, LoginAssumption DEF SecretsNext
<1>2. ASSUME NEW t \in Tabs, NEW r \in Routes, Visit(t, r) PROVE [SecretsNext]_secrets
  BY <1>2 DEF Visit
<1>3. CASE RestartLogin
  BY <1>3 DEF RestartLogin, SecretsNext
<1>4. CASE OtherThreads
  BY <1>4 DEF OtherThreads, SecretsNext
<1>5. CASE UNCHANGED loginVars
  BY <1>5 DEF loginVars, secrets
<1> QED  BY <1>1, <1>2, <1>3, <1>4, <1>5 DEF LoginNext

\* Requests, restarts, administrators and other threads use the cache by the
\* steps of SecretCache only: what is proved of SecretsSpec holds of signing in.
THEOREM LoginImplementsSecretCache == LoginSpec => SecretsSpec
<1>1. LoginInit => SecretsInit
  BY DEF LoginInit
<1> QED  BY <1>1, LoginSecrets, PTL DEF LoginSpec, SecretsSpec

\* The allowed group that a sign-in finds in the cache is as current as any
\* cached secret.
THEOREM LoginCacheIsCurrent == LoginSpec => []CacheIsCurrent
  BY LoginImplementsSecretCache, CacheStaysCurrent, PTL

-----------------------------------------------------------------------------
(* Types *)

\* The session of a request is a session, whatever cookie it opens.
LEMMA SessionTypes ==
    ASSUME LoginTypeOK
    PROVE  /\ NoSession \in Sessions /\ NoCookie \in Cookies
           /\ Opened(jar) \in Sessions
           /\ \A t \in Tabs : Popped(t) \in Sessions
  BY LoginAssumption DEF LoginTypeOK, NoSession, Sessions, NoCookie, Cookies, Opened, Popped

\* A cookie is empty exactly when it is not there.
GoodCookie(c) == c \in Cookies /\ (c.key = "none" <=> c.session = NoSession)

LEMMA WrittenIsCookie ==
    ASSUME LoginTypeOK, NEW t \in Tabs, NEW s \in Sessions
    PROVE  GoodCookie(Written(jar, t, s))
  BY SessionTypes DEF LoginTypeOK, GoodCookie, Written, Cookies, NoCookie

\* What a response leaves behind, typed.
LEMMA ResponseTypes ==
    ASSUME LoginTypeOK, NEW t \in Tabs, NEW c, GoodCookie(c), SetJar(t, c),
           NEW next \in Routes \cup {"quiet"}, Proceed(t, next)
    PROVE  /\ GoodCookie(jar') /\ straddling' \subseteq Tabs
           /\ at' \in [Tabs -> {"quiet", "going", "serving", "gate", "idp"}]
           /\ route' \in [Tabs -> Routes]
           /\ session' \in [Tabs -> Sessions]
           /\ who' \in [Tabs -> Accounts \cup {Refused}]
  BY SessionTypes DEF LoginTypeOK, SetJar, Proceed, Routes

LEMMA LoginTypeInit == LoginInit => LoginTypeOK
<1> SUFFICES ASSUME LoginInit PROVE LoginTypeOK
  OBVIOUS
<1>1. SecretsTypeOK
  BY SecretsInitTypes DEF LoginInit
<1>2. NoSession \in Sessions
  BY LoginAssumption DEF NoSession, Sessions
<1>3. jar \in Cookies /\ jar.key = "none" /\ jar.session = NoSession
  BY <1>2 DEF LoginInit, NoCookie, Cookies
<1> QED  BY <1>1, <1>2, <1>3 DEF LoginInit, LoginTypeOK, Routes

\* The tab and cookie part of the type, step by step.
BrowserTypeOK ==
    /\ GoodCookie(jar)
    /\ at \in [Tabs -> {"quiet", "going", "serving", "gate", "idp"}]
    /\ route \in [Tabs -> Routes]
    /\ session \in [Tabs -> Sessions]
    /\ who \in [Tabs -> Accounts \cup {Refused}]
    /\ straddling \subseteq Tabs

\* A tab at the gate has an account, and a lookup of the group under way.
AtGate(t) ==
    at[t] = "gate" =>
        who[t] \in Accounts /\ lookup[t].key = GroupKey /\ lookup[t].at # "idle"

LoginType == LoginTypeOK /\ \A t \in Tabs : AtGate(t)

LEMMA TabTypes ==
    ASSUME LoginType, NEW t \in Tabs, TabStep(t) PROVE BrowserTypeOK' /\ key' = key
<1> USE DEF LoginType, LoginTypeOK, BrowserTypeOK, GoodCookie
<1> DEFINE Responded == \E s \in Sessions, next \in Routes \cup {"quiet"} : Answer(t, s, next)
<1>1. ASSUME Responded PROVE BrowserTypeOK'
  <2>1. PICK s \in Sessions, next \in Routes \cup {"quiet"} : Answer(t, s, next)
    BY <1>1
  <2>2. GoodCookie(Written(jar, t, s))
    BY WrittenIsCookie
  <2> QED  BY <2>1, <2>2, ResponseTypes DEF Answer
<1>2. ASSUME Raise(t) PROVE BrowserTypeOK'
  BY <1>2, ResponseTypes DEF Raise
<1>3. session[t] \in Sessions /\ Popped(t) \in Sessions /\ NoSession \in Sessions
  BY SessionTypes
<1>4. {"login", "page", "quiet"} \subseteq Routes \cup {"quiet"}
  BY DEF Routes
<1>5. CASE Send(t)
  BY <1>5, SessionTypes DEF Send
<1>6. CASE \E a \in Accounts \cup {Refused} : Return(t, a)
  BY <1>6 DEF Return, Routes
<1>7. CASE ServePage(t)
  <2>1. Responded
    BY <1>3, <1>4, <1>7 DEF ServePage
  <2> QED  BY <1>1, <1>7, <2>1 DEF ServePage
<1>8. CASE ServeStatus(t)
  <2>1. Responded
    BY <1>3, <1>4, <1>8 DEF ServeStatus
  <2> QED  BY <1>1, <1>8, <2>1 DEF ServeStatus
<1>9. CASE ServeLogin(t)
  <2>1. CASE MsalRaises(t)
    BY <1>2, <1>9, <2>1 DEF ServeLogin, MsalRaises
  <2>2. CASE LoginWith(t, [session[t] EXCEPT !.flow = t])
    <3> DEFINE s == [session[t] EXCEPT !.flow = t]
    <3>1. s \in Sessions /\ s # NoSession
      BY <1>3, LoginAssumption DEF Sessions, NoSession
    <3>2. GoodCookie([session |-> s, key |-> key])
      BY <3>1 DEF Cookies
    <3>3. \A u \in Tabs : Outdated(session[u], t) \in Sessions
      BY DEF Outdated, Sessions
    <3> HIDE DEF s
    <3>4. jar' = [session |-> s, key |-> key] /\ straddling' \subseteq Tabs
      BY <2>2 DEF LoginWith, SetJar, s
    <3> QED  BY <1>3, <1>9, <2>2, <3>2, <3>3, <3>4 DEF LoginWith, ServeLogin, Routes
  <2> QED  BY <1>9, <2>1, <2>2 DEF ServeLogin
<1>10. CASE CallbackFails(t)
  <2>1. Responded \/ Raise(t)
    BY <1>3, <1>4, <1>10 DEF CallbackFails, MsalRaises
  <2> QED  BY <1>1, <1>2, <1>10, <2>1 DEF CallbackFails
<1>11. CASE CallbackAccepted(t)
  BY <1>3, <1>11 DEF CallbackAccepted
<1>12. CASE GateLooks(t)
  BY <1>12 DEF GateLooks, browser
<1>13. CASE Decide(t)
  <2>1. [session[t] EXCEPT !.user = who[t]] \in Sessions
    BY <1>3, <1>13 DEF Decide, AtGate, Sessions
  <2> QED  BY <1>1, <1>2, <1>3, <1>4, <1>13, <2>1 DEF Decide
<1>14. CASE ServeLogout(t)
  <2>1. Responded \/ Raise(t)
    BY <1>3, <1>4, <1>14 DEF ServeLogout
  <2> QED  BY <1>1, <1>2, <1>14, <2>1 DEF ServeLogout
<1> QED  BY <1>5, <1>6, <1>7, <1>8, <1>9, <1>10, <1>11, <1>12, <1>13, <1>14 DEF TabStep

\* One step of a lookup moves no other thread, keeps what is asked for, and is
\* not at rest.
LEMMA LookupMoves ==
    ASSUME SecretsTypeOK, NEW r \in Readers
    PROVE  /\ (\E k \in Keys : Ask(r, k)) \/ LookupStep(r) \/ Leave(r) =>
                 \A q \in Readers \ {r} : lookup'[q] = lookup[q]
           /\ LookupStep(r) => lookup'[r].key = lookup[r].key /\ lookup'[r].at # "idle"
<1> USE DEF SecretsTypeOK
<1>1. (\E k \in Keys : Ask(r, k)) \/ LookupStep(r) \/ Leave(r) =>
          \A q \in Readers \ {r} : lookup'[q] = lookup[q]
  BY DEF Ask, LookupStep, Check, Take, FetchOrFail, Store, Leave
<1>2. LookupStep(r) => lookup'[r].key = lookup[r].key /\ lookup'[r].at # "idle"
  BY DEF LookupStep, Check, Take, FetchOrFail, Store, Lookup
<1> QED  BY <1>1, <1>2

\* A tab gets to the gate by an accepted callback and stays while it looks.
LEMMA TabGate ==
    ASSUME LoginType, NEW t \in Tabs, TabStep(t) PROVE \A u \in Tabs : AtGate(u)'
<1> USE LoginAssumption DEF LoginType, LoginTypeOK
<1>1. ASSUME NEW u \in Tabs \ {t} PROVE AtGate(u)'
  <2>1. at'[u] = at[u] /\ who'[u] = who[u]
    BY DEF TabStep, Send, Return, ServePage, ServeStatus, ServeLogin, LoginWith, CallbackFails,
           CallbackAccepted, GateLooks, Decide, ServeLogout, Answer, Raise, MsalRaises, Proceed,
           browser
  <2>2. lookup'[u] = lookup[u]
    BY TabSecrets, LookupMoves, GroupKeyIsKey DEF secrets
  <2> QED  BY <2>1, <2>2 DEF AtGate
<1>2. AtGate(t)'
  <2>1. CASE CallbackAccepted(t)
    BY <2>1 DEF CallbackAccepted, Ask, Asking, Lookup, AtGate, GroupKey, SecretsTypeOK
  <2>2. CASE GateLooks(t)
    <3>1. at'[t] = at[t] /\ who'[t] = who[t] /\ AtGate(t)
      BY <2>2 DEF GateLooks, browser
    <3>2. lookup'[t].key = lookup[t].key /\ lookup'[t].at # "idle"
      BY <2>2, LookupMoves DEF GateLooks
    <3> QED  BY <3>1, <3>2 DEF AtGate
  <2>3. CASE ~(CallbackAccepted(t) \/ GateLooks(t))
    <3>1. at'[t] # "gate"
      BY <2>3 DEF TabStep, Send, Return, ServePage, ServeStatus, ServeLogin, LoginWith,
                  CallbackFails, Decide, ServeLogout, Answer, Raise, MsalRaises, Proceed, Routes
    <3> QED  BY <3>1 DEF AtGate
  <2> QED  BY <2>1, <2>2, <2>3
<1> QED  BY <1>1, <1>2

LEMMA LoginTypeNext == LoginType /\ [LoginNext]_loginVars => LoginType'
<1> SUFFICES ASSUME LoginType, [LoginNext]_loginVars PROVE LoginType'
  OBVIOUS
<1> USE DEF LoginType, LoginTypeOK
<1>1. SecretsTypeOK'
  BY LoginSecrets, SecretsTypes
<1>2. missed' \in BOOLEAN
  BY DEF LoginNext, TabStep, Noted, loginVars
<1>3. ASSUME NEW t \in Tabs, TabStep(t) PROVE LoginType'
  BY <1>1, <1>2, <1>3, TabTypes, TabGate DEF BrowserTypeOK, GoodCookie
<1>4. ASSUME NEW t \in Tabs, NEW r \in Routes, Visit(t, r) PROVE LoginType'
  BY <1>1, <1>2, <1>4 DEF Visit, AtGate, secrets
<1>5. CASE RestartLogin
  <2>1. jar' \in Cookies /\ (jar'.key = "none" <=> jar'.session = NoSession)
    BY <1>5 DEF RestartLogin, Aged, Cookies
  <2>2. \A t \in Tabs : at'[t] # "gate" /\ at'[t] \in {"quiet", "going", "serving", "gate", "idp"}
    BY <1>5 DEF RestartLogin, InFlight
  <2> QED  BY <1>1, <1>2, <1>5, <2>1, <2>2, SessionTypes DEF RestartLogin, AtGate
<1>6. CASE OtherThreads
  <2>1. \A t \in Tabs : lookup'[t] = lookup[t]
    <3>1. CASE Administer
      BY <3>1 DEF Administer, Write, Rotate, Drop, ClearCache
    <3>2. CASE \E r \in Readers \ Tabs : (\E k \in Keys : Ask(r, k)) \/ LookupStep(r) \/ Leave(r)
      BY <3>2, LookupMoves, LoginAssumption
    <3> QED  BY <1>6, <3>1, <3>2 DEF OtherThreads
  <2> QED  BY <1>1, <1>2, <1>6, <2>1 DEF OtherThreads, browser, AtGate
<1>7. CASE UNCHANGED loginVars
  BY <1>1, <1>2, <1>7 DEF loginVars, browser, secrets, AtGate
<1> QED  BY <1>3, <1>4, <1>5, <1>6, <1>7 DEF LoginNext

LEMMA LoginTypeInvariant == LoginSpec => []LoginType
<1>1. LoginInit => LoginType
  BY LoginTypeInit DEF LoginInit, LoginType, AtGate
<1> QED  BY <1>1, LoginTypeNext, PTL DEF LoginSpec

\* Every variable keeps to its type: above all, a session belongs to an account
\* or to nobody, and there is a cookie exactly when there is something in it.
THEOREM LoginTypeCorrect == LoginSpec => []LoginTypeOK
  BY LoginTypeInvariant, PTL DEF LoginType

-----------------------------------------------------------------------------
(* The gate *)

\* An empty answer for the allowed group, kept or about to be, was once found.
OpenGateIsNoted ==
    /\ cache[GroupKey] = Empty => missed
    /\ \A r \in Readers :
          /\ lookup[r].key = GroupKey /\ lookup[r].at \in {"storing", "answered"}
          /\ lookup[r].got = Empty
          => missed

\* A lookup answers with nothing only if some lookup found nothing: it takes what
\* is cached, or comes back from the environment and the vault, which is noted.
LEMMA LookupNotes ==
    ASSUME SecretsTypeOK, missed \in BOOLEAN, OpenGateIsNoted, Noted, NEW r \in Readers,
           (\E k \in Keys : Ask(r, k)) \/ LookupStep(r) \/ Leave(r)
    PROVE  OpenGateIsNoted'
<1> USE KeyParts, GroupKeyIsKey DEF SecretsTypeOK, OpenGateIsNoted
<1>1. missed => missed'
  BY DEF Noted
<1>2. CASE \E k \in Keys : Ask(r, k)
  BY <1>1, <1>2 DEF Ask, Asking, Lookup
<1>3. CASE Check(r)
  <2>1. lookup[r].key = GroupKey => lookup'[r].at \in {"taking", "fetching"}
    BY <1>3 DEF Check, GroupKey
  <2> QED  BY <1>1, <1>3, <2>1 DEF Check
<1>4. CASE Take(r)
  BY <1>1, <1>4 DEF Take, Lookup
<1>5. CASE FetchOrFail(r)
  <2>1. PICK v \in Found(lookup[r].key) :
            lookup' = [lookup EXCEPT ![r].at = "storing", ![r].got = v]
    BY <1>5 DEF FetchOrFail
  <2>2. lookup'[r].at = "storing" /\ lookup'[r].got = v /\ lookup[r].at = "fetching"
    BY <1>5, <2>1 DEF FetchOrFail
  <2>3. lookup[r].key = GroupKey /\ v = Empty => missed'
    BY <2>2 DEF Noted, Misses, GroupKey
  <2> QED  BY <1>1, <1>5, <2>1, <2>3 DEF FetchOrFail
<1>6. CASE Store(r)
  BY <1>1, <1>6 DEF Store
<1>7. CASE Leave(r)
  BY <1>1, <1>7 DEF Leave, Idle, Lookup
<1> QED  BY <1>2, <1>3, <1>4, <1>5, <1>6, <1>7 DEF LookupStep

\* Nothing else puts an empty answer anywhere.
LEMMA SecretsNote ==
    ASSUME SecretsTypeOK, missed \in BOOLEAN, OpenGateIsNoted, Noted, [SecretsNext]_secrets
    PROVE  OpenGateIsNoted'
<1> USE GroupKeyIsKey, SecretsAssumption DEF SecretsTypeOK, OpenGateIsNoted
<1>1. missed => missed'
  BY DEF Noted
<1>2. Absent # Empty
  BY DEF Words
<1>3. CASE \E r \in Readers : (\E k \in Keys : Ask(r, k)) \/ LookupStep(r) \/ Leave(r)
  BY <1>3, LookupNotes
<1>4. CASE Administer
  <2>1. lookup' = lookup /\ (cache'[GroupKey] = cache[GroupKey] \/ cache'[GroupKey] = Absent)
    BY <1>4 DEF Administer, Write, Rotate, Drop, ClearCache
  <2> QED  BY <1>1, <1>2, <2>1
<1>5. CASE RestartSecrets
  <2>1. cache'[GroupKey] = Absent /\ \A r \in Readers : lookup'[r] = Idle
    BY <1>5 DEF RestartSecrets
  <2>2. Idle.at = "idle"
    BY DEF Idle, Lookup
  <2> QED  BY <1>1, <1>2, <2>1, <2>2
<1>6. CASE UNCHANGED secrets
  BY <1>1, <1>6 DEF secrets
<1> QED  BY <1>3, <1>4, <1>5, <1>6 DEF SecretsNext

LEMMA LoginNotes ==
    ASSUME LoginType, OpenGateIsNoted, [LoginNext]_loginVars PROVE OpenGateIsNoted'
<1>1. SecretsTypeOK /\ missed \in BOOLEAN
  BY DEF LoginType, LoginTypeOK
<1>2. CASE Noted
  BY <1>1, <1>2, LoginSecrets, SecretsNote
<1>3. CASE UNCHANGED loginVars
  BY <1>3 DEF loginVars, secrets, OpenGateIsNoted
<1> QED  BY <1>2, <1>3 DEF LoginNext, TabStep

\* a is in no session and no cookie.
Outside(a) == jar.session.user # a /\ \A t \in Tabs : session[t].user # a

\* The response of a session without a writes a cookie without a.
LEMMA ResponseStaysOutside ==
    ASSUME LoginType, NEW a \in Accounts, Outside(a), NEW t \in Tabs,
           NEW s \in Sessions, s.user # a, NEW next, Answer(t, s, next)
    PROVE  Outside(a)'
<1>1. NoSession.user # a
  BY LoginAssumption DEF NoSession
<1>2. jar'.session.user # a
  BY <1>1 DEF Answer, SetJar, Written, NoCookie, Outside
<1>3. \A u \in Tabs : session'[u].user # a
  BY <1>1 DEF Answer, Proceed, Outside, LoginType, LoginTypeOK
<1> QED  BY <1>2, <1>3 DEF Outside

\* While no lookup of the allowed group has come back with nothing, an account
\* that belongs to no group stays outside: Decide admits the members of a group.
LEMMA OutsiderStaysOutside ==
    ASSUME LoginType, OpenGateIsNoted, ~missed, [LoginNext]_loginVars,
           NEW a \in Accounts, GroupsOf[a] = {}, Outside(a)
    PROVE  Outside(a)'
<1> USE DEF LoginType, LoginTypeOK
<1>1. /\ NoSession.user # a /\ NoSession \in Sessions
      /\ \A t \in Tabs : session[t] \in Sessions /\ Popped(t) \in Sessions /\ Popped(t).user # a
  BY SessionTypes, LoginAssumption DEF NoSession, Popped, Sessions, Outside
<1>2. ASSUME NEW t \in Tabs, Raise(t) PROVE Outside(a)'
  BY <1>1, <1>2 DEF Raise, SetJar, Proceed, Outside
<1>3. ASSUME NEW t \in Tabs, TabStep(t) PROVE Outside(a)'
  <2>1. CASE Send(t)
    BY <1>1, <2>1 DEF Send, Opened, Outside
  <2>2. CASE (\E b \in Accounts \cup {Refused} : Return(t, b)) \/ GateLooks(t)
    BY <2>2 DEF Return, GateLooks, browser, Outside
  <2>3. CASE ServePage(t) \/ ServeStatus(t)
    BY <1>1, <2>3, ResponseStaysOutside DEF ServePage, ServeStatus, Outside
  <2>4. CASE ServeLogin(t)
    <3>1. CASE LoginWith(t, [session[t] EXCEPT !.flow = t])
      BY <1>1, <3>1 DEF LoginWith, SetJar, Outdated, Outside, Sessions
    <3>2. CASE MsalRaises(t)
      BY <1>2, <3>2 DEF MsalRaises
    <3> QED  BY <2>4, <3>1, <3>2 DEF ServeLogin
  <2>5. CASE CallbackFails(t)
    BY <1>1, <1>2, <2>5, ResponseStaysOutside DEF CallbackFails, MsalRaises
  <2>6. CASE CallbackAccepted(t)
    BY <1>1, <2>6 DEF CallbackAccepted, Outside
  <2>7. CASE Decide(t)
    <3>1. CASE lookup[t].at = "raised"
      BY <1>2, <2>7, <3>1 DEF Decide
    <3>2. CASE lookup[t].at # "raised" /\ Allowed(who[t], lookup[t].got)
      <4>1. lookup[t].key = GroupKey /\ lookup[t].at = "answered" /\ who[t] \in Accounts
        BY <2>7, <3>2 DEF Decide, Leave, AtGate
      <4>2. lookup[t].got # Empty
        BY <4>1, LoginAssumption DEF OpenGateIsNoted
      <4>3. who[t] # a
        BY <3>2, <4>2 DEF Allowed
      <4>4. [session[t] EXCEPT !.user = who[t]] \in Sessions
        BY <1>1, <4>1 DEF Sessions
      <4>5. [session[t] EXCEPT !.user = who[t]].user # a
        BY <1>1, <4>3 DEF Sessions
      <4> QED  BY <2>7, <3>2, <4>4, <4>5, ResponseStaysOutside DEF Decide
    <3>3. CASE lookup[t].at # "raised" /\ ~Allowed(who[t], lookup[t].got)
      BY <1>1, <2>7, <3>3, ResponseStaysOutside DEF Decide, Outside
    <3> QED  BY <3>1, <3>2, <3>3
  <2>8. CASE ServeLogout(t)
    BY <1>1, <1>2, <2>8, ResponseStaysOutside DEF ServeLogout
  <2> QED  BY <1>3, <2>1, <2>2, <2>3, <2>4, <2>5, <2>6, <2>7, <2>8 DEF TabStep
<1>4. ASSUME NEW t \in Tabs, NEW r \in Routes, Visit(t, r) PROVE Outside(a)'
  BY <1>4 DEF Visit, Outside
<1>5. CASE RestartLogin
  BY <1>1, <1>5 DEF RestartLogin, Aged, Cookies, Outside
<1>6. CASE OtherThreads \/ UNCHANGED loginVars
  BY <1>6 DEF OtherThreads, loginVars, browser, Outside
<1> QED  BY <1>3, <1>4, <1>5, <1>6 DEF LoginNext

\* An account of no group is signed in only if some lookup of the allowed group
\* has found none, whatever the cache, its administrators and restarts do.
THEOREM OutsidersStayOut == LoginSpec => []OutsidersNeedAnOpenGate
<1> DEFINE Inv == OpenGateIsNoted /\ OutsidersNeedAnOpenGate
<1>1. LoginInit => Inv
  <2> SUFFICES ASSUME LoginInit PROVE Inv
    OBVIOUS
  <2>1. cache[GroupKey] # Empty /\ \A r \in Readers : lookup[r].at = "idle"
    BY GroupKeyIsKey, SecretsAssumption DEF LoginInit, SecretsInit, Words, Idle, Lookup
  <2>2. jar.session.user = None /\ \A t \in Tabs : session[t].user = None
    BY DEF LoginInit, NoCookie, NoSession
  <2> QED  BY <2>1, <2>2, LoginAssumption DEF OpenGateIsNoted, OutsidersNeedAnOpenGate
<1>2. LoginType /\ Inv /\ [LoginNext]_loginVars => Inv'
  <2> SUFFICES ASSUME LoginType, Inv, [LoginNext]_loginVars PROVE Inv'
    OBVIOUS
  <2>1. missed => missed'
    BY DEF LoginNext, TabStep, Noted, loginVars
  <2>2. OutsidersNeedAnOpenGate'
    <3> SUFFICES ASSUME NEW a \in Accounts, GroupsOf[a] = {}, ~Outside(a)' PROVE missed'
      BY DEF OutsidersNeedAnOpenGate, Outside
    <3>1. ~Outside(a) => missed
      BY DEF OutsidersNeedAnOpenGate, Outside
    <3> QED  BY <2>1, <3>1, OutsiderStaysOutside
  <2> QED  BY <2>2, LoginNotes
<1> QED  BY <1>1, <1>2, LoginTypeInvariant, PTL DEF LoginSpec

-----------------------------------------------------------------------------
(* Who is signed in *)

\* A request sent since the signed-in user last changed works on a copy with that
\* user.
InStep == \A t \in Tabs : InFlight(t) /\ t \notin straddling => session[t].user = SignedIn

\* The user a response leaves signed in.
LEMMA ResponseKeepsUser ==
    ASSUME LoginType, NEW t \in Tabs, at[t] = "serving", session[t].user = SignedIn, key' = key,
           NEW s \in Sessions, s.user = session[t].user, jar' = Written(jar, t, s)
    PROVE  SignedIn' = SignedIn
<1>1. CASE s # NoSession
  BY <1>1 DEF Written, SignedIn, Opened
<1>2. CASE s = NoSession /\ session[t] # NoSession
  BY <1>2 DEF Written, SignedIn, Opened, NoCookie, NoSession, LoginType, LoginTypeOK
<1>3. CASE s = NoSession /\ session[t] = NoSession
  BY <1>3 DEF Written, SignedIn, Opened
<1> QED  BY <1>1, <1>2, <1>3

\* A tab changes who is signed in only by the response of a sign-in, of a logout
\* or of a request that straddles such a change.
LEMMA TabKeepsUser ==
    ASSUME LoginType, InStep, NEW t \in Tabs, TabStep(t), SignedIn' # SignedIn
    PROVE  /\ InFlight(t) /\ ~InFlight(t)'
           /\ t \in straddling \/ at[t] = "gate" \/ route[t] = "logout"
<1> USE DEF LoginType, LoginTypeOK
<1>1. key' = key /\ jar' # jar
  BY TabTypes DEF SignedIn, Opened
<1>2. ~(Send(t) \/ (\E a \in Accounts \cup {Refused} : Return(t, a)) \/ CallbackAccepted(t) \/ GateLooks(t))
  BY <1>1 DEF Send, Return, CallbackAccepted, GateLooks, browser
<1>3. InFlight(t) /\ ~InFlight(t)'
  BY <1>2 DEF TabStep, ServePage, ServeStatus, ServeLogin, CallbackFails, Decide, ServeLogout,
              Serving, LoginWith, Answer, Raise, MsalRaises, Proceed, InFlight, Routes
<1>4. ASSUME t \notin straddling, at[t] # "gate", route[t] # "logout" PROVE FALSE
  <2>1. at[t] = "serving" /\ session[t].user = SignedIn
    BY <1>3, <1>4 DEF InFlight, InStep
  <2>2. session[t] \in Sessions /\ Popped(t) \in Sessions /\ Popped(t).user = session[t].user
    BY SessionTypes DEF Popped, Sessions
  <2>3. CASE ServePage(t) \/ ServeStatus(t)
    BY <1>1, <2>1, <2>2, <2>3, ResponseKeepsUser DEF ServePage, ServeStatus, Answer, SetJar
  <2>4. CASE ServeLogin(t)
    BY <1>1, <2>1, <2>2, <2>4
    DEF ServeLogin, LoginWith, MsalRaises, Raise, SetJar, SignedIn, Opened, Sessions
  <2>5. CASE CallbackFails(t)
    BY <1>1, <2>1, <2>2, <2>5, ResponseKeepsUser
    DEF CallbackFails, MsalRaises, Raise, Answer, SetJar
  <2> QED  BY <1>2, <1>4, <2>3, <2>4, <2>5 DEF TabStep, Decide, ServeLogout, Serving
<1> QED  BY <1>3, <1>4

\* When a change of the user is written, every other request in flight straddles it.
LEMMA SetJarKeepsStep ==
    ASSUME LoginType, InStep, NEW t \in Tabs, NEW c, SetJar(t, c), key' = key, ~InFlight(t)',
           \A u \in Tabs \ {t} : at'[u] = at[u] /\ session'[u].user = session[u].user
    PROVE  InStep'
<1>1. SignedIn' = Opened(c).user
  BY DEF SetJar, SignedIn, Opened
<1> QED  BY <1>1 DEF SetJar, InStep, InFlight

LEMMA StepsStayInStep ==
    ASSUME LoginType, InStep, [LoginNext]_loginVars PROVE InStep'
<1> USE DEF LoginType, LoginTypeOK
<1>1. ASSUME NEW t \in Tabs, TabStep(t) PROVE InStep'
  <2>1. key' = key
    BY <1>1, TabTypes
  <2>2. ASSUME NEW c, SetJar(t, c), NEW next \in Routes \cup {"quiet"}, Proceed(t, next) PROVE InStep'
    <3>1. ~InFlight(t)' /\ \A u \in Tabs \ {t} : at'[u] = at[u] /\ session'[u] = session[u]
      BY <2>2 DEF Proceed, InFlight, Routes
    <3> QED  BY <2>1, <2>2, <3>1, SetJarKeepsStep
  <2>3. {"login", "page", "quiet"} \subseteq Routes \cup {"quiet"}
    BY DEF Routes
  <2>4. CASE Send(t)
    BY <2>1, <2>4 DEF Send, InStep, InFlight, SignedIn, Opened
  <2>5. CASE (\E a \in Accounts \cup {Refused} : Return(t, a)) \/ GateLooks(t)
    BY <2>1, <2>5 DEF Return, GateLooks, browser, InStep, InFlight, SignedIn, Opened
  <2>6. CASE CallbackAccepted(t)
    <3>1. Popped(t).user = session[t].user
      BY DEF Popped, Sessions
    <3> QED  BY <2>1, <2>6, <3>1
             DEF CallbackAccepted, Serving, InStep, InFlight, SignedIn, Opened
  <2>7. CASE ServeLogin(t)
    <3>1. CASE LoginWith(t, [session[t] EXCEPT !.flow = t])
      <4>1. \A u \in Tabs \ {t} : at'[u] = at[u] /\ session'[u].user = session[u].user
        BY <3>1 DEF LoginWith, Outdated, Sessions
      <4>2. ~InFlight(t)'
        BY <3>1 DEF LoginWith, InFlight
      <4> QED  BY <2>1, <3>1, <4>1, <4>2, SetJarKeepsStep DEF LoginWith
    <3>2. CASE MsalRaises(t)
      BY <2>2, <2>3, <3>2 DEF MsalRaises, Raise
    <3> QED  BY <2>7, <3>1, <3>2 DEF ServeLogin
  <2>8. CASE ServePage(t) \/ ServeStatus(t) \/ CallbackFails(t) \/ Decide(t) \/ ServeLogout(t)
    <3>1. \E c : \E next \in Routes \cup {"quiet"} : SetJar(t, c) /\ Proceed(t, next)
      BY <2>3, <2>8 DEF ServePage, ServeStatus, CallbackFails, Decide, ServeLogout, MsalRaises,
                        Raise, Answer
    <3> QED  BY <2>2, <3>1
  <2> QED  BY <1>1, <2>4, <2>5, <2>6, <2>7, <2>8 DEF TabStep
<1>2. ASSUME NEW t \in Tabs, NEW r \in Routes, Visit(t, r) PROVE InStep'
  BY <1>2 DEF Visit, InStep, InFlight, SignedIn, Opened
<1>3. CASE RestartLogin
  BY <1>3 DEF RestartLogin, InStep, InFlight
<1>4. CASE OtherThreads \/ UNCHANGED loginVars
  BY <1>4 DEF OtherThreads, loginVars, browser, InStep, InFlight, SignedIn, Opened
<1> QED  BY <1>1, <1>2, <1>3, <1>4 DEF LoginNext

\* Who is signed in changes only by a completed sign-in, a logout, a restart or the
\* late response of a request that straddles an earlier change, for any number of
\* tabs and in any interleaving of their requests.
THEOREM UsersChangeForACause == LoginSpec => UserChangesHaveACause
<1> DEFINE Caused ==
        SignedIn' # SignedIn =>
          \/ RestartLogin
          \/ \E t \in Tabs :
                /\ InFlight(t) /\ ~InFlight(t)'
                /\ t \in straddling \/ at[t] = "gate" \/ route[t] = "logout"
<1>1. LoginInit => InStep
  BY DEF LoginInit, InStep, InFlight
<1>2. LoginType /\ InStep /\ [LoginNext]_loginVars => InStep'
  BY StepsStayInStep
<1>3. LoginType /\ InStep /\ [LoginNext]_loginVars => [Caused]_loginVars
  <2> SUFFICES ASSUME LoginType, InStep, LoginNext PROVE Caused
    OBVIOUS
  <2>1. ASSUME NEW t \in Tabs, TabStep(t) PROVE Caused
    BY <2>1, TabKeepsUser
  <2>2. ASSUME NEW t \in Tabs, NEW r \in Routes, Visit(t, r) PROVE Caused
    BY <2>2 DEF Visit, SignedIn, Opened
  <2>3. CASE OtherThreads
    BY <2>3 DEF OtherThreads, browser, SignedIn, Opened
  <2> QED  BY <2>1, <2>2, <2>3 DEF LoginNext
<1>4. LoginSpec => [][Caused]_loginVars
  BY <1>1, <1>2, <1>3, LoginTypeInvariant, PTL DEF LoginSpec
<1> QED  BY <1>4 DEF UserChangesHaveACause
=============================================================================
