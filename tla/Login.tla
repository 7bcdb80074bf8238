-------------------------------- MODULE Login --------------------------------
(***************************************************************************)
(* Signing in (app/auth.py and the middleware of app/main.py): the tabs of *)
(* one browser, which share its cookie jar, the session that every         *)
(* response writes back into it, the identity provider, and restarts.      *)
(*                                                                         *)
(* The session lives in the cookie, so a request works on the copy it was  *)
(* sent with and its response overwrites what others have written since.   *)
(* The server keeps a signing key and the secrets of SecretCache, of which *)
(* the group allowed to sign in is looked up here; the settings of the app *)
(* registration are part of what MSAL does.  DEV_AUTH_BYPASS is off.       *)
(*                                                                         *)
(* A flow is named after the tab whose sign-in started it, and is Old once *)
(* that tab has started another.                                           *)
(***************************************************************************)
EXTENDS SecretCache

CONSTANTS
    Tabs,           \* tabs of the browser
    Accounts,       \* accounts of the identity provider
    GroupsOf,       \* GroupsOf[a]: the groups claim of an account
    Group,          \* ENTRA_ALLOWED_GROUP_ID
    None,           \* no user, no flow
    Old,            \* a flow nobody will come back with
    Refused         \* the identity provider answers with an error

ASSUME LoginAssumption ==
    /\ Tabs \subseteq Readers
    /\ Group \in Names
    /\ GroupsOf \in [Accounts -> SUBSET Values]
    /\ None \notin Accounts \cup Tabs /\ Refused \notin Accounts
    /\ Old \notin Tabs \cup {None}

VARIABLES
    key,        \* the key SessionMiddleware signs with: "shared" or this process's "own"
    jar,        \* the session cookie
    at,         \* at[t]: what the tab is doing
    route,      \* route[t]: the path it asks for
    session,    \* session[t]: request.session of its request
    who,        \* who[t]: what the identity provider has sent it back with
    straddling, \* ghost: the requests sent before the signed-in user last changed
    missed      \* ghost: some lookup of the allowed group has found none

browser == <<jar, at, route, session, who>>
loginVars == <<secrets, key, browser, straddling, missed>>

Routes == {"page", "status", "login", "callback", "logout"}
Sessions == [user : Accounts \cup {None}, flow : Tabs \cup {Old, None}]
NoSession == [user |-> None, flow |-> None]
Cookies == [session : Sessions, key : {"shared", "own", "old", "none"}]
NoCookie == [session |-> NoSession, key |-> "none"]

LoginTypeOK ==
    /\ SecretsTypeOK
    /\ key \in {"shared", "own"}
    /\ jar \in Cookies /\ (jar.key = "none" <=> jar.session = NoSession)
    /\ at \in [Tabs -> {"quiet", "going", "serving", "gate", "idp"}]
    /\ route \in [Tabs -> Routes]
    /\ session \in [Tabs -> Sessions]
    /\ who \in [Tabs -> Accounts \cup {Refused}]
    /\ straddling \subseteq Tabs /\ missed \in BOOLEAN

\* get_secret("SESSION_SECRET") or a random key: nothing there, or it was not found.
LoginInit ==
    /\ SecretsInit
    /\ key \in {"shared", "own"}
    /\ jar = NoCookie
    /\ at = [t \in Tabs |-> "quiet"]
    /\ route = [t \in Tabs |-> "page"]
    /\ session = [t \in Tabs |-> NoSession]
    /\ who = [t \in Tabs |-> Refused]
    /\ straddling = {} /\ missed = FALSE

-----------------------------------------------------------------------------
(* SessionMiddleware: the cookie is opened for a request and every response *)
(* writes the session back, or drops the cookie when it has been emptied.   *)

Opened(cookie) == IF cookie.key = key THEN cookie.session ELSE NoSession
SignedIn == Opened(jar).user
InFlight(t) == at[t] \in {"serving", "gate"}

WrittenAlways(c, t, s) == [session |-> s, key |-> key]

\* What the response of t with session s makes of the jar c.
Written(c, t, s) ==
    IF s # NoSession THEN [session |-> s, key |-> key]
    ELSE IF at[t] = "gate" \/ session[t] # NoSession THEN NoCookie ELSE c

SetJar(t, c) ==
    /\ jar' = c
    /\ straddling' = IF Opened(c).user # SignedIn
                     THEN {u \in Tabs \ {t} : InFlight(u)} ELSE straddling \ {t}

\* The tab has its response and goes on to the next page, or stays here.
Proceed(t, next) ==
    /\ at' = [at EXCEPT ![t] = IF next \in Routes THEN "going" ELSE next]
    /\ route' = [route EXCEPT ![t] = IF next \in Routes THEN next ELSE "page"]
    /\ session' = [session EXCEPT ![t] = NoSession]
    /\ who' = [who EXCEPT ![t] = IF next = "callback" THEN @ ELSE Refused]

Answer(t, s, next) == SetJar(t, Written(jar, t, s)) /\ Proceed(t, next)

\* An exception: the 500 page is sent from outside SessionMiddleware.
Raise(t) == SetJar(t, jar) /\ Proceed(t, "quiet")

\* MSAL raises: a setting is missing or the authority cannot be reached.
MsalRaises(t) == Raise(t)

-----------------------------------------------------------------------------
(* The browser and the identity provider *)

\* The user opens a page, reloads the last callback, or leaves a sign-in.
Visit(t, r) ==
    /\ at[t] \in {"quiet", "idp"}
    /\ at' = [at EXCEPT ![t] = "going"]
    /\ route' = [route EXCEPT ![t] = r]
    /\ UNCHANGED <<secrets, key, jar, session, who, straddling>>

Send(t) ==
    /\ at[t] = "going"
    /\ at' = [at EXCEPT ![t] = "serving"]
    /\ session' = [session EXCEPT ![t] = Opened(jar)]
    /\ straddling' = straddling \ {t}
    /\ UNCHANGED <<secrets, key, jar, route, who>>

\* The user signs in, or the provider sends the tab back with an error.
Return(t, a) ==
    /\ at[t] = "idp"
    /\ at' = [at EXCEPT ![t] = "going"]
    /\ route' = [route EXCEPT ![t] = "callback"]
    /\ who' = [who EXCEPT ![t] = a]
    /\ UNCHANGED <<secrets, key, jar, session, straddling>>

-----------------------------------------------------------------------------
(* The handlers *)

Serving(t, r) == at[t] = "serving" /\ route[t] = r

\* AuthMiddleware in front of every page that is not public.
ServePage(t) ==
    /\ Serving(t, "page")
    /\ Answer(t, session[t], IF session[t].user = None THEN "login" ELSE "quiet")
    /\ UNCHANGED <<secrets, key>>

\* /auth/status, and other public paths, which the guard lets through.
ServeStatus(t) ==
    /\ Serving(t, "status")
    /\ Answer(t, session[t], "quiet")
    /\ UNCHANGED <<secrets, key>>

\* s with the flow of t, if it has it, replaced.
Outdated(s, t) == IF s.flow = t THEN [s EXCEPT !.flow = Old] ELSE s

LoginWith(t, s) ==
    /\ SetJar(t, [session |-> s, key |-> key])
    /\ at' = [at EXCEPT ![t] = "idp"]
    /\ route' = [route EXCEPT ![t] = "page"]
    /\ session' = [u \in Tabs |-> IF u = t THEN NoSession ELSE Outdated(session[u], t)]
    /\ who' = [who EXCEPT ![t] = Refused]

LoginForgetting(t) ==
    /\ Serving(t, "login")
    /\ LoginWith(t, [user |-> None, flow |-> t]) \/ Raise(t)
    /\ UNCHANGED <<secrets, key>>

LoginUnstored(t) ==
    /\ Serving(t, "login")
    /\ LoginWith(t, [session[t] EXCEPT !.flow = Old]) \/ Raise(t)
    /\ UNCHANGED <<secrets, key>>

\* A new flow goes into the session.
ServeLogin(t) ==
    /\ Serving(t, "login")
    /\ LoginWith(t, [session[t] EXCEPT !.flow = t]) \/ MsalRaises(t)
    /\ UNCHANGED <<secrets, key>>

Popped(t) == [session[t] EXCEPT !.flow = None]

\* No flow, a flow that is not the one the tab comes back from (ValueError), or
\* an error of the provider, whose code may also have been used before.
CallbackFails(t) ==
    /\ Serving(t, "callback")
    /\ \/ session[t].flow # t /\ Answer(t, Popped(t), "login")
       \/ session[t].flow = t /\ who[t] = Refused /\ Answer(t, Popped(t), "quiet")
       \/ session[t].flow # None /\ MsalRaises(t)
    /\ UNCHANGED <<secrets, key>>

\* The code is exchanged, and the allowed group looked up.
CallbackAccepted(t) ==
    /\ Serving(t, "callback")
    /\ session[t].flow = t /\ who[t] \in Accounts
    /\ Ask(t, <<"any", Group>>)
    /\ at' = [at EXCEPT ![t] = "gate"]
    /\ session' = [session EXCEPT ![t] = Popped(t)]
    /\ UNCHANGED <<key, jar, route, who, straddling>>

GateLooks(t) ==
    /\ at[t] = "gate"
    /\ LookupStep(t)
    /\ UNCHANGED <<key, browser, straddling>>

Allowed(a, group) == group = Empty \/ group \in GroupsOf[a]

\* Admitted, denied with 403, or the lookup raised.
Decide(t) ==
    /\ at[t] = "gate"
    /\ Leave(t)
    /\ IF lookup[t].at = "raised" THEN Raise(t)
       ELSE IF Allowed(who[t], lookup[t].got)
            THEN Answer(t, [session[t] EXCEPT !.user = who[t]], "page")
            ELSE Answer(t, session[t], "quiet")
    /\ UNCHANGED key

\* The 500 page when a setting is dropped from the cache while it is looked up.
ServeLogout(t) ==
    /\ Serving(t, "logout")
    /\ Answer(t, NoSession, "quiet") \/ Raise(t)
    /\ UNCHANGED <<secrets, key>>

-----------------------------------------------------------------------------
(* A new process: requests in flight are cut, and without a shared secret  *)
(* the cookies of the last process are no longer valid.                    *)

Aged(c) == IF c.key = "own" THEN [c EXCEPT !.key = "old"] ELSE c

RestartLogin ==
    /\ RestartSecrets
    /\ key' \in {"shared", "own"}
    /\ jar' = Aged(jar)
    /\ at' = [t \in Tabs |-> IF InFlight(t) THEN "quiet" ELSE at[t]]
    /\ session' = [t \in Tabs |-> NoSession]
    /\ straddling' = {}
    /\ UNCHANGED <<route, who>>

\* Threads outside these requests look secrets up, and an administrator acts.
OtherThreads ==
    /\ \/ \E r \in Readers \ Tabs : (\E k \in Keys : Ask(r, k)) \/ LookupStep(r) \/ Leave(r)
       \/ Administer
    /\ UNCHANGED <<key, browser, straddling>>

\* A thread comes back from the environment and the vault with nothing.
Misses(r) ==
    lookup[r].at = "fetching" /\ lookup[r].key = <<"any", Group>>
    /\ lookup'[r].at = "storing" /\ lookup'[r].got = Empty

Noted == missed' = (missed \/ \E r \in Readers : Misses(r))

TabStep(t) ==
    /\ \/ Send(t) \/ (\E a \in Accounts \cup {Refused} : Return(t, a))
       \/ ServePage(t) \/ ServeStatus(t) \/ ServeLogin(t) \/ CallbackFails(t)
       \/ CallbackAccepted(t) \/ GateLooks(t) \/ Decide(t) \/ ServeLogout(t)
    /\ Noted

LoginNext ==
    \/ \E t \in Tabs : (\E r \in Routes : Visit(t, r) /\ Noted) \/ TabStep(t)
    \/ RestartLogin /\ Noted
    \/ OtherThreads /\ Noted

LoginSpec == LoginInit /\ [][LoginNext]_loginVars

\* Requests are served, browsers follow redirects, and a user at the identity
\* provider signs in, is refused or leaves.
FairLoginSpec == LoginSpec /\ \A t \in Tabs : WF_loginVars(TabStep(t))

-----------------------------------------------------------------------------
(* Properties *)

\* An account that belongs to no group is in a session only if some lookup of
\* the allowed group found none (auth.py:103: the gate is skipped without one).
OutsidersNeedAnOpenGate ==
    \A a \in Accounts :
        GroupsOf[a] = {} /\ (jar.session.user = a \/ \E t \in Tabs : session[t].user = a)
            => missed

\* Who is signed in changes by a completed sign-in, a logout, a restart, or the
\* late response of a request sent before the last such change: nothing else a
\* tab does signs the user in or out.
UserChangesHaveACause ==
    [][SignedIn' # SignedIn =>
          \/ RestartLogin
          \/ \E t \in Tabs :
                /\ InFlight(t) /\ ~InFlight(t)'
                /\ t \in straddling \/ at[t] = "gate" \/ route[t] = "logout"]_loginVars

LeftAlone ==
    /\ ~RestartLogin
    /\ \A t \in Tabs :
          at[t] \in {"quiet", "idp"} /\ at'[t] = "going" => at[t] = "idp" /\ route'[t] = "callback"

\* A sign-in ends, in a page, a denial or an error, once the process stays up, the
\* user opens nothing else, and the other tabs have come to rest (two tabs may
\* overwrite each other's flow for ever).
SignInEnds ==
    \A t \in Tabs :
        (<>[](\A u \in Tabs \ {t} : at[u] = "quiet") /\ <>[][LeftAlone]_loginVars)
            => (at[t] # "quiet" ~> at[t] = "quiet")
=============================================================================
