-------------------------- MODULE ToolCallsProofs ---------------------------
(***************************************************************************)
(* Proofs about ToolCalls, for any calls and windows.  It looks its        *)
(* settings up in SecretCache, about which LoginProofs has the lemmas.     *)
(*                                                                         *)
(* Why integrations do not flap: startup has looked each of them up before *)
(* the first request, so every later lookup takes what is cached, and      *)
(* nothing stores over it.                                                 *)
(***************************************************************************)
EXTENDS ToolCalls, LoginProofs, TLAPS

-----------------------------------------------------------------------------
(* Startup and the tool calls *)

Call == [at : Places, service : Services, valid : BOOLEAN,
         first : Heard, second : Heard, outcome : Outcomes]

\* A call at rest is well typed.
LEMMA RestIsCall == Rest \in Call
  BY DEF Rest, Call, Places, Services, Heard, Outcomes

\* Every service has its integration.
LEMMA SettingIsIntegration == \A service : Setting(service) \in Integrations
  BY DEF Setting, Integrations

\* Every tool belongs to a service.
LEMMA ToolServices == \A tool \in AllTools : tool.service \in Services
<1>1. \A n \in DOMAIN FalconTools : FalconTools[n].service = "falcon"
  BY DEF FalconTools, Tool
<1>2. \A n \in DOMAIN SentinelTools : SentinelTools[n].service = "sentinel"
  BY DEF SentinelTools, Tool
<1>3. ASSUME NEW n \in DOMAIN ThreatIntelTools
      PROVE  ThreatIntelTools[n].service \in {"ip reputation", "reputation"}
  <2>1. n \in {"ip_reputation", "hash_reputation", "domain_reputation"}
    BY DEF ThreatIntelTools
  <2>2. ThreatIntelTools.ip_reputation.service = "ip reputation"
    BY DEF ThreatIntelTools, Tool
  <2>3. ThreatIntelTools.hash_reputation.service = "reputation"
    BY DEF ThreatIntelTools, Tool
  <2>4. ThreatIntelTools.domain_reputation.service = "reputation"
    BY DEF ThreatIntelTools, Tool
  <2> QED  BY <2>1, <2>2, <2>3, <2>4
<1>4. \A n \in DOMAIN JiraTools : JiraTools[n].service \in {"issue", "search"}
  BY DEF JiraTools, Tool
<1> QED  BY <1>1, <1>2, <1>3, <1>4 DEF AllTools, Services, JiraServices, Reputations

\* The settings are secrets, and each has an entry of get_secret.
LEMMA Entries ==
    \A s \in Integrations \cup {SentinelKey, VirusTotal, AbuseIPDB} :
        s \in Names /\ <<"any", s>> \in Keys
  BY ToolsAssumption DEF Keys

\* Calls and the starting thread look up for themselves.
LEMMA Threads == Starter \in Readers /\ \A c \in Calls : c \in Readers /\ c # Starter
  BY ToolsAssumption

-----------------------------------------------------------------------------
\* Each form in which a step updates the call of c.
LEMMA Updates ==
    ASSUME call \in [Calls -> Call], NEW c \in Calls, NEW p \in Places, NEW o \in Outcomes,
           NEW a \in Heard, NEW s \in Services, NEW v \in BOOLEAN
    PROVE  /\ [call EXCEPT ![c].at = p] \in [Calls -> Call]
           /\ [call EXCEPT ![c].at = p, ![c].outcome = o] \in [Calls -> Call]
           /\ [call EXCEPT ![c].at = p, ![c].service = s, ![c].valid = v] \in [Calls -> Call]
           /\ [call EXCEPT ![c].first = a, ![c].at = p] \in [Calls -> Call]
           /\ [call EXCEPT ![c].first = a, ![c].at = p, ![c].outcome = o] \in [Calls -> Call]
           /\ [call EXCEPT ![c].second = a, ![c].at = p, ![c].outcome = o] \in [Calls -> Call]
           /\ [call EXCEPT ![c]["first"] = a, ![c].at = p, ![c].outcome = o] \in [Calls -> Call]
           /\ [call EXCEPT ![c]["second"] = a, ![c].at = p, ![c].outcome = o] \in [Calls -> Call]
<1> USE DEF Call
<1>1. [call EXCEPT ![c].at = p] \in [Calls -> Call]
  OBVIOUS
<1>2. [call EXCEPT ![c].at = p, ![c].outcome = o] \in [Calls -> Call]
  OBVIOUS
<1>3. [call EXCEPT ![c].at = p, ![c].service = s, ![c].valid = v] \in [Calls -> Call]
  OBVIOUS
<1>4. [call EXCEPT ![c].first = a, ![c].at = p] \in [Calls -> Call]
  OBVIOUS
<1>5. [call EXCEPT ![c].first = a, ![c].at = p, ![c].outcome = o] \in [Calls -> Call]
  OBVIOUS
<1>6. [call EXCEPT ![c].second = a, ![c].at = p, ![c].outcome = o] \in [Calls -> Call]
  OBVIOUS
<1>7. [call EXCEPT ![c]["first"] = a, ![c].at = p, ![c].outcome = o] \in [Calls -> Call]
  OBVIOUS
<1>8. [call EXCEPT ![c]["second"] = a, ![c].at = p, ![c].outcome = o] \in [Calls -> Call]
  OBVIOUS
<1> QED  BY <1>1, <1>2, <1>3, <1>4, <1>5, <1>6, <1>7, <1>8

\* The call of c goes on at a place, or is told an outcome.
LEMMA GoAndTell ==
    ASSUME call \in [Calls -> Call], NEW c \in Calls
    PROVE  /\ \A p \in Places : Go(c, p) => call' \in [Calls -> Call]
           /\ \A o \in Outcomes : Tell(c, o) => call' \in [Calls -> Call]
<1>1. "told" \in Places /\ "error" \in Outcomes /\ "some" \in Heard /\ "falcon" \in Services
  BY DEF Places, Outcomes, Heard, Answers, Services
<1>2. ASSUME NEW p \in Places, Go(c, p) PROVE call' \in [Calls -> Call]
  BY <1>1, <1>2, Updates DEF Go
<1>3. ASSUME NEW o \in Outcomes, Tell(c, o) PROVE call' \in [Calls -> Call]
  BY <1>1, <1>3, Updates DEF Tell
<1> QED  BY <1>2, <1>3

\* What every exchange does to the call.
LEMMA HearTypes ==
    ASSUME call \in [Calls -> Call], NEW c \in Calls, NEW which \in {"first", "second"},
           NEW a \in Heard, NEW o \in Outcomes, Hear(c, which, a, o)
    PROVE  call' \in [Calls -> Call]
<1>1. "told" \in Places /\ "falcon" \in Services
  BY DEF Places, Services
<1>2. CASE which = "first"
  BY <1>1, <1>2, Updates DEF Hear
<1>3. CASE which = "second"
  BY <1>1, <1>3, Updates DEF Hear
<1> QED  BY <1>2, <1>3

\* A step of a call keeps its type.
LEMMA CallTypes ==
    ASSUME call \in [Calls -> Call], NEW c \in Calls, Turn(c) \/ CallStep(c)
    PROVE  call' \in [Calls -> Call]
<1>0. /\ {"idle", "gate", "choosing", "config", "settings", "secret", "token", "virustotal",
          "abuseipdb", "first", "second", "told"} \subseteq Places
      /\ {"error", "nothing", "found", "unknown"} \subseteq Outcomes
      /\ Answers \cup {"unheard"} = Heard /\ "some" \in Answers
      /\ "falcon" \in Services
  BY DEF Places, Outcomes, Heard, Answers, Services
<1>1. CASE Look(c)  BY <1>1 DEF Look
<1>2. CASE Gate(c)  BY <1>0, <1>2, GoAndTell DEF Gate
<1>3. CASE Choose(c)
  <2>1. PICK tool \in AllTools, kind \in Kinds, h \in Hours :
           \/ \E o \in {"error", "unknown"} : Tell(c, o)
           \/ \E place \in {"virustotal", "config"} :
                 call' = [call EXCEPT ![c].at = place, ![c].service = tool.service,
                                      ![c].valid = Accepts(tool, kind, h)]
    BY <1>3 DEF Choose
  <2>2. PICK v \in BOOLEAN : v = Accepts(tool, kind, h)
    BY DEF Accepts, InWindow
  <2>3. CASE \E o \in {"error", "unknown"} : Tell(c, o)
    BY <1>0, <2>3, GoAndTell
  <2>4. ASSUME NEW place \in {"virustotal", "config"},
               call' = [call EXCEPT ![c].at = place, ![c].service = tool.service, ![c].valid = v]
        PROVE  call' \in [Calls -> Call]
    <3>1. place \in Places /\ tool.service \in Services /\ "error" \in Outcomes /\ "some" \in Heard
      BY <1>0, ToolServices
    <3> QED  BY <2>4, <3>1, Updates
  <2> QED  BY <2>1, <2>2, <2>3, <2>4
<1>4. CASE Config(c)  BY <1>0, <1>4, GoAndTell DEF Config
<1>5. CASE Settings(c)  BY <1>0, <1>5, GoAndTell DEF Settings
<1>7. CASE FalconIds(c)
  <2>1. ASSUME NEW a \in Answers,
               Hear(c, "first", a, IF a = "none" THEN "nothing" ELSE "error")
        PROVE  call' \in [Calls -> Call]
    BY <1>0, <2>1, HearTypes
  <2>2. CASE call' = [call EXCEPT ![c].first = "some", ![c].at = "second"]
    BY <1>0, <2>2, Updates
  <2> QED  BY <1>7, <2>1, <2>2 DEF FalconIds
<1>8. CASE FalconDetails(c)
  BY <1>0, <1>8, HearTypes DEF FalconDetails
<1>9. CASE SentinelToken(c)  BY <1>0, <1>9, GoAndTell DEF SentinelToken
<1>10. CASE SentinelQuery(c)
  BY <1>0, <1>10, HearTypes DEF SentinelQuery
<1>11. CASE JiraExchange(c)
  BY <1>0, <1>11, HearTypes DEF JiraExchange, JiraIssue, JiraSearch
<1>12. \A first, second : Verdict(first, second) \in Outcomes
  BY DEF Verdict, Outcomes
<1>13. ASSUME NEW a \in Heard, AfterVirusTotal(c, a) PROVE call' \in [Calls -> Call]
  <2>1. CASE call[c].service = "ip reputation"
    <3>1. call' = [call EXCEPT ![c].first = a, ![c].at = "abuseipdb"]
      BY <1>13, <2>1 DEF AfterVirusTotal
    <3>2. "abuseipdb" \in Places /\ "error" \in Outcomes /\ "falcon" \in Services
      BY <1>0
    <3> QED  BY <3>1, <3>2, Updates
  <2>2. CASE call[c].service # "ip reputation"
    <3>1. call' = [call EXCEPT ![c].first = a, ![c].at = "told",
                               ![c].outcome = Verdict(a, "unheard")]
      BY <1>13, <2>2 DEF AfterVirusTotal
    <3>2. "told" \in Places /\ Verdict(a, "unheard") \in Outcomes /\ "falcon" \in Services
      BY <1>0, <1>12
    <3> QED  BY <3>1, <3>2, Updates
  <2> QED  BY <2>1, <2>2
<1>14. CASE AskVirusTotal(c)
  BY <1>0, <1>13, <1>14 DEF AskVirusTotal
<1>15. CASE AskAbuseIPDB(c)
  <2>1. PICK a \in Heard :
          call' = [call EXCEPT ![c].second = a, ![c].at = "told",
                               ![c].outcome = Verdict(call[c].first, a)]
    BY <1>0, <1>15 DEF AskAbuseIPDB
  <2> QED  BY <1>0, <1>12, <2>1, Updates
<1>16. CASE Observe(c)
  <2>1. Rest \in Call /\ [Rest EXCEPT !.at = "choosing"] \in Call
    BY <1>0, RestIsCall DEF Call
  <2> QED  BY <1>16, <2>1 DEF Observe
<1>17. CASE Turn(c)  BY <1>0, <1>17, GoAndTell DEF Turn
<1> QED  BY <1>1, <1>2, <1>3, <1>4, <1>5, <1>7, <1>8, <1>9, <1>10, <1>11, <1>14, <1>15, <1>16, <1>17
         DEF CallStep

-----------------------------------------------------------------------------
\* A step of a call is a step of its thread's lookup, or leaves the secrets alone.
LEMMA CallLooksUp ==
    ASSUME NEW c \in Calls, Turn(c) \/ CallStep(c)
    PROVE  \/ \E k \in Keys : Ask(c, k)
           \/ LookupStep(c)
           \/ Leave(c)
           \/ UNCHANGED secrets
<1> USE Entries, SettingIsIntegration
<1>0. <<"any", Falcon>> \in Keys
  BY DEF Integrations
<1>1. CASE Turn(c)  BY <1>0, <1>1 DEF Turn
<1>2. CASE Look(c)  BY <1>2 DEF Look
<1>3. CASE Gate(c)  BY <1>3 DEF Gate
<1>4. CASE Choose(c)
  <2>1. PICK tool \in AllTools :
          \/ UNCHANGED secrets
          \/ Ask(c, <<"any", IF tool.service \in Reputations THEN VirusTotal
                             ELSE Setting(tool.service)>>)
    BY <1>4 DEF Choose
  <2> QED  BY <2>1
<1>5. CASE Config(c)
  <2>1. Leave(c) \/ Ask(c, <<"any", Setting(call[c].service)>>)
    BY <1>5 DEF Config
  <2> QED  BY <2>1
<1>6. CASE Settings(c)  BY <1>6 DEF Settings
<1>7. CASE FalconIds(c) \/ FalconDetails(c) \/ SentinelQuery(c) \/ JiraExchange(c)
  BY <1>7 DEF FalconIds, FalconDetails, SentinelQuery, JiraExchange, JiraIssue, JiraSearch, Hear
<1>8. CASE SentinelToken(c)  BY <1>8 DEF SentinelToken
<1>9. CASE AskVirusTotal(c)  BY <1>9 DEF AskVirusTotal, AfterVirusTotal
<1>10. CASE AskAbuseIPDB(c)  BY <1>10 DEF AskAbuseIPDB
<1>11. CASE Observe(c)  BY <1>11 DEF Observe
<1> QED  BY <1>1, <1>2, <1>3, <1>4, <1>5, <1>6, <1>7, <1>8, <1>9, <1>10, <1>11 DEF CallStep

\* Startup asks about integrations only.
LEMMA HeadAndTail ==
    ASSUME starting \in Seq(Integrations), starting # <<>>
    PROVE  Head(starting) \in Integrations /\ Tail(starting) \in Seq(Integrations)
  OBVIOUS

\* So the cache goes through steps of SecretCache alone.
LEMMA CacheSteps == ASSUME TypeOK, [Next]_vars PROVE [SecretsNext]_secrets
<1> USE Threads
<1>1. CASE StartupAsk
  <2>1. <<"any", Head(starting)>> \in Keys
    BY <1>1, HeadAndTail, Entries DEF StartupAsk, TypeOK
  <2> QED  BY <1>1, <2>1 DEF StartupAsk, SecretsNext
<1>2. CASE StartupLook  BY <1>2 DEF StartupLook, SecretsNext
<1>3. CASE StartupNext  BY <1>3 DEF StartupNext, SecretsNext
<1>4. CASE Restart  BY <1>4 DEF Restart, SecretsNext
<1>5. ASSUME NEW c \in Calls, Turn(c) \/ CallStep(c) PROVE [SecretsNext]_secrets
  BY <1>5, CallLooksUp DEF SecretsNext
<1>6. CASE UNCHANGED vars  BY <1>6 DEF vars
<1> QED  BY <1>1, <1>2, <1>3, <1>4, <1>5, <1>6 DEF Next

\* What a step of a call may do to startup and to what calls have seen.
LEMMA CallSees ==
    ASSUME NEW c \in Calls, Turn(c) \/ CallStep(c)
    PROVE  /\ starting' = starting
           /\ \/ seen' = seen
              \/ \E s \in Integrations, on \in BOOLEAN : Sees(s, on)
<1> USE SettingIsIntegration
<1>0. Falcon \in Integrations
  BY DEF Integrations
<1>1. CASE Turn(c)  BY <1>1 DEF Turn
<1>2. CASE Look(c)  BY <1>2 DEF Look
<1>3. CASE Gate(c)  BY <1>0, <1>3 DEF Gate
<1>4. CASE Choose(c)  BY <1>4 DEF Choose
<1>5. CASE Config(c)  BY <1>5 DEF Config
<1>6. CASE Settings(c)  BY <1>6 DEF Settings
<1>7. CASE FalconIds(c) \/ FalconDetails(c) \/ SentinelQuery(c) \/ JiraExchange(c)
  BY <1>7 DEF FalconIds, FalconDetails, SentinelQuery, JiraExchange, JiraIssue, JiraSearch, Hear
<1>8. CASE SentinelToken(c)  BY <1>8 DEF SentinelToken
<1>9. CASE AskVirusTotal(c)  BY <1>9 DEF AskVirusTotal
<1>10. CASE AskAbuseIPDB(c)  BY <1>10 DEF AskAbuseIPDB
<1>11. CASE Observe(c)  BY <1>11 DEF Observe
<1> QED  BY <1>1, <1>2, <1>3, <1>4, <1>5, <1>6, <1>7, <1>8, <1>9, <1>10, <1>11 DEF CallStep

\* Every step keeps the types.
LEMMA ToolTypes == ASSUME TypeOK, [Next]_vars PROVE TypeOK'
<1>0. SecretsTypeOK'
  BY CacheSteps, SecretsTypes DEF TypeOK
<1>1. starting' \in Seq(Integrations)
  <2>0. Startup \in Seq(Integrations)
    BY DEF Startup, Integrations
  <2>1. CASE StartupNext
    <3>1. CASE starting # <<>>
      BY <2>1, <3>1, HeadAndTail DEF StartupNext, TypeOK
    <3>2. CASE starting = <<>>
      BY <2>1, <3>2 DEF StartupNext, TypeOK
    <3> QED  BY <3>1, <3>2
  <2>2. CASE Restart  BY <2>0, <2>2 DEF Restart
  <2>3. CASE starting' = starting  BY <2>3 DEF TypeOK
  <2> QED  BY <2>1, <2>2, <2>3, CallSees DEF Next, vars, StartupAsk, StartupLook
<1>2. call' \in [Calls -> Call]
  <2>1. CASE Restart  BY <2>1, RestIsCall DEF Restart
  <2>2. CASE call' = call  BY <2>2 DEF TypeOK, Call
  <2>3. ASSUME NEW c \in Calls, Turn(c) \/ CallStep(c) PROVE call' \in [Calls -> Call]
    BY <2>3, CallTypes DEF TypeOK, Call
  <2> QED  BY <2>1, <2>2, <2>3 DEF Next, vars, StartupAsk, StartupLook, StartupNext
<1>3. seen' \in [Integrations -> SUBSET BOOLEAN]
  <2>1. CASE Restart  BY <2>1 DEF Restart
  <2>2. CASE seen' = seen  BY <2>2 DEF TypeOK
  <2>3. ASSUME NEW s \in Integrations, NEW on \in BOOLEAN, Sees(s, on)
        PROVE  seen' \in [Integrations -> SUBSET BOOLEAN]
    BY <2>3 DEF Sees, TypeOK
  <2> QED  BY <2>1, <2>2, <2>3, CallSees DEF Next, vars, StartupAsk, StartupLook, StartupNext
<1> QED  BY <1>0, <1>1, <1>2, <1>3 DEF TypeOK, Call

\* The first state has the types.
LEMMA ToolInitTypes == ASSUME Init PROVE TypeOK
<1>1. SecretsTypeOK
  BY SecretsInitTypes DEF Init
<1>2. call \in [Calls -> Call]
  BY RestIsCall DEF Init
<1> QED  BY <1>1, <1>2 DEF Init, TypeOK, Call, Startup, Integrations

\* Every variable keeps to its type, whatever the model asks and services say.
THEOREM TypeCorrect == Spec => []TypeOK
<1>1. Init => TypeOK
  BY ToolInitTypes
<1>2. TypeOK /\ [Next]_vars => TypeOK'
  BY ToolTypes
<1> QED  BY <1>1, <1>2, PTL DEF Spec

\* The tools use the cache by the rules of SecretCache and in no other way, so what
\* holds of every use of the cache holds of theirs.
THEOREM ToolsImplementSecretCache == Spec => SecretsSpec
<1>1. Init => SecretsInit
  BY DEF Init
<1>2. TypeOK /\ [Next]_vars => [SecretsNext]_secrets
  BY CacheSteps
<1> QED  BY <1>1, <1>2, TypeCorrect, PTL DEF Spec, SecretsSpec

-----------------------------------------------------------------------------
(* Integrations do not flap *)

Entry(s) == <<"any", s>>
Settled(s) == cache[Entry(s)] # Absent
Left == {starting[i] : i \in DOMAIN starting}

\* No call runs before startup has looked up every integration.
StartupFirst ==
    /\ \A s \in Integrations \ Left : Settled(s)
    /\ starting # <<>> =>
          /\ \A c \in Calls : call[c].at = "idle" /\ lookup[c].at = "idle"
          /\ \A s \in Integrations : seen[s] = {}
    /\ lookup[Starter].at # "idle" =>
          /\ starting # <<>>
          /\ lookup[Starter].key = Entry(Head(starting))
          /\ lookup[Starter].at # "raised"
          /\ lookup[Starter].at \in {"taking", "answered"} => Settled(Head(starting))

\* So the lookup of a call takes what is there, and nothing stores over it.
CallsTake ==
    \A c \in Calls : \A s \in Integrations :
        lookup[c].at # "idle" /\ lookup[c].key = Entry(s) =>
            /\ lookup[c].at \notin {"fetching", "storing", "raised"}
            /\ lookup[c].at = "answered" => lookup[c].got = cache[Entry(s)]

\* A call waits for the setting it decides by.
PlaceAsks ==
    \A c \in Calls :
        /\ call[c].at = "gate" => lookup[c].key = Entry(Falcon)
        /\ call[c].at \in {"config", "settings"} =>
              lookup[c].key = Entry(Setting(call[c].service))

\* What calls have taken an integration to be is what the cache says.
SeenIsCached ==
    \A s \in Integrations : \A on \in seen[s] : on <=> cache[Entry(s)] # Empty

FlapInv == StartupFirst /\ CallsTake /\ PlaceAsks /\ SeenIsCached

\* Only a call that has begun takes a step other than Turn.
LEMMA OnlyAwakeCallsStep ==
    ASSUME NEW c \in Calls, CallStep(c)
    PROVE  call[c].at # "idle" \/ lookup[c].at # "idle"
<1>1. CASE Look(c)
  BY <1>1 DEF Look, LookupStep, Check, Take, FetchOrFail, Store
<1>2. CASE Gate(c) \/ Choose(c) \/ Config(c) \/ Settings(c)
  BY <1>2 DEF Gate, Choose, Config, Settings, Has, Lacks
<1>3. CASE FalconIds(c) \/ FalconDetails(c) \/ SentinelQuery(c) \/ JiraExchange(c)
  BY <1>3 DEF FalconIds, FalconDetails, SentinelQuery, JiraExchange, JiraIssue, JiraSearch, Hear
<1>4. CASE SentinelToken(c) \/ AskVirusTotal(c) \/ AskAbuseIPDB(c) \/ Observe(c)
  BY <1>4 DEF SentinelToken, AskVirusTotal, AskAbuseIPDB, Observe, Has, Lacks
<1> QED  BY <1>1, <1>2, <1>3, <1>4 DEF CallStep

\* A call runs in a process whose startup is over.
LEMMA CallsFollowStartup ==
    ASSUME FlapInv, NEW c \in Calls, Turn(c) \/ CallStep(c)
    PROVE  /\ starting = <<>>
           /\ \A s \in Integrations : Settled(s)
           /\ lookup[Starter].at = "idle"
<1>1. starting = <<>>
  BY OnlyAwakeCallsStep DEF Turn, FlapInv, StartupFirst
<1>2. Left = {}
  BY <1>1 DEF Left
<1> QED  BY <1>1, <1>2 DEF FlapInv, StartupFirst

\* A step of a call neither stores over an integration nor goes astray in its lookup.
LEMMA CallKeepsEntries ==
    ASSUME TypeOK, FlapInv, NEW c \in Calls, Turn(c) \/ CallStep(c)
    PROVE  /\ \A s \in Integrations : cache'[Entry(s)] = cache[Entry(s)]
           /\ CallsTake'
           /\ \A r \in Readers \ {c} : lookup'[r] = lookup[r]
<1> USE Threads, Entries DEF TypeOK, SecretsTypeOK, FlapInv, CallsTake, Entry
<1>1. \A s \in Integrations : cache[<<"any", s>>] # Absent
  BY CallsFollowStartup DEF Settled
<1>2. CASE \E k \in Keys : Ask(c, k)
  BY <1>2 DEF Ask, Asking, Lookup
<1>3. CASE Check(c)
  <2>1. \A s \in Integrations : lookup[c].key = <<"any", s>> =>
            lookup' = [lookup EXCEPT ![c].at = "taking"]
    <3> SUFFICES ASSUME NEW s \in Integrations, lookup[c].key = <<"any", s>>
                 PROVE  lookup' = [lookup EXCEPT ![c].at = "taking"]
      OBVIOUS
    <3>1. lookup[c].key[1] # "kv" /\ cache[lookup[c].key] # Absent
      BY <1>1
    <3> QED  BY <1>3, <3>1 DEF Check
  <2>2. /\ \A r \in Readers \ {c} : lookup'[r] = lookup[r]
        /\ lookup'[c].key = lookup[c].key
        /\ cache' = cache
    BY <1>3 DEF Check
  <2>3. \A s \in Integrations : lookup[c].key = <<"any", s>> => lookup'[c].at = "taking"
    BY <2>1
  <2> QED  BY <2>2, <2>3
<1>4. CASE Take(c)  BY <1>1, <1>4 DEF Take, Lookup
<1>5. CASE FetchOrFail(c)
  <2>1. PICK v : lookup' = [lookup EXCEPT ![c].at = "storing", ![c].got = v]
    BY <1>5 DEF FetchOrFail
  <2>2. lookup[c].at = "fetching" /\ cache' = cache
    BY <1>5 DEF FetchOrFail
  <2>3. \A s \in Integrations : lookup'[c].key # <<"any", s>>
    <3>1. \A s \in Integrations : lookup[c].key # <<"any", s>>
      BY <2>2
    <3>2. lookup'[c].key = lookup[c].key
      BY <2>1
    <3> QED  BY <3>1, <3>2
  <2>4. \A r \in Readers \ {c} : lookup'[r] = lookup[r]
    BY <2>1
  <2> QED  BY <2>2, <2>3, <2>4
<1>6. CASE Store(c)  BY <1>6 DEF Store
<1>7. CASE Leave(c)
  <2>1. Idle.at = "idle"
    BY DEF Idle, Lookup
  <2> QED  BY <1>7, <2>1 DEF Leave
<1>8. CASE UNCHANGED secrets  BY <1>8 DEF secrets
<1> QED  BY <1>2, <1>3, <1>4, <1>5, <1>6, <1>7, <1>8, CallLooksUp DEF LookupStep

\* The other calls stay as they are.
LEMMA CallMovesAlone ==
    ASSUME NEW c \in Calls, call \in [Calls -> Call], Turn(c) \/ CallStep(c)
    PROVE  \A d \in Calls \ {c} : call'[d] = call[d]
<1>1. CASE Turn(c)  BY <1>1 DEF Turn, Go
<1>2. CASE Look(c)  BY <1>2 DEF Look
<1>3. CASE Gate(c)  BY <1>3 DEF Gate, Go
<1>4. CASE Choose(c)  BY <1>4 DEF Choose, Tell
<1>5. CASE Config(c)  BY <1>5 DEF Config, Go, Tell
<1>6. CASE Settings(c)  BY <1>6 DEF Settings, Go, Tell
<1>7. CASE FalconIds(c) \/ FalconDetails(c) \/ SentinelQuery(c) \/ JiraExchange(c)
  BY <1>7 DEF FalconIds, FalconDetails, SentinelQuery, JiraExchange, JiraIssue, JiraSearch, Hear
<1>8. CASE SentinelToken(c)  BY <1>8 DEF SentinelToken, Go, Tell
<1>9. CASE AskVirusTotal(c)  BY <1>9 DEF AskVirusTotal, AfterVirusTotal
<1>10. CASE AskAbuseIPDB(c)  BY <1>10 DEF AskAbuseIPDB
<1>11. CASE Observe(c)  BY <1>11 DEF Observe
<1> QED  BY <1>1, <1>2, <1>3, <1>4, <1>5, <1>6, <1>7, <1>8, <1>9, <1>10, <1>11 DEF CallStep

\* A place that moves to none of those a setting decides.
LEMMA Elsewhere ==
    ASSUME call \in [Calls -> Call], NEW c \in Calls,
           NEW p \in Places \ {"gate", "config", "settings"},
           PlaceAsks, \A d \in Calls \ {c} : call'[d] = call[d] /\ lookup'[d] = lookup[d],
           call'[c].at = p
    PROVE  PlaceAsks'
  BY DEF PlaceAsks

\* Each step of a call that asks for a setting goes to the place it decides.
LEMMA CallPlaces ==
    ASSUME TypeOK, FlapInv, NEW c \in Calls, Turn(c) \/ CallStep(c)
    PROVE  PlaceAsks'
<1>0. /\ {"idle", "choosing", "secret", "token", "virustotal", "abuseipdb", "first", "second", "told"}
            \subseteq Places \ {"gate", "config", "settings"}
      /\ call \in [Calls -> Call] /\ PlaceAsks
  BY DEF Places, TypeOK, Call, FlapInv
<1>1. \A d \in Calls \ {c} : lookup'[d] = lookup[d]
  BY CallKeepsEntries, Threads
<1>2. \A d \in Calls \ {c} : call'[d] = call[d]
  BY <1>0, CallMovesAlone
<1>3. lookup \in [Readers -> [at : Stages, key : Keys, got : Words]] /\ c \in Readers
  BY Threads DEF TypeOK, SecretsTypeOK
<1>4. \A k \in Keys : Ask(c, k) => lookup'[c].key = k
  BY <1>3 DEF Ask, Asking, Lookup
<1>5. CASE Turn(c)
  <2>1. call'[c].at = "gate" /\ lookup'[c].key = Entry(Falcon)
    BY <1>0, <1>4, <1>5, Entries DEF Turn, Go, Entry, Integrations, Call
  <2> QED  BY <1>0, <1>1, <1>2, <2>1 DEF PlaceAsks
<1>6. CASE Look(c)
  <2>1. call' = call /\ lookup'[c].key = lookup[c].key
    BY <1>3, <1>6 DEF Look, LookupStep, Check, Take, FetchOrFail, Store, Lookup
  <2> QED  BY <1>0, <1>1, <2>1 DEF PlaceAsks
<1>7. CASE Gate(c)
  <2>1. call'[c].at \in {"choosing", "idle"}
    BY <1>0, <1>7 DEF Gate, Go, Call
  <2> QED  BY <1>0, <1>1, <1>2, <2>1, Elsewhere
<1>8. CASE Choose(c)
  <2>1. PICK tool \in AllTools, kind \in Kinds, h \in Hours :
           \/ \E o \in {"error", "unknown"} : Tell(c, o)
           \/ /\ Ask(c, <<"any", IF tool.service \in Reputations THEN VirusTotal
                                 ELSE Setting(tool.service)>>)
              /\ call' = [call EXCEPT
                     ![c].at = IF tool.service \in Reputations THEN "virustotal" ELSE "config",
                     ![c].service = tool.service, ![c].valid = Accepts(tool, kind, h)]
    BY <1>8 DEF Choose
  <2>2. CASE \E o \in {"error", "unknown"} : Tell(c, o)
    <3>1. call'[c].at = "told"
      BY <1>0, <2>2 DEF Tell, Call
    <3> QED  BY <1>0, <1>1, <1>2, <3>1, Elsewhere
  <2>3. CASE ~\E o \in {"error", "unknown"} : Tell(c, o)
    <3>1. CASE tool.service \in Reputations
      <4>1. call'[c].at = "virustotal"
        BY <1>0, <2>1, <2>3, <3>1 DEF Call
      <4> QED  BY <1>0, <1>1, <1>2, <4>1, Elsewhere
    <3>2. CASE tool.service \notin Reputations
      <4>1. call'[c].at = "config" /\ call'[c].service = tool.service
        BY <1>0, <2>1, <2>3, <3>2 DEF Call
      <4>2. lookup'[c].key = Entry(Setting(tool.service))
        BY <1>4, <2>1, <2>3, <3>2, Entries, SettingIsIntegration DEF Entry
      <4> QED  BY <1>0, <1>1, <1>2, <4>1, <4>2 DEF PlaceAsks
    <3> QED  BY <3>1, <3>2
  <2> QED  BY <2>2, <2>3
<1>9. CASE Config(c)
  <2>1. CASE Ask(c, <<"any", Setting(call[c].service)>>) /\ Go(c, "settings")
    <3>1. lookup'[c].key = Entry(Setting(call[c].service))
      BY <1>4, <2>1, Entries, SettingIsIntegration DEF Entry
    <3>2. call'[c].at = "settings" /\ call'[c].service = call[c].service
      BY <1>0, <2>1 DEF Go, Call
    <3> QED  BY <1>0, <1>1, <1>2, <3>1, <3>2 DEF PlaceAsks
  <2>2. CASE Tell(c, "error")
    <3>1. call'[c].at = "told"
      BY <1>0, <2>2 DEF Tell, Call
    <3> QED  BY <1>0, <1>1, <1>2, <3>1, Elsewhere
  <2> QED  BY <1>9, <2>1, <2>2 DEF Config
<1>10. CASE Settings(c)
  <2>1. call'[c].at \in {"secret", "first", "told"}
    BY <1>0, <1>10 DEF Settings, Go, Tell, Call
  <2> QED  BY <1>0, <1>1, <1>2, <2>1, Elsewhere
<1>11. CASE FalconIds(c) \/ FalconDetails(c) \/ SentinelQuery(c) \/ JiraExchange(c)
  <2>1. \A which, a, o : Hear(c, which, a, o) => call'[c].at = "told"
    BY <1>0 DEF Hear, Call
  <2>2. CASE call' = [call EXCEPT ![c].first = "some", ![c].at = "second"]
    <3>1. call'[c].at = "second"
      BY <1>0, <2>2 DEF Call
    <3> QED  BY <1>0, <1>1, <1>2, <3>1, Elsewhere
  <2>3. CASE \E which, a, o : Hear(c, which, a, o)
    <3>1. call'[c].at = "told"
      BY <2>1, <2>3
    <3> QED  BY <1>0, <1>1, <1>2, <3>1, Elsewhere
  <2>4. (\E which, a, o : Hear(c, which, a, o))
        \/ call' = [call EXCEPT ![c].first = "some", ![c].at = "second"]
    BY <1>11 DEF FalconIds, FalconDetails, SentinelQuery, JiraExchange, JiraIssue, JiraSearch
  <2> QED  BY <2>2, <2>3, <2>4
<1>12. CASE SentinelToken(c)
  <2>1. call'[c].at \in {"token", "first", "told"}
    BY <1>0, <1>12 DEF SentinelToken, Go, Tell, Call
  <2> QED  BY <1>0, <1>1, <1>2, <2>1, Elsewhere
<1>13. CASE AskVirusTotal(c) \/ AskAbuseIPDB(c)
  <2>1. call'[c].at \in {"abuseipdb", "told"}
    <3>1. ASSUME NEW a, AfterVirusTotal(c, a) PROVE call'[c].at \in {"abuseipdb", "told"}
      <4>1. CASE call' = [call EXCEPT ![c].first = a, ![c].at = "abuseipdb"]
        BY <1>0, <4>1 DEF Call
      <4>2. CASE call' = [call EXCEPT ![c].first = a, ![c].at = "told",
                                      ![c].outcome = Verdict(a, "unheard")]
        BY <1>0, <4>2 DEF Call
      <4> QED  BY <3>1, <4>1, <4>2 DEF AfterVirusTotal
    <3>2. CASE AskAbuseIPDB(c)
      BY <1>0, <3>2 DEF AskAbuseIPDB, Call
    <3> QED  BY <1>13, <3>1, <3>2 DEF AskVirusTotal
  <2> QED  BY <1>0, <1>1, <1>2, <2>1, Elsewhere
<1>14. CASE Observe(c)
  <2>1. call'[c].at \in {"idle", "choosing"}
    BY <1>0, <1>14 DEF Observe, Rest, Call
  <2> QED  BY <1>0, <1>1, <1>2, <2>1, Elsewhere
<1> QED  BY <1>5, <1>6, <1>7, <1>8, <1>9, <1>10, <1>11, <1>12, <1>13, <1>14 DEF CallStep

\* What a call notes of an integration is what its lookup took from the cache.
LEMMA CallSeesCache ==
    ASSUME TypeOK, FlapInv, NEW c \in Calls, Turn(c) \/ CallStep(c)
    PROVE  \/ seen' = seen
           \/ \E s \in Integrations, on \in BOOLEAN :
                 Sees(s, on) /\ (on <=> cache[Entry(s)] # Empty)
<1>1. \A s \in Integrations :
          lookup[c].key = Entry(s) /\ lookup[c].at = "answered" => lookup[c].got = cache[Entry(s)]
  BY DEF FlapInv, CallsTake
<1>2. CASE Gate(c)
  <2>1. Falcon \in Integrations
    BY DEF Integrations
  <2>2. call[c].at = "gate" => lookup[c].key = Entry(Falcon)
    BY DEF FlapInv, PlaceAsks
  <2>3. CASE Has(c, "gate") /\ Sees(Falcon, TRUE)
    BY <1>1, <2>1, <2>2, <2>3 DEF Has
  <2>4. CASE Lacks(c, "gate") /\ Sees(Falcon, FALSE)
    BY <1>1, <2>1, <2>2, <2>4 DEF Lacks
  <2> QED  BY <1>2, <2>3, <2>4 DEF Gate
<1>3. CASE Config(c) \/ Settings(c)
  <2> DEFINE s == Setting(call[c].service)
  <2>1. s \in Integrations
    BY SettingIsIntegration
  <2>2. call[c].at \in {"config", "settings"} => lookup[c].key = Entry(s)
    BY DEF FlapInv, PlaceAsks
  <2>3. CASE (Has(c, "config") \/ Has(c, "settings")) /\ Sees(s, TRUE)
    BY <1>1, <2>1, <2>2, <2>3 DEF Has
  <2>4. CASE (Lacks(c, "config") \/ Lacks(c, "settings")) /\ Sees(s, FALSE)
    BY <1>1, <2>1, <2>2, <2>4 DEF Lacks
  <2> QED  BY <1>3, <2>3, <2>4 DEF Config, Settings
<1>4. CASE ~(Gate(c) \/ Config(c) \/ Settings(c))
  BY <1>4 DEF CallStep, Turn, Look, Choose, FalconIds, FalconDetails, SentinelToken, SentinelQuery,
              JiraExchange, JiraIssue, JiraSearch, AskVirusTotal, AskAbuseIPDB, Observe, Hear
<1> QED  BY <1>2, <1>3, <1>4

\* So every step of a call keeps the invariant.
LEMMA CallKeepsFlapInv ==
    ASSUME TypeOK, FlapInv, NEW c \in Calls, Turn(c) \/ CallStep(c)
    PROVE  FlapInv'
<1>1. CallsTake' /\ PlaceAsks'
  BY CallKeepsEntries, CallPlaces
<1>2. \A s \in Integrations : cache'[Entry(s)] = cache[Entry(s)]
  BY CallKeepsEntries
<1>3. StartupFirst'
  <2>1. starting' = <<>> /\ lookup'[Starter].at = "idle"
    BY CallsFollowStartup, CallSees, CallKeepsEntries, Threads
  <2>2. \A s \in Integrations : Settled(s)'
    BY <1>2, CallsFollowStartup DEF Settled, Entry
  <2> QED  BY <2>1, <2>2 DEF StartupFirst
<1>4. SeenIsCached'
  <2>1. CASE seen' = seen
    BY <1>2, <2>1 DEF FlapInv, SeenIsCached, Entry
  <2>2. ASSUME NEW s \in Integrations, NEW on \in BOOLEAN,
               Sees(s, on), on <=> cache[Entry(s)] # Empty
        PROVE  SeenIsCached'
    <3> SUFFICES ASSUME NEW t \in Integrations, NEW was \in seen'[t]
                 PROVE  was <=> cache'[Entry(t)] # Empty
      BY DEF SeenIsCached, Entry
    <3>1. was \in seen[t] \/ (t = s /\ was = on)
      BY <2>2 DEF Sees, TypeOK
    <3>2. CASE was \in seen[t]
      BY <1>2, <3>2 DEF FlapInv, SeenIsCached
    <3>3. CASE t = s /\ was = on
      BY <1>2, <2>2, <3>3
    <3> QED  BY <3>1, <3>2, <3>3
  <2> QED  BY <2>1, <2>2, CallSeesCache
<1> QED  BY <1>1, <1>3, <1>4 DEF FlapInv

\* Startup looks integrations up one by one, before any call.
LEMMA StartupKeepsFlapInv ==
    ASSUME TypeOK, FlapInv, StartupAsk \/ StartupLook \/ StartupNext
    PROVE  FlapInv'
<1> USE Threads, Entries DEF TypeOK, SecretsTypeOK
<1>1. starting # <<>>
  BY DEF StartupAsk, StartupLook, StartupNext, LookupStep, Check, Take, FetchOrFail, Store, Leave,
         FlapInv, StartupFirst
<1>2. Head(starting) \in Integrations
  BY <1>1, HeadAndTail
<1>3. /\ \A c \in Calls : call[c].at = "idle" /\ lookup[c].at = "idle"
      /\ \A s \in Integrations : seen[s] = {}
  BY <1>1 DEF FlapInv, StartupFirst
<1>4. call' = call /\ seen' = seen
  BY DEF StartupAsk, StartupLook, StartupNext
<1>5. \A c \in Calls : lookup'[c] = lookup[c]
  BY DEF StartupAsk, StartupLook, StartupNext, Ask, LookupStep, Check, Take, FetchOrFail, Store,
         Leave
<1>6. CallsTake' /\ PlaceAsks' /\ SeenIsCached'
  BY <1>3, <1>4, <1>5 DEF CallsTake, PlaceAsks, SeenIsCached
<1>7. \A s \in Integrations : Settled(s) => Settled(s)'
  <2>1. CASE Store(Starter)
    BY <2>1, SecretsAssumption DEF Store, Settled, Entry
  <2>2. CASE cache' = cache
    BY <2>2 DEF Settled, Entry
  <2> QED  BY <2>1, <2>2 DEF StartupAsk, StartupLook, StartupNext, Ask, LookupStep, Check, Take,
                             FetchOrFail, Leave
<1>8. CASE StartupAsk
  <2>1. starting' = starting /\ lookup'[Starter] = Asking(Entry(Head(starting)))
    BY <1>8 DEF StartupAsk, Ask, Entry
  <2>2. Left' = Left
    BY <2>1 DEF Left
  <2>3. StartupFirst'
    BY <1>1, <1>3, <1>4, <1>5, <1>7, <2>1, <2>2 DEF FlapInv, StartupFirst, Asking, Lookup
  <2> QED  BY <1>6, <2>3 DEF FlapInv
<1>9. CASE StartupLook
  <2> DEFINE k == Entry(Head(starting))
  <2>1. starting' = starting /\ LookupStep(Starter)
    BY <1>9 DEF StartupLook
  <2>2. Left' = Left
    BY <2>1 DEF Left
  <2>3. /\ lookup[Starter].at \in {"checking", "taking", "fetching", "storing"}
        /\ lookup[Starter].key = k /\ k \in Keys
        /\ lookup[Starter].at = "taking" => cache[k] # Absent
    BY <1>2, <2>1 DEF FlapInv, StartupFirst, LookupStep, Check, Take, FetchOrFail, Store, Settled,
                      Entry
  <2>4. /\ lookup'[Starter].key = k
        /\ lookup'[Starter].at # "raised"
        /\ lookup'[Starter].at \in {"taking", "answered"} => cache'[k] # Absent
    <3>1. CASE Check(Starter)
      <4>1. k[1] # "kv"
        BY DEF Entry
      <4> QED  BY <2>3, <3>1, <4>1 DEF Check
    <3>2. CASE Take(Starter)  BY <2>3, <3>2 DEF Take, Lookup
    <3>3. CASE FetchOrFail(Starter)
      <4>1. PICK v : lookup' = [lookup EXCEPT ![Starter].at = "storing", ![Starter].got = v]
        BY <3>3 DEF FetchOrFail
      <4> QED  BY <2>3, <4>1
    <3>4. CASE Store(Starter)  BY <2>3, <3>4, SecretsAssumption DEF Store
    <3> QED  BY <2>1, <3>1, <3>2, <3>3, <3>4 DEF LookupStep
  <2>5. StartupFirst'
    BY <1>1, <1>3, <1>4, <1>5, <1>7, <2>1, <2>2, <2>4 DEF FlapInv, StartupFirst, Settled, Entry
  <2> QED  BY <1>6, <2>5 DEF FlapInv
<1>10. CASE StartupNext
  <2>1. /\ starting' = Tail(starting) /\ cache' = cache
        /\ lookup[Starter].at \in {"answered", "raised"}
        /\ lookup'[Starter] = Idle
    BY <1>10 DEF StartupNext, Leave
  <2>2. Settled(Head(starting))
    BY <2>1 DEF FlapInv, StartupFirst
  <2>3. ASSUME NEW s \in Left, s \notin Left' PROVE s = Head(starting)
    <3>1. PICK i \in DOMAIN starting : s = starting[i]
      BY DEF Left
    <3>2. CASE i # 1
      <4>1. i - 1 \in DOMAIN Tail(starting) /\ Tail(starting)[i - 1] = starting[i]
        BY <1>1, <3>2
      <4> QED  BY <2>1, <2>3, <3>1, <4>1 DEF Left
    <3>3. CASE i = 1
      BY <1>1, <3>1, <3>3
    <3> QED  BY <3>2, <3>3
  <2>4. \A s \in Integrations \ Left' : Settled(s)'
    BY <1>7, <2>2, <2>3 DEF FlapInv, StartupFirst
  <2>5. Idle.at = "idle"
    BY DEF Idle, Lookup
  <2>6. StartupFirst'
    BY <1>3, <1>4, <1>5, <2>1, <2>4, <2>5 DEF StartupFirst
  <2> QED  BY <1>6, <2>6 DEF FlapInv
<1> QED  BY <1>8, <1>9, <1>10

\* A process that starts has looked up nothing yet.
LEMMA FreshProcess ==
    ASSUME starting = Startup, call = [c \in Calls |-> Rest], lookup = [r \in Readers |-> Idle],
           seen = [s \in Integrations |-> {}]
    PROVE  FlapInv
<1>1. Left = Integrations /\ starting # <<>>
  BY DEF Left, Startup, Integrations
<1>2. Idle.at = "idle" /\ Rest.at = "idle"
  BY DEF Idle, Lookup, Rest
<1>3. StartupFirst
  BY <1>1, <1>2, Threads DEF StartupFirst
<1> QED  BY <1>2, <1>3, Threads DEF FlapInv, CallsTake, PlaceAsks, SeenIsCached

\* Nor has one that restarts.
LEMMA FreshProcessNext ==
    ASSUME starting' = Startup, call' = [c \in Calls |-> Rest], lookup' = [r \in Readers |-> Idle],
           seen' = [s \in Integrations |-> {}]
    PROVE  FlapInv'
<1>1. Left' = Integrations /\ starting' # <<>>
  BY DEF Left, Startup, Integrations
<1>2. Idle.at = "idle" /\ Rest.at = "idle"
  BY DEF Idle, Lookup, Rest
<1>3. StartupFirst'
  BY <1>1, <1>2, Threads DEF StartupFirst
<1> QED  BY <1>2, <1>3, Threads DEF FlapInv, CallsTake, PlaceAsks, SeenIsCached

\* Every step keeps the invariant.
LEMMA FlapInvKept == ASSUME TypeOK, FlapInv, [Next]_vars PROVE FlapInv'
<1>1. CASE Restart
  BY <1>1, FreshProcessNext DEF Restart, RestartSecrets
<1>2. CASE UNCHANGED vars
  BY <1>2 DEF vars, secrets, FlapInv, StartupFirst, CallsTake, PlaceAsks, SeenIsCached, Left,
              Settled
<1> QED  BY <1>1, <1>2, CallKeepsFlapInv, StartupKeepsFlapInv DEF Next

\* Whatever fails in the vault, and however calls and lookups interleave, no two steps
\* of one process disagree about an integration.
THEOREM IntegrationsNeverFlap == Spec => []IntegrationsDoNotFlap
<1>1. Init => FlapInv
  BY FreshProcess DEF Init, SecretsInit
<1>2. TypeOK /\ FlapInv /\ [Next]_vars => FlapInv'
  BY FlapInvKept
<1>3. FlapInv => IntegrationsDoNotFlap
  BY DEF FlapInv, SeenIsCached, IntegrationsDoNotFlap
<1> QED  BY <1>1, <1>2, <1>3, TypeCorrect, PTL DEF Spec
-----------------------------------------------------------------------------
(* Reports are grounded *)

Unheard(c) == call[c].first = "unheard" /\ call[c].second = "unheard"

\* Before a call is told, it has heard no more than its place says.
HeardByPlace ==
    \A c \in Calls :
        /\ call[c].at \notin {"second", "abuseipdb", "told"} => Unheard(c)
        /\ call[c].at = "second" => call[c].first = "some" /\ call[c].second = "unheard"
        /\ call[c].at = "abuseipdb" => call[c].second = "unheard"

GroundedInv == HeardByPlace /\ ReportsAreGrounded

\* What one call has to be for both; a step of c is judged by what becomes of c.
Grounded(u) ==
    /\ u.at \notin {"second", "abuseipdb", "told"} => u.first = "unheard" /\ u.second = "unheard"
    /\ u.at = "second" => u.first = "some" /\ u.second = "unheard"
    /\ u.at = "abuseipdb" => u.second = "unheard"
    /\ u.at = "told" =>
          /\ u.outcome = "nothing" =>
                /\ \/ "none" \in {u.first, u.second}
                   \/ u.service = "sentinel" /\ u.first \in {"400", "404"}
                /\ {u.first, u.second} \cap {"401", "failed"} = {}
          /\ u.outcome = "clean" => u.first \in {"none", "404"} \/ u.second = "none"
          /\ u.outcome \in {"found", "malicious"} => "some" \in {u.first, u.second}
          /\ u.service \in Reputations /\ "some" \in {u.first, u.second} =>
                u.outcome = "malicious"

LEMMA GroundedEach == GroundedInv <=> \A c \in Calls : Grounded(call[c])
  BY DEF GroundedInv, HeardByPlace, ReportsAreGrounded, Unheard, Grounded

LEMMA GroundedEachNext == GroundedInv' <=> \A c \in Calls : Grounded(call'[c])
  BY DEF GroundedInv, HeardByPlace, ReportsAreGrounded, Unheard, Grounded

\* A verdict on what two sources said.
LEMMA VerdictIsGrounded ==
    ASSUME NEW a, NEW b
    PROVE  /\ Verdict(a, b) = "malicious" <=> "some" \in {a, b}
           /\ Verdict(a, b) = "clean" => a \in {"none", "404"} \/ b = "none"
           /\ Verdict(a, b) \notin {"nothing", "found"}
  BY DEF Verdict, Contributes

\* Whatever a step of a call makes of it is grounded.
LEMMA CallGrounded ==
    ASSUME TypeOK, NEW c \in Calls, Grounded(call[c]), Turn(c) \/ CallStep(c)
    PROVE  Grounded(call'[c])
<1>0. call \in [Calls -> Call]
  BY DEF TypeOK, Call
<1>1. \A p \in {"idle", "gate", "choosing", "config", "settings", "secret", "token", "virustotal", "first"} :
          call[c].at \notin {"second", "abuseipdb", "told"} /\ Go(c, p) => Grounded(call'[c])
  BY <1>0 DEF Go, Grounded, Call
<1>2. \A o \in {"error", "unknown"} :
          call[c].at \notin {"second", "abuseipdb", "told"} /\ Tell(c, o) => Grounded(call'[c])
  BY <1>0 DEF Tell, Grounded, Call
<1>3. CASE Turn(c)  BY <1>1, <1>3 DEF Turn
<1>4. CASE Look(c)  BY <1>4 DEF Look
<1>5. CASE Gate(c)  BY <1>1, <1>5 DEF Gate, Has, Lacks
<1>6. CASE Choose(c)
  <2>1. call[c].at = "choosing"
    BY <1>6 DEF Choose
  <2>2. PICK tool \in AllTools, kind \in Kinds, h \in Hours :
           \/ \E o \in {"error", "unknown"} : Tell(c, o)
           \/ \E place \in {"virustotal", "config"} :
                 call' = [call EXCEPT ![c].at = place, ![c].service = tool.service,
                                      ![c].valid = Accepts(tool, kind, h)]
    BY <1>6 DEF Choose
  <2>3. CASE \E o \in {"error", "unknown"} : Tell(c, o)
    BY <1>2, <2>1, <2>3
  <2>4. ASSUME NEW place \in {"virustotal", "config"},
               call' = [call EXCEPT ![c].at = place, ![c].service = tool.service,
                                    ![c].valid = Accepts(tool, kind, h)]
        PROVE  Grounded(call'[c])
    BY <1>0, <2>1, <2>4 DEF Grounded, Call
  <2> QED  BY <2>2, <2>3, <2>4
<1>7. CASE Config(c)  BY <1>1, <1>2, <1>7 DEF Config, Has, Lacks
<1>8. CASE Settings(c)  BY <1>1, <1>2, <1>8 DEF Settings, Has, Lacks
<1>9. CASE SentinelToken(c)  BY <1>1, <1>2, <1>9 DEF SentinelToken, Has, Lacks
<1>10. ASSUME NEW a, NEW o, Hear(c, "first", a, o), call[c].service \notin Reputations,
              o = "found" => a = "some",
              o = "nothing" => a = "none" \/ (call[c].service = "sentinel" /\ a \in {"400", "404"}),
              o \in {"found", "nothing", "error"}
       PROVE  Grounded(call'[c])
  <2>1. /\ call'[c].at = "told" /\ call'[c].first = a /\ call'[c].second = "unheard"
        /\ call'[c].outcome = o /\ call'[c].service = call[c].service
    BY <1>0, <1>10 DEF Hear, Grounded, Call
  <2> QED  BY <1>10, <2>1 DEF Grounded
<1>11. {"falcon", "sentinel", "issue", "search"} \cap Reputations = {}
  BY DEF Reputations
<1>12. CASE FalconIds(c)
  <2>1. CASE /\ call[c].at = "first"
             /\ call' = [call EXCEPT ![c].first = "some", ![c].at = "second"]
    BY <1>0, <2>1 DEF Grounded, Call
  <2>2. ASSUME NEW a \in Answers \ {"some"},
               Hear(c, "first", a, IF a = "none" THEN "nothing" ELSE "error")
        PROVE  Grounded(call'[c])
    BY <1>10, <1>11, <1>12, <2>2 DEF FalconIds
  <2> QED  BY <1>12, <2>1, <2>2 DEF FalconIds
<1>13. CASE FalconDetails(c)
  <2> DEFINE ToldOf(a) ==
          CASE a = "some" -> "found" [] a = "none" -> "nothing" [] OTHER -> "error"
  <2>1. PICK a \in Answers, o \in {"found", "nothing", "error"} :
           o = ToldOf(a) /\ Hear(c, "second", a, o)
    BY <1>13 DEF FalconDetails
  <2> HIDE DEF ToldOf
  <2>2. /\ call'[c].at = "told" /\ call'[c].first = "some" /\ call'[c].second = a
        /\ call'[c].outcome = o /\ call'[c].service = "falcon"
    <3>1. call[c].at = "second" /\ call[c].service = "falcon"
          /\ call' = [call EXCEPT ![c]["second"] = a, ![c].at = "told", ![c].outcome = o]
      BY <1>13, <2>1 DEF FalconDetails, Hear
    <3>2. call[c].first = "some"
      BY <3>1 DEF Grounded
    <3> QED  BY <1>0, <3>1, <3>2 DEF Call
  <2>3. CASE a = "some"
    BY <1>11, <2>1, <2>2, <2>3 DEF Grounded, ToldOf
  <2>4. CASE a = "none"
    BY <1>11, <2>1, <2>2, <2>4 DEF Grounded, ToldOf
  <2>5. CASE a \notin {"some", "none"}
    <3>1. call'[c].outcome = "error"
      BY <2>1, <2>2, <2>5 DEF ToldOf
    <3>2. call'[c].service \notin Reputations
      BY <1>11, <2>2
    <3> QED  BY <2>2, <3>1, <3>2 DEF Grounded
  <2> QED  BY <2>3, <2>4, <2>5
<1>14. CASE SentinelQuery(c)
  <2>1. PICK a \in Answers :
          Hear(c, "first", a, CASE a = "some" -> "found"
                                [] a \in {"none", "400", "404"} -> "nothing"
                                [] OTHER -> "error")
    BY <1>14 DEF SentinelQuery
  <2> QED  BY <1>10, <1>11, <1>14, <2>1 DEF SentinelQuery
<1>15. CASE JiraIssue(c)
  <2>1. PICK a \in Answers : Hear(c, "first", a, IF a = "some" THEN "found" ELSE "error")
    BY <1>15 DEF JiraIssue
  <2> QED  BY <1>10, <1>11, <1>15, <2>1 DEF JiraIssue
<1>16. CASE JiraSearch(c)
  <2>1. PICK a \in Answers :
          Hear(c, "first", a,
               CASE a = "some" -> "found" [] a = "none" -> "nothing" [] OTHER -> "error")
    BY <1>16 DEF JiraSearch
  <2> QED  BY <1>10, <1>11, <1>16, <2>1 DEF JiraSearch
<1>17. ASSUME NEW a, call[c].at = "virustotal", AfterVirusTotal(c, a) PROVE Grounded(call'[c])
  <2>1. CASE call' = [call EXCEPT ![c].first = a, ![c].at = "abuseipdb"]
    BY <1>0, <1>17, <2>1 DEF Grounded, Call
  <2>2. CASE call' = [call EXCEPT ![c].first = a, ![c].at = "told",
                                  ![c].outcome = Verdict(a, "unheard")]
    <3>1. /\ call'[c].at = "told" /\ call'[c].first = a /\ call'[c].second = "unheard"
          /\ call'[c].outcome = Verdict(a, "unheard")
      BY <1>0, <1>17, <2>2 DEF Grounded, Call
    <3> QED  BY <3>1, VerdictIsGrounded DEF Grounded
  <2> QED  BY <1>17, <2>1, <2>2 DEF AfterVirusTotal
<1>18. CASE AskVirusTotal(c)
  BY <1>17, <1>18 DEF AskVirusTotal, Has, Lacks
<1>19. CASE AskAbuseIPDB(c)
  <2>1. PICK a : call' = [call EXCEPT ![c].second = a, ![c].at = "told",
                                      ![c].outcome = Verdict(call[c].first, a)]
    BY <1>19 DEF AskAbuseIPDB
  <2>2. /\ call'[c].at = "told" /\ call'[c].first = call[c].first /\ call'[c].second = a
        /\ call'[c].outcome = Verdict(call[c].first, a)
    BY <1>0, <2>1 DEF Call
  <2> QED  BY <2>2, VerdictIsGrounded DEF Grounded
<1>20. CASE Observe(c)
  <2>1. call'[c] = Rest \/ call'[c] = [Rest EXCEPT !.at = "choosing"]
    BY <1>0, <1>20 DEF Observe
  <2> QED  BY <2>1 DEF Grounded, Rest
<1> QED  BY <1>3, <1>4, <1>5, <1>6, <1>7, <1>8, <1>9, <1>12, <1>13, <1>14, <1>15, <1>16, <1>18,
            <1>19, <1>20 DEF CallStep, JiraExchange

\* Whatever services answer and fail to answer, the model is told nothing they did
\* not say: no absence or clean bill without an answer, no flag left out.
THEOREM ReportsStayGrounded == Spec => []ReportsAreGrounded
<1>1. Init => GroundedInv
  BY GroundedEach DEF Init, Grounded, Rest
<1>2. TypeOK /\ GroundedInv /\ [Next]_vars => GroundedInv'
  <2> SUFFICES ASSUME TypeOK, GroundedInv, [Next]_vars PROVE \A d \in Calls : Grounded(call'[d])
    BY GroundedEachNext
  <2>1. \A d \in Calls : Grounded(call[d])
    BY GroundedEach
  <2>2. ASSUME NEW c \in Calls, Turn(c) \/ CallStep(c) PROVE \A d \in Calls : Grounded(call'[d])
    BY <2>1, <2>2, CallGrounded, CallMovesAlone DEF TypeOK, Call
  <2>3. CASE Restart
    BY <2>3 DEF Restart, Grounded, Rest
  <2>4. CASE call' = call
    BY <2>1, <2>4
  <2> QED  BY <2>2, <2>3, <2>4 DEF Next, vars, StartupAsk, StartupLook, StartupNext
<1>3. GroundedInv => ReportsAreGrounded
  BY DEF GroundedInv
<1> QED  BY <1>1, <1>2, <1>3, TypeCorrect, PTL DEF Spec
=============================================================================
