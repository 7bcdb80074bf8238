------------------------------ MODULE ToolCalls ------------------------------
(***************************************************************************)
(* The SOC tools (agents/tools.py) and the clients they call: parameter    *)
(* checks of the query templates, settings looked up through the cache of  *)
(* SecretCache, the exchanges with each service, and what the model is     *)
(* told.  Calls run in turns of the workbench, which asks for CrowdStrike  *)
(* settings first; the settings of the optional integrations are looked up *)
(* once at startup (app/main.py), before any request.                      *)
(*                                                                         *)
(* A parameter is its kind, as far as any check tells values apart.  The   *)
(* settings that one configured() reads together are one secret; nothing   *)
(* in the program writes secrets or clears the cache.  An exchange stands  *)
(* for its retries, which are in FalconClient.                             *)
(***************************************************************************)
EXTENDS SecretCache, Sequences

CONSTANTS
    Calls,      \* turns of the workbench that may call a tool at a time
    Starter,    \* the thread that starts the application
    Hours,      \* look-back windows the model may ask for
    Falcon, Sentinel, SentinelKey, Jira, VirusTotal, AbuseIPDB  \* the settings

Integrations == {Falcon, Sentinel, Jira}

ASSUME ToolsAssumption ==
    /\ Readers = Calls \cup {Starter} /\ Starter \notin Calls
    /\ Integrations \cup {SentinelKey, VirusTotal, AbuseIPDB} \subseteq Names
    /\ Cardinality(Integrations) = 3
    /\ Hours \subseteq Nat

VARIABLES
    starting,   \* the integrations lifespan has still to ask about, in its order
    call,       \* call[c]: where the call stands and what the services said
    seen        \* ghost: what calls of this process took each integration to be

vars == <<secrets, starting, call, seen>>

-----------------------------------------------------------------------------
(* The tools and their parameters *)

\* Kinds of values: a public and a private IPv4 address; unsafe has control
\* characters or is too long; wrong is not a string, or not the parameter asked for.
Addresses == {"ip", "private"}
Literals == Addresses \cup {"host", "sha256", "md5", "upn", "key", "text"}
Kinds == Literals \cup {"unsafe", "blank", "wrong"}

\* What the validators of fql_templates accept ...
Hostnames == Literals \ {"upn", "text"}

FqlTemplates ==
    [device_by_hostname |-> Hostnames, device_by_ip |-> Addresses,
     alerts_for_host |-> Hostnames, alerts_for_hash |-> {"sha256"}]

\* ... and those of kql_templates, which escape any string that is clean and short.
Hashes == {"sha256", "md5"}

KqlTemplates ==
    [signin_events_for_account |-> Literals, processes_on_host |-> Literals,
     network_connections_for_ip |-> Addresses, security_alerts_for_entity |-> Literals,
     device_events_for_hash |-> Hashes]

\* The tools: service, the kinds its template or validator accepts, and whether
\* it takes a window.
Tool(service, accepted, windowed) ==
    [service |-> service, accepted |-> accepted, windowed |-> windowed]

FalconTools ==
    [falcon_device_lookup |->
         Tool("falcon", FqlTemplates.device_by_ip \cup FqlTemplates.device_by_hostname, FALSE),
     falcon_recent_alerts |-> Tool("falcon", FqlTemplates.alerts_for_host, TRUE),
     falcon_hash_sightings |-> Tool("falcon", FqlTemplates.alerts_for_hash, TRUE)]

SentinelTools ==
    [sentinel_signins |-> Tool("sentinel", KqlTemplates.signin_events_for_account, TRUE),
     sentinel_host_processes |-> Tool("sentinel", KqlTemplates.processes_on_host, TRUE),
     sentinel_ip_connections |-> Tool("sentinel", KqlTemplates.network_connections_for_ip, TRUE),
     sentinel_alerts_for_entity |-> Tool("sentinel", KqlTemplates.security_alerts_for_entity, TRUE),
     sentinel_hash_events |-> Tool("sentinel", KqlTemplates.device_events_for_hash, TRUE)]

\* check_reputation is given the type: it does not look at the value's form.
ThreatIntelTools ==
    [ip_reputation |-> Tool("ip reputation", Kinds, FALSE),
     hash_reputation |-> Tool("reputation", Kinds, FALSE),
     domain_reputation |-> Tool("reputation", Kinds, FALSE)]

JiraTools ==
    [jira_get_issue |-> Tool("issue", {"key"}, FALSE),
     jira_search |-> Tool("search", Literals, FALSE)]

AllTools ==
    {FalconTools[n] : n \in DOMAIN FalconTools} \cup
    {SentinelTools[n] : n \in DOMAIN SentinelTools} \cup
    {ThreatIntelTools[n] : n \in DOMAIN ThreatIntelTools} \cup
    {JiraTools[n] : n \in DOMAIN JiraTools}

\* _hours of both template modules.
MaxHours == 168
InWindow(h) == h \in 1..MaxHours

Accepts(tool, kind, h) == kind \in tool.accepted /\ (tool.windowed => InWindow(h))

-----------------------------------------------------------------------------
(* State *)

\* What an exchange comes to: content (or a flagged indicator), an empty (or
\* clear) answer, a refused request, an unknown object, a refused credential, and
\* any other error answer or exception.
Answers == {"some", "none", "400", "404", "401", "failed"}
Heard == Answers \cup {"unheard"}

Outcomes == {"error", "nothing", "found", "malicious", "clean", "unknown"}
JiraServices == {"issue", "search"}
Reputations == {"ip reputation", "reputation"}
Services == {"falcon", "sentinel"} \cup JiraServices \cup Reputations
Places == {"idle", "gate", "choosing", "config", "settings", "secret", "token",
           "virustotal", "abuseipdb", "first", "second", "told"}

\* The integration a service belongs to, reputation apart.
Setting(service) ==
    IF service = "falcon" THEN Falcon ELSE IF service = "sentinel" THEN Sentinel ELSE Jira

Rest == [at |-> "idle", service |-> "falcon", valid |-> TRUE,
         first |-> "unheard", second |-> "unheard", outcome |-> "error"]

TypeOK ==
    /\ SecretsTypeOK
    /\ starting \in Seq(Integrations)
    /\ call \in [Calls -> [at : Places, service : Services, valid : BOOLEAN,
                           first : Heard, second : Heard, outcome : Outcomes]]
    /\ seen \in [Integrations -> SUBSET BOOLEAN]

StartupAsksNobody == <<>>

\* lifespan asks each integration whether it is configured.
Startup == <<Falcon, Sentinel, Jira>>

Init ==
    /\ SecretsInit
    /\ starting = Startup
    /\ call = [c \in Calls |-> Rest]
    /\ seen = [s \in Integrations |-> {}]

-----------------------------------------------------------------------------
(* Startup and restart *)

StartupAsk ==
    /\ starting # <<>>
    /\ lookup[Starter].at = "idle"
    /\ Ask(Starter, <<"any", Head(starting)>>)
    /\ UNCHANGED <<starting, call, seen>>

StartupLook == LookupStep(Starter) /\ UNCHANGED <<starting, call, seen>>

StartupNext ==
    /\ Leave(Starter)
    /\ starting' = Tail(starting)
    /\ UNCHANGED <<call, seen>>

Restart ==
    /\ RestartSecrets
    /\ starting' = Startup
    /\ call' = [c \in Calls |-> Rest]
    /\ seen' = [s \in Integrations |-> {}]

-----------------------------------------------------------------------------
(* A call *)

Go(c, place) == call' = [call EXCEPT ![c].at = place]
Tell(c, outcome) == call' = [call EXCEPT ![c].at = "told", ![c].outcome = outcome]

Look(c) == LookupStep(c) /\ UNCHANGED <<starting, call, seen>>

\* The lookup of c has come back at this place, with a value or with nothing.
Has(c, place) == call[c].at = place /\ lookup[c].at = "answered" /\ lookup[c].got # Empty
Lacks(c, place) == call[c].at = place /\ lookup[c].at = "answered" /\ lookup[c].got = Empty

Sees(s, on) == seen' = [seen EXCEPT ![s] = @ \cup {on}]

\* workbench_chat: whatever the task, tools run only if CrowdStrike is configured
\* (TOOLS_ENABLED is on, and the task has tools).
Turn(c) ==
    /\ starting = <<>>
    /\ call[c].at = "idle" /\ lookup[c].at = "idle"
    /\ Ask(c, <<"any", Falcon>>)
    /\ Go(c, "gate")
    /\ UNCHANGED <<starting, seen>>

Gate(c) ==
    /\ \/ Has(c, "gate") /\ Sees(Falcon, TRUE) /\ Go(c, "choosing")
       \/ Lacks(c, "gate") /\ Sees(Falcon, FALSE) /\ Go(c, "idle")
    /\ Leave(c)
    /\ UNCHANGED starting

\* Checks made before any setting is read: some value, a well-formed parameter
\* for Jira, an address the outside world can know.
Missing(kind) == kind \in {"blank", "wrong"}
Malformed(tool, kind) == tool.service \in JiraServices /\ kind \notin tool.accepted
Internal(tool, kind) == tool.service = "ip reputation" /\ kind = "private"

Choose(c) ==
    /\ call[c].at = "choosing"
    /\ \E tool \in AllTools, kind \in Kinds, h \in Hours :
          LET rejected == Missing(kind) \/ Malformed(tool, kind)
              first == IF tool.service \in Reputations THEN VirusTotal ELSE Setting(tool.service)
          IN
          IF rejected \/ Internal(tool, kind)
          THEN /\ Tell(c, IF rejected THEN "error" ELSE "unknown")
               /\ UNCHANGED secrets
          ELSE /\ Ask(c, <<"any", first>>)
               /\ call' = [call EXCEPT
                     ![c].at = IF tool.service \in Reputations THEN "virustotal" ELSE "config",
                     ![c].service = tool.service, ![c].valid = Accepts(tool, kind, h)]
    /\ UNCHANGED <<starting, seen>>

\* configured(), then the template; what it reads is read again for the request.
Config(c) ==
    LET s == Setting(call[c].service) IN
    /\ \/ Has(c, "config") /\ Sees(s, TRUE)
          /\ IF call[c].valid THEN Ask(c, <<"any", s>>) /\ Go(c, "settings")
             ELSE Leave(c) /\ Tell(c, "error")
       \/ Lacks(c, "config") /\ Sees(s, FALSE) /\ Leave(c) /\ Tell(c, "error")
    /\ UNCHANGED starting

\* env_cfg and _require, run_kql, _base_url: an error without them.
Settings(c) ==
    LET s == Setting(call[c].service) IN
    /\ \/ Has(c, "settings") /\ Sees(s, TRUE)
          /\ IF s = Sentinel THEN Ask(c, <<"any", SentinelKey>>) /\ Go(c, "secret")
             ELSE Leave(c) /\ Go(c, "first")
       \/ Lacks(c, "settings") /\ Sees(s, FALSE) /\ Leave(c) /\ Tell(c, "error")
    /\ UNCHANGED starting

-----------------------------------------------------------------------------
(* Exchanges.  Exceptions reach _run_tool, which tells them as errors. *)

\* The service says a; the outcome is told.
Hear(c, which, a, outcome) ==
    /\ call[c].at = which
    /\ call' = [call EXCEPT ![c][which] = a, ![c].at = "told", ![c].outcome = outcome]
    /\ UNCHANGED <<secrets, starting, seen>>

\* The ids of what matches, and the details of these.
FalconIds(c) ==
    /\ call[c].service = "falcon"
    /\ \/ \E a \in Answers \ {"some"} :
              Hear(c, "first", a, IF a = "none" THEN "nothing" ELSE "error")
       \/ /\ call[c].at = "first"
          /\ call' = [call EXCEPT ![c].first = "some", ![c].at = "second"]
          /\ UNCHANGED <<secrets, starting, seen>>

FalconDetails(c) ==
    /\ call[c].service = "falcon"
    /\ \E a \in Answers :
          Hear(c, "second", a, CASE a = "some" -> "found" [] a = "none" -> "nothing" [] OTHER -> "error")

\* _get_token: the secret that configured() does not ask for, and a token.
SentinelToken(c) ==
    /\ \/ Has(c, "secret") /\ Leave(c) /\ Go(c, "token")
       \/ Lacks(c, "secret") /\ Leave(c) /\ Tell(c, "error")
       \/ call[c].at = "token" /\ (Go(c, "first") \/ Tell(c, "error")) /\ UNCHANGED secrets
    /\ UNCHANGED <<starting, seen>>

RefusedIsEmpty(c) ==
    /\ call[c].service = "sentinel"
    /\ \E a \in Answers : Hear(c, "first", a, IF a = "some" THEN "found" ELSE "nothing")

\* run_kql: a refused query or a missing table counts as no rows.
SentinelQuery(c) ==
    /\ call[c].service = "sentinel"
    /\ \E a \in Answers :
          Hear(c, "first", a, CASE a = "some" -> "found"
                                [] a \in {"none", "400", "404"} -> "nothing"
                                [] OTHER -> "error")

JiraIssue(c) ==
    /\ call[c].service = "issue"
    /\ \E a \in Answers \ {"none"} :
          Hear(c, "first", a, IF a = "some" THEN "found" ELSE "error")

JiraSearch(c) ==
    /\ call[c].service = "search"
    /\ \E a \in Answers :
          Hear(c, "first", a, CASE a = "some" -> "found" [] a = "none" -> "nothing" [] OTHER -> "error")

JiraExchange(c) == JiraIssue(c) \/ JiraSearch(c)

-----------------------------------------------------------------------------
(* Reputation: each source contributes, or nothing. *)

\* _virustotal takes an indicator it does not know for one nobody flags.
Contributes(first, second) ==
    first \in {"some", "none", "404"} \/ second \in {"some", "none"}

VerdictBenign(first, second) ==
    IF "some" \in {first, second} THEN "malicious"
    ELSE IF Contributes(first, second) THEN "benign" ELSE "unknown"

Verdict(first, second) ==
    IF "some" \in {first, second} THEN "malicious"
    ELSE IF Contributes(first, second) THEN "clean" ELSE "unknown"

\* VirusTotal has said a: AbuseIPDB is next for an address.
AfterVirusTotal(c, a) ==
    IF call[c].service = "ip reputation"
    THEN /\ Ask(c, <<"any", AbuseIPDB>>)
         /\ call' = [call EXCEPT ![c].first = a, ![c].at = "abuseipdb"]
    ELSE /\ Leave(c)
         /\ call' = [call EXCEPT ![c].first = a, ![c].at = "told",
                                 ![c].outcome = Verdict(a, "unheard")]

\* Without a key the source is not asked.
AskVirusTotal(c) ==
    /\ \/ Has(c, "virustotal") /\ \E a \in Answers : AfterVirusTotal(c, a)
       \/ Lacks(c, "virustotal") /\ AfterVirusTotal(c, "unheard")
    /\ UNCHANGED <<starting, seen>>

AskAbuseIPDB(c) ==
    /\ Has(c, "abuseipdb") \/ Lacks(c, "abuseipdb")
    /\ Leave(c)
    /\ \E a \in IF lookup[c].got = Empty THEN {"unheard"} ELSE Answers :
          call' = [call EXCEPT ![c].second = a, ![c].at = "told",
                               ![c].outcome = Verdict(call[c].first, a)]
    /\ UNCHANGED <<starting, seen>>

\* The observation is in the conversation; the turn may call again, or end.
Observe(c) ==
    /\ call[c].at = "told"
    /\ \/ call' = [call EXCEPT ![c] = Rest]
       \/ call' = [call EXCEPT ![c] = [Rest EXCEPT !.at = "choosing"]]
    /\ UNCHANGED <<secrets, starting, seen>>

-----------------------------------------------------------------------------
CallStep(c) ==
    \/ Look(c) \/ Gate(c) \/ Choose(c) \/ Config(c) \/ Settings(c)
    \/ FalconIds(c) \/ FalconDetails(c) \/ SentinelToken(c) \/ SentinelQuery(c)
    \/ JiraExchange(c) \/ AskVirusTotal(c) \/ AskAbuseIPDB(c) \/ Observe(c)

Next ==
    \/ StartupAsk \/ StartupLook \/ StartupNext \/ Restart
    \/ \E c \in Calls : Turn(c) \/ CallStep(c)

Spec == Init /\ [][Next]_vars

-----------------------------------------------------------------------------
(* Properties *)

\* What the model is told rests on what services said.  Nothing was found only
\* when a service answered so, and no step of the call was refused for its
\* credentials or failed (a rejected Sentinel query and a missing table count as
\* no rows, by the code).  An indicator is clean only when one source looked it up
\* and does not flag it, or VirusTotal does not know it, whether or not the other
\* source could be asked; one that flags it is heard whatever the other does.
\* Something was found only when there was.
ReportsAreGrounded ==
    \A c \in Calls : call[c].at = "told" =>
        LET o == call[c].outcome
            first == call[c].first
            second == call[c].second
            said == {first, second} IN
        /\ o = "nothing" =>
              /\ "none" \in said \/ (call[c].service = "sentinel" /\ first \in {"400", "404"})
              /\ said \cap {"401", "failed"} = {}
        /\ o = "clean" => first \in {"none", "404"} \/ second = "none"
        /\ o \in {"found", "malicious"} => "some" \in said
        /\ call[c].service \in Reputations /\ "some" \in said => o = "malicious"

\* The integrations of a process are all on or off for good: no two calls, and no
\* two steps of one call, disagree about one, though each looks its settings up
\* again and any lookup of the vault may fail.  (Startup has looked first.)
IntegrationsDoNotFlap == \A s \in Integrations : seen[s] # BOOLEAN
=============================================================================
