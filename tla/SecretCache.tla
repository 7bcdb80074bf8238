----------------------------- MODULE SecretCache -----------------------------
(***************************************************************************)
(* Secret resolution (app/secrets.py): the cache of one process in front   *)
(* of the environment and the Key Vault, looked up by concurrent request   *)
(* threads, with the writes of an administrator and changes made outside   *)
(* the program.                                                            *)
(*                                                                         *)
(* get_secret(NAME) and get_kv_secret(name) keep entries of their own for  *)
(* one secret: <<"any", n>> and <<"kv", n>>.  set_kv_secret drops the      *)
(* second one; the other key it drops, the kebab-case name itself, is one  *)
(* under which no lookup stores.                                           *)
(***************************************************************************)
EXTENDS Naturals, FiniteSets

CONSTANTS
    Names,          \* secrets
    Values,         \* non-empty values of secrets
    Empty,          \* the empty string
    Absent,         \* not in the cache
    Nothing,        \* no secret
    Readers,        \* threads that look secrets up
    Environments,   \* what the environment of a process may hold
    KeyVault        \* whether AZURE_KEYVAULT_URL is set

Words == Values \cup {Empty}
Keys == {"any", "kv"} \X Names

ASSUME SecretsAssumption ==
    /\ Names # {}
    /\ Empty \notin Values /\ Absent \notin Words
    /\ Nothing \notin Names
    /\ Environments \subseteq [Names -> Words] /\ Environments # {}
    /\ KeyVault \in BOOLEAN

VARIABLES
    env,        \* os.environ of the running process
    vault,      \* what the Key Vault holds, Empty when it has no such secret
    cache,      \* _cache
    lookup,     \* lookup[r]: where the thread stands in get_secret or get_kv_secret
    writing,    \* the secret that set_kv_secret has written and not yet dropped
    were,       \* ghost: what each secret has been since the process started
    excused     \* ghost: the secrets changed behind the back of the cache

secrets == <<env, vault, cache, lookup, writing, were, excused>>

Stages == {"idle", "checking", "taking", "fetching", "storing", "answered", "raised"}
Lookup(at, key, got) == [at |-> at, key |-> key, got |-> got]
Idle == Lookup("idle", CHOOSE k \in Keys : TRUE, Empty)
Asking(key) == Lookup("checking", key, Empty)

SecretsTypeOK ==
    /\ env \in Environments
    /\ vault \in [Names -> Words]
    /\ cache \in [Keys -> Words \cup {Absent}]
    /\ lookup \in [Readers -> [at : Stages, key : Keys, got : Words]]
    /\ writing \in Names \cup {Nothing}
    /\ were \in [Names -> SUBSET Words]
    /\ excused \subseteq Names

SecretsInit ==
    /\ env \in Environments
    /\ vault \in [Names -> Words]
    /\ cache = [k \in Keys |-> Absent]
    /\ lookup = [r \in Readers |-> Idle]
    /\ writing = Nothing
    /\ were = [n \in Names |-> {env[n], vault[n]}]
    /\ excused = {}

-----------------------------------------------------------------------------
(* One lookup *)

\* get_secret or get_kv_secret is called, perhaps right after another lookup.
Ask(r, key) ==
    /\ lookup[r].at \in {"idle", "answered"}
    /\ lookup' = [lookup EXCEPT ![r] = Asking(key)]
    /\ UNCHANGED <<env, vault, cache, writing, were, excused>>

\* if name in _cache; get_kv_secret answers at once when there is no vault.
Check(r) ==
    /\ lookup[r].at = "checking"
    /\ LET key == lookup[r].key IN
       lookup' = [lookup EXCEPT ![r].at =
           IF key[1] = "kv" /\ ~KeyVault THEN "answered"
           ELSE IF cache[key] # Absent THEN "taking" ELSE "fetching"]
    /\ UNCHANGED <<env, vault, cache, writing, were, excused>>

TakeOrEmpty(r) ==
    /\ lookup[r].at = "taking"
    /\ LET key == lookup[r].key IN
       lookup' = [lookup EXCEPT ![r] = Lookup("answered", key,
                      IF cache[key] = Absent THEN Empty ELSE cache[key])]
    /\ UNCHANGED <<env, vault, cache, writing, were, excused>>

\* return _cache[name], which raises KeyError if it was dropped meanwhile.
Take(r) ==
    /\ lookup[r].at = "taking"
    /\ LET key == lookup[r].key IN
       lookup' = [lookup EXCEPT ![r] = IF cache[key] = Absent THEN Lookup("raised", key, Empty)
                                       ELSE Lookup("answered", key, cache[key])]
    /\ UNCHANGED <<env, vault, cache, writing, were, excused>>

\* The environment wins; a vault that fails looks like one without the secret.
Found(key) ==
    IF key[1] = "any" /\ env[key[2]] # Empty THEN {env[key[2]]}
    ELSE IF KeyVault THEN {vault[key[2]], Empty} ELSE {Empty}

FetchOrFail(r) ==
    /\ lookup[r].at = "fetching"
    /\ \E v \in Found(lookup[r].key) :
          lookup' = [lookup EXCEPT ![r].at = "storing", ![r].got = v]
    /\ UNCHANGED <<env, vault, cache, writing, were, excused>>

\* What was found is remembered, an empty answer as well.
Store(r) ==
    /\ lookup[r].at = "storing"
    /\ cache' = [cache EXCEPT ![lookup[r].key] = lookup[r].got]
    /\ lookup' = [lookup EXCEPT ![r].at = "answered"]
    /\ UNCHANGED <<env, vault, writing, were, excused>>

\* The caller goes on with the answer.
Leave(r) ==
    /\ lookup[r].at \in {"answered", "raised"}
    /\ lookup' = [lookup EXCEPT ![r] = Idle]
    /\ UNCHANGED <<env, vault, cache, writing, were, excused>>

LookupStep(r) == Check(r) \/ Take(r) \/ FetchOrFail(r) \/ Store(r)

-----------------------------------------------------------------------------
(* Administration *)

Becomes(n, v) ==
    /\ vault' = [vault EXCEPT ![n] = v]
    /\ were' = [were EXCEPT ![n] = @ \cup {v}]

\* set_kv_secret: the write (when it fails nothing changes and it raises) ...
Write(n, v) ==
    /\ KeyVault /\ writing = Nothing
    /\ v # vault[n]
    /\ Becomes(n, v)
    /\ writing' = n
    /\ UNCHANGED <<env, cache, lookup, excused>>

\* A thread that will store what the vault no longer holds.
Straddles(r, n) ==
    lookup[r].at = "storing" /\ lookup[r].key = <<"kv", n>>
    /\ lookup[r].got \notin {vault[n], Empty}

DropOtherEntry ==
    /\ writing # Nothing
    /\ writing' = Nothing
    /\ cache' = [cache EXCEPT ![<<"any", writing>>] = Absent]
    /\ excused' = IF \E r \in Readers : Straddles(r, writing)
                  THEN excused \cup {writing} ELSE excused \ {writing}
    /\ UNCHANGED <<env, vault, lookup, were>>

\* ... and the dropping of the entry of that name.
Drop ==
    /\ writing # Nothing
    /\ writing' = Nothing
    /\ cache' = [cache EXCEPT ![<<"kv", writing>>] = Absent]
    /\ excused' = IF \E r \in Readers : Straddles(r, writing)
                  THEN excused \cup {writing} ELSE excused \ {writing}
    /\ UNCHANGED <<env, vault, lookup, were>>

ClearCache ==
    /\ cache' = [k \in Keys |-> Absent]
    /\ UNCHANGED <<env, vault, lookup, writing, were, excused>>

\* The secret is changed or deleted in the vault itself.
Rotate(n, v) ==
    /\ v # vault[n]
    /\ Becomes(n, v)
    /\ excused' = excused \cup {n}
    /\ UNCHANGED <<env, cache, lookup, writing>>

\* A new process, with an empty cache and perhaps another environment.
RestartSecrets ==
    /\ env' \in Environments
    /\ cache' = [k \in Keys |-> Absent]
    /\ lookup' = [r \in Readers |-> Idle]
    /\ writing' = Nothing
    /\ were' = [n \in Names |-> {env'[n], vault[n]}]
    /\ excused' = {}
    /\ UNCHANGED vault

Administer ==
    \/ \E n \in Names, v \in Values : Write(n, v)
    \/ \E n \in Names, v \in Words : Rotate(n, v)
    \/ Drop
    \/ ClearCache

SecretsNext ==
    \/ \E r \in Readers : (\E key \in Keys : Ask(r, key)) \/ LookupStep(r) \/ Leave(r)
    \/ Administer
    \/ RestartSecrets

SecretsSpec == SecretsInit /\ [][SecretsNext]_secrets

-----------------------------------------------------------------------------
(* Properties *)

\* secrets.py:13-14, "rotated secrets take effect within one restart": what the
\* cache holds was in the environment or the vault since this process started.
CachedWasThere ==
    \A k \in Keys : cache[k] \in {Absent, Empty} \cup were[k[2]]

\* secrets.py:107, "subsequent reads see the new value": once set_kv_secret has
\* returned, get_kv_secret gives the new value or finds nothing, unless a lookup
\* that had fetched the old value stored it later, or the vault was changed
\* outside the program.
WriteIsSeen ==
    \A n \in Names \ (excused \cup {writing}) :
        cache[<<"kv", n>>] \in {Absent, Empty, vault[n]}

\* Nothing in the cache is older than the process, and no entry of get_kv_secret
\* older than a write that has returned.
CacheIsCurrent == CachedWasThere /\ WriteIsSeen
=============================================================================
