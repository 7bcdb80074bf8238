------------------------------- MODULE MCLogin -------------------------------
(***************************************************************************)
(* A small instance of Login.  In a behaviour either all the tabs are used *)
(* and the secrets stay what they are, or one tab signs in while an        *)
(* administrator, another reader and the outside world are at work on the  *)
(* secrets.  Restarts change the signing key in the first case only.       *)
(***************************************************************************)
EXTENDS Login

CONSTANTS t1, t2, reader, g1, g2, member, outsider, group

MCGroupsOf == [a \in Accounts |-> IF a = member THEN {g1} ELSE {}]
Everywhere(v) == [n \in Names |-> v]
MCEnvironments == {Everywhere(Empty), Everywhere(g1)}

VARIABLE scenario

MCInit ==
    /\ scenario \in {"tabs", "secrets"}
    /\ LoginInit
    /\ key = IF scenario = "tabs" THEN "own" ELSE "shared"
    /\ scenario = "tabs" => env = Everywhere(Empty) /\ vault = Everywhere(g1)

MCNext ==
    /\ LoginNext
    /\ key' = key
    /\ scenario = "tabs" => ~OtherThreads /\ env' = env
    /\ scenario = "secrets" =>
           /\ at'[t2] = at[t2]
           /\ at'[t1] = "going" /\ at[t1] = "quiet" => route'[t1] = "login"
           /\ at'[t1] = "going" /\ at[t1] = "idp" => who'[t1] = outsider
           /\ lookup[reader].at = "idle" => lookup'[reader].key[1] = "kv" \/ lookup'[reader] = Idle
           /\ lookup[reader].at = "answered" => lookup'[reader].at \in {"answered", "idle"}
    /\ UNCHANGED scenario

MCSpec == MCInit /\ [][MCNext]_<<loginVars, scenario>> /\ \A t \in Tabs : WF_loginVars(TabStep(t))
=============================================================================
