------------------------- MODULE FalconClientProofs -------------------------
(***************************************************************************)
(* Proofs about FalconClient, for any set of calls and any bounds.  The    *)
(* inductive invariant is an account: every token the endpoint has issued, *)
(* and the one it is about to be asked for, is paid for by the first       *)
(* token, by a lapse, or by one of the two assignments of an invalidation. *)
(***************************************************************************)
EXTENDS FalconClient, FiniteSetTheorems, TLAPS

-----------------------------------------------------------------------------
\* Every variable keeps to its type, whatever calls and the API do.
THEOREM TypeCorrect == Spec => []TypeOK
<1>1. Init => TypeOK
  BY ConstantsAssumption DEF Init, TypeOK, Tokens
<1>2. TypeOK /\ [Next]_vars => TypeOK'
  <2> SUFFICES ASSUME TypeOK, [Next]_vars PROVE TypeOK'
    OBVIOUS
  <2> USE ConstantsAssumption DEF TypeOK, Tokens, Go, Raises, entry, api, call
  <2>1. ASSUME NEW c \in Calls, Begin(c) \/ CallStep(c) PROVE TypeOK'
    <3>1. CASE Begin(c)  BY <3>1 DEF Begin
    <3>2. CASE Look(c)  BY <3>2 DEF Look
    <3>3. CASE Take(c)  BY <3>3 DEF Take
    <3>4. CASE Lock(c)  BY <3>4 DEF Lock
    <3>5. CASE Issue(c)  BY <3>5 DEF Issue
    <3>6. CASE Store(c)  BY <3>6 DEF Store
    <3>7. CASE Release(c)  BY <3>7 DEF Release
    <3>8. CASE IssueRefused(c)  BY <3>8 DEF IssueRefused
    <3>9. CASE NetworkRetry(c)  BY <3>9 DEF NetworkRetry
    <3>10. CASE NetworkFails(c)  BY <3>10 DEF NetworkFails
    <3>11. CASE Succeed(c)  BY <3>11 DEF Succeed
    <3>12. CASE Unauthorised(c)  BY <3>12 DEF Unauthorised
    <3>13. CASE Clear(c)  BY <3>13 DEF Clear, Again
    <3>14. CASE Throttled(c)  BY <3>14 DEF Throttled, Again
    <3>15. CASE Refused(c)  BY <3>15 DEF Refused
    <3> QED  BY <2>1, <3>1, <3>2, <3>3, <3>4, <3>5, <3>6, <3>7, <3>8, <3>9, <3>10,
                <3>11, <3>12, <3>13, <3>14, <3>15 DEF CallStep
  <2>2. CASE Lapse
    BY <2>2 DEF Lapse
  <2>3. CASE Revoke
    BY <2>3 DEF Revoke
  <2>4. CASE UNCHANGED vars
    BY <2>4 DEF vars
  <2> QED  BY <2>1, <2>2, <2>3, <2>4 DEF Next, Over
<1> QED  BY <1>1, <1>2, PTL DEF Spec

-----------------------------------------------------------------------------
\* The lock is held exactly by the call between its second check and its release,
\* which asks only while nothing is cached; what is numbered has been issued.
Renewal == {"asking", "storing", "releasing"}

RenewerHoldsLock ==
    /\ \A c \in Calls : pc[c] \in Renewal <=> lock = c
    /\ \A c \in Calls : pc[c] = "asking" => ~Cached
    /\ \A c \in Calls : pc[c] = "storing" => issued # 0
    /\ lapsed \subseteq 1..issued

\* No step lets two calls renew the token at once, or one that is not needed.
THEOREM RenewalIsSingle == Spec => []RenewerHoldsLock
<1>1. Init => RenewerHoldsLock
  BY ConstantsAssumption DEF Init, RenewerHoldsLock, Renewal
<1>2. TypeOK /\ RenewerHoldsLock /\ [Next]_vars => RenewerHoldsLock'
  <2> SUFFICES ASSUME TypeOK, RenewerHoldsLock, [Next]_vars PROVE RenewerHoldsLock'
    OBVIOUS
  <2> USE ConstantsAssumption
      DEF TypeOK, Tokens, RenewerHoldsLock, Renewal, Cached, Go, Raises, entry, api, call
  <2>1. ASSUME NEW c \in Calls, Begin(c) \/ CallStep(c) PROVE RenewerHoldsLock'
    <3>1. CASE Begin(c)  BY <3>1 DEF Begin
    <3>2. CASE Look(c)  BY <3>2 DEF Look
    <3>3. CASE Take(c)  BY <3>3 DEF Take
    <3>4. CASE Lock(c)  BY <3>4 DEF Lock
    <3>5. CASE Issue(c)  BY <3>5 DEF Issue
    <3>6. CASE Store(c)  BY <3>6 DEF Store
    <3>7. CASE Release(c)  BY <3>7 DEF Release
    <3>8. CASE IssueRefused(c)  BY <3>8 DEF IssueRefused
    <3>9. CASE NetworkRetry(c)  BY <3>9 DEF NetworkRetry
    <3>10. CASE NetworkFails(c)  BY <3>10 DEF NetworkFails
    <3>11. CASE Succeed(c)  BY <3>11 DEF Succeed
    <3>12. CASE Unauthorised(c)  BY <3>12 DEF Unauthorised
    <3>13. CASE Clear(c)  BY <3>13 DEF Clear, Again
    <3>14. CASE Throttled(c)  BY <3>14 DEF Throttled, Again
    <3>15. CASE Refused(c)  BY <3>15 DEF Refused
    <3> QED  BY <2>1, <3>1, <3>2, <3>3, <3>4, <3>5, <3>6, <3>7, <3>8, <3>9, <3>10,
                <3>11, <3>12, <3>13, <3>14, <3>15 DEF CallStep
  <2>2. CASE Lapse
    BY <2>2 DEF Lapse
  <2>3. CASE Revoke
    BY <2>3 DEF Revoke
  <2>4. CASE UNCHANGED vars
    BY <2>4 DEF vars
  <2> QED  BY <2>1, <2>2, <2>3, <2>4 DEF Next, Over
<1> QED  BY <1>1, <1>2, TypeCorrect, PTL DEF Spec

-----------------------------------------------------------------------------
\* Whether the entry lacks a token, or will once the call that stores one has.
Lacking ==
    IF \E c \in Calls : pc[c] = "storing" THEN token = 0 \/ issued \in lapsed ELSE ~Cached
Due == IF Lacking THEN 1 ELSE 0

\* The calls that have cleared the token and not yet the expiry: each may cause
\* one renewal more.
Clearing == {c \in Calls : pc[c] = "clearing"}

Account ==
    /\ IsFiniteSet(Clearing)
    /\ issued + Due + Cardinality(Clearing) <= 1 + Cardinality(lapsed) + 2 * clearings

\* Only tokens lapse, and these are finitely many.
LEMMA LapsedIsFinite ==
    ASSUME TypeOK PROVE IsFiniteSet(lapsed) /\ Cardinality(lapsed) \in Nat
<1>1. MaxTokens \in Int /\ 1 \in Int /\ lapsed \in SUBSET (1..MaxTokens)
  BY ConstantsAssumption DEF TypeOK, Tokens
<1>2. IsFiniteSet(1..MaxTokens)
  BY <1>1, FS_Interval
<1>3. IsFiniteSet(lapsed)
  BY <1>1, <1>2, FS_Subset
<1> QED  BY <1>3, FS_CardinalityType

\* The arithmetic of a step that asks for no more than was due.
LEMMA Balance ==
    ASSUME NEW i \in Nat, NEW j \in Nat, NEW d \in Nat, NEW e \in Nat,
           NEW n \in Nat, NEW l \in Nat, NEW k \in Nat,
           i + d + n <= 1 + l + 2 * k, j + e <= i + d
    PROVE  j + e + n <= 1 + l + 2 * k
  OBVIOUS

\* A step that leaves lapses and invalidations alone and asks for no more than was
\* due keeps the account.
LEMMA AccountKept ==
    ASSUME TypeOK, TypeOK', Account,
           Clearing' = Clearing, UNCHANGED <<lapsed, clearings>>,
           issued' + Due' <= issued + Due
    PROVE  Account'
<1>1. Cardinality(Clearing) \in Nat
  BY FS_CardinalityType DEF Account
<1>2. IsFiniteSet(lapsed) /\ Cardinality(lapsed) \in Nat
  BY LapsedIsFinite
<1>3. issued \in Nat /\ issued' \in Nat /\ clearings \in Nat /\ Due \in {0, 1} /\ Due' \in {0, 1}
  BY ConstantsAssumption DEF TypeOK, Due
<1>4. /\ IsFiniteSet(Clearing') /\ Cardinality(Clearing') = Cardinality(Clearing)
      /\ Cardinality(lapsed') = Cardinality(lapsed) /\ clearings' = clearings
  BY DEF Account
<1>5. issued' + Due' + Cardinality(Clearing') <= 1 + Cardinality(lapsed') + 2 * clearings'
  <2>1. issued + Due + Cardinality(Clearing) <= 1 + Cardinality(lapsed) + 2 * clearings
    BY DEF Account
  <2>2. issued' + Due' <= issued + Due
    OBVIOUS
  <2>3. issued' + Due' + Cardinality(Clearing) <= 1 + Cardinality(lapsed) + 2 * clearings
    <3>1. Due \in Nat /\ Due' \in Nat
      BY <1>3
    <3> QED  BY <1>1, <1>2, <1>3, <2>1, <2>2, <3>1, Balance
  <2> QED  BY <1>4, <2>3
<1> QED  BY <1>4, <1>5 DEF Account

\* Every renewal has been paid for.
LEMMA AccountHolds ==
    ASSUME TypeOK, TypeOK', RenewerHoldsLock, RenewerHoldsLock', Account, [Next]_vars
    PROVE  Account'
<1>1. Cardinality(Clearing) \in Nat /\ IsFiniteSet(Clearing)
  BY FS_CardinalityType DEF Account
<1>2. IsFiniteSet(lapsed) /\ Cardinality(lapsed) \in Nat
  BY LapsedIsFinite
<1>3. issued \in Nat /\ clearings \in Nat /\ Due \in {0, 1} /\ Due' \in {0, 1}
  BY ConstantsAssumption DEF TypeOK, Due
<1>4. ASSUME NEW c \in Calls, Begin(c) \/ CallStep(c) PROVE Account'
  <2> USE DEF TypeOK, Go, Raises, entry, api, call
  <2>1. CASE Unauthorised(c)
    <3>1. Clearing' = Clearing \cup {c} /\ c \notin Clearing
      BY <2>1 DEF Unauthorised, Clearing
    <3>2. IsFiniteSet(Clearing') /\ Cardinality(Clearing') = Cardinality(Clearing) + 1
      BY <1>1, <3>1, FS_AddElement
    <3>3. UNCHANGED <<issued, lapsed>> /\ clearings' = clearings + 1
      BY <2>1 DEF Unauthorised
    <3> QED  BY <1>1, <1>2, <1>3, <3>2, <3>3 DEF Account
  <2>2. CASE Clear(c)
    <3>1. Clearing' = Clearing \ {c} /\ c \in Clearing
      BY <2>2 DEF Clear, Again, Clearing
    <3>2. IsFiniteSet(Clearing') /\ Cardinality(Clearing') = Cardinality(Clearing) - 1
      BY <1>1, <3>1, FS_RemoveElement
    <3>3. UNCHANGED <<issued, lapsed, clearings>>
      BY <2>2 DEF Clear
    <3> QED  BY <1>1, <1>2, <1>3, <3>2, <3>3 DEF Account
  <2>3. CASE Issue(c)
    <3>1. Clearing' = Clearing /\ UNCHANGED <<lapsed, clearings>> /\ issued' = issued + 1
      BY <2>3 DEF Issue, Clearing
    <3>2. Lacking
      BY <2>3 DEF Issue, Lacking, RenewerHoldsLock, Renewal
    <3>3. ~Lacking'
      BY <1>3, <2>3 DEF Issue, Lacking, RenewerHoldsLock
    <3> QED  BY <1>3, <3>1, <3>2, <3>3, AccountKept DEF Due
  <2>4. CASE Store(c)
    <3>1. Clearing' = Clearing /\ UNCHANGED <<lapsed, clearings, issued>>
      BY <2>4 DEF Store, Clearing
    <3>2. ~ \E d \in Calls : pc'[d] = "storing"
      BY <2>4 DEF Store, RenewerHoldsLock, Renewal
    <3>3. Lacking' <=> Lacking
      BY <1>3, <2>4, <3>2 DEF Store, Lacking, Cached, RenewerHoldsLock
    <3> QED  BY <1>3, <3>1, <3>3, AccountKept DEF Due
  <2>5. ASSUME ~Unauthorised(c), ~Clear(c), ~Issue(c), ~Store(c) PROVE Account'
    <3>1. UNCHANGED <<token, expiry, issued, lapsed, clearings>>
      BY <1>4, <2>5 DEF CallStep, Begin, Look, Take, Lock, Release, IssueRefused, NetworkRetry,
                        NetworkFails, Succeed, Throttled, Again, Refused
    <3>2. \A d \in Calls : /\ pc'[d] = "clearing" <=> pc[d] = "clearing"
                           /\ pc'[d] = "storing" <=> pc[d] = "storing"
      <4>1. /\ pc[c] \notin {"clearing", "storing"}
            /\ \/ UNCHANGED pc
               \/ \E next : next \notin {"clearing", "storing"} /\ pc' = [pc EXCEPT ![c] = next]
        BY <1>4, <2>5 DEF CallStep, Begin, Look, Take, Lock, Release, IssueRefused, NetworkRetry,
                          NetworkFails, Succeed, Throttled, Again, Refused
      <4> QED  BY <4>1
    <3>3. Clearing' = Clearing
      BY <3>2 DEF Clearing
    <3>4. Lacking' <=> Lacking
      BY <3>1, <3>2 DEF Lacking, Cached
    <3> QED  BY <1>3, <3>1, <3>3, <3>4, AccountKept DEF Due
  <2> QED  BY <2>1, <2>2, <2>3, <2>4, <2>5
<1>5. CASE Lapse
  <2>1. PICK k \in (1..issued) \ lapsed : lapsed' = lapsed \cup {k}
    BY <1>5 DEF Lapse
  <2>2. Cardinality(lapsed') = Cardinality(lapsed) + 1
    BY <1>2, <2>1, FS_AddElement
  <2>3. Clearing' = Clearing /\ UNCHANGED <<issued, clearings>>
    BY <1>5 DEF Lapse, Clearing, call
  <2> QED  BY <1>1, <1>2, <1>3, <2>2, <2>3 DEF Account
<1>6. CASE Revoke \/ UNCHANGED vars
  <2>1. UNCHANGED <<token, expiry, issued, lapsed, clearings, pc>>
    BY <1>6 DEF Revoke, entry, api, call, vars
  <2>2. Clearing' = Clearing /\ Due' = Due
    BY <2>1 DEF Clearing, Due, Lacking, Cached
  <2> QED  BY <1>3, <2>1, <2>2, AccountKept
<1> QED  BY <1>4, <1>5, <1>6 DEF Next, Over

\* However many calls find the cache empty, lapsed or invalidated at once, the
\* token endpoint is asked for no more tokens than lapses and invalidations explain.
THEOREM EndpointStaysSpared == Spec => []EndpointIsSpared
<1>1. Init => Account
  <2> SUFFICES ASSUME Init PROVE Account
    OBVIOUS
  <2>1. Clearing = {} /\ lapsed = {} /\ issued = 0 /\ clearings = 0
    BY DEF Init, Clearing
  <2> QED  BY <2>1, FS_EmptySet DEF Account, Due
<1>2. TypeOK /\ TypeOK' /\ RenewerHoldsLock /\ RenewerHoldsLock' /\ Account /\ [Next]_vars
          => Account'
  BY AccountHolds
<1>3. TypeOK /\ Account => EndpointIsSpared
  <2> SUFFICES ASSUME TypeOK, Account PROVE EndpointIsSpared
    OBVIOUS
  <2>1. Cardinality(Clearing) \in Nat
    BY FS_CardinalityType DEF Account
  <2>2. IsFiniteSet(lapsed) /\ Cardinality(lapsed) \in Nat
    BY LapsedIsFinite
  <2>3. issued \in Nat /\ clearings \in Nat /\ Due \in {0, 1}
    BY ConstantsAssumption DEF TypeOK, Due
  <2> QED  BY <2>1, <2>2, <2>3 DEF Account, EndpointIsSpared
<1> QED  BY <1>1, <1>2, <1>3, TypeCorrect, RenewalIsSingle, PTL DEF Spec

-----------------------------------------------------------------------------
\* A token that was refused is out of the cache for good, since numbers only grow;
\* a call that sends again has read the cache after the refusal.
RefusedIsGone ==
    /\ token <= issued
    /\ \A c \in Calls :
          /\ bearer[c] <= issued
          /\ \A k \in refused[c] : k = 0 \/ (k <= issued /\ token # k)
          /\ refused[c] # {} => pc[c] = "clearing" \/ c \in retried

RefusedInv == RefusedIsGone /\ RefusedTokenIsNotReused

\* Neither a renewal by another call nor a late read brings a refused token back.
THEOREM RefusedTokenStaysAway == Spec => []RefusedTokenIsNotReused
<1>1. Init => RefusedInv
  BY ConstantsAssumption DEF Init, RefusedInv, RefusedIsGone, RefusedTokenIsNotReused
<1>2. TypeOK /\ RefusedInv /\ [Next]_vars => RefusedInv'
  <2> SUFFICES ASSUME TypeOK, RefusedInv, [Next]_vars PROVE RefusedInv'
    OBVIOUS
  <2> USE ConstantsAssumption
      DEF TypeOK, Tokens, RefusedInv, RefusedIsGone, RefusedTokenIsNotReused, Go, Raises,
          entry, api, call
  <2>1. ASSUME NEW c \in Calls, Begin(c) \/ CallStep(c) PROVE RefusedInv'
    <3>1. CASE Begin(c)  BY <3>1 DEF Begin
    <3>2. CASE Look(c)  BY <3>2 DEF Look
    <3>3. CASE Take(c)  BY <3>3 DEF Take
    <3>4. CASE Lock(c)  BY <3>4 DEF Lock
    <3>5. CASE Issue(c)  BY <3>5 DEF Issue
    <3>6. CASE Store(c)  BY <3>6 DEF Store
    <3>7. CASE Release(c)  BY <3>7 DEF Release
    <3>8. CASE IssueRefused(c)  BY <3>8 DEF IssueRefused
    <3>9. CASE NetworkRetry(c)  BY <3>9 DEF NetworkRetry
    <3>10. CASE NetworkFails(c)  BY <3>10 DEF NetworkFails
    <3>11. CASE Succeed(c)  BY <3>11 DEF Succeed
    <3>12. CASE Unauthorised(c)  BY <3>12 DEF Unauthorised
    <3>13. CASE Clear(c)  BY <3>13 DEF Clear, Again
    <3>14. CASE Throttled(c)  BY <3>14 DEF Throttled, Again
    <3>15. CASE Refused(c)  BY <3>15 DEF Refused
    <3> QED  BY <2>1, <3>1, <3>2, <3>3, <3>4, <3>5, <3>6, <3>7, <3>8, <3>9, <3>10,
                <3>11, <3>12, <3>13, <3>14, <3>15 DEF CallStep
  <2>2. CASE Lapse \/ Revoke
    BY <2>2 DEF Lapse, Revoke
  <2>3. CASE UNCHANGED vars
    BY <2>3 DEF vars
  <2> QED  BY <2>1, <2>2, <2>3 DEF Next, Over
<1>3. RefusedInv => RefusedTokenIsNotReused
  BY DEF RefusedInv
<1> QED  BY <1>1, <1>2, <1>3, TypeCorrect, PTL DEF Spec
=============================================================================
