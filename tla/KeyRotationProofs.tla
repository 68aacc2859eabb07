------------------------- MODULE KeyRotationProofs -------------------------
(***************************************************************************)
(* Proofs about KeyRotation, for every number of keys, instances and       *)
(* consumers and every choice of the times: rotations invalidate no token  *)
(* that the overlap covers, and old keys die out.                          *)
(***************************************************************************)
EXTENDS KeyRotation, TLAPS

LEMMA WarmLoaded ==
  ASSUME TypeOK, NEW i \in Instances
  PROVE  i \in warm <=> loaded[i] \in Loaded
BY RotationAssumption DEF TypeOK, warm, Loaded, Cold

LEMMA TypeInit == Init => TypeOK
BY RotationAssumption DEF Init, TypeOK, Secret, KeySet, Times, Never

LEMMA TypeStep == TypeOK /\ [Next]_vars => TypeOK'
<1> SUFFICES ASSUME TypeOK, [Next]_vars
             PROVE  TypeOK'
  OBVIOUS
<1> USE RotationAssumption
<1>1. CASE Tick
  BY <1>1 DEF TypeOK, Tick, history
<1>2. ASSUME NEW k \in Keys, Rotate(k)
      PROVE  TypeOK'
  BY <1>2 DEF TypeOK, Rotate, Secret, Times
<1>3. CASE Retire
  BY <1>3 DEF TypeOK, Retire, Secret, Times
<1>4. ASSUME NEW i \in Instances, ColdStart(i)
      PROVE  TypeOK'
  BY <1>4 DEF TypeOK, ColdStart, ReadSecret, Secret, Loaded, history
<1>5. ASSUME NEW i \in Instances, Stop(i)
      PROVE  TypeOK'
  BY <1>5 DEF TypeOK, Stop, history
<1>6. ASSUME NEW i \in Instances, NEW type \in Types, Sign(i, type)
      PROVE  TypeOK'
  <2>1. loaded[i].active \in Keys
    BY <1>6, WarmLoaded DEF Sign, Loaded
  <2>2. [key |-> SigningKey(i), type |-> type, exp |-> now + Life[type]] \in Token
    BY <2>1 DEF SigningKey, Token, TypeOK
  <2>3. QED
    BY <1>6, <2>2 DEF TypeOK, Sign, history
<1>7. ASSUME NEW i \in Instances, NEW c \in Consumers, Fetch(c, i)
      PROVE  TypeOK'
  <2>1. loaded[i] \in Loaded
    BY <1>7, WarmLoaded DEF Fetch
  <2>2. Jwks(i) \subseteq Keys
    BY <2>1 DEF Jwks, GetJwks, Loaded
  <2>3. [keys |-> Jwks(i), until |-> now + CacheAge] \in KeySet
    BY <2>2 DEF KeySet, TypeOK
  <2>4. QED
    BY <1>7, <2>3 DEF TypeOK, Fetch, history
<1>8. CASE UNCHANGED vars
  BY <1>8 DEF TypeOK, vars, history
<1>9. QED
  BY <1>1, <1>2, <1>3, <1>4, <1>5, <1>6, <1>7, <1>8 DEF Next

\* Every variable has its type.
THEOREM TypeCorrect == Spec => []TypeOK
BY TypeInit, TypeStep, PTL DEF Spec

-----------------------------------------------------------------------------

LEMMA InvInit == Init => IInv
<1> SUFFICES ASSUME Init
             PROVE  IInv
  OBVIOUS
<1>1. warm = {}
  BY DEF Init, warm
<1>2. TypeOK
  BY TypeInit
<1>3. /\ now = 0 /\ tokens = {} /\ secret.active = FirstKey /\ secret.retiring = None
      /\ \A c \in Consumers : cache[c].keys = {} /\ cache[c].until = 0
      /\ \A k \in Keys : /\ since[k] = IF k = FirstKey THEN 0 ELSE -1
                         /\ replaced[k] = -1 /\ retired[k] = -1
  BY DEF Init, Never
<1>4. SecretFits
  BY <1>3, RotationAssumption DEF SecretFits, Never
<1>5. LoadedFits /\ TokensFit /\ CachesFit
  BY <1>1, <1>3, RotationAssumption DEF LoadedFits, TokensFit, CachesFit
<1>6. QED
  BY <1>2, <1>4, <1>5 DEF IInv

\* The types of the parts, for the arithmetic below.
LEMMA Numbers ==
  ASSUME TypeOK
  PROVE  /\ now \in Nat
         /\ secret.active \in Keys /\ secret.retiring \in Keys \union {None}
         /\ \A k \in Keys : since[k] \in Times /\ replaced[k] \in Times /\ retired[k] \in Times
         /\ \A i \in warm : /\ i \in Instances
                            /\ loaded[i].active \in Keys
                            /\ loaded[i].retiring \in Keys \union {None}
                            /\ loaded[i].born \in Nat
         /\ \A t \in tokens : t.key \in Keys /\ t.type \in Types /\ t.exp \in Nat
         /\ \A c \in Consumers : cache[c].keys \subseteq Keys /\ cache[c].until \in Nat
<1>1. \A i \in warm : i \in Instances /\ loaded[i] \in Loaded
  BY WarmLoaded DEF warm
<1>2. now \in Nat /\ secret \in Secret /\ tokens \subseteq Token
      /\ \A c \in Consumers : cache[c] \in KeySet
  BY RotationAssumption DEF TypeOK
<1>3. QED
  BY <1>1, <1>2 DEF TypeOK, Secret, Loaded, Token, KeySet

LEMMA TickStep == IInv /\ Tick => SecretFits' /\ LoadedFits' /\ TokensFit' /\ CachesFit'
<1> SUFFICES ASSUME IInv, Tick
             PROVE  SecretFits' /\ LoadedFits' /\ TokensFit' /\ CachesFit'
  OBVIOUS
<1> USE Numbers, RotationAssumption DEF IInv, Times, Never
<1>1. /\ now' = now + 1 /\ warm' = warm
      /\ UNCHANGED <<secret, loaded, cache, since, replaced, retired>>
  BY DEF Tick, warm, history
<1>2. SecretFits'
  BY <1>1 DEF SecretFits
<1>3. LoadedFits'
  BY <1>1 DEF LoadedFits, Tick
<1>4. TokensFit'
  BY <1>1 DEF TokensFit, Tick
<1>5. CachesFit'
  BY <1>1 DEF CachesFit
<1>6. QED
  BY <1>2, <1>3, <1>4, <1>5

LEMMA RotateStep ==
  ASSUME IInv, NEW k \in Keys, Rotate(k)
  PROVE  SecretFits' /\ LoadedFits' /\ TokensFit' /\ CachesFit'
<1> USE Numbers, RotationAssumption DEF IInv, Times, Never
<1>1. /\ UNCHANGED <<now, loaded, tokens, cache, retired, warm>>
      /\ since[k] = -1 /\ k # secret.active
      /\ since'[k] = now /\ replaced'[secret.active] = now
      /\ \A j \in Keys \ {k} : since'[j] = since[j]
      /\ \A j \in Keys \ {secret.active} : replaced'[j] = replaced[j]
      /\ secret.retiring = None /\ secret'.active = k /\ secret'.retiring = secret.active
  BY DEF Rotate, warm, TypeOK, SecretFits
<1>2. SecretFits'
  BY <1>1 DEF SecretFits
<1>3. LoadedFits'
  BY <1>1 DEF LoadedFits, SecretFits
<1>4. TokensFit'
  BY <1>1 DEF TokensFit, SecretFits
<1>5. CachesFit'
  BY <1>1 DEF CachesFit
<1>6. QED
  BY <1>2, <1>3, <1>4, <1>5

LEMMA RetireStep == IInv /\ Retire => SecretFits' /\ LoadedFits' /\ TokensFit' /\ CachesFit'
<1> SUFFICES ASSUME IInv, Retire
             PROVE  SecretFits' /\ LoadedFits' /\ TokensFit' /\ CachesFit'
  OBVIOUS
<1> USE Numbers, RotationAssumption DEF IInv, Times, Never
<1>1. /\ UNCHANGED <<now, loaded, tokens, cache, since, replaced, warm>>
      /\ secret.retiring \in Keys /\ retired'[secret.retiring] = now
      /\ \A j \in Keys \ {secret.retiring} : retired'[j] = retired[j]
      /\ secret'.active = secret.active /\ secret'.retiring = None
      /\ now >= since[secret.active] + Overlap
  BY DEF Retire, warm, TypeOK, Secret
<1>2. SecretFits'
  BY <1>1 DEF SecretFits
<1>3. LoadedFits'
  BY <1>1 DEF LoadedFits
<1>4. TokensFit'
  BY <1>1 DEF TokensFit
<1>5. CachesFit'
  BY <1>1 DEF CachesFit
<1>6. QED
  BY <1>2, <1>3, <1>4, <1>5

LEMMA InstanceStep ==
  ASSUME IInv, NEW i \in Instances, ColdStart(i) \/ Stop(i)
  PROVE  SecretFits' /\ LoadedFits' /\ TokensFit' /\ CachesFit'
<1> USE Numbers, RotationAssumption DEF IInv, Times, Never
<1>1. UNCHANGED <<now, secret, tokens, cache, since, replaced, retired>>
  BY DEF ColdStart, Stop, history
<1>2. \A j \in Instances \ {i} : loaded'[j] = loaded[j]
  BY DEF ColdStart, Stop, TypeOK
<1>3. \/ i \notin warm'
      \/ /\ loaded'[i].active = secret.active
         /\ loaded'[i].retiring = secret.retiring
         /\ loaded'[i].born = now
  BY DEF ColdStart, Stop, TypeOK, ReadSecret, warm
<1>4. \A j \in warm' : j \in Instances /\ (j # i => j \in warm)
  BY <1>2 DEF warm
<1>5. LoadedFits'
  <2> SUFFICES ASSUME NEW j \in warm'
               PROVE  LoadedFits!(j)'
    BY DEF LoadedFits
  <2>1. CASE j = i
    BY <1>1, <1>3, <2>1 DEF SecretFits
  <2>2. CASE j # i
    BY <1>1, <1>2, <1>4, <2>2 DEF LoadedFits
  <2>3. QED
    BY <2>1, <2>2
<1>6. SecretFits' /\ TokensFit' /\ CachesFit'
  BY <1>1 DEF SecretFits, TokensFit, CachesFit
<1>7. QED
  BY <1>5, <1>6

LEMMA SignStep ==
  ASSUME IInv, NEW i \in Instances, NEW type \in Types, Sign(i, type)
  PROVE  SecretFits' /\ LoadedFits' /\ TokensFit' /\ CachesFit'
<1> USE Numbers, RotationAssumption DEF IInv, Times, Never
<1>1. UNCHANGED <<now, secret, loaded, cache, since, replaced, retired, warm>>
  BY DEF Sign, history, warm
<1>2. i \in warm /\ loaded[i].active \in Keys /\ Life[type] \in Nat \ {0}
  BY DEF Sign
<1>3. TokensFit'
  <2> SUFFICES ASSUME NEW t \in tokens'
               PROVE  TokensFit!(t)'
    BY DEF TokensFit
  <2>1. CASE t \in tokens
    BY <1>1, <2>1 DEF TokensFit
  <2>2. CASE t \notin tokens
    <3>1. t.key = loaded[i].active /\ t.type = type /\ t.exp = now + Life[type]
      BY <2>2 DEF Sign, SigningKey
    <3>2. /\ since[t.key] # Never
          /\ replaced[t.key] # Never => now <= replaced[t.key] + MaxWarm
      BY <1>2, <3>1 DEF LoadedFits
    <3>3. QED
      BY <1>1, <1>2, <3>1, <3>2
  <2>3. QED
    BY <2>1, <2>2
<1>4. SecretFits' /\ LoadedFits' /\ CachesFit'
  BY <1>1 DEF SecretFits, LoadedFits, CachesFit
<1>5. QED
  BY <1>3, <1>4

LEMMA FetchStep ==
  ASSUME IInv, NEW i \in Instances, NEW c \in Consumers, Fetch(c, i)
  PROVE  SecretFits' /\ LoadedFits' /\ TokensFit' /\ CachesFit'
<1> USE Numbers, RotationAssumption DEF IInv, Times, Never
<1>1. UNCHANGED <<now, secret, loaded, tokens, since, replaced, retired, warm>>
  BY DEF Fetch, history, warm
<1>2. i \in warm
  BY DEF Fetch
<1>3. Jwks(i) = {loaded[i].active}
  BY <1>2, WarmLoaded DEF Jwks, GetJwks, Loaded
<1>4. CachesFit'
  <2> SUFFICES ASSUME NEW d \in Consumers
               PROVE  /\ cache'[d].until <= now + CacheAge
                      /\ \A k \in cache'[d].keys :
                           /\ since[k] # Never
                           /\ retired[k] # Never =>
                                cache'[d].until <= retired[k] + MaxWarm + CacheAge
    BY <1>1 DEF CachesFit
  <2>1. CASE d = c
    <3>1. cache'[d].keys = Jwks(i) /\ cache'[d].until = now + CacheAge
      BY <2>1 DEF Fetch, TypeOK
    <3> DEFINE k == loaded[i].active
    <3>2. k \in Keys /\ k \in {loaded[i].active, loaded[i].retiring}
      BY <1>2
    <3>3. loaded[i].born \in Nat /\ now <= loaded[i].born + MaxWarm
      BY <1>2 DEF LoadedFits
    <3>4. since[k] # Never /\ (retired[k] = Never \/ retired[k] >= loaded[i].born)
      BY <1>2, <3>2 DEF LoadedFits
    <3>5. retired[k] # Never => now + CacheAge <= retired[k] + MaxWarm + CacheAge
      <4>1. retired[k] \in Int
        BY <3>2
      <4>2. QED
        BY <3>3, <3>4, <4>1
    <3>6. QED
      BY <1>3, <3>1, <3>4, <3>5
  <2>2. CASE d # c
    <3>1. cache'[d] = cache[d]
      BY <2>2 DEF Fetch, TypeOK
    <3>2. QED
      BY <1>1, <3>1 DEF CachesFit
  <2>3. QED
    BY <2>1, <2>2
<1>5. SecretFits' /\ LoadedFits' /\ TokensFit'
  BY <1>1 DEF SecretFits, LoadedFits, TokensFit
<1>6. QED
  BY <1>4, <1>5

LEMMA InvStep == IInv /\ [Next]_vars => IInv'
<1> SUFFICES ASSUME IInv, [Next]_vars
             PROVE  IInv'
  OBVIOUS
<1>1. TypeOK'
  BY TypeStep DEF IInv
<1>2. CASE Next
  <2>1. SecretFits' /\ LoadedFits' /\ TokensFit' /\ CachesFit'
    BY <1>2, TickStep, RotateStep, RetireStep, InstanceStep, SignStep, FetchStep DEF Next
  <2>2. QED
    BY <1>1, <2>1 DEF IInv
<1>3. CASE UNCHANGED vars
  BY <1>3 DEF IInv, TypeOK, SecretFits, LoadedFits, TokensFit, CachesFit, warm, vars, history
<1>4. QED
  BY <1>2, <1>3

LEMMA InvHolds == Spec => []IInv
BY InvInit, InvStep, PTL DEF Spec

-----------------------------------------------------------------------------

\* A rotation invalidates no live token that the overlap covers, for an instance
\* that started after the token's key came into use.
THEOREM LiveTokens == Spec => []LiveTokensVerify
<1>1. IInv => LiveTokensVerify
  <2> SUFFICES ASSUME IInv, NEW i \in warm, NEW t \in tokens,
                      loaded[i].born > since[t.key], MaxWarm + Life[t.type] <= Overlap
               PROVE  Accepts(i, t)
    BY DEF LiveTokensVerify
  <2> USE Numbers, RotationAssumption DEF IInv, Times, Never
  <2>1. /\ t.key \in Keys /\ t.type \in Types /\ t.exp > now
        /\ replaced[t.key] # Never => t.exp <= replaced[t.key] + MaxWarm + Life[t.type]
        /\ since[t.key] # Never
    BY DEF TokensFit
  <2>2. \/ t.key = loaded[i].active
        \/ t.key = loaded[i].retiring
        \/ replaced[t.key] # Never /\ replaced[t.key] + Overlap <= loaded[i].born
    BY <2>1 DEF LoadedFits
  <2>3. ~(replaced[t.key] # Never /\ replaced[t.key] + Overlap <= loaded[i].born)
    <3>1. loaded[i].born <= now
      BY DEF LoadedFits
    <3>2. QED
      BY <2>1, <3>1
  <2>4. QED
    BY <2>1, <2>2, <2>3 DEF Accepts
<1>2. QED
  BY <1>1, InvHolds, PTL

\* Keys die out: with the instances that know them, and with the key sets that
\* those served.
THEOREM OldKeysDieOut == Spec => []KeysDieOut
<1>1. IInv => KeysDieOut
  <2> SUFFICES ASSUME IInv, NEW k \in Keys
               PROVE  KeysDieOut!(k)
    BY DEF KeysDieOut
  <2> USE Numbers, RotationAssumption DEF IInv, Times, Never
  <2>1. ASSUME replaced[k] # Never, NEW i \in warm, SigningKey(i) = k
        PROVE  now <= replaced[k] + MaxWarm
    BY <2>1 DEF LoadedFits, SigningKey
  <2>2. ASSUME retired[k] # Never, NEW i \in warm, k \in GetJwks(loaded[i])
        PROVE  now <= retired[k] + MaxWarm
    BY <2>2 DEF LoadedFits, GetJwks
  <2>3. ASSUME retired[k] # Never, NEW c \in Consumers, k \in cache[c].keys, now < cache[c].until
        PROVE  now < retired[k] + MaxWarm + CacheAge
    BY <2>3 DEF CachesFit
  <2>4. QED
    BY <2>1, <2>2, <2>3
<1>2. QED
  BY <1>1, InvHolds, PTL
=============================================================================
