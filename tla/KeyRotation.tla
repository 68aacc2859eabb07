---------------------------- MODULE KeyRotation ----------------------------
(***************************************************************************)
(* The signing key: an operator replaces it in Secrets Manager, each       *)
(* Lambda instance reads the secret once, when it starts (config.py), and  *)
(* signs and verifies with what it read until it is stopped; consumers of  *)
(* the tokens fetch a key set from some instance's JWKS endpoint and keep  *)
(* it for as long as Cache-Control says.  A key stands for a key pair with *)
(* its kid.                                                                *)
(* The operator and Lambda are the environment: a replaced key stays in    *)
(* the secret as the retiring key for Overlap at least, and an instance    *)
(* does not live for longer than MaxWarm.                                  *)
(***************************************************************************)
EXTENDS Integers

CONSTANTS Keys,      \* the key pairs the operator may bring in, each once
          FirstKey,  \* the one the secret begins with
          None,      \* no retiring key
          Instances, \* Lambda instances
          Consumers, \* services that verify tokens by themselves
          Types,     \* types of token
          Life,      \* how long a token of each type lives
          MaxWarm,   \* the longest life of an instance
          CacheAge,  \* max-age of the key set
          Overlap,   \* how long the operator keeps a retiring key at least
          MaxTime    \* the clock stops here

ASSUME RotationAssumption ==
  /\ FirstKey \in Keys
  /\ None \notin Keys
  /\ Life \in [Types -> Nat \ {0}]
  /\ MaxWarm \in Nat /\ CacheAge \in Nat /\ Overlap \in Nat
  /\ MaxTime \in Nat

VARIABLES now,      \* the clock
          secret,   \* what Secrets Manager holds
          loaded,   \* what each instance read from the secret, and when
          tokens,   \* the tokens that have not expired
          cache,    \* the key set each consumer keeps
          since,    \* when a key became active, Never if it did not (history)
          replaced, \* when it ceased to be (history)
          retired   \* when it left the secret (history)

history == <<since, replaced, retired>>
vars == <<now, secret, loaded, tokens, cache, history>>

Never == -1
Times == Nat \union {Never}

Secret == [active : Keys, retiring : Keys \union {None}]
Loaded == [active : Keys, retiring : Keys \union {None}, born : Nat]
Cold == [active |-> None, retiring |-> None, born |-> 0]
Token == [key : Keys, type : Types, exp : Nat]
KeySet == [keys : SUBSET Keys, until : Nat]

Init ==
  /\ now = 0
  /\ secret = [active |-> FirstKey, retiring |-> None]
  /\ loaded = [i \in Instances |-> Cold]
  /\ tokens = {}
  /\ cache = [c \in Consumers |-> [keys |-> {}, until |-> 0]]
  /\ since = [k \in Keys |-> IF k = FirstKey THEN 0 ELSE Never]
  /\ replaced = [k \in Keys |-> Never]
  /\ retired = [k \in Keys |-> Never]

\* The instances that run.
warm == {i \in Instances : loaded[i] # Cold}

-----------------------------------------------------------------------------
(* The environment. *)

\* Instances are replaced in time, and tokens expire.
Tick ==
  /\ now < MaxTime
  /\ \A i \in warm : now < loaded[i].born + MaxWarm
  /\ now' = now + 1
  /\ tokens' = {t \in tokens : t.exp > now + 1}
  /\ UNCHANGED <<secret, loaded, cache, history>>

\* The operator stores a new key pair and keeps the public half of the old one.
Rotate(k) ==
  /\ since[k] = Never
  /\ secret.retiring = None
  /\ secret' = [active |-> k, retiring |-> secret.active]
  /\ since' = [since EXCEPT ![k] = now]
  /\ replaced' = [replaced EXCEPT ![secret.active] = now]
  /\ UNCHANGED <<now, loaded, tokens, cache, retired>>

\* The overlap is over.
Retire ==
  /\ secret.retiring # None
  /\ now >= since[secret.active] + Overlap
  /\ secret' = [secret EXCEPT !.retiring = None]
  /\ retired' = [retired EXCEPT ![secret.retiring] = now]
  /\ UNCHANGED <<now, loaded, tokens, cache, since, replaced>>

Stop(i) ==
  /\ i \in warm
  /\ loaded' = [loaded EXCEPT ![i] = Cold]
  /\ UNCHANGED <<now, secret, tokens, cache, history>>

-----------------------------------------------------------------------------
(* An instance of the service. *)

\* Mutant: the retiring key is not read.
ReadActiveOnly == [active |-> secret.active, retiring |-> None, born |-> now]

\* Mutant: the two keys change places.
ReadSwapped == [active |-> secret.retiring, retiring |-> secret.active, born |-> now]

\* _resolve_rsa_keys, from the secret.  A retiring key id without its public key,
\* or the reverse, verifies no token (jwt_token_service.py:103) and counts as none.
ReadSecret == [active |-> secret.active, retiring |-> secret.retiring, born |-> now]

\* The module config is imported and main.py hands the keys to the token service.
ColdStart(i) ==
  /\ i \notin warm
  /\ loaded' = [loaded EXCEPT ![i] = ReadSecret]
  /\ UNCHANGED <<now, secret, tokens, cache, history>>

\* Mutant: the retiring key is read for the active one.
SigningKeySwapped(i) ==
  IF loaded[i].retiring = None THEN loaded[i].active ELSE loaded[i].retiring

\* The key that _encode signs with and names in the header.
SigningKey(i) == loaded[i].active

Sign(i, type) ==
  /\ i \in warm
  /\ tokens' = tokens \union {[key |-> SigningKey(i), type |-> type, exp |-> now + Life[type]]}
  /\ UNCHANGED <<now, secret, loaded, cache, history>>

\* verify_token as far as keys go: the active key, or the retiring one if it is
\* known, by the kid of the token.
Accepts(i, t) ==
  /\ t.key = loaded[i].active \/ (loaded[i].retiring # None /\ t.key = loaded[i].retiring)
  /\ t.exp > now

\* JWTTokenService.get_jwks.
GetJwks(service) ==
  {service.active} \union (IF service.retiring # None THEN {service.retiring} ELSE {})

\* The endpoint makes a token service of its own, without the retiring key.
Jwks(i) == GetJwks([loaded[i] EXCEPT !.retiring = None])

-----------------------------------------------------------------------------
(* A consumer fetches the key set anew, because its copy is too old or does *)
(* not have a key it needs.                                                 *)
Fetch(c, i) ==
  /\ i \in warm
  /\ cache' = [cache EXCEPT ![c] = [keys |-> Jwks(i), until |-> now + CacheAge]]
  /\ UNCHANGED <<now, secret, loaded, tokens, history>>

Next ==
  \/ Tick
  \/ \E k \in Keys : Rotate(k)
  \/ Retire
  \/ \E i \in Instances :
       \/ ColdStart(i) \/ Stop(i)
       \/ \E type \in Types : Sign(i, type)
       \/ \E c \in Consumers : Fetch(c, i)

Spec == Init /\ [][Next]_vars

-----------------------------------------------------------------------------
(* Properties. *)

\* Every variable has its type.
TypeOK ==
  /\ now \in 0..MaxTime
  /\ secret \in Secret
  /\ loaded \in [Instances -> Loaded \union {Cold}]
  /\ tokens \subseteq Token
  /\ cache \in [Consumers -> KeySet]
  /\ since \in [Keys -> Times]
  /\ replaced \in [Keys -> Times]
  /\ retired \in [Keys -> Times]

\* A rotation invalidates no live token: an instance that started after a
\* token's key came into use accepts it until it expires, also where the token
\* was signed with the old key by an instance that did not know of the rotation
\* yet.  That takes an overlap which covers such an instance and the token, for
\* each type of token (requirement 1.3 of the security hardening).
LiveTokensVerify ==
  \A i \in warm, t \in tokens :
    /\ loaded[i].born > since[t.key]
    /\ MaxWarm + Life[t.type] <= Overlap
    => Accepts(i, t)

\* A key dies out: instances sign with it for no longer than they live after it
\* was replaced, know it for no longer than that after it left the secret, and a
\* consumer trusts it for the age of a key set on top of that (requirement 1.4).
KeysDieOut ==
  \A k \in Keys :
    /\ replaced[k] # Never =>
         \A i \in warm : SigningKey(i) = k => now <= replaced[k] + MaxWarm
    /\ retired[k] # Never =>
         /\ \A i \in warm : k \in GetJwks(loaded[i]) => now <= retired[k] + MaxWarm
         /\ \A c \in Consumers :
              k \in cache[c].keys /\ now < cache[c].until
              => now < retired[k] + MaxWarm + CacheAge

\* The key set that an instance serves has the key of every live token that the
\* instance itself accepts: "whose public key is still served via the
\* JWKS_Endpoint during the overlap window so that tokens signed with it remain
\* verifiable until they expire" (requirements.md:54-56 of the security
\* hardening).
ServedKeysVerify ==
  \A i \in warm, t \in tokens : Accepts(i, t) => t.key \in Jwks(i)

-----------------------------------------------------------------------------
(* The strengthening that makes the properties above provable. *)

\* The secret: its active key is in use, its retiring key was replaced by it,
\* and any other key that was ever active has had its overlap.
SecretFits ==
  /\ since[secret.active] # Never /\ replaced[secret.active] = Never
  /\ secret.retiring # None =>
       since[secret.retiring] # Never /\ replaced[secret.retiring] = since[secret.active]
  /\ \A k \in Keys :
       /\ since[k] = Never => replaced[k] = Never /\ retired[k] = Never
       /\ since[k] <= now /\ replaced[k] <= now /\ retired[k] <= now
       /\ retired[k] # Never => k \notin {secret.active, secret.retiring}
       /\ since[k] # Never /\ k \notin {secret.active, secret.retiring} =>
            replaced[k] # Never /\ replaced[k] + Overlap <= now

\* What an instance read was true when it started.
LoadedFits ==
  \A i \in warm :
    /\ loaded[i].born <= now /\ now <= loaded[i].born + MaxWarm
    /\ since[loaded[i].active] # Never
    /\ replaced[loaded[i].active] = Never \/ replaced[loaded[i].active] >= loaded[i].born
    /\ \A k \in Keys :
         /\ k \in {loaded[i].active, loaded[i].retiring} =>
              since[k] # Never /\ (retired[k] = Never \/ retired[k] >= loaded[i].born)
         /\ since[k] # Never /\ loaded[i].born > since[k] =>
              \/ k = loaded[i].active
              \/ k = loaded[i].retiring
              \/ replaced[k] # Never /\ replaced[k] + Overlap <= loaded[i].born

\* Tokens are not signed with a key for longer than instances live after it was
\* replaced.
TokensFit ==
  \A t \in tokens :
    /\ since[t.key] # Never
    /\ t.exp > now /\ t.exp <= now + Life[t.type]
    /\ replaced[t.key] # Never => t.exp <= replaced[t.key] + MaxWarm + Life[t.type]

CachesFit ==
  \A c \in Consumers :
    /\ cache[c].until <= now + CacheAge
    /\ \A k \in cache[c].keys :
         /\ since[k] # Never
         /\ retired[k] # Never => cache[c].until <= retired[k] + MaxWarm + CacheAge

IInv ==
  /\ TypeOK
  /\ SecretFits
  /\ LoadedFits
  /\ TokensFit
  /\ CachesFit
=============================================================================
