---------------------------- MODULE TokenSession ----------------------------
(***************************************************************************)
(* The tokens of AuthService and the blacklist that revokes them           *)
(* (JWTTokenService, DynamoDBTokenBlacklistRepository).  verify_token      *)
(* decodes a token, which compares its exp with the clock, and then asks   *)
(* the blacklist: a call, so other requests, the clock and DynamoDB's      *)
(* deletion of expired items come in between.  A token is known by its     *)
(* jti, its place in the order of creation; signatures and key ids are     *)
(* left to KeyRotation.                                                    *)
(***************************************************************************)
EXTENDS Integers, Sequences

CONSTANTS Requests,   \* the requests that present a token, each once
          Operations, \* what they may ask for
          Singles,    \* the types of token made outside a login
          Life,       \* how long a token of each type lives
          MaxTime,    \* the clock stops here
          MaxTokens,  \* so many tokens are made
          Faults      \* which failures the environment may produce

TokenTypes == {"access", "refresh", "password_reset", "service"}

\* "use" is validate_token, or any endpoint behind a bearer token.
AllOperations == {"use", "refresh", "reset_password", "logout"}

FaultKinds == {"store",   \* a call of the blacklist raises, applied or not
               "crash",   \* the Lambda dies
               "stale",   \* get_item returns an older image of the blacklist
               "sweep"}   \* an entry is deleted while its token is being checked

ASSUME SessionAssumption ==
  /\ Operations \subseteq AllOperations
  /\ Singles \subseteq {"password_reset", "service"}
  /\ Life \in [TokenTypes -> Nat \ {0}]
  /\ MaxTime \in Nat \ {0}
  /\ MaxTokens \in Nat
  /\ Faults \subseteq FaultKinds

VARIABLES tokens,    \* the tokens made so far
          blacklist, \* the items of the blacklist table
          replica,   \* an image of it that a read may return
          pc,        \* where each request is
          job,       \* what each request carries
          now,       \* the clock
          revoked    \* the jtis ever added to the blacklist (history)

storeVars == <<blacklist, replica, revoked>>
vars == <<tokens, storeVars, pc, job, now>>

\* session: the login that a token descends from, by the jti of its first
\* refresh token (history); a token that no login gave is a session of its own.
Token == [type : TokenTypes, exp : Nat, session : Nat]
Entry == [jti : Nat, ttl : Nat]

Answers == {"pending", "ok", "tokens", "refused", "RepositoryError", "none"}

\* partner: the refresh token given to logout, 0 if none that can be decoded;
\* barred: the token was revoked before the request came (history).
Job == [op : AllOperations, token : Nat, partner : Nat, barred : BOOLEAN, answer : Answers]

Places == {"new", "check", "find", "add", "check_partner", "add_partner", "answered"}

NoJob == [op |-> "use", token |-> 0, partner |-> 0, barred |-> FALSE, answer |-> "pending"]

Init ==
  /\ tokens = <<>>
  /\ blacklist = {} /\ replica = {} /\ revoked = {}
  /\ pc = [r \in Requests |-> "new"]
  /\ job = [r \in Requests |-> NoJob]
  /\ now = 1

Jtis == 1..Len(tokens)

\* PyJWT refuses a token from its exp on.
Live(j) == tokens[j].exp > now

Tick ==
  /\ now < MaxTime
  /\ now' = now + 1
  /\ UNCHANGED <<tokens, storeVars, pc, job>>

-----------------------------------------------------------------------------
(* Making tokens. *)

Mint(type, session) == [type |-> type, exp |-> now + Life[type], session |-> session]

\* Mutant: the type the other side does not know.
PairMistyped(session) ==
  tokens \o <<Mint("access", session), [Mint("refresh", session) EXCEPT !.type = "reset"]>>

\* An access token and a refresh token, as authenticate and refresh make them.
Pair(session) == tokens \o <<Mint("access", session), Mint("refresh", session)>>

RoomFor(n) == Len(tokens) + n <= MaxTokens

\* A login that succeeded: AccountService has the rest of it.
Login ==
  /\ RoomFor(2)
  /\ tokens' = Pair(Len(tokens) + 2)
  /\ UNCHANGED <<storeVars, pc, job, now>>

\* forgot_password and the client_credentials grant.
SingleToken(type) ==
  /\ RoomFor(1)
  /\ tokens' = Append(tokens, Mint(type, Len(tokens) + 1))
  /\ UNCHANGED <<storeVars, pc, job, now>>

-----------------------------------------------------------------------------
(* The blacklist table. *)

Images == IF "stale" \in Faults THEN {blacklist, replica} ELSE {blacklist}

In(image, j) == \E e \in image : e.jti = j

\* Mutant: the exp claim is taken for a text and becomes 0.
PutWithoutTtl(j) ==
  /\ blacklist' = blacklist \union {[jti |-> j, ttl |-> 0]}
  /\ revoked' = revoked \union {j}

Put(j) ==
  /\ blacklist' = blacklist \union {[jti |-> j, ttl |-> tokens[j].exp]}
  /\ revoked' = revoked \union {j}

Replicate ==
  /\ "stale" \in Faults
  /\ replica # blacklist
  /\ replica' = blacklist
  /\ UNCHANGED <<tokens, blacklist, revoked, pc, job, now>>

\* The requests that decoded token j and have not heard of the blacklist yet.
Checking(j) == {r \in Requests : pc[r] = "check" /\ job[r].token = j}

\* DynamoDB deletes an item some time after its ttl: days later as a rule, so
\* that no request of a few seconds sees it go ("sweep" is the exception).
Expire(e) ==
  /\ e.ttl < now
  /\ "sweep" \in Faults \/ Checking(e.jti) = {}
  /\ blacklist' = blacklist \ {e}
  /\ UNCHANGED <<tokens, replica, revoked, pc, job, now>>

-----------------------------------------------------------------------------
(* Requests that present a token. *)

Goto(r, place) == pc' = [pc EXCEPT ![r] = place] /\ UNCHANGED job

\* The request is over, with answer a, and carries nothing any more.
Answer(r, a) ==
  /\ pc' = [pc EXCEPT ![r] = "answered"]
  /\ job' = [job EXCEPT ![r] = [NoJob EXCEPT !.answer = a]]

\* verify_token up to the blacklist: decode, with its test of exp.
Present(r, op, j, p) ==
  /\ pc[r] = "new"
  /\ j \in Jtis
  /\ IF Live(j)
       THEN /\ pc' = [pc EXCEPT ![r] = "check"]
            /\ job' = [job EXCEPT ![r] = [op |-> op, token |-> j, partner |-> p,
                           barred |-> j \in revoked, answer |-> "pending"]]
       ELSE Answer(r, "refused")
  /\ UNCHANGED <<tokens, storeVars, now>>

Arrives(r) ==
  \/ \E op \in Operations \ {"logout"}, j \in Jtis : Present(r, op, j, 0)
  \/ /\ "logout" \in Operations
     /\ \E j \in Jtis, p \in 0..Len(tokens) : Present(r, "logout", j, p)

\* Mutant: the handler does not ask for the type.
AcceptedUntyped(r) == Goto(r, "find")

\* A token that is not blacklisted passes: refresh and reset_password ask for
\* its type, the other handlers and the routers do not.
Accepted(r) ==
  LET type == tokens[job[r].token].type
  IN  CASE job[r].op = "use" -> Answer(r, "ok")
        [] job[r].op = "logout" -> Goto(r, "add")
        [] job[r].op = "refresh" ->
             IF type = "refresh" THEN Goto(r, "find") ELSE Answer(r, "refused")
        [] job[r].op = "reset_password" ->
             IF type = "password_reset" THEN Goto(r, "find") ELSE Answer(r, "refused")

Check(r) ==
  /\ pc[r] = "check"
  /\ \E image \in Images :
       IF In(image, job[r].token) THEN Answer(r, "refused") ELSE Accepted(r)
  /\ UNCHANGED <<tokens, storeVars, now>>

\* logout takes any exception for an invalid token, the others let it pass.
CheckRaises(r) ==
  /\ "store" \in Faults
  /\ pc[r] = "check"
  /\ Answer(r, IF job[r].op = "logout" THEN "refused" ELSE "RepositoryError")
  /\ UNCHANGED <<tokens, storeVars, now>>

\* The account is found and may have tokens, or not (AccountService).  The
\* token that was presented stays good.
Finish(r) ==
  /\ pc[r] = "find"
  /\ \/ /\ job[r].op = "refresh" /\ RoomFor(2)
        /\ tokens' = Pair(tokens[job[r].token].session)
        /\ Answer(r, "tokens")
     \/ /\ job[r].op = "reset_password"
        /\ Answer(r, "ok")
        /\ UNCHANGED tokens
     \/ /\ \E a \in {"refused", "RepositoryError"} : Answer(r, a)
        /\ UNCHANGED tokens
  /\ UNCHANGED <<storeVars, now>>

\* logout, first half; a refresh token that does not decode is passed over.
Add(r) ==
  /\ pc[r] = "add"
  /\ Put(job[r].token)
  /\ IF job[r].partner # 0 /\ Live(job[r].partner)
       THEN Goto(r, "check_partner")
       ELSE Answer(r, "ok")
  /\ UNCHANGED <<tokens, replica, now>>

AddRaises(r) ==
  /\ "store" \in Faults
  /\ pc[r] = "add"
  /\ Put(job[r].token) \/ UNCHANGED <<blacklist, revoked>>
  /\ Answer(r, "RepositoryError")
  /\ UNCHANGED <<tokens, replica, now>>

\* logout, second half: every exception is logged and dropped.
CheckPartner(r) ==
  /\ pc[r] = "check_partner"
  /\ \/ \E image \in Images :
          IF In(image, job[r].partner) THEN Answer(r, "ok") ELSE Goto(r, "add_partner")
     \/ "store" \in Faults /\ Answer(r, "ok")
  /\ UNCHANGED <<tokens, storeVars, now>>

\* Mutant: the access token's jti is added again.
AddPartnerAgain(r) ==
  /\ pc[r] = "add_partner"
  /\ \/ Put(job[r].token)
     \/ "store" \in Faults /\ UNCHANGED <<blacklist, revoked>>
  /\ Answer(r, "ok")
  /\ UNCHANGED <<tokens, replica, now>>

AddPartner(r) ==
  /\ pc[r] = "add_partner"
  /\ \/ Put(job[r].partner)
     \/ "store" \in Faults /\ UNCHANGED <<blacklist, revoked>>
  /\ Answer(r, "ok")
  /\ UNCHANGED <<tokens, replica, now>>

Crash(r) ==
  /\ "crash" \in Faults
  /\ pc[r] \notin {"new", "answered"}
  /\ Answer(r, "none")
  /\ UNCHANGED <<tokens, storeVars, now>>

Handler(r) ==
  \/ Arrives(r)
  \/ Check(r) \/ CheckRaises(r)
  \/ Finish(r)
  \/ Add(r) \/ AddRaises(r)
  \/ CheckPartner(r) \/ AddPartner(r)
  \/ Crash(r)

Next ==
  \/ Tick
  \/ Login
  \/ \E type \in Singles : SingleToken(type)
  \/ Replicate
  \/ \E e \in blacklist : Expire(e)
  \/ \E r \in Requests : Handler(r)

Spec == Init /\ [][Next]_vars

-----------------------------------------------------------------------------
(* Properties. *)

\* Every variable has its type.
TypeOK ==
  /\ tokens \in Seq(Token)
  /\ blacklist \subseteq Entry
  /\ replica \subseteq Entry
  /\ revoked \subseteq Jtis
  /\ pc \in [Requests -> Places]
  /\ job \in [Requests -> Job]
  /\ now \in 1..MaxTime

\* The step in which verify_token lets request r's token through.
LetIn(r) == pc[r] = "check" /\ (pc'[r] \in {"find", "add"} \/ job'[r].answer = "ok")

\* A token that logout revoked is refused by every request that comes later,
\* until it would have expired anyway: neither the deletion of blacklist
\* entries nor a second logout lets it back in (verify_token decodes before it
\* asks the blacklist, so a request may still get through that came before exp
\* and asked after the entry was gone).
RevokedStaysOut ==
  [][\A r \in Requests :
       LetIn(r) /\ job[r].barred => tokens[job[r].token].exp < now]_vars

\* A logout that is answered with success has revoked the access token and the
\* refresh token it was given, whatever other requests did to either of them
\* meanwhile (requirements.md, 3.8 of the security hardening: the revocation
\* completeness property).
RevocationComplete ==
  [][\A r \in Requests :
       job[r].op = "logout" /\ job'[r].answer = "ok" =>
         \A j \in {job[r].token, job[r].partner} \ {0} : In(blacklist', j) \/ ~Live(j)]_vars

\* Requests that may still draw new tokens from session s: they were let in
\* before the token they present was revoked.
Drawing(s) ==
  {r \in Requests : /\ pc[r] \in {"check", "find"}
                    /\ job[r].op = "refresh"
                    /\ ~job[r].barred
                    /\ tokens[job[r].token].type = "refresh"
                    /\ tokens[job[r].token].session = s}

\* Nobody can extend the session any more.
Ended(s) ==
  /\ s \in Jtis
  /\ \A j \in Jtis : tokens[j].session = s /\ tokens[j].type = "refresh"
       => j \in revoked \/ ~Live(j)
  /\ Drawing(s) = {}

\* Once every refresh token of a session is revoked or expired and the requests
\* that were under way are over, no sequence of requests brings the session
\* back: its access tokens, reset tokens and revoked tokens do not refresh.
EndedForGood == [][\A s \in 1..MaxTokens : Ended(s) => Ended(s)']_vars

-----------------------------------------------------------------------------
(* The strengthening that makes the properties above provable. *)

Busy(r) == pc[r] \notin {"new", "answered"}

\* An entry carries the exp of its token, and a revoked token has one until it
\* is expired.
EntriesLast ==
  /\ \A e \in blacklist : e.jti \in revoked /\ e.ttl = tokens[e.jti].exp
  /\ \A e \in replica : e.jti \in revoked
  /\ \A j \in revoked : In(blacklist, j) \/ tokens[j].exp < now

\* What a request carries fits the place it is at.
JobsFit ==
  \A r \in Requests :
    /\ ~Busy(r) => job[r].op = "use"
    /\ Busy(r) => /\ job[r].token \in Jtis
                  /\ job[r].partner \in Jtis \union {0}
                  /\ job[r].barred => job[r].token \in revoked
                  /\ job[r].answer = "pending"
    /\ pc[r] \in {"add", "check_partner", "add_partner"} => job[r].op = "logout"
    /\ pc[r] \in {"check_partner", "add_partner"} =>
         job[r].token \in revoked /\ job[r].partner # 0
    /\ pc[r] = "find" =>
         job[r].op # "logout"
           /\ (job[r].op = "refresh" => tokens[job[r].token].type = "refresh")

\* Where entries outlast the requests that look for them, a revoked token is
\* stopped at the check.
BarredIsStopped ==
  Faults \intersect {"stale", "sweep"} = {} =>
    \A r \in Requests :
      Busy(r) /\ job[r].barred => pc[r] = "check" /\ In(blacklist, job[r].token)

IInv ==
  /\ TypeOK
  /\ EntriesLast
  /\ JobsFit
  /\ BarredIsStopped
=============================================================================
