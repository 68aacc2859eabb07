---------------------------- MODULE TokenProofs ----------------------------
(***************************************************************************)
(* Proofs about TokenSession, for every number of requests, tokens and     *)
(* ticks of the clock: what logout revoked stays out, a logout that        *)
(* succeeded revoked both tokens, and a session that ended stays ended.    *)
(***************************************************************************)
EXTENDS TokenSession, TLAPS

\* What every step but the clock and the deletion of entries does to the
\* tokens and the blacklist: it adds to them.
Growth ==
  /\ tokens' \in Seq(Token)
  /\ Len(tokens') >= Len(tokens)
  /\ \A j \in Jtis : tokens'[j] = tokens[j]
  /\ blacklist \subseteq blacklist'
  /\ revoked \subseteq revoked'

Requested == pc' \in [Requests -> Places] /\ job' \in [Requests -> Job]
                 /\ JobsFit' /\ BarredIsStopped'

LEMMA TypeFacts ==
  ASSUME TypeOK
  PROVE  /\ Jtis \subseteq Nat \ {0}
         /\ \A j \in Jtis : tokens[j] \in Token /\ tokens[j].exp \in Nat
         /\ now \in Nat
         /\ Len(tokens) \in Nat
<1>1. Len(tokens) \in Nat /\ \A j \in Jtis : tokens[j] \in Token
  BY DEF TypeOK, Jtis
<1>2. now \in Nat
  BY SessionAssumption DEF TypeOK
<1>3. Jtis \subseteq Nat \ {0}
  BY <1>1 DEF Jtis
<1>4. QED
  BY <1>1, <1>2, <1>3 DEF Token

LEMMA NoJobType == \A a \in Answers : [NoJob EXCEPT !.answer = a] \in Job
BY DEF NoJob, Job, AllOperations, Answers

\* Nothing changed for the requests: the tokens and the blacklist may grow.
LEMMA IdleRequests ==
  ASSUME IInv, Growth, UNCHANGED <<pc, job>>
  PROVE  Requested
<1>1. Jtis \subseteq Jtis'
  BY TypeFacts DEF IInv, Growth, Jtis, TypeOK
<1>2. \A j \in Jtis : In(blacklist, j) => In(blacklist', j)
  BY DEF Growth, In
<1>3. JobsFit'
  BY <1>1 DEF IInv, JobsFit, Busy, Growth
<1>4. BarredIsStopped'
  BY <1>2 DEF IInv, JobsFit, BarredIsStopped, Busy
<1>5. QED
  BY <1>3, <1>4 DEF IInv, TypeOK, Requested

\* A request that is answered carries nothing.
LEMMA AnsweredRequest ==
  ASSUME IInv, Growth, NEW r \in Requests, NEW a \in Answers, Answer(r, a)
  PROVE  Requested
<1>1. Jtis \subseteq Jtis'
  BY TypeFacts DEF IInv, Growth, Jtis, TypeOK
<1>2. \A j \in Jtis : In(blacklist, j) => In(blacklist', j)
  BY DEF Growth, In
<1>3. pc' = [pc EXCEPT ![r] = "answered"] /\ job' = [job EXCEPT ![r] = [NoJob EXCEPT !.answer = a]]
  BY DEF Answer
<1>4. pc' \in [Requests -> Places] /\ job' \in [Requests -> Job]
  BY <1>3, NoJobType DEF IInv, TypeOK, Places
<1>5. /\ pc'[r] = "answered" /\ job'[r].op = "use"
      /\ \A s \in Requests \ {r} : pc'[s] = pc[s] /\ job'[s] = job[s]
  BY <1>3 DEF IInv, TypeOK, NoJob
<1>6. JobsFit'
  <2> SUFFICES ASSUME NEW s \in Requests
               PROVE  JobsFit!(s)'
    BY DEF JobsFit
  <2>1. CASE s = r
    BY <2>1, <1>5 DEF Busy
  <2>2. CASE s # r
    BY <2>2, <1>1, <1>5 DEF IInv, JobsFit, Busy, Growth
  <2>3. QED
    BY <2>1, <2>2
<1>7. BarredIsStopped'
  BY <1>2, <1>5 DEF IInv, JobsFit, BarredIsStopped, Busy
<1>8. QED
  BY <1>4, <1>6, <1>7 DEF Requested

\* A request goes on with what it carries, to a place where that fits.
LEMMA MovedRequest ==
  ASSUME IInv, Growth, NEW r \in Requests, NEW place \in Places, Goto(r, place), Busy(r),
         place \in {"find", "add", "check_partner", "add_partner"},
         place \in {"add", "check_partner", "add_partner"} => job[r].op = "logout",
         place \in {"check_partner", "add_partner"} =>
           job[r].token \in revoked' /\ job[r].partner # 0,
         place = "find" =>
           job[r].op # "logout"
             /\ (job[r].op = "refresh" => tokens[job[r].token].type = "refresh"),
         Faults \intersect {"stale", "sweep"} = {} => ~job[r].barred
  PROVE  Requested
<1>1. Jtis \subseteq Jtis'
  BY TypeFacts DEF IInv, Growth, Jtis, TypeOK
<1>2. \A j \in Jtis : In(blacklist, j) => In(blacklist', j)
  BY DEF Growth, In
<1>3. job' = job /\ pc' \in [Requests -> Places] /\ pc'[r] = place
      /\ \A s \in Requests \ {r} : pc'[s] = pc[s]
  BY DEF Goto, IInv, TypeOK
<1>4. JobsFit'
  <2> SUFFICES ASSUME NEW s \in Requests
               PROVE  JobsFit!(s)'
    BY DEF JobsFit
  <2>1. CASE s = r
    BY <2>1, <1>1, <1>3 DEF IInv, JobsFit, Busy, Growth
  <2>2. CASE s # r
    BY <2>2, <1>1, <1>3 DEF IInv, JobsFit, Busy, Growth
  <2>3. QED
    BY <2>1, <2>2
<1>5. BarredIsStopped'
  BY <1>2, <1>3 DEF IInv, JobsFit, BarredIsStopped, Busy
<1>6. QED
  BY <1>3, <1>4, <1>5 DEF IInv, TypeOK, Requested

-----------------------------------------------------------------------------
(* The tokens and the table. *)

\* New tokens leave the blacklist as good as it was.
LEMMA MoreTokens ==
  ASSUME IInv, UNCHANGED <<storeVars, now>>, NEW new \in Seq(Token), tokens' = tokens \o new
  PROVE  Growth /\ EntriesLast' /\ (Requested => IInv')
<1>1. tokens' \in Seq(Token) /\ Len(tokens') >= Len(tokens)
  BY DEF IInv, TypeOK
<1>2. \A j \in Jtis : tokens'[j] = tokens[j]
  BY DEF IInv, TypeOK, Jtis
<1>3. Growth
  BY <1>1, <1>2 DEF Growth, storeVars
<1>4. Jtis \subseteq Jtis'
  BY <1>1, TypeFacts DEF IInv, Jtis
<1>5. EntriesLast'
  BY <1>2, <1>4 DEF IInv, EntriesLast, TypeOK, storeVars, In
<1>6. Requested => TypeOK'
  BY <1>1, <1>4 DEF Requested, IInv, TypeOK, storeVars
<1>7. QED
  BY <1>3, <1>5, <1>6 DEF IInv, Requested

\* The same where no token is made either.
LEMMA NoTokens ==
  ASSUME IInv, UNCHANGED <<tokens, storeVars, now>>
  PROVE  Growth /\ EntriesLast' /\ (Requested => IInv')
<1>1. tokens' = tokens \o <<>> /\ <<>> \in Seq(Token)
  BY DEF IInv, TypeOK
<1>2. QED
  BY <1>1, MoreTokens

\* Adding a token to the blacklist.
LEMMA PutStep ==
  ASSUME IInv, UNCHANGED <<tokens, replica, now>>, NEW j \in Jtis, Put(j)
  PROVE  Growth /\ EntriesLast' /\ (Requested => IInv') /\ In(blacklist', j)
<1>1. [jti |-> j, ttl |-> tokens[j].exp] \in Entry
  BY TypeFacts DEF IInv, Entry
<1>2. In(blacklist', j)
  <2>1. [jti |-> j, ttl |-> tokens[j].exp] \in blacklist'
    BY DEF Put
  <2>2. [jti |-> j, ttl |-> tokens[j].exp].jti = j
    OBVIOUS
  <2>3. QED
    BY <2>1, <2>2 DEF In
<1>3. Growth
  BY DEF Growth, Put, IInv, TypeOK
<1>4. EntriesLast'
  <2>1. \A e \in blacklist' : e.jti \in revoked' /\ e.ttl = tokens[e.jti].exp
    BY DEF Put, IInv, EntriesLast
  <2>2. \A e \in replica : e.jti \in revoked'
    BY DEF Put, IInv, EntriesLast
  <2>3. \A i \in revoked' : In(blacklist', i) \/ tokens[i].exp < now
    BY <1>2 DEF Put, IInv, EntriesLast, In
  <2>4. QED
    BY <2>1, <2>2, <2>3 DEF EntriesLast, Jtis
<1>5. Requested => TypeOK'
  BY <1>1 DEF Requested, IInv, TypeOK, Put, Jtis
<1>6. QED
  BY <1>2, <1>3, <1>4, <1>5 DEF IInv, Requested

-----------------------------------------------------------------------------
(* One lemma for each group of steps. *)

\* The token a request carries.
LEMMA CarriedToken ==
  ASSUME IInv, NEW r \in Requests, Busy(r)
  PROVE  /\ job[r].token \in Jtis /\ job[r].partner \in Jtis \union {0}
         /\ job[r].op \in AllOperations /\ tokens[job[r].token] \in Token
BY TypeFacts DEF IInv, TypeOK, JobsFit, Job

LEMMA TickStep == IInv /\ Tick => IInv'
<1> SUFFICES ASSUME IInv, Tick
             PROVE  IInv'
  OBVIOUS
<1>1. now' \in 1..MaxTime /\ now' \in Nat /\ now' = now + 1
  BY TypeFacts, SessionAssumption DEF IInv, TypeOK, Tick
<1>2. TypeOK'
  BY <1>1 DEF IInv, TypeOK, Tick, storeVars, Jtis
<1>3. EntriesLast'
  <2>1. \A j \in revoked : tokens[j].exp \in Nat
    BY TypeFacts DEF IInv, TypeOK
  <2>2. \A j \in revoked : tokens[j].exp < now => tokens[j].exp < now'
    BY <1>1, <2>1, TypeFacts DEF IInv
  <2>3. QED
    BY <2>2 DEF IInv, EntriesLast, Tick, storeVars, Jtis, In
<1>4. JobsFit' /\ BarredIsStopped'
  BY DEF IInv, JobsFit, BarredIsStopped, Tick, storeVars, Busy, Jtis, In
<1>5. QED
  BY <1>2, <1>3, <1>4 DEF IInv

LEMMA MintType ==
  ASSUME IInv, NEW type \in TokenTypes, NEW s \in Nat
  PROVE  Mint(type, s) \in Token
<1>1. now + Life[type] \in Nat
  BY SessionAssumption, TypeFacts DEF IInv
<1>2. QED
  BY <1>1 DEF Mint, Token

LEMMA MintingStep ==
  ASSUME IInv,
         \/ Login
         \/ \E type \in {"password_reset", "service"} : SingleToken(type)
  PROVE  IInv'
<1>1. ASSUME NEW new \in Seq(Token), tokens' = tokens \o new, UNCHANGED <<storeVars, pc, job, now>>
      PROVE  IInv'
  BY <1>1, MoreTokens, IdleRequests
<1>2. CASE Login
  <2>1. Len(tokens) + 2 \in Nat
    BY TypeFacts DEF IInv
  <2>2. <<Mint("access", Len(tokens) + 2), Mint("refresh", Len(tokens) + 2)>> \in Seq(Token)
    BY <2>1, MintType DEF TokenTypes
  <2>3. QED
    BY <1>1, <1>2, <2>2 DEF Login, Pair
<1>3. ASSUME NEW type \in {"password_reset", "service"}, SingleToken(type)
      PROVE  IInv'
  <2>1. Len(tokens) + 1 \in Nat
    BY TypeFacts DEF IInv
  <2>2. <<Mint(type, Len(tokens) + 1)>> \in Seq(Token)
    BY <2>1, MintType DEF TokenTypes
  <2>3. tokens' = tokens \o <<Mint(type, Len(tokens) + 1)>>
    BY <1>3, <2>1, MintType DEF SingleToken, IInv, TypeOK, TokenTypes
  <2>4. QED
    BY <1>1, <1>3, <2>2, <2>3 DEF SingleToken
<1>4. QED
  BY <1>2, <1>3

LEMMA ReplicateStep == IInv /\ Replicate => IInv'
<1> SUFFICES ASSUME IInv, Replicate
             PROVE  IInv'
  OBVIOUS
<1>1. TypeOK'
  BY DEF IInv, TypeOK, Replicate, Jtis
<1>2. EntriesLast'
  BY DEF IInv, EntriesLast, Replicate, Jtis, In
<1>3. JobsFit' /\ BarredIsStopped'
  BY DEF IInv, JobsFit, BarredIsStopped, Replicate, Busy, Jtis, In
<1>4. QED
  BY <1>1, <1>2, <1>3 DEF IInv

\* An entry goes when its token is expired and, where that matters, nobody is
\* about to look for it.
LEMMA ExpireStep == ASSUME IInv, NEW e \in blacklist, Expire(e) PROVE IInv'
<1>1. TypeOK'
  BY DEF IInv, TypeOK, Expire, Jtis
<1>2. \A j \in Nat : In(blacklist, j) => In(blacklist', j) \/ j = e.jti
  BY DEF Expire, In
<1>3. e.jti \in Jtis /\ tokens[e.jti].exp < now
  BY DEF IInv, TypeOK, EntriesLast, Expire
<1>4. EntriesLast'
  <2>1. \A j \in revoked : In(blacklist', j) \/ tokens[j].exp < now
    BY <1>2, <1>3, TypeFacts DEF IInv, EntriesLast, TypeOK
  <2>2. QED
    BY <2>1 DEF IInv, EntriesLast, Expire, Jtis
<1>5. JobsFit'
  BY DEF IInv, JobsFit, Expire, Busy, Jtis
<1>6. BarredIsStopped'
  <2> SUFFICES ASSUME Faults \intersect {"stale", "sweep"} = {},
                      NEW r \in Requests, Busy(r), job[r].barred
               PROVE  pc[r] = "check" /\ In(blacklist', job[r].token)
    BY DEF BarredIsStopped, Expire, Busy
  <2>1. pc[r] = "check" /\ In(blacklist, job[r].token)
    BY DEF IInv, BarredIsStopped
  <2>2. Checking(e.jti) = {}
    BY DEF Expire
  <2>3. job[r].token # e.jti
    BY <2>1, <2>2 DEF Checking
  <2>4. job[r].token \in Nat
    BY CarriedToken, TypeFacts DEF IInv
  <2>5. QED
    BY <1>2, <2>1, <2>3, <2>4
<1>7. QED
  BY <1>1, <1>4, <1>5, <1>6 DEF IInv

\* A request that comes with a revoked token finds its entry there: the token
\* has not expired.
LEMMA ArriveStep ==
  ASSUME IInv, NEW r \in Requests, Arrives(r)
  PROVE  IInv'
<1>1. PICK op \in AllOperations, j \in Jtis, p \in 0..Len(tokens) : Present(r, op, j, p)
  <2>1. 0 \in 0..Len(tokens)
    BY TypeFacts DEF IInv
  <2>2. QED
    BY <2>1, SessionAssumption DEF Arrives, AllOperations
<1> DEFINE carried == [op |-> op, token |-> j, partner |-> p,
                       barred |-> j \in revoked, answer |-> "pending"]
<1>2. Growth /\ EntriesLast' /\ (Requested => IInv')
  BY <1>1, NoTokens DEF Present
<1>3. CASE ~Live(j)
  BY <1>1, <1>2, <1>3, AnsweredRequest DEF Present, Answers
<1>4. CASE Live(j)
  <2>1. /\ pc' = [pc EXCEPT ![r] = "check"]
        /\ job' = [job EXCEPT ![r] = carried]
        /\ UNCHANGED <<tokens, storeVars, now>>
    BY <1>1, <1>4 DEF Present
  <2>2. carried \in Job
    BY TypeFacts DEF IInv, Job, Answers
  <2>3. /\ pc' \in [Requests -> Places] /\ job' \in [Requests -> Job]
        /\ pc'[r] = "check" /\ job'[r] = carried
        /\ \A s \in Requests \ {r} : pc'[s] = pc[s] /\ job'[s] = job[s]
    BY <2>1, <2>2 DEF IInv, TypeOK, Places
  <2>4. j \in revoked => In(blacklist, j)
    BY <1>4, TypeFacts DEF IInv, EntriesLast, Live
  <2>5. p \in Jtis \union {0}
    BY TypeFacts DEF IInv, Jtis
  <2>6. JobsFit'
    <3> SUFFICES ASSUME NEW s \in Requests
                 PROVE  JobsFit!(s)'
      BY DEF JobsFit
    <3>1. CASE s = r
      BY <3>1, <2>1, <2>3, <2>5 DEF Busy, Jtis, storeVars
    <3>2. CASE s # r
      BY <3>2, <2>1, <2>3 DEF IInv, JobsFit, Busy, Jtis, storeVars
    <3>3. QED
      BY <3>1, <3>2
  <2>7. BarredIsStopped'
    BY <2>1, <2>3, <2>4 DEF IInv, BarredIsStopped, Busy, In, storeVars
  <2>8. QED
    BY <1>2, <2>3, <2>6, <2>7 DEF Requested
<1>5. QED
  BY <1>3, <1>4

\* Past the check, by the token that was let in.
LEMMA CheckStep ==
  ASSUME IInv, NEW r \in Requests, Check(r) \/ CheckRaises(r)
  PROVE  IInv'
<1>1. pc[r] = "check" /\ Busy(r) /\ Growth /\ (Requested => IInv')
  BY NoTokens DEF Check, CheckRaises, Busy
<1>2. ASSUME NEW a \in Answers, Answer(r, a) PROVE IInv'
  BY <1>1, <1>2, AnsweredRequest
<1>3. CASE CheckRaises(r)
  BY <1>2, <1>3 DEF CheckRaises, Answers
<1>4. CASE Check(r)
  <2>1. PICK image \in Images :
          IF In(image, job[r].token) THEN Answer(r, "refused") ELSE Accepted(r)
    BY <1>4 DEF Check
  <2>2. CASE In(image, job[r].token)
    BY <1>2, <2>1, <2>2 DEF Answers
  <2>3. CASE ~In(image, job[r].token)
    <3>1. Faults \intersect {"stale", "sweep"} = {} => ~job[r].barred
      BY <1>1, <2>3 DEF Images, IInv, BarredIsStopped
    <3>2. CASE job[r].op = "use"
      BY <1>2, <2>1, <2>3, <3>2 DEF Accepted, Answers
    <3>3. CASE job[r].op = "logout"
      <4>1. Goto(r, "add")
        BY <2>1, <2>3, <3>3 DEF Accepted
      <4>2. QED
        BY <1>1, <3>1, <3>3, <4>1, MovedRequest DEF Places
    <3>4. CASE job[r].op = "refresh"
      <4>1. CASE tokens[job[r].token].type = "refresh"
        <5>1. Goto(r, "find")
          BY <2>1, <2>3, <3>4, <4>1 DEF Accepted
        <5>2. QED
          BY <1>1, <3>1, <3>4, <4>1, <5>1, MovedRequest DEF Places
      <4>2. CASE tokens[job[r].token].type # "refresh"
        BY <1>2, <2>1, <2>3, <3>4, <4>2 DEF Accepted, Answers
      <4>3. QED
        BY <4>1, <4>2
    <3>5. CASE job[r].op = "reset_password"
      <4>1. CASE tokens[job[r].token].type = "password_reset"
        <5>1. Goto(r, "find")
          BY <2>1, <2>3, <3>5, <4>1 DEF Accepted
        <5>2. QED
          BY <1>1, <3>1, <3>5, <5>1, MovedRequest DEF Places
      <4>2. CASE tokens[job[r].token].type # "password_reset"
        BY <1>2, <2>1, <2>3, <3>5, <4>2 DEF Accepted, Answers
      <4>3. QED
        BY <4>1, <4>2
    <3>6. QED
      BY <1>1, <3>2, <3>3, <3>4, <3>5, CarriedToken DEF AllOperations
  <2>4. QED
    BY <2>2, <2>3
<1>5. QED
  BY <1>3, <1>4

\* The account is found, or not; a refresh makes two tokens.
LEMMA FinishStep ==
  ASSUME IInv, NEW r \in Requests, Finish(r)
  PROVE  IInv'
<1>1. pc[r] = "find" /\ Busy(r) /\ UNCHANGED <<storeVars, now>>
  BY DEF Finish, Busy
<1>2. CASE /\ tokens' = Pair(tokens[job[r].token].session)
           /\ Answer(r, "tokens")
  <2>1. tokens[job[r].token].session \in Nat
    BY <1>1, CarriedToken DEF Token
  <2> DEFINE new == <<Mint("access", tokens[job[r].token].session),
                      Mint("refresh", tokens[job[r].token].session)>>
  <2>2. new \in Seq(Token)
    BY <2>1, MintType DEF TokenTypes
  <2>3. tokens' = tokens \o new
    BY <1>2 DEF Pair
  <2>4. Growth /\ (Requested => IInv')
    BY <1>1, <2>2, <2>3, MoreTokens
  <2>5. QED
    BY <1>2, <2>4, AnsweredRequest DEF Answers
<1>3. ASSUME NEW a \in {"ok", "refused", "RepositoryError"}, Answer(r, a), UNCHANGED tokens
      PROVE  IInv'
  BY <1>1, <1>3, NoTokens, AnsweredRequest DEF Answers
<1>4. QED
  BY <1>2, <1>3 DEF Finish

\* The access token is revoked before its partner's turn comes.
LEMMA AddStep ==
  ASSUME IInv, NEW r \in Requests, Add(r) \/ AddRaises(r)
  PROVE  IInv'
<1>1. pc[r] = "add" /\ Busy(r) /\ UNCHANGED <<tokens, replica, now>>
  BY DEF Add, AddRaises, Busy
<1>2. job[r].token \in Jtis /\ job[r].op = "logout"
  BY <1>1, CarriedToken DEF IInv, JobsFit
<1>3. Faults \intersect {"stale", "sweep"} = {} => ~job[r].barred
  BY <1>1 DEF IInv, BarredIsStopped
<1>4. Put(job[r].token) => Growth /\ (Requested => IInv')
  BY <1>1, <1>2, PutStep
<1>5. UNCHANGED <<blacklist, revoked>> => Growth /\ (Requested => IInv')
  BY <1>1, NoTokens DEF storeVars
<1>6. CASE Add(r)
  <2>1. Put(job[r].token)
    BY <1>6 DEF Add
  <2>2. CASE job[r].partner # 0 /\ Live(job[r].partner)
    <3>1. Goto(r, "check_partner")
      BY <1>6, <2>2 DEF Add
    <3>2. job[r].token \in revoked'
      BY <2>1 DEF Put
    <3>3. QED
      BY <1>1, <1>2, <1>3, <1>4, <2>1, <2>2, <3>1, <3>2, MovedRequest DEF Places
  <2>3. CASE ~(job[r].partner # 0 /\ Live(job[r].partner))
    <3>1. Answer(r, "ok")
      BY <1>6, <2>3 DEF Add
    <3>2. QED
      BY <1>4, <2>1, <3>1, AnsweredRequest DEF Answers
  <2>4. QED
    BY <2>2, <2>3
<1>7. CASE AddRaises(r)
  BY <1>4, <1>5, <1>7, AnsweredRequest DEF AddRaises, Answers
<1>8. QED
  BY <1>6, <1>7

LEMMA PartnerStep ==
  ASSUME IInv, NEW r \in Requests, CheckPartner(r) \/ AddPartner(r)
  PROVE  IInv'
<1>1. /\ pc[r] \in {"check_partner", "add_partner"} /\ Busy(r)
      /\ UNCHANGED <<tokens, replica, now>>
  BY DEF CheckPartner, AddPartner, Busy, storeVars
<1>2. /\ job[r].partner \in Jtis /\ job[r].op = "logout"
      /\ job[r].token \in revoked /\ job[r].partner # 0
  BY <1>1, CarriedToken DEF IInv, JobsFit
<1>3. Faults \intersect {"stale", "sweep"} = {} => ~job[r].barred
  BY <1>1 DEF IInv, BarredIsStopped
<1>4. UNCHANGED <<blacklist, revoked>> => Growth /\ (Requested => IInv')
  BY <1>1, NoTokens DEF storeVars
<1>5. CASE CheckPartner(r)
  <2>1. UNCHANGED <<blacklist, revoked>>
    BY <1>5 DEF CheckPartner, storeVars
  <2>2. CASE Answer(r, "ok")
    BY <1>4, <2>1, <2>2, AnsweredRequest DEF Answers
  <2>3. CASE Goto(r, "add_partner")
    <3>1. job[r].token \in revoked'
      BY <1>2, <2>1
    <3>2. QED
      BY <1>1, <1>2, <1>3, <1>4, <2>1, <2>3, <3>1, MovedRequest DEF Places
  <2>4. QED
    BY <1>5, <2>2, <2>3 DEF CheckPartner
<1>6. CASE AddPartner(r)
  <2>1. Put(job[r].partner) => Growth /\ (Requested => IInv')
    BY <1>1, <1>2, PutStep
  <2>2. QED
    BY <1>4, <1>6, <2>1, AnsweredRequest DEF AddPartner, Answers
<1>7. QED
  BY <1>5, <1>6

LEMMA CrashStep ==
  ASSUME IInv, NEW r \in Requests, Crash(r)
  PROVE  IInv'
BY NoTokens, AnsweredRequest DEF Crash, Answers

LEMMA HandlerStep ==
  ASSUME IInv, NEW r \in Requests, Handler(r)
  PROVE  IInv'
BY ArriveStep, CheckStep, FinishStep, AddStep, PartnerStep, CrashStep DEF Handler

-----------------------------------------------------------------------------
(* The inductive invariant. *)

LEMMA InitIInv == Init => IInv
<1> SUFFICES ASSUME Init
             PROVE  IInv
  OBVIOUS
<1>1. TypeOK
  <2>1. NoJob \in Job
    BY DEF NoJob, Job, AllOperations, Answers
  <2>2. 1 \in 1..MaxTime
    BY SessionAssumption
  <2>3. QED
    BY <2>1, <2>2 DEF Init, TypeOK, Places, Jtis
<1>2. EntriesLast
  BY DEF Init, EntriesLast
<1>3. \A r \in Requests : pc[r] = "new" /\ job[r] = NoJob
  BY DEF Init
<1>4. JobsFit /\ BarredIsStopped
  BY <1>3 DEF JobsFit, BarredIsStopped, Busy, NoJob
<1>5. QED
  BY <1>1, <1>2, <1>4 DEF IInv

LEMMA NextIInv == IInv /\ [Next]_vars => IInv'
<1> SUFFICES ASSUME IInv, [Next]_vars
             PROVE  IInv'
  OBVIOUS
<1>1. CASE UNCHANGED vars
  BY <1>1, NoTokens, IdleRequests DEF vars
<1>2. CASE Tick
  BY <1>2, TickStep
<1>3. CASE Login \/ \E type \in Singles : SingleToken(type)
  BY <1>3, MintingStep, SessionAssumption
<1>4. CASE Replicate
  BY <1>4, ReplicateStep
<1>5. CASE \E e \in blacklist : Expire(e)
  BY <1>5, ExpireStep
<1>6. CASE \E r \in Requests : Handler(r)
  BY <1>6, HandlerStep
<1>7. QED
  BY <1>1, <1>2, <1>3, <1>4, <1>5, <1>6 DEF Next

\* The inductive invariant holds.
LEMMA IInvHolds == Spec => []IInv
BY InitIInv, NextIInv, PTL DEF Spec

\* Every variable of TokenSession keeps its type.
THEOREM TypeCorrect == Spec => []TypeOK
<1>1. IInv => TypeOK
  BY DEF IInv
<1>2. QED
  BY <1>1, IInvHolds, PTL

-----------------------------------------------------------------------------
(* The action properties. *)

\* A request is only moved by its own steps.
LEMMA OwnSteps ==
  ASSUME IInv, [Next]_vars, NEW r \in Requests
  PROVE  Handler(r) \/ (pc'[r] = pc[r] /\ job'[r] = job[r])
<1>1. ASSUME NEW s \in Requests, s # r, Handler(s)
      PROVE  pc'[r] = pc[r] /\ job'[r] = job[r]
  <2>1. ASSUME NEW a \in Answers, Answer(s, a)
        PROVE  pc'[r] = pc[r] /\ job'[r] = job[r]
    BY <1>1, <2>1 DEF Answer, IInv, TypeOK
  <2>2. ASSUME NEW place \in Places, Goto(s, place)
        PROVE  pc'[r] = pc[r] /\ job'[r] = job[r]
    BY <1>1, <2>2 DEF Goto, IInv, TypeOK
  <2>3. CASE Arrives(s)
    BY <1>1, <2>1, <2>3 DEF Arrives, Present, Answers, IInv, TypeOK
  <2>4. CASE Check(s)
    <3>1. CASE Accepted(s)
      <4>1. pc[s] = "check"
        BY <2>4 DEF Check
      <4>2. job[s].op \in AllOperations
        BY <4>1, CarriedToken DEF Busy
      <4>3. QED
        BY <2>1, <2>2, <3>1, <4>2 DEF Accepted, Answers, Places, AllOperations
    <3>2. QED
      BY <2>1, <2>4, <3>1 DEF Check, Answers
  <2>5. CASE CheckRaises(s) \/ AddRaises(s) \/ AddPartner(s) \/ Crash(s)
    BY <2>1, <2>5 DEF CheckRaises, AddRaises, AddPartner, Crash, Answers
  <2>6. CASE Finish(s)
    BY <2>1, <2>6 DEF Finish, Answers
  <2>7. CASE Add(s) \/ CheckPartner(s)
    BY <2>1, <2>2, <2>7 DEF Add, CheckPartner, Answers, Places
  <2>8. QED
    BY <1>1, <2>3, <2>4, <2>5, <2>6, <2>7 DEF Handler
<1>2. UNCHANGED <<pc, job>> \/ \E s \in Requests : Handler(s)
  BY DEF Next, Tick, Login, SingleToken, Replicate, Expire, vars
<1>3. QED
  BY <1>1, <1>2

\* A revoked token has its entry as long as it lives.
LEMMA RevokedHasEntry ==
  ASSUME IInv, NEW j \in revoked
  PROVE  j \in Jtis /\ (In(blacklist, j) \/ tokens[j].exp < now)
BY DEF IInv, EntriesLast, TypeOK

LEMMA RevokedStep ==
  ASSUME IInv, [Next]_vars, "stale" \notin Faults,
         NEW r \in Requests, LetIn(r), job[r].barred
  PROVE  tokens[job[r].token].exp < now
<1>1. pc[r] = "check" /\ Busy(r)
  BY DEF LetIn, Busy
<1>2. job[r].token \in revoked /\ job[r].answer = "pending"
  BY <1>1 DEF IInv, JobsFit
<1>3. Handler(r)
  BY <1>1, <1>2, OwnSteps DEF LetIn
<1>4. Check(r) \/ CheckRaises(r) \/ Crash(r)
  BY <1>1, <1>3 DEF Handler, Arrives, Present, Finish, Add, AddRaises, CheckPartner, AddPartner
<1>5. ASSUME NEW a \in {"refused", "RepositoryError", "none"}, Answer(r, a)
      PROVE  FALSE
  BY <1>5 DEF Answer, LetIn, IInv, TypeOK
<1>6. Check(r)
  BY <1>4, <1>5 DEF CheckRaises, Crash
<1>7. ~In(blacklist, job[r].token)
  BY <1>5, <1>6 DEF Check, Images
<1>8. QED
  BY <1>2, <1>7, RevokedHasEntry

\* Where reads of the blacklist are not stale, a token that logout revoked is
\* refused by every later request until it would have expired, whatever calls
\* fail, whatever is deleted meanwhile and whoever dies.
THEOREM RevokedOut == ASSUME "stale" \notin Faults PROVE Spec => RevokedStaysOut
<1>1. IInv /\ [Next]_vars =>
        [\A r \in Requests : LetIn(r) /\ job[r].barred => tokens[job[r].token].exp < now]_vars
  BY RevokedStep
<1>2. QED
  BY <1>1, IInvHolds, PTL DEF Spec, RevokedStaysOut

LEMMA CompleteStep ==
  ASSUME IInv, [Next]_vars, "store" \notin Faults,
         NEW r \in Requests, job[r].op = "logout", job'[r].answer = "ok"
  PROVE  \A j \in {job[r].token, job[r].partner} \ {0} : In(blacklist', j) \/ ~Live(j)
<1>1. Busy(r) /\ job[r].answer = "pending"
  BY DEF IInv, JobsFit
<1>2. Handler(r)
  BY <1>1, OwnSteps
<1>3. ASSUME NEW a \in {"refused", "RepositoryError", "none"}, Answer(r, a)
      PROVE  FALSE
  BY <1>3 DEF Answer, IInv, TypeOK
<1>4. ASSUME NEW place \in Places, Goto(r, place)
      PROVE  FALSE
  BY <1>1, <1>4 DEF Goto
<1>5. ~Arrives(r) /\ ~Finish(r) /\ ~CheckRaises(r) /\ ~AddRaises(r) /\ ~Crash(r)
  BY <1>1, <1>3 DEF Arrives, Present, Busy, Finish, CheckRaises, AddRaises, Crash, IInv, JobsFit
<1>6. ~Check(r)
  BY <1>3, <1>4 DEF Check, Accepted, Places
<1>7. \A j \in revoked : In(blacklist, j) \/ ~Live(j)
  <2> SUFFICES ASSUME NEW j \in revoked, tokens[j].exp < now
               PROVE  ~Live(j)
    BY RevokedHasEntry
  <2>1. tokens[j].exp \in Nat /\ now \in Nat
    BY RevokedHasEntry, TypeFacts DEF IInv
  <2>2. QED
    BY <2>1 DEF Live
<1>8. CASE Add(r)
  <2>1. In(blacklist', job[r].token)
    BY <1>1, <1>8, CarriedToken, PutStep DEF Add
  <2>2. job[r].partner = 0 \/ ~Live(job[r].partner)
    BY <1>4, <1>8 DEF Add, Places
  <2>3. QED
    BY <2>1, <2>2
<1>9. CASE CheckPartner(r)
  <2>1. job[r].token \in revoked /\ UNCHANGED blacklist
    BY <1>9 DEF CheckPartner, storeVars, IInv, JobsFit
  <2>2. PICK image \in Images : In(image, job[r].partner)
    BY <1>4, <1>9 DEF CheckPartner, Places
  <2>3. job[r].partner \in revoked
    BY <2>2 DEF Images, In, IInv, EntriesLast
  <2>4. QED
    BY <1>7, <2>1, <2>3 DEF In
<1>10. CASE AddPartner(r)
  <2>1. Put(job[r].partner) /\ UNCHANGED <<tokens, replica, now>>
    BY <1>10 DEF AddPartner
  <2>2. job[r].token \in revoked /\ job[r].partner \in Jtis
    BY <1>1, <1>10, CarriedToken DEF AddPartner, IInv, JobsFit
  <2>3. In(blacklist', job[r].partner) /\ blacklist \subseteq blacklist'
    BY <2>1, <2>2, PutStep DEF Growth
  <2>4. QED
    BY <1>7, <2>2, <2>3 DEF In
<1>11. QED
  BY <1>2, <1>5, <1>6, <1>8, <1>9, <1>10 DEF Handler

\* Where the blacklist answers its calls, a logout that succeeds has revoked
\* both tokens it was given, whatever else revokes, refreshes or expires
\* meanwhile, and even where its reads are stale.
THEOREM Complete == ASSUME "store" \notin Faults PROVE Spec => RevocationComplete
<1>1. IInv /\ [Next]_vars =>
        [\A r \in Requests :
           job[r].op = "logout" /\ job'[r].answer = "ok" =>
             \A j \in {job[r].token, job[r].partner} \ {0} : In(blacklist', j) \/ ~Live(j)]_vars
  BY CompleteStep
<1>2. QED
  BY <1>1, IInvHolds, PTL DEF Spec, RevocationComplete

-----------------------------------------------------------------------------
(* A session that ended. *)

\* Neither tokens nor revocations nor time are taken back, and a new refresh
\* token continues the session of a refresh that passed its check, or none.
Onward ==
  /\ Jtis \subseteq Jtis' /\ revoked \subseteq revoked' /\ now' >= now
  /\ \A j \in Jtis : tokens'[j] = tokens[j]
  /\ \A j \in Jtis' \ Jtis :
       tokens'[j].type = "refresh" =>
         \/ tokens'[j].session = Len(tokens) + 2
         \/ \E r \in Requests : /\ pc[r] = "find" /\ job[r].op = "refresh"
                                /\ tokens'[j].session = tokens[job[r].token].session

LEMMA OnwardStep == ASSUME IInv, [Next]_vars PROVE Onward
<1>1. ASSUME NEW new \in Seq(Token), tokens' = tokens \o new, Len(new) \in {0, 1, 2}
      PROVE  /\ Jtis \subseteq Jtis'
             /\ \A j \in Jtis : tokens'[j] = tokens[j]
             /\ \A j \in Jtis' \ Jtis : \E i \in 1..Len(new) : tokens'[j] = new[i]
  <2>1. tokens \in Seq(Token) /\ Len(tokens) \in Nat
    BY TypeFacts DEF IInv, TypeOK
  <2>2. Len(tokens') = Len(tokens) + Len(new)
    BY <1>1, <2>1
  <2>3. \A j \in Jtis : tokens'[j] = tokens[j]
    BY <1>1, <2>1 DEF Jtis
  <2>4. \A j \in Jtis' \ Jtis : j - Len(tokens) \in 1..Len(new) /\ tokens'[j] = new[j - Len(tokens)]
    BY <1>1, <2>1, <2>2 DEF Jtis
  <2>5. QED
    BY <2>1, <2>2, <2>3, <2>4, <1>1 DEF Jtis
<1>2. now' >= now
  BY TypeFacts DEF IInv, Next, Tick, Login, SingleToken, Replicate, Expire, Handler, Arrives,
     Present, Check, CheckRaises, Finish, Add, AddRaises, CheckPartner, AddPartner, Crash, vars
<1>3. revoked \subseteq revoked'
  BY DEF Next, Tick, Login, SingleToken, Replicate, Expire, Handler, Arrives, Present, Check,
     CheckRaises, Finish, Add, AddRaises, CheckPartner, AddPartner, Crash, Put, storeVars, vars
<1>4. CASE UNCHANGED tokens
  BY <1>2, <1>3, <1>4 DEF Onward, Jtis
<1>5. ASSUME NEW s \in Nat, tokens' = Pair(s),
             \/ s = Len(tokens) + 2
             \/ \E r \in Requests : /\ pc[r] = "find" /\ job[r].op = "refresh"
                                    /\ s = tokens[job[r].token].session
      PROVE  Onward
  <2> DEFINE new == <<Mint("access", s), Mint("refresh", s)>>
  <2>1. new \in Seq(Token) /\ Len(new) = 2
    BY MintType DEF TokenTypes
  <2>2. \A i \in 1..Len(new) : new[i].session = s
    BY DEF Mint
  <2>3. tokens' = tokens \o new
    BY <1>5 DEF Pair
  <2>4. /\ Jtis \subseteq Jtis'
        /\ \A j \in Jtis : tokens'[j] = tokens[j]
        /\ \A j \in Jtis' \ Jtis : \E i \in 1..Len(new) : tokens'[j] = new[i]
    BY <1>1, <2>1, <2>3
  <2>5. \A j \in Jtis' \ Jtis : tokens'[j].session = s
    BY <2>2, <2>4
  <2>6. QED
    BY <1>2, <1>3, <1>5, <2>4, <2>5 DEF Onward
<1>6. CASE Login
  <2>1. Len(tokens) + 2 \in Nat
    BY TypeFacts DEF IInv
  <2>2. QED
    BY <1>5, <1>6, <2>1 DEF Login
<1>7. ASSUME NEW type \in {"password_reset", "service"}, SingleToken(type)
      PROVE  Onward
  <2> DEFINE new == <<Mint(type, Len(tokens) + 1)>>
  <2>1. new \in Seq(Token) /\ Len(new) = 1 /\ tokens' = tokens \o new
    BY <1>7, TypeFacts, MintType DEF TokenTypes, SingleToken, IInv, TypeOK
  <2>2. \A i \in 1..Len(new) : new[i].type # "refresh"
    BY <2>1 DEF Mint
  <2>3. /\ Jtis \subseteq Jtis'
        /\ \A j \in Jtis : tokens'[j] = tokens[j]
        /\ \A j \in Jtis' \ Jtis : \E i \in 1..Len(new) : tokens'[j] = new[i]
    BY <1>1, <2>1
  <2>4. QED
    BY <1>2, <1>3, <2>2, <2>3 DEF Onward
<1>8. ASSUME NEW r \in Requests, Finish(r), tokens' # tokens
      PROVE  Onward
  <2>1. pc[r] = "find" /\ job[r].op = "refresh" /\ tokens' = Pair(tokens[job[r].token].session)
    BY <1>8 DEF Finish
  <2>2. tokens[job[r].token].session \in Nat
    BY <2>1, CarriedToken DEF Busy, Token
  <2>3. QED
    BY <1>5, <2>1, <2>2
<1>9. \/ UNCHANGED tokens \/ Login
      \/ \E type \in {"password_reset", "service"} : SingleToken(type)
      \/ \E r \in Requests : Finish(r)
  BY SessionAssumption DEF Next, Tick, Replicate, Expire, Handler, Arrives, Present, Check,
     CheckRaises, Add, AddRaises, CheckPartner, AddPartner, Crash, vars
<1>10. QED
  BY <1>4, <1>6, <1>7, <1>8, <1>9

LEMMA EndedStep ==
  ASSUME IInv, [Next]_vars, Faults \intersect {"stale", "sweep"} = {},
         NEW s \in 1..MaxTokens, Ended(s)
  PROVE  Ended(s)'
<1>1. s \in Jtis' /\ s <= Len(tokens)
  BY OnwardStep, TypeFacts DEF Ended, IInv, Jtis, Onward
<1>2. ASSUME NEW j \in Jtis', tokens'[j].session = s, tokens'[j].type = "refresh"
      PROVE  j \in Jtis
  <2> SUFFICES ASSUME j \notin Jtis
               PROVE  FALSE
    OBVIOUS
  <2>1. s # Len(tokens) + 2
    BY <1>1, TypeFacts DEF IInv
  <2>2. PICK r \in Requests : /\ pc[r] = "find" /\ job[r].op = "refresh"
                              /\ s = tokens[job[r].token].session
    BY <1>2, <2>1, OnwardStep DEF Onward
  <2>3. tokens[job[r].token].type = "refresh"
    BY <2>2 DEF IInv, JobsFit
  <2>4. ~job[r].barred
    BY <2>2 DEF IInv, BarredIsStopped, Busy
  <2>5. r \in Drawing(s)
    BY <2>2, <2>3, <2>4 DEF Drawing
  <2>6. QED
    BY <2>5 DEF Ended
<1>3. ASSUME NEW j \in Jtis', tokens'[j].session = s, tokens'[j].type = "refresh"
      PROVE  j \in revoked' \/ ~(tokens'[j].exp > now')
  <2>1. j \in Jtis /\ tokens'[j] = tokens[j]
    BY <1>2, <1>3, OnwardStep DEF Onward
  <2>2. j \in revoked \/ ~(tokens[j].exp > now)
    BY <1>3, <2>1 DEF Ended, Live
  <2>3. tokens[j].exp \in Nat /\ now \in Nat /\ now' \in Nat
    BY <2>1, TypeFacts, NextIInv DEF IInv, TypeOK
  <2>4. QED
    BY <2>1, <2>2, <2>3, OnwardStep DEF Onward
<1>4. ASSUME NEW r \in Requests, pc'[r] \in {"check", "find"}, job'[r].op = "refresh",
             ~job'[r].barred, tokens'[job'[r].token].type = "refresh",
             tokens'[job'[r].token].session = s
      PROVE  FALSE
  <2>1. r \notin Drawing(s)
    BY DEF Ended
  <2>2. ASSUME pc[r] \in {"check", "find"}, job'[r] = job[r]
        PROVE  FALSE
    <3>1. job[r].token \in Jtis
      BY <2>2, CarriedToken DEF Busy
    <3>2. QED
      BY <1>4, <2>1, <2>2, <3>1, OnwardStep DEF Drawing, Onward
  <2>3. ASSUME NEW a \in Answers, Answer(r, a)
        PROVE  FALSE
    BY <1>4, <2>3 DEF Answer, IInv, TypeOK
  <2>4. Handler(r)
    BY <1>4, <2>2, OwnSteps
  <2>5. Arrives(r) \/ Check(r)
    <3>1. ASSUME NEW place \in {"check_partner", "add_partner"}, Goto(r, place)
          PROVE  FALSE
      BY <1>4, <3>1 DEF Goto, IInv, TypeOK
    <3>2. ~(CheckRaises(r) \/ Finish(r) \/ AddRaises(r) \/ AddPartner(r) \/ Crash(r))
      BY <2>3 DEF CheckRaises, Finish, AddRaises, AddPartner, Crash, Answers
    <3>3. ~(Add(r) \/ CheckPartner(r))
      BY <2>3, <3>1 DEF Add, CheckPartner, Answers
    <3>4. QED
      BY <2>4, <3>2, <3>3 DEF Handler
  <2>6. CASE Check(r)
    <3>1. pc[r] = "check" /\ job[r].op \in AllOperations
      BY <2>6, CarriedToken DEF Check, Busy
    <3>2. \E place \in Places : Goto(r, place)
      BY <2>3, <2>6, <3>1 DEF Check, Accepted, Answers, Places, AllOperations
    <3>3. QED
      BY <2>2, <3>1, <3>2 DEF Goto
  <2>7. CASE Arrives(r)
    <3>1. PICK op \in AllOperations, j \in Jtis, p \in 0..Len(tokens) : Present(r, op, j, p)
      <4>1. 0 \in 0..Len(tokens)
        BY TypeFacts DEF IInv
      <4>2. QED
        BY <2>7, <4>1, SessionAssumption DEF Arrives, AllOperations
    <3>2. Live(j) /\ job'[r].token = j /\ job'[r].barred = (j \in revoked)
      BY <2>3, <3>1 DEF Present, Answers, IInv, TypeOK
    <3>3. tokens'[j] = tokens[j]
      BY <3>1, OnwardStep DEF Onward
    <3>4. QED
      BY <1>4, <3>1, <3>2, <3>3 DEF Ended
  <2>8. QED
    BY <2>5, <2>6, <2>7
<1>5. Drawing(s)' = {}
  BY <1>4 DEF Drawing
<1>6. QED
  BY <1>1, <1>3, <1>5 DEF Ended, Live

\* Where reads are not stale and entries outlast the requests that look for
\* them, a session whose refresh tokens are all revoked or expired, with no
\* refresh under way, never gets another token.
THEOREM SessionsEnd ==
  ASSUME Faults \intersect {"stale", "sweep"} = {}
  PROVE  Spec => EndedForGood
<1>1. IInv /\ [Next]_vars => [\A s \in 1..MaxTokens : Ended(s) => Ended(s)']_vars
  BY EndedStep
<1>2. QED
  BY <1>1, IInvHolds, PTL DEF Spec, EndedForGood
=============================================================================
