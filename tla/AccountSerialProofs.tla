------------------------- MODULE AccountSerialProofs -------------------------
(* More proofs about AccountService: what holds where requests come one     *)
(* after another.                                                           *)
EXTENDS AccountProofs

-----------------------------------------------------------------------------
(* What the steps of a handler do to its request. *)

\* Only request r moves.
Moves(r) == \A s \in Requests \ {r} : pc'[s] = pc[s] /\ job'[s] = job[s]

\* A reply leaves an answer and nothing else.
LEMMA ReplyDoes ==
  ASSUME TypeOK, NEW r \in Requests, NEW op, NEW a, Reply(r, op, a)
  PROVE  Moves(r) /\ pc'[r] = "answered" /\ job'[r].op = op /\ job'[r].answer = a
  BY DEF TypeOK, Reply, Moves, NoJob

\* A planned write leaves the copy, the events and the answer.
LEMMA WriteDoes ==
  ASSUME TypeOK, NEW r \in Requests, NEW op, NEW u, NEW events, NEW a,
         Write(r, op, u, events, a)
  PROVE  /\ Moves(r) /\ pc'[r] = "write"
         /\ job'[r].op = op /\ job'[r].user = u
         /\ job'[r].publish = events /\ job'[r].answer = a
  BY DEF TypeOK, Write, Moves, NoJob

\* So does a planned write with an event, as far as the copy is concerned.
LEMMA WriteWithEventDoes ==
  ASSUME TypeOK, NEW r \in Requests, NEW op, NEW service, NEW u, NEW event, NEW a,
         WriteWithEvent(r, op, service, u, event, a)
  PROVE  Moves(r) /\ pc'[r] = "write" /\ job'[r].op = op /\ job'[r].user = u
<1>1. CASE service \in Wired
  BY <1>1 DEF TypeOK, WriteWithEvent, Moves, NoJob
<1>2. CASE service \notin Wired
  BY <1>2, WriteDoes DEF WriteWithEvent
<1>3. QED
  BY <1>1, <1>2

\* A handler with events only leaves them.
LEMMA PublishOnlyDoes ==
  ASSUME TypeOK, NEW r \in Requests, NEW op, NEW events, NEW a,
         PublishOnly(r, op, events, a)
  PROVE  Moves(r) /\ pc'[r] = "publish" /\ job'[r].op = op
  BY DEF TypeOK, PublishOnly, Moves, NoJob

-----------------------------------------------------------------------------
(* How a handler begins: with nothing to write, with a failed login, with a *)
(* successful one, or with a change that leaves counter and lock alone.      *)

HoldsBack(r) ==
  /\ pc'[r] \in {"publish", "answered"}
  /\ ~LogsIn(r)'
  /\ wrong' = wrong

Fails(r) ==
  /\ pc'[r] = "write"
  /\ \E u \in Readable : ~IsLocked(u, now) /\ job'[r].user = RecordFailedLogin(u, now)
  /\ ~LogsIn(r)'
  /\ wrong' = wrong + 1

Succeeds(r) ==
  /\ pc'[r] = "write"
  /\ \E u \in Readable : ~IsLocked(u, now) /\ job'[r].user = RecordSuccessfulLogin(u)
  /\ LogsIn(r)'
  /\ wrong' = wrong

KeepsLock(u, v) == v.attempts = u.attempts /\ v.lockedUntil = u.lockedUntil

Alters(r) ==
  /\ pc'[r] = "write"
  /\ \E u \in Readable : MayBecome(u, job'[r].user, job'[r].op) /\ KeepsLock(u, job'[r].user)
  /\ ~LogsIn(r)'
  /\ wrong' = wrong

Begins(r) ==
  /\ pc[r] = "new"
  /\ Overlap \/ \A s \in Requests : Finished(s)
  /\ Moves(r)
  /\ ReadOnly
  /\ HoldsBack(r) \/ Fails(r) \/ Succeeds(r) \/ Alters(r)

\* The operations of the entity that are neither a login nor a change of status
\* may be done to any account, and leave counter and lock as they are.
LEMMA HarmlessOps ==
  ASSUME NEW u \in User, NEW n, NEW t, NEW op, NEW role
  PROVE  \A v \in {Deactivate(u, n), UpdateProfile(u, n), RequirePasswordChange(u, n),
                   GenerateVerificationToken(u, t), AssignRole(u, role, n),
                   RemoveRole(u, role, n)} :
           MayBecome(u, v, op) /\ KeepsLock(u, v)
<1> USE DEF User, UserStatus, MayBecome, KeepsLock
<1>1. LET v == Deactivate(u, n) IN MayBecome(u, v, op) /\ KeepsLock(u, v)
  BY DEF Deactivate
<1>2. LET v == UpdateProfile(u, n) IN MayBecome(u, v, op) /\ KeepsLock(u, v)
  BY DEF UpdateProfile
<1>3. LET v == RequirePasswordChange(u, n) IN MayBecome(u, v, op) /\ KeepsLock(u, v)
  BY DEF RequirePasswordChange
<1>4. LET v == GenerateVerificationToken(u, t) IN MayBecome(u, v, op) /\ KeepsLock(u, v)
  BY DEF GenerateVerificationToken
<1>5. LET v == AssignRole(u, role, n) IN MayBecome(u, v, op) /\ KeepsLock(u, v)
  BY DEF AssignRole
<1>6. LET v == RemoveRole(u, role, n) IN MayBecome(u, v, op) /\ KeepsLock(u, v)
  BY DEF RemoveRole
<1> HIDE DEF User, MayBecome, KeepsLock
<1>7. QED
  BY <1>1, <1>2, <1>3, <1>4, <1>5, <1>6

\* Those that make an account active are left to the operations that may, and
\* leave counter and lock as they are, too.
LEMMA ActivatingOps ==
  ASSUME NEW u \in User, NEW n
  PROVE  /\ LET v == Activate(u, n)
            IN  MayBecome(u, v, "activate_user") /\ KeepsLock(u, v)
         /\ \A hash \in Hash :
              LET v == ResetPassword(u, hash, n)
              IN  MayBecome(u, v, "reset_password") /\ KeepsLock(u, v)
         /\ LET v == VerifyEmail(u)
            IN  /\ ~u.verified => MayBecome(u, v, "verify_email")
                /\ KeepsLock(u, v)
  BY DEF User, UserStatus, MayBecome, KeepsLock, Activate, ResetPassword, VerifyEmail

\* A login changes neither status, verification nor password.
LEMMA LoginOps ==
  ASSUME NEW u \in User, NEW n, NEW op
  PROVE  /\ MayBecome(u, RecordFailedLogin(u, n), op)
         /\ MayBecome(u, RecordSuccessfulLogin(u), op)
  BY DEF User, UserStatus, MayBecome, RecordFailedLogin, RecordSuccessfulLogin

\* Every handler of the two services begins in one of the four ways.
LEMMA HandlersBegin ==
  ASSUME IInv, NEW r \in Requests, AuthHandler(r) \/ UserHandler(r)
  PROVE  Begins(r)
<1>0. TypeOK
  BY DEF IInv
<1>a. ASSUME NEW u \in Readable PROVE u \in User
  BY <1>a, ReadableFacts
<1>b. ASSUME NEW op, NEW a, Reply(r, op, a), op # "authenticate" \/ a # "tokens",
             wrong' = wrong
      PROVE  Moves(r) /\ HoldsBack(r)
  BY <1>0, <1>b, ReplyDoes DEF HoldsBack, LogsIn
<1>c. ASSUME NEW op, NEW v, NEW events, Write(r, op, v, events, "ok"),
             NEW u \in Readable, MayBecome(u, v, op), KeepsLock(u, v), wrong' = wrong
      PROVE  Moves(r) /\ Alters(r)
  <2>1. /\ Moves(r) /\ pc'[r] = "write"
        /\ job'[r].op = op /\ job'[r].user = v /\ job'[r].answer = "ok"
    BY <1>0, <1>c, WriteDoes
  <2>2. QED
    BY <1>c, <2>1 DEF Alters, LogsIn
<1>d. ASSUME NEW op, NEW service, NEW v, NEW event, op # "authenticate",
             WriteWithEvent(r, op, service, v, event, "ok"),
             NEW u \in Readable, MayBecome(u, v, op), KeepsLock(u, v), wrong' = wrong
      PROVE  Moves(r) /\ Alters(r)
  <2>1. Moves(r) /\ pc'[r] = "write" /\ job'[r].op = op /\ job'[r].user = v
    BY <1>0, <1>d, WriteWithEventDoes
  <2>2. QED
    BY <1>d, <2>1 DEF Alters, LogsIn
<1>e. ASSUME NEW op, NEW v, NEW events, NEW u \in Readable,
             UserServiceWrite(r, op, v, events), MayBecome(u, v, op), KeepsLock(u, v)
      PROVE  Moves(r) /\ ReadOnly /\ Alters(r)
  BY <1>c, <1>e DEF UserServiceWrite
<1> DEFINE Goal == /\ \E op \in Operations : Arrives(r, op)
                   /\ Moves(r) /\ ReadOnly
                   /\ HoldsBack(r) \/ Fails(r) \/ Succeeds(r) \/ Alters(r)
<1>1. ASSUME NEW password \in Passwords, Authenticate(r, password) PROVE Goal
  <2>1. PICK u \in Readable :
          \/ \E a \in Answers \ {"tokens"} : Reply(r, "authenticate", a) /\ wrong' = wrong
          \/ /\ ~IsLocked(u, now) /\ wrong' = wrong + 1
             /\ LET f == RecordFailedLogin(u, now)
                IN  Write(r, "authenticate", f, FailureEvents(f),
                          IF IsLocked(f, now) THEN "AccountLocked" ELSE "InvalidCredentials")
          \/ /\ ~IsLocked(u, now) /\ wrong' = wrong
             /\ Write(r, "authenticate", RecordSuccessfulLogin(u), <<"login_success">>, "tokens")
    BY <1>1 DEF Authenticate, Answers
  <2>2. CASE \E a \in Answers \ {"tokens"} : Reply(r, "authenticate", a) /\ wrong' = wrong
    BY <1>1, <1>b, <2>2 DEF Authenticate, Arrives
  <2>3. CASE /\ ~IsLocked(u, now) /\ wrong' = wrong + 1
             /\ LET f == RecordFailedLogin(u, now)
                IN  Write(r, "authenticate", f, FailureEvents(f),
                          IF IsLocked(f, now) THEN "AccountLocked" ELSE "InvalidCredentials")
    <3> DEFINE f == RecordFailedLogin(u, now)
               a == IF IsLocked(f, now) THEN "AccountLocked" ELSE "InvalidCredentials"
    <3>1. a # "tokens"
      OBVIOUS
    <3> HIDE DEF f, a
    <3>2. Write(r, "authenticate", f, FailureEvents(f), a)
      BY <2>3 DEF f, a
    <3>3. Moves(r) /\ pc'[r] = "write" /\ job'[r].user = f /\ job'[r].answer = a
      BY <1>0, <3>2, WriteDoes
    <3>4. Fails(r)
      BY <2>3, <3>1, <3>3 DEF Fails, LogsIn, f
    <3>5. QED
      BY <1>1, <3>3, <3>4 DEF Authenticate, Arrives
  <2>4. CASE /\ ~IsLocked(u, now) /\ wrong' = wrong
             /\ Write(r, "authenticate", RecordSuccessfulLogin(u), <<"login_success">>, "tokens")
    <3>1. /\ Moves(r) /\ pc'[r] = "write" /\ job'[r].user = RecordSuccessfulLogin(u)
          /\ job'[r].op = "authenticate" /\ job'[r].answer = "tokens"
      BY <1>0, <2>4, WriteDoes
    <3>2. Succeeds(r)
      BY <2>4, <3>1 DEF Succeeds, LogsIn
    <3>3. QED
      BY <1>1, <3>1, <3>2 DEF Authenticate, Arrives
  <2>5. QED
    BY <2>1, <2>2, <2>3, <2>4
<1>2. ASSUME Refresh(r) PROVE Goal
  BY <1>2, <1>b DEF Refresh, Arrives
<1>3. ASSUME ForgotPassword(r) PROVE Goal
  <2>1. Moves(r) /\ pc'[r] = "publish" /\ job'[r].op = "forgot_password"
    BY <1>0, <1>3, PublishOnlyDoes DEF ForgotPassword
  <2>2. QED
    BY <1>3, <2>1 DEF ForgotPassword, Arrives, HoldsBack, LogsIn
<1>4. ASSUME NEW new \in Passwords, NEW strong \in BOOLEAN,
             ResetPasswordRequest(r, new, strong)
      PROVE  Goal
  <2> DEFINE hash == [of |-> new, salt |-> r]
  <2>1. hash \in Hash
    BY ServiceAssumption DEF Hash
  <2> HIDE DEF hash
  <2>2. CASE strong
    <3>1. PICK u \in Readable :
            WriteWithEvent(r, "reset_password", "auth", ResetPassword(u, hash, now),
                           "password_changed", "ok")
      BY <1>4, <2>2 DEF ResetPasswordRequest, hash
    <3>2. LET v == ResetPassword(u, hash, now)
          IN  MayBecome(u, v, "reset_password") /\ KeepsLock(u, v)
      BY <1>a, <2>1, ActivatingOps
    <3>3. QED
      BY <1>4, <1>d, <3>1, <3>2 DEF ResetPasswordRequest, Arrives
  <2>3. CASE ~strong
    BY <1>4, <1>b, <2>3 DEF ResetPasswordRequest, Arrives
  <2>4. QED
    BY <2>2, <2>3
<1>5. ASSUME NEW t \in 1..Len(issued), VerifyEmailRequest(r, t) PROVE Goal
  BY <1>5, <1>a, <1>b, <1>c, ActivatingOps DEF VerifyEmailRequest, Arrives
<1>6. ASSUME ResendVerification(r) PROVE Goal
  BY <1>6, <1>a, <1>b, <1>c, HarmlessOps DEF ResendVerification, Arrives
<1>7. ASSUME UpdateProfileRequest(r) PROVE Goal
  BY <1>7, <1>a, <1>e, HarmlessOps DEF UpdateProfileRequest, Arrives
<1>8. ASSUME NEW role \in Roles, AssignRoleRequest(r, role) \/ RemoveRoleRequest(r, role)
      PROVE  Goal
  <2>1. CASE AssignRoleRequest(r, role)
    BY <2>1, <1>a, <1>e, HarmlessOps DEF AssignRoleRequest, Arrives
  <2>2. CASE RemoveRoleRequest(r, role)
    BY <2>2, <1>a, <1>e, HarmlessOps DEF RemoveRoleRequest, Arrives
  <2>3. QED
    BY <1>8, <2>1, <2>2
<1>9. ASSUME DeactivateRequest(r) PROVE Goal
  BY <1>9, <1>a, <1>d, HarmlessOps DEF DeactivateRequest, Arrives
<1>10. ASSUME SuspendUser(r) PROVE Goal
  BY <1>10, <1>a, <1>e, HarmlessOps DEF SuspendUser, Arrives
<1>11. ASSUME ActivateUser(r) PROVE Goal
  BY <1>11, <1>a, <1>e, ActivatingOps DEF ActivateUser, Arrives
<1>12. ASSUME RequirePasswordChangeRequest(r) PROVE Goal
  BY <1>12, <1>a, <1>e, HarmlessOps DEF RequirePasswordChangeRequest, Arrives
<1>13. ASSUME NEW op \in AllOperations, Refuse(r, op) PROVE Goal
  <2>1. "tokens" \notin Refusals(op)
    BY DEF Refusals
  <2>2. QED
    BY <1>13, <1>b, <2>1 DEF Refuse, Arrives
<1>14. Goal
  BY <1>1, <1>2, <1>3, <1>4, <1>5, <1>6, <1>7, <1>8, <1>9, <1>10, <1>11, <1>12, <1>13
     DEF AuthHandler, UserHandler
<1>15. QED
  BY <1>14 DEF Begins, Arrives

\* How a request that is under way goes on.
GoesOn(r) == Commit(r) \/ CommitRaises(r) \/ Publish(r) \/ PublishRaises(r) \/ Crash(r)

\* A step of the environment changes no request, item or count.
Idles == UNCHANGED <<item, pc, job, wrong>>

\* Every step of the service is one of these three.
LEMMA NextSteps ==
  ASSUME IInv, [Next]_vars
  PROVE  \/ \E r \in Requests : Begins(r)
         \/ \E r \in Requests : GoesOn(r)
         \/ Idles
<1>1. ASSUME NEW r \in Requests, AuthHandler(r) \/ UserHandler(r) PROVE Begins(r)
  BY <1>1, HandlersBegin
<1>2. Tick \/ Replicate \/ UNCHANGED vars => Idles
  BY DEF Tick, Replicate, vars, requestVars, Idles
<1>3. QED
  BY <1>1, <1>2 DEF Next, GoesOn

\* A request that goes on is under way, keeps its operation, has nothing to
\* write any more, and changes the item only to the copy it had.
LEMMA GoesOnFacts ==
  ASSUME TypeOK, NEW r \in Requests, GoesOn(r)
  PROVE  /\ ~Finished(r) /\ Moves(r)
         /\ pc'[r] \in {"publish", "answered"}
         /\ LogsIn(r)' => LogsIn(r)
         /\ item' = item \/ (pc[r] = "write" /\ item' = job[r].user)
<1>1. ASSUME NEW a, Reply(r, job[r].op, a), a \in {job[r].answer} \/ a # "tokens", ~Finished(r)
      PROVE  Moves(r) /\ pc'[r] = "answered" /\ (LogsIn(r)' => LogsIn(r))
  BY <1>1, ReplyDoes DEF LogsIn
<1>2. CASE Commit(r)
  <2>1. item' = job[r].user /\ pc[r] = "write" /\ ~Finished(r) /\ AfterWrite(r)
    BY <1>2 DEF Commit, Store, Finished
  <2>2. CASE job[r].publish = <<>>
    BY <1>1, <2>1, <2>2 DEF AfterWrite
  <2>3. CASE job[r].publish # <<>>
    BY <2>1, <2>3 DEF AfterWrite, Moves, LogsIn, NoJob, TypeOK
  <2>4. QED
    BY <2>2, <2>3
<1>3. CASE CommitRaises(r)
  BY <1>1, <1>3 DEF CommitRaises, Store, Finished
<1>4. CASE Publish(r)
  <2>1. item' = item /\ pc[r] = "publish" /\ ~Finished(r)
    BY <1>4 DEF Publish, Finished
  <2>2. CASE Reply(r, job[r].op, job[r].answer)
    BY <1>1, <2>1, <2>2
  <2>3. CASE job' = [job EXCEPT ![r].publish = Tail(@)] /\ UNCHANGED pc
    BY <2>1, <2>3 DEF Moves, LogsIn, TypeOK, Job
  <2>4. QED
    BY <1>4, <2>2, <2>3 DEF Publish
<1>5. CASE PublishRaises(r)
  BY <1>1, <1>5 DEF PublishRaises, Finished
<1>6. CASE Crash(r)
  BY <1>1, <1>6 DEF Crash
<1>7. QED
  BY <1>2, <1>3, <1>4, <1>5, <1>6 DEF GoesOn

-----------------------------------------------------------------------------
(* Requests one after another, with reads that are up to date.               *)

Serial == ~Overlap /\ "stale" \notin Faults

\* When a handler begins, nobody else is at work, and it reads the item as it
\* stays until it is written.
LEMMA BeginsSerial ==
  ASSUME Serial, NEW r \in Requests, Begins(r)
  PROVE  /\ \A s \in Requests : Finished(s)
         /\ \A s \in Requests \ {r} : Finished(s)' /\ pc'[s] # "write"
         /\ Readable = {item}
         /\ UNCHANGED <<item, now>>
  BY DEF Serial, Begins, Finished, Readable, Moves, ReadOnly

\* When a request goes on, nobody else is at work.
LEMMA GoesOnSerial ==
  ASSUME TypeOK, OneAtATime, NEW r \in Requests, GoesOn(r)
  PROVE  /\ \A s \in Requests \ {r} : Finished(s) /\ Finished(s)'
         /\ \A s \in Requests : pc'[s] # "write"
<1>1. ~Finished(r) /\ Moves(r) /\ pc'[r] \in {"publish", "answered"}
  BY GoesOnFacts
<1>2. \A s \in Requests \ {r} : Finished(s) /\ pc'[s] = pc[s]
  BY <1>1 DEF OneAtATime, Moves
<1>3. QED
  BY <1>1, <1>2 DEF Finished

\* What a handler is about to write is allowed, since it was made of the item
\* and nobody has changed the item since.
LEMMA SerialStep ==
  ASSUME Serial, IInv, SerialInv, [Next]_vars
  PROVE  SerialInv'
<1> USE DEF SerialInv
<1>0. TypeOK /\ item \in User
  BY DEF IInv, TypeOK
<1>1. ASSUME NEW r \in Requests, Begins(r) PROVE SerialInv'
  <2>1. OneAtATime'
    BY <1>1, BeginsSerial DEF OneAtATime
  <2>2. pc'[r] = "write" => MayBecome(item, job'[r].user, job'[r].op)
    BY <1>0, <1>1, BeginsSerial, LoginOps
       DEF Begins, HoldsBack, Fails, Succeeds, Alters
  <2>3. WritesAllowed'
    BY <1>1, <2>2, BeginsSerial DEF WritesAllowed, MayBecome
  <2>4. QED
    BY <2>1, <2>3
<1>2. ASSUME NEW r \in Requests, GoesOn(r) PROVE SerialInv'
  BY <1>0, <1>2, GoesOnSerial DEF OneAtATime, WritesAllowed
<1>3. CASE Idles
  BY <1>3 DEF Idles, OneAtATime, WritesAllowed, MayBecome, Finished
<1>4. QED
  BY <1>1, <1>2, <1>3, NextSteps

\* Nobody is at work at first.
LEMMA InitSerialInv == Init => SerialInv
  BY DEF Init, SerialInv, OneAtATime, WritesAllowed, Finished

\* One after another, requests write what they may make of the item.
LEMMA SerialInvHolds == ASSUME Serial PROVE Spec => []SerialInv
<1>1. IInv /\ SerialInv /\ [Next]_vars => SerialInv'
  BY SerialStep
<1>2. QED
  BY <1>1, InitSerialInv, IInvHolds, PTL DEF Spec

\* Where requests come one after another and reads are up to date, no status, no
\* verification and no password is undone by a request that may not change it, whatever
\* publishes, writes or Lambdas fail (the put of the whole item by every handler).
THEOREM NothingIsUndone ==
  ASSUME ~Overlap, "stale" \notin Faults
  PROVE  Spec => NothingUndone
<1> DEFINE A == \E r \in Requests : pc[r] = "write" /\ MayBecome(item, item', job[r].op)
<1>1. IInv /\ SerialInv /\ [Next]_vars => [A]_item
  <2> SUFFICES ASSUME IInv, SerialInv, [Next]_vars, item' # item PROVE A
    OBVIOUS
  <2>1. PICK r \in Requests : GoesOn(r)
    BY NextSteps DEF Begins, ReadOnly, Idles
  <2>2. pc[r] = "write" /\ item' = job[r].user
    BY <2>1, GoesOnFacts DEF IInv
  <2>3. QED
    BY <2>2 DEF SerialInv, WritesAllowed
<1>2. Spec => []SerialInv
  BY SerialInvHolds DEF Serial
<1>3. QED
  BY <1>1, <1>2, IInvHolds, PTL DEF Spec, NothingUndone

-----------------------------------------------------------------------------
(* The count of wrong passwords, where no write is lost either.             *)

Lossless == Serial /\ "store" \notin Faults /\ "crash" \notin Faults

\* Products of numbers are numbers, and one factor more is one product more.
LEMMA Periods ==
  ASSUME NEW n \in Int
  PROVE  /\ n * LockPeriod \in Int
         /\ (n + 1) * LockPeriod = n * LockPeriod + LockPeriod
  BY EntityAssumption

\* Whole periods that fit into a time are counted by the division.
LEMMA PeriodsDivide ==
  ASSUME NEW n \in Int, NEW t \in Nat, n * LockPeriod <= t
  PROVE  n <= t \div LockPeriod
<1> DEFINE q == t \div LockPeriod
           P == LockPeriod
<1>1. P \in Nat \ {0}
  BY EntityAssumption
<1>2. q \in Int /\ t < (q + 1) * P
  BY <1>1
<1>3. n * P < (q + 1) * P
  <2> HIDE DEF q
  <2>1. n * P \in Int /\ (q + 1) * P \in Int
    BY <1>1, <1>2
  <2>2. QED
    BY <1>1, <1>2, <2>1
<1> HIDE DEF q, P
<1>4. n < q + 1
  BY <1>1, <1>2, <1>3
<1>5. QED
  BY <1>2, <1>4 DEF q

\* A failure outside a lock is counted, and its lock is a period longer than
\* all those before it.
LEMMA FailureCounted ==
  ASSUME NEW u \in User, now \in Time, wrong \in Nat, Counted(u), ~IsLocked(u, now),
         wrong' = wrong + 1
  PROVE  LET f == RecordFailedLogin(u, now)
         IN  /\ f.attempts = wrong'
             /\ wrong' >= MaxAttempts =>
                  f.lockedUntil >= 1 + (wrong' - MaxAttempts + 1) * LockPeriod
<1> DEFINE f == RecordFailedLogin(u, now)
           n == wrong - MaxAttempts
<1>1. /\ MaxAttempts \in Nat \ {0} /\ LockPeriod \in Nat \ {0} /\ now \in Nat \ {0}
      /\ u.attempts = wrong /\ u.lockedUntil \in Nat
  BY EntityAssumption DEF Time, User, Counted
<1>2. f.attempts = wrong' /\ (wrong' >= MaxAttempts => f.lockedUntil = now + LockPeriod)
  BY <1>1 DEF RecordFailedLogin, User
<1>3. ASSUME wrong' >= MaxAttempts
      PROVE  now + LockPeriod >= 1 + (n + 2) * LockPeriod
  <2>1. /\ n \in Int /\ (n + 1) * LockPeriod \in Int
        /\ (n + 2) * LockPeriod = (n + 1) * LockPeriod + LockPeriod
    <3>1. n \in Int
      BY <1>1
    <3>2. (n + 1) + 1 = n + 2 /\ n + 1 \in Int
      BY <3>1
    <3>3. QED
      BY <3>1, <3>2, Periods
  <2>2. now >= 1 + (n + 1) * LockPeriod
    <3>1. CASE wrong >= MaxAttempts
      <4>1. u.lockedUntil >= 1 + (n + 1) * LockPeriod
        BY <3>1 DEF Counted
      <4>2. (n + 1) * LockPeriod >= 0
        <5>1. n + 1 \in Nat
          BY <1>1, <3>1
        <5>2. QED
          BY <1>1, <5>1
      <4>3. u.lockedUntil <= now
        BY <1>1, <2>1, <4>1, <4>2 DEF IsLocked, None
      <4>4. QED
        BY <1>1, <2>1, <4>1, <4>3
    <3>2. CASE ~(wrong >= MaxAttempts)
      <4>1. n + 1 = 0
        BY <1>1, <1>3, <3>2
      <4>2. (n + 1) * LockPeriod = 0
        BY <1>1, <4>1
      <4>3. QED
        BY <1>1, <4>2
    <3>3. QED
      BY <3>1, <3>2
  <2> HIDE DEF n
  <2>3. QED
    BY <1>1, <2>1, <2>2
<1>4. wrong' - MaxAttempts + 1 = n + 2
  BY <1>1
<1>5. QED
  BY <1>2, <1>3, <1>4

\* A count of nothing needs no lock.
LEMMA NothingCounted ==
  ASSUME wrong = 0, NEW u, u.attempts = 0
  PROVE  Counted(u)
  BY EntityAssumption DEF Counted

\* Whoever begins takes over the count that is in the item.
LEMMA CountBegins ==
  ASSUME Lossless, IInv, CountInv, NEW r \in Requests, Begins(r)
  PROVE  CountKept'
<1> USE DEF Lossless
<1>1. Counted(item)
  BY BeginsSerial DEF CountInv, CountKept, Finished
<1>2. item \in User /\ now \in Time /\ wrong \in Nat /\ item.lockedUntil \in Nat
  BY ServiceAssumption DEF IInv, TypeOK, Time, User
<1>3. /\ \A s \in Requests : pc'[s] = "write" => s = r
      /\ Readable = {item} /\ item' = item /\ now' = now
  BY BeginsSerial
<1>4. CASE HoldsBack(r)
  <2>1. \A s \in Requests : pc'[s] # "write"
    BY <1>3, <1>4 DEF HoldsBack
  <2>2. Counted(item)'
    BY <1>1, <1>3, <1>4 DEF HoldsBack, Counted
  <2>3. QED
    BY <2>1, <2>2 DEF CountKept
<1>5. CASE Fails(r)
  <2>1. /\ pc'[r] = "write" /\ ~LogsIn(r)' /\ wrong' = wrong + 1
        /\ ~IsLocked(item, now) /\ job'[r].user = RecordFailedLogin(item, now)
    BY <1>3, <1>5 DEF Fails
  <2>2. Counted(job[r].user)'
    BY <1>1, <1>2, <2>1, FailureCounted DEF Counted
  <2>3. QED
    BY <1>3, <2>1, <2>2 DEF CountKept
<1>6. CASE Succeeds(r)
  <2>1. /\ pc'[r] = "write" /\ LogsIn(r)' /\ wrong' = wrong
        /\ ~IsLocked(item, now) /\ job'[r].user = RecordSuccessfulLogin(item)
    BY <1>3, <1>6 DEF Succeeds
  <2>2. Counted(item)'
    BY <1>1, <1>3, <2>1 DEF Counted
  <2>3. job'[r].user.attempts = 0
    BY <1>2, <2>1 DEF RecordSuccessfulLogin, User
  <2>4. item.lockedUntil <= now
    BY <1>2, <2>1 DEF IsLocked, None, Time
  <2>5. QED
    BY <1>3, <2>1, <2>2, <2>3, <2>4 DEF CountKept
<1>7. CASE Alters(r)
  <2>1. /\ pc'[r] = "write" /\ ~LogsIn(r)' /\ wrong' = wrong
        /\ KeepsLock(item, job'[r].user)
    BY <1>3, <1>7 DEF Alters
  <2>2. Counted(job[r].user)'
    BY <1>1, <2>1 DEF Counted, KeepsLock
  <2>3. QED
    BY <1>3, <2>1, <2>2 DEF CountKept
<1>8. QED
  BY <1>4, <1>5, <1>6, <1>7 DEF Begins

\* A request that goes on stores the count it took over, or had none.
LEMMA CountGoesOn ==
  ASSUME Lossless, IInv, CountInv, NEW r \in Requests, GoesOn(r)
  PROVE  CountKept'
<1>0. TypeOK
  BY DEF IInv
<1>1. \A s \in Requests : pc'[s] # "write"
  BY <1>0, GoesOnSerial DEF CountInv, SerialInv
<1>2. Counted(item)'
  <2>1. CASE Commit(r)
    <3>1. pc[r] = "write" /\ item' = job[r].user
      BY <2>1 DEF Commit, Store
    <3>2. CASE LogsIn(r)
      <4>1. wrong' = 0 /\ item'.attempts = 0
        BY <2>1, <3>1, <3>2 DEF Commit, Store, LogsIn, CountInv, CountKept
      <4>2. QED
        BY <4>1, EntityAssumption DEF Counted
    <3>3. CASE ~LogsIn(r)
      <4>1. wrong' = wrong /\ Counted(job[r].user)
        BY <2>1, <3>1, <3>3 DEF Commit, Store, LogsIn, CountInv, CountKept
      <4>2. QED
        BY <3>1, <4>1 DEF Counted
    <3>4. QED
      BY <3>2, <3>3
  <2>2. CASE Publish(r) \/ PublishRaises(r)
    <3>1. pc[r] = "publish" /\ item' = item /\ wrong' = wrong
      BY <2>2 DEF Publish, PublishRaises
    <3>2. \A s \in Requests : pc[s] # "write"
      BY <1>0, <3>1, GoesOnSerial DEF CountInv, SerialInv, Finished
    <3>3. Counted(item)
      BY <3>2 DEF CountInv, CountKept
    <3>4. QED
      BY <3>1, <3>3 DEF Counted
  <2>3. QED
    BY <2>1, <2>2 DEF GoesOn, Lossless, CommitRaises, Crash
<1>3. QED
  BY <1>1, <1>2 DEF CountKept

\* Every step keeps the count.
LEMMA CountStep ==
  ASSUME Lossless, IInv, CountInv, [Next]_vars
  PROVE  CountInv'
<1>1. SerialInv'
  BY SerialStep DEF Lossless, CountInv
<1>2. ASSUME Tick \/ Replicate \/ UNCHANGED vars PROVE CountKept'
  <2>1. UNCHANGED <<item, pc, job, wrong>>
    BY <1>2 DEF Tick, Replicate, vars, requestVars
  <2>2. now \in Nat /\ now' \in Nat /\ now <= now' /\ item.lockedUntil \in Nat
    BY <1>2, ServiceAssumption
       DEF Tick, Replicate, vars, IInv, TypeOK, Time, User
  <2>3. QED
    BY <2>1, <2>2 DEF CountInv, CountKept, Counted, LogsIn
<1>3. \/ \E r \in Requests : Begins(r)
      \/ \E r \in Requests : GoesOn(r)
      \/ Tick \/ Replicate \/ UNCHANGED vars
  BY HandlersBegin DEF Next, GoesOn
<1>4. QED
  BY <1>1, <1>2, <1>3, CountBegins, CountGoesOn DEF CountInv

\* A new account has no failures and no lock.
LEMMA NewAccountUnlocked ==
  Init => wrong = 0 /\ item.attempts = 0 /\ item.lockedUntil = 0
  BY NewAccount DEF Init, Start

\* No password has been tried at first.
LEMMA InitCountInv == Init => CountInv
<1> SUFFICES ASSUME Init PROVE CountInv
  OBVIOUS
<1>1. item.attempts = 0 /\ wrong = 0
  BY NewAccountUnlocked
<1>2. Counted(item)
  BY <1>1, NothingCounted
<1>3. QED
  BY <1>2, InitSerialInv DEF Init, CountInv, CountKept

\* Without lost writes, the counter keeps up with the passwords that were tried.
LEMMA CountInvHolds == ASSUME Lossless PROVE Spec => []CountInv
<1>1. IInv /\ CountInv /\ [Next]_vars => CountInv'
  BY CountStep
<1>2. QED
  BY <1>1, InitCountInv, IInvHolds, PTL DEF Spec

\* The account or a copy about to be stored has the count of all failures.
LEMMA CountIsSomewhere ==
  ASSUME IInv, CountInv
  PROVE  \E u \in User : Consistent(u) /\ Counted(u)
<1>1. CASE \A r \in Requests : pc[r] = "write" => LogsIn(r)
  BY <1>1 DEF IInv, TypeOK, CopiesConsistent, Copies, CountInv, CountKept
<1>2. ASSUME NEW r \in Requests, pc[r] = "write", ~LogsIn(r)
      PROVE  \E u \in User : Consistent(u) /\ Counted(u)
  <2>1. job[r].user \in User
    BY DEF IInv, TypeOK, Job
  <2>2. Consistent(job[r].user) /\ Counted(job[r].user)
    BY <1>2 DEF IInv, CopiesConsistent, Copies, CountInv, CountKept
  <2>3. QED
    BY <2>1, <2>2
<1>3. QED
  BY <1>1, <1>2

\* Where logins come one after another and their writes are not lost, an account
\* sees MaxAttempts wrong passwords and then at most one for each lock period
\* that has passed (authenticate tests the lock before the password).
THEOREM GuessesAreBounded ==
  ASSUME ~Overlap, Faults \subseteq {"bus", "page"}
  PROVE  Spec => []GuessesBounded
<1>1. IInv /\ CountInv => GuessesBounded
  <2> SUFFICES ASSUME IInv, CountInv PROVE GuessesBounded
    OBVIOUS
  <2>1. /\ wrong \in Nat /\ now \in Nat \ {0}
        /\ MaxAttempts \in Nat \ {0} /\ LockPeriod \in Nat \ {0}
    BY EntityAssumption, ServiceAssumption DEF IInv, TypeOK, Time
  <2>2. PICK u \in User : Consistent(u) /\ Counted(u)
    BY CountIsSomewhere
  <2>3. (now - 1) \div LockPeriod \in Nat
    BY <2>1
  <2>4. CASE wrong < MaxAttempts
    BY <2>1, <2>3, <2>4 DEF GuessesBounded
  <2>5. CASE wrong >= MaxAttempts
    <3> DEFINE n == wrong - MaxAttempts
    <3>1. n \in Int /\ n * LockPeriod \in Int
          /\ (n + 1) * LockPeriod = n * LockPeriod + LockPeriod
      BY <2>1, Periods
    <3>2. /\ u.lockedUntil \in Nat /\ u.lockedUntil <= now + LockPeriod
          /\ u.lockedUntil >= 1 + (n + 1) * LockPeriod
      BY <2>2, <2>5 DEF Consistent, Counted, User
    <3> HIDE DEF n
    <3>3. n * LockPeriod <= now - 1
      BY <2>1, <3>1, <3>2
    <3>4. n <= (now - 1) \div LockPeriod
      BY <2>1, <3>1, <3>3, PeriodsDivide
    <3>5. QED
      BY <2>1, <2>3, <3>1, <3>4 DEF n, GuessesBounded
  <2>6. QED
    BY <2>1, <2>4, <2>5
<1>2. Spec => []CountInv
  BY CountInvHolds DEF Lossless, Serial
<1>3. QED
  BY <1>1, <1>2, IInvHolds, PTL

\* Under the same conditions MaxAttempts wrong passwords in a row leave the
\* account locked, and only a login takes the lock off the record (no other
\* operation resets the counter).
THEOREM FailuresDoLock ==
  ASSUME ~Overlap, Faults \subseteq {"bus", "page"}
  PROVE  Spec => []FailuresLock
<1>1. IInv /\ CountInv => FailuresLock
  <2> SUFFICES ASSUME IInv, CountInv, \A r \in Requests : Finished(r), wrong >= MaxAttempts
               PROVE  item.lockedUntil # None
    BY DEF FailuresLock
  <2>1. Counted(item) /\ Consistent(item)
    BY DEF IInv, CopiesConsistent, Copies, CountInv, CountKept, Finished
  <2>2. QED
    BY <2>1 DEF Counted, Consistent
<1>2. Spec => []CountInv
  BY CountInvHolds DEF Lossless, Serial
<1>3. QED
  BY <1>1, <1>2, IInvHolds, PTL

-----------------------------------------------------------------------------
(* Refinement of LoginLock.                                                  *)

\* While a copy is about to be stored, its lock is the one in force.
LEMMA LockOfWriter ==
  ASSUME OneAtATime, NEW r \in Requests, Writing(r)
  PROVE  LockInForce = job[r].user.lockedUntil
<1>1. \A s \in Requests : Writing(s) => s = r
  BY DEF OneAtATime, Writing, Finished
<1>2. (CHOOSE s \in Requests : Writing(s)) = r
  BY <1>1
<1>3. QED
  BY <1>2 DEF LockInForce

\* Otherwise it is the item's.
LEMMA LockOfItem ==
  ASSUME \A r \in Requests : ~Writing(r)
  PROVE  LockInForce = item.lockedUntil
  BY DEF LockInForce

\* Every step is a failure, a login or the passing of time in LoginLock, or
\* nothing there.
LEMMA LoginLockStep ==
  ASSUME Lossless, IInv, CountInv, [Next]_vars
  PROVE  [Lock!LockNext]_(Lock!lockVars)
<1> DEFINE Goal == Lock!LockNext \/ UNCHANGED <<wrong, LockInForce, now>>
<1> SUFFICES Goal
  BY DEF Lock!lockVars
<1>0. TypeOK /\ item \in User /\ now \in Nat
  BY ServiceAssumption DEF IInv, TypeOK, Time
<1>a. CountInv' /\ OneAtATime /\ OneAtATime'
  BY CountStep DEF CountInv, SerialInv
<1>1. ASSUME NEW r \in Requests, Begins(r) PROVE Goal
  <2>1. /\ \A s \in Requests : ~Writing(s)
        /\ \A s \in Requests : Writing(s)' => s = r
        /\ Readable = {item} /\ item' = item /\ now' = now
    BY <1>1, BeginsSerial DEF Lossless, Writing, Finished
  <2>2. LockInForce = item.lockedUntil
    BY <2>1, LockOfItem
  <2>3. item.attempts = wrong
    BY <1>1, BeginsSerial DEF Lossless, CountInv, CountKept, Counted, Finished
  <2>4. CASE HoldsBack(r) \/ Succeeds(r)
    <3>1. \A s \in Requests : ~Writing(s)'
      BY <2>1, <2>4 DEF HoldsBack, Succeeds, Writing
    <3>2. LockInForce' = item'.lockedUntil
      BY <3>1 DEF LockInForce
    <3>3. QED
      BY <2>1, <2>2, <2>4, <3>2 DEF HoldsBack, Succeeds
  <2>5. CASE Fails(r)
    <3>1. /\ Writing(r)' /\ wrong' = wrong + 1
          /\ ~IsLocked(item, now) /\ job'[r].user = RecordFailedLogin(item, now)
      BY <2>1, <2>5 DEF Fails, Writing
    <3>2. LockInForce' = job'[r].user.lockedUntil
      <4>1. (CHOOSE s \in Requests : Writing(s)') = r
        BY <2>1, <3>1
      <4>2. QED
        BY <3>1, <4>1 DEF LockInForce
    <3>3. item.lockedUntil <= now
      BY <1>0, <3>1 DEF IsLocked, None, User
    <3>4. job'[r].user.lockedUntil = IF wrong + 1 >= MaxAttempts THEN now + LockPeriod
                                                                 ELSE item.lockedUntil
      BY <1>0, <2>3, <3>1 DEF RecordFailedLogin, User
    <3>5. Lock!Fail
      BY <2>1, <2>2, <3>1, <3>2, <3>3, <3>4 DEF Lock!Fail
    <3>6. QED
      BY <3>5 DEF Lock!LockNext
  <2>6. CASE Alters(r)
    <3>1. Writing(r)' /\ wrong' = wrong /\ job'[r].user.lockedUntil = item.lockedUntil
      BY <2>1, <2>6 DEF Alters, Writing, KeepsLock
    <3>2. LockInForce' = job'[r].user.lockedUntil
      <4>1. (CHOOSE s \in Requests : Writing(s)') = r
        BY <2>1, <3>1
      <4>2. QED
        BY <3>1, <4>1 DEF LockInForce
    <3>3. QED
      BY <2>1, <2>2, <3>1, <3>2
  <2>7. QED
    BY <1>1, <2>4, <2>5, <2>6 DEF Begins
<1>2. ASSUME NEW r \in Requests, GoesOn(r) PROVE Goal
  <2>1. \A s \in Requests : ~Writing(s)'
    BY <1>0, <1>2, <1>a, GoesOnSerial DEF Writing
  <2>2. LockInForce' = item'.lockedUntil
    BY <2>1 DEF LockInForce
  <2>3. \A s \in Requests \ {r} : ~Writing(s)
    BY <1>0, <1>2, <1>a, GoesOnSerial DEF Writing, Finished
  <2>4. CASE Commit(r) /\ LogsIn(r)
    <3>1. /\ pc[r] = "write" /\ item' = job[r].user /\ wrong' = 0 /\ now' = now
          /\ job[r].user \in User /\ Consistent(job[r].user)
      BY <2>4 DEF Commit, Store, LogsIn, IInv, TypeOK, Job, CopiesConsistent, Copies
    <3>2. job[r].user.attempts = 0 /\ item.lockedUntil <= now
      BY <2>4, <3>1 DEF CountInv, CountKept
    <3>3. LockInForce = item.lockedUntil
      BY <2>3, <2>4, LockOfItem DEF Writing
    <3>4. item'.lockedUntil = 0
      BY <3>1, <3>2, EntityAssumption DEF Consistent, None
    <3>5. Lock!Succeed
      BY <2>2, <3>1, <3>2, <3>3, <3>4 DEF Lock!Succeed
    <3>6. QED
      BY <3>5 DEF Lock!LockNext
  <2>5. CASE Commit(r) /\ ~LogsIn(r)
    <3>1. Writing(r) /\ item' = job[r].user /\ wrong' = wrong /\ now' = now
      BY <2>5 DEF Commit, Store, LogsIn, Writing
    <3>2. LockInForce = job[r].user.lockedUntil
      BY <1>a, <3>1, LockOfWriter
    <3>3. QED
      BY <2>2, <3>1, <3>2
  <2>6. CASE Publish(r) \/ PublishRaises(r)
    <3>1. ~Writing(r) /\ item' = item /\ wrong' = wrong /\ now' = now
      BY <2>6 DEF Publish, PublishRaises, Writing
    <3>2. LockInForce = item.lockedUntil
      BY <2>3, <3>1, LockOfItem
    <3>3. QED
      BY <2>2, <3>1, <3>2
  <2>7. QED
    BY <1>2, <2>4, <2>5, <2>6 DEF GoesOn, Lossless, CommitRaises, Crash
<1>3. CASE Tick
  <2>1. LockInForce' = LockInForce
    BY <1>3 DEF Tick, requestVars, LockInForce, Writing, LogsIn
  <2>2. Lock!Pass
    BY <1>3, <2>1 DEF Tick, Lock!Pass
  <2>3. QED
    BY <2>2 DEF Lock!LockNext
<1>4. CASE Replicate \/ UNCHANGED vars
  BY <1>4 DEF Replicate, vars, requestVars, LockInForce, Writing, LogsIn
<1>5. QED
  BY <1>1, <1>2, <1>3, <1>4, HandlersBegin DEF Next, GoesOn

\* Where requests come one after another and no write is lost, the services and
\* the entity implement LoginLock, with all the other operations of the account
\* as stutters: none of them shortens a lock or forgets a failure.
THEOREM LoginLockImplemented ==
  ASSUME ~Overlap, Faults \subseteq {"bus", "page"}
  PROVE  Spec => ImplementsLoginLock
<1>1. Init => Lock!LockInit
  <2> SUFFICES ASSUME Init PROVE Lock!LockInit
    OBVIOUS
  <2>1. wrong = 0 /\ now = 1 /\ item.lockedUntil = 0 /\ \A r \in Requests : ~Writing(r)
    BY NewAccountUnlocked DEF Init, Writing
  <2>2. QED
    BY <2>1, LockOfItem DEF Lock!LockInit
<1>2. Lossless
  BY DEF Lossless, Serial
<1>3. IInv /\ CountInv /\ [Next]_vars => [Lock!LockNext]_(Lock!lockVars)
  BY <1>2, LoginLockStep
<1>4. Spec => []CountInv
  BY <1>2, CountInvHolds
<1>5. QED
  BY <1>1, <1>3, <1>4, IInvHolds, PTL DEF Spec, ImplementsLoginLock, Lock!LockSafety
=============================================================================
