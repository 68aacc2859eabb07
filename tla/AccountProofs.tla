---------------------------- MODULE AccountProofs ----------------------------
(* Proofs about AccountService, for every set of requests, passwords and    *)
(* roles, every limit and every combination of faults.                      *)
EXTENDS AccountService, FiniteSetTheorems, TLAPS

-----------------------------------------------------------------------------
(* The entity: which of its operations keep the record a User, keep it      *)
(* consistent and keep its password.                                        *)

\* The operations of user.py keep the types of the fields; ResetPassword is the
\* only one that brings in a password.
LEMMA EntityTypes ==
  ASSUME NEW u \in User, NEW n \in Time, NEW t \in Nat, NEW new \in Hash
  PROVE  /\ ResetPassword(u, new, n) \in User
         /\ \A v \in {Activate(u, n), Deactivate(u, n), UpdateProfile(u, n),
                      RequirePasswordChange(u, n), RecordFailedLogin(u, n),
                      RecordSuccessfulLogin(u), VerifyEmail(u),
                      GenerateVerificationToken(u, t)} :
              v \in User /\ v.password = u.password
<1> USE EntityAssumption DEF User, UserStatus, Time
<1>1. Activate(u, n) \in User /\ Activate(u, n).password = u.password
  BY DEF Activate
<1>2. Deactivate(u, n) \in User /\ Deactivate(u, n).password = u.password
  BY DEF Deactivate
<1>3. UpdateProfile(u, n) \in User /\ UpdateProfile(u, n).password = u.password
  BY DEF UpdateProfile
<1>4. /\ RequirePasswordChange(u, n) \in User
      /\ RequirePasswordChange(u, n).password = u.password
  BY DEF RequirePasswordChange
<1>5. RecordFailedLogin(u, n) \in User /\ RecordFailedLogin(u, n).password = u.password
  <2>1. /\ (IF u.attempts + 1 >= MaxAttempts THEN n + LockPeriod ELSE u.lockedUntil) \in Nat
        /\ u.attempts + 1 \in Nat
    OBVIOUS
  <2>2. QED
    BY <2>1 DEF RecordFailedLogin
<1>6. RecordSuccessfulLogin(u) \in User /\ RecordSuccessfulLogin(u).password = u.password
  BY DEF RecordSuccessfulLogin, None
<1>7. VerifyEmail(u) \in User /\ VerifyEmail(u).password = u.password
  BY DEF VerifyEmail, None
<1>8. /\ GenerateVerificationToken(u, t) \in User
      /\ GenerateVerificationToken(u, t).password = u.password
  BY DEF GenerateVerificationToken
<1>9. ResetPassword(u, new, n) \in User
  BY DEF ResetPassword, Activate
<1>10. QED
  BY <1>1, <1>2, <1>3, <1>4, <1>5, <1>6, <1>7, <1>8, <1>9

\* They keep a consistent record consistent at the time they run, a new token
\* being made for accounts that wait for their verification only.
LEMMA EntityConsistency ==
  ASSUME NEW u \in User, now \in Time, NEW t \in Nat, NEW new \in Hash,
         Consistent(u)
  PROVE  /\ \A v \in {Activate(u, now), Deactivate(u, now), UpdateProfile(u, now),
                      RequirePasswordChange(u, now), RecordFailedLogin(u, now),
                      RecordSuccessfulLogin(u), VerifyEmail(u),
                      ResetPassword(u, new, now)} : Consistent(v)
         /\ u.status = "pending_verification" => Consistent(GenerateVerificationToken(u, t))
<1> USE EntityAssumption DEF User, UserStatus, Time, Consistent
<1>1. Consistent(Activate(u, now))
  BY DEF Activate
<1>2. Consistent(Deactivate(u, now))
  BY DEF Deactivate
<1>3. Consistent(UpdateProfile(u, now))
  BY DEF UpdateProfile
<1>4. Consistent(RequirePasswordChange(u, now))
  BY DEF RequirePasswordChange
<1>5. Consistent(RecordFailedLogin(u, now))
  BY DEF RecordFailedLogin, None
<1>6. Consistent(RecordSuccessfulLogin(u))
  BY DEF RecordSuccessfulLogin, None
<1>7. Consistent(VerifyEmail(u))
  BY DEF VerifyEmail, None
<1>8. Consistent(ResetPassword(u, new, now))
  BY DEF ResetPassword, Activate
<1>9. ASSUME u.status = "pending_verification"
      PROVE  Consistent(GenerateVerificationToken(u, t))
  BY <1>9 DEF GenerateVerificationToken
<1> HIDE DEF User, Consistent
<1>10. QED
  BY <1>1, <1>2, <1>3, <1>4, <1>5, <1>6, <1>7, <1>8, <1>9

\* Roles come and go without disturbing anything else.
LEMMA RoleOps ==
  ASSUME NEW u \in User, now \in Time, NEW role \in Roles, Consistent(u)
  PROVE  \A v \in {AssignRole(u, role, now), RemoveRole(u, role, now)} :
           v \in User /\ v.password = u.password /\ Consistent(v)
<1> USE DEF User, Time
<1>1. AssignRole(u, role, now) \in User /\ AssignRole(u, role, now).password = u.password
  BY DEF AssignRole
<1>2. RemoveRole(u, role, now) \in User /\ RemoveRole(u, role, now).password = u.password
  BY DEF RemoveRole
<1>3. Consistent(AssignRole(u, role, now))
  BY DEF AssignRole, Consistent
<1>4. Consistent(RemoveRole(u, role, now))
  BY DEF RemoveRole, Consistent
<1> HIDE DEF User
<1>5. QED
  BY <1>1, <1>2, <1>3, <1>4

\* There is a first password.
LEMMA FirstHashType == FirstHash \in Hash
  BY EntityAssumption DEF FirstHash, Hash

\* What register stores, verified or not, and what the migration puts, is a
\* consistent account with the first password.
LEMMA NewAccount ==
  /\ NewUser(1, 1) \in User
  /\ \A u \in {NewUser(1, 1), VerifyEmail(NewUser(1, 1))}
              \union {MigratedUser(status, 1) : status \in UserStatus} :
       /\ u \in User /\ u.password = FirstHash /\ u.attempts = 0 /\ u.lockedUntil = 0
       /\ now = 1 => Consistent(u)
<1> DEFINE Fresh(u) == /\ u \in User /\ u.password = FirstHash
                       /\ u.attempts = 0 /\ u.lockedUntil = 0
                       /\ now = 1 => Consistent(u)
<1>1. Fresh(NewUser(1, 1))
  BY FirstHashType, EntityAssumption DEF NewUser, User, UserStatus, Time, None, Consistent
<1>2. Fresh(VerifyEmail(NewUser(1, 1)))
  <2>1. VerifyEmail(NewUser(1, 1)) \in User
    BY <1>1 DEF VerifyEmail, User, UserStatus, None
  <2>2. /\ VerifyEmail(NewUser(1, 1)).password = FirstHash
        /\ VerifyEmail(NewUser(1, 1)).attempts = 0 /\ VerifyEmail(NewUser(1, 1)).lockedUntil = 0
    BY <1>1 DEF VerifyEmail, User, None
  <2>3. now = 1 => Consistent(VerifyEmail(NewUser(1, 1)))
    BY EntityAssumption DEF VerifyEmail, NewUser, Consistent, None
  <2>4. QED
    BY <2>1, <2>2, <2>3
<1>3. ASSUME NEW status \in UserStatus PROVE Fresh(MigratedUser(status, 1))
  <2>0. NewUser(None, 1) \in User
    BY FirstHashType, EntityAssumption DEF NewUser, User, UserStatus, Time, None
  <2>1. MigratedUser(status, 1) \in User
    BY <2>0, <1>3 DEF MigratedUser, User
  <2>2. /\ MigratedUser(status, 1).password = FirstHash
        /\ MigratedUser(status, 1).attempts = 0 /\ MigratedUser(status, 1).lockedUntil = 0
    BY DEF MigratedUser, NewUser, None
  <2>3. now = 1 => Consistent(MigratedUser(status, 1))
    BY EntityAssumption DEF MigratedUser, NewUser, Consistent, None
  <2>4. QED
    BY <2>1, <2>2, <2>3
<1> HIDE DEF Fresh
<1>4. \A u \in {NewUser(1, 1), VerifyEmail(NewUser(1, 1))}
               \union {MigratedUser(status, 1) : status \in UserStatus} : Fresh(u)
  BY <1>1, <1>2, <1>3
<1>5. QED
  BY <1>1, <1>4 DEF Fresh

-----------------------------------------------------------------------------
(* Jobs.  Every handler leaves its request with a plan: a job of the right   *)
(* type whose copy, if it is to be written, is consistent and has a password  *)
(* that was in force once or comes with its event and a salt of its own.     *)

Covered(r, u, how, event) ==
  "auth" \in Wired =>
    IF how = "transact" /\ event = "password_changed" THEN u.password.salt = r
                                                      ELSE u.password \in inForce

Plan(r) ==
  \E p \in {"write", "publish", "answered"}, j \in Job :
    /\ pc' = [pc EXCEPT ![r] = p]
    /\ job' = [job EXCEPT ![r] = j]
    /\ p = "write" => Consistent(j.user) /\ Covered(r, j.user, j.how, j.event)
    /\ p = "publish" => j.publish # <<>>

\* The empty job is a job.
LEMMA NoJobType == NoJob \in Job
<1>1. <<>> \in Seq(Events)
  OBVIOUS
<1>2. NewUser(1, 1) \in User
  BY NewAccount
<1>3. QED
  BY <1>1, <1>2 DEF NoJob, Job, CriticalEvents, Answers

\* An answer is a plan with nothing to write.
LEMMA ReplyPlans ==
  ASSUME NEW r \in Requests, NEW op \in AllOperations \union {"none"},
         NEW a \in Answers, Reply(r, op, a)
  PROVE  Plan(r)
<1>1. [NoJob EXCEPT !.op = op, !.answer = a] \in Job
  BY NoJobType DEF Job
<1>2. QED
  BY <1>1 DEF Reply, Plan

\* A write of a consistent copy with a password that was in force is a plan.
LEMMA WritePlans ==
  ASSUME NEW r \in Requests, NEW op \in AllOperations, NEW u \in User,
         NEW events \in Seq(Events), NEW a \in Answers,
         Consistent(u), "auth" \in Wired => u.password \in inForce,
         Write(r, op, u, events, a)
  PROVE  Plan(r)
<1> DEFINE j == [NoJob EXCEPT !.op = op, !.user = u, !.how = "put",
                              !.publish = events, !.answer = a]
<1>1. j \in Job
  BY NoJobType DEF Job
<1>2. j.user = u /\ j.how = "put"
  BY NoJobType DEF Job
<1>3. QED
  BY <1>1, <1>2 DEF Write, Plan, Covered

\* So is a write with a critical event, which a new password has to come with.
LEMMA WriteWithEventPlans ==
  ASSUME NEW r \in Requests, NEW op \in AllOperations, NEW service, NEW u \in User,
         NEW event \in CriticalEvents, NEW a \in Answers, Consistent(u),
         "auth" \in Wired =>
           IF event = "password_changed" THEN service = "auth" /\ u.password.salt = r
                                         ELSE u.password \in inForce,
         WriteWithEvent(r, op, service, u, event, a)
  PROVE  Plan(r)
<1>1. CASE service \in Wired
  <2> DEFINE j == [NoJob EXCEPT !.op = op, !.user = u, !.how = "transact",
                                !.event = event, !.answer = a]
  <2>1. j \in Job
    BY NoJobType DEF Job
  <2>2. j.user = u /\ j.how = "transact" /\ j.event = event
    BY NoJobType DEF Job
  <2>3. QED
    BY <1>1, <2>1, <2>2 DEF WriteWithEvent, Plan, Covered
<1>2. CASE service \notin Wired
  <2>1. Write(r, op, u, <<event>>, a)
    BY <1>2 DEF WriteWithEvent
  <2>2. <<event>> \in Seq(Events)
    BY DEF CriticalEvents, Events
  <2>3. "auth" \in Wired => u.password \in inForce
    BY <1>2
  <2>4. QED
    BY <2>1, <2>2, <2>3, WritePlans
<1>3. QED
  BY <1>1, <1>2

\* A job with events only has nothing to write.
LEMMA PublishOnlyPlans ==
  ASSUME NEW r \in Requests, NEW op \in AllOperations, NEW events \in Seq(Events),
         NEW a \in Answers, events # <<>>, PublishOnly(r, op, events, a)
  PROVE  Plan(r)
<1> DEFINE j == [NoJob EXCEPT !.op = op, !.publish = events, !.answer = a]
<1>1. j \in Job /\ j.publish = events
  BY NoJobType DEF Job
<1>2. QED
  BY <1>1 DEF PublishOnly, Plan

\* What any read returns is a consistent account with a password that is, or
\* was, in force.
LEMMA ReadableFacts ==
  ASSUME IInv, NEW u \in Readable
  PROVE  u \in User /\ Consistent(u) /\ ("auth" \in Wired => u.password \in inForce)
  BY DEF IInv, TypeOK, Readable, CopiesConsistent, Copies, CopiesRecorded

\* Making a plan, and nothing else, preserves the invariant.
LEMMA PlanStep ==
  ASSUME IInv, NEW r \in Requests, Plan(r), ReadOnly,
         pc[r] = "new" \/ pc'[r] = "answered",
         issued' \in Seq(Time), wrong' \in Nat
  PROVE  IInv'
<1>1. PICK p \in {"write", "publish", "answered"}, j \in Job :
        /\ pc' = [pc EXCEPT ![r] = p]
        /\ job' = [job EXCEPT ![r] = j]
        /\ p = "write" => Consistent(j.user) /\ Covered(r, j.user, j.how, j.event)
        /\ p = "publish" => j.publish # <<>>
  BY DEF Plan
<1>2. UNCHANGED <<item, replica, outbox, published, now, inForce>>
  BY DEF ReadOnly
<1>3. TypeOK'
  BY <1>1, <1>2 DEF IInv, TypeOK
<1>4. /\ pc'[r] = p /\ job'[r] = j
      /\ \A s \in Requests \ {r} : pc'[s] = pc[s] /\ job'[s] = job[s]
  BY <1>1 DEF IInv, TypeOK
<1>5. \A u : Consistent(u)' <=> Consistent(u)
  BY <1>2 DEF Consistent
<1>6. CopiesConsistent'
  BY <1>1, <1>2, <1>4, <1>5 DEF IInv, CopiesConsistent, Copies
<1>7. "auth" \in Wired => CopiesRecorded'
  BY <1>1, <1>2, <1>4 DEF IInv, CopiesRecorded, BringsItsEvent, Covered
<1>8. "auth" \in Wired => SaltsAreFresh'
  BY <1>2, <1>4 DEF IInv, SaltsAreFresh
<1>9. SomethingToPublish' /\ PasswordChangeIsRecorded'
  BY <1>1, <1>2, <1>4 DEF IInv, SomethingToPublish, PasswordChangeIsRecorded
<1>10. QED
  BY <1>3, <1>6, <1>7, <1>8, <1>9 DEF IInv

-----------------------------------------------------------------------------
(* Handlers. *)

\* Whatever AuthService plans keeps the invariant.
LEMMA AuthHandlerStep ==
  ASSUME IInv, NEW r \in Requests, AuthHandler(r)
  PROVE  IInv'
<1> USE DEF Answers, AllOperations
<1> DEFINE Goal == Plan(r) /\ ReadOnly /\ issued' \in Seq(Time) /\ wrong' \in Nat
<1>a. now \in Time /\ issued \in Seq(Time) /\ wrong \in Nat /\ Len(issued) + 1 \in Nat
  BY ServiceAssumption DEF IInv, TypeOK, Time
<1>1. ASSUME NEW password \in Passwords, Authenticate(r, password) PROVE Goal
  <2>1. PICK u \in Readable :
          \/ \E a \in Answers : Reply(r, "authenticate", a) /\ wrong' = wrong
          \/ LET f == RecordFailedLogin(u, now)
             IN  /\ Write(r, "authenticate", f, FailureEvents(f),
                          IF IsLocked(f, now) THEN "AccountLocked" ELSE "InvalidCredentials")
                 /\ wrong' = wrong + 1
          \/ /\ Write(r, "authenticate", RecordSuccessfulLogin(u), <<"login_success">>, "tokens")
             /\ wrong' = wrong
    BY <1>1 DEF Authenticate
  <2>2. CASE \E a \in Answers : Reply(r, "authenticate", a) /\ wrong' = wrong
    BY <1>1, <1>a, <2>2, ReplyPlans DEF Authenticate
  <2>3. CASE LET f == RecordFailedLogin(u, now)
             IN  /\ Write(r, "authenticate", f, FailureEvents(f),
                          IF IsLocked(f, now) THEN "AccountLocked" ELSE "InvalidCredentials")
                 /\ wrong' = wrong + 1
    <3> DEFINE f == RecordFailedLogin(u, now)
    <3>1. f \in User /\ Consistent(f) /\ f.password = u.password
      BY <1>a, ReadableFacts, EntityTypes, EntityConsistency, FirstHashType
    <3>2. FailureEvents(f) \in Seq(Events)
      <4>1. /\ <<"login_failed">> \in Seq(Events)
            /\ <<"login_failed", "account_locked">> \in Seq(Events)
        BY DEF Events
      <4>2. QED
        BY <4>1 DEF FailureEvents
    <3>3. "auth" \in Wired => f.password \in inForce
      BY <3>1, ReadableFacts
    <3> HIDE DEF f
    <3>4. Plan(r)
      BY <2>3, <3>1, <3>2, <3>3, WritePlans DEF f
    <3>5. QED
      BY <1>1, <1>a, <2>3, <3>4 DEF Authenticate
  <2>4. CASE /\ Write(r, "authenticate", RecordSuccessfulLogin(u), <<"login_success">>, "tokens")
             /\ wrong' = wrong
    <3> DEFINE f == RecordSuccessfulLogin(u)
    <3>1. f \in User /\ Consistent(f) /\ f.password = u.password
      BY <1>a, ReadableFacts, EntityTypes, EntityConsistency, FirstHashType
    <3>2. <<"login_success">> \in Seq(Events)
      BY DEF Events
    <3>3. "auth" \in Wired => f.password \in inForce
      BY <3>1, ReadableFacts
    <3> HIDE DEF f
    <3>4. Plan(r)
      BY <2>4, <3>1, <3>2, <3>3, WritePlans DEF f
    <3>5. QED
      BY <1>1, <1>a, <2>4, <3>4 DEF Authenticate
  <2>5. QED
    BY <2>1, <2>2, <2>3, <2>4
<1>2. ASSUME Refresh(r) PROVE Goal
  BY <1>2, <1>a, ReplyPlans DEF Refresh
<1>3. ASSUME ForgotPassword(r) PROVE Goal
  <2>1. <<"password_reset_requested">> \in Seq(Events)
    BY DEF Events
  <2>2. QED
    BY <1>3, <1>a, <2>1, PublishOnlyPlans DEF ForgotPassword
<1>4. ASSUME NEW new \in Passwords, NEW strong \in BOOLEAN,
             ResetPasswordRequest(r, new, strong)
      PROVE  Goal
  <2>1. CASE strong
    <3>1. PICK u \in Readable :
            WriteWithEvent(r, "reset_password", "auth",
                           ResetPassword(u, [of |-> new, salt |-> r], now),
                           "password_changed", "ok")
      BY <1>4, <2>1 DEF ResetPasswordRequest
    <3> DEFINE hash == [of |-> new, salt |-> r]
               f == ResetPassword(u, hash, now)
    <3>a. hash \in Hash /\ hash.salt = r
      BY ServiceAssumption DEF Hash
    <3>b. u \in User /\ Consistent(u)
      BY ReadableFacts
    <3> HIDE DEF hash
    <3>2. f \in User /\ Consistent(f)
      BY <1>a, <3>a, <3>b, EntityTypes, EntityConsistency
    <3>c. f.password = hash
      BY <3>b DEF ResetPassword, Activate, User
    <3> HIDE DEF f
    <3>3. Plan(r)
      BY <3>1, <3>2, <3>a, <3>c, WriteWithEventPlans DEF f, hash, CriticalEvents
    <3>4. QED
      BY <1>4, <1>a, <3>3 DEF ResetPasswordRequest
  <2>2. CASE ~strong
    BY <1>4, <1>a, <2>2, ReplyPlans DEF ResetPasswordRequest
  <2>3. QED
    BY <2>1, <2>2
<1>5. ASSUME NEW t \in 1..Len(issued), VerifyEmailRequest(r, t) PROVE Goal
  <2>1. \/ \E a \in Answers : Reply(r, "verify_email", a)
        \/ \E u \in Readable : Write(r, "verify_email", VerifyEmail(u), <<"activated">>, "ok")
    BY <1>5 DEF VerifyEmailRequest
  <2>2. CASE \E a \in Answers : Reply(r, "verify_email", a)
    BY <1>5, <1>a, <2>2, ReplyPlans DEF VerifyEmailRequest
  <2>3. ASSUME NEW u \in Readable,
               Write(r, "verify_email", VerifyEmail(u), <<"activated">>, "ok")
        PROVE  Goal
    <3> DEFINE f == VerifyEmail(u)
    <3>1. f \in User /\ Consistent(f) /\ f.password = u.password
      BY <1>a, ReadableFacts, EntityTypes, EntityConsistency, FirstHashType
    <3>2. <<"activated">> \in Seq(Events)
      BY DEF Events
    <3>3. "auth" \in Wired => f.password \in inForce
      BY <3>1, ReadableFacts
    <3> HIDE DEF f
    <3>4. Plan(r)
      BY <2>3, <3>1, <3>2, <3>3, WritePlans DEF f
    <3>5. QED
      BY <1>5, <1>a, <3>4 DEF VerifyEmailRequest
  <2>4. QED
    BY <2>1, <2>2, <2>3
<1>6. ASSUME ResendVerification(r) PROVE Goal
  <2>1. PICK u \in Readable :
          \/ /\ u.status = "pending_verification"
             /\ issued' = Append(issued, now)
             /\ Write(r, "resend_verification",
                      GenerateVerificationToken(u, Len(issued) + 1),
                      <<"verification_requested">>, "ok")
          \/ /\ Reply(r, "resend_verification", "ok")
             /\ UNCHANGED issued
    BY <1>6 DEF ResendVerification
  <2>2. CASE /\ u.status = "pending_verification"
             /\ issued' = Append(issued, now)
             /\ Write(r, "resend_verification",
                      GenerateVerificationToken(u, Len(issued) + 1),
                      <<"verification_requested">>, "ok")
    <3> DEFINE f == GenerateVerificationToken(u, Len(issued) + 1)
    <3>1. f \in User /\ Consistent(f) /\ f.password = u.password
      BY <1>a, <2>2, ReadableFacts, EntityTypes, EntityConsistency, FirstHashType
    <3>2. <<"verification_requested">> \in Seq(Events)
      BY DEF Events
    <3>3. "auth" \in Wired => f.password \in inForce
      BY <3>1, ReadableFacts
    <3> HIDE DEF f
    <3>4. Plan(r)
      BY <2>2, <3>1, <3>2, <3>3, WritePlans DEF f
    <3>5. issued' \in Seq(Time)
      BY <1>a, <2>2
    <3>6. QED
      BY <1>6, <1>a, <3>4, <3>5 DEF ResendVerification
  <2>3. CASE Reply(r, "resend_verification", "ok") /\ UNCHANGED issued
    BY <1>6, <1>a, <2>3, ReplyPlans DEF ResendVerification
  <2>4. QED
    BY <2>1, <2>2, <2>3
<1>7. Goal
  BY <1>1, <1>2, <1>3, <1>4, <1>5, <1>6 DEF AuthHandler
<1>8. pc[r] = "new"
  BY DEF AuthHandler, Arrives, Authenticate, Refresh, ForgotPassword, ResetPasswordRequest,
         VerifyEmailRequest, ResendVerification
<1>9. QED
  BY <1>7, <1>8, PlanStep

\* Writing back a copy that some operation made of a record read before, with
\* whatever events, is a plan.
LEMMA UserServicePlans ==
  ASSUME IInv, NEW r \in Requests, NEW op \in AllOperations, NEW u \in Readable,
         NEW v \in User, Consistent(v), v.password = u.password,
         NEW events \in Seq(Events), UserServiceWrite(r, op, v, events)
  PROVE  Plan(r)
<1>1. "auth" \in Wired => v.password \in inForce
  BY ReadableFacts
<1>2. QED
  BY <1>1, WritePlans DEF UserServiceWrite, Answers

\* Whatever UserService plans keeps the invariant.
LEMMA UserHandlerStep ==
  ASSUME IInv, NEW r \in Requests, UserHandler(r)
  PROVE  IInv'
<1> USE DEF AllOperations
<1> DEFINE Goal == Plan(r) /\ ReadOnly /\ issued' \in Seq(Time) /\ wrong' \in Nat
<1>a. now \in Time /\ issued \in Seq(Time) /\ wrong \in Nat
  BY ServiceAssumption DEF IInv, TypeOK, Time
<1>b. /\ <<"updated">> \in Seq(Events) /\ <<"role_changed">> \in Seq(Events)
      /\ <<"deactivated">> \in Seq(Events) /\ <<"activated">> \in Seq(Events)
      /\ <<>> \in Seq(Events)
  BY DEF Events
<1>c. ASSUME NEW u \in Readable
      PROVE  \A v \in {Activate(u, now), Deactivate(u, now), UpdateProfile(u, now),
                       RequirePasswordChange(u, now)} :
               v \in User /\ v.password = u.password /\ Consistent(v)
  BY <1>a, ReadableFacts, EntityTypes, EntityConsistency, FirstHashType
<1>d. ASSUME NEW op \in AllOperations, NEW u \in Readable, NEW v \in User, Consistent(v),
             v.password = u.password, NEW events \in Seq(Events),
             UserServiceWrite(r, op, v, events)
      PROVE  Goal
  BY <1>a, <1>d, UserServicePlans DEF UserServiceWrite
<1>1. ASSUME UpdateProfileRequest(r) PROVE Goal
  BY <1>1, <1>b, <1>c, <1>d DEF UpdateProfileRequest
<1>2. ASSUME NEW role \in Roles, AssignRoleRequest(r, role) \/ RemoveRoleRequest(r, role)
      PROVE  Goal
  BY <1>2, <1>a, <1>b, <1>d, ReadableFacts, RoleOps
     DEF AssignRoleRequest, RemoveRoleRequest
<1>3. ASSUME DeactivateRequest(r) PROVE Goal
  <2>1. PICK u \in Readable :
          WriteWithEvent(r, "deactivate", "user", Deactivate(u, now), "deactivated", "ok")
    BY <1>3 DEF DeactivateRequest
  <2> DEFINE f == Deactivate(u, now)
  <2>2. f \in User /\ Consistent(f) /\ f.password = u.password
    BY <1>c
  <2>3. "auth" \in Wired => f.password \in inForce
    BY <2>2, ReadableFacts
  <2> HIDE DEF f
  <2>4. Plan(r)
    BY <2>1, <2>2, <2>3, WriteWithEventPlans DEF f, CriticalEvents, Answers
  <2>5. QED
    BY <1>3, <1>a, <2>4 DEF DeactivateRequest
<1>4. ASSUME SuspendUser(r) PROVE Goal
  BY <1>4, <1>b, <1>c, <1>d DEF SuspendUser
<1>5. ASSUME ActivateUser(r) PROVE Goal
  BY <1>5, <1>b, <1>c, <1>d DEF ActivateUser
<1>6. ASSUME RequirePasswordChangeRequest(r) PROVE Goal
  BY <1>6, <1>b, <1>c, <1>d DEF RequirePasswordChangeRequest
<1>7. ASSUME NEW op \in AllOperations, Refuse(r, op) PROVE Goal
  <2>1. Refusals(op) \union {"RepositoryError"} \subseteq Answers
    BY DEF Refusals, Answers
  <2>2. PICK a \in Answers : Reply(r, op, a)
    BY <1>7, <2>1 DEF Refuse
  <2>3. QED
    BY <1>7, <1>a, <2>2, ReplyPlans DEF Refuse
<1>8. Goal
  BY <1>1, <1>2, <1>3, <1>4, <1>5, <1>6, <1>7 DEF UserHandler
<1>9. pc[r] = "new"
  BY DEF UserHandler, Arrives, UpdateProfileRequest, AssignRoleRequest, RemoveRoleRequest,
         DeactivateRequest, SuspendUser, ActivateUser, RequirePasswordChangeRequest, Refuse
<1>10. QED
  BY <1>8, <1>9, PlanStep

-----------------------------------------------------------------------------
(* Steps that change the store, the bus and the clock. *)

\* What follows a write has nothing left to write.
LEMMA AfterWritePlans ==
  ASSUME TypeOK, NEW r \in Requests, AfterWrite(r)
  PROVE  \E p \in {"publish", "answered"}, j \in Job :
           /\ pc' = [pc EXCEPT ![r] = p] /\ job' = [job EXCEPT ![r] = j]
           /\ p = "publish" => j.publish # <<>>
<1>1. job[r].op \in AllOperations \union {"none"} /\ job[r].answer \in Answers
      /\ job[r].publish \in Seq(Events)
  BY DEF TypeOK, Job
<1>2. LET j == [NoJob EXCEPT !.op = job[r].op, !.publish = job[r].publish,
                             !.answer = job[r].answer]
      IN  j \in Job /\ j.publish = job[r].publish
  BY <1>1, NoJobType DEF Job
<1>3. [NoJob EXCEPT !.op = job[r].op, !.answer = job[r].answer] \in Job
  BY <1>1, NoJobType DEF Job
<1>4. QED
  BY <1>1, <1>2, <1>3 DEF AfterWrite, Reply

\* A password of the request's own, stored with its event, is one more of each;
\* any other has been in force before, and no event comes with it.
LEMMA StoreCounts ==
  ASSUME IInv, "auth" \in Wired, NEW r \in Requests, pc[r] = "write", Store(r)
  PROVE  /\ PasswordChangeIsRecorded'
         /\ IsFiniteSet(inForce') /\ inForce \subseteq inForce' /\ item'.password \in inForce'
         /\ \A h \in inForce' \ inForce : h.salt = r
<1> DEFINE h == job[r].user.password
<1>1. /\ CopiesRecorded /\ SaltsAreFresh /\ TypeOK
      /\ outbox["password_changed"] = Cardinality(inForce \ {FirstHash})
  BY DEF IInv, PasswordChangeIsRecorded
<1>2. inForce' = inForce \union {h} /\ item' = job[r].user
  BY DEF Store
<1>3. job[r].event \in CriticalEvents /\ "password_changed" \in CriticalEvents
  BY <1>1 DEF TypeOK, Job, CriticalEvents
<1>4. IsFiniteSet(inForce) /\ IsFiniteSet(inForce \ {FirstHash})
  BY <1>1, FS_Difference, FS_Singleton DEF SaltsAreFresh
<1>5. CASE BringsItsEvent(r)
  <2>1. h.salt = r /\ h \notin inForce /\ FirstHash \in inForce
    BY <1>1, <1>5 DEF CopiesRecorded, SaltsAreFresh
  <2>2. inForce' \ {FirstHash} = (inForce \ {FirstHash}) \union {h}
    BY <1>2, <2>1
  <2>3. Cardinality(inForce' \ {FirstHash}) = Cardinality(inForce \ {FirstHash}) + 1
    <3>1. h \notin inForce \ {FirstHash}
      BY <2>1
    <3> HIDE DEF h
    <3>2. QED
      BY <1>4, <2>2, <3>1, FS_AddElement
  <2>4. outbox'["password_changed"] = outbox["password_changed"] + 1
    BY <1>1, <1>3, <1>5 DEF Store, BringsItsEvent, TypeOK
  <2>5. IsFiniteSet(inForce')
    BY <1>2, <1>4, FS_AddElement
  <2>6. QED
    BY <1>1, <1>2, <2>1, <2>3, <2>4, <2>5 DEF PasswordChangeIsRecorded
<1>6. CASE ~BringsItsEvent(r)
  <2>1. inForce' = inForce
    BY <1>1, <1>2, <1>6 DEF CopiesRecorded
  <2>2. outbox'["password_changed"] = outbox["password_changed"]
    BY <1>1, <1>3, <1>6 DEF Store, BringsItsEvent, TypeOK
  <2>3. QED
    BY <1>1, <1>2, <1>4, <2>1, <2>2 DEF PasswordChangeIsRecorded
<1>7. QED
  BY <1>5, <1>6

\* A copy that was planned may be stored, with its event or not at all: it was
\* consistent, and the transaction records the password it brings in.
LEMMA WriteStep ==
  ASSUME IInv, NEW r \in Requests, pc[r] = "write",
         Store(r) \/ UNCHANGED <<item, inForce, outbox, wrong>>,
         NEW p \in {"publish", "answered"}, NEW j \in Job,
         pc' = [pc EXCEPT ![r] = p], job' = [job EXCEPT ![r] = j],
         p = "publish" => j.publish # <<>>,
         UNCHANGED <<replica, published, now, issued>>
  PROVE  IInv'
<1> USE DEF IInv
<1>1. job[r] \in Job /\ job[r].user \in User /\ job[r].event \in CriticalEvents
  BY DEF TypeOK, Job
<1>2. item' \in {item, job[r].user} /\ inForce' \subseteq Hash
  BY <1>1 DEF Store, TypeOK, User
<1>3. /\ outbox' \in [CriticalEvents -> Nat] /\ wrong' \in Nat
      /\ \A t \in CriticalEvents : outbox[t] \in Nat /\ outbox'[t] >= outbox[t]
  <2>1. outbox' \in {outbox, [outbox EXCEPT ![job[r].event] = @ + 1]} /\ wrong' \in {wrong, 0}
    BY DEF Store
  <2>2. [outbox EXCEPT ![job[r].event] = @ + 1] \in [CriticalEvents -> Nat]
    BY <1>1 DEF TypeOK
  <2>3. \A t \in CriticalEvents : outbox[t] \in Nat
    BY DEF TypeOK
  <2>4. outbox \in [CriticalEvents -> Nat] /\ wrong \in Nat
    BY DEF TypeOK
  <2>5. outbox' \in [CriticalEvents -> Nat] /\ wrong' \in Nat
    <3>1. outbox' \in [CriticalEvents -> Nat]
      BY <2>1, <2>2, <2>4, Zenon
    <3>2. QED
      BY <2>1, <2>4, <3>1
  <2>6. \A t \in CriticalEvents : outbox'[t] >= outbox[t]
    BY <1>1, <2>1, <2>3 DEF TypeOK
  <2>7. QED
    BY <2>3, <2>5, <2>6
<1>4. TypeOK'
  BY <1>1, <1>2, <1>3 DEF TypeOK
<1>5. /\ pc'[r] = p /\ job'[r] = j
      /\ \A s \in Requests \ {r} : pc'[s] = pc[s] /\ job'[s] = job[s]
  BY DEF TypeOK
<1>6. \A u : Consistent(u)' <=> Consistent(u)
  BY DEF Consistent
<1>7. CopiesConsistent'
  BY <1>2, <1>5, <1>6 DEF CopiesConsistent, Copies
<1>8. SomethingToPublish'
  BY <1>5 DEF SomethingToPublish
<1>9. /\ PasswordChangeIsRecorded'
      /\ "auth" \in Wired =>
           /\ IsFiniteSet(inForce') /\ inForce \subseteq inForce' /\ item'.password \in inForce'
           /\ \A h \in inForce' \ inForce : h.salt = r
  <2>1. CASE UNCHANGED <<item, inForce, outbox, wrong>>
    BY <2>1 DEF PasswordChangeIsRecorded, CopiesRecorded, SaltsAreFresh
  <2>2. CASE Store(r)
    BY <2>2, StoreCounts DEF PasswordChangeIsRecorded
  <2>3. QED
    BY <2>1, <2>2
<1>10. ASSUME "auth" \in Wired PROVE CopiesRecorded'
  <2>1. ASSUME NEW s \in Requests, pc'[s] = "write"
        PROVE  s # r /\ pc[s] = "write" /\ job'[s] = job[s]
    BY <1>5, <2>1
  <2>2. QED
    BY <1>9, <1>10, <2>1 DEF CopiesRecorded, BringsItsEvent
<1>11. ASSUME "auth" \in Wired PROVE SaltsAreFresh'
  <2>1. ASSUME NEW s \in Requests, pc'[s] \in {"new", "write"}, NEW h \in inForce'
        PROVE  h.salt # s
    <3>1. s # r /\ pc[s] \in {"new", "write"}
      BY <1>5, <2>1
    <3>2. QED
      BY <1>9, <1>11, <2>1, <3>1 DEF SaltsAreFresh
  <2>2. QED
    BY <1>9, <1>11, <2>1 DEF SaltsAreFresh
<1>12. QED
  BY <1>4, <1>7, <1>8, <1>9, <1>10, <1>11

\* A publish that returned, or did not, and the rest of the list after it.
LEMMA PublishStep ==
  ASSUME IInv, NEW r \in Requests, Publish(r) \/ PublishRaises(r)
  PROVE  IInv'
<1> USE DEF IInv
<1>1. /\ job[r] \in Job /\ job[r].publish \in Seq(Events) /\ job[r].publish # <<>>
      /\ job[r].op \in AllOperations \union {"none"} /\ job[r].answer \in Answers
  BY DEF TypeOK, Job, SomethingToPublish, Publish, PublishRaises
<1>2. \A s \in Requests : pc'[s] = "write" => pc[s] = "write" /\ job'[s] = job[s]
  BY DEF Publish, PublishRaises, Reply, TypeOK
<1>3. UNCHANGED <<item, replica, outbox, now, issued, inForce, wrong>>
  BY DEF Publish, PublishRaises
<1>4. pc' \in [Requests -> {"new", "write", "publish", "answered"}]
  BY DEF Publish, PublishRaises, Reply, TypeOK
<1>5. published' \in [Events -> Nat]
  <2>1. CASE UNCHANGED published
    BY <2>1 DEF TypeOK
  <2>2. CASE Take(Head(job[r].publish))
    <3>1. Head(job[r].publish) \in Events
      BY <1>1
    <3>2. QED
      BY <2>2, <3>1 DEF Take, TypeOK
  <2>3. QED
    BY <2>1, <2>2 DEF Publish, PublishRaises
<1>6. job' \in [Requests -> Job]
  <2>1. \A a \in Answers : [NoJob EXCEPT !.op = job[r].op, !.answer = a] \in Job
    BY <1>1, NoJobType DEF Job
  <2>2. CASE \E a \in Answers : Reply(r, job[r].op, a)
    BY <2>1, <2>2 DEF Reply, TypeOK
  <2>3. CASE job' = [job EXCEPT ![r].publish = Tail(@)]
    <3>1. Tail(job[r].publish) \in Seq(Events)
      BY <1>1
    <3>2. [job[r] EXCEPT !.publish = Tail(job[r].publish)] \in Job
      BY <1>1, <3>1 DEF Job
    <3>3. job' = [job EXCEPT ![r] = [job[r] EXCEPT !.publish = Tail(job[r].publish)]]
      BY <2>3
    <3>4. QED
      BY <3>2, <3>3 DEF TypeOK
  <2>4. QED
    BY <1>1, <2>2, <2>3 DEF Publish, PublishRaises, Answers
<1>7. TypeOK'
  BY <1>3, <1>4, <1>5, <1>6 DEF TypeOK
<1>8. CopiesConsistent'
  <2>1. \A u : Consistent(u)' <=> Consistent(u)
    BY <1>3 DEF Consistent
  <2>2. QED
    BY <1>2, <1>3, <2>1 DEF CopiesConsistent, Copies
<1>9. /\ PasswordChangeIsRecorded'
      /\ "auth" \in Wired => CopiesRecorded' /\ SaltsAreFresh'
  <2>1. \A s \in Requests : pc'[s] \in {"new", "write"} => pc[s] = pc'[s]
    BY DEF Publish, PublishRaises, Reply, TypeOK
  <2>2. QED
    BY <1>2, <1>3, <2>1 DEF PasswordChangeIsRecorded, CopiesRecorded, SaltsAreFresh, BringsItsEvent
<1>10. SomethingToPublish'
  <2>1. \A s \in Requests \ {r} : pc'[s] = pc[s] /\ job'[s] = job[s]
    BY DEF Publish, PublishRaises, Reply, TypeOK
  <2>2. CASE pc'[r] = "answered"
    BY <2>1, <2>2 DEF SomethingToPublish
  <2>3. CASE Len(job[r].publish) # 1 /\ job' = [job EXCEPT ![r].publish = Tail(@)]
    <3>1. Tail(job[r].publish) # <<>>
      <4>1. ASSUME NEW s \in Seq(Events), s # <<>>, Len(s) # 1 PROVE Tail(s) # <<>>
        <5>1. Len(s) \in Nat /\ Len(s) > 0
          BY <4>1
        <5>2. Len(Tail(s)) = Len(s) - 1
          BY <4>1, <5>1
        <5>3. Len(Tail(s)) # 0
          BY <4>1, <5>1, <5>2
        <5>4. Len(<<>>) = 0
          OBVIOUS
        <5>5. QED
          BY <5>3, <5>4, Zenon
      <4>2. QED
        BY <1>1, <2>3, <4>1
    <3>2. job'[r].publish = Tail(job[r].publish)
      BY <1>1, <2>3 DEF TypeOK, Job
    <3>3. QED
      BY <2>1, <3>1, <3>2 DEF SomethingToPublish
  <2>4. QED
    BY <2>2, <2>3 DEF Publish, PublishRaises, Reply, TypeOK
<1>11. QED
  BY <1>7, <1>8, <1>9, <1>10

\* Time only loosens the bounds on the stamps in a record.
LEMMA TickStep == IInv /\ Tick => IInv'
<1> SUFFICES ASSUME IInv, Tick PROVE IInv'
  OBVIOUS
<1> USE DEF IInv, Tick, requestVars
<1>1. TypeOK'
  BY ServiceAssumption DEF TypeOK, Time
<1>2. ASSUME NEW u \in User, Consistent(u) PROVE Consistent(u)'
  BY <1>2, EntityAssumption, ServiceAssumption DEF Consistent, TypeOK, User, Time
<1>3. Copies' = Copies
  BY DEF Copies
<1>4. Copies \subseteq User
  BY DEF Copies, TypeOK, Job
<1>5. CopiesConsistent'
  BY <1>2, <1>3, <1>4 DEF CopiesConsistent
<1>6. /\ PasswordChangeIsRecorded'
      /\ "auth" \in Wired => CopiesRecorded' /\ SaltsAreFresh'
  BY DEF PasswordChangeIsRecorded, CopiesRecorded, SaltsAreFresh, BringsItsEvent
<1>7. SomethingToPublish'
  BY DEF SomethingToPublish
<1>8. QED
  BY <1>1, <1>5, <1>6, <1>7

\* The older image a read may return becomes a newer one.
LEMMA ReplicateStep == IInv /\ Replicate => IInv'
<1> SUFFICES ASSUME IInv, Replicate PROVE IInv'
  OBVIOUS
<1> USE DEF IInv, Replicate, requestVars
<1>1. TypeOK'
  BY DEF TypeOK
<1>2. CopiesConsistent'
  BY DEF CopiesConsistent, Copies, Consistent
<1>3. /\ PasswordChangeIsRecorded'
      /\ "auth" \in Wired => CopiesRecorded' /\ SaltsAreFresh'
  BY DEF PasswordChangeIsRecorded, CopiesRecorded, SaltsAreFresh, BringsItsEvent
<1>4. SomethingToPublish'
  BY DEF SomethingToPublish
<1>5. QED
  BY <1>1, <1>2, <1>3, <1>4

-----------------------------------------------------------------------------
(* Theorems. *)

\* The strengthened invariant holds at the start.
LEMMA InitIInv == Init => IInv
<1> SUFFICES ASSUME Init PROVE IInv
  OBVIOUS
<1>1. /\ item \in User /\ item.password = FirstHash /\ Consistent(item) /\ replica = item
  BY NewAccount DEF Init, Start
<1>2. TypeOK
  <2>1. issued \in Seq(Time)
    <3>1. <<1>> \in Seq(Time) /\ <<>> \in Seq(Time)
      BY DEF Time
    <3>2. QED
      BY <3>1 DEF Init, Start
  <2>0. inForce \subseteq Hash
    BY FirstHashType DEF Init
  <2>2. now \in 1..MaxTime
    BY ServiceAssumption DEF Init, Time
  <2>3. job \in [Requests -> Job]
    BY NoJobType DEF Init
  <2>4. QED
    BY <1>1, <2>0, <2>1, <2>2, <2>3 DEF Init, TypeOK
<1>3. \A r \in Requests : pc[r] # "write"
  BY DEF Init
<1>4. CopiesConsistent
  BY <1>1, <1>3 DEF CopiesConsistent, Copies
<1>5. CopiesRecorded
  BY <1>1, <1>3 DEF CopiesRecorded, Init
<1>6. SaltsAreFresh
  <2>1. inForce = {FirstHash} /\ IsFiniteSet(inForce)
    BY FS_Singleton DEF Init
  <2>2. \A r \in Requests : FirstHash.salt # r
    BY ServiceAssumption DEF FirstHash
  <2>3. QED
    BY <2>1, <2>2 DEF SaltsAreFresh
<1>7. PasswordChangeIsRecorded
  <2>1. inForce \ {FirstHash} = {} /\ outbox["password_changed"] = 0
    BY DEF Init, CriticalEvents
  <2>2. QED
    BY <2>1, FS_EmptySet DEF PasswordChangeIsRecorded
<1>8. SomethingToPublish
  BY DEF Init, SomethingToPublish
<1>9. QED
  BY <1>2, <1>4, <1>5, <1>6, <1>7, <1>8 DEF IInv

\* Every step of the service preserves it.
LEMMA NextIInv == IInv /\ [Next]_vars => IInv'
<1> SUFFICES ASSUME IInv, [Next]_vars PROVE IInv'
  OBVIOUS
<1>1. ASSUME NEW r \in Requests, Commit(r) \/ CommitRaises(r) PROVE IInv'
  <2>1. CASE Commit(r)
    BY <2>1, AfterWritePlans, WriteStep DEF Commit, IInv
  <2>2. CASE CommitRaises(r)
    <3>1. job[r].op \in AllOperations \union {"none"}
      BY DEF IInv, TypeOK, Job
    <3>2. [NoJob EXCEPT !.op = job[r].op, !.answer = "RepositoryError"] \in Job
      BY <3>1, NoJobType DEF Job, Answers
    <3>3. QED
      BY <2>2, <3>2, WriteStep DEF CommitRaises, Reply
  <2>3. QED
    BY <1>1, <2>1, <2>2
<1>2. ASSUME NEW r \in Requests, Crash(r) PROVE IInv'
  <2>1. job[r].op \in AllOperations \union {"none"}
    BY DEF IInv, TypeOK, Job
  <2>2. Plan(r)
    BY <1>2, <2>1, ReplyPlans DEF Crash, Answers
  <2>3. QED
    BY <1>2, <2>2, PlanStep DEF Crash, Reply, ReadOnly, IInv, TypeOK
<1>3. CASE UNCHANGED vars
  BY <1>3 DEF vars, requestVars, IInv, TypeOK, CopiesConsistent, Copies, Consistent,
              CopiesRecorded, SaltsAreFresh, BringsItsEvent, PasswordChangeIsRecorded,
              SomethingToPublish
<1>4. QED
  BY <1>1, <1>2, <1>3, TickStep, ReplicateStep, AuthHandlerStep, UserHandlerStep,
     PublishStep DEF Next

\* All images of the account, stored, stale or about to be written, stay typed
\* and consistent, and have a password that was in force or comes with its event
\* (the read, change and put that every handler of both services makes).
THEOREM IInvHolds == Spec => []IInv
  BY InitIInv, NextIInv, PTL DEF Spec

\* The account and the requests at work on it keep their types (User, and the
\* handlers' local variables).
THEOREM TypeCorrect == Spec => []TypeOK
  BY IInvHolds, PTL DEF IInv

\* The stored account is always consistent, however many requests write back
\* old copies of it (DynamoDBUserRepository.update).
THEOREM ItemConsistent == Spec => []StoredItemConsistent
<1>1. IInv => StoredItemConsistent
  BY DEF IInv, CopiesConsistent, Copies, StoredItemConsistent
<1>2. QED
  BY <1>1, IInvHolds, PTL

\* With an outbox wired to AuthService, there are as many password_changed events
\* as salted hashes came into force, however requests overlap and fail: each has
\* one event of its own (the unit of work of reset_password).
THEOREM PasswordRecorded == Spec => []PasswordChangeIsRecorded
  BY IInvHolds, PTL DEF IInv
=============================================================================
