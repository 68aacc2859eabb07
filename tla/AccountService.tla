--------------------------- MODULE AccountService ---------------------------
(***************************************************************************)
(* One account under concurrent requests: AuthService, UserService and the *)
(* user repository (application/services, infrastructure/persistence).     *)
(* A handler reads the item, works on its own copy, writes the whole item  *)
(* back, publishes events one by one and answers.  Each of these is a step *)
(* of its own; other requests run in between, and each call may fail.      *)
(* Tokens are taken at their word here: a caller of reset_password holds a *)
(* valid reset token, a caller of refresh a valid refresh token.           *)
(***************************************************************************)
EXTENDS UserEntity, FiniteSets, Sequences

CONSTANTS Requests,    \* the requests that arrive, each once
          Operations,  \* the operations they may ask for
          Overlap,     \* may requests run side by side?
          Wired,       \* the services given an outbox and a unit of work
          MaxTime,     \* the clock stops here
          TokenLife,   \* the 24 hours of a verification token
          Origins,     \* how the account came to be
          Faults       \* which failures the environment may produce

AllOperations ==
  {"authenticate", "refresh", "forgot_password", "reset_password",
   "verify_email", "resend_verification", "update_profile", "assign_role",
   "remove_role", "deactivate", "suspend_user", "activate_user",
   "require_password_change"}

FaultKinds == {"bus",     \* publish raises, the event taken or not
               "store",   \* a read raises, or a write does, applied or not
               "crash",   \* the Lambda dies
               "stale",   \* a read returns an older image of the item
               "page"}    \* the item lies beyond the scan's first page

ASSUME ServiceAssumption ==
  /\ Operations \subseteq AllOperations
  /\ Overlap \in BOOLEAN
  /\ Wired \subseteq {"auth", "user"}
  /\ MaxTime \in Time
  /\ TokenLife \in Nat
  /\ Origins \subseteq {"registered", "verified", "migrated"}
  /\ Faults \subseteq FaultKinds
  /\ Requests \subseteq Salts /\ FirstSalt \notin Requests

Events == {"login_failed", "account_locked", "login_success", "activated",
           "deactivated", "verification_requested", "password_reset_requested",
           "password_changed", "updated", "role_changed"}

CriticalEvents == {"password_changed", "deactivated"}

\* What a caller may hear: a result, or the exception that leaves the handler.
Answers == {"tokens", "ok", "none",
            "AccountLocked", "InvalidCredentials", "EmailNotVerified",
            "PasswordChangeRequired", "InvalidToken", "TokenExpired",
            "AlreadyVerified", "WeakPassword", "Forbidden", "NotFound",
            "RepositoryError", "ExternalServiceError"}

VARIABLES item,       \* the stored user item
          replica,    \* an image that an eventually consistent read may return
          outbox,     \* how many events of a type were committed to the outbox
          published,  \* how many events of a type the bus has taken
          pc,         \* where each request is
          job,        \* what each request has left to do
          now,        \* the clock
          issued,     \* when each verification token was made (history)
          inForce,    \* every password hash that was ever stored (history)
          wrong       \* wrong passwords checked since the last login (history)

requestVars == <<pc, job>>
vars == <<item, replica, outbox, published, requestVars, now, issued, inForce, wrong>>

\* The plan of a handler: the copy it writes and how, the events it publishes
\* directly and the answer it gives when nothing fails.
Job == [op : AllOperations \union {"none"}, user : User,
        how : {"none", "put", "transact"}, event : CriticalEvents,
        publish : Seq(Events), answer : Answers]

NoJob == [op |-> "none", user |-> NewUser(1, 1), how |-> "none",
          event |-> "password_changed", publish |-> <<>>, answer |-> "none"]

\* An account that registered, has verified its address since, or was migrated.
Start ==
  \/ /\ "registered" \in Origins
     /\ item = NewUser(1, 1) /\ issued = <<1>>
  \/ /\ "verified" \in Origins
     /\ item = VerifyEmail(NewUser(1, 1)) /\ issued = <<1>>
  \/ /\ "migrated" \in Origins
     /\ item \in {MigratedUser(status, 1) : status \in UserStatus} /\ issued = <<>>

Init ==
  /\ Start
  /\ replica = item
  /\ outbox = [t \in CriticalEvents |-> 0]
  /\ published = [t \in Events |-> 0]
  /\ pc = [r \in Requests |-> "new"]
  /\ job = [r \in Requests |-> NoJob]
  /\ now = 1
  /\ inForce = {FirstHash}
  /\ wrong = 0

Tick ==
  /\ now < MaxTime
  /\ now' = now + 1
  /\ UNCHANGED <<item, replica, outbox, published, requestVars, issued, inForce, wrong>>

-----------------------------------------------------------------------------
(* Steps every handler is made of. *)

Finished(r) == pc[r] \in {"new", "answered"}

Arrives(r, op) ==
  /\ op \in Operations
  /\ pc[r] = "new"
  /\ Overlap \/ \A s \in Requests : Finished(s)

\* get_item, the e-mail index and the scan are all read eventually consistent.
Readable == IF "stale" \in Faults THEN {item, replica} ELSE {item}

Replicate ==
  /\ "stale" \in Faults
  /\ replica # item
  /\ replica' = item
  /\ UNCHANGED <<item, outbox, published, requestVars, now, issued, inForce, wrong>>

\* The request is over, with answer a.
Reply(r, op, a) ==
  /\ pc' = [pc EXCEPT ![r] = "answered"]
  /\ job' = [job EXCEPT ![r] = [NoJob EXCEPT !.op = op, !.answer = a]]

\* The handler goes on to write its copy of the item.
Write(r, op, u, events, a) ==
  /\ pc' = [pc EXCEPT ![r] = "write"]
  /\ job' = [job EXCEPT ![r] = [NoJob EXCEPT !.op = op, !.user = u, !.how = "put",
                                             !.publish = events, !.answer = a]]

\* The handler goes on to write its copy together with a critical event, or,
\* in a service without an outbox, to write and then publish.
WriteWithEvent(r, op, service, u, event, a) ==
  IF service \in Wired
    THEN /\ pc' = [pc EXCEPT ![r] = "write"]
         /\ job' = [job EXCEPT ![r] = [NoJob EXCEPT !.op = op, !.user = u,
                        !.how = "transact", !.event = event, !.answer = a]]
    ELSE Write(r, op, u, <<event>>, a)

\* The handler has nothing to write, only an event to publish.
PublishOnly(r, op, events, a) ==
  /\ pc' = [pc EXCEPT ![r] = "publish"]
  /\ job' = [job EXCEPT ![r] = [NoJob EXCEPT !.op = op, !.publish = events, !.answer = a]]

\* What reading and planning leave alone.
ReadOnly == UNCHANGED <<item, replica, outbox, published, now, inForce>>

-----------------------------------------------------------------------------
(* AuthService: each handler up to its first write or publish. *)

FailureEvents(u) ==
  IF u.attempts >= MaxAttempts THEN <<"login_failed", "account_locked">>
                               ELSE <<"login_failed">>

\* The lock is tested before the password, the status and the flag after it;
\* nothing tests for an inactive account.  (The code asks once more, after its
\* publishes, whether the copy it wrote is locked, and answers accordingly: a
\* lock set by this failure is taken to outlast the request.)
Authenticate(r, password) ==
  /\ Arrives(r, "authenticate")
  /\ \E u \in Readable :
       \/ /\ IsLocked(u, now)
          /\ Reply(r, "authenticate", "AccountLocked")
          /\ UNCHANGED wrong
       \/ /\ ~IsLocked(u, now) /\ password # u.password.of
          /\ LET f == RecordFailedLogin(u, now)
             IN  Write(r, "authenticate", f, FailureEvents(f),
                       IF IsLocked(f, now) THEN "AccountLocked" ELSE "InvalidCredentials")
          /\ wrong' = wrong + 1
       \/ /\ ~IsLocked(u, now) /\ password = u.password.of
          /\ \/ /\ u.status = "pending_verification"
                /\ Reply(r, "authenticate", "EmailNotVerified")
             \/ /\ u.status # "pending_verification" /\ u.mustChange
                /\ Reply(r, "authenticate", "PasswordChangeRequired")
             \/ /\ u.status # "pending_verification" /\ ~u.mustChange
                /\ Write(r, "authenticate", RecordSuccessfulLogin(u),
                         <<"login_success">>, "tokens")
          /\ UNCHANGED wrong
  /\ ReadOnly /\ UNCHANGED issued

Refresh(r) ==
  /\ Arrives(r, "refresh")
  /\ \E u \in Readable :
       Reply(r, "refresh", IF IsActive(u) THEN "tokens" ELSE "InvalidToken")
  /\ ReadOnly /\ UNCHANGED <<issued, wrong>>

ForgotPassword(r) ==
  /\ Arrives(r, "forgot_password")
  /\ PublishOnly(r, "forgot_password", <<"password_reset_requested">>, "ok")
  /\ ReadOnly /\ UNCHANGED <<issued, wrong>>

\* The account becomes active whatever it was; a lock stays.  Hashing draws a
\* new salt for each request.
ResetPasswordRequest(r, new, strong) ==
  /\ Arrives(r, "reset_password")
  /\ IF strong
       THEN \E u \in Readable :
              WriteWithEvent(r, "reset_password", "auth",
                             ResetPassword(u, [of |-> new, salt |-> r], now),
                             "password_changed", "ok")
       ELSE Reply(r, "reset_password", "WeakPassword")
  /\ ReadOnly /\ UNCHANGED <<issued, wrong>>

\* The age of the token is taken from updated_at, which making a token leaves
\* alone and other changes of the account move.
TokenExpired(u) == now - u.updated > TokenLife

VerifyEmailRequest(r, t) ==
  /\ Arrives(r, "verify_email")
  /\ \/ \E u \in Readable :
          \/ u.token # t /\ Reply(r, "verify_email", "InvalidToken")
          \/ /\ u.token = t /\ (u.verified \/ IsActive(u))
             /\ Reply(r, "verify_email", "AlreadyVerified")
          \/ /\ u.token = t /\ ~(u.verified \/ IsActive(u)) /\ TokenExpired(u)
             /\ Reply(r, "verify_email", "TokenExpired")
          \/ /\ u.token = t /\ ~(u.verified \/ IsActive(u)) /\ ~TokenExpired(u)
             /\ Write(r, "verify_email", VerifyEmail(u), <<"activated">>, "ok")
     \/ "page" \in Faults /\ Reply(r, "verify_email", "InvalidToken")
  /\ ReadOnly /\ UNCHANGED <<issued, wrong>>

ResendVerification(r) ==
  /\ Arrives(r, "resend_verification")
  /\ \E u \in Readable :
       \/ /\ u.status = "pending_verification"
          /\ issued' = Append(issued, now)
          /\ Write(r, "resend_verification",
                   GenerateVerificationToken(u, Len(issued) + 1),
                   <<"verification_requested">>, "ok")
       \/ /\ u.status # "pending_verification"
          /\ Reply(r, "resend_verification", "ok")
          /\ UNCHANGED issued
  /\ ReadOnly /\ UNCHANGED wrong

-----------------------------------------------------------------------------
(* UserService.  Whether the caller is an admin is read from another item. *)

UserServiceWrite(r, op, u, events) ==
  /\ Write(r, op, u, events, "ok")
  /\ ReadOnly /\ UNCHANGED <<issued, wrong>>

UpdateProfileRequest(r) ==
  /\ Arrives(r, "update_profile")
  /\ \E u \in Readable :
       UserServiceWrite(r, "update_profile", UpdateProfile(u, now), <<"updated">>)

AssignRoleRequest(r, role) ==
  /\ Arrives(r, "assign_role")
  /\ \E u \in Readable :
       UserServiceWrite(r, "assign_role", AssignRole(u, role, now), <<"role_changed">>)

RemoveRoleRequest(r, role) ==
  /\ Arrives(r, "remove_role")
  /\ \E u \in Readable :
       UserServiceWrite(r, "remove_role", RemoveRole(u, role, now), <<"role_changed">>)

DeactivateRequest(r) ==
  /\ Arrives(r, "deactivate")
  /\ \E u \in Readable :
       WriteWithEvent(r, "deactivate", "user", Deactivate(u, now), "deactivated", "ok")
  /\ ReadOnly /\ UNCHANGED <<issued, wrong>>

\* suspend_user publishes directly even where an outbox is wired.
SuspendUser(r) ==
  /\ Arrives(r, "suspend_user")
  /\ \E u \in Readable :
       UserServiceWrite(r, "suspend_user", Deactivate(u, now), <<"deactivated">>)

ActivateUser(r) ==
  /\ Arrives(r, "activate_user")
  /\ \E u \in Readable :
       UserServiceWrite(r, "activate_user", Activate(u, now), <<"activated">>)

RequirePasswordChangeRequest(r) ==
  /\ Arrives(r, "require_password_change")
  /\ \E u \in Readable :
       UserServiceWrite(r, "require_password_change", RequirePasswordChange(u, now), <<>>)

\* What a caller hears who is neither admin nor owner, or whose account is not
\* there: resend_verification and forgot_password do not let on.
Refusals(op) ==
  CASE op \in {"suspend_user", "activate_user", "require_password_change",
               "update_profile"} -> {"Forbidden", "NotFound"}
    [] op = "authenticate" -> {"InvalidCredentials"}
    [] op \in {"refresh", "verify_email"} -> {"InvalidToken"}
    [] op \in {"forgot_password", "resend_verification"} -> {"ok"}
    [] OTHER -> {"NotFound"}

\* ... or whose account cannot be read.
Refuse(r, op) ==
  /\ Arrives(r, op)
  /\ \/ \E a \in Refusals(op) : Reply(r, op, a)
     \/ "store" \in Faults /\ Reply(r, op, "RepositoryError")
  /\ ReadOnly /\ UNCHANGED <<issued, wrong>>

-----------------------------------------------------------------------------
(* What the handlers have in common after that. *)

\* The write is done: the events follow, if there are any.
AfterWrite(r) ==
  IF job[r].publish = <<>>
    THEN Reply(r, job[r].op, job[r].answer)
    ELSE /\ pc' = [pc EXCEPT ![r] = "publish"]
         /\ job' = [job EXCEPT ![r] = [NoJob EXCEPT !.op = job[r].op,
                        !.publish = job[r].publish, !.answer = job[r].answer]]

\* Mutant: the outbox item is no part of the transaction.
StoreItemOnly(r) ==
  /\ item' = job[r].user
  /\ inForce' = inForce \union {job[r].user.password}
  /\ wrong' = IF job[r].op = "authenticate" /\ job[r].answer = "tokens" THEN 0 ELSE wrong
  /\ UNCHANGED outbox

\* put_item replaces the item unconditionally; TransactWriteItems does so
\* together with the outbox item, or does nothing.
Store(r) ==
  /\ item' = job[r].user
  /\ inForce' = inForce \union {job[r].user.password}
  /\ outbox' = IF job[r].how = "transact"
                 THEN [outbox EXCEPT ![job[r].event] = @ + 1]
                 ELSE outbox
  /\ wrong' = IF job[r].op = "authenticate" /\ job[r].answer = "tokens" THEN 0 ELSE wrong

Commit(r) ==
  /\ pc[r] = "write"
  /\ Store(r)
  /\ AfterWrite(r)
  /\ UNCHANGED <<replica, published, now, issued>>

CommitRaises(r) ==
  /\ "store" \in Faults
  /\ pc[r] = "write"
  /\ Store(r) \/ UNCHANGED <<item, inForce, outbox, wrong>>
  /\ Reply(r, job[r].op, "RepositoryError")
  /\ UNCHANGED <<replica, published, now, issued>>

Take(t) == published' = [published EXCEPT ![t] = @ + 1]

Publish(r) ==
  /\ pc[r] = "publish"
  /\ Take(Head(job[r].publish))
  /\ IF Len(job[r].publish) = 1
       THEN Reply(r, job[r].op, job[r].answer)
       ELSE /\ job' = [job EXCEPT ![r].publish = Tail(@)]
            /\ UNCHANGED pc
  /\ UNCHANGED <<item, replica, outbox, now, issued, inForce, wrong>>

\* The exception leaves the handler: the events after this one are never
\* published, and the caller sees an error for a change that is stored.
PublishRaises(r) ==
  /\ "bus" \in Faults
  /\ pc[r] = "publish"
  /\ Take(Head(job[r].publish)) \/ UNCHANGED published
  /\ Reply(r, job[r].op, "ExternalServiceError")
  /\ UNCHANGED <<item, replica, outbox, now, issued, inForce, wrong>>

Crash(r) ==
  /\ "crash" \in Faults
  /\ ~Finished(r)
  /\ Reply(r, job[r].op, "none")
  /\ UNCHANGED <<item, replica, outbox, published, now, issued, inForce, wrong>>

AuthHandler(r) ==
  \/ \E password \in Passwords : Authenticate(r, password)
  \/ Refresh(r)
  \/ ForgotPassword(r)
  \/ \E new \in Passwords, strong \in BOOLEAN : ResetPasswordRequest(r, new, strong)
  \/ \E t \in 1..Len(issued) : VerifyEmailRequest(r, t)
  \/ ResendVerification(r)

UserHandler(r) ==
  \/ UpdateProfileRequest(r)
  \/ \E role \in Roles : AssignRoleRequest(r, role) \/ RemoveRoleRequest(r, role)
  \/ DeactivateRequest(r)
  \/ SuspendUser(r)
  \/ ActivateUser(r)
  \/ RequirePasswordChangeRequest(r)
  \/ \E op \in AllOperations : Refuse(r, op)

Next ==
  \/ Tick
  \/ Replicate
  \/ \E r \in Requests :
       \/ AuthHandler(r) \/ UserHandler(r)
       \/ Commit(r) \/ CommitRaises(r)
       \/ Publish(r) \/ PublishRaises(r)
       \/ Crash(r)

Spec == Init /\ [][Next]_vars

\* A request that is under way takes its next step, with or without success.
Fairness ==
  \A r \in Requests :
    WF_vars(Commit(r) \/ CommitRaises(r) \/ Publish(r) \/ PublishRaises(r) \/ Crash(r))

FairSpec == Spec /\ Fairness

-----------------------------------------------------------------------------
(* Properties. *)

\* Every variable has its type.
TypeOK ==
  /\ item \in User
  /\ replica \in User
  /\ outbox \in [CriticalEvents -> Nat]
  /\ published \in [Events -> Nat]
  /\ pc \in [Requests -> {"new", "write", "publish", "answered"}]
  /\ job \in [Requests -> Job]
  /\ now \in 1..MaxTime
  /\ issued \in Seq(Time)
  /\ inForce \subseteq Hash
  /\ wrong \in Nat

\* What any image of the account must agree on.
Consistent(u) ==
  /\ u.attempts >= MaxAttempts <=> u.lockedUntil # None
  /\ u.lockedUntil <= now + LockPeriod
  /\ u.updated <= now
  /\ u.status = "pending_verification" => ~u.verified
  /\ u.verified => u.token = None

\* Whatever requests overlap, fail or read old images, the stored item is one
\* some handler built: its lock goes with its counter and ends within a period,
\* and its status, its flag and its token tell the same story.  This is what
\* writing the whole item back (DynamoDBUserRepository.update) does guarantee.
StoredItemConsistent == Consistent(item)

\* Each password that ever came into force, counted by its salted hash, has one
\* password_changed event of its own in the outbox, and no event is there for a
\* password that did not (the one transaction of reset_password): no crash, no
\* failed call and no later write of an older copy brings in a password without
\* its event.  (That a replaced password does not come back is NothingUndone.)
PasswordChangeIsRecorded ==
  "auth" \in Wired => outbox["password_changed"] = Cardinality(inForce \ {FirstHash})

\* Where logins come one after another, an account sees MaxAttempts wrong
\* passwords and then at most one for each lock period that has passed.
GuessesBounded == wrong <= MaxAttempts + (now - 1) \div LockPeriod

\* Where logins come one after another, MaxAttempts wrong passwords in a row
\* leave the account locked, and only a right one takes the lock off the record,
\* whatever is done to password, status and verification in between.  (Side by
\* side, failures overwrite each other's counter.)
FailuresLock ==
  (\A r \in Requests : Finished(r)) /\ wrong >= MaxAttempts => item.lockedUntil # None

\* An operation may make the record v of the record u: no account returns to
\* pending, no verification is forgotten, no suspension is lifted but by
\* activate_user, by reset_password or by the owner's first verification, and
\* no password changes but by reset_password.
MayBecome(u, v, op) ==
  /\ v.status = "pending_verification" => u.status = "pending_verification"
  /\ u.verified => v.verified
  /\ v.password # u.password => op = "reset_password"
  /\ u.status = "inactive" /\ v.status = "active" =>
       \/ op \in {"activate_user", "reset_password"}
       \/ op = "verify_email" /\ ~u.verified

\* Where requests come one after another, the item changes by what the request
\* that writes it may do to it: none undoes a status, a verification or a
\* password that is not its own to change.  (Side by side, or after a stale
\* read, each may write back what it read.)
NothingUndone ==
  [][\E r \in Requests : pc[r] = "write" /\ MayBecome(item, item', job[r].op)]_item

\* A deactivation that is stored reaches the bus or the outbox.
DeactivationAnnounced ==
  (item.status = "inactive")
    ~> (published["deactivated"] > 0 \/ outbox["deactivated"] > 0)

-----------------------------------------------------------------------------
(* The strengthening that makes StoredItemConsistent and                    *)
(* PasswordChangeIsRecorded inductive: what holds of the item holds of all  *)
(* the copies that may still be written over it.                            *)

Copies == {item, replica} \union {job[r].user : r \in {s \in Requests : pc[s] = "write"}}

CopiesConsistent == \A u \in Copies : Consistent(u)

\* A request that is about to store a new password together with its event.
BringsItsEvent(r) == job[r].how = "transact" /\ job[r].event = "password_changed"

\* Such a password carries the salt of its request, and none of that salt was
\* in force before; whatever else is read or written was in force once.
CopiesRecorded ==
  /\ item.password \in inForce /\ replica.password \in inForce
  /\ \A r \in Requests : pc[r] = "write" =>
       IF BringsItsEvent(r) THEN job[r].user.password.salt = r
                            ELSE job[r].user.password \in inForce

SaltsAreFresh ==
  /\ FirstHash \in inForce /\ IsFiniteSet(inForce)
  /\ \A r \in Requests : pc[r] \in {"new", "write"} => \A h \in inForce : h.salt # r

\* A request that publishes has an event left to publish.
SomethingToPublish == \A r \in Requests : pc[r] = "publish" => job[r].publish # <<>>

IInv ==
  /\ TypeOK
  /\ SomethingToPublish
  /\ CopiesConsistent
  /\ "auth" \in Wired => CopiesRecorded /\ SaltsAreFresh
  /\ PasswordChangeIsRecorded

-----------------------------------------------------------------------------
(* The strengthening for requests that come one after another: what the     *)
(* one under way is about to write was made of the item as it still is.     *)

OneAtATime == \A r, s \in Requests : ~Finished(r) /\ ~Finished(s) => r = s

WritesAllowed ==
  \A r \in Requests : pc[r] = "write" => MayBecome(item, job[r].user, job[r].op)

SerialInv == OneAtATime /\ WritesAllowed

\* The counter in u counts the wrong passwords, and its lock has taken a period
\* of its own for each of them from the MaxAttempts-th on.
Counted(u) ==
  /\ u.attempts = wrong
  /\ wrong >= MaxAttempts =>
       u.lockedUntil >= 1 + (wrong - MaxAttempts + 1) * LockPeriod

\* A login that will be answered with tokens, if nothing fails.
LogsIn(r) == job[r].op = "authenticate" /\ job[r].answer = "tokens"

\* The count is in the copy that is being written or, if there is none or it is
\* that of a login, in the item; and a login found no lock running.
CountKept ==
  /\ (\A r \in Requests : pc[r] = "write" => LogsIn(r)) => Counted(item)
  /\ \A r \in Requests :
       pc[r] = "write" =>
         IF LogsIn(r) THEN job[r].user.attempts = 0 /\ item.lockedUntil <= now
                      ELSE Counted(job[r].user)

CountInv == SerialInv /\ CountKept

\* A failed login locks from the time it was checked, so that its lock is in
\* force before it is stored.
Writing(r) == pc[r] = "write" /\ ~LogsIn(r)

LockInForce ==
  IF \E r \in Requests : Writing(r)
    THEN job[CHOOSE r \in Requests : Writing(r)].user.lockedUntil
    ELSE item.lockedUntil

Lock == INSTANCE LoginLock WITH
  failures <- wrong, until <- LockInForce, clock <- now

\* Where requests come one after another, the handlers and the user entity
\* implement LoginLock: no password is tried against a lock, and no operation
\* but a login shortens a lock or forgets a failure.
ImplementsLoginLock == Lock!LockSafety
=============================================================================
