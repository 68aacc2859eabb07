----------------------------- MODULE UserEntity -----------------------------
(***************************************************************************)
(* The User entity (domain/entities/user.py): the transitions of one       *)
(* account record, as functions of the record and of the present time.     *)
(* Names, e-mail addresses and time stamps nothing reads are left out.     *)
(***************************************************************************)
EXTENDS Integers

CONSTANTS MaxAttempts,   \* settings.login_max_attempts
          LockPeriod,    \* settings.login_lockout_minutes
          Passwords,     \* the passwords that occur
          FirstPassword, \* the one the account starts with
          Salts,         \* what bcrypt.gensalt() may return
          FirstSalt,     \* the one the first password was hashed with
          Roles          \* roles beyond "member" that may be assigned

ASSUME EntityAssumption ==
  /\ MaxAttempts \in Nat \ {0}
  /\ LockPeriod \in Nat \ {0}
  /\ FirstPassword \in Passwords
  /\ FirstSalt \in Salts

\* Times start at 1 and tokens are numbered from 1: 0 stands for Python's None.
None == 0
Time == Nat \ {0}

UserStatus == {"active", "inactive", "pending_verification"}

\* A bcrypt hash: which password it verifies, and the salt that tells it from
\* any other hash of the same password.
Hash == [of : Passwords, salt : Salts]
FirstHash == [of |-> FirstPassword, salt |-> FirstSalt]

User == [status : UserStatus,
         password : Hash,            \* hashed_password
         roles : SUBSET Roles,
         updated : Time,             \* updated_at
         attempts : Nat,             \* failed_login_attempts
         lockedUntil : Nat,          \* account_locked_until
         mustChange : BOOLEAN,       \* require_password_change
         verified : BOOLEAN,         \* email_verified
         token : Nat]                \* email_verification_token

\* What register stores: a pending account that waits for token t.
NewUser(t, now) ==
  [status |-> "pending_verification", password |-> FirstHash, roles |-> {},
   updated |-> now, attempts |-> 0, lockedUntil |-> None,
   mustChange |-> FALSE, verified |-> FALSE, token |-> t]

\* What the migration from the registry puts: any status, an address that was
\* never verified here, and no token to verify it with.
MigratedUser(status, now) == [NewUser(None, now) EXCEPT !.status = status]

\* Mutant: a status the model of the table does not know.
ActivateMistyped(u, now) == [u EXCEPT !.status = "enabled", !.updated = now]

Activate(u, now) == [u EXCEPT !.status = "active", !.updated = now]
Deactivate(u, now) == [u EXCEPT !.status = "inactive", !.updated = now]
IsActive(u) == u.status = "active"

\* updated_at moves only when the set of roles does.
AssignRole(u, role, now) ==
  IF role \in u.roles THEN u ELSE [u EXCEPT !.roles = @ \union {role}, !.updated = now]
RemoveRole(u, role, now) ==
  IF role \in u.roles THEN [u EXCEPT !.roles = @ \ {role}, !.updated = now] ELSE u

UpdateProfile(u, now) == [u EXCEPT !.updated = now]
RequirePasswordChange(u, now) == [u EXCEPT !.mustChange = TRUE, !.updated = now]

IsLocked(u, now) == u.lockedUntil # None /\ u.lockedUntil > now

\* Mutant: only the MaxAttempts-th failure locks, later ones do not renew it.
RecordFailedLoginOnce(u, now) ==
  [u EXCEPT !.attempts = @ + 1,
            !.lockedUntil = IF u.attempts + 1 = MaxAttempts THEN now + LockPeriod ELSE @]

\* Mutant: one failure more than the limit.
RecordFailedLoginLate(u, now) ==
  [u EXCEPT !.attempts = @ + 1,
            !.lockedUntil = IF u.attempts + 1 > MaxAttempts THEN now + LockPeriod ELSE @]

\* The lock is renewed by every failure from the MaxAttempts-th on.
RecordFailedLogin(u, now) ==
  [u EXCEPT !.attempts = @ + 1,
            !.lockedUntil = IF u.attempts + 1 >= MaxAttempts THEN now + LockPeriod ELSE @]

\* Mutant: a login also activates the account.
RecordSuccessfulLoginActivates(u) ==
  [u EXCEPT !.attempts = 0, !.lockedUntil = None, !.status = "active"]

\* reset_login_attempts, then last_login_at.
RecordSuccessfulLogin(u) == [u EXCEPT !.attempts = 0, !.lockedUntil = None]

\* Mutant: the token survives its use.
VerifyEmailKeepsToken(u) == [u EXCEPT !.status = "active", !.verified = TRUE]

\* Neither of these touches updated_at.
VerifyEmail(u) == [u EXCEPT !.status = "active", !.verified = TRUE, !.token = None]
GenerateVerificationToken(u, t) == [u EXCEPT !.token = t]

\* Mutant: a new password also lifts the lock.
ResetPasswordUnlocks(u, hash, now) ==
  Activate([u EXCEPT !.password = hash, !.mustChange = FALSE,
                     !.attempts = 0, !.lockedUntil = None], now)

\* What reset_password does to the record before it is written.
ResetPassword(u, hash, now) ==
  Activate([u EXCEPT !.password = hash, !.mustChange = FALSE], now)
=============================================================================
