-------------------------- MODULE MCAccountService --------------------------
(* Small instances of AccountService. *)
EXTENDS AccountService, TLC

Deciding == {"authenticate", "reset_password", "verify_email", "resend_verification",
             "suspend_user", "activate_user"}
Deactivating == {"deactivate", "suspend_user", "activate_user", "reset_password"}

\* Every request draws a salt of its own.
MCSalts == Requests \union {FirstSalt}

BusFaults == {"bus"}

\* Requests are interchangeable.
RequestSymmetry == Permutations(Requests)
=============================================================================
