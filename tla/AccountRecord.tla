--------------------------- MODULE AccountRecord ---------------------------
(***************************************************************************)
(* The user record of app/services/user_service.py and the pure updates    *)
(* the service applies to a copy of it before saving it back.              *)
(*                                                                         *)
(* Fields kept: password (its hash is only ever compared), is_active,      *)
(* failed_login_attempts, locked_until and token_version.  locked_until is *)
(* kept as the Boolean "it lies in the future"; the passing of time is the *)
(* action LockExpires of the modules that use this one.  role, display     *)
(* timestamps and hashing carry no control and are left out.               *)
(***************************************************************************)
EXTENDS Naturals

CONSTANTS
    Passwords,      \* the passwords clients and administrators use
    MaxFailures,    \* settings.login_max_failures
    Keep,           \* "this field is not part of the update" (None)
    NoUser          \* what a lookup returns when there is no record

ASSUME RecordAssumption ==
    /\ MaxFailures \in Nat \ {0}
    /\ Keep \notin Passwords
    /\ Keep \notin BOOLEAN

StoredUser == [pw : Passwords, active : BOOLEAN, fails : Nat,
               locked : BOOLEAN, tv : Nat]

ASSUME NoUserAssumption == NoUser \notin StoredUser

\* The optional arguments of update_user.
Change == [pw : Passwords \cup {Keep}, active : BOOLEAN \cup {Keep}]

NewUser(pw) ==
    [pw |-> pw, active |-> TRUE, fails |-> 0, locked |-> FALSE, tv |-> 0]

Updated(u, chg) ==
    [u EXCEPT !.pw     = IF chg.pw = Keep THEN @ ELSE chg.pw,
              !.active = IF chg.active = Keep THEN @ ELSE chg.active]

\* Mutant: a login clears the counter to None.
LoggedInUncounted(u) == [u EXCEPT !.fails = Keep, !.locked = FALSE]

LoggedIn(u) == [u EXCEPT !.fails = 0, !.locked = FALSE]

FailedOnce(u) ==
    [u EXCEPT !.fails  = @ + 1,
              !.locked = IF u.fails + 1 >= MaxFailures THEN TRUE ELSE @]

Versioned(u) == [u EXCEPT !.tv = @ + 1]

Unlocked(u) == IF u = NoUser THEN u ELSE [u EXCEPT !.locked = FALSE]

-----------------------------------------------------------------------------
(* The operations that change an account, as calls [op, chg, rec, ...]: rec *)
(* is the record the call has read.                                         *)

Writers == {"create", "update", "delete", "login", "fail", "bump"}

NoChange == [pw |-> Keep, active |-> Keep]

\* The early returns: ValueError of create_user, LookupError (or None) of
\* the others.
Refuses(op, u) == IF op = "create" THEN u # NoUser ELSE u = NoUser

\* Mutant: update_user rebuilds the record instead of copying it.
RebuiltOnUpdate(c) ==
    CASE c.op \in {"create", "update"} ->
           NewUser(IF c.chg.pw = Keep THEN c.rec.pw ELSE c.chg.pw)
      [] c.op = "login"  -> LoggedIn(c.rec)
      [] c.op = "fail"   -> FailedOnce(c.rec)
      [] c.op = "bump"   -> Versioned(c.rec)

\* The record a call writes, from the one it has read.
Written(c) ==
    CASE c.op = "create" -> NewUser(c.chg.pw)
      [] c.op = "update" -> Updated(c.rec, c.chg)
      [] c.op = "login"  -> LoggedIn(c.rec)
      [] c.op = "fail"   -> FailedOnce(c.rec)
      [] c.op = "bump"   -> Versioned(c.rec)
=============================================================================
