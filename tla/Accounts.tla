------------------------------ MODULE Accounts ------------------------------
(***************************************************************************)
(* What UserService promises: a table of accounts whose operations are     *)
(* atomic.  Every operation reads the record and replaces it in one step,  *)
(* so no operation undoes another one.  UserStore is the detailed          *)
(* specification; it implements this one when writes of one account do not *)
(* overlap.                                                                *)
(***************************************************************************)
EXTENDS AccountRecord

CONSTANT Names

VARIABLE accounts       \* Names -> StoredUser or NoUser

Init == accounts = [n \in Names |-> NoUser]

Replace(n, u) == accounts' = [accounts EXCEPT ![n] = u]

Create(n, pw) == accounts[n] = NoUser /\ Replace(n, NewUser(pw))

Update(n, chg) == accounts[n] # NoUser /\ Replace(n, Updated(accounts[n], chg))

Delete(n) == accounts[n] # NoUser /\ Replace(n, NoUser)

RecordLogin(n) == accounts[n] # NoUser /\ Replace(n, LoggedIn(accounts[n]))

RecordFailedLogin(n) ==
    accounts[n] # NoUser /\ Replace(n, FailedOnce(accounts[n]))

IncrementTokenVersion(n) ==
    accounts[n] # NoUser /\ Replace(n, Versioned(accounts[n]))

LockExpires(n) == accounts[n] # NoUser /\ Replace(n, Unlocked(accounts[n]))

Next ==
    \E n \in Names :
        \/ \E pw \in Passwords : Create(n, pw)
        \/ \E chg \in Change : Update(n, chg)
        \/ Delete(n)
        \/ RecordLogin(n)
        \/ RecordFailedLogin(n)
        \/ IncrementTokenVersion(n)
        \/ LockExpires(n)

Spec == Init /\ [][Next]_accounts
=============================================================================
