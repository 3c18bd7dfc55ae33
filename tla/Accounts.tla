------------------------------ MODULE Accounts ------------------------------
(***************************************************************************)
(* Local accounts (api/auth, api/users, auth): login with its throttle,    *)
(* the token it gives, and the administration of the accounts.             *)
(*                                                                         *)
(* The handlers run in threads, each with a session of its own.  SQLite    *)
(* serialises only from the first write of a handler to its commit; what a *)
(* handler has read before may be old when it writes, and the hash of a    *)
(* password takes long.                                                    *)
(***************************************************************************)
EXTENDS Integers, FiniteSets

CONSTANTS
  People,       \* accounts
  ClientAddress, \* the client address everybody comes from
  HandlerIds,   \* threads
  MaxFailures,  \* thresholds: login_rate_limit_{username,address}_max_failures
  Window,       \* login_rate_limit_window_seconds
  Lockout,      \* login_rate_limit_lockout_seconds
  Lifetime,     \* how long a token is good
  MaxTime       \* bound: the clock

Subjects == People \cup {ClientAddress}

ASSUME AccountAssumption ==
  /\ ClientAddress \notin People
  /\ MaxFailures \in [Subjects -> Nat \ {0}]
  /\ {Window, Lockout, Lifetime} \subseteq Nat \ {0}
  /\ MaxTime \in Nat

VARIABLES
  clock,
  users,      \* the rows of the accounts: role and is_active
  throttle,   \* the rows of LoginThrottle
  tokens,     \* when the token of an account was issued
  handlers

accountVars == <<clock, users, throttle, tokens, handlers>>

Roles == {"ADMIN", "VIEWER"}   \* require_roles asks for ADMIN, or lets others in
NoRow == [count |-> 0, since |-> 0, until |-> 0, exists |-> FALSE]
Never == -1
Free == [at |-> "free"]

AccountsInit ==
  /\ clock = 0
  /\ users \in [People -> [role : {"ADMIN"}, active : {TRUE}]]
  /\ throttle = [s \in Subjects |-> NoRow]
  /\ tokens = [p \in People |-> Never]
  /\ handlers = [h \in HandlerIds |-> Free]

Ticks ==
  /\ clock < MaxTime
  /\ clock' = clock + 1
  /\ UNCHANGED <<users, throttle, tokens, handlers>>

Handler(h, step) == handlers' = [handlers EXCEPT ![h] = step]
OnlyHandler(h, step) ==
  Handler(h, step) /\ UNCHANGED <<clock, users, throttle, tokens>>

-------------------------------------------------------------------------------
(***************************************************************************)
(* The throttle                                                            *)
(***************************************************************************)

\* _decision_for
LockedAt(row, now) == row.until > now
Locked(row) == LockedAt(row, clock)

\* Wrong: a subject that has been locked meanwhile is counted again.
FailedAgain(s, row, now) ==
  LET fresh == ~row.exists \/ now - row.since >= Window
      count == IF fresh THEN 1 ELSE row.count + 1
  IN  [count |-> count, exists |-> TRUE,
       since |-> IF fresh THEN now ELSE row.since,
       until |-> IF count >= MaxFailures[s] THEN now + Lockout ELSE 0]

\* _record_failure: a window that has passed starts anew, a lock that has passed does
\* not reset the count.
Failed(s, row, now) ==
  LET fresh == ~row.exists \/ now - row.since >= Window
      count == IF fresh THEN 1 ELSE row.count + 1
  IN  IF LockedAt(row, now) THEN row
      ELSE [count |-> count, exists |-> TRUE,
            since |-> IF fresh THEN now ELSE row.since,
            until |-> IF count >= MaxFailures[s] THEN now + Lockout ELSE 0]

\* What the UPDATE of a row read as `base' makes of the row as it is: the columns that
\* have not changed are not written.
Merged(current, base, new) ==
  [f \in DOMAIN current |-> IF new[f] # base[f] THEN new[f] ELSE current[f]]

-------------------------------------------------------------------------------
(***************************************************************************)
(* POST /auth/login                                                        *)
(***************************************************************************)

\* check: a locked account or address is refused before the password is looked at.
LoginChecks(h, p, right) ==
  /\ handlers[h].at = "free"
  /\ ~Locked(throttle[p]) /\ ~Locked(throttle[ClientAddress])
  /\ OnlyHandler(h, [at |-> "verifying", user |-> p,
                     right |-> right /\ users[p].active])

\* register_failure takes the time and reads the row of the account ...
FailureReads(h) ==
  LET p == handlers[h].user
  IN  /\ handlers[h].at = "verifying" /\ ~handlers[h].right
      /\ OnlyHandler(h, [at |-> "failing", user |-> p, subject |-> p,
                         base |-> throttle[p], now |-> clock])

\* What it makes of the row it has read.  The INSERT of a new row fails if there is one
\* by now, the UPDATE if it is gone.
FailedRow(h) == Failed(handlers[h].subject, handlers[h].base, handlers[h].now)
Changes(h) == FailedRow(h) # handlers[h].base

\* ... A changed row is flushed by the query for that of the address: the write lock is
\* taken, and the second row is read and written in the same transaction.
FailureCommits(h) ==
  LET s == handlers[h].subject
  IN  /\ handlers[h].at = "failing" /\ Changes(h)
      /\ handlers[h].base.exists = throttle[s].exists
      /\ throttle' = [throttle EXCEPT
                        ![s] = Merged(@, handlers[h].base, FailedRow(h)),
                        ![ClientAddress] = Failed(ClientAddress, @, handlers[h].now)]
      /\ Handler(h, Free)
      /\ UNCHANGED <<clock, users, tokens>>

\* An account that is locked is left as it is.  Nothing is flushed, and the row of the
\* address is read without the lock ...
AddressReads(h) ==
  /\ handlers[h].at = "failing" /\ ~Changes(h)
  /\ OnlyHandler(h, [handlers[h] EXCEPT !.at = "addressing", !.subject = ClientAddress,
                                         !.base = throttle[ClientAddress]])

\* ... and written by the flush at the end.
AddressCommits(h) ==
  LET s == handlers[h].subject
  IN  /\ handlers[h].at = "addressing"
      /\ Changes(h) => handlers[h].base.exists = throttle[s].exists
      /\ throttle' = [throttle EXCEPT ![s] = Merged(@, handlers[h].base, FailedRow(h))]
      /\ Handler(h, Free)
      /\ UNCHANGED <<clock, users, tokens>>

\* register_success deletes the row of the account; the token is for its owner.
LoginSucceeds(h) ==
  LET p == handlers[h].user
  IN  /\ handlers[h].at = "verifying" /\ handlers[h].right
      /\ throttle' = [throttle EXCEPT ![p] = NoRow]
      /\ tokens' = [tokens EXCEPT ![p] = clock]
      /\ Handler(h, Free)
      /\ UNCHANGED <<clock, users>>

\* An error, or a database that stays busy: nothing is committed.
HandlerFails(h) == handlers[h].at # "free" /\ OnlyHandler(h, Free)

-------------------------------------------------------------------------------
(***************************************************************************)
(* PATCH /users/{user_id}                                                  *)
(***************************************************************************)

\* get_current_user and require_roles: the token is good, and the row is asked.
Authorised(p) ==
  /\ tokens[p] # Never /\ clock - tokens[p] <= Lifetime
  /\ users[p].active /\ users[p].role = "ADMIN"

ActiveAdmins == {p \in People : users[p].active /\ users[p].role = "ADMIN"}

\* _would_remove_active_admin
Removes(row, new) ==
  row.active /\ row.role = "ADMIN" /\ ~(new.active /\ new.role = "ADMIN")

\* _ensure_active_admin_remains counts what is committed now.
EditChecks(h, admin, target, new) ==
  /\ handlers[h].at = "free"
  /\ Authorised(admin)
  /\ new # users[target]
  /\ Removes(users[target], new) => Cardinality(ActiveAdmins) > 1
  /\ OnlyHandler(h, [at |-> "editing", user |-> target, new |-> new,
                     old |-> users[target]])

\* The commit, after the hash of a new password: it writes what was to change.
EditCommits(h) ==
  LET e == handlers[h]
  IN  /\ e.at = "editing"
      /\ users' = [users EXCEPT ![e.user] = Merged(@, e.old, e.new)]
      /\ Handler(h, Free)
      /\ UNCHANGED <<clock, throttle, tokens>>

AccountsNext ==
  \/ Ticks
  \/ \E h \in HandlerIds :
       \/ \E p \in People, right \in BOOLEAN : LoginChecks(h, p, right)
       \/ FailureReads(h) \/ FailureCommits(h) \/ AddressReads(h) \/ AddressCommits(h)
       \/ LoginSucceeds(h) \/ HandlerFails(h)
       \/ \E admin, target \in People, new \in [role : Roles, active : BOOLEAN] :
            EditChecks(h, admin, target, new)
       \/ EditCommits(h)

AccountsSpec == AccountsInit /\ [][AccountsNext]_accountVars

-------------------------------------------------------------------------------
(***************************************************************************)
(* Properties                                                              *)
(***************************************************************************)
AccountsTypeOK ==
  /\ clock \in 0..MaxTime
  /\ users \in [People -> [role : Roles, active : BOOLEAN]]
  /\ throttle \in [Subjects -> [count : Nat, since : Nat, until : Nat, exists : BOOLEAN]]
  /\ \A p \in People : tokens[p] \in 0..clock \cup {Never}

\* A handler about to write the row of a subject, which has changed since it was read.
WritesUnseen(h, s) ==
  /\ handlers[h].at \in {"failing", "addressing"}
  /\ handlers[h].subject = s /\ handlers[h].base # throttle[s]

\* A login of the account that was checked before its lock fell.
ClearsLock(h, s) == handlers[h].at = "verifying" /\ handlers[h].user = s

\* A lock of an account or of the address lasts until its end, whatever attempts were
\* under way when it fell: a step brings it forward only when it ends such a login, or
\* a write over a row that has changed since it was read.
LockOutlasts ==
  [][\A s \in Subjects : Locked(throttle[s]) =>
       \/ throttle'[s].until >= throttle[s].until
       \/ \E h \in HandlerIds :
            handlers'[h] = Free /\ (ClearsLock(h, s) \/ WritesUnseen(h, s))]_accountVars

\* docs/admin-user-management.md: that an active administrator remains is an invariant
\* of the server.
AdminRemains == ActiveAdmins # {}
===============================================================================
