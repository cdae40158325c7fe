------------------------------- MODULE Accounts -------------------------------
(***************************************************************************)
(* apps/api/src/accounts and apps/api/src/auth: administrators create,     *)
(* change and delete accounts while people log in and out.  A request is   *)
(* authorised once, by the guard, and may run its transaction much later;  *)
(* the transaction decides on a snapshot (the server's default isolation)  *)
(* and then writes.  A login checks the password before it makes a         *)
(* session.                                                                *)
(***************************************************************************)
EXTENDS Integers, FiniteSets

CONSTANTS People,        \* accounts that may come to exist
          FirstAdmin,    \* the one bootstrap-admin made
          Sessions,      \* login_sessions rows
          Calls,         \* requests the API handles at the same time
          MaxPassword    \* passwords an account may have one after the other

ASSUME AccountsAssumption ==
    /\ IsFiniteSet(People) /\ FirstAdmin \in People
    /\ Sessions # {}
    /\ MaxPassword \in Nat \ {0}

VARIABLES account,     \* accounts, by id
          session,     \* sessions, logins that are about to make one included
          call,        \* requests past the guard
          collided     \* history: a change was written while the transaction
                       \* of another was open

accountVars == <<account, session, call, collided>>

NoAccount == [state |-> "never", admin |-> FALSE, enabled |-> FALSE, password |-> 1]
NoSession == [state |-> "none", of |-> FirstAdmin, password |-> 1, raced |-> FALSE]
NoCall    == [pc |-> "idle", by |-> FirstAdmin, under |-> CHOOSE s \in Sessions : TRUE,
              what |-> "none", on |-> FirstAdmin, sawEnabled |-> FALSE]

Exists(a) == account[a].state = "exists"
ActiveAdmins == {a \in People : Exists(a) /\ account[a].admin /\ account[a].enabled}

\* What a patch does to the columns of an account.
Patched(row, what) ==
    CASE what = "demote"   -> [row EXCEPT !.admin = FALSE]
      [] what = "promote"  -> [row EXCEPT !.admin = TRUE]
      [] what = "disable"  -> [row EXCEPT !.enabled = FALSE]
      [] what = "enable"   -> [row EXCEPT !.enabled = TRUE]
      [] what = "password" -> [row EXCEPT !.password = @ + 1]
Patches == {"demote", "promote", "disable", "enable", "password"}

Accts    == [state : {"never", "exists", "deleted"}, admin : BOOLEAN, enabled : BOOLEAN,
             password : 1..MaxPassword]
Logins   == [state : {"none", "verified", "live"}, of : People, password : 1..MaxPassword,
             raced : BOOLEAN]
Requests == [pc : {"idle", "authorised", "decided"}, by : People, under : Sessions, on : People,
             sawEnabled : BOOLEAN, what : Patches \union {"none", "create", "delete", "revoke"}]
-----------------------------------------------------------------------------
AccountsInit ==
    /\ account = [a \in People |->
                    IF a = FirstAdmin
                    THEN [state |-> "exists", admin |-> TRUE, enabled |-> TRUE, password |-> 1]
                    ELSE NoAccount]
    /\ session = [s \in Sessions |-> NoSession]
    /\ call = [r \in Calls |-> NoCall]
    /\ collided = FALSE

\* AuthController.login up to the password check.
VerifyPassword(s, a) ==
    /\ session[s].state = "none"
    /\ Exists(a) /\ account[a].enabled
    /\ session' = [session EXCEPT ![s] = [state |-> "verified", of |-> a,
                                          password |-> account[a].password, raced |-> FALSE]]
    /\ UNCHANGED <<account, call, collided>>

\* SessionsService.start; its update of the account fails if that is gone.
StartSession(s) ==
    /\ session[s].state = "verified"
    /\ session' = [session EXCEPT ![s] =
                     IF Exists(@.of) THEN [@ EXCEPT !.state = "live"] ELSE NoSession]
    /\ UNCHANGED <<account, call, collided>>

\* The absolute or the idle timeout, or the logout of the session's owner.
EndSession(s) ==
    /\ session[s].state = "live"
    /\ session' = [session EXCEPT ![s] = NoSession]
    /\ UNCHANGED <<account, call, collided>>

\* AuthGuard.canActivate for a route of administrators.
Authorise(r, s, what, on) ==
    /\ call[r].pc = "idle"
    /\ session[s].state = "live"
    /\ session[s].of \in ActiveAdmins
    /\ call' = [call EXCEPT ![r] = [NoCall EXCEPT !.pc = "authorised", !.by = session[s].of,
                                    !.under = s, !.what = what, !.on = on]]
    /\ UNCHANGED <<account, session, collided>>

Answered(r) == call' = [call EXCEPT ![r] = NoCall]

\* create and bulkCreate: a user name that is taken is refused or skipped.
CreateAccount(r, admin, enabled) ==
    /\ call[r].pc = "authorised" /\ call[r].what = "create"
    /\ account' = [account EXCEPT ![call[r].on] =
                     IF @.state # "never" THEN @
                     ELSE [state |-> "exists", admin |-> admin, enabled |-> enabled, password |-> 1]]
    /\ Answered(r)
    /\ UNCHANGED <<session, collided>>

\* Does the change take the account out of the active administrators?
Unseats(row, what) == row.admin /\ row.enabled /\ what \in {"demote", "disable", "delete"}

AllowedIfNotSelf(r) == call[r].on = call[r].by => call[r].what \notin {"demote", "disable", "delete"}

\* The guards of update and remove.
Allowed(r) ==
    /\ call[r].on = call[r].by => call[r].what \notin {"demote", "disable", "delete"}
    /\ Unseats(account[call[r].on], call[r].what) => Cardinality(ActiveAdmins) > 1

\* The transaction of update or remove reads the account and counts the
\* administrators; what its guards refuse is answered with an error.
BeginChange(r) ==
    /\ call[r].pc = "authorised" /\ call[r].what \in Patches \union {"delete"}
    /\ IF Exists(call[r].on) /\ Allowed(r)
       THEN call' = [call EXCEPT ![r] = [NoCall EXCEPT !.pc = "decided", !.what = call[r].what,
                          !.on = call[r].on, !.sawEnabled = account[call[r].on].enabled]]
       ELSE Answered(r)
    /\ UNCHANGED <<account, session, collided>>

\* Transactions of changes that are open.
Open == {r \in Calls : call[r].pc = "decided"}

EndsOnDisableOnly(what, wasEnabled, isEnabled) == wasEnabled /\ ~isEnabled

\* Does a change end the sessions of its account?  wasEnabled is what the
\* transaction read, isEnabled what it wrote.
EndsSessions(what, wasEnabled, isEnabled) == what = "password" \/ (wasEnabled /\ ~isEnabled)

\* The account's sessions once they are revoked.  A login between its password
\* check and its session is not among them.
Revoked(a) ==
    [s \in Sessions |->
       CASE session[s].of = a /\ session[s].state = "live"     -> NoSession
         [] session[s].of = a /\ session[s].state = "verified" -> [session[s] EXCEPT !.raced = TRUE]
         [] OTHER -> session[s]]

\* update writes the patched columns over the row as it is now.
CommitUpdate(r) ==
    LET a     == call[r].on
        after == Patched(account[a], call[r].what)
    IN  /\ call[r].pc = "decided" /\ call[r].what \in Patches
        /\ call[r].what = "password" => account[a].password < MaxPassword
        /\ account' = IF Exists(a) THEN [account EXCEPT ![a] = after] ELSE account
        /\ session' = IF Exists(a) /\ EndsSessions(call[r].what, call[r].sawEnabled, after.enabled)
                      THEN Revoked(a) ELSE session
        /\ collided' = (collided \/ Open # {r})
        /\ Answered(r)

\* remove; the sessions of the account go with it.
CommitRemove(r) ==
    LET a == call[r].on
    IN  /\ call[r].pc = "decided" /\ call[r].what = "delete"
        /\ account' = [account EXCEPT ![a] = [NoAccount EXCEPT !.state = "deleted"]]
        /\ session' = [s \in Sessions |-> IF session[s].of = a /\ session[s].state = "live"
                                          THEN NoSession ELSE session[s]]
        /\ collided' = (collided \/ Open # {r})
        /\ Answered(r)

\* revokeOne and revokeAll; a session cannot revoke itself alone.
RevokeOne(r, s) ==
    /\ call[r].pc = "authorised" /\ call[r].what = "revoke"
    /\ session' = IF s # call[r].under /\ session[s].state = "live"
                  THEN [session EXCEPT ![s] = NoSession] ELSE session
    /\ Answered(r)
    /\ UNCHANGED <<account, collided>>

RevokeAll(r) ==
    /\ call[r].pc = "authorised" /\ call[r].what = "revoke"
    /\ session' = [s \in Sessions |-> IF session[s].state = "live" THEN NoSession ELSE session[s]]
    /\ Answered(r)
    /\ UNCHANGED <<account, collided>>

AccountsNext ==
    \/ \E s \in Sessions : \/ \E a \in People : VerifyPassword(s, a)
                           \/ StartSession(s)
                           \/ EndSession(s)
    \/ \E r \in Calls :
         \/ \E s \in Sessions, what \in Patches \union {"create", "delete"}, on \in People :
              Authorise(r, s, what, on)
         \/ \E s \in Sessions : Authorise(r, s, "revoke", FirstAdmin)
         \/ \E admin, enabled \in BOOLEAN : CreateAccount(r, admin, enabled)
         \/ BeginChange(r) \/ CommitUpdate(r) \/ CommitRemove(r)
         \/ \E s \in Sessions : RevokeOne(r, s)
         \/ RevokeAll(r)

AccountsSpec == AccountsInit /\ [][AccountsNext]_accountVars
-----------------------------------------------------------------------------
\* Every variable keeps its type, and a live session is one of an account that exists.
AccountsTypeOK ==
    /\ account \in [People -> Accts]
    /\ session \in [Sessions -> Logins]
    /\ call \in [Calls -> Requests]
    /\ \A s \in Sessions : session[s].state = "live" => Exists(session[s].of)
    /\ collided \in BOOLEAN

\* The message of the guard (accounts.service.ts:191, 243): at least one active
\* administrator is needed.
AnAdministratorIsActive == ActiveAdmins # {}

\* The last active administrator is lost in no other way than by changes whose
\* transactions overlapped: a request whose sender was demoted or disabled after
\* the guard had let it through is refused.
LastAdministratorStays == collided \/ ActiveAdmins # {}

\* A session outlives a new password only if its login had checked the old one
\* before and made the session after; and it is live on a disabled account only
\* then, or when the disabling transaction overlapped one that enabled.
SessionMatchesPassword ==
    \A s \in Sessions : session[s].state = "live" /\ ~session[s].raced =>
        LET row == account[session[s].of]
        IN  /\ row.password = session[s].password
            /\ row.enabled \/ collided
=============================================================================
