---------------------------- MODULE AccountsProofs ----------------------------
(***************************************************************************)
(* Proofs about Accounts for any people, sessions and requests, and any    *)
(* number of passwords.                                                    *)
(***************************************************************************)
EXTENDS Accounts, FiniteSetTheorems, TLAPS

\* A decision that is still to be written rests on the account as it is, unless
\* changes overlapped: the account exists, is enabled as it was read, and is not
\* the only active administrator if the change unseats it.
DecisionsStand ==
    collided \/ \A r \in Calls : call[r].pc = "decided" =>
        LET row == account[call[r].on]
        IN  /\ Exists(call[r].on)
            /\ call[r].sawEnabled = row.enabled
            /\ Unseats(row, call[r].what) => ActiveAdmins \ {call[r].on} # {}

\* What SessionMatchesPassword says, already while the session is being made.
LoginsMatch ==
    \A s \in Sessions : session[s].state # "none" /\ ~session[s].raced =>
        LET row == account[session[s].of]
        IN  /\ row.state # "never"
            /\ row.state = "exists" => /\ row.password = session[s].password
                                       /\ row.enabled \/ collided

AccountsInv == AccountsTypeOK /\ LastAdministratorStays /\ DecisionsStand /\ LoginsMatch
-----------------------------------------------------------------------------
\* The constants of rest are of their types.
LEMMA RestTypes == NoAccount \in Accts /\ NoSession \in Logins /\ NoCall \in Requests
BY AccountsAssumption DEF NoAccount, NoSession, NoCall, Accts, Logins, Requests, Patches

\* A patch keeps the type of a row, and the existence of its account; only a new
\* password changes the password (accounts.service.ts:195-203).
LEMMA PatchedRow ==
    ASSUME NEW row \in Accts, NEW what \in Patches,
           what = "password" => row.password < MaxPassword
    PROVE  /\ Patched(row, what) \in Accts
           /\ Patched(row, what).state = row.state
           /\ what # "password" => Patched(row, what).password = row.password
           /\ what \notin {"disable", "enable"} => Patched(row, what).enabled = row.enabled
           /\ ~Unseats(row, what) /\ row.admin /\ row.enabled =>
                 Patched(row, what).admin /\ Patched(row, what).enabled
<1> USE DEF Accts, Patches, Unseats
<1>1. CASE what = "demote"
  <2>1. Patched(row, what) = [row EXCEPT !.admin = FALSE]
    BY <1>1 DEF Patched
  <2>2. QED BY <1>1, <2>1
<1>2. CASE what = "promote"
  <2>1. Patched(row, what) = [row EXCEPT !.admin = TRUE]
    BY <1>2 DEF Patched
  <2>2. QED BY <1>2, <2>1
<1>3. CASE what = "disable"
  <2>1. Patched(row, what) = [row EXCEPT !.enabled = FALSE]
    BY <1>3 DEF Patched
  <2>2. QED BY <1>3, <2>1
<1>4. CASE what = "enable"
  <2>1. Patched(row, what) = [row EXCEPT !.enabled = TRUE]
    BY <1>4 DEF Patched
  <2>2. QED BY <1>4, <2>1
<1>5. CASE what = "password"
  <2>1. Patched(row, what) = [row EXCEPT !.password = @ + 1]
    BY <1>5 DEF Patched
  <2>2. row.password + 1 \in 1..MaxPassword
    BY <1>5, AccountsAssumption
  <2>3. QED BY <1>5, <2>1, <2>2
<1>6. QED BY <1>1, <1>2, <1>3, <1>4, <1>5

\* More than one active administrator leaves one beside any account: the count of
\* the guard (accounts.service.ts:187-192).
LEMMA AnotherAdmin ==
    ASSUME NEW a, Cardinality(ActiveAdmins) > 1
    PROVE  ActiveAdmins \ {a} # {}
<1> SUFFICES ASSUME ActiveAdmins \subseteq {a} PROVE FALSE
  OBVIOUS
<1>1. IsFiniteSet({a}) /\ Cardinality({a}) = 1
  BY FS_Singleton
<1>2. Cardinality(ActiveAdmins) <= 1
  BY <1>1, FS_Subset
<1>3. IsFiniteSet(ActiveAdmins)
  BY <1>1, FS_Subset
<1>4. Cardinality(ActiveAdmins) \in Nat
  BY <1>3, FS_CardinalityType
<1>5. QED BY <1>2, <1>4
-----------------------------------------------------------------------------
\* The invariant holds once bootstrap-admin has run.
LEMMA AccountsInitInv == AccountsInit => AccountsInv
<1> SUFFICES ASSUME AccountsInit PROVE AccountsInv
  OBVIOUS
<1> USE DEF AccountsInit
<1>1. AccountsTypeOK
  <2>1. [state |-> "exists", admin |-> TRUE, enabled |-> TRUE, password |-> 1] \in Accts
    BY AccountsAssumption DEF Accts
  <2>2. QED BY <2>1, RestTypes DEF AccountsTypeOK, NoSession
<1>2. FirstAdmin \in ActiveAdmins
  BY AccountsAssumption DEF ActiveAdmins, Exists
<1>3. LastAdministratorStays
  BY <1>2 DEF LastAdministratorStays
<1>4. DecisionsStand /\ LoginsMatch
  BY DEF DecisionsStand, LoginsMatch, NoCall, NoSession
<1>5. QED BY <1>1, <1>3, <1>4 DEF AccountsInv

\* A step that leaves the accounts alone keeps the administrators.
LEMMA SameAccounts ==
    ASSUME UNCHANGED <<account, collided>>
    PROVE  /\ ActiveAdmins' = ActiveAdmins
           /\ \A a : Exists(a)' <=> Exists(a)
           /\ LastAdministratorStays => LastAdministratorStays'
BY DEF ActiveAdmins, Exists, LastAdministratorStays

\* Logins and logouts (auth.controller.ts, sessions.service.ts).
LEMMA LoginStep ==
    ASSUME AccountsInv, NEW s \in Sessions,
           (\E a \in People : VerifyPassword(s, a)) \/ StartSession(s) \/ EndSession(s)
    PROVE  AccountsInv'
<1> USE DEF AccountsInv
<1>0. UNCHANGED <<account, call, collided>>
  BY DEF VerifyPassword, StartSession, EndSession
<1>1. AccountsTypeOK'
  <2> USE RestTypes DEF AccountsTypeOK
  <2>1. [session[s] EXCEPT !.state = "live"] \in Logins
    BY DEF Logins
  <2>2. ASSUME NEW a \in People, VerifyPassword(s, a) PROVE session' \in [Sessions -> Logins]
    BY <2>2 DEF VerifyPassword, Logins, Accts
  <2>3. CASE StartSession(s) /\ Exists(session[s].of)
    BY <1>0, <2>1, <2>3 DEF StartSession, Exists, Logins
  <2>4. CASE StartSession(s) /\ ~Exists(session[s].of)
    BY <1>0, <2>4 DEF StartSession, Exists, NoSession
  <2>5. CASE EndSession(s)
    BY <1>0, <2>5 DEF EndSession, Exists, NoSession
  <2>6. QED BY <1>0, <2>2, <2>3, <2>4, <2>5 DEF VerifyPassword, Exists
<1>2. DecisionsStand'
  BY <1>0, SameAccounts DEF DecisionsStand
<1>3. LoginsMatch'
  BY <1>0 DEF AccountsTypeOK, LoginsMatch, VerifyPassword, StartSession, EndSession, NoSession, Exists,
                 Logins
<1>4. QED BY <1>0, <1>1, <1>2, <1>3, SameAccounts

\* The guard lets a request through (auth.guard.ts).
LEMMA AuthoriseStep ==
    ASSUME AccountsInv, NEW r \in Calls, NEW s \in Sessions,
           NEW what \in Patches \union {"create", "delete", "revoke"}, NEW on \in People,
           Authorise(r, s, what, on)
    PROVE  AccountsInv'
<1> USE DEF AccountsInv
<1> DEFINE new == [NoCall EXCEPT !.pc = "authorised", !.by = session[s].of,
                                 !.under = s, !.what = what, !.on = on]
<1>0. UNCHANGED <<account, session, collided>>
  BY DEF Authorise
<1>1. new \in Requests /\ new.pc = "authorised"
  BY DEF NoCall, Requests, AccountsTypeOK, Logins
<1>2. call' = [call EXCEPT ![r] = new]
  BY DEF Authorise
<1>3. AccountsTypeOK'
  BY <1>0, <1>1, <1>2 DEF AccountsTypeOK, Exists
<1>4. DecisionsStand'
  <2> HIDE DEF new
  <2>1. \A q \in Calls : call'[q].pc = "decided" => call'[q] = call[q] /\ call[q].pc = "decided"
    BY <1>1, <1>2 DEF AccountsTypeOK
  <2>2. QED BY <1>0, <2>1, SameAccounts DEF DecisionsStand
<1>5. LoginsMatch'
  BY <1>0 DEF LoginsMatch
<1>6. QED BY <1>0, <1>3, <1>4, <1>5, SameAccounts

\* An answered request leaves no decision behind.
LEMMA AnsweredCalls ==
    ASSUME AccountsTypeOK, NEW r \in Calls, Answered(r)
    PROVE  /\ call' \in [Calls -> Requests]
           /\ \A q \in Calls : call'[q].pc = "decided" => q # r /\ call'[q] = call[q]
BY RestTypes DEF AccountsTypeOK, Answered, NoCall

\* The transaction of a change begins: what its guards let through is a decision
\* on the account as it is (accounts.service.ts:168-193, 232-246).
LEMMA BeginChangeStep ==
    ASSUME AccountsInv, NEW r \in Calls, BeginChange(r)
    PROVE  AccountsInv'
<1> USE DEF AccountsInv
<1> DEFINE a    == call[r].on
           new == [NoCall EXCEPT !.pc = "decided", !.what = call[r].what, !.on = call[r].on,
                                 !.sawEnabled = account[call[r].on].enabled]
<1>0. UNCHANGED <<account, session, collided>>
  BY DEF BeginChange
<1>1. call[r] \in Requests /\ a \in People /\ account[a] \in Accts
  BY DEF AccountsTypeOK, Requests
<1>2. /\ new \in Requests
      /\ new.on = a /\ new.what = call[r].what /\ new.sawEnabled = account[a].enabled
  <2> DEFINE e == account[a].enabled
  <2>1. e \in BOOLEAN
    BY <1>1 DEF Accts
  <2>2. NoCall \in Requests
    BY RestTypes
  <2> HIDE DEF e, NoCall
  <2>3. DEFINE seen == [NoCall EXCEPT !.pc = "decided", !.what = call[r].what, !.on = a,
                                      !.sawEnabled = e]
  <2>4. seen \in Requests /\ seen.on = a /\ seen.what = call[r].what
    BY <1>1, <2>1, <2>2 DEF Requests
  <2>5. seen.sawEnabled = e
    BY <2>2 DEF Requests
  <2>6. QED BY <2>4, <2>5 DEF e
<1>3. CASE ~(Exists(a) /\ Allowed(r))
  <2>1. Answered(r)
    BY <1>3 DEF BeginChange
  <2>2. AccountsTypeOK'
    BY <1>0, <2>1, AnsweredCalls DEF AccountsTypeOK, Exists
  <2>3. DecisionsStand'
    BY <1>0, <2>1, AnsweredCalls, SameAccounts DEF DecisionsStand
  <2>4. LoginsMatch'
    BY <1>0 DEF LoginsMatch
  <2>5. QED BY <1>0, <2>2, <2>3, <2>4, SameAccounts
<1>4. CASE Exists(a) /\ Allowed(r)
  <2>1. call' = [call EXCEPT ![r] = new]
    BY <1>4 DEF BeginChange
  <2>2. AccountsTypeOK'
    BY <1>0, <1>2, <2>1 DEF AccountsTypeOK, Exists
  <2>3. Unseats(account[a], call[r].what) => ActiveAdmins \ {a} # {}
    BY <1>4, AnotherAdmin DEF Allowed
  <2>4. /\ call'[r] = new
        /\ \A q \in Calls \ {r} : call'[q] = call[q]
    BY <2>1 DEF AccountsTypeOK
  <2>5. DecisionsStand'
    <3> HIDE DEF new
    <3> SUFFICES ASSUME ~collided, NEW q \in Calls, call'[q].pc = "decided"
                 PROVE  /\ Exists(call'[q].on)
                        /\ call'[q].sawEnabled = account[call'[q].on].enabled
                        /\ Unseats(account[call'[q].on], call'[q].what)
                              => ActiveAdmins \ {call'[q].on} # {}
      BY <1>0, SameAccounts DEF DecisionsStand
    <3>1. CASE q = r
      BY <3>1, <1>2, <1>4, <2>3, <2>4
    <3>2. CASE q # r
      BY <3>2, <2>4 DEF DecisionsStand
    <3>3. QED BY <3>1, <3>2
  <2>6. LoginsMatch'
    BY <1>0 DEF LoginsMatch
  <2>7. QED BY <1>0, <2>2, <2>5, <2>6, SameAccounts
<1>5. QED BY <1>3, <1>4

\* revokeOne and revokeAll (sessions.service.ts).
LEMMA RevokeStep ==
    ASSUME AccountsInv, NEW r \in Calls, RevokeAll(r) \/ \E s \in Sessions : RevokeOne(r, s)
    PROVE  AccountsInv'
<1> USE DEF AccountsInv
<1>0. UNCHANGED <<account, collided>> /\ Answered(r)
  BY DEF RevokeOne, RevokeAll
<1>1. \A s \in Sessions : session'[s] \in {session[s], NoSession}
  BY DEF RevokeOne, RevokeAll, AccountsTypeOK
<1>2. session' \in [Sessions -> Logins]
  BY RestTypes DEF RevokeOne, RevokeAll, AccountsTypeOK
<1>3. AccountsTypeOK'
  BY <1>0, <1>1, <1>2, AnsweredCalls DEF AccountsTypeOK, NoSession, Exists
<1>4. DecisionsStand'
  BY <1>0, AnsweredCalls, SameAccounts DEF DecisionsStand
<1>5. LoginsMatch'
  BY <1>0, <1>1 DEF LoginsMatch, NoSession
<1>6. QED BY <1>0, <1>3, <1>4, <1>5, SameAccounts

\* A new account changes no decision and no session, as nobody has seen it yet.
LEMMA CreateStep ==
    ASSUME AccountsInv, NEW r \in Calls, NEW admin \in BOOLEAN, NEW enabled \in BOOLEAN,
           CreateAccount(r, admin, enabled)
    PROVE  AccountsInv'
<1> USE DEF AccountsInv
<1> DEFINE a == call[r].on
<1>0. UNCHANGED <<session, collided>> /\ Answered(r) /\ a \in People
  BY DEF CreateAccount, AccountsTypeOK, Requests
<1>1. /\ account' \in [People -> Accts]
      /\ \A b \in People : account[b].state # "never" => account'[b] = account[b]
      /\ \A b \in People : account[b].state = "never" /\ b # a => account'[b] = account[b]
  <2>1. [state |-> "exists", admin |-> admin, enabled |-> enabled, password |-> 1] \in Accts
    BY AccountsAssumption DEF Accts
  <2>2. CASE account[a].state = "never"
    BY <2>1, <2>2, <1>0 DEF CreateAccount, AccountsTypeOK
  <2>3. CASE account[a].state # "never"
    BY <2>3, <1>0 DEF CreateAccount, AccountsTypeOK
  <2>4. QED BY <2>2, <2>3
<1>2. \A b \in People : Exists(b) => Exists(b)' /\ account'[b] = account[b]
  BY <1>1 DEF Exists
<1>3. ActiveAdmins \subseteq ActiveAdmins'
  BY <1>2 DEF ActiveAdmins
<1>4. AccountsTypeOK'
  BY <1>0, <1>1, <1>2, AnsweredCalls DEF AccountsTypeOK, Logins
<1>5. LastAdministratorStays'
  BY <1>0, <1>3 DEF LastAdministratorStays
<1>6. DecisionsStand'
  <2>1. \A q \in Calls : call'[q].pc = "decided" =>
           call'[q] = call[q] /\ call[q].pc = "decided" /\ call[q].on \in People
    BY <1>0, AnsweredCalls DEF AccountsTypeOK, Requests
  <2>3. ASSUME ~collided, NEW q \in Calls, call'[q].pc = "decided"
        PROVE  /\ Exists(call[q].on)'
               /\ call'[q].sawEnabled = account'[call'[q].on].enabled
               /\ Unseats(account'[call'[q].on], call'[q].what)
                     => ActiveAdmins' \ {call'[q].on} # {}
    <3>1. /\ Exists(call[q].on)
          /\ call[q].sawEnabled = account[call[q].on].enabled
          /\ Unseats(account[call[q].on], call[q].what) => ActiveAdmins \ {call[q].on} # {}
      BY <2>1, <2>3 DEF DecisionsStand
    <3>2. account'[call[q].on] = account[call[q].on] /\ call'[q] = call[q]
      BY <1>2, <2>1, <2>3, <3>1
    <3>3. Exists(call[q].on)'
      BY <2>1, <2>3, <3>1, <3>2, <1>2 DEF Exists
    <3>4. QED BY <1>3, <3>1, <3>2, <3>3
  <2>4. QED BY <1>0, <2>3 DEF DecisionsStand
<1>7. LoginsMatch'
  BY <1>0, <1>1 DEF LoginsMatch, AccountsTypeOK, Logins
<1>8. QED BY <1>4, <1>5, <1>6, <1>7

\* When the only open transaction commits, no decision is left.
LEMMA LastDecision ==
    ASSUME AccountsTypeOK, NEW r \in Calls, Answered(r), collided' = (collided \/ Open # {r})
    PROVE  DecisionsStand'
<1>1. \A q \in Calls : call'[q].pc = "decided" => q \in Open \ {r}
  BY AnsweredCalls DEF Open
<1>2. QED BY <1>1 DEF DecisionsStand

\* What a patch makes of the account it is for (accounts.service.ts:195-230).
LEMMA UpdatedAccounts ==
    ASSUME AccountsTypeOK, NEW r \in Calls, CommitUpdate(r)
    PROVE  LET a == call[r].on
               after == Patched(account[a], call[r].what)
           IN  /\ a \in People /\ call[r].what \in Patches
               /\ after \in Accts
               /\ account' \in [People -> Accts]
               /\ \A b \in People : Exists(b)' <=> Exists(b)
               /\ \A b \in People : account'[b].state = account[b].state
               /\ \A b \in People \ {a} : account'[b] = account[b]
               /\ Exists(a) => account'[a] = after
               /\ ~Exists(a) => account' = account
<1> DEFINE a == call[r].on
           after == Patched(account[a], call[r].what)
<1>1. a \in People /\ call[r].what \in Patches /\ account[a] \in Accts
  BY DEF CommitUpdate, AccountsTypeOK, Requests
<1>2. after \in Accts /\ after.state = account[a].state
  BY <1>1, PatchedRow DEF CommitUpdate
<1> HIDE DEF after
<1>3. CASE Exists(a)
  <2>1. account' = [account EXCEPT ![a] = after]
    BY <1>3 DEF CommitUpdate, after
  <2>2. QED BY <1>1, <1>2, <1>3, <2>1 DEF Exists, AccountsTypeOK, after
<1>4. CASE ~Exists(a)
  BY <1>1, <1>2, <1>4 DEF CommitUpdate, Exists, AccountsTypeOK, after
<1>5. QED BY <1>3, <1>4

\* An update keeps an active administrator, unless another change was open
\* (accounts.service.ts:187-193 and 195).
LEMMA UpdateKeepsAdmin ==
    ASSUME AccountsInv, NEW r \in Calls, CommitUpdate(r)
    PROVE  LastAdministratorStays'
<1> USE DEF AccountsInv
<1> DEFINE a == call[r].on
           after == Patched(account[a], call[r].what)
<1> SUFFICES ASSUME ~collided, Open = {r} PROVE ActiveAdmins' # {}
  BY DEF CommitUpdate, LastAdministratorStays
<1>1. /\ a \in People /\ account[a] \in Accts
      /\ call[r].pc = "decided" /\ Exists(a)
      /\ Unseats(account[a], call[r].what) => ActiveAdmins \ {a} # {}
  BY UpdatedAccounts DEF CommitUpdate, DecisionsStand, AccountsTypeOK
<1>2. \A b \in People \ {a} : account'[b] = account[b]
  BY UpdatedAccounts
<1>3. CASE Unseats(account[a], call[r].what)
  BY <1>1, <1>2, <1>3 DEF ActiveAdmins, Exists
<1>4. CASE ~Unseats(account[a], call[r].what)
  <2>1. PICK b \in ActiveAdmins : TRUE
    BY DEF LastAdministratorStays
  <2>2. CASE b # a
    BY <1>2, <2>1, <2>2 DEF ActiveAdmins, Exists
  <2>3. CASE b = a
    <3>1. account[a].admin /\ account[a].enabled
      BY <2>1, <2>3 DEF ActiveAdmins
    <3>2. after.admin /\ after.enabled
      BY <1>1, <1>4, <3>1, PatchedRow DEF CommitUpdate
    <3>3. account'[a] = after
      BY <1>1, UpdatedAccounts
    <3>4. account'[a].state = "exists"
      BY <1>1, UpdatedAccounts DEF Exists
    <3> HIDE DEF after
    <3>5. a \in ActiveAdmins'
      BY <1>1, <3>2, <3>3, <3>4 DEF ActiveAdmins, Exists
    <3>6. QED BY <3>5
  <2>4. QED BY <2>2, <2>3
<1>5. QED BY <1>3, <1>4

\* After an update the sessions match the account again: the revocation reaches
\* every session but one whose login is under way (accounts.service.ts:204-208).
LEMMA UpdateEndsSessions ==
    ASSUME AccountsInv, NEW r \in Calls, CommitUpdate(r)
    PROVE  /\ session' \in [Sessions -> Logins]
           /\ \A s \in Sessions : session'[s].state = "live" => session'[s] = session[s]
           /\ LoginsMatch'
<1> USE DEF AccountsInv
<1> DEFINE a == call[r].on
           after == Patched(account[a], call[r].what)
           ends == Exists(a) /\ EndsSessions(call[r].what, call[r].sawEnabled, after.enabled)
<1>1. session' = IF ends THEN Revoked(a) ELSE session
  BY DEF CommitUpdate
<1>2. \A s \in Sessions : Revoked(a)[s] \in Logins
  <2>1. \A s \in Sessions : [session[s] EXCEPT !.raced = TRUE] \in Logins
    BY DEF AccountsTypeOK, Logins
  <2>2. QED BY <2>1, RestTypes DEF Revoked, AccountsTypeOK
<1>3. session' \in [Sessions -> Logins]
  BY <1>1, <1>2 DEF Revoked, AccountsTypeOK
<1>4. \A s \in Sessions : session'[s].state = "live" => session'[s] = session[s]
  <2>1. \A s \in Sessions : [session[s] EXCEPT !.raced = TRUE].state = session[s].state
    BY DEF AccountsTypeOK, Logins
  <2>2. QED BY <1>1, <2>1 DEF Revoked, NoSession
<1>5. \A s \in Sessions : session'[s].state # "none" /\ ~session'[s].raced =>
         session'[s] = session[s] /\ (session[s].of = a => ~ends)
  <2>1. \A s \in Sessions : [session[s] EXCEPT !.raced = TRUE].raced
    BY DEF AccountsTypeOK, Logins
  <2>2. \A s \in Sessions : session[s].state \in {"none", "verified", "live"}
    BY DEF AccountsTypeOK, Logins
  <2>3. CASE ends
    BY <1>1, <2>1, <2>2, <2>3 DEF Revoked, NoSession
  <2>4. CASE ~ends
    BY <1>1, <2>4
  <2>5. QED BY <2>3, <2>4
<1>6. ASSUME NEW s \in Sessions, session'[s].state # "none", ~session'[s].raced
      PROVE  LET row == account'[session'[s].of]
             IN  /\ row.state # "never"
                 /\ row.state = "exists" => /\ row.password = session'[s].password
                                            /\ row.enabled \/ collided'
  <2> DEFINE b == session[s].of
  <2>1. /\ session'[s] = session[s] /\ b \in People
        /\ session[s].state # "none" /\ ~session[s].raced
        /\ b = a => ~ends
    BY <1>5, <1>6 DEF AccountsTypeOK, Logins
  <2>2. /\ account[b].state # "never"
        /\ account[b].state = "exists" => /\ account[b].password = session[s].password
                                          /\ account[b].enabled \/ collided
    BY <2>1 DEF LoginsMatch
  <2>3. account'[b].state = account[b].state
    BY <2>1, UpdatedAccounts
  <2>4. CASE account'[b] = account[b]
    BY <2>1, <2>2, <2>4 DEF CommitUpdate
  <2>5. CASE b = a /\ Exists(a)
    <3>1. account'[a] = after /\ account[a] \in Accts /\ call[r].what \in Patches
      BY <2>1, <2>5, UpdatedAccounts DEF AccountsTypeOK
    <3>2. call[r].what # "password" /\ ~(call[r].sawEnabled /\ ~after.enabled)
      BY <2>1, <2>5 DEF EndsSessions
    <3>3. after.password = account[a].password
      BY <3>1, <3>2, PatchedRow DEF CommitUpdate
    <3>4. collided \/ call[r].sawEnabled = account[a].enabled
      BY DEF DecisionsStand, CommitUpdate
    <3>5. CASE collided'
      BY <2>1, <2>2, <2>3, <2>5, <3>1, <3>3, <3>5
    <3>6. CASE ~collided'
      <4>1. ~collided
        BY <3>6 DEF CommitUpdate
      <4>2. after.enabled
        BY <2>2, <2>5, <3>2, <3>4, <4>1 DEF Exists
      <4>3. QED BY <2>1, <2>2, <2>3, <2>5, <3>1, <3>3, <4>2
    <3>7. QED BY <3>5, <3>6
  <2>6. account'[b] = account[b] \/ (b = a /\ Exists(a))
    BY <2>1, UpdatedAccounts
  <2>7. QED BY <2>4, <2>5, <2>6
<1>7. LoginsMatch'
  BY <1>6 DEF LoginsMatch
<1>8. QED BY <1>3, <1>4, <1>7

\* A patch of an account (accounts.service.ts:166-217).
LEMMA UpdateStep ==
    ASSUME AccountsInv, NEW r \in Calls, CommitUpdate(r)
    PROVE  AccountsInv'
<1> USE DEF AccountsInv
<1>0. Answered(r) /\ collided' = (collided \/ Open # {r})
  BY DEF CommitUpdate
<1>1. account' \in [People -> Accts] /\ \A b \in People : Exists(b)' <=> Exists(b)
  BY UpdatedAccounts
<1>2. AccountsTypeOK'
  <2>1. collided' \in BOOLEAN
    BY <1>0 DEF AccountsTypeOK
  <2>2. \A s \in Sessions : session'[s].state = "live" => account'[session'[s].of].state = "exists"
    <3> SUFFICES ASSUME NEW s \in Sessions, session'[s].state = "live"
                 PROVE  account'[session'[s].of].state = "exists"
      OBVIOUS
    <3>1. session'[s] = session[s]
      BY UpdateEndsSessions
    <3>2. session[s].of \in People /\ account[session[s].of].state = "exists"
      BY <3>1 DEF AccountsTypeOK, Logins, Exists
    <3>3. QED BY <3>1, <3>2, UpdatedAccounts
  <2>3. session' \in [Sessions -> Logins] /\ call' \in [Calls -> Requests]
    BY <1>0, UpdateEndsSessions, AnsweredCalls
  <2>4. QED BY <1>1, <2>1, <2>2, <2>3 DEF AccountsTypeOK, Exists
<1>3. QED BY <1>0, <1>2, UpdateKeepsAdmin, UpdateEndsSessions, LastDecision

\* The deletion of an account (accounts.service.ts:232-252): its live sessions
\* go, and a login that is under way can no longer make one.
LEMMA RemoveStep ==
    ASSUME AccountsInv, NEW r \in Calls, CommitRemove(r)
    PROVE  AccountsInv'
<1> USE DEF AccountsInv
<1> DEFINE a    == call[r].on
           gone == [NoAccount EXCEPT !.state = "deleted"]
<1>0. Answered(r) /\ collided' = (collided \/ Open # {r})
  BY DEF CommitRemove
<1>1. a \in People /\ gone \in Accts /\ gone.state = "deleted"
  BY RestTypes DEF AccountsTypeOK, Requests, Accts
<1>2. /\ account' \in [People -> Accts]
      /\ account'[a] = gone
      /\ \A b \in People \ {a} : account'[b] = account[b]
  BY <1>1 DEF CommitRemove, AccountsTypeOK
<1> HIDE DEF gone
<1>3. \A s \in Sessions : session'[s] \in {session[s], NoSession}
                         /\ (session'[s].state = "live" => session[s].of # a /\ session'[s] = session[s])
  BY DEF CommitRemove, NoSession
<1>4. AccountsTypeOK'
  <2>1. collided' \in BOOLEAN
    BY <1>0 DEF AccountsTypeOK
  <2>2. session' \in [Sessions -> Logins]
    BY RestTypes DEF CommitRemove, AccountsTypeOK
  <2>3. \A s \in Sessions : session'[s].state = "live" => account'[session'[s].of].state = "exists"
    BY <1>2, <1>3 DEF AccountsTypeOK, Logins, Exists
  <2>4. QED BY <1>0, <1>2, <2>1, <2>2, <2>3, AnsweredCalls DEF AccountsTypeOK, Exists
<1>5. LastAdministratorStays'
  <2> SUFFICES ASSUME ~collided, Open = {r} PROVE ActiveAdmins' # {}
    BY <1>0 DEF LastAdministratorStays
  <2>1. Unseats(account[a], "delete") => ActiveAdmins \ {a} # {}
    BY DEF DecisionsStand, CommitRemove
  <2>2. PICK b \in ActiveAdmins : b # a
    BY <2>1 DEF LastAdministratorStays, ActiveAdmins, Unseats
  <2>3. b \in ActiveAdmins'
    BY <1>2, <2>2 DEF ActiveAdmins, Exists
  <2>4. QED BY <2>3
<1>6. DecisionsStand'
  BY <1>0, LastDecision
<1>7. LoginsMatch'
  <2> SUFFICES ASSUME NEW s \in Sessions, session'[s].state # "none", ~session'[s].raced
               PROVE  LET row == account'[session'[s].of]
                      IN  /\ row.state # "never"
                          /\ row.state = "exists" => /\ row.password = session'[s].password
                                                     /\ row.enabled \/ collided'
    BY DEF LoginsMatch
  <2>1. session'[s] = session[s] /\ session[s].of \in People
    BY <1>3 DEF NoSession, AccountsTypeOK, Logins
  <2>2. CASE session[s].of = a
    BY <1>1, <1>2, <2>1, <2>2
  <2>3. CASE session[s].of # a
    BY <1>0, <1>2, <2>1, <2>3 DEF LoginsMatch
  <2>4. QED BY <2>2, <2>3
<1>8. QED BY <1>4, <1>5, <1>6, <1>7
-----------------------------------------------------------------------------
\* Every step of logins, logouts and requests keeps the invariant.
LEMMA NextInv == AccountsInv /\ [AccountsNext]_accountVars => AccountsInv'
<1> SUFFICES ASSUME AccountsInv, [AccountsNext]_accountVars PROVE AccountsInv'
  OBVIOUS
<1>1. CASE \E s \in Sessions : (\E a \in People : VerifyPassword(s, a)) \/ StartSession(s) \/ EndSession(s)
  BY <1>1, LoginStep
<1>2. ASSUME NEW r \in Calls, NEW s \in Sessions, NEW what \in Patches \union {"create", "delete"},
             NEW on \in People, Authorise(r, s, what, on)
      PROVE  AccountsInv'
  BY <1>2, AuthoriseStep
<1>3. ASSUME NEW r \in Calls, NEW s \in Sessions, Authorise(r, s, "revoke", FirstAdmin) PROVE AccountsInv'
  BY <1>3, AuthoriseStep, AccountsAssumption
<1>4. ASSUME NEW r \in Calls, NEW admin \in BOOLEAN, NEW enabled \in BOOLEAN,
             CreateAccount(r, admin, enabled)
      PROVE  AccountsInv'
  BY <1>4, CreateStep
<1>5. ASSUME NEW r \in Calls, BeginChange(r) PROVE AccountsInv'
  BY <1>5, BeginChangeStep
<1>6. ASSUME NEW r \in Calls, CommitUpdate(r) PROVE AccountsInv'
  BY <1>6, UpdateStep
<1>7. ASSUME NEW r \in Calls, CommitRemove(r) PROVE AccountsInv'
  BY <1>7, RemoveStep
<1>8. ASSUME NEW r \in Calls, RevokeAll(r) \/ \E s \in Sessions : RevokeOne(r, s) PROVE AccountsInv'
  BY <1>8, RevokeStep
<1>9. CASE UNCHANGED accountVars
  BY <1>9 DEF accountVars, AccountsInv, AccountsTypeOK, LastAdministratorStays, DecisionsStand, LoginsMatch,
              ActiveAdmins, Exists
<1>10. QED
  BY <1>1, <1>2, <1>3, <1>4, <1>5, <1>6, <1>7, <1>8, <1>9 DEF AccountsNext

\* Decisions and sessions stay in step with the accounts, for any number of people,
\* sessions and requests.
THEOREM Invariance == AccountsSpec => []AccountsInv
<1>1. AccountsInit => AccountsInv
  BY AccountsInitInv
<1>2. AccountsInv /\ [AccountsNext]_accountVars => AccountsInv'
  BY NextInv
<1>3. QED BY <1>1, <1>2, PTL DEF AccountsSpec

\* Rows, sessions and requests keep their types, and a live session is one of an
\* account that exists (remove cascades, start fails without the account).
THEOREM TypeCorrect == AccountsSpec => []AccountsTypeOK
<1>1. AccountsInv => AccountsTypeOK
  BY DEF AccountsInv
<1>2. QED BY <1>1, Invariance, PTL

\* The guards of accounts.service.ts:187-193 and 240-246 keep an active
\* administrator unless the transactions of two changes overlap.
THEOREM AdministratorStays == AccountsSpec => []LastAdministratorStays
<1>1. AccountsInv => LastAdministratorStays
  BY DEF AccountsInv
<1>2. QED BY <1>1, Invariance, PTL

\* A live session whose login did not race a change has the password of its account
\* (accounts.service.ts:204-208).
THEOREM SessionsMatch == AccountsSpec => []SessionMatchesPassword
<1>1. AccountsInv => SessionMatchesPassword
  <2> SUFFICES ASSUME AccountsInv, NEW s \in Sessions, session[s].state = "live", ~session[s].raced
               PROVE  LET row == account[session[s].of]
                      IN row.password = session[s].password /\ (row.enabled \/ collided)
    BY DEF SessionMatchesPassword
  <2>1. account[session[s].of].state = "exists"
    BY DEF AccountsInv, AccountsTypeOK, Exists
  <2>2. QED BY <2>1 DEF AccountsInv, LoginsMatch
<1>2. QED BY <1>1, Invariance, PTL
=============================================================================
