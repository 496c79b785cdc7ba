------------------------------ MODULE Accounts ------------------------------
(***************************************************************************)
(* Who may act as whom: UserAccount (src/worker/src/accounts.ts), the      *)
(* registries of usernames and wallets and the requests that go from one   *)
(* to the other (identity.ts), and the wallet table of Governance.  Every  *)
(* RPC is a step of its own, and its caller may be gone before the next.   *)
(* Passwords, recovery codes and the challenges of wallets are numbered by *)
(* the auth_version they were set at.  Rate limits, signatures and the     *)
(* tokens of guests before sessions existed are left out.                  *)
(***************************************************************************)
EXTENDS Integers, FiniteSets, TLC

CONSTANTS
  People, Wallets, Names, Nobody,
  Callers,    \* requests under way
  MaxRuns,    \* bound: requests
  MaxMishaps  \* bound: requests lost midway, logouts, deletions

ASSUME AccountsAssumption == Nobody \notin People \cup Wallets \cup Names \cup Callers

VARIABLES
  account,    \* of every person: version, wallet, recovery code, credential, sessions
  username,   \* the registry of each name: who reserved it, in which operation, for good?
  walletOf,   \* the registry of each wallet
  governed,   \* Governance's own table of the wallets
  run, runs, mishaps

vars == <<account, username, walletOf, governed, run, runs, mishaps>>

Idle == [at |-> "idle"]
Free == [who |-> Nobody, operation |-> Nobody, committed |-> FALSE]
NoCredential == [name |-> Nobody, verifier |-> 0, operation |-> Nobody, expected |-> 0]

Init ==
  /\ account = [p \in People |->
       [active |-> TRUE, version |-> 1, wallet |-> Nobody, recovery |-> 0, credential |-> NoCredential,
        sessions |-> {[version |-> 1, kind |-> "guest", proof |-> 0]}]]
  /\ username = [n \in Names |-> Free] /\ walletOf = [w \in Wallets |-> Nobody] /\ governed = walletOf
  /\ run = [c \in Callers |-> Idle] /\ runs = 0 /\ mishaps = 0

-----------------------------------------------------------------------------
(* UserAccount.                                                             *)
authenticates(p, s) == account[p].active /\ s \in account[p].sessions /\ s.version = account[p].version
\* rotatePasswordSession and changeIdentity: a new version, and no session but the one issued with it.
renewed(a, sessions) == [a EXCEPT !.version = @ + 1, !.sessions = sessions]
passwordSession(version, verifier) == [version |-> version, kind |-> "password", proof |-> verifier]
withPassword(a, credential) ==
  LET v == a.version + 1 IN
  [renewed(a, {passwordSession(v, v)}) EXCEPT !.credential = [credential EXCEPT !.verifier = v]]

At(c, stage) == run' = [run EXCEPT ![c].at = stage]
Ends(c) == run' = [run EXCEPT ![c] = Idle]
Begins(c, r) == run[c] = Idle /\ runs < MaxRuns /\ runs' = runs + 1 /\ run' = [run EXCEPT ![c] = r]
Account(p, a) == account' = [account EXCEPT ![p] = a]
Registries == UNCHANGED <<username, walletOf, governed>>
Goes == UNCHANGED <<runs, mishaps>>

-----------------------------------------------------------------------------
(* registerPassword: the account notes what it is about to become, the name *)
(* is reserved, and only then the account takes it.                         *)
Register(c, p, s, n) ==
  /\ authenticates(p, s) /\ account[p].credential = NoCredential
  /\ Begins(c, [at |-> "begun", who |-> p, session |-> s, name |-> n])
  /\ Account(p, [account[p] EXCEPT !.credential =
       [name |-> n, verifier |-> 0, operation |-> c, expected |-> account[p].version]])
  /\ Registries /\ UNCHANGED mishaps

taken(n, p) == username[n].who \notin {Nobody, p}
ReserveUsername(c) ==
  /\ run[c].at = "begun"
  /\ LET n == run[c].name  p == run[c].who IN
     /\ username' = IF taken(n, p) \/ username[n].committed THEN username
                    ELSE [username EXCEPT ![n] = [who |-> p, operation |-> c, committed |-> FALSE]]
     /\ At(c, IF taken(n, p) THEN "cancelling" ELSE "reserved")
  /\ UNCHANGED <<account, walletOf, governed>> /\ Goes
released(n, p, c) ==
  IF username[n].who = p /\ username[n].operation = c /\ ~username[n].committed
  THEN [username EXCEPT ![n] = Free] ELSE username

\* Mutant: the name is let go when nobody knows whether the account took it.
letGo(c) == released(run[c].name, run[c].who, c)
retained(c) == username
Finish(c, answered) ==
  /\ run[c].at = "reserved" /\ (~answered => mishaps < MaxMishaps)
  /\ mishaps' = (IF answered THEN mishaps ELSE mishaps + 1)
  /\ UNCHANGED <<runs, walletOf, governed>>
  /\ LET p == run[c].who
         a == account[p]
         takes == /\ authenticates(p, run[c].session) /\ a.credential.verifier = 0
                  /\ a.credential.operation = c /\ a.credential.expected = a.version
     IN /\ account' = IF takes THEN [account EXCEPT ![p] = withPassword(a, a.credential)] ELSE account
        /\ IF answered THEN At(c, IF takes THEN "taken" ELSE "refused") ELSE Ends(c)
        /\ username' = IF answered THEN username ELSE retained(c)
CommitUsername(c) ==
  /\ run[c].at = "taken" /\ Ends(c)
  /\ LET n == run[c].name IN
     username' = IF username[n].who = run[c].who /\ (username[n].committed \/ username[n].operation = c)
                 THEN [username EXCEPT ![n].committed = TRUE] ELSE username
  /\ UNCHANGED <<account, walletOf, governed>> /\ Goes
CancelRegistration(c) ==
  /\ run[c].at \in {"cancelling", "refused"}
  /\ LET p == run[c].who IN
     account' = IF account[p].credential.operation = c /\ account[p].credential.verifier = 0
                THEN [account EXCEPT ![p].credential = NoCredential] ELSE account
  /\ IF run[c].at = "cancelling" THEN Ends(c) ELSE At(c, "releasing")
  /\ Registries /\ Goes
ReleaseUsername(c) == /\ run[c].at = "releasing" /\ Ends(c) /\ username' = released(run[c].name, run[c].who, c)
                      /\ UNCHANGED <<account, walletOf, governed>> /\ Goes
\* Five minutes later; a request is taken to be answered or gone by then.
RegistrationExpires(p) ==
  /\ account[p].credential.verifier = 0 /\ account[p].credential # NoCredential
  /\ \A c \in Callers : run[c].at \in {"begun", "cancelling", "reserved", "refused", "releasing"} => run[c].who # p
  /\ Account(p, [account[p] EXCEPT !.credential = NoCredential]) /\ UNCHANGED run /\ Registries /\ Goes

-----------------------------------------------------------------------------
(* loginPassword and changePassword: deriving the key takes a while.        *)
verified(p, n) == account[p].active /\ account[p].credential.name = n /\ account[p].credential.verifier # 0
Login(c, n) ==
  /\ username[n].who # Nobody /\ verified(username[n].who, n)
  /\ LET p == username[n].who IN
     Begins(c, [at |-> "deriving", who |-> p, name |-> n,
                version |-> account[p].version, verifier |-> account[p].credential.verifier])
  /\ UNCHANGED <<account, mishaps>> /\ Registries

\* Mutant: the account is not looked at again once the key is derived.
asBefore(c) == account[run[c].who].active
unchanged(c) ==
  LET p == run[c].who IN
  /\ verified(p, run[c].name) /\ account[p].version = run[c].version
  /\ account[p].credential.verifier = run[c].verifier
LoggedIn(c) ==
  /\ run[c].at = "deriving" /\ Ends(c)
  /\ LET p == run[c].who IN
     account' = IF unchanged(c)
                THEN [account EXCEPT ![p].sessions = @ \cup {passwordSession(account[p].version, run[c].verifier)}]
                ELSE account
  /\ Registries /\ Goes
ChangePassword(c, p, s) ==
  /\ authenticates(p, s) /\ account[p].credential.verifier # 0
  /\ Begins(c, [at |-> "changing", who |-> p, session |-> s,
                version |-> account[p].version, verifier |-> account[p].credential.verifier])
  /\ UNCHANGED <<account, mishaps>> /\ Registries
PasswordChanged(c) ==
  /\ run[c].at = "changing" /\ Ends(c)
  /\ LET p == run[c].who  a == account[p] IN
     account' = IF /\ authenticates(p, run[c].session) /\ a.version = run[c].version
                   /\ a.credential.verifier = run[c].verifier
                THEN [account EXCEPT ![p] = withPassword(a, a.credential)] ELSE account
  /\ Registries /\ Goes

-----------------------------------------------------------------------------
(* createChallenge and verifyChallenge.  A challenge is made out to an      *)
(* account as it stands; of recovery, the code is shown instead of a        *)
(* session, and so it is by who rotates without the old wallet.  Without a  *)
(* wallet, a new code and the revocation of sessions need no challenge.     *)
ChangesWallet == {"bind", "rotate", "recover"}
Challenge(c, p, intent, w, s, code) ==
  LET a == account[p] IN
  /\ a.active
  /\ CASE intent = "login" -> walletOf[w] = p /\ a.wallet = w
       [] intent = "recover" -> code # 0
       [] intent = "bind" -> a.wallet = Nobody
       [] intent = "rotate" -> a.wallet # Nobody
       [] intent \in {"recovery-code", "revoke-sessions"} -> a.wallet \in {w, Nobody}
  /\ intent \notin {"login", "recover"} => authenticates(p, s)
  /\ code \in {0, a.recovery}
  /\ Begins(c, [at |-> IF intent \in ChangesWallet THEN "reserving" ELSE IF intent = "login" THEN "governing" ELSE "identity",
                intent |-> intent, who |-> p, wallet |-> w, old |-> a.wallet,
                session |-> s, code |-> code, version |-> a.version])
  /\ UNCHANGED <<account, mishaps>> /\ Registries
stands(c) == LET a == account[run[c].who] IN a.active /\ a.version = run[c].version /\ a.wallet = run[c].old

reservable(w, p) == walletOf[w] \in {Nobody, p}
ReserveWallet(c) ==
  /\ run[c].at = "reserving"
  /\ LET w == run[c].wallet  p == run[c].who IN
     IF stands(c) /\ governed[w] \in {Nobody, p} /\ reservable(w, p)
     THEN walletOf' = [walletOf EXCEPT ![w] = p] /\ At(c, "governing")
     ELSE Ends(c) /\ UNCHANGED walletOf
  /\ UNCHANGED <<account, username, governed>> /\ Goes
RegisterWallet(c) ==
  /\ run[c].at = "governing"
  /\ LET r == run[c]
         ws == {r.wallet} \cup ({r.old} \ {Nobody})
     IN IF \A w \in ws : governed[w] \in {Nobody, r.who}
        THEN /\ governed' = [w \in Wallets |-> IF w \in ws THEN r.who ELSE governed[w]]
             /\ At(c, IF r.intent = "login" THEN "issuing" ELSE "identity")
        ELSE Ends(c) /\ UNCHANGED governed
  /\ UNCHANGED <<account, username, walletOf>> /\ Goes
ChangeIdentity(c) ==
  /\ run[c].at = "identity"
  /\ LET r == run[c]
         a == account[r.who]
         next == renewed(a, {})
         authorized == /\ r.intent # "recover" => authenticates(r.who, r.session)
                       /\ r.code # 0 => a.recovery = r.code
     IN IF a.active /\ a.version = r.version /\ authorized
        THEN /\ Account(r.who, [next EXCEPT
                  !.wallet = IF r.intent \in ChangesWallet THEN r.wallet ELSE @,
                  !.recovery = IF r.intent = "revoke-sessions" THEN @ ELSE next.version,
                  !.credential = IF r.code # 0 /\ r.intent \in ChangesWallet THEN NoCredential ELSE @])
             /\ run' = [run EXCEPT ![c].at = "issuing", ![c].version = next.version]
        ELSE Ends(c) /\ UNCHANGED account
  /\ Registries /\ Goes
\* The session stands for the wallet that signed, or for what it replaces.
IssueSession(c) ==
  /\ run[c].at = "issuing" /\ Ends(c)
  /\ LET r == run[c]
         s == IF r.intent \notin ChangesWallet /\ r.intent # "login" /\ r.old = Nobody THEN [r.session EXCEPT !.version = r.version]
              ELSE [version |-> r.version, kind |-> "wallet", proof |-> r.wallet]
     IN account' = IF account[r.who].active /\ account[r.who].version = r.version
                   THEN [account EXCEPT ![r.who].sessions = @ \cup {s}] ELSE account
  /\ Registries /\ Goes

-----------------------------------------------------------------------------
Mishap == mishaps < MaxMishaps /\ mishaps' = mishaps + 1 /\ UNCHANGED runs
Dies(c) == run[c] # Idle /\ Ends(c) /\ Mishap /\ UNCHANGED account /\ Registries
Logout(p, s) == /\ authenticates(p, s) /\ Account(p, [account[p] EXCEPT !.sessions = @ \ {s}])
                /\ Mishap /\ UNCHANGED run /\ Registries
\* deactivate, in the deletion of the account: the wallet stays taken.
Deactivate(p) ==
  /\ account[p].active
  /\ Account(p, [renewed(account[p], {}) EXCEPT !.active = FALSE, !.recovery = 0, !.credential = NoCredential])
  /\ Mishap /\ UNCHANGED run /\ Registries

Sessions(p) == account[p].sessions
Starts(c) ==
  \/ \E n \in Names : Login(c, n) \/ \E p \in People : \E s \in Sessions(p) : Register(c, p, s, n)
  \/ \E p \in People, s \in UNION {Sessions(q) : q \in People} : ChangePassword(c, p, s)
  \/ \E p \in People, w \in Wallets : \E s \in Sessions(p), code \in {0, account[p].recovery} :
       \/ \E intent \in {"login", "bind", "recovery-code", "revoke-sessions"} : Challenge(c, p, intent, w, s, 0)
       \/ \E intent \in {"rotate", "recover"} : Challenge(c, p, intent, w, s, code)
Continues(c) ==
  \/ ReserveUsername(c) \/ CommitUsername(c) \/ CancelRegistration(c) \/ ReleaseUsername(c)
  \/ \E answered \in BOOLEAN : Finish(c, answered)
  \/ LoggedIn(c) \/ PasswordChanged(c)
  \/ ReserveWallet(c) \/ RegisterWallet(c) \/ ChangeIdentity(c) \/ IssueSession(c)
Next == \/ \E c \in Callers : Starts(c) \/ Continues(c) \/ Dies(c)
        \/ \E p \in People : RegistrationExpires(p) \/ Deactivate(p) \/ \E s \in Sessions(p) : Logout(p, s)
Spec == Init /\ [][Next]_vars

-----------------------------------------------------------------------------
(* A session that opens an account was issued for the password or the       *)
(* wallet the account has now, whatever was being derived or verified when  *)
(* it changed.                                                              *)
SessionForCurrentCredentials ==
  \A p \in People : \A s \in Sessions(p) : authenticates(p, s) =>
    /\ s.kind = "password" => s.proof = account[p].credential.verifier
    /\ s.kind = "wallet" => s.proof = account[p].wallet

(* The wallet an account bears is that account's in both registries: it     *)
(* signs in there and nowhere else, also after the account was deleted.     *)
WalletLeadsHome ==
  \A p \in People : account[p].wallet # Nobody =>
    walletOf[account[p].wallet] = p /\ governed[account[p].wallet] = p

(* The name an account signs in with leads to that account, even when the   *)
(* request that registered it was never answered.  With a recovery code it  *)
(* need not: recovering clears a registration under way, a second one may   *)
(* start, and when the first one fails it releases the name for both.       *)
UsernameLeadsHome ==
  \A p \in People : LET c == account[p].credential IN
    c.verifier # 0 /\ account[p].recovery = 0 => username[c.name].who = p

(* So whoever signs in, by wallet or by name, finds the account they were   *)
(* told is theirs, whichever objects the requests had reached.              *)
IdentitiesLeadHome == WalletLeadsHome /\ UsernameLeadsHome
=============================================================================
