--------------------------- MODULE AccountsProofs ---------------------------
(***************************************************************************)
(* Who may act as whom, for any number of people, wallets, names and       *)
(* requests: the inductive invariant of Accounts (AccountsInv), which says *)
(* what every request under way may still rely on; of the page (PageInv),  *)
(* for any number of users, journeys and calls; of reports of conduct      *)
(* (ModerationInv), for any number of submissions and any alarm; and of    *)
(* the operators' page (DeskInv), for any number of reports.               *)
(***************************************************************************)
EXTENDS MCAccounts, FiniteSetTheorems, WellFoundedInduction, TLAPS

(***************************************************************************)
(* Accounts.                                                               *)
(***************************************************************************)
Credential == [name : Names \cup {Nobody}, verifier : Nat, operation : Callers \cup {Nobody}, expected : Nat]
Session == [version : Nat, kind : {"guest", "password", "wallet"}, proof : Nat \cup Wallets]
UserAccount == [active : BOOLEAN, version : Nat \ {0}, wallet : Wallets \cup {Nobody}, recovery : Nat,
                credential : Credential, sessions : SUBSET Session]
Reservation == [who : People \cup {Nobody}, operation : Callers \cup {Nobody}, committed : BOOLEAN]
Registering == [at : {"begun", "cancelling", "reserved", "refused", "taken", "releasing"}, who : People,
                session : Session, name : Names]
Deriving == [at : {"deriving"}, who : People, name : Names, version : Nat, verifier : Nat \ {0}]
Changing == [at : {"changing"}, who : People, session : Session, version : Nat, verifier : Nat \ {0}]
KeepsWallet == {"login", "recovery-code", "revoke-sessions"}
Challenged == [at : {"reserving", "governing", "identity", "issuing"}, intent : ChangesWallet \cup KeepsWallet, who : People,
               wallet : Wallets, old : Wallets \cup {Nobody}, session : Session, code : Nat, version : Nat]
Request == {Idle} \cup Registering \cup Deriving \cup Changing \cup Challenged

(* No session outlives the version it was issued at, nor stands for what   *)
(* the account no longer has.                                              *)
StandsFor(s, a) ==
  /\ s.kind = "password" => s.proof = a.credential.verifier
  /\ s.kind = "wallet" => s.proof = a.wallet
SessionsStand(a) == \A s \in a.sessions : s.version = a.version /\ StandsFor(s, a)

(* What an answered challenge stands for, as long as the account has not   *)
(* changed since: what its session is going to be.                         *)
Replaces(r) == r.intent \in KeepsWallet \ {"login"} /\ r.old = Nobody
ChallengeStands(r, a) ==
  /\ r.version <= a.version
  /\ r.version = a.version =>
       /\ r.at # "issuing" \/ r.intent = "login" => a.wallet = r.old
       /\ r.intent \in KeepsWallet => r.old \in {r.wallet} \cup (IF r.intent = "login" THEN {} ELSE {Nobody})
       /\ r.at = "issuing" => IF Replaces(r) THEN StandsFor(r.session, a) ELSE a.wallet = r.wallet

(* A wallet is first held in one registry, then in the other, and then the *)
(* account takes it; neither registry lets it go.                          *)
Held(r, registry, table) ==
  r.intent \in ChangesWallet =>
    /\ r.at \in {"governing", "identity", "issuing"} => registry[r.wallet] = r.who
    /\ r.at \in {"identity", "issuing"} => table[r.wallet] = r.who

(* Until an account has a recovery code, a registration it noted stays     *)
(* noted while its request can still change anything by it.                *)
Unrecovered(a) == a.active /\ a.recovery = 0
Reserved(r, c, names) == names[r.name].who = r.who /\ (names[r.name].committed \/ names[r.name].operation = c)
NotedBy(c, r, a, names) ==
  r.at \in {"begun", "cancelling", "reserved", "refused"} /\ Unrecovered(a) =>
    /\ a.credential.operation = c /\ a.credential.verifier = 0 /\ a.credential.name = r.name
    /\ r.at = "reserved" => Reserved(r, c, names)
Releases(r, n, p) == r.at = "releasing" /\ r.who = p /\ r.name = n
Leads(n, p, names, requests) ==
  /\ n \in Names /\ names[n].who = p
  /\ \A c \in Callers : Releases(requests[c], n, p) => names[n].committed \/ names[n].operation # c
NamesLead ==
  /\ \A n \in Names : username[n].committed => username[n].who # Nobody
  /\ \A p \in People : ~account[p].active => account[p].credential.verifier = 0
  /\ \A c \in Callers : run[c] \in Registering => NotedBy(c, run[c], account[run[c].who], username)
  /\ \A p \in People : Unrecovered(account[p]) /\ account[p].credential.verifier # 0 =>
       Leads(account[p].credential.name, p, username, run)

Rest == /\ account \in [People -> UserAccount]
        /\ walletOf \in [Wallets -> People \cup {Nobody}] /\ governed \in [Wallets -> People \cup {Nobody}]
        /\ run \in [Callers -> Request]
        /\ WalletLeadsHome
        /\ \A p \in People : SessionsStand(account[p])
        /\ \A c \in Callers : run[c] \in Challenged =>
             ChallengeStands(run[c], account[run[c].who]) /\ Held(run[c], walletOf, governed)
Named == username \in [Names -> Reservation] /\ NamesLead
AccountsInv == Rest /\ Named

LEMMA RequestIs ==
  ASSUME NEW w \in Request
  PROVE  /\ w.at \in {"begun", "cancelling", "reserved", "refused", "taken", "releasing"} => w \in Registering
         /\ w.at = "deriving" => w \in Deriving
         /\ w.at = "changing" => w \in Changing
         /\ w.at \in {"reserving", "governing", "identity", "issuing"} => w \in Challenged
         /\ w \in Challenged => w.at \in {"reserving", "governing", "identity", "issuing"}
<1>1. CASE w = Idle
  BY <1>1 DEF Idle, Challenged
<1>2. CASE w \in Registering
  BY <1>2 DEF Registering, Challenged
<1>3. CASE w \in Deriving
  BY <1>3 DEF Deriving, Challenged
<1>4. CASE w \in Changing
  BY <1>4 DEF Changing, Challenged
<1>5. CASE w \in Challenged
  BY <1>5 DEF Challenged
<1> QED BY <1>1, <1>2, <1>3, <1>4, <1>5 DEF Request

LEMMA IdleIs == Idle \in Request /\ Idle \notin Challenged /\ Idle.at = "idle"
BY DEF Idle, Request, Challenged

(* An account keeps its wallet and its verifier or goes on to another      *)
(* version.                                                                *)
Onward(a, b) == \/ b.version > a.version
                \/ /\ b.version = a.version /\ b.wallet = a.wallet
                   /\ b.credential.verifier = a.credential.verifier

LEMMA ChallengePersists ==
  ASSUME NEW r \in Challenged, NEW a \in UserAccount, NEW b \in UserAccount, ChallengeStands(r, a), Onward(a, b)
  PROVE  ChallengeStands(r, b)
<1>1. r.version \in Nat /\ a.version \in Nat /\ b.version \in Nat
  BY DEF Challenged, UserAccount
<1>2. CASE b.version > a.version
  BY <1>1, <1>2 DEF ChallengeStands
<1>3. CASE b.version = a.version /\ b.wallet = a.wallet /\ b.credential.verifier = a.credential.verifier
  BY <1>3 DEF ChallengeStands, StandsFor
<1> QED BY <1>2, <1>3 DEF Onward

LEMMA RenewedIs ==
  ASSUME NEW a \in UserAccount, NEW S \in SUBSET Session
  PROVE  /\ renewed(a, S) \in UserAccount
         /\ renewed(a, S).version = a.version + 1 /\ renewed(a, S).sessions = S
         /\ renewed(a, S).active = a.active /\ renewed(a, S).wallet = a.wallet
         /\ renewed(a, S).recovery = a.recovery /\ renewed(a, S).credential = a.credential
<1> DEFINE v == a.version + 1
<1>1. v \in Nat \ {0}
  BY DEF UserAccount
<1> HIDE DEF v
<1>2. [a EXCEPT !.version = v, !.sessions = S] \in UserAccount
  BY <1>1 DEF UserAccount
<1>3. renewed(a, S) = [a EXCEPT !.version = v, !.sessions = S]
  BY DEF renewed, v
<1> QED BY <1>2, <1>3 DEF UserAccount, v

LEMMA WithPasswordIs ==
  ASSUME NEW a \in UserAccount
  PROVE  LET b == withPassword(a, a.credential) IN
         /\ b \in UserAccount /\ SessionsStand(b) /\ b.version = a.version + 1
         /\ b.active = a.active /\ b.wallet = a.wallet /\ b.recovery = a.recovery
         /\ b.credential.name = a.credential.name /\ b.credential.verifier # 0
<1> DEFINE v == a.version + 1
           cr == [a.credential EXCEPT !.verifier = v]
           s == passwordSession(v, v)
           n == renewed(a, {s})
<1>1. v \in Nat \ {0} /\ a.credential \in Credential
  BY DEF UserAccount
<1> HIDE DEF v
<1>2. cr \in Credential /\ cr.verifier = v /\ cr.name = a.credential.name
  BY <1>1 DEF Credential
<1>3. s \in Session /\ s.version = v /\ s.kind = "password" /\ s.proof = v
  BY <1>1 DEF Session, passwordSession
<1> HIDE DEF cr, s
<1>4. /\ n \in UserAccount /\ n.version = v /\ n.sessions = {s}
      /\ n.active = a.active /\ n.wallet = a.wallet /\ n.recovery = a.recovery
  BY <1>3, RenewedIs DEF v
<1> HIDE DEF n
<1>5. withPassword(a, a.credential) = [n EXCEPT !.credential = cr]
  BY DEF withPassword, v, cr, s, n
<1>6. [n EXCEPT !.credential = cr] \in UserAccount
  BY <1>2, <1>4 DEF UserAccount
<1> HIDE DEF Session, Credential
<1> QED BY <1>1, <1>2, <1>3, <1>4, <1>5, <1>6 DEF UserAccount, SessionsStand, StandsFor, v

(* A step that changes one account at most, and neither registry of        *)
(* wallets: what is left to show of it is its names.                       *)
LEMMA AccountKeeps ==
  ASSUME Rest, UNCHANGED <<walletOf, governed>>, run' \in [Callers -> Request],
         \A c \in Callers : run'[c] \in Challenged => run'[c] = run[c],
         NEW p \in People, NEW b \in UserAccount, account' = [account EXCEPT ![p] = b],
         Onward(account[p], b), b.wallet = account[p].wallet, SessionsStand(b)
  PROVE  Rest'
<1>1. account' \in [People -> UserAccount] /\ \A q \in People : account'[q].wallet = account[q].wallet
  BY DEF Rest
<1>2. \A q \in People : SessionsStand(account'[q])
  BY DEF Rest
<1>3. ASSUME NEW c \in Callers, run'[c] \in Challenged
      PROVE  ChallengeStands(run'[c], account'[run'[c].who]) /\ Held(run'[c], walletOf', governed')
  <2>1. run'[c] = run[c] /\ run[c] \in Challenged /\ run[c].who \in People
    BY <1>3 DEF Challenged
  <2>2. Held(run'[c], walletOf', governed') /\ ChallengeStands(run[c], account[run[c].who])
    BY <2>1 DEF Rest, Held
  <2>3. CASE run[c].who = p
    <3>1. account[p] \in UserAccount /\ account'[p] = b
      BY DEF Rest
    <3> QED BY <2>1, <2>2, <2>3, <3>1, ChallengePersists
  <2>4. CASE run[c].who # p
    BY <2>1, <2>2, <2>4 DEF Rest
  <2> QED BY <2>2, <2>3, <2>4
<1>4. WalletLeadsHome'
  BY <1>1 DEF Rest, WalletLeadsHome
<1> QED BY <1>1, <1>2, <1>3, <1>4 DEF Rest

(* One that changes no account.                                            *)
LEMMA RunKeeps ==
  ASSUME Rest, UNCHANGED <<account, walletOf, governed>>, run' \in [Callers -> Request],
         \A c \in Callers : run'[c] \in Challenged =>
           run'[c] = run[c] \/ (ChallengeStands(run'[c], account[run'[c].who]) /\ Held(run'[c], walletOf, governed))
  PROVE  Rest'
<1>1. ASSUME NEW c \in Callers, run'[c] \in Challenged
      PROVE  ChallengeStands(run'[c], account'[run'[c].who]) /\ Held(run'[c], walletOf', governed')
  BY <1>1 DEF Rest, Held
<1>2. WalletLeadsHome'
  BY DEF Rest, WalletLeadsHome
<1> QED BY <1>1, <1>2 DEF Rest

(* The names, as long as no request reaches a stage of registration.       *)
SameName(a, b) ==
  Unrecovered(b) => /\ Unrecovered(a)
                    /\ \/ b.credential = a.credential
                       \/ /\ a.credential.verifier # 0 /\ b.credential.verifier # 0
                          /\ b.credential.name = a.credential.name
RegistrationStages == {"begun", "cancelling", "reserved", "refused", "releasing"}
LEMMA NamesCarryOver ==
  ASSUME Named, Rest, Rest', username' = username,
         \A p \in People : SameName(account[p], account'[p]),
         \A p \in People : ~account'[p].active => account'[p].credential.verifier = 0,
         \A c \in Callers : run'[c].at \in RegistrationStages => run'[c] = run[c]
  PROVE  Named'
<1>1. \A c \in Callers : run'[c].at \in RegistrationStages => run[c] \in Registering /\ run[c].who \in People
  BY RequestIs DEF Rest, RegistrationStages, Registering
<1>2. ASSUME NEW c \in Callers PROVE NotedBy(c, run'[c], account'[run'[c].who], username')
  <2> SUFFICES ASSUME run'[c].at \in {"begun", "cancelling", "reserved", "refused"}, Unrecovered(account'[run'[c].who])
               PROVE  NotedBy(c, run'[c], account'[run'[c].who], username')
    BY DEF NotedBy
  <2>1. run'[c] = run[c] /\ run[c] \in Registering /\ run[c].who \in People
    BY <1>1 DEF RegistrationStages
  <2>2. SameName(account[run[c].who], account'[run[c].who]) /\ NotedBy(c, run[c], account[run[c].who], username)
    BY <2>1 DEF Named, NamesLead
  <2> QED BY <2>1, <2>2 DEF SameName, NotedBy
<1>3. ASSUME NEW p \in People, Unrecovered(account'[p]), account'[p].credential.verifier # 0
      PROVE  Leads(account'[p].credential.name, p, username', run')
  <2> DEFINE n == account[p].credential.name
  <2>1. /\ Unrecovered(account[p]) /\ account[p].credential.verifier # 0
        /\ account'[p].credential.name = account[p].credential.name
    BY <1>3 DEF SameName
  <2>2. Leads(account[p].credential.name, p, username, run)
    BY <2>1 DEF Named, NamesLead
  <2>3. ASSUME NEW c \in Callers, NEW m, Releases(run'[c], m, p) PROVE Releases(run[c], m, p)
    BY <2>3 DEF Releases, RegistrationStages
  <2> QED BY <2>1, <2>2, <2>3 DEF Leads
<1>4. NamesLead'
  BY <1>2, <1>3 DEF Named, NamesLead
<1> QED BY <1>4 DEF Named

(***************************************************************************)
(* The steps.                                                              *)
(***************************************************************************)
LEMMA EndsIs ==
  ASSUME Rest, NEW c \in Callers, Ends(c)
  PROVE  /\ run' \in [Callers -> Request] /\ run'[c] = Idle
         /\ \A d \in Callers : run'[d] \in Challenged \/ run'[d].at # "idle" => run'[d] = run[d]
BY IdleIs DEF Rest, Ends

LEMMA BeginsIs ==
  ASSUME Rest, NEW c \in Callers, NEW w \in Request, Begins(c, w)
  PROVE  /\ run' \in [Callers -> Request] /\ run'[c] = w
         /\ \A d \in Callers : d # c => run'[d] = run[d]
BY DEF Rest, Begins

LEMMA AtIs ==
  ASSUME Rest, NEW c \in Callers, run[c] \in Registering, At(c, run'[c].at),
         run'[c].at \in {"begun", "cancelling", "reserved", "refused", "taken", "releasing"}
  PROVE  /\ run' \in [Callers -> Request] /\ run'[c] \in Registering /\ run'[c] \notin Challenged
         /\ run'[c].who = run[c].who /\ run'[c].name = run[c].name
         /\ \A d \in Callers : d # c => run'[d] = run[d]
<1>1. run' = [run EXCEPT ![c] = [run[c] EXCEPT !.at = run'[c].at]]
  BY DEF At
<1>2. run'[c] \in Registering /\ run'[c].who = run[c].who /\ run'[c].name = run[c].name
  BY <1>1 DEF Registering, Rest
<1>3. run'[c] \notin Challenged
  BY DEF Challenged
<1> QED BY <1>1, <1>2, <1>3 DEF Rest, Request

(* Whoever begins with the password, or has it verified, has no part in    *)
(* the registries.                                                         *)
LEMMA LoginKeeps ==
  ASSUME AccountsInv, NEW c \in Callers,
         (\E n \in Names : Login(c, n)) \/ \E p \in People : \E s : ChangePassword(c, p, s)
  PROVE  AccountsInv'
<1>0. Rest /\ Named
  BY DEF AccountsInv
<1>1. \E w \in Deriving \cup Changing : Begins(c, w)
  <2>1. ASSUME NEW n \in Names, Login(c, n) PROVE \E w \in Deriving : Begins(c, w)
    <3> DEFINE p == username[n].who
    <3>1. p \in People
      BY <1>0, <2>1 DEF Named, Reservation, Login
    <3>2. account[p] \in UserAccount /\ account[p].credential \in Credential
      BY <1>0, <3>1 DEF Rest, UserAccount
    <3>3. [at |-> "deriving", who |-> p, name |-> n, version |-> account[p].version,
           verifier |-> account[p].credential.verifier] \in Deriving
      BY <2>1, <3>1, <3>2 DEF Deriving, UserAccount, Credential, Login, verified
    <3> QED BY <2>1, <3>3 DEF Login
  <2>2. ASSUME NEW p \in People, NEW s, ChangePassword(c, p, s) PROVE \E w \in Changing : Begins(c, w)
    <3>1. account[p] \in UserAccount /\ account[p].credential \in Credential
      BY <1>0 DEF Rest, UserAccount
    <3>2. [at |-> "changing", who |-> p, session |-> s, version |-> account[p].version,
           verifier |-> account[p].credential.verifier] \in Changing
      BY <2>2, <3>1 DEF Changing, UserAccount, Credential, ChangePassword, authenticates
    <3> QED BY <2>2, <3>2 DEF ChangePassword
  <2> QED BY <2>1, <2>2
<1>2. PICK w \in Deriving \cup Changing : Begins(c, w)
  BY <1>1
<1>3. w \in Request /\ w \notin Challenged /\ w.at \notin RegistrationStages
  BY DEF Request, Deriving, Changing, Challenged, RegistrationStages
<1>4. /\ run' \in [Callers -> Request] /\ run'[c] = w
      /\ \A d \in Callers : d # c => run'[d] = run[d]
  BY <1>0, <1>2, <1>3, BeginsIs
<1>5. UNCHANGED <<account, walletOf, governed, username>>
  BY DEF Login, ChangePassword, Registries
<1>6. Rest'
  BY <1>0, <1>3, <1>4, <1>5, RunKeeps
<1>7. Named'
  <2>1. \A p \in People : SameName(account[p], account'[p]) /\ (~account'[p].active => account'[p].credential.verifier = 0)
    BY <1>0, <1>5 DEF SameName, Named, NamesLead
  <2> QED BY <1>0, <1>3, <1>4, <1>5, <1>6, <2>1, NamesCarryOver
<1> QED BY <1>6, <1>7 DEF AccountsInv

(* A change of account of somebody whose request ends.                     *)
LEMMA EndingKeeps ==
  ASSUME AccountsInv, run' \in [Callers -> Request],
         \A d \in Callers : run'[d] \in Challenged \/ run'[d].at # "idle" => run'[d] = run[d],
         NEW p \in People, NEW b \in UserAccount, account' \in {account, [account EXCEPT ![p] = b]},
         account' # account => Onward(account[p], b) /\ b.wallet = account[p].wallet /\ SessionsStand(b),
         account' # account => SameName(account[p], b) /\ (~b.active => b.credential.verifier = 0),
         UNCHANGED <<username, walletOf, governed>>
  PROVE  AccountsInv'
<1>0. Rest /\ Named /\ \A q \in People : account[q].active \/ account[q].credential.verifier = 0
  BY DEF AccountsInv, Named, NamesLead
<1>1. Rest'
  <2>1. CASE account' = account
    BY <1>0, <2>1, RunKeeps
  <2>2. CASE account' # account
    BY <1>0, <2>2, AccountKeeps
  <2> QED BY <2>1, <2>2
<1>2. \A c \in Callers : run'[c].at \in RegistrationStages => run'[c] = run[c]
  BY DEF RegistrationStages
<1>3. \A q \in People : SameName(account[q], account'[q]) /\ (~account'[q].active => account'[q].credential.verifier = 0)
  <2>1. CASE account' = account
    BY <1>0, <2>1 DEF SameName
  <2>2. CASE account' # account
    <3>1. \A q \in People : account'[q] = IF q = p THEN b ELSE account[q]
      BY <1>0, <2>2 DEF Rest
    <3> QED BY <1>0, <2>2, <3>1 DEF SameName
  <2> QED BY <2>1, <2>2
<1>4. Named'
  BY <1>0, <1>1, <1>2, <1>3, NamesCarryOver
<1> QED BY <1>1, <1>4 DEF AccountsInv

LEMMA PasswordKeeps ==
  ASSUME AccountsInv, NEW c \in Callers, LoggedIn(c) \/ PasswordChanged(c)
  PROVE  AccountsInv'
<1> DEFINE p == run[c].who
           a == account[p]
<1>0. Rest /\ Named
  BY DEF AccountsInv
<1>1. p \in People /\ a \in UserAccount /\ run[c] \in Request
  BY <1>0, RequestIs DEF Rest, LoggedIn, PasswordChanged, Deriving, Changing
<1>2. SessionsStand(a) /\ (~a.active => a.credential.verifier = 0)
  BY <1>0, <1>1 DEF Rest, Named, NamesLead
<1>3. /\ run' \in [Callers -> Request]
      /\ \A d \in Callers : run'[d] \in Challenged \/ run'[d].at # "idle" => run'[d] = run[d]
  BY <1>0, EndsIs DEF LoggedIn, PasswordChanged
<1>4. CASE LoggedIn(c)
  <2> DEFINE s == passwordSession(a.version, run[c].verifier)
             ss == a.sessions \cup {s}
             b == [a EXCEPT !.sessions = ss]
  <2>1. run[c] \in Deriving
    BY <1>1, <1>4, RequestIs DEF LoggedIn
  <2>2. s \in Session /\ s.version = a.version /\ s.kind = "password" /\ s.proof = run[c].verifier
    BY <1>1, <2>1 DEF Deriving, Session, UserAccount, passwordSession
  <2> HIDE DEF s
  <2>3. ss \in SUBSET Session
    BY <1>1, <2>2 DEF UserAccount
  <2> HIDE DEF ss
  <2>4. /\ b \in UserAccount /\ b.sessions = ss /\ b.version = a.version /\ b.wallet = a.wallet
        /\ b.credential = a.credential /\ b.active = a.active /\ b.recovery = a.recovery
    BY <1>1, <2>3 DEF UserAccount
  <2>5. account' \in {account, [account EXCEPT ![p] = b]} /\ UNCHANGED <<username, walletOf, governed>>
    BY <1>4 DEF LoggedIn, Registries, s, ss
  <2>6. account' # account => a.credential.verifier = run[c].verifier
    BY <1>4 DEF LoggedIn, unchanged
  <2> HIDE DEF b
  <2>7. account' # account => SessionsStand(b)
    BY <1>2, <2>2, <2>4, <2>6 DEF SessionsStand, StandsFor, ss
  <2>8. Onward(a, b) /\ SameName(a, b) /\ (~b.active => b.credential.verifier = 0)
    BY <1>2, <2>4 DEF Onward, SameName, Unrecovered
  <2> QED BY <1>1, <1>3, <2>4, <2>5, <2>7, <2>8, EndingKeeps
<1>5. CASE PasswordChanged(c)
  <2> DEFINE b == withPassword(a, a.credential)
  <2>1. /\ b \in UserAccount /\ SessionsStand(b) /\ b.version = a.version + 1
        /\ b.active = a.active /\ b.wallet = a.wallet /\ b.recovery = a.recovery
        /\ b.credential.name = a.credential.name /\ b.credential.verifier # 0
    BY <1>1, WithPasswordIs
  <2>2. account' \in {account, [account EXCEPT ![p] = b]} /\ UNCHANGED <<username, walletOf, governed>>
    BY <1>5 DEF PasswordChanged, Registries
  <2>3. account' # account => a.active /\ a.credential.verifier = run[c].verifier
    BY <1>5 DEF PasswordChanged, authenticates
  <2> HIDE DEF b
  <2>4. account' # account => a.credential.verifier # 0
    <3>1. run[c] \in Changing
      BY <1>1, <1>5, RequestIs DEF PasswordChanged
    <3> QED BY <2>3, <3>1 DEF Changing
  <2> QED BY <1>1, <1>3, <2>1, <2>2, <2>3, <2>4, EndingKeeps DEF Onward, SameName, Unrecovered, UserAccount
<1> QED BY <1>4, <1>5

LEMMA DropKeeps ==
  ASSUME AccountsInv, \/ \E c \in Callers : Dies(c)
                      \/ \E p \in People, s \in Session : Logout(p, s)
                      \/ \E p \in People : Deactivate(p)
  PROVE  AccountsInv'
<1>0. Rest /\ Named
  BY DEF AccountsInv
<1>1. ASSUME NEW c \in Callers, Dies(c) PROVE AccountsInv'
  <2>1. /\ run' \in [Callers -> Request] /\ UNCHANGED <<account, walletOf, governed, username>>
        /\ \A d \in Callers : run'[d] \in Challenged \/ run'[d].at # "idle" => run'[d] = run[d]
    BY <1>0, <1>1, EndsIs DEF Dies, Registries
  <2>2. Rest'
    BY <1>0, <2>1, RunKeeps
  <2>3. \A p \in People : SameName(account[p], account'[p]) /\ (~account'[p].active => account'[p].credential.verifier = 0)
    BY <1>0, <2>1 DEF SameName, Named, NamesLead
  <2>4. Named'
    BY <1>0, <2>1, <2>2, <2>3, NamesCarryOver DEF RegistrationStages
  <2> QED BY <2>2, <2>4 DEF AccountsInv
<1>2. run' = run => /\ run' \in [Callers -> Request]
                    /\ \A d \in Callers : run'[d] \in Challenged \/ run'[d].at # "idle" => run'[d] = run[d]
  BY <1>0 DEF Rest
<1>3. ASSUME NEW p \in People, NEW s \in Session, Logout(p, s) PROVE AccountsInv'
  <2> DEFINE a == account[p]
             ss == a.sessions \ {s}
             b == [a EXCEPT !.sessions = ss]
  <2>1. a \in UserAccount /\ ss \in SUBSET Session /\ SessionsStand(a) /\ (~a.active => a.credential.verifier = 0)
    BY <1>0 DEF Rest, UserAccount, Named, NamesLead
  <2>2. account' = [account EXCEPT ![p] = b] /\ UNCHANGED <<username, walletOf, governed, run>>
    BY <1>3 DEF Logout, Account, Registries
  <2> HIDE DEF ss
  <2>3. /\ b \in UserAccount /\ b.sessions = ss /\ b.version = a.version /\ b.wallet = a.wallet
        /\ b.credential = a.credential /\ b.active = a.active /\ b.recovery = a.recovery
    BY <2>1 DEF UserAccount
  <2> HIDE DEF b
  <2>4. SessionsStand(b)
    BY <2>1, <2>3 DEF SessionsStand, StandsFor, ss
  <2>5. Onward(a, b) /\ SameName(a, b)
    BY <2>3 DEF Onward, SameName, Unrecovered
  <2> QED BY <1>2, <2>1, <2>2, <2>3, <2>4, <2>5, EndingKeeps
<1>4. ASSUME NEW p \in People, Deactivate(p) PROVE AccountsInv'
  <2> DEFINE a == account[p]
             n == renewed(a, {})
             b == [n EXCEPT !.active = FALSE, !.recovery = 0, !.credential = NoCredential]
  <2>1. a \in UserAccount
    BY <1>0 DEF Rest
  <2>2. n \in UserAccount /\ n.version = a.version + 1 /\ n.sessions = {} /\ n.wallet = a.wallet
    BY <2>1, RenewedIs
  <2>3. account' = [account EXCEPT ![p] = b] /\ UNCHANGED <<username, walletOf, governed, run>>
    BY <1>4 DEF Deactivate, Account, Registries
  <2> HIDE DEF n
  <2>4. NoCredential \in Credential /\ NoCredential.verifier = 0
    BY DEF NoCredential, Credential
  <2>5. b \in UserAccount /\ b.sessions = {} /\ b.version = n.version /\ b.wallet = n.wallet /\ ~b.active /\ b.credential = NoCredential
    BY <2>2, <2>4 DEF UserAccount
  <2> HIDE DEF b
  <2>6. Onward(a, b) /\ SameName(a, b) /\ SessionsStand(b)
    BY <2>1, <2>2, <2>5 DEF Onward, SameName, Unrecovered, SessionsStand, UserAccount
  <2> QED BY <1>2, <2>2, <2>3, <2>4, <2>5, <2>6, EndingKeeps
<1> QED BY <1>1, <1>3, <1>4

-----------------------------------------------------------------------------
LEMMA ChallengeKeeps ==
  ASSUME AccountsInv, NEW c \in Callers, NEW p \in People, NEW intent \in ChangesWallet \cup KeepsWallet, NEW w \in Wallets,
         NEW s \in Session, NEW code \in Nat, Challenge(c, p, intent, w, s, code)
  PROVE  AccountsInv'
<1> DEFINE a == account[p]
           at == IF intent \in ChangesWallet THEN "reserving" ELSE IF intent = "login" THEN "governing" ELSE "identity"
           r == [at |-> at, intent |-> intent, who |-> p, wallet |-> w, old |-> a.wallet,
                 session |-> s, code |-> code, version |-> a.version]
<1>0. Rest /\ Named
  BY DEF AccountsInv
<1>1. a \in UserAccount
  BY <1>0 DEF Rest
<1>2. Begins(c, r) /\ UNCHANGED <<account, username, walletOf, governed>>
  BY DEF Challenge, Registries
<1>3. /\ intent = "login" => a.wallet = w
      /\ intent \in {"recovery-code", "revoke-sessions"} => a.wallet \in {w, Nobody}
  BY DEF Challenge
<1>4. at \in {"reserving", "governing", "identity"} /\ (intent \in ChangesWallet => at = "reserving")
  BY DEF ChangesWallet
<1> HIDE DEF at
<1>5. r \in Challenged /\ r.who = p /\ r.at \in {"reserving", "governing", "identity"}
  BY <1>1, <1>4 DEF Challenged, UserAccount
<1>6. ChallengeStands(r, a) /\ Held(r, walletOf, governed)
  BY <1>1, <1>3, <1>4 DEF ChallengeStands, Held, KeepsWallet, UserAccount
<1> HIDE DEF r
<1>7. /\ run' \in [Callers -> Request] /\ run'[c] = r
      /\ \A d \in Callers : d # c => run'[d] = run[d]
  BY <1>0, <1>2, <1>5, BeginsIs DEF Request
<1>8. Rest'
  BY <1>0, <1>2, <1>5, <1>6, <1>7, RunKeeps
<1>9. \A q \in People : SameName(account[q], account'[q]) /\ (~account'[q].active => account'[q].credential.verifier = 0)
  BY <1>0, <1>2 DEF SameName, Named, NamesLead
<1>10. Named'
  BY <1>0, <1>2, <1>5, <1>7, <1>8, <1>9, NamesCarryOver DEF RegistrationStages
<1> QED BY <1>8, <1>10 DEF AccountsInv

(* A request of a wallet goes on, or ends, with a registry that lets go of *)
(* nobody.                                                                 *)
Grows(f, g) == \A w \in Wallets : f[w] # Nobody => g[w] = f[w]
LEMMA RegistryKeeps ==
  ASSUME AccountsInv, UNCHANGED <<account, username>>, NEW c \in Callers, run[c] \in Challenged,
         walletOf' \in [Wallets -> People \cup {Nobody}], governed' \in [Wallets -> People \cup {Nobody}],
         Grows(walletOf, walletOf'), Grows(governed, governed'),
         \/ Ends(c)
         \/ \E r \in Challenged : /\ run' = [run EXCEPT ![c] = r] /\ ChallengeStands(r, account[r.who])
                                  /\ Held(r, walletOf', governed')
  PROVE  AccountsInv'
<1>0. Rest /\ Named
  BY DEF AccountsInv
<1>1. /\ run' \in [Callers -> Request] /\ \A d \in Callers : d # c => run'[d] = run[d]
      /\ run'[c].at \notin RegistrationStages
  <2>1. CASE Ends(c)
    BY <1>0, <2>1, IdleIs DEF Ends, Rest, RegistrationStages
  <2>2. ASSUME NEW r \in Challenged, run' = [run EXCEPT ![c] = r]
        PROVE  /\ run' \in [Callers -> Request] /\ \A d \in Callers : d # c => run'[d] = run[d]
               /\ run'[c].at \notin RegistrationStages
    BY <1>0, <2>2 DEF Rest, Request, Challenged, RegistrationStages
  <2> QED BY <2>1, <2>2
<1>2. ASSUME NEW r \in Challenged, Held(r, walletOf, governed) PROVE Held(r, walletOf', governed')
  <2>1. r.wallet \in Wallets /\ r.who \in People /\ r.who # Nobody
    BY AccountsAssumption DEF Challenged
  <2> QED BY <1>2, <2>1 DEF Held, Grows
<1>3. ASSUME NEW d \in Callers, run'[d] \in Challenged
      PROVE  ChallengeStands(run'[d], account'[run'[d].who]) /\ Held(run'[d], walletOf', governed')
  <2>1. CASE d # c
    BY <1>0, <1>1, <1>2, <1>3, <2>1 DEF Rest
  <2>2. CASE d = c
    BY <1>0, <1>3, <2>2, IdleIs DEF Rest, Ends
  <2> QED BY <2>1, <2>2
<1>4. WalletLeadsHome'
  <2> SUFFICES ASSUME NEW p \in People, account[p].wallet # Nobody
               PROVE  walletOf'[account[p].wallet] = p /\ governed'[account[p].wallet] = p
    BY DEF WalletLeadsHome
  <2>1. account[p].wallet \in Wallets /\ p # Nobody
    BY <1>0, AccountsAssumption DEF Rest, UserAccount
  <2> QED BY <1>0, <2>1 DEF Rest, WalletLeadsHome, Grows
<1>5. Rest'
  BY <1>0, <1>1, <1>3, <1>4 DEF Rest
<1>6. \A q \in People : SameName(account[q], account'[q]) /\ (~account'[q].active => account'[q].credential.verifier = 0)
  BY <1>0 DEF SameName, Named, NamesLead
<1>7. Named'
  BY <1>0, <1>1, <1>5, <1>6, NamesCarryOver
<1> QED BY <1>5, <1>7 DEF AccountsInv

LEMMA WalletKeeps ==
  ASSUME AccountsInv, NEW c \in Callers, ReserveWallet(c) \/ RegisterWallet(c)
  PROVE  AccountsInv'
<1> DEFINE r == run[c]
<1>0. Rest
  BY DEF AccountsInv
<1>1. r \in Challenged /\ r.who \in People /\ r.wallet \in Wallets /\ r.old \in Wallets \cup {Nobody}
  BY <1>0, RequestIs DEF Rest, ReserveWallet, RegisterWallet, Challenged
<1>2. ChallengeStands(r, account[r.who]) /\ Held(r, walletOf, governed) /\ UNCHANGED <<account, username>>
  BY <1>0, <1>1 DEF Rest, ReserveWallet, RegisterWallet
<1>3. ASSUME NEW at \in {"governing", "identity", "issuing"}, NEW n, n = [r EXCEPT !.at = at]
      PROVE  /\ n \in Challenged /\ n.at = at /\ n.intent = r.intent /\ n.who = r.who /\ n.wallet = r.wallet
             /\ n.old = r.old /\ n.session = r.session /\ n.version = r.version
  BY <1>1, <1>3 DEF Challenged
<1>4. CASE Ends(c) /\ UNCHANGED <<walletOf, governed>>
  BY <1>0, <1>1, <1>2, <1>4, RegistryKeeps DEF Rest, Grows
<1>5. CASE ReserveWallet(c) /\ stands(c) /\ governed[r.wallet] \in {Nobody, r.who} /\ reservable(r.wallet, r.who)
  <2> DEFINE n == [r EXCEPT !.at = "governing"]
  <2>1. /\ walletOf' = [walletOf EXCEPT ![r.wallet] = r.who] /\ governed' = governed /\ run' = [run EXCEPT ![c] = n]
        /\ walletOf[r.wallet] \in {Nobody, r.who} /\ r.at = "reserving" /\ account[r.who].wallet = r.old
    BY <1>5 DEF ReserveWallet, At, stands, reservable
  <2>2. /\ n \in Challenged /\ n.at = "governing" /\ n.intent = r.intent /\ n.who = r.who /\ n.wallet = r.wallet
        /\ n.old = r.old /\ n.session = r.session /\ n.version = r.version
    BY <1>3
  <2> HIDE DEF n
  <2>3. Grows(walletOf, walletOf') /\ Grows(governed, governed') /\ walletOf' \in [Wallets -> People \cup {Nobody}]
    BY <1>0, <1>1, <2>1 DEF Rest, Grows
  <2>4. ChallengeStands(n, account[n.who]) /\ Held(n, walletOf', governed')
    BY <1>0, <1>1, <1>2, <2>1, <2>2 DEF ChallengeStands, Replaces, Held, Rest
  <2>5. governed' \in [Wallets -> People \cup {Nobody}]
    BY <1>0, <2>1 DEF Rest
  <2> QED BY <1>1, <1>2, <2>1, <2>2, <2>3, <2>4, <2>5, RegistryKeeps
<1>6. CASE RegisterWallet(c) /\ \A w \in {r.wallet} \cup ({r.old} \ {Nobody}) : governed[w] \in {Nobody, r.who}
  <2> DEFINE at == IF r.intent = "login" THEN "issuing" ELSE "identity"
             n == [r EXCEPT !.at = at]
             ws == {r.wallet} \cup ({r.old} \ {Nobody})
  <2>1. /\ governed' = [w \in Wallets |-> IF w \in ws THEN r.who ELSE governed[w]] /\ walletOf' = walletOf
        /\ run' = [run EXCEPT ![c] = n] /\ r.at = "governing" /\ \A w \in ws : governed[w] \in {Nobody, r.who}
    BY <1>6 DEF RegisterWallet, At
  <2>2. /\ n \in Challenged /\ n.at = at /\ n.intent = r.intent /\ n.who = r.who /\ n.wallet = r.wallet
        /\ n.old = r.old /\ n.session = r.session /\ n.version = r.version
    BY <1>3
  <2>3. at = "issuing" <=> r.intent = "login"
    OBVIOUS
  <2>4. at \in {"identity", "issuing"}
    OBVIOUS
  <2>5. Grows(walletOf, walletOf') /\ Grows(governed, governed') /\ governed' \in [Wallets -> People \cup {Nobody}]
    BY <1>0, <1>1, <2>1 DEF Rest, Grows
  <2>6. r.wallet \in ws
    OBVIOUS
  <2> HIDE DEF n, at, ws
  <2>7. Held(n, walletOf', governed')
    BY <1>1, <1>2, <2>1, <2>2, <2>6 DEF Held
  <2>8. ChallengeStands(n, account[n.who])
    BY <1>1, <1>2, <2>1, <2>2, <2>3, <2>4 DEF ChallengeStands, Replaces, KeepsWallet
  <2>9. walletOf' \in [Wallets -> People \cup {Nobody}]
    BY <1>0, <2>1 DEF Rest
  <2> QED BY <1>1, <1>2, <2>1, <2>2, <2>5, <2>7, <2>8, <2>9, RegistryKeeps
<1> QED BY <1>4, <1>5, <1>6 DEF ReserveWallet, RegisterWallet

LEMMA ChangeKeeps == ASSUME AccountsInv, NEW c \in Callers, ChangeIdentity(c) PROVE AccountsInv'
<1> DEFINE r == run[c]
           p == r.who
           a == account[p]
           next == renewed(a, {})
           wallet == IF r.intent \in ChangesWallet THEN r.wallet ELSE next.wallet
           recovery == IF r.intent = "revoke-sessions" THEN next.recovery ELSE next.version
           credential == IF r.code # 0 /\ r.intent \in ChangesWallet THEN NoCredential ELSE next.credential
           b == [next EXCEPT !.wallet = wallet, !.recovery = recovery, !.credential = credential]
           n == [r EXCEPT !.at = "issuing", !.version = next.version]
<1>0. Rest /\ Named
  BY DEF AccountsInv
<1>1. r \in Challenged /\ r.at = "identity" /\ p \in People /\ r.wallet \in Wallets /\ r.version \in Nat
  BY <1>0, RequestIs DEF Rest, ChangeIdentity, Challenged
<1>2. /\ a \in UserAccount /\ SessionsStand(a) /\ (~a.active => a.credential.verifier = 0)
      /\ ChallengeStands(r, a) /\ Held(r, walletOf, governed)
  BY <1>0, <1>1 DEF Rest, Named, NamesLead
<1>3. CASE Ends(c) /\ UNCHANGED account
  BY <1>0, <1>1, <1>3, RegistryKeeps DEF Rest, Grows, ChangeIdentity, Registries
<1>4. CASE /\ a.active /\ a.version = r.version /\ (r.intent # "recover" => authenticates(p, r.session))
           /\ r.code # 0 => a.recovery = r.code
  <2>1. account' = [account EXCEPT ![p] = b] /\ run' = [run EXCEPT ![c] = n] /\ UNCHANGED <<username, walletOf, governed>>
    BY <1>4 DEF ChangeIdentity, Account, Registries
  <2>2. /\ next \in UserAccount /\ next.version = a.version + 1 /\ next.sessions = {} /\ next.active = a.active
        /\ next.wallet = a.wallet /\ next.recovery = a.recovery /\ next.credential = a.credential
    BY <1>2, RenewedIs
  <2>3. next.version \in Nat \ {0} /\ a.version \in Nat /\ a.recovery \in Nat /\ a.credential \in Credential
    BY <1>2, <2>2 DEF UserAccount
  <2> HIDE DEF next
  <2>4. wallet \in Wallets \cup {Nobody} /\ recovery \in Nat
    BY <1>1, <2>2, <2>3 DEF UserAccount
  <2>5. credential \in Credential /\ (credential # a.credential => credential.verifier = 0 /\ r.code # 0 /\ r.intent \in ChangesWallet)
    BY <2>2, <2>3 DEF Credential, NoCredential
  <2>6. recovery = 0 => r.intent = "revoke-sessions" /\ a.recovery = 0
    BY <2>2, <2>3
  <2>7. r.intent \in ChangesWallet => wallet = r.wallet
    OBVIOUS
  <2>8. r.intent \notin ChangesWallet => wallet = a.wallet /\ credential = a.credential
    BY <2>2
  <2> HIDE DEF wallet, recovery, credential
  <2>9. /\ b \in UserAccount /\ b.version = a.version + 1 /\ b.sessions = {} /\ b.active = a.active
        /\ b.wallet = wallet /\ b.recovery = recovery /\ b.credential = credential
    BY <2>2, <2>4, <2>5 DEF UserAccount
  <2> HIDE DEF b
  <2>10. /\ n \in Challenged /\ n.at = "issuing" /\ n.version = a.version + 1 /\ n.who = p /\ n.wallet = r.wallet
         /\ n.intent = r.intent /\ n.old = r.old /\ n.session = r.session
    BY <1>1, <2>2, <2>3 DEF Challenged
  <2> HIDE DEF n
  <2>11. account' \in [People -> UserAccount] /\ \A q \in People : account'[q] = IF q = p THEN b ELSE account[q]
    BY <1>0, <2>1, <2>9 DEF Rest
  <2>12. run' \in [Callers -> Request] /\ \A d \in Callers : run'[d] = IF d = c THEN n ELSE run[d]
    BY <1>0, <2>1, <2>10 DEF Rest, Request
  <2>13. ChallengeStands(n, b)
    <3>1. r.intent \in ChangesWallet => ~Replaces(n) /\ n.intent # "login"
      BY <2>10 DEF Replaces, KeepsWallet, ChangesWallet
    <3>2. r.intent \in ChangesWallet \cup KeepsWallet /\ ~(r.intent \in KeepsWallet /\ r.intent \in ChangesWallet)
      BY <1>1 DEF Challenged, KeepsWallet, ChangesWallet
    <3>3. CASE r.intent \in ChangesWallet
      BY <2>3, <2>7, <2>9, <2>10, <3>1, <3>2, <3>3 DEF ChallengeStands
    <3>4. CASE r.intent \in KeepsWallet
      <4>1. wallet = a.wallet /\ credential = a.credential /\ wallet = r.old
        BY <1>1, <1>2, <1>4, <2>8, <3>2, <3>4 DEF ChallengeStands
      <4>2. r.old \in {r.wallet} \cup (IF r.intent = "login" THEN {} ELSE {Nobody})
        BY <1>2, <1>4, <3>4 DEF ChallengeStands
      <4>3. Replaces(n) => StandsFor(n.session, b)
        <5>1. r.intent # "recover"
          BY <3>4 DEF KeepsWallet
        <5>2. StandsFor(r.session, a)
          BY <1>2, <1>4, <5>1 DEF authenticates, SessionsStand
        <5> QED BY <2>9, <2>10, <4>1, <5>2 DEF StandsFor
      <4>4. ~Replaces(n) => b.wallet = n.wallet
        BY <2>9, <2>10, <3>4, <4>1, <4>2 DEF Replaces, KeepsWallet
      <4> QED BY <2>3, <2>9, <2>10, <3>4, <4>1, <4>2, <4>3, <4>4 DEF ChallengeStands
    <3> QED BY <3>2, <3>3, <3>4
  <2>14. Onward(a, b)
    BY <2>3, <2>9 DEF Onward
  <2>15. \A d \in Callers : run'[d] \in Challenged =>
           ChallengeStands(run'[d], account'[run'[d].who]) /\ Held(run'[d], walletOf', governed')
    <3>1. Held(n, walletOf, governed)
      BY <1>1, <1>2, <2>10 DEF Held
    <3>2. ASSUME NEW d \in Callers, d # c, run'[d] \in Challenged PROVE ChallengeStands(run'[d], account'[run'[d].who])
      <4>1. run'[d] = run[d] /\ run[d].who \in People /\ ChallengeStands(run[d], account[run[d].who])
        BY <1>0, <2>12, <3>2 DEF Rest, Challenged
      <4>2. CASE run[d].who = p
        BY <1>2, <2>9, <2>11, <2>14, <3>2, <4>1, <4>2, ChallengePersists
      <4>3. CASE run[d].who # p
        BY <2>11, <4>1, <4>3
      <4> QED BY <4>2, <4>3
    <3>3. \A d \in Callers : d # c /\ run'[d] \in Challenged => Held(run'[d], walletOf', governed')
      BY <1>0, <2>1, <2>12 DEF Rest
    <3> QED BY <1>1, <2>1, <2>10, <2>11, <2>12, <2>13, <3>1, <3>2, <3>3
  <2>16. WalletLeadsHome'
    <3>1. b.wallet # Nobody => walletOf[b.wallet] = p /\ governed[b.wallet] = p
      BY <1>0, <1>1, <1>2, <2>7, <2>8, <2>9 DEF Held, Rest, WalletLeadsHome
    <3> QED BY <1>0, <2>1, <2>11, <3>1 DEF Rest, WalletLeadsHome
  <2>17. Rest'
    <3>1. SessionsStand(b)
      BY <2>9 DEF SessionsStand
    <3> QED BY <1>0, <2>1, <2>11, <2>12, <2>15, <2>16, <3>1 DEF Rest
  <2>18. SameName(a, b)
    <3>1. Unrecovered(b) => b.credential = a.credential /\ Unrecovered(a)
      BY <2>5, <2>6, <2>9 DEF Unrecovered, ChangesWallet
    <3> QED BY <3>1 DEF SameName
  <2>19. \A q \in People : SameName(account[q], account'[q]) /\ (~account'[q].active => account'[q].credential.verifier = 0)
    <3>1. \A q \in People : SameName(account[q], account[q]) /\ (~account[q].active => account[q].credential.verifier = 0)
      BY <1>0 DEF SameName, Named, NamesLead
    <3> QED BY <1>4, <2>9, <2>11, <2>18, <3>1
  <2>20. Named'
    BY <1>0, <2>1, <2>10, <2>12, <2>17, <2>19, NamesCarryOver DEF RegistrationStages
  <2> QED BY <2>17, <2>20 DEF AccountsInv
<1> QED BY <1>3, <1>4 DEF ChangeIdentity

LEMMA IssueKeeps == ASSUME AccountsInv, NEW c \in Callers, IssueSession(c) PROVE AccountsInv'
<1> DEFINE r == run[c]
           p == r.who
           a == account[p]
           s == IF r.intent \notin ChangesWallet /\ r.intent # "login" /\ r.old = Nobody THEN [r.session EXCEPT !.version = r.version]
                ELSE [version |-> r.version, kind |-> "wallet", proof |-> r.wallet]
           ss == a.sessions \cup {s}
           b == [a EXCEPT !.sessions = ss]
<1>0. Rest /\ Named
  BY DEF AccountsInv
<1>1. r \in Challenged /\ r.at = "issuing" /\ p \in People
  BY <1>0, RequestIs DEF Rest, IssueSession, Challenged
<1>2. /\ a \in UserAccount /\ SessionsStand(a) /\ (~a.active => a.credential.verifier = 0)
      /\ ChallengeStands(r, a)
  BY <1>0, <1>1 DEF Rest, Named, NamesLead
<1>3. s \in Session /\ s.version = r.version
  BY <1>1 DEF Challenged, Session
<1>4. a.version = r.version => StandsFor(s, a)
  <2>1. Replaces(r) <=> r.intent \notin ChangesWallet /\ r.intent # "login" /\ r.old = Nobody
    BY <1>1 DEF Replaces, Challenged, KeepsWallet, ChangesWallet
  <2>2. CASE Replaces(r)
    <3>1. s = [r.session EXCEPT !.version = r.version] /\ r.session \in Session
      BY <1>1, <2>1, <2>2 DEF Challenged
    <3>2. s.kind = r.session.kind /\ s.proof = r.session.proof
      BY <3>1 DEF Session
    <3> HIDE DEF s
    <3> QED BY <1>1, <1>2, <2>2, <3>2 DEF ChallengeStands, StandsFor
  <2>3. CASE ~Replaces(r)
    BY <1>1, <1>2, <2>1, <2>3 DEF ChallengeStands, StandsFor
  <2> QED BY <2>2, <2>3
<1>5. account' \in {account, [account EXCEPT ![p] = b]} /\ UNCHANGED <<username, walletOf, governed>>
  BY DEF IssueSession, Registries
<1>6. account' # account => a.version = r.version
  BY DEF IssueSession
<1> HIDE DEF s
<1>7. ss \in SUBSET Session
  BY <1>2, <1>3 DEF UserAccount
<1> HIDE DEF ss
<1>8. /\ b \in UserAccount /\ b.sessions = ss /\ b.version = a.version /\ b.wallet = a.wallet
      /\ b.credential = a.credential /\ b.active = a.active /\ b.recovery = a.recovery
  BY <1>2, <1>7 DEF UserAccount
<1> HIDE DEF b
<1>9. account' # account => SessionsStand(b)
  BY <1>2, <1>3, <1>4, <1>6, <1>8 DEF SessionsStand, StandsFor, ss
<1>10. Onward(a, b) /\ SameName(a, b) /\ (~b.active => b.credential.verifier = 0)
  BY <1>2, <1>8 DEF Onward, SameName, Unrecovered
<1>11. /\ run' \in [Callers -> Request]
       /\ \A d \in Callers : run'[d] \in Challenged \/ run'[d].at # "idle" => run'[d] = run[d]
  BY <1>0, EndsIs DEF IssueSession
<1> QED BY <1>1, <1>5, <1>8, <1>9, <1>10, <1>11, EndingKeeps

-----------------------------------------------------------------------------
(* The steps of a registration change names, or who registers.             *)
LEMMA NamesStep ==
  ASSUME Rest, Rest', Named, NEW c \in Callers, run[c] \in Registering, username' \in [Names -> Reservation],
         \A n \in Names : username'[n].committed => username'[n].who # Nobody,
         \A d \in Callers : d # c => run'[d] = run[d],
         run'[c] \in Registering => NotedBy(c, run'[c], account'[run'[c].who], username'),
         \A q \in People : q # run[c].who => account'[q] = account[q],
         ~account'[run[c].who].active => account'[run[c].who].credential.verifier = 0,
         \A d \in Callers : d # c /\ run[d] \in Registering => NotedBy(d, run[d], account'[run[d].who], username'),
         \A q \in People : Unrecovered(account'[q]) /\ account'[q].credential.verifier # 0 =>
           Leads(account'[q].credential.name, q, username', run')
  PROVE  Named'
<1>1. \A q \in People : ~account'[q].active => account'[q].credential.verifier = 0
  BY DEF Named, NamesLead
<1>2. \A d \in Callers : run'[d] \in Registering => NotedBy(d, run'[d], account'[run'[d].who], username')
  OBVIOUS
<1>3. NamesLead'
  BY <1>1, <1>2 DEF NamesLead
<1> QED BY <1>3 DEF Named

LEMMA ReserveUsernameKeeps == ASSUME AccountsInv, NEW c \in Callers, ReserveUsername(c) PROVE AccountsInv'
<1> DEFINE r == run[c]
           n == r.name
           p == r.who
           stage == IF taken(n, p) THEN "cancelling" ELSE "reserved"
           entry == [who |-> p, operation |-> c, committed |-> FALSE]
<1>0. Rest /\ Named
  BY DEF AccountsInv
<1>1. r \in Registering /\ r.at = "begun" /\ p \in People /\ n \in Names /\ p # Nobody
  BY <1>0, RequestIs, AccountsAssumption DEF Rest, ReserveUsername, Registering
<1>2. At(c, stage) /\ UNCHANGED <<account, walletOf, governed>>
      /\ username' = IF taken(n, p) \/ username[n].committed THEN username ELSE [username EXCEPT ![n] = entry]
  BY DEF ReserveUsername
<1>3. username \in [Names -> Reservation] /\ entry \in Reservation /\ \A m \in Names : username[m].committed => username[m].who # Nobody
  BY <1>0, <1>1 DEF Named, NamesLead, Reservation
<1>4. stage \in {"cancelling", "reserved"} /\ (stage = "reserved" => ~taken(n, p)) /\ run'[c].at = stage
  BY <1>0, <1>1, <1>2 DEF At, Rest, Registering
<1> HIDE DEF stage
<1>5. /\ run' \in [Callers -> Request] /\ run'[c] \in Registering /\ run'[c] \notin Challenged
      /\ run'[c].who = p /\ run'[c].name = n /\ \A d \in Callers : d # c => run'[d] = run[d]
  BY <1>0, <1>1, <1>2, <1>4, AtIs
<1>6. Rest'
  BY <1>0, <1>2, <1>5, RunKeeps
<1>7. /\ username' \in [Names -> Reservation] /\ \A m \in Names : username'[m].committed => username'[m].who # Nobody
      /\ \A m \in Names : m # n => username'[m] = username[m]
      /\ username'[n] \in {username[n], entry}
      /\ username[n].committed => username'[n] = username[n]
  BY <1>1, <1>2, <1>3
<1>8. username'[n] # username[n] => username[n].who \in {Nobody, p} /\ ~username[n].committed /\ username'[n] = entry
  BY <1>1, <1>2, <1>3 DEF taken
<1>9. ~taken(n, p) => Reserved(run'[c], c, username')
  <2>1. CASE username[n].committed
    BY <1>2, <1>3, <1>1, <1>5, <2>1 DEF taken, Reserved
  <2>2. CASE ~username[n].committed
    BY <1>1, <1>2, <1>3, <1>5, <2>2 DEF Reserved
  <2> QED BY <2>1, <2>2
<1>10. NotedBy(c, r, account[p], username)
  BY <1>0, <1>1 DEF Named, NamesLead
<1>11. NotedBy(c, run'[c], account'[run'[c].who], username')
  BY <1>1, <1>2, <1>4, <1>5, <1>9, <1>10 DEF NotedBy
<1>12. ASSUME NEW d \in Callers, d # c, run[d] \in Registering
       PROVE  NotedBy(d, run[d], account'[run[d].who], username')
  <2>1. NotedBy(d, run[d], account[run[d].who], username) /\ run[d].who \in People /\ run[d].name \in Names /\ run[d].who # Nobody
    BY <1>0, <1>12, AccountsAssumption DEF Named, NamesLead, Registering
  <2>2. CASE run[d].who = p
    BY <1>1, <1>2, <1>10, <1>12, <2>1, <2>2 DEF NotedBy
  <2>3. CASE run[d].who # p
    BY <1>2, <1>7, <1>8, <2>1, <2>3 DEF NotedBy, Reserved
  <2> QED BY <2>2, <2>3
<1>13. ASSUME NEW q \in People, Unrecovered(account'[q]), account'[q].credential.verifier # 0
       PROVE  Leads(account'[q].credential.name, q, username', run')
  <2>1. Leads(account[q].credential.name, q, username, run) /\ q # Nobody
    BY <1>0, <1>2, <1>13, AccountsAssumption DEF Named, NamesLead
  <2>2. q # p
    BY <1>1, <1>2, <1>10, <1>13 DEF NotedBy
  <2>3. \A d \in Callers, m \in Names : Releases(run'[d], m, q) => Releases(run[d], m, q)
    BY <1>4, <1>5 DEF Releases
  <2>4. \A m \in Names : username[m].who = q => username'[m] = username[m]
    BY <1>7, <1>8, <2>1, <2>2
  <2> QED BY <1>2, <2>1, <2>3, <2>4 DEF Leads
<1>14. Named'
  BY <1>0, <1>1, <1>2, <1>5, <1>6, <1>7, <1>11, <1>12, <1>13, NamesStep DEF Named, NamesLead
<1> QED BY <1>6, <1>14 DEF AccountsInv

LEMMA RegisterKeeps ==
  ASSUME AccountsInv, NEW c \in Callers, NEW p \in People, NEW s \in Session, NEW n \in Names, Register(c, p, s, n)
  PROVE  AccountsInv'
<1> DEFINE a == account[p]
           r == [at |-> "begun", who |-> p, session |-> s, name |-> n]
           credential == [name |-> n, verifier |-> 0, operation |-> c, expected |-> a.version]
           b == [a EXCEPT !.credential = credential]
<1>0. Rest /\ Named
  BY DEF AccountsInv
<1>1. a \in UserAccount /\ a.credential = NoCredential /\ SessionsStand(a) /\ a.version \in Nat /\ a.active
  BY <1>0 DEF Rest, Register, UserAccount, authenticates
<1>2. r \in Registering /\ r \in Request /\ r \notin Challenged /\ r.at = "begun" /\ r.who = p /\ r.name = n
  BY DEF Registering, Request, Challenged
<1>3. Begins(c, r) /\ account' = [account EXCEPT ![p] = b] /\ UNCHANGED <<username, walletOf, governed>> /\ run[c] = Idle
  BY DEF Register, Account, Registries, Begins
<1> HIDE DEF r
<1>4. credential \in Credential /\ credential.verifier = 0 /\ credential.operation = c /\ credential.name = n
  BY <1>1 DEF Credential
<1> HIDE DEF credential
<1>5. /\ b \in UserAccount /\ b.sessions = a.sessions /\ b.version = a.version /\ b.wallet = a.wallet
      /\ b.credential = credential /\ b.active = a.active /\ b.recovery = a.recovery
  BY <1>1, <1>4 DEF UserAccount
<1> HIDE DEF b
<1>6. /\ run' \in [Callers -> Request] /\ run'[c] = r /\ \A d \in Callers : d # c => run'[d] = run[d]
  BY <1>0, <1>2, <1>3, BeginsIs
<1>7. SessionsStand(b) /\ Onward(a, b)
  BY <1>1, <1>4, <1>5 DEF SessionsStand, StandsFor, Onward, NoCredential
<1>8. Rest'
  BY <1>0, <1>2, <1>3, <1>5, <1>6, <1>7, AccountKeeps
<1>9. account'[p] = b /\ \A q \in People : q # p => account'[q] = account[q]
  BY <1>0, <1>3 DEF Rest
<1>10. NotedBy(c, r, b, username)
  BY <1>2, <1>4, <1>5 DEF NotedBy
<1>11. ASSUME NEW d \in Callers, d # c, run[d] \in Registering
       PROVE  NotedBy(d, run[d], account'[run[d].who], username)
  <2>1. NotedBy(d, run[d], account[run[d].who], username) /\ run[d].who \in People /\ d # Nobody
    BY <1>0, <1>11, AccountsAssumption DEF Named, NamesLead, Registering
  <2>2. CASE run[d].who = p
    BY <1>1, <1>5, <1>9, <2>1, <2>2 DEF NotedBy, NoCredential, Unrecovered
  <2>3. CASE run[d].who # p
    BY <1>9, <2>1, <2>3
  <2> QED BY <2>2, <2>3
<1>12. ASSUME NEW q \in People, Unrecovered(account'[q]), account'[q].credential.verifier # 0
       PROVE  Leads(account'[q].credential.name, q, username', run')
  <2>1. q # p
    BY <1>4, <1>5, <1>9, <1>12
  <2>2. Leads(account[q].credential.name, q, username, run)
    BY <1>0, <1>9, <1>12, <2>1 DEF Named, NamesLead
  <2>3. \A d \in Callers, m \in Names : Releases(run'[d], m, q) => Releases(run[d], m, q)
    BY <1>2, <1>6 DEF Releases
  <2> QED BY <1>3, <1>9, <2>1, <2>2, <2>3 DEF Leads
<1>13. NamesLead'
  <2>1. \A q \in People : ~account'[q].active => account'[q].credential.verifier = 0
    BY <1>0, <1>1, <1>5, <1>9 DEF Named, NamesLead
  <2>2. \A d \in Callers : run'[d] \in Registering => NotedBy(d, run'[d], account'[run'[d].who], username')
    BY <1>2, <1>3, <1>6, <1>9, <1>10, <1>11
  <2> QED BY <1>0, <1>3, <1>12, <2>1, <2>2 DEF Named, NamesLead
<1> QED BY <1>0, <1>3, <1>8, <1>13 DEF AccountsInv, Named

LEMMA FinishKeeps == ASSUME AccountsInv, NEW c \in Callers, NEW answered \in BOOLEAN, Finish(c, answered) PROVE AccountsInv'
<1> DEFINE r == run[c]
           p == r.who
           a == account[p]
           takes == /\ authenticates(p, r.session) /\ a.credential.verifier = 0
                    /\ a.credential.operation = c /\ a.credential.expected = a.version
           b == withPassword(a, a.credential)
           stage == IF takes THEN "taken" ELSE "refused"
<1>0. Rest /\ Named
  BY DEF AccountsInv
<1>1. r \in Registering /\ r.at = "reserved" /\ p \in People /\ a \in UserAccount /\ SessionsStand(a)
  BY <1>0, RequestIs DEF Rest, Finish, Registering
<1>2. NotedBy(c, r, a, username) /\ (~a.active => a.credential.verifier = 0)
  BY <1>0, <1>1 DEF Named, NamesLead
<1>3. /\ b \in UserAccount /\ SessionsStand(b) /\ b.version = a.version + 1
      /\ b.active = a.active /\ b.wallet = a.wallet /\ b.recovery = a.recovery
      /\ b.credential.name = a.credential.name /\ b.credential.verifier # 0
  BY <1>1, WithPasswordIs
<1>4. /\ account' = IF takes THEN [account EXCEPT ![p] = b] ELSE account
      /\ IF answered THEN At(c, stage) ELSE Ends(c)
      /\ username' = username /\ UNCHANGED <<walletOf, governed>>
  BY DEF Finish, retained
<1>5. takes => a.active
  BY DEF authenticates
<1>6. stage = "taken" \/ (stage = "refused" /\ ~takes)
  OBVIOUS
<1> HIDE DEF b, takes, stage
<1>7. /\ run' \in [Callers -> Request] /\ run'[c] \notin Challenged /\ \A d \in Callers : d # c => run'[d] = run[d]
      /\ run'[c] \in Registering => /\ run'[c].at \in {"taken", "refused"} /\ run'[c].who = p /\ run'[c].name = r.name
                                    /\ run'[c].at = "refused" => ~takes
      /\ run'[c].at # "releasing"
  <2>1. CASE answered
    <3>1. run'[c].at = stage
      BY <1>0, <1>1, <1>4, <2>1 DEF At, Rest, Registering
    <3> QED BY <1>0, <1>1, <1>4, <1>6, <2>1, <3>1, AtIs
  <2>2. CASE ~answered
    BY <1>0, <1>4, <2>2, EndsIs, IdleIs DEF Registering, Ends, Rest
  <2> QED BY <2>1, <2>2
<1>8. \A q \in People : account'[q] = IF q = p /\ takes THEN b ELSE account[q]
  BY <1>0, <1>4 DEF Rest
<1>9. Rest'
  <2>1. CASE takes
    <3>1. Onward(a, b)
      BY <1>1, <1>3 DEF Onward, UserAccount
    <3> QED BY <1>0, <1>1, <1>3, <1>4, <1>7, <2>1, <3>1, AccountKeeps
  <2>2. CASE ~takes
    BY <1>0, <1>4, <1>7, <2>2, RunKeeps
  <2> QED BY <2>1, <2>2
<1>10. run'[c] \in Registering => NotedBy(c, run'[c], account'[run'[c].who], username')
  BY <1>1, <1>2, <1>4, <1>7, <1>8 DEF NotedBy
<1>11. ASSUME NEW d \in Callers, d # c, run[d] \in Registering
       PROVE  NotedBy(d, run[d], account'[run[d].who], username')
  <2>1. NotedBy(d, run[d], account[run[d].who], username) /\ run[d].who \in People
    BY <1>0, <1>11 DEF Named, NamesLead, Registering
  <2>2. CASE run[d].who = p /\ takes
    BY <1>1, <1>2, <1>3, <1>8, <1>11, <2>1, <2>2 DEF NotedBy, Unrecovered
  <2>3. CASE ~(run[d].who = p /\ takes)
    BY <1>4, <1>8, <2>1, <2>3
  <2> QED BY <2>2, <2>3
<1>12. ASSUME NEW q \in People, Unrecovered(account'[q]), account'[q].credential.verifier # 0
       PROVE  Leads(account'[q].credential.name, q, username', run')
  <2>1. \A d \in Callers, m \in Names : Releases(run'[d], m, q) => d # c /\ Releases(run[d], m, q)
    BY <1>7 DEF Releases
  <2>2. CASE q = p /\ takes
    <3>1. Unrecovered(a) /\ b.credential.name = r.name /\ r.name \in Names /\ Reserved(r, c, username)
      BY <1>1, <1>2, <1>3, <1>8, <1>12, <2>2 DEF NotedBy, Unrecovered, Registering
    <3> QED BY <1>1, <1>4, <1>8, <2>1, <2>2, <3>1 DEF Leads, Reserved
  <2>3. CASE ~(q = p /\ takes)
    <3>1. Leads(account[q].credential.name, q, username, run)
      BY <1>0, <1>8, <1>12, <2>3 DEF Named, NamesLead
    <3> QED BY <1>4, <1>8, <2>1, <2>3, <3>1 DEF Leads
  <2> QED BY <2>2, <2>3
<1>13. Named'
  <2>1. ~account'[p].active => account'[p].credential.verifier = 0
    BY <1>1, <1>2, <1>3, <1>5, <1>8
  <2> QED BY <1>0, <1>1, <1>4, <1>7, <1>8, <1>9, <1>10, <1>11, <1>12, <2>1, NamesStep DEF Named, NamesLead
<1> QED BY <1>9, <1>13 DEF AccountsInv

(* Who has registered commits the name, and who has not lets it go.        *)
LEMMA NameKeeps == ASSUME AccountsInv, NEW c \in Callers, CommitUsername(c) \/ ReleaseUsername(c) PROVE AccountsInv'
<1> DEFINE r == run[c]
           n == r.name
           p == r.who
<1>0. Rest /\ Named
  BY DEF AccountsInv
<1>1. r \in Registering /\ p \in People /\ n \in Names /\ r.at \in {"taken", "releasing"}
  BY <1>0, RequestIs DEF Rest, CommitUsername, ReleaseUsername, Registering
<1>2. Ends(c) /\ UNCHANGED <<account, walletOf, governed>>
  BY DEF CommitUsername, ReleaseUsername
<1>3. /\ run' \in [Callers -> Request] /\ run'[c] = Idle /\ \A d \in Callers : d # c => run'[d] = run[d]
  BY <1>0, <1>2, EndsIs DEF Ends, Rest
<1>4. Idle \notin Registering /\ Idle.at = "idle"
  BY DEF Idle, Registering
<1>5. Rest'
  BY <1>0, <1>2, <1>3, IdleIs, RunKeeps
<1>6. username \in [Names -> Reservation] /\ \A m \in Names : username[m].committed => username[m].who # Nobody
  BY <1>0 DEF Named, NamesLead
<1>7. /\ username' \in [Names -> Reservation] /\ \A m \in Names : username'[m].committed => username'[m].who # Nobody
      /\ \A m \in Names : \/ username'[m] = username[m]
                          \/ /\ username'[m].who = username[m].who /\ username'[m].operation = username[m].operation
                             /\ username'[m].committed
                          \/ Releases(r, m, p) /\ username[m].who = p /\ username[m].operation = c /\ ~username[m].committed
  <2>1. CASE CommitUsername(c)
    <3> DEFINE e == [username[n] EXCEPT !.committed = TRUE]
    <3>1. username' = username \/ (username' = [username EXCEPT ![n] = e] /\ username[n].who = p)
      BY <2>1 DEF CommitUsername
    <3>2. e \in Reservation /\ e.who = username[n].who /\ e.operation = username[n].operation /\ e.committed
      BY <1>1, <1>6 DEF Reservation
    <3> HIDE DEF e
    <3> QED BY <1>1, <1>6, <3>1, <3>2, AccountsAssumption
  <2>2. CASE ReleaseUsername(c)
    <3>1. Free \in Reservation /\ ~Free.committed
      BY DEF Free, Reservation
    <3>2. \/ username' = username
          \/ /\ username' = [username EXCEPT ![n] = Free] /\ username[n].who = p
             /\ username[n].operation = c /\ ~username[n].committed
      BY <2>2 DEF ReleaseUsername, released
    <3>3. Releases(r, n, p)
      BY <2>2 DEF Releases, ReleaseUsername
    <3> QED BY <1>1, <1>6, <3>1, <3>2, <3>3
  <2> QED BY <2>1, <2>2
<1>8. ASSUME NEW d \in Callers, d # c, run[d] \in Registering
      PROVE  NotedBy(d, run[d], account'[run[d].who], username')
  <2>1. NotedBy(d, run[d], account[run[d].who], username) /\ run[d].who \in People /\ run[d].name \in Names
    BY <1>0, <1>8 DEF Named, NamesLead, Registering
  <2> QED BY <1>2, <1>7, <1>8, <2>1 DEF NotedBy, Reserved
<1>9. ASSUME NEW q \in People, Unrecovered(account'[q]), account'[q].credential.verifier # 0
      PROVE  Leads(account'[q].credential.name, q, username', run')
  <2> DEFINE m == account[q].credential.name
  <2>1. Leads(m, q, username, run)
    BY <1>0, <1>2, <1>9 DEF Named, NamesLead
  <2>2. \A d \in Callers : Releases(run'[d], m, q) => Releases(run[d], m, q)
    BY <1>3, <1>4 DEF Releases
  <2>3. ~(Releases(r, m, p) /\ username[m].who = p /\ username[m].operation = c /\ ~username[m].committed)
    BY <2>1 DEF Leads
  <2> HIDE DEF m
  <2>4. Leads(m, q, username', run')
    BY <1>7, <2>1, <2>2, <2>3 DEF Leads
  <2> QED BY <1>2, <2>4 DEF m
<1>10. Named'
  BY <1>0, <1>1, <1>2, <1>3, <1>4, <1>5, <1>7, <1>8, <1>9, NamesStep DEF Named, NamesLead
<1> QED BY <1>5, <1>10 DEF AccountsInv

(* A registration is forgotten, its request done with it or long gone.     *)
LEMMA ForgottenIs ==
  ASSUME NEW a \in UserAccount, a.credential.verifier = 0, SessionsStand(a)
  PROVE  LET b == [a EXCEPT !.credential = NoCredential] IN
         /\ b \in UserAccount /\ SessionsStand(b) /\ Onward(a, b) /\ b.wallet = a.wallet /\ b.active = a.active
         /\ b.recovery = a.recovery /\ b.credential = NoCredential /\ b.credential.verifier = 0
<1> DEFINE none == NoCredential
           b == [a EXCEPT !.credential = none]
<1>1. none \in Credential /\ none.verifier = 0
  BY DEF NoCredential, Credential
<1> HIDE DEF none
<1>2. /\ b \in UserAccount /\ b.sessions = a.sessions /\ b.version = a.version /\ b.wallet = a.wallet
      /\ b.active = a.active /\ b.recovery = a.recovery /\ b.credential = none
  BY <1>1 DEF UserAccount
<1> HIDE DEF b
<1>3. SessionsStand(b) /\ Onward(a, b)
  BY <1>1, <1>2 DEF SessionsStand, StandsFor, Onward
<1> QED BY <1>1, <1>2, <1>3 DEF b, none

LEMMA CancelKeeps == ASSUME AccountsInv, NEW c \in Callers, CancelRegistration(c) PROVE AccountsInv'
<1> DEFINE r == run[c]
           p == r.who
           a == account[p]
           b == [a EXCEPT !.credential = NoCredential]
           forgets == a.credential.operation = c /\ a.credential.verifier = 0
<1>0. Rest /\ Named
  BY DEF AccountsInv
<1>1. r \in Registering /\ r.at \in {"cancelling", "refused"} /\ p \in People /\ a \in UserAccount /\ SessionsStand(a)
  BY <1>0, RequestIs DEF Rest, CancelRegistration, Registering
<1>2. NotedBy(c, r, a, username) /\ (~a.active => a.credential.verifier = 0)
  BY <1>0, <1>1 DEF Named, NamesLead
<1>3. /\ account' = IF forgets THEN [account EXCEPT ![p] = b] ELSE account
      /\ IF r.at = "cancelling" THEN Ends(c) ELSE At(c, "releasing")
      /\ UNCHANGED <<username, walletOf, governed>>
  BY DEF CancelRegistration, Registries
<1>4. forgets => /\ b \in UserAccount /\ SessionsStand(b) /\ Onward(a, b) /\ b.wallet = a.wallet /\ b.active = a.active
                 /\ b.recovery = a.recovery /\ b.credential.verifier = 0
  BY <1>1, ForgottenIs
<1> HIDE DEF b
<1>5. /\ run' \in [Callers -> Request] /\ run'[c] \notin Challenged /\ \A d \in Callers : d # c => run'[d] = run[d]
      /\ run'[c] \in Registering => run'[c].at = "releasing"
      /\ run'[c].at = "releasing" => run'[c].who = p /\ r.at = "refused"
  <2>1. CASE r.at = "refused"
    <3>1. run'[c].at = "releasing"
      BY <1>0, <1>1, <1>3, <2>1 DEF At, Rest, Registering
    <3> QED BY <1>0, <1>1, <1>3, <2>1, <3>1, AtIs
  <2>2. CASE r.at = "cancelling"
    BY <1>0, <1>3, <2>2, EndsIs, IdleIs DEF Registering, Ends, Rest
  <2> QED BY <1>1, <2>1, <2>2
<1>6. \A q \in People : account'[q] = IF q = p /\ forgets THEN b ELSE account[q]
  BY <1>0, <1>3 DEF Rest
<1>7. Rest'
  <2>1. CASE forgets
    BY <1>0, <1>1, <1>3, <1>4, <1>5, <2>1, AccountKeeps
  <2>2. CASE ~forgets
    BY <1>0, <1>3, <1>5, <2>2, RunKeeps
  <2> QED BY <2>1, <2>2
<1>8. ASSUME NEW d \in Callers, d # c, run[d] \in Registering
      PROVE  NotedBy(d, run[d], account'[run[d].who], username')
  <2>1. NotedBy(d, run[d], account[run[d].who], username) /\ run[d].who \in People
    BY <1>0, <1>8 DEF Named, NamesLead, Registering
  <2> QED BY <1>3, <1>4, <1>6, <1>8, <2>1 DEF NotedBy, Unrecovered
<1>9. ASSUME NEW q \in People, Unrecovered(account'[q]), account'[q].credential.verifier # 0
      PROVE  Leads(account'[q].credential.name, q, username', run')
  <2>1. account'[q] = account[q]
    BY <1>4, <1>6, <1>9
  <2>2. Leads(account[q].credential.name, q, username, run)
    BY <1>0, <1>9, <2>1 DEF Named, NamesLead
  <2>3. \A m : ~Releases(run'[c], m, q)
    BY <1>2, <1>5, <1>9, <2>1 DEF Releases, NotedBy
  <2>4. \A d \in Callers, m \in Names : Releases(run'[d], m, q) => Releases(run[d], m, q)
    BY <1>5, <2>3
  <2> QED BY <1>3, <2>1, <2>2, <2>4 DEF Leads
<1>10. Named'
  <2>1. ~account'[p].active => account'[p].credential.verifier = 0
    BY <1>1, <1>2, <1>4, <1>6
  <2>2. run'[c] \in Registering => NotedBy(c, run'[c], account'[run'[c].who], username')
    BY <1>5 DEF NotedBy
  <2> QED BY <1>0, <1>1, <1>3, <1>5, <1>6, <1>7, <1>8, <1>9, <2>1, <2>2, NamesStep DEF Named, NamesLead
<1> QED BY <1>7, <1>10 DEF AccountsInv

LEMMA ExpiresKeeps == ASSUME AccountsInv, NEW p \in People, RegistrationExpires(p) PROVE AccountsInv'
<1> DEFINE a == account[p]
           b == [a EXCEPT !.credential = NoCredential]
<1>0. Rest /\ Named
  BY DEF AccountsInv
<1>1. a \in UserAccount /\ SessionsStand(a) /\ a.credential.verifier = 0
  BY <1>0 DEF Rest, RegistrationExpires
<1>2. account' = [account EXCEPT ![p] = b] /\ UNCHANGED <<username, walletOf, governed, run>>
  BY DEF RegistrationExpires, Account, Registries
<1>3. /\ b \in UserAccount /\ SessionsStand(b) /\ Onward(a, b) /\ b.wallet = a.wallet /\ b.active = a.active
      /\ b.recovery = a.recovery /\ b.credential.verifier = 0
  BY <1>1, ForgottenIs
<1> HIDE DEF b
<1>4. Rest'
  BY <1>0, <1>2, <1>3, AccountKeeps DEF Rest
<1>5. \A q \in People : account'[q] = IF q = p THEN b ELSE account[q]
  BY <1>0, <1>2 DEF Rest
<1>6. ASSUME NEW d \in Callers, run[d] \in Registering
      PROVE  NotedBy(d, run[d], account'[run[d].who], username')
  <2>1. NotedBy(d, run[d], account[run[d].who], username) /\ run[d].who \in People
    BY <1>0, <1>6 DEF Named, NamesLead, Registering
  <2>2. run[d].at \in {"begun", "cancelling", "reserved", "refused"} => run[d].who # p
    BY DEF RegistrationExpires
  <2> QED BY <1>2, <1>5, <2>1, <2>2 DEF NotedBy
<1>7. ASSUME NEW q \in People, Unrecovered(account'[q]), account'[q].credential.verifier # 0
      PROVE  Leads(account'[q].credential.name, q, username', run')
  BY <1>0, <1>2, <1>3, <1>5, <1>7 DEF Named, NamesLead
<1>8. NamesLead'
  <2>1. \A q \in People : ~account'[q].active => account'[q].credential.verifier = 0
    BY <1>0, <1>3, <1>5 DEF Named, NamesLead
  <2> QED BY <1>0, <1>2, <1>6, <1>7, <2>1 DEF Named, NamesLead
<1> QED BY <1>0, <1>2, <1>4, <1>8 DEF AccountsInv, Named

-----------------------------------------------------------------------------
LEMMA AccountsStart == Init => AccountsInv
<1> SUFFICES ASSUME Init PROVE AccountsInv
  OBVIOUS
<1> DEFINE s == [version |-> 1, kind |-> "guest", proof |-> 0]
           ss == {s}
           a == [active |-> TRUE, version |-> 1, wallet |-> Nobody, recovery |-> 0, credential |-> NoCredential, sessions |-> ss]
<1>1. NoCredential \in Credential /\ NoCredential.verifier = 0
  BY DEF NoCredential, Credential
<1>2. s \in Session /\ s.version = 1 /\ s.kind = "guest"
  BY DEF Session
<1>3. account = [p \in People |-> a] /\ username = [n \in Names |-> Free] /\ walletOf = [w \in Wallets |-> Nobody]
      /\ governed = walletOf /\ run = [c \in Callers |-> Idle]
  BY DEF Init
<1> HIDE DEF s
<1>4. ss \in SUBSET Session /\ \A x \in ss : x = s
  BY <1>2
<1> HIDE DEF ss
<1>5. /\ a \in UserAccount /\ a.version = 1 /\ a.sessions = ss /\ a.credential = NoCredential /\ a.wallet = Nobody
      /\ a.active
  BY <1>1, <1>4 DEF UserAccount
<1> HIDE DEF a
<1>6. SessionsStand(a)
  BY <1>2, <1>4, <1>5 DEF SessionsStand, StandsFor
<1>7. Rest
  BY <1>3, <1>5, <1>6, IdleIs DEF Rest, WalletLeadsHome
<1>8. Free \in Reservation /\ ~Free.committed
  BY DEF Free, Reservation
<1>9. Idle \notin Registering
  BY DEF Idle, Registering
<1>10. Named
  BY <1>1, <1>3, <1>5, <1>8, <1>9 DEF Named, NamesLead
<1> QED BY <1>7, <1>10 DEF AccountsInv

LEMMA AccountsStep == AccountsInv /\ [Next]_vars => AccountsInv'
<1> SUFFICES ASSUME AccountsInv, [Next]_vars PROVE AccountsInv'
  OBVIOUS
<1>0. Rest /\ Named /\ \A p \in People : Sessions(p) \subseteq Session /\ account[p].recovery \in Nat
  BY DEF AccountsInv, Rest, UserAccount, Sessions
<1>1. CASE UNCHANGED vars
  <2>1. Rest' /\ UNCHANGED <<account, username, run>>
    BY <1>0, <1>1, RunKeeps DEF vars, Rest
  <2>2. NamesLead'
    BY <1>0, <2>1 DEF Named, NamesLead
  <2> QED BY <1>0, <2>1, <2>2 DEF AccountsInv, Named
<1>2. ASSUME NEW c \in Callers, Starts(c) PROVE AccountsInv'
  <2>1. CASE \E n \in Names : Login(c, n) \/ \E p \in People : \E s \in Sessions(p) : Register(c, p, s, n)
    BY <1>0, <2>1, LoginKeeps, RegisterKeeps
  <2>2. CASE \E p \in People, s \in UNION {Sessions(q) : q \in People} : ChangePassword(c, p, s)
    BY <2>2, LoginKeeps
  <2>3. ASSUME NEW p \in People, NEW w \in Wallets, NEW s \in Sessions(p), NEW code \in {0, account[p].recovery},
               \/ \E intent \in {"login", "bind", "recovery-code", "revoke-sessions"} : Challenge(c, p, intent, w, s, 0)
               \/ \E intent \in {"rotate", "recover"} : Challenge(c, p, intent, w, s, code)
        PROVE  AccountsInv'
    <3>1. s \in Session /\ code \in Nat /\ 0 \in Nat
      BY <1>0
    <3>2. {"login", "bind", "recovery-code", "revoke-sessions", "rotate", "recover"} \subseteq ChangesWallet \cup KeepsWallet
      BY DEF ChangesWallet, KeepsWallet
    <3> QED BY <2>3, <3>1, <3>2, ChallengeKeeps
  <2> QED BY <1>2, <2>1, <2>2, <2>3 DEF Starts
<1>3. ASSUME NEW c \in Callers, Continues(c) PROVE AccountsInv'
  BY <1>3, ReserveUsernameKeeps, NameKeeps, CancelKeeps, FinishKeeps, PasswordKeeps, WalletKeeps, ChangeKeeps, IssueKeeps
  DEF Continues
<1>4. CASE \/ \E c \in Callers : Dies(c) \/ \E p \in People : Deactivate(p) \/ \E s \in Sessions(p) : Logout(p, s)
  BY <1>0, <1>4, DropKeeps
<1>5. CASE \E p \in People : RegistrationExpires(p)
  BY <1>5, ExpiresKeeps
<1>6. CASE \E p \in People : Deactivate(p) \/ \E s \in Sessions(p) : Logout(p, s)
  BY <1>0, <1>6, DropKeeps
<1> QED BY <1>1, <1>2, <1>3, <1>4, <1>5, <1>6 DEF Next

LEMMA SessionsFollow == AccountsInv => SessionForCurrentCredentials
BY DEF AccountsInv, Rest, SessionForCurrentCredentials, Sessions, SessionsStand, StandsFor

LEMMA IdentitiesFollow == AccountsInv => IdentitiesLeadHome
<1> SUFFICES ASSUME AccountsInv PROVE IdentitiesLeadHome
  OBVIOUS
<1>1. UsernameLeadsHome
  <2> SUFFICES ASSUME NEW p \in People, account[p].credential.verifier # 0, account[p].recovery = 0
               PROVE  username[account[p].credential.name].who = p
    BY DEF UsernameLeadsHome
  <2>1. Unrecovered(account[p])
    BY DEF AccountsInv, Named, NamesLead, Unrecovered, Rest, UserAccount
  <2> QED BY <2>1 DEF AccountsInv, Named, NamesLead, Leads
<1> QED BY <1>1 DEF AccountsInv, Rest, IdentitiesLeadHome

-----------------------------------------------------------------------------
(***************************************************************************)
(* The page: what is kept is kept under the key it was read for.           *)
(***************************************************************************)
Own(f) == \A k \in DOMAIN f : f[k] = reading(k[2])
PageInv == Own(cache) /\ Own(polls)

LEMMA WithIs ==
  ASSUME NEW f, Own(f), NEW keys, NEW r, \A k \in keys : r = reading(k[2])
  PROVE  Own(with(f, keys, r))
BY DEF Own, with

LEMMA OthersAre ==
  ASSUME NEW f, Own(f), NEW keys
  PROVE  Own(without(f, keys)) /\ \A k : Own(overtaking(without(f, {k}), k))
<1>1. Own(without(f, keys))
  BY DEF Own, without
<1>2. ASSUME NEW k PROVE Own(overtaking(without(f, {k}), k))
  BY DEF Own, without, overtaking
<1> QED BY <1>1, <1>2

LEMMA WatchedIs == \A k \in watched : k[2] = session
BY DEF watched, queryKey

LEMMA InvalidatedIs == ASSUME NEW f, Own(f), NEW keys PROVE Own(invalidated(f, keys))
<1>1. \A k \in keys \cap watched : reading(session) = reading(k[2])
  BY WatchedIs
<1> QED BY <1>1, WithIs DEF invalidated

LEMMA QueryDataIs == ASSUME Own(cache), NEW kind, NEW user, NEW j PROVE Own(setQueryData(queryKey(kind, user, j), user))
<1>1. queryKey(kind, user, j)[2] = user
  BY DEF queryKey
<1> QED BY <1>1, WithIs DEF setQueryData

LEMMA PageStarts == PageInit => PageInv
BY DEF PageInit, PageInv, Own, Empty

LEMMA PageStep == PageInv /\ [PageNext]_pageVars => PageInv'
<1> SUFFICES ASSUME PageInv, [PageNext]_pageVars PROVE PageInv'
  OBVIOUS
<1>0. Own(cache) /\ Own(polls) /\ Own(Empty)
  BY DEF PageInv, Own, Empty
<1>1. CASE UNCHANGED <<cache, polls>>
  BY <1>1 DEF PageInv, Own
<1>2. ASSUME NEW user, updateSession(user) PROVE PageInv'
  BY <1>0, <1>2 DEF updateSession, PageInv, Own
<1>3. ASSUME NEW k \in watched, Poll(k) PROVE PageInv'
  <2>1. Own(with(polls, {k}, reading(session)))
    BY <1>0, WatchedIs, WithIs
  <2> QED BY <1>0, <1>3, <2>1 DEF Poll, PageInv, Own
<1>4. ASSUME NEW k \in DOMAIN polls, NEW b, PollEnds(k, b) PROVE PageInv'
  <2>1. Own(with(cache, {k}, polls[k]))
    BY <1>0, WithIs DEF Own
  <2>2. Own(without(polls, {k}))
    BY <1>0, OthersAre
  <2>3. cache' \in {cache, with(cache, {k}, polls[k])} /\ polls' = without(polls, {k})
    BY <1>4 DEF PollEnds
  <2> QED BY <1>0, <2>1, <2>2, <2>3 DEF PageInv, Own
<1>5. ASSUME NEW c, Leave \/ Reload \/ Entered(c) \/ AccountRemoved(c) \/ LoggedOut(c) PROVE PageInv'
  BY <1>0, <1>2, <1>5 DEF Reload, Leave, LoggedOut, AccountRemoved, Entered, PageInv, Own
<1>6. ASSUME NEW c, NEW user, NEW j, NEW part,
             \/ Enter(c, user) \/ Identify(c, user) \/ Renew(c) \/ RemoveAccount(c) \/ LogOut(c)
             \/ Act(c, j) \/ Create(c, j) \/ Change(c, j) \/ HandOver(c, j) \/ Delete(c, j) \/ Ask(c, j)
             \/ Prepare(c, part, j) \/ Advances(c)
      PROVE  PageInv'
  <2>1. UNCHANGED shown
    BY <1>6 DEF Enter, Identify, Renew, RemoveAccount, LogOut, Act, Create, Change, HandOver, Delete, Ask,
                Prepare, Advances, ForSession, Asks
  <2> QED BY <1>1, <2>1 DEF shown
<1>7. ASSUME NEW j, Select(j) PROVE PageInv'
  <2> DEFINE list == queryKey("trips", session, NoOne)
  <2>1. cache[list].for = session
    BY <1>0, <1>7 DEF Select, Own, queryKey, reading
  <2>2. cache' = setQueryData(queryKey("trip", session, j), session) /\ \E keys : polls' = invalidated(polls, keys)
    BY <1>7, <2>1 DEF Select, choose
  <2>3. Own(setQueryData(queryKey("trip", session, j), session))
    BY <1>0, QueryDataIs
  <2> QED BY <1>0, <2>2, <2>3, InvalidatedIs DEF PageInv, Own
<1>8. ASSUME NEW c, Acted(c) \/ Created(c) PROVE PageInv'
  <2> DEFINE job == calls[c]
  <2>1. /\ cache' = setQueryData(queryKey("trip", job.user, job.journey), job.user)
        /\ \E keys : polls' = invalidated(polls, keys)
    BY <1>8 DEF Acted, Created, choose
  <2>2. Own(setQueryData(queryKey("trip", job.user, job.journey), job.user))
    BY <1>0, QueryDataIs
  <2> QED BY <1>0, <2>1, <2>2, InvalidatedIs DEF PageInv, Own
<1>9. ASSUME NEW c, Changed(c) \/ HandedOver(c) PROVE PageInv'
  <2> DEFINE job == calls[c]
             k == queryKey("trip", job.user, job.journey)
             left == overtaking(without(polls, {k}), k)
  <2>1. cache' = setQueryData(k, job.user) /\ (polls' = left \/ \E keys : polls' = invalidated(left, keys))
    BY <1>9 DEF Changed, HandedOver, Changes, cancelQueries
  <2>2. Own(left) /\ Own(setQueryData(k, job.user))
    BY <1>0, OthersAre, QueryDataIs
  <2>3. \A keys : Own(invalidated(left, keys))
    BY <2>2, InvalidatedIs
  <2> HIDE DEF k, left
  <2>4. Own(cache)' /\ Own(polls)'
    BY <2>1, <2>2, <2>3 DEF Own
  <2> QED BY <2>4 DEF PageInv
<1>10. ASSUME NEW c, Deleted(c) \/ Submitted(c) \/ Told(c) \/ Fails(c) PROVE PageInv'
  <2>1. cache' = cache /\ (polls' = polls \/ \E keys : polls' = invalidated(polls, keys))
    BY <1>10 DEF Deleted, Submitted, Told, Fails
  <2> QED BY <1>0, <2>1, InvalidatedIs DEF PageInv, Own
<1>11. CASE UNCHANGED pageVars
  BY <1>1, <1>11 DEF pageVars
<1> QED BY <1>3, <1>4, <1>5, <1>6, <1>7, <1>8, <1>9, <1>10, <1>11 DEF PageNext

LEMMA ReaderFollows == PageInv => ShownToItsReader
BY WatchedIs DEF PageInv, Own, ShownToItsReader, reading

-----------------------------------------------------------------------------
(* What the run shows is a behaviour of the server's part or the page's.   *)
LEMMA ScenesInvariance == MCSpec => [](AccountsInv /\ PageInv)
<1>1. Scenes => AccountsInv /\ PageInv
  BY AccountsStart, PageStarts DEF Scenes
<1>2. AccountsInv /\ PageInv /\ [MCNext]_<<vars, pageVars, moderationVars, deskVars, scene>> => AccountsInv' /\ PageInv'
  BY AccountsStep, PageStep DEF MCNext
<1> QED BY <1>1, <1>2, PTL DEF MCSpec

(* No password or wallet that was replaced while a key was derived, or a   *)
(* challenge answered, ends in a session that opens the account.           *)
THEOREM SessionForCurrentCredentialsHolds == MCSpec => []SessionForCurrentCredentials
<1> QED BY ScenesInvariance, SessionsFollow, PTL

(* Both registries agree with every account on its wallet, and the names   *)
(* lead home until a recovery code is used, whichever requests died and    *)
(* wherever.                                                               *)
THEOREM IdentitiesLeadHomeHolds == MCSpec => []IdentitiesLeadHome
<1> QED BY ScenesInvariance, IdentitiesFollow, PTL

(* The page never shows a session what was read for another, and no change *)
(* shown is undone by a reading begun before it.                           *)
THEOREM ShownToItsReaderHolds == MCSpec => []ShownToItsReader
<1> QED BY ScenesInvariance, ReaderFollows, PTL

(***************************************************************************)
(* Moderation.                                                             *)
(***************************************************************************)
ModerationType ==
  /\ clock \in Nat /\ standing \in [Users -> Standing]
  /\ reports \subseteq Report /\ IsFiniteSet(reports)
  /\ limits \in [Users -> Limit]
  /\ audit \subseteq Nat /\ backups \subseteq Nat
  /\ alarmAt \in Nat \cup {Unarmed}
  /\ rooms \in [Trips -> Room]
  /\ submissions \in [Requests -> Submission \cup {NoSubmission}]
  /\ issued \subseteq ReportIds

(* Reports are of the past and bear identifiers that were drawn.           *)
Written == \A r \in reports : r.created <= clock /\ r.id \in issued

(* The alarm is set as soon as there is something to forget, never further *)
(* ahead than a day, and in time for whatever is kept.                     *)
kept == {r.created : r \in reports} \cup audit \cup backups
Punctual ==
  /\ alarmAt = Unarmed => kept = {}
  /\ alarmAt # Unarmed => /\ clock <= alarmAt /\ alarmAt <= clock + Day
                          /\ \A at \in kept : at + Retention + Day > alarmAt

Gone == \A r \in reports : standing[r.by].deletion # "completed"

(* The reports of an account in its window are counted, those of the day   *)
(* before it are no more than the limit; and without a window, because it  *)
(* was forgotten, those of the last day are not either.                    *)
Filed(all, u, a, b) == {r \in all : r.by = u /\ r.created \in a..b}
InWindow(u, s, count) ==
  /\ s <= clock /\ count <= MaxReports
  /\ \A r \in reports : r.by = u => r.created < s + Day
  /\ Cardinality(Filed(reports, u, s, clock)) <= count
  /\ Cardinality(Filed(reports, u, s - Day + 1, s - 1)) <= MaxReports
NoWindow(u) ==
  /\ \A r \in reports : r.by = u => r.created < clock
  /\ Cardinality(Filed(reports, u, clock - Day + 1, clock)) <= MaxReports
Windowed(u) == IF limits[u].count > 0 THEN InWindow(u, limits[u].start, limits[u].count) ELSE NoWindow(u)
Twice(u) == \A t \in Nat : Cardinality(Filed(reports, u, t, t + Day - 1)) <= 2 * MaxReports

ModerationInv ==
  /\ ModerationType /\ Written /\ Punctual /\ Gone
  /\ \A u \in Users : Windowed(u) /\ Twice(u)

-----------------------------------------------------------------------------
(* Counting.                                                               *)
LEMMA FiledFinite ==
  ASSUME NEW all, IsFiniteSet(all), NEW u, NEW a, NEW b
  PROVE  IsFiniteSet(Filed(all, u, a, b)) /\ Cardinality(Filed(all, u, a, b)) \in Nat
<1>1. Filed(all, u, a, b) \in SUBSET all
  BY DEF Filed
<1> QED BY <1>1, FS_Subset, FS_CardinalityType

LEMMA FiledWithin ==
  ASSUME NEW all, IsFiniteSet(all), NEW some, NEW u, NEW a, NEW b, NEW c, NEW d,
         Filed(some, u, c, d) \subseteq Filed(all, u, a, b)
  PROVE  IsFiniteSet(Filed(some, u, c, d)) /\ Cardinality(Filed(some, u, c, d)) <= Cardinality(Filed(all, u, a, b))
<1>1. Filed(some, u, c, d) \in SUBSET Filed(all, u, a, b)
  OBVIOUS
<1> QED BY <1>1, FiledFinite, FS_Subset

(* No day has more of them than it had.                                    *)
NoMore(all, some) ==
  /\ \A u \in Users, a, b \in Int : Cardinality(Filed(some, u, a, b)) <= Cardinality(Filed(all, u, a, b))
  /\ \A q \in some : \E r \in all : r.by = q.by /\ r.created = q.created

LEMMA SomeAreLost ==
  ASSUME NEW all, IsFiniteSet(all), NEW some \in SUBSET all
  PROVE  NoMore(all, some)
<1>1. \A u \in Users, a, b \in Int : Filed(some, u, a, b) \subseteq Filed(all, u, a, b)
  BY DEF Filed
<1>2. \A u \in Users, a, b \in Int : Cardinality(Filed(some, u, a, b)) <= Cardinality(Filed(all, u, a, b))
  BY <1>1, FiledWithin
<1> QED BY <1>2 DEF NoMore

LEMMA OneIsRuledOn ==
  ASSUME NEW all, IsFiniteSet(all), NEW r \in all, NEW q, q.by = r.by, q.created = r.created
  PROVE  NoMore(all, (all \ {r}) \cup {q})
<1> DEFINE some == (all \ {r}) \cup {q}
<1>1. ASSUME NEW u \in Users, NEW a \in Int, NEW b \in Int
      PROVE  Cardinality(Filed(some, u, a, b)) <= Cardinality(Filed(all, u, a, b))
  <2> DEFINE F == Filed(all, u, a, b)
  <2>0. IsFiniteSet(F) /\ Cardinality(F) \in Nat
    BY FiledFinite
  <2>1. CASE r \in F
    <3>1. Filed(some, u, a, b) \in SUBSET ((F \ {r}) \cup {q})
      BY DEF Filed
    <3>2. IsFiniteSet(F \ {r}) /\ Cardinality(F \ {r}) = Cardinality(F) - 1
      BY <2>0, <2>1, FS_RemoveElement
    <3>3. IsFiniteSet((F \ {r}) \cup {q}) /\ Cardinality((F \ {r}) \cup {q}) <= Cardinality(F)
      <4>1. IsFiniteSet((F \ {r}) \cup {q})
            /\ Cardinality((F \ {r}) \cup {q}) = IF q \in F \ {r} THEN Cardinality(F \ {r}) ELSE Cardinality(F \ {r}) + 1
        BY <3>2, FS_AddElement
      <4> HIDE DEF F
      <4> QED BY <2>0, <3>2, <4>1
    <3>4. IsFiniteSet(Filed(some, u, a, b)) /\ Cardinality(Filed(some, u, a, b)) <= Cardinality((F \ {r}) \cup {q})
      BY <3>1, <3>3, FS_Subset
    <3>5. Cardinality(Filed(some, u, a, b)) \in Nat /\ Cardinality((F \ {r}) \cup {q}) \in Nat
      BY <3>3, <3>4, FS_CardinalityType
    <3> HIDE DEF F, some
    <3> QED BY <2>0, <3>3, <3>4, <3>5 DEF F
  <2>2. CASE r \notin F
    <3>1. Filed(some, u, a, b) \subseteq F
      BY <2>2 DEF Filed
    <3> QED BY <3>1, FiledWithin
  <2> QED BY <2>1, <2>2
<1>2. \A x \in some : \E y \in all : y.by = x.by /\ y.created = x.created
  OBVIOUS
<1> QED BY <1>1, <1>2 DEF NoMore

LEMMA TwiceHolds ==
  ASSUME IsFiniteSet(reports), IsFiniteSet(reports'), NoMore(reports, reports'), NEW u \in Users, Twice(u)
  PROVE  Twice(u)'
<1> USE ModerationAssumption
<1> SUFFICES ASSUME NEW t \in Nat PROVE Cardinality(Filed(reports', u, t, t + Day - 1)) <= 2 * MaxReports
  BY DEF Twice
<1>1. Cardinality(Filed(reports, u, t, t + Day - 1)) <= 2 * MaxReports
  BY DEF Twice
<1>2. /\ Cardinality(Filed(reports', u, t, t + Day - 1)) <= Cardinality(Filed(reports, u, t, t + Day - 1))
      /\ Cardinality(Filed(reports', u, t, t + Day - 1)) \in Nat /\ Cardinality(Filed(reports, u, t, t + Day - 1)) \in Nat
  BY FiledFinite DEF NoMore
<1> QED BY <1>1, <1>2

LEMMA WindowHolds ==
  ASSUME ModerationInv, IsFiniteSet(reports'), NoMore(reports, reports'),
         NEW u \in Users, limits'[u] = limits[u], clock' = clock
  PROVE  Windowed(u)' /\ Twice(u)'
<1> USE ModerationAssumption
<1>0. clock \in Nat /\ limits[u].start \in Nat /\ limits[u].count \in Nat /\ IsFiniteSet(reports)
      /\ \A r \in reports : r.created \in Nat
  BY DEF ModerationInv, ModerationType, Limit, Report
<1>1. \A a, b \in Int : /\ Cardinality(Filed(reports', u, a, b)) <= Cardinality(Filed(reports, u, a, b))
                        /\ Cardinality(Filed(reports', u, a, b)) \in Nat /\ Cardinality(Filed(reports, u, a, b)) \in Nat
  BY <1>0, FiledFinite DEF NoMore
<1>2. \A q \in reports' : \E r \in reports : r.by = q.by /\ r.created = q.created
  BY DEF NoMore
<1>3. Windowed(u) /\ Twice(u)
  BY DEF ModerationInv
<1>4. Twice(u)'
  BY <1>0, <1>3, TwiceHolds
<1>5. CASE limits[u].count > 0
  <2> DEFINE s == limits[u].start
  <2>1. InWindow(u, s, limits[u].count)
    BY <1>3, <1>5 DEF Windowed
  <2>2. \A r \in reports' : r.by = u => r.created < s + Day
    BY <1>2, <2>1 DEF InWindow
  <2>3. /\ Cardinality(Filed(reports', u, s, clock)) <= limits[u].count
        /\ Cardinality(Filed(reports', u, s - Day + 1, s - 1)) <= MaxReports
    <3>1. s \in Int /\ s - Day + 1 \in Int /\ s - 1 \in Int /\ clock \in Int
      BY <1>0
    <3>2. /\ Cardinality(Filed(reports', u, s, clock)) <= Cardinality(Filed(reports, u, s, clock))
          /\ Cardinality(Filed(reports', u, s, clock)) \in Nat /\ Cardinality(Filed(reports, u, s, clock)) \in Nat
      BY <1>1, <3>1
    <3>3. /\ Cardinality(Filed(reports', u, s - Day + 1, s - 1)) <= Cardinality(Filed(reports, u, s - Day + 1, s - 1))
          /\ Cardinality(Filed(reports', u, s - Day + 1, s - 1)) \in Nat
          /\ Cardinality(Filed(reports, u, s - Day + 1, s - 1)) \in Nat
      BY <1>1, <3>1
    <3>4. Cardinality(Filed(reports, u, s, clock)) <= limits[u].count
          /\ Cardinality(Filed(reports, u, s - Day + 1, s - 1)) <= MaxReports
      BY <2>1 DEF InWindow
    <3> HIDE DEF s
    <3> QED BY <1>0, <3>2, <3>3, <3>4
  <2>4. InWindow(u, s, limits[u].count)'
    BY <2>1, <2>2, <2>3 DEF InWindow
  <2> QED BY <1>4, <1>5, <2>4 DEF Windowed
<1>6. CASE ~(limits[u].count > 0)
  <2>1. NoWindow(u)
    BY <1>3, <1>6 DEF Windowed
  <2>2. \A r \in reports' : r.by = u => r.created < clock
    BY <1>2, <2>1 DEF NoWindow
  <2>3. Cardinality(Filed(reports', u, clock - Day + 1, clock)) <= MaxReports
    BY <1>0, <1>1, <2>1 DEF NoWindow
  <2>4. NoWindow(u)'
    BY <2>2, <2>3 DEF NoWindow
  <2> QED BY <1>4, <1>6, <2>4 DEF Windowed
<1> QED BY <1>5, <1>6

LEMMA LimitsHold ==
  ASSUME ModerationInv, IsFiniteSet(reports'), UNCHANGED <<clock, limits>>, NoMore(reports, reports')
  PROVE  \A u \in Users : Windowed(u)' /\ Twice(u)'
BY WindowHolds

-----------------------------------------------------------------------------
(* The alarm.                                                              *)
LEMMA NothingMoreIsKept ==
  ASSUME Punctual, kept' \subseteq kept, UNCHANGED <<clock, alarmAt>>
  PROVE  Punctual'
BY DEF Punctual

LEMMA KeptInTime ==
  ASSUME ModerationType, Punctual, schedule, clock' = clock,
         \A at \in kept' : at \in kept \/ (at \in Nat /\ recent(at, Retention))
  PROVE  Punctual'
<1> USE ModerationAssumption DEF Unarmed
<1>1. clock \in Nat /\ kept \subseteq Nat /\ alarmAt \in Nat \cup {Unarmed}
  BY DEF ModerationType, kept, Report
<1>2. CASE alarmAt = Unarmed
  <2>1. kept = {} /\ alarmAt' = clock + Day
    BY <1>2 DEF Punctual, schedule
  <2>2. \A at \in kept' : at + Retention + Day > alarmAt'
    BY <1>1, <2>1 DEF recent
  <2> QED BY <1>1, <2>1, <2>2 DEF Punctual
<1>3. CASE alarmAt # Unarmed
  <2>1. /\ alarmAt' = alarmAt /\ alarmAt \in Nat /\ clock <= alarmAt /\ alarmAt <= clock + Day
        /\ \A at \in kept : at + Retention + Day > alarmAt
    BY <1>1, <1>3 DEF Punctual, schedule
  <2>2. \A at \in Nat : recent(at, Retention) => at + Retention + Day > alarmAt
    BY <1>1, <2>1 DEF recent
  <2>3. \A at \in kept' : at + Retention + Day > alarmAt'
    BY <2>1, <2>2
  <2> QED BY <1>1, <2>1, <2>3 DEF Punctual
<1> QED BY <1>2, <1>3

(* Steps that touch neither reports nor limits nor time.                   *)
Beside == UNCHANGED <<clock, reports, limits, issued>>

LEMMA BesideTheReports ==
  ASSUME ModerationInv, Beside, ModerationType', Punctual',
         \A u \in Users : standing'[u].deletion = "completed" => standing[u].deletion = "completed"
  PROVE  ModerationInv'
<1>1. Written' /\ Gone'
  <2>1. \A r \in reports : r.by \in Users
    BY DEF ModerationInv, ModerationType, Report
  <2> QED BY <2>1 DEF ModerationInv, Beside, Written, Gone
<1>2. NoMore(reports, reports')
  BY SomeAreLost DEF Beside, ModerationInv, ModerationType
<1>3. \A u \in Users : Windowed(u)' /\ Twice(u)'
  BY <1>2, LimitsHold DEF Beside, ModerationType
<1> QED BY <1>1, <1>3 DEF ModerationInv

LEMMA SubmitKeeps ==
  ASSUME ModerationInv, NEW s \in Requests, NEW u \in Users, NEW key \in Keys, NEW input \in ReportInput, Submit(s, u, key, input)
  PROVE  ModerationInv'
<1>1. ModerationType'
  BY DEF Submit, ModerationInv, ModerationType, Submission
<1>2. Punctual'
  BY NothingMoreIsKept DEF Submit, ModerationInv, kept
<1> QED BY <1>1, <1>2, BesideTheReports DEF Submit, Beside

LEMMA RoomAnswersKeeps ==
  ASSUME ModerationInv, NEW s \in Requests, RoomAnswers(s)
  PROVE  ModerationInv'
<1>1. ModerationType'
  <2>1. submissions[s] \in Submission
    BY DEF RoomAnswers, ModerationInv, ModerationType, NoSubmission
  <2>2. [submissions[s] EXCEPT !.stage = "admitted"] \in Submission
    BY <2>1 DEF Submission
  <2> QED BY <2>2 DEF RoomAnswers, ModerationInv, ModerationType
<1>2. Punctual'
  BY NothingMoreIsKept DEF RoomAnswers, ModerationInv, kept
<1> QED BY <1>1, <1>2, BesideTheReports DEF RoomAnswers, Beside

LEMMA EvictKeeps ==
  ASSUME ModerationInv, Evict
  PROVE  ModerationInv'
<1>1. ModerationType'
  BY DEF Evict, ModerationInv, ModerationType
<1>2. Punctual'
  BY NothingMoreIsKept DEF Evict, ModerationInv, kept
<1> QED BY <1>1, <1>2, BesideTheReports DEF Evict, Beside

LEMMA CreateTripKeeps ==
  ASSUME ModerationInv, NEW j \in Trips, NEW u \in Users, NEW demo \in BOOLEAN, CreateTrip(j, u, demo)
  PROVE  ModerationInv'
<1>1. ModerationType'
  BY DEF CreateTrip, ModerationInv, ModerationType, Room, Vacant
<1>2. Punctual'
  BY NothingMoreIsKept DEF CreateTrip, ModerationInv, kept
<1> QED BY <1>1, <1>2, BesideTheReports DEF CreateTrip, Beside

LEMMA ChangeGuardianKeeps ==
  ASSUME ModerationInv, NEW j \in Trips, NEW g \in Users \cup {NoUser}, ChangeGuardian(j, g)
  PROVE  ModerationInv'
<1>1. ModerationType'
  <2>1. rooms[j] \in Room
    BY DEF ModerationInv, ModerationType
  <2>2. rooms' = [rooms EXCEPT ![j] = [rooms[j] EXCEPT !.guardian = g, !.served = rooms[j].served \cup ({g} \ {NoUser})]]
    BY <2>1 DEF ChangeGuardian, ModerationInv, ModerationType, Room
  <2>3. [rooms[j] EXCEPT !.guardian = g, !.served = rooms[j].served \cup ({g} \ {NoUser})] \in Room
    BY <2>1 DEF Room
  <2>4. rooms' \in [Trips -> Room]
    BY <2>2, <2>3 DEF ModerationInv, ModerationType
  <2> QED BY <2>4 DEF ChangeGuardian, ModerationInv, ModerationType
<1>2. Punctual'
  BY NothingMoreIsKept DEF ChangeGuardian, ModerationInv, kept
<1> QED BY <1>1, <1>2, BesideTheReports DEF ChangeGuardian, Beside

(* What is recorded of an act is as old as the act.                        *)
LEMMA RecordedInTime ==
  ASSUME ModerationInv, UNCHANGED <<clock, reports>>, schedule,
         audit' \subseteq audit \cup {clock}, backups' = backups
  PROVE  Punctual' /\ alarmAt' \in Nat \cup {Unarmed} /\ audit' \subseteq Nat
<1> USE ModerationAssumption
<1>1. clock \in Nat /\ recent(clock, Retention)
  BY DEF ModerationInv, ModerationType, recent
<1>2. \A at \in kept' : at \in kept \/ (at \in Nat /\ recent(at, Retention))
  BY <1>1 DEF kept
<1>3. Punctual'
  BY <1>2, KeptInTime DEF ModerationInv
<1> QED BY <1>1, <1>3 DEF schedule, ModerationInv, ModerationType

LEMMA SetSuspendedKeeps ==
  ASSUME ModerationInv, NEW u \in Users, NEW suspended \in BOOLEAN, SetSuspended(u, suspended)
  PROVE  ModerationInv'
<1>0. standing \in [Users -> Standing]
  BY DEF ModerationInv, ModerationType
<1>1. standing' = [standing EXCEPT ![u] = [standing[u] EXCEPT !.suspended = suspended]]
  BY DEF SetSuspended
<1>2. standing' \in [Users -> Standing] /\ \A v \in Users : standing'[v].deletion = standing[v].deletion
  BY <1>0, <1>1 DEF Standing
<1>3. Punctual' /\ alarmAt' \in Nat \cup {Unarmed} /\ audit' \subseteq Nat
  BY RecordedInTime DEF SetSuspended, Rules, audited
<1>4. ModerationType'
  BY <1>2, <1>3 DEF SetSuspended, ModerationInv, ModerationType
<1> QED BY <1>2, <1>3, <1>4, BesideTheReports DEF SetSuspended, Beside

LEMMA RecordCommunityOperationKeeps ==
  ASSUME ModerationInv, RecordCommunityOperation
  PROVE  ModerationInv'
<1>1. Punctual' /\ alarmAt' \in Nat \cup {Unarmed} /\ audit' \subseteq Nat
  BY RecordedInTime DEF RecordCommunityOperation, Rules, audited
<1>2. ModerationType'
  BY <1>1 DEF RecordCommunityOperation, ModerationInv, ModerationType
<1> QED BY <1>1, <1>2, BesideTheReports DEF RecordCommunityOperation, Beside

LEMMA ResolvedBeforeKeeps ==
  ASSUME ModerationInv, NEW r \in reports, NEW resolution, ResolvedBefore(r, resolution)
  PROVE  ModerationInv'
<1>1. Punctual' /\ alarmAt' \in Nat \cup {Unarmed} /\ audit' \subseteq Nat
  BY RecordedInTime DEF ResolvedBefore
<1>2. ModerationType'
  BY <1>1 DEF ResolvedBefore, ModerationInv, ModerationType
<1> QED BY <1>1, <1>2, BesideTheReports DEF ResolvedBefore, Beside

LEMMA RecordBackupKeeps ==
  ASSUME ModerationInv, NEW at \in 0..clock, RecordBackup(at)
  PROVE  ModerationInv'
<1> USE ModerationAssumption
<1>1. clock \in Nat /\ recent(clock, Retention) /\ at \in Nat /\ recent(at, Retention)
  BY DEF ModerationInv, ModerationType, RecordBackup, recent
<1>2. \A e \in kept' : e \in kept \/ (e \in Nat /\ recent(e, Retention))
  BY <1>1 DEF kept, RecordBackup, audited
<1>3. Punctual'
  BY <1>2, KeptInTime DEF ModerationInv, RecordBackup, Rules
<1>4. ModerationType'
  BY <1>1 DEF RecordBackup, Rules, schedule, audited, ModerationInv, ModerationType
<1> QED BY <1>3, <1>4, BesideTheReports DEF RecordBackup, Beside

LEMMA BeginDeletionKeeps ==
  ASSUME ModerationInv, NEW u \in Users, BeginDeletion(u)
  PROVE  ModerationInv'
<1>0. standing \in [Users -> Standing]
  BY DEF ModerationInv, ModerationType
<1>1. standing' = [standing EXCEPT ![u] = [standing[u] EXCEPT !.deletion = "begun"]]
  BY DEF BeginDeletion
<1>2. standing' \in [Users -> Standing] /\ \A v \in Users : standing'[v].deletion = "completed" => standing[v].deletion = "completed"
  BY <1>0, <1>1 DEF Standing
<1>3. Punctual' /\ alarmAt' \in Nat \cup {Unarmed} /\ audit' \subseteq Nat
  BY RecordedInTime DEF BeginDeletion, audited
<1>4. ModerationType'
  BY <1>2, <1>3 DEF BeginDeletion, ModerationInv, ModerationType
<1> QED BY <1>2, <1>3, <1>4, BesideTheReports DEF BeginDeletion, Beside

LEMMA ScrubUserKeeps ==
  ASSUME ModerationInv, NEW u \in Users, ScrubUser(u)
  PROVE  ModerationInv'
<1>0. standing \in [Users -> Standing] /\ rooms \in [Trips -> Room]
  BY DEF ModerationInv, ModerationType
<1>1. standing' = [standing EXCEPT ![u] = [standing[u] EXCEPT !.deletion = "scrubbed"]]
  BY DEF ScrubUser
<1>2. standing' \in [Users -> Standing] /\ \A v \in Users : standing'[v].deletion = "completed" => standing[v].deletion = "completed"
  BY <1>0, <1>1 DEF Standing
<1>3. Punctual' /\ alarmAt' \in Nat \cup {Unarmed} /\ audit' \subseteq Nat
  <2>1. CASE recordDeletedTrip
    BY <2>1, RecordedInTime DEF ScrubUser, audited, recordDeletedTrip
  <2>2. CASE UNCHANGED <<audit, alarmAt>>
    BY <2>2, NothingMoreIsKept DEF ScrubUser, ModerationInv, ModerationType, kept
  <2> QED BY <2>1, <2>2 DEF ScrubUser
<1>4. rooms' \in [Trips -> Room]
  <2>1. \A j \in Trips : scrubbed(rooms[j], u) \in Room
    BY <1>0 DEF scrubbed, Room, Vacant
  <2> QED BY <2>1 DEF ScrubUser
<1>5. ModerationType'
  BY <1>2, <1>3, <1>4 DEF ScrubUser, ModerationInv, ModerationType
<1> QED BY <1>2, <1>3, <1>5, BesideTheReports DEF ScrubUser, Beside

LEMMA PurgeKeeps ==
  ASSUME ModerationInv, NEW j \in Trips, Purge(j)
  PROVE  ModerationInv'
<1>1. Punctual' /\ alarmAt' \in Nat \cup {Unarmed} /\ audit' \subseteq Nat
  BY RecordedInTime DEF Purge, audited, recordDeletedTrip
<1>2. rooms' \in [Trips -> Room]
  BY DEF Purge, Room, Vacant, ModerationInv, ModerationType
<1>3. ModerationType'
  BY <1>1, <1>2 DEF Purge, ModerationInv, ModerationType
<1> QED BY <1>1, <1>3, BesideTheReports DEF Purge, Beside

-----------------------------------------------------------------------------
(* Rulings and deletions: the reports of no day become more.               *)
LEMMA ResolveReportKeeps ==
  ASSUME ModerationInv, NEW r \in reports, NEW resolution \in {"dismissed", "actioned"}, ResolveReport(r, resolution)
  PROVE  ModerationInv'
<1> USE ModerationAssumption
<1> DEFINE q == [r EXCEPT !.status = resolution]
<1>1. /\ r \in Report /\ q \in Report
      /\ q.id = r.id /\ q.by = r.by /\ q.created = r.created
  BY DEF ModerationInv, ModerationType, Report
<1>2. reports' = (reports \ {r}) \cup {q} /\ IsFiniteSet(reports)
  BY DEF ResolveReport, ModerationInv, ModerationType
<1> HIDE DEF q
<1>3. IsFiniteSet(reports')
  BY <1>2, FS_RemoveElement, FS_AddElement
<1>4. NoMore(reports, reports')
  BY <1>1, <1>2, OneIsRuledOn
<1>5. \A u \in Users : Windowed(u)' /\ Twice(u)'
  BY <1>3, <1>4, LimitsHold DEF ResolveReport
<1>6. Written' /\ Gone'
  BY <1>1, <1>2 DEF ModerationInv, Written, Gone, ResolveReport
<1>7. clock \in Nat /\ recent(clock, Retention)
  BY DEF ModerationInv, ModerationType, recent
<1>8. \A at \in kept' : at \in kept \/ (at \in Nat /\ recent(at, Retention))
  BY <1>1, <1>2, <1>7 DEF kept, ResolveReport, audited
<1>9. Punctual'
  BY <1>8, KeptInTime DEF ModerationInv, ResolveReport
<1>10. ModerationType'
  BY <1>1, <1>2, <1>3, <1>7 DEF ResolveReport, ModerationInv, ModerationType, audited, schedule
<1> QED BY <1>5, <1>6, <1>9, <1>10 DEF ModerationInv

LEMMA CompleteDeletionKeeps ==
  ASSUME ModerationInv, NEW u \in Users, CompleteDeletion(u)
  PROVE  ModerationInv'
<1> USE ModerationAssumption
<1>1. /\ clock \in Nat /\ recent(clock, Retention) /\ IsFiniteSet(reports) /\ reports \subseteq Report
      /\ standing \in [Users -> Standing] /\ limits \in [Users -> Limit]
  BY DEF ModerationInv, ModerationType, recent
<1>2. reports' \in SUBSET reports /\ \A r \in reports' : r.by # u
  BY DEF CompleteDeletion, concerns
<1>3. IsFiniteSet(reports') /\ NoMore(reports, reports')
  BY <1>1, <1>2, FS_Subset, SomeAreLost
<1>4. standing' = [standing EXCEPT ![u] = [standing[u] EXCEPT !.deletion = "completed"]]
  BY DEF CompleteDeletion
<1>5. standing' \in [Users -> Standing] /\ \A v \in Users \ {u} : standing'[v] = standing[v]
  BY <1>1, <1>4 DEF Standing
<1>6. Written' /\ Gone'
  BY <1>1, <1>2, <1>5 DEF ModerationInv, Written, Gone, CompleteDeletion, Report
<1>7. \A at \in kept' : at \in kept \/ (at \in Nat /\ recent(at, Retention))
  BY <1>1, <1>2 DEF kept, CompleteDeletion, audited
<1>8. Punctual'
  BY <1>7, KeptInTime DEF ModerationInv, CompleteDeletion
<1>9. ModerationType'
  BY <1>1, <1>2, <1>3, <1>5 DEF CompleteDeletion, ModerationInv, ModerationType, audited, schedule, Limit, NoLimit
<1>10. ASSUME NEW v \in Users \ {u} PROVE Windowed(v)' /\ Twice(v)'
  <2>1. limits'[v] = limits[v] /\ clock' = clock
    BY <1>1 DEF CompleteDeletion
  <2> QED BY <1>3, <2>1, WindowHolds
<1>11. Windowed(u)' /\ Twice(u)'
  <2>1. \A a, b \in Int : Filed(reports', u, a, b) = {}
    BY <1>2 DEF Filed
  <2>2. \A a, b \in Int : Cardinality(Filed(reports', u, a, b)) = 0
    BY <2>1, FS_EmptySet
  <2>3. limits'[u].count = 0
    BY <1>1 DEF CompleteDeletion, NoLimit
  <2>4. clock - Day + 1 \in Int /\ clock \in Int /\ clock' = clock
    BY <1>1 DEF CompleteDeletion
  <2>5. Cardinality(Filed(reports', u, clock - Day + 1, clock)) = 0
    BY <2>2, <2>4
  <2>6. NoWindow(u)'
    BY <1>2, <2>4, <2>5 DEF NoWindow
  <2>7. Twice(u)'
    <3>1. \A t \in Nat : t \in Int /\ t + Day - 1 \in Int
      OBVIOUS
    <3>2. \A t \in Nat : Cardinality(Filed(reports', u, t, t + Day - 1)) = 0
      BY <2>2, <3>1
    <3> QED BY <3>2 DEF Twice
  <2> QED BY <2>3, <2>6, <2>7 DEF Windowed
<1> QED BY <1>6, <1>8, <1>9, <1>10, <1>11 DEF ModerationInv

-----------------------------------------------------------------------------
(* Time.                                                                   *)
LEMMA AlarmKeeps ==
  ASSUME ModerationInv, Alarm
  PROVE  ModerationInv'
<1> USE ModerationAssumption
<1>1. /\ clock \in Nat /\ clock' = clock /\ IsFiniteSet(reports) /\ reports \subseteq Report
      /\ limits \in [Users -> Limit] /\ audit \subseteq Nat /\ backups \subseteq Nat
  BY DEF ModerationInv, ModerationType, Alarm
<1>2. reports' \in SUBSET reports
  BY DEF Alarm
<1>3. IsFiniteSet(reports') /\ NoMore(reports, reports')
  BY <1>1, <1>2, FS_Subset, SomeAreLost
<1>4. Written' /\ Gone'
  BY <1>2 DEF ModerationInv, Written, Gone, Alarm
<1>5. Punctual'
  <2>1. alarmAt' = clock + Day /\ \A at \in kept' : at \in Nat /\ at > clock - Retention
    BY <1>1 DEF Alarm, kept, recent, Report
  <2>2. \A at \in kept' : at + Retention + Day > alarmAt'
    BY <1>1, <2>1
  <2> QED BY <1>1, <2>1, <2>2 DEF Punctual, Unarmed
<1>6. ModerationType'
  <2>1. limits' \in [Users -> Limit]
    BY <1>1 DEF Alarm, Limit, NoLimit
  <2>2. alarmAt' \in Nat
    BY <1>1 DEF Alarm
  <2> QED BY <1>1, <1>2, <1>3, <2>1, <2>2 DEF Alarm, ModerationInv, ModerationType
<1>7. ASSUME NEW u \in Users PROVE Windowed(u)' /\ Twice(u)'
  <2> DEFINE s == limits[u].start
  <2>0. limits[u] \in Limit /\ s \in Nat /\ limits[u].count \in Nat
    BY <1>1 DEF Limit
  <2>1. CASE recent(s, Day)
    <3>1. limits'[u] = limits[u]
      BY <2>1 DEF Alarm
    <3> QED BY <1>1, <1>3, <3>1, WindowHolds
  <2>2. CASE ~recent(s, Day) /\ limits[u].count > 0
    <3>1. s + Day <= clock
      BY <1>1, <2>0, <2>2 DEF recent
    <3>2. InWindow(u, s, limits[u].count) /\ Twice(u)
      BY <2>2 DEF ModerationInv, Windowed
    <3>3. limits'[u].count = 0
      BY <2>2 DEF Alarm, NoLimit
    <3>4. \A r \in reports : r.created \in Nat
      BY <1>1 DEF Report
    <3> HIDE DEF s
    <3>5. \A r \in reports' : r.by = u => r.created < clock
      BY <1>1, <1>2, <2>0, <3>1, <3>2, <3>4 DEF InWindow
    <3>6. Filed(reports', u, clock - Day + 1, clock) \subseteq Filed(reports, u, s, clock)
      BY <1>1, <1>2, <2>0, <3>1, <3>4 DEF Filed
    <3>7. /\ Cardinality(Filed(reports', u, clock - Day + 1, clock)) <= Cardinality(Filed(reports, u, s, clock))
          /\ Cardinality(Filed(reports', u, clock - Day + 1, clock)) \in Nat /\ Cardinality(Filed(reports, u, s, clock)) \in Nat
      BY <1>1, <1>3, <3>6, FiledWithin, FiledFinite
    <3>8. Cardinality(Filed(reports, u, s, clock)) <= limits[u].count /\ limits[u].count <= MaxReports
      BY <3>2 DEF InWindow
    <3>9. NoWindow(u)'
      <4>1. Cardinality(Filed(reports', u, clock - Day + 1, clock)) <= MaxReports
        BY <2>0, <3>7, <3>8
      <4> QED BY <1>1, <3>5, <4>1 DEF NoWindow
    <3>10. Twice(u)'
      BY <1>1, <1>3, <3>2, TwiceHolds
    <3> QED BY <3>3, <3>9, <3>10 DEF Windowed
  <2>3. CASE ~recent(s, Day) /\ ~(limits[u].count > 0)
    <3>1. limits'[u] = NoLimit /\ limits[u].count = 0
      BY <2>0, <2>3 DEF Alarm
    <3>2. NoWindow(u) /\ Twice(u)
      BY <2>3 DEF ModerationInv, Windowed
    <3>3. Twice(u)'
      BY <1>1, <1>3, <3>2, TwiceHolds
    <3>4. NoWindow(u)'
      <4>1. \A r \in reports' : r.by = u => r.created < clock
        BY <1>2, <3>2 DEF NoWindow
      <4>2. Filed(reports', u, clock - Day + 1, clock) \subseteq Filed(reports, u, clock - Day + 1, clock)
        BY <1>2 DEF Filed
      <4>3. /\ Cardinality(Filed(reports', u, clock - Day + 1, clock)) <= Cardinality(Filed(reports, u, clock - Day + 1, clock))
            /\ Cardinality(Filed(reports', u, clock - Day + 1, clock)) \in Nat
            /\ Cardinality(Filed(reports, u, clock - Day + 1, clock)) \in Nat
        BY <1>1, <1>3, <4>2, FiledWithin, FiledFinite
      <4>4. Cardinality(Filed(reports, u, clock - Day + 1, clock)) <= MaxReports
        BY <3>2 DEF NoWindow
      <4>5. Cardinality(Filed(reports', u, clock - Day + 1, clock)) <= MaxReports
        BY <4>3, <4>4
      <4> QED BY <1>1, <4>1, <4>5 DEF NoWindow
    <3> QED BY <3>1, <3>3, <3>4 DEF Windowed, NoLimit
  <2> QED BY <2>1, <2>2, <2>3
<1> QED BY <1>4, <1>5, <1>6, <1>7 DEF ModerationInv

LEMMA TickKeeps ==
  ASSUME ModerationInv, Tick
  PROVE  ModerationInv'
<1> USE ModerationAssumption
<1>1. /\ clock \in Nat /\ clock' = clock + 1 /\ IsFiniteSet(reports) /\ reports \subseteq Report
      /\ limits \in [Users -> Limit] /\ reports' = reports /\ limits' = limits /\ alarmAt' = alarmAt
      /\ \A r \in reports : r.created \in Nat /\ r.created <= clock
  BY DEF ModerationInv, ModerationType, Written, Tick, Report
<1>2. ModerationType'
  BY <1>1 DEF Tick, ModerationInv, ModerationType
<1>3. Written' /\ Gone'
  BY <1>1 DEF Tick, ModerationInv, Written, Gone
<1>4. Punctual'
  <2>1. kept' = kept /\ alarmAt # clock /\ alarmAt \in Nat \cup {Unarmed}
    BY DEF Tick, kept, ModerationInv, ModerationType
  <2> QED BY <1>1, <2>1 DEF Punctual, Unarmed, ModerationInv
<1>5. ASSUME NEW u \in Users PROVE Windowed(u)' /\ Twice(u)'
  <2>1. Twice(u)'
    BY <1>1 DEF ModerationInv, Twice
  <2>2. CASE limits[u].count > 0
    <3> DEFINE s == limits[u].start
    <3>1. InWindow(u, s, limits[u].count) /\ s \in Nat
      BY <1>1, <2>2 DEF ModerationInv, Windowed, Limit
    <3>2. Filed(reports, u, s, clock + 1) = Filed(reports, u, s, clock)
      BY <1>1, <3>1 DEF Filed
    <3>3. InWindow(u, s, limits[u].count)'
      BY <1>1, <3>1, <3>2 DEF InWindow
    <3> QED BY <1>1, <2>1, <2>2, <3>3 DEF Windowed
  <2>3. CASE ~(limits[u].count > 0)
    <3>1. NoWindow(u)
      BY <2>3 DEF ModerationInv, Windowed
    <3>2. \A r \in reports' : r.by = u => r.created < clock'
      BY <1>1
    <3>3. Filed(reports, u, clock + 1 - Day + 1, clock + 1) \subseteq Filed(reports, u, clock - Day + 1, clock)
      BY <1>1 DEF Filed
    <3>4. /\ Cardinality(Filed(reports, u, clock + 1 - Day + 1, clock + 1)) <= Cardinality(Filed(reports, u, clock - Day + 1, clock))
          /\ Cardinality(Filed(reports, u, clock + 1 - Day + 1, clock + 1)) \in Nat
          /\ Cardinality(Filed(reports, u, clock - Day + 1, clock)) \in Nat
      BY <1>1, <3>3, FiledWithin, FiledFinite
    <3>5. Cardinality(Filed(reports, u, clock + 1 - Day + 1, clock + 1)) <= MaxReports
      BY <3>1, <3>4 DEF NoWindow
    <3>6. NoWindow(u)'
      BY <1>1, <3>2, <3>5 DEF NoWindow
    <3> QED BY <1>1, <2>1, <2>3, <3>6 DEF Windowed
  <2> QED BY <2>2, <2>3
<1> QED BY <1>2, <1>3, <1>4, <1>5 DEF ModerationInv

-----------------------------------------------------------------------------
(* A report is written.                                                    *)
LEMMA OneMore ==
  ASSUME NEW all, IsFiniteSet(all), NEW q, NEW u, NEW a, NEW b
  PROVE  /\ Cardinality(Filed(all \cup {q}, u, a, b)) <= Cardinality(Filed(all, u, a, b)) + 1
         /\ q.by # u \/ q.created \notin a..b => Filed(all \cup {q}, u, a, b) = Filed(all, u, a, b)
<1> DEFINE F == Filed(all, u, a, b)
<1>1. IsFiniteSet(F) /\ Cardinality(F) \in Nat
  BY FiledFinite
<1>2. CASE q.by = u /\ q.created \in a..b
  <2>1. Filed(all \cup {q}, u, a, b) = F \cup {q}
    BY <1>2 DEF Filed
  <2>2. Cardinality(F \cup {q}) = IF q \in F THEN Cardinality(F) ELSE Cardinality(F) + 1
    BY <1>1, FS_AddElement
  <2> HIDE DEF F
  <2>3. Cardinality(F \cup {q}) <= Cardinality(F) + 1
    BY <1>1, <2>2
  <2> QED BY <1>2, <2>1, <2>3 DEF F
<1>3. CASE ~(q.by = u /\ q.created \in a..b)
  <2>1. Filed(all \cup {q}, u, a, b) = F
    BY <1>3 DEF Filed
  <2> HIDE DEF F
  <2>2. Cardinality(F) <= Cardinality(F) + 1
    BY <1>1
  <2> QED BY <2>1, <2>2 DEF F
<1> QED BY <1>2, <1>3

(* Its window counts it, and any day that holds it holds, besides reports  *)
(* of this window, only some of the day before.                            *)
RoomFor(u, l) ==
  /\ l \in Limit /\ l.count > 0 /\ l.start <= clock /\ l.count <= MaxReports /\ clock < l.start + Day
  /\ \A r \in reports : r.by = u => r.created < l.start + Day
  /\ Cardinality(Filed(reports, u, l.start, clock)) + 1 <= l.count
  /\ Cardinality(Filed(reports, u, l.start - Day + 1, l.start - 1)) <= MaxReports

LEMMA CountedInItsWindow ==
  ASSUME ModerationInv, NEW u \in Users, ~exhausted(u)
  PROVE  RoomFor(u, counted(u))
<1> USE ModerationAssumption
<1> DEFINE l == counted(u)
<1>1. /\ clock \in Nat /\ IsFiniteSet(reports) /\ limits[u] \in Limit
      /\ limits[u].start \in Nat /\ limits[u].count \in Nat
      /\ \A r \in reports : r.created \in Nat /\ r.created <= clock
  BY DEF ModerationInv, ModerationType, Written, Limit, Report
<1>2. Windowed(u)
  BY DEF ModerationInv
<1>3. CASE running(u)
  <2>1. l = [start |-> limits[u].start, count |-> limits[u].count + 1]
    BY <1>1, <1>3 DEF counted, Limit
  <2>2. InWindow(u, limits[u].start, limits[u].count) /\ clock - limits[u].start < Day /\ limits[u].count < MaxReports
    BY <1>1, <1>2, <1>3 DEF Windowed, running, exhausted
  <2>3. Cardinality(Filed(reports, u, limits[u].start, clock)) \in Nat
    BY <1>1, FiledFinite
  <2>4. /\ l \in Limit /\ l.count > 0 /\ l.start <= clock /\ l.count <= MaxReports /\ clock < l.start + Day
        /\ \A r \in reports : r.by = u => r.created < l.start + Day
    BY <1>1, <2>1, <2>2 DEF InWindow, Limit
  <2>5. l.start = limits[u].start /\ l.count = limits[u].count + 1
    BY <2>1
  <2>6. Cardinality(Filed(reports, u, l.start, clock)) + 1 <= l.count
    <3>1. Cardinality(Filed(reports, u, limits[u].start, clock)) <= limits[u].count
      BY <2>2 DEF InWindow
    <3>2. Cardinality(Filed(reports, u, limits[u].start, clock)) + 1 <= limits[u].count + 1
      BY <1>1, <2>3, <3>1
    <3> HIDE DEF l
    <3> QED BY <2>5, <3>2
  <2>7. Cardinality(Filed(reports, u, l.start - Day + 1, l.start - 1)) <= MaxReports
    <3> HIDE DEF l
    <3> QED BY <2>2, <2>5 DEF InWindow
  <2> HIDE DEF l
  <2>8. RoomFor(u, l)
    BY <2>4, <2>6, <2>7 DEF RoomFor
  <2> QED BY <2>8 DEF l
<1>4. CASE ~running(u)
  <2>1. l = [start |-> clock, count |-> 1]
    BY <1>4 DEF counted
  <2>2. l \in Limit /\ l.count = 1 /\ l.start = clock
    BY <1>1, <2>1 DEF Limit
  <2>3. \A r \in reports : r.by = u => r.created < clock
    BY <1>1, <1>2, <1>4 DEF Windowed, running, InWindow, NoWindow
  <2>4. Filed(reports, u, clock, clock) = {}
    BY <1>1, <2>3 DEF Filed
  <2>5. Cardinality(Filed(reports, u, clock, clock)) = 0
    BY <2>4, FS_EmptySet
  <2>6. Cardinality(Filed(reports, u, clock - Day + 1, clock - 1)) <= MaxReports
    <3>1. CASE limits[u].count > 0
      <4>1. InWindow(u, limits[u].start, limits[u].count) /\ limits[u].start + Day <= clock
        BY <1>1, <1>2, <1>4, <3>1 DEF Windowed, running
      <4>2. Filed(reports, u, clock - Day + 1, clock - 1) \subseteq Filed(reports, u, limits[u].start, clock)
        BY <1>1, <4>1 DEF Filed
      <4>3. /\ Cardinality(Filed(reports, u, clock - Day + 1, clock - 1)) <= Cardinality(Filed(reports, u, limits[u].start, clock))
            /\ Cardinality(Filed(reports, u, clock - Day + 1, clock - 1)) \in Nat
            /\ Cardinality(Filed(reports, u, limits[u].start, clock)) \in Nat
        BY <1>1, <4>2, FiledWithin, FiledFinite
      <4>4. Cardinality(Filed(reports, u, limits[u].start, clock)) <= limits[u].count /\ limits[u].count <= MaxReports
        BY <4>1 DEF InWindow
      <4> QED BY <1>1, <4>3, <4>4
    <3>2. CASE ~(limits[u].count > 0)
      <4>1. Cardinality(Filed(reports, u, clock - Day + 1, clock)) <= MaxReports
        BY <1>2, <3>2 DEF Windowed, NoWindow
      <4>2. Filed(reports, u, clock - Day + 1, clock - 1) \subseteq Filed(reports, u, clock - Day + 1, clock)
        BY <1>1 DEF Filed
      <4>3. /\ Cardinality(Filed(reports, u, clock - Day + 1, clock - 1)) <= Cardinality(Filed(reports, u, clock - Day + 1, clock))
            /\ Cardinality(Filed(reports, u, clock - Day + 1, clock - 1)) \in Nat
            /\ Cardinality(Filed(reports, u, clock - Day + 1, clock)) \in Nat
        BY <1>1, <4>2, FiledWithin, FiledFinite
      <4> QED BY <4>1, <4>3
    <3> QED BY <3>1, <3>2
  <2> HIDE DEF l
  <2>7. /\ l.count > 0 /\ l.start <= clock /\ l.count <= MaxReports /\ clock < l.start + Day
        /\ \A r \in reports : r.by = u => r.created < l.start + Day
    BY <1>1, <2>2
  <2>8. Cardinality(Filed(reports, u, l.start, clock)) + 1 <= l.count
    BY <2>2, <2>5
  <2>9. Cardinality(Filed(reports, u, l.start - Day + 1, l.start - 1)) <= MaxReports
    BY <2>2, <2>6
  <2>10. RoomFor(u, l)
    BY <2>2, <2>7, <2>8, <2>9 DEF RoomFor
  <2> QED BY <2>10 DEF l
<1> QED BY <1>3, <1>4

LEMMA TwiceAtMost ==
  ASSUME NEW all, IsFiniteSet(all), NEW now \in Nat, \A r \in all : r.created \in Nat /\ r.created <= now,
         NEW u, NEW s \in Nat, s <= now, now < s + Day,
         Cardinality(Filed(all, u, s, now)) <= MaxReports,
         Cardinality(Filed(all, u, s - Day + 1, s - 1)) <= MaxReports,
         NEW t \in Nat, now \in t..(t + Day - 1)
  PROVE  Cardinality(Filed(all, u, t, t + Day - 1)) <= 2 * MaxReports
<1> USE ModerationAssumption
<1> DEFINE A == Filed(all, u, s, now)
           B == Filed(all, u, s - Day + 1, s - 1)
           C == Filed(all, u, t, t + Day - 1)
<1>1. /\ IsFiniteSet(A) /\ Cardinality(A) \in Nat /\ IsFiniteSet(B) /\ Cardinality(B) \in Nat
      /\ IsFiniteSet(C) /\ Cardinality(C) \in Nat
  BY FiledFinite
<1>2. C \in SUBSET (A \cup B)
  <2> SUFFICES ASSUME NEW r \in C PROVE r \in A \cup B
    OBVIOUS
  <2>1. r \in all /\ r.by = u /\ r.created \in Nat /\ t <= r.created /\ r.created <= now
    BY DEF Filed
  <2>2. r.created >= s - Day + 1
    <3>1. now <= t + Day - 1
      OBVIOUS
    <3> QED BY <2>1, <3>1
  <2>3. CASE r.created >= s
    BY <2>1, <2>3 DEF Filed
  <2>4. CASE ~(r.created >= s)
    BY <2>1, <2>2, <2>4 DEF Filed
  <2> QED BY <2>3, <2>4
<1>3. Cardinality(A) <= MaxReports /\ Cardinality(B) <= MaxReports
  BY <1>1
<1> HIDE DEF A, B, C
<1>4. /\ IsFiniteSet(A \cup B) /\ Cardinality(A \cup B) = Cardinality(A) + Cardinality(B) - Cardinality(A \cap B)
      /\ Cardinality(A \cap B) \in Nat
  <2>1. IsFiniteSet(A \cap B)
    <3>1. A \cap B \in SUBSET A
      OBVIOUS
    <3> QED BY <1>1, <3>1, FS_Subset
  <2> QED BY <1>1, <2>1, FS_Union, FS_CardinalityType
<1>5. Cardinality(C) <= Cardinality(A \cup B)
  BY <1>2, <1>4, FS_Subset
<1>6. Cardinality(C) <= 2 * MaxReports
  BY <1>1, <1>3, <1>4, <1>5
<1> QED BY <1>6 DEF C

LEMMA WritesKeeps ==
  ASSUME ModerationInv, NEW call \in Submission, ~deleted(call.by), ~exhausted(call.by), Writes(call), schedule,
         UNCHANGED <<clock, standing, backups, rooms>>,
         submissions' \in [Requests -> Submission \cup {NoSubmission}]
  PROVE  ModerationInv'
<1> USE ModerationAssumption
<1> DEFINE u == call.by
<1>1. PICK id \in ReportIds \ issued :
        /\ reports' = reports \cup {[id |-> id, by |-> call.by, key |-> call.key, input |-> call.input, created |-> clock, status |-> "open"]}
        /\ limits' = [limits EXCEPT ![call.by] = counted(call.by)]
        /\ audited
        /\ issued' = issued \cup {id}
  BY DEF Writes
<1> DEFINE q == [id |-> id, by |-> call.by, key |-> call.key, input |-> call.input, created |-> clock, status |-> "open"]
<1>2. /\ clock \in Nat /\ clock' = clock /\ IsFiniteSet(reports) /\ reports \subseteq Report /\ limits \in [Users -> Limit]
      /\ standing \in [Users -> Standing] /\ recent(clock, Retention)
      /\ \A r \in reports : r.created \in Nat /\ r.created <= clock
  BY DEF ModerationInv, ModerationType, Written, Report, recent
<1>3. u \in Users /\ q \in Report /\ q.by = u /\ q.created = clock /\ q.id = id
  BY <1>2 DEF Submission, Report
<1>4. PICK l \in Limit : RoomFor(u, l) /\ limits' = [limits EXCEPT ![u] = l]
  <2>1. RoomFor(u, counted(u))
    BY <1>3, CountedInItsWindow
  <2> QED BY <1>1, <2>1 DEF RoomFor
<1>5. reports' = reports \cup {q} /\ limits'[u] = l /\ \A v \in Users \ {u} : limits'[v] = limits[v]
  BY <1>1, <1>2, <1>3, <1>4
<1>6. limits' \in [Users -> Limit]
  BY <1>1, <1>2, <1>4 DEF RoomFor
<1>7. issued' = issued \cup {id} /\ id \in ReportIds /\ audit' = audit \cup {clock}
  BY <1>1 DEF audited
<1> HIDE DEF q, u
<1>8. IsFiniteSet(reports') /\ reports' \subseteq Report
  BY <1>2, <1>3, <1>5, FS_AddElement
<1>9. Written' /\ Gone'
  <2>1. standing[u].deletion = "none"
    BY DEF deleted, u
  <2> QED BY <1>2, <1>3, <1>5, <1>7, <2>1 DEF ModerationInv, Written, Gone
<1>10. \A at \in kept' : at \in kept \/ (at \in Nat /\ recent(at, Retention))
  BY <1>2, <1>3, <1>5, <1>7 DEF kept
<1>11. Punctual'
  BY <1>2, <1>10, KeptInTime DEF ModerationInv
<1>12. ModerationType'
  BY <1>2, <1>6, <1>7, <1>8 DEF ModerationInv, ModerationType, schedule
<1>13. InWindow(u, l.start, l.count)' /\ l.start \in Nat /\ l.count \in Nat
  <2>1. l.start \in Nat /\ l.count \in Nat
    BY <1>4 DEF RoomFor, Limit
  <2>2. /\ l.start <= clock /\ l.count <= MaxReports /\ clock < l.start + Day
        /\ \A r \in reports : r.by = u => r.created < l.start + Day
        /\ Cardinality(Filed(reports, u, l.start, clock)) + 1 <= l.count
        /\ Cardinality(Filed(reports, u, l.start - Day + 1, l.start - 1)) <= MaxReports
    BY <1>4 DEF RoomFor
  <2>3. \A r \in reports' : r.by = u => r.created < l.start + Day
    BY <1>3, <1>5, <2>2
  <2>4. Cardinality(Filed(reports', u, l.start, clock)) <= l.count
    <3>1. Cardinality(Filed(reports', u, l.start, clock)) <= Cardinality(Filed(reports, u, l.start, clock)) + 1
      BY <1>2, <1>5, OneMore
    <3>2. Cardinality(Filed(reports', u, l.start, clock)) \in Nat /\ Cardinality(Filed(reports, u, l.start, clock)) \in Nat
      BY <1>2, <1>8, FiledFinite
    <3> QED BY <2>1, <2>2, <3>1, <3>2
  <2>5. Cardinality(Filed(reports', u, l.start - Day + 1, l.start - 1)) <= MaxReports
    <3>1. q.created \notin (l.start - Day + 1)..(l.start - 1)
      BY <1>2, <1>3, <2>1, <2>2
    <3>2. Filed(reports', u, l.start - Day + 1, l.start - 1) = Filed(reports, u, l.start - Day + 1, l.start - 1)
      BY <1>2, <1>5, <3>1, OneMore
    <3> QED BY <2>2, <3>2
  <2> QED BY <1>2, <2>1, <2>2, <2>3, <2>4, <2>5 DEF InWindow
<1>14. \A r \in reports' : r.created \in Nat /\ r.created <= clock
  BY <1>2, <1>3, <1>5
<1>15. ASSUME NEW v \in Users PROVE Windowed(v)' /\ Twice(v)'
  <2>0. Windowed(v) /\ Twice(v)
    BY DEF ModerationInv
  <2>1. CASE v = u
    <3>1. Windowed(v)'
      BY <1>4, <1>5, <1>13, <2>1 DEF Windowed, RoomFor
    <3>2. ASSUME NEW t \in Nat PROVE Cardinality(Filed(reports', u, t, t + Day - 1)) <= 2 * MaxReports
      <4>1. CASE clock \in t..(t + Day - 1)
        <5>1. clock < l.start + Day /\ l.start <= clock /\ l.count <= MaxReports
          BY <1>4 DEF RoomFor
        <5>2. /\ Cardinality(Filed(reports', u, l.start, clock)) <= l.count
              /\ Cardinality(Filed(reports', u, l.start - Day + 1, l.start - 1)) <= MaxReports
          BY <1>2, <1>13 DEF InWindow
        <5>3. Cardinality(Filed(reports', u, l.start, clock)) \in Nat
          BY <1>8, FiledFinite
        <5>4. Cardinality(Filed(reports', u, l.start, clock)) <= MaxReports
          BY <1>13, <5>1, <5>2, <5>3
        <5> QED BY <1>2, <1>8, <1>13, <1>14, <4>1, <5>1, <5>2, <5>4, TwiceAtMost
      <4>2. CASE clock \notin t..(t + Day - 1)
        <5>1. Filed(reports', u, t, t + Day - 1) = Filed(reports, u, t, t + Day - 1)
          BY <1>3, <1>5, <4>2 DEF Filed
        <5> QED BY <2>0, <2>1, <5>1 DEF Twice
      <4> QED BY <4>1, <4>2
    <3> QED BY <2>1, <3>1, <3>2 DEF Twice
  <2>2. CASE v # u
    <3>1. \A a, b \in Int : Filed(reports', v, a, b) = Filed(reports, v, a, b)
      BY <1>3, <1>5, <2>2 DEF Filed
    <3>2. limits'[v] = limits[v] /\ limits[v].start \in Nat /\ clock \in Int
      BY <1>2, <1>5, <2>2 DEF Limit
    <3>3. Twice(v)'
      <4>1. \A t \in Nat : t \in Int /\ t + Day - 1 \in Int
        OBVIOUS
      <4> QED BY <2>0, <3>1, <4>1 DEF Twice
    <3>4. \A r \in reports' : r.by = v => r \in reports
      BY <1>3, <1>5, <2>2
    <3>5. CASE limits[v].count > 0
      <4>1. InWindow(v, limits[v].start, limits[v].count)
        BY <2>0, <3>5 DEF Windowed
      <4> DEFINE s == limits[v].start
      <4>2. s - Day + 1 \in Int /\ s - 1 \in Int /\ s \in Int
        BY <3>2
      <4>3. Filed(reports', v, s, clock) = Filed(reports, v, s, clock)
            /\ Filed(reports', v, s - Day + 1, s - 1) = Filed(reports, v, s - Day + 1, s - 1)
        BY <3>1, <3>2, <4>2
      <4>4. InWindow(v, limits[v].start, limits[v].count)'
        BY <1>2, <3>2, <3>4, <4>1, <4>3 DEF InWindow
      <4> QED BY <3>2, <3>3, <3>5, <4>4 DEF Windowed
    <3>6. CASE ~(limits[v].count > 0)
      <4>1. NoWindow(v)
        BY <2>0, <3>6 DEF Windowed
      <4>2. clock - Day + 1 \in Int
        BY <1>2
      <4>3. Filed(reports', v, clock - Day + 1, clock) = Filed(reports, v, clock - Day + 1, clock)
        BY <3>1, <3>2, <4>2
      <4>4. NoWindow(v)'
        BY <1>2, <3>4, <4>1, <4>3 DEF NoWindow
      <4> QED BY <3>2, <3>3, <3>6, <4>4 DEF Windowed
    <3> QED BY <3>5, <3>6
  <2> QED BY <2>1, <2>2
<1> QED BY <1>9, <1>11, <1>12, <1>15 DEF ModerationInv

LEMMA RecordsKeeps ==
  ASSUME ModerationInv, NEW s \in Requests, Records(s)
  PROVE  ModerationInv'
<1> DEFINE call == submissions[s]
<1>1. call \in Submission /\ submissions' \in [Requests -> Submission \cup {NoSubmission}]
  BY DEF Records, NoSubmission, ModerationInv, ModerationType
<1>2. CASE deleted(call.by) \/ prior(call.by, call.key) # {} \/ exhausted(call.by)
  <2>1. Declines /\ schedule /\ UNCHANGED <<clock, standing, backups, rooms>>
    BY <1>2 DEF Records
  <2>2. Punctual' /\ alarmAt' \in Nat \cup {Unarmed} /\ audit' \subseteq Nat
    BY <2>1, RecordedInTime DEF Declines
  <2>3. ModerationType'
    BY <1>1, <2>1, <2>2 DEF Declines, ModerationInv, ModerationType
  <2> QED BY <2>1, <2>2, <2>3, BesideTheReports DEF Beside, Declines
<1>3. CASE ~(deleted(call.by) \/ prior(call.by, call.key) # {} \/ exhausted(call.by))
  <2>1. Writes(call) /\ schedule /\ UNCHANGED <<clock, standing, backups, rooms>>
    BY <1>3 DEF Records
  <2> HIDE DEF call
  <2> QED BY <1>1, <1>3, <2>1, WritesKeeps
<1> QED BY <1>2, <1>3

LEMMA ModerationBegins == ModerationInit => ModerationInv
<1> USE ModerationAssumption
<1> SUFFICES ASSUME ModerationInit PROVE ModerationInv
  OBVIOUS
<1>1. IsFiniteSet({}) /\ Cardinality({}) = 0
  BY FS_EmptySet
<1>2. ModerationType
  BY <1>1 DEF ModerationInit, ModerationType, Standing, Limit, NoLimit, Room, Vacant, Unarmed
<1>3. Written /\ Punctual /\ Gone
  BY DEF ModerationInit, Written, Punctual, Gone, kept
<1>4. \A u, a, b : Filed(reports, u, a, b) = {}
  BY DEF ModerationInit, Filed
<1>5. \A u, a, b : Cardinality(Filed(reports, u, a, b)) = 0
  BY <1>1, <1>4
<1>6. \A u \in Users : NoWindow(u) /\ Twice(u) /\ limits[u].count = 0
  BY <1>5 DEF ModerationInit, NoWindow, Twice, NoLimit
<1> QED BY <1>2, <1>3, <1>6 DEF ModerationInv, Windowed

LEMMA ModerationStep == ModerationInv /\ [ModerationNext]_moderationVars => ModerationInv'
<1> SUFFICES ASSUME ModerationInv, [ModerationNext]_moderationVars PROVE ModerationInv'
  OBVIOUS
<1>1. CASE Reporting
  BY <1>1, SubmitKeeps, RoomAnswersKeeps, RecordsKeeps, EvictKeeps DEF Reporting
<1>2. CASE Operating
  BY <1>2, SetSuspendedKeeps, RecordCommunityOperationKeeps, RecordBackupKeeps DEF Operating
<1>3. CASE Elsewhere
  BY <1>3, BeginDeletionKeeps, ScrubUserKeeps, CompleteDeletionKeeps, CreateTripKeeps, ChangeGuardianKeeps, PurgeKeeps,
     AlarmKeeps, TickKeeps DEF Elsewhere
<1>4. ASSUME NEW r \in reports, NEW resolution \in {"dismissed", "actioned"},
             ResolveReport(r, resolution) \/ ResolvedBefore(r, resolution)
      PROVE  ModerationInv'
  BY <1>4, ResolveReportKeeps, ResolvedBeforeKeeps
<1>5. CASE UNCHANGED moderationVars
  <2> USE <1>5 DEF moderationVars
  <2>1. ModerationType' /\ Written' /\ Gone' /\ Punctual'
    BY DEF ModerationInv, ModerationType, Written, Gone, Punctual, kept
  <2>2. \A u \in Users : standing'[u] = standing[u]
    OBVIOUS
  <2> QED BY <2>1, <2>2, BesideTheReports DEF Beside
<1> QED BY <1>1, <1>2, <1>3, <1>4, <1>5 DEF ModerationNext

(* Reports, whatever accounts, journeys, operators and deletions there     *)
(* are: ModerationInv.                                                     *)
THEOREM ModerationInvariant == ModerationSpec => []ModerationInv
BY ModerationBegins, ModerationStep, PTL DEF ModerationSpec

(* Moderation!ReportsAreErased: no report outlives the deletion of the     *)
(* account that wrote it, nor, with what operators leave behind, its       *)
(* retention and a day, for any number of submissions under way.           *)
THEOREM ReportsAreErasedHolds == ModerationSpec => []ReportsAreErased
<1> USE ModerationAssumption
<1>1. ModerationInv => ReportsAreErased
  <2> SUFFICES ASSUME ModerationInv PROVE ReportsAreErased
    OBVIOUS
  <2>1. clock \in Nat /\ alarmAt \in Nat \cup {Unarmed} /\ kept \subseteq Nat
    BY DEF ModerationInv, ModerationType, kept, Report
  <2>2. \A at \in kept : at + Retention + Day > clock
    BY <2>1 DEF ModerationInv, Punctual, Unarmed
  <2> QED BY <2>2 DEF ReportsAreErased, ModerationInv, Gone, kept
<1> QED BY <1>1, ModerationInvariant, PTL

(* Moderation!AtMostTwiceADay: in any day an account gets in at most twice *)
(* the reports of a window, for any limit, any length of a day and however *)
(* long it goes on.                                                        *)
THEOREM AtMostTwiceADayHolds == ModerationSpec => []AtMostTwiceADay
<1> USE ModerationAssumption
<1>1. ModerationInv => AtMostTwiceADay
  <2> SUFFICES ASSUME ModerationInv, NEW u \in Users, NEW t \in 0..Latest
               PROVE  Cardinality({r \in reports : r.by = u /\ r.created \in t..(t + Day - 1)}) <= 2 * MaxReports
    BY DEF AtMostTwiceADay
  <2>1. Twice(u) /\ t \in Nat
    BY DEF ModerationInv
  <2> QED BY <2>1 DEF Twice, Filed
<1> QED BY <1>1, ModerationInvariant, PTL

(***************************************************************************)
(* The operators' page.                                                    *)
(***************************************************************************)
(* Reports are in a total order; a page of a finite list holds all of it,  *)
(* or is full and the rest comes after it; and it ends somewhere.          *)
LEMMA BelowOrders ==
  ASSUME NEW r \in Row, NEW s \in Row, NEW t \in Row
  PROVE  /\ ~Below(r, r)
         /\ r # s => Below(r, s) \/ Below(s, r)
         /\ Below(r, s) /\ Below(s, t) => Below(r, t)
<1> USE ModerationAssumption
<1>1. /\ r.id \in Nat /\ s.id \in Nat /\ t.id \in Nat /\ r.created \in Nat /\ s.created \in Nat /\ t.created \in Nat
  BY DEF Row
<1>2. r.id = s.id /\ r.created = s.created => r = s
  BY DEF Row
<1> QED BY <1>1, <1>2 DEF Below

(* Of those with any number above them, one has the fewest.                *)
LEMMA FewestFirst ==
  ASSUME NEW S, S # {}, NEW f \in [S -> Nat]
  PROVE  \E x \in S : \A y \in S : f[x] <= f[y]
<1> DEFINE T == {f[x] : x \in S}
<1>1. T \subseteq Nat /\ T # {}
  OBVIOUS
<1>2. PICK m \in T : \A n \in T : ~ (<<n, m>> \in OpToRel(<, Nat))
  BY <1>1, WFMin, NatLessThanWellFounded, Zenon
<1>3. \A n \in T : <<n, m>> \in Nat \X Nat /\ n \in Nat /\ m \in Nat
  BY <1>1
<1>4. \A n \in T : ~(n < m)
  BY <1>2, <1>3 DEF OpToRel
<1>5. \A n \in T : m <= n
  BY <1>3, <1>4
<1>6. PICK x \in S : f[x] = m
  OBVIOUS
<1> QED BY <1>5, <1>6

Above(S, r) == {s \in S : Below(r, s)}
LEMMA MoreAbove ==
  ASSUME NEW S \in SUBSET Row, IsFiniteSet(S), NEW r \in S, NEW x \in S, Below(r, x)
  PROVE  /\ Cardinality(Above(S, x)) \in Nat /\ Cardinality(Above(S, r)) \in Nat
         /\ Cardinality(Above(S, x)) < Cardinality(Above(S, r))
<1>1. Above(S, r) \in SUBSET S /\ Above(S, x) \in SUBSET S
  BY DEF Above
<1>2. /\ IsFiniteSet(Above(S, r)) /\ IsFiniteSet(Above(S, x))
      /\ Cardinality(Above(S, r)) \in Nat /\ Cardinality(Above(S, x)) \in Nat
  BY <1>1, FS_Subset, FS_CardinalityType
<1>3. Above(S, x) \in SUBSET Above(S, r)
  <2> SUFFICES ASSUME NEW s \in S, Below(x, s) PROVE Below(r, s)
    BY DEF Above
  <2> QED BY BelowOrders
<1>4. Above(S, x) # Above(S, r)
  BY BelowOrders DEF Above
<1>5. Cardinality(Above(S, x)) <= Cardinality(Above(S, r)) /\ Cardinality(Above(S, x)) # Cardinality(Above(S, r))
  BY <1>2, <1>3, <1>4, FS_Subset
<1> QED BY <1>2, <1>5

Further(r, S) == Cardinality(S) >= PageSize /\ \A x \in S : Below(r, x)
LEMMA PageOrFurther ==
  ASSUME NEW S \in SUBSET Row, IsFiniteSet(S), NEW r \in S, r \notin firstOf(S, PageSize)
  PROVE  Further(r, firstOf(S, PageSize))
<1> USE DeskAssumption
<1> DEFINE F == firstOf(S, PageSize)
<1>1. \A x \in S : Cardinality(Above(S, x)) \in Nat
  <2>1. \A x \in S : Above(S, x) \in SUBSET S
    BY DEF Above
  <2> QED BY <2>1, FS_Subset, FS_CardinalityType
<1>2. \A x \in S : x \in F <=> Cardinality(Above(S, x)) < PageSize
  BY DEF firstOf, Above
<1>3. ASSUME NEW x \in F, NEW y \in S \ F PROVE Below(y, x)
  <2>1. x \in S /\ Cardinality(Above(S, x)) < PageSize /\ ~(Cardinality(Above(S, y)) < PageSize) /\ x # y
    BY <1>2 DEF firstOf
  <2>2. ~Below(x, y)
    BY <1>1, <2>1, MoreAbove
  <2> QED BY <2>1, <2>2, BelowOrders
<1>4. S \ F # {}
  OBVIOUS
<1>5. PICK y \in S \ F : \A z \in S \ F : Cardinality(Above(S, y)) <= Cardinality(Above(S, z))
  <2> DEFINE f == [x \in S \ F |-> Cardinality(Above(S, x))]
  <2>1. f \in [S \ F -> Nat]
    BY <1>1
  <2>2. PICK x \in S \ F : \A z \in S \ F : f[x] <= f[z]
    <3> HIDE DEF f, F
    <3> QED BY <1>4, <2>1, FewestFirst
  <2> QED BY <2>2
<1>6. Above(S, y) \subseteq F
  <2> SUFFICES ASSUME NEW z \in S, Below(y, z), z \notin F PROVE FALSE
    BY DEF Above
  <2>1. Cardinality(Above(S, z)) < Cardinality(Above(S, y))
    BY MoreAbove
  <2>2. Cardinality(Above(S, y)) <= Cardinality(Above(S, z))
    BY <1>5
  <2> QED BY <1>1, <2>1, <2>2
<1>7. IsFiniteSet(F) /\ Cardinality(F) \in Nat
  <2>1. F \in SUBSET S
    BY DEF firstOf
  <2> QED BY <2>1, FS_Subset, FS_CardinalityType
<1>8. Cardinality(Above(S, y)) <= Cardinality(F)
  <2>1. Above(S, y) \in SUBSET F
    BY <1>6
  <2> HIDE DEF F
  <2> QED BY <1>7, <2>1, FS_Subset
<1>9. ~(Cardinality(Above(S, y)) < PageSize)
  BY <1>2
<1>10. Cardinality(F) >= PageSize
  <2> HIDE DEF F
  <2> QED BY <1>1, <1>5, <1>7, <1>8, <1>9
<1> QED BY <1>3, <1>10 DEF Further

LEMMA PageEnds ==
  ASSUME NEW S \in SUBSET Row, IsFiniteSet(S), S # {}
  PROVE  lastOf(S) \in S /\ \A s \in S \ {lastOf(S)} : Below(lastOf(S), s)
<1>1. \A x \in S : Cardinality({s \in S : Below(s, x)}) \in Nat /\ IsFiniteSet({s \in S : Below(s, x)})
  <2>1. \A x \in S : {s \in S : Below(s, x)} \in SUBSET S
    OBVIOUS
  <2> QED BY <2>1, FS_Subset, FS_CardinalityType
<1> DEFINE f == [x \in S |-> Cardinality({s \in S : Below(s, x)})]
<1>2. f \in [S -> Nat]
  BY <1>1
<1>3. PICK x \in S : \A y \in S : f[x] <= f[y]
  <2> HIDE DEF f
  <2> QED BY <1>2, FewestFirst
<1>4. ASSUME NEW y \in S \ {x} PROVE Below(x, y)
  <2> SUFFICES ASSUME Below(y, x) PROVE FALSE
    BY BelowOrders
  <2> DEFINE A == {s \in S : Below(s, y)}
             B == {s \in S : Below(s, x)}
  <2>1. A \in SUBSET B
    BY BelowOrders
  <2>2. y \in B /\ y \notin A
    BY BelowOrders
  <2>3. IsFiniteSet(A) /\ IsFiniteSet(B) /\ Cardinality(A) \in Nat /\ Cardinality(B) \in Nat /\ Cardinality(B) <= Cardinality(A)
    BY <1>1, <1>3
  <2> HIDE DEF A, B
  <2>4. Cardinality(A) <= Cardinality(B) /\ Cardinality(A) # Cardinality(B)
    BY <2>1, <2>2, <2>3, FS_Subset
  <2> QED BY <2>3, <2>4
<1>5. \E z \in S : \A s \in S \ {z} : Below(z, s)
  BY <1>4
<1> QED BY <1>5 DEF lastOf

-----------------------------------------------------------------------------
(* What an operator has not seen, of what there was when the first page    *)
(* was read, comes after the page, which is full; after the cursor that    *)
(* the next page is asked with; or on the page that is read next, or after *)
(* it.  That holds of an answer that arrives when the operator has left,   *)
(* too.                                                                    *)
DeskType ==
  /\ given \in BOOLEAN /\ connected \in BOOLEAN
  /\ displayed \subseteq Row /\ IsFiniteSet(displayed)
  /\ request \in DeskRequest \cup {NoRequest}
  /\ waiting => IsFiniteSet(request.rows)
  /\ pass \in Pass

Unseen(r) == r.id \in pass.there /\ r.id \notin pass.seen
OnOrAfter(r, S) == r \in S \/ Further(r, S)
RequestLeads ==
  /\ request.stage = "ruling" => request.before = Top
  /\ request.stage = "asked" /\ request.before # Top => \A r \in listable : Unseen(r) => Below(r, request.before)
  /\ request.stage = "listed" /\ request.before # Top => \A r \in listable : Unseen(r) => OnOrAfter(r, request.rows)
  /\ request.stage = "listed" /\ request.before = Top => \A r \in listable : r.id \in request.there => OnOrAfter(r, request.rows)

DeskInv ==
  /\ DeskType
  /\ pass.there \subseteq issued /\ (waiting => request.there \subseteq issued)
  /\ connected => \A r \in listable : Unseen(r) => Further(r, displayed)
  /\ waiting => RequestLeads

(* A report that is open was open before, or is new.                       *)
Lingering == issued \subseteq issued' /\ \A r \in listable' : r \in listable \/ r.id \notin issued

LingersOn ==
  /\ issued \subseteq issued' /\ clock <= clock'
  /\ \A q \in reports' : q.status = "open" => q \in reports \/ q.id \notin issued
LEMMA ReportsLinger ==
  ASSUME ModerationInv, [ModerationNext]_moderationVars
  PROVE  Lingering
<1> USE ModerationAssumption
<1>1. clock \in Nat /\ clock' \in Nat /\ reports \subseteq Report /\ reports' \subseteq Report
  BY ModerationStep DEF ModerationInv, ModerationType
<1>2. LingersOn
  <2> USE DEF LingersOn
  <2>1. ASSUME UNCHANGED <<clock, reports, issued>> PROVE LingersOn
    BY <1>1, <2>1
  <2>2. CASE Reporting
    <3>1. CASE \E t \in Requests : Records(t)
      <4>1. PICK t \in Requests : Records(t)
        BY <3>1
      <4>2. CASE Writes(submissions[t])
        BY <1>1, <4>1, <4>2 DEF Writes, Records
      <4>3. CASE Declines
        BY <2>1, <4>1, <4>3 DEF Declines, Records
      <4> QED BY <4>1, <4>2, <4>3 DEF Records
    <3> QED BY <2>1, <2>2, <3>1 DEF Reporting, Submit, RoomAnswers, Evict
  <2>3. CASE Operating
    BY <2>1, <2>3 DEF Operating, SetSuspended, RecordCommunityOperation, RecordBackup
  <2>4. CASE Elsewhere
    <3>1. CASE Alarm \/ Tick
      BY <1>1, <3>1 DEF Alarm, Tick
    <3>2. CASE \E u \in Users : CompleteDeletion(u)
      BY <1>1, <3>2 DEF CompleteDeletion
    <3> QED BY <2>1, <2>4, <3>1, <3>2 DEF Elsewhere, BeginDeletion, ScrubUser, CreateTrip, ChangeGuardian, Purge
  <2>5. ASSUME NEW r \in reports, NEW resolution \in {"dismissed", "actioned"},
               ResolveReport(r, resolution) \/ ResolvedBefore(r, resolution)
        PROVE  LingersOn
    <3>1. CASE ResolveReport(r, resolution)
      <4>1. [r EXCEPT !.status = resolution].status # "open"
        BY <1>1 DEF Report
      <4>2. clock' = clock /\ issued' = issued /\ reports' = (reports \ {r}) \cup {[r EXCEPT !.status = resolution]}
        BY <3>1 DEF ResolveReport
      <4>3. clock <= clock'
        BY <1>1, <4>2
      <4>4. \A q \in reports' : q.status = "open" => q \in reports
        BY <4>1, <4>2
      <4> QED BY <4>2, <4>3, <4>4
    <3>2. CASE ResolvedBefore(r, resolution)
      BY <2>1, <3>2 DEF ResolvedBefore
    <3> QED BY <2>5, <3>1, <3>2
  <2>6. CASE UNCHANGED moderationVars
    BY <2>1, <2>6 DEF moderationVars
  <2> QED BY <2>2, <2>3, <2>4, <2>5, <2>6 DEF ModerationNext
<1>3. ASSUME NEW x \in listable' PROVE x \in listable \/ x.id \notin issued
  <2> USE DEF LingersOn
  <2>1. PICK q \in reports' : q.status = "open" /\ q.created > clock' - Retention /\ x = row(q)
    BY DEF listable, recent
  <2>2. CASE q.id \notin issued
    BY <2>1, <2>2 DEF row
  <2>3. CASE q \in reports
    <3>1. q.created \in Nat
      BY <1>1 DEF Report
    <3>2. recent(q.created, Retention)
      BY <1>1, <1>2, <2>1, <3>1 DEF recent
    <3> QED BY <2>1, <2>3, <3>2 DEF listable
  <2> QED BY <1>2, <2>1, <2>2, <2>3
<1> QED BY <1>2, <1>3 DEF Lingering, LingersOn

LEMMA ListIsFinite ==
  ASSUME ModerationInv
  PROVE  listable \in SUBSET Row /\ IsFiniteSet(listable) /\ idsOf(listable) \subseteq issued
<1> DEFINE S == {r \in reports : r.status = "open" /\ recent(r.created, Retention)}
           f == [r \in S |-> row(r)]
<1>1. IsFiniteSet(S)
  <2>1. S \in SUBSET reports /\ IsFiniteSet(reports)
    BY DEF ModerationInv, ModerationType
  <2> QED BY <2>1, FS_Subset
<1>2. f \in Surjection(S, listable)
  BY DEF Surjection, listable
<1>3. listable \in SUBSET Row /\ idsOf(listable) \subseteq issued
  BY DEF listable, row, Row, Report, idsOf, ModerationInv, ModerationType, Written
<1> HIDE DEF f, S
<1> QED BY <1>1, <1>2, <1>3, FS_Surjection

LEMMA OthersAct ==
  ASSUME DeskInv, Lingering, UNCHANGED deskVars
  PROVE  DeskInv'
<1> USE DEF deskVars
<1>1. DeskType'
  BY DEF DeskInv, DeskType, waiting
<1>2. pass.there \subseteq issued' /\ (waiting => request.there \subseteq issued')
  BY DEF DeskInv, Lingering
<1>3. \A r \in listable' : Unseen(r) => r \in listable
  BY DEF DeskInv, Lingering, Unseen
<1>4. waiting => \A r \in listable' : r.id \in request.there => r \in listable
  BY DEF DeskInv, Lingering
<1>5. connected => \A r \in listable' : Unseen(r) => Further(r, displayed)
  BY <1>3 DEF DeskInv
<1>6. waiting => RequestLeads'
  BY <1>3, <1>4 DEF DeskInv, RequestLeads, Unseen
<1> QED BY <1>1, <1>2, <1>5, <1>6 DEF DeskInv, waiting, Unseen

(* A ruling is followed by the newest page.                                *)
LEMMA RulingGoesOn ==
  ASSUME DeskInv, Lingering, request.stage = "ruling", proceeds("asked"), UNCHANGED <<given, connected, displayed, pass>>
  PROVE  DeskInv'
<1>1. waiting /\ request \in DeskRequest /\ request.before = Top
  BY DEF DeskInv, DeskType, RequestLeads, waiting, NoRequest
<1>2. /\ request' \in DeskRequest /\ request'.stage = "asked" /\ request'.before = Top
      /\ request'.rows = request.rows /\ request'.there = request.there /\ request' # NoRequest
  BY <1>1 DEF proceeds, DeskRequest, NoRequest
<1>3. DeskType'
  BY <1>1, <1>2 DEF DeskInv, DeskType, waiting
<1>4. pass'.there \subseteq issued' /\ request'.there \subseteq issued'
  BY <1>1, <1>2 DEF DeskInv, Lingering
<1>5. connected' => \A r \in listable' : Unseen(r)' => Further(r, displayed)'
  BY DEF DeskInv, Lingering, Unseen
<1>6. RequestLeads'
  BY <1>2 DEF RequestLeads
<1> QED BY <1>3, <1>4, <1>5, <1>6 DEF DeskInv

(* What the operator does at the page.                                     *)
LEMMA TypeOrDisconnect ==
  ASSUME DeskInv, Lingering, NEW some \in BOOLEAN, Type(some), UNCHANGED moderationVars
  PROVE  DeskInv'
<1>1. given' \in BOOLEAN /\ connected' = FALSE /\ displayed' = {} /\ UNCHANGED <<request, pass>>
  BY DEF Type
<1>2. DeskType'
  <2>1. IsFiniteSet({})
    BY FS_EmptySet
  <2> QED BY <1>1, <2>1 DEF DeskInv, DeskType, waiting
<1>3. UNCHANGED <<reports, clock, issued>>
  BY DEF moderationVars
<1>4. listable' = listable
  BY <1>3 DEF listable, recent
<1>5. (waiting => RequestLeads)'
  BY <1>1, <1>4 DEF DeskInv, RequestLeads, waiting, Unseen
<1>6. pass'.there \subseteq issued' /\ (waiting => request.there \subseteq issued)'
  BY <1>1, <1>3 DEF DeskInv, waiting
<1> QED BY <1>1, <1>2, <1>5, <1>6 DEF DeskInv

LEMMA AsksForTheNewest ==
  ASSUME DeskInv, NEW stage \in {"ruling", "asked"}, NEW first \in {NoRuling} \cup RulingOnReport \cup RulingOnAccount,
         sends(stage, first, Top), UNCHANGED moderationVars, UNCHANGED <<given, connected, displayed, pass>>
  PROVE  DeskInv'
<1>1. given \in BOOLEAN
  BY DEF DeskInv, DeskType
<1>2. /\ request' \in DeskRequest /\ request'.stage \in {"ruling", "asked"} /\ request'.before = Top
      /\ request'.rows = {} /\ request'.there = {}
  BY <1>1 DEF sends, DeskRequest
<1>3. DeskType'
  <2>1. IsFiniteSet({})
    BY FS_EmptySet
  <2> QED BY <1>2, <2>1 DEF DeskInv, DeskType, waiting
<1>4. UNCHANGED <<reports, clock, issued>>
  BY DEF moderationVars
<1>5. listable' = listable
  BY <1>4 DEF listable, recent
<1>6. RequestLeads'
  BY <1>2 DEF RequestLeads
<1>7. pass'.there \subseteq issued' /\ request'.there \subseteq issued'
  BY <1>2, <1>4 DEF DeskInv
<1>8. (connected => \A r \in listable : Unseen(r) => Further(r, displayed))'
  BY <1>5 DEF DeskInv, Unseen
<1> QED BY <1>3, <1>6, <1>7, <1>8 DEF DeskInv

(* The next page begins where this one, which is full, ends.               *)
LEMMA AsksForOlder ==
  ASSUME DeskInv, Older, UNCHANGED moderationVars
  PROVE  DeskInv'
<1> USE DeskAssumption
<1>1. connected /\ Cardinality(displayed) = PageSize /\ displayed \in SUBSET Row /\ IsFiniteSet(displayed) /\ given \in BOOLEAN
  BY DEF Older, DeskInv, DeskType
<1>2. displayed # {}
  BY <1>1, FS_EmptySet
<1>3. PICK last \in displayed : last = lastOf(displayed)
  BY <1>1, <1>2, PageEnds
<1>4. last \in Row
  BY <1>1
<1>5. /\ request' \in DeskRequest /\ request'.stage = "asked" /\ request'.before = last
      /\ request'.rows = {} /\ request'.there = {}
  BY <1>1, <1>3, <1>4 DEF Older, sends, DeskRequest, NoRuling
<1>6. DeskType'
  <2>1. IsFiniteSet({})
    BY FS_EmptySet
  <2> QED BY <1>5, <2>1 DEF DeskInv, DeskType, waiting, Older
<1>7. UNCHANGED <<reports, clock, issued, given, connected, displayed, pass>>
  BY DEF moderationVars, Older
<1>8. listable' = listable
  BY <1>7 DEF listable, recent
<1>9. \A r \in listable : Unseen(r) => Below(r, last)
  BY <1>1, <1>3 DEF DeskInv, Further
<1>10. RequestLeads'
  BY <1>5, <1>7, <1>8, <1>9 DEF RequestLeads, Unseen
<1>11. pass'.there \subseteq issued' /\ request'.there \subseteq issued'
  BY <1>5, <1>7 DEF DeskInv
<1>12. (connected => \A r \in listable : Unseen(r) => Further(r, displayed))'
  BY <1>7, <1>8 DEF DeskInv, Unseen
<1> QED BY <1>6, <1>10, <1>11, <1>12 DEF DeskInv

(* The server lists.                                                       *)
LEMMA ListsAPage ==
  ASSUME ModerationInv, DeskInv, Lists, UNCHANGED moderationVars
  PROVE  DeskInv'
<1> DEFINE before == request.before
<1>1. request \in DeskRequest /\ request.stage = "asked" /\ waiting
  BY DEF Lists, DeskInv, DeskType, NoRequest, waiting
<1>2. listable \in SUBSET Row /\ IsFiniteSet(listable) /\ idsOf(listable) \subseteq issued
  BY ListIsFinite
<1>3. after(before) \in SUBSET listable
  BY DEF after
<1>4. after(before) \in SUBSET Row /\ IsFiniteSet(after(before))
  BY <1>2, <1>3, FS_Subset
<1>5. listReports(before) \in SUBSET after(before)
  BY DEF listReports, firstOf
<1>6. listReports(before) \in SUBSET Row /\ IsFiniteSet(listReports(before))
  BY <1>4, <1>5, FS_Subset
<1>7. idsOf(listable) \subseteq ReportIds
  BY <1>2 DEF idsOf, Row
<1>8. /\ request' \in DeskRequest /\ request'.stage = "listed" /\ request'.before = before
      /\ request'.rows = listReports(before) /\ request'.there = idsOf(listable)
  <2>1. request' = [request EXCEPT !.stage = "listed", !.rows = listReports(before), !.there = idsOf(listable)]
    BY DEF Lists
  <2> QED BY <1>1, <1>6, <1>7, <2>1 DEF DeskRequest
<1>9. UNCHANGED <<reports, clock, issued, given, connected, displayed, pass>>
  BY DEF moderationVars, Lists
<1>10. listable' = listable
  BY <1>9 DEF listable, recent
<1>11. DeskType'
  BY <1>6, <1>8, <1>9 DEF DeskInv, DeskType, waiting
<1>12. \A r \in after(before) : OnOrAfter(r, listReports(before))
  BY <1>4, PageOrFurther DEF OnOrAfter, listReports
<1>13. \A r \in listable : before = Top \/ Unseen(r) => r \in after(before)
  <2>1. before # Top => \A r \in listable : Unseen(r) => Below(r, before)
    BY <1>1 DEF DeskInv, RequestLeads
  <2> QED BY <2>1 DEF after
<1>14. RequestLeads'
  <2> HIDE DEF before
  <2>1. \A r \in listable : Unseen(r)' = Unseen(r)
    BY <1>9 DEF Unseen
  <2>2. \A r \in listable : before = Top \/ Unseen(r) => OnOrAfter(r, listReports(before))
    BY <1>12, <1>13
  <2>3. PICK rows : rows = listReports(before)
    OBVIOUS
  <2>4. PICK from : from = before
    OBVIOUS
  <2>5. \A r \in listable : from = Top \/ Unseen(r) => OnOrAfter(r, rows)
    BY <2>2, <2>3, <2>4
  <2>6. request'.rows = rows /\ request'.before = from /\ request'.stage = "listed"
    BY <1>8, <2>3, <2>4
  <2> QED BY <1>10, <2>1, <2>5, <2>6 DEF RequestLeads, OnOrAfter, Further
<1>15. pass'.there \subseteq issued' /\ request'.there \subseteq issued'
  BY <1>2, <1>8, <1>9 DEF DeskInv
<1>16. (connected => \A r \in listable : Unseen(r) => Further(r, displayed))'
  BY <1>9, <1>10 DEF DeskInv, Unseen
<1> QED BY <1>11, <1>14, <1>15, <1>16 DEF DeskInv

(* The answer is shown, or there is none.                                  *)
LEMMA ShowsThePage ==
  ASSUME DeskInv, Shows, UNCHANGED moderationVars
  PROVE  DeskInv'
<1>1. request \in DeskRequest /\ request.stage = "listed" /\ waiting /\ IsFiniteSet(request.rows) /\ pass \in Pass
  BY DEF Shows, DeskInv, DeskType, NoRequest, waiting
<1>2. request.rows \subseteq Row /\ request.there \subseteq ReportIds /\ idsOf(request.rows) \subseteq ReportIds
  BY <1>1 DEF DeskRequest, idsOf, Row
<1>3. displayed' = request.rows /\ connected' = TRUE /\ request' = NoRequest /\ given' = given
  BY DEF Shows
<1>4. UNCHANGED <<reports, clock, issued>>
  BY DEF moderationVars
<1>5. listable' = listable
  BY <1>4 DEF listable, recent
<1>6. pass' \in Pass /\ pass'.there \subseteq issued
  <2>1. CASE request.before = Top
    BY <1>1, <1>2, <2>1 DEF Shows, Pass, DeskInv
  <2>2. CASE request.before # Top
    BY <1>1, <1>2, <2>2 DEF Shows, Pass, DeskInv
  <2> QED BY <2>1, <2>2
<1>7. DeskType'
  BY <1>1, <1>2, <1>3, <1>6 DEF DeskInv, DeskType, waiting
<1>8. ASSUME NEW r \in listable, r.id \in pass'.there, r.id \notin pass'.seen PROVE Further(r, request.rows)
  <2>1. r.id \notin idsOf(request.rows) /\ OnOrAfter(r, request.rows)
    <3>1. CASE request.before = Top
      BY <1>1, <1>8, <3>1 DEF Shows, DeskInv, RequestLeads
    <3>2. CASE request.before # Top
      <4>1. pass'.there = pass.there /\ pass'.seen = pass.seen \cup idsOf(request.rows)
        BY <1>1, <3>2 DEF Shows, Pass
      <4> QED BY <1>1, <1>8, <3>2, <4>1 DEF DeskInv, RequestLeads, Unseen
    <3> QED BY <3>1, <3>2
  <2> QED BY <2>1 DEF OnOrAfter, idsOf
<1>9. (connected => \A r \in listable : Unseen(r) => Further(r, displayed))'
  BY <1>3, <1>5, <1>8 DEF Unseen, Further
<1> QED BY <1>3, <1>4, <1>6, <1>7, <1>9 DEF DeskInv, waiting

LEMMA NoAnswer ==
  ASSUME DeskInv, CallFails, UNCHANGED moderationVars
  PROVE  DeskInv'
<1>1. request' = NoRequest /\ UNCHANGED <<given, connected, displayed, pass, reports, clock, issued>>
  BY DEF CallFails, moderationVars
<1>2. listable' = listable
  BY <1>1 DEF listable, recent
<1>3. DeskType'
  BY <1>1 DEF DeskInv, DeskType, waiting
<1> QED BY <1>1, <1>2, <1>3 DEF DeskInv, waiting, Unseen

(* What the page brings about on the server is what operators do there.    *)
LEMMA DeskOperates ==
  ASSUME ModerationInv, DeskInv, DeskNext
  PROVE  [ModerationNext]_moderationVars
<1>1. request \in DeskRequest \cup {NoRequest}
  BY DEF DeskInv, DeskType
<1>2. CASE RulesOnReport \/ RuledBefore
  <2>1. request.first.kind = "resolve" /\ request.stage = "ruling"
    BY <1>2 DEF RulesOnReport, RuledBefore
  <2>2. request \in DeskRequest
    BY <1>1, <2>1 DEF NoRequest
  <2>3. request.first \in RulingOnReport
    BY <2>1, <2>2 DEF DeskRequest, NoRuling, RulingOnAccount
  <2>4. PICK resolution \in {"dismissed", "actioned"} : resolution = request.first.resolution
    BY <2>3 DEF RulingOnReport
  <2>5. \E r \in reports : ResolveReport(r, resolution) \/ ResolvedBefore(r, resolution)
    BY <1>2, <2>4 DEF RulesOnReport, RuledBefore, reportOf
  <2> QED BY <2>5 DEF ModerationNext
<1>3. CASE RulesOnAccount
  <2>1. request.first.kind = "suspend" /\ request.stage = "ruling"
    BY <1>3 DEF RulesOnAccount
  <2>2. request \in DeskRequest
    BY <1>1, <2>1 DEF NoRequest
  <2>3. request.first \in RulingOnAccount
    BY <2>1, <2>2 DEF DeskRequest, NoRuling, RulingOnReport
  <2>4. request.first.user \in Users /\ request.first.suspended \in BOOLEAN
    BY <2>3 DEF RulingOnAccount
  <2> QED BY <1>3, <2>4 DEF RulesOnAccount, ModerationNext, Operating
<1> QED BY <1>2, <1>3 DEF DeskNext

LEMMA DeskBegins == ModerationInit /\ DeskInit => DeskInv
<1> SUFFICES ASSUME ModerationInit, DeskInit PROVE DeskInv
  OBVIOUS
<1>1. IsFiniteSet({})
  BY FS_EmptySet
<1>2. DeskType
  BY <1>1 DEF DeskInit, DeskType, waiting, Pass
<1> QED BY <1>2 DEF DeskInv, DeskInit, waiting

LEMMA DeskStep == ModerationInv /\ DeskInv /\ [DeskNext]_<<moderationVars, deskVars>> => DeskInv' /\ [ModerationNext]_moderationVars
<1> SUFFICES ASSUME ModerationInv, DeskInv, [DeskNext]_<<moderationVars, deskVars>>
             PROVE  DeskInv' /\ [ModerationNext]_moderationVars
  OBVIOUS
<1>1. [ModerationNext]_moderationVars
  BY DeskOperates
<1>2. Lingering
  BY <1>1, ReportsLinger
<1>3. CASE AtThePage /\ UNCHANGED moderationVars
  <2>1. CASE \E some \in BOOLEAN : Type(some)
    BY <1>2, <1>3, <2>1, TypeOrDisconnect
  <2>2. CASE Disconnect
    BY <1>2, <1>3, <2>2, TypeOrDisconnect DEF Disconnect
  <2>3. CASE Refresh
    BY <1>3, <2>3, AsksForTheNewest DEF Refresh
  <2>4. CASE Older
    BY <1>3, <2>4, AsksForOlder
  <2>5. CASE \E first \in RulingOnReport \cup RulingOnAccount : Rule(first)
    BY <1>3, <2>5, AsksForTheNewest DEF Rule
  <2>6. CASE Lists
    BY <1>3, <2>6, ListsAPage
  <2>7. CASE Shows
    BY <1>3, <2>7, ShowsThePage
  <2>8. CASE CallFails
    BY <1>3, <2>8, NoAnswer
  <2> QED BY <1>3, <2>1, <2>2, <2>3, <2>4, <2>5, <2>6, <2>7, <2>8 DEF AtThePage
<1>4. CASE RulesOnReport \/ RuledBefore \/ RulesOnAccount
  BY <1>1, <1>2, <1>4, RulingGoesOn DEF RulesOnReport, RuledBefore, RulesOnAccount
<1>5. CASE UNCHANGED deskVars
  BY <1>1, <1>2, <1>5, OthersAct
<1> QED BY <1>1, <1>3, <1>4, <1>5 DEF DeskNext

(* The page does nothing on the server that Moderation does not describe:  *)
(* rulings made on what a page showed, which is old by then, are rulings.  *)
THEOREM DeskIsOneOperator == DeskSpec => ModerationSpec
<1>1. DeskSpec => [](ModerationInv /\ DeskInv)
  <2>1. ModerationInit /\ DeskInit => ModerationInv /\ DeskInv
    BY ModerationBegins, DeskBegins
  <2>2. ModerationInv /\ DeskInv /\ [DeskNext]_<<moderationVars, deskVars>> => (ModerationInv /\ DeskInv)'
    BY ModerationStep, DeskStep
  <2> QED BY <2>1, <2>2, PTL DEF DeskSpec
<1>2. ModerationInv /\ DeskInv /\ [DeskNext]_<<moderationVars, deskVars>> => [ModerationNext]_moderationVars
  BY DeskStep
<1> QED BY <1>1, <1>2, PTL DEF DeskSpec, ModerationSpec

(* OperatorDesk!PagesMissNothing: an operator who is on a page that is not *)
(* full has been shown every open report there was when the first page was *)
(* read, for any number of reports, any length of a page and any order of  *)
(* moments.                                                                *)
THEOREM PagesMissNothingHolds == DeskSpec => []PagesMissNothing
<1> USE DeskAssumption
<1>1. DeskInv => PagesMissNothing
  <2> SUFFICES ASSUME DeskInv, connected, Cardinality(displayed) < PageSize,
                      NEW r \in listable, Unseen(r)
               PROVE  FALSE
    BY DEF PagesMissNothing, Unseen
  <2>1. Cardinality(displayed) >= PageSize
    BY DEF DeskInv, Further
  <2>2. Cardinality(displayed) \in Nat
    BY FS_CardinalityType DEF DeskInv, DeskType
  <2> QED BY <2>1, <2>2
<1>2. ModerationInit /\ DeskInit => ModerationInv /\ DeskInv
  BY ModerationBegins, DeskBegins
<1>3. ModerationInv /\ DeskInv /\ [DeskNext]_<<moderationVars, deskVars>> => (ModerationInv /\ DeskInv)'
  BY ModerationStep, DeskStep
<1> QED BY <1>1, <1>2, <1>3, PTL DEF DeskSpec
=============================================================================
