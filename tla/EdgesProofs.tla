------------------------------ MODULE EdgesProofs ------------------------------
(****************************************************************************)
(* Proofs about accounts and sessions, the rate limiter, recurring tasks    *)
(* and the task board, for every number of people, tokens, requests,        *)
(* clients, templates and cards: the types of accounts, that a session is   *)
(* of an account that exists and of its present password, that the setup    *)
(* page makes one administrator at most; that the limiter lets no more than *)
(* two allowances pass in a window's time; that a date has one child. The   *)
(* board and the chat have proofs of their own, which are taken up here.    *)
(****************************************************************************)
EXTENDS MCEdges, Sequences, FiniteSetTheorems, WellFoundedInduction, TLAPS

--------------------------------------------------------------------------------
(* Rows and those that are none. *)
LEMMA ExistingRow ==
  ASSUME TypeOK, NEW a, Exists(a)
  PROVE  a \in Ids /\ account[a] \in Accounts
BY DEF TypeOK, Exists

LEMMA LiveRow ==
  ASSUME TypeOK, NEW k \in Tokens, Live(k)
  PROVE  session[k] \in [account : Ids, changes : 0..MaxChanges]
BY DEF TypeOK, Live

LEMMA NotRows ==
  /\ NoAccount \notin Accounts
  /\ Api \notin Ids
  /\ NoSession \notin [account : Ids, changes : 0..MaxChanges]
  /\ Idle \notin [op : {"admin", "password", "setup"}, by : Ids \cup {Api}]
BY AccessAssumption DEF NoAccount, Accounts, NoSession, Api, Ids, Idle

(* The least of some accounts is one of them: they are numbered. *)
LEMMA LeastIsOne ==
  ASSUME NEW S \in SUBSET Ids, S # {}
  PROVE  Least(S) \in S
<1>1. S \subseteq Nat
  BY DEF Ids
<1>2. \E a \in S : \A b \in S : <<b, a>> \notin OpToRel(<, Nat)
  BY <1>1, WFMin, NatLessThanWellFounded
<1>3. ASSUME NEW a \in S, NEW b \in S, <<b, a>> \notin OpToRel(<, Nat)
      PROVE  a <= b
  <2>1. a \in Nat /\ b \in Nat /\ <<b, a>> \in Nat \X Nat
    BY <1>1
  <2>2. ~(<<b, a>>[1] < <<b, a>>[2])
    BY <1>3, <2>1, Zenon DEF OpToRel
  <2> QED BY <2>1, <2>2
<1>4. \E a \in S : \A b \in S : a <= b
  BY <1>2, <1>3
<1> QED BY <1>4 DEF Least

--------------------------------------------------------------------------------
(* What a step may do to the users table. *)
Kept == UNCHANGED <<account, nextId>>

Inserted ==
  /\ nextId <= MaxAccounts
  /\ nextId' = nextId + 1
  /\ \E row \in Accounts :
       /\ account' = [account EXCEPT ![nextId] = row]
       /\ row.setup => NoUsers

Edited ==
  /\ UNCHANGED nextId
  /\ \E a \in Ids : \E row \in Accounts :
       /\ Exists(a)
       /\ row.setup = account[a].setup
       /\ account' = [account EXCEPT ![a] = row]

Deleted ==
  /\ UNCHANGED nextId
  /\ \E a \in Ids : account' = [account EXCEPT ![a] = NoAccount]

(* What an administrator may change keeps the rest of a row. *)
LEMMA ChangedRow ==
  ASSUME NEW a, account[a] \in Accounts, NEW x \in BOOLEAN,
         NEW row \in Changed(a) \cup {[account[a] EXCEPT !.admin = x]}
  PROVE  row \in Accounts /\ row.setup = account[a].setup /\ row.changes = account[a].changes
<1> DEFINE old == account[a]
<1>1. /\ old \in [person : Persons, email : BOOLEAN, provider : {"local", "google"},
                  admin : BOOLEAN, approved : BOOLEAN, known : BOOLEAN,
                  setup : BOOLEAN, changes : 0..MaxChanges]
      /\ \/ row = [old EXCEPT !.email = TRUE]
         \/ row = [old EXCEPT !.known = TRUE]
         \/ \E y \in BOOLEAN : row = [old EXCEPT !.approved = y]
         \/ row = [old EXCEPT !.admin = x]
  BY DEF Accounts, Changed
<1> HIDE DEF old
<1>2. CASE row = [old EXCEPT !.email = TRUE]
  BY <1>1, <1>2 DEF Accounts, old
<1>3. CASE row = [old EXCEPT !.known = TRUE]
  BY <1>1, <1>3 DEF Accounts, old
<1>4. ASSUME NEW y \in BOOLEAN, row = [old EXCEPT !.approved = y]
      PROVE  row \in Accounts /\ row.setup = old.setup /\ row.changes = old.changes
  BY <1>1, <1>4 DEF Accounts
<1>5. CASE row = [old EXCEPT !.admin = x]
  BY <1>1, <1>5 DEF Accounts, old
<1> QED BY <1>1, <1>2, <1>3, <1>4, <1>5 DEF old

LEMMA NewAccountType ==
  ASSUME NEW p \in Persons, NEW e \in BOOLEAN, NEW v \in {"local", "google"},
         NEW d \in BOOLEAN, NEW w \in BOOLEAN
  PROVE  /\ NewAccount(p, e, v, d, w) \in Accounts
         /\ ~NewAccount(p, e, v, d, w).setup
         /\ [NewAccount(p, e, v, d, w) EXCEPT !.setup = TRUE] \in Accounts
<1>1. 0 \in 0..MaxChanges
  BY AccessAssumption
<1>2. NewAccount(p, e, v, d, w) \in Accounts
  BY <1>1 DEF NewAccount, Accounts
<1>3. NewAccount(p, e, v, d, w).setup = FALSE
  BY DEF NewAccount
<1>4. [NewAccount(p, e, v, d, w) EXCEPT !.setup = TRUE] \in Accounts
  BY <1>2 DEF Accounts
<1> QED BY <1>2, <1>3, <1>4

(* The disjuncts of Next, by what they do to the table. *)
LEMMA AccountStep ==
  ASSUME TypeOK, SessionsAreCurrent, [Next]_vars
  PROVE  Kept \/ Inserted \/ Edited \/ Deleted
<1>1. CASE UNCHANGED vars
  BY <1>1 DEF vars, Kept
<1>2. ASSUME NEW a \in Ids, NEW k \in Tokens, Login(a, k)
      PROVE  Kept
  BY <1>2 DEF Login, Kept
<1>3. ASSUME NEW k \in Tokens, Logout(k)
      PROVE  Kept
  BY <1>3 DEF Logout, Kept
<1>4. ASSUME NEW k \in Tokens, Disconnect(k)
      PROVE  Edited
  <2> DEFINE a == session[k].account
             row == [account[a] EXCEPT !.provider = "local"]
  <2>1. Live(k) /\ Exists(a)
    BY <1>4 DEF Disconnect, SessionsAreCurrent
  <2>2. a \in Ids /\ account[a] \in Accounts
    BY <2>1, ExistingRow
  <2>3. row \in Accounts /\ row.setup = account[a].setup
    BY <2>2 DEF Accounts
  <2>4. UNCHANGED nextId /\ account' = [account EXCEPT ![a] = row]
    BY <1>4 DEF Disconnect
  <2> QED BY <2>1, <2>2, <2>3, <2>4 DEF Edited
<1>5. ASSUME NEW p \in Persons, NEW k \in Tokens, GoogleSignIn(p, k)
      PROVE  Kept
  BY <1>5 DEF GoogleSignIn, Kept
<1>6. ASSUME NEW c \in Clients,
             \/ \E by \in Ids \cup {Api} : BeginAdmin(c, by)
             \/ \E by \in Ids : BeginPassword(c, by)
             \/ BeginSetup(c)
             \/ Refuse(c)
             \/ \E p \in Persons : Reject(c, p)
      PROVE  Kept
  BY <1>6 DEF BeginAdmin, BeginPassword, BeginSetup, Begin, Refuse, Reject, Kept
<1>7. ASSUME NEW c \in Clients, NEW p \in Persons, NEW form \in Forms, CreateUser(c, p, form)
      PROVE  Inserted
  <2> DEFINE row == NewAccount(p, form.email, form.provider, form.admin, TRUE)
  <2>1. row \in Accounts /\ ~row.setup
    BY AccessAssumption, NewAccountType
  <2> QED BY <1>7, <2>1 DEF CreateUser, createUser, Inserted
<1>8. ASSUME NEW c \in Clients, NEW a \in Ids, UpdateUser(c, a)
      PROVE  Edited
  <2>1. Exists(a) /\ account[a] \in Accounts
    BY <1>8, ExistingRow DEF UpdateUser
  <2>2. ASSUME NEW x \in BOOLEAN,
               NEW row \in Changed(a) \cup {[account[a] EXCEPT !.admin = x]}
        PROVE  row \in Accounts /\ row.setup = account[a].setup
    BY <2>1, <2>2, ChangedRow
  <2>3. \E row \in Accounts : row.setup = account[a].setup
                              /\ account' = [account EXCEPT ![a] = row]
    BY <1>8, <2>2 DEF UpdateUser
  <2> QED BY <1>8, <2>1, <2>3 DEF UpdateUser, Edited
<1>9. ASSUME NEW c \in Clients, NEW a \in Ids, DeleteUser(c, a)
      PROVE  Deleted
  BY <1>9 DEF DeleteUser, Deleted
<1>10. ASSUME NEW c \in Clients, NEW p \in Persons, NEW admin \in BOOLEAN,
              Approve(c, p, admin)
       PROVE  Inserted \/ Edited
  <2> DEFINE same == {a \in Ids : Exists(a) /\ account[a].person = p /\ account[a].email}
             new == NewAccount(p, TRUE, "google", admin, FALSE)
             a == Least(same)
             row == [account[a] EXCEPT !.provider = "google", !.approved = TRUE,
                                       !.admin = admin]
  <2>1. CASE same = {}
    <3>1. createUser(new)
      BY <1>10, <2>1 DEF Approve
    <3>2. new \in Accounts /\ ~new.setup
      BY NewAccountType
    <3> QED BY <3>1, <3>2 DEF createUser, Inserted
  <2>2. CASE same # {}
    <3>1. a \in Ids /\ Exists(a) /\ account[a] \in Accounts
      BY <2>2, LeastIsOne, ExistingRow
    <3>2. account' = [account EXCEPT ![a] = row] /\ UNCHANGED nextId
      BY <1>10, <2>2 DEF Approve
    <3>3. row \in Accounts /\ row.setup = account[a].setup
      BY <3>1 DEF Accounts
    <3> QED BY <3>1, <3>2, <3>3 DEF Edited
  <2> QED BY <2>1, <2>2
<1>11. ASSUME NEW c \in Clients, NEW k \in Tokens, ChangePassword(c, k)
       PROVE  Edited
  <2> DEFINE a == pending[c].by
             row == [account[a] EXCEPT !.changes = @ + 1]
  <2>1. /\ Exists(a) /\ account[a].changes < MaxChanges
        /\ UNCHANGED nextId /\ account' = [account EXCEPT ![a] = row]
    BY <1>11 DEF ChangePassword
  <2>2. a \in Ids /\ account[a] \in Accounts
    BY <2>1, ExistingRow
  <2>3. row \in Accounts /\ row.setup = account[a].setup
    BY <2>1, <2>2, AccessAssumption DEF Accounts
  <2> QED BY <2>1, <2>2, <2>3 DEF Edited
<1>12. ASSUME NEW c \in Clients, NEW p \in Persons, NEW k \in Tokens, Setup(c, p, k)
       PROVE  Inserted
  <2> DEFINE row == [NewAccount(p, FALSE, "local", TRUE, TRUE) EXCEPT !.setup = TRUE]
  <2>1. row \in Accounts
    BY NewAccountType
  <2> QED BY <1>12, <2>1 DEF Setup, createUser, Inserted
<1> QED
  BY <1>1, <1>2, <1>3, <1>4, <1>5, <1>6, <1>7, <1>8, <1>9, <1>10, <1>11, <1>12 DEF Next

--------------------------------------------------------------------------------
(* The rows from nextId on were never used: no session waits for a new one.   *)
Unused == \A a \in Ids : a >= nextId => ~Exists(a)

AccessInv == TypeOK /\ Unused /\ SessionsAreCurrent

LEMMA AccountTypes ==
  ASSUME AccessInv, [Next]_vars
  PROVE  /\ account' \in [Ids -> Accounts \cup {NoAccount}]
         /\ nextId' \in 1..(MaxAccounts + 1)
         /\ Unused'
<1>1. Kept \/ Inserted \/ Edited \/ Deleted
  BY AccountStep DEF AccessInv
<1>2. CASE Kept
  BY <1>2 DEF Kept, AccessInv, TypeOK, Unused, Exists
<1>3. CASE Inserted
  BY <1>3, AccessAssumption DEF Inserted, AccessInv, TypeOK, Unused, Exists, Ids
<1>4. CASE Edited
  BY <1>4, AccessAssumption DEF Edited, AccessInv, TypeOK, Unused, Exists, Ids
<1>5. CASE Deleted
  BY <1>5, AccessAssumption DEF Deleted, AccessInv, TypeOK, Unused, Exists, Ids
<1> QED BY <1>1, <1>2, <1>3, <1>4, <1>5

(* What the invariant asks of one token, and what a step leaves to the        *)
(* sessions it does not touch.                                                *)
Opened == [account : Ids, changes : 0..MaxChanges]

SessionOK(k) ==
  Live(k) =>
    /\ session[k] \in Opened
    /\ Exists(session[k].account)
    /\ session[k].changes = account[session[k].account].changes

Carried(a) == Exists(a) => Exists(a)' /\ account'[a].changes = account[a].changes

LEMMA SessionOKNow ==
  ASSUME AccessInv, NEW k \in Tokens
  PROVE  SessionOK(k) /\ (~Live(k) => session[k] = NoSession)
BY LiveRow DEF AccessInv, SessionsAreCurrent, SessionOK, Live, Opened

LEMMA StillOK ==
  ASSUME AccessInv, NEW k \in Tokens, session'[k] = session[k],
         Live(k) => Carried(session[k].account)
  PROVE  SessionOK(k)'
BY SessionOKNow DEF SessionOK, Carried, Live

LEMMA GoneIsOK ==
  ASSUME NEW k \in Tokens, session'[k] = NoSession
  PROVE  SessionOK(k)'
BY DEF SessionOK, Live

LEMMA NewIsOK ==
  ASSUME NEW k \in Tokens, NEW a \in Ids, account'[a] \in Accounts,
         session'[k] = SessionOf(a, account'[a].changes)
  PROVE  SessionOK(k)'
BY NotRows DEF SessionOK, SessionOf, Opened, Exists, Accounts

(* A step that touches no password and deletes nothing carries all accounts.  *)
LEMMA OthersCarried ==
  ASSUME AccessInv, Kept \/ Inserted, NEW a
  PROVE  Carried(a)
<1>1. CASE Kept
  BY <1>1 DEF Kept, Carried, Exists
<1>2. CASE Inserted
  <2>1. nextId \in Ids /\ ~Exists(nextId)
    BY <1>2, AccessAssumption DEF AccessInv, Unused, TypeOK, Inserted, Ids
  <2>2. Exists(a) => a # nextId /\ a \in Ids /\ account'[a] = account[a]
    BY <1>2, <2>1 DEF Inserted, AccessInv, TypeOK, Exists
  <2> QED BY <2>2 DEF Carried, Exists
<1> QED BY <1>1, <1>2

LEMMA EditCarries ==
  ASSUME AccessInv, NEW a \in Ids, Exists(a), NEW row \in Accounts,
         row.changes = account[a].changes, account' = [account EXCEPT ![a] = row], NEW b
  PROVE  Carried(b)
BY NotRows DEF AccessInv, TypeOK, Carried, Exists

LEMMA ElsewhereCarried ==
  ASSUME AccessInv, NEW a, NEW row, account' = [account EXCEPT ![a] = row], NEW b, b # a
  PROVE  Carried(b)
<1>1. ASSUME Exists(b)
      PROVE  account'[b] = account[b]
  BY <1>1 DEF AccessInv, TypeOK, Exists
<1> QED BY <1>1 DEF Carried, Exists

(* A session that is opened beside the others, for an account that exists.    *)
LEMMA OpenedBeside ==
  ASSUME AccessInv, NEW k \in Tokens, NEW a \in Ids, account'[a] \in Accounts,
         session' = [session EXCEPT ![k] = SessionOf(a, account'[a].changes)],
         \A b : Carried(b)
  PROVE  \A t \in Tokens : SessionOK(t)'
<1>1. ASSUME NEW t \in Tokens, t = k
      PROVE  SessionOK(t)'
  BY <1>1, NewIsOK DEF AccessInv, TypeOK
<1>2. ASSUME NEW t \in Tokens, t # k
      PROVE  SessionOK(t)'
  BY <1>2, StillOK DEF AccessInv, TypeOK
<1> QED BY <1>1, <1>2

LEMMA NoneTouched ==
  ASSUME AccessInv, UNCHANGED session, \A b : Carried(b)
  PROVE  \A t \in Tokens : SessionOK(t)'
BY StillOK

LEMMA SessionStep ==
  ASSUME AccessInv, [Next]_vars
  PROVE  \A t \in Tokens : SessionOK(t)'
<1>1. CASE UNCHANGED vars
  BY <1>1, OthersCarried, NoneTouched DEF vars, Kept
<1>2. ASSUME NEW a \in Ids, NEW k \in Tokens, Login(a, k)
      PROVE  \A t \in Tokens : SessionOK(t)'
  <2>1. Kept /\ Exists(a) /\ session' = [session EXCEPT ![k] = SessionOf(a, account[a].changes)]
    BY <1>2 DEF Login, Kept, Authenticates, createSession
  <2>2. account'[a] \in Accounts /\ account'[a].changes = account[a].changes
    BY <2>1, ExistingRow DEF Kept, AccessInv
  <2> QED BY <2>1, <2>2, OthersCarried, OpenedBeside
<1>3. ASSUME NEW k \in Tokens, Logout(k)
      PROVE  \A t \in Tokens : SessionOK(t)'
  <2>1. Kept /\ session' = [session EXCEPT ![k] = NoSession]
    BY <1>3 DEF Logout, Kept
  <2>2. session'[k] = NoSession /\ \A t \in Tokens : t # k => session'[t] = session[t]
    BY <2>1 DEF AccessInv, TypeOK
  <2> QED BY <2>1, <2>2, OthersCarried, StillOK, GoneIsOK
<1>4. ASSUME NEW k \in Tokens, Disconnect(k)
      PROVE  \A t \in Tokens : SessionOK(t)'
  <2> DEFINE a == session[k].account
             row == [account[a] EXCEPT !.provider = "local"]
  <2>1. Exists(a) /\ UNCHANGED session /\ account' = [account EXCEPT ![a] = row]
    BY <1>4 DEF Disconnect, AccessInv, SessionsAreCurrent
  <2>2. a \in Ids /\ account[a] \in Accounts
    BY <2>1, ExistingRow DEF AccessInv
  <2>3. row \in Accounts /\ row.changes = account[a].changes
    BY <2>2 DEF Accounts
  <2> HIDE DEF a, row
  <2> QED BY <2>1, <2>2, <2>3, EditCarries, NoneTouched
<1>5. ASSUME NEW p \in Persons, NEW k \in Tokens, GoogleSignIn(p, k)
      PROVE  \A t \in Tokens : SessionOK(t)'
  <2> DEFINE a == Least(GoogleAccounts(p))
  <2>1. Kept
    BY <1>5 DEF GoogleSignIn, Kept
  <2>2. CASE UNCHANGED session
    BY <2>1, <2>2, OthersCarried, NoneTouched
  <2>3. CASE GoogleAccounts(p) # {} /\ createSession(a, k)
    <3>1. a \in Ids /\ Exists(a)
      BY <2>3, LeastIsOne DEF GoogleAccounts
    <3>2. account'[a] \in Accounts /\ account'[a].changes = account[a].changes
      BY <2>1, <3>1, ExistingRow DEF Kept, AccessInv
    <3>3. session' = [session EXCEPT ![k] = SessionOf(a, account[a].changes)]
      BY <2>3 DEF createSession
    <3> HIDE DEF a
    <3> QED BY <2>1, <3>1, <3>2, <3>3, OthersCarried, OpenedBeside
  <2> QED BY <1>5, <2>2, <2>3 DEF GoogleSignIn
<1>6. ASSUME NEW c \in Clients,
             \/ \E by \in Ids \cup {Api} : BeginAdmin(c, by)
             \/ \E by \in Ids : BeginPassword(c, by)
             \/ BeginSetup(c)
             \/ Refuse(c)
             \/ \E p \in Persons : Reject(c, p)
      PROVE  \A t \in Tokens : SessionOK(t)'
  <2>1. Kept /\ UNCHANGED session
    BY <1>6 DEF BeginAdmin, BeginPassword, BeginSetup, Begin, Refuse, Reject, Kept
  <2> QED BY <2>1, OthersCarried, NoneTouched
<1>7. ASSUME NEW c \in Clients, NEW p \in Persons, NEW form \in Forms, CreateUser(c, p, form)
      PROVE  \A t \in Tokens : SessionOK(t)'
  <2> DEFINE row == NewAccount(p, form.email, form.provider, form.admin, TRUE)
  <2>1. row \in Accounts /\ ~row.setup
    BY AccessAssumption, NewAccountType
  <2>2. Inserted /\ UNCHANGED session
    BY <1>7, <2>1 DEF CreateUser, createUser, Inserted
  <2> QED BY <2>2, OthersCarried, NoneTouched
<1>8. ASSUME NEW c \in Clients, NEW a \in Ids, UpdateUser(c, a)
      PROVE  \A t \in Tokens : SessionOK(t)'
  <2>1. Exists(a) /\ account[a] \in Accounts
    BY <1>8, ExistingRow DEF UpdateUser, AccessInv
  <2>2. ASSUME NEW x \in BOOLEAN,
               NEW row \in Changed(a) \cup {[account[a] EXCEPT !.admin = x]}
        PROVE  row \in Accounts /\ row.changes = account[a].changes
    BY <2>1, <2>2, ChangedRow
  <2>3. \E row \in Accounts : row.changes = account[a].changes
                              /\ account' = [account EXCEPT ![a] = row]
    BY <1>8, <2>2 DEF UpdateUser
  <2>4. UNCHANGED session
    BY <1>8 DEF UpdateUser
  <2> QED BY <2>1, <2>3, <2>4, EditCarries, NoneTouched
<1>9. ASSUME NEW c \in Clients, NEW a \in Ids, DeleteUser(c, a)
      PROVE  \A t \in Tokens : SessionOK(t)'
  <2>1. session' = WithoutSessions(a) /\ account' = [account EXCEPT ![a] = NoAccount]
    BY <1>9 DEF DeleteUser
  <2>2. ASSUME NEW t \in Tokens, session[t].account = a
        PROVE  SessionOK(t)'
    BY <2>1, <2>2, GoneIsOK DEF WithoutSessions
  <2>3. ASSUME NEW t \in Tokens, session[t].account # a
        PROVE  SessionOK(t)'
    <3>1. session'[t] = session[t]
      BY <2>1, <2>3 DEF WithoutSessions
    <3>2. Carried(session[t].account)
      BY <2>1, <2>3, ElsewhereCarried
    <3> QED BY <3>1, <3>2, StillOK
  <2> QED BY <2>2, <2>3
<1>10. ASSUME NEW c \in Clients, NEW p \in Persons, NEW admin \in BOOLEAN,
              Approve(c, p, admin)
       PROVE  \A t \in Tokens : SessionOK(t)'
  <2> DEFINE same == {a \in Ids : Exists(a) /\ account[a].person = p /\ account[a].email}
             new == NewAccount(p, TRUE, "google", admin, FALSE)
             a == Least(same)
             row == [account[a] EXCEPT !.provider = "google", !.approved = TRUE,
                                       !.admin = admin]
  <2>1. UNCHANGED session
    BY <1>10 DEF Approve
  <2>2. CASE same = {}
    <3>1. createUser(new)
      BY <1>10, <2>2 DEF Approve
    <3>2. new \in Accounts /\ ~new.setup
      BY NewAccountType
    <3>3. Inserted
      BY <3>1, <3>2 DEF createUser, Inserted
    <3> QED BY <2>1, <3>3, OthersCarried, NoneTouched
  <2>3. CASE same # {}
    <3>1. a \in Ids /\ Exists(a) /\ account[a] \in Accounts
      BY <2>3, LeastIsOne, ExistingRow DEF AccessInv
    <3>2. account' = [account EXCEPT ![a] = row]
      BY <1>10, <2>3 DEF Approve
    <3>3. row \in Accounts /\ row.changes = account[a].changes
      BY <3>1 DEF Accounts
    <3> HIDE DEF a, row
    <3> QED BY <2>1, <3>1, <3>2, <3>3, EditCarries, NoneTouched
  <2> QED BY <2>2, <2>3
<1>11. ASSUME NEW c \in Clients, NEW k \in Tokens, ChangePassword(c, k)
       PROVE  \A t \in Tokens : SessionOK(t)'
  <2> DEFINE a == pending[c].by
             row == [account[a] EXCEPT !.changes = @ + 1]
  <2>1. /\ Exists(a) /\ account[a].changes < MaxChanges
        /\ account' = [account EXCEPT ![a] = row]
        /\ session' = [WithoutSessions(a) EXCEPT ![k] = SessionOf(a, account[a].changes + 1)]
    BY <1>11 DEF ChangePassword
  <2>2. a \in Ids /\ account[a] \in Accounts
    BY <2>1, ExistingRow DEF AccessInv
  <2>3. row \in Accounts /\ row.changes = account[a].changes + 1
    BY <2>1, <2>2, AccessAssumption DEF Accounts
  <2> HIDE DEF a, row
  <2>4. account'[a] = row
    BY <2>1, <2>2 DEF AccessInv, TypeOK
  <2>5. ASSUME NEW t \in Tokens, t = k
        PROVE  SessionOK(t)'
    BY <2>1, <2>2, <2>3, <2>4, <2>5, NewIsOK DEF WithoutSessions
  <2>6. ASSUME NEW t \in Tokens, t # k, session[t].account = a
        PROVE  SessionOK(t)'
    BY <2>1, <2>6, GoneIsOK DEF WithoutSessions
  <2>7. ASSUME NEW t \in Tokens, t # k, session[t].account # a
        PROVE  SessionOK(t)'
    <3>1. session'[t] = session[t]
      BY <2>1, <2>7 DEF WithoutSessions
    <3>2. Carried(session[t].account)
      BY <2>1, <2>7, ElsewhereCarried
    <3> QED BY <3>1, <3>2, StillOK
  <2> QED BY <2>5, <2>6, <2>7
<1>12. ASSUME NEW c \in Clients, NEW p \in Persons, NEW k \in Tokens, Setup(c, p, k)
       PROVE  \A t \in Tokens : SessionOK(t)'
  <2> DEFINE row == [NewAccount(p, FALSE, "local", TRUE, TRUE) EXCEPT !.setup = TRUE]
  <2>1. row \in Accounts /\ row.changes = 0
    BY NewAccountType DEF NewAccount
  <2>2. /\ Inserted /\ account' = [account EXCEPT ![nextId] = row]
        /\ session' = [session EXCEPT ![k] = SessionOf(nextId, 0)]
    BY <1>12, <2>1 DEF Setup, createUser, Inserted
  <2> HIDE DEF row
  <2>3. nextId \in Ids /\ account'[nextId] = row
    BY <2>2, AccessAssumption DEF Inserted, AccessInv, TypeOK, Ids
  <2> QED BY <2>1, <2>2, <2>3, OthersCarried, OpenedBeside
<1> QED
  BY <1>1, <1>2, <1>3, <1>4, <1>5, <1>6, <1>7, <1>8, <1>9, <1>10, <1>11, <1>12 DEF Next

--------------------------------------------------------------------------------
(* Every handler leaves a table of sessions, keeps the decisions on requests  *)
(* and lets a request in flight name its caller.                              *)
LEMMA OtherTypes ==
  ASSUME AccessInv, [Next]_vars
  PROVE  /\ session' = [t \in Tokens |-> session'[t]]
         /\ request' \in [Persons -> {"none", "pending", "approved", "rejected"}]
         /\ pending' \in [Clients -> [op : {"admin", "password", "setup"}, by : Ids \cup {Api}]
                                      \cup {Idle}]
<1> USE DEF AccessInv, TypeOK
<1>1. CASE UNCHANGED vars
  BY <1>1 DEF vars
<1>2. ASSUME NEW a \in Ids, NEW k \in Tokens, Login(a, k)
      PROVE  session' = [t \in Tokens |-> session'[t]] /\ UNCHANGED <<request, pending>>
  BY <1>2 DEF Login, createSession
<1>3. ASSUME NEW k \in Tokens, Logout(k) \/ Disconnect(k)
      PROVE  session' = [t \in Tokens |-> session'[t]] /\ UNCHANGED <<request, pending>>
  BY <1>3 DEF Logout, Disconnect
<1>4. ASSUME NEW p \in Persons, NEW k \in Tokens, GoogleSignIn(p, k)
      PROVE  /\ session' = [t \in Tokens |-> session'[t]]
             /\ request' \in [Persons -> {"none", "pending", "approved", "rejected"}]
             /\ UNCHANGED pending
  BY <1>4 DEF GoogleSignIn, createSession
<1>5. ASSUME NEW c \in Clients,
             \/ \E by \in Ids \cup {Api} : BeginAdmin(c, by)
             \/ \E by \in Ids : BeginPassword(c, by)
             \/ BeginSetup(c)
      PROVE  /\ UNCHANGED <<session, request>>
             /\ pending' \in [Clients -> [op : {"admin", "password", "setup"},
                                          by : Ids \cup {Api}] \cup {Idle}]
  BY <1>5 DEF BeginAdmin, BeginPassword, BeginSetup, Begin
<1>6. ASSUME NEW c \in Clients,
             \/ Refuse(c)
             \/ \E p \in Persons : Reject(c, p)
             \/ \E p \in Persons, form \in Forms : CreateUser(c, p, form)
             \/ \E a \in Ids : UpdateUser(c, a) \/ DeleteUser(c, a)
             \/ \E p \in Persons, admin \in BOOLEAN : Approve(c, p, admin)
             \/ \E k \in Tokens : ChangePassword(c, k)
             \/ \E p \in Persons, k \in Tokens : Setup(c, p, k)
      PROVE  Answered(c)
  BY <1>6 DEF Refuse, Reject, CreateUser, UpdateUser, DeleteUser, Approve, ChangePassword, Setup
<1>7. ASSUME NEW c \in Clients, Answered(c)
      PROVE  pending' \in [Clients -> [op : {"admin", "password", "setup"},
                                       by : Ids \cup {Api}] \cup {Idle}]
  BY <1>7 DEF Answered
<1>8. ASSUME NEW c \in Clients,
             \/ Refuse(c)
             \/ \E p \in Persons, form \in Forms : CreateUser(c, p, form)
             \/ \E a \in Ids : UpdateUser(c, a)
      PROVE  UNCHANGED <<session, request>>
  BY <1>8 DEF Refuse, CreateUser, UpdateUser
<1>9. ASSUME NEW c \in Clients, NEW p \in Persons,
             Reject(c, p) \/ \E admin \in BOOLEAN : Approve(c, p, admin)
      PROVE  /\ UNCHANGED session
             /\ request' \in [Persons -> {"none", "pending", "approved", "rejected"}]
  BY <1>9 DEF Reject, Approve
<1>10. ASSUME NEW c \in Clients,
              \/ \E a \in Ids : DeleteUser(c, a)
              \/ \E k \in Tokens : ChangePassword(c, k)
              \/ \E p \in Persons, k \in Tokens : Setup(c, p, k)
       PROVE  session' = [t \in Tokens |-> session'[t]] /\ UNCHANGED request
  BY <1>10 DEF DeleteUser, ChangePassword, Setup, WithoutSessions
<1> QED
  BY <1>1, <1>2, <1>3, <1>4, <1>5, <1>6, <1>7, <1>8, <1>9, <1>10 DEF Next

LEMMA AccessStep == AccessInv /\ [Next]_vars => AccessInv'
<1> SUFFICES ASSUME AccessInv, [Next]_vars
             PROVE  AccessInv'
  OBVIOUS
<1>1. \A t \in Tokens : session'[t] \in Opened \cup {NoSession}
  BY SessionStep, OtherTypes DEF SessionOK, Live
<1>2. session' \in [Tokens -> Opened \cup {NoSession}]
  BY <1>1, OtherTypes
<1>3. TypeOK'
  BY <1>2, AccountTypes, OtherTypes DEF TypeOK, Opened
<1>4. SessionsAreCurrent'
  BY SessionStep DEF SessionOK, SessionsAreCurrent
<1> QED BY <1>3, <1>4, AccountTypes DEF AccessInv

LEMMA AccessInit == Init => AccessInv
<1> SUFFICES ASSUME Init
             PROVE  AccessInv
  OBVIOUS
<1>1. TypeOK
  BY AccessAssumption DEF Init, TypeOK
<1>2. Unused
  BY DEF Init, Unused, Exists
<1>3. SessionsAreCurrent
  BY DEF Init, SessionsAreCurrent, Live
<1> QED BY <1>1, <1>2, <1>3 DEF AccessInv

(* Every handler of accounts, sessions and requests keeps their types.        *)
THEOREM TypeCorrect == Spec => []TypeOK
<1>1. AccessInv => TypeOK
  BY DEF AccessInv
<1> QED BY <1>1, AccessInit, AccessStep, PTL DEF Spec

(* Whoever is signed in has an account and knows its password of today: a     *)
(* password change and a deletion sign out everybody else, also around the    *)
(* await of a request that was under way.                                     *)
THEOREM SessionsFollow == Spec => []SessionsAreCurrent
<1>1. AccessInv => SessionsAreCurrent
  BY DEF AccessInv
<1> QED BY <1>1, AccessInit, AccessStep, PTL DEF Spec

--------------------------------------------------------------------------------
(* The accounts of the setup page. It makes one only where there is none, and *)
(* nothing else makes one or turns an account into one.                       *)
SetupOnce ==
  \A a, b \in Ids : /\ Exists(a) /\ account[a].setup
                    /\ Exists(b) /\ account[b].setup
                    => a = b

LEMMA SetupStep ==
  ASSUME AccessInv, SetupOnce, [Next]_vars
  PROVE  SetupOnce'
<1>1. Kept \/ Inserted \/ Edited \/ Deleted
  BY AccountStep DEF AccessInv
<1>2. CASE Kept
  BY <1>2 DEF Kept, SetupOnce, Exists
<1>3. CASE Inserted
  <2>1. PICK row \in Accounts : account' = [account EXCEPT ![nextId] = row]
                                /\ (row.setup => NoUsers)
    BY <1>3 DEF Inserted
  <2>2. CASE row.setup
    <3>1. \A a \in Ids : a # nextId => ~Exists(a)'
      BY <2>1, <2>2 DEF NoUsers, AccessInv, TypeOK, Exists
    <3> QED BY <3>1 DEF SetupOnce
  <2>3. CASE ~row.setup
    <3>1. \A a \in Ids : Exists(a)' /\ account'[a].setup => Exists(a) /\ account[a].setup
      BY <2>1, <2>3 DEF AccessInv, TypeOK, Exists
    <3> QED BY <3>1 DEF SetupOnce
  <2> QED BY <2>2, <2>3
<1>4. CASE Edited
  <2>1. \A a \in Ids : Exists(a)' /\ account'[a].setup => Exists(a) /\ account[a].setup
    BY <1>4 DEF Edited, AccessInv, TypeOK, Exists
  <2> QED BY <2>1 DEF SetupOnce
<1>5. CASE Deleted
  <2>1. \A a \in Ids : Exists(a)' /\ account'[a].setup => Exists(a) /\ account[a].setup
    BY <1>5 DEF Deleted, AccessInv, TypeOK, Exists
  <2> QED BY <2>1 DEF SetupOnce
<1> QED BY <1>1, <1>2, <1>3, <1>4, <1>5

LEMMA SetupCount == SetupOnce => OneFirstAdmin
<1> SUFFICES ASSUME SetupOnce
             PROVE  OneFirstAdmin
  OBVIOUS
<1> DEFINE S == {a \in Ids : Exists(a) /\ account[a].setup}
<1>1. CASE S = {}
  BY <1>1, FS_EmptySet DEF OneFirstAdmin
<1>2. CASE S # {}
  <2>1. PICK a \in S : TRUE
    BY <1>2
  <2>2. S = {a}
    BY <2>1 DEF SetupOnce
  <2>3. Cardinality(S) = 1
    BY <2>2, FS_Singleton, Zenon
  <2> QED BY <2>3 DEF OneFirstAdmin
<1> QED BY <1>1, <1>2

(* However many setup pages are open at a time, one administrator comes of    *)
(* them: the second check and the insert have no await between them.          *)
THEOREM SetupMakesOne == Spec => []OneFirstAdmin
<1>1. Init => SetupOnce
  BY DEF Init, SetupOnce, Exists
<1>2. AccessInv /\ SetupOnce /\ [Next]_vars => SetupOnce'
  BY SetupStep
<1> QED BY <1>1, <1>2, AccessInit, AccessStep, SetupCount, PTL DEF Spec

--------------------------------------------------------------------------------
(* The calendar.                                                              *)
LEMMA Divided ==
  ASSUME NEW d \in Nat \ {0}, NEW a \in Nat
  PROVE  a = d * (a \div d) + (a % d) /\ a % d \in Nat /\ a \div d \in Nat
OBVIOUS

LEMMA SameQuotient ==
  ASSUME NEW d \in Nat \ {0}, NEW a \in Nat, NEW b \in Nat, a \div d = b \div d, a % d = b % d
  PROVE  a = b
<1>1. a = d * (a \div d) + (a % d) /\ b = d * (b \div d) + (b % d)
  BY Divided
<1> QED BY <1>1

LEMMA QuotientGrows ==
  ASSUME NEW d \in Nat \ {0}, NEW a \in Nat, NEW b \in Nat, a <= b
  PROVE  a \div d <= b \div d
OBVIOUS

(* Two numbers with one remainder are equal or at least one divisor apart.    *)
LEMMA SameRemainder ==
  ASSUME NEW d \in Nat \ {0}, NEW a \in Nat, NEW b \in Nat, a <= b, a % d = b % d
  PROVE  a = b \/ b - a >= d
<1> DEFINE p == a \div d
           q == b \div d
           r == a % d
<1>1. a = d * p + r /\ b = d * q + r /\ p \in Nat /\ q \in Nat /\ r \in Nat
  BY Divided
<1> HIDE DEF p, q, r
<1>2. d * p \in Nat /\ d * q \in Nat
  BY <1>1
<1>3. CASE q <= p
  <2>1. d * q <= d * p
    BY <1>1, <1>3
  <2> QED BY <1>1, <1>2, <2>1
<1>4. CASE q >= p + 1
  <2>1. d * q >= d * (p + 1) /\ d * (p + 1) = d * p + d
    BY <1>1, <1>4
  <2> QED BY <1>1, <1>2, <2>1
<1> QED BY <1>1, <1>3, <1>4

(* Two times of one title, at which the schedule is due, are the same minute  *)
(* or at least a year apart.                                                  *)
LEMMA CronsAreFinite ==
  \A p \in Templates : IsFiniteSet(Crons[p].minute) /\ IsFiniteSet(Crons[p].hour)
<1> TAKE p \in Templates
<1>1. IsFiniteSet({0}) /\ IsFiniteSet({0, 1})
  <2>1. IsFiniteSet({0})
    BY FS_Singleton
  <2>2. IsFiniteSet({0} \cup {1})
    BY <2>1, FS_AddElement
  <2> QED BY <2>1, <2>2
<1>2. /\ Crons[p].minute = {0} \/ Crons[p].minute = {0, 1}
      /\ Crons[p].hour = {0}
  BY DEF Crons, Daily
<1> QED BY <1>1, <1>2

LEMMA RecurringCardinality == \A some : R!Cardinality(some) = Cardinality(some)
BY DEF R!Cardinality, Cardinality, R!IsFiniteSet, IsFiniteSet

LEMMA SameTitle ==
  ASSUME NEW p \in Templates, NEW a \in Nat, NEW b \in Nat, a <= b,
         R!Matches(Crons[p], a), R!Matches(Crons[p], b), R!Title(p, a) = R!Title(p, b)
  PROVE  a = b \/ R!Day(b) - R!Day(a) >= DaysPerYear
<1> DEFINE sub == R!isSubDailyCron(Crons[p])
<1>1. R!formatDateSuffix(a, sub) = R!formatDateSuffix(b, sub)
  BY DEF R!Title
<1>2. R!DayOfYear(a) = R!DayOfYear(b)
  BY <1>1 DEF R!formatDateSuffix
<1>3. R!HourOf(a) = R!HourOf(b) /\ R!MinuteOf(a) = R!MinuteOf(b)
  <2>1. CASE sub
    BY <1>1, <2>1 DEF R!formatDateSuffix
  <2>2. CASE ~sub
    <3>1. Cardinality(Crons[p].minute) = 1 /\ Cardinality(Crons[p].hour) = 1
      BY <2>2, RecurringCardinality DEF R!isSubDailyCron
    <3>2. PICK m : Crons[p].minute = {m}
      BY <3>1, CronsAreFinite, FS_Singleton
    <3>3. PICK h : Crons[p].hour = {h}
      BY <3>1, CronsAreFinite, FS_Singleton
    <3> QED BY <3>2, <3>3 DEF R!Matches
  <2> QED BY <2>1, <2>2
<1> DEFINE ha == a \div MinutesPerHour
           hb == b \div MinutesPerHour
<1>4. ha \in Nat /\ hb \in Nat /\ ha <= hb
  BY CalendarIsOne, Divided, QuotientGrows
<1>5. /\ R!Day(a) \in Nat /\ R!Day(b) \in Nat /\ R!Day(a) <= R!Day(b)
      /\ R!Day(a) = ha \div HoursPerDay /\ R!Day(b) = hb \div HoursPerDay
      /\ ha % HoursPerDay = hb % HoursPerDay
      /\ a % MinutesPerHour = b % MinutesPerHour
      /\ R!Day(a) % DaysPerYear = R!Day(b) % DaysPerYear
  <2> HIDE DEF ha, hb
  <2>1. R!Day(a) = ha \div HoursPerDay /\ R!Day(b) = hb \div HoursPerDay
    BY DEF R!Day, ha, hb
  <2>2. /\ ha \div HoursPerDay \in Nat /\ hb \div HoursPerDay \in Nat
        /\ ha \div HoursPerDay <= hb \div HoursPerDay
    BY <1>4, CalendarIsOne, Divided, QuotientGrows
  <2>3. ha % HoursPerDay = hb % HoursPerDay /\ a % MinutesPerHour = b % MinutesPerHour
    BY <1>3 DEF R!HourOf, R!MinuteOf, ha, hb
  <2>4. R!Day(a) % DaysPerYear = R!Day(b) % DaysPerYear
    BY <1>2 DEF R!DayOfYear
  <2> QED BY <2>1, <2>2, <2>3, <2>4
<1>6. R!Day(a) = R!Day(b) \/ R!Day(b) - R!Day(a) >= DaysPerYear
  BY <1>5, CalendarIsOne, SameRemainder
<1>7. ASSUME R!Day(a) = R!Day(b) PROVE a = b
  <2>1. ha = hb
    <3> HIDE DEF ha, hb
    <3> QED BY <1>4, <1>5, <1>7, CalendarIsOne, SameQuotient
  <2> QED BY <1>5, <2>1, CalendarIsOne, SameQuotient
<1> QED BY <1>6, <1>7

--------------------------------------------------------------------------------
(* Recurring tasks. A child was made when it was due; in the minute in which  *)
(* it was made its template remembers that, unless that was set back.         *)
Children == [parent : Templates, at : 1..MaxMinute, copy : 0..MaxTwins]
Copies == [of : Templates, last : 0..MaxMinute] \cup {R!NoCopy}

RecurringInv ==
  /\ R!TypeOK
  /\ IsFiniteSet(v4)
  /\ \A c \in v4 : c.at <= v1 /\ R!Matches(Crons[c.parent], c.at)
  /\ \A c \in v4 : c.at = v1 /\ ~v6[c.parent] => v2[c.parent] = v1
  /\ R!OneChildPerTitle

LEMMA RecurringTypes ==
  R!TypeOK <=>
    /\ v1 \in 1..MaxMinute /\ v2 \in [Templates -> 0..MaxMinute]
    /\ v3 \in [Templates -> BOOLEAN] /\ v4 \in SUBSET Children
    /\ v5 \in [Writers -> Copies] /\ v6 \in [Templates -> BOOLEAN]
BY DEF R!TypeOK, Children, Copies

LEMMA RecurringInit == R!Init => RecurringInv
<1> SUFFICES ASSUME R!Init PROVE RecurringInv
  OBVIOUS
<1>1. v4 = {} /\ IsFiniteSet(v4)
  BY FS_EmptySet DEF R!Init
<1>2. R!TypeOK
  BY CalendarIsOne DEF R!Init, R!TypeOK, R!Never, R!NoCopy
<1> QED BY <1>1, <1>2 DEF RecurringInv, R!OneChildPerTitle

(* Children come and go, or time passes.                                      *)
LEMMA Spawning ==
  ASSUME RecurringInv, R!Spawn
  PROVE  RecurringInv'
<1>0. /\ v1 \in 1..MaxMinute /\ v2 \in [Templates -> 0..MaxMinute]
      /\ v3 \in [Templates -> BOOLEAN] /\ v4 \in SUBSET Children
      /\ v5 \in [Writers -> Copies] /\ v6 \in [Templates -> BOOLEAN]
  BY RecurringTypes DEF RecurringInv
<1> DEFINE spawned == R!Due \ R!Withheld
           new == {R!NewChild(p) : p \in spawned}
<1>1. /\ \A p \in spawned : R!Cardinality(R!Twins(p)) < MaxTwins
      /\ v4' = v4 \cup new
      /\ v2' = [p \in Templates |-> IF p \in spawned THEN v1 ELSE v2[p]]
      /\ v6' = [p \in Templates |-> v6[p] /\ p \notin spawned]
      /\ UNCHANGED <<v1, v3, v5>>
  BY DEF R!Spawn
<1>2. spawned \in SUBSET Templates /\ \A p \in spawned : R!Matches(Crons[p], v1)
  BY DEF R!Due, R!isCronDue
<1>3. \A p \in spawned : R!NewChild(p) \in Children
                         /\ R!NewChild(p).parent = p /\ R!NewChild(p).at = v1
  <2> TAKE p \in spawned
  <2>1. Cardinality(R!Twins(p)) < MaxTwins /\ p \in Templates
    BY <1>1, <1>2, RecurringCardinality
  <2>2. IsFiniteSet(R!Twins(p)) /\ Cardinality(R!Twins(p)) \in Nat
    <3>1. R!Twins(p) \in SUBSET v4
      BY DEF R!Twins
    <3> QED BY <3>1, FS_Subset, FS_CardinalityType DEF RecurringInv
  <2>3. Cardinality(R!Twins(p)) \in 0..MaxTwins
    BY <2>1, <2>2, CalendarIsOne
  <2>4. R!NewChild(p) = [parent |-> p, at |-> v1, copy |-> Cardinality(R!Twins(p))]
    BY RecurringCardinality DEF R!NewChild
  <2> QED BY <1>0, <2>1, <2>3, <2>4 DEF Children
<1>4. IsFiniteSet(new)
  <2>1. IsFiniteSet(spawned)
    BY <1>2, CalendarIsOne, FS_Subset
  <2>2. PICK f : f = [p \in spawned |-> R!NewChild(p)]
    OBVIOUS
  <2>3. f \in Surjection(spawned, new)
    BY <2>2 DEF Surjection
  <2> QED BY <2>1, <2>3, FS_Surjection
<1> HIDE DEF spawned
<1>5. IsFiniteSet(v4')
  BY <1>1, <1>4, FS_Union DEF RecurringInv
<1>6. R!TypeOK'
  <2>1. v4' \in SUBSET Children
    BY <1>0, <1>1, <1>3
  <2>2. v2' \in [Templates -> 0..MaxMinute]
    BY <1>0, <1>1
  <2>3. v6' \in [Templates -> BOOLEAN]
    BY <1>1
  <2> QED BY <1>0, <1>1, <2>1, <2>2, <2>3 DEF R!TypeOK, Children, Copies
<1>7. \A c \in v4' : c.at <= v1' /\ R!Matches(Crons[c.parent], c.at)
  BY <1>0, <1>1, <1>2, <1>3 DEF RecurringInv
<1>8. \A c \in v4' : c.at = v1' /\ ~v6'[c.parent] => v2'[c.parent] = v1'
  <2> SUFFICES ASSUME NEW c \in v4', c.at = v1, ~v6'[c.parent] PROVE v2'[c.parent] = v1
    BY <1>1
  <2>1. CASE c \in new
    BY <1>1, <1>2, <1>3, <2>1
  <2>2. CASE c \in v4
    <3>1. c.parent \in Templates
      BY <1>0, <2>2 DEF Children
    <3>2. c.parent \in spawned \/ ~v6[c.parent]
      BY <1>1, <3>1
    <3> QED BY <1>1, <2>2, <3>1, <3>2 DEF RecurringInv
  <2> QED BY <1>1, <2>1, <2>2
<1>9. R!OneChildPerTitle'
  <2> SUFFICES ASSUME NEW c \in v4', NEW d \in v4',
                      c.parent = d.parent, c.parent \in InProject,
                      R!Title(c.parent, c.at) = R!Title(d.parent, d.at)
               PROVE  c = d
    BY DEF R!OneChildPerTitle
  <2>1. ASSUME NEW p \in spawned, p \in InProject, NEW o \in v4, o.parent = p
        PROVE  R!Title(p, o.at) # R!Title(p, v1)
    BY <2>1 DEF spawned, R!Withheld, R!Twins
  <2>2. CASE c \in v4 /\ d \in v4
    BY <2>2 DEF RecurringInv, R!OneChildPerTitle
  <2>3. CASE c \in new /\ d \in new
    BY <1>3, <2>3
  <2>4. CASE c \in new /\ d \in v4
    BY <1>3, <2>1, <2>4
  <2>5. CASE c \in v4 /\ d \in new
    BY <1>3, <2>1, <2>5
  <2> QED BY <1>1, <2>2, <2>3, <2>4, <2>5
<1> QED BY <1>5, <1>6, <1>7, <1>8, <1>9 DEF RecurringInv

LEMMA RecurringStep == RecurringInv /\ [R!Next]_<<v1, v2, v3, v4, v5, v6>> => RecurringInv'
<1> SUFFICES ASSUME RecurringInv, [R!Next]_<<v1, v2, v3, v4, v5, v6>> PROVE RecurringInv'
  OBVIOUS
<1>0. /\ v1 \in 1..MaxMinute /\ v2 \in [Templates -> 0..MaxMinute]
      /\ v3 \in [Templates -> BOOLEAN] /\ v4 \in SUBSET Children
      /\ v5 \in [Writers -> Copies] /\ v6 \in [Templates -> BOOLEAN]
  BY RecurringTypes DEF RecurringInv
<1>1. ASSUME v4' \subseteq v4, v1' \in {v1, v1 + 1}, v1' \in 1..MaxMinute, R!TypeOK',
             \A p \in Templates : v1' = v1 /\ ~v6'[p] /\ v2[p] = v1 /\ ~v6[p] => v2'[p] = v1,
             \A p \in Templates : v1' = v1 /\ ~v6'[p] => ~v6[p]
      PROVE  RecurringInv'
  <2>1. IsFiniteSet(v4')
    BY <1>1, FS_Subset DEF RecurringInv
  <2>2. \A c \in v4' : c.parent \in Templates /\ c.at \in Nat
    BY <1>0, <1>1 DEF Children
  <2>3. \A c \in v4' : c.at <= v1' /\ R!Matches(Crons[c.parent], c.at)
    BY <1>0, <1>1, <2>2 DEF RecurringInv
  <2>4. \A c \in v4' : c.at = v1' /\ ~v6'[c.parent] => v2'[c.parent] = v1'
    <3> SUFFICES ASSUME NEW c \in v4', c.at = v1', ~v6'[c.parent] PROVE v2'[c.parent] = v1'
      OBVIOUS
    <3>1. v1' = v1
      BY <1>0, <1>1, <2>2 DEF RecurringInv
    <3> QED BY <1>1, <2>2, <3>1 DEF RecurringInv
  <2>5. R!OneChildPerTitle'
    BY <1>1 DEF RecurringInv, R!OneChildPerTitle
  <2> QED BY <1>1, <2>1, <2>3, <2>4, <2>5 DEF RecurringInv
<1>2. CASE UNCHANGED <<v1, v2, v3, v4, v5, v6>>
  <2>1. R!TypeOK'
    BY <1>0, <1>2 DEF R!TypeOK, Children, Copies
  <2> QED BY <1>0, <1>1, <1>2, <2>1
<1>3. CASE R!Spawn
  BY <1>3, Spawning
<1>4. CASE R!Minute
  <2>1. v1 < MaxMinute /\ v1' = v1 + 1 /\ UNCHANGED <<v2, v3, v4, v5, v6>>
    BY <1>4 DEF R!Minute
  <2>2. v1' \in 1..MaxMinute /\ v1' # v1
    BY <1>0, <2>1, CalendarIsOne
  <2>3. R!TypeOK'
    BY <1>0, <2>1, <2>2 DEF R!TypeOK, Children, Copies
  <2> QED BY <1>0, <1>1, <2>1, <2>2, <2>3
<1>5. ASSUME NEW w \in Writers, NEW p \in Templates, R!ReadMetadata(w, p) PROVE RecurringInv'
  <2>1. v5' = [v5 EXCEPT ![w] = [of |-> p, last |-> v2[p]]] /\ UNCHANGED <<v1, v2, v3, v4, v6>>
    BY <1>5 DEF R!ReadMetadata
  <2>2. v5' \in [Writers -> Copies]
    BY <1>0, <2>1 DEF Copies
  <2>3. R!TypeOK'
    BY <1>0, <2>1, <2>2 DEF R!TypeOK, Children, Copies
  <2> QED BY <1>0, <1>1, <2>1, <2>3
<1>6. ASSUME NEW w \in Writers, R!WriteMetadata(w) PROVE RecurringInv'
  <2> DEFINE p == v5[w].of
             old == v5[w].last
  <2>1. PICK on \in BOOLEAN :
          /\ v5[w] # R!NoCopy
          /\ v2' = [v2 EXCEPT ![p] = old] /\ v3' = [v3 EXCEPT ![p] = on]
          /\ v5' = [v5 EXCEPT ![w] = R!NoCopy]
          /\ v6' = [v6 EXCEPT ![p] = @ \/ old # v2[p]]
          /\ UNCHANGED <<v1, v4>>
    BY <1>6 DEF R!WriteMetadata
  <2>2. p \in Templates /\ old \in 0..MaxMinute
    BY <1>0, <2>1 DEF Copies
  <2> HIDE DEF p, old
  <2>3. v5' \in [Writers -> Copies]
    BY <1>0, <2>1 DEF Copies
  <2>4. v2' \in [Templates -> 0..MaxMinute] /\ v3' \in [Templates -> BOOLEAN]
    BY <1>0, <2>1, <2>2
  <2>5. v6[p] \in BOOLEAN /\ v6'[p] = (v6[p] \/ old # v2[p]) /\ v6' \in [Templates -> BOOLEAN]
    BY <1>0, <2>1, <2>2
  <2>6. R!TypeOK'
    BY <1>0, <2>1, <2>3, <2>4, <2>5 DEF R!TypeOK, Children, Copies
  <2>7. ASSUME NEW q \in Templates, ~v6'[q] PROVE ~v6[q] /\ v2'[q] = v2[q]
    <3>1. CASE q = p
      <4>1. ~v6[p] /\ old = v2[p]
        BY <2>5, <2>7, <3>1
      <4> QED BY <1>0, <2>1, <2>2, <3>1, <4>1
    <3>2. CASE q # p
      BY <1>0, <2>1, <2>7, <3>2
    <3> QED BY <3>1, <3>2
  <2> QED BY <1>0, <1>1, <2>1, <2>6, <2>7
<1>7. ASSUME NEW c \in v4, R!DeleteChild(c) PROVE RecurringInv'
  <2>1. v4' \subseteq v4 /\ UNCHANGED <<v1, v2, v3, v5, v6>>
    BY <1>7 DEF R!DeleteChild
  <2>2. R!TypeOK'
    BY <1>0, <2>1 DEF R!TypeOK, Children, Copies
  <2> QED BY <1>0, <1>1, <2>1, <2>2
<1> QED BY <1>2, <1>3, <1>4, <1>5, <1>6, <1>7 DEF R!Next

LEMMA Withholding == RecurringInv => R!OneChildPerTitle /\ R!WithheldForATwin
<1> SUFFICES ASSUME RecurringInv, NEW p \in R!Withheld
             PROVE  \E c \in v4 :
                      c.parent = p /\ (c.at = v1 \/ R!Day(v1) - R!Day(c.at) >= DaysPerYear)
  BY DEF RecurringInv, R!WithheldForATwin
<1>1. PICK c \in v4 : c.parent = p /\ R!Title(p, c.at) = R!Title(p, v1)
  BY DEF R!Withheld, R!Twins
<1>2. p \in Templates /\ R!Matches(Crons[p], v1)
  BY DEF R!Withheld, R!Due, R!isCronDue
<1>3. c.at \in Nat /\ v1 \in Nat /\ c.at <= v1 /\ R!Matches(Crons[p], c.at)
  BY <1>1, RecurringTypes DEF RecurringInv, Children
<1> QED BY <1>1, <1>2, <1>3, SameTitle

LEMMA TwiceOnlyThen ==
  RecurringInv /\ [R!Next]_<<v1, v2, v3, v4, v5, v6>> => R!TwiceAfterSetBack
<1> SUFFICES ASSUME RecurringInv, [R!Next]_<<v1, v2, v3, v4, v5, v6>>,
                    NEW c \in v4, NEW d \in v4' \ v4, c.parent = d.parent, c.at = d.at
             PROVE  v6[c.parent]
  BY DEF R!TwiceAfterSetBack
<1>1. R!Spawn
  BY DEF R!Next, R!Minute, R!ReadMetadata, R!WriteMetadata, R!DeleteChild
<1>2. PICK p \in R!Due \ R!Withheld : d = R!NewChild(p)
  BY <1>1 DEF R!Spawn
<1>3. d.parent = p /\ d.at = v1 /\ v2[p] # v1
  BY <1>2 DEF R!NewChild, R!Due, R!isCronDue
<1>4. v6[p] \in BOOLEAN
  BY <1>2, RecurringTypes DEF RecurringInv, R!Due
<1> QED BY <1>3, <1>4 DEF RecurringInv
--------------------------------------------------------------------------------
(* The rate limiter. The requests of Watched let through are numbered; those  *)
(* that opened a window are marked.                                           *)
Passed == 1..Len(v3)

(* Windows do not overlap; none lets more than MaxRequests through; the       *)
(* counter, if there is one, is that of the latest window.                    *)
Marked(M) ==
  /\ \A i, j \in M : i < j => v3[i] + Window < v3[j]
  /\ \A i \in Passed : i + MaxRequests <= Len(v3) =>
       \E j \in M : i < j /\ j <= i + MaxRequests
  /\ L!Counted(Watched) =>
       \E m \in M :
         /\ \A j \in M : j <= m
         /\ v2[Watched].resetAt = v3[m] + Window
         /\ (Len(v3) + 1) - m = IF v2[Watched].count < MaxRequests THEN v2[Watched].count ELSE MaxRequests
  /\ ~L!Running(Watched) => \A m \in M : v3[m] + Window < v1

LimitInv ==
  /\ L!TypeOK
  /\ \A i \in Passed : v3[i] <= v1
  /\ \A i, j \in Passed : i <= j => v3[i] <= v3[j]
  /\ ~v4 => \E M \in SUBSET Passed : Marked(M)

Counters == [count : Nat, resetAt : 0..(MaxClock + Window)]

LEMMA LimitBounds ==
  /\ MaxRequests \in Nat \ {0} /\ Window \in Nat /\ MaxEntries \in Nat /\ MaxClock \in Nat
  /\ IsFiniteSet(Keys) /\ Watched \in Keys
BY BoundsAreNumbers, KeysAreFinite

LEMMA LimitCardinality ==
  /\ \A some : L!Cardinality(some) = Cardinality(some)
  /\ \A keys \in SUBSET Keys : IsFiniteSet(keys) /\ Cardinality(keys) \in Nat
<1>1. \A some : L!Cardinality(some) = Cardinality(some)
  BY DEF L!Cardinality, Cardinality, L!IsFiniteSet, IsFiniteSet
<1>2. \A keys \in SUBSET Keys : IsFiniteSet(keys) /\ Cardinality(keys) \in Nat
  BY LimitBounds, FS_Subset, FS_CardinalityType
<1> QED BY <1>1, <1>2

LEMMA LimitTypes ==
  LimitInv =>
    /\ v1 \in 0..MaxClock /\ v2 \in [Keys -> Counters]
    /\ v3 \in Seq(0..MaxClock) /\ v4 \in BOOLEAN
    /\ Cardinality(L!Stored) <= MaxEntries
    /\ Len(v3) \in Nat /\ \A i \in Passed : v3[i] \in 0..MaxClock
<1> SUFFICES ASSUME L!TypeOK
             PROVE  /\ v1 \in 0..MaxClock /\ v2 \in [Keys -> Counters]
                    /\ v3 \in Seq(0..MaxClock) /\ v4 \in BOOLEAN
                    /\ Cardinality(L!Stored) <= MaxEntries
                    /\ Len(v3) \in Nat /\ \A i \in Passed : v3[i] \in 0..MaxClock
  BY DEF LimitInv
<1>1. /\ v1 \in 0..MaxClock /\ v2 \in [Keys -> Counters]
      /\ v3 \in Seq(0..MaxClock) /\ v4 \in BOOLEAN
  BY DEF L!TypeOK, Counters
<1>2. L!Cardinality(L!Stored) <= MaxEntries
  BY DEF L!TypeOK, L!Stored, L!Counted
<1>3. Cardinality(L!Stored) <= MaxEntries
  BY <1>2, LimitCardinality
<1>4. Len(v3) \in Nat /\ \A i \in Passed : v3[i] \in 0..MaxClock
  <2>1. Len(v3) \in Nat
    BY <1>1
  <2>2. ASSUME NEW i \in 1..Len(v3) PROVE v3[i] \in 0..MaxClock
    <3> DEFINE S == 0..MaxClock
    <3>1. v3 \in Seq(S)
      BY <1>1
    <3> HIDE DEF S
    <3>2. v3[i] \in S
      BY <2>2, <3>1
    <3> QED BY <3>2 DEF S
  <2> QED BY <2>1, <2>2 DEF Passed
<1> QED BY <1>1, <1>3, <1>4

LEMMA LimitOrder ==
  LimitInv =>
    /\ \A i \in Passed : v3[i] <= v1
    /\ \A i, j \in Passed : i <= j => v3[i] <= v3[j]
BY DEF LimitInv

LEMMA TypesAgain ==
  /\ v1 \in 0..MaxClock /\ v2 \in [Keys -> Counters]
  /\ v3 \in Seq(0..MaxClock) /\ v4 \in BOOLEAN
  /\ Cardinality(L!Stored) <= MaxEntries
  => L!TypeOK
<1>1. L!Stored = {k \in Keys : v2[k] # L!NoEntry}
  BY DEF L!Stored, L!Counted
<1>2. L!Cardinality(L!Stored) = Cardinality(L!Stored)
  BY LimitCardinality
<1> QED BY <1>1, <1>2 DEF L!TypeOK, Counters

LEMMA LimitInit == L!Init => LimitInv
<1> SUFFICES ASSUME L!Init PROVE LimitInv
  OBVIOUS
<1>1. Passed = {} /\ v3 = <<>> /\ v1 = 0 /\ v4 = FALSE /\ v2 = [k \in Keys |-> L!NoEntry]
  BY DEF L!Init, Passed
<1>2. L!Stored = {} /\ ~L!Counted(Watched)
  BY <1>1, LimitBounds DEF L!Stored, L!Counted
<1>3. L!TypeOK
  <2>1. L!NoEntry \in Counters
    BY LimitBounds DEF L!NoEntry, Counters
  <2>2. Cardinality(L!Stored) <= MaxEntries
    BY <1>2, LimitBounds, FS_EmptySet
  <2>3. v1 \in 0..MaxClock /\ v3 \in Seq(0..MaxClock) /\ v4 \in BOOLEAN
    <3>1. 0 \in 0..MaxClock
      BY LimitBounds
    <3>2. <<>> \in Seq(0..MaxClock)
      OBVIOUS
    <3> QED BY <1>1, <3>1, <3>2
  <2>4. v2 \in [Keys -> Counters]
    BY <1>1, <2>1
  <2> QED BY <2>2, <2>3, <2>4, TypesAgain
<1>4. Marked({})
  BY <1>1, <1>2, LimitBounds DEF Marked, Passed
<1> QED BY <1>1, <1>3, <1>4 DEF LimitInv

(* A request that is let through comes after the others.                      *)
LEMMA PassedMore ==
  ASSUME LimitInv, v3' = Append(v3, v1), v1' = v1
  PROVE  /\ v3' \in Seq(0..MaxClock) /\ Len(v3') = Len(v3) + 1
         /\ v3'[Len(v3) + 1] = v1 /\ \A i \in Passed : v3'[i] = v3[i]
         /\ Passed' = Passed \cup {Len(v3) + 1}
         /\ \A i \in Passed' : v3'[i] <= v1'
         /\ \A i, j \in Passed' : i <= j => v3'[i] <= v3'[j]
<1>1. /\ v1 \in 0..MaxClock /\ v3 \in Seq(0..MaxClock) /\ Len(v3) \in Nat
      /\ \A i \in Passed : v3[i] \in 0..MaxClock
  BY LimitTypes
<1>2. /\ v3' \in Seq(0..MaxClock) /\ Len(v3') = Len(v3) + 1
      /\ v3'[Len(v3) + 1] = v1 /\ \A i \in Passed : v3'[i] = v3[i]
  BY <1>1 DEF Passed
<1>3. Passed' = Passed \cup {Len(v3) + 1}
  BY <1>1, <1>2 DEF Passed
<1>4. \A i \in Passed' : v3'[i] <= v1'
  <2>1. \A i \in Passed : v3'[i] <= v1'
    BY <1>2, LimitOrder
  <2>2. v3'[Len(v3) + 1] <= v1'
    BY <1>1, <1>2
  <2> QED BY <1>3, <2>1, <2>2
<1>5. \A i, j \in Passed' : i <= j => v3'[i] <= v3'[j]
  <2> SUFFICES ASSUME NEW i \in Passed', NEW j \in Passed', i <= j PROVE v3'[i] <= v3'[j]
    OBVIOUS
  <2>1. CASE i \in Passed /\ j \in Passed
    BY <1>2, <2>1, LimitOrder
  <2>2. CASE i \in Passed /\ j = Len(v3) + 1
    BY <1>2, <2>2, LimitOrder
  <2>3. CASE i = Len(v3) + 1
    <3>1. j = Len(v3) + 1
      BY <1>1, <1>3, <2>3 DEF Passed
    <3> QED BY <1>1, <1>2, <2>3, <3>1
  <2> QED BY <1>3, <2>1, <2>2, <2>3
<1> QED BY <1>2, <1>3, <1>4, <1>5

(* The first request of a window.                                             *)
LEMMA Marking ==
  ASSUME LimitInv, ~v4, ~L!Running(Watched), v3' = Append(v3, v1), v1' = v1,
         v2'[Watched] = L!FirstOfWindow
  PROVE  \E M \in SUBSET Passed' : Marked(M)'
<1>1. PICK M \in SUBSET Passed : Marked(M)
  BY DEF LimitInv
<1>0. PICK n : n = Len(v3) + 1
  OBVIOUS
<1>01. PICK N : N = M \cup {n}
  OBVIOUS
<1>2. /\ v1 \in 0..MaxClock /\ Len(v3) \in Nat /\ n \in Nat
      /\ \A i \in Passed : v3[i] \in 0..MaxClock /\ i \in Nat /\ i < n
  BY <1>0, LimitTypes DEF Passed
<1>3. /\ Len(v3') = n /\ v3'[n] = v1 /\ \A i \in Passed : v3'[i] = v3[i]
      /\ Passed' = Passed \cup {n}
  BY <1>0, PassedMore
<1>4. N \in SUBSET Passed'
  BY <1>01, <1>3
<1>5. \A i, j \in N : i < j => v3'[i] + Window < v3'[j]
  <2>1. \A i, j \in M : i < j => v3[i] + Window < v3[j]
    BY <1>1 DEF Marked
  <2>2. \A i \in M : v3[i] + Window < v1
    BY <1>1 DEF Marked
  <2> SUFFICES ASSUME NEW i \in N, NEW j \in N, i < j PROVE v3'[i] + Window < v3'[j]
    OBVIOUS
  <2>3. i \in M /\ j \in M \cup {n}
    BY <1>01, <1>1, <1>2
  <2>4. CASE j \in M
    BY <1>1, <1>3, <2>1, <2>3, <2>4
  <2>5. CASE j = n
    BY <1>1, <1>3, <2>2, <2>3, <2>5
  <2> QED BY <2>3, <2>4, <2>5
<1>6. \A i \in Passed' : i + MaxRequests <= Len(v3') => \E j \in N : i < j /\ j <= i + MaxRequests
  <2> SUFFICES ASSUME NEW i \in Passed', i + MaxRequests <= n
               PROVE  \E j \in N : i < j /\ j <= i + MaxRequests
    BY <1>3
  <2>1. i \in Passed
    BY <1>2, <1>3, LimitBounds
  <2>2. CASE i + MaxRequests = n
    BY <1>01, <1>2, <2>1, <2>2
  <2>3. CASE i + MaxRequests # n
    <3>1. i + MaxRequests <= Len(v3)
      BY <1>0, <1>2, <2>1, <2>3, LimitBounds
    <3> QED BY <1>01, <1>0, <1>1, <2>1, <3>1 DEF Marked
  <2> QED BY <2>2, <2>3
<1>7. \A j \in N : j <= n
  BY <1>01, <1>1, <1>2
<1>8. v2'[Watched].resetAt = v1 + Window /\ v2'[Watched].count = 1
  BY DEF L!FirstOfWindow
<1>9. (n + 1) - n = IF v2'[Watched].count < MaxRequests THEN v2'[Watched].count ELSE MaxRequests
  BY <1>2, <1>8, LimitBounds
<1>10. L!Running(Watched)'
  BY <1>2, <1>8, LimitBounds DEF L!Running, L!Counted, L!NoEntry
<1>11. Marked(N)'
  <2>1. n \in N
    BY <1>01
  <2>2. v2'[Watched].resetAt = v3'[n] + Window
    BY <1>3, <1>8
  <2>3. (Len(v3') + 1) - n = IF v2'[Watched].count < MaxRequests THEN v2'[Watched].count ELSE MaxRequests
    BY <1>3, <1>9
  <2> QED BY <1>5, <1>6, <1>7, <1>10, <2>1, <2>2, <2>3 DEF Marked
<1> QED BY <1>4, <1>11

(* A further one.                                                             *)
LEMMA Filling ==
  ASSUME LimitInv, ~v4, L!Running(Watched), v1' = v1, v2'[Watched].resetAt = v2[Watched].resetAt,
         v2'[Watched].count =
           IF v2[Watched].count > MaxRequests THEN v2[Watched].count ELSE v2[Watched].count + 1,
         IF v2[Watched].count + 1 > MaxRequests THEN v3' = v3 ELSE v3' = Append(v3, v1)
  PROVE  \E M \in SUBSET Passed' : Marked(M)'
<1> DEFINE n == Len(v3) + 1
           c == v2[Watched].count
<1>1. PICK M \in SUBSET Passed : Marked(M)
  BY DEF LimitInv
<1>2. /\ v1 \in 0..MaxClock /\ Len(v3) \in Nat /\ n \in Nat /\ c \in Nat
      /\ \A i \in Passed : v3[i] \in 0..MaxClock /\ i \in Nat /\ i < n
  BY LimitTypes, LimitBounds DEF Passed, Counters
<1>3. PICK m \in M :
        /\ \A j \in M : j <= m
        /\ v2[Watched].resetAt = v3[m] + Window
        /\ (Len(v3) + 1) - m =
             IF v2[Watched].count < MaxRequests THEN v2[Watched].count ELSE MaxRequests
  <2>1. L!Counted(Watched)
    BY DEF L!Running
  <2> QED BY <1>1, <2>1, Zenon DEF Marked
<1>4. m \in Passed
  BY <1>1
<1>5. L!Running(Watched)'
  <2>1. v2'[Watched].count # 0
    BY <1>2, LimitBounds
  <2> QED BY <2>1, LimitBounds DEF L!Running, L!Counted, L!NoEntry
<1>6. CASE c + 1 > MaxRequests
  <2>1. v3' = v3 /\ Passed' = Passed
    BY <1>6 DEF Passed
  <2>2. (Len(v3') + 1) - m =
          IF v2'[Watched].count < MaxRequests THEN v2'[Watched].count ELSE MaxRequests
    BY <1>2, <1>3, <1>6, <2>1, LimitBounds
  <2>3. Marked(M)'
    BY <1>1, <1>3, <1>5, <2>1, <2>2 DEF Marked
  <2> QED BY <2>1, <2>3
<1>7. CASE ~(c + 1 > MaxRequests)
  <2>1. v3' = Append(v3, v1)
    BY <1>7
  <2>2. /\ Len(v3') = n /\ v3'[n] = v1 /\ \A i \in Passed : v3'[i] = v3[i]
        /\ Passed' = Passed \cup {n}
    BY <2>1, PassedMore
  <2>3. v2'[Watched].count = c + 1 /\ n - m = c
    <3>1. c < MaxRequests /\ ~(c > MaxRequests)
      BY <1>2, <1>7, LimitBounds
    <3>2. v2'[Watched].count = c + 1
      BY <3>1
    <3>3. (Len(v3) + 1) - m = c
      BY <1>3, <3>1
    <3> QED BY <3>2, <3>3, Zenon
  <2>4. (Len(v3') + 1) - m =
          IF v2'[Watched].count < MaxRequests THEN v2'[Watched].count ELSE MaxRequests
    BY <1>2, <1>4, <1>7, <2>2, <2>3, LimitBounds
  <2>5. \A i \in Passed' : i + MaxRequests <= Len(v3') => \E j \in M : i < j /\ j <= i + MaxRequests
    <3> SUFFICES ASSUME NEW i \in Passed', i + MaxRequests <= n
                 PROVE  \E j \in M : i < j /\ j <= i + MaxRequests
      BY <2>2
    <3>1. i \in Passed
      BY <1>2, <2>2, LimitBounds
    <3>2. CASE i + MaxRequests = n
      <4>1. i < m /\ m <= i + MaxRequests
        BY <1>2, <1>4, <1>7, <2>3, <3>1, <3>2, LimitBounds
      <4> QED BY <4>1
    <3>3. CASE i + MaxRequests # n
      <4>1. i + MaxRequests <= Len(v3)
        BY <1>2, <3>1, <3>3, LimitBounds
      <4> QED BY <1>1, <3>1, <4>1 DEF Marked
    <3> QED BY <3>2, <3>3, Zenon
  <2>6. \A i, j \in M : i < j => v3'[i] + Window < v3'[j]
    BY <1>1, <2>2 DEF Marked
  <2>7. v2'[Watched].resetAt = v3'[m] + Window
    BY <1>3, <1>4, <2>2
  <2>8. Marked(M)'
    BY <1>3, <1>5, <2>4, <2>5, <2>6, <2>7 DEF Marked
  <2> QED BY <1>1, <2>2, <2>8
<1> QED BY <1>6, <1>7

(* A step that leaves the counter of Watched as it was, or finds it over.     *)
LEMMA Standing ==
  ASSUME LimitInv, ~v4, UNCHANGED v3, v1 <= v1', v1' \in Nat,
         v2'[Watched] = v2[Watched] \/ (~L!Running(Watched) /\ v2'[Watched] = L!NoEntry)
  PROVE  \E M \in SUBSET Passed' : Marked(M)'
<1>1. PICK M \in SUBSET Passed : Marked(M)
  BY DEF LimitInv
<1>2. /\ v1 \in 0..MaxClock /\ v2[Watched] \in Counters
      /\ \A i \in Passed : v3[i] \in 0..MaxClock /\ i \in Nat
  BY LimitTypes, LimitBounds DEF Passed
<1>3. /\ \A i, j \in M : i < j => v3[i] + Window < v3[j]
      /\ \A i \in Passed : i + MaxRequests <= Len(v3) =>
           \E j \in M : i < j /\ j <= i + MaxRequests
  BY <1>1, Zenon DEF Marked
<1>4. ~L!Running(Watched) => \A m \in M : v3[m] + Window < v1'
  <2>1. \A m \in M : v3[m] + Window \in Nat
    BY <1>2, LimitBounds
  <2>2. ~L!Running(Watched) => \A m \in M : v3[m] + Window < v1
    BY <1>1, Zenon DEF Marked
  <2> QED BY <1>2, <2>1, <2>2
<1>5. L!Counted(Watched)' =>
        \E m \in M :
          /\ \A j \in M : j <= m
          /\ v2'[Watched].resetAt = v3[m] + Window
          /\ (Len(v3) + 1) - m =
               IF v2'[Watched].count < MaxRequests THEN v2'[Watched].count ELSE MaxRequests
  <2>1. CASE v2'[Watched] = v2[Watched]
    <3>1. L!Counted(Watched)' => L!Counted(Watched)
      BY <2>1 DEF L!Counted
    <3>2. L!Counted(Watched) =>
            \E m \in M :
              /\ \A j \in M : j <= m
              /\ v2[Watched].resetAt = v3[m] + Window
              /\ (Len(v3) + 1) - m =
                   IF v2[Watched].count < MaxRequests THEN v2[Watched].count ELSE MaxRequests
      BY <1>1, Zenon DEF Marked
    <3> QED BY <2>1, <3>1, <3>2, Zenon
  <2>2. CASE v2'[Watched] = L!NoEntry
    BY <2>2 DEF L!Counted
  <2> QED BY <2>1, <2>2
<1>6. ~L!Running(Watched)' => \A m \in M : v3[m] + Window < v1'
  <2>1. CASE ~L!Running(Watched)
    BY <1>4, <2>1
  <2>2. CASE L!Running(Watched)
    <3>1. v2'[Watched] = v2[Watched] /\ L!Counted(Watched)'
      BY <2>2 DEF L!Running, L!Counted
    <3>2. PICK m \in M : (\A j \in M : j <= m) /\ v2'[Watched].resetAt = v3[m] + Window
      BY <1>5, <3>1
    <3>3. ~L!Running(Watched)' => v3[m] + Window < v1'
      BY <1>1, <1>2, <3>1, <3>2, LimitBounds DEF L!Running
    <3>4. \A j \in M : v3[j] <= v3[m]
      BY <1>1, <3>2, LimitOrder
    <3>5. \A j \in M : v3[j] \in Nat /\ v3[m] \in Nat
      BY <1>1, <1>2
    <3> QED BY <3>3, <3>4, <3>5, LimitBounds
  <2> QED BY <2>1, <2>2
<1>7. Marked(M)'
  <2>1. Passed' = Passed /\ v3' = v3
    BY DEF Passed
  <2> QED BY <1>3, <1>5, <1>6, <2>1 DEF Marked
<1>8. M \in SUBSET Passed'
  BY <1>1 DEF Passed
<1> QED BY <1>7, <1>8

(* What a step does to time, to what is passed and to the counters.           *)
LEMMA Passing ==
  ASSUME LimitInv, \/ v3' = v3 /\ v1 <= v1' /\ v1' \in 0..MaxClock
                   \/ v3' = Append(v3, v1) /\ v1' = v1
  PROVE  /\ v1' \in 0..MaxClock /\ v3' \in Seq(0..MaxClock)
         /\ \A i \in Passed' : v3'[i] <= v1'
         /\ \A i, j \in Passed' : i <= j => v3'[i] <= v3'[j]
<1>1. CASE v3' = Append(v3, v1) /\ v1' = v1
  BY <1>1, PassedMore, LimitTypes
<1>2. CASE v3' = v3 /\ v1 <= v1' /\ v1' \in 0..MaxClock
  <2>1. Passed' = Passed /\ v3' \in Seq(0..MaxClock)
    BY <1>2, LimitTypes DEF Passed
  <2>2. ASSUME NEW i \in Passed PROVE v3[i] <= v1'
    <3>1. v3[i] \in Nat /\ v1 \in Nat /\ v1' \in Nat
      BY <1>2, LimitTypes
    <3> QED BY <1>2, <3>1, LimitOrder
  <2> QED BY <1>2, <2>1, <2>2, LimitOrder
<1> QED BY <1>1, <1>2

LEMMA Limiting ==
  ASSUME LimitInv, v4' \in BOOLEAN, v2' \in [Keys -> Counters], Cardinality(L!Stored') <= MaxEntries,
         \/ v3' = v3 /\ v1 <= v1' /\ v1' \in 0..MaxClock
         \/ v3' = Append(v3, v1) /\ v1' = v1,
         ~v4' => \E M \in SUBSET Passed' : Marked(M)'
  PROVE  LimitInv'
<1>1. /\ v1' \in 0..MaxClock /\ v3' \in Seq(0..MaxClock)
      /\ \A i \in Passed' : v3'[i] <= v1'
      /\ \A i, j \in Passed' : i <= j => v3'[i] <= v3'[j]
  BY Passing
<1>2. L!TypeOK'
  <2>1. L!Stored' = {k \in Keys : v2'[k] # L!NoEntry}
    BY DEF L!Stored, L!Counted
  <2>2. L!Cardinality(L!Stored') = Cardinality(L!Stored')
    BY LimitCardinality
  <2> QED BY <1>1, <2>1, <2>2 DEF L!TypeOK, Counters
<1> QED BY <1>1, <1>2 DEF LimitInv

LEMMA CounterKinds ==
  ASSUME LimitInv, NEW k \in Keys
  PROVE  /\ L!FirstOfWindow \in Counters /\ L!NoEntry \in Counters
         /\ L!FirstOfWindow # L!NoEntry
         /\ v2[k] \in Counters
         /\ \A c \in Nat : [v2[k] EXCEPT !.count = c] \in Counters
<1>1. v1 \in 0..MaxClock /\ v2[k] \in Counters
  BY LimitTypes
<1> QED BY <1>1, LimitBounds DEF L!FirstOfWindow, L!NoEntry, Counters

(* Capacity.                                                                  *)
LEMMA Capacity ==
  ASSUME LimitInv, NEW k \in Keys, v2' \in [Keys -> Counters],
         \/ L!Stored' \subseteq L!Stored
         \/ L!Stored' \subseteq L!Stored \cup {k} /\ Cardinality(L!Stored) < MaxEntries
         \/ \E old \in L!Stored : L!Stored' \subseteq (L!Stored \ {old}) \cup {k}
  PROVE  Cardinality(L!Stored') <= MaxEntries
<1>0. PICK S, T : S = L!Stored /\ T = L!Stored'
  OBVIOUS
<1> SUFFICES Cardinality(T) <= MaxEntries
  BY <1>0
<1>1. S \in SUBSET Keys /\ T \in SUBSET Keys /\ Cardinality(S) <= MaxEntries
      /\ IsFiniteSet(S) /\ Cardinality(S) \in Nat /\ IsFiniteSet(T) /\ Cardinality(T) \in Nat
  <2>1. S \in SUBSET Keys /\ T \in SUBSET Keys
    BY <1>0 DEF L!Stored
  <2> QED BY <2>1, <1>0, LimitCardinality, LimitTypes
<1>2. CASE T \subseteq S
  <2>1. Cardinality(T) <= Cardinality(S)
    BY <1>1, <1>2, FS_Subset
  <2> QED BY <1>1, <2>1, LimitBounds
<1>3. CASE T \subseteq S \cup {k} /\ Cardinality(S) < MaxEntries
  <2>1. IsFiniteSet(S \cup {k}) /\ Cardinality(S \cup {k}) \in Nat /\ Cardinality(S \cup {k}) <= Cardinality(S) + 1
    <3>1. IsFiniteSet(S \cup {k})
      BY <1>1, FS_AddElement
    <3>2. Cardinality(S \cup {k}) = IF k \in S THEN Cardinality(S) ELSE Cardinality(S) + 1
      BY <1>1, FS_AddElement
    <3> QED BY <1>1, <3>1, <3>2
  <2>2. Cardinality(T) <= Cardinality(S \cup {k})
    BY <1>3, <2>1, FS_Subset
  <2> QED BY <1>1, <1>3, <2>1, <2>2, LimitBounds
<1>4. ASSUME NEW old \in S, T \subseteq (S \ {old}) \cup {k}
      PROVE  Cardinality(T) <= MaxEntries
  <2>1. IsFiniteSet(S \ {old}) /\ Cardinality(S \ {old}) = Cardinality(S) - 1
    BY <1>1, FS_RemoveElement
  <2>2. /\ IsFiniteSet((S \ {old}) \cup {k})
        /\ Cardinality((S \ {old}) \cup {k}) \in Nat
        /\ Cardinality((S \ {old}) \cup {k}) <= Cardinality(S)
    <3>1. Cardinality((S \ {old}) \cup {k}) \in {Cardinality(S \ {old}), Cardinality(S \ {old}) + 1}
          /\ IsFiniteSet((S \ {old}) \cup {k})
      BY <2>1, FS_AddElement
    <3> QED BY <1>1, <2>1, <3>1, FS_CardinalityType
  <2>3. Cardinality(T) <= Cardinality((S \ {old}) \cup {k})
    BY <1>4, <2>2, FS_Subset
  <2> QED BY <1>1, <2>2, <2>3, LimitBounds
<1> QED BY <1>2, <1>3, <1>4, <1>0

LEMMA Opening ==
  ASSUME LimitInv, NEW k \in Keys, ~L!Running(k), v1' = v1, L!Admitted(k),
         v4' \in BOOLEAN, v4 => v4', v2' \in [Keys -> Counters], v2'[k] = L!FirstOfWindow,
         Cardinality(L!Stored') <= MaxEntries,
         k # Watched /\ ~v4' => v2'[Watched] = v2[Watched]
                                \/ (~L!Running(Watched) /\ v2'[Watched] = L!NoEntry)
  PROVE  LimitInv'
<1>0. v1 \in 0..MaxClock /\ v1 <= v1' /\ v1' \in Nat
  BY LimitTypes
<1>1. v3' = v3 \/ v3' = Append(v3, v1)
  BY DEF L!Admitted
<1>2. ~v4' => \E M \in SUBSET Passed' : Marked(M)'
  <2>1. CASE k = Watched
    BY <2>1, Marking DEF L!Admitted
  <2>2. CASE k # Watched
    <3>1. UNCHANGED v3
      BY <2>2 DEF L!Admitted
    <3> QED BY <1>0, <2>2, <3>1, Standing
  <2> QED BY <2>1, <2>2
<1> QED BY <1>0, <1>1, <1>2, Limiting

LEMMA LimitStep == LimitInv /\ [L!Next]_<<v1, v2, v3, v4>> => LimitInv'
<1> SUFFICES ASSUME LimitInv, [L!Next]_<<v1, v2, v3, v4>> PROVE LimitInv'
  OBVIOUS
<1>0. /\ v1 \in 0..MaxClock /\ v1 \in Nat /\ v2 \in [Keys -> Counters] /\ v4 \in BOOLEAN
      /\ Cardinality(L!Stored) <= MaxEntries /\ Watched \in Keys
  BY LimitTypes, LimitBounds
<1>1. ASSUME UNCHANGED <<v1, v3, v4>>, v2' \in [Keys -> Counters], L!Stored' \subseteq L!Stored,
             v2'[Watched] = v2[Watched] \/ (~L!Running(Watched) /\ v2'[Watched] = L!NoEntry)
      PROVE  LimitInv'
  <2>1. Cardinality(L!Stored') <= MaxEntries
    BY <1>0, <1>1, Capacity
  <2>2. ~v4' => \E M \in SUBSET Passed' : Marked(M)'
    BY <1>0, <1>1, Standing
  <2>3. v4' \in BOOLEAN /\ v1 <= v1' /\ v1' \in 0..MaxClock /\ v3' = v3
    BY <1>0, <1>1
  <2> QED BY <1>1, <2>1, <2>2, <2>3, Limiting
<1>2. CASE UNCHANGED <<v1, v2, v3, v4>>
  <2>1. L!Stored' = L!Stored
    BY <1>2 DEF L!Stored, L!Counted
  <2> QED BY <1>0, <1>1, <1>2, <2>1
<1>3. ASSUME NEW k \in Keys, L!Open(k) PROVE LimitInv'
  <2>1. /\ ~L!Running(k) /\ v2' = [v2 EXCEPT ![k] = L!FirstOfWindow]
        /\ L!Admitted(k) /\ UNCHANGED <<v1, v4>>
        /\ L!Counted(k) \/ Cardinality(L!Stored) < MaxEntries
    BY <1>3, LimitCardinality DEF L!Open
  <2>2. v2' \in [Keys -> Counters] /\ v2'[k] = L!FirstOfWindow
    BY <1>0, <2>1, CounterKinds
  <2>3. L!Stored' \subseteq L!Stored \cup {k}
    BY <1>0, <2>1 DEF L!Stored, L!Counted
  <2>4. L!Counted(k) => L!Stored' \subseteq L!Stored
    BY <2>3 DEF L!Stored
  <2>5. Cardinality(L!Stored') <= MaxEntries
    BY <2>1, <2>2, <2>3, <2>4, Capacity
  <2>6. k # Watched => v2'[Watched] = v2[Watched]
    BY <1>0, <2>1
  <2> QED BY <1>0, <2>1, <2>2, <2>5, <2>6, Opening
<1>4. ASSUME NEW k \in Keys, L!OpenByEviction(k) PROVE LimitInv'
  <2>1. PICK old \in L!Oldest :
          v2' = [v2 EXCEPT ![old] = L!NoEntry, ![k] = L!FirstOfWindow] /\ L!Dropped(old)
    BY <1>4 DEF L!OpenByEviction
  <2>2. ~L!Counted(k) /\ L!Admitted(k) /\ UNCHANGED v1
    BY <1>4 DEF L!OpenByEviction
  <2>3. old \in L!Stored /\ old \in Keys /\ L!Counted(old) /\ old # k
    BY <2>2 DEF L!Oldest, L!Stored
  <2>4. v2' \in [Keys -> Counters] /\ v2'[k] = L!FirstOfWindow /\ v2'[old] = L!NoEntry
        /\ \A o \in Keys \ {k, old} : v2'[o] = v2[o]
    BY <1>0, <2>1, <2>3, CounterKinds
  <2>5. L!Stored' \subseteq (L!Stored \ {old}) \cup {k}
    BY <2>4 DEF L!Stored, L!Counted
  <2>6. Cardinality(L!Stored') <= MaxEntries
    BY <2>3, <2>4, <2>5, Capacity
  <2>7. v4' = (v4 \/ (old = Watched /\ L!Running(old)))
    BY <2>1 DEF L!Dropped
  <2>8. v4' \in BOOLEAN /\ (v4 => v4')
    BY <1>0, <2>7
  <2>9. k # Watched /\ ~v4' => v2'[Watched] = v2[Watched]
                               \/ (~L!Running(Watched) /\ v2'[Watched] = L!NoEntry)
    BY <1>0, <2>4, <2>7
  <2>10. ~L!Running(k)
    BY <2>2 DEF L!Running
  <2> QED BY <2>2, <2>4, <2>6, <2>8, <2>9, <2>10, Opening
<1>5. ASSUME NEW k \in Keys, L!CountMore(k) PROVE LimitInv'
  <2> DEFINE c == v2[k].count
             more == IF c > MaxRequests THEN c ELSE c + 1
  <2>1. /\ L!Running(k) /\ v2' = [v2 EXCEPT ![k] = [v2[k] EXCEPT !.count = more]]
        /\ IF c + 1 > MaxRequests THEN UNCHANGED v3 ELSE L!Admitted(k)
        /\ UNCHANGED <<v1, v4>>
    BY <1>0, <1>5 DEF L!CountMore
  <2>2. c \in Nat /\ more \in Nat /\ v2[k] \in Counters
    BY <1>0 DEF Counters
  <2> HIDE DEF more
  <2>3. /\ [v2[k] EXCEPT !.count = more] \in Counters
        /\ [v2[k] EXCEPT !.count = more].count = more
        /\ [v2[k] EXCEPT !.count = more].resetAt = v2[k].resetAt
    BY <2>2 DEF Counters
  <2>4. v2' \in [Keys -> Counters] /\ v2'[k].count = more /\ v2'[k].resetAt = v2[k].resetAt
        /\ \A o \in Keys \ {k} : v2'[o] = v2[o]
    BY <1>0, <2>1, <2>3
  <2>5. L!Stored' \subseteq L!Stored
    BY <2>1, <2>4 DEF L!Stored, L!Counted, L!Running
  <2>6. Cardinality(L!Stored') <= MaxEntries
    BY <2>4, <2>5, Capacity
  <2>7. ~v4' => \E M \in SUBSET Passed' : Marked(M)'
    <3>1. CASE k = Watched /\ ~v4
      <4>1. IF v2[Watched].count + 1 > MaxRequests THEN v3' = v3 ELSE v3' = Append(v3, v1)
        BY <2>1, <3>1 DEF L!Admitted
      <4>2. v2'[Watched].count =
              IF v2[Watched].count > MaxRequests THEN v2[Watched].count ELSE v2[Watched].count + 1
        BY <2>4, <3>1 DEF more
      <4> QED BY <2>1, <2>4, <3>1, <4>1, <4>2, Filling
    <3>2. CASE k # Watched /\ ~v4
      <4>1. UNCHANGED v3 /\ v2'[Watched] = v2[Watched]
        BY <1>0, <2>1, <2>4, <3>2 DEF L!Admitted
      <4>2. v1 <= v1' /\ v1' \in Nat
        BY <1>0, <2>1
      <4> QED BY <3>2, <4>1, <4>2, Standing
    <3> QED BY <2>1, <3>1, <3>2
  <2>8. \/ v3' = v3 /\ v1 <= v1' /\ v1' \in 0..MaxClock
        \/ v3' = Append(v3, v1) /\ v1' = v1
    BY <1>0, <2>1 DEF L!Admitted
  <2>9. v4' \in BOOLEAN
    BY <1>0, <2>1
  <2> QED BY <2>4, <2>6, <2>7, <2>8, <2>9, Limiting
<1>6. CASE L!Cleanup
  <2>1. /\ v2' = [k \in Keys |-> IF v1 > v2[k].resetAt THEN L!NoEntry ELSE v2[k]]
        /\ UNCHANGED <<v1, v3, v4>>
    BY <1>6 DEF L!Cleanup
  <2>2. v2' \in [Keys -> Counters]
    BY <1>0, <2>1, CounterKinds
  <2>3. L!Stored' \subseteq L!Stored
    BY <2>1 DEF L!Stored, L!Counted
  <2>4. v2'[Watched] = v2[Watched] \/ (~L!Running(Watched) /\ v2'[Watched] = L!NoEntry)
    <3>1. v2[Watched].resetAt \in Nat
      BY <1>0, LimitBounds DEF Counters
    <3> QED BY <1>0, <2>1, <3>1 DEF L!Running
  <2> QED BY <1>1, <2>1, <2>2, <2>3, <2>4
<1>7. CASE L!Restart
  <2>1. /\ v2' = [k \in Keys |-> L!NoEntry] /\ UNCHANGED <<v1, v3>>
        /\ v4' = (v4 \/ L!Running(Watched))
    BY <1>7 DEF L!Restart
  <2>2. v2' \in [Keys -> Counters] /\ v2'[Watched] = L!NoEntry
    BY <1>0, <2>1, CounterKinds
  <2>3. L!Stored' \subseteq L!Stored
    BY <2>1 DEF L!Stored, L!Counted
  <2>4. Cardinality(L!Stored') <= MaxEntries
    BY <1>0, <2>2, <2>3, Capacity
  <2>5. ~v4' => \E M \in SUBSET Passed' : Marked(M)'
    <3> SUFFICES ASSUME ~v4' PROVE \E M \in SUBSET Passed' : Marked(M)'
      OBVIOUS
    <3>1. ~v4 /\ ~L!Running(Watched)
      BY <2>1
    <3>2. UNCHANGED v3 /\ v1 <= v1' /\ v1' \in Nat
      BY <1>0, <2>1
    <3> QED BY <2>2, <3>1, <3>2, Standing
  <2>6. v4' \in BOOLEAN /\ v1 <= v1' /\ v1' \in 0..MaxClock /\ v3' = v3
    <3>1. v4' = v4 \/ v4' = TRUE
      BY <1>0, <2>1
    <3> QED BY <1>0, <2>1, <3>1
  <2> QED BY <2>2, <2>4, <2>5, <2>6, Limiting
<1>8. CASE L!Tick
  <2>1. v1 < MaxClock /\ v1' = v1 + 1 /\ UNCHANGED <<v2, v3, v4>>
    BY <1>8 DEF L!Tick
  <2>2. v1' \in 0..MaxClock /\ v1 <= v1' /\ v1' \in Nat
    BY <1>0, <2>1, LimitBounds
  <2>3. L!Stored' = L!Stored
    BY <2>1 DEF L!Stored, L!Counted
  <2>4. Cardinality(L!Stored') <= MaxEntries /\ v2' \in [Keys -> Counters] /\ v4' \in BOOLEAN
    BY <1>0, <2>1, <2>3
  <2>5. ~v4' => \E M \in SUBSET Passed' : Marked(M)'
    BY <2>1, <2>2, Standing
  <2> QED BY <2>1, <2>2, <2>4, <2>5, Limiting
<1> QED BY <1>2, <1>3, <1>4, <1>5, <1>6, <1>7, <1>8 DEF L!Next

--------------------------------------------------------------------------------
(* Two windows at most meet in a stretch of time as long as one.              *)
LEMMA LeastPassed ==
  ASSUME NEW S \in SUBSET Nat, S # {}
  PROVE  \E m \in S : \A i \in S : m <= i
<1>1. \E m \in S : \A i \in S : <<i, m>> \notin OpToRel(<, Nat)
  BY WFMin, NatLessThanWellFounded
<1>2. ASSUME NEW m \in S, NEW i \in S, <<i, m>> \notin OpToRel(<, Nat) PROVE m <= i
  <2>1. m \in Nat /\ i \in Nat /\ <<i, m>> \in Nat \X Nat
    OBVIOUS
  <2>2. ~(<<i, m>>[1] < <<i, m>>[2])
    BY <1>2, <2>1, Zenon DEF OpToRel
  <2> QED BY <2>1, <2>2
<1> QED BY <1>1, <1>2

LEMMA TwiceAtMost == LimitInv => L!AtMostTwice
<1> SUFFICES ASSUME LimitInv, ~v4, NEW t \in 0..(MaxClock - Window)
             PROVE  L!PassedWithin(t, t + Window) <= 2 * MaxRequests
  BY DEF L!AtMostTwice
<1> DEFINE S == {i \in DOMAIN v3 : v3[i] \in t..(t + Window)}
           Limit == MaxRequests
<1>1. PICK M \in SUBSET Passed : Marked(M)
  BY DEF LimitInv
<1>2. /\ Len(v3) \in Nat /\ t \in Nat /\ Limit \in Nat \ {0} /\ Window \in Nat
      /\ S \in SUBSET Passed /\ DOMAIN v3 = Passed
      /\ \A i \in Passed : v3[i] \in Nat /\ i \in Nat
  <2>1. v3 \in Seq(0..MaxClock)
    BY LimitTypes
  <2>2. DOMAIN v3 = Passed
    BY <2>1 DEF Passed
  <2> QED BY <2>2, LimitTypes, LimitBounds DEF Passed
<1>3. /\ \A i, j \in M : i < j => v3[i] + Window < v3[j]
      /\ \A i \in Passed : i + Limit <= Len(v3) => \E j \in M : i < j /\ j <= i + Limit
  BY <1>1, Zenon DEF Marked
<1>4. ASSUME NEW m \in Passed, m + 2 * Limit <= Len(v3) PROVE v3[m] + Window < v3[m + 2 * Limit]
  <2>1. PICK j \in M : m < j /\ j <= m + Limit
    <3>1. m + Limit <= Len(v3)
      BY <1>2, <1>4
    <3> QED BY <1>3, <3>1
  <2>2. m + Limit \in Passed /\ (m + Limit) + Limit = m + 2 * Limit
    BY <1>2, <1>4 DEF Passed
  <2>3. PICK k \in M : m + Limit < k /\ k <= m + 2 * Limit
    <3>1. (m + Limit) + Limit <= Len(v3)
      BY <1>4, <2>2
    <3>2. \E k \in M : m + Limit < k /\ k <= (m + Limit) + Limit
      BY <1>3, <2>2, <3>1
    <3> QED BY <2>2, <3>2
  <2>4. j \in Passed /\ k \in Passed /\ m + 2 * Limit \in Passed /\ j < k
    BY <1>1, <1>2, <1>4, <2>1, <2>3 DEF Passed
  <2>5. v3[j] + Window < v3[k]
    BY <1>3, <2>4
  <2>6. v3[m] <= v3[j] /\ v3[k] <= v3[m + 2 * Limit]
    <3>1. m <= j /\ k <= m + 2 * Limit
      BY <1>2, <2>1, <2>3, <2>4, SMTT(30)
    <3> QED BY <2>4, <3>1, LimitOrder
  <2>7. /\ v3[m] \in Nat /\ v3[j] \in Nat /\ v3[k] \in Nat
        /\ v3[m + 2 * Limit] \in Nat /\ Window \in Nat
    BY <1>2, <2>4
  <2> QED BY <2>5, <2>6, <2>7, SMTT(30)
<1>5. CASE S = {}
  <2>1. Cardinality(S) = 0
    BY <1>5, FS_EmptySet
  <2> QED BY <1>2, <2>1, LimitCardinality DEF L!PassedWithin
<1>6. CASE S # {}
  <2>1. S \in SUBSET Nat
    BY <1>2
  <2> HIDE DEF S
  <2>2. PICK m \in S : \A i \in S : m <= i
    BY <1>6, <2>1, LeastPassed
  <2>3. ASSUME NEW i \in S PROVE i \in m..(m + 2 * Limit - 1)
    <3>1. v3[i] <= t + Window /\ t <= v3[m] /\ i \in Passed /\ m \in Passed
      BY <1>2 DEF S
    <3>2. CASE i >= m + 2 * Limit
      <4>1. m + 2 * Limit \in Passed /\ m + 2 * Limit <= Len(v3)
        BY <1>2, <3>1, <3>2 DEF Passed
      <4>2. v3[m] + Window < v3[m + 2 * Limit] /\ v3[m + 2 * Limit] <= v3[i]
        BY <1>4, <3>1, <3>2, <4>1, LimitOrder
      <4> QED BY <1>2, <3>1, <4>1, <4>2, SMTT(30)
    <3> QED BY <1>2, <2>2, <3>1, <3>2
  <2>4. PICK last : last = m + 2 * Limit - 1
    OBVIOUS
  <2>5. m \in Int /\ last \in Int /\ m <= last /\ last - m + 1 = 2 * Limit
    BY <1>2, <2>1, <2>4
  <2>6. IsFiniteSet(m..last) /\ Cardinality(m..last) = 2 * Limit
    <3>1. IsFiniteSet(m..last)
      BY <2>5, FS_Interval
    <3>2. Cardinality(m..last) = IF m > last THEN 0 ELSE last - m + 1
      BY <2>5, FS_Interval
    <3> QED BY <2>5, <3>1, <3>2
  <2>7. S \subseteq m..last
    BY <2>3, <2>4
  <2>8. Cardinality(S) <= 2 * Limit
    BY <2>6, <2>7, FS_Subset
  <2> QED BY <2>8, LimitCardinality DEF S, L!PassedWithin
<1> QED BY <1>5, <1>6

LEMMA SpentBefore == LimitInv => L!RefusedOnlyWhenSpent
<1> SUFFICES ASSUME LimitInv, ~v4, L!Running(Watched), v2[Watched].count > MaxRequests
             PROVE  L!PassedWithin(v2[Watched].resetAt - Window, v1) >= MaxRequests
  BY DEF L!RefusedOnlyWhenSpent
<1> DEFINE n == Len(v3)
           from == v2[Watched].resetAt - Window
           S == {i \in DOMAIN v3 : v3[i] \in from..v1}
<1>1. PICK M \in SUBSET Passed : Marked(M)
  BY DEF LimitInv
<1>2. /\ Len(v3) \in Nat /\ v1 \in Nat /\ Window \in Nat /\ MaxRequests \in Nat \ {0}
      /\ DOMAIN v3 = Passed /\ v2[Watched].count \in Nat
      /\ \A i \in Passed : v3[i] \in Nat /\ i \in Nat
  <2>1. v3 \in Seq(0..MaxClock)
    BY LimitTypes
  <2>2. DOMAIN v3 = Passed
    BY <2>1 DEF Passed
  <2>3. v2[Watched] \in Counters
    BY LimitTypes, LimitBounds
  <2> QED BY <2>2, <2>3, LimitTypes, LimitBounds DEF Passed, Counters
<1>3. PICK m \in M :
        /\ \A j \in M : j <= m
        /\ v2[Watched].resetAt = v3[m] + Window
        /\ (Len(v3) + 1) - m =
             IF v2[Watched].count < MaxRequests THEN v2[Watched].count ELSE MaxRequests
  <2>1. L!Counted(Watched)
    BY DEF L!Running
  <2> QED BY <1>1, <2>1, Zenon DEF Marked
<1>4. m \in Passed /\ (Len(v3) + 1) - m = MaxRequests /\ from = v3[m]
  BY <1>1, <1>2, <1>3
<1>5. m..Len(v3) \subseteq S
  <2> SUFFICES ASSUME NEW i \in m..Len(v3) PROVE i \in S
    OBVIOUS
  <2>1. i \in Passed /\ m <= i
    BY <1>2, <1>4 DEF Passed
  <2>2. v3[m] <= v3[i] /\ v3[i] <= v1
    BY <1>4, <2>1, LimitOrder
  <2> QED BY <1>2, <1>4, <2>1, <2>2
<1>6. Cardinality(m..Len(v3)) = MaxRequests
  <2>1. m \in Int /\ Len(v3) \in Int /\ m <= Len(v3)
    BY <1>2, <1>4 DEF Passed
  <2> QED BY <1>4, <2>1, FS_Interval
<1>7. IsFiniteSet(S)
  <2>1. IsFiniteSet(1..Len(v3))
    <3>1. 1 \in Int /\ Len(v3) \in Int
      BY <1>2
    <3> QED BY <3>1, FS_Interval
  <2> QED BY <1>2, <2>1, FS_Subset DEF Passed
<1> HIDE DEF S, from
<1>8. Cardinality(S) >= MaxRequests
  BY <1>2, <1>5, <1>6, <1>7, FS_Subset, FS_CardinalityType
<1> QED BY <1>8, LimitCardinality DEF S, from, L!PassedWithin
--------------------------------------------------------------------------------
(* The component that moves keeps its invariant; the others stand still.      *)
BP == INSTANCE TaskBoardProofs WITH
       row <- v1, writes <- v2, attached <- v3, pipe <- v4, stream <- v5, tries <- v6,
       mounted <- v7, cards <- v8, fetch <- v9, move <- v10, drags <- v11, had <- v12,
       crossed <- v13, doubt <- v14

CP == INSTANCE ChatProofs WITH
       message <- v1, post <- v2, streaming <- v3, events <- v4, active <- v5, shown <- v6,
       load <- v7, typed <- v8, overtook <- v9, unheard <- v10, refused <- v11, unsure <- v12

EdgesInv ==
  /\ AccessInv
  /\ moves = "limiter" => LimitInv
  /\ moves = "recurring" => RecurringInv
  /\ moves = "chat" => CP!ChatInv
  /\ moves = "board" => BP!BoardInv

LEMMA SameBoard ==
  /\ B!Parameters <=> BP!Parameters
  /\ B!Init <=> BP!Init
  /\ B!Next <=> BP!Next
  /\ B!TypeOK <=> BP!TypeOK
  /\ B!BoardIsTrue <=> BP!BoardIsTrue
BY DEF B!server, BP!server, B!channel, BP!channel, B!moving, BP!moving, B!vars, BP!vars,
       B!Absent, BP!Absent, B!Parameters, BP!Parameters, B!NoMove, BP!NoMove, B!NoFetch,
       BP!NoFetch, B!Asked, BP!Asked, B!Rows, BP!Rows, B!Events, BP!Events, B!TypeOK,
       BP!TypeOK, B!Init, BP!Init, B!Present, BP!Present, B!Coming, BP!Coming, B!Shown,
       BP!Shown, B!Under, BP!Under, B!Moved, BP!Moved, B!Broadcast, BP!Broadcast, B!Told,
       BP!Told, B!Write, BP!Write, B!CreateTask, BP!CreateTask, B!ChangeTask, BP!ChangeTask,
       B!DeleteTask, BP!DeleteTask, B!Attach, BP!Attach, B!OnOpen, BP!OnOpen, B!Break,
       BP!Break, B!OnError, BP!OnError, B!Retry, BP!Retry, B!updateTask, BP!updateTask,
       B!After, BP!After, B!OnMessage, BP!OnMessage, B!Mount, BP!Mount, B!fetchData,
       BP!fetchData, B!Paused, BP!Paused, B!Poll, BP!Poll, B!Refresh, BP!Refresh, B!Served,
       BP!Served, B!FetchFails, BP!FetchFails, B!Replaced, BP!Replaced, B!Fetched,
       BP!Fetched, B!Drag, BP!Drag, B!Optimistic, BP!Optimistic, B!Drop, BP!Drop, B!Checked,
       BP!Checked, B!PutApplied, BP!PutApplied, B!OthersLeft, BP!OthersLeft, B!Accepted,
       BP!Accepted, B!TakenBack, BP!TakenBack, B!Next, BP!Next, B!BoardIsTrue, BP!BoardIsTrue,
       B!InStep, BP!InStep, B!ShownWasTrue, BP!ShownWasTrue

LEMMA SameChat ==
  /\ C!Parameters <=> CP!Parameters
  /\ C!Init <=> CP!Init
  /\ C!Next <=> CP!Next
  /\ C!TypeOK <=> CP!TypeOK
  /\ C!ChatIsTrue <=> CP!ChatIsTrue
BY DEF C!Answer, CP!Answer, C!None, CP!None, C!Parameters, CP!Parameters,
       C!server, CP!server, C!stream, CP!stream, C!person, CP!person,
       C!history, CP!history, C!vars, CP!vars, C!Said, CP!Said, C!Ids, CP!Ids,
       C!Idle, CP!Idle, C!NoLoad, CP!NoLoad, C!Entries, CP!Entries, C!TypeOK, CP!TypeOK,
       C!Init, CP!Init, C!Here, CP!Here, C!Temp, CP!Temp, C!Shows, CP!Shows,
       C!Elements, CP!Elements, C!Coming, CP!Coming, C!Untold, CP!Untold, C!Of, CP!Of,
       C!Missing, CP!Missing, C!InOrder, CP!InOrder, C!slice, CP!slice,
       C!addChatMessage, CP!addChatMessage, C!PushedOut, CP!PushedOut, C!IsTemp, CP!IsTemp,
       C!replacePendingMessage, CP!replacePendingMessage,
       C!updatePendingMessage, CP!updatePendingMessage,
       C!removePendingMessage, CP!removePendingMessage, C!StartPost, CP!StartPost,
       C!Send, CP!Send, C!Failed, CP!Failed, C!Retry, CP!Retry,
       C!RemoveFailed, CP!RemoveFailed, C!AskFor, CP!AskFor,
       C!OpenConversation, CP!OpenConversation, C!CloseConversation, CP!CloseConversation,
       C!Row, CP!Row, C!Reply, CP!Reply, C!Insert, CP!Insert, C!Broadcast, CP!Broadcast,
       C!Goes, CP!Goes, C!Received, CP!Received, C!Forwarded, CP!Forwarded,
       C!RunReported, CP!RunReported, C!OthersSend, CP!OthersSend, C!Refused, CP!Refused,
       C!Answered, CP!Answered, C!AnsweredWithout, CP!AnsweredWithout,
       C!PostFails, CP!PostFails, C!HandlerStops, CP!HandlerStops, C!OnOpen, CP!OnOpen,
       C!OnError, CP!OnError, C!OnMessage, CP!OnMessage, C!Poll, CP!Poll,
       C!FirstPage, CP!FirstPage, C!Served, CP!Served, C!Loaded, CP!Loaded,
       C!LoadFails, CP!LoadFails, C!Next, CP!Next, C!ShownOnce, CP!ShownOnce,
       C!SendingIsSent, CP!SendingIsSent, C!SaidOnce, CP!SaidOnce,
       C!NothingMissed, CP!NothingMissed, C!ChatIsTrue, CP!ChatIsTrue,
       C!Cardinality, CP!Cardinality, C!IsFiniteSet, CP!IsFiniteSet

LEMMA ChatKept ==
  CP!ChatInv /\ UNCHANGED <<v1, v2, v3, v4, v5, v6, v7, v8, v9, v10, v11, v12>> => CP!ChatInv'
<1>1. UNCHANGED <<v1, v2, v3, v4, v5, v6, v7, v8, v9, v10, v11, v12>> => UNCHANGED CP!vars
  BY DEF CP!vars, CP!server, CP!stream, CP!person, CP!history
<1> QED BY <1>1, CP!ChatNext

LEMMA BoardKept ==
  BP!BoardInv /\ UNCHANGED <<v1, v2, v3, v4, v5, v6, v7, v8, v9, v10, v11, v12, v13, v14>>
    => BP!BoardInv'
<1>1. UNCHANGED <<v1, v2, v3, v4, v5, v6, v7, v8, v9, v10, v11, v12, v13, v14>>
        => UNCHANGED BP!vars
  BY DEF BP!vars, BP!server, BP!channel, BP!moving
<1> QED BY <1>1, BP!BoardNext

LEMMA EdgesInit == InitAll => EdgesInv
<1> SUFFICES ASSUME InitAll PROVE EdgesInv
  OBVIOUS
<1>1. moves = "limiter" => L!Init
  BY DEF InitAll
<1>2. moves = "recurring" => R!Init
  BY DEF InitAll
<1>3. moves = "board" => B!Init
  BY DEF InitAll
<1>4. moves = "chat" => C!Init
  BY DEF InitAll
<1>5. AccessInv
  BY AccessInit DEF InitAll
<1>6. moves = "chat" => CP!ChatInv
  BY <1>4, SameChat, ChatParameters, CP!ChatInit
<1>7. moves = "board" => BP!BoardInv
  BY <1>3, SameBoard, BoardParameters, BP!BoardInit
<1> QED BY <1>1, <1>2, <1>5, <1>6, <1>7, LimitInit, RecurringInit DEF EdgesInv

LEMMA EdgesMoves ==
  ASSUME [NextAll]_allVars
  PROVE  /\ UNCHANGED moves
         /\ [Next]_vars
         /\ moves = "limiter" => [L!Next]_<<v1, v2, v3, v4>>
         /\ moves = "recurring" => [R!Next]_<<v1, v2, v3, v4, v5, v6>>
         /\ moves = "chat" =>
              C!Next \/ UNCHANGED <<v1, v2, v3, v4, v5, v6, v7, v8, v9, v10, v11, v12>>
         /\ moves = "board" =>
              \/ B!Next
              \/ UNCHANGED <<v1, v2, v3, v4, v5, v6, v7, v8, v9, v10, v11, v12, v13, v14>>
<1>1. CASE UNCHANGED allVars
  BY <1>1 DEF allVars, accessVars, vars, from1, from5, from7, from13
<1>2. CASE NextAll
  BY <1>2 DEF NextAll, accessVars, vars
<1> QED BY <1>1, <1>2

LEMMA EdgesStep == EdgesInv /\ [NextAll]_allVars => EdgesInv'
<1> SUFFICES ASSUME EdgesInv, [NextAll]_allVars PROVE EdgesInv'
  OBVIOUS
<1>1. AccessInv'
  BY EdgesMoves, AccessStep DEF EdgesInv
<1>2. moves = "limiter" => LimitInv'
  BY EdgesMoves, LimitStep DEF EdgesInv
<1>3. moves = "recurring" => RecurringInv'
  BY EdgesMoves, RecurringStep DEF EdgesInv
<1>4. ASSUME moves = "chat" PROVE CP!ChatInv'
  <2>1. CP!ChatInv
    BY <1>4 DEF EdgesInv
  <2> QED BY <1>4, <2>1, EdgesMoves, SameChat, ChatKept, CP!ChatNext
<1>5. ASSUME moves = "board" PROVE BP!BoardInv'
  <2>1. BP!BoardInv
    BY <1>5 DEF EdgesInv
  <2> QED BY <1>5, <2>1, EdgesMoves, SameBoard, BoardKept, BP!BoardNext
<1> QED BY <1>1, <1>2, <1>3, <1>4, <1>5, EdgesMoves DEF EdgesInv

(* In no span of time longer than a window do more than two allowances pass,  *)
(* unless the counter was lost; a request is refused only where one is spent. *)
(* The windows are a history: the counter knows the latest only.              *)
THEOREM LimiterLimits == SpecAll => []LimitIsKept
<1>1. EdgesInv => LimitIsKept
  BY TwiceAtMost, SpentBefore DEF EdgesInv, LimitIsKept, L!LimitIsKept
<1> QED BY <1>1, EdgesInit, EdgesStep, PTL DEF SpecAll

(* A date has one child, whatever stale copy of the template is written back; *)
(* without a project it has two only after such a copy; and none is withheld  *)
(* but for a twin, of this minute or of a year before.                        *)
THEOREM TwinsPrevented == SpecAll => TwinsArePrevented
<1>1. EdgesInv => (moves = "recurring" => R!OneChildPerTitle /\ R!WithheldForATwin)
  BY Withholding DEF EdgesInv
<1>2. EdgesInv /\ [NextAll]_allVars => [moves = "recurring" => R!TwiceAfterSetBack]_allVars
  BY EdgesMoves, TwiceOnlyThen DEF EdgesInv
<1> QED BY <1>1, <1>2, EdgesInit, EdgesStep, PTL DEF SpecAll, TwinsArePrevented

(* The board beside the other four: as TaskBoardProofs shows it alone.        *)
THEOREM BoardStaysTrue == SpecAll => []BoardIsTrue
<1>1. EdgesInv => BoardIsTrue
  BY BP!BoardSafe, SameBoard DEF EdgesInv, BoardIsTrue
<1> QED BY <1>1, EdgesInit, EdgesStep, PTL DEF SpecAll

(* The chat beside the other four: as ChatProofs shows it alone.              *)
THEOREM ChatStaysTrue == SpecAll => []ChatIsTrue
<1>1. EdgesInv => ChatIsTrue
  BY CP!ChatSafe, SameChat DEF EdgesInv, ChatIsTrue
<1> QED BY <1>1, EdgesInit, EdgesStep, PTL DEF SpecAll

(* The types of all five: of those that move and of the accounts always.      *)
THEOREM EdgeTypes == SpecAll => []TypesOK
<1>1. EdgesInv => TypeOK
  BY DEF EdgesInv, AccessInv
<1>2. EdgesInv => (moves = "limiter" => L!TypeOK)
  BY DEF EdgesInv, LimitInv
<1>3. EdgesInv => (moves = "recurring" => R!TypeOK)
  BY DEF EdgesInv, RecurringInv
<1>4. EdgesInv => (moves = "chat" => C!TypeOK)
  BY CP!ChatSafe, SameChat DEF EdgesInv
<1>5. EdgesInv => (moves = "board" => B!TypeOK)
  BY BP!BoardSafe, SameBoard DEF EdgesInv
<1>6. EdgesInv => TypesOK
  BY <1>1, <1>2, <1>3, <1>4, <1>5 DEF TypesOK
<1> QED BY <1>6, EdgesInit, EdgesStep, PTL DEF SpecAll
================================================================================
