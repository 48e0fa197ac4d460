-------------------------------- MODULE Access --------------------------------
(****************************************************************************)
(* Accounts, sessions and access requests: lib/auth.ts and the routes       *)
(* auth/login, auth/logout, auth/me, auth/users, auth/access-requests,      *)
(* auth/google, auth/google/disconnect and setup.                           *)
(*                                                                          *)
(* A handler that identifies its caller and then awaits the body of its     *)
(* request is two steps: between them the caller may be demoted, deleted or *)
(* signed out, and everything else may change too. What was read before the *)
(* await is kept in pending. The synchronous handlers are one step. The     *)
(* rate limiters in front of the handlers are the module RateLimit: here a  *)
(* refused request is a step that is not taken.                             *)
(****************************************************************************)
EXTENDS Naturals, FiniteSets

CONSTANTS
  Persons,      \* people; an account belongs to one, a person may have several
  MaxAccounts,  \* bound: rows ever inserted into users
  Tokens,       \* session tokens
  Clients,      \* requests in flight
  Forms,        \* what administrators fill in for a new account
  MaxChanges    \* bound: password changes per account by its person

ASSUME AccessAssumption ==
  /\ MaxAccounts \in Nat \ {0}
  /\ MaxChanges \in Nat
  /\ Forms \subseteq [email : BOOLEAN, provider : {"local", "google"}, admin : BOOLEAN]

Ids == 1..MaxAccounts
Api == 0        \* the id of the caller with the global API key

NoAccount == [person |-> "none"]
NoSession == [account |-> Api, changes |-> 0]
Idle == [op |-> "none", by |-> Api]

VARIABLES
  account,   \* the users table
  nextId,    \* its AUTOINCREMENT
  session,   \* the user_sessions table: account and its password at that time
  request,   \* access_requests.status of each person
  pending    \* requests in flight: what each has read before it awaits its body

vars == <<account, nextId, session, request, pending>>

(* known: the person knows the password. setup and changes are history:     *)
(* made by the setup page, and how often the person changed the password.   *)
Accounts ==
  [person : Persons, email : BOOLEAN, provider : {"local", "google"},
   admin : BOOLEAN, approved : BOOLEAN, known : BOOLEAN,
   setup : BOOLEAN, changes : 0..MaxChanges]

TypeOK ==
  /\ account \in [Ids -> Accounts \cup {NoAccount}]
  /\ nextId \in 1..(MaxAccounts + 1)
  /\ session \in [Tokens -> [account : Ids, changes : 0..MaxChanges] \cup {NoSession}]
  /\ request \in [Persons -> {"none", "pending", "approved", "rejected"}]
  /\ pending \in [Clients -> [op : {"admin", "password", "setup"}, by : Ids \cup {Api}]
                             \cup {Idle}]

Exists(a) == a \in Ids /\ account[a] # NoAccount
Live(k) == session[k] # NoSession

(* needsFirstTimeSetup *)
NoUsers == \A a \in Ids : ~Exists(a)

Init ==
  /\ account = [a \in Ids |-> NoAccount]
  /\ nextId = 1
  /\ session = [k \in Tokens |-> NoSession]
  /\ request = [p \in Persons |-> "none"]
  /\ pending = [c \in Clients |-> Idle]

--------------------------------------------------------------------------------
(* lib/auth.ts *)

NewAccount(p, email, provider, admin, known) ==
  [person |-> p, email |-> email, provider |-> provider, admin |-> admin,
   approved |-> TRUE, known |-> known, setup |-> FALSE, changes |-> 0]

createUser(row) ==
  /\ nextId <= MaxAccounts
  /\ account' = [account EXCEPT ![nextId] = row]
  /\ nextId' = nextId + 1

SessionOf(a, changes) == [account |-> a, changes |-> changes]

createSession(a, k) ==
  /\ ~Live(k)
  /\ session' = [session EXCEPT ![k] = SessionOf(a, account[a].changes)]

KeepingSessions(a) == session  \* mutant: nobody is signed out

(* The sessions that are left when all those of an account are destroyed. *)
WithoutSessions(a) ==
  [k \in Tokens |-> IF session[k].account = a THEN NoSession ELSE session[k]]

(* authenticateUser *)
Authenticates(a) ==
  /\ Exists(a)
  /\ account[a].provider = "local"
  /\ account[a].approved
  /\ account[a].known

Answered(c) == pending' = [pending EXCEPT ![c] = Idle]

Least(S) == CHOOSE a \in S : \A b \in S : a <= b

--------------------------------------------------------------------------------
(* Synchronous handlers *)

Login(a, k) ==
  /\ Authenticates(a)
  /\ createSession(a, k)
  /\ UNCHANGED <<account, nextId, request, pending>>

(* Also when seven days have passed: validateSession no longer finds the     *)
(* session, the next createSession removes its row.                         *)
Logout(k) ==
  /\ Live(k)
  /\ session' = [session EXCEPT ![k] = NoSession]
  /\ UNCHANGED <<account, nextId, request, pending>>

GoogleAccounts(p) ==
  {a \in Ids : Exists(a) /\ account[a].person = p /\ account[a].email
                         /\ account[a].provider = "google"}

(* The sign-in with a verified Google profile: an approved Google account   *)
(* gets a session, anybody else an access request, whatever was decided     *)
(* about an earlier one.                                                    *)
GoogleSignIn(p, k) ==
  LET known == GoogleAccounts(p)
  IN  /\ IF known # {} /\ account[Least(known)].approved
           THEN createSession(Least(known), k) /\ UNCHANGED request
           ELSE request' = [request EXCEPT ![p] = "pending"] /\ UNCHANGED session
      /\ UNCHANGED <<account, nextId, pending>>

Disconnect(k) ==
  LET a == session[k].account
  IN  /\ Live(k)
      /\ account[a].provider = "google"
      /\ account' = [account EXCEPT ![a].provider = "local"]
      /\ UNCHANGED <<nextId, session, request, pending>>

--------------------------------------------------------------------------------
(* The caller is identified; the body is awaited. *)

Begin(c, op, by) ==
  /\ pending[c] = Idle
  /\ pending' = [pending EXCEPT ![c] = [op |-> op, by |-> by]]
  /\ UNCHANGED <<account, nextId, session, request>>

SignedInAs(a) == \E k \in Tokens : Live(k) /\ session[k].account = a

BeginAdmin(c, by) ==
  /\ by = Api \/ (SignedInAs(by) /\ account[by].admin)
  /\ Begin(c, "admin", by)

BeginPassword(c, by) == SignedInAs(by) /\ Begin(c, "password", by)

BeginSetup(c) == NoUsers /\ Begin(c, "setup", Api)

(* The body never arrives or is refused. *)
Refuse(c) ==
  /\ pending[c] # Idle
  /\ Answered(c)
  /\ UNCHANGED <<account, nextId, session, request>>

--------------------------------------------------------------------------------
(* The body has arrived. *)

CreateUser(c, p, form) ==
  /\ pending[c].op = "admin"
  /\ createUser(NewAccount(p, form.email, form.provider, form.admin, TRUE))
  /\ Answered(c)
  /\ UNCHANGED <<session, request>>

Changed(a) ==
  {[account[a] EXCEPT !.email = TRUE], [account[a] EXCEPT !.known = TRUE]}
  \cup {[account[a] EXCEPT !.approved = x] : x \in BOOLEAN}

(* One's own role may only be set to the one it had when the call began.     *)
UpdateUser(c, a) ==
  /\ pending[c].op = "admin"
  /\ Exists(a)
  /\ \/ \E row \in Changed(a) : account' = [account EXCEPT ![a] = row]
     \/ \E admin \in BOOLEAN :
          /\ a # pending[c].by \/ admin
          /\ account' = [account EXCEPT ![a].admin = admin]
  /\ Answered(c)
  /\ UNCHANGED <<nextId, session, request>>

DeleteUser(c, a) ==
  /\ pending[c].op = "admin"
  /\ a # pending[c].by
  /\ Exists(a)
  /\ account' = [account EXCEPT ![a] = NoAccount]
  /\ session' = WithoutSessions(a)
  /\ Answered(c)
  /\ UNCHANGED <<nextId, request>>

Reject(c, p) ==
  /\ pending[c].op = "admin"
  /\ request[p] # "none"
  /\ request' = [request EXCEPT ![p] = "rejected"]
  /\ Answered(c)
  /\ UNCHANGED <<account, nextId, session>>

(* An account of the same address becomes the Google account, role          *)
(* included; otherwise one is made, with a random password.                 *)
Approve(c, p, admin) ==
  LET same == {a \in Ids : Exists(a) /\ account[a].person = p /\ account[a].email}
  IN  /\ pending[c].op = "admin"
      /\ request[p] # "none"
      /\ IF same # {}
           THEN /\ account' = [account EXCEPT ![Least(same)] =
                     [@ EXCEPT !.provider = "google", !.approved = TRUE, !.admin = admin]]
                /\ UNCHANGED nextId
           ELSE createUser(NewAccount(p, TRUE, "google", admin, FALSE))
      /\ request' = [request EXCEPT ![p] = "approved"]
      /\ Answered(c)
      /\ UNCHANGED session

(* The row is read again after the await: it may be gone. *)
ChangePassword(c, k) ==
  LET a == pending[c].by
  IN  /\ pending[c].op = "password"
      /\ Exists(a)
      /\ account[a].known
      /\ account[a].changes < MaxChanges
      /\ account' = [account EXCEPT ![a].changes = @ + 1]
      /\ session' = [WithoutSessions(a) EXCEPT ![k] = SessionOf(a, account[a].changes + 1)]
      /\ ~Live(k)
      /\ Answered(c)
      /\ UNCHANGED <<nextId, request>>

SetupUnchecked(c, p, k) ==  \* mutant: the second check is missing
  /\ pending[c].op = "setup"
  /\ createUser([NewAccount(p, FALSE, "local", TRUE, TRUE) EXCEPT !.setup = TRUE])
  /\ ~Live(k)
  /\ session' = [session EXCEPT ![k] = SessionOf(nextId, 0)]
  /\ Answered(c)
  /\ UNCHANGED request

(* Checked again after the await. *)
Setup(c, p, k) ==
  /\ pending[c].op = "setup"
  /\ NoUsers
  /\ createUser([NewAccount(p, FALSE, "local", TRUE, TRUE) EXCEPT !.setup = TRUE])
  /\ ~Live(k)
  /\ session' = [session EXCEPT ![k] = SessionOf(nextId, 0)]
  /\ Answered(c)
  /\ UNCHANGED request

--------------------------------------------------------------------------------
Next ==
  \/ \E a \in Ids, k \in Tokens : Login(a, k)
  \/ \E k \in Tokens : Logout(k) \/ Disconnect(k)
  \/ \E p \in Persons, k \in Tokens : GoogleSignIn(p, k)
  \/ \E c \in Clients :
       \/ \E by \in Ids \cup {Api} : BeginAdmin(c, by)
       \/ \E by \in Ids : BeginPassword(c, by)
       \/ BeginSetup(c) \/ Refuse(c)
       \/ \E p \in Persons, form \in Forms : CreateUser(c, p, form)
       \/ \E a \in Ids : UpdateUser(c, a) \/ DeleteUser(c, a)
       \/ \E p \in Persons : Reject(c, p)
       \/ \E p \in Persons, admin \in BOOLEAN : Approve(c, p, admin)
       \/ \E k \in Tokens : ChangePassword(c, k)
       \/ \E p \in Persons, k \in Tokens : Setup(c, p, k)

Spec == Init /\ [][Next]_vars

--------------------------------------------------------------------------------
(* A session is of an account that exists and was opened with the password  *)
(* its person chose last: whoever was signed in before a password change is *)
(* signed out by it, also by one that was under way when the account was    *)
(* deleted or another change got ahead of it (auth/me, deleteUser).         *)
SessionsAreCurrent ==
  \A k \in Tokens : Live(k) =>
    /\ Exists(session[k].account)
    /\ session[k].changes = account[session[k].account].changes

(* However many setup pages are open, one administrator comes of them       *)
(* (setup/route.ts, "race safety").                                         *)
OneFirstAdmin == Cardinality({a \in Ids : Exists(a) /\ account[a].setup}) <= 1

===============================================================================
