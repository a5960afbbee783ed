------------------------------- MODULE Accounts -------------------------------
(*****************************************************************************)
(* The users table and the requests that change it: registration, login,     *)
(* and the administrators' create, update and delete handlers, each a        *)
(* sequence of database calls that other requests interleave with.           *)
(*                                                                           *)
(* Whether its sender is an administrator is decided by the claims of its    *)
(* token, which are those of the moment of login: a token past half its life *)
(* is signed again from its own claims, so it may outlive the rights, or the *)
(* account, it speaks of.  Clients' tokens allow none of these operations.   *)
(*                                                                           *)
(* A restart runs the bootstrap of internal/auth again.  User names and      *)
(* e-mail addresses are drawn from one set, since either identifies an       *)
(* administrator at login.  Display names, passwords and category grants are *)
(* left out: no property distinguishes them.                                 *)
(*****************************************************************************)
EXTENDS Integers, FiniteSets

CONSTANTS
  Users,      \* ids (see Fresh)
  Idents,     \* user names and e-mail addresses
  Phones,     \* normalized phone numbers
  Requests,   \* requests in flight
  AdminUser,  \* ND_ADMINUSERNAME
  Blank,      \* an empty or NULL column
  MaxAccounts, \* bound: accounts at a time, the bootstrap's apart
  None        \* no user

ASSUME AccountsAssumption ==
  /\ AdminUser \in Idents
  /\ Blank \notin Idents \cup Phones
  /\ None \notin Users
  /\ IsFiniteSet(Users) /\ MaxAccounts \in Nat /\ MaxAccounts < Cardinality(Users)

VARIABLES
  account,   \* account[u]: the row of u in the users table
  tokens,    \* users of the unexpired tokens that claim isAdmin
  req,       \* req[r]: the locals of request r
  up         \* the server process is serving

vars == <<account, tokens, req, up>>

Row == [live : BOOLEAN, admin : BOOLEAN, username : Idents \cup {Blank},
        email : Idents \cup {Blank}, phone : Phones \cup {Blank}]

NoRow == [live |-> FALSE, admin |-> FALSE, username |-> Blank, email |-> Blank, phone |-> Blank]

(* The form of a request, and the patch made from it.  In an administrator's *)
(* form blanks mean "as it is"; in a client's only the phone counts.         *)
Form == [admin : {TRUE}, username : Idents \cup {Blank}, email : Idents \cup {Blank}, phone : {Blank}]
        \cup [admin : {FALSE}, username : {Blank}, email : {Blank}, phone : Phones \cup {Blank}]

NoForm == [admin |-> FALSE, username |-> Blank, email |-> Blank, phone |-> Blank]

Valid(f) == ~f.admin => f.phone # Blank

Filled(patch) == [live |-> TRUE, admin |-> patch.admin, username |-> patch.username,
                  email |-> patch.email, phone |-> patch.phone]

Request == [pc : {"idle", "get", "count", "update", "delete", "create"},
            actor : Users \cup {None}, target : Users \cup {None},
            patch : Form, wasAdmin : BOOLEAN, counted : Nat]

Idle == [pc |-> "idle", actor |-> None, target |-> None,
         patch |-> NoForm, wasAdmin |-> FALSE, counted |-> 0]

-----------------------------------------------------------------------------
(* The table.                                                               *)

Live == {u \in Users : account[u].live}
Admins == {u \in Users : account[u].admin}

(* The unique constraints on username and phone and the partial one on email *)
(* (NULLs and empty e-mails never clash).                                    *)
Clashes(u, row) ==
  \E v \in Live \ {u} :
    \/ row.username # Blank /\ account[v].username = row.username
    \/ row.phone # Blank /\ account[v].phone = row.phone
    \/ row.email # Blank /\ account[v].email = row.email

(* NewID never draws an id twice; an id of the model stands for a new one as *)
(* soon as nothing refers to the old one any more.                           *)
Fresh(u) ==
  /\ u \notin Live
  /\ u \notin tokens
  /\ \A r \in Requests : u \notin {req[r].actor, req[r].target}

Insert(u, row) ==
  /\ Fresh(u)
  /\ ~Clashes(u, row)
  /\ account' = [account EXCEPT ![u] = row]

RoomForOne == Cardinality(Live) < MaxAccounts

-----------------------------------------------------------------------------
(* Tokens.                                                                  *)

(* GetUserByUsernameOrEmail takes one row of those that match.              *)
Matches(credential) ==
  {u \in Live : credential \in {account[u].username, account[u].email} \ {Blank}}

LoginUsername ==
  /\ up
  /\ \E credential \in Idents : \E u \in Matches(credential) :
       account[u].admin /\ tokens' = tokens \cup {u}
  /\ UNCHANGED <<account, req, up>>

Expire ==
  /\ \E t \in tokens : tokens' = tokens \ {t}
  /\ UNCHANGED <<account, req, up>>

-----------------------------------------------------------------------------
(* The administrators' handlers.                                            *)

End(r) == req' = [req EXCEPT ![r] = Idle]

(* Mistake: an administrator may pick the own account.                      *)
OthersAlso(actor) == Users

(* Both handlers refuse the sender's own id.                                *)
Others(actor) == Users \ {actor}

(* Mistake: a demoted administrator keeps user name and e-mail.             *)
PatchedKeeping(f, current) ==
  IF f.admin
  THEN [f EXCEPT !.username = IF @ = Blank THEN current.username ELSE @,
                 !.email = IF @ = Blank THEN current.email ELSE @]
  ELSE [f EXCEPT !.username = current.username, !.email = current.email]

(* Mistake: a promoted client keeps the phone.                              *)
PatchedPhone(f, current) ==
  IF f.admin
  THEN [f EXCEPT !.username = IF @ = Blank THEN current.username ELSE @,
                 !.email = IF @ = Blank THEN current.email ELSE @,
                 !.phone = current.phone]
  ELSE f

(* Blanks of an administrator's form are filled in from the row just read;  *)
(* the patch clears the columns of the other role.                          *)
Patched(f, current) ==
  IF f.admin
  THEN [f EXCEPT !.username = IF @ = Blank THEN current.username ELSE @,
                 !.email = IF @ = Blank THEN current.email ELSE @]
  ELSE f

Complete(f) == f.admin => f.username # Blank /\ f.email # Blank

(* requireAdmin lets the request pass for what its claims say.              *)
Arrive(r) ==
  /\ up /\ req[r].pc = "idle"
  /\ \E actor \in tokens : \E u \in Others(actor) :
       \/ \E f \in Form :
            /\ Valid(f)
            /\ req' = [req EXCEPT ![r] = [Idle EXCEPT !.pc = "get", !.actor = actor,
                                                      !.target = u, !.patch = f]]
       \/ req' = [req EXCEPT ![r] = [Idle EXCEPT !.pc = "delete", !.actor = actor, !.target = u]]
  /\ UNCHANGED <<account, tokens, up>>

(* handleAdminCreateUser: an administrator needs user name and e-mail.      *)
AdminCreates ==
  /\ up /\ tokens # {} /\ RoomForOne
  /\ \E u \in Users, f \in Form : Valid(f) /\ Complete(f) /\ Insert(u, Filled(f))
  /\ UNCHANGED <<tokens, req, up>>

(* Only a demotion has to count the administrators.                         *)
GetUser(r) ==
  LET current == account[req[r].target] IN
  /\ req[r].pc = "get"
  /\ IF current.live
     THEN req' = [req EXCEPT ![r].patch = Patched(req[r].patch, current),
                             ![r].wasAdmin = current.admin,
                             ![r].pc = IF current.admin /\ ~req[r].patch.admin
                                       THEN "count" ELSE "update"]
     ELSE End(r)
  /\ UNCHANGED <<account, tokens, up>>

(* Mistake: one administrator too few is enough.                            *)
EnoughAdminsOffByOne(n) == ~(n < 1)

(* The guard against demoting the last administrator.                       *)
EnoughAdmins(n) == ~(n <= 1)

CountAdmins(r) ==
  /\ req[r].pc = "count"
  /\ LET n == Cardinality(Admins) IN
       IF EnoughAdmins(n)
       THEN req' = [req EXCEPT ![r].counted = n, ![r].pc = "update"]
       ELSE End(r)
  /\ UNCHANGED <<account, tokens, up>>

(* UpdateUser does not ask whether the row is still there.                  *)
UpdateUser(r) ==
  /\ req[r].pc = "update"
  /\ LET row == Filled(req[r].patch)
         u == req[r].target
     IN IF Complete(row) /\ account[u].live /\ ~Clashes(u, row)
        THEN account' = [account EXCEPT ![u] = row]
        ELSE UNCHANGED account
  /\ End(r)
  /\ UNCHANGED <<tokens, up>>

DeleteUser(r) ==
  /\ req[r].pc = "delete"
  /\ account' = [account EXCEPT ![req[r].target] = NoRow]
  /\ End(r)
  /\ UNCHANGED <<tokens, up>>

(* The client goes away, or a database call fails: nothing is written.      *)
Abandon(r) ==
  /\ req[r].pc # "idle"
  /\ End(r)
  /\ UNCHANGED <<account, tokens, up>>

-----------------------------------------------------------------------------
(* handleRegister looks for the phone and creates the account afterwards.   *)
Lookup(r) ==
  /\ up /\ req[r].pc = "idle"
  /\ \E p \in Phones :
       /\ \A u \in Live : account[u].phone # p
       /\ req' = [req EXCEPT ![r] = [Idle EXCEPT !.pc = "create", !.patch = [NoForm EXCEPT !.phone = p]]]
  /\ UNCHANGED <<account, tokens, up>>

Register(r) ==
  /\ req[r].pc = "create" /\ RoomForOne
  /\ \E u \in Users : Insert(u, Filled(req[r].patch))
  /\ End(r)
  /\ UNCHANGED <<tokens, up>>

-----------------------------------------------------------------------------
(* The process.                                                             *)

Stop ==
  /\ up
  /\ up' = FALSE
  /\ req' = [r \in Requests |-> Idle]
  /\ UNCHANGED <<account, tokens>>

BootAdmin == [live |-> TRUE, admin |-> TRUE, username |-> AdminUser, email |-> Blank, phone |-> Blank]

(* bootstrapAdmin: the administrator of the environment, if there is none;  *)
(* a taken user name ends the process.                                      *)
Boot ==
  /\ ~up
  /\ up' = TRUE
  /\ \/ Admins # {} /\ UNCHANGED account
     \/ Admins = {} /\ \E u \in Users : Insert(u, BootAdmin)
  /\ UNCHANGED <<tokens, req>>

Init ==
  /\ account = [u \in Users |-> NoRow]
  /\ tokens = {}
  /\ req = [r \in Requests |-> Idle]
  /\ up = FALSE

UpdateHandler(r) == GetUser(r) \/ CountAdmins(r) \/ UpdateUser(r)

Next ==
  \/ LoginUsername \/ Expire
  \/ AdminCreates
  \/ \E r \in Requests :
       \/ Arrive(r) \/ UpdateHandler(r) \/ DeleteUser(r) \/ Abandon(r)
       \/ Lookup(r) \/ Register(r)
  \/ Stop \/ Boot

Spec == Init /\ [][Next]_vars

-----------------------------------------------------------------------------
(* Properties.                                                              *)

(* Every variable has its type.                                             *)
TypeOK ==
  /\ account \in [Users -> Row]
  /\ tokens \subseteq Users
  /\ req \in [Requests -> Request]
  /\ up \in BOOLEAN

(* An account is an administrator's, with a user name and no phone, or a     *)
(* client's, with a phone and neither user name nor e-mail, whichever        *)
(* promotions, demotions and edits of one account overlap; LoginUsername and *)
(* LoginPhone rely on it to tell the two ways of signing in apart.           *)
RolesExclusive ==
  \A u \in Live :
    IF account[u].admin
    THEN account[u].username # Blank /\ account[u].phone = Blank
    ELSE account[u].phone # Blank /\ account[u].username = Blank /\ account[u].email = Blank

(* Whatever became of the administrators, when none is left the user name of *)
(* the environment is free: bootstrapAdmin cannot fail on it, and a restart  *)
(* lets somebody in again.                                                   *)
RestartRestoresAdmin ==
  Admins = {} => \A u \in Users \ Live : ~Clashes(u, BootAdmin)

(* Types, and accounts that can sign in.                                    *)
Sound == TypeOK /\ RolesExclusive /\ RestartRestoresAdmin

Writes(r) == req[r].pc \in {"update", "delete"} /\ account' # account /\ req'[r] = Idle

LosesLastAdmin == Admins # {} /\ Admins' = {}

(* The last administrator only ever disappears by a request of somebody who *)
(* is no administrator any more: the handlers' refusal of the own id is     *)
(* enough as long as the sender still is one.                               *)
OnlyFormerAdmins ==
  [][LosesLastAdmin => \E r \in Requests : Writes(r) /\ req[r].actor \notin Admins]_vars

(* An update that takes the last administrator's role acts on what it read  *)
(* before and is no longer so: the row was a client's then, or there were   *)
(* more administrators when it counted.  A request that nothing overlaps    *)
(* never does it, even one of a former administrator.                       *)
DemotionNeedsOutdatedRead ==
  [][\A r \in Requests :
       LosesLastAdmin /\ Writes(r) /\ req[r].pc = "update"
         => ~req[r].wasAdmin \/ req[r].counted > Cardinality(Admins)]_vars

(* What the guard of handleAdminUpdateUser is there for, as its comment says: *)
(* a demotion never takes the last administrator's role.                      *)
NeverDemotesTheLast ==
  [][LosesLastAdmin => \A r \in Requests : ~(Writes(r) /\ req[r].pc = "update")]_vars

(* User name and e-mail are both valid identifiers of an administrator at   *)
(* login: each leads to the account it belongs to.                          *)
IdentifiersResolve ==
  \A u \in Admins :
    \A credential \in {account[u].username, account[u].email} \ {Blank} :
      Matches(credential) = {u}

=============================================================================
