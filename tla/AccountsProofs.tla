---------------------------- MODULE AccountsProofs ----------------------------
(*****************************************************************************)
(* Proofs about Accounts, for every set of users, names, phones and          *)
(* requests.                                                                 *)
(*                                                                           *)
(* The inductive invariant adds to RolesExclusive what a request carries     *)
(* from one database call to the next: a form that is valid whatever became  *)
(* of the row it was completed from, a target that is not its sender, and a  *)
(* count of at least two where it is about to demote somebody it has seen    *)
(* as an administrator.                                                      *)
(*****************************************************************************)
EXTENDS Accounts, TLAPS, FiniteSetTheorems

AdminsLive == Admins \subseteq Live

CarriedInv ==
  \A r \in Requests :
    /\ req[r].pc \notin {"idle", "delete"} => Valid(req[r].patch)
    /\ req[r].pc = "create" => ~req[r].patch.admin
    /\ req[r].pc \in {"get", "count", "update", "delete"} =>
         req[r].target \in Users /\ req[r].target # req[r].actor
    /\ req[r].pc = "update" /\ req[r].wasAdmin /\ ~req[r].patch.admin => req[r].counted > 1

IInv == TypeOK /\ AdminsLive /\ RolesExclusive /\ CarriedInv

-----------------------------------------------------------------------------
(* Forms and rows.                                                          *)

(* The account of a role that can sign in.                                  *)
Proper(row) ==
  IF row.admin THEN row.username # Blank /\ row.phone = Blank
  ELSE row.phone # Blank /\ row.username = Blank /\ row.email = Blank

LEMMA FormFacts ==
  ASSUME NEW f \in Form
  PROVE  /\ f.admin \in BOOLEAN /\ f.username \in Idents \cup {Blank}
         /\ f.email \in Idents \cup {Blank} /\ f.phone \in Phones \cup {Blank}
         /\ f.admin => f.phone = Blank
         /\ ~f.admin => f.username = Blank /\ f.email = Blank
BY DEF Form

LEMMA NoFormFacts == NoForm \in Form /\ ~NoForm.admin
BY DEF NoForm, Form

LEMMA IdleFacts == Idle \in Request /\ Idle.pc = "idle"
BY NoFormFacts DEF Idle, Request

LEMMA NoRowFacts == NoRow \in Row /\ ~NoRow.live /\ ~NoRow.admin
BY DEF NoRow, Row

LEMMA BootAdminFacts == BootAdmin \in Row /\ BootAdmin.live /\ Proper(BootAdmin)
BY AccountsAssumption DEF BootAdmin, Row, Proper

LEMMA FilledFacts ==
  ASSUME NEW f \in Form
  PROVE  /\ Filled(f) \in Row /\ Filled(f).live /\ Filled(f).admin = f.admin
         /\ Valid(f) /\ Complete(Filled(f)) => Proper(Filled(f))
<1>1. Filled(f) \in Row /\ Filled(f).live /\ Filled(f).admin = f.admin
  BY FormFacts DEF Filled, Row
<1>2. Valid(f) /\ Complete(Filled(f)) => Proper(Filled(f))
  BY FormFacts DEF Filled, Valid, Complete, Proper
<1> QED  BY <1>1, <1>2

(* Completing a form from a row leaves its role, and a form of that role.   *)
LEMMA PatchedFacts ==
  ASSUME NEW f \in Form, NEW row \in Row
  PROVE  /\ Patched(f, row) \in Form /\ Patched(f, row).admin = f.admin
         /\ Valid(f) => Valid(Patched(f, row))
<1>1. CASE f.admin
  <2> DEFINE n == IF f.username = Blank THEN row.username ELSE f.username
             e == IF f.email = Blank THEN row.email ELSE f.email
             g == [f EXCEPT !.username = n, !.email = e]
  <2>1. n \in Idents \cup {Blank} /\ e \in Idents \cup {Blank}
    BY FormFacts DEF Row
  <2>2. f \in [admin : {TRUE}, username : Idents \cup {Blank}, email : Idents \cup {Blank},
               phone : {Blank}]
    BY <1>1 DEF Form
  <2>3. Patched(f, row) = g  BY <1>1 DEF Patched
  <2> HIDE DEF n, e
  <2>4. g \in Form /\ g.admin = f.admin  BY <2>1, <2>2 DEF Form
  <2> QED  BY <1>1, <2>3, <2>4 DEF Valid
<1>2. CASE ~f.admin
  BY <1>2 DEF Patched
<1> QED  BY <1>1, <1>2

(* The table after one row was written that can sign in, or deleted.        *)
LEMMA WrittenRow ==
  ASSUME TypeOK, AdminsLive, RolesExclusive, NEW u \in Users, NEW row \in Row,
         (row.live /\ Proper(row)) \/ row = NoRow,
         account' = [account EXCEPT ![u] = row]
  PROVE  account' \in [Users -> Row] /\ AdminsLive' /\ RolesExclusive'
<1>1. account \in [Users -> Row]  BY DEF TypeOK
<1>2. account'[u] = row /\ \A v \in Users \ {u} : account'[v] = account[v]
  BY <1>1
<1>3. account' \in [Users -> Row]  BY <1>1
<1>4. AdminsLive'  BY <1>2, NoRowFacts DEF AdminsLive, Admins, Live
<1>5. RolesExclusive'  BY <1>2, NoRowFacts DEF RolesExclusive, Live, Proper
<1> QED  BY <1>3, <1>4, <1>5

-----------------------------------------------------------------------------
(* The invariant is inductive.                                              *)

Carried(q) ==
  /\ q.pc \notin {"idle", "delete"} => Valid(q.patch)
  /\ q.pc = "create" => ~q.patch.admin
  /\ q.pc \in {"get", "count", "update", "delete"} => q.target \in Users /\ q.target # q.actor
  /\ q.pc = "update" /\ q.wasAdmin /\ ~q.patch.admin => q.counted > 1

(* A request comes to a step with what it should carry, or ends.            *)
LEMMA StepOfRequest ==
  ASSUME TypeOK, CarriedInv, NEW r \in Requests, NEW q \in Request, Carried(q),
         req' = [req EXCEPT ![r] = q]
  PROVE  req' \in [Requests -> Request] /\ CarriedInv'
BY DEF TypeOK, CarriedInv, Carried

LEMMA EndOfRequest ==
  ASSUME TypeOK, CarriedInv, NEW r \in Requests, End(r)
  PROVE  req' \in [Requests -> Request] /\ CarriedInv'
<1>1. Carried(Idle)  BY IdleFacts DEF Carried
<1> QED  BY <1>1, IdleFacts, StepOfRequest DEF End

LEMMA InsertInv ==
  ASSUME TypeOK, AdminsLive, RolesExclusive, NEW u \in Users, NEW row \in Row,
         row.live, Proper(row), Insert(u, row)
  PROVE  account' \in [Users -> Row] /\ AdminsLive' /\ RolesExclusive'
BY WrittenRow DEF Insert

LEMMA InitInv == Init => IInv
<1> SUFFICES ASSUME Init PROVE IInv
  OBVIOUS
<1>1. TypeOK  BY NoRowFacts, IdleFacts DEF Init, TypeOK
<1>2. AdminsLive /\ RolesExclusive  BY NoRowFacts DEF Init, AdminsLive, Admins, RolesExclusive, Live
<1>3. CarriedInv  BY IdleFacts DEF Init, CarriedInv
<1> QED  BY <1>1, <1>2, <1>3 DEF IInv

LEMMA StepInv == IInv /\ [Next]_vars => IInv'
<1> SUFFICES ASSUME TypeOK, AdminsLive, RolesExclusive, CarriedInv, [Next]_vars PROVE IInv'
  BY DEF IInv
<1>1. ASSUME UNCHANGED account PROVE account' \in [Users -> Row] /\ AdminsLive' /\ RolesExclusive'
  BY <1>1 DEF TypeOK, AdminsLive, Admins, RolesExclusive, Live
<1>2. ASSUME UNCHANGED req PROVE req' \in [Requests -> Request] /\ CarriedInv'
  BY <1>2 DEF TypeOK, CarriedInv
<1>3. CASE LoginUsername \/ Expire
  BY <1>1, <1>2, <1>3 DEF LoginUsername, Matches, Live, Expire, IInv, TypeOK
<1>4. CASE AdminCreates
  <2>1. PICK u \in Users, f \in Form : Valid(f) /\ Complete(f) /\ Insert(u, Filled(f))
    BY <1>4 DEF AdminCreates
  <2>2. Complete(Filled(f))  BY <2>1 DEF Complete, Filled
  <2>3. account' \in [Users -> Row] /\ AdminsLive' /\ RolesExclusive'
    BY <2>1, <2>2, FilledFacts, InsertInv
  <2> QED  BY <1>2, <1>4, <2>3 DEF AdminCreates, IInv, TypeOK
<1>5. ASSUME NEW r \in Requests, Arrive(r) PROVE IInv'
  <2>1. PICK actor \in Users, u \in Users :
       /\ u # actor
       /\ \/ \E f \in Form :
               /\ Valid(f)
               /\ req' = [req EXCEPT ![r] = [Idle EXCEPT !.pc = "get", !.actor = actor,
                                                         !.target = u, !.patch = f]]
          \/ req' = [req EXCEPT ![r] = [Idle EXCEPT !.pc = "delete", !.actor = actor, !.target = u]]
    BY <1>5 DEF Arrive, Others, TypeOK
  <2>2. u # actor  BY <2>1
  <2>3. req' \in [Requests -> Request] /\ CarriedInv'
    <3>1. ASSUME NEW f \in Form, Valid(f),
                 req' = [req EXCEPT ![r] = [Idle EXCEPT !.pc = "get", !.actor = actor,
                                                        !.target = u, !.patch = f]]
          PROVE  req' \in [Requests -> Request] /\ CarriedInv'
      <4> DEFINE q == [Idle EXCEPT !.pc = "get", !.actor = actor, !.target = u, !.patch = f]
      <4>1. q \in Request /\ Carried(q)
        BY <2>2, <3>1 DEF Idle, Request, Carried
      <4> QED  BY <3>1, <4>1, StepOfRequest
    <3>2. ASSUME req' = [req EXCEPT ![r] = [Idle EXCEPT !.pc = "delete", !.actor = actor, !.target = u]]
          PROVE  req' \in [Requests -> Request] /\ CarriedInv'
      <4> DEFINE q == [Idle EXCEPT !.pc = "delete", !.actor = actor, !.target = u]
      <4>1. q \in Request /\ Carried(q)
        BY <2>2, NoFormFacts DEF Idle, Request, Carried
      <4> QED  BY <3>2, <4>1, StepOfRequest
    <3> QED  BY <2>1, <3>1, <3>2
  <2> QED  BY <1>1, <1>5, <2>3 DEF Arrive, IInv, TypeOK
<1>6. ASSUME NEW r \in Requests, GetUser(r) PROVE IInv'
  <2> DEFINE current == account[req[r].target]
  <2>1. req[r] \in Request /\ req[r].pc = "get" /\ req[r].target \in Users /\ Valid(req[r].patch)
        /\ req[r].target # req[r].actor
    BY <1>6 DEF GetUser, TypeOK, CarriedInv
  <2>2. req' \in [Requests -> Request] /\ CarriedInv'
    <3>1. CASE current.live
      <4> DEFINE pc == IF current.admin /\ ~req[r].patch.admin THEN "count" ELSE "update"
                 q == [req[r] EXCEPT !.patch = Patched(req[r].patch, current),
                                     !.wasAdmin = current.admin, !.pc = pc]
      <4>1. req' = [req EXCEPT ![r] = q]
        BY <1>6, <2>1, <3>1 DEF GetUser, TypeOK
      <4>2. current \in Row /\ req[r].patch \in Form  BY <2>1 DEF TypeOK, Request
      <4>3. /\ Patched(req[r].patch, current) \in Form /\ Valid(Patched(req[r].patch, current))
            /\ Patched(req[r].patch, current).admin = req[r].patch.admin
        BY <2>1, <4>2, PatchedFacts
      <4>4. current.admin \in BOOLEAN /\ req[r].patch.admin \in BOOLEAN
        BY <4>2, FormFacts DEF Row
      <4> HIDE DEF current
      <4>5. pc = "count" \/ (pc = "update" /\ (~current.admin \/ req[r].patch.admin))
        BY <4>4
      <4> HIDE DEF pc
      <4>6. /\ q \in Request /\ q.pc = pc /\ q.patch = Patched(req[r].patch, current)
            /\ q.wasAdmin = current.admin /\ q.target = req[r].target /\ q.actor = req[r].actor
        BY <2>1, <4>3, <4>4, <4>5 DEF Request
      <4>7. Carried(q)  BY <2>1, <4>3, <4>5, <4>6 DEF Carried
      <4> HIDE DEF q
      <4> QED  BY <4>1, <4>6, <4>7, StepOfRequest
    <3>2. CASE ~current.live
      BY <1>6, <3>2, EndOfRequest DEF GetUser
    <3> QED  BY <3>1, <3>2
  <2> QED  BY <1>1, <1>6, <2>2 DEF GetUser, IInv, TypeOK
<1>7. ASSUME NEW r \in Requests, CountAdmins(r) PROVE IInv'
  <2> DEFINE n == Cardinality(Admins)
  <2>1. req[r] \in Request /\ req[r].pc = "count" /\ req[r].target \in Users
        /\ Valid(req[r].patch) /\ req[r].target # req[r].actor
    BY <1>7 DEF CountAdmins, TypeOK, CarriedInv
  <2>2. req' \in [Requests -> Request] /\ CarriedInv'
    <3>1. CASE EnoughAdmins(n)
      <4> DEFINE q == [req[r] EXCEPT !.counted = n, !.pc = "update"]
      <4>1. req' = [req EXCEPT ![r] = q]
        BY <1>7, <3>1 DEF CountAdmins, TypeOK
      <4>2. n \in Nat /\ n > 1
        <5>1. IsFiniteSet(Admins)  BY AccountsAssumption, FS_Subset DEF Admins
        <5>2. n \in Nat  BY <5>1, FS_CardinalityType
        <5> QED  BY <3>1, <5>2 DEF EnoughAdmins
      <4> HIDE DEF n
      <4>3. q \in Request /\ Carried(q)
        BY <2>1, <4>2 DEF Request, Carried
      <4> QED  BY <4>1, <4>3, StepOfRequest
    <3>2. CASE ~EnoughAdmins(n)
      BY <1>7, <3>2, EndOfRequest DEF CountAdmins
    <3> QED  BY <3>1, <3>2
  <2> QED  BY <1>1, <1>7, <2>2 DEF CountAdmins, IInv, TypeOK
<1>8. ASSUME NEW r \in Requests, UpdateUser(r) PROVE IInv'
  <2> DEFINE row == Filled(req[r].patch)
             u == req[r].target
  <2>1. req[r].patch \in Form /\ Valid(req[r].patch) /\ u \in Users
    BY <1>8 DEF UpdateUser, TypeOK, CarriedInv, Request
  <2>2. account' \in [Users -> Row] /\ AdminsLive' /\ RolesExclusive'
    <3>1. CASE UNCHANGED account  BY <1>1, <3>1
    <3>2. CASE Complete(row) /\ account' = [account EXCEPT ![u] = row]
      BY <2>1, <3>2, FilledFacts, WrittenRow
    <3> QED  BY <1>8, <3>1, <3>2 DEF UpdateUser
  <2> QED  BY <1>8, <2>2, EndOfRequest DEF UpdateUser, IInv, TypeOK
<1>9. ASSUME NEW r \in Requests, DeleteUser(r) PROVE IInv'
  <2>1. req[r].target \in Users  BY <1>9 DEF DeleteUser, CarriedInv
  <2>2. account' \in [Users -> Row] /\ AdminsLive' /\ RolesExclusive'
    BY <1>9, <2>1, NoRowFacts, WrittenRow DEF DeleteUser
  <2> QED  BY <1>9, <2>2, EndOfRequest DEF DeleteUser, IInv, TypeOK
<1>10. ASSUME NEW r \in Requests, Abandon(r) PROVE IInv'
  BY <1>1, <1>10, EndOfRequest DEF Abandon, IInv, TypeOK
<1>11. ASSUME NEW r \in Requests, Lookup(r) PROVE IInv'
  <2>1. PICK p \in Phones :
          req' = [req EXCEPT ![r] = [Idle EXCEPT !.pc = "create", !.patch = [NoForm EXCEPT !.phone = p]]]
    BY <1>11 DEF Lookup
  <2> DEFINE f == [NoForm EXCEPT !.phone = p]
             q == [Idle EXCEPT !.pc = "create", !.patch = f]
  <2>2. f \in Form /\ Valid(f) /\ ~f.admin
    BY AccountsAssumption DEF NoForm, Form, Valid
  <2> HIDE DEF f
  <2>3. q \in Request /\ Carried(q)
    BY <2>2 DEF Idle, Request, Carried
  <2>4. req' \in [Requests -> Request] /\ CarriedInv'
    BY <2>1, <2>3, StepOfRequest DEF f
  <2> QED  BY <1>1, <1>11, <2>4 DEF Lookup, IInv, TypeOK
<1>12. ASSUME NEW r \in Requests, Register(r) PROVE IInv'
  <2>1. req[r].patch \in Form /\ Valid(req[r].patch) /\ ~req[r].patch.admin
    BY <1>12 DEF Register, TypeOK, CarriedInv, Request
  <2>2. Complete(Filled(req[r].patch))  BY <2>1, FilledFacts DEF Complete
  <2>3. account' \in [Users -> Row] /\ AdminsLive' /\ RolesExclusive'
    BY <1>12, <2>1, <2>2, FilledFacts, InsertInv DEF Register
  <2> QED  BY <1>12, <2>3, EndOfRequest DEF Register, IInv, TypeOK
<1>13. CASE Stop
  <2>1. req' \in [Requests -> Request] /\ CarriedInv'
    BY <1>13, IdleFacts DEF Stop, CarriedInv
  <2> QED  BY <1>1, <1>13, <2>1 DEF Stop, IInv, TypeOK
<1>14. CASE Boot
  <2>1. account' \in [Users -> Row] /\ AdminsLive' /\ RolesExclusive'
    BY <1>1, <1>14, BootAdminFacts, InsertInv DEF Boot
  <2> QED  BY <1>2, <1>14, <2>1 DEF Boot, IInv, TypeOK
<1>15. CASE UNCHANGED vars
  BY <1>1, <1>2, <1>15 DEF vars, IInv, TypeOK
<1> QED
  BY <1>3, <1>4, <1>5, <1>6, <1>7, <1>8, <1>9, <1>10, <1>11, <1>12, <1>13, <1>14, <1>15
  DEF Next, UpdateHandler

LEMMA Invariant == Spec => []IInv
BY InitInv, StepInv, PTL DEF Spec

-----------------------------------------------------------------------------
(* What follows from it.                                                    *)

(* Whatever administrators' and clients' requests overlap, every account    *)
(* has the columns of exactly one role, and when no administrator is left   *)
(* the bootstrap of a restart can make one.                                 *)
THEOREM RolesSound == Spec => []Sound
<1>1. IInv => Sound
  <2> SUFFICES ASSUME TypeOK, RolesExclusive, Admins = {}, NEW u \in Users \ Live
               PROVE  ~Clashes(u, BootAdmin)
    BY DEF IInv, Sound, RestartRestoresAdmin
  <2>1. \A v \in Live : account[v].username = Blank
    BY DEF RolesExclusive, Admins, Live
  <2>2. BootAdmin.username # Blank /\ BootAdmin.email = Blank /\ BootAdmin.phone = Blank
    BY AccountsAssumption DEF BootAdmin
  <2> QED  BY <2>1, <2>2 DEF Clashes
<1> QED  BY <1>1, Invariant, PTL

(* The steps after which no administrator is left: an update or a deletion  *)
(* of the only one, who is not the request's sender.                        *)
LEMMA LastAdminLost ==
  ASSUME IInv, [Next]_vars, LosesLastAdmin
  PROVE  \E r \in Requests :
           /\ (UpdateUser(r) /\ ~req[r].patch.admin) \/ DeleteUser(r)
           /\ Admins = {req[r].target} /\ account' # account
           /\ req[r].actor \notin Admins
           /\ req' = [req EXCEPT ![r] = Idle]
<1>1. account' # account  BY DEF LosesLastAdmin, Admins
<1>2. ASSUME NEW u \in Users, NEW row \in Row, Insert(u, row) PROVE FALSE
  <2>1. u \notin Live /\ account' = [account EXCEPT ![u] = row]  BY <1>2 DEF Insert, Fresh
  <2>2. \A v \in Admins : v \in Admins'
    BY <2>1 DEF IInv, AdminsLive, Admins, TypeOK
  <2> QED  BY <2>2 DEF LosesLastAdmin
<1>3. ASSUME NEW r \in Requests, NEW row \in Row, req[r].pc \in {"update", "delete"},
             account' = [account EXCEPT ![req[r].target] = row]
      PROVE  Admins = {req[r].target} /\ req[r].actor \notin Admins /\ ~row.admin
  <2>1. req[r].target \in Users /\ req[r].target # req[r].actor
    BY <1>3 DEF IInv, CarriedInv
  <2>2. account'[req[r].target] = row
        /\ \A v \in Users \ {req[r].target} : account'[v] = account[v]
    BY <1>3, <2>1 DEF IInv, TypeOK
  <2>3. \A v \in Users : v \in Admins => v = req[r].target
    BY <2>2 DEF LosesLastAdmin, Admins
  <2>4. Admins = {req[r].target}  BY <2>3 DEF LosesLastAdmin, Admins
  <2>5. ~row.admin  BY <2>1, <2>2 DEF LosesLastAdmin, Admins
  <2> QED  BY <2>1, <2>4, <2>5
<1>4. PICK r \in Requests : UpdateUser(r) \/ DeleteUser(r)
  <2>1. ASSUME AdminCreates PROVE FALSE
    BY <1>2, <2>1, FilledFacts DEF AdminCreates
  <2>2. ASSUME NEW r \in Requests, Register(r) PROVE FALSE
    BY <1>2, <2>2, FilledFacts DEF Register, IInv, TypeOK, Request
  <2>3. ASSUME Boot PROVE FALSE
    BY <1>1, <1>2, <2>3, BootAdminFacts DEF Boot
  <2> QED
    BY <1>1, <2>1, <2>2, <2>3
    DEF Next, UpdateHandler, LoginUsername, Expire, Arrive, GetUser, CountAdmins, Abandon, Lookup,
        Stop, vars
<1>5. CASE UpdateUser(r)
  <2> DEFINE row == Filled(req[r].patch)
  <2>1. account' = [account EXCEPT ![req[r].target] = row] /\ req[r].pc = "update"
        /\ req' = [req EXCEPT ![r] = Idle]
    BY <1>1, <1>5 DEF UpdateUser, End
  <2>2. row \in Row /\ row.admin = req[r].patch.admin
    BY FilledFacts DEF IInv, TypeOK, Request
  <2> QED  BY <1>1, <1>3, <1>5, <2>1, <2>2
<1>6. CASE DeleteUser(r)
  BY <1>1, <1>3, <1>6, NoRowFacts DEF DeleteUser, End
<1> QED  BY <1>4, <1>5, <1>6

(* Only a request of somebody who is no administrator any more can cost the *)
(* last one.                                                                *)
THEOREM LastAdminOnlyLostToFormerOnes == Spec => OnlyFormerAdmins
<1>1. IInv /\ [Next]_vars =>
        [LosesLastAdmin => \E r \in Requests : Writes(r) /\ req[r].actor \notin Admins]_vars
  <2> SUFFICES ASSUME IInv, [Next]_vars, LosesLastAdmin
               PROVE  \E r \in Requests : Writes(r) /\ req[r].actor \notin Admins
    OBVIOUS
  <2>1. PICK r \in Requests :
           /\ UpdateUser(r) \/ DeleteUser(r)
           /\ account' # account /\ req[r].actor \notin Admins /\ req' = [req EXCEPT ![r] = Idle]
    BY LastAdminLost
  <2>2. Writes(r)  BY <2>1 DEF Writes, UpdateUser, DeleteUser, IInv, TypeOK
  <2> QED  BY <2>1, <2>2
<1> QED  BY <1>1, Invariant, PTL DEF Spec, OnlyFormerAdmins

(* A demotion of the last administrator acts on what it read before and is  *)
(* no longer so.                                                            *)
THEOREM DemotionOfTheLastIsOutdated == Spec => DemotionNeedsOutdatedRead
<1>1. IInv /\ [Next]_vars =>
        [\A r \in Requests :
           LosesLastAdmin /\ Writes(r) /\ req[r].pc = "update"
             => ~req[r].wasAdmin \/ req[r].counted > Cardinality(Admins)]_vars
  <2> SUFFICES ASSUME IInv, [Next]_vars, NEW r \in Requests,
                      LosesLastAdmin, Writes(r), req[r].pc = "update", req[r].wasAdmin
               PROVE  req[r].counted > Cardinality(Admins)
    OBVIOUS
  <2>1. PICK q \in Requests :
           /\ (UpdateUser(q) /\ ~req[q].patch.admin) \/ DeleteUser(q)
           /\ Admins = {req[q].target} /\ req' = [req EXCEPT ![q] = Idle]
    BY LastAdminLost
  <2>2. q = r
    <3>1. req'[r] = Idle /\ req[r] # Idle  BY IdleFacts DEF Writes
    <3> QED  BY <2>1, <3>1 DEF IInv, TypeOK
  <2>3. ~req[r].patch.admin  BY <2>1, <2>2 DEF DeleteUser
  <2>4. req[r].counted > 1  BY <2>3 DEF IInv, CarriedInv
  <2>5. Cardinality(Admins) = 1  BY <2>1, FS_Singleton
  <2> QED  BY <2>4, <2>5
<1> QED  BY <1>1, Invariant, PTL DEF Spec, DemotionNeedsOutdatedRead

===============================================================================
