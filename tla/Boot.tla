--------------------------------- MODULE Boot ---------------------------------
(*****************************************************************************)
(* Start-up of instances of the server against one database (main.go up to   *)
(* auth.New): Migrate under its advisory lock, GetOrCreateSecret, and        *)
(* bootstrapAdmin with its backfill of rows from before there were users.    *)
(* Every database call is a step, an instance may crash between any two, and *)
(* whoever runs the instances restarts one that has exited.                  *)
(*                                                                           *)
(* The advisory lock belongs to a connection, and every call takes any       *)
(* connection of the instance's pool: the unlock may go to another one than  *)
(* the lock did and then has no effect until the pool closes the first.  No  *)
(* connection is closed for its age while Migrate is running.                *)
(*****************************************************************************)
EXTENDS Integers, FiniteSets

CONSTANTS
  Instances,   \* server processes on one database
  Conns,       \* the connections of a pool
  Last,        \* number of the last migration
  Multiuser,   \* the migration that makes rows personal (0002)
  Legacy,      \* the tables that may hold rows from before it
  MaxFaults,   \* bound: crashes and failed calls in a behaviour
  None

Tables == {"playlists", "history", "likes", "queue"}

BootAssumption ==
  /\ Instances # {} /\ Conns # {} /\ IsFiniteSet(Instances) /\ IsFiniteSet(Conns)
  /\ Last \in Nat \ {0} /\ Multiuser \in 2..Last
  /\ Legacy \subseteq Tables
  /\ MaxFaults \in Nat
  /\ None \notin Instances \X Conns

VARIABLES
  table,     \* schema_migrations exists
  applied,   \* the versions it records
  lock,      \* the session that holds the advisory lock
  done,      \* done[m]: how often migration m was carried out
  unowned,   \* the tables with rows of no user
  secret,    \* the stored jwt_secret, as the number of the draw; 0 if none
  admin,     \* an administrator exists
  pc, at,    \* at[p]: the migration instance p is at
  signs,     \* signs[p]: the secret instance p signs and verifies with
  faults     \* crashes and failed calls so far

schemaVars == <<table, applied, lock, done>>
dataVars == <<unowned, secret, admin>>
instVars == <<pc, at, signs>>
vars == <<schemaVars, dataVars, instVars, faults>>

Migrations == 1..Last

MigrateSteps == {"table", "create", "lock", "look", "run", "record", "unlock"}
Steps == MigrateSteps \cup {"down", "secret", "save", "has", "bootstrap", "backfill", "serving"}

Go(p, step) == pc' = [pc EXCEPT ![p] = step]

Sessions(p) == {p} \X Conns

(* The end of a process closes its connections.                             *)
Exit(p) ==
  /\ Go(p, "down")
  /\ lock' = IF lock \in Sessions(p) THEN None ELSE lock

-----------------------------------------------------------------------------
(* Migrate.                                                                 *)

(* CREATE TABLE IF NOT EXISTS looks first; whoever creates the table second, *)
(* having looked before the first was done, gets a unique violation from the *)
(* catalog.                                                                  *)
LookForTable(p) ==
  /\ pc[p] = "table"
  /\ Go(p, IF table THEN "lock" ELSE "create")
  /\ UNCHANGED <<schemaVars, dataVars, at, signs, faults>>

CreateTable(p) ==
  /\ pc[p] = "create"
  /\ IF table THEN Exit(p) ELSE Go(p, "lock") /\ UNCHANGED lock
  /\ table' = TRUE
  /\ UNCHANGED <<applied, done, dataVars, at, signs, faults>>

(* Mistake: the lock keeps nobody out.                                      *)
AnyoneMayLock == TRUE

MayLock == lock = None

Lock(p) ==
  /\ pc[p] = "lock" /\ MayLock
  /\ \E s \in Sessions(p) : lock' = s
  /\ at' = [at EXCEPT ![p] = 1]
  /\ Go(p, "look")
  /\ UNCHANGED <<table, applied, done, dataVars, signs, faults>>

Look(p) ==
  /\ pc[p] = "look"
  /\ IF at[p] > Last
     THEN Go(p, "unlock") /\ UNCHANGED at
     ELSE IF at[p] \in applied
          THEN at' = [at EXCEPT ![p] = @ + 1] /\ UNCHANGED pc
          ELSE Go(p, "run") /\ UNCHANGED at
  /\ UNCHANGED <<schemaVars, dataVars, signs, faults>>

(* user_id becomes part of user_likes' primary key, so no row may lack it.  *)
SqlFails(m) == m = Multiuser /\ "likes" \in unowned

AfterSql(failed) == IF failed THEN "down" ELSE "record"

(* The file is sent as one query, which is one transaction.  The migration of *)
(* the queue table drops the rows it has no user for.                         *)
RunSql(p) ==
  /\ pc[p] = "run"
  /\ LET m == at[p] IN
       /\ IF SqlFails(m)
          THEN UNCHANGED <<done, unowned>>
          ELSE /\ done' = [done EXCEPT ![m] = @ + 1]
               /\ unowned' = IF m = Multiuser THEN unowned \ {"queue"} ELSE unowned
       /\ IF AfterSql(SqlFails(m)) = "down"
          THEN Exit(p)
          ELSE Go(p, AfterSql(SqlFails(m))) /\ UNCHANGED lock
  /\ UNCHANGED <<table, applied, secret, admin, at, signs, faults>>

(* The version is the primary key of schema_migrations.                     *)
Record(p) ==
  /\ pc[p] = "record"
  /\ IF at[p] \in applied
     THEN Exit(p) /\ UNCHANGED at
     ELSE Go(p, "look") /\ UNCHANGED lock /\ at' = [at EXCEPT ![p] = @ + 1]
  /\ applied' = applied \cup {at[p]}
  /\ UNCHANGED <<table, done, dataVars, signs, faults>>

Unlock(p) ==
  /\ pc[p] = "unlock"
  /\ \E s \in Sessions(p) : lock' = IF lock = s THEN None ELSE lock
  /\ Go(p, "secret")
  /\ UNCHANGED <<table, applied, done, dataVars, at, signs, faults>>

(* Mistake: the pool keeps its connections for ever.                        *)
NeverCloses(p) == FALSE

(* MaxConnIdleTime and MaxConnLifetime.                                     *)
Closes(p) == pc[p] \notin MigrateSteps

CloseConn(p) ==
  /\ Closes(p) /\ lock \in Sessions(p)
  /\ lock' = None
  /\ UNCHANGED <<table, applied, done, dataVars, instVars, faults>>

-----------------------------------------------------------------------------
(* auth.New.                                                                *)

ReadSecret(p) ==
  /\ pc[p] = "secret"
  /\ IF secret # 0
     THEN signs' = [signs EXCEPT ![p] = secret] /\ Go(p, "has")
     ELSE Go(p, "save") /\ UNCHANGED signs
  /\ UNCHANGED <<schemaVars, dataVars, at, faults>>

(* A read that failed counts as no secret.                                  *)
ReadSecretFails(p) ==
  /\ pc[p] = "secret" /\ faults < MaxFaults
  /\ faults' = faults + 1
  /\ Go(p, "save")
  /\ UNCHANGED <<schemaVars, dataVars, at, signs>>

SaveSecret(p) ==
  /\ pc[p] = "save"
  /\ secret' = secret + 1
  /\ signs' = [signs EXCEPT ![p] = secret + 1]
  /\ Go(p, "has")
  /\ UNCHANGED <<schemaVars, unowned, admin, at, faults>>

HasAdmin(p) ==
  /\ pc[p] = "has"
  /\ Go(p, IF admin THEN "serving" ELSE "bootstrap")
  /\ UNCHANGED <<schemaVars, dataVars, at, signs, faults>>

(* The user name of the environment is unique: the second one exits.        *)
CreateAdmin(p) ==
  /\ pc[p] = "bootstrap"
  /\ IF admin THEN Exit(p) ELSE Go(p, "backfill") /\ UNCHANGED lock
  /\ admin' = TRUE
  /\ UNCHANGED <<table, applied, done, unowned, secret, at, signs, faults>>

(* Mistake: the statement for the history is missing.                       *)
BackfilledPlaylists == Tables \ {"history"}

Backfilled == Tables

Backfill(p) ==
  /\ pc[p] = "backfill"
  /\ unowned' = unowned \ Backfilled
  /\ Go(p, "serving")
  /\ UNCHANGED <<schemaVars, secret, admin, at, signs, faults>>

-----------------------------------------------------------------------------
(* The processes.                                                           *)

Start(p) ==
  /\ pc[p] = "down"
  /\ Go(p, "table")
  /\ UNCHANGED <<schemaVars, dataVars, at, signs, faults>>

Shutdown(p) ==
  /\ pc[p] = "serving"
  /\ Exit(p)
  /\ UNCHANGED <<table, applied, done, dataVars, at, signs, faults>>

(* A crash, or a call that fails anywhere but at the secret.                *)
Crash(p) ==
  /\ pc[p] \notin {"down", "serving"} /\ faults < MaxFaults
  /\ faults' = faults + 1
  /\ Exit(p)
  /\ UNCHANGED <<table, applied, done, dataVars, at, signs>>

(* An empty database, or that of the version before there were users.       *)
Init ==
  /\ \/ table = FALSE /\ applied = {} /\ unowned = {}
     \/ table = TRUE /\ applied = 1..(Multiuser - 1) /\ unowned \in SUBSET Legacy
  /\ lock = None
  /\ done = [m \in Migrations |-> IF m \in applied THEN 1 ELSE 0]
  /\ secret = 0 /\ admin = FALSE
  /\ pc = [p \in Instances |-> "down"]
  /\ at = [p \in Instances |-> 1]
  /\ signs = [p \in Instances |-> 0]
  /\ faults = 0

Migrate(p) ==
  LookForTable(p) \/ CreateTable(p) \/ Lock(p) \/ Look(p) \/ RunSql(p) \/ Record(p) \/ Unlock(p)

NewAuth(p) ==
  ReadSecret(p) \/ SaveSecret(p) \/ HasAdmin(p) \/ CreateAdmin(p) \/ Backfill(p)

Next ==
  \E p \in Instances :
    Start(p) \/ Migrate(p) \/ CloseConn(p) \/ NewAuth(p) \/ ReadSecretFails(p)
      \/ Shutdown(p) \/ Crash(p)

(* The steps of an instance that is running go on, an exited one is started *)
(* again ("restart: unless-stopped"), a waiter gets a lock that is offered  *)
(* again and again, and pools close old connections.                        *)
Fairness ==
  \A p \in Instances :
    /\ WF_vars(Start(p)) /\ WF_vars(Migrate(p)) /\ SF_vars(Lock(p))
    /\ WF_vars(NewAuth(p)) /\ WF_vars(CloseConn(p))

Spec == Init /\ [][Next]_vars

FairSpec == Spec /\ Fairness

-----------------------------------------------------------------------------
(* Properties.                                                              *)

(* Every variable has its type.                                             *)
TypeOK ==
  /\ table \in BOOLEAN /\ applied \subseteq Migrations
  /\ lock \in (Instances \X Conns) \cup {None}
  /\ done \in [Migrations -> Nat]
  /\ unowned \subseteq Tables /\ secret \in Nat /\ admin \in BOOLEAN
  /\ pc \in [Instances -> Steps]
  /\ at \in [Instances -> 1..(Last + 1)]
  /\ signs \in [Instances -> Nat]
  /\ faults \in 0..MaxFaults

(* However many instances start together, on whatever connections: no       *)
(* migration is carried out twice, unless a fault came between its SQL and  *)
(* the record of its version, as Migrate's two calls make possible.         *)
RepeatedOnlyAfterFault ==
  \A m \in Migrations : done[m] <= 1 + faults

(* Nobody carries out a migration before all earlier ones, and nobody reads *)
(* the secret or serves requests before all of them, whatever another       *)
(* instance has recorded meanwhile.                                         *)
SchemaComplete ==
  \A p \in Instances :
    LET needed == CASE pc[p] \in {"down", "table", "create", "lock"} -> {}
                    [] pc[p] \in {"look", "run", "record", "unlock"} -> 1..(at[p] - 1)
                    [] OTHER -> Migrations
    IN \A m \in needed : done[m] > 0

(* Types, and migrations in their order.                                    *)
Sound == TypeOK /\ RepeatedOnlyAfterFault /\ SchemaComplete

(* "Safe to run concurrently": no instance gives up in Migrate unless one of *)
(* its calls was made to fail.                                               *)
MigrateSucceeds ==
  [][\A p \in Instances :
       pc[p] \in MigrateSteps /\ pc'[p] = "down" => faults' > faults]_vars

(* "Tokens survive restarts": a stored secret is never replaced.            *)
SecretPersists == [][secret # 0 => secret' = secret]_vars

(* Every instance comes to serve again, whoever crashes while it starts and *)
(* on whichever connection the lock was left.                               *)
EveryInstanceServes == \A p \in Instances : []<>(pc[p] = "serving")

(* The rows of the tables "playlists, likes, history, queue" come to belong *)
(* to the administrator.                                                    *)
LegacyReachesAdmin == <>[](unowned = {})

(* So they do if nothing fails or crashes, whichever of the instances creates *)
(* the administrator.                                                         *)
BackfilledUnlessFault == [](faults = 0) => LegacyReachesAdmin

=============================================================================
