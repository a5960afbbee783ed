-------------------------------- MODULE Upgrade --------------------------------
(*******************************************************************************)
(* The removal of karaoke from an installation: cmd/remove-karaoke deletes the *)
(* objects in the bucket and then their rows, and migration 0010 of the new    *)
(* version drops the tables.  The bucket takes no part in transactions, any    *)
(* call may fail with or without its effect, and the command may die or lose   *)
(* its connection, so it is made to be run again.                              *)
(*******************************************************************************)
EXTENDS Naturals

CONSTANTS
  Paths,
  Commands,      \* runs of the command, one after another or at once
  Instances,     \* processes of the new version
  MaxFailures,   \* bound
  None

UpgradeAssumption == MaxFailures \in Nat /\ None \notin Commands

VARIABLES
  appRunning,  \* whether an instance of the former version was left running
  rows,        \* karaokes, by their paths
  songs,       \* paths of songs
  objects,     \* the bucket
  artworks,    \* whether there are artworks of karaokes
  table,       \* whether the tables of karaoke exist
  recorded,    \* 0010 in schema_migrations
  lock,        \* the command whose transaction has locked the tables
  cmd,         \* what every command does
  inst,        \* "down", "dropped" (between the migration and its record), "up"
  failures,
  registered   \* the karaokes there were at first, or were added since (for the properties)

vars == <<appRunning, rows, songs, objects, artworks, table, recorded, lock, cmd, inst, failures, registered>>
database == <<rows, songs, artworks, table, recorded>>

Idle == [at |-> "idle", keys |-> {}, key |-> None]

Cmd == [at : {"idle", "next", "verify"}, keys : SUBSET Paths, key : Paths \cup {None}]

Failing == failures < MaxFailures /\ failures' = failures + 1

(* The tables a command locks; mistake: only that of the karaokes.          *)
LockedKaraokes == {"karaokes"}

LockedTables == {"karaokes", "songs"}

Free(t) == lock = None \/ t \notin LockedTables

(* The command ends, and its transaction, if it still has one, is over.     *)
Ends(c) == cmd' = [cmd EXCEPT ![c] = Idle] /\ lock' = IF lock = c THEN None ELSE lock

-----------------------------------------------------------------------------
(* run.  Under the lock the rows are read and all of them validated; without *)
(* -apply, or if a song uses one of the paths, that is all.                  *)
List(c) ==
  /\ cmd[c] = Idle /\ table /\ lock = None
  /\ rows \cap songs = {}
  /\ lock' = c
  /\ cmd' = [cmd EXCEPT ![c] = [Idle EXCEPT !.at = "next", !.keys = rows]]
  /\ UNCHANGED <<database, objects, inst, failures, registered, appRunning>>

(* Mistake: an object that is gone already is an error.                     *)
RemovablePresent(c) == cmd[c].keys \cap objects

(* Remove accepts an object that is not there.                              *)
Removable(c) == cmd[c].keys

(* removeObjects: Remove may say that it has removed what it has not.       *)
Remove(c) ==
  /\ cmd[c].at = "next"
  /\ \E p \in Removable(c) :
       /\ cmd' = [cmd EXCEPT ![c].at = "verify", ![c].key = p]
       /\ \/ objects' = objects \ {p} /\ UNCHANGED failures
          \/ Failing /\ UNCHANGED objects
  /\ UNCHANGED <<database, lock, inst, registered, appRunning>>

(* Mistake: what Remove says is believed.                                   *)
VerifyNothing(c) ==
  /\ cmd[c].at = "verify"
  /\ cmd' = [cmd EXCEPT ![c].at = "next", ![c].keys = @ \ {cmd[c].key}, ![c].key = None]
  /\ UNCHANGED <<database, objects, lock, inst, failures, registered, appRunning>>

Verify(c) ==
  /\ cmd[c].at = "verify"
  /\ IF cmd[c].key \in objects THEN Ends(c)
     ELSE /\ cmd' = [cmd EXCEPT ![c].at = "next", ![c].keys = @ \ {cmd[c].key}, ![c].key = None]
          /\ UNCHANGED lock
  /\ UNCHANGED <<database, objects, inst, failures, registered, appRunning>>

(* The rows are deleted and that is committed; a transaction whose connection *)
(* was lost deletes nothing.                                                  *)
Finish(c) ==
  /\ cmd[c].at = "next" /\ cmd[c].keys = {}
  /\ Ends(c)
  /\ IF lock = c THEN rows' = {} /\ artworks' = FALSE ELSE UNCHANGED <<rows, artworks>>
  /\ UNCHANGED <<songs, table, recorded, objects, inst, failures, registered, appRunning>>

(* A call fails, having done its work or not, or the command dies.          *)
Fails(c) ==
  /\ cmd[c] # Idle /\ Failing /\ Ends(c)
  /\ \/ UNCHANGED objects
     \/ cmd[c].at = "next" /\ \E p \in cmd[c].keys : objects' = objects \ {p}
  /\ UNCHANGED <<database, inst, registered, appRunning>>

(* The connection is lost while the command goes on in the bucket; only where the   *)
(* application is stopped, as the command demands, does nothing depend on the lock. *)
SessionLost(c) ==
  /\ ~appRunning
  /\ lock = c /\ Failing /\ lock' = None
  /\ UNCHANGED <<database, objects, cmd, inst, registered, appRunning>>

-----------------------------------------------------------------------------
(* Migration 0010, which waits for the lock.                                *)

Refuses == table /\ rows # {}

Drop(i) ==
  /\ inst[i] = "down" /\ Free("karaokes")
  /\ IF recorded THEN inst' = [inst EXCEPT ![i] = "up"] /\ UNCHANGED <<rows, artworks, table>>
     ELSE /\ ~Refuses
          /\ inst' = [inst EXCEPT ![i] = "dropped"]
          /\ artworks' = FALSE /\ table' = FALSE /\ rows' = {}
  /\ UNCHANGED <<songs, objects, recorded, lock, cmd, failures, registered, appRunning>>

(* Another instance may have recorded it; then the insert fails.            *)
Record(i) ==
  /\ inst[i] = "dropped"
  /\ recorded' = TRUE
  /\ inst' = [inst EXCEPT ![i] = IF recorded THEN "down" ELSE "up"]
  /\ UNCHANGED <<rows, songs, artworks, table, objects, lock, cmd, failures, registered, appRunning>>

(* An instance dies or stops, the migration recorded or not.                *)
Dies(i) ==
  /\ inst[i] # "down" /\ Failing
  /\ inst' = [inst EXCEPT ![i] = "down"]
  /\ UNCHANGED <<database, objects, lock, cmd, registered, appRunning>>

-----------------------------------------------------------------------------
(* An instance of the former version writes to the bucket at any time and to the *)
(* tables when they are not locked.                                              *)
AppPuts(p) ==
  /\ appRunning /\ objects' = objects \cup {p}
  /\ UNCHANGED <<database, lock, cmd, inst, failures, registered, appRunning>>

AppAddsSong(p) ==
  /\ appRunning /\ Free("songs") /\ p \in objects
  /\ songs' = songs \cup {p}
  /\ UNCHANGED <<rows, artworks, table, recorded, objects, lock, cmd, inst, failures, registered, appRunning>>

AppAddsKaraoke(p) ==
  /\ appRunning /\ Free("karaokes") /\ table /\ p \in objects
  /\ rows' = rows \cup {p} /\ registered' = registered \cup {p}
  /\ UNCHANGED <<songs, artworks, table, recorded, objects, lock, cmd, inst, failures, appRunning>>

-----------------------------------------------------------------------------
Init ==
  /\ appRunning \in BOOLEAN
  /\ rows \in SUBSET Paths /\ songs \in SUBSET Paths /\ objects \in SUBSET Paths
  /\ artworks \in BOOLEAN /\ table = TRUE /\ recorded = FALSE
  /\ lock = None /\ cmd = [c \in Commands |-> Idle] /\ inst = [i \in Instances |-> "down"]
  /\ failures = 0 /\ registered = rows

Command(c) == List(c) \/ Remove(c) \/ Verify(c) \/ Finish(c)

Next ==
  \/ \E c \in Commands : Command(c) \/ Fails(c) \/ SessionLost(c)
  \/ \E i \in Instances : Drop(i) \/ Record(i) \/ Dies(i)
  \/ \E p \in Paths : AppPuts(p) \/ AppAddsSong(p) \/ AppAddsKaraoke(p)

Spec == Init /\ [][Next]_vars

(* "Se falhar, mantenha a aplicacao parada e execute novamente" (README): the   *)
(* command is run again, and the new version started, until they succeed.  What *)
(* waits for a lock of PostgreSQL gets it in its turn.                          *)
FairSpec ==
  /\ Spec
  /\ \A c \in Commands : WF_vars(Command(c))
  /\ \A i \in Instances : SF_vars(Drop(i)) /\ WF_vars(Record(i))

-----------------------------------------------------------------------------
(* Properties.                                                              *)

TypeOK ==
  /\ {rows, songs, objects, registered} \subseteq SUBSET Paths
  /\ {appRunning, artworks, table, recorded} \subseteq BOOLEAN
  /\ lock \in {c \in Commands : cmd[c] # Idle} \cup {None}
  /\ \A c \in Commands : cmd[c] \in Cmd
  /\ \A i \in Instances : inst[i] \in {"down", "dropped", "up"}

(* The object of a song is never deleted, even if a former instance that was left *)
(* running makes songs of the objects meanwhile.                                  *)
SongsKept == [][\A p \in objects \ objects' : p \notin songs]_vars

(* Where the former version was stopped and the new one is up nothing of karaoke *)
(* is left: no object became an orphan on the way, whatever failed.              *)
UpgradedClean ==
  ~appRunning /\ (\E i \in Instances : inst[i] = "up")
    => ~table /\ ~artworks /\ registered \cap objects = {}

(* Types, and nothing of karaoke under the new version.                     *)
Sound == TypeOK /\ UpgradedClean

(* A partial failure is no dead end: where no song uses a karaoke's path the *)
(* upgrade ends.                                                             *)
UpgradeEnds == ~appRunning /\ registered \cap songs = {} => <>(\E i \in Instances : inst[i] = "up")

=============================================================================
