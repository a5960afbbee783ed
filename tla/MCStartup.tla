------------------------------ MODULE MCStartup ------------------------------
(***********************************************************************************)
(* Boot, Upgrade and Shell in one specification for TLC and TLAPS.  They share no  *)
(* variable: every behaviour is one of one of them, which part says, and the       *)
(* others rest.                                                                    *)
(***********************************************************************************)
EXTENDS Naturals, Sequences

CONSTANTS
  Instances,                              \* of Boot and of Upgrade
  Conns, Last, Multiuser, Legacy,         \* of Boot
  Paths, Commands, MaxFailures,           \* of Upgrade
  Builds, Order, Versioned, MaxPuts,      \* of Shell
  MaxFaults,                              \* of Boot and of Shell
  None

VARIABLES part
VARIABLES table, applied, lock, done, unowned, secret, admin, pc, at, signs, faults
VARIABLES appRunning, rows, songs, objects, artworks, tables, recorded, locked, cmd, inst,
          failures, registered
VARIABLES deployed, online, worker, cache, page, asked, puts, left

bootVars == <<table, applied, lock, done, unowned, secret, admin, pc, at, signs, faults>>
upgradeVars == <<appRunning, rows, songs, objects, artworks, tables, recorded, locked, cmd, inst,
                 failures, registered>>
shellVars == <<deployed, online, worker, cache, page, asked, puts, left>>
vars == <<part, bootVars, upgradeVars, shellVars>>

Boot == INSTANCE Boot
Upgrade == INSTANCE Upgrade WITH table <- tables, lock <- locked
Shell == INSTANCE Shell

ASSUME StartupAssumption ==
  Boot!BootAssumption /\ Upgrade!UpgradeAssumption /\ Shell!ShellAssumption

(* The scripts of the instance for TLC: one with a version, which imports one *)
(* without.                                                                   *)
MCOrder == <<"app.js", "api.js">>

Init ==
  /\ part \in {"boot", "upgrade", "shell"}
  /\ Boot!Init /\ Upgrade!Init /\ Shell!Init
  /\ part # "boot" => ~table
  /\ part # "upgrade" => ~appRunning /\ ~artworks /\ rows \cup songs \cup objects = {}

Next ==
  /\ UNCHANGED part
  /\ \/ part = "boot" /\ Boot!Next /\ UNCHANGED <<upgradeVars, shellVars>>
     \/ part = "upgrade" /\ Upgrade!Next /\ UNCHANGED <<bootVars, shellVars>>
     \/ part = "shell" /\ Shell!Next /\ UNCHANGED <<bootVars, upgradeVars>>

(* The fairness of Boot, Upgrade and Shell, for the one that moves.         *)
Fairness ==
  /\ \A p \in Instances :
       /\ WF_bootVars(part = "boot" /\ Boot!Start(p))
       /\ WF_bootVars(part = "boot" /\ Boot!Migrate(p))
       /\ SF_bootVars(part = "boot" /\ Boot!Lock(p))
       /\ WF_bootVars(part = "boot" /\ Boot!NewAuth(p))
       /\ WF_bootVars(part = "boot" /\ Boot!CloseConn(p))
  /\ \A c \in Commands : WF_upgradeVars(part = "upgrade" /\ Upgrade!Command(c))
  /\ \A i \in Instances :
       /\ SF_upgradeVars(part = "upgrade" /\ Upgrade!Drop(i))
       /\ WF_upgradeVars(part = "upgrade" /\ Upgrade!Record(i))
  /\ WF_shellVars(part = "shell" /\ Shell!GoOnline)
  /\ WF_shellVars(part = "shell" /\ (Shell!FromCache \/ Shell!FromNetwork))
  /\ \A k \in Shell!Keys :
       /\ WF_shellVars(part = "shell" /\ Shell!Answer(k))
       /\ WF_shellVars(part = "shell" /\ Shell!PutOf(k))

Spec == Init /\ [][Next]_vars /\ Fairness

-----------------------------------------------------------------------------
(* Migrate: no migration is carried out twice unless a fault came between its SQL  *)
(* and the record of its version, every one comes before the next, and all of them *)
(* before anything else.  remove-karaoke and migration 0010: where the new version *)
(* is up, and the former one was stopped, no karaoke is left.  sw.js: a script     *)
(* with ?v= is never of a build before the page's.                                 *)
Sound ==
  /\ part = "boot" => Boot!Sound
  /\ part = "upgrade" => Upgrade!Sound
  /\ part = "shell" => Shell!Sound

(* remove-karaoke: the object of a song is never deleted.                   *)
SongsKept == Upgrade!SongsKept

(* main: every instance comes to serve again, after any one fault.          *)
EveryInstanceServes == part = "boot" => Boot!EveryInstanceServes

(* bootstrapAdmin: without a fault the rows from before come to belong to the *)
(* administrator.                                                             *)
BackfilledUnlessFault == part = "boot" => Boot!BackfilledUnlessFault

(* remove-karaoke: run again after each failure it comes to its end.        *)
UpgradeEnds == part = "upgrade" => Upgrade!UpgradeEnds

(* sw.js: whoever goes on visiting comes to have the build deployed last.   *)
CatchesUp == part = "shell" => Shell!CatchesUp

=============================================================================
