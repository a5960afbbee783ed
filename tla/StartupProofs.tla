----------------------------- MODULE StartupProofs -----------------------------
(*******************************************************************************)
(* Proofs about Boot, Upgrade and Shell as MCStartup puts them together, for   *)
(* any numbers of instances, connections, migrations, commands, paths, builds, *)
(* scripts and faults.                                                         *)
(*******************************************************************************)
EXTENDS MCStartup, TLAPS

-----------------------------------------------------------------------------
(* Boot: the inductive invariant.                                           *)

(* Where the schema is not looked at yet, and where it is complete.         *)
Before == {"down", "table", "create", "lock"}
Within == {"look", "run", "record", "unlock"}
After == {"secret", "save", "has", "bootstrap", "backfill", "serving"}

(* The lock is its holder's, whichever connection has it.                   *)
HolderInv == \A p \in Instances : pc[p] \in Within => lock \in Boot!Sessions(p)

(* A migration is only begun when it is not recorded, and nobody else       *)
(* records it meanwhile.                                                    *)
AtInv ==
  \A p \in Instances :
    /\ pc[p] \in {"run", "record"} => at[p] \in Boot!Migrations /\ at[p] \notin applied
    /\ pc[p] = "record" => done[at[p]] > 0
    /\ pc[p] = "unlock" => at[p] = Last + 1

Underway(m) == \E p \in Instances : pc[p] = "record" /\ at[p] = m

(* What was carried out is recorded, about to be, or lost to a fault.       *)
CountInv ==
  \A m \in Boot!Migrations :
    /\ m \in applied => done[m] > 0
    /\ done[m] <= 1 + faults
    /\ m \notin applied /\ ~Underway(m) => done[m] <= faults

CompleteInv ==
  \A p \in Instances :
    /\ pc[p] \in Within => \A m \in 1..(at[p] - 1) : m \in Boot!Migrations => done[m] > 0
    /\ pc[p] \in After => \A m \in Boot!Migrations : done[m] > 0

BootInv == Boot!TypeOK /\ HolderInv /\ AtInv /\ CountInv /\ CompleteInv

LEMMA BootTypes ==
  ASSUME Boot!TypeOK
  PROVE  /\ faults \in Nat /\ Last \in Nat /\ MaxFaults \in Nat
         /\ \A p \in Instances : pc[p] \in Before \cup Within \cup After /\ at[p] \in 1..(Last + 1)
         /\ \A m \in Boot!Migrations : done[m] \in Nat /\ m \in Nat
BY StartupAssumption
   DEF Boot!TypeOK, Boot!BootAssumption, Boot!Steps, Boot!MigrateSteps, Boot!Migrations,
       Before, Within, After

LEMMA OneHolder ==
  ASSUME NEW p \in Instances, NEW q \in Instances,
         lock \in Boot!Sessions(p), lock \in Boot!Sessions(q)
  PROVE  p = q /\ lock # None
BY StartupAssumption DEF Boot!Sessions, Boot!BootAssumption

(* Steps of p that leave the schema alone and do not enter Migrate's lock.  *)
LEMMA AwayKeeps ==
  ASSUME BootInv, NEW p \in Instances, NEW s \in Before \cup After,
         pc' = [pc EXCEPT ![p] = s],
         s \in After => pc[p] \in After \/ \A m \in Boot!Migrations : done[m] > 0,
         lock' = lock \/ (lock \in Boot!Sessions(p) /\ lock' = None),
         applied' = applied, done' = done, at' = at,
         faults' = faults \/ (faults < MaxFaults /\ faults' = faults + 1),
         pc[p] = "record" => faults' = faults + 1,
         table' \in BOOLEAN, unowned' \subseteq Boot!Tables, secret' \in Nat, admin' \in BOOLEAN,
         signs' \in [Instances -> Nat]
  PROVE  BootInv'
<1>1. Boot!TypeOK  BY DEF BootInv
<1>2. /\ faults \in Nat /\ MaxFaults \in Nat /\ faults' \in Nat /\ faults <= faults'
      /\ \A m \in Boot!Migrations : done[m] \in Nat
  BY <1>1, BootTypes
<1>3. pc'[p] = s /\ \A q \in Instances : q # p => pc'[q] = pc[q]  BY <1>1 DEF Boot!TypeOK
<1>4. s \notin Within /\ s \notin {"record", "run", "unlock"}  BY DEF Within, Before, After
<1>5. Boot!TypeOK'
  <2>1. pc' \in [Instances -> Boot!Steps]
    BY <1>1 DEF Boot!TypeOK, Boot!Steps, Boot!MigrateSteps, Before, After
  <2>2. lock' \in (Instances \X Conns) \cup {None}  BY <1>1 DEF Boot!TypeOK
  <2>3. faults' \in 0..MaxFaults  BY <1>1, <1>2 DEF Boot!TypeOK
  <2> QED  BY <1>1, <2>1, <2>2, <2>3 DEF Boot!TypeOK
<1>6. HolderInv'
  <2> SUFFICES ASSUME NEW q \in Instances, pc'[q] \in Within PROVE lock' \in Boot!Sessions(q)
    BY DEF HolderInv, Boot!Sessions
  <2>1. q # p  BY <1>3, <1>4
  <2>2. lock \in Boot!Sessions(q)  BY <1>3, <2>1 DEF BootInv, HolderInv
  <2>3. ~(lock \in Boot!Sessions(p))  BY <2>1, <2>2, OneHolder
  <2> QED  BY <2>2, <2>3
<1>7. AtInv'  BY <1>3, <1>4 DEF BootInv, AtInv, Boot!Migrations
<1>8. CountInv'
  <2> SUFFICES ASSUME NEW m \in Boot!Migrations
               PROVE  /\ m \in applied => done[m] > 0
                      /\ done[m] <= 1 + faults'
                      /\ m \notin applied /\ ~Underway(m)' => done[m] <= faults'
    BY DEF CountInv, Boot!Migrations
  <2>1. m \in applied => done[m] > 0  BY DEF BootInv, CountInv
  <2>2. done[m] <= 1 + faults  BY DEF BootInv, CountInv
  <2>3. ASSUME m \notin applied, ~Underway(m)' PROVE done[m] <= faults'
    <3>1. CASE Underway(m)
      <4>1. PICK q \in Instances : pc[q] = "record" /\ at[q] = m  BY <3>1 DEF Underway
      <4>2. q = p  BY <1>3, <2>3, <4>1 DEF Underway
      <4>3. faults' = faults + 1  BY <4>1, <4>2
      <4> QED  BY <1>2, <2>2, <4>3
    <3>2. CASE ~Underway(m)
      <4>1. done[m] <= faults  BY <2>3, <3>2 DEF BootInv, CountInv
      <4> QED  BY <1>2, <4>1
    <3> QED  BY <3>1, <3>2
  <2> QED  BY <1>2, <2>1, <2>2, <2>3
<1>9. CompleteInv'
  <2> SUFFICES ASSUME NEW q \in Instances
               PROVE  /\ pc'[q] \in Within =>
                           \A m \in 1..(at[q] - 1) : m \in Boot!Migrations => done[m] > 0
                      /\ pc'[q] \in After => \A m \in Boot!Migrations : done[m] > 0
    BY DEF CompleteInv, Boot!Migrations
  <2>1. CASE q = p  BY <1>3, <1>4, <2>1 DEF BootInv, CompleteInv
  <2>2. CASE q # p  BY <1>3, <2>2 DEF BootInv, CompleteInv
  <2> QED  BY <2>1, <2>2
<1> QED  BY <1>5, <1>6, <1>7, <1>8, <1>9 DEF BootInv

LEMMA LockKeeps ==
  ASSUME BootInv, NEW p \in Instances, Boot!Lock(p)
  PROVE  BootInv'
<1>1. Boot!TypeOK  BY DEF BootInv
<1>2. /\ Last \in Nat /\ faults \in Nat /\ faults' = faults /\ applied' = applied /\ done' = done
      /\ \A m \in Boot!Migrations : done[m] \in Nat
  BY <1>1, BootTypes DEF Boot!Lock
<1>3. pc'[p] = "look" /\ at'[p] = 1
  BY <1>1 DEF Boot!TypeOK, Boot!Lock, Boot!Go
<1>4. \A q \in Instances : q # p => pc'[q] = pc[q] /\ at'[q] = at[q]
  BY <1>1 DEF Boot!TypeOK, Boot!Lock, Boot!Go
<1>5. \A q \in Instances : pc[q] \notin Within
  BY StartupAssumption
     DEF BootInv, HolderInv, Boot!Lock, Boot!MayLock, Boot!Sessions, Boot!BootAssumption
<1>6. pc[p] = "lock"  BY DEF Boot!Lock
<1>7. Boot!TypeOK'
  <2>1. pc' \in [Instances -> Boot!Steps]
    BY <1>1 DEF Boot!TypeOK, Boot!Lock, Boot!Go, Boot!Steps, Boot!MigrateSteps
  <2>2. at' \in [Instances -> 1..(Last + 1)]  BY <1>1, <1>2 DEF Boot!TypeOK, Boot!Lock
  <2>3. lock' \in (Instances \X Conns) \cup {None}  BY DEF Boot!Lock, Boot!Sessions
  <2> QED  BY <1>1, <2>1, <2>2, <2>3 DEF Boot!TypeOK, Boot!Lock, Boot!dataVars
<1>8. HolderInv'
  <2> SUFFICES ASSUME NEW q \in Instances, pc'[q] \in Within PROVE lock' \in Boot!Sessions(q)
    BY DEF HolderInv, Boot!Sessions
  <2>1. q = p  BY <1>4, <1>5
  <2> QED  BY <2>1 DEF Boot!Lock, Boot!Sessions
<1>9. AtInv'
  BY <1>3, <1>4, <1>5 DEF AtInv, Within, Boot!Migrations
<1>10. CountInv'
  <2>1. \A m \in Boot!Migrations : ~Underway(m)  BY <1>5 DEF Underway, Within
  <2> QED  BY <1>2, <2>1 DEF BootInv, CountInv, Boot!Migrations
<1>11. CompleteInv'
  <2> SUFFICES ASSUME NEW q \in Instances
               PROVE  /\ pc'[q] \in Within =>
                           \A m \in 1..(at'[q] - 1) : m \in Boot!Migrations => done[m] > 0
                      /\ pc'[q] \in After => \A m \in Boot!Migrations : done[m] > 0
    BY <1>2 DEF CompleteInv, Boot!Migrations
  <2>1. CASE q = p  BY <1>3, <2>1 DEF After
  <2>2. CASE q # p  BY <1>4, <1>5, <2>2 DEF BootInv, CompleteInv
  <2> QED  BY <2>1, <2>2
<1> QED  BY <1>7, <1>8, <1>9, <1>10, <1>11 DEF BootInv

(* Nobody else is between the lock and the unlock.                          *)
LEMMA Alone ==
  ASSUME BootInv, NEW p \in Instances, pc[p] \in Within, NEW q \in Instances, pc[q] \in Within
  PROVE  q = p
BY OneHolder DEF BootInv, HolderInv

LEMMA LookKeeps ==
  ASSUME BootInv, NEW p \in Instances, Boot!Look(p)
  PROVE  BootInv'
<1>1. Boot!TypeOK  BY DEF BootInv
<1>2. /\ Last \in Nat /\ faults \in Nat /\ at[p] \in 1..(Last + 1)
      /\ faults' = faults /\ applied' = applied /\ done' = done /\ lock' = lock
      /\ \A m \in Boot!Migrations : done[m] \in Nat
  BY <1>1, BootTypes DEF Boot!Look, Boot!schemaVars
<1>3. pc[p] = "look" /\ pc[p] \in Within  BY DEF Boot!Look, Within
<1>4. \A q \in Instances : q # p => pc'[q] = pc[q] /\ at'[q] = at[q] /\ pc[q] \notin Within
  BY <1>1, <1>3, Alone DEF Boot!TypeOK, Boot!Look, Boot!Go
<1>5. \/ pc'[p] = "unlock" /\ at[p] > Last /\ at'[p] = at[p]
      \/ pc'[p] = "look" /\ at[p] <= Last /\ at[p] \in applied /\ at'[p] = at[p] + 1
      \/ pc'[p] = "run" /\ at[p] <= Last /\ at[p] \notin applied /\ at'[p] = at[p]
  BY <1>1, <1>2 DEF Boot!TypeOK, Boot!Look, Boot!Go
<1>6. Boot!TypeOK'
  <2>1. pc' \in [Instances -> Boot!Steps]
    BY <1>1 DEF Boot!TypeOK, Boot!Look, Boot!Go, Boot!Steps, Boot!MigrateSteps
  <2>2. at' \in [Instances -> 1..(Last + 1)]
    BY <1>1, <1>2 DEF Boot!TypeOK, Boot!Look
  <2> QED  BY <1>1, <2>1, <2>2 DEF Boot!TypeOK, Boot!Look, Boot!schemaVars, Boot!dataVars
<1>7. HolderInv'
  <2> SUFFICES ASSUME NEW q \in Instances, pc'[q] \in Within PROVE lock' \in Boot!Sessions(q)
    BY DEF HolderInv, Boot!Sessions
  <2>1. q = p  BY <1>4
  <2> QED  BY <1>2, <1>3, <2>1 DEF BootInv, HolderInv
<1>8. AtInv'
  <2> SUFFICES ASSUME NEW q \in Instances
               PROVE  /\ pc'[q] \in {"run", "record"} =>
                           at'[q] \in Boot!Migrations /\ at'[q] \notin applied
                      /\ pc'[q] = "record" => done[at'[q]] > 0
                      /\ pc'[q] = "unlock" => at'[q] = Last + 1
    BY <1>2 DEF AtInv, Boot!Migrations
  <2>1. CASE q = p  BY <1>2, <1>5, <2>1 DEF Boot!Migrations
  <2>2. CASE q # p  BY <1>4, <2>2 DEF Within
  <2> QED  BY <2>1, <2>2
<1>9. CountInv'
  <2>1. \A m \in Boot!Migrations : ~Underway(m)  BY <1>3, <1>4 DEF Underway, Within
  <2> QED  BY <1>2, <2>1 DEF BootInv, CountInv, Boot!Migrations
<1>10. CompleteInv'
  <2> SUFFICES ASSUME NEW q \in Instances
               PROVE  /\ pc'[q] \in Within =>
                           \A m \in 1..(at'[q] - 1) : m \in Boot!Migrations => done[m] > 0
                      /\ pc'[q] \in After => \A m \in Boot!Migrations : done[m] > 0
    BY <1>2 DEF CompleteInv, Boot!Migrations
  <2>1. CASE q = p
    <3>1. \A m \in 1..(at[p] - 1) : m \in Boot!Migrations => done[m] > 0
      BY <1>3 DEF BootInv, CompleteInv
    <3>2. at[p] \in applied /\ at[p] <= Last => done[at[p]] > 0
      BY <1>2 DEF BootInv, CountInv, Boot!Migrations
    <3>3. pc'[p] \notin After  BY <1>5 DEF After
    <3> QED  BY <1>2, <1>5, <2>1, <3>1, <3>2, <3>3
  <2>2. CASE q # p  BY <1>4, <2>2 DEF BootInv, CompleteInv
  <2> QED  BY <2>1, <2>2
<1> QED  BY <1>6, <1>7, <1>8, <1>9, <1>10 DEF BootInv

LEMMA RunSqlKeeps ==
  ASSUME BootInv, NEW p \in Instances, Boot!RunSql(p)
  PROVE  BootInv'
<1>1. Boot!TypeOK /\ pc[p] = "run"  BY DEF BootInv, Boot!RunSql
<1>2. /\ faults \in Nat /\ at[p] \in Boot!Migrations /\ at[p] \notin applied
      /\ \A m \in Boot!Migrations : done[m] \in Nat
  BY <1>1, BootTypes DEF BootInv, AtInv
<1>3. /\ table' = table /\ applied' = applied /\ secret' = secret /\ admin' = admin
      /\ at' = at /\ signs' = signs /\ faults' = faults /\ unowned' \subseteq Boot!Tables
  BY <1>1 DEF Boot!RunSql, Boot!TypeOK
<1>4. CASE Boot!SqlFails(at[p])
  <2>1. done' = done /\ Boot!Exit(p)  BY <1>4 DEF Boot!RunSql, Boot!AfterSql
  <2>2. "down" \in Before \cup After /\ "down" \notin After  BY DEF Before, After
  <2> QED  BY <1>1, <1>3, <2>1, <2>2, AwayKeeps DEF Boot!Exit, Boot!Go, Boot!TypeOK
<1>5. CASE ~Boot!SqlFails(at[p])
  <2>1. /\ done' = [done EXCEPT ![at[p]] = @ + 1] /\ lock' = lock
        /\ pc' = [pc EXCEPT ![p] = "record"]
    BY <1>5 DEF Boot!RunSql, Boot!AfterSql, Boot!Go
  <2>2. /\ done'[at[p]] = done[at[p]] + 1
        /\ \A m \in Boot!Migrations : done'[m] >= done[m] /\ (m # at[p] => done'[m] = done[m])
    BY <1>1, <1>2, <2>1 DEF Boot!TypeOK
  <2>3. pc[p] \in Within /\ pc'[p] = "record"  BY <1>1, <2>1 DEF Within, Boot!TypeOK
  <2>4. \A q \in Instances : q # p => pc'[q] = pc[q] /\ pc[q] \notin Within
    BY <1>1, <2>1, <2>3, Alone DEF Boot!TypeOK
  <2>5. Boot!TypeOK'
    <3>1. pc' \in [Instances -> Boot!Steps]
      BY <1>1, <2>1 DEF Boot!TypeOK, Boot!Steps, Boot!MigrateSteps
    <3>2. done' \in [Boot!Migrations -> Nat]
      BY <1>1, <1>2, <2>1 DEF Boot!TypeOK
    <3> QED  BY <1>1, <1>3, <2>1, <3>1, <3>2 DEF Boot!TypeOK, Boot!Migrations
  <2>6. HolderInv'
    <3> SUFFICES ASSUME NEW q \in Instances, pc'[q] \in Within PROVE lock' \in Boot!Sessions(q)
      BY DEF HolderInv, Boot!Sessions
    <3>1. q = p  BY <2>4
    <3> QED  BY <2>1, <2>3, <3>1 DEF BootInv, HolderInv
  <2>7. AtInv'
    <3> SUFFICES ASSUME NEW q \in Instances
                 PROVE  /\ pc'[q] \in {"run", "record"} =>
                             at[q] \in Boot!Migrations /\ at[q] \notin applied
                        /\ pc'[q] = "record" => done'[at[q]] > 0
                        /\ pc'[q] = "unlock" => at[q] = Last + 1
      BY <1>3 DEF AtInv, Boot!Migrations
    <3>1. CASE q = p  BY <1>2, <2>2, <2>3, <3>1
    <3>2. CASE q # p  BY <2>4, <3>2 DEF Within
    <3> QED  BY <3>1, <3>2
  <2>8. CountInv'
    <3> SUFFICES ASSUME NEW m \in Boot!Migrations
                 PROVE  /\ m \in applied => done'[m] > 0
                        /\ done'[m] <= 1 + faults
                        /\ m \notin applied /\ ~Underway(m)' => done'[m] <= faults
      BY <1>3 DEF CountInv, Boot!Migrations
    <3>1. \A k \in Boot!Migrations : ~Underway(k)
      BY <1>1, <2>4 DEF Underway, Within
    <3>2. CASE m = at[p]
      <4>1. done[m] <= faults  BY <1>2, <3>1, <3>2 DEF BootInv, CountInv
      <4>2. Underway(m)'  BY <1>3, <2>3, <3>2 DEF Underway
      <4> QED  BY <1>2, <2>2, <3>2, <4>1, <4>2
    <3>3. CASE m # at[p]  BY <2>2, <3>1, <3>3 DEF BootInv, CountInv
    <3> QED  BY <3>2, <3>3
  <2>9. CompleteInv'
    <3> SUFFICES ASSUME NEW q \in Instances
                 PROVE  /\ pc'[q] \in Within =>
                             \A m \in 1..(at[q] - 1) : m \in Boot!Migrations => done'[m] > 0
                        /\ pc'[q] \in After => \A m \in Boot!Migrations : done'[m] > 0
      BY <1>3 DEF CompleteInv, Boot!Migrations
    <3>1. \A m \in Boot!Migrations : done[m] > 0 => done'[m] > 0
      <4> SUFFICES ASSUME NEW m \in Boot!Migrations, done[m] > 0 PROVE done'[m] > 0
        OBVIOUS
      <4>1. done[m] \in Nat  BY <1>2
      <4>2. done'[m] = done[m] + 1 \/ done'[m] = done[m]  BY <2>2
      <4> QED  BY <4>1, <4>2
    <3>2. CASE q = p
      <4>1. pc'[p] \notin After  BY <2>3 DEF After
      <4> QED  BY <2>3, <3>1, <3>2, <4>1 DEF BootInv, CompleteInv
    <3>3. CASE q # p  BY <2>4, <3>1, <3>3 DEF BootInv, CompleteInv
    <3> QED  BY <3>2, <3>3
  <2> QED  BY <2>5, <2>6, <2>7, <2>8, <2>9 DEF BootInv
<1> QED  BY <1>4, <1>5

LEMMA RecordKeeps ==
  ASSUME BootInv, NEW p \in Instances, Boot!Record(p)
  PROVE  BootInv'
<1>1. Boot!TypeOK /\ pc[p] = "record"  BY DEF BootInv, Boot!Record
<1>2. /\ faults \in Nat /\ Last \in Nat
      /\ at[p] \in Boot!Migrations /\ at[p] \notin applied /\ done[at[p]] > 0
      /\ \A m \in Boot!Migrations : done[m] \in Nat
  BY <1>1, BootTypes DEF BootInv, AtInv
<1>3. /\ table' = table /\ done' = done /\ lock' = lock /\ signs' = signs /\ faults' = faults
      /\ unowned' = unowned /\ secret' = secret /\ admin' = admin
      /\ applied' = applied \cup {at[p]} /\ at' = [at EXCEPT ![p] = @ + 1]
      /\ pc' = [pc EXCEPT ![p] = "look"]
  BY <1>2 DEF Boot!Record, Boot!Go, Boot!dataVars
<1>4. pc[p] \in Within /\ pc'[p] = "look" /\ at'[p] = at[p] + 1
  BY <1>1, <1>3 DEF Within, Boot!TypeOK
<1>5. \A q \in Instances : q # p => pc'[q] = pc[q] /\ at'[q] = at[q] /\ pc[q] \notin Within
  BY <1>1, <1>3, <1>4, Alone DEF Boot!TypeOK
<1>6. Boot!TypeOK'
  <2>1. pc' \in [Instances -> Boot!Steps]
    BY <1>1, <1>3 DEF Boot!TypeOK, Boot!Steps, Boot!MigrateSteps
  <2>2. at' \in [Instances -> 1..(Last + 1)]
    BY <1>1, <1>2, <1>3 DEF Boot!TypeOK, Boot!Migrations
  <2>3. applied' \subseteq Boot!Migrations  BY <1>1, <1>2, <1>3 DEF Boot!TypeOK
  <2> QED  BY <1>1, <1>3, <2>1, <2>2, <2>3 DEF Boot!TypeOK, Boot!Migrations
<1>7. HolderInv'
  <2> SUFFICES ASSUME NEW q \in Instances, pc'[q] \in Within PROVE lock' \in Boot!Sessions(q)
    BY DEF HolderInv, Boot!Sessions
  <2>1. q = p  BY <1>5
  <2> QED  BY <1>3, <1>4, <2>1 DEF BootInv, HolderInv
<1>8. AtInv'
  <2> SUFFICES ASSUME NEW q \in Instances PROVE pc'[q] \notin {"run", "record", "unlock"}
    BY DEF AtInv
  <2> QED  BY <1>4, <1>5 DEF Within
<1>9. CountInv'
  <2> SUFFICES ASSUME NEW m \in Boot!Migrations
               PROVE  /\ m \in applied' => done[m] > 0
                      /\ done[m] <= 1 + faults
                      /\ m \notin applied' => done[m] <= faults
    BY <1>3 DEF CountInv, Boot!Migrations
  <2>1. (m \in applied => done[m] > 0) /\ done[m] <= 1 + faults  BY DEF BootInv, CountInv
  <2>2. CASE m = at[p]  BY <1>2, <1>3, <2>1, <2>2
  <2>3. CASE m # at[p]
    <3>1. ~Underway(m)  BY <1>5, <2>3 DEF Underway, Within
    <3> QED  BY <1>3, <2>1, <2>3, <3>1 DEF BootInv, CountInv
  <2> QED  BY <2>2, <2>3
<1>10. CompleteInv'
  <2> SUFFICES ASSUME NEW q \in Instances
               PROVE  /\ pc'[q] \in Within =>
                           \A m \in 1..(at'[q] - 1) : m \in Boot!Migrations => done[m] > 0
                      /\ pc'[q] \in After => \A m \in Boot!Migrations : done[m] > 0
    BY <1>3 DEF CompleteInv, Boot!Migrations
  <2>1. CASE q = p
    <3>1. \A m \in 1..(at[p] - 1) : m \in Boot!Migrations => done[m] > 0
      BY <1>4 DEF BootInv, CompleteInv
    <3>2. pc'[p] \notin After  BY <1>4 DEF After
    <3> QED  BY <1>2, <1>4, <2>1, <3>1, <3>2 DEF Boot!Migrations
  <2>2. CASE q # p  BY <1>5, <2>2 DEF BootInv, CompleteInv
  <2> QED  BY <2>1, <2>2
<1> QED  BY <1>6, <1>7, <1>8, <1>9, <1>10 DEF BootInv

LEMMA CloseConnKeeps ==
  ASSUME BootInv, NEW p \in Instances, Boot!CloseConn(p)
  PROVE  BootInv'
<1>1. Boot!TypeOK /\ pc[p] \notin Within /\ lock \in Boot!Sessions(p)
  BY DEF BootInv, Boot!CloseConn, Boot!Closes, Boot!MigrateSteps, Within
<1>2. /\ lock' = None /\ table' = table /\ applied' = applied /\ done' = done /\ faults' = faults
      /\ unowned' = unowned /\ secret' = secret /\ admin' = admin
      /\ pc' = pc /\ at' = at /\ signs' = signs
  BY DEF Boot!CloseConn, Boot!dataVars, Boot!instVars
<1>3. Boot!TypeOK'  BY <1>1, <1>2 DEF Boot!TypeOK, Boot!Migrations
<1>4. HolderInv'
  <2> SUFFICES ASSUME NEW q \in Instances, pc[q] \in Within PROVE FALSE
    BY <1>2 DEF HolderInv
  <2>1. q = p  BY <1>1, OneHolder DEF BootInv, HolderInv
  <2> QED  BY <1>1, <2>1
<1>5. AtInv'  BY <1>2 DEF BootInv, AtInv, Boot!Migrations
<1>6. CountInv'  BY <1>2 DEF BootInv, CountInv, Underway, Boot!Migrations
<1>7. CompleteInv'  BY <1>2 DEF BootInv, CompleteInv, Boot!Migrations
<1> QED  BY <1>3, <1>4, <1>5, <1>6, <1>7 DEF BootInv

LEMMA UnlockKeeps ==
  ASSUME BootInv, NEW p \in Instances, Boot!Unlock(p)
  PROVE  BootInv'
<1>1. Boot!TypeOK /\ pc[p] = "unlock" /\ pc[p] \in Within
  BY DEF BootInv, Boot!Unlock, Within
<1>2. \A m \in Boot!Migrations : done[m] > 0
  <2>1. at[p] = Last + 1 /\ Last \in Nat  BY <1>1, BootTypes DEF BootInv, AtInv
  <2>2. \A m \in 1..(at[p] - 1) : m \in Boot!Migrations => done[m] > 0
    BY <1>1 DEF BootInv, CompleteInv
  <2> QED  BY <2>1, <2>2 DEF Boot!Migrations
<1>3. /\ pc' = [pc EXCEPT ![p] = "secret"]
      /\ table' = table /\ applied' = applied /\ done' = done /\ at' = at /\ signs' = signs
      /\ unowned' = unowned /\ secret' = secret /\ admin' = admin /\ faults' = faults
  BY DEF Boot!Unlock, Boot!Go, Boot!dataVars
<1>4. lock' = lock \/ (lock \in Boot!Sessions(p) /\ lock' = None)  BY DEF Boot!Unlock
<1>5. "secret" \in Before \cup After  BY DEF After
<1> QED  BY <1>1, <1>2, <1>3, <1>4, <1>5, AwayKeeps DEF Boot!TypeOK

(* The steps that are outside Migrate's lock before and after, and those that *)
(* lose it.                                                                   *)
LEMMA OutsideKeeps ==
  ASSUME BootInv, NEW p \in Instances,
         \/ Boot!Start(p) \/ Boot!LookForTable(p) \/ Boot!CreateTable(p)
         \/ Boot!ReadSecret(p) \/ Boot!ReadSecretFails(p) \/ Boot!SaveSecret(p)
         \/ Boot!HasAdmin(p) \/ Boot!CreateAdmin(p) \/ Boot!Backfill(p)
         \/ Boot!Shutdown(p) \/ Boot!Crash(p)
  PROVE  BootInv'
<1>1. Boot!TypeOK  BY DEF BootInv
<1>2. /\ table \in BOOLEAN /\ unowned \subseteq Boot!Tables /\ secret \in Nat /\ admin \in BOOLEAN
      /\ signs \in [Instances -> Nat]
  BY <1>1 DEF Boot!TypeOK
<1>3. /\ {"down", "table", "create", "lock"} \subseteq Before \cup After
      /\ {"down", "table", "create", "lock"} \cap After = {}
      /\ {"secret", "save", "has", "bootstrap", "backfill", "serving"} = After
  BY DEF Before, After
<1>4. \A s \in After : s \in Before \cup After /\ s # "record"  BY DEF After
<1>5. CASE Boot!Start(p)
  <2>1. /\ pc' = [pc EXCEPT ![p] = "table"] /\ pc[p] = "down"
        /\ UNCHANGED <<table, applied, lock, done, unowned, secret, admin, at, signs, faults>>
    BY <1>5 DEF Boot!Start, Boot!Go, Boot!schemaVars, Boot!dataVars
  <2> QED  BY <1>2, <1>3, <2>1, AwayKeeps
<1>6. CASE Boot!LookForTable(p)
  <2>1. PICK s \in {"lock", "create"} : pc' = [pc EXCEPT ![p] = s]
    BY <1>6 DEF Boot!LookForTable, Boot!Go
  <2>2. /\ pc[p] = "table"
        /\ UNCHANGED <<table, applied, lock, done, unowned, secret, admin, at, signs, faults>>
    BY <1>6 DEF Boot!LookForTable, Boot!schemaVars, Boot!dataVars
  <2> QED  BY <1>2, <1>3, <2>1, <2>2, AwayKeeps
<1>7. CASE Boot!CreateTable(p)
  <2>1. PICK s \in {"down", "lock"} : pc' = [pc EXCEPT ![p] = s]
    BY <1>7 DEF Boot!CreateTable, Boot!Go, Boot!Exit
  <2>2. /\ pc[p] = "create" /\ table' = TRUE
        /\ lock' = lock \/ (lock \in Boot!Sessions(p) /\ lock' = None)
        /\ UNCHANGED <<applied, done, unowned, secret, admin, at, signs, faults>>
    BY <1>7 DEF Boot!CreateTable, Boot!Exit, Boot!dataVars
  <2> QED  BY <1>2, <1>3, <2>1, <2>2, AwayKeeps
<1>8. CASE Boot!ReadSecret(p)
  <2>1. PICK s \in {"has", "save"} : pc' = [pc EXCEPT ![p] = s]
    BY <1>8 DEF Boot!ReadSecret, Boot!Go
  <2>2. /\ pc[p] = "secret" /\ signs' \in [Instances -> Nat]
        /\ UNCHANGED <<table, applied, lock, done, unowned, secret, admin, at, faults>>
    BY <1>2, <1>8 DEF Boot!ReadSecret, Boot!schemaVars, Boot!dataVars
  <2> QED  BY <1>2, <1>3, <1>4, <2>1, <2>2, AwayKeeps
<1>9. CASE Boot!ReadSecretFails(p)
  <2>1. /\ pc' = [pc EXCEPT ![p] = "save"] /\ pc[p] = "secret"
        /\ faults < MaxFaults /\ faults' = faults + 1
        /\ UNCHANGED <<table, applied, lock, done, unowned, secret, admin, at, signs>>
    BY <1>9 DEF Boot!ReadSecretFails, Boot!Go, Boot!schemaVars, Boot!dataVars
  <2> QED  BY <1>2, <1>3, <1>4, <2>1, AwayKeeps
<1>10. CASE Boot!SaveSecret(p)
  <2>1. /\ pc' = [pc EXCEPT ![p] = "has"] /\ pc[p] = "save"
        /\ signs' \in [Instances -> Nat] /\ secret' \in Nat
        /\ UNCHANGED <<table, applied, lock, done, unowned, admin, at, faults>>
    BY <1>2, <1>10 DEF Boot!SaveSecret, Boot!Go, Boot!schemaVars
  <2> QED  BY <1>2, <1>3, <1>4, <2>1, AwayKeeps
<1>11. CASE Boot!HasAdmin(p)
  <2>1. PICK s \in {"serving", "bootstrap"} : pc' = [pc EXCEPT ![p] = s]
    BY <1>11 DEF Boot!HasAdmin, Boot!Go
  <2>2. /\ pc[p] = "has"
        /\ UNCHANGED <<table, applied, lock, done, unowned, secret, admin, at, signs, faults>>
    BY <1>11 DEF Boot!HasAdmin, Boot!schemaVars, Boot!dataVars
  <2> QED  BY <1>2, <1>3, <1>4, <2>1, <2>2, AwayKeeps
<1>12. CASE Boot!CreateAdmin(p)
  <2>1. PICK s \in {"down", "backfill"} : pc' = [pc EXCEPT ![p] = s]
    BY <1>12 DEF Boot!CreateAdmin, Boot!Go, Boot!Exit
  <2>2. /\ pc[p] = "bootstrap" /\ admin' = TRUE
        /\ lock' = lock \/ (lock \in Boot!Sessions(p) /\ lock' = None)
        /\ UNCHANGED <<table, applied, done, unowned, secret, at, signs, faults>>
    BY <1>12 DEF Boot!CreateAdmin, Boot!Exit
  <2> QED  BY <1>2, <1>3, <1>4, <2>1, <2>2, AwayKeeps
<1>13. CASE Boot!Backfill(p)
  <2>1. /\ pc' = [pc EXCEPT ![p] = "serving"] /\ pc[p] = "backfill"
        /\ unowned' \subseteq Boot!Tables
        /\ UNCHANGED <<table, applied, lock, done, secret, admin, at, signs, faults>>
    BY <1>2, <1>13 DEF Boot!Backfill, Boot!Go, Boot!schemaVars
  <2> QED  BY <1>2, <1>3, <1>4, <2>1, AwayKeeps
<1>14. CASE Boot!Shutdown(p)
  <2>1. /\ pc' = [pc EXCEPT ![p] = "down"] /\ pc[p] = "serving"
        /\ lock' = lock \/ (lock \in Boot!Sessions(p) /\ lock' = None)
        /\ UNCHANGED <<table, applied, done, unowned, secret, admin, at, signs, faults>>
    BY <1>14 DEF Boot!Shutdown, Boot!Exit, Boot!Go, Boot!dataVars
  <2> QED  BY <1>2, <1>3, <2>1, AwayKeeps
<1>15. CASE Boot!Crash(p)
  <2>1. /\ pc' = [pc EXCEPT ![p] = "down"] /\ faults < MaxFaults /\ faults' = faults + 1
        /\ lock' = lock \/ (lock \in Boot!Sessions(p) /\ lock' = None)
        /\ UNCHANGED <<table, applied, done, unowned, secret, admin, at, signs>>
    BY <1>15 DEF Boot!Crash, Boot!Exit, Boot!Go, Boot!dataVars
  <2> QED  BY <1>2, <1>3, <2>1, AwayKeeps
<1> QED  BY <1>5, <1>6, <1>7, <1>8, <1>9, <1>10, <1>11, <1>12, <1>13, <1>14, <1>15

LEMMA BootInit == Boot!Init => BootInv
<1> SUFFICES ASSUME Boot!Init PROVE BootInv
  OBVIOUS
<1>1. /\ Last \in Nat /\ Multiuser \in 2..Last /\ Legacy \subseteq Boot!Tables /\ MaxFaults \in Nat
  BY StartupAssumption DEF Boot!BootAssumption
<1>2. /\ lock = None /\ secret = 0 /\ admin = FALSE /\ faults = 0 /\ table \in BOOLEAN
      /\ pc = [p \in Instances |-> "down"] /\ at = [p \in Instances |-> 1]
      /\ signs = [p \in Instances |-> 0]
      /\ done = [m \in Boot!Migrations |-> IF m \in applied THEN 1 ELSE 0]
      /\ applied = {} \/ applied = 1..(Multiuser - 1)
      /\ unowned \subseteq Legacy
  BY DEF Boot!Init
<1>3. Boot!TypeOK
  <2>1. applied \subseteq Boot!Migrations  BY <1>1, <1>2 DEF Boot!Migrations
  <2>2. done \in [Boot!Migrations -> Nat]  BY <1>2
  <2>3. pc \in [Instances -> Boot!Steps]  BY <1>2 DEF Boot!Steps
  <2>4. at \in [Instances -> 1..(Last + 1)] /\ signs \in [Instances -> Nat]  BY <1>1, <1>2
  <2>5. unowned \subseteq Boot!Tables /\ faults \in 0..MaxFaults  BY <1>1, <1>2
  <2> QED  BY <1>2, <2>1, <2>2, <2>3, <2>4, <2>5 DEF Boot!TypeOK
<1>4. \A p \in Instances : pc[p] \notin Within \cup After
  BY <1>2 DEF Within, After
<1>5. HolderInv /\ CompleteInv  BY <1>4 DEF HolderInv, CompleteInv
<1>6. AtInv  BY <1>2 DEF AtInv
<1>7. CountInv  BY <1>2 DEF CountInv, Underway
<1> QED  BY <1>3, <1>5, <1>6, <1>7 DEF BootInv

LEMMA BootNext == BootInv /\ Boot!Next => BootInv'
<1> SUFFICES ASSUME BootInv, Boot!Next PROVE BootInv'
  OBVIOUS
<1>1. PICK p \in Instances :
        \/ Boot!Start(p) \/ Boot!Migrate(p) \/ Boot!CloseConn(p) \/ Boot!NewAuth(p)
        \/ Boot!ReadSecretFails(p) \/ Boot!Shutdown(p) \/ Boot!Crash(p)
  BY DEF Boot!Next
<1> QED  BY <1>1, LockKeeps, LookKeeps, RunSqlKeeps, RecordKeeps, UnlockKeeps, CloseConnKeeps,
            OutsideKeeps
         DEF Boot!Migrate, Boot!NewAuth

LEMMA BootStutter == BootInv /\ UNCHANGED bootVars => BootInv'
<1> SUFFICES ASSUME BootInv, UNCHANGED bootVars PROVE BootInv'
  OBVIOUS
<1>1. /\ table' = table /\ applied' = applied /\ done' = done /\ at' = at /\ signs' = signs
      /\ unowned' = unowned /\ secret' = secret /\ admin' = admin /\ faults' = faults
      /\ lock' = lock /\ pc' = pc
  BY DEF bootVars
<1> QED  BY <1>1 DEF BootInv, Boot!TypeOK, HolderInv, AtInv, CountInv, CompleteInv, Underway,
                     Boot!Migrations, Boot!Sessions

LEMMA BootIsSound == BootInv => Boot!Sound
<1> SUFFICES ASSUME BootInv PROVE Boot!Sound
  OBVIOUS
<1>1. Boot!TypeOK /\ Last \in Nat  BY BootTypes DEF BootInv
<1>2. Boot!RepeatedOnlyAfterFault
  BY DEF BootInv, CountInv, Boot!RepeatedOnlyAfterFault
<1>3. Boot!SchemaComplete
  <2>1. ASSUME NEW p \in Instances
        PROVE  \A m \in (CASE pc[p] \in {"down", "table", "create", "lock"} -> {}
                          [] pc[p] \in {"look", "run", "record", "unlock"} -> 1..(at[p] - 1)
                          [] OTHER -> Boot!Migrations) : done[m] > 0
    <3>1. /\ pc[p] \in Before \cup Within \cup After /\ at[p] \in 1..(Last + 1)
      BY <1>1, BootTypes
    <3>2. CASE pc[p] \in Before  BY <3>2 DEF Before
    <3>3. CASE pc[p] \in Within
      <4>1. \A m \in 1..(at[p] - 1) : done[m] > 0
        BY <1>1, <3>1, <3>3 DEF BootInv, CompleteInv, Boot!Migrations
      <4>2. pc[p] \notin Before  BY <3>3 DEF Within, Before
      <4> QED  BY <3>3, <4>1, <4>2 DEF Within, Before
    <3>4. CASE pc[p] \in After
      <4>1. \A m \in Boot!Migrations : done[m] > 0  BY <3>4 DEF BootInv, CompleteInv
      <4>2. pc[p] \notin Before /\ pc[p] \notin Within  BY <3>4 DEF Within, Before, After
      <4> QED  BY <4>1, <4>2 DEF Within, Before
    <3> QED  BY <3>1, <3>2, <3>3, <3>4
  <2> QED  BY <2>1 DEF Boot!SchemaComplete
<1> QED  BY <1>1, <1>2, <1>3 DEF Boot!Sound

-----------------------------------------------------------------------------
(* Upgrade: the inductive invariant.                                        *)

CommandInv ==
  \A c \in Commands :
    /\ cmd[c].at = "idle" => cmd[c] = Upgrade!Idle
    /\ cmd[c].at = "verify" => cmd[c].key \in cmd[c].keys

(* What a command is to delete is of no song: the application, where it was left *)
(* running, adds none while the command has its lock.                            *)
KeysInv ==
  \A c \in Commands :
    /\ cmd[c].keys \cap songs = {}
    /\ appRunning /\ cmd[c] # Upgrade!Idle => locked = c

(* Where the application was stopped, the objects of the rows are still to be *)
(* deleted by whoever will delete the rows, and no object has lost its row.   *)
RowsInv ==
  ~appRunning => /\ registered \cap objects \subseteq rows
                 /\ \A c \in Commands : locked = c => rows \cap objects \subseteq cmd[c].keys

DroppedInv ==
  /\ ~tables => rows = {} /\ ~artworks
  /\ recorded => ~tables
  /\ \A i \in Instances : inst[i] \in {"dropped", "up"} => ~tables

(* The commands and the instances are functions.                            *)
Shapes == cmd = [c \in Commands |-> cmd[c]] /\ inst = [i \in Instances |-> inst[i]]

UpgradeInv == Upgrade!TypeOK /\ Shapes /\ CommandInv /\ KeysInv /\ RowsInv /\ DroppedInv

LEMMA UpgradeTypes ==
  ASSUME Upgrade!TypeOK
  PROVE  /\ rows \subseteq Paths /\ songs \subseteq Paths /\ objects \subseteq Paths
         /\ registered \subseteq Paths
         /\ appRunning \in BOOLEAN /\ artworks \in BOOLEAN
         /\ tables \in BOOLEAN /\ recorded \in BOOLEAN
         /\ locked # None => locked \in Commands /\ cmd[locked] # Upgrade!Idle
         /\ None \notin Commands
         /\ \A c \in Commands : cmd[c] \in Upgrade!Cmd
BY StartupAssumption DEF Upgrade!TypeOK, Upgrade!UpgradeAssumption

(* A command's step, if what it still has to delete, and the others, allow it. *)
LEMMA CommandKeeps ==
  ASSUME UpgradeInv, NEW c \in Commands, NEW r \in Upgrade!Cmd,
         cmd' = [cmd EXCEPT ![c] = r],
         r.at = "idle" => r = Upgrade!Idle,
         r.at = "verify" => r.key \in r.keys,
         r.keys \cap songs = {},
         \/ locked' = locked
         \/ locked = None /\ locked' = c
         \/ locked = c /\ locked' = None,
         r = Upgrade!Idle => locked' # c,
         r # Upgrade!Idle /\ appRunning => locked' = c,
         ~appRunning /\ locked' = c => rows' \cap objects' \subseteq r.keys,
         objects' \subseteq objects,
         rows' = rows \/ (rows' = {} /\ (~appRunning => rows \cap objects' = {})),
         artworks' = artworks \/ artworks' = FALSE,
         UNCHANGED <<appRunning, songs, tables, recorded, inst, registered>>
  PROVE  UpgradeInv'
<1>1. Upgrade!TypeOK  BY DEF UpgradeInv
<1>2. /\ rows \subseteq Paths /\ songs \subseteq Paths /\ objects \subseteq Paths
      /\ registered \subseteq Paths
      /\ appRunning \in BOOLEAN /\ artworks \in BOOLEAN
      /\ tables \in BOOLEAN /\ recorded \in BOOLEAN
      /\ locked # None => locked \in Commands /\ cmd[locked] # Upgrade!Idle
      /\ None \notin Commands
  BY <1>1, UpgradeTypes
<1>3. cmd'[c] = r /\ \A d \in Commands : d # c => cmd'[d] = cmd[d]  BY DEF UpgradeInv, Shapes
<1>4. Upgrade!TypeOK'
  <2>1. locked' \in {d \in Commands : cmd'[d] # Upgrade!Idle} \cup {None}
    <3>1. CASE locked' = None  BY <3>1
    <3>2. CASE locked' # None
      <4>1. locked' \in Commands  BY <1>2, <3>2
      <4>2. cmd'[locked'] # Upgrade!Idle
        <5>1. CASE locked' = c  BY <1>3, <5>1
        <5>2. CASE locked' # c  BY <1>2, <1>3, <3>2, <4>1, <5>2
        <5> QED  BY <5>1, <5>2
      <4> QED  BY <4>1, <4>2
    <3> QED  BY <3>1, <3>2
  <2>2. \A d \in Commands : cmd'[d] \in Upgrade!Cmd  BY <1>1, <1>3 DEF Upgrade!TypeOK
  <2>3. /\ rows' \subseteq Paths /\ songs' \subseteq Paths /\ objects' \subseteq Paths
        /\ registered' \subseteq Paths
        /\ appRunning' \in BOOLEAN /\ artworks' \in BOOLEAN /\ tables' \in BOOLEAN
        /\ recorded' \in BOOLEAN
    BY <1>2
  <2>4. \A i \in Instances : inst'[i] \in {"down", "dropped", "up"}  BY <1>1 DEF Upgrade!TypeOK
  <2> QED  BY <2>1, <2>2, <2>3, <2>4 DEF Upgrade!TypeOK, Upgrade!Cmd, Upgrade!Idle
<1>5. Shapes'
  <2>1. cmd' = [d \in Commands |-> cmd'[d]]  BY DEF UpgradeInv, Shapes
  <2>2. inst' = [i \in Instances |-> inst'[i]]  BY DEF UpgradeInv, Shapes
  <2> QED  BY <2>1, <2>2 DEF Shapes
<1>6. CommandInv'
  <2> SUFFICES ASSUME NEW d \in Commands
               PROVE  /\ cmd'[d].at = "idle" => cmd'[d] = Upgrade!Idle
                      /\ cmd'[d].at = "verify" => cmd'[d].key \in cmd'[d].keys
    BY DEF CommandInv, Upgrade!Idle
  <2> QED  BY <1>3 DEF UpgradeInv, CommandInv
<1>7. KeysInv'
  <2> SUFFICES ASSUME NEW d \in Commands
               PROVE  /\ cmd'[d].keys \cap songs = {}
                      /\ appRunning /\ cmd'[d] # Upgrade!Idle => locked' = d
    BY DEF KeysInv, Upgrade!Idle
  <2>1. CASE d = c  BY <1>3, <2>1
  <2>2. CASE d # c
    <3>1. cmd[d].keys \cap songs = {} /\ (appRunning /\ cmd[d] # Upgrade!Idle => locked = d)
      BY DEF UpgradeInv, KeysInv
    <3>2. ASSUME appRunning, cmd[d] # Upgrade!Idle PROVE locked' = d
      <4>1. locked = d /\ locked # None  BY <1>2, <3>1, <3>2
      <4> QED  BY <2>2, <4>1
    <3> QED  BY <1>3, <2>2, <3>1, <3>2
  <2> QED  BY <2>1, <2>2
<1>8. RowsInv'
  <2> SUFFICES ASSUME ~appRunning
               PROVE  /\ registered \cap objects' \subseteq rows'
                      /\ \A d \in Commands :
                           locked' = d => rows' \cap objects' \subseteq cmd'[d].keys
    BY DEF RowsInv
  <2>1. registered \cap objects' \subseteq rows'  BY DEF UpgradeInv, RowsInv
  <2>2. ASSUME NEW d \in Commands, locked' = d PROVE rows' \cap objects' \subseteq cmd'[d].keys
    <3>1. CASE d = c  BY <1>3, <2>2, <3>1
    <3>2. CASE d # c
      <4>1. locked = d  BY <1>2, <2>2, <3>2
      <4>2. rows \cap objects \subseteq cmd[d].keys  BY <4>1 DEF UpgradeInv, RowsInv
      <4> QED  BY <1>3, <3>2, <4>2
    <3> QED  BY <3>1, <3>2
  <2> QED  BY <2>1, <2>2
<1>9. DroppedInv'  BY DEF UpgradeInv, DroppedInv
<1> QED  BY <1>4, <1>5, <1>6, <1>7, <1>8, <1>9 DEF UpgradeInv

LEMMA CommandNext ==
  ASSUME UpgradeInv, NEW c \in Commands, Upgrade!Command(c)
  PROVE  UpgradeInv'
<1>1. Upgrade!TypeOK  BY DEF UpgradeInv
<1>2. /\ rows \subseteq Paths /\ songs \subseteq Paths /\ objects \subseteq Paths
      /\ locked # None => locked \in Commands /\ cmd[locked] # Upgrade!Idle
      /\ None \notin Commands
      /\ \A d \in Commands : cmd[d] \in Upgrade!Cmd
  BY <1>1, UpgradeTypes
<1>3. /\ cmd[c].keys \cap songs = {} /\ (appRunning /\ cmd[c] # Upgrade!Idle => locked = c)
      /\ cmd[c].at = "idle" => cmd[c] = Upgrade!Idle
      /\ cmd[c].at = "verify" => cmd[c].key \in cmd[c].keys
      /\ ~appRunning /\ locked = c => rows \cap objects \subseteq cmd[c].keys
  BY DEF UpgradeInv, KeysInv, CommandInv, RowsInv
<1>4. PICK t \in Upgrade!Cmd : t = cmd[c]  BY <1>2
<1>5. /\ t.at \in {"idle", "next", "verify"}
      /\ t.keys \subseteq Paths /\ t.key \in Paths \cup {None}
      /\ t = [at |-> t.at, keys |-> t.keys, key |-> t.key]
  BY DEF Upgrade!Cmd
<1>6. Upgrade!Idle \in Upgrade!Cmd /\ Upgrade!Idle.at = "idle" /\ Upgrade!Idle.keys = {}
  BY DEF Upgrade!Idle, Upgrade!Cmd
<1>7. CASE Upgrade!List(c)
  <2> DEFINE r == [Upgrade!Idle EXCEPT !.at = "next", !.keys = rows]
  <2>2. r \in Upgrade!Cmd  BY <1>2, <1>6 DEF Upgrade!Cmd
  <2>3. r.at = "next" /\ r.keys = rows  BY <1>6 DEF Upgrade!Cmd
  <2>4. /\ cmd' = [cmd EXCEPT ![c] = r] /\ locked = None /\ locked' = c /\ rows \cap songs = {}
        /\ UNCHANGED <<rows, songs, artworks, tables, recorded, objects, inst, registered,
                       appRunning>>
    BY <1>7 DEF Upgrade!List, Upgrade!database
  <2> HIDE DEF r
  <2>5. r # Upgrade!Idle  BY <1>6, <2>3
  <2> QED  BY <2>2, <2>3, <2>4, <2>5, CommandKeeps
<1>8. CASE Upgrade!Remove(c)
  <2>1. PICK p \in t.keys :
          /\ cmd' = [cmd EXCEPT ![c].at = "verify", ![c].key = p]
          /\ objects' = objects \ {p} \/ objects' = objects
    BY <1>4, <1>8 DEF Upgrade!Remove, Upgrade!Removable
  <2> DEFINE r == [t EXCEPT !.at = "verify", !.key = p]
  <2>2. cmd' = [cmd EXCEPT ![c] = r]  BY <1>4, <2>1
  <2>3. r \in Upgrade!Cmd  BY <1>5 DEF Upgrade!Cmd
  <2>4. r.at = "verify" /\ r.keys = t.keys /\ r.key = p  BY <1>5
  <2>5. /\ cmd[c].at = "next" /\ locked' = locked
        /\ UNCHANGED <<rows, songs, artworks, tables, recorded, inst, registered, appRunning>>
    BY <1>8 DEF Upgrade!Remove, Upgrade!database
  <2> HIDE DEF r
  <2>6. r # Upgrade!Idle /\ cmd[c] # Upgrade!Idle  BY <1>6, <2>4, <2>5
  <2>7. objects' \subseteq objects  BY <2>1
  <2>8. ~appRunning /\ locked' = c => rows' \cap objects' \subseteq r.keys
    BY <1>3, <1>4, <2>4, <2>5, <2>7
  <2> QED  BY <1>3, <1>4, <2>1, <2>2, <2>3, <2>4, <2>5, <2>6, <2>7, <2>8, CommandKeeps
<1>9. CASE Upgrade!Verify(c)
  <2>1. UNCHANGED <<rows, songs, artworks, tables, recorded, objects, inst, registered, appRunning>>
    BY <1>9 DEF Upgrade!Verify, Upgrade!database
  <2>2. CASE cmd[c].key \in objects
    <3>1. cmd' = [cmd EXCEPT ![c] = Upgrade!Idle] /\ locked' = IF locked = c THEN None ELSE locked
      BY <1>9, <2>2 DEF Upgrade!Verify, Upgrade!Ends
    <3>2. locked' # c  BY <1>2, <3>1
    <3> QED  BY <1>6, <2>1, <3>1, <3>2, CommandKeeps
  <2>3. CASE cmd[c].key \notin objects
    <3> DEFINE r == [t EXCEPT !.at = "next", !.keys = @ \ {t.key}, !.key = None]
    <3>1. cmd' = [cmd EXCEPT ![c] = r]  BY <1>4, <1>9, <2>3 DEF Upgrade!Verify
    <3>2. r \in Upgrade!Cmd  BY <1>5 DEF Upgrade!Cmd
    <3>3. r.at = "next" /\ r.keys = t.keys \ {t.key}  BY <1>5
    <3>4. locked' = locked /\ cmd[c].at = "verify"  BY <1>9, <2>3 DEF Upgrade!Verify
    <3> HIDE DEF r
    <3>5. r # Upgrade!Idle /\ cmd[c] # Upgrade!Idle  BY <1>6, <3>3, <3>4
    <3>6. ~appRunning /\ locked' = c => rows' \cap objects' \subseteq r.keys
      BY <1>3, <1>4, <2>1, <2>3, <3>3, <3>4
    <3> QED  BY <1>3, <1>4, <2>1, <3>1, <3>2, <3>3, <3>4, <3>5, <3>6, CommandKeeps
  <2> QED  BY <2>2, <2>3
<1>10. CASE Upgrade!Finish(c)
  <2>1. /\ cmd' = [cmd EXCEPT ![c] = Upgrade!Idle] /\ cmd[c].keys = {}
        /\ locked' = IF locked = c THEN None ELSE locked
        /\ UNCHANGED <<songs, tables, recorded, objects, inst, registered, appRunning>>
    BY <1>10 DEF Upgrade!Finish, Upgrade!Ends
  <2>2. locked' # c  BY <1>2, <2>1
  <2>3. \/ rows' = rows /\ artworks' = artworks
        \/ rows' = {} /\ artworks' = FALSE /\ locked = c
    BY <1>10 DEF Upgrade!Finish
  <2>4. rows' = rows \/ (rows' = {} /\ (~appRunning => rows \cap objects' = {}))
    BY <1>3, <2>1, <2>3
  <2> QED  BY <1>6, <2>1, <2>2, <2>3, <2>4, CommandKeeps
<1> QED  BY <1>7, <1>8, <1>9, <1>10 DEF Upgrade!Command

LEMMA FailsKeeps ==
  ASSUME UpgradeInv, NEW c \in Commands, Upgrade!Fails(c)
  PROVE  UpgradeInv'
<1>1. None \notin Commands  BY UpgradeTypes DEF UpgradeInv
<1>2. /\ cmd' = [cmd EXCEPT ![c] = Upgrade!Idle] /\ locked' = IF locked = c THEN None ELSE locked
      /\ objects' \subseteq objects
      /\ UNCHANGED <<rows, songs, artworks, tables, recorded, inst, registered, appRunning>>
  BY DEF Upgrade!Fails, Upgrade!Ends, Upgrade!database
<1>3. Upgrade!Idle \in Upgrade!Cmd /\ Upgrade!Idle.at = "idle" /\ Upgrade!Idle.keys = {}
  BY DEF Upgrade!Idle, Upgrade!Cmd
<1>4. locked' # c  BY <1>1, <1>2
<1> QED  BY <1>2, <1>3, <1>4, CommandKeeps

LEMMA SessionLostKeeps ==
  ASSUME UpgradeInv, NEW c \in Commands, Upgrade!SessionLost(c)
  PROVE  UpgradeInv'
<1>1. /\ locked' = None /\ cmd' = cmd /\ ~appRunning
      /\ UNCHANGED <<rows, songs, artworks, tables, recorded, objects, inst, registered,
                     appRunning>>
  BY DEF Upgrade!SessionLost, Upgrade!database
<1>2. None \notin Commands  BY UpgradeTypes DEF UpgradeInv
<1>3. Upgrade!TypeOK'
  BY <1>1 DEF UpgradeInv, Upgrade!TypeOK, Upgrade!Cmd, Upgrade!Idle
<1>4. Shapes' /\ CommandInv' /\ DroppedInv'
  BY <1>1 DEF UpgradeInv, Shapes, CommandInv, DroppedInv, Upgrade!Idle
<1>5. KeysInv'  BY <1>1 DEF UpgradeInv, KeysInv
<1>6. RowsInv'  BY <1>1, <1>2 DEF UpgradeInv, RowsInv
<1> QED  BY <1>3, <1>4, <1>5, <1>6 DEF UpgradeInv

LEMMA InstanceKeeps ==
  ASSUME UpgradeInv, NEW i \in Instances,
         Upgrade!Drop(i) \/ Upgrade!Record(i) \/ Upgrade!Dies(i)
  PROVE  UpgradeInv'
<1>1. /\ locked' = locked /\ cmd' = cmd
      /\ UNCHANGED <<songs, objects, registered, appRunning>>
  BY DEF Upgrade!Drop, Upgrade!Record, Upgrade!Dies, Upgrade!database
<1>2. \/ rows' = rows /\ artworks' = artworks /\ tables' = tables
      \/ locked = None /\ rows = {} /\ rows' = {} /\ artworks' = FALSE /\ tables' = FALSE
  BY DEF Upgrade!Drop, Upgrade!Record, Upgrade!Dies, Upgrade!Free, Upgrade!LockedTables,
         Upgrade!Refuses, Upgrade!database, UpgradeInv, DroppedInv
<1>3. PICK s \in {"down", "dropped", "up"} :
        inst' = [inst EXCEPT ![i] = s] /\ (s # "down" => ~tables')
  BY DEF Upgrade!Drop, Upgrade!Record, Upgrade!Dies, UpgradeInv, DroppedInv
<1>4. recorded' \in BOOLEAN /\ (recorded' => ~tables')
  <2>1. recorded \in BOOLEAN  BY UpgradeTypes DEF UpgradeInv
  <2>2. recorded' = recorded \/ (recorded' = TRUE /\ inst[i] = "dropped")
    BY DEF Upgrade!Drop, Upgrade!Record, Upgrade!Dies, Upgrade!database
  <2>3. (recorded => ~tables) /\ (inst[i] = "dropped" => ~tables)  BY DEF UpgradeInv, DroppedInv
  <2>4. recorded' \in BOOLEAN  BY <2>1, <2>2
  <2>5. ASSUME recorded' PROVE ~tables'
    <3>1. ~tables  BY <2>2, <2>3, <2>5
    <3> QED  BY <1>2, <3>1
  <2> QED  BY <2>4, <2>5
<1>5. inst'[i] = s /\ \A j \in Instances : j # i => inst'[j] = inst[j]
  BY <1>3 DEF UpgradeInv, Shapes
<1>6. Upgrade!TypeOK'
  <2>1. \A j \in Instances : inst'[j] \in {"down", "dropped", "up"}
    BY <1>5 DEF UpgradeInv, Upgrade!TypeOK
  <2>2. rows' \subseteq Paths /\ artworks' \in BOOLEAN /\ tables' \in BOOLEAN
    BY <1>2, UpgradeTypes DEF UpgradeInv
  <2> QED  BY <1>1, <1>4, <2>1, <2>2 DEF UpgradeInv, Upgrade!TypeOK, Upgrade!Cmd, Upgrade!Idle
<1>7. Shapes'
  <2>1. cmd' = [d \in Commands |-> cmd'[d]]  BY <1>1 DEF UpgradeInv, Shapes
  <2>2. inst' = [j \in Instances |-> inst'[j]]  BY <1>3 DEF UpgradeInv, Shapes
  <2> QED  BY <2>1, <2>2 DEF Shapes
<1>8. CommandInv' /\ KeysInv'
  BY <1>1 DEF UpgradeInv, CommandInv, KeysInv, Upgrade!Idle
<1>9. RowsInv'
  <2>1. rows' = rows  BY <1>2
  <2> QED  BY <1>1, <2>1 DEF UpgradeInv, RowsInv
<1>10. DroppedInv'
  <2> SUFFICES /\ ~tables' => rows' = {} /\ ~artworks'
               /\ \A j \in Instances : inst'[j] \in {"dropped", "up"} => ~tables'
    BY <1>4 DEF DroppedInv
  <2>1. ~tables' => rows' = {} /\ ~artworks'  BY <1>2 DEF UpgradeInv, DroppedInv
  <2>2. \A j \in Instances : inst'[j] \in {"dropped", "up"} => ~tables'
    BY <1>2, <1>3, <1>5 DEF UpgradeInv, DroppedInv
  <2> QED  BY <2>1, <2>2
<1> QED  BY <1>6, <1>7, <1>8, <1>9, <1>10 DEF UpgradeInv

LEMMA AppKeeps ==
  ASSUME UpgradeInv, NEW p \in Paths,
         Upgrade!AppPuts(p) \/ Upgrade!AppAddsSong(p) \/ Upgrade!AppAddsKaraoke(p)
  PROVE  UpgradeInv'
<1>1. /\ appRunning /\ locked' = locked /\ cmd' = cmd
      /\ UNCHANGED <<artworks, tables, recorded, inst, appRunning>>
  BY DEF Upgrade!AppPuts, Upgrade!AppAddsSong, Upgrade!AppAddsKaraoke, Upgrade!database
<1>2. /\ rows' \in {rows, rows \cup {p}} /\ songs' \in {songs, songs \cup {p}}
      /\ objects' \in {objects, objects \cup {p}}
      /\ registered' \in {registered, registered \cup {p}}
      /\ songs' # songs => locked = None
      /\ rows' # rows => tables
  BY DEF Upgrade!AppPuts, Upgrade!AppAddsSong, Upgrade!AppAddsKaraoke, Upgrade!database,
         Upgrade!Free, Upgrade!LockedTables
<1>3. Upgrade!TypeOK'
  <2>1. /\ rows' \subseteq Paths /\ songs' \subseteq Paths /\ objects' \subseteq Paths
        /\ registered' \subseteq Paths
    BY <1>2, UpgradeTypes DEF UpgradeInv
  <2> QED  BY <1>1, <2>1 DEF UpgradeInv, Upgrade!TypeOK, Upgrade!Cmd, Upgrade!Idle
<1>4. Shapes' /\ CommandInv' /\ DroppedInv'
  BY <1>1, <1>2 DEF UpgradeInv, Shapes, CommandInv, DroppedInv, Upgrade!Idle
<1>5. KeysInv'
  <2> SUFFICES ASSUME NEW c \in Commands
               PROVE  cmd[c].keys \cap songs' = {} /\ (cmd[c] # Upgrade!Idle => locked = c)
    BY <1>1 DEF KeysInv, Upgrade!Idle
  <2>1. cmd[c].keys \cap songs = {} /\ (cmd[c] # Upgrade!Idle => locked = c)
    BY <1>1 DEF UpgradeInv, KeysInv
  <2>2. songs' # songs => cmd[c].keys = {}
    BY <1>2, <2>1, UpgradeTypes DEF UpgradeInv, Upgrade!Idle
  <2> QED  BY <2>1, <2>2
<1>6. RowsInv'  BY <1>1 DEF RowsInv
<1> QED  BY <1>3, <1>4, <1>5, <1>6 DEF UpgradeInv

LEMMA UpgradeInit == Upgrade!Init => UpgradeInv
<1> SUFFICES ASSUME Upgrade!Init PROVE UpgradeInv
  OBVIOUS
<1>1. /\ locked = None /\ cmd = [c \in Commands |-> Upgrade!Idle]
      /\ inst = [i \in Instances |-> "down"]
      /\ appRunning \in BOOLEAN /\ artworks \in BOOLEAN /\ tables = TRUE /\ recorded = FALSE
      /\ rows \subseteq Paths /\ songs \subseteq Paths /\ objects \subseteq Paths
      /\ registered = rows
  BY DEF Upgrade!Init
<1>2. Upgrade!Idle \in Upgrade!Cmd /\ Upgrade!Idle.at = "idle" /\ Upgrade!Idle.keys = {}
  BY DEF Upgrade!Idle, Upgrade!Cmd
<1>3. None \notin Commands  BY StartupAssumption DEF Upgrade!UpgradeAssumption
<1>4. Upgrade!TypeOK /\ Shapes  BY <1>1, <1>2 DEF Upgrade!TypeOK, Shapes
<1>5. CommandInv /\ KeysInv /\ RowsInv /\ DroppedInv
  BY <1>1, <1>2, <1>3 DEF CommandInv, KeysInv, RowsInv, DroppedInv
<1> QED  BY <1>4, <1>5 DEF UpgradeInv

LEMMA UpgradeNext == UpgradeInv /\ Upgrade!Next => UpgradeInv'
BY CommandNext, FailsKeeps, SessionLostKeeps, InstanceKeeps, AppKeeps DEF Upgrade!Next

LEMMA UpgradeStutter == UpgradeInv /\ UNCHANGED upgradeVars => UpgradeInv'
BY DEF upgradeVars, UpgradeInv, Upgrade!TypeOK, Upgrade!Cmd, Upgrade!Idle, Shapes, CommandInv,
       KeysInv, RowsInv, DroppedInv

LEMMA UpgradeIsSound == UpgradeInv => Upgrade!Sound
BY DEF UpgradeInv, RowsInv, DroppedInv, Upgrade!Sound, Upgrade!UpgradedClean

(* What a step takes from the bucket is a key of the command that takes it. *)
LEMMA UpgradeKeepsSongs ==
  ASSUME UpgradeInv, Upgrade!Next
  PROVE  \A p \in objects \ objects' : p \notin songs
<1>1. SUFFICES ASSUME NEW p \in objects \ objects' PROVE \E c \in Commands : p \in cmd[c].keys
  BY DEF UpgradeInv, KeysInv
<1>2. CASE \E c \in Commands : Upgrade!Remove(c) \/ Upgrade!Fails(c)
  BY <1>2 DEF Upgrade!Remove, Upgrade!Removable, Upgrade!Fails
<1>3. CASE \E c \in Commands :
             Upgrade!List(c) \/ Upgrade!Verify(c) \/ Upgrade!Finish(c) \/ Upgrade!SessionLost(c)
  BY <1>3 DEF Upgrade!List, Upgrade!Verify, Upgrade!Finish, Upgrade!SessionLost
<1>4. CASE \E i \in Instances : Upgrade!Drop(i) \/ Upgrade!Record(i) \/ Upgrade!Dies(i)
  BY <1>4 DEF Upgrade!Drop, Upgrade!Record, Upgrade!Dies
<1>5. CASE \E q \in Paths :
             Upgrade!AppPuts(q) \/ Upgrade!AppAddsSong(q) \/ Upgrade!AppAddsKaraoke(q)
  BY <1>5 DEF Upgrade!AppPuts, Upgrade!AppAddsSong, Upgrade!AppAddsKaraoke
<1> QED  BY <1>2, <1>3, <1>4, <1>5 DEF Upgrade!Next, Upgrade!Command

-----------------------------------------------------------------------------
(* Shell: the inductive invariant.                                          *)

Pages == [at : {"none", "loading", "loaded"}, index : 0..Builds, got : Seq(1..Builds)]

(* A page that is loading has a build and lacks a script.                   *)
PageOK(p) ==
  /\ p \in Pages /\ p.index <= deployed /\ Len(p.got) <= Len(Order)
  /\ p.at = "loading" => p.index > 0 /\ Len(p.got) < Len(Order)
  /\ \A i \in DOMAIN p.got : Order[i] \in Versioned => p.got[i] >= p.index

(* A version is in a URL only when it has been deployed, and what is answered *)
(* under it, then or later, is not of a build before it.                      *)
CacheInv ==
  /\ \A k \in Shell!Keys : cache[k] <= deployed /\ (cache[k] # 0 => cache[k] >= k[2])
  /\ \A p \in puts : p.key[2] <= p.build /\ p.build <= deployed
  /\ \A k \in asked : k[2] <= deployed

ShellInv == Shell!TypeOK /\ PageOK(page) /\ CacheInv

LEMMA OrderFacts ==
  /\ Builds \in Nat \ {0} /\ Len(Order) \in Nat \ {0} /\ DOMAIN Order = 1..Len(Order)
  /\ MaxFaults \in Nat
BY StartupAssumption DEF Shell!ShellAssumption

LEMMA KeyFacts ==
  /\ \A k \in Shell!Keys : k[2] \in 0..Builds
  /\ <<Shell!Index, 0>> \in Shell!Keys /\ <<Shell!Index, 0>>[2] = 0
  /\ \A i \in 1..Len(Order), v \in 1..Builds :
       LET k == Shell!Key(Order[i], v)
       IN k \in Shell!Keys /\ k[2] \in 0..v /\ (Order[i] \in Versioned => k[2] = v)
<1>1. <<Shell!Index, 0>> \in Shell!Keys /\ <<Shell!Index, 0>>[2] = 0  BY DEF Shell!Keys
<1>2. ASSUME NEW i \in 1..Len(Order), NEW v \in 1..Builds
      PROVE  LET k == Shell!Key(Order[i], v)
             IN k \in Shell!Keys /\ k[2] \in 0..v /\ (Order[i] \in Versioned => k[2] = v)
  <2> DEFINE k == Shell!Key(Order[i], v)
  <2>1. k \in Shell!Keys  BY OrderFacts DEF Shell!Keys
  <2>2. k[2] = IF Order[i] \in Versioned THEN v ELSE 0  BY DEF Shell!Key
  <2>3. k[2] \in 0..v  BY <2>2, OrderFacts
  <2> QED  BY <2>1, <2>2, <2>3
<1>3. ASSUME NEW k \in Shell!Keys PROVE k[2] \in 0..Builds
  <2>1. CASE k = <<Shell!Index, 0>>  BY <2>1, OrderFacts
  <2>2. CASE \E i \in DOMAIN Order, v \in 1..Builds : k = Shell!Key(Order[i], v)
    <3>1. PICK i \in DOMAIN Order, v \in 1..Builds : k = Shell!Key(Order[i], v)  BY <2>2
    <3>2. k[2] \in 0..v  BY <1>2, <3>1, OrderFacts
    <3> QED  BY <3>2, OrderFacts
  <2> QED  BY <2>1, <2>2 DEF Shell!Keys
<1> QED  BY <1>1, <1>2, <1>3

(* A page gets its next script.                                             *)
LEMMA GotKeeps ==
  ASSUME ShellInv, page.at = "loading", NEW b \in 1..Builds,
         Order[Len(page.got) + 1] \in Versioned => b >= page.index
  PROVE  PageOK(Shell!Got(b))
<1>1. /\ page \in Pages /\ page.index <= deployed /\ page.index > 0 /\ Len(page.got) < Len(Order)
      /\ \A i \in DOMAIN page.got : Order[i] \in Versioned => page.got[i] >= page.index
  BY DEF ShellInv, PageOK
<1>2. PICK t \in Pages : t = page  BY <1>1
<1>3. t.got \in Seq(1..Builds) /\ t.index \in 0..Builds  BY DEF Pages
<1> DEFINE got == Append(t.got, b)
<1>4. /\ got \in Seq(1..Builds) /\ Len(got) = Len(t.got) + 1 /\ Len(got) <= Len(Order)
      /\ DOMAIN got = 1..(Len(t.got) + 1)
      /\ \A i \in 1..(Len(t.got) + 1) : got[i] = IF i <= Len(t.got) THEN t.got[i] ELSE b
  <2>1. /\ got \in Seq(1..Builds) /\ Len(got) = Len(t.got) + 1 /\ Len(t.got) \in Nat
        /\ DOMAIN got = 1..(Len(t.got) + 1)
    BY <1>3
  <2>2. \A i \in 1..(Len(t.got) + 1) : got[i] = IF i <= Len(t.got) THEN t.got[i] ELSE b
    BY <1>3
  <2>3. Len(got) <= Len(Order)  BY <1>1, <1>2, <2>1, OrderFacts
  <2> QED  BY <2>1, <2>2, <2>3
<1>5. \A i \in DOMAIN got : Order[i] \in Versioned => got[i] >= t.index
  <2> SUFFICES ASSUME NEW i \in 1..(Len(t.got) + 1), Order[i] \in Versioned
               PROVE  got[i] >= t.index
    BY <1>4
  <2>1. CASE i <= Len(t.got)
    <3>1. i \in DOMAIN t.got  BY <1>3, <2>1
    <3>2. got[i] = t.got[i]  BY <1>4, <2>1
    <3> QED  BY <1>1, <1>2, <3>1, <3>2
  <2>2. CASE i = Len(t.got) + 1
    <3>1. got[i] = b  BY <1>3, <1>4, <2>2
    <3> QED  BY <1>2, <2>2, <3>1
  <2> QED  BY <1>3, <2>1, <2>2
<1> DEFINE g == [t EXCEPT !.got = got, !.at = IF Len(got) = Len(Order) THEN "loaded" ELSE @]
<1>6. g = Shell!Got(b)  BY <1>2 DEF Shell!Got
<1> HIDE DEF got
<1>7. g \in Pages /\ g.index = t.index /\ g.got = got
  BY <1>4 DEF Pages
<1>8. g.at = IF Len(got) = Len(Order) THEN "loaded" ELSE t.at  BY DEF Pages
<1> HIDE DEF g
<1>9. g.at = "loading" => Len(g.got) < Len(Order)
  <2>1. Len(t.got) \in Nat  BY <1>3
  <2>2. Len(got) \in Nat  BY <1>4, <2>1
  <2>3. g.at = "loading" => Len(got) # Len(Order)  BY <1>8
  <2>4. Len(got) # Len(Order) => Len(got) < Len(Order)
    <3>1. Len(got) <= Len(Order)  BY <1>4
    <3>2. Len(Order) \in Nat  BY OrderFacts
    <3> QED  BY <2>2, <3>1, <3>2
  <2> QED  BY <1>7, <2>3, <2>4
<1>10. PageOK(g)  BY <1>1, <1>2, <1>4, <1>5, <1>7, <1>9 DEF PageOK
<1> QED  BY <1>6, <1>10

(* What the worker keeps of an answer to a URL that could be asked for.     *)
LEMMA KeptFacts ==
  ASSUME ShellInv, NEW k \in Shell!Keys, k[2] <= deployed
  PROVE  /\ Shell!Kept(k) \subseteq Shell!AllPuts
         /\ \A p \in Shell!Kept(k) : p.key[2] <= p.build /\ p.build <= deployed
<1>1. puts \subseteq Shell!AllPuts /\ deployed \in 1..Builds  BY DEF ShellInv, Shell!TypeOK
<1>2. \A p \in puts : p.key[2] <= p.build /\ p.build <= deployed  BY DEF ShellInv, CacheInv
<1> DEFINE new == [key |-> k, build |-> deployed]
<1>3. new \in Shell!AllPuts /\ new.key = k /\ new.build = deployed  BY <1>1 DEF Shell!AllPuts
<1>4. Shell!Kept(k) \subseteq puts \cup {new}  BY DEF Shell!Kept
<1> HIDE DEF new
<1>5. deployed <= deployed  BY <1>1, OrderFacts
<1> QED  BY <1>1, <1>2, <1>3, <1>4, <1>5

LEMMA ShellTypes ==
  ASSUME ShellInv
  PROVE  /\ deployed \in 1..Builds /\ online \in BOOLEAN /\ worker \in 0..Builds
         /\ cache \in [Shell!Keys -> 0..Builds] /\ asked \subseteq Shell!Keys
         /\ puts \subseteq Shell!AllPuts
         /\ page \in Pages /\ page.at \in {"none", "loading", "loaded"} /\ page.index \in 0..Builds
         /\ page.got \in Seq(1..Builds) /\ Len(page.got) \in Nat
BY DEF ShellInv, Shell!TypeOK, PageOK

(* The types of a page are those of Pages.                                  *)
LEMMA ShellSuffices ==
  ASSUME PageOK(page)', CacheInv',
         deployed' \in 1..Builds, online' \in BOOLEAN, worker' \in 0..Builds,
         cache' \in [Shell!Keys -> 0..Builds], asked' \subseteq Shell!Keys,
         puts' \subseteq Shell!AllPuts
  PROVE  ShellInv'
<1>1. page' \in Pages /\ Len(page'.got) <= Len(Order)  BY DEF PageOK, Pages
<1>2. PICK t \in Pages : t = page'  BY <1>1
<1>3. t.at \in {"none", "loading", "loaded"} /\ t.index \in 0..Builds /\ t.got \in Seq(1..Builds)
  BY DEF Pages
<1>4. Shell!TypeOK'
  BY <1>1, <1>2, <1>3 DEF Shell!TypeOK, Shell!Keys, Shell!AllPuts, Shell!Key, Shell!Index
<1> QED  BY <1>4 DEF ShellInv

(* Of the next script of a page that is loading.                            *)
LEMMA NextKeyFacts ==
  ASSUME ShellInv, page.at = "loading"
  PROVE  /\ Shell!NextKey \in Shell!Keys /\ Shell!NextKey[2] <= deployed
         /\ Order[Len(page.got) + 1] \in Versioned => Shell!NextKey[2] = page.index
<1>1. /\ page.index > 0 /\ page.index <= deployed /\ Len(page.got) < Len(Order)
      /\ page.index \in 0..Builds /\ Len(page.got) \in Nat /\ deployed \in 1..Builds
  BY ShellTypes DEF ShellInv, PageOK
<1>2. PICK i \in Nat, v \in Nat : i = Len(page.got) + 1 /\ v = page.index
  BY <1>1, OrderFacts
<1>3. i \in 1..Len(Order) /\ v \in 1..Builds /\ v <= deployed  BY <1>1, <1>2, OrderFacts
<1>4. Shell!NextKey = Shell!Key(Order[i], v)  BY <1>2 DEF Shell!NextKey
<1>5. /\ Shell!Key(Order[i], v) \in Shell!Keys /\ Shell!Key(Order[i], v)[2] \in 0..v
      /\ Order[i] \in Versioned => Shell!Key(Order[i], v)[2] = v
  BY <1>3, KeyFacts
<1>6. Shell!NextKey[2] \in 0..v  BY <1>4, <1>5
<1>7. Shell!NextKey[2] <= deployed  BY <1>1, <1>3, <1>6, OrderFacts
<1> QED  BY <1>2, <1>4, <1>5, <1>7

LEMMA NetworkKeeps ==
  ASSUME ShellInv,
         Shell!Deploy \/ Shell!GoOffline \/ Shell!GoOnline
  PROVE  ShellInv'
<1>1. /\ deployed \in Nat /\ deployed' \in 1..Builds /\ deployed <= deployed' /\ online' \in BOOLEAN
      /\ UNCHANGED <<worker, cache, page, asked, puts>>
  <2>1. deployed \in 1..Builds /\ online \in BOOLEAN /\ Builds \in Nat  BY ShellTypes, OrderFacts
  <2>2. UNCHANGED <<worker, cache, page, asked, puts>>
    BY DEF Shell!Deploy, Shell!GoOffline, Shell!GoOnline
  <2>3. /\ online' \in BOOLEAN
        /\ deployed' = deployed \/ (deployed < Builds /\ deployed' = deployed + 1)
    BY <2>1 DEF Shell!Deploy, Shell!GoOffline, Shell!GoOnline
  <2> QED  BY <2>1, <2>2, <2>3
<1>2. PageOK(page)'
  <2>1. page.index \in Nat /\ page.index <= deployed  BY ShellTypes, OrderFacts DEF ShellInv, PageOK
  <2>2. page.index <= deployed'  BY <1>1, <2>1, OrderFacts
  <2> QED  BY <1>1, <2>2 DEF ShellInv, PageOK, Pages
<1>3. CacheInv'
  <2>1. ASSUME NEW k \in Shell!Keys
        PROVE  cache[k] <= deployed' /\ (cache[k] # 0 => cache[k] >= k[2])
    <3>1. cache[k] \in Nat /\ cache[k] <= deployed /\ (cache[k] # 0 => cache[k] >= k[2])
      BY ShellTypes, OrderFacts DEF ShellInv, CacheInv
    <3> QED  BY <1>1, <3>1, OrderFacts
  <2>2. ASSUME NEW p \in puts PROVE p.key[2] <= p.build /\ p.build <= deployed'
    <3>1. p.key[2] <= p.build /\ p.build <= deployed  BY DEF ShellInv, CacheInv
    <3>2. p.build \in Nat  BY ShellTypes, OrderFacts DEF Shell!AllPuts
    <3> QED  BY <1>1, <3>1, <3>2, OrderFacts
  <2>3. ASSUME NEW k \in asked PROVE k[2] <= deployed'
    <3>1. k[2] <= deployed  BY DEF ShellInv, CacheInv
    <3>2. k[2] \in Nat  BY ShellTypes, KeyFacts, OrderFacts
    <3> QED  BY <1>1, <3>1, <3>2, OrderFacts
  <2> QED  BY <1>1, <2>1, <2>2, <2>3 DEF CacheInv, Shell!Keys, Shell!Key, Shell!Index
<1> QED  BY <1>1, <1>2, <1>3, ShellTypes, ShellSuffices

LEMMA NavigateKeeps ==
  ASSUME ShellInv, Shell!Navigate
  PROVE  ShellInv'
<1> DEFINE index == <<Shell!Index, 0>>
           build == IF online THEN deployed ELSE cache[index]
<1>1. /\ UNCHANGED <<deployed, online, worker, cache, asked>>
      /\ page' = IF build = 0 THEN Shell!NoPage
                              ELSE [at |-> "loading", index |-> build, got |-> <<>>]
      /\ puts' = Shell!Kept(index) \/ puts' = puts
  BY DEF Shell!Navigate
<1>2. index \in Shell!Keys /\ index[2] = 0  BY KeyFacts
<1> HIDE DEF index
<1>3. build \in 0..Builds /\ build <= deployed /\ deployed \in Nat
  BY <1>2, ShellTypes, OrderFacts DEF ShellInv, CacheInv
<1> HIDE DEF build
<1>4. PageOK(page)'
  <2>1. <<>> \in Seq(1..Builds) /\ Len(<<>>) = 0 /\ DOMAIN <<>> = {}  OBVIOUS
  <2>2. CASE build = 0
    <3>1. /\ Shell!NoPage \in Pages /\ Shell!NoPage.at = "none" /\ Shell!NoPage.index = 0
          /\ Shell!NoPage.got = <<>>
      BY <2>1, OrderFacts DEF Pages, Shell!NoPage
    <3>2. 0 <= deployed /\ Len(<<>>) <= Len(Order)  BY <1>3, <2>1, OrderFacts
    <3>3. page' = Shell!NoPage  BY <1>1, <2>2
    <3> QED  BY <1>1, <2>1, <3>1, <3>2, <3>3 DEF PageOK, Pages
  <2>3. CASE build # 0
    <3> DEFINE new == [at |-> "loading", index |-> build, got |-> <<>>]
    <3>1. new \in Pages /\ new.at = "loading" /\ new.index = build /\ new.got = <<>>
      BY <1>3, <2>1 DEF Pages
    <3>2. page' = new  BY <1>1, <2>3
    <3>3. build > 0 /\ Len(<<>>) < Len(Order) /\ Len(<<>>) <= Len(Order)
      BY <1>3, <2>1, <2>3, OrderFacts
    <3> HIDE DEF new
    <3> QED  BY <1>1, <1>3, <2>1, <3>1, <3>2, <3>3 DEF PageOK, Pages
  <2> QED  BY <2>2, <2>3
<1>5. puts' \subseteq Shell!AllPuts /\ \A p \in puts' : p.key[2] <= p.build /\ p.build <= deployed
  <2>1. index[2] <= deployed  BY <1>2, <1>3
  <2> QED  BY <1>1, <1>2, <2>1, KeptFacts, ShellTypes DEF ShellInv, CacheInv
<1>6. CacheInv'  BY <1>1, <1>5 DEF ShellInv, CacheInv, Shell!Keys, Shell!Key, Shell!Index
<1> QED  BY <1>1, <1>4, <1>5, <1>6, ShellTypes, ShellSuffices

LEMMA FromCacheKeeps ==
  ASSUME ShellInv, Shell!FromCache
  PROVE  ShellInv'
<1>1. PICK k \in Shell!Keys : k = Shell!NextKey  BY NextKeyFacts DEF Shell!FromCache
<1>2. /\ page.at = "loading" /\ cache[k] # 0
      /\ page' = Shell!Got(cache[k]) /\ asked' = asked \cup {k}
      /\ UNCHANGED <<deployed, online, worker, cache, puts>>
  BY <1>1 DEF Shell!FromCache, Shell!Revalidated
<1>3. k[2] <= deployed /\ (Order[Len(page.got) + 1] \in Versioned => k[2] = page.index)
  BY <1>1, <1>2, NextKeyFacts
<1>4. PICK b \in 1..Builds : b = cache[k]  BY <1>2, ShellTypes, OrderFacts
<1>5. Order[Len(page.got) + 1] \in Versioned => b >= page.index
  BY <1>2, <1>3, <1>4 DEF ShellInv, CacheInv
<1>6. PageOK(Shell!Got(b))  BY <1>2, <1>5, GotKeeps
<1>7. PICK g \in Pages : g = Shell!Got(b)  BY <1>6 DEF PageOK
<1>8. PageOK(page)'  BY <1>2, <1>4, <1>6, <1>7 DEF PageOK, Pages
<1>9. CacheInv'  BY <1>2, <1>3 DEF ShellInv, CacheInv, Shell!Keys, Shell!Key, Shell!Index
<1> QED  BY <1>2, <1>8, <1>9, ShellTypes, ShellSuffices

LEMMA NoPageOK == ASSUME ShellInv PROVE PageOK(Shell!NoPage)
<1>1. /\ Shell!NoPage \in Pages /\ Shell!NoPage.at = "none" /\ Shell!NoPage.index = 0
      /\ Shell!NoPage.got = <<>>
  BY OrderFacts DEF Pages, Shell!NoPage
<1>2. Len(<<>>) = 0 /\ DOMAIN <<>> = {} /\ 0 <= deployed /\ 0 <= Len(Order)
  BY OrderFacts, ShellTypes
<1> QED  BY <1>1, <1>2 DEF PageOK

LEMMA FromNetworkKeeps ==
  ASSUME ShellInv, Shell!FromNetwork
  PROVE  ShellInv'
<1>1. PICK k \in Shell!Keys : k = Shell!NextKey  BY NextKeyFacts DEF Shell!FromNetwork
<1>2. /\ page.at = "loading" /\ UNCHANGED <<deployed, online, worker, cache, asked>>
      /\ \/ page' = Shell!Got(deployed) /\ puts' = Shell!Kept(k)
         \/ page' = Shell!NoPage /\ puts' = puts
  BY <1>1 DEF Shell!FromNetwork
<1>3. k[2] <= deployed  BY <1>1, <1>2, NextKeyFacts
<1>4. PICK b \in 1..Builds : b = deployed  BY ShellTypes
<1>5. PageOK(Shell!Got(b))  BY <1>2, <1>4, GotKeeps DEF ShellInv, PageOK
<1>6. PICK g \in Pages : g = page' /\ PageOK(g)
  BY <1>2, <1>4, <1>5, NoPageOK DEF PageOK
<1>7. PageOK(page)'  BY <1>2, <1>6 DEF PageOK, Pages
<1>8. puts' \subseteq Shell!AllPuts /\ \A p \in puts' : p.key[2] <= p.build /\ p.build <= deployed
  BY <1>2, <1>3, KeptFacts, ShellTypes DEF ShellInv, CacheInv
<1>9. CacheInv'  BY <1>2, <1>8 DEF ShellInv, CacheInv, Shell!Keys, Shell!Key, Shell!Index
<1> QED  BY <1>2, <1>7, <1>8, <1>9, ShellTypes, ShellSuffices

LEMMA WorkerKeeps ==
  ASSUME ShellInv,
         \/ Shell!Install
         \/ \E k \in asked : Shell!Answer(k)
         \/ \E p \in puts : Shell!Put(p) \/ Shell!PutLost(p)
  PROVE  ShellInv'
<1>1. /\ deployed' = deployed /\ online' = online /\ page' = page
      /\ worker' \in 0..Builds
  BY ShellTypes DEF Shell!Install, Shell!Answer, Shell!Put, Shell!PutLost
<1>2. /\ deployed \in 1..Builds /\ deployed \in Nat /\ cache \in [Shell!Keys -> 0..Builds]
      /\ asked \subseteq Shell!Keys /\ puts \subseteq Shell!AllPuts
      /\ \A k \in Shell!Keys : cache[k] <= deployed /\ (cache[k] # 0 => cache[k] >= k[2])
      /\ \A p \in puts : p.key[2] <= p.build /\ p.build <= deployed
      /\ \A k \in asked : k[2] <= deployed
  BY ShellTypes, OrderFacts DEF ShellInv, CacheInv
<1>3. PageOK(page)'  BY <1>1 DEF ShellInv, PageOK, Pages
<1>4. asked' \subseteq asked
  BY DEF Shell!Install, Shell!Answer, Shell!Put, Shell!PutLost
<1>5. puts' \subseteq Shell!AllPuts /\ \A p \in puts' : p.key[2] <= p.build /\ p.build <= deployed
  <2>1. CASE puts' \subseteq puts  BY <1>2, <2>1
  <2>2. CASE \E k \in asked : puts' = Shell!Kept(k)
    <3>1. PICK k \in asked : puts' = Shell!Kept(k)  BY <2>2
    <3> QED  BY <1>2, <3>1, KeptFacts
  <2> QED  BY <2>1, <2>2 DEF Shell!Install, Shell!Answer, Shell!Put, Shell!PutLost
<1>6. \/ cache' = cache
      \/ \E k \in Shell!Keys, b \in 1..Builds :
           cache' = [cache EXCEPT ![k] = b] /\ k[2] <= b /\ b <= deployed
  <2>1. CASE Shell!Install
    <3>1. <<Shell!Index, 0>> \in Shell!Keys /\ <<Shell!Index, 0>>[2] = 0  BY KeyFacts
    <3>2. cache' = cache \/ cache' = [cache EXCEPT ![<<Shell!Index, 0>>] = deployed]
      BY <2>1 DEF Shell!Install
    <3> QED  BY <1>2, <3>1, <3>2
  <2>2. CASE \E k \in asked : Shell!Answer(k)  BY <2>2 DEF Shell!Answer
  <2>3. CASE \E p \in puts : Shell!Put(p)
    <3>1. PICK p \in puts : Shell!Put(p)  BY <2>3
    <3>2. p.key \in Shell!Keys /\ p.build \in 1..Builds  BY <1>2 DEF Shell!AllPuts
    <3> QED  BY <1>2, <3>1, <3>2 DEF Shell!Put
  <2>4. CASE \E p \in puts : Shell!PutLost(p)  BY <2>4 DEF Shell!PutLost
  <2> QED  BY <2>1, <2>2, <2>3, <2>4
<1>7. /\ cache' \in [Shell!Keys -> 0..Builds]
      /\ \A k \in Shell!Keys : cache'[k] <= deployed /\ (cache'[k] # 0 => cache'[k] >= k[2])
  <2>1. CASE cache' = cache  BY <1>2, <2>1
  <2>2. CASE cache' # cache
    <3>1. PICK l \in Shell!Keys, b \in 1..Builds :
            cache' = [cache EXCEPT ![l] = b] /\ l[2] <= b /\ b <= deployed
      BY <1>6, <2>2
    <3>2. cache' \in [Shell!Keys -> 0..Builds]  BY <1>2, <3>1, OrderFacts
    <3>3. ASSUME NEW k \in Shell!Keys
          PROVE  cache'[k] <= deployed /\ (cache'[k] # 0 => cache'[k] >= k[2])
      <4>1. CASE k = l
        <5>1. cache'[k] = b  BY <1>2, <3>1, <4>1
        <5>2. b \in Nat /\ l[2] \in Nat  BY KeyFacts, OrderFacts
        <5> QED  BY <3>1, <4>1, <5>1, <5>2
      <4>2. CASE k # l
        <5>1. cache'[k] = cache[k]  BY <1>2, <3>1, <4>2
        <5> QED  BY <1>2, <5>1
      <4> QED  BY <4>1, <4>2
    <3> QED  BY <3>2, <3>3
  <2> QED  BY <2>1, <2>2
<1>8. CacheInv'
  BY <1>1, <1>2, <1>4, <1>5, <1>7 DEF CacheInv, Shell!Keys, Shell!Key, Shell!Index
<1> QED  BY <1>1, <1>2, <1>3, <1>4, <1>5, <1>7, <1>8, ShellTypes, ShellSuffices

LEMMA ShellInit == Shell!Init => ShellInv
<1> SUFFICES ASSUME Shell!Init PROVE ShellInv
  OBVIOUS
<1>1. /\ deployed = 1 /\ online = TRUE /\ worker = 0 /\ cache = [k \in Shell!Keys |-> 0]
      /\ page = Shell!NoPage /\ asked = {} /\ puts = {}
  BY DEF Shell!Init
<1>2. /\ Shell!NoPage \in Pages /\ Shell!NoPage.at = "none" /\ Shell!NoPage.index = 0
      /\ Shell!NoPage.got = <<>>
  BY OrderFacts DEF Pages, Shell!NoPage
<1>3. <<>> \in Seq(1..Builds) /\ Len(<<>>) = 0 /\ DOMAIN <<>> = {} /\ 0 <= Len(Order)
  BY OrderFacts
<1>4. PageOK(page)  BY <1>1, <1>2, <1>3 DEF PageOK
<1>5. CacheInv  BY <1>1 DEF CacheInv
<1>6. cache \in [Shell!Keys -> 0..Builds] /\ deployed \in 1..Builds /\ worker \in 0..Builds
  BY <1>1, OrderFacts
<1>7. Shell!TypeOK  BY <1>1, <1>2, <1>3, <1>6, OrderFacts DEF Shell!TypeOK
<1> QED  BY <1>4, <1>5, <1>7 DEF ShellInv

LEMMA ShellNext == ShellInv /\ Shell!Next => ShellInv'
BY NetworkKeeps, NavigateKeeps, FromCacheKeeps, FromNetworkKeeps, WorkerKeeps DEF Shell!Next

LEMMA ShellStutter == ShellInv /\ UNCHANGED shellVars => ShellInv'
BY DEF shellVars, ShellInv, Shell!TypeOK, Shell!Keys, Shell!Key, Shell!Index, Shell!AllPuts, PageOK,
       Pages, CacheInv

LEMMA ShellIsSound == ShellInv => Shell!Sound
BY DEF ShellInv, PageOK, CacheInv, Shell!Sound, Shell!NeverBeforePage

-----------------------------------------------------------------------------
(* The whole.                                                               *)

IInv == BootInv /\ UpgradeInv /\ ShellInv

LEMMA IInvInit == Init => IInv
BY BootInit, UpgradeInit, ShellInit DEF Init, IInv

LEMMA IInvNext == IInv /\ [Next]_vars => IInv'
<1> SUFFICES ASSUME IInv, [Next]_vars PROVE IInv'
  OBVIOUS
<1>1. Boot!Next \/ UNCHANGED bootVars  BY DEF Next, vars
<1>2. Upgrade!Next \/ UNCHANGED upgradeVars  BY DEF Next, vars
<1>3. Shell!Next \/ UNCHANGED shellVars  BY DEF Next, vars
<1> QED  BY <1>1, <1>2, <1>3, BootNext, BootStutter, UpgradeNext, UpgradeStutter, ShellNext,
            ShellStutter DEF IInv

LEMMA IInvAlways == Spec => []IInv
BY IInvInit, IInvNext, PTL DEF Spec

(* main.go and postgres.go: however many instances start together, on whichever     *)
(* of their connections, no migration is carried out twice unless a fault came      *)
(* between its SQL and its record, each comes after those before it, and all before *)
(* the secret is read; cmd/remove-karaoke and 0010: where the former version was    *)
(* stopped and a new one is up nothing of karaoke is left; sw.js and static.go: a   *)
(* script with ?v= is never of a build before its page's.                           *)
THEOREM StartupSound == Spec => []Sound
<1>1. IInv => Sound  BY BootIsSound, UpgradeIsSound, ShellIsSound DEF IInv, Sound
<1> QED  BY <1>1, IInvAlways, PTL

(* remove-karaoke deletes no object a song uses, even if the application it asks *)
(* to stop was left running and makes songs of the objects meanwhile.            *)
THEOREM SongsAreKept == Spec => SongsKept
<1>1. IInv /\ [Next]_vars => [\A p \in objects \ objects' : p \notin songs]_(Upgrade!vars)
  <2> SUFFICES ASSUME IInv, [Next]_vars
               PROVE  (\A p \in objects \ objects' : p \notin songs) \/ UNCHANGED upgradeVars
    BY DEF upgradeVars, Upgrade!vars
  <2>1. Upgrade!Next \/ UNCHANGED upgradeVars  BY DEF Next, vars
  <2> QED  BY <2>1, UpgradeKeepsSongs DEF IInv
<1> QED  BY <1>1, IInvAlways, PTL DEF Spec, SongsKept, Upgrade!SongsKept

================================================================================
