--------------------------- MODULE StartupProofs ----------------------------
(***************************************************************************)
(* Proofs about Startup, for any number of processes, migration files,     *)
(* keys and configurations.                                                *)
(***************************************************************************)
EXTENDS Startup, TLAPS

(* Every variable keeps its type.                                          *)
THEOREM TypeCorrect == Spec => []TypeOK
<1>1. Init => TypeOK
  BY StartupAssumption DEF Init, TypeOK, Files
<1>2. TypeOK /\ [Next]_vars => TypeOK'
  <2> SUFFICES ASSUME TypeOK, [Next]_vars PROVE TypeOK'
    OBVIOUS
  <2> USE StartupAssumption DEF TypeOK, Goto
  <2>1. ASSUME NEW p \in Processes, Start(p) PROVE TypeOK'
    BY <2>1 DEF Start, shared
  <2>2. ASSUME NEW p \in Processes, ImportKey(p) PROVE TypeOK'
    BY <2>2 DEF ImportKey, bounds
  <2>3. ASSUME NEW p \in Processes, CheckKeyring(p) PROVE TypeOK'
    BY <2>3 DEF CheckKeyring, shared, bounds
  <2>4. ASSUME NEW p \in Processes, CreateTable(p) PROVE TypeOK'
    BY <2>4 DEF CreateTable, shared, bounds
  <2>5. ASSUME NEW p \in Processes, CreatorIsDone(p) PROVE TypeOK'
    BY <2>5 DEF CreatorIsDone, LoseRace, Rollback, shared, bounds
  <2>6. ASSUME NEW p \in Processes, ReadApplied(p) PROVE TypeOK'
    BY <2>6 DEF ReadApplied, shared, bounds
  <2>7. ASSUME NEW p \in Processes, NEW f \in Files, ApplyFile(p, f) PROVE TypeOK'
    BY <2>7 DEF ApplyFile, LoseRace, Rollback, shared, bounds
  <2>8. ASSUME NEW p \in Processes, Commit(p) PROVE TypeOK'
    BY <2>8 DEF Commit, bounds
  <2>9. ASSUME NEW p \in Processes, Die(p) PROVE TypeOK'
    BY <2>9 DEF Die, Rollback, shared
  <2>10. ASSUME Edit PROVE TypeOK'
    BY <2>10 DEF Edit, shared, bounds
  <2>11. CASE UNCHANGED vars
    BY <2>11 DEF vars, shared, bounds
  <2> QED
    BY <2>1, <2>2, <2>3, <2>4, <2>5, <2>6, <2>7, <2>8, <2>9, <2>10, <2>11 DEF Next, Step
<1> QED
  BY <1>1, <1>2, PTL DEF Spec

-----------------------------------------------------------------------------
(* What open transactions hold: nothing twice, nothing that is recorded.   *)
Disjoint ==
  /\ \A p \in Processes : tx[p] \cap recorded = {} /\ applied[p] \subseteq recorded
  /\ \A p, q \in Processes : p # q => tx[p] \cap tx[q] = {}

Counted == \A f \in Files : effects[f] = IF f \in recorded THEN 1 ELSE 0

(* A commit leaves nothing to do: whoever notices one that came after its  *)
(* own look at the database notices that everything is there.              *)
AllOrNothing ==
  \A p \in Processes :
    /\ pc[p] = "up" => recorded = Files
    /\ pc[p] = "files" /\ applied[p] # recorded => recorded = Files
    /\ pc[p] = "waiting" /\ table => recorded = Files
    /\ why[p] = "race" => recorded = Files

KeysChecked ==
  \A p \in Processes :
    /\ pc[p] # "down" => conf[p].keys \subseteq keyring \cup toImport[p]
    /\ pc[p] \notin {"down", "importing"} =>
         toImport[p] = {} /\ \A k \in conf[p].keys : Admits(conf[p], k)

IInv == Disjoint /\ Counted /\ AllOrNothing /\ KeysChecked

LEMMA InitInvariant == Init => IInv
  BY DEF Init, IInv, Disjoint, Counted, AllOrNothing, KeysChecked, Files

(* The database's part: only Commit writes it, and completes it.           *)
LEMMA DatabaseStep ==
  ASSUME TypeOK, TypeOK', Disjoint, Counted, AllOrNothing, [Next]_vars
  PROVE  Disjoint' /\ Counted' /\ AllOrNothing'
<1> USE DEF TypeOK, Goto, Disjoint, Counted, AllOrNothing
<1>1. ASSUME NEW p \in Processes, Start(p) PROVE Disjoint' /\ Counted' /\ AllOrNothing'
  BY <1>1 DEF Start, shared
<1>2. ASSUME NEW p \in Processes, ImportKey(p) PROVE Disjoint' /\ Counted' /\ AllOrNothing'
  BY <1>2 DEF ImportKey, bounds
<1>3. ASSUME NEW p \in Processes, CheckKeyring(p) PROVE Disjoint' /\ Counted' /\ AllOrNothing'
  BY <1>3 DEF CheckKeyring, shared, bounds
<1>4. ASSUME NEW p \in Processes, CreateTable(p) PROVE Disjoint' /\ Counted' /\ AllOrNothing'
  BY <1>4 DEF CreateTable, shared, bounds
<1>5. ASSUME NEW p \in Processes, CreatorIsDone(p) PROVE Disjoint' /\ Counted' /\ AllOrNothing'
  BY <1>5 DEF CreatorIsDone, LoseRace, Rollback, shared, bounds
<1>6. ASSUME NEW p \in Processes, ReadApplied(p) PROVE Disjoint' /\ Counted' /\ AllOrNothing'
  BY <1>6 DEF ReadApplied, shared, bounds
<1>7. ASSUME NEW p \in Processes, NEW f \in Files, ApplyFile(p, f)
      PROVE Disjoint' /\ Counted' /\ AllOrNothing'
  <2>1. CASE f \in recorded
    <3>1. recorded = Files
      BY <1>7, <2>1 DEF ApplyFile, IsNext
    <3> QED
      BY <1>7, <2>1, <3>1 DEF ApplyFile, LoseRace, Rollback, shared, bounds
  <2>2. CASE f \notin recorded
    BY <1>7, <2>2 DEF ApplyFile, HeldByAnother, shared, bounds
  <2> QED
    BY <2>1, <2>2
<1>8. ASSUME NEW p \in Processes, Commit(p) PROVE Disjoint' /\ Counted' /\ AllOrNothing'
  <2>1. recorded' = Files
    BY <1>8 DEF Commit
  <2>2. Disjoint'
    BY <1>8 DEF Commit, bounds
  <2>3. Counted'
    BY <1>8 DEF Commit, bounds
  <2> QED
    BY <1>8, <2>1, <2>2, <2>3 DEF Commit, bounds
<1>9. ASSUME NEW p \in Processes, Die(p) PROVE Disjoint' /\ Counted' /\ AllOrNothing'
  BY <1>9 DEF Die, Rollback, shared
<1>10. ASSUME Edit PROVE Disjoint' /\ Counted' /\ AllOrNothing'
  BY <1>10 DEF Edit, shared, bounds
<1>11. CASE UNCHANGED vars
  BY <1>11 DEF vars, shared, bounds
<1> QED
  BY <1>1, <1>2, <1>3, <1>4, <1>5, <1>6, <1>7, <1>8, <1>9, <1>10, <1>11 DEF Next, Step

(* The keyring's part: it only grows, and a process keeps its conf.        *)
LEMMA KeyringStep ==
  ASSUME TypeOK, TypeOK', KeysChecked, [Next]_vars
  PROVE  KeysChecked'
<1> USE DEF TypeOK, Goto, KeysChecked, Admits
<1>1. ASSUME NEW p \in Processes, Start(p) PROVE KeysChecked'
  BY <1>1 DEF Start, shared
<1>2. ASSUME NEW p \in Processes, ImportKey(p) PROVE KeysChecked'
  BY <1>2 DEF ImportKey, bounds
<1>3. ASSUME NEW p \in Processes, CheckKeyring(p) PROVE KeysChecked'
  BY <1>3 DEF CheckKeyring, shared, bounds
<1>4. ASSUME NEW p \in Processes, CreateTable(p) PROVE KeysChecked'
  BY <1>4 DEF CreateTable, shared, bounds
<1>5. ASSUME NEW p \in Processes, CreatorIsDone(p) PROVE KeysChecked'
  BY <1>5 DEF CreatorIsDone, LoseRace, shared, bounds
<1>6. ASSUME NEW p \in Processes, ReadApplied(p) PROVE KeysChecked'
  BY <1>6 DEF ReadApplied, shared, bounds
<1>7. ASSUME NEW p \in Processes, NEW f \in Files, ApplyFile(p, f) PROVE KeysChecked'
  BY <1>7 DEF ApplyFile, LoseRace, shared, bounds
<1>8. ASSUME NEW p \in Processes, Commit(p) PROVE KeysChecked'
  BY <1>8 DEF Commit, bounds
<1>9. ASSUME NEW p \in Processes, Die(p) PROVE KeysChecked'
  BY <1>9 DEF Die, shared
<1>10. ASSUME Edit PROVE KeysChecked'
  BY <1>10 DEF Edit, shared, bounds
<1>11. CASE UNCHANGED vars
  BY <1>11 DEF vars, shared, bounds
<1> QED
  BY <1>1, <1>2, <1>3, <1>4, <1>5, <1>6, <1>7, <1>8, <1>9, <1>10, <1>11 DEF Next, Step

LEMMA Invariant == Spec => []IInv
<1>1. IInv /\ TypeOK /\ TypeOK' /\ [Next]_vars => IInv'
  BY DatabaseStep, KeyringStep DEF IInv
<1> QED
  BY <1>1, InitInvariant, TypeCorrect, PTL DEF Spec

-----------------------------------------------------------------------------
(* No migration file is committed twice, however the start-ups interleave. *)
THEOREM AppliedOnceHolds == Spec => []AppliedOnce
<1>1. IInv => AppliedOnce
  BY DEF IInv, Counted, AppliedOnce
<1> QED
  BY <1>1, Invariant, PTL

(* A process that serves has every migration and only admitted keys.       *)
THEOREM UpIsReadyHolds == Spec => []UpIsReady
<1>1. IInv => UpIsReady
  BY DEF IInv, AllOrNothing, KeysChecked, UpIsReady
<1> QED
  BY <1>1, Invariant, PTL

(* The loser of a migrations' race finds a migrated database next time.    *)
THEOREM LostRaceIsOverHolds == Spec => []LostRaceIsOver
<1>1. IInv => LostRaceIsOver
  BY DEF IInv, AllOrNothing, LostRaceIsOver
<1> QED
  BY <1>1, Invariant, PTL
=============================================================================
