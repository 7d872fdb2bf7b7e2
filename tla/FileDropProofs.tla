--------------------------- MODULE FileDropProofs --------------------------
(***************************************************************************)
(* Proofs about FileDrop, for all drops, paths, partners, registries,      *)
(* attempt limits, refnums of API callers, faults and crashes.             *)
(*                                                                         *)
(* The inductive invariant adds to the types where a drop may be at all    *)
(* (PlaceInv), what the payload in the poller's memory has to do with the  *)
(* file under its name (HeldInv), and that bookkeeping of a drop begins    *)
(* with it (FreshInv) and counts its jobs while it is at hand (JobInv).    *)
(***************************************************************************)
EXTENDS FileDrop, FiniteSetTheorems, TLAPS

(* Whatever is in a folder was dropped under that name, and a drop is in   *)
(* one place at most.                                                      *)
PlaceInv ==
  /\ \A p \in Paths : folder[p] # NoDrop => folder[p] \in dropped /\ PathOf[folder[p]] = p
  /\ \A place \in Places, p \in Paths, n \in Suffixes :
       LET d == filed[place][p][n]
       IN d # NoDrop => d \in dropped /\ PathOf[d] = p /\ ~Waiting(d)
  /\ \A d \in Drops : ~(FiledIn("processed", d) /\ FiledIn("error", d))

(* What is under the name of the file at hand is that file or came later,  *)
(* and what is about to be moved has been queued.                          *)
HeldInv ==
  /\ held # NoDrop => held \in dropped
  /\ held # NoDrop /\ folder[cur] # NoDrop => folder[cur] = held \/ folder[cur] \in late
  /\ pc = "moving" => jobs[held] > 0

FreshInv == \A d \in Drops : d \notin dropped => jobs[d] = 0 /\ messages[d] = 0

(* A drop that is at hand and not yet queued this time is like a waiting   *)
(* one, although it may have been withdrawn.                               *)
JobInv ==
  /\ QueuedOnceButForFaults
  /\ held # NoDrop /\ pc # "moving" => jobs[held] <= crashes + faults

IInv ==
  /\ TypeOK
  /\ PlaceInv
  /\ NothingLost
  /\ HeldInv
  /\ ProcessedWasQueued
  /\ FreshInv
  /\ JobInv
  /\ OrphansAccounted
  /\ ErrorIsEarned

(* The file under p gets the n-th name in place, and no other file moves. *)
FiledAs(place, p, n) ==
  /\ filed[place][p][n] = NoDrop
  /\ \A pl \in Places, q \in Paths, m \in Suffixes :
       filed'[pl][q][m] = IF pl = place /\ q = p /\ m = n
                          THEN folder[p] ELSE filed[pl][q][m]

(* What a move does to the folders: one file goes to one free name.       *)
LEMMA MoveEffect ==
  ASSUME TypeOK, NEW place \in Places, NEW p \in Paths, MoveInto(place, p)
  PROVE  /\ folder[p] \in Drops
         /\ folder' = [folder EXCEPT ![p] = NoDrop]
         /\ UNCHANGED <<dropped, taken, configured>>
         /\ quiet' = quiet \ {p}
         /\ filed' \in [Places -> [Paths -> [Suffixes -> Drops \cup {NoDrop}]]]
         /\ \E n \in Suffixes : FiledAs(place, p, n)
<1>1. folder[p] \in Drops BY DEF TypeOK, MoveInto
<1>2. PICK n \in Suffixes : /\ filed[place][p][n] = NoDrop
                            /\ filed' = [filed EXCEPT ![place][p][n] = folder[p]]
  BY DEF MoveInto, UniqueDestination
<1>3. filed' \in [Places -> [Paths -> [Suffixes -> Drops \cup {NoDrop}]]]
  BY <1>1, <1>2 DEF TypeOK
<1>4. \A pl \in Places, q \in Paths, m \in Suffixes :
        filed'[pl][q][m] = IF pl = place /\ q = p /\ m = n
                           THEN folder[p] ELSE filed[pl][q][m]
  BY <1>2 DEF TypeOK
<1> QED BY <1>1, <1>2, <1>3, <1>4 DEF MoveInto, FiledAs

(* Where drops are filed after a move.                                     *)
LEMMA FiledEffect ==
  ASSUME NEW place \in Places, NEW p \in Paths, NEW n \in Suffixes,
         NEW f \in Drops, folder[p] = f, PathOf[f] = p, FiledAs(place, p, n)
  PROVE  /\ FiledIn(place, f)'
         /\ \A pl \in Places : pl # place => (FiledIn(pl, f)' <=> FiledIn(pl, f))
         /\ \A d \in Drops, pl \in Places : d # f => (FiledIn(pl, d)' <=> FiledIn(pl, d))
<1> USE ConstantsAssumption
<1>1. filed'[place][p][n] = f BY DEF FiledAs
<1>2. FiledIn(place, f)' BY <1>1 DEF FiledIn
<1>3. ASSUME NEW pl \in Places, pl # place PROVE FiledIn(pl, f)' <=> FiledIn(pl, f)
  <2>1. \A m \in Suffixes : filed'[pl][p][m] = filed[pl][p][m] BY <1>3 DEF FiledAs
  <2> QED BY <2>1 DEF FiledIn
<1>4. ASSUME NEW d \in Drops, NEW pl \in Places, d # f
      PROVE  FiledIn(pl, d)' <=> FiledIn(pl, d)
  <2>1. PathOf[d] \in Paths /\ d # NoDrop OBVIOUS
  <2>2. \A m \in Suffixes : filed'[pl][PathOf[d]][m] = d <=> filed[pl][PathOf[d]][m] = d
    BY <1>4, <2>1 DEF FiledAs
  <2> QED BY <2>2 DEF FiledIn
<1> QED BY <1>2, <1>3, <1>4

(* Every initial state satisfies the invariant.                            *)
LEMMA InitInv == Init => IInv
<1> SUFFICES ASSUME Init PROVE IInv OBVIOUS
<1> USE ConstantsAssumption DEF Init
<1>1. TypeOK BY DEF TypeOK, Busy
<1>2. PlaceInv /\ NothingLost /\ HeldInv
  BY DEF PlaceInv, NothingLost, HeldInv, FiledIn, Waiting, Places
<1>3. ProcessedWasQueued BY DEF ProcessedWasQueued, FiledIn, Places
<1>4. FreshInv /\ JobInv BY DEF FreshInv, JobInv, QueuedOnceButForFaults
<1>5. OrphansAccounted BY DEF OrphansAccounted
<1>6. ASSUME NEW p \in Paths PROVE MaxPickupAttempts * Cardinality(ErrorCopies(p)) + attempts[p] <= failed[p]
  <2>1. ErrorCopies(p) = {} BY DEF ErrorCopies, Places
  <2>2. Cardinality(ErrorCopies(p)) = 0 BY <2>1, FS_EmptySet
  <2>3. attempts[p] = 0 /\ failed[p] = 0 OBVIOUS
  <2> QED BY <2>2, <2>3
<1> QED BY <1>1, <1>2, <1>3, <1>4, <1>5, <1>6 DEF IInv, ErrorIsEarned

(* Every step keeps the types.                                             *)
LEMMA TypeStep == IInv /\ [Next]_vars => TypeOK'
<1> SUFFICES ASSUME IInv, [Next]_vars PROVE TypeOK' OBVIOUS
<1> USE ConstantsAssumption DEF vars, fileVars, dbVars, cycleVars, fileAtHand, historyVars, IInv, TypeOK, Busy
<1>1. ASSUME NEW d \in Drops, Drop(d) PROVE TypeOK'
  BY <1>1 DEF Drop, PlaceInv
<1>2. ASSUME NEW p \in Paths, Withdraw(p) PROVE TypeOK'
  BY <1>2 DEF Withdraw, TakeBack, PlaceInv
<1>3. ASSUME NEW p \in Paths, QuietPeriodEnds(p) PROVE TypeOK'
  BY <1>3 DEF QuietPeriodEnds
<1>4. ASSUME NEW b \in Partners, NEW k \in ApiRefnums, ApiSend(b, k) PROVE TypeOK'
  BY <1>4 DEF ApiSend
<1>5. CASE PollerStart
  BY <1>5 DEF PollerStart
<1>6. ASSUME NEW b \in Partners, ListFolder(b) PROVE TypeOK'
  BY <1>6 DEF ListFolder
<1>7. CASE NextCycle
  BY <1>7 DEF NextCycle
<1>8. ASSUME NEW p \in Paths, ReadFile(p) PROVE TypeOK'
  BY <1>8 DEF ReadFile, PlaceInv
<1>9. ASSUME NEW p \in Paths, FileUnreadable(p) PROVE TypeOK'
  BY <1>9 DEF FileUnreadable
<1>10. CASE NextRefnum
  BY <1>10 DEF NextRefnum
<1>11. CASE RecordMessage
  BY <1>11 DEF RecordMessage
<1>12. CASE RefnumCollides
  BY <1>12 DEF RefnumCollides
<1>13. CASE QueueJob
  BY <1>13 DEF QueueJob
<1>14. CASE QueueJobUnanswered
  BY <1>14 DEF QueueJobUnanswered
<1>15. CASE PickupFails
  BY <1>15 DEF PickupFails
<1>16. CASE TryAgainLater
  BY <1>16 DEF TryAgainLater, RecordFailure, Leave
<1>17. CASE MoveToError
  <2>1. cur \in Paths /\ MoveInto("error", cur) BY <1>17 DEF MoveToError
  <2>2. /\ folder[cur] \in Drops
        /\ folder' = [folder EXCEPT ![cur] = NoDrop]
        /\ UNCHANGED <<dropped, taken, configured>> /\ quiet' = quiet \ {cur}
        /\ filed' \in [Places -> [Paths -> [Suffixes -> Drops \cup {NoDrop}]]]
    BY <2>1, MoveEffect DEF Places
  <2>3. PICK n \in Suffixes : FiledAs("error", cur, n)
    BY <2>1, MoveEffect DEF Places
  <2> QED BY <1>17, <2>1, <2>2, <2>3 DEF FiledAs, MoveToError, Exhausted, RecordFailure, Leave
<1>18. CASE MoveToProcessed
  <2>1. cur \in Paths /\ MoveInto("processed", cur) BY <1>18 DEF MoveToProcessed
  <2>2. /\ folder[cur] \in Drops
        /\ folder' = [folder EXCEPT ![cur] = NoDrop]
        /\ UNCHANGED <<dropped, taken, configured>> /\ quiet' = quiet \ {cur}
        /\ filed' \in [Places -> [Paths -> [Suffixes -> Drops \cup {NoDrop}]]]
    BY <2>1, MoveEffect DEF Places
  <2>3. PICK n \in Suffixes : FiledAs("processed", cur, n)
    BY <2>1, MoveEffect DEF Places
  <2> QED BY <1>18, <2>1, <2>2, <2>3 DEF FiledAs, MoveToProcessed, Leave
<1>19. CASE MoveVanished
  <2>1. cur \in Paths BY <1>19 DEF MoveVanished
  <2>2. failed' = failed \/ failed' = [failed EXCEPT ![cur] = @ + 1]
    BY <1>19 DEF MoveVanished, RecordFailure
  <2>3. failed' \in [Paths -> Nat] BY <2>1, <2>2
  <2> QED BY <1>19, <2>3 DEF MoveVanished, ProcessEnds, Leave
<1>20. CASE Crash
  BY <1>20 DEF Crash, ProcessEnds, Leave
<1>21. CASE UNCHANGED vars
  BY <1>21, SMTT(30)
<1>22. ASSUME NEW p \in Paths, ListingVanished(p) PROVE TypeOK'
  BY <1>22 DEF ListingVanished, TakeBack, ProcessEnds, Leave, PlaceInv
<1>23. CASE EditPartners
  BY <1>23 DEF EditPartners, PlaceInv
<1> QED
  BY <1>1, <1>2, <1>3, <1>4, <1>5, <1>6, <1>7, <1>8, <1>9, <1>10, <1>11, <1>12, <1>13, <1>14, <1>15, <1>16, <1>17, <1>18, <1>19, <1>20, <1>21, <1>22, <1>23 DEF Next, PollerStep, ProcessFile

(* Every step keeps drops under their names and in one place at most.      *)
LEMMA PlaceStep == IInv /\ [Next]_vars => PlaceInv'
<1> SUFFICES ASSUME IInv, [Next]_vars PROVE PlaceInv' OBVIOUS
<1> USE ConstantsAssumption DEF vars, fileVars, dbVars, cycleVars, fileAtHand, historyVars, IInv, TypeOK, PlaceInv, Waiting, Places, Busy
<1>1. ASSUME NEW d \in Drops, Drop(d) PROVE PlaceInv'
  <2>1. folder' = [folder EXCEPT ![PathOf[d]] = d] /\ dropped' = dropped \cup {d} /\ filed' = filed
    BY <1>1 DEF Drop
  <2>2. d \notin dropped BY <1>1 DEF Drop
  <2>3. ASSUME NEW p \in Paths, folder'[p] # NoDrop
        PROVE  folder'[p] \in dropped' /\ PathOf[folder'[p]] = p
    BY <2>1, <2>3
  <2>4. ASSUME NEW place \in Places, NEW p \in Paths, NEW n \in Suffixes, filed[place][p][n] # NoDrop
        PROVE  /\ filed[place][p][n] \in dropped' /\ PathOf[filed[place][p][n]] = p
               /\ folder'[PathOf[filed[place][p][n]]] # filed[place][p][n]
    BY <2>1, <2>2, <2>4
  <2>5. ASSUME NEW e \in Drops PROVE ~(FiledIn("processed", e) /\ FiledIn("error", e))'
    BY <2>1 DEF FiledIn
  <2>6. \A p \in Paths : folder'[p] # NoDrop => folder'[p] \in dropped' /\ PathOf[folder'[p]] = p
    BY <2>3
  <2>7. \A place \in Places, p \in Paths, n \in Suffixes :
          filed'[place][p][n] # NoDrop =>
            /\ filed'[place][p][n] \in dropped' /\ PathOf[filed'[place][p][n]] = p
            /\ folder'[PathOf[filed'[place][p][n]]] # filed'[place][p][n]
    BY <2>1, <2>4
  <2> QED BY <2>5, <2>6, <2>7
<1>2. ASSUME NEW p \in Paths, Withdraw(p) PROVE PlaceInv'
  BY <1>2 DEF Withdraw, TakeBack, FiledIn
<1>3. ASSUME NEW p \in Paths, QuietPeriodEnds(p) PROVE PlaceInv'
  BY <1>3 DEF QuietPeriodEnds, FiledIn
<1>4. ASSUME NEW b \in Partners, NEW k \in ApiRefnums, ApiSend(b, k) PROVE PlaceInv'
  BY <1>4 DEF ApiSend, FiledIn
<1>5. CASE PollerStart
  BY <1>5 DEF PollerStart, FiledIn
<1>6. ASSUME NEW b \in Partners, ListFolder(b) PROVE PlaceInv'
  BY <1>6 DEF ListFolder, FiledIn
<1>7. CASE NextCycle
  BY <1>7 DEF NextCycle, FiledIn
<1>8. ASSUME NEW p \in Paths, ReadFile(p) PROVE PlaceInv'
  BY <1>8 DEF ReadFile, FiledIn
<1>9. ASSUME NEW p \in Paths, FileUnreadable(p) PROVE PlaceInv'
  BY <1>9 DEF FileUnreadable, FiledIn
<1>10. CASE NextRefnum
  BY <1>10 DEF NextRefnum, FiledIn
<1>11. CASE RecordMessage
  BY <1>11 DEF RecordMessage, FiledIn
<1>12. CASE RefnumCollides
  BY <1>12 DEF RefnumCollides, FiledIn
<1>13. CASE QueueJob
  BY <1>13 DEF QueueJob, FiledIn
<1>14. CASE QueueJobUnanswered
  BY <1>14 DEF QueueJobUnanswered, FiledIn
<1>15. CASE PickupFails
  BY <1>15 DEF PickupFails, FiledIn
<1>16. CASE TryAgainLater
  BY <1>16 DEF TryAgainLater, RecordFailure, Leave, FiledIn
<1>17. CASE MoveToError
  <2>1. cur \in Paths /\ MoveInto("error", cur) BY <1>17 DEF MoveToError
  <2>2. /\ folder[cur] \in Drops
        /\ folder' = [folder EXCEPT ![cur] = NoDrop]
        /\ UNCHANGED <<dropped, taken, configured>> /\ quiet' = quiet \ {cur}
        /\ filed' \in [Places -> [Paths -> [Suffixes -> Drops \cup {NoDrop}]]]
    BY <2>1, MoveEffect DEF Places
  <2>3. PICK n \in Suffixes : FiledAs("error", cur, n)
    BY <2>1, MoveEffect DEF Places
  <2>4. PathOf[folder[cur]] = cur /\ folder[cur] \in dropped BY <2>1, <2>2
  <2>5. ASSUME NEW p \in Paths, folder'[p] # NoDrop
        PROVE  folder'[p] \in dropped' /\ PathOf[folder'[p]] = p
    BY <2>1, <2>2, <2>5
  <2>6. ASSUME NEW pl \in Places, NEW p \in Paths, NEW m \in Suffixes, filed'[pl][p][m] # NoDrop
        PROVE  /\ filed'[pl][p][m] \in dropped' /\ PathOf[filed'[pl][p][m]] = p
               /\ folder'[PathOf[filed'[pl][p][m]]] # filed'[pl][p][m]
    BY <2>1, <2>2, <2>3, <2>4, <2>6 DEF FiledAs
  <2>7. ASSUME NEW e \in Drops PROVE ~(FiledIn("processed", e) /\ FiledIn("error", e))'
    <3>1. CASE e = folder[cur]
      <4>1. ~FiledIn("processed", e) /\ ~FiledIn("error", e) BY <2>1, <2>2, <2>4, <3>1 DEF FiledIn
      <4>2. \A pl \in Places : pl # "error" => (FiledIn(pl, e)' <=> FiledIn(pl, e))
        BY <2>1, <2>3, <2>4, <3>1, FiledEffect
      <4> QED BY <4>1, <4>2
    <3>2. CASE e # folder[cur] BY <2>1, <2>2, <2>3, <2>4, <3>2, FiledEffect
    <3> QED BY <3>1, <3>2
  <2> QED BY <2>5, <2>6, <2>7
<1>18. CASE MoveToProcessed
  <2>1. cur \in Paths /\ MoveInto("processed", cur) BY <1>18 DEF MoveToProcessed
  <2>2. /\ folder[cur] \in Drops
        /\ folder' = [folder EXCEPT ![cur] = NoDrop]
        /\ UNCHANGED <<dropped, taken, configured>> /\ quiet' = quiet \ {cur}
        /\ filed' \in [Places -> [Paths -> [Suffixes -> Drops \cup {NoDrop}]]]
    BY <2>1, MoveEffect DEF Places
  <2>3. PICK n \in Suffixes : FiledAs("processed", cur, n)
    BY <2>1, MoveEffect DEF Places
  <2>4. PathOf[folder[cur]] = cur /\ folder[cur] \in dropped BY <2>1, <2>2
  <2>5. ASSUME NEW p \in Paths, folder'[p] # NoDrop
        PROVE  folder'[p] \in dropped' /\ PathOf[folder'[p]] = p
    BY <2>1, <2>2, <2>5
  <2>6. ASSUME NEW pl \in Places, NEW p \in Paths, NEW m \in Suffixes, filed'[pl][p][m] # NoDrop
        PROVE  /\ filed'[pl][p][m] \in dropped' /\ PathOf[filed'[pl][p][m]] = p
               /\ folder'[PathOf[filed'[pl][p][m]]] # filed'[pl][p][m]
    BY <2>1, <2>2, <2>3, <2>4, <2>6 DEF FiledAs
  <2>7. ASSUME NEW e \in Drops PROVE ~(FiledIn("processed", e) /\ FiledIn("error", e))'
    <3>1. CASE e = folder[cur]
      <4>1. ~FiledIn("processed", e) /\ ~FiledIn("error", e) BY <2>1, <2>2, <2>4, <3>1 DEF FiledIn
      <4>2. \A pl \in Places : pl # "processed" => (FiledIn(pl, e)' <=> FiledIn(pl, e))
        BY <2>1, <2>3, <2>4, <3>1, FiledEffect
      <4> QED BY <4>1, <4>2
    <3>2. CASE e # folder[cur] BY <2>1, <2>2, <2>3, <2>4, <3>2, FiledEffect
    <3> QED BY <3>1, <3>2
  <2> QED BY <2>5, <2>6, <2>7
<1>19. CASE MoveVanished
  BY <1>19 DEF MoveVanished, RecordFailure, ProcessEnds, Leave, FiledIn
<1>20. CASE Crash
  BY <1>20 DEF Crash, ProcessEnds, Leave, FiledIn
<1>21. CASE UNCHANGED vars
  BY <1>21 DEF FiledIn
<1>22. ASSUME NEW p \in Paths, ListingVanished(p) PROVE PlaceInv'
  BY <1>22 DEF ListingVanished, TakeBack, ProcessEnds, Leave, FiledIn
<1>23. CASE EditPartners
  BY <1>23 DEF EditPartners, FiledIn
<1> QED
  BY <1>1, <1>2, <1>3, <1>4, <1>5, <1>6, <1>7, <1>8, <1>9, <1>10, <1>11, <1>12, <1>13, <1>14, <1>15, <1>16, <1>17, <1>18, <1>19, <1>20, <1>21, <1>22, <1>23 DEF Next, PollerStep, ProcessFile

(* Every step leaves each drop somewhere.                                  *)
LEMMA LostStep == IInv /\ [Next]_vars => NothingLost'
<1> SUFFICES ASSUME IInv, [Next]_vars PROVE NothingLost' OBVIOUS
<1> USE ConstantsAssumption DEF vars, fileVars, dbVars, cycleVars, fileAtHand, historyVars, IInv, TypeOK, PlaceInv, NothingLost, Waiting, Places, Busy
<1>1. ASSUME NEW d \in Drops, Drop(d) PROVE NothingLost'
  BY <1>1 DEF Drop, FiledIn
<1>2. ASSUME NEW p \in Paths, Withdraw(p) PROVE NothingLost'
  BY <1>2 DEF Withdraw, TakeBack, FiledIn
<1>3. ASSUME NEW p \in Paths, QuietPeriodEnds(p) PROVE NothingLost'
  BY <1>3 DEF QuietPeriodEnds, FiledIn
<1>4. ASSUME NEW b \in Partners, NEW k \in ApiRefnums, ApiSend(b, k) PROVE NothingLost'
  BY <1>4 DEF ApiSend, FiledIn
<1>5. CASE PollerStart
  BY <1>5 DEF PollerStart, FiledIn
<1>6. ASSUME NEW b \in Partners, ListFolder(b) PROVE NothingLost'
  BY <1>6 DEF ListFolder, FiledIn
<1>7. CASE NextCycle
  BY <1>7 DEF NextCycle, FiledIn
<1>8. ASSUME NEW p \in Paths, ReadFile(p) PROVE NothingLost'
  BY <1>8 DEF ReadFile, FiledIn
<1>9. ASSUME NEW p \in Paths, FileUnreadable(p) PROVE NothingLost'
  BY <1>9 DEF FileUnreadable, FiledIn
<1>10. CASE NextRefnum
  BY <1>10 DEF NextRefnum, FiledIn
<1>11. CASE RecordMessage
  BY <1>11 DEF RecordMessage, FiledIn
<1>12. CASE RefnumCollides
  BY <1>12 DEF RefnumCollides, FiledIn
<1>13. CASE QueueJob
  BY <1>13 DEF QueueJob, FiledIn
<1>14. CASE QueueJobUnanswered
  BY <1>14 DEF QueueJobUnanswered, FiledIn
<1>15. CASE PickupFails
  BY <1>15 DEF PickupFails, FiledIn
<1>16. CASE TryAgainLater
  BY <1>16 DEF TryAgainLater, RecordFailure, Leave, FiledIn
<1>17. CASE MoveToError
  <2>1. cur \in Paths /\ MoveInto("error", cur) BY <1>17 DEF MoveToError
  <2>2. /\ folder[cur] \in Drops
        /\ folder' = [folder EXCEPT ![cur] = NoDrop]
        /\ UNCHANGED <<dropped, taken, configured>> /\ quiet' = quiet \ {cur}
        /\ filed' \in [Places -> [Paths -> [Suffixes -> Drops \cup {NoDrop}]]]
    BY <2>1, MoveEffect DEF Places
  <2>3. PICK n \in Suffixes : FiledAs("error", cur, n)
    BY <2>1, MoveEffect DEF Places
  <2>4. PathOf[folder[cur]] = cur BY <2>1, <2>2
  <2> SUFFICES ASSUME NEW d \in dropped \ taken
               PROVE  \/ (Waiting(d) /\ ~FiledIn("processed", d) /\ ~FiledIn("error", d))'
                      \/ (~Waiting(d) /\ FiledIn("processed", d) /\ ~FiledIn("error", d))'
                      \/ (~Waiting(d) /\ ~FiledIn("processed", d) /\ FiledIn("error", d))'
    BY <2>2
  <2>5. CASE d = folder[cur]
    <3>1. ~FiledIn("processed", d) /\ ~FiledIn("error", d) BY <2>1, <2>2, <2>4, <2>5 DEF FiledIn
    <3>2. ~Waiting(d)' BY <2>1, <2>2, <2>4, <2>5
    <3>3. FiledIn("error", d)' BY <2>1, <2>2, <2>3, <2>4, <2>5, FiledEffect
    <3>4. \A pl \in Places : pl # "error" => (FiledIn(pl, d)' <=> FiledIn(pl, d))
      BY <2>1, <2>3, <2>4, <2>5, FiledEffect
    <3> QED BY <3>1, <3>2, <3>3, <3>4
  <2>6. CASE d # folder[cur]
    <3>1. Waiting(d)' <=> Waiting(d) BY <2>1, <2>2, <2>6
    <3>2. \A pl \in Places : FiledIn(pl, d)' <=> FiledIn(pl, d) BY <2>1, <2>2, <2>3, <2>4, <2>6, FiledEffect
    <3> QED BY <3>1, <3>2
  <2> QED BY <2>5, <2>6
<1>18. CASE MoveToProcessed
  <2>1. cur \in Paths /\ MoveInto("processed", cur) BY <1>18 DEF MoveToProcessed
  <2>2. /\ folder[cur] \in Drops
        /\ folder' = [folder EXCEPT ![cur] = NoDrop]
        /\ UNCHANGED <<dropped, taken, configured>> /\ quiet' = quiet \ {cur}
        /\ filed' \in [Places -> [Paths -> [Suffixes -> Drops \cup {NoDrop}]]]
    BY <2>1, MoveEffect DEF Places
  <2>3. PICK n \in Suffixes : FiledAs("processed", cur, n)
    BY <2>1, MoveEffect DEF Places
  <2>4. PathOf[folder[cur]] = cur BY <2>1, <2>2
  <2> SUFFICES ASSUME NEW d \in dropped \ taken
               PROVE  \/ (Waiting(d) /\ ~FiledIn("processed", d) /\ ~FiledIn("error", d))'
                      \/ (~Waiting(d) /\ FiledIn("processed", d) /\ ~FiledIn("error", d))'
                      \/ (~Waiting(d) /\ ~FiledIn("processed", d) /\ FiledIn("error", d))'
    BY <2>2
  <2>5. CASE d = folder[cur]
    <3>1. ~FiledIn("processed", d) /\ ~FiledIn("error", d) BY <2>1, <2>2, <2>4, <2>5 DEF FiledIn
    <3>2. ~Waiting(d)' BY <2>1, <2>2, <2>4, <2>5
    <3>3. FiledIn("processed", d)' BY <2>1, <2>2, <2>3, <2>4, <2>5, FiledEffect
    <3>4. \A pl \in Places : pl # "processed" => (FiledIn(pl, d)' <=> FiledIn(pl, d))
      BY <2>1, <2>3, <2>4, <2>5, FiledEffect
    <3> QED BY <3>1, <3>2, <3>3, <3>4
  <2>6. CASE d # folder[cur]
    <3>1. Waiting(d)' <=> Waiting(d) BY <2>1, <2>2, <2>6
    <3>2. \A pl \in Places : FiledIn(pl, d)' <=> FiledIn(pl, d) BY <2>1, <2>2, <2>3, <2>4, <2>6, FiledEffect
    <3> QED BY <3>1, <3>2
  <2> QED BY <2>5, <2>6
<1>19. CASE MoveVanished
  BY <1>19 DEF MoveVanished, RecordFailure, ProcessEnds, Leave, FiledIn
<1>20. CASE Crash
  BY <1>20 DEF Crash, ProcessEnds, Leave, FiledIn
<1>21. CASE UNCHANGED vars
  BY <1>21 DEF FiledIn
<1>22. ASSUME NEW p \in Paths, ListingVanished(p) PROVE NothingLost'
  BY <1>22 DEF ListingVanished, TakeBack, ProcessEnds, Leave, FiledIn
<1>23. CASE EditPartners
  BY <1>23 DEF EditPartners, FiledIn
<1> QED
  BY <1>1, <1>2, <1>3, <1>4, <1>5, <1>6, <1>7, <1>8, <1>9, <1>10, <1>11, <1>12, <1>13, <1>14, <1>15, <1>16, <1>17, <1>18, <1>19, <1>20, <1>21, <1>22, <1>23 DEF Next, PollerStep, ProcessFile

(* Every step keeps the payload in agreement with its file.                *)
LEMMA HeldStep == IInv /\ [Next]_vars => HeldInv'
<1> SUFFICES ASSUME IInv, [Next]_vars PROVE HeldInv' OBVIOUS
<1> USE ConstantsAssumption DEF vars, fileVars, dbVars, cycleVars, fileAtHand, historyVars, IInv, TypeOK, PlaceInv, HeldInv, Busy
<1>1. ASSUME NEW d \in Drops, Drop(d) PROVE HeldInv'
  BY <1>1 DEF Drop
<1>2. ASSUME NEW p \in Paths, Withdraw(p) PROVE HeldInv'
  BY <1>2 DEF Withdraw, TakeBack
<1>3. ASSUME NEW p \in Paths, QuietPeriodEnds(p) PROVE HeldInv'
  BY <1>3 DEF QuietPeriodEnds
<1>4. ASSUME NEW b \in Partners, NEW k \in ApiRefnums, ApiSend(b, k) PROVE HeldInv'
  BY <1>4 DEF ApiSend
<1>5. CASE PollerStart
  BY <1>5 DEF PollerStart
<1>6. ASSUME NEW b \in Partners, ListFolder(b) PROVE HeldInv'
  BY <1>6 DEF ListFolder
<1>7. CASE NextCycle
  BY <1>7 DEF NextCycle
<1>8. ASSUME NEW p \in Paths, ReadFile(p) PROVE HeldInv'
  BY <1>8 DEF ReadFile
<1>9. ASSUME NEW p \in Paths, FileUnreadable(p) PROVE HeldInv'
  BY <1>9 DEF FileUnreadable
<1>10. CASE NextRefnum
  BY <1>10 DEF NextRefnum
<1>11. CASE RecordMessage
  BY <1>11 DEF RecordMessage
<1>12. CASE RefnumCollides
  BY <1>12 DEF RefnumCollides
<1>13. CASE QueueJob
  BY <1>13 DEF QueueJob
<1>14. CASE QueueJobUnanswered
  BY <1>14 DEF QueueJobUnanswered
<1>15. CASE PickupFails
  BY <1>15 DEF PickupFails
<1>16. CASE TryAgainLater
  BY <1>16 DEF TryAgainLater, RecordFailure, Leave
<1>17. CASE MoveToError
  BY <1>17, MoveEffect DEF MoveToError, Exhausted, RecordFailure, Leave, Places
<1>18. CASE MoveToProcessed
  BY <1>18, MoveEffect DEF MoveToProcessed, Leave, Places
<1>19. CASE MoveVanished
  BY <1>19 DEF MoveVanished, RecordFailure, ProcessEnds, Leave
<1>20. CASE Crash
  BY <1>20 DEF Crash, ProcessEnds, Leave
<1>21. CASE UNCHANGED vars
  BY <1>21
<1>22. ASSUME NEW p \in Paths, ListingVanished(p) PROVE HeldInv'
  BY <1>22 DEF ListingVanished, TakeBack, ProcessEnds, Leave
<1>23. CASE EditPartners
  BY <1>23 DEF EditPartners
<1> QED
  BY <1>1, <1>2, <1>3, <1>4, <1>5, <1>6, <1>7, <1>8, <1>9, <1>10, <1>11, <1>12, <1>13, <1>14, <1>15, <1>16, <1>17, <1>18, <1>19, <1>20, <1>21, <1>22, <1>23 DEF Next, PollerStep, ProcessFile

(* Only what was queued, or came late, is moved to processed/.             *)
LEMMA ProcessedStep == IInv /\ [Next]_vars => ProcessedWasQueued'
<1> SUFFICES ASSUME IInv, [Next]_vars PROVE ProcessedWasQueued' OBVIOUS
<1> USE ConstantsAssumption DEF vars, fileVars, dbVars, cycleVars, fileAtHand, historyVars, IInv, TypeOK, HeldInv, ProcessedWasQueued, FiledIn, Places, Busy
<1>1. ASSUME NEW d \in Drops, Drop(d) PROVE ProcessedWasQueued'
  BY <1>1 DEF Drop
<1>2. ASSUME NEW p \in Paths, Withdraw(p) PROVE ProcessedWasQueued'
  BY <1>2 DEF Withdraw, TakeBack
<1>3. ASSUME NEW p \in Paths, QuietPeriodEnds(p) PROVE ProcessedWasQueued'
  BY <1>3 DEF QuietPeriodEnds
<1>4. ASSUME NEW b \in Partners, NEW k \in ApiRefnums, ApiSend(b, k) PROVE ProcessedWasQueued'
  BY <1>4 DEF ApiSend
<1>5. CASE PollerStart
  BY <1>5 DEF PollerStart
<1>6. ASSUME NEW b \in Partners, ListFolder(b) PROVE ProcessedWasQueued'
  BY <1>6 DEF ListFolder
<1>7. CASE NextCycle
  BY <1>7 DEF NextCycle
<1>8. ASSUME NEW p \in Paths, ReadFile(p) PROVE ProcessedWasQueued'
  BY <1>8 DEF ReadFile
<1>9. ASSUME NEW p \in Paths, FileUnreadable(p) PROVE ProcessedWasQueued'
  BY <1>9 DEF FileUnreadable
<1>10. CASE NextRefnum
  BY <1>10 DEF NextRefnum
<1>11. CASE RecordMessage
  BY <1>11 DEF RecordMessage
<1>12. CASE RefnumCollides
  BY <1>12 DEF RefnumCollides
<1>13. CASE QueueJob
  BY <1>13 DEF QueueJob
<1>14. CASE QueueJobUnanswered
  BY <1>14 DEF QueueJobUnanswered
<1>15. CASE PickupFails
  BY <1>15 DEF PickupFails
<1>16. CASE TryAgainLater
  BY <1>16 DEF TryAgainLater, RecordFailure, Leave
<1>17. CASE MoveToError
  <2>1. cur \in Paths /\ MoveInto("error", cur) BY <1>17 DEF MoveToError
  <2>2. /\ folder[cur] \in Drops
        /\ folder' = [folder EXCEPT ![cur] = NoDrop]
        /\ UNCHANGED <<dropped, taken, configured>> /\ quiet' = quiet \ {cur}
        /\ filed' \in [Places -> [Paths -> [Suffixes -> Drops \cup {NoDrop}]]]
    BY <2>1, MoveEffect DEF Places
  <2>3. PICK n \in Suffixes : FiledAs("error", cur, n)
    BY <2>1, MoveEffect DEF Places
  <2> QED BY <1>17, <2>1, <2>2, <2>3 DEF FiledAs, MoveToError, Exhausted, RecordFailure, Leave
<1>18. CASE MoveToProcessed
  <2>1. cur \in Paths /\ MoveInto("processed", cur) BY <1>18 DEF MoveToProcessed
  <2>2. /\ folder[cur] \in Drops
        /\ folder' = [folder EXCEPT ![cur] = NoDrop]
        /\ UNCHANGED <<dropped, taken, configured>> /\ quiet' = quiet \ {cur}
        /\ filed' \in [Places -> [Paths -> [Suffixes -> Drops \cup {NoDrop}]]]
    BY <2>1, MoveEffect DEF Places
  <2>3. PICK n \in Suffixes : FiledAs("processed", cur, n)
    BY <2>1, MoveEffect DEF Places
  <2> QED BY <1>18, <2>1, <2>2, <2>3, SMTT(30) DEF FiledAs, MoveToProcessed, Leave
<1>19. CASE MoveVanished
  BY <1>19 DEF MoveVanished, RecordFailure, ProcessEnds, Leave
<1>20. CASE Crash
  BY <1>20 DEF Crash, ProcessEnds, Leave
<1>21. CASE UNCHANGED vars
  BY <1>21
<1>22. ASSUME NEW p \in Paths, ListingVanished(p) PROVE ProcessedWasQueued'
  BY <1>22 DEF ListingVanished, TakeBack, ProcessEnds, Leave
<1>23. CASE EditPartners
  BY <1>23 DEF EditPartners
<1> QED
  BY <1>1, <1>2, <1>3, <1>4, <1>5, <1>6, <1>7, <1>8, <1>9, <1>10, <1>11, <1>12, <1>13, <1>14, <1>15, <1>16, <1>17, <1>18, <1>19, <1>20, <1>21, <1>22, <1>23 DEF Next, PollerStep, ProcessFile

(* Only what was dropped is recorded or queued.                            *)
LEMMA FreshStep == IInv /\ [Next]_vars => FreshInv'
<1> SUFFICES ASSUME IInv, [Next]_vars PROVE FreshInv' OBVIOUS
<1> USE ConstantsAssumption DEF vars, fileVars, dbVars, cycleVars, fileAtHand, historyVars, IInv, TypeOK, HeldInv, FreshInv, Busy
<1>1. ASSUME NEW d \in Drops, Drop(d) PROVE FreshInv'
  BY <1>1 DEF Drop
<1>2. ASSUME NEW p \in Paths, Withdraw(p) PROVE FreshInv'
  BY <1>2 DEF Withdraw, TakeBack
<1>3. ASSUME NEW p \in Paths, QuietPeriodEnds(p) PROVE FreshInv'
  BY <1>3 DEF QuietPeriodEnds
<1>4. ASSUME NEW b \in Partners, NEW k \in ApiRefnums, ApiSend(b, k) PROVE FreshInv'
  BY <1>4 DEF ApiSend
<1>5. CASE PollerStart
  BY <1>5 DEF PollerStart
<1>6. ASSUME NEW b \in Partners, ListFolder(b) PROVE FreshInv'
  BY <1>6 DEF ListFolder
<1>7. CASE NextCycle
  BY <1>7 DEF NextCycle
<1>8. ASSUME NEW p \in Paths, ReadFile(p) PROVE FreshInv'
  BY <1>8 DEF ReadFile
<1>9. ASSUME NEW p \in Paths, FileUnreadable(p) PROVE FreshInv'
  BY <1>9 DEF FileUnreadable
<1>10. CASE NextRefnum
  BY <1>10 DEF NextRefnum
<1>11. CASE RecordMessage
  BY <1>11 DEF RecordMessage
<1>12. CASE RefnumCollides
  BY <1>12 DEF RefnumCollides
<1>13. CASE QueueJob
  BY <1>13 DEF QueueJob
<1>14. CASE QueueJobUnanswered
  BY <1>14 DEF QueueJobUnanswered
<1>15. CASE PickupFails
  BY <1>15 DEF PickupFails
<1>16. CASE TryAgainLater
  BY <1>16 DEF TryAgainLater, RecordFailure, Leave
<1>17. CASE MoveToError
  BY <1>17, MoveEffect DEF MoveToError, Exhausted, RecordFailure, Leave, Places
<1>18. CASE MoveToProcessed
  BY <1>18, MoveEffect DEF MoveToProcessed, Leave, Places
<1>19. CASE MoveVanished
  BY <1>19 DEF MoveVanished, RecordFailure, ProcessEnds, Leave
<1>20. CASE Crash
  BY <1>20 DEF Crash, ProcessEnds, Leave
<1>21. CASE UNCHANGED vars
  BY <1>21
<1>22. ASSUME NEW p \in Paths, ListingVanished(p) PROVE FreshInv'
  BY <1>22 DEF ListingVanished, TakeBack, ProcessEnds, Leave
<1>23. CASE EditPartners
  BY <1>23 DEF EditPartners
<1> QED
  BY <1>1, <1>2, <1>3, <1>4, <1>5, <1>6, <1>7, <1>8, <1>9, <1>10, <1>11, <1>12, <1>13, <1>14, <1>15, <1>16, <1>17, <1>18, <1>19, <1>20, <1>21, <1>22, <1>23 DEF Next, PollerStep, ProcessFile

(* Every second job of a drop is paid for by a fault.                      *)
LEMMA JobStep == IInv /\ [Next]_vars => JobInv'
<1> SUFFICES ASSUME IInv, [Next]_vars PROVE JobInv' OBVIOUS
<1> USE ConstantsAssumption DEF vars, fileVars, dbVars, cycleVars, fileAtHand, historyVars, IInv, TypeOK, PlaceInv, HeldInv, FreshInv, JobInv, QueuedOnceButForFaults, Waiting, Busy
<1>1. ASSUME NEW d \in Drops, Drop(d) PROVE JobInv'
  BY <1>1 DEF Drop
<1>2. ASSUME NEW p \in Paths, Withdraw(p) PROVE JobInv'
  BY <1>2 DEF Withdraw, TakeBack
<1>3. ASSUME NEW p \in Paths, QuietPeriodEnds(p) PROVE JobInv'
  BY <1>3 DEF QuietPeriodEnds
<1>4. ASSUME NEW b \in Partners, NEW k \in ApiRefnums, ApiSend(b, k) PROVE JobInv'
  BY <1>4 DEF ApiSend
<1>5. CASE PollerStart
  BY <1>5 DEF PollerStart
<1>6. ASSUME NEW b \in Partners, ListFolder(b) PROVE JobInv'
  BY <1>6 DEF ListFolder
<1>7. CASE NextCycle
  BY <1>7 DEF NextCycle
<1>8. ASSUME NEW p \in Paths, ReadFile(p) PROVE JobInv'
  BY <1>8 DEF ReadFile
<1>9. ASSUME NEW p \in Paths, FileUnreadable(p) PROVE JobInv'
  BY <1>9 DEF FileUnreadable
<1>10. CASE NextRefnum
  BY <1>10 DEF NextRefnum
<1>11. CASE RecordMessage
  BY <1>11 DEF RecordMessage
<1>12. CASE RefnumCollides
  BY <1>12 DEF RefnumCollides
<1>13. CASE QueueJob
  BY <1>13 DEF QueueJob
<1>14. CASE QueueJobUnanswered
  BY <1>14 DEF QueueJobUnanswered
<1>15. CASE PickupFails
  BY <1>15 DEF PickupFails
<1>16. CASE TryAgainLater
  BY <1>16 DEF TryAgainLater, RecordFailure, Leave
<1>17. CASE MoveToError
  <2>1. cur \in Paths /\ MoveInto("error", cur) BY <1>17 DEF MoveToError
  <2>2. /\ folder[cur] \in Drops
        /\ folder' = [folder EXCEPT ![cur] = NoDrop]
        /\ UNCHANGED <<dropped, taken, configured>> /\ quiet' = quiet \ {cur}
        /\ filed' \in [Places -> [Paths -> [Suffixes -> Drops \cup {NoDrop}]]]
    BY <2>1, MoveEffect DEF Places
  <2>3. PICK n \in Suffixes : FiledAs("error", cur, n)
    BY <2>1, MoveEffect DEF Places
  <2> QED BY <1>17, <2>1, <2>2, <2>3 DEF FiledAs, MoveToError, Exhausted, RecordFailure, Leave
<1>18. CASE MoveToProcessed
  <2>1. cur \in Paths /\ MoveInto("processed", cur) BY <1>18 DEF MoveToProcessed
  <2>2. /\ folder[cur] \in Drops
        /\ folder' = [folder EXCEPT ![cur] = NoDrop]
        /\ UNCHANGED <<dropped, taken, configured>> /\ quiet' = quiet \ {cur}
        /\ filed' \in [Places -> [Paths -> [Suffixes -> Drops \cup {NoDrop}]]]
    BY <2>1, MoveEffect DEF Places
  <2>3. PICK n \in Suffixes : FiledAs("processed", cur, n)
    BY <2>1, MoveEffect DEF Places
  <2> QED BY <1>18, <2>1, <2>2, <2>3 DEF FiledAs, MoveToProcessed, Leave
<1>19. CASE MoveVanished
  BY <1>19 DEF MoveVanished, RecordFailure, ProcessEnds, Leave
<1>20. CASE Crash
  BY <1>20 DEF Crash, ProcessEnds, Leave
<1>21. CASE UNCHANGED vars
  BY <1>21
<1>22. ASSUME NEW p \in Paths, ListingVanished(p) PROVE JobInv'
  BY <1>22 DEF ListingVanished, TakeBack, ProcessEnds, Leave
<1>23. CASE EditPartners
  BY <1>23 DEF EditPartners
<1> QED
  BY <1>1, <1>2, <1>3, <1>4, <1>5, <1>6, <1>7, <1>8, <1>9, <1>10, <1>11, <1>12, <1>13, <1>14, <1>15, <1>16, <1>17, <1>18, <1>19, <1>20, <1>21, <1>22, <1>23 DEF Next, PollerStep, ProcessFile

(* Every row without a job is paid for by a failure or a crash.            *)
LEMMA OrphanStep == IInv /\ [Next]_vars => OrphansAccounted'
<1> SUFFICES ASSUME IInv, [Next]_vars PROVE OrphansAccounted' OBVIOUS
<1> USE ConstantsAssumption DEF vars, fileVars, dbVars, cycleVars, fileAtHand, historyVars, IInv, TypeOK, FreshInv, OrphansAccounted, Busy
<1>1. ASSUME NEW d \in Drops, Drop(d) PROVE OrphansAccounted'
  BY <1>1 DEF Drop
<1>2. ASSUME NEW p \in Paths, Withdraw(p) PROVE OrphansAccounted'
  BY <1>2 DEF Withdraw, TakeBack
<1>3. ASSUME NEW p \in Paths, QuietPeriodEnds(p) PROVE OrphansAccounted'
  BY <1>3 DEF QuietPeriodEnds
<1>4. ASSUME NEW b \in Partners, NEW k \in ApiRefnums, ApiSend(b, k) PROVE OrphansAccounted'
  BY <1>4 DEF ApiSend
<1>5. CASE PollerStart
  BY <1>5 DEF PollerStart
<1>6. ASSUME NEW b \in Partners, ListFolder(b) PROVE OrphansAccounted'
  BY <1>6 DEF ListFolder
<1>7. CASE NextCycle
  BY <1>7 DEF NextCycle
<1>8. ASSUME NEW p \in Paths, ReadFile(p) PROVE OrphansAccounted'
  BY <1>8 DEF ReadFile
<1>9. ASSUME NEW p \in Paths, FileUnreadable(p) PROVE OrphansAccounted'
  BY <1>9 DEF FileUnreadable
<1>10. CASE NextRefnum
  BY <1>10 DEF NextRefnum
<1>11. CASE RecordMessage
  BY <1>11 DEF RecordMessage
<1>12. CASE RefnumCollides
  BY <1>12 DEF RefnumCollides
<1>13. CASE QueueJob
  BY <1>13 DEF QueueJob
<1>14. CASE QueueJobUnanswered
  BY <1>14 DEF QueueJobUnanswered
<1>15. CASE PickupFails
  BY <1>15 DEF PickupFails
<1>16. CASE TryAgainLater
  <2>1. /\ pc = "failing" /\ cur \in Paths
        /\ failed' = [failed EXCEPT ![cur] = @ + 1]
        /\ held' = NoDrop /\ messages' = messages /\ jobs' = jobs /\ crashes' = crashes
    BY <1>16 DEF TryAgainLater, RecordFailure, Leave
  <2> SUFFICES ASSUME NEW d \in Drops
               PROVE  messages[d] <= jobs[d] + failed'[PathOf[d]] + crashes
    BY <2>1
  <2>2. CASE held = d
    <3>1. failed'[PathOf[d]] = failed[PathOf[d]] + 1 BY <2>1, <2>2
    <3> QED BY <2>1, <2>2, <3>1
  <2>3. CASE held # d
    <3>1. failed[PathOf[d]] <= failed'[PathOf[d]] BY <2>1
    <3> QED BY <2>1, <2>3, <3>1
  <2> QED BY <2>2, <2>3
<1>17. CASE MoveToError
  <2>1. /\ pc = "failing" /\ cur \in Paths
        /\ failed' = [failed EXCEPT ![cur] = @ + 1]
        /\ held' = NoDrop /\ messages' = messages /\ jobs' = jobs /\ crashes' = crashes
    BY <1>17 DEF MoveToError, RecordFailure, Leave
  <2> SUFFICES ASSUME NEW d \in Drops
               PROVE  messages[d] <= jobs[d] + failed'[PathOf[d]] + crashes
    BY <2>1
  <2>2. CASE held = d
    <3>1. failed'[PathOf[d]] = failed[PathOf[d]] + 1 BY <2>1, <2>2
    <3> QED BY <2>1, <2>2, <3>1
  <2>3. CASE held # d
    <3>1. failed[PathOf[d]] <= failed'[PathOf[d]] BY <2>1
    <3> QED BY <2>1, <2>3, <3>1
  <2> QED BY <2>2, <2>3
<1>18. CASE MoveToProcessed
  BY <1>18 DEF MoveToProcessed, Leave
<1>19. CASE MoveVanished
  BY <1>19 DEF MoveVanished, RecordFailure, ProcessEnds, Leave
<1>20. CASE Crash
  BY <1>20 DEF Crash, ProcessEnds, Leave
<1>21. CASE UNCHANGED vars
  BY <1>21
<1>22. ASSUME NEW p \in Paths, ListingVanished(p) PROVE OrphansAccounted'
  BY <1>22 DEF ListingVanished, TakeBack, ProcessEnds, Leave
<1>23. CASE EditPartners
  BY <1>23 DEF EditPartners
<1> QED
  BY <1>1, <1>2, <1>3, <1>4, <1>5, <1>6, <1>7, <1>8, <1>9, <1>10, <1>11, <1>12, <1>13, <1>14, <1>15, <1>16, <1>17, <1>18, <1>19, <1>20, <1>21, <1>22, <1>23 DEF Next, PollerStep, ProcessFile

(* The failures that the files in error/ stand for.                        *)
Spent(p) == MaxPickupAttempts * Cardinality(ErrorCopies(p))

LEMMA CopiesFinite ==
  ASSUME NEW p \in Paths
  PROVE  IsFiniteSet(ErrorCopies(p)) /\ Cardinality(ErrorCopies(p)) \in Nat
<1>1. IsFiniteSet(Suffixes) BY FS_Interval, ConstantsAssumption DEF Suffixes
<1>2. ErrorCopies(p) \subseteq Suffixes BY DEF ErrorCopies
<1>3. IsFiniteSet(ErrorCopies(p)) BY <1>1, <1>2, FS_Subset
<1> QED BY <1>3, FS_CardinalityType

LEMMA SpentNat == \A p \in Paths : Spent(p) \in Nat
<1> QED BY CopiesFinite, ConstantsAssumption DEF Spent

LEMMA SpentKept == filed' = filed => \A p \in Paths : Spent(p)' = Spent(p)
<1> QED BY DEF Spent, ErrorCopies

(* Every file in error/ is paid for by failures of its own.                *)
LEMMA ErrorStep == IInv /\ [Next]_vars => ErrorIsEarned'
<1> SUFFICES ASSUME IInv, [Next]_vars PROVE ErrorIsEarned' OBVIOUS
<1> DEFINE Paid == \A p \in Paths : Spent(p) + attempts[p] <= failed[p]
<1>0. Paid /\ (Paid' => ErrorIsEarned') BY DEF IInv, ErrorIsEarned, Spent
<1> SUFFICES Paid' BY <1>0
<1> USE ConstantsAssumption DEF vars, fileVars, historyVars, IInv, TypeOK
<1>1. ASSUME NEW d \in Drops, Drop(d) PROVE Paid'
  BY <1>1, <1>0, SpentNat, SpentKept DEF Drop
<1>2. ASSUME NEW p \in Paths, Withdraw(p) PROVE Paid'
  BY <1>2, <1>0, SpentNat, SpentKept DEF Withdraw, TakeBack
<1>3. ASSUME NEW p \in Paths, QuietPeriodEnds(p) PROVE Paid'
  BY <1>3, <1>0, SpentNat, SpentKept DEF QuietPeriodEnds
<1>4. ASSUME NEW b \in Partners, NEW k \in ApiRefnums, ApiSend(b, k) PROVE Paid'
  BY <1>4, <1>0, SpentNat, SpentKept DEF ApiSend
<1>5. CASE PollerStart
  BY <1>5, <1>0, SpentNat, SpentKept DEF PollerStart
<1>6. ASSUME NEW b \in Partners, ListFolder(b) PROVE Paid'
  BY <1>6, <1>0, SpentNat, SpentKept DEF ListFolder
<1>7. CASE NextCycle
  BY <1>7, <1>0, SpentNat, SpentKept DEF NextCycle
<1>8. ASSUME NEW p \in Paths, ReadFile(p) PROVE Paid'
  BY <1>8, <1>0, SpentNat, SpentKept DEF ReadFile
<1>9. ASSUME NEW p \in Paths, FileUnreadable(p) PROVE Paid'
  BY <1>9, <1>0, SpentNat, SpentKept DEF FileUnreadable
<1>10. CASE NextRefnum
  BY <1>10, <1>0, SpentNat, SpentKept DEF NextRefnum
<1>11. CASE RecordMessage
  BY <1>11, <1>0, SpentNat, SpentKept DEF RecordMessage
<1>12. CASE RefnumCollides
  BY <1>12, <1>0, SpentNat, SpentKept DEF RefnumCollides
<1>13. CASE QueueJob
  BY <1>13, <1>0, SpentNat, SpentKept DEF QueueJob
<1>14. CASE QueueJobUnanswered
  BY <1>14, <1>0, SpentNat, SpentKept DEF QueueJobUnanswered
<1>15. CASE PickupFails
  BY <1>15, <1>0, SpentNat, SpentKept DEF PickupFails
<1>16. CASE TryAgainLater
  BY <1>16, <1>0, SpentNat, SpentKept DEF TryAgainLater, RecordFailure, Leave
<1>17. CASE MoveToError
  <2>1. PICK c \in Paths : c = cur BY <1>17 DEF MoveToError, Busy
  <2>2. MoveInto("error", c) /\ TypeOK BY <1>17, <2>1 DEF MoveToError
  <2>3. folder[c] \in Drops BY <2>2, MoveEffect DEF Places
  <2>4. PICK n \in Suffixes : FiledAs("error", c, n) BY <2>2, MoveEffect DEF Places
  <2>5. ASSUME NEW p \in Paths, p # c PROVE Spent(p)' = Spent(p)
    <3>1. ErrorCopies(p)' = ErrorCopies(p) BY <2>4, <2>5 DEF FiledAs, ErrorCopies, Places
    <3> QED BY <3>1 DEF Spent
  <2>6. Spent(c)' = Spent(c) + MaxPickupAttempts
    <3>1. ErrorCopies(c)' = ErrorCopies(c) \cup {n}
      <4>1. \A m \in Suffixes : filed'["error"][c][m] = IF m = n THEN folder[c] ELSE filed["error"][c][m]
        BY <2>4 DEF FiledAs, Places
      <4>2. folder[c] # NoDrop BY <2>3
      <4> QED BY <4>1, <4>2 DEF ErrorCopies
    <3>2. n \notin ErrorCopies(c) BY <2>4 DEF FiledAs, ErrorCopies
    <3>3. Cardinality(ErrorCopies(c))' = Cardinality(ErrorCopies(c)) + 1
      BY <3>1, <3>2, CopiesFinite, FS_AddElement
    <3>4. \A k \in Nat : MaxPickupAttempts * (k + 1) = MaxPickupAttempts * k + MaxPickupAttempts
      BY ConstantsAssumption
    <3> QED BY <3>3, <3>4, CopiesFinite DEF Spent
  <2>7. /\ attempts[c] + 1 >= MaxPickupAttempts
        /\ attempts' = [attempts EXCEPT ![c] = 0]
        /\ failed' = [failed EXCEPT ![c] = @ + 1]
    BY <1>17, <2>1 DEF MoveToError, Exhausted, RecordFailure
  <2>8. Spent(c)' + attempts'[c] <= failed'[c]
    BY <1>0, <2>6, <2>7, SpentNat, ConstantsAssumption
  <2>9. ASSUME NEW p \in Paths, p # c PROVE Spent(p)' + attempts'[p] <= failed'[p]
    BY <1>0, <2>5, <2>7, <2>9
  <2>10. ASSUME NEW p \in Paths PROVE Spent(p)' + attempts'[p] <= failed'[p]
    BY <2>8, <2>9
  <2> QED BY <2>10
<1>18. CASE MoveToProcessed
  <2>1. cur \in Paths /\ MoveInto("processed", cur) /\ TypeOK BY <1>18 DEF MoveToProcessed, Busy
  <2>2. PICK n \in Suffixes : FiledAs("processed", cur, n) BY <2>1, MoveEffect DEF Places
  <2>3. ASSUME NEW p \in Paths PROVE ErrorCopies(p)' = ErrorCopies(p)
    BY <2>1, <2>2 DEF FiledAs, ErrorCopies, Places
  <2>4. \A p \in Paths : Spent(p)' = Spent(p) BY <2>3 DEF Spent
  <2> QED BY <1>0, <1>18, <2>1, <2>4, SpentNat DEF MoveToProcessed
<1>19. CASE MoveVanished
  <2>1. \A p \in Paths : Spent(p)' = Spent(p)
    BY <1>19, SpentKept DEF MoveVanished
  <2>2. \A p \in Paths : attempts'[p] = 0
    BY <1>19 DEF MoveVanished, ProcessEnds
  <2>3. \A p \in Paths : failed[p] <= failed'[p]
    BY <1>19 DEF MoveVanished, RecordFailure
  <2>4. ASSUME NEW p \in Paths PROVE Spent(p)' + attempts'[p] <= failed'[p]
    <3>1. Spent(p) \in Nat /\ attempts[p] \in Nat /\ failed[p] \in Nat /\ failed'[p] \in Nat
      BY <1>19, SpentNat DEF MoveVanished, RecordFailure
    <3> QED BY <1>0, <2>1, <2>2, <2>3, <3>1
  <2> QED BY <2>4
<1>20. CASE Crash
  BY <1>20, <1>0, SpentNat, SpentKept DEF Crash, ProcessEnds, Leave
<1>21. CASE UNCHANGED vars
  BY <1>21, <1>0, SpentNat, SpentKept
<1>22. ASSUME NEW p \in Paths, ListingVanished(p) PROVE Paid'
  BY <1>22, <1>0, SpentNat, SpentKept DEF ListingVanished, TakeBack, ProcessEnds, Leave
<1>23. CASE EditPartners
  BY <1>23, <1>0, SpentNat, SpentKept DEF EditPartners
<1> QED
  BY <1>1, <1>2, <1>3, <1>4, <1>5, <1>6, <1>7, <1>8, <1>9, <1>10, <1>11, <1>12, <1>13, <1>14, <1>15, <1>16, <1>17, <1>18, <1>19, <1>20, <1>21, <1>22, <1>23 DEF Next, PollerStep, ProcessFile

(* The invariant is inductive.                                             *)
LEMMA Inductive == IInv /\ [Next]_vars => IInv'
<1> SUFFICES ASSUME IInv, [Next]_vars PROVE IInv' OBVIOUS
<1> QED
  BY TypeStep, PlaceStep, LostStep, HeldStep, ProcessedStep, FreshStep, JobStep,
     OrphanStep, ErrorStep DEF IInv

(* The invariant holds in every reachable state.                           *)
LEMMA Invariance == Spec => []IInv
<1> QED BY InitInv, Inductive, PTL DEF Spec

(* For every instance, every variable keeps its type.                      *)
THEOREM TypeCorrect == Spec => []TypeOK
<1>1. IInv => TypeOK BY DEF IInv
<1> QED BY <1>1, Invariance, PTL

(* For every instance, no drop is lost by a move (filewatch._move_into).   *)
THEOREM NothingLostAlways == Spec => []NothingLost
<1>1. IInv => NothingLost BY DEF IInv
<1> QED BY <1>1, Invariance, PTL

(* For every instance, processed/ means handed to outbound_jobs, but for   *)
(* files that replaced one at hand (poller._process_file).                 *)
THEOREM ProcessedWasQueuedAlways == Spec => []ProcessedWasQueued
<1>1. IInv => ProcessedWasQueued BY DEF IInv
<1> QED BY <1>1, Invariance, PTL

(* For every instance, each extra job of a file stands for a fault.        *)
THEOREM QueuedOnceAlways == Spec => []QueuedOnceButForFaults
<1>1. IInv => QueuedOnceButForFaults BY DEF IInv, JobInv
<1> QED BY <1>1, Invariance, PTL

(* For every instance, each messages row without a job stands for a fault. *)
THEOREM OrphansAlwaysAccounted == Spec => []OrphansAccounted
<1>1. IInv => OrphansAccounted BY DEF IInv
<1> QED BY <1>1, Invariance, PTL

(* For every instance, each file in error/ failed as often as it must      *)
(* (_AttemptTracker).                                                      *)
THEOREM ErrorIsEarnedAlways == Spec => []ErrorIsEarned
<1>1. IInv => ErrorIsEarned BY DEF IInv
<1> QED BY <1>1, Invariance, PTL
=============================================================================
