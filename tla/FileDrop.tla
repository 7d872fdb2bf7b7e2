------------------------------ MODULE FileDrop -----------------------------
(***************************************************************************)
(* The file-drop poller (app/poller.py, app/outbound/filewatch.py): files  *)
(* that users drop into base_dir/<duns>/ are read, given a refnum, handed  *)
(* to enqueue_outbound and moved to processed/, or to error/ after         *)
(* max_pickup_attempts failures.                                           *)
(*                                                                         *)
(* A drop is one writing of a file under its name; its path is constant.   *)
(* Users may drop a new file over one that is there, or withdraw it, at    *)
(* any moment.  The poller is one process; between two awaits it gives way *)
(* to API callers, and to users anywhere, so a step is one database        *)
(* transaction or one file operation.  A listing sees the files that are   *)
(* quiet when it is made (the code takes the time at the start of the      *)
(* cycle, which only leaves more files to the next one).  An exception     *)
(* that escapes run_poller ends the process, as a kill does: Crash is      *)
(* either; MoveVanished and ListingVanished need no fault around it, only  *)
(* a user who takes a file back.                                           *)
(***************************************************************************)
EXTENDS Naturals, FiniteSets

CONSTANTS
  Drops,              \* files as written by users
  Paths,              \* absolute names, base_dir/<duns>/<name>
  PathOf,             \* the name each drop is written under
  Partners,           \* DUNS-named subfolders
  DirOf,              \* the subfolder of each path
  UsesRefnum,         \* partners with envelope_overrides.use_refnum
  Registries,         \* contents partners.yaml may have
  MaxPickupAttempts,  \* settings.poller.max_pickup_attempts
  ApiRefnums,         \* refnums that callers of POST /outbound/send supply
  Copies,             \* bound on the suffixes -1, -2, ... of moved files
  MaxFaults,          \* bound on pickups that fail for a fault around the poller
  MaxCrashes,         \* bound on poller processes that die
  NoDrop, NoPath      \* neither a drop nor a path

ASSUME ConstantsAssumption ==
  /\ PathOf \in [Drops -> Paths]
  /\ DirOf \in [Paths -> Partners]
  /\ UsesRefnum \subseteq Partners
  /\ Registries \subseteq SUBSET Partners
  /\ MaxPickupAttempts \in Nat
  /\ ApiRefnums \subseteq Nat \ {0}
  /\ {Copies, MaxFaults, MaxCrashes} \subseteq Nat
  /\ NoDrop \notin Drops
  /\ NoPath \notin Paths

VARIABLES
  folder,     \* what is in the watched folders, by path
  quiet,      \* the paths not modified for quiet_period_seconds
  filed,      \* filed[place][p][n]: the n-th copy of p in processed/ or error/
  dropped,    \* the drops users have written
  taken,      \* those they withdrew or wrote over
  configured, \* the partners in partners.yaml
  counter,    \* partner_refnum_counters.next_refnum
  refnums,    \* refnums in the outbound messages rows of each partner
  messages,   \* messages rows holding each drop
  jobs,       \* outbound_jobs rows holding each drop
  pc,         \* where the poller is
  registry,   \* the partners it read at its start
  pending,    \* subfolders this poll cycle has yet to list
  todo,       \* files listed and not yet processed
  cur,        \* file_path in _process_file
  held,       \* payload: the drop that was read
  refnum,     \* the refnum it was given, or 0
  attempts,   \* _AttemptTracker._counts, in memory only
  failed,     \* pickup failures of each path (history)
  late,       \* drops written while _process_file was at their path (history)
  faults,     \* faults so far
  crashes     \* crashes so far

fileVars == <<folder, quiet, filed, dropped, taken, configured>>
dbVars == <<counter, refnums, messages, jobs>>
cycleVars == <<registry, pending, todo>>
fileAtHand == <<cur, held, refnum>>
historyVars == <<failed, late, faults, crashes>>
vars == <<fileVars, dbVars, pc, cycleVars, fileAtHand, attempts, historyVars>>

Places == {"processed", "error"}
Suffixes == 0..Copies

(* The poller inside _process_file. *)
Busy == {"numbering", "recording", "queuing", "failing", "moving"}

TypeOK ==
  /\ folder \in [Paths -> Drops \cup {NoDrop}]
  /\ quiet \subseteq Paths
  /\ filed \in [Places -> [Paths -> [Suffixes -> Drops \cup {NoDrop}]]]
  /\ dropped \subseteq Drops
  /\ taken \subseteq dropped
  /\ configured \in Registries
  /\ counter \in [Partners -> Nat \ {0}]
  /\ refnums \in [Partners -> SUBSET (Nat \ {0})]
  /\ messages \in [Drops -> Nat]
  /\ jobs \in [Drops -> Nat]
  /\ pc \in Busy \cup {"down", "polling"}
  /\ registry \subseteq Partners
  /\ pending \subseteq Partners
  /\ todo \subseteq Paths
  /\ cur \in Paths \cup {NoPath}
  /\ cur # NoPath <=> pc \in Busy
  /\ held \in Drops \cup {NoDrop}
  /\ pc \in Busy \ {"failing"} => held # NoDrop
  /\ held # NoDrop => pc \in Busy /\ PathOf[held] = cur
  /\ refnum \in Nat
  /\ attempts \in [Paths -> Nat]
  /\ failed \in [Paths -> Nat]
  /\ late \subseteq dropped
  /\ faults \in 0..MaxFaults
  /\ crashes \in 0..MaxCrashes

Init ==
  /\ configured \in Registries
  /\ folder = [p \in Paths |-> NoDrop]
  /\ filed = [place \in Places |-> [p \in Paths |-> [n \in Suffixes |-> NoDrop]]]
  /\ counter = [b \in Partners |-> 1]
  /\ refnums = [b \in Partners |-> {}]
  /\ messages = [d \in Drops |-> 0]
  /\ jobs = [d \in Drops |-> 0]
  /\ pc = "down"
  /\ attempts = [p \in Paths |-> 0]
  /\ failed = [p \in Paths |-> 0]
  /\ cur = NoPath
  /\ held = NoDrop
  /\ quiet = {} /\ dropped = {} /\ taken = {} /\ late = {}
  /\ registry = {} /\ pending = {} /\ todo = {}
  /\ refnum = 0 /\ faults = 0 /\ crashes = 0

-----------------------------------------------------------------------------
(* Users of the file system, the operator, the clock, callers of the API. *)

Drop(d) ==
  /\ d \notin dropped
  /\ dropped' = dropped \cup {d}
  /\ taken' = taken \cup ({folder[PathOf[d]]} \ {NoDrop})
  /\ folder' = [folder EXCEPT ![PathOf[d]] = d]
  /\ quiet' = quiet \ {PathOf[d]}
  /\ late' = IF cur = PathOf[d] THEN late \cup {d} ELSE late
  /\ UNCHANGED <<filed, configured, dbVars, pc, cycleVars, fileAtHand, attempts, failed, faults, crashes>>

TakeBack(p) ==
  /\ folder[p] # NoDrop
  /\ taken' = taken \cup {folder[p]}
  /\ folder' = [folder EXCEPT ![p] = NoDrop]
  /\ quiet' = quiet \ {p}
  /\ UNCHANGED <<filed, dropped, configured>>

Withdraw(p) ==
  /\ TakeBack(p)
  /\ UNCHANGED <<dbVars, pc, cycleVars, fileAtHand, attempts, historyVars>>

EditPartners ==
  /\ configured' \in Registries \ {configured}
  /\ UNCHANGED <<folder, quiet, filed, dropped, taken, dbVars, pc, cycleVars, fileAtHand, attempts, historyVars>>

QuietPeriodEnds(p) ==
  /\ folder[p] # NoDrop
  /\ quiet' = quiet \cup {p}
  /\ UNCHANGED <<folder, filed, dropped, taken, configured, dbVars, pc, cycleVars, fileAtHand, attempts, historyVars>>

(* trigger_send with a refnum of the caller's; a second use of one is the  *)
(* UniqueViolation that leaves nothing behind.  Of partners that do not    *)
(* use refnums the poller never looks at them.                             *)
ApiSend(b, k) ==
  /\ b \in UsesRefnum
  /\ k \notin refnums[b]
  /\ refnums' = [refnums EXCEPT ![b] = @ \cup {k}]
  /\ UNCHANGED <<fileVars, counter, messages, jobs, pc, cycleVars, fileAtHand, attempts, historyVars>>

-----------------------------------------------------------------------------
(* run_poller and _poll_once.  load_partners is called once, at the start. *)

PollerStart ==
  /\ pc = "down"
  /\ pc' = "polling"
  /\ registry' = configured
  /\ pending' = Partners
  /\ UNCHANGED <<fileVars, dbVars, todo, fileAtHand, attempts, historyVars>>

(* A bug: the poll cycle ends at an unknown DUNS. *)
ListFolder_Stops(b) ==
  /\ pc = "polling"
  /\ todo = {}
  /\ b \in pending
  /\ pending' = IF b \in registry THEN pending \ {b} ELSE {}
  /\ todo' = {p \in quiet : b \in registry /\ DirOf[p] = b}
  /\ UNCHANGED <<fileVars, dbVars, pc, registry, fileAtHand, attempts, historyVars>>

(* list_stable_files of a subfolder whose partner is known; the subfolder *)
(* of an unknown DUNS is passed over.                                     *)
ListFolder(b) ==
  /\ pc = "polling"
  /\ todo = {}
  /\ b \in pending
  /\ pending' = pending \ {b}
  /\ todo' = {p \in quiet : b \in registry /\ DirOf[p] = b}
  /\ UNCHANGED <<fileVars, dbVars, pc, registry, fileAtHand, attempts, historyVars>>

NextCycle ==
  /\ pc = "polling"
  /\ todo = {}
  /\ pending = {}
  /\ pending' = Partners
  /\ UNCHANGED <<fileVars, dbVars, pc, registry, todo, fileAtHand, attempts, historyVars>>

-----------------------------------------------------------------------------
(* _process_file. *)

(* The locals of _process_file are gone when it returns or raises. *)
Leave(stage) ==
  /\ pc' = stage
  /\ cur' = NoPath
  /\ held' = NoDrop
  /\ refnum' = 0

(* read_bytes: whatever is under the name by now, or FileNotFoundError. *)
ReadFile(p) ==
  /\ pc = "polling"
  /\ p \in todo
  /\ todo' = todo \ {p}
  /\ cur' = p
  /\ held' = folder[p]
  /\ pc' = IF folder[p] = NoDrop THEN "failing"
           ELSE IF DirOf[p] \in UsesRefnum THEN "numbering" ELSE "recording"
  /\ UNCHANGED <<fileVars, dbVars, registry, pending, refnum, attempts, historyVars>>

FileUnreadable(p) ==
  /\ pc = "polling"
  /\ p \in todo
  /\ faults < MaxFaults
  /\ faults' = faults + 1
  /\ todo' = todo \ {p}
  /\ cur' = p
  /\ pc' = "failing"
  /\ UNCHANGED <<fileVars, dbVars, registry, pending, held, refnum, attempts, failed, late, crashes>>

NextRefnum ==
  /\ pc = "numbering"
  /\ pc' = "recording"
  /\ refnum' = counter[DirOf[cur]]
  /\ counter' = [counter EXCEPT ![DirOf[cur]] = @ + 1]
  /\ UNCHANGED <<fileVars, refnums, messages, jobs, cycleVars, cur, held, attempts, historyVars>>

(* A bug: the file is moved once its messages row is there. *)
RecordMessage_ThenMoves ==
  /\ pc = "recording"
  /\ refnum \notin refnums[DirOf[cur]]
  /\ pc' = "moving"
  /\ messages' = [messages EXCEPT ![held] = @ + 1]
  /\ refnums' = [refnums EXCEPT ![DirOf[cur]] = @ \cup ({refnum} \ {0})]
  /\ UNCHANGED <<fileVars, counter, jobs, cycleVars, fileAtHand, attempts, historyVars>>

(* enqueue_outbound: the messages row, then the outbound_jobs row. *)
RecordMessage ==
  /\ pc = "recording"
  /\ refnum \notin refnums[DirOf[cur]]
  /\ pc' = "queuing"
  /\ messages' = [messages EXCEPT ![held] = @ + 1]
  /\ refnums' = [refnums EXCEPT ![DirOf[cur]] = @ \cup ({refnum} \ {0})]
  /\ UNCHANGED <<fileVars, counter, jobs, cycleVars, fileAtHand, attempts, historyVars>>

(* The UniqueViolation of a refnum that an API caller has used.  Digests   *)
(* never collide: each encryption has a session key of its own.            *)
RefnumCollides ==
  /\ pc = "recording"
  /\ refnum \in refnums[DirOf[cur]]
  /\ pc' = "failing"
  /\ UNCHANGED <<fileVars, dbVars, cycleVars, fileAtHand, attempts, historyVars>>

(* A bug: a failure of the second INSERT goes by unnoticed. *)
QueueJob_Swallowed ==
  /\ pc = "queuing"
  /\ Leave("polling")
  /\ UNCHANGED <<fileVars, dbVars, cycleVars, attempts, historyVars>>

QueueJob ==
  /\ pc = "queuing"
  /\ pc' = "moving"
  /\ jobs' = [jobs EXCEPT ![held] = @ + 1]
  /\ UNCHANGED <<fileVars, counter, refnums, messages, cycleVars, fileAtHand, attempts, historyVars>>

(* The job is there but its acknowledgement is lost. *)
QueueJobUnanswered ==
  /\ pc = "queuing"
  /\ faults < MaxFaults
  /\ faults' = faults + 1
  /\ pc' = "failing"
  /\ jobs' = [jobs EXCEPT ![held] = @ + 1]
  /\ UNCHANGED <<fileVars, counter, refnums, messages, cycleVars, fileAtHand, attempts, failed, late, crashes>>

(* The database or GnuPG raises and nothing has been done.  (A call before *)
(* jobs.create that was done and not acknowledged is a failure right after *)
(* it.)                                                                    *)
PickupFails ==
  /\ pc \in {"numbering", "recording", "queuing"}
  /\ faults < MaxFaults
  /\ faults' = faults + 1
  /\ pc' = "failing"
  /\ UNCHANGED <<fileVars, dbVars, cycleVars, fileAtHand, attempts, failed, late, crashes>>

(* A bug: a name that is taken is taken over. *)
UniqueDestination_Overwrites(place, p, n) == n = 0

(* _unique_destination: the first suffix that is free. *)
UniqueDestination(place, p, n) ==
  /\ filed[place][p][n] = NoDrop
  /\ \A m \in Suffixes : m < n => filed[place][p][m] # NoDrop

(* _move_into: rename whatever is under the name. *)
MoveInto(place, p) ==
  /\ folder[p] # NoDrop
  /\ \E n \in Suffixes :
       /\ UniqueDestination(place, p, n)
       /\ filed' = [filed EXCEPT ![place][p][n] = folder[p]]
  /\ folder' = [folder EXCEPT ![p] = NoDrop]
  /\ quiet' = quiet \ {p}
  /\ UNCHANGED <<dropped, taken, configured>>

Exhausted == attempts[cur] + 1 >= MaxPickupAttempts

RecordFailure == failed' = [failed EXCEPT ![cur] = @ + 1]

TryAgainLater ==
  /\ pc = "failing"
  /\ ~Exhausted
  /\ attempts' = [attempts EXCEPT ![cur] = @ + 1]
  /\ RecordFailure
  /\ Leave("polling")
  /\ UNCHANGED <<fileVars, dbVars, cycleVars, late, faults, crashes>>

(* A bug: the count outlives the file it was for. *)
MoveToError_CountKept ==
  /\ pc = "failing"
  /\ Exhausted
  /\ MoveInto("error", cur)
  /\ attempts' = [attempts EXCEPT ![cur] = @ + 1]
  /\ RecordFailure
  /\ Leave("polling")
  /\ UNCHANGED <<dbVars, cycleVars, late, faults, crashes>>

MoveToError ==
  /\ pc = "failing"
  /\ Exhausted
  /\ MoveInto("error", cur)
  /\ attempts' = [attempts EXCEPT ![cur] = 0]
  /\ RecordFailure
  /\ Leave("polling")
  /\ UNCHANGED <<dbVars, cycleVars, late, faults, crashes>>

(* A bug: the file is not moved. *)
MoveToProcessed_Left ==
  /\ pc = "moving"
  /\ folder[cur] # NoDrop
  /\ attempts' = [attempts EXCEPT ![cur] = 0]
  /\ Leave("polling")
  /\ UNCHANGED <<fileVars, dbVars, cycleVars, historyVars>>

MoveToProcessed ==
  /\ pc = "moving"
  /\ MoveInto("processed", cur)
  /\ attempts' = [attempts EXCEPT ![cur] = 0]
  /\ Leave("polling")
  /\ UNCHANGED <<dbVars, cycleVars, historyVars>>

-----------------------------------------------------------------------------
(* The end of the process: its listing, the file at hand and the attempt   *)
(* counts are in memory only.                                              *)

ProcessEnds ==
  /\ Leave("down")
  /\ todo' = {}
  /\ pending' = {}
  /\ attempts' = [p \in Paths |-> 0]
  /\ UNCHANGED <<dbVars, registry>>

(* A file is withdrawn between is_file() and stat() of list_stable_files:  *)
(* FileNotFoundError, which nothing catches.                               *)
ListingVanished(p) ==
  /\ pc = "polling"
  /\ todo = {}
  /\ DirOf[p] \in pending \cap registry
  /\ TakeBack(p)
  /\ ProcessEnds
  /\ UNCHANGED historyVars

(* rename raises: both moves are outside the try of _process_file. *)
MoveVanished ==
  /\ pc = "moving" \/ (pc = "failing" /\ Exhausted)
  /\ folder[cur] = NoDrop
  /\ IF pc = "failing" THEN RecordFailure ELSE UNCHANGED failed
  /\ ProcessEnds
  /\ UNCHANGED <<fileVars, late, faults, crashes>>

Crash ==
  /\ pc # "down"
  /\ crashes < MaxCrashes
  /\ crashes' = crashes + 1
  /\ ProcessEnds
  /\ UNCHANGED <<fileVars, failed, late, faults>>

-----------------------------------------------------------------------------
ProcessFile ==
  \/ \E p \in Paths : ReadFile(p) \/ FileUnreadable(p)
  \/ NextRefnum \/ RecordMessage \/ RefnumCollides \/ QueueJob
  \/ QueueJobUnanswered \/ PickupFails
  \/ TryAgainLater \/ MoveToError \/ MoveToProcessed \/ MoveVanished

PollerStep ==
  \/ \E b \in Partners : ListFolder(b)
  \/ NextCycle
  \/ ProcessFile

Next ==
  \/ \E d \in Drops : Drop(d)
  \/ \E p \in Paths : Withdraw(p) \/ ListingVanished(p) \/ QuietPeriodEnds(p)
  \/ EditPartners
  \/ \E b \in Partners, k \in ApiRefnums : ApiSend(b, k)
  \/ PollerStart
  \/ PollerStep
  \/ Crash

Spec == Init /\ [][Next]_vars

(* The poller's loop goes on, an operator starts the poller again whenever *)
(* it has died, and the clock runs on.  Users, API callers and those who   *)
(* edit partners.yaml owe nothing.                                         *)
FairSpec ==
  /\ Spec
  /\ WF_vars(PollerStart)
  /\ WF_vars(PollerStep)
  /\ \A p \in Paths : WF_vars(QuietPeriodEnds(p))

-----------------------------------------------------------------------------
(* Where a drop is. *)
Waiting(d) == folder[PathOf[d]] = d
FiledIn(place, d) == \E n \in Suffixes : filed[place][PathOf[d]][n] = d
ErrorCopies(p) == {n \in Suffixes : filed["error"][p][n] # NoDrop}

(* No drop is lost by a move: what users have not taken back themselves is *)
(* in the watched folder, in processed/ or in error/, and in one of them   *)
(* (filewatch._unique_destination, _move_into).                            *)
NothingLost ==
  \A d \in dropped \ taken :
    \/ Waiting(d) /\ ~FiledIn("processed", d) /\ ~FiledIn("error", d)
    \/ ~Waiting(d) /\ FiledIn("processed", d) /\ ~FiledIn("error", d)
    \/ ~Waiting(d) /\ ~FiledIn("processed", d) /\ FiledIn("error", d)

(* A file in processed/ has been handed to outbound_jobs, unless it came   *)
(* under its name while _process_file was at work on an earlier one: the   *)
(* move takes what is under the name, not what was read.                   *)
ProcessedWasQueued ==
  \A d \in Drops : FiledIn("processed", d) => jobs[d] > 0 \/ d \in late

(* A file is queued once, and again only for a process that died between   *)
(* its job and its move, or a job whose acknowledgement was lost.          *)
QueuedOnceButForFaults ==
  \A d \in Drops :
    /\ jobs[d] <= crashes + faults + 1
    /\ Waiting(d) /\ ~(pc = "moving" /\ held = d) => jobs[d] <= crashes + faults

(* A messages row without a job is left only by a pickup that failed, or a *)
(* process that died, between the two INSERTs of enqueue_outbound.         *)
OrphansAccounted ==
  \A d \in Drops :
    messages[d] <= jobs[d] + failed[PathOf[d]] + crashes
                   + (IF held = d /\ pc \in {"queuing", "failing"} THEN 1 ELSE 0)

(* Each file in error/ stands for MaxPickupAttempts failures under its     *)
(* name that brought no other file there (_AttemptTracker.clear).          *)
ErrorIsEarned ==
  \A p \in Paths :
    MaxPickupAttempts * Cardinality(ErrorCopies(p)) + attempts[p] <= failed[p]

(* Whatever fails, a file does not stay in a folder whose partner was in   *)
(* partners.yaml when the poller last started, provided that a poller that *)
(* died is started again (_poll_once, _process_file).                      *)
FileLeaves ==
  \A d \in Drops :
    <>[](DirOf[PathOf[d]] \in registry) => (Waiting(d) ~> ~Waiting(d))

(* The comment in _poll_once, and docs/outbound-flow.md: a folder left in  *)
(* place "self-heals once the partner is added to partners.yaml".          *)
UnknownFolderHeals ==
  \A d \in Drops :
    <>[](DirOf[PathOf[d]] \in configured) => (Waiting(d) ~> ~Waiting(d))

=============================================================================
