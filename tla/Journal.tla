------------------------------ MODULE Journal ------------------------------
(***************************************************************************)
(* The decision journal of ledgerfs: one append-only file of records, one  *)
(* line each, which every host process that opens it locks, repairs and    *)
(* replays before it appends to it.                                        *)
(*                                                                         *)
(* What a write leaves in the file and what the disk would still hold      *)
(* after a power failure are two things.  `survivors' is the set of        *)
(* contents the disk may hold: every content the file has had since the    *)
(* last successful sync, and what a write torn by the failure makes of it. *)
(* A failure keeps a prefix of what was being written, and a sync that     *)
(* succeeds makes the whole file and its name durable: assumptions about   *)
(* the file system.                                                        *)
(***************************************************************************)
EXTENDS Naturals, Sequences

CONSTANTS
    Host,        \* processes that may open the journal
    None,        \* no host
    Record,      \* the records callers may want to append
    Needs,       \* by record: the records its validation asks for
    Oversized,   \* records whose line is longer than maxRecordBytes
    Repeatable,  \* records of Evaluations and Responses
    Fragment,    \* the line of a torn write: it does not end in a newline
    Garbled,     \* a line that ends in a newline and is not one record
    MaxFaults    \* bound: failed calls, kills and power failures

ASSUME HostAssumption == None \notin Host
ASSUME RecordAssumption ==
    /\ Needs \in [Record -> SUBSET Record]
    /\ Oversized \subseteq Record
    /\ Repeatable \subseteq Record
    /\ Fragment \notin Record /\ Garbled \notin Record /\ Fragment # Garbled
ASSUME FaultAssumption == MaxFaults \in Nat

VARIABLES
    present,     \* the directory has an entry for the journal
    file,        \* the lines of the journal, as processes read them
    survivors,   \* the lines the disk may hold after a power failure
    holder,      \* the host that holds the lock on the file
    at,          \* by host: where it is in Open or append
    created,     \* by host: whether it found no file when it opened one
    memory,      \* by host: the records its projection was built from
    record,      \* by host: the record it appends
    size,        \* by host: the length of the file before it appended
    failed,      \* hosts whose rollback failed: they append no more
    told,        \* the records acknowledged once they were synced, in that order
    repeated,    \* those acknowledged as repetitions since the power last failed
    faults       \* faults injected so far

disk == <<present, file, survivors>>
work == <<record, size>>
vars == <<disk, holder, at, created, memory, work, failed, told, repeated, faults>>

-----------------------------------------------------------------------------
(* Lines.                                                                    *)

Line == Record \cup {Fragment, Garbled}

Torn(f) == f # <<>> /\ f[Len(f)] = Fragment

(* A line written after a fragment becomes one line with it.                 *)
Written(f, r) ==
    IF Torn(f) THEN [f EXCEPT ![Len(f)] = Garbled] ELSE Append(f, r)

PartlyWritten(f) == IF Torn(f) THEN f ELSE Append(f, Fragment)

(* Mutant: everything after the last newline but one is cut. *)
LastLineCut(f) == IF f = <<>> THEN f ELSE SubSeq(f, 1, Len(f) - 1)

(* truncateIncompleteTail: what follows the last newline is cut off.         *)
Repaired(f) == IF Torn(f) THEN SubSeq(f, 1, Len(f) - 1) ELSE f

Held(f) == {f[i] : i \in DOMAIN f}

(* validateRecord of a record that is new to the projection: it finds what   *)
(* it refers to.  Only Evaluations and Responses reach the ledger again      *)
(* (Repeat): the Repository looks for all else by its key or its promotion   *)
(* first.                                                                    *)
Valid(f, r) == r \notin Held(f) /\ Needs[r] \subseteq Held(f)

(* What replay accepts: lines that decode, fit its buffer and are valid.     *)
Replayable(f) ==
    \A i \in DOMAIN f :
        /\ f[i] \in Record \ Oversized
        /\ Valid(SubSeq(f, 1, i - 1), f[i])

-----------------------------------------------------------------------------
(* Faults and what a host leaves behind.                                     *)

Fault ==
    /\ faults < MaxFaults
    /\ faults' = faults + 1

Goto(h, place) == at' = [at EXCEPT ![h] = place]

Forget(h) ==
    /\ created' = [created EXCEPT ![h] = FALSE]
    /\ memory' = [memory EXCEPT ![h] = <<>>]
    /\ record' = [record EXCEPT ![h] = None]
    /\ size' = [size EXCEPT ![h] = 0]
    /\ failed' = failed \ {h}

(* The lock goes with the file description that holds it.                    *)
LeaveOff(h) ==
    /\ Goto(h, "off")
    /\ holder' = IF holder = h THEN None ELSE holder
    /\ Forget(h)

-----------------------------------------------------------------------------
(* Open.                                                                     *)

(* os.Stat, then os.OpenFile with O_CREATE.                                  *)
OpenFile(h) ==
    /\ at[h] = "off"
    /\ created' = [created EXCEPT ![h] = ~present]
    /\ present' = TRUE
    /\ Goto(h, "lock")
    /\ UNCHANGED <<file, survivors, holder, memory, work, failed, told, repeated, faults>>

(* Mutant: the journal is not locked. *)
NotLocked(h) == h \in Host

(* flock with LOCK_NB: whoever finds the lock taken fails to open.           *)
LockFree(h) == holder = None

LockJournal(h) ==
    /\ at[h] = "lock"
    /\ IF LockFree(h)
       THEN /\ holder' = h
            /\ Goto(h, IF created[h] THEN "syncName" ELSE "repair")
            /\ UNCHANGED <<created, memory, work, failed>>
       ELSE LeaveOff(h)
    /\ UNCHANGED <<disk, told, repeated, faults>>

(* Only the Open that found no file syncs the directory; when it fails, or   *)
(* its host ends first, the next one finds the file and does not.            *)
SyncName(h) ==
    /\ at[h] = "syncName"
    /\ Goto(h, "repair")
    /\ UNCHANGED <<disk, holder, created, memory, work, failed, told, repeated, faults>>

CutTail(h) ==
    /\ at[h] = "repair"
    /\ IF Repaired(file) = file
       THEN Goto(h, "replay") /\ UNCHANGED <<file, survivors>>
       ELSE /\ file' = Repaired(file)
            /\ survivors' = survivors \cup {file'}
            /\ Goto(h, "syncRepair")
    /\ UNCHANGED <<present, holder, created, memory, work, failed, told, repeated, faults>>

SyncRepair(h) ==
    /\ at[h] = "syncRepair"
    /\ survivors' = {file}
    /\ Goto(h, "replay")
    /\ UNCHANGED <<present, file, holder, created, memory, work, failed, told, repeated, faults>>

(* Nothing is synced here: a journal that needs no repair is taken as it is. *)
Replay(h) ==
    /\ at[h] = "replay"
    /\ IF Replayable(file)
       THEN /\ memory' = [memory EXCEPT ![h] = file]
            /\ Goto(h, "ready")
            /\ UNCHANGED <<holder, created, work, failed>>
       ELSE LeaveOff(h)
    /\ UNCHANGED <<disk, told, repeated, faults>>

(* A call of Open fails; the lock is released.                               *)
OpenFails(h) ==
    /\ at[h] \in {"syncName", "repair", "syncRepair", "replay"}
    /\ Fault
    /\ LeaveOff(h)
    /\ UNCHANGED <<disk, told, repeated>>

Close(h) ==
    /\ at[h] = "ready"
    /\ LeaveOff(h)
    /\ UNCHANGED <<disk, told, repeated, faults>>

-----------------------------------------------------------------------------
(* Append, under the mutex of the Ledger: one at a time per host.            *)

(* Mutant: no limit on what is written. *)
FitsAnyway(r) == r \in Record

Fits(r) == r \notin Oversized

BeginAppend(h, r) ==
    /\ at[h] = "ready"
    /\ h \notin failed
    /\ Valid(memory[h], r)
    /\ Fits(r)
    /\ record' = [record EXCEPT ![h] = r]
    /\ size' = [size EXCEPT ![h] = Len(file)]
    /\ Goto(h, "write")
    /\ UNCHANGED <<disk, holder, created, memory, failed, told, repeated, faults>>

(* recordAlreadyApplied: a repeated Evaluation or Response succeeds, with     *)
(* neither a write nor a sync.                                               *)
Repeat(h, r) ==
    /\ at[h] = "ready"
    /\ h \notin failed
    /\ r \in Repeatable \cap Held(memory[h])
    /\ repeated' = repeated \cup {r}
    /\ UNCHANGED <<disk, holder, at, created, memory, work, failed, told, faults>>

Write(h) ==
    /\ at[h] = "write"
    /\ file' = Written(file, record[h])
    /\ survivors' = survivors \cup {PartlyWritten(file), file'}
    /\ Goto(h, "sync")
    /\ UNCHANGED <<present, holder, created, memory, work, failed, told, repeated, faults>>

(* Nothing or only a part of the line is written.                            *)
WriteFails(h) ==
    /\ at[h] = "write"
    /\ Fault
    /\ file' \in {file, PartlyWritten(file)}
    /\ survivors' = survivors \cup {file'}
    /\ Goto(h, "rollback")
    /\ UNCHANGED <<present, holder, created, memory, work, failed, told, repeated>>

Done(h) ==
    /\ Goto(h, "ready")
    /\ record' = [record EXCEPT ![h] = None]
    /\ size' = [size EXCEPT ![h] = 0]

(* Mutant: the record is applied and acknowledged without a sync. *)
Unsynced(h) == survivors

Synced(h) == {file}

(* Only a synced record affects the projection and is acknowledged.          *)
Sync(h) ==
    /\ at[h] = "sync"
    /\ survivors' = Synced(h)
    /\ memory' = [memory EXCEPT ![h] = Append(@, record[h])]
    /\ told' = Append(told, record[h])
    /\ Done(h)
    /\ UNCHANGED <<present, file, holder, created, failed, repeated, faults>>

SyncFails(h) ==
    /\ at[h] = "sync"
    /\ Fault
    /\ Goto(h, "rollback")
    /\ UNCHANGED <<disk, holder, created, memory, work, failed, told, repeated>>

(* truncateAndSync: the file gets back the length it had before.             *)
Rollback(h) ==
    /\ at[h] = "rollback"
    /\ file' = SubSeq(file, 1, size[h])
    /\ survivors' = survivors \cup {file'}
    /\ Goto(h, "syncRollback")
    /\ UNCHANGED <<present, holder, created, memory, work, failed, told, repeated, faults>>

SyncRollback(h) ==
    /\ at[h] = "syncRollback"
    /\ survivors' = {file}
    /\ Done(h)
    /\ UNCHANGED <<present, file, holder, created, memory, failed, told, repeated, faults>>

(* Mutant: the ledger goes on after a failed rollback. *)
NotLatched(h) == failed

(* No append after a failed rollback; the readers still answer.              *)
Latched(h) == failed \cup {h}

RollbackFails(h) ==
    /\ at[h] \in {"rollback", "syncRollback"}
    /\ Fault
    /\ failed' = Latched(h)
    /\ Done(h)
    /\ UNCHANGED <<disk, holder, created, memory, told, repeated>>

-----------------------------------------------------------------------------
(* A host ends: what it has written stays in the file.                       *)
Kill(h) ==
    /\ at[h] # "off"
    /\ Fault
    /\ LeaveOff(h)
    /\ UNCHANGED <<disk, told, repeated>>

(* Every host ends, and the file is what the disk holds.                     *)
PowerFailure ==
    /\ Fault
    /\ file' \in survivors
    /\ survivors' = {file'}
    /\ holder' = None
    /\ at' = [h \in Host |-> "off"]
    /\ created' = [h \in Host |-> FALSE]
    /\ memory' = [h \in Host |-> <<>>]
    /\ record' = [h \in Host |-> None]
    /\ size' = [h \in Host |-> 0]
    /\ failed' = {}
    /\ repeated' = {}
    /\ UNCHANGED <<present, told>>

-----------------------------------------------------------------------------
Init ==
    /\ present = FALSE
    /\ file = <<>>
    /\ survivors = {<<>>}
    /\ holder = None
    /\ at = [h \in Host |-> "off"]
    /\ created = [h \in Host |-> FALSE]
    /\ memory = [h \in Host |-> <<>>]
    /\ record = [h \in Host |-> None]
    /\ size = [h \in Host |-> 0]
    /\ failed = {}
    /\ told = <<>>
    /\ repeated = {}
    /\ faults = 0

OpenStep(h) ==
    \/ OpenFile(h) \/ LockJournal(h) \/ SyncName(h)
    \/ CutTail(h) \/ SyncRepair(h) \/ Replay(h) \/ OpenFails(h)

AppendStep(h) ==
    \/ \E r \in Record : BeginAppend(h, r) \/ Repeat(h, r)
    \/ Write(h) \/ WriteFails(h) \/ Sync(h) \/ SyncFails(h)
    \/ Rollback(h) \/ SyncRollback(h) \/ RollbackFails(h)

Next ==
    \/ \E h \in Host : OpenStep(h) \/ AppendStep(h) \/ Close(h) \/ Kill(h)
    \/ PowerFailure

Spec == Init /\ [][Next]_vars

-----------------------------------------------------------------------------
(* Properties.                                                               *)

Places == {"off", "lock", "syncName", "repair", "syncRepair", "replay", "ready",
           "write", "sync", "rollback", "syncRollback"}

(* The types, and "one writer at a time": whoever works on the file past its  *)
(* opening holds the lock.                                                   *)
TypeOK ==
    /\ \A h \in Host : at[h] \notin {"off", "lock"} => holder = h
    /\ present \in BOOLEAN
    /\ created \in [Host -> BOOLEAN]
    /\ file \in Seq(Line)
    /\ survivors \subseteq Seq(Line)
    /\ holder \in Host \cup {None}
    /\ at \in [Host -> Places]
    /\ memory \in [Host -> Seq(Record)]
    /\ record \in [Host -> Record \cup {None}]
    /\ size \in [Host -> Nat]
    /\ failed \subseteq Host
    /\ told \in Seq(Record)
    /\ repeated \subseteq Repeatable
    /\ faults \in 0 .. MaxFaults

(* "Opening a journal repairs an incomplete final record and then validates   *)
(* and replays the complete history": whatever calls failed and wherever a    *)
(* host or the power failed, what is left is a journal Open accepts.  (A      *)
(* record written after a fragment, out of turn or beyond what replay reads   *)
(* would keep the repository closed for good.)                                *)
AlwaysReopens == \A f \in survivors \cup {file} : Replayable(Repaired(f))

(* A record acknowledged once it was synced survives every failure, and its   *)
(* place among those records with it.                                        *)
Keeps(f) ==
    \A i, j \in DOMAIN told : \E m, n \in DOMAIN f :
        /\ f[m] = told[i]
        /\ f[n] = told[j]
        /\ i < j => m < n

SyncedSurvives == \A f \in survivors \cup {file} : Keeps(f)

(* A record acknowledged as a repetition may never have been synced.  Short   *)
(* of a power failure nothing takes it back, no kill, rollback or repair:    *)
(* it is in the file, and in what a host between two calls answers from.     *)
RepetitionStands ==
    /\ repeated \subseteq Held(file)
    /\ \A h \in Host : at[h] = "ready" => repeated \subseteq Held(memory[h])

(* README: "Every Evaluation, Requirement, Response, and Promotion becomes    *)
(* durable history": what the ledger acknowledged survives a power failure,  *)
(* whether it was recorded by this call or before.                           *)
AcknowledgedSurvives ==
    \A f \in survivors \cup {file} : Keeps(f) /\ repeated \subseteq Held(f)

(* A host between two calls answers from exactly the records in the file,     *)
(* unless a rollback failed: then all but the one it could not remove.        *)
MemoryMirrorsFile ==
    \A h \in Host : at[h] = "ready" =>
        \/ memory[h] = file
        \/ /\ h \in failed
           /\ \E l \in Line : file = Append(memory[h], l)

(* doc.go: "Each accepted record is synced before it affects the in-memory    *)
(* projection": a host answers only from records a power failure leaves.      *)
ProjectionIsSynced ==
    \A h \in Host : at[h] = "ready" =>
        \A f \in survivors :
            /\ Len(memory[h]) <= Len(f)
            /\ SubSeq(f, 1, Len(memory[h])) = memory[h]

(* The facts no failure takes back: those every survivor has.                *)
Settled ==
    Repaired(CHOOSE f \in survivors :
                 \A g \in survivors : Len(Repaired(f)) <= Len(Repaired(g)))

(* The file with its torn writes, rollbacks and repairs implements the        *)
(* promise of an append-only log, and whatever the log grows by, it takes in *)
(* the repetitions acknowledged before.                                      *)
Durable == INSTANCE DurableLog WITH log <- Settled

DurableSpec == Durable!Spec
=============================================================================
