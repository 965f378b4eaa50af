--------------------------- MODULE JournalProofs ---------------------------
(* What holds of Journal for any hosts, records, needs and faults.           *)
EXTENDS Journal, SequenceTheorems, TLAPS

-----------------------------------------------------------------------------
(* The inductive invariant.                                                  *)

Serving(h) == at[h] \in {"ready", "write", "sync", "rollback", "syncRollback"}

(* What a host in the middle of an append knows of its record and the file.  *)
Appending(h) ==
    /\ at[h] \in {"write", "sync", "rollback"} =>
           /\ record[h] \in Record \ Oversized
           /\ Valid(memory[h], record[h])
           /\ size[h] = Len(memory[h])
    /\ at[h] = "write" => file = memory[h]
    /\ at[h] = "sync" => file = Append(memory[h], record[h])
    /\ at[h] = "rollback" =>
           file \in {memory[h], Append(memory[h], record[h]), Append(memory[h], Fragment)}
    /\ at[h] = "syncRollback" => file = memory[h]

(* What a host between two calls knows of the file.                          *)
Mirrors(h) ==
    /\ h \in failed => at[h] = "ready"
    /\ at[h] = "ready" /\ h \notin failed => memory[h] = file
    /\ at[h] = "ready" =>
           memory[h] = file \/ \E l \in Line : file = Append(memory[h], l)

(* A projection could be replayed again and has every record of `told':       *)
(* that is why a rollback to it, or a power failure under it, is harmless.   *)
SoundMemory(h) == Serving(h) => Replayable(memory[h]) /\ Keeps(memory[h])

IInv ==
    /\ TypeOK
    /\ \A h \in Host : Appending(h) /\ Mirrors(h) /\ SoundMemory(h)
    /\ AlwaysReopens
    /\ SyncedSurvives

-----------------------------------------------------------------------------
(* Lines and files.                                                          *)

LEMMA LinesDiffer ==
    Fragment \notin Record /\ Garbled \notin Record /\ Fragment # Garbled
    BY RecordAssumption

(* What an append leaves of what was there.                                  *)
LEMMA Appended ==
    ASSUME NEW S, NEW f \in Seq(S), NEW l
    PROVE  /\ Len(Append(f, l)) = Len(f) + 1
           /\ DOMAIN Append(f, l) = 1 .. Len(f) + 1
           /\ DOMAIN f = 1 .. Len(f)
           /\ Len(f) \in Nat
           /\ Append(f, l)[Len(f) + 1] = l
           /\ \A i \in 1 .. Len(f) : Append(f, l)[i] = f[i]
    OBVIOUS

LEMMA PrefixOfAppend ==
    ASSUME NEW S, NEW f \in Seq(S), NEW l \in S, NEW k \in 0 .. Len(f)
    PROVE  SubSeq(Append(f, l), 1, k) = SubSeq(f, 1, k)
    BY SubSeqProperties, Appended

LEMMA WholePrefix ==
    ASSUME NEW S, NEW f \in Seq(S), NEW l \in S
    PROVE  SubSeq(Append(f, l), 1, Len(f)) = f /\ SubSeq(f, 1, Len(f)) = f
    BY PrefixOfAppend, SubSeqFull, Appended

LEMMA FilesOfLines ==
    ASSUME NEW f \in Seq(Line), NEW r \in Record
    PROVE  /\ Written(f, r) \in Seq(Line)
           /\ PartlyWritten(f) \in Seq(Line)
           /\ Repaired(f) \in Seq(Line)
<1>1. Written(f, r) \in Seq(Line)
    <2>1. CASE ~Torn(f)
        BY <2>1 DEF Written, Line
    <2>2. CASE Torn(f)
        <3>1. Len(f) \in DOMAIN f /\ Garbled \in Line
            BY <2>2 DEF Torn, Line
        <3>2. \A g : g = [f EXCEPT ![Len(f)] = Garbled] => g \in Seq(Line)
            BY <3>1
        <3>. QED  BY <2>2, <3>2 DEF Written
    <2>. QED  BY <2>1, <2>2
<1>2. PartlyWritten(f) \in Seq(Line)
    BY DEF PartlyWritten, Line
<1>3. Repaired(f) \in Seq(Line)
    BY SubSeqProperties DEF Repaired, Torn
<1>. QED  BY <1>1, <1>2, <1>3

(* A projection ends in a newline; a torn write behind it is cut off.        *)
LEMMA RepairedRecords ==
    ASSUME NEW f \in Seq(Record)
    PROVE  /\ f \in Seq(Line)
           /\ ~Torn(f) /\ Repaired(f) = f
           /\ PartlyWritten(f) = Append(f, Fragment)
           /\ Repaired(Append(f, Fragment)) = f
           /\ \A r : Written(f, r) = Append(f, r)
<1>1. f \in Seq(Line)
    BY DEF Line
<1>2. ~Torn(f)
    BY LinesDiffer DEF Torn
<1>3. Torn(Append(f, Fragment))
    BY DEF Torn
<1>4. SubSeq(Append(f, Fragment), 1, Len(f)) = f
    BY <1>1, WholePrefix DEF Line
<1>5. Repaired(Append(f, Fragment)) = f
    BY <1>3, <1>4, Appended DEF Repaired
<1>. QED  BY <1>1, <1>2, <1>5 DEF Repaired, PartlyWritten, Written

LEMMA ReplayedAreRecords ==
    ASSUME NEW f \in Seq(Line), Replayable(f)
    PROVE  f \in Seq(Record)
<1>1. Len(f) \in Nat /\ DOMAIN f = 1 .. Len(f) /\ \A i \in 1 .. Len(f) : f[i] \in Record
    BY DEF Replayable
<1>2. f \in [1 .. Len(f) -> Record]
    BY <1>1, f \in [1 .. Len(f) -> Line]
<1>. QED  BY <1>1, <1>2, SeqDef

(* What Open left of a file it does not cut again.                           *)
LEMMA RepairedOnce ==
    ASSUME NEW f \in Seq(Line), Replayable(Repaired(f))
    PROVE  Repaired(Repaired(f)) = Repaired(f)
<1>1. Repaired(f) \in Seq(Line)
    BY SubSeqProperties DEF Repaired, Torn
<1>2. Repaired(f) \in Seq(Record)
    BY <1>1, ReplayedAreRecords
<1>. QED  BY <1>2, RepairedRecords

LEMMA ReplayGoesOn ==
    ASSUME NEW f \in Seq(Record), Replayable(f),
           NEW r \in Record \ Oversized, Valid(f, r)
    PROVE  Replayable(Append(f, r))
<1> DEFINE g == Append(f, r)
<1> SUFFICES ASSUME NEW i \in DOMAIN g
             PROVE  g[i] \in Record \ Oversized /\ Valid(SubSeq(g, 1, i - 1), g[i])
    BY DEF Replayable
<1>1. i \in 1 .. Len(f) + 1 /\ i - 1 \in 0 .. Len(f) /\ SubSeq(g, 1, i - 1) = SubSeq(f, 1, i - 1)
    BY Appended, PrefixOfAppend
<1>2. CASE i \in 1 .. Len(f)
    <2>1. g[i] = f[i] /\ i \in DOMAIN f
        BY <1>2
    <2>. QED  BY <1>1, <2>1 DEF Replayable
<1>3. CASE i = Len(f) + 1
    <2>1. g[i] = r /\ SubSeq(g, 1, i - 1) = f
        BY <1>1, <1>3, WholePrefix, Appended
    <2>. QED  BY <2>1
<1>. QED  BY <1>1, <1>2, <1>3

-----------------------------------------------------------------------------
(* Acknowledged records.                                                     *)

LEMMA KeptByAppend ==
    ASSUME NEW S, NEW f \in Seq(S), NEW l, Keeps(f)
    PROVE  Keeps(Append(f, l))
<1> SUFFICES ASSUME NEW i \in DOMAIN told, NEW j \in DOMAIN told
             PROVE  \E m, n \in DOMAIN Append(f, l) :
                        /\ Append(f, l)[m] = told[i]
                        /\ Append(f, l)[n] = told[j]
                        /\ i < j => m < n
    BY DEF Keeps
<1>1. PICK m \in DOMAIN f, n \in DOMAIN f : f[m] = told[i] /\ f[n] = told[j] /\ (i < j => m < n)
    BY DEF Keeps
<1>. QED  BY <1>1, Appended

(* Only a fragment is cut off, and no fragment was ever acknowledged.        *)
LEMMA KeptByRepair ==
    ASSUME told \in Seq(Record), NEW f \in Seq(Line), Keeps(f)
    PROVE  Keeps(Repaired(f))
<1>1. CASE ~Torn(f)
    BY <1>1 DEF Repaired
<1>2. CASE Torn(f)
    <2> DEFINE g == SubSeq(f, 1, Len(f) - 1)
    <2>1. /\ g = Repaired(f) /\ g \in Seq(Line) /\ Len(f) \in Nat \ {0}
          /\ DOMAIN g = 1 .. Len(f) - 1 /\ f[Len(f)] = Fragment
          /\ \A k \in 1 .. Len(f) - 1 : g[k] = f[k]
        BY <1>2, SubSeqProperties DEF Torn, Repaired
    <2>. HIDE DEF g
    <2> SUFFICES Keeps(g)
        BY <2>1
    <2> SUFFICES ASSUME NEW i \in DOMAIN told, NEW j \in DOMAIN told
                 PROVE  \E m, n \in DOMAIN g : g[m] = told[i] /\ g[n] = told[j] /\ (i < j => m < n)
        BY DEF Keeps
    <2>2. PICK m \in DOMAIN f, n \in DOMAIN f :
              f[m] = told[i] /\ f[n] = told[j] /\ (i < j => m < n)
        BY DEF Keeps
    <2>3. told[i] # Fragment /\ told[j] # Fragment
        BY LinesDiffer
    <2>4. m \in 1 .. Len(f) - 1 /\ n \in 1 .. Len(f) - 1
        BY <2>1, <2>2, <2>3
    <2>. QED  BY <2>1, <2>2, <2>4
<1>. QED  BY <1>1, <1>2

(* A record behind all that was acknowledged may be acknowledged next.       *)
LEMMA KeptByAcknowledging ==
    ASSUME told \in Seq(Record), NEW f \in Seq(Record), NEW r \in Record, Keeps(f),
           told' = Append(told, r)
    PROVE  Keeps(Append(f, r))'
<1> DEFINE g == Append(f, r)
           t == Append(told, r)
<1> SUFFICES ASSUME NEW i \in DOMAIN t, NEW j \in DOMAIN t
             PROVE  \E m, n \in DOMAIN g : g[m] = t[i] /\ g[n] = t[j] /\ (i < j => m < n)
    BY DEF Keeps
<1>1. /\ DOMAIN g = 1 .. Len(f) + 1 /\ g[Len(f) + 1] = r /\ Len(f) \in Nat
      /\ DOMAIN f = 1 .. Len(f) /\ \A k \in 1 .. Len(f) : g[k] = f[k]
    BY Appended
<1>2. /\ i \in 1 .. Len(told) + 1 /\ j \in 1 .. Len(told) + 1 /\ Len(told) \in Nat
      /\ DOMAIN told = 1 .. Len(told) /\ t[Len(told) + 1] = r
      /\ \A k \in 1 .. Len(told) : t[k] = told[k]
    BY Appended
<1>. HIDE DEF g, t
<1>3. \A k \in 1 .. Len(told) : \E m \in 1 .. Len(f) : f[m] = told[k]
    BY <1>1, <1>2 DEF Keeps
<1>4. CASE i \in 1 .. Len(told) /\ j \in 1 .. Len(told)
    <2>1. PICK m \in DOMAIN f, n \in DOMAIN f :
              f[m] = told[i] /\ f[n] = told[j] /\ (i < j => m < n)
        BY <1>2, <1>4 DEF Keeps
    <2>. QED  BY <2>1, <1>1, <1>2, <1>4
<1>5. CASE i \in 1 .. Len(told) /\ j = Len(told) + 1
    <2>1. PICK m \in 1 .. Len(f) : f[m] = told[i]
        BY <1>3, <1>5
    <2>2. g[m] = t[i] /\ g[Len(f) + 1] = t[j] /\ m < Len(f) + 1
        BY <2>1, <1>1, <1>2, <1>5
    <2>3. Len(f) + 1 \in DOMAIN g /\ m \in DOMAIN g
        BY <1>1
    <2>. QED  BY <2>2, <2>3
<1>6. CASE i = Len(told) + 1 /\ j \in 1 .. Len(told)
    <2>1. PICK n \in 1 .. Len(f) : f[n] = told[j]
        BY <1>3, <1>6
    <2>2. g[Len(f) + 1] = t[i] /\ g[n] = t[j] /\ ~(i < j)
        BY <2>1, <1>1, <1>2, <1>6
    <2>3. Len(f) + 1 \in DOMAIN g /\ n \in DOMAIN g
        BY <1>1
    <2>. QED  BY <2>2, <2>3
<1>7. CASE i = Len(told) + 1 /\ j = Len(told) + 1
    <2>1. Len(f) + 1 \in DOMAIN g /\ g[Len(f) + 1] = t[i] /\ g[Len(f) + 1] = t[j] /\ ~(i < j)
        BY <1>1, <1>2, <1>7
    <2>. QED  BY <2>1
<1>. QED  BY <1>2, <1>4, <1>5, <1>6, <1>7

-----------------------------------------------------------------------------
(* What one step does.                                                       *)

(* A file the journal can be opened with, without a loss.                    *)
Sound(f) == Replayable(Repaired(f)) /\ Keeps(f)

HostInv(h) == Appending(h) /\ Mirrors(h) /\ SoundMemory(h)

FileInv == \A f \in survivors \cup {file} : Sound(f)

LEMMA SameInvariant == IInv <=> TypeOK /\ (\A h \in Host : HostInv(h)) /\ FileInv
    BY DEF IInv, HostInv, FileInv, Sound, AlwaysReopens, SyncedSurvives

LEMMA SoundAppends ==
    ASSUME NEW m \in Seq(Record), Replayable(m), Keeps(m)
    PROVE  /\ Sound(m)
           /\ Sound(Append(m, Fragment))
           /\ \A r \in Record \ Oversized :
                  Valid(m, r) => /\ Append(m, r) \in Seq(Record)
                                 /\ Replayable(Append(m, r))
                                 /\ Keeps(Append(m, r))
                                 /\ Sound(Append(m, r))
<1>1. Sound(m) /\ m \in Seq(Line)
    BY RepairedRecords DEF Sound
<1>2. Sound(Append(m, Fragment))
    BY RepairedRecords, <1>1, KeptByAppend DEF Sound
<1>3. ASSUME NEW r \in Record \ Oversized, Valid(m, r)
      PROVE  /\ Append(m, r) \in Seq(Record)
             /\ Replayable(Append(m, r))
             /\ Keeps(Append(m, r))
             /\ Sound(Append(m, r))
    <2>1. Append(m, r) \in Seq(Record)
        OBVIOUS
    <2>2. Replayable(Append(m, r)) /\ Keeps(Append(m, r))
        BY <1>3, ReplayGoesOn, KeptByAppend
    <2>. QED  BY <2>1, <2>2, RepairedRecords DEF Sound
<1>. QED  BY <1>1, <1>2, <1>3

LEMMA Alone ==
    ASSUME TypeOK, NEW h \in Host, NEW g \in Host, g # h, at[h] \notin {"off", "lock"}
    PROVE  at[g] \in {"off", "lock"}
    BY DEF TypeOK

(* The lock keeps a step of one host out of the business of the others.      *)
LEMMA Bystander ==
    ASSUME TypeOK, NEW h \in Host, NEW g \in Host, g # h, HostInv(g),
           at'[g] = at[g], memory'[g] = memory[g], record'[g] = record[g],
           size'[g] = size[g], g \in failed' <=> g \in failed,
           at[h] \notin {"off", "lock"} \/ UNCHANGED <<file, told>>
    PROVE  HostInv(g)'
<1>1. CASE UNCHANGED <<file, told>>
    <2>1. \A f : Keeps(f)' <=> Keeps(f)
        BY <1>1 DEF Keeps
    <2>. QED  BY <1>1, <2>1 DEF HostInv, Appending, Mirrors, SoundMemory, Serving
<1>2. CASE at[h] \notin {"off", "lock"}
    <2>1. at[g] \in {"off", "lock"}
        BY <1>2, Alone
    <2>. QED  BY <2>1 DEF HostInv, Appending, Mirrors, SoundMemory, Serving
<1>. QED  BY <1>1, <1>2

LEMMA FileUntouched ==
    ASSUME FileInv, UNCHANGED <<file, survivors, told>>
    PROVE  FileInv'
    BY DEF FileInv, Sound, Keeps

LEMMA SameFacts ==
    ASSUME told' = told
    PROVE  \A f : (Sound(f)' <=> Sound(f)) /\ (Keeps(f)' <=> Keeps(f))
    BY DEF Sound, Keeps

(* A host that is off or opens the file claims nothing.                      *)
LEMMA NothingClaimed ==
    ASSUME NEW h, at[h] \notin {"ready", "write", "sync", "rollback", "syncRollback"},
           h \notin failed
    PROVE  HostInv(h)
    BY DEF HostInv, Appending, Mirrors, SoundMemory, Serving

LEMMA NotFailedYet ==
    ASSUME NEW h, HostInv(h), at[h] # "ready"
    PROVE  h \notin failed
    BY DEF HostInv, Mirrors

-----------------------------------------------------------------------------
(* The types, and the lock.                                                  *)

LEMMA InitTypeOK == Init => TypeOK
<1>1. <<>> \in Seq(Line) /\ <<>> \in Seq(Record) /\ {<<>>} \subseteq Seq(Line)
    OBVIOUS
<1>2. ASSUME Init PROVE memory \in [Host -> Seq(Record)] /\ at \in [Host -> Places]
    BY <1>1, <1>2 DEF Init, Places
<1>3. ASSUME Init
      PROVE  /\ created \in [Host -> BOOLEAN] /\ record \in [Host -> Record \cup {None}]
             /\ size \in [Host -> Nat] /\ holder \in Host \cup {None}
             /\ \A h \in Host : at[h] \notin {"off", "lock"} => holder = h
             /\ repeated \subseteq Repeatable
    BY <1>3 DEF Init
<1>4. ASSUME Init
      PROVE  /\ file \in Seq(Line) /\ survivors \subseteq Seq(Line) /\ told \in Seq(Record)
             /\ present \in BOOLEAN /\ failed \subseteq Host
    BY <1>1, <1>4 DEF Init
<1>5. ASSUME Init PROVE faults \in 0 .. MaxFaults
    BY <1>5, FaultAssumption DEF Init
<1>. QED  BY <1>2, <1>3, <1>4, <1>5 DEF TypeOK

LEMMA LeaveOffType ==
    ASSUME TypeOK, NEW h \in Host, LeaveOff(h)
    PROVE  /\ at' \in [Host -> Places] /\ created' \in [Host -> BOOLEAN]
           /\ memory' \in [Host -> Seq(Record)] /\ record' \in [Host -> Record \cup {None}]
           /\ size' \in [Host -> Nat] /\ failed' \subseteq Host
           /\ holder' \in Host \cup {None}
           /\ \A g \in Host : at'[g] \notin {"off", "lock"} => holder' = g
<1>1. <<>> \in Seq(Record)
    OBVIOUS
<1>2. /\ at' \in [Host -> Places] /\ created' \in [Host -> BOOLEAN]
      /\ record' \in [Host -> Record \cup {None}] /\ size' \in [Host -> Nat]
      /\ failed' \subseteq Host /\ holder' \in Host \cup {None}
    BY DEF TypeOK, LeaveOff, Goto, Forget, Places
<1>3. memory' \in [Host -> Seq(Record)]
    BY <1>1 DEF TypeOK, LeaveOff, Forget
<1>4. \A g \in Host : at'[g] \notin {"off", "lock"} => holder' = g
    BY DEF TypeOK, LeaveOff, Goto
<1>. QED  BY <1>2, <1>3, <1>4

LEMMA OpenTypes ==
    ASSUME TypeOK, NEW h \in Host, OpenStep(h)
    PROVE  TypeOK'
<1> USE DEF TypeOK, disk, work, Goto, Fault
<1>1. CASE OpenFile(h)
    BY <1>1 DEF OpenFile, Places
<1>2. CASE LockJournal(h)
    <2>1. CASE LockFree(h)
        <3>1. \A g \in Host : at[g] \in {"off", "lock"}
            BY <2>1, HostAssumption DEF LockFree
        <3>. QED  BY <1>2, <2>1, <3>1 DEF LockJournal, Places
    <2>2. CASE LeaveOff(h)
        BY <1>2, <2>2, LeaveOffType DEF LockJournal
    <2>. QED  BY <1>2, <2>1, <2>2 DEF LockJournal
<1>3. CASE SyncName(h)
    BY <1>3 DEF SyncName, Places
<1>4. CASE CutTail(h)
    <2>1. Repaired(file) \in Seq(Line)
        BY SubSeqProperties DEF Repaired, Torn
    <2>2. CASE Repaired(file) = file
        BY <1>4, <2>2 DEF CutTail, Places
    <2>3. CASE Repaired(file) # file
        <3>1. /\ file' = Repaired(file) /\ survivors' = survivors \cup {file'}
              /\ at' = [at EXCEPT ![h] = "syncRepair"] /\ at[h] = "repair"
              /\ UNCHANGED <<present, holder, created, memory, work, failed, told, repeated, faults>>
            BY <1>4, <2>3 DEF CutTail
        <3>. QED  BY <2>1, <3>1 DEF Places
    <2>. QED  BY <2>2, <2>3
<1>5. CASE SyncRepair(h)
    BY <1>5 DEF SyncRepair, Places
<1>6. CASE Replay(h)
    <2>1. CASE Replayable(file)
        <3>1. file \in Seq(Record)
            BY <2>1, ReplayedAreRecords
        <3>2. /\ memory' = [memory EXCEPT ![h] = file] /\ at' = [at EXCEPT ![h] = "ready"]
              /\ UNCHANGED <<disk, holder, created, work, failed, told, repeated, faults>>
              /\ at[h] = "replay"
            BY <1>6, <2>1 DEF Replay
        <3>3. memory' \in [Host -> Seq(Record)] /\ at' \in [Host -> Places]
            BY <3>1, <3>2 DEF Places
        <3>4. \A g \in Host : at'[g] \notin {"off", "lock"} => holder' = g
            BY <3>2
        <3>. QED  BY <3>2, <3>3, <3>4
    <2>2. CASE ~Replayable(file)
        BY <1>6, <2>2, LeaveOffType DEF Replay
    <2>. QED  BY <2>1, <2>2
<1>7. CASE OpenFails(h)
    BY <1>7, LeaveOffType, FaultAssumption DEF OpenFails
<1>. QED  BY <1>1, <1>2, <1>3, <1>4, <1>5, <1>6, <1>7 DEF OpenStep

LEMMA AppendTypes ==
    ASSUME TypeOK, NEW h \in Host, HostInv(h), AppendStep(h)
    PROVE  TypeOK'
<1> USE DEF TypeOK, disk, work, Goto, Fault, Done
<1>1. ASSUME NEW r \in Record, BeginAppend(h, r) PROVE TypeOK'
    <2>1. Len(file) \in Nat
        OBVIOUS
    <2>. QED  BY <1>1, <2>1 DEF BeginAppend, Places
<1>2. CASE Write(h)
    <2>1. record[h] \in Record
        BY <1>2 DEF Write, HostInv, Appending
    <2>2. Written(file, record[h]) \in Seq(Line) /\ PartlyWritten(file) \in Seq(Line)
        BY <2>1, FilesOfLines
    <2>. QED  BY <1>2, <2>2 DEF Write, Places
<1>3. CASE WriteFails(h)
    <2>1. PartlyWritten(file) \in Seq(Line)
        BY DEF PartlyWritten, Line
    <2>. QED  BY <1>3, <2>1, FaultAssumption DEF WriteFails, Places
<1>4. CASE Sync(h)
    <2>1. record[h] \in Record
        BY <1>4 DEF Sync, HostInv, Appending
    <2>. QED  BY <1>4, <2>1 DEF Sync, Synced, Places
<1>5. CASE SyncFails(h)
    BY <1>5, FaultAssumption DEF SyncFails, Places
<1>6. CASE Rollback(h)
    <2>1. size[h] \in 0 .. Len(file)
        BY <1>6, Appended DEF Rollback, HostInv, Appending
    <2>2. SubSeq(file, 1, size[h]) \in Seq(Line)
        BY <2>1, SubSeqProperties
    <2>. QED  BY <1>6, <2>2 DEF Rollback, Places
<1>7. CASE SyncRollback(h)
    BY <1>7 DEF SyncRollback, Places
<1>8. CASE RollbackFails(h)
    BY <1>8, FaultAssumption DEF RollbackFails, Latched, Places
<1>9. ASSUME NEW r \in Record, Repeat(h, r) PROVE TypeOK'
    <2>1. repeated' \subseteq Repeatable /\ (faults \in 0 .. MaxFaults)'
        BY <1>9 DEF Repeat
    <2>2. UNCHANGED <<present, file, survivors, holder, at, created, memory, record, size,
                      failed, told>>
        BY <1>9 DEF Repeat
    <2>. QED  BY <2>1, <2>2
<1>. QED  BY <1>1, <1>2, <1>3, <1>4, <1>5, <1>6, <1>7, <1>8, <1>9 DEF AppendStep

LEMMA NextTypes ==
    ASSUME TypeOK, \A h \in Host : HostInv(h), [Next]_vars
    PROVE  TypeOK'
<1>1. ASSUME NEW h \in Host, Close(h) PROVE TypeOK'
    BY <1>1, LeaveOffType DEF Close, TypeOK, disk
<1>2. ASSUME NEW h \in Host, Kill(h) PROVE TypeOK'
    <2>1. LeaveOff(h) /\ UNCHANGED <<present, file, survivors, told, repeated>>
        BY <1>2 DEF Kill, disk
    <2>2. faults' \in 0 .. MaxFaults
        BY <1>2, FaultAssumption DEF Kill, Fault, TypeOK
    <2>3. /\ at' \in [Host -> Places] /\ created' \in [Host -> BOOLEAN]
          /\ memory' \in [Host -> Seq(Record)] /\ record' \in [Host -> Record \cup {None}]
          /\ size' \in [Host -> Nat] /\ failed' \subseteq Host
          /\ holder' \in Host \cup {None}
          /\ \A g \in Host : at'[g] \notin {"off", "lock"} => holder' = g
        BY <2>1, LeaveOffType
    <2>. QED  BY <2>1, <2>2, <2>3 DEF TypeOK
<1>3. CASE PowerFailure
    BY <1>3, EmptySeq, FaultAssumption DEF PowerFailure, TypeOK, Fault, Places
<1>4. CASE UNCHANGED vars
    BY <1>4 DEF vars, disk, work, TypeOK
<1>. QED  BY <1>1, <1>2, <1>3, <1>4, OpenTypes, AppendTypes DEF Next

-----------------------------------------------------------------------------
(* Every step preserves the invariant.                                       *)

LEMMA OthersSpared ==
    ASSUME TypeOK, NEW h \in Host, NEW g \in Host, g # h,
           OpenStep(h) \/ AppendStep(h) \/ Close(h) \/ Kill(h)
    PROVE  /\ at'[g] = at[g] /\ memory'[g] = memory[g] /\ record'[g] = record[g]
           /\ size'[g] = size[g] /\ (g \in failed' <=> g \in failed)
           /\ at[h] \notin {"off", "lock"} \/ UNCHANGED <<file, told>>
<1> DEFINE Spared ==
        /\ at'[g] = at[g] /\ memory'[g] = memory[g] /\ record'[g] = record[g]
        /\ size'[g] = size[g] /\ (g \in failed' <=> g \in failed)
        /\ at[h] \notin {"off", "lock"} \/ UNCHANGED <<file, told>>
<1> SUFFICES Spared
    OBVIOUS
<1> USE DEF disk, work, Goto, LeaveOff, Forget, Done
<1>1. CASE OpenFile(h) \/ LockJournal(h) \/ SyncName(h) \/ SyncRepair(h)
    BY <1>1 DEF OpenFile, LockJournal, SyncName, SyncRepair, TypeOK
<1>2. CASE CutTail(h)
    BY <1>2 DEF CutTail, TypeOK
<1>3. CASE Replay(h)
    BY <1>3 DEF Replay, TypeOK
<1>4. CASE OpenFails(h) \/ Close(h) \/ Kill(h)
    BY <1>4 DEF OpenFails, Close, Kill, TypeOK
<1>5. ASSUME NEW r \in Record, BeginAppend(h, r) PROVE Spared
    BY <1>5 DEF BeginAppend, TypeOK
<1>6. CASE Write(h) \/ WriteFails(h)
    BY <1>6 DEF Write, WriteFails, TypeOK
<1>7. CASE Sync(h) \/ SyncFails(h)
    BY <1>7 DEF Sync, SyncFails, TypeOK
<1>8. CASE Rollback(h) \/ SyncRollback(h) \/ RollbackFails(h)
    BY <1>8 DEF Rollback, SyncRollback, RollbackFails, Latched, TypeOK
<1>9. ASSUME NEW r \in Record, Repeat(h, r) PROVE Spared
    BY <1>9 DEF Repeat
<1>. QED
    <2>. HIDE DEF Spared
    <2>. QED  BY <1>1, <1>2, <1>3, <1>4, <1>5, <1>6, <1>7, <1>8, <1>9 DEF OpenStep, AppendStep

LEMMA OthersGoOn ==
    ASSUME TypeOK, NEW h \in Host, NEW g \in Host, g # h, HostInv(g),
           OpenStep(h) \/ AppendStep(h) \/ Close(h) \/ Kill(h)
    PROVE  HostInv(g)'
    BY OthersSpared, Bystander

(* Opening: what is cut off is the fragment, what is replayed is the file.   *)
LEMMA OpenSteps ==
    ASSUME TypeOK, FileInv, NEW h \in Host, HostInv(h), OpenStep(h) \/ Close(h) \/ Kill(h)
    PROVE  HostInv(h)' /\ FileInv'
<1> USE DEF disk, work, Goto
<1>1. ASSUME LeaveOff(h), UNCHANGED <<disk, told>> PROVE HostInv(h)' /\ FileInv'
    <2>1. at'[h] = "off" /\ h \notin failed'
        BY <1>1 DEF LeaveOff, Forget, TypeOK
    <2>2. HostInv(h)'
        BY <2>1, NothingClaimed DEF HostInv, Appending, Mirrors, SoundMemory, Serving
    <2>. QED  BY <1>1, <2>2, FileUntouched
<1>2. ASSUME at'[h] \in {"lock", "syncName", "repair", "syncRepair", "replay"},
             at[h] # "ready", failed' = failed
      PROVE  HostInv(h)'
    BY <1>2, NotFailedYet DEF HostInv, Appending, Mirrors, SoundMemory, Serving
<1>3. CASE OpenFile(h)
    <2>1. HostInv(h)'
        BY <1>2, <1>3 DEF OpenFile, TypeOK
    <2>. QED  BY <1>3, <2>1, FileUntouched DEF OpenFile
<1>4. CASE LockJournal(h) /\ ~LeaveOff(h)
    <2>1. HostInv(h)'
        BY <1>2, <1>4 DEF LockJournal, TypeOK
    <2>. QED  BY <1>4, <2>1, FileUntouched DEF LockJournal
<1>5. CASE SyncName(h)
    <2>1. HostInv(h)'
        BY <1>2, <1>5 DEF SyncName, TypeOK
    <2>. QED  BY <1>5, <2>1, FileUntouched DEF SyncName
<1>6. CASE CutTail(h)
    <2>1. HostInv(h)'
        BY <1>2, <1>6 DEF CutTail, TypeOK
    <2>2. CASE Repaired(file) = file
        BY <1>6, <2>1, <2>2, FileUntouched DEF CutTail
    <2>3. CASE Repaired(file) # file
        <3>1. /\ file' = Repaired(file) /\ survivors' = survivors \cup {Repaired(file)}
              /\ told' = told
            BY <1>6, <2>3 DEF CutTail
        <3>2. Sound(file) /\ file \in Seq(Line) /\ told \in Seq(Record)
            BY DEF FileInv, TypeOK
        <3>3. Sound(Repaired(file))
            BY <3>2, RepairedOnce, KeptByRepair DEF Sound
        <3>4. FileInv'
            BY <3>1, <3>3, SameFacts DEF FileInv
        <3>. QED  BY <2>1, <3>4
    <2>. QED  BY <2>2, <2>3
<1>7. CASE SyncRepair(h)
    <2>1. HostInv(h)'
        BY <1>2, <1>7 DEF SyncRepair, TypeOK
    <2>2. FileInv'
        BY <1>7, SameFacts DEF SyncRepair, FileInv
    <2>. QED  BY <2>1, <2>2
<1>8. CASE Replay(h) /\ ~LeaveOff(h)
    <2>1. /\ memory'[h] = file /\ at'[h] = "ready" /\ Replayable(file)
          /\ UNCHANGED <<file, survivors, told, failed>> /\ at[h] = "replay"
        BY <1>8 DEF Replay, TypeOK
    <2>2. h \notin failed'
        BY <2>1, NotFailedYet
    <2>3. Keeps(file)'
        BY <2>1, SameFacts DEF FileInv, Sound
    <2>4. HostInv(h)'
        BY <2>1, <2>2, <2>3 DEF HostInv, Appending, Mirrors, SoundMemory, Serving
    <2>. QED  BY <2>1, <2>4, FileUntouched
<1>9. CASE OpenFails(h) \/ Close(h) \/ Kill(h)
    BY <1>1, <1>9 DEF OpenFails, Close, Kill
<1>10. CASE LeaveOff(h) /\ (LockJournal(h) \/ Replay(h))
    BY <1>1, <1>10 DEF LockJournal, Replay
<1>. QED  BY <1>3, <1>4, <1>5, <1>6, <1>7, <1>8, <1>9, <1>10 DEF OpenStep

(* Appending: the line goes behind what the projection was built from, and a *)
(* rollback gives the file back what the projection has.                     *)
LEMMA AppendSteps ==
    ASSUME TypeOK, FileInv, NEW h \in Host, HostInv(h), AppendStep(h)
    PROVE  HostInv(h)' /\ FileInv'
<1> USE DEF disk, work, Goto, Done
<1> DEFINE m == memory[h]
           r == record[h]
<1>0. m \in Seq(Record) /\ (Serving(h) => Replayable(m) /\ Keeps(m))
    BY DEF TypeOK, HostInv, SoundMemory
<1>1. Serving(h) =>
          /\ m \in Seq(Line) /\ Repaired(m) = m
          /\ PartlyWritten(m) = Append(m, Fragment) /\ Written(m, r) = Append(m, r)
          /\ Sound(m) /\ Sound(Append(m, Fragment))
    BY <1>0, RepairedRecords, SoundAppends
<1>2. at[h] \in {"write", "sync", "rollback"} =>
          /\ r \in Record \ Oversized /\ Valid(m, r) /\ size[h] = Len(m) /\ Serving(h)
          /\ Append(m, r) \in Seq(Record) /\ Replayable(Append(m, r))
          /\ Keeps(Append(m, r)) /\ Sound(Append(m, r))
    BY <1>0, SoundAppends DEF HostInv, Appending, Serving
<1>3. at[h] # "ready" => h \notin failed
    BY NotFailedYet
<1>4. ASSUME told' = told, memory'[h] = m, Serving(h) PROVE SoundMemory(h)'
    BY <1>0, <1>4, SameFacts DEF SoundMemory
<1>5. ASSUME NEW q \in Record, BeginAppend(h, q) PROVE HostInv(h)' /\ FileInv'
    <2>1. /\ at[h] = "ready" /\ at'[h] = "write" /\ record'[h] = q /\ size'[h] = Len(file)
          /\ file = m /\ memory'[h] = m /\ Valid(m, q) /\ q \notin Oversized
          /\ UNCHANGED <<file, survivors, told, memory, failed>> /\ h \notin failed
        BY <1>5 DEF BeginAppend, Fits, TypeOK, HostInv, Mirrors
    <2>2. SoundMemory(h)'
        BY <1>4, <2>1 DEF Serving
    <2>. QED  BY <2>1, <2>2, FileUntouched DEF HostInv, Appending, Mirrors
<1>6. CASE Write(h)
    <2>1. /\ at[h] = "write" /\ at'[h] = "sync" /\ file = m
          /\ file' = Append(m, r) /\ survivors' = survivors \cup {Append(m, Fragment), file'}
          /\ UNCHANGED <<memory, record, size, failed, told>>
        BY <1>1, <1>2, <1>6 DEF Write, TypeOK, HostInv, Appending
    <2>2. FileInv'
        BY <1>1, <1>2, <2>1, SameFacts DEF FileInv
    <2>3. SoundMemory(h)'
        BY <1>2, <1>4, <2>1
    <2>. QED  BY <1>2, <1>3, <2>1, <2>2, <2>3 DEF HostInv, Appending, Mirrors
<1>7. CASE WriteFails(h)
    <2>1. /\ at[h] = "write" /\ at'[h] = "rollback" /\ file = m
          /\ file' \in {m, Append(m, Fragment)} /\ survivors' = survivors \cup {file'}
          /\ UNCHANGED <<memory, record, size, failed, told>>
        BY <1>1, <1>2, <1>7 DEF WriteFails, TypeOK, HostInv, Appending
    <2>2. FileInv'
        BY <1>1, <1>2, <2>1, SameFacts DEF FileInv
    <2>3. SoundMemory(h)'
        BY <1>2, <1>4, <2>1
    <2>. QED  BY <1>2, <1>3, <2>1, <2>2, <2>3 DEF HostInv, Appending, Mirrors
<1>8. CASE Sync(h)
    <2>1. /\ at[h] = "sync" /\ at'[h] = "ready" /\ file = Append(m, r) /\ file' = file
          /\ survivors' = {file} /\ memory'[h] = Append(m, r) /\ told' = Append(told, r)
          /\ failed' = failed
        BY <1>8 DEF Sync, Synced, TypeOK, HostInv, Appending
    <2>2. \A f : f = Append(m, r) => Keeps(f)'
        <3> SUFFICES ASSUME NEW f, f = Append(m, r) PROVE Keeps(f)'
            OBVIOUS
        <3>1. told \in Seq(Record) /\ m \in Seq(Record) /\ r \in Record /\ Keeps(m)
            BY <1>0, <1>2, <2>1 DEF TypeOK
        <3>. QED  BY <3>1, <2>1, KeptByAcknowledging
    <2>3. Repaired(Append(m, r)) = Append(m, r)
        BY <1>2, <2>1, RepairedRecords
    <2>4. FileInv'
        BY <1>2, <2>1, <2>2, <2>3 DEF FileInv, Sound
    <2>5. SoundMemory(h)'
        BY <1>2, <2>1, <2>2 DEF SoundMemory
    <2>. QED  BY <1>3, <2>1, <2>4, <2>5 DEF HostInv, Appending, Mirrors
<1>9. CASE SyncFails(h)
    <2>1. /\ at[h] = "sync" /\ at'[h] = "rollback" /\ file = Append(m, r)
          /\ UNCHANGED <<file, survivors, memory, record, size, failed, told>>
        BY <1>9 DEF SyncFails, TypeOK, HostInv, Appending
    <2>2. SoundMemory(h)'
        BY <1>2, <1>4, <2>1
    <2>. QED  BY <1>2, <1>3, <2>1, <2>2, FileUntouched DEF HostInv, Appending, Mirrors
<1>10. CASE Rollback(h)
    <2>1. at[h] = "rollback" /\ file \in {m, Append(m, r), Append(m, Fragment)}
        BY <1>10 DEF Rollback, HostInv, Appending
    <2>2. SubSeq(file, 1, Len(m)) = m
        <3>1. m \in Seq(Line) /\ r \in Line /\ Fragment \in Line
            BY <1>1, <1>2, <2>1 DEF Line
        <3>. QED  BY <2>1, <3>1, WholePrefix
    <2>3. /\ at'[h] = "syncRollback" /\ file' = m /\ survivors' = survivors \cup {m}
          /\ UNCHANGED <<memory, record, size, failed, told>>
        BY <1>2, <1>10, <2>1, <2>2 DEF Rollback, TypeOK
    <2>4. FileInv'
        BY <1>1, <1>2, <2>1, <2>3, SameFacts DEF FileInv
    <2>5. SoundMemory(h)'
        BY <1>2, <1>4, <2>1, <2>3
    <2>. QED  BY <1>3, <2>1, <2>3, <2>4, <2>5 DEF HostInv, Appending, Mirrors
<1>11. CASE SyncRollback(h)
    <2>1. /\ at[h] = "syncRollback" /\ at'[h] = "ready" /\ file = m
          /\ survivors' = {m} /\ UNCHANGED <<file, memory, failed, told>>
        BY <1>11 DEF SyncRollback, TypeOK, HostInv, Appending
    <2>2. Serving(h)
        BY <2>1 DEF Serving
    <2>3. FileInv'
        BY <1>1, <2>1, <2>2, SameFacts DEF FileInv
    <2>4. SoundMemory(h)'
        BY <1>4, <2>1, <2>2
    <2>. QED  BY <1>3, <2>1, <2>3, <2>4 DEF HostInv, Appending, Mirrors
<1>12. CASE RollbackFails(h)
    <2>1. /\ at[h] \in {"rollback", "syncRollback"} /\ at'[h] = "ready"
          /\ UNCHANGED <<file, survivors, memory, told>>
          /\ file \in {m, Append(m, r), Append(m, Fragment)} /\ h \in failed'
        BY <1>12 DEF RollbackFails, Latched, TypeOK, HostInv, Appending
    <2>2. Serving(h)
        BY <2>1 DEF Serving
    <2>3. SoundMemory(h)'
        BY <1>4, <2>1, <2>2
    <2>4. m = file \/ \E l \in Line : file = Append(m, l)
        BY <1>2, <2>1, <1>12 DEF Line, HostInv, Appending
    <2>. QED  BY <2>1, <2>3, <2>4, FileUntouched DEF HostInv, Appending, Mirrors
<1>13. ASSUME NEW q \in Record, Repeat(h, q) PROVE HostInv(h)' /\ FileInv'
    <2>1. /\ at[h] = "ready"
          /\ UNCHANGED <<file, survivors, at, memory, record, size, failed, told>>
        BY <1>13 DEF Repeat
    <2>2. SoundMemory(h)'
        BY <1>4, <2>1 DEF Serving
    <2>. QED  BY <2>1, <2>2, FileUntouched DEF HostInv, Appending, Mirrors
<1>. QED
    BY <1>5, <1>6, <1>7, <1>8, <1>9, <1>10, <1>11, <1>12, <1>13 DEF AppendStep

LEMMA InitInv == Init => IInv
<1> SUFFICES ASSUME Init PROVE IInv
    OBVIOUS
<1>1. TypeOK
    BY InitTypeOK
<1>2. \A h \in Host : HostInv(h)
    BY NothingClaimed DEF Init
<1>3. FileInv
    BY DEF Init, FileInv, Sound, Keeps, Replayable, Repaired, Torn
<1>. QED  BY <1>1, <1>2, <1>3, SameInvariant

LEMMA Inductive == IInv /\ [Next]_vars => IInv'
<1> SUFFICES ASSUME IInv, [Next]_vars PROVE IInv'
    OBVIOUS
<1>1. TypeOK /\ FileInv /\ \A h \in Host : HostInv(h)
    BY SameInvariant
<1>2. TypeOK'
    BY <1>1, NextTypes
<1>3. (\A h \in Host : HostInv(h)') /\ FileInv'
    <2>1. ASSUME NEW h \in Host, OpenStep(h) \/ AppendStep(h) \/ Close(h) \/ Kill(h)
          PROVE  (\A g \in Host : HostInv(g)') /\ FileInv'
        BY <1>1, <2>1, OthersGoOn, OpenSteps, AppendSteps
    <2>2. CASE PowerFailure
        <3>1. /\ file' \in survivors /\ survivors' = {file'} /\ told' = told
              /\ failed' = {} /\ at' = [h \in Host |-> "off"]
            BY <2>2 DEF PowerFailure
        <3>2. FileInv'
            BY <1>1, <3>1, SameFacts DEF FileInv
        <3>3. \A h \in Host : HostInv(h)'
            BY <3>1 DEF HostInv, Appending, Mirrors, SoundMemory, Serving
        <3>. QED  BY <3>2, <3>3
    <2>3. CASE UNCHANGED vars
        <3>1. FileInv'
            BY <1>1, <2>3, FileUntouched DEF vars, disk
        <3>2. \A h \in Host : HostInv(h)'
            BY <1>1, <2>3, SameFacts
               DEF vars, disk, work, HostInv, Appending, Mirrors, SoundMemory, Serving
        <3>. QED  BY <3>1, <3>2
    <2>. QED  BY <2>1, <2>2, <2>3 DEF Next
<1>. QED  BY <1>2, <1>3 DEF IInv, HostInv, FileInv, Sound, AlwaysReopens, SyncedSurvives

-----------------------------------------------------------------------------
(* Repetitions: what was acknowledged from a projection is in the file, and  *)
(* in the projection of whoever works on it.                                 *)

Standing ==
    /\ repeated \subseteq Held(file)
    /\ \A h \in Host : Serving(h) => repeated \subseteq Held(memory[h])

LEMMA StandingStands == Standing => RepetitionStands
    BY DEF Standing, RepetitionStands, Serving

(* An append adds a line and keeps the others.                               *)
LEMMA HeldAppended ==
    ASSUME NEW S, NEW f \in Seq(S), NEW l
    PROVE  Held(f) \subseteq Held(Append(f, l))
<1> SUFFICES ASSUME NEW i \in DOMAIN f PROVE f[i] \in Held(Append(f, l))
    BY DEF Held
<1>1. i \in DOMAIN Append(f, l) /\ Append(f, l)[i] = f[i]
    BY Appended
<1>. QED  BY <1>1 DEF Held

(* Only a fragment is cut off, and none was ever acknowledged.               *)
LEMMA RepairKeepsRepetitions ==
    ASSUME NEW f \in Seq(Line), repeated \subseteq Repeatable, repeated \subseteq Held(f)
    PROVE  repeated \subseteq Held(Repaired(f))
<1>1. CASE ~Torn(f)
    BY <1>1 DEF Repaired
<1>2. CASE Torn(f)
    <2> DEFINE g == SubSeq(f, 1, Len(f) - 1)
    <2>1. /\ g = Repaired(f) /\ Len(f) \in Nat \ {0}
          /\ DOMAIN g = 1 .. Len(f) - 1 /\ f[Len(f)] = Fragment
          /\ \A k \in 1 .. Len(f) - 1 : g[k] = f[k]
        BY <1>2, SubSeqProperties DEF Torn, Repaired
    <2>. HIDE DEF g
    <2> SUFFICES ASSUME NEW x \in repeated PROVE x \in Held(g)
        BY <2>1
    <2>2. PICK k \in DOMAIN f : f[k] = x
        BY DEF Held
    <2>3. x # Fragment
        BY RecordAssumption
    <2>4. k \in 1 .. Len(f) - 1
        BY <2>1, <2>2, <2>3
    <2>. QED  BY <2>1, <2>2, <2>4 DEF Held
<1>. QED  BY <1>1, <1>2

LEMMA StandsOn ==
    ASSUME IInv, Standing, [Next]_vars
    PROVE  Standing'
<1> USE DEF disk, work, Goto, Done
<1>1. TypeOK /\ \A h \in Host : HostInv(h)
    BY SameInvariant
<1>2. ASSUME NEW h \in Host, OpenStep(h) \/ AppendStep(h) \/ Close(h) \/ Kill(h),
             repeated' = repeated, repeated \subseteq Held(file'),
             Serving(h)' => repeated \subseteq Held(memory'[h])
      PROVE  Standing'
    <2>1. ASSUME NEW g \in Host, g # h, Serving(g)' PROVE repeated \subseteq Held(memory'[g])
        <3>1. Serving(g) /\ memory'[g] = memory[g]
            BY <1>1, <1>2, <2>1, OthersSpared DEF Serving
        <3>. QED  BY <3>1 DEF Standing
    <2>. QED  BY <1>2, <2>1 DEF Standing
<1>3. ASSUME NEW h \in Host, OpenStep(h) \/ Close(h) \/ Kill(h) PROVE Standing'
    <2>1. repeated' = repeated
        BY <1>3 DEF OpenStep, OpenFile, LockJournal, SyncName, CutTail, SyncRepair, Replay,
                    OpenFails, Close, Kill
    <2>2. repeated \subseteq Held(file')
        <3>1. CASE file' = file
            BY <3>1 DEF Standing
        <3>2. CASE file' = Repaired(file)
            BY <1>1, <3>2, RepairKeepsRepetitions DEF Standing, TypeOK
        <3>. QED  BY <1>3, <3>1, <3>2
                  DEF OpenStep, OpenFile, LockJournal, SyncName, CutTail, SyncRepair, Replay,
                      OpenFails, Close, Kill
    <2>3. Serving(h)' => memory'[h] = file
        BY <1>1, <1>3
           DEF OpenStep, OpenFile, LockJournal, SyncName, CutTail, SyncRepair, Replay,
               OpenFails, Close, Kill, LeaveOff, Serving, TypeOK
    <2>. QED  BY <1>2, <1>3, <2>1, <2>2, <2>3 DEF Standing
<1>4. ASSUME NEW h \in Host, AppendStep(h) PROVE Standing'
    <2> DEFINE m == memory[h]
               r == record[h]
    <2>1. /\ Serving(h) /\ m \in Seq(Record) /\ repeated \subseteq Held(m)
          /\ Appending(h) /\ Mirrors(h)
        BY <1>1, <1>4
           DEF AppendStep, BeginAppend, Repeat, Write, WriteFails, Sync, SyncFails, Rollback,
               SyncRollback, RollbackFails, Standing, Serving, TypeOK, HostInv
    <2>2. \A l : repeated \subseteq Held(Append(m, l))
        BY <2>1, HeldAppended
    <2>3. ASSUME repeated' = repeated, memory'[h] = m,
                 file' = file \/ file' = m \/ \E l : file' = Append(m, l)
          PROVE  Standing'
        BY <1>2, <1>4, <2>1, <2>2, <2>3 DEF Standing
    <2>4. ASSUME NEW q \in Record, BeginAppend(h, q) PROVE Standing'
        BY <2>3, <2>4 DEF BeginAppend
    <2>5. ASSUME NEW q \in Record, Repeat(h, q) PROVE Standing'
        <3>1. /\ q \in Held(m) /\ m = file /\ repeated' = repeated \cup {q}
              /\ UNCHANGED <<file, memory, at>>
            BY <1>1, <2>1, <2>5 DEF Repeat, Mirrors
        <3>2. ASSUME NEW g \in Host, Serving(g)' PROVE g = h
            BY <1>1, <2>1, <3>1, <3>2, Alone DEF Serving
        <3>. QED  BY <2>1, <3>1, <3>2 DEF Standing
    <2>6. CASE Write(h)
        <3>1. file = m /\ m \in Seq(Record)
            BY <2>1, <2>6 DEF Write, Appending
        <3>2. file' = Append(m, r)
            BY <2>6, <3>1, RepairedRecords DEF Write
        <3>. QED  BY <2>3, <2>6, <3>2 DEF Write
    <2>7. CASE WriteFails(h)
        <3>1. file = m
            BY <2>1, <2>7 DEF WriteFails, Appending
        <3>2. file' = m \/ file' = Append(m, Fragment)
            BY <2>1, <2>7, <3>1, RepairedRecords DEF WriteFails
        <3>. QED  BY <2>3, <2>7, <3>2 DEF WriteFails
    <2>8. CASE Sync(h)
        <3>1. memory'[h] = Append(m, r) /\ file' = file /\ repeated' = repeated
            BY <1>1, <2>8 DEF Sync, TypeOK
        <3>. QED  BY <1>2, <1>4, <2>2, <3>1 DEF Standing
    <2>9. CASE SyncFails(h) \/ SyncRollback(h) \/ RollbackFails(h)
        BY <2>3, <2>9 DEF SyncFails, SyncRollback, RollbackFails
    <2>10. CASE Rollback(h)
        <3>1. size[h] = Len(m) /\ file \in {m, Append(m, r), Append(m, Fragment)} /\ r \in Record
            BY <2>1, <2>10 DEF Rollback, Appending
        <3>2. SubSeq(file, 1, Len(m)) = m
            <4>1. m \in Seq(Line) /\ r \in Line /\ Fragment \in Line
                BY <2>1, <3>1, RepairedRecords DEF Line
            <4>. QED  BY <3>1, <4>1, WholePrefix
        <3>. QED  BY <2>3, <2>10, <3>1, <3>2 DEF Rollback
    <2>. QED
        BY <1>4, <2>4, <2>5, <2>6, <2>7, <2>8, <2>9, <2>10 DEF AppendStep
<1>5. CASE PowerFailure
    BY <1>5 DEF PowerFailure, Standing
<1>6. CASE UNCHANGED vars
    BY <1>6 DEF vars, Standing, Serving
<1>. QED  BY <1>3, <1>4, <1>5, <1>6 DEF Next

(* Repetitions are acknowledged one by one and forgotten together; the rest  *)
(* of the log is not touched by either.                                      *)
LEMMA RepetitionCases ==
    ASSUME TypeOK, [Next]_vars
    PROVE  \/ repeated' = repeated
           \/ /\ \E r \in Record : repeated' = repeated \cup {r}
              /\ UNCHANGED <<survivors, told>>
           \/ repeated' = {} /\ told' = told
<1> USE DEF disk, work
<1>1. ASSUME NEW h \in Host, OpenStep(h) \/ Close(h) \/ Kill(h) PROVE repeated' = repeated
    BY <1>1 DEF OpenStep, OpenFile, LockJournal, SyncName, CutTail, SyncRepair, Replay,
                OpenFails, Close, Kill
<1>2. ASSUME NEW h \in Host, AppendStep(h)
      PROVE  \/ repeated' = repeated
             \/ /\ \E r \in Record : repeated' = repeated \cup {r}
                /\ UNCHANGED <<survivors, told>>
    BY <1>2 DEF AppendStep, BeginAppend, Repeat, Write, WriteFails, Sync, SyncFails,
                Rollback, SyncRollback, RollbackFails
<1>3. CASE PowerFailure
    BY <1>3 DEF PowerFailure
<1>4. CASE UNCHANGED vars
    BY <1>4 DEF vars
<1>. QED  BY <1>1, <1>2, <1>3, <1>4 DEF Next

-----------------------------------------------------------------------------
(* The facts no failure takes back.                                          *)

Prefix(b, f) == Len(b) <= Len(f) /\ \A i \in 1 .. Len(b) : f[i] = b[i]

(* What was synced last, repaired: every content the disk may hold and every *)
(* projection goes on from it.                                               *)
Base(b) ==
    /\ b \in Seq(Record)
    /\ \E s \in survivors : b = Repaired(s)
    /\ \A f \in survivors \cup {file} : Prefix(b, Repaired(f))
    /\ \A h \in Host : Serving(h) => Prefix(b, memory[h])

LEMMA PrefixSelf ==
    ASSUME NEW S, NEW f \in Seq(S)
    PROVE  Prefix(f, f)
    BY DEF Prefix

LEMMA PrefixGoesOn ==
    ASSUME NEW S, NEW b \in Seq(S), NEW f \in Seq(S), NEW l, Prefix(b, f)
    PROVE  Prefix(b, Append(f, l))
    BY Appended DEF Prefix

LEMMA PrefixAntisymmetric ==
    ASSUME NEW S, NEW b \in Seq(S), NEW f \in Seq(S), Prefix(b, f), Len(f) <= Len(b)
    PROVE  f = b
    BY DEF Prefix

LEMMA PrefixIsSubSeq ==
    ASSUME NEW S, NEW b \in Seq(S), NEW f \in Seq(S), Prefix(b, f)
    PROVE  b = SubSeq(f, 1, Len(b))
<1>1. /\ Len(b) \in Nat /\ Len(f) \in Nat /\ Len(b) <= Len(f)
      /\ \A i \in 1 .. Len(b) : f[i] = b[i]
    BY DEF Prefix
<1>2. /\ SubSeq(f, 1, Len(b)) \in Seq(S) /\ Len(SubSeq(f, 1, Len(b))) = Len(b)
      /\ \A i \in 1 .. Len(b) : SubSeq(f, 1, Len(b))[i] = b[i]
    BY <1>1, SubSeqProperties
<1>. QED  BY <1>1, <1>2

LEMMA RepairedToRecords ==
    ASSUME NEW f \in Seq(Line), Replayable(Repaired(f))
    PROVE  Repaired(f) \in Seq(Record)
<1>1. Repaired(f) \in Seq(Line)
    BY SubSeqProperties DEF Repaired, Torn
<1>. QED  BY <1>1, ReplayedAreRecords

LEMMA SurvivorsAreRecords ==
    ASSUME TypeOK, FileInv, NEW f \in survivors \cup {file}
    PROVE  Repaired(f) \in Seq(Record)
    BY RepairedToRecords DEF TypeOK, FileInv, Sound

LEMMA LeastIsBase ==
    ASSUME NEW S, NEW b, NEW s \in S, b = Repaired(s),
           \A g \in S : Repaired(g) \in Seq(Record) /\ Prefix(b, Repaired(g))
    PROVE  b = Repaired(CHOOSE f \in S : \A g \in S : Len(Repaired(f)) <= Len(Repaired(g)))
<1> DEFINE Least(f) == \A g \in S : Len(Repaired(f)) <= Len(Repaired(g))
           f == CHOOSE f \in S : Least(f)
<1>1. Least(s)
    BY DEF Prefix
<1>2. f \in S /\ Least(f)
    BY <1>1
<1>. HIDE DEF f
<1>3. Len(Repaired(f)) <= Len(b)
    BY <1>2
<1>4. Repaired(f) = b
    BY <1>2, <1>3, PrefixAntisymmetric
<1>. QED  BY <1>4 DEF f

(* What can be replayed was recorded in its turn.                            *)
LEMMA ReplayedInTurn ==
    ASSUME NEW b \in Seq(Record), Replayable(b)
    PROVE  Durable!InTurn(b)
<1> SUFFICES ASSUME NEW i \in DOMAIN b
             PROVE  /\ b[i] \in Record
                    /\ \A j \in DOMAIN b : b[j] = b[i] => i = j
                    /\ Needs[b[i]] \subseteq {b[j] : j \in 1 .. i - 1}
    BY DEF Durable!InTurn
<1>1. \A k \in DOMAIN b : Held(SubSeq(b, 1, k - 1)) = {b[j] : j \in 1 .. k - 1}
    <2> SUFFICES ASSUME NEW k \in DOMAIN b
                 PROVE  Held(SubSeq(b, 1, k - 1)) = {b[j] : j \in 1 .. k - 1}
        OBVIOUS
    <2> DEFINE p == SubSeq(b, 1, k - 1)
    <2>1. k \in 1 .. Len(b) /\ Len(b) \in Nat
        OBVIOUS
    <2>2. p \in Seq(Record) /\ Len(p) = k - 1 /\ \A j \in 1 .. k - 1 : p[j] = b[j]
        BY <2>1, SubSeqProperties
    <2>3. DOMAIN p = 1 .. k - 1
        BY <2>2
    <2>. QED  BY <2>2, <2>3 DEF Held
<1>2. \A k \in DOMAIN b :
          /\ b[k] \in Record /\ b[k] \notin {b[j] : j \in 1 .. k - 1}
          /\ Needs[b[k]] \subseteq {b[j] : j \in 1 .. k - 1}
    BY <1>1 DEF Replayable, Valid
<1>3. ASSUME NEW j \in DOMAIN b, b[j] = b[i] PROVE i = j
    BY <1>2, <1>3
<1>. QED  BY <1>2, <1>3

LEMMA InitBase == Init => Base(<<>>)
<1> SUFFICES ASSUME Init PROVE Base(<<>>)
    OBVIOUS
<1>1. <<>> \in Seq(Record) /\ Repaired(<<>>) = <<>>
    BY DEF Repaired, Torn
<1>2. Prefix(<<>>, <<>>) /\ survivors = {<<>>} /\ file = <<>>
    BY PrefixSelf, <1>1 DEF Init
<1>3. \A h \in Host : ~Serving(h)
    BY DEF Init, Serving
<1>. QED  BY <1>1, <1>2, <1>3 DEF Base

(* The base stays or gives way to one that goes on from it.                  *)
BaseStep(b, c) ==
    /\ Base(c)'
    /\ Prefix(b, c)
    /\ told' = told \/ (c # b /\ told' = Append(told, c[Len(c)]))
    /\ c # b => repeated \subseteq Held(c) \/ repeated' = {}

LEMMA BaseStays ==
    ASSUME NEW b, Base(b), told' = told, survivors \subseteq survivors',
           \A f \in survivors' \cup {file'} : f \in survivors \cup {file} \/ Prefix(b, Repaired(f)),
           \A g \in Host : Serving(g)' => Prefix(b, memory'[g])
    PROVE  BaseStep(b, b)
<1>1. \A f \in survivors' \cup {file'} : Prefix(b, Repaired(f))
    BY DEF Base
<1>2. \E s \in survivors' : b = Repaired(s)
    BY DEF Base
<1>3. b \in Seq(Record) /\ Prefix(b, b)
    BY PrefixSelf DEF Base
<1>. QED  BY <1>1, <1>2, <1>3 DEF Base, BaseStep

LEMMA BaseMoves ==
    ASSUME NEW c \in Seq(Record), survivors' = {file'}, Repaired(file') = c,
           \A g \in Host : Serving(g)' => memory'[g] = c
    PROVE  Base(c)'
    BY PrefixSelf DEF Base

(* Of the hosts that do not take the step.                                   *)
LEMMA OthersServe ==
    ASSUME TypeOK, NEW h \in Host, NEW g \in Host, g # h,
           OpenStep(h) \/ AppendStep(h) \/ Close(h) \/ Kill(h)
    PROVE  /\ Serving(g)' => Serving(g) /\ memory'[g] = memory[g]
           /\ at[h] \notin {"off", "lock"} => ~Serving(g)'
    BY OthersSpared, Alone DEF Serving

LEMMA OpenBase ==
    ASSUME IInv, IInv', Standing, NEW h \in Host, OpenStep(h) \/ Close(h) \/ Kill(h), NEW b, Base(b)
    PROVE  \E c : BaseStep(b, c)
<1> USE DEF disk, work, Goto
<1>1. TypeOK /\ FileInv /\ TypeOK' /\ FileInv'
    BY DEF IInv, FileInv, Sound, AlwaysReopens, SyncedSurvives
<1>2. \A g \in Host : Serving(g) => Prefix(b, memory[g])
    BY DEF Base
<1>3. \A g \in Host \ {h} : Serving(g)' => Prefix(b, memory'[g])
    BY <1>1, <1>2, OthersServe
<1>4. ASSUME UNCHANGED <<file, survivors, told>>, ~Serving(h)' PROVE BaseStep(b, b)
    BY <1>3, <1>4, BaseStays
<1>5. CASE OpenFile(h) \/ SyncName(h)
    BY <1>1, <1>4, <1>5 DEF OpenFile, SyncName, Serving, TypeOK
<1>6. CASE LockJournal(h)
    BY <1>1, <1>4, <1>6 DEF LockJournal, LeaveOff, Serving, TypeOK
<1>7. CASE OpenFails(h) \/ Close(h) \/ Kill(h)
    BY <1>1, <1>4, <1>7 DEF OpenFails, Close, Kill, LeaveOff, Serving, TypeOK
<1>8. CASE CutTail(h)
    <2>1. ~Serving(h)'
        BY <1>1, <1>8 DEF CutTail, Serving, TypeOK
    <2>2. file \in Seq(Line) /\ Replayable(Repaired(file))
        BY <1>1 DEF TypeOK, FileInv, Sound
    <2>3. Prefix(b, Repaired(file)) /\ Repaired(Repaired(file)) = Repaired(file)
        BY <2>2, RepairedOnce DEF Base
    <2>4. /\ told' = told /\ survivors \subseteq survivors'
          /\ \A f \in survivors' \cup {file'} : f \in survivors \cup {file, Repaired(file)}
        BY <1>8 DEF CutTail
    <2>5. BaseStep(b, b)
        BY <1>3, <2>1, <2>3, <2>4, BaseStays
    <2>. QED  BY <2>5
<1>9. CASE SyncRepair(h)
    <2> DEFINE c == Repaired(file)
    <2>1. /\ file' = file /\ survivors' = {file} /\ told' = told /\ at[h] = "syncRepair"
          /\ ~Serving(h)'
        BY <1>1, <1>9 DEF SyncRepair, Serving, TypeOK
    <2>2. \A g \in Host : ~Serving(g)'
        BY <1>1, <2>1, OthersServe
    <2>3. c \in Seq(Record) /\ Prefix(b, c)
        BY <1>1, SurvivorsAreRecords DEF Base
    <2>0. repeated \subseteq Held(c)
        BY <1>1, RepairKeepsRepetitions DEF Standing, RepetitionStands, TypeOK
    <2>. HIDE DEF c
    <2>4. Repaired(file') = c
        BY <2>1 DEF c
    <2>5. \A d \in Seq(Record) : d = c => Base(d)'
        BY <2>1, <2>2, <2>4, BaseMoves
    <2>6. \E d : d = c /\ d \in Seq(Record)
        BY <2>3
    <2>. QED  BY <2>0, <2>1, <2>3, <2>5, <2>6 DEF BaseStep
<1>10. CASE Replay(h)
    <2>1. CASE ~Replayable(file)
        BY <1>1, <1>4, <1>10, <2>1 DEF Replay, LeaveOff, Serving, TypeOK
    <2>2. CASE Replayable(file)
        <3>1. UNCHANGED <<file, survivors, told>> /\ memory'[h] = file
            BY <1>1, <1>10, <2>2 DEF Replay, TypeOK
        <3>2. Repaired(file) = file
            BY <1>1, <2>2, ReplayedAreRecords, RepairedRecords DEF TypeOK
        <3>3. Prefix(b, file)
            BY <3>2 DEF Base
        <3>4. BaseStep(b, b)
            BY <1>3, <3>1, <3>3, BaseStays
        <3>. QED  BY <3>4
    <2>. QED  BY <2>1, <2>2
<1>. QED  BY <1>4, <1>5, <1>6, <1>7, <1>8, <1>9, <1>10 DEF OpenStep

LEMMA AppendBase ==
    ASSUME IInv, Standing, NEW h \in Host, AppendStep(h), NEW b, Base(b)
    PROVE  \E c : BaseStep(b, c)
<1> USE DEF disk, work, Goto, Done
<1> DEFINE m == memory[h]
           r == record[h]
<1>1. TypeOK /\ FileInv /\ HostInv(h)
    BY SameInvariant
<1>2. m \in Seq(Record) /\ m \in Seq(Line) /\ b \in Seq(Record)
    BY <1>1, RepairedRecords DEF TypeOK, Base
<1>3. \A g \in Host \ {h} : Serving(g)' => Prefix(b, memory'[g])
    BY <1>1, OthersServe DEF Base
<1>4. Serving(h) => /\ Prefix(b, m) /\ Repaired(m) = m
                    /\ Repaired(Append(m, Fragment)) = m
                    /\ PartlyWritten(m) = Append(m, Fragment)
                    /\ Written(m, r) = Append(m, r)
    BY <1>2, RepairedRecords DEF Base
<1>5. at[h] \in {"write", "sync", "rollback"} =>
          /\ Append(m, r) \in Seq(Record)
          /\ Repaired(Append(m, r)) = Append(m, r)
          /\ Prefix(b, Append(m, r))
    <2> SUFFICES ASSUME at[h] \in {"write", "sync", "rollback"}
                 PROVE  /\ Append(m, r) \in Seq(Record)
                        /\ Repaired(Append(m, r)) = Append(m, r)
                        /\ Prefix(b, Append(m, r))
        OBVIOUS
    <2>1. r \in Record /\ Prefix(b, m)
        BY <1>1, <1>4 DEF HostInv, Appending, Serving
    <2>2. Append(m, r) \in Seq(Record)
        BY <1>2, <2>1
    <2>. QED  BY <1>2, <2>1, <2>2, RepairedRecords, PrefixGoesOn
<1>6. ASSUME told' = told, memory'[h] = m, Serving(h), survivors \subseteq survivors',
             \A f \in survivors' \cup {file'} :
                 f \in survivors \cup {file} \/ Prefix(b, Repaired(f))
      PROVE  \E c : BaseStep(b, c)
    <2>1. \A g \in Host : Serving(g)' => Prefix(b, memory'[g])
        BY <1>3, <1>4, <1>6
    <2>. QED  BY <1>6, <2>1, BaseStays
<1>7. ASSUME NEW q \in Record, BeginAppend(h, q) PROVE \E c : BaseStep(b, c)
    BY <1>6, <1>7 DEF BeginAppend, Serving
<1>8. CASE Write(h)
    <2>1. /\ Serving(h) /\ at[h] = "write" /\ file = m
          /\ file' = Append(m, r) /\ survivors' = survivors \cup {Append(m, Fragment), file'}
          /\ UNCHANGED <<memory, told>>
        BY <1>1, <1>4, <1>8 DEF Write, HostInv, Appending, Serving
    <2>. QED  BY <1>4, <1>5, <1>6, <2>1
<1>9. CASE WriteFails(h)
    <2>1. /\ Serving(h) /\ at[h] = "write" /\ file = m
          /\ file' \in {m, Append(m, Fragment)} /\ survivors' = survivors \cup {file'}
          /\ UNCHANGED <<memory, told>>
        BY <1>1, <1>4, <1>9 DEF WriteFails, HostInv, Appending, Serving
    <2>. QED  BY <1>4, <1>6, <2>1
<1>10. CASE SyncFails(h)
    BY <1>6, <1>10 DEF SyncFails, Serving
<1>11. CASE RollbackFails(h)
    BY <1>6, <1>11 DEF RollbackFails, Serving
<1>12. CASE Rollback(h)
    <2>1. /\ at[h] = "rollback" /\ file \in {m, Append(m, r), Append(m, Fragment)}
          /\ size[h] = Len(m) /\ r \in Record /\ Serving(h)
        BY <1>1, <1>12 DEF Rollback, HostInv, Appending, Serving
    <2>2. SubSeq(file, 1, Len(m)) = m
        <3>1. r \in Line /\ Fragment \in Line
            BY <2>1 DEF Line
        <3>2. m \in Seq(Line)
            BY <1>2
        <3>3. CASE file = m
            BY <3>2, <3>3, WholePrefix
        <3>4. CASE file = Append(m, r)
            BY <3>1, <3>2, <3>4, WholePrefix
        <3>5. CASE file = Append(m, Fragment)
            BY <3>1, <3>2, <3>5, WholePrefix
        <3>. QED  BY <2>1, <3>3, <3>4, <3>5
    <2>3. file' = m /\ survivors' = survivors \cup {m} /\ UNCHANGED <<memory, told>>
        BY <1>12, <2>1, <2>2 DEF Rollback
    <2>. QED  BY <1>4, <1>6, <2>1, <2>3
<1>13. CASE SyncRollback(h)
    <2>1. /\ at[h] = "syncRollback" /\ file = m /\ survivors' = {m} /\ Serving(h)
          /\ UNCHANGED <<file, memory, told>>
        BY <1>1, <1>13 DEF SyncRollback, HostInv, Appending, Serving
    <2>2. \A g \in Host : Serving(g)' => memory'[g] = m
        BY <1>1, <2>1, OthersServe
    <2>3. ASSUME NEW c, c = m PROVE BaseStep(b, c)
        <3>1. c \in Seq(Record) /\ Repaired(file') = c
            BY <1>2, <1>4, <2>1, <2>3
        <3>2. Base(c)'
            BY <2>1, <2>2, <2>3, <3>1, BaseMoves
        <3>3. repeated \subseteq Held(c)
            BY <2>1, <2>3 DEF Standing
        <3>. QED  BY <1>4, <2>1, <2>3, <3>2, <3>3 DEF BaseStep
    <2>. QED  BY <2>3
<1>14. CASE Sync(h)
    <2>1. /\ at[h] = "sync" /\ file = Append(m, r) /\ file' = file
          /\ survivors' = {file} /\ memory'[h] = file /\ told' = Append(told, r)
          /\ Serving(h)
        BY <1>1, <1>14 DEF Sync, Synced, TypeOK, HostInv, Appending, Serving
    <2>2. \A g \in Host : Serving(g)' => memory'[g] = file
        BY <1>1, <2>1, OthersServe
    <2>3. ASSUME NEW c, c = file PROVE BaseStep(b, c)
        <3>1. c \in Seq(Record) /\ Repaired(file') = c /\ Prefix(b, c)
            BY <1>5, <2>1, <2>3
        <3>2. Base(c)'
            BY <2>1, <2>2, <2>3, <3>1, BaseMoves
        <3>3. Len(c) = Len(m) + 1 /\ c[Len(m) + 1] = r /\ Len(b) <= Len(m) /\ Len(m) \in Nat
            BY <1>2, <1>4, <2>1, <2>3, Appended DEF Prefix
        <3>4. c # b /\ told' = Append(told, c[Len(c)])
            BY <1>2, <2>1, <3>3
        <3>5. repeated \subseteq Held(c)
            BY <2>3 DEF Standing, RepetitionStands
        <3>. QED  BY <3>1, <3>2, <3>4, <3>5 DEF BaseStep
    <2>. QED  BY <2>3
<1>15. ASSUME NEW q \in Record, Repeat(h, q) PROVE \E c : BaseStep(b, c)
    BY <1>6, <1>15 DEF Repeat, Serving
<1>. QED
    BY <1>7, <1>8, <1>9, <1>10, <1>11, <1>12, <1>13, <1>14, <1>15 DEF AppendStep

LEMMA PowerBase ==
    ASSUME IInv, PowerFailure, NEW b, Base(b)
    PROVE  \E c : BaseStep(b, c)
<1>1. /\ file' \in survivors /\ survivors' = {file'} /\ told' = told /\ repeated' = {}
      /\ \A g \in Host : ~Serving(g)'
    BY DEF PowerFailure, Serving
<1>2. ASSUME NEW f \in survivors, NEW c, file' = f, c = Repaired(f) PROVE BaseStep(b, c)
    <2>1. c \in Seq(Record) /\ Prefix(b, c)
        BY <1>2, SameInvariant, SurvivorsAreRecords DEF Base
    <2>2. Base(c)'
        BY <1>1, <1>2, <2>1, BaseMoves
    <2>. QED  BY <1>1, <2>1, <2>2 DEF BaseStep
<1>. QED  BY <1>1, <1>2

LEMMA NextBase ==
    ASSUME IInv, IInv', Standing, [Next]_vars, NEW b, Base(b)
    PROVE  \E c : BaseStep(b, c)
<1>1. CASE UNCHANGED vars
    <2>1. /\ UNCHANGED <<file, survivors, told, memory, at>>
        BY <1>1 DEF vars, disk
    <2>2. BaseStep(b, b)
        BY <2>1, BaseStays DEF Base, Serving
    <2>. QED  BY <2>2
<1>2. CASE PowerFailure
    BY <1>2, PowerBase
<1>3. ASSUME NEW h \in Host, OpenStep(h) \/ Close(h) \/ Kill(h)
      PROVE  \E c : BaseStep(b, c)
    BY <1>3, OpenBase
<1>4. ASSUME NEW h \in Host, AppendStep(h)
      PROVE  \E c : BaseStep(b, c)
    BY <1>4, AppendBase
<1>. QED  BY <1>1, <1>2, <1>3, <1>4 DEF Next

(* The log the abstraction sees is the base.                                 *)
BInv == IInv /\ Standing /\ \E b : Base(b)

LEMMA BInductive == BInv /\ [Next]_vars => BInv'
    BY Inductive, StandsOn, NextBase DEF BInv, BaseStep

LEMMA LogStep ==
    ASSUME BInv, BInv', [Next]_vars
    PROVE  [Durable!Next]_Durable!logVars
<1>1. PICK b : Base(b)
    BY DEF BInv
<1>2. PICK c : BaseStep(b, c)
    BY <1>1, NextBase DEF BInv
<1>3. Settled = b /\ Settled' = c
    <2>1. ASSUME NEW f \in survivors PROVE Repaired(f) \in Seq(Record) /\ Prefix(b, Repaired(f))
        BY <1>1, SameInvariant, SurvivorsAreRecords DEF Base, BInv
    <2>2. ASSUME NEW f \in survivors' PROVE Repaired(f) \in Seq(Record) /\ Prefix(c, Repaired(f))
        <3>1. f \in Seq(Line) /\ Replayable(Repaired(f))
            BY DEF BInv, IInv, TypeOK, AlwaysReopens
        <3>. QED  BY <3>1, <1>2, RepairedToRecords DEF BaseStep, Base
    <2>3. Settled = b
        BY <1>1, <2>1, LeastIsBase DEF Settled, Base
    <2>4. Settled' = c
        BY <1>2, <2>2, LeastIsBase DEF Settled, BaseStep, Base
    <2>. QED  BY <2>3, <2>4
<1>4. /\ b \in Seq(Record) /\ c \in Seq(Record) /\ Prefix(b, c)
    BY <1>1, <1>2 DEF Base, BaseStep
<1>5. CASE c # b
    <2>1. Replayable(c)
        BY <1>2 DEF BaseStep, Base, BInv, IInv, AlwaysReopens
    <2>2. Durable!InTurn(c) /\ b = SubSeq(c, 1, Len(b))
        BY <1>4, <2>1, ReplayedInTurn, PrefixIsSubSeq
    <2>3. Durable!Grow
        BY <1>3, <1>5, <2>2 DEF Durable!Grow
    <2>4. CASE repeated' = {} /\ told' = told
        BY <2>3, <2>4 DEF Durable!Next, Durable!PowerFailure
    <2>5. CASE repeated' = repeated /\ repeated \subseteq Held(c)
        <3>1. Durable!TakesIn
            BY <1>3, <2>5 DEF Durable!TakesIn, Held
        <3>. QED
            BY <1>2, <1>3, <1>5, <2>3, <2>5, <3>1
               DEF BaseStep, Durable!Next, Durable!Acknowledge, Durable!Untold
    <2>6. CASE UNCHANGED <<survivors, told>>
        BY <1>3, <1>5, <2>6 DEF Settled
    <2>7. TypeOK
        BY DEF BInv, IInv
    <2>8. CASE repeated' = {} /\ repeated' = repeated
        <3>1. repeated \subseteq Held(c)
            BY <2>8
        <3>. QED  BY <2>5, <2>8, <3>1
    <2>. QED  BY <1>2, <1>5, <2>4, <2>5, <2>6, <2>7, <2>8, RepetitionCases DEF BaseStep
<1>6. CASE c = b
    <2>1. Settled' = Settled /\ told' = told
        BY <1>2, <1>3, <1>6 DEF BaseStep
    <2>2. TypeOK
        BY DEF BInv, IInv
    <2>3. CASE repeated' = repeated
        BY <2>1, <2>3 DEF Durable!logVars
    <2>4. ASSUME NEW r \in Record, repeated' = repeated \cup {r} PROVE Durable!Next
        <3>1. Durable!Repeat(r)
            BY <2>1, <2>4 DEF Durable!Repeat
        <3>. QED  BY <3>1 DEF Durable!Next
    <2>5. CASE repeated' = {}
        BY <2>1, <2>5 DEF Durable!Next, Durable!PowerFailure
    <2>. QED  BY <2>2, <2>3, <2>4, <2>5, RepetitionCases
<1>. QED  BY <1>5, <1>6

LEMMA LogStart == Init => Durable!Init
<1> SUFFICES ASSUME Init PROVE Durable!Init
    OBVIOUS
<1>1. survivors = {<<>>} /\ told = <<>> /\ repeated = {} /\ Repaired(<<>>) = <<>>
    BY DEF Init, Repaired, Torn
<1>2. Settled = <<>>
    BY <1>1 DEF Settled
<1>. QED  BY <1>1, <1>2 DEF Durable!Init

LEMMA Always == Spec => []BInv
<1>1. Init => Standing
    BY DEF Init, Standing
<1>2. Init => BInv
    BY <1>1, InitInv, InitBase DEF BInv
<1>. QED  BY <1>2, BInductive, PTL DEF Spec

-----------------------------------------------------------------------------
(* The theorems.                                                             *)

(* Whoever works on the file past its opening holds the lock, and everything *)
(* keeps its type.                                                           *)
THEOREM TypeCorrect == Spec => []TypeOK
<1>1. BInv => TypeOK
    BY DEF BInv, IInv
<1>. QED  BY <1>1, Always, PTL

(* Whatever failed, wherever a host or the power failed: what is left is a   *)
(* journal that Open accepts.                                                *)
THEOREM Reopens == Spec => []AlwaysReopens
<1>1. BInv => AlwaysReopens
    BY DEF BInv, IInv
<1>. QED  BY <1>1, Always, PTL

(* A record acknowledged once it was synced survives every failure, in its   *)
(* place.                                                                    *)
THEOREM Survives == Spec => []SyncedSurvives
<1>1. BInv => SyncedSurvives
    BY DEF BInv, IInv
<1>. QED  BY <1>1, Always, PTL

(* Short of a power failure nothing takes back what was acknowledged as a    *)
(* repetition.                                                               *)
THEOREM RepetitionsStand == Spec => []RepetitionStands
<1>1. BInv => RepetitionStands
    BY StandingStands DEF BInv
<1>. QED  BY <1>1, Always, PTL

(* A host between two calls answers from the records of the file.            *)
THEOREM MirrorsFile == Spec => []MemoryMirrorsFile
<1>1. BInv => MemoryMirrorsFile
    BY DEF BInv, IInv, Mirrors, MemoryMirrorsFile
<1>. QED  BY <1>1, Always, PTL

(* The journal, with its torn writes, rollbacks and repairs, is an append-   *)
(* only log: every step maps to a step of DurableLog or a stutter, and the   *)
(* log takes in with its next growth what was acknowledged as a repetition.  *)
THEOREM Implements == Spec => DurableSpec
<1>1. BInv /\ BInv' /\ [Next]_vars => [Durable!Next]_Durable!logVars
    BY LogStep
<1>. QED  BY <1>1, LogStart, Always, PTL DEF Spec, DurableSpec, Durable!Spec
=============================================================================
