------------------------- MODULE ManagedRulesProofs -------------------------
(***************************************************************************)
(* Proofs about the managed-rules scan, for any number of workers,         *)
(* directories, edits and runs.                                            *)
(***************************************************************************)
EXTENDS ManagedRules, SequenceTheorems, TLAPS

-----------------------------------------------------------------------------
(* Steps of one worker. *)

(* Only w moves, to the phase ph; of what it holds and the invariant       *)
(* speaks of, the rest stays.                                              *)
Moved(w, ph) ==
  /\ worker' \in [Workers -> WorkerType]
  /\ \A x \in Workers : x # w => worker'[x] = worker[x]
  /\ worker'[w].phase = ph
  /\ worker'[w].began = worker[w].began
  /\ worker'[w].records = worker[w].records
  /\ worker'[w].found = worker[w].found
  /\ worker'[w].next = worker[w].next

LEMMA OneWorker ==
  ASSUME TypeOK, NEW w \in Workers, NEW r \in WorkerType,
         worker' = [worker EXCEPT ![w] = r]
  PROVE  /\ worker' \in [Workers -> WorkerType]
         /\ \A x \in Workers : x # w => worker'[x] = worker[x]
         /\ worker'[w] = r
BY DEF TypeOK

LEMMA GotoEffect ==
  ASSUME TypeOK, NEW w \in Workers, NEW ph \in Phases, Goto(w, ph)
  PROVE  Moved(w, ph) /\ worker'[w].meta = worker[w].meta
<1> DEFINE r == [worker[w] EXCEPT !.phase = ph]
<1>1. worker[w] \in WorkerType
  BY DEF TypeOK
<1>2. r \in WorkerType
  BY <1>1 DEF WorkerType
<1>3. worker' = [worker EXCEPT ![w] = r]
  BY DEF Goto
<1> QED
  BY <1>1, <1>2, <1>3, OneWorker DEF Moved, WorkerType

LEMMA UnlockedType ==
  ASSUME TypeOK, NEW w \in Workers
  PROVE  Unlocked(w) \in [Names -> Workers \cup {NoWorker}]
BY DEF TypeOK, Unlocked

(* A step of w that neither touches the directories nor commits anything.  *)
LEMMA LocalStep ==
  ASSUME ManagedRulesInv, NEW w \in Workers, TypeOK',
         UNCHANGED <<disk, edits, tables>>,
         \A x \in Workers : x # w => worker'[x] = worker[x],
         \A x \in Workers : x # w => (x \in overtaken' <=> x \in overtaken),
         Progress(w)', FoundOnDisk(w)', StillRecorded(w)'
  PROVE  ManagedRulesInv'
<1>1. NoSetWithoutVersion'
  BY DEF ManagedRulesInv, NoSetWithoutVersion, tables
<1>2. ASSUME NEW x \in Workers, x # w
      PROVE  Progress(x)' /\ FoundOnDisk(x)' /\ StillRecorded(x)'
  <2>1. /\ worker'[x] = worker[x]
        /\ Directory(x)' = Directory(x)
        /\ UNCHANGED <<disk, edits>>
    BY <1>2 DEF Directory
  <2>2. Progress(x)'
    BY <2>1 DEF ManagedRulesInv, Progress, Complete
  <2>3. FoundOnDisk(x)'
    BY <2>1 DEF ManagedRulesInv, FoundOnDisk
  <2>4. \A d \in Dirs : RowsMatch(d)' <=> RowsMatch(d)
    BY <2>1 DEF RowsMatch, tables
  <2>5. Len(worker[x].found) <= NumDirs /\ worker[x].found \in Seq(RuleSets)
    BY DEF ManagedRulesInv, Progress, TypeOK, WorkerType
  <2>6. \A i \in 1 .. Len(worker[x].found) : i \in Dirs
    BY <2>5, ManagedRulesAssumption DEF Dirs
  <2> QED
    BY <1>2, <2>1, <2>2, <2>3, <2>4, <2>6 DEF ManagedRulesInv, StillRecorded
<1> QED
  BY <1>1, <1>2 DEF ManagedRulesInv

(* Steps that only change the phase. *)
LEMMA GotoKeeps ==
  ASSUME ManagedRulesInv, NEW w \in Workers, NEW ph \in Phases, Moved(w, ph),
         UNCHANGED <<disk, edits, runs, tables, overtaken>>,
         rowLock' \in [Names -> Workers \cup {NoWorker}],
         \/ ph = "failed"
         \/ worker[w].phase = "connecting" /\ ph = "metadata"
         \/ /\ worker[w].phase = "metadata" /\ ph = "recording"
            /\ Directory(w) \notin Dirs
         \/ /\ worker[w].phase = "metadata" /\ ph = "done"
            /\ ~ worker[w].records
         \/ /\ worker[w].phase = "recording" /\ ph = "upserted"
            /\ worker[w].next \in DOMAIN worker[w].found
         \/ /\ worker[w].phase = "recording" /\ ph = "done"
            /\ worker[w].next \notin DOMAIN worker[w].found
  PROVE  ManagedRulesInv'
<1>1. TypeOK'
  BY DEF ManagedRulesInv, TypeOK, Moved, tables
<1>2. /\ worker[w].found \in Seq(RuleSets)
      /\ DOMAIN worker[w].found = 1 .. Len(worker[w].found)
      /\ Len(worker[w].found) \in Nat
      /\ worker[w].next \in Nat
      /\ NumDirs \in Nat
  BY ManagedRulesAssumption DEF ManagedRulesInv, TypeOK, WorkerType
<1>3. Progress(w)'
  <2>1. /\ worker'[w].began <= edits'
        /\ Len(worker'[w].found) <= NumDirs
        /\ ph \notin {"off", "connecting", "files"}
    BY DEF ManagedRulesInv, Progress, Moved
  <2>2. ph = "metadata" => worker'[w].next = 1
    BY DEF ManagedRulesInv, Progress, Moved
  <2>3. ph = "recording" => /\ Len(worker[w].found) = NumDirs
                            /\ worker[w].next \in 1 .. NumDirs + 1
    BY <1>2 DEF ManagedRulesInv, Progress, Directory, Dirs
  <2>4. ph = "upserted" => /\ Len(worker[w].found) = NumDirs
                           /\ worker[w].next \in 1 .. NumDirs + 1
                           /\ worker[w].next <= NumDirs
    BY <1>2 DEF ManagedRulesInv, Progress
  <2>5. ph = "done" /\ worker[w].records =>
          Len(worker[w].found) = NumDirs /\ worker[w].next = NumDirs + 1
    BY <1>2 DEF ManagedRulesInv, Progress
  <2> QED
    BY <2>1, <2>2, <2>3, <2>4, <2>5 DEF Progress, Moved
<1>4. FoundOnDisk(w)'
  BY DEF ManagedRulesInv, FoundOnDisk, Moved
<1>5. StillRecorded(w)'
  <2>1. ASSUME NEW i \in 1 .. Len(worker[w].found), i < worker[w].next,
               worker[w].began = edits, w \notin overtaken,
               ph \in {"recording", "upserted", "done"}
        PROVE  RowsMatch(i)'
    <3>1. worker[w].phase = "recording"
      BY <1>2, <2>1 DEF ManagedRulesInv, Progress
    <3>2. RowsMatch(i)
      BY <2>1, <3>1 DEF ManagedRulesInv, StillRecorded
    <3> QED
      BY <3>2 DEF RowsMatch, tables
  <2> QED
    BY <2>1 DEF StillRecorded, Moved
<1> QED
  BY <1>1, <1>3, <1>4, <1>5, LocalStep DEF Moved

LEMMA ConnectKeeps ==
  ASSUME ManagedRulesInv, NEW w \in Workers, Connect(w)
  PROVE  ManagedRulesInv'
BY GotoEffect, GotoKeeps DEF Connect, Phases, ManagedRulesInv, TypeOK

LEMMA ScannedKeeps ==
  ASSUME ManagedRulesInv, NEW w \in Workers, Scanned(w)
  PROVE  ManagedRulesInv'
BY GotoEffect, GotoKeeps DEF Scanned, Phases, ManagedRulesInv, TypeOK

LEMMA UpsertSetKeeps ==
  ASSUME ManagedRulesInv, NEW w \in Workers, UpsertSet(w)
  PROVE  ManagedRulesInv'
<1>1. rowLock' \in [Names -> Workers \cup {NoWorker}]
  BY DEF UpsertSet, ManagedRulesInv, TypeOK
<1> QED
  BY <1>1, GotoEffect, GotoKeeps DEF UpsertSet, Phases, ManagedRulesInv

LEMMA RecordedAllKeeps ==
  ASSUME ManagedRulesInv, NEW w \in Workers, RecordedAll(w)
  PROVE  ManagedRulesInv'
BY GotoEffect, GotoKeeps DEF RecordedAll, Phases, ManagedRulesInv, TypeOK

LEMMA FailKeeps ==
  ASSUME ManagedRulesInv, NEW w \in Workers, Fail(w)
  PROVE  ManagedRulesInv'
BY GotoEffect, GotoKeeps, UnlockedType DEF Fail, Phases, ManagedRulesInv

LEMMA ScanFailsKeeps ==
  ASSUME ManagedRulesInv, NEW w \in Workers, ScanFails(w)
  PROVE  ManagedRulesInv'
BY GotoEffect, GotoKeeps DEF ScanFails, Phases, ManagedRulesInv, TypeOK

LEMMA ExpireKeeps ==
  ASSUME ManagedRulesInv, NEW w \in Workers, Expire(w)
  PROVE  ManagedRulesInv'
<1> DEFINE r == [worker[w] EXCEPT !.expired = TRUE]
<1>1. worker[w] \in WorkerType
  BY DEF ManagedRulesInv, TypeOK
<1>2. r \in WorkerType
  BY <1>1 DEF WorkerType
<1>3. worker' = [worker EXCEPT ![w] = r]
  BY DEF Expire
<1>4. /\ Moved(w, worker[w].phase)
      /\ worker'[w].meta = worker[w].meta
  BY <1>1, <1>2, <1>3, OneWorker DEF Moved, WorkerType, ManagedRulesInv
<1>5. UNCHANGED <<disk, edits, runs, tables, rowLock, overtaken>>
  BY DEF Expire
<1>6. TypeOK'
  BY <1>4, <1>5 DEF ManagedRulesInv, TypeOK, Moved, tables
<1>7. Directory(w)' = Directory(w)
  BY <1>4 DEF Directory, Moved
<1>8. Progress(w)'
  BY <1>4, <1>5, <1>7 DEF ManagedRulesInv, Progress, Moved, Complete
<1>9. FoundOnDisk(w)' /\ StillRecorded(w)'
  BY <1>4, <1>5, <1>7
  DEF ManagedRulesInv, FoundOnDisk, StillRecorded, Moved, RowsMatch, tables
<1> QED
  BY <1>4, <1>5, <1>6, <1>8, <1>9, LocalStep DEF Moved

LEMMA ExitKeeps ==
  ASSUME ManagedRulesInv, NEW w \in Workers, Exit(w)
  PROVE  ManagedRulesInv'
<1>1. /\ worker' = [worker EXCEPT ![w] = NewWorker]
      /\ rowLock' = Unlocked(w)
      /\ UNCHANGED <<disk, edits, runs, tables, overtaken>>
  BY DEF Exit
<1>2. NewWorker \in WorkerType
  BY DEF NewWorker, WorkerType, Phases
<1>3. /\ worker' \in [Workers -> WorkerType]
      /\ \A x \in Workers : x # w => worker'[x] = worker[x]
      /\ worker'[w] = NewWorker
  BY <1>1, <1>2, OneWorker DEF ManagedRulesInv
<1>4. TypeOK'
  BY <1>1, <1>3, UnlockedType DEF ManagedRulesInv, TypeOK, tables
<1>5. Progress(w)' /\ FoundOnDisk(w)' /\ StillRecorded(w)'
  BY <1>1, <1>3, ManagedRulesAssumption
  DEF ManagedRulesInv, TypeOK, Progress, FoundOnDisk, StillRecorded, NewWorker
<1> QED
  BY <1>1, <1>3, <1>4, <1>5, LocalStep

LEMMA BeginKeeps ==
  ASSUME ManagedRulesInv, NEW w \in Workers, NEW records \in BOOLEAN,
         Begin(w, records)
  PROVE  ManagedRulesInv'
<1> DEFINE r == [worker[w] EXCEPT
                   !.phase = IF records THEN "connecting" ELSE "metadata",
                   !.began = edits, !.records = records]
<1>1. /\ worker[w].phase = "off"
      /\ runs < MaxRuns /\ runs' = runs + 1
      /\ overtaken' = overtaken \ {w}
      /\ worker' = [worker EXCEPT ![w] = r]
      /\ UNCHANGED <<disk, edits, tables, rowLock>>
  BY DEF Begin
<1>2. worker[w] \in WorkerType /\ edits \in Nat
  BY ManagedRulesAssumption DEF ManagedRulesInv, TypeOK
<1>3. r \in WorkerType
  BY <1>2 DEF WorkerType, Phases
<1>4. /\ worker' \in [Workers -> WorkerType]
      /\ \A x \in Workers : x # w => worker'[x] = worker[x]
      /\ worker'[w] = r
  BY <1>1, <1>3, OneWorker DEF ManagedRulesInv
<1>5. /\ worker'[w].phase \in {"connecting", "metadata"}
      /\ worker'[w].began = edits
      /\ worker'[w].found = worker[w].found
      /\ worker'[w].next = worker[w].next
  BY <1>2, <1>4 DEF WorkerType
<1>6. worker[w].found = <<>> /\ worker[w].next = 1
  BY <1>1 DEF ManagedRulesInv, Progress
<1>7. TypeOK'
  BY <1>1, <1>4, ManagedRulesAssumption DEF ManagedRulesInv, TypeOK, tables
<1>8. Progress(w)' /\ FoundOnDisk(w)' /\ StillRecorded(w)'
  BY <1>1, <1>2, <1>5, <1>6, ManagedRulesAssumption
  DEF Progress, FoundOnDisk, StillRecorded
<1> QED
  BY <1>1, <1>4, <1>7, <1>8, LocalStep

LEMMA ReadMetadataKeeps ==
  ASSUME ManagedRulesInv, NEW w \in Workers, ReadMetadata(w)
  PROVE  ManagedRulesInv'
<1> DEFINE meta == disk[Directory(w)].meta
           r == [worker[w] EXCEPT
                   !.phase = IF Complete(meta) THEN "files" ELSE "failed",
                   !.meta = meta]
<1>1. /\ worker[w].phase = "metadata"
      /\ Directory(w) \in Dirs
      /\ worker' = [worker EXCEPT ![w] = r]
      /\ UNCHANGED <<disk, edits, runs, tables, rowLock, overtaken>>
  BY DEF ReadMetadata
<1>2. worker[w] \in WorkerType /\ meta \in Metadata
  BY <1>1 DEF ManagedRulesInv, TypeOK
<1>3. r \in WorkerType
  BY <1>2 DEF WorkerType, Phases
<1>4. /\ worker' \in [Workers -> WorkerType]
      /\ \A x \in Workers : x # w => worker'[x] = worker[x]
      /\ worker'[w] = r
  BY <1>1, <1>3, OneWorker DEF ManagedRulesInv
<1>5. /\ worker'[w].phase \in {"files", "failed"}
      /\ worker'[w].phase = "files" => Complete(meta)
      /\ worker'[w].meta = meta
      /\ worker'[w].began = worker[w].began
      /\ worker'[w].found = worker[w].found
      /\ worker'[w].next = worker[w].next
  BY <1>2, <1>4 DEF WorkerType
<1>6. Directory(w)' = Directory(w)
  BY <1>5 DEF Directory
<1>7. TypeOK'
  BY <1>1, <1>4 DEF ManagedRulesInv, TypeOK, tables
<1>8. Progress(w)'
  BY <1>1, <1>2, <1>5, <1>6 DEF ManagedRulesInv, Progress, Complete
<1>9. FoundOnDisk(w)' /\ StillRecorded(w)'
  BY <1>1, <1>5, <1>6 DEF ManagedRulesInv, FoundOnDisk, StillRecorded
<1> QED
  BY <1>1, <1>4, <1>7, <1>8, <1>9, LocalStep

LEMMA ChecksumDirectoryKeeps ==
  ASSUME ManagedRulesInv, NEW w \in Workers, ChecksumDirectory(w)
  PROVE  ManagedRulesInv'
<1> DEFINE d == Directory(w)
           meta == worker[w].meta
           found == worker[w].found
           set == [name |-> meta.name, version |-> meta.version, dir |-> d,
                   checksum |-> disk[d].files]
           r == [worker[w] EXCEPT !.phase = "metadata", !.meta = NoMeta,
                                  !.found = Append(found, set)]
<1>1. /\ worker[w].phase = "files"
      /\ worker' = [worker EXCEPT ![w] = r]
      /\ UNCHANGED <<disk, edits, runs, tables, rowLock, overtaken>>
  BY DEF ChecksumDirectory
<1>2. worker[w] \in WorkerType /\ found \in Seq(RuleSets) /\ Len(found) \in Nat
  BY DEF ManagedRulesInv, TypeOK, WorkerType
<1>3. meta \in Metadata /\ Complete(meta) /\ d \in Dirs /\ worker[w].next = 1
  BY <1>1 DEF ManagedRulesInv, Progress
<1>4. set \in RuleSets
  <2>1. meta.name \in Names /\ meta.version \in Versions
    BY <1>3 DEF Names, Versions, Complete
  <2>2. disk[d].files \in Contents
    BY <1>3 DEF ManagedRulesInv, TypeOK
  <2> QED
    BY <1>3, <2>1, <2>2 DEF RuleSets
<1>5. Append(found, set) \in Seq(RuleSets)
  BY <1>2, <1>4
<1>6. r \in WorkerType
  BY <1>2, <1>5 DEF WorkerType, Phases
<1>7. /\ worker' \in [Workers -> WorkerType]
      /\ \A x \in Workers : x # w => worker'[x] = worker[x]
      /\ worker'[w] = r
  BY <1>1, <1>6, OneWorker DEF ManagedRulesInv
<1>8. /\ worker'[w].phase = "metadata"
      /\ worker'[w].began = worker[w].began
      /\ worker'[w].found = Append(found, set)
      /\ worker'[w].next = worker[w].next
  BY <1>2, <1>7 DEF WorkerType
<1>9. /\ Len(Append(found, set)) = Len(found) + 1
      /\ \A i \in 1 .. Len(found) : Append(found, set)[i] = found[i]
      /\ Append(found, set)[Len(found) + 1] = set
  BY <1>2, <1>4
<1>10. TypeOK'
  BY <1>1, <1>7 DEF ManagedRulesInv, TypeOK, tables
<1>11. Progress(w)'
  <2>1. Len(found) + 1 <= NumDirs
    BY <1>2, <1>3, ManagedRulesAssumption DEF Directory, Dirs
  <2> QED
    BY <1>1, <1>3, <1>8, <1>9, <2>1 DEF ManagedRulesInv, Progress
<1>12. FoundOnDisk(w)'
  <2> SUFFICES ASSUME worker[w].began = edits,
                      NEW i \in 1 .. Len(found) + 1
               PROVE  Append(found, set)[i] =
                        [name |-> disk[i].meta.name,
                         version |-> disk[i].meta.version,
                         dir |-> i, checksum |-> disk[i].files]
    BY <1>1, <1>8, <1>9 DEF FoundOnDisk
  <2>1. CASE i \in 1 .. Len(found)
    BY <1>9, <2>1 DEF ManagedRulesInv, FoundOnDisk
  <2>2. CASE i = Len(found) + 1
    <3>1. i = d /\ meta = disk[d].meta
      BY <1>1, <2>2 DEF ManagedRulesInv, FoundOnDisk, Directory
    <3> QED
      BY <1>9, <2>2, <3>1
  <2> QED
    BY <1>2, <2>1, <2>2
<1>13. StillRecorded(w)'
  BY <1>8 DEF StillRecorded
<1> QED
  BY <1>1, <1>7, <1>10, <1>11, <1>12, <1>13, LocalStep

-----------------------------------------------------------------------------
(* Steps that others can see. *)

(* After a change no run is current. *)
LEMMA EditDirectoryKeeps ==
  ASSUME ManagedRulesInv, NEW d \in Dirs, NEW meta \in Metadata,
         NEW files \in Contents, EditDirectory(d, meta, files)
  PROVE  ManagedRulesInv'
<1>1. /\ edits < MaxEdits /\ edits' = edits + 1
      /\ UNCHANGED <<runs, worker, tables, rowLock, overtaken>>
  BY DEF EditDirectory
<1>2. disk' \in [Dirs -> [meta : Metadata, files : Contents]]
  <2>1. /\ disk[d] \in [meta : Metadata, files : Contents]
        /\ disk \in [Dirs -> [meta : Metadata, files : Contents]]
    BY DEF ManagedRulesInv, TypeOK
  <2>2. /\ [disk[d] EXCEPT !.meta = meta] \in [meta : Metadata, files : Contents]
        /\ [disk[d] EXCEPT !.files = files] \in [meta : Metadata, files : Contents]
    BY <2>1
  <2>3. \/ disk' = [disk EXCEPT ![d] = [disk[d] EXCEPT !.meta = meta]]
        \/ disk' = [disk EXCEPT ![d] = [disk[d] EXCEPT !.files = files]]
    BY DEF EditDirectory
  <2> QED
    BY <2>1, <2>2, <2>3
<1>3. edits \in Nat /\ MaxEdits \in Nat
  BY ManagedRulesAssumption DEF ManagedRulesInv, TypeOK
<1>4. TypeOK'
  BY <1>1, <1>2, <1>3 DEF ManagedRulesInv, TypeOK, tables
<1>5. ASSUME NEW w \in Workers
      PROVE  Progress(w)' /\ FoundOnDisk(w)' /\ StillRecorded(w)'
  <2>1. worker[w].began \in Nat /\ worker[w].began <= edits
    BY DEF ManagedRulesInv, TypeOK, WorkerType, Progress
  <2>2. worker'[w].began # edits' /\ worker'[w].began <= edits'
    BY <1>1, <1>3, <2>1
  <2>3. Progress(w)'
    BY <1>1, <2>2 DEF ManagedRulesInv, Progress, Directory, Complete
  <2> QED
    BY <2>2, <2>3 DEF FoundOnDisk, StillRecorded
<1>6. NoSetWithoutVersion'
  BY <1>1 DEF ManagedRulesInv, NoSetWithoutVersion, tables
<1> QED
  BY <1>4, <1>5, <1>6 DEF ManagedRulesInv

(* A commit writes a set and its version together; one of a current run    *)
(* writes what the directories say.                                        *)
LEMMA CommitKeeps ==
  ASSUME ManagedRulesInv, NEW w \in Workers, Commit(w)
  PROVE  ManagedRulesInv'
<1> DEFINE k == worker[w].next
           set == Current(w)
<1>1. /\ worker[w].phase = "upserted"
      /\ sets' = [sets EXCEPT ![set.name] = set.dir]
      /\ versions' = [versions EXCEPT ![set.name][set.version] = set.checksum]
      /\ rowLock' = Unlocked(w)
      /\ overtaken' = IF worker[w].began = edits THEN overtaken ELSE Workers
      /\ UNCHANGED <<disk, edits, runs>>
  BY DEF Commit, Recorded
<1>2. /\ worker[w] \in WorkerType
      /\ worker[w].found \in Seq(RuleSets)
      /\ Len(worker[w].found) = NumDirs
      /\ k \in 1 .. NumDirs
      /\ k \in Nat /\ NumDirs \in Nat
  BY <1>1, ManagedRulesAssumption
  DEF ManagedRulesInv, TypeOK, WorkerType, Progress
<1>3. set \in RuleSets
  BY <1>2 DEF Current
<1>4. /\ set.name \in Names /\ set.version \in Versions
      /\ set.dir \in Dirs /\ set.checksum \in Contents
  BY <1>3 DEF RuleSets
<1>5. /\ worker' \in [Workers -> WorkerType]
      /\ \A x \in Workers : x # w => worker'[x] = worker[x]
      /\ worker'[w].began = worker[w].began
      /\ worker'[w].records = worker[w].records
      /\ worker'[w].found = worker[w].found
      /\ \/ worker'[w].phase = "recording" /\ worker'[w].next = k + 1
         \/ worker'[w].phase = "failed"
  <2>1. CASE Goto(w, "failed")
    BY <2>1, GotoEffect DEF Moved, Phases, ManagedRulesInv
  <2>2. CASE worker' = [worker EXCEPT ![w].phase = "recording", ![w].next = k + 1]
    <3>1. PICK m \in Nat : m = k + 1
      BY <1>2
    <3> DEFINE r == [worker[w] EXCEPT !.phase = "recording", !.next = m]
    <3>2. r \in WorkerType
      BY <1>2 DEF WorkerType, Phases
    <3>3. worker' = [worker EXCEPT ![w] = r]
      BY <2>2, <3>1
    <3> QED
      BY <1>2, <3>1, <3>2, <3>3, OneWorker DEF WorkerType, ManagedRulesInv
  <2> QED
    BY <2>1, <2>2 DEF Commit
<1>6. TypeOK'
  <2>1. /\ sets' \in [Names -> {0} \cup Dirs]
        /\ versions' \in [Names -> [Versions -> Contents \cup {NoRow}]]
    BY <1>1, <1>4 DEF ManagedRulesInv, TypeOK
  <2>2. overtaken' \subseteq Workers
    BY <1>1 DEF ManagedRulesInv, TypeOK
  <2> QED
    BY <1>1, <1>5, <2>1, <2>2, UnlockedType DEF ManagedRulesInv, TypeOK
<1>7. NoSetWithoutVersion'
  <2> SUFFICES ASSUME NEW n \in Names
               PROVE  sets'[n] # 0 <=>
                        \E v \in Versions : versions'[n][v] # NoRow
    BY DEF NoSetWithoutVersion
  <2>1. CASE n # set.name
    <3>1. sets'[n] = sets[n] /\ versions'[n] = versions[n]
      BY <1>1, <2>1 DEF ManagedRulesInv, TypeOK
    <3> QED
      BY <3>1 DEF ManagedRulesInv, NoSetWithoutVersion
  <2>2. CASE n = set.name
    <3>1. sets'[n] = set.dir /\ set.dir # 0
      BY <1>1, <1>4, <2>2, ManagedRulesAssumption
      DEF ManagedRulesInv, TypeOK, Dirs
    <3>2. versions'[n][set.version] = set.checksum
      BY <1>1, <1>4, <2>2 DEF ManagedRulesInv, TypeOK
    <3>3. set.checksum # NoRow
      BY <1>4, ManagedRulesAssumption
    <3> QED
      BY <1>4, <3>1, <3>2, <3>3
  <2> QED
    BY <2>1, <2>2
<1>8. ASSUME NEW x \in Workers
      PROVE  Progress(x)' /\ FoundOnDisk(x)'
  <2>1. CASE x = w
    BY <1>1, <1>2, <1>5, <2>1
    DEF ManagedRulesInv, Progress, FoundOnDisk
  <2>2. CASE x # w
    <3>1. worker'[x] = worker[x] /\ Directory(x)' = Directory(x)
      BY <1>5, <2>2 DEF Directory
    <3>2. Progress(x)'
      BY <1>1, <3>1 DEF ManagedRulesInv, Progress, Complete
    <3>3. FoundOnDisk(x)'
      BY <1>1, <3>1 DEF ManagedRulesInv, FoundOnDisk
    <3> QED
      BY <3>2, <3>3
  <2> QED
    BY <2>1, <2>2
<1>9. ASSUME worker[w].began = edits
      PROVE  \A d \in Dirs : d = k \/ RowsMatch(d) => RowsMatch(d)'
  <2>1. k \in Dirs
    BY <1>2 DEF Dirs
  <2>2. set = [name |-> disk[k].meta.name, version |-> disk[k].meta.version,
               dir |-> k, checksum |-> disk[k].files]
    BY <1>2, <1>9 DEF ManagedRulesInv, FoundOnDisk, Current
  <2>3. ASSUME NEW d \in Dirs, d = k \/ RowsMatch(d)
        PROVE  RowsMatch(d)'
    <3> DEFINE meta == disk[d].meta
    <3>1. CASE meta.name # set.name
      <4>1. d # k
        BY <2>2, <3>1
      <4>2. sets'[meta.name] = sets[meta.name]
        BY <1>1, <3>1, <4>1, <2>3 DEF RowsMatch, ManagedRulesInv, TypeOK
      <4>3. versions'[meta.name] = versions[meta.name]
        BY <1>1, <3>1, <4>1, <2>3 DEF RowsMatch, ManagedRulesInv, TypeOK
      <4> QED
        BY <1>1, <2>3, <4>1, <4>2, <4>3 DEF RowsMatch
    <3>2. CASE meta.name = set.name
      <4>1. sets'[meta.name] = k /\ disk[k].meta.name = meta.name
        BY <1>1, <1>4, <2>2, <3>2 DEF ManagedRulesInv, TypeOK
      <4>2. CASE meta.version = set.version
        <5>1. versions'[meta.name][meta.version] = disk[k].files
          BY <1>1, <1>4, <2>2, <3>2, <4>2 DEF ManagedRulesInv, TypeOK
        <5>2. meta = disk[k].meta
          <6>1. /\ meta \in [name : STRING, version : STRING]
                /\ disk[k].meta \in [name : STRING, version : STRING]
            BY <2>1, ManagedRulesAssumption DEF ManagedRulesInv, TypeOK
          <6>2. /\ meta.name = disk[k].meta.name
                /\ meta.version = disk[k].meta.version
            BY <2>2, <3>2, <4>2
          <6> QED
            BY <6>1, <6>2
        <5> QED
          BY <1>1, <2>1, <4>1, <5>1, <5>2 DEF RowsMatch
      <4>3. CASE meta.version # set.version
        <5>1. d # k
          BY <2>2, <4>3
        <5>2. versions'[meta.name][meta.version] =
                versions[meta.name][meta.version]
          BY <1>1, <1>4, <3>2, <4>3 DEF ManagedRulesInv, TypeOK
        <5> QED
          BY <1>1, <2>1, <2>3, <4>1, <5>1, <5>2 DEF RowsMatch
      <4> QED
        BY <4>2, <4>3
    <3> QED
      BY <3>1, <3>2
  <2> QED
    BY <2>3
<1>10. ASSUME NEW x \in Workers
       PROVE  StillRecorded(x)'
  <2> SUFFICES ASSUME worker'[x].began = edits, x \notin overtaken',
                      worker'[x].phase \in {"recording", "upserted", "done"},
                      NEW i \in 1 .. Len(worker'[x].found),
                      i < worker'[x].next
               PROVE  RowsMatch(i)'
    BY <1>1 DEF StillRecorded
  <2>1. worker[w].began = edits /\ x \notin overtaken
    BY <1>1
  <2>2. worker[x].began = edits /\ worker'[x].found = worker[x].found
    BY <1>5
  <2>3. i \in Dirs
    <3>1. Len(worker[x].found) <= NumDirs /\ worker[x].found \in Seq(RuleSets)
      BY DEF ManagedRulesInv, Progress, TypeOK, WorkerType
    <3> QED
      BY <2>2, <3>1, ManagedRulesAssumption DEF Dirs
  <2>4. CASE x = w
    <3>1. i <= k
      BY <1>2, <1>5, <2>4
    <3>2. i < k => RowsMatch(i)
      BY <1>1, <2>1, <2>2, <2>4 DEF ManagedRulesInv, StillRecorded
    <3> QED
      BY <1>2, <1>9, <2>1, <2>3, <3>1, <3>2
  <2>5. CASE x # w
    <3>1. RowsMatch(i)
      BY <1>5, <2>1, <2>2, <2>5 DEF ManagedRulesInv, StillRecorded
    <3> QED
      BY <1>9, <2>1, <2>3, <3>1
  <2> QED
    BY <2>4, <2>5
<1> QED
  BY <1>6, <1>7, <1>8, <1>10 DEF ManagedRulesInv

-----------------------------------------------------------------------------
(* The invariant and the theorems. *)

LEMMA InvInit == Init => ManagedRulesInv
<1> SUFFICES ASSUME Init PROVE ManagedRulesInv
  OBVIOUS
<1>1. TypeOK
  <2>1. NewWorker \in WorkerType
    BY DEF NewWorker, WorkerType, Phases
  <2> QED
    <3>1. disk \in [Dirs -> [meta : Metadata, files : Contents]]
      BY ManagedRulesAssumption DEF Init, Dirs
    <3>2. edits \in 0 .. MaxEdits /\ runs \in 0 .. MaxRuns
      BY ManagedRulesAssumption DEF Init
    <3>3. /\ sets \in [Names -> {0} \cup Dirs]
          /\ versions \in [Names -> [Versions -> Contents \cup {NoRow}]]
          /\ rowLock \in [Names -> Workers \cup {NoWorker}]
      BY DEF Init
    <3> QED
      BY <2>1, <3>1, <3>2, <3>3 DEF Init, TypeOK
<1>2. ASSUME NEW w \in Workers
      PROVE  Progress(w) /\ FoundOnDisk(w) /\ StillRecorded(w)
  <2>1. /\ worker[w].phase = "off" /\ worker[w].began = 0
        /\ worker[w].found = <<>> /\ worker[w].next = 1
        /\ edits = 0
    BY DEF Init, NewWorker
  <2> QED
    BY <2>1, ManagedRulesAssumption DEF Progress, FoundOnDisk, StillRecorded
<1>3. NoSetWithoutVersion
  BY DEF Init, NoSetWithoutVersion
<1> QED
  BY <1>1, <1>2, <1>3 DEF ManagedRulesInv

LEMMA InvStep == ManagedRulesInv /\ [Next]_vars => ManagedRulesInv'
<1> SUFFICES ASSUME ManagedRulesInv, [Next]_vars PROVE ManagedRulesInv'
  OBVIOUS
<1>1. CASE UNCHANGED vars
  <2> USE <1>1 DEF vars, ManagedRulesInv
  <2>1. TypeOK' /\ NoSetWithoutVersion'
    BY DEF TypeOK, NoSetWithoutVersion
  <2>2. \A w \in Workers : Progress(w)' /\ FoundOnDisk(w)'
    BY DEF Progress, FoundOnDisk, Directory, Complete
  <2>3. \A w \in Workers : StillRecorded(w)'
    BY DEF StillRecorded, RowsMatch
  <2> QED
    BY <2>1, <2>2, <2>3
<1>2. ASSUME NEW w \in Workers,
             Connect(w) \/ Scan(w) \/ Record(w) \/ Expire(w) \/ Fail(w)
               \/ ScanFails(w) \/ Exit(w)
      PROVE  ManagedRulesInv'
  BY <1>2, ConnectKeeps, ReadMetadataKeeps, ChecksumDirectoryKeeps,
     ScannedKeeps, UpsertSetKeeps, CommitKeeps, RecordedAllKeeps, ExpireKeeps,
     FailKeeps, ScanFailsKeeps, ExitKeeps
  DEF Scan, Record
<1> QED
  BY <1>1, <1>2, EditDirectoryKeeps, BeginKeeps DEF Next, Finished

(* The invariant of the scan: what runs have found and recorded, and that  *)
(* current runs agree with the directories (rules.go:53-141).              *)
THEOREM ManagedRulesCorrect == Spec => []ManagedRulesInv
BY InvInit, InvStep, PTL DEF Spec

(* A set is never listed without a version or a version without its set,   *)
(* whatever runs break off (postgres.go:17-57).                            *)
THEOREM SetsHaveVersions == Spec => []NoSetWithoutVersion
<1>1. ManagedRulesInv => NoSetWithoutVersion
  BY DEF ManagedRulesInv
<1> QED
  BY <1>1, ManagedRulesCorrect, PTL

(* A run that ends well and is not overtaken leaves the tables saying what *)
(* the directories say (rules.go:53-66).                                   *)
THEOREM CompletedRunsAreRecorded == Spec => []CompletedRunMatchesDisk
<1>1. ManagedRulesInv => CompletedRunMatchesDisk
  <2> SUFFICES ASSUME ManagedRulesInv, NEW w \in Workers, w \notin overtaken,
                      worker[w].phase = "done", worker[w].records,
                      worker[w].began = edits, NEW d \in Dirs
               PROVE  RowsMatch(d)
    BY DEF CompletedRunMatchesDisk
  <2>1. Len(worker[w].found) = NumDirs /\ worker[w].next = NumDirs + 1
    BY DEF ManagedRulesInv, Progress
  <2> QED
    BY <2>1, ManagedRulesAssumption DEF ManagedRulesInv, StillRecorded, Dirs
<1> QED
  BY <1>1, ManagedRulesCorrect, PTL

=============================================================================
