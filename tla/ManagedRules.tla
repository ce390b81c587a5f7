---------------------------- MODULE ManagedRules ----------------------------
(***************************************************************************)
(* The worker's managed-rules scan (services/worker): main runs it once,   *)
(* it reads every rule-set directory, then records the sets one by one,    *)
(* each in a transaction that upserts the set and its version, and waits   *)
(* for a signal.  An error ends the process.                               *)
(*                                                                         *)
(* Several workers may run, be killed and be started again, and somebody   *)
(* may change the directories meanwhile.  A rule set is its name, version  *)
(* and the contents of its files, for which the checksum stands.           *)
(***************************************************************************)
EXTENDS Integers, Sequences

CONSTANTS Workers,   \* worker processes
          NoWorker,  \* nobody
          NumDirs,   \* directories, in the order of their names
          Disks,     \* what the directories may hold at first
          Metadata,  \* what a ruleset.json may say: name and version
          Contents,  \* what a directory's rule files may hold
          MaxEdits,  \* bound on changes of the directories
          MaxRuns    \* bound on starts of workers

NoRow == "none"

ASSUME ManagedRulesAssumption ==
  /\ NoWorker \notin Workers
  /\ NumDirs \in Nat
  /\ Metadata \subseteq [name : STRING, version : STRING]
  /\ NoRow \notin Contents
  /\ Disks \subseteq [1 .. NumDirs -> [meta : Metadata, files : Contents]]
  /\ MaxEdits \in Nat /\ MaxRuns \in Nat

Dirs == 1 .. NumDirs
Names == {m.name : m \in Metadata} \ {""}
Versions == {m.version : m \in Metadata} \ {""}

VARIABLES
  disk,     \* the directories: metadata and contents
  edits,    \* changes so far
  runs,     \* starts so far
  worker,   \* where each worker is and what it has read
  sets,     \* managed_rule_sets by name: local_path, 0 if there is no row
  versions, \* managed_rule_versions by set and version: checksum_sha256
  rowLock,  \* the transaction that holds a row of managed_rule_sets
  overtaken \* history: workers since whose start a run that began before
            \* the last change has committed a set

vars == <<disk, edits, runs, worker, sets, versions, rowLock, overtaken>>
tables == <<sets, versions>>

NoMeta == [name |-> "", version |-> ""]

(* A process that is not running. *)
NewWorker ==
  [phase |-> "off", began |-> 0, records |-> FALSE, expired |-> FALSE,
   meta |-> NoMeta, found |-> <<>>, next |-> 1]

Init ==
  /\ disk \in Disks
  /\ edits = 0
  /\ runs = 0
  /\ worker = [w \in Workers |-> NewWorker]
  /\ sets = [n \in Names |-> 0]
  /\ versions = [n \in Names |-> [v \in Versions |-> NoRow]]
  /\ rowLock = [n \in Names |-> NoWorker]
  /\ overtaken = {}

Goto(w, phase) == worker' = [worker EXCEPT ![w].phase = phase]

(* The transaction of w, if it has one open, is over. *)
Unlocked(w) == [n \in Names |-> IF rowLock[n] = w THEN NoWorker ELSE rowLock[n]]

-----------------------------------------------------------------------------
(* Somebody changes one file at a time. *)
EditDirectory(d, meta, files) ==
  /\ edits < MaxEdits
  /\ edits' = edits + 1
  /\ \/ disk' = [disk EXCEPT ![d].meta = meta]
     \/ disk' = [disk EXCEPT ![d].files = files]
  /\ disk' # disk
  /\ UNCHANGED <<runs, worker, tables, rowLock, overtaken>>

-----------------------------------------------------------------------------
(* Scanning: nothing here looks at the deadline. *)

(* scanManagedRules: without a database URL nothing will be recorded; an   *)
(* unreachable database ends the run (see Fail).                           *)
Begin(w, records) ==
  /\ worker[w].phase = "off"
  /\ runs < MaxRuns
  /\ runs' = runs + 1
  /\ worker' = [worker EXCEPT ![w] =
       [@ EXCEPT !.phase = IF records THEN "connecting" ELSE "metadata",
                 !.began = edits, !.records = records]]
  /\ overtaken' = overtaken \ {w}
  /\ UNCHANGED <<disk, edits, tables, rowLock>>

Connect(w) ==
  /\ worker[w].phase = "connecting"
  /\ ~ worker[w].expired
  /\ Goto(w, "metadata")
  /\ UNCHANGED <<disk, edits, runs, tables, rowLock, overtaken>>

(* readMetadata: a name and a version are required. *)
Complete(meta) == meta.name # "" /\ meta.version # ""

Directory(w) == Len(worker[w].found) + 1

ReadMetadata(w) ==
  LET meta == disk[Directory(w)].meta IN
  /\ worker[w].phase = "metadata"
  /\ Directory(w) \in Dirs
  /\ worker' = [worker EXCEPT ![w].phase = IF Complete(meta) THEN "files"
                                                             ELSE "failed",
                              ![w].meta = meta]
  /\ UNCHANGED <<disk, edits, runs, tables, rowLock, overtaken>>

(* checksumDirectory, read after the metadata *)
ChecksumDirectory(w) ==
  /\ worker[w].phase = "files"
  /\ worker' = [worker EXCEPT ![w].phase = "metadata", ![w].meta = NoMeta,
       ![w].found = Append(@, [name |-> worker[w].meta.name,
                               version |-> worker[w].meta.version,
                               dir |-> Directory(w),
                               checksum |-> disk[Directory(w)].files])]
  /\ UNCHANGED <<disk, edits, runs, tables, rowLock, overtaken>>

(* ScanLocalDirectory returns: only now is anything recorded. *)
Scanned(w) ==
  /\ worker[w].phase = "metadata"
  /\ Directory(w) \notin Dirs
  /\ Goto(w, IF worker[w].records THEN "recording" ELSE "done")
  /\ UNCHANGED <<disk, edits, runs, tables, rowLock, overtaken>>

-----------------------------------------------------------------------------
(* Recording. *)

Current(w) == worker[w].found[worker[w].next]

(* Mutant: the set's row is committed before its version's. *)
UpsertSetAlone(w) ==
  /\ worker[w].phase = "recording"
  /\ worker[w].next \in DOMAIN worker[w].found
  /\ ~ worker[w].expired
  /\ rowLock[Current(w).name] = NoWorker
  /\ sets' = [sets EXCEPT ![Current(w).name] = Current(w).dir]
  /\ rowLock' = [rowLock EXCEPT ![Current(w).name] = w]
  /\ Goto(w, "upserted")
  /\ UNCHANGED <<disk, edits, runs, versions, overtaken>>

(* The upsert of the set waits for another transaction on its row. *)
UpsertSet(w) ==
  /\ worker[w].phase = "recording"
  /\ worker[w].next \in DOMAIN worker[w].found
  /\ ~ worker[w].expired
  /\ rowLock[Current(w).name] = NoWorker
  /\ rowLock' = [rowLock EXCEPT ![Current(w).name] = w]
  /\ Goto(w, "upserted")
  /\ UNCHANGED <<disk, edits, runs, tables, overtaken>>

(* Mutant: a version that is already there is left as it is. *)
RecordedOnce(n, v, checksum) ==
  IF versions[n][v] = NoRow THEN checksum ELSE versions[n][v]

(* The upsert of a version replaces what the row held. *)
Recorded(n, v, checksum) == checksum

(* The upsert of the version, and the commit of both rows; its answer may  *)
(* be lost.                                                                *)
Commit(w) ==
  LET set == Current(w) IN
  /\ worker[w].phase = "upserted"
  /\ ~ worker[w].expired
  /\ sets' = [sets EXCEPT ![set.name] = set.dir]
  /\ versions' = [versions EXCEPT ![set.name][set.version] =
                    Recorded(set.name, set.version, set.checksum)]
  /\ rowLock' = Unlocked(w)
  /\ \/ worker' = [worker EXCEPT ![w].phase = "recording", ![w].next = @ + 1]
     \/ Goto(w, "failed")
  /\ overtaken' = IF worker[w].began = edits THEN overtaken ELSE Workers
  /\ UNCHANGED <<disk, edits, runs>>

RecordedAll(w) ==
  /\ worker[w].phase = "recording"
  /\ worker[w].next \notin DOMAIN worker[w].found
  /\ Goto(w, "done")
  /\ UNCHANGED <<disk, edits, runs, tables, rowLock, overtaken>>

-----------------------------------------------------------------------------
(* Failure. *)

Scanning == {"metadata", "files"}
Querying == {"connecting", "recording", "upserted"}

(* Mutant: the run has no deadline. *)
NeverExpire(w) == FALSE /\ UNCHANGED vars

(* Fifteen seconds have passed. *)
Expire(w) ==
  /\ worker[w].phase \in Scanning \cup Querying
  /\ ~ worker[w].expired
  /\ worker' = [worker EXCEPT ![w].expired = TRUE]
  /\ UNCHANGED <<disk, edits, runs, tables, rowLock, overtaken>>

(* A query fails, or is cancelled once the deadline has passed: the        *)
(* transaction rolls back and the process exits.                           *)
Fail(w) ==
  /\ worker[w].phase \in Querying
  /\ rowLock' = Unlocked(w)
  /\ Goto(w, "failed")
  /\ UNCHANGED <<disk, edits, runs, tables, overtaken>>

(* A directory or a file cannot be read. *)
ScanFails(w) ==
  /\ worker[w].phase \in Scanning
  /\ Goto(w, "failed")
  /\ UNCHANGED <<disk, edits, runs, tables, rowLock, overtaken>>

(* The process is gone, by os.Exit, a signal or a crash; the database      *)
(* rolls back what it had open.  It may be started again.                  *)
Exit(w) ==
  /\ worker[w].phase # "off"
  /\ rowLock' = Unlocked(w)
  /\ worker' = [worker EXCEPT ![w] = NewWorker]
  /\ UNCHANGED <<disk, edits, runs, tables, overtaken>>

(* Nothing more happens within the bounds. *)
Finished ==
  /\ \A w \in Workers : worker[w].phase = "off"
  /\ runs = MaxRuns
  /\ UNCHANGED vars

Scan(w) == ReadMetadata(w) \/ ChecksumDirectory(w) \/ Scanned(w)
Record(w) == UpsertSet(w) \/ Commit(w) \/ RecordedAll(w)

Next ==
  \/ \E d \in Dirs, meta \in Metadata, files \in Contents :
       EditDirectory(d, meta, files)
  \/ \E w \in Workers, records \in BOOLEAN : Begin(w, records)
  \/ \E w \in Workers : Connect(w) \/ Scan(w) \/ Record(w) \/ Expire(w)
                          \/ Fail(w) \/ ScanFails(w) \/ Exit(w)
  \/ Finished

Spec == Init /\ [][Next]_vars

(* Reading files ends, time passes, and a query whose context has expired  *)
(* returns; the database owes no answer.                                   *)
FairSpec ==
  /\ Spec
  /\ \A w \in Workers :
       /\ WF_vars(Scan(w) \/ RecordedAll(w))
       /\ WF_vars(Expire(w))
       /\ WF_vars(worker[w].expired /\ Fail(w))

-----------------------------------------------------------------------------
(* Properties. *)

(* Whenever the control API lists the sets, each has a version and each    *)
(* version a set, whatever run broke off between the two upserts           *)
(* (postgres.go:17-57).                                                    *)
NoSetWithoutVersion ==
  \A n \in Names : sets[n] # 0 <=> \E v \in Versions : versions[n][v] # NoRow

(* What the tables may say of a directory.  Directories that share a name, *)
(* or a name and a version, share the row: it is one of theirs.            *)
RowsMatch(d) ==
  LET meta == disk[d].meta
      namesakes == {e \in Dirs : disk[e].meta.name = meta.name}
      twins == {e \in Dirs : disk[e].meta = meta}
  IN  /\ sets[meta.name] \in namesakes
      /\ versions[meta.name][meta.version] \in {disk[e].files : e \in twins}

(* After a run that ended well, with no change since it began and no       *)
(* commit since then of a run that began before the last change, the       *)
(* tables say what the directories say, however many runs failed half-way  *)
(* or go on beside it (rules.go:53-66).                                    *)
CompletedRunMatchesDisk ==
  \A w \in Workers \ overtaken :
    worker[w].phase = "done" /\ worker[w].records /\ worker[w].began = edits
      => \A d \in Dirs : RowsMatch(d)

(* Every run comes to an end, also while another holds its row and the     *)
(* database says nothing (main.go:51).                                     *)
RunsEnd ==
  \A w \in Workers :
    worker[w].phase \in Scanning \cup Querying ~>
      worker[w].phase \in {"done", "failed", "off"}

-----------------------------------------------------------------------------
(* The inductive invariant behind the two safety properties. *)

Phases == {"off", "connecting", "metadata", "files", "recording", "upserted",
           "done", "failed"}

(* What readMetadata lets through and checksumDirectory completes. *)
RuleSets == [name : Names, version : Versions, dir : Dirs, checksum : Contents]

WorkerType ==
  [phase : Phases, began : Nat, records : BOOLEAN, expired : BOOLEAN,
   meta : Metadata \cup {NoMeta}, found : Seq(RuleSets), next : Nat]

TypeOK ==
  /\ disk \in [Dirs -> [meta : Metadata, files : Contents]]
  /\ edits \in 0 .. MaxEdits
  /\ runs \in 0 .. MaxRuns
  /\ worker \in [Workers -> WorkerType]
  /\ sets \in [Names -> {0} \cup Dirs]
  /\ versions \in [Names -> [Versions -> Contents \cup {NoRow}]]
  /\ rowLock \in [Names -> Workers \cup {NoWorker}]
  /\ overtaken \subseteq Workers

(* How far a run has come. *)
Progress(w) ==
  LET run == worker[w] IN
  /\ run.began <= edits
  /\ Len(run.found) <= NumDirs
  /\ run.phase \in {"off", "connecting"} => run.found = <<>>
  /\ run.phase \in {"off", "connecting", "metadata", "files"} => run.next = 1
  /\ run.phase = "files" =>
       run.meta \in Metadata /\ Complete(run.meta) /\ Directory(w) \in Dirs
  /\ run.phase \in {"recording", "upserted"} =>
       Len(run.found) = NumDirs /\ run.next \in 1 .. NumDirs + 1
  /\ run.phase = "upserted" => run.next <= NumDirs
  /\ run.phase = "done" /\ run.records =>
       Len(run.found) = NumDirs /\ run.next = NumDirs + 1

(* A run that began after the last change has found what is there ...      *)
FoundOnDisk(w) ==
  LET run == worker[w] IN
  run.began = edits =>
    /\ run.phase = "files" => run.meta = disk[Directory(w)].meta
    /\ \A i \in 1 .. Len(run.found) :
         run.found[i] = [name |-> disk[i].meta.name,
                         version |-> disk[i].meta.version,
                         dir |-> i,
                         checksum |-> disk[i].files]

(* ... and, unless it was overtaken, what it recorded is there still.      *)
StillRecorded(w) ==
  LET run == worker[w] IN
  /\ run.began = edits
  /\ run.phase \in {"recording", "upserted", "done"}
  /\ w \notin overtaken
  => \A i \in 1 .. Len(run.found) : i < run.next => RowsMatch(i)

ManagedRulesInv ==
  /\ TypeOK
  /\ \A w \in Workers : Progress(w) /\ FoundOnDisk(w) /\ StillRecorded(w)
  /\ NoSetWithoutVersion

=============================================================================
