------------------------------- MODULE OpStats -------------------------------
(***************************************************************************)
(* The operational statistics of src/fcp/client/opstats: OpStatsLoggerImpl *)
(* gathers the events of one run and commits them through                  *)
(* PdsBackedOpStatsDb, whose file is shared by the runs of all processes   *)
(* and guarded by a file lock.  Runs are started, killed and finished in   *)
(* any order, and reads of the file may fail; DbFaults adds what may go    *)
(* wrong beside that.                                                      *)
(* Times are in half seconds: the code compares whole seconds with         *)
(* milliseconds.                                                           *)
(***************************************************************************)
EXTENDS Integers, Sequences, SequencesExt, FiniteSetsExt

CONSTANTS NumRuns,
          Ttl,         \* ttl_
          MaxBytes,    \* max_size_bytes_, in events
          MaxEvents,   \* bound on the events that a run logs
          LastTime,    \* bound on the clock
          DbFaults     \* "write": a write to the store may fail; "empty": a run may
                       \* end before its first event (an invalid entry point uri)

ASSUME OpStatsBounds == NumRuns \in Nat /\ Ttl \in Nat /\ MaxBytes \in Nat

Runs == 1..NumRuns

VARIABLES
  db,       \* the stored OpStatsSequence
  locked,   \* the file lock (with known_files, for loggers of one process)
  logger,   \* by run: "none", "open", "closed"
  stats,    \* by run: stats_.events
  already,  \* by run: already_committed_
  uploads,  \* by run: when its upload was let go ahead, -1 before
  clock

opsVars == <<db, locked, logger, stats, already, uploads, clock>>

\* CreateEmptyData
EmptyDb(t) == [runs |-> <<>>, trust |-> t]

OpStatsInit ==
  /\ db = EmptyDb(0) /\ locked = FALSE
  /\ logger = [r \in Runs |-> "none"] /\ stats = [r \in Runs |-> <<>>]
  /\ already = [r \in Runs |-> FALSE]
  /\ uploads = [r \in Runs |-> -1] /\ clock = 0

-----------------------------------------------------------------------------
(* PdsBackedOpStatsDb.                                                     *)

InfinitePast == -1000
Seconds(t) == t - (t % 2)

GetLastUpdateTime(entry) ==
  IF entry.events = <<>> THEN InfinitePast ELSE Seconds(Last(entry.events).time)

GetEarliestTrustWorthyTime(entries) ==
  LET dated == SelectSeq(entries, LAMBDA e : e.events # <<>>)
  IN  IF dated = <<>> THEN clock ELSE Head(Head(dated).events).time

RemoveOutdatedData(d) ==
  LET kept == SelectSeq(d.runs, LAMBDA e : GetLastUpdateTime(e) >= clock - Ttl)
  IN  [runs |-> kept, trust |-> IF kept = d.runs THEN d.trust ELSE clock - Ttl]

Bytes(entries) == FoldSeq(LAMBDA e, n : n + Len(e.events), 0, entries)

\* Entries go from the start until the rest is below the limit.
PruneOldData(d) ==
  LET n == Min({k \in 0..Len(d.runs) :
                  Bytes(SubSeq(d.runs, k + 1, Len(d.runs))) <= MaxBytes})
      kept == SubSeq(d.runs, n + 1, Len(d.runs))
  IN  IF n = 0 THEN d ELSE [runs |-> kept, trust |-> GetEarliestTrustWorthyTime(kept)]

\* What CommitToStorage does to the entries.
Commit(r, events, entries) ==
  LET entry == [run |-> r, events |-> events] IN
  IF already[r] /\ entries # <<>>
  THEN [entries EXCEPT ![Len(entries)] = entry]
  ELSE Append(entries, entry)

\* A read that fails has the store reset, and the time is set anew.
Transformed(r, events, readable) ==
  LET old == IF readable THEN RemoveOutdatedData(db) ELSE EmptyDb(InfinitePast)
      new == PruneOldData([old EXCEPT !.runs = Commit(r, events, @)])
  IN  IF new.trust = InfinitePast
      THEN [new EXCEPT !.trust = GetEarliestTrustWorthyTime(new.runs)] ELSE new

\* The outcomes of Transform: ok, or an error of the write after a read that
\* worked, of the reset, or of the write after the reset.
Transform(r, events, ok) ==
  \/ /\ ok
     /\ \E readable \in BOOLEAN : db' = Transformed(r, events, readable)
  \/ /\ ~ok /\ "write" \in DbFaults
     /\ db' \in {db, EmptyDb(clock)}

\* already_committed_ is set whatever Transform returned.
CommitToStorage(r, events, ok) ==
  /\ Transform(r, events, ok)
  /\ already' = [already EXCEPT ![r] = TRUE]

-----------------------------------------------------------------------------
(* The life of a run.                                                      *)

AcquireFileLock == ~locked /\ locked' = TRUE
ReleaseFileLock == locked' = FALSE

\* PdsBackedOpStatsDb::Create: without the lock the run logs nothing.
OpStatsCreate(r) ==
  /\ logger[r] = "none"
  /\ \A q \in Runs : q < r => logger[q] # "none"
  /\ \/ AcquireFileLock /\ logger' = [logger EXCEPT ![r] = "open"]
     \/ locked /\ logger' = [logger EXCEPT ![r] = "closed"] /\ UNCHANGED locked
  /\ UNCHANGED <<db, stats, already, uploads, clock>>

WithEvent(r, kind) == Append(stats[r], [kind |-> kind, time |-> clock])

AddNewEventToStats(r, kind) == stats' = [stats EXCEPT ![r] = WithEvent(r, kind)]

\* An event of a check-in or a computation, or the abort of an upload.
AddEvent(r, kind) ==
  /\ logger[r] = "open" /\ Len(stats[r]) < MaxEvents
  /\ kind = "aborted" <=> uploads[r] >= 0
  /\ AddNewEventToStats(r, kind)
  /\ UNCHANGED <<db, locked, logger, already, uploads, clock>>


\* LogResultUploadStarted, LogFailureUploadStarted: the upload goes ahead only
\* if the run is on disk.
LogResultUploadStarted(r) ==
  /\ logger[r] = "open" /\ ~already[r] /\ Len(stats[r]) < MaxEvents
  /\ AddNewEventToStats(r, "upload")
  /\ \E ok \in BOOLEAN :
       /\ CommitToStorage(r, WithEvent(r, "upload"), ok)
       /\ uploads' = IF ok THEN [uploads EXCEPT ![r] = clock] ELSE uploads
  /\ UNCHANGED <<locked, logger, clock>>

\* ~OpStatsLoggerImpl commits and drops the database and its lock.
Destroy(r) ==
  /\ logger[r] = "open" /\ (stats[r] # <<>> \/ "empty" \in DbFaults)
  /\ stats' = [stats EXCEPT ![r] = <<>>]
  /\ \E ok \in BOOLEAN : CommitToStorage(r, stats[r], ok)
  /\ logger' = [logger EXCEPT ![r] = "closed"] /\ ReleaseFileLock
  /\ UNCHANGED <<uploads, clock>>

\* The process of an open logger is killed: the lock goes with it.
Killed(r) ==
  /\ logger[r] = "open"
  /\ logger' = [logger EXCEPT ![r] = "closed"] /\ ReleaseFileLock
  /\ stats' = [stats EXCEPT ![r] = <<>>]
  /\ UNCHANGED <<db, already, uploads, clock>>

\* Read, for the example store: a failure resets the store.
ReadFails ==
  /\ locked
  /\ db' = EmptyDb(clock)
  /\ UNCHANGED <<locked, logger, stats, already, uploads, clock>>

OpStatsTick ==
  /\ clock < LastTime /\ clock' = clock + 1
  /\ UNCHANGED <<db, locked, logger, stats, already, uploads>>

OpStatsNext ==
  \/ OpStatsTick \/ ReadFails
  \/ \E r \in Runs : \/ OpStatsCreate(r) \/ LogResultUploadStarted(r) \/ Destroy(r) \/ Killed(r)
                     \/ \E kind \in {"checkin", "aborted"} : AddEvent(r, kind)

OpStatsSpec == OpStatsInit /\ [][OpStatsNext]_opsVars

-----------------------------------------------------------------------------
(* What is read from the database.                                         *)

Has(entry, kind) == \E i \in DOMAIN entry.events : entry.events[i].kind = kind

\* GetLastSuccessfulContribution, of the runs of one task.
GetLastSuccessfulContribution ==
  LET good == {i \in DOMAIN db.runs : Has(db.runs[i], "upload") /\ ~Has(db.runs[i], "aborted")}
  IN  IF good = {} THEN 0 ELSE db.runs[Max(good)].run

\* OpStatsExampleIterator: the newest first, last updated within the bounds.
ExampleIterator(lower, upper) ==
  Reverse(SelectSeq(db.runs, LAMBDA e : GetLastUpdateTime(e) \in lower..upper))

-----------------------------------------------------------------------------
(* Properties.                                                             *)

\* opstats.proto: the entries are in sequential order.  No run has two entries
\* and the order is that of the runs, though a run commits more than once,
\* entries expire and are pruned, and the store is reset under a run that has
\* already committed.
RunsInOrder ==
  \A i, j \in DOMAIN db.runs : i < j => db.runs[i].run < db.runs[j].run

=============================================================================
