----------------------------- MODULE SessionLog -----------------------------
(***************************************************************************)
(* The daily files of a session (fix/log.rs): SessionLog, a mutex around   *)
(* DailyFiles that the reader and the writer thread of a session share.    *)
(* A caller takes the time first and the mutex after, so the dates that    *)
(* reach rotate may go back.  The messages and the event file of a day are *)
(* opened and deleted together: one set of records stands for them.        *)
(***************************************************************************)
EXTENDS Integers, FiniteSets

CONSTANTS
    Retentions,   \* values of FIX_LOG_RETENTION_DAYS
    MaxDay,       \* bound: the last day
    MaxFaults     \* bound: failures of the file system

ASSUME LogAssumption ==
    /\ Retentions \subseteq Nat
    /\ MaxDay \in Nat \ {0, 1} /\ MaxFaults \in Nat   \* LogInit is on day 2

VARIABLES
    today,       \* the local date
    retention,   \* DailyFiles.retention_days
    log,         \* DailyFiles: its date, and the day of the files it has open
    files,       \* the records on disk, by day
    written,     \* records whose write was not refused
    newest,      \* the latest date the log had
    spared,      \* days prune failed to delete
    faults       \* failures so far

logging == <<today, retention, log, files, written, newest, spared, faults>>

Day == 1..MaxDay

Record(from, n, day) == [from |-> from, n |-> n, day |-> day]

\* prune_session_logs: the age is reached; 0 keeps everything.
Expired(day, at) == retention # 0 /\ at - day >= retention

Pruned(at) == [d \in Day |-> IF Expired(d, at) THEN {} ELSE files[d]]

\* A file of an earlier process may be there; open opens today's and prunes.
LogInit ==
    /\ today = 2
    /\ retention \in Retentions
    /\ log = [date |-> 2, handle |-> 2]
    /\ written = {Record("old", 1, 1)}
    /\ files = [d \in Day |-> IF d = 1 /\ ~Expired(1, 2) THEN written ELSE {}]
    /\ newest = 2 /\ spared = {} /\ faults = 0

\* Mutant of Unopened: the date is noted before the files are open.
UnopenedDated(day) == [log EXCEPT !.date = day]

\* open_files failed: rotate leaves the log as it was.
Unopened(day) == log

\* Rotate could not open the files of the day: the record is given up.
OpenFails(r) ==
    /\ r.day # log.date
    /\ faults < MaxFaults
    /\ faults' = faults + 1
    /\ log' = Unopened(r.day)
    /\ UNCHANGED <<today, retention, files, written, newest, spared>>

\* write_record under the mutex: rotate when the date differs, prune, write.
\* Prune may fail, and so may the write.
WriteRecord(r) ==
    \E unpruned, unwritten \in {0, 1} :
        LET turn == r.day # log.date
            kept == IF turn /\ unpruned = 0 THEN Pruned(r.day) ELSE files
            to == IF turn THEN r.day ELSE log.handle
            new == IF unwritten = 0 THEN {r} ELSE {}
        IN  /\ unpruned = 1 => turn
            /\ faults + unpruned + unwritten <= MaxFaults
            /\ faults' = faults + unpruned + unwritten
            /\ log' = [date |-> r.day, handle |-> to]
            /\ files' = [kept EXCEPT ![to] = @ \cup new]
            /\ written' = written \cup new
            /\ newest' = IF r.day > newest THEN r.day ELSE newest
            /\ spared' = CASE ~turn -> spared
                           [] turn /\ unpruned = 0 -> {}
                           [] turn /\ unpruned = 1 -> {d \in Day : Expired(d, r.day)}
            /\ UNCHANGED <<today, retention>>

Midnight ==
    /\ today < MaxDay
    /\ today' = today + 1
    /\ UNCHANGED <<retention, log, files, written, newest, spared, faults>>

-----------------------------------------------------------------------------
(* Properties *)

\* Every record is in the file of its own day, after a failure too; it stays
\* there as long as no date has made it old enough to delete, and an older file
\* outlives a prune only when its deletion failed (rotate, prune_session_logs).
Filed ==
    /\ \A d \in Day : \A r \in files[d] : r.day = d
    /\ \A r \in written : Expired(r.day, newest) \/ r \in files[r.day]
    /\ \A d \in Day : files[d] # {} => ~Expired(d, log.date) \/ d \in spared
=============================================================================
