------------------------------ MODULE DatabaseFile ------------------------------
(***************************************************************************)
(* How the three stores open their file.  Each creates it when there is    *)
(* none, empty, and then in a transaction gives it its schema or checks    *)
(* that it has it.  Processes open the same file at the same time, wait    *)
(* for its lock no longer than a timeout, die at any point and try again.  *)
(*                                                                         *)
(* SQLiteInvoiceStore and ReputationStore decide by the content of the     *)
(* file who writes the schema, whoever created the file; DisclosureStore   *)
(* decides that its creator does.                                          *)
(***************************************************************************)
EXTENDS Integers

CONSTANTS Processes, Nobody,
          MaxFaults     \* bound: deaths and timeouts

ASSUME DatabaseFileConstants == Nobody \notin Processes /\ MaxFaults \in Nat

VARIABLES decides,      \* "content" or "creator": which store it is
          file,         \* "absent", "empty", "ready" or "foreign"
          journal,      \* "delete" or "wal": the journal mode in the header of the file
          lock,         \* the process whose transaction is open
          opener,       \* [Processes -> where its opening is, and whether it created the file]
          faults

fileVars == <<decides, file, journal, lock, opener, faults>>

Places == {"start", "connect", "inside", "open"}
Opener == [at : Places, created : BOOLEAN]
Start == [at |-> "start", created |-> FALSE]

At(p, place) == opener' = [opener EXCEPT ![p].at = place]
StartAgain(p) == opener' = [opener EXCEPT ![p] = Start]

(* os.open with O_CREAT and O_EXCL; that the file exists is no failure.    *)
CreateFile(p) ==
  /\ opener[p].at = "start"
  /\ file' = IF file = "absent" THEN "empty" ELSE file
  /\ opener' = [opener EXCEPT ![p] = [at |-> "connect", created |-> file = "absent"]]
  /\ UNCHANGED <<decides, journal, lock, faults>>

(* DisclosureStore sets the journal mode before its transaction, and so    *)
(* before it looks what file this is: for a database in WAL mode that is a *)
(* write of its own, which the rollback after a refusal does not undo.     *)
LeaveWal(p) ==
  /\ opener[p].at = "connect" /\ lock = Nobody
  /\ decides = "creator" /\ journal = "wal"
  /\ journal' = "delete"
  /\ UNCHANGED <<decides, file, lock, opener, faults>>

BeginImmediate(p) ==
  /\ opener[p].at = "connect" /\ lock = Nobody
  /\ decides = "creator" => journal = "delete"
  /\ lock' = p
  /\ At(p, "inside")
  /\ UNCHANGED <<decides, file, journal, faults>>

(* With version and application id zero the content is an empty file, or   *)
(* another program's database when it has tables.                          *)
InitializesAnyTables(p) ==                                          \* mutant
  IF decides = "content" THEN file \in {"empty", "foreign"} ELSE opener[p].created
InitializesByCreator(p) == opener[p].created                        \* mutant
Initializes(p) ==
  IF decides = "content" THEN file = "empty" ELSE opener[p].created

AcceptsUnchecked(p) == TRUE                                         \* mutant
Accepts(p) == Initializes(p) \/ file = "ready"

CommitOpen(p) ==
  /\ opener[p].at = "inside" /\ Accepts(p)
  /\ file' = IF Initializes(p) THEN "ready" ELSE file
  /\ lock' = Nobody
  /\ At(p, "open")
  /\ UNCHANGED <<decides, journal, faults>>

(* An unknown version, identifier or schema: rolled back and raised.  The  *)
(* caller may open again.                                                  *)
RefuseFile(p) ==
  /\ opener[p].at = "inside" /\ ~Accepts(p)
  /\ lock' = Nobody
  /\ StartAgain(p)
  /\ UNCHANGED <<decides, file, journal, faults>>

LockTimeout(p) ==
  /\ opener[p].at = "connect" /\ lock # Nobody
  /\ faults < MaxFaults /\ faults' = faults + 1
  /\ StartAgain(p)
  /\ UNCHANGED <<decides, file, journal, lock>>

(* The death of a process ends its transaction without a trace.            *)
Die(p) ==
  /\ opener[p].at # "start"
  /\ faults < MaxFaults /\ faults' = faults + 1
  /\ lock' = IF lock = p THEN Nobody ELSE lock
  /\ StartAgain(p)
  /\ UNCHANGED <<decides, file, journal>>

FileInit ==
  /\ decides \in {"content", "creator"}
  /\ file \in {"absent", "foreign"}
  /\ journal \in {"delete", "wal"} /\ (journal = "wal" => file = "foreign")
  /\ lock = Nobody
  /\ opener = [p \in Processes |-> Start]
  /\ faults = 0

Work(p) == CreateFile(p) \/ LeaveWal(p) \/ BeginImmediate(p) \/ CommitOpen(p) \/ RefuseFile(p)

FileNext == \E p \in Processes : Work(p) \/ LockTimeout(p) \/ Die(p)

(* A process that opens goes on, and gets the lock if it is free again and *)
(* again: SQLite's busy handler polls for 5 or 30 seconds, and a           *)
(* transaction of another opener lasts much less.                          *)
FileFairness ==
  \A p \in Processes : WF_fileVars(Work(p)) /\ SF_fileVars(BeginImmediate(p))

FileSpec == FileInit /\ [][FileNext]_fileVars /\ FileFairness

(***************************************************************************)
(* Properties                                                              *)
(***************************************************************************)

(* Whoever was given a store finds the schema in its file, although        *)
(* another process created the file and may have died before it committed. *)
OpenIsReady == \A p \in Processes : opener[p].at = "open" => file = "ready"

(* The database of another program is never taken over.  The stores that   *)
(* decide by the content write nothing to it at all; DisclosureStore may   *)
(* have left its header changed when it refuses it.                        *)
ForeignUntouched ==
  [][file = "foreign" => /\ file' = "foreign"
                         /\ decides = "content" => journal' = journal]_fileVars

(* Processes that keep trying to open a file that is not another program's *)
(* all get their store: whatever dies or times out when the content        *)
(* decides, and if nothing does when the creator decides.  (A creator that *)
(* is lost leaves an empty file that no later opening accepts.)            *)
EveryoneOpens ==
  file # "foreign" /\ [](decides = "content" \/ faults = 0)
    => \A p \in Processes : <>(opener[p].at = "open")
=============================================================================
