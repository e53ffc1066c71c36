----------------------------- MODULE Durable ------------------------------
(***************************************************************************)
(* What outlives a process: the file_records and scan_tasks tables, the    *)
(* sink that findings are published to, and the continuation topic.  The   *)
(* scan pipeline and the async worker share these and nothing else.        *)
(***************************************************************************)
EXTENDS ScanLedger

CONSTANTS
    Files,     \* hashing.FileID of (bucket, key, version)
    Scanners,  \* names of the enabled scanners
    SizeGate   \* the scanner name a coverage-gap finding carries

ASSUME GateAssumption == SizeGate \notin Scanners

VARIABLES
    records,  \* file_records: the FileIDs present
    ledger,   \* scan_tasks: a row for each pair
    sink,     \* what document the sink holds for each Finding.DocID
    topic     \* the continuation topic: messages not yet committed

durable == <<records, ledger, sink, topic>>

Tasks == Files \X Scanners
Docs  == Files \X (Scanners \cup {SizeGate})

\* DocID is deterministic in the pair, so the sink holds at most one document
\* for it and a second write replaces the first.  "answer" is the outcome of
\* having run the scanner (its verdict, or the error it ended in); "givenup"
\* is the async worker's document for an analysis it stopped waiting for.
Documents == {"none", "answer", "givenup"}

\* A message carries the pair it is about and the clock readings it was
\* published with, here as ticks until PollAfter and since SubmittedAt.
Messages == [file : Files, scanner : Scanners, due : Nat, age : 0..AgeCap]

DurableTypeOK ==
    /\ records \subseteq Files
    /\ ledger \in [Tasks -> Rows]
    /\ sink \in [Docs -> Documents]
    /\ topic \subseteq Messages

DurableInit ==
    /\ records = {}
    /\ ledger = [t \in Tasks |-> NoRow]
    /\ sink = [d \in Docs |-> "none"]
    /\ topic = {}

\* async.FromInput: the message published when a scan is handed off.
Continuation(f, s) ==
    [file |-> f, scanner |-> s, due |-> PollInterval, age |-> 0]

HasMessage(f, s) == \E m \in topic : m.file = f /\ m.scanner = s

SetRow(f, s, row) == ledger' = [ledger EXCEPT ![<<f, s>>] = row]
============================================================================
