------------------------------ MODULE RunStore ------------------------------
(***************************************************************************)
(* The JSON file of one run (run_store.py).  Path.write_text opens the     *)
(* file, which empties it, and then writes it: save_run_record is two      *)
(* steps to everybody else who has the file, the readers and the deleter   *)
(* in the thread pool and the process that starts after a crash.  A file   *)
(* that is not complete JSON loads as None, like a file that is not there. *)
(***************************************************************************)
EXTENDS Naturals

CONSTANTS
    MaxLostSaves,   \* bound: how many saves may fail
    MaxDeletes      \* bound: how many times the record may be deleted

ASSUME StoreAssumption == MaxLostSaves \in Nat /\ MaxDeletes \in Nat

VARIABLES
    file,       \* the content of {run_id}.json
    lost,       \* how many saves have failed
    deletes,    \* how many times the file was deleted
    reader      \* the last answers of GET /workflows/runs/{run_id}: "found",
                \* "404", and the nodes whose results it has shown

storeVars == <<file, lost, deletes, reader>>

NoFile == [kind |-> "none"]
TornFile == [kind |-> "torn"]

\* What load_record makes of the file.
Loads == file.kind = "record"

StoreInit ==
    /\ file = NoFile
    /\ lost = 0
    /\ deletes = 0
    /\ reader = [answer |-> "none", shown |-> {}]

\* Path.write_text: open(..., "w") truncates, write() follows.  When the file
\* is deleted in between, the content goes to a file without a name.
OpenRecord == file' = TornFile /\ UNCHANGED <<lost, deletes, reader>>

WriteRecord(record) ==
    /\ file' = IF file = NoFile THEN NoFile ELSE record
    /\ UNCHANGED <<lost, deletes, reader>>

\* The caller swallows the exception: the record is not JSON or the file cannot
\* be opened (nothing happens to it), or write() fails (it stays empty).
LoseSave ==
    /\ lost < MaxLostSaves
    /\ lost' = lost + 1
    /\ UNCHANGED <<file, deletes, reader>>

DeleteRecord ==
    /\ deletes < MaxDeletes
    /\ file # NoFile
    /\ file' = NoFile
    /\ deletes' = deletes + 1
    /\ UNCHANGED <<lost, reader>>

\* A thread of the pool reads the record and answers with it, or with 404.
ReadRecord(shown) ==
    /\ reader' = IF Loads THEN [answer |-> "found", shown |-> shown]
                          ELSE [reader EXCEPT !.answer = "404"]
    /\ UNCHANGED <<file, lost, deletes>>

=============================================================================
