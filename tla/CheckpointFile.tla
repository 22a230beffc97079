--------------------------- MODULE CheckpointFile ---------------------------
(***************************************************************************)
(* The checkpoint file of multimodal.process and of embedding.index: JSON  *)
(* lines, one per finished item, appended by the runs that share a cache   *)
(* key and read by the next one.  An append that fails is swallowed; what  *)
(* it leaves behind may be part of a line, or a line without its end, and  *)
(* the next line is then appended to that.  Lines that are not JSON are    *)
(* skipped when the file is read, and of several with one key the last     *)
(* counts; but a character cut in two cannot be decoded, and then the file *)
(* as a whole is read as if it were empty.                                 *)
(***************************************************************************)
EXTENDS Integers, SequencesExt

CONSTANTS
    MaxBadAppends,  \* bound: how many appends may fail
    MaxClears       \* bound: how many times the file may be deleted

ASSUME FileAssumption == MaxBadAppends \in Nat /\ MaxClears \in Nat

VARIABLES
    lines,          \* the lines that are JSON, oldest first
    ending,         \* how the file ends: "clean", "torn" (part of a line) or
                    \* "unended" (the last line, without a newline)
    legible,        \* whether all of it can be decoded
    badAppends,     \* how many appends have failed
    clears          \* how many times the file was deleted

fileVars == <<lines, ending, legible, badAppends, clears>>

FileInit ==
    /\ lines = <<>>
    /\ ending = "clean"
    /\ legible = TRUE
    /\ badAppends = 0
    /\ clears = 0

\* Whatever is appended to an unended line makes it unreadable.
Joined == IF ending = "unended" THEN Front(lines) ELSE lines

Overwrite(line) ==                    \* mutant: the file is opened for writing
    /\ lines' = <<line>>
    /\ ending' = "clean"
    /\ UNCHANGED <<legible, badAppends, clears>>
AppendLine(line) ==
    /\ lines' = IF ending = "clean" THEN Append(lines, line) ELSE Joined
    /\ ending' = "clean"
    /\ UNCHANGED <<legible, badAppends, clears>>

\* Nothing, part of the line, or all but its end is written.
BadAppend(line) ==
    /\ badAppends < MaxBadAppends
    /\ badAppends' = badAppends + 1
    /\ \/ UNCHANGED <<lines, ending, legible>>
       \/ lines' = Joined /\ ending' = "torn" /\ legible' \in {legible, FALSE}
       \/ /\ ending = "clean"
          /\ lines' = Append(lines, line)
          /\ ending' = "unended"
          /\ UNCHANGED legible
    /\ UNCHANGED clears

\* DELETE /workflows/resume-cache
ClearFile ==
    /\ clears < MaxClears
    /\ lines # <<>> \/ ending # "clean"
    /\ lines' = <<>>
    /\ ending' = "clean"
    /\ legible' = TRUE
    /\ clears' = clears + 1
    /\ UNCHANGED badAppends

\* The last line of every key, and the dict that is read from the file.
LastPerKey(ls) ==
    {ls[i] : i \in {i \in DOMAIN ls : \A j \in DOMAIN ls : ls[j].key = ls[i].key => j <= i}}
Loaded == IF legible THEN LastPerKey(lines) ELSE {}

FileTypeOK ==
    /\ ending \in {"clean", "torn", "unended"}
    /\ ending = "unended" => lines # <<>>
    /\ legible \in BOOLEAN
    /\ badAppends \in 0 .. MaxBadAppends
    /\ clears \in 0 .. MaxClears

=============================================================================
