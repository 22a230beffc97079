------------------------- MODULE MultimodalProcess --------------------------
(***************************************************************************)
(* multimodal.process: the descriptions of a document's images, tables and *)
(* formulas, and their checkpoint across runs.  Several runs share one     *)
(* cache key, one after the other or at the same time: they are tasks of   *)
(* one event loop, suspended only while the VLM is asked, and they read    *)
(* the file once, at their start.  A document may change between two runs. *)
(* Selecting the items and wording prompts and descriptions is left out: a *)
(* text is who wrote it, the VLM or the rule, and about which item.        *)
(***************************************************************************)
EXTENDS CheckpointFile

CONSTANTS
    Run,            \* the runs of the node with this cache key
    Item,           \* what the documents contain
    Fingerprint,    \* [Item -> ...]: the part of an item that is hashed
    Visual,         \* the items of a group that the VLM is asked about
    Configs,        \* the inputs considered: items, use_vlm, resume_from_cache
    Legacies        \* the files considered under the key of older versions

Texts == [by : {"vlm", "rule"}, of : Item]

\* What a line may be: a text about an item with the line's fingerprint.
FittingLines ==
    {line \in [key : Nat, print : {Fingerprint[x] : x \in Item}, text : Texts,
               answered : BOOLEAN] : line.print = Fingerprint[line.text.of]}

ASSUME ProcessAssumption ==
    /\ Configs \subseteq [items : Seq(Item), vlm : BOOLEAN, resume : BOOLEAN]
    /\ Legacies \subseteq Seq(FittingLines)

VARIABLES
    legacy,     \* the checkpoint under the key that is not normalised
    conf,       \* the input of each run
    pc,         \* "new", "item" (it has the event loop), "await" (the VLM is
                \* asked), "done", "failed", "dead" (with the process)
    pos,        \* the item each run is at
    known,      \* checkpoint_by_idx, a set of lines with different keys
    out,        \* descriptions: the text, and whether vlm_response has one
    used,       \* vlm_used_count
    asked,      \* history: the positions each run asked the VLM about
    before      \* history: the runs that were over when each run started

runVars == <<conf, pc, pos, known, out, used, asked, before>>
vars == <<fileVars, legacy, runVars>>

Live == {"item", "await"}
Ended == {"done", "failed", "dead"}

Init ==
    /\ FileInit
    /\ legacy \in Legacies
    /\ conf \in [Run -> Configs]
    /\ pc = [r \in Run |-> "new"]
    /\ pos = [r \in Run |-> 1]
    /\ known = [r \in Run |-> {}]
    /\ out = [r \in Run |-> <<>>]
    /\ used = [r \in Run |-> 0]
    /\ asked = [r \in Run |-> {}]
    /\ before = [r \in Run |-> {}]
    \* An explicit key has no legacy form; a computed one contains use_vlm.
    /\ legacy = <<>> \/ \A r, s \in Run : conf[r].vlm = conf[s].vlm

-----------------------------------------------------------------------------

LoopIsFree == \A r \in Run : pc[r] # "item"

\* setdefault: a line under the normalised key counts before a legacy one.
LegacyFirst ==                        \* mutant: the old key comes first
    LET L == LastPerKey(legacy)
    IN  L \cup {m \in Loaded : \A l \in L : l.key # m.key}
Checkpoint ==
    LET L == Loaded
    IN  L \cup {m \in LastPerKey(legacy) : \A l \in L : l.key # m.key}

Start(r) ==
    /\ pc[r] = "new"
    /\ LoopIsFree
    /\ pc' = [pc EXCEPT ![r] = "item"]
    /\ known' = [known EXCEPT ![r] = IF conf[r].resume THEN Checkpoint ELSE {}]
    /\ before' = [before EXCEPT ![r] = {s \in Run : pc[s] \in Ended}]
    /\ UNCHANGED <<fileVars, legacy, conf, pos, out, used, asked>>

AtItem(r) == pc[r] = "item" /\ pos[r] <= Len(conf[r].items)
At(r) == conf[r].items[pos[r]]

HitsByPosition(r) ==                  \* mutant: the fingerprint is not compared
    {line \in known[r] : line.key = pos[r]}
Hits(r) ==
    {line \in known[r] : line.key = pos[r] /\ line.print = Fingerprint[At(r)]}

Text(by, item) == [by |-> by, of |-> item]

\* The description of the current item; a text that is there counts as used.
Describe(r, text, answered, counts) ==
    /\ out' = [out EXCEPT ![r] = Append(@, [text |-> text, answered |-> answered])]
    /\ used' = [used EXCEPT ![r] = @ + (IF counts THEN 1 ELSE 0)]
    /\ pos' = [pos EXCEPT ![r] = @ + 1]

Save(r, text, answered) ==
    LET line == [key |-> pos[r], print |-> Fingerprint[At(r)],
                 text |-> text, answered |-> answered]
    IN  IF conf[r].resume THEN AppendLine(line) \/ BadAppend(line)
                          ELSE UNCHANGED fileVars

Reuse(r) ==
    /\ AtItem(r)
    /\ \E line \in Hits(r) : Describe(r, line.text, line.answered, TRUE)
    /\ UNCHANGED <<fileVars, legacy, conf, pc, known, asked, before>>

DescribeByRule(r) ==
    /\ AtItem(r)
    /\ Hits(r) = {}
    /\ ~(conf[r].vlm /\ At(r) \in Visual)
    /\ Describe(r, Text("rule", At(r)), FALSE, FALSE)
    /\ Save(r, Text("rule", At(r)), FALSE)
    /\ UNCHANGED <<legacy, conf, pc, known, asked, before>>

Ask(r) ==
    /\ AtItem(r)
    /\ Hits(r) = {}
    /\ conf[r].vlm /\ At(r) \in Visual
    /\ pc' = [pc EXCEPT ![r] = "await"]
    /\ asked' = [asked EXCEPT ![r] = @ \cup {pos[r]}]
    /\ UNCHANGED <<fileVars, legacy, conf, pos, known, out, used, before>>

\* The VLM answers, or it does not and the rule does.  Either is saved.
Answer(r) ==
    /\ pc[r] = "await"
    /\ LoopIsFree
    /\ \E answered \in BOOLEAN :
         LET text == Text(IF answered THEN "vlm" ELSE "rule", At(r))
         IN  Describe(r, text, answered, answered) /\ Save(r, text, answered)
    /\ pc' = [pc EXCEPT ![r] = "item"]
    /\ UNCHANGED <<legacy, conf, known, asked, before>>

\* The injected VLM function raises, or the request is cancelled.
Raise(r) ==
    /\ pc[r] = "await"
    /\ LoopIsFree
    /\ pc' = [pc EXCEPT ![r] = "failed"]
    /\ UNCHANGED <<fileVars, legacy, conf, pos, known, out, used, asked, before>>

StopAtLast(r) ==                      \* mutant: off by one
    /\ pc[r] = "item"
    /\ pos[r] = Len(conf[r].items)
    /\ pc' = [pc EXCEPT ![r] = "done"]
    /\ UNCHANGED <<fileVars, legacy, conf, pos, known, out, used, asked, before>>
Finish(r) ==
    /\ pc[r] = "item"
    /\ pos[r] > Len(conf[r].items)
    /\ pc' = [pc EXCEPT ![r] = "done"]
    /\ UNCHANGED <<fileVars, legacy, conf, pos, known, out, used, asked, before>>

Clear ==
    /\ ClearFile
    /\ UNCHANGED <<legacy, runVars>>

Crash ==
    /\ \E r \in Run : pc[r] \in Live
    /\ pc' = [r \in Run |-> IF pc[r] \in Live THEN "dead" ELSE pc[r]]
    /\ UNCHANGED <<fileVars, legacy, conf, pos, known, out, used, asked, before>>

Step(r) == Start(r) \/ Reuse(r) \/ DescribeByRule(r) \/ Ask(r) \/ Answer(r) \/ Finish(r)

Next == (\E r \in Run : Step(r) \/ Raise(r)) \/ Clear \/ Crash

Spec == Init /\ [][Next]_vars

\* A run that has the event loop goes on, and the VLM is assumed to answer.
FairSpec == Spec /\ \A r \in Run : WF_vars(Step(r))

-----------------------------------------------------------------------------

TypeOK ==
    /\ FileTypeOK
    /\ conf \in [Run -> Configs]
    /\ pc \in [Run -> {"new"} \cup Live \cup Ended]
    /\ pos \in [Run -> Nat \ {0}]
    /\ out \in [Run -> Seq([text : Texts, answered : BOOLEAN])]
    /\ used \in [Run -> Nat]
    /\ asked \in [Run -> SUBSET Nat]
    /\ before \in [Run -> SUBSET Run]
    /\ \A r \in Run : \A s \in Run \ {r} : ~(pc[r] = "item" /\ pc[s] = "item")

\* Whoever wrote it, in whichever run and for whichever version of the
\* document, a description is about an item with the same fingerprint as the
\* item at its place, and a run that is done has one for every item.
DescriptionsFit ==
    \A r \in Run :
        /\ \A i \in DOMAIN out[r] :
             /\ i \in DOMAIN conf[r].items
             /\ Fingerprint[out[r][i].text.of] = Fingerprint[conf[r].items[i]]
        /\ pc[r] = "done" => Len(out[r]) = Len(conf[r].items)

\* "启用断点缓存恢复": what a run has described, before it was done, failed or
\* died, no later run asks the VLM again, as long as the document has the same
\* item at that place in every run, no append failed and the cache was kept.
ResumeRepeatsNothing ==
    badAppends = 0 /\ clears = 0 =>
      \A r \in Run : \A s \in before[r] : \A i \in DOMAIN out[s] :
        /\ \A t \in Run : conf[t].resume
        /\ \A t \in Run : i \in DOMAIN conf[t].items /\
             Fingerprint[conf[t].items[i]] = Fingerprint[conf[s].items[i]]
        => i \notin asked[r]

\* What has been described is read again: an append that fails loses at most its
\* own line and the one that is joined with it, unless it cuts a character.
DescribedIsKept ==
    clears = 0 /\ legible =>
      Cardinality({i \in UNION {DOMAIN out[r] : r \in {r \in Run : conf[r].resume}} :
                     \A line \in Checkpoint : line.key # i}) <= 2 * badAppends

\* Every run that starts ends.
RunsEnd == \A r \in Run : (pc[r] # "new") ~> (pc[r] \in Ended)

=============================================================================
