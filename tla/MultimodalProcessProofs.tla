---------------------- MODULE MultimodalProcessProofs -----------------------
(***************************************************************************)
(* What holds of multimodal.process for any number of runs, any documents  *)
(* and any files of older versions: a description, reused or not, fits the *)
(* item it stands for.  Appends may fail, be torn or be joined with others *)
(* at any time: a line that can still be read is a line that was written,  *)
(* a failed append costs two lines at most, and without one a resumed run  *)
(* asks for nothing that an earlier run has described.                     *)
(***************************************************************************)
EXTENDS MultimodalProcess, FiniteSetTheorems, WellFoundedInduction, TLAPS

-----------------------------------------------------------------------------
\* The invariant.

\* What is in the file, and what the runs have read from it.
CacheInv ==
    /\ lines \in Seq(FittingLines)
    /\ legacy \in Seq(FittingLines)
    /\ known \in [Run -> SUBSET FittingLines]

\* Where run r is, and that what it has described so far fits.
RunFits(r) ==
    /\ pos[r] = Len(out[r]) + 1
    /\ Len(out[r]) <= Len(conf[r].items)
    /\ pc[r] = "await" => Len(out[r]) < Len(conf[r].items)
    /\ pc[r] = "done" => Len(out[r]) = Len(conf[r].items)
    /\ \A i \in DOMAIN out[r] :
         Fingerprint[out[r][i].text.of] = Fingerprint[conf[r].items[i]]

FitInv == TypeOK /\ CacheInv /\ \A r \in Run : RunFits(r)

-----------------------------------------------------------------------------
\* Lemmas about the file.

LEMMA AppendTyping ==
    ASSUME NEW S, NEW s \in Seq(S), NEW e \in S
    PROVE  /\ Append(s, e) \in Seq(S)
           /\ Append(s, e) # <<>>
           /\ Len(Append(s, e)) = Len(s) + 1
           /\ DOMAIN Append(s, e) = 1 .. Len(s) + 1
           /\ Append(s, e)[Len(s) + 1] = e
           /\ \A i \in 1 .. Len(s) : Append(s, e)[i] = s[i]
           /\ DOMAIN s = 1 .. Len(s) /\ Len(s) \in Nat
OBVIOUS

LEMMA FrontTyping ==
    ASSUME NEW S, NEW s \in Seq(S)
    PROVE  s # <<>> => Front(s) \in Seq(S)
<1> SUFFICES ASSUME s # <<>> PROVE Front(s) \in Seq(S)
  OBVIOUS
<1>1. Len(s) \in Nat \ {0}
  OBVIOUS
<1>2. SubSeq(s, 1, Len(s) - 1) \in Seq(S)
  BY <1>1
<1>3. QED
  BY <1>2 DEF Front

LEMMA JoinedTyping ==
    ASSUME FileTypeOK, lines \in Seq(FittingLines)
    PROVE  Joined \in Seq(FittingLines)
BY FrontTyping DEF FileTypeOK, Joined

LEMMA LastPerKeyTyping ==
    ASSUME NEW S, NEW ls \in Seq(S)
    PROVE  LastPerKey(ls) \subseteq S
BY DEF LastPerKey

LEMMA CheckpointTyping ==
    ASSUME CacheInv
    PROVE  Checkpoint \subseteq FittingLines
<1>1. LastPerKey(lines) \subseteq FittingLines /\ LastPerKey(legacy) \subseteq FittingLines
  BY LastPerKeyTyping DEF CacheInv
<1>2. QED
  BY <1>1 DEF Checkpoint, Loaded

\* Whether it succeeds or fails, an append leaves a file of fitting lines.
LEMMA AppendKeepsFile ==
    ASSUME FileTypeOK, FileAssumption, lines \in Seq(FittingLines),
           NEW line \in FittingLines, AppendLine(line) \/ BadAppend(line)
    PROVE  FileTypeOK' /\ lines' \in Seq(FittingLines)
<1>1. /\ Joined \in Seq(FittingLines)
      /\ Append(lines, line) \in Seq(FittingLines) /\ Append(lines, line) # <<>>
  BY JoinedTyping, AppendTyping
<1>2. CASE AppendLine(line)
  BY <1>1, <1>2 DEF AppendLine, FileTypeOK
<1>3. CASE BadAppend(line)
  <2>1. badAppends' \in 0 .. MaxBadAppends
    BY <1>3 DEF BadAppend, FileTypeOK, FileAssumption
  <2>2. Append(lines, line) # <<>>
    BY <1>1
  <2>3. CASE UNCHANGED <<lines, ending, legible>>
    BY <1>3, <2>1, <2>3 DEF BadAppend, FileTypeOK
  <2>4. CASE lines' = Joined /\ ending' = "torn" /\ legible' \in {legible, FALSE}
    BY <1>1, <1>3, <2>1, <2>4 DEF BadAppend, FileTypeOK
  <2>5. CASE lines' = Append(lines, line) /\ ending' = "unended" /\ UNCHANGED legible
    BY <1>1, <1>3, <2>1, <2>2, <2>5 DEF BadAppend, FileTypeOK
  <2>6. QED
    BY <1>3, <2>3, <2>4, <2>5 DEF BadAppend
<1>4. QED
  BY <1>2, <1>3

LEMMA ClearKeepsFile ==
    ASSUME FileTypeOK, FileAssumption, ClearFile
    PROVE  FileTypeOK' /\ lines' \in Seq(FittingLines)
<1>1. clears' \in 0 .. MaxClears
  BY DEF ClearFile, FileTypeOK, FileAssumption
<1>2. QED
  BY <1>1 DEF ClearFile, FileTypeOK

-----------------------------------------------------------------------------
\* Lemmas about a description.

LEMMA ItemTyping ==
    ASSUME ProcessAssumption, conf \in [Run -> Configs], NEW r \in Run,
           pos[r] \in Nat \ {0}, pos[r] <= Len(conf[r].items)
    PROVE  /\ conf[r] \in [items : Seq(Item), vlm : BOOLEAN, resume : BOOLEAN]
           /\ At(r) \in Item
<1>1. conf[r] \in [items : Seq(Item), vlm : BOOLEAN, resume : BOOLEAN]
  BY DEF ProcessAssumption
<1>2. conf[r].items \in Seq(Item)
  BY <1>1
<1>3. conf[r].items[pos[r]] \in Item
  BY <1>2
<1>4. QED
  BY <1>1, <1>3 DEF At

\* Describing the current item by a text that fits it.
LEMMA DescribeFits ==
    ASSUME FitInv, ProcessAssumption, NEW r \in Run, pos[r] <= Len(conf[r].items),
           pc[r] \in {"item", "await"},
           NEW text \in Texts, Fingerprint[text.of] = Fingerprint[At(r)],
           NEW answered \in BOOLEAN, NEW counts \in BOOLEAN,
           Describe(r, text, answered, counts),
           conf' = conf, pc' = [pc EXCEPT ![r] = "item"]
    PROVE  /\ pos' \in [Run -> Nat \ {0}]
           /\ out' \in [Run -> Seq([text : Texts, answered : BOOLEAN])]
           /\ used' \in [Run -> Nat]
           /\ \A s \in Run : RunFits(s)'
<1> DEFINE D == [text : Texts, answered : BOOLEAN]
           d == [text |-> text, answered |-> answered]
<1>1. d \in D
  OBVIOUS
<1>2. /\ pos \in [Run -> Nat \ {0}] /\ out \in [Run -> Seq(D)] /\ used \in [Run -> Nat]
      /\ pc \in [Run -> {"new"} \cup Live \cup Ended]
  BY DEF FitInv, TypeOK
<1>3. /\ out' = [out EXCEPT ![r] = Append(out[r], d)]
      /\ used' = [used EXCEPT ![r] = used[r] + (IF counts THEN 1 ELSE 0)]
      /\ pos' = [pos EXCEPT ![r] = pos[r] + 1]
  BY DEF Describe
<1>4. pos' \in [Run -> Nat \ {0}]
  BY <1>2, <1>3
<1>5. used' \in [Run -> Nat]
  <2>1. used[r] + (IF counts THEN 1 ELSE 0) \in Nat
    BY <1>2
  <2>2. QED
    BY <1>2, <1>3, <2>1
<1>6. out[r] \in Seq(D)
  BY <1>2
<1> HIDE DEF D, d
<1>7. out' \in [Run -> Seq(D)]
  BY <1>1, <1>2, <1>3, <1>6, AppendTyping
<1>8. RunFits(r)'
  <2>1. out'[r] = Append(out[r], d) /\ pos'[r] = pos[r] + 1 /\ pc'[r] = "item"
    BY <1>2, <1>3
  <2>2. Len(out'[r]) = Len(out[r]) + 1 /\ Len(out[r]) \in Nat
    BY <1>1, <1>6, <2>1, AppendTyping
  <2>3. RunFits(r)
    BY DEF FitInv
  <2>4. pos'[r] = Len(out'[r]) + 1 /\ Len(out'[r]) <= Len(conf[r].items)
    BY <2>1, <2>2, <2>3 DEF RunFits
  <2>5. ASSUME NEW i \in DOMAIN out'[r]
        PROVE  Fingerprint[out'[r][i].text.of] = Fingerprint[conf[r].items[i]]
    <3>1. i \in 1 .. Len(out[r]) + 1
      BY <1>1, <1>6, <2>1, AppendTyping, <2>5
    <3>2. CASE i = Len(out[r]) + 1
      <4>1. out'[r][i] = d /\ i = pos[r]
        BY <1>1, <1>6, <2>1, AppendTyping, <2>3, <3>2 DEF RunFits
      <4>2. QED
        BY <4>1 DEF At, d
    <3>3. CASE i \in 1 .. Len(out[r])
      <4>1. out'[r][i] = out[r][i] /\ i \in DOMAIN out[r]
        BY <1>1, <1>6, <2>1, AppendTyping, <3>3
      <4>2. QED
        BY <2>3, <4>1 DEF RunFits
    <3>4. QED
      BY <2>2, <3>1, <3>2, <3>3
  <2>6. QED
    BY <2>1, <2>4, <2>5 DEF RunFits
<1>9. ASSUME NEW s \in Run, s # r
      PROVE  RunFits(s)'
  <2>1. RunFits(s)
    BY DEF FitInv
  <2>2. out'[s] = out[s] /\ pos'[s] = pos[s] /\ pc'[s] = pc[s]
    BY <1>2, <1>3, <1>9
  <2>3. QED
    BY <2>1, <2>2 DEF RunFits
<1>10. QED
  BY <1>4, <1>5, <1>7, <1>8, <1>9 DEF D

\* Saving such a description.
LEMMA SaveKeepsFile ==
    ASSUME FitInv, FileAssumption, NEW r \in Run, At(r) \in Item, NEW text \in Texts,
           Fingerprint[text.of] = Fingerprint[At(r)], NEW answered \in BOOLEAN,
           Save(r, text, answered)
    PROVE  FileTypeOK' /\ lines' \in Seq(FittingLines)
<1> DEFINE line == [key |-> pos[r], print |-> Fingerprint[At(r)],
                    text |-> text, answered |-> answered]
<1>1. pos[r] \in Nat
  BY DEF FitInv, TypeOK
<1>2. line \in FittingLines
  BY <1>1 DEF FittingLines
<1>3. FileTypeOK /\ lines \in Seq(FittingLines)
  BY DEF FitInv, TypeOK, CacheInv
<1>4. CASE conf[r].resume
  <2>1. AppendLine(line) \/ BadAppend(line)
    BY <1>4 DEF Save
  <2>2. QED
    BY <1>2, <1>3, <2>1, AppendKeepsFile
<1>5. CASE ~conf[r].resume
  <2>1. UNCHANGED fileVars
    BY <1>5 DEF Save
  <2>2. QED
    BY <1>3, <2>1 DEF fileVars, FileTypeOK
<1>6. QED
  BY <1>4, <1>5

-----------------------------------------------------------------------------
\* The initial states and the steps.

LEMMA InitFits ==
    ASSUME ProcessAssumption, FileAssumption, Init
    PROVE  FitInv
<1>1. /\ conf \in [Run -> Configs] /\ legacy \in Legacies
      /\ pc = [r \in Run |-> "new"] /\ pos = [r \in Run |-> 1]
      /\ known = [r \in Run |-> {}] /\ out = [r \in Run |-> <<>>]
      /\ used = [r \in Run |-> 0] /\ asked = [r \in Run |-> {}]
      /\ before = [r \in Run |-> {}]
  BY DEF Init
<1>2. FileTypeOK /\ lines \in Seq(FittingLines)
  BY DEF Init, FileInit, FileTypeOK, FileAssumption
<1>3. TypeOK
  BY <1>1, <1>2 DEF TypeOK
<1>4. CacheInv
  BY <1>1, <1>2 DEF CacheInv, ProcessAssumption
<1>5. ASSUME NEW r \in Run
      PROVE  RunFits(r)
  <2>1. Len(conf[r].items) \in Nat
    BY <1>1 DEF ProcessAssumption
  <2>2. pc[r] = "new" /\ pos[r] = 1 /\ out[r] = <<>>
    BY <1>1
  <2>3. QED
    BY <2>1, <2>2 DEF RunFits
<1>6. QED
  BY <1>3, <1>4, <1>5 DEF FitInv

\* A step that describes nothing: it moves pc, and leaves every place alone.
LEMMA QuietStepFits ==
    ASSUME FitInv, ProcessAssumption, FileTypeOK', CacheInv',
           UNCHANGED <<conf, pos, out, used>>,
           pc' \in [Run -> {"new"} \cup Live \cup Ended],
           asked' \in [Run -> SUBSET Nat], before' \in [Run -> SUBSET Run],
           \A r \in Run : \A s \in Run \ {r} : ~(pc'[r] = "item" /\ pc'[s] = "item"),
           \A r \in Run : /\ pc'[r] = "await" => pc[r] = "await" \/ AtItem(r)
                          /\ pc'[r] = "done" => pc[r] = "done" \/ pos[r] > Len(conf[r].items)
    PROVE  FitInv'
<1>1. TypeOK'
  BY DEF FitInv, TypeOK
<1>2. ASSUME NEW r \in Run
      PROVE  RunFits(r)'
  <2>1. RunFits(r) /\ Len(out[r]) \in Nat
    BY DEF FitInv, TypeOK
  <2> conf[r] \in [items : Seq(Item), vlm : BOOLEAN, resume : BOOLEAN]
    BY DEF FitInv, TypeOK, ProcessAssumption
  <2> Len(conf[r].items) \in Nat
    OBVIOUS
  <2>2. pc'[r] = "await" => Len(out[r]) < Len(conf[r].items)
    BY <2>1 DEF RunFits, AtItem
  <2>3. pc'[r] = "done" => Len(out[r]) = Len(conf[r].items)
    BY <2>1 DEF RunFits
  <2>4. QED
    BY <2>1, <2>2, <2>3 DEF RunFits
<1>3. QED
  BY <1>1, <1>2 DEF FitInv

LEMMA StepFits ==
    ASSUME FitInv, ProcessAssumption, FileAssumption, [Next]_vars
    PROVE  FitInv'
<1>1. /\ TypeOK /\ CacheInv /\ FileTypeOK
      /\ pc \in [Run -> {"new"} \cup Live \cup Ended]
      /\ asked \in [Run -> SUBSET Nat] /\ before \in [Run -> SUBSET Run]
      /\ pos \in [Run -> Nat \ {0}] /\ conf \in [Run -> Configs]
      /\ \A r \in Run : \A s \in Run \ {r} : ~(pc[r] = "item" /\ pc[s] = "item")
  BY DEF FitInv, TypeOK
<1>2. ASSUME UNCHANGED fileVars
      PROVE  FileTypeOK' /\ lines' \in Seq(FittingLines)
  BY <1>1, <1>2 DEF fileVars, FileTypeOK, CacheInv
<1>3. ASSUME NEW r \in Run, Start(r)
      PROVE  FitInv'
  <2>1. /\ pc' = [pc EXCEPT ![r] = "item"] /\ LoopIsFree /\ UNCHANGED fileVars
        /\ known' = [known EXCEPT ![r] = IF conf[r].resume THEN Checkpoint ELSE {}]
        /\ before' = [before EXCEPT ![r] = {s \in Run : pc[s] \in Ended}]
        /\ UNCHANGED <<legacy, conf, pos, out, used, asked>>
    BY <1>3 DEF Start
  <2>2. CacheInv'
    BY <1>1, <1>2, <2>1, CheckpointTyping DEF CacheInv
  <2>3. pc' \in [Run -> {"new"} \cup Live \cup Ended] /\ before' \in [Run -> SUBSET Run]
    BY <1>1, <2>1 DEF Live
  <2>4. \A s \in Run : \A t \in Run \ {s} : ~(pc'[s] = "item" /\ pc'[t] = "item")
    BY <1>1, <2>1 DEF LoopIsFree
  <2>5. \A s \in Run : pc'[s] # pc[s] => pc'[s] = "item"
    BY <1>1, <2>1
  <2>6. QED
    BY <1>1, <1>2, <2>1, <2>2, <2>3, <2>4, <2>5, QuietStepFits
<1>4. ASSUME NEW r \in Run, Ask(r) \/ Raise(r) \/ Finish(r)
      PROVE  FitInv'
  <2>1. /\ UNCHANGED <<fileVars, legacy, conf, pos, known, out, used, before>>
        /\ asked' \in {asked, [asked EXCEPT ![r] = asked[r] \cup {pos[r]}]}
    BY <1>4 DEF Ask, Raise, Finish
  <2>2. PICK p \in {"await", "failed", "done"} :
          /\ pc' = [pc EXCEPT ![r] = p]
          /\ p = "await" => AtItem(r)
          /\ p = "done" => pos[r] > Len(conf[r].items)
    BY <1>4 DEF Ask, Raise, Finish
  <2>3. CacheInv' /\ FileTypeOK'
    BY <1>1, <1>2, <2>1 DEF CacheInv
  <2>4. pc' \in [Run -> {"new"} \cup Live \cup Ended]
    BY <1>1, <2>2 DEF Live, Ended
  <2>5. asked' \in [Run -> SUBSET Nat]
    <3>1. asked[r] \cup {pos[r]} \in SUBSET Nat
      BY <1>1
    <3>2. QED
      BY <1>1, <2>1, <3>1
  <2>6. \A s \in Run : \A t \in Run \ {s} : ~(pc'[s] = "item" /\ pc'[t] = "item")
    BY <1>1, <2>2
  <2>7. \A s \in Run : /\ pc'[s] = "await" => pc[s] = "await" \/ AtItem(s)
                       /\ pc'[s] = "done" => pc[s] = "done" \/ pos[s] > Len(conf[s].items)
    BY <1>1, <2>2
  <2>8. QED
    BY <1>1, <2>1, <2>3, <2>4, <2>5, <2>6, <2>7, QuietStepFits
<1>5. ASSUME NEW r \in Run, pc[r] \in {"item", "await"}, pos[r] <= Len(conf[r].items),
             pc' = [pc EXCEPT ![r] = "item"],
             \A s \in Run : pc[s] = "item" => s = r,
             UNCHANGED <<legacy, conf, known, asked, before>>,
             NEW text \in Texts, Fingerprint[text.of] = Fingerprint[At(r)],
             NEW answered \in BOOLEAN, NEW counts \in BOOLEAN,
             Describe(r, text, answered, counts),
             Save(r, text, answered) \/ UNCHANGED fileVars
      PROVE  FitInv'
  <2>1. At(r) \in Item
    BY <1>1, <1>5, ItemTyping
  <2>2. FileTypeOK' /\ lines' \in Seq(FittingLines)
    BY <1>2, <1>5, <2>1, SaveKeepsFile
  <2>3. CacheInv'
    BY <1>1, <1>5, <2>2 DEF CacheInv
  <2>4. /\ pos' \in [Run -> Nat \ {0}]
        /\ out' \in [Run -> Seq([text : Texts, answered : BOOLEAN])]
        /\ used' \in [Run -> Nat]
        /\ \A s \in Run : RunFits(s)'
    BY <1>5, DescribeFits
  <2>5. /\ pc' \in [Run -> {"new"} \cup Live \cup Ended]
        /\ \A s \in Run : \A t \in Run \ {s} : ~(pc'[s] = "item" /\ pc'[t] = "item")
    BY <1>1, <1>5 DEF Live
  <2>6. TypeOK'
    BY <1>1, <1>5, <2>2, <2>4, <2>5 DEF TypeOK
  <2>7. QED
    BY <2>3, <2>4, <2>6 DEF FitInv
<1>6. ASSUME NEW r \in Run, Reuse(r)
      PROVE  FitInv'
  <2>1. PICK line \in Hits(r) : Describe(r, line.text, line.answered, TRUE)
    BY <1>6 DEF Reuse
  <2>2. line \in FittingLines /\ line.print = Fingerprint[At(r)]
    BY <1>1, <2>1 DEF Hits, CacheInv
  <2>3. line.text \in Texts /\ line.answered \in BOOLEAN
        /\ Fingerprint[line.text.of] = Fingerprint[At(r)]
    BY <2>2 DEF FittingLines
  <2>4. /\ pc[r] = "item" /\ pos[r] <= Len(conf[r].items) /\ pc' = pc
        /\ UNCHANGED <<fileVars, legacy, conf, known, asked, before>>
    BY <1>6 DEF Reuse, AtItem
  <2>5. pc' = [pc EXCEPT ![r] = "item"] /\ \A s \in Run : pc[s] = "item" => s = r
    BY <1>1, <2>4
  <2>6. QED
    BY <1>5, <2>1, <2>3, <2>4, <2>5
<1>7. ASSUME NEW r \in Run, DescribeByRule(r)
      PROVE  FitInv'
  <2>1. /\ pc[r] = "item" /\ pos[r] <= Len(conf[r].items) /\ pc' = pc
        /\ Describe(r, Text("rule", At(r)), FALSE, FALSE)
        /\ Save(r, Text("rule", At(r)), FALSE)
        /\ UNCHANGED <<legacy, conf, known, asked, before>>
    BY <1>7 DEF DescribeByRule, AtItem
  <2>2. At(r) \in Item
    BY <1>1, <2>1, ItemTyping
  <2>3. /\ Text("rule", At(r)) \in Texts
        /\ Fingerprint[Text("rule", At(r)).of] = Fingerprint[At(r)]
    BY <2>2 DEF Text, Texts
  <2>4. pc' = [pc EXCEPT ![r] = "item"] /\ \A s \in Run : pc[s] = "item" => s = r
    BY <1>1, <2>1
  <2>5. QED
    BY <1>5, <2>1, <2>3, <2>4
<1>8. ASSUME NEW r \in Run, Answer(r)
      PROVE  FitInv'
  <2>1. PICK answered \in BOOLEAN :
          LET text == Text(IF answered THEN "vlm" ELSE "rule", At(r))
          IN  Describe(r, text, answered, answered) /\ Save(r, text, answered)
    BY <1>8 DEF Answer
  <2> DEFINE text == Text(IF answered THEN "vlm" ELSE "rule", At(r))
  <2>2. Describe(r, text, answered, answered) /\ Save(r, text, answered)
    BY <2>1
  <2>3. /\ pc[r] = "await" /\ LoopIsFree /\ pc' = [pc EXCEPT ![r] = "item"]
        /\ UNCHANGED <<legacy, conf, known, asked, before>>
    BY <1>8 DEF Answer
  <2>4. pos[r] <= Len(conf[r].items)
    <3>1. RunFits(r) /\ Len(out[r]) \in Nat
      BY DEF FitInv, TypeOK
    <3>2. Len(conf[r].items) \in Nat
      BY <1>1 DEF ProcessAssumption
    <3>3. QED
      BY <2>3, <3>1, <3>2 DEF RunFits
  <2>5. At(r) \in Item
    BY <1>1, <2>4, ItemTyping
  <2>6. text \in Texts /\ Fingerprint[text.of] = Fingerprint[At(r)]
    BY <2>5 DEF Text, Texts
  <2>7. \A s \in Run : pc[s] = "item" => s = r
    BY <2>3 DEF LoopIsFree
  <2> HIDE DEF text
  <2>8. QED
    BY <1>5, <2>2, <2>3, <2>4, <2>6, <2>7
<1>9. CASE Clear
  <2>1. ClearFile /\ UNCHANGED <<legacy, conf, pc, pos, known, out, used, asked, before>>
    BY <1>9 DEF Clear, runVars
  <2>2. FileTypeOK' /\ lines' \in Seq(FittingLines)
    BY <1>1, <2>1, ClearKeepsFile
  <2>3. CacheInv'
    BY <1>1, <2>1, <2>2 DEF CacheInv
  <2>4. QED
    BY <1>1, <2>1, <2>2, <2>3, QuietStepFits
<1>10. CASE Crash
  <2>1. /\ pc' = [r \in Run |-> IF pc[r] \in Live THEN "dead" ELSE pc[r]]
        /\ UNCHANGED <<fileVars, legacy, conf, pos, known, out, used, asked, before>>
    BY <1>10 DEF Crash
  <2>2. CacheInv' /\ FileTypeOK'
    BY <1>1, <1>2, <2>1 DEF CacheInv
  <2>3. pc' \in [Run -> {"new"} \cup Live \cup Ended]
    BY <1>1, <2>1 DEF Ended
  <2>4. \A r \in Run : pc'[r] = "dead" \/ pc'[r] = pc[r]
    BY <2>1
  <2>5. QED
    BY <1>1, <2>1, <2>2, <2>3, <2>4, QuietStepFits
<1>11. CASE UNCHANGED vars
  <2>1. UNCHANGED <<fileVars, legacy, conf, pc, pos, known, out, used, asked, before>>
    BY <1>11 DEF vars, runVars
  <2>2. CacheInv' /\ FileTypeOK'
    BY <1>1, <1>2, <2>1 DEF CacheInv
  <2>3. QED
    BY <1>1, <2>1, <2>2, QuietStepFits
<1>12. QED
  BY <1>3, <1>4, <1>6, <1>7, <1>8, <1>9, <1>10, <1>11 DEF Next, Step

-----------------------------------------------------------------------------
\* The theorems.

LEMMA FitInvHolds == Spec => []FitInv
<1>1. Init => FitInv
  BY InitFits, ProcessAssumption, FileAssumption
<1>2. FitInv /\ [Next]_vars => FitInv'
  BY StepFits, ProcessAssumption, FileAssumption
<1>3. QED
  BY <1>1, <1>2, PTL DEF Spec

\* The node keeps its types, and no two runs have the event loop at once.
THEOREM ProcessTyping == Spec => []TypeOK
<1>1. FitInv => TypeOK
  BY DEF FitInv
<1>2. QED
  BY <1>1, FitInvHolds, PTL

\* Whichever runs share a cache key, however the document changes between them
\* and whatever happens to the file, a description fits the item at its place.
THEOREM DescriptionsAlwaysFit == Spec => []DescriptionsFit
<1>1. FitInv => DescriptionsFit
  <2> SUFFICES ASSUME FitInv, NEW r \in Run
               PROVE  /\ \A i \in DOMAIN out[r] :
                           /\ i \in DOMAIN conf[r].items
                           /\ Fingerprint[out[r][i].text.of] = Fingerprint[conf[r].items[i]]
                      /\ pc[r] = "done" => Len(out[r]) = Len(conf[r].items)
    BY DEF DescriptionsFit
  <2>1. RunFits(r)
    BY DEF FitInv
  <2>2. out[r] \in Seq([text : Texts, answered : BOOLEAN])
    BY DEF FitInv, TypeOK
  <2> conf[r] \in [items : Seq(Item), vlm : BOOLEAN, resume : BOOLEAN]
    BY ProcessAssumption DEF FitInv, TypeOK, ProcessAssumption
  <2> conf[r].items \in Seq(Item)
    OBVIOUS
  <2>3. DOMAIN out[r] = 1 .. Len(out[r]) /\ Len(out[r]) \in Nat
        /\ DOMAIN conf[r].items = 1 .. Len(conf[r].items) /\ Len(conf[r].items) \in Nat
    BY <2>2
  <2>4. QED
    BY <2>1, <2>3 DEF RunFits
<1>2. QED
  BY <1>1, FitInvHolds, PTL

-----------------------------------------------------------------------------
\* What a later run finds in the checkpoint.

\* Every run resumes, and has the same item at place i.
PrintAt(r, i) == Fingerprint[conf[r].items[i]]

Stable(i) ==
    /\ \A r \in Run : conf[r].resume /\ i \in DOMAIN conf[r].items
    /\ \A r, s \in Run : PrintAt(r, i) = PrintAt(s, i)

\* A line for place i, in the file or in that of an older version.
HasLine(i) ==
    \/ \E j \in DOMAIN lines : lines[j].key = i
    \/ \E line \in LastPerKey(legacy) : line.key = i /\ \A r \in Run : line.print = PrintAt(r, i)

KeptAt(i) ==
    /\ \A j \in DOMAIN lines : lines[j].key = i => \A r \in Run : lines[j].print = PrintAt(r, i)
    /\ \A r \in Run : i \in DOMAIN out[r] => HasLine(i)
    /\ \A r \in Run : \A line \in known[r] :
         line.key = i /\ line.print = PrintAt(r, i) => HasLine(i)
    /\ \A r \in Run : \A s \in before[r] : i \in DOMAIN out[s] =>
         \E line \in known[r] : line.key = i /\ line.print = PrintAt(r, i)

ResumeInv ==
    /\ \A r \in Run : pc[r] = "new" => asked[r] = {} /\ before[r] = {}
    /\ \A r \in Run : \A i \in asked[r] : \A line \in known[r] :
         ~(line.key = i /\ line.print = PrintAt(r, i))
    /\ \A r \in Run : \A s \in before[r] : pc[s] \in Ended
    /\ badAppends = 0 => ending = "clean" /\ legible
    /\ badAppends = 0 /\ clears = 0 => \A i \in Nat : Stable(i) => KeptAt(i)

\* The places described by runs that save what they describe, the keys that can
\* be read, and the places that an append still endangers.
Described == UNION {DOMAIN out[r] : r \in {r \in Run : conf[r].resume}}
FileKeys == {lines[j].key : j \in DOMAIN lines}
LegacyKeys == {legacy[j].key : j \in DOMAIN legacy}
Keys == FileKeys \cup LegacyKeys
Missing == {i \in Described : i \notin Keys}
Endangered == IF ending = "clean" THEN 0 ELSE IF ending = "torn" THEN 1 ELSE 2

KeepInv ==
    /\ \A r \in Run : ~conf[r].resume => known[r] = {}
    /\ clears = 0 =>
         /\ \A j \in DOMAIN lines : lines[j].key \in Described
         /\ \A r \in Run : \A line \in known[r] : line.key \in Described \cup LegacyKeys
    /\ clears = 0 /\ legible =>
         IsFiniteSet(Missing) /\ Cardinality(Missing) + Endangered <= 2 * badAppends

\* Every non-empty set of numbers has a least one, and a greatest one below a
\* bound.
LEMMA LeastElement ==
    ASSUME NEW T \in SUBSET Nat, T # {}
    PROVE  \E x \in T : \A y \in T : x <= y
<1> DEFINE R == {p \in Nat \X Nat : p[1] < p[2]}
<1>1. IsWellFoundedOn(R, Nat)
  BY NatLessThanWellFounded, Zenon DEF OpToRel
<1>2. \E x \in T : \A y \in T : <<y, x>> \notin R
  <2> HIDE DEF R
  <2> QED
    BY <1>1, WFMin, Zenon
<1>3. \A x, y \in Nat : <<y, x>> \notin R => x <= y
  OBVIOUS
<1> HIDE DEF R
<1>4. QED
  BY <1>2, <1>3

LEMMA GreatestElement ==
    ASSUME NEW k \in Nat, NEW T \in SUBSET (1 .. k), T # {}
    PROVE  \E x \in T : \A y \in T : y <= x
<1> DEFINE U == {k - y : y \in T}
<1>1. \A y \in T : k - y \in Nat
  OBVIOUS
<1>2. U \in SUBSET Nat /\ U # {}
  BY <1>1
<1>3. PICK u \in U : \A v \in U : u <= v
  <2> HIDE DEF U
  <2> QED
    BY <1>2, LeastElement
<1>4. PICK x \in T : u = k - x
  OBVIOUS
<1>5. \A y \in T : u <= k - y
  BY <1>3
<1>6. \A y \in T : y \in Int
  OBVIOUS
<1> HIDE DEF U
<1>7. \A y \in T : y <= x
  BY <1>4, <1>5, <1>6
<1>8. QED
  BY <1>7

\* Reading a file keeps one line of every key.
LEMMA LastOfKey ==
    ASSUME NEW S, NEW ls \in Seq(S), NEW j \in DOMAIN ls
    PROVE  \E line \in LastPerKey(ls) : line.key = ls[j].key
<1> DEFINE T == {i \in DOMAIN ls : ls[i].key = ls[j].key}
<1>1. Len(ls) \in Nat /\ DOMAIN ls = 1 .. Len(ls)
  OBVIOUS
<1>2. PICK i \in T : \A k \in T : k <= i
  <2>1. T \in SUBSET (1 .. Len(ls)) /\ T # {}
    BY <1>1
  <2> HIDE DEF T
  <2>2. QED
    BY <1>1, <2>1, GreatestElement
<1>3. ls[i] \in LastPerKey(ls)
  BY <1>2 DEF LastPerKey
<1>4. QED
  BY <1>2, <1>3

LEMMA AppendAny ==
    ASSUME NEW S, NEW s \in Seq(S), NEW e
    PROVE  /\ Len(s) \in Nat
           /\ DOMAIN s = 1 .. Len(s)
           /\ DOMAIN Append(s, e) = 1 .. Len(s) + 1
           /\ Append(s, e)[Len(s) + 1] = e
           /\ \A i \in 1 .. Len(s) : Append(s, e)[i] = s[i]
OBVIOUS

\* How far a run has come is its position.
LEMMA OutIsBehindPos ==
    ASSUME FitInv, NEW r \in Run
    PROVE  pos[r] \in Nat \ {0} /\ DOMAIN out[r] = 1 .. pos[r] - 1
<1>1. RunFits(r) /\ out[r] \in Seq([text : Texts, answered : BOOLEAN])
      /\ pos[r] \in Nat \ {0}
  BY DEF FitInv, TypeOK
<1>2. QED
  BY <1>1 DEF RunFits

LEMMA DescribingStep ==
    ASSUME NEW r \in Run, DescribeByRule(r) \/ Answer(r)
    PROVE  /\ pc[r] \in {"item", "await"}
           /\ pc' = [pc EXCEPT ![r] = "item"] \/ pc' = pc
           /\ pos' = [pos EXCEPT ![r] = pos[r] + 1]
           /\ UNCHANGED <<legacy, conf, known, asked, before>>
           /\ ~conf[r].resume => UNCHANGED fileVars
           /\ conf[r].resume =>
                \E line : /\ line.key = pos[r]
                          /\ line.print = PrintAt(r, pos[r])
                          /\ AppendLine(line) \/ BadAppend(line)
<1>1. ASSUME NEW text, NEW answered, Save(r, text, answered)
      PROVE  /\ ~conf[r].resume => UNCHANGED fileVars
             /\ conf[r].resume =>
                  \E line : /\ line.key = pos[r]
                            /\ line.print = PrintAt(r, pos[r])
                            /\ AppendLine(line) \/ BadAppend(line)
  <2> DEFINE line == [key |-> pos[r], print |-> Fingerprint[At(r)],
                      text |-> text, answered |-> answered]
  <2>1. line.key = pos[r] /\ line.print = PrintAt(r, pos[r])
    BY DEF At, PrintAt
  <2>2. IF conf[r].resume THEN AppendLine(line) \/ BadAppend(line) ELSE UNCHANGED fileVars
    BY <1>1 DEF Save
  <2> HIDE DEF line
  <2>3. QED
    BY <2>1, <2>2
<1>2. CASE DescribeByRule(r)
  <2>1. /\ Save(r, Text("rule", At(r)), FALSE)
        /\ pc[r] = "item" /\ pc' = pc
        /\ pos' = [pos EXCEPT ![r] = pos[r] + 1]
        /\ UNCHANGED <<legacy, conf, known, asked, before>>
    BY <1>2 DEF DescribeByRule, AtItem, Describe
  <2>2. QED
    BY <1>1, <2>1
<1>3. CASE Answer(r)
  <2>1. PICK answered \in BOOLEAN :
          LET text == Text(IF answered THEN "vlm" ELSE "rule", At(r))
          IN  Describe(r, text, answered, answered) /\ Save(r, text, answered)
    BY <1>3 DEF Answer
  <2>2. pos' = [pos EXCEPT ![r] = pos[r] + 1]
    BY <2>1 DEF Describe
  <2>3. \E text : Save(r, text, answered)
    BY <2>1
  <2>4. /\ pc[r] = "await" /\ pc' = [pc EXCEPT ![r] = "item"]
        /\ UNCHANGED <<legacy, conf, known, asked, before>>
    BY <1>3 DEF Answer
  <2>5. QED
    BY <1>1, <2>2, <2>3, <2>4
<1>4. QED
  BY <1>2, <1>3

\* A checkpoint that can be read has a line for every key of the two files.
LEMMA CheckpointHasLine ==
    ASSUME CacheInv, legible, NEW i, NEW p,
           \A j \in DOMAIN lines : lines[j].key = i => lines[j].print = p,
           \/ \E j \in DOMAIN lines : lines[j].key = i
           \/ \E line \in LastPerKey(legacy) : line.key = i /\ line.print = p
    PROVE  \E line \in Checkpoint : line.key = i /\ line.print = p
<1>1. CASE \E j \in DOMAIN lines : lines[j].key = i
  <2>1. PICK line \in LastPerKey(lines) : line.key = i
    BY <1>1, LastOfKey DEF CacheInv
  <2>2. line.print = p
    BY <2>1 DEF LastPerKey
  <2>3. line \in Checkpoint
    BY <2>1 DEF Checkpoint, Loaded
  <2>4. QED
    BY <2>1, <2>2, <2>3
<1>2. CASE ~ \E j \in DOMAIN lines : lines[j].key = i
  <2>1. PICK line \in LastPerKey(legacy) : line.key = i /\ line.print = p
    BY <1>2
  <2>2. \A l \in LastPerKey(lines) : l.key # i
    BY <1>2 DEF LastPerKey
  <2>3. line \in Checkpoint
    BY <2>1, <2>2 DEF Checkpoint, Loaded
  <2>4. QED
    BY <2>1, <2>3
<1>3. QED
  BY <1>1, <1>2

\* What a checkpoint is read from.
LEMMA CheckpointLineIsThere ==
    ASSUME NEW line \in Checkpoint
    PROVE  (\E j \in DOMAIN lines : lines[j] = line) \/ line \in LastPerKey(legacy)
BY DEF Checkpoint, Loaded, LastPerKey

\* Without failures and deletions the file only grows.
LEMMA FileGrows ==
    ASSUME FitInv, FitInv', ResumeInv, [Next]_vars, badAppends' = 0, clears' = 0
    PROVE  /\ badAppends = 0 /\ clears = 0
           /\ ending = "clean" /\ legible
           /\ ending' = "clean" /\ legible'
           /\ ~Clear
<1>1. badAppends \in Nat /\ clears \in Nat
  BY FileAssumption DEF FitInv, TypeOK, FileTypeOK
<1>2. ASSUME NEW line, AppendLine(line) \/ BadAppend(line)
      PROVE  AppendLine(line) /\ badAppends = 0 /\ clears = 0
  <2>1. ~BadAppend(line)
    <3>1. BadAppend(line) => badAppends' = badAppends + 1
      BY Zenon DEF BadAppend
    <3>2. badAppends + 1 # 0
      BY <1>1
    <3>3. QED
      BY <3>1, <3>2
  <2>2. AppendLine(line)
    BY <1>2, <2>1
  <2>3. UNCHANGED <<badAppends, clears>>
    BY <2>2 DEF AppendLine
  <2>4. QED
    BY <2>2, <2>3
<1>3. ASSUME NEW r \in Run, DescribeByRule(r) \/ Answer(r)
      PROVE  /\ badAppends = 0 /\ clears = 0
             /\ UNCHANGED fileVars \/ \E line : AppendLine(line)
  BY <1>2, <1>3, DescribingStep DEF fileVars
<1>4. ~Clear
  BY <1>1 DEF Clear, ClearFile
<1>5. badAppends = 0 /\ clears = 0 /\ (UNCHANGED fileVars \/ \E line : AppendLine(line))
  BY <1>3, <1>4 DEF Next, Step, Start, Reuse, Ask, Raise, Finish, Crash, vars, fileVars
<1>6. ending = "clean" /\ legible
  BY <1>5 DEF ResumeInv
<1>7. ending' = "clean" /\ legible'
  BY <1>5, <1>6 DEF AppendLine, fileVars
<1>8. QED
  BY <1>4, <1>5, <1>6, <1>7

\* A run that is over stays as it is.
LEMMA EndedStays ==
    ASSUME FitInv, [Next]_vars, NEW s \in Run, pc[s] \in Ended
    PROVE  pc'[s] = pc[s] /\ pos'[s] = pos[s]
<1>1. /\ pc \in [Run -> {"new"} \cup Live \cup Ended]
      /\ pos \in [Run -> Nat \ {0}]
  BY DEF FitInv, TypeOK
<1>2. pc[s] \notin {"new", "item", "await"}
  BY DEF Ended
<1>3. ASSUME NEW r \in Run, Start(r) \/ Ask(r) \/ Raise(r) \/ Finish(r)
      PROVE  pc'[s] = pc[s] /\ pos'[s] = pos[s]
  <2>1. /\ pos' = pos
        /\ pc[r] \in {"new", "item", "await"}
        /\ \E p : pc' = [pc EXCEPT ![r] = p]
    BY <1>3 DEF Start, Ask, Raise, Finish, AtItem
  <2>2. QED
    BY <1>1, <1>2, <2>1
<1>4. ASSUME NEW r \in Run, DescribeByRule(r) \/ Answer(r)
      PROVE  pc'[s] = pc[s] /\ pos'[s] = pos[s]
  <2>1. r # s
    BY <1>2, <1>4, DescribingStep
  <2>2. QED
    BY <1>1, <1>4, <2>1, DescribingStep
<1>5. ASSUME NEW r \in Run, Reuse(r)
      PROVE  pc'[s] = pc[s] /\ pos'[s] = pos[s]
  <2>1. pc[r] = "item" /\ pc' = pc /\ pos' = [pos EXCEPT ![r] = pos[r] + 1]
    BY <1>5 DEF Reuse, AtItem, Describe
  <2>2. QED
    BY <1>1, <1>2, <2>1
<1>6. CASE Crash
  BY <1>1, <1>2, <1>6 DEF Crash, Live
<1>7. CASE Clear \/ UNCHANGED vars
  BY <1>7 DEF Clear, vars, runVars
<1>8. QED
  BY <1>3, <1>4, <1>5, <1>6, <1>7 DEF Next, Step

\* What has been described stays in the checkpoint, and what a run has asked it
\* had not found there.
LEMMA StepKeepsBooks ==
    ASSUME FitInv, FitInv', ResumeInv, [Next]_vars
    PROVE  /\ \A r \in Run : pc'[r] = "new" => asked'[r] = {} /\ before'[r] = {}
           /\ \A r \in Run : \A i \in asked'[r] : \A line \in known'[r] :
                ~(line.key = i /\ line.print = PrintAt(r, i)')
           /\ \A r \in Run : \A s \in before'[r] : pc'[s] \in Ended
           /\ badAppends' = 0 => ending' = "clean" /\ legible'
<1>1. /\ pc \in [Run -> {"new"} \cup Live \cup Ended]
      /\ asked \in [Run -> SUBSET Nat] /\ before \in [Run -> SUBSET Run]
      /\ known \in [Run -> SUBSET FittingLines]
      /\ badAppends \in Nat
  BY FileAssumption DEF FitInv, TypeOK, FileTypeOK, CacheInv
<1>2. conf' = conf
  BY DescribingStep DEF Next, Step, Start, Reuse, Ask, Raise, Finish, Clear, Crash, vars, runVars
<1>3. \A r, i : PrintAt(r, i)' = PrintAt(r, i)
  BY <1>2 DEF PrintAt
<1>4. badAppends' = 0 => ending' = "clean" /\ legible'
  <2>1. ASSUME NEW line, AppendLine(line) \/ BadAppend(line)
        PROVE  badAppends' = 0 => ending' = "clean" /\ legible'
    <3>1. CASE BadAppend(line)
      BY <1>1, <3>1 DEF BadAppend
    <3>2. CASE AppendLine(line)
      <4>1. ending' = "clean" /\ UNCHANGED <<badAppends, legible>>
        BY <3>2 DEF AppendLine
      <4>2. QED
        BY <4>1, Zenon DEF ResumeInv
    <3>3. QED
      BY <2>1, <3>1, <3>2
  <2>2. ASSUME NEW r \in Run, DescribeByRule(r) \/ Answer(r)
        PROVE  badAppends' = 0 => ending' = "clean" /\ legible'
    BY <2>1, <2>2, DescribingStep DEF ResumeInv, fileVars
  <2>3. QED
    BY <2>2 DEF Next, Step, Start, Reuse, Ask, Raise, Finish, Crash, Clear, ClearFile, vars,
       fileVars, ResumeInv
<1>5. ASSUME NEW r \in Run, Start(r)
      PROVE  /\ \A s \in Run : pc'[s] = "new" => asked'[s] = {} /\ before'[s] = {}
             /\ \A s \in Run : \A i \in asked'[s] : \A line \in known'[s] :
                  ~(line.key = i /\ line.print = PrintAt(s, i))
             /\ \A s \in Run : \A t \in before'[s] : pc[t] \in Ended
  <2>1. /\ pc[r] = "new" /\ pc' = [pc EXCEPT ![r] = "item"] /\ asked' = asked
        /\ before' = [before EXCEPT ![r] = {t \in Run : pc[t] \in Ended}]
        /\ \E K : known' = [known EXCEPT ![r] = K]
    BY <1>5 DEF Start
  <2>2. asked[r] = {}
    BY <2>1 DEF ResumeInv
  <2>3. QED
    BY <1>1, <2>1, <2>2 DEF ResumeInv
<1>6. ASSUME NEW r \in Run, Ask(r)
      PROVE  /\ \A s \in Run : pc'[s] = "new" => asked'[s] = {} /\ before'[s] = {}
             /\ \A s \in Run : \A i \in asked'[s] : \A line \in known'[s] :
                  ~(line.key = i /\ line.print = PrintAt(s, i))
             /\ \A s \in Run : \A t \in before'[s] : pc[t] \in Ended
  <2>1. /\ pc' = [pc EXCEPT ![r] = "await"] /\ UNCHANGED <<known, before>>
        /\ asked' = [asked EXCEPT ![r] = asked[r] \cup {pos[r]}]
        /\ \A line \in known[r] : ~(line.key = pos[r] /\ line.print = PrintAt(r, pos[r]))
    BY <1>6 DEF Ask, Hits, PrintAt, At
  <2>2. QED
    BY <1>1, <2>1 DEF ResumeInv
<1>7. ASSUME UNCHANGED <<asked, before, known>>,
             \A s \in Run : pc'[s] = "new" => pc[s] = "new"
      PROVE  /\ \A s \in Run : pc'[s] = "new" => asked'[s] = {} /\ before'[s] = {}
             /\ \A s \in Run : \A i \in asked'[s] : \A line \in known'[s] :
                  ~(line.key = i /\ line.print = PrintAt(s, i))
             /\ \A s \in Run : \A t \in before'[s] : pc[t] \in Ended
  BY <1>7 DEF ResumeInv
<1>8. ASSUME NEW r \in Run, Reuse(r) \/ DescribeByRule(r) \/ Answer(r) \/ Raise(r) \/ Finish(r)
      PROVE  /\ UNCHANGED <<asked, before, known>>
             /\ \A s \in Run : pc'[s] = "new" => pc[s] = "new"
  <2>1. /\ UNCHANGED <<asked, before, known>>
        /\ pc' = pc \/ \E p \in {"item", "failed", "done"} : pc' = [pc EXCEPT ![r] = p]
    BY <1>8, DescribingStep DEF Reuse, Raise, Finish
  <2>2. QED
    BY <1>1, <2>1
<1>9. ASSUME Clear \/ Crash \/ UNCHANGED vars
      PROVE  /\ \A s \in Run : pc'[s] = "new" => asked'[s] = {} /\ before'[s] = {}
             /\ \A s \in Run : \A i \in asked'[s] : \A line \in known'[s] :
                  ~(line.key = i /\ line.print = PrintAt(s, i))
             /\ \A s \in Run : \A t \in before'[s] : pc[t] \in Ended
  <2>1. /\ UNCHANGED <<asked, before, known>>
        /\ \A s \in Run : pc'[s] = "new" => pc[s] = "new"
    BY <1>1, <1>9 DEF Clear, Crash, vars, runVars
  <2>2. QED
    BY <1>7, <2>1
<1>10. /\ \A s \in Run : pc'[s] = "new" => asked'[s] = {} /\ before'[s] = {}
       /\ \A s \in Run : \A i \in asked'[s] : \A line \in known'[s] :
            ~(line.key = i /\ line.print = PrintAt(s, i))
       /\ \A s \in Run : \A t \in before'[s] : pc[t] \in Ended
  <2>1. CASE \E r \in Run : Start(r)
    BY <1>5, <2>1
  <2>2. CASE \E r \in Run : Ask(r)
    BY <1>6, <2>2
  <2>3. CASE \E r \in Run : Reuse(r) \/ DescribeByRule(r) \/ Answer(r) \/ Raise(r) \/ Finish(r)
    BY <1>7, <1>8, <2>3
  <2>4. QED
    BY <1>9, <2>1, <2>2, <2>3 DEF Next, Step
<1>11. before' \in [Run -> SUBSET Run]
  BY DEF FitInv, TypeOK
<1>12. \A s \in Run : \A t \in before'[s] : pc'[t] \in Ended
  <2>1. \A s \in Run : \A t \in before'[s] : t \in Run
    BY <1>11
  <2>2. QED
    BY <1>10, <2>1, EndedStays
<1>13. QED
  BY <1>3, <1>4, <1>10, <1>12

LEMMA StepKeepsKept ==
    ASSUME FitInv, FitInv', ResumeInv, [Next]_vars, badAppends' = 0, clears' = 0,
           NEW i \in Nat, Stable(i)'
    PROVE  KeptAt(i)'
<1>1. /\ badAppends = 0 /\ clears = 0
      /\ ending = "clean" /\ legible
      /\ ~Clear
  BY FileGrows
<1>2. conf' = conf /\ legacy' = legacy
  BY DescribingStep DEF Next, Step, Start, Reuse, Ask, Raise, Finish, Clear, Crash, vars, runVars
<1>3. \A r : PrintAt(r, i)' = PrintAt(r, i)
  BY <1>2 DEF PrintAt
<1>4. Stable(i) /\ KeptAt(i)
  <2>1. Stable(i)
    BY <1>2, <1>3 DEF Stable
  <2>2. QED
    BY <1>1, <2>1 DEF ResumeInv
<1>5. /\ lines \in Seq(FittingLines)
      /\ pos \in [Run -> Nat \ {0}]
      /\ pc \in [Run -> {"new"} \cup Live \cup Ended]
      /\ known \in [Run -> SUBSET FittingLines]
      /\ before \in [Run -> SUBSET Run]
      /\ before' \in [Run -> SUBSET Run]
      /\ CacheInv
  BY DEF FitInv, TypeOK, CacheInv
<1>6. \A r \in Run : DOMAIN out[r] = 1 .. pos[r] - 1
  BY OutIsBehindPos
<1>7. ASSUME NEW r \in Run
      PROVE  DOMAIN out'[r] = 1 .. pos'[r] - 1
  <2>1. RunFits(r)' /\ out'[r] \in Seq([text : Texts, answered : BOOLEAN])
        /\ pos'[r] \in Nat \ {0}
    BY DEF FitInv, TypeOK
  <2>2. QED
    BY <2>1 DEF RunFits
<1>8. SUFFICES
        /\ \A j \in DOMAIN lines' : lines'[j].key = i =>
             \A r \in Run : lines'[j].print = PrintAt(r, i)
        /\ \A r \in Run : i \in DOMAIN out'[r] => HasLine(i)'
        /\ \A r \in Run : \A line \in known'[r] :
             line.key = i /\ line.print = PrintAt(r, i) => HasLine(i)'
        /\ \A r \in Run : \A s \in before'[r] : i \in DOMAIN out'[s] =>
             \E line \in known'[r] : line.key = i /\ line.print = PrintAt(r, i)
  BY <1>3 DEF KeptAt
<1>9. ASSUME lines' = lines
      PROVE  HasLine(i)' <=> HasLine(i)
  BY <1>2, <1>3, <1>9 DEF HasLine
<1>10. ASSUME UNCHANGED <<lines, pos, known, before>>
       PROVE  KeptAt(i)'
  <2>1. \A r \in Run : DOMAIN out'[r] = DOMAIN out[r]
    BY <1>6, <1>7, <1>10
  <2>2. \A r \in Run : \A s \in before[r] : s \in Run
    BY <1>5
  <2>3. QED
    BY <1>3, <1>4, <1>9, <1>10, <2>1, <2>2 DEF KeptAt
<1>11. ASSUME NEW r \in Run, Start(r)
       PROVE  KeptAt(i)'
  <2>1. /\ lines' = lines /\ pos' = pos
        /\ known' = [known EXCEPT ![r] = IF conf[r].resume THEN Checkpoint ELSE {}]
        /\ before' = [before EXCEPT ![r] = {s \in Run : pc[s] \in Ended}]
    BY <1>11 DEF Start, fileVars
  <2>2. conf[r].resume /\ \A s \in Run : PrintAt(s, i) = PrintAt(r, i)
    BY <1>4, <1>11 DEF Stable
  <2>3. known'[r] = Checkpoint /\ \A s \in Run \ {r} : known'[s] = known[s]
    BY <1>5, <2>1, <2>2
  <2>4. \A s \in Run : DOMAIN out'[s] = DOMAIN out[s]
    BY <1>6, <1>7, <2>1
  <2>5. HasLine(i) => \E line \in Checkpoint : line.key = i /\ line.print = PrintAt(r, i)
    <3>1. \A j \in DOMAIN lines : lines[j].key = i => lines[j].print = PrintAt(r, i)
      BY <1>4, <1>11 DEF KeptAt
    <3>2. HasLine(i) => \/ \E j \in DOMAIN lines : lines[j].key = i
                        \/ \E line \in LastPerKey(legacy) :
                             line.key = i /\ line.print = PrintAt(r, i)
      BY <1>11 DEF HasLine
    <3>3. QED
      BY <1>1, <1>5, <3>1, <3>2, CheckpointHasLine
  <2>6. ASSUME NEW line \in Checkpoint, line.key = i, line.print = PrintAt(r, i)
        PROVE  HasLine(i)
    BY <2>2, <2>6, CheckpointLineIsThere DEF HasLine
  <2>7. ASSUME NEW s \in Run
        PROVE  /\ i \in DOMAIN out'[s] => HasLine(i)'
               /\ \A line \in known'[s] :
                    line.key = i /\ line.print = PrintAt(s, i) => HasLine(i)'
    <3>1. CASE s = r
      BY <1>4, <1>9, <2>1, <2>3, <2>4, <2>6, <3>1 DEF KeptAt
    <3>2. CASE s # r
      BY <1>4, <1>9, <2>1, <2>3, <2>4, <3>2 DEF KeptAt
    <3>3. QED
      BY <3>1, <3>2
  <2>8. ASSUME NEW s \in Run, NEW t \in before'[s], i \in DOMAIN out'[t]
        PROVE  \E line \in known'[s] : line.key = i /\ line.print = PrintAt(s, i)
    <3>1. t \in Run
      BY <1>5
    <3>2. i \in DOMAIN out[t] /\ HasLine(i)
      BY <1>4, <2>4, <2>8, <3>1 DEF KeptAt
    <3>3. CASE s = r
      BY <2>3, <2>5, <3>2, <3>3
    <3>4. CASE s # r
      <4>1. t \in before[s] /\ known'[s] = known[s]
        BY <1>5, <2>1, <2>3, <3>4
      <4>2. QED
        BY <1>4, <3>2, <4>1 DEF KeptAt
    <3>5. QED
      BY <3>3, <3>4
  <2>9. \A j \in DOMAIN lines' : lines'[j].key = i =>
           \A s \in Run : lines'[j].print = PrintAt(s, i)
    BY <1>4, <2>1 DEF KeptAt
  <2>10. QED
    BY <1>3, <2>7, <2>8, <2>9 DEF KeptAt
<1>12. ASSUME NEW r \in Run, pc[r] \in {"item", "await"},
              pos' = [pos EXCEPT ![r] = pos[r] + 1],
              UNCHANGED <<known, before>>,
              HasLine(i) => HasLine(i)',
              pos[r] = i => HasLine(i)',
              \A j \in DOMAIN lines' : lines'[j].key = i =>
                \A s \in Run : lines'[j].print = PrintAt(s, i)
       PROVE  KeptAt(i)'
  <2>1. ASSUME NEW s \in Run, i \in DOMAIN out'[s]
        PROVE  i \in DOMAIN out[s] \/ (s = r /\ i = pos[r])
    <3>1. CASE s = r
      <4>1. pos'[s] = pos[s] + 1 /\ pos[s] \in Nat \ {0}
        BY <1>5, <1>12, <3>1
      <4>2. i \in 1 .. pos'[s] - 1
        BY <1>7, <2>1
      <4>3. i \in 1 .. pos[s] - 1 \/ i = pos[s]
        BY <4>1, <4>2
      <4>4. QED
        BY <1>6, <3>1, <4>3
    <3>2. CASE s # r
      <4>1. pos'[s] = pos[s]
        BY <1>5, <1>12, <3>2
      <4>2. QED
        BY <1>6, <1>7, <2>1, <4>1
    <3>3. QED
      BY <3>1, <3>2
  <2>2. ASSUME NEW s \in Run, s # r
        PROVE  DOMAIN out'[s] = DOMAIN out[s]
    <3>1. pos'[s] = pos[s]
      BY <1>5, <1>12, <2>2
    <3>2. QED
      BY <1>6, <1>7, <3>1
  <2>3. \A s \in Run : \A t \in before[s] : t # r /\ t \in Run
    BY <1>5, <1>12 DEF ResumeInv, Ended
  <2>4. \A s \in Run : i \in DOMAIN out'[s] => HasLine(i)'
    BY <1>4, <1>12, <2>1 DEF KeptAt
  <2>5. \A s \in Run : \A line \in known'[s] :
          line.key = i /\ line.print = PrintAt(s, i) => HasLine(i)'
    BY <1>4, <1>12 DEF KeptAt
  <2>6. \A s \in Run : \A t \in before'[s] : i \in DOMAIN out'[t] =>
          \E line \in known'[s] : line.key = i /\ line.print = PrintAt(s, i)
    BY <1>4, <1>12, <2>2, <2>3 DEF KeptAt
  <2>7. QED
    BY <1>3, <1>12, <2>4, <2>5, <2>6 DEF KeptAt
<1>13. ASSUME NEW r \in Run, Reuse(r)
       PROVE  KeptAt(i)'
  <2>1. /\ pc[r] = "item"
        /\ pos' = [pos EXCEPT ![r] = pos[r] + 1]
        /\ UNCHANGED <<lines, known, before>>
    BY <1>13 DEF Reuse, AtItem, Describe, fileVars
  <2>2. PICK line \in known[r] : line.key = pos[r] /\ line.print = PrintAt(r, pos[r])
    BY <1>13 DEF Reuse, Hits, PrintAt, At
  <2>3. pos[r] = i => HasLine(i)
    BY <1>4, <2>2 DEF KeptAt
  <2>4. HasLine(i)' <=> HasLine(i)
    BY <1>9, <2>1
  <2>5. \A j \in DOMAIN lines' : lines'[j].key = i =>
          \A s \in Run : lines'[j].print = PrintAt(s, i)
    BY <1>4, <2>1 DEF KeptAt
  <2>6. QED
    BY <1>12, <2>1, <2>3, <2>4, <2>5
<1>14. ASSUME NEW r \in Run, DescribeByRule(r) \/ Answer(r)
       PROVE  KeptAt(i)'
  <2>1. /\ pc[r] \in {"item", "await"}
        /\ pos' = [pos EXCEPT ![r] = pos[r] + 1]
        /\ UNCHANGED <<known, before>>
    BY <1>14, DescribingStep
  <2>2. conf[r].resume
    BY <1>4, <1>14 DEF Stable
  <2>3. PICK line : /\ line.key = pos[r]
                    /\ line.print = PrintAt(r, pos[r])
                    /\ AppendLine(line) \/ BadAppend(line)
    BY <1>14, <2>2, DescribingStep
  <2>4. AppendLine(line)
    <3>1. BadAppend(line) => badAppends' = badAppends + 1
      BY Zenon DEF BadAppend
    <3>2. QED
      BY <1>1, <2>3, <3>1
  <2>5. lines' = Append(lines, line)
    BY <1>1, <2>4 DEF AppendLine
  <2>6. /\ Len(lines) \in Nat
        /\ DOMAIN lines = 1 .. Len(lines)
        /\ DOMAIN lines' = 1 .. Len(lines) + 1
        /\ lines'[Len(lines) + 1] = line
        /\ \A j \in 1 .. Len(lines) : lines'[j] = lines[j]
    BY <1>5, <2>5, AppendAny
  <2>7. HasLine(i) => HasLine(i)'
    BY <1>2, <1>3, <2>6 DEF HasLine
  <2>8. pos[r] = i => HasLine(i)'
    BY <2>3, <2>6 DEF HasLine
  <2>9. \A s \in Run : PrintAt(s, i) = PrintAt(r, i)
    BY <1>4, <1>14 DEF Stable
  <2>10. ASSUME NEW j \in DOMAIN lines', lines'[j].key = i, NEW s \in Run
         PROVE  lines'[j].print = PrintAt(s, i)
    <3>1. CASE j = Len(lines) + 1
      BY <2>3, <2>6, <2>9, <2>10, <3>1
    <3>2. CASE j \in 1 .. Len(lines)
      BY <1>4, <2>6, <2>10, <3>2 DEF KeptAt
    <3>3. QED
      BY <2>6, <2>10, <3>1, <3>2
  <2>11. QED
    BY <1>12, <2>1, <2>7, <2>8, <2>10
<1>15. ASSUME NEW r \in Run, Ask(r) \/ Raise(r) \/ Finish(r)
       PROVE  KeptAt(i)'
  <2>1. UNCHANGED <<lines, pos, known, before>>
    BY <1>15 DEF Ask, Raise, Finish, fileVars
  <2>2. QED
    BY <1>10, <2>1
<1>16. ASSUME Crash \/ UNCHANGED vars
       PROVE  KeptAt(i)'
  <2>1. UNCHANGED <<lines, pos, known, before>>
    BY <1>16 DEF Crash, fileVars, vars, runVars
  <2>2. QED
    BY <1>10, <2>1
<1>17. KeptAt(i)'
  BY <1>1, <1>11, <1>13, <1>14, <1>15, <1>16 DEF Next, Step
<1>18. QED
  BY <1>3, <1>17 DEF KeptAt

LEMMA ResumeInvHolds == Spec => []ResumeInv
<1>1. Init => ResumeInv
  <2> SUFFICES ASSUME Init
               PROVE  ResumeInv
    OBVIOUS
  <2>1. /\ pc = [r \in Run |-> "new"] /\ asked = [r \in Run |-> {}]
        /\ before = [r \in Run |-> {}] /\ known = [r \in Run |-> {}]
        /\ out = [r \in Run |-> <<>>] /\ lines = <<>> /\ ending = "clean" /\ legible = TRUE
    BY DEF Init, FileInit
  <2>2. \A i : KeptAt(i)
    BY <2>1 DEF KeptAt
  <2>3. QED
    BY <2>1, <2>2 DEF ResumeInv
<1>2. FitInv /\ FitInv' /\ ResumeInv /\ [Next]_vars => ResumeInv'
  BY StepKeepsBooks, StepKeepsKept DEF ResumeInv
<1>3. QED
  BY <1>1, <1>2, FitInvHolds, PTL DEF Spec

\* "启用断点缓存恢复": what a run has described, before it was done, failed or
\* died, no later run asks the VLM again, for any number of runs and documents,
\* as long as no append failed, the cache was kept and the item is the same.
THEOREM ResumeAsksNothingTwice == Spec => []ResumeRepeatsNothing
<1>1. FitInv /\ ResumeInv => ResumeRepeatsNothing
  <2> SUFFICES ASSUME FitInv, ResumeInv, badAppends = 0, clears = 0, NEW r \in Run,
                      NEW s \in before[r], NEW i \in DOMAIN out[s],
                      \A t \in Run : conf[t].resume,
                      \A t \in Run : i \in DOMAIN conf[t].items /\
                        Fingerprint[conf[t].items[i]] = Fingerprint[conf[s].items[i]]
               PROVE  i \notin asked[r]
    BY DEF ResumeRepeatsNothing
  <2>1. s \in Run
    BY DEF FitInv, TypeOK
  <2>2. i \in Nat
    BY <2>1, OutIsBehindPos
  <2>3. Stable(i)
    BY DEF Stable, PrintAt
  <2>4. KeptAt(i)
    BY <2>2, <2>3 DEF ResumeInv
  <2>5. \E line \in known[r] : line.key = i /\ line.print = PrintAt(r, i)
    BY <2>4 DEF KeptAt
  <2>6. QED
    BY <2>5 DEF ResumeInv
<1>2. QED
  BY <1>1, FitInvHolds, ResumeInvHolds, PTL

\* One file step: what it may lose is paid for by the appends that failed.
LEMMA FrontKeys ==
    ASSUME NEW S, NEW s \in Seq(S), s # <<>>
    PROVE  /\ \A j \in DOMAIN Front(s) : j \in DOMAIN s /\ Front(s)[j] = s[j]
           /\ \A j \in DOMAIN s : j = Len(s) \/ (j \in DOMAIN Front(s) /\ Front(s)[j] = s[j])
           /\ Len(s) \in DOMAIN s
<1>1. Len(s) \in Nat \ {0} /\ DOMAIN s = 1 .. Len(s)
  OBVIOUS
<1>2. Front(s) = SubSeq(s, 1, Len(s) - 1)
  BY DEF Front
<1>3. DOMAIN Front(s) = 1 .. Len(s) - 1 /\ \A j \in 1 .. Len(s) - 1 : Front(s)[j] = s[j]
  BY <1>1, <1>2
<1>4. QED
  BY <1>1, <1>3

LEMMA SmallSets ==
    /\ IsFiniteSet({}) /\ Cardinality({}) = 0
    /\ \A x : IsFiniteSet({x}) /\ Cardinality({x}) = 1
    /\ \A x, y : IsFiniteSet({x, y}) /\ Cardinality({x, y}) <= 2
<1>1. ASSUME NEW x, NEW y
      PROVE  IsFiniteSet({x, y}) /\ Cardinality({x, y}) <= 2
  <2>1. IsFiniteSet({x}) /\ Cardinality({x}) = 1
    BY FS_Singleton
  <2>2. {x, y} = {x} \cup {y}
    OBVIOUS
  <2>3. /\ IsFiniteSet({x} \cup {y})
        /\ Cardinality({x} \cup {y}) =
             IF y \in {x} THEN Cardinality({x}) ELSE Cardinality({x}) + 1
    BY <2>1, FS_AddElement
  <2>4. QED
    BY <2>1, <2>2, <2>3
<1>2. QED
  BY <1>1, FS_Singleton, FS_EmptySet

LEMMA JoinedKeys ==
    ASSUME FileTypeOK, lines \in Seq(FittingLines)
    PROVE  /\ \A j \in DOMAIN Joined : \E k \in DOMAIN lines : Joined[j] = lines[k]
           /\ ending # "unended" => Joined = lines
           /\ \E x : FileKeys \subseteq {Joined[j].key : j \in DOMAIN Joined} \cup {x}
<1>1. CASE ending = "unended"
  <2>1. lines # <<>> /\ Joined = Front(lines)
    BY <1>1 DEF FileTypeOK, Joined
  <2>2. FileKeys \subseteq {Joined[j].key : j \in DOMAIN Joined} \cup {lines[Len(lines)].key}
    BY <2>1, FrontKeys DEF FileKeys
  <2>3. QED
    BY <1>1, <2>1, <2>2, FrontKeys
<1>2. CASE ending # "unended"
  BY <1>2 DEF Joined, FileKeys
<1>3. QED
  BY <1>1, <1>2

LEMMA AppendPays ==
    ASSUME FileTypeOK, FileAssumption, lines \in Seq(FittingLines), NEW line,
           AppendLine(line) \/ BadAppend(line)
    PROVE  /\ clears' = clears
           /\ legible' => legible
           /\ \A j \in DOMAIN lines' : lines'[j] = line \/ \E k \in DOMAIN lines : lines'[j] = lines[k]
           /\ badAppends' \in Nat
           /\ \E G : /\ IsFiniteSet(G)
                     /\ FileKeys \cup {line.key} \subseteq FileKeys' \cup G
                     /\ Cardinality(G) + Endangered' + 2 * badAppends
                          <= Endangered + 2 * badAppends'
<1> DEFINE key == line.key
<1>1. /\ badAppends \in Nat
      /\ ending \in {"clean", "torn", "unended"}
  BY FileAssumption DEF FileTypeOK
<1>2. PICK x : FileKeys \subseteq {Joined[j].key : j \in DOMAIN Joined} \cup {x}
  BY JoinedKeys
<1>3. \A j \in DOMAIN Joined : \E k \in DOMAIN lines : Joined[j] = lines[k]
  BY JoinedKeys
<1>4. IsFiniteSet({key}) /\ Cardinality({key}) = 1
  BY SmallSets
<1>5. IsFiniteSet({key, x}) /\ Cardinality({key, x}) \in 0 .. 2
  <2>1. IsFiniteSet({key, x}) /\ Cardinality({key, x}) <= 2
    BY SmallSets
  <2>2. Cardinality({key, x}) \in Nat
    BY <2>1, FS_CardinalityType
  <2>3. QED
    BY <2>1, <2>2
<1>6. IsFiniteSet({}) /\ Cardinality({}) = 0
  BY SmallSets
<1>7. ASSUME lines' = Joined
      PROVE  /\ \A j \in DOMAIN lines' : \E k \in DOMAIN lines : lines'[j] = lines[k]
             /\ FileKeys \cup {key} \subseteq FileKeys' \cup {key, x}
             /\ ending # "unended" => FileKeys \cup {key} \subseteq FileKeys' \cup {key}
  <2>1. FileKeys' = {Joined[j].key : j \in DOMAIN Joined}
    BY <1>7 DEF FileKeys
  <2>2. ending # "unended" => FileKeys' = FileKeys
    BY <1>7, JoinedKeys DEF FileKeys
  <2>3. QED
    BY <1>2, <1>3, <1>7, <2>1, <2>2
<1>8. ASSUME lines' = Append(lines, line)
      PROVE  /\ \A j \in DOMAIN lines' : lines'[j] = line \/ \E k \in DOMAIN lines : lines'[j] = lines[k]
             /\ FileKeys \cup {key} \subseteq FileKeys'
  <2>1. /\ Len(lines) \in Nat
        /\ DOMAIN lines = 1 .. Len(lines)
        /\ DOMAIN lines' = 1 .. Len(lines) + 1
        /\ lines'[Len(lines) + 1] = line
        /\ \A i \in 1 .. Len(lines) : lines'[i] = lines[i]
    BY <1>8, AppendAny
  <2>2. \A j \in DOMAIN lines' : lines'[j] = line \/ \E k \in DOMAIN lines : lines'[j] = lines[k]
    BY <2>1
  <2>3. FileKeys \subseteq FileKeys' /\ key \in FileKeys'
    BY <2>1 DEF FileKeys
  <2>4. QED
    BY <2>2, <2>3
<1>9. CASE AppendLine(line)
  <2>1. /\ lines' = IF ending = "clean" THEN Append(lines, line) ELSE Joined
        /\ ending' = "clean" /\ badAppends' = badAppends /\ clears' = clears
        /\ legible' = legible
    BY <1>9 DEF AppendLine
  <2>2. Endangered' = 0
    BY <2>1 DEF Endangered
  <2>3. CASE ending = "clean"
    <3>1. Endangered = 0
      BY <2>3 DEF Endangered
    <3>2. Cardinality({}) + Endangered' + 2 * badAppends <= Endangered + 2 * badAppends'
      BY <1>1, <2>1, <2>2, <3>1, <1>4, <1>5, <1>6
    <3>3. FileKeys \cup {key} \subseteq FileKeys' \cup {}
      BY <1>8, <2>1, <2>3
    <3>4. QED
      BY <1>1, <1>8, <2>1, <2>3, <3>2, <3>3, <1>4, <1>5, <1>6
  <2>4. CASE ending = "torn"
    <3>1. Endangered = 1
      BY <2>4 DEF Endangered
    <3>2. Cardinality({key}) + Endangered' + 2 * badAppends <= Endangered + 2 * badAppends'
      BY <1>1, <2>1, <2>2, <3>1, <1>4, <1>5, <1>6
    <3>3. FileKeys \cup {key} \subseteq FileKeys' \cup {key}
      BY <1>7, <2>1, <2>4
    <3>4. QED
      BY <1>1, <1>7, <2>1, <2>4, <3>2, <3>3, <1>4, <1>5, <1>6
  <2>5. CASE ending = "unended"
    <3>1. Endangered = 2
      BY <2>5 DEF Endangered
    <3>3. Cardinality({key, x}) + Endangered' + 2 * badAppends <= Endangered + 2 * badAppends'
      BY <1>1, <2>1, <2>2, <3>1, <1>5
    <3>4. FileKeys \cup {key} \subseteq FileKeys' \cup {key, x}
      BY <1>7, <2>1, <2>5
    <3>5. QED
      BY <1>1, <1>7, <2>1, <2>5, <3>3, <3>4, <1>4, <1>5, <1>6
  <2>6. QED
    BY <1>1, <2>3, <2>4, <2>5
<1>10. CASE BadAppend(line)
  <2>1. /\ badAppends' = badAppends + 1 /\ clears' = clears
        /\ \/ UNCHANGED <<lines, ending, legible>>
           \/ lines' = Joined /\ ending' = "torn" /\ legible' \in {legible, FALSE}
           \/ /\ ending = "clean"
              /\ lines' = Append(lines, line)
              /\ ending' = "unended"
              /\ UNCHANGED legible
    BY <1>10, Zenon DEF BadAppend
  <2>2. CASE UNCHANGED <<lines, ending, legible>>
    <3>1. Endangered' = Endangered /\ FileKeys' = FileKeys
      BY <2>2 DEF Endangered, FileKeys
    <3>2. Endangered \in Nat
      BY DEF Endangered
    <3>3. Cardinality({key}) + Endangered' + 2 * badAppends <= Endangered + 2 * badAppends'
      BY <1>1, <2>1, <3>1, <3>2, <1>4, <1>5, <1>6
    <3>4. FileKeys \cup {key} \subseteq FileKeys' \cup {key}
      BY <3>1
    <3>5. \E G : /\ IsFiniteSet(G)
                 /\ FileKeys \cup {key} \subseteq FileKeys' \cup G
                 /\ Cardinality(G) + Endangered' + 2 * badAppends <= Endangered + 2 * badAppends'
      BY <3>3, <3>4, <1>4, <1>5, <1>6
    <3>6. QED
      BY <1>1, <2>1, <2>2, <3>5
  <2>3. CASE lines' = Joined /\ ending' = "torn" /\ legible' \in {legible, FALSE}
    <3>1. Endangered' = 1 /\ badAppends' \in Nat
      BY <1>1, <2>1, <2>3 DEF Endangered
    <3>2. legible' => legible
      BY <2>3, Zenon
    <3>3. CASE ending = "unended"
      <4>1. Endangered = 2
        BY <3>3 DEF Endangered
      <4>3. Cardinality({key, x}) + Endangered' + 2 * badAppends <= Endangered + 2 * badAppends'
        BY <1>1, <2>1, <3>1, <4>1, <1>5
      <4>4. FileKeys \cup {key} \subseteq FileKeys' \cup {key, x}
        BY <1>7, <2>3
      <4>5. \E G : /\ IsFiniteSet(G)
                   /\ FileKeys \cup {key} \subseteq FileKeys' \cup G
                   /\ Cardinality(G) + Endangered' + 2 * badAppends <= Endangered + 2 * badAppends'
        BY <4>3, <4>4, <1>4, <1>5, <1>6
      <4>6. QED
        BY <1>7, <2>1, <2>3, <3>1, <3>2, <4>5
    <3>4. CASE ending # "unended"
      <4>1. Endangered \in 0 .. 1
        BY <1>1, <3>4 DEF Endangered
      <4>2. Cardinality({key}) + Endangered' + 2 * badAppends <= Endangered + 2 * badAppends'
        BY <1>1, <2>1, <3>1, <4>1, <1>4, <1>5, <1>6
      <4>3. FileKeys \cup {key} \subseteq FileKeys' \cup {key}
        BY <1>7, <2>3, <3>4
      <4>4. \E G : /\ IsFiniteSet(G)
                   /\ FileKeys \cup {key} \subseteq FileKeys' \cup G
                   /\ Cardinality(G) + Endangered' + 2 * badAppends <= Endangered + 2 * badAppends'
        BY <4>2, <4>3, <1>4, <1>5, <1>6
      <4>5. QED
        BY <1>7, <2>1, <2>3, <3>1, <3>2, <4>4
    <3>5. QED
      BY <3>3, <3>4
  <2>4. CASE /\ ending = "clean" /\ lines' = Append(lines, line)
             /\ ending' = "unended" /\ UNCHANGED legible
    <3>1. Endangered = 0 /\ Endangered' = 2 /\ badAppends' \in Nat
      BY <1>1, <2>1, <2>4 DEF Endangered
    <3>2. Cardinality({}) + Endangered' + 2 * badAppends <= Endangered + 2 * badAppends'
      BY <1>1, <2>1, <3>1, <1>4, <1>5, <1>6
    <3>3. FileKeys \cup {key} \subseteq FileKeys' \cup {}
      BY <1>8, <2>4
    <3>4. \E G : /\ IsFiniteSet(G)
                 /\ FileKeys \cup {key} \subseteq FileKeys' \cup G
                 /\ Cardinality(G) + Endangered' + 2 * badAppends <= Endangered + 2 * badAppends'
      BY <3>2, <3>3, <1>4, <1>5, <1>6
    <3>5. QED
      BY <1>8, <2>1, <2>4, <3>1, <3>4
  <2>5. QED
    BY <2>1, <2>2, <2>3, <2>4
<1>11. QED
  BY <1>9, <1>10

\* The books of the whole: how the described places and the keys move.
LEMMA DescribedGrows ==
    ASSUME FitInv, FitInv', conf' = conf
    PROVE  /\ pos' = pos => Described' = Described
           /\ \A r \in Run : pos' = [pos EXCEPT ![r] = pos[r] + 1] =>
                Described' = IF conf[r].resume THEN Described \cup {pos[r]} ELSE Described
<1>1. \A s \in Run : pos[s] \in Nat \ {0} /\ DOMAIN out[s] = 1 .. pos[s] - 1
  BY OutIsBehindPos
<1>2. ASSUME NEW s \in Run
      PROVE  DOMAIN out'[s] = 1 .. pos'[s] - 1
  <2>1. RunFits(s)' /\ out'[s] \in Seq([text : Texts, answered : BOOLEAN])
        /\ pos'[s] \in Nat \ {0}
    BY DEF FitInv, TypeOK
  <2>2. QED
    BY <2>1 DEF RunFits
<1>3. pos \in [Run -> Nat \ {0}]
  BY DEF FitInv, TypeOK
<1>4. ASSUME pos' = pos
      PROVE  Described' = Described
  <2>1. \A s \in Run : DOMAIN out'[s] = DOMAIN out[s]
    BY <1>1, <1>2, <1>4
  <2>2. QED
    BY <2>1 DEF Described
<1>5. ASSUME NEW r \in Run, pos' = [pos EXCEPT ![r] = pos[r] + 1]
      PROVE  Described' = IF conf[r].resume THEN Described \cup {pos[r]} ELSE Described
  <2>1. \A s \in Run \ {r} : DOMAIN out'[s] = DOMAIN out[s]
    BY <1>1, <1>2, <1>3, <1>5
  <2>2. DOMAIN out'[r] = DOMAIN out[r] \cup {pos[r]}
    <3>1. pos'[r] = pos[r] + 1 /\ pos[r] \in Nat \ {0}
      BY <1>3, <1>5
    <3>2. 1 .. pos[r] = (1 .. pos[r] - 1) \cup {pos[r]}
      BY <3>1
    <3>3. pos'[r] - 1 = pos[r]
      BY <3>1
    <3>4. DOMAIN out'[r] = 1 .. pos[r]
      BY <1>2, <3>3
    <3>5. QED
      BY <1>1, <3>2, <3>4
  <2>3. \A i : i \in Described' <=> \E s \in Run : conf[s].resume /\ i \in DOMAIN out'[s]
    BY DEF Described
  <2>4. \A i : i \in Described <=> \E s \in Run : conf[s].resume /\ i \in DOMAIN out[s]
    BY DEF Described
  <2>5. CASE conf[r].resume
    <3>1. \A i : i \in Described' <=> i \in Described \/ i = pos[r]
      BY <2>1, <2>2, <2>3, <2>4, <2>5
    <3>2. QED
      BY <2>5, <3>1
  <2>6. CASE ~conf[r].resume
    <3>1. \A i : i \in Described' <=> i \in Described
      BY <2>1, <2>3, <2>4, <2>6
    <3>2. QED
      BY <2>6, <3>1
  <2>7. QED
    BY <2>5, <2>6
<1>6. QED
  BY <1>4, <1>5

\* The count of the missing, after a step that loses what is in G.
LEMMA MissingCount ==
    ASSUME IsFiniteSet(Missing), NEW G, IsFiniteSet(G), Missing' \subseteq Missing \cup G
    PROVE  /\ IsFiniteSet(Missing')
           /\ Cardinality(Missing') <= Cardinality(Missing) + Cardinality(G)
           /\ Cardinality(Missing') \in Nat /\ Cardinality(Missing) \in Nat
           /\ Cardinality(G) \in Nat
<1>1. /\ IsFiniteSet(Missing \cup G)
      /\ Cardinality(Missing \cup G)
           = Cardinality(Missing) + Cardinality(G) - Cardinality(Missing \cap G)
  BY FS_Union
<1>2. IsFiniteSet(Missing \cap G)
  <2>1. Missing \cap G \in SUBSET G
    OBVIOUS
  <2>2. QED
    BY <2>1, FS_Subset
<1>3. /\ IsFiniteSet(Missing')
      /\ Cardinality(Missing') <= Cardinality(Missing \cup G)
  BY <1>1, FS_Subset
<1>4. /\ Cardinality(Missing) \in Nat /\ Cardinality(G) \in Nat
      /\ Cardinality(Missing \cap G) \in Nat /\ Cardinality(Missing') \in Nat
  BY <1>2, <1>3, FS_CardinalityType
<1>5. QED
  BY <1>1, <1>3, <1>4

\* The invariant, by what kind of step it is: one that describes nothing and
\* leaves the file alone, one that reuses a line, one that saves a description.
LEMMA QuietStepKeeps ==
    ASSUME FitInv, FitInv', KeepInv,
           UNCHANGED <<fileVars, legacy, conf, pos>>,
           \A r \in Run : ~conf[r].resume => known'[r] = {},
           clears = 0 => \A r \in Run : \A line \in known'[r] :
                           line.key \in Described \cup LegacyKeys
    PROVE  KeepInv'
<1>1. Described' = Described
  BY DescribedGrows
<1>2. /\ LegacyKeys' = LegacyKeys /\ FileKeys' = FileKeys /\ Endangered' = Endangered
      /\ UNCHANGED <<lines, legible, badAppends, clears>>
  BY DEF LegacyKeys, FileKeys, Endangered, fileVars
<1>3. Missing' = Missing
  BY <1>1, <1>2 DEF Missing, Keys
<1>4. QED
  BY <1>1, <1>2, <1>3 DEF KeepInv

LEMMA ReuseKeeps ==
    ASSUME FitInv, FitInv', KeepInv, NEW r \in Run, Reuse(r)
    PROVE  KeepInv'
<1>1. /\ UNCHANGED <<fileVars, legacy, conf, known>>
      /\ pos' = [pos EXCEPT ![r] = pos[r] + 1]
  BY DEF Reuse, Describe
<1>2. PICK line \in known[r] : line.key = pos[r]
  BY DEF Reuse, Hits
<1>3. conf[r].resume
  BY <1>2 DEF KeepInv
<1>4. Described' = Described \cup {pos[r]}
  BY <1>1, <1>3, DescribedGrows
<1>5. /\ LegacyKeys' = LegacyKeys /\ FileKeys' = FileKeys /\ Endangered' = Endangered
      /\ UNCHANGED <<lines, legible, badAppends, clears>>
  BY <1>1 DEF LegacyKeys, FileKeys, Endangered, fileVars
<1>6. clears = 0 => pos[r] \in Described \cup LegacyKeys
  BY <1>2 DEF KeepInv
<1>7. clears = 0 => Missing' = Missing
  BY <1>4, <1>5, <1>6 DEF Missing, Keys
<1>8. /\ \A s \in Run : ~conf'[s].resume => known'[s] = {}
      /\ clears' = 0 =>
           /\ \A j \in DOMAIN lines' : lines'[j].key \in Described'
           /\ \A s \in Run : \A l \in known'[s] : l.key \in Described' \cup LegacyKeys'
  BY <1>1, <1>4, <1>5 DEF KeepInv
<1>9. clears' = 0 /\ legible' =>
        IsFiniteSet(Missing') /\ Cardinality(Missing') + Endangered' <= 2 * badAppends'
  BY <1>5, <1>7 DEF KeepInv
<1>10. QED
  BY <1>8, <1>9 DEF KeepInv

LEMMA DescribingKeeps ==
    ASSUME FitInv, FitInv', KeepInv, NEW r \in Run, DescribeByRule(r) \/ Answer(r)
    PROVE  KeepInv'
<1>1. /\ UNCHANGED <<legacy, conf, known>>
      /\ pos' = [pos EXCEPT ![r] = pos[r] + 1]
  BY DescribingStep
<1>2. FileTypeOK /\ lines \in Seq(FittingLines) /\ badAppends \in Nat
  BY FileAssumption DEF FitInv, TypeOK, CacheInv, FileTypeOK
<1>3. LegacyKeys' = LegacyKeys
  BY <1>1 DEF LegacyKeys
<1>4. CASE ~conf[r].resume
  <2>1. UNCHANGED fileVars
    BY <1>4, DescribingStep
  <2>2. Described' = Described
    BY <1>1, <1>4, DescribedGrows
  <2>3. /\ FileKeys' = FileKeys /\ Endangered' = Endangered
        /\ UNCHANGED <<lines, legible, badAppends, clears>>
    BY <2>1 DEF FileKeys, Endangered, fileVars
  <2>4. Missing' = Missing
    BY <1>3, <2>2, <2>3 DEF Missing, Keys
  <2>5. QED
    BY <1>1, <1>3, <2>2, <2>3, <2>4 DEF KeepInv
<1>5. CASE conf[r].resume
  <2>1. PICK line : line.key = pos[r] /\ (AppendLine(line) \/ BadAppend(line))
    BY <1>5, DescribingStep
  <2>2. Described' = Described \cup {pos[r]}
    BY <1>1, <1>5, DescribedGrows
  <2>3. /\ clears' = clears
        /\ legible' => legible
        /\ \A j \in DOMAIN lines' : lines'[j] = line \/ \E k \in DOMAIN lines : lines'[j] = lines[k]
        /\ badAppends' \in Nat
    BY <1>2, <2>1, AppendPays, FileAssumption
  <2>4. PICK G : /\ IsFiniteSet(G)
                 /\ FileKeys \cup {line.key} \subseteq FileKeys' \cup G
                 /\ Cardinality(G) + Endangered' + 2 * badAppends
                      <= Endangered + 2 * badAppends'
    BY <1>2, <2>1, AppendPays, FileAssumption
  <2>5. Missing' \subseteq Missing \cup G
    BY <1>3, <2>1, <2>2, <2>4 DEF Missing, Keys
  <2>6. clears' = 0 /\ legible' =>
          IsFiniteSet(Missing') /\ Cardinality(Missing') + Endangered' <= 2 * badAppends'
    <3> SUFFICES ASSUME clears' = 0, legible'
                 PROVE  IsFiniteSet(Missing') /\ Cardinality(Missing') + Endangered' <= 2 * badAppends'
      OBVIOUS
    <3>1. IsFiniteSet(Missing) /\ Cardinality(Missing) + Endangered <= 2 * badAppends
      BY <2>3 DEF KeepInv
    <3>2. /\ IsFiniteSet(Missing')
          /\ Cardinality(Missing') <= Cardinality(Missing) + Cardinality(G)
          /\ Cardinality(Missing') \in Nat /\ Cardinality(Missing) \in Nat
          /\ Cardinality(G) \in Nat
      BY <2>4, <2>5, <3>1, MissingCount
    <3>3. Endangered \in Nat /\ Endangered' \in Nat
      BY DEF Endangered
    <3>4. QED
      BY <1>2, <2>3, <2>4, <3>1, <3>2, <3>3
  <2>7. /\ \A s \in Run : ~conf'[s].resume => known'[s] = {}
        /\ clears' = 0 =>
             /\ \A j \in DOMAIN lines' : lines'[j].key \in Described'
             /\ \A s \in Run : \A l \in known'[s] : l.key \in Described' \cup LegacyKeys'
    BY <1>1, <1>3, <2>1, <2>2, <2>3 DEF KeepInv
  <2>8. QED
    BY <2>6, <2>7 DEF KeepInv
<1>6. QED
  BY <1>4, <1>5

LEMMA KeepInvHolds == Spec => []KeepInv
<1>1. Init => KeepInv
  <2> SUFFICES ASSUME Init
               PROVE  KeepInv
    OBVIOUS
  <2>1. /\ known = [r \in Run |-> {}] /\ out = [r \in Run |-> <<>>]
        /\ lines = <<>> /\ ending = "clean" /\ badAppends = 0
    BY DEF Init, FileInit
  <2>2. \A r \in Run : DOMAIN out[r] = {}
    BY <2>1
  <2>3. Missing = {}
    BY <2>2 DEF Missing, Described
  <2>4. Endangered = 0 /\ IsFiniteSet({}) /\ Cardinality({}) = 0
    BY <2>1, SmallSets DEF Endangered
  <2>5. IsFiniteSet(Missing) /\ Cardinality(Missing) + Endangered <= 2 * badAppends
    BY <2>1, <2>3, <2>4
  <2>6. /\ \A r \in Run : known[r] = {}
        /\ \A j \in DOMAIN lines : lines[j].key \in Described
    BY <2>1
  <2>7. QED
    BY <2>5, <2>6 DEF KeepInv
<1>2. FitInv /\ FitInv' /\ KeepInv /\ [Next]_vars => KeepInv'
  <2> SUFFICES ASSUME FitInv, FitInv', KeepInv, [Next]_vars
               PROVE  KeepInv'
    OBVIOUS
  <2>1. known \in [Run -> SUBSET FittingLines]
    BY DEF FitInv, CacheInv
  <2>2. ASSUME NEW r \in Run, Start(r)
        PROVE  KeepInv'
    <3>1. /\ UNCHANGED <<fileVars, legacy, conf, pos>>
          /\ known' = [known EXCEPT ![r] = IF conf[r].resume THEN Checkpoint ELSE {}]
      BY <2>2 DEF Start
    <3>2. \A s \in Run : ~conf[s].resume => known'[s] = {}
      BY <2>1, <3>1 DEF KeepInv
    <3>3. ASSUME clears = 0, NEW line \in Checkpoint
          PROVE  line.key \in Described \cup LegacyKeys
      BY <3>3, CheckpointLineIsThere DEF KeepInv, LegacyKeys, LastPerKey
    <3>4. clears = 0 => \A s \in Run : \A line \in known'[s] :
                          line.key \in Described \cup LegacyKeys
      <4> SUFFICES ASSUME clears = 0, NEW s \in Run, NEW line \in known'[s]
                   PROVE  line.key \in Described \cup LegacyKeys
        OBVIOUS
      <4>1. CASE s = r
        BY <2>1, <3>1, <3>3, <4>1
      <4>2. CASE s # r
        BY <2>1, <3>1, <4>2 DEF KeepInv
      <4>3. QED
        BY <4>1, <4>2
    <3>5. QED
      BY <3>1, <3>2, <3>4, QuietStepKeeps
  <2>3. ASSUME UNCHANGED <<fileVars, legacy, conf, pos, known>>
        PROVE  KeepInv'
    <3>1. /\ \A r \in Run : ~conf[r].resume => known'[r] = {}
          /\ clears = 0 => \A r \in Run : \A line \in known'[r] :
                             line.key \in Described \cup LegacyKeys
      BY <2>3 DEF KeepInv
    <3>2. QED
      BY <2>3, <3>1, QuietStepKeeps
  <2>4. ASSUME NEW r \in Run, Ask(r) \/ Raise(r) \/ Finish(r)
        PROVE  KeepInv'
    <3>1. UNCHANGED <<fileVars, legacy, conf, pos, known>>
      BY <2>4 DEF Ask, Raise, Finish
    <3>2. QED
      BY <2>3, <3>1
  <2>5. CASE Clear
    <3>1. clears' = clears + 1 /\ clears \in Nat
      BY <2>5, FileAssumption DEF Clear, ClearFile, FitInv, TypeOK, FileTypeOK
    <3>2. clears' # 0
      BY <3>1
    <3>3. \A r \in Run : ~conf'[r].resume => known'[r] = {}
      BY <2>5 DEF Clear, runVars, KeepInv
    <3>4. QED
      BY <3>2, <3>3 DEF KeepInv
  <2>6. CASE Crash \/ UNCHANGED vars
    <3>1. UNCHANGED <<fileVars, legacy, conf, pos, known>>
      BY <2>6 DEF Crash, vars, runVars
    <3>2. QED
      BY <2>3, <3>1
  <2>7. QED
    BY <2>2, <2>4, <2>5, <2>6, ReuseKeeps, DescribingKeeps DEF Next, Step
<1>3. QED
  BY <1>1, <1>2, FitInvHolds, PTL DEF Spec

\* What has been described is read again, for any number of runs and of appends
\* that fail: each of them loses at most its own line and the one it is joined
\* with, unless a character is cut or the cache is deleted.
THEOREM DescriptionsAreKept == Spec => []DescribedIsKept
<1>1. FitInv /\ KeepInv => DescribedIsKept
  <2> SUFFICES ASSUME FitInv, KeepInv, clears = 0, legible
               PROVE  Cardinality({i \in Described : \A line \in Checkpoint : line.key # i})
                        <= 2 * badAppends
    BY DEF DescribedIsKept, Described
  <2> DEFINE Unread == {i \in Described : \A line \in Checkpoint : line.key # i}
  <2>1. lines \in Seq(FittingLines) /\ legacy \in Seq(FittingLines)
    BY DEF FitInv, CacheInv
  <2>2. ASSUME NEW i \in Keys
        PROVE  \E line \in Checkpoint : line.key = i
    <3>1. CASE i \in FileKeys
      <4>1. PICK line \in LastPerKey(lines) : line.key = i
        BY <2>1, <3>1, LastOfKey DEF FileKeys
      <4>2. QED
        BY <4>1 DEF Checkpoint, Loaded
    <3>2. CASE i \in LegacyKeys
      <4>1. PICK line \in LastPerKey(legacy) : line.key = i
        BY <2>1, <3>2, LastOfKey DEF LegacyKeys
      <4>2. QED
        BY <4>1 DEF Checkpoint
    <3>3. QED
      BY <2>2, <3>1, <3>2 DEF Keys
  <2>3. Unread \subseteq Missing
    BY <2>2 DEF Missing
  <2>4. IsFiniteSet(Missing) /\ Cardinality(Missing) + Endangered <= 2 * badAppends
    BY DEF KeepInv
  <2>5. /\ Cardinality(Unread) <= Cardinality(Missing)
        /\ IsFiniteSet(Unread)
    <3> HIDE DEF Unread
    <3> QED
      BY <2>3, <2>4, FS_Subset
  <2>6. Endangered \in Nat /\ badAppends \in Nat
    BY FileAssumption DEF Endangered, FitInv, TypeOK, FileTypeOK
  <2>7. Cardinality(Missing) \in Nat /\ Cardinality(Unread) \in Nat
    <3> HIDE DEF Unread
    <3> QED
      BY <2>4, <2>5, FS_CardinalityType
  <2> HIDE DEF Unread
  <2>8. Cardinality(Unread) <= 2 * badAppends
    BY <2>4, <2>5, <2>6, <2>7
  <2>9. QED
    BY <2>8 DEF Unread
<1>2. QED
  BY <1>1, FitInvHolds, KeepInvHolds, PTL

=============================================================================
