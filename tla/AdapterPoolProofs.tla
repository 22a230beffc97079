------------------------- MODULE AdapterPoolProofs -------------------------
(***************************************************************************)
(* For any number of requests: the lock is held exactly inside a getter,   *)
(* engines that are handed out have been initialised, and all requests     *)
(* share one instance of each adapter.                                     *)
(***************************************************************************)
EXTENDS AdapterPool, TLAPS

\* A task between two calls of a getter or waiting for one has a call to make.
RowInv == \A t \in Task : at[t] \in Inside \cup {"waiting"} => row[t] \in DOMAIN Calls

\* What is being built is not there yet.
BuildInv ==
    \A t \in Task :
        /\ at[t] = "probing" => instance[Current(t)] = 0
        /\ at[t] = "initializing" => /\ Current(t) = "raganything"
                                     /\ instance["raganything"] = 0
                                     /\ made["raganything"] # 0

\* What a request has is the one instance, and there is one.
OutInv ==
    \A t \in Task, s \in Slot : out[t][s] # None =>
        /\ out[t][s].no = instance[out[t][s].of]
        /\ out[t][s].no # 0

EngineIsReady == instance["raganything"] # 0 => instance["raganything"] \in ready

PoolInv ==
    /\ PoolTypeOK
    /\ LockIsHeldInside
    /\ RowInv
    /\ BuildInv
    /\ OutInv
    /\ EngineIsReady

-----------------------------------------------------------------------------

LEMMA CallsTyping ==
    /\ Len(Calls) = 16
    /\ DOMAIN Calls = 1 .. 16
    /\ \A i \in DOMAIN Calls : Calls[i][2] \in Slot
BY DEF Calls, Slot, LightRAG

LEMMA Literals == "raganything" \in Slot /\ "none" \notin Slot
BY DEF Slot, LightRAG

LEMMA CurrentTyping ==
    ASSUME PoolTypeOK, NEW t \in Task, row[t] \in DOMAIN Calls
    PROVE  Current(t) \in Slot
BY CallsTyping DEF Current

\* A task that is inside holds the lock, so that no other is.
LEMMA OnlyInside ==
    ASSUME LockIsHeldInside, NEW t \in Task, at[t] \in Inside
    PROVE  holder = t /\ \A u \in Task \ {t} : at[u] \notin Inside
BY DEF LockIsHeldInside

\* What Gives hands out is the one instance, of its slot and with its number.
LEMMA GivesOne ==
    ASSUME PoolTypeOK, NEW t \in Task, NEW s \in Slot, NEW n \in Nat, Gives(t, s, n)
    PROVE  /\ out' \in [Task -> [Slot -> Adapter]]
           /\ \A u \in Task, x \in Slot : out'[u][x] = out[u][x] \/ out'[u][x] = Of(s, n)
<1>1. PICK filled \in Filled(s) :
          out' = [out EXCEPT ![t] = [x \in Slot |-> IF x \in filled THEN Of(s, n) ELSE @[x]]]
  BY DEF Gives
<1>2. Of(s, n) \in Adapter
  BY DEF Of, Adapter
<1>3. out \in [Task -> [Slot -> Adapter]]
  BY DEF PoolTypeOK
<1> DEFINE Row == [x \in Slot |-> IF x \in filled THEN Of(s, n) ELSE out[t][x]]
<1>4. Row \in [Slot -> Adapter]
  BY <1>2, <1>3
<1>5. out' = [out EXCEPT ![t] = Row]
  BY <1>1, <1>3
<1>6. \A x \in Slot : Row[x] = out[t][x] \/ Row[x] = Of(s, n)
  OBVIOUS
<1> HIDE DEF Row
<1> QED
  BY <1>3, <1>4, <1>5, <1>6

LEMMA GivesKeepsOut ==
    ASSUME PoolTypeOK, OutInv, NEW t \in Task, NEW s \in Slot, NEW n \in Nat \ {0},
           Gives(t, s, n), instance'[s] = n,
           \A x \in Slot : instance[x] # 0 => instance'[x] = instance[x]
    PROVE  OutInv'
<1> SUFFICES ASSUME NEW u \in Task, NEW x \in Slot, out'[u][x] # None
             PROVE  /\ out'[u][x].no = instance'[out'[u][x].of]
                    /\ out'[u][x].no # 0
  BY DEF OutInv
<1>1. CASE out'[u][x] = Of(s, n)
  BY <1>1 DEF Of
<1>2. CASE out'[u][x] = out[u][x]
  <2>1. /\ out[u][x].no = instance[out[u][x].of]
        /\ out[u][x].no # 0
    BY <1>2 DEF OutInv
  <2>2. out[u][x].of \in Slot
    BY <1>2 DEF PoolTypeOK, Adapter
  <2> QED
    BY <1>2, <2>1, <2>2
<1> QED
  BY <1>1, <1>2, GivesOne

-----------------------------------------------------------------------------

LEMMA InitHolds ==
    ASSUME PoolInit
    PROVE  PoolInv
<1>1. PoolTypeOK
  <2>1. None \in Adapter /\ 1 \in 1 .. Len(Calls) + 1
    BY CallsTyping DEF Adapter
  <2>2. /\ instance \in [Slot -> Nat] /\ made \in [Slot -> Nat]
        /\ out \in [Task -> [Slot -> Adapter]]
        /\ row \in [Task -> 1 .. Len(Calls) + 1]
        /\ failed \in [Task -> SUBSET Slot]
    BY <2>1 DEF PoolInit
  <2> QED
    BY <2>2 DEF PoolTypeOK, PoolInit
<1>2. LockIsHeldInside
  BY PoolAssumption DEF PoolInit, LockIsHeldInside, Inside
<1>3. RowInv /\ BuildInv
  BY DEF PoolInit, RowInv, BuildInv, Inside
<1>4. OutInv /\ EngineIsReady
  BY Literals DEF PoolInit, OutInv, EngineIsReady
<1> QED
  BY <1>1, <1>2, <1>3, <1>4 DEF PoolInv

\* The types: what each action does to the two queues and to the row.
LEMMA TypingKept ==
    ASSUME PoolInv, NEW t \in Task, Proceed(t) \/ Cancel(t)
    PROVE  PoolTypeOK'
<1> USE DEF PoolInv
<1>0. PoolTypeOK
  OBVIOUS
<1>1. CASE Begin(t) \/ Finish(t)
  BY <1>0, <1>1 DEF Begin, Finish, Goes, PoolTypeOK, lock, pool
<1>2. CASE Skip(t)
  <2>1. PICK i \in row[t] + 1 .. Len(Calls) + 1 : row' = [row EXCEPT ![t] = i]
    BY <1>2 DEF Skip
  <2>2. row \in [Task -> 1 .. Len(Calls) + 1]
    BY <1>0 DEF PoolTypeOK
  <2>3. row[t] \in 1 .. Len(Calls) + 1 /\ Len(Calls) = 16
    BY <2>2, CallsTyping
  <2>4. i \in 1 .. Len(Calls) + 1
    BY <2>1, <2>3
  <2>5. row' \in [Task -> 1 .. Len(Calls) + 1]
    BY <2>1, <2>2, <2>4
  <2> QED
    BY <1>0, <1>2, <2>5 DEF Skip, PoolTypeOK, lock, pool
<1>3. CASE Take(t)
  BY <1>0, <1>3 DEF Take, Goes, PoolTypeOK, pool, Inside
<1>4. CASE Queue(t)
  BY <1>0, <1>4 DEF Queue, Goes, PoolTypeOK, pool
<1>5. CASE Granted(t)
  BY <1>0, <1>5 DEF Granted, Goes, PoolTypeOK, pool, Inside
<1>6. CASE Probe(t)
  BY <1>0, <1>6 DEF Probe, Goes, PoolTypeOK, pool, lock, Inside
<1>7. ASSUME Returns(t), row[t] \in DOMAIN Calls
      PROVE  /\ env' \in Envs /\ needs' \in Requests
             /\ holder' \in Task \cup {NoTask} /\ waiters' \in Seq(Task)
             /\ at' \in [Task -> {"new", "run", "waiting", "done", "cancelled"} \cup Inside]
             /\ row' \in [Task -> 1 .. Len(Calls) + 1]
  <2>1. row \in [Task -> 1 .. Len(Calls) + 1] /\ Len(Calls) = 16
    BY <1>0, CallsTyping DEF PoolTypeOK
  <2>2. row[t] + 1 \in 1 .. Len(Calls) + 1
    BY <1>7, <2>1, CallsTyping
  <2>3. row' = [row EXCEPT ![t] = row[t] + 1]
    BY <1>7, <2>1 DEF Returns
  <2>4. row' \in [Task -> 1 .. Len(Calls) + 1]
    BY <2>1, <2>2, <2>3
  <2> QED
    BY <1>0, <1>7, <2>4 DEF Returns, Goes, PoolTypeOK
<1>8. ASSUME ReturnsNone(t), row[t] \in DOMAIN Calls, UNCHANGED pool
      PROVE  PoolTypeOK'
  <2>1. Current(t) \in Slot
    BY <1>0, <1>8, CurrentTyping
  <2>2. failed' \in [Task -> SUBSET Slot] /\ out' \in [Task -> [Slot -> Adapter]]
    BY <1>0, <1>8, <2>1 DEF ReturnsNone, PoolTypeOK
  <2> QED
    BY <1>0, <1>7, <1>8, <2>2 DEF ReturnsNone, PoolTypeOK, pool
<1>9. CASE ProbeFails(t) \/ InitializeFails(t) \/ BuildFails(t)
  <2>1. row[t] \in DOMAIN Calls
    BY <1>9 DEF ProbeFails, InitializeFails, BuildFails, Buildable, Building, RowInv, Inside
  <2> QED
    BY <1>8, <1>9, <2>1 DEF ProbeFails, InitializeFails, BuildFails
<1>10. CASE NoKey(t)
  <2>1. row[t] \in DOMAIN Calls
    BY <1>10 DEF NoKey, Building, RowInv, Inside
  <2> QED
    BY <1>0, <1>7, <1>10, <2>1 DEF NoKey, PoolTypeOK, pool
<1>11. CASE Reuse(t)
  <2>1. row[t] \in DOMAIN Calls
    BY <1>11 DEF Reuse, RowInv, Inside
  <2>2. Current(t) \in Slot
    BY <1>0, <2>1, CurrentTyping
  <2>3. instance[Current(t)] \in Nat
    BY <1>0, <2>2 DEF PoolTypeOK
  <2>4. out' \in [Task -> [Slot -> Adapter]]
    BY <1>0, <1>11, <2>2, <2>3, GivesOne DEF Reuse
  <2> QED
    BY <1>0, <1>7, <1>11, <2>1, <2>4 DEF Reuse, PoolTypeOK, pool
<1>12. CASE Build(t)
  <2>1. row[t] \in DOMAIN Calls
    BY <1>12 DEF Build, Buildable, Building, RowInv, Inside
  <2>2. Current(t) \in Slot
    BY <1>0, <2>1, CurrentTyping
  <2>3. made' \in [Slot -> Nat] /\ made'[Current(t)] \in Nat
    BY <1>0, <1>12, <2>2 DEF Build, PoolTypeOK
  <2>4. instance' \in [Slot -> Nat]
    BY <1>0, <1>12, <2>2, <2>3 DEF Build, PoolTypeOK
  <2>5. out' \in [Task -> [Slot -> Adapter]]
    BY <1>0, <1>12, <2>2, <2>3, GivesOne DEF Build
  <2> QED
    BY <1>0, <1>7, <1>12, <2>1, <2>3, <2>4, <2>5 DEF Build, PoolTypeOK
<1>13. CASE Construct(t)
  BY <1>0, <1>13, Literals DEF Construct, Goes, PoolTypeOK, lock, Inside
<1>14. CASE Initialized(t)
  <2>1. row[t] \in DOMAIN Calls
    BY <1>14 DEF Initialized, RowInv, Inside
  <2>2. made["raganything"] \in Nat
    BY <1>0, Literals DEF PoolTypeOK
  <2>3. instance' \in [Slot -> Nat] /\ ready' \subseteq Nat
    BY <1>0, <1>14, <2>2, Literals DEF Initialized, PoolTypeOK
  <2>4. out' \in [Task -> [Slot -> Adapter]]
    BY <1>0, <1>14, <2>2, Literals, GivesOne DEF Initialized
  <2> QED
    BY <1>0, <1>7, <1>14, <2>1, <2>3, <2>4 DEF Initialized, PoolTypeOK
<1>15. CASE Cancel(t)
  <2>1. waiters' \in Seq(Task) /\ holder' \in Task \cup {NoTask}
    <3>1. waiters \in Seq(Task)
      BY <1>0 DEF PoolTypeOK
    <3>2. CASE holder = t
      BY <1>0, <1>15, <3>1, <3>2 DEF Cancel, Leave, PoolTypeOK
    <3>3. CASE holder # t
      <4>1. PICK i \in DOMAIN waiters :
                /\ waiters' = SubSeq(waiters, 1, i - 1) \o SubSeq(waiters, i + 1, Len(waiters))
                /\ UNCHANGED holder
        BY <1>15, <3>3 DEF Cancel, Leave
      <4>2. /\ SubSeq(waiters, 1, i - 1) \in Seq(Task)
            /\ SubSeq(waiters, i + 1, Len(waiters)) \in Seq(Task)
        BY <3>1, <4>1
      <4> QED
        BY <1>0, <4>1, <4>2 DEF PoolTypeOK
    <3> QED
      BY <3>2, <3>3
  <2> QED
    BY <1>0, <1>15, <2>1 DEF Cancel, Goes, PoolTypeOK, pool
<1> QED
  BY <1>1, <1>2, <1>3, <1>4, <1>5, <1>6, <1>9, <1>10, <1>11, <1>12, <1>13, <1>14, <1>15
  DEF Proceed

\* What is locked stays so: every action moves one task, and with it the lock.
LEMMA LockKept ==
    ASSUME PoolInv, NEW t \in Task, Proceed(t) \/ Cancel(t)
    PROVE  LockIsHeldInside'
<1>0. LockIsHeldInside /\ at \in [Task -> {"new", "run", "waiting", "done", "cancelled"} \cup Inside]
      /\ NoTask \notin Task
  BY PoolAssumption DEF PoolInv, PoolTypeOK
<1>1. ASSUME NEW a, at' = [at EXCEPT ![t] = a], holder' = holder, at[t] \in Inside <=> a \in Inside
      PROVE  LockIsHeldInside'
  <2>1. \A u \in Task : at'[u] = IF u = t THEN a ELSE at[u]
    BY <1>0, <1>1
  <2> QED
    BY <1>0, <1>1, <2>1 DEF LockIsHeldInside
<1>2. ASSUME NEW a \in Inside, at' = [at EXCEPT ![t] = a], holder = NoTask, holder' = t
      PROVE  LockIsHeldInside'
  <2>1. \A u \in Task : at'[u] = IF u = t THEN a ELSE at[u]
    BY <1>0, <1>2
  <2> QED
    BY <1>0, <1>2, <2>1 DEF LockIsHeldInside
<1>3. ASSUME NEW a, a \notin Inside, at' = [at EXCEPT ![t] = a],
             at[t] \in Inside, holder' = NoTask
      PROVE  LockIsHeldInside'
  <2>1. \A u \in Task : at'[u] = IF u = t THEN a ELSE at[u]
    BY <1>0, <1>3
  <2>2. \A u \in Task \ {t} : at[u] \notin Inside
    BY <1>0, <1>3, OnlyInside
  <2> QED
    BY <1>0, <1>3, <2>1, <2>2 DEF LockIsHeldInside
<1>4. CASE Begin(t) \/ Skip(t) \/ Queue(t) \/ Finish(t)
  <2>1. CASE Begin(t)
    BY <2>1, <1>1 DEF Begin, Goes, lock, Inside
  <2>2. CASE Skip(t)
    BY <1>0, <2>2 DEF Skip, lock, LockIsHeldInside
  <2>3. CASE Queue(t)
    BY <2>3, <1>1 DEF Queue, Goes, Inside
  <2>4. CASE Finish(t)
    BY <2>4, <1>1 DEF Finish, Goes, lock, Inside
  <2> QED
    BY <1>4, <2>1, <2>2, <2>3, <2>4
<1>5. CASE Take(t)
  BY <1>5, <1>2 DEF Take, Goes, Inside
<1>6. CASE Granted(t)
  BY <1>6, <1>2 DEF Granted, Goes, Inside
<1>7. CASE Probe(t)
  BY <1>7, <1>1 DEF Probe, Goes, lock, Inside
<1>8. CASE Construct(t)
  <2>1. at[t] \in Inside
    BY <1>8 DEF Construct, Buildable, Building, Inside
  <2> QED
    BY <1>8, <2>1, <1>1 DEF Construct, Goes, lock, Inside
<1>9. CASE \/ Reuse(t) \/ NoKey(t) \/ Build(t) \/ Initialized(t)
           \/ ProbeFails(t) \/ BuildFails(t) \/ InitializeFails(t)
  <2>1. at[t] \in Inside
    BY <1>9 DEF Reuse, NoKey, Build, Initialized, ProbeFails, BuildFails, InitializeFails,
                Buildable, Building, Inside
  <2>2. at' = [at EXCEPT ![t] = "run"] /\ holder' = NoTask
    BY <1>9 DEF Reuse, NoKey, Build, Initialized, ProbeFails, BuildFails, InitializeFails,
                ReturnsNone, Returns, Goes
  <2>3. "run" \notin Inside
    BY DEF Inside
  <2> QED
    BY <2>1, <2>2, <2>3, <1>3
<1>10. CASE Cancel(t)
  <2>1. at' = [at EXCEPT ![t] = "cancelled"] /\ "cancelled" \notin Inside
    BY <1>10 DEF Cancel, Goes, Inside
  <2>2. CASE holder = t
    <3>1. at[t] \in Inside
      BY <1>0, <2>2 DEF LockIsHeldInside
    <3>2. holder' = NoTask
      BY <1>10, <2>2 DEF Cancel, Leave
    <3> QED
      BY <2>1, <3>1, <3>2, <1>3
  <2>3. CASE holder # t
    <3>1. at[t] \notin Inside
      BY <1>0, <2>3 DEF LockIsHeldInside
    <3>2. holder' = holder
      BY <1>10, <2>3 DEF Cancel, Leave
    <3> QED
      BY <2>1, <3>1, <3>2, <1>1
  <2> QED
    BY <2>2, <2>3
<1> QED
  BY <1>4, <1>5, <1>6, <1>7, <1>8, <1>9, <1>10 DEF Proceed

LEMMA RowKept ==
    ASSUME PoolInv, NEW t \in Task, Proceed(t) \/ Cancel(t)
    PROVE  RowInv'
<1>0. /\ RowInv
      /\ at \in [Task -> {"new", "run", "waiting", "done", "cancelled"} \cup Inside]
      /\ row \in [Task -> 1 .. Len(Calls) + 1]
  BY DEF PoolInv, PoolTypeOK
<1>1. ASSUME NEW a, at' = [at EXCEPT ![t] = a], UNCHANGED row,
             a \in Inside \cup {"waiting"} => row[t] \in DOMAIN Calls
      PROVE  RowInv'
  <2>1. \A u \in Task : at'[u] = IF u = t THEN a ELSE at[u]
    BY <1>0, <1>1
  <2> QED
    BY <1>0, <1>1, <2>1 DEF RowInv
<1>2. ASSUME at' = [at EXCEPT ![t] = "run"], NEW i, row' = [row EXCEPT ![t] = i]
      PROVE  RowInv'
  <2>1. \A u \in Task : /\ at'[u] = IF u = t THEN "run" ELSE at[u]
                        /\ row'[u] = IF u = t THEN i ELSE row[u]
    BY <1>0, <1>2
  <2> QED
    BY <1>0, <2>1 DEF RowInv, Inside
<1>3. CASE Begin(t) \/ Finish(t) \/ Cancel(t)
  BY <1>3, <1>1 DEF Begin, Finish, Cancel, Goes, Inside
<1>4. CASE Skip(t)
  <2>1. PICK i : row' = [row EXCEPT ![t] = i]
    BY <1>4 DEF Skip
  <2>2. at' = [at EXCEPT ![t] = "run"]
    BY <1>0, <1>4 DEF Skip
  <2> QED
    BY <2>1, <2>2, <1>2
<1>5. CASE Take(t) \/ Queue(t)
  BY <1>5, <1>1 DEF Take, Queue, Goes
<1>6. CASE Granted(t) \/ Probe(t) \/ Construct(t)
  <2>1. row[t] \in DOMAIN Calls
    BY <1>0, <1>6 DEF Granted, Probe, Construct, Buildable, Building, RowInv, Inside
  <2> QED
    BY <1>6, <2>1, <1>1 DEF Granted, Probe, Construct, Goes
<1>7. CASE \/ Reuse(t) \/ NoKey(t) \/ Build(t) \/ Initialized(t)
           \/ ProbeFails(t) \/ BuildFails(t) \/ InitializeFails(t)
  <2>1. at' = [at EXCEPT ![t] = "run"] /\ row' = [row EXCEPT ![t] = row[t] + 1]
    BY <1>0, <1>7 DEF Reuse, NoKey, Build, Initialized, ProbeFails, BuildFails, InitializeFails,
                ReturnsNone, Returns, Goes
  <2> QED
    BY <2>1, <1>2
<1> QED
  BY <1>3, <1>4, <1>5, <1>6, <1>7 DEF Proceed

\* What is not there when its building begins is not there when it ends.
LEMMA NotThere ==
    ASSUME PoolInv, NEW t \in Task, Buildable(t)
    PROVE  instance[Current(t)] = 0 /\ at[t] \in Inside /\ row[t] \in DOMAIN Calls
BY DEF PoolInv, BuildInv, RowInv, Buildable, Building, IsThere, Inside

LEMMA BuildKept ==
    ASSUME PoolInv, NEW t \in Task, Proceed(t) \/ Cancel(t)
    PROVE  BuildInv'
<1>0. /\ BuildInv /\ LockIsHeldInside
      /\ at \in [Task -> {"new", "run", "waiting", "done", "cancelled"} \cup Inside]
      /\ row \in [Task -> 1 .. Len(Calls) + 1]
      /\ made \in [Slot -> Nat]
  BY DEF PoolInv, PoolTypeOK
<1>1. ASSUME NEW a, a \notin {"probing", "initializing"}, at' = [at EXCEPT ![t] = a],
             UNCHANGED <<instance, made, row>>
      PROVE  BuildInv'
  <2>1. \A u \in Task : at'[u] = IF u = t THEN a ELSE at[u]
    BY <1>0, <1>1
  <2> QED
    BY <1>0, <1>1, <2>1 DEF BuildInv, Current
<1>2. ASSUME at[t] \in Inside, at' = [at EXCEPT ![t] = "run"]
      PROVE  BuildInv'
  <2>1. \A u \in Task \ {t} : at[u] \notin Inside
    BY <1>0, <1>2, OnlyInside
  <2>2. \A u \in Task : at'[u] \notin {"probing", "initializing"}
    BY <1>0, <1>2, <2>1 DEF Inside
  <2> QED
    BY <2>2 DEF BuildInv
<1>3. CASE Begin(t) \/ Finish(t) \/ Take(t) \/ Queue(t) \/ Granted(t) \/ Cancel(t)
  BY <1>3, <1>1 DEF Begin, Finish, Take, Queue, Granted, Cancel, Goes, pool
<1>4. CASE Skip(t)
  <2>1. \A u \in Task \ {t} : row'[u] = row[u]
    BY <1>0, <1>4 DEF Skip
  <2>2. /\ UNCHANGED <<at, instance, made>> /\ at[t] = "run"
    BY <1>4 DEF Skip, pool
  <2> QED
    BY <1>0, <2>1, <2>2 DEF BuildInv, Current
<1>5. CASE Probe(t)
  <2>1. \A u \in Task : at'[u] = IF u = t THEN "probing" ELSE at[u]
    BY <1>0, <1>5 DEF Probe, Goes
  <2>2. instance[Current(t)] = 0 /\ UNCHANGED <<instance, made, row>>
    BY <1>5 DEF Probe, IsThere, pool
  <2> QED
    BY <1>0, <2>1, <2>2 DEF BuildInv, Current
<1>6. CASE Construct(t)
  <2>1. at[t] \in Inside /\ instance["raganything"] = 0
    BY <1>6, NotThere DEF Construct
  <2>2. \A u \in Task \ {t} : at[u] \notin Inside
    BY <1>0, <2>1, OnlyInside
  <2>3. at' = [at EXCEPT ![t] = "initializing"] /\ UNCHANGED instance
    BY <1>6 DEF Construct, Goes
  <2>4. made["raganything"] \in Nat /\ made'["raganything"] = made["raganything"] + 1
    BY <1>0, <1>6, Literals DEF Construct
  <2>5. \A u \in Task : /\ at'[u] # "probing"
                        /\ at'[u] = "initializing" => u = t
    BY <1>0, <2>2, <2>3 DEF Inside
  <2>6. Current(t) = "raganything" /\ UNCHANGED row
    BY <1>6 DEF Construct
  <2> QED
    BY <2>1, <2>3, <2>4, <2>5, <2>6 DEF BuildInv, Current
<1>7. CASE \/ Reuse(t) \/ NoKey(t) \/ Build(t) \/ Initialized(t)
           \/ ProbeFails(t) \/ BuildFails(t) \/ InitializeFails(t)
  <2>1. at[t] \in Inside
    BY <1>7 DEF Reuse, NoKey, Build, Initialized, ProbeFails, BuildFails, InitializeFails,
                Buildable, Building, Inside
  <2>2. at' = [at EXCEPT ![t] = "run"]
    BY <1>7 DEF Reuse, NoKey, Build, Initialized, ProbeFails, BuildFails, InitializeFails,
                ReturnsNone, Returns, Goes
  <2> QED
    BY <2>1, <2>2, <1>2
<1> QED
  BY <1>3, <1>4, <1>5, <1>6, <1>7 DEF Proceed

\* A global is set only where there was none, so that what was handed out stays the
\* one instance; that of the engine only once it is ready.
LEMMA OutKept ==
    ASSUME PoolInv, NEW t \in Task, Proceed(t) \/ Cancel(t)
    PROVE  OutInv' /\ EngineIsReady'
<1>0. PoolTypeOK /\ OutInv /\ EngineIsReady /\ BuildInv /\ RowInv
  BY DEF PoolInv
<1>1. CASE \/ Begin(t) \/ Skip(t) \/ Take(t) \/ Queue(t) \/ Granted(t) \/ Probe(t)
           \/ Finish(t) \/ Cancel(t) \/ NoKey(t) \/ Construct(t)
           \/ ProbeFails(t) \/ BuildFails(t) \/ InitializeFails(t)
  <2>1. UNCHANGED <<instance, ready, out>>
    BY <1>1 DEF Begin, Skip, Take, Queue, Granted, Probe, Finish, Cancel, NoKey, Construct,
                ProbeFails, BuildFails, InitializeFails, ReturnsNone, pool
  <2> QED
    BY <1>0, <2>1 DEF OutInv, EngineIsReady
<1>2. CASE Reuse(t)
  <2>1. Current(t) \in Slot
    BY <1>0, <1>2, CurrentTyping DEF Reuse, RowInv, Inside
  <2>2. instance[Current(t)] \in Nat \ {0}
    BY <1>0, <1>2, <2>1 DEF Reuse, IsThere, PoolTypeOK
  <2>3. UNCHANGED <<instance, ready>> /\ Gives(t, Current(t), instance[Current(t)])
    BY <1>2 DEF Reuse, pool
  <2>4. OutInv'
    BY <1>0, <2>1, <2>2, <2>3, GivesKeepsOut
  <2> QED
    BY <1>0, <2>3, <2>4 DEF EngineIsReady
<1>3. CASE Build(t)
  <2> DEFINE s == Current(t)
  <2>1. s \in Slot /\ instance[s] = 0 /\ s # "raganything"
    BY <1>0, <1>3, NotThere, CurrentTyping DEF Build
  <2>2. made[s] \in Nat /\ made'[s] = made[s] + 1
    BY <1>0, <1>3, <2>1 DEF Build, PoolTypeOK
  <2>3. \A x \in Slot : instance'[x] = IF x = s THEN made'[s] ELSE instance[x]
    BY <1>0, <1>3, <2>1 DEF Build, PoolTypeOK
  <2>4. Gives(t, s, made'[s]) /\ UNCHANGED ready
    BY <1>3 DEF Build
  <2> HIDE DEF s
  <2>5. OutInv'
    <3>1. made'[s] \in Nat \ {0} /\ instance'[s] = made'[s]
      BY <2>1, <2>2, <2>3
    <3>2. \A x \in Slot : instance[x] # 0 => instance'[x] = instance[x]
      BY <2>1, <2>3
    <3> QED
      BY <1>0, <2>1, <2>4, <3>1, <3>2, GivesKeepsOut
  <2>6. EngineIsReady'
    BY <1>0, <2>1, <2>3, <2>4, Literals DEF EngineIsReady
  <2> QED
    BY <2>5, <2>6
<1>4. CASE Initialized(t)
  <2> DEFINE n == made["raganything"]
  <2>1. instance["raganything"] = 0 /\ n \in Nat \ {0}
    BY <1>0, <1>4, Literals DEF Initialized, BuildInv, PoolTypeOK
  <2>2. \A x \in Slot : instance'[x] = IF x = "raganything" THEN n ELSE instance[x]
    BY <1>0, <1>4 DEF Initialized, PoolTypeOK
  <2>3. Gives(t, "raganything", n) /\ ready' = ready \cup {n}
    BY <1>4 DEF Initialized
  <2> HIDE DEF n
  <2>4. instance'["raganything"] = n
    BY <2>2, Literals
  <2>5. \A x \in Slot : instance[x] # 0 => instance'[x] = instance[x]
    BY <2>1, <2>2
  <2>6. OutInv'
    BY <1>0, <2>1, <2>3, <2>4, <2>5, Literals, GivesKeepsOut
  <2>7. EngineIsReady'
    BY <2>3, <2>4 DEF EngineIsReady
  <2> QED
    BY <2>6, <2>7
<1> QED
  BY <1>1, <1>2, <1>3, <1>4 DEF Proceed

-----------------------------------------------------------------------------

THEOREM PoolInvariant == PoolSpec => []PoolInv
<1>1. PoolInit => PoolInv
  BY InitHolds
<1>2. PoolInv /\ [PoolNext]_poolVars => PoolInv'
  <2> SUFFICES ASSUME PoolInv, [PoolNext]_poolVars
               PROVE  PoolInv'
    OBVIOUS
  <2>1. CASE UNCHANGED poolVars
    BY <2>1 DEF PoolInv, PoolTypeOK, LockIsHeldInside, RowInv, BuildInv, OutInv,
                EngineIsReady, Current, poolVars, lock, pool, task
  <2>2. ASSUME NEW t \in Task, Proceed(t) \/ Cancel(t)
        PROVE  PoolInv'
    BY <2>2, TypingKept, LockKept, RowKept, BuildKept, OutKept DEF PoolInv
  <2> QED
    BY <2>1, <2>2 DEF PoolNext
<1> QED
  BY <1>1, <1>2, PTL DEF PoolSpec

\* Each global has one type of values, each task one place, whatever the requests.
THEOREM PoolTyping == PoolSpec => []PoolTypeOK
BY PoolInvariant, PTL DEF PoolInv

\* Whoever is inside a getter holds the lock and nobody else: an exception or a
\* cancellation never leaves it locked.
THEOREM LockStaysInside == PoolSpec => []LockIsHeldInside
BY PoolInvariant, PTL DEF PoolInv

\* All requests share one instance of each adapter, however they raced for it.
THEOREM InstancesStayShared == PoolSpec => []InstancesAreShared
<1>1. PoolInv => InstancesAreShared
  BY DEF PoolInv, OutInv, InstancesAreShared
<1> QED
  BY <1>1, PoolInvariant, PTL

\* An engine handed to a request has been initialised.
THEOREM EnginesStayReady == PoolSpec => []EnginesAreReady
<1>1. ASSUME OutInv, EngineIsReady PROVE EnginesAreReady
  <2> SUFFICES ASSUME NEW t \in Task, NEW s \in Slot, out[t][s].of = "raganything"
               PROVE  out[t][s].no \in ready
    BY <1>1 DEF EnginesAreReady, EngineIsReady
  <2>1. out[t][s] # None
    BY DEF None
  <2> QED
    BY <1>1, <2>1 DEF OutInv, EngineIsReady
<1>2. PoolInv => EnginesAreReady
  BY <1>1 DEF PoolInv
<1> QED
  BY <1>2, PoolInvariant, PTL

-----------------------------------------------------------------------------
\* The call i of request t is behind it for a reason.
Provided(t, i) ==
    Calls[i][1] \in needs[t] =>
        \/ out[t][Calls[i][2]] # None
        \/ Calls[i][2] \in failed[t]
        \/ Calls[i][2] \in NeedsLlmKey /\ ~env.llmKey
        \/ Calls[i][2] = "embedding_func" /\ out[t]["raganything"] # None

ProvidedInv ==
    \A t \in Task :
        /\ \A i \in DOMAIN Calls : i < row[t] => Provided(t, i)
        /\ at[t] = "done" => row[t] \notin DOMAIN Calls

\* What a request has, and the exceptions it met, it keeps.
LEMMA NothingIsTakenBack ==
    ASSUME PoolInv, NEW t \in Task, Proceed(t) \/ Cancel(t)
    PROVE  /\ env' = env /\ needs' = needs
           /\ \A u \in Task, x \in Slot : out[u][x] # None => out'[u][x] # None
           /\ \A u \in Task : failed[u] \subseteq failed'[u]
<1>0. PoolTypeOK /\ RowInv /\ BuildInv
  BY DEF PoolInv
<1>1. env' = env /\ needs' = needs
  BY DEF Proceed, Begin, Skip, Take, Queue, Granted, Probe, Finish, Cancel, NoKey, Construct,
         Reuse, Build, Initialized, ProbeFails, BuildFails, InitializeFails, ReturnsNone, Returns
<1>2. ASSUME NEW s \in Slot, NEW n \in Nat, Gives(t, s, n), UNCHANGED failed
      PROVE  /\ \A u \in Task, x \in Slot : out[u][x] # None => out'[u][x] # None
             /\ \A u \in Task : failed[u] \subseteq failed'[u]
  <2>1. Of(s, n) # None
    BY Literals DEF Of, None
  <2> QED
    BY <1>0, <1>2, <2>1, GivesOne
<1>3. CASE \/ Begin(t) \/ Skip(t) \/ Take(t) \/ Queue(t) \/ Granted(t) \/ Probe(t)
           \/ Finish(t) \/ Cancel(t) \/ NoKey(t) \/ Construct(t)
  <2>1. UNCHANGED <<out, failed>>
    BY <1>3 DEF Begin, Skip, Take, Queue, Granted, Probe, Finish, Cancel, NoKey, Construct
  <2> QED
    BY <1>1, <2>1
<1>4. CASE ProbeFails(t) \/ BuildFails(t) \/ InitializeFails(t)
  <2>1. UNCHANGED out /\ failed' = [failed EXCEPT ![t] = failed[t] \cup {Current(t)}]
    BY <1>0, <1>4 DEF ProbeFails, BuildFails, InitializeFails, ReturnsNone, PoolTypeOK
  <2> QED
    BY <1>0, <1>1, <2>1 DEF PoolTypeOK
<1>5. CASE Reuse(t)
  <2>1. Current(t) \in Slot
    BY <1>0, <1>5, CurrentTyping DEF Reuse, RowInv, Inside
  <2>2. instance[Current(t)] \in Nat
    BY <1>0, <2>1 DEF PoolTypeOK
  <2> QED
    BY <1>1, <1>2, <1>5, <2>1, <2>2 DEF Reuse
<1>6. CASE Build(t)
  <2>1. Current(t) \in Slot
    BY <1>0, <1>6, CurrentTyping, NotThere DEF Build
  <2>2. made'[Current(t)] \in Nat
    BY <1>0, <1>6, <2>1 DEF Build, PoolTypeOK
  <2> QED
    BY <1>1, <1>2, <1>6, <2>1, <2>2 DEF Build
<1>7. CASE Initialized(t)
  <2>1. made["raganything"] \in Nat
    BY <1>0, Literals DEF PoolTypeOK
  <2> QED
    BY <1>1, <1>2, <1>7, <2>1, Literals DEF Initialized
<1> QED
  BY <1>3, <1>4, <1>5, <1>6, <1>7 DEF Proceed

\* A call passed over needs nothing more, and a getter that returns has given its
\* adapter, met an exception or missed the key.
LEMMA CallIsProvided ==
    ASSUME PoolInv, NEW t \in Task, Proceed(t) \/ Cancel(t),
           NEW i \in DOMAIN Calls, row[t] <= i, i < row'[t]
    PROVE  Provided(t, i)'
<1>0. /\ PoolTypeOK /\ RowInv /\ BuildInv
      /\ row \in [Task -> 1 .. Len(Calls) + 1]
      /\ row[t] \in Nat /\ i \in Nat
      /\ DOMAIN Calls = 1 .. Len(Calls) /\ Len(Calls) = 16
  <2>1. PoolTypeOK /\ RowInv /\ BuildInv /\ row \in [Task -> 1 .. Len(Calls) + 1]
    BY DEF PoolInv, PoolTypeOK
  <2>2. DOMAIN Calls = 1 .. 16 /\ Len(Calls) = 16
    BY CallsTyping
  <2>3. row[t] \in 1 .. 17 /\ i \in 1 .. 16
    BY <2>1, <2>2
  <2> QED
    BY <2>1, <2>2, <2>3
<1>1. ASSUME UNCHANGED row PROVE FALSE
  BY <1>0, <1>1
<1>2. ASSUME Returns(t) PROVE i = row[t]
  <2>1. row'[t] = row[t] + 1
    BY <1>0, <1>2 DEF Returns
  <2> QED
    BY <1>0, <2>1
<1>3. ASSUME NEW s \in Slot, NEW n \in Nat, Gives(t, s, n), s = Calls[i][2]
      PROVE  Provided(t, i)'
  <2>1. PICK filled \in Filled(s) :
            out' = [out EXCEPT ![t] = [x \in Slot |-> IF x \in filled THEN Of(s, n) ELSE @[x]]]
    BY <1>3 DEF Gives
  <2>2. s \in filled
    BY DEF Filled
  <2>3. out'[t][s] = Of(s, n)
    BY <1>0, <2>1, <2>2 DEF PoolTypeOK
  <2>4. Of(s, n) # None
    BY Literals DEF Of, None
  <2> QED
    BY <1>3, <2>3, <2>4 DEF Provided
<1>4. CASE \/ Begin(t) \/ Take(t) \/ Queue(t) \/ Granted(t) \/ Probe(t)
           \/ Finish(t) \/ Cancel(t) \/ Construct(t)
  BY <1>1, <1>4 DEF Begin, Take, Queue, Granted, Probe, Finish, Cancel, Construct
<1>5. CASE Skip(t)
  <2>1. PICK k \in row[t] + 1 .. Len(Calls) + 1 :
            /\ \A j \in row[t] .. k - 1 : ~Wanted(t, j)
            /\ row' = [row EXCEPT ![t] = k]
    BY <1>5 DEF Skip
  <2>2. ~Wanted(t, i)
    BY <1>0, <2>1
  <2>3. UNCHANGED <<env, needs, out, failed>>
    BY <1>5 DEF Skip
  <2> QED
    BY <2>2, <2>3 DEF Wanted, Provided
<1>6. CASE NoKey(t)
  <2>1. i = row[t] /\ env' = env
    BY <1>2, <1>6 DEF NoKey, Returns
  <2> QED
    BY <1>6, <2>1 DEF NoKey, Current, Provided
<1>7. CASE ProbeFails(t) \/ BuildFails(t) \/ InitializeFails(t)
  <2>1. ReturnsNone(t)
    BY <1>7 DEF ProbeFails, BuildFails, InitializeFails
  <2>2. i = row[t] /\ failed'[t] = failed[t] \cup {Calls[i][2]}
    BY <1>0, <1>2, <2>1 DEF ReturnsNone, Current, PoolTypeOK
  <2> QED
    BY <2>2 DEF Provided
<1>8. CASE Reuse(t)
  <2>1. i = row[t] /\ Current(t) = Calls[i][2]
    BY <1>2, <1>8 DEF Reuse, Current
  <2>2. Current(t) \in Slot
    BY <1>0, <2>1, CurrentTyping
  <2>3. instance[Current(t)] \in Nat
    BY <1>0, <2>2 DEF PoolTypeOK
  <2> QED
    BY <1>3, <1>8, <2>1, <2>2, <2>3 DEF Reuse
<1>9. CASE Build(t)
  <2>1. i = row[t] /\ Current(t) = Calls[i][2]
    BY <1>2, <1>9 DEF Build, Current
  <2>2. Current(t) \in Slot
    BY <1>0, <2>1, CurrentTyping
  <2>3. made'[Current(t)] \in Nat
    BY <1>0, <1>9, <2>2 DEF Build, PoolTypeOK
  <2> QED
    BY <1>3, <1>9, <2>1, <2>2, <2>3 DEF Build
<1>10. CASE Initialized(t)
  <2>1. i = row[t]
    BY <1>2, <1>10 DEF Initialized
  <2>2. Calls[i][2] = "raganything"
    BY <1>0, <1>10, <2>1 DEF Initialized, BuildInv, Current
  <2>3. made["raganything"] \in Nat
    BY <1>0, Literals DEF PoolTypeOK
  <2> QED
    BY <1>3, <1>10, <2>2, <2>3, Literals DEF Initialized
<1> QED
  BY <1>4, <1>5, <1>6, <1>7, <1>8, <1>9, <1>10 DEF Proceed

LEMMA ProvidedKept ==
    ASSUME PoolInv, ProvidedInv, NEW t \in Task, Proceed(t) \/ Cancel(t)
    PROVE  ProvidedInv'
<1>0. row \in [Task -> 1 .. Len(Calls) + 1] /\ DOMAIN Calls = 1 .. 16 /\ Len(Calls) = 16
      /\ at \in [Task -> {"new", "run", "waiting", "done", "cancelled"} \cup Inside]
  BY CallsTyping DEF PoolInv, PoolTypeOK
<1>1. ASSUME NEW u \in Task, NEW i \in DOMAIN Calls, Provided(u, i)
      PROVE  Provided(u, i)'
  <2>1. Calls[i][2] \in Slot /\ "raganything" \in Slot
    BY CallsTyping, Literals
  <2> QED
    BY <1>1, <2>1, NothingIsTakenBack DEF Provided
<1>2. \A u \in Task \ {t} : row'[u] = row[u] /\ at'[u] = at[u]
  BY <1>0 DEF Proceed, Begin, Skip, Take, Queue, Granted, Probe, Finish, Cancel, NoKey,
         Construct, Reuse, Build, Initialized, ProbeFails, BuildFails, InitializeFails,
         ReturnsNone, Returns, Goes
<1>3. at'[t] = "done" => row'[t] \notin DOMAIN Calls
  <2>1. CASE Finish(t)
    BY <2>1 DEF Finish
  <2>2. CASE Skip(t)
    BY <1>0, <2>2 DEF Skip
  <2>3. CASE ~Finish(t) /\ ~Skip(t)
    <3>1. at'[t] # "done"
      BY <1>0, <2>3 DEF Proceed, Begin, Take, Queue, Granted, Probe, Cancel, NoKey,
         Construct, Reuse, Build, Initialized, ProbeFails, BuildFails, InitializeFails,
         ReturnsNone, Returns, Goes
    <3> QED
      BY <3>1
  <2> QED
    BY <2>1, <2>2, <2>3
<1>4. ASSUME NEW u \in Task, NEW i \in DOMAIN Calls, i < row'[u]
      PROVE  Provided(u, i)'
  <2>1. CASE i < row[u]
    BY <1>1, <2>1 DEF ProvidedInv
  <2>2. CASE ~(i < row[u])
    <3>1. u = t
      BY <1>2, <1>4, <2>2
    <3>2. row[t] <= i
      BY <1>0, <2>2, <3>1
    <3> QED
      BY <1>4, <3>1, <3>2, CallIsProvided
  <2> QED
    BY <2>1, <2>2
<1> QED
  BY <1>2, <1>3, <1>4 DEF ProvidedInv

\* A request that is done has an adapter for each of its nodes, up to missing keys,
\* exceptions and the embedding function beside an engine.
THEOREM NeededIsAlwaysGiven == PoolSpec => []NeededIsGiven
<1>1. ASSUME PoolInit PROVE ProvidedInv
  <2>1. \A t \in Task : row[t] = 1 /\ at[t] = "new"
    BY <1>1 DEF PoolInit
  <2>2. \A i \in DOMAIN Calls : ~(i < 1)
    BY CallsTyping
  <2> QED
    BY <2>1, <2>2 DEF ProvidedInv
<1>2. PoolInv /\ ProvidedInv /\ [PoolNext]_poolVars => ProvidedInv'
  <2> SUFFICES ASSUME PoolInv, ProvidedInv, [PoolNext]_poolVars
               PROVE  ProvidedInv'
    OBVIOUS
  <2>1. CASE UNCHANGED poolVars
    BY <2>1 DEF ProvidedInv, Provided, poolVars, task
  <2> QED
    BY <2>1, ProvidedKept DEF PoolNext
<1>3. ASSUME PoolInv, ProvidedInv PROVE NeededIsGiven
  <2> SUFFICES ASSUME NEW t \in Task, at[t] = "done",
                      NEW i \in DOMAIN Calls, Calls[i][1] \in needs[t],
                      out[t][Calls[i][2]] = None, Calls[i][2] \notin failed[t],
                      Calls[i][2] \in NeedsLlmKey => env.llmKey
               PROVE  Calls[i][2] = "embedding_func" /\ out[t]["raganything"] # None
    BY DEF NeededIsGiven, Missing
  <2>1. row[t] \in 1 .. 17 /\ row[t] \notin 1 .. 16 /\ i \in 1 .. 16
    BY <1>3, CallsTyping DEF PoolInv, PoolTypeOK, ProvidedInv
  <2>2. i < row[t]
    BY <2>1
  <2> QED
    BY <1>3, <2>2 DEF ProvidedInv, Provided
<1> QED
  BY <1>1, <1>2, <1>3, PoolInvariant, PTL DEF PoolSpec

=============================================================================
