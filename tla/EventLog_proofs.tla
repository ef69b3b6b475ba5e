-------------------------- MODULE EventLog_proofs --------------------------
(* Theorems about EventLog, for any number of turns, texts, notices and faults. *)
EXTENDS EventLog, Subsequence_proofs, TLAPS

-----------------------------------------------------------------------------
(* The invariant of the ends.  What a row renders and the numbers it holds are left
   open here: Columns and TextInv, further down, are about those. *)

Statuses == Verdicts \cup {"in_progress", "deleted"}
Rows(r) == \E I, Q : r \in Seq([status : Statuses, items : I, seq : Q])

LogTyped ==
    /\ events \in Seq(Event) /\ live \subseteq DOMAIN events /\ Rows(row)
    /\ said \in Seq(Nat) /\ Len(said) = Len(row) /\ unflushed \in Nat /\ cur \in Nat
    /\ verdict \in Verdicts /\ phase \in {"serving", "stopping", "starting"}
    /\ pc \in InRun \cup {"idle", "booting", "dead", "folded", "reconciling"}
    /\ \A i \in DOMAIN events : events[i].msg \in DOMAIN row

(* Where a task stands tells how far its row is, and that its buffer holds no more
   than the agent said. *)
Stages ==
    /\ pc \notin {"idle", "reconciling"} => cur \in DOMAIN row
    /\ pc \in {"booting", "starting", "streaming", "flushed"} => row[cur].status = "in_progress"
    /\ pc = "booting" => unflushed = 0
    /\ pc = "finishing" =>
         row[cur].status = "in_progress" \/ (row[cur].status \in Verdicts /\ unflushed = 0)
    /\ pc \in {"saved", "handing", "handed", "ending"} => unflushed = 0
    /\ pc \in {"saved", "handing", "handed", "ending", "folded"} => row[cur].status = verdict
    /\ pc \in {"handing", "handed"} =>
         verdict # "failed" /\ Len(row) # cur /\ row[Len(row)].status = "in_progress"
    /\ pc \in InRun => unflushed <= said[cur]

(* The rows a start-up has yet to reconcile are those in progress that no task has. *)
StartUp ==
    /\ orphans \subseteq InProgress
    /\ phase # "starting" => orphans = {}
    /\ phase = "starting" => pc \in {"reconciling", "dead", "folded"}
    /\ pc = "reconciling" => phase = "starting"
    /\ pc \in {"dead", "folded"} => cur \notin orphans

(* No end is told of a turn that is under way. *)
NoEnd(m) == \A i \in DOMAIN events : events[i].msg = m => events[i].kind \notin EndKinds
Unended ==
    /\ \A m \in InProgress : NoEnd(m)
    /\ pc \in {"finishing", "saved", "handing", "ending", "folded"} => NoEnd(cur)

(* The log of a finished turn holds no text. *)
NoText(m) == \A i \in live : events[i].msg = m => events[i].kind # "text"
TextFree == \A m \in DOMAIN row : row[m].status \in Verdicts => NoText(m)

LogInv == LogTyped /\ Stages /\ StartUp /\ Unended /\ TextFree /\ EndSurvives

-----------------------------------------------------------------------------
(* How the log and the rows change *)

(* The log gains events of message m, of the kinds in K, all of them live. *)
Grows(m, K) ==
    /\ events' \in Seq(Event) /\ DOMAIN events \subseteq DOMAIN events'
    /\ \A i \in DOMAIN events : events'[i] = events[i]
    /\ \A i \in DOMAIN events' \ DOMAIN events :
         /\ events'[i].msg = m /\ events'[i].kind \in K
         /\ \A j \in DOMAIN events : j < i
    /\ live' = live \cup (DOMAIN events' \ DOMAIN events)

LEMMA CommitGrows ==
    ASSUME events \in Seq(Event), NEW batch \in Seq(Event), Commit(batch), NEW m, NEW K,
           \A k \in DOMAIN batch : batch[k].msg = m /\ batch[k].kind \in K
    PROVE  Grows(m, K) /\ Len(events') = Len(events) + Len(batch)
<1>1. events' = events \o batch /\ live' = live \cup (Len(events) + 1 .. Len(events) + Len(batch))
  BY DEF Commit
<1>2. /\ events' \in Seq(Event) /\ Len(events') = Len(events) + Len(batch)
      /\ Len(events) \in Nat /\ Len(batch) \in Nat
      /\ DOMAIN events = 1..Len(events) /\ DOMAIN batch = 1..Len(batch)
      /\ DOMAIN events' = 1..(Len(events) + Len(batch))
      /\ \A i \in DOMAIN events : events'[i] = events[i]
      /\ \A i \in DOMAIN events' \ DOMAIN events :
           i - Len(events) \in DOMAIN batch /\ events'[i] = batch[i - Len(events)]
  BY <1>1
<1>3. DOMAIN events' \ DOMAIN events = Len(events) + 1 .. Len(events) + Len(batch)
  BY <1>2
<1>4. \A i \in DOMAIN events' \ DOMAIN events : \A j \in DOMAIN events : j < i
  BY <1>2
<1>5. \A i \in DOMAIN events' \ DOMAIN events : events'[i].msg = m /\ events'[i].kind \in K
  BY <1>2
<1> QED BY <1>1, <1>2, <1>3, <1>4, <1>5 DEF Grows

LEMMA OneGrows ==
    ASSUME events \in Seq(Event), NEW m \in Nat, NEW val \in Nat,
           NEW kind \in {"start", "notice"} \cup EndKinds,
           Commit(<<[msg |-> m, kind |-> kind, val |-> val]>>)
    PROVE  Grows(m, {kind}) /\ Len(events') = Len(events) + 1
<1> DEFINE batch == <<[msg |-> m, kind |-> kind, val |-> val]>>
<1>1. batch \in Seq(Event)
  BY DEF Event
<1>2. \A k \in DOMAIN batch : batch[k].msg = m /\ batch[k].kind \in {kind}
  OBVIOUS
<1>3. Commit(batch) /\ Len(batch) = 1
  OBVIOUS
<1> HIDE DEF batch
<1>4. Grows(m, {kind}) /\ Len(events') = Len(events) + Len(batch)
  BY <1>1, <1>2, <1>3, CommitGrows
<1> QED BY <1>3, <1>4

LEMMA BatchGrows ==
    ASSUME events \in Seq(Event), cur \in Nat, unflushed \in Nat, said[cur] \in Nat,
           unflushed <= said[cur], Commit(Batch)
    PROVE  Grows(cur, {"text"}) /\ Len(events') = Len(events) + unflushed
<1>1. Batch \in Seq(Event) /\ Len(Batch) = unflushed
  BY DEF Batch, Event
<1>2. \A k \in DOMAIN Batch : Batch[k].msg = cur /\ Batch[k].kind \in {"text"}
  BY DEF Batch
<1> QED BY <1>1, <1>2, CommitGrows

LEMMA ItemType == ASSUME NEW S, NEW s \in Seq(S), NEW i \in DOMAIN s PROVE s[i] \in S
OBVIOUS

(* A row keeps its shape when one of its columns or all of them change. *)
LEMMA RowChange ==
    ASSUME Rows(row), NEW m \in DOMAIN row, NEW status \in Statuses, NEW items, NEW seq,
           row' = [row EXCEPT ![m] = [status |-> status, items |-> items, seq |-> seq]]
    PROVE  /\ Rows(row') /\ Len(row') = Len(row) /\ DOMAIN row' = DOMAIN row
           /\ row'[m].status = status /\ \A n \in DOMAIN row \ {m} : row'[n] = row[n]
<1>1. PICK I, Q : row \in Seq([status : Statuses, items : I, seq : Q])
  BY DEF Rows
<1> DEFINE R == [status : Statuses, items : I \cup {items}, seq : Q \cup {seq}]
<1>2. [status |-> status, items |-> items, seq |-> seq] \in R
  OBVIOUS
<1>3. \A n \in DOMAIN row : row[n] \in R
  <2>1. \A n \in DOMAIN row : row[n] \in [status : Statuses, items : I, seq : Q]
    BY <1>1, ItemType
  <2> QED BY <2>1
<1>4. row' \in Seq(R) /\ Len(row') = Len(row) /\ DOMAIN row' = DOMAIN row
  <2> HIDE DEF R
  <2> QED BY <1>1, <1>2, <1>3
<1>5. Rows(row')
  BY <1>4 DEF Rows
<1> QED BY <1>1, <1>4, <1>5

LEMMA RowRecord ==
    ASSUME Rows(row), NEW m \in DOMAIN row
    PROVE  /\ row[m] = [status |-> row[m].status, items |-> row[m].items, seq |-> row[m].seq]
           /\ row[m].status \in Statuses /\ Len(row) \in Nat /\ DOMAIN row = 1..Len(row)
<1>1. PICK I, Q : row \in Seq([status : Statuses, items : I, seq : Q])
  BY DEF Rows
<1>2. row[m] \in [status : Statuses, items : I, seq : Q]
  BY <1>1, ItemType
<1> QED BY <1>1, <1>2

LEMMA RowAppend ==
    ASSUME Rows(row), said \in Seq(Nat), Len(said) = Len(row), NewRow
    PROVE  /\ Rows(row') /\ Len(row') = Len(row) + 1 /\ Len(row) \in Nat
           /\ DOMAIN row = 1..Len(row) /\ DOMAIN row' = DOMAIN row \cup {Len(row) + 1}
           /\ \A n \in DOMAIN row : row'[n] = row[n] /\ said'[n] = said[n]
           /\ row'[Len(row) + 1].status = "in_progress" /\ said'[Len(row) + 1] = 0
           /\ said' \in Seq(Nat) /\ Len(said') = Len(row')
<1>1. PICK I, Q : row \in Seq([status : Statuses, items : I, seq : Q])
  BY DEF Rows
<1> DEFINE R == [status : Statuses, items : I \cup {<<>>}, seq : Q \cup {0}]
           r == [status |-> "in_progress", items |-> <<>>, seq |-> 0]
<1>2. r \in R /\ r.status = "in_progress"
  BY DEF Statuses
<1>3. \A n \in DOMAIN row : row[n] \in R
  <2>1. \A n \in DOMAIN row : row[n] \in [status : Statuses, items : I, seq : Q]
    BY <1>1, ItemType
  <2> QED BY <2>1
<1>4. row' = Append(row, r) /\ said' = Append(said, 0)
  BY DEF NewRow
<1> HIDE DEF R, r
<1>5. row \in Seq(R)
  BY <1>1, <1>3
<1>6. row' \in Seq(R)
  BY <1>2, <1>4, <1>5
<1>7. Rows(row')
  BY <1>6 DEF Rows, R
<1> QED BY <1>2, <1>4, <1>5, <1>7

LEMMA RowIndex ==
    ASSUME LogTyped
    PROVE  /\ Len(row) \in Nat /\ DOMAIN row = 1..Len(row) /\ DOMAIN said = DOMAIN row
           /\ \A m \in DOMAIN row : m \in Nat /\ said[m] \in Nat /\ row[m].status \in Statuses
<1>1. PICK I, Q : row \in Seq([status : Statuses, items : I, seq : Q])
  BY DEF LogTyped, Rows
<1>2. Len(row) \in Nat /\ DOMAIN row = 1..Len(row) /\ DOMAIN said = DOMAIN row
  BY <1>1 DEF LogTyped
<1>3. \A m \in DOMAIN row : said[m] \in Nat
  BY <1>2, ItemType DEF LogTyped
<1>4. \A m \in DOMAIN row : row[m].status \in Statuses
  BY RowRecord DEF LogTyped
<1> QED BY <1>2, <1>3, <1>4

LEMMA SkipCheckpointKeeps ==
    ASSUME LogInv, SkipCheckpoint PROVE LogInv'
<1> USE DEF LogInv
<1>a. UNCHANGED <<cur, verdict, said, unflushed, lastSeq, events, live, row, outbox, orphans, phase, notices, faults>>
  BY DEF SkipCheckpoint, taskVars
<1>1. LogTyped'
  BY <1>a DEF LogTyped, InRun, Verdicts, SkipCheckpoint
<1>2. Stages'
  BY <1>a DEF Stages, InRun, LogTyped, StartUp, SkipCheckpoint
<1>3. StartUp'
  BY <1>a DEF StartUp, InProgress, Stages, SkipCheckpoint
<1>4. Unended'
  BY <1>a DEF Unended, NoEnd, InProgress, Stages, StartUp, SkipCheckpoint
<1>5. TextFree'
  BY <1>a DEF TextFree, NoText
<1>6. EndSurvives'
  BY <1>a DEF EndSurvives
<1> QED BY <1>1, <1>2, <1>3, <1>4, <1>5, <1>6

LEMMA NoneQueuedKeeps ==
    ASSUME LogInv, NoneQueued PROVE LogInv'
<1> USE DEF LogInv
<1>a. UNCHANGED <<cur, verdict, said, unflushed, lastSeq, events, live, row, outbox, orphans, phase, notices, faults>>
  BY DEF NoneQueued, taskVars
<1>1. LogTyped'
  BY <1>a DEF LogTyped, InRun, Verdicts, NoneQueued
<1>2. Stages'
  BY <1>a DEF Stages, InRun, LogTyped, StartUp, NoneQueued
<1>3. StartUp'
  BY <1>a DEF StartUp, InProgress, Stages, NoneQueued
<1>4. Unended'
  BY <1>a DEF Unended, NoEnd, InProgress, Stages, StartUp, NoneQueued
<1>5. TextFree'
  BY <1>a DEF TextFree, NoText
<1>6. EndSurvives'
  BY <1>a DEF EndSurvives
<1> QED BY <1>1, <1>2, <1>3, <1>4, <1>5, <1>6

LEMMA FinishKeeps ==
    ASSUME LogInv, NEW v \in Verdicts, Finish(v) PROVE LogInv'
<1> USE DEF LogInv
<1>a. UNCHANGED <<cur, said, unflushed, lastSeq, events, live, row, outbox, orphans, phase, notices, faults>>
  BY DEF Finish, taskVars
<1>1. LogTyped'
  BY <1>a DEF LogTyped, InRun, Verdicts, Finish
<1>2. Stages'
  BY <1>a DEF Stages, InRun, LogTyped, StartUp, Finish
<1>3. StartUp'
  BY <1>a DEF StartUp, InProgress, Stages, Finish
<1>4. Unended'
  BY <1>a DEF Unended, NoEnd, InProgress, Stages, StartUp, Finish
<1>5. TextFree'
  BY <1>a DEF TextFree, NoText
<1>6. EndSurvives'
  BY <1>a DEF EndSurvives
<1> QED BY <1>1, <1>2, <1>3, <1>4, <1>5, <1>6

LEMMA StartNextKeeps ==
    ASSUME LogInv, StartNext PROVE LogInv'
<1> USE DEF LogInv
<1>a. UNCHANGED <<said, events, live, row, outbox, orphans, phase, notices, faults>>
  BY DEF StartNext, taskVars
<1>c. /\ pc = "handed" /\ cur \in DOMAIN row /\ Len(row) \in DOMAIN row
      /\ row[Len(row)].status = "in_progress"
  BY RowIndex DEF StartNext, Stages
<1>1. LogTyped'
  BY <1>a, <1>c, RowIndex DEF LogTyped, InRun, Verdicts, StartNext
<1>2. Stages'
  BY <1>a, <1>c, RowIndex DEF Stages, InRun, LogTyped, StartUp, StartNext
<1>3. StartUp'
  BY <1>a, <1>c, RowIndex DEF StartUp, InProgress, Stages, StartNext
<1>4. Unended'
  BY <1>a, <1>c, RowIndex DEF Unended, NoEnd, InProgress, Stages, StartUp, StartNext
<1>5. TextFree'
  BY <1>a DEF TextFree, NoText
<1>6. EndSurvives'
  BY <1>a DEF EndSurvives
<1> QED BY <1>1, <1>2, <1>3, <1>4, <1>5, <1>6

LEMMA PublishNextKeeps ==
    ASSUME LogInv, PublishNext PROVE LogInv'
<1> USE DEF LogInv
<1>a. UNCHANGED <<pc, cur, verdict, said, unflushed, lastSeq, events, live, row, orphans, phase, notices, faults>>
  BY DEF PublishNext, taskVars
<1>1. LogTyped'
  BY <1>a DEF LogTyped, InRun, Verdicts
<1>2. Stages'
  BY <1>a DEF Stages, InRun
<1>3. StartUp'
  BY <1>a DEF StartUp, InProgress
<1>4. Unended'
  BY <1>a DEF Unended, NoEnd, InProgress
<1>5. TextFree'
  BY <1>a DEF TextFree, NoText
<1>6. EndSurvives'
  BY <1>a DEF EndSurvives
<1> QED BY <1>1, <1>2, <1>3, <1>4, <1>5, <1>6

LEMMA PublishLostKeeps ==
    ASSUME LogInv, PublishLost PROVE LogInv'
<1> USE DEF LogInv
<1>a. UNCHANGED <<pc, cur, verdict, said, unflushed, lastSeq, events, live, row, orphans, phase, notices>>
  BY DEF PublishLost, Fault, taskVars
<1>1. LogTyped'
  BY <1>a DEF LogTyped, InRun, Verdicts
<1>2. Stages'
  BY <1>a DEF Stages, InRun
<1>3. StartUp'
  BY <1>a DEF StartUp, InProgress
<1>4. Unended'
  BY <1>a DEF Unended, NoEnd, InProgress
<1>5. TextFree'
  BY <1>a DEF TextFree, NoText
<1>6. EndSurvives'
  BY <1>a DEF EndSurvives
<1> QED BY <1>1, <1>2, <1>3, <1>4, <1>5, <1>6

LEMMA FailEarlyKeeps ==
    ASSUME LogInv, FailEarly PROVE LogInv'
<1> USE DEF LogInv
<1>a. UNCHANGED <<cur, said, unflushed, lastSeq, events, live, row, outbox, orphans, phase, notices, faults>>
  BY DEF FailEarly, taskVars
<1>1. LogTyped'
  BY <1>a DEF LogTyped, InRun, Verdicts, FailEarly
<1>2. Stages'
  BY <1>a DEF Stages, InRun, LogTyped, StartUp, FailEarly
<1>3. StartUp'
  BY <1>a DEF StartUp, InProgress, Stages, FailEarly
<1>4. Unended'
  BY <1>a DEF Unended, NoEnd, InProgress, Stages, StartUp, FailEarly
<1>5. TextFree'
  BY <1>a DEF TextFree, NoText
<1>6. EndSurvives'
  BY <1>a DEF EndSurvives
<1> QED BY <1>1, <1>2, <1>3, <1>4, <1>5, <1>6

LEMMA AlreadyFinalKeeps ==
    ASSUME LogInv, AlreadyFinal PROVE LogInv'
<1> USE DEF LogInv
<1>a. UNCHANGED <<cur, verdict, said, unflushed, lastSeq, events, live, row, outbox, orphans, phase, notices, faults>>
  BY DEF AlreadyFinal, AfterDead, taskVars
<1>1. LogTyped'
  BY <1>a DEF LogTyped, InRun, Verdicts, AlreadyFinal, AfterDead
<1>2. Stages'
  BY <1>a DEF Stages, InRun, LogTyped, StartUp, AlreadyFinal, AfterDead
<1>3. StartUp'
  BY <1>a DEF StartUp, InProgress, Stages, AlreadyFinal, AfterDead
<1>4. Unended'
  BY <1>a DEF Unended, NoEnd, InProgress, Stages, StartUp, AlreadyFinal, AfterDead
<1>5. TextFree'
  BY <1>a DEF TextFree, NoText
<1>6. EndSurvives'
  BY <1>a DEF EndSurvives
<1> QED BY <1>1, <1>2, <1>3, <1>4, <1>5, <1>6

LEMMA FinalizeFailsKeeps ==
    ASSUME LogInv, FinalizeFails PROVE LogInv'
<1> USE DEF LogInv
<1>a. UNCHANGED <<cur, verdict, said, unflushed, lastSeq, events, live, row, outbox, orphans, phase, notices>>
  BY DEF FinalizeFails, AfterDead, Fault, taskVars
<1>1. LogTyped'
  BY <1>a DEF LogTyped, InRun, Verdicts, FinalizeFails, AfterDead, Fault
<1>2. Stages'
  BY <1>a DEF Stages, InRun, LogTyped, StartUp, FinalizeFails, AfterDead, Fault
<1>3. StartUp'
  BY <1>a DEF StartUp, InProgress, Stages, FinalizeFails, AfterDead, Fault
<1>4. Unended'
  BY <1>a DEF Unended, NoEnd, InProgress, Stages, StartUp, FinalizeFails, AfterDead, Fault
<1>5. TextFree'
  BY <1>a DEF TextFree, NoText
<1>6. EndSurvives'
  BY <1>a DEF EndSurvives
<1> QED BY <1>1, <1>2, <1>3, <1>4, <1>5, <1>6

LEMMA DbFailsKeeps ==
    ASSUME LogInv, DbFails PROVE LogInv'
<1> USE DEF LogInv
<1>a. UNCHANGED <<cur, said, unflushed, lastSeq, events, live, row, outbox, orphans, phase, notices>>
  BY DEF DbFails, Fault, taskVars
<1>1. LogTyped'
  BY <1>a, RowIndex DEF LogTyped, InRun, Verdicts, DbFails, Fault
<1>2. Stages'
  BY <1>a, RowIndex DEF Stages, InRun, LogTyped, StartUp, DbFails, Fault
<1>3. StartUp'
  BY <1>a, RowIndex DEF StartUp, InProgress, Stages, DbFails, Fault
<1>4. Unended'
  BY <1>a, RowIndex DEF Unended, NoEnd, InProgress, Stages, StartUp, DbFails, Fault
<1>5. TextFree'
  BY <1>a DEF TextFree, NoText
<1>6. EndSurvives'
  BY <1>a DEF EndSurvives
<1> QED BY <1>1, <1>2, <1>3, <1>4, <1>5, <1>6

LEMMA ShutdownKeeps ==
    ASSUME LogInv, Shutdown PROVE LogInv'
<1> USE DEF LogInv
<1>a. UNCHANGED <<pc, cur, verdict, said, unflushed, lastSeq, events, live, row, outbox, orphans, notices>>
  BY DEF Shutdown, Fault, taskVars
<1>1. LogTyped'
  BY <1>a DEF LogTyped, InRun, Verdicts, Shutdown, Fault
<1>2. Stages'
  BY <1>a DEF Stages, InRun
<1>3. StartUp'
  BY <1>a DEF StartUp, InProgress, Stages, Shutdown, Fault
<1>4. Unended'
  BY <1>a DEF Unended, NoEnd, InProgress
<1>5. TextFree'
  BY <1>a DEF TextFree, NoText
<1>6. EndSurvives'
  BY <1>a DEF EndSurvives
<1> QED BY <1>1, <1>2, <1>3, <1>4, <1>5, <1>6

LEMMA TaskCancelledKeeps ==
    ASSUME LogInv, TaskCancelled PROVE LogInv'
<1> USE DEF LogInv
<1>a. UNCHANGED <<cur, said, lastSeq, events, live, row, orphans, phase, notices, faults>>
  BY DEF TaskCancelled, taskVars
<1>1. LogTyped'
  BY <1>a DEF LogTyped, InRun, Verdicts, TaskCancelled
<1>2. Stages'
  BY <1>a DEF Stages, InRun, LogTyped, StartUp, TaskCancelled
<1>3. StartUp'
  BY <1>a DEF StartUp, InProgress, Stages, TaskCancelled
<1>4. Unended'
  BY <1>a DEF Unended, NoEnd, InProgress, Stages, StartUp, TaskCancelled
<1>5. TextFree'
  BY <1>a DEF TextFree, NoText
<1>6. EndSurvives'
  BY <1>a DEF EndSurvives
<1> QED BY <1>1, <1>2, <1>3, <1>4, <1>5, <1>6

LEMMA BootKeeps ==
    ASSUME LogInv, Boot PROVE LogInv'
<1> USE DEF LogInv
<1>a. UNCHANGED <<cur, said, events, live, row, notices>>
  BY DEF Boot, taskVars
<1>1. LogTyped'
  BY <1>a DEF LogTyped, InRun, Verdicts, Boot
<1>2. Stages'
  BY <1>a DEF Stages, InRun, LogTyped, StartUp, Boot
<1>3. StartUp'
  BY <1>a DEF StartUp, InProgress, Stages, Boot
<1>4. Unended'
  BY <1>a DEF Unended, NoEnd, InProgress, Stages, StartUp, Boot
<1>5. TextFree'
  BY <1>a DEF TextFree, NoText
<1>6. EndSurvives'
  BY <1>a DEF EndSurvives
<1> QED BY <1>1, <1>2, <1>3, <1>4, <1>5, <1>6

LEMMA ReconcileKeeps ==
    ASSUME LogInv, Reconcile PROVE LogInv'
<1> USE DEF LogInv
<1>a. UNCHANGED <<verdict, said, unflushed, lastSeq, events, live, row, outbox, phase, notices, faults>>
  BY DEF Reconcile, taskVars
<1>1. LogTyped'
  BY <1>a, RowIndex DEF LogTyped, InRun, Verdicts, Reconcile, StartUp, InProgress
<1>2. Stages'
  BY <1>a, RowIndex DEF Stages, InRun, LogTyped, StartUp, Reconcile, StartUp, InProgress
<1>3. StartUp'
  BY <1>a, RowIndex DEF StartUp, InProgress, Stages, Reconcile
<1>4. Unended'
  BY <1>a, RowIndex DEF Unended, NoEnd, InProgress, Stages, StartUp, Reconcile
<1>5. TextFree'
  BY <1>a DEF TextFree, NoText
<1>6. EndSurvives'
  BY <1>a DEF EndSurvives
<1> QED BY <1>1, <1>2, <1>3, <1>4, <1>5, <1>6

LEMMA ServeKeeps ==
    ASSUME LogInv, Serve PROVE LogInv'
<1> USE DEF LogInv
<1>a. UNCHANGED <<cur, verdict, said, unflushed, lastSeq, events, live, row, outbox, orphans, notices, faults>>
  BY DEF Serve, taskVars
<1>1. LogTyped'
  BY <1>a DEF LogTyped, InRun, Verdicts, Serve
<1>2. Stages'
  BY <1>a DEF Stages, InRun, LogTyped, StartUp, Serve
<1>3. StartUp'
  BY <1>a DEF StartUp, InProgress, Stages, Serve
<1>4. Unended'
  BY <1>a DEF Unended, NoEnd, InProgress, Stages, StartUp, Serve
<1>5. TextFree'
  BY <1>a DEF TextFree, NoText
<1>6. EndSurvives'
  BY <1>a DEF EndSurvives
<1> QED BY <1>1, <1>2, <1>3, <1>4, <1>5, <1>6

LEMMA SayKeeps ==
    ASSUME LogInv, Say PROVE LogInv'
<1> USE DEF LogInv
<1>a. UNCHANGED <<pc, cur, verdict, lastSeq, events, live, row, outbox, orphans, phase, notices, faults>>
  BY DEF Say, taskVars
<1>c. cur \in DOMAIN row /\ said' = [said EXCEPT ![cur] = @ + 1] /\ unflushed' = unflushed + 1
      /\ said' \in Seq(Nat) /\ Len(said') = Len(said) /\ said'[cur] = said[cur] + 1
  BY RowIndex DEF Say, Stages, LogTyped
<1>1. LogTyped'
  BY <1>a, <1>c, RowIndex DEF LogTyped, InRun, Verdicts, Say
<1>2. Stages'
  BY <1>a, <1>c, RowIndex DEF Stages, InRun, LogTyped, StartUp, Say
<1>3. StartUp'
  BY <1>a DEF StartUp, InProgress
<1>4. Unended'
  BY <1>a DEF Unended, NoEnd, InProgress
<1>5. TextFree'
  BY <1>a DEF TextFree, NoText
<1>6. EndSurvives'
  BY <1>a DEF EndSurvives
<1> QED BY <1>1, <1>2, <1>3, <1>4, <1>5, <1>6

-----------------------------------------------------------------------------
(* Steps that change the rows *)

(* The statuses stay, and the rows with them. *)
StatusKept ==
    /\ Rows(row') /\ Len(row') = Len(row) /\ DOMAIN row' = DOMAIN row
    /\ \A n \in DOMAIN row : row'[n].status = row[n].status

LEMMA FcnSeq == ASSUME NEW S, NEW n \in Nat, NEW f \in [1..n -> S] PROVE f \in Seq(S)
OBVIOUS

LEMMA ColumnsKept ==
    ASSUME LogTyped, cur \in DOMAIN row, NEW items, NEW seq,
           row' = [row EXCEPT ![cur].items = items, ![cur].seq = seq]
    PROVE  StatusKept
<1>1. PICK I, Q : row \in Seq([status : Statuses, items : I, seq : Q])
  BY DEF LogTyped, Rows
<1> DEFINE A == [status : Statuses, items : I \cup {items}, seq : Q \cup {seq}]
           b == [row[cur] EXCEPT !.items = items]
           c == [b EXCEPT !.seq = seq]
           r == [row EXCEPT ![cur] = b]
<1>2. \A n \in DOMAIN row : row[n] \in [status : Statuses, items : I, seq : Q]
  BY <1>1, ItemType
<1>3. b \in [status : Statuses, items : I \cup {items}, seq : Q] /\ b.status = row[cur].status
  BY <1>2
<1>4. c \in A /\ c.status = row[cur].status
  <2> HIDE DEF b
  <2> QED BY <1>3
<1>5. \A n \in DOMAIN row : row[n] \in A
  BY <1>2
<1>6. row' = [r EXCEPT ![cur].seq = seq] /\ r[cur] = b
  BY <1>1
<1>7. row' = [row EXCEPT ![cur] = c]
  <2> HIDE DEF b
  <2> QED BY <1>1, <1>6
<1> HIDE DEF A, b, c, r
<1>8. row \in Seq(A)
  BY <1>1, <1>5
<1>9. /\ row' \in Seq(A) /\ Len(row') = Len(row) /\ DOMAIN row' = DOMAIN row
      /\ \A n \in DOMAIN row : row'[n].status = row[n].status
  <2>1. row' \in Seq(A)
    <3>1. DOMAIN row = 1..Len(row) /\ Len(row) \in Nat
      BY <1>8
    <3>2. row' = [n \in DOMAIN row |-> IF n = cur THEN c ELSE row[n]]
      BY <1>7, <1>8
    <3>3. row' \in [1..Len(row) -> A]
      BY <1>4, <1>5, <3>1, <3>2
    <3> QED BY <3>1, <3>3, FcnSeq
  <2>2. Len(row') = Len(row) /\ DOMAIN row' = DOMAIN row
    BY <1>7, <1>8, <2>1
  <2>3. \A n \in DOMAIN row : row'[n] = IF n = cur THEN c ELSE row[n]
    BY <1>7
  <2> QED BY <1>4, <2>1, <2>2, <2>3
<1>10. Rows(row')
  BY <1>9 DEF Rows, A
<1> QED BY <1>9, <1>10 DEF StatusKept

LEMMA StartSnapshotKeeps ==
    ASSUME LogInv, StartSnapshot PROVE LogInv'
<1> USE DEF LogInv
<1>a. UNCHANGED <<cur, verdict, said, unflushed, lastSeq, events, live, outbox, orphans, phase, notices, faults>>
  BY DEF StartSnapshot, taskVars
<1>b. StatusKept /\ pc \in {"starting", "flushed"} /\ pc' = "streaming"
  <2>1. cur \in DOMAIN row
    BY DEF StartSnapshot, Stages
  <2> QED BY <2>1, ColumnsKept DEF StartSnapshot
<1>c. cur \in DOMAIN row /\ row[cur].status = "in_progress" /\ unflushed <= said[cur]
      /\ phase # "starting"
  BY <1>b DEF Stages, StartUp, InRun
<1>1. LogTyped'
  BY <1>a, <1>b, <1>c DEF LogTyped, InRun, Verdicts, StatusKept
<1>2. Stages'
  BY <1>a, <1>b, <1>c DEF Stages, InRun, LogTyped, StartUp, StatusKept
<1>3. StartUp'
  BY <1>a, <1>b, <1>c DEF StartUp, InProgress, Stages, StatusKept
<1>4. Unended'
  BY <1>a, <1>b, <1>c DEF Unended, NoEnd, InProgress, Stages, StartUp, StatusKept
<1>5. TextFree'
  BY <1>a, <1>b, <1>c DEF TextFree, NoText, StatusKept
<1>6. EndSurvives'
  BY <1>a, <1>b, <1>c DEF EndSurvives, StatusKept, LogTyped
<1> QED BY <1>1, <1>2, <1>3, <1>4, <1>5, <1>6

LEMMA CheckpointKeeps ==
    ASSUME LogInv, Checkpoint PROVE LogInv'
<1> USE DEF LogInv
<1>a. UNCHANGED <<cur, verdict, said, unflushed, lastSeq, events, live, outbox, orphans, phase, notices, faults>>
  BY DEF Checkpoint, taskVars
<1>b. StatusKept /\ pc \in {"starting", "flushed"} /\ pc' = "streaming"
  <2>1. cur \in DOMAIN row
    BY DEF Checkpoint, Stages
  <2> QED BY <2>1, ColumnsKept DEF Checkpoint
<1>c. cur \in DOMAIN row /\ row[cur].status = "in_progress" /\ unflushed <= said[cur]
      /\ phase # "starting"
  BY <1>b DEF Stages, StartUp, InRun
<1>1. LogTyped'
  BY <1>a, <1>b, <1>c DEF LogTyped, InRun, Verdicts, StatusKept
<1>2. Stages'
  BY <1>a, <1>b, <1>c DEF Stages, InRun, LogTyped, StartUp, StatusKept
<1>3. StartUp'
  BY <1>a, <1>b, <1>c DEF StartUp, InProgress, Stages, StatusKept
<1>4. Unended'
  BY <1>a, <1>b, <1>c DEF Unended, NoEnd, InProgress, Stages, StartUp, StatusKept
<1>5. TextFree'
  BY <1>a, <1>b, <1>c DEF TextFree, NoText, StatusKept
<1>6. EndSurvives'
  BY <1>a, <1>b, <1>c DEF EndSurvives, StatusKept, LogTyped
<1> QED BY <1>1, <1>2, <1>3, <1>4, <1>5, <1>6

LEMMA NewTurnKeeps ==
    ASSUME LogInv, NewTurn PROVE LogInv'
<1> USE DEF LogInv
<1>a. UNCHANGED <<events, live, outbox, orphans, phase, notices, faults>>
  BY DEF NewTurn, taskVars
<1>b. /\ Rows(row') /\ Len(row') = Len(row) + 1 /\ Len(row) \in Nat
      /\ DOMAIN row = 1..Len(row) /\ DOMAIN row' = DOMAIN row \cup {Len(row) + 1}
      /\ \A n \in DOMAIN row : row'[n] = row[n] /\ said'[n] = said[n]
      /\ row'[Len(row) + 1].status = "in_progress" /\ said'[Len(row) + 1] = 0
      /\ said' \in Seq(Nat) /\ Len(said') = Len(row')
  BY RowAppend DEF NewTurn, LogTyped
<1>c. /\ pc = "idle" /\ phase = "serving" /\ pc' = "booting" /\ cur' = Len(row) + 1
      /\ verdict' = "completed" /\ unflushed' = 0
  BY DEF NewTurn
<1>d. \A i \in DOMAIN events : events[i].msg \in DOMAIN row
  BY DEF LogTyped
<1>1. LogTyped'
  BY <1>a, <1>b, <1>c, <1>d DEF LogTyped, InRun, Verdicts, Statuses
<1>2. Stages'
  BY <1>a, <1>b, <1>c, <1>d DEF Stages, InRun, LogTyped, StartUp
<1>3. StartUp'
  BY <1>a, <1>b, <1>c, <1>d DEF StartUp, InProgress, Stages
<1>4. Unended'
  BY <1>a, <1>b, <1>c, <1>d DEF Unended, NoEnd, InProgress, Stages, StartUp
<1>5. TextFree'
  BY <1>a, <1>b, <1>c, <1>d DEF TextFree, NoText, Verdicts
<1>6. EndSurvives'
  BY <1>a, <1>b, <1>c, <1>d DEF EndSurvives
<1> QED BY <1>1, <1>2, <1>3, <1>4, <1>5, <1>6

LEMMA ScaffoldNextKeeps ==
    ASSUME LogInv, ScaffoldNext PROVE LogInv'
<1> USE DEF LogInv
<1>a. UNCHANGED <<cur, verdict, unflushed, lastSeq, events, live, outbox, orphans, phase, notices, faults>>
  BY DEF ScaffoldNext, taskVars
<1>b. /\ Rows(row') /\ Len(row') = Len(row) + 1 /\ Len(row) \in Nat
      /\ DOMAIN row = 1..Len(row) /\ DOMAIN row' = DOMAIN row \cup {Len(row) + 1}
      /\ \A n \in DOMAIN row : row'[n] = row[n] /\ said'[n] = said[n]
      /\ row'[Len(row) + 1].status = "in_progress" /\ said'[Len(row) + 1] = 0
      /\ said' \in Seq(Nat) /\ Len(said') = Len(row')
  BY RowAppend DEF ScaffoldNext, LogTyped
<1>c. pc = "saved" /\ verdict # "failed" /\ pc' = "handing"
  BY DEF ScaffoldNext
<1>d. /\ \A i \in DOMAIN events : events[i].msg \in DOMAIN row
      /\ cur \in DOMAIN row /\ row[cur].status = verdict /\ verdict # "in_progress"
  BY <1>c DEF LogTyped, Stages, Verdicts
<1>1. LogTyped'
  BY <1>a, <1>b, <1>c, <1>d DEF LogTyped, InRun, Verdicts, Statuses
<1>2. Stages'
  BY <1>a, <1>b, <1>c, <1>d DEF Stages, InRun, LogTyped, StartUp
<1>3. StartUp'
  BY <1>a, <1>b, <1>c, <1>d DEF StartUp, InProgress, Stages
<1>4. Unended'
  BY <1>a, <1>b, <1>c, <1>d DEF Unended, NoEnd, InProgress, Stages, StartUp
<1>5. TextFree'
  BY <1>a, <1>b, <1>c, <1>d DEF TextFree, NoText, Verdicts
<1>6. EndSurvives'
  BY <1>a, <1>b, <1>c, <1>d DEF EndSurvives
<1> QED BY <1>1, <1>2, <1>3, <1>4, <1>5, <1>6

LEMMA Discarded ==
    ASSUME LogInv, HandOffFails
    PROVE  /\ pc = "handing" /\ pc' = "ending" /\ phase # "starting"
           /\ cur \in DOMAIN row /\ row[cur].status = verdict /\ Len(row) # cur
           /\ unflushed = 0 /\ unflushed <= said[cur]
           /\ Len(row) \in DOMAIN row /\ row[Len(row)].status = "in_progress"
           /\ Rows(row') /\ Len(row') = Len(row) /\ DOMAIN row' = DOMAIN row
           /\ row'[Len(row)].status = "deleted"
           /\ \A n \in DOMAIN row \ {Len(row)} : row'[n] = row[n]
<1> USE DEF LogInv
<1>1. /\ pc = "handing" /\ pc' = "ending" /\ row' = [row EXCEPT ![Len(row)].status = "deleted"]
      /\ cur \in DOMAIN row /\ row[cur].status = verdict /\ Len(row) # cur /\ unflushed = 0
      /\ row[Len(row)].status = "in_progress" /\ phase # "starting" /\ unflushed <= said[cur]
  BY DEF HandOffFails, Stages, StartUp, InRun
<1> DEFINE m == Len(row)
           r == row[m]
<1>2. m \in DOMAIN row
  BY <1>1, RowIndex
<1>3. row[m] = [status |-> r.status, items |-> r.items, seq |-> r.seq]
  BY <1>2, RowRecord DEF LogTyped
<1>4. [row[m] EXCEPT !.status = "deleted"] = [status |-> "deleted", items |-> r.items, seq |-> r.seq]
  BY <1>3
<1>5. row' = [row EXCEPT ![m] = [status |-> "deleted", items |-> r.items, seq |-> r.seq]]
  BY <1>1, <1>4
<1> HIDE DEF r
<1>6. /\ Rows(row') /\ Len(row') = Len(row) /\ DOMAIN row' = DOMAIN row
      /\ row'[m].status = "deleted" /\ \A n \in DOMAIN row \ {m} : row'[n] = row[n]
  BY <1>2, <1>5, RowChange DEF LogTyped, Statuses
<1> QED BY <1>1, <1>2, <1>6

LEMMA HandOffFailsKeeps ==
    ASSUME LogInv, HandOffFails PROVE LogInv'
<1> USE DEF LogInv
<1>a. UNCHANGED <<cur, verdict, said, unflushed, lastSeq, events, live, outbox, orphans, phase, notices>>
  BY DEF HandOffFails, Fault, taskVars
<1>b. /\ pc = "handing" /\ pc' = "ending" /\ phase # "starting"
      /\ cur \in DOMAIN row /\ row[cur].status = verdict /\ Len(row) # cur
      /\ unflushed = 0 /\ unflushed <= said[cur]
      /\ Len(row) \in DOMAIN row /\ row[Len(row)].status = "in_progress"
      /\ Rows(row') /\ Len(row') = Len(row) /\ DOMAIN row' = DOMAIN row
      /\ row'[Len(row)].status = "deleted"
      /\ \A n \in DOMAIN row \ {Len(row)} : row'[n] = row[n]
  BY Discarded
<1>c. /\ NoEnd(Len(row)) /\ verdict # "in_progress"
      /\ \A i \in DOMAIN events : events[i].msg \in DOMAIN row
  BY <1>b DEF Unended, InProgress, LogTyped, Verdicts
<1>1. LogTyped'
  BY <1>a, <1>b, <1>c DEF LogTyped, InRun, Verdicts
<1>2. Stages'
  BY <1>a, <1>b, <1>c DEF Stages, InRun, LogTyped, StartUp
<1>3. StartUp'
  BY <1>a, <1>b, <1>c DEF StartUp, InProgress, Stages
<1>4. Unended'
  BY <1>a, <1>b, <1>c DEF Unended, NoEnd, InProgress, Stages, StartUp
<1>5. TextFree'
  BY <1>a, <1>b, <1>c DEF TextFree, NoText, Verdicts
<1>6. EndSurvives'
  BY <1>a, <1>b, <1>c DEF EndSurvives, NoEnd
<1> QED BY <1>1, <1>2, <1>3, <1>4, <1>5, <1>6

-----------------------------------------------------------------------------
(* Steps that add to the log *)

(* Events that end nothing leave every told end, and every turn without one, as it was. *)
LEMMA EndsKept ==
    ASSUME LogTyped, EndSurvives, UNCHANGED row, NEW m, NEW K, Grows(m, K), K \cap EndKinds = {},
           NoEnd(m)
    PROVE  EndSurvives' /\ \A n : NoEnd(n) => NoEnd(n)'
<1>1. /\ \A i \in DOMAIN events : i \in DOMAIN events' /\ events'[i] = events[i]
      /\ \A i \in DOMAIN events' \ DOMAIN events : events'[i].msg = m /\ events'[i].kind \notin EndKinds
      /\ live \subseteq live'
  BY DEF Grows
<1>2. \A n : NoEnd(n) => NoEnd(n)'
  BY <1>1 DEF NoEnd
<1>3. EndSurvives'
  <2> SUFFICES ASSUME NEW i \in DOMAIN events', events'[i].kind \in EndKinds
      PROVE  /\ i \in live' /\ \A j \in DOMAIN events' : j > i => events'[j].msg # events'[i].msg
             /\ CASE events'[i].kind = "handoff" ->
                       row'[events'[i].msg].status \in {"completed", "interrupted"}
                  [] OTHER -> events'[i].kind = EndOf(row'[events'[i].msg].status)
    BY DEF EndSurvives
  <2>1. i \in DOMAIN events /\ events'[i] = events[i] /\ events[i].kind \in EndKinds
    BY <1>1
  <2>2. /\ i \in live /\ \A j \in DOMAIN events : j > i => events[j].msg # events[i].msg
        /\ CASE events[i].kind = "handoff" ->
                  row[events[i].msg].status \in {"completed", "interrupted"}
             [] OTHER -> events[i].kind = EndOf(row[events[i].msg].status)
    BY <2>1 DEF EndSurvives
  <2>3. events[i].msg # m
    BY <2>1 DEF NoEnd
  <2>4. \A j \in DOMAIN events' : j > i => events'[j].msg # events'[i].msg
    BY <1>1, <2>1, <2>2, <2>3
  <2> QED BY <1>1, <2>1, <2>2, <2>4
<1> QED BY <1>2, <1>3

(* One end of a finished turn that had none, told as its row says. *)
LEMMA EndTold ==
    ASSUME LogTyped, EndSurvives, UNCHANGED row, NEW m, NEW kind \in EndKinds, NoEnd(m),
           Grows(m, {kind}), Len(events') = Len(events) + 1,
           IF kind = "handoff" THEN row[m].status \in {"completed", "interrupted"}
                               ELSE kind = EndOf(row[m].status)
    PROVE  EndSurvives' /\ \A n : n # m /\ NoEnd(n) => NoEnd(n)'
<1>1. /\ \A i \in DOMAIN events : i \in DOMAIN events' /\ events'[i] = events[i]
      /\ \A i \in DOMAIN events' \ DOMAIN events : events'[i].msg = m /\ events'[i].kind = kind
      /\ live \subseteq live' /\ DOMAIN events' \ DOMAIN events \subseteq live'
  BY DEF Grows
<1>2. /\ DOMAIN events = 1..Len(events) /\ DOMAIN events' = 1..Len(events') /\ Len(events) \in Nat
  BY DEF Grows, LogTyped
<1>3. \A n : n # m /\ NoEnd(n) => NoEnd(n)'
  BY <1>1 DEF NoEnd
<1>4. EndSurvives'
  <2> SUFFICES ASSUME NEW i \in DOMAIN events', events'[i].kind \in EndKinds
      PROVE  /\ i \in live' /\ \A j \in DOMAIN events' : j > i => events'[j].msg # events'[i].msg
             /\ CASE events'[i].kind = "handoff" ->
                       row'[events'[i].msg].status \in {"completed", "interrupted"}
                  [] OTHER -> events'[i].kind = EndOf(row'[events'[i].msg].status)
    BY DEF EndSurvives
  <2>1. CASE i \in DOMAIN events
    <3>1. events'[i] = events[i] /\ events[i].kind \in EndKinds
      BY <1>1, <2>1
    <3>2. /\ i \in live /\ \A j \in DOMAIN events : j > i => events[j].msg # events[i].msg
          /\ CASE events[i].kind = "handoff" ->
                    row[events[i].msg].status \in {"completed", "interrupted"}
               [] OTHER -> events[i].kind = EndOf(row[events[i].msg].status)
      BY <2>1, <3>1 DEF EndSurvives
    <3>3. events[i].msg # m
      BY <2>1, <3>1 DEF NoEnd
    <3>4. \A j \in DOMAIN events' : j > i => events'[j].msg # events'[i].msg
      BY <1>1, <3>1, <3>2, <3>3
    <3> QED BY <1>1, <3>1, <3>2, <3>4
  <2>2. CASE i \notin DOMAIN events
    <3>1. i \in live' /\ events'[i].msg = m /\ events'[i].kind = kind
      BY <1>1, <2>2
    <3>2. \A j \in DOMAIN events' : ~(j > i)
      BY <1>2, <2>2
    <3>3. row'[m] = row[m]
      OBVIOUS
    <3> QED BY <3>1, <3>2, <3>3
  <2> QED BY <2>1, <2>2
<1> QED BY <1>3, <1>4

(* What every addition to the log of message m keeps. *)
LEMMA LogGrown ==
    ASSUME LogTyped, TextFree, UNCHANGED row, NEW m \in DOMAIN row, NEW K, Grows(m, K)
    PROVE  /\ events' \in Seq(Event) /\ live' \subseteq DOMAIN events'
           /\ \A i \in DOMAIN events' : events'[i].msg \in DOMAIN row
           /\ ("text" \notin K \/ row[m].status \notin Verdicts) => TextFree'
<1>1. /\ events' \in Seq(Event) /\ DOMAIN events \subseteq DOMAIN events'
      /\ \A i \in DOMAIN events : events'[i] = events[i]
      /\ \A i \in DOMAIN events' \ DOMAIN events : events'[i].msg = m /\ events'[i].kind \in K
      /\ live' = live \cup (DOMAIN events' \ DOMAIN events)
  BY DEF Grows
<1>2. live \subseteq DOMAIN events /\ \A i \in DOMAIN events : events[i].msg \in DOMAIN row
  BY DEF LogTyped
<1>3. ASSUME "text" \notin K \/ row[m].status \notin Verdicts PROVE TextFree'
  <2> SUFFICES ASSUME NEW n \in DOMAIN row, row[n].status \in Verdicts, NEW i \in live', events'[i].msg = n
      PROVE  events'[i].kind # "text"
    BY DEF TextFree, NoText
  <2>1. CASE i \in live
    BY <1>1, <1>2, <2>1 DEF TextFree, NoText
  <2>2. CASE i \in DOMAIN events' \ DOMAIN events
    BY <1>1, <1>3, <2>2
  <2> QED BY <1>1, <2>1, <2>2
<1> QED BY <1>1, <1>2, <1>3

LEMMA StartKeeps ==
    ASSUME LogInv, Start PROVE LogInv'
<1> USE DEF LogInv
<1>a. UNCHANGED <<cur, verdict, said, unflushed, row, orphans, phase, notices, faults>>
  BY DEF Start, Emit, Commit, Publish, taskVars
<1>b. /\ pc = "booting" /\ pc' = "starting" /\ cur \in DOMAIN row /\ NoEnd(cur)
      /\ unflushed = 0 /\ unflushed <= said[cur]
      /\ row[cur].status = "in_progress" /\ Grows(cur, {"start"}) /\ phase # "starting"
      /\ {"start"} \cap EndKinds = {} /\ "text" \notin {"start"}
  <2>1. cur \in DOMAIN row /\ row[cur].status = "in_progress" /\ pc = "booting" /\ pc' = "starting" /\ NoEnd(cur)
        /\ unflushed = 0 /\ phase # "starting" /\ said[cur] \in Nat /\ cur \in Nat
    BY RowIndex DEF Start, Stages, Unended, InProgress, StartUp
  <2>2. Commit(<<[msg |-> cur, kind |-> "start", val |-> 0]>>)
    BY DEF Start, Emit, One
  <2>3. Grows(cur, {"start"})
    BY <2>1, <2>2, OneGrows DEF LogTyped
  <2> QED BY <2>1, <2>3 DEF EndKinds
<1>c. EndSurvives' /\ \A n : NoEnd(n) => NoEnd(n)'
  BY <1>a, <1>b, EndsKept
<1>d. /\ events' \in Seq(Event) /\ live' \subseteq DOMAIN events' /\ TextFree'
      /\ \A i \in DOMAIN events' : events'[i].msg \in DOMAIN row
  BY <1>a, <1>b, LogGrown
<1>1. LogTyped'
  BY <1>a, <1>b, <1>d DEF LogTyped, InRun, Verdicts
<1>2. Stages'
  BY <1>a, <1>b DEF Stages, InRun, LogTyped, StartUp
<1>3. StartUp'
  BY <1>a, <1>b DEF StartUp, InProgress, Stages
<1>4. Unended'
  BY <1>a, <1>b, <1>c DEF Unended, InProgress, Verdicts, EndKinds
<1>5. TextFree'
  BY <1>d
<1>6. EndSurvives'
  BY <1>c
<1> QED BY <1>1, <1>2, <1>3, <1>4, <1>5, <1>6

LEMMA FlushAtKeeps ==
    ASSUME LogInv, NEW from, NEW to,
           \/ from = "streaming" /\ to = "flushed"
           \/ from = "finishing" /\ to = "finishing", FlushAt(from, to) PROVE LogInv'
<1> USE DEF LogInv
<1>a. UNCHANGED <<cur, verdict, said, row, orphans, phase, notices, faults>>
  BY DEF FlushAt, taskVars
<1>b. /\ \/ pc = "streaming" /\ pc' = "flushed"
         \/ pc = "finishing" /\ pc' = "finishing"
      /\ cur \in DOMAIN row /\ row[cur].status = "in_progress" /\ NoEnd(cur) /\ said[cur] \in Nat
      /\ unflushed' = 0 /\ phase # "starting" /\ Grows(cur, {"text"})
      /\ {"text"} \cap EndKinds = {} /\ row[cur].status \notin Verdicts
  <2>1. /\ pc = from /\ pc' = to /\ unflushed' = 0 /\ unflushed > 0 /\ Commit(Batch)
    BY DEF FlushAt
  <2>2. /\ cur \in DOMAIN row /\ row[cur].status = "in_progress" /\ phase # "starting"
        /\ unflushed <= said[cur]
    BY <2>1 DEF Stages, StartUp, InRun, LogTyped
  <2>3. said[cur] \in Nat /\ cur \in Nat /\ NoEnd(cur)
    BY <2>2, RowIndex DEF Unended, InProgress
  <2>4. Grows(cur, {"text"})
    BY <2>1, <2>2, <2>3, BatchGrows DEF LogTyped
  <2> QED BY <2>1, <2>2, <2>3, <2>4 DEF EndKinds, Verdicts
<1>c. EndSurvives' /\ \A n : NoEnd(n) => NoEnd(n)'
  BY <1>a, <1>b, EndsKept
<1>d. /\ events' \in Seq(Event) /\ live' \subseteq DOMAIN events' /\ TextFree'
      /\ \A i \in DOMAIN events' : events'[i].msg \in DOMAIN row
  BY <1>a, <1>b, LogGrown
<1>1. LogTyped'
  BY <1>a, <1>b, <1>d DEF LogTyped, InRun, Verdicts
<1>2. Stages'
  BY <1>a, <1>b DEF Stages, InRun, LogTyped, StartUp
<1>3. StartUp'
  BY <1>a, <1>b DEF StartUp, InProgress, Stages
<1>4. Unended'
  BY <1>a, <1>b, <1>c DEF Unended, InProgress, Verdicts, EndKinds
<1>5. TextFree'
  BY <1>d
<1>6. EndSurvives'
  BY <1>c
<1> QED BY <1>1, <1>2, <1>3, <1>4, <1>5, <1>6

LEMMA NotifyKeeps ==
    ASSUME LogInv, Notify PROVE LogInv'
<1> USE DEF LogInv
<1>a. UNCHANGED <<cur, verdict, said, unflushed, row, orphans, phase, faults>>
  BY DEF Notify, Emit, Commit, Publish, taskVars
<1>b. /\ pc \in {"streaming", "flushed", "ending"}
      /\ pc' \in {"streaming", "ending"} /\ (pc = "ending" <=> pc' = "ending")
      /\ cur \in DOMAIN row /\ said[cur] \in Nat /\ NoEnd(cur) /\ unflushed = 0 /\ phase # "starting"
      /\ Grows(cur, {"notice"}) /\ {"notice"} \cap EndKinds = {} /\ "text" \notin {"notice"}
  <2>1. /\ pc \in {"streaming", "flushed", "ending"} /\ unflushed = 0
        /\ pc' = IF pc = "flushed" THEN "streaming" ELSE pc
        /\ Commit(<<[msg |-> cur, kind |-> "notice", val |-> 0]>>)
    BY DEF Notify, Emit, One
  <2>2. cur \in DOMAIN row /\ phase # "starting"
    BY <2>1 DEF Stages, StartUp
  <2>3. said[cur] \in Nat /\ cur \in Nat /\ NoEnd(cur)
    BY <2>1, <2>2, RowIndex DEF Unended, InProgress, Stages
  <2>4. Grows(cur, {"notice"})
    BY <2>1, <2>3, OneGrows DEF LogTyped
  <2> QED BY <2>1, <2>2, <2>3, <2>4 DEF EndKinds
<1>c. EndSurvives' /\ \A n : NoEnd(n) => NoEnd(n)'
  BY <1>a, <1>b, EndsKept
<1>d. /\ events' \in Seq(Event) /\ live' \subseteq DOMAIN events' /\ TextFree'
      /\ \A i \in DOMAIN events' : events'[i].msg \in DOMAIN row
  BY <1>a, <1>b, LogGrown
<1>1. LogTyped'
  BY <1>a, <1>b, <1>d DEF LogTyped, InRun, Verdicts
<1>2. Stages'
  BY <1>a, <1>b DEF Stages, InRun, LogTyped, StartUp
<1>3. StartUp'
  BY <1>a, <1>b DEF StartUp, InProgress, Stages
<1>4. Unended'
  BY <1>a, <1>b, <1>c DEF Unended, InProgress, Verdicts, EndKinds
<1>5. TextFree'
  BY <1>d
<1>6. EndSurvives'
  BY <1>c
<1> QED BY <1>1, <1>2, <1>3, <1>4, <1>5, <1>6

LEMMA HandOffKeeps ==
    ASSUME LogInv, HandOff PROVE LogInv'
<1> USE DEF LogInv
<1>a. UNCHANGED <<cur, verdict, said, unflushed, row, orphans, phase, notices, faults>>
  BY DEF HandOff, Commit, Publish, taskVars
<1>b. /\ pc = "handing" /\ pc' = "handed" /\ cur \in DOMAIN row /\ said[cur] \in Nat /\ NoEnd(cur)
      /\ unflushed = 0 /\ phase # "starting" /\ Grows(cur, {"handoff"})
      /\ Len(events') = Len(events) + 1 /\ "handoff" \in EndKinds /\ "text" \notin {"handoff"}
      /\ row[cur].status \in {"completed", "interrupted"} /\ row[cur].status # "in_progress"
  <2>1. /\ pc = "handing" /\ pc' = "handed"
        /\ Commit(<<[msg |-> cur, kind |-> "handoff", val |-> Len(row)]>>)
    BY DEF HandOff
  <2>2. /\ cur \in DOMAIN row /\ phase # "starting" /\ unflushed = 0 /\ row[cur].status = verdict
        /\ verdict # "failed" /\ NoEnd(cur)
    BY <2>1 DEF Stages, StartUp, Unended
  <2>3. said[cur] \in Nat /\ cur \in Nat /\ Len(row) \in Nat
    BY <2>2, RowIndex
  <2>4. Grows(cur, {"handoff"}) /\ Len(events') = Len(events) + 1
    BY <2>1, <2>3, OneGrows DEF LogTyped, EndKinds
  <2> QED BY <2>1, <2>2, <2>3, <2>4 DEF EndKinds, LogTyped, Verdicts
<1>c. EndSurvives' /\ \A n : n # cur /\ NoEnd(n) => NoEnd(n)'
  BY <1>a, <1>b, EndTold
<1>d. /\ events' \in Seq(Event) /\ live' \subseteq DOMAIN events' /\ TextFree'
      /\ \A i \in DOMAIN events' : events'[i].msg \in DOMAIN row
  BY <1>a, <1>b, LogGrown
<1>1. LogTyped'
  BY <1>a, <1>b, <1>d DEF LogTyped, InRun, Verdicts
<1>2. Stages'
  BY <1>a, <1>b DEF Stages, InRun, LogTyped, StartUp
<1>3. StartUp'
  BY <1>a, <1>b DEF StartUp, InProgress, Stages
<1>4. Unended'
  BY <1>a, <1>b, <1>c DEF Unended, InProgress, Verdicts, EndKinds
<1>5. TextFree'
  BY <1>d
<1>6. EndSurvives'
  BY <1>c
<1> QED BY <1>1, <1>2, <1>3, <1>4, <1>5, <1>6

LEMMA TerminalKeeps ==
    ASSUME LogInv, Terminal PROVE LogInv'
<1> USE DEF LogInv
<1>a. UNCHANGED <<cur, verdict, said, unflushed, row, orphans, phase, notices, faults>>
  BY DEF Terminal, Emit, Commit, Publish, taskVars
<1>b. /\ pc = "ending" /\ pc' = "idle" /\ cur \in DOMAIN row /\ NoEnd(cur)
      /\ phase # "starting" /\ Grows(cur, {EndOf(verdict)})
      /\ Len(events') = Len(events) + 1 /\ EndOf(verdict) \in EndKinds
      /\ "text" \notin {EndOf(verdict)} /\ EndOf(verdict) # "handoff"
      /\ row[cur].status = verdict /\ row[cur].status # "in_progress"
  <2>1. /\ pc = "ending" /\ pc' = "idle"
        /\ Commit(<<[msg |-> cur, kind |-> EndOf(verdict), val |-> 0]>>)
    BY DEF Terminal, Emit, One
  <2>2. /\ cur \in DOMAIN row /\ phase # "starting" /\ row[cur].status = verdict /\ NoEnd(cur)
    BY <2>1 DEF Stages, StartUp, Unended
  <2>3. EndOf(verdict) \in {"complete", "cancelled", "error"}
    BY DEF EndOf
  <2>4. Grows(cur, {EndOf(verdict)}) /\ Len(events') = Len(events) + 1
    BY <2>1, <2>2, <2>3, RowIndex, OneGrows DEF LogTyped, EndKinds
  <2> QED BY <2>1, <2>2, <2>3, <2>4 DEF EndKinds, LogTyped, Verdicts
<1>c. EndSurvives' /\ \A n : n # cur /\ NoEnd(n) => NoEnd(n)'
  BY <1>a, <1>b, EndTold
<1>d. /\ events' \in Seq(Event) /\ live' \subseteq DOMAIN events' /\ TextFree'
      /\ \A i \in DOMAIN events' : events'[i].msg \in DOMAIN row
  BY <1>a, <1>b, LogGrown
<1>1. LogTyped'
  BY <1>a, <1>b, <1>d DEF LogTyped, InRun, Verdicts
<1>2. Stages'
  BY <1>a, <1>b DEF Stages, InRun, LogTyped, StartUp
<1>3. StartUp'
  BY <1>a, <1>b DEF StartUp, InProgress, Stages
<1>4. Unended'
  BY <1>a, <1>b, <1>c DEF Unended, InProgress, Verdicts, EndKinds
<1>5. TextFree'
  BY <1>d
<1>6. EndSurvives'
  BY <1>c
<1> QED BY <1>1, <1>2, <1>3, <1>4, <1>5, <1>6

LEMMA DeadTerminalKeeps ==
    ASSUME LogInv, DeadTerminal PROVE LogInv'
<1> USE DEF LogInv
<1>a. UNCHANGED <<cur, verdict, said, unflushed, lastSeq, row, orphans, phase, notices, faults>>
  BY DEF DeadTerminal, AfterDead, Commit, Publish, taskVars
<1>b. /\ pc = "folded" /\ pc' = (IF phase = "starting" THEN "reconciling" ELSE "idle")
      /\ cur \in DOMAIN row /\ NoEnd(cur) /\ Grows(cur, {EndOf(verdict)})
      /\ Len(events') = Len(events) + 1 /\ EndOf(verdict) \in EndKinds
      /\ "text" \notin {EndOf(verdict)} /\ EndOf(verdict) # "handoff"
      /\ row[cur].status = verdict /\ row[cur].status # "in_progress"
  <2>1. /\ pc = "folded" /\ pc' = (IF phase = "starting" THEN "reconciling" ELSE "idle")
        /\ Commit(<<[msg |-> cur, kind |-> EndOf(verdict), val |-> 0]>>)
    BY DEF DeadTerminal, AfterDead, One
  <2>2. /\ cur \in DOMAIN row /\ row[cur].status = verdict /\ NoEnd(cur)
    BY <2>1 DEF Stages, Unended
  <2>3. EndOf(verdict) \in {"complete", "cancelled", "error"}
    BY DEF EndOf
  <2>4. Grows(cur, {EndOf(verdict)}) /\ Len(events') = Len(events) + 1
    BY <2>1, <2>2, <2>3, RowIndex, OneGrows DEF LogTyped, EndKinds
  <2> QED BY <2>1, <2>2, <2>3, <2>4 DEF EndKinds, LogTyped, Verdicts
<1>c. EndSurvives' /\ \A n : n # cur /\ NoEnd(n) => NoEnd(n)'
  BY <1>a, <1>b, EndTold
<1>d. /\ events' \in Seq(Event) /\ live' \subseteq DOMAIN events' /\ TextFree'
      /\ \A i \in DOMAIN events' : events'[i].msg \in DOMAIN row
  BY <1>a, <1>b, LogGrown
<1>1. LogTyped'
  BY <1>a, <1>b, <1>d DEF LogTyped, InRun, Verdicts
<1>2. Stages'
  BY <1>a, <1>b DEF Stages, InRun, LogTyped, StartUp
<1>3. StartUp'
  BY <1>a, <1>b DEF StartUp, InProgress, Stages
<1>4. Unended'
  BY <1>a, <1>b, <1>c DEF Unended, InProgress, Verdicts, EndKinds
<1>5. TextFree'
  BY <1>d
<1>6. EndSurvives'
  BY <1>c
<1> QED BY <1>1, <1>2, <1>3, <1>4, <1>5, <1>6

LEMMA CutShortKeeps ==
    ASSUME LogInv, CutShort PROVE LogInv'
<1> USE DEF LogInv
<1>a. UNCHANGED <<cur, said, unflushed, lastSeq, row, orphans, phase, notices>>
  BY DEF CutShort, Fault, taskVars
<1>b. /\ pc \in {"streaming", "flushed"} /\ pc' = "finishing" /\ verdict' = "interrupted"
      /\ cur \in DOMAIN row /\ said[cur] \in Nat /\ cur \in Nat /\ NoEnd(cur) /\ phase # "starting"
      /\ row[cur].status = "in_progress" /\ unflushed <= said[cur]
      /\ {"text", "notice"} \cap EndKinds = {} /\ row[cur].status \notin Verdicts
  <2>1. /\ pc \in {"streaming", "flushed"} /\ pc' = "finishing" /\ verdict' = "interrupted"
    BY DEF CutShort
  <2>2. /\ cur \in DOMAIN row /\ row[cur].status = "in_progress" /\ phase # "starting"
        /\ unflushed <= said[cur]
    BY <2>1 DEF Stages, StartUp, InRun
  <2>3. said[cur] \in Nat /\ cur \in Nat /\ NoEnd(cur)
    BY <2>2, RowIndex DEF Unended, InProgress
  <2> QED BY <2>1, <2>2, <2>3 DEF EndKinds, Verdicts
<1>c. UNCHANGED <<events, live>> \/ Grows(cur, {"text"}) \/ Grows(cur, {"notice"})
  <2>1. \/ UNCHANGED <<events, live>>
        \/ Commit(Batch)
        \/ Commit(<<[msg |-> cur, kind |-> "notice", val |-> 0]>>)
    BY DEF CutShort, One
  <2>2. CASE Commit(Batch)
    BY <1>b, <2>2, BatchGrows DEF LogTyped
  <2>3. CASE Commit(<<[msg |-> cur, kind |-> "notice", val |-> 0]>>)
    BY <1>b, <2>3, OneGrows DEF LogTyped
  <2> QED BY <2>1, <2>2, <2>3
<1>d. EndSurvives' /\ \A n : NoEnd(n) => NoEnd(n)'
  <2>1. CASE UNCHANGED <<events, live>>
    BY <1>a, <2>1 DEF EndSurvives, NoEnd
  <2>2. ASSUME NEW K \in {{"text"}, {"notice"}}, Grows(cur, K)
        PROVE  EndSurvives' /\ \A n : NoEnd(n) => NoEnd(n)'
    <3>1. K \cap EndKinds = {}
      BY <1>b
    <3> QED BY <1>a, <1>b, <2>2, <3>1, EndsKept
  <2> QED BY <1>c, <2>1, <2>2
<1>e. /\ events' \in Seq(Event) /\ live' \subseteq DOMAIN events' /\ TextFree'
      /\ \A i \in DOMAIN events' : events'[i].msg \in DOMAIN row
  <2>1. CASE UNCHANGED <<events, live>>
    BY <1>a, <2>1 DEF LogTyped, TextFree, NoText
  <2>2. ASSUME NEW K, Grows(cur, K)
        PROVE  /\ events' \in Seq(Event) /\ live' \subseteq DOMAIN events' /\ TextFree'
               /\ \A i \in DOMAIN events' : events'[i].msg \in DOMAIN row
    BY <1>a, <1>b, <2>2, LogGrown
  <2> QED BY <1>c, <2>1, <2>2
<1>1. LogTyped'
  BY <1>a, <1>b, <1>e DEF LogTyped, InRun, Verdicts
<1>2. Stages'
  BY <1>a, <1>b DEF Stages, InRun, LogTyped, StartUp
<1>3. StartUp'
  BY <1>a, <1>b DEF StartUp, InProgress, Stages
<1>4. Unended'
  BY <1>a, <1>b, <1>d DEF Unended, InProgress, Verdicts, EndKinds
<1>5. TextFree'
  BY <1>e
<1>6. EndSurvives'
  BY <1>d
<1> QED BY <1>1, <1>2, <1>3, <1>4, <1>5, <1>6

-----------------------------------------------------------------------------
(* The final save, and the fold of a dead task's log *)

(* Row m gets the status v and the log of m is pruned. *)
Settled(m, v) ==
    /\ Rows(row') /\ Len(row') = Len(row) /\ DOMAIN row' = DOMAIN row
    /\ row'[m].status = v /\ \A n \in DOMAIN row \ {m} : row'[n] = row[n]
    /\ live' = {i \in live : events[i].msg # m}

LEMMA SaveSettles ==
    ASSUME LogTyped, cur \in DOMAIN row, SaveFinal \/ FoldDead
    PROVE  Settled(cur, verdict)
<1>1. Rows(row) /\ verdict \in Statuses /\ live' = {i \in live : events[i].msg # cur}
  BY DEF LogTyped, Statuses, SaveFinal, FoldDead, Prune
<1>2. \E items, seq : row' = [row EXCEPT ![cur] = [status |-> verdict, items |-> items, seq |-> seq]]
  <2>1. CASE SaveFinal
    <3> DEFINE items == UpTo(said[cur]) \o NoteOf(verdict)
               seq == Larger(row[cur].seq, lastSeq)
    <3>1. row' = [row EXCEPT ![cur] = [status |-> verdict, items |-> items, seq |-> seq]]
      BY <2>1 DEF SaveFinal
    <3> QED BY <3>1
  <2>2. CASE FoldDead
    <3> DEFINE items == Folded(cur) \o NoteOf(verdict)
               seq == CHOOSE s \in {i \in live : events[i].msg = cur} \cup {row[cur].seq} :
                          \A i \in live : events[i].msg = cur => i <= s
    <3>1. row' = [row EXCEPT ![cur] = [status |-> verdict, items |-> items, seq |-> seq]]
      BY <2>2 DEF FoldDead
    <3> QED BY <3>1
  <2> QED BY <2>1, <2>2
<1>3. PICK items, seq : row' = [row EXCEPT ![cur] = [status |-> verdict, items |-> items, seq |-> seq]]
  BY <1>2
<1> QED BY <1>1, <1>3, RowChange DEF Settled

(* Settling a turn that has no end yet tells and un-tells none. *)
LEMMA SettledKeeps ==
    ASSUME LogTyped, EndSurvives, TextFree, UNCHANGED events, NEW m \in DOMAIN row,
           NEW v \in Verdicts, NoEnd(m), Settled(m, v)
    PROVE  EndSurvives' /\ TextFree' /\ live' \subseteq live
           /\ \A n : NoEnd(n) => NoEnd(n)'
<1>1. EndSurvives'
  BY DEF EndSurvives, NoEnd, Settled, LogTyped
<1>2. TextFree'
  BY DEF TextFree, NoText, Settled
<1>3. live' \subseteq live /\ \A n : NoEnd(n) => NoEnd(n)'
  BY DEF Settled, NoEnd
<1> QED BY <1>1, <1>2, <1>3

LEMMA SaveFinalKeeps ==
    ASSUME LogInv, SaveFinal PROVE LogInv'
<1> USE DEF LogInv
<1>a. UNCHANGED <<cur, verdict, said, unflushed, lastSeq, events, outbox, orphans, phase, notices, faults>>
  BY DEF SaveFinal, Prune, taskVars
<1>b. /\ pc = "finishing" /\ pc' = "saved" /\ cur \in DOMAIN row /\ NoEnd(cur)
      /\ unflushed = 0 /\ unflushed <= said[cur] /\ phase # "starting" /\ verdict \in Verdicts
  BY DEF SaveFinal, Stages, Unended, StartUp, InRun, LogTyped
<1>c. Settled(cur, verdict)
  BY <1>b, SaveSettles
<1>d. EndSurvives' /\ TextFree' /\ live' \subseteq live /\ \A n : NoEnd(n) => NoEnd(n)'
  BY <1>a, <1>b, <1>c, SettledKeeps
<1>1. LogTyped'
  BY <1>a, <1>b, <1>c, <1>d DEF LogTyped, InRun, Verdicts, Settled
<1>2. Stages'
  BY <1>a, <1>b, <1>c DEF Stages, InRun, LogTyped, StartUp, Settled, Verdicts
<1>3. StartUp'
  BY <1>a, <1>b, <1>c DEF StartUp, InProgress, Stages, Settled
<1>4. Unended'
  BY <1>a, <1>b, <1>c, <1>d DEF Unended, InProgress, Verdicts, Settled
<1>5. TextFree'
  BY <1>d
<1>6. EndSurvives'
  BY <1>d
<1> QED BY <1>1, <1>2, <1>3, <1>4, <1>5, <1>6

LEMMA FoldDeadKeeps ==
    ASSUME LogInv, FoldDead PROVE LogInv'
<1> USE DEF LogInv
<1>a. UNCHANGED <<cur, verdict, said, unflushed, lastSeq, events, outbox, orphans, phase, notices, faults>>
  BY DEF FoldDead, Prune, taskVars
<1>b. /\ pc = "dead" /\ pc' = "folded" /\ cur \in DOMAIN row /\ NoEnd(cur)
      /\ row[cur].status = "in_progress" /\ verdict \in Verdicts /\ cur \notin orphans
  BY DEF FoldDead, Stages, Unended, InProgress, StartUp, InRun, LogTyped
<1>c. Settled(cur, verdict)
  BY <1>b, SaveSettles
<1>d. EndSurvives' /\ TextFree' /\ live' \subseteq live /\ \A n : NoEnd(n) => NoEnd(n)'
  BY <1>a, <1>b, <1>c, SettledKeeps
<1>1. LogTyped'
  BY <1>a, <1>b, <1>c, <1>d DEF LogTyped, InRun, Verdicts, Settled
<1>2. Stages'
  BY <1>a, <1>b, <1>c DEF Stages, InRun, LogTyped, StartUp, Settled, Verdicts
<1>3. StartUp'
  BY <1>a, <1>b, <1>c DEF StartUp, InProgress, Stages, Settled
<1>4. Unended'
  BY <1>a, <1>b, <1>c, <1>d DEF Unended, InProgress, Verdicts, Settled
<1>5. TextFree'
  BY <1>d
<1>6. EndSurvives'
  BY <1>d
<1> QED BY <1>1, <1>2, <1>3, <1>4, <1>5, <1>6

-----------------------------------------------------------------------------
(* Every step *)

LEMMA LogInit == Init => LogInv
<1> SUFFICES ASSUME Init PROVE LogInv
  OBVIOUS
<1>0. row = <<>> /\ events = <<>> /\ said = <<>> /\ live = {} /\ orphans = {}
      /\ pc = "idle" /\ cur = 0 /\ verdict = "completed" /\ unflushed = 0 /\ phase = "serving"
  BY DEF Init
<1>1. LogTyped
  <2>1. Rows(row)
    BY <1>0 DEF Rows
  <2> QED BY <1>0, <2>1 DEF LogTyped, Event, Verdicts
<1>2. Stages /\ StartUp
  BY <1>0 DEF Stages, StartUp, InProgress, InRun
<1>3. Unended /\ TextFree /\ EndSurvives
  BY <1>0 DEF Unended, NoEnd, InProgress, TextFree, NoText, EndSurvives
<1> QED BY <1>1, <1>2, <1>3 DEF LogInv

LEMMA LogStep ==
    ASSUME LogInv, LogNext PROVE LogInv'
<1>1. CASE Start
  BY <1>1, StartKeeps
<1>2. CASE StartSnapshot
  BY <1>2, StartSnapshotKeeps
<1>3. CASE Flush
  BY <1>3, FlushAtKeeps DEF Flush
<1>4. CASE Checkpoint
  BY <1>4, CheckpointKeeps
<1>5. CASE SkipCheckpoint
  BY <1>5, SkipCheckpointKeeps
<1>6. CASE FinalFlush
  BY <1>6, FlushAtKeeps DEF FinalFlush
<1>7. CASE SaveFinal
  BY <1>7, SaveFinalKeeps
<1>8. CASE NoneQueued
  BY <1>8, NoneQueuedKeeps
<1>9. CASE HandOff
  BY <1>9, HandOffKeeps
<1>10. CASE StartNext
  BY <1>10, StartNextKeeps
<1>11. CASE Terminal
  BY <1>11, TerminalKeeps
<1>12. CASE FoldDead
  BY <1>12, FoldDeadKeeps
<1>13. CASE AlreadyFinal
  BY <1>13, AlreadyFinalKeeps
<1>14. CASE DeadTerminal
  BY <1>14, DeadTerminalKeeps
<1>15. CASE Reconcile
  BY <1>15, ReconcileKeeps
<1>16. CASE Serve
  BY <1>16, ServeKeeps
<1>17. CASE Say
  BY <1>17, SayKeeps
<1>18. CASE Notify
  BY <1>18, NotifyKeeps
<1>19. CASE \E v \in Verdicts : Finish(v)
  BY <1>19, FinishKeeps
<1>20. CASE FailEarly
  BY <1>20, FailEarlyKeeps
<1>21. CASE DbFails
  BY <1>21, DbFailsKeeps
<1>22. CASE HandOffFails
  BY <1>22, HandOffFailsKeeps
<1>23. CASE FinalizeFails
  BY <1>23, FinalizeFailsKeeps
<1>24. CASE CutShort
  BY <1>24, CutShortKeeps
<1>25. CASE Shutdown
  BY <1>25, ShutdownKeeps
<1>26. CASE TaskCancelled
  BY <1>26, TaskCancelledKeeps
<1>27. CASE ScaffoldNext
  BY <1>27, ScaffoldNextKeeps
<1>28. CASE NewTurn
  BY <1>28, NewTurnKeeps
<1>29. CASE PublishNext
  BY <1>29, PublishNextKeeps
<1>30. CASE PublishLost
  BY <1>30, PublishLostKeeps
<1>31. CASE Crash
  BY <1>31, BootKeeps DEF Crash
<1>32. CASE Exit
  BY <1>32, BootKeeps DEF Exit
<1> QED BY <1>1, <1>2, <1>3, <1>4, <1>5, <1>6, <1>7, <1>8, <1>9, <1>10, <1>11, <1>12, <1>13, <1>14, <1>15, <1>16, <1>17, <1>18, <1>19, <1>20, <1>21, <1>22, <1>23, <1>24, <1>25, <1>26, <1>27, <1>28, <1>29, <1>30, <1>31, <1>32
       DEF LogNext, WriterStep, TaskStep, AgentStep, FaultStep

(* A step of which the log is no part counts a fault of its own at most. *)
Still == UNCHANGED <<pc, cur, taskVars, said, unflushed, lastSeq, events, live, row, outbox, notices>>

LEMMA StillStutters == UNCHANGED logVars => Still
BY DEF logVars, Still, taskVars

LEMMA LogStutters == LogInv /\ Still => LogInv'
BY DEF Still, taskVars, LogInv, LogTyped, Stages, StartUp, InProgress, InRun, Unended, NoEnd, TextFree,
       NoText, EndSurvives

(* Six steps write the rows. *)
LEMMA RowKept ==
    ASSUME LogNext
    PROVE  \/ StartSnapshot \/ Checkpoint \/ NewTurn \/ ScaffoldNext \/ HandOffFails
           \/ SaveFinal \/ FoldDead \/ UNCHANGED row
<1>1. CASE TaskStep
  BY <1>1 DEF TaskStep, Start, Emit, Flush, FlushAt, SkipCheckpoint, FinalFlush, NoneQueued, HandOff,
              StartNext, Terminal, AlreadyFinal, DeadTerminal, Reconcile, Serve
<1>2. CASE AgentStep
  BY <1>2 DEF AgentStep, Say, Notify, Finish, FailEarly
<1>3. CASE FaultStep
  BY <1>3 DEF FaultStep, DbFails, FinalizeFails, CutShort, Shutdown, TaskCancelled
<1>4. CASE PublishNext \/ PublishLost \/ Crash \/ Exit
  BY <1>4 DEF PublishNext, PublishLost, Crash, Exit, Boot
<1> QED BY <1>1, <1>2, <1>3, <1>4 DEF LogNext, WriterStep

(* A final row is one for good. *)
LEMMA FinalKept ==
    ASSUME LogInv, LogNext, NEW m \in DOMAIN row, Final(m)
    PROVE  m \in DOMAIN row' /\ row'[m].status \in Verdicts
<1> USE DEF LogInv
<1>0. m \in DOMAIN row /\ row[m].status \in Verdicts /\ row[m].status # "in_progress"
  BY DEF Final, Verdicts
<1>1. CASE StartSnapshot \/ Checkpoint
  <2>1. cur \in DOMAIN row
    BY <1>1 DEF StartSnapshot, Checkpoint, Stages
  <2>2. StatusKept
    BY <1>1, <2>1, ColumnsKept DEF StartSnapshot, Checkpoint
  <2> QED BY <1>0, <2>2 DEF StatusKept
<1>2. CASE NewTurn \/ ScaffoldNext
  BY <1>0, <1>2, RowAppend DEF NewTurn, ScaffoldNext, LogTyped
<1>3. CASE HandOffFails
  <2>1. m # Len(row) /\ DOMAIN row' = DOMAIN row /\ \A n \in DOMAIN row \ {Len(row)} : row'[n] = row[n]
    BY <1>0, <1>3, Discarded
  <2> QED BY <1>0, <2>1
<1>4. CASE SaveFinal \/ FoldDead
  <2>1. cur \in DOMAIN row /\ verdict \in Verdicts
    BY <1>4 DEF SaveFinal, FoldDead, Stages, LogTyped
  <2>2. Settled(cur, verdict)
    BY <1>4, <2>1, SaveSettles
  <2>3. DOMAIN row' = DOMAIN row /\ row'[cur].status = verdict
        /\ \A n \in DOMAIN row \ {cur} : row'[n] = row[n]
    BY <2>2 DEF Settled
  <2> QED BY <1>0, <2>1, <2>3
<1>5. CASE UNCHANGED row
  BY <1>0, <1>5
<1> QED BY <1>1, <1>2, <1>3, <1>4, <1>5, RowKept

-----------------------------------------------------------------------------
(* Types.  The numbers a task and the rows hold are natural ones, and a render is a
   list of texts. *)

Columns ==
    /\ row \in Seq(Row) /\ outbox \in Seq(Nat)
    /\ lastSeq \in Nat /\ notices \in Nat /\ faults \in Nat

(* Row m is written, in place of the one there was. *)
LEMMA RowSet ==
    ASSUME row \in Seq(Row), NEW m \in DOMAIN row, NEW r \in Row, row' = [row EXCEPT ![m] = r]
    PROVE  /\ row' \in Seq(Row) /\ Len(row') = Len(row) /\ DOMAIN row' = DOMAIN row
           /\ row'[m] = r /\ \A n \in DOMAIN row \ {m} : row'[n] = row[n]
OBVIOUS

LEMMA RowParts ==
    ASSUME row \in Seq(Row), NEW m \in DOMAIN row
    PROVE  /\ row[m] = [status |-> row[m].status, items |-> row[m].items, seq |-> row[m].seq]
           /\ row[m].status \in Statuses /\ row[m].items \in Seq(Nat) /\ row[m].seq \in Nat
<1>1. row[m] \in Row
  BY ItemType
<1> QED BY <1>1 DEF Row, Statuses

(* A snapshot of a turn under way writes two columns of its row. *)
LEMMA SnapshotWrites ==
    ASSUME row \in Seq(Row), NEW m \in DOMAIN row, NEW items \in Seq(Nat), NEW seq \in Nat,
           row' = [row EXCEPT ![m].items = items, ![m].seq = seq]
    PROVE  /\ row' \in Seq(Row) /\ Len(row') = Len(row) /\ DOMAIN row' = DOMAIN row
           /\ row'[m] = [status |-> row[m].status, items |-> items, seq |-> seq]
           /\ \A n \in DOMAIN row \ {m} : row'[n] = row[n]
<1> DEFINE b == [row[m] EXCEPT !.items = items]
           c == [b EXCEPT !.seq = seq]
           r == [row EXCEPT ![m] = b]
           new == [status |-> row[m].status, items |-> items, seq |-> seq]
<1>1. row[m] = [status |-> row[m].status, items |-> row[m].items, seq |-> row[m].seq]
      /\ row[m].status \in Statuses
  BY RowParts
<1>2. b = [status |-> row[m].status, items |-> items, seq |-> row[m].seq]
  BY <1>1
<1>3. c = new
  <2> HIDE DEF b
  <2> QED BY <1>2
<1>4. row' = [r EXCEPT ![m].seq = seq] /\ r[m] = b
  OBVIOUS
<1>5. row' = [row EXCEPT ![m] = c]
  <2> HIDE DEF b
  <2> QED BY <1>4
<1>6. new \in Row
  BY <1>1 DEF Row, Statuses
<1> HIDE DEF b, c, r, new
<1>7. row' = [row EXCEPT ![m] = new]
  BY <1>3, <1>5
<1>8. /\ row' \in Seq(Row) /\ Len(row') = Len(row) /\ DOMAIN row' = DOMAIN row
      /\ row'[m] = new /\ \A n \in DOMAIN row \ {m} : row'[n] = row[n]
  BY <1>6, <1>7, RowSet
<1> QED BY <1>8 DEF new

LEMMA LargerIsOne == \A a, b \in Nat : Larger(a, b) \in Nat /\ Larger(a, b) >= a /\ Larger(a, b) >= b
BY DEF Larger

LEMMA UpToTypes == \A n \in Nat : UpTo(n) \in Seq(Nat) /\ Len(UpTo(n)) = n
BY DEF UpTo

LEMMA NoteTypes == \A v : NoteOf(v) \in Seq(Nat)
BY DEF NoteOf

(* The texts of message m past s, as the fold reads them from the log. *)
LEMMA TextsListed ==
    ASSUME events \in Seq(Event), live \subseteq DOMAIN events, NEW m, NEW s
    PROVE  /\ TextsAfter(m, s) \in Seq(Nat)
           /\ \A i \in OwnTexts(m) : i > s =>
                \E k \in DOMAIN TextsAfter(m, s) : TextsAfter(m, s)[k] = events[i].val
<1> DEFINE I == {i \in OwnTexts(m) : i > s}
           own == InOrder(I)
<1>1. /\ DOMAIN events = 1..Len(events) /\ Len(events) \in Nat
      /\ \A i \in DOMAIN events : i \in Nat /\ i <= Len(events) /\ events[i] \in Event
  BY ItemType
<1>2. I \in SUBSET Nat /\ \A i \in I : i <= Len(events) /\ events[i].val \in Nat
  BY <1>1 DEF OwnTexts, Event
<1>3. IsFiniteSet(I) /\ I \subseteq Nat
  BY <1>1, <1>2, FS_BoundedSetOfNaturals
<1>4. TextsAfter(m, s) = [k \in DOMAIN own |-> events[own[k]].val]
  BY DEF TextsAfter
<1> HIDE DEF I, own
<1>5. /\ Cardinality(I) \in Nat /\ own \in Seq(I) /\ DOMAIN own = 1..Cardinality(I)
      /\ \A i \in I : \E k \in DOMAIN own : own[k] = i
  BY <1>3, InOrderLists DEF own
<1>6. \A k \in DOMAIN own : events[own[k]].val \in Nat
  <2>1. \A k \in DOMAIN own : own[k] \in I
    BY <1>5, ItemType
  <2> QED BY <1>2, <2>1
<1>7. TextsAfter(m, s) \in Seq(Nat)
  <2> DEFINE n == Cardinality(I)
  <2>1. n \in Nat /\ TextsAfter(m, s) \in [1..n -> Nat]
    BY <1>4, <1>5, <1>6
  <2> HIDE DEF n
  <2> QED BY <2>1, FcnSeq
<1>8. \A i \in I : \E k \in DOMAIN TextsAfter(m, s) : TextsAfter(m, s)[k] = events[i].val
  BY <1>4, <1>5
<1> QED BY <1>7, <1>8 DEF I

(* A finite set of numbers has a largest one. *)
LEMMA LargestExists ==
    ASSUME NEW I, I \subseteq Nat, IsFiniteSet(I), I # {}
    PROVE  \E s \in I : \A i \in I : i <= s
<1> DEFINE q == InOrder(I)
           n == Cardinality(I)
<1>1. /\ n \in Nat /\ q \in Seq(I) /\ DOMAIN q = 1..n
      /\ \A j, k \in DOMAIN q : j < k => q[j] < q[k]
      /\ \A i \in I : \E k \in DOMAIN q : q[k] = i
  BY InOrderLists
<1> HIDE DEF q, n
<1>2. n \in 1..n
  <2>1. PICK i \in I : TRUE
    OBVIOUS
  <2>2. PICK k \in DOMAIN q : q[k] = i
    BY <1>1
  <2> QED BY <1>1, <2>2
<1>3. q[n] \in I
  BY <1>1, <1>2, ItemType
<1>4. \A i \in I : i <= q[n]
  <2> SUFFICES ASSUME NEW i \in I PROVE i <= q[n]
    OBVIOUS
  <2>1. PICK k \in DOMAIN q : q[k] = i
    BY <1>1
  <2>2. k = n \/ k < n
    BY <1>1, <2>1
  <2>3. i \in Nat /\ q[n] \in Nat
    BY <1>3
  <2> QED BY <1>1, <1>2, <2>1, <2>2, <2>3
<1> QED BY <1>3, <1>4

(* The last_seq that a fold writes is that of the message's last event in the log. *)
LastLive(m) ==
    CHOOSE s \in {i \in live : events[i].msg = m} \cup {row[m].seq} :
        \A i \in live : events[i].msg = m => i <= s

LEMMA LastLiveTypes ==
    ASSUME events \in Seq(Event), live \subseteq DOMAIN events, NEW m, row[m].seq \in Nat
    PROVE  /\ LastLive(m) \in Nat /\ (row[m].seq <= Len(events) => LastLive(m) <= Len(events))
           /\ \A i \in live : events[i].msg = m => i <= LastLive(m)
<1> DEFINE I == {i \in live : events[i].msg = m} \cup {row[m].seq}
           Reads(s) == \A i \in live : events[i].msg = m => i <= s
<1>1. DOMAIN events = 1..Len(events) /\ Len(events) \in Nat
  OBVIOUS
<1>2. \A i \in live : i \in Nat /\ i <= Len(events)
  BY <1>1
<1>3. I \in SUBSET Nat /\ \A i \in I : i <= Len(events) + row[m].seq
  <2>1. \A i \in I : i \in Nat /\ i <= Len(events) + row[m].seq
    <3>1. \A i \in live : i \in Nat /\ i <= Len(events) + row[m].seq
      BY <1>1, <1>2
    <3>2. row[m].seq <= Len(events) + row[m].seq
      BY <1>1
    <3> QED BY <3>1, <3>2
  <2> QED BY <2>1
<1>4. IsFiniteSet(I) /\ I \subseteq Nat /\ I # {}
  <2>1. Len(events) + row[m].seq \in Nat
    BY <1>1
  <2> QED BY <1>3, <2>1, FS_BoundedSetOfNaturals
<1>5. \E s \in I : \A i \in I : i <= s
  <2> HIDE DEF I
  <2> QED BY <1>4, LargestExists
<1>6. \E s \in I : Reads(s)
  BY <1>5
<1>7. LastLive(m) \in I /\ Reads(LastLive(m))
  <2>1. LastLive(m) = CHOOSE s \in I : Reads(s)
    BY DEF LastLive
  <2> HIDE DEF I, Reads
  <2> QED BY <1>6, <2>1
<1>8. LastLive(m) = row[m].seq \/ LastLive(m) \in live
  BY <1>7
<1> QED BY <1>2, <1>7, <1>8

LEMMA NewRowTypes ==
    ASSUME row \in Seq(Row), NewRow
    PROVE  /\ row' \in Seq(Row) /\ \A m \in DOMAIN row : row'[m] = row[m]
           /\ row'[Len(row) + 1] = [status |-> "in_progress", items |-> <<>>, seq |-> 0]
<1> DEFINE r == [status |-> "in_progress", items |-> <<>>, seq |-> 0]
<1>1. r \in Row
  BY DEF Row
<1>2. row' = Append(row, r)
  BY DEF NewRow
<1> HIDE DEF r
<1>3. /\ row' \in Seq(Row) /\ \A m \in DOMAIN row : row'[m] = row[m] /\ row'[Len(row) + 1] = r
  BY <1>1, <1>2
<1>4. row'[Len(row) + 1] = r
  BY <1>2
<1> QED BY <1>3, <1>4 DEF r

(* What the steps that write the row of the running turn write in it. *)
LEMMA RowsWritten ==
    ASSUME LogInv, Columns
    PROVE  /\ StartSnapshot =>
                /\ row' \in Seq(Row) /\ Len(row') = Len(row) /\ DOMAIN row' = DOMAIN row
                /\ row'[cur] = [status |-> row[cur].status, items |-> <<>>,
                                seq |-> Larger(row[cur].seq, lastSeq)]
                /\ \A m \in DOMAIN row \ {cur} : row'[m] = row[m]
           /\ Checkpoint =>
                /\ row' \in Seq(Row) /\ Len(row') = Len(row) /\ DOMAIN row' = DOMAIN row
                /\ row'[cur] = [status |-> row[cur].status, items |-> UpTo(said[cur]),
                                seq |-> Larger(row[cur].seq, lastSeq)]
                /\ \A m \in DOMAIN row \ {cur} : row'[m] = row[m]
           /\ SaveFinal =>
                /\ row' \in Seq(Row) /\ Len(row') = Len(row) /\ DOMAIN row' = DOMAIN row
                /\ row'[cur] = [status |-> verdict, items |-> UpTo(said[cur]) \o NoteOf(verdict),
                                seq |-> Larger(row[cur].seq, lastSeq)]
                /\ \A m \in DOMAIN row \ {cur} : row'[m] = row[m]
           /\ FoldDead =>
                /\ row' \in Seq(Row) /\ Len(row') = Len(row) /\ DOMAIN row' = DOMAIN row
                /\ row'[cur] = [status |-> verdict, items |-> Folded(cur) \o NoteOf(verdict),
                                seq |-> LastLive(cur)]
                /\ \A m \in DOMAIN row \ {cur} : row'[m] = row[m]
           /\ HandOffFails =>
                /\ row' \in Seq(Row) /\ Len(row') = Len(row) /\ DOMAIN row' = DOMAIN row
                /\ row'[Len(row)].seq = row[Len(row)].seq
<1>0. row \in Seq(Row) /\ lastSeq \in Nat /\ verdict \in Verdicts
  BY DEF Columns, LogInv, LogTyped
<1>1. pc \notin {"idle", "reconciling"} =>
        cur \in DOMAIN row /\ said[cur] \in Nat /\ row[cur].seq \in Nat /\ row[cur].items \in Seq(Nat)
        /\ Larger(row[cur].seq, lastSeq) \in Nat
  BY <1>0, RowIndex, RowParts, LargerIsOne DEF LogInv, Stages
<1>2. UpTo(said[cur]) \in Seq(Nat) \/ pc \in {"idle", "reconciling"}
  BY <1>1, UpToTypes
<1>3. CASE StartSnapshot
  <2>1. /\ cur \in DOMAIN row /\ <<>> \in Seq(Nat) /\ Larger(row[cur].seq, lastSeq) \in Nat
        /\ row' = [row EXCEPT ![cur].items = <<>>, ![cur].seq = Larger(row[cur].seq, lastSeq)]
        /\ ~Checkpoint /\ ~SaveFinal /\ ~FoldDead /\ ~HandOffFails
    BY <1>1, <1>3 DEF StartSnapshot, Checkpoint, SaveFinal, FoldDead, HandOffFails
  <2> QED BY <1>0, <2>1, SnapshotWrites
<1>4. CASE Checkpoint
  <2>1. /\ cur \in DOMAIN row /\ UpTo(said[cur]) \in Seq(Nat) /\ Larger(row[cur].seq, lastSeq) \in Nat
        /\ row' = [row EXCEPT ![cur].items = UpTo(said[cur]), ![cur].seq = Larger(row[cur].seq, lastSeq)]
        /\ ~StartSnapshot /\ ~SaveFinal /\ ~FoldDead /\ ~HandOffFails
    BY <1>1, <1>2, <1>4 DEF StartSnapshot, Checkpoint, SaveFinal, FoldDead, HandOffFails
  <2> QED BY <1>0, <2>1, SnapshotWrites
<1>5. CASE SaveFinal
  <2> DEFINE items == UpTo(said[cur]) \o NoteOf(verdict)
             seq == Larger(row[cur].seq, lastSeq)
             new == [status |-> verdict, items |-> items, seq |-> seq]
  <2>1. /\ cur \in DOMAIN row /\ UpTo(said[cur]) \in Seq(Nat) /\ NoteOf(verdict) \in Seq(Nat)
        /\ seq \in Nat /\ row' = [row EXCEPT ![cur] = new]
        /\ ~StartSnapshot /\ ~Checkpoint /\ ~FoldDead /\ ~HandOffFails
    BY <1>1, <1>2, <1>5, NoteTypes DEF StartSnapshot, Checkpoint, SaveFinal, FoldDead, HandOffFails
  <2>2. items \in Seq(Nat)
    BY <2>1
  <2> HIDE DEF items, seq
  <2>3. new \in Row
    BY <1>0, <2>1, <2>2 DEF Row
  <2> HIDE DEF new
  <2>4. /\ row' \in Seq(Row) /\ Len(row') = Len(row) /\ DOMAIN row' = DOMAIN row
        /\ row'[cur] = new /\ \A n \in DOMAIN row \ {cur} : row'[n] = row[n]
    BY <1>0, <2>1, <2>3, RowSet
  <2> QED BY <2>1, <2>4 DEF new, items, seq
<1>6. CASE FoldDead
  <2> DEFINE items == Folded(cur) \o NoteOf(verdict)
             new == [status |-> verdict, items |-> items, seq |-> LastLive(cur)]
  <2>1. /\ cur \in DOMAIN row /\ NoteOf(verdict) \in Seq(Nat) /\ row' = [row EXCEPT ![cur] = new]
        /\ row[cur].seq \in Nat /\ row[cur].items \in Seq(Nat)
        /\ ~StartSnapshot /\ ~Checkpoint /\ ~SaveFinal /\ ~HandOffFails
    BY <1>1, <1>6, NoteTypes DEF StartSnapshot, Checkpoint, SaveFinal, FoldDead, HandOffFails, LastLive
  <2>2. events \in Seq(Event) /\ live \subseteq DOMAIN events
    BY DEF LogInv, LogTyped
  <2>3. TextsAfter(cur, row[cur].seq) \in Seq(Nat) /\ LastLive(cur) \in Nat
    BY <2>1, <2>2, TextsListed, LastLiveTypes
  <2>4. items \in Seq(Nat)
    BY <2>1, <2>3 DEF Folded
  <2> HIDE DEF items
  <2>5. new \in Row
    BY <1>0, <2>3, <2>4 DEF Row
  <2> HIDE DEF new
  <2>6. /\ row' \in Seq(Row) /\ Len(row') = Len(row) /\ DOMAIN row' = DOMAIN row
        /\ row'[cur] = new /\ \A n \in DOMAIN row \ {cur} : row'[n] = row[n]
    BY <1>0, <2>1, <2>5, RowSet
  <2> QED BY <2>1, <2>6 DEF new, items
<1>7. CASE HandOffFails
  <2> DEFINE m == Len(row)
             r == row[m]
             new == [status |-> "deleted", items |-> r.items, seq |-> r.seq]
  <2>1. m \in DOMAIN row /\ row' = [row EXCEPT ![m].status = "deleted"]
        /\ ~StartSnapshot /\ ~Checkpoint /\ ~SaveFinal /\ ~FoldDead
    BY <1>7, Discarded DEF StartSnapshot, Checkpoint, SaveFinal, FoldDead, HandOffFails
  <2>2. row[m] = [status |-> r.status, items |-> r.items, seq |-> r.seq]
        /\ r.items \in Seq(Nat) /\ r.seq \in Nat
    BY <1>0, <2>1, RowParts
  <2>3. [row[m] EXCEPT !.status = "deleted"] = new /\ new \in Row
    BY <2>2 DEF Row
  <2>4. row' = [row EXCEPT ![m] = new]
    BY <2>1, <2>3
  <2> HIDE DEF new, r
  <2>5. /\ row' \in Seq(Row) /\ Len(row') = Len(row) /\ DOMAIN row' = DOMAIN row
        /\ row'[m] = new
    BY <1>0, <2>1, <2>3, <2>4, RowSet
  <2> QED BY <2>1, <2>5 DEF new, r
<1> QED BY <1>3, <1>4, <1>5, <1>6, <1>7

LEMMA ColumnsStep ==
    ASSUME LogInv, LogInv', Columns, LogNext PROVE Columns'
<1> USE DEF Columns
<1>0. /\ events \in Seq(Event) /\ Len(events) \in Nat /\ unflushed \in Nat
      /\ Len(events) + 1 \in Nat /\ Len(events) + unflushed \in Nat
  BY DEF LogInv, LogTyped
<1>1. \A n \in Nat : [k \in 1..n |-> Len(events) + k] \in Seq(Nat)
  <2> SUFFICES ASSUME NEW n \in Nat PROVE [k \in 1..n |-> Len(events) + k] \in Seq(Nat)
    OBVIOUS
  <2> DEFINE f == [k \in 1..n |-> Len(events) + k]
  <2>1. f \in [1..n -> Nat]
    BY <1>0
  <2> HIDE DEF f
  <2>2. f \in Seq(Nat)
    BY <2>1, FcnSeq
  <2> QED BY <2>2 DEF f
<1>2. Publish(1) => outbox' \in Seq(Nat)
  <2>1. 1 \in Nat /\ (Publish(1) => outbox' = [k \in 1..1 |-> Len(events) + k])
    BY DEF Publish
  <2> QED BY <1>1, <2>1
<1>3. Publish(unflushed) => outbox' \in Seq(Nat)
  <2>1. Publish(unflushed) => outbox' = [k \in 1..unflushed |-> Len(events) + k]
    BY DEF Publish
  <2> QED BY <1>0, <1>1, <2>1
<1>4. ~Free => Tail(outbox) \in Seq(Nat)
  BY DEF Free
<1>5. row' \in Seq(Row)
  <2>1. CASE NewTurn \/ ScaffoldNext
    BY <2>1, NewRowTypes DEF NewTurn, ScaffoldNext
  <2>2. CASE StartSnapshot \/ Checkpoint \/ SaveFinal \/ FoldDead \/ HandOffFails
    BY <2>2, RowsWritten
  <2> QED BY <2>1, <2>2, RowKept
<1>6. CASE TaskStep
  <2>1. lastSeq' \in Nat /\ notices' \in Nat /\ faults' \in Nat
    BY <1>0, <1>6 DEF TaskStep, Start, StartSnapshot, Flush, FlushAt, Checkpoint, SkipCheckpoint,
        FinalFlush, SaveFinal, NoneQueued, HandOff, StartNext, Terminal, FoldDead, AlreadyFinal,
        DeadTerminal, Reconcile, Serve, Emit
  <2>2. outbox' \in Seq(Nat)
    BY <1>2, <1>3, <1>6 DEF TaskStep, Start, StartSnapshot, Flush, FlushAt, Checkpoint, SkipCheckpoint,
        FinalFlush, SaveFinal, NoneQueued, HandOff, StartNext, Terminal, FoldDead, AlreadyFinal,
        DeadTerminal, Reconcile, Serve, Emit
  <2> QED BY <1>5, <2>1, <2>2
<1>7. CASE AgentStep
  <2>1. lastSeq' \in Nat /\ notices' \in Nat /\ faults' \in Nat
    BY <1>0, <1>7 DEF AgentStep, Say, Notify, Finish, FailEarly, Emit
  <2>2. outbox' \in Seq(Nat)
    BY <1>2, <1>7 DEF AgentStep, Say, Notify, Finish, FailEarly, Emit
  <2> QED BY <1>5, <2>1, <2>2
<1>8. CASE FaultStep
  <2>1. lastSeq' \in Nat /\ notices' \in Nat /\ faults' \in Nat
    BY <1>8 DEF FaultStep, DbFails, HandOffFails, FinalizeFails, CutShort, Shutdown, TaskCancelled, Fault
  <2>2. outbox' = outbox \/ outbox' = <<>>
    BY <1>8 DEF FaultStep, DbFails, HandOffFails, FinalizeFails, CutShort, Shutdown, TaskCancelled
  <2>3. outbox' \in Seq(Nat)
    <3>1. <<>> \in Seq(Nat) /\ outbox \in Seq(Nat)
      OBVIOUS
    <3> QED BY <2>2, <3>1, Zenon
  <2> QED BY <1>5, <2>1, <2>3
<1>9. CASE NewTurn \/ ScaffoldNext
  BY <1>5, <1>9 DEF NewTurn, ScaffoldNext
<1>10. CASE PublishNext \/ PublishLost
  <2>1. lastSeq' \in Nat /\ notices' \in Nat /\ faults' \in Nat
    BY <1>10 DEF PublishNext, PublishLost, Fault
  <2>2. outbox' \in Seq(Nat)
    BY <1>4, <1>10 DEF PublishNext, PublishLost
  <2> QED BY <1>5, <2>1, <2>2
<1>11. CASE Crash \/ Exit
  <2>1. lastSeq' \in Nat /\ notices' \in Nat /\ faults' \in Nat /\ outbox' = <<>>
    BY <1>11 DEF Crash, Exit, Boot, Fault
  <2>2. outbox' \in Seq(Nat)
    BY <2>1
  <2> QED BY <1>5, <2>1, <2>2
<1> QED BY <1>6, <1>7, <1>8, <1>9, <1>10, <1>11 DEF LogNext, WriterStep

LEMMA TypesFollow == LogInv /\ Columns => TypeOK
BY DEF LogInv, LogTyped, StartUp, InProgress, Columns, TypeOK

-----------------------------------------------------------------------------
(* What the log tells of the texts.  A turn's texts are logged as the agent said them,
   in order and without a hole; only a batch that a late cancel left in the buffer is
   told again. *)

Ordered(m, n) ==
    /\ \A i \in Texts(m) : events[i].val \in 1..n
    /\ \A k \in 1..n : \E i \in Texts(m) : events[i].val = k
    /\ \A i, j \in Texts(m) : i < j => events[i].val < events[j].val
Repeats(m) == \E i, j \in Texts(m) : i # j /\ events[i].val = events[j].val

(* The numbers that a task and the rows remember are those of events, and what is
   logged was said. *)
Numbered ==
    /\ lastSeq <= Len(events) /\ \A m \in DOMAIN row : row[m].seq <= Len(events)
    /\ pc = "flushed" => unflushed = 0 /\ \A i \in Texts(cur) : i <= lastSeq
    /\ \A m \in DOMAIN row : \A i \in Texts(m) : events[i].val \in 1..said[m]

(* A turn that has not begun to stream has said nothing. *)
Untold(m) == Texts(m) = {} /\ said[m] = 0
Silence ==
    /\ pc \in {"booting", "starting"} => Untold(cur) /\ unflushed = 0
    /\ pc \in {"handing", "handed"} => Untold(Len(row))

(* The row of a turn under way holds its first c texts, and its last_seq tells which
   events these came from. *)
HoldsFirst(m, c) ==
    /\ c <= said[m] /\ row[m].items = UpTo(c)
    /\ \A i \in Texts(m) : i \in live /\ (i <= row[m].seq => events[i].val <= c)

(* The log goes on from there, to what the buffer still holds or, where a late cancel
   kept a batch in the buffer that it had committed, past it. *)
Whole(m, c) ==
    \E n \in c..said[m] :
        /\ Ordered(m, n) /\ \A i \in Texts(m) : events[i].val <= c => i <= row[m].seq
        /\ m = cur /\ pc \in InRun =>
             \/ n = said[m] - unflushed
             \/ n = said[m] /\ "cutShort" \in Faulty /\ pc = "finishing"
Early == {"booting", "starting", "streaming", "flushed"}
Again(m) == Repeats(m) /\ "cutShort" \in Faulty /\ (m = cur => pc \notin Early)

ToldBy(m) == \E c \in Nat : HoldsFirst(m, c) /\ (Whole(m, c) \/ Again(m))
Told == \A m \in InProgress : ToldBy(m)

(* The row of a finished turn holds them all. *)
HoldsAll(m) ==
    /\ \A i \in Texts(m) : \E k \in DOMAIN row[m].items : row[m].items[k] = events[i].val
    /\ Repeats(m) \/ \E n \in Nat : TextOf(row[m].items) = UpTo(n)
AllHeld == \A m \in DOMAIN row : Final(m) => HoldsAll(m)

TextInv == Numbered /\ Silence /\ Told /\ AllHeld

(* Counting on from c gives the numbers past it. *)
LEMMA UpToGoesOn ==
    ASSUME NEW c \in Nat, NEW n \in Nat, c <= n
    PROVE  UpTo(c) \o [k \in 1..(n - c) |-> c + k] = UpTo(n)
<1> DEFINE s == [k \in 1..(n - c) |-> c + k]
<1>1. n - c \in Nat
  OBVIOUS
<1>2. s \in Seq(Nat) /\ Len(s) = n - c /\ \A k \in 1..(n - c) : s[k] = c + k
  <2>1. s \in [1..(n - c) -> Nat] /\ \A k \in 1..(n - c) : s[k] = c + k
    BY <1>1
  <2>2. Len(s) = n - c
    BY <1>1
  <2> DEFINE d == n - c
  <2>3. d \in Nat /\ s \in [1..d -> Nat]
    BY <1>1, <2>1
  <2> HIDE DEF s, d
  <2>4. s \in Seq(Nat)
    BY <2>3, FcnSeq
  <2> QED BY <2>1, <2>2, <2>4
<1>3. UpTo(c) \in Seq(Nat) /\ Len(UpTo(c)) = c /\ \A k \in 1..c : UpTo(c)[k] = k
  BY UpToTypes DEF UpTo
<1> HIDE DEF s
<1>4. /\ Len(UpTo(c) \o s) = n /\ UpTo(c) \o s \in Seq(Nat)
      /\ \A k \in 1..n : (UpTo(c) \o s)[k] = IF k <= c THEN UpTo(c)[k] ELSE s[k - c]
  BY <1>1, <1>2, <1>3
<1>5. \A k \in 1..n : (UpTo(c) \o s)[k] = k
  <2> SUFFICES ASSUME NEW k \in 1..n PROVE (UpTo(c) \o s)[k] = k
    OBVIOUS
  <2>1. CASE k <= c
    BY <1>3, <1>4, <2>1
  <2>2. CASE ~(k <= c)
    <3>1. k - c \in 1..(n - c)
      BY <2>2
    <3>2. s[k - c] = c + (k - c)
      BY <1>2, <3>1
    <3> QED BY <1>4, <2>2, <3>2
  <2> QED BY <2>1, <2>2
<1> DEFINE all == UpTo(c) \o s
<1>6. all \in Seq(Nat) /\ Len(all) = n /\ \A k \in 1..n : all[k] = k
  BY <1>4, <1>5
<1> HIDE DEF all
<1>7. all = [k \in 1..n |-> k]
  BY <1>6
<1> QED BY <1>7 DEF all, s, UpTo

(* A list of texts is its own text, with or without the note of a failure. *)
LEMMA TextOfUpTo ==
    ASSUME NEW n \in Nat, NEW v PROVE TextOf(UpTo(n) \o NoteOf(v)) = UpTo(n)
<1> DEFINE s == UpTo(n) \o NoteOf(v)
           I == {k \in DOMAIN s : s[k] # 0}
<1>1. UpTo(n) \in Seq(Nat) /\ Len(UpTo(n)) = n /\ \A k \in 1..n : UpTo(n)[k] = k
  BY UpToTypes DEF UpTo
<1>2. NoteOf(v) \in Seq(Nat) /\ (NoteOf(v) = <<>> \/ NoteOf(v) = <<0>>)
  BY DEF NoteOf
<1>3. /\ s \in Seq(Nat) /\ \A k \in 1..n : k \in DOMAIN s /\ s[k] = k
      /\ \A k \in DOMAIN s : k \in 1..n \/ s[k] = 0
  <2>1. CASE NoteOf(v) = <<>>
    <3>1. s = UpTo(n)
      BY <1>1, <2>1
    <3> QED BY <1>1, <3>1
  <2>2. CASE NoteOf(v) = <<0>>
    <3>1. /\ s \in Seq(Nat) /\ Len(s) = n + 1 /\ s[n + 1] = 0
          /\ \A k \in 1..n : s[k] = UpTo(n)[k]
      BY <1>1, <2>2
    <3> HIDE DEF s
    <3> QED BY <1>1, <3>1
  <2> QED BY <1>2, <2>1, <2>2
<1> HIDE DEF s
<1>4. I = 1..n
  <2>1. \A k \in 1..n : s[k] # 0
    BY <1>3
  <2> QED BY <1>3, <2>1
<1> HIDE DEF I
<1>5. Cardinality(I) = n /\ InOrder(I) = UpTo(n)
  <2> DEFINE q == UpTo(n)
  <2>1. q \in [1..n -> I]
    BY <1>4 DEF UpTo
  <2>2. I \subseteq Nat
    BY <1>4
  <2>3. \A k \in 1..n : q[k] = k
    BY DEF UpTo
  <2>4. /\ \A j, k \in 1..n : j < k => q[j] < q[k]
        /\ \A i \in I : \E k \in 1..n : q[k] = i
    BY <1>4, <2>3
  <2> HIDE DEF q
  <2>5. Cardinality(I) = n /\ InOrder(I) = q
    BY <2>1, <2>2, <2>4, OnlyInOrder
  <2> QED BY <2>5 DEF q
<1>6. Picked(s, I) = [k \in 1..n |-> s[UpTo(n)[k]]]
  BY <1>5 DEF Picked
<1>7. Picked(s, I) = UpTo(n)
  <2>1. \A k \in 1..n : s[UpTo(n)[k]] = k
    BY <1>1, <1>3
  <2> QED BY <1>6, <2>1 DEF UpTo
<1>8. TextOf(s) = Picked(s, I)
  BY DEF TextOf, I
<1> QED BY <1>7, <1>8 DEF s

(* An ordered log past the row's last_seq is what the row does not hold yet. *)
LEMMA LogGoesOn ==
    ASSUME events \in Seq(Event), live \subseteq DOMAIN events,
           NEW m, NEW c \in Nat, NEW n \in Nat, c <= n, row[m].seq \in Nat,
           HoldsFirst(m, c), Ordered(m, n), \A i \in Texts(m) : events[i].val <= c => i <= row[m].seq
    PROVE  TextsAfter(m, row[m].seq) = [k \in 1..(n - c) |-> c + k]
<1> DEFINE T == Texts(m)
           val(i) == events[i].val
           s == row[m].seq
           I == {i \in OwnTexts(m) : i > s}
           d == n - c
           q == [k \in 1..d |-> CHOOSE i \in T : val(i) = c + k]
<1>0. d \in Nat /\ s \in Nat
  OBVIOUS
<1>1. T \subseteq Nat /\ \A i \in T : i \in Nat /\ val(i) \in 1..n /\ i \in live
  <2>1. \A i \in DOMAIN events : i \in Nat
    OBVIOUS
  <2> QED BY <2>1 DEF Texts, Ordered, HoldsFirst
<1>2. \A k \in 1..n : \E i \in T : val(i) = k
  BY DEF Ordered
<1>3. \A i, j \in T : i < j => val(i) < val(j)
  BY DEF Ordered
<1>4. \A i \in T : i > s <=> val(i) > c
  <2>1. \A i \in T : (i <= s => val(i) <= c) /\ (val(i) <= c => i <= s)
    BY DEF HoldsFirst
  <2>2. \A i \in T : i \in Nat /\ val(i) \in Nat
    BY <1>1
  <2> HIDE DEF T, s, val
  <2> QED BY <1>0, <2>1, <2>2
<1>5. I = {i \in T : val(i) > c}
  <2>1. OwnTexts(m) = T
    BY <1>1 DEF OwnTexts, Texts
  <2> HIDE DEF T, s, val
  <2> QED BY <1>4, <2>1
<1>6. \A k \in 1..d : q[k] \in I /\ val(q[k]) = c + k
  <2> SUFFICES ASSUME NEW k \in 1..d PROVE q[k] \in I /\ val(q[k]) = c + k
    OBVIOUS
  <2>1. c + k \in 1..n /\ c + k > c
    BY <1>0
  <2>2. \E i \in T : val(i) = c + k
    BY <1>2, <2>1
  <2>3. q[k] \in T /\ val(q[k]) = c + k
    <3> HIDE DEF T, val
    <3> QED BY <2>2
  <2> QED BY <1>5, <2>1, <2>3
<1> HIDE DEF T, val, s, I, q
<1>7. \A j, k \in 1..d : j < k => q[j] < q[k]
  <2> SUFFICES ASSUME NEW j \in 1..d, NEW k \in 1..d, j < k PROVE q[j] < q[k]
    OBVIOUS
  <2>1. /\ q[j] \in T /\ q[k] \in T /\ val(q[j]) = c + j /\ val(q[k]) = c + k
        /\ q[j] \in Nat /\ q[k] \in Nat
    BY <1>1, <1>5, <1>6
  <2>2. val(q[j]) < val(q[k])
    BY <1>0, <2>1 DEF d
  <2>3. ~(q[k] < q[j])
    BY <1>1, <1>3, <2>1, <2>2
  <2>4. q[k] # q[j]
    BY <2>1, <2>2
  <2> QED BY <2>1, <2>3, <2>4
<1>8. \A i \in I : \E k \in 1..d : q[k] = i
  <2> SUFFICES ASSUME NEW i \in I PROVE \E k \in 1..d : q[k] = i
    OBVIOUS
  <2>1. i \in T /\ i \in Nat /\ val(i) \in 1..n /\ val(i) > c
    BY <1>1, <1>5
  <2> DEFINE k == val(i) - c
  <2>2. k \in 1..d /\ c + k = val(i)
    BY <2>1 DEF d
  <2> HIDE DEF k
  <2>3. q[k] \in T /\ val(q[k]) = val(i) /\ q[k] \in Nat
    BY <1>1, <1>5, <1>6, <2>2
  <2>4. ~(q[k] < i) /\ ~(i < q[k])
    BY <1>1, <1>3, <2>1, <2>3
  <2>5. q[k] = i
    BY <2>1, <2>3, <2>4
  <2> QED BY <2>2, <2>5
<1>9. I \subseteq Nat /\ q \in [1..d -> I]
  <2>1. I \subseteq Nat
    BY <1>1, <1>5
  <2> QED BY <1>6, <2>1 DEF q
<1> HIDE DEF d
<1>10. Cardinality(I) = d /\ InOrder(I) = q
  BY <1>0, <1>7, <1>8, <1>9, OnlyInOrder
<1>11. TextsAfter(m, s) = [k \in DOMAIN q |-> events[q[k]].val]
  BY <1>10 DEF TextsAfter, I, s
<1>12. TextsAfter(m, s) = [k \in 1..d |-> c + k]
  <2>1. DOMAIN q = 1..d /\ \A k \in 1..d : events[q[k]].val = c + k
    BY <1>6, <1>9 DEF val
  <2> QED BY <1>11, <2>1
<1> QED BY <1>12 DEF s, d

LEMMA EventTypes ==
    ASSUME LogInv
    PROVE  /\ events \in Seq(Event) /\ live \subseteq DOMAIN events
           /\ Len(events) \in Nat /\ DOMAIN events = 1..Len(events)
           /\ \A i \in DOMAIN events : /\ i \in Nat /\ i <= Len(events)
                                       /\ events[i].msg \in DOMAIN row /\ events[i].val \in Nat
<1>1. events \in Seq(Event) /\ live \subseteq DOMAIN events
      /\ \A i \in DOMAIN events : events[i].msg \in DOMAIN row
  BY DEF LogInv, LogTyped
<1>2. \A i \in DOMAIN events : events[i] \in Event
  BY <1>1, ItemType
<1> QED BY <1>1, <1>2 DEF Event

(* A log in order tells no text twice. *)
LEMMA OrderedOnce ==
    ASSUME LogInv, NEW m, NEW n \in Nat, Ordered(m, n) PROVE ~Repeats(m)
<1>1. \A i \in Texts(m) : i \in Nat /\ events[i].val \in Nat
  BY EventTypes DEF Texts
<1>2. \A i, j \in Texts(m) : i < j => events[i].val < events[j].val
  BY DEF Ordered
<1>3. ASSUME NEW i \in Texts(m), NEW j \in Texts(m), i # j PROVE events[i].val # events[j].val
  <2>1. i < j \/ j < i
    BY <1>1, <1>3
  <2> QED BY <1>1, <1>2, <2>1
<1> QED BY <1>3 DEF Repeats

LEMMA CompleteWhole ==
    ASSUME LogInv, Columns, TextInv, NEW m \in InProgress, NEW c \in Nat, HoldsFirst(m, c), Whole(m, c)
    PROVE  IF Doubled(m) THEN "cutShort" \in Faulty ELSE
           LET all == row[m].items \o TextsAfter(m, row[m].seq) \o Buffered(m)
           IN  /\ all = UpTo(Len(all))
               /\ m = cur /\ pc \in InRun => Len(all) = said[m]
<1>0. /\ m \in DOMAIN row /\ said[m] \in Nat /\ row[m].seq \in Nat /\ unflushed \in Nat
      /\ events \in Seq(Event) /\ live \subseteq DOMAIN events
  BY RowIndex, RowParts DEF InProgress, LogInv, LogTyped, Columns
<1>1. PICK n \in c..said[m] :
        /\ Ordered(m, n) /\ \A i \in Texts(m) : events[i].val <= c => i <= row[m].seq
        /\ m = cur /\ pc \in InRun =>
             \/ n = said[m] - unflushed
             \/ n = said[m] /\ "cutShort" \in Faulty /\ pc = "finishing"
  BY DEF Whole
<1>2. n \in Nat /\ c <= n /\ n <= said[m]
  BY <1>0, <1>1
<1>3. row[m].items = UpTo(c)
  BY DEF HoldsFirst
<1>4. TextsAfter(m, row[m].seq) = [k \in 1..(n - c) |-> c + k]
  <2>1. Ordered(m, n) /\ \A i \in Texts(m) : events[i].val <= c => i <= row[m].seq
    BY <1>1
  <2>2. n \in Nat /\ c <= n /\ row[m].seq \in Nat /\ HoldsFirst(m, c)
    BY <1>0, <1>2
  <2>3. events \in Seq(Event) /\ live \subseteq DOMAIN events
    BY <1>0
  <2> QED BY <2>1, <2>2, <2>3, LogGoesOn
<1>5. row[m].items \o TextsAfter(m, row[m].seq) = UpTo(n)
  BY <1>2, <1>3, <1>4, UpToGoesOn
<1>6. ~Repeats(m) /\ \A i \in Texts(m) : events[i].val \in 1..n
  BY <1>1, <1>2, OrderedOnce DEF Ordered
<1>7. UpTo(n) \in Seq(Nat) /\ Len(UpTo(n)) = n
  BY <1>2, UpToTypes
<1>8. CASE ~(m = cur /\ pc \in InRun)
  <2>1. Buffered(m) = <<>>
    BY <1>8 DEF Buffered
  <2>2. ~Doubled(m)
    BY <1>6, <2>1 DEF Doubled, Repeats
  <2>3. UpTo(n) \o <<>> = UpTo(n)
    BY <1>7
  <2> QED BY <1>5, <1>7, <1>8, <2>1, <2>2, <2>3
<1>9. CASE m = cur /\ pc \in InRun /\ n = said[m] - unflushed
  <2>1. Buffered(m) = [k \in 1..(said[m] - n) |-> n + k]
    <3>1. said[m] - n = unflushed /\ said[m] - unflushed = n
      BY <1>0, <1>9
    <3> QED BY <1>9, <3>1 DEF Buffered
  <2>2. UpTo(n) \o Buffered(m) = UpTo(said[m])
    BY <1>0, <1>2, <2>1, UpToGoesOn
  <2>3. ~Doubled(m)
    <3>1. \A k \in DOMAIN Buffered(m) : Buffered(m)[k] > n
      BY <1>0, <1>2, <2>1
    <3>2. \A i \in Texts(m) : ~(events[i].val > n)
      BY <1>2, <1>6
    <3>3. \A i \in Texts(m) : \A k \in DOMAIN Buffered(m) : Buffered(m)[k] # events[i].val
      BY <3>1, <3>2
    <3> QED BY <1>6, <3>3 DEF Doubled, Repeats
  <2>4. Len(UpTo(said[m])) = said[m]
    BY <1>0, UpToTypes
  <2> QED BY <1>5, <2>2, <2>3, <2>4
<1>10. CASE /\ m = cur /\ pc \in InRun /\ n # said[m] - unflushed
            /\ n = said[m] /\ "cutShort" \in Faulty
  <2>1. unflushed > 0 /\ unflushed <= said[m] /\ n \in 1..n
    BY <1>0, <1>10 DEF LogInv, Stages
  <2>2. PICK i \in Texts(m) : events[i].val = n
    BY <1>1, <2>1 DEF Ordered
  <2>3. unflushed \in DOMAIN Buffered(m) /\ Buffered(m)[unflushed] = n
    <3>1. Buffered(m) = [k \in 1..unflushed |-> said[m] - unflushed + k] /\ unflushed \in 1..unflushed
      BY <1>0, <1>10, <2>1 DEF Buffered
    <3>2. said[m] - unflushed + unflushed = n
      BY <1>0, <1>10
    <3> QED BY <3>1, <3>2
  <2>4. Doubled(m)
    BY <2>2, <2>3 DEF Doubled
  <2> QED BY <1>10, <2>4
<1> QED BY <1>1, <1>8, <1>9, <1>10

LEMMA TextsFollow ==
    ASSUME LogInv, Columns, TextInv PROVE TextsKept
<1>1. LogCompletes
  <2> SUFFICES ASSUME NEW m \in InProgress
      PROVE  IF Doubled(m) THEN "cutShort" \in Faulty ELSE
             LET all == row[m].items \o TextsAfter(m, row[m].seq) \o Buffered(m)
             IN  /\ all = UpTo(Len(all))
                 /\ m = cur /\ pc \in InRun => Len(all) = said[m]
    BY DEF LogCompletes
  <2>1. PICK c \in Nat : HoldsFirst(m, c) /\ (Whole(m, c) \/ Again(m))
    BY DEF TextInv, Told, ToldBy
  <2>2. CASE Whole(m, c)
    BY <2>1, <2>2, CompleteWhole
  <2>3. CASE Again(m)
    <3>1. Doubled(m)
      BY <2>3 DEF Again, Repeats, Doubled
    <3> QED BY <2>3, <3>1 DEF Again
  <2> QED BY <2>1, <2>2, <2>3
<1>2. FinalKeepsCommitted
  <2> SUFFICES ASSUME NEW m \in DOMAIN row, Final(m)
      PROVE  LET text == TextOf(row[m].items)
             IN  /\ \A i \in Texts(m) : \E k \in DOMAIN text : text[k] = events[i].val
                 /\ ~Doubled(m) => text = UpTo(Len(text))
    BY DEF FinalKeepsCommitted
  <2> DEFINE items == row[m].items
             text == TextOf(items)
             I == {k \in DOMAIN items : items[k] # 0}
  <2>1. HoldsAll(m)
    BY DEF TextInv, AllHeld
  <2>2. items \in Seq(Nat)
    BY RowParts DEF Columns
  <2>3. \A i \in Texts(m) : \E k \in DOMAIN text : text[k] = events[i].val
    <3> SUFFICES ASSUME NEW i \in Texts(m) PROVE \E k \in DOMAIN text : text[k] = events[i].val
      OBVIOUS
    <3>1. events[i].val # 0
      <4>1. events[i].msg = m /\ i \in Texts(m) /\ said[m] \in Nat
        BY RowIndex DEF LogInv, Texts
      <4>2. events[i].val \in 1..said[m]
        BY <4>1 DEF TextInv, Numbered
      <4> QED BY <4>1, <4>2
    <3>2. PICK k \in DOMAIN items : items[k] = events[i].val
      BY <2>1 DEF HoldsAll
    <3>3. k \in I /\ I \subseteq DOMAIN items
      BY <3>1, <3>2
    <3>4. text = Picked(items, I)
      BY DEF TextOf
    <3> HIDE DEF items, text, I
    <3>5. /\ DOMAIN Picked(items, I) = 1..Cardinality(I)
          /\ \E j \in 1..Cardinality(I) : InOrder(I)[j] = k /\ Picked(items, I)[j] = items[k]
      BY <2>2, <3>3, PickedLists
    <3> QED BY <3>2, <3>4, <3>5
  <2>4. ASSUME ~Doubled(m) PROVE text = UpTo(Len(text))
    <3>1. ~Repeats(m)
      BY <2>4 DEF Repeats, Doubled
    <3>2. PICK n \in Nat : text = UpTo(n)
      BY <2>1, <3>1 DEF HoldsAll
    <3> QED BY <3>2, UpToTypes
  <2> QED BY <2>3, <2>4
<1> QED BY <1>1, <1>2 DEF TextsKept

-----------------------------------------------------------------------------
(* Steps that log no text *)

SameTexts(m) ==
    Texts(m)' = Texts(m) /\ \A i \in Texts(m) : events'[i] = events[i] /\ (i \in live => i \in live')

(* A task that has something to do with the texts of message m goes on with them as they
   are, or m has none. *)
Stays(m) ==
    /\ m = cur' /\ pc' \in InRun =>
         \/ /\ m = cur /\ pc \in InRun /\ unflushed' = unflushed
            /\ pc = "finishing" => pc' = "finishing"
         \/ Untold(m) /\ unflushed' = 0
    /\ m = cur' /\ pc' \in Early => Untold(m) \/ (m = cur /\ pc \in Early)

LEMMA StillTold ==
    ASSUME NEW m, said[m] \in Nat, ToldBy(m), SameTexts(m), row'[m] = row[m], said'[m] = said[m], Stays(m)
    PROVE  ToldBy(m)'
<1>1. PICK c \in Nat : HoldsFirst(m, c) /\ (Whole(m, c) \/ Again(m))
  BY DEF ToldBy
<1>2. Texts(m)' = Texts(m) /\ \A i \in Texts(m) : events'[i] = events[i] /\ (i \in live => i \in live')
  BY DEF SameTexts
<1>3. HoldsFirst(m, c)'
  BY <1>1, <1>2 DEF HoldsFirst
<1>4. CASE Whole(m, c)
  <2>1. PICK n \in c..said[m] :
          /\ Ordered(m, n) /\ \A i \in Texts(m) : events[i].val <= c => i <= row[m].seq
          /\ m = cur /\ pc \in InRun =>
               \/ n = said[m] - unflushed
               \/ n = said[m] /\ "cutShort" \in Faulty /\ pc = "finishing"
    BY <1>4 DEF Whole
  <2>2. Ordered(m, n)' /\ \A i \in Texts(m)' : events'[i].val <= c => i <= row'[m].seq
    BY <1>2, <2>1 DEF Ordered
  <2>3. ASSUME m = cur' /\ pc' \in InRun
        PROVE  \/ n = said'[m] - unflushed'
               \/ n = said'[m] /\ "cutShort" \in Faulty /\ pc' = "finishing"
    <3>1. CASE /\ m = cur /\ pc \in InRun /\ unflushed' = unflushed
               /\ pc = "finishing" => pc' = "finishing"
      BY <2>1, <3>1
    <3>2. CASE Untold(m) /\ unflushed' = 0
      <4>1. said'[m] = 0 /\ n = 0
        BY <2>1, <3>2 DEF Untold
      <4> QED BY <3>2, <4>1
    <3> QED BY <2>3, <3>1, <3>2 DEF Stays
  <2>4. Whole(m, c)'
    <3>1. n \in c..said'[m]
      BY <2>1
    <3> QED BY <2>2, <2>3, <3>1 DEF Whole
  <2> QED BY <1>1, <1>3, <2>4 DEF ToldBy
<1>5. CASE Again(m)
  <2>1. Repeats(m)' /\ "cutShort" \in Faulty
    BY <1>2, <1>5 DEF Again, Repeats
  <2>2. ~Untold(m) /\ (m = cur => pc \notin Early)
    BY <1>5 DEF Again, Repeats, Untold
  <2>3. Again(m)'
    BY <2>1, <2>2 DEF Again, Stays
  <2> QED BY <1>1, <1>3, <2>3 DEF ToldBy
<1> QED BY <1>1, <1>4, <1>5

LEMMA StillHeld ==
    ASSUME NEW m, HoldsAll(m), Texts(m)' = Texts(m), \A i \in Texts(m) : events'[i] = events[i],
           row'[m] = row[m]
    PROVE  HoldsAll(m)'
BY DEF HoldsAll, Repeats

LEMMA UntoldKept ==
    ASSUME NEW m, Untold(m), Texts(m)' = Texts(m), said'[m] = said[m] PROVE Untold(m)'
BY DEF Untold

(* No text is logged, and nothing leaves the log. *)
NoNewText ==
    /\ Len(events) <= Len(events') /\ live \subseteq live'
    /\ \A i \in DOMAIN events : i \in DOMAIN events' /\ events'[i] = events[i]
    /\ \A i \in DOMAIN events' \ DOMAIN events : events'[i].kind # "text"

(* The task goes on from where it was, or the next one begins. *)
GoesOn ==
    pc' \in InRun \cup {"booting"} =>
        \/ /\ cur' = cur /\ pc \in InRun \cup {"booting"} /\ unflushed' = unflushed
           /\ pc = "finishing" => pc' = "finishing"
           /\ pc' \in Early => pc \in Early
           /\ pc' \in {"booting", "starting"} => pc \in {"booting", "starting"}
           /\ pc' \in {"handing", "handed"} => pc \in {"handing", "handed"}
           /\ pc' = "flushed" => pc = "flushed" /\ lastSeq' = lastSeq
        \/ pc = "handed" /\ pc' = "booting" /\ cur' = Len(row) /\ unflushed' = 0

LEMMA NoNewTextSame ==
    ASSUME LogInv, NoNewText PROVE \A m : SameTexts(m)
<1> SUFFICES ASSUME NEW m PROVE SameTexts(m)
  OBVIOUS
<1>1. Texts(m)' = Texts(m)
  BY DEF NoNewText, Texts
<1> QED BY <1>1 DEF SameTexts, NoNewText, Texts

LEMMA GoingOnStays ==
    ASSUME TextInv, GoesOn, NEW m PROVE Stays(m)
<1>1. ASSUME m = cur', pc' \in InRun
      PROVE  \/ /\ m = cur /\ pc \in InRun /\ unflushed' = unflushed
                /\ pc = "finishing" => pc' = "finishing"
             \/ Untold(m) /\ unflushed' = 0
  BY <1>1 DEF GoesOn, TextInv, Silence, InRun
<1>2. ASSUME m = cur', pc' \in Early PROVE Untold(m) \/ (m = cur /\ pc \in Early)
  <2>1. pc' \in InRun \cup {"booting"}
    BY <1>2 DEF Early, InRun
  <2> QED BY <1>2, <2>1 DEF GoesOn, TextInv, Silence
<1> QED BY <1>1, <1>2 DEF Stays

LEMMA CalmStep ==
    ASSUME LogInv, LogInv', Columns, TextInv, NoNewText, UNCHANGED <<row, said>>,
           lastSeq' <= Len(events'), GoesOn
    PROVE  TextInv'
<1>1. \A m : Texts(m)' = Texts(m) /\ \A i \in Texts(m) : events'[i] = events[i]
  BY NoNewTextSame DEF SameTexts
<1>2. Numbered'
  <2>1. \A m \in DOMAIN row' : row'[m].seq <= Len(events')
    <3> SUFFICES ASSUME NEW m \in DOMAIN row PROVE row[m].seq <= Len(events')
      OBVIOUS
    <3>1. row[m].seq \in Nat /\ Len(events) \in Nat /\ Len(events') \in Nat
      BY RowParts, EventTypes DEF Columns, LogInv, LogTyped
    <3> QED BY <3>1 DEF NoNewText, TextInv, Numbered
  <2>2. pc' = "flushed" => unflushed' = 0 /\ \A i \in Texts(cur)' : i <= lastSeq'
    <3> SUFFICES ASSUME pc' = "flushed" PROVE unflushed' = 0 /\ \A i \in Texts(cur)' : i <= lastSeq'
      OBVIOUS
    <3>1. pc = "flushed" /\ lastSeq' = lastSeq /\ cur' = cur /\ unflushed' = unflushed
      BY DEF GoesOn, InRun
    <3>2. Texts(cur)' = Texts(cur)
      BY <3>1 DEF NoNewText, Texts
    <3> QED BY <3>1, <3>2 DEF TextInv, Numbered
  <2>3. \A m \in DOMAIN row' : \A i \in Texts(m)' : events'[i].val \in 1..said'[m]
    BY <1>1 DEF TextInv, Numbered
  <2> QED BY <2>1, <2>2, <2>3 DEF Numbered
<1>3. Silence'
  <2>1. ASSUME pc' \in {"booting", "starting"} PROVE Untold(cur)' /\ unflushed' = 0
    <3>1. PICK m : m = cur'
      OBVIOUS
    <3>2. Untold(m) /\ unflushed' = 0
      BY <2>1, <3>1 DEF GoesOn, InRun, TextInv, Silence
    <3>3. Texts(m)' = {} /\ said'[m] = 0
      BY <1>1, <3>2 DEF Untold
    <3>4. Texts(cur)' = {}
      BY <3>1, <3>3 DEF Texts
    <3> QED BY <3>1, <3>2, <3>3, <3>4 DEF Untold
  <2>2. ASSUME pc' \in {"handing", "handed"} PROVE Untold(Len(row))'
    <3>1. PICK m : m = Len(row)
      OBVIOUS
    <3>2. Untold(m)
      BY <2>2, <3>1 DEF GoesOn, InRun, TextInv, Silence
    <3>3. Texts(m)' = {} /\ said'[m] = 0
      BY <1>1, <3>2 DEF Untold
    <3>4. Texts(Len(row))' = {}
      BY <3>1, <3>3 DEF Texts
    <3> QED BY <3>1, <3>3, <3>4 DEF Untold
  <2> QED BY <2>1, <2>2 DEF Silence
<1>4. Told'
  <2> SUFFICES ASSUME NEW m \in InProgress' PROVE ToldBy(m)'
    BY DEF Told
  <2>1. m \in DOMAIN row /\ ToldBy(m) /\ row'[m] = row[m] /\ said'[m] = said[m] /\ said[m] \in Nat
    BY RowIndex DEF InProgress, TextInv, Told, LogInv
  <2>2. SameTexts(m) /\ Stays(m)
    BY NoNewTextSame, GoingOnStays
  <2> QED BY <2>1, <2>2, StillTold
<1>5. AllHeld'
  <2> SUFFICES ASSUME NEW m \in DOMAIN row', Final(m)' PROVE HoldsAll(m)'
    BY DEF AllHeld
  <2>1. HoldsAll(m) /\ row'[m] = row[m]
    BY DEF TextInv, AllHeld, Final
  <2> QED BY <1>1, <2>1, StillHeld
<1> QED BY <1>2, <1>3, <1>4, <1>5 DEF TextInv

(* One event more, and no text. *)
LEMMA OneMore ==
    ASSUME LogInv, NEW m \in Nat, NEW val \in Nat, NEW kind \in {"start", "notice"} \cup EndKinds,
           Commit(<<[msg |-> m, kind |-> kind, val |-> val]>>)
    PROVE  NoNewText /\ Len(events') = Len(events) + 1
<1>1. Grows(m, {kind}) /\ Len(events') = Len(events) + 1
  BY OneGrows, EventTypes
<1>2. kind # "text"
  BY DEF EndKinds
<1>3. Len(events) <= Len(events')
  BY <1>1, EventTypes
<1> QED BY <1>1, <1>2, <1>3 DEF Grows, NoNewText

LEMMA NoneMore ==
    ASSUME LogInv, UNCHANGED <<events, live>> PROVE NoNewText
BY EventTypes DEF NoNewText

LEMMA CalmActions ==
    ASSUME LogInv, LogInv', Columns, TextInv,
           \/ Start \/ SkipCheckpoint \/ NoneQueued \/ HandOff \/ StartNext \/ Terminal
           \/ AlreadyFinal \/ DeadTerminal \/ Reconcile \/ Serve \/ Notify \/ FailEarly
           \/ (\E v \in Verdicts : Finish(v)) \/ DbFails \/ FinalizeFails \/ Shutdown
           \/ TaskCancelled \/ PublishNext \/ PublishLost \/ Crash \/ Exit
           \/ CutShort /\ ~(pc = "streaming" /\ unflushed > 0 /\ Commit(Batch))
    PROVE  TextInv'
<1>0. /\ Len(events) \in Nat /\ lastSeq \in Nat /\ lastSeq <= Len(events) /\ cur \in Nat
      /\ Len(row) \in Nat /\ events \in Seq(Event)
  BY RowIndex, EventTypes DEF Columns, TextInv, Numbered, LogInv, LogTyped
<1>1. CASE Start \/ Notify \/ HandOff \/ Terminal \/ DeadTerminal
  <2>1. NoNewText /\ Len(events') = Len(events) + 1
    <3>1. PICK kind \in {"start", "notice"} \cup EndKinds, val \in Nat :
             Commit(<<[msg |-> cur, kind |-> kind, val |-> val]>>)
      <4>1. EndOf(verdict) \in {"complete", "cancelled", "error"}
        BY DEF EndOf
      <4> QED BY <1>0, <1>1, <4>1 DEF Start, Notify, HandOff, Terminal, DeadTerminal, Emit, One, EndKinds
    <3> QED BY <1>0, <3>1, OneMore
  <2>2. UNCHANGED <<row, said>> /\ lastSeq' \in {lastSeq, Len(events) + 1}
    BY <1>1 DEF Start, Notify, HandOff, Terminal, DeadTerminal, Emit
  <2>3. lastSeq' <= Len(events')
    BY <1>0, <2>1, <2>2
  <2>4. GoesOn
    BY <1>1 DEF GoesOn, InRun, Early, AfterDead, Start, Notify, HandOff, Terminal, DeadTerminal
  <2> QED BY <2>1, <2>2, <2>3, <2>4, CalmStep
<1>2. CASE SkipCheckpoint \/ NoneQueued \/ StartNext \/ AlreadyFinal \/ Reconcile \/ Serve
           \/ FailEarly \/ (\E v \in Verdicts : Finish(v)) \/ DbFails \/ FinalizeFails \/ Shutdown
           \/ TaskCancelled \/ PublishNext \/ PublishLost \/ Crash \/ Exit
  <2>1. /\ UNCHANGED <<events, live, row, said>> /\ lastSeq' \in {0, lastSeq}
    BY <1>2 DEF SkipCheckpoint, NoneQueued, StartNext, AlreadyFinal, Reconcile, Serve, FailEarly, Finish,
        DbFails, FinalizeFails, Shutdown, TaskCancelled, PublishNext, PublishLost, Crash, Exit, Boot
  <2>2. lastSeq' <= Len(events')
    BY <1>0, <2>1
  <2>3. GoesOn
    BY <1>2 DEF GoesOn, InRun, Early, AfterDead, SkipCheckpoint, NoneQueued, StartNext, AlreadyFinal,
        Reconcile, Serve, FailEarly, Finish, DbFails, FinalizeFails, Shutdown, TaskCancelled, PublishNext,
        PublishLost, Crash, Exit, Boot, taskVars
  <2>4. NoNewText
    BY <2>1, NoneMore
  <2> QED BY <2>1, <2>2, <2>3, <2>4, CalmStep
<1>3. CASE CutShort /\ ~(pc = "streaming" /\ unflushed > 0 /\ Commit(Batch))
  <2>1. NoNewText
    <3>1. CASE UNCHANGED <<events, live>>
      BY <3>1, NoneMore
    <3>2. CASE Commit(One(cur, "notice"))
      BY <1>0, <3>2, OneMore DEF One
    <3> QED BY <1>3, <3>1, <3>2 DEF CutShort
  <2>2. UNCHANGED <<row, said>> /\ lastSeq' = lastSeq
    BY <1>3 DEF CutShort
  <2>3. lastSeq' <= Len(events')
    <3>1. Len(events') \in Nat
      BY DEF LogInv, LogTyped
    <3> QED BY <1>0, <2>1, <2>2, <3>1 DEF NoNewText
  <2>4. GoesOn
    BY <1>3 DEF GoesOn, InRun, Early, CutShort
  <2> QED BY <2>1, <2>2, <2>3, <2>4, CalmStep
<1> QED BY <1>1, <1>2, <1>3

-----------------------------------------------------------------------------
(* Steps that write a row *)

LEMMA UntoldIsTold ==
    ASSUME NEW m, Untold(m)', row'[m].items = <<>>, m = cur' /\ pc' \in InRun => unflushed' = 0
    PROVE  ToldBy(m)'
<1>1. Texts(m)' = {} /\ said'[m] = 0
  BY DEF Untold
<1>2. UpTo(0) = <<>>
  BY DEF UpTo
<1>3. HoldsFirst(m, 0)'
  BY <1>1, <1>2 DEF HoldsFirst
<1>4. Ordered(m, 0)'
  BY <1>1 DEF Ordered
<1>5. Whole(m, 0)'
  <2>1. 0 \in 0..said'[m] /\ (m = cur' /\ pc' \in InRun => 0 = said'[m] - unflushed')
    BY <1>1
  <2> QED BY <1>1, <1>4, <2>1 DEF Whole
<1> QED BY <1>3, <1>5 DEF ToldBy

(* A step that leaves every turn but the task's own as it was. *)
LEMMA OneTurn ==
    ASSUME LogInv, TextInv, NEW c, c = cur, c = cur', DOMAIN row' = DOMAIN row,
           \A m \in DOMAIN row \ {c} : row'[m] = row[m] /\ said'[m] = said[m] /\ SameTexts(m),
           c \in InProgress' => ToldBy(c)',
           (c \in DOMAIN row /\ Final(c)') => HoldsAll(c)'
    PROVE  Told' /\ AllHeld'
<1>1. ASSUME NEW m \in InProgress', m # c PROVE ToldBy(m)'
  <2>1. /\ m \in DOMAIN row \ {c} /\ row'[m] = row[m] /\ said'[m] = said[m] /\ SameTexts(m)
        /\ said[m] \in Nat
    BY <1>1, RowIndex DEF InProgress, LogInv
  <2>2. ToldBy(m)
    BY <1>1, <2>1 DEF InProgress, TextInv, Told
  <2>3. Stays(m)
    BY <1>1 DEF Stays
  <2> QED BY <2>1, <2>2, <2>3, StillTold
<1>2. ASSUME NEW m \in DOMAIN row', m # c, Final(m)' PROVE HoldsAll(m)'
  <2>1. m \in DOMAIN row \ {c} /\ row'[m] = row[m] /\ SameTexts(m)
    BY <1>2
  <2>2. HoldsAll(m)
    BY <1>2, <2>1 DEF Final, TextInv, AllHeld
  <2> QED BY <2>1, <2>2, StillHeld DEF SameTexts
<1> QED BY <1>1, <1>2 DEF Told, AllHeld

LEMMA SameLogSame ==
    ASSUME UNCHANGED <<events, live>> PROVE \A m : SameTexts(m)
BY DEF SameTexts, Texts

LEMMA NewRowTold ==
    ASSUME LogInv, LogInv', Columns, TextInv, NewTurn \/ ScaffoldNext PROVE TextInv'
<1>0. PICK x : x = Len(row) + 1
  OBVIOUS
<1>1. /\ UNCHANGED <<events, live>> /\ lastSeq' \in {0, lastSeq} /\ unflushed' = 0
      /\ \/ pc' = "booting" /\ cur' = x
         \/ pc = "saved" /\ pc' = "handing" /\ cur' = cur /\ unflushed' = unflushed
  BY <1>0 DEF NewTurn, ScaffoldNext, taskVars, LogInv, Stages
<1>2. /\ Len(row') = Len(row) + 1 /\ Len(row) \in Nat
      /\ DOMAIN row = 1..Len(row) /\ DOMAIN row' = DOMAIN row \cup {x}
      /\ \A n \in DOMAIN row : row'[n] = row[n] /\ said'[n] = said[n]
      /\ said'[x] = 0
  BY <1>0, RowAppend DEF NewTurn, ScaffoldNext, LogInv, LogTyped
<1>3. row'[x] = [status |-> "in_progress", items |-> <<>>, seq |-> 0]
  BY <1>0, NewRowTypes DEF NewTurn, ScaffoldNext, Columns
<1>4. \A m : SameTexts(m) /\ Texts(m)' = Texts(m)
  BY <1>1, SameLogSame DEF SameTexts
<1>5. x \notin DOMAIN row
  BY <1>0, <1>2
<1>6. Untold(x)'
  <2>1. Texts(x)' = {}
    BY <1>1, <1>5, EventTypes DEF Texts
  <2> QED BY <1>2, <2>1 DEF Untold
<1>7. Numbered'
  <2>1. lastSeq' <= Len(events') /\ \A m \in DOMAIN row' : row'[m].seq <= Len(events')
    BY <1>1, <1>2, <1>3, EventTypes DEF TextInv, Numbered
  <2>2. pc' # "flushed"
    BY <1>1
  <2>3. \A m \in DOMAIN row' : \A i \in Texts(m)' : events'[i].val \in 1..said'[m]
    BY <1>1, <1>2, <1>4, <1>6 DEF TextInv, Numbered, Untold
  <2> QED BY <2>1, <2>2, <2>3 DEF Numbered
<1>8. Silence'
  <2>1. Untold(Len(row))' /\ (cur' = x => Untold(cur)')
    <3>1. Len(row') = x
      BY <1>0, <1>2
    <3> QED BY <1>6, <3>1 DEF Untold, Texts
  <2> QED BY <1>1, <2>1 DEF Silence
<1>9. Told'
  <2> SUFFICES ASSUME NEW m \in InProgress' PROVE ToldBy(m)'
    BY DEF Told
  <2>1. CASE m = x
    <3>1. x = cur' /\ pc' \in InRun => unflushed' = 0
      BY <1>1
    <3> QED BY <1>3, <1>6, <2>1, <3>1, UntoldIsTold
  <2>2. CASE m # x
    <3>1. m \in DOMAIN row /\ row'[m] = row[m] /\ said'[m] = said[m] /\ said[m] \in Nat
      BY <1>2, <2>2, RowIndex DEF InProgress, LogInv
    <3>2. ToldBy(m)
      BY <3>1 DEF InProgress, TextInv, Told
    <3>3. Stays(m)
      BY <1>1, <2>2 DEF Stays, InRun, Early
    <3> QED BY <1>4, <3>1, <3>2, <3>3, StillTold
  <2> QED BY <2>1, <2>2
<1>10. AllHeld'
  <2> SUFFICES ASSUME NEW m \in DOMAIN row', Final(m)' PROVE HoldsAll(m)'
    BY DEF AllHeld
  <2>1. m # x
    BY <1>3 DEF Final, Verdicts
  <2>2. m \in DOMAIN row /\ row'[m] = row[m]
    BY <1>2, <2>1
  <2>3. HoldsAll(m)
    BY <2>2 DEF Final, TextInv, AllHeld
  <2> QED BY <1>4, <2>2, <2>3, StillHeld DEF SameTexts
<1> QED BY <1>7, <1>8, <1>9, <1>10 DEF TextInv

(* The two snapshots of a running turn. *)
LEMMA SnapshotTold ==
    ASSUME LogInv, LogInv', Columns, TextInv, StartSnapshot \/ Checkpoint PROVE TextInv'
<1>1. /\ UNCHANGED <<events, live, said, lastSeq, unflushed>> /\ cur' = cur /\ pc' = "streaming"
      /\ pc \in {"starting", "flushed"} /\ (pc = "starting" <=> StartSnapshot)
  BY DEF StartSnapshot, Checkpoint, taskVars
<1>2. PICK c : c = cur /\ c = cur'
  BY <1>1
<1>3. /\ c \in DOMAIN row /\ row[c].status = "in_progress" /\ said[c] \in Nat /\ row[c].seq \in Nat
      /\ lastSeq \in Nat /\ Len(events) \in Nat /\ unflushed = 0
  BY <1>1, <1>2, RowIndex, RowParts, EventTypes DEF LogInv, Stages, Columns, TextInv, Silence, Numbered
<1>4. PICK items : /\ items = IF pc = "starting" THEN <<>> ELSE UpTo(said[c])
                   /\ DOMAIN row' = DOMAIN row
                   /\ row'[c] = [status |-> "in_progress", items |-> items, seq |-> Larger(row[c].seq, lastSeq)]
                   /\ \A m \in DOMAIN row \ {c} : row'[m] = row[m]
  BY <1>1, <1>2, <1>3, RowsWritten
<1>5. /\ Larger(row[c].seq, lastSeq) \in Nat /\ Larger(row[c].seq, lastSeq) >= lastSeq
      /\ Larger(row[c].seq, lastSeq) <= Len(events)
  BY <1>3, LargerIsOne DEF Larger, TextInv, Numbered
<1>6. \A m : SameTexts(m) /\ Texts(m)' = Texts(m)
  BY <1>1, SameLogSame DEF SameTexts
<1>7. Numbered'
  <2>1. \A m \in DOMAIN row' : row'[m].seq <= Len(events')
    BY <1>1, <1>4, <1>5 DEF TextInv, Numbered
  <2>2. \A m \in DOMAIN row' : \A i \in Texts(m)' : events'[i].val \in 1..said'[m]
    BY <1>1, <1>4, <1>6 DEF TextInv, Numbered
  <2> QED BY <1>1, <2>1, <2>2 DEF TextInv, Numbered
<1>8. Silence'
  BY <1>1 DEF Silence
<1>9. ToldBy(c)'
  <2>1. CASE pc = "starting"
    <3>1. Untold(c)' /\ unflushed' = 0
      BY <1>1, <1>2, <1>6, <2>1 DEF TextInv, Silence, Untold
    <3>2. row'[c].items = <<>>
      BY <1>4, <2>1
    <3> QED BY <3>1, <3>2, UntoldIsTold
  <2>2. CASE pc = "flushed"
    <3>0. PICK n : n = said[c]
      OBVIOUS
    <3>1. PICK k \in Nat : HoldsFirst(c, k) /\ (Whole(c, k) \/ Again(c))
      BY <1>2, <1>3 DEF TextInv, Told, ToldBy, InProgress
    <3>2. Whole(c, k)
      BY <1>2, <2>2, <3>1 DEF Again, Early
    <3>3. Ordered(c, n)
      <4>1. PICK l \in k..said[c] :
              /\ Ordered(c, l)
              /\ c = cur /\ pc \in InRun =>
                   \/ l = said[c] - unflushed
                   \/ l = said[c] /\ "cutShort" \in Faulty /\ pc = "finishing"
        BY <3>2 DEF Whole
      <4>2. l = said[c]
        BY <1>2, <1>3, <2>2, <4>1 DEF InRun
      <4> QED BY <3>0, <4>1, <4>2
    <3>4. Ordered(c, n)'
      BY <1>1, <1>6, <3>3 DEF Ordered
    <3>5. \A i \in Texts(c) : i \in live /\ i <= lastSeq /\ events[i].val \in 1..n
      BY <1>2, <2>2, <3>0, <3>1, <3>3 DEF TextInv, Numbered, HoldsFirst, Ordered
    <3>6. \A i \in Texts(c)' : i \in live' /\ i <= row'[c].seq /\ events'[i].val <= n
      <4>1. \A i \in Texts(c) : i \in Nat
        BY EventTypes DEF Texts
      <4> QED BY <1>1, <1>3, <1>4, <1>5, <1>6, <3>0, <3>5, <4>1
    <3>7. HoldsFirst(c, n)'
      <4>1. n <= said'[c] /\ row'[c].items = UpTo(n)
        BY <1>1, <1>3, <1>4, <2>2, <3>0
      <4> QED BY <3>6, <4>1 DEF HoldsFirst
    <3>8. Whole(c, n)'
      <4>1. n \in n..said'[c] /\ n = said'[c] - unflushed'
        BY <1>1, <1>3, <3>0
      <4> QED BY <3>4, <3>6, <4>1 DEF Whole
    <3> QED BY <1>3, <3>0, <3>7, <3>8 DEF ToldBy
  <2> QED BY <1>1, <2>1, <2>2
<1>10. ~Final(c)'
  BY <1>4 DEF Final, Verdicts
<1>11. Told' /\ AllHeld'
  <2>1. \A m \in DOMAIN row \ {c} : row'[m] = row[m] /\ said'[m] = said[m] /\ SameTexts(m)
    BY <1>1, <1>4, <1>6
  <2> QED BY <1>2, <1>4, <1>9, <1>10, <2>1, OneTurn
<1> QED BY <1>7, <1>8, <1>11 DEF TextInv

(* A row that its turn's scaffold is discarded with holds and owes nothing. *)
LEMMA DiscardTold ==
    ASSUME LogInv, LogInv', Columns, TextInv, HandOffFails PROVE TextInv'
<1>1. /\ UNCHANGED <<events, live, said, lastSeq, unflushed>> /\ cur' = cur
      /\ pc = "handing" /\ pc' = "ending"
  BY DEF HandOffFails, taskVars
<1>2. /\ DOMAIN row' = DOMAIN row /\ row'[Len(row)].status = "deleted"
      /\ \A m \in DOMAIN row \ {Len(row)} : row'[m] = row[m]
      /\ row'[Len(row)].seq = row[Len(row)].seq
  BY Discarded, RowsWritten
<1>3. \A m : SameTexts(m) /\ Texts(m)' = Texts(m)
  BY <1>1, SameLogSame DEF SameTexts
<1>4. Numbered'
  <2>1. \A m \in DOMAIN row' : row'[m].seq <= Len(events')
    BY <1>1, <1>2 DEF TextInv, Numbered
  <2>2. \A m \in DOMAIN row' : \A i \in Texts(m)' : events'[i].val \in 1..said'[m]
    BY <1>1, <1>2, <1>3 DEF TextInv, Numbered
  <2> QED BY <1>1, <2>1, <2>2 DEF TextInv, Numbered
<1>5. Silence'
  BY <1>1 DEF Silence
<1>6. Told'
  <2> SUFFICES ASSUME NEW m \in InProgress' PROVE ToldBy(m)'
    BY DEF Told
  <2>1. m \in DOMAIN row /\ row'[m] = row[m] /\ said'[m] = said[m] /\ said[m] \in Nat
    BY <1>1, <1>2, RowIndex DEF InProgress, LogInv
  <2>2. ToldBy(m)
    BY <2>1 DEF InProgress, TextInv, Told
  <2>3. Stays(m)
    BY <1>1 DEF Stays, InRun, Early
  <2> QED BY <1>3, <2>1, <2>2, <2>3, StillTold
<1>7. AllHeld'
  <2> SUFFICES ASSUME NEW m \in DOMAIN row', Final(m)' PROVE HoldsAll(m)'
    BY DEF AllHeld
  <2>1. m \in DOMAIN row /\ row'[m] = row[m]
    BY <1>2 DEF Final, Verdicts
  <2>2. HoldsAll(m)
    BY <2>1 DEF Final, TextInv, AllHeld
  <2> QED BY <1>3, <2>1, <2>2, StillHeld DEF SameTexts
<1> QED BY <1>4, <1>5, <1>6, <1>7 DEF TextInv

-----------------------------------------------------------------------------
(* Steps that say or log a text *)

LEMMA SayTold ==
    ASSUME LogInv, LogInv', Columns, TextInv, Say PROVE TextInv'
<1>1. /\ UNCHANGED <<pc, cur, events, live, row, lastSeq>> /\ pc = "streaming"
      /\ unflushed' = unflushed + 1
  BY DEF Say, taskVars
<1>2. PICK c : c = cur /\ c = cur'
  BY <1>1
<1>3. /\ c \in DOMAIN row /\ row[c].status = "in_progress" /\ said[c] \in Nat /\ unflushed \in Nat
      /\ said'[c] = said[c] + 1 /\ \A m \in DOMAIN row \ {c} : said'[m] = said[m]
  BY <1>1, <1>2, RowIndex DEF LogInv, Stages, LogTyped, Say
<1>4. \A m : SameTexts(m) /\ Texts(m)' = Texts(m)
  BY <1>1, SameLogSame DEF SameTexts
<1>5. Numbered'
  <2>1. \A m \in DOMAIN row' : \A i \in Texts(m)' : events'[i].val \in 1..said'[m]
    <3> SUFFICES ASSUME NEW m \in DOMAIN row, NEW i \in Texts(m) PROVE events[i].val \in 1..said'[m]
      BY <1>1, <1>4
    <3>1. events[i].val \in 1..said[m]
      BY DEF TextInv, Numbered
    <3>2. m = c \/ said'[m] = said[m]
      BY <1>3
    <3> QED BY <1>3, <3>1, <3>2
  <2> QED BY <1>1, <2>1 DEF TextInv, Numbered
<1>6. Silence'
  BY <1>1 DEF Silence
<1>7. ToldBy(c)'
  <2>1. PICK k \in Nat : HoldsFirst(c, k) /\ (Whole(c, k) \/ Again(c))
    BY <1>2, <1>3 DEF TextInv, Told, ToldBy, InProgress
  <2>2. Whole(c, k)
    BY <1>1, <1>2, <2>1 DEF Again, Early
  <2>3. PICK n \in k..said[c] :
          /\ Ordered(c, n) /\ \A i \in Texts(c) : events[i].val <= k => i <= row[c].seq
          /\ n = said[c] - unflushed
    BY <1>1, <1>2, <2>2 DEF Whole, InRun
  <2>4. HoldsFirst(c, k)'
    BY <1>1, <1>3, <1>4, <2>1 DEF HoldsFirst
  <2>5. Ordered(c, n)' /\ \A i \in Texts(c)' : events'[i].val <= k => i <= row'[c].seq
    BY <1>1, <1>4, <2>3 DEF Ordered
  <2>6. n \in k..said'[c] /\ n = said'[c] - unflushed'
    BY <1>1, <1>3, <2>3
  <2>7. Whole(c, k)'
    BY <2>5, <2>6 DEF Whole
  <2> QED BY <2>4, <2>7 DEF ToldBy
<1>8. ~Final(c)'
  BY <1>1, <1>3 DEF Final, Verdicts
<1>9. Told' /\ AllHeld'
  <2>1. \A m \in DOMAIN row \ {c} : row'[m] = row[m] /\ said'[m] = said[m] /\ SameTexts(m)
    BY <1>1, <1>3, <1>4
  <2> QED BY <1>1, <1>2, <1>7, <1>8, <2>1, OneTurn
<1> QED BY <1>5, <1>6, <1>9 DEF TextInv

(* The buffer is logged: its events follow all others, in the order they were said. *)
LEMMA BatchLogged ==
    ASSUME LogInv, Commit(Batch), NEW c, c = cur, said[c] \in Nat, unflushed <= said[c]
    PROVE  /\ Len(events') = Len(events) + unflushed /\ \A m : m # c => SameTexts(m)
           /\ \A i \in Texts(c) : i \in Texts(c)' /\ events'[i] = events[i] /\ (i \in live => i \in live')
           /\ \A i \in Texts(c)' : i \in Texts(c) \/ \E k \in 1..unflushed : i = Len(events) + k
           /\ \A k \in 1..unflushed : /\ Len(events) + k \in Texts(c)' /\ Len(events) + k \in live'
                                      /\ events'[Len(events) + k].val = said[c] - unflushed + k
<1>1. /\ events \in Seq(Event) /\ Len(events) \in Nat /\ DOMAIN events = 1..Len(events)
      /\ unflushed \in Nat /\ c \in Nat
  BY EventTypes DEF LogInv, LogTyped
<1> DEFINE b(k) == [msg |-> c, kind |-> "text", val |-> said[c] - unflushed + k]
<1>2. Batch = [k \in 1..unflushed |-> b(k)]
  BY DEF Batch
<1>3. \A k \in 1..unflushed : b(k) \in Event /\ b(k).msg = c /\ b(k).kind = "text"
                              /\ b(k).val = said[c] - unflushed + k
  BY <1>1 DEF Event
<1> HIDE DEF b
<1>4. Batch \in Seq(Event) /\ Len(Batch) = unflushed
  <2>1. Batch \in [1..unflushed -> Event]
    BY <1>2, <1>3
  <2>2. Len(Batch) = unflushed
    BY <1>1, <1>2
  <2> QED BY <1>1, <2>1, <2>2, FcnSeq
<1>5. events' = events \o Batch /\ live' = live \cup (Len(events) + 1 .. Len(events) + unflushed)
  BY <1>4 DEF Commit
<1>6. /\ Len(events') = Len(events) + unflushed /\ DOMAIN events' = 1..(Len(events) + unflushed)
      /\ \A i \in DOMAIN events : i \in DOMAIN events' /\ events'[i] = events[i]
      /\ \A k \in 1..unflushed : Len(events) + k \in DOMAIN events' /\ events'[Len(events) + k] = Batch[k]
  <2>1. Len(events') = Len(events) + unflushed /\ DOMAIN events' = 1..(Len(events) + unflushed)
    BY <1>1, <1>4, <1>5
  <2>2. \A i \in 1..(Len(events) + unflushed) :
          events'[i] = IF i <= Len(events) THEN events[i] ELSE Batch[i - Len(events)]
    BY <1>1, <1>4, <1>5
  <2>3. \A i \in DOMAIN events : i \in DOMAIN events' /\ events'[i] = events[i]
    BY <1>1, <2>1, <2>2
  <2>4. ASSUME NEW k \in 1..unflushed
        PROVE  Len(events) + k \in DOMAIN events' /\ events'[Len(events) + k] = Batch[k]
    <3>1. /\ Len(events) + k \in 1..(Len(events) + unflushed) /\ ~(Len(events) + k <= Len(events))
          /\ Len(events) + k - Len(events) = k
      BY <1>1
    <3> QED BY <2>1, <2>2, <3>1
  <2> QED BY <2>1, <2>3, <2>4
<1>7. \A k \in 1..unflushed : events'[Len(events) + k] = b(k)
  BY <1>2, <1>6
<1>8. \A i \in DOMAIN events' : i \in DOMAIN events \/ \E k \in 1..unflushed : i = Len(events) + k
  <2> SUFFICES ASSUME NEW i \in DOMAIN events', i \notin DOMAIN events
      PROVE  \E k \in 1..unflushed : i = Len(events) + k
    OBVIOUS
  <2>1. i - Len(events) \in 1..unflushed /\ i = Len(events) + (i - Len(events))
    BY <1>1, <1>6
  <2> QED BY <2>1
<1>9. \A k \in 1..unflushed : Len(events) + k \in live'
  BY <1>1, <1>5
<1>10. \A m : m # c => Texts(m)' = Texts(m)
  BY <1>3, <1>6, <1>7, <1>8 DEF Texts
<1>11. \A m : m # c => SameTexts(m)
  BY <1>5, <1>6, <1>10 DEF SameTexts, Texts
<1>12. \A i \in Texts(c) : i \in Texts(c)' /\ events'[i] = events[i] /\ (i \in live => i \in live')
  BY <1>5, <1>6 DEF Texts
<1>13. \A i \in Texts(c)' : i \in Texts(c) \/ \E k \in 1..unflushed : i = Len(events) + k
  BY <1>6, <1>8 DEF Texts
<1>14. \A k \in 1..unflushed : /\ Len(events) + k \in Texts(c)'
                               /\ events'[Len(events) + k].val = said[c] - unflushed + k
  BY <1>3, <1>6, <1>7 DEF Texts
<1> QED BY <1>6, <1>9, <1>11, <1>12, <1>13, <1>14

(* A log in order up to the buffer is in order up to what was said, once that is logged. *)
LEMMA BatchOrders ==
    ASSUME LogInv, Commit(Batch), NEW c, c = cur, said[c] \in Nat, unflushed <= said[c],
           Ordered(c, said[c] - unflushed), NEW n, n = said[c]
    PROVE  Ordered(c, n)'
<1> DEFINE u == unflushed
           l == Len(events)
           v(i) == events'[i].val
<1>1. l \in Nat /\ u \in Nat /\ \A i \in Texts(c) : i \in Nat /\ i <= l
  BY EventTypes DEF LogInv, LogTyped, Texts
<1>2. /\ \A i \in Texts(c) : i \in Texts(c)' /\ events'[i] = events[i]
      /\ \A i \in Texts(c)' : i \in Texts(c) \/ \E k \in 1..u : i = l + k
      /\ \A k \in 1..u : l + k \in Texts(c)' /\ v(l + k) = n - u + k
  BY BatchLogged
<1>3. /\ \A i \in Texts(c) : v(i) \in 1..(n - u)
      /\ \A k \in 1..(n - u) : \E i \in Texts(c) : v(i) = k
      /\ \A i, j \in Texts(c) : i < j => v(i) < v(j)
  BY <1>2 DEF Ordered
<1>4. n \in Nat /\ u <= n
  OBVIOUS
<1> HIDE DEF u, l, v
<1>5. \A i \in Texts(c)' : v(i) \in 1..n
  <2> SUFFICES ASSUME NEW i \in Texts(c)' PROVE v(i) \in 1..n
    OBVIOUS
  <2>1. CASE i \in Texts(c)
    BY <1>1, <1>3, <1>4, <2>1
  <2>2. CASE \E k \in 1..u : i = l + k
    BY <1>1, <1>2, <1>4, <2>2
  <2> QED BY <1>2, <2>1, <2>2
<1>6. \A k \in 1..n : \E i \in Texts(c)' : v(i) = k
  <2> SUFFICES ASSUME NEW k \in 1..n PROVE \E i \in Texts(c)' : v(i) = k
    OBVIOUS
  <2>1. CASE k <= n - u
    <3>1. k \in 1..(n - u)
      BY <1>1, <1>4, <2>1
    <3> QED BY <1>2, <1>3, <3>1
  <2>2. CASE ~(k <= n - u)
    <3>1. PICK j \in 1..u : n - u + j = k
      <4>1. k - (n - u) \in 1..u /\ n - u + (k - (n - u)) = k
        BY <1>1, <1>4, <2>2
      <4> QED BY <4>1
    <3> QED BY <1>2, <3>1
  <2> QED BY <2>1, <2>2
<1>7. \A i, j \in Texts(c)' : i < j => v(i) < v(j)
  <2> SUFFICES ASSUME NEW i \in Texts(c)', NEW j \in Texts(c)', i < j PROVE v(i) < v(j)
    OBVIOUS
  <2>1. CASE i \in Texts(c) /\ j \in Texts(c)
    BY <1>3, <2>1
  <2>2. CASE i \in Texts(c) /\ \E k \in 1..u : j = l + k
    <3>1. PICK k \in 1..u : j = l + k
      BY <2>2
    <3>2. v(i) \in 1..(n - u) /\ v(j) = n - u + k
      BY <1>2, <1>3, <2>2, <3>1
    <3> QED BY <1>1, <1>4, <3>2
  <2>3. CASE (\E k \in 1..u : i = l + k) /\ j \in Texts(c)
    BY <1>1, <2>3
  <2>4. CASE (\E k \in 1..u : i = l + k) /\ (\E k \in 1..u : j = l + k)
    <3>1. PICK a \in 1..u, b \in 1..u : i = l + a /\ j = l + b
      BY <2>4
    <3>2. a < b /\ v(i) = n - u + a /\ v(j) = n - u + b
      BY <1>1, <1>2, <3>1
    <3> QED BY <1>1, <1>4, <3>2
  <2> QED BY <1>2, <2>1, <2>2, <2>3, <2>4
<1> QED BY <1>5, <1>6, <1>7 DEF Ordered, v

LEMMA BatchTold ==
    ASSUME LogInv, LogInv', Columns, TextInv, unflushed > 0, Commit(Batch),
           Flush \/ FinalFlush \/ (CutShort /\ pc = "streaming")
    PROVE  TextInv'
<1>1. /\ UNCHANGED <<row, said>> /\ cur' = cur /\ pc \in {"streaming", "finishing"}
      /\ \/ /\ unflushed' = 0 /\ lastSeq' = Len(events) + unflushed
            /\ \/ pc = "streaming" /\ pc' = "flushed"
               \/ pc = "finishing" /\ pc' = "finishing"
         \/ /\ unflushed' = unflushed /\ lastSeq' = lastSeq /\ "cutShort" \in Faulty
            /\ pc = "streaming" /\ pc' = "finishing"
  <2>1. CASE Flush \/ FinalFlush
    BY <2>1 DEF Flush, FinalFlush, FlushAt
  <2>2. CASE CutShort /\ pc = "streaming"
    BY <2>2 DEF CutShort, Fault
  <2> QED BY <2>1, <2>2
<1>2. PICK c : c = cur /\ c = cur'
  BY <1>1
<1>3. /\ c \in DOMAIN row /\ row[c].status = "in_progress" /\ said[c] \in Nat /\ unflushed \in Nat
      /\ unflushed <= said[c] /\ row[c].seq \in Nat /\ Len(events) \in Nat /\ lastSeq \in Nat
      /\ row[c].seq <= Len(events) /\ lastSeq <= Len(events)
  <2>1. c \in DOMAIN row /\ row[c].status = "in_progress" /\ unflushed \in Nat /\ unflushed <= said[c]
    BY <1>1, <1>2 DEF LogInv, Stages, LogTyped, InRun
  <2>2. said[c] \in Nat /\ row[c].seq \in Nat /\ Len(events) \in Nat /\ lastSeq \in Nat
    BY <2>1, RowIndex, RowParts, EventTypes DEF LogInv, Columns
  <2> QED BY <2>1, <2>2 DEF TextInv, Numbered
<1>4. PICK n : n = said[c]
  OBVIOUS
<1>5. /\ Len(events') = Len(events) + unflushed /\ \A m : m # c => SameTexts(m)
      /\ \A i \in Texts(c) : i \in Texts(c)' /\ events'[i] = events[i] /\ (i \in live => i \in live')
      /\ \A i \in Texts(c)' : i \in Texts(c) \/ \E k \in 1..unflushed : i = Len(events) + k
      /\ \A k \in 1..unflushed : /\ Len(events) + k \in Texts(c)' /\ Len(events) + k \in live'
                                 /\ events'[Len(events) + k].val = n - unflushed + k
  BY <1>2, <1>3, <1>4, BatchLogged
<1>6. Numbered'
  <2>1. lastSeq' <= Len(events')
    BY <1>1, <1>3, <1>5
  <2>2. \A m \in DOMAIN row' : row'[m].seq <= Len(events')
    <3> SUFFICES ASSUME NEW m \in DOMAIN row PROVE row[m].seq <= Len(events) + unflushed
      BY <1>1, <1>5
    <3>1. row[m].seq \in Nat /\ row[m].seq <= Len(events)
      BY RowParts DEF Columns, TextInv, Numbered
    <3> QED BY <1>3, <3>1
  <2>3. pc' = "flushed" => unflushed' = 0 /\ \A i \in Texts(cur)' : i <= lastSeq'
    <3>1. \A i \in Texts(cur)' : i \in Nat /\ i <= Len(events')
      <4>1. events' \in Seq(Event)
        BY DEF LogInv, LogTyped
      <4>2. \A i \in DOMAIN events' : i \in Nat /\ i <= Len(events')
        BY <4>1
      <4> QED BY <4>2 DEF Texts
    <3> QED BY <1>1, <1>5, <3>1
  <2>4. \A m \in DOMAIN row' : \A i \in Texts(m)' : events'[i].val \in 1..said'[m]
    <3> SUFFICES ASSUME NEW m \in DOMAIN row, NEW i \in Texts(m)' PROVE events'[i].val \in 1..said[m]
      BY <1>1
    <3>1. CASE i \in Texts(m)
      <4>1. events'[i] = events[i]
        BY <1>5, <3>1 DEF SameTexts
      <4> QED BY <3>1, <4>1 DEF TextInv, Numbered
    <3>2. CASE i \notin Texts(m)
      <4>1. m = c /\ \E k \in 1..unflushed : i = Len(events) + k
        BY <1>5, <3>2 DEF SameTexts
      <4>2. PICK k \in 1..unflushed : events'[i].val = n - unflushed + k
        BY <1>5, <4>1
      <4> QED BY <1>3, <1>4, <4>1, <4>2
    <3> QED BY <3>1, <3>2
  <2> QED BY <2>1, <2>2, <2>3, <2>4 DEF Numbered
<1>7. Silence'
  BY <1>1 DEF Silence
<1>8. ToldBy(c)'
  <2>1. PICK k \in Nat : HoldsFirst(c, k) /\ (Whole(c, k) \/ Again(c))
    BY <1>2, <1>3 DEF TextInv, Told, ToldBy, InProgress
  <2>2. HoldsFirst(c, k)'
    <3>1. \A i \in Texts(c)' : i \in live' /\ (i <= row[c].seq => events'[i].val <= k)
      <4> SUFFICES ASSUME NEW i \in Texts(c)'
          PROVE  i \in live' /\ (i <= row[c].seq => events'[i].val <= k)
        OBVIOUS
      <4>1. CASE i \in Texts(c)
        BY <1>5, <2>1, <4>1 DEF HoldsFirst
      <4>2. CASE \E j \in 1..unflushed : i = Len(events) + j
        <5>1. PICK j \in 1..unflushed : i = Len(events) + j
          BY <4>2
        <5>2. ~(i <= row[c].seq)
          BY <1>3, <5>1
        <5> QED BY <1>5, <5>1, <5>2
      <4> QED BY <1>5, <4>1, <4>2
    <3> QED BY <1>1, <2>1, <3>1 DEF HoldsFirst
  <2>3. ASSUME Repeats(c)', pc = "finishing", "cutShort" \in Faulty PROVE ToldBy(c)'
    <3>1. Again(c)'
      BY <1>1, <2>3 DEF Again, Early
    <3> QED BY <2>2, <3>1 DEF ToldBy
  <2>4. CASE Again(c)
    <3>1. Repeats(c)'
      BY <1>5, <2>4 DEF Again, Repeats
    <3> QED BY <1>1, <1>2, <2>3, <2>4, <3>1 DEF Again, Early
  <2>5. CASE Whole(c, k)
    <3>1. PICK l \in k..said[c] :
            /\ Ordered(c, l) /\ \A i \in Texts(c) : events[i].val <= k => i <= row[c].seq
            /\ \/ l = said[c] - unflushed
               \/ l = said[c] /\ "cutShort" \in Faulty /\ pc = "finishing"
      BY <1>1, <1>2, <2>5 DEF Whole, InRun
    <3>2. CASE l = said[c] - unflushed
      <4>1. Ordered(c, n)'
        BY <1>2, <1>3, <1>4, <3>1, <3>2, BatchOrders
      <4>2. \A i \in Texts(c)' : events'[i].val <= k => i <= row[c].seq
        <5> SUFFICES ASSUME NEW i \in Texts(c)', events'[i].val <= k PROVE i <= row[c].seq
          OBVIOUS
        <5>1. CASE i \in Texts(c)
          BY <1>5, <3>1, <5>1
        <5>2. CASE \E j \in 1..unflushed : i = Len(events) + j
          <6>1. PICK j \in 1..unflushed : events'[i].val = n - unflushed + j
            BY <1>5, <5>2
          <6>2. ~(events'[i].val <= k)
            BY <1>3, <1>4, <3>1, <3>2, <6>1
          <6> QED BY <6>2
        <5> QED BY <1>5, <5>1, <5>2
      <4>3. /\ n \in k..said'[c]
            /\ \/ n = said'[c] - unflushed'
               \/ n = said'[c] /\ "cutShort" \in Faulty /\ pc' = "finishing"
        BY <1>1, <1>3, <1>4, <3>1
      <4>4. Whole(c, k)'
        BY <1>1, <4>1, <4>2, <4>3 DEF Whole
      <4> QED BY <2>2, <4>4 DEF ToldBy
    <3>3. CASE l = said[c] /\ "cutShort" \in Faulty /\ pc = "finishing"
      <4>1. n \in 1..l /\ unflushed \in 1..unflushed
        BY <1>3, <1>4, <3>3
      <4>2. PICK i \in Texts(c) : events[i].val = n
        BY <3>1, <4>1 DEF Ordered
      <4>3. Len(events) + unflushed \in Texts(c)' /\ events'[Len(events) + unflushed].val = n
        <5>1. n - unflushed + unflushed = n
          BY <1>3, <1>4
        <5> QED BY <1>5, <4>1, <5>1
      <4>4. i \in Texts(c)' /\ events'[i].val = n /\ i # Len(events) + unflushed
        <5>1. i \in Nat /\ i <= Len(events)
          BY EventTypes DEF Texts
        <5> QED BY <1>3, <1>5, <4>2, <5>1
      <4>5. Repeats(c)'
        BY <4>3, <4>4 DEF Repeats
      <4> QED BY <2>3, <3>3, <4>5
    <3> QED BY <3>1, <3>2, <3>3
  <2> QED BY <2>1, <2>4, <2>5
<1>9. ~Final(c)'
  BY <1>1, <1>3 DEF Final, Verdicts
<1>10. Told' /\ AllHeld'
  <2>1. \A m \in DOMAIN row \ {c} : row'[m] = row[m] /\ said'[m] = said[m] /\ SameTexts(m)
    BY <1>1, <1>5
  <2> QED BY <1>1, <1>2, <1>8, <1>9, <2>1, OneTurn
<1> QED BY <1>6, <1>7, <1>10 DEF TextInv

-----------------------------------------------------------------------------
(* The final save, and the fold *)

(* A list holds what it is made of. *)
LEMMA ConcatHolds ==
    ASSUME NEW a \in Seq(Nat), NEW b \in Seq(Nat)
    PROVE  /\ a \o b \in Seq(Nat)
           /\ \A k \in DOMAIN a : k \in DOMAIN (a \o b) /\ (a \o b)[k] = a[k]
           /\ \A k \in DOMAIN b : \E j \in DOMAIN (a \o b) : (a \o b)[j] = b[k]
<1>1. /\ a \o b \in Seq(Nat) /\ DOMAIN (a \o b) = 1..(Len(a) + Len(b))
      /\ Len(a) \in Nat /\ Len(b) \in Nat /\ DOMAIN a = 1..Len(a) /\ DOMAIN b = 1..Len(b)
  OBVIOUS
<1>2. \A k \in 1..(Len(a) + Len(b)) : (a \o b)[k] = IF k <= Len(a) THEN a[k] ELSE b[k - Len(a)]
  OBVIOUS
<1> DEFINE s == a \o b
<1> HIDE DEF s
<1>3. \A k \in DOMAIN a : k \in DOMAIN s /\ s[k] = a[k]
  BY <1>1, <1>2 DEF s
<1>4. ASSUME NEW k \in DOMAIN b PROVE \E j \in DOMAIN s : s[j] = b[k]
  <2>1. Len(a) + k \in 1..(Len(a) + Len(b)) /\ ~(Len(a) + k <= Len(a)) /\ Len(a) + k - Len(a) = k
    BY <1>1
  <2>2. s[Len(a) + k] = b[k]
    BY <1>2, <2>1 DEF s
  <2> QED BY <1>1, <2>1, <2>2 DEF s
<1> QED BY <1>1, <1>3, <1>4 DEF s

(* A row that is settled with all texts of its turn keeps every other turn's. *)
LEMMA SettledTold ==
    ASSUME LogInv, LogInv', Columns, TextInv, SaveFinal \/ FoldDead, NEW c, c = cur,
           HoldsAll(c)', row'[c].seq <= Len(events)
    PROVE  TextInv'
<1>1. /\ UNCHANGED <<events, said, lastSeq>> /\ c = cur' /\ pc' \in {"saved", "folded"}
      /\ live' = {i \in live : events[i].msg # c} /\ c \in DOMAIN row /\ verdict \in Verdicts
  BY DEF SaveFinal, FoldDead, Prune, LogInv, LogTyped, Stages
<1>2. /\ DOMAIN row' = DOMAIN row /\ row'[c].status = verdict
      /\ \A m \in DOMAIN row \ {c} : row'[m] = row[m]
  BY RowsWritten
<1>3. \A m : Texts(m)' = Texts(m)
  BY <1>1 DEF Texts
<1>4. \A m : m # c => SameTexts(m)
  BY <1>1, <1>3 DEF SameTexts, Texts
<1>5. Numbered'
  <2>1. \A m \in DOMAIN row' : row'[m].seq <= Len(events')
    BY <1>1, <1>2 DEF TextInv, Numbered
  <2>2. \A m \in DOMAIN row' : \A i \in Texts(m)' : events'[i].val \in 1..said'[m]
    BY <1>1, <1>2, <1>3 DEF TextInv, Numbered
  <2> QED BY <1>1, <2>1, <2>2 DEF TextInv, Numbered
<1>6. Silence'
  BY <1>1 DEF Silence
<1>7. c \notin InProgress'
  BY <1>1, <1>2 DEF InProgress, Verdicts
<1>8. Told' /\ AllHeld'
  <2>1. \A m \in DOMAIN row \ {c} : row'[m] = row[m] /\ said'[m] = said[m] /\ SameTexts(m)
    BY <1>1, <1>2, <1>4
  <2> QED BY <1>1, <1>2, <1>7, <2>1, OneTurn
<1> QED BY <1>5, <1>6, <1>8 DEF TextInv

(* The texts up to n, with or without a note, hold every text whose number is one of them. *)
LEMMA AllOfThem ==
    ASSUME NEW c, NEW n \in Nat, NEW v, row'[c].items = UpTo(n) \o NoteOf(v),
           \A i \in Texts(c)' : events'[i].val \in 1..n
    PROVE  HoldsAll(c)'
<1>1. UpTo(n) \in Seq(Nat) /\ NoteOf(v) \in Seq(Nat) /\ DOMAIN UpTo(n) = 1..n
      /\ \A k \in 1..n : UpTo(n)[k] = k
  BY UpToTypes, NoteTypes DEF UpTo
<1>2. \A k \in 1..n : k \in DOMAIN row'[c].items /\ row'[c].items[k] = k
  BY <1>1, ConcatHolds
<1>3. TextOf(row'[c].items) = UpTo(n)
  BY TextOfUpTo
<1>4. TextOf(row[c].items)' = UpTo(n)
  BY <1>3 DEF TextOf
<1>5. \A i \in Texts(c)' : \E k \in DOMAIN row'[c].items : row'[c].items[k] = events'[i].val
  BY <1>2
<1> QED BY <1>4, <1>5 DEF HoldsAll

LEMMA SaveTold ==
    ASSUME LogInv, LogInv', Columns, TextInv, SaveFinal PROVE TextInv'
<1>1. UNCHANGED <<events, said>> /\ pc = "finishing"
  BY DEF SaveFinal
<1>2. PICK c : c = cur
  OBVIOUS
<1>3. /\ c \in DOMAIN row /\ said[c] \in Nat /\ row[c].seq \in Nat /\ lastSeq \in Nat
      /\ lastSeq <= Len(events) /\ row[c].seq <= Len(events)
  BY <1>1, <1>2, RowIndex, RowParts DEF LogInv, Stages, Columns, TextInv, Numbered
<1>4. row'[c].items = UpTo(said[c]) \o NoteOf(verdict) /\ row'[c].seq = Larger(row[c].seq, lastSeq)
  <2>1. row'[cur] = [status |-> verdict, items |-> UpTo(said[cur]) \o NoteOf(verdict),
                     seq |-> Larger(row[cur].seq, lastSeq)]
    BY RowsWritten
  <2> QED BY <1>2, <2>1
<1>5. \A i \in Texts(c)' : events'[i].val \in 1..said[c]
  BY <1>1, <1>3 DEF TextInv, Numbered, Texts
<1>6. HoldsAll(c)'
  <2>1. PICK n \in Nat : n = said[c]
    BY <1>3
  <2>2. PICK v : v = verdict
    OBVIOUS
  <2> QED BY <1>4, <1>5, <2>1, <2>2, AllOfThem
<1>7. row'[c].seq <= Len(events)
  BY <1>3, <1>4 DEF Larger
<1> QED BY <1>2, <1>6, <1>7, SettledTold

LEMMA FoldTold ==
    ASSUME LogInv, LogInv', Columns, TextInv, FoldDead PROVE TextInv'
<1>1. UNCHANGED <<events, said>> /\ pc = "dead"
  BY DEF FoldDead
<1>2. PICK c : c = cur
  OBVIOUS
<1>3. /\ c \in DOMAIN row /\ row[c].status = "in_progress" /\ said[c] \in Nat /\ row[c].seq \in Nat
      /\ row[c].items \in Seq(Nat) /\ row[c].seq <= Len(events)
      /\ events \in Seq(Event) /\ live \subseteq DOMAIN events
  BY <1>1, <1>2, RowIndex, RowParts, EventTypes DEF FoldDead, LogInv, Stages, Columns, TextInv, Numbered
<1>4. PICK v : v = verdict
  OBVIOUS
<1> DEFINE after == TextsAfter(c, row[c].seq)
<1>5. row'[c].items = (row[c].items \o after) \o NoteOf(v) /\ row'[c].seq = LastLive(c)
  <2>1. row'[cur] = [status |-> verdict, items |-> Folded(cur) \o NoteOf(verdict), seq |-> LastLive(cur)]
    BY RowsWritten
  <2>2. row'[c].items = Folded(c) \o NoteOf(v) /\ row'[c].seq = LastLive(c)
    BY <1>2, <1>4, <2>1
  <2> QED BY <2>2 DEF Folded
<1>6. Texts(c)' = Texts(c)
  BY <1>1 DEF Texts
<1>7. PICK k \in Nat : HoldsFirst(c, k) /\ (Whole(c, k) \/ Again(c))
  BY <1>2, <1>3 DEF TextInv, Told, ToldBy, InProgress
<1>8. HoldsAll(c)'
  <2>1. CASE Whole(c, k)
    <3>1. PICK n \in k..said[c] :
            Ordered(c, n) /\ \A i \in Texts(c) : events[i].val <= k => i <= row[c].seq
      BY <2>1 DEF Whole
    <3>2. n \in Nat /\ k <= n
      BY <1>3, <3>1
    <3>3. after = [j \in 1..(n - k) |-> k + j]
      <4>1. HoldsFirst(c, k)
        BY <1>7
      <4> QED BY <1>3, <3>1, <3>2, <4>1, LogGoesOn
    <3>4. row[c].items \o after = UpTo(n)
      BY <1>7, <3>2, <3>3, UpToGoesOn DEF HoldsFirst
    <3>5. row'[c].items = UpTo(n) \o NoteOf(v)
      BY <1>5, <3>4
    <3>6. \A i \in Texts(c)' : events'[i].val \in 1..n
      BY <1>1, <1>6, <3>1 DEF Ordered
    <3> QED BY <3>2, <3>5, <3>6, AllOfThem
  <2>2. CASE Again(c)
    <3>1. Repeats(c)'
      BY <1>1, <1>6, <2>2 DEF Again, Repeats
    <3>2. /\ after \in Seq(Nat)
          /\ \A i \in OwnTexts(c) : i > row[c].seq => \E j \in DOMAIN after : after[j] = events[i].val
      <4>1. events \in Seq(Event) /\ live \subseteq DOMAIN events
        BY <1>3
      <4>2. PICK s : s = row[c].seq
        OBVIOUS
      <4>3. /\ TextsAfter(c, s) \in Seq(Nat)
            /\ \A i \in OwnTexts(c) : i > s =>
                 \E j \in DOMAIN TextsAfter(c, s) : TextsAfter(c, s)[j] = events[i].val
        BY <4>1, TextsListed
      <4> QED BY <4>2, <4>3
    <3> DEFINE a == row[c].items
               ab == a \o after
               all == ab \o NoteOf(v)
    <3> HIDE DEF after
    <3>3. /\ a \in Seq(Nat) /\ ab \in Seq(Nat) /\ \A j \in DOMAIN a : j \in DOMAIN ab /\ ab[j] = a[j]
          /\ \A j \in DOMAIN after : \E l \in DOMAIN ab : ab[l] = after[j]
      <4> HIDE DEF a
      <4>1. a \in Seq(Nat)
        BY <1>3 DEF a
      <4> QED BY <3>2, <4>1, ConcatHolds
    <3>4. \A l \in DOMAIN ab : l \in DOMAIN all /\ all[l] = ab[l]
      <4> HIDE DEF ab
      <4> QED BY <3>3, NoteTypes, ConcatHolds
    <3> HIDE DEF ab, all
    <3>5. \A i \in Texts(c) : \E l \in DOMAIN ab : ab[l] = events[i].val
      <4> SUFFICES ASSUME NEW i \in Texts(c) PROVE \E l \in DOMAIN ab : ab[l] = events[i].val
        OBVIOUS
      <4>1. i \in live /\ i \in Nat /\ events[i].val \in 1..said[c]
        BY <1>3, <1>7, EventTypes DEF HoldsFirst, TextInv, Numbered, Texts
      <4>2. CASE i <= row[c].seq
        <5>1. events[i].val \in 1..k
          BY <1>3, <1>7, <4>1, <4>2 DEF HoldsFirst
        <5>2. events[i].val \in DOMAIN a /\ a[events[i].val] = events[i].val
          BY <1>7, <5>1 DEF HoldsFirst, UpTo
        <5> QED BY <3>3, <5>2
      <4>3. CASE ~(i <= row[c].seq)
        <5>1. i \in OwnTexts(c) /\ i > row[c].seq
          BY <1>3, <4>1, <4>3 DEF OwnTexts, Texts
        <5>2. PICK j \in DOMAIN after : after[j] = events[i].val
          BY <3>2, <5>1
        <5> QED BY <3>3, <5>2
      <4> QED BY <4>2, <4>3
    <3>6. row'[c].items = all
      BY <1>5 DEF all, ab
    <3>7. \A i \in Texts(c)' : \E l \in DOMAIN row'[c].items : row'[c].items[l] = events'[i].val
      BY <1>1, <1>6, <3>4, <3>5, <3>6
    <3> QED BY <3>1, <3>7 DEF HoldsAll
  <2> QED BY <1>7, <2>1, <2>2
<1>9. row'[c].seq <= Len(events)
  BY <1>3, <1>5, LastLiveTypes
<1> QED BY <1>2, <1>8, <1>9, SettledTold

-----------------------------------------------------------------------------
(* Every step, again *)

LEMMA TextInit == Init => Columns /\ TextInv
<1> SUFFICES ASSUME Init PROVE Columns /\ TextInv
  OBVIOUS
<1>1. row = <<>> /\ events = <<>> /\ said = <<>> /\ outbox = <<>> /\ pc = "idle"
      /\ lastSeq = 0 /\ notices = 0 /\ faults = 0 /\ live = {}
  BY DEF Init
<1>2. Columns
  BY <1>1 DEF Columns
<1>3. DOMAIN row = {} /\ Len(events) = 0
  BY <1>1
<1>4. TextInv
  BY <1>1, <1>3 DEF TextInv, Numbered, Silence, Told, InProgress, AllHeld
<1> QED BY <1>2, <1>4

LEMMA TextStep ==
    ASSUME LogInv, LogInv', Columns, TextInv, LogNext PROVE TextInv'
<1>1. CASE NewTurn \/ ScaffoldNext
  BY <1>1, NewRowTold
<1>2. CASE StartSnapshot \/ Checkpoint
  BY <1>2, SnapshotTold
<1>3. CASE Say
  BY <1>3, SayTold
<1>4. CASE Flush \/ FinalFlush
  <2>1. unflushed > 0 /\ Commit(Batch)
    BY <1>4 DEF Flush, FinalFlush, FlushAt
  <2> QED BY <1>4, <2>1, BatchTold
<1>5. CASE CutShort
  <2>1. CASE pc = "streaming" /\ unflushed > 0 /\ Commit(Batch)
    BY <1>5, <2>1, BatchTold
  <2>2. CASE ~(pc = "streaming" /\ unflushed > 0 /\ Commit(Batch))
    BY <1>5, <2>2, CalmActions
  <2> QED BY <2>1, <2>2
<1>6. CASE SaveFinal
  BY <1>6, SaveTold
<1>7. CASE FoldDead
  BY <1>7, FoldTold
<1>8. CASE HandOffFails
  BY <1>8, DiscardTold
<1>9. CASE \/ Start \/ SkipCheckpoint \/ NoneQueued \/ HandOff \/ StartNext \/ Terminal
           \/ AlreadyFinal \/ DeadTerminal \/ Reconcile \/ Serve \/ Notify \/ FailEarly
           \/ (\E v \in Verdicts : Finish(v)) \/ DbFails \/ FinalizeFails \/ Shutdown
           \/ TaskCancelled \/ PublishNext \/ PublishLost \/ Crash \/ Exit
  BY <1>9, CalmActions
<1> QED BY <1>1, <1>2, <1>3, <1>4, <1>5, <1>6, <1>7, <1>8, <1>9
       DEF LogNext, WriterStep, TaskStep, AgentStep, FaultStep

LEMMA TextStutters ==
    ASSUME LogInv, Columns, TextInv, Still, faults' \in Nat PROVE Columns' /\ TextInv'
<1>1. /\ UNCHANGED <<pc, cur, said, unflushed, lastSeq, events, live, row, outbox, notices>>
  BY DEF Still
<1>2. Columns'
  BY <1>1 DEF Columns
<1>3. \A m : SameTexts(m) /\ Texts(m)' = Texts(m)
  BY <1>1, SameLogSame DEF SameTexts
<1>4. Numbered' /\ Silence'
  BY <1>1 DEF TextInv, Numbered, Silence, Texts, Untold
<1>5. Told'
  <2> SUFFICES ASSUME NEW m \in InProgress' PROVE ToldBy(m)'
    BY DEF Told
  <2>1. ToldBy(m) /\ said[m] \in Nat
    BY <1>1, RowIndex DEF InProgress, TextInv, Told, LogInv
  <2> QED BY <1>1, <1>3, <2>1, StillTold DEF Stays
<1>6. AllHeld'
  <2> SUFFICES ASSUME NEW m \in DOMAIN row', Final(m)' PROVE HoldsAll(m)'
    BY DEF AllHeld
  <2>1. HoldsAll(m)
    BY <1>1 DEF Final, TextInv, AllHeld
  <2> QED BY <1>1, <1>3, <2>1, StillHeld DEF SameTexts
<1> QED BY <1>2, <1>4, <1>5, <1>6 DEF TextInv

-----------------------------------------------------------------------------
(* The theorems *)

LEMMA LogIsInv == LogSpec => []LogInv
<1>1. Init => LogInv
  BY LogInit
<1>2. LogInv /\ [LogNext]_logVars => LogInv'
  BY LogStep, LogStutters, StillStutters
<1> QED BY <1>1, <1>2, PTL DEF LogSpec

(* "so it survives replay" (run): whatever is retried, cancelled or lost, and wherever the
   server stops, the event that ends a turn is the last of its message, agrees with the
   row, and no final save or fold prunes it. *)
THEOREM EndsSurvive == LogSpec => []EndSurvives
<1>1. LogInv => EndSurvives
  BY DEF LogInv
<1> QED BY <1>1, LogIsInv, PTL

(* What the final save closes stays closed: no checkpoint, restart or fold takes a row back
   from its verdict, and no late flush puts text of a finished turn in the log again. *)
THEOREM FinishedStaysFinished == LogSpec => FinalStays
<1> DEFINE A == \A m \in DOMAIN row : Final(m) =>
                    /\ row'[m].status \in Verdicts
                    /\ \A i \in live' : events'[i].msg = m => events'[i].kind # "text"
<1>1. LogInv /\ LogInv' /\ LogNext => A
  <2> SUFFICES ASSUME LogInv, LogInv', LogNext, NEW m \in DOMAIN row, Final(m)
      PROVE  /\ row'[m].status \in Verdicts
             /\ \A i \in live' : events'[i].msg = m => events'[i].kind # "text"
    OBVIOUS
  <2>1. m \in DOMAIN row' /\ row'[m].status \in Verdicts
    BY FinalKept
  <2>2. NoText(m)'
    BY <2>1 DEF LogInv, TextFree
  <2> QED BY <2>1, <2>2 DEF NoText
<1>2. LogInv /\ LogInv' /\ [LogNext]_logVars => [A]_logVars
  BY <1>1
<1> QED BY <1>2, LogIsInv, PTL DEF LogSpec, FinalStays

LEMMA TextsAreInv == LogSpec => [](LogInv /\ Columns /\ TextInv)
<1>1. Init => LogInv /\ Columns /\ TextInv
  BY LogInit, TextInit
<1>2. LogInv /\ Columns /\ TextInv /\ [LogNext]_logVars => (LogInv /\ Columns /\ TextInv)'
  <2> SUFFICES ASSUME LogInv, Columns, TextInv, [LogNext]_logVars
      PROVE  LogInv' /\ Columns' /\ TextInv'
    OBVIOUS
  <2>1. LogInv'
    BY LogStep, LogStutters, StillStutters
  <2>2. CASE LogNext
    BY <2>1, <2>2, ColumnsStep, TextStep
  <2>3. CASE UNCHANGED logVars
    <3>1. Still /\ faults' \in Nat
      BY <2>3, StillStutters DEF Columns, logVars
    <3> QED BY <2>1, <3>1, TextStutters
  <2> QED BY <2>1, <2>2, <2>3
<1> QED BY <1>1, <1>2, PTL DEF LogSpec

(* Every state the tasks, restarts and faults of a chat's log reach is of its types: rows
   hold lists of texts and natural numbers, and what is published or live is of the log. *)
THEOREM LogTypes == LogSpec => []TypeOK
<1>1. LogInv /\ Columns => TypeOK
  BY TypesFollow
<1> QED BY <1>1, TextsAreInv, PTL

(* However many texts a turn says, and wherever it is checkpointed, cancelled, failed,
   killed or folded: a reader who takes the row and replays the log past its last_seq has,
   with the buffer, all the agent said in order and once; and a finished row holds every
   text that was ever committed (update_message_snapshot, _replay_past_checkpoint). *)
THEOREM TextsAreKept == LogSpec => []TextsKept
<1>1. LogInv /\ Columns /\ TextInv => TextsKept
  BY TextsFollow
<1> QED BY <1>1, TextsAreInv, PTL

=============================================================================
