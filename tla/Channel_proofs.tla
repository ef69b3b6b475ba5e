---------------------------- MODULE Channel_proofs ----------------------------
(* Theorems about Channel, for any members and any bounds. *)
EXTENDS Channel, TLAPS

-----------------------------------------------------------------------------
(* The inductive invariant. *)

(* The type invariant in three parts, with what ties a turn to its task: a turn's
   place is empty exactly when no task serves it, and a task ends before its turn
   is taken away only when finishing that turn failed. *)
RowsTyped ==
    /\ messages \in Seq(Message) /\ queued \in 0..MaxQueued
    /\ Len(messages) + queued <= MaxMessages
    /\ delivered \in [Members -> SUBSET DOMAIN messages]

TurnsTyped ==
    /\ turns \in [Members -> MemberTurn]
    /\ task \in [Members -> {"none", "starting", "running", "final", "done"}]
    /\ agent \in [Members -> {"none", "running", "asking", "stopping"}]
    /\ \A m \in Members :
         /\ turns[m].status = "none" <=> task[m] = "none"
         /\ turns[m].status = "none" => turns[m].batch = {} /\ turns[m].message = 0
         /\ agent[m] # "none" <=> task[m] = "running"
         /\ task[m] = "done" => turns[m].status \in {"failed", "cancelled"}

RestTyped ==
    /\ retries \in [Members -> {"none", "waiting", "due"}]
    /\ permissions \subseteq Members /\ timer \in BOOLEAN /\ paused \in BOOLEAN
    /\ control \in {"free", "posting", "posted", "stopping", "stopped"}
    /\ cut \subseteq Members /\ deviceCut \subseteq Members
    /\ revocation \in {"no", "committed", "cutting", "done"}
    /\ dispatching \in BOOLEAN /\ mishaps \in 0..MaxMishaps

(* What a turn was prompted with was finished before the turn began. *)
BatchesSettled ==
    \A m \in Members : \A i \in turns[m].batch :
        i \in DOMAIN messages /\ messages[i].status # "streaming"

(* The row a turn speaks into is its own, and open until the turn is finished. *)
OwnRow(m) ==
    turns[m].message # 0 /\ turns[m].status # "finished" =>
        /\ turns[m].message \in DOMAIN messages
        /\ messages[turns[m].message].by = m
        /\ messages[turns[m].message].status = "streaming"
RowsOwned == \A m \in Members : OwnRow(m)

(* The two halves of NothingOutlivesItsTurn. *)
OpenRowsServed ==
    \A i \in DOMAIN messages : messages[i].status = "streaming" =>
        \E m \in Members : turns[m].message = i /\ turns[m].status # "finished"
ApprovalsServed ==
    \A m \in permissions :
        turns[m].status \in {"running", "failed"} /\ agent[m] = "asking"

(* The channel is paused for as long as a request holds it, and after a stop
   nothing is left that anybody needs a turn for. *)
Controlled ==
    /\ (control = "free") <=> ~paused
    /\ control \in {"stopping", "stopped"} =>
           \A m \in Members : Unseen(m) = {} /\ turns[m].status \in {"none", "finished"}

(* The turns of a revoked device are cut before the revocation is through. *)
DeviceCutOff ==
    revocation \in {"cutting", "done"} =>
        \A m \in Members : turns[m].status = "running" => ~OfDevice(turns[m].batch)

ChanInv ==
    /\ RowsTyped /\ TurnsTyped /\ RestTyped
    /\ BatchesSettled /\ RowsOwned /\ OpenRowsServed /\ ApprovalsServed
    /\ Controlled /\ DeviceCutOff

-----------------------------------------------------------------------------
(* The rows *)

LEMMA RowType ==
    ASSUME NEW by \in Members \cup {User}, NEW to \in SUBSET Members, NEW device \in BOOLEAN,
           NEW status \in {"streaming", "completed", "closed"}
    PROVE  Row(by, to, device, status) \in Message
BY DEF Row, Message

LEMMA CloseRows ==
    ASSUME messages \in Seq(Message), NEW S
    PROVE  /\ Close(S) \in Seq(Message) /\ Len(Close(S)) = Len(messages)
           /\ DOMAIN Close(S) = DOMAIN messages
           /\ \A i \in DOMAIN messages :
                /\ Close(S)[i].by = messages[i].by /\ Close(S)[i].to = messages[i].to
                /\ Close(S)[i].device = messages[i].device
                /\ Close(S)[i].status = IF i \in S THEN "closed" ELSE messages[i].status
                /\ i \notin S => Close(S)[i] = messages[i]
<1>1. ASSUME NEW i \in DOMAIN messages PROVE messages[i] \in Message /\ Close(S)[i] \in Message
  <2>1. messages[i] \in Message
    OBVIOUS
  <2>2. [messages[i] EXCEPT !.status = "closed"] \in Message
    BY <2>1 DEF Message
  <2>3. Close(S)[i] = IF i \in S THEN [messages[i] EXCEPT !.status = "closed"] ELSE messages[i]
    BY DEF Close
  <2> QED BY <2>1, <2>2, <2>3
<1>2. DOMAIN messages = 1..Len(messages) /\ Len(messages) \in Nat /\ DOMAIN Close(S) = DOMAIN messages
  BY DEF Close
<1>3. Close(S) \in Seq(Message) /\ Len(Close(S)) = Len(messages)
  BY <1>1, <1>2 DEF Close
<1> QED BY <1>1, <1>2, <1>3 DEF Close, Message

LEMMA AddRow ==
    ASSUME NEW rows \in Seq(Message), NEW r \in Message
    PROVE  /\ Append(rows, r) \in Seq(Message) /\ Len(Append(rows, r)) = Len(rows) + 1
           /\ DOMAIN Append(rows, r) = DOMAIN rows \cup {Len(rows) + 1}
           /\ Len(rows) + 1 \notin DOMAIN rows /\ Len(rows) \in Nat
           /\ DOMAIN rows = 1..Len(rows)
           /\ Append(rows, r)[Len(rows) + 1] = r
           /\ \A i \in DOMAIN rows : Append(rows, r)[i] = rows[i]
OBVIOUS

(* A row that is closed or completed stays so, and keeps its device. *)
Follows(new) ==
    /\ new \in Seq(Message) /\ DOMAIN messages \subseteq DOMAIN new
    /\ \A i \in DOMAIN messages : messages[i].status # "streaming" =>
           new[i].status # "streaming" /\ new[i].device = messages[i].device

LEMMA CloseFollows ==
    ASSUME messages \in Seq(Message), NEW S PROVE Follows(Close(S))
BY CloseRows DEF Follows

LEMMA AddFollows ==
    ASSUME messages \in Seq(Message), NEW S, NEW r \in Message
    PROVE  Follows(Append(Close(S), r)) /\ Follows(Append(messages, r))
<1>1. Close(S) \in Seq(Message) /\ DOMAIN Close(S) = DOMAIN messages
  BY CloseRows
<1> QED BY CloseRows, <1>1, AddRow DEF Follows


LEMMA TypesFollow == ChanInv => ChannelTypeOK /\ NothingOutlivesItsTurn /\ RevokedNotPrompted
<1> SUFFICES ASSUME ChanInv PROVE ChannelTypeOK /\ NothingOutlivesItsTurn /\ RevokedNotPrompted
  OBVIOUS
<1> USE DEF ChanInv
<1>1. ASSUME NEW m \in Members
      PROVE  ((turns[m] = Absent) = (task[m] = "none")) /\ ((agent[m] # "none") = (task[m] = "running"))
  <2>1. turns[m] \in MemberTurn
    BY DEF TurnsTyped
  <2>2. turns[m] = Absent <=> turns[m].status = "none"
    BY <2>1 DEF TurnsTyped, MemberTurn, Absent
  <2> QED BY <2>2 DEF TurnsTyped
<1>2. ChannelTypeOK
  BY <1>1 DEF ChannelTypeOK, RowsTyped, TurnsTyped, RestTyped
<1>3. NothingOutlivesItsTurn
  BY DEF NothingOutlivesItsTurn, OpenRowsServed, ApprovalsServed
<1>4. RevokedNotPrompted
  BY DEF RevokedNotPrompted, DeviceCutOff
<1> QED BY <1>2, <1>3, <1>4

-----------------------------------------------------------------------------
(* The turns *)

(* Turn m moves to status s and keeps the rest; the other turns are left alone. *)
Moved(m, s) ==
    /\ turns' \in [Members -> MemberTurn] /\ turns'[m].status = s
    /\ \A n \in Members : /\ turns'[n].batch = turns[n].batch
                          /\ turns'[n].message = turns[n].message
                          /\ n # m => turns'[n].status = turns[n].status

LEMMA StatusMoves ==
    ASSUME turns \in [Members -> MemberTurn], NEW m \in Members,
           NEW s \in {"cancelled", "failed", "finished"},
           turns' = [turns EXCEPT ![m].status = s]
    PROVE  Moved(m, s)
<1>1. \A n \in Members : turns[n] \in MemberTurn
  OBVIOUS
<1>2. \A n \in Members : turns'[n] = IF n = m THEN [turns[n] EXCEPT !.status = s] ELSE turns[n]
  OBVIOUS
<1>3. [turns[m] EXCEPT !.status = s] \in MemberTurn
  BY <1>1 DEF MemberTurn
<1> QED BY <1>1, <1>2, <1>3 DEF Moved, MemberTurn

LEMMA MishapBound == ASSUME RestTyped, Mishap PROVE mishaps' \in 0..MaxMishaps
BY ChannelAssumption DEF RestTyped, Mishap

LEMMA Unmoved ==
    ASSUME turns \in [Members -> MemberTurn], NEW m \in Members, turns' = turns
    PROVE  Moved(m, turns[m].status)
BY DEF Moved

LEMMA FailMoves ==
    ASSUME TurnsTyped, RestTyped, NEW m \in Members, FailTurn(m)
    PROVE  /\ \E s \in {turns[m].status, "failed"} :
                 Moved(m, s) /\ (s = turns[m].status \/ turns[m].status = "running")
           /\ retries' \in [Members -> {"none", "waiting", "due"}]
<1> USE DEF TurnsTyped, RestTyped
<1>1. CASE turns[m].status = "running"
  <2>1. turns' = [turns EXCEPT ![m].status = "failed"] /\ BackOff({m})
    BY <1>1 DEF FailTurn
  <2>2. Moved(m, "failed")
    BY <2>1, StatusMoves
  <2> QED BY <1>1, <2>1, <2>2 DEF BackOff
<1>2. CASE turns[m].status # "running"
  BY <1>2, Unmoved DEF FailTurn
<1> QED BY <1>1, <1>2

(* A move that neither finishes a turn nor takes a finished one back keeps the rows
   in their turns' hands. *)
LEMMA MovedRows ==
    ASSUME ChanInv, UNCHANGED messages, NEW m \in Members,
           \E s \in {turns[m].status, "failed", "cancelled"} :
               Moved(m, s) /\ (s = turns[m].status \/ turns[m].status = "running")
    PROVE  BatchesSettled' /\ RowsOwned' /\ OpenRowsServed'
<1> USE DEF ChanInv
<1>1. \A n \in Members :
        /\ turns'[n].batch = turns[n].batch /\ turns'[n].message = turns[n].message
        /\ turns'[n].status = "finished" <=> turns[n].status = "finished"
  BY DEF Moved
<1>2. BatchesSettled'
  BY <1>1 DEF BatchesSettled
<1>3. RowsOwned'
  BY <1>1 DEF RowsOwned, OwnRow
<1>4. OpenRowsServed'
  BY <1>1 DEF OpenRowsServed
<1> QED BY <1>2, <1>3, <1>4

LEMMA StartTurnKeeps ==
    ASSUME ChanInv, NEW m \in Members, StartTurn(m) PROVE ChanInv'
<1> USE ChannelAssumption DEF ChanInv
<1>a. UNCHANGED <<messages, delivered, turns, retries, permissions, timer, paused, control, cut, revocation, deviceCut, queued, dispatching, mishaps>>
  BY DEF StartTurn, requestVars
<1>1. RowsTyped'
  BY <1>a DEF RowsTyped
<1>2. TurnsTyped'
  BY <1>a DEF TurnsTyped, StartTurn
<1>3. RestTyped'
  BY <1>a DEF RestTyped
<1>4. BatchesSettled'
  BY <1>a DEF BatchesSettled
<1>5. RowsOwned'
  BY <1>a DEF RowsOwned, OwnRow
<1>6. OpenRowsServed'
  BY <1>a DEF OpenRowsServed
<1>7. ApprovalsServed'
  BY <1>a DEF ApprovalsServed, TurnsTyped, RestTyped, StartTurn
<1>8. Controlled'
  BY <1>a DEF Controlled, Unseen
<1>9. DeviceCutOff'
  BY <1>a DEF DeviceCutOff, OfDevice
<1> QED BY <1>1, <1>2, <1>3, <1>4, <1>5, <1>6, <1>7, <1>8, <1>9

LEMMA SkipStartKeeps ==
    ASSUME ChanInv, NEW m \in Members, SkipStart(m) PROVE ChanInv'
<1> USE ChannelAssumption DEF ChanInv
<1>a. UNCHANGED <<messages, delivered, turns, agent, retries, permissions, timer, paused, control, cut, revocation, deviceCut, queued, dispatching, mishaps>>
  BY DEF SkipStart, requestVars
<1>1. RowsTyped'
  BY <1>a DEF RowsTyped
<1>2. TurnsTyped'
  BY <1>a DEF TurnsTyped, SkipStart
<1>3. RestTyped'
  BY <1>a DEF RestTyped
<1>4. BatchesSettled'
  BY <1>a DEF BatchesSettled
<1>5. RowsOwned'
  BY <1>a DEF RowsOwned, OwnRow
<1>6. OpenRowsServed'
  BY <1>a DEF OpenRowsServed
<1>7. ApprovalsServed'
  BY <1>a DEF ApprovalsServed
<1>8. Controlled'
  BY <1>a DEF Controlled, Unseen
<1>9. DeviceCutOff'
  BY <1>a DEF DeviceCutOff, OfDevice
<1> QED BY <1>1, <1>2, <1>3, <1>4, <1>5, <1>6, <1>7, <1>8, <1>9

LEMMA StartFailsKeeps ==
    ASSUME ChanInv, NEW m \in Members, StartFails(m) PROVE ChanInv'
<1> USE ChannelAssumption DEF ChanInv
<1>a. UNCHANGED <<messages, delivered, agent, permissions, timer, paused, control, cut, revocation, deviceCut, queued, dispatching>>
  BY DEF StartFails, requestVars
<1>b. /\ task[m] = "starting" /\ task' = [task EXCEPT ![m] = "final"]
      /\ \E s \in {turns[m].status, "failed"} :
             Moved(m, s) /\ (s = turns[m].status \/ turns[m].status = "running")
      /\ retries' \in [Members -> {"none", "waiting", "due"}] /\ mishaps' \in 0..MaxMishaps
  BY FailMoves, MishapBound DEF StartFails, TurnsTyped, RestTyped
<1>c. /\ turns' \in [Members -> MemberTurn]
      /\ \A n \in Members :
           /\ turns'[n].batch = turns[n].batch /\ turns'[n].message = turns[n].message
           /\ turns'[n].status # turns[n].status =>
                  n = m /\ turns[n].status = "running" /\ turns'[n].status = "failed"
  BY <1>b DEF Moved
<1>1. RowsTyped'
  BY <1>a DEF RowsTyped
<1>2. TurnsTyped'
  <2>1. /\ task' \in [Members -> {"none", "starting", "running", "final", "done"}]
        /\ agent' \in [Members -> {"none", "running", "asking", "stopping"}]
    BY <1>a, <1>b DEF TurnsTyped
  <2>2. \A n \in Members :
          /\ task'[n] = IF n = m THEN "final" ELSE task[n]
          /\ agent'[n] = IF n = m THEN "none" ELSE agent[n]
    BY <1>a, <1>b DEF TurnsTyped
  <2>3. task[m] # "none"
    BY <1>b
  <2> QED BY <1>c, <2>1, <2>2, <2>3 DEF TurnsTyped
<1>3. RestTyped'
  BY <1>a, <1>b, <1>c, MovedRows DEF RestTyped
<1>4. BatchesSettled'
  BY <1>a, <1>b, <1>c, MovedRows DEF BatchesSettled
<1>5. RowsOwned'
  BY <1>a, <1>b, <1>c, MovedRows DEF RowsOwned, OwnRow
<1>6. OpenRowsServed'
  BY <1>a, <1>b, <1>c, MovedRows DEF OpenRowsServed
<1>7. ApprovalsServed'
  BY <1>a, <1>b, <1>c, MovedRows DEF ApprovalsServed, TurnsTyped, RestTyped
<1>8. Controlled'
  BY <1>a, <1>b, <1>c, MovedRows DEF Controlled, Unseen, TurnsTyped
<1>9. DeviceCutOff'
  BY <1>a, <1>b, <1>c, MovedRows DEF DeviceCutOff, OfDevice, RestTyped
<1> QED BY <1>1, <1>2, <1>3, <1>4, <1>5, <1>6, <1>7, <1>8, <1>9

LEMMA AgentErrorKeeps ==
    ASSUME ChanInv, NEW m \in Members, AgentError(m) PROVE ChanInv'
<1> USE ChannelAssumption DEF ChanInv
<1>a. UNCHANGED <<messages, delivered, task, agent, permissions, timer, paused, control, cut, revocation, deviceCut, queued, dispatching>>
  BY DEF AgentError, requestVars
<1>b. /\ task[m] = "running" /\ agent[m] = "running"
      /\ \E s \in {turns[m].status, "failed"} :
             Moved(m, s) /\ (s = turns[m].status \/ turns[m].status = "running")
      /\ retries' \in [Members -> {"none", "waiting", "due"}] /\ mishaps' \in 0..MaxMishaps
  BY FailMoves, MishapBound DEF AgentError, TurnsTyped, RestTyped
<1>c. /\ turns' \in [Members -> MemberTurn]
      /\ \A n \in Members :
           /\ turns'[n].batch = turns[n].batch /\ turns'[n].message = turns[n].message
           /\ turns'[n].status # turns[n].status =>
                  n = m /\ turns[n].status = "running" /\ turns'[n].status = "failed"
  BY <1>b DEF Moved
<1>1. RowsTyped'
  BY <1>a DEF RowsTyped
<1>2. TurnsTyped'
  BY <1>a, <1>b, <1>c, MovedRows DEF TurnsTyped
<1>3. RestTyped'
  BY <1>a, <1>b, <1>c, MovedRows DEF RestTyped
<1>4. BatchesSettled'
  BY <1>a, <1>b, <1>c, MovedRows DEF BatchesSettled
<1>5. RowsOwned'
  BY <1>a, <1>b, <1>c, MovedRows DEF RowsOwned, OwnRow
<1>6. OpenRowsServed'
  BY <1>a, <1>b, <1>c, MovedRows DEF OpenRowsServed
<1>7. ApprovalsServed'
  BY <1>a, <1>b, <1>c, MovedRows DEF ApprovalsServed, TurnsTyped, RestTyped
<1>8. Controlled'
  BY <1>a, <1>b, <1>c, MovedRows DEF Controlled, Unseen, TurnsTyped
<1>9. DeviceCutOff'
  BY <1>a, <1>b, <1>c, MovedRows DEF DeviceCutOff, OfDevice, RestTyped
<1> QED BY <1>1, <1>2, <1>3, <1>4, <1>5, <1>6, <1>7, <1>8, <1>9

LEMMA AskKeeps ==
    ASSUME ChanInv, NEW m \in Members, Ask(m) PROVE ChanInv'
<1> USE ChannelAssumption DEF ChanInv
<1>a. UNCHANGED <<messages, delivered, turns, task, retries, timer, paused, control, cut, revocation, deviceCut, queued, dispatching, mishaps>>
  BY DEF Ask, requestVars
<1>1. RowsTyped'
  BY <1>a DEF RowsTyped
<1>2. TurnsTyped'
  BY <1>a DEF TurnsTyped, Ask
<1>3. RestTyped'
  BY <1>a DEF RestTyped, Ask
<1>4. BatchesSettled'
  BY <1>a DEF BatchesSettled
<1>5. RowsOwned'
  BY <1>a DEF RowsOwned, OwnRow
<1>6. OpenRowsServed'
  BY <1>a DEF OpenRowsServed
<1>7. ApprovalsServed'
  BY <1>a DEF ApprovalsServed, TurnsTyped, RestTyped, Ask
<1>8. Controlled'
  BY <1>a DEF Controlled, Unseen
<1>9. DeviceCutOff'
  BY <1>a DEF DeviceCutOff, OfDevice
<1> QED BY <1>1, <1>2, <1>3, <1>4, <1>5, <1>6, <1>7, <1>8, <1>9

LEMMA AnswerKeeps ==
    ASSUME ChanInv, NEW m \in Members, Answer(m) PROVE ChanInv'
<1> USE ChannelAssumption DEF ChanInv
<1>a. UNCHANGED <<messages, delivered, turns, task, retries, timer, paused, control, cut, revocation, deviceCut, queued, dispatching, mishaps>>
  BY DEF Answer, Resolve, requestVars
<1>1. RowsTyped'
  BY <1>a DEF RowsTyped
<1>2. TurnsTyped'
  BY <1>a DEF TurnsTyped, Answer, Resolve
<1>3. RestTyped'
  BY <1>a DEF RestTyped, Answer, Resolve
<1>4. BatchesSettled'
  BY <1>a DEF BatchesSettled
<1>5. RowsOwned'
  BY <1>a DEF RowsOwned, OwnRow
<1>6. OpenRowsServed'
  BY <1>a DEF OpenRowsServed
<1>7. ApprovalsServed'
  BY <1>a DEF ApprovalsServed, TurnsTyped, RestTyped, Answer, Resolve
<1>8. Controlled'
  BY <1>a DEF Controlled, Unseen
<1>9. DeviceCutOff'
  BY <1>a DEF DeviceCutOff, OfDevice
<1> QED BY <1>1, <1>2, <1>3, <1>4, <1>5, <1>6, <1>7, <1>8, <1>9

LEMMA AgentEndsKeeps ==
    ASSUME ChanInv, NEW m \in Members, AgentEnds(m) PROVE ChanInv'
<1> USE ChannelAssumption DEF ChanInv
<1>a. UNCHANGED <<messages, delivered, retries, permissions, timer, paused, control, cut, revocation, deviceCut, queued, dispatching, mishaps>>
  BY DEF AgentEnds, requestVars
<1>b. /\ agent[m] \in {"running", "stopping"} /\ task[m] = "running"
      /\ task' = [task EXCEPT ![m] = "final"] /\ agent' = [agent EXCEPT ![m] = "none"]
      /\ \E s \in {turns[m].status, "cancelled"} :
             Moved(m, s) /\ (s = turns[m].status \/ turns[m].status = "running")
  BY StatusMoves DEF AgentEnds, TurnsTyped, Moved
<1>c. /\ turns' \in [Members -> MemberTurn]
      /\ \A n \in Members :
           /\ turns'[n].batch = turns[n].batch /\ turns'[n].message = turns[n].message
           /\ turns'[n].status # turns[n].status =>
                  n = m /\ turns[n].status = "running" /\ turns'[n].status = "cancelled"
  BY <1>b DEF Moved
<1>1. RowsTyped'
  BY <1>a DEF RowsTyped
<1>2. TurnsTyped'
  <2>1. /\ task' \in [Members -> {"none", "starting", "running", "final", "done"}]
        /\ agent' \in [Members -> {"none", "running", "asking", "stopping"}]
    BY <1>a, <1>b DEF TurnsTyped
  <2>2. \A n \in Members :
          /\ task'[n] = IF n = m THEN "final" ELSE task[n]
          /\ agent'[n] = IF n = m THEN "none" ELSE agent[n]
    BY <1>a, <1>b DEF TurnsTyped
  <2>3. task[m] # "none"
    BY <1>b
  <2> QED BY <1>c, <2>1, <2>2, <2>3 DEF TurnsTyped
<1>3. RestTyped'
  BY <1>a DEF RestTyped
<1>4. BatchesSettled'
  BY <1>a, <1>b, <1>c, MovedRows DEF BatchesSettled
<1>5. RowsOwned'
  BY <1>a, <1>b, <1>c, MovedRows DEF RowsOwned, OwnRow
<1>6. OpenRowsServed'
  BY <1>a, <1>b, <1>c, MovedRows DEF OpenRowsServed
<1>7. ApprovalsServed'
  BY <1>a, <1>b, <1>c, MovedRows DEF ApprovalsServed, TurnsTyped, RestTyped
<1>8. Controlled'
  BY <1>a, <1>b, <1>c, MovedRows DEF Controlled, Unseen, TurnsTyped
<1>9. DeviceCutOff'
  BY <1>a, <1>b, <1>c, MovedRows DEF DeviceCutOff, OfDevice, RestTyped
<1> QED BY <1>1, <1>2, <1>3, <1>4, <1>5, <1>6, <1>7, <1>8, <1>9

LEMMA RetryDueKeeps ==
    ASSUME ChanInv, NEW m \in Members, RetryDue(m) PROVE ChanInv'
<1> USE ChannelAssumption DEF ChanInv
<1>a. UNCHANGED <<messages, delivered, turns, task, agent, permissions, timer, paused, control, cut, revocation, deviceCut, queued, dispatching, mishaps>>
  BY DEF RetryDue, requestVars
<1>1. RowsTyped'
  BY <1>a DEF RowsTyped
<1>2. TurnsTyped'
  BY <1>a DEF TurnsTyped
<1>3. RestTyped'
  BY <1>a DEF RestTyped, RetryDue
<1>4. BatchesSettled'
  BY <1>a DEF BatchesSettled
<1>5. RowsOwned'
  BY <1>a DEF RowsOwned, OwnRow
<1>6. OpenRowsServed'
  BY <1>a DEF OpenRowsServed
<1>7. ApprovalsServed'
  BY <1>a DEF ApprovalsServed
<1>8. Controlled'
  BY <1>a DEF Controlled, Unseen
<1>9. DeviceCutOff'
  BY <1>a DEF DeviceCutOff, OfDevice
<1> QED BY <1>1, <1>2, <1>3, <1>4, <1>5, <1>6, <1>7, <1>8, <1>9

LEMMA ControlCancelsKeeps ==
    ASSUME ChanInv, ControlCancels PROVE ChanInv'
<1> USE ChannelAssumption DEF ChanInv
<1>a. UNCHANGED <<messages, delivered, turns, task, retries, timer, paused, revocation, deviceCut, queued, dispatching, mishaps>>
  BY DEF ControlCancels, CancelTurns, requestVars
<1>1. RowsTyped'
  BY <1>a DEF RowsTyped
<1>2. TurnsTyped'
  BY <1>a DEF TurnsTyped, ControlCancels, CancelTurns
<1>3. RestTyped'
  BY <1>a DEF RestTyped, ControlCancels, CancelTurns
<1>4. BatchesSettled'
  BY <1>a DEF BatchesSettled
<1>5. RowsOwned'
  BY <1>a DEF RowsOwned, OwnRow
<1>6. OpenRowsServed'
  BY <1>a DEF OpenRowsServed
<1>7. ApprovalsServed'
  BY <1>a DEF ApprovalsServed, TurnsTyped, RestTyped, ControlCancels, CancelTurns
<1>8. Controlled'
  BY <1>a DEF Controlled, Unseen, TurnsTyped, ControlCancels, CancelTurns
<1>9. DeviceCutOff'
  BY <1>a DEF DeviceCutOff, OfDevice
<1> QED BY <1>1, <1>2, <1>3, <1>4, <1>5, <1>6, <1>7, <1>8, <1>9

LEMMA ControlEndsKeeps ==
    ASSUME ChanInv, ControlEnds PROVE ChanInv'
<1> USE ChannelAssumption DEF ChanInv
<1>a. UNCHANGED <<messages, delivered, turns, task, agent, retries, permissions, cut, revocation, deviceCut, queued, dispatching, mishaps>>
  BY DEF ControlEnds, Schedule, requestVars
<1>1. RowsTyped'
  BY <1>a DEF RowsTyped
<1>2. TurnsTyped'
  BY <1>a DEF TurnsTyped
<1>3. RestTyped'
  BY <1>a DEF RestTyped, ControlEnds, Schedule
<1>4. BatchesSettled'
  BY <1>a DEF BatchesSettled
<1>5. RowsOwned'
  BY <1>a DEF RowsOwned, OwnRow
<1>6. OpenRowsServed'
  BY <1>a DEF OpenRowsServed
<1>7. ApprovalsServed'
  BY <1>a DEF ApprovalsServed
<1>8. Controlled'
  BY <1>a DEF Controlled, Unseen, TurnsTyped, ControlEnds, Schedule
<1>9. DeviceCutOff'
  BY <1>a DEF DeviceCutOff, OfDevice
<1> QED BY <1>1, <1>2, <1>3, <1>4, <1>5, <1>6, <1>7, <1>8, <1>9

LEMMA QueueMessageKeeps ==
    ASSUME ChanInv, QueueMessage PROVE ChanInv'
<1> USE ChannelAssumption DEF ChanInv
<1>a. UNCHANGED <<messages, delivered, turns, task, agent, retries, permissions, timer, paused, control, cut, revocation, deviceCut, mishaps>>
  BY DEF QueueMessage, Room, requestVars
<1>1. RowsTyped'
  BY <1>a DEF RowsTyped, QueueMessage, Room
<1>2. TurnsTyped'
  BY <1>a DEF TurnsTyped
<1>3. RestTyped'
  BY <1>a DEF RestTyped, QueueMessage, Room
<1>4. BatchesSettled'
  BY <1>a DEF BatchesSettled
<1>5. RowsOwned'
  BY <1>a DEF RowsOwned, OwnRow
<1>6. OpenRowsServed'
  BY <1>a DEF OpenRowsServed
<1>7. ApprovalsServed'
  BY <1>a DEF ApprovalsServed
<1>8. Controlled'
  BY <1>a DEF Controlled, Unseen
<1>9. DeviceCutOff'
  BY <1>a DEF DeviceCutOff, OfDevice
<1> QED BY <1>1, <1>2, <1>3, <1>4, <1>5, <1>6, <1>7, <1>8, <1>9

LEMMA DispatchFailsKeeps ==
    ASSUME ChanInv, DispatchFails PROVE ChanInv'
<1> USE ChannelAssumption DEF ChanInv
<1>a. UNCHANGED <<messages, delivered, turns, task, agent, retries, permissions, paused, control, cut, revocation, deviceCut, queued>>
  BY DEF DispatchFails, requestVars
<1>b. dispatching' = FALSE /\ timer' = TRUE /\ mishaps' \in 0..MaxMishaps
  BY MishapBound DEF DispatchFails
<1>1. RowsTyped'
  BY <1>a DEF RowsTyped
<1>2. TurnsTyped'
  BY <1>a DEF TurnsTyped
<1>3. RestTyped'
  BY <1>a, <1>b DEF RestTyped
<1>4. BatchesSettled'
  BY <1>a DEF BatchesSettled
<1>5. RowsOwned'
  BY <1>a DEF RowsOwned, OwnRow
<1>6. OpenRowsServed'
  BY <1>a DEF OpenRowsServed
<1>7. ApprovalsServed'
  BY <1>a DEF ApprovalsServed
<1>8. Controlled'
  BY <1>a DEF Controlled, Unseen
<1>9. DeviceCutOff'
  BY <1>a DEF DeviceCutOff, OfDevice
<1> QED BY <1>1, <1>2, <1>3, <1>4, <1>5, <1>6, <1>7, <1>8, <1>9

LEMMA RevokeKeeps ==
    ASSUME ChanInv, Revoke PROVE ChanInv'
<1> USE ChannelAssumption DEF ChanInv
<1>a. UNCHANGED <<messages, delivered, turns, task, agent, retries, permissions, timer, paused, control, cut, deviceCut, queued, dispatching>>
  BY DEF Revoke, requestVars
<1>b. revocation' = "committed" /\ mishaps' \in 0..MaxMishaps
  BY MishapBound DEF Revoke
<1>1. RowsTyped'
  BY <1>a DEF RowsTyped
<1>2. TurnsTyped'
  BY <1>a DEF TurnsTyped
<1>3. RestTyped'
  BY <1>a, <1>b DEF RestTyped
<1>4. BatchesSettled'
  BY <1>a DEF BatchesSettled
<1>5. RowsOwned'
  BY <1>a DEF RowsOwned, OwnRow
<1>6. OpenRowsServed'
  BY <1>a DEF OpenRowsServed
<1>7. ApprovalsServed'
  BY <1>a DEF ApprovalsServed
<1>8. Controlled'
  BY <1>a DEF Controlled, Unseen
<1>9. DeviceCutOff'
  BY <1>a, <1>b DEF DeviceCutOff, OfDevice, RestTyped
<1> QED BY <1>1, <1>2, <1>3, <1>4, <1>5, <1>6, <1>7, <1>8, <1>9

LEMMA CancelDeviceTurnsKeeps ==
    ASSUME ChanInv, CancelDeviceTurns PROVE ChanInv'
<1> USE ChannelAssumption DEF ChanInv
<1>a. UNCHANGED <<messages, delivered, turns, task, retries, timer, paused, control, cut, queued, dispatching, mishaps>>
  BY DEF CancelDeviceTurns, CancelTurns, requestVars
<1>1. RowsTyped'
  BY <1>a DEF RowsTyped
<1>2. TurnsTyped'
  BY <1>a DEF TurnsTyped, CancelDeviceTurns, CancelTurns
<1>3. RestTyped'
  BY <1>a DEF RestTyped, CancelDeviceTurns, CancelTurns
<1>4. BatchesSettled'
  BY <1>a DEF BatchesSettled
<1>5. RowsOwned'
  BY <1>a DEF RowsOwned, OwnRow
<1>6. OpenRowsServed'
  BY <1>a DEF OpenRowsServed
<1>7. ApprovalsServed'
  BY <1>a DEF ApprovalsServed, TurnsTyped, RestTyped, CancelDeviceTurns, CancelTurns
<1>8. Controlled'
  BY <1>a DEF Controlled, Unseen
<1>9. DeviceCutOff'
  BY <1>a DEF DeviceCutOff, OfDevice, RestTyped, CancelDeviceTurns, CancelTurns
<1> QED BY <1>1, <1>2, <1>3, <1>4, <1>5, <1>6, <1>7, <1>8, <1>9

LEMMA BeginSpeakingKeeps ==
    ASSUME ChanInv, NEW m \in Members, BeginSpeaking(m) PROVE ChanInv'
<1> USE ChannelAssumption DEF ChanInv
<1>a. UNCHANGED <<delivered, task, agent, retries, permissions, timer, paused, control, cut, revocation, deviceCut, queued, dispatching, mishaps>>
  BY DEF BeginSpeaking, requestVars
<1>b. /\ messages' \in Seq(Message) /\ Len(messages') = Len(messages) + 1
      /\ DOMAIN messages' = DOMAIN messages \cup {Len(messages) + 1}
      /\ Len(messages) + 1 \notin DOMAIN messages /\ Len(messages) \in Nat
      /\ messages'[Len(messages) + 1].by = m
      /\ messages'[Len(messages) + 1].status = "streaming"
      /\ \A i \in DOMAIN messages : messages'[i] = messages[i]
  <2> DEFINE r == Row(m, {}, OfDevice(turns[m].batch), "streaming")
  <2>1. OfDevice(turns[m].batch) \in BOOLEAN
    BY DEF OfDevice
  <2>2. r \in Message /\ r.by = m /\ r.status = "streaming"
    BY <2>1, RowType DEF Row
  <2>3. messages' = Append(messages, r)
    BY DEF BeginSpeaking
  <2> HIDE DEF r
  <2> QED BY <2>2, <2>3, AddRow DEF RowsTyped
<1>c. /\ turns[m].status = "running" /\ turns[m].message = 0 /\ Len(messages) + queued < MaxMessages
      /\ turns' \in [Members -> MemberTurn]
      /\ \A n \in Members :
           /\ turns'[n].batch = turns[n].batch /\ turns'[n].status = turns[n].status
           /\ turns'[n].message = IF n = m THEN Len(messages) + 1 ELSE turns[n].message
  <2>1. turns' = [turns EXCEPT ![m].message = Len(messages) + 1] /\ Len(messages) + queued < MaxMessages
        /\ turns[m].status = "running" /\ turns[m].message = 0
    BY DEF BeginSpeaking, Room
  <2>2. Len(messages) + 1 \in 0..MaxMessages
    BY <1>b, <2>1 DEF RowsTyped
  <2>3. \A n \in Members : turns[n] \in MemberTurn
    BY DEF TurnsTyped
  <2>4. [turns[m] EXCEPT !.message = Len(messages) + 1] \in MemberTurn
    BY <2>2, <2>3 DEF MemberTurn
  <2>5. \A n \in Members : turns'[n] = IF n = m THEN [turns[n] EXCEPT !.message = Len(messages) + 1]
                                               ELSE turns[n]
    BY <2>1 DEF TurnsTyped
  <2>6. turns' \in [Members -> MemberTurn]
    BY <2>1, <2>4 DEF TurnsTyped
  <2> QED BY <2>1, <2>3, <2>5, <2>6 DEF MemberTurn
<1>1. RowsTyped'
  BY <1>a, <1>b, <1>c DEF RowsTyped
<1>2. TurnsTyped'
  BY <1>a, <1>b, <1>c DEF TurnsTyped
<1>3. RestTyped'
  BY <1>a DEF RestTyped
<1>4. BatchesSettled'
  BY <1>a, <1>b, <1>c DEF BatchesSettled
<1>5. RowsOwned'
  BY <1>a, <1>b, <1>c DEF RowsOwned, OwnRow
<1>6. OpenRowsServed'
  BY <1>a, <1>b, <1>c DEF OpenRowsServed
<1>7. ApprovalsServed'
  BY <1>a, <1>b, <1>c DEF ApprovalsServed, TurnsTyped, RestTyped
<1>8. Controlled'
  BY <1>a, <1>b, <1>c DEF Controlled, Unseen, TurnsTyped
<1>9. DeviceCutOff'
  BY <1>a, <1>b, <1>c DEF DeviceCutOff, OfDevice, RestTyped, BatchesSettled
<1> QED BY <1>1, <1>2, <1>3, <1>4, <1>5, <1>6, <1>7, <1>8, <1>9

(* How a finished turn leaves the rows: its own is closed, completed or still to come,
   and nobody else's changes. *)
RowEnds(m) ==
    /\ messages' \in Seq(Message) /\ Len(messages') + queued <= MaxMessages
    /\ DOMAIN messages \subseteq DOMAIN messages'
    /\ \A i \in DOMAIN messages' :
         IF i \in DOMAIN messages /\ ~(i = turns[m].message /\ turns[m].status # "finished")
         THEN messages'[i] = messages[i]
         ELSE messages'[i].status # "streaming"
    /\ turns[m].status # "running" => DOMAIN messages' = DOMAIN messages

LEMMA CloseEnds ==
    ASSUME ChanInv, NEW m \in Members,
           messages' = Close(IF turns[m].status = "finished" THEN {} ELSE {turns[m].message})
    PROVE  RowEnds(m)
<1> USE DEF ChanInv
<1>1. Len(messages) + queued <= MaxMessages /\ messages \in Seq(Message)
  BY DEF RowsTyped
<1>2. CASE turns[m].status = "finished"
  BY <1>1, <1>2, CloseRows DEF RowEnds
<1>3. CASE turns[m].status # "finished"
  BY <1>1, <1>3, CloseRows DEF RowEnds
<1> QED BY <1>2, <1>3

LEMMA ReplyEnds ==
    ASSUME ChanInv, NEW m \in Members, turns[m].status = "running", NEW reply \in Message,
           reply.status = "completed",
           IF turns[m].message = 0
           THEN Room /\ messages' = Append(messages, reply)
           ELSE messages' = [messages EXCEPT ![turns[m].message] = reply]
    PROVE  RowEnds(m)
<1> USE DEF ChanInv
<1>1. Len(messages) + queued <= MaxMessages /\ messages \in Seq(Message) /\ Len(messages) \in Nat
      /\ queued \in Nat
  BY DEF RowsTyped
<1>2. CASE turns[m].message = 0
  <2>1. 0 \notin DOMAIN messages /\ MaxMessages \in Nat
    BY <1>1, ChannelAssumption
  <2>2. Len(messages) + queued < MaxMessages /\ messages' = Append(messages, reply)
    BY <1>2 DEF Room
  <2> QED BY <1>1, <1>2, <2>1, <2>2, AddRow DEF RowEnds
<1>3. CASE turns[m].message # 0
  <2> DEFINE k == turns[m].message
  <2>1. k \in DOMAIN messages /\ messages' = [messages EXCEPT ![k] = reply]
    BY <1>3 DEF RowsOwned, OwnRow
  <2>2. messages' \in Seq(Message) /\ Len(messages') = Len(messages)
        /\ DOMAIN messages' = DOMAIN messages
        /\ \A i \in DOMAIN messages : messages'[i] = IF i = k THEN reply ELSE messages[i]
    BY <1>1, <2>1
  <2> QED BY <1>1, <2>2 DEF RowEnds
<1> QED BY <1>2, <1>3

LEMMA FinishRows ==
    ASSUME ChanInv, NEW m \in Members, FinishTurn(m)
    PROVE  /\ RowEnds(m) /\ delivered' \in [Members -> SUBSET DOMAIN messages']
           /\ retries' \in [Members -> {"none", "waiting", "due"}]
           /\ turns[m].status # "running" => UNCHANGED delivered
<1> USE DEF ChanInv
<1>1. CASE turns[m].status = "running"
  <2>1. RowEnds(m)
    <3>1. CASE messages' = Close({turns[m].message})
      BY <1>1, <3>1, CloseEnds
    <3>2. ASSUME NEW to \in ReplyAudiences(m),
                 LET reply == Row(m, to, OfDevice(turns[m].batch), "completed") IN
                 IF turns[m].message = 0
                 THEN Room /\ messages' = Append(messages, reply)
                 ELSE messages' = [messages EXCEPT ![turns[m].message] = reply]
          PROVE  RowEnds(m)
      <4> DEFINE reply == Row(m, to, OfDevice(turns[m].batch), "completed")
      <4>1. to \in SUBSET Members
        <5>1. \A i \in turns[m].batch : messages[i] \in Message
          BY DEF BatchesSettled, RowsTyped
        <5>2. \A i \in turns[m].batch : messages[i].to \subseteq Members
                                        /\ messages[i].by \in Members \cup {User}
          BY <5>1 DEF Message
        <5> DEFINE heard == {i \in turns[m].batch : m \in messages[i].to}
                   of(i) == messages[i].to \cup ({messages[i].by} \ {User})
        <5>3. \A i \in heard : of(i) \subseteq Members
          BY <5>2
        <5>4. to \subseteq UNION {of(i) : i \in heard} \/ to \subseteq Members
          BY DEF ReplyAudiences
        <5> HIDE DEF heard, of
        <5> QED BY <5>3, <5>4
      <4>2. OfDevice(turns[m].batch) \in BOOLEAN
        BY DEF OfDevice
      <4>3. reply \in Message /\ reply.status = "completed"
        BY <4>1, <4>2, RowType DEF Row
      <4> HIDE DEF reply
      <4>4. IF turns[m].message = 0
            THEN Room /\ messages' = Append(messages, reply)
            ELSE messages' = [messages EXCEPT ![turns[m].message] = reply]
        BY <3>2 DEF reply
      <4> QED BY <1>1, <4>3, <4>4, ReplyEnds
    <3> QED BY <1>1, <3>1, <3>2 DEF FinishTurn, Delivers
  <2>2. retries' = [retries EXCEPT ![m] = "none"]
        /\ delivered' = [delivered EXCEPT ![m] = @ \cup turns[m].batch]
    BY <1>1 DEF FinishTurn, Delivers
  <2>3. delivered' \in [Members -> SUBSET DOMAIN messages']
    BY <2>1, <2>2 DEF RowEnds, BatchesSettled, RowsTyped
  <2> QED BY <1>1, <2>1, <2>2, <2>3 DEF RestTyped
<1>2. CASE turns[m].status # "running"
  <2>1. messages' = Close(IF turns[m].status = "finished" THEN {} ELSE {turns[m].message})
        /\ UNCHANGED <<retries, delivered>>
    BY <1>2 DEF FinishTurn, Delivers
  <2>2. RowEnds(m)
    BY <2>1, CloseEnds
  <2> QED BY <1>2, <2>1, <2>2 DEF RowEnds, RowsTyped, RestTyped
<1> QED BY <1>1, <1>2

LEMMA FinishTurnKeeps ==
    ASSUME ChanInv, NEW m \in Members, FinishTurn(m) PROVE ChanInv'
<1> USE ChannelAssumption DEF ChanInv
<1>a. UNCHANGED <<paused, control, cut, revocation, deviceCut, queued, dispatching, mishaps>>
  BY DEF FinishTurn, requestVars
<1>b. /\ RowEnds(m) /\ delivered' \in [Members -> SUBSET DOMAIN messages']
      /\ retries' \in [Members -> {"none", "waiting", "due"}]
      /\ turns[m].status # "running" => UNCHANGED delivered
  BY FinishRows
<1>c. /\ task[m] = "final" /\ permissions' = permissions \ {m} /\ timer' = ~paused
      /\ turns' \in [Members -> MemberTurn]
      /\ \A n \in Members :
           /\ turns'[n] = IF n = m THEN Absent ELSE turns[n]
           /\ task'[n] = IF n = m THEN "none" ELSE task[n]
      /\ task' \in [Members -> {"none", "starting", "running", "final", "done"}]
      /\ agent' = agent
  <2>1. task[m] = "final" /\ turns' = [turns EXCEPT ![m] = Absent] /\ task' = [task EXCEPT ![m] = "none"]
        /\ permissions' = permissions \ {m} /\ timer' = ~paused
        /\ agent' = [n \in Members |-> IF n \in {m} \cap permissions THEN "running" ELSE agent[n]]
    BY DEF FinishTurn, Pop, Resolve, Schedule
  <2>2. Absent \in MemberTurn
    BY ChannelAssumption DEF Absent, MemberTurn
  <2>3. m \notin permissions
    BY <2>1 DEF ApprovalsServed, TurnsTyped
  <2>4. agent' = agent
    BY <2>1, <2>3 DEF TurnsTyped
  <2> QED BY <2>1, <2>2, <2>4 DEF TurnsTyped
<1>d. /\ Absent.status = "none" /\ Absent.batch = {} /\ Absent.message = 0
      /\ messages \in Seq(Message) /\ 0 \notin DOMAIN messages
      /\ \A n \in Members : OwnRow(n)
  BY DEF Absent, RowsTyped, RowsOwned
<1>e. /\ messages' \in Seq(Message) /\ DOMAIN messages \subseteq DOMAIN messages'
      /\ \A i \in DOMAIN messages :
           \/ messages'[i] = messages[i]
           \/ i = turns[m].message /\ turns[m].status # "finished" /\ messages'[i].status # "streaming"
      /\ \A i \in DOMAIN messages' : i \in DOMAIN messages \/ messages'[i].status # "streaming"
      /\ turns[m].status \in {"none", "finished"} =>
            /\ DOMAIN messages' = DOMAIN messages
            /\ \A i \in DOMAIN messages : messages'[i] = messages[i]
  BY <1>b, <1>d DEF RowEnds, TurnsTyped
<1>f. \A n \in Members \ {m} : /\ turns'[n] = turns[n]
                               /\ turns[n].message # 0 /\ turns[n].status # "finished"
                                     => messages'[turns[n].message] = messages[turns[n].message]
  BY <1>c, <1>d, <1>e DEF OwnRow
<1>g. RowsTyped' /\ turns'[m] = Absent
  BY <1>a, <1>b, <1>c DEF RowEnds, RowsTyped
<1>1. RowsTyped'
  BY <1>g
<1>2. TurnsTyped'
  BY <1>a, <1>b, <1>c, <1>d, <1>e, <1>f DEF TurnsTyped
<1>3. RestTyped'
  BY <1>a, <1>b, <1>c, <1>d, <1>e, <1>f DEF RestTyped
<1>4. BatchesSettled'
  <2>1. ASSUME NEW n \in Members \ {m}, NEW i \in turns[n].batch
        PROVE  i \in DOMAIN messages' /\ messages'[i].status # "streaming"
    BY <1>e DEF BatchesSettled
  <2> QED BY <1>c, <1>d, <1>f, <2>1 DEF BatchesSettled
<1>5. RowsOwned'
  <2>1. ASSUME NEW n \in Members \ {m} PROVE OwnRow(n)'
    BY <1>d, <1>e, <1>f DEF OwnRow
  <2>2. OwnRow(m)'
    BY <1>d, <1>g DEF OwnRow
  <2> QED BY <2>1, <2>2 DEF RowsOwned
<1>6. OpenRowsServed'
  <2>1. ASSUME NEW i \in DOMAIN messages', messages'[i].status = "streaming"
        PROVE  \E n \in Members : turns'[n].message = i /\ turns'[n].status # "finished"
    <3>1. i \in DOMAIN messages /\ messages[i].status = "streaming"
      BY <1>e, <2>1
    <3>2. PICK n \in Members : turns[n].message = i /\ turns[n].status # "finished"
      BY <3>1 DEF OpenRowsServed
    <3>3. n # m
      BY <1>e, <2>1, <3>1, <3>2, <1>b DEF RowEnds
    <3> QED BY <1>f, <3>2, <3>3
  <2> QED BY <2>1 DEF OpenRowsServed
<1>7. ApprovalsServed'
  BY <1>a, <1>b, <1>c, <1>d, <1>e, <1>f DEF ApprovalsServed, TurnsTyped, RestTyped
<1>8. Controlled'
  <2>1. ASSUME control \in {"stopping", "stopped"}, NEW n \in Members
        PROVE  Unseen(n)' = {} /\ turns'[n].status \in {"none", "finished"}
    <3>1. turns[m].status = "finished" \/ turns[m].status = "none"
      BY <2>1 DEF Controlled
    <3>2. UNCHANGED delivered /\ DOMAIN messages' = DOMAIN messages
          /\ \A i \in DOMAIN messages : messages'[i] = messages[i]
      BY <1>b, <1>e, <3>1
    <3>3. Unseen(n)' = Unseen(n)
      BY <3>2 DEF Unseen
    <3> QED BY <1>c, <1>d, <2>1, <3>3 DEF Controlled
  <2> QED BY <1>a, <2>1 DEF Controlled
<1>9. DeviceCutOff'
  <2>1. ASSUME revocation \in {"cutting", "done"}, NEW n \in Members, turns'[n].status = "running",
               NEW i \in turns'[n].batch
        PROVE  ~messages'[i].device
    <3>1. n # m /\ turns'[n] = turns[n]
      BY <1>d, <1>f, <1>g, <2>1
    <3>2. i \in DOMAIN messages /\ messages[i].status # "streaming" /\ ~messages[i].device
      BY <2>1, <3>1 DEF BatchesSettled, DeviceCutOff, OfDevice
    <3>3. ~(i = turns[m].message /\ turns[m].status # "finished")
      BY <1>d, <3>2, <3>1 DEF OwnRow
    <3> QED BY <1>e, <3>2, <3>3
  <2> QED BY <1>a, <2>1 DEF DeviceCutOff, OfDevice
<1> QED BY <1>1, <1>2, <1>3, <1>4, <1>5, <1>6, <1>7, <1>8, <1>9

LEMMA FinishFailsKeeps ==
    ASSUME ChanInv, NEW m \in Members, FinishFails(m) PROVE ChanInv'
<1> USE ChannelAssumption DEF ChanInv
<1>a. UNCHANGED <<delivered, paused, control, cut, revocation, deviceCut, queued, dispatching>>
  BY DEF FinishFails, requestVars
<1>b. /\ task[m] = "final" /\ turns[m].status \notin {"none", "finished"}
      /\ permissions' = permissions \ {m} /\ timer' = ~paused /\ mishaps' \in 0..MaxMishaps
      /\ retries' \in [Members -> {"none", "waiting", "due"}]
      /\ task' = [task EXCEPT ![m] = "done"]
      /\ agent' = agent
  <2>1. task[m] = "final" /\ turns[m].status # "finished" /\ Mishap
        /\ task' = [task EXCEPT ![m] = "done"] /\ (UNCHANGED retries \/ BackOff({m}))
        /\ permissions' = permissions \ {m} /\ timer' = ~paused
        /\ agent' = [n \in Members |-> IF n \in {m} \cap permissions THEN "running" ELSE agent[n]]
    BY DEF FinishFails, Resolve, Schedule
  <2>2. m \notin permissions /\ turns[m].status # "none"
    BY <2>1 DEF ApprovalsServed, TurnsTyped
  <2>3. agent' = agent
    BY <2>1, <2>2 DEF TurnsTyped
  <2>4. retries' \in [Members -> {"none", "waiting", "due"}]
    BY <2>1 DEF RestTyped, BackOff
  <2> QED BY <2>1, <2>2, <2>3, <2>4, MishapBound
<1>c. /\ turns' \in [Members -> MemberTurn]
      /\ messages' \in Seq(Message) /\ Len(messages') + queued <= MaxMessages
      /\ DOMAIN messages \subseteq DOMAIN messages'
      /\ \A i \in DOMAIN messages : messages'[i] = messages[i]
      /\ \A n \in Members :
           /\ turns'[n].batch = turns[n].batch
           /\ turns'[n].status = IF n = m THEN "failed" ELSE turns[n].status
           /\ n # m => turns'[n].message = turns[n].message
      /\ turns'[m].message \in {turns[m].message} \cup (DOMAIN messages' \ DOMAIN messages)
      /\ turns'[m].message # turns[m].message => turns[m].message = 0
      /\ \A i \in DOMAIN messages' \ DOMAIN messages :
           i = turns'[m].message /\ messages'[i].by = m /\ messages'[i].status = "streaming"
  <2>1. CASE turns' = [turns EXCEPT ![m].status = "failed"] /\ UNCHANGED messages
    <3>1. Moved(m, "failed")
      BY <2>1, StatusMoves DEF TurnsTyped
    <3> QED BY <2>1, <3>1 DEF Moved, RowsTyped
  <2>2. CASE /\ turns[m].message = 0 /\ Room
             /\ messages' = Append(messages, Row(m, {}, OfDevice(turns[m].batch), "streaming"))
             /\ turns' = [turns EXCEPT ![m].status = "failed", ![m].message = Len(messages) + 1]
    <3> DEFINE r == Row(m, {}, OfDevice(turns[m].batch), "streaming")
    <3>1. r \in Message /\ r.by = m /\ r.status = "streaming"
      <4>1. OfDevice(turns[m].batch) \in BOOLEAN
        BY DEF OfDevice
      <4> QED BY <4>1, RowType DEF Row
    <3> HIDE DEF r
    <3>2. messages' = Append(messages, r)
      BY <2>2 DEF r
    <3>3. /\ messages' \in Seq(Message) /\ Len(messages') = Len(messages) + 1
          /\ DOMAIN messages' = DOMAIN messages \cup {Len(messages) + 1}
          /\ Len(messages) + 1 \notin DOMAIN messages /\ Len(messages) \in Nat
          /\ messages'[Len(messages) + 1] = r
          /\ \A i \in DOMAIN messages : messages'[i] = messages[i]
      BY <3>1, <3>2, AddRow DEF RowsTyped
    <3>4. Len(messages) + 1 \in 0..MaxMessages /\ Len(messages') + queued <= MaxMessages
      BY <2>2, <3>3, ChannelAssumption DEF Room, RowsTyped
    <3>5. \A n \in Members : turns[n] \in MemberTurn
      BY DEF TurnsTyped
    <3>6. [turns[m] EXCEPT !.status = "failed", !.message = Len(messages) + 1] \in MemberTurn
      BY <3>4, <3>5 DEF MemberTurn
    <3>7. \A n \in Members : turns'[n] = IF n = m
              THEN [turns[n] EXCEPT !.status = "failed", !.message = Len(messages) + 1] ELSE turns[n]
      BY <2>2 DEF TurnsTyped
    <3>8. turns' \in [Members -> MemberTurn]
      BY <2>2, <3>5, <3>6, <3>7 DEF TurnsTyped
    <3>9. /\ turns'[m].status = "failed" /\ turns'[m].message = Len(messages) + 1
          /\ turns'[m].batch = turns[m].batch
      BY <3>5, <3>7 DEF MemberTurn
    <3> QED BY <2>2, <3>1, <3>3, <3>4, <3>5, <3>7, <3>8, <3>9
  <2> QED BY <2>1, <2>2 DEF FinishFails
<1>d. /\ delivered \in [Members -> SUBSET DOMAIN messages'] /\ 0 \notin DOMAIN messages
      /\ \A n \in Members :
           turns[n].message # 0 /\ turns[n].status # "finished" => turns[n].message \in DOMAIN messages
  BY <1>c DEF RowsTyped, RowsOwned, OwnRow
<1>e. ~(control \in {"stopping", "stopped"})
  BY <1>b DEF Controlled
<1>1. RowsTyped'
  BY <1>a, <1>b, <1>c, <1>d DEF RowsTyped
<1>2. TurnsTyped'
  <2>1. /\ task' \in [Members -> {"none", "starting", "running", "final", "done"}]
        /\ \A n \in Members : task'[n] = IF n = m THEN "done" ELSE task[n]
    BY <1>b DEF TurnsTyped
  <2>2. turns[m].status # "none" /\ task[m] = "final"
    BY <1>b
  <2> QED BY <1>b, <1>c, <2>1, <2>2 DEF TurnsTyped
<1>3. RestTyped'
  BY <1>a, <1>b, <1>c, <1>d DEF RestTyped
<1>4. BatchesSettled'
  BY <1>a, <1>b, <1>c, <1>d DEF BatchesSettled
<1>5. RowsOwned'
  <2>1. ASSUME NEW n \in Members PROVE OwnRow(n)'
    <3>1. OwnRow(n)
      BY DEF RowsOwned
    <3>2. CASE turns'[n].message = turns[n].message
      BY <1>b, <1>c, <1>d, <3>1, <3>2 DEF OwnRow
    <3>3. CASE turns'[n].message # turns[n].message
      <4>1. n = m
        BY <1>c, <3>3
      <4> QED BY <1>c, <3>3, <4>1 DEF OwnRow
    <3> QED BY <3>2, <3>3
  <2> QED BY <2>1 DEF RowsOwned
<1>6. OpenRowsServed'
  <2>1. ASSUME NEW i \in DOMAIN messages', messages'[i].status = "streaming"
        PROVE  \E n \in Members : turns'[n].message = i /\ turns'[n].status # "finished"
    <3>1. CASE i \in DOMAIN messages
      <4>1. PICK n \in Members : turns[n].message = i /\ turns[n].status # "finished"
        BY <1>c, <2>1, <3>1 DEF OpenRowsServed
      <4>2. i # 0
        BY <1>d, <3>1
      <4> QED BY <1>c, <4>1, <4>2
    <3>2. CASE i \notin DOMAIN messages
      BY <1>c, <2>1, <3>2
    <3> QED BY <3>1, <3>2
  <2> QED BY <2>1 DEF OpenRowsServed
<1>7. ApprovalsServed'
  BY <1>a, <1>b, <1>c, <1>d DEF ApprovalsServed, TurnsTyped, RestTyped
<1>8. Controlled'
  BY <1>a, <1>e DEF Controlled
<1>9. DeviceCutOff'
  BY <1>a, <1>b, <1>c, <1>d DEF DeviceCutOff, OfDevice, RestTyped, BatchesSettled
<1> QED BY <1>1, <1>2, <1>3, <1>4, <1>5, <1>6, <1>7, <1>8, <1>9

-----------------------------------------------------------------------------
(* The queue and the wakes *)

(* The rows are those given, followed perhaps by a message of the queue. *)
Sent(rows) ==
    /\ messages' \in Seq(Message) /\ queued' \in 0..MaxQueued
    /\ Len(messages') + queued' <= MaxMessages
    /\ DOMAIN rows \subseteq DOMAIN messages'
    /\ \A i \in DOMAIN rows : messages'[i] = rows[i]
    /\ \A i \in DOMAIN messages' \ DOMAIN rows : messages'[i].status = "completed"

LEMMA SendNext ==
    ASSUME queued \in 0..MaxQueued, NEW ts, NEW rs, NEW rows \in Seq(Message), NEW armed \in BOOLEAN,
           Len(rows) + queued <= MaxMessages, SendNextQueued(ts, rs, rows, armed)
    PROVE  /\ Sent(rows) /\ timer' \in BOOLEAN
           /\ \/ messages' = rows /\ timer' = armed
              \/ timer' = TRUE /\ ~paused
<1>1. CASE Idle(ts, rs, armed) /\ queued > 0
  <2>1. PICK to \in SUBSET Members \ {{}}, device \in BOOLEAN :
            messages' = Append(rows, Row(User, to, device, "completed"))
    BY <1>1 DEF SendNextQueued
  <2> DEFINE r == Row(User, to, device, "completed")
  <2>2. r \in Message /\ r.status = "completed"
    BY RowType DEF Row
  <2>3. queued' = queued - 1 /\ timer' = TRUE /\ ~paused
    BY <1>1 DEF SendNextQueued, Idle
  <2>4. messages' = Append(rows, r)
    BY <2>1
  <2> HIDE DEF r
  <2>5. /\ messages' \in Seq(Message) /\ Len(messages') = Len(rows) + 1 /\ Len(rows) \in Nat
        /\ DOMAIN messages' = DOMAIN rows \cup {Len(rows) + 1}
        /\ messages'[Len(rows) + 1] = r /\ \A i \in DOMAIN rows : messages'[i] = rows[i]
    BY <2>2, <2>4, AddRow
  <2>6. queued' \in 0..MaxQueued /\ Len(messages') + queued' <= MaxMessages
    BY <1>1, <2>3, <2>5, ChannelAssumption
  <2> QED BY <2>2, <2>3, <2>5, <2>6 DEF Sent
<1>2. CASE ~(Idle(ts, rs, armed) /\ queued > 0)
  BY <1>2 DEF SendNextQueued, Sent
<1> QED BY <1>1, <1>2

LEMMA DispatchQueuedKeeps ==
    ASSUME ChanInv, DispatchQueued PROVE ChanInv'
<1> USE ChannelAssumption DEF ChanInv
<1>a. UNCHANGED <<delivered, turns, task, agent, retries, permissions, paused, control, cut, revocation, deviceCut, mishaps>>
  BY DEF DispatchQueued, requestVars
<1>b. /\ dispatching' = FALSE /\ timer' \in BOOLEAN /\ Sent(messages)
      /\ messages' = messages \/ ~paused
  <2>1. SendNextQueued(turns, retries, messages, timer) /\ dispatching' = FALSE
    BY DEF DispatchQueued
  <2>2. queued \in 0..MaxQueued /\ messages \in Seq(Message) /\ timer \in BOOLEAN
        /\ Len(messages) + queued <= MaxMessages
    BY DEF RowsTyped, RestTyped
  <2>3. /\ Sent(messages) /\ timer' \in BOOLEAN
        /\ \/ messages' = messages /\ timer' = timer
           \/ timer' = TRUE /\ ~paused
    BY <2>1, <2>2, SendNext
  <2> QED BY <2>1, <2>3
<1>c. /\ messages \in Seq(Message) /\ messages' \in Seq(Message)
      /\ DOMAIN messages \subseteq DOMAIN messages'
      /\ \A i \in DOMAIN messages : messages'[i] = messages[i]
      /\ \A i \in DOMAIN messages' \ DOMAIN messages : messages'[i].status = "completed"
  BY <1>b DEF Sent, RowsTyped
<1>1. RowsTyped'
  BY <1>a, <1>b, <1>c DEF RowsTyped, Sent
<1>2. TurnsTyped'
  BY <1>a DEF TurnsTyped
<1>3. RestTyped'
  BY <1>a, <1>b, <1>c DEF RestTyped
<1>4. BatchesSettled'
  BY <1>a, <1>b, <1>c DEF BatchesSettled
<1>5. RowsOwned'
  BY <1>a, <1>b, <1>c DEF RowsOwned, OwnRow
<1>6. OpenRowsServed'
  BY <1>a, <1>b, <1>c DEF OpenRowsServed
<1>7. ApprovalsServed'
  BY <1>a DEF ApprovalsServed
<1>8. Controlled'
  BY <1>a, <1>b, <1>c DEF Controlled, Unseen, TurnsTyped
<1>9. DeviceCutOff'
  BY <1>a, <1>b, <1>c DEF DeviceCutOff, OfDevice, RestTyped, BatchesSettled
<1> QED BY <1>1, <1>2, <1>3, <1>4, <1>5, <1>6, <1>7, <1>8, <1>9

Ready(kept) == {m \in Members : retries[m] # "waiting" /\ Free(m)} \ kept
Going(bad, kept) == {m \in Ready(kept) \ bad : NeedsTurn(m)}
Emptied(kept) == Close({turns[m].message : m \in Ready(kept)})

(* What a wake does, turn by turn. *)
LEMMA WakeEffect ==
    ASSUME ChanInv, NEW bad \in SUBSET Members, NEW kept \in SUBSET bad, WakeMembers(bad, kept)
    PROVE  /\ turns' \in [Members -> MemberTurn]
           /\ \A n \in Members :
                IF n \in Going(bad, kept)
                THEN /\ turns'[n].status = "running" /\ turns'[n].batch = UnseenBatch(n)
                     /\ turns'[n].message = 0 /\ task'[n] = "starting"
                ELSE IF n \in Ready(kept) THEN turns'[n] = Absent /\ task'[n] = "none"
                ELSE turns'[n] = turns[n] /\ task'[n] = task[n]
           /\ task' \in [Members -> {"none", "starting", "running", "final", "done"}]
           /\ delivered' \in [Members -> SUBSET DOMAIN messages]
           /\ \A n \in Members : delivered[n] \subseteq delivered'[n]
           /\ retries' \in [Members -> {"none", "waiting", "due"}]
           /\ \A n \in Members : retries'[n] = IF n \in bad THEN "waiting" ELSE retries[n]
           /\ Sent(Emptied(kept)) /\ timer' \in BOOLEAN
           /\ timer' = FALSE => /\ messages' = Emptied(kept)
                                /\ \A n \in Members : retries'[n] # "waiting"
<1> USE ChannelAssumption DEF ChanInv
<1> DEFINE go == Going(bad, kept)
           armed == \E m \in Members : retries'[m] = "waiting"
           begun(m) == [status |-> "running", batch |-> UnseenBatch(m), message |-> 0]
<1>1. /\ turns' = [m \in Members |-> IF m \in go THEN begun(m)
                                     ELSE IF m \in Ready(kept) THEN Absent ELSE turns[m]]
      /\ task' = [m \in Members |-> IF m \in go THEN "starting"
                                    ELSE IF m \in Ready(kept) THEN "none" ELSE task[m]]
      /\ delivered' = [m \in Members |->
                          IF m \in Ready(kept) \ bad
                          THEN delivered[m] \cup {i \in Unseen(m) : OfRevokedDevice(i)}
                          ELSE delivered[m]]
      /\ BackOff(bad)
      /\ SendNextQueued(turns', retries', Emptied(kept), armed)
  BY DEF WakeMembers, Going, Ready, Emptied
<1> HIDE DEF go
<1>2. \A m \in Members : begun(m) \in MemberTurn
  <2>1. DOMAIN messages \subseteq 1..MaxMessages
    BY DEF RowsTyped
  <2>2. \A m \in Members : UnseenBatch(m) \subseteq 1..MaxMessages
    BY <2>1 DEF UnseenBatch, Unseen
  <2> QED BY <2>2 DEF MemberTurn
<1>3. Absent \in MemberTurn
  BY DEF Absent, MemberTurn
<1>4. turns' \in [Members -> MemberTurn]
  BY <1>1, <1>2, <1>3 DEF TurnsTyped
<1>5. /\ task' \in [Members -> {"none", "starting", "running", "final", "done"}]
      /\ retries' \in [Members -> {"none", "waiting", "due"}]
      /\ \A n \in Members : retries'[n] = IF n \in bad THEN "waiting" ELSE retries[n]
  BY <1>1 DEF BackOff, TurnsTyped, RestTyped
<1>6. /\ delivered' \in [Members -> SUBSET DOMAIN messages]
      /\ \A n \in Members : delivered[n] \subseteq delivered'[n]
  BY <1>1 DEF RowsTyped, Unseen
<1>7. Emptied(kept) \in Seq(Message) /\ Len(Emptied(kept)) + queued <= MaxMessages
      /\ armed \in BOOLEAN /\ queued \in 0..MaxQueued
  BY CloseRows DEF Emptied, RowsTyped
<1> HIDE DEF armed
<1>8. /\ Sent(Emptied(kept)) /\ timer' \in BOOLEAN
      /\ \/ messages' = Emptied(kept) /\ timer' = armed
         \/ timer' = TRUE /\ ~paused
  BY <1>1, <1>7, SendNext
<1>9. \A n \in Members :
        IF n \in go
        THEN /\ turns'[n].status = "running" /\ turns'[n].batch = UnseenBatch(n)
             /\ turns'[n].message = 0 /\ task'[n] = "starting"
        ELSE IF n \in Ready(kept) THEN turns'[n] = Absent /\ task'[n] = "none"
        ELSE turns'[n] = turns[n] /\ task'[n] = task[n]
  BY <1>1
<1>10. timer' = FALSE => /\ messages' = Emptied(kept)
                         /\ \A n \in Members : retries'[n] # "waiting"
  BY <1>8 DEF armed
<1> QED BY <1>4, <1>5, <1>6, <1>8, <1>9, <1>10 DEF go

LEMMA WakeKeeps ==
    ASSUME ChanInv, NEW bad \in SUBSET Members, NEW kept \in SUBSET bad, WakeMembers(bad, kept),
           ~paused, mishaps' \in 0..MaxMishaps, UNCHANGED <<agent, permissions, paused, requestVars>>
    PROVE  ChanInv'
<1> USE ChannelAssumption DEF ChanInv
<1>a. UNCHANGED <<agent, permissions, paused, control, cut, revocation, deviceCut, dispatching>>
  BY DEF requestVars
<1>b. /\ turns' \in [Members -> MemberTurn]
      /\ \A n \in Members :
           IF n \in Going(bad, kept)
           THEN /\ turns'[n].status = "running" /\ turns'[n].batch = UnseenBatch(n)
                /\ turns'[n].message = 0 /\ task'[n] = "starting"
           ELSE IF n \in Ready(kept) THEN turns'[n] = Absent /\ task'[n] = "none"
           ELSE turns'[n] = turns[n] /\ task'[n] = task[n]
      /\ task' \in [Members -> {"none", "starting", "running", "final", "done"}]
      /\ delivered' \in [Members -> SUBSET DOMAIN messages]
      /\ retries' \in [Members -> {"none", "waiting", "due"}]
      /\ Sent(Emptied(kept)) /\ timer' \in BOOLEAN
  BY WakeEffect
<1>c. /\ Absent.status = "none" /\ Absent.batch = {} /\ Absent.message = 0
      /\ Going(bad, kept) \subseteq Ready(kept) /\ Ready(kept) \subseteq Members
  BY DEF Absent, Going, Ready
<1>d. \A n \in Ready(kept) : /\ turns[n].status \in {"none", "failed"} /\ agent[n] = "none"
                             /\ n \notin permissions
  BY DEF Ready, Free, TurnsTyped, ApprovalsServed
<1>e. /\ messages \in Seq(Message) /\ messages' \in Seq(Message) /\ 0 \notin DOMAIN messages
      /\ DOMAIN messages \subseteq DOMAIN messages'
      /\ \A i \in DOMAIN messages :
           /\ messages'[i].by = messages[i].by /\ messages'[i].device = messages[i].device
           /\ messages'[i].status = IF \E n \in Ready(kept) : turns[n].message = i
                                    THEN "closed" ELSE messages[i].status
      /\ \A i \in DOMAIN messages' \ DOMAIN messages : messages'[i].status = "completed"
  <2> DEFINE K == {turns[n].message : n \in Ready(kept)}
  <2>1. /\ DOMAIN Emptied(kept) = DOMAIN messages
        /\ \A i \in DOMAIN messages :
             /\ Emptied(kept)[i].by = messages[i].by /\ Emptied(kept)[i].device = messages[i].device
             /\ Emptied(kept)[i].status = IF i \in K THEN "closed" ELSE messages[i].status
    BY CloseRows DEF Emptied, RowsTyped
  <2>2. \A i : i \in K <=> \E n \in Ready(kept) : turns[n].message = i
    OBVIOUS
  <2> HIDE DEF K
  <2> QED BY <1>b, <2>1, <2>2 DEF Sent, RowsTyped
<1>f. \A n \in Members : UnseenBatch(n) \subseteq {i \in DOMAIN messages :
          /\ messages[i].status # "streaming"
          /\ revocation # "no" => ~messages[i].device}
  BY DEF UnseenBatch, Unseen, OfRevokedDevice
<1>1. RowsTyped'
  BY <1>b, <1>e DEF RowsTyped, Sent
<1>2. TurnsTyped'
  BY <1>a, <1>b, <1>c, <1>d DEF TurnsTyped
<1>3. RestTyped'
  BY <1>a, <1>b DEF RestTyped
<1>4. BatchesSettled'
  <2>1. ASSUME NEW n \in Members, NEW i \in turns'[n].batch
        PROVE  i \in DOMAIN messages /\ messages[i].status # "streaming"
    <3>1. CASE n \in Going(bad, kept)
      BY <1>b, <1>f, <2>1, <3>1
    <3>2. CASE n \in Ready(kept) \ Going(bad, kept)
      BY <1>b, <1>c, <2>1, <3>2
    <3>3. CASE n \notin Ready(kept)
      BY <1>b, <1>c, <2>1, <3>3 DEF BatchesSettled
    <3> QED BY <3>1, <3>2, <3>3
  <2> QED BY <1>e, <2>1 DEF BatchesSettled
<1>5. RowsOwned'
  <2>1. ASSUME NEW n \in Members PROVE OwnRow(n)'
    <3>1. CASE n \in Ready(kept)
      BY <1>b, <1>c, <3>1 DEF OwnRow
    <3>2. CASE n \notin Ready(kept)
      <4>1. turns'[n] = turns[n] /\ OwnRow(n)
        BY <1>b, <1>c, <3>2 DEF RowsOwned
      <4>2. ASSUME turns[n].message # 0, turns[n].status # "finished", NEW k \in Ready(kept)
            PROVE  turns[k].message # turns[n].message
        BY <1>c, <1>d, <3>2, <4>1, <4>2 DEF RowsOwned, OwnRow
      <4> QED BY <1>e, <4>1, <4>2 DEF OwnRow
    <3> QED BY <3>1, <3>2
  <2> QED BY <2>1 DEF RowsOwned
<1>6. OpenRowsServed'
  <2>1. ASSUME NEW i \in DOMAIN messages', messages'[i].status = "streaming"
        PROVE  \E n \in Members : turns'[n].message = i /\ turns'[n].status # "finished"
    <3>1. i \in DOMAIN messages /\ messages[i].status = "streaming"
          /\ \A n \in Ready(kept) : turns[n].message # i
      BY <1>e, <2>1
    <3>2. PICK n \in Members : turns[n].message = i /\ turns[n].status # "finished"
      BY <3>1 DEF OpenRowsServed
    <3> QED BY <1>b, <1>c, <3>1, <3>2
  <2> QED BY <2>1 DEF OpenRowsServed
<1>7. ApprovalsServed'
  BY <1>a, <1>b, <1>c, <1>d DEF ApprovalsServed, RestTyped
<1>8. Controlled'
  BY <1>a DEF Controlled
<1>9. DeviceCutOff'
  <2>1. ASSUME revocation \in {"cutting", "done"}, NEW n \in Members, turns'[n].status = "running",
               NEW i \in turns'[n].batch
        PROVE  ~messages'[i].device
    <3>1. CASE n \in Going(bad, kept)
      BY <1>b, <1>e, <1>f, <2>1, <3>1
    <3>2. CASE n \in Ready(kept) \ Going(bad, kept)
      BY <1>b, <1>c, <2>1, <3>2
    <3>3. CASE n \notin Ready(kept)
      BY <1>b, <1>c, <1>e, <2>1, <3>3 DEF BatchesSettled, DeviceCutOff, OfDevice
    <3> QED BY <3>1, <3>2, <3>3
  <2> QED BY <1>a, <2>1 DEF DeviceCutOff, OfDevice
<1> QED BY <1>1, <1>2, <1>3, <1>4, <1>5, <1>6, <1>7, <1>8, <1>9

LEMMA WakesKeep ==
    ASSUME ChanInv, Wake \/ \E m \in Members : WakeFails(m) PROVE ChanInv'
<1>1. CASE Wake /\ paused
  <2>1. timer' = FALSE /\ UNCHANGED <<messages, delivered, turns, task, retries, queued, agent, permissions,
                                      paused, mishaps, requestVars>>
    BY <1>1 DEF Wake
  <2> USE <2>1 DEF ChanInv, requestVars
  <2>2. RowsTyped' /\ TurnsTyped' /\ RestTyped'
    BY DEF RowsTyped, TurnsTyped, RestTyped
  <2>3. BatchesSettled' /\ RowsOwned' /\ OpenRowsServed' /\ ApprovalsServed'
    BY DEF BatchesSettled, RowsOwned, OwnRow, OpenRowsServed, ApprovalsServed
  <2>4. Controlled' /\ DeviceCutOff'
    BY DEF Controlled, Unseen, DeviceCutOff, OfDevice
  <2> QED BY <2>2, <2>3, <2>4
<1>2. CASE Wake /\ ~paused
  <2>1. WakeMembers({}, {}) /\ UNCHANGED <<agent, permissions, paused, mishaps, requestVars>>
    BY <1>2 DEF Wake
  <2>2. mishaps' \in 0..MaxMishaps
    BY <2>1 DEF ChanInv, RestTyped
  <2> QED BY <1>2, <2>1, <2>2, WakeKeeps
<1>3. ASSUME NEW m \in Members, WakeFails(m) PROVE ChanInv'
  <2>1. PICK kept \in SUBSET {m} : WakeMembers({m}, kept)
    BY <1>3 DEF WakeFails
  <2>2. ~paused /\ Mishap /\ UNCHANGED <<agent, permissions, paused, requestVars>>
    BY <1>3 DEF WakeFails
  <2>3. mishaps' \in 0..MaxMishaps
    BY <2>2, MishapBound DEF ChanInv
  <2> QED BY <2>1, <2>2, <2>3, WakeKeeps
<1> QED BY <1>1, <1>2, <1>3

-----------------------------------------------------------------------------
(* The owner's requests and the revocation *)

(* The turns in ok are finished, and taken away if their tasks are over; those in
   bad are left cancelled. *)
Cancelled(ok, bad) ==
    /\ turns' \in [Members -> MemberTurn]
    /\ task' \in [Members -> {"none", "starting", "running", "final", "done"}]
    /\ \A n \in Members :
         IF n \in ok /\ task[n] = "done" THEN turns'[n] = Absent /\ task'[n] = "none"
         ELSE /\ task'[n] = task[n]
              /\ turns'[n].batch = turns[n].batch /\ turns'[n].message = turns[n].message
              /\ turns'[n].status = IF n \in ok THEN "finished"
                                    ELSE IF n \in bad THEN "cancelled" ELSE turns[n].status
    /\ agent' \in [Members -> {"none", "running", "asking", "stopping"}]
    /\ \A n \in Members :
         agent'[n] = IF n \in (ok \cup bad) \cap permissions THEN "running" ELSE agent[n]
    /\ permissions' = permissions \ (ok \cup bad)

(* The turns that a request may cancel: there, and in bad not yet finished. *)
Cancellable(ok, bad) ==
    /\ ok \subseteq Members /\ bad \subseteq Members /\ ok \cap bad = {}
    /\ \A n \in ok : turns[n].status # "none"
    /\ \A n \in bad : turns[n].status \notin {"none", "finished"}

LEMMA CancelEffect ==
    ASSUME ChanInv, NEW ok, NEW bad, Cancellable(ok, bad), CancelActive(ok, bad)
    PROVE  Cancelled(ok, bad)
<1> USE ChannelAssumption DEF ChanInv
<1>1. \A n \in Members : turns[n] \in MemberTurn
  BY DEF TurnsTyped
<1>2. /\ turns' = [m \in Members |->
                    IF m \in ok /\ task[m] = "done" THEN Absent
                    ELSE IF m \in ok THEN [turns[m] EXCEPT !.status = "finished"]
                    ELSE IF m \in bad THEN [turns[m] EXCEPT !.status = "cancelled"]
                    ELSE turns[m]]
      /\ task' = [m \in Members |-> IF m \in ok /\ task[m] = "done" THEN "none" ELSE task[m]]
      /\ permissions' = permissions \ (ok \cup bad)
      /\ agent' = [m \in Members |-> IF m \in (ok \cup bad) \cap permissions THEN "running"
                                     ELSE agent[m]]
  BY DEF CancelActive, Resolve
<1>3. \A n \in Members : /\ [turns[n] EXCEPT !.status = "finished"] \in MemberTurn
                         /\ [turns[n] EXCEPT !.status = "cancelled"] \in MemberTurn
  BY <1>1 DEF MemberTurn
<1>4. Absent \in MemberTurn
  BY DEF Absent, MemberTurn
<1>5. turns' \in [Members -> MemberTurn]
  BY <1>1, <1>2, <1>3, <1>4
<1>6. \A n \in Members : ~(n \in ok /\ task[n] = "done") =>
        /\ turns'[n].batch = turns[n].batch /\ turns'[n].message = turns[n].message
        /\ turns'[n].status = IF n \in ok THEN "finished"
                              ELSE IF n \in bad THEN "cancelled" ELSE turns[n].status
  <2> TAKE n \in Members
  <2>1. CASE n \in ok
    BY <1>1, <1>2, <2>1 DEF MemberTurn
  <2>2. CASE n \notin ok /\ n \in bad
    BY <1>1, <1>2, <2>2 DEF MemberTurn
  <2>3. CASE n \notin ok /\ n \notin bad
    BY <1>2, <2>3
  <2> QED BY <2>1, <2>2, <2>3
<1>7. /\ task' \in [Members -> {"none", "starting", "running", "final", "done"}]
      /\ agent' \in [Members -> {"none", "running", "asking", "stopping"}]
  BY <1>2 DEF TurnsTyped
<1>8. \A n \in Members :
         /\ task'[n] = IF n \in ok /\ task[n] = "done" THEN "none" ELSE task[n]
         /\ n \in ok /\ task[n] = "done" => turns'[n] = Absent
         /\ agent'[n] = IF n \in (ok \cup bad) \cap permissions THEN "running" ELSE agent[n]
  BY <1>2
<1> QED BY <1>2, <1>5, <1>6, <1>7, <1>8 DEF Cancelled

LEMMA CancelTypes ==
    ASSUME ChanInv, NEW ok, NEW bad, Cancellable(ok, bad), Cancelled(ok, bad)
    PROVE  TurnsTyped' /\ ApprovalsServed' /\ permissions' \subseteq Members
<1> USE DEF ChanInv
<1>1. Absent.status = "none" /\ Absent.batch = {} /\ Absent.message = 0
  BY DEF Absent
<1>2. TurnsTyped'
  <2>1. ASSUME NEW n \in Members
        PROVE  /\ turns'[n].status = "none" <=> task'[n] = "none"
               /\ turns'[n].status = "none" => turns'[n].batch = {} /\ turns'[n].message = 0
               /\ task'[n] = "done" => turns'[n].status \in {"failed", "cancelled"}
    <3>1. CASE n \in ok /\ task[n] = "done"
      BY <1>1, <3>1 DEF Cancelled
    <3>2. CASE n \in ok /\ task[n] # "done"
      BY <3>2 DEF Cancelled, Cancellable, TurnsTyped
    <3>3. CASE n \notin ok
      BY <3>3 DEF Cancelled, Cancellable, TurnsTyped
    <3> QED BY <3>1, <3>2, <3>3
  <2>2. ASSUME NEW n \in Members PROVE agent'[n] # "none" <=> task'[n] = "running"
    <3>1. n \in permissions => agent[n] = "asking"
      BY DEF ApprovalsServed
    <3> QED BY <3>1 DEF Cancelled, TurnsTyped
  <2> QED BY <2>1, <2>2 DEF TurnsTyped, Cancelled
<1>3. permissions' \subseteq Members
  BY DEF Cancelled, RestTyped
<1>4. ApprovalsServed'
  BY <1>3 DEF ApprovalsServed, Cancelled
<1> QED BY <1>2, <1>3, <1>4

(* The rows of the turns in ok are closed, and a message of the owner may follow. *)
CutShort(ok) ==
    /\ messages' \in Seq(Message) /\ DOMAIN messages \subseteq DOMAIN messages'
    /\ \A i \in DOMAIN messages :
         /\ messages'[i].by = messages[i].by /\ messages'[i].device = messages[i].device
         /\ messages'[i].to = messages[i].to
         /\ messages'[i].status =
                IF \E n \in ok : turns[n].message = i /\ turns[n].status # "finished"
                THEN "closed" ELSE messages[i].status
    /\ \A i \in DOMAIN messages' \ DOMAIN messages : messages'[i].status = "completed"

LEMMA CutEffect ==
    ASSUME ChanInv, NEW S, NEW ok, ok \subseteq S, \A n \in S \ ok : turns[n].message = 0,
           \/ messages' = CutRows(S)
           \/ \E r \in Message : r.status = "completed" /\ messages' = Append(CutRows(S), r)
    PROVE  /\ CutShort(ok) /\ Len(messages') \in {Len(messages), Len(messages) + 1}
           /\ messages' = CutRows(S) =>
                  Len(messages') = Len(messages) /\ DOMAIN messages' = DOMAIN messages
<1> USE DEF ChanInv
<1> DEFINE K == {turns[m].message : m \in {n \in S : turns[n].status # "finished"}}
<1>1. \A i \in DOMAIN messages :
        i \in K <=> \E n \in ok : turns[n].message = i /\ turns[n].status # "finished"
  <2>1. 0 \notin DOMAIN messages
    BY DEF RowsTyped
  <2> QED BY <2>1
<1> HIDE DEF K
<1>2. CutRows(S) = Close(K)
  BY DEF CutRows, K
<1>3. /\ Close(K) \in Seq(Message) /\ Len(Close(K)) = Len(messages)
      /\ DOMAIN Close(K) = DOMAIN messages
      /\ \A i \in DOMAIN messages :
           /\ Close(K)[i].by = messages[i].by /\ Close(K)[i].to = messages[i].to
           /\ Close(K)[i].device = messages[i].device
           /\ Close(K)[i].status = IF i \in K THEN "closed" ELSE messages[i].status
  BY CloseRows DEF RowsTyped
<1>4. CASE messages' = Close(K)
  BY <1>1, <1>2, <1>3, <1>4 DEF CutShort
<1>5. ASSUME NEW r \in Message, r.status = "completed", messages' = Append(Close(K), r)
      PROVE  CutShort(ok) /\ Len(messages') = Len(messages) + 1 /\ messages' # Close(K)
  <2>1. /\ messages' \in Seq(Message) /\ Len(messages') = Len(messages) + 1
        /\ DOMAIN messages' = DOMAIN messages \cup {Len(messages) + 1}
        /\ Len(messages) \in Nat /\ messages'[Len(messages) + 1] = r
        /\ \A i \in DOMAIN messages : messages'[i] = Close(K)[i]
    BY <1>3, <1>5, AddRow
  <2>2. messages' # Close(K)
    BY <1>3, <2>1
  <2>3. \A i \in DOMAIN messages' \ DOMAIN messages : messages'[i].status = "completed"
    BY <1>5, <2>1
  <2>4. \A i \in DOMAIN messages :
         /\ messages'[i].by = messages[i].by /\ messages'[i].device = messages[i].device
         /\ messages'[i].to = messages[i].to
         /\ messages'[i].status =
                IF \E n \in ok : turns[n].message = i /\ turns[n].status # "finished"
                THEN "closed" ELSE messages[i].status
    BY <1>1, <1>3, <2>1
  <2> QED BY <2>1, <2>2, <2>3, <2>4 DEF CutShort
<1> QED BY <1>2, <1>3, <1>4, <1>5

LEMMA CancelRows ==
    ASSUME ChanInv, NEW ok, NEW bad, Cancellable(ok, bad), Cancelled(ok, bad), CutShort(ok)
    PROVE  /\ BatchesSettled' /\ RowsOwned' /\ OpenRowsServed'
           /\ \A n \in Members : turns'[n].status = "running" =>
                /\ turns[n].status = "running" /\ n \notin ok \cup bad
                /\ OfDevice(turns[n].batch)' => OfDevice(turns[n].batch)
<1> USE DEF ChanInv
<1>1. /\ Absent.status = "none" /\ Absent.batch = {} /\ Absent.message = 0
      /\ 0 \notin DOMAIN messages
  BY DEF Absent, RowsTyped
<1>2. \A n \in Members : turns'[n].batch \subseteq turns[n].batch
  BY <1>1 DEF Cancelled
<1>3. BatchesSettled'
  BY <1>2 DEF BatchesSettled, CutShort
<1>4. RowsOwned'
  <2>1. ASSUME NEW n \in Members, turns'[n].message # 0, turns'[n].status # "finished"
        PROVE  /\ turns'[n].message \in DOMAIN messages'
               /\ messages'[turns'[n].message].by = n
               /\ messages'[turns'[n].message].status = "streaming"
    <3>1. n \notin ok /\ turns'[n].message = turns[n].message /\ turns[n].status # "finished"
      BY <1>1, <2>1 DEF Cancelled, Cancellable
    <3>2. /\ turns[n].message \in DOMAIN messages /\ messages[turns[n].message].by = n
          /\ messages[turns[n].message].status = "streaming"
      BY <2>1, <3>1 DEF RowsOwned, OwnRow
    <3>3. ASSUME NEW k \in ok, turns[k].message = turns[n].message, turns[k].status # "finished"
          PROVE  FALSE
      <4>1. k \in Members /\ k # n /\ turns[k].message # 0
        BY <1>1, <3>1, <3>2, <3>3 DEF Cancellable
      <4> QED BY <3>2, <3>3, <4>1 DEF RowsOwned, OwnRow
    <3> QED BY <3>1, <3>2, <3>3 DEF CutShort
  <2> QED BY <2>1 DEF RowsOwned, OwnRow
<1>5. OpenRowsServed'
  <2>1. ASSUME NEW i \in DOMAIN messages', messages'[i].status = "streaming"
        PROVE  \E n \in Members : turns'[n].message = i /\ turns'[n].status # "finished"
    <3>1. i \in DOMAIN messages /\ messages[i].status = "streaming"
      BY <2>1 DEF CutShort
    <3>2. PICK n \in Members : turns[n].message = i /\ turns[n].status # "finished"
      BY <3>1 DEF OpenRowsServed
    <3>3. n \notin ok
      BY <2>1, <3>1, <3>2 DEF CutShort
    <3> QED BY <3>2, <3>3 DEF Cancelled
  <2> QED BY <2>1 DEF OpenRowsServed
<1>6. ASSUME NEW n \in Members, turns'[n].status = "running"
      PROVE  /\ turns[n].status = "running" /\ n \notin ok \cup bad
             /\ OfDevice(turns[n].batch)' => OfDevice(turns[n].batch)
  <2>1. n \notin ok \cup bad /\ turns[n].status = "running"
    BY <1>1, <1>6 DEF Cancelled
  <2>2. OfDevice(turns[n].batch)' => OfDevice(turns[n].batch)
    BY <1>2 DEF OfDevice, CutShort, BatchesSettled
  <2> QED BY <2>1, <2>2
<1> QED BY <1>3, <1>4, <1>5, <1>6

LEMMA RunningIsThere ==
    ASSUME ChanInv, NEW S \in SUBSET Members
    PROVE  /\ Running(S) = {n \in S : turns[n].status # "none"}
           /\ Cancellable(Running(S), {})
           /\ \A n \in S \ Running(S) : turns[n].message = 0
<1>1. \A n \in Members : turns[n] = Absent <=> turns[n].status = "none"
  <2>1. \A n \in Members : turns[n] \in MemberTurn
    BY DEF ChanInv, TurnsTyped
  <2> QED BY <2>1 DEF ChanInv, TurnsTyped, MemberTurn, Absent
<1>2. \A n \in Members : turns[n].status = "none" => turns[n].message = 0
  BY DEF ChanInv, TurnsTyped
<1> QED BY <1>1, <1>2 DEF Running, Cancellable

LEMMA PostKeeps ==
    ASSUME ChanInv, NEW to \in SUBSET Members \ {{}}, NEW device \in BOOLEAN, NEW fromQueue \in BOOLEAN, Post(to, device, fromQueue) PROVE ChanInv'
<1> USE ChannelAssumption DEF ChanInv
<1>a. UNCHANGED <<delivered, revocation, deviceCut, dispatching, mishaps>>
  BY DEF Post, requestVars
<1> DEFINE ok == Running(to)
           r == Row(User, to, device, "completed")
<1>b. Cancellable(ok, {}) /\ ok \subseteq Members /\ Cancelled(ok, {})
  BY RunningIsThere, CancelEffect DEF Post, Cancellable
<1>c. /\ CutShort(ok) /\ Len(messages') = Len(messages) + 1
      /\ queued' \in 0..MaxQueued /\ Len(messages') + queued' <= MaxMessages
  <2>1. r \in Message /\ r.status = "completed"
    BY RowType DEF Row
  <2>2. messages' = Append(CutRows(ok), r)
    BY DEF Post
  <2> HIDE DEF r
  <2>3. CutShort(ok) /\ \E q \in Message : q.status = "completed" /\ messages' = Append(CutRows(ok), q)
    BY <2>1, <2>2, CutEffect
  <2>4. CutRows(ok) \in Seq(Message) /\ Len(CutRows(ok)) = Len(messages)
    BY CloseRows DEF CutRows, RowsTyped
  <2>5. Len(messages') = Len(messages) + 1 /\ Len(messages) \in Nat
    BY <2>1, <2>2, <2>4, AddRow
  <2>6. CASE fromQueue
    BY <2>3, <2>5, <2>6 DEF Post, RowsTyped
  <2>7. CASE ~fromQueue
    BY <2>3, <2>5, <2>7 DEF Post, Room, RowsTyped
  <2> QED BY <2>3, <2>5, <2>6, <2>7
<1>e. /\ control' = "posting" /\ paused' = TRUE /\ timer' = FALSE /\ cut' = ok
      /\ retries' = [m \in Members |-> IF m \in to THEN "none" ELSE retries[m]]
  BY DEF Post, Schedule
<1> HIDE DEF ok
<1>d. /\ TurnsTyped' /\ ApprovalsServed' /\ permissions' \subseteq Members
      /\ BatchesSettled' /\ RowsOwned' /\ OpenRowsServed'
      /\ \A n \in Members : turns'[n].status = "running" =>
           /\ turns[n].status = "running" /\ n \notin ok
           /\ OfDevice(turns[n].batch)' => OfDevice(turns[n].batch)
  BY <1>b, <1>c, CancelTypes, CancelRows
<1>1. RowsTyped'
  BY <1>a, <1>c DEF RowsTyped, CutShort
<1>2. TurnsTyped'
  BY <1>d
<1>3. RestTyped'
  BY <1>a, <1>b, <1>d, <1>e DEF RestTyped
<1>4. BatchesSettled'
  BY <1>d
<1>5. RowsOwned'
  BY <1>d
<1>6. OpenRowsServed'
  BY <1>d
<1>7. ApprovalsServed'
  BY <1>d
<1>8. Controlled'
  BY <1>e DEF Controlled
<1>9. DeviceCutOff'
  BY <1>a, <1>d DEF DeviceCutOff
<1> QED BY <1>1, <1>2, <1>3, <1>4, <1>5, <1>6, <1>7, <1>8, <1>9

LEMMA PostFailsKeeps ==
    ASSUME ChanInv, NEW to \in SUBSET Members \ {{}}, PostFails(to) PROVE ChanInv'
<1> USE ChannelAssumption DEF ChanInv
<1>a. UNCHANGED <<delivered, timer, revocation, deviceCut, queued, dispatching>>
  BY DEF PostFails, requestVars
<1>f. PICK ok \in SUBSET Running(to), bad \in SUBSET Running(to) :
        /\ IF bad = {} THEN ok = Running(to)
           ELSE Cardinality(bad) = 1 /\ bad \cap ok = {}
        /\ \A m \in bad : turns[m].status # "finished"
        /\ CancelActive(ok, bad)
        /\ messages' = CutRows(ok)
  BY DEF PostFails
<1>b. Cancellable(ok, bad) /\ Running(to) \subseteq Members /\ Cancelled(ok, bad)
  <2>1. Running(to) \subseteq Members /\ \A n \in Running(to) : turns[n].status # "none"
    BY RunningIsThere
  <2>2. Cancellable(ok, bad)
    BY <1>f, <2>1 DEF Cancellable
  <2> QED BY <1>f, <2>1, <2>2, CancelEffect
<1>c. CutShort(ok) /\ Len(messages') = Len(messages) /\ DOMAIN messages' = DOMAIN messages
  BY <1>f, CutEffect
<1>e. /\ control' = "posting" /\ paused' = TRUE /\ cut' = Running(to)
      /\ mishaps' \in 0..MaxMishaps
      /\ retries' = [m \in Members |-> IF m \in to THEN "none" ELSE retries[m]]
  BY MishapBound DEF PostFails
<1>d. /\ TurnsTyped' /\ ApprovalsServed' /\ permissions' \subseteq Members
      /\ BatchesSettled' /\ RowsOwned' /\ OpenRowsServed'
      /\ \A n \in Members : turns'[n].status = "running" =>
           /\ turns[n].status = "running"
           /\ OfDevice(turns[n].batch)' => OfDevice(turns[n].batch)
  BY <1>b, <1>c, CancelTypes, CancelRows
<1>1. RowsTyped'
  BY <1>a, <1>c DEF RowsTyped, CutShort
<1>2. TurnsTyped'
  BY <1>d
<1>3. RestTyped'
  BY <1>a, <1>b, <1>d, <1>e DEF RestTyped
<1>4. BatchesSettled'
  BY <1>d
<1>5. RowsOwned'
  BY <1>d
<1>6. OpenRowsServed'
  BY <1>d
<1>7. ApprovalsServed'
  BY <1>d
<1>8. Controlled'
  BY <1>e DEF Controlled
<1>9. DeviceCutOff'
  BY <1>a, <1>d DEF DeviceCutOff
<1> QED BY <1>1, <1>2, <1>3, <1>4, <1>5, <1>6, <1>7, <1>8, <1>9

LEMMA StopKeeps ==
    ASSUME ChanInv, Stop PROVE ChanInv'
<1> USE ChannelAssumption DEF ChanInv
<1>a. UNCHANGED <<revocation, deviceCut, queued, dispatching, mishaps>>
  BY DEF Stop, requestVars
<1> DEFINE ok == Running(Members)
<1>b. Cancellable(ok, {}) /\ ok = {n \in Members : turns[n].status # "none"} /\ Cancelled(ok, {})
  BY RunningIsThere, CancelEffect DEF Stop
<1>c. CutShort(ok) /\ Len(messages') = Len(messages) /\ DOMAIN messages' = DOMAIN messages
  BY <1>b, RunningIsThere, CutEffect DEF Stop
<1>e. /\ control' = "stopping" /\ paused' = TRUE /\ timer' = FALSE /\ cut' = ok
      /\ retries' = [m \in Members |-> "none"]
      /\ delivered' = [m \in Members |-> delivered[m] \cup Unseen(m)]
  BY DEF Stop
<1> HIDE DEF ok
<1>d. /\ TurnsTyped' /\ ApprovalsServed' /\ permissions' \subseteq Members
      /\ BatchesSettled' /\ RowsOwned' /\ OpenRowsServed'
      /\ \A n \in Members : turns'[n].status = "running" =>
           /\ turns[n].status = "running" /\ n \notin ok
           /\ OfDevice(turns[n].batch)' => OfDevice(turns[n].batch)
  BY <1>b, <1>c, CancelTypes, CancelRows
<1>f. \A n \in Members : Unseen(n)' = {} /\ turns'[n].status \in {"none", "finished"}
  <2>1. \A n \in Members : turns'[n].status \in {"none", "finished"}
    BY <1>b DEF Cancelled, Absent
  <2>2. ASSUME NEW n \in Members, NEW i \in Unseen(n)' PROVE FALSE
    <3>1. /\ i \in DOMAIN messages /\ messages'[i].status = "completed" /\ messages'[i].by # n
          /\ i \notin delivered'[n]
      BY <1>c, <2>2 DEF Unseen
    <3>2. messages[i].status = "completed" /\ messages[i].by # n
      BY <3>1, <1>c DEF CutShort
    <3> QED BY <1>e, <3>1, <3>2 DEF Unseen
  <2> QED BY <2>1, <2>2
<1>1. RowsTyped'
  BY <1>a, <1>c, <1>e DEF RowsTyped, CutShort, Unseen
<1>2. TurnsTyped'
  BY <1>d
<1>3. RestTyped'
  BY <1>a, <1>b, <1>d, <1>e DEF RestTyped
<1>4. BatchesSettled'
  BY <1>d
<1>5. RowsOwned'
  BY <1>d
<1>6. OpenRowsServed'
  BY <1>d
<1>7. ApprovalsServed'
  BY <1>d
<1>8. Controlled'
  BY <1>e, <1>f DEF Controlled
<1>9. DeviceCutOff'
  BY <1>a, <1>d DEF DeviceCutOff
<1> QED BY <1>1, <1>2, <1>3, <1>4, <1>5, <1>6, <1>7, <1>8, <1>9

LEMMA CutDeviceTurnsKeeps ==
    ASSUME ChanInv, CutDeviceTurns PROVE ChanInv'
<1> USE ChannelAssumption DEF ChanInv
<1>a. UNCHANGED <<delivered, retries, timer, paused, control, cut, queued, dispatching, mishaps>>
  BY DEF CutDeviceTurns, requestVars
<1> DEFINE ok == {m \in Members : OfDevice(turns[m].batch)}
<1>b. Cancellable(ok, {}) /\ Cancelled(ok, {})
  <2>1. \A n \in ok : turns[n].status # "none"
    BY DEF TurnsTyped, OfDevice
  <2>2. Cancellable(ok, {})
    BY <2>1 DEF Cancellable
  <2> QED BY <2>2, CancelEffect DEF CutDeviceTurns
<1>c. CutShort(ok) /\ Len(messages') = Len(messages) /\ DOMAIN messages' = DOMAIN messages
  <2>1. messages' = CutRows(ok)
    BY DEF CutDeviceTurns
  <2> QED BY <2>1, CutEffect
<1>e. revocation' = "cutting" /\ deviceCut' = ok
  BY DEF CutDeviceTurns
<1>g. \A n \in Members : n \notin ok => ~OfDevice(turns[n].batch)
  OBVIOUS
<1>h. ok \subseteq Members
  OBVIOUS
<1> HIDE DEF ok
<1>d. /\ TurnsTyped' /\ ApprovalsServed' /\ permissions' \subseteq Members
      /\ BatchesSettled' /\ RowsOwned' /\ OpenRowsServed'
      /\ \A n \in Members : turns'[n].status = "running" =>
           /\ turns[n].status = "running" /\ n \notin ok
           /\ OfDevice(turns[n].batch)' => OfDevice(turns[n].batch)
  BY <1>b, <1>c, CancelTypes, CancelRows
<1>f. ASSUME control \in {"stopping", "stopped"}, NEW n \in Members
      PROVE  Unseen(n)' = {} /\ turns'[n].status \in {"none", "finished"}
  <2>1. turns'[n].status \in {"none", "finished"}
    BY <1>b, <1>f DEF Cancelled, Absent, Controlled
  <2>2. ASSUME NEW i \in Unseen(n)' PROVE i \in Unseen(n)
    <3>1. /\ i \in DOMAIN messages /\ messages'[i].status = "completed" /\ messages'[i].by # n
          /\ i \notin delivered[n]
      BY <1>a, <1>c, <2>2 DEF Unseen
    <3>2. messages[i].status = "completed" /\ messages[i].by # n
      BY <3>1, <1>c DEF CutShort
    <3> QED BY <3>1, <3>2 DEF Unseen
  <2> QED BY <1>f, <2>1, <2>2 DEF Controlled
<1>1. RowsTyped'
  BY <1>a, <1>c, <1>e DEF RowsTyped, CutShort, Unseen
<1>2. TurnsTyped'
  BY <1>d
<1>3. RestTyped'
  BY <1>a, <1>h, <1>d, <1>e DEF RestTyped
<1>4. BatchesSettled'
  BY <1>d
<1>5. RowsOwned'
  BY <1>d
<1>6. OpenRowsServed'
  BY <1>d
<1>7. ApprovalsServed'
  BY <1>d
<1>8. Controlled'
  BY <1>a, <1>f DEF Controlled
<1>9. DeviceCutOff'
  BY <1>d, <1>g DEF DeviceCutOff
<1> QED BY <1>1, <1>2, <1>3, <1>4, <1>5, <1>6, <1>7, <1>8, <1>9

LEMMA RestartKeeps ==
    ASSUME ChanInv, Restart PROVE ChanInv'
<1> USE ChannelAssumption DEF ChanInv
<1>a. UNCHANGED <<delivered, queued>>
  BY DEF Restart, requestVars
<1>b. /\ turns' = [m \in Members |-> Absent]
      /\ task' = [m \in Members |-> "none"] /\ agent' = [m \in Members |-> "none"]
      /\ retries' = [m \in Members |-> "none"]
      /\ permissions' = {} /\ paused' = FALSE /\ timer' = TRUE
      /\ control' = "free" /\ cut' = {} /\ deviceCut' = {} /\ dispatching' = FALSE
      /\ revocation' \in {"no", "done"} /\ mishaps' \in 0..MaxMishaps
  BY MishapBound DEF Restart
<1>c. /\ messages' \in Seq(Message) /\ Len(messages') = Len(messages)
      /\ DOMAIN messages' = DOMAIN messages
      /\ \A i \in DOMAIN messages : messages'[i].status # "streaming"
  <2> DEFINE S == {i \in DOMAIN messages : messages[i].status = "streaming"}
  <2>1. messages' = Close(S)
    BY DEF Restart
  <2>2. /\ Close(S) \in Seq(Message) /\ Len(Close(S)) = Len(messages)
        /\ DOMAIN Close(S) = DOMAIN messages
        /\ \A i \in DOMAIN messages :
             Close(S)[i].status = IF i \in S THEN "closed" ELSE messages[i].status
    BY CloseRows DEF RowsTyped
  <2> QED BY <2>1, <2>2
<1>d. /\ Absent \in MemberTurn /\ Absent.status = "none" /\ Absent.batch = {} /\ Absent.message = 0
  BY DEF Absent, MemberTurn
<1>1. RowsTyped'
  BY <1>a, <1>b, <1>c, <1>d DEF RowsTyped
<1>2. TurnsTyped'
  BY <1>a, <1>b, <1>c, <1>d DEF TurnsTyped
<1>3. RestTyped'
  BY <1>a, <1>b, <1>c, <1>d DEF RestTyped
<1>4. BatchesSettled'
  BY <1>a, <1>b, <1>c, <1>d DEF BatchesSettled
<1>5. RowsOwned'
  BY <1>a, <1>b, <1>c, <1>d DEF RowsOwned, OwnRow
<1>6. OpenRowsServed'
  BY <1>a, <1>b, <1>c, <1>d DEF OpenRowsServed
<1>7. ApprovalsServed'
  BY <1>a, <1>b, <1>c, <1>d DEF ApprovalsServed, TurnsTyped, RestTyped
<1>8. Controlled'
  BY <1>a, <1>b, <1>c, <1>d DEF Controlled, Unseen, TurnsTyped
<1>9. DeviceCutOff'
  BY <1>a, <1>b, <1>c, <1>d DEF DeviceCutOff, OfDevice, RestTyped, BatchesSettled
<1> QED BY <1>1, <1>2, <1>3, <1>4, <1>5, <1>6, <1>7, <1>8, <1>9

-----------------------------------------------------------------------------
(* Every step *)

LEMMA ChanStep == ChanInv /\ [ChannelNext]_channelVars => ChanInv'
<1> SUFFICES ASSUME ChanInv, [ChannelNext]_channelVars PROVE ChanInv'
  OBVIOUS
<1>1. ASSUME NEW m \in Members, MemberStep(m) PROVE ChanInv'
  <2>1. CASE RunTurn(m)
    BY <2>1, StartTurnKeeps, SkipStartKeeps, AnswerKeeps, FinishTurnKeeps DEF RunTurn
  <2>2. CASE AgentEnds(m) \/ BeginSpeaking(m) \/ Ask(m) \/ RetryDue(m)
    BY <2>2, AgentEndsKeeps, BeginSpeakingKeeps, AskKeeps, RetryDueKeeps
  <2>3. CASE StartFails(m) \/ AgentError(m) \/ FinishFails(m) \/ WakeFails(m)
    BY <2>3, StartFailsKeeps, AgentErrorKeeps, FinishFailsKeeps, WakesKeep
  <2> QED BY <1>1, <2>1, <2>2, <2>3 DEF MemberStep
<1>2. CASE Request
  <2>1. ASSUME NEW to \in SUBSET Members \ {{}}, NEW device \in BOOLEAN, NEW fromQueue \in BOOLEAN,
               Post(to, device, fromQueue)
        PROVE  ChanInv'
    BY <2>1, PostKeeps
  <2>2. ASSUME NEW to \in SUBSET Members \ {{}}, PostFails(to) PROVE ChanInv'
    BY <2>2, PostFailsKeeps
  <2>3. CASE Stop \/ QueueMessage \/ Revoke
    BY <2>3, StopKeeps, QueueMessageKeeps, RevokeKeeps
  <2> QED BY <1>2, <2>1, <2>2, <2>3 DEF Request
<1>3. CASE Wake \/ Finishes \/ Revokes
  BY <1>3, WakesKeep, ControlCancelsKeeps, ControlEndsKeeps, CutDeviceTurnsKeeps, CancelDeviceTurnsKeeps
     DEF Finishes, Revokes
<1>4. CASE DispatchQueued \/ DispatchFails \/ Restart
  BY <1>4, DispatchQueuedKeeps, DispatchFailsKeeps, RestartKeeps
<1>5. CASE UNCHANGED channelVars
  <2> USE <1>5 DEF ChanInv, channelVars
  <2>1. RowsTyped' /\ TurnsTyped' /\ RestTyped'
    BY DEF RowsTyped, TurnsTyped, RestTyped
  <2>2. BatchesSettled' /\ RowsOwned' /\ OpenRowsServed' /\ ApprovalsServed'
    BY DEF BatchesSettled, RowsOwned, OwnRow, OpenRowsServed, ApprovalsServed
  <2>3. Controlled' /\ DeviceCutOff'
    BY DEF Controlled, Unseen, DeviceCutOff, OfDevice
  <2> QED BY <2>1, <2>2, <2>3
<1> QED BY <1>1, <1>2, <1>3, <1>4, <1>5 DEF ChannelNext

LEMMA ChanStart == ChannelInit => ChanInv
<1> SUFFICES ASSUME ChannelInit PROVE ChanInv
  OBVIOUS
<1>1. /\ Absent \in MemberTurn /\ Absent.status = "none" /\ Absent.batch = {} /\ Absent.message = 0
  BY ChannelAssumption DEF Absent, MemberTurn
<1>2. messages = <<>> /\ messages \in Seq(Message) /\ DOMAIN messages = {} /\ Len(messages) = 0
  BY DEF ChannelInit
<1>3. RowsTyped /\ TurnsTyped /\ RestTyped
  <2>0. MaxMessages \in Nat /\ MaxQueued \in Nat /\ MaxMishaps \in Nat
    BY ChannelAssumption
  <2>1. RowsTyped
    BY <2>0, <1>2 DEF ChannelInit, RowsTyped
  <2>2. TurnsTyped
    BY <1>1 DEF ChannelInit, TurnsTyped
  <2>3. RestTyped
    <3>1. mishaps \in 0..MaxMishaps
      BY <2>0 DEF ChannelInit
    <3> QED BY <3>1 DEF ChannelInit, RestTyped
  <2> QED BY <2>1, <2>2, <2>3
<1>4. BatchesSettled /\ RowsOwned /\ OpenRowsServed /\ ApprovalsServed
  BY <1>1, <1>2 DEF ChannelInit, BatchesSettled, RowsOwned, OwnRow, OpenRowsServed, ApprovalsServed
<1>5. Controlled /\ DeviceCutOff
  BY <1>1, <1>2 DEF ChannelInit, Controlled, DeviceCutOff
<1> QED BY <1>3, <1>4, <1>5 DEF ChanInv

LEMMA ChanAlways == ChannelInit /\ [][ChannelNext]_channelVars => []ChanInv
BY ChanStart, ChanStep, PTL

(* Type correctness of the channel. *)
THEOREM ChannelTypes == ChannelSpec => []ChannelTypeOK
BY ChanAlways, TypesFollow, PTL DEF ChannelSpec

(* Whatever cuts a turn short or fails on the way, no row stays open and no approval
   stays listed once the turn they belong to is over. *)
THEOREM NothingLeftBehind == ChannelSpec => []NothingOutlivesItsTurn
BY ChanAlways, TypesFollow, PTL DEF ChannelSpec

(* Once the revocation of a device is through, no turn runs on its messages: not one
   that ran before, and none that a wake starts. *)
THEOREM RevokedStaySilent == ChannelSpec => []RevokedNotPrompted
BY ChanAlways, TypesFollow, PTL DEF ChannelSpec

-----------------------------------------------------------------------------
(* No lost wake-up *)

(* The revocation of a device takes a turn away that two failed writes had left
   behind.  cancel_device_turns sets no timer, so nobody is woken for it. *)
Strands == CutDeviceTurns /\ \E m \in deviceCut' : Wedged(m)

(* A member that no task serves and that needs a turn did so before the step. *)
NoNewNeed ==
    \A n \in Members : NeedsTurn(n)' /\ Free(n)' => NeedsTurn(n) /\ Free(n)

LEMMA NoNeedNoLoss ==
    ASSUME NoLostWakeup, NoNewNeed, control' = "free" => control = "free", timer => timer'
    PROVE  NoLostWakeup'
BY DEF NoLostWakeup, NoNewNeed

LEMMA SameNeed ==
    ASSUME NEW n \in Members, delivered[n] \subseteq delivered'[n],
           revocation' = "no" => revocation = "no",
           \A i \in DOMAIN messages' : messages'[i].status = "completed" =>
               /\ i \in DOMAIN messages /\ messages[i].status = "completed"
               /\ messages[i].by = messages'[i].by /\ messages[i].to = messages'[i].to
               /\ messages[i].device = messages'[i].device
    PROVE  NeedsTurn(n)' => NeedsTurn(n)
BY DEF NeedsTurn, UnseenBatch, Unseen, OfRevokedDevice

LEMMA SameFree ==
    ASSUME NEW n \in Members, turns'[n].status = turns[n].status, task'[n] = task[n]
    PROVE  Free(n)' <=> Free(n)
BY DEF Free

LEMMA WakeupStep ==
    ASSUME ChanInv, ChanInv', NoLostWakeup, [ChannelNext]_channelVars, ~Strands
    PROVE  NoLostWakeup'
<1> USE DEF ChanInv
<1>0. control = "free" => ~paused
  BY DEF Controlled
<1>1. ASSUME UNCHANGED <<messages, delivered, revocation>> PROVE \A n \in Members : NeedsTurn(n)' => NeedsTurn(n)
  BY <1>1 DEF NeedsTurn, UnseenBatch, Unseen, OfRevokedDevice
<1>2. ASSUME UNCHANGED <<turns, task>> PROVE \A n \in Members : Free(n)' => Free(n)
  BY <1>2 DEF Free
<1>3. ASSUME NEW m \in Members, RunTurn(m) \/ AgentEnds(m) \/ BeginSpeaking(m) \/ Ask(m) \/ RetryDue(m)
                                \/ StartFails(m) \/ AgentError(m) \/ FinishFails(m)
      PROVE  NoLostWakeup'
  <2>1. CASE FinishTurn(m) \/ FinishFails(m)
    <3>1. timer' = ~paused /\ UNCHANGED control
      BY <2>1 DEF FinishTurn, FinishFails, Schedule, requestVars
    <3> QED BY <1>0, <3>1 DEF NoLostWakeup
  <2>2. CASE Ask(m) \/ Answer(m) \/ RetryDue(m)
    <3>1. UNCHANGED <<messages, delivered, revocation, turns, task, control, timer>>
      BY <2>2 DEF Ask, Answer, RetryDue, requestVars
    <3> QED BY <1>1, <1>2, <3>1, NoNeedNoLoss DEF NoNewNeed
  <2>3. CASE StartTurn(m) \/ SkipStart(m)
    <3>1. UNCHANGED <<messages, delivered, revocation, turns, control, timer>>
          /\ task[m] = "starting" /\ task' \in {[task EXCEPT ![m] = "running"], [task EXCEPT ![m] = "final"]}
      BY <2>3 DEF StartTurn, SkipStart, requestVars
    <3>2. \A n \in Members : Free(n)' => Free(n)
      BY <3>1 DEF Free, TurnsTyped
    <3> QED BY <1>1, <3>1, <3>2, NoNeedNoLoss DEF NoNewNeed
  <2>4. CASE StartFails(m) \/ AgentError(m)
    <3>1. /\ UNCHANGED <<messages, delivered, revocation, control, timer>> /\ FailTurn(m)
          /\ task[m] \in {"starting", "running"}
          /\ task' \in {task, [task EXCEPT ![m] = "final"]}
      BY <2>4 DEF StartFails, AgentError, requestVars, TurnsTyped
    <3>2. PICK s \in {turns[m].status, "failed"} : Moved(m, s)
      BY <3>1, FailMoves
    <3>3. \A n \in Members : Free(n)' => Free(n)
      <4>1. turns[m].status # "none" /\ task'[m] # "done" /\ turns'[m].status # "none"
        BY <3>1, <3>2 DEF TurnsTyped, Moved
      <4>2. ASSUME NEW n \in Members \ {m} PROVE Free(n)' => Free(n)
        <5>1. turns'[n].status = turns[n].status /\ task'[n] = task[n]
          BY <3>1, <3>2 DEF Moved, TurnsTyped
        <5> QED BY <5>1, SameFree
      <4> QED BY <4>1, <4>2 DEF Free
    <3> QED BY <1>1, <3>1, <3>3, NoNeedNoLoss DEF NoNewNeed
  <2>5. CASE AgentEnds(m)
    <3>1. /\ UNCHANGED <<messages, delivered, revocation, control, timer>>
          /\ task[m] = "running" /\ task' = [task EXCEPT ![m] = "final"]
          /\ turns' \in {turns, [turns EXCEPT ![m].status = "cancelled"]}
      BY <2>5 DEF AgentEnds, requestVars, TurnsTyped
    <3>2. \A n \in Members \ {m} : turns'[n] = turns[n] /\ task'[n] = task[n]
      BY <3>1 DEF TurnsTyped
    <3>3. turns'[m].status # "none" /\ task'[m] = "final"
      <4>1. turns' \in [Members -> MemberTurn] /\ task'[m] = "final"
        BY <3>1 DEF TurnsTyped
      <4> QED BY <4>1 DEF TurnsTyped
    <3>4. \A n \in Members : Free(n)' => Free(n)
      BY <3>2, <3>3 DEF Free
    <3> QED BY <1>1, <3>1, <3>4, NoNeedNoLoss DEF NoNewNeed
  <2>6. CASE BeginSpeaking(m)
    <3> DEFINE r == Row(m, {}, OfDevice(turns[m].batch), "streaming")
    <3>1. r \in Message /\ r.status = "streaming"
      <4>1. OfDevice(turns[m].batch) \in BOOLEAN
        BY DEF OfDevice
      <4> QED BY <4>1, RowType DEF Row
    <3>2. /\ messages' = Append(messages, r) /\ UNCHANGED <<delivered, revocation, control, timer, task>>
          /\ turns' = [turns EXCEPT ![m].message = Len(messages) + 1]
      BY <2>6 DEF BeginSpeaking, requestVars
    <3> HIDE DEF r
    <3>3. \A i \in DOMAIN messages' : messages'[i].status = "completed" =>
              i \in DOMAIN messages /\ messages[i] = messages'[i]
      BY <3>1, <3>2, AddRow DEF RowsTyped
    <3>4. \A n \in Members : turns'[n].status = turns[n].status
      <4>1. \A n \in Members : turns[n] \in MemberTurn
        BY DEF TurnsTyped
      <4> QED BY <3>2, <4>1 DEF MemberTurn
    <3>5. ASSUME NEW n \in Members PROVE NeedsTurn(n)' /\ Free(n)' => NeedsTurn(n) /\ Free(n)
      BY <3>2, <3>3, <3>4, SameNeed, SameFree
    <3> QED BY <3>2, <3>5, NoNeedNoLoss DEF NoNewNeed
  <2> QED BY <1>3, <2>1, <2>2, <2>3, <2>4, <2>5, <2>6 DEF RunTurn
<1>4. ASSUME NEW bad \in SUBSET Members, NEW kept \in SUBSET bad, WakeMembers(bad, kept),
             UNCHANGED revocation
      PROVE  NoLostWakeup'
  <2>1. /\ \A n \in Members :
             IF n \in Going(bad, kept)
             THEN /\ turns'[n].status = "running" /\ turns'[n].batch = UnseenBatch(n)
                  /\ turns'[n].message = 0 /\ task'[n] = "starting"
             ELSE IF n \in Ready(kept) THEN turns'[n] = Absent /\ task'[n] = "none"
             ELSE turns'[n] = turns[n] /\ task'[n] = task[n]
        /\ \A n \in Members : delivered[n] \subseteq delivered'[n]
        /\ \A n \in Members : retries'[n] = IF n \in bad THEN "waiting" ELSE retries[n]
        /\ timer' \in BOOLEAN
        /\ timer' = FALSE => /\ messages' = Emptied(kept)
                             /\ \A n \in Members : retries'[n] # "waiting"
    BY <1>4, WakeEffect
  <2>2. ASSUME timer' = FALSE, NEW n \in Members, NeedsTurn(n)', Free(n)' PROVE FALSE
    <3>1. /\ messages' = Emptied(kept) /\ n \notin bad /\ n \notin kept /\ retries[n] # "waiting"
      BY <2>1, <2>2
    <3>2. NeedsTurn(n)
      <4>1. \A i \in DOMAIN messages' : messages'[i].status = "completed" =>
               /\ i \in DOMAIN messages /\ messages[i].status = "completed"
               /\ messages[i].by = messages'[i].by /\ messages[i].to = messages'[i].to
               /\ messages[i].device = messages'[i].device
        BY <3>1, CloseRows DEF Emptied, RowsTyped
      <4> QED BY <1>4, <2>1, <2>2, <4>1, SameNeed
    <3>3. CASE n \in Ready(kept)
      <4>1. n \in Going(bad, kept)
        BY <3>1, <3>2, <3>3 DEF Going
      <4> QED BY <2>1, <2>2, <4>1 DEF Free
    <3>4. CASE n \notin Ready(kept)
      <4>1. Free(n)
        BY <2>1, <2>2, <3>4, SameFree DEF Going
      <4> QED BY <3>1, <3>4, <4>1 DEF Ready
    <3> QED BY <3>3, <3>4
  <2> QED BY <2>1, <2>2 DEF NoLostWakeup
<1>5. CASE Wake
  <2>1. CASE paused
    <3>1. UNCHANGED control
      BY <1>5 DEF Wake, requestVars
    <3> QED BY <1>0, <2>1, <3>1 DEF NoLostWakeup
  <2>2. CASE ~paused
    BY <1>4, <1>5, <2>2 DEF Wake, requestVars
  <2> QED BY <2>1, <2>2
<1>6. ASSUME NEW m \in Members, WakeFails(m) PROVE NoLostWakeup'
  BY <1>4, <1>6 DEF WakeFails, requestVars
<1>7. CASE Request
  <2>1. ASSUME NEW to, NEW device, NEW fromQueue, Post(to, device, fromQueue) PROVE NoLostWakeup'
    BY <2>1 DEF Post, NoLostWakeup
  <2>2. ASSUME NEW to, PostFails(to) PROVE NoLostWakeup'
    BY <2>2 DEF PostFails, NoLostWakeup
  <2>3. CASE Stop
    BY <2>3 DEF Stop, NoLostWakeup
  <2>4. CASE QueueMessage
    <3>1. UNCHANGED <<messages, delivered, revocation, turns, task, control, timer>>
      BY <2>4 DEF QueueMessage
    <3> QED BY <1>1, <1>2, <3>1, NoNeedNoLoss DEF NoNewNeed
  <2>5. CASE Revoke
    <3>1. UNCHANGED <<messages, delivered, turns, task, control, timer>> /\ revocation' = "committed"
      BY <2>5 DEF Revoke
    <3>2. \A n \in Members : NeedsTurn(n)' => NeedsTurn(n)
      BY <3>1, SameNeed
    <3> QED BY <1>2, <3>1, <3>2, NoNeedNoLoss DEF NoNewNeed
  <2> QED BY <1>7, <2>1, <2>2, <2>3, <2>4, <2>5 DEF Request
<1>8. CASE ControlCancels
  BY <1>8 DEF ControlCancels, NoLostWakeup
<1>9. CASE ControlEnds
  <2>1. UNCHANGED <<messages, delivered, revocation>>
    BY <1>9 DEF ControlEnds
  <2>2. CASE control = "posted"
    BY <1>9, <2>2 DEF ControlEnds, Schedule, NoLostWakeup
  <2>3. CASE control = "stopped"
    <3>1. \A n \in Members : ~NeedsTurn(n)
      BY <2>3 DEF Controlled, NeedsTurn, UnseenBatch
    <3> QED BY <1>1, <2>1, <3>1 DEF NoLostWakeup
  <2> QED BY <1>9, <2>2, <2>3 DEF ControlEnds
<1>10. CASE CutDeviceTurns
  <2>1. UNCHANGED <<delivered, control, timer>> /\ revocation' = "cutting"
    BY <1>10 DEF CutDeviceTurns
  <2> DEFINE ok == {m \in Members : OfDevice(turns[m].batch)}
  <2>2. deviceCut' = ok /\ CancelActive(ok, {}) /\ messages' = CutRows(ok)
    BY <1>10 DEF CutDeviceTurns
  <2>3. \A n \in ok : n \in Members /\ ~Wedged(n) /\ turns[n].status # "none"
    BY <1>10, <2>2 DEF Strands, TurnsTyped, OfDevice
  <2> HIDE DEF ok
  <2>4. Cancelled(ok, {})
    <3>1. Cancellable(ok, {})
      BY <2>3 DEF Cancellable
    <3> QED BY <2>2, <3>1, CancelEffect
  <2>5. CutShort(ok) /\ DOMAIN messages' = DOMAIN messages
    BY <2>2, CutEffect
  <2>6. \A i \in DOMAIN messages' : messages'[i].status = "completed" =>
               /\ i \in DOMAIN messages /\ messages[i].status = "completed"
               /\ messages[i].by = messages'[i].by /\ messages[i].to = messages'[i].to
               /\ messages[i].device = messages'[i].device
    BY <2>5 DEF CutShort
  <2>7. ASSUME NEW n \in Members, Free(n)' PROVE Free(n)
    <3>1. CASE n \in ok /\ task[n] = "done"
      BY <2>3, <3>1 DEF Free, Wedged, TurnsTyped
    <3>2. CASE n \in ok /\ task[n] # "done"
      BY <2>4, <2>7, <3>2 DEF Free, Cancelled
    <3>3. CASE n \notin ok
      BY <2>4, <2>7, <3>3 DEF Free, Cancelled
    <3> QED BY <3>1, <3>2, <3>3
  <2>8. \A n \in Members : NeedsTurn(n)' => NeedsTurn(n)
    BY <2>1, <2>6, SameNeed
  <2> QED BY <2>1, <2>7, <2>8, NoNeedNoLoss DEF NoNewNeed
<1>11. CASE CancelDeviceTurns
  <2>1. UNCHANGED <<messages, delivered, turns, task, control, timer>> /\ revocation' = "done"
    BY <1>11 DEF CancelDeviceTurns
  <2>2. \A n \in Members : NeedsTurn(n)' => NeedsTurn(n)
    BY <2>1, SameNeed
  <2> QED BY <1>2, <2>1, <2>2, NoNeedNoLoss DEF NoNewNeed
<1>12. CASE DispatchQueued
  <2>1. SendNextQueued(turns, retries, messages, timer) /\ UNCHANGED <<delivered, revocation, turns, task, control>>
    BY <1>12 DEF DispatchQueued
  <2>2. timer' = TRUE \/ UNCHANGED <<messages, timer>>
    BY <2>1 DEF SendNextQueued
  <2>3. CASE timer' = TRUE
    BY <2>3 DEF NoLostWakeup
  <2>4. CASE UNCHANGED <<messages, timer>>
    BY <1>1, <1>2, <2>1, <2>4, NoNeedNoLoss DEF NoNewNeed
  <2> QED BY <2>2, <2>3, <2>4
<1>13. CASE DispatchFails \/ Restart
  BY <1>13 DEF DispatchFails, Restart, NoLostWakeup
<1>14. CASE UNCHANGED channelVars
  BY <1>1, <1>2, <1>14, NoNeedNoLoss DEF NoNewNeed, channelVars
<1> QED BY <1>3, <1>5, <1>6, <1>7, <1>8, <1>9, <1>10, <1>11, <1>12, <1>13, <1>14
        DEF ChannelNext, MemberStep, Finishes, Revokes

(* No wake-up is lost, however posts, stops, failures and restarts interleave, as
   long as no revocation strands a member. *)
THEOREM WakeupsKept == ChannelSpec /\ [][~Strands]_channelVars => []NoLostWakeup
<1>1. ChannelInit => NoLostWakeup
  BY DEF ChannelInit, NoLostWakeup, NeedsTurn, UnseenBatch, Unseen
<1>2. ChanInv /\ ChanInv' /\ NoLostWakeup /\ [ChannelNext]_channelVars /\ [~Strands]_channelVars
          => NoLostWakeup'
  <2>1. CASE ~Strands
    BY <2>1, WakeupStep
  <2>2. CASE UNCHANGED channelVars
    <3>1. \A n \in Members : NeedsTurn(n)' => NeedsTurn(n)
      BY <2>2 DEF NeedsTurn, UnseenBatch, Unseen, OfRevokedDevice, channelVars
    <3>2. \A n \in Members : Free(n)' => Free(n)
      BY <2>2 DEF Free, channelVars
    <3> QED BY <2>2, <3>1, <3>2 DEF NoLostWakeup, channelVars
  <2> QED BY <2>1, <2>2
<1> QED BY <1>1, <1>2, ChanAlways, PTL DEF ChannelSpec

=============================================================================
