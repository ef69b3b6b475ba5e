------------------------------ MODULE EventLog ------------------------------
(***************************************************************************)
(* backend/app/services/streaming/runtime.py and services/message.py: how  *)
(* a chat's turns write their output.  A turn buffers text events, commits *)
(* them in batches to message_events under a chat-wide gapless sequence    *)
(* number, publishes what it committed, and now and then checkpoints the   *)
(* whole render on the message row.  The final save prunes the turn's      *)
(* events; the event that ends the turn follows it.  A task that dies, or  *)
(* a restart, folds the log into the row instead.                          *)
(*                                                                         *)
(* An action is the code between two awaits that touch the database or the *)
(* cache.  Text is abstract: the k-th text event of a turn is the number k *)
(* and 0 is the error note a failed turn's render ends with.               *)
(***************************************************************************)
EXTENDS Subsequence

CONSTANTS
    MaxTurns, MaxText,  \* bounds on turns, and on text events of a turn
    MaxNotices,         \* bound on control events beside the start and the end
    MaxFaults,          \* bound on faults of all kinds
    Faulty              \* the kinds of fault that may happen, by name

ASSUME EventLogAssumption ==
    /\ MaxTurns \in Nat /\ MaxText \in Nat /\ MaxNotices \in Nat /\ MaxFaults \in Nat

VARIABLES
    pc,         \* where the chat's background task stands
    cur,        \* the message it writes
    verdict,    \* how its turn ended, while it finishes
    said,       \* per message: text events the agent produced (the accumulator)
    unflushed,  \* how many of them are still in _event_buffer
    lastSeq,    \* the runtime's last_seq
    events,     \* every event ever committed: its index is its sequence number
    live,       \* the sequence numbers still in message_events
    row,        \* per message: status, content_render and last_seq columns
    outbox,     \* committed, to be published before the task goes on
    orphans,    \* at start-up: rows in progress still to be reconciled
    phase,      \* of the server process: it starts no turn while it stops or starts
    notices, faults

logVars == <<pc, cur, verdict, said, unflushed, lastSeq, events, live, row, outbox,
             orphans, phase, notices, faults>>
taskVars == <<verdict, orphans, phase>>

Verdicts == {"completed", "interrupted", "failed"}
InRun == {"starting", "streaming", "flushed", "finishing", "saved", "handing", "handed",
          "ending"}
EndKinds == {"complete", "cancelled", "error", "handoff"}
Event == [msg : Nat, kind : {"start", "text", "notice"} \cup EndKinds, val : Nat]
Row == [status : Verdicts \cup {"in_progress", "deleted"}, items : Seq(Nat), seq : Nat]

TypeOK ==
    /\ pc \in InRun \cup {"idle", "booting", "dead", "folded", "reconciling"}
    /\ cur \in Nat /\ verdict \in Verdicts /\ said \in Seq(Nat) /\ row \in Seq(Row)
    /\ unflushed \in Nat /\ lastSeq \in Nat /\ events \in Seq(Event)
    /\ live \subseteq DOMAIN events /\ outbox \in Seq(Nat)
    /\ orphans \subseteq DOMAIN row /\ phase \in {"serving", "stopping", "starting"}
    /\ notices \in Nat /\ faults \in Nat

-----------------------------------------------------------------------------
(* The log and the rows *)

UpTo(n) == [k \in 1..n |-> k]
LiveAfter(s) == InOrder({i \in live : i > s})
OwnTexts(m) == {i \in live : events[i].msg = m /\ events[i].kind = "text"}
TextsAfter(m, s) ==
    LET own == InOrder({i \in OwnTexts(m) : i > s})
    IN  [k \in DOMAIN own |-> events[own[k]].val]
InProgress == {m \in DOMAIN row : row[m].status = "in_progress"}

NoteOf(v) == IF v = "failed" THEN <<0>> ELSE <<>>
Larger(a, b) == IF a > b THEN a ELSE b   \* the row's last_seq never regresses

Commit(batch) ==
    /\ events' = events \o batch
    /\ live' = live \cup (Len(events) + 1 .. Len(events) + Len(batch))
Publish(n) == outbox' = [k \in 1..n |-> Len(events) + k]
One(m, kind) == <<[msg |-> m, kind |-> kind, val |-> 0]>>
Batch == [k \in 1..unflushed |->
            [msg |-> cur, kind |-> "text", val |-> said[cur] - unflushed + k]]

PruneChat(m) == live' = {}   \* wrong
PruneNothing(m) == live' = live   \* wrong
Prune(m) == live' = {i \in live : events[i].msg # m}

Fault(kind) == kind \in Faulty /\ faults < MaxFaults /\ faults' = faults + 1
Free == outbox = <<>>   \* emit_event and the flush publish before they return

Init ==
    /\ pc = "idle" /\ cur = 0 /\ verdict = "completed" /\ said = <<>> /\ unflushed = 0
    /\ lastSeq = 0 /\ events = <<>> /\ live = {} /\ row = <<>> /\ outbox = <<>>
    /\ orphans = {} /\ phase = "serving" /\ notices = 0 /\ faults = 0

-----------------------------------------------------------------------------
(* A turn *)

NewRow == /\ row' = Append(row, [status |-> "in_progress", items |-> <<>>, seq |-> 0])
          /\ said' = Append(said, 0)

NewTurn ==
    /\ pc = "idle" /\ Free /\ phase = "serving" /\ Len(row) < MaxTurns
    /\ NewRow /\ pc' = "booting" /\ cur' = Len(row) + 1 /\ verdict' = "completed"
    /\ unflushed' = 0 /\ lastSeq' = 0
    /\ UNCHANGED <<events, live, outbox, orphans, phase, notices, faults>>

(* emit_event of a control event: append one, remember its number, publish it *)
Emit(kind) ==
    /\ Commit(One(cur, kind)) /\ Publish(1) /\ lastSeq' = Len(events) + 1

Start ==
    /\ pc = "booting" /\ Free /\ Emit("start") /\ pc' = "starting"
    /\ UNCHANGED <<cur, taskVars, said, unflushed, row, notices, faults>>

StartSnapshot ==
    /\ pc = "starting" /\ Free /\ pc' = "streaming"
    /\ row' = [row EXCEPT ![cur].items = <<>>, ![cur].seq = Larger(row[cur].seq, lastSeq)]
    /\ UNCHANGED <<cur, taskVars, said, unflushed, lastSeq, events, live, outbox, notices,
                   faults>>

Say ==
    /\ pc = "streaming" /\ Free /\ said[cur] < MaxText
    /\ said' = [said EXCEPT ![cur] = @ + 1] /\ unflushed' = unflushed + 1
    /\ UNCHANGED <<pc, cur, taskVars, lastSeq, events, live, row, outbox, notices, faults>>

(* _flush_event_buffer, called where `from` is and going on at `to`; an empty
   buffer is skipped *)
FlushAt(from, to) ==
    /\ pc = from /\ Free /\ unflushed > 0 /\ pc' = to
    /\ Commit(Batch) /\ Publish(unflushed)
    /\ lastSeq' = Len(events) + unflushed /\ unflushed' = 0
    /\ UNCHANGED <<cur, taskVars, said, row, notices, faults>>

Flush == FlushAt("streaming", "flushed")

CheckpointEarly ==   \* wrong
    /\ pc \in {"streaming", "flushed"} /\ Free /\ pc' = "streaming"
    /\ row' = [row EXCEPT ![cur].items = UpTo(said[cur]), ![cur].seq = Larger(@, lastSeq)]
    /\ UNCHANGED <<cur, taskVars, said, unflushed, lastSeq, events, live, outbox, notices,
                   faults>>
Checkpoint ==
    /\ pc = "flushed" /\ Free /\ pc' = "streaming"
    /\ row' = [row EXCEPT ![cur].items = UpTo(said[cur]), ![cur].seq = Larger(@, lastSeq)]
    /\ UNCHANGED <<cur, taskVars, said, unflushed, lastSeq, events, live, outbox, notices,
                   faults>>
SkipCheckpoint ==
    /\ pc = "flushed" /\ Free /\ pc' = "streaming"
    /\ UNCHANGED <<cur, taskVars, said, unflushed, lastSeq, events, live, row, outbox,
                   notices, faults>>

(* a control event, flushed before; the last context usage is one too *)
Notify ==
    /\ pc \in {"streaming", "flushed", "ending"} /\ Free /\ unflushed = 0
    /\ pc = "ending" => verdict # "failed"
    /\ notices < MaxNotices /\ notices' = notices + 1
    /\ Emit("notice") /\ pc' = IF pc = "flushed" THEN "streaming" ELSE pc
    /\ UNCHANGED <<cur, taskVars, said, unflushed, row, faults>>

Silent == unflushed = 0 /\ lastSeq > 0 /\ events[lastSeq].kind = "start"
Finish(v) ==
    /\ pc = "streaming" /\ Free /\ (v = "completed" => ~Silent)
    /\ pc' = "finishing" /\ verdict' = v
    /\ UNCHANGED <<cur, said, unflushed, lastSeq, events, live, row, outbox, orphans,
                   phase, notices, faults>>

FinalFlush == FlushAt("finishing", "finishing")
SaveFinal ==
    /\ pc = "finishing" /\ Free /\ unflushed = 0 /\ pc' = "saved"
    /\ row' = [row EXCEPT ![cur] = [status |-> verdict, items |-> UpTo(said[cur]) \o NoteOf(verdict),
                                    seq |-> Larger(@.seq, lastSeq)]]
    /\ Prune(cur)
    /\ UNCHANGED <<cur, taskVars, said, unflushed, lastSeq, events, outbox, notices, faults>>

NoneQueued ==
    /\ pc = "saved" /\ Free /\ pc' = "ending"
    /\ UNCHANGED <<cur, taskVars, said, unflushed, lastSeq, events, live, row, outbox,
                   notices, faults>>
ScaffoldNext ==
    /\ pc = "saved" /\ Free /\ verdict # "failed" /\ Len(row) < MaxTurns
    /\ NewRow /\ pc' = "handing"
    /\ UNCHANGED <<cur, taskVars, unflushed, lastSeq, events, live, outbox, notices, faults>>

(* queue_processing belongs to the message that just ended and names the next one;
   the next task starts once it is published, with a runtime of its own *)
HandOffOfNext ==   \* wrong
    /\ pc = "handing" /\ Free /\ pc' = "handed"
    /\ Commit(<<[msg |-> Len(row), kind |-> "handoff", val |-> Len(row)]>>) /\ Publish(1)
    /\ lastSeq' = Len(events) + 1
    /\ UNCHANGED <<cur, taskVars, said, unflushed, row, notices, faults>>
HandOff ==
    /\ pc = "handing" /\ Free /\ pc' = "handed"
    /\ Commit(<<[msg |-> cur, kind |-> "handoff", val |-> Len(row)]>>) /\ Publish(1)
    /\ lastSeq' = Len(events) + 1
    /\ UNCHANGED <<cur, taskVars, said, unflushed, row, notices, faults>>
StartNext ==
    /\ pc = "handed" /\ Free /\ pc' = "booting"
    /\ cur' = Len(row) /\ verdict' = "completed" /\ unflushed' = 0 /\ lastSeq' = 0
    /\ UNCHANGED <<said, events, live, row, outbox, orphans, phase, notices, faults>>

StatusOf(v) == v   \* wrong
EndOf(v) == CASE v = "completed" -> "complete"
              [] v = "interrupted" -> "cancelled"
              [] OTHER -> "error"
Terminal ==
    /\ pc = "ending" /\ Free /\ Emit(EndOf(verdict)) /\ pc' = "idle"
    /\ UNCHANGED <<cur, taskVars, said, unflushed, row, notices, faults>>

PublishNext ==
    /\ ~Free /\ outbox' = Tail(outbox)
    /\ UNCHANGED <<pc, cur, taskVars, said, unflushed, lastSeq, events, live, row, notices,
                   faults>>

-----------------------------------------------------------------------------
(* finalize_dead_stream: the task ended without finishing its turn, or a restart
   found the row in progress *)

AfterDead == IF phase = "starting" THEN "reconciling" ELSE "idle"

FailEarly ==
    /\ pc = "booting" /\ pc' = "dead" /\ verdict' = "failed"
    /\ UNCHANGED <<cur, said, unflushed, lastSeq, events, live, row, outbox, orphans, phase,
                   notices, faults>>

FoldNothing(m) == row[m].items   \* wrong
Folded(m) == row[m].items \o TextsAfter(m, row[m].seq)
FoldQuietly ==   \* wrong
    /\ pc = "dead" /\ row[cur].status = "in_progress" /\ pc' = AfterDead
    /\ row' = [row EXCEPT ![cur].status = verdict, ![cur].items = Folded(cur) \o NoteOf(verdict)]
    /\ Prune(cur)
    /\ UNCHANGED <<cur, taskVars, said, unflushed, lastSeq, events, outbox, notices, faults>>
FoldDead ==
    /\ pc = "dead" /\ row[cur].status = "in_progress" /\ pc' = "folded"
    /\ row' = [row EXCEPT ![cur] =
                   [status |-> verdict, items |-> Folded(cur) \o NoteOf(verdict),
                    seq |-> CHOOSE s \in {i \in live : events[i].msg = cur} \cup {row[cur].seq} :
                                \A i \in live : events[i].msg = cur => i <= s]]
    /\ Prune(cur)
    /\ UNCHANGED <<cur, taskVars, said, unflushed, lastSeq, events, outbox, notices, faults>>
AlreadyFinal ==
    /\ pc = "dead" /\ row[cur].status # "in_progress" /\ pc' = AfterDead
    /\ UNCHANGED <<cur, taskVars, said, unflushed, lastSeq, events, live, row, outbox,
                   notices, faults>>
DeadTerminal ==   \* reconciliation has no user to publish to
    /\ pc = "folded" /\ pc' = AfterDead
    /\ Commit(One(cur, EndOf(verdict)))
    /\ IF phase = "starting" THEN UNCHANGED outbox ELSE Publish(1)
    /\ UNCHANGED <<cur, taskVars, said, unflushed, lastSeq, row, notices, faults>>
FinalizeFails ==   \* logged and given up
    /\ pc \in {"dead", "folded"} /\ Fault("db") /\ pc' = AfterDead
    /\ UNCHANGED <<cur, taskVars, said, unflushed, lastSeq, events, live, row, outbox, notices>>

-----------------------------------------------------------------------------
(* Faults *)

PublishLost ==
    /\ ~Free /\ Fault("publish") /\ outbox' = Tail(outbox)
    /\ UNCHANGED <<pc, cur, taskVars, said, unflushed, lastSeq, events, live, row, notices>>

(* run: an exception saves the turn as failed and emits "error"; a second one,
   on that path, leaves the rest to finalize_dead_stream *)
DbFails ==
    /\ pc \in {"booting", "starting", "streaming", "flushed", "finishing", "ending"}
    /\ Free /\ Fault("db")
    /\ verdict' = "failed" /\ pc' = IF verdict = "failed" THEN "dead" ELSE "finishing"
    /\ UNCHANGED <<cur, said, unflushed, lastSeq, events, live, row, outbox, orphans, phase,
                   notices>>
HandOffFails ==   \* turn_scaffold discards the rows, the message is queued again
    /\ pc = "handing" /\ Free /\ Fault("db") /\ pc' = "ending"
    /\ row' = [row EXCEPT ![Len(row)].status = "deleted"]
    /\ UNCHANGED <<cur, taskVars, said, unflushed, lastSeq, events, live, outbox, notices>>

(* Stop's late task.cancel() lands on an await of emit_event or a flush: what was
   committed stays, what follows the await is not done *)
CutShort ==
    /\ pc \in {"streaming", "flushed"} /\ Fault("cutShort")
    /\ pc' = "finishing" /\ verdict' = "interrupted"
    /\ \/ ~Free /\ outbox' = <<>> /\ UNCHANGED <<events, live>>
       \/ Free /\ pc = "streaming" /\ unflushed > 0 /\ Commit(Batch) /\ UNCHANGED outbox
       \/ /\ Free /\ unflushed = 0 /\ notices < MaxNotices
          /\ Commit(One(cur, "notice")) /\ UNCHANGED outbox
    /\ UNCHANGED <<cur, said, unflushed, lastSeq, row, orphans, phase, notices>>

Shutdown ==
    /\ phase = "serving" /\ Fault("shutdown") /\ phase' = "stopping"
    /\ UNCHANGED <<pc, cur, verdict, said, unflushed, lastSeq, events, live, row, outbox,
                   orphans, notices>>
(* stop_background_chats after its timeout; CancelledError is no Exception, so
   nothing of run or turn_scaffold handles it, nor finalize_dead_stream *)
TaskCancelled ==
    /\ phase = "stopping" /\ (pc # "idle" \/ ~Free)
    /\ pc' = IF pc \in {"dead", "folded", "idle"} THEN "idle" ELSE "dead"
    /\ verdict' = "interrupted" /\ unflushed' = 0 /\ outbox' = <<>>
    /\ UNCHANGED <<cur, said, lastSeq, events, live, row, orphans, phase, notices, faults>>

Boot ==
    /\ pc' = "reconciling" /\ phase' = "starting" /\ orphans' = InProgress
    /\ verdict' = "interrupted" /\ unflushed' = 0 /\ lastSeq' = 0 /\ outbox' = <<>>
    /\ UNCHANGED <<cur, said, events, live, row, notices>>
Crash == Fault("crash") /\ Boot
Exit == phase = "stopping" /\ pc = "idle" /\ Free /\ Boot /\ UNCHANGED faults

Reconcile ==
    /\ pc = "reconciling"
    /\ \E m \in orphans : cur' = m /\ orphans' = orphans \ {m} /\ pc' = "dead"
    /\ UNCHANGED <<verdict, said, unflushed, lastSeq, events, live, row, outbox, phase,
                   notices, faults>>
Serve ==
    /\ pc = "reconciling" /\ orphans = {} /\ pc' = "idle" /\ phase' = "serving"
    /\ UNCHANGED <<cur, verdict, said, unflushed, lastSeq, events, live, row, outbox,
                   orphans, notices, faults>>

-----------------------------------------------------------------------------
(* The steps the code takes of itself, those its users choose, and what fails *)
TaskStep ==
    \/ Start \/ StartSnapshot \/ Flush \/ Checkpoint \/ SkipCheckpoint \/ FinalFlush \/ SaveFinal
    \/ NoneQueued \/ HandOff \/ StartNext \/ Terminal
    \/ FoldDead \/ AlreadyFinal \/ DeadTerminal \/ Reconcile \/ Serve
AgentStep == Say \/ Notify \/ (\E v \in Verdicts : Finish(v)) \/ FailEarly
FaultStep ==
    \/ DbFails \/ HandOffFails \/ FinalizeFails \/ CutShort \/ Shutdown \/ TaskCancelled
\* steps that read or write neither the connection nor the inbox of a feed
WriterStep == TaskStep \/ AgentStep \/ ScaffoldNext \/ FaultStep

LogNext == NewTurn \/ WriterStep \/ PublishNext \/ PublishLost \/ Crash \/ Exit

(* Every await of a task is answered, and every agent ends its prompt; that a
   user sends, stops or queues something, and that anything fails, is left open. *)
LogFairness ==
    /\ WF_logVars(TaskStep) /\ WF_logVars(PublishNext) /\ WF_logVars(Exit)
    /\ SF_logVars(\E v \in Verdicts : Finish(v))
LogSpec == Init /\ [][LogNext]_logVars /\ LogFairness

-----------------------------------------------------------------------------
(* Properties *)

Final(m) == row[m].status \in Verdicts
Texts(m) == {i \in DOMAIN events : events[i].msg = m /\ events[i].kind = "text"}
Buffered(m) ==
    IF m = cur /\ pc \in InRun THEN [k \in 1..unflushed |-> said[m] - unflushed + k] ELSE <<>>
(* a late cancel leaves a batch in the buffer that was committed already *)
Doubled(m) ==
    \E i \in Texts(m) :
        \/ \E j \in Texts(m) \ {i} : events[j].val = events[i].val
        \/ \E k \in DOMAIN Buffered(m) : Buffered(m)[k] = events[i].val

(* A checkpoint, the log past its last_seq and the buffer hold, in order and once,
   what the agent has said so far: a reader that starts from the row and replays the
   log misses nothing and repeats nothing (_flush_snapshot, get_*_events_after_seq). *)
LogCompletes ==
    \A m \in InProgress : IF Doubled(m) THEN "cutShort" \in Faulty ELSE
        LET all == row[m].items \o TextsAfter(m, row[m].seq) \o Buffered(m)
        IN  /\ all = UpTo(Len(all))
            /\ m = cur /\ pc \in InRun => Len(all) = said[m]

(* a render without the note of a failure *)
TextOf(items) == Picked(items, {k \in DOMAIN items : items[k] # 0})

(* However a turn ends, its final render holds every text event that was ever
   committed for it, although the save prunes them from the log; and unless a batch
   was doubled, in order and once (update_message_snapshot, _replay_past_checkpoint). *)
FinalKeepsCommitted ==
    \A m \in DOMAIN row : Final(m) =>
        LET text == TextOf(row[m].items)
        IN  /\ \A i \in Texts(m) : \E k \in DOMAIN text : text[k] = events[i].val
            /\ ~Doubled(m) => text = UpTo(Len(text))

(* No committed text is lost or told twice: neither while its turn is under way nor once
   it is over. *)
TextsKept == LogCompletes /\ FinalKeepsCommitted

(* "so it survives replay" (run): an event that ends a turn is the last one of its
   message, agrees with the row's status and is never pruned. *)
EndSurvives ==
    \A i \in DOMAIN events : LET e == events[i] IN e.kind \in EndKinds =>
        /\ i \in live /\ \A j \in DOMAIN events : j > i => events[j].msg # e.msg
        /\ CASE e.kind = "handoff" -> row[e.msg].status \in {"completed", "interrupted"}
             [] OTHER -> e.kind = EndOf(row[e.msg].status)

(* A turn's row never goes back to being in progress, and the log of a finished turn
   holds no text again: a late flush must not reopen what the final save closed. *)
FinalStays ==
    [][\A m \in DOMAIN row : Final(m) =>
           /\ row'[m].status \in Verdicts
           /\ \A i \in live' : events'[i].msg = m => events'[i].kind # "text"]_logVars

(* Every row a turn made is finished, and an event tells its readers so. *)
EveryTurnEnds ==
    \A m \in 1..MaxTurns :
        (m \in DOMAIN row /\ row[m].status = "in_progress")
            ~> \E i \in DOMAIN events : events[i].msg = m /\ events[i].kind \in EndKinds
=============================================================================
