------------------------------ MODULE Channel ------------------------------
(***************************************************************************)
(* backend/app/services/channel.py: one group channel.  User messages and  *)
(* the members' replies are rows; a member's turn is prompted with every   *)
(* row it has not been delivered, and only a successful turn delivers its  *)
(* batch.  One debounced timer wakes the members; a post, a stop and the   *)
(* revocation of a device cut running turns short; a queue holds messages  *)
(* back until the channel is idle.                                         *)
(*                                                                         *)
(* An action is one critical section of state.lock, or the code a task     *)
(* runs without it between two awaits.  Times are abstract: the timer may  *)
(* fire whenever it is set, and a retry that waits may fall due.  An       *)
(* audience of None (@all, or nobody named) is the set of all members.     *)
(***************************************************************************)
EXTENDS Naturals, Sequences, FiniteSets

CONSTANTS
    Members,
    User,           \* the author of the owner's messages
    MaxMessages,    \* bound on channel messages, the queued ones included
    MaxQueued,      \* bound on queued messages
    MaxMishaps      \* bound on failed writes, restarts and the revocation

ASSUME ChannelAssumption ==
    /\ User \notin Members /\ IsFiniteSet(Members)
    /\ {MaxMessages, MaxQueued, MaxMishaps} \subseteq Nat

VARIABLES
    messages,       \* the rows of channel_messages, by seq
    delivered,      \* per member: the messages with a ChannelDelivery row
    turns,          \* state.turns: per member its MemberTurn, or Absent
    task,           \* per member: where the run_turn task of that turn stands
    agent,          \* per member: what its provider turn does
    retries,        \* state.retries: "waiting" until its time, then "due"
    permissions,    \* members with an approval listed in state.permissions
    timer,          \* state.timer is set
    paused,
    control,        \* the holder of state.control, and how far it is
    cut,            \* the turns that holder is about to cancel
    revocation,     \* of the one paired device: how far it is
    deviceCut,      \* the turns the revocation is about to cancel
    queued,         \* messages in the channel's queue
    dispatching,    \* a request that queued a message has dispatch_queued to run
    mishaps         \* how many of them so far

channelVars == <<messages, delivered, turns, task, agent, retries, permissions, timer, paused,
                 control, cut, revocation, deviceCut, queued, dispatching, mishaps>>
requestVars == <<control, cut, revocation, deviceCut, dispatching>>

Absent == [status |-> "none", batch |-> {}, message |-> 0]
Message == [by : Members \cup {User}, to : SUBSET Members, device : BOOLEAN,
            status : {"streaming", "completed", "closed"}]
MemberTurn == [status : {"none", "running", "cancelled", "failed", "finished"},
               batch : SUBSET (1..MaxMessages), message : 0..MaxMessages]

ChannelTypeOK ==
    /\ messages \in Seq(Message) /\ Len(messages) + queued <= MaxMessages
    /\ delivered \in [Members -> SUBSET DOMAIN messages]
    /\ turns \in [Members -> MemberTurn]
    /\ task \in [Members -> {"none", "starting", "running", "final", "done"}]
    /\ agent \in [Members -> {"none", "running", "asking", "stopping"}]
    /\ \A m \in Members : (turns[m] = Absent) = (task[m] = "none")
    /\ \A m \in Members : (agent[m] # "none") = (task[m] = "running")
    /\ retries \in [Members -> {"none", "waiting", "due"}]
    /\ permissions \subseteq Members /\ timer \in BOOLEAN /\ paused \in BOOLEAN
    /\ control \in {"free", "posting", "posted", "stopping", "stopped"}
    /\ cut \subseteq Members /\ deviceCut \subseteq Members
    /\ revocation \in {"no", "committed", "cutting", "done"}
    /\ queued \in 0..MaxQueued /\ dispatching \in BOOLEAN
    /\ mishaps \in 0..MaxMishaps

-----------------------------------------------------------------------------
(* What a member has yet to see *)

Unseen(m) ==
    {i \in DOMAIN messages : /\ messages[i].status = "completed"
                             /\ messages[i].by # m
                             /\ i \notin delivered[m]}
OfRevokedDevice(i) == messages[i].device /\ revocation # "no"
\* Mutant: the batch keeps the messages of revoked devices.
WholeBatch(m) == Unseen(m)
UnseenBatch(m) == {i \in Unseen(m) : ~OfRevokedDevice(i)}
NeedsTurn(m) == \E i \in UnseenBatch(m) : m \in messages[i].to

\* mentions, else everybody of the addressed part of the batch, authors included.
ReplyAudiences(m) ==
    LET heard == {i \in turns[m].batch : m \in messages[i].to}
        asked == UNION {messages[i].to \cup ({messages[i].by} \ {User}) : i \in heard}
    IN  {asked \ {m}} \cup (SUBSET (Members \ {m}) \ {{}})
OfDevice(B) == \E i \in B : messages[i].device

Room == Len(messages) + queued < MaxMessages
Row(by, to, device, status) == [by |-> by, to |-> to, device |-> device, status |-> status]
Close(S) == [i \in DOMAIN messages |->
                IF i \in S THEN [messages[i] EXCEPT !.status = "closed"] ELSE messages[i]]

-----------------------------------------------------------------------------
(* Turns *)

Mishap == mishaps < MaxMishaps /\ mishaps' = mishaps + 1
Schedule(stillPaused) == timer' = ~stillPaused
BackOff(S) == retries' = [m \in Members |-> IF m \in S THEN "waiting" ELSE retries[m]]
\* Mutant: a turn's end leaves its approvals on the list.
LeaveApprovals(S) == UNCHANGED <<permissions, agent>>
Resolve(S) ==
    /\ permissions' = permissions \ S
    /\ agent' = [m \in Members |-> IF m \in S \cap permissions THEN "running" ELSE agent[m]]
\* Mutant: the finished turn's task stays behind.
PopTurnOnly(m) == turns' = [turns EXCEPT ![m] = Absent] /\ UNCHANGED task
Pop(m) ==
    /\ turns' = [turns EXCEPT ![m] = Absent]
    /\ task' = [task EXCEPT ![m] = "none"]

\* run_turn: the chat accepts the prompt (a 409 is tried again); a turn that was
\* cut short meanwhile has its provider turn cancelled at once.
StartTurn(m) ==
    /\ task[m] = "starting"
    /\ task' = [task EXCEPT ![m] = "running"]
    /\ agent' = [agent EXCEPT ![m] =
                    IF turns[m].status = "running" THEN "running" ELSE "stopping"]
    /\ UNCHANGED <<messages, delivered, turns, retries, permissions, timer, paused, queued,
                   mishaps, requestVars>>

SkipStart(m) ==
    /\ task[m] = "starting" /\ turns[m].status # "running"
    /\ task' = [task EXCEPT ![m] = "final"]
    /\ UNCHANGED <<messages, delivered, turns, agent, retries, permissions, timer, paused,
                   queued, mishaps, requestVars>>

FailTurn(m) ==
    IF turns[m].status = "running"
    THEN turns' = [turns EXCEPT ![m].status = "failed"] /\ BackOff({m})
    ELSE UNCHANGED <<turns, retries>>

StartFails(m) ==
    /\ task[m] = "starting" /\ Mishap
    /\ task' = [task EXCEPT ![m] = "final"]
    /\ FailTurn(m)
    /\ UNCHANGED <<messages, delivered, agent, permissions, timer, paused, queued, requestVars>>

\* text, flush, begin_speaking: the first text that is not a PASS opens a row.
BeginSpeaking(m) ==
    /\ agent[m] = "running" /\ turns[m].status = "running"
    /\ turns[m].message = 0 /\ Room
    /\ messages' = Append(messages, Row(m, {}, OfDevice(turns[m].batch), "streaming"))
    /\ turns' = [turns EXCEPT ![m].message = Len(messages) + 1]
    /\ UNCHANGED <<delivered, task, agent, retries, permissions, timer, paused, queued, mishaps,
                   requestVars>>

\* handle_event, permission_request: listed if the turn still runs, else refused at once.
Ask(m) ==
    /\ agent[m] = "running" /\ turns[m].status = "running"
    /\ agent' = [agent EXCEPT ![m] = "asking"]
    /\ permissions' = permissions \cup {m}
    /\ UNCHANGED <<messages, delivered, turns, task, retries, timer, paused, queued, mishaps,
                   requestVars>>

\* The owner answers, or 300 s pass: permission_resolved.
Answer(m) ==
    /\ agent[m] = "asking" /\ m \in permissions
    /\ Resolve({m})
    /\ UNCHANGED <<messages, delivered, turns, task, retries, timer, paused, queued, mishaps,
                   requestVars>>

\* handle_event, error: without the lock, while the provider turn still runs.
AgentError(m) ==
    /\ agent[m] = "running" /\ turns[m].status = "running" /\ Mishap
    /\ FailTurn(m)
    /\ UNCHANGED <<messages, delivered, task, agent, permissions, timer, paused, queued,
                   requestVars>>

\* The provider turn ends.  One that somebody cancelled says so to its sink.
AgentEnds(m) ==
    /\ agent[m] \in {"running", "stopping"}
    /\ agent' = [agent EXCEPT ![m] = "none"]
    /\ task' = [task EXCEPT ![m] = "final"]
    /\ turns' = IF agent[m] = "stopping" /\ turns[m].status = "running"
                THEN [turns EXCEPT ![m].status = "cancelled"] ELSE turns
    /\ UNCHANGED <<messages, delivered, retries, permissions, timer, paused, queued, mishaps,
                   requestVars>>

\* run_turn, finally: finish.  A turn that still runs succeeded: its batch is
\* delivered and its reply, if it is not a PASS, completed, in one commit.
Delivers(m) == turns[m].status = "running"

FinishTurn(m) ==
    /\ task[m] = "final"
    /\ Pop(m) /\ Resolve({m}) /\ Schedule(paused)
    /\ IF Delivers(m)
       THEN /\ retries' = [retries EXCEPT ![m] = "none"]
            /\ \/ messages' = Close({turns[m].message})
               \/ \E to \in ReplyAudiences(m) :
                    LET reply == Row(m, to, OfDevice(turns[m].batch), "completed") IN
                    IF turns[m].message = 0
                    THEN Room /\ messages' = Append(messages, reply)
                    ELSE messages' = [messages EXCEPT ![turns[m].message] = reply]
            /\ delivered' = [delivered EXCEPT ![m] = @ \cup turns[m].batch]
       ELSE /\ messages' = Close(IF turns[m].status = "finished" THEN {} ELSE {turns[m].message})
            /\ UNCHANGED <<retries, delivered>>
    /\ UNCHANGED <<paused, queued, mishaps, requestVars>>

\* finish raises, perhaps after begin_speaking: the turn stays in state.turns, failed,
\* and its task ends.
FinishFails(m) ==
    /\ task[m] = "final" /\ turns[m].status # "finished" /\ Mishap
    /\ task' = [task EXCEPT ![m] = "done"]
    /\ \/ /\ turns' = [turns EXCEPT ![m].status = "failed"]
          /\ UNCHANGED messages
       \/ /\ Delivers(m) /\ turns[m].message = 0 /\ Room
          /\ messages' = Append(messages, Row(m, {}, OfDevice(turns[m].batch), "streaming"))
          /\ turns' = [turns EXCEPT ![m].status = "failed", ![m].message = Len(messages) + 1]
    /\ IF turns[m].status = "failed" THEN UNCHANGED retries ELSE BackOff({m})
    /\ Resolve({m}) /\ Schedule(paused)
    /\ UNCHANGED <<delivered, paused, queued, requestVars>>

-----------------------------------------------------------------------------
(* Waking the members *)

RetryDue(m) ==
    /\ retries[m] = "waiting"
    /\ retries' = [retries EXCEPT ![m] = "due"]
    /\ UNCHANGED <<messages, delivered, turns, task, agent, permissions, timer, paused, queued,
                   mishaps, requestVars>>

\* Members whose turn is over: none is in state.turns, or it failed and its task ended.
\* Mutant: a failed turn keeps its place.
Gone(m) == turns[m].status = "none"
Free(m) == turns[m].status = "none" \/ (turns[m].status = "failed" /\ task[m] = "done")

Idle(ts, rs, armed) ==
    /\ \A m \in Members : ts[m] = Absent /\ rs[m] = "none"
    /\ permissions = {} /\ ~armed /\ ~paused

\* send_next_queued, where rows and armed are the messages and the timer so far.
SendNextQueued(ts, rs, rows, armed) ==
    IF Idle(ts, rs, armed) /\ queued > 0
    THEN /\ \E to \in SUBSET Members \ {{}}, device \in BOOLEAN :
                messages' = Append(rows, Row(User, to, device, "completed"))
         /\ queued' = queued - 1
         /\ timer' = TRUE
    ELSE messages' = rows /\ timer' = armed /\ UNCHANGED queued

\* For the members in bad a read or a write raises; for those in kept, before their
\* failed turn is finished.
WakeMembers(bad, kept) ==
    LET ready == {m \in Members : retries[m] # "waiting" /\ Free(m)} \ kept
        go == {m \in ready \ bad : NeedsTurn(m)}
    IN  /\ turns' = [m \in Members |->
                        IF m \in go
                        THEN [status |-> "running", batch |-> UnseenBatch(m), message |-> 0]
                        ELSE IF m \in ready THEN Absent ELSE turns[m]]
        /\ task' = [m \in Members |-> IF m \in go THEN "starting"
                                      ELSE IF m \in ready THEN "none" ELSE task[m]]
        /\ delivered' = [m \in Members |->
                            IF m \in ready \ bad
                            THEN delivered[m] \cup {i \in Unseen(m) : OfRevokedDevice(i)}
                            ELSE delivered[m]]
        /\ BackOff(bad)
        /\ SendNextQueued(turns', retries', Close({turns[m].message : m \in ready}),
                          \E m \in Members : retries'[m] = "waiting")

Wake ==
    /\ timer
    /\ IF paused
       THEN timer' = FALSE /\ UNCHANGED <<messages, delivered, turns, task, retries, queued>>
       ELSE WakeMembers({}, {})
    /\ UNCHANGED <<agent, permissions, paused, mishaps, requestVars>>

WakeFails(m) ==
    /\ timer /\ ~paused /\ retries[m] # "waiting" /\ Free(m) /\ Mishap
    /\ \E kept \in SUBSET {m} : (kept # {} => turns[m] # Absent) /\ WakeMembers({m}, kept)
    /\ UNCHANGED <<agent, permissions, paused, requestVars>>

-----------------------------------------------------------------------------
(* The owner's requests *)

Running(S) == {m \in S : turns[m] # Absent}

\* cancel_active: every turn in ok is finished; the one in bad has its finish raise.
CancelActive(ok, bad) ==
    /\ turns' = [m \in Members |->
                    IF m \in ok /\ task[m] = "done" THEN Absent
                    ELSE IF m \in ok THEN [turns[m] EXCEPT !.status = "finished"]
                    ELSE IF m \in bad THEN [turns[m] EXCEPT !.status = "cancelled"]
                    ELSE turns[m]]
    /\ task' = [m \in Members |-> IF m \in ok /\ task[m] = "done" THEN "none" ELSE task[m]]
    /\ Resolve(ok \cup bad)
CutRows(S) == Close({turns[m].message : m \in {n \in S : turns[n].status # "finished"}})

\* cancel_turns: whatever the member's chat runs by now is told to stop, which
\* dismisses the approval it waits for.
CancelTurns(S) ==
    /\ agent' = [m \in Members |-> IF m \in S /\ agent[m] # "none" THEN "stopping" ELSE agent[m]]
    /\ permissions' = permissions \ S

\* post, under the lock; the message may come from the queue (send_queued_now).
Post(to, device, fromQueue) ==
    /\ control = "free"
    /\ device => revocation \in {"no", "committed"}
    /\ IF fromQueue THEN queued > 0 /\ queued' = queued - 1 ELSE Room /\ UNCHANGED queued
    /\ CancelActive(Running(to), {})
    /\ messages' = Append(CutRows(Running(to)), Row(User, to, device, "completed"))
    /\ retries' = [m \in Members |-> IF m \in to THEN "none" ELSE retries[m]]
    /\ paused' = TRUE /\ Schedule(TRUE)
    /\ control' = "posting" /\ cut' = Running(to)
    /\ UNCHANGED <<delivered, revocation, deviceCut, dispatching, mishaps>>

\* A finish raises, or the write of the message does: no message, but the rest of
\* post still runs.
PostFails(to) ==
    /\ control = "free" /\ Mishap
    /\ \E ok \in SUBSET Running(to), bad \in SUBSET Running(to) :
        /\ IF bad = {} THEN ok = Running(to)
           ELSE Cardinality(bad) = 1 /\ bad \cap ok = {}
        /\ \A m \in bad : turns[m].status # "finished"
        /\ CancelActive(ok, bad)
        /\ messages' = CutRows(ok)
    /\ retries' = [m \in Members |-> IF m \in to THEN "none" ELSE retries[m]]
    /\ paused' = TRUE
    /\ control' = "posting" /\ cut' = Running(to)
    /\ UNCHANGED <<delivered, timer, revocation, deviceCut, queued, dispatching>>

\* stop_state, under the lock: nothing said so far wakes anybody any more.
Stop ==
    /\ control = "free"
    /\ CancelActive(Running(Members), {})
    /\ messages' = CutRows(Members)
    /\ delivered' = [m \in Members |-> delivered[m] \cup Unseen(m)]
    /\ retries' = [m \in Members |-> "none"]
    /\ paused' = TRUE /\ timer' = FALSE
    /\ control' = "stopping" /\ cut' = Running(Members)
    /\ UNCHANGED <<revocation, deviceCut, queued, dispatching, mishaps>>

\* post and stop, without the lock: cancel_turns.
ControlCancels ==
    /\ control \in {"posting", "stopping"}
    /\ CancelTurns(cut)
    /\ control' = IF control = "posting" THEN "posted" ELSE "stopped"
    /\ cut' = {}
    /\ UNCHANGED <<messages, delivered, turns, task, retries, timer, paused, revocation,
                   deviceCut, queued, dispatching, mishaps>>

\* Mutant: post only unpauses, as stop does.
OnlyUnpause ==
    /\ control \in {"posted", "stopped"} /\ control' = "free" /\ paused' = FALSE
    /\ UNCHANGED <<messages, delivered, turns, task, agent, retries, permissions, timer, cut,
                   revocation, deviceCut, queued, dispatching, mishaps>>

\* The last step of post schedules; that of stop only unpauses.
ControlEnds ==
    /\ control \in {"posted", "stopped"}
    /\ paused' = FALSE
    /\ IF control = "posted" THEN Schedule(FALSE) ELSE UNCHANGED timer
    /\ control' = "free"
    /\ UNCHANGED <<messages, delivered, turns, task, agent, retries, permissions, cut,
                   revocation, deviceCut, queued, dispatching, mishaps>>

-----------------------------------------------------------------------------
(* The queue *)

\* queue_message: the queue takes the message, then dispatch_queued runs.
QueueMessage ==
    /\ queued < MaxQueued /\ Room /\ ~dispatching
    /\ queued' = queued + 1 /\ dispatching' = TRUE
    /\ UNCHANGED <<messages, delivered, turns, task, agent, retries, permissions, timer, paused,
                   control, cut, revocation, deviceCut, mishaps>>

\* Mutant: the message waits for the next wake.
LeaveToTimer ==
    /\ dispatching /\ dispatching' = FALSE
    /\ UNCHANGED <<messages, delivered, turns, task, agent, retries, permissions, timer, paused,
                   control, cut, revocation, deviceCut, queued, mishaps>>

DispatchQueued ==
    /\ dispatching /\ dispatching' = FALSE
    /\ SendNextQueued(turns, retries, messages, timer)
    /\ UNCHANGED <<delivered, turns, task, agent, retries, permissions, paused, control, cut,
                   revocation, deviceCut, mishaps>>

\* The message cannot be written: it goes back, and the timer tries again in 5 s.
DispatchFails ==
    /\ dispatching /\ dispatching' = FALSE
    /\ Idle(turns, retries, timer) /\ queued > 0 /\ Mishap
    /\ timer' = TRUE
    /\ UNCHANGED <<messages, delivered, turns, task, agent, retries, permissions, paused,
                   control, cut, revocation, deviceCut, queued>>

-----------------------------------------------------------------------------
(* Revocation of a device, and restarts *)

Revoke ==
    /\ revocation = "no" /\ revocation' = "committed" /\ Mishap
    /\ UNCHANGED <<messages, delivered, turns, task, agent, retries, permissions, timer, paused,
                   control, cut, deviceCut, queued, dispatching>>

\* cancel_device_turns, under the lock; its cancel_turns runs without it.
CutDeviceTurns ==
    /\ revocation = "committed" /\ revocation' = "cutting"
    /\ deviceCut' = {m \in Members : OfDevice(turns[m].batch)}
    /\ CancelActive(deviceCut', {})
    /\ messages' = CutRows(deviceCut')
    /\ UNCHANGED <<delivered, retries, timer, paused, control, cut, queued, dispatching, mishaps>>

CancelDeviceTurns ==
    /\ revocation = "cutting" /\ revocation' = "done"
    /\ CancelTurns(deviceCut) /\ deviceCut' = {}
    /\ UNCHANGED <<messages, delivered, turns, task, retries, timer, paused, control, cut,
                   queued, dispatching, mishaps>>

\* The process dies or shuts down; recover closes the rows left open and wakes everybody.
Restart ==
    /\ Mishap
    /\ messages' = Close({i \in DOMAIN messages : messages[i].status = "streaming"})
    /\ turns' = [m \in Members |-> Absent]
    /\ task' = [m \in Members |-> "none"] /\ agent' = [m \in Members |-> "none"]
    /\ retries' = [m \in Members |-> "none"]
    /\ permissions' = {} /\ paused' = FALSE /\ timer' = TRUE
    /\ control' = "free" /\ cut' = {} /\ deviceCut' = {} /\ dispatching' = FALSE
    /\ revocation' = IF revocation = "no" THEN "no" ELSE "done"
    /\ UNCHANGED <<delivered, queued>>

-----------------------------------------------------------------------------
ChannelInit ==
    /\ messages = <<>> /\ delivered = [m \in Members |-> {}]
    /\ turns = [m \in Members |-> Absent]
    /\ task = [m \in Members |-> "none"] /\ agent = [m \in Members |-> "none"]
    /\ retries = [m \in Members |-> "none"] /\ permissions = {}
    /\ timer = FALSE /\ paused = FALSE /\ control = "free" /\ cut = {}
    /\ revocation = "no" /\ deviceCut = {} /\ queued = 0 /\ dispatching = FALSE
    /\ mishaps = 0

\* What a member's turn does by itself once it was started.
RunTurn(m) ==
    StartTurn(m) \/ SkipStart(m) \/ Answer(m) \/ FinishTurn(m)
Finishes == ControlCancels \/ ControlEnds
Revokes == CutDeviceTurns \/ CancelDeviceTurns

MemberStep(m) ==
    \/ RunTurn(m) \/ AgentEnds(m) \/ BeginSpeaking(m) \/ Ask(m) \/ RetryDue(m)
    \/ StartFails(m) \/ AgentError(m) \/ FinishFails(m) \/ WakeFails(m)
Request ==
    \/ \E to \in SUBSET Members \ {{}} :
        \/ \E device, fromQueue \in BOOLEAN : Post(to, device, fromQueue)
        \/ PostFails(to)
    \/ Stop \/ QueueMessage \/ Revoke

ChannelNext ==
    \/ \E m \in Members : MemberStep(m)
    \/ Wake \/ Request \/ Finishes \/ Revokes
    \/ DispatchQueued \/ DispatchFails \/ Restart

\* The tasks and timers of the event loop run; agents that keep asking
\* and are answered end their turns; owners and mishaps owe nothing.
ChannelSpec ==
    /\ ChannelInit /\ [][ChannelNext]_channelVars
    /\ WF_channelVars(Wake) /\ WF_channelVars(Finishes) /\ WF_channelVars(Revokes)
    /\ WF_channelVars(DispatchQueued)
    /\ \A m \in Members : /\ WF_channelVars(RunTurn(m)) /\ WF_channelVars(RetryDue(m))
                          /\ SF_channelVars(AgentEnds(m))

-----------------------------------------------------------------------------
(* Properties *)

\* A lost wake-up: while no request is under way, a member that a message waits
\* for and that no task serves has the timer to start its turn.  It takes three
\* mishaps to break it: see Strands in Channel_proofs.
NoLostWakeup ==
    control = "free" =>
        \A m \in Members : NeedsTurn(m) /\ Free(m) => timer

\* A row that still streams, and an approval still on the channel's list, belong
\* to a turn that has yet to finish.
NothingOutlivesItsTurn ==
    /\ \A i \in DOMAIN messages : messages[i].status = "streaming" =>
        \E m \in Members : turns[m].message = i /\ turns[m].status # "finished"
    /\ \A m \in permissions :
        turns[m].status \in {"running", "failed"} /\ agent[m] = "asking"

\* After the revocation of a device no turn runs that its messages prompted.
RevokedNotPrompted ==
    revocation = "done" =>
        \A m \in Members : turns[m].status = "running" => ~OfDevice(turns[m].batch)

\* A turn left by two failed writes in a row: cancelled, and its task gone.
Wedged(m) == turns[m].status = "cancelled" /\ task[m] = "done"

\* A message that addresses a member is part of a turn that succeeds, however many
\* turns are cut short or fail on the way.
MessagesReachMembers ==
    \A m \in Members : NeedsTurn(m) ~> (~NeedsTurn(m) \/ Wedged(m))

\* While the owner stops nothing, a queued message is sent in the end, unless a retry
\* is left over for a member that needs no turn any more.
StaleRetry == \E m \in Members : retries[m] # "none" /\ ~NeedsTurn(m)
QueueDrains ==
    [](control # "stopping") =>
        (queued > 0 ~> (queued = 0 \/ StaleRetry \/ \E m \in Members : Wedged(m)))
=============================================================================
