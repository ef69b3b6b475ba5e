------------------------------ MODULE ChatTurn ------------------------------
(***************************************************************************)
(* The life of the turns of ONE chat: backend/app/services/streaming/      *)
(* runtime.py (gating, bootstrap, hand-off, steering, cancel), with        *)
(* session_registry.py, queue.py and the endpoints of api/endpoints/       *)
(* chat.py that drive them.  Every table of the code is keyed by chat id,  *)
(* so one chat loses nothing.                                              *)
(*                                                                         *)
(* The server is one asyncio process: what runs between two awaits is one  *)
(* action, and every await at which another task can slip in and see or    *)
(* change the tables below separates two actions.  Queue operations hold   *)
(* the per-queue lock throughout, so each is one action (module            *)
(* MessageQueue justifies that).                                           *)
(***************************************************************************)
EXTENDS Naturals, Sequences, FiniteSets, SequencesExt

CONSTANTS
    Turns,     \* one per assistant row; a turn that spawns an ACP session names it
    Msgs,      \* messages users put in the queue
    Reqs,      \* HTTP requests in flight over a behaviour
    NoTurn, NoMsg, NoReq,
    MaxFaults  \* bound on crashes and failed cache writes

ASSUME ChatTurnAssumption ==
    /\ NoTurn \notin Turns /\ NoMsg \notin Msgs /\ NoReq \notin Reqs
    /\ Turns \cap Reqs = {}
    /\ MaxFaults \in Nat

ASSUME NobodyIsNoRequest == NoTurn \notin Reqs   \* who started a turn not started

VARIABLES
    queue, sendNow,   \* chat queue and send-now key in the cache
    reserved,         \* _starting_chat_ids: the request holding the start slot
    pc, target,       \* progress of a request; the runtime or session it captured
    held, next,       \* per actor: message popped, turn being scaffolded
    phase,            \* per turn: where its background task stands
    row,              \* per turn: stream_status of its assistant row
    verdict,          \* per turn: how its stream ended
    carried,          \* per turn: the queued message it was started with
    using,            \* per turn: the ChatSession object it got
    session,          \* registry entry of the chat
    runner,           \* per session: active_generation_task
    cancelled,        \* sessions whose cancel_event is set
    pending,          \* _pending_cancels entry of the chat
    runtime,          \* _active_runtimes entry of the chat
    steerer,          \* request holding the runtime's steering lock
    steered,          \* messages injected into a running turn
    faults

(* History: what users did, for the properties. *)
VARIABLES
    sent, removed, dropped, \* messages queued, deleted by a user, lost
    starter,                \* per turn: the actor that started it
    aimed,                  \* turns alive or starting when a cancel was asked for,
                            \* or the request about to pop one
    early                   \* ... of these, not yet past their bootstrap

code == <<queue, sendNow, reserved, pc, target, held, next, phase, row, verdict,
          carried, using, session, runner, cancelled, pending, runtime, steerer,
          steered, faults>>
history == <<sent, removed, dropped, starter, aimed, early>>
vars == <<code, history>>

cacheVars  == <<queue, sendNow>>
msgHist    == <<sent, removed, dropped>>
cancelHist == <<aimed, early>>
sessVars   == <<session, runner, cancelled, using>>

Actors == Reqs \cup Turns

ReqPhase == {"new", "marked", "locking", "steering", "check", "cancelling",
             "starting", "idleStart", "launched", "answered"}
TurnPhase == {"unused", "claimed", "created", "booting", "opened", "bound",
              "streaming", "drained", "popMarked", "popNext", "holding",
              "terminal", "finalizing", "unwinding", "done"}
RowStatus == {"none", "inProgress", "completed", "interrupted", "failed"}
PendingCancel == {"none", "timed", "stale", "persistent"}

TypeOK ==
    /\ queue \in Seq(Msgs) /\ sendNow \in Msgs \cup {NoMsg}
    /\ reserved \in Reqs \cup {NoReq}
    /\ pc \in [Reqs -> ReqPhase] /\ target \in [Reqs -> Turns \cup {NoTurn}]
    /\ held \in [Actors -> Msgs \cup {NoMsg}]
    /\ next \in [Actors -> Turns \cup {NoTurn}]
    /\ phase \in [Turns -> TurnPhase] /\ row \in [Turns -> RowStatus]
    /\ verdict \in [Turns -> {"none", "completed", "interrupted", "failed"}]
    /\ carried \in [Turns -> Msgs \cup {NoMsg}]
    /\ using \in [Turns -> Turns \cup {NoTurn}]
    /\ session \in Turns \cup {NoTurn}
    /\ runner \in [Turns -> Turns \cup {NoTurn}]
    /\ cancelled \subseteq Turns /\ pending \in PendingCancel
    /\ runtime \in Turns \cup {NoTurn} /\ steerer \in Reqs \cup {NoReq}
    /\ steered \subseteq Msgs /\ faults \in Nat
    /\ sent \subseteq Msgs /\ removed \subseteq Msgs /\ dropped \subseteq Msgs
    /\ starter \in [Turns -> Actors \cup {NoTurn}]
    /\ aimed \subseteq Actors /\ early \subseteq Actors

Init ==
    /\ queue = << >> /\ sendNow = NoMsg /\ reserved = NoReq
    /\ pc = [r \in Reqs |-> "new"] /\ target = [r \in Reqs |-> NoTurn]
    /\ held = [a \in Actors |-> NoMsg] /\ next = [a \in Actors |-> NoTurn]
    /\ phase = [t \in Turns |-> "unused"] /\ row = [t \in Turns |-> "none"]
    /\ verdict = [t \in Turns |-> "none"] /\ carried = [t \in Turns |-> NoMsg]
    /\ using = [t \in Turns |-> NoTurn] /\ session = NoTurn
    /\ runner = [t \in Turns |-> NoTurn] /\ cancelled = {} /\ pending = "none"
    /\ runtime = NoTurn /\ steerer = NoReq /\ steered = {} /\ faults = 0
    /\ sent = {} /\ removed = {} /\ dropped = {}
    /\ starter = [t \in Turns |-> NoTurn] /\ aimed = {} /\ early = {}

-----------------------------------------------------------------------------
(* State predicates of the code.  An operator marked "wrong" is a mutation of
   the one after it: what a plausible bug would make of it.  Nothing uses it;
   the properties must notice when it takes the other's place. *)

Live(t) == phase[t] \notin {"unused", "claimed", "done"}

HasRegisteredRuntime == runtime # NoTurn   \* wrong
HasActiveChat == \E t \in Turns : Live(t)

HasNoReservation == FALSE   \* wrong
HasPendingStart == reserved # NoReq

(* consume_pending_cancel: whatever the entry was, it is gone; only an entry
   younger than the TTL or persistent counts. *)
OnlyPersistentCounts == pending = "persistent"   \* wrong
PendingCounts == pending \in {"timed", "persistent"}

FlagSet(t) == PendingCounts   \* wrong
EventSet(t) == using[t] \in cancelled

NotCancelled(t) == ~EventSet(t)   \* wrong
Steerable(t) == phase[t] = "streaming" /\ ~EventSet(t)

(* What a failed start does to the queue: the popped message goes back first. *)
Forgotten(a) == queue   \* wrong
Requeued(a) == IF held[a] = NoMsg THEN queue ELSE <<held[a]>> \o queue

SendNowTarget ==
    IF sendNow # NoMsg /\ Contains(queue, sendNow) THEN sendNow ELSE NoMsg

(* A pop whose cache call raises: the marker is deleted first, and the error may
   also be that of a write the cache did apply -- then the message is gone. *)
LosePopped(m) ==
    m # NoMsg /\ queue' = RemoveFirst(queue, m) /\ dropped' = dropped \cup {m}
PopMarkedFails ==
    \/ sendNow' \in {sendNow, NoMsg} /\ UNCHANGED <<queue, dropped>>
    \/ sendNow' = NoMsg /\ LosePopped(SendNowTarget)

Goto(r, p) == pc' = [pc EXCEPT ![r] = p]
Step(t, p) == phase' = [phase EXCEPT ![t] = p]

(* The synchronous tail of execute_chat: active_generation_task = None, then
   the runtime leaves _active_runtimes only if it is still the one registered. *)
LeaveSession(t) ==
    /\ runner' = IF using[t] = NoTurn THEN runner
                 ELSE [runner EXCEPT ![using[t]] = NoTurn]
    /\ runtime' = IF runtime = t THEN NoTurn ELSE runtime

-----------------------------------------------------------------------------
(* The queue, as its users see it. *)

(* add_message *)
Enqueue(m) ==
    /\ m \notin sent
    /\ sent' = sent \cup {m} /\ queue' = Append(queue, m)
    /\ UNCHANGED <<sendNow, reserved, pc, target, held, next, phase, row, verdict,
                   carried, sessVars, pending, runtime, steerer, steered, faults,
                   removed, dropped, starter, cancelHist>>

(* delete_message and clear_queue: neither touches the send-now key. *)
DeleteQueued(m) ==
    /\ Contains(queue, m)
    /\ queue' = RemoveFirst(queue, m) /\ removed' = removed \cup {m}
    /\ UNCHANGED <<sendNow, reserved, pc, target, held, next, phase, row, verdict,
                   carried, sessVars, pending, runtime, steerer, steered, faults,
                   sent, dropped, starter, cancelHist>>

ClearQueue ==
    /\ queue # << >>
    /\ queue' = << >> /\ removed' = removed \cup ToSet(queue)
    /\ UNCHANGED <<sendNow, reserved, pc, target, held, next, phase, row, verdict,
                   carried, sessVars, pending, runtime, steerer, steered, faults,
                   sent, dropped, starter, cancelHist>>

-----------------------------------------------------------------------------
(* Cancelling. *)

(* An idle send-now that holds the slot and has yet to name its turn. *)
AboutToPop == {q \in Reqs : pc[q] = "idleStart"}

AlwaysNotify == "cancelling"   \* wrong
AfterPendingSet == IF session = NoTurn THEN "answered" ELSE "cancelling"

(* cancel_generation up to its await: the pending entry is written first, a
   timed one never replacing a persistent one; then the agent is notified. *)
CancelGeneration(r, persistent) ==
    /\ pending' = IF persistent \/ pending = "persistent" THEN "persistent" ELSE "timed"
    /\ Goto(r, AfterPendingSet)
    /\ target' = [target EXCEPT ![r] = session]
    /\ aimed' = aimed \cup AboutToPop
                     \cup {t \in Turns : phase[t] \notin {"unused", "done"}}
    /\ early' = early \cup AboutToPop \cup
         {t \in Turns : phase[t] \in {"claimed", "created", "booting", "opened"}}
    /\ UNCHANGED <<cacheVars, reserved, held, next, phase, row, verdict, carried,
                   sessVars, runtime, steerer, steered, faults, msgHist, starter>>

(* cancel_chat_turn, for the Stop button and for device revocation, which only
   visits chats with a registered runtime.  Its wait for the turn to unwind
   changes nothing, and may time out at any moment. *)
Stop(r) ==
    /\ pc[r] = "new" /\ (HasPendingStart \/ HasActiveChat)
    /\ CancelGeneration(r, FALSE)

RevokeDevice(r) ==
    /\ pc[r] = "new" /\ runtime # NoTurn
    /\ CancelGeneration(r, TRUE)

(* The finally of cancel_generation: the event of the session captured before
   the await, whatever the registry holds by now. *)
CancelSent(r) ==
    /\ pc[r] = "cancelling"
    /\ cancelled' = cancelled \cup {target[r]}
    /\ Goto(r, "answered")
    /\ UNCHANGED <<cacheVars, reserved, target, held, next, phase, row, verdict,
                   carried, using, session, runner, pending, runtime, steerer,
                   steered, faults, history>>

(* PENDING_CANCEL_TTL_SECONDS pass. *)
PendingExpires ==
    /\ pending = "timed" /\ pending' = "stale" /\ early' = {}
    /\ UNCHANGED <<cacheVars, reserved, pc, target, held, next, phase, row, verdict,
                   carried, sessVars, runtime, steerer, steered, faults, msgHist,
                   starter, aimed>>

-----------------------------------------------------------------------------
(* Send now: _send_now_queued_message. *)

MarkSendNow(r, m) ==
    /\ pc[r] = "new" /\ Contains(queue, m)
    /\ sendNow' = m /\ Goto(r, "marked")
    /\ UNCHANGED <<queue, reserved, target, held, next, phase, row, verdict, carried,
                   sessVars, pending, runtime, steerer, steered, faults, history>>

(* steer_send_now reads _active_runtimes, then waits for that runtime's lock. *)
CaptureRuntime(r) ==
    /\ pc[r] = "marked" /\ runtime # NoTurn
    /\ target' = [target EXCEPT ![r] = runtime] /\ Goto(r, "locking")
    /\ UNCHANGED <<cacheVars, reserved, held, next, phase, row, verdict, carried,
                   sessVars, pending, runtime, steerer, steered, faults, history>>

(* Under the lock of a turn that takes steering: give up if the marker is gone,
   else pop the marked message (not necessarily the one this request marked). *)
AcquireSteering(r) ==
    /\ pc[r] = "locking" /\ steerer = NoReq /\ Steerable(target[r])
    /\ sendNow' = NoMsg
    /\ IF SendNowTarget = NoMsg
       THEN Goto(r, "check") /\ UNCHANGED <<queue, held, steerer>>
       ELSE /\ held' = [held EXCEPT ![r] = SendNowTarget]
            /\ queue' = RemoveFirst(queue, SendNowTarget)
            /\ steerer' = r /\ Goto(r, "steering")
    /\ UNCHANGED <<reserved, target, next, phase, row, verdict, carried, sessVars,
                   pending, runtime, steered, faults, history>>

(* The agent answered the steering call: injected, or not (also: its options
   differ from the turn's), and then the message goes back, marked again; if the
   cache fails, it is lost or goes back unmarked. *)
SteeringAnswered(r) ==
    /\ pc[r] = "steering"
    /\ \/ steered' = steered \cup {held[r]} /\ Goto(r, "answered") /\ UNCHANGED cacheVars
          /\ UNCHANGED <<faults, dropped>>
       \/ /\ queue' = Requeued(r) /\ sendNow' = held[r]
          /\ Goto(r, "check") /\ UNCHANGED <<steered, faults, dropped>>
       \/ /\ faults < MaxFaults /\ faults' = faults + 1
          /\ Goto(r, "answered") /\ UNCHANGED <<sendNow, steered>>
          /\ \/ dropped' = dropped \cup {held[r]} /\ UNCHANGED queue
             \/ queue' = Requeued(r) /\ UNCHANGED dropped
    /\ held' = [held EXCEPT ![r] = NoMsg] /\ steerer' = NoReq
    /\ UNCHANGED <<reserved, target, next, phase, row, verdict, carried, sessVars,
                   pending, runtime, sent, removed, starter, cancelHist>>

(* CacheError in an endpoint: while marking (applied or not), or popping. *)
MarkError(r, m) ==
    /\ pc[r] = "new" /\ Contains(queue, m) /\ Goto(r, "answered")
    /\ faults < MaxFaults /\ faults' = faults + 1 /\ sendNow' \in {sendNow, m}
    /\ UNCHANGED <<queue, reserved, target, held, next, phase, row, verdict, carried,
                   sessVars, pending, runtime, steerer, steered, history>>

RequestPopError(r) ==
    /\ \/ pc[r] = "idleStart" /\ reserved' = NoReq
       \/ /\ pc[r] = "locking" /\ steerer = NoReq /\ Steerable(target[r])
          /\ UNCHANGED reserved
    /\ faults < MaxFaults /\ faults' = faults + 1
    /\ PopMarkedFails /\ Goto(r, "answered")
    /\ UNCHANGED <<target, held, next, phase, row, verdict, carried, sessVars, pending,
                   runtime, steerer, steered, sent, removed, starter, cancelHist>>

(* Claiming a fresh turn stands for the rows turn_scaffold is about to create. *)
Claim(a, t) ==
    /\ phase[t] = "unused"
    /\ next' = [next EXCEPT ![a] = t]
    /\ starter' = [starter EXCEPT ![t] = a]

(* No runtime, one that takes no steering, or a steering attempt that failed: in
   the same step cancel the running or starting turn so that it hands over, or
   take the start slot. *)
NotSteered(r) ==
    \/ pc[r] = "marked" /\ runtime = NoTurn
    \/ pc[r] = "locking" /\ steerer = NoReq /\ ~Steerable(target[r])
    \/ pc[r] = "check"

CancelForSendNow(r) ==
    /\ NotSteered(r) /\ (HasActiveChat \/ HasPendingStart)
    /\ CancelGeneration(r, FALSE)

IdleSendNow(r) ==
    /\ NotSteered(r) /\ ~HasActiveChat /\ ~HasPendingStart
    /\ reserved' = r /\ Goto(r, "idleStart")
    /\ UNCHANGED <<cacheVars, target, held, next, phase, row, verdict, carried,
                   sessVars, pending, runtime, steerer, steered, faults, history>>

(* process_send_now_idle: pop the marked message or release the slot. *)
PopIdle(r) ==
    /\ pc[r] = "idleStart" /\ sendNow' = NoMsg
    /\ IF SendNowTarget = NoMsg
       THEN /\ Goto(r, "answered") /\ reserved' = NoReq
            /\ UNCHANGED <<queue, held, next, phase, starter>>
       ELSE \E t \in Turns :
            /\ Claim(r, t) /\ Step(t, "claimed") /\ Goto(r, "starting")
            /\ held' = [held EXCEPT ![r] = SendNowTarget]
            /\ queue' = RemoveFirst(queue, SendNowTarget)
            /\ UNCHANGED reserved
    /\ UNCHANGED <<target, row, verdict, carried, sessVars, pending, runtime, steerer,
                   steered, faults, msgHist, cancelHist>>

-----------------------------------------------------------------------------
(* Starting a turn. *)

(* initiate_chat_completion: a taken slot or a running turn answers 409. *)
SendMessage(r) ==
    /\ pc[r] = "new" /\ ~HasActiveChat /\ ~HasPendingStart
    /\ reserved' = r /\ Goto(r, "starting")
    /\ \E t \in Turns : Claim(r, t) /\ Step(t, "claimed")
    /\ UNCHANGED <<cacheVars, target, held, row, verdict, carried, sessVars, pending,
                   runtime, steerer, steered, faults, msgHist, cancelHist>>

Starting(a) ==
    \/ a \in Reqs /\ pc[a] = "starting"
    \/ a \in Turns /\ phase[a] = "holding"

(* turn_scaffold: user row, assistant row, then cwd and checkpoint. *)
Scaffold(a) ==
    /\ Starting(a) /\ row[next[a]] = "none"
    /\ row' = [row EXCEPT ![next[a]] = "inProgress"]
    /\ UNCHANGED <<cacheVars, reserved, pc, target, held, next, phase, verdict,
                   carried, sessVars, pending, runtime, steerer, steered, faults, history>>

(* The start fails: rows discarded, a popped message back to the front of the
   queue (unmarked).  If the cache refuses it, _requeue_message_quietly only
   logs.  A predecessor goes on to its own terminal event, a request answers
   with an error and frees the slot. *)
StartFails(a) ==
    /\ Starting(a)
    /\ row' = [row EXCEPT ![next[a]] = "none"]
    /\ \/ queue' = Requeued(a) /\ UNCHANGED <<faults, dropped>>
       \/ /\ held[a] # NoMsg /\ faults < MaxFaults /\ faults' = faults + 1
          /\ dropped' = dropped \cup {held[a]} /\ UNCHANGED queue
    /\ held' = [held EXCEPT ![a] = NoMsg]
    /\ next' = [next EXCEPT ![a] = NoTurn]
    /\ starter' = [starter EXCEPT ![next[a]] = NoTurn]
    /\ aimed' = aimed \ {next[a]} /\ early' = early \ {next[a]}
    /\ IF a \in Reqs
       THEN /\ Goto(a, "answered") /\ reserved' = NoReq
            /\ Step(next[a], "unused")
       ELSE /\ phase' = [phase EXCEPT ![next[a]] = "unused", ![a] = "terminal"]
            /\ UNCHANGED <<pc, reserved>>
    /\ UNCHANGED <<sendNow, target, verdict, carried, sessVars, pending, runtime,
                   steerer, steered, sent, removed>>

(* start_background_chat for a request.  A direct send keeps the slot while it
   publishes stream_started; the idle path releases it at once. *)
Launch(r) ==
    /\ pc[r] = "starting" /\ row[next[r]] = "inProgress"
    /\ Step(next[r], "created")
    /\ carried' = [carried EXCEPT ![next[r]] = held[r]]
    /\ IF held[r] = NoMsg
       THEN Goto(r, "launched") /\ UNCHANGED reserved
       ELSE Goto(r, "answered") /\ reserved' = NoReq
    /\ held' = [held EXCEPT ![r] = NoMsg] /\ next' = [next EXCEPT ![r] = NoTurn]
    /\ UNCHANGED <<cacheVars, target, row, verdict, sessVars, pending, runtime,
                   steerer, steered, faults, history>>

ForgetSlot(r) ==   \* wrong
    /\ pc[r] = "launched" /\ Goto(r, "answered")
    /\ UNCHANGED <<cacheVars, reserved, target, held, next, phase, row, verdict,
                   carried, sessVars, pending, runtime, steerer, steered, faults,
                   history>>

Release(r) ==
    /\ pc[r] = "launched" /\ Goto(r, "answered") /\ reserved' = NoReq
    /\ UNCHANGED <<cacheVars, target, held, next, phase, row, verdict, carried,
                   sessVars, pending, runtime, steerer, steered, faults, history>>

-----------------------------------------------------------------------------
(* The background task of a turn: _bootstrap_and_execute and execute_chat. *)

Register(t) ==
    /\ phase[t] = "created" /\ Step(t, "booting") /\ runtime' = t
    /\ UNCHANGED <<cacheVars, reserved, pc, target, held, next, row, verdict, carried,
                   sessVars, pending, steerer, steered, faults, history>>

(* get_or_create: reuse the live session, or (dead process, other fingerprint or
   other resume id) close it, cancelling the task that runs on it, and respawn. *)
Open(t) ==
    /\ phase[t] = "booting"
    /\ \/ /\ session # NoTurn /\ using' = [using EXCEPT ![t] = session]
          /\ Step(t, "opened") /\ UNCHANGED <<session, verdict>>
       \/ /\ session' = t /\ using' = [using EXCEPT ![t] = t]
          /\ LET victim == IF session = NoTurn THEN NoTurn ELSE runner[session] IN
             /\ phase' = [u \in Turns |-> CASE u = t -> "opened"
                                            [] u = victim -> "finalizing"
                                            [] OTHER -> phase[u]]
             /\ verdict' = [u \in Turns |-> IF u = victim THEN "interrupted"
                                            ELSE verdict[u]]
    /\ UNCHANGED <<cacheVars, reserved, pc, target, held, next, row, carried, runner,
                   cancelled, pending, runtime, steerer, steered, faults, history>>

(* After the session id was persisted: clear the shared event, honour a cancel
   that arrived meanwhile, become the session's active task. *)
Bind(t) ==
    /\ phase[t] = "opened" /\ Step(t, "bound")
    /\ cancelled' = IF PendingCounts THEN cancelled \cup {using[t]}
                    ELSE cancelled \ {using[t]}
    /\ pending' = "none"
    /\ runner' = [runner EXCEPT ![using[t]] = t]
    /\ UNCHANGED <<cacheVars, reserved, pc, target, held, next, row, verdict, carried,
                   using, session, runtime, steerer, steered, faults, history>>

(* run: stream_started and the device check are behind it.  A set event ends the
   stream before its first step, so the agent is never prompted. *)
Accept(t) ==
    /\ phase[t] = "bound"
    /\ IF EventSet(t)
       THEN Step(t, "drained") /\ verdict' = [verdict EXCEPT ![t] = "interrupted"]
       ELSE Step(t, "streaming") /\ UNCHANGED verdict
    /\ UNCHANGED <<cacheVars, reserved, pc, target, held, next, row, carried, sessVars,
                   pending, runtime, steerer, steered, faults, history>>

(* An exception before or during the stream.  The chat's session goes too when
   the transport is dead or the error is not an AgentException. *)
Fail(t) ==
    /\ phase[t] \in {"booting", "opened", "bound", "streaming"}
    /\ phase[t] = "streaming" => steerer = NoReq
    /\ Step(t, "finalizing") /\ verdict' = [verdict EXCEPT ![t] = "failed"]
    /\ IF phase[t] \in {"bound", "streaming"}
       THEN session' \in {session, NoTurn} /\ LeaveSession(t)
       ELSE /\ runtime' = IF runtime = t THEN NoTurn ELSE runtime
            /\ UNCHANGED <<session, runner>>
    /\ UNCHANGED <<cacheVars, reserved, pc, target, held, next, row, carried, using,
                   cancelled, pending, steerer, steered, faults, history>>

(* _consume_stream sees the event set. *)
StreamCancelled(t) ==
    /\ phase[t] = "streaming" /\ EventSet(t) /\ steerer = NoReq
    /\ Step(t, "drained") /\ verdict' = [verdict EXCEPT ![t] = "interrupted"]
    /\ UNCHANGED <<cacheVars, reserved, pc, target, held, next, row, carried, sessVars,
                   pending, runtime, steerer, steered, faults, history>>

(* The agent's stream ends by itself.  With the event already set, the waiter's
   callback may still cancel the task, which then ends at its next await. *)
StreamEnds(t) ==
    /\ phase[t] = "streaming" /\ steerer = NoReq
    /\ \/ /\ Step(t, "drained") /\ verdict' = [verdict EXCEPT ![t] = "completed"]
          /\ UNCHANGED <<runner, runtime>>
       \/ /\ EventSet(t) /\ Step(t, "finalizing") /\ LeaveSession(t)
          /\ verdict' = [verdict EXCEPT ![t] = "interrupted"]
    /\ UNCHANGED <<cacheVars, reserved, pc, target, held, next, row, carried, using,
                   session, cancelled, pending, steerer, steered, faults, history>>

(* _save_final_snapshot, and for an interrupted stream _close_stream. *)
SaveFinal(t) ==
    /\ phase[t] = "drained" /\ Step(t, "popMarked")
    /\ row' = [row EXCEPT ![t] = verdict[t]]
    /\ UNCHANGED <<cacheVars, reserved, pc, target, held, next, verdict, carried,
                   sessVars, pending, runtime, steerer, steered, faults, history>>

-----------------------------------------------------------------------------
(* The hand-off: _process_next_queued and _start_queued_turn. *)

Take(t, m) ==
    /\ held' = [held EXCEPT ![t] = m] /\ queue' = RemoveFirst(queue, m)
    /\ \E u \in Turns : /\ Claim(t, u)
                        /\ phase' = [phase EXCEPT ![u] = "claimed", ![t] = "holding"]

PopSendNow(t) ==
    /\ phase[t] = "popMarked" /\ sendNow' = NoMsg
    /\ IF SendNowTarget # NoMsg
       THEN Take(t, SendNowTarget)
       ELSE /\ Step(t, IF verdict[t] = "interrupted" THEN "terminal" ELSE "popNext")
            /\ UNCHANGED <<held, queue, next, starter>>
    /\ UNCHANGED <<reserved, pc, target, row, verdict, carried, sessVars, pending,
                   runtime, steerer, steered, faults, msgHist, cancelHist>>

PopNext(t) ==
    /\ phase[t] = "popNext"
    /\ IF queue # << >>
       THEN Take(t, Head(queue))
       ELSE Step(t, "terminal") /\ UNCHANGED <<held, queue, next, starter>>
    /\ UNCHANGED <<sendNow, reserved, pc, target, row, verdict, carried, sessVars,
                   pending, runtime, steerer, steered, faults, msgHist, cancelHist>>

(* CacheError while popping: the running turn goes on to its terminal event. *)
PopError(t) ==
    /\ faults < MaxFaults /\ faults' = faults + 1 /\ Step(t, "terminal")
    /\ \/ phase[t] = "popMarked" /\ PopMarkedFails
       \/ /\ phase[t] = "popNext" /\ UNCHANGED sendNow
          /\ \/ UNCHANGED <<queue, dropped>>
             \/ queue # << >> /\ LosePopped(Head(queue))
    /\ UNCHANGED <<reserved, pc, target, held, next, row, verdict, carried, sessVars,
                   pending, runtime, steerer, steered, sent, removed, starter,
                   cancelHist>>

(* start_background_chat for the successor.  Nothing is awaited from here to
   the end of the predecessor's turn, so its cleanup belongs to this step; an
   interrupted predecessor also swallows the cancel that interrupted it. *)
HandOff(t) ==
    /\ phase[t] = "holding" /\ row[next[t]] = "inProgress"
    /\ phase' = [phase EXCEPT ![next[t]] = "created", ![t] = "unwinding"]
    /\ carried' = [carried EXCEPT ![next[t]] = held[t]]
    /\ held' = [held EXCEPT ![t] = NoMsg] /\ next' = [next EXCEPT ![t] = NoTurn]
    /\ pending' = IF verdict[t] = "interrupted" THEN "none" ELSE pending
    /\ LeaveSession(t)
    /\ UNCHANGED <<cacheVars, reserved, pc, target, row, verdict, using, session,
                   cancelled, steerer, steered, faults, history>>

(* The chain ends: "complete" or "cancelled" is emitted.  If that fails, run's
   handler saves the turn again, as failed, and the session may go. *)
EmitTerminal(t) ==
    /\ phase[t] = "terminal"
    /\ \/ Step(t, "unwinding") /\ UNCHANGED <<row, verdict, session>>
       \/ /\ Step(t, "finalizing") /\ row' = [row EXCEPT ![t] = "failed"]
          /\ verdict' = [verdict EXCEPT ![t] = "failed"]
          /\ session' \in {session, NoTurn}
    /\ LeaveSession(t)
    /\ UNCHANGED <<cacheVars, reserved, pc, target, held, next, carried, using,
                   cancelled, pending, steerer, steered, faults, history>>

OnlyFailedFinal(t) ==
    IF row[t] = "inProgress" /\ verdict[t] = "failed"   \* wrong
    THEN [row EXCEPT ![t] = "failed"] ELSE row
FinalRow(t) == IF row[t] = "inProgress" THEN [row EXCEPT ![t] = verdict[t]] ELSE row

(* finalize_dead_stream: only a row still in progress. *)
FinalizeDead(t) ==
    /\ phase[t] = "finalizing" /\ Step(t, "unwinding")
    /\ row' = FinalRow(t)
    /\ UNCHANGED <<cacheVars, reserved, pc, target, held, next, verdict, carried,
                   sessVars, pending, runtime, steerer, steered, faults, history>>

(* The cache connection is closed; the finally of _bootstrap_and_execute drops
   whatever cancel is pending, and the task is done. *)
Finish(t) ==
    /\ phase[t] = "unwinding" /\ Step(t, "done") /\ pending' = "none"
    /\ UNCHANGED <<cacheVars, reserved, pc, target, held, next, row, verdict, carried,
                   sessVars, runtime, steerer, steered, faults, history>>

-----------------------------------------------------------------------------
(* close_idle_sessions: get_or_create has just stamped last_used_at, so a
   session some turn opened is never idle. *)
IdleByAge == session # NoTurn   \* wrong
SessionIdle ==
    /\ session # NoTurn /\ runner[session] = NoTurn
    /\ \A t \in Turns : phase[t] = "opened" => using[t] # session

CloseIdle ==
    /\ SessionIdle
    /\ session' = NoTurn
    /\ UNCHANGED <<cacheVars, reserved, pc, target, held, next, phase, row, verdict,
                   carried, using, runner, cancelled, pending, runtime, steerer,
                   steered, faults, history>>

(* The process dies (or is shut down, which cancels the tasks) and restarts:
   reconcile_orphaned_messages settles every row before requests are served.
   The cache survives if it is Redis, not if it is the in-process store. *)
Crash ==
    /\ faults < MaxFaults /\ faults' = faults + 1
    /\ \/ UNCHANGED cacheVars
       \/ queue' = << >> /\ sendNow' = NoMsg
    /\ dropped' = dropped \cup {held[a] : a \in {b \in Actors : held[b] # NoMsg}}
                          \cup (ToSet(queue) \ ToSet(queue'))
    /\ reserved' = NoReq /\ pc' = [r \in Reqs |-> "answered"]
    /\ held' = [a \in Actors |-> NoMsg] /\ next' = [a \in Actors |-> NoTurn]
    /\ phase' = [t \in Turns |-> IF phase[t] = "unused" THEN "unused" ELSE "done"]
    /\ row' = [t \in Turns |-> IF row[t] = "inProgress" THEN "interrupted" ELSE row[t]]
    /\ session' = NoTurn /\ runner' = [t \in Turns |-> NoTurn] /\ cancelled' = {}
    /\ pending' = "none" /\ runtime' = NoTurn /\ steerer' = NoReq
    /\ UNCHANGED <<target, verdict, carried, using, steered, sent, removed, starter,
                   cancelHist>>

-----------------------------------------------------------------------------
RequestStep(r) ==
    \/ CaptureRuntime(r) \/ AcquireSteering(r) \/ CancelForSendNow(r)
    \/ IdleSendNow(r) \/ PopIdle(r) \/ CancelSent(r) \/ Launch(r) \/ Release(r)

TurnStep(t) ==
    \/ Register(t) \/ Bind(t) \/ StreamCancelled(t) \/ SaveFinal(t)
    \/ PopSendNow(t) \/ PopNext(t) \/ HandOff(t) \/ EmitTerminal(t)
    \/ FinalizeDead(t) \/ Finish(t)

(* Steps that wait for the agent process: spawning it or loading its session,
   setting model and mode, steering. *)
AgentStep ==
    \/ \E t \in Turns : Open(t) \/ Accept(t) \/ StreamEnds(t)
    \/ \E r \in Reqs : SteeringAnswered(r)

User ==
    \/ \E m \in Msgs : Enqueue(m) \/ DeleteQueued(m)
    \/ ClearQueue
    \/ \E r \in Reqs : SendMessage(r) \/ Stop(r) \/ RevokeDevice(r)
    \/ \E r \in Reqs, m \in Msgs : MarkSendNow(r, m)

Environment ==
    \/ \E t \in Turns : Fail(t) \/ PopError(t)
    \/ \E r \in Reqs : RequestPopError(r) \/ \E m \in Msgs : MarkError(r, m)
    \/ \E a \in Actors : StartFails(a)
    \/ PendingExpires \/ CloseIdle \/ Crash

Next ==
    \/ User \/ Environment \/ AgentStep
    \/ \E r \in Reqs : RequestStep(r)
    \/ \E t \in Turns : TurnStep(t)
    \/ \E a \in Actors : Scaffold(a)

Spec == Init /\ [][Next]_vars

(* asyncio runs every ready task: a request or a turn whose next step waits for
   neither user nor agent takes it, and a start under way goes on. *)
Scheduling ==
    /\ \A r \in Reqs : WF_vars(RequestStep(r))
    /\ \A t \in Turns : WF_vars(TurnStep(t))
    /\ \A a \in Actors : WF_vars(Scaffold(a))

(* An assumption on the environment: the agent answers the calls that open a
   session, configure it or steer a turn.  The code puts no timeout on them.  It
   need never end a stream. *)
AgentAnswers ==
    /\ \A t \in Turns : WF_vars(Open(t)) /\ WF_vars(Accept(t))
    /\ \A r \in Reqs : WF_vars(SteeringAnswered(r))

FairSpec == Spec /\ Scheduling /\ AgentAnswers

-----------------------------------------------------------------------------
(* Properties. *)

SessionPhase == {"bound", "streaming", "drained", "popMarked", "popNext",
                 "holding", "terminal"}
Driving == {t \in Turns : phase[t] \in SessionPhase}
Upstream == {t \in Turns : phase[t] \in
               {"created", "booting", "opened"} \cup SessionPhase}

(* runtime.py:107, "One turn per chat -- concurrent turns would share and corrupt
   the ACP session": whatever sends, send-nows, stops and hand-offs interleave,
   at most one turn is between its creation and the end of its use of the
   session, and a turn that is only being prepared is prepared by that turn or
   by the request holding the slot. *)
OneTurnPerChat ==
    /\ \A t, u \in Upstream : t = u
    /\ \A t \in Turns : phase[t] = "claimed" =>
         \/ Upstream = {starter[t]}
         \/ reserved = starter[t] /\ Upstream = {}

(* While a request holds the start slot and has not launched its turn, no turn
   of the chat is alive, not even one that only has to close its cache
   connection: the slot is what a second send, and an idle send-now, rely on. *)
SlotExcludesTurns ==
    \A r \in Reqs : pc[r] \in {"starting", "idleStart"} =>
        reserved = r /\ ~HasActiveChat

(* The idle reaper, a respawn and a failing turn's terminate share the session
   with the turn that runs on it: none of them may take it away before that
   turn has left it, so the session stays registered and marked as in use. *)
SessionNotStolen ==
    \A t \in Driving : session = using[t] /\ runner[session] = t

(* Every place a message is in. *)
Ends == [steered |-> steered, removed |-> removed, dropped |-> dropped]
Places(m) ==
    {<<"queue", k>> : k \in {i \in DOMAIN queue : queue[i] = m}}
    \cup {<<"held", a>> : a \in {b \in Actors : held[b] = m}}
    \cup {<<"carried", t>> : t \in {u \in Turns : carried[u] = m}}
    \cup {<<e>> : e \in {x \in DOMAIN Ends : m \in Ends[x]}}

(* A queued message is never run twice and never lost: through pops, failed
   starts, steering and its requeue, send-nows by several clients and deletions,
   it is in exactly one place, and only a crash or a cache failure loses it. *)
MessageConservation ==
    /\ \A m \in sent : Cardinality(Places(m)) = 1
    /\ dropped # {} => faults > 0

(* No assistant row is left "in progress" for ever: behind each such row there is
   a turn that is still to settle it or a start that will launch or discard it.
   (A row nobody settles shows a spinner until the next restart.) *)
RowsSettled ==
    \A t \in Turns : row[t] = "inProgress" =>
        \/ Live(t) /\ phase[t] # "unwinding"
        \/ \E a \in Actors : next[a] = t /\ Starting(a)

(* A Stop, a device revocation or a send-now that reaches a chat while a
   requested turn is starting ends that turn before the agent is prompted
   (unless it comes so late that its 30 s pass first).
   Turns handed over by a predecessor: see StopDuringHandOffHonoured. *)
StopBeforePromptHonoured ==
    \A t \in Turns : starter[t] \in Reqs /\ {t, starter[t]} \cap early # {}
                      => phase[t] # "streaming"

(* A second writer never reaches the agent: if two steering requests pop the
   marker, only the one holding the lock has a message in its hands, and the
   turn it steers is still streaming. *)
SteeringExclusive ==
    \A r \in Reqs : pc[r] = "steering" <=>
        steerer = r /\ phase[target[r]] = "streaming" /\ held[r] # NoMsg

(* session_registry.py:39, "a cancel request that arrives between generations
   ... is still honoured when the next generation starts": also when the next
   generation is a queued message its predecessor is handing over to. *)
StopDuringHandOffHonoured ==
    \A t \in early \cap Turns : phase[t] # "streaming"

(* tests/test_streaming.py:682, "A stale Stop click must not leave a pending
   cancel behind for the next turn to consume at bootstrap": a turn a user
   starts after a cancel is not interrupted by it. *)
CancelHitsOnlyItsTurns ==
    \A t \in Turns : verdict[t] = "interrupted" /\ starter[t] \in Reqs
                      => {t, starter[t]} \cap aimed # {}

Quiescent == /\ ~HasActiveChat /\ ~HasPendingStart
             /\ \A r \in Reqs : pc[r] \in {"new", "answered"}

(* api/endpoints/chat.py:879, "Cancel so send-now is picked up without waiting for
   the current turn": when everything has come to rest, no message is left in
   the queue still marked to be sent now. *)
SendNowPickedUp == Quiescent => SendNowTarget = NoMsg

(* The chat keeps the promise of ChatPromise: seen from outside, each message
   only ever moves along that module's arrows (a started or deleted message
   never comes back), and turns own the agent one after the other. *)
Fate(m) ==
    CASE m \in removed -> "removed"
      [] m \in dropped -> "lost"
      [] m \in steered -> "steered"
      [] \E t \in Turns : carried[t] = m -> "started"
      [] \E a \in Actors : held[a] = m -> "taken"
      [] m \in ToSet(queue) -> "queued"
      [] OTHER -> "unsent"

Promise == INSTANCE ChatPromise WITH
    where <- [m \in Msgs |-> Fate(m)], owner <- Driving

PromiseKept == Promise!Spec

(* A cancelled stream settles: once the event of a streaming turn's session is
   set, its row reaches a final status, whatever users do meanwhile. *)
CancelledTurnSettles ==
    \A t \in Turns : phase[t] = "streaming" /\ using[t] \in cancelled
                       ~> row[t] \in {"completed", "interrupted", "failed"}

(* A start never hangs: a turn being prepared, by a request or by its
   predecessor, comes to be prompted, ends, or is given up; so the slot is
   always freed and the chat can be used again. *)
StartsResolve ==
    /\ \A t \in Turns : phase[t] \in {"claimed", "created"}
                            ~> phase[t] \in {"streaming", "unused", "done"}
    /\ \A r \in Reqs : reserved = r ~> reserved # r
=============================================================================
