--------------------------- MODULE SubThreadWake ----------------------------
(***************************************************************************)
(* backend/app/services/subthread_wake.py: the reports that finished       *)
(* sub-threads owe their parent chat.  Reports wait in _pending; five      *)
(* seconds after something schedules it a flush takes those whose chats    *)
(* are idle and steers them into the parent's turn, or starts a turn with  *)
(* them.  The turns themselves (ChatTurn) are idle, starting or active.    *)
(***************************************************************************)
EXTENDS Naturals, FiniteSets

CONSTANTS
    Parent, Children,
    Flushes,        \* bound on flushes under way at once
    MaxStarts,      \* bound on the turns that users and agents start
    MaxDrops        \* bound on reports' failures: a read or a start that raises

ASSUME WakeAssumption ==
    /\ Parent \notin Children /\ IsFiniteSet(Children) /\ {MaxStarts, MaxDrops} \subseteq Nat

VARIABLES
    chat,           \* per chat: in neither table, in _starting_chat_ids, or active
    pending,        \* _pending[parent]
    scheduled,      \* parent in _scheduled
    flush,          \* per flush: how far it is, mid_turn, and the reports it took
    owed,           \* children that finished and of which the parent has not heard
    stranded,       \* children whose report went back with nothing to schedule it
    starts, drops

wakeVars == <<chat, pending, scheduled, flush, owed, stranded, starts, drops>>

Chats == Children \cup {Parent}
NoFlush == [at |-> "none", midTurn |-> FALSE, taken |-> {}]

WakeTypeOK ==
    /\ chat \in [Chats -> {"idle", "starting", "active"}]
    /\ pending \subseteq Children /\ scheduled \in BOOLEAN
    /\ flush \in [Flushes -> [at : {"none", "reading", "loading", "handing", "starting"},
                              midTurn : BOOLEAN, taken : SUBSET Children]]
    /\ owed \subseteq Children /\ stranded \subseteq Children
    /\ starts \in 0..MaxStarts /\ drops \in 0..MaxDrops
    /\ owed \subseteq pending \cup UNION {flush[f].taken : f \in Flushes}

-----------------------------------------------------------------------------
(* Turns of the parent and of the children *)

Start(c) ==
    /\ chat[c] = "idle" /\ starts < MaxStarts /\ starts' = starts + 1
    /\ chat' = [chat EXCEPT ![c] = "starting"]
    /\ UNCHANGED <<pending, scheduled, flush, owed, stranded, drops>>

WakeTurnStarting(c) == c = Parent /\ \E f \in Flushes : flush[f].at = "starting"

StartDone(c) ==
    /\ chat[c] = "starting" /\ ~WakeTurnStarting(c)
    /\ \E next \in {"active", "idle"} : chat' = [chat EXCEPT ![c] = next]
    /\ UNCHANGED <<pending, scheduled, flush, owed, stranded, starts, drops>>

\* Mutant: only a child that has a report schedules.
ChildSchedules(c) == c \in pending'
Schedules(c) == c \in pending' \/ (c = Parent /\ pending' # {})

\* on_chain_end: a child may have been asked to report to its parent.
ChainEnd(c) ==
    /\ chat[c] = "active" /\ chat' = [chat EXCEPT ![c] = "idle"]
    /\ \E report \in SUBSET ({c} \ {Parent}) :
        /\ pending' = pending \cup report /\ owed' = owed \cup report
        /\ stranded' = stranded \ report
    /\ scheduled' = (scheduled \/ Schedules(c))
    /\ UNCHANGED <<flush, starts, drops>>

-----------------------------------------------------------------------------
(* A flush *)

\* _flush_later, and _flush up to its first await: mid_turn is read here.
FlushBegins(f) ==
    /\ scheduled /\ flush[f].at = "none"
    /\ chat[Parent] # "starting"        \* else it schedules itself again
    /\ scheduled' = FALSE
    /\ flush' = [flush EXCEPT ![f] = [at |-> "reading", midTurn |-> chat[Parent] = "active",
                                      taken |-> {}]]
    /\ UNCHANGED <<chat, pending, owed, stranded, starts, drops>>

\* _hold_busy: running children schedule when they end, starting ones are tried again.
HoldBusy(f, reports, kept, next) ==
    LET busy == {c \in reports : chat[c] # "idle"} IN
    /\ pending' = kept \cup busy
    /\ scheduled' = (scheduled \/ \E c \in busy : chat[c] = "starting")
    /\ flush' = [flush EXCEPT ![f] = IF reports = busy THEN NoFlush
                    ELSE [@ EXCEPT !.at = next, !.taken = reports \ busy]]
    /\ UNCHANGED <<chat, owed, stranded, starts, drops>>

\* _take_finished pops the reports, loads the children, and looks again who is idle.
TakePending(f) == flush[f].at = "reading" /\ HoldBusy(f, pending, {}, "loading")
HoldAgain(f) == flush[f].at = "loading" /\ HoldBusy(f, flush[f].taken, pending, "handing")

Done(f) == flush' = [flush EXCEPT ![f] = NoFlush]
Requeue(f, schedule) ==
    /\ Done(f) /\ pending' = pending \cup flush[f].taken
    /\ scheduled' = (scheduled \/ schedule)
\* A child that has finished again meanwhile owes its newer report.
Told(f) ==
    LET newer == pending \cup UNION {flush[g].taken : g \in Flushes \ {f}}
    IN  owed' = owed \ (flush[f].taken \ newer)

\* _steer_into_turn: the turn may be over, or not take the notice.
Steer(f) ==
    /\ flush[f].at = "handing" /\ flush[f].midTurn
    /\ \/ /\ chat[Parent] = "active" /\ Told(f)
          /\ Done(f) /\ UNCHANGED <<pending, scheduled>>
       \/ Requeue(f, chat[Parent] # "active") /\ UNCHANGED owed
    /\ UNCHANGED <<chat, stranded, starts, drops>>

\* _start_wake_turn: it takes the start slot; a chat that is busy by now answers 409.
StartWakeTurn(f) ==
    /\ flush[f].at = "handing" /\ ~flush[f].midTurn
    /\ IF chat[Parent] = "idle"
       THEN /\ chat' = [chat EXCEPT ![Parent] = "starting"]
            /\ flush' = [flush EXCEPT ![f].at = "starting"]
            /\ UNCHANGED <<pending, scheduled>>
       ELSE Requeue(f, TRUE) /\ UNCHANGED chat
    /\ UNCHANGED <<owed, stranded, starts, drops>>

WakeTurnStarts(f) ==
    /\ flush[f].at = "starting" /\ Done(f) /\ Told(f)
    /\ chat' = [chat EXCEPT ![Parent] = "active"]
    /\ UNCHANGED <<pending, scheduled, stranded, starts, drops>>

Drop == drops < MaxDrops /\ drops' = drops + 1
\* The start of the turn raises: the reports go back, and nothing is scheduled.
StartRaises(f) ==
    /\ flush[f].at = "starting" /\ Drop
    /\ Requeue(f, FALSE) /\ stranded' = stranded \cup flush[f].taken
    /\ chat' = [chat EXCEPT ![Parent] = "idle"]
    /\ UNCHANGED <<owed, starts>>

\* The reports are given up: the parent has no usable model, the device they come
\* from was revoked, or the database fails after they were taken.
GiveUp(f) ==
    /\ flush[f].at \in {"loading", "handing"} /\ Drop
    /\ Done(f) /\ Told(f)
    /\ UNCHANGED <<chat, pending, scheduled, stranded, starts>>

-----------------------------------------------------------------------------
WakeInit ==
    /\ chat = [c \in Chats |-> "idle"] /\ pending = {} /\ scheduled = FALSE
    /\ flush = [f \in Flushes |-> NoFlush]
    /\ owed = {} /\ stranded = {} /\ starts = 0 /\ drops = 0

FlushStep(f) ==
    \/ FlushBegins(f) \/ TakePending(f) \/ HoldAgain(f) \/ Steer(f)
    \/ StartWakeTurn(f) \/ WakeTurnStarts(f)
WakeNext ==
    \/ \E c \in Chats : Start(c) \/ StartDone(c) \/ ChainEnd(c)
    \/ \E f \in Flushes : FlushStep(f) \/ StartRaises(f) \/ GiveUp(f)

\* Turns start and end, and the flush tasks run; users owe nothing.
WakeFairness ==
    /\ \A c \in Chats : WF_wakeVars(StartDone(c) \/ ChainEnd(c))
    /\ \A f \in Flushes : WF_wakeVars(FlushStep(f))
WakeSpec == WakeInit /\ [][WakeNext]_wakeVars /\ WakeFairness

-----------------------------------------------------------------------------
(* The parent hears of every sub-thread that finished, whichever of them and of the
   parent is busy, starting or ending when a flush looks, unless the start of a wake
   turn raised. *)
ReportsArrive == \A c \in Children : c \in owed ~> c \notin owed \/ c \in stranded
=============================================================================
