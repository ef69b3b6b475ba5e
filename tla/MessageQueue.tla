---------------------------- MODULE MessageQueue ----------------------------
(***************************************************************************)
(* backend/app/services/queue.py: the operations on ONE message queue.     *)
(* The list is a JSON document under one cache key, the send-now marker    *)
(* another key.  Every operation reads the list, computes a new one and    *)
(* writes it back with separate cache calls, each an await at which other  *)
(* requests run; an asyncio.Lock per queue keeps them apart.  An action is *)
(* one cache call and the code up to the next one.                         *)
(***************************************************************************)
EXTENDS Subsequence

CONSTANTS
    Ops,        \* calls of the service, each by some request or turn
    Msgs,
    NoOp, NoMsg,
    Stored,     \* ids found in the cache at start: the queue outlives a restart
    MaxFaults   \* bound on failed cache calls and expired keys

ASSUME MessageQueueAssumption ==
    /\ NoOp \notin Ops /\ NoMsg \notin Msgs
    /\ Stored \in Seq(Msgs) /\ \A i, j \in DOMAIN Stored : Stored[i] = Stored[j] => i = j
    /\ MaxFaults \in Nat

VARIABLES
    queue, marker,  \* the two cache keys; a missing list is the empty one
    lock,           \* holder of the queue's lock
    at,             \* per call: where it stands
    op, arg,        \* per call: operation and message id
    copy,           \* per call: the list it read, then the one it wrote
    target,         \* per call: the marker it read
    answer,         \* per call: what it returned, "none" before
    got,            \* per call: the item it popped and still holds, if any
    faults

vars == <<queue, marker, lock, at, op, arg, copy, target, answer, got, faults>>
callVars == <<op, arg>>

(* edits: the calls this version of the item has been through.  What an edit does
   to the text and the devices is a function of the item alone. *)
Item == [id : Msgs, edits : SUBSET Ops]
Kinds == {"none", "add", "edit", "delete", "clear", "popNext", "popMarked",
          "requeue", "mark", "markDevices"}
Inside == {"getMarker", "dropMarker", "read", "write", "mark"}

TypeOK ==
    /\ queue \in Seq(Item) /\ marker \in Msgs \cup {NoMsg}
    /\ lock \in Ops \cup {NoOp}
    /\ at \in [Ops -> Inside \cup {"idle", "waiting", "done"}]
    /\ op \in [Ops -> Kinds] /\ arg \in [Ops -> Msgs \cup {NoMsg}]
    /\ copy \in [Ops -> Seq(Item)] /\ target \in [Ops -> Msgs \cup {NoMsg}]
    /\ answer \in [Ops -> {"none", "ok", "missing", "error"}]
    /\ got \in [Ops -> Seq(Item)] /\ faults \in Nat

-----------------------------------------------------------------------------
(* Lists of items.  "wrong" marks a plausible bug in the operator below it. *)

BareItem(m) == [id |-> m]   \* wrong
FreshItem(m) == [id |-> m, edits |-> {}]

Ids(q) == {q[k].id : k \in DOMAIN q}
Only(q, m) == Picked(q, {k \in DOMAIN q : q[k].id = m})
Without(q, m) == Picked(q, {k \in DOMAIN q : q[k].id # m})
Edited(q, m, p) ==
    [k \in DOMAIN q |-> IF q[k].id = m THEN [id |-> m, edits |-> q[k].edits \cup {p}]
                        ELSE q[k]]

(* Whether the operation of p, having read q, has anything to write. *)
Found(p, q) ==
    CASE op[p] \in {"edit", "delete", "mark", "markDevices"} -> arg[p] \in Ids(q)
      [] op[p] = "popNext" -> q # << >>
      [] op[p] = "popMarked" -> target[p] \in Ids(q)
      [] OTHER -> TRUE

(* The list it writes, and the item it takes out. *)
Written(p) ==
    CASE op[p] = "add" -> Append(copy[p], FreshItem(arg[p]))
      [] op[p] \in {"edit", "markDevices"} -> Edited(copy[p], arg[p], p)
      [] op[p] = "delete" -> Without(copy[p], arg[p])
      [] op[p] = "clear" -> << >>
      [] op[p] = "popNext" -> Tail(copy[p])
      [] op[p] = "popMarked" -> Without(copy[p], target[p])
      [] op[p] = "requeue" -> got[p] \o copy[p]

Popped(p) ==
    CASE op[p] = "popNext" -> <<Head(copy[p])>>
      [] op[p] = "popMarked" -> Only(copy[p], target[p])
      [] OTHER -> << >>

-----------------------------------------------------------------------------
Init ==
    /\ queue = [k \in DOMAIN Stored |-> FreshItem(Stored[k])]
    /\ marker \in Ids(queue) \cup {NoMsg}
    /\ lock = NoOp /\ at = [p \in Ops |-> "idle"]
    /\ op = [p \in Ops |-> "none"] /\ arg = [p \in Ops |-> NoMsg]
    /\ copy = [p \in Ops |-> << >>] /\ target = [p \in Ops |-> NoMsg]
    /\ answer = [p \in Ops |-> "none"] /\ got = [p \in Ops |-> << >>]
    /\ faults = 0

Unused(m) ==
    /\ \A k \in DOMAIN Stored : Stored[k] # m
    /\ \A p \in Ops : op[p] = "add" => arg[p] # m

Goto(p, a) == at' = [at EXCEPT ![p] = a]

(* add_message draws a fresh uuid; the ids users name may be stale, but were
   those of some message. *)
Call(p) ==
    /\ at[p] = "idle" /\ Goto(p, "waiting")
    /\ \E k \in Kinds \ {"none", "requeue"}, m \in Msgs \cup {NoMsg} :
         /\ CASE k = "add" -> m \in Msgs /\ Unused(m)
              [] k \in {"edit", "delete", "mark", "markDevices"} -> m \in Msgs /\ ~Unused(m)
              [] OTHER -> m = NoMsg
         /\ op' = [op EXCEPT ![p] = k] /\ arg' = [arg EXCEPT ![p] = m]
    /\ UNCHANGED <<queue, marker, lock, copy, target, answer, got, faults>>

(* The caller of a pop that cannot start the message puts it back. *)
CallRequeue(p) ==
    /\ at[p] = "done" /\ got[p] # << >> /\ Goto(p, "waiting")
    /\ op' = [op EXCEPT ![p] = "requeue"] /\ answer' = [answer EXCEPT ![p] = "none"]
    /\ UNCHANGED <<queue, marker, lock, arg, copy, target, got, faults>>

(* async with self._lock(queue_id) *)
NoLock(p) == TRUE                                      \* wrong
ClearUnlocked(p) == lock = NoOp \/ op[p] = "clear"   \* wrong
LockFree(p) == lock = NoOp

FirstStep(p) ==
    CASE op[p] = "clear" -> "write"
      [] op[p] = "popMarked" -> "getMarker"
      [] OTHER -> "read"

Acquire(p) ==
    /\ at[p] = "waiting" /\ LockFree(p)
    /\ lock' = p /\ Goto(p, FirstStep(p))
    /\ UNCHANGED <<queue, marker, callVars, copy, target, answer, got, faults>>

(* The call returns or raises, and leaves the lock. *)
KeepOnError(a) == IF a = "error" THEN lock ELSE NoOp   \* wrong
LockAfter(a) == NoOp

Return(p, a, item) ==
    /\ Goto(p, "done") /\ lock' = LockAfter(a)
    /\ answer' = [answer EXCEPT ![p] = a] /\ got' = [got EXCEPT ![p] = item]

GetMarker(p) ==
    /\ at[p] = "getMarker" /\ target' = [target EXCEPT ![p] = marker]
    /\ IF marker = NoMsg
       THEN Return(p, "missing", << >>)
       ELSE Goto(p, "dropMarker") /\ UNCHANGED <<lock, answer, got>>
    /\ UNCHANGED <<queue, marker, callVars, copy, faults>>

DropMarker(p) ==
    /\ at[p] = "dropMarker" /\ marker' = NoMsg /\ Goto(p, "read")
    /\ UNCHANGED <<queue, lock, callVars, copy, target, answer, got, faults>>

Read(p) ==
    /\ at[p] = "read" /\ copy' = [copy EXCEPT ![p] = queue]
    /\ IF Found(p, queue)
       THEN /\ Goto(p, IF op[p] = "mark" THEN "mark" ELSE "write")
            /\ UNCHANGED <<lock, answer, got>>
       ELSE Return(p, "missing", << >>)
    /\ UNCHANGED <<queue, marker, callVars, target, faults>>

Write(p) ==
    /\ at[p] = "write" /\ queue' = Written(p)
    /\ copy' = [copy EXCEPT ![p] = Written(p)]
    /\ IF op[p] = "markDevices"
       THEN Goto(p, "mark") /\ UNCHANGED <<lock, answer, got>>
       ELSE Return(p, "ok", Popped(p))
    /\ UNCHANGED <<marker, callVars, target, faults>>

SetMarker(p) ==
    /\ at[p] = "mark" /\ marker' = arg[p] /\ Return(p, "ok", << >>)
    /\ UNCHANGED <<queue, callVars, copy, target, faults>>

(* A cache call raises, before or after the cache applied it. *)
Fault == faults < MaxFaults /\ faults' = faults + 1

CacheFails(p) ==
    /\ at[p] \in Inside /\ Fault /\ Return(p, "error", << >>)
    /\ \/ UNCHANGED <<queue, marker>>
       \/ at[p] = "dropMarker" /\ marker' = NoMsg /\ UNCHANGED queue
       \/ at[p] = "write" /\ queue' = Written(p) /\ UNCHANGED marker
       \/ at[p] = "mark" /\ marker' = arg[p] /\ UNCHANGED queue
    /\ UNCHANGED <<callVars, copy, target>>

(* QUEUE_MESSAGE_TTL_SECONDS after the last write of a key. *)
Expire ==
    /\ Fault
    /\ \/ queue' = << >> /\ UNCHANGED marker
       \/ marker' = NoMsg /\ UNCHANGED queue
    /\ UNCHANGED <<lock, at, callVars, copy, target, answer, got>>

Inner(p) == Acquire(p) \/ GetMarker(p) \/ DropMarker(p) \/ Read(p) \/ Write(p) \/ SetMarker(p)

Next ==
    \/ \E p \in Ops : Call(p) \/ CallRequeue(p) \/ Inner(p) \/ CacheFails(p)
    \/ Expire

Spec == Init /\ [][Next]_vars

(* asyncio resumes a task whose cache call has answered, and hands a free lock to
   a waiter. *)
FairSpec == Spec /\ \A p \in Ops : WF_vars(Inner(p))

-----------------------------------------------------------------------------
(* Properties. *)

(* Two pops, a pop and a requeue, a delete and an edit that wrote back a stale
   list: each would leave a message twice in the queue, or in the queue and in
   the hands of a caller that is about to run it. *)
NoDuplicate ==
    \A m \in Msgs :
        Cardinality({k \in DOMAIN queue : queue[k].id = m})
        + Cardinality({p \in Ops : m \in Ids(got[p])}) <= 1

(* A lost update: the version of an item that is queued, or in the hands of who
   popped it, descends from every edit a user was told had been saved (of its
   text, or of the devices it may use), whatever other operation was rewriting
   the list at the time. *)
EditsKept ==
    \A p \in Ops : op[p] \in {"edit", "markDevices"} /\ answer[p] = "ok" =>
        \A q \in {queue} \cup {got[c] : c \in Ops} : \A k \in DOMAIN q :
            q[k].id = arg[p] => p \in q[k].edits

(* What pops, edits, deletes and requeues leave behind: each message once, with
   every saved edit. *)
MessagesIntact == NoDuplicate /\ EditsKept

(* queue.py:129, "Locked so a concurrent pop's _write_queue can't resurrect the
   key": seen from outside, every operation -- clear included -- is atomic, on the
   list its predecessor left, and its answer is that of that list.  Inside an
   operation the queue is still the one it read (a key that expires meanwhile is
   not missed), and the marker the one it is going to follow. *)
HasRead(p) == at[p] = "mark" \/ (at[p] = "write" /\ op[p] # "clear")
FollowsMarker(p) == op[p] = "popMarked" /\ at[p] \in {"dropMarker", "read", "write"}

SeenQueue == IF lock # NoOp /\ HasRead(lock) THEN copy[lock] ELSE queue
SeenMarker == IF lock # NoOp /\ FollowsMarker(lock) THEN target[lock] ELSE marker

Atomic == INSTANCE AtomicQueue WITH queue <- SeenQueue, marker <- SeenMarker

Linearizable == Atomic!Spec

(* No operation leaves its caller hanging: not even one that found nothing or
   whose cache call raised keeps the lock from the others. *)
CallsReturn == \A p \in Ops : at[p] = "waiting" ~> at[p] = "done"
=============================================================================
