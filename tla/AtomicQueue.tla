---------------------------- MODULE AtomicQueue ----------------------------
(***************************************************************************)
(* What queue.py promises to its callers: every operation on a message     *)
(* queue and its send-now marker takes effect at one instant between its   *)
(* call and its return, on the list the previous one left.  MessageQueue   *)
(* implements it with a lock around separate cache calls.                  *)
(***************************************************************************)
EXTENDS Subsequence

CONSTANTS Ops, Msgs, NoMsg

VARIABLES
    queue,     \* sequence of items [id, edits], edits being who changed it
    marker,    \* the message to send now
    op, arg,   \* what each caller asked for
    answer,    \* "none" until its operation has taken effect
    got        \* the item it took out: << >> or <<item>>

vars == <<queue, marker, op, arg, answer, got>>

FreshItem(m) == [id |-> m, edits |-> {}]
Ids(q) == {q[k].id : k \in DOMAIN q}
Without(q, m) == Picked(q, {k \in DOMAIN q : q[k].id # m})
Only(q, m) == Picked(q, {k \in DOMAIN q : q[k].id = m})
Edited(q, m, p) ==
    [k \in DOMAIN q |-> IF q[k].id = m THEN [id |-> m, edits |-> q[k].edits \cup {p}]
                        ELSE q[k]]

Waiting(p) == op[p] # "none" /\ answer[p] = "none"

Ask(p) ==
    /\ op[p] = "none" \/ (got[p] # << >> /\ op'[p] = "requeue")
    /\ op' \in [Ops -> {"none", "add", "edit", "delete", "clear", "popNext",
                        "popMarked", "requeue", "mark", "markDevices"}]
    /\ \A q \in Ops \ {p} : op'[q] = op[q] /\ arg'[q] = arg[q]
    /\ answer' = [answer EXCEPT ![p] = "none"]
    /\ UNCHANGED <<queue, marker, got>>

(* The answer of p, with the item it takes out. *)
Reply(p, a, item) ==
    /\ Waiting(p)
    /\ answer' = [answer EXCEPT ![p] = a] /\ got' = [got EXCEPT ![p] = item]
    /\ UNCHANGED <<op, arg>>

Add(p, a) ==
    /\ op[p] = "add" /\ Reply(p, a, << >>)
    /\ queue' = Append(queue, FreshItem(arg[p])) /\ UNCHANGED marker

Edit(p, a) ==
    /\ op[p] = "edit" \/ (op[p] = "markDevices" /\ a = "error")
    /\ arg[p] \in Ids(queue) /\ Reply(p, a, << >>)
    /\ queue' = Edited(queue, arg[p], p) /\ UNCHANGED marker

Delete(p, a) ==
    /\ op[p] = "delete" /\ arg[p] \in Ids(queue) /\ Reply(p, a, << >>)
    /\ queue' = Without(queue, arg[p]) /\ UNCHANGED marker

Clear(p, a) ==
    /\ op[p] = "clear" /\ Reply(p, a, << >>)
    /\ queue' = << >> /\ UNCHANGED marker

(* A pop that fails after the list was written hands its item to nobody. *)
PopNext(p, a) ==
    /\ op[p] = "popNext" /\ queue # << >>
    /\ Reply(p, a, IF a = "ok" THEN <<Head(queue)>> ELSE << >>)
    /\ queue' = Tail(queue) /\ UNCHANGED marker

PopMarked(p, a) ==
    /\ op[p] = "popMarked" /\ marker \in Ids(queue)
    /\ Reply(p, a, IF a = "ok" THEN Only(queue, marker) ELSE << >>)
    /\ queue' = Without(queue, marker) /\ marker' = NoMsg

Requeue(p, a) ==
    /\ op[p] = "requeue" /\ Reply(p, a, << >>)
    /\ queue' = got[p] \o queue /\ UNCHANGED marker

(* Contributing devices edits the message first, an effect of its own. *)
AddDevices(p) ==
    /\ op[p] = "markDevices" /\ Waiting(p) /\ arg[p] \in Ids(queue)
    /\ queue' = Edited(queue, arg[p], p)
    /\ UNCHANGED <<marker, op, arg, answer, got>>

(* The list may expire between the look at it and the marker. *)
Mark(p, a) ==
    /\ op[p] \in {"mark", "markDevices"} /\ arg[p] \in Ids(queue)
    /\ Reply(p, a, << >>)
    /\ marker' = arg[p] /\ queue' \in {queue, << >>}

(* Nothing to do: no such message, nothing queued, nothing marked.  A marker
   whose message is gone is dropped. *)
Miss(p) ==
    /\ Reply(p, "missing", << >>)
    /\ \/ op[p] \in {"edit", "delete", "mark", "markDevices"} /\ arg[p] \notin Ids(queue)
          /\ UNCHANGED marker
       \/ op[p] = "popNext" /\ queue = << >> /\ UNCHANGED marker
       \/ /\ op[p] = "popMarked" /\ marker' = NoMsg
          /\ marker = NoMsg \/ marker \notin Ids(queue)
    /\ UNCHANGED queue

(* The cache fails before any effect, or after the marker went. *)
Fail(p) ==
    /\ Reply(p, "error", << >>)
    /\ marker' \in {marker, NoMsg} /\ marker' # marker => op[p] = "popMarked"
    /\ queue' \in {queue, << >>}

Expire ==
    /\ queue' \in {queue, << >>} /\ marker' \in {marker, NoMsg}
    /\ UNCHANGED <<op, arg, answer, got>>

Effect(p, a) ==
    \/ Add(p, a) \/ Edit(p, a) \/ Delete(p, a) \/ Clear(p, a) \/ PopNext(p, a)
    \/ PopMarked(p, a) \/ Requeue(p, a) \/ Mark(p, a)

Next ==
    \/ \E p \in Ops : Ask(p) \/ AddDevices(p) \/ Miss(p) \/ Fail(p)
    \/ \E p \in Ops, a \in {"ok", "error"} : Effect(p, a)
    \/ Expire

Init == /\ \E S \in SUBSET Msgs : Ids(queue) = S
        /\ marker \in Msgs \cup {NoMsg}
        /\ op = [p \in Ops |-> "none"] /\ answer = [p \in Ops |-> "none"]
        /\ got = [p \in Ops |-> << >>]

Spec == Init /\ [][Next]_vars
=============================================================================
