------------------------ MODULE MessageQueue_proofs ------------------------
(***************************************************************************)
(* That the lock makes the operations of MessageQueue atomic, for any      *)
(* number of callers and messages: every step of the implementation is a   *)
(* step of AtomicQueue or changes nothing it shows.  And, over the list as *)
(* it is seen from outside, that no message is duplicated or loses an edit *)
(* that was answered.                                                      *)
(***************************************************************************)
EXTENDS MessageQueue, Subsequence_proofs, TLAPS

LEMMA SameOperators ==
    /\ \A m : Atomic!FreshItem(m) = FreshItem(m)
    /\ \A q : Atomic!Ids(q) = Ids(q)
    /\ \A q, m : Atomic!Only(q, m) = Only(q, m)
    /\ \A q, m : Atomic!Without(q, m) = Without(q, m)
    /\ \A q, m, p : Atomic!Edited(q, m, p) = Edited(q, m, p)
<1>0. \A I : Atomic!Cardinality(I) = Cardinality(I)
  BY DEF Cardinality, Atomic!Cardinality
<1>1. \A I : Atomic!InOrder(I) = InOrder(I)
  BY DEF InOrder, Atomic!InOrder, Cardinality, Atomic!Cardinality
<1>2. \A s, I : Atomic!Picked(s, I) = Picked(s, I)
  BY <1>0, <1>1 DEF Picked, Atomic!Picked
<1>3. \A q, m : Atomic!Only(q, m) = Only(q, m) /\ Atomic!Without(q, m) = Without(q, m)
  BY <1>2 DEF Only, Without, Atomic!Only, Atomic!Without
<1> QED BY <1>3 DEF FreshItem, Ids, Edited, Atomic!FreshItem, Atomic!Ids, Atomic!Edited

LEMMA EditKeepsIds == \A q, m, p : Ids(Edited(q, m, p)) = Ids(q)
BY DEF Ids, Edited

-----------------------------------------------------------------------------
(* The inductive invariant.  Shapes types what the steps update; Locked says
   who is inside, Asked what a call still is, and Fresh that a call inside the
   lock has seen the present list (or one that has expired since). *)
Shapes ==
    /\ lock \in Ops \cup {NoOp}
    /\ at \in [Ops -> Inside \cup {"idle", "waiting", "done"}]
    /\ op \in [Ops -> Kinds]
    /\ DOMAIN arg = Ops /\ DOMAIN copy = Ops /\ DOMAIN target = Ops
    /\ answer \in [Ops -> {"none", "ok", "missing", "error"}] /\ DOMAIN got = Ops
    /\ faults \in Nat

Locked == \A p \in Ops : at[p] \in Inside <=> lock = p

Asked ==
    \A p \in Ops :
        /\ at[p] = "idle" <=> op[p] = "none"
        /\ at[p] \in Inside \cup {"idle", "waiting"} => answer[p] = "none"
        /\ at[p] \in {"getMarker", "dropMarker"} => op[p] = "popMarked"
        /\ at[p] = "mark" => op[p] \in {"mark", "markDevices"}
        /\ at[p] = "read" => op[p] # "clear"
        /\ at[p] = "write" => op[p] # "mark"

Fresh ==
    \A p \in Ops :
        /\ HasRead(p) => Found(p, copy[p]) /\ queue \in {copy[p], << >>}
        /\ FollowsMarker(p) => target[p] # NoMsg /\ marker \in {target[p], NoMsg}
        /\ FollowsMarker(p) /\ at[p] # "dropMarker" => marker = NoMsg

IInv == Shapes /\ Locked /\ Asked /\ Fresh

LEMMA InvInit == Init => IInv
BY MessageQueueAssumption
DEF Init, IInv, Shapes, Locked, Asked, Fresh, HasRead, FollowsMarker, Inside, Kinds

LEMMA InvStep == IInv /\ [Next]_vars => IInv'
<1> SUFFICES ASSUME IInv, [Next]_vars PROVE IInv'
  OBVIOUS
<1> USE MessageQueueAssumption DEF IInv, Shapes, Locked, Asked, Fresh, HasRead,
        FollowsMarker, Inside, Kinds, Goto, Return, LockAfter, callVars
<1>1. ASSUME NEW p \in Ops, Call(p) PROVE IInv'
  <2>1. PICK k \in Kinds \ {"none", "requeue"}, m \in Msgs \cup {NoMsg} :
           op' = [op EXCEPT ![p] = k] /\ arg' = [arg EXCEPT ![p] = m]
    BY <1>1 DEF Call
  <2>2. /\ at[p] = "idle" /\ at' = [at EXCEPT ![p] = "waiting"]
        /\ UNCHANGED <<queue, marker, lock, copy, target, answer, got, faults>>
    BY <1>1 DEF Call
  <2> HIDE <1>1
  <2>3. Shapes' /\ Locked' /\ Asked'
    <3>1. k # "none" /\ k \in Kinds
      OBVIOUS
    <3>2. Shapes'
      BY <2>1, <2>2
    <3>3. Locked'
      BY <2>1, <2>2
    <3>4. Asked'
      BY <2>1, <2>2, <3>1
    <3> QED BY <3>2, <3>3, <3>4
  <2>4. ASSUME NEW q \in Ops, q # p, HasRead(q)
        PROVE  Found(q, copy[q])' /\ queue' \in {copy'[q], << >>}
    BY <2>1, <2>2, <2>4 DEF Found
  <2>5. Fresh'
    BY <2>1, <2>2, <2>4
  <2> QED BY <2>3, <2>5
<1>2. ASSUME NEW p \in Ops, CallRequeue(p) PROVE IInv'
  BY <1>2 DEF CallRequeue, Found
<1>3. ASSUME NEW p \in Ops, Acquire(p) PROVE IInv'
  BY <1>3 DEF Acquire, LockFree, FirstStep, Found
<1>4. ASSUME NEW p \in Ops, GetMarker(p) PROVE IInv'
  <2>1. CASE marker = NoMsg
    BY <1>4, <2>1 DEF GetMarker, Found
  <2>2. CASE marker # NoMsg
    BY <1>4, <2>2 DEF GetMarker, Found
  <2> QED BY <2>1, <2>2
<1>5. ASSUME NEW p \in Ops, DropMarker(p) PROVE IInv'
  BY <1>5 DEF DropMarker, Found
<1>6. ASSUME NEW p \in Ops, Read(p) PROVE IInv'
  <2>1. CASE Found(p, queue)
    <3>1. /\ at' = [at EXCEPT ![p] = IF op[p] = "mark" THEN "mark" ELSE "write"]
          /\ copy' = [copy EXCEPT ![p] = queue] /\ at[p] = "read"
          /\ UNCHANGED <<queue, marker, lock, op, arg, target, answer, got, faults>>
      BY <1>6, <2>1 DEF Read
    <3> HIDE <1>6
    <3>2. Found(p, copy[p])'
      BY <2>1, <3>1 DEF Found
    <3>3. Shapes' /\ Locked' /\ Asked'
      BY <3>1
    <3>4. Fresh'
      BY <3>1, <3>2
    <3> QED BY <3>3, <3>4
  <2>2. CASE ~Found(p, queue)
    BY <1>6, <2>2 DEF Read
  <2> QED BY <2>1, <2>2
<1>7. ASSUME NEW p \in Ops, Write(p) PROVE IInv'
  <2>1. CASE op[p] = "markDevices"
    <3>1. /\ at[p] = "write" /\ at' = [at EXCEPT ![p] = "mark"]
          /\ queue' = Edited(copy[p], arg[p], p)
          /\ copy' = [copy EXCEPT ![p] = queue']
          /\ UNCHANGED <<marker, lock, op, arg, target, answer, got, faults>>
      BY <1>7, <2>1 DEF Write, Written
    <3> HIDE <1>7
    <3>2. Found(p, copy[p])'
      BY <2>1, <3>1, EditKeepsIds DEF Found
    <3>3. Shapes' /\ Locked' /\ Asked'
      BY <2>1, <3>1
    <3>4. Fresh'
      BY <2>1, <3>1, <3>2
    <3> QED BY <3>3, <3>4
  <2>2. CASE op[p] # "markDevices"
    BY <1>7, <2>2 DEF Write
  <2> QED BY <2>1, <2>2
<1>8. ASSUME NEW p \in Ops, SetMarker(p) PROVE IInv'
  BY <1>8 DEF SetMarker, Found
<1>9. ASSUME NEW p \in Ops, CacheFails(p) PROVE IInv'
  BY <1>9 DEF CacheFails, Fault, Found
<1>10. ASSUME Expire PROVE IInv'
  BY <1>10 DEF Expire, Fault, Found
<1>11. CASE UNCHANGED vars
  BY <1>11 DEF vars, Found
<1> QED
  BY <1>1, <1>2, <1>3, <1>4, <1>5, <1>6, <1>7, <1>8, <1>9, <1>10, <1>11
  DEF Next, Inner

LEMMA Invariant == Spec => []IInv
BY InvInit, InvStep, PTL DEF Spec

-----------------------------------------------------------------------------
(* The refinement. *)

LEMMA InitMaps == Init => Atomic!Init
<1> SUFFICES ASSUME Init PROVE Atomic!Init
  OBVIOUS
<1>1. SeenQueue = queue /\ SeenMarker = marker
  BY DEF Init, SeenQueue, SeenMarker
<1>2. Ids(queue) \in SUBSET Msgs
  BY MessageQueueAssumption DEF Init, Ids, FreshItem
<1> QED
  BY <1>1, <1>2, SameOperators DEF Init, Atomic!Init

(* Outside the locked part of an operation the abstract list and marker are the
   real ones. *)
LEMMA Leaving ==
    ASSUME IInv, NEW p \in Ops, at[p] \in Inside, NEW a, NEW item, Return(p, a, item)
    PROVE  SeenQueue' = queue' /\ SeenMarker' = marker'
BY MessageQueueAssumption DEF Return, LockAfter, SeenQueue, SeenMarker

LEMMA Holding ==
    ASSUME IInv, NEW p \in Ops, at[p] \in Inside
    PROVE  /\ lock = p /\ op[p] # "none" /\ answer[p] = "none"
           /\ SeenQueue = IF HasRead(p) THEN copy[p] ELSE queue
           /\ SeenMarker = IF FollowsMarker(p) THEN target[p] ELSE marker
BY MessageQueueAssumption DEF IInv, Locked, Asked, Inside, SeenQueue, SeenMarker

LEMMA WriteMaps ==
    ASSUME IInv, NEW p \in Ops, at[p] = "write", op[p] # "markDevices",
           NEW a \in {"ok", "error"}, queue' = Written(p), marker' = marker,
           Return(p, a, IF a = "ok" THEN Popped(p) ELSE << >>),
           UNCHANGED callVars
    PROVE  Atomic!Effect(p, a)
<1>1. SeenQueue' = Written(p) /\ SeenMarker' = marker
  BY Leaving DEF Inside
<1>2. /\ op[p] # "clear" => SeenQueue = copy[p] /\ Found(p, copy[p])
      /\ op[p] = "popMarked" => SeenMarker = target[p] /\ marker = NoMsg
      /\ op[p] # "popMarked" => SeenMarker = marker
  BY Holding DEF Inside, HasRead, FollowsMarker, IInv, Fresh
<1>3. Atomic!Reply(p, a, IF a = "ok" THEN Popped(p) ELSE << >>)
  BY Holding DEF Inside, Atomic!Reply, Atomic!Waiting, Return, callVars
<1>4. op[p] \in {"add", "edit", "delete", "clear", "popNext", "popMarked", "requeue"}
  BY Holding DEF Inside, IInv, Shapes, Asked, Kinds
<1>5. CASE op[p] = "add"
  <2>1. Atomic!Add(p, a)
    BY <1>1, <1>2, <1>3, <1>5, SameOperators DEF Written, Popped, Atomic!Add
  <2> QED BY <2>1 DEF Atomic!Effect
<1>6. CASE op[p] = "edit"
  <2>1. Atomic!Edit(p, a)
    BY <1>1, <1>2, <1>3, <1>6, SameOperators DEF Written, Popped, Found, Atomic!Edit
  <2> QED BY <2>1 DEF Atomic!Effect
<1>7. CASE op[p] = "delete"
  <2>1. Atomic!Delete(p, a)
    BY <1>1, <1>2, <1>3, <1>7, SameOperators DEF Written, Popped, Found, Atomic!Delete
  <2> QED BY <2>1 DEF Atomic!Effect
<1>8. CASE op[p] = "clear"
  <2>1. Atomic!Clear(p, a)
    BY <1>1, <1>2, <1>3, <1>8 DEF Written, Popped, Atomic!Clear
  <2> QED BY <2>1 DEF Atomic!Effect
<1>9. CASE op[p] = "popNext"
  <2>1. Atomic!PopNext(p, a)
    BY <1>1, <1>2, <1>3, <1>9 DEF Written, Popped, Found, Atomic!PopNext
  <2> QED BY <2>1 DEF Atomic!Effect
<1>10. CASE op[p] = "popMarked"
  <2>1. Atomic!PopMarked(p, a)
    BY <1>1, <1>2, <1>3, <1>10, SameOperators DEF Written, Popped, Found, Atomic!PopMarked
  <2> QED BY <2>1 DEF Atomic!Effect
<1>11. CASE op[p] = "requeue"
  <2>1. Atomic!Requeue(p, a)
    BY <1>1, <1>2, <1>3, <1>11 DEF Written, Popped, Atomic!Requeue
  <2> QED BY <2>1 DEF Atomic!Effect
<1> QED BY <1>4, <1>5, <1>6, <1>7, <1>8, <1>9, <1>10, <1>11

LEMMA StepMaps == IInv /\ [Next]_vars => [Atomic!Next]_(Atomic!vars)
<1> SUFFICES ASSUME IInv, [Next]_vars PROVE [Atomic!Next]_(Atomic!vars)
  OBVIOUS
<1> USE MessageQueueAssumption
<1>1. ASSUME NEW p \in Ops, Call(p) PROVE Atomic!Ask(p)
  <2>1. lock # p /\ op[p] = "none" /\ got' = got /\ lock' = lock
    BY <1>1 DEF Call, IInv, Locked, Asked, Inside
  <2>2. SeenQueue' = SeenQueue /\ SeenMarker' = SeenMarker
    BY <1>1, <2>1 DEF Call, Goto, SeenQueue, SeenMarker, HasRead, FollowsMarker,
                      IInv, Shapes
  <2>3. answer' = [answer EXCEPT ![p] = "none"]
    BY <1>1 DEF Call, IInv, Shapes, Asked
  <2>4. PICK k \in Kinds, m \in Msgs \cup {NoMsg} : op' = [op EXCEPT ![p] = k] /\ arg' = [arg EXCEPT ![p] = m]
    BY <1>1 DEF Call
  <2>5. /\ op' \in [Ops -> Kinds]
        /\ \A q \in Ops \ {p} : op'[q] = op[q] /\ arg'[q] = arg[q]
    BY <2>4 DEF IInv, Shapes
  <2> QED BY <2>1, <2>2, <2>3, <2>5 DEF Atomic!Ask, Kinds
<1>2. ASSUME NEW p \in Ops, CallRequeue(p) PROVE Atomic!Ask(p)
  <2>1. lock # p /\ lock' = lock
    BY <1>2 DEF CallRequeue, IInv, Locked, Inside
  <2>2. SeenQueue' = SeenQueue /\ SeenMarker' = SeenMarker
    BY <1>2, <2>1 DEF CallRequeue, Goto, SeenQueue, SeenMarker, HasRead,
                      FollowsMarker, IInv, Shapes
  <2> QED BY <1>2, <2>1, <2>2 DEF CallRequeue, Atomic!Ask, IInv, Shapes, Kinds
<1>3. ASSUME NEW p \in Ops, Acquire(p) PROVE UNCHANGED Atomic!vars
  BY <1>3 DEF Acquire, LockFree, FirstStep, Goto, SeenQueue, SeenMarker, HasRead,
              FollowsMarker, callVars, Atomic!vars, IInv, Shapes
<1>4. ASSUME NEW p \in Ops, GetMarker(p)
      PROVE  Atomic!Miss(p) \/ UNCHANGED Atomic!vars
  <2>0. /\ at[p] = "getMarker" /\ op[p] = "popMarked" /\ at[p] \in Inside
        /\ ~HasRead(p) /\ ~FollowsMarker(p)
    BY <1>4 DEF GetMarker, IInv, Asked, Inside, HasRead, FollowsMarker
  <2>1. CASE marker = NoMsg
    <3>1. Return(p, "missing", << >>)
      BY <1>4, <2>1 DEF GetMarker
    <3> QED BY <1>4, <2>0, <2>1, <3>1, Holding, Leaving
            DEF GetMarker, Return, callVars, Atomic!Miss, Atomic!Reply, Atomic!Waiting
  <2>2. CASE marker # NoMsg
    BY <1>4, <2>0, <2>2, Holding
    DEF GetMarker, Goto, SeenQueue, SeenMarker, HasRead, FollowsMarker, callVars,
        Atomic!vars, IInv, Shapes
  <2> QED BY <2>1, <2>2
<1>5. ASSUME NEW p \in Ops, DropMarker(p) PROVE UNCHANGED Atomic!vars
  <2>1. at[p] \in Inside /\ op[p] = "popMarked"
    BY <1>5 DEF DropMarker, IInv, Asked, Inside
  <2> QED
    BY <1>5, <2>1, Holding
    DEF DropMarker, Goto, SeenQueue, SeenMarker, HasRead, FollowsMarker, callVars,
        Atomic!vars, IInv, Shapes
<1>6. ASSUME NEW p \in Ops, Read(p)
      PROVE  Atomic!Miss(p) \/ UNCHANGED Atomic!vars
  <2>0. at[p] = "read" /\ at[p] \in Inside /\ ~HasRead(p) /\ op[p] # "clear"
    BY <1>6 DEF Read, IInv, Asked, Inside, HasRead
  <2>1. CASE Found(p, queue)
    BY <1>6, <2>0, <2>1, Holding
    DEF Read, Goto, SeenQueue, SeenMarker, HasRead, FollowsMarker, callVars,
        Atomic!vars, IInv, Shapes
  <2>2. CASE ~Found(p, queue)
    <3>1. Return(p, "missing", << >>) /\ UNCHANGED <<queue, marker, callVars>>
      BY <1>6, <2>2 DEF Read
    <3>2. Atomic!Reply(p, "missing", << >>)
      BY <2>0, <3>1, Holding DEF Return, callVars, Atomic!Reply, Atomic!Waiting
    <3>3. SeenQueue' = SeenQueue /\ SeenQueue = queue /\ SeenMarker' = marker
      BY <2>0, <3>1, Holding, Leaving
    <3>4. op[p] = "popMarked" => SeenMarker = target[p] /\ marker = NoMsg
      BY <2>0, Holding DEF FollowsMarker, IInv, Fresh
    <3>5. op[p] # "popMarked" => SeenMarker = marker
      BY <2>0, Holding DEF FollowsMarker
    <3> QED
      BY <2>2, <3>2, <3>3, <3>4, <3>5, SameOperators DEF Found, Atomic!Miss
  <2> QED BY <2>1, <2>2
<1>7. ASSUME NEW p \in Ops, Write(p)
      PROVE  Atomic!AddDevices(p) \/ Atomic!Effect(p, "ok")
  <2>1. CASE op[p] = "markDevices"
    <3>1. /\ at[p] = "write" /\ at' = [at EXCEPT ![p] = "mark"]
          /\ queue' = Edited(copy[p], arg[p], p)
          /\ copy' = [copy EXCEPT ![p] = queue']
          /\ UNCHANGED <<marker, lock, op, arg, target, answer, got>>
      BY <1>7, <2>1 DEF Write, Written, Goto, callVars
    <3>2. SeenQueue = copy[p] /\ Found(p, copy[p]) /\ SeenMarker = marker
      BY <2>1, <3>1, Holding DEF Inside, HasRead, FollowsMarker, IInv, Fresh
    <3>3. SeenQueue' = queue' /\ SeenMarker' = marker
      BY <2>1, <3>1, Holding DEF Inside, SeenQueue, SeenMarker, HasRead, FollowsMarker,
                                 IInv, Shapes
    <3> QED
      BY <2>1, <3>1, <3>2, <3>3, Holding, SameOperators
      DEF Inside, Found, Atomic!AddDevices, Atomic!Waiting
  <2>2. CASE op[p] # "markDevices"
    BY <1>7, <2>2, WriteMaps DEF Write
  <2> QED BY <2>1, <2>2
<1>8. ASSUME NEW p \in Ops, SetMarker(p) PROVE Atomic!Effect(p, "ok")
  <2>1. /\ at[p] = "mark" /\ at[p] \in Inside /\ op[p] \in {"mark", "markDevices"}
        /\ arg[p] \in Ids(copy[p]) /\ queue \in {copy[p], << >>}
        /\ HasRead(p) /\ ~FollowsMarker(p)
    BY <1>8 DEF SetMarker, IInv, Asked, Fresh, HasRead, FollowsMarker, Found, Inside
  <2>2. Atomic!Mark(p, "ok")
    BY <1>8, <2>1, Holding, Leaving, SameOperators
    DEF SetMarker, Return, callVars, Atomic!Mark, Atomic!Reply, Atomic!Waiting
  <2> QED BY <2>2 DEF Atomic!Effect
<1>9. ASSUME NEW p \in Ops, CacheFails(p)
      PROVE  Atomic!Fail(p) \/ Atomic!Effect(p, "error")
  <2>0. /\ at[p] \in Inside /\ Return(p, "error", << >>) /\ UNCHANGED callVars
    BY <1>9 DEF CacheFails
  <2>1. Atomic!Reply(p, "error", << >>)
    BY <2>0, Holding DEF Return, callVars, Atomic!Reply, Atomic!Waiting
  <2>2. SeenQueue' = queue' /\ SeenMarker' = marker'
    BY <2>0, Leaving
  <2>3. /\ queue \in {SeenQueue, << >>}
        /\ marker # SeenMarker => op[p] = "popMarked" /\ marker = NoMsg
    BY <2>0, Holding DEF IInv, Fresh, FollowsMarker
  <2>4. CASE UNCHANGED <<queue, marker>>
    BY <2>1, <2>2, <2>3, <2>4 DEF Atomic!Fail
  <2>5. CASE at[p] = "dropMarker" /\ marker' = NoMsg /\ UNCHANGED queue
    BY <2>1, <2>2, <2>3, <2>5 DEF Atomic!Fail, IInv, Asked
  <2>6. CASE at[p] = "write" /\ queue' = Written(p) /\ UNCHANGED marker
    <3>1. CASE op[p] = "markDevices"
      <4>1. SeenQueue = copy[p] /\ arg[p] \in Ids(copy[p]) /\ SeenMarker = marker
        BY <2>0, <2>6, <3>1, Holding DEF HasRead, FollowsMarker, Found, IInv, Fresh
      <4>2. queue' = Edited(copy[p], arg[p], p)
        BY <2>6, <3>1 DEF Written
      <4>3. Atomic!Edit(p, "error")
        BY <2>1, <2>2, <2>6, <3>1, <4>1, <4>2, SameOperators DEF Atomic!Edit
      <4> QED BY <4>3 DEF Atomic!Effect
    <3>2. CASE op[p] # "markDevices"
      BY <2>0, <2>6, <3>2, WriteMaps
    <3> QED BY <3>1, <3>2
  <2>7. CASE at[p] = "mark" /\ marker' = arg[p] /\ UNCHANGED queue
    <3>1. /\ op[p] \in {"mark", "markDevices"} /\ arg[p] \in Ids(SeenQueue)
      BY <2>0, <2>7, Holding DEF HasRead, Found, IInv, Asked, Fresh
    <3>2. Atomic!Mark(p, "error")
      BY <2>1, <2>2, <2>3, <2>7, <3>1, SameOperators DEF Atomic!Mark
    <3> QED BY <3>2 DEF Atomic!Effect
  <2> QED BY <1>9, <2>4, <2>5, <2>6, <2>7 DEF CacheFails
<1>10. ASSUME Expire PROVE Atomic!Expire
  BY <1>10 DEF Expire, SeenQueue, SeenMarker, HasRead, FollowsMarker, callVars,
               Atomic!Expire
<1>11. CASE UNCHANGED vars
  BY <1>11 DEF vars, SeenQueue, SeenMarker, HasRead, FollowsMarker, Atomic!vars
<1> QED
  BY <1>1, <1>2, <1>3, <1>4, <1>5, <1>6, <1>7, <1>8, <1>9, <1>10, <1>11
  DEF Next, Inner, Atomic!Next

(* The operations of a queue are linearizable: with the lock held across its
   cache calls, each takes effect at once, for any number of callers. *)
THEOREM OperationsAreAtomic == Spec => Linearizable
BY InitMaps, Invariant, StepMaps, PTL DEF Spec, Linearizable, Atomic!Spec

-----------------------------------------------------------------------------
(* What the operations do to the messages.  Held collects the items in the list
   and in callers' hands; Saved are the edits whose effect is in, Pending the
   messages that are not yet. *)
ItemsOf(q) == {q[k] : k \in DOMAIN q}
Distinct(q) == \A j, k \in DOMAIN q : q[j].id = q[k].id => j = k

Held == ItemsOf(SeenQueue) \cup UNION {ItemsOf(got[c]) : c \in Ops}

Saved(p) == op[p] \in {"edit", "markDevices"} /\ (answer[p] = "ok" \/ at[p] = "mark")
Pending(p) == op[p] = "add" /\ answer[p] = "none"

Naming == {"edit", "delete", "mark", "markDevices"}

Args ==
    /\ \A p \in Ops : op[p] \in Naming => arg[p] \in Msgs /\ ~Unused(arg[p])
    /\ \A p \in Ops : op[p] = "add" => arg[p] \in Msgs
    /\ \A p \in Ops : op[p] \in {"none", "add"} => got[p] = << >>
    /\ \A p, r \in Ops : op[p] = "add" /\ op[r] = "add" /\ arg[p] = arg[r] => p = r

Once ==
    /\ Distinct(SeenQueue)
    /\ \A p \in Ops : Distinct(got[p]) /\ Ids(got[p]) \cap Ids(SeenQueue) = {}
    /\ \A p, r \in Ops : p # r => Ids(got[p]) \cap Ids(got[r]) = {}

(* A message whose add is pending is nowhere yet, and every other one is of an
   add or of the stored list: the next uuid is none of them. *)
Known ==
    \A x \in Held : /\ ~Unused(x.id)
                    /\ \A p \in Ops : Pending(p) => arg[p] # x.id

Kept ==
    \A p \in Ops : Saved(p) =>
        /\ \A x \in Held : x.id = arg[p] => p \in x.edits
        /\ \A r \in Ops : Pending(r) => arg[r] # arg[p]

-----------------------------------------------------------------------------
(* What the operations write: lists of items, each with the items of the old
   one that they keep. *)

LEMMA AppendList ==
    ASSUME NEW q \in Seq(Item), NEW m \in Msgs
    PROVE  /\ Append(q, FreshItem(m)) \in Seq(Item)
           /\ ItemsOf(Append(q, FreshItem(m))) \subseteq ItemsOf(q) \cup {FreshItem(m)}
           /\ Distinct(q) /\ m \notin Ids(q) => Distinct(Append(q, FreshItem(m)))
<1> DEFINE x == FreshItem(m)
           s == Append(q, x)
<1>1. x \in Item /\ x.id = m
  BY DEF FreshItem, Item
<1> HIDE DEF x
<1>2. /\ s \in Seq(Item) /\ Len(q) \in Nat
      /\ DOMAIN s = 1 .. Len(q) + 1 /\ DOMAIN q = 1 .. Len(q)
      /\ s[Len(q) + 1] = x /\ \A k \in 1 .. Len(q) : s[k] = q[k]
  BY <1>1
<1> HIDE DEF s
<1>3. \A k \in DOMAIN s : k = Len(q) + 1 \/ k \in DOMAIN q
  BY <1>2
<1>4. ItemsOf(s) \subseteq ItemsOf(q) \cup {x}
  BY <1>2, <1>3 DEF ItemsOf
<1>5. ASSUME Distinct(q), m \notin Ids(q) PROVE Distinct(s)
  BY <1>1, <1>2, <1>3, <1>5 DEF Distinct, Ids
<1> QED BY <1>2, <1>4, <1>5 DEF x, s

LEMMA EditedList ==
    ASSUME NEW q \in Seq(Item), NEW m \in Msgs, NEW p \in Ops
    PROVE  /\ Edited(q, m, p) \in Seq(Item)
           /\ \A x \in ItemsOf(Edited(q, m, p)) :
                 \E y \in ItemsOf(q) : /\ x.id = y.id /\ y.edits \subseteq x.edits
                                       /\ x.id = m => p \in x.edits
           /\ Distinct(q) => Distinct(Edited(q, m, p))
<1> DEFINE s == Edited(q, m, p)
           new(x) == [id |-> m, edits |-> x.edits \cup {p}]
<1>1. ASSUME NEW x \in Item
      PROVE  new(x) \in Item /\ new(x).id = m /\ new(x).edits = x.edits \cup {p}
  BY DEF Item
<1>2. /\ DOMAIN s = DOMAIN q /\ DOMAIN q = 1 .. Len(q) /\ Len(q) \in Nat
      /\ \A k \in DOMAIN q : q[k] \in Item
      /\ \A k \in DOMAIN q : s[k] = IF q[k].id = m THEN new(q[k]) ELSE q[k]
  BY DEF Edited
<1>3. s = [k \in 1 .. Len(q) |-> s[k]]
  BY DEF Edited
<1> HIDE DEF s, new
<1>4. ASSUME NEW k \in DOMAIN q
      PROVE  /\ s[k] \in Item /\ s[k].id = q[k].id /\ q[k].edits \subseteq s[k].edits
             /\ s[k].id = m => p \in s[k].edits
  <2>1. CASE q[k].id = m
    BY <1>1, <1>2, <2>1
  <2>2. CASE q[k].id # m
    BY <1>2, <2>2
  <2> QED BY <2>1, <2>2
<1>5. s \in Seq(Item)
  BY <1>2, <1>3, <1>4
<1>6. Distinct(q) => Distinct(s)
  BY <1>2, <1>4 DEF Distinct
<1>7. ASSUME NEW x \in ItemsOf(s)
      PROVE  \E y \in ItemsOf(q) : /\ x.id = y.id /\ y.edits \subseteq x.edits
                                   /\ x.id = m => p \in x.edits
  <2>1. PICK k \in DOMAIN q : x = s[k]
    BY <1>2 DEF ItemsOf
  <2>2. q[k] \in ItemsOf(q)
    BY DEF ItemsOf
  <2> QED BY <1>4, <2>1, <2>2
<1> QED BY <1>5, <1>6, <1>7 DEF s

(* A comprehension with a condition returns the items that satisfy it. *)
LEMMA PickedList ==
    ASSUME NEW q \in Seq(Item), NEW I, I \subseteq DOMAIN q
    PROVE  /\ Picked(q, I) \in Seq(Item)
           /\ ItemsOf(Picked(q, I)) = {q[k] : k \in I}
           /\ Distinct(q) => Distinct(Picked(q, I))
<1> DEFINE s == Picked(q, I)
           n == Cardinality(I)
           o == InOrder(I)
<1>1. /\ n \in Nat /\ s \in Seq(Item) /\ DOMAIN s = 1 .. n
      /\ \A k \in 1 .. n : o[k] \in I /\ s[k] = q[o[k]]
      /\ \A j, k \in 1 .. n : j < k => o[j] < o[k]
      /\ \A i \in I : \E k \in 1 .. n : o[k] = i /\ s[k] = q[i]
  BY PickedLists
<1> HIDE DEF s, n, o
<1>2. ItemsOf(s) = {q[k] : k \in I}
  BY <1>1 DEF ItemsOf
<1>3. \A i \in DOMAIN q : i \in Nat
  OBVIOUS
<1>4. ASSUME Distinct(q) PROVE Distinct(s)
  <2> SUFFICES ASSUME NEW j \in 1 .. n, NEW k \in 1 .. n, s[j].id = s[k].id
      PROVE  j = k
    BY <1>1 DEF Distinct
  <2>1. o[j] = o[k] /\ o[j] \in Nat
    BY <1>1, <1>3, <1>4 DEF Distinct
  <2>2. ~(j < k) /\ ~(k < j)
    BY <1>1, <2>1
  <2> QED BY <1>1, <2>2
<1> QED BY <1>1, <1>2, <1>4 DEF s

LEMMA WithoutList ==
    ASSUME NEW q \in Seq(Item), NEW m
    PROVE  /\ Without(q, m) \in Seq(Item) /\ Only(q, m) \in Seq(Item)
           /\ ItemsOf(Without(q, m)) \subseteq ItemsOf(q)
           /\ ItemsOf(Only(q, m)) \subseteq ItemsOf(q)
           /\ Ids(Only(q, m)) \cap Ids(Without(q, m)) = {}
           /\ Distinct(q) => Distinct(Without(q, m)) /\ Distinct(Only(q, m))
<1> DEFINE I == {k \in DOMAIN q : q[k].id = m}
           J == {k \in DOMAIN q : q[k].id # m}
<1>1. I \subseteq DOMAIN q /\ J \subseteq DOMAIN q
  OBVIOUS
<1>2. /\ Only(q, m) = Picked(q, I) /\ Without(q, m) = Picked(q, J)
      /\ \A k \in I : q[k].id = m
      /\ \A k \in J : q[k].id # m
  BY DEF Only, Without
<1> HIDE DEF I, J
<1>3. /\ Picked(q, I) \in Seq(Item) /\ ItemsOf(Picked(q, I)) = {q[k] : k \in I}
      /\ Distinct(q) => Distinct(Picked(q, I))
  BY <1>1, PickedList
<1>4. /\ Picked(q, J) \in Seq(Item) /\ ItemsOf(Picked(q, J)) = {q[k] : k \in J}
      /\ Distinct(q) => Distinct(Picked(q, J))
  BY <1>1, PickedList
<1>5. \A i \in Ids(Only(q, m)) : i = m
  BY <1>2, <1>3 DEF Ids, ItemsOf
<1>6. \A i \in Ids(Without(q, m)) : i # m
  BY <1>2, <1>4 DEF Ids, ItemsOf
<1>7. ItemsOf(Without(q, m)) \subseteq ItemsOf(q) /\ ItemsOf(Only(q, m)) \subseteq ItemsOf(q)
  <2>1. \A k \in DOMAIN q : q[k] \in ItemsOf(q)
    BY DEF ItemsOf
  <2> QED BY <1>1, <1>2, <1>3, <1>4, <2>1
<1> QED BY <1>2, <1>3, <1>4, <1>5, <1>6, <1>7

LEMMA TailList ==
    ASSUME NEW q \in Seq(Item), q # << >>
    PROVE  /\ Tail(q) \in Seq(Item) /\ <<Head(q)>> \in Seq(Item)
           /\ ItemsOf(Tail(q)) \subseteq ItemsOf(q)
           /\ ItemsOf(<<Head(q)>>) \subseteq ItemsOf(q)
           /\ Distinct(q) => /\ Distinct(Tail(q)) /\ Distinct(<<Head(q)>>)
                             /\ Ids(<<Head(q)>>) \cap Ids(Tail(q)) = {}
<1> DEFINE t == Tail(q)
           h == <<Head(q)>>
<1>1. /\ t \in Seq(Item) /\ Len(q) \in Nat \ {0} /\ DOMAIN t = 1 .. Len(q) - 1
      /\ DOMAIN q = 1 .. Len(q) /\ \A k \in 1 .. Len(q) - 1 : t[k] = q[k + 1]
  OBVIOUS
<1>2. h \in Seq(Item) /\ DOMAIN h = {1} /\ h[1] = q[1] /\ 1 \in DOMAIN q
  OBVIOUS
<1> HIDE DEF t, h
<1>3. \A k \in DOMAIN t : k + 1 \in DOMAIN q /\ k + 1 # 1 /\ t[k] = q[k + 1] /\ k \in Nat
  BY <1>1
<1>4. ItemsOf(t) \subseteq ItemsOf(q) /\ ItemsOf(h) \subseteq ItemsOf(q)
  BY <1>2, <1>3 DEF ItemsOf
<1>5. ASSUME Distinct(q) PROVE Distinct(t)
  BY <1>3, <1>5 DEF Distinct
<1>6. Distinct(h)
  BY <1>2 DEF Distinct
<1>7. ASSUME Distinct(q) PROVE Ids(h) \cap Ids(t) = {}
  BY <1>2, <1>3, <1>7 DEF Distinct, Ids
<1> QED BY <1>1, <1>2, <1>4, <1>5, <1>6, <1>7 DEF t, h

LEMMA JoinedList ==
    ASSUME NEW q \in Seq(Item), NEW s \in Seq(Item)
    PROVE  /\ q \o s \in Seq(Item) /\ ItemsOf(q \o s) \subseteq ItemsOf(q) \cup ItemsOf(s)
           /\ Distinct(q) /\ Distinct(s) /\ Ids(q) \cap Ids(s) = {} => Distinct(q \o s)
<1> DEFINE t == q \o s
<1>1. /\ t \in Seq(Item) /\ Len(q) \in Nat /\ Len(s) \in Nat
      /\ DOMAIN t = 1 .. Len(q) + Len(s) /\ DOMAIN q = 1 .. Len(q) /\ DOMAIN s = 1 .. Len(s)
      /\ \A k \in 1 .. Len(q) : t[k] = q[k]
      /\ \A k \in Len(q) + 1 .. Len(q) + Len(s) : t[k] = s[k - Len(q)]
  OBVIOUS
<1> HIDE DEF t
<1>2. ASSUME NEW k \in DOMAIN t
      PROVE  \/ k \in DOMAIN q /\ t[k] = q[k]
             \/ k - Len(q) \in DOMAIN s /\ t[k] = s[k - Len(q)] /\ k \in Nat
  BY <1>1
<1>3. ItemsOf(t) \subseteq ItemsOf(q) \cup ItemsOf(s)
  BY <1>2 DEF ItemsOf
<1>4. ASSUME Distinct(q), Distinct(s), Ids(q) \cap Ids(s) = {},
             NEW j \in DOMAIN t, NEW k \in DOMAIN t, t[j].id = t[k].id
      PROVE  j = k
  <2>0. j \in Nat /\ k \in Nat
    BY <1>1
  <2>1. CASE j \in DOMAIN q /\ t[j] = q[j]
    <3>1. CASE k \in DOMAIN q /\ t[k] = q[k]
      BY <1>4, <2>1, <3>1 DEF Distinct
    <3>2. CASE k - Len(q) \in DOMAIN s /\ t[k] = s[k - Len(q)]
      BY <1>4, <2>1, <3>2 DEF Ids
    <3> QED BY <1>2, <3>1, <3>2
  <2>2. CASE j - Len(q) \in DOMAIN s /\ t[j] = s[j - Len(q)]
    <3>1. CASE k \in DOMAIN q /\ t[k] = q[k]
      BY <1>4, <2>2, <3>1 DEF Ids
    <3>2. CASE k - Len(q) \in DOMAIN s /\ t[k] = s[k - Len(q)]
      <4>1. j - Len(q) = k - Len(q)
        BY <1>4, <2>2, <3>2 DEF Distinct
      <4> QED BY <1>1, <2>0, <4>1
    <3> QED BY <1>2, <3>1, <3>2
  <2> QED BY <1>2, <2>1, <2>2
<1> QED BY <1>1, <1>3, <1>4 DEF t, Distinct
-----------------------------------------------------------------------------
(* A step seen from the messages: a call is made, or an operation does its work,
   or nothing is gained -- a list expires, a caller gets nothing, an answer comes. *)
Quiet ==
    /\ UNCHANGED callVars
    /\ SeenQueue' \in {SeenQueue, << >>}
    /\ \A p \in Ops : got'[p] \in {got[p], << >>}
    /\ \A p \in Ops : (Saved(p)' => Saved(p)) /\ (Pending(p)' => Pending(p))

Works(p) ==
    /\ at[p] = "write" /\ answer[p] = "none" /\ UNCHANGED callVars
    /\ op[p] # "clear" => SeenQueue = copy[p] /\ Found(p, copy[p])
    /\ SeenQueue' = Written(p)
    /\ got'[p] \in {IF op[p] = "markDevices" THEN got[p] ELSE Popped(p), << >>}
    /\ \A r \in Ops \ {p} : got'[r] = got[r]
    /\ \A r \in Ops : Saved(r)' => Saved(r) \/ (r = p /\ op[p] \in {"edit", "markDevices"})
    /\ \A r \in Ops : Pending(r)' => Pending(r) /\ r # p

LEMMA Ending ==
    ASSUME IInv, NEW p \in Ops, at[p] \in Inside, NEW a \in {"ok", "missing", "error"},
           NEW item, Return(p, a, item), UNCHANGED callVars
    PROVE  /\ SeenQueue' = queue' /\ got'[p] = item /\ \A r \in Ops \ {p} : got'[r] = got[r]
           /\ answer[p] = "none" /\ queue \in {SeenQueue, << >>}
           /\ \A r \in Ops : Saved(r)' => Saved(r) \/ (r = p /\ a = "ok")
           /\ \A r \in Ops : Pending(r)' => Pending(r) /\ r # p
<1>1. SeenQueue' = queue'
  BY Leaving
<1>2. answer[p] = "none" /\ queue \in {SeenQueue, << >>}
  BY Holding DEF IInv, Fresh
<1>3. /\ got'[p] = item /\ answer'[p] = a /\ at'[p] = "done"
      /\ \A r \in Ops \ {p} : got'[r] = got[r] /\ answer'[r] = answer[r] /\ at'[r] = at[r]
  BY DEF IInv, Shapes, Return, Goto
<1> QED BY <1>1, <1>2, <1>3 DEF callVars, Saved, Pending

LEMMA Steps ==
    ASSUME IInv, Next
    PROVE  Quiet \/ \E p \in Ops : Call(p) \/ CallRequeue(p) \/ Works(p)
<1> USE MessageQueueAssumption
<1>1. ASSUME NEW p \in Ops, UNCHANGED callVars, UNCHANGED <<got, answer>>,
             SeenQueue' = SeenQueue, at[p] # "mark", NEW a, a # "mark", Goto(p, a)
      PROVE  Quiet
  <2>1. \A r \in Ops : at'[r] = "mark" => at[r] = "mark"
    BY <1>1 DEF Goto, IInv, Shapes
  <2> QED BY <1>1, <2>1 DEF Quiet, Saved, Pending, callVars
<1>2. ASSUME NEW p \in Ops, at[p] \in Inside, NEW a \in {"missing", "error"},
             Return(p, a, << >>), UNCHANGED callVars, queue' \in {queue, << >>}
      PROVE  Quiet
  <2>1. /\ SeenQueue' = queue' /\ got'[p] = << >> /\ \A r \in Ops \ {p} : got'[r] = got[r]
        /\ queue \in {SeenQueue, << >>}
        /\ \A r \in Ops : Saved(r)' => Saved(r) \/ (r = p /\ a = "ok")
        /\ \A r \in Ops : Pending(r)' => Pending(r) /\ r # p
    BY <1>2, Ending
  <2> QED BY <1>2, <2>1 DEF Quiet
<1>3. ASSUME NEW p \in Ops, at[p] = "write", op[p] # "markDevices", NEW a \in {"ok", "error"},
             queue' = Written(p), UNCHANGED callVars,
             Return(p, a, IF a = "ok" THEN Popped(p) ELSE << >>)
      PROVE  Works(p)
  <2>0. at[p] \in Inside
    BY <1>3 DEF Inside
  <2>1. /\ SeenQueue' = queue' /\ got'[p] = (IF a = "ok" THEN Popped(p) ELSE << >>)
        /\ \A r \in Ops \ {p} : got'[r] = got[r] /\ answer[p] = "none"
        /\ \A r \in Ops : Pending(r)' => Pending(r) /\ r # p
    BY <1>3, <2>0, Ending
  <2>2. \A r \in Ops : Saved(r)' => Saved(r) \/ r = p
    BY <1>3, <2>0, Ending
  <2>3. Saved(p)' => op[p] \in {"edit", "markDevices"}
    BY <1>3 DEF Saved, callVars
  <2>4. op[p] # "clear" => SeenQueue = copy[p] /\ Found(p, copy[p])
    BY <1>3, <2>0, Holding DEF HasRead, IInv, Fresh
  <2>5. answer[p] = "none"
    BY <2>0, Holding
  <2> QED BY <1>3, <2>1, <2>2, <2>3, <2>4, <2>5 DEF Works
<1>4. ASSUME NEW p \in Ops, Acquire(p) PROVE Quiet
  <2>1. SeenQueue' = SeenQueue
    BY <1>4 DEF Acquire, LockFree, FirstStep, Goto, SeenQueue, HasRead, callVars, IInv, Shapes
  <2>2. FirstStep(p) # "mark"
    BY DEF FirstStep
  <2> QED BY <1>1, <1>4, <2>1, <2>2 DEF Acquire
<1>5. ASSUME NEW p \in Ops, GetMarker(p) PROVE Quiet
  <2>0. at[p] = "getMarker" /\ at[p] \in Inside
    BY <1>5 DEF GetMarker, Inside
  <2>1. CASE marker = NoMsg
    BY <1>2, <1>5, <2>0, <2>1 DEF GetMarker
  <2>2. CASE marker # NoMsg
    <3>1. SeenQueue' = SeenQueue
      BY <1>5, <2>0, <2>2, Holding
      DEF GetMarker, Goto, SeenQueue, HasRead, callVars, IInv, Shapes
    <3> QED BY <1>1, <1>5, <2>2, <3>1 DEF GetMarker
  <2> QED BY <2>1, <2>2
<1>6. ASSUME NEW p \in Ops, DropMarker(p) PROVE Quiet
  <2>1. SeenQueue' = SeenQueue
    <3>1. at[p] \in Inside
      BY <1>6 DEF DropMarker, Inside
    <3> QED BY <1>6, <3>1, Holding
            DEF DropMarker, Goto, SeenQueue, HasRead, callVars, IInv, Shapes
  <2> QED BY <1>1, <1>6, <2>1 DEF DropMarker
<1>7. ASSUME NEW p \in Ops, Read(p) PROVE Quiet
  <2>0. at[p] = "read" /\ at[p] \in Inside /\ ~HasRead(p) /\ op[p] # "clear"
    BY <1>7 DEF Read, IInv, Asked, Inside, HasRead
  <2>1. CASE Found(p, queue)
    <3>1. SeenQueue' = SeenQueue
      BY <1>7, <2>0, <2>1, Holding
      DEF Read, Goto, SeenQueue, HasRead, callVars, IInv, Shapes
    <3>2. \A r \in Ops : at'[r] = "mark" => at[r] = "mark" \/ op[r] = "mark"
      BY <1>7, <2>1 DEF Read, Goto, IInv, Shapes
    <3> QED BY <1>7, <2>1, <3>1, <3>2 DEF Read, Quiet, Saved, Pending, callVars
  <2>2. CASE ~Found(p, queue)
    BY <1>2, <1>7, <2>0, <2>2 DEF Read
  <2> QED BY <2>1, <2>2
<1>8. ASSUME NEW p \in Ops, Write(p) PROVE Works(p)
  <2>1. CASE op[p] = "markDevices"
    <3>1. /\ at[p] = "write" /\ at' = [at EXCEPT ![p] = "mark"]
          /\ queue' = Written(p) /\ copy' = [copy EXCEPT ![p] = Written(p)]
          /\ UNCHANGED <<marker, lock, op, arg, target, answer, got>>
      BY <1>8, <2>1 DEF Write, Goto, callVars
    <3>2. SeenQueue = copy[p] /\ Found(p, copy[p]) /\ answer[p] = "none" /\ lock = p
      BY <2>1, <3>1, Holding DEF Inside, HasRead, IInv, Fresh
    <3>3. SeenQueue' = Written(p)
      BY <2>1, <3>1, <3>2 DEF SeenQueue, HasRead, IInv, Shapes
    <3>4. \A r \in Ops : at'[r] = "mark" => at[r] = "mark" \/ r = p
      BY <3>1 DEF IInv, Shapes
    <3> QED BY <2>1, <3>1, <3>2, <3>3, <3>4 DEF Works, Saved, Pending, callVars
  <2>2. CASE op[p] # "markDevices"
    BY <1>3, <1>8, <2>2 DEF Write
  <2> QED BY <2>1, <2>2
<1>9. ASSUME NEW p \in Ops, SetMarker(p) PROVE Quiet
  <2>0. at[p] = "mark" /\ at[p] \in Inside /\ op[p] \in {"mark", "markDevices"}
    BY <1>9 DEF SetMarker, Inside, IInv, Asked
  <2>1. /\ SeenQueue' = queue' /\ got'[p] = << >> /\ \A r \in Ops \ {p} : got'[r] = got[r]
        /\ queue \in {SeenQueue, << >>}
        /\ \A r \in Ops : Saved(r)' => Saved(r) \/ r = p
        /\ \A r \in Ops : Pending(r)' => Pending(r) /\ r # p
    BY <1>9, <2>0, Ending DEF SetMarker
  <2>2. Saved(p)' => Saved(p)
    BY <1>9, <2>0 DEF SetMarker, Saved, callVars
  <2> QED BY <1>9, <2>1, <2>2 DEF Quiet, SetMarker
<1>10. ASSUME NEW p \in Ops, CacheFails(p) PROVE Quiet \/ Works(p)
  <2>0. at[p] \in Inside /\ Return(p, "error", << >>) /\ UNCHANGED callVars
    BY <1>10 DEF CacheFails
  <2>1. CASE UNCHANGED queue
    BY <1>2, <2>0, <2>1
  <2>2. CASE at[p] = "write" /\ queue' = Written(p) /\ op[p] # "markDevices"
    BY <1>3, <2>0, <2>2
  <2>3. CASE at[p] = "write" /\ queue' = Written(p) /\ op[p] = "markDevices"
    <3>1. /\ SeenQueue' = queue' /\ got'[p] = << >>
          /\ \A r \in Ops \ {p} : got'[r] = got[r]
          /\ \A r \in Ops : Saved(r)' => Saved(r) \/ (r = p /\ "error" = "ok")
          /\ \A r \in Ops : Pending(r)' => Pending(r) /\ r # p
      BY <2>0, Ending
    <3>2. SeenQueue = copy[p] /\ Found(p, copy[p]) /\ answer[p] = "none"
      BY <2>0, <2>3, Holding DEF HasRead, IInv, Fresh
    <3> QED BY <2>0, <2>3, <3>1, <3>2 DEF Works
  <2> QED BY <1>10, <2>1, <2>2, <2>3 DEF CacheFails
<1>11. ASSUME Expire PROVE Quiet
  BY <1>11 DEF Expire, SeenQueue, HasRead, callVars, Quiet, Saved, Pending
<1> QED BY <1>4, <1>5, <1>6, <1>7, <1>8, <1>9, <1>10, <1>11 DEF Next, Inner
-----------------------------------------------------------------------------
(* Each of the three keeps the messages whole. *)

MessagesInv == Args /\ Once /\ Known /\ Kept

LEMMA IdsOfItems == \A q : Ids(q) = {x.id : x \in ItemsOf(q)}
BY DEF Ids, ItemsOf

LEMMA HeldItems ==
    /\ ItemsOf(SeenQueue) \subseteq Held /\ \A p \in Ops : ItemsOf(got[p]) \subseteq Held
    /\ \A x \in Held : x \in ItemsOf(SeenQueue) \/ \E p \in Ops : x \in ItemsOf(got[p])
BY DEF Held

(* Nothing new is held, or the item of one add, or items with a further edit. *)
LEMMA HeldLess ==
    ASSUME Known, Kept, UNCHANGED callVars, Held' \subseteq Held,
           \A p \in Ops : (Saved(p)' => Saved(p)) /\ (Pending(p)' => Pending(p))
    PROVE  Known' /\ Kept'
BY DEF Known, Kept, Unused, callVars

LEMMA HeldMore ==
    ASSUME Args, Known, Kept, UNCHANGED callVars, NEW p \in Ops, Pending(p),
           Held' \subseteq Held \cup {FreshItem(arg[p])},
           \A r \in Ops : (Saved(r)' => Saved(r)) /\ (Pending(r)' => Pending(r) /\ r # p)
    PROVE  Known' /\ Kept'
<1>1. FreshItem(arg[p]).id = arg[p]
  BY DEF FreshItem
<1>2. ASSUME NEW x \in Held', NEW r \in Ops
      PROVE  /\ ~Unused(x.id) /\ (Pending(r)' => arg[r] # x.id)
             /\ Saved(r) /\ x.id = arg[r] => r \in x.edits
  <2>1. CASE x \in Held
    BY <2>1 DEF Known, Kept
  <2>2. CASE x = FreshItem(arg[p])
    <3>1. ~Unused(arg[p])
      BY DEF Unused, Pending
    <3>2. Pending(r)' => arg[r] # arg[p]
      BY DEF Args, Pending
    <3>3. Saved(r) => arg[r] # arg[p]
      BY DEF Kept
    <3> QED BY <1>1, <2>2, <3>1, <3>2, <3>3
  <2> QED BY <2>1, <2>2
<1>3. Known'
  <2>1. \A x \in Held' : ~Unused(x.id)
    BY <1>2
  <2>2. \A m : Unused(m)' = Unused(m)
    BY DEF Unused, callVars
  <2>3. arg' = arg
    BY DEF callVars
  <2> QED BY <1>2, <2>1, <2>2, <2>3 DEF Known
<1>4. Kept'
  BY <1>2 DEF Kept, callVars
<1> QED BY <1>3, <1>4

LEMMA HeldEdited ==
    ASSUME Known, Kept, UNCHANGED callVars, NEW p \in Ops,
           \E y \in Held : y.id = arg[p],
           \A x \in Held' : \E y \in Held : /\ x.id = y.id /\ y.edits \subseteq x.edits
                                            /\ x.id = arg[p] => p \in x.edits,
           \A r \in Ops : (Saved(r)' => Saved(r) \/ r = p) /\ (Pending(r)' => Pending(r))
    PROVE  Known' /\ Kept'
<1>1. \A m : Unused(m)' = Unused(m)
  BY DEF Unused, callVars
<1>2. Known'
  BY <1>1 DEF Known, callVars
<1>3. Kept'
  BY DEF Known, Kept, callVars
<1> QED BY <1>2, <1>3

(* Once, when only the list and the item of p change, and no message comes that
   somebody holds. *)
LEMMA OnceHolds ==
    ASSUME Once, NEW p \in Ops, NEW new,
           new \cap Ids(SeenQueue) = {}, \A r \in Ops : new \cap Ids(got[r]) = {},
           Distinct(SeenQueue'), Distinct(got'[p]), Ids(got'[p]) \cap Ids(SeenQueue') = {},
           Ids(SeenQueue') \subseteq Ids(SeenQueue) \cup Ids(got[p]) \cup new,
           Ids(got'[p]) \subseteq Ids(SeenQueue) \cup Ids(got[p]),
           \A r \in Ops \ {p} : got'[r] = got[r]
    PROVE  Once'
<1>1. \A r \in Ops : Distinct(got'[r])
  BY DEF Once
<1>2. ASSUME NEW r \in Ops, r # p
      PROVE  /\ Ids(got'[r]) = Ids(got[r])
             /\ Ids(got[r]) \cap Ids(SeenQueue) = {} /\ Ids(got[r]) \cap Ids(got[p]) = {}
             /\ Ids(got[r]) \cap new = {}
  BY <1>2 DEF Once
<1>3. \A r \in Ops : Ids(got'[r]) \cap Ids(SeenQueue') = {}
  <2> SUFFICES ASSUME NEW r \in Ops, r # p PROVE Ids(got'[r]) \cap Ids(SeenQueue') = {}
    OBVIOUS
  <2> QED BY <1>2
<1>4. ASSUME NEW r \in Ops, NEW s \in Ops, r # s
      PROVE  Ids(got'[r]) \cap Ids(got'[s]) = {}
  <2>1. CASE r = p
    BY <1>2, <1>4, <2>1
  <2>2. CASE s = p
    BY <1>2, <1>4, <2>2
  <2>3. CASE r # p /\ s # p
    BY <1>2, <1>4, <2>3 DEF Once
  <2> QED BY <2>1, <2>2, <2>3
<1> QED BY <1>1, <1>3, <1>4 DEF Once

LEMMA QuietKeeps == MessagesInv /\ Quiet => MessagesInv'
<1> SUFFICES ASSUME MessagesInv, Quiet PROVE MessagesInv'
  OBVIOUS
<1>1. /\ UNCHANGED callVars /\ SeenQueue' \in {SeenQueue, << >>}
      /\ \A p \in Ops : got'[p] \in {got[p], << >>}
  BY DEF Quiet
<1>2. Ids(<< >>) = {} /\ ItemsOf(<< >>) = {} /\ Distinct(<< >>)
  BY DEF Ids, ItemsOf, Distinct
<1>3. \A m : Unused(m)' = Unused(m)
  BY <1>1 DEF Unused, callVars
<1>4. Args'
  BY <1>1, <1>3 DEF MessagesInv, Args, callVars
<1>5. Once'
  <2>1. Distinct(SeenQueue') /\ Ids(SeenQueue') \subseteq Ids(SeenQueue)
    BY <1>1, <1>2 DEF MessagesInv, Once
  <2>2. \A p \in Ops : Distinct(got'[p]) /\ Ids(got'[p]) \subseteq Ids(got[p])
    BY <1>1, <1>2 DEF MessagesInv, Once
  <2>3. \A p \in Ops : Ids(got'[p]) \cap Ids(SeenQueue') = {}
    BY <2>1, <2>2 DEF MessagesInv, Once
  <2>4. ASSUME NEW p \in Ops, NEW r \in Ops, p # r PROVE Ids(got'[p]) \cap Ids(got'[r]) = {}
    BY <2>2, <2>4 DEF MessagesInv, Once
  <2> QED BY <2>1, <2>2, <2>3, <2>4 DEF Once
<1>6. Held' \subseteq Held
  <2>1. ItemsOf(SeenQueue') \subseteq ItemsOf(SeenQueue)
    BY <1>1, <1>2
  <2>2. \A p \in Ops : ItemsOf(got'[p]) \subseteq ItemsOf(got[p])
    BY <1>1, <1>2
  <2> QED BY <2>1, <2>2 DEF Held
<1>7. Known' /\ Kept'
  BY <1>1, <1>6, HeldLess DEF MessagesInv, Quiet
<1> QED BY <1>4, <1>5, <1>7 DEF MessagesInv

LEMMA CallKeeps ==
    ASSUME IInv, MessagesInv, NEW p \in Ops, Call(p)
    PROVE  MessagesInv'
<1>1. PICK k \in Kinds \ {"none", "requeue"}, m \in Msgs \cup {NoMsg} :
         /\ CASE k = "add" -> m \in Msgs /\ Unused(m)
              [] k \in {"edit", "delete", "mark", "markDevices"} -> m \in Msgs /\ ~Unused(m)
              [] OTHER -> m = NoMsg
         /\ op' = [op EXCEPT ![p] = k] /\ arg' = [arg EXCEPT ![p] = m]
  BY DEF Call
<1>2. k = "add" => m \in Msgs /\ Unused(m)
  BY <1>1
<1>3. k \in Naming => m \in Msgs /\ ~Unused(m)
  BY <1>1 DEF Naming
<1>4. /\ at[p] = "idle" /\ op[p] = "none" /\ answer[p] = "none" /\ lock # p
      /\ at' = [at EXCEPT ![p] = "waiting"]
      /\ UNCHANGED <<queue, lock, copy, answer, got>>
  BY DEF Call, Goto, IInv, Asked, Locked, Inside
<1>5. /\ op'[p] = k /\ arg'[p] = m /\ at'[p] = "waiting"
      /\ \A r \in Ops \ {p} : op'[r] = op[r] /\ arg'[r] = arg[r] /\ at'[r] = at[r]
  BY <1>1, <1>4 DEF IInv, Shapes
<1>6. SeenQueue' = SeenQueue
  BY <1>4, <1>5, MessageQueueAssumption DEF SeenQueue, HasRead, IInv, Shapes
<1>7. ASSUME NEW i
      PROVE  /\ Unused(i)' <=> Unused(i) /\ ~(k = "add" /\ i = m)
  BY <1>4, <1>5 DEF Unused
<1>8. got[p] = << >>
  BY <1>4 DEF MessagesInv, Args
<1>9. Args'
  <2>1. \A r \in Ops : op'[r] \in Naming => arg'[r] \in Msgs /\ ~Unused(arg'[r])
    BY <1>3, <1>5 DEF MessagesInv, Args
  <2>2. \A r \in Ops : op'[r] = "add" => arg'[r] \in Msgs
    BY <1>2, <1>5 DEF MessagesInv, Args
  <2>3. \A r \in Ops : op'[r] \in {"none", "add"} => got'[r] = << >>
    BY <1>4, <1>5, <1>8 DEF MessagesInv, Args
  <2>4. ASSUME NEW q \in Ops, NEW r \in Ops, op'[q] = "add", op'[r] = "add", arg'[q] = arg'[r]
        PROVE  q = r
    BY <1>2, <1>5, <2>4 DEF MessagesInv, Args, Unused
  <2>5. \A r \in Ops : op'[r] \in Naming => arg'[r] \in Msgs /\ ~(Unused(arg[r])')
    BY <1>7, <2>1
  <2> QED BY <2>2, <2>3, <2>4, <2>5 DEF Args
<1>10. Once'
  BY <1>4, <1>6 DEF MessagesInv, Once
<1>11. Held' = Held
  BY <1>4, <1>6 DEF Held
<1>12. /\ \A r \in Ops \ {p} : Saved(r)' = Saved(r) /\ Pending(r)' = Pending(r)
       /\ ~(Saved(p)') /\ (Pending(p)' => k = "add")
  BY <1>4, <1>5 DEF Saved, Pending
<1>13. Known'
  <2>1. ASSUME NEW x \in Held', NEW r \in Ops
        PROVE  ~(Unused(x.id)') /\ (Pending(r)' => arg'[r] # x.id)
    <3>1. ~Unused(x.id) /\ (Pending(r) => arg[r] # x.id)
      BY <1>11 DEF MessagesInv, Known
    <3>2. ~(Unused(x.id)')
      BY <1>7, <3>1
    <3>3. Pending(r)' => arg'[r] # x.id
      BY <1>2, <1>5, <1>12, <3>1
    <3> QED BY <3>2, <3>3
  <2>2. \A x \in Held' : \A r \in Ops : Pending(r)' => arg'[r] # x.id
    BY <2>1
  <2> QED BY <2>1, <2>2 DEF Known
<1>14. Kept'
  <2>1. ASSUME NEW r \in Ops, Saved(r)', NEW c \in Ops, Pending(c)' PROVE arg'[c] # arg'[r]
    <3>1. r # p /\ Saved(r) /\ arg'[r] = arg[r]
      BY <1>5, <1>12, <2>1
    <3>2. ~Unused(arg[r])
      BY <3>1 DEF MessagesInv, Args, Saved, Naming
    <3> QED BY <1>2, <1>5, <1>12, <2>1, <3>1, <3>2 DEF MessagesInv, Kept
  <2>2. ASSUME NEW r \in Ops, Saved(r)', NEW x \in Held', x.id = arg'[r] PROVE r \in x.edits
    BY <1>5, <1>11, <1>12, <2>2 DEF MessagesInv, Kept
  <2> QED BY <2>1, <2>2 DEF Kept
<1> QED BY <1>9, <1>10, <1>13, <1>14 DEF MessagesInv

LEMMA RequeueKeeps ==
    ASSUME IInv, MessagesInv, NEW p \in Ops, CallRequeue(p)
    PROVE  MessagesInv'
<1>1. /\ at[p] = "done" /\ got[p] # << >> /\ lock # p
      /\ at' = [at EXCEPT ![p] = "waiting"] /\ op' = [op EXCEPT ![p] = "requeue"]
      /\ answer' = [answer EXCEPT ![p] = "none"]
      /\ UNCHANGED <<queue, lock, arg, copy, got>>
  BY DEF CallRequeue, Goto, IInv, Locked, Inside
<1>2. /\ op'[p] = "requeue" /\ at'[p] = "waiting"
      /\ \A r \in Ops \ {p} : op'[r] = op[r] /\ at'[r] = at[r] /\ answer'[r] = answer[r]
  BY <1>1 DEF IInv, Shapes
<1>3. op[p] # "add"
  BY <1>1 DEF MessagesInv, Args
<1>4. \A m : Unused(m)' = Unused(m)
  BY <1>1, <1>2, <1>3 DEF Unused
<1>5. SeenQueue' = SeenQueue
  BY <1>1, <1>2, MessageQueueAssumption DEF SeenQueue, HasRead, IInv, Shapes
<1>6. Args'
  BY <1>1, <1>2, <1>4 DEF MessagesInv, Args, Naming
<1>7. Once'
  BY <1>1, <1>5 DEF MessagesInv, Once
<1>8. Held' = Held
  BY <1>1, <1>5 DEF Held
<1>9. \A r \in Ops : (Saved(r)' => Saved(r)) /\ (Pending(r)' => Pending(r))
  BY <1>1, <1>2 DEF Saved, Pending
<1>10. Known' /\ Kept'
  BY <1>1, <1>4, <1>8, <1>9 DEF MessagesInv, Known, Kept
<1> QED BY <1>6, <1>7, <1>10 DEF MessagesInv
LEMMA HeldAfter ==
    ASSUME NEW p \in Ops, \A r \in Ops \ {p} : got'[r] = got[r]
    PROVE  \A x \in Held' : x \in ItemsOf(SeenQueue') \cup ItemsOf(got'[p])
                            \/ \E r \in Ops \ {p} : x \in ItemsOf(got[r])
<1> SUFFICES ASSUME NEW x \in Held'
    PROVE  x \in ItemsOf(SeenQueue') \cup ItemsOf(got'[p])
           \/ \E r \in Ops \ {p} : x \in ItemsOf(got[r])
  OBVIOUS
<1>1. Held' = ItemsOf(SeenQueue') \cup UNION {ItemsOf(got'[c]) : c \in Ops}
  BY DEF Held
<1>2. x \in ItemsOf(SeenQueue') \/ \E c \in Ops : x \in ItemsOf(got'[c])
  BY <1>1
<1> QED BY <1>2

(* An operation that only takes away: what it hands out was in the list or with
   its caller. *)
LEMMA TakingKeeps ==
    ASSUME MessagesInv, NEW p \in Ops, Works(p), op[p] \notin {"add", "edit", "markDevices"},
           Distinct(SeenQueue'), Distinct(got'[p]), Ids(got'[p]) \cap Ids(SeenQueue') = {},
           ItemsOf(SeenQueue') \subseteq ItemsOf(SeenQueue) \cup ItemsOf(got[p]),
           ItemsOf(got'[p]) \subseteq ItemsOf(SeenQueue) \cup ItemsOf(got[p])
    PROVE  Once' /\ Known' /\ Kept'
<1>1. /\ UNCHANGED callVars /\ \A r \in Ops \ {p} : got'[r] = got[r]
      /\ \A r \in Ops : (Saved(r)' => Saved(r)) /\ (Pending(r)' => Pending(r))
  BY DEF Works
<1>2. Held' \subseteq Held
  BY <1>1, HeldAfter, HeldItems
<1>3. Known' /\ Kept'
  BY <1>1, <1>2, HeldLess DEF MessagesInv
<1>4. /\ Ids(SeenQueue') \subseteq Ids(SeenQueue) \cup Ids(got[p]) \cup {}
      /\ Ids(got'[p]) \subseteq Ids(SeenQueue) \cup Ids(got[p])
  BY IdsOfItems
<1>5. Once'
  BY <1>1, <1>4, OnceHolds DEF MessagesInv
<1> QED BY <1>3, <1>5

LEMMA WorksKeeps ==
    ASSUME IInv, TypeOK, MessagesInv, NEW p \in Ops, Works(p)
    PROVE  MessagesInv'
<1> DEFINE Q == SeenQueue
<1>1. /\ UNCHANGED callVars /\ at[p] = "write" /\ answer[p] = "none"
      /\ op[p] # "clear" => Q = copy[p] /\ Found(p, Q)
      /\ Q' = Written(p)
      /\ got'[p] \in {IF op[p] = "markDevices" THEN got[p] ELSE Popped(p), << >>}
      /\ \A r \in Ops \ {p} : got'[r] = got[r]
      /\ \A r \in Ops : Saved(r)' => Saved(r) \/ (r = p /\ op[p] \in {"edit", "markDevices"})
      /\ \A r \in Ops : Pending(r)' => Pending(r) /\ r # p
  BY DEF Works
<1>2. Q \in Seq(Item) /\ got[p] \in Seq(Item)
  BY DEF TypeOK, SeenQueue
<1>3. op[p] \in {"add", "edit", "markDevices", "delete", "clear", "popNext", "popMarked", "requeue"}
  BY <1>1 DEF IInv, Shapes, Asked, Kinds
<1>4. Ids(<< >>) = {} /\ ItemsOf(<< >>) = {} /\ Distinct(<< >>)
  BY DEF Ids, ItemsOf, Distinct
<1>5. Distinct(Q) /\ Distinct(got[p]) /\ Ids(got[p]) \cap Ids(Q) = {}
  BY DEF MessagesInv, Once
<1>6. Args'
  <2>1. \A m : Unused(m)' = Unused(m)
    BY <1>1 DEF Unused, callVars
  <2>2. \A r \in Ops : op[r] \in {"none", "add"} => got'[r] = << >>
    <3>1. op[p] \in {"none", "add"} => got'[p] = << >>
      BY <1>1, <1>3 DEF Popped
    <3> QED BY <1>1, <3>1 DEF MessagesInv, Args
  <2> QED BY <1>1, <2>1, <2>2 DEF MessagesInv, Args, callVars
<1> HIDE DEF Q
<1>7. CASE op[p] = "add"
  <2>1. /\ arg[p] \in Msgs /\ Pending(p) /\ got[p] = << >> /\ got'[p] = << >>
        /\ Q' = Append(Q, FreshItem(arg[p]))
    BY <1>1, <1>7 DEF Written, Popped, Pending, MessagesInv, Args
  <2>2. \A x \in Held : x.id # arg[p]
    BY <2>1 DEF MessagesInv, Known
  <2>3. arg[p] \notin Ids(Q) /\ \A r \in Ops : arg[p] \notin Ids(got[r])
    BY <2>2, HeldItems, IdsOfItems DEF Q
  <2>4. Distinct(Q') /\ ItemsOf(Q') \subseteq ItemsOf(Q) \cup {FreshItem(arg[p])}
    BY <1>2, <1>5, <2>1, <2>3, AppendList
  <2>5. Ids(Q') \subseteq Ids(Q) \cup Ids(got[p]) \cup {arg[p]}
    <3>1. FreshItem(arg[p]).id = arg[p]
      BY DEF FreshItem
    <3> QED BY <2>4, <3>1, IdsOfItems
  <2>6. {arg[p]} \cap Ids(Q) = {} /\ \A r \in Ops : {arg[p]} \cap Ids(got[r]) = {}
    BY <2>3
  <2>7. Once'
    BY <1>1, <1>4, <2>1, <2>4, <2>5, <2>6, OnceHolds DEF MessagesInv, Q
  <2>8. Held' \subseteq Held \cup {FreshItem(arg[p])}
    BY <1>1, <1>4, <2>1, <2>4, HeldAfter, HeldItems DEF Q
  <2>9. Known' /\ Kept'
    BY <1>1, <1>7, <2>1, <2>8, HeldMore DEF MessagesInv
  <2> QED BY <1>6, <2>7, <2>9 DEF MessagesInv
<1>8. CASE op[p] \in {"edit", "markDevices"}
  <2>1. /\ arg[p] \in Msgs /\ arg[p] \in Ids(Q) /\ Q' = Edited(Q, arg[p], p)
        /\ got'[p] \in {got[p], << >>}
    BY <1>1, <1>8 DEF Written, Popped, Found, MessagesInv, Args, Naming
  <2>2. /\ Distinct(Q')
        /\ \A x \in ItemsOf(Q') : \E y \in ItemsOf(Q) : /\ x.id = y.id /\ y.edits \subseteq x.edits
                                                        /\ x.id = arg[p] => p \in x.edits
    BY <1>2, <1>5, <2>1, EditedList
  <2>3. Ids(Q') = Ids(Q)
    BY <2>1, EditKeepsIds
  <2>4. Distinct(got'[p]) /\ Ids(got'[p]) \subseteq Ids(got[p]) /\ ItemsOf(got'[p]) \subseteq ItemsOf(got[p])
    BY <1>4, <1>5, <2>1
  <2>5. Ids(got'[p]) \cap Ids(Q') = {}
    BY <1>5, <2>3, <2>4
  <2>6. Once'
    <3>1. {} \cap Ids(Q) = {} /\ \A r \in Ops : {} \cap Ids(got[r]) = {}
      OBVIOUS
    <3>2. Ids(Q') \subseteq Ids(Q) \cup Ids(got[p]) \cup {} /\ Ids(got'[p]) \subseteq Ids(Q) \cup Ids(got[p])
      BY <2>3, <2>4
    <3> QED BY <1>1, <2>2, <2>4, <2>5, <3>1, <3>2, OnceHolds DEF MessagesInv, Q
  <2>7. \A r \in Ops : arg[p] \notin Ids(got[r])
    BY <2>1 DEF MessagesInv, Once, Q
  <2>8. \A r \in Ops : \A x \in ItemsOf(got[r]) : x.id # arg[p]
    BY <2>7, IdsOfItems
  <2>9. ASSUME NEW x \in Held'
        PROVE  \E y \in Held : /\ x.id = y.id /\ y.edits \subseteq x.edits
                               /\ x.id = arg[p] => p \in x.edits
    <3>1. CASE x \in ItemsOf(Q')
      BY <2>2, <3>1, HeldItems DEF Q
    <3>2. CASE \E r \in Ops : x \in ItemsOf(got[r])
      BY <2>8, <3>2, HeldItems
    <3> QED BY <1>1, <2>4, <3>1, <3>2, HeldAfter DEF Q
  <2>10. \E y \in Held : y.id = arg[p]
    BY <2>1, HeldItems, IdsOfItems DEF Q
  <2>11. Known' /\ Kept'
    BY <1>1, <2>9, <2>10, HeldEdited DEF MessagesInv
  <2> QED BY <1>6, <2>6, <2>11 DEF MessagesInv
<1>9. CASE op[p] \notin {"add", "edit", "markDevices"}
  <2>1. /\ Distinct(Q') /\ Distinct(got'[p]) /\ Ids(got'[p]) \cap Ids(Q') = {}
        /\ ItemsOf(Q') \subseteq ItemsOf(Q) \cup ItemsOf(got[p])
        /\ ItemsOf(got'[p]) \subseteq ItemsOf(Q) \cup ItemsOf(got[p])
    <3>1. CASE op[p] = "delete"
      <4>1. Q' = Without(Q, arg[p]) /\ got'[p] = << >>
        BY <1>1, <3>1 DEF Written, Popped
      <4> QED BY <1>2, <1>4, <1>5, <4>1, WithoutList
    <3>2. CASE op[p] = "clear"
      <4>1. Q' = << >> /\ got'[p] = << >>
        BY <1>1, <3>2 DEF Written, Popped
      <4> QED BY <1>4, <4>1
    <3>3. CASE op[p] = "popNext"
      <4>1. Q # << >> /\ Q' = Tail(Q) /\ got'[p] \in {<<Head(Q)>>, << >>}
        BY <1>1, <3>3 DEF Written, Popped, Found
      <4>2. /\ ItemsOf(Tail(Q)) \subseteq ItemsOf(Q) /\ ItemsOf(<<Head(Q)>>) \subseteq ItemsOf(Q)
            /\ Distinct(Tail(Q)) /\ Distinct(<<Head(Q)>>)
            /\ Ids(<<Head(Q)>>) \cap Ids(Tail(Q)) = {}
        BY <1>2, <1>5, <4>1, TailList
      <4> QED BY <1>4, <4>1, <4>2
    <3>4. CASE op[p] = "popMarked"
      <4>1. Q' = Without(Q, target[p]) /\ got'[p] \in {Only(Q, target[p]), << >>}
        BY <1>1, <3>4 DEF Written, Popped
      <4> QED BY <1>2, <1>4, <1>5, <4>1, WithoutList
    <3>5. CASE op[p] = "requeue"
      <4>1. Q' = got[p] \o Q /\ got'[p] = << >>
        BY <1>1, <3>5 DEF Written, Popped
      <4> QED BY <1>2, <1>4, <1>5, <4>1, JoinedList
    <3> QED BY <1>3, <1>9, <3>1, <3>2, <3>3, <3>4, <3>5
  <2>2. Once' /\ Known' /\ Kept'
    BY <1>9, <2>1, TakingKeeps DEF Q
  <2> QED BY <1>6, <2>2 DEF MessagesInv
<1> QED BY <1>3, <1>7, <1>8, <1>9
-----------------------------------------------------------------------------
(* Types, and the theorems. *)

LEMMA WrittenTyped ==
    ASSUME IInv, TypeOK, MessagesInv, NEW p \in Ops, at[p] = "write"
    PROVE  Written(p) \in Seq(Item) /\ Popped(p) \in Seq(Item)
<1> DEFINE q == copy[p]
<1>1. q \in Seq(Item) /\ got[p] \in Seq(Item) /\ << >> \in Seq(Item)
  BY DEF TypeOK
<1>2. op[p] \in {"add", "edit", "markDevices", "delete", "clear", "popNext", "popMarked", "requeue"}
  BY DEF IInv, Shapes, Asked, Kinds
<1>3. op[p] # "clear" => Found(p, q)
  BY DEF IInv, Fresh, HasRead
<1> HIDE DEF q
<1>4. CASE op[p] = "add"
  <2>1. arg[p] \in Msgs
    BY <1>4 DEF MessagesInv, Args
  <2> QED BY <1>1, <1>4, <2>1, AppendList DEF Written, Popped, q
<1>5. CASE op[p] \in {"edit", "markDevices"}
  <2>1. arg[p] \in Msgs
    BY <1>5 DEF MessagesInv, Args, Naming
  <2>2. Edited(q, arg[p], p) \in Seq(Item)
    BY <1>1, <2>1, EditedList
  <2> QED BY <1>1, <1>5, <2>2 DEF Written, Popped, q
<1>6. CASE op[p] = "delete"
  BY <1>1, <1>6, WithoutList DEF Written, Popped, q
<1>7. CASE op[p] = "clear"
  BY <1>1, <1>7 DEF Written, Popped
<1>8. CASE op[p] = "popNext"
  <2>1. q # << >>
    BY <1>3, <1>8 DEF Found
  <2>2. Tail(q) \in Seq(Item) /\ <<Head(q)>> \in Seq(Item)
    BY <1>1, <2>1, TailList
  <2> QED BY <1>8, <2>2 DEF Written, Popped, q
<1>9. CASE op[p] = "popMarked"
  BY <1>1, <1>9, WithoutList DEF Written, Popped, q
<1>10. CASE op[p] = "requeue"
  <2>1. got[p] \o q \in Seq(Item)
    BY <1>1, JoinedList
  <2> QED BY <1>1, <1>10, <2>1 DEF Written, Popped, q
<1> QED BY <1>2, <1>4, <1>5, <1>6, <1>7, <1>8, <1>9, <1>10

LEMMA TypeStep == IInv /\ IInv' /\ TypeOK /\ MessagesInv /\ [Next]_vars => TypeOK'
<1> SUFFICES ASSUME IInv, IInv', TypeOK, MessagesInv, [Next]_vars PROVE TypeOK'
  OBVIOUS
<1>0. << >> \in Seq(Item) /\ NoMsg \in Msgs \cup {NoMsg}
  OBVIOUS
<1>1. \A p \in Ops : at[p] = "write" => Written(p) \in Seq(Item) /\ Popped(p) \in Seq(Item)
  BY WrittenTyped
<1>2. \A p \in Ops : at[p] = "mark" => arg[p] \in Msgs
  BY DEF MessagesInv, Args, Naming, IInv, Asked
<1>3. /\ lock' \in Ops \cup {NoOp}
      /\ at' \in [Ops -> Inside \cup {"idle", "waiting", "done"}]
      /\ op' \in [Ops -> Kinds] /\ answer' \in [Ops -> {"none", "ok", "missing", "error"}]
      /\ faults' \in Nat
  BY DEF IInv, Shapes
<1> USE DEF TypeOK, callVars, Goto, Return
<1>4. ASSUME NEW p \in Ops, Call(p) PROVE TypeOK'
  BY <1>3, <1>4 DEF Call
<1>5. ASSUME NEW p \in Ops, CallRequeue(p) PROVE TypeOK'
  BY <1>3, <1>5 DEF CallRequeue
<1>6. ASSUME NEW p \in Ops, Acquire(p) PROVE TypeOK'
  BY <1>3, <1>6 DEF Acquire
<1>7. ASSUME NEW p \in Ops, GetMarker(p) PROVE TypeOK'
  BY <1>0, <1>3, <1>7 DEF GetMarker
<1>8. ASSUME NEW p \in Ops, DropMarker(p) PROVE TypeOK'
  BY <1>3, <1>8 DEF DropMarker
<1>9. ASSUME NEW p \in Ops, Read(p) PROVE TypeOK'
  BY <1>0, <1>3, <1>9 DEF Read
<1>10. ASSUME NEW p \in Ops, Write(p) PROVE TypeOK'
  <2>1. Written(p) \in Seq(Item) /\ Popped(p) \in Seq(Item)
    BY <1>1, <1>10 DEF Write
  <2> QED BY <1>3, <1>10, <2>1 DEF Write
<1>11. ASSUME NEW p \in Ops, SetMarker(p) PROVE TypeOK'
  BY <1>0, <1>2, <1>3, <1>11 DEF SetMarker
<1>12. ASSUME NEW p \in Ops, CacheFails(p) PROVE TypeOK'
  <2>1. queue' \in Seq(Item) /\ marker' \in Msgs \cup {NoMsg}
    BY <1>0, <1>1, <1>2, <1>12 DEF CacheFails
  <2>2. got' \in [Ops -> Seq(Item)] /\ UNCHANGED <<arg, copy, target>>
    BY <1>0, <1>12 DEF CacheFails
  <2> QED BY <1>3, <2>1, <2>2
<1>13. ASSUME Expire PROVE TypeOK'
  BY <1>0, <1>3, <1>13 DEF Expire
<1>14. CASE UNCHANGED vars
  BY <1>14 DEF vars
<1> QED
  BY <1>4, <1>5, <1>6, <1>7, <1>8, <1>9, <1>10, <1>11, <1>12, <1>13, <1>14 DEF Next, Inner

LEMMA MessagesInit == Init => TypeOK /\ MessagesInv
<1> SUFFICES ASSUME Init PROVE TypeOK /\ MessagesInv
  OBVIOUS
<1>1. /\ queue = [k \in DOMAIN Stored |-> FreshItem(Stored[k])]
      /\ marker \in Ids(queue) \cup {NoMsg} /\ lock = NoOp
      /\ at = [p \in Ops |-> "idle"] /\ op = [p \in Ops |-> "none"]
      /\ arg = [p \in Ops |-> NoMsg] /\ copy = [p \in Ops |-> << >>]
      /\ target = [p \in Ops |-> NoMsg] /\ answer = [p \in Ops |-> "none"]
      /\ got = [p \in Ops |-> << >>] /\ faults = 0
  BY DEF Init
<1>2. /\ DOMAIN queue = DOMAIN Stored /\ DOMAIN Stored = 1 .. Len(Stored) /\ Len(Stored) \in Nat
      /\ \A k \in DOMAIN Stored : /\ queue[k].id = Stored[k] /\ Stored[k] \in Msgs
                                  /\ queue[k] \in Item
  BY <1>1, MessageQueueAssumption DEF FreshItem, Item
<1>3. queue \in Seq(Item)
  <2>1. queue = [k \in 1 .. Len(Stored) |-> queue[k]]
    BY <1>1, <1>2
  <2> QED BY <1>2, <2>1
<1>4. SeenQueue = queue
  BY <1>1 DEF SeenQueue
<1>5. Ids(queue) \subseteq Msgs
  BY <1>2 DEF Ids
<1>6. TypeOK
  BY <1>1, <1>3, <1>5 DEF TypeOK, Kinds
<1>7. \A p \in Ops : got[p] = << >> /\ ~Saved(p) /\ ~Pending(p)
  BY <1>1 DEF Saved, Pending
<1>8. Args
  BY <1>1 DEF Args, Naming
<1>9. Once
  <2>1. Distinct(queue)
    BY <1>2, MessageQueueAssumption DEF Distinct
  <2>2. Ids(<< >>) = {} /\ Distinct(<< >>)
    BY DEF Ids, Distinct
  <2> QED BY <1>4, <1>7, <2>1, <2>2 DEF Once
<1>10. Held = ItemsOf(queue)
  BY <1>4, <1>7 DEF Held, ItemsOf
<1>11. Known
  <2>1. \A x \in Held : ~Unused(x.id)
    BY <1>2, <1>10 DEF Unused, ItemsOf
  <2> QED BY <1>7, <2>1 DEF Known
<1>12. Kept
  BY <1>7 DEF Kept
<1> QED BY <1>6, <1>8, <1>9, <1>11, <1>12 DEF MessagesInv

LEMMA MessagesStep == IInv /\ TypeOK /\ MessagesInv /\ [Next]_vars => MessagesInv'
<1> SUFFICES ASSUME IInv, TypeOK, MessagesInv, [Next]_vars PROVE MessagesInv'
  OBVIOUS
<1>1. CASE UNCHANGED vars
  <2>1. Quiet
    BY <1>1 DEF vars, Quiet, callVars, SeenQueue, HasRead, Saved, Pending
  <2> QED BY <2>1, QuietKeeps
<1>2. CASE Next
  BY <1>2, Steps, QuietKeeps, CallKeeps, RequeueKeeps, WorksKeeps
<1> QED BY <1>1, <1>2

LEMMA MessagesInvariant == Spec => [](IInv /\ TypeOK /\ MessagesInv)
<1>1. Init => IInv /\ TypeOK /\ MessagesInv
  BY InvInit, MessagesInit
<1>2. IInv /\ TypeOK /\ MessagesInv /\ [Next]_vars => (IInv /\ TypeOK /\ MessagesInv)'
  BY InvStep, TypeStep, MessagesStep
<1> QED BY <1>1, <1>2, PTL DEF Spec

LEMMA Singles ==
    ASSUME NEW S, \A x, y \in S : x = y
    PROVE  Cardinality(S) \in {0, 1} /\ (Cardinality(S) = 1 => S # {})
<1>1. CASE S = {}
  BY <1>1, FS_EmptySet
<1>2. CASE S # {}
  <2>1. PICK x : S = {x}
    BY <1>2
  <2>2. Cardinality(S) = 1
    BY <2>1, FS_Singleton
  <2> QED BY <1>2, <2>2
<1> QED BY <1>1, <1>2

LEMMA MessagesMeaning == IInv /\ MessagesInv => MessagesIntact
<1> SUFFICES ASSUME IInv, MessagesInv PROVE MessagesIntact
  OBVIOUS
<1>1. queue \in {SeenQueue, << >>}
  BY MessageQueueAssumption DEF SeenQueue, IInv, Shapes, Fresh
<1>2. ItemsOf(queue) \subseteq ItemsOf(SeenQueue) /\ Distinct(queue) /\ Ids(queue) \subseteq Ids(SeenQueue)
  <2>1. ItemsOf(<< >>) = {} /\ Distinct(<< >>) /\ Ids(<< >>) = {}
    BY DEF ItemsOf, Distinct, Ids
  <2> QED BY <1>1, <2>1 DEF MessagesInv, Once
<1>3. ASSUME NEW m \in Msgs
      PROVE  Cardinality({k \in DOMAIN queue : queue[k].id = m})
             + Cardinality({p \in Ops : m \in Ids(got[p])}) <= 1
  <2> DEFINE K == {k \in DOMAIN queue : queue[k].id = m}
             P == {p \in Ops : m \in Ids(got[p])}
  <2>1. \A j, k \in K : j = k
    BY <1>2 DEF Distinct
  <2>2. \A p, r \in P : p = r
    BY DEF MessagesInv, Once
  <2>3. K # {} => m \in Ids(SeenQueue)
    BY <1>2 DEF Ids
  <2>4. P # {} => m \notin Ids(SeenQueue)
    BY DEF MessagesInv, Once
  <2> HIDE DEF K, P
  <2>5. Cardinality(K) \in {0, 1} /\ (Cardinality(K) = 1 => K # {})
    BY <2>1, Singles
  <2>6. Cardinality(P) \in {0, 1} /\ (Cardinality(P) = 1 => P # {})
    BY <2>2, Singles
  <2>7. Cardinality(K) + Cardinality(P) <= 1
    BY <2>3, <2>4, <2>5, <2>6
  <2> QED BY <2>7 DEF K, P
<1>4. EditsKept
  <2> SUFFICES ASSUME NEW p \in Ops, op[p] \in {"edit", "markDevices"}, answer[p] = "ok",
                      NEW q \in {queue} \cup {got[c] : c \in Ops},
                      NEW k \in DOMAIN q, q[k].id = arg[p]
      PROVE  p \in q[k].edits
    BY DEF EditsKept
  <2>1. q[k] \in ItemsOf(q)
    BY DEF ItemsOf
  <2>2. q[k] \in Held
    BY <1>2, <2>1, HeldItems
  <2> QED BY <2>2 DEF MessagesInv, Kept, Saved
<1> QED BY <1>3, <1>4 DEF MessagesIntact, NoDuplicate

(* The types hold for any number of callers and messages. *)
THEOREM QueueTypes == Spec => []TypeOK
BY MessagesInvariant, PTL

(* The messages of a queue are never duplicated or lost behind a caller's back:
   each is once in the list or once in the hands of a caller, with every edit that
   was answered, whatever fails or expires. *)
THEOREM MessagesStayIntact == Spec => []MessagesIntact
BY MessagesInvariant, MessagesMeaning, PTL

=============================================================================
