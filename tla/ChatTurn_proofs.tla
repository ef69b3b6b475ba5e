--------------------------- MODULE ChatTurn_proofs ---------------------------
(* Theorems about ChatTurn, for any number of turns, messages and requests. *)
EXTENDS ChatTurn, TLAPS, SequenceTheorems, FiniteSetTheorems, WellFoundedInduction

-----------------------------------------------------------------------------
(* The sequence operators the queue is built from. *)

(* The least element of a set of naturals is one of its elements. *)
LEMMA LeastIsMember ==
    ASSUME NEW S \in SUBSET Nat, S # {}
    PROVE  Min(S) \in S
<1> DEFINE R == {p \in Nat \X Nat : p[1] < p[2]}
<1>1. R = OpToRel(<, Nat)
  BY DEF OpToRel
<1>2. IsWellFoundedOn(R, Nat)
  BY <1>1, NatLessThanWellFounded
<1>3. PICK x \in S : \A y \in S : <<y, x>> \notin R
  <2> HIDE DEF R
  <2> QED BY <1>2, WFMin
<1>4. \A y \in S : x <= y
  <2> TAKE y \in S
  <2>1. <<y, x>> \in Nat \X Nat /\ <<y, x>>[1] = y /\ <<y, x>>[2] = x
    OBVIOUS
  <2>2. ~(<<y, x>>[1] < <<y, x>>[2])
    BY <1>3, <2>1, Zenon
  <2>3. y \in Nat /\ x \in Nat
    OBVIOUS
  <2> HIDE DEF R
  <2> QED BY <2>1, <2>2, <2>3
<1> QED BY <1>4 DEF Min

(* Taking a message out of the queue leaves a queue. *)
LEMMA RemoveFirstType ==
    ASSUME NEW S, NEW s \in Seq(S), NEW e
    PROVE  RemoveFirst(s, e) \in Seq(S)
<1>1. CASE \E i \in 1 .. Len(s) : s[i] = e
  <2> DEFINE I == {i \in 1 .. Len(s) : s[i] = e}
             k == Min(I)
  <2>1. I \in SUBSET Nat /\ I # {}
    BY <1>1
  <2>2. k \in I
    <3> HIDE DEF I
    <3> QED BY <2>1, LeastIsMember
  <2>3. k \in 1 .. Len(s)
    BY <2>2
  <2>4. RemoveFirst(s, e) = SubSeq(s, 1, k - 1) \o SubSeq(s, k + 1, Len(s))
    BY <1>1, <2>1 DEF RemoveFirst, RemoveAt, SelectInSeq
  <2> HIDE DEF I, k
  <2>5. SubSeq(s, 1, k - 1) \in Seq(S)
    BY <2>3, SubSeqProperties
  <2>6. SubSeq(s, k + 1, Len(s)) \in Seq(S)
    BY <2>3, SubSeqProperties
  <2> QED BY <2>4, <2>5, <2>6
<1>2. CASE ~ \E i \in 1 .. Len(s) : s[i] = e
  BY <1>2 DEF RemoveFirst
<1> QED BY <1>1, <1>2
-----------------------------------------------------------------------------
(* Types. *)

(* What the types of the shared tables rest on: a request that waits for a lock
   or for the agent remembers which turn or session it waits for, a steering
   request has its message, and a turn that uses a session knows which. *)
Linked ==
    /\ \A r \in Reqs : pc[r] \in {"cancelling", "locking", "steering"}
                         => target[r] \in Turns
    /\ \A r \in Reqs : pc[r] = "steering" => held[r] \in Msgs
    /\ \A t \in Turns : phase[t] \in {"opened"} \cup SessionPhase
                          => using[t] \in Turns

Typed == TypeOK /\ Linked

(* Facts about the operators the actions write the queue with. *)
LEMMA SendNowTargetType == TypeOK => SendNowTarget \in Msgs \cup {NoMsg}
BY DEF TypeOK, SendNowTarget

LEMMA ToSetType == \A q \in Seq(Msgs) : ToSet(q) \subseteq Msgs
BY DEF ToSet

LEMMA RequeuedType ==
    ASSUME TypeOK, NEW a \in Actors
    PROVE  Requeued(a) \in Seq(Msgs)
BY DEF TypeOK, Requeued

LEMMA PopFailureType ==
    ASSUME TypeOK, NEW m \in Msgs \cup {NoMsg}, LosePopped(m)
    PROVE  queue' \in Seq(Msgs) /\ dropped' \subseteq Msgs
BY RemoveFirstType, ChatTurnAssumption DEF TypeOK, LosePopped

LEMMA PopMarkedFailureType ==
    ASSUME TypeOK, PopMarkedFails
    PROVE  /\ queue' \in Seq(Msgs) /\ dropped' \subseteq Msgs
           /\ sendNow' \in Msgs \cup {NoMsg}
<1>1. CASE sendNow' \in {sendNow, NoMsg} /\ UNCHANGED <<queue, dropped>>
  BY <1>1 DEF TypeOK
<1>2. CASE sendNow' = NoMsg /\ LosePopped(SendNowTarget)
  BY <1>2, PopFailureType, SendNowTargetType
<1> QED BY <1>1, <1>2 DEF PopMarkedFails

(* A turn that takes a message claims the turn it will start with it. *)
LEMMA TakeType ==
    ASSUME TypeOK, NEW t \in Turns, NEW m \in Msgs, Take(t, m)
    PROVE  /\ held' \in [Actors -> Msgs \cup {NoMsg}]
           /\ queue' \in Seq(Msgs)
           /\ next' \in [Actors -> Turns \cup {NoTurn}]
           /\ starter' \in [Turns -> Actors \cup {NoTurn}]
           /\ phase' \in [Turns -> TurnPhase]
<1>1. queue' \in Seq(Msgs)
  BY RemoveFirstType DEF TypeOK, Take
<1>2. held' \in [Actors -> Msgs \cup {NoMsg}]
  BY DEF TypeOK, Take
<1>3. PICK u \in Turns : /\ Claim(t, u)
                         /\ phase' = [phase EXCEPT ![u] = "claimed", ![t] = "holding"]
  BY DEF Take
<1>4. /\ next' \in [Actors -> Turns \cup {NoTurn}]
      /\ starter' \in [Turns -> Actors \cup {NoTurn}]
  BY <1>3 DEF TypeOK, Claim, Actors
<1>5. phase' \in [Turns -> TurnPhase]
  BY <1>3 DEF TypeOK, TurnPhase
<1> QED BY <1>1, <1>2, <1>4, <1>5

(* Every operation keeps the types. *)
LEMMA TypedStep == Typed /\ [Next]_vars => Typed'
<1> SUFFICES ASSUME Typed, [Next]_vars PROVE Typed'
  OBVIOUS
<1> USE ChatTurnAssumption DEF Goto, Step, Typed, TypeOK, Linked, Actors, ReqPhase,
         TurnPhase, RowStatus, PendingCancel, SessionPhase, cacheVars, sessVars,
         msgHist, cancelHist, history
<1>1. ASSUME NEW m \in Msgs, Enqueue(m) PROVE Typed'
  BY <1>1 DEF Enqueue
<1>2. ASSUME NEW m \in Msgs, DeleteQueued(m) PROVE Typed'
  BY <1>2, RemoveFirstType DEF DeleteQueued, Contains
<1>3. ASSUME ClearQueue PROVE Typed'
  BY <1>3, ToSetType DEF ClearQueue
<1>4. ASSUME NEW r \in Reqs, SendMessage(r) PROVE Typed'
  BY <1>4 DEF SendMessage, Claim
<1>5. ASSUME NEW r \in Reqs, Stop(r) PROVE Typed'
  BY <1>5 DEF Stop, CancelGeneration, AfterPendingSet, AboutToPop
<1>6. ASSUME NEW r \in Reqs, RevokeDevice(r) PROVE Typed'
  BY <1>6 DEF RevokeDevice, CancelGeneration, AfterPendingSet, AboutToPop
<1>7. ASSUME NEW r \in Reqs, CaptureRuntime(r) PROVE Typed'
  BY <1>7 DEF CaptureRuntime
<1>8. ASSUME NEW r \in Reqs, AcquireSteering(r) PROVE Typed'
  <2>1. CASE SendNowTarget # NoMsg
    <3>1. SendNowTarget \in Msgs
      BY <2>1, SendNowTargetType
    <3>2. queue' \in Seq(Msgs)
      BY <1>8, <2>1, RemoveFirstType DEF AcquireSteering
    <3>3. /\ held' = [held EXCEPT ![r] = SendNowTarget] /\ sendNow' = NoMsg
          /\ pc' = [pc EXCEPT ![r] = "steering"] /\ steerer' = r
          /\ pc[r] = "locking"
          /\ UNCHANGED <<reserved, target, next, phase, row, verdict, carried,
                         sessVars, pending, runtime, steered, faults, history>>
      BY <1>8, <2>1 DEF AcquireSteering
    <3> HIDE <1>8
    <3>4. TypeOK'
      BY <3>1, <3>2, <3>3
    <3>5. Linked'
      BY <3>1, <3>3
    <3> QED BY <3>4, <3>5
  <2>2. CASE SendNowTarget = NoMsg
    BY <1>8, <2>2 DEF AcquireSteering
  <2> QED BY <2>1, <2>2
<1>9. ASSUME NEW r \in Reqs, CancelForSendNow(r) PROVE Typed'
  BY <1>9 DEF CancelForSendNow, CancelGeneration, AfterPendingSet, AboutToPop
<1>10. ASSUME NEW r \in Reqs, IdleSendNow(r) PROVE Typed'
  BY <1>10 DEF IdleSendNow
<1>11. ASSUME NEW r \in Reqs, PopIdle(r) PROVE Typed'
  <2>1. CASE SendNowTarget # NoMsg
    <3>1. SendNowTarget \in Msgs
      BY <2>1, SendNowTargetType
    <3>2. queue' \in Seq(Msgs) /\ held' \in [Actors -> Msgs \cup {NoMsg}]
      <4>1. /\ queue' = RemoveFirst(queue, SendNowTarget)
            /\ held' = [held EXCEPT ![r] = SendNowTarget]
        BY <1>11, <2>1 DEF PopIdle
      <4> HIDE <1>11
      <4> QED BY <3>1, <4>1, RemoveFirstType
    <3>3. PICK t \in Turns : Claim(r, t) /\ Step(t, "claimed") /\ Goto(r, "starting")
      BY <1>11, <2>1 DEF PopIdle
    <3>4. /\ next' \in [Actors -> Turns \cup {NoTurn}]
          /\ starter' \in [Turns -> Actors \cup {NoTurn}]
          /\ phase' \in [Turns -> TurnPhase] /\ pc' \in [Reqs -> ReqPhase]
      BY <3>3 DEF Claim
    <3>5. TypeOK'
      BY <1>11, <2>1, <3>2, <3>4 DEF PopIdle
    <3>6. held' = [held EXCEPT ![r] = SendNowTarget] /\ UNCHANGED <<target, using>>
      BY <1>11, <2>1 DEF PopIdle
    <3>7. Linked'
      BY <3>3, <3>6
    <3> QED BY <3>5, <3>7
  <2>2. CASE SendNowTarget = NoMsg
    BY <1>11, <2>2 DEF PopIdle
  <2> QED BY <2>1, <2>2
<1>12. ASSUME NEW r \in Reqs, CancelSent(r) PROVE Typed'
  BY <1>12 DEF CancelSent
<1>13. ASSUME NEW r \in Reqs, Launch(r) PROVE Typed'
  <2>0. next[r] \in Turns \cup {NoTurn} /\ held[r] \in Msgs \cup {NoMsg}
    OBVIOUS
  <2>1. phase' \in [Turns -> TurnPhase] /\ carried' \in [Turns -> Msgs \cup {NoMsg}]
    BY <1>13, <2>0 DEF Launch
  <2>5. pc' \in [Reqs -> ReqPhase] /\ reserved' \in Reqs \cup {NoReq}
    BY <1>13 DEF Launch
  <2>2. /\ held' \in [Actors -> Msgs \cup {NoMsg}]
        /\ next' \in [Actors -> Turns \cup {NoTurn}]
    BY <1>13 DEF Launch
  <2>3. TypeOK'
    BY <1>13, <2>1, <2>2, <2>5 DEF Launch
  <2>4. Linked'
    BY <1>13 DEF Launch
  <2> QED BY <2>3, <2>4
<1>14. ASSUME NEW r \in Reqs, Release(r) PROVE Typed'
  BY <1>14 DEF Release
<1>15. ASSUME NEW r \in Reqs, SteeringAnswered(r) PROVE Typed'
  <2>1. queue' \in Seq(Msgs)
    BY <1>15, RequeuedType DEF SteeringAnswered
  <2>2. TypeOK'
    BY <2>1, <1>15 DEF SteeringAnswered
  <2>3. Linked'
    BY <1>15 DEF SteeringAnswered
  <2> QED BY <2>2, <2>3
<1>16. ASSUME NEW r \in Reqs, NEW m \in Msgs, MarkSendNow(r, m) PROVE Typed'
  BY <1>16 DEF MarkSendNow
<1>17. ASSUME NEW t \in Turns, Register(t) PROVE Typed'
  BY <1>17 DEF Register
<1>18. ASSUME NEW t \in Turns, Open(t) PROVE Typed'
  <2>1. TypeOK'
    BY <1>18 DEF Open
  <2>2. Linked'
    BY <1>18 DEF Open
  <2> QED BY <2>1, <2>2
<1>19. ASSUME NEW t \in Turns, Bind(t) PROVE Typed'
  BY <1>19 DEF Bind, PendingCounts
<1>20. ASSUME NEW t \in Turns, Accept(t) PROVE Typed'
  <2>1. TypeOK'
    BY <1>20, SMTT(30) DEF Accept, EventSet
  <2>2. Linked'
    BY <1>20 DEF Accept, EventSet
  <2> QED BY <2>1, <2>2
<1>21. ASSUME NEW t \in Turns, StreamEnds(t) PROVE Typed'
  <2>1. TypeOK'
    BY <1>21 DEF StreamEnds, LeaveSession
  <2>2. Linked'
    BY <1>21 DEF StreamEnds, LeaveSession
  <2> QED BY <2>1, <2>2
<1>22. ASSUME NEW t \in Turns, StreamCancelled(t) PROVE Typed'
  BY <1>22 DEF StreamCancelled
<1>23. ASSUME NEW t \in Turns, SaveFinal(t) PROVE Typed'
  BY <1>23 DEF SaveFinal
<1>24. ASSUME NEW t \in Turns, PopSendNow(t) PROVE Typed'
  <2>1. CASE SendNowTarget # NoMsg
    <3>1. Take(t, SendNowTarget) /\ SendNowTarget \in Msgs
      BY <1>24, <2>1, SendNowTargetType DEF PopSendNow
    <3>2. TypeOK'
      BY <1>24, <3>1, TakeType DEF PopSendNow
    <3> QED BY <3>1, <3>2, <1>24 DEF PopSendNow, Take
  <2>2. CASE SendNowTarget = NoMsg
    BY <1>24, <2>2 DEF PopSendNow
  <2> QED BY <2>1, <2>2
<1>25. ASSUME NEW t \in Turns, PopNext(t) PROVE Typed'
  <2>1. CASE queue # << >>
    <3>1. Take(t, Head(queue)) /\ Head(queue) \in Msgs
      BY <1>25, <2>1, HeadTailProperties DEF PopNext
    <3>2. TypeOK'
      BY <1>25, <3>1, TakeType DEF PopNext
    <3>3. phase[t] = "popNext" /\ UNCHANGED <<pc, target, using>>
      BY <1>25 DEF PopNext
    <3>4. Linked'
      BY <3>1, <3>3 DEF Take, Claim
    <3> QED BY <3>2, <3>4
  <2>2. CASE queue = << >>
    BY <1>25, <2>2 DEF PopNext
  <2> QED BY <2>1, <2>2
<1>26. ASSUME NEW t \in Turns, HandOff(t) PROVE Typed'
  <2>1. TypeOK'
    BY <1>26 DEF HandOff, LeaveSession
  <2>2. Linked'
    BY <1>26 DEF HandOff, LeaveSession
  <2> QED BY <2>1, <2>2
<1>27. ASSUME NEW t \in Turns, EmitTerminal(t) PROVE Typed'
  <2>2. TypeOK'
    BY <1>27, SMTT(30) DEF EmitTerminal, LeaveSession
  <2>3. Linked'
    BY <1>27 DEF EmitTerminal, LeaveSession
  <2> QED BY <2>2, <2>3
<1>28. ASSUME NEW t \in Turns, FinalizeDead(t) PROVE Typed'
  BY <1>28 DEF FinalizeDead, FinalRow
<1>29. ASSUME NEW t \in Turns, Finish(t) PROVE Typed'
  BY <1>29 DEF Finish
<1>30. ASSUME NEW t \in Turns, Fail(t) PROVE Typed'
  BY <1>30 DEF Fail, LeaveSession
<1>31. ASSUME NEW t \in Turns, PopError(t) PROVE Typed'
  <2>1. /\ queue' \in Seq(Msgs) /\ dropped' \subseteq Msgs
        /\ sendNow' \in Msgs \cup {NoMsg}
    <3>1. CASE PopMarkedFails
      BY <3>1, PopMarkedFailureType
    <3>2. CASE UNCHANGED sendNow /\ UNCHANGED <<queue, dropped>>
      BY <3>2
    <3>3. CASE UNCHANGED sendNow /\ queue # << >> /\ LosePopped(Head(queue))
      BY <3>3, PopFailureType, HeadTailProperties
    <3> QED BY <1>31, <3>1, <3>2, <3>3 DEF PopError
  <2>2. /\ phase' = [phase EXCEPT ![t] = "terminal"]
        /\ phase[t] \in {"popMarked", "popNext"} /\ faults' = faults + 1
        /\ UNCHANGED <<reserved, pc, target, held, next, row, verdict, carried, sessVars,
                      pending, runtime, steerer, steered, sent, removed, starter,
                      cancelHist>>
    BY <1>31 DEF PopError
  <2> HIDE <1>31
  <2> QED BY <2>1, <2>2
<1>32. ASSUME NEW a \in Actors, Scaffold(a) PROVE Typed'
  BY <1>32 DEF Scaffold, Starting
<1>33. ASSUME NEW a \in Actors, StartFails(a) PROVE Typed'
  <2>1. queue' \in Seq(Msgs) /\ dropped' \subseteq Msgs /\ faults' \in Nat
    <3>1. CASE queue' = Requeued(a) /\ UNCHANGED <<faults, dropped>>
      BY <3>1, RequeuedType
    <3>2. CASE /\ held[a] # NoMsg /\ faults < MaxFaults /\ faults' = faults + 1
               /\ dropped' = dropped \cup {held[a]} /\ UNCHANGED queue
      BY <3>2
    <3> QED BY <1>33, <3>1, <3>2 DEF StartFails
  <2>2. /\ held' \in [Actors -> Msgs \cup {NoMsg}]
        /\ next' \in [Actors -> Turns \cup {NoTurn}]
        /\ starter' \in [Turns -> Actors \cup {NoTurn}]
        /\ row' \in [Turns -> RowStatus]
        /\ aimed' \subseteq Actors /\ early' \subseteq Actors
    BY <1>33 DEF StartFails
  <2>3. /\ phase' \in [Turns -> TurnPhase] /\ pc' \in [Reqs -> ReqPhase]
        /\ reserved' \in Reqs \cup {NoReq}
    BY <1>33 DEF StartFails
  <2>4. TypeOK'
    BY <1>33, <2>1, <2>2, <2>3 DEF StartFails
  <2>5. Linked'
    BY <1>33 DEF StartFails, Starting
  <2> QED BY <2>4, <2>5
<1>34. ASSUME PendingExpires PROVE Typed'
  BY <1>34 DEF PendingExpires
<1>35. ASSUME CloseIdle PROVE Typed'
  BY <1>35 DEF CloseIdle
<1>36. ASSUME Crash PROVE Typed'
  <2>1. queue' \in Seq(Msgs) /\ sendNow' \in Msgs \cup {NoMsg}
    <3>1. UNCHANGED cacheVars \/ (queue' = << >> /\ sendNow' = NoMsg)
      BY <1>36, Zenon DEF Crash
    <3>2. queue \in Seq(Msgs) /\ sendNow \in Msgs \cup {NoMsg}
      OBVIOUS
    <3>3. << >> \in Seq(Msgs)
      OBVIOUS
    <3> HIDE <1>36
    <3> QED BY <3>1, <3>2, <3>3
  <2>2. TypeOK'
    BY <2>1, <1>36, ToSetType DEF Crash
  <2>3. Linked'
    BY <1>36, ToSetType DEF Crash
  <2> QED BY <2>2, <2>3
<1>37. ASSUME NEW r \in Reqs, NEW m \in Msgs, MarkError(r, m) PROVE Typed'
  BY <1>37 DEF MarkError
<1>38. ASSUME NEW r \in Reqs, RequestPopError(r) PROVE Typed'
  <2>1. /\ queue' \in Seq(Msgs) /\ dropped' \subseteq Msgs
        /\ sendNow' \in Msgs \cup {NoMsg}
    BY <1>38, PopMarkedFailureType DEF RequestPopError
  <2>2. /\ pc' = [pc EXCEPT ![r] = "answered"] /\ faults' = faults + 1
        /\ reserved' \in {reserved, NoReq}
        /\ UNCHANGED <<target, held, next, phase, row, verdict, carried, sessVars,
                      pending, runtime, steerer, steered, sent, removed, starter,
                      cancelHist>>
    BY <1>38 DEF RequestPopError
  <2> HIDE <1>38
  <2> QED BY <2>1, <2>2
<1>39. CASE UNCHANGED vars
  BY <1>39 DEF vars, code
<1> QED
  BY <1>1, <1>2, <1>3, <1>4, <1>5, <1>6, <1>7, <1>8, <1>9, <1>10, <1>11, <1>12, <1>13,
     <1>14, <1>15, <1>16, <1>17, <1>18, <1>19, <1>20, <1>21, <1>22, <1>23, <1>24,
     <1>25, <1>26, <1>27, <1>28, <1>29, <1>30, <1>31, <1>32, <1>33, <1>34, <1>35,
     <1>36, <1>37, <1>38, <1>39 DEF Next, User, Environment, AgentStep, RequestStep, TurnStep

LEMMA TypedInit == Init => Typed
BY ChatTurnAssumption
DEF Init, Typed, TypeOK, Linked, Actors, ReqPhase, TurnPhase, RowStatus, PendingCancel,
    SessionPhase

(* The variables keep their types in every reachable state. *)
THEOREM TypeInvariant == Spec => []TypeOK
<1>1. Typed => TypeOK
  BY DEF Typed
<1> QED BY TypedInit, TypedStep, <1>1, PTL DEF Spec
-----------------------------------------------------------------------------
(* One turn at a time. *)

(* A request that prepares a turn, pops a marked message for one, or has just
   launched one holds the start slot, and until it has launched no turn lives. *)
SlotHeld == \A r \in Reqs : pc[r] \in {"starting", "idleStart", "launched"} => reserved = r
SlotAlone == \A r \in Reqs : pc[r] \in {"starting", "idleStart"} => \A t \in Turns : ~Live(t)

OneUpstream == \A t, u \in Upstream : t = u

(* Whoever prepares a turn and the turn prepared know each other. *)
StartsClaimed == \A a \in Actors : Starting(a) =>
    next[a] \in Turns /\ phase[next[a]] = "claimed" /\ starter[next[a]] = a
ClaimedStarts == \A t \in Turns : phase[t] = "claimed" =>
    starter[t] \in Actors /\ Starting(starter[t]) /\ next[starter[t]] = t

(* A session is marked as run by a turn exactly while that turn drives it, and
   the session a turn has opened or drives is the one registered. *)
RunnerDrives == \A c \in Turns : runner[c] # NoTurn =>
    phase[runner[c]] \in SessionPhase /\ using[runner[c]] = c
DriverKept == \A t \in Turns : phase[t] \in SessionPhase =>
    session = using[t] /\ runner[using[t]] = t
OpenedKept == \A t \in Turns : phase[t] = "opened" => session = using[t]

Gate == /\ SlotHeld /\ SlotAlone /\ OneUpstream /\ StartsClaimed /\ ClaimedStarts
        /\ RunnerDrives /\ DriverKept /\ OpenedKept

(* Taking a message for a successor claims a turn nobody else prepares. *)
LEMMA TakeKeepsGate ==
    ASSUME Typed, Gate, NEW t \in Turns, NEW m \in Msgs, Take(t, m),
           phase[t] \in {"popMarked", "popNext"},
           UNCHANGED <<reserved, pc, sessVars>>
    PROVE  Gate'
<1>1. PICK u \in Turns :
        /\ phase[u] = "unused"
        /\ next' = [next EXCEPT ![t] = u] /\ starter' = [starter EXCEPT ![u] = t]
        /\ phase' = [phase EXCEPT ![u] = "claimed", ![t] = "holding"]
  BY DEF Take, Claim
<1>2. u # t
  BY <1>1
<1> USE ChatTurnAssumption DEF Gate, SlotHeld, SlotAlone, OneUpstream, StartsClaimed,
         ClaimedStarts, RunnerDrives, DriverKept, OpenedKept, Starting, Live, Upstream,
         SessionPhase, Actors, TypeOK, Typed, sessVars
<1>a. SlotHeld'
  BY <1>1, <1>2
<1>b. SlotAlone'
  BY <1>1, <1>2
<1>c. OneUpstream'
  BY <1>1, <1>2
<1>d. StartsClaimed'
  BY <1>1, <1>2
<1>e. ClaimedStarts'
  BY <1>1, <1>2
<1>f. RunnerDrives'
  BY <1>1, <1>2
<1>g. DriverKept'
  BY <1>1, <1>2
<1>h. OpenedKept'
  BY <1>1, <1>2
<1> QED BY <1>a, <1>b, <1>c, <1>d, <1>e, <1>f, <1>g, <1>h

LEMMA GateStep == Typed /\ Gate /\ [Next]_vars => Gate'
<1> SUFFICES ASSUME Typed, Gate, [Next]_vars PROVE Gate'
  OBVIOUS
<1> USE ChatTurnAssumption DEF Goto, Step, Gate, SlotHeld, SlotAlone, OneUpstream,
         StartsClaimed, ClaimedStarts, RunnerDrives, DriverKept, OpenedKept, Starting,
         Live, HasActiveChat, HasPendingStart, Upstream, SessionPhase, Actors, TypeOK,
         Linked, Typed, sessVars, history, msgHist, cancelHist
<1>1. ASSUME NEW m \in Msgs, Enqueue(m) PROVE Gate'
  BY <1>1 DEF Enqueue
<1>2. ASSUME NEW m \in Msgs, DeleteQueued(m) PROVE Gate'
  BY <1>2 DEF DeleteQueued
<1>3. ASSUME ClearQueue PROVE Gate'
  BY <1>3 DEF ClearQueue
<1>4. ASSUME NEW r \in Reqs, SendMessage(r) PROVE Gate'
  BY <1>4 DEF SendMessage, Claim
<1>5. ASSUME NEW r \in Reqs, Stop(r) PROVE Gate'
  BY <1>5 DEF Stop, CancelGeneration, AfterPendingSet
<1>6. ASSUME NEW r \in Reqs, RevokeDevice(r) PROVE Gate'
  BY <1>6 DEF RevokeDevice, CancelGeneration, AfterPendingSet
<1>7. ASSUME NEW r \in Reqs, CaptureRuntime(r) PROVE Gate'
  BY <1>7 DEF CaptureRuntime
<1>8. ASSUME NEW r \in Reqs, AcquireSteering(r) PROVE Gate'
  BY <1>8 DEF AcquireSteering
<1>9. ASSUME NEW r \in Reqs, CancelForSendNow(r) PROVE Gate'
  BY <1>9 DEF CancelForSendNow, CancelGeneration, AfterPendingSet, NotSteered
<1>10. ASSUME NEW r \in Reqs, IdleSendNow(r) PROVE Gate'
  BY <1>10 DEF IdleSendNow, NotSteered
<1>11. ASSUME NEW r \in Reqs, PopIdle(r) PROVE Gate'
  BY <1>11, SMTT(90) DEF PopIdle, Claim
<1>12. ASSUME NEW r \in Reqs, CancelSent(r) PROVE Gate'
  BY <1>12 DEF CancelSent
<1>13. ASSUME NEW r \in Reqs, Launch(r) PROVE Gate'
  BY <1>13 DEF Launch
<1>14. ASSUME NEW r \in Reqs, Release(r) PROVE Gate'
  BY <1>14 DEF Release
<1>15. ASSUME NEW r \in Reqs, SteeringAnswered(r) PROVE Gate'
  BY <1>15 DEF SteeringAnswered
<1>16. ASSUME NEW r \in Reqs, NEW m \in Msgs, MarkSendNow(r, m) PROVE Gate'
  BY <1>16 DEF MarkSendNow
<1>17. ASSUME NEW t \in Turns, Register(t) PROVE Gate'
  BY <1>17 DEF Register
<1>18. ASSUME NEW t \in Turns, Open(t) PROVE Gate'
  BY <1>18, SMTT(40) DEF Open
<1>19. ASSUME NEW t \in Turns, Bind(t) PROVE Gate'
  BY <1>19 DEF Bind
<1>20. ASSUME NEW t \in Turns, Accept(t) PROVE Gate'
  BY <1>20 DEF Accept, EventSet
<1>21. ASSUME NEW t \in Turns, StreamEnds(t) PROVE Gate'
  BY <1>21, SMTT(30) DEF StreamEnds, LeaveSession
<1>22. ASSUME NEW t \in Turns, StreamCancelled(t) PROVE Gate'
  BY <1>22 DEF StreamCancelled
<1>23. ASSUME NEW t \in Turns, SaveFinal(t) PROVE Gate'
  BY <1>23 DEF SaveFinal
<1>24. ASSUME NEW t \in Turns, PopSendNow(t) PROVE Gate'
  <2>1. CASE SendNowTarget # NoMsg
    <3>1. SendNowTarget \in Msgs
      BY <2>1, SendNowTargetType
    <3>2. /\ Take(t, SendNowTarget) /\ phase[t] \in {"popMarked", "popNext"}
          /\ UNCHANGED <<reserved, pc, sessVars>>
      BY <1>24, <2>1 DEF PopSendNow
    <3> QED BY <3>1, <3>2, TakeKeepsGate
  <2>2. CASE SendNowTarget = NoMsg
    BY <1>24, <2>2 DEF PopSendNow
  <2> QED BY <2>1, <2>2
<1>25. ASSUME NEW t \in Turns, PopNext(t) PROVE Gate'
  <2>1. CASE queue # << >>
    <3>1. Head(queue) \in Msgs
      BY <2>1, HeadTailProperties
    <3> QED BY <1>25, <2>1, <3>1, TakeKeepsGate DEF PopNext
  <2>2. CASE queue = << >>
    BY <1>25, <2>2 DEF PopNext
  <2> QED BY <2>1, <2>2
<1>26. ASSUME NEW t \in Turns, HandOff(t) PROVE Gate'
  <2> DEFINE u == next[t]
  <2>1. /\ phase[t] = "holding" /\ u \in Turns /\ phase[u] = "claimed" /\ starter[u] = t
        /\ u # t
    BY <1>26 DEF HandOff
  <2>2. /\ phase' = [phase EXCEPT ![u] = "created", ![t] = "unwinding"]
        /\ next' = [next EXCEPT ![t] = NoTurn]
        /\ runner' = [runner EXCEPT ![using[t]] = NoTurn]
        /\ UNCHANGED <<reserved, pc, starter, using, session>>
    BY <1>26, <2>1 DEF HandOff, LeaveSession
  <2>3. \A w \in Upstream : w = t
    BY <2>1
  <2>4. \A r \in Reqs : pc[r] \notin {"starting", "idleStart"}
    BY <2>1
  <2>5. using[t] \in Turns /\ session = using[t] /\ runner[using[t]] = t
    BY <2>1
  <2> HIDE <1>26 DEF u
  <2>a. SlotHeld'
    BY <2>1, <2>2, <2>3, <2>4, <2>5
  <2>b. SlotAlone'
    BY <2>1, <2>2, <2>3, <2>4, <2>5
  <2>c. OneUpstream'
    BY <2>1, <2>2, <2>3, <2>4, <2>5
  <2>d. StartsClaimed'
    BY <2>1, <2>2, <2>3, <2>4, <2>5
  <2>e. ClaimedStarts'
    BY <2>1, <2>2, <2>3, <2>4, <2>5
  <2>f. RunnerDrives'
    BY <2>1, <2>2, <2>3, <2>4, <2>5
  <2>g. DriverKept'
    BY <2>1, <2>2, <2>3, <2>4, <2>5
  <2>h. OpenedKept'
    BY <2>1, <2>2, <2>3, <2>4, <2>5
  <2> QED BY <2>a, <2>b, <2>c, <2>d, <2>e, <2>f, <2>g, <2>h
<1>27. ASSUME NEW t \in Turns, EmitTerminal(t) PROVE Gate'
  BY <1>27, SMTT(30) DEF EmitTerminal, LeaveSession
<1>28. ASSUME NEW t \in Turns, FinalizeDead(t) PROVE Gate'
  BY <1>28 DEF FinalizeDead
<1>29. ASSUME NEW t \in Turns, Finish(t) PROVE Gate'
  BY <1>29 DEF Finish
<1>30. ASSUME NEW t \in Turns, Fail(t) PROVE Gate'
  BY <1>30, SMTT(40) DEF Fail, LeaveSession
<1>31. ASSUME NEW t \in Turns, PopError(t) PROVE Gate'
  BY <1>31 DEF PopError
<1>32. ASSUME NEW a \in Actors, Scaffold(a) PROVE Gate'
  BY <1>32 DEF Scaffold
<1>33. ASSUME NEW a \in Actors, StartFails(a) PROVE Gate'
  <2> DEFINE u == next[a]
  <2>1. u \in Turns /\ phase[u] = "claimed" /\ starter[u] = a /\ Starting(a)
    BY <1>33 DEF StartFails
  <2>2. CASE a \in Reqs
    <3>1. /\ phase' = [phase EXCEPT ![u] = "unused"]
          /\ next' = [next EXCEPT ![a] = NoTurn] /\ starter' = [starter EXCEPT ![u] = NoTurn]
          /\ pc' = [pc EXCEPT ![a] = "answered"] /\ reserved' = NoReq
          /\ pc[a] = "starting" /\ UNCHANGED <<using, session, runner>>
      BY <1>33, <2>1, <2>2 DEF StartFails
    <3> HIDE <1>33 DEF u
    <3>a. SlotHeld'
      BY <2>1, <2>2, <3>1
    <3>b. SlotAlone'
      BY <2>1, <2>2, <3>1
    <3>c. OneUpstream'
      BY <2>1, <2>2, <3>1
    <3>d. StartsClaimed'
      BY <2>1, <2>2, <3>1
    <3>e. ClaimedStarts'
      BY <2>1, <2>2, <3>1
    <3>f. RunnerDrives'
      BY <2>1, <2>2, <3>1
    <3>g. DriverKept'
      BY <2>1, <2>2, <3>1
    <3>h. OpenedKept'
      BY <2>1, <2>2, <3>1
    <3> QED BY <3>a, <3>b, <3>c, <3>d, <3>e, <3>f, <3>g, <3>h
  <2>3. CASE a \in Turns
    <3>1. /\ phase' = [phase EXCEPT ![u] = "unused", ![a] = "terminal"]
          /\ next' = [next EXCEPT ![a] = NoTurn] /\ starter' = [starter EXCEPT ![u] = NoTurn]
          /\ phase[a] = "holding" /\ a # u
          /\ UNCHANGED <<pc, reserved, using, session, runner>>
      BY <1>33, <2>1, <2>3 DEF StartFails
    <3> HIDE <1>33 DEF u
    <3>a. SlotHeld'
      BY <2>1, <2>3, <3>1
    <3>b. SlotAlone'
      BY <2>1, <2>3, <3>1
    <3>c. OneUpstream'
      BY <2>1, <2>3, <3>1
    <3>d. StartsClaimed'
      BY <2>1, <2>3, <3>1
    <3>e. ClaimedStarts'
      BY <2>1, <2>3, <3>1
    <3>f. RunnerDrives'
      BY <2>1, <2>3, <3>1
    <3>g. DriverKept'
      BY <2>1, <2>3, <3>1
    <3>h. OpenedKept'
      BY <2>1, <2>3, <3>1
    <3> QED BY <3>a, <3>b, <3>c, <3>d, <3>e, <3>f, <3>g, <3>h
  <2> QED BY <2>2, <2>3
<1>34. ASSUME PendingExpires PROVE Gate'
  BY <1>34 DEF PendingExpires
<1>35. ASSUME CloseIdle PROVE Gate'
  BY <1>35 DEF CloseIdle, SessionIdle
<1>36. ASSUME Crash PROVE Gate'
  BY <1>36 DEF Crash
<1>37. ASSUME NEW r \in Reqs, NEW m \in Msgs, MarkError(r, m) PROVE Gate'
  BY <1>37 DEF MarkError
<1>38. ASSUME NEW r \in Reqs, RequestPopError(r) PROVE Gate'
  BY <1>38 DEF RequestPopError
<1>39. CASE UNCHANGED vars
  BY <1>39 DEF vars, code
<1> QED
  BY <1>1, <1>2, <1>3, <1>4, <1>5, <1>6, <1>7, <1>8, <1>9, <1>10, <1>11, <1>12, <1>13,
     <1>14, <1>15, <1>16, <1>17, <1>18, <1>19, <1>20, <1>21, <1>22, <1>23, <1>24,
     <1>25, <1>26, <1>27, <1>28, <1>29, <1>30, <1>31, <1>32, <1>33, <1>34, <1>35,
     <1>36, <1>37, <1>38, <1>39 DEF Next, User, Environment, AgentStep, RequestStep, TurnStep

LEMMA GateInit == Init => Gate
BY ChatTurnAssumption
DEF Init, Gate, SlotHeld, SlotAlone, OneUpstream, StartsClaimed, ClaimedStarts,
    RunnerDrives, DriverKept, OpenedKept, Starting, Upstream, SessionPhase, Actors

LEMMA GateInvariant == Spec => [](Typed /\ Gate)
BY TypedInit, TypedStep, GateInit, GateStep, PTL DEF Spec

(* One turn per chat, whoever starts it: runtime.py's gate is a mutual exclusion
   on the agent's session, hand-overs included. *)
THEOREM TurnsExclude == Spec => []OneTurnPerChat
<1>1. Typed /\ Gate => OneTurnPerChat
  <2> SUFFICES ASSUME Typed, Gate, NEW t \in Turns, phase[t] = "claimed"
               PROVE  \/ Upstream = {starter[t]}
                      \/ reserved = starter[t] /\ Upstream = {}
    BY DEF OneTurnPerChat, Gate, OneUpstream
  <2> DEFINE a == starter[t]
  <2>1. a \in Actors /\ Starting(a)
    BY DEF Gate, ClaimedStarts
  <2>2. CASE a \in Reqs /\ pc[a] = "starting"
    <3>1. reserved = a /\ \A u \in Turns : ~Live(u)
      BY <2>2 DEF Gate, SlotHeld, SlotAlone
    <3>2. Upstream = {}
      BY <3>1 DEF Live, Upstream, SessionPhase
    <3> QED BY <3>1, <3>2
  <2>3. CASE a \in Turns /\ phase[a] = "holding"
    <3>1. a \in Upstream
      BY <2>3 DEF Upstream, SessionPhase
    <3> QED BY <3>1 DEF Gate, OneUpstream
  <2> QED BY <2>1, <2>2, <2>3 DEF Starting
<1> QED BY GateInvariant, <1>1, PTL

(* While the start slot is held for a turn not launched yet, no turn lives. *)
THEOREM SlotIsExclusive == Spec => []SlotExcludesTurns
<1>1. Gate => SlotExcludesTurns
  BY DEF Gate, SlotHeld, SlotAlone, SlotExcludesTurns, HasActiveChat
<1> QED BY GateInvariant, <1>1, PTL

(* Neither the idle reaper nor a respawn takes the session from the turn that
   drives it. *)
THEOREM SessionKept == Spec => []SessionNotStolen
<1>1. Typed /\ Gate => SessionNotStolen
  BY DEF Typed, Linked, Gate, DriverKept, SessionNotStolen, Driving
<1> QED BY GateInvariant, <1>1, PTL

-----------------------------------------------------------------------------
(* Rows. *)

(* A row is in progress only behind a turn that is prepared, runs, or is about
   to be finalized: the others have settled theirs. *)
RowPhase == {"claimed", "created", "booting", "opened", "bound", "streaming",
             "drained", "finalizing"}
RowsBehind == \A t \in Turns : row[t] = "inProgress" => phase[t] \in RowPhase

LEMMA RowsBehindStep == Typed /\ Gate /\ RowsBehind /\ [Next]_vars => RowsBehind'
<1> SUFFICES ASSUME Typed, Gate, RowsBehind, [Next]_vars PROVE RowsBehind'
  OBVIOUS
<1> USE ChatTurnAssumption DEF Goto, Step, RowsBehind, RowPhase, Gate, StartsClaimed,
         Starting, RunnerDrives, OneUpstream, Upstream, Actors, TypeOK, Typed,
         SessionPhase, sessVars
<1>1. ASSUME NEW m \in Msgs, Enqueue(m) PROVE RowsBehind'
  BY <1>1 DEF Enqueue
<1>2. ASSUME NEW m \in Msgs, DeleteQueued(m) PROVE RowsBehind'
  BY <1>2 DEF DeleteQueued
<1>3. ASSUME ClearQueue PROVE RowsBehind'
  BY <1>3 DEF ClearQueue
<1>4. ASSUME NEW r \in Reqs, SendMessage(r) PROVE RowsBehind'
  BY <1>4 DEF SendMessage, Claim
<1>5. ASSUME NEW r \in Reqs, Stop(r) PROVE RowsBehind'
  BY <1>5 DEF Stop, CancelGeneration, AfterPendingSet, AboutToPop
<1>6. ASSUME NEW r \in Reqs, RevokeDevice(r) PROVE RowsBehind'
  BY <1>6 DEF RevokeDevice, CancelGeneration, AfterPendingSet, AboutToPop
<1>7. ASSUME NEW r \in Reqs, CaptureRuntime(r) PROVE RowsBehind'
  BY <1>7 DEF CaptureRuntime
<1>8. ASSUME NEW r \in Reqs, AcquireSteering(r) PROVE RowsBehind'
  BY <1>8 DEF AcquireSteering
<1>9. ASSUME NEW r \in Reqs, CancelForSendNow(r) PROVE RowsBehind'
  BY <1>9 DEF CancelForSendNow, CancelGeneration, AfterPendingSet, AboutToPop, NotSteered
<1>10. ASSUME NEW r \in Reqs, IdleSendNow(r) PROVE RowsBehind'
  BY <1>10 DEF IdleSendNow, NotSteered
<1>11. ASSUME NEW r \in Reqs, PopIdle(r) PROVE RowsBehind'
  BY <1>11 DEF PopIdle, Claim
<1>12. ASSUME NEW r \in Reqs, CancelSent(r) PROVE RowsBehind'
  BY <1>12 DEF CancelSent
<1>13. ASSUME NEW r \in Reqs, Launch(r) PROVE RowsBehind'
  BY <1>13 DEF Launch
<1>14. ASSUME NEW r \in Reqs, Release(r) PROVE RowsBehind'
  BY <1>14 DEF Release
<1>15. ASSUME NEW r \in Reqs, SteeringAnswered(r) PROVE RowsBehind'
  BY <1>15 DEF SteeringAnswered
<1>16. ASSUME NEW r \in Reqs, NEW m \in Msgs, MarkSendNow(r, m) PROVE RowsBehind'
  BY <1>16 DEF MarkSendNow
<1>17. ASSUME NEW t \in Turns, Register(t) PROVE RowsBehind'
  BY <1>17 DEF Register
<1>18. ASSUME NEW t \in Turns, Open(t) PROVE RowsBehind'
  BY <1>18 DEF Open
<1>19. ASSUME NEW t \in Turns, Bind(t) PROVE RowsBehind'
  BY <1>19 DEF Bind
<1>20. ASSUME NEW t \in Turns, Accept(t) PROVE RowsBehind'
  BY <1>20 DEF Accept, EventSet
<1>21. ASSUME NEW t \in Turns, StreamEnds(t) PROVE RowsBehind'
  BY <1>21 DEF StreamEnds, LeaveSession
<1>22. ASSUME NEW t \in Turns, StreamCancelled(t) PROVE RowsBehind'
  BY <1>22 DEF StreamCancelled
<1>23. ASSUME NEW t \in Turns, SaveFinal(t) PROVE RowsBehind'
  BY <1>23 DEF SaveFinal
<1>24. ASSUME NEW t \in Turns, PopSendNow(t) PROVE RowsBehind'
  BY <1>24 DEF PopSendNow, Take, Claim
<1>25. ASSUME NEW t \in Turns, PopNext(t) PROVE RowsBehind'
  BY <1>25 DEF PopNext, Take, Claim
<1>26. ASSUME NEW t \in Turns, HandOff(t) PROVE RowsBehind'
  BY <1>26 DEF HandOff, LeaveSession
<1>27. ASSUME NEW t \in Turns, EmitTerminal(t) PROVE RowsBehind'
  BY <1>27 DEF EmitTerminal, LeaveSession
<1>28. ASSUME NEW t \in Turns, FinalizeDead(t) PROVE RowsBehind'
  <2>1. verdict[t] # "inProgress"
    OBVIOUS
  <2>2. CASE row[t] = "inProgress"
    BY <1>28, <2>1, <2>2 DEF FinalizeDead, FinalRow
  <2>3. CASE row[t] # "inProgress"
    BY <1>28, <2>3 DEF FinalizeDead, FinalRow
  <2> QED BY <2>2, <2>3
<1>29. ASSUME NEW t \in Turns, Finish(t) PROVE RowsBehind'
  BY <1>29 DEF Finish
<1>30. ASSUME NEW t \in Turns, Fail(t) PROVE RowsBehind'
  BY <1>30 DEF Fail, LeaveSession
<1>31. ASSUME NEW t \in Turns, PopError(t) PROVE RowsBehind'
  BY <1>31 DEF PopError
<1>32. ASSUME NEW a \in Actors, Scaffold(a) PROVE RowsBehind'
  BY <1>32 DEF Scaffold
<1>33. ASSUME NEW a \in Actors, StartFails(a) PROVE RowsBehind'
  BY <1>33 DEF StartFails
<1>34. ASSUME PendingExpires PROVE RowsBehind'
  BY <1>34 DEF PendingExpires
<1>35. ASSUME CloseIdle PROVE RowsBehind'
  BY <1>35 DEF CloseIdle
<1>36. ASSUME Crash PROVE RowsBehind'
  BY <1>36 DEF Crash
<1>37. ASSUME NEW r \in Reqs, NEW m \in Msgs, MarkError(r, m) PROVE RowsBehind'
  BY <1>37 DEF MarkError
<1>38. ASSUME NEW r \in Reqs, RequestPopError(r) PROVE RowsBehind'
  BY <1>38 DEF RequestPopError
<1>39. CASE UNCHANGED vars
  BY <1>39 DEF vars, code
<1> QED
  BY <1>1, <1>2, <1>3, <1>4, <1>5, <1>6, <1>7, <1>8, <1>9, <1>10, <1>11, <1>12, <1>13,
     <1>14, <1>15, <1>16, <1>17, <1>18, <1>19, <1>20, <1>21, <1>22, <1>23, <1>24,
     <1>25, <1>26, <1>27, <1>28, <1>29, <1>30, <1>31, <1>32, <1>33, <1>34, <1>35,
     <1>36, <1>37, <1>38, <1>39 DEF Next, User, Environment, AgentStep, RequestStep, TurnStep

LEMMA RowsBehindInit == Init => RowsBehind
BY DEF Init, RowsBehind

(* No row is left in progress for ever: behind each stands the turn that will
   settle it, or the start that will launch or discard it. *)
THEOREM RowsAreSettled == Spec => []RowsSettled
<1>1. Typed /\ Gate /\ RowsBehind => RowsSettled
  BY DEF Gate, ClaimedStarts, RowsBehind, RowPhase, RowsSettled, Live, Actors
<1> QED BY GateInvariant, RowsBehindInit, RowsBehindStep, <1>1, PTL DEF Spec

-----------------------------------------------------------------------------
(* Steering. *)

(* A request that has the answer of the agent to wait for holds the lock, the
   turn it steers is still streaming, and the lock is never left behind. *)
Steering ==
    /\ \A r \in Reqs : pc[r] = "steering" => steerer = r /\ phase[target[r]] = "streaming"
    /\ steerer # NoReq => pc[steerer] = "steering"

LEMMA SteeringStep == Typed /\ Gate /\ Steering /\ [Next]_vars => Steering'
<1> SUFFICES ASSUME Typed, Gate, Steering, [Next]_vars PROVE Steering'
  OBVIOUS
<1> USE ChatTurnAssumption DEF Goto, Step, Steering, Gate, StartsClaimed,
         Starting, RunnerDrives, OneUpstream, Upstream, Actors, TypeOK, Typed, Linked,
         SessionPhase, sessVars
<1>1. ASSUME NEW m \in Msgs, Enqueue(m) PROVE Steering'
  BY <1>1 DEF Enqueue
<1>2. ASSUME NEW m \in Msgs, DeleteQueued(m) PROVE Steering'
  BY <1>2 DEF DeleteQueued
<1>3. ASSUME ClearQueue PROVE Steering'
  BY <1>3 DEF ClearQueue
<1>4. ASSUME NEW r \in Reqs, SendMessage(r) PROVE Steering'
  BY <1>4 DEF SendMessage, Claim
<1>5. ASSUME NEW r \in Reqs, Stop(r) PROVE Steering'
  BY <1>5 DEF Stop, CancelGeneration, AfterPendingSet, AboutToPop
<1>6. ASSUME NEW r \in Reqs, RevokeDevice(r) PROVE Steering'
  BY <1>6 DEF RevokeDevice, CancelGeneration, AfterPendingSet, AboutToPop
<1>7. ASSUME NEW r \in Reqs, CaptureRuntime(r) PROVE Steering'
  BY <1>7 DEF CaptureRuntime
<1>8. ASSUME NEW r \in Reqs, AcquireSteering(r) PROVE Steering'
  BY <1>8 DEF AcquireSteering, Steerable
<1>9. ASSUME NEW r \in Reqs, CancelForSendNow(r) PROVE Steering'
  BY <1>9 DEF CancelForSendNow, CancelGeneration, AfterPendingSet, AboutToPop, NotSteered
<1>10. ASSUME NEW r \in Reqs, IdleSendNow(r) PROVE Steering'
  BY <1>10 DEF IdleSendNow, NotSteered
<1>11. ASSUME NEW r \in Reqs, PopIdle(r) PROVE Steering'
  BY <1>11 DEF PopIdle, Claim
<1>12. ASSUME NEW r \in Reqs, CancelSent(r) PROVE Steering'
  BY <1>12 DEF CancelSent
<1>13. ASSUME NEW r \in Reqs, Launch(r) PROVE Steering'
  BY <1>13 DEF Launch
<1>14. ASSUME NEW r \in Reqs, Release(r) PROVE Steering'
  BY <1>14 DEF Release
<1>15. ASSUME NEW r \in Reqs, SteeringAnswered(r) PROVE Steering'
  BY <1>15 DEF SteeringAnswered
<1>16. ASSUME NEW r \in Reqs, NEW m \in Msgs, MarkSendNow(r, m) PROVE Steering'
  BY <1>16 DEF MarkSendNow
<1>17. ASSUME NEW t \in Turns, Register(t) PROVE Steering'
  BY <1>17 DEF Register
<1>18. ASSUME NEW t \in Turns, Open(t) PROVE Steering'
  BY <1>18 DEF Open
<1>19. ASSUME NEW t \in Turns, Bind(t) PROVE Steering'
  BY <1>19 DEF Bind
<1>20. ASSUME NEW t \in Turns, Accept(t) PROVE Steering'
  BY <1>20 DEF Accept, EventSet
<1>21. ASSUME NEW t \in Turns, StreamEnds(t) PROVE Steering'
  BY <1>21 DEF StreamEnds, LeaveSession
<1>22. ASSUME NEW t \in Turns, StreamCancelled(t) PROVE Steering'
  BY <1>22 DEF StreamCancelled
<1>23. ASSUME NEW t \in Turns, SaveFinal(t) PROVE Steering'
  BY <1>23 DEF SaveFinal
<1>24. ASSUME NEW t \in Turns, PopSendNow(t) PROVE Steering'
  BY <1>24 DEF PopSendNow, Take, Claim
<1>25. ASSUME NEW t \in Turns, PopNext(t) PROVE Steering'
  BY <1>25 DEF PopNext, Take, Claim
<1>26. ASSUME NEW t \in Turns, HandOff(t) PROVE Steering'
  BY <1>26 DEF HandOff, LeaveSession
<1>27. ASSUME NEW t \in Turns, EmitTerminal(t) PROVE Steering'
  BY <1>27 DEF EmitTerminal, LeaveSession
<1>28. ASSUME NEW t \in Turns, FinalizeDead(t) PROVE Steering'
  BY <1>28 DEF FinalizeDead, FinalRow
<1>29. ASSUME NEW t \in Turns, Finish(t) PROVE Steering'
  BY <1>29 DEF Finish
<1>30. ASSUME NEW t \in Turns, Fail(t) PROVE Steering'
  BY <1>30 DEF Fail, LeaveSession
<1>31. ASSUME NEW t \in Turns, PopError(t) PROVE Steering'
  BY <1>31 DEF PopError
<1>32. ASSUME NEW a \in Actors, Scaffold(a) PROVE Steering'
  BY <1>32 DEF Scaffold
<1>33. ASSUME NEW a \in Actors, StartFails(a) PROVE Steering'
  BY <1>33 DEF StartFails
<1>34. ASSUME PendingExpires PROVE Steering'
  BY <1>34 DEF PendingExpires
<1>35. ASSUME CloseIdle PROVE Steering'
  BY <1>35 DEF CloseIdle
<1>36. ASSUME Crash PROVE Steering'
  BY <1>36 DEF Crash
<1>37. ASSUME NEW r \in Reqs, NEW m \in Msgs, MarkError(r, m) PROVE Steering'
  BY <1>37 DEF MarkError
<1>38. ASSUME NEW r \in Reqs, RequestPopError(r) PROVE Steering'
  BY <1>38 DEF RequestPopError
<1>39. CASE UNCHANGED vars
  BY <1>39 DEF vars, code
<1> QED
  BY <1>1, <1>2, <1>3, <1>4, <1>5, <1>6, <1>7, <1>8, <1>9, <1>10, <1>11, <1>12, <1>13,
     <1>14, <1>15, <1>16, <1>17, <1>18, <1>19, <1>20, <1>21, <1>22, <1>23, <1>24,
     <1>25, <1>26, <1>27, <1>28, <1>29, <1>30, <1>31, <1>32, <1>33, <1>34, <1>35,
     <1>36, <1>37, <1>38, <1>39 DEF Next, User, Environment, AgentStep, RequestStep, TurnStep

LEMMA SteeringInit == Init => Steering
BY DEF Init, Steering

(* At most one steering request has a message in its hands, and the turn it
   steers has not ended its stream. *)
THEOREM SteersAlone == Spec => []SteeringExclusive
<1>1. Typed /\ Steering => SteeringExclusive
  BY ChatTurnAssumption DEF Typed, TypeOK, Linked, Steering, SteeringExclusive
<1> QED BY GateInvariant, SteeringInit, SteeringStep, <1>1, PTL DEF Spec

-----------------------------------------------------------------------------
(* Cancelling before the prompt. *)

(* A request has started a turn only once it holds the slot, and a cancel has
   aimed only at requests that hold it and at turns that exist. *)
StarterPast ==
    /\ \A t \in Turns : starter[t] \in Reqs =>
           pc[starter[t]] \in {"starting", "launched", "answered"}
    /\ \A a \in early :
         /\ a \in Reqs => pc[a] \in {"idleStart", "starting", "launched", "answered"}
         /\ a \in Turns => phase[a] # "unused"

(* Until the turn of a request has bound its session, no other turn lives: none
   can take the pending cancel, or leave it to the next one. *)
Booting == {"created", "booting", "opened"}
BootsAlone == \A t, u \in Turns :
    starter[t] \in Reqs /\ phase[t] \in Booting /\ Live(u) => u = t

(* A cancel that aimed at the turn of a request is pending until the turn binds,
   then set in its session's event, and the turn never streams. *)
Aimed(t) == starter[t] \in Reqs /\ {t, starter[t]} \cap early # {}
CancelArrives ==
    /\ \A t \in Turns : Aimed(t) =>
         /\ phase[t] \in {"claimed"} \cup Booting => PendingCounts
         /\ phase[t] = "bound" => EventSet(t)
         /\ phase[t] # "streaming"
    /\ \A r \in Reqs : pc[r] = "idleStart" /\ r \in early => PendingCounts

Honoured == StarterPast /\ BootsAlone /\ CancelArrives

LEMMA HonouredStep == Typed /\ Gate /\ Honoured /\ [Next]_vars => Honoured'
<1> SUFFICES ASSUME Typed, Gate, Honoured, [Next]_vars PROVE Honoured'
  OBVIOUS
<1> USE ChatTurnAssumption, NobodyIsNoRequest DEF Goto, Step, Honoured, StarterPast, BootsAlone, Booting, Aimed,
         CancelArrives, PendingCounts, EventSet, Live, Gate, SlotAlone, SlotHeld, StartsClaimed, ClaimedStarts, OpenedKept, DriverKept,
         Starting, RunnerDrives, OneUpstream, Upstream, Actors, TypeOK, Typed, Linked,
         SessionPhase, sessVars, history, cancelHist, HasActiveChat, HasPendingStart
<1>1. ASSUME NEW m \in Msgs, Enqueue(m) PROVE Honoured'
  BY <1>1 DEF Enqueue
<1>2. ASSUME NEW m \in Msgs, DeleteQueued(m) PROVE Honoured'
  BY <1>2 DEF DeleteQueued
<1>3. ASSUME ClearQueue PROVE Honoured'
  BY <1>3 DEF ClearQueue
<1>4. ASSUME NEW r \in Reqs, SendMessage(r) PROVE Honoured'
  BY <1>4 DEF SendMessage, Claim
<1>5. ASSUME NEW r \in Reqs, Stop(r) PROVE Honoured'
  BY <1>5 DEF Stop, CancelGeneration, AfterPendingSet, AboutToPop
<1>6. ASSUME NEW r \in Reqs, RevokeDevice(r) PROVE Honoured'
  BY <1>6 DEF RevokeDevice, CancelGeneration, AfterPendingSet, AboutToPop
<1>7. ASSUME NEW r \in Reqs, CaptureRuntime(r) PROVE Honoured'
  BY <1>7 DEF CaptureRuntime
<1>8. ASSUME NEW r \in Reqs, AcquireSteering(r) PROVE Honoured'
  <2>1. /\ pc[r] = "locking"
        /\ \E p \in {"check", "steering"} : pc' = [pc EXCEPT ![r] = p]
        /\ UNCHANGED <<phase, using, cancelled, pending, starter, early>>
    BY <1>8 DEF AcquireSteering
  <2> HIDE <1>8
  <2>a. StarterPast'
    BY <2>1
  <2>b. BootsAlone'
    BY <2>1
  <2>c. CancelArrives'
    BY <2>1
  <2> QED BY <2>a, <2>b, <2>c
<1>9. ASSUME NEW r \in Reqs, CancelForSendNow(r) PROVE Honoured'
  BY <1>9 DEF CancelForSendNow, CancelGeneration, AfterPendingSet, AboutToPop, NotSteered
<1>10. ASSUME NEW r \in Reqs, IdleSendNow(r) PROVE Honoured'
  BY <1>10 DEF IdleSendNow, NotSteered
<1>11. ASSUME NEW r \in Reqs, PopIdle(r) PROVE Honoured'
  <2>1. CASE SendNowTarget = NoMsg
    <3>1. /\ pc[r] = "idleStart" /\ pc' = [pc EXCEPT ![r] = "answered"]
          /\ UNCHANGED <<phase, using, cancelled, pending, starter, early>>
      BY <1>11, <2>1 DEF PopIdle
    <3> HIDE <1>11
    <3> QED BY <3>1
  <2>2. CASE SendNowTarget # NoMsg
    <3>1. PICK t \in Turns :
            /\ pc[r] = "idleStart" /\ phase[t] = "unused"
            /\ starter' = [starter EXCEPT ![t] = r]
            /\ phase' = [phase EXCEPT ![t] = "claimed"]
            /\ pc' = [pc EXCEPT ![r] = "starting"]
            /\ UNCHANGED <<using, cancelled, pending, early>>
      BY <1>11, <2>2 DEF PopIdle, Claim
    <3> HIDE <1>11
    <3>a. StarterPast'
      BY <3>1
    <3>b. BootsAlone'
      BY <3>1
    <3>c. CancelArrives'
      BY <3>1
    <3> QED BY <3>a, <3>b, <3>c
  <2> QED BY <2>1, <2>2
<1>12. ASSUME NEW r \in Reqs, CancelSent(r) PROVE Honoured'
  BY <1>12 DEF CancelSent
<1>13. ASSUME NEW r \in Reqs, Launch(r) PROVE Honoured'
  <2>1. /\ pc[r] = "starting" /\ next[r] \in Turns
        /\ phase[next[r]] = "claimed" /\ starter[next[r]] = r
        /\ phase' = [phase EXCEPT ![next[r]] = "created"]
        /\ \E p \in {"launched", "answered"} : pc' = [pc EXCEPT ![r] = p]
        /\ UNCHANGED <<using, cancelled, pending, starter, early>>
    BY <1>13 DEF Launch
  <2> HIDE <1>13
  <2>a. StarterPast'
    BY <2>1
  <2>b. BootsAlone'
    BY <2>1
  <2>c. CancelArrives'
    BY <2>1
  <2> QED BY <2>a, <2>b, <2>c
<1>14. ASSUME NEW r \in Reqs, Release(r) PROVE Honoured'
  BY <1>14 DEF Release
<1>15. ASSUME NEW r \in Reqs, SteeringAnswered(r) PROVE Honoured'
  <2>1. /\ pc[r] = "steering"
        /\ \E p \in {"check", "answered"} : pc' = [pc EXCEPT ![r] = p]
        /\ UNCHANGED <<phase, using, cancelled, pending, starter, early>>
    BY <1>15 DEF SteeringAnswered
  <2> HIDE <1>15
  <2>a. StarterPast'
    BY <2>1
  <2>b. BootsAlone'
    BY <2>1
  <2>c. CancelArrives'
    BY <2>1
  <2> QED BY <2>a, <2>b, <2>c
<1>16. ASSUME NEW r \in Reqs, NEW m \in Msgs, MarkSendNow(r, m) PROVE Honoured'
  BY <1>16 DEF MarkSendNow
<1>17. ASSUME NEW t \in Turns, Register(t) PROVE Honoured'
  BY <1>17 DEF Register
<1>18. ASSUME NEW t \in Turns, Open(t) PROVE Honoured'
  <2>1. /\ phase[t] = "booting" /\ (session # NoTurn => runner[session] = NoTurn)
        /\ phase' = [phase EXCEPT ![t] = "opened"]
        /\ using' = [using EXCEPT ![t] = session'] /\ session' \in Turns
        /\ UNCHANGED <<pc, cancelled, pending, starter, early>>
    BY <1>18 DEF Open
  <2> HIDE <1>18
  <2>a. StarterPast'
    BY <2>1
  <2>b. BootsAlone'
    BY <2>1
  <2>c. CancelArrives'
    BY <2>1
  <2> QED BY <2>a, <2>b, <2>c
<1>19. ASSUME NEW t \in Turns, Bind(t) PROVE Honoured'
  BY <1>19 DEF Bind
<1>20. ASSUME NEW t \in Turns, Accept(t) PROVE Honoured'
  BY <1>20 DEF Accept, EventSet
<1>21. ASSUME NEW t \in Turns, StreamEnds(t) PROVE Honoured'
  <2>a. StarterPast'
    BY <1>21 DEF StreamEnds, LeaveSession
  <2>b. BootsAlone'
    BY <1>21 DEF StreamEnds, LeaveSession
  <2>c. CancelArrives'
    BY <1>21 DEF StreamEnds, LeaveSession
  <2> QED BY <2>a, <2>b, <2>c
<1>22. ASSUME NEW t \in Turns, StreamCancelled(t) PROVE Honoured'
  BY <1>22 DEF StreamCancelled
<1>23. ASSUME NEW t \in Turns, SaveFinal(t) PROVE Honoured'
  BY <1>23 DEF SaveFinal
<1>24. ASSUME NEW t \in Turns, PopSendNow(t) PROVE Honoured'
  <2>1. CASE ~(SendNowTarget # NoMsg)
    BY <1>24, <2>1 DEF PopSendNow
  <2>2. CASE SendNowTarget # NoMsg
    <3>1. PICK u \in Turns :
            /\ phase[t] = "popMarked" /\ phase[u] = "unused"
            /\ starter' = [starter EXCEPT ![u] = t]
            /\ phase' = [phase EXCEPT ![u] = "claimed", ![t] = "holding"]
            /\ UNCHANGED <<pc, using, cancelled, pending, early>>
      BY <1>24, <2>2 DEF PopSendNow, Take, Claim
    <3> HIDE <1>24
    <3>a. StarterPast'
      BY <3>1
    <3>b. BootsAlone'
      BY <3>1
    <3>c. CancelArrives'
      BY <3>1
    <3> QED BY <3>a, <3>b, <3>c
  <2> QED BY <2>1, <2>2
<1>25. ASSUME NEW t \in Turns, PopNext(t) PROVE Honoured'
  <2>1. CASE ~(queue # << >>)
    BY <1>25, <2>1 DEF PopNext
  <2>2. CASE queue # << >>
    <3>1. PICK u \in Turns :
            /\ phase[t] = "popNext" /\ phase[u] = "unused"
            /\ starter' = [starter EXCEPT ![u] = t]
            /\ phase' = [phase EXCEPT ![u] = "claimed", ![t] = "holding"]
            /\ UNCHANGED <<pc, using, cancelled, pending, early>>
      BY <1>25, <2>2 DEF PopNext, Take, Claim
    <3> HIDE <1>25
    <3>a. StarterPast'
      BY <3>1
    <3>b. BootsAlone'
      BY <3>1
    <3>c. CancelArrives'
      BY <3>1
    <3> QED BY <3>a, <3>b, <3>c
  <2> QED BY <2>1, <2>2
<1>26. ASSUME NEW t \in Turns, HandOff(t) PROVE Honoured'
  BY <1>26 DEF HandOff, LeaveSession
<1>27. ASSUME NEW t \in Turns, EmitTerminal(t) PROVE Honoured'
  BY <1>27 DEF EmitTerminal, LeaveSession
<1>28. ASSUME NEW t \in Turns, FinalizeDead(t) PROVE Honoured'
  BY <1>28 DEF FinalizeDead, FinalRow
<1>29. ASSUME NEW t \in Turns, Finish(t) PROVE Honoured'
  BY <1>29 DEF Finish
<1>30. ASSUME NEW t \in Turns, Fail(t) PROVE Honoured'
  BY <1>30 DEF Fail, LeaveSession
<1>31. ASSUME NEW t \in Turns, PopError(t) PROVE Honoured'
  BY <1>31 DEF PopError
<1>32. ASSUME NEW a \in Actors, Scaffold(a) PROVE Honoured'
  BY <1>32 DEF Scaffold
<1>33. ASSUME NEW a \in Actors, StartFails(a) PROVE Honoured'
  <2>1. /\ next[a] \in Turns /\ phase[next[a]] = "claimed" /\ Starting(a)
        /\ starter' = [starter EXCEPT ![next[a]] = NoTurn]
        /\ early' = early \ {next[a]} /\ UNCHANGED <<using, cancelled, pending>>
        /\ \/ /\ a \in Reqs /\ pc' = [pc EXCEPT ![a] = "answered"]
              /\ phase' = [phase EXCEPT ![next[a]] = "unused"]
           \/ /\ a \in Turns /\ pc' = pc
              /\ phase' = [phase EXCEPT ![next[a]] = "unused", ![a] = "terminal"]
    BY <1>33 DEF StartFails
  <2> HIDE <1>33
  <2>a. StarterPast'
    BY <2>1
  <2>b. BootsAlone'
    BY <2>1
  <2>c. CancelArrives'
    BY <2>1
  <2> QED BY <2>a, <2>b, <2>c
<1>34. ASSUME PendingExpires PROVE Honoured'
  BY <1>34 DEF PendingExpires
<1>35. ASSUME CloseIdle PROVE Honoured'
  BY <1>35 DEF CloseIdle
<1>36. ASSUME Crash PROVE Honoured'
  BY <1>36 DEF Crash
<1>37. ASSUME NEW r \in Reqs, NEW m \in Msgs, MarkError(r, m) PROVE Honoured'
  BY <1>37 DEF MarkError
<1>38. ASSUME NEW r \in Reqs, RequestPopError(r) PROVE Honoured'
  BY <1>38 DEF RequestPopError
<1>39. CASE UNCHANGED vars
  BY <1>39 DEF vars, code
<1> QED
  BY <1>1, <1>2, <1>3, <1>4, <1>5, <1>6, <1>7, <1>8, <1>9, <1>10, <1>11, <1>12, <1>13,
     <1>14, <1>15, <1>16, <1>17, <1>18, <1>19, <1>20, <1>21, <1>22, <1>23, <1>24,
     <1>25, <1>26, <1>27, <1>28, <1>29, <1>30, <1>31, <1>32, <1>33, <1>34, <1>35,
     <1>36, <1>37, <1>38, <1>39 DEF Next, User, Environment, AgentStep, RequestStep, TurnStep

LEMMA HonouredInit == Init => Honoured
BY ChatTurnAssumption, NobodyIsNoRequest
DEF Init, Honoured, StarterPast, BootsAlone, Booting, Aimed, CancelArrives, Actors

(* A Stop, a revocation or a send-now aimed at the turn of a request ends that
   turn before the agent is prompted. *)
THEOREM StopIsHonoured == Spec => []StopBeforePromptHonoured
<1>1. Honoured => StopBeforePromptHonoured
  BY DEF Honoured, CancelArrives, Aimed, StopBeforePromptHonoured
<1> QED BY GateInvariant, HonouredInit, HonouredStep, <1>1, PTL DEF Spec

-----------------------------------------------------------------------------
(* Messages. *)

Distinct(s) == \A i, j \in 1 .. Len(s) : s[i] = s[j] => i = j
Within(x, s) == \E i \in 1 .. Len(s) : s[i] = x

(* Taking an element out of a sequence without duplicates takes out that element
   and nothing else. *)
LEMMA RemoveFirstEffect ==
    ASSUME NEW S, NEW s \in Seq(S), NEW e, Distinct(s)
    PROVE  /\ RemoveFirst(s, e) \in Seq(S) /\ Distinct(RemoveFirst(s, e))
           /\ \A x : Within(x, RemoveFirst(s, e)) <=> x # e /\ Within(x, s)
<1>1. CASE Within(e, s)
  <2> DEFINE I == {i \in 1 .. Len(s) : s[i] = e}
             k == Min(I)
             r == RemoveFirst(s, e)
             a == SubSeq(s, 1, k - 1)
             b == SubSeq(s, k + 1, Len(s))
  <2>1. I \in SUBSET Nat /\ I # {}
    BY <1>1 DEF Within
  <2>2. k \in I
    <3> HIDE DEF I
    <3> QED BY <2>1, LeastIsMember
  <2>3. k \in 1 .. Len(s) /\ s[k] = e
    BY <2>2
  <2>4. r = a \o b
    BY <1>1, <2>1 DEF RemoveFirst, RemoveAt, SelectInSeq, Within
  <2>0. Len(s) \in Nat /\ \A i \in 1 .. Len(s) : s[i] \in S
    OBVIOUS
  <2> HIDE DEF I, k
  <2>5. /\ a \in Seq(S) /\ Len(a) = k - 1
        /\ \A i \in 1 .. k - 1 : a[i] = s[i]
    <3>1. \A i \in 1 .. k - 1 : s[i] \in S
      BY <2>0, <2>3
    <3>2. 1 \in Int /\ k - 1 \in Int /\ (1 <= k - 1 => (k - 1) - 1 + 1 = k - 1)
          /\ (~(1 <= k - 1) => k - 1 = 0) /\ (k - 1) - 1 + 1 = k - 1
          /\ \A i \in 1 .. k - 1 : 1 + i - 1 = i
      BY <2>0, <2>3
    <3> QED BY <3>1, <3>2, SubSeqProperties
  <2>6. /\ b \in Seq(S) /\ Len(b) = Len(s) - k
        /\ \A i \in 1 .. Len(s) - k : b[i] = s[k + i]
    <3>1. \A i \in k + 1 .. Len(s) : s[i] \in S
      BY <2>0, <2>3
    <3>2. k + 1 \in Int /\ Len(s) \in Int /\ Len(s) - (k + 1) + 1 = Len(s) - k
          /\ (~(k + 1 <= Len(s)) => Len(s) - k = 0)
          /\ \A i \in 1 .. Len(s) - k : (k + 1) + i - 1 = k + i
      BY <2>0, <2>3
    <3> QED BY <3>1, <3>2, SubSeqProperties
  <2> HIDE DEF a, b, r
  <2>7. /\ r \in Seq(S) /\ Len(r) = Len(s) - 1
        /\ \A i \in 1 .. Len(s) - 1 : r[i] = IF i < k THEN s[i] ELSE s[i + 1]
    <3>1. /\ a \o b \in Seq(S) /\ Len(a \o b) = Len(a) + Len(b)
          /\ \A i \in 1 .. Len(a) + Len(b) : (a \o b)[i] =
                     IF i <= Len(a) THEN a[i] ELSE b[i - Len(a)]
      BY <2>5, <2>6, ConcatProperties
    <3>2. Len(a) + Len(b) = Len(s) - 1
      BY <2>0, <2>3, <2>5, <2>6
    <3>3. ASSUME NEW i \in 1 .. Len(s) - 1, i < k PROVE r[i] = s[i]
      BY <2>0, <2>3, <2>4, <2>5, <3>1, <3>2, <3>3
    <3>4. ASSUME NEW i \in 1 .. Len(s) - 1, ~(i < k) PROVE r[i] = s[i + 1]
      <4>1. i - Len(a) \in 1 .. Len(s) - k /\ k + (i - Len(a)) = i + 1 /\ ~(i <= Len(a))
        BY <2>0, <2>3, <2>5, <3>4
      <4> QED BY <2>4, <2>6, <3>1, <3>2, <4>1
    <3> QED BY <2>4, <3>1, <3>2, <3>3, <3>4
  <2>8. Distinct(r)
    BY <2>0, <2>3, <2>7 DEF Distinct
  <2>9. ASSUME NEW x, Within(x, r) PROVE x # e /\ Within(x, s)
    BY <2>0, <2>3, <2>7, <2>9 DEF Distinct, Within
  <2>10. ASSUME NEW x, x # e, Within(x, s) PROVE Within(x, r)
    <3>1. PICK i \in 1 .. Len(s) : s[i] = x
      BY <2>10 DEF Within
    <3>2. CASE i < k
      BY <2>0, <2>3, <2>7, <3>1, <3>2 DEF Within
    <3>3. CASE i > k
      <4>1. i - 1 \in 1 .. Len(s) - 1 /\ ~(i - 1 < k) /\ (i - 1) + 1 = i
        BY <2>0, <2>3, <3>1, <3>3
      <4> QED BY <2>7, <3>1, <4>1 DEF Within
    <3>4. i # k
      BY <2>3, <2>10, <3>1
    <3> QED BY <2>0, <2>3, <3>1, <3>2, <3>3, <3>4
  <2> QED BY <2>7, <2>8, <2>9, <2>10 DEF r
<1>2. CASE ~Within(e, s)
  BY <1>2 DEF RemoveFirst, Within
<1> QED BY <1>1, <1>2

(* Adding at either end an element that is not there adds that element. *)
LEMMA AppendEffect ==
    ASSUME NEW S, NEW s \in Seq(S), NEW e \in S, Distinct(s), ~Within(e, s)
    PROVE  /\ Append(s, e) \in Seq(S) /\ Distinct(Append(s, e))
           /\ \A x : Within(x, Append(s, e)) <=> x = e \/ Within(x, s)
BY DEF Distinct, Within

LEMMA PrependEffect ==
    ASSUME NEW S, NEW s \in Seq(S), NEW e \in S, Distinct(s), ~Within(e, s)
    PROVE  /\ <<e>> \o s \in Seq(S) /\ Distinct(<<e>> \o s)
           /\ \A x : Within(x, <<e>> \o s) <=> x = e \/ Within(x, s)
<1> DEFINE r == <<e>> \o s
<1>1. /\ r \in Seq(S) /\ Len(r) = Len(s) + 1
      /\ \A i \in 1 .. Len(s) + 1 : r[i] = IF i = 1 THEN e ELSE s[i - 1]
  OBVIOUS
<1>2. Len(s) \in Nat
  OBVIOUS
<1> HIDE DEF r
<1>3. Distinct(r)
  BY <1>1, <1>2 DEF Distinct, Within
<1>4. ASSUME NEW x, Within(x, r) PROVE x = e \/ Within(x, s)
  BY <1>1, <1>2, <1>4 DEF Within
<1>5. Within(e, r)
  BY <1>1, <1>2 DEF Within
<1>6. ASSUME NEW x, Within(x, s) PROVE Within(x, r)
  <2>1. PICK i \in 1 .. Len(s) : s[i] = x
    BY <1>6 DEF Within
  <2>2. i + 1 \in 1 .. Len(s) + 1 /\ i + 1 # 1 /\ (i + 1) - 1 = i
    BY <1>2, <2>1
  <2> QED BY <1>1, <2>1, <2>2 DEF Within
<1> QED BY <1>1, <1>3, <1>4, <1>5, <1>6 DEF r

LEMMA HeadWithin ==
    ASSUME NEW S, NEW s \in Seq(S), s # << >>
    PROVE  Within(Head(s), s)
BY DEF Within

(* Where a message is, if not in the queue. *)
Held(m) == \E a \in Actors : held[a] = m
Carried(m) == \E t \in Turns : carried[t] = m
Ended(m) == m \in steered \/ m \in removed \/ m \in dropped

(* A message is once in the queue, in the hands of one actor, or in one turn ... *)
Once ==
    /\ Distinct(queue)
    /\ \A a, b \in Actors : held[a] = held[b] => a = b \/ held[a] = NoMsg
    /\ \A t, u \in Turns : carried[t] = carried[u] => t = u \/ carried[t] = NoMsg

(* ... and in one of these places, or at one end, from the moment it was sent. *)
Apart == \A m \in Msgs :
    /\ Within(m, queue) => ~Held(m) /\ ~Carried(m) /\ ~Ended(m)
    /\ Held(m) => ~Carried(m) /\ ~Ended(m)
    /\ Carried(m) => ~Ended(m)
    /\ m \in steered => m \notin removed /\ m \notin dropped
    /\ m \in removed => m \notin dropped
Somewhere == \A m \in Msgs :
    m \in sent <=> Within(m, queue) \/ Held(m) \/ Carried(m) \/ Ended(m)

Placed == Once /\ Apart /\ Somewhere

(* What these places are in the promise of the chat. *)
FateIsPlace == \A m \in Msgs :
    /\ Fate(m) = "removed" <=> m \in removed
    /\ Fate(m) = "lost" <=> m \in dropped
    /\ Fate(m) = "steered" <=> m \in steered
    /\ Fate(m) = "started" <=> Carried(m)
    /\ Fate(m) = "taken" <=> Held(m)
    /\ Fate(m) = "queued" <=> Within(m, queue)
    /\ Fate(m) = "unsent" <=> m \notin sent
    /\ Fate(m) \in {"removed", "lost", "steered", "started", "taken", "queued", "unsent"}

LEMMA FateNow == Placed /\ queue \in Seq(Msgs) => FateIsPlace
<1> SUFFICES ASSUME Placed, queue \in Seq(Msgs), NEW m \in Msgs
    PROVE
        /\ Fate(m) = "removed" <=> m \in removed
        /\ Fate(m) = "lost" <=> m \in dropped
        /\ Fate(m) = "steered" <=> m \in steered
        /\ Fate(m) = "started" <=> Carried(m)
        /\ Fate(m) = "taken" <=> Held(m)
        /\ Fate(m) = "queued" <=> Within(m, queue)
        /\ Fate(m) = "unsent" <=> m \notin sent
        /\ Fate(m) \in {"removed", "lost", "steered", "started", "taken", "queued",
                        "unsent"}
  BY DEF FateIsPlace
<1>1. m \in ToSet(queue) <=> Within(m, queue)
  BY DEF ToSet, Within
<1> QED BY <1>1 DEF Placed, Apart, Somewhere, Fate, Held, Carried, Ended

LEMMA FateNext == (Placed /\ queue \in Seq(Msgs))' => FateIsPlace'
BY FateNow, PTL

(* What taking and leaving a message does to the hands of the actors. *)
LEMMA HandTakes ==
    ASSUME TypeOK, Placed, NEW a \in Actors, held[a] = NoMsg, NEW m \in Msgs, ~Held(m),
           held' = [held EXCEPT ![a] = m]
    PROVE  /\ \A x \in Msgs : Held(x)' <=> x = m \/ Held(x)
           /\ \A b, c \in Actors : held'[b] = held'[c] => b = c \/ held'[b] = NoMsg
BY ChatTurnAssumption DEF TypeOK, Placed, Once, Held

LEMMA HandGives ==
    ASSUME TypeOK, Placed, NEW a \in Actors, held' = [held EXCEPT ![a] = NoMsg]
    PROVE  /\ \A x \in Msgs : Held(x)' <=> x # held[a] /\ Held(x)
           /\ \A b, c \in Actors : held'[b] = held'[c] => b = c \/ held'[b] = NoMsg
BY ChatTurnAssumption DEF TypeOK, Placed, Once, Held

(* A message moved: it was at p, it is at q, and no other moved. *)
Moved(m, p, q) ==
    Fate(m) = p /\ \A x \in Msgs : Fate(x)' = IF x = m THEN q ELSE Fate(x)

Queues == TypeOK /\ Placed /\ queue' \in Seq(Msgs)

LEMMA TakenUp ==
    ASSUME Queues, NEW a \in Actors, held[a] = NoMsg, NEW m \in Msgs, Within(m, queue),
           held' = [held EXCEPT ![a] = m], queue' = RemoveFirst(queue, m),
           UNCHANGED <<carried, steered, removed, dropped, sent>>
    PROVE  Placed' /\ Moved(m, "queued", "taken")
<1>1. /\ Distinct(queue')
      /\ \A x : Within(x, queue') <=> x # m /\ Within(x, queue)
  BY RemoveFirstEffect DEF Queues, TypeOK, Placed, Once
<1>2. ~Held(m)
  BY DEF Queues, Placed, Apart
<1>3. /\ \A x \in Msgs : Held(x)' <=> x = m \/ Held(x)
      /\ \A b, c \in Actors : held'[b] = held'[c] => b = c \/ held'[b] = NoMsg
  BY <1>2, HandTakes DEF Queues
<1>4. \A x : (Carried(x)' <=> Carried(x)) /\ (Ended(x)' <=> Ended(x))
  BY DEF Carried, Ended
<1>5. Placed'
  BY <1>1, <1>3, <1>4 DEF Queues, Placed, Once, Apart, Somewhere
<1> QED BY <1>1, <1>3, <1>4, <1>5, FateNow, FateNext
     DEF Queues, TypeOK, Moved, FateIsPlace

LEMMA GivenBack ==
    ASSUME Queues, NEW a \in Actors, held[a] # NoMsg,
           held' = [held EXCEPT ![a] = NoMsg], queue' = <<held[a]>> \o queue,
           UNCHANGED <<carried, steered, removed, dropped, sent>>
    PROVE  Placed' /\ Moved(held[a], "taken", "queued")
<1> DEFINE m == held[a]
<1>0. m \in Msgs /\ Held(m) /\ ~Within(m, queue)
  BY DEF Queues, TypeOK, Placed, Apart, Held
<1>1. /\ Distinct(queue')
      /\ \A x : Within(x, queue') <=> x = m \/ Within(x, queue)
  BY <1>0, PrependEffect DEF Queues, TypeOK, Placed, Once
<1>3. /\ \A x \in Msgs : Held(x)' <=> x # m /\ Held(x)
      /\ \A b, c \in Actors : held'[b] = held'[c] => b = c \/ held'[b] = NoMsg
  BY HandGives DEF Queues
<1>4. \A x : (Carried(x)' <=> Carried(x)) /\ (Ended(x)' <=> Ended(x))
  BY DEF Carried, Ended
<1> HIDE DEF m
<1>5. Placed'
  BY <1>0, <1>1, <1>3, <1>4 DEF Queues, Placed, Once, Apart, Somewhere
<1>6. Moved(m, "taken", "queued")
  BY <1>0, <1>1, <1>3, <1>4, <1>5, FateNow, FateNext
     DEF Queues, TypeOK, Moved, FateIsPlace
<1> QED BY <1>5, <1>6 DEF m

LEMMA LostInHand ==
    ASSUME Queues, NEW a \in Actors, held[a] # NoMsg,
           held' = [held EXCEPT ![a] = NoMsg], dropped' = dropped \cup {held[a]},
           UNCHANGED <<queue, carried, steered, removed, sent>>
    PROVE  Placed' /\ Moved(held[a], "taken", "lost")
<1> DEFINE m == held[a]
<1>0. m \in Msgs /\ Held(m)
  BY DEF Queues, TypeOK, Placed, Apart, Held
<1>3. /\ \A x \in Msgs : Held(x)' <=> x # m /\ Held(x)
      /\ \A b, c \in Actors : held'[b] = held'[c] => b = c \/ held'[b] = NoMsg
  BY HandGives DEF Queues
<1>4. \A x : /\ Carried(x)' <=> Carried(x)
             /\ Ended(x)' <=> x = m \/ Ended(x)
             /\ x \in dropped' <=> x = m \/ x \in dropped
  BY DEF Carried, Ended
<1> HIDE DEF m
<1>5. Placed'
  BY <1>0, <1>3, <1>4 DEF Queues, Placed, Once, Apart, Somewhere, Ended
<1>6. Moved(m, "taken", "lost")
  BY <1>0, <1>3, <1>4, <1>5, FateNow, FateNext
     DEF Queues, TypeOK, Moved, FateIsPlace
<1> QED BY <1>5, <1>6 DEF m

LEMMA Injected ==
    ASSUME Queues, NEW a \in Actors, held[a] # NoMsg,
           held' = [held EXCEPT ![a] = NoMsg], steered' = steered \cup {held[a]},
           UNCHANGED <<queue, carried, dropped, removed, sent>>
    PROVE  Placed' /\ Moved(held[a], "taken", "steered")
<1> DEFINE m == held[a]
<1>0. m \in Msgs /\ Held(m)
  BY DEF Queues, TypeOK, Placed, Apart, Held
<1>3. /\ \A x \in Msgs : Held(x)' <=> x # m /\ Held(x)
      /\ \A b, c \in Actors : held'[b] = held'[c] => b = c \/ held'[b] = NoMsg
  BY HandGives DEF Queues
<1>4. \A x : /\ Carried(x)' <=> Carried(x)
             /\ Ended(x)' <=> x = m \/ Ended(x)
             /\ x \in steered' <=> x = m \/ x \in steered
  BY DEF Carried, Ended
<1> HIDE DEF m
<1>5. Placed'
  BY <1>0, <1>3, <1>4 DEF Queues, Placed, Once, Apart, Somewhere, Ended
<1>6. Moved(m, "taken", "steered")
  BY <1>0, <1>3, <1>4, <1>5, FateNow, FateNext
     DEF Queues, TypeOK, Moved, FateIsPlace
<1> QED BY <1>5, <1>6 DEF m

LEMMA Carries ==
    ASSUME Queues, NEW a \in Actors, NEW u \in Turns, carried[u] = NoMsg,
           held' = [held EXCEPT ![a] = NoMsg], carried' = [carried EXCEPT ![u] = held[a]],
           UNCHANGED <<queue, steered, dropped, removed, sent>>
    PROVE  /\ Placed'
           /\ IF held[a] = NoMsg THEN \A x \in Msgs : Fate(x)' = Fate(x)
              ELSE Moved(held[a], "taken", "started")
<1> DEFINE m == held[a]
<1>0. m \in Msgs \cup {NoMsg} /\ (m \in Msgs => Held(m) /\ ~Carried(m))
  BY DEF Queues, TypeOK, Placed, Apart, Held
<1>3. /\ \A x \in Msgs : Held(x)' <=> x # m /\ Held(x)
      /\ \A b, c \in Actors : held'[b] = held'[c] => b = c \/ held'[b] = NoMsg
  BY HandGives DEF Queues
<1>4. /\ \A x \in Msgs : Carried(x)' <=> x = m \/ Carried(x)
      /\ \A t, v \in Turns : carried'[t] = carried'[v] => t = v \/ carried'[t] = NoMsg
  BY <1>0, ChatTurnAssumption DEF Queues, TypeOK, Placed, Once, Carried
<1>2. \A x : Ended(x)' <=> Ended(x)
  BY DEF Ended
<1> HIDE DEF m
<1>5. Placed'
  BY <1>0, <1>2, <1>3, <1>4 DEF Queues, Placed, Once, Apart, Somewhere
<1>6. CASE m \in Msgs
  <2>1. Moved(m, "taken", "started")
    BY <1>0, <1>2, <1>3, <1>4, <1>5, <1>6, FateNow, FateNext
     DEF Queues, TypeOK, Moved, FateIsPlace
  <2> QED BY <1>5, <1>6, <2>1, ChatTurnAssumption DEF m
<1>7. CASE m = NoMsg
  <2>1. \A x \in Msgs : Fate(x)' = Fate(x)
    BY <1>0, <1>2, <1>3, <1>4, <1>5, <1>7, FateNow, FateNext, ChatTurnAssumption
       DEF Queues, TypeOK, FateIsPlace
  <2> QED BY <1>5, <1>7, <2>1 DEF m
<1> QED BY <1>0, <1>6, <1>7

LEMMA SentOnce ==
    ASSUME Queues, NEW m \in Msgs, m \notin sent, sent' = sent \cup {m},
           queue' = Append(queue, m),
           UNCHANGED <<held, carried, steered, removed, dropped>>
    PROVE  Placed' /\ Moved(m, "unsent", "queued")
<1>0. ~Within(m, queue)
  BY DEF Queues, Placed, Somewhere
<1>1. /\ Distinct(queue')
      /\ \A x : Within(x, queue') <=> x = m \/ Within(x, queue)
  BY <1>0, AppendEffect DEF Queues, TypeOK, Placed, Once
<1>4. \A x : /\ Carried(x)' <=> Carried(x)
             /\ Ended(x)' <=> Ended(x)
             /\ Held(x)' <=> Held(x)
  BY DEF Carried, Ended, Held
<1>5. Placed'
  BY <1>1, <1>4 DEF Queues, Placed, Once, Apart, Somewhere
<1> QED BY <1>1, <1>4, <1>5, FateNow, FateNext
     DEF Queues, TypeOK, Moved, FateIsPlace

LEMMA Removed ==
    ASSUME Queues, NEW m \in Msgs, Within(m, queue), queue' = RemoveFirst(queue, m),
           removed' = removed \cup {m},
           UNCHANGED <<held, carried, steered, dropped, sent>>
    PROVE  Placed' /\ Moved(m, "queued", "removed")
<1>1. /\ Distinct(queue')
      /\ \A x : Within(x, queue') <=> x # m /\ Within(x, queue)
  BY RemoveFirstEffect DEF Queues, TypeOK, Placed, Once
<1>4. \A x : /\ Carried(x)' <=> Carried(x)
             /\ Ended(x)' <=> x = m \/ Ended(x)
             /\ Held(x)' <=> Held(x)
             /\ x \in removed' <=> x = m \/ x \in removed
  BY DEF Carried, Ended, Held
<1>5. Placed'
  BY <1>1, <1>4 DEF Queues, Placed, Once, Apart, Somewhere, Ended
<1> QED BY <1>1, <1>4, <1>5, FateNow, FateNext
     DEF Queues, TypeOK, Moved, FateIsPlace

LEMMA LostInPop ==
    ASSUME Queues, NEW m \in Msgs, Within(m, queue), LosePopped(m),
           UNCHANGED <<held, carried, steered, removed, sent>>
    PROVE  Placed' /\ Moved(m, "queued", "lost")
<1>1. /\ Distinct(queue')
      /\ \A x : Within(x, queue') <=> x # m /\ Within(x, queue)
  BY RemoveFirstEffect DEF Queues, TypeOK, Placed, Once, LosePopped
<1>4. \A x : /\ Carried(x)' <=> Carried(x)
             /\ Ended(x)' <=> x = m \/ Ended(x)
             /\ Held(x)' <=> Held(x)
             /\ x \in dropped' <=> x = m \/ x \in dropped
  BY DEF Carried, Ended, Held, LosePopped
<1>5. Placed'
  BY <1>1, <1>4 DEF Queues, Placed, Once, Apart, Somewhere, Ended
<1> QED BY <1>1, <1>4, <1>5, FateNow, FateNext
     DEF Queues, TypeOK, Moved, FateIsPlace

Stays == \A x \in Msgs : Fate(x)' = Fate(x)

LEMMA NothingMoves ==
    ASSUME Queues, UNCHANGED <<queue, held, carried, steered, removed, dropped, sent>>
    PROVE  Placed' /\ Stays
<1>4. \A x : /\ Carried(x)' <=> Carried(x)
             /\ Ended(x)' <=> Ended(x)
             /\ Held(x)' <=> Held(x)
  BY DEF Carried, Ended, Held
<1>5. Placed'
  BY <1>4 DEF Queues, Placed, Once, Apart, Somewhere
<1> QED BY <1>4, <1>5, FateNow, FateNext DEF Queues, TypeOK, Stays, FateIsPlace

(* What the promise allows, by what became of the messages and of the owner. *)
Told == [Promise!Next]_(Promise!vars)

LEMMA ToldNothing == ASSUME Stays, Driving' = Driving PROVE Told
BY DEF Stays, Told, Promise!vars

LEMMA ToldOwner ==
    ASSUME Stays,
           \/ Driving = {} /\ \E t \in Turns : Driving' = {t}
           \/ Driving # {} /\ Driving' = {}
    PROVE  Told
<1>1. UNCHANGED [m \in Msgs |-> Fate(m)]
  BY DEF Stays
<1>2. CASE Driving = {} /\ \E t \in Turns : Driving' = {t}
  BY <1>1, <1>2 DEF Told, Promise!Next, Promise!Own
<1>3. CASE Driving # {} /\ Driving' = {}
  BY <1>1, <1>3 DEF Told, Promise!Next, Promise!Leave
<1> QED BY <1>2, <1>3

LEMMA ToldMove ==
    ASSUME NEW m \in Msgs, NEW p, NEW q, Moved(m, p, q)
    PROVE  Promise!Move(m, p, q)
BY DEF Moved, Promise!Move

LEMMA ToldMessage ==
    ASSUME NEW m \in Msgs,
           \/ /\ Driving' = Driving
              /\ \/ Moved(m, "unsent", "queued") \/ Moved(m, "queued", "taken")
                 \/ Moved(m, "taken", "queued") \/ Moved(m, "taken", "lost")
                 \/ Moved(m, "queued", "lost")
                 \/ Moved(m, "taken", "steered") /\ Driving # {}
           \/ Moved(m, "taken", "started") /\ Driving' = {}
    PROVE  Told
BY ToldMove DEF Told, Promise!Next, Promise!Queue, Promise!Take, Promise!GiveBack,
   Promise!Lose, Promise!Steer, Promise!Start

(* Deletion, of one message or of the whole queue. *)
LEMMA ToldRemoval ==
    ASSUME NEW S \in SUBSET Msgs, \A m \in S : Fate(m) = "queued",
           \A m \in Msgs : Fate(m)' = IF m \in S THEN "removed" ELSE Fate(m),
           Driving' = Driving
    PROVE  Told
<1>1. Promise!Remove(S)
  BY DEF Promise!Remove
<1> QED BY <1>1 DEF Told, Promise!Next

LEMMA ToSetIs == ASSUME NEW s \in Seq(Msgs), NEW x PROVE x \in ToSet(s) <=> Within(x, s)
BY DEF ToSet, Within

LEMMA NothingWithin == \A x : ~Within(x, << >>)
BY DEF Within

LEMMA Cleared ==
    ASSUME Queues, queue' = << >>, removed' = removed \cup ToSet(queue),
           UNCHANGED <<held, carried, steered, dropped, sent>>
    PROVE  /\ Placed' /\ \A x \in ToSet(queue) : Fate(x) = "queued"
           /\ \A x \in Msgs : Fate(x)' = IF x \in ToSet(queue) THEN "removed" ELSE Fate(x)
<1>1. Distinct(queue') /\ (\A x : ~Within(x, queue'))
  BY NothingWithin DEF Distinct
<1>2. \A x : x \in ToSet(queue) <=> Within(x, queue)
  BY ToSetIs DEF Queues, TypeOK
<1>3. ToSet(queue) \subseteq Msgs
  BY ToSetType DEF Queues, TypeOK
<1>4. \A x : /\ Carried(x)' <=> Carried(x)
             /\ Ended(x)' <=> Within(x, queue) \/ Ended(x)
             /\ Held(x)' <=> Held(x)
             /\ x \in removed' <=> Within(x, queue) \/ x \in removed
  BY <1>2 DEF Carried, Ended, Held
<1>5. Placed'
  BY <1>1, <1>4 DEF Queues, Placed, Once, Apart, Somewhere, Ended
<1> QED BY <1>1, <1>2, <1>3, <1>4, <1>5, FateNow, FateNext
     DEF Queues, TypeOK, FateIsPlace

(* A crash drops what was in someone's hands, and with the cache the queue. *)
LEMMA Crashed ==
    ASSUME Queues, NEW dies \in BOOLEAN,
           queue' = IF dies THEN << >> ELSE queue,
           held' = [a \in Actors |-> NoMsg],
           dropped' = dropped \cup {held[a] : a \in {b \in Actors : held[b] # NoMsg}}
                              \cup (ToSet(queue) \ ToSet(queue')),
           UNCHANGED <<carried, steered, removed, sent>>
    PROVE  /\ Placed'
           /\ \A x \in Msgs : Fate(x)' =
                IF Fate(x) \in {"taken"} \cup (IF dies THEN {"queued"} ELSE {})
                THEN "lost" ELSE Fate(x)
<1>1. /\ Distinct(queue')
      /\ \A x : Within(x, queue') <=> Within(x, queue) /\ ~dies
  <2>1. CASE dies
    BY <2>1, NothingWithin DEF Distinct
  <2>2. CASE ~dies
    BY <2>2 DEF Queues, Placed, Once
  <2> QED BY <2>1, <2>2
<1>2. \A x : /\ x \in ToSet(queue) <=> Within(x, queue)
             /\ x \in ToSet(queue') <=> Within(x, queue')
  BY ToSetIs DEF Queues, TypeOK
<1>3. \A x \in Msgs : x \in {held[a] : a \in {b \in Actors : held[b] # NoMsg}} <=> Held(x)
  BY ChatTurnAssumption DEF Held
<1>4. \A x \in Msgs :
        /\ Carried(x)' <=> Carried(x)
        /\ ~Held(x)'
        /\ x \in dropped' <=> x \in dropped \/ Held(x) \/ (Within(x, queue) /\ dies)
        /\ Ended(x)' <=> Ended(x) \/ Held(x) \/ (Within(x, queue) /\ dies)
  <2>1. \A x \in Msgs : x \in dropped' <=> x \in dropped \/ Held(x) \/ (Within(x, queue) /\ dies)
    BY <1>1, <1>2, <1>3
  <2>2. \A x \in Msgs : ~Held(x)' /\ (Carried(x)' <=> Carried(x))
    BY ChatTurnAssumption DEF Held, Carried
  <2> QED BY <2>1, <2>2 DEF Ended
<1>5. Placed'
  <2>1. \A a \in Actors : held'[a] = NoMsg
    OBVIOUS
  <2>2. Once'
    BY <1>1, <2>1 DEF Queues, Placed, Once
  <2>3. Apart'
    BY <1>1, <1>4 DEF Queues, Placed, Apart, Ended
  <2>4. Somewhere'
    BY <1>1, <1>4 DEF Queues, Placed, Somewhere, Ended
  <2> QED BY <2>2, <2>3, <2>4 DEF Placed
<1>6. FateIsPlace /\ FateIsPlace'
  BY <1>5, FateNow, FateNext DEF Queues, TypeOK
<1>7. \A x \in Msgs : Fate(x)' =
                IF Fate(x) \in {"taken"} \cup (IF dies THEN {"queued"} ELSE {})
                THEN "lost" ELSE Fate(x)
  <2> TAKE x \in Msgs
  <2>1. CASE Held(x) \/ (Within(x, queue) /\ dies)
    BY <1>4, <1>6, <2>1 DEF FateIsPlace
  <2>2. CASE ~(Held(x) \/ (Within(x, queue) /\ dies))
    BY <1>1, <1>4, <1>6, <2>2 DEF FateIsPlace
  <2> QED BY <2>1, <2>2
<1> QED BY <1>5, <1>7

(* Who holds a message is preparing a turn for it or steering it; a turn carries
   one only once it is launched; only a fault loses one. *)
Hands ==
    /\ \A a \in Actors : held[a] # NoMsg => Starting(a) \/ (a \in Reqs /\ pc[a] = "steering")
    /\ \A t \in Turns : carried[t] # NoMsg => phase[t] \notin {"unused", "claimed"}
    /\ dropped # {} => faults > 0

LEMMA HandsStep == Typed /\ Gate /\ Hands /\ [Next]_vars => Hands'
<1> SUFFICES ASSUME Typed, Gate, Hands, [Next]_vars PROVE Hands'
  OBVIOUS
<1> USE ChatTurnAssumption DEF Goto, Step, Hands, Starting, Gate, StartsClaimed,
         RunnerDrives, OneUpstream, Upstream, SessionPhase,
         Actors, TypeOK, Typed, sessVars, msgHist, history
<1>1. ASSUME NEW m \in Msgs, Enqueue(m) PROVE Hands'
  BY <1>1 DEF Enqueue
<1>2. ASSUME NEW m \in Msgs, DeleteQueued(m) PROVE Hands'
  BY <1>2 DEF DeleteQueued
<1>3. ASSUME ClearQueue PROVE Hands'
  BY <1>3 DEF ClearQueue
<1>4. ASSUME NEW r \in Reqs, SendMessage(r) PROVE Hands'
  BY <1>4 DEF SendMessage, Claim
<1>5. ASSUME NEW r \in Reqs, Stop(r) PROVE Hands'
  BY <1>5 DEF Stop, CancelGeneration, AfterPendingSet, AboutToPop
<1>6. ASSUME NEW r \in Reqs, RevokeDevice(r) PROVE Hands'
  BY <1>6 DEF RevokeDevice, CancelGeneration, AfterPendingSet, AboutToPop
<1>7. ASSUME NEW r \in Reqs, CaptureRuntime(r) PROVE Hands'
  BY <1>7 DEF CaptureRuntime
<1>8. ASSUME NEW r \in Reqs, AcquireSteering(r) PROVE Hands'
  BY <1>8 DEF AcquireSteering
<1>9. ASSUME NEW r \in Reqs, CancelForSendNow(r) PROVE Hands'
  BY <1>9 DEF CancelForSendNow, CancelGeneration, AfterPendingSet, AboutToPop, NotSteered
<1>10. ASSUME NEW r \in Reqs, IdleSendNow(r) PROVE Hands'
  BY <1>10 DEF IdleSendNow, NotSteered
<1>11. ASSUME NEW r \in Reqs, PopIdle(r) PROVE Hands'
  <2>1. CASE SendNowTarget = NoMsg
    <3>1. /\ pc[r] = "idleStart" /\ pc' = [pc EXCEPT ![r] = "answered"]
          /\ UNCHANGED <<held, carried, dropped, faults, phase>>
      BY <1>11, <2>1 DEF PopIdle
    <3> HIDE <1>11
    <3> QED BY <3>1
  <2>2. CASE SendNowTarget # NoMsg
    <3>1. PICK t \in Turns : Claim(r, t) /\ Step(t, "claimed") /\ Goto(r, "starting")
      BY <1>11, <2>2 DEF PopIdle
    <3>2. /\ held' = [held EXCEPT ![r] = SendNowTarget]
          /\ UNCHANGED <<carried, dropped, faults>>
      BY <1>11, <2>2 DEF PopIdle
    <3> HIDE <1>11
    <3> QED BY <3>1, <3>2 DEF Claim
  <2> QED BY <2>1, <2>2
<1>12. ASSUME NEW r \in Reqs, CancelSent(r) PROVE Hands'
  BY <1>12 DEF CancelSent
<1>13. ASSUME NEW r \in Reqs, Launch(r) PROVE Hands'
  BY <1>13 DEF Launch
<1>14. ASSUME NEW r \in Reqs, Release(r) PROVE Hands'
  BY <1>14 DEF Release
<1>15. ASSUME NEW r \in Reqs, SteeringAnswered(r) PROVE Hands'
  BY <1>15 DEF SteeringAnswered
<1>16. ASSUME NEW r \in Reqs, NEW m \in Msgs, MarkSendNow(r, m) PROVE Hands'
  BY <1>16 DEF MarkSendNow
<1>17. ASSUME NEW t \in Turns, Register(t) PROVE Hands'
  BY <1>17 DEF Register
<1>18. ASSUME NEW t \in Turns, Open(t) PROVE Hands'
  BY <1>18 DEF Open
<1>19. ASSUME NEW t \in Turns, Bind(t) PROVE Hands'
  BY <1>19 DEF Bind
<1>20. ASSUME NEW t \in Turns, Accept(t) PROVE Hands'
  BY <1>20 DEF Accept, EventSet
<1>21. ASSUME NEW t \in Turns, StreamEnds(t) PROVE Hands'
  BY <1>21 DEF StreamEnds, LeaveSession
<1>22. ASSUME NEW t \in Turns, StreamCancelled(t) PROVE Hands'
  BY <1>22 DEF StreamCancelled
<1>23. ASSUME NEW t \in Turns, SaveFinal(t) PROVE Hands'
  BY <1>23 DEF SaveFinal
<1>24. ASSUME NEW t \in Turns, PopSendNow(t) PROVE Hands'
  <2>1. CASE ~(SendNowTarget # NoMsg)
    BY <1>24, <2>1 DEF PopSendNow
  <2>2. CASE SendNowTarget # NoMsg
    <3>1. PICK u \in Turns : /\ phase[u] = "unused"
            /\ phase' = [phase EXCEPT ![u] = "claimed", ![t] = "holding"]
            /\ held' = [held EXCEPT ![t] = SendNowTarget]
            /\ phase[t] \in SessionPhase \ {"holding"}
            /\ UNCHANGED <<pc, carried, dropped, faults>>
      BY <1>24, <2>2 DEF PopSendNow, Take, Claim
    <3> HIDE <1>24
    <3> QED BY <3>1
  <2> QED BY <2>1, <2>2
<1>25. ASSUME NEW t \in Turns, PopNext(t) PROVE Hands'
  <2>1. CASE ~(queue # << >>)
    BY <1>25, <2>1 DEF PopNext
  <2>2. CASE queue # << >>
    <3>1. PICK u \in Turns : /\ phase[u] = "unused"
            /\ phase' = [phase EXCEPT ![u] = "claimed", ![t] = "holding"]
            /\ held' = [held EXCEPT ![t] = Head(queue)]
            /\ phase[t] \in SessionPhase \ {"holding"}
            /\ UNCHANGED <<pc, carried, dropped, faults>>
      BY <1>25, <2>2 DEF PopNext, Take, Claim
    <3> HIDE <1>25
    <3> QED BY <3>1
  <2> QED BY <2>1, <2>2
<1>26. ASSUME NEW t \in Turns, HandOff(t) PROVE Hands'
  BY <1>26 DEF HandOff, LeaveSession
<1>27. ASSUME NEW t \in Turns, EmitTerminal(t) PROVE Hands'
  BY <1>27 DEF EmitTerminal, LeaveSession
<1>28. ASSUME NEW t \in Turns, FinalizeDead(t) PROVE Hands'
  BY <1>28 DEF FinalizeDead, FinalRow
<1>29. ASSUME NEW t \in Turns, Finish(t) PROVE Hands'
  BY <1>29 DEF Finish
<1>30. ASSUME NEW t \in Turns, Fail(t) PROVE Hands'
  BY <1>30 DEF Fail, LeaveSession
<1>31. ASSUME NEW t \in Turns, PopError(t) PROVE Hands'
  BY <1>31 DEF PopError
<1>32. ASSUME NEW a \in Actors, Scaffold(a) PROVE Hands'
  BY <1>32 DEF Scaffold
<1>33. ASSUME NEW a \in Actors, StartFails(a) PROVE Hands'
  BY <1>33 DEF StartFails
<1>34. ASSUME PendingExpires PROVE Hands'
  BY <1>34 DEF PendingExpires
<1>35. ASSUME CloseIdle PROVE Hands'
  BY <1>35 DEF CloseIdle
<1>36. ASSUME Crash PROVE Hands'
  BY <1>36 DEF Crash
<1>37. ASSUME NEW r \in Reqs, NEW m \in Msgs, MarkError(r, m) PROVE Hands'
  BY <1>37 DEF MarkError
<1>38. ASSUME NEW r \in Reqs, RequestPopError(r) PROVE Hands'
  BY <1>38 DEF RequestPopError
<1>39. CASE UNCHANGED vars
  BY <1>39 DEF vars, code
<1> QED
  BY <1>1, <1>2, <1>3, <1>4, <1>5, <1>6, <1>7, <1>8, <1>9, <1>10, <1>11, <1>12, <1>13,
     <1>14, <1>15, <1>16, <1>17, <1>18, <1>19, <1>20, <1>21, <1>22, <1>23, <1>24,
     <1>25, <1>26, <1>27, <1>28, <1>29, <1>30, <1>31, <1>32, <1>33, <1>34, <1>35,
     <1>36, <1>37, <1>38, <1>39 DEF Next, User, Environment, AgentStep, RequestStep, TurnStep

LEMMA HandsInit == Init => Hands
BY DEF Init, Hands

(* Who drives the agent. *)
LEMMA PhaseKept == phase' = phase => Driving' = Driving
BY DEF Driving

LEMMA DrivingKept ==
    ASSUME Typed, NEW t \in Turns, NEW p, phase' = [phase EXCEPT ![t] = p],
           phase[t] \in SessionPhase <=> p \in SessionPhase
    PROVE  Driving' = Driving
BY DEF Driving, Typed, TypeOK

LEMMA SoleDriver ==
    ASSUME Gate, NEW t \in Turns, phase[t] \in SessionPhase
    PROVE  Driving = {t}
BY DEF Gate, OneUpstream, Upstream, Driving

LEMMA DrivingEnds ==
    ASSUME Typed, Gate, NEW t \in Turns, NEW p, phase' = [phase EXCEPT ![t] = p],
           phase[t] \in SessionPhase, p \notin SessionPhase
    PROVE  Driving # {} /\ Driving' = {}
BY SoleDriver DEF Driving, Typed, TypeOK

LEMMA TargetQueued ==
    ASSUME TypeOK, SendNowTarget # NoMsg
    PROVE  SendNowTarget \in Msgs /\ Within(SendNowTarget, queue)
BY DEF TypeOK, SendNowTarget, Contains, Within

LEMMA MarkedPopFails ==
    ASSUME Queues, PopMarkedFails, UNCHANGED <<held, carried, steered, removed, sent>>,
           Driving' = Driving
    PROVE  Placed' /\ Told
<1>1. CASE UNCHANGED <<queue, dropped>>
  BY <1>1, NothingMoves, ToldNothing
<1>2. CASE LosePopped(SendNowTarget)
  <2>1. SendNowTarget \in Msgs /\ Within(SendNowTarget, queue)
    BY <1>2, TargetQueued DEF LosePopped, Queues
  <2>2. Placed' /\ Moved(SendNowTarget, "queued", "lost")
    BY <1>2, <2>1, LostInPop
  <2> QED BY <2>1, <2>2, ToldMessage
<1> QED BY <1>1, <1>2 DEF PopMarkedFails

(* Each step of the code keeps every message in one place, and is a step of the
   promise, or no step at all. *)
LEMMA MessageStep ==
    Typed /\ Gate /\ Steering /\ Placed /\ Hands /\ [Next]_vars => Placed' /\ Told
<1> SUFFICES ASSUME Typed, Gate, Steering, Placed, Hands, [Next]_vars PROVE Placed' /\ Told
  OBVIOUS
<1>q. Queues
  BY TypedStep DEF Queues, Typed, TypeOK
<1> USE <1>q DEF cacheVars, Goto, history, msgHist, cancelHist
<1>1. ASSUME NEW m \in Msgs, Enqueue(m) PROVE Placed' /\ Told
  <2>1. Placed' /\ Moved(m, "unsent", "queued")
    BY <1>1, SentOnce DEF Enqueue
  <2>2. Driving' = Driving
    BY <1>1, PhaseKept DEF Enqueue
  <2> QED BY <2>1, <2>2, ToldMessage
<1>2. ASSUME NEW m \in Msgs, DeleteQueued(m) PROVE Placed' /\ Told
  <2>1. Placed' /\ Moved(m, "queued", "removed")
    BY <1>2, Removed DEF DeleteQueued, Contains, Within
  <2>2. Driving' = Driving
    BY <1>2, PhaseKept DEF DeleteQueued
  <2>3. Told
    <3>1. {m} \in SUBSET Msgs /\ \A x \in {m} : Fate(x) = "queued"
      BY <2>1 DEF Moved
    <3>2. \A x \in Msgs : Fate(x)' = IF x \in {m} THEN "removed" ELSE Fate(x)
      BY <2>1 DEF Moved
    <3> QED BY <2>2, <3>1, <3>2, ToldRemoval
  <2> QED BY <2>1, <2>3
<1>3. ASSUME ClearQueue PROVE Placed' /\ Told
  <2>1. /\ Placed' /\ \A x \in ToSet(queue) : Fate(x) = "queued"
        /\ \A x \in Msgs : Fate(x)' = IF x \in ToSet(queue) THEN "removed" ELSE Fate(x)
    BY <1>3, Cleared DEF ClearQueue
  <2>2. ToSet(queue) \in SUBSET Msgs
    BY ToSetType DEF Typed, TypeOK
  <2>3. Driving' = Driving
    BY <1>3, PhaseKept DEF ClearQueue
  <2> QED BY <2>1, <2>2, <2>3, ToldRemoval
<1>4. ASSUME NEW r \in Reqs, SendMessage(r) PROVE Placed' /\ Told
  <2>1. UNCHANGED <<queue, held, carried, steered, removed, dropped, sent>>
    BY <1>4 DEF SendMessage
  <2>2. PICK t \in Turns : phase[t] = "unused" /\ phase' = [phase EXCEPT ![t] = "claimed"]
    BY <1>4 DEF SendMessage, Claim, Step
  <2>3. Driving' = Driving
    BY <2>2, DrivingKept DEF SessionPhase
  <2> QED BY <2>1, <2>3, NothingMoves, ToldNothing
<1>5. ASSUME NEW r \in Reqs, Stop(r) PROVE Placed' /\ Told
  <2>1. UNCHANGED <<queue, held, carried, steered, removed, dropped, sent>> /\ phase' = phase
    BY <1>5 DEF Stop, CancelGeneration
  <2> QED BY <2>1, NothingMoves, ToldNothing, PhaseKept
<1>6. ASSUME NEW r \in Reqs, RevokeDevice(r) PROVE Placed' /\ Told
  <2>1. UNCHANGED <<queue, held, carried, steered, removed, dropped, sent>> /\ phase' = phase
    BY <1>6 DEF RevokeDevice, CancelGeneration
  <2> QED BY <2>1, NothingMoves, ToldNothing, PhaseKept
<1>7. ASSUME NEW r \in Reqs, CaptureRuntime(r) PROVE Placed' /\ Told
  <2>1. UNCHANGED <<queue, held, carried, steered, removed, dropped, sent>> /\ phase' = phase
    BY <1>7 DEF CaptureRuntime
  <2> QED BY <2>1, NothingMoves, ToldNothing, PhaseKept
<1>8. ASSUME NEW r \in Reqs, AcquireSteering(r) PROVE Placed' /\ Told
  <2>1. Driving' = Driving
    BY <1>8, PhaseKept DEF AcquireSteering
  <2>2. CASE SendNowTarget = NoMsg
    BY <1>8, <2>1, <2>2, NothingMoves, ToldNothing DEF AcquireSteering
  <2>3. CASE SendNowTarget # NoMsg
    <3>1. SendNowTarget \in Msgs /\ Within(SendNowTarget, queue)
      BY <2>3, TargetQueued DEF Typed
    <3>2. /\ held' = [held EXCEPT ![r] = SendNowTarget]
          /\ queue' = RemoveFirst(queue, SendNowTarget) /\ pc[r] = "locking"
          /\ UNCHANGED <<carried, steered, removed, dropped, sent>>
      BY <1>8, <2>3 DEF AcquireSteering
    <3>3. held[r] = NoMsg
      BY <3>2, ChatTurnAssumption DEF Hands, Starting, Actors
    <3>4. Placed' /\ Moved(SendNowTarget, "queued", "taken")
      BY <3>1, <3>2, <3>3, TakenUp DEF Actors
    <3> QED BY <2>1, <3>1, <3>4, ToldMessage
  <2> QED BY <2>2, <2>3
<1>9. ASSUME NEW r \in Reqs, CancelForSendNow(r) PROVE Placed' /\ Told
  <2>1. UNCHANGED <<queue, held, carried, steered, removed, dropped, sent>> /\ phase' = phase
    BY <1>9 DEF CancelForSendNow, CancelGeneration
  <2> QED BY <2>1, NothingMoves, ToldNothing, PhaseKept
<1>10. ASSUME NEW r \in Reqs, IdleSendNow(r) PROVE Placed' /\ Told
  <2>1. UNCHANGED <<queue, held, carried, steered, removed, dropped, sent>> /\ phase' = phase
    BY <1>10 DEF IdleSendNow
  <2> QED BY <2>1, NothingMoves, ToldNothing, PhaseKept
<1>11. ASSUME NEW r \in Reqs, PopIdle(r) PROVE Placed' /\ Told
  <2>2. CASE SendNowTarget = NoMsg
    <3>1. UNCHANGED <<queue, held, carried, steered, removed, dropped, sent>> /\ phase' = phase
      BY <1>11, <2>2 DEF PopIdle
    <3> QED BY <3>1, NothingMoves, ToldNothing, PhaseKept
  <2>3. CASE SendNowTarget # NoMsg
    <3>1. SendNowTarget \in Msgs /\ Within(SendNowTarget, queue)
      BY <2>3, TargetQueued DEF Typed
    <3>2. /\ held' = [held EXCEPT ![r] = SendNowTarget]
          /\ queue' = RemoveFirst(queue, SendNowTarget) /\ pc[r] = "idleStart"
          /\ UNCHANGED <<carried, steered, removed, dropped, sent>>
      BY <1>11, <2>3 DEF PopIdle
    <3>3. held[r] = NoMsg
      BY <3>2, ChatTurnAssumption DEF Hands, Starting, Actors
    <3>4. Placed' /\ Moved(SendNowTarget, "queued", "taken")
      BY <3>1, <3>2, <3>3, TakenUp DEF Actors
    <3>5. PICK t \in Turns : phase[t] = "unused" /\ phase' = [phase EXCEPT ![t] = "claimed"]
      BY <1>11, <2>3 DEF PopIdle, Claim, Step
    <3>6. Driving' = Driving
      BY <3>5, DrivingKept DEF SessionPhase
    <3> QED BY <3>1, <3>4, <3>6, ToldMessage
  <2> QED BY <2>2, <2>3
<1>12. ASSUME NEW r \in Reqs, CancelSent(r) PROVE Placed' /\ Told
  <2>1. UNCHANGED <<queue, held, carried, steered, removed, dropped, sent>> /\ phase' = phase
    BY <1>12 DEF CancelSent
  <2> QED BY <2>1, NothingMoves, ToldNothing, PhaseKept
<1>13. ASSUME NEW r \in Reqs, Launch(r) PROVE Placed' /\ Told
  <2>1. /\ next[r] \in Turns /\ phase[next[r]] = "claimed" /\ carried[next[r]] = NoMsg
        /\ Driving = {}
    BY <1>13 DEF Launch, Gate, StartsClaimed, SlotAlone, Starting, Hands, Actors, Driving,
                SessionPhase, Live
  <2>2. /\ phase' = [phase EXCEPT ![next[r]] = "created"]
        /\ carried' = [carried EXCEPT ![next[r]] = held[r]]
        /\ held' = [held EXCEPT ![r] = NoMsg]
        /\ UNCHANGED <<queue, steered, dropped, removed, sent>>
    BY <1>13 DEF Launch, Step
  <2>3. Driving' = {}
    BY <2>1, <2>2, DrivingKept DEF SessionPhase
  <2>4. /\ Placed'
        /\ IF held[r] = NoMsg THEN Stays ELSE Moved(held[r], "taken", "started")
    BY <2>1, <2>2, Carries DEF Actors, Stays
  <2>5. CASE held[r] = NoMsg
    BY <2>1, <2>3, <2>4, <2>5, ToldNothing
  <2>6. CASE held[r] # NoMsg
    <3>1. held[r] \in Msgs
      BY <2>6 DEF Typed, TypeOK, Actors
    <3> QED BY <2>3, <2>4, <2>6, <3>1, ToldMessage
  <2> QED BY <2>5, <2>6
<1>14. ASSUME NEW r \in Reqs, Release(r) PROVE Placed' /\ Told
  <2>1. UNCHANGED <<queue, held, carried, steered, removed, dropped, sent>> /\ phase' = phase
    BY <1>14 DEF Release
  <2> QED BY <2>1, NothingMoves, ToldNothing, PhaseKept
<1>15. ASSUME NEW r \in Reqs, SteeringAnswered(r) PROVE Placed' /\ Told
  <2>1. /\ held[r] # NoMsg /\ held[r] \in Msgs /\ r \in Actors
        /\ target[r] \in Turns /\ phase[target[r]] = "streaming"
    BY <1>15, ChatTurnAssumption DEF SteeringAnswered, Typed, Linked, Steering, Actors
  <2>2. Driving' = Driving /\ Driving # {}
    <3>1. target[r] \in Driving
      BY <2>1 DEF Driving, SessionPhase
    <3> QED BY <1>15, <3>1, PhaseKept DEF SteeringAnswered
  <2>3. held' = [held EXCEPT ![r] = NoMsg] /\ UNCHANGED <<carried, removed, sent>>
    BY <1>15 DEF SteeringAnswered
  <2>4. CASE steered' = steered \cup {held[r]} /\ UNCHANGED <<queue, dropped>>
    <3>1. Placed' /\ Moved(held[r], "taken", "steered")
      BY <2>1, <2>3, <2>4, Injected
    <3> QED BY <2>1, <2>2, <3>1, ToldMessage
  <2>5. CASE queue' = Requeued(r) /\ UNCHANGED <<steered, dropped>>
    <3>1. Placed' /\ Moved(held[r], "taken", "queued")
      BY <2>1, <2>3, <2>5, GivenBack DEF Requeued
    <3> QED BY <2>1, <2>2, <3>1, ToldMessage
  <2>6. CASE dropped' = dropped \cup {held[r]} /\ UNCHANGED <<queue, steered>>
    <3>1. Placed' /\ Moved(held[r], "taken", "lost")
      BY <2>1, <2>3, <2>6, LostInHand
    <3> QED BY <2>1, <2>2, <3>1, ToldMessage
  <2>7. \/ steered' = steered \cup {held[r]} /\ UNCHANGED <<queue, dropped>>
        \/ queue' = Requeued(r) /\ UNCHANGED <<steered, dropped>>
        \/ dropped' = dropped \cup {held[r]} /\ UNCHANGED <<queue, steered>>
    BY <1>15 DEF SteeringAnswered, cacheVars
  <2> QED BY <2>4, <2>5, <2>6, <2>7
<1>16. ASSUME NEW r \in Reqs, NEW m \in Msgs, MarkSendNow(r, m) PROVE Placed' /\ Told
  <2>1. UNCHANGED <<queue, held, carried, steered, removed, dropped, sent>> /\ phase' = phase
    BY <1>16 DEF MarkSendNow
  <2> QED BY <2>1, NothingMoves, ToldNothing, PhaseKept
<1>17. ASSUME NEW t \in Turns, Register(t) PROVE Placed' /\ Told
  <2>1. UNCHANGED <<queue, held, carried, steered, removed, dropped, sent>>
    BY <1>17 DEF Register
  <2>2. Driving' = Driving
    BY <1>17, DrivingKept DEF Register, Step, SessionPhase
  <2> QED BY <2>1, <2>2, NothingMoves, ToldNothing
<1>18. ASSUME NEW t \in Turns, Open(t) PROVE Placed' /\ Told
  <2>1. UNCHANGED <<queue, held, carried, steered, removed, dropped, sent>>
    BY <1>18 DEF Open
  <2>2. phase[t] = "booting" /\ (session # NoTurn => runner[session] = NoTurn)
    BY <1>18, ChatTurnAssumption
    DEF Open, Gate, RunnerDrives, OneUpstream, Upstream, SessionPhase, Typed, TypeOK
  <2>3. phase' = [phase EXCEPT ![t] = "opened"]
    BY <1>18, <2>2, ChatTurnAssumption DEF Open, Step, Typed, TypeOK
  <2>4. Driving' = Driving
    BY <2>2, <2>3, DrivingKept DEF SessionPhase
  <2> QED BY <2>1, <2>4, NothingMoves, ToldNothing
<1>19. ASSUME NEW t \in Turns, Bind(t) PROVE Placed' /\ Told
  <2>1. UNCHANGED <<queue, held, carried, steered, removed, dropped, sent>>
    BY <1>19 DEF Bind
  <2>2. phase[t] = "opened" /\ phase' = [phase EXCEPT ![t] = "bound"]
    BY <1>19 DEF Bind, Step
  <2>3. Driving = {} /\ Driving' = {t}
    BY <2>2 DEF Gate, OneUpstream, Upstream, Driving, SessionPhase, Typed, TypeOK
  <2> QED BY <2>1, <2>3, NothingMoves, ToldOwner
<1>20. ASSUME NEW t \in Turns, Accept(t) PROVE Placed' /\ Told
  <2>1. UNCHANGED <<queue, held, carried, steered, removed, dropped, sent>>
    BY <1>20 DEF Accept
  <2>2. \E p \in {"drained", "streaming"} : phase' = [phase EXCEPT ![t] = p]
    BY <1>20 DEF Accept, Step
  <2>3. Driving' = Driving
    BY <1>20, <2>2, DrivingKept DEF Accept, SessionPhase
  <2> QED BY <2>1, <2>3, NothingMoves, ToldNothing
<1>21. ASSUME NEW t \in Turns, StreamEnds(t) PROVE Placed' /\ Told
  <2>1. UNCHANGED <<queue, held, carried, steered, removed, dropped, sent>>
    BY <1>21 DEF StreamEnds
  <2>2. /\ phase[t] = "streaming"
        /\ \E p \in {"drained", "finalizing"} : phase' = [phase EXCEPT ![t] = p]
    BY <1>21 DEF StreamEnds, Step
  <2>3. Driving' = Driving \/ (Driving # {} /\ Driving' = {})
    BY <2>2, DrivingKept, DrivingEnds DEF SessionPhase
  <2> QED BY <2>1, <2>3, NothingMoves, ToldNothing, ToldOwner
<1>22. ASSUME NEW t \in Turns, StreamCancelled(t) PROVE Placed' /\ Told
  <2>1. UNCHANGED <<queue, held, carried, steered, removed, dropped, sent>>
    BY <1>22 DEF StreamCancelled
  <2>2. Driving' = Driving
    BY <1>22, DrivingKept DEF StreamCancelled, Step, SessionPhase
  <2> QED BY <2>1, <2>2, NothingMoves, ToldNothing
<1>23. ASSUME NEW t \in Turns, SaveFinal(t) PROVE Placed' /\ Told
  <2>1. UNCHANGED <<queue, held, carried, steered, removed, dropped, sent>>
    BY <1>23 DEF SaveFinal
  <2>2. Driving' = Driving
    BY <1>23, DrivingKept DEF SaveFinal, Step, SessionPhase
  <2> QED BY <2>1, <2>2, NothingMoves, ToldNothing
<1>24. ASSUME NEW t \in Turns, PopSendNow(t) PROVE Placed' /\ Told
  <2>1. CASE SendNowTarget = NoMsg
    <3>1. /\ phase[t] = "popMarked"
          /\ \E p \in {"terminal", "popNext"} : phase' = [phase EXCEPT ![t] = p]
          /\ UNCHANGED <<queue, held, carried, steered, removed, dropped, sent>>
      BY <1>24, <2>1 DEF PopSendNow, Step, msgHist
    <3>2. Driving' = Driving
      BY <3>1, DrivingKept DEF SessionPhase
    <3> QED BY <3>1, <3>2, NothingMoves, ToldNothing
  <2>2. CASE SendNowTarget # NoMsg
    <3>1. SendNowTarget \in Msgs /\ Within(SendNowTarget, queue)
      BY <2>2, TargetQueued DEF Typed
    <3>2. /\ held' = [held EXCEPT ![t] = SendNowTarget]
          /\ queue' = RemoveFirst(queue, SendNowTarget) /\ phase[t] = "popMarked"
          /\ UNCHANGED <<carried, steered, removed, dropped, sent>>
      BY <1>24, <2>2 DEF PopSendNow, Take, msgHist
    <3>3. held[t] = NoMsg
      BY <3>2, ChatTurnAssumption DEF Hands, Starting, Actors
    <3>4. Placed' /\ Moved(SendNowTarget, "queued", "taken")
      BY <3>1, <3>2, <3>3, TakenUp DEF Actors
    <3>5. PICK u \in Turns : /\ phase[u] = "unused"
                             /\ phase' = [phase EXCEPT ![u] = "claimed", ![t] = "holding"]
      BY <1>24, <2>2 DEF PopSendNow, Take, Claim
    <3>6. Driving' = Driving
      BY <3>2, <3>5 DEF Driving, SessionPhase, Typed, TypeOK
    <3> QED BY <3>1, <3>4, <3>6, ToldMessage
  <2> QED BY <2>1, <2>2
<1>25. ASSUME NEW t \in Turns, PopNext(t) PROVE Placed' /\ Told
  <2>1. CASE queue = << >>
    <3>1. /\ phase[t] = "popNext"
          /\ \E p \in {"terminal"} : phase' = [phase EXCEPT ![t] = p]
          /\ UNCHANGED <<queue, held, carried, steered, removed, dropped, sent>>
      BY <1>25, <2>1 DEF PopNext, Step, msgHist
    <3>2. Driving' = Driving
      BY <3>1, DrivingKept DEF SessionPhase
    <3> QED BY <3>1, <3>2, NothingMoves, ToldNothing
  <2>2. CASE queue # << >>
    <3>1. Head(queue) \in Msgs /\ Within(Head(queue), queue)
      BY <2>2, HeadTailProperties, HeadWithin DEF Typed, TypeOK
    <3>2. /\ held' = [held EXCEPT ![t] = Head(queue)]
          /\ queue' = RemoveFirst(queue, Head(queue)) /\ phase[t] = "popNext"
          /\ UNCHANGED <<carried, steered, removed, dropped, sent>>
      BY <1>25, <2>2 DEF PopNext, Take, msgHist
    <3>3. held[t] = NoMsg
      BY <3>2, ChatTurnAssumption DEF Hands, Starting, Actors
    <3>4. Placed' /\ Moved(Head(queue), "queued", "taken")
      BY <3>1, <3>2, <3>3, TakenUp DEF Actors
    <3>5. PICK u \in Turns : /\ phase[u] = "unused"
                             /\ phase' = [phase EXCEPT ![u] = "claimed", ![t] = "holding"]
      BY <1>25, <2>2 DEF PopNext, Take, Claim
    <3>6. Driving' = Driving
      BY <3>2, <3>5 DEF Driving, SessionPhase, Typed, TypeOK
    <3> QED BY <3>1, <3>4, <3>6, ToldMessage
  <2> QED BY <2>1, <2>2
<1>26. ASSUME NEW t \in Turns, HandOff(t) PROVE Placed' /\ Told
  <2>1. /\ next[t] \in Turns /\ phase[next[t]] = "claimed" /\ carried[next[t]] = NoMsg
        /\ phase[t] = "holding" /\ t \in Actors
    BY <1>26 DEF HandOff, Gate, StartsClaimed, Starting, Hands, Actors
  <2>2. /\ phase' = [phase EXCEPT ![next[t]] = "created", ![t] = "unwinding"]
        /\ carried' = [carried EXCEPT ![next[t]] = held[t]]
        /\ held' = [held EXCEPT ![t] = NoMsg]
        /\ UNCHANGED <<queue, steered, dropped, removed, sent>>
    BY <1>26 DEF HandOff
  <2>3. Driving # {} /\ Driving' = {}
    <3>1. Driving = {t}
      BY <2>1, SoleDriver DEF SessionPhase
    <3> QED BY <2>1, <2>2, <3>1 DEF Driving, SessionPhase, Typed, TypeOK
  <2>4. /\ Placed'
        /\ IF held[t] = NoMsg THEN Stays ELSE Moved(held[t], "taken", "started")
    BY <2>1, <2>2, Carries DEF Stays
  <2>5. CASE held[t] = NoMsg
    BY <2>3, <2>4, <2>5, ToldOwner
  <2>6. CASE held[t] # NoMsg
    <3>1. held[t] \in Msgs
      BY <2>6 DEF Typed, TypeOK, Actors
    <3> QED BY <2>3, <2>4, <2>6, <3>1, ToldMessage
  <2> QED BY <2>5, <2>6
<1>27. ASSUME NEW t \in Turns, EmitTerminal(t) PROVE Placed' /\ Told
  <2>1. UNCHANGED <<queue, held, carried, steered, removed, dropped, sent>>
    BY <1>27 DEF EmitTerminal
  <2>2. /\ phase[t] = "terminal"
        /\ \E p \in {"unwinding", "finalizing"} : phase' = [phase EXCEPT ![t] = p]
    BY <1>27 DEF EmitTerminal, Step
  <2>3. Driving # {} /\ Driving' = {}
    BY <2>2, DrivingEnds DEF SessionPhase
  <2> QED BY <2>1, <2>3, NothingMoves, ToldOwner
<1>28. ASSUME NEW t \in Turns, FinalizeDead(t) PROVE Placed' /\ Told
  <2>1. UNCHANGED <<queue, held, carried, steered, removed, dropped, sent>>
    BY <1>28 DEF FinalizeDead
  <2>2. Driving' = Driving
    BY <1>28, DrivingKept DEF FinalizeDead, Step, SessionPhase
  <2> QED BY <2>1, <2>2, NothingMoves, ToldNothing
<1>29. ASSUME NEW t \in Turns, Finish(t) PROVE Placed' /\ Told
  <2>1. UNCHANGED <<queue, held, carried, steered, removed, dropped, sent>>
    BY <1>29 DEF Finish
  <2>2. Driving' = Driving
    BY <1>29, DrivingKept DEF Finish, Step, SessionPhase
  <2> QED BY <2>1, <2>2, NothingMoves, ToldNothing
<1>30. ASSUME NEW t \in Turns, Fail(t) PROVE Placed' /\ Told
  <2>1. UNCHANGED <<queue, held, carried, steered, removed, dropped, sent>>
    BY <1>30 DEF Fail
  <2>2. /\ phase[t] \in {"booting", "opened", "bound", "streaming"}
        /\ phase' = [phase EXCEPT ![t] = "finalizing"]
    BY <1>30 DEF Fail, Step
  <2>3. Driving' = Driving \/ (Driving # {} /\ Driving' = {})
    BY <2>2, DrivingKept, DrivingEnds DEF SessionPhase
  <2> QED BY <2>1, <2>3, NothingMoves, ToldNothing, ToldOwner
<1>31. ASSUME NEW t \in Turns, PopError(t) PROVE Placed' /\ Told
  <2>1. /\ UNCHANGED <<held, carried, steered, removed, sent>>
        /\ phase[t] \in {"popMarked", "popNext"}
        /\ phase' = [phase EXCEPT ![t] = "terminal"]
    BY <1>31 DEF PopError, Step
  <2>2. Driving' = Driving
    BY <2>1, DrivingKept DEF SessionPhase
  <2>3. CASE PopMarkedFails
    BY <2>1, <2>2, <2>3, MarkedPopFails
  <2>4. CASE UNCHANGED <<queue, dropped>>
    BY <2>1, <2>2, <2>4, NothingMoves, ToldNothing
  <2>5. CASE queue # << >> /\ LosePopped(Head(queue))
    <3>1. Head(queue) \in Msgs /\ Within(Head(queue), queue)
      BY <2>5, HeadTailProperties, HeadWithin DEF Typed, TypeOK
    <3>2. Placed' /\ Moved(Head(queue), "queued", "lost")
      BY <2>1, <2>5, <3>1, LostInPop
    <3> QED BY <2>2, <3>1, <3>2, ToldMessage
  <2> QED BY <1>31, <2>3, <2>4, <2>5 DEF PopError
<1>32. ASSUME NEW a \in Actors, Scaffold(a) PROVE Placed' /\ Told
  <2>1. UNCHANGED <<queue, held, carried, steered, removed, dropped, sent>> /\ phase' = phase
    BY <1>32 DEF Scaffold
  <2> QED BY <2>1, NothingMoves, ToldNothing, PhaseKept
<1>33. ASSUME NEW a \in Actors, StartFails(a) PROVE Placed' /\ Told
  <2>1. /\ next[a] \in Turns /\ phase[next[a]] = "claimed" /\ Starting(a)
    BY <1>33 DEF StartFails, Gate, StartsClaimed
  <2>2. Driving' = Driving
    BY <1>33, <2>1, ChatTurnAssumption
    DEF StartFails, Starting, Step, Driving, SessionPhase, Typed, TypeOK, Actors
  <2>3. held' = [held EXCEPT ![a] = NoMsg] /\ UNCHANGED <<carried, steered, removed, sent>>
    BY <1>33 DEF StartFails
  <2>4. held[a] \in Msgs \cup {NoMsg}
    BY DEF Typed, TypeOK
  <2>5. CASE held[a] = NoMsg
    <3>1. held' = held
      BY <2>3, <2>5 DEF Typed, TypeOK
    <3>2. UNCHANGED <<queue, dropped>>
      BY <1>33, <2>5 DEF StartFails, Requeued
    <3> QED BY <2>2, <2>3, <3>1, <3>2, NothingMoves, ToldNothing
  <2>6. CASE held[a] # NoMsg /\ queue' = Requeued(a) /\ UNCHANGED dropped
    <3>1. Placed' /\ Moved(held[a], "taken", "queued")
      BY <2>3, <2>6, GivenBack DEF Requeued
    <3> QED BY <2>2, <2>4, <2>6, <3>1, ToldMessage
  <2>7. CASE held[a] # NoMsg /\ dropped' = dropped \cup {held[a]} /\ UNCHANGED queue
    <3>1. Placed' /\ Moved(held[a], "taken", "lost")
      BY <2>3, <2>7, LostInHand
    <3> QED BY <2>2, <2>4, <2>7, <3>1, ToldMessage
  <2> QED BY <1>33, <2>5, <2>6, <2>7 DEF StartFails
<1>34. ASSUME PendingExpires PROVE Placed' /\ Told
  <2>1. UNCHANGED <<queue, held, carried, steered, removed, dropped, sent>> /\ phase' = phase
    BY <1>34 DEF PendingExpires
  <2> QED BY <2>1, NothingMoves, ToldNothing, PhaseKept
<1>35. ASSUME CloseIdle PROVE Placed' /\ Told
  <2>1. UNCHANGED <<queue, held, carried, steered, removed, dropped, sent>> /\ phase' = phase
    BY <1>35 DEF CloseIdle
  <2> QED BY <2>1, NothingMoves, ToldNothing, PhaseKept
<1>36. ASSUME Crash PROVE Placed' /\ Told
  <2>1. PICK dies \in BOOLEAN : queue' = IF dies THEN << >> ELSE queue
    BY <1>36 DEF Crash, cacheVars
  <2>2. /\ held' = [a \in Actors |-> NoMsg]
        /\ dropped' = dropped \cup {held[a] : a \in {b \in Actors : held[b] # NoMsg}}
                              \cup (ToSet(queue) \ ToSet(queue'))
        /\ UNCHANGED <<carried, steered, removed, sent>>
        /\ phase' = [t \in Turns |-> IF phase[t] = "unused" THEN "unused" ELSE "done"]
    BY <1>36 DEF Crash
  <2>3. /\ Placed'
        /\ \A x \in Msgs : Fate(x)' =
             IF Fate(x) \in {"taken"} \cup (IF dies THEN {"queued"} ELSE {})
             THEN "lost" ELSE Fate(x)
    BY <2>1, <2>2, Crashed
  <2>4. Driving' = {}
    BY <2>2 DEF Driving, SessionPhase
  <2>5. Promise!Die(dies)
    BY <2>3, <2>4 DEF Promise!Die
  <2> QED BY <2>3, <2>5 DEF Told, Promise!Next
<1>37. ASSUME NEW r \in Reqs, NEW m \in Msgs, MarkError(r, m) PROVE Placed' /\ Told
  <2>1. UNCHANGED <<queue, held, carried, steered, removed, dropped, sent>> /\ phase' = phase
    BY <1>37 DEF MarkError
  <2> QED BY <2>1, NothingMoves, ToldNothing, PhaseKept
<1>38. ASSUME NEW r \in Reqs, RequestPopError(r) PROVE Placed' /\ Told
  <2>1. UNCHANGED <<held, carried, steered, removed, sent>> /\ PopMarkedFails
    BY <1>38 DEF RequestPopError
  <2>2. Driving' = Driving
    BY <1>38, PhaseKept DEF RequestPopError
  <2> QED BY <2>1, <2>2, MarkedPopFails
<1>39. CASE UNCHANGED vars
  <2>1. UNCHANGED <<queue, held, carried, steered, removed, dropped, sent>> /\ phase' = phase
    BY <1>39 DEF vars, code
  <2> QED BY <2>1, NothingMoves, ToldNothing, PhaseKept
<1> QED
  BY <1>1, <1>2, <1>3, <1>4, <1>5, <1>6, <1>7, <1>8, <1>9, <1>10, <1>11, <1>12, <1>13,
     <1>14, <1>15, <1>16, <1>17, <1>18, <1>19, <1>20, <1>21, <1>22, <1>23, <1>24,
     <1>25, <1>26, <1>27, <1>28, <1>29, <1>30, <1>31, <1>32, <1>33, <1>34, <1>35,
     <1>36, <1>37, <1>38, <1>39 DEF Next, User, Environment, AgentStep, RequestStep, TurnStep

LEMMA PlacedInit == Init => Placed
BY ChatTurnAssumption
DEF Init, Placed, Once, Apart, Somewhere, Within, Distinct, Held, Carried, Ended

LEMMA MessageInvariant ==
    Spec => [](Typed /\ Gate /\ Steering /\ Placed /\ Hands) /\ [][Told]_vars
<1> DEFINE Inv == Typed /\ Gate /\ Steering /\ Placed /\ Hands
<1>1. Init => Inv
  BY TypedInit, GateInit, SteeringInit, PlacedInit, HandsInit
<1>2. Inv /\ [Next]_vars => Inv' /\ Told
  BY TypedStep, GateStep, SteeringStep, MessageStep, HandsStep
<1> HIDE DEF Inv
<1>3. Spec => []Inv /\ [][Told]_vars
  BY <1>1, <1>2, PTL DEF Spec
<1> QED BY <1>3 DEF Inv

(* A message is in one place: in the queue once, in the hands of one request or
   turn, started in one turn, or at one end. *)
LEMMA OnePlace ==
    ASSUME TypeOK, Placed, NEW m \in sent
    PROVE  \E p : Places(m) = {p}
<1> USE DEF Placed, Once, Apart, Somewhere, Places, Ended, Ends
<1>1. m \in Msgs /\ m # NoMsg
  BY ChatTurnAssumption DEF TypeOK
<1>2. DOMAIN Ends = {"steered", "removed", "dropped"}
  OBVIOUS
<1>3. /\ DOMAIN queue = 1 .. Len(queue)
  BY DEF TypeOK
<1>4. CASE Within(m, queue)
  <2>1. PICK k \in 1 .. Len(queue) : queue[k] = m
    BY <1>4 DEF Within
  <2>2. \A i \in 1 .. Len(queue) : queue[i] = m <=> i = k
    BY <2>1 DEF Distinct
  <2>3. (\A a \in Actors : held[a] # m) /\ (\A t \in Turns : carried[t] # m)
    BY <1>1, <1>4 DEF Held, Carried
  <2>4. \A e \in DOMAIN Ends : m \notin Ends[e]
    BY <1>1, <1>4
  <2>5. Places(m) = {<<"queue", k>>}
    BY <1>3, <2>1, <2>2, <2>3, <2>4
  <2> QED BY <2>5
<1>5. CASE Held(m)
  <2>1. PICK a \in Actors : held[a] = m
    BY <1>5 DEF Held
  <2>2. \A b \in Actors : held[b] = m <=> b = a
    BY <1>1, <2>1
  <2>3. (\A i \in 1 .. Len(queue) : queue[i] # m) /\ (\A t \in Turns : carried[t] # m)
    BY <1>1, <1>5 DEF Within, Carried
  <2>4. \A e \in DOMAIN Ends : m \notin Ends[e]
    BY <1>1, <1>5
  <2>5. Places(m) = {<<"held", a>>}
    BY <1>3, <2>1, <2>2, <2>3, <2>4
  <2> QED BY <2>5
<1>6. CASE Carried(m)
  <2>1. PICK t \in Turns : carried[t] = m
    BY <1>6 DEF Carried
  <2>2. \A u \in Turns : carried[u] = m <=> u = t
    BY <1>1, <2>1
  <2>3. (\A i \in 1 .. Len(queue) : queue[i] # m) /\ (\A a \in Actors : held[a] # m)
    BY <1>1, <1>6 DEF Within, Held
  <2>4. \A e \in DOMAIN Ends : m \notin Ends[e]
    BY <1>1, <1>6
  <2>5. Places(m) = {<<"carried", t>>}
    BY <1>3, <2>1, <2>2, <2>3, <2>4
  <2> QED BY <2>5
<1>7. CASE Ended(m)
  <2>1. /\ \A i \in 1 .. Len(queue) : queue[i] # m
        /\ \A a \in Actors : held[a] # m
        /\ \A t \in Turns : carried[t] # m
    BY <1>1, <1>7 DEF Within, Held, Carried
  <2>2. PICK e \in DOMAIN Ends : \A x \in DOMAIN Ends : m \in Ends[x] <=> x = e
    BY <1>1, <1>7
  <2>3. Places(m) = {<<e>>}
    BY <1>3, <2>1, <2>2
  <2> QED BY <2>3
<1> QED BY <1>1, <1>4, <1>5, <1>6, <1>7

(* A queued message is never lost nor run twice: it is always in exactly one
   place, and only a crash or a failure of the cache drops it. *)
THEOREM MessagesConserved == Spec => []MessageConservation
<1>1. Typed /\ Placed /\ Hands => MessageConservation
  <2> SUFFICES ASSUME Typed, Placed, Hands, NEW m \in sent
               PROVE  Cardinality(Places(m)) = 1
    BY DEF Hands, MessageConservation
  <2>1. PICK p : Places(m) = {p}
    BY OnePlace DEF Typed
  <2> QED BY <2>1, FS_Singleton
<1> QED BY MessageInvariant, <1>1, PTL

(* The chat implements its promise: each message only moves along the arrows of
   ChatPromise, and turns drive the agent one after the other. *)
THEOREM ChatKeepsPromise == Spec => PromiseKept
<1>1. Init => Promise!Init
  <2> SUFFICES ASSUME Init PROVE Promise!Init
    OBVIOUS
  <2>1. Driving = {}
    BY DEF Init, Driving, SessionPhase
  <2>2. \A m \in Msgs : Fate(m) = "unsent"
    BY PlacedInit, FateNow DEF Init, FateIsPlace
  <2> QED BY <2>1, <2>2 DEF Promise!Init
<1>2. Spec => [][Promise!Next]_(Promise!vars)
  <2>1. Told /\ [Next]_vars => [Promise!Next]_(Promise!vars)
    BY DEF Told
  <2>2. UNCHANGED vars => Told
    <3> SUFFICES ASSUME UNCHANGED vars PROVE UNCHANGED Promise!vars
      BY DEF Told
    <3> QED BY DEF vars, code, history, Promise!vars, Fate, Driving
  <2> QED BY <2>1, <2>2, MessageInvariant, PTL DEF Told
<1> QED BY <1>1, <1>2, PTL DEF Spec, PromiseKept, Promise!Spec

=============================================================================
