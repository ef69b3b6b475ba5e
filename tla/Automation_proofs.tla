------------------------- MODULE Automation_proofs -------------------------
(* Theorems about Automation, for any number of automations and dispatchers, any schedules
   and any change of the clocks. *)
EXTENDS Automation, TLAPS, WellFoundedInduction

-----------------------------------------------------------------------------
(* Slots. *)

(* The least element of a set of naturals is one of its elements. *)
LEMMA LeastIsMember ==
    ASSUME NEW S \in SUBSET Nat, S # {}
    PROVE  Min(S) \in S
<1> DEFINE R == {p \in Nat \X Nat : p[1] < p[2]}
<1>1. R = OpToRel(<, Nat)
  BY DEF OpToRel
<1>2. IsWellFoundedOn(R, Nat)
  BY <1>1, NatLessThanWellFounded
<1>3. PICK x \in S : \A y \in S : <<y, x>> \notin R
  <2> HIDE DEF R
  <2> QED BY <1>2, WFMin
<1>4. \A y \in S : x <= y
  <2> TAKE y \in S
  <2>1. <<y, x>> \in Nat \X Nat /\ <<y, x>>[1] = y /\ <<y, x>>[2] = x
    OBVIOUS
  <2>2. ~(<<y, x>>[1] < <<y, x>>[2])
    BY <1>3, <2>1, Zenon
  <2>3. y \in Nat /\ x \in Nat
    OBVIOUS
  <2> HIDE DEF R
  <2> QED BY <2>1, <2>2, <2>3
<1> QED BY <1>4 DEF Min

(* The next slot of a schedule is after the present instant, by the wall clock too. *)
LEMMA NextRunIsLater ==
    ASSUME now \in Time, NEW s \in Crons, NextRuns(s, now) # {}
    PROVE  NextRun(s) \in Time /\ NextRun(s) > now /\ Wall(NextRun(s)) > Wall(now)
<1>1. NextRuns(s, now) \in SUBSET Nat
  BY AutomationAssumption DEF NextRuns, CronInstants, Time
<1>2. NextRun(s) \in NextRuns(s, now)
  BY <1>1, LeastIsMember DEF NextRun
<1> QED BY <1>2 DEF NextRuns, CronInstants

LEMMA WallType == \A t \in Time : Wall(t) \in Int
BY AutomationAssumption DEF Wall, Time

-----------------------------------------------------------------------------
(* Types. *)

AnyRowValue == Row \cup {NoRow}
Partial == UNION {[S -> AnyRowValue] : S \in SUBSET Automations}
Batch == [at : {"idle", "batch", "firing"}, seen : Partial, todo : SUBSET Automations,
          writes : Partial, fire : SUBSET Automations]

AutoTyped ==
    /\ now \in Time
    /\ row \in [Automations -> AnyRowValue]
    /\ rowLock \in [Automations -> Dispatchers \cup {NoDispatcher}]
    /\ dispatch \in [Dispatchers -> Batch]
    /\ fires \in [Automations -> [Time -> Nat]]
    /\ edit # NoEdit => edit.automation \in Automations /\ edit.read \in Row
    /\ edit.automation \in Automations \cup {NoAutomation}
    /\ edit.workspace \in Workspaces \cup {NoWorkspace}
    /\ deleted \subseteq Workspaces

-----------------------------------------------------------------------------
(* The invariant. *)

(* A dispatcher holds rows as they were when they were due: since then the row
   was advanced, or it has the schedule it had. *)
Selected(d, a) ==
    /\ dispatch[d].seen[a] \in Row
    /\ dispatch[d].seen[a].next <= now
    /\ row[a] # NoRow =>
         /\ dispatch[d].seen[a].next <= row[a].next
         /\ row[a].next = dispatch[d].seen[a].next => row[a].schedule = dispatch[d].seen[a].schedule

(* A row that was written and not committed is locked, is still at the slot that was
   selected, and moves past it, by the wall clock too, exactly if it is claimed. *)
Written(d, a) ==
    LET w == dispatch[d].writes[a] IN
    /\ dispatch[d].at = "batch" /\ rowLock[a] = d /\ row[a] \in Row /\ w \in Row
    /\ row[a].next = dispatch[d].seen[a].next
    /\ w.schedule = row[a].schedule
    /\ IF a \in dispatch[d].fire
         THEN /\ w.next > row[a].next
              /\ a \notin refolded => Wall(w.next) > Wall(row[a].next)
              /\ w.enabled = row[a].enabled
         ELSE w.next = row[a].next

BatchOf(d) ==
    /\ dispatch[d].todo \cup dispatch[d].fire \cup DOMAIN dispatch[d].writes
         \subseteq DOMAIN dispatch[d].seen
    /\ dispatch[d].at = "batch" => dispatch[d].fire \subseteq DOMAIN dispatch[d].writes
    /\ \A a \in DOMAIN dispatch[d].seen : Selected(d, a)
    /\ \A a \in DOMAIN dispatch[d].writes : Written(d, a)

Batches == \A d \in Dispatchers : BatchOf(d)

Locks ==
    \A a \in Automations :
        rowLock[a] # NoDispatcher => a \in DOMAIN dispatch[rowLock[a]].writes

EditBehind ==
    edit # NoEdit /\ row[edit.automation] # NoRow => edit.read.next <= row[edit.automation].next

(* A slot is taken when it was run, or when a dispatcher is about to run it. *)
Pending(d, a) == dispatch[d].at = "firing" /\ a \in dispatch[d].fire
PendingAt(d, a, t) == Pending(d, a) /\ dispatch[d].seen[a].next = t
Taken(a, t) == fires[a][t] > 0 \/ \E d \in Dispatchers : PendingAt(d, a, t)

(* The row is past every slot that is taken. *)
Past(a, t) ==
    /\ t <= now
    /\ row[a] # NoRow => row[a].next > t /\ (a \notin refolded => Wall(row[a].next) > Wall(t))

SlotsOnce ==
    /\ \A a \in Automations, t \in Time : Taken(a, t) => Past(a, t)
    /\ \A a \in Automations, t \in Time : fires[a][t] <= 1
    /\ \A a \in Automations, t \in Time, d \in Dispatchers :
         PendingAt(d, a, t) =>
           fires[a][t] = 0 /\ \A e \in Dispatchers : PendingAt(e, a, t) => e = d
    /\ \A a \in Automations, t, u \in Time :
         a \notin refolded /\ Taken(a, t) /\ Taken(a, u) /\ Wall(t) = Wall(u) => t = u

AutoInv == AutoTyped /\ Batches /\ Locks /\ EditBehind /\ SlotsOnce

-----------------------------------------------------------------------------
(* Typing lemmas. *)

LEMMA RowFields ==
    /\ \A r \in AnyRowValue : r.next \in Time
    /\ \A r \in Row : r # NoRow
BY AutomationAssumption DEF AnyRowValue, Row, NoRow, Time

LEMMA PartialIntro ==
    ASSUME NEW S \in SUBSET Automations, NEW f \in [S -> AnyRowValue]
    PROVE  f \in Partial
BY Zenon DEF Partial

LEMMA PartialFields ==
    ASSUME NEW f \in Partial
    PROVE  /\ DOMAIN f \subseteq Automations
           /\ \A a \in DOMAIN f : f[a] \in AnyRowValue
<1>1. PICK S \in SUBSET Automations : f \in [S -> AnyRowValue]
  BY Zenon DEF Partial
<1> QED BY <1>1

LEMMA NoBatchType == NoBatch \in Batch
<1>1. NoFunction \in [{} -> AnyRowValue]
  BY DEF NoFunction
<1>2. NoFunction \in Partial
  BY <1>1, PartialIntro
<1> QED BY <1>2 DEF NoBatch, Batch

LEMMA MergedType ==
    ASSUME NEW r \in Row, NEW read \in Row, NEW n \in Row
    PROVE  /\ Merged(r, read, n) \in Row
           /\ Merged(r, read, n).next = IF n.next = read.next THEN r.next ELSE n.next
           /\ Merged(r, read, n).schedule = IF n.schedule = read.schedule THEN r.schedule ELSE n.schedule
           /\ Merged(r, read, n).enabled = IF n.enabled = read.enabled THEN r.enabled ELSE n.enabled
           /\ Merged(r, read, n).workspace = IF n.workspace = read.workspace THEN r.workspace ELSE n.workspace
<1> DEFINE m == Merged(r, read, n)
           e == [enabled |-> m.enabled, schedule |-> m.schedule, next |-> m.next, workspace |-> m.workspace]
<1>1. DOMAIN r = {"enabled", "schedule", "next", "workspace"}
  BY DEF Row
<1>2. m = [f \in {"enabled", "schedule", "next", "workspace"} |->
               IF n[f] = read[f] THEN r[f] ELSE n[f]]
  BY <1>1 DEF Merged
<1>3. m = e
  BY <1>2
<1>4. e \in Row
  BY <1>2 DEF Row
<1> QED BY <1>2, <1>3, <1>4

-----------------------------------------------------------------------------
(* What steps leave of the parts they do not act on. *)

(* How a row changes: it goes; nothing about its slot does; it moves to a slot of the
   future; or it moves on. *)
Moves(a) ==
    \/ row'[a] = NoRow
    \/ /\ row[a] \in Row /\ row'[a] \in Row
       /\ \/ row'[a].next = row[a].next /\ row'[a].schedule = row[a].schedule
          \/ row'[a].next > now
          \/ row'[a].next > row[a].next

(* A dispatcher that does not act keeps its part of the invariant. *)
LEMMA OtherBatch ==
    ASSUME AutoTyped, AutoTyped', NEW d \in Dispatchers, BatchOf(d),
           dispatch'[d] = dispatch[d], now <= now', refolded \subseteq refolded',
           \A a \in Automations : Moves(a),
           \A a \in Automations : rowLock[a] = d => row'[a] = row[a] /\ rowLock'[a] = d
    PROVE  BatchOf(d)'
<1>1. dispatch[d].seen \in Partial /\ dispatch[d].writes \in Partial
  BY DEF AutoTyped, Batch
<1>2. DOMAIN dispatch[d].seen \subseteq Automations /\ DOMAIN dispatch[d].writes \subseteq Automations
  BY <1>1, PartialFields
<1>3. ASSUME NEW a \in DOMAIN dispatch[d].seen
      PROVE  Selected(d, a)'
  <2>1. a \in Automations /\ Selected(d, a) /\ Moves(a)
    BY <1>2, <1>3 DEF BatchOf
  <2>2. dispatch[d].seen[a].next \in Time /\ row[a].next \in Time /\ row'[a].next \in Time
        /\ now \in Time /\ now' \in Time
    BY <2>1, RowFields DEF Selected, AutoTyped, AnyRowValue
  <2>3. \A r \in Row : r # NoRow
    BY RowFields
  <2> QED BY <2>1, <2>2, <2>3, AutomationAssumption DEF Selected, Moves, Time
<1>4. ASSUME NEW a \in DOMAIN dispatch[d].writes
      PROVE  Written(d, a)'
  <2>1. a \in Automations /\ Written(d, a)
    BY <1>2, <1>4 DEF BatchOf
  <2>2. row'[a] = row[a] /\ rowLock'[a] = d /\ (a \notin refolded' => a \notin refolded)
    BY <2>1 DEF Written
  <2> QED BY <2>1, <2>2 DEF Written, Wall
<1> QED BY <1>3, <1>4 DEF BatchOf

(* If nothing is newly taken and rows move to the future only, the slots stay in order. *)
LEMMA SlotsKept ==
    ASSUME AutoTyped, AutoTyped', SlotsOnce, now <= now', refolded \subseteq refolded',
           fires' = fires,
           \A d \in Dispatchers, a \in Automations, t \in Time :
               PendingAt(d, a, t)' => PendingAt(d, a, t),
           \A a \in Automations :
               row'[a] # NoRow =>
                 /\ row[a] # NoRow
                 /\ \/ row'[a].next = row[a].next
                    \/ /\ row'[a].next > now
                       /\ a \notin refolded' =>
                            \A t \in Time : t <= now => Wall(row'[a].next) > Wall(t)
    PROVE  SlotsOnce'
<1>1. \A a \in Automations, t \in Time : Taken(a, t)' => Taken(a, t)
  BY DEF Taken
<1>2. ASSUME NEW a \in Automations, NEW t \in Time, Taken(a, t)
      PROVE  Past(a, t)'
  <2>1. Past(a, t)
    BY <1>2 DEF SlotsOnce
  <2>2. row[a].next \in Time /\ row'[a].next \in Time /\ now \in Time /\ now' \in Time
    BY RowFields DEF AutoTyped
  <2>3. (\A u \in Time : Wall(u)' = Wall(u))
    BY DEF Wall
  <2> QED BY <2>1, <2>2, <2>3, AutomationAssumption DEF Past, Time
<1>3. \A a \in Automations, t \in Time : Taken(a, t)' => Past(a, t)'
  BY <1>1, <1>2
<1>4. \A a \in Automations, t \in Time : fires'[a][t] <= 1
  BY DEF SlotsOnce
<1>5. \A a \in Automations, t \in Time, d \in Dispatchers :
         PendingAt(d, a, t)' =>
           fires'[a][t] = 0 /\ \A e \in Dispatchers : PendingAt(e, a, t)' => e = d
  BY DEF SlotsOnce
<1>6. \A a \in Automations, t, u \in Time :
         a \notin refolded' /\ Taken(a, t)' /\ Taken(a, u)' /\ Wall(t) = Wall(u) => t = u
  BY <1>1 DEF SlotsOnce
<1> QED BY <1>3, <1>4, <1>5, <1>6 DEF SlotsOnce, Wall

-----------------------------------------------------------------------------
(* The batch. *)

LEMMA BatchType ==
    ASSUME AutoTyped, NEW d \in Dispatchers
    PROVE  /\ dispatch[d] \in Batch
           /\ DOMAIN dispatch[d].seen \subseteq Automations
           /\ DOMAIN dispatch[d].writes \subseteq Automations
           /\ \A a \in DOMAIN dispatch[d].writes : dispatch[d].writes[a] \in AnyRowValue
<1>1. dispatch[d] \in Batch /\ dispatch[d].seen \in Partial /\ dispatch[d].writes \in Partial
  BY DEF AutoTyped, Batch
<1> QED BY <1>1, PartialFields

LEMMA ExtendedWrites ==
    ASSUME NEW f \in Partial, NEW a \in Automations, NEW new \in AnyRowValue
    PROVE  [b \in DOMAIN f \cup {a} |-> IF b = a THEN new ELSE f[b]] \in Partial
<1>1. DOMAIN f \subseteq Automations /\ \A b \in DOMAIN f : f[b] \in AnyRowValue
  BY PartialFields
<1>2. [b \in DOMAIN f \cup {a} |-> IF b = a THEN new ELSE f[b]] \in [DOMAIN f \cup {a} -> AnyRowValue]
  BY <1>1
<1> QED BY <1>1, <1>2, PartialIntro

(* What a write leaves: only the batch of d and the lock of a change. *)
Wrote(d, a, new, claimed) ==
    /\ dispatch' \in [Dispatchers -> Batch]
    /\ rowLock' \in [Automations -> Dispatchers \cup {NoDispatcher}]
    /\ \A e \in Dispatchers \ {d} : dispatch'[e] = dispatch[e]
    /\ \A b \in Automations \ {a} : rowLock'[b] = rowLock[b]
    /\ dispatch'[d].at = "batch" /\ dispatch'[d].seen = dispatch[d].seen
    /\ dispatch'[d].todo = dispatch[d].todo \ {a}
    /\ IF StillThatSlot(d, a)
         THEN /\ rowLock'[a] = d
              /\ DOMAIN dispatch'[d].writes = DOMAIN dispatch[d].writes \cup {a}
              /\ dispatch'[d].writes[a] = new
              /\ \A b \in DOMAIN dispatch[d].writes \ {a} :
                   dispatch'[d].writes[b] = dispatch[d].writes[b]
              /\ dispatch'[d].fire = IF claimed THEN dispatch[d].fire \cup {a} ELSE dispatch[d].fire
         ELSE /\ rowLock' = rowLock
              /\ dispatch'[d].writes = dispatch[d].writes
              /\ dispatch'[d].fire = dispatch[d].fire

(* A write of a dispatcher, its row still at the slot it selected or not. *)
LEMMA WriteEffect ==
    ASSUME AutoTyped, NEW d \in Dispatchers, NEW a \in Automations, NEW new, NEW claimed \in BOOLEAN,
           StillThatSlot(d, a) => new \in Row, Write(d, a, new, claimed)
    PROVE  Wrote(d, a, new, claimed)
<1> USE DEF Wrote
<1> DEFINE b0 == dispatch[d]
           ws == [b \in DOMAIN b0.writes \cup {a} |-> IF b = a THEN new ELSE b0.writes[b]]
           fs == IF claimed THEN b0.fire \cup {a} ELSE b0.fire
           done == [b0 EXCEPT !.todo = b0.todo \ {a}, !.writes = ws, !.fire = fs]
           dropped == [b0 EXCEPT !.todo = b0.todo \ {a}]
<1>1. b0 \in Batch /\ b0.writes \in Partial /\ b0.at = "batch"
  BY BatchType DEF Write, AutoTyped, Batch
<1>2. CASE StillThatSlot(d, a)
  <2>1. dispatch' = [dispatch EXCEPT ![d] = done] /\ rowLock' = [rowLock EXCEPT ![a] = d]
    BY <1>2 DEF Write
  <2>2. ws \in Partial
    BY <1>1, <1>2, ExtendedWrites DEF AnyRowValue
  <2>3. fs \in SUBSET Automations
    BY <1>1 DEF Batch
  <2>4. done \in Batch /\ done.at = "batch" /\ done.seen = b0.seen /\ done.todo = b0.todo \ {a}
        /\ done.writes = ws /\ done.fire = fs
    <3> HIDE DEF ws, fs
    <3> QED BY <1>1, <2>2, <2>3 DEF Batch
  <2>5. dispatch'[d] = done /\ dispatch' \in [Dispatchers -> Batch]
        /\ \A e \in Dispatchers \ {d} : dispatch'[e] = dispatch[e]
    <3> HIDE DEF done
    <3> QED BY <2>1, <2>4 DEF AutoTyped
  <2>6. DOMAIN ws = DOMAIN b0.writes \cup {a} /\ ws[a] = new
        /\ \A b \in DOMAIN b0.writes \ {a} : ws[b] = b0.writes[b]
    OBVIOUS
  <2>7. /\ rowLock'[a] = d /\ rowLock' \in [Automations -> Dispatchers \cup {NoDispatcher}]
        /\ \A b \in Automations \ {a} : rowLock'[b] = rowLock[b]
    BY <2>1 DEF AutoTyped
  <2> HIDE DEF done, ws
  <2> QED BY <1>2, <2>4, <2>5, <2>6, <2>7
<1>3. CASE ~StillThatSlot(d, a)
  <2>1. dispatch' = [dispatch EXCEPT ![d] = dropped] /\ rowLock' = rowLock
    BY <1>3 DEF Write
  <2>2. dropped \in Batch /\ dropped.at = "batch" /\ dropped.seen = b0.seen
        /\ dropped.todo = b0.todo \ {a} /\ dropped.writes = b0.writes /\ dropped.fire = b0.fire
    BY <1>1 DEF Batch
  <2>3. dispatch'[d] = dropped /\ dispatch' \in [Dispatchers -> Batch]
        /\ \A e \in Dispatchers \ {d} : dispatch'[e] = dispatch[e]
    <3> HIDE DEF dropped
    <3> QED BY <2>1, <2>2 DEF AutoTyped
  <2> HIDE DEF dropped
  <2> QED BY <1>3, <2>1, <2>2, <2>3 DEF AutoTyped
<1> QED BY <1>2, <1>3

(* A dispatcher that writes a row keeps the invariant. *)
LEMMA WriteKeeps ==
    ASSUME AutoInv, NEW d \in Dispatchers, NEW a \in Automations, NEW new, NEW claimed \in BOOLEAN,
           StillThatSlot(d, a) =>
             /\ new \in Row /\ new.schedule = row[a].schedule
             /\ IF claimed
                  THEN /\ new.next > row[a].next
                       /\ a \notin refolded' => Wall(new.next) > Wall(row[a].next)
                       /\ new.enabled = row[a].enabled
                  ELSE new.next = row[a].next,
           refolded \subseteq refolded',
           Write(d, a, new, claimed)
    PROVE  AutoInv'
<1>0. /\ now' = now /\ deleted' = deleted /\ row' = row /\ edit' = edit /\ fires' = fires
      /\ dispatch[d].at = "batch" /\ a \in dispatch[d].todo /\ rowLock[a] = NoDispatcher
  BY DEF Write
<1>i. AutoTyped /\ Batches /\ Locks /\ EditBehind /\ SlotsOnce
  BY DEF AutoInv
<1>h. StillThatSlot(d, a) => new \in Row
  OBVIOUS
<1>w. Wrote(d, a, new, claimed)
  BY <1>i, <1>h, WriteEffect
<1>1. /\ dispatch' \in [Dispatchers -> Batch]
      /\ rowLock' \in [Automations -> Dispatchers \cup {NoDispatcher}]
      /\ \A e \in Dispatchers \ {d} : dispatch'[e] = dispatch[e]
      /\ \A b \in Automations \ {a} : rowLock'[b] = rowLock[b]
      /\ dispatch'[d].at = "batch" /\ dispatch'[d].seen = dispatch[d].seen
      /\ dispatch'[d].todo = dispatch[d].todo \ {a}
  BY <1>w DEF Wrote
<1>e. IF StillThatSlot(d, a)
        THEN /\ rowLock'[a] = d
             /\ DOMAIN dispatch'[d].writes = DOMAIN dispatch[d].writes \cup {a}
             /\ dispatch'[d].writes[a] = new
             /\ \A b \in DOMAIN dispatch[d].writes \ {a} :
                  dispatch'[d].writes[b] = dispatch[d].writes[b]
             /\ dispatch'[d].fire = IF claimed THEN dispatch[d].fire \cup {a} ELSE dispatch[d].fire
        ELSE /\ rowLock' = rowLock
             /\ dispatch'[d].writes = dispatch[d].writes
             /\ dispatch'[d].fire = dispatch[d].fire
  BY <1>w DEF Wrote
<1>2. AutoTyped'
  BY <1>0, <1>1, <1>i DEF AutoTyped
<1>3. \A b \in Automations : Moves(b)
  BY <1>0, <1>i DEF Moves, AutoTyped, AnyRowValue
<1>4. ASSUME NEW e \in Dispatchers \ {d}
      PROVE  BatchOf(e)'
  <2>1. BatchOf(e) /\ dispatch'[e] = dispatch[e]
    BY <1>1, <1>i DEF Batches
  <2>2. \A b \in Automations : rowLock[b] = e => row'[b] = row[b] /\ rowLock'[b] = e
    BY <1>0, <1>1, AutomationAssumption
  <2>3. now <= now'
    BY <1>0, <1>i, AutomationAssumption DEF AutoTyped, Time
  <2> QED BY <1>2, <1>3, <1>i, <2>1, <2>2, <2>3, OtherBatch
<1>5. BatchOf(d)'
  <2>1. BatchOf(d)
    BY <1>i DEF Batches
  <2>2. DOMAIN dispatch[d].seen \subseteq Automations /\ DOMAIN dispatch[d].writes \subseteq Automations
    BY <1>i, BatchType
  <2>3. a \in DOMAIN dispatch[d].seen
    BY <1>0, <2>1 DEF BatchOf
  <2>4. a \notin DOMAIN dispatch[d].writes /\ a \notin dispatch[d].fire
    BY <1>0, <2>1, AutomationAssumption DEF BatchOf, Written
  <2>5. \A b \in DOMAIN dispatch'[d].seen : Selected(d, b)'
    BY <1>0, <1>1, <2>1 DEF BatchOf, Selected
  <2>6. /\ dispatch'[d].todo \cup dispatch'[d].fire \cup DOMAIN dispatch'[d].writes
             \subseteq DOMAIN dispatch'[d].seen
        /\ dispatch'[d].fire \subseteq DOMAIN dispatch'[d].writes
    BY <1>0, <1>1, <1>e, <2>1, <2>3 DEF BatchOf
  <2>7. ASSUME NEW b \in DOMAIN dispatch'[d].writes
        PROVE  Written(d, b)'
    <3>1. CASE b # a
      <4>1. b \in DOMAIN dispatch[d].writes /\ Written(d, b) /\ b \in Automations
        BY <1>e, <2>1, <2>2, <2>7, <3>1 DEF BatchOf
      <4>2. dispatch'[d].writes[b] = dispatch[d].writes[b] /\ rowLock'[b] = d
            /\ (b \in dispatch'[d].fire <=> b \in dispatch[d].fire)
        BY <1>1, <1>e, <3>1, <4>1 DEF Written
      <4> QED BY <1>0, <1>1, <4>1, <4>2 DEF Written, Wall
    <3>2. CASE b = a
      <4>1. StillThatSlot(d, a)
        BY <1>e, <2>4, <2>7, <3>2
      <4>2. row[a] \in Row /\ row[a].next = dispatch[d].seen[a].next
        BY <1>i, <4>1 DEF StillThatSlot, AutoTyped, AnyRowValue
      <4>3. dispatch'[d].writes[a] = new /\ rowLock'[a] = d
            /\ (a \in dispatch'[d].fire <=> claimed)
        BY <1>e, <2>4, <4>1
      <4> QED BY <1>0, <1>1, <3>2, <4>1, <4>2, <4>3 DEF Written, Wall
    <3> QED BY <3>1, <3>2
  <2> QED BY <2>5, <2>6, <2>7 DEF BatchOf
<1>6. Locks'
  <2> SUFFICES ASSUME NEW b \in Automations, rowLock'[b] # NoDispatcher
               PROVE  b \in DOMAIN dispatch'[rowLock'[b]].writes
    BY DEF Locks
  <2>1. CASE rowLock'[b] # rowLock[b]
    BY <1>1, <1>e, <2>1
  <2>2. CASE rowLock'[b] = rowLock[b]
    <3>1. b \in DOMAIN dispatch[rowLock[b]].writes /\ rowLock[b] \in Dispatchers
      BY <1>i, <2>2 DEF Locks, AutoTyped
    <3> QED BY <1>1, <1>e, <2>2, <3>1
  <2> QED BY <2>1, <2>2
<1>7. EditBehind'
  BY <1>0, <1>i DEF EditBehind
<1>8. SlotsOnce'
  <2>1. \A e \in Dispatchers, b \in Automations, t \in Time :
           PendingAt(e, b, t)' => PendingAt(e, b, t)
    BY <1>1 DEF PendingAt, Pending
  <2>2. now <= now'
    BY <1>0, <1>i, AutomationAssumption DEF AutoTyped, Time
  <2> QED BY <1>0, <1>2, <1>i, <2>1, <2>2, SlotsKept
<1> QED BY <1>2, <1>4, <1>5, <1>6, <1>7, <1>8 DEF AutoInv, Batches

(* On one side of the clock change the wall clock runs as time does. *)
LEMMA WallRuns ==
    ASSUME NEW t \in Time, NEW u \in Time, t <= u, ~(t < Fold /\ Fold <= u)
    PROVE  Wall(t) <= Wall(u)
BY AutomationAssumption DEF Wall, Time

LEMMA ClaimKeeps ==
    ASSUME AutoInv, NEW d \in Dispatchers, NEW a \in Automations, ClaimSlot(d, a)
    PROVE  AutoInv'
<1> DEFINE b == dispatch[d]
           r == NextRun(b.seen[a].schedule)
<1>1. AutoTyped /\ BatchOf(d) /\ a \in b.todo /\ Computable(b.seen[a].schedule)
  BY DEF AutoInv, Batches, ClaimSlot
<1>2. Selected(d, a)
  BY <1>1 DEF BatchOf
<1>3. b.seen[a].schedule \in Crons /\ b.seen[a].next \in Time /\ b.seen[a].next <= now
      /\ now \in Time
  BY <1>1, <1>2 DEF Selected, Row, AutoTyped
<1>4. r \in Time /\ r > now /\ Wall(r) > Wall(now)
  BY <1>1, <1>3, NextRunIsLater DEF Computable
<1>5. PICK new : new = [row[a] EXCEPT !.next = r]
  OBVIOUS
<1>6. Write(d, a, new, TRUE)
  BY <1>5 DEF ClaimSlot
<1>7. refolded \subseteq refolded'
  BY DEF ClaimSlot
<1>8. ASSUME StillThatSlot(d, a)
      PROVE  /\ new \in Row /\ new.schedule = row[a].schedule
             /\ new.next > row[a].next
             /\ a \notin refolded' => Wall(new.next) > Wall(row[a].next)
             /\ new.enabled = row[a].enabled
  <2>1. row[a] \in Row /\ row[a].next = b.seen[a].next
    BY <1>1, <1>8 DEF StillThatSlot, AutoTyped, AnyRowValue
  <2>2. new \in Row /\ new.schedule = row[a].schedule /\ new.next = r /\ new.enabled = row[a].enabled
    BY <1>4, <1>5, <2>1 DEF Row
  <2>3. new.next > row[a].next
    BY <1>3, <1>4, <2>1, <2>2, AutomationAssumption DEF Time
  <2>4. ASSUME a \notin refolded'
        PROVE  Wall(new.next) > Wall(row[a].next)
    <3>1. ~(b.seen[a].next < Fold /\ Fold <= now)
      BY <2>4 DEF ClaimSlot
    <3>2. Wall(b.seen[a].next) <= Wall(now)
      BY <1>3, <3>1, WallRuns
    <3>3. Wall(b.seen[a].next) \in Int /\ Wall(now) \in Int /\ Wall(r) \in Int
      BY <1>3, <1>4, WallType
    <3>4. Wall(r) > Wall(b.seen[a].next)
      BY <1>4, <3>2, <3>3
    <3> QED BY <2>1, <2>2, <3>4
  <2> QED BY <2>2, <2>3, <2>4
<1> HIDE DEF r
<1> QED BY <1>6, <1>7, <1>8, WriteKeeps

LEMMA DisableKeeps ==
    ASSUME AutoInv, NEW d \in Dispatchers, NEW a \in Automations, DisableUncomputable(d, a)
    PROVE  AutoInv'
<1>1. AutoTyped
  BY DEF AutoInv
<1>2. PICK new : new = [row[a] EXCEPT !.enabled = FALSE]
  OBVIOUS
<1>3. Write(d, a, new, FALSE) /\ refolded' = refolded
  BY <1>2 DEF DisableUncomputable
<1>4. ASSUME StillThatSlot(d, a)
      PROVE  new \in Row /\ new.schedule = row[a].schedule /\ new.next = row[a].next
  <2>1. row[a] \in Row
    BY <1>1, <1>4 DEF StillThatSlot, AutoTyped, AnyRowValue
  <2> QED BY <1>2, <2>1 DEF Row
<1> QED BY <1>3, <1>4, WriteKeeps

(* A dispatcher that neither writes nor commits keeps the invariant if it keeps its own
   part: it may let go of locks and turn off a row that is not locked. *)
LEMMA DispatcherKeeps ==
    ASSUME AutoInv, NEW d \in Dispatchers, NEW n \in Batch,
           dispatch' = [dispatch EXCEPT ![d] = n],
           UNCHANGED <<now, deleted, edit, refolded>>,
           row' \in [Automations -> AnyRowValue],
           \A a \in Automations :
               \/ row'[a] = row[a]
               \/ /\ rowLock[a] = NoDispatcher /\ row[a] \in Row /\ row'[a] \in Row
                  /\ row'[a].next = row[a].next /\ row'[a].schedule = row[a].schedule,
           rowLock' \in [Automations -> Dispatchers \cup {NoDispatcher}],
           \A a \in Automations :
               \/ rowLock'[a] = rowLock[a] /\ (rowLock[a] = d => a \in DOMAIN n.writes)
               \/ rowLock[a] = d /\ rowLock'[a] = NoDispatcher,
           BatchOf(d)',
           fires' \in [Automations -> [Time -> Nat]],
           \/ fires' = fires /\ \A a \in Automations, t \in Time :
                                  PendingAt(d, a, t)' => PendingAt(d, a, t)
           \/ SlotsOnce'
    PROVE  AutoInv'
<1>i. AutoTyped /\ Batches /\ Locks /\ EditBehind /\ SlotsOnce
  BY DEF AutoInv
<1>1. /\ dispatch' \in [Dispatchers -> Batch] /\ dispatch'[d] = n
      /\ \A e \in Dispatchers \ {d} : dispatch'[e] = dispatch[e]
  BY <1>i DEF AutoTyped
<1>2. AutoTyped'
  BY <1>1, <1>i DEF AutoTyped
<1>3. \A b \in Automations : Moves(b)
  BY <1>i DEF Moves, AutoTyped, AnyRowValue
<1>4. now <= now'
  BY <1>i, AutomationAssumption DEF AutoTyped, Time
<1>5. ASSUME NEW e \in Dispatchers \ {d}
      PROVE  BatchOf(e)'
  <2>1. BatchOf(e) /\ dispatch'[e] = dispatch[e]
    BY <1>1, <1>i DEF Batches
  <2>2. \A b \in Automations : rowLock[b] = e => row'[b] = row[b] /\ rowLock'[b] = e
    BY AutomationAssumption
  <2> QED BY <1>2, <1>3, <1>4, <1>i, <2>1, <2>2, OtherBatch
<1>6. Locks'
  <2> SUFFICES ASSUME NEW b \in Automations, rowLock'[b] # NoDispatcher
               PROVE  b \in DOMAIN dispatch'[rowLock'[b]].writes
    BY DEF Locks
  <2>1. rowLock'[b] = rowLock[b] /\ rowLock[b] \in Dispatchers
        /\ (rowLock[b] = d => b \in DOMAIN n.writes)
    BY <1>i DEF AutoTyped
  <2>2. b \in DOMAIN dispatch[rowLock[b]].writes
    BY <1>i, <2>1 DEF Locks
  <2> QED BY <1>1, <2>1, <2>2
<1>7. EditBehind'
  <2>1. CASE edit = NoEdit
    BY <2>1 DEF EditBehind
  <2>2. CASE edit # NoEdit
    <3>1. edit.automation \in Automations
      BY <1>i, <2>2 DEF AutoTyped
    <3>2. \/ row'[edit.automation] = row[edit.automation]
          \/ /\ row[edit.automation] \in Row
             /\ row'[edit.automation].next = row[edit.automation].next
      BY <3>1
    <3>3. \A r \in Row : r # NoRow
      BY RowFields
    <3> QED BY <1>i, <2>2, <3>1, <3>2, <3>3 DEF EditBehind
  <2> QED BY <2>1, <2>2
<1>8. CASE /\ fires' = fires
           /\ \A a \in Automations, t \in Time : PendingAt(d, a, t)' => PendingAt(d, a, t)
  <2>1. \A e \in Dispatchers, b \in Automations, t \in Time :
           PendingAt(e, b, t)' => PendingAt(e, b, t)
    BY <1>1, <1>8 DEF PendingAt, Pending
  <2>2. \A b \in Automations : row'[b] # NoRow => row[b] # NoRow /\ row'[b].next = row[b].next
    BY RowFields
  <2>3. SlotsOnce'
    BY <1>2, <1>4, <1>8, <1>i, <2>1, <2>2, SlotsKept
  <2> QED BY <1>1, <1>2, <1>5, <1>6, <1>7, <2>3 DEF AutoInv, Batches
<1>9. CASE SlotsOnce'
  BY <1>1, <1>2, <1>5, <1>6, <1>7, <1>9 DEF AutoInv, Batches
<1> QED BY <1>8, <1>9

LEMMA EmptyBatch ==
    ASSUME NEW d \in Dispatchers, dispatch'[d] = NoBatch
    PROVE  BatchOf(d)' /\ \A a \in Automations, t \in Time : ~PendingAt(d, a, t)'
<1>1. DOMAIN NoFunction = {}
  BY DEF NoFunction
<1>2. NoBatch.at = "idle" /\ NoBatch.seen = NoFunction /\ NoBatch.todo = {}
      /\ NoBatch.writes = NoFunction /\ NoBatch.fire = {}
  BY DEF NoBatch
<1> QED BY <1>1, <1>2 DEF BatchOf, PendingAt, Pending

LEMMA SelectKeeps ==
    ASSUME AutoInv, NEW d \in Dispatchers, SelectDue(d)
    PROVE  AutoInv'
<1> DEFINE due == {a \in Automations : DueRow(a)}
           s == [a \in due |-> row[a]]
           n == [NoBatch EXCEPT !.at = "batch", !.todo = due, !.seen = s]
<1>1. AutoTyped /\ Locks /\ Batches
  BY DEF AutoInv
<1>2. dispatch' = [dispatch EXCEPT ![d] = n] /\ dispatch[d].at = "idle"
      /\ UNCHANGED <<now, deleted, row, rowLock, edit, fires, refolded>>
  BY DEF SelectDue
<1>3. s \in Partial /\ DOMAIN s = due
  <2>1. s \in [due -> AnyRowValue] /\ due \in SUBSET Automations
    BY <1>1 DEF AutoTyped
  <2> QED BY <2>1, PartialIntro
<1>4. n.at = "batch" /\ n.todo = due /\ n.seen = s /\ n.writes = NoFunction /\ n.fire = {}
  BY DEF NoBatch
<1>5. n \in Batch
  <2> HIDE DEF s, due
  <2>1. due \in SUBSET Automations
    BY DEF due
  <2> QED BY <1>3, <2>1, NoBatchType DEF Batch
<1>6. dispatch'[d] = n
  BY <1>1, <1>2 DEF AutoTyped
<1>7. DOMAIN NoFunction = {}
  BY DEF NoFunction
<1>8. \A a \in due : Selected(d, a)'
  <2> TAKE a \in due
  <2>1. row[a] \in Row /\ row[a].next <= now /\ s[a] = row[a]
    BY <1>1 DEF DueRow, AutoTyped, AnyRowValue
  <2>2. row[a].next \in Time
    BY <2>1 DEF Row
  <2>3. now \in Time
    BY <1>1 DEF AutoTyped
  <2> HIDE DEF s, due, n
  <2>4. dispatch'[d].seen[a] = row[a] /\ row'[a] = row[a] /\ now' = now
    BY <1>2, <1>4, <1>6, <2>1
  <2> QED BY <2>1, <2>2, <2>3, <2>4, AutomationAssumption DEF Selected, Time
<1>9. BatchOf(d)'
  <2> HIDE DEF s, due, n
  <2> QED BY <1>3, <1>4, <1>6, <1>7, <1>8 DEF BatchOf
<1>10. \A a \in Automations, t \in Time : ~PendingAt(d, a, t)'
  <2> HIDE DEF n
  <2> QED BY <1>4, <1>6 DEF PendingAt, Pending
<1>11. \A a \in Automations : rowLock[a] # d
  <2> SUFFICES ASSUME NEW a \in Automations, rowLock[a] = d PROVE FALSE
    OBVIOUS
  <2>1. a \in DOMAIN dispatch[d].writes
    BY <1>1, AutomationAssumption DEF Locks
  <2>2. Written(d, a)
    BY <1>1, <2>1 DEF Batches, BatchOf
  <2> QED BY <1>2, <2>2 DEF Written
<1> HIDE DEF n
<1> QED BY <1>1, <1>2, <1>5, <1>9, <1>10, <1>11, DispatcherKeeps DEF AutoTyped

LEMMA SkipKeeps ==
    ASSUME AutoInv, NEW d \in Dispatchers, NEW a \in Automations, SkipRow(d, a)
    PROVE  AutoInv'
<1> DEFINE b == dispatch[d]
           n == [b EXCEPT !.todo = b.todo \ {a}]
<1>1. AutoTyped /\ Locks /\ BatchOf(d)
  BY DEF AutoInv, Batches
<1>2. dispatch' = [dispatch EXCEPT ![d] = n]
      /\ UNCHANGED <<now, deleted, row, rowLock, edit, fires, refolded>>
  BY DEF SkipRow
<1>3. n \in Batch /\ n.at = b.at /\ n.todo \subseteq b.todo /\ n.seen = b.seen
      /\ n.writes = b.writes /\ n.fire = b.fire
  BY <1>1 DEF AutoTyped, Batch
<1>4. dispatch'[d] = n
  BY <1>1, <1>2 DEF AutoTyped
<1> HIDE DEF n
<1>5. BatchOf(d)'
  <2>1. \A x \in DOMAIN b.seen : Selected(d, x)'
    BY <1>1, <1>2, <1>3, <1>4 DEF BatchOf, Selected
  <2>2. ASSUME NEW x \in DOMAIN b.writes
        PROVE  Written(d, x)'
    <3>1. Written(d, x)
      BY <1>1 DEF BatchOf
    <3>2. /\ dispatch'[d].at = dispatch[d].at /\ dispatch'[d].seen = dispatch[d].seen
          /\ dispatch'[d].writes = dispatch[d].writes /\ dispatch'[d].fire = dispatch[d].fire
      BY <1>3, <1>4
    <3> QED BY <1>2, <3>1, <3>2 DEF Written, Wall
  <2> QED BY <1>1, <1>3, <1>4, <2>1, <2>2 DEF BatchOf
<1>6. \A x \in Automations, t \in Time : PendingAt(d, x, t)' => PendingAt(d, x, t)
  BY <1>3, <1>4 DEF PendingAt, Pending
<1>7. \A x \in Automations : rowLock[x] = d => x \in DOMAIN n.writes
  BY <1>1, <1>3, AutomationAssumption DEF Locks
<1> QED BY <1>1, <1>2, <1>3, <1>5, <1>6, <1>7, DispatcherKeeps DEF AutoTyped

LEMMA AbandonKeeps ==
    ASSUME AutoInv, NEW d \in Dispatchers, AbandonBatch(d)
    PROVE  AutoInv'
<1>1. AutoTyped
  BY DEF AutoInv
<1>2. dispatch' = [dispatch EXCEPT ![d] = NoBatch]
      /\ rowLock' = [a \in Automations |-> IF rowLock[a] = d THEN NoDispatcher ELSE rowLock[a]]
      /\ UNCHANGED <<now, deleted, row, edit, fires, refolded>>
  BY DEF AbandonBatch
<1>3. dispatch'[d] = NoBatch
  BY <1>1, <1>2 DEF AutoTyped
<1>4. rowLock' \in [Automations -> Dispatchers \cup {NoDispatcher}]
  BY <1>1, <1>2 DEF AutoTyped
<1>5. \A a \in Automations :
         \/ rowLock'[a] = rowLock[a] /\ rowLock[a] # d
         \/ rowLock[a] = d /\ rowLock'[a] = NoDispatcher
  BY <1>2
<1>6. BatchOf(d)' /\ \A a \in Automations, t \in Time : ~PendingAt(d, a, t)'
  BY <1>3, EmptyBatch
<1> QED BY <1>1, <1>2, <1>4, <1>5, <1>6, NoBatchType, DispatcherKeeps DEF AutoTyped

-----------------------------------------------------------------------------
(* What follows the commit. *)

FiredBatch(d, a) ==
    IF dispatch[d].fire = {a} THEN NoBatch ELSE [dispatch[d] EXCEPT !.fire = @ \ {a}]

(* Dispatcher d is done with automation a: it has no write pending, and what it still has
   to run is the rest. *)
LEMMA FiredEffect ==
    ASSUME AutoTyped, Batches, Locks, NEW d \in Dispatchers, NEW a \in Automations,
           dispatch[d].at = "firing", a \in dispatch[d].fire, Fired(d, a)
    PROVE  /\ FiredBatch(d, a) \in Batch
           /\ dispatch' = [dispatch EXCEPT ![d] = FiredBatch(d, a)]
           /\ dispatch'[d] = FiredBatch(d, a)
           /\ \A e \in Dispatchers \ {d} : dispatch'[e] = dispatch[e]
           /\ \A b \in Automations : rowLock[b] # d
           /\ dispatch'[d] = NoBatch
              \/ /\ dispatch'[d].at = "firing" /\ dispatch'[d].seen = dispatch[d].seen
                 /\ dispatch'[d].todo = dispatch[d].todo /\ DOMAIN dispatch'[d].writes = {}
                 /\ dispatch'[d].fire = dispatch[d].fire \ {a}
           /\ \A b \in Automations, t \in Time : PendingAt(d, b, t)' <=> PendingAt(d, b, t) /\ b # a
<1> DEFINE b == dispatch[d]
           n == FiredBatch(d, a)
           m == [b EXCEPT !.fire = b.fire \ {a}]
<1>1. b \in Batch
  BY DEF AutoTyped
<1>2. m \in Batch /\ m.at = b.at /\ m.seen = b.seen /\ m.todo = b.todo /\ m.writes = b.writes
      /\ m.fire = b.fire \ {a}
  BY <1>1 DEF Batch
<1>3. n = IF b.fire = {a} THEN NoBatch ELSE m
  BY DEF FiredBatch
<1>4. n \in Batch
  <2> HIDE DEF n, m
  <2> QED BY <1>2, <1>3, NoBatchType
<1>5. dispatch' = [dispatch EXCEPT ![d] = n]
  BY DEF Fired, FiredBatch
<1>6. dispatch'[d] = n /\ \A e \in Dispatchers \ {d} : dispatch'[e] = dispatch[e]
  <2> HIDE DEF n
  <2> QED BY <1>5 DEF AutoTyped
<1>7. DOMAIN b.writes = {}
  BY DEF Batches, BatchOf, Written
<1>8. \A c \in Automations : rowLock[c] # d
  BY <1>7, AutomationAssumption DEF Locks
<1>9. ASSUME NEW c \in Automations, NEW t \in Time
      PROVE  PendingAt(d, c, t)' <=> PendingAt(d, c, t) /\ c # a
  <2> HIDE DEF n, m
  <2>1. CASE b.fire = {a}
    <3>1. ~PendingAt(d, c, t)'
      BY <1>3, <1>6, <2>1, EmptyBatch
    <3> QED BY <2>1, <3>1 DEF PendingAt, Pending
  <2>2. CASE b.fire # {a}
    BY <1>2, <1>3, <1>6, <2>2 DEF PendingAt, Pending
  <2> QED BY <2>1, <2>2
<1>10. n = NoBatch
       \/ /\ n.at = "firing" /\ n.seen = b.seen /\ n.todo = b.todo /\ DOMAIN n.writes = {}
          /\ n.fire = b.fire \ {a}
  <2> HIDE DEF n, m
  <2> QED BY <1>2, <1>3, <1>7
<1> HIDE DEF m
<1> QED BY <1>4, <1>5, <1>6, <1>8, <1>9, <1>10

(* What a dispatcher still has to run remains selected. *)
LEMMA FiredBatchKept ==
    ASSUME AutoTyped, AutoTyped', Batches, Locks, NEW d \in Dispatchers, NEW a \in Automations,
           dispatch[d].at = "firing", a \in dispatch[d].fire, Fired(d, a), now' = now,
           \A b \in Automations : row'[b] = row[b] \/
               (row[b] \in Row /\ row'[b] \in Row /\ row'[b].next = row[b].next
                  /\ row'[b].schedule = row[b].schedule)
    PROVE  BatchOf(d)'
<1>1. CASE dispatch'[d] = NoBatch
  BY <1>1, EmptyBatch
<1>2. CASE dispatch'[d] # NoBatch
  <2>1. /\ dispatch'[d].at = "firing" /\ dispatch'[d].seen = dispatch[d].seen
        /\ dispatch'[d].todo = dispatch[d].todo /\ DOMAIN dispatch'[d].writes = {}
        /\ dispatch'[d].fire = dispatch[d].fire \ {a}
    BY <1>2, FiredEffect
  <2>2. BatchOf(d) /\ DOMAIN dispatch[d].seen \subseteq Automations
    BY BatchType DEF Batches
  <2>3. ASSUME NEW b \in DOMAIN dispatch[d].seen
        PROVE  Selected(d, b)'
    <3>1. Selected(d, b) /\ b \in Automations
      BY <2>2 DEF BatchOf
    <3>2. row'[b] # NoRow => row[b] # NoRow /\ row'[b].next = row[b].next
                               /\ row'[b].schedule = row[b].schedule
      BY <3>1, RowFields
    <3> QED BY <2>1, <3>1, <3>2 DEF Selected
  <2> QED BY <2>1, <2>2, <2>3 DEF BatchOf
<1> QED BY <1>1, <1>2

(* The turn is started or is not: the slot was pending, and counts from now on. *)
LEMMA FireKeeps ==
    ASSUME AutoInv, NEW d \in Dispatchers, NEW a \in Automations, Fire(d, a)
    PROVE  AutoInv'
<1>i. AutoTyped /\ Batches /\ Locks /\ SlotsOnce
  BY DEF AutoInv
<1>1. /\ dispatch[d].at = "firing" /\ a \in dispatch[d].fire /\ Fired(d, a)
      /\ UNCHANGED <<now, deleted, row, rowLock, edit, refolded>>
  BY DEF Fire
<1>2. /\ FiredBatch(d, a) \in Batch
      /\ dispatch' = [dispatch EXCEPT ![d] = FiredBatch(d, a)]
      /\ \A e \in Dispatchers \ {d} : dispatch'[e] = dispatch[e]
      /\ \A b \in Automations : rowLock[b] # d
      /\ \A b \in Automations, t \in Time : PendingAt(d, b, t)' <=> PendingAt(d, b, t) /\ b # a
  BY <1>1, <1>i, FiredEffect
<1> DEFINE t0 == dispatch[d].seen[a].next
<1>3. t0 \in Time /\ PendingAt(d, a, t0) /\ fires[a][t0] = 0
  <2>1. Selected(d, a)
    BY <1>1, <1>i DEF Batches, BatchOf
  <2>2. t0 \in Time /\ PendingAt(d, a, t0)
    BY <1>1, <2>1 DEF Selected, Row, PendingAt, Pending
  <2> QED BY <1>i, <2>2 DEF SlotsOnce
<1>4. fires' \in [Automations -> [Time -> Nat]]
      /\ (fires' = fires \/ fires' = [fires EXCEPT ![a][t0] = @ + 1])
  <2>1. CASE fires' = fires
    BY <1>i, <2>1 DEF AutoTyped
  <2>2. CASE fires' = [fires EXCEPT ![a][t0] = @ + 1]
    <3> HIDE DEF t0
    <3>1. fires[a] \in [Time -> Nat] /\ [fires[a] EXCEPT ![t0] = @ + 1] \in [Time -> Nat]
      BY <1>3, <1>i DEF AutoTyped
    <3> QED BY <1>i, <2>2, <3>1 DEF AutoTyped
  <2> QED BY <1>1, <2>1, <2>2 DEF Fire
<1> HIDE DEF t0
<1>5. AutoTyped'
  <2>1. dispatch' \in [Dispatchers -> Batch]
    BY <1>2, <1>i DEF AutoTyped
  <2> QED BY <1>1, <1>4, <1>i, <2>1 DEF AutoTyped
<1>6. BatchOf(d)'
  BY <1>1, <1>5, <1>i, FiredBatchKept
<1>7. CASE fires' = fires
  BY <1>1, <1>2, <1>4, <1>6, <1>7, <1>i, DispatcherKeeps DEF AutoTyped
<1>8. CASE fires' = [fires EXCEPT ![a][t0] = @ + 1]
  <2>1. \A b \in Automations, t \in Time :
           fires'[b][t] = IF b = a /\ t = t0 THEN 1 ELSE fires[b][t]
    <3>1. fires[a] \in [Time -> Nat]
      BY <1>i DEF AutoTyped
    <3>2. fires' = [fires EXCEPT ![a] = [fires[a] EXCEPT ![t0] = @ + 1]]
      BY <1>8
    <3> QED BY <1>3, <1>i, <3>1, <3>2 DEF AutoTyped
  <2>2. \A e \in Dispatchers, b \in Automations, t \in Time :
           PendingAt(e, b, t)' => PendingAt(e, b, t) /\ ~(e = d /\ b = a)
    BY <1>2 DEF PendingAt, Pending
  <2>3. Taken(a, t0)
    BY <1>3 DEF Taken
  <2>4. \A b \in Automations, t \in Time : Taken(b, t)' => Taken(b, t)
    BY <2>1, <2>2, <2>3 DEF Taken
  <2>5. \A b \in Automations, t \in Time : Taken(b, t)' => Past(b, t)'
    BY <1>1, <1>i, <2>4 DEF SlotsOnce, Past, Wall
  <2>6. \A b \in Automations, t \in Time : fires'[b][t] <= 1
    BY <1>i, <2>1 DEF SlotsOnce
  <2>7. ASSUME NEW b \in Automations, NEW t \in Time, NEW e \in Dispatchers, PendingAt(e, b, t)'
        PROVE  fires'[b][t] = 0 /\ \A f \in Dispatchers : PendingAt(f, b, t)' => f = e
    <3>1. PendingAt(e, b, t) /\ ~(e = d /\ b = a)
      BY <2>2, <2>7
    <3>2. fires[b][t] = 0 /\ \A f \in Dispatchers : PendingAt(f, b, t) => f = e
      BY <1>i, <3>1 DEF SlotsOnce
    <3>3. ~(b = a /\ t = t0)
      BY <1>3, <3>1, <3>2
    <3> QED BY <2>1, <2>2, <3>2, <3>3
  <2>8. \A b \in Automations, t, u \in Time :
           b \notin refolded' /\ Taken(b, t)' /\ Taken(b, u)' /\ Wall(t) = Wall(u) => t = u
    BY <1>1, <1>i, <2>4 DEF SlotsOnce
  <2>9. SlotsOnce'
    BY <2>5, <2>6, <2>7, <2>8 DEF SlotsOnce, Wall
  <2> QED BY <1>1, <1>2, <1>4, <1>6, <1>i, <2>9, DispatcherKeeps DEF AutoTyped
<1> QED BY <1>4, <1>7, <1>8

LEMMA DisableMissingKeeps ==
    ASSUME AutoInv, NEW d \in Dispatchers, NEW a \in Automations, DisableForMissingWorkspace(d, a)
    PROVE  AutoInv'
<1>i. AutoTyped /\ Batches /\ Locks
  BY DEF AutoInv
<1>1. /\ dispatch[d].at = "firing" /\ a \in dispatch[d].fire /\ Fired(d, a)
      /\ rowLock[a] = NoDispatcher
      /\ UNCHANGED <<now, deleted, rowLock, edit, fires, refolded>>
  BY DEF DisableForMissingWorkspace
<1>2. /\ FiredBatch(d, a) \in Batch
      /\ dispatch' = [dispatch EXCEPT ![d] = FiredBatch(d, a)]
      /\ \A b \in Automations : rowLock[b] # d
      /\ \A b \in Automations, t \in Time : PendingAt(d, b, t)' <=> PendingAt(d, b, t) /\ b # a
  BY <1>1, <1>i, FiredEffect
<1>3. \/ row' = row
      \/ /\ row[a] \in Row
         /\ row' = [row EXCEPT ![a] = [row[a] EXCEPT !.enabled = FALSE]]
  BY <1>i DEF DisableForMissingWorkspace, StillPointsThere, AutoTyped, AnyRowValue
<1>4. /\ row' \in [Automations -> AnyRowValue]
      /\ \A b \in Automations :
           \/ row'[b] = row[b]
           \/ /\ rowLock[b] = NoDispatcher /\ row[b] \in Row /\ row'[b] \in Row
              /\ row'[b].next = row[b].next /\ row'[b].schedule = row[b].schedule
  <2>1. CASE row' = row
    BY <1>i, <2>1 DEF AutoTyped
  <2>2. CASE /\ row[a] \in Row
             /\ row' = [row EXCEPT ![a] = [row[a] EXCEPT !.enabled = FALSE]]
    <3> DEFINE r == [row[a] EXCEPT !.enabled = FALSE]
    <3>1. r \in Row /\ r.next = row[a].next /\ r.schedule = row[a].schedule
      BY <2>2 DEF Row
    <3> HIDE DEF r
    <3>2. row' = [row EXCEPT ![a] = r]
      BY <2>2 DEF r
    <3> QED BY <1>1, <1>i, <2>2, <3>1, <3>2 DEF AutoTyped, AnyRowValue
  <2> QED BY <1>3, <2>1, <2>2
<1>5. AutoTyped'
  <2>1. dispatch' \in [Dispatchers -> Batch]
    BY <1>2, <1>i DEF AutoTyped
  <2> QED BY <1>1, <1>4, <1>i, <2>1 DEF AutoTyped
<1>6. BatchOf(d)'
  BY <1>1, <1>4, <1>5, <1>i, FiredBatchKept
<1> QED BY <1>1, <1>2, <1>4, <1>6, <1>i, DispatcherKeeps DEF AutoTyped

-----------------------------------------------------------------------------
(* The commit: what was claimed becomes pending, and the rows are past it. *)

LEMMA CommitKeeps ==
    ASSUME AutoInv, NEW d \in Dispatchers, CommitBatch(d)
    PROVE  AutoInv'
<1> DEFINE b == dispatch[d]
           m == [b EXCEPT !.at = "firing", !.writes = NoFunction]
           n == IF b.fire = {} THEN NoBatch ELSE m
<1>i. AutoTyped /\ Batches /\ Locks /\ EditBehind /\ SlotsOnce /\ BatchOf(d)
  BY DEF AutoInv, Batches
<1>1. /\ b.at = "batch" /\ b.todo = {}
      /\ row' = [a \in Automations |-> IF rowLock[a] = d THEN b.writes[a] ELSE row[a]]
      /\ rowLock' = [a \in Automations |-> IF rowLock[a] = d THEN NoDispatcher ELSE rowLock[a]]
      /\ dispatch' = [dispatch EXCEPT ![d] = n]
      /\ UNCHANGED <<now, deleted, edit, fires, refolded>>
  BY DEF CommitBatch
<1>2. b \in Batch /\ DOMAIN b.seen \subseteq Automations /\ DOMAIN b.writes \subseteq Automations
  BY <1>i, BatchType
<1>3. /\ \A a \in Automations : rowLock[a] = d <=> a \in DOMAIN b.writes
      /\ \A a \in DOMAIN b.writes : Written(d, a)
      /\ b.fire \subseteq DOMAIN b.writes
  <2>1. \A a \in Automations : rowLock[a] = d => a \in DOMAIN b.writes
    BY <1>i, AutomationAssumption DEF Locks
  <2>2. \A a \in DOMAIN b.writes : Written(d, a)
    BY <1>i DEF BatchOf
  <2>3. b.fire \subseteq DOMAIN b.writes
    BY <1>1, <1>i DEF BatchOf
  <2> QED BY <2>1, <2>2, <2>3 DEF Written
<1>4. m \in Batch /\ m.at = "firing" /\ m.todo = {} /\ m.seen = b.seen /\ m.fire = b.fire
      /\ m.writes = NoFunction /\ DOMAIN m.writes = {}
  <2>1. NoFunction \in Partial
    BY NoBatchType DEF NoBatch, Batch
  <2>2. DOMAIN NoFunction = {}
    BY DEF NoFunction
  <2> QED BY <1>1, <1>2, <2>1, <2>2 DEF Batch
<1>5. n \in Batch
  <2> HIDE DEF m
  <2> QED BY <1>4, NoBatchType
<1>6. dispatch' \in [Dispatchers -> Batch] /\ dispatch'[d] = n
      /\ \A e \in Dispatchers \ {d} : dispatch'[e] = dispatch[e]
  <2> HIDE DEF n
  <2> QED BY <1>1, <1>5, <1>i DEF AutoTyped
(* The rows that are written. *)
<1>7. ASSUME NEW a \in Automations, rowLock[a] = d
      PROVE  /\ row'[a] = b.writes[a] /\ row[a] \in Row /\ row'[a] \in Row
             /\ row[a].next = b.seen[a].next /\ row'[a].schedule = row[a].schedule
             /\ IF a \in b.fire
                  THEN /\ row'[a].next > row[a].next
                       /\ a \notin refolded => Wall(row'[a].next) > Wall(row[a].next)
                  ELSE row'[a].next = row[a].next
             /\ a \in DOMAIN b.seen /\ row[a].next <= now
  <2>1. Written(d, a) /\ a \in DOMAIN b.seen /\ Selected(d, a)
    BY <1>3, <1>7, <1>i DEF BatchOf
  <2> QED BY <1>1, <1>7, <2>1 DEF Written, Selected
<1>8. \A a \in Automations : rowLock[a] # d => row'[a] = row[a]
  BY <1>1
<1>9. AutoTyped'
  <2>1. row' \in [Automations -> AnyRowValue]
    BY <1>1, <1>7, <1>8, <1>i DEF AutoTyped, AnyRowValue
  <2>2. rowLock' \in [Automations -> Dispatchers \cup {NoDispatcher}]
    BY <1>1, <1>i DEF AutoTyped
  <2> QED BY <1>1, <1>6, <1>i, <2>1, <2>2 DEF AutoTyped
<1>10. \A a \in Automations : Moves(a)
  <2> TAKE a \in Automations
  <2>1. CASE rowLock[a] = d
    BY <1>7, <2>1 DEF Moves
  <2>2. CASE rowLock[a] # d
    BY <1>8, <1>i, <2>2 DEF Moves, AutoTyped, AnyRowValue
  <2> QED BY <2>1, <2>2
<1>11. now <= now'
  BY <1>1, <1>i, AutomationAssumption DEF AutoTyped, Time
<1>12. ASSUME NEW e \in Dispatchers \ {d}
       PROVE  BatchOf(e)'
  <2>1. BatchOf(e) /\ dispatch'[e] = dispatch[e]
    BY <1>6, <1>i DEF Batches
  <2>2. \A a \in Automations : rowLock[a] = e => row'[a] = row[a] /\ rowLock'[a] = e
    BY <1>1, <1>8
  <2> QED BY <1>1, <1>9, <1>10, <1>11, <1>i, <2>1, <2>2, OtherBatch
<1>13. BatchOf(d)'
  <2>1. CASE b.fire = {}
    BY <1>6, <2>1, EmptyBatch
  <2>2. CASE b.fire # {}
    <3> HIDE DEF m
    <3>1. dispatch'[d] = m
      BY <1>6, <2>2
    <3>2. ASSUME NEW a \in DOMAIN b.seen
          PROVE  Selected(d, a)'
      <4>1. Selected(d, a) /\ a \in Automations
        BY <1>2, <1>i DEF BatchOf
      <4>2. dispatch'[d].seen[a] = b.seen[a] /\ now' = now
        BY <1>1, <1>4, <3>1
      <4>3. CASE rowLock[a] = d
        <5>1. row[a].next \in Time /\ row'[a].next \in Time
          BY <1>7, <4>1, <4>3, RowFields DEF AnyRowValue
        <5>2. row[a] # NoRow
          BY <1>7, <4>1, <4>3, RowFields
        <5> QED BY <1>7, <4>1, <4>2, <4>3, <5>1, <5>2, AutomationAssumption DEF Selected, Time
      <4>4. CASE rowLock[a] # d
        BY <1>8, <4>1, <4>2, <4>4 DEF Selected
      <4> QED BY <4>3, <4>4
    <3>3. DOMAIN b.seen = DOMAIN dispatch'[d].seen /\ dispatch'[d].fire \subseteq DOMAIN b.seen
      BY <1>4, <1>i, <3>1 DEF BatchOf
    <3> QED BY <1>4, <3>1, <3>2, <3>3 DEF BatchOf
  <2> QED BY <2>1, <2>2
<1>14. Locks'
  <2> SUFFICES ASSUME NEW a \in Automations, rowLock'[a] # NoDispatcher
               PROVE  a \in DOMAIN dispatch'[rowLock'[a]].writes
    BY DEF Locks
  <2>1. rowLock'[a] = rowLock[a] /\ rowLock[a] \in Dispatchers \ {d}
    BY <1>1, <1>i DEF AutoTyped
  <2>2. a \in DOMAIN dispatch[rowLock[a]].writes
    BY <1>i, <2>1 DEF Locks
  <2> QED BY <1>6, <2>1, <2>2
<1>15. EditBehind'
  <2> SUFFICES ASSUME edit # NoEdit, row'[edit.automation] # NoRow
               PROVE  edit.read.next <= row'[edit.automation].next
    BY <1>1 DEF EditBehind
  <2> DEFINE a == edit.automation
  <2>1. a \in Automations /\ edit.read \in Row
    BY <1>i DEF AutoTyped
  <2>2. edit.read.next \in Time /\ row[a].next \in Time /\ row'[a].next \in Time
    BY <1>9, <1>i, <2>1, RowFields DEF AutoTyped, AnyRowValue
  <2>3. CASE rowLock[a] = d
    <3>1. row[a] # NoRow /\ row[a].next <= row'[a].next
      BY <1>7, <2>1, <2>2, <2>3, RowFields, AutomationAssumption DEF Time
    <3> QED BY <1>i, <2>2, <3>1, AutomationAssumption DEF EditBehind, Time
  <2>4. CASE rowLock[a] # d
    BY <1>8, <1>i, <2>1, <2>4 DEF EditBehind
  <2> QED BY <2>3, <2>4
<1> HIDE DEF m
<1>16. ASSUME NEW a \in Automations, NEW t \in Time
       PROVE  PendingAt(d, a, t)' <=> a \in b.fire /\ row[a].next = t
  <2>1. CASE b.fire = {}
    BY <1>6, <2>1, EmptyBatch
  <2>2. CASE b.fire # {}
    <3>1. dispatch'[d] = m
      BY <1>6, <2>2
    <3>2. PendingAt(d, a, t)' <=> a \in b.fire /\ b.seen[a].next = t
      BY <1>4, <3>1 DEF PendingAt, Pending
    <3>3. a \in b.fire => rowLock[a] = d
      BY <1>3
    <3> QED BY <1>7, <3>2, <3>3
  <2> QED BY <2>1, <2>2
<1> HIDE DEF n
<1>17. \A e \in Dispatchers \ {d}, a \in Automations, t \in Time :
          PendingAt(e, a, t)' <=> PendingAt(e, a, t)
  BY <1>6 DEF PendingAt, Pending
<1>18. \A a \in Automations, t \in Time : ~PendingAt(d, a, t)
  BY <1>1 DEF PendingAt, Pending
<1>19. \A a \in Automations, t \in Time :
          Taken(a, t)' => Taken(a, t) \/ (a \in b.fire /\ row[a].next = t)
  BY <1>1, <1>16, <1>17 DEF Taken
(* What is claimed was not taken before, nor was its wall-clock time. *)
<1>20. ASSUME NEW a \in Automations, NEW t \in Time, a \in b.fire, Taken(a, t)
       PROVE  /\ row[a].next # t
              /\ a \notin refolded => Wall(row[a].next) # Wall(t)
  <2>1. rowLock[a] = d /\ row[a] \in Row
    BY <1>3, <1>7, <1>20
  <2>2. row[a] # NoRow /\ row[a].next \in Time
    BY <2>1, RowFields DEF AnyRowValue
  <2>3. row[a].next > t /\ (a \notin refolded => Wall(row[a].next) > Wall(t))
    BY <1>20, <1>i, <2>2 DEF SlotsOnce, Past
  <2>4. Wall(row[a].next) \in Int /\ Wall(t) \in Int
    BY <2>2, WallType
  <2> QED BY <2>2, <2>3, <2>4, AutomationAssumption DEF Time
<1>21. ASSUME NEW a \in Automations, NEW t \in Time, Taken(a, t)'
       PROVE  Past(a, t)'
  <2> SUFFICES /\ t <= now
               /\ row'[a] # NoRow => row'[a].next > t
                                       /\ (a \notin refolded => Wall(row'[a].next) > Wall(t))
    BY <1>1 DEF Past, Wall
  <2>1. /\ row[a].next \in Time /\ row'[a].next \in Time /\ now \in Time
    BY <1>9, <1>i, RowFields DEF AutoTyped
  <2>2. Wall(row[a].next) \in Int /\ Wall(row'[a].next) \in Int /\ Wall(t) \in Int
    BY <2>1, WallType
  <2>3. CASE rowLock[a] # d
    <3>1. Taken(a, t) /\ row'[a] = row[a]
      BY <1>3, <1>8, <1>19, <1>21, <2>3
    <3> QED BY <1>i, <3>1 DEF SlotsOnce, Past
  <2>4. CASE rowLock[a] = d
    <3>1. row[a] # NoRow /\ row[a].next <= row'[a].next
          /\ (a \notin refolded => Wall(row[a].next) <= Wall(row'[a].next))
          /\ row[a].next <= now
      BY <1>7, <2>1, <2>2, <2>4, RowFields, AutomationAssumption DEF Time
    <3>2. CASE Taken(a, t)
      <4>1. row[a].next > t /\ (a \notin refolded => Wall(row[a].next) > Wall(t)) /\ t <= now
        BY <1>i, <3>1, <3>2 DEF SlotsOnce, Past
      <4> QED BY <2>1, <2>2, <3>1, <4>1, AutomationAssumption DEF Time
    <3>3. CASE a \in b.fire /\ row[a].next = t
      BY <1>7, <2>4, <3>1, <3>3
    <3> QED BY <1>19, <1>21, <3>2, <3>3
  <2> QED BY <2>3, <2>4
<1>22. ASSUME NEW a \in Automations, NEW t \in Time, NEW e \in Dispatchers, PendingAt(e, a, t)'
       PROVE  fires'[a][t] = 0 /\ \A f \in Dispatchers : PendingAt(f, a, t)' => f = e
  <2>1. CASE a \in b.fire /\ row[a].next = t
    <3>1. ~Taken(a, t)
      BY <1>20, <2>1
    <3>2. fires[a][t] = 0 /\ \A f \in Dispatchers : ~PendingAt(f, a, t)
      BY <1>i, <3>1 DEF Taken, AutoTyped
    <3>3. e = d /\ \A f \in Dispatchers : PendingAt(f, a, t)' => f = d
      BY <1>17, <1>22, <3>2
    <3> QED BY <1>1, <3>2, <3>3
  <2>2. CASE ~(a \in b.fire /\ row[a].next = t)
    <3>1. \A f \in Dispatchers : PendingAt(f, a, t)' => PendingAt(f, a, t)
      BY <1>16, <1>17, <2>2
    <3> QED BY <1>1, <1>22, <1>i, <3>1 DEF SlotsOnce
  <2> QED BY <2>1, <2>2
<1>23. ASSUME NEW a \in Automations, NEW t \in Time, NEW u \in Time, a \notin refolded,
              Taken(a, t)', Taken(a, u)', Wall(t) = Wall(u)
       PROVE  t = u
  BY <1>19, <1>20, <1>23, <1>i DEF SlotsOnce
<1>24. SlotsOnce'
  <2>1. \A a \in Automations, t \in Time : fires'[a][t] <= 1
    BY <1>1, <1>i DEF SlotsOnce
  <2>2. \A a \in Automations, t, u \in Time :
           a \notin refolded' /\ Taken(a, t)' /\ Taken(a, u)' /\ Wall(t)' = Wall(u)' => t = u
    BY <1>1, <1>23 DEF Wall
  <2> QED BY <1>21, <1>22, <2>1, <2>2 DEF SlotsOnce
<1> QED BY <1>9, <1>12, <1>13, <1>14, <1>15, <1>24 DEF AutoInv, Batches

-----------------------------------------------------------------------------
(* The owner and time. *)

LEMMA OwnerKeeps ==
    ASSUME AutoInv, AutoTyped', UNCHANGED <<dispatch, rowLock, fires>>,
           now <= now', refolded \subseteq refolded',
           \A a \in Automations : Moves(a) /\ (rowLock[a] # NoDispatcher => row'[a] = row[a]),
           \A a \in Automations :
               row'[a] # NoRow =>
                 /\ row[a] # NoRow
                 /\ \/ row'[a].next = row[a].next
                    \/ /\ row'[a].next > now
                       /\ a \notin refolded' =>
                            \A t \in Time : t <= now => Wall(row'[a].next) > Wall(t),
           EditBehind'
    PROVE  AutoInv'
<1>i. AutoTyped /\ Batches /\ Locks /\ SlotsOnce
  BY DEF AutoInv
<1>1. ASSUME NEW d \in Dispatchers
      PROVE  BatchOf(d)'
  <2>1. BatchOf(d) /\ dispatch'[d] = dispatch[d]
    BY <1>i DEF Batches
  <2>2. \A a \in Automations : rowLock[a] = d => row'[a] = row[a] /\ rowLock'[a] = d
    BY AutomationAssumption
  <2> QED BY <1>i, <2>1, <2>2, OtherBatch
<1>2. Locks'
  BY <1>i DEF Locks
<1>3. \A d \in Dispatchers, a \in Automations, t \in Time :
         PendingAt(d, a, t)' => PendingAt(d, a, t)
  BY DEF PendingAt, Pending
<1>4. SlotsOnce'
  BY <1>3, <1>i, SlotsKept
<1> QED BY <1>1, <1>2, <1>4 DEF AutoInv, Batches

(* The clock that shows the present has not shown it, or more, before. *)
LEMMA WallOfNow ==
    ASSUME now \in Time, now \notin RepeatedStretch, NEW t \in Time, t <= now
    PROVE  Wall(t) <= Wall(now)
BY AutomationAssumption DEF Wall, Time, RepeatedStretch

LEMMA EditScheduleKeeps ==
    ASSUME AutoInv, EditSchedule
    PROVE  AutoInv'
<1> DEFINE a == edit.automation
<1>i. AutoTyped /\ EditBehind
  BY DEF AutoInv
<1>1. edit # NoEdit /\ a \in Automations /\ edit.read \in Row /\ rowLock[a] = NoDispatcher
      /\ now \in Time
  BY <1>i DEF EditSchedule, AutoTyped
<1>2. UNCHANGED <<now, deleted, rowLock, dispatch, fires>> /\ edit' = NoEdit
      /\ refolded \subseteq refolded' /\ (now \in RepeatedStretch => a \in refolded')
  BY DEF EditSchedule
<1>3. PICK s \in Crons, e \in BOOLEAN :
         /\ Computable(s)
         /\ row' = IF row[a] = NoRow THEN row ELSE [row EXCEPT ![a] =
              Merged(@, edit.read, [edit.read EXCEPT
                  !.schedule = s, !.enabled = e, !.next = NextRun(s)])]
  BY DEF EditSchedule
<1>4. NextRun(s) \in Time /\ NextRun(s) > now /\ Wall(NextRun(s)) > Wall(now)
  BY <1>1, <1>3, NextRunIsLater DEF Computable
<1> DEFINE new == [edit.read EXCEPT !.schedule = s, !.enabled = e, !.next = NextRun(s)]
           r == Merged(row[a], edit.read, new)
<1>5. new \in Row /\ new.next = NextRun(s)
  BY <1>1, <1>3, <1>4 DEF Row
<1>6. CASE row[a] = NoRow
  <2>1. row' = row
    BY <1>3, <1>6
  <2>2. AutoTyped'
    BY <1>2, <1>i, <2>1, RowFields DEF AutoTyped, NoEdit
  <2>3. \A b \in Automations : Moves(b)
    BY <1>i, <2>1 DEF Moves, AutoTyped, AnyRowValue
  <2>4. EditBehind'
    BY <1>2 DEF EditBehind
  <2> QED BY <1>1, <1>2, <2>1, <2>2, <2>3, <2>4, OwnerKeeps, AutomationAssumption DEF Time
<1>7. CASE row[a] # NoRow
  <2>1. row[a] \in Row
    BY <1>1, <1>7, <1>i DEF AutoTyped, AnyRowValue
  <2>2. r \in Row /\ r.next = IF new.next = edit.read.next THEN row[a].next ELSE new.next
    <3> HIDE DEF new
    <3> QED BY <1>1, <1>5, <2>1, MergedType
  <2>3. r.next > now /\ (r.next = row[a].next \/ r.next = NextRun(s))
    <3>1. edit.read.next <= row[a].next
      BY <1>1, <1>7, <1>i DEF EditBehind
    <3>2. edit.read.next \in Time /\ row[a].next \in Time
      BY <1>1, <2>1 DEF Row
    <3> HIDE DEF new, r
    <3> QED BY <1>1, <1>4, <1>5, <2>2, <3>1, <3>2, AutomationAssumption DEF Time
  <2>4. row' = [row EXCEPT ![a] = r]
    BY <1>3, <1>7
  <2> HIDE DEF new, r
  <2>5. row'[a] = r /\ \A b \in Automations \ {a} : row'[b] = row[b]
    BY <1>1, <1>i, <2>4 DEF AutoTyped
  <2>6. AutoTyped'
    BY <1>1, <1>2, <1>i, <2>2, <2>4 DEF AutoTyped, NoEdit, AnyRowValue
  <2>7. \A b \in Automations : Moves(b) /\ (rowLock[b] # NoDispatcher => row'[b] = row[b])
    BY <1>1, <1>i, <2>1, <2>2, <2>3, <2>5 DEF Moves, AutoTyped, AnyRowValue
  <2>8. r.next = NextRun(s) /\ a \notin refolded' =>
          \A t \in Time : t <= now => Wall(r.next) > Wall(t)
    <3> SUFFICES ASSUME r.next = NextRun(s), a \notin refolded', NEW t \in Time, t <= now
                 PROVE  Wall(r.next) > Wall(t)
      OBVIOUS
    <3>1. Wall(t) <= Wall(now)
      BY <1>1, <1>2, WallOfNow
    <3>2. Wall(t) \in Int /\ Wall(now) \in Int /\ Wall(NextRun(s)) \in Int
      BY <1>1, <1>4, WallType
    <3> QED BY <1>4, <3>1, <3>2
  <2>9. EditBehind'
    BY <1>2 DEF EditBehind
  <2> QED BY <1>1, <1>2, <1>7, <2>3, <2>5, <2>6, <2>7, <2>8, <2>9, OwnerKeeps,
             AutomationAssumption DEF Time
<1> QED BY <1>6, <1>7

LEMMA EditWorkspaceKeeps ==
    ASSUME AutoInv, EditWorkspace
    PROVE  AutoInv'
<1> DEFINE a == edit.automation
           new == [edit.read EXCEPT !.workspace = edit.workspace]
           r == Merged(row[a], edit.read, new)
<1>i. AutoTyped
  BY DEF AutoInv
<1>1. edit # NoEdit /\ a \in Automations /\ edit.read \in Row /\ rowLock[a] = NoDispatcher
      /\ now \in Time /\ edit.workspace \in Workspaces
  BY <1>i DEF EditWorkspace, AutoTyped
<1>2. UNCHANGED <<now, deleted, rowLock, dispatch, fires, refolded>> /\ edit' = NoEdit
  BY DEF EditWorkspace
<1>3. new \in Row /\ new.next = edit.read.next /\ new.schedule = edit.read.schedule
  BY <1>1 DEF Row
<1>4. /\ row' \in [Automations -> AnyRowValue]
      /\ \A b \in Automations :
           \/ row'[b] = row[b]
           \/ /\ rowLock[b] = NoDispatcher /\ row[b] \in Row /\ row'[b] \in Row
              /\ row'[b].next = row[b].next /\ row'[b].schedule = row[b].schedule
  <2>1. CASE row[a] = NoRow
    BY <1>i, <2>1 DEF EditWorkspace, AutoTyped
  <2>2. CASE row[a] # NoRow
    <3>1. row[a] \in Row
      BY <1>1, <1>i, <2>2 DEF AutoTyped, AnyRowValue
    <3>2. r \in Row /\ r.next = row[a].next /\ r.schedule = row[a].schedule
      <4> HIDE DEF new
      <4> QED BY <1>1, <1>3, <3>1, MergedType
    <3>3. row' = [row EXCEPT ![a] = r]
      BY <2>2 DEF EditWorkspace
    <3> HIDE DEF r
    <3> QED BY <1>1, <1>i, <3>1, <3>2, <3>3 DEF AutoTyped, AnyRowValue
  <2> QED BY <2>1, <2>2
<1>5. AutoTyped'
  BY <1>2, <1>4, <1>i DEF AutoTyped, NoEdit
<1>6. \A b \in Automations : Moves(b) /\ (rowLock[b] # NoDispatcher => row'[b] = row[b])
  BY <1>4, <1>i DEF Moves, AutoTyped, AnyRowValue
<1>7. \A b \in Automations : row'[b] # NoRow => row[b] # NoRow /\ row'[b].next = row[b].next
  BY <1>4, RowFields
<1>8. EditBehind'
  BY <1>2 DEF EditBehind
<1> QED BY <1>1, <1>2, <1>5, <1>6, <1>7, <1>8, OwnerKeeps, AutomationAssumption DEF Time

(* Steps that read, refuse, delete, or let time pass: rows stay or go. *)
LEMMA QuietKeeps ==
    ASSUME AutoInv, UNCHANGED <<dispatch, rowLock, fires, refolded>>,
           now' \in Time, now <= now', deleted' \subseteq Workspaces,
           \A a \in Automations : row'[a] = row[a] \/ (rowLock[a] = NoDispatcher /\ row'[a] = NoRow),
           row' \in [Automations -> AnyRowValue],
           \/ edit' = edit \/ edit' = NoEdit
           \/ /\ row' = row /\ edit'.automation \in Automations
              /\ edit'.read \in Row /\ edit'.read = row[edit'.automation]
              /\ edit'.workspace \in Workspaces \cup {NoWorkspace}
    PROVE  AutoInv'
<1>i. AutoTyped /\ EditBehind
  BY DEF AutoInv
<1>1. AutoTyped'
  BY <1>i DEF AutoTyped, NoEdit
<1>2. \A b \in Automations : Moves(b) /\ (rowLock[b] # NoDispatcher => row'[b] = row[b])
  BY <1>i DEF Moves, AutoTyped, AnyRowValue
<1>3. EditBehind'
  <2>1. CASE edit' = edit
    <3> SUFFICES ASSUME edit # NoEdit, row'[edit.automation] # NoRow
                 PROVE  edit.read.next <= row'[edit.automation].next
      BY <2>1 DEF EditBehind
    <3>1. row'[edit.automation] = row[edit.automation]
      BY <1>i DEF AutoTyped
    <3> QED BY <1>i, <3>1 DEF EditBehind
  <2>2. CASE edit' = NoEdit
    BY <2>2 DEF EditBehind
  <2>3. CASE /\ row' = row /\ edit'.read \in Row /\ edit'.read = row[edit'.automation]
    <3>1. edit'.read.next \in Time
      BY <2>3 DEF Row
    <3> QED BY <2>3, <3>1, AutomationAssumption DEF EditBehind, Time
  <2> QED BY <2>1, <2>2, <2>3
<1> QED BY <1>1, <1>2, <1>3, OwnerKeeps

LEMMA OwnerStepKeeps ==
    ASSUME AutoInv,
           \/ \E a \in Automations : EditReads(a) \/ DeleteAutomation(a)
           \/ EditRefused
           \/ \E w \in Workspaces : DeleteWorkspace(w)
           \/ TimePasses
           \/ UNCHANGED autoVars
    PROVE  AutoInv'
<1>i. AutoTyped /\ now \in Time /\ now <= now /\ now + 1 > now
  BY AutomationAssumption DEF AutoInv, AutoTyped, Time
<1> USE DEF AutoTyped
<1>1. ASSUME NEW a \in Automations, EditReads(a) PROVE AutoInv'
  <2>1. /\ UNCHANGED <<now, deleted, row, rowLock, dispatch, fires, refolded>>
        /\ row[a] \in Row /\ edit'.automation = a /\ edit'.read = row[a]
        /\ edit'.workspace \in Workspaces \cup {NoWorkspace}
    BY <1>1, <1>i DEF EditReads, AnyRowValue
  <2> QED BY <1>i, <2>1, QuietKeeps
<1>2. ASSUME NEW a \in Automations, DeleteAutomation(a) PROVE AutoInv'
  <2>1. row' \in [Automations -> AnyRowValue]
        /\ \A b \in Automations : row'[b] = row[b] \/ (rowLock[b] = NoDispatcher /\ row'[b] = NoRow)
    BY <1>2, <1>i DEF DeleteAutomation, AnyRowValue
  <2> QED BY <1>2, <1>i, <2>1, QuietKeeps DEF DeleteAutomation
<1>3. CASE EditRefused
  BY <1>3, <1>i, QuietKeeps DEF EditRefused
<1>4. ASSUME NEW w \in Workspaces, DeleteWorkspace(w) PROVE AutoInv'
  <2>1. row' \in [Automations -> AnyRowValue]
        /\ \A b \in Automations : row'[b] = row[b] \/ (rowLock[b] = NoDispatcher /\ row'[b] = NoRow)
    BY <1>4, <1>i DEF DeleteWorkspace, AnyRowValue
  <2> QED BY <1>4, <1>i, <2>1, QuietKeeps DEF DeleteWorkspace
<1>5. CASE TimePasses
  <2>1. now' \in Time /\ now <= now'
    BY <1>5, <1>i, AutomationAssumption DEF TimePasses, Time
  <2> QED BY <1>5, <1>i, <2>1, QuietKeeps DEF TimePasses
<1>6. CASE UNCHANGED autoVars
  BY <1>6, <1>i, QuietKeeps DEF autoVars
<1> QED BY <1>1, <1>2, <1>3, <1>4, <1>5, <1>6

-----------------------------------------------------------------------------
(* The invariant holds at first, and every step keeps it. *)

LEMMA AutoInvInit == AutomationInit => AutoInv
<1> SUFFICES ASSUME AutomationInit PROVE AutoInv
  OBVIOUS
<1>1. now = 0 /\ deleted = {} /\ edit = NoEdit /\ 0 \in Time
      /\ rowLock = [a \in Automations |-> NoDispatcher]
      /\ dispatch = [d \in Dispatchers |-> NoBatch]
      /\ fires = [a \in Automations |-> [t \in Time |-> 0]]
  BY AutomationAssumption DEF AutomationInit, Time
<1>2. row \in [Automations -> Row]
  <2>1. \A s \in Crons : NextRuns(s, 0) # {} => Min(NextRuns(s, 0)) \in Time
    <3> TAKE s \in Crons
    <3>1. NextRuns(s, 0) \in SUBSET Time
      BY DEF NextRuns, CronInstants
    <3>2. Time \subseteq Nat
      BY AutomationAssumption DEF Time
    <3> QED BY <3>1, <3>2, LeastIsMember
  <2> DEFINE Usable == {s \in Crons : NextRuns(s, 0) # {}}
             First(s, w) == [enabled |-> TRUE, schedule |-> s, next |-> Min(NextRuns(s, 0)),
                             workspace |-> w]
             Firsts == {First(s, w) : s \in Usable, w \in Workspaces}
  <2>2. \A s \in Usable, w \in Workspaces : First(s, w) \in Row
    BY <2>1 DEF Row
  <2>3. Firsts \subseteq Row
    <3> HIDE DEF Usable, First
    <3> QED BY <2>2
  <2>4. row \in [Automations -> Firsts]
    BY DEF AutomationInit
  <2> HIDE DEF Firsts
  <2> QED BY <2>3, <2>4
<1>3. AutoTyped
  BY <1>1, <1>2, NoBatchType DEF AutoTyped, AnyRowValue, NoEdit
<1>4. DOMAIN NoFunction = {} /\ NoBatch.at = "idle" /\ NoBatch.seen = NoFunction
      /\ NoBatch.todo = {} /\ NoBatch.writes = NoFunction /\ NoBatch.fire = {}
  BY DEF NoBatch, NoFunction
<1>5. Batches
  BY <1>1, <1>4 DEF Batches, BatchOf
<1>6. Locks /\ EditBehind
  BY <1>1 DEF Locks, EditBehind
<1>7. \A a \in Automations, t \in Time : fires[a][t] = 0 /\ \A d \in Dispatchers : ~PendingAt(d, a, t)
  BY <1>1, <1>4 DEF PendingAt, Pending
<1>8. SlotsOnce
  BY <1>7 DEF SlotsOnce, Taken
<1> QED BY <1>3, <1>5, <1>6, <1>8 DEF AutoInv

LEMMA AutoInvStep == AutoInv /\ [AutomationNext]_autoVars => AutoInv'
<1> SUFFICES ASSUME AutoInv, [AutomationNext]_autoVars PROVE AutoInv'
  OBVIOUS
<1>1. ASSUME NEW d \in Dispatchers, SelectDue(d) \/ CommitBatch(d) \/ AbandonBatch(d)
      PROVE  AutoInv'
  BY <1>1, SelectKeeps, CommitKeeps, AbandonKeeps
<1>2. ASSUME NEW d \in Dispatchers, NEW a \in Automations,
             \/ ClaimSlot(d, a) \/ DisableUncomputable(d, a) \/ SkipRow(d, a)
             \/ Fire(d, a) \/ DisableForMissingWorkspace(d, a)
      PROVE  AutoInv'
  BY <1>2, ClaimKeeps, DisableKeeps, SkipKeeps, FireKeeps, DisableMissingKeeps
<1>3. CASE EditSchedule \/ EditWorkspace
  BY <1>3, EditScheduleKeeps, EditWorkspaceKeeps
<1> QED BY <1>1, <1>2, <1>3, OwnerStepKeeps DEF AutomationNext

-----------------------------------------------------------------------------
(* The theorems. *)

(* However many dispatchers overlap, crash or are overtaken by an edit, no slot of an
   automation runs twice, nor a wall-clock time that the clocks show twice. *)
THEOREM SlotsFireOnce == AutomationSpec => []SlotFiresOnce
<1>1. AutoInv => SlotFiresOnce
  <2> SUFFICES ASSUME AutoInv, NEW a \in Automations, NEW t \in Time, NEW u \in Time
               PROVE  /\ fires[a][t] <= 1
                      /\ t # u /\ Wall(t) = Wall(u) /\ a \notin refolded =>
                           fires[a][t] + fires[a][u] <= 1
    BY DEF SlotFiresOnce
  <2>1. fires[a][t] \in Nat /\ fires[a][u] \in Nat /\ fires[a][t] <= 1 /\ fires[a][u] <= 1
    BY DEF AutoInv, AutoTyped, SlotsOnce
  <2>2. ASSUME t # u, Wall(t) = Wall(u), a \notin refolded, fires[a][t] > 0, fires[a][u] > 0
        PROVE  FALSE
    BY <2>2 DEF AutoInv, SlotsOnce, Taken
  <2> QED BY <2>1, <2>2
<1> QED BY <1>1, AutoInvInit, AutoInvStep, PTL DEF AutomationSpec

LEMMA AutoInvTypes == AutoInv => AutomationTypeOK
<1> SUFFICES ASSUME AutoInv PROVE AutomationTypeOK
  OBVIOUS
<1>1. \A d \in Dispatchers : dispatch[d].at \in {"idle", "batch", "firing"}
  BY DEF AutoInv, AutoTyped, Batch
<1>2. \A d \in Dispatchers : dispatch[d].todo \cup dispatch[d].fire \subseteq DOMAIN dispatch[d].seen
  BY DEF AutoInv, Batches, BatchOf
<1>3. \A a \in Automations :
         rowLock[a] # NoDispatcher => a \in DOMAIN dispatch[rowLock[a]].writes
  BY DEF AutoInv, Locks
<1> QED BY <1>1, <1>2, <1>3 DEF AutoInv, AutoTyped, AnyRowValue, AutomationTypeOK

(* Every variable stays in its set, a dispatcher works only on rows it has read, and whoever
   holds a row's lock has a write of that row to commit. *)
THEOREM AutomationTypes == AutomationSpec => []AutomationTypeOK
BY AutoInvInit, AutoInvStep, AutoInvTypes, PTL DEF AutomationSpec

(* A dispatcher turns off a row only in a commit, for the schedule it found without a
   further slot, or for a workspace that is gone. *)
LEMMA DisablesBroken ==
    ASSUME AutoInv, AutomationNext, edit' = edit, NEW a \in Automations,
           row[a].enabled, row'[a] # NoRow, ~row'[a].enabled
    PROVE  \/ row[a].workspace \in deleted
           \/ \E d \in Dispatchers :
                /\ a \in DOMAIN dispatch[d].writes
                /\ dispatch[d].seen[a].schedule = row[a].schedule
<1>i. AutoTyped /\ Batches /\ Locks
  BY DEF AutoInv
<1>1. row'[a] # row[a]
  OBVIOUS
<1>2. ASSUME NEW d \in Dispatchers, CommitBatch(d)
      PROVE  /\ a \in DOMAIN dispatch[d].writes
             /\ dispatch[d].seen[a].schedule = row[a].schedule
  <2>1. rowLock[a] = d
    BY <1>1, <1>2 DEF CommitBatch
  <2>2. a \in DOMAIN dispatch[d].writes
    BY <1>i, <2>1, AutomationAssumption DEF Locks
  <2>3. Written(d, a) /\ Selected(d, a)
    BY <1>i, <2>2 DEF Batches, BatchOf
  <2>4. row[a] # NoRow
    BY <2>3, RowFields DEF Written
  <2> QED BY <2>2, <2>3, <2>4 DEF Written, Selected
<1>3. ASSUME NEW d \in Dispatchers, NEW b \in Automations, DisableForMissingWorkspace(d, b)
      PROVE  row[a].workspace \in deleted
  <2>1. b = a /\ StillPointsThere(d, a)
    BY <1>1, <1>3, <1>i DEF DisableForMissingWorkspace, AutoTyped
  <2> QED BY <1>3, <2>1 DEF DisableForMissingWorkspace, StillPointsThere
<1>4. ASSUME NEW d \in Dispatchers, NEW b \in Automations,
             \/ SelectDue(d) \/ AbandonBatch(d) \/ SkipRow(d, b) \/ Fire(d, b)
             \/ ClaimSlot(d, b) \/ DisableUncomputable(d, b)
      PROVE  FALSE
  BY <1>1, <1>4 DEF SelectDue, AbandonBatch, SkipRow, Fire, ClaimSlot, DisableUncomputable, Write
<1>5. ASSUME NEW b \in Automations, EditReads(b) \/ DeleteAutomation(b)
      PROVE  FALSE
  BY <1>1, <1>5, <1>i DEF EditReads, DeleteAutomation, AutoTyped
<1>6. ~EditSchedule /\ ~EditWorkspace /\ ~EditRefused
  BY DEF EditSchedule, EditWorkspace, EditRefused
<1>7. ASSUME NEW w \in Workspaces, DeleteWorkspace(w)
      PROVE  FALSE
  BY <1>1, <1>7 DEF DeleteWorkspace
<1>8. ~TimePasses
  BY <1>1 DEF TimePasses
<1> QED BY <1>2, <1>3, <1>4, <1>5, <1>6, <1>7, <1>8 DEF AutomationNext

(* A row that was repaired since a dispatcher selected it stays on. *)
THEOREM BrokenIsDisabled == AutomationSpec => OnlyBrokenDisabled
<1>1. ASSUME AutoInv, AutomationNext
      PROVE  edit' = edit =>
        \A a \in Automations :
            row[a].enabled /\ row'[a] # NoRow /\ ~row'[a].enabled =>
                \/ row[a].workspace \in deleted
                \/ \E d \in Dispatchers :
                     /\ a \in DOMAIN dispatch[d].writes
                     /\ dispatch[d].seen[a].schedule = row[a].schedule
  BY <1>1, DisablesBroken
<1> QED BY <1>1, AutoInvInit, AutoInvStep, PTL DEF AutomationSpec, OnlyBrokenDisabled

=============================================================================
