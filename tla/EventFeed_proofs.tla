-------------------------- MODULE EventFeed_proofs --------------------------
(* Theorems about EventFeed: one chat with its feed and one page, for any number of turns,
   texts, notices and faults.  The log's invariant of EventLog_proofs goes on to hold under the
   feed's steps; LogOrder adds what a reader needs of it, FeedTyped the types, EndsShown what
   the page knows of ended turns, Following how connection and page keep up, ReadInv what the
   rows have read of the log, and Screen what the page's entries say. *)
EXTENDS EventFeed, EventLog_proofs, SequenceTheorems

-----------------------------------------------------------------------------
(* The order of the log *)

Ends == {i \in DOMAIN events : events[i].kind \in EndKinds}
EventsOf(m) == {i \in DOMAIN events : events[i].msg = m}

(* A hand-off names a message of the chat, and comes before all of that one's events. *)
HandOffsPrecede ==
    \A s \in DOMAIN events : events[s].kind = "handoff" =>
        events[s].val \in DOMAIN row /\ \A i \in EventsOf(events[s].val) : s < i

(* A task at work is on the chat's last turn that has events, and while that turn is in
   progress its events are the last of the log. *)
Running == phase # "starting" /\ ~(pc = "idle" /\ Free)
Newest ==
    /\ Running =>
         /\ cur \in DOMAIN row /\ row[cur].status # "deleted"
         /\ \A m \in DOMAIN row : m > cur => row[m].status = "deleted" \/ EventsOf(m) = {}
         /\ row[cur].status = "in_progress" =>
              pc # "idle" /\ \A e \in Ends : \A i \in EventsOf(cur) : e < i
    /\ phase = "starting" \/ pc \in {"booting", "dead", "folded"} => Free

(* The row of an ended turn remembers a number before its end's. *)
RowsPrecede == \A e \in Ends : row[events[e].msg].seq < e

LogOrder == HandOffsPrecede /\ Newest /\ RowsPrecede

-----------------------------------------------------------------------------
(* The types of what the feed and the page hold *)

Entry == [items : Seq(Nat), seq : Nat]
Messages(msgs, turns, top) ==
    /\ DOMAIN msgs \subseteq 1..turns
    /\ \A m \in DOMAIN msgs : msgs[m] \in Entry /\ msgs[m].seq <= top
PageOf(rows, turns, top) ==
    /\ rows \in Seq(Row) /\ Len(rows) <= turns
    /\ \A m \in DOMAIN rows : rows[m].seq <= top
ConnTyped ==
    /\ conn \in {"closed", "opening", "replaying", "live"}
    /\ from \in 0..Len(events) /\ feedSeq \in 0..Len(events)
    /\ outbox \in Seq(DOMAIN events) /\ inbox \in Seq(DOMAIN events) /\ wire \in Seq(DOMAIN events)
PageTyped ==
    /\ stream \in 0..Len(row) /\ reply \in 0..Len(row)
    /\ probe.msg \in 0..Len(row) /\ probe.seq \in 0..Len(events)
    /\ probe # NoProbe => probe.msg # 0
    /\ cursor \in 0..Len(events) /\ seen \subseteq DOMAIN events
    /\ stale \in BOOLEAN /\ loaded \in BOOLEAN
    /\ ended \subseteq DOMAIN row /\ early \subseteq DOMAIN row
ViewTyped ==
    /\ Messages(cache, Len(row), Len(events)) /\ Messages(shown, Len(row), Len(events))
    /\ stream # 0 => stream \in DOMAIN shown
    /\ fetch = NoFetch \/ (Len(fetch) = 1 /\ PageOf(fetch[1], Len(row), Len(events)))
FeedTyped == ConnTyped /\ PageTyped /\ ViewTyped

-----------------------------------------------------------------------------
(* What the page knows of ended turns *)
RendersEnded(msgs) == \A m \in ended : m \in DOMAIN msgs => msgs[m].items = row[m].items
Idling == stream = 0 /\ reply = 0
EndsShown ==
    /\ \A m \in ended : ~NoEnd(m)
    /\ Idling /\ ~stale => RendersEnded(IF fetch = NoFetch THEN shown ELSE fetch[1])

-----------------------------------------------------------------------------
(* How the connection and the page keep up with the log *)

(* What a wire w holds: numbers past c and up to f, in order. *)
Lists(w, c, f) ==
    /\ \A k \in DOMAIN w : c < w[k] /\ w[k] <= f
    /\ \A j, k \in DOMAIN w : j < k => w[j] < w[k]
Has(w, i) == \E k \in DOMAIN w : w[k] = i

Connection ==
    /\ stream = 0 => conn = "closed"
    /\ conn \in {"closed", "opening"} => wire = <<>>
    /\ conn = "opening" => from = cursor
    /\ conn \in {"replaying", "live"} =>
         /\ cursor <= feedSeq /\ Lists(wire, cursor, feedSeq)
         /\ \A i \in live : cursor < i /\ i <= feedSeq => i \in seen \/ Has(wire, i)

(* What the page has handled comes before all of the turn it is about to follow, and
   before the end of the one it follows. *)
Ahead(m) == \A t \in seen : \A i \in EventsOf(m) : t < i
Handled ==
    /\ stream = 0 => \A t \in seen : \E e \in Ends : t <= e
    /\ stream # 0 => \A t \in seen : \A e \in Ends : events[e].msg = stream => t < e
    /\ reply # 0 => /\ stream = 0 /\ probe = NoProbe /\ Ahead(reply)
                    /\ \A i \in EventsOf(reply) : cursor < i
    /\ probe # NoProbe => stream = 0 /\ Ahead(probe.msg) /\ probe.msg \notin ended

(* An entry holds the texts of its turn up to the number it remembers, and that number is
   before the turn's end. *)
Covers(entry, m) ==
    /\ \A i \in OwnTexts(m) : i <= entry.seq =>
         \E k \in DOMAIN entry.items : entry.items[k] = events[i].val
    /\ \A e \in Ends : events[e].msg = m => entry.seq < e
CachesCover == \A m \in DOMAIN cache \ ended : m # stream => Covers(cache[m], m)
PageCovers(page) == \A m \in DOMAIN page : page[m].status # "deleted" => Covers(page[m], m)
Covered ==
    /\ Idling => shown = cache
    /\ CachesCover /\ (fetch # NoFetch => PageCovers(fetch[1]))

(* Of the turn on screen, a text or an end that was not applied lies ahead. *)
Wanted(i) == events[i].msg = stream /\ events[i].kind \in EndKinds \cup {"text"}
Held(i) ==
    events[i].kind = "text"
        /\ \E k \in DOMAIN shown[stream].items : shown[stream].items[k] = events[i].val
Pending == stream # 0 => \A i \in live : Wanted(i) => Held(i) \/ (i \notin seen /\ cursor < i)

Following == Connection /\ Handled /\ Covered /\ Pending

-----------------------------------------------------------------------------
(* How a step of the log changes it: rows and events are added, what an event says and
   what an ended turn renders stays, and no turn's end is followed by more of it. *)

Moves ==
    /\ DOMAIN row \subseteq DOMAIN row' /\ Len(row) <= Len(row')
    /\ events' \in Seq(Event) /\ Len(events) <= Len(events')
    /\ \A i \in DOMAIN events : i \in DOMAIN events' /\ events'[i] = events[i]
    /\ \A i \in DOMAIN events' : i \notin DOMAIN events =>
         NoEnd(events'[i].msg) /\ Len(events) < i
    /\ \A i \in live' : i \in live \/ i \notin DOMAIN events
    /\ \A m \in DOMAIN row : row'[m] = row[m] \/ NoEnd(m)

(* Eight steps write events, all of the message the task is on. *)
LEMMA EventsKept ==
    ASSUME LogNext
    PROVE  \/ Start \/ Flush \/ FinalFlush \/ Notify \/ HandOff \/ Terminal \/ DeadTerminal
           \/ CutShort \/ (UNCHANGED events /\ live' \subseteq live)
<1>1. CASE TaskStep
  BY <1>1 DEF TaskStep, StartSnapshot, Checkpoint, SkipCheckpoint, SaveFinal, NoneQueued, StartNext,
              FoldDead, AlreadyFinal, Reconcile, Serve, Prune
<1>2. CASE AgentStep
  BY <1>2 DEF AgentStep, Say, Finish, FailEarly
<1>3. CASE FaultStep
  BY <1>3 DEF FaultStep, DbFails, HandOffFails, FinalizeFails, Shutdown, TaskCancelled
<1>4. CASE NewTurn \/ ScaffoldNext \/ PublishNext \/ PublishLost \/ Crash \/ Exit
  BY <1>4 DEF NewTurn, ScaffoldNext, PublishNext, PublishLost, Crash, Exit, Boot
<1> QED BY <1>1, <1>2, <1>3, <1>4 DEF LogNext, WriterStep

(* What they write, and that the message has no end yet. *)
LEMMA EventsGrow ==
    ASSUME LogInv, LogNext
    PROVE  \/ UNCHANGED events /\ live' \subseteq live
           \/ /\ cur \in DOMAIN row /\ NoEnd(cur) /\ UNCHANGED <<cur, row>>
              /\ \E K \in SUBSET ({"start", "text", "notice"} \cup EndKinds) :
                   /\ Grows(cur, K)
                   /\ K \cap EndKinds # {} =>
                        pc \in {"handing", "ending", "folded"} /\ Len(events') = Len(events) + 1
                   /\ "handoff" \in K => HandOff
<1> DEFINE All == {"start", "text", "notice"} \cup EndKinds
<1>0. /\ events \in Seq(Event) /\ cur \in Nat /\ unflushed \in Nat
      /\ pc \notin {"idle", "reconciling"} =>
           cur \in DOMAIN row /\ (row[cur].status = "in_progress" => NoEnd(cur))
      /\ pc \in {"booting", "starting", "streaming", "flushed"} => row[cur].status = "in_progress"
      /\ pc \in {"finishing", "saved", "handing", "ending", "folded"} => NoEnd(cur)
      /\ pc \in InRun => unflushed <= said[cur] /\ said[cur] \in Nat
  BY RowIndex DEF LogInv, LogTyped, Stages, Unended, InProgress, InRun
<1>1. CASE Start
  <2>1. Commit(<<[msg |-> cur, kind |-> "start", val |-> 0]>>) /\ UNCHANGED <<cur, row>> /\ pc = "booting"
    BY <1>1 DEF Start, Emit, One
  <2>2. Grows(cur, {"start"})
    BY <1>0, <2>1, OneGrows
  <2> QED BY <1>0, <2>1, <2>2 DEF EndKinds
<1>2. CASE Flush \/ FinalFlush
  <2>1. Commit(Batch) /\ UNCHANGED <<cur, row>> /\ pc \in {"streaming", "finishing"}
    BY <1>2 DEF Flush, FinalFlush, FlushAt
  <2>2. Grows(cur, {"text"})
    BY <1>0, <2>1, BatchGrows DEF InRun
  <2> QED BY <1>0, <2>1, <2>2 DEF EndKinds
<1>3. CASE Notify
  <2>1. /\ Commit(<<[msg |-> cur, kind |-> "notice", val |-> 0]>>) /\ UNCHANGED <<cur, row>>
        /\ pc \in {"streaming", "flushed", "ending"}
    BY <1>3 DEF Notify, Emit, One
  <2>2. Grows(cur, {"notice"})
    BY <1>0, <2>1, OneGrows
  <2> QED BY <1>0, <2>1, <2>2 DEF EndKinds
<1>4. CASE HandOff
  <2>1. /\ Commit(<<[msg |-> cur, kind |-> "handoff", val |-> Len(row)]>>) /\ UNCHANGED <<cur, row>>
        /\ pc = "handing" /\ Len(row) \in Nat
    BY <1>4, RowIndex DEF HandOff, LogInv
  <2>2. "handoff" \in EndKinds
    BY DEF EndKinds
  <2>3. Grows(cur, {"handoff"}) /\ Len(events') = Len(events) + 1
    BY <1>0, <2>1, <2>2, OneGrows
  <2> QED BY <1>0, <1>4, <2>1, <2>2, <2>3
<1>5. CASE Terminal \/ DeadTerminal
  <2>1. /\ Commit(<<[msg |-> cur, kind |-> EndOf(verdict), val |-> 0]>>) /\ UNCHANGED <<cur, row>>
        /\ pc \in {"ending", "folded"}
    BY <1>5 DEF Terminal, DeadTerminal, Emit, One
  <2>2. EndOf(verdict) \in EndKinds \ {"handoff"}
    BY DEF EndOf, EndKinds
  <2>3. Grows(cur, {EndOf(verdict)}) /\ Len(events') = Len(events) + 1
    BY <1>0, <2>1, <2>2, OneGrows
  <2> QED BY <1>0, <2>1, <2>2, <2>3
<1>6. CASE CutShort
  <2>1. pc \in {"streaming", "flushed"} /\ UNCHANGED <<cur, row>>
    BY <1>6 DEF CutShort
  <2>2. \/ UNCHANGED <<events, live>>
        \/ Commit(Batch)
        \/ Commit(<<[msg |-> cur, kind |-> "notice", val |-> 0]>>)
    BY <1>6 DEF CutShort, One
  <2>3. CASE Commit(Batch)
    <3>1. Grows(cur, {"text"})
      BY <1>0, <2>1, <2>3, BatchGrows DEF InRun
    <3> QED BY <1>0, <2>1, <3>1 DEF EndKinds
  <2>4. CASE Commit(<<[msg |-> cur, kind |-> "notice", val |-> 0]>>)
    <3>1. Grows(cur, {"notice"})
      BY <1>0, <2>4, OneGrows
    <3> QED BY <1>0, <2>1, <3>1 DEF EndKinds
  <2> QED BY <2>2, <2>3, <2>4
<1> QED BY <1>1, <1>2, <1>3, <1>4, <1>5, <1>6, EventsKept

(* The row of a turn whose end is told is written no more. *)
LEMMA EndedRowStays ==
    ASSUME LogInv, Columns, LogNext
    PROVE  /\ DOMAIN row \subseteq DOMAIN row' /\ Len(row) \in Nat /\ Len(row) <= Len(row')
           /\ \A m \in DOMAIN row : row'[m] = row[m] \/ NoEnd(m)
<1>0. /\ row \in Seq(Row) /\ DOMAIN row = 1..Len(row) /\ Len(row) \in Nat
      /\ pc \in {"starting", "flushed", "dead", "finishing", "handing"} => cur \in DOMAIN row
      /\ pc \in {"starting", "flushed"} => row[cur].status = "in_progress"
      /\ pc = "handing" => row[Len(row)].status = "in_progress"
      /\ \A m \in DOMAIN row : row[m].status = "in_progress" => NoEnd(m)
      /\ pc = "finishing" => NoEnd(cur)
  BY RowIndex DEF LogInv, Stages, Unended, InProgress, Columns
<1>1. CASE NewTurn \/ ScaffoldNext
  <2>1. row' = Append(row, [status |-> "in_progress", items |-> <<>>, seq |-> 0])
    BY <1>1 DEF NewTurn, ScaffoldNext, NewRow
  <2> QED BY <1>0, <2>1
<1>2. CASE StartSnapshot \/ Checkpoint \/ SaveFinal \/ FoldDead
  <2>1. /\ Len(row') = Len(row) /\ DOMAIN row' = DOMAIN row
        /\ \A m \in DOMAIN row : m # cur => row'[m] = row[m]
    BY <1>0, <1>2 DEF StartSnapshot, Checkpoint, SaveFinal, FoldDead
  <2>2. cur \in DOMAIN row /\ NoEnd(cur)
    BY <1>0, <1>2 DEF StartSnapshot, Checkpoint, SaveFinal, FoldDead
  <2> QED BY <1>0, <2>1, <2>2
<1>3. CASE HandOffFails
  <2>1. /\ Len(row') = Len(row) /\ DOMAIN row' = DOMAIN row /\ pc = "handing"
        /\ \A m \in DOMAIN row : m # Len(row) => row'[m] = row[m]
    BY <1>0, <1>3 DEF HandOffFails
  <2>2. Len(row) \in DOMAIN row
    BY <1>0, <2>1
  <2>3. NoEnd(Len(row))
    BY <1>0, <2>1, <2>2
  <2> QED BY <1>0, <2>1, <2>3
<1>4. CASE UNCHANGED row
  BY <1>0, <1>4
<1> QED BY <1>1, <1>2, <1>3, <1>4, RowKept

LEMMA LogMoves ==
    ASSUME LogInv, Columns, LogNext PROVE Moves
<1>0. /\ events \in Seq(Event) /\ DOMAIN events = 1..Len(events) /\ Len(events) \in Nat
  BY DEF LogInv, LogTyped
<1>1. /\ DOMAIN row \subseteq DOMAIN row' /\ Len(row) <= Len(row')
      /\ \A m \in DOMAIN row : row'[m] = row[m] \/ NoEnd(m)
  BY EndedRowStays
<1>2. CASE UNCHANGED events /\ live' \subseteq live
  BY <1>0, <1>1, <1>2 DEF Moves
<1>3. ASSUME NoEnd(cur), NEW K, Grows(cur, K) PROVE Moves
  <2>1. /\ events' \in Seq(Event) /\ DOMAIN events \subseteq DOMAIN events'
        /\ \A i \in DOMAIN events : events'[i] = events[i]
        /\ \A i \in DOMAIN events' : i \notin DOMAIN events =>
             events'[i].msg = cur /\ \A j \in DOMAIN events : j < i
        /\ live' = live \cup (DOMAIN events' \ DOMAIN events)
    BY <1>3 DEF Grows
  <2>2. DOMAIN events' = 1..Len(events') /\ Len(events') \in Nat
    BY <2>1
  <2>3. Len(events) <= Len(events')
    BY <1>0, <2>1, <2>2
  <2>4. \A i \in DOMAIN events' : i \notin DOMAIN events => Len(events) < i
    BY <1>0, <2>2
  <2> QED BY <1>1, <1>3, <2>1, <2>3, <2>4 DEF Moves
<1> QED BY <1>2, <1>3, EventsGrow

LEMMA StillMoves ==
    ASSUME LogInv, Columns, Still PROVE Moves
<1>1. /\ events \in Seq(Event) /\ DOMAIN events = 1..Len(events) /\ Len(events) \in Nat
      /\ Len(row) \in Nat /\ UNCHANGED <<events, live, row>>
  BY RowIndex DEF LogInv, LogTyped, Still
<1> QED BY <1>1 DEF Moves

LEMMA HandOffsStep ==
    ASSUME LogInv, Columns, LogOrder, LogNext PROVE HandOffsPrecede'
<1>0. /\ events \in Seq(Event) /\ DOMAIN events = 1..Len(events) /\ Len(events) \in Nat
      /\ \A i \in DOMAIN events : events[i].msg \in DOMAIN row
  BY DEF LogInv, LogTyped
<1>1. Moves
  BY LogMoves
<1>2. ASSUME NEW s \in DOMAIN events, events[s].kind = "handoff"
      PROVE  events'[s].val \in DOMAIN row' /\ \A i \in DOMAIN events' : events'[i].msg = events'[s].val => s < i
  <2>1. /\ events'[s] = events[s] /\ events[s].val \in DOMAIN row
        /\ \A i \in DOMAIN events : events[i].msg = events[s].val => s < i
    BY <1>1, <1>2 DEF Moves, LogOrder, HandOffsPrecede, EventsOf
  <2> SUFFICES ASSUME NEW i \in DOMAIN events', events'[i].msg = events'[s].val PROVE s < i
    BY <1>1, <2>1 DEF Moves
  <2>2. CASE i \in DOMAIN events
    BY <1>1, <2>1, <2>2 DEF Moves
  <2>3. CASE i \notin DOMAIN events
    <3>1. Len(events) < i
      BY <1>1, <2>3 DEF Moves
    <3> QED BY <1>0, <1>1, <3>1 DEF Moves
  <2> QED BY <2>2, <2>3
<1>3. ASSUME NEW s \in DOMAIN events', s \notin DOMAIN events, events'[s].kind = "handoff"
      PROVE  events'[s].val \in DOMAIN row' /\ \A i \in DOMAIN events' : events'[i].msg # events'[s].val
  <2>1. /\ cur \in DOMAIN row /\ UNCHANGED <<cur, row>> /\ HandOff
        /\ \A i \in DOMAIN events' : i \notin DOMAIN events => events'[i].msg = cur
    BY <1>3, EventsGrow DEF Grows
  <2>2. /\ pc = "handing" /\ phase # "starting" /\ Len(row) \in DOMAIN row /\ Len(row) > cur
        /\ row[Len(row)].status = "in_progress"
    BY <2>1, RowIndex DEF HandOff, LogInv, Stages, StartUp
  <2>3. EventsOf(Len(row)) = {}
    BY <2>2 DEF LogOrder, Newest, Running
  <2>4. events'[s].val = Len(row)
    <3>1. events' = events \o <<[msg |-> cur, kind |-> "handoff", val |-> Len(row)]>>
      BY <2>1 DEF HandOff, Commit
    <3>2. s = Len(events) + 1
      BY <1>0, <1>3, <3>1
    <3> QED BY <1>0, <3>1, <3>2
  <2>5. \A i \in DOMAIN events' : events'[i].msg # Len(row)
    BY <1>1, <2>1, <2>2, <2>3 DEF Moves, EventsOf
  <2> QED BY <2>1, <2>2, <2>4, <2>5
<1> QED
  <2> SUFFICES ASSUME NEW s \in DOMAIN events', events'[s].kind = "handoff"
      PROVE  events'[s].val \in DOMAIN row' /\ \A i \in DOMAIN events' : events'[i].msg = events'[s].val => s < i
    BY DEF HandOffsPrecede, EventsOf
  <2>1. CASE s \in DOMAIN events
    BY <1>1, <1>2, <2>1 DEF Moves
  <2>2. CASE s \notin DOMAIN events
    BY <1>3, <2>2
  <2> QED BY <2>1, <2>2

(* What a step that stays with the task's turn has to leave as it is. *)
LEMMA NewestStays ==
    ASSUME LogInv, Columns, Newest, LogNext, cur' = cur, DOMAIN row' = DOMAIN row,
           Running' => Running,
           \A m \in DOMAIN row : m > cur /\ row[m].status = "deleted" => row'[m].status = "deleted",
           Running' => row'[cur].status # "deleted",
           Running' /\ row'[cur].status = "in_progress" =>
               row[cur].status = "in_progress" /\ pc' # "idle",
           phase' = "starting" \/ pc' \in {"booting", "dead", "folded"} => Free'
    PROVE  Newest'
<1> SUFFICES ASSUME Running'
    PROVE  /\ cur' \in DOMAIN row' /\ row'[cur'].status # "deleted"
           /\ \A m \in DOMAIN row' : m > cur' => row'[m].status = "deleted" \/ EventsOf(m)' = {}
           /\ row'[cur'].status = "in_progress" =>
                pc' # "idle" /\ \A e \in Ends' : \A i \in EventsOf(cur)' : e < i
  BY DEF Newest
<1>1. /\ cur \in DOMAIN row /\ Running
      /\ \A m \in DOMAIN row : m > cur => row[m].status = "deleted" \/ EventsOf(m) = {}
      /\ row[cur].status = "in_progress" => \A e \in Ends : \A i \in EventsOf(cur) : e < i
  BY DEF Newest
<1>2. /\ events \in Seq(Event) /\ DOMAIN events = 1..Len(events) /\ Len(events) \in Nat
  BY DEF LogInv, LogTyped
<1>3. \/ UNCHANGED events
      \/ \E K : Grows(cur, K) /\ (row[cur].status = "in_progress" => K \cap EndKinds = {})
  <2>1. pc \in {"handing", "ending", "folded"} => row[cur].status # "in_progress"
    BY DEF LogInv, Stages, LogTyped, Verdicts
  <2> QED BY <2>1, EventsGrow
<1>4. \A m \in DOMAIN row : m > cur => row'[m].status = "deleted" \/ EventsOf(m)' = {}
  <2> SUFFICES ASSUME NEW m \in DOMAIN row, m > cur, EventsOf(m) = {} PROVE EventsOf(m)' = {}
    BY <1>1
  <2>1. m # cur
    BY <1>1, RowIndex DEF LogInv
  <2> QED BY <1>3, <2>1 DEF EventsOf, Grows
<1>5. ASSUME row'[cur].status = "in_progress", NEW e \in Ends', NEW i \in EventsOf(cur)'
      PROVE  e < i
  <2>1. /\ row[cur].status = "in_progress" /\ \A f \in Ends : \A j \in EventsOf(cur) : f < j
    BY <1>1, <1>5
  <2>2. CASE UNCHANGED events
    BY <1>5, <2>1, <2>2 DEF Ends, EventsOf
  <2>3. ASSUME NEW K, Grows(cur, K), K \cap EndKinds = {} PROVE e < i
    <3>1. e \in Ends
      BY <1>5, <2>3 DEF Ends, Grows
    <3>2. CASE i \in DOMAIN events
      BY <2>1, <2>3, <3>1, <3>2, <1>5 DEF EventsOf, Grows
    <3>3. CASE i \notin DOMAIN events
      BY <2>3, <3>1, <3>3, <1>5 DEF EventsOf, Grows, Ends
    <3> QED BY <3>2, <3>3
  <2> QED BY <1>3, <2>1, <2>2, <2>3
<1> QED BY <1>1, <1>4, <1>5

LEMMA NewestStep ==
    ASSUME LogInv, Columns, Newest, LogNext PROVE Newest'
<1>0. /\ Len(row) \in Nat /\ DOMAIN row = 1..Len(row) /\ \A m \in DOMAIN row : m \in Nat
      /\ pc \notin {"idle", "reconciling"} => cur \in DOMAIN row
      /\ pc = "reconciling" => phase = "starting"
      /\ phase = "starting" => pc \in {"reconciling", "dead", "folded"}
      /\ phase = "starting" \/ pc \in {"booting", "dead", "folded"} => Free
      /\ verdict \in Verdicts
      /\ \A v \in Verdicts : v # "in_progress" /\ v # "deleted"
  BY RowIndex DEF LogInv, LogTyped, Stages, StartUp, Newest, Verdicts
<1>1. Running =>
        /\ cur \in DOMAIN row /\ row[cur].status # "deleted"
        /\ row[cur].status = "in_progress" => pc # "idle"
  BY DEF Newest
<1>2. CASE NewTurn
  <2>1. /\ cur' = Len(row) + 1 /\ pc' = "booting" /\ phase' = "serving" /\ Free' /\ UNCHANGED events
        /\ row' = Append(row, [status |-> "in_progress", items |-> <<>>, seq |-> 0])
    BY <1>2 DEF NewTurn, NewRow, Free
  <2>2. /\ DOMAIN row' = 1..(Len(row) + 1) /\ row'[Len(row) + 1].status = "in_progress"
    BY <1>0, <2>1
  <2>3. \A i \in DOMAIN events' : events'[i].msg # cur'
    BY <1>0, <2>1 DEF LogInv, LogTyped
  <2> QED BY <1>0, <2>1, <2>2, <2>3 DEF Newest, EventsOf
<1>3. CASE ScaffoldNext
  <2>1. /\ UNCHANGED <<cur, events, phase, outbox>> /\ pc = "saved" /\ pc' = "handing" /\ Running
        /\ row' = Append(row, [status |-> "in_progress", items |-> <<>>, seq |-> 0])
    BY <1>0, <1>3 DEF ScaffoldNext, NewRow, taskVars, Running
  <2>2. /\ DOMAIN row' = 1..(Len(row) + 1) /\ \A m \in DOMAIN row : row'[m] = row[m]
    BY <1>0, <2>1
  <2>3. row[cur].status = verdict
    BY <2>1 DEF LogInv, Stages
  <2>4. \A i \in DOMAIN events' : events'[i].msg # Len(row) + 1
    BY <1>0, <2>1 DEF LogInv, LogTyped
  <2>5. \A m \in DOMAIN row' : m > cur' => row'[m].status = "deleted" \/ EventsOf(m)' = {}
    <3> SUFFICES ASSUME NEW m \in DOMAIN row', m > cur
        PROVE  row'[m].status = "deleted" \/ EventsOf(m)' = {}
      BY <2>1
    <3>1. CASE m \in DOMAIN row
      BY <2>1, <2>2, <3>1 DEF Newest, EventsOf
    <3>2. CASE m \notin DOMAIN row
      <4>1. m = Len(row) + 1
        BY <1>0, <2>2, <3>2
      <4> QED BY <2>4, <4>1 DEF EventsOf
    <3> QED BY <3>1, <3>2
  <2>6. cur' \in DOMAIN row' /\ row'[cur'].status \in Verdicts
    BY <1>0, <2>1, <2>2, <2>3
  <2>7. phase' # "starting"
    BY <1>0, <2>1
  <2> QED BY <1>0, <2>1, <2>5, <2>6, <2>7 DEF Newest
<1>4. CASE StartNext
  <2>1. /\ cur' = Len(row) /\ pc' = "booting" /\ UNCHANGED <<row, events, phase, outbox>>
        /\ pc = "handed" /\ Free /\ Running
    BY <1>0, <1>4 DEF StartNext, Running
  <2>2. Len(row) \in DOMAIN row /\ Len(row) > cur /\ row[Len(row)].status = "in_progress"
    BY <1>0, <2>1 DEF LogInv, Stages
  <2>3. EventsOf(Len(row)) = {}
    BY <2>1, <2>2 DEF Newest
  <2>4. EventsOf(cur)' = {} /\ Free' /\ row'[cur'].status = "in_progress" /\ cur' \in DOMAIN row'
    BY <2>1, <2>2, <2>3 DEF EventsOf, Free
  <2>5. \A m \in DOMAIN row' : ~(m > cur')
    BY <1>0, <2>1
  <2> QED BY <2>1, <2>4, <2>5 DEF Newest
<1>5. CASE Crash \/ Exit
  <2>1. phase' = "starting" /\ outbox' = <<>>
    BY <1>5 DEF Crash, Exit, Boot
  <2> QED BY <2>1 DEF Newest, Running, Free
<1>6. CASE Reconcile
  <2>1. phase = "starting" /\ UNCHANGED <<phase, outbox>>
    BY <1>0, <1>6 DEF Reconcile
  <2> QED BY <1>0, <2>1 DEF Newest, Running, Free
<1>7. CASE Serve
  <2>1. phase = "starting" /\ phase' = "serving" /\ pc' = "idle" /\ UNCHANGED outbox
    BY <1>0, <1>7 DEF Serve
  <2> QED BY <1>0, <2>1 DEF Newest, Running, Free
<1>8. CASE \/ Start \/ Flush \/ SkipCheckpoint \/ FinalFlush \/ NoneQueued \/ HandOff \/ Say
           \/ Notify \/ (\E v \in Verdicts : Finish(v)) \/ CutShort
  <2>1. /\ UNCHANGED <<cur, row, phase>> /\ pc' \in InRun
        /\ pc \in {"booting", "streaming", "flushed", "finishing", "saved", "handing", "ending"}
    BY <1>8 DEF Start, Flush, FlushAt, SkipCheckpoint, FinalFlush, NoneQueued, HandOff, Say, Notify,
                Finish, CutShort, Emit, taskVars, InRun
  <2>2. Running /\ phase' # "starting"
    BY <1>0, <2>1 DEF Running
  <2> QED BY <1>1, <2>1, <2>2, NewestStays DEF InRun
<1>9. CASE FailEarly \/ DbFails
  <2>1. /\ UNCHANGED <<cur, row, phase, outbox>> /\ pc' \in InRun \cup {"dead"} /\ Free
        /\ pc \in {"booting", "starting", "streaming", "flushed", "finishing", "ending"}
    BY <1>0, <1>9 DEF FailEarly, DbFails, InRun
  <2>2. Running /\ Free' /\ pc' # "idle"
    BY <1>0, <2>1 DEF Running, Free, InRun
  <2> QED BY <1>1, <2>1, <2>2, NewestStays
<1>10. CASE Shutdown
  <2>1. /\ UNCHANGED <<cur, row, outbox, pc>> /\ phase = "serving" /\ phase' = "stopping"
    BY <1>10 DEF Shutdown
  <2>2. (Running' => Running) /\ (Free => Free')
    BY <2>1 DEF Running, Free
  <2> QED BY <1>0, <1>1, <2>1, <2>2, NewestStays
<1>11. CASE StartSnapshot \/ Checkpoint
  <2>1. /\ UNCHANGED <<cur, phase>> /\ pc' = "streaming" /\ pc \in {"starting", "flushed"}
    BY <1>11 DEF StartSnapshot, Checkpoint, taskVars
  <2>2. /\ DOMAIN row' = DOMAIN row /\ row'[cur].status = row[cur].status
        /\ \A m \in DOMAIN row \ {cur} : row'[m] = row[m]
    BY <1>11, RowsWritten
  <2>3. Running /\ phase' # "starting"
    BY <1>0, <2>1 DEF Running
  <2>4. \A m \in DOMAIN row : m > cur /\ row[m].status = "deleted" => row'[m].status = "deleted"
    BY <2>2
  <2> QED BY <1>1, <2>1, <2>2, <2>3, <2>4, NewestStays
<1>12. CASE SaveFinal \/ FoldDead
  <2>1. /\ UNCHANGED <<cur, phase, outbox>>
        /\ (pc = "finishing" /\ pc' = "saved") \/ (pc = "dead" /\ pc' = "folded")
    BY <1>12 DEF SaveFinal, FoldDead, taskVars
  <2>2. /\ DOMAIN row' = DOMAIN row /\ row'[cur].status = verdict
        /\ \A m \in DOMAIN row \ {cur} : row'[m] = row[m]
    BY <1>12, RowsWritten
  <2>3. (Running' => Running) /\ (Free => Free')
    BY <2>1 DEF Running, Free
  <2>4. phase' = "starting" \/ pc' \in {"booting", "dead", "folded"} => Free'
    BY <1>0, <2>1, <2>3
  <2>5. \A m \in DOMAIN row : m > cur /\ row[m].status = "deleted" => row'[m].status = "deleted"
    BY <1>0, <2>1, <2>2
  <2> QED BY <1>0, <1>1, <2>1, <2>2, <2>3, <2>4, <2>5, NewestStays
<1>13. CASE HandOffFails
  <2>1. /\ UNCHANGED <<cur, phase>> /\ pc = "handing" /\ pc' = "ending" /\ Len(row) # cur
        /\ DOMAIN row' = DOMAIN row /\ row'[Len(row)].status = "deleted"
        /\ \A n \in DOMAIN row \ {Len(row)} : row'[n] = row[n]
    BY <1>13, Discarded DEF HandOffFails, taskVars
  <2>2. Running /\ phase' # "starting"
    BY <1>0, <2>1 DEF Running
  <2>3. \A m \in DOMAIN row : m > cur /\ row[m].status = "deleted" => row'[m].status = "deleted"
    BY <2>1
  <2> QED BY <1>1, <2>1, <2>2, <2>3, NewestStays
<1>14. CASE Terminal
  <2>1. /\ UNCHANGED <<cur, row, phase>> /\ pc = "ending" /\ pc' = "idle" /\ row[cur].status = verdict
    BY <1>14 DEF Terminal, taskVars, LogInv, Stages
  <2>2. Running /\ phase' # "starting"
    BY <1>0, <2>1 DEF Running
  <2> QED BY <1>0, <1>1, <2>1, <2>2, NewestStays
<1>15. CASE DeadTerminal
  <2>1. /\ UNCHANGED <<cur, row, phase>> /\ pc = "folded" /\ pc' \in {"idle", "reconciling"}
        /\ row[cur].status = verdict
        /\ phase = "starting" => UNCHANGED outbox
    BY <1>15 DEF DeadTerminal, taskVars, LogInv, Stages, AfterDead
  <2>2. (Running' => Running) /\ (phase' = "starting" => Free')
    BY <1>0, <2>1 DEF Running, Free
  <2> QED BY <1>0, <1>1, <2>1, <2>2, NewestStays
<1>16. CASE AlreadyFinal \/ FinalizeFails
  <2>1. /\ UNCHANGED <<cur, row, phase, outbox>> /\ pc \in {"dead", "folded"}
        /\ pc' = AfterDead
    BY <1>16 DEF AlreadyFinal, FinalizeFails, taskVars
  <2>2. Free' /\ ~Running'
    BY <1>0, <2>1 DEF Running, Free, AfterDead
  <2> QED BY <2>2 DEF Newest
<1>17. CASE TaskCancelled
  <2>1. /\ UNCHANGED <<cur, row, phase>> /\ outbox' = <<>> /\ (pc' = "idle" \/ pc' = "dead")
        /\ phase = "stopping" /\ (pc # "idle" \/ ~Free)
    BY <1>17 DEF TaskCancelled
  <2>2. Free' /\ Running /\ (Running' => pc' # "idle")
    BY <2>1 DEF Running, Free
  <2> QED BY <1>1, <2>1, <2>2, NewestStays
<1>18. CASE PublishNext \/ PublishLost
  <2>1. /\ UNCHANGED <<pc, cur, row, phase>> /\ ~Free
    BY <1>18 DEF PublishNext, PublishLost, taskVars
  <2>2. Running' => Running
    BY <2>1 DEF Running
  <2> QED BY <1>0, <1>1, <2>1, <2>2, NewestStays
<1> QED BY <1>2, <1>3, <1>4, <1>5, <1>6, <1>7, <1>8, <1>9, <1>10, <1>11, <1>12, <1>13, <1>14, <1>15,
           <1>16, <1>17, <1>18
        DEF LogNext, WriterStep, TaskStep, AgentStep, FaultStep

LEMMA RowsPrecedeStep ==
    ASSUME LogInv, Columns, Numbered, RowsPrecede, LogNext PROVE RowsPrecede'
<1>0. /\ events \in Seq(Event) /\ DOMAIN events = 1..Len(events) /\ Len(events) \in Nat
      /\ \A i \in DOMAIN events : events[i].msg \in DOMAIN row
      /\ \A m \in DOMAIN row : row[m].seq \in Nat /\ row[m].seq <= Len(events)
  BY RowParts DEF LogInv, LogTyped, Columns, Numbered
<1>1. Moves
  BY LogMoves
<1> SUFFICES ASSUME NEW e \in DOMAIN events', events'[e].kind \in EndKinds
    PROVE  row'[events'[e].msg].seq < e
  BY DEF RowsPrecede, Ends
<1>2. CASE e \in DOMAIN events
  <2>1. /\ events'[e] = events[e] /\ row[events[e].msg].seq < e /\ events[e].msg \in DOMAIN row
        /\ ~NoEnd(events[e].msg)
    BY <1>0, <1>1, <1>2 DEF Moves, RowsPrecede, Ends, NoEnd
  <2> QED BY <1>1, <2>1 DEF Moves
<1>3. CASE e \notin DOMAIN events
  <2>1. /\ cur \in DOMAIN row /\ UNCHANGED row /\ events'[e].msg = cur
    BY <1>3, EventsGrow DEF Grows
  <2>2. Len(events) < e /\ e \in Nat
    BY <1>1, <1>3 DEF Moves
  <2> QED BY <1>0, <2>1, <2>2
<1> QED BY <1>2, <1>3

LEMMA OrderStep ==
    ASSUME LogInv, Columns, Numbered, LogOrder, LogNext PROVE LogOrder'
BY HandOffsStep, NewestStep, RowsPrecedeStep DEF LogOrder

LEMMA OrderStill ==
    ASSUME LogOrder, Still PROVE LogOrder'
BY DEF LogOrder, HandOffsPrecede, RowsPrecede, EventsOf, Newest, Running, Free, Ends, Still, taskVars

-----------------------------------------------------------------------------
(* What the feed and the page compute *)

LEMMA SeqWider == ASSUME NEW S, NEW T, S \subseteq T, NEW q \in Seq(S) PROVE q \in Seq(T)
<1>1. q \in [1..Len(q) -> T] /\ Len(q) \in Nat
  OBVIOUS
<1> QED BY <1>1, FcnSeq

(* A replay past number s is every live event past it, in order. *)
LEMMA Replayed ==
    ASSUME events \in Seq(Event), live \subseteq DOMAIN events, NEW s \in Nat
    PROVE  /\ LiveAfter(s) \in Seq(DOMAIN events)
           /\ \A k \in DOMAIN LiveAfter(s) : LiveAfter(s)[k] \in live /\ LiveAfter(s)[k] > s
           /\ \A j, k \in DOMAIN LiveAfter(s) : j < k => LiveAfter(s)[j] < LiveAfter(s)[k]
           /\ \A i \in live : i > s => \E k \in DOMAIN LiveAfter(s) : LiveAfter(s)[k] = i
<1> DEFINE I == {i \in live : i > s}
           q == InOrder(I)
<1>1. DOMAIN events = 1..Len(events) /\ Len(events) \in Nat
  OBVIOUS
<1>2. I \in SUBSET Nat /\ \A i \in I : i <= Len(events)
  BY <1>1
<1>3. IsFiniteSet(I) /\ I \subseteq Nat
  BY <1>1, <1>2, FS_BoundedSetOfNaturals
<1>4. /\ q \in Seq(I) /\ \A j, k \in DOMAIN q : j < k => q[j] < q[k]
      /\ \A i \in I : \E k \in DOMAIN q : q[k] = i
  <2> HIDE DEF I
  <2> QED BY <1>3, InOrderLists
<1>5. q = LiveAfter(s)
  BY DEF LiveAfter
<1>6. I \subseteq live /\ I \subseteq DOMAIN events /\ \A i \in I : i > s
  OBVIOUS
<1>7. \A i \in live : i > s => i \in I
  OBVIOUS
<1> HIDE DEF I, q
<1>8. q \in Seq(DOMAIN events) /\ \A k \in DOMAIN q : q[k] \in I
  BY <1>4, <1>6, SeqWider, ItemType
<1> QED BY <1>4, <1>5, <1>6, <1>7, <1>8

LEMMA LastOfTypes ==
    ASSUME NEW n \in Nat, NEW q \in Seq(1..n), NEW s \in Nat, s <= n
    PROVE  LastOf(q, s) \in Nat /\ LastOf(q, s) <= n
<1>1. CASE q = <<>>
  BY <1>1 DEF LastOf
<1>2. CASE q # <<>>
  <2>1. Len(q) \in DOMAIN q
    BY <1>2
  <2> QED BY <1>2, <2>1, ItemType DEF LastOf
<1> QED BY <1>1, <1>2

LEMMA MaxSeqTypes ==
    ASSUME NEW turns \in Nat, NEW top \in Nat, NEW msgs, Messages(msgs, turns, top)
    PROVE  /\ MaxSeq(msgs) \in 0..top /\ \A m \in DOMAIN msgs : msgs[m].seq <= MaxSeq(msgs)
<1> DEFINE I == {msgs[m].seq : m \in DOMAIN msgs} \cup {0}
           Tops(s) == \A t \in I : t <= s
<1>1. \A m \in DOMAIN msgs : msgs[m].seq \in Nat /\ msgs[m].seq <= top
  BY DEF Messages, Entry
<1>2. I \in SUBSET Nat /\ \A i \in I : i <= top
  BY <1>1
<1>3. IsFiniteSet(I) /\ I \subseteq Nat /\ I # {}
  BY <1>2, FS_BoundedSetOfNaturals
<1>4. \E s \in I : Tops(s)
  <2> HIDE DEF I
  <2> QED BY <1>3, LargestExists
<1>5. MaxSeq(msgs) = CHOOSE s \in I : Tops(s)
  BY DEF MaxSeq
<1>6. MaxSeq(msgs) \in I /\ Tops(MaxSeq(msgs))
  <2> HIDE DEF I, Tops
  <2> QED BY <1>4, <1>5
<1>7. \A m \in DOMAIN msgs : msgs[m].seq \in I
  OBVIOUS
<1> QED BY <1>2, <1>6, <1>7

LEMMA WithRowTypes ==
    ASSUME NEW turns, NEW top, NEW msgs, Messages(msgs, turns, top),
           NEW m \in 1..turns, NEW entry \in Entry, entry.seq <= top
    PROVE  Messages(WithRow(msgs, m, entry), turns, top)
BY DEF Messages, WithRow

LEMMA WithRowHolds ==
    ASSUME NEW msgs, NEW m, NEW entry
    PROVE  /\ DOMAIN WithRow(msgs, m, entry) = DOMAIN msgs \cup {m}
           /\ \A k \in DOMAIN msgs : WithRow(msgs, m, entry)[k] = msgs[k]
           /\ m \notin DOMAIN msgs => WithRow(msgs, m, entry)[m] = entry
BY DEF WithRow

LEMMA SetTypes ==
    ASSUME NEW turns, NEW top, NEW msgs, Messages(msgs, turns, top),
           NEW m, NEW entry \in Entry, entry.seq <= top
    PROVE  Messages(Set(msgs, m, entry), turns, top)
BY DEF Messages, Set

LEMMA SetHolds ==
    ASSUME NEW msgs, NEW m, NEW entry
    PROVE  /\ DOMAIN Set(msgs, m, entry) = DOMAIN msgs
           /\ \A k \in DOMAIN msgs : k # m => Set(msgs, m, entry)[k] = msgs[k]
           /\ m \in DOMAIN msgs => Set(msgs, m, entry)[m] = entry
BY DEF Set

LEMMA PageHolds ==
    ASSUME NEW rows
    PROVE  /\ DOMAIN Page(rows) = {k \in DOMAIN rows : rows[k].status # "deleted"}
           /\ \A m \in DOMAIN Page(rows) : Page(rows)[m] = [items |-> rows[m].items, seq |-> rows[m].seq]
BY DEF Page

LEMMA PageTypes ==
    ASSUME NEW turns \in Nat, NEW top, NEW rows, PageOf(rows, turns, top)
    PROVE  Messages(Page(rows), turns, top)
<1>1. /\ rows \in Seq(Row) /\ DOMAIN rows \subseteq 1..turns
  BY DEF PageOf
<1>2. \A m \in DOMAIN rows : rows[m] \in Row /\ rows[m].seq <= top
  BY <1>1, ItemType DEF PageOf
<1>3. \A m \in DOMAIN rows : [items |-> rows[m].items, seq |-> rows[m].seq] \in Entry
  BY <1>2 DEF Row, Entry
<1>4. \A m \in DOMAIN Page(rows) :
        Page(rows)[m] = [items |-> rows[m].items, seq |-> rows[m].seq] /\ m \in DOMAIN rows
  BY PageHolds
<1>5. \A m \in DOMAIN Page(rows) : Page(rows)[m] \in Entry /\ Page(rows)[m].seq <= top
  BY <1>2, <1>3, <1>4
<1> QED BY <1>1, <1>4, <1>5 DEF Messages

LEMMA MissingHolds ==
    ASSUME NEW msgs, NEW page
    PROVE  /\ DOMAIN Missing(msgs, page) = DOMAIN msgs \cup DOMAIN page
           /\ \A m \in DOMAIN msgs : Missing(msgs, page)[m] = msgs[m]
           /\ \A m \in DOMAIN page : m \notin DOMAIN msgs => Missing(msgs, page)[m] = page[m]
BY DEF Missing

LEMMA MissingTypes ==
    ASSUME NEW turns, NEW top, NEW msgs, Messages(msgs, turns, top), NEW page, Messages(page, turns, top)
    PROVE  Messages(Missing(msgs, page), turns, top)
<1> DEFINE both == Missing(msgs, page)
<1>1. /\ DOMAIN both = DOMAIN msgs \cup DOMAIN page
      /\ \A m \in DOMAIN msgs : both[m] = msgs[m]
      /\ \A m \in DOMAIN page : m \notin DOMAIN msgs => both[m] = page[m]
  BY MissingHolds
<1> HIDE DEF both
<1>2. Messages(both, turns, top)
  BY <1>1 DEF Messages
<1> QED BY <1>2 DEF both

LEMMA FailedTypes ==
    ASSUME NEW entry \in Entry PROVE Failed(entry) \in Entry /\ Failed(entry).seq = entry.seq
BY DEF Entry, Failed

LEMMA BlankTypes == ASSUME NEW s \in Nat PROVE Blank(s) \in Entry /\ Blank(s).seq = s
BY DEF Entry, Blank

-----------------------------------------------------------------------------
(* The types *)

(* What is true of the log in every state of the feed. *)
LogFacts == LogInv /\ Columns /\ TextInv /\ LogOrder

LEMMA StepOfLog ==
    ASSUME Next, faults \in Nat PROVE LogNext \/ (Still /\ faults' \in Nat)
<1>1. CASE Send \/ OtherTurn
  BY <1>1 DEF Send, OtherTurn, LogNext
<1>2. CASE Server
  BY <1>2 DEF Server, LogNext
<1>3. CASE Published \/ PublishLost \/ ServerDies
  BY <1>3 DEF Published, ServerDies, LogNext
<1>4. CASE \/ Probe \/ Subscribe \/ ReplayBacklog \/ Forward \/ Open \/ Register \/ Reenter
           \/ FetchRead \/ FetchApply \/ Ignore \/ Pass \/ AppendText \/ FollowHandOff \/ EndStream
  <2>1. UNCHANGED logVars
    BY <1>4 DEF Probe, Subscribe, ReplayBacklog, Forward, Open, Register, Reenter, FetchRead, FetchApply,
                Ignore, Pass, AppendText, FollowHandOff, EndStream
  <2> QED BY <2>1, StillStutters DEF logVars
<1>5. CASE Drop \/ GiveUp \/ Refetch \/ Reload
  BY <1>5 DEF Drop, GiveUp, Refetch, Reload, Fault, Still
<1> QED BY <1>1, <1>2, <1>3, <1>4, <1>5
        DEF Next, Feed, Browser, Deliver, Disturbance

LEMMA FactsStep ==
    ASSUME LogFacts, [Next]_vars PROVE LogFacts' /\ Moves
<1>0. faults \in Nat
  BY DEF LogFacts, Columns
<1>1. LogNext \/ (Still /\ faults' \in Nat)
  <2>1. CASE Next
    BY <1>0, <2>1, StepOfLog
  <2>2. CASE UNCHANGED vars
    <3>1. UNCHANGED logVars
      BY <2>2 DEF vars
    <3> QED BY <1>0, <3>1, StillStutters DEF logVars
  <2> QED BY <2>1, <2>2
<1>2. CASE LogNext
  <2>1. LogInv'
    BY <1>2, LogStep DEF LogFacts
  <2> QED BY <1>2, <2>1, ColumnsStep, TextStep, OrderStep, LogMoves DEF LogFacts, TextInv
<1>3. CASE Still /\ faults' \in Nat
  BY <1>3, LogStutters, TextStutters, OrderStill, StillMoves DEF LogFacts
<1> QED BY <1>1, <1>2, <1>3

LEMMA FactsInit == FeedInit => LogFacts
<1> SUFFICES ASSUME FeedInit PROVE LogFacts
  OBVIOUS
<1>1. Init
  BY DEF FeedInit
<1>2. row = <<>> /\ events = <<>> /\ outbox = <<>> /\ pc = "idle" /\ phase = "serving"
  BY <1>1 DEF Init
<1>3. LogOrder
  BY <1>2 DEF LogOrder, HandOffsPrecede, RowsPrecede, Ends, Newest, Running, Free
<1> QED BY <1>1, <1>3, LogInit, TextInit DEF LogFacts

LEMMA Indices ==
    ASSUME LogFacts
    PROVE  /\ events \in Seq(Event) /\ DOMAIN events = 1..Len(events) /\ Len(events) \in Nat
           /\ row \in Seq(Row) /\ DOMAIN row = 1..Len(row) /\ Len(row) \in Nat
           /\ live \subseteq DOMAIN events
           /\ \A m \in DOMAIN row : row[m].seq \in Nat /\ row[m].seq <= Len(events)
BY RowIndex, RowParts DEF LogFacts, LogInv, LogTyped, Columns, TextInv, Numbered

LEMMA PublishTypes ==
    ASSUME events \in Seq(Event), events' \in Seq(Event), NEW n \in Nat,
           Len(events') = Len(events) + n, Publish(n)
    PROVE  outbox' \in Seq(DOMAIN events')
<1>1. /\ DOMAIN events' = 1..(Len(events) + n) /\ Len(events) \in Nat
      /\ outbox' = [k \in 1..n |-> Len(events) + k]
  BY DEF Publish
<1>2. outbox' \in [1..n -> DOMAIN events']
  BY <1>1
<1> QED BY <1>2, FcnSeq

LEMMA OutboxStep ==
    ASSUME LogFacts, Moves, LogNext, outbox \in Seq(DOMAIN events)
    PROVE  outbox' \in Seq(DOMAIN events')
<1>0. /\ events \in Seq(Event) /\ events' \in Seq(Event) /\ DOMAIN events \subseteq DOMAIN events'
      /\ unflushed \in Nat /\ 1 \in Nat
  BY DEF LogFacts, LogInv, LogTyped, Moves
<1>1. <<>> \in Seq(DOMAIN events') /\ outbox \in Seq(DOMAIN events')
  <2>1. outbox \in Seq(DOMAIN events')
    BY <1>0, SeqWider
  <2> QED BY <2>1
<1>2. CASE PublishNext \/ PublishLost
  <2>1. outbox # <<>> /\ outbox' = Tail(outbox)
    BY <1>2 DEF PublishNext, PublishLost, Free
  <2> DEFINE S == DOMAIN events'
  <2>2. outbox \in Seq(S)
    BY <1>1
  <2> HIDE DEF S
  <2>3. Tail(outbox) \in Seq(S)
    BY <2>1, <2>2
  <2> QED BY <2>1, <2>3 DEF S
<1>3. ASSUME NEW kind, Commit(One(cur, kind)), Publish(1) PROVE outbox' \in Seq(DOMAIN events')
  <2>1. Len(events') = Len(events) + 1
    BY <1>0, <1>3 DEF Commit, One
  <2> QED BY <1>0, <1>3, <2>1, PublishTypes
<1>4. CASE Start \/ Notify \/ Terminal
  BY <1>3, <1>4 DEF Start, Notify, Terminal, Emit
<1>5. CASE DeadTerminal
  BY <1>1, <1>3, <1>5 DEF DeadTerminal
<1>6. CASE HandOff
  <2>1. Len(events') = Len(events) + 1 /\ Publish(1)
    BY <1>0, <1>6 DEF HandOff, Commit
  <2> QED BY <1>0, <2>1, PublishTypes
<1>7. CASE Flush \/ FinalFlush
  <2>1. Commit(Batch) /\ Publish(unflushed)
    BY <1>7 DEF Flush, FinalFlush, FlushAt
  <2>2. Len(events') = Len(events) + unflushed
    BY <1>0, <2>1 DEF Commit, Batch
  <2> QED BY <1>0, <2>1, <2>2, PublishTypes
<1>8. CASE outbox' = outbox \/ outbox' = <<>>
  BY <1>1, <1>8
<1>9. CASE \/ StartSnapshot \/ Checkpoint \/ SkipCheckpoint \/ SaveFinal \/ NoneQueued \/ StartNext
           \/ FoldDead \/ AlreadyFinal \/ Reconcile \/ Serve \/ Say \/ (\E v \in Verdicts : Finish(v))
           \/ FailEarly \/ DbFails \/ HandOffFails \/ FinalizeFails \/ CutShort \/ Shutdown
           \/ TaskCancelled \/ ScaffoldNext \/ NewTurn \/ Crash \/ Exit
  <2>1. outbox' = outbox \/ outbox' = <<>>
    BY <1>9 DEF StartSnapshot, Checkpoint, SkipCheckpoint, SaveFinal, NoneQueued, StartNext,
        FoldDead, AlreadyFinal, Reconcile, Serve, Say, Finish, FailEarly, DbFails, HandOffFails,
        FinalizeFails, CutShort, Shutdown, TaskCancelled, ScaffoldNext, NewTurn, Crash, Exit, Boot
  <2> QED BY <1>8, <2>1
<1> QED BY <1>2, <1>4, <1>5, <1>6, <1>7, <1>9
        DEF LogNext, WriterStep, TaskStep, AgentStep, FaultStep

LEMMA TailTypes ==
    ASSUME NEW S, NEW q \in Seq(S), q # <<>>
    PROVE  Head(q) \in S /\ Tail(q) \in Seq(S)
OBVIOUS

(* What the page's steps do to the connection. *)
LEMMA ConnChange ==
    ASSUME Next
    PROVE  \/ UNCHANGED netVars
           \/ \E c \in {cursor, ResumeAt(probe.msg)} : OpenPast(c)
           \/ Close
           \/ Subscribe \/ ReplayBacklog \/ Forward \/ Published
           \/ Take /\ UNCHANGED <<conn, from, feedSeq, inbox>>
<1>1. CASE \/ Send \/ OtherTurn \/ Probe \/ FetchRead \/ FetchApply \/ Server \/ Refetch
           \/ PublishLost /\ UNCHANGED <<netVars, pageVars>>
  BY <1>1 DEF Send, OtherTurn, Probe, FetchRead, FetchApply, Server, Refetch
<1>2. CASE Open \/ Register \/ Reenter
  BY <1>2 DEF Open, Register, Reenter
<1>3. CASE Drop \/ GiveUp \/ Reload \/ ServerDies \/ EndStream
  BY <1>3 DEF Drop, GiveUp, Reload, ServerDies, EndStream
<1>4. CASE Ignore \/ Pass \/ AppendText \/ FollowHandOff
  BY <1>4 DEF Ignore, Pass, AppendText, FollowHandOff
<1> QED BY <1>1, <1>2, <1>3, <1>4 DEF Next, Feed, Browser, Deliver, Disturbance

LEMMA ResumeTypes ==
    ASSUME LogFacts, ViewTyped, NEW m PROVE ResumeAt(m) \in 0..Len(events)
BY Indices DEF ViewTyped, Messages, Entry, ResumeAt

LEMMA OutboxTyped ==
    ASSUME LogFacts, Moves, Next, outbox \in Seq(DOMAIN events)
    PROVE  outbox' \in Seq(DOMAIN events')
<1>1. CASE LogNext
  BY <1>1, OutboxStep
<1>2. CASE Still
  <2>1. outbox' = outbox /\ DOMAIN events \subseteq DOMAIN events'
    BY <1>2 DEF Still, Moves
  <2> QED BY <2>1, SeqWider
<1> QED BY <1>1, <1>2, StepOfLog DEF LogFacts, Columns

LEMMA ConnStep ==
    ASSUME LogFacts, Moves, FeedTyped, Next PROVE ConnTyped'
<1>0. /\ DOMAIN events = 1..Len(events) /\ Len(events) \in Nat
      /\ Len(events') \in Nat /\ Len(events) <= Len(events') /\ DOMAIN events \subseteq DOMAIN events'
      /\ 0..Len(events) \subseteq 0..Len(events') /\ DOMAIN events' = 1..Len(events')
  BY Indices DEF Moves
<1>1. /\ conn \in {"closed", "opening", "replaying", "live"}
      /\ from \in 0..Len(events) /\ feedSeq \in 0..Len(events) /\ cursor \in 0..Len(events)
      /\ inbox \in Seq(DOMAIN events) /\ wire \in Seq(DOMAIN events)
  BY DEF FeedTyped, ConnTyped, PageTyped
<1>2. outbox' \in Seq(DOMAIN events')
  BY OutboxTyped DEF FeedTyped, ConnTyped
<1>3. inbox \in Seq(DOMAIN events') /\ wire \in Seq(DOMAIN events') /\ <<>> \in Seq(DOMAIN events')
  <2>1. inbox \in Seq(DOMAIN events')
    BY <1>0, <1>1, SeqWider
  <2>2. wire \in Seq(DOMAIN events')
    BY <1>0, <1>1, SeqWider
  <2> QED BY <2>1, <2>2
<1>4. CASE UNCHANGED netVars
  BY <1>0, <1>1, <1>2, <1>3, <1>4 DEF netVars, ConnTyped
<1>5. ASSUME NEW c \in {cursor, ResumeAt(probe.msg)}, OpenPast(c) PROVE ConnTyped'
  <2>1. c \in 0..Len(events)
    BY <1>1, <1>5, ResumeTypes DEF FeedTyped
  <2>2. conn' = "opening" /\ from' \in 0..Len(events') /\ feedSeq' \in 0..Len(events')
    BY <1>0, <1>5, <2>1 DEF OpenPast
  <2>3. wire' = <<>> /\ inbox' = <<>>
    BY <1>5 DEF OpenPast
  <2> QED BY <1>2, <1>3, <2>2, <2>3 DEF ConnTyped
<1>6. CASE Close
  <2>1. conn' = "closed" /\ from' \in 0..Len(events') /\ feedSeq' \in 0..Len(events')
    BY <1>0, <1>1, <1>6 DEF Close
  <2>2. wire' = <<>> /\ inbox' = <<>>
    BY <1>6 DEF Close
  <2> QED BY <1>2, <1>3, <2>1, <2>2 DEF ConnTyped
<1>7. CASE Subscribe
  <2>1. UNCHANGED <<inbox, wire>> /\ conn' = "replaying" /\ feedSeq' = from /\ from' = 0
    BY <1>7 DEF Subscribe
  <2> QED BY <1>0, <1>1, <1>2, <1>3, <2>1 DEF ConnTyped
<1>8. feedSeq \in Nat /\ LiveAfter(feedSeq) \in Seq(DOMAIN events)
      /\ LastOf(LiveAfter(feedSeq), feedSeq) \in 0..Len(events)
  <2>1. feedSeq \in Nat /\ feedSeq <= Len(events)
    BY <1>0, <1>1
  <2>2. LiveAfter(feedSeq) \in Seq(DOMAIN events)
    BY <2>1, Replayed, Indices
  <2> DEFINE q == LiveAfter(feedSeq)
  <2>3. q \in Seq(1..Len(events))
    BY <1>0, <2>2
  <2> HIDE DEF q
  <2>4. LastOf(q, feedSeq) \in 0..Len(events)
    BY <1>0, <2>1, <2>3, LastOfTypes
  <2> QED BY <2>1, <2>2, <2>4 DEF q
<1>9. CASE ReplayBacklog
  <2>1. /\ UNCHANGED <<from, inbox, events>> /\ conn' = "live" /\ wire' = wire \o LiveAfter(feedSeq)
        /\ feedSeq' = LastOf(LiveAfter(feedSeq), feedSeq)
    BY <1>9 DEF ReplayBacklog, logVars
  <2> DEFINE q == LiveAfter(feedSeq)
             S == DOMAIN events
  <2>2. q \in Seq(S) /\ wire \in Seq(S)
    BY <1>1, <1>8
  <2> HIDE DEF q, S
  <2>3. wire \o q \in Seq(S)
    BY <2>2
  <2>4. wire' \in Seq(DOMAIN events')
    BY <2>1, <2>3 DEF q, S
  <2> QED BY <1>1, <1>2, <1>3, <1>8, <2>1, <2>4 DEF ConnTyped
<1>10. CASE Forward
  <2> DEFINE s == Head(inbox)
             fill == IF Gap(s) THEN LiveAfter(feedSeq) ELSE <<>>
             last == LastOf(fill, feedSeq)
             S == DOMAIN events
  <2>1. /\ inbox # <<>> /\ inbox' = Tail(inbox) /\ UNCHANGED <<events, conn, from>>
        /\ \/ wire' = wire \o fill /\ feedSeq' = last
           \/ wire' = Append(wire \o fill, s) /\ feedSeq' = s
    BY <1>10 DEF Forward, logVars
  <2>2. fill \in Seq(S) /\ last \in 0..Len(events)
    <3>1. CASE Gap(s)
      BY <1>8, <3>1
    <3>2. CASE ~Gap(s)
      <4>1. fill = <<>>
        BY <3>2
      <4>2. last = feedSeq
        BY <4>1 DEF LastOf
      <4>3. <<>> \in Seq(S)
        OBVIOUS
      <4> HIDE DEF fill, last, S
      <4> QED BY <1>1, <4>1, <4>2, <4>3
    <3> QED BY <3>1, <3>2
  <2>3. s \in S /\ Tail(inbox) \in Seq(S) /\ wire \in Seq(S) /\ S \subseteq 0..Len(events)
    BY <1>0, <1>1, <2>1, TailTypes
  <2> HIDE DEF s, fill, last, S
  <2>4. wire \o fill \in Seq(S) /\ Append(wire \o fill, s) \in Seq(S)
    BY <2>2, <2>3
  <2>5. wire' \in Seq(S) /\ feedSeq' \in 0..Len(events) /\ inbox' \in Seq(S)
    BY <2>1, <2>2, <2>3, <2>4
  <2> QED BY <1>1, <1>2, <2>1, <2>5 DEF ConnTyped, S
<1>11. CASE Published
  <2>1. /\ UNCHANGED <<conn, from, feedSeq, wire, events>> /\ outbox # <<>>
        /\ inbox' = inbox \/ inbox' = Append(inbox, Head(outbox))
    BY <1>11 DEF Published, PublishNext, Free
  <2> DEFINE S == DOMAIN events
             s == Head(outbox)
  <2>2. s \in S /\ inbox \in Seq(S)
    BY <1>1, <2>1, TailTypes DEF FeedTyped, ConnTyped
  <2>3. inbox' = inbox \/ inbox' = Append(inbox, s)
    BY <2>1
  <2> HIDE DEF S, s
  <2>4. Append(inbox, s) \in Seq(S)
    BY <2>2
  <2>5. inbox' \in Seq(S)
    BY <2>2, <2>3, <2>4
  <2> QED BY <1>1, <1>2, <2>1, <2>5 DEF ConnTyped, S
<1>12. CASE Take /\ UNCHANGED <<conn, from, feedSeq, inbox>>
  <2>1. UNCHANGED <<conn, from, feedSeq, inbox>> /\ wire # <<>> /\ wire' = Tail(wire)
    BY <1>12 DEF Take
  <2>2. wire' \in Seq(DOMAIN events')
    BY <1>3, <2>1, TailTypes
  <2> QED BY <1>0, <1>1, <1>2, <1>3, <2>1, <2>2 DEF ConnTyped
<1> QED BY <1>4, <1>5, <1>6, <1>7, <1>9, <1>10, <1>11, <1>12, ConnChange

(* What the page holds stays well typed as the log goes on. *)
LEMMA ViewsGrow ==
    ASSUME NEW n \in Nat, NEW k \in Nat, NEW t \in Nat, NEW u \in Nat, n <= k, t <= u
    PROVE  /\ \A msgs : Messages(msgs, n, t) => Messages(msgs, k, u)
           /\ \A rows : PageOf(rows, n, t) => PageOf(rows, k, u)
<1>1. ASSUME NEW msgs, Messages(msgs, n, t) PROVE Messages(msgs, k, u)
  BY <1>1 DEF Messages, Entry
<1>2. ASSUME NEW rows, PageOf(rows, n, t) PROVE PageOf(rows, k, u)
  <2>1. rows \in Seq(Row) /\ Len(rows) <= n /\ \A m \in DOMAIN rows : rows[m] \in Row /\ rows[m].seq <= t
    BY <1>2, ItemType DEF PageOf
  <2>2. \A m \in DOMAIN rows : rows[m].seq \in Nat /\ rows[m].seq <= u
    BY <2>1 DEF Row
  <2>3. Len(rows) <= k
    BY <2>1
  <2> QED BY <2>1, <2>2, <2>3 DEF PageOf
<1> QED BY <1>1, <1>2

LEMMA PageIdles ==
    ASSUME LogFacts, LogFacts', Moves, FeedTyped, UNCHANGED pageVars PROVE PageTyped' /\ ViewTyped'
<1>0. /\ Len(row) \in Nat /\ Len(row) <= Len(row') /\ Len(row') \in Nat
      /\ Len(events) \in Nat /\ Len(events) <= Len(events') /\ Len(events') \in Nat
      /\ DOMAIN row \subseteq DOMAIN row' /\ DOMAIN events \subseteq DOMAIN events'
  <2>1. Len(row') \in Nat
    BY RowIndex DEF LogFacts, LogInv
  <2> QED BY <2>1, Indices DEF Moves
<1>1. UNCHANGED <<stream, reply, probe, cursor, seen, cache, shown, fetch, stale, loaded, ended, early>>
  BY DEF pageVars
<1>2. PageTyped'
  BY <1>0, <1>1 DEF FeedTyped, PageTyped
<1>3. ViewTyped'
  BY <1>0, <1>1, ViewsGrow DEF FeedTyped, ViewTyped
<1> QED BY <1>2, <1>3

LEMMA SendTyped ==
    ASSUME LogFacts, LogFacts', Moves, FeedTyped, Send PROVE PageTyped' /\ ViewTyped'
<1>0. /\ Len(row) \in Nat /\ Len(row') = Len(row) + 1 /\ DOMAIN row \subseteq DOMAIN row'
      /\ Len(events) \in Nat /\ Len(events') = Len(events) /\ DOMAIN events \subseteq DOMAIN events'
  <2>1. events' = events /\ row' = Append(row, [status |-> "in_progress", items |-> <<>>, seq |-> 0])
    BY DEF Send, NewTurn, NewRow
  <2>2. row \in Seq(Row) /\ Len(row) \in Nat /\ Len(events) \in Nat
    BY Indices
  <2>3. Len(row') = Len(row) + 1
    BY <2>1, <2>2
  <2> QED BY <2>1, <2>2, <2>3 DEF Moves
<1>1. /\ reply' = Len(row) + 1 /\ probe' = NoProbe
      /\ UNCHANGED <<stream, cursor, seen, cache, shown, fetch, stale, loaded, ended, early>>
  BY DEF Send
<1>2. PageTyped'
  BY <1>0, <1>1 DEF FeedTyped, PageTyped, NoProbe
<1>3. ViewTyped'
  <2>1. Len(row') \in Nat /\ Len(events') \in Nat /\ Len(row) <= Len(row') /\ Len(events) <= Len(events')
    BY <1>0
  <2> QED BY <1>0, <1>1, <2>1, ViewsGrow DEF FeedTyped, ViewTyped
<1> QED BY <1>2, <1>3

LEMMA RegisterTyped ==
    ASSUME LogFacts, FeedTyped, Register PROVE PageTyped' /\ ViewTyped'
<1>0. Len(row) \in Nat /\ Len(events) \in Nat /\ DOMAIN row = 1..Len(row)
  BY Indices
<1>1. /\ reply # 0 /\ stream' = reply /\ reply' = 0
      /\ UNCHANGED <<events, row, probe, cursor, seen, fetch, stale, loaded, ended>>
      /\ cache' = WithRow(cache, reply, Blank(0)) /\ shown' = WithRow(shown, reply, Blank(0))
      /\ early' \subseteq early \cup {reply}
  BY DEF Register, Starts, logVars
<1>2. reply \in 1..Len(row) /\ Blank(0) \in Entry /\ Blank(0).seq <= Len(events)
  BY <1>0, <1>1, BlankTypes DEF FeedTyped, PageTyped
<1>3. Messages(cache', Len(row), Len(events)) /\ Messages(shown', Len(row), Len(events))
  BY <1>1, <1>2, WithRowTypes DEF FeedTyped, ViewTyped
<1>4. reply \in DOMAIN shown'
  <2>1. DOMAIN WithRow(shown, reply, Blank(0)) = DOMAIN shown \cup {reply}
    BY WithRowHolds
  <2> QED BY <1>1, <2>1
<1>5. PageTyped'
  BY <1>0, <1>1, <1>2 DEF FeedTyped, PageTyped
<1>6. ViewTyped'
  BY <1>1, <1>3, <1>4 DEF FeedTyped, ViewTyped
<1> QED BY <1>5, <1>6

LEMMA ProbeTyped ==
    ASSUME LogFacts, FeedTyped, Probe PROVE PageTyped' /\ ViewTyped'
<1>1. /\ Latest \in InProgress /\ probe' = [msg |-> Latest, seq |-> row[Latest].seq]
      /\ UNCHANGED <<events, row, stream, reply, cursor, seen, cache, shown, fetch, stale, loaded, ended, early>>
  BY DEF Probe, logVars
<1>2. /\ Latest \in DOMAIN row /\ DOMAIN row = 1..Len(row) /\ Len(row) \in Nat /\ Len(events) \in Nat
      /\ row[Latest].seq \in 0..Len(events)
  BY <1>1, Indices DEF InProgress
<1>3. probe'.msg = Latest /\ probe'.seq = row[Latest].seq
  BY <1>1
<1>4. PageTyped'
  BY <1>1, <1>2, <1>3 DEF FeedTyped, PageTyped
<1>5. ViewTyped'
  BY <1>1 DEF FeedTyped, ViewTyped
<1> QED BY <1>4, <1>5

LEMMA ReenterTyped ==
    ASSUME LogFacts, FeedTyped, Reenter PROVE PageTyped' /\ ViewTyped'
<1>0. Len(row) \in Nat /\ Len(events) \in Nat /\ DOMAIN row = 1..Len(row)
  BY Indices
<1>1. /\ stream' = probe.msg /\ probe' = NoProbe /\ probe # NoProbe
      /\ cursor' = ResumeAt(probe.msg) /\ (seen' = {} \/ seen' = seen)
      /\ UNCHANGED <<events, row, reply, fetch, stale, loaded, ended, early>>
      /\ cache' = WithRow(cache, probe.msg, Blank(probe.seq))
      /\ shown' = WithRow(shown, probe.msg, Blank(probe.seq))
  BY DEF Reenter, logVars
<1>2. /\ probe.msg \in 1..Len(row) /\ probe.seq \in Nat /\ Blank(probe.seq) \in Entry
      /\ Blank(probe.seq).seq <= Len(events)
  <2>1. probe.msg \in 1..Len(row) /\ probe.seq \in Nat /\ probe.seq <= Len(events)
    BY <1>0, <1>1 DEF FeedTyped, PageTyped
  <2>2. Blank(probe.seq) \in Entry /\ Blank(probe.seq).seq = probe.seq
    BY <2>1, BlankTypes
  <2> QED BY <2>1, <2>2
<1>3. Messages(cache', Len(row), Len(events)) /\ Messages(shown', Len(row), Len(events))
  BY <1>1, <1>2, WithRowTypes DEF FeedTyped, ViewTyped
<1>4. probe.msg \in DOMAIN shown'
  <2>1. DOMAIN WithRow(shown, probe.msg, Blank(probe.seq)) = DOMAIN shown \cup {probe.msg}
    BY WithRowHolds
  <2> QED BY <1>1, <2>1
<1>5. cursor' \in 0..Len(events)
  BY <1>1, ResumeTypes DEF FeedTyped
<1>6. PageTyped'
  BY <1>0, <1>1, <1>2, <1>5 DEF FeedTyped, PageTyped, NoProbe
<1>7. ViewTyped'
  BY <1>1, <1>3, <1>4 DEF FeedTyped, ViewTyped
<1> QED BY <1>6, <1>7

LEMMA FetchReadTyped ==
    ASSUME LogFacts, FeedTyped, FetchRead PROVE PageTyped' /\ ViewTyped'
<1>1. /\ fetch' = <<row>> /\ stale' = FALSE
      /\ UNCHANGED <<events, row, stream, reply, probe, cursor, seen, cache, shown, loaded, ended, early>>
  BY DEF FetchRead, logVars
<1>2. PageOf(row, Len(row), Len(events))
  BY Indices DEF PageOf
<1>3. PageTyped'
  BY <1>1 DEF FeedTyped, PageTyped
<1>4. Len(fetch') = 1 /\ fetch'[1] = row
  BY <1>1
<1>5. ViewTyped'
  BY <1>1, <1>2, <1>4 DEF FeedTyped, ViewTyped
<1> QED BY <1>3, <1>5

LEMMA IdleTypes ==
    ASSUME LogFacts, NEW msgs, Messages(msgs, Len(row), Len(events)), NEW c \in 0..Len(events), Idle(msgs, c)
    PROVE  shown' = msgs /\ cursor' \in 0..Len(events)
<1>1. MaxSeq(msgs) \in 0..Len(events)
  BY Indices, MaxSeqTypes
<1> QED BY <1>1 DEF Idle

LEMMA FetchApplyTyped ==
    ASSUME LogFacts, FeedTyped, FetchApply PROVE PageTyped' /\ ViewTyped'
<1> DEFINE page == Page(fetch[1])
<1>0. Len(row) \in Nat /\ Len(events) \in Nat
  BY Indices
<1>1. /\ fetch # NoFetch /\ fetch' = NoFetch /\ loaded' = TRUE
      /\ UNCHANGED <<events, row, stream, reply, probe, seen, stale, ended>> /\ early' \subseteq early
  BY DEF FetchApply, logVars
<1>2. Messages(page, Len(row), Len(events))
  BY <1>0, <1>1, PageTypes DEF FeedTyped, ViewTyped
<1>3. \/ cache' = page /\ Idle(page, cursor) /\ stream = 0
      \/ /\ cache' = IF stream = 0 THEN page ELSE WithRow(page, stream, shown[stream])
         /\ shown' = Missing(shown, page) /\ UNCHANGED cursor
  BY DEF FetchApply
<1> HIDE DEF page
<1>4. /\ Messages(cache, Len(row), Len(events)) /\ Messages(shown, Len(row), Len(events))
      /\ cursor \in 0..Len(events) /\ stream \in 0..Len(row) /\ (stream # 0 => stream \in DOMAIN shown)
  BY DEF FeedTyped, ViewTyped, PageTyped
<1>5. stream # 0 => /\ stream \in 1..Len(row) /\ shown[stream] \in Entry /\ shown[stream].seq <= Len(events)
  BY <1>0, <1>4 DEF Messages
<1>6. /\ Messages(cache', Len(row), Len(events)) /\ Messages(shown', Len(row), Len(events))
      /\ cursor' \in 0..Len(events) /\ (stream # 0 => stream \in DOMAIN shown')
  <2>1. CASE cache' = page /\ Idle(page, cursor) /\ stream = 0
    BY <1>2, <1>4, <2>1, IdleTypes
  <2>2. CASE /\ cache' = IF stream = 0 THEN page ELSE WithRow(page, stream, shown[stream])
             /\ shown' = Missing(shown, page) /\ UNCHANGED cursor
    <3>1. Messages(cache', Len(row), Len(events))
      BY <1>2, <1>5, <2>2, WithRowTypes
    <3>2. Messages(shown', Len(row), Len(events)) /\ (stream # 0 => stream \in DOMAIN shown')
      BY <1>2, <1>4, <2>2, MissingTypes, MissingHolds
    <3> QED BY <1>4, <2>2, <3>1, <3>2
  <2> QED BY <1>3, <2>1, <2>2
<1>7. PageTyped'
  BY <1>1, <1>6 DEF FeedTyped, PageTyped
<1>8. ViewTyped'
  BY <1>1, <1>6 DEF FeedTyped, ViewTyped
<1> QED BY <1>7, <1>8

LEMMA StreamEntry ==
    ASSUME LogFacts, FeedTyped, stream # 0
    PROVE  /\ stream \in DOMAIN row /\ stream \in DOMAIN shown /\ shown[stream] \in Entry
           /\ shown[stream].items \in Seq(Nat) /\ shown[stream].seq \in 0..Len(events)
BY Indices DEF FeedTyped, PageTyped, ViewTyped, Messages, Entry

(* What handling an event does, whatever it is. *)
LEMMA HandledTypes ==
    ASSUME LogFacts, FeedTyped, wire # <<>>, ~Ignored(Head(wire))
    PROVE  /\ Head(wire) \in DOMAIN events /\ Head(wire) \notin seen /\ stream # 0
           /\ seen \cup {Head(wire)} \subseteq DOMAIN events
           /\ Larger(cursor, Head(wire)) \in 0..Len(events)
<1>1. wire \in Seq(DOMAIN events) /\ DOMAIN events = 1..Len(events) /\ Len(events) \in Nat
  BY Indices DEF FeedTyped, ConnTyped
<1>2. Head(wire) \in DOMAIN events
  BY <1>1, TailTypes
<1>3. Head(wire) \notin seen /\ stream # 0
  BY DEF Ignored
<1> QED BY <1>1, <1>2, <1>3 DEF FeedTyped, PageTyped, Larger

LEMMA IgnoreTyped ==
    ASSUME FeedTyped, Ignore PROVE PageTyped' /\ ViewTyped'
BY DEF Ignore, FeedTyped, PageTyped, ViewTyped, logVars, pageVars

LEMMA PassTyped ==
    ASSUME LogFacts, FeedTyped, Pass PROVE PageTyped' /\ ViewTyped'
<1>1. /\ wire # <<>> /\ ~Ignored(Head(wire)) /\ seen' = seen \cup {Head(wire)}
      /\ cursor' = Larger(cursor, Head(wire))
      /\ UNCHANGED <<events, row, stream, reply, probe, cache, shown, fetch, stale, loaded, ended, early>>
  BY DEF Pass, Take, Mark, Advance, logVars
<1>2. PageTyped'
  BY <1>1, HandledTypes DEF FeedTyped, PageTyped
<1>3. ViewTyped'
  BY <1>1 DEF FeedTyped, ViewTyped
<1> QED BY <1>2, <1>3

LEMMA TextEntry ==
    ASSUME NEW top \in Nat, NEW entry \in Entry, entry.seq <= top, NEW val \in Nat, NEW s \in 0..top
    PROVE  LET new == [items |-> Append(entry.items, val), seq |-> Larger(entry.seq, s)]
           IN  new \in Entry /\ new.seq <= top /\ new.seq >= s /\ new.seq >= entry.seq
BY DEF Entry, Larger

LEMMA AppendTextTyped ==
    ASSUME LogFacts, FeedTyped, AppendText PROVE PageTyped' /\ ViewTyped'
<1> DEFINE s == Head(wire)
           new == [items |-> Append(shown[stream].items, events[s].val),
                   seq |-> Larger(shown[stream].seq, s)]
<1>1. /\ wire # <<>> /\ ~Ignored(s) /\ seen' = seen \cup {s} /\ cursor' = Larger(cursor, s)
      /\ UNCHANGED <<events, row, stream, reply, probe, fetch, stale, loaded, ended, early>>
      /\ shown' = Set(shown, stream, new) /\ cache' = Set(cache, stream, new)
  BY DEF AppendText, Take, Mark, Advance, logVars
<1>2. PageTyped'
  BY <1>1, HandledTypes DEF FeedTyped, PageTyped
<1>3. new \in Entry /\ new.seq <= Len(events)
  <2>1. stream # 0 /\ s \in DOMAIN events
    BY <1>1, HandledTypes
  <2>2. Len(events) \in Nat /\ s \in 0..Len(events) /\ events[s].val \in Nat
    <3> HIDE DEF s
    <3>1. events \in Seq(Event) /\ DOMAIN events = 1..Len(events) /\ Len(events) \in Nat
      BY Indices
    <3>2. events[s] \in Event
      BY <2>1, <3>1, ItemType
    <3> QED BY <2>1, <3>1, <3>2 DEF Event
  <2>3. shown[stream] \in Entry /\ shown[stream].seq <= Len(events)
    BY <2>1, StreamEntry
  <2> QED BY <2>2, <2>3, TextEntry
<1> HIDE DEF new, s
<1>4. Messages(cache', Len(row), Len(events)) /\ Messages(shown', Len(row), Len(events))
  BY <1>1, <1>3, SetTypes DEF FeedTyped, ViewTyped
<1>5. DOMAIN shown' = DOMAIN shown
  BY <1>1, SetHolds
<1>6. ViewTyped'
  BY <1>1, <1>4, <1>5 DEF FeedTyped, ViewTyped
<1> QED BY <1>2, <1>6

LEMMA NextMessage ==
    ASSUME LogFacts, NEW s \in DOMAIN events, events[s].kind = "handoff"
    PROVE  events[s].val \in DOMAIN row /\ events[s].val # 0
BY Indices DEF LogFacts, LogOrder, HandOffsPrecede

LEMMA FollowHandOffTyped ==
    ASSUME LogFacts, FeedTyped, FollowHandOff PROVE PageTyped' /\ ViewTyped'
<1> DEFINE s == Head(wire)
           m == events[s].val
<1>0. Len(row) \in Nat /\ Len(events) \in Nat /\ DOMAIN row = 1..Len(row)
  BY Indices
<1>1. /\ wire # <<>> /\ ~Ignored(s) /\ seen' = seen \cup {s} /\ cursor' = Larger(cursor, s)
      /\ UNCHANGED <<events, row, reply, probe, fetch, stale, loaded>>
      /\ events[s].kind = "handoff" /\ stream' = m /\ ended' = ended \cup {stream}
      /\ cache' = WithRow(cache, m, Blank(0)) /\ shown' = WithRow(shown, m, Blank(0))
      /\ early' \subseteq early \cup {m}
  BY DEF FollowHandOff, Starts, Take, Mark, Advance, logVars
<1>2. /\ s \in DOMAIN events /\ stream # 0 /\ stream \in DOMAIN row
      /\ seen' \subseteq DOMAIN events /\ cursor' \in 0..Len(events)
  BY <1>1, HandledTypes, StreamEntry
<1>3. m \in 1..Len(row) /\ m \in 0..Len(row)
  BY <1>0, <1>1, <1>2, NextMessage
<1> HIDE DEF m, s
<1>4. Blank(0) \in Entry /\ Blank(0).seq <= Len(events)
  BY <1>0, BlankTypes
<1>5. Messages(cache', Len(row), Len(events)) /\ Messages(shown', Len(row), Len(events))
  BY <1>1, <1>3, <1>4, WithRowTypes DEF FeedTyped, ViewTyped
<1>6. m \in DOMAIN shown'
  <2>1. DOMAIN WithRow(shown, m, Blank(0)) = DOMAIN shown \cup {m}
    BY WithRowHolds
  <2> QED BY <1>1, <2>1
<1>7. PageTyped'
  BY <1>1, <1>2, <1>3 DEF FeedTyped, PageTyped
<1>8. ViewTyped'
  BY <1>1, <1>5, <1>6 DEF FeedTyped, ViewTyped
<1> QED BY <1>7, <1>8

(* A stream that is removed as failed leaves a note in its entry. *)
LEMMA FailedSet ==
    ASSUME LogFacts, FeedTyped, stream # 0
    PROVE  Messages(Set(cache, stream, Failed(shown[stream])), Len(row), Len(events))
<1>1. shown[stream] \in Entry /\ shown[stream].seq <= Len(events)
  BY StreamEntry
<1>2. Failed(shown[stream]) \in Entry /\ Failed(shown[stream]).seq <= Len(events)
  BY <1>1, FailedTypes
<1> QED BY <1>2, SetTypes DEF FeedTyped, ViewTyped

LEMMA EndStreamTyped ==
    ASSUME LogFacts, FeedTyped, EndStream PROVE PageTyped' /\ ViewTyped'
<1> DEFINE s == Head(wire)
           done == IF events[s].kind = "error" THEN Set(cache, stream, Failed(shown[stream])) ELSE cache
<1>1. /\ wire # <<>> /\ ~Ignored(s) /\ seen' = seen \cup {s}
      /\ cache' = done /\ Idle(done, Larger(cursor, s))
      /\ stream' = 0 /\ ended' = ended \cup {stream} /\ stale' = TRUE /\ fetch' = NoFetch
      /\ UNCHANGED <<events, row, reply, probe, loaded, early>>
  BY DEF EndStream, Mark, Invalidate, logVars
<1>2. /\ stream # 0 /\ stream \in DOMAIN row
      /\ seen' \subseteq DOMAIN events /\ Larger(cursor, s) \in 0..Len(events)
  BY <1>1, HandledTypes, StreamEntry
<1>3. Messages(done, Len(row), Len(events))
  BY <1>2, FailedSet DEF FeedTyped, ViewTyped
<1> HIDE DEF done, s
<1>4. shown' = done /\ cursor' \in 0..Len(events)
  BY <1>1, <1>2, <1>3, IdleTypes
<1>5. PageTyped'
  BY <1>1, <1>2, <1>4, Indices DEF FeedTyped, PageTyped
<1>6. ViewTyped'
  BY <1>1, <1>3, <1>4 DEF FeedTyped, ViewTyped
<1> QED BY <1>5, <1>6

LEMMA GiveUpTyped ==
    ASSUME LogFacts, FeedTyped, GiveUp PROVE PageTyped' /\ ViewTyped'
<1> DEFINE done == Set(cache, stream, Failed(shown[stream]))
<1>1. /\ stream # 0 /\ cache' = done /\ Idle(done, cursor) /\ stream' = 0
      /\ UNCHANGED <<events, row, reply, probe, seen, fetch, stale, loaded, ended, early>>
  BY DEF GiveUp
<1>2. Messages(done, Len(row), Len(events)) /\ cursor \in 0..Len(events)
  BY <1>1, FailedSet DEF FeedTyped, PageTyped
<1> HIDE DEF done
<1>3. shown' = done /\ cursor' \in 0..Len(events)
  BY <1>1, <1>2, IdleTypes
<1>4. PageTyped'
  BY <1>1, <1>3, Indices DEF FeedTyped, PageTyped
<1>5. ViewTyped'
  BY <1>1, <1>2, <1>3 DEF FeedTyped, ViewTyped
<1> QED BY <1>4, <1>5

LEMMA ReloadTyped ==
    ASSUME LogFacts, FeedTyped, Reload \/ Refetch PROVE PageTyped' /\ ViewTyped'
<1>1. CASE Refetch
  <2>1. /\ stale' = TRUE
        /\ UNCHANGED <<events, row, stream, reply, probe, cursor, seen, cache, shown, fetch, loaded, ended, early>>
    BY <1>1 DEF Refetch
  <2> QED BY <2>1 DEF FeedTyped, PageTyped, ViewTyped
<1>2. CASE Reload
  <2>1. /\ stream' = 0 /\ reply' = 0 /\ probe' = NoProbe /\ seen' = {} /\ cache' = <<>>
        /\ shown' = <<>> /\ fetch' = NoFetch /\ stale' = TRUE /\ loaded' = FALSE
        /\ early' = {} /\ UNCHANGED <<events, row, cursor, ended>>
    BY <1>2 DEF Reload
  <2>2. Len(row) \in Nat /\ Len(events) \in Nat
    BY Indices
  <2>3. PageTyped'
    <3>1. probe'.msg = 0 /\ probe'.seq = 0 /\ probe' = NoProbe
      BY <2>1 DEF NoProbe
    <3>2. stale' \in BOOLEAN /\ loaded' \in BOOLEAN
      BY <2>1, Zenon
    <3>3. /\ stream' \in 0..Len(row') /\ reply' \in 0..Len(row') /\ probe'.msg \in 0..Len(row')
          /\ probe'.seq \in 0..Len(events') /\ cursor' \in 0..Len(events')
          /\ seen' \subseteq DOMAIN events' /\ ended' \subseteq DOMAIN row' /\ early' \subseteq DOMAIN row'
      BY <2>1, <2>2, <3>1 DEF FeedTyped, PageTyped
    <3> QED BY <3>1, <3>2, <3>3 DEF PageTyped
  <2>4. Messages(<<>>, Len(row), Len(events))
    BY DEF Messages
  <2>5. ViewTyped'
    BY <2>1, <2>4 DEF FeedTyped, ViewTyped
  <2> QED BY <2>3, <2>5
<1> QED BY <1>1, <1>2

LEMMA TypedStep ==
    ASSUME LogFacts, FeedTyped, [Next]_vars PROVE FeedTyped'
<1>0. LogFacts' /\ Moves
  BY FactsStep
<1>1. CASE Next
  <2>1. ConnTyped'
    BY <1>0, <1>1, ConnStep
  <2>2. CASE UNCHANGED pageVars
    BY <1>0, <2>1, <2>2, PageIdles DEF FeedTyped
  <2>3. CASE Send \/ Register \/ Probe \/ Reenter \/ FetchRead \/ FetchApply
    BY <1>0, <2>1, <2>3, SendTyped, RegisterTyped, ProbeTyped, ReenterTyped, FetchReadTyped, FetchApplyTyped
       DEF FeedTyped
  <2>4. CASE Ignore \/ Pass \/ AppendText \/ FollowHandOff \/ EndStream
    BY <2>1, <2>4, IgnoreTyped, PassTyped, AppendTextTyped, FollowHandOffTyped, EndStreamTyped
       DEF FeedTyped
  <2>5. CASE GiveUp \/ Refetch \/ Reload
    BY <2>1, <2>5, GiveUpTyped, ReloadTyped DEF FeedTyped
  <2>6. CASE \/ OtherTurn \/ Server \/ Subscribe \/ ReplayBacklog \/ Forward \/ Published \/ Open
             \/ Drop \/ ServerDies \/ (PublishLost /\ UNCHANGED <<netVars, pageVars>>)
    <3>1. UNCHANGED pageVars
      BY <2>6 DEF OtherTurn, Server, Subscribe, ReplayBacklog, Forward, Published, Open, Drop, ServerDies
    <3> QED BY <2>2, <3>1
  <2> QED BY <1>1, <2>3, <2>4, <2>5, <2>6 DEF Next, Feed, Browser, Deliver, Disturbance
<1>2. CASE UNCHANGED vars
  <2>1. /\ UNCHANGED <<events, row, outbox, conn, from, feedSeq, inbox, wire>> /\ UNCHANGED pageVars
    BY <1>2 DEF vars, logVars, netVars
  <2>2. ConnTyped'
    BY <2>1 DEF FeedTyped, ConnTyped
  <2> QED BY <1>0, <2>1, <2>2, PageIdles DEF FeedTyped
<1> QED BY <1>1, <1>2

LEMMA TypedInit == FeedInit => FeedTyped
<1> SUFFICES ASSUME FeedInit PROVE FeedTyped
  OBVIOUS
<1>1. /\ row = <<>> /\ events = <<>> /\ outbox = <<>> /\ conn = "closed" /\ from = 0 /\ feedSeq = 0
      /\ inbox = <<>> /\ wire = <<>> /\ stream = 0 /\ reply = 0 /\ probe = NoProbe
      /\ cursor = 0 /\ seen = {} /\ cache = <<>> /\ shown = <<>> /\ fetch = NoFetch
      /\ stale = FALSE /\ loaded = TRUE /\ ended = {} /\ early = {}
  BY DEF FeedInit, Init
<1>2. Len(row) = 0 /\ Len(events) = 0
  BY <1>1
<1>3. ConnTyped
  BY <1>1, <1>2 DEF ConnTyped
<1>4. PageTyped
  <2>1. probe.msg = 0 /\ probe.seq = 0
    BY <1>1 DEF NoProbe
  <2>2. stale \in BOOLEAN /\ loaded \in BOOLEAN
    BY <1>1, Zenon
  <2>3. /\ stream \in 0..Len(row) /\ reply \in 0..Len(row) /\ probe.msg \in 0..Len(row)
        /\ probe.seq \in 0..Len(events) /\ cursor \in 0..Len(events)
        /\ seen \subseteq DOMAIN events /\ ended \subseteq DOMAIN row /\ early \subseteq DOMAIN row
    BY <1>1, <1>2, <2>1
  <2> QED BY <1>1, <2>2, <2>3 DEF PageTyped
<1>5. ViewTyped
  BY <1>1, <1>2 DEF ViewTyped, Messages
<1> QED BY <1>3, <1>4, <1>5 DEF FeedTyped

LEMMA TypedIsInv == Spec => [](LogFacts /\ FeedTyped)
<1>1. FeedInit => LogFacts /\ FeedTyped
  BY FactsInit, TypedInit
<1>2. LogFacts /\ FeedTyped /\ [Next]_vars => (LogFacts /\ FeedTyped)'
  BY FactsStep, TypedStep
<1> QED BY <1>1, <1>2, PTL DEF Spec

(* Whatever is dropped, reloaded, refetched or given up, and whoever starts the turns: what is
   published, sent and on the wire is of the log, cursors point into it, and a page that follows
   a turn has an entry of it on screen (useStreamCallbacks writes to it without looking). *)
THEOREM FeedTypes == Spec => []FeedTypeOK
<1>1. LogFacts /\ FeedTyped => FeedTypeOK
  <2> SUFFICES ASSUME LogFacts, FeedTyped PROVE FeedTypeOK
    OBVIOUS
  <2>1. DOMAIN row = 1..Len(row) /\ Len(row) \in Nat /\ Len(events) \in Nat
    BY Indices
  <2> QED BY <2>1 DEF FeedTyped, ConnTyped, PageTyped, ViewTyped, Messages, FeedTypeOK
<1> QED BY <1>1, TypedIsInv, PTL

-----------------------------------------------------------------------------
(* What the page shows of ended turns *)

LEMMA EndedStays ==
    ASSUME Moves, NEW m \in DOMAIN row, ~NoEnd(m) PROVE ~NoEnd(m)' /\ row'[m] = row[m]
BY DEF Moves, NoEnd

(* The turns a page was told the end of have an end in the log. *)
LEMMA EndedStep ==
    ASSUME LogFacts, Moves, FeedTyped, \A m \in ended : ~NoEnd(m), Next
    PROVE  \A m \in ended' : ~NoEnd(m)'
<1>1. ended' = ended \/ \E s \in DOMAIN events : /\ events[s].msg = stream /\ events[s].kind \in EndKinds
                                                 /\ stream \in DOMAIN row /\ ended' = ended \cup {stream}
  <2>1. CASE FollowHandOff \/ EndStream
    <3>1. /\ wire # <<>> /\ ~Ignored(Head(wire)) /\ events[Head(wire)].msg = stream
          /\ events[Head(wire)].kind \in EndKinds /\ ended' = ended \cup {stream}
      BY <2>1 DEF FollowHandOff, EndStream, Take, EndKinds
    <3>2. Head(wire) \in DOMAIN events /\ stream \in DOMAIN row
      BY <3>1, HandledTypes, StreamEntry
    <3> QED BY <3>1, <3>2
  <2>2. CASE ~(FollowHandOff \/ EndStream)
    BY <2>2 DEF Next, Send, OtherTurn, Probe, Server, Feed, Subscribe, ReplayBacklog, Forward, Published,
                Browser, Open, Register, Reenter, FetchRead, FetchApply, Deliver, Ignore, Pass,
                AppendText, Disturbance, Drop, GiveUp, Refetch, Reload, ServerDies, pageVars
  <2> QED BY <2>1, <2>2
<1>2. ended \subseteq DOMAIN row
  BY DEF FeedTyped, PageTyped
<1>3. \A m \in ended : ~NoEnd(m)'
  BY <1>2, EndedStays
<1>4. ASSUME NEW s \in DOMAIN events, events[s].msg = stream, events[s].kind \in EndKinds,
             stream \in DOMAIN row
      PROVE  ~NoEnd(stream)
  BY <1>4 DEF NoEnd
<1>5. ASSUME ~NoEnd(stream), stream \in DOMAIN row, ended' = ended \cup {stream}
      PROVE  \A m \in ended' : ~NoEnd(m)'
  <2> SUFFICES ASSUME NEW m \in ended' PROVE ~NoEnd(m)'
    OBVIOUS
  <2>1. m \in DOMAIN row /\ ~NoEnd(m)
    BY <1>2, <1>5
  <2> QED BY <2>1, EndedStays
<1> QED BY <1>1, <1>3, <1>4, <1>5

LEMMA EndsShownStep ==
    ASSUME LogFacts, Moves, FeedTyped, EndsShown, Next, ~GiveUp PROVE EndsShown'
<1> DEFINE Now == IF fetch = NoFetch THEN shown ELSE fetch[1]
<1>1. \A m \in ended' : ~NoEnd(m)'
  BY EndedStep DEF EndsShown
<1>2. \A m \in ended : m \in DOMAIN row /\ row'[m] = row[m]
  BY EndedStays DEF EndsShown, FeedTyped, PageTyped
<1>3. Idling /\ ~stale => \A m \in ended : m \in DOMAIN Now => Now[m].items = row[m].items
  BY DEF EndsShown, RendersEnded
<1>4. CASE stream' # 0 \/ reply' # 0 \/ stale'
  BY <1>1, <1>4 DEF EndsShown, Idling
<1>5. CASE UNCHANGED <<stream, reply, stale, shown, fetch, ended>>
  BY <1>1, <1>2, <1>3, <1>5 DEF EndsShown, RendersEnded, Idling
<1>6. CASE FetchRead
  <2>1. fetch' = <<row>> /\ UNCHANGED <<row, ended>>
    BY <1>6 DEF FetchRead, logVars
  <2>2. fetch' # NoFetch /\ fetch'[1] = row
    BY <2>1 DEF NoFetch
  <2> QED BY <1>1, <2>1, <2>2 DEF EndsShown, RendersEnded
<1>7. CASE FetchApply
  <2>1. /\ fetch # NoFetch /\ fetch' = NoFetch /\ UNCHANGED <<row, stream, reply, stale, ended>>
        /\ stream = 0 /\ reply = 0 => shown' = Page(fetch[1])
    BY <1>7 DEF FetchApply, Idle, logVars
  <2>2. ASSUME Idling, ~stale, NEW m \in ended, m \in DOMAIN Page(fetch[1])
        PROVE  Page(fetch[1])[m].items = row[m].items
    <3>1. m \in DOMAIN fetch[1] /\ Page(fetch[1])[m].items = fetch[1][m].items
      <4> DEFINE rows == fetch[1]
      <4> HIDE DEF rows
      <4>1. m \in DOMAIN Page(rows)
        BY <2>2 DEF rows
      <4>2. m \in DOMAIN rows /\ Page(rows)[m] = [items |-> rows[m].items, seq |-> rows[m].seq]
        BY <4>1, PageHolds
      <4>3. Page(rows)[m].items = rows[m].items
        BY <4>2
      <4> QED BY <4>2, <4>3 DEF rows
    <3> QED BY <1>3, <2>1, <2>2, <3>1
  <2> QED BY <1>1, <2>1, <2>2 DEF EndsShown, RendersEnded, Idling
<1>8. CASE Send
  <2>1. reply' # 0
    BY <1>8, Indices DEF Send
  <2> QED BY <1>4, <2>1
<1>9. CASE Register \/ Reenter \/ FollowHandOff
  <2>1. CASE Register \/ Reenter
    BY <1>4, <2>1 DEF Register, Reenter, FeedTyped, PageTyped
  <2>2. CASE FollowHandOff
    <3>1. /\ wire # <<>> /\ ~Ignored(Head(wire)) /\ events[Head(wire)].kind = "handoff"
          /\ stream' = events[Head(wire)].val
      BY <2>2 DEF FollowHandOff, Take
    <3>2. stream' # 0
      BY <3>1, HandledTypes, NextMessage
    <3> QED BY <1>4, <3>2
  <2> QED BY <1>9, <2>1, <2>2
<1>10. CASE EndStream \/ Refetch \/ Reload
  BY <1>4, <1>10 DEF EndStream, Invalidate, Refetch, Reload
<1>11. CASE AppendText
  <2>1. wire # <<>> /\ ~Ignored(Head(wire)) /\ UNCHANGED stream
    BY <1>11 DEF AppendText, Take
  <2> QED BY <1>4, <2>1, HandledTypes
<1>12. CASE \/ OtherTurn \/ Probe \/ Server \/ Feed \/ Open \/ Ignore \/ Pass \/ Drop \/ ServerDies
            \/ (PublishLost /\ UNCHANGED <<netVars, pageVars>>)
  <2>1. UNCHANGED <<stream, reply, stale, shown, fetch, ended>>
    BY <1>12 DEF OtherTurn, Probe, Server, Feed, Subscribe, ReplayBacklog, Forward, Published, Open,
                 Ignore, Pass, Drop, ServerDies, pageVars
  <2> QED BY <1>5, <2>1
<1> QED BY <1>6, <1>7, <1>8, <1>9, <1>10, <1>11, <1>12
        DEF Next, Browser, Deliver, Disturbance

LEMMA EndsShownStutters ==
    ASSUME EndsShown, UNCHANGED vars PROVE EndsShown'
<1>1. UNCHANGED <<events, row, stream, reply, stale, shown, fetch, ended>>
  BY DEF vars, logVars, pageVars
<1> QED BY <1>1 DEF EndsShown, RendersEnded, Idling, NoEnd

(* Once the page was told that a turn ended and its refetch was applied, it shows the turn's
   final render, whatever was lost, dropped or reloaded before: unless the page gave a stream
   up, which drops the entry as it is and asks for nothing (failStreamsForChats). *)
THEOREM EndsAreShown == Spec /\ [][~GiveUp]_vars => []EndedViewFinal
<1>1. FeedInit => LogFacts /\ FeedTyped /\ EndsShown
  <2>1. FeedInit => EndsShown
    BY DEF FeedInit, EndsShown, RendersEnded
  <2> QED BY <2>1, FactsInit, TypedInit
<1>2. LogFacts /\ FeedTyped /\ EndsShown /\ [Next]_vars /\ [~GiveUp]_vars
        => (LogFacts /\ FeedTyped /\ EndsShown)'
  <2> SUFFICES ASSUME LogFacts, FeedTyped, EndsShown, [Next]_vars, [~GiveUp]_vars
      PROVE  (LogFacts /\ FeedTyped /\ EndsShown)'
    OBVIOUS
  <2>1. LogFacts' /\ Moves /\ FeedTyped'
    BY FactsStep, TypedStep
  <2>2. CASE Next /\ ~GiveUp
    BY <2>1, <2>2, EndsShownStep
  <2>3. CASE UNCHANGED vars
    BY <2>1, <2>3, EndsShownStutters
  <2> QED BY <2>2, <2>3
<1>3. EndsShown => EndedViewFinal
  BY DEF EndsShown, RendersEnded, Idling, EndedViewFinal
<1> QED BY <1>1, <1>2, <1>3, PTL DEF Spec

-----------------------------------------------------------------------------
(* The connection *)

LEMMA Joined ==
    ASSUME NEW v \in Seq(Nat), NEW w \in Seq(Nat), NEW c \in Nat, NEW f \in Nat, NEW g \in Nat,
           c <= f, f <= g, Lists(v, c, f), Lists(w, f, g)
    PROVE  /\ Lists(v \o w, c, g)
           /\ \A i : Has(v, i) \/ Has(w, i) => Has(v \o w, i)
<1> DEFINE b == v \o w
           n == Len(v)
           l == Len(w)
<1>1. /\ n \in Nat /\ l \in Nat /\ DOMAIN v = 1..n /\ DOMAIN w = 1..l /\ DOMAIN b = 1..(n + l)
      /\ \A k \in 1..n : b[k] = v[k] /\ v[k] \in Nat
      /\ \A k \in 1..l : b[n + k] = w[k] /\ w[k] \in Nat
  OBVIOUS
<1> HIDE DEF b, n, l
<1>2. \A k \in DOMAIN b : k \in 1..n \/ k - n \in 1..l
  BY <1>1
<1>3. \A k \in 1..(n + l) : k \notin 1..n => b[k] = w[k - n]
  <2> SUFFICES ASSUME NEW k \in 1..(n + l), k \notin 1..n PROVE b[k] = w[k - n]
    OBVIOUS
  <2>1. k - n \in 1..l /\ n + (k - n) = k
    BY <1>1
  <2> QED BY <1>1, <2>1
<1>4. \A k \in 1..n : c < v[k] /\ v[k] <= f
  BY <1>1 DEF Lists
<1>5. \A k \in 1..l : f < w[k] /\ w[k] <= g
  BY <1>1 DEF Lists
<1>6. \A k \in DOMAIN b : c < b[k] /\ b[k] <= g
  <2> SUFFICES ASSUME NEW k \in DOMAIN b PROVE c < b[k] /\ b[k] <= g
    OBVIOUS
  <2>1. CASE k \in 1..n
    BY <1>1, <1>4, <2>1
  <2>2. CASE k \notin 1..n
    <3>1. k - n \in 1..l /\ b[k] = w[k - n]
      BY <1>1, <1>3, <2>2
    <3> QED BY <1>1, <1>5, <3>1
  <2> QED BY <2>1, <2>2
<1>7. \A j, k \in DOMAIN b : j < k => b[j] < b[k]
  <2> SUFFICES ASSUME NEW j \in DOMAIN b, NEW k \in DOMAIN b, j < k PROVE b[j] < b[k]
    OBVIOUS
  <2>1. CASE k \in 1..n
    <3>1. j \in 1..n
      BY <1>1, <2>1
    <3>2. v[j] < v[k]
      BY <1>1, <2>1, <3>1 DEF Lists
    <3> QED BY <1>1, <2>1, <3>1, <3>2
  <2>2. CASE k \notin 1..n
    <3>1. k - n \in 1..l /\ b[k] = w[k - n]
      BY <1>1, <1>3, <2>2
    <3>2. CASE j \in 1..n
      <4>1. b[j] = v[j] /\ v[j] <= f /\ v[j] \in Nat
        BY <1>1, <1>4, <3>2
      <4>2. f < w[k - n] /\ w[k - n] \in Nat
        BY <1>1, <1>5, <3>1
      <4> QED BY <3>1, <4>1, <4>2
    <3>3. CASE j \notin 1..n
      <4>1. j - n \in 1..l /\ b[j] = w[j - n] /\ j - n < k - n
        BY <1>1, <1>3, <3>3
      <4>2. w[j - n] < w[k - n]
        BY <1>1, <3>1, <4>1 DEF Lists
      <4> QED BY <3>1, <4>1, <4>2
    <3> QED BY <3>2, <3>3
  <2> QED BY <2>1, <2>2
<1>8. \A i : Has(v, i) => Has(b, i)
  BY <1>1 DEF Has
<1>9. \A i : Has(w, i) => Has(b, i)
  <2> SUFFICES ASSUME NEW k \in 1..l PROVE \E j \in DOMAIN b : b[j] = w[k]
    BY <1>1 DEF Has
  <2>1. n + k \in DOMAIN b
    BY <1>1
  <2> QED BY <1>1, <2>1
<1> QED BY <1>6, <1>7, <1>8, <1>9 DEF Lists, b

LEMMA Taken ==
    ASSUME NEW w \in Seq(Nat), w # <<>>, NEW c \in Nat, NEW f \in Nat, Lists(w, c, f)
    PROVE  /\ Head(w) \in Nat /\ c < Head(w) /\ Head(w) <= f
           /\ Lists(Tail(w), Head(w), f)
           /\ \A i : Has(w, i) => i = Head(w) \/ Has(Tail(w), i)
<1> DEFINE t == Tail(w)
           n == Len(w)
<1>1. /\ n \in Nat /\ n >= 1 /\ DOMAIN w = 1..n /\ DOMAIN t = 1..(n - 1) /\ Head(w) = w[1]
      /\ \A k \in 1..(n - 1) : t[k] = w[k + 1]
      /\ \A k \in 1..n : w[k] \in Nat
  OBVIOUS
<1> HIDE DEF t, n
<1>2. Head(w) \in Nat /\ c < Head(w) /\ Head(w) <= f
  BY <1>1 DEF Lists
<1>3. \A k \in DOMAIN t : Head(w) < t[k] /\ t[k] <= f
  <2> SUFFICES ASSUME NEW k \in DOMAIN t PROVE Head(w) < t[k] /\ t[k] <= f
    OBVIOUS
  <2>1. k + 1 \in DOMAIN w /\ 1 \in DOMAIN w /\ 1 < k + 1 /\ t[k] = w[k + 1]
    BY <1>1
  <2> QED BY <1>1, <2>1 DEF Lists
<1>4. \A j, k \in DOMAIN t : j < k => t[j] < t[k]
  <2> SUFFICES ASSUME NEW j \in DOMAIN t, NEW k \in DOMAIN t, j < k PROVE t[j] < t[k]
    OBVIOUS
  <2>1. j \in 1..(n - 1) /\ k \in 1..(n - 1)
    BY <1>1
  <2>2. n \in Nat /\ DOMAIN w = 1..n
    BY <1>1
  <2>3. k + 1 \in DOMAIN w /\ j + 1 \in DOMAIN w /\ j + 1 < k + 1
    BY <2>1, <2>2
  <2>4. t[k] = w[k + 1] /\ t[j] = w[j + 1]
    BY <1>1, <2>1
  <2>5. w[j + 1] < w[k + 1]
    BY <2>3 DEF Lists
  <2> QED BY <2>4, <2>5
<1>5. \A i : Has(w, i) => i = Head(w) \/ Has(t, i)
  <2> SUFFICES ASSUME NEW k \in 1..n, k # 1 PROVE \E j \in DOMAIN t : t[j] = w[k]
    BY <1>1 DEF Has
  <2>1. k - 1 \in DOMAIN t /\ (k - 1) + 1 = k
    BY <1>1
  <2> QED BY <1>1, <2>1
<1> QED BY <1>2, <1>3, <1>4, <1>5 DEF Lists, t

(* The number a replay leaves off at. *)
LEMMA LastReplayed ==
    ASSUME NEW q \in Seq(Nat), NEW s \in Nat, \A k \in DOMAIN q : s < q[k],
           \A j, k \in DOMAIN q : j < k => q[j] < q[k]
    PROVE  LastOf(q, s) \in Nat /\ s <= LastOf(q, s) /\ Lists(q, s, LastOf(q, s))
<1>1. CASE q = <<>>
  <2>1. DOMAIN q = {}
    BY <1>1
  <2> QED BY <1>1, <2>1 DEF LastOf, Lists
<1>2. CASE q # <<>>
  <2>1. /\ LastOf(q, s) = q[Len(q)] /\ Len(q) \in Nat /\ Len(q) \in DOMAIN q /\ DOMAIN q = 1..Len(q)
        /\ \A k \in DOMAIN q : q[k] \in Nat
    BY <1>2 DEF LastOf
  <2>2. \A k \in DOMAIN q : q[k] <= q[Len(q)]
    <3> SUFFICES ASSUME NEW k \in DOMAIN q, k # Len(q) PROVE q[k] < q[Len(q)]
      BY <2>1
    <3>1. k < Len(q)
      BY <2>1
    <3> QED BY <2>1, <3>1
  <2>3. q[Len(q)] \in Nat /\ s < q[Len(q)]
    BY <2>1
  <2> QED BY <2>1, <2>2, <2>3 DEF Lists
<1> QED BY <1>1, <1>2


LEMMA WireTypes ==
    ASSUME LogFacts, FeedTyped
    PROVE  /\ wire \in Seq(Nat) /\ wire \in Seq(DOMAIN events) /\ inbox \in Seq(DOMAIN events)
           /\ cursor \in Nat /\ feedSeq \in Nat /\ feedSeq <= Len(events) /\ Len(events) \in Nat
           /\ from \in Nat /\ DOMAIN events = 1..Len(events) /\ live \subseteq DOMAIN events
           /\ events \in Seq(Event) /\ conn \in {"closed", "opening", "replaying", "live"}
<1>1. /\ DOMAIN events = 1..Len(events) /\ Len(events) \in Nat /\ live \subseteq DOMAIN events
      /\ events \in Seq(Event)
  BY Indices
<1>2. /\ wire \in Seq(DOMAIN events) /\ inbox \in Seq(DOMAIN events)
      /\ cursor \in 0..Len(events) /\ feedSeq \in 0..Len(events) /\ from \in 0..Len(events)
      /\ conn \in {"closed", "opening", "replaying", "live"}
  BY DEF FeedTyped, ConnTyped, PageTyped
<1>3. DOMAIN events \subseteq Nat
  BY <1>1
<1>4. wire \in Seq(Nat)
  BY <1>2, <1>3, SeqWider
<1> QED BY <1>1, <1>2, <1>4

LEMMA ConnMore ==
    ASSUME LogFacts, LogFacts', Moves, FeedTyped, Connection,
           UNCHANGED <<conn, from, feedSeq, wire, stream, cursor, seen>>
    PROVE  Connection'
<1>1. \A i \in live' : i <= feedSeq => i \in live
  <2> SUFFICES ASSUME NEW i \in live', i <= feedSeq, i \notin live PROVE FALSE
    OBVIOUS
  <2>1. live' \subseteq DOMAIN events' /\ DOMAIN events' = 1..Len(events')
    BY DEF LogFacts, LogInv, LogTyped
  <2>2. i \in DOMAIN events' /\ i \notin DOMAIN events
    BY <2>1 DEF Moves
  <2>3. Len(events) < i
    BY <2>2 DEF Moves
  <2>4. feedSeq <= Len(events) /\ Len(events) \in Nat /\ feedSeq \in Nat /\ i \in Nat
    BY <2>1, WireTypes
  <2> QED BY <2>3, <2>4
<1> QED BY <1>1 DEF Connection

LEMMA ConnExtends ==
    ASSUME LogFacts, FeedTyped, Connection, conn \in {"replaying", "live"},
           NEW q \in Seq(Nat), NEW g \in Nat, feedSeq <= g, Lists(q, feedSeq, g),
           \A i \in live : feedSeq < i /\ i <= g => Has(q, i),
           wire' = wire \o q, feedSeq' = g, conn' = "live",
           UNCHANGED <<live, stream, cursor, seen>>
    PROVE  Connection'
<1>1. /\ wire \in Seq(Nat) /\ cursor \in Nat /\ feedSeq \in Nat /\ live \subseteq Nat
      /\ cursor <= feedSeq /\ Lists(wire, cursor, feedSeq) /\ stream # 0
      /\ \A i \in live : cursor < i /\ i <= feedSeq => i \in seen \/ Has(wire, i)
  BY WireTypes DEF Connection
<1>2. Lists(wire', cursor, g) /\ \A i : Has(wire, i) \/ Has(q, i) => Has(wire', i)
  BY <1>1, Joined
<1>3. \A i \in live : cursor < i /\ i <= g => i \in seen \/ Has(wire', i)
  <2> SUFFICES ASSUME NEW i \in live, cursor < i, i <= g PROVE i \in seen \/ Has(wire', i)
    OBVIOUS
  <2>1. i \in Nat /\ \A k \in live : k \in Nat
    BY <1>1
  <2>2. CASE i <= feedSeq
    BY <1>1, <1>2, <2>2
  <2>3. CASE ~(i <= feedSeq)
    <3>1. feedSeq < i
      BY <1>1, <2>1, <2>3
    <3> QED BY <1>2, <3>1
  <2> QED BY <2>2, <2>3
<1>4. cursor <= g
  BY <1>1
<1> QED BY <1>1, <1>2, <1>3, <1>4 DEF Connection

(* A replay sends everything past where the connection stands. *)
LEMMA ReplayCovers ==
    ASSUME LogFacts, FeedTyped
    PROVE  LET q == LiveAfter(feedSeq) IN
             /\ q \in Seq(Nat) /\ LastOf(q, feedSeq) \in Nat /\ feedSeq <= LastOf(q, feedSeq)
             /\ Lists(q, feedSeq, LastOf(q, feedSeq))
             /\ \A i \in live : feedSeq < i => Has(q, i)
<1> DEFINE q == LiveAfter(feedSeq)
<1>1. /\ feedSeq \in Nat /\ events \in Seq(Event) /\ live \subseteq DOMAIN events
      /\ DOMAIN events = 1..Len(events) /\ live \subseteq Nat
  BY WireTypes
<1>2. /\ q \in Seq(DOMAIN events)
      /\ \A k \in DOMAIN q : q[k] \in live /\ q[k] > feedSeq
      /\ \A j, k \in DOMAIN q : j < k => q[j] < q[k]
      /\ \A i \in live : i > feedSeq => \E k \in DOMAIN q : q[k] = i
  BY <1>1, Replayed
<1> HIDE DEF q
<1>3. q \in Seq(Nat)
  <2>1. DOMAIN events \subseteq Nat
    BY <1>1
  <2> QED BY <1>2, <2>1, SeqWider
<1>4. \A k \in DOMAIN q : feedSeq < q[k]
  <2>1. \A k \in DOMAIN q : q[k] \in Nat
    BY <1>1, <1>2
  <2> QED BY <1>1, <1>2, <2>1
<1>5. LastOf(q, feedSeq) \in Nat /\ feedSeq <= LastOf(q, feedSeq) /\ Lists(q, feedSeq, LastOf(q, feedSeq))
  BY <1>1, <1>2, <1>3, <1>4, LastReplayed
<1>6. \A i \in live : feedSeq < i => Has(q, i)
  <2>1. \A i \in live : i \in Nat
    BY <1>1
  <2> QED BY <1>1, <1>2, <2>1 DEF Has
<1> QED BY <1>3, <1>5, <1>6 DEF q

LEMMA OneListed ==
    ASSUME NEW f \in Nat, NEW s \in Nat, f < s
    PROVE  <<s>> \in Seq(Nat) /\ Lists(<<s>>, f, s) /\ Has(<<s>>, s)
BY DEF Lists, Has

LEMMA ReplayConn ==
    ASSUME LogFacts, FeedTyped, Connection, ReplayBacklog PROVE Connection'
<1> DEFINE q == LiveAfter(feedSeq)
<1>1. /\ q \in Seq(Nat) /\ LastOf(q, feedSeq) \in Nat /\ feedSeq <= LastOf(q, feedSeq)
      /\ Lists(q, feedSeq, LastOf(q, feedSeq)) /\ \A i \in live : feedSeq < i => Has(q, i)
  BY ReplayCovers
<1>2. /\ conn = "replaying" /\ conn' = "live" /\ wire' = wire \o q /\ feedSeq' = LastOf(q, feedSeq)
      /\ UNCHANGED <<live, stream, cursor, seen>>
  BY DEF ReplayBacklog, logVars, pageVars
<1> HIDE DEF q
<1> QED BY <1>1, <1>2, ConnExtends

LEMMA ForwardConn ==
    ASSUME LogFacts, FeedTyped, Connection, Forward PROVE Connection'
<1> DEFINE s == Head(inbox)
           q == LiveAfter(feedSeq)
           fill == IF Gap(s) THEN q ELSE <<>>
           last == LastOf(fill, feedSeq)
<1>1. /\ conn = "live" /\ conn' = "live" /\ inbox # <<>> /\ UNCHANGED <<live, stream, cursor, seen>>
      /\ IF s <= last THEN wire' = wire \o fill /\ feedSeq' = last
                      ELSE wire' = Append(wire \o fill, s) /\ feedSeq' = s
  BY DEF Forward, logVars, pageVars
<1>2. wire \in Seq(Nat) /\ feedSeq \in Nat /\ live \subseteq Nat /\ s \in Nat
  <2>1. /\ wire \in Seq(Nat) /\ feedSeq \in Nat /\ live \subseteq DOMAIN events
        /\ inbox \in Seq(DOMAIN events) /\ DOMAIN events = 1..Len(events)
    BY WireTypes
  <2>2. s \in DOMAIN events
    BY <1>1, <2>1, TailTypes
  <2> QED BY <2>1, <2>2
<1>3. /\ fill \in Seq(Nat) /\ last \in Nat /\ feedSeq <= last /\ Lists(fill, feedSeq, last)
      /\ \A i \in live : feedSeq < i /\ (i <= last \/ Gap(s)) => Has(fill, i)
  <2>1. CASE Gap(s)
    <3>1. fill = q
      BY <2>1
    <3> HIDE DEF q, fill
    <3> QED BY <2>1, <3>1, ReplayCovers DEF q
  <2>2. CASE ~Gap(s)
    <3>1. fill = <<>> /\ last = feedSeq
      BY <2>2 DEF LastOf
    <3>2. <<>> \in Seq(Nat) /\ Lists(<<>>, feedSeq, feedSeq)
      BY DEF Lists
    <3>3. \A i \in live : i \in Nat
      BY <1>2
    <3> HIDE DEF last, fill
    <3> QED BY <1>2, <2>2, <3>1, <3>2, <3>3
  <2> QED BY <2>1, <2>2
<1>4. CASE s <= last
  <2>1. wire' = wire \o fill /\ feedSeq' = last
    BY <1>1, <1>4
  <2> HIDE DEF s, q, fill, last
  <2> QED BY <1>1, <1>3, <2>1, ConnExtends
<1>5. CASE ~(s <= last)
  <2>1. wire' = Append(wire \o fill, s) /\ feedSeq' = s
    BY <1>1, <1>5
  <2> DEFINE all == fill \o <<s>>
  <2>2. ~Gap(s) => s <= feedSeq + 1
    BY <1>2 DEF Gap
  <2> HIDE DEF s, q, fill, last
  <2>3. last < s
    BY <1>2, <1>3, <1>5
  <2>4. <<s>> \in Seq(Nat) /\ Lists(<<s>>, last, s) /\ Has(<<s>>, s)
    BY <1>2, <1>3, <2>3, OneListed
  <2>5. last <= s /\ feedSeq <= s
    BY <1>2, <1>3, <2>3
  <2>6. Lists(all, feedSeq, s) /\ \A i : Has(fill, i) \/ Has(<<s>>, i) => Has(all, i)
    BY <1>2, <1>3, <2>4, <2>5, Joined
  <2>7. all \in Seq(Nat) /\ wire' = wire \o all
    <3>1. wire \in Seq(Nat) /\ fill \in Seq(Nat) /\ s \in Nat
      BY <1>2, <1>3
    <3>2. <<s>> \in Seq(Nat) /\ fill \o <<s>> \in Seq(Nat) /\ wire \o fill \in Seq(Nat)
      BY <3>1
    <3>3. Append(wire \o fill, s) = (wire \o fill) \o <<s>>
      BY <3>1, <3>2, AppendIsConcat
    <3>4. (wire \o fill) \o <<s>> = wire \o (fill \o <<s>>)
      BY <3>1, <3>2, ConcatAssociative
    <3> QED BY <2>1, <3>2, <3>3, <3>4
  <2> HIDE DEF all
  <2>8. \A i \in live : feedSeq < i /\ i <= s => Has(all, i)
    <3> SUFFICES ASSUME NEW i \in live, feedSeq < i, i <= s PROVE Has(all, i)
      OBVIOUS
    <3>1. i \in Nat
      BY <1>2
    <3>2. CASE Gap(s)
      BY <1>3, <2>6, <3>2
    <3>3. CASE ~Gap(s)
      <4>1. i = s
        BY <1>2, <2>2, <3>1, <3>3
      <4> QED BY <2>4, <2>6, <4>1
    <3> QED BY <3>2, <3>3
  <2>9. conn \in {"replaying", "live"}
    BY <1>1
  <2> QED BY <1>1, <1>2, <2>1, <2>5, <2>6, <2>7, <2>8, <2>9, ConnExtends
<1> QED BY <1>4, <1>5

(* An event that is handled leaves the wire, and the cursor or the filter knows it. *)
LEMMA TakeConn ==
    ASSUME LogFacts, FeedTyped, Connection, Take, UNCHANGED <<conn, feedSeq, live>>, stream' # 0,
           \/ UNCHANGED <<cursor, seen>> /\ Ignored(Head(wire))
           \/ cursor' = Larger(cursor, Head(wire)) /\ seen' = seen \cup {Head(wire)}
    PROVE  Connection'
<1> DEFINE s == Head(wire)
           t == Tail(wire)
<1>0. /\ wire \in Seq(Nat) /\ wire # <<>> /\ wire' = t /\ cursor \in Nat /\ feedSeq \in Nat
      /\ live \subseteq Nat /\ conn \in {"closed", "opening", "replaying", "live"}
  BY WireTypes DEF Take
<1>1. /\ conn \in {"replaying", "live"} /\ stream # 0
      /\ cursor <= feedSeq /\ Lists(wire, cursor, feedSeq)
      /\ \A i \in live : cursor < i /\ i <= feedSeq => i \in seen \/ Has(wire, i)
  BY <1>0 DEF Connection
<1>2. /\ s \in Nat /\ cursor < s /\ s <= feedSeq /\ Lists(t, s, feedSeq)
      /\ \A i : Has(wire, i) => i = s \/ Has(t, i)
  BY <1>0, <1>1, Taken
<1>3. t \in Seq(Nat)
  BY <1>0
<1> HIDE DEF s, t
<1>4. Lists(t, cursor, feedSeq)
  <2>1. \A k \in DOMAIN t : t[k] \in Nat
    BY <1>3
  <2> QED BY <1>0, <1>2, <2>1 DEF Lists
<1>5. \A i \in live : i \in Nat
  BY <1>0
<1>6. CASE UNCHANGED <<cursor, seen>> /\ Ignored(s)
  <2>1. s \in seen
    BY <1>1, <1>6 DEF Ignored
  <2>2. \A i \in live : cursor < i /\ i <= feedSeq => i \in seen \/ Has(t, i)
    BY <1>1, <1>2, <2>1
  <2>3. /\ conn' \in {"replaying", "live"} /\ cursor' = cursor /\ feedSeq' = feedSeq /\ seen' = seen
        /\ wire' = t /\ live' = live
    BY <1>0, <1>1, <1>6
  <2> QED BY <1>1, <1>4, <2>2, <2>3 DEF Connection
<1>7. CASE cursor' = Larger(cursor, s) /\ seen' = seen \cup {s}
  <2>1. cursor' = s
    BY <1>0, <1>2, <1>7 DEF Larger
  <2>2. \A i \in live : s < i /\ i <= feedSeq => i \in seen \cup {s} \/ Has(t, i)
    BY <1>0, <1>1, <1>2, <1>5
  <2>3. /\ conn' \in {"replaying", "live"} /\ feedSeq' = feedSeq /\ wire' = t /\ live' = live
    BY <1>0, <1>1
  <2> QED BY <1>2, <1>7, <2>1, <2>2, <2>3 DEF Connection
<1> QED BY <1>6, <1>7 DEF s

LEMMA ConnectionStep ==
    ASSUME LogFacts, LogFacts', Moves, FeedTyped, FeedTyped', Connection, Next PROVE Connection'
<1>1. CASE Open \/ Register \/ Reenter
  <2>1. conn' = "opening" /\ from' = cursor' /\ wire' = <<>>
    BY <1>1 DEF Open, Register, Reenter, OpenPast, pageVars
  <2>2. stream' # 0
    BY <1>1 DEF Open, Register, Reenter, FeedTyped, PageTyped, pageVars
  <2> QED BY <2>1, <2>2 DEF Connection
<1>2. CASE Drop \/ GiveUp \/ Reload \/ ServerDies \/ EndStream
  <2>1. conn' = "closed" /\ wire' = <<>>
    BY <1>2 DEF Drop, GiveUp, Reload, ServerDies, EndStream, Close
  <2> QED BY <2>1 DEF Connection
<1>3. CASE Subscribe
  <2>1. /\ conn = "opening" /\ conn' = "replaying" /\ feedSeq' = from
        /\ UNCHANGED <<wire, live, stream, cursor, seen>>
    BY <1>3 DEF Subscribe, logVars, pageVars
  <2>2. from = cursor /\ wire = <<>> /\ stream # 0 /\ cursor \in Nat /\ \A i \in live : i \in Nat
    <3>1. cursor \in Nat /\ live \subseteq DOMAIN events /\ DOMAIN events = 1..Len(events)
      BY WireTypes
    <3> QED BY <2>1, <3>1 DEF Connection
  <2>3. Lists(wire', cursor', feedSeq')
    BY <2>1, <2>2 DEF Lists
  <2> QED BY <2>1, <2>2, <2>3 DEF Connection
<1>4. CASE ReplayBacklog \/ Forward
  BY <1>4, ReplayConn, ForwardConn
<1>5. CASE Ignore
  <2>1. Take /\ Ignored(Head(wire)) /\ UNCHANGED <<conn, feedSeq, live, stream, cursor, seen>>
    BY <1>5 DEF Ignore, logVars, pageVars
  <2>2. stream # 0
    <3>1. wire # <<>> /\ conn # "closed"
      BY <2>1 DEF Take, Connection
    <3> QED BY <3>1 DEF Connection
  <2> QED BY <2>1, <2>2, TakeConn
<1>6. CASE Pass \/ AppendText \/ FollowHandOff
  <2>1. /\ Take /\ UNCHANGED <<conn, feedSeq, live>> /\ ~Ignored(Head(wire))
        /\ cursor' = Larger(cursor, Head(wire)) /\ seen' = seen \cup {Head(wire)}
    BY <1>6 DEF Pass, AppendText, FollowHandOff, Mark, Advance, logVars
  <2>2. stream' = stream \/ (events[Head(wire)].kind = "handoff" /\ stream' = events[Head(wire)].val)
    BY <1>6 DEF Pass, AppendText, FollowHandOff
  <2>3. Head(wire) \in DOMAIN events /\ stream # 0
    BY <2>1, HandledTypes DEF Take
  <2>4. stream' # 0
    BY <2>2, <2>3, NextMessage
  <2> QED BY <2>1, <2>4, TakeConn
<1>7. CASE FetchApply
  <2>1. CASE stream = 0
    <3>1. conn' = "closed" /\ wire' = <<>>
      BY <1>7, <2>1 DEF FetchApply, netVars, Connection
    <3> QED BY <3>1 DEF Connection
  <2>2. CASE stream # 0
    <3>1. UNCHANGED <<conn, from, feedSeq, wire, stream, cursor, seen>>
      BY <1>7, <2>2 DEF FetchApply, netVars
    <3> QED BY <3>1, ConnMore
  <2> QED BY <2>1, <2>2
<1>8. CASE \/ Send \/ OtherTurn \/ Probe \/ Server \/ Published \/ FetchRead \/ Refetch
           \/ (PublishLost /\ UNCHANGED <<netVars, pageVars>>)
  <2>1. UNCHANGED <<conn, from, feedSeq, wire, stream, cursor, seen>>
    BY <1>8 DEF Send, OtherTurn, Probe, Server, Published, FetchRead, Refetch, netVars, pageVars
  <2> QED BY <2>1, ConnMore
<1> QED BY <1>1, <1>2, <1>3, <1>4, <1>5, <1>6, <1>7, <1>8
        DEF Next, Feed, Browser, Deliver, Disturbance

-----------------------------------------------------------------------------
(* What the page has handled *)

(* New events come after all there were; the others stay as they are. *)
LEMMA Gains ==
    ASSUME LogFacts, LogFacts', Moves
    PROVE  /\ Len(events) \in Nat /\ DOMAIN events = 1..Len(events) /\ DOMAIN events' \subseteq Nat
           /\ live \subseteq DOMAIN events
           /\ \A i \in DOMAIN events : i \in DOMAIN events' /\ events'[i] = events[i]
           /\ \A i \in DOMAIN events' : i \in DOMAIN events \/ Len(events) < i
           /\ \A i \in live' : i \in live \/ Len(events) < i
           /\ live' \subseteq Nat
<1>1. /\ events \in Seq(Event) /\ live \subseteq DOMAIN events /\ live' \subseteq DOMAIN events'
      /\ events' \in Seq(Event)
  BY DEF LogFacts, LogInv, LogTyped
<1>2. DOMAIN events' \subseteq Nat /\ DOMAIN events = 1..Len(events) /\ Len(events) \in Nat
  BY <1>1
<1>3. \A i \in DOMAIN events' : i \in DOMAIN events \/ Len(events) < i
  BY DEF Moves
<1>4. \A i \in live' : i \in live \/ Len(events) < i
  BY <1>1, <1>3 DEF Moves
<1> QED BY <1>1, <1>2, <1>3, <1>4 DEF Moves

LEMMA AheadStays ==
    ASSUME LogFacts, LogFacts', Moves, FeedTyped, seen' \subseteq seen
    PROVE  \A m : Ahead(m) => \A t \in seen' : \A i \in DOMAIN events' : events'[i].msg = m => t < i
<1> SUFFICES ASSUME NEW m, Ahead(m), NEW t \in seen', NEW i \in DOMAIN events', events'[i].msg = m
    PROVE  t < i
  OBVIOUS
<1>1. t \in seen /\ t \in 1..Len(events) /\ Len(events) \in Nat /\ i \in Nat
  BY Gains DEF FeedTyped, PageTyped
<1>2. CASE i \in DOMAIN events
  <2>1. events[i].msg = m
    BY <1>2 DEF Moves
  <2> QED BY <1>1, <1>2, <2>1 DEF Ahead, EventsOf
<1>3. CASE Len(events) < i
  BY <1>1, <1>3
<1> QED BY <1>2, <1>3, Gains

(* A turn that ended stays so, and what comes new does so after all that was handled. *)
LEMMA HandledMore ==
    ASSUME LogFacts, LogFacts', Moves, FeedTyped, Handled,
           UNCHANGED <<stream, seen, ended>>,
           UNCHANGED <<reply, cursor>> \/ reply' = 0,
           UNCHANGED probe \/ (probe' = NoProbe /\ reply' = 0)
    PROVE  Handled'
<1>0. /\ seen \subseteq 1..Len(events) /\ cursor \in 0..Len(events) /\ Len(events) \in Nat
      /\ DOMAIN events' \subseteq Nat
  BY Gains DEF FeedTyped, PageTyped
<1>1. stream' = 0 => \A t \in seen' : \E e \in Ends' : t <= e
  BY Gains DEF Handled, Ends
<1>2. ASSUME stream # 0, NEW t \in seen, NEW e \in DOMAIN events', events'[e].kind \in EndKinds,
             events'[e].msg = stream
      PROVE  t < e
  <2>1. CASE e \in DOMAIN events
    <3>1. e \in Ends /\ events[e].msg = stream
      BY <1>2, <2>1 DEF Moves, Ends
    <3> QED BY <1>2, <3>1 DEF Handled
  <2>2. CASE Len(events) < e
    BY <1>0, <2>2
  <2> QED BY <2>1, <2>2, Gains
<1>3. \A m : Ahead(m) => Ahead(m)'
  BY AheadStays DEF Ahead, EventsOf
<1>4. reply' # 0 => /\ stream' = 0 /\ probe' = NoProbe /\ Ahead(reply)'
                    /\ \A i \in EventsOf(reply)' : cursor' < i
  <2> SUFFICES ASSUME reply' # 0, UNCHANGED <<reply, cursor>>, UNCHANGED probe
      PROVE  /\ stream' = 0 /\ probe' = NoProbe /\ Ahead(reply)'
             /\ \A i \in EventsOf(reply)' : cursor' < i
    OBVIOUS
  <2>1. /\ stream = 0 /\ probe = NoProbe /\ Ahead(reply)
        /\ \A i \in EventsOf(reply) : cursor < i
    BY DEF Handled
  <2>2. ASSUME NEW i \in DOMAIN events', events'[i].msg = reply PROVE cursor < i
    <3>1. CASE i \in DOMAIN events
      <4>1. i \in EventsOf(reply)
        BY <2>2, <3>1 DEF Moves, EventsOf
      <4> QED BY <2>1, <4>1
    <3>2. CASE Len(events) < i
      BY <1>0, <3>2
    <3> QED BY <3>1, <3>2, Gains
  <2>3. \A t \in seen' : \A i \in DOMAIN events' : events'[i].msg = reply => t < i
    BY <2>1, AheadStays
  <2> QED BY <2>1, <2>2, <2>3 DEF Ahead, EventsOf
<1>5. probe' # NoProbe => stream' = 0 /\ Ahead(probe.msg)' /\ probe.msg \notin ended'
  <2> SUFFICES ASSUME probe' # NoProbe, UNCHANGED probe
      PROVE  stream' = 0 /\ Ahead(probe.msg)' /\ probe.msg \notin ended'
    OBVIOUS
  <2>1. stream = 0 /\ Ahead(probe.msg) /\ probe.msg \notin ended
    BY DEF Handled
  <2>2. \A t \in seen' : \A i \in DOMAIN events' : events'[i].msg = probe.msg => t < i
    BY <2>1, AheadStays
  <2> QED BY <2>1, <2>2 DEF Ahead, EventsOf
<1>6. stream' # 0 => \A t \in seen' : \A e \in Ends' : events'[e].msg = stream' => t < e
  BY <1>2 DEF Ends
<1> QED BY <1>1, <1>4, <1>5, <1>6 DEF Handled

(* A turn that a status request finds at work comes after all that was handled. *)
LEMMA LatestAhead ==
    ASSUME LogFacts, FeedTyped, Handled, stream = 0, phase # "starting", ~(pc = "idle" /\ Free),
           Latest \in InProgress
    PROVE  Ahead(Latest)
<1> DEFINE kept == {m \in DOMAIN row : row[m].status # "deleted"}
           l == Latest
<1>0. /\ DOMAIN row = 1..Len(row) /\ Len(row) \in Nat /\ DOMAIN events = 1..Len(events)
      /\ Len(events) \in Nat
  BY Indices
<1>1. /\ cur \in kept /\ l \in kept /\ row[l].status = "in_progress"
      /\ \A m \in DOMAIN row : m > cur => row[m].status = "deleted" \/ EventsOf(m) = {}
      /\ row[cur].status = "in_progress" => \A e \in Ends : \A i \in EventsOf(cur) : e < i
  BY DEF LogFacts, LogOrder, Newest, Running, InProgress
<1>2. \A k \in kept : k <= l
  <2>1. \E s \in kept : \A i \in kept : i <= s
    <3>1. kept \subseteq Nat
      BY <1>0
    <3>2. IsFiniteSet(kept)
      <4>1. IsFiniteSet(1..Len(row)) /\ kept \in SUBSET (1..Len(row))
        BY <1>0, FS_Interval
      <4> QED BY <4>1, FS_Subset
    <3> QED BY <1>1, <3>1, <3>2, LargestExists
  <2>2. kept # {} /\ l = CHOOSE m \in kept : \A k \in kept : k <= m
    BY <1>1 DEF Latest
  <2> HIDE DEF kept, l
  <2> QED BY <2>1, <2>2
<1>3. cur <= l /\ cur \in Nat /\ l \in Nat
  BY <1>0, <1>1, <1>2
<1>4. CASE l = cur
  <2>1. \A e \in Ends : \A i \in EventsOf(l) : e < i
    BY <1>1, <1>4
  <2> SUFFICES ASSUME NEW t \in seen, NEW i \in EventsOf(l) PROVE t < i
    BY DEF Ahead
  <2>2. PICK e \in Ends : t <= e
    BY DEF Handled
  <2>3. e < i /\ e \in Nat /\ i \in Nat /\ t \in Nat
    BY <1>0, <2>1 DEF Ends, EventsOf, FeedTyped, PageTyped
  <2> QED BY <2>2, <2>3
<1>5. CASE l > cur
  <2>1. EventsOf(l) = {}
    BY <1>1, <1>5
  <2> QED BY <2>1 DEF Ahead
<1> QED BY <1>3, <1>4, <1>5

(* What is still wanted of the turn on screen comes after the event that is handled. *)
LEMMA WantedLater ==
    ASSUME LogFacts, FeedTyped, Connection, wire # <<>>,
           NEW i \in live, i \notin seen, cursor < i, i # Head(wire)
    PROVE  Head(wire) < i
<1> DEFINE s == Head(wire)
           t == Tail(wire)
<1>0. /\ wire \in Seq(Nat) /\ cursor \in Nat /\ feedSeq \in Nat /\ i \in Nat
      /\ conn \in {"closed", "opening", "replaying", "live"}
  BY WireTypes
<1>1. /\ conn \in {"replaying", "live"} /\ Lists(wire, cursor, feedSeq)
      /\ i <= feedSeq => Has(wire, i)
  BY <1>0 DEF Connection
<1>2. /\ s \in Nat /\ s <= feedSeq /\ Lists(t, s, feedSeq)
      /\ Has(wire, i) => i = s \/ Has(t, i)
  BY <1>0, <1>1, Taken
<1>3. CASE i <= feedSeq
  <2>1. Has(t, i)
    BY <1>1, <1>2, <1>3
  <2> QED BY <1>2, <2>1 DEF Lists, Has
<1>4. CASE ~(i <= feedSeq)
  BY <1>0, <1>2, <1>4
<1> QED BY <1>3, <1>4

(* Of an event that is handled: it leaves the filter knowing one more, and a page that
   follows a turn waits for nobody else. *)
LEMMA Followed ==
    ASSUME LogFacts, FeedTyped, Handled, wire # <<>>, ~Ignored(Head(wire))
    PROVE  /\ stream # 0 /\ reply = 0 /\ probe = NoProbe
           /\ Head(wire) \in DOMAIN events /\ Head(wire) \notin seen
           /\ Head(wire) \in Nat /\ seen \subseteq Nat /\ DOMAIN events \subseteq Nat
           /\ \A t \in seen : \A e \in Ends : events[e].msg = stream => t < e
<1>1. stream # 0 /\ Head(wire) \in DOMAIN events /\ Head(wire) \notin seen
  BY HandledTypes
<1>2. DOMAIN events \subseteq Nat /\ seen \subseteq DOMAIN events
  BY Indices DEF FeedTyped, PageTyped
<1> QED BY <1>1, <1>2 DEF Handled

(* The end of the turn on screen is yet to come when another of its events is handled. *)
LEMMA EndsLater ==
    ASSUME LogFacts, FeedTyped, Connection, Handled, Pending, wire # <<>>, ~Ignored(Head(wire)),
           events[Head(wire)].msg # stream \/ events[Head(wire)].kind \notin EndKinds
    PROVE  \A e \in Ends : events[e].msg = stream => Head(wire) < e
<1> SUFFICES ASSUME NEW e \in Ends, events[e].msg = stream PROVE Head(wire) < e
  OBVIOUS
<1>1. e \in live /\ e # Head(wire) /\ events[e].kind \in EndKinds
  BY DEF Ends, LogFacts, LogInv, EndSurvives
<1>2. events[e].kind # "text"
  BY <1>1 DEF EndKinds
<1>3. stream # 0
  BY Followed
<1>4. e \notin seen /\ cursor < e
  BY <1>1, <1>2, <1>3 DEF Pending, Wanted, Held
<1> QED BY <1>1, <1>4, WantedLater

LEMMA HandledStep ==
    ASSUME LogFacts, LogFacts', Moves, FeedTyped, FeedTyped', Connection, Handled, Pending,
           \A m \in ended : ~NoEnd(m), Next, ~GiveUp
    PROVE  Handled'
<1>1. CASE Send
  <2>1. /\ stream' = 0 /\ reply' = Len(row) + 1 /\ probe' = NoProbe
        /\ UNCHANGED <<events, stream, seen, cursor>>
    BY <1>1 DEF Send, NewTurn
  <2>2. /\ \A i \in DOMAIN events : events[i].msg \in 1..Len(row)
        /\ Len(row) \in Nat
    BY Indices DEF LogFacts, LogInv, LogTyped
  <2>3. \A i \in DOMAIN events' : events'[i].msg # reply'
    BY <2>1, <2>2
  <2> QED BY <2>1, <2>3 DEF Handled, Ahead, EventsOf, Ends
<1>2. CASE Register
  <2>1. /\ reply # 0 /\ stream' = reply /\ reply' = 0 /\ UNCHANGED <<events, probe, seen>>
    BY <1>2 DEF Register, logVars
  <2>2. probe = NoProbe /\ Ahead(reply)
    BY <2>1 DEF Handled
  <2> QED BY <2>1, <2>2 DEF Handled, Ahead, EventsOf, Ends
<1>3. CASE Reenter
  <2>1. /\ probe # NoProbe /\ stream' = probe.msg /\ probe' = NoProbe /\ UNCHANGED <<events, reply>>
        /\ seen' = {} \/ seen' = seen
    BY <1>3 DEF Reenter, logVars
  <2>2. reply = 0 /\ Ahead(probe.msg) /\ probe.msg # 0
    BY <2>1 DEF Handled, FeedTyped, PageTyped
  <2> QED BY <2>1, <2>2 DEF Handled, Ahead, EventsOf, Ends
<1>4. CASE Probe
  <2>1. /\ stream = 0 /\ reply = 0 /\ phase # "starting" /\ ~(pc = "idle" /\ Free)
        /\ Latest \in InProgress /\ probe'.msg = Latest
        /\ UNCHANGED <<events, stream, reply, seen, ended>>
    BY <1>4 DEF Probe, logVars
  <2>2. Ahead(Latest)
    BY <2>1, LatestAhead
  <2>3. Latest \notin ended
    BY <2>1 DEF LogFacts, LogInv, Unended
  <2>4. \A t \in seen' : \E e \in Ends' : t <= e
    BY <2>1 DEF Handled, Ends
  <2> QED BY <2>1, <2>2, <2>3, <2>4 DEF Handled, Ahead, EventsOf
<1>5. CASE EndStream
  <2> DEFINE s == Head(wire)
  <2>1. /\ wire # <<>> /\ ~Ignored(s) /\ seen' = seen \cup {s} /\ events[s].msg = stream
        /\ events[s].kind \in EndKinds /\ stream' = 0 /\ UNCHANGED <<events, reply, probe>>
    BY <1>5 DEF EndStream, Mark, logVars
  <2>2. /\ reply = 0 /\ probe = NoProbe /\ s \in Ends /\ s \in Nat
        /\ \A t \in seen : t \in Nat /\ t < s
    BY <2>1, Followed DEF Ends
  <2> HIDE DEF s
  <2>3. \A t \in seen' : t <= s
    BY <2>1, <2>2
  <2>4. s \in Ends'
    BY <2>1, <2>2 DEF Ends
  <2> QED BY <2>1, <2>2, <2>3, <2>4 DEF Handled
<1>6. CASE Pass \/ AppendText
  <2> DEFINE s == Head(wire)
  <2>1. /\ wire # <<>> /\ ~Ignored(s) /\ seen' = seen \cup {s}
        /\ events[s].msg # stream \/ events[s].kind \in {"start", "notice", "text"}
        /\ UNCHANGED <<events, stream, reply, probe>>
    BY <1>6 DEF Pass, AppendText, Take, Mark, logVars
  <2>2. events[s].msg # stream \/ events[s].kind \notin EndKinds
    BY <2>1 DEF EndKinds
  <2>3. /\ stream # 0 /\ reply = 0 /\ probe = NoProbe
        /\ \A t \in seen : \A e \in Ends : events[e].msg = stream => t < e
    BY <2>1, Followed
  <2>4. \A e \in Ends : events[e].msg = stream => s < e
    BY <2>1, <2>2, EndsLater
  <2> HIDE DEF s
  <2>5. \A t \in seen' : \A e \in Ends' : events'[e].msg = stream' => t < e
    BY <2>1, <2>3, <2>4 DEF Ends
  <2> QED BY <2>1, <2>3, <2>5 DEF Handled
<1>7. CASE FollowHandOff
  <2> DEFINE s == Head(wire)
  <2>1. /\ wire # <<>> /\ ~Ignored(s) /\ seen' = seen \cup {s} /\ events[s].msg = stream
        /\ events[s].kind = "handoff" /\ stream' = events[s].val /\ UNCHANGED <<events, reply, probe>>
    BY <1>7 DEF FollowHandOff, Take, Mark, logVars
  <2>2. /\ reply = 0 /\ probe = NoProbe /\ s \in DOMAIN events /\ s \in Nat /\ seen \subseteq Nat
        /\ DOMAIN events \subseteq Nat
        /\ \A t \in seen : \A e \in Ends : events[e].msg = stream => t < e
    BY <2>1, Followed
  <2>3. stream' # 0 /\ s \in Ends
    BY <2>1, <2>2, NextMessage DEF Ends, EndKinds
  <2>4. \A e \in DOMAIN events : events[e].msg = stream' => s < e
    BY <2>1, <2>2 DEF LogFacts, LogOrder, HandOffsPrecede, EventsOf
  <2> HIDE DEF s
  <2>5. \A t \in seen : t < s /\ t \in Nat
    BY <2>1, <2>2, <2>3
  <2>6. \A t \in seen' : \A e \in DOMAIN events : events[e].msg = stream' => t < e
    <3> SUFFICES ASSUME NEW t \in seen', NEW e \in DOMAIN events, events[e].msg = stream' PROVE t < e
      OBVIOUS
    <3>1. s < e /\ e \in Nat
      BY <2>2, <2>4
    <3>2. t = s \/ (t \in seen /\ t < s /\ t \in Nat)
      BY <2>1, <2>5
    <3>3. s \in Nat
      BY <2>2
    <3> QED BY <3>1, <3>2, <3>3
  <2> QED BY <2>1, <2>2, <2>3, <2>6 DEF Handled, Ends
<1>8. CASE Reload
  <2>1. stream' = 0 /\ reply' = 0 /\ probe' = NoProbe /\ seen' = {}
    BY <1>8 DEF Reload
  <2> QED BY <2>1 DEF Handled
<1>9. CASE FetchApply
  <2>1. /\ UNCHANGED <<stream, seen, ended, reply, probe>>
        /\ UNCHANGED cursor \/ reply' = 0
    BY <1>9 DEF FetchApply
  <2> QED BY <2>1, HandledMore
<1>10. CASE \/ OtherTurn \/ Server \/ Feed \/ Open \/ FetchRead \/ Ignore \/ Drop \/ Refetch
            \/ ServerDies \/ (PublishLost /\ UNCHANGED <<netVars, pageVars>>)
  <2>1. UNCHANGED <<stream, seen, ended, reply, cursor, probe>>
    BY <1>10 DEF OtherTurn, Server, Feed, Subscribe, ReplayBacklog, Forward, Published, Open, FetchRead,
                 Ignore, Drop, Refetch, ServerDies, pageVars
  <2> QED BY <2>1, HandledMore
<1> QED BY <1>1, <1>2, <1>3, <1>4, <1>5, <1>6, <1>7, <1>8, <1>9, <1>10
        DEF Next, Browser, Deliver, Disturbance

-----------------------------------------------------------------------------
(* What the rows and the page's entries hold *)

(* A row holds the texts of its turn up to the number it remembers. *)
LEMMA RowCovers ==
    ASSUME LogFacts, NEW m \in DOMAIN row, row[m].status # "deleted" PROVE Covers(row[m], m)
<1>1. ASSUME NEW i \in OwnTexts(m), i <= row[m].seq
      PROVE  \E k \in DOMAIN row[m].items : row[m].items[k] = events[i].val
  <2>1. i \in live /\ i \in Texts(m) /\ events[i].msg = m /\ events[i].kind = "text"
    BY <1>1 DEF OwnTexts, Texts, LogFacts, LogInv, LogTyped
  <2>2. row[m].status \notin Verdicts
    BY <2>1 DEF LogFacts, LogInv, TextFree, NoText
  <2>3. row[m].status = "in_progress"
    <3>1. row[m] \in Row
      BY Indices, ItemType
    <3> QED BY <2>2, <3>1 DEF Row
  <2>4. PICK c \in Nat : HoldsFirst(m, c)
    BY <2>3 DEF LogFacts, TextInv, Told, InProgress, ToldBy
  <2>5. events[i].val \in 1..said[m] /\ events[i].val <= c /\ row[m].items = UpTo(c)
    BY <1>1, <2>1, <2>4 DEF LogFacts, TextInv, Numbered, HoldsFirst
  <2>6. said[m] \in Nat
    BY DEF LogFacts, LogInv, LogTyped
  <2>7. events[i].val \in 1..c
    BY <2>5, <2>6
  <2>8. DOMAIN UpTo(c) = 1..c /\ UpTo(c)[events[i].val] = events[i].val
    BY <2>7 DEF UpTo
  <2> QED BY <2>5, <2>7, <2>8
<1>2. \A e \in Ends : events[e].msg = m => row[m].seq < e
  BY DEF LogFacts, LogOrder, RowsPrecede
<1> QED BY <1>1, <1>2 DEF Covers

(* It goes on doing so: what is logged later has a later number. *)
CoversNext(entry, m) ==
    /\ \A i \in live' : events'[i].msg = m /\ events'[i].kind = "text" /\ i <= entry.seq =>
         \E k \in DOMAIN entry.items : entry.items[k] = events'[i].val
    /\ \A e \in DOMAIN events' : events'[e].kind \in EndKinds /\ events'[e].msg = m => entry.seq < e

LEMMA CoversStays ==
    ASSUME LogFacts, LogFacts', Moves, NEW entry, NEW m,
           entry.seq \in Nat, entry.seq <= Len(events), Covers(entry, m)
    PROVE  CoversNext(entry, m)
<1>0. /\ Len(events) \in Nat /\ DOMAIN events' \subseteq Nat /\ live' \subseteq Nat
      /\ live \subseteq DOMAIN events
  BY Gains
<1>1. ASSUME NEW i \in live', events'[i].msg = m, events'[i].kind = "text", i <= entry.seq
      PROVE  \E k \in DOMAIN entry.items : entry.items[k] = events'[i].val
  <2>1. CASE i \in live
    <3>1. i \in OwnTexts(m) /\ events'[i] = events[i]
      BY <1>0, <1>1, <2>1 DEF OwnTexts, Moves
    <3> QED BY <1>1, <3>1 DEF Covers
  <2>2. CASE Len(events) < i
    BY <1>0, <1>1, <2>2
  <2> QED BY <2>1, <2>2, Gains
<1>2. ASSUME NEW e \in DOMAIN events', events'[e].kind \in EndKinds, events'[e].msg = m
      PROVE  entry.seq < e
  <2>1. CASE e \in DOMAIN events
    <3>1. e \in Ends /\ events[e].msg = m
      BY <1>2, <2>1 DEF Ends, Moves
    <3> QED BY <3>1 DEF Covers
  <2>2. CASE Len(events) < e
    BY <1>0, <2>2
  <2> QED BY <2>1, <2>2, Gains
<1> QED BY <1>1, <1>2 DEF CoversNext

(* The page's entries and a page under way go on covering their turns. *)
LEMMA CachesStay ==
    ASSUME LogFacts, LogFacts', Moves, FeedTyped, NEW m \in DOMAIN cache, Covers(cache[m], m),
           m \in DOMAIN cache', cache'[m] = cache[m]
    PROVE  Covers(cache[m], m)' 
<1>1. cache[m].seq \in Nat /\ cache[m].seq <= Len(events)
  BY DEF FeedTyped, ViewTyped, Messages, Entry
<1>2. CoversNext(cache[m], m)
  BY <1>1, CoversStays
<1> QED BY <1>2 DEF CoversNext, Covers, OwnTexts, Ends

LEMMA PageStays ==
    ASSUME LogFacts, LogFacts', Moves, FeedTyped, fetch # NoFetch, PageCovers(fetch[1]), UNCHANGED fetch
    PROVE  PageCovers(fetch[1])'
<1>1. \A m \in DOMAIN fetch[1] : fetch[1][m].seq \in Nat /\ fetch[1][m].seq <= Len(events)
  <2>1. PageOf(fetch[1], Len(row), Len(events))
    BY DEF FeedTyped, ViewTyped
  <2> DEFINE rows == fetch[1]
  <2>2. rows \in Seq(Row) /\ \A m \in DOMAIN rows : rows[m].seq <= Len(events)
    BY <2>1 DEF PageOf
  <2> HIDE DEF rows
  <2>3. \A m \in DOMAIN rows : rows[m] \in Row
    BY <2>2, ItemType
  <2>4. \A m \in DOMAIN rows : rows[m].seq \in Nat
    BY <2>3 DEF Row
  <2> QED BY <2>2, <2>4 DEF rows
<1>2. \A m \in DOMAIN fetch[1] : fetch[1][m].status # "deleted" => CoversNext(fetch[1][m], m)
  BY <1>1, CoversStays DEF PageCovers
<1> QED BY <1>2 DEF PageCovers, CoversNext, Covers, OwnTexts, Ends

(* A page as it is applied covers its turns. *)
LEMMA AppliedCovers ==
    ASSUME NEW rows, PageCovers(rows)
    PROVE  \A m \in DOMAIN Page(rows) : Covers(Page(rows)[m], m)
<1> SUFFICES ASSUME NEW m \in DOMAIN Page(rows) PROVE Covers(Page(rows)[m], m)
  OBVIOUS
<1>1. m \in DOMAIN rows /\ Covers(rows[m], m)
  BY PageHolds DEF PageCovers
<1>2. Page(rows)[m] = [items |-> rows[m].items, seq |-> rows[m].seq]
  BY PageHolds
<1>3. Page(rows)[m].items = rows[m].items /\ Page(rows)[m].seq = rows[m].seq
  BY <1>2
<1> QED BY <1>1, <1>3 DEF Covers

(* Where the page's entries are left as they are but for the turn on screen. *)
LEMMA CachesMore ==
    ASSUME LogFacts, LogFacts', Moves, FeedTyped, CachesCover, ended \subseteq ended',
           \A m \in DOMAIN cache' : m # stream' /\ m \notin ended' =>
               m \in DOMAIN cache /\ m # stream /\ cache'[m] = cache[m]
    PROVE  CachesCover'
<1> SUFFICES ASSUME NEW m \in DOMAIN cache', m \notin ended', m # stream' PROVE Covers(cache[m], m)'
  BY DEF CachesCover
<1>1. m \in DOMAIN cache /\ m \notin ended /\ m # stream /\ cache'[m] = cache[m]
  OBVIOUS
<1>2. Covers(cache[m], m)
  BY <1>1 DEF CachesCover
<1> QED BY <1>1, <1>2, CachesStay

LEMMA CoveredMore ==
    ASSUME LogFacts, LogFacts', Moves, FeedTyped, Covered, CachesCover', Idling' => shown' = cache',
           UNCHANGED fetch \/ fetch' = NoFetch
    PROVE  Covered'
<1>1. CASE fetch' = NoFetch
  <2>1. (fetch # NoFetch)' => PageCovers(fetch[1])'
    BY <1>1 DEF NoFetch
  <2> QED BY <2>1 DEF Covered
<1>2. CASE UNCHANGED fetch
  <2>1. CASE fetch = NoFetch
    BY <1>1, <1>2, <2>1 DEF Covered, NoFetch
  <2>2. CASE fetch # NoFetch
    <3>1. PageCovers(fetch[1])'
      BY <1>2, <2>2, PageStays DEF Covered
    <3> QED BY <3>1 DEF Covered
  <2> QED BY <2>1, <2>2
<1> QED BY <1>1, <1>2

(* A page that follows a new turn has a blank entry of it at most. *)
LEMMA FollowsCover ==
    ASSUME LogFacts, LogFacts', Moves, FeedTyped, CachesCover, stream = 0, NEW m, NEW entry,
           stream' = m, cache' = WithRow(cache, m, entry), UNCHANGED ended
    PROVE  CachesCover'
<1>1. /\ DOMAIN WithRow(cache, m, entry) = DOMAIN cache \cup {m}
      /\ \A k \in DOMAIN cache : WithRow(cache, m, entry)[k] = cache[k]
  BY DEF WithRow
<1>2. DOMAIN cache \subseteq 1..Len(row) /\ Len(row) \in Nat
  BY Indices DEF FeedTyped, ViewTyped, Messages
<1>3. \A k \in DOMAIN cache' : k # stream' /\ k \notin ended' =>
          k \in DOMAIN cache /\ k # stream /\ cache'[k] = cache[k]
  <2> SUFFICES ASSUME NEW k \in DOMAIN cache', k # m
      PROVE  k \in DOMAIN cache /\ k # 0 /\ cache'[k] = cache[k]
    OBVIOUS
  <2>1. k \in DOMAIN cache
    BY <1>1
  <2>2. k # 0
    BY <1>2, <2>1
  <2> QED BY <1>1, <2>1, <2>2
<1> QED BY <1>3, CachesMore

LEMMA FetchReadCovered ==
    ASSUME LogFacts, LogFacts', Moves, FeedTyped, Covered, FetchRead PROVE Covered'
<1>1. /\ fetch' = <<row>> /\ UNCHANGED <<events, live, row, stream, reply, cache, shown, ended>>
  BY DEF FetchRead, logVars
<1>2. PageCovers(row)
  BY RowCovers DEF PageCovers
<1>3. fetch'[1] = row
  BY <1>1
<1>4. PageCovers(fetch[1])'
  BY <1>1, <1>2, <1>3 DEF PageCovers, Covers, OwnTexts, Ends
<1>5. CachesCover'
  BY <1>1 DEF Covered, CachesCover, Covers, OwnTexts, Ends
<1>6. Idling' => shown' = cache'
  BY <1>1 DEF Covered, Idling
<1> QED BY <1>4, <1>5, <1>6 DEF Covered

LEMMA FetchApplyCovered ==
    ASSUME LogFacts, LogFacts', Moves, FeedTyped, Covered, FetchApply PROVE Covered'
<1> DEFINE page == Page(fetch[1])
<1>1. /\ fetch # NoFetch /\ fetch' = NoFetch /\ UNCHANGED <<events, live, stream, reply, ended>>
      /\ \/ cache' = page /\ (Idling => shown' = page)
         \/ stream # 0 /\ cache' = WithRow(page, stream, shown[stream])
  BY DEF FetchApply, Idle, Idling, logVars
<1>2. \A m \in DOMAIN page : Covers(page[m], m)
  BY <1>1, AppliedCovers DEF Covered
<1> HIDE DEF page
<1>3. \A m \in DOMAIN cache' : m # stream => m \in DOMAIN page /\ cache'[m] = page[m]
  <2>1. CASE cache' = page
    BY <2>1
  <2>2. CASE cache' = WithRow(page, stream, shown[stream])
    <3>1. /\ DOMAIN WithRow(page, stream, shown[stream]) = DOMAIN page \cup {stream}
          /\ \A k \in DOMAIN page : WithRow(page, stream, shown[stream])[k] = page[k]
      BY DEF WithRow
    <3> QED BY <2>2, <3>1
  <2> QED BY <1>1, <2>1, <2>2
<1>4. CachesCover'
  BY <1>1, <1>2, <1>3 DEF CachesCover, Covers, OwnTexts, Ends
<1>5. Idling' => shown' = cache'
  BY <1>1 DEF Idling
<1> QED BY <1>1, <1>4, <1>5, CoveredMore

LEMMA CoveredStep ==
    ASSUME LogFacts, LogFacts', Moves, FeedTyped, FeedTyped', Handled, Covered, Next, ~GiveUp
    PROVE  Covered'
<1>0. /\ CachesCover /\ (Idling => shown = cache) /\ ended \subseteq DOMAIN row
      /\ \A s \in DOMAIN events : events[s].kind = "handoff" => events[s].val # 0
  BY NextMessage DEF Covered, FeedTyped, PageTyped
<1>1. CASE FetchRead \/ FetchApply
  BY <1>1, FetchReadCovered, FetchApplyCovered
<1>2. CASE Register
  <2>1. /\ reply # 0 /\ stream' = reply /\ cache' = WithRow(cache, reply, Blank(0))
        /\ UNCHANGED <<fetch, ended>>
    BY <1>2 DEF Register, Starts
  <2>2. stream = 0 /\ ~Idling'
    BY <2>1 DEF Handled, Idling
  <2> QED BY <1>0, <2>1, <2>2, FollowsCover, CoveredMore
<1>3. CASE Reenter
  <2>1. /\ stream = 0 /\ probe # NoProbe /\ stream' = probe.msg
        /\ cache' = WithRow(cache, probe.msg, Blank(probe.seq)) /\ UNCHANGED <<fetch, ended>>
    BY <1>3 DEF Reenter
  <2>2. ~Idling'
    BY <2>1 DEF Idling, FeedTyped, PageTyped
  <2> QED BY <1>0, <2>1, <2>2, FollowsCover, CoveredMore
<1>4. CASE AppendText
  <2> DEFINE entry == [items |-> Append(shown[stream].items, events[Head(wire)].val),
                       seq |-> Larger(shown[stream].seq, Head(wire))]
  <2>1. /\ wire # <<>> /\ ~Ignored(Head(wire)) /\ cache' = Set(cache, stream, entry)
        /\ UNCHANGED <<fetch, ended, stream>>
    BY <1>4 DEF AppendText, Take
  <2> HIDE DEF entry
  <2>2. /\ DOMAIN Set(cache, stream, entry) = DOMAIN cache
        /\ \A k \in DOMAIN cache : k # stream => Set(cache, stream, entry)[k] = cache[k]
    BY SetHolds
  <2>3. ~Idling'
    BY <2>1, HandledTypes DEF Idling
  <2>4. CachesCover'
    BY <1>0, <2>1, <2>2, CachesMore
  <2> QED BY <2>1, <2>3, <2>4, CoveredMore
<1>5. CASE FollowHandOff
  <2> DEFINE v == events[Head(wire)].val
  <2>1. /\ wire # <<>> /\ ~Ignored(Head(wire)) /\ events[Head(wire)].kind = "handoff"
        /\ stream' = v /\ cache' = WithRow(cache, v, Blank(0)) /\ ended' = ended \cup {stream}
        /\ UNCHANGED fetch
    BY <1>5 DEF FollowHandOff, Starts, Take
  <2>2. Head(wire) \in DOMAIN events
    BY <2>1, HandledTypes
  <2>3. ~Idling'
    BY <1>0, <2>1, <2>2 DEF Idling
  <2> HIDE DEF v
  <2>4. /\ DOMAIN WithRow(cache, v, Blank(0)) = DOMAIN cache \cup {v}
        /\ \A k \in DOMAIN cache : WithRow(cache, v, Blank(0))[k] = cache[k]
    BY DEF WithRow
  <2>5. CachesCover'
    BY <1>0, <2>1, <2>4, CachesMore
  <2> QED BY <2>1, <2>3, <2>5, CoveredMore
<1>6. CASE EndStream
  <2> DEFINE failed == Failed(shown[stream])
  <2>1. /\ wire # <<>> /\ ~Ignored(Head(wire)) /\ ended' = ended \cup {stream} /\ fetch' = NoFetch
        /\ shown' = cache' /\ (cache' = cache \/ cache' = Set(cache, stream, failed))
    BY <1>6 DEF EndStream, Idle, Invalidate
  <2> HIDE DEF failed
  <2>2. /\ DOMAIN Set(cache, stream, failed) = DOMAIN cache
        /\ \A k \in DOMAIN cache : k # stream => Set(cache, stream, failed)[k] = cache[k]
    BY SetHolds
  <2>3. CachesCover'
    BY <1>0, <2>1, <2>2, CachesMore
  <2> QED BY <2>1, <2>3, CoveredMore
<1>7. CASE Reload
  <2>1. cache' = <<>> /\ shown' = <<>> /\ fetch' = NoFetch
    BY <1>7 DEF Reload
  <2>2. CachesCover'
    BY <2>1 DEF CachesCover
  <2> QED BY <2>1, <2>2, CoveredMore
<1>8. CASE \/ Send \/ OtherTurn \/ Probe \/ Server \/ Feed \/ Open \/ Ignore \/ Pass \/ Drop \/ Refetch
           \/ ServerDies \/ (PublishLost /\ UNCHANGED <<netVars, pageVars>>)
  <2>1. UNCHANGED <<stream, cache, shown, fetch, ended>> /\ (reply' = reply \/ ~Idling')
    <3>1. CASE Send
      BY <3>1, Indices DEF Send, Idling
    <3>2. CASE ~Send
      BY <1>8, <3>2 DEF OtherTurn, Probe, Server, Feed, Subscribe, ReplayBacklog, Forward, Published,
                        Open, Ignore, Pass, Drop, Refetch, ServerDies, pageVars
    <3> QED BY <3>1, <3>2
  <2>2. CachesCover'
    BY <1>0, <2>1, CachesMore
  <2>3. Idling' => shown' = cache'
    BY <1>0, <2>1 DEF Idling
  <2> QED BY <2>1, <2>2, <2>3, CoveredMore
<1> QED BY <1>1, <1>2, <1>3, <1>4, <1>5, <1>6, <1>7, <1>8
        DEF Next, Browser, Deliver, Disturbance

-----------------------------------------------------------------------------
(* What the turn on screen still waits for *)

LEMMA PendingMore ==
    ASSUME LogFacts, LogFacts', Moves, FeedTyped, Pending, UNCHANGED <<stream, seen>>,
           stream # 0 => cursor' = cursor /\ shown'[stream] = shown[stream]
    PROVE  Pending'
<1> SUFFICES ASSUME stream # 0, NEW i \in live', events'[i].msg = stream,
                    events'[i].kind \in EndKinds \cup {"text"}
    PROVE  \/ /\ events'[i].kind = "text"
              /\ \E k \in DOMAIN shown[stream].items : shown[stream].items[k] = events'[i].val
           \/ i \notin seen /\ cursor < i
  BY DEF Pending, Wanted, Held
<1>1. CASE i \in live
  <2>1. events'[i] = events[i]
    BY <1>1, Gains
  <2> QED BY <1>1, <2>1 DEF Pending, Wanted, Held
<1>2. CASE Len(events) < i
  <2>1. /\ seen \subseteq 1..Len(events) /\ cursor \in 0..Len(events) /\ Len(events) \in Nat
        /\ i \in Nat
    BY Gains DEF FeedTyped, PageTyped
  <2> QED BY <1>2, <2>1
<1> QED BY <1>1, <1>2, Gains

LEMMA ReenterPending ==
    ASSUME LogFacts, FeedTyped, Handled, Covered, Reenter PROVE Pending'
<1> DEFINE m == probe.msg
           entry == Blank(probe.seq)
<1>1. /\ probe # NoProbe /\ stream = 0 /\ stream' = m /\ cursor' = ResumeAt(m)
      /\ seen' \subseteq seen /\ shown' = WithRow(shown, m, entry) /\ UNCHANGED <<events, live>>
  BY DEF Reenter, logVars
<1>2. reply = 0 /\ Ahead(m) /\ m \notin ended /\ m # 0
  BY <1>1 DEF Handled, FeedTyped, PageTyped
<1>3. shown = cache
  BY <1>1, <1>2 DEF Covered, Idling
<1> HIDE DEF m, entry
<1>4. live \subseteq DOMAIN events /\ DOMAIN events \subseteq Nat
  BY Indices
<1> SUFFICES ASSUME NEW i \in live, events[i].msg = m, events[i].kind \in EndKinds \cup {"text"}
    PROVE  \/ /\ events[i].kind = "text"
              /\ \E k \in DOMAIN shown'[m].items : shown'[m].items[k] = events[i].val
           \/ i \notin seen /\ cursor' < i
  BY <1>1 DEF Pending, Wanted, Held
<1>5. i \notin seen
  <2>1. i \in EventsOf(m) /\ i \in Nat
    BY <1>4 DEF EventsOf
  <2> QED BY <1>2, <2>1 DEF Ahead
<1>6. CASE m \in DOMAIN cache
  <2>1. Covers(cache[m], m) /\ cursor' = cache[m].seq /\ cache[m].seq \in Nat
    BY <1>1, <1>2, <1>6 DEF Covered, CachesCover, ResumeAt, FeedTyped, ViewTyped, Messages, Entry
  <2>2. shown'[m] = cache[m]
    BY <1>1, <1>3, <1>6 DEF WithRow
  <2>3. CASE events[i].kind \in EndKinds
    <3>1. i \in Ends
      BY <1>4, <2>3 DEF Ends
    <3> QED BY <1>5, <2>1, <3>1 DEF Covers
  <2>4. CASE events[i].kind = "text"
    <3>1. i \in OwnTexts(m) /\ i \in Nat
      BY <1>4, <2>4 DEF OwnTexts
    <3>2. CASE i <= cache[m].seq
      BY <2>1, <2>2, <2>4, <3>1, <3>2 DEF Covers
    <3>3. CASE ~(i <= cache[m].seq)
      BY <1>5, <2>1, <3>1, <3>3
    <3> QED BY <3>2, <3>3
  <2> QED BY <2>3, <2>4
<1>7. CASE m \notin DOMAIN cache
  <2>1. cursor' = 0 /\ i \in DOMAIN events /\ DOMAIN events = 1..Len(events)
    BY <1>1, <1>4, <1>7, Indices DEF ResumeAt
  <2> QED BY <1>5, <2>1
<1> QED BY <1>6, <1>7

(* Handling an event of the log leaves what is wanted past it. *)
LEMMA LaterStill ==
    ASSUME LogFacts, FeedTyped, Connection, wire # <<>>, cursor' = Larger(cursor, Head(wire)),
           seen' = seen \cup {Head(wire)}, NEW i \in live, i \notin seen, cursor < i, i # Head(wire)
    PROVE  i \notin seen' /\ cursor' < i
<1>1. Head(wire) < i
  BY WantedLater
<1> QED BY <1>1 DEF Larger

LEMMA AppendTextPending ==
    ASSUME LogFacts, FeedTyped, Connection, Pending, AppendText PROVE Pending'
<1> DEFINE s == Head(wire)
           old == shown[stream].items
           new == [items |-> Append(shown[stream].items, events[s].val),
                   seq |-> Larger(shown[stream].seq, s)]
<1>1. /\ wire # <<>> /\ ~Ignored(s) /\ seen' = seen \cup {s} /\ cursor' = Larger(cursor, s)
      /\ events[s].kind = "text" /\ shown' = Set(shown, stream, new) /\ UNCHANGED <<events, live, stream>>
  BY DEF AppendText, Take, Mark, Advance, logVars
<1>2. stream # 0 /\ s \in DOMAIN events /\ stream \in DOMAIN shown /\ old \in Seq(Nat)
  BY <1>1, HandledTypes, StreamEntry
<1>3. new.items = Append(old, events[s].val) /\ events[s].val \in Nat
  <2>1. events[s] \in Event
    BY <1>2, Indices, ItemType
  <2> QED BY <2>1 DEF Event
<1> HIDE DEF new
<1>4. shown'[stream] = new
  <2>1. Set(shown, stream, new)[stream] = new
    BY <1>2 DEF Set
  <2> QED BY <1>1, <2>1
<1> HIDE DEF s, old
<1>5. /\ \A k \in DOMAIN old : k \in DOMAIN new.items /\ new.items[k] = old[k]
      /\ Len(old) + 1 \in DOMAIN new.items /\ new.items[Len(old) + 1] = events[s].val
  BY <1>2, <1>3
<1> SUFFICES ASSUME NEW i \in live, Wanted(i)
    PROVE  \/ /\ events[i].kind = "text"
              /\ \E k \in DOMAIN new.items : new.items[k] = events[i].val
           \/ i \notin seen' /\ cursor' < i
  BY <1>1, <1>4 DEF Pending, Wanted, Held
<1>6. CASE i = s
  BY <1>1, <1>5, <1>6
<1>7. CASE Held(i)
  BY <1>5, <1>7 DEF Held, old
<1>8. CASE i # s /\ ~Held(i)
  <2>1. i \notin seen /\ cursor < i
    BY <1>2, <1>8 DEF Pending
  <2> QED BY <1>1, <1>8, <2>1, LaterStill DEF s
<1> QED BY <1>6, <1>7, <1>8

LEMMA FollowPending ==
    ASSUME LogFacts, FeedTyped, Connection, Handled, FollowHandOff PROVE Pending'
<1> DEFINE s == Head(wire)
           v == events[s].val
<1>1. /\ wire # <<>> /\ ~Ignored(s) /\ seen' = seen \cup {s} /\ cursor' = Larger(cursor, s)
      /\ events[s].kind = "handoff" /\ events[s].msg = stream /\ stream' = v
      /\ UNCHANGED <<events, live>>
  BY DEF FollowHandOff, Take, Mark, Advance, logVars
<1>2. /\ s \in DOMAIN events /\ s \in Nat /\ seen \subseteq Nat /\ DOMAIN events \subseteq Nat
      /\ \A t \in seen : \A e \in Ends : events[e].msg = stream => t < e
  BY <1>1, Followed
<1>3. live \subseteq DOMAIN events /\ s \in Ends
  BY <1>1, <1>2, Indices DEF Ends, EndKinds
<1>4. cursor' = s
  <2>1. /\ wire \in Seq(Nat) /\ cursor \in Nat /\ feedSeq \in Nat
        /\ conn \in {"closed", "opening", "replaying", "live"}
    BY WireTypes
  <2>2. Lists(wire, cursor, feedSeq)
    BY <1>1, <2>1 DEF Connection
  <2>3. cursor < s
    BY <1>1, <2>1, <2>2, Taken
  <2> QED BY <1>1, <1>2, <2>1, <2>3 DEF Larger
<1>5. \A i \in live : events[i].msg = v => s < i
  BY <1>1, <1>2, <1>3 DEF LogFacts, LogOrder, HandOffsPrecede, EventsOf
<1>6. \A t \in seen : t < s
  BY <1>1, <1>2, <1>3
<1> HIDE DEF s, v
<1>7. \A i \in live : events[i].msg = v => i \notin seen /\ i # s
  <2> SUFFICES ASSUME NEW i \in live, events[i].msg = v PROVE i \notin seen /\ i # s
    OBVIOUS
  <2>1. s < i /\ i \in Nat
    BY <1>2, <1>3, <1>5
  <2>2. i \in seen => i < s
    BY <1>6
  <2> QED BY <1>2, <2>1, <2>2
<1> QED BY <1>1, <1>4, <1>5, <1>7 DEF Pending, Wanted

LEMMA PendingStep ==
    ASSUME LogFacts, LogFacts', Moves, FeedTyped, Connection, Handled, Covered, Pending, Next, ~GiveUp
    PROVE  Pending'
<1>1. CASE Register
  <2>1. /\ reply # 0 /\ stream' = reply /\ UNCHANGED <<events, live, seen, cursor>>
    BY <1>1 DEF Register, logVars
  <2>2. Ahead(reply) /\ \A i \in EventsOf(reply) : cursor < i
    BY <2>1 DEF Handled
  <2>3. live \subseteq DOMAIN events /\ DOMAIN events \subseteq Nat
    BY Indices
  <2>4. \A i \in live : events[i].msg = reply => i \notin seen /\ cursor < i
    <3> SUFFICES ASSUME NEW i \in live, events[i].msg = reply PROVE i \notin seen /\ cursor < i
      OBVIOUS
    <3>1. i \in EventsOf(reply) /\ i \in Nat
      BY <2>3 DEF EventsOf
    <3> QED BY <2>2, <3>1 DEF Ahead
  <2> QED BY <2>1, <2>4 DEF Pending, Wanted
<1>2. CASE Reenter
  BY <1>2, ReenterPending
<1>3. CASE Pass
  <2> DEFINE s == Head(wire)
  <2>1. /\ wire # <<>> /\ ~Ignored(s) /\ seen' = seen \cup {s} /\ cursor' = Larger(cursor, s)
        /\ events[s].msg # stream \/ events[s].kind \in {"start", "notice"}
        /\ UNCHANGED <<events, live, stream, shown>>
    BY <1>3 DEF Pass, Take, Mark, Advance, logVars
  <2>2. ~Wanted(s)
    BY <2>1 DEF Wanted, EndKinds
  <2> HIDE DEF s
  <2> SUFFICES ASSUME stream # 0, NEW i \in live, Wanted(i), ~Held(i) PROVE i \notin seen' /\ cursor' < i
    BY <2>1 DEF Pending, Wanted, Held
  <2>3. i \notin seen /\ cursor < i /\ i # s
    BY <2>2 DEF Pending
  <2> QED BY <2>1, <2>3, LaterStill DEF s
<1>4. CASE AppendText
  BY <1>4, AppendTextPending
<1>5. CASE FollowHandOff
  BY <1>5, FollowPending
<1>6. CASE EndStream \/ Reload
  <2>1. stream' = 0
    BY <1>6 DEF EndStream, Reload
  <2> QED BY <2>1 DEF Pending
<1>7. CASE FetchApply
  <2> DEFINE page == Page(fetch[1])
  <2>1. /\ UNCHANGED <<stream, seen>>
        /\ stream # 0 => cursor' = cursor /\ shown' = Missing(shown, page)
    BY <1>7 DEF FetchApply
  <2> HIDE DEF page
  <2>2. stream # 0 => Missing(shown, page)[stream] = shown[stream]
    BY DEF Missing, FeedTyped, ViewTyped
  <2> QED BY <2>1, <2>2, PendingMore
<1>8. CASE \/ Send \/ OtherTurn \/ Probe \/ Server \/ Feed \/ Open \/ FetchRead \/ Ignore \/ Drop
           \/ Refetch \/ ServerDies \/ (PublishLost /\ UNCHANGED <<netVars, pageVars>>)
  <2>1. UNCHANGED <<stream, seen, cursor, shown>>
    BY <1>8 DEF Send, OtherTurn, Probe, Server, Feed, Subscribe, ReplayBacklog, Forward, Published, Open,
                FetchRead, Ignore, Drop, Refetch, ServerDies, pageVars
  <2> QED BY <2>1, PendingMore
<1> QED BY <1>1, <1>2, <1>3, <1>4, <1>5, <1>6, <1>7, <1>8
        DEF Next, Browser, Deliver, Disturbance

LEMMA FollowingInit == FeedInit => Following
<1> SUFFICES ASSUME FeedInit PROVE Following
  OBVIOUS
<1>1. /\ events = <<>> /\ live = {} /\ conn = "closed" /\ wire = <<>> /\ stream = 0 /\ reply = 0
      /\ probe = NoProbe /\ cursor = 0 /\ seen = {} /\ cache = <<>> /\ shown = <<>> /\ fetch = NoFetch
  BY DEF FeedInit, Init
<1> QED BY <1>1 DEF Following, Connection, Handled, Covered, CachesCover, Pending

LEMMA FollowingStutters ==
    ASSUME Following, UNCHANGED vars PROVE Following'
<1>1. /\ UNCHANGED <<events, live, row, conn, from, feedSeq, wire, stream, reply, probe, cursor, seen>>
      /\ UNCHANGED <<cache, shown, fetch, ended>>
  BY DEF vars, logVars, netVars, pageVars
<1>2. Connection' /\ Handled' /\ Pending'
  BY <1>1 DEF Following, Connection, Handled, Pending, Ends, EventsOf, Ahead, Wanted, Held
<1>3. Covered'
  BY <1>1 DEF Following, Covered, CachesCover, PageCovers, Covers, Idling, OwnTexts, Ends
<1> QED BY <1>2, <1>3 DEF Following

LEMMA FollowingHolds ==
    ASSUME LogFacts, FeedTyped, Following PROVE NothingSkipped
<1>1. Connection /\ Pending
  BY DEF Following
<1>2. /\ live \subseteq Nat /\ feedSeq \in Nat
      /\ conn \in {"closed", "opening", "replaying", "live"}
  BY WireTypes
<1> SUFFICES ASSUME stream # 0, NEW i \in live, Wanted(i), ~Held(i)
    PROVE  i \notin seen /\ (i > ResumePoint \/ Has(wire, i))
  BY DEF NothingSkipped, Wanted, Held, Has
<1>3. i \notin seen /\ cursor < i /\ i \in Nat
  BY <1>1, <1>2 DEF Pending
<1>4. CASE conn = "closed" \/ conn = "opening"
  <2>1. ResumePoint = cursor
    BY <1>1, <1>4 DEF ResumePoint, Connection
  <2> QED BY <1>3, <2>1
<1>5. CASE conn = "replaying" \/ conn = "live"
  <2>1. ResumePoint = feedSeq
    BY <1>5 DEF ResumePoint
  <2>2. i <= feedSeq => Has(wire, i)
    BY <1>1, <1>3, <1>5 DEF Connection
  <2> QED BY <1>2, <1>3, <2>1, <2>2
<1> QED BY <1>2, <1>4, <1>5

(* While a turn is on screen none of its texts, nor its end, is skipped for good: each that
   was committed is shown, on its way, or past the point the feed goes on from, and the
   duplicate filter lets it through.  So it is whatever is lost, dropped, replayed or reloaded,
   and whoever starts the turns, as long as the page gives no stream up: one that it gave up
   keeps its numbers in the filter (removeStream leaves recentSeqByChat as it is). *)
THEOREM NothingIsSkipped == Spec /\ [][~GiveUp]_vars => []NothingSkipped
<1> DEFINE Inv == LogFacts /\ FeedTyped /\ EndsShown /\ Following
<1>1. FeedInit => Inv
  <2>1. FeedInit => EndsShown
    BY DEF FeedInit, EndsShown, RendersEnded
  <2> QED BY <2>1, FactsInit, TypedInit, FollowingInit
<1>2. Inv /\ [Next]_vars /\ [~GiveUp]_vars => Inv'
  <2> SUFFICES ASSUME LogFacts, FeedTyped, EndsShown, Following, [Next]_vars, [~GiveUp]_vars PROVE Inv'
    OBVIOUS
  <2>1. LogFacts' /\ Moves /\ FeedTyped'
    BY FactsStep, TypedStep
  <2>2. CASE Next /\ ~GiveUp
    <3>1. EndsShown' /\ Connection'
      BY <2>1, <2>2, EndsShownStep, ConnectionStep DEF Following
    <3>2. Handled'
      BY <2>1, <2>2, HandledStep DEF Following, EndsShown
    <3>3. Covered' /\ Pending'
      BY <2>1, <2>2, CoveredStep, PendingStep DEF Following
    <3> QED BY <2>1, <3>1, <3>2, <3>3 DEF Following
  <2>3. CASE UNCHANGED vars
    BY <2>1, <2>3, EndsShownStutters, FollowingStutters
  <2> QED BY <2>2, <2>3
<1>3. Inv => NothingSkipped
  BY FollowingHolds
<1> QED BY <1>1, <1>2, <1>3, PTL DEF Spec

-----------------------------------------------------------------------------
(* What the rows have read of the log *)

Alike(m) == Texts(m)' = Texts(m) /\ \A i \in Texts(m) : events'[i] = events[i]

(* Texts are added to the log of a turn in progress, from the buffer. *)
LEMMA TextsLogged ==
    ASSUME LogInv, LogNext
    PROVE  \/ \A m : Alike(m)
           \/ /\ Flush \/ FinalFlush \/ (CutShort /\ pc = "streaming")
              /\ unflushed > 0 /\ Commit(Batch) /\ UNCHANGED <<row, cur, said>>
              /\ cur \in InProgress /\ said[cur] \in Nat /\ unflushed <= said[cur]
<1>0. /\ cur \in Nat /\ Len(row) \in Nat /\ unflushed \in Nat
      /\ pc \in {"streaming", "finishing"} => cur \in DOMAIN row /\ unflushed <= said[cur] /\ said[cur] \in Nat
      /\ pc = "streaming" => row[cur].status = "in_progress"
      /\ pc = "finishing" /\ unflushed > 0 => row[cur].status = "in_progress"
  BY RowIndex DEF LogInv, LogTyped, Stages, InRun
<1>1. CASE UNCHANGED events
  BY <1>1 DEF Alike, Texts
<1>2. CASE NoNewText
  <2>1. \A m : SameTexts(m)
    BY <1>2, NoNewTextSame
  <2> QED BY <2>1 DEF SameTexts, Alike
<1>3. CASE Start \/ Notify \/ HandOff \/ Terminal \/ DeadTerminal
  <2>1. PICK kind \in {"start", "notice"} \cup EndKinds, val \in Nat :
           Commit(<<[msg |-> cur, kind |-> kind, val |-> val]>>)
    <3>1. EndOf(verdict) \in {"complete", "cancelled", "error"}
      BY DEF EndOf
    <3> QED BY <1>0, <1>3, <3>1 DEF Start, Notify, HandOff, Terminal, DeadTerminal, Emit, One, EndKinds
  <2> QED BY <1>0, <1>2, <2>1, OneMore
<1>4. CASE Flush \/ FinalFlush
  <2>1. /\ unflushed > 0 /\ Commit(Batch) /\ UNCHANGED <<row, cur, said>>
        /\ pc \in {"streaming", "finishing"}
    BY <1>4 DEF Flush, FinalFlush, FlushAt
  <2> QED BY <1>0, <1>4, <2>1 DEF InProgress
<1>5. CASE CutShort
  <2>1. /\ UNCHANGED <<row, cur, said>>
        /\ \/ UNCHANGED <<events, live>>
           \/ pc = "streaming" /\ unflushed > 0 /\ Commit(Batch)
           \/ Commit(<<[msg |-> cur, kind |-> "notice", val |-> 0]>>)
    BY <1>5 DEF CutShort, One
  <2>2. CASE pc = "streaming" /\ unflushed > 0 /\ Commit(Batch)
    BY <1>0, <1>5, <2>1, <2>2 DEF InProgress
  <2>3. CASE Commit(<<[msg |-> cur, kind |-> "notice", val |-> 0]>>)
    BY <1>0, <1>2, <2>3, OneMore
  <2> QED BY <1>1, <2>1, <2>2, <2>3
<1> QED BY <1>1, <1>3, <1>4, <1>5, EventsKept

(* A row that is no longer in progress never is again. *)
LEMMA NeverReopened ==
    ASSUME LogInv, LogNext, NEW m \in DOMAIN row, m \in InProgress' PROVE m \in InProgress
<1>0. row'[m].status = "in_progress"
  BY DEF InProgress
<1>1. CASE StartSnapshot \/ Checkpoint
  <2>1. cur \in DOMAIN row /\ LogTyped
    BY <1>1 DEF StartSnapshot, Checkpoint, Stages, LogInv
  <2>2. StatusKept
    BY <1>1, <2>1, ColumnsKept DEF StartSnapshot, Checkpoint
  <2> QED BY <1>0, <2>2 DEF StatusKept, InProgress
<1>2. CASE NewTurn \/ ScaffoldNext
  <2>1. row'[m] = row[m]
    BY <1>2, RowAppend DEF NewTurn, ScaffoldNext, LogInv, LogTyped
  <2> QED BY <1>0, <2>1 DEF InProgress
<1>3. CASE HandOffFails
  BY <1>0, <1>3, Discarded DEF InProgress
<1>4. CASE SaveFinal \/ FoldDead
  <2>1. cur \in DOMAIN row /\ verdict \in Verdicts /\ LogTyped
    BY <1>4 DEF SaveFinal, FoldDead, Stages, LogTyped, LogInv
  <2>2. Settled(cur, verdict)
    BY <1>4, <2>1, SaveSettles
  <2>3. row'[cur].status = verdict /\ \A n \in DOMAIN row \ {cur} : row'[n] = row[n]
    BY <2>2 DEF Settled
  <2> QED BY <1>0, <2>1, <2>3 DEF InProgress, Verdicts
<1>5. CASE UNCHANGED row
  BY <1>5 DEF InProgress
<1> QED BY <1>1, <1>2, <1>3, <1>4, <1>5, RowKept

(* How a step changes what is logged: texts stay, only a turn in progress gains one, and no
   turn is taken up again. *)
TextsMove ==
    /\ \A m : \A i \in Texts(m) : i \in Texts(m)' /\ events'[i] = events[i]
    /\ \A m : m \in InProgress' \/ Alike(m)
    /\ \A m \in DOMAIN row : m \in InProgress' => m \in InProgress

LEMMA TextsStep ==
    ASSUME LogInv, LogNext PROVE TextsMove
<1>1. \A m \in DOMAIN row : m \in InProgress' => m \in InProgress
  BY NeverReopened
<1>2. CASE \A m : Alike(m)
  BY <1>1, <1>2 DEF TextsMove, Alike
<1>3. CASE /\ unflushed > 0 /\ Commit(Batch) /\ UNCHANGED <<row, cur, said>>
           /\ cur \in InProgress /\ said[cur] \in Nat /\ unflushed <= said[cur]
  <2>1. PICK c : c = cur
    OBVIOUS
  <2>2. /\ \A m : m # c => SameTexts(m)
        /\ \A i \in Texts(c) : i \in Texts(c)' /\ events'[i] = events[i]
    BY <1>3, <2>1, BatchLogged
  <2>3. \A m : m # c => Alike(m)
    BY <2>2 DEF SameTexts, Alike
  <2>4. c \in InProgress'
    BY <1>3, <2>1 DEF InProgress
  <2>5. \A m : \A i \in Texts(m) : i \in Texts(m)' /\ events'[i] = events[i]
    <3> SUFFICES ASSUME NEW m, NEW i \in Texts(m) PROVE i \in Texts(m)' /\ events'[i] = events[i]
      OBVIOUS
    <3>1. CASE m = c
      BY <2>2, <3>1
    <3>2. CASE m # c
      <4>1. Alike(m)
        BY <2>3, <3>2
      <4> QED BY <4>1 DEF Alike
    <3> QED BY <3>1, <3>2
  <2>6. \A m : m \in InProgress' \/ Alike(m)
    BY <2>3, <2>4
  <2> QED BY <1>1, <2>5, <2>6 DEF TextsMove
<1> QED BY <1>2, <1>3, TextsLogged

LEMMA TextsStill == ASSUME Still PROVE TextsMove /\ \A m : Alike(m)
<1>1. UNCHANGED <<events, row>>
  BY DEF Still
<1>2. \A m : Texts(m)' = Texts(m) /\ InProgress' = InProgress
  BY <1>1 DEF Texts, InProgress
<1> QED BY <1>1, <1>2 DEF TextsMove, Alike

LEMMA RepeatsMore == ASSUME TextsMove, NEW m, Repeats(m) PROVE Repeats(m)'
<1>1. PICK i \in Texts(m), j \in Texts(m) : i # j /\ events[i].val = events[j].val
  BY DEF Repeats
<1>2. /\ i \in Texts(m)' /\ events'[i] = events[i]
      /\ j \in Texts(m)' /\ events'[j] = events[j]
  BY DEF TextsMove
<1> QED BY <1>1, <1>2 DEF Repeats

(* The texts of a turn are logged in the order they were said, and a number remembered with
   items reaches every text that these are from.  Of a turn in progress Told says both. *)
Rises(m) == \A i, j \in Texts(m) : i < j => events[i].val < events[j].val
From(items, m, s) ==
    \A k \in DOMAIN items : items[k] = 0 \/ \E i \in Texts(m) : events[i].val = items[k] /\ i <= s
Risen == \A m \in DOMAIN row : m \in InProgress \/ Repeats(m) \/ Rises(m)
FinalRead ==
    \A m \in DOMAIN row : Final(m) => Repeats(m) \/ From(row[m].items, m, row[m].seq)

(* What the final save will number the row with: the task's last_seq is past every text it
   logged, or it is about to log a batch a second time. *)
Writing == {"streaming", "flushed", "finishing", "saved", "handing", "ending"}
LoggedBy(m, n, s) ==
    (\A i \in Texts(m) : i <= s) /\ \A k \in 1..n : \E i \in Texts(m) : events[i].val = k
Flushed ==
    pc \in Writing =>
        \/ Repeats(cur) \/ LoggedBy(cur, said[cur] - unflushed, lastSeq)
        \/ pc = "finishing" /\ unflushed > 0 /\ \E i \in Texts(cur) : events[i].val = said[cur]

ReadInv == Risen /\ FinalRead /\ Flushed

LEMMA InProgressTold ==
    ASSUME LogInv, Columns, TextInv, NEW m \in InProgress, ~Repeats(m)
    PROVE  \E c \in Nat : \E n \in Nat :
               /\ c <= n /\ n <= said[m] /\ HoldsFirst(m, c) /\ Ordered(m, n)
               /\ \A i \in Texts(m) : events[i].val <= c => i <= row[m].seq
               /\ m = cur /\ pc \in {"streaming", "flushed"} => n = said[m] - unflushed
<1>1. m \in DOMAIN row /\ said[m] \in Nat
  BY RowIndex DEF InProgress, LogInv
<1>2. PICK c \in Nat : HoldsFirst(m, c) /\ Whole(m, c)
  BY DEF TextInv, Told, ToldBy, Again
<1>3. PICK n \in c..said[m] :
        /\ Ordered(m, n) /\ \A i \in Texts(m) : events[i].val <= c => i <= row[m].seq
        /\ m = cur /\ pc \in {"streaming", "flushed"} => n = said[m] - unflushed
  BY <1>2 DEF Whole, InRun
<1> QED BY <1>1, <1>2, <1>3

LEMMA AllRise == ASSUME LogInv, Columns, TextInv, ReadInv, NEW m \in DOMAIN row, ~Repeats(m) PROVE Rises(m)
<1>1. CASE m \in InProgress
  BY <1>1, InProgressTold DEF Ordered, Rises
<1>2. CASE m \notin InProgress
  BY <1>2 DEF ReadInv, Risen
<1> QED BY <1>1, <1>2

LEMMA AllRead ==
    ASSUME LogInv, Columns, TextInv, ReadInv, NEW m \in DOMAIN row, row[m].status # "deleted", ~Repeats(m)
    PROVE  From(row[m].items, m, row[m].seq)
<1>1. CASE m \in InProgress
  <2>1. PICK c \in Nat, n \in Nat :
          /\ c <= n /\ HoldsFirst(m, c) /\ Ordered(m, n)
          /\ \A i \in Texts(m) : events[i].val <= c => i <= row[m].seq
    BY <1>1, InProgressTold
  <2>2. row[m].items = UpTo(c)
    BY <2>1 DEF HoldsFirst
  <2>3. \A k \in 1..c : k \in 1..n /\ k <= c /\ UpTo(c)[k] = k
    BY <2>1 DEF UpTo
  <2>4. \A k \in 1..c : \E i \in Texts(m) : events[i].val = k /\ i <= row[m].seq
    <3> SUFFICES ASSUME NEW k \in 1..c PROVE \E i \in Texts(m) : events[i].val = k /\ i <= row[m].seq
      OBVIOUS
    <3>1. PICK i \in Texts(m) : events[i].val = k
      BY <2>1, <2>3 DEF Ordered
    <3> QED BY <2>1, <2>3, <3>1
  <2>5. DOMAIN UpTo(c) = 1..c
    BY DEF UpTo
  <2> QED BY <2>2, <2>3, <2>4, <2>5 DEF From
<1>2. CASE m \notin InProgress
  <2>1. row[m].status \in Statuses
    BY RowParts DEF Columns
  <2>2. Final(m)
    BY <1>2, <2>1 DEF Final, Statuses, InProgress
  <2> QED BY <2>2 DEF ReadInv, FinalRead
<1> QED BY <1>1, <1>2

LEMMA RisenStep ==
    ASSUME LogInv, LogInv', Columns, TextInv, ReadInv, TextsMove PROVE Risen'
<1> SUFFICES ASSUME NEW m \in DOMAIN row', m \notin InProgress', ~Repeats(m)' PROVE Rises(m)'
  BY DEF Risen
<1>1. Alike(m) /\ ~Repeats(m)
  BY RepeatsMore DEF TextsMove
<1>2. CASE m \in DOMAIN row
  <2>1. Rises(m)
    BY <1>1, <1>2, AllRise
  <2> QED BY <1>1, <2>1 DEF Rises, Alike
<1>3. CASE m \notin DOMAIN row
  <2>1. Texts(m) = {}
    BY <1>3 DEF Texts, LogInv, LogTyped
  <2> QED BY <1>1, <2>1 DEF Rises, Alike
<1> QED BY <1>2, <1>3

(* The rows that are final stay as they read, and what a final save or a fold writes is read
   up to the number it is given. *)
LEMMA FinalReadKept ==
    ASSUME LogInv, LogInv', Columns, TextInv, ReadInv, TextsMove, NEW m \in DOMAIN row, Final(m)',
           row'[m] = row[m]
    PROVE  Repeats(m)' \/ From(row[m].items, m, row[m].seq)'
<1>1. Final(m) /\ Alike(m)
  BY DEF Final, TextsMove, InProgress, Verdicts
<1>2. CASE Repeats(m)
  BY <1>2, RepeatsMore
<1>3. CASE From(row[m].items, m, row[m].seq)
  BY <1>1, <1>3 DEF From, Alike
<1> QED BY <1>1, <1>2, <1>3 DEF ReadInv, FinalRead

(* The same of an entry that a step leaves as it is. *)
FromNext(items, m, s) ==
    \A k \in DOMAIN items : items[k] = 0 \/ \E i \in Texts(m)' : events'[i].val = items[k] /\ i <= s

LEMMA UpToRead ==
    ASSUME UNCHANGED events, NEW c, NEW n \in Nat, NEW v, NEW s,
           \A k \in 1..n : \E i \in Texts(c) : events[i].val = k /\ i <= s
    PROVE  FromNext(UpTo(n) \o NoteOf(v), c, s)
<1>1. Texts(c)' = Texts(c)
  BY DEF Texts
<1>2. CASE NoteOf(v) = <<>>
  <2>1. DOMAIN (UpTo(n) \o NoteOf(v)) = 1..n /\ \A k \in 1..n : (UpTo(n) \o NoteOf(v))[k] = k
    BY <1>2, UpToTypes DEF UpTo
  <2> QED BY <1>1, <2>1 DEF FromNext
<1>3. CASE NoteOf(v) = <<0>>
  <2>1. /\ DOMAIN (UpTo(n) \o NoteOf(v)) = 1..(n + 1)
        /\ \A k \in 1..(n + 1) : (UpTo(n) \o NoteOf(v))[k] = IF k <= n THEN k ELSE 0
    BY <1>3, UpToTypes DEF UpTo
  <2>2. \A k \in 1..(n + 1) : k <= n => k \in 1..n
    OBVIOUS
  <2> QED BY <1>1, <2>1, <2>2 DEF FromNext
<1> QED BY <1>2, <1>3 DEF NoteOf

LEMMA FinalReadStep ==
    ASSUME LogInv, LogInv', Columns, TextInv, ReadInv, TextsMove, LogNext PROVE FinalRead'
<1>0. /\ row \in Seq(Row) /\ DOMAIN row = 1..Len(row) /\ Len(row) \in Nat /\ DOMAIN said = DOMAIN row
      /\ pc \in {"starting", "streaming", "flushed", "finishing", "dead"} => cur \in DOMAIN row
      /\ pc \in {"starting", "streaming", "flushed"} => row[cur].status = "in_progress"
  BY RowIndex DEF LogInv, Stages, Columns
<1>1. CASE StartSnapshot \/ Checkpoint
  <2>1. /\ cur \in DOMAIN row /\ row[cur].status = "in_progress" /\ DOMAIN row' = DOMAIN row
        /\ row'[cur].status = row[cur].status
        /\ \A m \in DOMAIN row \ {cur} : row'[m] = row[m]
    BY <1>0, <1>1, RowsWritten DEF StartSnapshot, Checkpoint
  <2> SUFFICES ASSUME NEW m \in DOMAIN row, Final(m)' PROVE Repeats(m)' \/ From(row[m].items, m, row[m].seq)'
    BY <2>1 DEF FinalRead
  <2>2. m # cur
    BY <2>1 DEF Final, Verdicts
  <2> QED BY <2>1, <2>2, FinalReadKept
<1>2. CASE NewTurn \/ ScaffoldNext
  <2>1. /\ DOMAIN row' = DOMAIN row \cup {Len(row) + 1} /\ \A m \in DOMAIN row : row'[m] = row[m]
        /\ row'[Len(row) + 1].status = "in_progress"
    BY <1>2, RowAppend DEF NewTurn, ScaffoldNext, LogInv, LogTyped
  <2> SUFFICES ASSUME NEW m \in DOMAIN row', Final(m)' PROVE Repeats(m)' \/ From(row[m].items, m, row[m].seq)'
    BY DEF FinalRead
  <2>2. m \in DOMAIN row
    BY <2>1 DEF Final, Verdicts
  <2> QED BY <2>1, <2>2, FinalReadKept
<1>3. CASE HandOffFails
  <2>1. /\ DOMAIN row' = DOMAIN row /\ row'[Len(row)].status = "deleted"
        /\ \A m \in DOMAIN row \ {Len(row)} : row'[m] = row[m]
    BY <1>3, Discarded
  <2> SUFFICES ASSUME NEW m \in DOMAIN row, Final(m)' PROVE Repeats(m)' \/ From(row[m].items, m, row[m].seq)'
    BY <2>1 DEF FinalRead
  <2>2. m # Len(row)
    BY <2>1 DEF Final, Verdicts
  <2> QED BY <2>1, <2>2, FinalReadKept
<1>4. CASE SaveFinal \/ FoldDead
  <2>1. PICK c : c = cur
    OBVIOUS
  <2>2. PICK v : v = verdict
    OBVIOUS
  <2>3. /\ c \in DOMAIN row /\ DOMAIN row' = DOMAIN row /\ UNCHANGED <<events, said>>
        /\ \A m \in DOMAIN row \ {c} : row'[m] = row[m]
        /\ said[c] \in Nat /\ row[c].seq \in Nat /\ row[c].items \in Seq(Nat)
        /\ events \in Seq(Event) /\ live \subseteq DOMAIN events /\ lastSeq \in Nat
        /\ \A i \in DOMAIN events : i \in Nat
    BY <1>0, <1>4, <2>1, RowsWritten, RowIndex, RowParts, EventTypes
       DEF SaveFinal, FoldDead, LogInv, Columns
  <2>4. \A i \in Texts(c) : i \in Nat
    BY <2>3 DEF Texts
  <2> SUFFICES ASSUME NEW m \in DOMAIN row, Final(m)' PROVE Repeats(m)' \/ From(row[m].items, m, row[m].seq)'
    BY <2>3 DEF FinalRead
  <2>5. CASE m # c
    BY <2>3, <2>5, FinalReadKept
  <2>6. CASE Repeats(c) /\ m = c
    BY <2>6, RepeatsMore
  <2>7. CASE m = c /\ ~Repeats(c) /\ SaveFinal
    <3>1. row'[c].items = UpTo(said[c]) \o NoteOf(v) /\ row'[c].seq = Larger(row[c].seq, lastSeq)
      <4>1. row'[cur] = [status |-> verdict, items |-> UpTo(said[cur]) \o NoteOf(verdict),
                         seq |-> Larger(row[cur].seq, lastSeq)]
        BY <2>7, RowsWritten
      <4> QED BY <2>1, <2>2, <4>1
    <3>2. LoggedBy(c, said[c], lastSeq)
      <4>1. pc = "finishing" /\ unflushed = 0
        BY <2>7 DEF SaveFinal
      <4>2. said[cur] - unflushed = said[c]
        BY <2>1, <2>3, <4>1
      <4> QED BY <2>1, <2>7, <4>1, <4>2 DEF ReadInv, Flushed, Writing
    <3> DEFINE s == Larger(row[c].seq, lastSeq)
    <3>3. s \in Nat /\ lastSeq <= s
      BY <2>3, LargerIsOne
    <3> HIDE DEF s
    <3>4. \A k \in 1..said[c] : \E i \in Texts(c) : events[i].val = k /\ i <= s
      <4> SUFFICES ASSUME NEW k \in 1..said[c] PROVE \E i \in Texts(c) : events[i].val = k /\ i <= s
        OBVIOUS
      <4>1. PICK i \in Texts(c) : events[i].val = k /\ i <= lastSeq
        BY <3>2 DEF LoggedBy
      <4>2. i \in Nat
        BY <2>4
      <4>3. i <= s
        BY <2>3, <3>3, <4>1, <4>2
      <4> QED BY <4>1, <4>3
    <3>5. FromNext(UpTo(said[c]) \o NoteOf(v), c, s)
      <4>1. PICK n \in Nat : n = said[c]
        BY <2>3
      <4>2. \A k \in 1..n : \E i \in Texts(c) : events[i].val = k /\ i <= s
        BY <3>4, <4>1
      <4>3. FromNext(UpTo(n) \o NoteOf(v), c, s)
        BY <2>3, <4>2, UpToRead
      <4> QED BY <4>1, <4>3
    <3>6. row'[c].seq = s
      BY <3>1 DEF s
    <3> QED BY <2>7, <3>1, <3>5, <3>6 DEF From, FromNext
  <2>8. CASE m = c /\ ~Repeats(c) /\ FoldDead
    <3> DEFINE after == TextsAfter(c, row[c].seq)
    <3>1. row'[c].items = (row[c].items \o after) \o NoteOf(v) /\ row'[c].seq = LastLive(c)
      <4>1. row'[cur] = [status |-> verdict, items |-> Folded(cur) \o NoteOf(verdict), seq |-> LastLive(cur)]
        BY <2>8, RowsWritten
      <4>2. row'[c].items = Folded(c) \o NoteOf(v) /\ row'[c].seq = LastLive(c)
        BY <2>1, <2>2, <4>1
      <4> QED BY <4>2 DEF Folded
    <3>2. c \in InProgress
      BY <2>1, <2>3, <2>8 DEF FoldDead, InProgress
    <3>3. PICK k \in Nat, n \in Nat :
            /\ k <= n /\ HoldsFirst(c, k) /\ Ordered(c, n)
            /\ \A i \in Texts(c) : events[i].val <= k => i <= row[c].seq
      BY <2>8, <3>2, InProgressTold
    <3>4. after = [j \in 1..(n - k) |-> k + j]
      <4>1. HoldsFirst(c, k) /\ Ordered(c, n) /\ \A i \in Texts(c) : events[i].val <= k => i <= row[c].seq
        BY <3>3
      <4>2. /\ k \in Nat /\ n \in Nat /\ k <= n /\ row[c].seq \in Nat
            /\ events \in Seq(Event) /\ live \subseteq DOMAIN events
        BY <2>3, <3>3
      <4> HIDE DEF after
      <4>3. TextsAfter(c, row[c].seq) = [j \in 1..(n - k) |-> k + j]
        BY <4>1, <4>2, LogGoesOn
      <4> QED BY <4>3 DEF after
    <3>5. row[c].items \o after = UpTo(n)
      BY <3>3, <3>4, UpToGoesOn DEF HoldsFirst
    <3>6. row'[c].items = UpTo(n) \o NoteOf(v)
      BY <3>1, <3>5
    <3> DEFINE s == LastLive(c)
    <3>7. \A i \in Texts(c) : i <= s
      BY <2>3, <2>4, <3>3, LastLiveTypes DEF HoldsFirst, Texts
    <3> HIDE DEF s
    <3>8. \A l \in 1..n : \E i \in Texts(c) : events[i].val = l /\ i <= s
      BY <3>3, <3>7 DEF Ordered
    <3>9. FromNext(UpTo(n) \o NoteOf(v), c, s)
      <4>1. UNCHANGED events
        BY <2>3
      <4> QED BY <3>8, <4>1, UpToRead
    <3>10. row'[c].seq = s
      BY <3>1 DEF s
    <3> QED BY <2>8, <3>6, <3>9, <3>10 DEF From, FromNext
  <2> QED BY <1>4, <2>5, <2>6, <2>7, <2>8
<1>5. CASE UNCHANGED row
  <2> SUFFICES ASSUME NEW m \in DOMAIN row, Final(m)' PROVE Repeats(m)' \/ From(row[m].items, m, row[m].seq)'
    BY <1>5 DEF FinalRead
  <2> QED BY <1>5, FinalReadKept
<1> QED BY <1>1, <1>2, <1>3, <1>4, <1>5, RowKept

LEMMA FlushedCalm ==
    ASSUME Flushed, \A m : Alike(m), cur' = cur, said'[cur] = said[cur], unflushed' = unflushed,
           lastSeq \in Nat, lastSeq' \in Nat, lastSeq <= lastSeq', DOMAIN events \subseteq Nat,
           pc' \in Writing => pc \in Writing /\ (pc = "finishing" /\ unflushed > 0 => pc' = "finishing")
    PROVE  Flushed'
<1> SUFFICES ASSUME pc' \in Writing
    PROVE  \/ Repeats(cur)' \/ LoggedBy(cur, said[cur] - unflushed, lastSeq)'
           \/ /\ pc' = "finishing" /\ unflushed' > 0
              /\ \E i \in Texts(cur)' : events'[i].val = said'[cur]
  BY DEF Flushed
<1>1. PICK c : c = cur /\ c = cur'
  OBVIOUS
<1>2. Alike(c) /\ \A i \in Texts(c) : i \in Nat
  BY DEF Texts
<1>3. CASE Repeats(c)
  <2>1. Repeats(c)'
    BY <1>2, <1>3 DEF Alike, Repeats
  <2> QED BY <1>1, <2>1
<1>4. CASE LoggedBy(c, said[c] - unflushed, lastSeq)
  <2>1. LoggedBy(c, said[c] - unflushed, lastSeq)'
    <3>1. \A i \in Texts(c) : i <= lastSeq'
      BY <1>2, <1>4 DEF LoggedBy
    <3> QED BY <1>1, <1>2, <1>4, <3>1 DEF Alike, LoggedBy
  <2> QED BY <1>1, <2>1
<1>5. CASE pc = "finishing" /\ unflushed > 0 /\ \E i \in Texts(c) : events[i].val = said[c]
  <2>1. \E i \in Texts(c)' : events'[i].val = said'[c]
    BY <1>1, <1>2, <1>5 DEF Alike
  <2> QED BY <1>1, <1>5, <2>1
<1> QED BY <1>1, <1>3, <1>4, <1>5 DEF Flushed

LEMMA FlushedUntold ==
    ASSUME NEW c, c = cur, c = cur', Untold(c), unflushed' = 0, UNCHANGED <<events, said>>
    PROVE  Flushed'
<1>1. Texts(c)' = {} /\ said'[c] = 0
  BY DEF Untold, Texts
<1>2. LoggedBy(c, said[c] - unflushed, lastSeq)'
  BY <1>1 DEF LoggedBy
<1> QED BY <1>2 DEF Flushed

LEMMA FlushedBatch ==
    ASSUME LogInv, LogInv', Columns, TextInv, Flushed, TextsMove,
           Flush \/ FinalFlush \/ (CutShort /\ pc = "streaming"), unflushed > 0, Commit(Batch),
           UNCHANGED <<row, cur, said>>, cur \in InProgress, said[cur] \in Nat, unflushed <= said[cur]
    PROVE  Flushed'
<1>1. PICK c : c = cur /\ c = cur'
  OBVIOUS
<1>2. PICK n \in Nat : n = said[c] /\ n = said'[c]
  BY <1>1
<1>3. /\ Len(events') = Len(events) + unflushed
      /\ \A i \in Texts(c) : i \in Texts(c)' /\ events'[i] = events[i]
      /\ \A i \in Texts(c)' : i \in Texts(c) \/ \E k \in 1..unflushed : i = Len(events) + k
      /\ \A k \in 1..unflushed :
           Len(events) + k \in Texts(c)' /\ events'[Len(events) + k].val = n - unflushed + k
  BY <1>1, <1>2, BatchLogged
<1>4. /\ unflushed \in Nat /\ unflushed \in 1..unflushed /\ n - unflushed + unflushed = n
      /\ unflushed <= n /\ Len(events) \in Nat
      /\ \A i \in Texts(c) : i \in Nat /\ i <= Len(events)
  <2>1. unflushed \in Nat /\ unflushed <= n
    BY <1>1, <1>2 DEF LogInv, LogTyped
  <2>2. Len(events) \in Nat /\ \A i \in Texts(c) : i \in Nat /\ i <= Len(events)
    BY EventTypes DEF Texts
  <2> QED BY <2>1, <2>2
<1>5. Len(events) + unflushed \in Texts(c)' /\ events'[Len(events) + unflushed].val = n
  BY <1>3, <1>4
<1>6. CASE CutShort /\ pc = "streaming"
  <2>1. pc' = "finishing" /\ unflushed' = unflushed
    BY <1>6 DEF CutShort
  <2> QED BY <1>1, <1>2, <1>4, <1>5, <2>1 DEF Flushed
<1>7. CASE Flush \/ FinalFlush
  <2>1. unflushed' = 0 /\ lastSeq' = Len(events) + unflushed /\ pc \in Writing
    BY <1>7 DEF Flush, FinalFlush, FlushAt, Writing
  <2>2. CASE Repeats(c)
    <3>1. Repeats(c)'
      BY <2>2, RepeatsMore
    <3> QED BY <1>1, <3>1 DEF Flushed
  <2>3. CASE LoggedBy(c, n - unflushed, lastSeq)
    <3>1. \A i \in Texts(c)' : i <= lastSeq'
      <4> SUFFICES ASSUME NEW i \in Texts(c)' PROVE i <= Len(events) + unflushed
        BY <2>1
      <4> QED BY <1>3, <1>4
    <3>2. \A k \in 1..n : \E i \in Texts(c)' : events'[i].val = k
      <4> SUFFICES ASSUME NEW k \in 1..n PROVE \E i \in Texts(c)' : events'[i].val = k
        OBVIOUS
      <4>1. CASE k \in 1..(n - unflushed)
        <5>1. PICK i \in Texts(c) : events[i].val = k
          BY <2>3, <4>1 DEF LoggedBy
        <5> QED BY <1>3, <5>1
      <4>2. CASE k > n - unflushed
        <5>1. /\ k - (n - unflushed) \in 1..unflushed
              /\ n - unflushed + (k - (n - unflushed)) = k
          BY <1>4, <4>2
        <5> QED BY <1>3, <5>1
      <4> QED BY <1>4, <4>1, <4>2
    <3>3. said'[c] - unflushed' = n
      BY <1>2, <2>1
    <3>4. LoggedBy(c, said[c] - unflushed, lastSeq)'
      BY <3>1, <3>2, <3>3 DEF LoggedBy
    <3> QED BY <1>1, <3>4 DEF Flushed
  <2>4. CASE \E i \in Texts(c) : events[i].val = n
    <3>1. PICK i \in Texts(c) : events[i].val = n
      BY <2>4
    <3>2. /\ i \in Texts(c)' /\ events'[i].val = n /\ i # Len(events) + unflushed
      BY <1>3, <1>4, <3>1
    <3>3. Repeats(c)'
      BY <1>5, <3>2 DEF Repeats
    <3> QED BY <1>1, <3>3 DEF Flushed
  <2> QED BY <1>1, <1>2, <2>1, <2>2, <2>3, <2>4 DEF Flushed
<1> QED BY <1>6, <1>7

LEMMA FlushedStep ==
    ASSUME LogInv, LogInv', Columns, Columns', TextInv, ReadInv, TextsMove, LogNext PROVE Flushed'
<1>0. /\ lastSeq \in Nat /\ lastSeq' \in Nat /\ lastSeq <= Len(events) /\ Len(events) \in Nat
      /\ DOMAIN events \subseteq Nat /\ Flushed /\ DOMAIN said = DOMAIN row /\ said \in Seq(Nat)
      /\ pc \notin {"idle", "reconciling"} => cur \in DOMAIN row
      /\ pc = "streaming" => unflushed <= said[cur] /\ said[cur] \in Nat
      /\ unflushed \in Nat
      /\ pc \in {"booting", "starting"} => Untold(cur) /\ unflushed = 0
  <2>1. DOMAIN events \subseteq Nat /\ Len(events) \in Nat
    BY EventTypes
  <2>2. pc = "streaming" => unflushed <= said[cur] /\ said[cur] \in Nat
    BY RowIndex DEF LogInv, Stages, InRun
  <2> QED BY <2>1, <2>2, RowIndex DEF LogInv, LogTyped, Stages, Columns, TextInv, Numbered, Silence, ReadInv
<1>1. CASE \/ NewTurn \/ Start \/ HandOff \/ StartNext \/ Terminal \/ FailEarly \/ FoldDead \/ AlreadyFinal
           \/ DeadTerminal \/ FinalizeFails \/ TaskCancelled \/ Crash \/ Exit \/ Reconcile \/ Serve
  <2>1. pc' \notin Writing
    BY <1>1 DEF Writing, NewTurn, Start, HandOff, StartNext, Terminal, FailEarly, FoldDead, AlreadyFinal,
                DeadTerminal, FinalizeFails, TaskCancelled, Crash, Exit, Boot, Reconcile, Serve, AfterDead
  <2> QED BY <2>1 DEF Flushed
<1>2. CASE StartSnapshot \/ (DbFails /\ pc \in {"booting", "starting"})
  <2>1. pc \in {"booting", "starting"} /\ UNCHANGED <<cur, events, said, unflushed>>
    BY <1>2 DEF StartSnapshot, DbFails
  <2>2. PICK c : c = cur /\ c = cur'
    BY <2>1
  <2> QED BY <1>0, <2>1, <2>2, FlushedUntold
<1>3. CASE Say
  <2>1. /\ UNCHANGED <<pc, cur, events, lastSeq>> /\ pc = "streaming" /\ unflushed' = unflushed + 1
        /\ said' = [said EXCEPT ![cur] = @ + 1]
    BY <1>3 DEF Say
  <2>2. PICK c : c = cur /\ c = cur'
    BY <2>1
  <2>3. said'[c] - unflushed' = said[c] - unflushed
    BY <1>0, <2>1, <2>2
  <2>4. Texts(c)' = Texts(c)
    BY <2>1 DEF Texts
  <2>5. Repeats(c) \/ LoggedBy(c, said[c] - unflushed, lastSeq)
    BY <1>0, <2>1, <2>2 DEF Flushed, Writing
  <2>6. Repeats(c)' \/ LoggedBy(c, said[c] - unflushed, lastSeq)'
    BY <2>1, <2>3, <2>4, <2>5 DEF Repeats, LoggedBy
  <2> QED BY <2>2, <2>6 DEF Flushed
<1>4. CASE /\ Flush \/ FinalFlush \/ (CutShort /\ pc = "streaming")
           /\ unflushed > 0 /\ Commit(Batch) /\ UNCHANGED <<row, cur, said>>
           /\ cur \in InProgress /\ said[cur] \in Nat /\ unflushed <= said[cur]
  BY <1>0, <1>4, FlushedBatch
<1>5. CASE /\ \A m : Alike(m)
           /\ \/ Checkpoint \/ SkipCheckpoint \/ SaveFinal \/ NoneQueued \/ ScaffoldNext \/ Notify
              \/ (\E v \in Verdicts : Finish(v)) \/ HandOffFails \/ Shutdown \/ PublishNext \/ PublishLost
              \/ CutShort \/ (DbFails /\ pc \notin {"booting", "starting"})
  <2>1. /\ UNCHANGED <<cur, unflushed>> /\ lastSeq' \in {lastSeq, Len(events) + 1}
        /\ pc' \in Writing => pc \in Writing /\ (pc = "finishing" /\ unflushed > 0 => pc' = "finishing")
    BY <1>5 DEF Writing, Checkpoint, SkipCheckpoint, SaveFinal, NoneQueued, ScaffoldNext, Notify, Finish,
                HandOffFails, Shutdown, PublishNext, PublishLost, CutShort, DbFails, Emit
  <2>2. pc' \notin Writing \/ said'[cur] = said[cur]
    <3>1. CASE ScaffoldNext
      <4>1. cur \in DOMAIN said /\ said' = Append(said, 0)
        BY <1>0, <3>1 DEF ScaffoldNext, NewRow
      <4> QED BY <1>0, <4>1
    <3>2. CASE ~ScaffoldNext
      BY <1>5, <3>2 DEF Checkpoint, SkipCheckpoint, SaveFinal, NoneQueued, Notify, Finish, HandOffFails,
                        Shutdown, PublishNext, PublishLost, CutShort, DbFails
    <3> QED BY <3>1, <3>2
  <2>3. lastSeq <= lastSeq'
    BY <1>0, <2>1
  <2>4. CASE pc' \notin Writing
    BY <2>4 DEF Flushed
  <2>5. CASE said'[cur] = said[cur]
    BY <1>0, <1>5, <2>1, <2>3, <2>5, FlushedCalm
  <2> QED BY <2>2, <2>4, <2>5
<1>6. CASE \A m : Alike(m)
  <2>1. CASE Flush \/ FinalFlush
    <3>1. /\ unflushed > 0 /\ Commit(Batch) /\ UNCHANGED <<row, cur, said>>
          /\ pc \in {"streaming", "finishing"}
      BY <2>1 DEF Flush, FinalFlush, FlushAt
    <3>2. cur \in InProgress /\ said[cur] \in Nat /\ unflushed <= said[cur]
      BY <1>0, <3>1, RowIndex DEF LogInv, Stages, InProgress, InRun
    <3> QED BY <1>0, <2>1, <3>1, <3>2, FlushedBatch
  <2> QED BY <1>1, <1>2, <1>3, <1>5, <1>6, <2>1 DEF LogNext, WriterStep, TaskStep, AgentStep, FaultStep
<1> QED BY <1>4, <1>6, TextsLogged

LEMMA ReadStep ==
    ASSUME LogFacts, LogFacts', ReadInv, [Next]_vars PROVE ReadInv' /\ TextsMove
<1>0. /\ LogInv /\ LogInv' /\ Columns /\ Columns' /\ TextInv /\ faults \in Nat
  BY DEF LogFacts, Columns
<1>1. LogNext \/ Still
  <2>1. CASE Next
    BY <1>0, <2>1, StepOfLog
  <2>2. CASE UNCHANGED vars
    BY <2>2, StillStutters DEF vars
  <2> QED BY <2>1, <2>2
<1>2. CASE LogNext
  <2>1. TextsMove
    BY <1>0, <1>2, TextsStep
  <2> QED BY <1>0, <1>2, <2>1, RisenStep, FinalReadStep, FlushedStep DEF ReadInv
<1>3. CASE Still
  <2>1. TextsMove /\ \A m : Alike(m)
    BY <1>3, TextsStill
  <2>2. UNCHANGED <<pc, cur, said, unflushed, lastSeq, row>>
    BY <1>3 DEF Still
  <2>3. Risen'
    BY <1>0, <2>1, RisenStep
  <2>4. FinalRead'
    <3> SUFFICES ASSUME NEW m \in DOMAIN row, Final(m)' PROVE Repeats(m)' \/ From(row[m].items, m, row[m].seq)'
      BY <2>2 DEF FinalRead
    <3> QED BY <1>0, <2>1, <2>2, FinalReadKept
  <2>5. Flushed'
    <3>1. DOMAIN events \subseteq Nat /\ lastSeq \in Nat
      BY <1>0, EventTypes DEF Columns
    <3>2. lastSeq' = lastSeq /\ lastSeq <= lastSeq
      BY <2>2, <3>1
    <3> QED BY <2>1, <2>2, <3>1, <3>2, FlushedCalm DEF ReadInv
  <2> QED BY <2>1, <2>3, <2>4, <2>5 DEF ReadInv
<1> QED BY <1>1, <1>2, <1>3

LEMMA ReadInit == FeedInit => ReadInv
<1> SUFFICES ASSUME FeedInit PROVE ReadInv
  OBVIOUS
<1>1. row = <<>> /\ pc = "idle"
  BY DEF FeedInit, Init
<1> QED BY <1>1 DEF ReadInv, Risen, FinalRead, Flushed, Writing

-----------------------------------------------------------------------------
(* What is on screen *)

(* A render that tells the turn in order, and of one that runs from its first text on;
   where a batch was logged twice nothing is asked of it. *)
Rising(items) ==
    \A j, k \in DOMAIN items : j < k /\ items[j] # 0 /\ items[k] # 0 => items[j] < items[k]
Faithful(items, m) ==
    Repeats(m) \/ (Rising(items) /\ (m \in InProgress => items = UpTo(Len(items))))
Read(entry, m) == Repeats(m) \/ From(entry.items, m, entry.seq)

FaithfulNext(items, m) ==
    Repeats(m)' \/ (Rising(items) /\ (m \in InProgress' => items = UpTo(Len(items))))
ReadNext(entry, m) == Repeats(m)' \/ FromNext(entry.items, m, entry.seq)

LEMMA FaithfulStays ==
    ASSUME TextsMove, NEW m \in DOMAIN row, NEW items, Faithful(items, m) PROVE FaithfulNext(items, m)
<1>1. m \in InProgress' => m \in InProgress
  BY DEF TextsMove
<1> QED BY <1>1, RepeatsMore DEF Faithful, FaithfulNext

LEMMA FromStays ==
    ASSUME TextsMove, NEW m, NEW items, NEW s, From(items, m, s) PROVE FromNext(items, m, s)
BY DEF TextsMove, From, FromNext

LEMMA ReadStays ==
    ASSUME TextsMove, NEW m, NEW entry, Read(entry, m) PROVE ReadNext(entry, m)
<1>1. CASE Repeats(m)
  BY <1>1, RepeatsMore DEF ReadNext
<1>2. CASE From(entry.items, m, entry.seq)
  <2>1. FromNext(entry.items, m, entry.seq)
    BY <1>2, FromStays
  <2> QED BY <2>1 DEF ReadNext
<1> QED BY <1>1, <1>2 DEF Read

(* The text of a render rises as the render does. *)
LEMMA TextRises ==
    ASSUME NEW items \in Seq(Nat)
    PROVE  Rising(items) <=>
               \A j, k \in DOMAIN TextOf(items) : j < k => TextOf(items)[j] < TextOf(items)[k]
<1> DEFINE I == {k \in DOMAIN items : items[k] # 0}
           n == Cardinality(I)
           at == InOrder(I)
           text == TextOf(items)
<1>1. /\ n \in Nat /\ DOMAIN text = 1..n
      /\ \A k \in 1..n : at[k] \in I /\ text[k] = items[at[k]]
      /\ \A j, k \in 1..n : j < k => at[j] < at[k]
      /\ \A i \in I : \E k \in 1..n : at[k] = i /\ text[k] = items[i]
  <2>1. I \subseteq DOMAIN items /\ text = Picked(items, I)
    BY DEF TextOf
  <2> HIDE DEF I
  <2> QED BY <2>1, PickedLists
<1>2. \A i \in I : i \in DOMAIN items /\ items[i] # 0 /\ i \in Nat
  OBVIOUS
<1>3. \A i \in DOMAIN items : items[i] # 0 => i \in I
  OBVIOUS
<1> HIDE DEF I, n, at, text
<1>4. ASSUME Rising(items), NEW j \in 1..n, NEW k \in 1..n, j < k PROVE text[j] < text[k]
  BY <1>1, <1>2, <1>4 DEF Rising
<1>5. ASSUME \A j, k \in 1..n : j < k => text[j] < text[k],
             NEW j \in DOMAIN items, NEW k \in DOMAIN items, j < k, items[j] # 0, items[k] # 0
      PROVE  items[j] < items[k]
  <2>1. PICK a \in 1..n : at[a] = j /\ text[a] = items[j]
    BY <1>1, <1>3, <1>5
  <2>2. PICK b \in 1..n : at[b] = k /\ text[b] = items[k]
    BY <1>1, <1>3, <1>5
  <2>3. a \in Nat /\ b \in Nat /\ j \in Nat /\ k \in Nat
    BY <1>1, <1>2, <1>3, <1>5
  <2>4. a < b
    <3>1. a # b
      BY <1>5, <2>1, <2>2, <2>3
    <3>2. ~(b < a)
      BY <1>1, <1>5, <2>1, <2>2, <2>3
    <3> QED BY <2>3, <3>1, <3>2
  <2> QED BY <1>5, <2>1, <2>2, <2>4
<1> QED BY <1>1, <1>4, <1>5 DEF Rising, text

LEMMA RisingMore ==
    ASSUME NEW items \in Seq(Nat), Rising(items), NEW val \in Nat,
           val = 0 \/ \A k \in DOMAIN items : items[k] = 0 \/ items[k] < val
    PROVE  Rising(Append(items, val))
<1> DEFINE new == Append(items, val)
<1>1. /\ DOMAIN new = 1..(Len(items) + 1) /\ new[Len(items) + 1] = val /\ Len(items) \in Nat
      /\ DOMAIN items = 1..Len(items) /\ \A k \in DOMAIN items : new[k] = items[k]
  OBVIOUS
<1> HIDE DEF new
<1> SUFFICES ASSUME NEW j \in 1..(Len(items) + 1), NEW k \in 1..(Len(items) + 1), j < k,
                    new[j] # 0, new[k] # 0
    PROVE  new[j] < new[k]
  BY <1>1 DEF Rising, new
<1>2. j \in DOMAIN items /\ new[j] = items[j]
  BY <1>1
<1>3. CASE k \in DOMAIN items
  BY <1>1, <1>2, <1>3 DEF Rising
<1>4. CASE k = Len(items) + 1
  BY <1>1, <1>2, <1>4
<1> QED BY <1>1, <1>3, <1>4

LEMMA UpToRises == \A n \in Nat : Rising(UpTo(n)) /\ Len(UpTo(n)) = n
BY UpToTypes DEF Rising, UpTo

(* A render is told from its first text, in order, and from the events that its row has the
   number of. *)
LEMMA RowFaithful ==
    ASSUME LogFacts, ReadInv, NEW m \in DOMAIN row, row[m].status # "deleted"
    PROVE  Faithful(row[m].items, m) /\ Read(row[m], m)
<1>0. LogInv /\ Columns /\ TextInv /\ row[m].items \in Seq(Nat) /\ row[m].status \in Statuses
  BY RowParts DEF LogFacts, Columns
<1>1. Read(row[m], m)
  BY <1>0, AllRead DEF Read
<1>2. CASE m \in InProgress /\ ~Repeats(m)
  <2>1. PICK c \in Nat : HoldsFirst(m, c)
    BY <1>0, <1>2, InProgressTold
  <2>2. row[m].items = UpTo(c)
    BY <2>1 DEF HoldsFirst
  <2> QED BY <1>1, <2>2, UpToRises DEF Faithful
<1>3. CASE m \notin InProgress /\ ~Repeats(m)
  <2>1. Final(m)
    BY <1>0, <1>3 DEF Final, Statuses, InProgress
  <2>2. PICK n \in Nat : TextOf(row[m].items) = UpTo(n)
    BY <1>0, <1>3, <2>1 DEF TextInv, AllHeld, HoldsAll
  <2>3. \A j, k \in 1..n : j < k => UpTo(n)[j] < UpTo(n)[k]
    BY DEF UpTo
  <2>4. DOMAIN UpTo(n) = 1..n
    BY DEF UpTo
  <2>5. PICK items : items = row[m].items
    OBVIOUS
  <2>6. Rising(items)
    BY <1>0, <2>2, <2>3, <2>4, <2>5, TextRises
  <2> QED BY <1>1, <1>3, <2>5, <2>6 DEF Faithful
<1>4. CASE Repeats(m)
  BY <1>1, <1>4 DEF Faithful
<1> QED BY <1>2, <1>3, <1>4

(* The entries on screen and in the cache, and those of a page under way, are faithful, but
   for turns on screen early.  An entry from a page is read up to its number, and the turn on
   screen up to the cursor. *)
EntriesFaithful(msgs) == \A m \in DOMAIN msgs \ early : Faithful(msgs[m].items, m)
RowsFaithful(rows) ==
    \A m \in DOMAIN rows :
        rows[m].status # "deleted" => Faithful(rows[m].items, m) /\ Read(rows[m], m)
CacheRead == \A m \in DOMAIN cache \ ended : m # stream => Read(cache[m], m)
Applied ==
    stream # 0 /\ stream \notin early =>
        Repeats(stream) \/ From(shown[stream].items, stream, cursor)
Screen ==
    /\ EntriesFaithful(shown) /\ EntriesFaithful(cache) /\ CacheRead /\ Applied
    /\ fetch # NoFetch => RowsFaithful(fetch[1])

EntriesNext(msgs) == \A m \in DOMAIN msgs \ early' : FaithfulNext(msgs[m].items, m)

LEMMA SameEntries ==
    ASSUME TextsMove, early \subseteq early', NEW msgs, DOMAIN msgs \subseteq DOMAIN row, EntriesFaithful(msgs)
    PROVE  EntriesNext(msgs)
<1> SUFFICES ASSUME NEW m \in DOMAIN msgs, m \notin early' PROVE FaithfulNext(msgs[m].items, m)
  BY DEF EntriesNext
<1>1. m \in DOMAIN row /\ Faithful(msgs[m].items, m)
  BY DEF EntriesFaithful
<1> QED BY <1>1, FaithfulStays

LEMMA BlankFaithful == \A m : FaithfulNext(<<>>, m)
<1>1. <<>> = UpTo(Len(<<>>)) /\ Rising(<<>>)
  BY DEF UpTo, Rising
<1> QED BY <1>1 DEF FaithfulNext

LEMMA WithRowNext ==
    ASSUME NEW msgs, EntriesNext(msgs), NEW k, NEW entry, k \in early' \/ FaithfulNext(entry.items, k)
    PROVE  EntriesNext(WithRow(msgs, k, entry))
<1>1. /\ DOMAIN WithRow(msgs, k, entry) = DOMAIN msgs \cup {k}
      /\ \A m \in DOMAIN msgs : WithRow(msgs, k, entry)[m] = msgs[m]
      /\ k \notin DOMAIN msgs => WithRow(msgs, k, entry)[k] = entry
  BY WithRowHolds
<1> SUFFICES ASSUME NEW m \in DOMAIN msgs \cup {k}, m \notin early'
    PROVE  FaithfulNext(WithRow(msgs, k, entry)[m].items, m)
  BY <1>1 DEF EntriesNext
<1>2. CASE m \in DOMAIN msgs
  BY <1>1, <1>2 DEF EntriesNext
<1>3. CASE m \notin DOMAIN msgs
  BY <1>1, <1>3
<1> QED BY <1>2, <1>3

LEMMA SetNext ==
    ASSUME NEW msgs, EntriesNext(msgs), NEW k, NEW entry, k \in early' \/ FaithfulNext(entry.items, k)
    PROVE  EntriesNext(Set(msgs, k, entry))
BY SetHolds DEF EntriesNext

LEMMA MissingNext ==
    ASSUME NEW msgs, NEW page, EntriesNext(msgs), EntriesNext(page) PROVE EntriesNext(Missing(msgs, page))
<1>1. /\ DOMAIN Missing(msgs, page) = DOMAIN msgs \cup DOMAIN page
      /\ \A m \in DOMAIN msgs : Missing(msgs, page)[m] = msgs[m]
      /\ \A m \in DOMAIN page : m \notin DOMAIN msgs => Missing(msgs, page)[m] = page[m]
  BY MissingHolds
<1> SUFFICES ASSUME NEW m \in DOMAIN msgs \cup DOMAIN page, m \notin early'
    PROVE  FaithfulNext(Missing(msgs, page)[m].items, m)
  BY <1>1 DEF EntriesNext
<1>2. CASE m \in DOMAIN msgs
  BY <1>1, <1>2 DEF EntriesNext
<1>3. CASE m \notin DOMAIN msgs
  BY <1>1, <1>3 DEF EntriesNext
<1> QED BY <1>2, <1>3

LEMMA PageNext ==
    ASSUME TextsMove, NEW rows, DOMAIN rows \subseteq DOMAIN row, RowsFaithful(rows)
    PROVE  /\ EntriesNext(Page(rows))
           /\ \A m \in DOMAIN Page(rows) : ReadNext(Page(rows)[m], m)
<1> SUFFICES ASSUME NEW m \in DOMAIN Page(rows)
    PROVE  FaithfulNext(Page(rows)[m].items, m) /\ ReadNext(Page(rows)[m], m)
  BY DEF EntriesNext
<1>1. m \in DOMAIN rows /\ m \in DOMAIN row /\ Faithful(rows[m].items, m) /\ Read(rows[m], m)
  BY PageHolds DEF RowsFaithful
<1>2. Page(rows)[m] = [items |-> rows[m].items, seq |-> rows[m].seq]
  BY PageHolds
<1>3. Page(rows)[m].items = rows[m].items /\ Page(rows)[m].seq = rows[m].seq
  BY <1>2
<1>4. FaithfulNext(rows[m].items, m) /\ ReadNext(rows[m], m)
  BY <1>1, FaithfulStays, ReadStays
<1> QED BY <1>3, <1>4 DEF ReadNext

(* A turn that its stream reaches is on screen blank, or early. *)
LEMMA StartsBlank ==
    ASSUME NEW m, Starts(m)
    PROVE  /\ early \subseteq early' /\ (m \in early' \/ shown'[m].items = <<>>)
           /\ shown' = WithRow(shown, m, Blank(0)) /\ cache' = WithRow(cache, m, Blank(0))
<1>1. /\ shown' = WithRow(shown, m, Blank(0)) /\ cache' = WithRow(cache, m, Blank(0))
      /\ early' = early \cup {k \in {m} \cap DOMAIN shown : shown[k].items # <<>>}
  BY DEF Starts
<1>2. CASE m \in DOMAIN shown
  <2>1. WithRow(shown, m, Blank(0)) = shown
    BY <1>2 DEF WithRow
  <2> QED BY <1>1, <1>2, <2>1
<1>3. CASE m \notin DOMAIN shown
  <2>1. shown'[m] = Blank(0)
    BY <1>1, <1>3, WithRowHolds
  <2> QED BY <1>1, <2>1 DEF Blank
<1> QED BY <1>2, <1>3

(* The next text of the turn on screen is the one after those it holds. *)
LEMMA AppendFaithful ==
    ASSUME LogFacts, FeedTyped, Connection, Pending, ReadInv, Screen, AppendText, stream \notin early
    PROVE  Faithful(Append(shown[stream].items, events[Head(wire)].val), stream)
<1>1. PICK m : m = stream
  OBVIOUS
<1>2. PICK s : s = Head(wire)
  OBVIOUS
<1>3. PICK items : items = shown[m].items
  OBVIOUS
<1>4. PICK val : val = events[s].val
  OBVIOUS
<1>5. /\ wire # <<>> /\ ~Ignored(s) /\ events[s].msg = m /\ events[s].kind = "text"
  BY <1>1, <1>2 DEF AppendText, Take
<1>6. /\ m # 0 /\ s \in DOMAIN events /\ m \in DOMAIN row /\ m \in DOMAIN shown /\ items \in Seq(Nat)
  BY <1>1, <1>2, <1>3, <1>5, HandledTypes, StreamEntry
<1>7. /\ LogInv /\ Columns /\ TextInv /\ s \in Texts(m) /\ val \in Nat /\ val # 0
  <2>1. LogInv /\ Columns /\ TextInv
    BY DEF LogFacts
  <2>2. s \in Texts(m)
    BY <1>5, <1>6 DEF Texts
  <2>3. val \in 1..said[m] /\ said[m] \in Nat
    BY <1>4, <1>6, <2>1, <2>2, RowIndex DEF TextInv, Numbered, LogInv
  <2> QED BY <2>1, <2>2, <2>3
<1>8. s \in Nat /\ cursor \in Nat /\ cursor < s /\ \A i \in Texts(m) : i \in Nat
  <2>1. /\ wire \in Seq(Nat) /\ cursor \in Nat /\ feedSeq \in Nat /\ DOMAIN events \subseteq Nat
        /\ conn \in {"closed", "opening", "replaying", "live"}
    BY WireTypes
  <2>2. Lists(wire, cursor, feedSeq)
    BY <1>5, <2>1 DEF Connection
  <2>3. cursor < s
    BY <1>2, <1>5, <2>1, <2>2, Taken
  <2> QED BY <1>6, <2>1, <2>3 DEF Texts
<1> SUFFICES ASSUME ~Repeats(m) PROVE Faithful(Append(items, val), m)
  BY <1>1, <1>2, <1>3, <1>4 DEF Faithful
<1>9. /\ From(items, m, cursor) /\ Rises(m) /\ Rising(items)
      /\ m \in InProgress => items = UpTo(Len(items))
  <2>1. Faithful(items, m)
    BY <1>1, <1>3, <1>6 DEF Screen, EntriesFaithful
  <2> QED BY <1>1, <1>3, <1>6, <1>7, <2>1, AllRise DEF Screen, Applied, Faithful
<1>10. \A k \in DOMAIN items : items[k] = 0 \/ items[k] < val
  <2> SUFFICES ASSUME NEW k \in DOMAIN items, items[k] # 0 PROVE items[k] < val
    OBVIOUS
  <2>1. PICK i \in Texts(m) : events[i].val = items[k] /\ i <= cursor
    BY <1>9 DEF From
  <2>2. i < s
    BY <1>8, <2>1
  <2> QED BY <1>4, <1>7, <1>9, <2>1, <2>2 DEF Rises
<1>11. Rising(Append(items, val))
  BY <1>6, <1>7, <1>9, <1>10, RisingMore
<1>12. ASSUME m \in InProgress PROVE Append(items, val) = UpTo(Len(Append(items, val)))
  <2>1. PICK n \in Nat : Ordered(m, n) /\ \A i \in Texts(m) : i \in live
    BY <1>7, <1>12, InProgressTold DEF HoldsFirst
  <2>2. PICK l \in Nat : l = Len(items)
    BY <1>6
  <2>3. items = UpTo(l) /\ DOMAIN items = 1..l /\ \A k \in 1..l : items[k] = k
    BY <1>9, <1>12, <2>2 DEF UpTo
  <2>4. l < val
    BY <1>7, <1>10, <2>3
  <2>5. val \in 1..n
    BY <1>4, <1>7, <2>1 DEF Ordered
  <2>6. val = l + 1
    <3> SUFFICES ASSUME l + 1 < val PROVE FALSE
      BY <1>7, <2>4
    <3>1. l + 1 \in 1..n
      BY <2>5
    <3>2. PICK t \in Texts(m) : events[t].val = l + 1
      BY <2>1, <3>1 DEF Ordered
    <3>3. t \in Nat /\ t # s /\ t < s
      <4>1. t \in Nat /\ t # s
        BY <1>4, <1>7, <1>8, <3>2
      <4>2. ~(s < t)
        BY <1>4, <1>7, <1>9, <3>2 DEF Rises
      <4> QED BY <1>8, <4>1, <4>2
    <3>4. t \in live /\ Wanted(t)
      BY <1>1, <2>1 DEF Wanted, Texts
    <3>5. ~Held(t)
      BY <1>1, <1>3, <2>3, <3>2 DEF Held
    <3>6. t \notin seen /\ cursor < t
      BY <1>1, <1>6, <3>4, <3>5 DEF Pending
    <3>7. s < t
      BY <1>2, <1>5, <3>3, <3>4, <3>6, WantedLater
    <3> QED BY <1>8, <3>3, <3>7
  <2>7. /\ Append(items, val) \in Seq(Nat) /\ Len(Append(items, val)) = l + 1
        /\ \A k \in 1..(l + 1) : Append(items, val)[k] = k
    <3> DEFINE new == Append(items, val)
    <3>1. /\ new \in Seq(Nat) /\ Len(new) = l + 1 /\ new[l + 1] = val
          /\ \A k \in 1..l : new[k] = items[k]
      BY <1>6, <1>7, <2>2
    <3> HIDE DEF new
    <3>2. \A k \in 1..(l + 1) : k \in 1..l \/ k = l + 1
      BY <2>2
    <3>3. \A k \in 1..(l + 1) : new[k] = k
      BY <2>3, <2>6, <3>1, <3>2
    <3> QED BY <3>1, <3>3 DEF new
  <2>8. Append(items, val) = UpTo(l + 1)
    <3>1. UpTo(l + 1) \in Seq(Nat) /\ Len(UpTo(l + 1)) = l + 1
      BY UpToTypes
    <3>2. \A k \in 1..(l + 1) : UpTo(l + 1)[k] = k
      BY DEF UpTo
    <3> QED BY <2>7, <3>1, <3>2, SeqEqual
  <2> QED BY <2>8, UpToRises
<1> QED BY <1>11, <1>12 DEF Faithful

(* What the entries say stays faithful *)

LEMMA PageUnder ==
    ASSUME LogFacts, FeedTyped, Screen, TextsMove, fetch # NoFetch
    PROVE  LET page == Page(fetch[1]) IN
             EntriesNext(page) /\ \A m \in DOMAIN page : ReadNext(page[m], m)
<1>1. PageOf(fetch[1], Len(row), Len(events)) /\ RowsFaithful(fetch[1])
  BY DEF FeedTyped, ViewTyped, Screen
<1> DEFINE rows == fetch[1]
<1>2. rows \in Seq(Row) /\ Len(rows) <= Len(row) /\ RowsFaithful(rows)
  BY <1>1 DEF PageOf
<1> HIDE DEF rows
<1>3. DOMAIN rows = 1..Len(rows) /\ Len(rows) \in Nat
  BY <1>2
<1>4. DOMAIN row = 1..Len(row) /\ Len(row) \in Nat
  BY Indices
<1>5. DOMAIN rows \subseteq DOMAIN row
  BY <1>2, <1>3, <1>4
<1> QED BY <1>2, <1>5, PageNext DEF rows

LEMMA EntriesDomains ==
    ASSUME LogFacts, FeedTyped PROVE DOMAIN shown \subseteq DOMAIN row /\ DOMAIN cache \subseteq DOMAIN row
BY Indices DEF FeedTyped, ViewTyped, Messages

LEMMA EntriesStep ==
    ASSUME LogFacts, FeedTyped, EndsShown, Connection, Pending, ReadInv, Screen, TextsMove, Next, ~GiveUp
    PROVE  EntriesNext(shown') /\ EntriesNext(cache')
<1>0. EntriesFaithful(shown) /\ EntriesFaithful(cache)
  BY DEF Screen
<1>00. early \subseteq early' => EntriesNext(shown) /\ EntriesNext(cache)
  BY <1>0, EntriesDomains, SameEntries
<1>1. CASE Register \/ FollowHandOff
  <2>1. PICK m : Starts(m)
    BY <1>1 DEF Register, FollowHandOff
  <2>2. /\ early \subseteq early'
        /\ shown' = WithRow(shown, m, Blank(0)) /\ cache' = WithRow(cache, m, Blank(0))
    BY <2>1, StartsBlank
  <2>3. Blank(0).items = <<>>
    BY DEF Blank
  <2>4. FaithfulNext(Blank(0).items, m)
    BY <2>3, BlankFaithful
  <2> QED BY <1>00, <2>2, <2>4, WithRowNext
<1>2. CASE Reenter
  <2> DEFINE m == probe.msg
             entry == Blank(probe.seq)
  <2>1. /\ UNCHANGED early /\ shown' = WithRow(shown, m, entry) /\ cache' = WithRow(cache, m, entry)
    BY <1>2 DEF Reenter
  <2>2. entry.items = <<>>
    BY DEF Blank
  <2> HIDE DEF m, entry
  <2>3. FaithfulNext(entry.items, m)
    BY <2>2, BlankFaithful
  <2> QED BY <1>00, <2>1, <2>3, WithRowNext
<1>3. CASE FetchApply
  <2> DEFINE page == Page(fetch[1])
  <2>1. fetch # NoFetch
    BY <1>3 DEF FetchApply
  <2>2. EntriesNext(page)
    BY <2>1, PageUnder
  <2>3. \/ shown' = page /\ cache' = page
        \/ /\ UNCHANGED early /\ shown' = Missing(shown, page)
           /\ cache' = page \/ (stream # 0 /\ cache' = WithRow(page, stream, shown[stream]))
    BY <1>3 DEF FetchApply, Idle
  <2> HIDE DEF page
  <2>4. CASE shown' = page /\ cache' = page
    BY <2>2, <2>4
  <2>5. CASE /\ UNCHANGED early /\ shown' = Missing(shown, page)
             /\ cache' = page \/ (stream # 0 /\ cache' = WithRow(page, stream, shown[stream]))
    <3>1. EntriesNext(shown) /\ EntriesNext(shown')
      BY <1>00, <2>2, <2>5, MissingNext
    <3>2. CASE cache' = page
      BY <2>2, <3>1, <3>2
    <3>3. CASE stream # 0 /\ cache' = WithRow(page, stream, shown[stream])
      <4>1. stream \in DOMAIN shown
        BY <3>3 DEF FeedTyped, ViewTyped
      <4>2. PICK m, entry : m = stream /\ entry = shown[m]
        OBVIOUS
      <4>3. m \in early' \/ FaithfulNext(entry.items, m)
        BY <3>1, <4>1, <4>2 DEF EntriesNext
      <4>4. EntriesNext(WithRow(page, m, entry))
        BY <2>2, <4>3, WithRowNext
      <4> QED BY <3>1, <3>3, <4>2, <4>4
    <3> QED BY <2>5, <3>2, <3>3
  <2> QED BY <2>3, <2>4, <2>5
<1>4. CASE AppendText
  <2>1. PICK m : m = stream
    OBVIOUS
  <2> DEFINE s == Head(wire)
             entry == [items |-> Append(shown[stream].items, events[s].val),
                       seq |-> Larger(shown[stream].seq, s)]
  <2>2. /\ wire # <<>> /\ ~Ignored(s) /\ UNCHANGED early
        /\ shown' = Set(shown, stream, entry) /\ cache' = Set(cache, stream, entry)
    BY <1>4 DEF AppendText, Take
  <2>3. stream # 0 /\ m \in DOMAIN row
    BY <2>1, <2>2, HandledTypes, StreamEntry
  <2>4. entry.items = Append(shown[stream].items, events[s].val)
    OBVIOUS
  <2>5. m \notin early => Faithful(entry.items, m)
    BY <1>4, <2>1, <2>4, AppendFaithful
  <2> HIDE DEF s, entry
  <2>6. m \in early' \/ FaithfulNext(entry.items, m)
    BY <2>2, <2>3, <2>5, FaithfulStays
  <2>7. shown' = Set(shown, m, entry) /\ cache' = Set(cache, m, entry)
    BY <2>1, <2>2
  <2> QED BY <1>00, <2>2, <2>6, <2>7, SetNext
<1>5. CASE EndStream
  <2>1. PICK m : m = stream
    OBVIOUS
  <2>2. PICK old : old = shown[m]
    OBVIOUS
  <2> DEFINE s == Head(wire)
  <2>3. /\ wire # <<>> /\ ~Ignored(s) /\ UNCHANGED early /\ shown' = cache'
        /\ events[s].msg = m /\ events[s].kind \in EndKinds
        /\ cache' = cache \/ cache' = Set(cache, m, Failed(old))
    BY <1>5, <2>1, <2>2 DEF EndStream, Idle
  <2>4. /\ m \in DOMAIN row /\ m \in DOMAIN shown /\ old \in Entry /\ old.items \in Seq(Nat)
        /\ s \in DOMAIN events
    BY <2>1, <2>2, <2>3, HandledTypes, StreamEntry
  <2> HIDE DEF s
  <2>5. m \notin InProgress
    BY <2>3, <2>4 DEF LogFacts, LogInv, Unended, NoEnd
  <2>6. m \notin early => Faithful(Failed(old).items, m)
    <3> SUFFICES ASSUME m \notin early, ~Repeats(m) PROVE Faithful(Failed(old).items, m)
      BY DEF Faithful
    <3>1. Rising(old.items)
      BY <1>0, <2>2, <2>4 DEF EntriesFaithful, Faithful
    <3>2. Rising(Append(old.items, 0))
      BY <2>4, <3>1, RisingMore
    <3>3. Failed(old).items = Append(old.items, 0)
      BY <2>4 DEF Failed, Entry
    <3> QED BY <2>5, <3>2, <3>3 DEF Faithful
  <2>7. m \in early' \/ FaithfulNext(Failed(old).items, m)
    BY <2>3, <2>4, <2>6, FaithfulStays
  <2>8. CASE cache' = cache
    BY <1>00, <2>3, <2>8
  <2>9. CASE cache' = Set(cache, m, Failed(old))
    BY <1>00, <2>3, <2>7, <2>9, SetNext
  <2> QED BY <2>3, <2>8, <2>9
<1>6. CASE Reload
  <2>1. shown' = <<>> /\ cache' = <<>>
    BY <1>6 DEF Reload
  <2> QED BY <2>1 DEF EntriesNext
<1>7. CASE \/ Send \/ OtherTurn \/ Probe \/ Server \/ Feed \/ Open \/ FetchRead \/ Ignore \/ Pass \/ Drop
           \/ Refetch \/ ServerDies \/ (PublishLost /\ UNCHANGED <<netVars, pageVars>>)
  <2>1. UNCHANGED <<cache, shown, early>>
    BY <1>7 DEF Send, OtherTurn, Probe, Server, Feed, Subscribe, ReplayBacklog, Forward, Published, Open,
                FetchRead, Ignore, Pass, Drop, Refetch, ServerDies, pageVars
  <2> QED BY <1>00, <2>1
<1> QED BY <1>1, <1>2, <1>3, <1>4, <1>5, <1>6, <1>7
        DEF Next, Browser, Deliver, Disturbance

(* An entry of a turn that is not followed is one of a page, or is left as it is. *)
LEMMA CacheReadStep ==
    ASSUME LogFacts, FeedTyped, Handled, Screen, TextsMove, Next, ~GiveUp PROVE CacheRead'
<1> SUFFICES ASSUME NEW m \in DOMAIN cache', m \notin ended', m # stream' PROVE ReadNext(cache'[m], m)
  BY DEF CacheRead, Read, ReadNext, From, FromNext
<1>0. ASSUME m \in DOMAIN cache, m \notin ended, m # stream, cache'[m] = cache[m] PROVE ReadNext(cache'[m], m)
  BY <1>0, ReadStays DEF Screen, CacheRead
<1>00. \A k \in DOMAIN cache : k \in DOMAIN row /\ k # 0
  BY EntriesDomains, Indices
<1>1. CASE Register \/ Reenter
  <2>1. PICK k, entry : cache' = WithRow(cache, k, entry) /\ stream' = k
    BY <1>1 DEF Register, Reenter, Starts
  <2>2. UNCHANGED ended /\ stream = 0
    BY <1>1 DEF Register, Reenter, Handled
  <2>3. m \in DOMAIN cache /\ cache'[m] = cache[m]
    <3>1. /\ DOMAIN WithRow(cache, k, entry) = DOMAIN cache \cup {k}
          /\ \A n \in DOMAIN cache : WithRow(cache, k, entry)[n] = cache[n]
      BY DEF WithRow
    <3> QED BY <2>1, <3>1
  <2> QED BY <1>0, <1>00, <2>2, <2>3
<1>2. CASE FollowHandOff
  <2>1. PICK k, entry : cache' = WithRow(cache, k, entry) /\ stream' = k
    BY <1>2 DEF FollowHandOff, Starts
  <2>2. ended' = ended \cup {stream}
    BY <1>2 DEF FollowHandOff
  <2>3. m \in DOMAIN cache /\ cache'[m] = cache[m]
    <3>1. /\ DOMAIN WithRow(cache, k, entry) = DOMAIN cache \cup {k}
          /\ \A n \in DOMAIN cache : WithRow(cache, k, entry)[n] = cache[n]
      BY DEF WithRow
    <3> QED BY <2>1, <3>1
  <2> QED BY <1>0, <2>2, <2>3
<1>3. CASE FetchApply
  <2> DEFINE page == Page(fetch[1])
  <2>1. fetch # NoFetch /\ UNCHANGED stream
    BY <1>3 DEF FetchApply
  <2>2. \A k \in DOMAIN page : ReadNext(page[k], k)
    BY <2>1, PageUnder
  <2>3. cache' = page \/ cache' = WithRow(page, stream, shown[stream])
    BY <1>3 DEF FetchApply
  <2> HIDE DEF page
  <2>4. m \in DOMAIN page /\ cache'[m] = page[m]
    <3>1. CASE cache' = page
      BY <3>1
    <3>2. CASE cache' = WithRow(page, stream, shown[stream])
      <4>1. /\ DOMAIN WithRow(page, stream, shown[stream]) = DOMAIN page \cup {stream}
            /\ \A k \in DOMAIN page : WithRow(page, stream, shown[stream])[k] = page[k]
        BY DEF WithRow
      <4> QED BY <2>1, <3>2, <4>1
    <3> QED BY <2>3, <3>1, <3>2
  <2> QED BY <2>2, <2>4
<1>4. CASE AppendText
  <2>1. PICK k, entry : cache' = Set(cache, k, entry) /\ k = stream /\ UNCHANGED <<stream, ended>>
    BY <1>4 DEF AppendText
  <2>2. m \in DOMAIN cache /\ cache'[m] = cache[m]
    BY <2>1, SetHolds
  <2> QED BY <1>0, <2>1, <2>2
<1>5. CASE EndStream
  <2>1. PICK entry : cache' = cache \/ cache' = Set(cache, stream, entry)
    BY <1>5 DEF EndStream
  <2>2. ended' = ended \cup {stream}
    BY <1>5 DEF EndStream
  <2>3. m \in DOMAIN cache /\ cache'[m] = cache[m]
    BY <2>1, <2>2, SetHolds
  <2> QED BY <1>0, <2>2, <2>3
<1>6. CASE Reload
  BY <1>6 DEF Reload
<1>7. CASE \/ Send \/ OtherTurn \/ Probe \/ Server \/ Feed \/ Open \/ FetchRead \/ Ignore \/ Pass \/ Drop
           \/ Refetch \/ ServerDies \/ (PublishLost /\ UNCHANGED <<netVars, pageVars>>)
  <2>1. UNCHANGED <<cache, stream, ended>>
    BY <1>7 DEF Send, OtherTurn, Probe, Server, Feed, Subscribe, ReplayBacklog, Forward, Published, Open,
                FetchRead, Ignore, Pass, Drop, Refetch, ServerDies, pageVars
  <2> QED BY <1>0, <2>1
<1> QED BY <1>1, <1>2, <1>3, <1>4, <1>5, <1>6, <1>7
        DEF Next, Browser, Deliver, Disturbance

LEMMA PageFaithfulStep ==
    ASSUME LogFacts, FeedTyped, ReadInv, Screen, TextsMove, Next
    PROVE  (fetch # NoFetch)' => RowsFaithful(fetch[1])'
<1>1. CASE FetchRead
  <2>1. fetch' = <<row>> /\ UNCHANGED <<events, row>>
    BY <1>1 DEF FetchRead, logVars
  <2>2. fetch'[1] = row
    BY <2>1
  <2>3. \A m \in DOMAIN row : row[m].status # "deleted" => Faithful(row[m].items, m) /\ Read(row[m], m)
    BY RowFaithful
  <2>4. \A m : Texts(m)' = Texts(m) /\ InProgress' = InProgress
    BY <2>1 DEF Texts, InProgress
  <2>5. \A m \in DOMAIN row : row[m].status # "deleted" =>
            FaithfulNext(row[m].items, m) /\ ReadNext(row[m], m)
    BY <2>3, FaithfulStays, ReadStays
  <2> QED BY <2>2, <2>5 DEF RowsFaithful, Faithful, FaithfulNext, Read, ReadNext, From, FromNext
<1>2. CASE ~FetchRead
  <2>1. fetch' = fetch \/ fetch' = NoFetch
    BY <1>2 DEF Next, Browser, Deliver, Disturbance, Send, OtherTurn, Probe, Server, Feed, Subscribe,
                ReplayBacklog, Forward, Published, Open, Register, Reenter, FetchApply, Ignore, Pass,
                AppendText, FollowHandOff, EndStream, Invalidate, Drop, GiveUp, Refetch, Reload, ServerDies,
                pageVars
  <2>2. CASE fetch' = NoFetch
    BY <2>2 DEF NoFetch
  <2>3. CASE fetch' = fetch /\ fetch # NoFetch
    <3> DEFINE rows == fetch[1]
    <3>1. RowsFaithful(rows) /\ DOMAIN rows \subseteq DOMAIN row
      <4>1. PageOf(fetch[1], Len(row), Len(events)) /\ RowsFaithful(fetch[1])
        BY <2>3 DEF FeedTyped, ViewTyped, Screen
      <4>2. rows \in Seq(Row) /\ Len(rows) <= Len(row)
        BY <4>1 DEF PageOf
      <4>3. DOMAIN row = 1..Len(row) /\ Len(row) \in Nat
        BY Indices
      <4> HIDE DEF rows
      <4>4. DOMAIN rows = 1..Len(rows) /\ Len(rows) \in Nat
        BY <4>2
      <4>5. DOMAIN rows \subseteq DOMAIN row
        BY <4>2, <4>3, <4>4
      <4> QED BY <4>1, <4>5 DEF rows
    <3> HIDE DEF rows
    <3>2. \A m \in DOMAIN rows : rows[m].status # "deleted" =>
              FaithfulNext(rows[m].items, m) /\ ReadNext(rows[m], m)
      BY <3>1, FaithfulStays, ReadStays DEF RowsFaithful
    <3>3. fetch'[1] = rows
      BY <2>3 DEF rows
    <3> QED BY <3>2, <3>3 DEF RowsFaithful, Faithful, FaithfulNext, Read, ReadNext, From, FromNext
  <2> QED BY <2>1, <2>2, <2>3 DEF NoFetch
<1> QED BY <1>1, <1>2

(* What the turn on screen was read from lies behind the cursor. *)
AppliedNext(items, m, s) == m \in early' \/ Repeats(m)' \/ FromNext(items, m, s)

LEMMA FromLater ==
    ASSUME LogInv, TextsMove, NEW items, NEW m, NEW s \in Nat, NEW t \in Nat, s <= t, From(items, m, s)
    PROVE  FromNext(items, m, t)
<1> SUFFICES ASSUME NEW k \in DOMAIN items, items[k] # 0
    PROVE  \E i \in Texts(m)' : events'[i].val = items[k] /\ i <= t
  BY DEF FromNext
<1>1. PICK i \in Texts(m) : events[i].val = items[k] /\ i <= s
  BY DEF From
<1>2. i \in Nat
  BY <1>1 DEF Texts, LogInv, LogTyped
<1>3. i <= t
  BY <1>1, <1>2
<1> QED BY <1>1, <1>3 DEF TextsMove

LEMMA AppliedMore ==
    ASSUME LogFacts, FeedTyped, FeedTyped', Applied, TextsMove, NEW m, m = stream, stream # 0,
           UNCHANGED early, cursor <= cursor'
    PROVE  AppliedNext(shown[m].items, m, cursor')
<1>1. cursor \in Nat /\ cursor' \in Nat /\ LogInv
  <2>1. cursor' \in 0..Len(events)'
    BY DEF FeedTyped, PageTyped
  <2> QED BY <2>1, WireTypes DEF LogFacts
<1>2. CASE m \in early
  BY <1>2 DEF AppliedNext
<1>3. CASE Repeats(m)
  BY <1>3, RepeatsMore DEF AppliedNext
<1>4. CASE From(shown[m].items, m, cursor)
  <2>1. FromNext(shown[m].items, m, cursor')
    BY <1>1, <1>4, FromLater
  <2> QED BY <2>1 DEF AppliedNext
<1> QED BY <1>2, <1>3, <1>4 DEF Applied

LEMMA AppliedStep ==
    ASSUME LogFacts, FeedTyped, FeedTyped', Connection, Handled, Covered, Screen, TextsMove, Next, ~GiveUp
    PROVE  Applied'
<1>0. Applied /\ cursor \in Nat /\ LogInv
  BY WireTypes DEF Screen, LogFacts
<1> SUFFICES ASSUME NEW m, m = stream', m # 0 PROVE AppliedNext(shown'[m].items, m, cursor')
  BY DEF Applied, AppliedNext, From, FromNext, Repeats, Texts
<1>00. ASSUME stream # 0, UNCHANGED <<stream, early>>, shown'[m] = shown[m], cursor <= cursor'
       PROVE  AppliedNext(shown'[m].items, m, cursor')
  <2>1. AppliedNext(shown[m].items, m, cursor')
    BY <1>0, <1>00, AppliedMore
  <2> QED BY <1>00, <2>1
<1>1. CASE Register \/ FollowHandOff
  <2>1. Starts(m)
    BY <1>1 DEF Register, FollowHandOff
  <2>2. m \in early' \/ shown'[m].items = <<>>
    BY <2>1, StartsBlank
  <2>3. FromNext(<<>>, m, cursor')
    BY DEF FromNext
  <2> QED BY <2>1, <2>2, <2>3 DEF AppliedNext
<1>2. CASE Reenter
  <2> DEFINE entry == Blank(probe.seq)
  <2>2. /\ probe # NoProbe /\ stream = 0 /\ cursor' = ResumeAt(m) /\ m = probe.msg
        /\ shown' = WithRow(shown, m, entry)
    BY <1>2 DEF Reenter
  <2>3. reply = 0 /\ m \notin ended
    BY <2>2 DEF Handled, FeedTyped, PageTyped
  <2>4. shown = cache
    BY <2>2, <2>3 DEF Covered, Idling
  <2>5. entry.items = <<>>
    BY DEF Blank
  <2> HIDE DEF entry
  <2>6. CASE m \in DOMAIN cache
    <3>1. shown'[m] = cache[m] /\ cursor' = cache[m].seq
      BY <2>2, <2>4, <2>6 DEF WithRow, ResumeAt
    <3>2. Read(cache[m], m)
      BY <2>2, <2>3, <2>6 DEF Screen, CacheRead
    <3>3. ReadNext(cache[m], m)
      BY <3>2, ReadStays
    <3> QED BY <2>2, <3>1, <3>3 DEF ReadNext, AppliedNext
  <2>7. CASE m \notin DOMAIN cache
    <3>1. shown'[m] = entry
      <4>1. WithRow(shown, m, entry)[m] = entry
        BY <2>4, <2>7 DEF WithRow
      <4> QED BY <2>2, <4>1
    <3>2. FromNext(<<>>, m, cursor')
      BY DEF FromNext
    <3> QED BY <2>2, <2>5, <3>1, <3>2 DEF AppliedNext
  <2> QED BY <2>6, <2>7
<1>3. CASE FetchApply
  <2> DEFINE page == Page(fetch[1])
  <2>1. /\ UNCHANGED stream
        /\ stream # 0 => cursor' = cursor /\ UNCHANGED early /\ shown' = Missing(shown, page)
    BY <1>3 DEF FetchApply
  <2> HIDE DEF page
  <2>2. stream # 0 => Missing(shown, page)[stream] = shown[stream]
    BY DEF Missing, FeedTyped, ViewTyped
  <2> QED BY <1>0, <1>00, <2>1, <2>2
<1>4. CASE Pass \/ AppendText
  <2>1. PICK s : s = Head(wire)
    OBVIOUS
  <2>2. /\ wire # <<>> /\ ~Ignored(s) /\ cursor' = Larger(cursor, s) /\ UNCHANGED <<stream, early>>
    BY <1>4, <2>1 DEF Pass, AppendText, Take, Advance
  <2>3. s \in DOMAIN events /\ stream # 0 /\ s \in Nat
    BY <2>1, <2>2, HandledTypes, WireTypes
  <2>4. cursor <= cursor' /\ s <= cursor' /\ cursor' \in Nat
    BY <1>0, <2>2, <2>3 DEF Larger
  <2>5. CASE Pass
    BY <1>00, <2>2, <2>3, <2>4, <2>5 DEF Pass
  <2>6. CASE AppendText
    <3>1. m = stream
      BY <2>2
    <3>2. PICK items : items = shown[m].items
      OBVIOUS
    <3>3. PICK val : val = events[s].val
      OBVIOUS
    <3> DEFINE entry == [items |-> Append(shown[stream].items, events[s].val),
                         seq |-> Larger(shown[stream].seq, s)]
    <3>4. /\ shown' = Set(shown, stream, entry) /\ events[s].msg = m /\ events[s].kind = "text"
      BY <2>1, <2>6, <3>1 DEF AppendText
    <3>5. m \in DOMAIN shown /\ items \in Seq(Nat) /\ val \in Nat
      <4>1. events[s] \in Event
        BY <2>3, Indices, ItemType
      <4> QED BY <2>3, <3>1, <3>2, <3>3, <4>1, StreamEntry DEF Event
    <3>6. entry.items = Append(items, val)
      BY <3>1, <3>2, <3>3
    <3> HIDE DEF entry
    <3>7. shown'[m] = entry
      <4>1. Set(shown, m, entry)[m] = entry
        BY <3>5 DEF Set
      <4> QED BY <3>1, <3>4, <4>1
    <3>8. AppliedNext(items, m, cursor')
      BY <1>0, <2>2, <2>3, <2>4, <3>1, <3>2, AppliedMore
    <3>9. s \in Texts(m)' /\ events'[s].val = val
      <4>1. s \in Texts(m)
        BY <2>3, <3>4 DEF Texts
      <4> QED BY <3>3, <4>1 DEF TextsMove
    <3>10. ASSUME FromNext(items, m, cursor') PROVE FromNext(Append(items, val), m, cursor')
      <4>1. \A k \in DOMAIN Append(items, val) :
               \/ k \in DOMAIN items /\ Append(items, val)[k] = items[k]
               \/ Append(items, val)[k] = val
        BY <3>5
      <4> QED BY <2>4, <3>9, <3>10, <4>1 DEF FromNext
    <3> QED BY <2>2, <3>1, <3>6, <3>7, <3>8, <3>10 DEF AppliedNext
  <2> QED BY <1>4, <2>5, <2>6
<1>5. CASE EndStream \/ Reload
  BY <1>5 DEF EndStream, Reload
<1>6. CASE \/ Send \/ OtherTurn \/ Probe \/ Server \/ Feed \/ Open \/ FetchRead \/ Ignore \/ Drop
           \/ Refetch \/ ServerDies \/ (PublishLost /\ UNCHANGED <<netVars, pageVars>>)
  <2>1. UNCHANGED <<stream, early, shown, cursor>>
    BY <1>6 DEF Send, OtherTurn, Probe, Server, Feed, Subscribe, ReplayBacklog, Forward, Published,
                Open, FetchRead, Ignore, Drop, Refetch, ServerDies, pageVars
  <2> QED BY <1>0, <1>00, <2>1
<1> QED BY <1>1, <1>2, <1>3, <1>4, <1>5, <1>6
        DEF Next, Browser, Deliver, Disturbance

LEMMA ScreenStep ==
    ASSUME LogFacts, LogFacts', FeedTyped, FeedTyped', EndsShown, Following, ReadInv, Screen,
           TextsMove, Next, ~GiveUp
    PROVE  Screen'
<1>1. Connection /\ Handled /\ Covered /\ Pending
  BY DEF Following
<1>2. EntriesNext(shown') /\ EntriesNext(cache')
  BY <1>1, EntriesStep
<1>3. EntriesFaithful(shown)' /\ EntriesFaithful(cache)'
  BY <1>2 DEF EntriesNext, EntriesFaithful, FaithfulNext, Faithful
<1>4. CacheRead' /\ Applied' /\ ((fetch # NoFetch)' => RowsFaithful(fetch[1])')
  BY <1>1, CacheReadStep, AppliedStep, PageFaithfulStep
<1> QED BY <1>3, <1>4 DEF Screen

LEMMA ScreenInit == FeedInit => Screen
<1> SUFFICES ASSUME FeedInit PROVE Screen
  OBVIOUS
<1>1. cache = <<>> /\ shown = <<>> /\ fetch = NoFetch /\ stream = 0
  BY DEF FeedInit
<1> QED BY <1>1 DEF Screen, EntriesFaithful, CacheRead, Applied

LEMMA ScreenStutters ==
    ASSUME Screen, UNCHANGED vars PROVE Screen'
<1>1. UNCHANGED <<events, row, stream, cursor, cache, shown, fetch, ended, early>>
  BY DEF vars, logVars, pageVars
<1> QED BY <1>1 DEF Screen, EntriesFaithful, CacheRead, Applied, RowsFaithful, Faithful, Read, From,
                    Repeats, Texts, InProgress

LEMMA ScreenHolds ==
    ASSUME LogFacts, FeedTyped, Screen PROVE ViewFaithful
<1> SUFFICES ASSUME NEW m \in DOMAIN shown, m \notin early, ~Doubled(m)
    PROVE  LET text == TextOf(shown[m].items) IN
             /\ \A j, k \in DOMAIN text : j < k => text[j] < text[k]
             /\ m \in InProgress => text = UpTo(Len(text))
  BY DEF ViewFaithful
<1>1. PICK items : items = shown[m].items
  OBVIOUS
<1>2. items \in Seq(Nat)
  BY <1>1 DEF FeedTyped, ViewTyped, Messages, Entry
<1>3. ~Repeats(m)
  BY DEF Doubled, Repeats
<1>4. Rising(items) /\ (m \in InProgress => items = UpTo(Len(items)))
  BY <1>1, <1>3 DEF Screen, EntriesFaithful, Faithful
<1>5. \A j, k \in DOMAIN TextOf(items) : j < k => TextOf(items)[j] < TextOf(items)[k]
  BY <1>2, <1>4, TextRises
<1>6. ASSUME m \in InProgress PROVE TextOf(items) = UpTo(Len(TextOf(items)))
  <2>1. PICK n \in Nat : n = Len(items)
    BY <1>2
  <2>2. NoteOf("completed") = <<>>
    BY DEF NoteOf
  <2>3. TextOf(UpTo(n) \o NoteOf("completed")) = UpTo(n)
    BY TextOfUpTo
  <2>4. UpTo(n) \o <<>> = UpTo(n)
    BY UpToTypes
  <2>5. TextOf(items) = UpTo(n)
    BY <1>4, <1>6, <2>1, <2>2, <2>3, <2>4
  <2> QED BY <2>5, UpToRises
<1> QED BY <1>1, <1>5, <1>6

(* What the page shows of a turn that runs is a beginning of what the agent said, and of any
   turn nothing twice or out of order: whatever is lost, dropped, replayed, refetched or
   reloaded, in whatever order, and whoever starts the turns, as long as the page gives no
   stream up.  It is asked of a turn that was on screen blank when its stream reached it
   (`early` has the others: insertMessagesById keeps the text a refetch put there, and
   onQueueProcess replays it all the same), and that has no batch logged twice. *)
THEOREM ScreenIsFaithful == Spec /\ [][~GiveUp]_vars => []ViewFaithful
<1> DEFINE Inv == LogFacts /\ FeedTyped /\ EndsShown /\ Following /\ ReadInv /\ Screen
<1>1. FeedInit => Inv
  <2>1. FeedInit => EndsShown
    BY DEF FeedInit, EndsShown, RendersEnded
  <2> QED BY <2>1, FactsInit, TypedInit, FollowingInit, ReadInit, ScreenInit
<1>2. Inv /\ [Next]_vars /\ [~GiveUp]_vars => Inv'
  <2> SUFFICES ASSUME LogFacts, FeedTyped, EndsShown, Following, ReadInv, Screen,
                      [Next]_vars, [~GiveUp]_vars
               PROVE  Inv'
    OBVIOUS
  <2>1. LogFacts' /\ Moves /\ FeedTyped'
    BY FactsStep, TypedStep
  <2>2. ReadInv' /\ TextsMove
    BY <2>1, ReadStep
  <2>3. CASE Next /\ ~GiveUp
    <3>1. EndsShown' /\ Connection'
      BY <2>1, <2>3, EndsShownStep, ConnectionStep DEF Following
    <3>2. Handled'
      BY <2>1, <2>3, HandledStep DEF Following, EndsShown
    <3>3. Covered' /\ Pending'
      BY <2>1, <2>3, CoveredStep, PendingStep DEF Following
    <3>4. Screen'
      BY <2>1, <2>2, <2>3, ScreenStep
    <3> QED BY <2>1, <2>2, <3>1, <3>2, <3>3, <3>4 DEF Following
  <2>4. CASE UNCHANGED vars
    BY <2>1, <2>2, <2>4, EndsShownStutters, FollowingStutters, ScreenStutters
  <2> QED BY <2>3, <2>4
<1>3. Inv => ViewFaithful
  BY ScreenHolds
<1> QED BY <1>1, <1>2, <1>3, PTL DEF Spec
=============================================================================
