----------------------------- MODULE EventFeed ------------------------------
(***************************************************************************)
(* The readers of the event log.  Server side, create_user_streams_feed of *)
(* backend/app/services/chat.py: one SSE connection per user that replays  *)
(* message_events past the client's cursor and then forwards the pub/sub   *)
(* channel.  Browser side, the frontend's streamConnection, streamService, *)
(* useStreamReconnect, useStreamCallbacks and useMessageInitialization:    *)
(* they resume, drop duplicates and build the message the user sees.       *)
(*                                                                         *)
(* One chat and one browser.  The 50 ms coalescing of rendered text is     *)
(* left out: every exit of a stream flushes it first.                      *)
(***************************************************************************)
EXTENDS EventLog

CONSTANTS
    OtherTurns, \* another device, an automation or a channel may start turns too
    SlowReply   \* an agent may speak before its turn's POST was answered

ASSUME EventFeedAssumption ==
    OtherTurns \in BOOLEAN /\ SlowReply \in BOOLEAN

VARIABLES
    conn,       \* the connection: closed, opening, replaying, live
    from,       \* the cursor in the URL of a request the server has not taken up
    feedSeq,    \* the server's last_seq_by_chat
    inbox,      \* the subscription
    wire,       \* sent and not yet delivered
    stream,     \* the message of the registered stream, 0 for none
    reply,      \* the message of an unanswered createCompletion, 0 for none
    probe,      \* the answer of a status request, on its way
    cursor,     \* chatStorage's event id, 0 for none
    seen,       \* recentSeqByChat
    cache,      \* react-query's messages: id -> items and last_seq
    shown,      \* the messages on screen
    fetch,      \* a page of messages on its way
    stale,      \* the messages query is invalidated
    loaded,     \* it was answered since the page was opened
    ended,      \* history: the turns whose end this page was told of
    early       \* history: the turns on screen with text before their stream reached them

netVars == <<conn, from, feedSeq, inbox, wire>>
pageVars == <<stream, reply, probe, cursor, seen, cache, shown, fetch, stale, loaded,
              ended, early>>
vars == <<logVars, netVars, pageVars>>

NoProbe == [msg |-> 0, seq |-> 0]
NoFetch == <<>>
Blank(s) == [items |-> <<>>, seq |-> s]

FeedTypeOK ==
    /\ conn \in {"closed", "opening", "replaying", "live"}
    /\ from \in Nat /\ feedSeq \in Nat
    /\ inbox \in Seq(DOMAIN events) /\ wire \in Seq(DOMAIN events)
    /\ stream \in 0..Len(row) /\ reply \in 0..Len(row) /\ probe.msg \in 0..Len(row)
    /\ cursor \in 0..Len(events) /\ seen \subseteq DOMAIN events
    /\ DOMAIN cache \subseteq DOMAIN row /\ DOMAIN shown \subseteq DOMAIN row
    /\ stream # 0 => stream \in DOMAIN shown
    /\ stale \in BOOLEAN /\ loaded \in BOOLEAN
    /\ ended \subseteq DOMAIN row /\ early \subseteq DOMAIN row

FeedInit ==
    /\ Init /\ conn = "closed" /\ from = 0 /\ feedSeq = 0
    /\ inbox = <<>> /\ wire = <<>> /\ stream = 0 /\ reply = 0 /\ probe = NoProbe
    /\ cursor = 0 /\ seen = {} /\ cache = <<>> /\ shown = <<>> /\ fetch = NoFetch
    /\ stale = FALSE /\ loaded = TRUE /\ ended = {} /\ early = {}

-----------------------------------------------------------------------------
(* The connection.  An open drops the old socket and with it what was under way. *)

OpenPast(c) ==
    conn' = "opening" /\ from' = c /\ wire' = <<>> /\ inbox' = <<>> /\ feedSeq' = 0
Close == conn' = "closed" /\ from' = 0 /\ wire' = <<>> /\ inbox' = <<>> /\ feedSeq' = 0

Open ==   \* first open, a retry, or the stall watchdog after a drop
    /\ conn = "closed" /\ stream # 0 /\ OpenPast(cursor)
    /\ UNCHANGED <<logVars, pageVars>>

Subscribe ==
    /\ conn = "opening" /\ phase # "starting" /\ conn' = "replaying" /\ feedSeq' = from
    /\ from' = 0 /\ UNCHANGED <<logVars, inbox, wire, pageVars>>

(* _replay_stream_backlog yields LiveAfter; the last number it yielded *)
LastOf(q, s) == IF q = <<>> THEN s ELSE q[Len(q)]
ReplayBacklog ==
    /\ conn = "replaying" /\ conn' = "live"
    /\ wire' = wire \o LiveAfter(feedSeq) /\ feedSeq' = LastOf(LiveAfter(feedSeq), feedSeq)
    /\ UNCHANGED <<logVars, from, inbox, pageVars>>

(* _stream_live_user_envelopes: drop what was sent, fill a gap from the database,
   and send the event itself unless the gap covered it *)
NoGap(s) == FALSE   \* wrong
Gap(s) == s > feedSeq + 1
Forward ==
    /\ conn = "live" /\ inbox # <<>> /\ inbox' = Tail(inbox)
    /\ LET s    == Head(inbox)
           fill == IF Gap(s) THEN LiveAfter(feedSeq) ELSE <<>>
           last == LastOf(fill, feedSeq)
       IN  IF s <= last THEN /\ wire' = wire \o fill /\ feedSeq' = last
                        ELSE /\ wire' = Append(wire \o fill, s) /\ feedSeq' = s
    /\ UNCHANGED <<logVars, conn, from, pageVars>>

(* the channel: only subscribers get what is published *)
Published ==
    /\ PublishNext
    /\ inbox' = IF conn \in {"replaying", "live"} THEN Append(inbox, Head(outbox)) ELSE inbox
    /\ UNCHANGED <<conn, from, feedSeq, wire, pageVars>>

Drop ==
    /\ conn # "closed" /\ Fault("drop") /\ Close
    /\ UNCHANGED <<pc, cur, taskVars, said, unflushed, lastSeq, events, live, row, outbox,
                   notices, pageVars>>

-----------------------------------------------------------------------------
(* The page *)

WithRow(msgs, m, entry) ==
    IF m \in DOMAIN msgs THEN msgs
    ELSE [k \in DOMAIN msgs \cup {m} |-> IF k = m THEN entry ELSE msgs[k]]
Set(msgs, m, entry) == IF m \in DOMAIN msgs THEN [msgs EXCEPT ![m] = entry] ELSE msgs
MaxSeq(msgs) ==
    LET seqs == {msgs[m].seq : m \in DOMAIN msgs} \cup {0}
    IN  CHOOSE s \in seqs : \A t \in seqs : t <= s

(* useMessageInitialization on an idle page: show the cache, resume past its rows *)
Idle(msgs, c) ==
    /\ shown' = msgs /\ cursor' = IF MaxSeq(msgs) > 0 THEN MaxSeq(msgs) ELSE c
Send ==   \* sendMessage; a registered chat queues instead
    /\ stream = 0 /\ reply = 0 /\ loaded /\ NewTurn /\ reply' = Len(row) + 1 /\ probe' = NoProbe
    /\ UNCHANGED <<netVars, stream, cursor, seen, cache, shown, fetch, stale, loaded,
                   ended, early>>
OtherTurn ==   \* another device, an automation or a channel starts one
    OtherTurns /\ NewTurn /\ UNCHANGED <<netVars, pageVars>>

(* startStream and onQueueProcess put the turn's placeholder on screen: insertMessagesById
   keeps an entry that a page of messages has put there already *)
Starts(m) ==
    /\ cache' = WithRow(cache, m, Blank(0)) /\ shown' = WithRow(shown, m, Blank(0))
    /\ early' = early \cup {k \in {m} \cap DOMAIN shown : shown[k].items # <<>>}
Register ==   \* startStream: registerAndReplay, then the placeholder
    /\ reply # 0 /\ stream' = reply /\ reply' = 0
    /\ Starts(reply) /\ OpenPast(cursor)
    /\ UNCHANGED <<logVars, probe, cursor, seen, fetch, stale, loaded, ended>>

(* get_stream_status, then the rest of reconnectToActiveStream when it answers *)
Latest == LET kept == {m \in DOMAIN row : row[m].status # "deleted"}
          IN  IF kept = {} THEN 0 ELSE CHOOSE m \in kept : \A k \in kept : k <= m
Probe ==
    /\ stream = 0 /\ reply = 0 /\ probe = NoProbe /\ loaded
    /\ phase # "starting" /\ ~(pc = "idle" /\ Free) /\ Latest \in InProgress
    /\ probe' = [msg |-> Latest, seq |-> row[Latest].seq]
    /\ UNCHANGED <<logVars, netVars, stream, reply, cursor, seen, cache, shown, fetch, stale,
                   loaded, ended, early>>
ResumeAt(m) == IF m \in DOMAIN cache THEN cache[m].seq ELSE 0
Reenter ==
    /\ probe # NoProbe /\ stream = 0
    /\ stream' = probe.msg /\ probe' = NoProbe
    /\ cursor' = ResumeAt(probe.msg) /\ seen' = IF ResumeAt(probe.msg) = 0 THEN {} ELSE seen
    /\ cache' = WithRow(cache, probe.msg, Blank(probe.seq))
    /\ shown' = WithRow(shown, probe.msg, Blank(probe.seq))
    /\ OpenPast(ResumeAt(probe.msg))
    /\ UNCHANGED <<logVars, reply, fetch, stale, loaded, ended, early>>

(* GET messages: read, then applied; an invalidation cancels one under way *)
FetchRead ==
    /\ stale /\ fetch = NoFetch /\ phase # "starting" /\ fetch' = <<row>> /\ stale' = FALSE
    /\ UNCHANGED <<logVars, netVars, stream, reply, probe, cursor, seen, cache, shown, loaded,
                   ended, early>>
Page(rows) == [m \in {k \in DOMAIN rows : rows[k].status # "deleted"} |->
                 [items |-> rows[m].items, seq |-> rows[m].seq]]
PageFirst(msgs, page) ==   \* wrong
    [m \in DOMAIN msgs \cup DOMAIN page |-> IF m \in DOMAIN page THEN page[m] ELSE msgs[m]]
Missing(msgs, page) ==
    [m \in DOMAIN msgs \cup DOMAIN page |-> IF m \in DOMAIN msgs THEN msgs[m] ELSE page[m]]
FetchApply ==
    /\ fetch # NoFetch /\ fetch' = NoFetch /\ loaded' = TRUE
    /\ LET page == Page(fetch[1]) IN
         IF stream = 0 /\ reply = 0
         THEN cache' = page /\ Idle(page, cursor) /\ early' = {}
         ELSE /\ cache' = IF stream = 0 THEN page ELSE WithRow(page, stream, shown[stream])
              /\ shown' = Missing(shown, page) /\ UNCHANGED <<cursor, early>>
    /\ UNCHANGED <<logVars, netVars, stream, reply, probe, seen, stale, ended>>

-----------------------------------------------------------------------------
(* handleEnvelopeData, by what becomes of the event *)

Ignored(s) == stream = 0 \/ s \in seen
Mark(s) == seen' = seen \cup {s}
Advance(s) == cursor' = Larger(cursor, s)
Take == wire # <<>> /\ wire' = Tail(wire)

Ignore ==
    /\ Take /\ Ignored(Head(wire))
    /\ UNCHANGED <<logVars, conn, from, feedSeq, inbox, pageVars>>

(* another turn's event, or one that does not change the message *)
Pass ==
    /\ Take
    /\ LET s == Head(wire) IN
         /\ ~Ignored(s) /\ Mark(s) /\ Advance(s)
         /\ events[s].msg # stream \/ events[s].kind \in {"start", "notice"}
    /\ UNCHANGED <<logVars, conn, from, feedSeq, inbox, stream, reply, probe, cache,
                   shown, fetch, stale, loaded, ended, early>>

AppendText ==
    /\ Take
    /\ LET s == Head(wire)
           entry == [items |-> Append(shown[stream].items, events[s].val),
                     seq |-> Larger(shown[stream].seq, s)]
       IN /\ ~Ignored(s) /\ Mark(s) /\ Advance(s)
          /\ events[s].msg = stream /\ events[s].kind = "text"
          /\ shown' = Set(shown, stream, entry) /\ cache' = Set(cache, stream, entry)
    /\ UNCHANGED <<logVars, conn, from, feedSeq, inbox, stream, reply, probe, fetch,
                   stale, loaded, ended, early>>

(* maybeHandleQueueEvent and onQueueProcess: the stream goes on with the next turn *)
FollowBlind ==   \* wrong
    /\ Take
    /\ LET s == Head(wire) IN
         /\ ~Ignored(s) /\ Mark(s) /\ Advance(s)
         /\ events[s].msg = stream /\ events[s].kind = "handoff"
         /\ stream' = events[s].val /\ ended' = ended \cup {stream}
    /\ UNCHANGED <<logVars, conn, from, feedSeq, inbox, reply, probe, cache, shown,
                   fetch, stale, loaded, early>>
FollowHandOff ==
    /\ Take
    /\ LET s == Head(wire) IN
         /\ ~Ignored(s) /\ Mark(s) /\ Advance(s)
         /\ events[s].msg = stream /\ events[s].kind = "handoff"
         /\ stream' = events[s].val /\ ended' = ended \cup {stream}
         /\ Starts(events[s].val)
    /\ UNCHANGED <<logVars, conn, from, feedSeq, inbox, reply, probe, fetch, stale,
                   loaded>>

(* onComplete, onError: the stream is removed and the messages are fetched again *)
NoInvalidate == UNCHANGED <<stale, fetch>>   \* wrong
Invalidate == stale' = TRUE /\ fetch' = NoFetch   \* a request under way is cancelled
Failed(entry) == [entry EXCEPT !.items = Append(@, 0)]
EndStream ==
    /\ wire # <<>>
    /\ LET s == Head(wire)
           done == IF events[s].kind = "error" THEN Set(cache, stream, Failed(shown[stream]))
                   ELSE cache
       IN /\ ~Ignored(s) /\ Mark(s)
          /\ events[s].msg = stream /\ events[s].kind \in EndKinds \ {"handoff"}
          /\ cache' = done /\ Idle(done, Larger(cursor, s))
    /\ stream' = 0 /\ ended' = ended \cup {stream} /\ Invalidate
    /\ Close   \* the last stream of the connection is gone
    /\ UNCHANGED <<logVars, reply, probe, loaded, early>>

-----------------------------------------------------------------------------
(* What goes wrong around the page *)

GiveUp ==   \* the fifth retry failed, or no token: failStreamsForChats
    /\ conn \in {"closed", "opening"} /\ stream # 0 /\ Fault("giveUp") /\ Close
    /\ LET done == Set(cache, stream, Failed(shown[stream]))
       IN  cache' = done /\ Idle(done, cursor)
    /\ stream' = 0
    /\ UNCHANGED <<pc, cur, taskVars, said, unflushed, lastSeq, events, live, row, outbox,
                   notices, reply, probe, seen, fetch, stale, loaded, ended, early>>
Refetch ==   \* react-query finds its data old when the network is back
    /\ ~stale /\ Fault("refetch") /\ stale' = TRUE
    /\ UNCHANGED <<pc, cur, taskVars, said, unflushed, lastSeq, events, live, row, outbox,
                   notices, netVars, stream, reply, probe, cursor, seen, cache, shown, fetch,
                   loaded, ended, early>>
Reload ==   \* only localStorage outlives the page
    /\ Fault("reload") /\ Close
    /\ stream' = 0 /\ reply' = 0 /\ probe' = NoProbe /\ seen' = {} /\ cache' = <<>>
    /\ shown' = <<>> /\ fetch' = NoFetch /\ stale' = TRUE /\ loaded' = FALSE
    /\ early' = {}
    /\ UNCHANGED <<pc, cur, taskVars, said, unflushed, lastSeq, events, live, row, outbox,
                   notices, cursor, ended>>
ServerDies ==
    /\ Crash \/ Exit
    /\ Close /\ UNCHANGED pageVars

-----------------------------------------------------------------------------

Server ==
    /\ WriterStep /\ (SlowReply \/ reply = 0 \/ pc # "streaming")
    /\ UNCHANGED <<netVars, pageVars>>
Feed == Subscribe \/ ReplayBacklog \/ Forward \/ Published
Deliver == Ignore \/ Pass \/ AppendText \/ FollowHandOff \/ EndStream
Browser == Open \/ Register \/ Reenter \/ FetchRead \/ FetchApply \/ Deliver
Disturbance ==
    \/ Drop \/ GiveUp \/ Refetch \/ Reload \/ ServerDies
    \/ PublishLost /\ UNCHANGED <<netVars, pageVars>>

Next == Send \/ OtherTurn \/ Probe \/ Server \/ Feed \/ Browser \/ Disturbance

(* The server's fairness is the log's.  The feed's loops and the browser's retries,
   requests and handlers go on; nothing makes a user send or a fault happen. *)
Fairness ==
    /\ WF_vars(TaskStep /\ UNCHANGED <<netVars, pageVars>>)
    /\ SF_vars((\E v \in Verdicts : Finish(v)) /\ Server)
    /\ WF_vars(Published) /\ WF_vars(Subscribe \/ ReplayBacklog \/ Forward)
    /\ WF_vars(Deliver) /\ WF_vars(Open \/ Register \/ FetchRead \/ FetchApply)
    /\ WF_vars(ServerDies /\ UNCHANGED faults)
Spec == FeedInit /\ [][Next]_vars /\ Fairness

-----------------------------------------------------------------------------
(* Properties *)

(* What the user sees of a turn that runs is a beginning of what the agent said, and
   of any turn nothing twice or out of order, whatever is dropped, replayed, refetched
   or reloaded (AppendText after Register, Reenter and FollowHandOff).  A turn that was on
   screen with text when its stream reached it is exempt: that text is replayed. *)
ViewFaithful ==
    \A m \in DOMAIN shown \ early : ~Doubled(m) => LET text == TextOf(shown[m].items) IN
        /\ \A j, k \in DOMAIN text : j < k => text[j] < text[k]
        /\ m \in InProgress => text = UpTo(Len(text))

(* "Fall back to DB to recover the skipped events" (chat.py): no hole on screen. *)
ViewGapless ==
    \A m \in DOMAIN shown :
        TextOf(shown[m].items) = UpTo(Len(TextOf(shown[m].items)))

(* Where the connection will take the chat up again, if it is or was to be lost now *)
ResumePoint == CASE conn = "closed" -> cursor [] conn = "opening" -> from [] OTHER -> feedSeq
(* While a turn is on screen, each of its committed texts and its end have been
   applied, are on the wire, or lie past the point from which the feed replays or
   forwards, and the duplicate filter lets them through. *)
NothingSkipped ==
    stream # 0 =>
        \A i \in live : events[i].msg = stream /\ events[i].kind \in EndKinds \cup {"text"} =>
            \/ /\ events[i].kind = "text"
               /\ \E k \in DOMAIN shown[stream].items : shown[stream].items[k] = events[i].val
            \/ i \notin seen /\ (i > ResumePoint \/ \E k \in DOMAIN wire : wire[k] = i)

(* Once the page was told that a turn ended and its refetch was applied, it shows
   the turn's final render: the row is final before the event says so. *)
EndedViewFinal ==
    stream = 0 /\ reply = 0 /\ ~stale /\ fetch = NoFetch =>
        \A m \in ended : m \in DOMAIN shown => shown[m].items = row[m].items

(* A page that follows a turn is told of its end, or stops following it. *)
StreamSettles == \A m \in 1..MaxTurns : stream = m ~> stream # m
=============================================================================
