------------------------------ MODULE Terminal ------------------------------
(***************************************************************************)
(* backend/app/services/terminal.py and api/endpoints/websocket.py: the    *)
(* records that one terminal (user, sandbox, terminal id and cwd) has one  *)
(* after another, the PTYs they start, the web sockets that attach to them *)
(* and the tasks that close them.  Nothing is awaited within an action.    *)
(***************************************************************************)
EXTENDS Naturals

CONSTANTS
    Clients,        \* web sockets
    NoClient,
    Sandbox,        \* the closer that is terminate_for_sandbox
    MaxRecords,     \* bound on records
    MaxPtys,        \* bound on PTYs
    MaxStops        \* bound on close frames, exits, failed writes and cut short closes

ASSUME TerminalAssumption ==
    /\ NoClient \notin Clients /\ Sandbox \notin Clients
    /\ (Clients \cup {Sandbox}) \cap (1..MaxPtys) = {}
    /\ MaxRecords \in Nat \ {0} /\ MaxPtys \in Nat \ {0} /\ MaxStops \in Nat

Records == 1..MaxRecords
Ptys == 1..MaxPtys
Closers == Clients \cup Ptys \cup {Sandbox}

VARIABLES
    registered,     \* _sessions[key], 0 for none
    record,         \* TerminalSessionRecord
    pty,            \* per PTY: its record and whether its shell lives
    client,         \* per web socket: how far its handler is, and its record
    closed,         \* web sockets the server closed
    closer,         \* per close(): how far it is, its record and the socket it will close
    sandboxGone,        \* the workspace is gone
    touched,        \* records that had something closed, or whose shell is no more
    stuck,          \* those among them whose shell ended and nothing will close them
    overlooked,     \* web sockets that lost the terminal and that nobody closes for it
    stops

termVars == <<registered, record, pty, client, closed, closer, sandboxGone,
              touched, stuck, overlooked, stops>>

NewRecord == [pty |-> 0, queue |-> FALSE, input |-> FALSE, active |-> NoClient,
              output |-> NoClient, lock |-> NoClient]
Away == [at |-> "away", of |-> 0]
NoCloser == [at |-> "none", of |-> 0, saw |-> NoClient]
AnyClient == Clients \cup {NoClient}

TerminalTypeOK ==
    /\ registered \in 0..MaxRecords /\ closed \subseteq Clients /\ sandboxGone \in BOOLEAN
    /\ record \in [Records -> [pty : 0..MaxPtys, queue : BOOLEAN, input : BOOLEAN,
                               active : AnyClient, output : AnyClient, lock : AnyClient]]
    /\ pty \in [Ptys -> [of : 0..MaxRecords, at : {"none", "open", "exited", "killed"}]]
    /\ client \in [Clients -> [of : 0..MaxRecords,
            at : {"away", "joined", "spawning", "resizing", "taking", "serving",
                  "closing"}]]
    /\ closer \in [Closers -> [of : 0..MaxRecords, saw : AnyClient,
            at : {"none", "tmux", "exit", "input", "pty", "cleanup"}]]
    /\ stuck \subseteq touched /\ touched \subseteq Records /\ overlooked \subseteq Clients
    /\ stops \in 0..MaxStops
    /\ \A w \in Clients : client[w].at \in {"spawning", "resizing"}
                            <=> \E r \in Records : record[r].lock = w

-----------------------------------------------------------------------------
(* A connection *)

Unused(r) ==
    record[r] = NewRecord /\ r \notin touched /\ \A w \in Clients : client[w].of # r

\* get_or_create: the record of the key, or a new one.
Connect(w) ==
    /\ client[w].at = "away" /\ ~sandboxGone
    /\ \E r \in Records :
         /\ IF registered # 0 THEN r = registered
            ELSE Unused(r) /\ \A s \in Records : s < r => ~Unused(s)
         /\ registered' = r
         /\ client' = [client EXCEPT ![w] = [at |-> "joined", of |-> r]]
    /\ UNCHANGED <<record, pty, closed, closer, sandboxGone, touched, stuck,
                   overlooked, stops>>

\* Mutant: ensure_started without start_lock.
Unserialized(r) == TRUE
StartLockFree(r) == record[r].lock = NoClient

\* The init frame: ensure_started up to the call of the provider.
Initialise(w) ==
    LET r == client[w].of
        spawn == record[r].pty = 0
    IN
    /\ client[w].at = "joined" /\ StartLockFree(r)
    /\ client' = [client EXCEPT ![w].at = IF spawn THEN "spawning" ELSE "resizing"]
    /\ record' = [record EXCEPT ![r].lock = w, ![r].queue = @ \/ spawn]
    /\ UNCHANGED <<registered, pty, closed, closer, sandboxGone, touched, stuck,
                   overlooked, stops>>

\* attach after the other socket was closed, if there was one.  A third may have come
\* in between, and a record that is being closed stays so.
Attached(w, r, rec) ==
    /\ record' = [record EXCEPT ![r] = [rec EXCEPT !.active = w,
            !.output = IF rec.pty = 0 THEN @ ELSE IF rec.queue THEN w ELSE NoClient]]
    /\ client' = [client EXCEPT ![w].at = "serving"]
    /\ overlooked' = overlooked \cup ({rec.active} \ (closed' \cup {NoClient, w}))
                                \cup (IF r \in touched THEN {w} ELSE {})

\* attach: the socket that is attached is closed first, and that is awaited.
Attach(w, r, rec) ==
    IF rec.active \in {NoClient, w}
    THEN closed' = closed /\ Attached(w, r, rec)
    ELSE /\ closed' = closed \cup {rec.active}
         /\ client' = [client EXCEPT ![w].at = "taking"]
         /\ record' = [record EXCEPT ![r] = rec] /\ UNCHANGED overlooked

Spawned(w) ==
    LET r == client[w].of IN
    /\ client[w].at = "spawning"
    /\ \E p \in Ptys :
        /\ pty[p].at = "none" /\ \A q \in Ptys : q < p => pty[q].at # "none"
        /\ pty' = [pty EXCEPT ![p] = [of |-> r, at |-> "open"]]
        /\ Attach(w, r, [record[r] EXCEPT !.pty = p, !.input = TRUE, !.lock = NoClient])
    /\ UNCHANGED <<registered, closer, sandboxGone, touched, stuck, stops>>

Resized(w) ==
    /\ client[w].at = "resizing"
    /\ Attach(w, client[w].of, [record[client[w].of] EXCEPT !.lock = NoClient])
    /\ UNCHANGED <<registered, pty, closer, sandboxGone, touched, stuck, stops>>

TakesOver(w) ==
    /\ client[w].at = "taking" /\ closed' = closed
    /\ Attached(w, client[w].of, record[client[w].of])
    /\ UNCHANGED <<registered, pty, closer, sandboxGone, touched, stuck, stops>>

\* Mutant: a handler detaches whoever is attached.
WhoeverIsAttached(w, r) == TRUE
StillAttached(w, r) == record[r].active = w

Gone(ws) ==
    /\ client' = [w \in Clients |-> IF w \in ws THEN Away ELSE client[w]]
    /\ closed' = closed \ ws /\ overlooked' = overlooked \ ws

\* The socket goes, the client detaches, the device is revoked, or a start raises.
Leave(w) ==
    LET r == client[w].of IN
    /\ client[w].at \notin {"away", "closing"}
    /\ Gone({w})
    /\ record' = [record EXCEPT
            ![r].lock = IF @ = w THEN NoClient ELSE @,
            ![r].active = IF StillAttached(w, r) THEN NoClient ELSE @,
            ![r].output = IF StillAttached(w, r) THEN NoClient ELSE @]
    /\ UNCHANGED <<registered, pty, closer, sandboxGone, touched, stuck, stops>>

-----------------------------------------------------------------------------
(* Closing a record *)

\* The close frame, or the deletion of the workspace: terminate up to kill_tmux_session.
Terminate(w) ==
    /\ client[w].at \in {"joined", "serving"}
    /\ stops < MaxStops /\ stops' = stops + 1
    /\ client' = [client EXCEPT ![w].at = "closing"]
    /\ closer' = [closer EXCEPT ![w] = [NoCloser EXCEPT !.at = "tmux", !.of = client[w].of]]
    /\ touched' = touched \cup {client[w].of}
    /\ UNCHANGED <<registered, record, pty, closed, sandboxGone, stuck, overlooked>>

TerminateForSandbox ==
    /\ ~sandboxGone /\ sandboxGone' = TRUE /\ registered # 0
    /\ closer' = [closer EXCEPT ![Sandbox] =
                     [NoCloser EXCEPT !.at = "tmux", !.of = registered]]
    /\ touched' = touched \cup {registered}
    /\ UNCHANGED <<registered, record, pty, client, closed, stuck, overlooked, stops>>

\* _schedule_pty_exit: the shell ended by itself, or with its tmux session.
PtyExits(p) ==
    /\ pty[p].at = "open"
    /\ stops < MaxStops /\ stops' = stops + 1
    /\ pty' = [pty EXCEPT ![p].at = "exited"]
    /\ closer' = [closer EXCEPT ![p] = [NoCloser EXCEPT !.at = "exit", !.of = pty[p].of]]
    /\ touched' = touched \cup {pty[p].of}
    /\ UNCHANGED <<registered, record, client, closed, sandboxGone, stuck, overlooked>>

\* send_pty_input: a write that fails kills the PTY, whose reader then reports no exit.
InputFails(p) ==
    /\ pty[p].at = "open"
    /\ stops < MaxStops /\ stops' = stops + 1
    /\ pty' = [pty EXCEPT ![p].at = "killed"]
    /\ touched' = touched \cup {pty[p].of} /\ stuck' = stuck \cup {pty[p].of}
    /\ UNCHANGED <<registered, record, client, closed, closer, sandboxGone, overlooked>>

Killed(ps) == [p \in Ptys |-> IF p \in ps /\ pty[p].at # "none"
                              THEN [pty[p] EXCEPT !.at = "killed"] ELSE pty[p]]

\* close: provider.cleanup, for whatever PTYs the record has started so far.
CleansUp(c, r, rec, seen) ==
    /\ record' = [record EXCEPT ![r] = [rec EXCEPT !.pty = 0]]
    /\ pty' = Killed({p \in Ptys : pty[p].of = r})
    /\ closer' = [closer EXCEPT ![c] = [at |-> "cleanup", of |-> r, saw |-> seen]]

\* close: the queues go, then the PTY.
DropsQueues(c, r, rec, seen) ==
    LET bare == [rec EXCEPT !.queue = FALSE, !.input = FALSE] IN
    IF rec.pty = 0 THEN CleansUp(c, r, bare, seen)
    ELSE /\ record' = [record EXCEPT ![r] = bare]
         /\ pty' = Killed({rec.pty})
         /\ closer' = [closer EXCEPT ![c] = [at |-> "pty", of |-> r, saw |-> seen]]

\* close up to its first await; _handle_pty_exit has read active_websocket before.
CloseBegins(c) ==
    LET r == closer[c].of
        rec == [record[r] EXCEPT !.active = NoClient, !.output = NoClient]
        seen == IF closer[c].at = "exit" THEN record[r].active ELSE NoClient
    IN
    /\ closer[c].at \in {"tmux", "exit"}
    /\ IF rec.input
       THEN /\ record' = [record EXCEPT ![r] = rec] /\ UNCHANGED pty
            /\ closer' = [closer EXCEPT ![c] = [at |-> "input", of |-> r, saw |-> seen]]
       ELSE DropsQueues(c, r, rec, seen)
    /\ overlooked' = overlooked \cup ({record[r].active} \ {seen, c, NoClient})
    /\ UNCHANGED <<registered, client, closed, sandboxGone, touched, stuck, stops>>

InputTaskEnded(c) ==
    /\ closer[c].at = "input"
    /\ DropsQueues(c, closer[c].of, record[closer[c].of], closer[c].saw)
    /\ UNCHANGED <<registered, client, closed, sandboxGone, touched, stuck,
                   overlooked, stops>>

PtyKilled(c) ==
    /\ closer[c].at = "pty"
    /\ CleansUp(c, closer[c].of, record[closer[c].of], closer[c].saw)
    /\ UNCHANGED <<registered, client, closed, sandboxGone, touched, stuck,
                   overlooked, stops>>

Serving == {w \in Clients : client[w].at = "serving"}

\* What its closer does next: a handler returns, an exit closes the socket it saw.
Closed(c) ==
    /\ closer' = [closer EXCEPT ![c] = NoCloser]
    /\ IF c \in Clients THEN Gone({c})
       ELSE /\ closed' = closed \cup ({closer[c].saw} \cap Serving)
            /\ UNCHANGED <<client, overlooked>>

\* on_close: _remove(key) drops the record that is registered now.
CleanedUp(c) ==
    /\ closer[c].at = "cleanup" /\ registered' = 0 /\ Closed(c)
    /\ UNCHANGED <<record, pty, sandboxGone, touched, stuck, stops>>

\* A call of close() raises, or its handler is cancelled in it.
CutShort(c) ==
    /\ closer[c].at \in {"tmux", "pty", "cleanup"} /\ Closed(c)
    /\ stops < MaxStops /\ stops' = stops + 1
    /\ stuck' = stuck \cup {closer[c].of}
    /\ UNCHANGED <<registered, record, pty, sandboxGone, touched>>

-----------------------------------------------------------------------------
TerminalInit ==
    /\ registered = 0 /\ record = [r \in Records |-> NewRecord]
    /\ pty = [p \in Ptys |-> [of |-> 0, at |-> "none"]]
    /\ client = [w \in Clients |-> Away] /\ closed = {}
    /\ closer = [c \in Closers |-> NoCloser]
    /\ sandboxGone = FALSE /\ touched = {} /\ stuck = {} /\ overlooked = {} /\ stops = 0

TerminalNext ==
    \/ \E w \in Clients : Connect(w) \/ Initialise(w) \/ Spawned(w) \/ Resized(w)
                            \/ TakesOver(w) \/ Leave(w) \/ Terminate(w)
    \/ TerminateForSandbox
    \/ \E p \in Ptys : PtyExits(p) \/ InputFails(p)
    \/ \E c \in Closers : CloseBegins(c) \/ InputTaskEnded(c) \/ PtyKilled(c)
                            \/ CleanedUp(c) \/ CutShort(c)
TerminalSpec == TerminalInit /\ [][TerminalNext]_termVars

-----------------------------------------------------------------------------
BeingClosed(r) == \E c \in Closers : closer[c].at # "none" /\ closer[c].of = r

(* A record has one PTY at a time, however many sockets open it at once and however
   often it is closed. *)
OneShell == \A p, q \in Ptys : pty[p].at = "open" /\ pty[q] = pty[p] => p = q

(* The next connection of a terminal finds a record without a PTY, or one whose shell
   lives, or one that is being closed. *)
NoDeadShell ==
    registered # 0 /\ registered \notin stuck /\ record[registered].pty # 0
        => pty[record[registered].pty].at = "open" \/ BeingClosed(registered)

(* A socket that asked for the terminal shows the output of a live shell until it is
   closed or overlooked: by whichever older socket goes late, whoever takes over, and
   whenever the shell exits. *)
Served ==
    \A w \in Serving \ (closed \cup overlooked) :
        LET r == client[w].of
            rec == record[r]
        IN r \notin stuck /\ ~BeingClosed(r)
            => /\ rec.active = w /\ rec.output = w /\ rec.queue /\ rec.input
               /\ pty[rec.pty].at = "open"

TerminalSafe == OneShell /\ NoDeadShell /\ Served
=============================================================================
