---------------------------- MODULE ChatPromise ----------------------------
(***************************************************************************)
(* What a chat promises to its users, without requests, rows, markers or   *)
(* sessions: a queued message is taken out of the queue, and from there    *)
(* started, steered into the running turn or given back; and one turn at a *)
(* time drives the agent.  ChatTurn implements it (its Promise).           *)
(***************************************************************************)
EXTENDS FiniteSets

CONSTANTS Turns, Msgs

VARIABLES
    where,   \* what became of each message: "unsent", "queued", "taken",
             \* "started", "steered", "removed" or "lost"
    owner    \* the turns driving the agent

vars == <<where, owner>>

Init == where = [m \in Msgs |-> "unsent"] /\ owner = {}

Move(m, from, to) == where[m] = from /\ where' = [where EXCEPT ![m] = to]

Queue(m) == Move(m, "unsent", "queued") /\ UNCHANGED owner

Remove(S) ==
    /\ \A m \in S : where[m] = "queued"
    /\ where' = [m \in Msgs |-> IF m \in S THEN "removed" ELSE where[m]]
    /\ UNCHANGED owner

Take(m) == Move(m, "queued", "taken") /\ UNCHANGED owner
GiveBack(m) == Move(m, "taken", "queued") /\ UNCHANGED owner

(* A failure of the cache may lose the message being taken or given back. *)
Lose(m) ==
    /\ Move(m, "taken", "lost") \/ Move(m, "queued", "lost")
    /\ UNCHANGED owner

(* A message joins the running turn only while there is one ... *)
Steer(m) == Move(m, "taken", "steered") /\ owner # {} /\ UNCHANGED owner

(* ... and starts a turn of its own only when none is left running. *)
Start(m) == Move(m, "taken", "started") /\ owner' = {}

Own(t) == owner = {} /\ owner' = {t} /\ UNCHANGED where
Leave == owner # {} /\ owner' = {} /\ UNCHANGED where

(* The process dies, with what it had in its hands, and perhaps with its cache. *)
Die(cacheDies) ==
    /\ owner' = {}
    /\ where' = [m \in Msgs |->
                   IF where[m] \in {"taken"} \cup (IF cacheDies THEN {"queued"} ELSE {})
                   THEN "lost" ELSE where[m]]

Next ==
    \/ \E m \in Msgs : Queue(m) \/ Take(m) \/ GiveBack(m) \/ Lose(m)
                       \/ Steer(m) \/ Start(m)
    \/ \E S \in SUBSET Msgs : Remove(S)
    \/ \E t \in Turns : Own(t)
    \/ \E b \in BOOLEAN : Die(b)
    \/ Leave

Spec == Init /\ [][Next]_vars
=============================================================================
