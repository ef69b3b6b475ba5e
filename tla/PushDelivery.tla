---------------------------- MODULE PushDelivery ----------------------------
(***************************************************************************)
(* backend/app/services/push.py: one phone, one event and its delivery row,*)
(* and several senders (the maintenance loops of overlapping processes).   *)
(* A sender claims a due row with a lease, reads the device, asks Apple,   *)
(* and settles the row unless its lease was taken over.  The phone may     *)
(* register again, change accounts or log out at any step.                 *)
(*                                                                         *)
(* Times are abstract: a lease or a backoff may end whenever it runs, and  *)
(* next_attempt_at, by which every later write is fenced, is the sender    *)
(* that holds the lease.                                                   *)
(***************************************************************************)
EXTENDS Naturals

CONSTANTS
    Senders,
    Accounts,
    NoSender, NoAccount,
    MaxAttempts,        \* MAX_ATTEMPTS
    MaxRegistrations,   \* bound on register_device calls
    MaxStalls           \* bound on crashes and on leases outlived

ASSUME PushAssumption ==
    /\ NoSender \notin Senders /\ NoAccount \notin Accounts
    /\ MaxAttempts \in Nat \ {0} /\ MaxRegistrations \in Nat /\ MaxStalls \in Nat

VARIABLES
    registrations,  \* register_device calls so far, which also orders updated_at
    phone,          \* what the phone registered last
    device,         \* its row of push_devices, or NoDevice
    delivery,       \* the row of push_deliveries, or NoDelivery
    sender,         \* per sender: where it stands and what it has read
    outlived,       \* the busy senders whose lease is over, or whose row is gone
    stalls

pushVars == <<registrations, phone, device, delivery, sender, outlived, stalls>>

NoDevice == [account |-> NoAccount, updated |-> 0, genuine |-> FALSE]
\* genuine: Apple knows the token under the sandbox flag of this row.
Device == [account : Accounts \cup {NoAccount}, updated : 0..MaxRegistrations,
           genuine : BOOLEAN]
NoDelivery == [at |-> "none", holder |-> NoSender, attempts |-> 0]
Delivery == [at : {"none", "due", "leased", "lapsed", "backoff", "finished"},
             holder : Senders \cup {NoSender}, attempts : 0..MaxAttempts]
IdleSender == [at |-> "idle", claimed |-> 0, read |-> NoDevice]
Busy == {s \in Senders : sender[s].at # "idle"}

PushTypeOK ==
    /\ registrations \in 0..MaxRegistrations /\ phone \in Device /\ device \in Device
    /\ delivery \in Delivery
    /\ sender \in [Senders -> [at : {"idle", "claimed", "sending"},
                               claimed : 0..MaxRegistrations, read : Device]]
    /\ outlived \subseteq Busy /\ stalls \in 0..MaxStalls
    /\ delivery # NoDelivery => device # NoDevice
    /\ delivery.holder # NoSender => delivery.at \in {"leased", "lapsed", "finished"}

-----------------------------------------------------------------------------
(* The device *)

\* Mutant: the delivery outlives the device it goes to.
KeepDelivery == UNCHANGED <<delivery, outlived>>
DropDelivery == delivery' = NoDelivery /\ outlived' = Busy

\* An account of the phone keeps its row; another one's row goes, its deliveries too.
Register(a, genuine) ==
    /\ registrations < MaxRegistrations /\ registrations' = registrations + 1
    /\ device' = [account |-> a, updated |-> registrations', genuine |-> genuine]
    /\ phone' = device'
    /\ IF device.account = a THEN UNCHANGED <<delivery, outlived>> ELSE DropDelivery
    /\ UNCHANGED <<sender, stalls>>

Unregister ==
    /\ phone # NoDevice /\ phone' = NoDevice /\ device' = NoDevice
    /\ DropDelivery
    /\ UNCHANGED <<registrations, sender, stalls>>

\* enqueue: on_conflict_do_nothing.
Enqueue ==
    /\ device # NoDevice /\ delivery = NoDelivery
    /\ delivery' = [NoDelivery EXCEPT !.at = "due"]
    /\ UNCHANGED <<registrations, phone, device, sender, outlived, stalls>>

\* send_due deletes a row that has expired.
Expire ==
    /\ delivery # NoDelivery /\ DropDelivery
    /\ UNCHANGED <<registrations, phone, device, sender, stalls>>

-----------------------------------------------------------------------------
(* Senders *)

Unfinished == delivery.at \notin {"none", "finished"}
Due == delivery.at \in {"due", "lapsed"}

Claim(s) ==
    /\ sender[s].at = "idle" /\ Due
    /\ delivery' = [at |-> "leased", holder |-> s,
                    attempts |-> IF delivery.attempts < MaxAttempts
                                 THEN delivery.attempts + 1 ELSE MaxAttempts]
    /\ sender' = [sender EXCEPT ![s].at = "claimed", ![s].claimed = registrations]
    /\ UNCHANGED <<registrations, phone, device, outlived, stalls>>

Settle(s) ==
    /\ sender' = [sender EXCEPT ![s] = IdleSender]
    /\ outlived' = outlived \ {s}
\* Mutant: a sender writes whatever became of its lease.
AnyTime(s) == delivery # NoDelivery
Fenced(s) == delivery.holder = s
\* _finish; _retry_or_finish also finishes when the backoff would outlast the delivery.
Finish(s) == delivery' = IF Fenced(s) THEN [delivery EXCEPT !.at = "finished"] ELSE delivery
RetryOrFinish(s) ==
    \/ Finish(s)
    \/ /\ Fenced(s) /\ delivery.attempts < MaxAttempts
       /\ delivery' = [delivery EXCEPT !.at = "backoff", !.holder = NoSender]

\* The re-read after the claim: the row is gone, the user wants no notifications, or
\* the device it goes to is there.
ReadRow(s) ==
    /\ sender[s].at = "claimed"
    /\ IF delivery = NoDelivery THEN Settle(s) /\ UNCHANGED delivery
       ELSE \/ Settle(s) /\ Finish(s)
            \/ /\ sender' = [sender EXCEPT ![s].at = "sending", ![s].read = device]
               /\ UNCHANGED <<delivery, outlived>>
    /\ UNCHANGED <<registrations, phone, device, stalls>>

\* Apple takes it (200), or refuses it for good.
Answered(s) ==
    /\ sender[s].at = "sending" /\ Settle(s) /\ Finish(s)
    /\ UNCHANGED <<registrations, phone, device, stalls>>

\* No answer, 429 or 5xx.
Unavailable(s) ==
    /\ sender[s].at = "sending" /\ Settle(s) /\ RetryOrFinish(s)
    /\ UNCHANGED <<registrations, phone, device, stalls>>

\* 410: the device goes, unless it has registered since the claim.
SameDevice(s) == device.account = sender[s].read.account /\ device.updated <= sender[s].claimed

DeadToken(s) ==
    /\ sender[s].at = "sending" /\ ~sender[s].read.genuine
    /\ sender' = [sender EXCEPT ![s] = IdleSender]
    /\ IF device # NoDevice /\ SameDevice(s)
       THEN device' = NoDevice /\ delivery' = NoDelivery /\ outlived' = Busy \ {s}
       ELSE RetryOrFinish(s) /\ outlived' = outlived \ {s} /\ UNCHANGED device
    /\ UNCHANGED <<registrations, phone, stalls>>

SenderCrashes(s) ==
    /\ sender[s].at # "idle" /\ stalls < MaxStalls /\ stalls' = stalls + 1
    /\ Settle(s)
    /\ delivery' = IF Fenced(s) THEN [delivery EXCEPT !.holder = NoSender] ELSE delivery
    /\ UNCHANGED <<registrations, phone, device>>

\* Mutant: a claim without a lease.
NeverLapse == FALSE /\ UNCHANGED pushVars
\* The lease of a sender that crashed ends, or that of one that was stopped for longer.
Lapse ==
    /\ delivery.at = "leased"
    /\ IF delivery.holder = NoSender THEN UNCHANGED <<stalls, outlived>>
       ELSE /\ stalls < MaxStalls /\ stalls' = stalls + 1
            /\ outlived' = outlived \cup {delivery.holder}
    /\ delivery' = [delivery EXCEPT !.at = "lapsed"]
    /\ UNCHANGED <<registrations, phone, device, sender>>

BackoffOver ==
    /\ delivery.at = "backoff" /\ delivery' = [delivery EXCEPT !.at = "due"]
    /\ UNCHANGED <<registrations, phone, device, sender, outlived, stalls>>

-----------------------------------------------------------------------------
PushInit ==
    /\ registrations = 0 /\ phone = NoDevice /\ device = NoDevice /\ delivery = NoDelivery
    /\ sender = [s \in Senders |-> IdleSender] /\ outlived = {} /\ stalls = 0

SenderStep(s) == Claim(s) \/ ReadRow(s) \/ Answered(s) \/ Unavailable(s) \/ DeadToken(s)
PushNext ==
    \/ \E a \in Accounts, genuine \in BOOLEAN : Register(a, genuine)
    \/ Unregister \/ Enqueue \/ Expire \/ Lapse \/ BackoffOver
    \/ \E s \in Senders : SenderStep(s) \/ SenderCrashes(s)

\* The loops run, and leases and backoffs end.
PushFairness ==
    /\ WF_pushVars(Lapse) /\ WF_pushVars(BackoffOver)
    /\ \A s \in Senders : WF_pushVars(SenderStep(s))
PushSpec == PushInit /\ [][PushNext]_pushVars /\ PushFairness

-----------------------------------------------------------------------------
(* Two senders are at work on the same notification only after one of them outlived
   its lease: nothing a late sender writes lets a third one in. *)
OneSenderPerLease == \A s, t \in Busy \ outlived : s = t

(* A phone that is registered with a token Apple knows keeps its row, whatever late
   answers to older registrations say. *)
PhoneStaysRegistered == phone # NoDevice /\ phone.genuine => device = phone

PushSafe == OneSenderPerLease /\ PhoneStaysRegistered

(* Every notification is sent, given up or withdrawn, crashed senders included. *)
PushSettles == Unfinished ~> ~Unfinished
=============================================================================
