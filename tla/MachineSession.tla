--------------------------- MODULE MachineSession ---------------------------
(***************************************************************************)
(* frontend/src: one remote machine of one page, from services/            *)
(* machineVault.ts (the refresh token, in memory or in the keychain),      *)
(* machineSession.ts (access grant and status checks), machineActions.ts   *)
(* (pair again, remove) and the machine's client in lib/api.ts.            *)
(*                                                                         *)
(* Pairing makes a device on the machine's server.  A token is its device: *)
(* the server takes it as long as the device is not revoked, a retried     *)
(* rotation included (module TokenRefresh).  Calls of the vault wait for   *)
(* one another; what follows a call's end runs before anything else.  The  *)
(* first pairing, which nothing can race, is the initial state.            *)
(***************************************************************************)
EXTENDS Subsequence

CONSTANT MaxDevices     \* bound on pairings

ASSUME MachineAssumption == MaxDevices \in Nat \ {0}

VARIABLES
    alive,          \* devices the server has not revoked
    devices,        \* how many it has paired
    vault,          \* device of the refresh token, 0 for none
    grant,          \* accessGrants: device of the access token, 0 for none
    fresh,          \* the grant has more than a minute left
    listed,         \* the machine is in the store
    pairing,        \* its device; every pairing changes the machine's identity
    connection,     \* its status in the store
    resolved,       \* the pairing that status was resolved for
    calls,          \* who waits for the vault's lock; the head holds it
    used,           \* per caller: device of the token it has sent
    check,          \* inflightChecks: how far, and the pairing it began with
    request,        \* of a request of the machine's client
    repair,         \* of pairMachine, "repair"
    release,        \* per remover: how far, its machine's device, what it reports
    raced           \* a removal and a repair were under way at once

machineVars == <<alive, devices, vault, grant, fresh, listed, pairing, connection, resolved,
                 calls, used, check, request, repair, release, raced>>
serverVars == <<alive, devices>>
accessVars == <<grant, fresh>>
storeVars == <<listed, pairing>>
statusVars == <<connection, resolved>>
lockVars == <<calls, used>>

\* removeMachine in this page, and in another tab of the browser.
Removers == {"here", "elsewhere"}
Callers == Removers \cup {"check", "request", "repair"}
NoCheck == [at |-> "none", of |-> 0]
NoRelease == [at |-> "none", of |-> 0, revoked |-> FALSE]

MachineTypeOK ==
    /\ alive \subseteq 1..devices /\ devices \in 1..MaxDevices
    /\ vault \in 0..devices /\ grant \in 0..devices /\ fresh \in BOOLEAN
    /\ listed \in BOOLEAN /\ pairing \in 1..devices /\ resolved \in 0..devices
    /\ connection \in {"none", "checking", "online", "offline", "different_server",
                       "session_revoked"}
    /\ calls \in Seq(Callers) /\ \A i, j \in DOMAIN calls : calls[i] = calls[j] => i = j
    /\ used \in [Callers -> 0..devices]
    /\ check \in [at : {"none", "probing", "refreshing"}, of : 0..devices]
    /\ request \in {"none", "sent", "refreshing"}
    /\ repair \in {"none", "probing", "calling"}
    /\ release \in [Removers -> [at : {"none", "revoking", "forgetting", "deleting", "done"},
                                 of : 0..devices, revoked : BOOLEAN]]
    /\ raced \in BOOLEAN

-----------------------------------------------------------------------------
(* The vault *)

\* Mutant: the calls of the vault do not wait for one another.
AnyTurn(c) == \E i \in DOMAIN calls : calls[i] = c
Turn(c) == calls # <<>> /\ Head(calls) = c
Enter(c) == calls' = Append(calls, c) /\ UNCHANGED used
Exit(c) ==
    /\ calls' = Picked(calls, {i \in DOMAIN calls : calls[i] # c})
    /\ used' = [used EXCEPT ![c] = 0]

DropAccess == grant' = 0 /\ fresh' = FALSE
StoreAccess(d) == grant' = d /\ fresh' = TRUE

Ask(c) ==
    /\ Turn(c) /\ used[c] = 0 /\ vault # 0
    /\ used' = [used EXCEPT ![c] = vault] /\ UNCHANGED calls

\* refresh, renewMachineAccess: the token is taken, or the session is lost.
Renewed(c) ==
    /\ used[c] \in alive /\ Exit(c)
    /\ vault' = used[c] /\ StoreAccess(used[c])
\* Mutant: the access token of a lost session stays.
SessionLostOnly(c) ==
    /\ \/ Turn(c) /\ used[c] = 0 /\ vault = 0
       \/ used[c] # 0 /\ used[c] \notin alive
    /\ Exit(c) /\ vault' = 0 /\ UNCHANGED accessVars
SessionLost(c) ==
    /\ \/ Turn(c) /\ used[c] = 0 /\ vault = 0
       \/ used[c] # 0 /\ used[c] \notin alive
    /\ Exit(c) /\ vault' = 0 /\ DropAccess
NoAnswer(c) == used[c] # 0 /\ Exit(c) /\ UNCHANGED <<vault, accessVars>>

-----------------------------------------------------------------------------
(* Status checks: checkMachine, resolveConnection *)

BeginCheck(d) ==
    /\ check' = [at |-> "probing", of |-> d]
    /\ IF connection = "none" THEN connection' = "checking" /\ resolved' = d
       ELSE UNCHANGED statusVars

StartCheck ==
    /\ check = NoCheck /\ listed
    /\ BeginCheck(pairing)
    /\ UNCHANGED <<serverVars, vault, accessVars, storeVars, lockVars, request, repair, release,
                   raced>>

\* Mutant: the result is stored whatever was paired meanwhile.
SettleAnyPairing(status) ==
    /\ check' = NoCheck
    /\ IF listed THEN connection' = status /\ resolved' = check.of ELSE UNCHANGED statusVars
\* A check of an older pairing is made again; a removed machine has no status.
SettleCheck(status) ==
    IF listed /\ check.of # pairing
    THEN check' = [at |-> "probing", of |-> pairing] /\ UNCHANGED statusVars
    ELSE /\ check' = NoCheck
         /\ IF listed THEN connection' = status /\ resolved' = check.of
            ELSE UNCHANGED statusVars

\* The probes end: no answer, another server, or a grant that lasts, or is to be renewed.
Probed ==
    /\ check.at = "probing"
    /\ \/ SettleCheck("offline") /\ UNCHANGED <<accessVars, lockVars>>
       \/ SettleCheck("different_server") /\ DropAccess /\ UNCHANGED lockVars
       \/ fresh /\ SettleCheck("online") /\ UNCHANGED <<accessVars, lockVars>>
       \/ /\ ~fresh /\ check' = [check EXCEPT !.at = "refreshing"] /\ Enter("check")
          /\ UNCHANGED <<accessVars, statusVars>>
    /\ UNCHANGED <<serverVars, vault, storeVars, request, repair, release, raced>>

CheckAsks ==
    /\ Ask("check")
    /\ UNCHANGED <<serverVars, vault, accessVars, storeVars, statusVars, check, request, repair,
                   release, raced>>
CheckRenewed ==
    /\ check.at = "refreshing"
    /\ \/ Renewed("check") /\ SettleCheck("online")
       \/ SessionLost("check") /\ SettleCheck("session_revoked")
       \/ NoAnswer("check") /\ SettleCheck("offline")
    /\ UNCHANGED <<serverVars, storeVars, request, repair, release, raced>>

-----------------------------------------------------------------------------
(* Requests: request, recoverFromUnauthorized, machineAuth *)

Online == listed /\ connection = "online"

SendRequest ==
    /\ request = "none" /\ Online /\ request' = "sent"
    /\ UNCHANGED <<serverVars, vault, accessVars, storeVars, statusVars, lockVars, check, repair,
                   release, raced>>

\* The server takes the access token that was sent, or there is no answer; or 401, since the
\* token has expired or lost its device, and a refresh if the machine is still connected.
RequestAnswered ==
    /\ request = "sent"
    /\ \/ request' = "none" /\ UNCHANGED lockVars
       \/ Online /\ request' = "refreshing" /\ Enter("request")
    /\ UNCHANGED <<serverVars, vault, accessVars, storeVars, statusVars, check, repair, release,
                   raced>>

RequestAsks ==
    /\ Ask("request")
    /\ UNCHANGED <<serverVars, vault, accessVars, storeVars, statusVars, check, request, repair,
                   release, raced>>
\* markMachineSessionRevoked, if the session is lost.
RequestRenewed ==
    /\ request = "refreshing" /\ request' = "none"
    /\ \/ Renewed("request") /\ UNCHANGED statusVars
       \/ /\ SessionLost("request")
          /\ IF listed THEN connection' = "session_revoked" /\ resolved' = pairing
             ELSE UNCHANGED statusVars
       \/ NoAnswer("request") /\ UNCHANGED statusVars
    /\ UNCHANGED <<serverVars, storeVars, check, repair, release, raced>>

-----------------------------------------------------------------------------
(* Pairing again: pairMachine *)

Releasing(r) == release[r].at \notin {"none", "done"}
Cross == raced' = (raced \/ ~listed \/ \E r \in Removers : Releasing(r))

StartRepair ==
    /\ repair = "none" /\ listed /\ devices < MaxDevices /\ repair' = "probing"
    /\ UNCHANGED <<serverVars, vault, accessVars, storeVars, statusVars, lockVars, check,
                   request, release, raced>>

\* The server answers the probes and is the one it was, or the repair ends here.
RepairProbed ==
    /\ repair = "probing"
    /\ \/ repair' = "calling" /\ Enter("repair")
       \/ repair' = "none" /\ UNCHANGED lockVars
    /\ UNCHANGED <<serverVars, vault, accessVars, storeVars, statusVars, check, request,
                   release, raced>>

RepairAsks ==
    /\ repair = "calling" /\ Turn("repair") /\ used["repair"] = 0
    /\ \/ /\ devices' = devices + 1 /\ alive' = alive \cup {devices + 1}
          /\ used' = [used EXCEPT !["repair"] = devices + 1] /\ UNCHANGED <<calls, repair>>
       \/ Exit("repair") /\ repair' = "none" /\ UNCHANGED serverVars
    /\ UNCHANGED <<vault, accessVars, storeVars, statusVars, check, request, release, raced>>

\* The new session, access token and pairing; then checkMachine, unless a check is under way.
RepairAnswered ==
    LET d == used["repair"] IN
    /\ repair = "calling" /\ d # 0
    /\ repair' = "none" /\ Exit("repair")
    /\ \/ /\ vault' = d /\ StoreAccess(d) /\ Cross
          /\ pairing' = IF listed THEN d ELSE pairing
          /\ IF listed /\ check = NoCheck THEN BeginCheck(d) ELSE UNCHANGED <<check, statusVars>>
       \/ UNCHANGED <<vault, accessVars, pairing, check, statusVars, raced>>
    /\ UNCHANGED <<serverVars, listed, request, release>>

-----------------------------------------------------------------------------
(* Removal: removeMachine, releaseMachinesRemovedElsewhere, releaseMachineSession *)

Begin(r, revoke) ==
    /\ release[r].at = "none" /\ listed /\ Enter(r)
    /\ release' = [release EXCEPT ![r] =
                      [at |-> IF revoke THEN "revoking" ELSE "forgetting",
                       of |-> pairing, revoked |-> FALSE]]

RemoveHere ==
    /\ Begin("here", connection = "online")
    /\ UNCHANGED <<serverVars, vault, accessVars, storeVars, statusVars, check, request, repair,
                   raced>>
RemovedElsewhere ==
    /\ Begin("elsewhere", TRUE) /\ listed' = FALSE
    /\ UNCHANGED <<serverVars, vault, accessVars, pairing, statusVars, check, request, repair,
                   raced>>

\* The session is deleted, then the access token; this page's removal takes the machine
\* off the list.
Released(r, revoked) ==
    /\ Exit(r) /\ vault' = 0 /\ DropAccess
    /\ release' = [release EXCEPT ![r].at = "done", ![r].revoked = revoked]
    /\ IF r = "here" THEN listed' = FALSE /\ connection' = "none" /\ resolved' = 0
       ELSE UNCHANGED <<listed, statusVars>>
    /\ UNCHANGED <<pairing, check, request, repair, raced>>

Forget(r) ==
    /\ release[r].at = "forgetting" /\ Turn(r)
    /\ Released(r, FALSE) /\ UNCHANGED serverVars

\* revokeDevice: the token is rotated for an access token first.
RevokeAsks(r) ==
    /\ release[r].at = "revoking" /\ Ask(r)
    /\ UNCHANGED <<serverVars, vault, accessVars, storeVars, statusVars, check, request, repair,
                   release, raced>>
RevokeRotated(r) ==
    /\ release[r].at = "revoking" /\ used[r] \in alive
    /\ release' = [release EXCEPT ![r].at = "deleting"]
    /\ UNCHANGED <<serverVars, vault, accessVars, storeVars, statusVars, lockVars, check,
                   request, repair, raced>>
RevokeEnds(r) ==
    /\ release[r].at = "revoking" /\ UNCHANGED serverVars
    /\ \/ Turn(r) /\ used[r] = 0 /\ vault = 0 /\ Released(r, FALSE)
       \/ used[r] # 0 /\ used[r] \notin alive /\ Released(r, TRUE)
       \/ used[r] # 0 /\ Released(r, FALSE)

\* DELETE of the device, taken or not; its answer may be lost.
DeleteDevice(r) ==
    /\ release[r].at = "deleting" /\ UNCHANGED devices
    /\ \/ alive' = alive \ {release[r].of} /\ \E told \in BOOLEAN : Released(r, told)
       \/ UNCHANGED alive /\ Released(r, FALSE)

-----------------------------------------------------------------------------
(* The world *)

RevokeOnServer(d) ==
    /\ d \in alive /\ alive' = alive \ {d}
    /\ UNCHANGED <<devices, vault, accessVars, storeVars, statusVars, lockVars, check, request,
                   repair, release, raced>>

GrantExpires ==
    /\ fresh /\ fresh' = FALSE
    /\ UNCHANGED <<serverVars, vault, grant, storeVars, statusVars, lockVars, check, request,
                   repair, release, raced>>

\* The page is loaded again, or the desktop app restarts: a browser's vault goes with the
\* page, a keychain stays.
Reload ==
    /\ vault' \in {vault, 0} /\ DropAccess
    /\ connection' = "none" /\ resolved' = 0
    /\ calls' = <<>> /\ used' = [c \in Callers |-> 0]
    /\ check' = NoCheck /\ request' = "none" /\ repair' = "none"
    /\ release' = [r \in Removers |-> IF Releasing(r) THEN NoRelease ELSE release[r]]
    /\ UNCHANGED <<serverVars, storeVars, raced>>

-----------------------------------------------------------------------------
MachineInit ==
    /\ alive = {1} /\ devices = 1 /\ vault = 1 /\ grant = 1 /\ fresh = TRUE
    /\ listed = TRUE /\ pairing = 1 /\ connection = "online" /\ resolved = 1
    /\ calls = <<>> /\ used = [c \in Callers |-> 0]
    /\ check = NoCheck /\ request = "none" /\ repair = "none"
    /\ release = [r \in Removers |-> NoRelease] /\ raced = FALSE

MachineNext ==
    \/ StartCheck \/ Probed \/ CheckAsks \/ CheckRenewed
    \/ SendRequest \/ RequestAnswered \/ RequestAsks \/ RequestRenewed
    \/ StartRepair \/ RepairProbed \/ RepairAsks \/ RepairAnswered
    \/ RemoveHere \/ RemovedElsewhere
    \/ \E r \in Removers : \/ Forget(r) \/ RevokeAsks(r) \/ RevokeRotated(r) \/ RevokeEnds(r)
                           \/ DeleteDevice(r)
    \/ \E d \in 1..MaxDevices : RevokeOnServer(d)
    \/ GrantExpires \/ Reload
MachineSpec == MachineInit /\ [][MachineNext]_machineVars

-----------------------------------------------------------------------------
(* A listed machine that is shown as online, with no check under way, has a session in the
   vault, of its current pairing, whatever refreshes were refused, repairs and reloads came
   in between. *)
OnlineHasSession ==
    Online /\ check = NoCheck => vault # 0 /\ (raced \/ vault = pairing)

(* A status on screen is of the current pairing, unless a check is still under way. *)
StatusIsCurrent == listed /\ connection # "none" /\ check = NoCheck => resolved = pairing

(* A removal leaves no token behind, late refreshes included, and the device it reports as
   revoked is; unless a repair of the machine was under way at the same time. *)
RemovalIsFinal ==
    (\E r \in Removers : release[r].at = "done") /\ ~raced
        /\ (\A r \in Removers : ~Releasing(r))
        => /\ vault = 0 /\ grant = 0
           /\ \A r \in Removers : release[r].revoked => release[r].of \notin alive

MachineSafe == OnlineHasSession /\ StatusIsCurrent /\ RemovalIsFinal
=============================================================================
