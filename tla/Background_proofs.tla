------------------------- MODULE Background_proofs -------------------------
(***************************************************************************)
(* Theorems about the protocols beside the turns: the deliveries of a push *)
(* notification, for any number of senders, attempts and registrations;    *)
(* the tokens of a browser, for any number of tabs and tokens; the session *)
(* of a remote machine, for any number of pairings; the reports of         *)
(* sub-threads, for any number of chats and flushes; a terminal, for any   *)
(* number of sockets and shells; and the panes of a window, for any chats, *)
(* views and slots.  Each has its own inductive invariant; together, with  *)
(* that of the automations, they are those of MC_Background.               *)
(***************************************************************************)
EXTENDS MC_Background, Automation_proofs, SequenceTheorems, Subsequence_proofs


-----------------------------------------------------------------------------
(* PushDelivery *)

(* A sender whose lease runs is the holder, and only its lease runs. *)
Leased ==
    /\ \A s \in Busy \ outlived : delivery.at = "leased" /\ delivery.holder = s
    /\ delivery.at = "leased" /\ delivery.holder # NoSender
           => delivery.holder \in Busy \ outlived

(* What a sender has read is still the row of the device, unless the device has
   registered since the claim or is gone. *)
ReadsDated ==
    /\ device.updated <= registrations
    /\ \A s \in Busy :
         /\ sender[s].claimed <= registrations
         /\ sender[s].at = "sending" /\ device.updated <= sender[s].claimed
               => device \in {sender[s].read, NoDevice}

PushInv == PushTypeOK /\ Leased /\ ReadsDated /\ PhoneStaysRegistered

LEMMA NoDeviceType == NoDevice \in Device
BY PushAssumption DEF NoDevice, Device

LEMMA NoDeliveryType == NoDelivery \in Delivery /\ NoDelivery.holder = NoSender /\ NoDelivery.at = "none"
BY PushAssumption DEF NoDelivery, Delivery

(* How the operations change the row, as the facts the proofs need of it. *)
LEMMA FinishType ==
    ASSUME PushInv, NEW s \in Senders, RetryOrFinish(s) \/ Finish(s)
    PROVE  /\ delivery' \in Delivery /\ (delivery' # NoDelivery => delivery # NoDelivery)
           /\ delivery.holder # s => delivery' = delivery
           /\ delivery.holder = s => delivery'.at # "leased" /\ delivery'.holder \in {s, NoSender}
           /\ delivery'.holder # NoSender =>
                  delivery'.at \in {"leased", "lapsed", "finished"}
<1> USE PushAssumption DEF PushInv, PushTypeOK, Fenced
<1>1. CASE delivery.holder # s
  BY <1>1 DEF RetryOrFinish, Finish
<1>2. CASE delivery.holder = s
  <2>1. delivery # NoDelivery
    BY <1>2, NoDeliveryType
  <2>2. CASE delivery' = [delivery EXCEPT !.at = "finished"]
    BY <1>2, <2>1, <2>2 DEF Delivery
  <2>3. CASE delivery' = [delivery EXCEPT !.at = "backoff", !.holder = NoSender]
    BY <1>2, <2>1, <2>3 DEF Delivery
  <2> QED BY <1>2, <2>2, <2>3 DEF RetryOrFinish, Finish
<1> QED BY <1>1, <1>2

(* A sender that is done leaves the others alone. *)
LEMMA SettleType ==
    ASSUME PushInv, NEW s \in Senders, sender' = [sender EXCEPT ![s] = IdleSender]
    PROVE  /\ Busy' = Busy \ {s}
           /\ \A t \in Busy' : t # s /\ sender'[t] = sender[t]
           /\ sender' \in [Senders -> [at : {"idle", "claimed", "sending"},
                                       claimed : 0..MaxRegistrations, read : Device]]
BY NoDeviceType, PushAssumption DEF PushInv, PushTypeOK, IdleSender, Busy

-----------------------------------------------------------------------------
(* Every operation keeps the invariant. *)

LEMMA PushInvInit == PushInit => PushInv
<1> SUFFICES ASSUME PushInit PROVE PushInv
  OBVIOUS
<1> USE PushAssumption, NoDeviceType, NoDeliveryType DEF PushInit
<1>1. Busy = {} /\ sender \in [Senders -> [at : {"idle", "claimed", "sending"},
                                         claimed : 0..MaxRegistrations, read : Device]]
  BY DEF Busy, IdleSender
<1>2. PushTypeOK
  BY <1>1 DEF PushTypeOK
<1>3. ReadsDated /\ PhoneStaysRegistered
  BY <1>1 DEF ReadsDated, PhoneStaysRegistered, NoDevice
<1> QED BY <1>1, <1>2, <1>3 DEF PushInv, Leased

LEMMA DeviceStep ==
    ASSUME PushInv,
           \/ \E a \in Accounts, genuine \in BOOLEAN : Register(a, genuine)
           \/ Unregister \/ Enqueue \/ Expire
    PROVE  PushInv'
<1> USE PushAssumption, NoDeviceType, NoDeliveryType DEF PushInv, PushTypeOK, Busy
<1>1. ASSUME NEW a \in Accounts, NEW genuine \in BOOLEAN, Register(a, genuine)
      PROVE  PushInv'
  <2>1. /\ device' = [account |-> a, updated |-> registrations + 1, genuine |-> genuine]
        /\ registrations' = registrations + 1 /\ phone' = device'
        /\ registrations + 1 \in 0..MaxRegistrations
        /\ UNCHANGED <<sender, stalls>>
    BY <1>1 DEF Register
  <2>2. device' \in Device /\ device' # NoDevice
    BY <2>1 DEF Device, NoDevice
  <2>3. \/ UNCHANGED <<delivery, outlived>>
        \/ delivery' = NoDelivery /\ outlived' = Busy
    BY <1>1 DEF Register, DropDelivery
  <2>4. PushTypeOK'
    BY <2>1, <2>2, <2>3
  <2>5. Leased'
    BY <2>1, <2>3 DEF Leased
  <2>6. ReadsDated'
    BY <2>1 DEF ReadsDated
  <2> QED BY <2>1, <2>4, <2>5, <2>6 DEF PhoneStaysRegistered
<1>2. ASSUME Unregister PROVE PushInv'
  BY <1>2 DEF Unregister, DropDelivery, Leased, ReadsDated, PhoneStaysRegistered, NoDevice
<1>3. ASSUME Enqueue PROVE PushInv'
  BY <1>3 DEF Enqueue, Leased, ReadsDated, PhoneStaysRegistered, NoDelivery, Delivery
<1>4. ASSUME Expire PROVE PushInv'
  BY <1>4 DEF Expire, DropDelivery, Leased, ReadsDated, PhoneStaysRegistered
<1> QED BY <1>1, <1>2, <1>3, <1>4

LEMMA LeaseStep ==
    ASSUME PushInv, Lapse \/ BackoffOver
    PROVE  PushInv'
<1> USE PushAssumption, NoDeliveryType DEF PushInv, PushTypeOK, Busy
<1>1. ASSUME Lapse PROVE PushInv'
  <2>1. delivery' = [delivery EXCEPT !.at = "lapsed"] /\ delivery # NoDelivery
        /\ delivery.at = "leased" /\ UNCHANGED <<registrations, phone, device, sender>>
    BY <1>1 DEF Lapse
  <2>2. delivery' \in Delivery /\ delivery'.at = "lapsed" /\ delivery'.holder = delivery.holder
    BY <2>1 DEF Delivery
  <2>3. \/ delivery.holder = NoSender /\ UNCHANGED <<stalls, outlived>>
        \/ /\ delivery.holder \in Busy \ outlived /\ outlived' = outlived \cup {delivery.holder}
           /\ stalls' \in 0..MaxStalls
    BY <1>1 DEF Lapse, Leased
  <2>4. PushTypeOK'
    BY <2>1, <2>2, <2>3
  <2>5. Leased'
    BY <2>1, <2>2, <2>3 DEF Leased
  <2> QED BY <2>1, <2>4, <2>5 DEF ReadsDated, PhoneStaysRegistered
<1>2. ASSUME BackoffOver PROVE PushInv'
  BY <1>2 DEF BackoffOver, Leased, ReadsDated, PhoneStaysRegistered, Delivery
<1> QED BY <1>1, <1>2

LEMMA ClaimStep ==
    ASSUME PushInv, NEW s \in Senders, Claim(s)
    PROVE  PushInv'
<1> USE PushAssumption, NoDeliveryType DEF PushInv, PushTypeOK
<1>1. /\ delivery' \in Delivery /\ delivery'.at = "leased" /\ delivery'.holder = s
      /\ delivery # NoDelivery /\ delivery.at # "leased"
      /\ UNCHANGED <<registrations, phone, device, outlived, stalls>>
  BY DEF Claim, Due, Delivery
<1>2. /\ sender' = [sender EXCEPT ![s] = [@ EXCEPT !.at = "claimed", !.claimed = registrations]]
      /\ sender[s].at = "idle" /\ s \notin Busy
  BY DEF Claim, Busy
<1>3. /\ sender'[s].at = "claimed" /\ sender'[s].claimed = registrations
      /\ \A t \in Senders \ {s} : sender'[t] = sender[t]
      /\ sender' \in [Senders -> [at : {"idle", "claimed", "sending"},
                                  claimed : 0..MaxRegistrations, read : Device]]
  BY <1>2
<1>4. Busy' = Busy \cup {s}
  BY <1>3 DEF Busy
<1>5. PushTypeOK'
  BY <1>1, <1>3, <1>4
<1>6. Leased'
  BY <1>1, <1>2, <1>4 DEF Leased
<1>7. ReadsDated'
  BY <1>1, <1>3, <1>4 DEF ReadsDated, Busy
<1> QED BY <1>1, <1>5, <1>6, <1>7 DEF PhoneStaysRegistered

(* A sender that finishes, retries or gives up. *)
LEMMA SettleStep ==
    ASSUME PushInv, NEW s \in Busy, sender' = [sender EXCEPT ![s] = IdleSender],
           outlived' = outlived \ {s}, RetryOrFinish(s) \/ Finish(s),
           UNCHANGED <<registrations, phone, device, stalls>>
    PROVE  PushInv'
<1> s \in Senders
  BY DEF Busy
<1>0. outlived' \subseteq Busy'
  BY SettleType DEF PushInv, PushTypeOK
<1>1. PushTypeOK'
  BY <1>0, FinishType, SettleType DEF PushInv, PushTypeOK
<1>2. Leased'
  BY FinishType, SettleType, PushAssumption DEF PushInv, Leased
<1>3. ReadsDated'
  <2>1. \A t \in Busy' : t \in Busy /\ sender'[t] = sender[t]
    BY SettleType
  <2> QED BY <2>1 DEF PushInv, ReadsDated
<1> QED BY <1>1, <1>2, <1>3 DEF PushInv, PhoneStaysRegistered

LEMMA ReadStep ==
    ASSUME PushInv, NEW s \in Senders, ReadRow(s)
    PROVE  PushInv'
<1> USE PushAssumption, NoDeliveryType
<1>0. s \in Busy
  BY DEF ReadRow, Busy
<1>1. CASE delivery = NoDelivery /\ Settle(s) /\ UNCHANGED delivery
  <2>1. Finish(s)
    BY <1>1, NoDeliveryType, PushAssumption DEF Finish, Fenced
  <2> QED BY <1>0, <1>1, <2>1, SettleStep DEF ReadRow, Settle
<1>2. CASE Settle(s) /\ Finish(s)
  BY <1>0, <1>2, SettleStep DEF ReadRow, Settle
<1>3. CASE /\ sender' = [sender EXCEPT ![s].at = "sending", ![s].read = device]
           /\ UNCHANGED <<delivery, outlived>>
  <2>1. UNCHANGED <<registrations, phone, device, stalls>> /\ sender[s].at = "claimed"
    BY DEF ReadRow
  <2>2. sender' = [sender EXCEPT ![s] = [@ EXCEPT !.at = "sending", !.read = device]]
    BY <1>3
  <2>3. /\ \A t \in Senders \ {s} : sender'[t] = sender[t]
        /\ sender'[s].at = "sending" /\ sender'[s].claimed = sender[s].claimed
        /\ sender'[s].read = device
        /\ sender' \in [Senders -> [at : {"idle", "claimed", "sending"},
                                    claimed : 0..MaxRegistrations, read : Device]]
    BY <2>2 DEF PushInv, PushTypeOK
  <2>4. Busy' = Busy
    BY <2>1, <2>3 DEF Busy
  <2>5. PushTypeOK'
    BY <1>3, <2>1, <2>3, <2>4 DEF PushInv, PushTypeOK
  <2>6. Leased'
    BY <1>3, <2>1, <2>4 DEF PushInv, Leased
  <2>7. ReadsDated'
    BY <1>0, <2>1, <2>3, <2>4 DEF PushInv, ReadsDated, Busy
  <2> QED BY <2>1, <2>5, <2>6, <2>7 DEF PushInv, PhoneStaysRegistered
<1> QED BY <1>1, <1>2, <1>3 DEF ReadRow

LEMMA DeadTokenStep ==
    ASSUME PushInv, NEW s \in Senders, DeadToken(s)
    PROVE  PushInv'
<1> USE PushAssumption, NoDeviceType, NoDeliveryType
<1>0. s \in Busy /\ sender[s].at = "sending" /\ ~sender[s].read.genuine
  BY DEF DeadToken, Busy
<1>1. CASE device # NoDevice /\ SameDevice(s)
  <2>1. /\ device' = NoDevice /\ delivery' = NoDelivery /\ outlived' = Busy \ {s}
        /\ sender' = [sender EXCEPT ![s] = IdleSender]
        /\ UNCHANGED <<registrations, phone, stalls>>
    BY <1>1 DEF DeadToken
  <2>2. ~device.genuine
    BY <1>0, <1>1 DEF PushInv, ReadsDated, SameDevice
  <2>3. PushTypeOK'
    BY <2>1, SettleType DEF PushInv, PushTypeOK
  <2>4. Leased'
    BY <2>1, SettleType DEF Leased
  <2>5. ReadsDated'
    <3>1. \A t \in Busy' : t \in Busy /\ sender'[t] = sender[t]
      BY <2>1, SettleType
    <3>2. device'.updated = 0 /\ device' = NoDevice /\ registrations \in Nat
      BY <2>1 DEF NoDevice, PushInv, PushTypeOK
    <3> QED BY <2>1, <3>1, <3>2 DEF PushInv, ReadsDated
  <2>6. PhoneStaysRegistered'
    BY <2>1, <2>2 DEF PushInv, PhoneStaysRegistered
  <2> QED BY <2>3, <2>4, <2>5, <2>6 DEF PushInv
<1>2. CASE ~(device # NoDevice /\ SameDevice(s))
  BY <1>0, <1>2, SettleStep DEF DeadToken
<1> QED BY <1>1, <1>2

LEMMA CrashStep ==
    ASSUME PushInv, NEW s \in Senders, SenderCrashes(s)
    PROVE  PushInv'
<1> USE PushAssumption, NoDeliveryType
<1>1. /\ sender' = [sender EXCEPT ![s] = IdleSender] /\ outlived' = outlived \ {s}
      /\ UNCHANGED <<registrations, phone, device>> /\ s \in Busy
      /\ stalls' \in 0..MaxStalls
  BY DEF SenderCrashes, Settle, Busy, PushInv, PushTypeOK
<1>2. /\ delivery' \in Delivery /\ (delivery' # NoDelivery => delivery # NoDelivery)
      /\ delivery'.at = delivery.at
      /\ delivery'.holder = IF delivery.holder = s THEN NoSender ELSE delivery.holder
  BY DEF SenderCrashes, Fenced, PushInv, PushTypeOK, Delivery
<1>3. PushTypeOK'
  BY <1>1, <1>2, SettleType DEF PushInv, PushTypeOK
<1>4. Leased'
  <2>1. Busy' = Busy \ {s} /\ Busy \subseteq Senders
    BY <1>1, SettleType DEF Busy
  <2> QED BY <1>1, <1>2, <2>1 DEF PushInv, Leased
<1>5. ReadsDated'
  <2>1. \A t \in Busy' : t \in Busy /\ sender'[t] = sender[t]
    BY <1>1, SettleType
  <2> QED BY <1>1, <2>1 DEF PushInv, ReadsDated
<1> QED BY <1>1, <1>3, <1>4, <1>5 DEF PushInv, PhoneStaysRegistered

LEMMA PushInvStep == PushInv /\ [PushNext]_pushVars => PushInv'
<1> SUFFICES ASSUME PushInv, [PushNext]_pushVars PROVE PushInv'
  OBVIOUS
<1>1. ASSUME NEW s \in Senders, Answered(s) \/ Unavailable(s) PROVE PushInv'
  <2>1. s \in Busy
    BY <1>1 DEF Answered, Unavailable, Busy
  <2> QED BY <1>1, <2>1, SettleStep DEF Answered, Unavailable, Settle
<1>2. CASE UNCHANGED pushVars
  BY <1>2 DEF pushVars, PushInv, PushTypeOK, Leased, ReadsDated, PhoneStaysRegistered, Busy
<1> QED
  BY <1>1, <1>2, DeviceStep, LeaseStep, ClaimStep, ReadStep, DeadTokenStep, CrashStep
  DEF PushNext, SenderStep

-----------------------------------------------------------------------------
(* Two senders are at work on one notification only after one of them outlived its lease,
   and a phone registered with a token Apple knows keeps its row, however leases, crashes,
   answers and registrations are ordered (push.py). *)
THEOREM PushIsSafe == PushSpec => []PushSafe
<1>1. PushInv => PushSafe
  BY DEF PushInv, Leased, PushSafe, OneSenderPerLease
<1> QED BY <1>1, PushInvInit, PushInvStep, PTL DEF PushSpec

(* The row, the device and the senders stay in the sets they are drawn from. *)
THEOREM PushTypes == PushSpec => []PushTypeOK
<1>1. PushInv => PushTypeOK
  BY DEF PushInv
<1> QED BY <1>1, PushInvInit, PushInvStep, PTL DEF PushSpec

-----------------------------------------------------------------------------
(* TokenRefresh *)

(* Types, and an event of storage tells of a token that was made. *)
TokTyped == TokenTypeOK /\ storageEvents \in [Tabs -> Seq(0..Len(tokens))]

(* A token is younger than its parent, and an answer is the child of the token that was
   sent, or that token was revoked already. *)
Families ==
    /\ \A j \in DOMAIN tokens : tokens[j].parent < j
    /\ \A t \in Tabs : refreshing[t].at # "idle" => refreshing[t].used \in DOMAIN tokens
    /\ \A t \in Tabs : refreshing[t].at = "sent" => refreshing[t].got = 0
    /\ \A t \in Tabs : refreshing[t].at = "answered" =>
         IF refreshing[t].got = 0 THEN ~Accepted(refreshing[t].used)
         ELSE tokens[refreshing[t].got].parent = refreshing[t].used

(* The stored tokens are a line of descent: what a tab has cached, is told of or has sent is
   the stored token or one that the stored token's parent comes from. *)
Descends(k) == k \in 1..storage /\ (k = storage \/ k <= tokens[storage].parent)
Line ==
    /\ storage \in DOMAIN tokens /\ Accepted(storage)
    /\ \A t \in Tabs :
         /\ Descends(cached[t])
         /\ \A i \in DOMAIN storageEvents[t] : Descends(storageEvents[t][i])
         /\ refreshing[t].at # "idle" => Descends(refreshing[t].used)

(* A tab that has handled the last event has the stored token, and an answer to it is
   accepted, for none of its relatives was used. *)
UpToDate ==
    \A t \in Tabs :
        /\ storage = IF storageEvents[t] = <<>> THEN cached[t]
                     ELSE storageEvents[t][Len(storageEvents[t])]
        /\ refreshing[t].at = "answered" /\ refreshing[t].used = storage
               /\ refreshing[t].got # 0 => Accepted(refreshing[t].got)

TokInv == TokTyped /\ Families /\ (crossed \/ (Line /\ UpToDate))

LEMMA TokInvInit == TokenInit => TokInv
<1> SUFFICES ASSUME TokenInit PROVE TokInv
  OBVIOUS
<1> USE TokenAssumption DEF TokenInit, Idle0
<1>1. Len(tokens) = 1 /\ DOMAIN tokens = {1} /\ tokens[1] = [parent |-> 0, revoked |-> FALSE]
  OBVIOUS
<1>2. TokTyped
  <2>1. tokens \in Seq([parent : 0..MaxTokens, revoked : BOOLEAN])
    OBVIOUS
  <2>2. storageEvents \in [Tabs -> Seq(0..1)] /\ cached \in [Tabs -> 0..1]
        /\ refreshing \in [Tabs -> [at : {"idle", "sent", "answered"}, used : 0..1, got : 0..1]]
    OBVIOUS
  <2>3. \A t \in Tabs : storageEvents[t] \in Seq(0..1)
    BY <2>2
  <2>4. Len(tokens) <= MaxTokens
    BY <1>1, TokenAssumption
  <2>5. old \in 0..1 /\ storage \in 0..1
    OBVIOUS
  <2>6. crossed \in BOOLEAN
    BY Zenon
  <2> HIDE DEF TokenInit
  <2> QED BY <1>1, <2>1, <2>2, <2>3, <2>4, <2>5, <2>6 DEF TokTyped, TokenTypeOK
<1>3. Families
  BY <1>1 DEF Families
<1>4. Line /\ UpToDate
  BY <1>1 DEF Line, UpToDate, Descends, Accepted
<1> QED BY <1>2, <1>3, <1>4 DEF TokInv

LEMMA TokInvSafe == TokInv => SessionSurvives
<1> SUFFICES ASSUME TokInv, ~crossed PROVE storage # 0 /\ Accepted(storage)
  BY DEF SessionSurvives
<1>1. DOMAIN tokens = 1..Len(tokens) /\ storage \in DOMAIN tokens /\ Accepted(storage)
  BY DEF TokInv, TokTyped, TokenTypeOK, Line
<1> QED BY <1>1

(* What a rotation does to the rows. *)
LEMMA RotateRows ==
    ASSUME TokInv, NEW t \in Tabs, Rotate(t), Accepted(refreshing[t].used)
    PROVE  /\ tokens' \in Seq([parent : 0..MaxTokens, revoked : BOOLEAN])
           /\ Len(tokens) < MaxTokens /\ Len(tokens') = Len(tokens) + 1
           /\ \A j \in DOMAIN tokens :
                /\ j \in DOMAIN tokens' /\ tokens'[j].parent = tokens[j].parent
                /\ tokens'[j].revoked <=> tokens[j].revoked \/ j \in Superseded(refreshing[t].used)
           /\ tokens'[Len(tokens) + 1] = [parent |-> refreshing[t].used, revoked |-> FALSE]
<1> DEFINE k == refreshing[t].used
           TokenRow == [parent : 0..MaxTokens, revoked : BOOLEAN]
           kept == [j \in DOMAIN tokens |-> [tokens[j] EXCEPT !.revoked = @ \/ j \in Superseded(k)]]
<1>1. tokens \in Seq(TokenRow) /\ Len(tokens) <= MaxTokens /\ k \in 0..Len(tokens)
  BY DEF TokInv, TokTyped, TokenTypeOK
<1>2. Len(tokens) < MaxTokens /\ tokens' = Append(kept, [parent |-> k, revoked |-> FALSE])
  BY DEF Rotate
<1>3. \A j \in DOMAIN tokens :
        /\ kept[j] \in TokenRow /\ kept[j].parent = tokens[j].parent
        /\ kept[j].revoked <=> tokens[j].revoked \/ j \in Superseded(k)
  <2> TAKE j \in DOMAIN tokens
  <2> HIDE DEF TokenRow
  <2>1. tokens[j] \in TokenRow
    BY <1>1, ElementOfSeq
  <2> USE DEF TokenRow
  <2>2. kept[j] = [tokens[j] EXCEPT !.revoked = tokens[j].revoked \/ j \in Superseded(k)]
    OBVIOUS
  <2>3. (tokens[j].revoked \/ j \in Superseded(k)) \in BOOLEAN
    OBVIOUS
  <2> QED BY <2>1, <2>2, <2>3
<1>4. kept \in Seq(TokenRow) /\ Len(kept) = Len(tokens)
  <2>1. DOMAIN kept = 1..Len(tokens) /\ Len(tokens) \in Nat
    BY <1>1
  <2>2. kept \in [1..Len(tokens) -> TokenRow]
    BY <1>3, <2>1
  <2> HIDE DEF kept, TokenRow
  <2> QED BY <2>1, <2>2
<1>5. [parent |-> k, revoked |-> FALSE] \in TokenRow
  BY <1>1, TokenAssumption
<1> HIDE DEF kept, TokenRow, k
<1>6. tokens' \in Seq(TokenRow) /\ Len(tokens') = Len(tokens) + 1
      /\ \A j \in DOMAIN tokens : j \in DOMAIN tokens' /\ tokens'[j] = kept[j]
  BY <1>1, <1>2, <1>4, <1>5
<1>7. tokens'[Len(tokens) + 1] = [parent |-> k, revoked |-> FALSE]
  BY <1>2, <1>4, <1>5
<1> QED BY <1>2, <1>3, <1>6, <1>7 DEF TokenRow, k

(* The line of descent survives: what it sends supersedes neither the stored token nor its
   children. *)
LEMMA RotateKeeps ==
    ASSUME TokInv, NEW t \in Tabs, Rotate(t) PROVE TokInv'
<1> DEFINE k == refreshing[t].used
           n == Len(tokens)
<1>1. /\ refreshing[t].at = "sent" /\ k \in DOMAIN tokens /\ refreshing[t].got = 0
      /\ UNCHANGED <<old, storage, cached, storageEvents, crossed>>
  BY DEF Rotate, TokInv, Families
<1>0. /\ n \in Nat /\ DOMAIN tokens = 1..n /\ storage \in 0..n /\ old \in 0..n
      /\ cached \in [Tabs -> 0..n] /\ storageEvents \in [Tabs -> Seq(0..n)]
      /\ refreshing \in [Tabs -> [at : {"idle", "sent", "answered"}, used : 0..n, got : 0..n]]
  BY DEF TokInv, TokTyped, TokenTypeOK
<1>2. CASE ~Accepted(k)
  <2>1. tokens' = tokens /\ refreshing' = [refreshing EXCEPT ![t].at = "answered"]
    BY <1>2 DEF Rotate
  <2>2. /\ refreshing'[t].at = "answered" /\ refreshing'[t].used = k /\ refreshing'[t].got = 0
        /\ \A u \in Tabs \ {t} : refreshing'[u] = refreshing[u]
    BY <1>0, <1>1, <2>1
  <2>3. TokTyped'
    BY <1>0, <1>1, <2>1 DEF TokInv, TokTyped, TokenTypeOK
  <2>4. Families'
    BY <1>1, <1>2, <2>1, <2>2 DEF TokInv, Families, Accepted
  <2>5. ASSUME ~crossed PROVE Line'
    BY <1>1, <2>1, <2>2, <2>5 DEF TokInv, Line, Descends, Accepted
  <2>6. ASSUME ~crossed PROVE UpToDate'
    BY <1>1, <2>1, <2>2, <2>6 DEF TokInv, UpToDate, Accepted
  <2> QED BY <1>1, <2>3, <2>4, <2>5, <2>6 DEF TokInv
<1>3. CASE Accepted(k)
  <2>1. /\ n < MaxTokens /\ Len(tokens') = n + 1
        /\ tokens' \in Seq([parent : 0..MaxTokens, revoked : BOOLEAN])
        /\ \A j \in DOMAIN tokens :
             /\ j \in DOMAIN tokens' /\ tokens'[j].parent = tokens[j].parent
             /\ tokens'[j].revoked <=> tokens[j].revoked \/ j \in Superseded(k)
        /\ tokens'[n + 1] = [parent |-> k, revoked |-> FALSE]
    BY <1>3, RotateRows
  <2>2. refreshing' = [refreshing EXCEPT ![t].at = "answered", ![t].got = n + 1]
    BY <1>3 DEF Rotate
  <2>3. /\ refreshing'[t].at = "answered" /\ refreshing'[t].used = k /\ refreshing'[t].got = n + 1
        /\ \A u \in Tabs \ {t} : refreshing'[u] = refreshing[u]
    BY <1>0, <1>1, <2>2
  <2>4. TokTyped'
    <3>1. /\ storage' \in 0..(n + 1) /\ old' \in 0..(n + 1) /\ cached' \in [Tabs -> 0..(n + 1)]
          /\ storageEvents' \in [Tabs -> Seq(0..(n + 1))]
      BY <1>0, <1>1
    <3>2. refreshing' \in [Tabs -> [at : {"idle", "sent", "answered"}, used : 0..(n + 1),
                                    got : 0..(n + 1)]]
      BY <1>0, <2>2
    <3> QED BY <1>1, <2>1, <3>1, <3>2, TokenAssumption DEF TokInv, TokTyped, TokenTypeOK
  <2>5. DOMAIN tokens' = 1..(n + 1)
    BY <2>1
  <2>6. Families'
    <3>1. \A j \in DOMAIN tokens' : tokens'[j].parent < j
      <4>1. \A j \in DOMAIN tokens : tokens[j].parent < j
        BY DEF TokInv, Families
      <4>2. k < n + 1 /\ tokens'[n + 1].parent = k
        BY <1>0, <1>1, <2>1
      <4>3. \A j \in 1..(n + 1) : j \in DOMAIN tokens \/ j = n + 1
        BY <1>0
      <4> QED BY <2>1, <2>5, <4>1, <4>2, <4>3
    <3>2. \A u \in Tabs : refreshing'[u].at # "idle" => refreshing'[u].used \in DOMAIN tokens'
      <4>1. \A j \in DOMAIN tokens : j \in DOMAIN tokens'
        BY <2>1
      <4>2. \A u \in Tabs : refreshing[u].at # "idle" => refreshing[u].used \in DOMAIN tokens
        BY DEF TokInv, Families
      <4> QED BY <1>1, <2>3, <4>1, <4>2
    <3>3. \A u \in Tabs : refreshing'[u].at = "sent" => refreshing'[u].got = 0
      BY <2>3 DEF TokInv, Families
    <3>4. ASSUME NEW u \in Tabs, refreshing'[u].at = "answered"
          PROVE  IF refreshing'[u].got = 0 THEN tokens'[refreshing'[u].used].revoked
                 ELSE tokens'[refreshing'[u].got].parent = refreshing'[u].used
      <4>1. CASE u = t
        BY <1>0, <2>1, <2>3, <4>1
      <4>2. CASE u # t
        <5>1. refreshing'[u] = refreshing[u] /\ refreshing[u].used \in DOMAIN tokens
              /\ refreshing[u].got \in 0..n
          BY <1>0, <2>3, <3>4, <4>2 DEF TokInv, Families
        <5> QED BY <1>0, <2>1, <3>4, <5>1 DEF TokInv, Families, Accepted
      <4> QED BY <4>1, <4>2
    <3> QED BY <3>1, <3>2, <3>3, <3>4 DEF Families, Accepted
  <2>7. ASSUME ~crossed PROVE Line' /\ UpToDate'
    <3>1. Line /\ UpToDate /\ Descends(k) /\ Families
      BY <1>1, <2>7 DEF TokInv, Line
    <3>2. k <= storage /\ storage \in DOMAIN tokens /\ tokens[k].parent < k
          /\ (k = storage \/ k <= tokens[storage].parent) /\ tokens[k].parent \in Nat
      <4>1. k <= storage /\ (k = storage \/ k <= tokens[storage].parent)
        BY <1>0, <1>1, <3>1 DEF Descends
      <4>2. storage \in DOMAIN tokens /\ tokens[k].parent < k
        BY <1>1, <3>1 DEF Line, Families
      <4>3. tokens[k] \in [parent : 0..MaxTokens, revoked : BOOLEAN]
        <5>1. tokens \in Seq([parent : 0..MaxTokens, revoked : BOOLEAN])
          BY DEF TokInv, TokTyped, TokenTypeOK
        <5> QED BY <1>0, <1>1, <5>1, ElementOfSeq, Zenon
      <4> QED BY <4>1, <4>2, <4>3
    <3>3. storage \notin Superseded(k)
      BY <1>0, <1>1, <3>2 DEF Superseded
    <3>4. \A j \in DOMAIN tokens : tokens[j].parent = storage /\ storage < j => j \notin Superseded(k)
      BY <1>0, <1>1, <3>2 DEF Superseded
    <3>5. Line'
      BY <1>0, <1>1, <2>1, <2>3, <3>1, <3>2, <3>3 DEF Line, Descends, Accepted
    <3>6. \A u \in Tabs : storage' = IF storageEvents'[u] = <<>> THEN cached'[u]
                                     ELSE storageEvents'[u][Len(storageEvents'[u])]
      BY <1>1, <3>1 DEF UpToDate
    <3>7. ASSUME NEW u \in Tabs, refreshing'[u].at = "answered", refreshing'[u].used = storage',
                 refreshing'[u].got # 0
          PROVE  ~tokens'[refreshing'[u].got].revoked
      <4>1. CASE u = t
        BY <2>1, <2>3, <4>1
      <4>2. CASE u # t
        <5>1. refreshing'[u] = refreshing[u]
          BY <2>3, <4>2
        <5> DEFINE g == refreshing[u].got
        <5>2. g \in DOMAIN tokens /\ tokens[g].parent = storage /\ storage < g /\ Accepted(g)
          BY <1>0, <1>1, <3>1, <3>7, <5>1 DEF Families, UpToDate
        <5> QED BY <2>1, <3>4, <5>1, <5>2 DEF Accepted
      <4> QED BY <4>1, <4>2
    <3> QED BY <3>5, <3>6, <3>7 DEF UpToDate, Accepted
  <2> QED BY <1>1, <2>4, <2>6, <2>7 DEF TokInv
<1> QED BY <1>2, <1>3

(* A tab that writes what it was given moves the stored token to a child of it. *)
LEMMA ReceiveKeeps ==
    ASSUME TokInv, NEW t \in Tabs, ReceiveRefresh(t) PROVE TokInv'
<1> DEFINE k == refreshing[t].used
           n == Len(tokens)
<1>1. /\ refreshing[t].at = "answered" /\ k \in DOMAIN tokens
      /\ refreshing' = [refreshing EXCEPT ![t] = Idle0] /\ UNCHANGED <<tokens, old>>
  BY DEF ReceiveRefresh, TokInv, Families
<1>0. /\ n \in Nat /\ DOMAIN tokens = 1..n /\ storage \in 0..n /\ old \in 0..n
      /\ cached \in [Tabs -> 0..n] /\ storageEvents \in [Tabs -> Seq(0..n)]
      /\ refreshing \in [Tabs -> [at : {"idle", "sent", "answered"}, used : 0..n, got : 0..n]]
      /\ crossed \in BOOLEAN
  BY DEF TokInv, TokTyped, TokenTypeOK
<1>2. /\ refreshing' \in [Tabs -> [at : {"idle", "sent", "answered"}, used : 0..n, got : 0..n]]
      /\ refreshing'[t].at = "idle" /\ \A u \in Tabs \ {t} : refreshing'[u] = refreshing[u]
  BY <1>0, <1>1 DEF Idle0
<1>3. Families'
  BY <1>1, <1>2 DEF TokInv, Families, Accepted
<1>4. CASE KeepsCached(t)
  <2>1. UNCHANGED <<storage, cached, storageEvents, crossed>>
    BY <1>4 DEF ReceiveRefresh
  <2>2. TokTyped'
    BY <1>1, <1>2, <2>1 DEF TokInv, TokTyped, TokenTypeOK
  <2>3. ASSUME ~crossed PROVE Line' /\ UpToDate'
    BY <1>1, <1>2, <2>1, <2>3 DEF TokInv, Line, UpToDate, Descends, Accepted
  <2> QED BY <1>3, <2>1, <2>2, <2>3 DEF TokInv
<1>5. CASE ~KeepsCached(t)
  <2> DEFINE c == IF cached[t] = 0 THEN 0 ELSE refreshing[t].got
  <2>1. WriteTokens(t, c)
    BY <1>5 DEF ReceiveRefresh
  <2>2. c \in 0..n
    BY <1>0
  <2> HIDE DEF c
  <2>3. /\ cached' = [cached EXCEPT ![t] = c] /\ storage' = c
        /\ crossed' = (crossed \/ storageEvents[t] # <<>>)
        /\ storageEvents' = [u \in Tabs |-> IF u = t \/ storage = c THEN storageEvents[u]
                                            ELSE Append(storageEvents[u], c)]
    BY <2>1 DEF WriteTokens
  <2>4. storageEvents' \in [Tabs -> Seq(0..n)]
    <3>1. \A u \in Tabs : storageEvents[u] \in Seq(0..n) /\ Append(storageEvents[u], c) \in Seq(0..n)
      BY <1>0, <2>2
    <3> QED BY <2>3, <3>1
  <2>5. TokTyped'
    <3>1. \A u \in Tabs : storageEvents'[u] \in Seq(0..n)
      BY <2>4
    <3> QED BY <1>0, <1>1, <1>2, <2>2, <2>3, <2>4, <3>1 DEF TokInv, TokTyped, TokenTypeOK
  <2>6. ASSUME ~crossed' PROVE Line' /\ UpToDate'
    <3>1. ~crossed /\ storageEvents[t] = <<>> /\ Line /\ UpToDate /\ Families
      BY <2>3, <2>6 DEF TokInv
    <3>2. cached[t] = storage /\ storage \in DOMAIN tokens /\ storage # 0 /\ k = storage
      BY <1>0, <1>5, <3>1 DEF UpToDate, Line, KeepsCached
    <3>3. c = refreshing[t].got
      BY <3>2 DEF c
    <3>4. c # 0
      BY <1>1, <3>1, <3>2, <3>3 DEF Families, Line
    <3>5. c \in DOMAIN tokens /\ tokens[c].parent = storage /\ storage < c /\ Accepted(c)
      BY <1>0, <1>1, <2>2, <3>1, <3>2, <3>3, <3>4 DEF Families, UpToDate
    <3>6. \A j \in Nat : Descends(j) => j \in 1..c /\ j <= tokens[c].parent
      BY <1>0, <3>1, <3>5 DEF Descends, Families
    <3>7. \A u \in Tabs : cached'[u] = IF u = t THEN c ELSE cached[u]
      BY <1>0, <2>3
    <3>8. \A u \in Tabs :
            /\ u = t => storageEvents'[u] = <<>>
            /\ u # t => /\ storageEvents'[u] # <<>>
                        /\ storageEvents'[u][Len(storageEvents'[u])] = c
                        /\ \A i \in DOMAIN storageEvents'[u] :
                             \/ storageEvents'[u][i] = c
                             \/ i \in DOMAIN storageEvents[u]
                                  /\ storageEvents'[u][i] = storageEvents[u][i]
      <4> TAKE u \in Tabs
      <4>1. storageEvents[u] \in Seq(0..n)
        BY <1>0
      <4>2. u # t => storageEvents'[u] = Append(storageEvents[u], c)
        BY <1>0, <2>3, <3>5
      <4>3. /\ Append(storageEvents[u], c) # <<>>
            /\ Append(storageEvents[u], c)[Len(Append(storageEvents[u], c))] = c
            /\ \A i \in DOMAIN Append(storageEvents[u], c) :
                 \/ Append(storageEvents[u], c)[i] = c
                 \/ i \in DOMAIN storageEvents[u]
                      /\ Append(storageEvents[u], c)[i] = storageEvents[u][i]
        <5> DEFINE e == storageEvents[u]
                   a == Append(e, c)
        <5>1. /\ a \in Seq(0..n) /\ a # <<>> /\ Len(a) = Len(e) + 1
              /\ \A i \in 1..Len(e) : a[i] = e[i]
              /\ a[Len(e) + 1] = c
          BY <2>2, <4>1, AppendProperties
        <5>2. DOMAIN a = 1..(Len(e) + 1) /\ DOMAIN e = 1..Len(e) /\ Len(e) \in Nat
          BY <4>1, <5>1, LenProperties
        <5> HIDE DEF e, a
        <5>3. a[Len(a)] = c /\ \A i \in DOMAIN a : a[i] = c \/ (i \in DOMAIN e /\ a[i] = e[i])
          BY <5>1, <5>2
        <5> QED BY <5>1, <5>3 DEF e, a
      <4>4. u = t => storageEvents'[u] = <<>>
        BY <2>3, <3>1
      <4> QED BY <4>2, <4>3, <4>4
    <3>9. \A u \in Tabs : \A i \in DOMAIN storageEvents[u] : storageEvents[u][i] \in Nat
      BY <1>0
    <3>10. Line'
      <4>1. c \in 1..c
        BY <1>0, <3>5
      <4>2. \A u \in Tabs : cached'[u] = c \/ (cached'[u] \in Nat /\ Descends(cached'[u]))
        BY <1>0, <3>1, <3>7 DEF Line
      <4>3. \A u \in Tabs : \A i \in DOMAIN storageEvents'[u] :
              storageEvents'[u][i] = c
                \/ (storageEvents'[u][i] \in Nat /\ Descends(storageEvents'[u][i]))
        BY <3>1, <3>8, <3>9 DEF Line
      <4>4. \A u \in Tabs : refreshing'[u].at # "idle" =>
              refreshing'[u].used \in Nat /\ Descends(refreshing'[u].used)
        <5>1. \A u \in Tabs : refreshing[u].used \in 0..n
          BY <1>0
        <5>2. \A u \in Tabs : refreshing'[u].at # "idle" => refreshing'[u] = refreshing[u]
          BY <1>2
        <5> QED BY <3>1, <5>1, <5>2 DEF Line
      <4>5. \A j \in Nat : j = c \/ Descends(j) => Descends(j)'
        BY <1>1, <2>3, <3>6, <4>1 DEF Descends
      <4>6. \A u \in Tabs : cached'[u] \in Nat
        <5>1. \A u \in Tabs : cached[u] \in 0..n
          BY <1>0
        <5> QED BY <2>2, <3>7, <5>1
      <4> QED BY <1>1, <2>2, <2>3, <3>5, <4>2, <4>3, <4>4, <4>5, <4>6 DEF Line, Accepted
    <3>11. UpToDate'
      <4>1. \A u \in Tabs : refreshing'[u].at = "answered" => refreshing'[u].used # c
        <5>1. \A u \in Tabs : refreshing'[u].at # "idle" => refreshing'[u] = refreshing[u]
          BY <1>2
        <5>2. \A j : Descends(j) => j # c
          BY <1>0, <3>1, <3>5 DEF Descends
        <5> QED BY <3>1, <5>1, <5>2 DEF Line
      <4> QED BY <2>3, <3>7, <3>8, <4>1 DEF UpToDate
    <3> QED BY <3>10, <3>11
  <2> QED BY <1>3, <2>5, <2>6 DEF TokInv
<1> QED BY <1>4, <1>5

LEMMA TokInvStep == TokInv /\ [TokenNext]_tokenVars => TokInv'
<1> SUFFICES ASSUME TokInv, [TokenNext]_tokenVars PROVE TokInv'
  OBVIOUS
<1> DEFINE n == Len(tokens)
<1>0. /\ n \in Nat /\ DOMAIN tokens = 1..n /\ storage \in 0..n /\ old \in 0..n
      /\ cached \in [Tabs -> 0..n] /\ storageEvents \in [Tabs -> Seq(0..n)]
      /\ refreshing \in [Tabs -> [at : {"idle", "sent", "answered"}, used : 0..n, got : 0..n]]
      /\ crossed \in BOOLEAN
  BY DEF TokInv, TokTyped, TokenTypeOK
<1>1. ASSUME NEW t \in Tabs, StartRefresh(t) PROVE TokInv'
  <2>1. /\ cached[t] # 0 /\ UNCHANGED <<tokens, old, storage, cached, storageEvents, crossed>>
        /\ refreshing' \in [Tabs -> [at : {"idle", "sent", "answered"}, used : 0..n, got : 0..n]]
        /\ refreshing'[t].at = "sent" /\ refreshing'[t].used = cached[t] /\ refreshing'[t].got = 0
        /\ \A u \in Tabs \ {t} : refreshing'[u] = refreshing[u]
    BY <1>0, <1>1 DEF StartRefresh
  <2>2. TokTyped'
    BY <2>1 DEF TokInv, TokTyped, TokenTypeOK
  <2>5. cached[t] \in DOMAIN tokens
    BY <1>0, <2>1
  <2>3. Families'
    BY <2>1, <2>5 DEF TokInv, Families, Accepted
  <2>4. ASSUME ~crossed PROVE Line' /\ UpToDate'
    BY <2>1, <2>4 DEF TokInv, Line, UpToDate, Descends, Accepted
  <2> QED BY <2>1, <2>2, <2>3, <2>4 DEF TokInv
<1>2. ASSUME NEW t \in Tabs, LoseRefresh(t) PROVE TokInv'
  <2>1. /\ UNCHANGED <<tokens, old, storage, cached, storageEvents, crossed>>
        /\ refreshing' \in [Tabs -> [at : {"idle", "sent", "answered"}, used : 0..n, got : 0..n]]
        /\ refreshing'[t].at = "idle" /\ \A u \in Tabs \ {t} : refreshing'[u] = refreshing[u]
    BY <1>0, <1>2 DEF LoseRefresh, Idle0
  <2>2. TokTyped'
    BY <2>1 DEF TokInv, TokTyped, TokenTypeOK
  <2>3. Families'
    BY <2>1 DEF TokInv, Families, Accepted
  <2>4. ASSUME ~crossed PROVE Line' /\ UpToDate'
    BY <2>1, <2>4 DEF TokInv, Line, UpToDate, Descends, Accepted
  <2> QED BY <2>1, <2>2, <2>3, <2>4 DEF TokInv
<1>3. ASSUME NEW t \in Tabs, HandleStorageEvent(t) PROVE TokInv'
  <2> DEFINE s == storageEvents[t]
  <2>1. /\ s # <<>> /\ UNCHANGED <<tokens, old, storage, refreshing, crossed>>
        /\ cached' = [cached EXCEPT ![t] = Head(s)]
        /\ storageEvents' = [storageEvents EXCEPT ![t] = Tail(s)]
    BY <1>3 DEF HandleStorageEvent
  <2>2. /\ s \in Seq(0..n) /\ Head(s) = s[1] /\ 1 \in DOMAIN s /\ Head(s) \in 0..n
        /\ Tail(s) \in Seq(0..n)
        /\ \A i \in DOMAIN Tail(s) : i + 1 \in DOMAIN s /\ Tail(s)[i] = s[i + 1]
        /\ IF Tail(s) = <<>> THEN s[1] = s[Len(s)] ELSE Tail(s)[Len(Tail(s))] = s[Len(s)]
    <3>1. s \in Seq(0..n)
      BY <1>0
    <3> HIDE DEF s
    <3>2. Head(s) = s[1] /\ Len(s) \in Nat \ {0} /\ DOMAIN s = 1..Len(s)
      BY <2>1, <3>1, EmptySeq, LenProperties
    <3>3. /\ Head(s) \in 0..n /\ Tail(s) \in Seq(0..n) /\ Len(Tail(s)) = Len(s) - 1
          /\ \A i \in 1..Len(Tail(s)) : Tail(s)[i] = s[i + 1]
      BY <2>1, <3>1, HeadTailProperties
    <3>4. DOMAIN Tail(s) = 1..(Len(s) - 1) /\ (Tail(s) = <<>> <=> Len(s) = 1)
      <4>1. DOMAIN Tail(s) = 1..(Len(s) - 1)
        BY <3>3, LenProperties
      <4>2. Tail(s) # <<>> => Len(Tail(s)) # 0
        BY <3>3, EmptySeq
      <4>3. Tail(s) = <<>> => Len(Tail(s)) = 0
        BY EmptySeq
      <4> QED BY <3>2, <3>3, <4>1, <4>2, <4>3
    <3> QED BY <3>1, <3>2, <3>3, <3>4
  <2> HIDE DEF s
  <2>3. /\ cached' \in [Tabs -> 0..n] /\ storageEvents' \in [Tabs -> Seq(0..n)]
        /\ cached'[t] = s[1] /\ storageEvents'[t] = Tail(s)
        /\ \A u \in Tabs \ {t} : cached'[u] = cached[u] /\ storageEvents'[u] = storageEvents[u]
    BY <1>0, <2>1, <2>2
  <2>4. TokTyped'
    <3>1. \A u \in Tabs : storageEvents'[u] \in Seq(0..n)
      BY <2>3
    <3> QED BY <2>1, <2>3, <3>1 DEF TokInv, TokTyped, TokenTypeOK
  <2>5. Families'
    BY <2>1 DEF TokInv, Families, Accepted
  <2>6. ASSUME ~crossed PROVE Line' /\ UpToDate'
    <3>1. Line /\ UpToDate /\ \A i \in DOMAIN s : Descends(s[i])
      BY <2>6 DEF TokInv, Line, s
    <3>2. Line'
      <4>1. \A u \in Tabs : Descends(cached'[u])
        BY <2>2, <2>3, <3>1 DEF Line
      <4>2. \A u \in Tabs : \A i \in DOMAIN storageEvents'[u] : Descends(storageEvents'[u][i])
        <5> TAKE u \in Tabs
        <5>1. CASE u = t
          BY <2>2, <2>3, <3>1, <5>1
        <5>2. CASE u # t
          BY <2>3, <3>1, <5>2 DEF Line
        <5> QED BY <5>1, <5>2
      <4> QED BY <2>1, <3>1, <4>1, <4>2 DEF Line, Descends, Accepted
    <3>3. s[Len(s)] = storage
      BY <2>1, <3>1 DEF UpToDate, s
    <3>4. UpToDate'
      BY <2>1, <2>2, <2>3, <3>1, <3>3 DEF UpToDate, Accepted
    <3> QED BY <3>2, <3>4
  <2> QED BY <2>1, <2>4, <2>5, <2>6 DEF TokInv
<1>4. ASSUME NEW t \in Tabs, ReloadTab(t) PROVE TokInv'
  <2>1. /\ UNCHANGED <<tokens, old, storage, crossed>>
        /\ cached' \in [Tabs -> 0..n] /\ storageEvents' \in [Tabs -> Seq(0..n)]
        /\ refreshing' \in [Tabs -> [at : {"idle", "sent", "answered"}, used : 0..n, got : 0..n]]
        /\ cached'[t] = storage /\ storageEvents'[t] = <<>> /\ refreshing'[t].at = "idle"
        /\ \A u \in Tabs \ {t} : cached'[u] = cached[u] /\ storageEvents'[u] = storageEvents[u]
                                 /\ refreshing'[u] = refreshing[u]
    BY <1>0, <1>4 DEF ReloadTab, Idle0
  <2>2. TokTyped'
    <3>1. \A u \in Tabs : storageEvents'[u] \in Seq(0..n)
      BY <2>1
    <3> QED BY <2>1, <3>1 DEF TokInv, TokTyped, TokenTypeOK
  <2>3. Families'
    BY <2>1 DEF TokInv, Families, Accepted
  <2>4. ASSUME ~crossed PROVE Line'
    <3>1. Line /\ storage \in 1..storage
      BY <1>0, <2>4 DEF TokInv, Line
    <3>2. \A u \in Tabs : Descends(cached'[u])
      BY <2>1, <3>1 DEF Line, Descends
    <3>3. \A u \in Tabs : \A i \in DOMAIN storageEvents'[u] : Descends(storageEvents'[u][i])
      <4> TAKE u \in Tabs
      <4>1. CASE u = t
        BY <2>1, <4>1
      <4>2. CASE u # t
        BY <2>1, <3>1, <4>2 DEF Line
      <4> QED BY <4>1, <4>2
    <3> QED BY <2>1, <3>1, <3>2, <3>3 DEF Line, Descends, Accepted
  <2>5. ASSUME ~crossed PROVE UpToDate'
    BY <2>1, <2>5 DEF TokInv, UpToDate, Accepted
  <2> QED BY <2>1, <2>2, <2>3, <2>4, <2>5 DEF TokInv
<1>5. ASSUME AccessExpires PROVE TokInv'
  <2>1. old' \in 0..n /\ UNCHANGED <<tokens, storage, cached, storageEvents, refreshing, crossed>>
    BY <1>0, <1>5 DEF AccessExpires
  <2>2. TokTyped'
    BY <2>1 DEF TokInv, TokTyped, TokenTypeOK
  <2> QED BY <2>1, <2>2 DEF TokInv, Families, Line, UpToDate, Descends, Accepted
<1>6. ASSUME UNCHANGED tokenVars PROVE TokInv'
  BY <1>6 DEF tokenVars, TokInv, TokTyped, TokenTypeOK, Families, Line, UpToDate, Descends, Accepted
<1> QED BY <1>1, <1>2, <1>3, <1>4, <1>5, <1>6, RotateKeeps, ReceiveKeeps DEF TokenNext

(* The browser keeps a refresh token that the server accepts, whatever answers are lost and
   tokens rotated twice, unless two of its pages wrote across each other (storage.ts). *)
THEOREM SessionSurvivesAlways == TokenSpec => []SessionSurvives
BY TokInvInit, TokInvSafe, TokInvStep, PTL DEF TokenSpec

-----------------------------------------------------------------------------
(* MachineSession *)

(* The caller is in the queue of the vault. *)
Waits(c) == \E i \in DOMAIN calls : calls[i] = c

(* A call waits exactly while its caller is at the step that made it, and only the call whose
   turn it is has sent a token: the vault's, or the one of the new pairing. *)
Waiting ==
    /\ check.at = "refreshing" <=> Waits("check")
    /\ request = "refreshing" <=> Waits("request")
    /\ repair = "calling" <=> Waits("repair")
    /\ \A r \in Removers : Releasing(r) <=> Waits(r)
Locked ==
    /\ \A c \in Callers : used[c] # 0 => Turn(c) /\ (c # "repair" => used[c] = vault)
    /\ \A r \in Removers : release[r].at = "deleting" => used[r] # 0

(* A pairing under way has room for the device it has yet to make. *)
Roomy == repair # "none" /\ used["repair"] = 0 => devices < MaxDevices

(* The access token is of the session in the vault, and that one of the current pairing. *)
Vaulted ==
    /\ grant \in {0, vault} /\ (fresh => grant # 0)
    /\ raced \/ vault \in {0, pairing}

(* A machine that is being removed keeps its pairing, one that was removed has no session
   and is on no list. *)
Removed ==
    /\ release["elsewhere"].at # "none" => ~listed
    /\ \A r \in Removers :
         /\ release[r].at = "done" => ~listed /\ (raced \/ vault = 0)
         /\ Releasing(r) => raced \/ release[r].of = pairing
         /\ release[r].revoked =>
              release[r].at = "done" /\ (raced \/ release[r].of \notin alive)

MachInv == MachineTypeOK /\ Waiting /\ Locked /\ Roomy /\ Vaulted /\ Removed
             /\ OnlineHasSession /\ StatusIsCurrent

LEMMA MachInvInit == MachineInit => MachInv
<1> SUFFICES ASSUME MachineInit PROVE MachInv
  OBVIOUS
<1> USE MachineAssumption DEF MachineInit, NoCheck, NoRelease, Callers, Removers
<1>1. MachineTypeOK
  <2>1. calls \in Seq(Callers) /\ used \in [Callers -> 0..devices]
    OBVIOUS
  <2>4. raced \in BOOLEAN /\ fresh \in BOOLEAN /\ listed \in BOOLEAN
    BY Zenon
  <2>2. \A i, j \in DOMAIN calls : calls[i] = calls[j] => i = j
    OBVIOUS
  <2>3. release \in [Removers -> [at : {"none", "revoking", "forgetting", "deleting", "done"},
                                 of : 0..devices, revoked : BOOLEAN]]
    OBVIOUS
  <2> QED BY <2>1, <2>2, <2>3, <2>4 DEF MachineTypeOK
<1>2. Waiting
  BY DEF Waiting, Waits, Releasing
<1>3. Locked
  BY DEF Locked
<1>4. Vaulted /\ Removed
  BY DEF Vaulted, Removed, Releasing
<1>6. Roomy
  BY DEF Roomy
<1>5. OnlineHasSession /\ StatusIsCurrent
  BY DEF OnlineHasSession, StatusIsCurrent
<1> QED BY <1>1, <1>2, <1>3, <1>4, <1>5, <1>6 DEF MachInv

LEMMA MachInvSafe == MachInv => MachineSafe
BY DEF MachInv, MachineSafe, RemovalIsFinal, Removed, Vaulted, Locked

(* The queue of the vault's calls. *)
CallsTyped == calls \in Seq(Callers) /\ \A i, j \in DOMAIN calls : calls[i] = calls[j] => i = j
UsedTyped == used \in [Callers -> 0..devices]

(* A caller that enters waits, and nobody else's turn is over. *)
LEMMA EnterQueue ==
    ASSUME CallsTyped, NEW c \in Callers, ~Waits(c), Enter(c)
    PROVE  /\ CallsTyped' /\ used' = used
           /\ \A d \in Callers : (Waits(d)' <=> Waits(d) \/ d = c) /\ (Turn(d) => Turn(d)')
<1>1. calls' = Append(calls, c) /\ used' = used /\ calls \in Seq(Callers)
  BY DEF Enter, CallsTyped
<1>2. Len(calls) \in Nat /\ DOMAIN calls = 1..Len(calls)
  BY <1>1
<1>3. /\ calls' \in Seq(Callers) /\ DOMAIN calls' = 1..(Len(calls) + 1)
      /\ \A i \in DOMAIN calls : calls'[i] = calls[i]
      /\ calls'[Len(calls) + 1] = c
  BY <1>1
<1>4. \A i \in DOMAIN calls' : i \in DOMAIN calls \/ i = Len(calls) + 1
  BY <1>2, <1>3
<1>5. \A i \in DOMAIN calls : i \in DOMAIN calls' /\ Len(calls) + 1 \in DOMAIN calls'
  BY <1>2, <1>3
<1>6. CallsTyped'
  BY <1>3, <1>4 DEF CallsTyped, Waits
<1>7. \A d \in Callers : Waits(d)' <=> Waits(d) \/ d = c
  BY <1>2, <1>3, <1>4, <1>5 DEF Waits
<1>8. \A d \in Callers : Turn(d) => Turn(d)'
  BY <1>1 DEF Turn
<1> QED BY <1>1, <1>6, <1>7, <1>8

(* A caller that leaves no longer waits, and the others keep their order. *)
LEMMA ExitQueue ==
    ASSUME CallsTyped, UsedTyped, devices \in Nat, NEW c \in Callers, Exit(c)
    PROVE  /\ CallsTyped' /\ used' \in [Callers -> 0..devices]
           /\ \A d \in Callers : (Waits(d)' <=> Waits(d) /\ d # c)
           /\ used'[c] = 0 /\ \A d \in Callers : d # c => used'[d] = used[d]
<1> DEFINE I == {i \in DOMAIN calls : calls[i] # c}
           n == Cardinality(I)
<1>1. calls \in Seq(Callers) /\ I \subseteq DOMAIN calls /\ calls' = Picked(calls, I)
  BY DEF Exit, CallsTyped
<1> HIDE DEF I
<1>2. /\ n \in Nat /\ calls' \in Seq(Callers) /\ DOMAIN calls' = 1..n
      /\ \A k \in 1..n : InOrder(I)[k] \in I /\ calls'[k] = calls[InOrder(I)[k]]
      /\ \A j, k \in 1..n : j < k => InOrder(I)[j] < InOrder(I)[k]
      /\ \A i \in I : \E k \in 1..n : InOrder(I)[k] = i /\ calls'[k] = calls[i]
  BY <1>1, PickedLists
<1> HIDE DEF n
<1>3. \A k \in 1..n : InOrder(I)[k] \in DOMAIN calls /\ InOrder(I)[k] \in Nat /\ calls'[k] # c
  BY <1>1, <1>2 DEF I
<1>4. ASSUME NEW j \in 1..n, NEW k \in 1..n, calls'[j] = calls'[k] PROVE j = k
  <2>1. InOrder(I)[j] = InOrder(I)[k]
    BY <1>2, <1>3, <1>4 DEF CallsTyped
  <2>2. ~(j < k) /\ ~(k < j)
    BY <1>2, <1>3, <2>1
  <2> QED BY <1>2, <2>2
<1>5. CallsTyped'
  BY <1>2, <1>4 DEF CallsTyped
<1>6. \A d \in Callers : Waits(d)' <=> Waits(d) /\ d # c
  <2> TAKE d \in Callers
  <2>1. ASSUME NEW k \in DOMAIN calls', calls'[k] = d PROVE Waits(d) /\ d # c
    BY <1>2, <1>3, <2>1 DEF Waits
  <2>2. ASSUME NEW i \in DOMAIN calls, calls[i] = d, d # c PROVE Waits(d)'
    <3>1. i \in I
      BY <2>2 DEF I
    <3> QED BY <1>2, <2>2, <3>1 DEF Waits
  <2> QED BY <2>1, <2>2 DEF Waits
<1>7. used' = [used EXCEPT ![c] = 0]
  BY DEF Exit
<1>8. /\ used' \in [Callers -> 0..devices]
      /\ used'[c] = 0 /\ \A d \in Callers : d # c => used'[d] = used[d]
  <2>1. 0 \in 0..devices
    BY DEF UsedTyped
  <2> QED BY <1>7, <2>1 DEF UsedTyped
<1> QED BY <1>5, <1>6, <1>8

(* Whoever has the turn, or has sent a token, is the only one. *)
LEMMA OneHolder ==
    ASSUME MachInv, NEW c \in Callers, Turn(c) \/ used[c] # 0
    PROVE  Turn(c) /\ Waits(c) /\ \A d \in Callers : d # c => used[d] = 0
<1>1. Turn(c) /\ \A d \in Callers : used[d] # 0 => Turn(d)
  BY DEF MachInv, Locked
<1>2. calls \in Seq(Callers) /\ calls # <<>>
  BY <1>1 DEF MachInv, MachineTypeOK, Turn
<1>3. Waits(c)
  BY <1>1, <1>2 DEF Turn, Waits
<1> QED BY <1>1, <1>3 DEF Turn


(* A step that leaves the queue alone leaves everybody in his place. *)
LEMMA SameQueue ==
    ASSUME calls' = calls PROVE \A c \in Callers : (Waits(c)' <=> Waits(c)) /\ (Turn(c)' <=> Turn(c))
BY DEF Waits, Turn

(* The types of the queue, of those of the machine. *)
LEMMA QueueTyped ==
    /\ MachineTypeOK => CallsTyped /\ UsedTyped /\ devices \in Nat
    /\ {"check", "request", "repair"} \subseteq Callers /\ Removers \subseteq Callers
    /\ \A r \in Removers : r \notin {"check", "request", "repair"}
BY DEF MachineTypeOK, CallsTyped, UsedTyped, Callers, Removers

(* A call begins, with nothing else of its caller's. *)
LEMMA NewCall ==
    ASSUME MachInv, NEW c \in Callers, ~Waits(c), Enter(c)
    PROVE  /\ CallsTyped' /\ used' = used
           /\ \A d \in Callers : (Waits(d)' <=> Waits(d) \/ d = c) /\ (Turn(d) => Turn(d)')
BY EnterQueue, QueueTyped DEF MachInv

(* A call ends: nobody has a token under way. *)
LEMMA CallEnds ==
    ASSUME MachInv, NEW c \in Callers, Turn(c) \/ used[c] # 0, Exit(c)
    PROVE  /\ CallsTyped' /\ used' \in [Callers -> 0..devices] /\ Waits(c)
           /\ \A d \in Callers : (Waits(d)' <=> Waits(d) /\ d # c) /\ used'[d] = 0
           /\ \A r \in Removers : r # c => release[r].at # "deleting"
<1>1. CallsTyped /\ UsedTyped /\ devices \in Nat /\ Removers \subseteq Callers
  BY QueueTyped DEF MachInv
<1>2. Waits(c) /\ \A d \in Callers : d # c => used[d] = 0
  BY OneHolder
<1>3. \A r \in Removers : r # c => release[r].at # "deleting"
  BY <1>1, <1>2 DEF MachInv, Locked
<1> QED BY <1>1, <1>2, <1>3, ExitQueue

(* Without a grant there is no access token. *)
LEMMA DropsAccess ==
    ASSUME DropAccess PROVE grant' = 0 /\ fresh' \in BOOLEAN /\ ~fresh'
<1>1. fresh' = FALSE /\ grant' = 0
  BY DEF DropAccess
<1> QED BY <1>1, Zenon

(* A token is sent. *)
LEMMA AskKeeps ==
    ASSUME MachInv, NEW c \in Callers, c # "repair", Ask(c),
           UNCHANGED <<serverVars, vault, accessVars, storeVars, statusVars, check, request, repair,
                       release, raced>>
    PROVE  MachInv'
<1> USE DEF MachInv, serverVars, accessVars, storeVars, statusVars
<1>1. /\ Turn(c) /\ used[c] = 0 /\ vault # 0 /\ calls' = calls /\ used' = [used EXCEPT ![c] = vault]
      /\ used \in [Callers -> 0..devices] /\ vault \in 0..devices
  BY DEF Ask, MachineTypeOK
<1>2. /\ \A d \in Callers : (Waits(d)' <=> Waits(d)) /\ (Turn(d)' <=> Turn(d))
      /\ {"check", "request", "repair"} \subseteq Callers /\ Removers \subseteq Callers
  BY <1>1, SameQueue, QueueTyped
<1>3. /\ used' \in [Callers -> 0..devices] /\ used'[c] = vault
      /\ \A d \in Callers : d # c => used'[d] = 0 /\ used[d] = 0
  BY <1>1, OneHolder
<1>4. MachineTypeOK' /\ Waiting'
  BY <1>1, <1>2, <1>3 DEF MachineTypeOK, Waiting, Releasing
<1>5. Locked' /\ Roomy'
  BY <1>1, <1>2, <1>3 DEF Locked, Roomy
<1>6. Vaulted' /\ Removed'
  BY DEF Vaulted, Removed, Releasing
<1>7. OnlineHasSession' /\ StatusIsCurrent'
  BY DEF OnlineHasSession, StatusIsCurrent, Online
<1> QED BY <1>4, <1>5, <1>6, <1>7

(* An answer to a refresh: the vault keeps its session, or the session is lost. *)
LEMMA RefreshEnds ==
    ASSUME MachInv, NEW c \in {"check", "request"},
           UNCHANGED <<serverVars, storeVars, repair, release, raced>>,
           Renewed(c) \/ SessionLost(c) \/ NoAnswer(c)
    PROVE  /\ CallsTyped' /\ used' \in [Callers -> 0..devices]
           /\ \A d \in Callers : (Waits(d)' <=> Waits(d) /\ d # c) /\ used'[d] = 0
           /\ vault' \in {0, vault} /\ grant' \in 0..devices /\ fresh' \in BOOLEAN
           /\ Renewed(c) => vault' # 0 /\ vault' = vault
           /\ NoAnswer(c) => vault' = vault
           /\ Locked' /\ Roomy' /\ Vaulted' /\ Removed'
<1> USE DEF MachInv, serverVars, storeVars
<1>1. c \in Callers /\ c # "repair" /\ Exit(c) /\ (Turn(c) \/ used[c] # 0)
  <2>1. \A d \in alive : d # 0
    BY DEF MachineTypeOK
  <2> QED BY <2>1, QueueTyped DEF Renewed, SessionLost, NoAnswer
<1>2. /\ CallsTyped' /\ used' \in [Callers -> 0..devices]
      /\ \A d \in Callers : (Waits(d)' <=> Waits(d) /\ d # c) /\ used'[d] = 0
      /\ \A r \in Removers : r # c => release[r].at # "deleting"
      /\ used["repair"] = 0
  BY <1>1, CallEnds, OneHolder, QueueTyped
<1>3. /\ vault' \in {0, vault} /\ grant' \in {0, vault'} /\ (fresh' => grant' # 0) /\ fresh' \in BOOLEAN
      /\ grant' \in 0..devices
      /\ Renewed(c) => vault' # 0 /\ vault' = vault
      /\ NoAnswer(c) => vault' = vault
  <2>1. CASE Renewed(c)
    <3>1. used[c] # 0 /\ used[c] = vault
      BY <1>1, <2>1 DEF Renewed, MachineTypeOK, Locked
    <3> QED BY <2>1, <3>1 DEF Renewed, StoreAccess, MachineTypeOK
  <2>2. CASE SessionLost(c) /\ ~Renewed(c) /\ ~NoAnswer(c)
    BY <2>2, DropsAccess DEF SessionLost, MachineTypeOK
  <2>3. CASE NoAnswer(c) /\ ~Renewed(c)
    BY <2>3 DEF NoAnswer, accessVars, Vaulted, MachineTypeOK
  <2> QED BY <2>1, <2>2, <2>3
<1>4. Locked' /\ Roomy'
  BY <1>1, <1>2, QueueTyped DEF Locked, Roomy
<1>5. Vaulted' /\ Removed'
  BY <1>3 DEF Vaulted, Removed, Releasing
<1> QED BY <1>2, <1>3, <1>4, <1>5

(* Status checks. *)
LEMMA ChecksKeep ==
    ASSUME MachInv, StartCheck \/ Probed \/ CheckRenewed PROVE MachInv'
<1> USE DEF MachInv, serverVars, accessVars, storeVars, statusVars, lockVars
<1>0. /\ \A c \in Callers : calls' = calls => (Waits(c)' <=> Waits(c)) /\ (Turn(c)' <=> Turn(c))
      /\ {"check", "request", "repair"} \subseteq Callers /\ Removers \subseteq Callers
      /\ \A r \in Removers : r \notin {"check", "request", "repair"}
  BY SameQueue, QueueTyped
<1>1. CASE StartCheck
  <2>1. /\ check' = [at |-> "probing", of |-> pairing]
        /\ \/ connection = "none" /\ connection' = "checking" /\ resolved' = pairing
           \/ UNCHANGED statusVars
        /\ UNCHANGED <<serverVars, vault, accessVars, storeVars, lockVars, request, repair, release,
                   raced>>
        /\ check.at = "none"
    BY <1>1 DEF StartCheck, BeginCheck, NoCheck
  <2>2. MachineTypeOK'
    BY <2>1 DEF MachineTypeOK
  <2>3. Waiting'
    BY <1>0, <2>1 DEF Waiting, Releasing
  <2>4. Locked' /\ Roomy' /\ Vaulted' /\ Removed'
    BY <1>0, <2>1 DEF Locked, Roomy, Vaulted, Removed, Releasing
  <2>5. OnlineHasSession' /\ StatusIsCurrent'
    BY <2>1 DEF OnlineHasSession, StatusIsCurrent, NoCheck
  <2> QED BY <2>2, <2>3, <2>4, <2>5
<1>2. CASE Probed
  <2>1. /\ check.at = "probing" /\ check.of \in 0..devices
        /\ UNCHANGED <<serverVars, vault, storeVars, request, repair, release, raced>>
        /\ UNCHANGED accessVars \/ (DropAccess /\ ~fresh')
        /\ grant' \in 0..devices /\ fresh' \in BOOLEAN
        /\ \/ /\ calls' = calls /\ used' = used
              /\ \/ SettleCheck("offline") \/ SettleCheck("different_server")
                 \/ fresh /\ SettleCheck("online")
           \/ /\ check' = [check EXCEPT !.at = "refreshing"] /\ Enter("check")
              /\ UNCHANGED statusVars
    BY <1>2, DropsAccess DEF Probed, MachineTypeOK
  <2>2. Vaulted' /\ Removed'
    BY <2>1 DEF Vaulted, Removed, DropAccess, Releasing
  <2>3. CASE Enter("check") /\ check' = [check EXCEPT !.at = "refreshing"] /\ UNCHANGED statusVars
    <3>1. /\ CallsTyped' /\ used' = used
          /\ \A d \in Callers : (Waits(d)' <=> Waits(d) \/ d = "check") /\ (Turn(d) => Turn(d)')
      BY <1>0, <2>1, <2>3, NewCall DEF Waiting
    <3>2. check'.at = "refreshing" /\ check' # NoCheck
          /\ check' \in [at : {"none", "probing", "refreshing"}, of : 0..devices]
      BY <2>3 DEF MachineTypeOK, NoCheck
    <3>3. MachineTypeOK'
      BY <2>1, <2>3, <3>1, <3>2 DEF MachineTypeOK, CallsTyped
    <3>4. Waiting'
      BY <1>0, <2>1, <3>1, <3>2 DEF Waiting, Releasing
    <3>5. Locked' /\ Roomy' /\ OnlineHasSession' /\ StatusIsCurrent'
      BY <1>0, <2>1, <3>1, <3>2 DEF Locked, Roomy, OnlineHasSession, StatusIsCurrent
    <3> QED BY <2>2, <3>3, <3>4, <3>5
  <2>4. CASE /\ calls' = calls /\ used' = used
             /\ \/ SettleCheck("offline") \/ SettleCheck("different_server")
                \/ fresh /\ SettleCheck("online")
    <3>1. /\ check' \in [at : {"none", "probing", "refreshing"}, of : 0..devices]
          /\ check'.at # "refreshing"
          /\ connection' \in {"none", "checking", "online", "offline", "different_server",
                              "session_revoked"}
          /\ resolved' \in 0..devices
      BY <2>1, <2>4 DEF SettleCheck, MachineTypeOK, NoCheck
    <3>2. MachineTypeOK'
      BY <2>1, <2>4, <3>1 DEF MachineTypeOK
    <3>3. Waiting'
      BY <1>0, <2>1, <2>4, <3>1 DEF Waiting, Releasing
    <3>4. Locked' /\ Roomy'
      BY <1>0, <2>1, <2>4 DEF Locked, Roomy
    <3>5. StatusIsCurrent'
      BY <2>1, <2>4 DEF StatusIsCurrent, SettleCheck, NoCheck
    <3>6. OnlineHasSession'
      BY <2>1, <2>4 DEF OnlineHasSession, Online, SettleCheck, NoCheck, Vaulted, MachineTypeOK
    <3> QED BY <2>2, <3>2, <3>3, <3>4, <3>5, <3>6
  <2> QED BY <2>1, <2>3, <2>4
<1>3. CASE CheckRenewed
  <2>1. /\ check.at = "refreshing" /\ check.of \in 0..devices
        /\ UNCHANGED <<serverVars, storeVars, request, repair, release, raced>>
        /\ \/ Renewed("check") /\ SettleCheck("online")
           \/ SessionLost("check") /\ SettleCheck("session_revoked")
           \/ NoAnswer("check") /\ SettleCheck("offline")
    BY <1>3 DEF CheckRenewed, MachineTypeOK
  <2>2. /\ CallsTyped' /\ used' \in [Callers -> 0..devices]
        /\ \A d \in Callers : (Waits(d)' <=> Waits(d) /\ d # "check") /\ used'[d] = 0
        /\ vault' \in {0, vault} /\ grant' \in 0..devices /\ fresh' \in BOOLEAN
        /\ Renewed("check") => vault' # 0 /\ vault' = vault
        /\ Locked' /\ Roomy' /\ Vaulted' /\ Removed'
    BY <2>1, RefreshEnds
  <2>3. /\ check' \in [at : {"none", "probing", "refreshing"}, of : 0..devices]
        /\ check'.at # "refreshing"
        /\ connection' \in {"none", "checking", "online", "offline", "different_server",
                            "session_revoked"}
        /\ resolved' \in 0..devices
    BY <2>1 DEF SettleCheck, MachineTypeOK, NoCheck
  <2>4. MachineTypeOK'
    BY <2>1, <2>2, <2>3 DEF MachineTypeOK, CallsTyped
  <2>5. Waiting'
    BY <1>0, <2>1, <2>2, <2>3 DEF Waiting, Releasing
  <2>7. StatusIsCurrent'
    BY <2>1 DEF StatusIsCurrent, SettleCheck, NoCheck
  <2>8. OnlineHasSession'
    BY <2>1, <2>2 DEF OnlineHasSession, Online, SettleCheck, NoCheck, Vaulted
  <2> QED BY <2>2, <2>4, <2>5, <2>7, <2>8
<1> QED BY <1>1, <1>2, <1>3

(* Requests of the machine's client. *)
LEMMA RequestsKeep ==
    ASSUME MachInv, SendRequest \/ RequestAnswered \/ RequestRenewed PROVE MachInv'
<1> USE DEF MachInv, serverVars, accessVars, storeVars, statusVars, lockVars
<1>0. /\ \A c \in Callers : calls' = calls => (Waits(c)' <=> Waits(c)) /\ (Turn(c)' <=> Turn(c))
      /\ {"check", "request", "repair"} \subseteq Callers /\ Removers \subseteq Callers
      /\ \A r \in Removers : r \notin {"check", "request", "repair"}
  BY SameQueue, QueueTyped
<1>1. ASSUME UNCHANGED <<serverVars, vault, accessVars, storeVars, statusVars, lockVars, check, repair,
                         release, raced>>,
             request # "refreshing", request' \in {"none", "sent"}
      PROVE  MachInv'
  <2>1. MachineTypeOK'
    BY <1>1 DEF MachineTypeOK
  <2>2. Waiting' /\ Locked' /\ Roomy'
    BY <1>0, <1>1 DEF Waiting, Locked, Roomy, Releasing
  <2>3. Vaulted' /\ Removed' /\ OnlineHasSession' /\ StatusIsCurrent'
    BY <1>1 DEF Vaulted, Removed, Releasing, OnlineHasSession, StatusIsCurrent, Online
  <2> QED BY <2>1, <2>2, <2>3
<1>2. CASE SendRequest
  BY <1>1, <1>2 DEF SendRequest
<1>3. CASE RequestAnswered
  <2>1. /\ request = "sent"
        /\ UNCHANGED <<serverVars, vault, accessVars, storeVars, statusVars, check, repair, release,
                       raced>>
        /\ \/ request' = "none" /\ UNCHANGED lockVars
           \/ request' = "refreshing" /\ Enter("request")
    BY <1>3 DEF RequestAnswered
  <2>2. CASE request' = "refreshing" /\ Enter("request")
    <3>1. /\ CallsTyped' /\ used' = used
          /\ \A d \in Callers : (Waits(d)' <=> Waits(d) \/ d = "request") /\ (Turn(d) => Turn(d)')
      BY <1>0, <2>1, <2>2, NewCall DEF Waiting
    <3>2. MachineTypeOK'
      BY <2>1, <2>2, <3>1 DEF MachineTypeOK, CallsTyped
    <3>3. Waiting' /\ Locked' /\ Roomy'
      BY <1>0, <2>1, <2>2, <3>1 DEF Waiting, Locked, Roomy, Releasing
    <3>4. Vaulted' /\ Removed' /\ OnlineHasSession' /\ StatusIsCurrent'
      BY <2>1 DEF Vaulted, Removed, Releasing, OnlineHasSession, StatusIsCurrent, Online
    <3> QED BY <3>2, <3>3, <3>4
  <2> QED BY <1>1, <2>1, <2>2
<1>4. CASE RequestRenewed
  <2>1. /\ request = "refreshing" /\ request' = "none"
        /\ UNCHANGED <<serverVars, storeVars, check, repair, release, raced>>
        /\ \/ Renewed("request") /\ UNCHANGED statusVars
           \/ /\ SessionLost("request")
              /\ IF listed THEN connection' = "session_revoked" /\ resolved' = pairing
                 ELSE UNCHANGED statusVars
           \/ NoAnswer("request") /\ UNCHANGED statusVars
    BY <1>4 DEF RequestRenewed
  <2>2. /\ CallsTyped' /\ used' \in [Callers -> 0..devices]
        /\ \A d \in Callers : (Waits(d)' <=> Waits(d) /\ d # "request") /\ used'[d] = 0
        /\ vault' \in {0, vault} /\ grant' \in 0..devices /\ fresh' \in BOOLEAN
        /\ Renewed("request") => vault' # 0 /\ vault' = vault
        /\ NoAnswer("request") => vault' = vault
        /\ Locked' /\ Roomy' /\ Vaulted' /\ Removed'
    BY <2>1, RefreshEnds
  <2>3. MachineTypeOK'
    BY <2>1, <2>2 DEF MachineTypeOK, CallsTyped
  <2>4. Waiting'
    BY <1>0, <2>1, <2>2 DEF Waiting, Releasing
  <2>5. StatusIsCurrent'
    BY <2>1 DEF StatusIsCurrent
  <2>6. OnlineHasSession'
    BY <2>1, <2>2 DEF OnlineHasSession, Online, Vaulted
  <2> QED BY <2>2, <2>3, <2>4, <2>5, <2>6
<1> QED BY <1>2, <1>3, <1>4

(* The server has made a device for the repair. *)
LEMMA NewDevice ==
    ASSUME MachInv, repair = "calling", Turn("repair"), used["repair"] = 0,
           devices' = devices + 1, alive' = alive \cup {devices + 1},
           used' = [used EXCEPT !["repair"] = devices + 1], UNCHANGED <<calls, repair>>,
           UNCHANGED <<vault, accessVars, storeVars, statusVars, check, request, release, raced>>
    PROVE  MachInv'
<1> USE DEF MachInv, accessVars, storeVars, statusVars
<1>0. /\ \A c \in Callers : (Waits(c)' <=> Waits(c)) /\ (Turn(c)' <=> Turn(c))
      /\ {"check", "request", "repair"} \subseteq Callers /\ Removers \subseteq Callers
      /\ \A r \in Removers : r \notin {"check", "request", "repair"}
  BY SameQueue, QueueTyped
<1>1. devices \in 1..MaxDevices /\ devices + 1 \in 1..MaxDevices
  BY MachineAssumption DEF Roomy, MachineTypeOK
<1>2. \A d \in 0..devices : d \in 0..devices'
  BY <1>1
<1>3. used' \in [Callers -> 0..devices'] /\ used'["repair"] # 0
      /\ \A c \in Callers : c # "repair" => used'[c] = used[c]
  BY <1>0, <1>1, <1>2 DEF MachineTypeOK
<1>4. /\ check' \in [at : {"none", "probing", "refreshing"}, of : 0..devices']
      /\ release' \in [Removers -> [at : {"none", "revoking", "forgetting", "deleting", "done"},
                                 of : 0..devices', revoked : BOOLEAN]]
  BY <1>2 DEF MachineTypeOK
<1>5. vault' \in 0..devices' /\ grant' \in 0..devices' /\ pairing' \in 1..devices'
      /\ resolved' \in 0..devices' /\ alive' \subseteq 1..devices'
  BY <1>1 DEF MachineTypeOK
<1>6. MachineTypeOK'
  BY <1>1, <1>3, <1>4, <1>5 DEF MachineTypeOK
<1>7. Waiting' /\ Locked' /\ Roomy'
  BY <1>0, <1>3 DEF Waiting, Locked, Roomy, Releasing
<1>8. Removed'
  <2>1. \A r \in Removers : release[r].of \in 0..devices
    BY DEF MachineTypeOK
  <2>2. \A r \in Removers : release[r].of # devices + 1
    BY <1>1, <2>1
  <2> QED BY <2>2 DEF Removed, Releasing
<1>9. Vaulted' /\ OnlineHasSession' /\ StatusIsCurrent'
  BY DEF Vaulted, OnlineHasSession, StatusIsCurrent, Online
<1> QED BY <1>6, <1>7, <1>8, <1>9

(* Pairing again. *)
LEMMA RepairsKeep ==
    ASSUME MachInv, StartRepair \/ RepairProbed \/ RepairAsks \/ RepairAnswered PROVE MachInv'
<1> USE DEF MachInv, serverVars, accessVars, storeVars, statusVars, lockVars
<1>0. /\ \A c \in Callers : calls' = calls => (Waits(c)' <=> Waits(c)) /\ (Turn(c)' <=> Turn(c))
      /\ {"check", "request", "repair"} \subseteq Callers /\ Removers \subseteq Callers
      /\ \A r \in Removers : r \notin {"check", "request", "repair"}
  BY SameQueue, QueueTyped
<1>1. ASSUME UNCHANGED <<serverVars, vault, accessVars, storeVars, statusVars, lockVars, check, request,
                         release, raced>>,
             \/ repair = "none" /\ repair' = "probing" /\ devices < MaxDevices
             \/ repair = "probing" /\ repair' = "none"
      PROVE  MachInv'
  <2>1. MachineTypeOK'
    BY <1>1 DEF MachineTypeOK
  <2>2. Waiting' /\ Locked' /\ Roomy'
    BY <1>0, <1>1 DEF Waiting, Locked, Roomy, Releasing
  <2>3. Vaulted' /\ Removed' /\ OnlineHasSession' /\ StatusIsCurrent'
    BY <1>1 DEF Vaulted, Removed, Releasing, OnlineHasSession, StatusIsCurrent, Online
  <2> QED BY <2>1, <2>2, <2>3
<1>2. CASE StartRepair
  BY <1>1, <1>2 DEF StartRepair
<1>3. CASE RepairProbed
  <2>1. /\ repair = "probing"
        /\ UNCHANGED <<serverVars, vault, accessVars, storeVars, statusVars, check, request, release,
                       raced>>
        /\ \/ repair' = "calling" /\ Enter("repair")
           \/ repair' = "none" /\ UNCHANGED lockVars
    BY <1>3 DEF RepairProbed
  <2>2. CASE repair' = "calling" /\ Enter("repair")
    <3>1. /\ CallsTyped' /\ used' = used
          /\ \A d \in Callers : (Waits(d)' <=> Waits(d) \/ d = "repair") /\ (Turn(d) => Turn(d)')
      BY <1>0, <2>1, <2>2, NewCall DEF Waiting
    <3>2. MachineTypeOK'
      BY <2>1, <2>2, <3>1 DEF MachineTypeOK, CallsTyped
    <3>3. Waiting' /\ Locked' /\ Roomy'
      BY <1>0, <2>1, <2>2, <3>1 DEF Waiting, Locked, Roomy, Releasing
    <3>4. Vaulted' /\ Removed' /\ OnlineHasSession' /\ StatusIsCurrent'
      BY <2>1 DEF Vaulted, Removed, Releasing, OnlineHasSession, StatusIsCurrent, Online
    <3> QED BY <3>2, <3>3, <3>4
  <2> QED BY <1>1, <2>1, <2>2
<1>4. ASSUME repair = "calling", repair' = "none", Exit("repair"),
             Turn("repair") \/ used["repair"] # 0, UNCHANGED <<serverVars, request, release>>,
             check'.at = "refreshing" <=> check.at = "refreshing"
      PROVE  /\ CallsTyped' /\ used' \in [Callers -> 0..devices]
             /\ Waiting' /\ Locked' /\ Roomy'
  <2>1. /\ CallsTyped' /\ used' \in [Callers -> 0..devices]
        /\ \A d \in Callers : (Waits(d)' <=> Waits(d) /\ d # "repair") /\ used'[d] = 0
        /\ \A r \in Removers : release[r].at # "deleting"
    BY <1>0, <1>4, CallEnds
  <2>2. Waiting' /\ Locked' /\ Roomy'
    BY <1>0, <1>4, <2>1 DEF Waiting, Locked, Roomy, Releasing
  <2> QED BY <2>1, <2>2
<1>5. CASE /\ repair = "calling" /\ repair' = "none" /\ Exit("repair")
           /\ Turn("repair") \/ used["repair"] # 0
           /\ UNCHANGED <<serverVars, vault, accessVars, storeVars, statusVars, check, request,
                          release, raced>>
  <2>1. /\ CallsTyped' /\ used' \in [Callers -> 0..devices] /\ Waiting' /\ Locked' /\ Roomy'
    BY <1>4, <1>5
  <2>2. MachineTypeOK'
    BY <1>5, <2>1 DEF MachineTypeOK, CallsTyped
  <2>3. Vaulted' /\ Removed' /\ OnlineHasSession' /\ StatusIsCurrent'
    BY <1>5 DEF Vaulted, Removed, Releasing, OnlineHasSession, StatusIsCurrent, Online
  <2> QED BY <2>1, <2>2, <2>3
<1>6. CASE RepairAsks
  BY <1>5, <1>6, NewDevice DEF RepairAsks
<1>7. CASE RepairAnswered
  <2> DEFINE d == used["repair"]
  <2>1. /\ repair = "calling" /\ d # 0 /\ repair' = "none" /\ Exit("repair")
        /\ UNCHANGED <<serverVars, listed, request, release>>
        /\ d \in 1..devices
    BY <1>0, <1>7 DEF RepairAnswered, MachineTypeOK
  <2>2. \/ UNCHANGED <<vault, accessVars, pairing, check, statusVars, raced>>
        \/ /\ vault' = d /\ grant' = d /\ fresh' = TRUE
           /\ raced' = (raced \/ ~listed \/ \E r \in Removers : Releasing(r))
           /\ pairing' = IF listed THEN d ELSE pairing
           /\ IF listed /\ check = NoCheck THEN BeginCheck(d) ELSE UNCHANGED <<check, statusVars>>
    BY <1>7 DEF RepairAnswered, Cross, StoreAccess
  <2>3. CASE UNCHANGED <<vault, accessVars, pairing, check, statusVars, raced>>
    BY <1>5, <2>1, <2>3
  <2>4. CASE /\ vault' = d /\ grant' = d /\ fresh' = TRUE
             /\ raced' = (raced \/ ~listed \/ \E r \in Removers : Releasing(r))
             /\ pairing' = IF listed THEN d ELSE pairing
             /\ IF listed /\ check = NoCheck THEN BeginCheck(d) ELSE UNCHANGED <<check, statusVars>>
    <3>1. /\ check' \in [at : {"none", "probing", "refreshing"}, of : 0..devices]
          /\ check'.at = "refreshing" <=> check.at = "refreshing"
          /\ connection' \in {"none", "checking", "online", "offline", "different_server",
                              "session_revoked"}
          /\ resolved' \in 0..devices
      BY <2>1, <2>4 DEF BeginCheck, NoCheck, MachineTypeOK
    <3>2. /\ CallsTyped' /\ used' \in [Callers -> 0..devices] /\ Waiting' /\ Locked' /\ Roomy'
      BY <1>4, <2>1, <3>1
    <3>3. fresh' \in BOOLEAN /\ raced' \in BOOLEAN
      BY <2>4, Zenon
    <3>4. MachineTypeOK'
      BY <2>1, <2>4, <3>1, <3>2, <3>3 DEF MachineTypeOK, CallsTyped
    <3>5. Vaulted'
      BY <2>1, <2>4 DEF Vaulted
    <3>6. Removed'
      BY <2>1, <2>4 DEF Removed, Releasing
    <3>7. OnlineHasSession' /\ StatusIsCurrent'
      BY <2>1, <2>4 DEF OnlineHasSession, StatusIsCurrent, Online, BeginCheck, NoCheck
    <3> QED BY <3>2, <3>4, <3>5, <3>6, <3>7
  <2> QED BY <2>2, <2>3, <2>4
<1> QED BY <1>2, <1>3, <1>6, <1>7

(* Removals, as they begin and as they end. *)
LEMMA RemovalBegins ==
    ASSUME MachInv, RemoveHere \/ RemovedElsewhere PROVE MachInv'
<1> USE DEF MachInv, serverVars, accessVars, storeVars, statusVars
<1>0. /\ {"check", "request", "repair"} \subseteq Callers /\ Removers \subseteq Callers
      /\ \A r \in Removers : r \notin {"check", "request", "repair"}
      /\ {"here", "elsewhere"} = Removers
  BY QueueTyped DEF Removers
<1>1. PICK r \in Removers, a \in {"revoking", "forgetting"} :
        /\ release[r].at = "none" /\ listed /\ Enter(r)
        /\ release' = [release EXCEPT ![r] = [at |-> a, of |-> pairing, revoked |-> FALSE]]
        /\ (listed' = listed /\ r = "here") \/ listed' = FALSE
        /\ UNCHANGED <<serverVars, vault, accessVars, pairing, statusVars, check, request, repair,
                       raced>>
  BY <1>0 DEF RemoveHere, RemovedElsewhere, Begin
<1>2. /\ CallsTyped' /\ used' = used
      /\ \A d \in Callers : (Waits(d)' <=> Waits(d) \/ d = r) /\ (Turn(d) => Turn(d)')
  BY <1>0, <1>1, NewCall DEF Waiting, Releasing
<1>3. /\ release' \in [Removers -> [at : {"none", "revoking", "forgetting", "deleting", "done"},
                                 of : 0..devices, revoked : BOOLEAN]]
      /\ release'[r].at = a /\ release'[r].of = pairing /\ ~release'[r].revoked
      /\ \A q \in Removers : q # r => release'[q] = release[q]
  BY <1>1 DEF MachineTypeOK
<1>4. listed' \in BOOLEAN
  BY <1>1 DEF MachineTypeOK
<1>5. MachineTypeOK'
  BY <1>1, <1>2, <1>3, <1>4 DEF MachineTypeOK, CallsTyped
<1>6. Waiting' /\ Locked' /\ Roomy'
  BY <1>0, <1>1, <1>2, <1>3 DEF Waiting, Locked, Roomy, Releasing
<1>7. Vaulted' /\ Removed'
  BY <1>0, <1>1, <1>3 DEF Vaulted, Removed, Releasing
<1>8. OnlineHasSession' /\ StatusIsCurrent'
  BY <1>1 DEF OnlineHasSession, StatusIsCurrent, Online
<1> QED BY <1>5, <1>6, <1>7, <1>8

(* A removal ends, and what it reports is true. *)
LEMMA ReleaseKeeps ==
    ASSUME MachInv, NEW r \in Removers, NEW told \in BOOLEAN, Releasing(r), Turn(r) \/ used[r] # 0,
           devices' = devices, alive' \subseteq alive, Released(r, told),
           told => raced \/ release[r].of \notin alive'
    PROVE  MachInv'
<1> USE DEF MachInv, storeVars, statusVars
<1>0. /\ {"check", "request", "repair"} \subseteq Callers /\ Removers \subseteq Callers
      /\ \A q \in Removers : q \notin {"check", "request", "repair"}
      /\ {"here", "elsewhere"} = Removers
  BY QueueTyped DEF Removers
<1>1. /\ Exit(r) /\ vault' = 0 /\ grant' = 0 /\ fresh' \in BOOLEAN /\ ~fresh'
      /\ release' = [release EXCEPT ![r].at = "done", ![r].revoked = told]
      /\ UNCHANGED <<pairing, check, request, repair, raced>>
      /\ IF r = "here" THEN listed' = FALSE /\ connection' = "none" /\ resolved' = 0
         ELSE UNCHANGED <<listed, statusVars>>
  BY DropsAccess DEF Released
<1>2. /\ CallsTyped' /\ used' \in [Callers -> 0..devices]
      /\ \A d \in Callers : (Waits(d)' <=> Waits(d) /\ d # r) /\ used'[d] = 0
      /\ \A q \in Removers : q # r => release[q].at # "deleting"
      /\ used["repair"] = 0
  BY <1>0, <1>1, CallEnds, OneHolder
<1>3. /\ release' \in [Removers -> [at : {"none", "revoking", "forgetting", "deleting", "done"},
                                 of : 0..devices, revoked : BOOLEAN]]
      /\ release'[r].at = "done" /\ release'[r].of = release[r].of /\ release'[r].revoked = told
      /\ \A q \in Removers : q # r => release'[q] = release[q]
  BY <1>1 DEF MachineTypeOK
<1>4. ~listed' /\ listed' \in BOOLEAN
  <2>1. CASE r = "here"
    BY <1>1, <2>1
  <2>2. CASE r # "here"
    BY <1>0, <1>1, <2>2 DEF Releasing, Removed, MachineTypeOK
  <2> QED BY <2>1, <2>2
<1>5. connection' \in {"none", "checking", "online", "offline", "different_server", "session_revoked"}
      /\ resolved' \in 0..devices /\ alive' \subseteq 1..devices
  BY <1>1 DEF MachineTypeOK
<1>6. MachineTypeOK'
  BY <1>1, <1>2, <1>3, <1>4, <1>5 DEF MachineTypeOK, CallsTyped
<1>7. Waiting' /\ Locked' /\ Roomy'
  BY <1>0, <1>1, <1>2, <1>3 DEF Waiting, Locked, Roomy, Releasing
<1>8. Vaulted' /\ Removed'
  BY <1>0, <1>1, <1>3, <1>4 DEF Vaulted, Removed, Releasing
<1>9. OnlineHasSession' /\ StatusIsCurrent'
  BY <1>4 DEF OnlineHasSession, StatusIsCurrent, Online
<1> QED BY <1>6, <1>7, <1>8, <1>9

LEMMA RemovalEnds ==
    ASSUME MachInv, NEW r \in Removers, Forget(r) \/ RevokeEnds(r) \/ DeleteDevice(r)
    PROVE  MachInv'
<1> USE DEF MachInv, serverVars
<1>0. r \in Callers /\ r # "repair"
  BY QueueTyped
<1>1. CASE Forget(r)
  BY <1>1, ReleaseKeeps DEF Forget, Releasing
<1>2. CASE RevokeEnds(r)
  <2>1. Releasing(r) /\ UNCHANGED serverVars
    BY <1>2 DEF RevokeEnds, Releasing
  <2>2. CASE used[r] # 0 /\ used[r] \notin alive /\ Released(r, TRUE)
    <3>1. raced \/ release[r].of \notin alive
      BY <1>0, <2>1, <2>2 DEF Locked, Vaulted, Removed
    <3> QED BY <2>1, <2>2, <3>1, ReleaseKeeps
  <2> QED BY <1>2, <2>1, <2>2, ReleaseKeeps DEF RevokeEnds
<1>3. CASE DeleteDevice(r)
  <2>1. Releasing(r) /\ used[r] # 0 /\ devices' = devices
    BY <1>3 DEF DeleteDevice, Releasing, Locked
  <2>2. PICK told \in BOOLEAN : /\ Released(r, told)
                                /\ \/ alive' = alive \ {release[r].of}
                                   \/ alive' = alive /\ ~told
    BY <1>3 DEF DeleteDevice
  <2> QED BY <2>1, <2>2, ReleaseKeeps
<1> QED BY <1>1, <1>2, <1>3

(* The server's own revocations, expiry and reloads. *)
LEMMA WorldKeeps ==
    ASSUME MachInv,
           \/ \E r \in Removers : RevokeRotated(r)
           \/ \E d \in 1..MaxDevices : RevokeOnServer(d)
           \/ GrantExpires \/ Reload \/ UNCHANGED machineVars
    PROVE  MachInv'
<1> USE DEF MachInv, serverVars, accessVars, storeVars, statusVars, lockVars
<1>0. /\ \A c \in Callers : calls' = calls => (Waits(c)' <=> Waits(c)) /\ (Turn(c)' <=> Turn(c))
      /\ {"check", "request", "repair"} \subseteq Callers /\ Removers \subseteq Callers
  BY SameQueue, QueueTyped
<1>1. ASSUME NEW r \in Removers, RevokeRotated(r) PROVE MachInv'
  <2>1. /\ release[r].at = "revoking" /\ used[r] \in alive
        /\ release' = [release EXCEPT ![r].at = "deleting"]
        /\ UNCHANGED <<serverVars, vault, accessVars, storeVars, statusVars, lockVars, check,
                       request, repair, raced>>
    BY <1>1 DEF RevokeRotated
  <2>2. /\ release' \in [Removers -> [at : {"none", "revoking", "forgetting", "deleting", "done"},
                                   of : 0..devices, revoked : BOOLEAN]]
        /\ release'[r].at = "deleting" /\ release'[r].of = release[r].of
        /\ release'[r].revoked = release[r].revoked
        /\ \A q \in Removers : q # r => release'[q] = release[q]
    BY <2>1 DEF MachineTypeOK
  <2>3. used[r] # 0
    BY <2>1 DEF MachineTypeOK
  <2>4. MachineTypeOK'
    BY <2>1, <2>2 DEF MachineTypeOK
  <2>5. Waiting' /\ Locked' /\ Roomy'
    BY <1>0, <2>1, <2>2, <2>3 DEF Waiting, Locked, Roomy, Releasing
  <2>6. Vaulted' /\ Removed' /\ OnlineHasSession' /\ StatusIsCurrent'
    BY <2>1, <2>2 DEF Vaulted, Removed, Releasing, OnlineHasSession, StatusIsCurrent, Online
  <2> QED BY <2>4, <2>5, <2>6
<1>2. ASSUME NEW d \in 1..MaxDevices, RevokeOnServer(d) PROVE MachInv'
  <2>1. /\ alive' = alive \ {d}
        /\ UNCHANGED <<devices, vault, accessVars, storeVars, statusVars, lockVars, check, request,
                       repair, release, raced>>
    BY <1>2 DEF RevokeOnServer
  <2>2. MachineTypeOK'
    BY <2>1 DEF MachineTypeOK
  <2>3. Waiting' /\ Locked' /\ Roomy'
    BY <1>0, <2>1 DEF Waiting, Locked, Roomy, Releasing
  <2>4. Vaulted' /\ Removed' /\ OnlineHasSession' /\ StatusIsCurrent'
    BY <2>1 DEF Vaulted, Removed, Releasing, OnlineHasSession, StatusIsCurrent, Online
  <2> QED BY <2>2, <2>3, <2>4
<1>3. CASE GrantExpires
  <2>1. /\ ~fresh' /\ fresh' \in BOOLEAN
        /\ UNCHANGED <<serverVars, vault, grant, storeVars, statusVars, lockVars, check, request,
                       repair, release, raced>>
    <3>1. fresh' = FALSE
      BY <1>3 DEF GrantExpires
    <3>2. ~fresh' /\ fresh' \in BOOLEAN
      BY <3>1, Zenon
    <3> QED BY <1>3, <3>2 DEF GrantExpires
  <2>2. MachineTypeOK'
    BY <2>1 DEF MachineTypeOK
  <2>3. Waiting' /\ Locked' /\ Roomy'
    BY <1>0, <2>1 DEF Waiting, Locked, Roomy, Releasing
  <2>4. Vaulted' /\ Removed' /\ OnlineHasSession' /\ StatusIsCurrent'
    BY <2>1 DEF Vaulted, Removed, Releasing, OnlineHasSession, StatusIsCurrent, Online
  <2> QED BY <2>2, <2>3, <2>4
<1>4. CASE Reload
  <2>1. /\ vault' \in {vault, 0} /\ grant' = 0 /\ ~fresh' /\ fresh' \in BOOLEAN
        /\ connection' = "none" /\ resolved' = 0
        /\ calls' = <<>> /\ used' = [c \in Callers |-> 0]
        /\ check' = NoCheck /\ request' = "none" /\ repair' = "none"
        /\ release' = [r \in Removers |-> IF Releasing(r) THEN NoRelease ELSE release[r]]
        /\ UNCHANGED <<serverVars, storeVars, raced>>
    BY <1>4, DropsAccess DEF Reload
  <2>2. /\ release' \in [Removers -> [at : {"none", "revoking", "forgetting", "deleting", "done"},
                                   of : 0..devices, revoked : BOOLEAN]]
        /\ \A r \in Removers : /\ release'[r].at \in {"none", "done"}
                               /\ release'[r] = release[r] \/ release'[r] = NoRelease
    BY <2>1 DEF MachineTypeOK, NoRelease, Releasing
  <2>3. /\ \A c \in Callers : ~Waits(c)' /\ used'[c] = 0
        /\ calls' \in Seq(Callers) /\ used' \in [Callers -> 0..devices]
        /\ DOMAIN calls' = {}
    BY <2>1 DEF Waits, MachineTypeOK
  <2>4. MachineTypeOK'
    BY <2>1, <2>2, <2>3 DEF MachineTypeOK, NoCheck
  <2>5. Waiting' /\ Locked' /\ Roomy'
    BY <1>0, <2>1, <2>2, <2>3 DEF Waiting, Locked, Roomy, Releasing, NoCheck
  <2>6. Vaulted' /\ OnlineHasSession' /\ StatusIsCurrent'
    BY <2>1 DEF Vaulted, OnlineHasSession, StatusIsCurrent, Online
  <2>7. Removed'
    <3>1. \A r \in Removers : release'[r] = release[r] \/ (release'[r].at = "none" /\ ~release'[r].revoked)
      BY <2>2 DEF NoRelease
    <3>2. "elsewhere" \in Removers
      BY DEF Removers
    <3>3. release'["elsewhere"].at # "none" => ~listed'
      BY <2>1, <3>1, <3>2 DEF Removed
    <3>4. ASSUME NEW r \in Removers
          PROVE  /\ release'[r].at = "done" => ~listed' /\ (raced' \/ vault' = 0)
                 /\ ~(Releasing(r)')
                 /\ release'[r].revoked =>
                      release'[r].at = "done" /\ (raced' \/ release'[r].of \notin alive')
      BY <2>1, <2>2, <3>1 DEF Removed, Releasing
    <3> QED BY <3>3, <3>4 DEF Removed
  <2> QED BY <2>4, <2>5, <2>6, <2>7
<1>5. CASE UNCHANGED machineVars
  <2>1. UNCHANGED <<serverVars, vault, accessVars, storeVars, statusVars, lockVars, check, request,
                    repair, release, raced>>
    BY <1>5 DEF machineVars
  <2>2. MachineTypeOK'
    BY <2>1 DEF MachineTypeOK
  <2>3. Waiting' /\ Locked' /\ Roomy'
    BY <1>0, <2>1 DEF Waiting, Locked, Roomy, Releasing
  <2>4. Vaulted' /\ Removed' /\ OnlineHasSession' /\ StatusIsCurrent'
    BY <2>1 DEF Vaulted, Removed, Releasing, OnlineHasSession, StatusIsCurrent, Online
  <2> QED BY <2>2, <2>3, <2>4
<1> QED BY <1>1, <1>2, <1>3, <1>4, <1>5

(* One step, whatever it is. *)
LEMMA MachInvStep == MachInv /\ [MachineNext]_machineVars => MachInv'
<1> SUFFICES ASSUME MachInv, [MachineNext]_machineVars PROVE MachInv'
  OBVIOUS
<1>1. /\ CheckAsks \/ RequestAsks => MachInv'
      /\ \A r \in Removers : RevokeAsks(r) => MachInv'
  BY AskKeeps, QueueTyped DEF CheckAsks, RequestAsks, RevokeAsks
<1> QED BY <1>1, ChecksKeep, RequestsKeep, RepairsKeep, RemovalBegins, RemovalEnds, WorldKeeps
        DEF MachineNext

-----------------------------------------------------------------------------
(* A machine shown as online has a session, of its present pairing; the status on screen is
   of that pairing; and a removal leaves no token, whatever checks, requests, repairs and
   reloads come in between (machineAuth.ts, machineSession.ts). *)
THEOREM MachineIsSafe == MachineSpec => []MachineSafe
BY MachInvInit, MachInvSafe, MachInvStep, PTL DEF MachineSpec

-----------------------------------------------------------------------------
(* SubThreadWake *)

(* A flush holds reports only after it has taken them: what it takes replaces nothing. *)
WakeInv ==
    /\ WakeTypeOK
    /\ \A f \in Flushes : flush[f].at \in {"none", "reading"} => flush[f].taken = {}

LEMMA WakeInvInit == WakeInit => WakeInv
<1> SUFFICES ASSUME WakeInit PROVE WakeInv
  OBVIOUS
<1> USE WakeAssumption DEF WakeInit, NoFlush
<1>1. scheduled \in BOOLEAN
  BY Zenon
<1>2. flush \in [Flushes -> [at : {"none", "reading", "loading", "handing", "starting"},
                             midTurn : BOOLEAN, taken : SUBSET Children]]
  OBVIOUS
<1>3. chat \in [Chats -> {"idle", "starting", "active"}] /\ starts \in 0..MaxStarts /\ drops \in 0..MaxDrops
  OBVIOUS
<1> QED BY <1>1, <1>2, <1>3 DEF WakeInv, WakeTypeOK

(* Where a report can be. *)
Held == UNION {flush[f].taken : f \in Flushes}
WakeFlush == [at : {"none", "reading", "loading", "handing", "starting"},
              midTurn : BOOLEAN, taken : SUBSET Children]

(* A step of one flush keeps the types, if it loses no report. *)
LEMMA FlushKeeps ==
    ASSUME WakeInv, NEW f \in Flushes, NEW next \in WakeFlush,
           flush' = [flush EXCEPT ![f] = next],
           next.at \in {"none", "reading"} => next.taken = {},
           chat' \in [Chats -> {"idle", "starting", "active"}],
           pending' \subseteq Children, scheduled' \in BOOLEAN, stranded' \subseteq Children,
           UNCHANGED starts, drops' \in 0..MaxDrops, owed' \subseteq owed,
           \A c \in owed' : c \in pending \cup flush[f].taken =>
               c \in pending' \cup next.taken \cup UNION {flush[g].taken : g \in Flushes \ {f}}
    PROVE  WakeInv'
<1>1. /\ flush \in [Flushes -> WakeFlush] /\ owed \subseteq Children
      /\ owed \subseteq pending \cup Held /\ starts \in 0..MaxStarts
      /\ \A g \in Flushes : flush[g].at \in {"none", "reading"} => flush[g].taken = {}
  BY DEF WakeInv, WakeTypeOK, Held, WakeFlush
<1>2. /\ flush' \in [Flushes -> WakeFlush] /\ flush'[f] = next
      /\ \A g \in Flushes \ {f} : flush'[g] = flush[g]
  BY <1>1
<1>3. \A g \in Flushes : flush'[g].at \in {"none", "reading"} => flush'[g].taken = {}
  BY <1>1, <1>2
<1>4. owed' \subseteq pending' \cup UNION {flush'[g].taken : g \in Flushes}
  <2> SUFFICES ASSUME NEW c \in owed' PROVE c \in pending' \cup UNION {flush'[g].taken : g \in Flushes}
    OBVIOUS
  <2>1. CASE c \in pending \cup flush[f].taken
    BY <1>2, <2>1
  <2>2. CASE \E g \in Flushes \ {f} : c \in flush[g].taken
    BY <1>2, <2>2
  <2> QED BY <1>1, <2>1, <2>2 DEF Held
<1>5. owed' \subseteq Children
  BY <1>1
<1> QED BY <1>1, <1>2, <1>3, <1>4, <1>5 DEF WakeInv, WakeTypeOK, WakeFlush

LEMMA WakeInvStep == WakeInv /\ [WakeNext]_wakeVars => WakeInv'
<1> SUFFICES ASSUME WakeInv, [WakeNext]_wakeVars PROVE WakeInv'
  OBVIOUS
<1> USE WakeAssumption
<1>0. /\ chat \in [Chats -> {"idle", "starting", "active"}] /\ Parent \in Chats
      /\ pending \subseteq Children /\ scheduled \in BOOLEAN
      /\ flush \in [Flushes -> WakeFlush]
      /\ owed \subseteq Children /\ stranded \subseteq Children
      /\ starts \in 0..MaxStarts /\ drops \in 0..MaxDrops
      /\ \A f \in Flushes : flush[f].at \in {"none", "reading"} => flush[f].taken = {}
      /\ NoFlush \in WakeFlush /\ NoFlush.at = "none" /\ NoFlush.taken = {}
  BY DEF WakeInv, WakeTypeOK, WakeFlush, Chats, NoFlush
<1>1. ASSUME NEW c \in Chats, Start(c) \/ StartDone(c) PROVE WakeInv'
  <2>1. chat' \in [Chats -> {"idle", "starting", "active"}] /\ starts' \in 0..MaxStarts
    BY <1>0, <1>1 DEF Start, StartDone
  <2>2. UNCHANGED <<pending, scheduled, flush, owed, stranded, drops>>
    BY <1>1 DEF Start, StartDone
  <2> QED BY <2>1, <2>2 DEF WakeInv, WakeTypeOK
<1>2. ASSUME NEW c \in Chats, ChainEnd(c) PROVE WakeInv'
  <2>1. PICK report \in SUBSET ({c} \ {Parent}) :
          /\ pending' = pending \cup report /\ owed' = owed \cup report
          /\ stranded' = stranded \ report
    BY <1>2 DEF ChainEnd
  <2>2. report \subseteq Children
    BY DEF Chats
  <2>3. /\ chat' = [chat EXCEPT ![c] = "idle"] /\ scheduled' = (scheduled \/ Schedules(c))
        /\ UNCHANGED <<flush, starts, drops>>
    BY <1>2 DEF ChainEnd
  <2>4. scheduled' \in BOOLEAN
    BY <2>3, Zenon
  <2> QED BY <1>0, <2>1, <2>2, <2>3, <2>4 DEF WakeInv, WakeTypeOK
<1>3. ASSUME NEW f \in Flushes, FlushBegins(f) PROVE WakeInv'
  <2> DEFINE next == [at |-> "reading", midTurn |-> chat[Parent] = "active", taken |-> {}]
  <2>1. /\ flush[f].at = "none" /\ scheduled' = FALSE /\ flush' = [flush EXCEPT ![f] = next]
        /\ UNCHANGED <<chat, pending, owed, stranded, starts, drops>>
    BY <1>3 DEF FlushBegins
  <2>2. next \in WakeFlush /\ next.at = "reading" /\ next.taken = {}
    BY DEF WakeFlush
  <2>3. scheduled' \in BOOLEAN
    BY <2>1, Zenon
  <2> HIDE DEF next
  <2> QED BY <1>0, <2>1, <2>2, <2>3, FlushKeeps
<1>4. ASSUME NEW f \in Flushes, NEW reports \in SUBSET Children, NEW kept \in SUBSET Children,
             NEW at \in {"loading", "handing"}, HoldBusy(f, reports, kept, at),
             pending \cup flush[f].taken \subseteq reports \cup kept
      PROVE  WakeInv'
  <2> DEFINE busy == {c \in reports : chat[c] # "idle"}
             more == [flush[f] EXCEPT !.at = at, !.taken = reports \ busy]
  <2>1. /\ pending' = kept \cup busy
        /\ scheduled' = (scheduled \/ \E c \in busy : chat[c] = "starting")
        /\ flush' = [flush EXCEPT ![f] = IF reports = busy THEN NoFlush ELSE more]
        /\ UNCHANGED <<chat, owed, stranded, starts, drops>>
    BY <1>0, <1>4 DEF HoldBusy
  <2>2. scheduled' \in BOOLEAN
    BY <2>1, Zenon
  <2>3. more \in WakeFlush /\ more.at = at /\ more.taken = reports \ busy
    BY <1>0 DEF WakeFlush
  <2>4. busy \subseteq reports
    OBVIOUS
  <2> HIDE DEF busy, more
  <2>5. CASE reports = busy
    BY <1>0, <1>4, <2>1, <2>2, <2>5, FlushKeeps
  <2>6. CASE reports # busy
    BY <1>0, <1>4, <2>1, <2>2, <2>3, <2>4, <2>6, FlushKeeps
  <2> QED BY <2>5, <2>6
<1>5. ASSUME NEW f \in Flushes, TakePending(f) \/ HoldAgain(f) PROVE WakeInv'
  <2>1. flush[f].taken \subseteq Children
    BY <1>0 DEF WakeFlush
  <2>2. CASE TakePending(f)
    BY <1>0, <1>4, <2>2 DEF TakePending
  <2>3. CASE HoldAgain(f)
    BY <1>0, <1>4, <2>1, <2>3 DEF HoldAgain
  <2> QED BY <1>5, <2>2, <2>3
<1>6. ASSUME NEW f \in Flushes, Told(f), flush' = [flush EXCEPT ![f] = NoFlush],
             UNCHANGED <<pending, scheduled, stranded, starts>>,
             chat' \in [Chats -> {"idle", "starting", "active"}], drops' \in 0..MaxDrops
      PROVE  WakeInv'
  <2>1. owed' \subseteq owed
    BY <1>6 DEF Told
  <2>2. \A c \in owed' : c \in flush[f].taken =>
          c \in pending \cup UNION {flush[g].taken : g \in Flushes \ {f}}
    BY <1>6 DEF Told
  <2> QED BY <1>0, <1>6, <2>1, <2>2, FlushKeeps
<1>7. ASSUME NEW f \in Flushes, NEW schedule \in BOOLEAN, Requeue(f, schedule),
             stranded' \subseteq Children, UNCHANGED <<owed, starts>>,
             chat' \in [Chats -> {"idle", "starting", "active"}], drops' \in 0..MaxDrops
      PROVE  WakeInv'
  <2>1. /\ flush' = [flush EXCEPT ![f] = NoFlush] /\ pending' = pending \cup flush[f].taken
        /\ scheduled' = (scheduled \/ schedule)
    BY <1>7 DEF Requeue, Done
  <2>2. scheduled' \in BOOLEAN /\ flush[f].taken \subseteq Children
    BY <1>0, <2>1 DEF WakeFlush
  <2> QED BY <1>0, <1>7, <2>1, <2>2, FlushKeeps
<1>8. ASSUME NEW f \in Flushes, Steer(f) PROVE WakeInv'
  <2>1. UNCHANGED <<chat, stranded, starts, drops>>
        /\ \/ Told(f) /\ Done(f) /\ UNCHANGED <<pending, scheduled>>
           \/ Requeue(f, chat[Parent] # "active") /\ UNCHANGED owed
    BY <1>8 DEF Steer
  <2>2. (chat[Parent] # "active") \in BOOLEAN
    OBVIOUS
  <2> QED BY <1>0, <1>6, <1>7, <2>1, <2>2 DEF Done
<1>9. ASSUME NEW f \in Flushes, StartWakeTurn(f) PROVE WakeInv'
  <2>1. CASE chat[Parent] = "idle"
    <3> DEFINE next == [flush[f] EXCEPT !.at = "starting"]
    <3>1. /\ chat' = [chat EXCEPT ![Parent] = "starting"] /\ flush' = [flush EXCEPT ![f] = next]
          /\ UNCHANGED <<pending, scheduled, owed, stranded, starts, drops>>
      BY <1>0, <1>9, <2>1 DEF StartWakeTurn
    <3>2. next \in WakeFlush /\ next.at = "starting" /\ next.taken = flush[f].taken
      BY <1>0 DEF WakeFlush
    <3>3. chat' \in [Chats -> {"idle", "starting", "active"}]
      BY <1>0, <3>1
    <3> HIDE DEF next
    <3> QED BY <1>0, <3>1, <3>2, <3>3, FlushKeeps
  <2>2. CASE chat[Parent] # "idle"
    BY <1>0, <1>7, <1>9, <2>2 DEF StartWakeTurn
  <2> QED BY <2>1, <2>2
<1>10. ASSUME NEW f \in Flushes, WakeTurnStarts(f) \/ GiveUp(f) PROVE WakeInv'
  <2>1. /\ Told(f) /\ flush' = [flush EXCEPT ![f] = NoFlush]
        /\ UNCHANGED <<pending, scheduled, stranded, starts>>
    BY <1>10 DEF WakeTurnStarts, GiveUp, Done
  <2>2. chat' \in [Chats -> {"idle", "starting", "active"}] /\ drops' \in 0..MaxDrops
    BY <1>0, <1>10 DEF WakeTurnStarts, GiveUp, Drop
  <2> QED BY <1>6, <2>1, <2>2
<1>11. ASSUME NEW f \in Flushes, StartRaises(f) PROVE WakeInv'
  <2>1. /\ Requeue(f, FALSE) /\ UNCHANGED <<owed, starts>>
        /\ stranded' = stranded \cup flush[f].taken
    BY <1>11 DEF StartRaises
  <2>2. chat' \in [Chats -> {"idle", "starting", "active"}] /\ drops' \in 0..MaxDrops
    BY <1>0, <1>11 DEF StartRaises, Drop
  <2>3. stranded' \subseteq Children
    BY <1>0, <2>1 DEF WakeFlush
  <2> QED BY <1>7, <2>1, <2>2, <2>3
<1>12. CASE UNCHANGED wakeVars
  BY <1>12 DEF wakeVars, WakeInv, WakeTypeOK
<1> QED BY <1>1, <1>2, <1>3, <1>5, <1>8, <1>9, <1>10, <1>11, <1>12 DEF WakeNext, FlushStep

(* The reports, the flushes and the chats keep their types, and a report the parent has not heard of
   is pending or held by a flush (wake.py). *)
THEOREM WakeTypes == WakeSpec => []WakeTypeOK
<1>1. WakeInv => WakeTypeOK
  BY DEF WakeInv
<1> QED BY <1>1, WakeInvInit, WakeInvStep, PTL DEF WakeSpec

-----------------------------------------------------------------------------
(* Terminal *)

(* The sets the variables are drawn from, by name. *)
TermRecord == [pty : 0..MaxPtys, queue : BOOLEAN, input : BOOLEAN,
               active : AnyClient, output : AnyClient, lock : AnyClient]
TermPty == [of : 0..MaxRecords, at : {"none", "open", "exited", "killed"}]
TermClient == [of : 0..MaxRecords, at : {"away", "joined", "spawning", "resizing", "taking",
                                         "serving", "closing"}]
TermCloser == [of : 0..MaxRecords, saw : AnyClient,
               at : {"none", "tmux", "exit", "input", "pty", "cleanup"}]
TermTyped ==
    /\ registered \in 0..MaxRecords /\ closed \subseteq Clients /\ sandboxGone \in BOOLEAN
    /\ record \in [Records -> TermRecord] /\ pty \in [Ptys -> TermPty]
    /\ client \in [Clients -> TermClient] /\ closer \in [Closers -> TermCloser]
    /\ stuck \subseteq touched /\ touched \subseteq Records /\ overlooked \subseteq Clients
    /\ stops \in 0..MaxStops

(* A socket that is there has a record; it holds the lock of its record exactly while it starts
   the shell or resizes it, and while it starts one the record has none. *)
Connected ==
    \A w \in Clients :
        /\ client[w].at # "away" => client[w].of \in Records
        /\ \A r \in Records : record[r].lock = w
               <=> client[w].of = r /\ client[w].at \in {"spawning", "resizing"}
        /\ client[w].at = "spawning" => record[client[w].of].pty = 0

(* A closer has a record that was touched.  A socket closes while its handler does, the exit of
   a PTY when its shell has ended, the sandbox when it is gone. *)
Closing ==
    /\ \A c \in Closers : closer[c].at # "none" => closer[c].of \in touched
    /\ \A w \in Clients : closer[w].at # "none" <=> client[w].at = "closing"
    /\ \A p \in Ptys : closer[p].at # "none" => pty[p].at \in {"exited", "killed"}
    /\ \A c \in Closers : closer[c].at = "exit" => c \in Ptys
    /\ ~sandboxGone => closer[Sandbox].at = "none"

(* A record and its PTY name each other; a live PTY is the one of its record, and a dead one is
   about to be forgotten unless the record is stuck. *)
Forgets(r) == \E c \in Closers : closer[c].of = r /\ closer[c].at \in {"tmux", "exit", "input", "pty"}
Shells ==
    /\ \A p \in Ptys : pty[p].at # "none" => pty[p].of \in Records
    /\ \A p \in Ptys : pty[p].at = "open" => record[pty[p].of].pty = p
    /\ \A r \in Records : record[r].pty # 0 =>
         /\ pty[record[r].pty].of = r /\ pty[record[r].pty].at # "none"
         /\ r \in stuck \/ pty[record[r].pty].at = "open" \/ Forgets(r)

(* A record that was not touched is whole, and a socket that comes to attach finds its shell. *)
Whole(r) == record[r].queue /\ record[r].input /\ pty[record[r].pty].at = "open"
Untouched ==
    /\ \A r \in Records \ touched : record[r].pty # 0 => Whole(r)
    /\ \A w \in Clients : client[w].of \in Records \ touched =>
         /\ client[w].at = "spawning" => record[client[w].of].queue
         /\ client[w].at \in {"resizing", "taking"} => record[client[w].of].pty # 0

(* A socket in service is attached, or the closer that detached it is about to close it; and
   what it is attached to is whole until a closer begins. *)
Asked(r) == \E c \in Closers : closer[c].of = r /\ closer[c].at \in {"tmux", "exit"}
Begun(c) == closer[c].at \in {"input", "pty", "cleanup"}
Detached(w, r) == \E c \in Closers \ Clients : Begun(c) /\ closer[c].of = r /\ closer[c].saw = w
Attended(w, r) ==
    /\ record[r].active = w \/ Detached(w, r)
    /\ record[r].active = w =>
         /\ \/ r \in stuck \/ Asked(r)
            \/ record[r].output = w /\ record[r].pty # 0 /\ Whole(r)
         /\ \A c \in Closers : closer[c].of = r => ~Begun(c)
InService == \A w \in Serving \ (closed \cup overlooked) : Attended(w, client[w].of)

TermInv == TermTyped /\ Connected /\ Closing /\ Shells /\ Untouched /\ InService

LEMMA TermInvTypes == TermInv => TerminalTypeOK
<1> SUFFICES ASSUME TermTyped, Connected PROVE TerminalTypeOK
  BY DEF TermInv
<1>1. \A w \in Clients : client[w].at \in {"spawning", "resizing"}
                           <=> \E r \in Records : record[r].lock = w
  BY DEF Connected
<1> QED BY <1>1 DEF TerminalTypeOK, TermTyped, TermRecord, TermPty, TermClient, TermCloser

LEMMA TermInvInit == TerminalInit => TermInv
<1> SUFFICES ASSUME TerminalInit PROVE TermInv
  OBVIOUS
<1> USE TerminalAssumption DEF TerminalInit, NewRecord, Away, NoCloser
<1>1. TermTyped
  <2>1. sandboxGone \in BOOLEAN
    BY Zenon
  <2>2. record \in [Records -> TermRecord]
    BY DEF TermRecord, AnyClient
  <2>3. client \in [Clients -> TermClient] /\ pty \in [Ptys -> TermPty]
    BY DEF TermClient, TermPty
  <2>4. closer \in [Closers -> TermCloser]
    BY DEF TermCloser, AnyClient
  <2>5. /\ registered \in 0..MaxRecords /\ closed \subseteq Clients /\ stops \in 0..MaxStops
        /\ stuck \subseteq touched /\ touched \subseteq Records /\ overlooked \subseteq Clients
    OBVIOUS
  <2> HIDE DEF TerminalInit
  <2> QED BY <2>1, <2>2, <2>3, <2>4, <2>5 DEF TermTyped
<1>2. Connected
  BY DEF Connected
<1>3. Closing
  BY DEF Closing, Closers
<1>4. Shells /\ Untouched /\ InService
  BY DEF Shells, Untouched, InService, Serving, Records, Ptys
<1> QED BY <1>1, <1>2, <1>3, <1>4 DEF TermInv

LEMMA TermInvSafe == TermInv => TerminalSafe
<1> SUFFICES ASSUME TermInv PROVE TerminalSafe
  OBVIOUS
<1>1. OneShell
  BY DEF TermInv, Shells, OneShell
<1>2. NoDeadShell
  <2>1. registered # 0 => registered \in Records
    BY TerminalAssumption DEF TermInv, TermTyped, Records
  <2>2. \A r \in Records : Forgets(r) => BeingClosed(r)
    BY DEF Forgets, BeingClosed
  <2> QED BY <2>1, <2>2 DEF TermInv, Shells, NoDeadShell
<1>3. Served
  <2> SUFFICES ASSUME NEW w \in Serving \ (closed \cup overlooked), client[w].of \notin stuck,
                      ~BeingClosed(client[w].of)
               PROVE  LET r == client[w].of
                          rec == record[r]
                      IN /\ rec.active = w /\ rec.output = w /\ rec.queue /\ rec.input
                         /\ pty[rec.pty].at = "open"
    BY DEF Served
  <2> QED BY DEF TermInv, InService, Attended, Detached, Begun, Asked, BeingClosed, Whole
<1> QED BY <1>1, <1>2, <1>3 DEF TerminalSafe

(* What is said of the closers is true as long as they stay where they are. *)
LEMMA SameClosers ==
    ASSUME closer' = closer
    PROVE  /\ \A r \in Records : (Forgets(r)' <=> Forgets(r)) /\ (Asked(r)' <=> Asked(r))
           /\ \A w \in Clients : \A r \in Records : Detached(w, r)' <=> Detached(w, r)
           /\ \A c \in Closers : Begun(c)' <=> Begun(c)
BY DEF Forgets, Asked, Detached, Begun

LEMMA AttendedStays ==
    ASSUME NEW v \in Clients, NEW x \in Records, Attended(v, x), UNCHANGED closer,
           stuck \subseteq stuck', record'[x].active = record[x].active,
           record'[x].output = record[x].output, record'[x].pty = record[x].pty,
           Whole(x) => Whole(x)'
    PROVE  Attended(v, x)'
BY SameClosers DEF Attended

(* A socket connects, and asks for the terminal. *)
LEMMA ConnectKeeps ==
    ASSUME TermInv, NEW w \in Clients, Connect(w) PROVE TermInv'
<1> USE TerminalAssumption
<1>0. TermTyped /\ Connected /\ Closing /\ Shells /\ Untouched /\ InService
  BY DEF TermInv
<1>1. PICK r \in Records :
        /\ registered' = r /\ client' = [client EXCEPT ![w] = [at |-> "joined", of |-> r]]
        /\ client[w].at = "away"
        /\ UNCHANGED <<record, pty, closed, closer, sandboxGone, touched, stuck, overlooked, stops>>
  BY DEF Connect
<1>2. /\ client'[w].at = "joined" /\ client'[w].of = r
      /\ \A v \in Clients \ {w} : client'[v] = client[v]
  BY <1>0, <1>1 DEF TermTyped
<1>3. TermTyped'
  BY <1>0, <1>1 DEF TermTyped, TermClient, Records
<1>4. Connected' /\ Closing'
  BY <1>0, <1>1, <1>2 DEF Connected, Closing
<1>5. Shells' /\ Untouched'
  BY <1>0, <1>1, <1>2, SameClosers DEF Shells, Untouched, Whole
<1>6. InService'
  <2> SUFFICES ASSUME NEW v \in Serving' \ (closed' \cup overlooked')
               PROVE  Attended(v, client[v].of)'
    BY DEF InService
  <2>1. v \in Serving \ (closed \cup overlooked) /\ client'[v] = client[v] /\ v \in Clients
    BY <1>1, <1>2 DEF Serving
  <2>2. PICK x \in Records : x = client[v].of /\ Attended(v, x)
    BY <1>0, <2>1 DEF InService, Connected, Serving
  <2>3. Attended(v, x)'
    BY <1>1, <2>1, <2>2, AttendedStays DEF Whole
  <2> QED BY <2>1, <2>2, <2>3
<1> QED BY <1>3, <1>4, <1>5, <1>6 DEF TermInv

LEMMA InitialiseKeeps ==
    ASSUME TermInv, NEW w \in Clients, Initialise(w) PROVE TermInv'
<1> USE TerminalAssumption
<1> DEFINE r == client[w].of
           spawn == record[r].pty = 0
<1>0. TermTyped /\ Connected /\ Closing /\ Shells /\ Untouched /\ InService
  BY DEF TermInv
<1>1. /\ client[w].at = "joined" /\ record[r].lock = NoClient
      /\ client' = [client EXCEPT ![w].at = IF spawn THEN "spawning" ELSE "resizing"]
      /\ record' = [record EXCEPT ![r].lock = w, ![r].queue = @ \/ spawn]
      /\ UNCHANGED <<registered, pty, closed, closer, sandboxGone, touched, stuck, overlooked, stops>>
  BY DEF Initialise, StartLockFree
<1>r. r \in Records
  BY <1>0, <1>1 DEF Connected
<1>2. /\ client'[w].at = (IF spawn THEN "spawning" ELSE "resizing") /\ client'[w].of = r
      /\ \A v \in Clients \ {w} : client'[v] = client[v]
      /\ client' \in [Clients -> TermClient]
  BY <1>0, <1>1 DEF TermTyped, TermClient
<1>3. /\ record' \in [Records -> TermRecord]
      /\ \A x \in Records \ {r} : record'[x] = record[x]
      /\ record'[r].lock = w /\ record'[r].pty = record[r].pty /\ record'[r].input = record[r].input
      /\ record'[r].active = record[r].active /\ record'[r].output = record[r].output
      /\ (record'[r].queue <=> record[r].queue \/ spawn)
  <2>1. record[r] \in TermRecord /\ (record[r].queue \/ spawn) \in BOOLEAN /\ w \in AnyClient
    BY <1>0, <1>r DEF TermTyped, AnyClient
  <2>2. record' = [record EXCEPT ![r] = [record[r] EXCEPT !.lock = w, !.queue = record[r].queue \/ spawn]]
    BY <1>0, <1>1, <1>r DEF TermTyped
  <2> HIDE DEF spawn, r
  <2> QED BY <1>0, <1>r, <2>1, <2>2 DEF TermTyped, TermRecord
<1> HIDE DEF r
<1>4. TermTyped'
  BY <1>0, <1>1, <1>2, <1>3 DEF TermTyped
<1>5. Connected'
  <2>1. \A x \in Records : record'[x].lock = (IF x = r THEN w ELSE record[x].lock)
                           /\ record'[x].pty = record[x].pty
    BY <1>3
  <2>2. \A v \in Clients : v # NoClient
    OBVIOUS
  <2>3. \A x \in Records : record[x].lock # w
    BY <1>0, <1>1 DEF Connected
  <2>4. ASSUME NEW v \in Clients \ {w}, NEW x \in Records
        PROVE  record'[x].lock = v <=> client'[v].of = x /\ client'[v].at \in {"spawning", "resizing"}
    <3>1. record[x].lock = v <=> client[v].of = x /\ client[v].at \in {"spawning", "resizing"}
      BY <1>0 DEF Connected
    <3>2. x = r => record[x].lock # v
      BY <1>1, <2>2 DEF r
    <3> QED BY <1>2, <2>1, <3>1, <3>2
  <2>5. \A x \in Records : record'[x].lock = w
                            <=> client'[w].of = x /\ client'[w].at \in {"spawning", "resizing"}
    BY <1>2, <2>1, <2>3
  <2>6. \A v \in Clients : /\ client'[v].at # "away" => client'[v].of \in Records
                           /\ client'[v].at = "spawning" => record'[client'[v].of].pty = 0
    <3>1. \A v \in Clients : /\ client'[v].at # "away" => client'[v].of \in Records
                             /\ client'[v].at = "spawning" => record[client'[v].of].pty = 0
      BY <1>0, <1>2, <1>r DEF Connected
    <3> QED BY <2>1, <3>1
  <2>7. \A v \in Clients : \A x \in Records :
          record'[x].lock = v <=> client'[v].of = x /\ client'[v].at \in {"spawning", "resizing"}
    BY <2>4, <2>5
  <2> QED BY <2>6, <2>7 DEF Connected
<1>6. Closing'
  BY <1>0, <1>1, <1>2 DEF Closing
<1>7. \A x \in Records : /\ record'[x].pty = record[x].pty /\ record'[x].active = record[x].active
                         /\ record'[x].output = record[x].output /\ (Whole(x) => Whole(x)')
  BY <1>1, <1>3 DEF Whole
<1>8. Shells'
  BY <1>0, <1>1, <1>7, SameClosers DEF Shells
<1>9. Untouched'
  <2>1. \A x \in Records \ touched' : record'[x].pty # 0 => Whole(x)'
    BY <1>0, <1>1, <1>7 DEF Untouched
  <2>2. record'[r].queue <=> record[r].queue \/ record[r].pty = 0
    BY <1>3
  <2>3. client'[w].at = IF record[r].pty = 0 THEN "spawning" ELSE "resizing"
    BY <1>2
  <2>4. \A x \in Records : record[x].queue => record'[x].queue
    BY <1>3, <2>2
  <2>5. ASSUME NEW v \in Clients, client'[v].of \in Records \ touched'
        PROVE  /\ client'[v].at = "spawning" => record'[client'[v].of].queue
               /\ client'[v].at \in {"resizing", "taking"} => record'[client'[v].of].pty # 0
    <3>1. CASE v = w
      BY <1>2, <1>7, <1>r, <2>2, <2>3, <3>1
    <3>2. CASE v # w
      <4>1. client'[v] = client[v] /\ client[v].of \in Records \ touched
        BY <1>1, <1>2, <2>5, <3>2
      <4>2. /\ client[v].at = "spawning" => record[client[v].of].queue
            /\ client[v].at \in {"resizing", "taking"} => record[client[v].of].pty # 0
        BY <1>0, <4>1 DEF Untouched
      <4> QED BY <1>7, <2>4, <4>1, <4>2
    <3> QED BY <3>1, <3>2
  <2> QED BY <2>1, <2>5 DEF Untouched
<1>10. InService'
  <2> SUFFICES ASSUME NEW v \in Serving' \ (closed' \cup overlooked')
               PROVE  Attended(v, client[v].of)'
    BY DEF InService
  <2>1. v \in Serving \ (closed \cup overlooked) /\ client'[v] = client[v] /\ v \in Clients
    BY <1>1, <1>2 DEF Serving
  <2>2. PICK x \in Records : x = client[v].of /\ Attended(v, x)
    BY <1>0, <2>1 DEF InService, Connected, Serving
  <2>3. Attended(v, x)'
    BY <1>1, <1>7, <2>1, <2>2, AttendedStays
  <2> QED BY <2>1, <2>2, <2>3
<1> QED BY <1>4, <1>5, <1>6, <1>8, <1>9, <1>10 DEF TermInv

(* A socket attaches: what it has become of its record, rec, is written with it.  Either it
   has started the shell of rec, or rec is the record and perhaps no longer locked. *)
Started(r, rec) ==
    \E p \in Ptys :
        /\ pty[p].at = "none" /\ pty' = [pty EXCEPT ![p] = [of |-> r, at |-> "open"]]
        /\ rec.pty = p /\ rec.input /\ record[r].pty = 0

LEMMA AttachKeeps ==
    ASSUME TermInv, NEW w \in Clients, NEW r \in Records, r = client[w].of,
           NEW rec \in TermRecord, client[w].at \in {"spawning", "resizing", "taking"},
           rec.active = record[r].active, rec.output = record[r].output,
           rec.queue = record[r].queue, rec.lock # w,
           \A v \in Clients \ {w} : rec.lock = v <=> record[r].lock = v,
           \/ client[w].at = "spawning" /\ Started(r, rec)
           \/ /\ client[w].at \in {"resizing", "taking"} /\ UNCHANGED pty
              /\ rec.pty = record[r].pty /\ rec.input = record[r].input,
           Attach(w, r, rec) \/ (closed' = closed /\ Attached(w, r, rec)),
           UNCHANGED <<registered, closer, sandboxGone, touched, stuck, stops>>
    PROVE  TermInv'
<1> USE TerminalAssumption
<1>0. TermTyped /\ Connected /\ Closing /\ Shells /\ Untouched /\ InService
  BY DEF TermInv
<1>1. PICK on \in {"serving", "taking"} :
        /\ client' = [client EXCEPT ![w].at = on]
        /\ closed \subseteq closed' /\ closed' \subseteq Clients
        /\ overlooked \subseteq overlooked' /\ overlooked' \subseteq Clients
        /\ on = "serving" =>
             /\ record' = [record EXCEPT ![r] = [rec EXCEPT !.active = w,
                    !.output = IF rec.pty = 0 THEN rec.output
                               ELSE IF rec.queue THEN w ELSE NoClient]]
             /\ \A v \in Clients \ {w} : rec.active = v => v \in closed' \cup overlooked'
             /\ r \in touched => w \in overlooked'
        /\ on = "taking" =>
             /\ record' = [record EXCEPT ![r] = rec]
             /\ \A v \in Clients : rec.active = v => v \in closed'
  <2>1. ASSUME closed' = closed \/ rec.active \in {NoClient, w}, closed' = closed, Attached(w, r, rec)
        PROVE  /\ client' = [client EXCEPT ![w].at = "serving"]
               /\ overlooked \subseteq overlooked' /\ overlooked' \subseteq Clients
               /\ record' = [record EXCEPT ![r] = [rec EXCEPT !.active = w,
                    !.output = IF rec.pty = 0 THEN rec.output
                               ELSE IF rec.queue THEN w ELSE NoClient]]
               /\ \A v \in Clients \ {w} : rec.active = v => v \in closed' \cup overlooked'
               /\ r \in touched => w \in overlooked'
    <3>1. rec.active \in Clients \cup {NoClient}
      BY DEF TermRecord, AnyClient
    <3> QED BY <1>0, <2>1, <3>1 DEF Attached, TermTyped
  <2>2. CASE rec.active \in {NoClient, w} \/ (closed' = closed /\ Attached(w, r, rec))
    <3>1. closed' = closed /\ Attached(w, r, rec)
      BY <2>2 DEF Attach
    <3> QED BY <1>0, <2>1, <3>1 DEF TermTyped
  <2>3. CASE rec.active \notin {NoClient, w} /\ Attach(w, r, rec)
    <3>1. rec.active \in Clients \cup {NoClient}
      BY DEF TermRecord, AnyClient
    <3> QED BY <1>0, <2>3, <3>1 DEF Attach, TermTyped
  <2> QED BY <2>2, <2>3
<1>2. /\ client'[w].at = on /\ client'[w].of = r
      /\ \A v \in Clients \ {w} : client'[v] = client[v]
      /\ client' \in [Clients -> TermClient]
  BY <1>0, <1>1 DEF TermTyped, TermClient
<1>3. /\ record' \in [Records -> TermRecord]
      /\ \A x \in Records \ {r} : record'[x] = record[x]
      /\ record'[r].lock = rec.lock /\ record'[r].pty = rec.pty
      /\ record'[r].input = rec.input /\ record'[r].queue = rec.queue
      /\ on = "serving" => /\ record'[r].active = w
                           /\ rec.pty # 0 /\ rec.queue => record'[r].output = w
      /\ on = "taking" => record'[r] = rec
  <2>1. PICK new \in TermRecord :
          /\ record' = [record EXCEPT ![r] = new]
          /\ new.lock = rec.lock /\ new.pty = rec.pty /\ new.input = rec.input /\ new.queue = rec.queue
          /\ on = "serving" => new.active = w /\ (rec.pty # 0 /\ rec.queue => new.output = w)
          /\ on = "taking" => new = rec
    <3>1. CASE on = "taking"
      BY <1>1, <3>1
    <3>2. CASE on = "serving"
      <4> DEFINE out == IF rec.pty = 0 THEN rec.output ELSE IF rec.queue THEN w ELSE NoClient
                 new == [rec EXCEPT !.active = w, !.output = out]
      <4>1. out \in AnyClient /\ w \in AnyClient /\ (rec.pty # 0 /\ rec.queue => out = w)
        BY DEF TermRecord, AnyClient
      <4>2. record' = [record EXCEPT ![r] = new]
        BY <1>1, <3>2
      <4> HIDE DEF out
      <4>3. /\ new \in TermRecord /\ new.lock = rec.lock /\ new.pty = rec.pty
            /\ new.input = rec.input /\ new.queue = rec.queue /\ new.active = w /\ new.output = out
        BY <4>1 DEF TermRecord
      <4> QED BY <3>2, <4>1, <4>2, <4>3
    <3> QED BY <3>1, <3>2
  <2> QED BY <1>0, <2>1 DEF TermTyped
<1>4. /\ pty' \in [Ptys -> TermPty]
      /\ \A p \in Ptys : pty'[p] # pty[p] =>
           pty[p].at = "none" /\ pty'[p].of = r /\ pty'[p].at = "open" /\ rec.pty = p
      /\ rec.pty # record[r].pty =>
           /\ client[w].at = "spawning" /\ rec.pty \in Ptys /\ pty'[rec.pty].of = r
           /\ pty'[rec.pty].at = "open" /\ rec.input /\ record[r].pty = 0
      /\ rec.pty = record[r].pty =>
           client[w].at \in {"resizing", "taking"} /\ pty' = pty /\ rec.input = record[r].input
  <2>1. CASE client[w].at = "spawning" /\ Started(r, rec)
    <3>1. PICK p \in Ptys :
            /\ pty[p].at = "none" /\ pty' = [pty EXCEPT ![p] = [of |-> r, at |-> "open"]]
            /\ rec.pty = p /\ rec.input /\ record[r].pty = 0
      BY <2>1 DEF Started
    <3>2. p # 0 /\ r \in 0..MaxRecords
      BY DEF Ptys, Records
    <3>3. pty' \in [Ptys -> TermPty]
      BY <1>0, <3>1, <3>2 DEF TermTyped, TermPty
    <3>4. \A q \in Ptys : pty'[q] = IF q = p THEN [of |-> r, at |-> "open"] ELSE pty[q]
      BY <1>0, <3>1 DEF TermTyped
    <3>5. /\ pty'[p].of = r /\ pty'[p].at = "open" /\ \A q \in Ptys \ {p} : pty'[q] = pty[q]
          /\ rec.pty # record[r].pty
      BY <3>1, <3>2, <3>4
    <3> QED BY <2>1, <3>1, <3>3, <3>5
  <2>2. CASE client[w].at \in {"resizing", "taking"} /\ UNCHANGED pty /\ rec.pty = record[r].pty
             /\ rec.input = record[r].input
    <3>1. pty' = pty /\ pty \in [Ptys -> TermPty]
      BY <1>0, <2>2 DEF TermTyped
    <3> QED BY <2>2, <3>1
  <2> QED BY <2>1, <2>2
<1>5. TermTyped'
  BY <1>0, <1>1, <1>2, <1>3, <1>4 DEF TermTyped
<1>6. Connected'
  <2>1. ASSUME NEW v \in Clients, NEW x \in Records
        PROVE  record'[x].lock = v <=> client'[v].of = x /\ client'[v].at \in {"spawning", "resizing"}
    <3>1. record[x].lock = v <=> client[v].of = x /\ client[v].at \in {"spawning", "resizing"}
      BY <1>0 DEF Connected
    <3>2. CASE v = w
      BY <1>1, <1>2, <1>3, <3>1, <3>2
    <3>3. CASE v # w
      BY <1>2, <1>3, <3>1, <3>3
    <3> QED BY <3>2, <3>3
  <2>2. ASSUME NEW v \in Clients
        PROVE  /\ client'[v].at # "away" => client'[v].of \in Records
               /\ client'[v].at = "spawning" => record'[client'[v].of].pty = 0
    <3>1. CASE v = w
      BY <1>1, <1>2, <3>1
    <3>2. CASE v # w
      <4>1. client'[v] = client[v] /\ (client[v].at # "away" => client[v].of \in Records)
            /\ (client[v].at = "spawning" => record[client[v].of].pty = 0)
        BY <1>0, <1>2, <3>2 DEF Connected
      <4>2. client[v].at = "spawning" /\ client[v].of = r => record[r].pty = rec.pty
        BY <1>0, <1>4, <3>2 DEF Connected
      <4> QED BY <1>3, <4>1, <4>2
    <3> QED BY <3>1, <3>2
  <2> QED BY <2>1, <2>2 DEF Connected
<1>7. Closing'
  BY <1>0, <1>1, <1>2, <1>4 DEF Closing
<1>8. Shells'
  <2>1. \A p \in Ptys : pty'[p].at # "none" => pty'[p].of \in Records
    BY <1>0, <1>4 DEF Shells
  <2>2. \A p \in Ptys : pty'[p].at = "open" => record'[pty'[p].of].pty = p
    <3> SUFFICES ASSUME NEW p \in Ptys, pty'[p].at = "open" PROVE record'[pty'[p].of].pty = p
      OBVIOUS
    <3>1. CASE pty'[p] = pty[p]
      <4>1. pty[p].of \in Records /\ record[pty[p].of].pty = p
        BY <1>0, <3>1 DEF Shells
      <4>2. p # 0
        BY DEF Ptys
      <4> QED BY <1>3, <1>4, <3>1, <4>1, <4>2
    <3> QED BY <1>3, <1>4, <3>1
  <2>3. ASSUME NEW x \in Records, record'[x].pty # 0
        PROVE  /\ pty'[record'[x].pty].of = x /\ pty'[record'[x].pty].at # "none"
               /\ x \in stuck' \/ pty'[record'[x].pty].at = "open" \/ Forgets(x)'
    <3>1. CASE record'[x].pty = record[x].pty
      <4>1. record[x].pty \in Ptys /\ pty[record[x].pty].of = x /\ pty[record[x].pty].at # "none"
            /\ (x \in stuck \/ pty[record[x].pty].at = "open" \/ Forgets(x))
        BY <1>0, <2>3, <3>1 DEF Shells, TermTyped, TermRecord, Ptys
      <4> QED BY <1>4, <3>1, <4>1, SameClosers
    <3>2. CASE record'[x].pty # record[x].pty
      BY <1>3, <1>4, <3>2
    <3> QED BY <3>1, <3>2
  <2> QED BY <2>1, <2>2, <2>3 DEF Shells
<1>9. \A x \in Records : record[x].pty # 0 => pty'[record[x].pty] = pty[record[x].pty]
  BY <1>0, <1>4 DEF Shells, TermTyped, TermRecord, Ptys
<1>10. r \notin touched => record'[r].pty # 0 /\ Whole(r)'
  <2> SUFFICES ASSUME r \notin touched PROVE record'[r].pty # 0 /\ Whole(r)'
    OBVIOUS
  <2>1. CASE rec.pty = record[r].pty
    BY <1>0, <1>3, <1>4, <1>9, <2>1 DEF Untouched, Whole
  <2>2. CASE rec.pty # record[r].pty
    <3>1. record[r].queue
      BY <1>0, <1>4, <2>2 DEF Untouched
    <3> QED BY <1>3, <1>4, <2>2, <3>1 DEF Whole, Ptys
  <2> QED BY <2>1, <2>2
<1>11. Untouched'
  <2>1. \A x \in Records \ touched' : record'[x].pty # 0 => Whole(x)'
    BY <1>0, <1>3, <1>9, <1>10 DEF Untouched, Whole
  <2>2. ASSUME NEW v \in Clients, client'[v].of \in Records \ touched'
        PROVE  /\ client'[v].at = "spawning" => record'[client'[v].of].queue
               /\ client'[v].at \in {"resizing", "taking"} => record'[client'[v].of].pty # 0
    <3>1. CASE v = w
      BY <1>1, <1>2, <1>10, <2>2, <3>1
    <3>2. CASE v # w
      <4>1. client'[v] = client[v] /\ client[v].of \in Records \ touched
        BY <1>2, <2>2, <3>2
      <4>2. /\ client[v].at = "spawning" => record[client[v].of].queue
            /\ client[v].at \in {"resizing", "taking"} => record[client[v].of].pty # 0
        BY <1>0, <4>1 DEF Untouched
      <4> QED BY <1>3, <1>10, <4>1, <4>2
    <3> QED BY <3>1, <3>2
  <2> QED BY <2>1, <2>2 DEF Untouched
<1>12. InService'
  <2> SUFFICES ASSUME NEW v \in Serving' \ (closed' \cup overlooked')
               PROVE  Attended(v, client[v].of)'
    BY DEF InService
  <2>1. CASE v = w
    <3>1. on = "serving" /\ r \notin touched /\ client'[v].of = r
      BY <1>1, <1>2, <2>1 DEF Serving
    <3>2. record'[r].active = w /\ record'[r].pty # 0 /\ Whole(r)' /\ record'[r].output = w
      BY <1>3, <1>10, <3>1 DEF Whole
    <3>3. \A c \in Closers : closer'[c].of = r => ~Begun(c)'
      BY <1>0, <3>1 DEF Closing, Begun
    <3>4. Attended(v, r)'
      BY <2>1, <3>2, <3>3 DEF Attended
    <3> QED BY <3>1, <3>4
  <2>2. CASE v # w
    <3>1. v \in Serving \ (closed \cup overlooked) /\ client'[v] = client[v] /\ v \in Clients
      BY <1>1, <1>2, <2>2 DEF Serving
    <3>2. PICK x \in Records : x = client[v].of /\ Attended(v, x)
      BY <1>0, <3>1 DEF InService, Connected, Serving
    <3>3. Attended(v, x)'
      <4>1. CASE x = r
        <5>1. record[r].active # v
          BY <1>1, <2>2, <3>1
        <5>2. record'[r].active # v
          BY <1>1, <1>3, <2>2, <5>1
        <5> QED BY <3>1, <3>2, <4>1, <5>1, <5>2, SameClosers DEF Attended
      <4>2. CASE x # r
        <5>1. record'[x] = record[x]
          BY <1>3, <4>2
        <5>2. record[x].pty # 0 /\ Whole(x) => Whole(x)'
          BY <1>9, <5>1 DEF Whole
        <5> QED BY <3>1, <3>2, <5>1, <5>2, SameClosers DEF Attended
      <4> QED BY <4>1, <4>2
    <3> QED BY <3>1, <3>2, <3>3
  <2> QED BY <2>1, <2>2
<1> QED BY <1>5, <1>6, <1>7, <1>8, <1>11, <1>12 DEF TermInv

LEMMA AttachersKeep ==
    ASSUME TermInv, NEW w \in Clients, Spawned(w) \/ Resized(w) \/ TakesOver(w) PROVE TermInv'
<1> USE TerminalAssumption
<1> DEFINE r == client[w].of
<1>0. TermTyped /\ Connected
  BY DEF TermInv
<1>1. /\ r \in Records /\ record[r] \in TermRecord /\ w # NoClient
      /\ (record[r].lock = w <=> client[w].at \in {"spawning", "resizing"})
      /\ (client[w].at = "spawning" => record[r].pty = 0)
  <2>1. client[w].at \in {"spawning", "resizing", "taking"}
    BY DEF Spawned, Resized, TakesOver
  <2> HIDE DEF r
  <2>2. r \in Records
    BY <1>0, <2>1 DEF Connected, r
  <2>3. record[r] \in TermRecord /\ w # NoClient
    BY <1>0, <2>2 DEF TermTyped
  <2>4. /\ record[r].lock = w <=> client[w].at \in {"spawning", "resizing"}
        /\ client[w].at = "spawning" => record[r].pty = 0
    BY <1>0, <2>2 DEF Connected, r
  <2> QED BY <2>2, <2>3, <2>4
<1>2. CASE Spawned(w)
  <2>1. PICK p \in Ptys :
          /\ pty[p].at = "none" /\ pty' = [pty EXCEPT ![p] = [of |-> r, at |-> "open"]]
          /\ Attach(w, r, [record[r] EXCEPT !.pty = p, !.input = TRUE, !.lock = NoClient])
    BY <1>2 DEF Spawned
  <2> DEFINE rec == [record[r] EXCEPT !.pty = p, !.input = TRUE, !.lock = NoClient]
  <2>2. /\ rec \in TermRecord /\ rec.active = record[r].active /\ rec.output = record[r].output
        /\ rec.queue = record[r].queue /\ rec.lock = NoClient /\ rec.pty = p /\ rec.input = TRUE
    <3>1. p \in 0..MaxPtys /\ TRUE \in BOOLEAN /\ NoClient \in AnyClient
      BY DEF Ptys, AnyClient
    <3> HIDE DEF r
    <3> QED BY <1>1, <3>1 DEF TermRecord
  <2>3. client[w].at = "spawning" /\ UNCHANGED <<registered, closer, sandboxGone, touched, stuck, stops>>
    BY <1>2 DEF Spawned
  <2>4. Attach(w, r, rec)
    BY <2>1
  <2> HIDE DEF rec, r
  <2>5. Started(r, rec)
    BY <1>1, <2>1, <2>2, <2>3 DEF Started
  <2>6. \A v \in Clients \ {w} : rec.lock = v <=> record[r].lock = v
    BY <1>1, <2>2, <2>3
  <2>7. r = client[w].of
    BY DEF r
  <2> QED BY <1>1, <2>2, <2>3, <2>4, <2>5, <2>6, <2>7, AttachKeeps
<1>3. CASE Resized(w)
  <2> DEFINE rec == [record[r] EXCEPT !.lock = NoClient]
  <2>1. /\ client[w].at = "resizing" /\ Attach(w, r, rec)
        /\ UNCHANGED <<registered, pty, closer, sandboxGone, touched, stuck, stops>>
    BY <1>3 DEF Resized
  <2>2. /\ rec \in TermRecord /\ rec.active = record[r].active /\ rec.output = record[r].output
        /\ rec.queue = record[r].queue /\ rec.lock = NoClient /\ rec.pty = record[r].pty
        /\ rec.input = record[r].input
    BY <1>1 DEF TermRecord, AnyClient
  <2> HIDE DEF rec, r
  <2>3. \A v \in Clients \ {w} : rec.lock = v <=> record[r].lock = v
    BY <1>1, <2>1, <2>2
  <2>4. r = client[w].of
    BY DEF r
  <2> QED BY <1>1, <2>1, <2>2, <2>3, <2>4, AttachKeeps
<1>4. CASE TakesOver(w)
  <2>1. /\ client[w].at = "taking" /\ closed' = closed /\ Attached(w, r, record[r])
        /\ UNCHANGED <<registered, pty, closer, sandboxGone, touched, stuck, stops>>
    BY <1>4 DEF TakesOver
  <2> HIDE DEF r
  <2>2. r = client[w].of
    BY DEF r
  <2> QED BY <1>1, <2>1, <2>2, AttachKeeps
<1> QED BY <1>2, <1>3, <1>4

LEMMA LeaveKeeps ==
    ASSUME TermInv, NEW w \in Clients, Leave(w) PROVE TermInv'
<1> USE TerminalAssumption
<1> DEFINE r == client[w].of
<1>0. TermTyped /\ Connected /\ Closing /\ Shells /\ Untouched /\ InService
  BY DEF TermInv
<1>1. /\ client[w].at \notin {"away", "closing"} /\ Gone({w})
      /\ record' = [record EXCEPT
            ![r].lock = IF @ = w THEN NoClient ELSE @,
            ![r].active = IF StillAttached(w, r) THEN NoClient ELSE @,
            ![r].output = IF StillAttached(w, r) THEN NoClient ELSE @]
      /\ UNCHANGED <<registered, pty, closer, sandboxGone, touched, stuck, stops>>
  BY DEF Leave
<1>r. r \in Records /\ w # NoClient
  BY <1>0, <1>1 DEF Connected
<1>2. /\ client' \in [Clients -> TermClient] /\ client'[w].at = "away" /\ client'[w].of = 0
      /\ \A v \in Clients \ {w} : client'[v] = client[v]
      /\ closed' = closed \ {w} /\ overlooked' = overlooked \ {w}
  BY <1>0, <1>1 DEF TermTyped, TermClient, Gone, Away
<1>3. /\ record' \in [Records -> TermRecord]
      /\ \A x \in Records \ {r} : record'[x] = record[x]
      /\ record'[r].lock = (IF record[r].lock = w THEN NoClient ELSE record[r].lock)
      /\ record'[r].pty = record[r].pty /\ record'[r].input = record[r].input
      /\ record'[r].queue = record[r].queue
      /\ record[r].active # w => record'[r].active = record[r].active /\ record'[r].output = record[r].output
      /\ record[r].active = w => record'[r].active = NoClient
  <2> DEFINE l == IF record[r].lock = w THEN NoClient ELSE record[r].lock
             a == IF record[r].active = w THEN NoClient ELSE record[r].active
             o == IF record[r].active = w THEN NoClient ELSE record[r].output
  <2>1. record[r] \in TermRecord /\ l \in AnyClient /\ a \in AnyClient /\ o \in AnyClient
    BY <1>0, <1>r DEF TermTyped, TermRecord, AnyClient
  <2>2. record' = [record EXCEPT ![r] = [record[r] EXCEPT !.lock = l, !.active = a, !.output = o]]
    BY <1>0, <1>1, <1>r DEF TermTyped, StillAttached
  <2>3. record'[r] = [record[r] EXCEPT !.lock = l, !.active = a, !.output = o]
        /\ \A x \in Records \ {r} : record'[x] = record[x]
    BY <1>0, <1>r, <2>2 DEF TermTyped
  <2> HIDE DEF l, a, o, r
  <2>4. /\ record'[r] \in TermRecord /\ record'[r].lock = l /\ record'[r].active = a /\ record'[r].output = o
        /\ record'[r].pty = record[r].pty /\ record'[r].input = record[r].input
        /\ record'[r].queue = record[r].queue
    BY <2>1, <2>3 DEF TermRecord
  <2>5. record' \in [Records -> TermRecord]
    BY <1>0, <2>1, <2>2, <2>3, <2>4 DEF TermTyped
  <2> QED BY <2>3, <2>4, <2>5 DEF l, a, o
<1>4. \A x \in Records : /\ record'[x].pty = record[x].pty /\ (Whole(x)' <=> Whole(x))
                         /\ record'[x].queue = record[x].queue
  BY <1>1, <1>3 DEF Whole
<1>5. TermTyped'
  BY <1>0, <1>1, <1>2, <1>3 DEF TermTyped
<1>6. Connected'
  <2>1. ASSUME NEW v \in Clients, NEW x \in Records
        PROVE  record'[x].lock = v <=> client'[v].of = x /\ client'[v].at \in {"spawning", "resizing"}
    <3>1. record[x].lock = v <=> client[v].of = x /\ client[v].at \in {"spawning", "resizing"}
      BY <1>0 DEF Connected
    <3>2. CASE v = w
      BY <1>2, <1>3, <1>r, <3>1, <3>2
    <3>3. CASE v # w
      <4>1. v # NoClient
        OBVIOUS
      <4> QED BY <1>2, <1>3, <3>1, <3>3, <4>1
    <3> QED BY <3>2, <3>3
  <2>2. \A v \in Clients :
          /\ client'[v].at # "away" => client'[v].of \in Records
          /\ client'[v].at = "spawning" => record'[client'[v].of].pty = 0
    BY <1>0, <1>2, <1>4 DEF Connected
  <2> QED BY <2>1, <2>2 DEF Connected
<1>7. Closing'
  BY <1>0, <1>1, <1>2 DEF Closing
<1>8. Shells'
  BY <1>0, <1>1, <1>4, SameClosers DEF Shells
<1>9. Untouched'
  <2>1. \A x \in Records \ touched' : record'[x].pty # 0 => Whole(x)'
    BY <1>0, <1>1, <1>4 DEF Untouched
  <2>2. \A v \in Clients : client'[v].of \in Records \ touched' =>
          /\ client'[v].at = "spawning" => record'[client'[v].of].queue
          /\ client'[v].at \in {"resizing", "taking"} => record'[client'[v].of].pty # 0
    BY <1>0, <1>1, <1>2, <1>4 DEF Untouched
  <2> QED BY <2>1, <2>2 DEF Untouched
<1>10. InService'
  <2> SUFFICES ASSUME NEW v \in Serving' \ (closed' \cup overlooked')
               PROVE  Attended(v, client[v].of)'
    BY DEF InService
  <2>1. v \in Serving \ (closed \cup overlooked) /\ client'[v] = client[v] /\ v \in Clients /\ v # w
    BY <1>2 DEF Serving
  <2>2. PICK x \in Records : x = client[v].of /\ Attended(v, x)
    BY <1>0, <2>1 DEF InService, Connected, Serving
  <2>3. record'[x].active = v <=> record[x].active = v
    BY <1>3, <2>1
  <2>4. record[x].active = v => record'[x].output = record[x].output
    BY <1>3, <2>1
  <2>5. Attended(v, x)'
    BY <1>1, <1>4, <2>1, <2>2, <2>3, <2>4, SameClosers DEF Attended
  <2> QED BY <2>1, <2>2, <2>5
<1> QED BY <1>5, <1>6, <1>7, <1>8, <1>9, <1>10 DEF TermInv

(* A closer begins: it was at rest, and has a record that is touched by now. *)
LEMMA CloserBegins ==
    ASSUME TermInv, NEW c \in Closers, NEW r \in Records, closer[c].at = "none",
           NEW at \in {"tmux", "exit"}, at = "exit" => c \in Ptys,
           closer' = [closer EXCEPT ![c] = [NoCloser EXCEPT !.at = at, !.of = r]],
           touched' = touched \cup {r},
           \/ client' = client /\ c \notin Clients
           \/ /\ c \in Clients /\ client' = [client EXCEPT ![c].at = "closing"]
              /\ client[c].at \in {"joined", "serving"},
           pty' = pty \/ /\ c \in Ptys /\ pty' = [pty EXCEPT ![c].at = "exited"]
                         /\ pty[c].at # "none" /\ pty[c].of = r,
           c \in Ptys => pty'[c].at = "exited",
           stops' \in 0..MaxStops, sandboxGone' \in BOOLEAN,
           sandboxGone => sandboxGone', c = Sandbox => sandboxGone',
           UNCHANGED <<registered, record, closed, stuck, overlooked>>
    PROVE  TermInv'
<1> USE TerminalAssumption
<1>0. TermTyped /\ Connected /\ Closing /\ Shells /\ Untouched /\ InService
  BY DEF TermInv
<1>1. /\ closer' \in [Closers -> TermCloser]
      /\ closer'[c].at = at /\ closer'[c].of = r
      /\ \A d \in Closers \ {c} : closer'[d] = closer[d]
  <2> DEFINE new == [NoCloser EXCEPT !.at = at, !.of = r]
  <2>1. new \in TermCloser /\ new.at = at /\ new.of = r
    <3>1. NoCloser \in TermCloser /\ r \in 0..MaxRecords
      BY DEF NoCloser, TermCloser, AnyClient, Records
    <3> QED BY <3>1 DEF TermCloser
  <2>2. closer' = [closer EXCEPT ![c] = new]
    OBVIOUS
  <2> HIDE DEF new
  <2> QED BY <1>0, <2>1, <2>2 DEF TermTyped
<1>2. /\ client' \in [Clients -> TermClient]
      /\ \A v \in Clients \ {c} : client'[v] = client[v]
      /\ c \in Clients => /\ client'[c].at = "closing" /\ client'[c].of = client[c].of
                          /\ client[c].at \in {"joined", "serving"}
  BY <1>0 DEF TermTyped, TermClient
<1>3. /\ pty' \in [Ptys -> TermPty]
      /\ \A p \in Ptys : /\ pty'[p].of = pty[p].of
                         /\ pty'[p].at = "none" <=> pty[p].at = "none"
                         /\ pty'[p].at = "open" => pty[p].at = "open"
                         /\ pty'[p] = pty[p] \/ (p = c /\ pty[p].of = r)
                         /\ pty'[p].at \in {pty[p].at, "exited"}
  <2>1. CASE pty' = pty
    BY <1>0, <2>1 DEF TermTyped, TermPty
  <2>2. CASE pty' # pty
    <3>1. /\ c \in Ptys /\ pty' = [pty EXCEPT ![c].at = "exited"]
          /\ pty[c].at # "none" /\ pty[c].of = r
      BY <2>2
    <3> QED BY <1>0, <3>1 DEF TermTyped, TermPty
  <2> QED BY <2>1, <2>2
<1>4. TermTyped'
  BY <1>0, <1>1, <1>2, <1>3 DEF TermTyped
<1>5. Connected'
  BY <1>0, <1>2 DEF Connected
<1>6. Closing'
  <2>1. \A d \in Closers : closer'[d].at # "none" => closer'[d].of \in touched'
    BY <1>0, <1>1 DEF Closing
  <2>2. \A v \in Clients : closer'[v].at # "none" <=> client'[v].at = "closing"
    BY <1>0, <1>1, <1>2 DEF Closing, Closers
  <2>3. \A p \in Ptys : closer'[p].at # "none" => pty'[p].at \in {"exited", "killed"}
    BY <1>0, <1>1, <1>3 DEF Closing, Closers
  <2>4. \A d \in Closers : closer'[d].at = "exit" => d \in Ptys
    BY <1>0, <1>1 DEF Closing
  <2>5. ~sandboxGone' => closer'[Sandbox].at = "none"
    BY <1>0, <1>1 DEF Closing, Closers
  <2> QED BY <2>1, <2>2, <2>3, <2>4, <2>5 DEF Closing
<1>7. /\ Forgets(r)' /\ Asked(r)'
      /\ \A x \in Records : (Forgets(x) => Forgets(x)') /\ (Asked(x) => Asked(x)')
      /\ \A v \in Clients : \A x \in Records : Detached(v, x) => Detached(v, x)'
      /\ \A d \in Closers : \A x \in Records : closer'[d].of = x /\ Begun(d)' => closer[d].of = x /\ Begun(d)
  BY <1>1 DEF Forgets, Asked, Detached, Begun
<1>8. Shells'
  <2>1. \A p \in Ptys : /\ pty'[p].at # "none" => pty'[p].of \in Records
                        /\ pty'[p].at = "open" => record'[pty'[p].of].pty = p
    BY <1>0, <1>3 DEF Shells
  <2>2. ASSUME NEW x \in Records, record'[x].pty # 0
        PROVE  /\ pty'[record'[x].pty].of = x /\ pty'[record'[x].pty].at # "none"
               /\ x \in stuck' \/ pty'[record'[x].pty].at = "open" \/ Forgets(x)'
    <3>1. record[x].pty \in Ptys /\ record'[x].pty = record[x].pty
      BY <1>0, <2>2 DEF TermTyped, TermRecord, Ptys
    <3>2. /\ pty[record[x].pty].of = x /\ pty[record[x].pty].at # "none"
          /\ x \in stuck \/ pty[record[x].pty].at = "open" \/ Forgets(x)
      BY <1>0, <2>2 DEF Shells
    <3> QED BY <1>3, <1>7, <3>1, <3>2
  <2> QED BY <2>1, <2>2 DEF Shells
<1>9. \A x \in Records \ {r} : record[x].pty # 0 => pty'[record[x].pty] = pty[record[x].pty]
  BY <1>0, <1>3 DEF Shells, TermTyped, TermRecord, Ptys
<1>10. Untouched'
  <2>1. \A x \in Records \ touched' : x # r /\ x \in Records \ touched
    OBVIOUS
  <2>2. \A x \in Records \ touched' : record'[x].pty # 0 => Whole(x)'
    BY <1>0, <1>9, <2>1 DEF Untouched, Whole
  <2>3. \A v \in Clients : client'[v].at \in {"spawning", "resizing", "taking"} =>
          client'[v] = client[v]
    BY <1>2
  <2> QED BY <1>0, <2>1, <2>2, <2>3 DEF Untouched
<1>11. InService'
  <2> SUFFICES ASSUME NEW v \in Serving' \ (closed' \cup overlooked')
               PROVE  Attended(v, client[v].of)'
    BY DEF InService
  <2>1. v \in Serving \ (closed \cup overlooked) /\ client'[v] = client[v] /\ v \in Clients
    BY <1>2 DEF Serving
  <2>2. PICK x \in Records : x = client[v].of /\ Attended(v, x)
    BY <1>0, <2>1 DEF InService, Connected, Serving
  <2>3. x # r /\ record[x].pty # 0 /\ Whole(x) => Whole(x)'
    BY <1>9 DEF Whole
  <2>4. Attended(v, x)'
    BY <1>7, <2>1, <2>2, <2>3 DEF Attended
  <2> QED BY <2>1, <2>2, <2>4
<1> QED BY <1>4, <1>5, <1>6, <1>8, <1>10, <1>11 DEF TermInv

LEMMA ClosesBegin ==
    ASSUME TermInv,
           \/ \E w \in Clients : Terminate(w)
           \/ TerminateForSandbox
           \/ \E p \in Ptys : PtyExits(p)
    PROVE  TermInv'
<1> USE TerminalAssumption
<1>0. TermTyped /\ Connected /\ Closing /\ Shells
  BY DEF TermInv
<1>1. ASSUME NEW w \in Clients, Terminate(w) PROVE TermInv'
  <2>1. /\ client[w].at \in {"joined", "serving"} /\ stops < MaxStops /\ stops' = stops + 1
        /\ client' = [client EXCEPT ![w].at = "closing"]
        /\ closer' = [closer EXCEPT ![w] = [NoCloser EXCEPT !.at = "tmux", !.of = client[w].of]]
        /\ touched' = touched \cup {client[w].of}
        /\ UNCHANGED <<registered, record, pty, closed, sandboxGone, stuck, overlooked>>
    BY <1>1 DEF Terminate
  <2>2. /\ client[w].of \in Records /\ closer[w].at = "none" /\ w \in Closers
        /\ w \notin Ptys /\ w # Sandbox /\ stops' \in 0..MaxStops /\ sandboxGone \in BOOLEAN
    BY <1>0, <2>1 DEF Connected, Closing, Closers, TermTyped, Ptys
  <2> QED BY <2>1, <2>2, CloserBegins
<1>2. CASE TerminateForSandbox
  <2>1. /\ ~sandboxGone /\ sandboxGone' = TRUE /\ registered # 0
        /\ closer' = [closer EXCEPT ![Sandbox] =
                     [NoCloser EXCEPT !.at = "tmux", !.of = registered]]
        /\ touched' = touched \cup {registered}
        /\ UNCHANGED <<registered, record, pty, client, closed, stuck, overlooked, stops>>
    BY <1>2 DEF TerminateForSandbox
  <2>2. /\ registered \in Records /\ closer[Sandbox].at = "none" /\ Sandbox \in Closers
        /\ Sandbox \notin Clients /\ Sandbox \notin Ptys /\ stops' \in 0..MaxStops
    BY <1>0, <2>1 DEF Closing, Closers, TermTyped, Records, Ptys
  <2>3. sandboxGone' \in BOOLEAN /\ sandboxGone'
    BY <2>1, Zenon
  <2> QED BY <2>1, <2>2, <2>3, CloserBegins
<1>3. ASSUME NEW p \in Ptys, PtyExits(p) PROVE TermInv'
  <2>1. /\ pty[p].at = "open" /\ stops < MaxStops /\ stops' = stops + 1
        /\ pty' = [pty EXCEPT ![p].at = "exited"]
        /\ closer' = [closer EXCEPT ![p] = [NoCloser EXCEPT !.at = "exit", !.of = pty[p].of]]
        /\ touched' = touched \cup {pty[p].of}
        /\ UNCHANGED <<registered, record, client, closed, sandboxGone, stuck, overlooked>>
    BY <1>3 DEF PtyExits
  <2>2. /\ pty[p].of \in Records /\ closer[p].at = "none" /\ p \in Closers
        /\ p \notin Clients /\ p # Sandbox /\ stops' \in 0..MaxStops /\ sandboxGone \in BOOLEAN
    BY <1>0, <2>1 DEF Shells, Closing, Closers, TermTyped, Ptys
  <2>3. pty'[p].at = "exited"
    BY <1>0, <2>1 DEF TermTyped, TermPty
  <2> QED BY <2>1, <2>2, <2>3, CloserBegins
<1> QED BY <1>1, <1>2, <1>3

LEMMA InputFailsKeeps ==
    ASSUME TermInv, NEW p \in Ptys, InputFails(p) PROVE TermInv'
<1> USE TerminalAssumption
<1> DEFINE r == pty[p].of
<1>0. TermTyped /\ Connected /\ Closing /\ Shells /\ Untouched /\ InService
  BY DEF TermInv
<1>1. /\ pty[p].at = "open" /\ stops < MaxStops /\ stops' = stops + 1
      /\ pty' = [pty EXCEPT ![p].at = "killed"]
      /\ touched' = touched \cup {r} /\ stuck' = stuck \cup {r}
      /\ UNCHANGED <<registered, record, client, closed, closer, sandboxGone, overlooked>>
  BY DEF InputFails
<1>r. r \in Records /\ record[r].pty = p /\ closer[p].at = "none"
  BY <1>0, <1>1 DEF Shells, Closing, Closers
<1>2. /\ pty' \in [Ptys -> TermPty] /\ \A q \in Ptys \ {p} : pty'[q] = pty[q]
      /\ pty'[p].of = r /\ pty'[p].at = "killed"
  BY <1>0, <1>1 DEF TermTyped, TermPty
<1> HIDE DEF r
<1>3. TermTyped'
  BY <1>0, <1>1, <1>2, <1>r DEF TermTyped
<1>4. Connected'
  BY <1>0, <1>1 DEF Connected
<1>5. Closing'
  BY <1>0, <1>1, <1>2, <1>r DEF Closing
<1>6. \A x \in Records \ {r} : record[x].pty # 0 =>
        record[x].pty \in Ptys /\ pty'[record[x].pty] = pty[record[x].pty]
  BY <1>0, <1>2 DEF Shells, TermTyped, TermRecord, Ptys, r
<1>7. Shells'
  <2>1. \A q \in Ptys : /\ pty'[q].at # "none" => pty'[q].of \in Records
                        /\ pty'[q].at = "open" => record'[pty'[q].of].pty = q
    BY <1>0, <1>1, <1>2, <1>r DEF Shells
  <2>2. ASSUME NEW x \in Records, record'[x].pty # 0
        PROVE  /\ pty'[record'[x].pty].of = x /\ pty'[record'[x].pty].at # "none"
               /\ x \in stuck' \/ pty'[record'[x].pty].at = "open" \/ Forgets(x)'
    <3>1. CASE x = r
      BY <1>1, <1>2, <1>r, <3>1
    <3>2. CASE x # r
      BY <1>0, <1>1, <1>6, <2>2, <3>2, SameClosers DEF Shells
    <3> QED BY <3>1, <3>2
  <2> QED BY <2>1, <2>2 DEF Shells
<1>8. Untouched'
  <2>1. \A x \in Records \ touched' : x # r /\ x \in Records \ touched
    BY <1>1
  <2>2. \A x \in Records \ touched' : record'[x].pty # 0 => Whole(x)'
    BY <1>0, <1>1, <1>6, <2>1 DEF Untouched, Whole
  <2> QED BY <1>0, <1>1, <2>1, <2>2 DEF Untouched
<1>9. InService'
  <2> SUFFICES ASSUME NEW v \in Serving' \ (closed' \cup overlooked')
               PROVE  Attended(v, client[v].of)'
    BY DEF InService
  <2>1. v \in Serving \ (closed \cup overlooked) /\ client'[v] = client[v] /\ v \in Clients
    BY <1>1 DEF Serving
  <2>2. PICK x \in Records : x = client[v].of /\ Attended(v, x)
    BY <1>0, <2>1 DEF InService, Connected, Serving
  <2>3. x # r /\ record[x].pty # 0 /\ Whole(x) => Whole(x)'
    BY <1>1, <1>6 DEF Whole
  <2>4. Attended(v, x)'
    BY <1>1, <2>1, <2>2, <2>3, SameClosers DEF Attended
  <2> QED BY <2>1, <2>2, <2>4
<1> QED BY <1>3, <1>4, <1>5, <1>7, <1>8, <1>9 DEF TermInv

(* A closer goes on: it lets go of the queues of its record, and then of the PTY.  The record
   is detached when it begins, of a socket it closes itself, saw, or overlooks. *)
LEMMA CloserMoves ==
    ASSUME TermInv, NEW c \in Closers, NEW r \in Records, r = closer[c].of,
           closer[c].at \in {"tmux", "exit", "input", "pty"},
           NEW rec \in TermRecord, rec.pty = record[r].pty, rec.lock = record[r].lock,
           NEW seen \in AnyClient,
           closer[c].at \in {"input", "pty"} =>
               rec = record[r] /\ seen = closer[c].saw /\ overlooked' = overlooked,
           closer[c].at \in {"tmux", "exit"} =>
               /\ rec.active = NoClient /\ overlooked' = overlooked \cup ({record[r].active} \ {seen, c, NoClient})
               /\ seen # NoClient => c \in Ptys,
           \/ DropsQueues(c, r, rec, seen) \/ CleansUp(c, r, rec, seen)
           \/ /\ record' = [record EXCEPT ![r] = rec] /\ pty' = pty
              /\ closer' = [closer EXCEPT ![c] = [at |-> "input", of |-> r, saw |-> seen]],
           UNCHANGED <<registered, client, closed, sandboxGone, touched, stuck, stops>>
    PROVE  TermInv'
<1> USE TerminalAssumption
<1>0. TermTyped /\ Connected /\ Closing /\ Shells /\ Untouched /\ InService
  BY DEF TermInv
<1>1. PICK at \in {"input", "pty", "cleanup"}, new \in TermRecord :
        /\ closer' = [closer EXCEPT ![c] = [at |-> at, of |-> r, saw |-> seen]]
        /\ record' = [record EXCEPT ![r] = new]
        /\ new.lock = rec.lock /\ new.active = rec.active
        /\ at = "cleanup" => new.pty = 0 /\ pty' = Killed({p \in Ptys : pty[p].of = r})
        /\ at = "pty" => new.pty = rec.pty /\ new.pty # 0 /\ pty' = Killed({rec.pty})
        /\ at = "input" => new.pty = rec.pty /\ pty' = pty
  <2>1. ASSUME NEW b \in TermRecord, b.lock = rec.lock, b.active = rec.active, b.pty = rec.pty
        PROVE  /\ [b EXCEPT !.pty = 0] \in TermRecord /\ [b EXCEPT !.pty = 0].lock = rec.lock
               /\ [b EXCEPT !.pty = 0].active = rec.active /\ [b EXCEPT !.pty = 0].pty = 0
    BY <2>1 DEF TermRecord
  <2>2. CASE CleansUp(c, r, rec, seen)
    BY <2>1, <2>2 DEF CleansUp
  <2>3. CASE DropsQueues(c, r, rec, seen)
    <3> DEFINE bare == [rec EXCEPT !.queue = FALSE, !.input = FALSE]
    <3>1. /\ bare \in TermRecord /\ bare.lock = rec.lock /\ bare.active = rec.active
          /\ bare.pty = rec.pty
      BY DEF TermRecord
    <3>2. IF rec.pty = 0 THEN CleansUp(c, r, bare, seen)
          ELSE /\ record' = [record EXCEPT ![r] = bare] /\ pty' = Killed({rec.pty})
               /\ closer' = [closer EXCEPT ![c] = [at |-> "pty", of |-> r, saw |-> seen]]
      BY <2>3 DEF DropsQueues
    <3> HIDE DEF bare
    <3>3. CASE rec.pty = 0
      BY <2>1, <3>1, <3>2, <3>3 DEF CleansUp
    <3>4. CASE rec.pty # 0
      BY <3>1, <3>2, <3>4
    <3> QED BY <3>3, <3>4
  <2>4. CASE /\ record' = [record EXCEPT ![r] = rec] /\ pty' = pty
             /\ closer' = [closer EXCEPT ![c] = [at |-> "input", of |-> r, saw |-> seen]]
    BY <2>4
  <2> QED BY <2>2, <2>3, <2>4
<1>2. /\ record' \in [Records -> TermRecord] /\ record'[r] = new
      /\ \A x \in Records \ {r} : record'[x] = record[x]
  BY <1>0, <1>1 DEF TermTyped
<1>3. /\ closer' \in [Closers -> TermCloser]
      /\ closer'[c].at = at /\ closer'[c].of = r /\ closer'[c].saw = seen
      /\ \A d \in Closers \ {c} : closer'[d] = closer[d]
  <2>1. [at |-> at, of |-> r, saw |-> seen] \in TermCloser
    BY DEF TermCloser, Records
  <2> QED BY <1>0, <1>1, <2>1 DEF TermTyped
<1>4. /\ pty' \in [Ptys -> TermPty]
      /\ \A p \in Ptys : /\ pty'[p].of = pty[p].of
                         /\ pty'[p].at = "none" <=> pty[p].at = "none"
                         /\ pty'[p].at \in {pty[p].at, "killed"}
                         /\ pty[p].of = r /\ at = "cleanup" => pty'[p].at # "open"
                         /\ pty'[p] # pty[p] =>
                              /\ pty[p].of = r /\ at # "input"
                              /\ pty'[p].at = "killed"
  <2>1. ASSUME NEW ps \in SUBSET Ptys, pty' = Killed(ps)
        PROVE  /\ pty' \in [Ptys -> TermPty]
               /\ \A p \in Ptys : /\ pty'[p].of = pty[p].of
                                  /\ pty'[p].at = "none" <=> pty[p].at = "none"
                                  /\ pty'[p].at \in {pty[p].at, "killed"}
                                  /\ p \in ps => pty'[p].at # "open"
                                  /\ pty'[p] # pty[p] => p \in ps /\ pty'[p].at = "killed"
    <3>1. \A p \in Ptys : pty[p] \in TermPty
      BY <1>0 DEF TermTyped
    <3>2. \A p \in Ptys : pty'[p] = IF p \in ps /\ pty[p].at # "none"
                                    THEN [pty[p] EXCEPT !.at = "killed"] ELSE pty[p]
      BY <2>1 DEF Killed
    <3>3. \A p \in Ptys : /\ [pty[p] EXCEPT !.at = "killed"] \in TermPty
                          /\ [pty[p] EXCEPT !.at = "killed"].of = pty[p].of
                          /\ [pty[p] EXCEPT !.at = "killed"].at = "killed"
      BY <3>1 DEF TermPty
    <3>4. pty' \in [Ptys -> TermPty]
      BY <2>1, <3>1, <3>3 DEF Killed
    <3>5. ASSUME NEW p \in Ptys
          PROVE  /\ pty'[p].of = pty[p].of
                 /\ pty'[p].at = "none" <=> pty[p].at = "none"
                 /\ pty'[p].at \in {pty[p].at, "killed"}
                 /\ p \in ps => pty'[p].at # "open"
                 /\ pty'[p] # pty[p] => p \in ps /\ pty'[p].at = "killed"
      <4>1. CASE p \in ps /\ pty[p].at # "none"
        BY <3>2, <3>3, <4>1
      <4>2. CASE ~(p \in ps /\ pty[p].at # "none")
        <5>1. pty'[p] = pty[p]
          BY <3>2, <4>2
        <5> QED BY <4>2, <5>1
      <4> QED BY <4>1, <4>2
    <3> QED BY <3>4, <3>5
  <2>2. CASE at = "input"
    BY <1>0, <1>1, <2>2 DEF TermTyped
  <2>3. CASE at = "pty"
    <3>1. rec.pty \in Ptys /\ pty[rec.pty].of = r
      BY <1>0, <1>1, <2>3 DEF Shells, TermRecord, Ptys
    <3>2. {rec.pty} \in SUBSET Ptys /\ pty' = Killed({rec.pty})
      BY <1>1, <2>3, <3>1
    <3> QED BY <2>1, <2>3, <3>1, <3>2
  <2>4. CASE at = "cleanup"
    <3>1. {p \in Ptys : pty[p].of = r} \in SUBSET Ptys
      OBVIOUS
    <3> QED BY <1>1, <2>1, <2>4, <3>1
  <2> QED BY <2>2, <2>3, <2>4
<1>5. TermTyped'
  <2>1. overlooked' \subseteq Clients
    <3>1. record[r].active \in Clients \cup {NoClient}
      BY <1>0 DEF TermTyped, TermRecord, AnyClient
    <3> QED BY <1>0, <3>1 DEF TermTyped
  <2> QED BY <1>0, <1>2, <1>3, <1>4, <2>1 DEF TermTyped
<1>6. Connected'
  <2>1. \A x \in Records : record'[x].lock = record[x].lock
    BY <1>1, <1>2
  <2>2. \A x \in Records : record[x].pty = 0 => record'[x].pty = 0
    BY <1>1, <1>2
  <2> QED BY <1>0, <2>1, <2>2 DEF Connected
<1>7. Closing'
  <2>1. \A d \in Closers : closer'[d].at # "none" => closer'[d].of \in touched'
    BY <1>0, <1>3 DEF Closing
  <2>2. \A d \in Closers : closer'[d].at # "none" <=> closer[d].at # "none"
    BY <1>3
  <2>3. \A p \in Ptys : pty[p].at \in {"exited", "killed"} => pty'[p].at \in {"exited", "killed"}
    BY <1>4
  <2>4. \A d \in Closers : closer'[d].at = "exit" => closer[d].at = "exit"
    BY <1>3
  <2> QED BY <1>0, <2>1, <2>2, <2>3, <2>4 DEF Closing, Closers
<1>8. /\ at # "cleanup" => Forgets(r)'
      /\ \A x \in Records \ {r} : (Forgets(x) => Forgets(x)') /\ (Asked(x) => Asked(x)')
      /\ \A d \in Closers : \A x \in Records \ {r} :
           closer'[d].of = x /\ Begun(d)' => closer[d].of = x /\ Begun(d)
  BY <1>3 DEF Forgets, Asked, Begun
<1>9. Shells'
  <2>1. \A p \in Ptys : pty'[p].at # "none" => pty'[p].of \in Records
    BY <1>0, <1>4 DEF Shells
  <2>2. ASSUME NEW p \in Ptys, pty'[p].at = "open" PROVE record'[pty'[p].of].pty = p
    <3>1. pty[p].at = "open" /\ pty[p].of \in Records /\ record[pty[p].of].pty = p
          /\ pty'[p].of = pty[p].of
      BY <1>0, <1>4, <2>2 DEF Shells
    <3>2. pty[p].of = r => at # "cleanup"
      BY <1>4, <2>2
    <3> QED BY <1>1, <1>2, <3>1, <3>2
  <2>3. ASSUME NEW x \in Records, record'[x].pty # 0
        PROVE  /\ pty'[record'[x].pty].of = x /\ pty'[record'[x].pty].at # "none"
               /\ x \in stuck' \/ pty'[record'[x].pty].at = "open" \/ Forgets(x)'
    <3>1. record'[x].pty = record[x].pty /\ (x = r => at # "cleanup")
      BY <1>1, <1>2, <2>3
    <3>2. record[x].pty \in Ptys
      BY <1>0, <2>3, <3>1 DEF TermTyped, TermRecord, Ptys
    <3>3. /\ pty[record[x].pty].of = x /\ pty[record[x].pty].at # "none"
          /\ x \in stuck \/ pty[record[x].pty].at = "open" \/ Forgets(x)
      BY <1>0, <2>3, <3>1 DEF Shells
    <3>4. x # r => pty'[record[x].pty] = pty[record[x].pty]
      BY <1>4, <3>2, <3>3
    <3> QED BY <1>4, <1>8, <3>1, <3>2, <3>3, <3>4
  <2> QED BY <2>1, <2>2, <2>3 DEF Shells
<1>10. \A x \in Records \ {r} : /\ record'[x] = record[x]
                                /\ record[x].pty # 0 => pty'[record[x].pty] = pty[record[x].pty]
  BY <1>0, <1>2, <1>4 DEF Shells, TermTyped, TermRecord, Ptys
<1>11. Untouched'
  <2>1. r \in touched /\ touched' = touched
    BY <1>0 DEF Closing
  <2>2. \A x \in Records \ touched' : record'[x].pty # 0 => Whole(x)'
    BY <1>0, <1>10, <2>1 DEF Untouched, Whole
  <2> QED BY <1>0, <1>10, <2>1, <2>2 DEF Untouched
<1>12. InService'
  <2> SUFFICES ASSUME NEW v \in Serving' \ (closed' \cup overlooked')
               PROVE  Attended(v, client[v].of)'
    BY DEF InService
  <2>1. v \in Serving \ (closed \cup overlooked) /\ client'[v] = client[v] /\ v \in Clients
        /\ v # NoClient
    BY DEF Serving
  <2>2. PICK x \in Records : x = client[v].of /\ Attended(v, x)
    BY <1>0, <2>1 DEF InService, Connected, Serving
  <2>3. CASE x = r
    <3>1. record'[r].active = rec.active
      BY <1>1, <1>2
    <3>2. CASE closer[c].at \in {"input", "pty"}
      <4>1. record[r].active # v
        BY <2>2, <2>3, <3>2 DEF Attended, Begun
      <4>2. Detached(v, r)'
        <5>1. PICK d \in Closers \ Clients : Begun(d) /\ closer[d].of = r /\ closer[d].saw = v
          BY <2>2, <2>3, <4>1 DEF Attended, Detached
        <5>2. Begun(d)' /\ closer'[d].of = r /\ closer'[d].saw = v
          BY <1>3, <3>2, <5>1 DEF Begun
        <5> QED BY <5>2 DEF Detached
      <4> QED BY <2>2, <2>3, <3>1, <3>2, <4>1, <4>2 DEF Attended
    <3>3. CASE closer[c].at \in {"tmux", "exit"}
      <4>1. record'[r].active # v
        BY <2>1, <3>1, <3>3
      <4>2. Detached(v, r)'
        <5>1. CASE record[r].active = v
          <6>1. v # c
            BY <1>0, <2>1, <3>3 DEF Closing, Serving
          <6>2. v = seen
            BY <2>1, <3>3, <5>1, <6>1
          <6>3. c \in Ptys /\ c \notin Clients
            BY <2>1, <3>3, <6>2 DEF Ptys
          <6> QED BY <1>3, <6>2, <6>3 DEF Detached, Begun
        <5>2. CASE record[r].active # v
          <6>1. PICK d \in Closers \ Clients : Begun(d) /\ closer[d].of = r /\ closer[d].saw = v
            BY <2>2, <2>3, <5>2 DEF Attended, Detached
          <6>2. Begun(d)' /\ closer'[d].of = r /\ closer'[d].saw = v
            BY <1>3, <3>3, <6>1 DEF Begun
          <6> QED BY <6>2 DEF Detached
        <5> QED BY <5>1, <5>2
      <4> QED BY <2>2, <2>3, <4>1, <4>2 DEF Attended
    <3> QED BY <3>2, <3>3
  <2>4. CASE x # r
    <3>1. record[x].pty # 0 /\ Whole(x) => Whole(x)'
      BY <1>10, <2>4 DEF Whole
    <3>2. record'[x] = record[x] /\ (Asked(x) => Asked(x)')
          /\ (\A d \in Closers : closer'[d].of = x /\ Begun(d)' => closer[d].of = x /\ Begun(d))
      BY <1>8, <1>10, <2>4
    <3>3. Detached(v, x) => Detached(v, x)'
      BY <1>3, <2>4 DEF Detached, Begun
    <3>4. Attended(v, x)'
      BY <2>1, <2>2, <3>1, <3>2, <3>3 DEF Attended
    <3> QED BY <2>1, <2>2, <3>4
  <2> QED BY <2>3, <2>4
<1> QED BY <1>5, <1>6, <1>7, <1>9, <1>11, <1>12 DEF TermInv

LEMMA ClosersMove ==
    ASSUME TermInv, NEW c \in Closers, CloseBegins(c) \/ InputTaskEnded(c) \/ PtyKilled(c)
    PROVE  TermInv'
<1> USE TerminalAssumption
<1> DEFINE r == closer[c].of
<1>0. TermTyped /\ Closing
  BY DEF TermInv
<1>1. closer[c].at \in {"tmux", "exit", "input", "pty"}
  BY DEF CloseBegins, InputTaskEnded, PtyKilled
<1>2. /\ r \in Records /\ record[r] \in TermRecord /\ closer[c].saw \in AnyClient
      /\ closer[c].at = "exit" => c \in Ptys
  <2> HIDE DEF r
  <2>1. r \in Records
    BY <1>0, <1>1 DEF Closing, TermTyped, r
  <2> QED BY <1>0, <1>1, <2>1 DEF Closing, TermTyped, TermCloser
<1>3. CASE CloseBegins(c)
  <2> DEFINE rec == [record[r] EXCEPT !.active = NoClient, !.output = NoClient]
             seen == IF closer[c].at = "exit" THEN record[r].active ELSE NoClient
  <2>1. /\ closer[c].at \in {"tmux", "exit"}
        /\ IF rec.input
           THEN /\ record' = [record EXCEPT ![r] = rec] /\ UNCHANGED pty
                /\ closer' = [closer EXCEPT ![c] = [at |-> "input", of |-> r, saw |-> seen]]
           ELSE DropsQueues(c, r, rec, seen)
        /\ overlooked' = overlooked \cup ({record[r].active} \ {seen, c, NoClient})
        /\ UNCHANGED <<registered, client, closed, sandboxGone, touched, stuck, stops>>
    BY <1>3 DEF CloseBegins
  <2>2. /\ rec \in TermRecord /\ rec.pty = record[r].pty /\ rec.lock = record[r].lock
        /\ rec.active = NoClient
    <3>1. NoClient \in AnyClient
      BY DEF AnyClient
    <3> HIDE DEF r
    <3> QED BY <1>2, <3>1 DEF TermRecord
  <2>3. seen \in AnyClient /\ (seen # NoClient => c \in Ptys)
    BY <1>2, <2>1 DEF TermRecord, AnyClient
  <2> HIDE DEF rec, seen, r
  <2>4. r = closer[c].of
    BY DEF r
  <2> QED BY <1>1, <1>2, <2>1, <2>2, <2>3, <2>4, CloserMoves
<1>4. CASE InputTaskEnded(c)
  <2>1. /\ closer[c].at = "input" /\ DropsQueues(c, r, record[r], closer[c].saw)
        /\ UNCHANGED <<registered, client, closed, sandboxGone, touched, stuck, overlooked, stops>>
    BY <1>4 DEF InputTaskEnded
  <2> HIDE DEF r
  <2>2. r = closer[c].of
    BY DEF r
  <2> QED BY <1>1, <1>2, <2>1, <2>2, CloserMoves
<1>5. CASE PtyKilled(c)
  <2>1. /\ closer[c].at = "pty" /\ CleansUp(c, r, record[r], closer[c].saw)
        /\ UNCHANGED <<registered, client, closed, sandboxGone, touched, stuck, overlooked, stops>>
    BY <1>5 DEF PtyKilled
  <2> HIDE DEF r
  <2>2. r = closer[c].of
    BY DEF r
  <2> QED BY <1>1, <1>2, <2>1, <2>2, CloserMoves
<1> QED BY <1>3, <1>4, <1>5

(* A closer is done, at its end or before it; in between its record is stuck. *)
LEMMA ClosersEnd ==
    ASSUME TermInv, NEW c \in Closers, CleanedUp(c) \/ CutShort(c) PROVE TermInv'
<1> USE TerminalAssumption
<1> DEFINE k == closer[c].of
<1>0. TermTyped /\ Connected /\ Closing /\ Shells /\ Untouched /\ InService
  BY DEF TermInv
<1>1. /\ closer[c].at \in {"tmux", "pty", "cleanup"} /\ Closed(c)
      /\ UNCHANGED <<record, pty, sandboxGone, touched>>
      /\ registered' \in {registered, 0} /\ stops' \in 0..MaxStops
      /\ stuck \subseteq stuck' /\ stuck' \subseteq touched
      /\ closer[c].at # "cleanup" => k \in stuck'
  <2>1. CASE CleanedUp(c)
    BY <1>0, <2>1 DEF CleanedUp, TermTyped
  <2>2. CASE CutShort(c)
    <3>1. /\ closer[c].at \in {"tmux", "pty", "cleanup"} /\ Closed(c)
          /\ stops < MaxStops /\ stops' = stops + 1 /\ stuck' = stuck \cup {k}
          /\ UNCHANGED <<registered, record, pty, sandboxGone, touched>>
      BY <2>2 DEF CutShort
    <3>2. k \in touched
      BY <1>0, <3>1 DEF Closing
    <3> QED BY <1>0, <3>1, <3>2 DEF TermTyped
  <2> QED BY <2>1, <2>2
<1>2. /\ closer' \in [Closers -> TermCloser] /\ closer'[c].at = "none"
      /\ \A d \in Closers \ {c} : closer'[d] = closer[d]
  <2>1. closer' = [closer EXCEPT ![c] = NoCloser] /\ NoCloser \in TermCloser /\ NoCloser.at = "none"
    BY <1>1 DEF Closed, NoCloser, TermCloser, AnyClient
  <2> QED BY <1>0, <2>1 DEF TermTyped
<1>3. /\ client' \in [Clients -> TermClient]
      /\ \A v \in Clients \ {c} : client'[v] = client[v]
      /\ c \in Clients => client'[c].at = "away" /\ client'[c].of = 0 /\ client[c].at = "closing"
      /\ closed' \subseteq Clients /\ overlooked' \subseteq Clients
      /\ closed \ {c} \subseteq closed' /\ overlooked \ {c} \subseteq overlooked'
      /\ c \notin Clients => \A v \in Serving : closer[c].saw = v => v \in closed'
  <2>1. CASE c \in Clients
    <3>1. Gone({c}) /\ client[c].at = "closing"
      BY <1>0, <1>1, <2>1 DEF Closed, Closing
    <3> QED BY <1>0, <2>1, <3>1 DEF Gone, TermTyped, TermClient, Away
  <2>2. CASE c \notin Clients
    <3>1. closed' = closed \cup ({closer[c].saw} \cap Serving) /\ UNCHANGED <<client, overlooked>>
      BY <1>1, <2>2 DEF Closed
    <3> QED BY <1>0, <2>2, <3>1 DEF TermTyped, Serving
  <2> QED BY <2>1, <2>2
<1>4. TermTyped'
  BY <1>0, <1>1, <1>2, <1>3 DEF TermTyped
<1>5. Connected'
  <2>1. \A v \in Clients : \A x \in Records :
          record[x].lock = v <=> client'[v].of = x /\ client'[v].at \in {"spawning", "resizing"}
    BY <1>0, <1>3 DEF Connected
  <2>2. \A v \in Clients : /\ client'[v].at # "away" => client'[v].of \in Records
                           /\ client'[v].at = "spawning" => record[client'[v].of].pty = 0
    BY <1>0, <1>3 DEF Connected
  <2> QED BY <1>1, <2>1, <2>2 DEF Connected
<1>6. Closing'
  BY <1>0, <1>1, <1>2, <1>3 DEF Closing, Closers
<1>7. /\ \A x \in Records : (Forgets(x) => Forgets(x)' \/ x \in stuck')
                            /\ (Asked(x) => Asked(x)' \/ x \in stuck')
      /\ \A d \in Closers : Begun(d)' => Begun(d) /\ closer'[d] = closer[d]
  BY <1>1, <1>2 DEF Forgets, Asked, Begun
<1>8. Shells'
  <2>1. \A p \in Ptys : /\ pty'[p].at # "none" => pty'[p].of \in Records
                        /\ pty'[p].at = "open" => record'[pty'[p].of].pty = p
    BY <1>0, <1>1 DEF Shells
  <2>2. \A x \in Records : record'[x].pty # 0 =>
          /\ pty'[record'[x].pty].of = x /\ pty'[record'[x].pty].at # "none"
          /\ x \in stuck' \/ pty'[record'[x].pty].at = "open" \/ Forgets(x)'
    BY <1>0, <1>1, <1>7 DEF Shells
  <2> QED BY <2>1, <2>2 DEF Shells
<1>9. Untouched'
  <2>1. \A v \in Clients : client'[v].of \in Records => client'[v] = client[v]
    BY <1>3 DEF Records
  <2> QED BY <1>0, <1>1, <2>1 DEF Untouched, Whole
<1>10. InService'
  <2> SUFFICES ASSUME NEW v \in Serving' \ (closed' \cup overlooked')
               PROVE  Attended(v, client[v].of)'
    BY DEF InService
  <2>1. v \in Serving \ (closed \cup overlooked) /\ client'[v] = client[v] /\ v \in Clients /\ v # c
    BY <1>3 DEF Serving
  <2>2. PICK x \in Records : x = client[v].of /\ Attended(v, x)
    BY <1>0, <2>1 DEF InService, Connected, Serving
  <2>3. Detached(v, x) => Detached(v, x)'
    <3> SUFFICES ASSUME NEW d \in Closers \ Clients, Begun(d), closer[d].of = x, closer[d].saw = v
                 PROVE  Detached(v, x)'
      BY DEF Detached
    <3>1. d # c
      BY <1>3, <2>1
    <3>2. closer'[d] = closer[d]
      BY <1>2, <3>1
    <3> QED BY <3>2 DEF Detached, Begun
  <2>4. Attended(v, x)'
    BY <1>1, <1>7, <2>2, <2>3 DEF Attended, Whole
  <2> QED BY <2>1, <2>2, <2>4
<1> QED BY <1>4, <1>5, <1>6, <1>8, <1>9, <1>10 DEF TermInv

LEMMA TermInvStep == TermInv /\ [TerminalNext]_termVars => TermInv'
<1> SUFFICES ASSUME TermInv, [TerminalNext]_termVars PROVE TermInv'
  OBVIOUS
<1>1. CASE UNCHANGED termVars
  <2>1. UNCHANGED <<registered, record, pty, client, closed, closer, sandboxGone, touched, stuck,
                    overlooked, stops>>
    BY <1>1 DEF termVars
  <2>2. TermTyped' /\ Connected' /\ Closing'
    BY <2>1 DEF TermInv, TermTyped, Connected, Closing
  <2>3. Shells' /\ Untouched'
    BY <2>1, SameClosers DEF TermInv, Shells, Untouched, Whole
  <2>4. InService'
    BY <2>1 DEF TermInv, InService, Serving, Attended, Detached, Asked, Begun, Whole
  <2> QED BY <2>2, <2>3, <2>4 DEF TermInv
<1> QED
  BY <1>1, ConnectKeeps, InitialiseKeeps, AttachersKeep, LeaveKeeps, ClosesBegin, InputFailsKeeps,
     ClosersMove, ClosersEnd
  DEF TerminalNext

(* A terminal has one PTY at a time, a new connection finds no dead shell that nobody is closing,
   and a socket that asked for the terminal shows the output of a live shell, in whatever order
   sockets come, take over and leave, and shells exit (terminal.py). *)
THEOREM TerminalIsSafe == TerminalSpec => []TerminalSafe
BY TermInvInit, TermInvSafe, TermInvStep, PTL DEF TerminalSpec

(* Records, PTYs, sockets and closers keep their types; exactly the sockets that start or resize
   a shell hold the lock of its record. *)
THEOREM TerminalTypes == TerminalSpec => []TerminalTypeOK
BY TermInvInit, TermInvTypes, TermInvStep, PTL DEF TerminalSpec

-----------------------------------------------------------------------------
(* PaneLayout *)

(* A screen as ui.types.ts wants it, with the focus where it belongs. *)
Screens == [tabs : SUBSET Tiles, visible : Seq(Tiles), split : Seq(Threads), active : Slots,
            focused : Tiles \cup {NoTile}]
Distinct(s) == \A i, j \in DOMAIN s : s[i] = s[j] => i = j
Sane(u) ==
    /\ u \in Screens /\ Len(u.split) < MaxPanes /\ Distinct(u.split) /\ Distinct(u.visible)
    /\ Primary \in u.tabs /\ u.visible # <<>> /\ TilesOf(u.visible) \subseteq u.tabs
    /\ \A t \in u.tabs : Slot(t) <= Len(u.split)
    /\ u.focused # NoTile => u.active = Slot(u.focused)
    /\ u.active <= Len(u.split)

(* Every split chat has its pane in the title bar. *)
Reachable(u) == \A i \in DOMAIN u.split : Agent(i) \in u.tabs

PaneInv ==
    /\ Sane(screen)
    /\ page \in Threads \cup Channels \cup {"landing", "elsewhere"}
    /\ workspace \in Threads \cup Channels \cup {NoneLoaded}
    /\ wide \in BOOLEAN /\ due \in BOOLEAN /\ erased \subseteq Threads
    /\ SplitsShown /\ NoResurrection

LEMMA PaneInvSafe == PaneInv => PaneTypeOK /\ LayoutSafe
<1> SUFFICES ASSUME PaneInv PROVE PaneTypeOK /\ LayoutSafe
  OBVIOUS
<1> USE DEF PaneInv, Sane, Screens
<1>1. PaneTypeOK
  BY DEF PaneTypeOK, NoResurrection
<1>2. LayoutSane
  BY DEF LayoutSane, Distinct
<1>3. FocusCoherent
  BY DEF FocusCoherent
<1> QED BY <1>1, <1>2, <1>3 DEF LayoutSafe

(* Tiles. *)
LEMMA TileFacts ==
    /\ \A t \in Tiles : Slot(t) \in Slots /\ t = <<t[1], Slot(t)>> /\ t[1] \in {"agent"} \cup SideViews
    /\ \A n \in Slots : Agent(n) \in Tiles /\ Slot(Agent(n)) = n
    /\ \A v \in SideViews : \A n \in Slots : <<v, n>> \in Tiles /\ Slot(<<v, n>>) = n
                                              /\ \A m \in Slots : <<v, n>> # Agent(m)
    /\ Primary \in Tiles /\ Slot(Primary) = 0 /\ 0 \in Slots
    /\ Slot(NoTile) = 0
BY PaneAssumption DEF Tiles, Slots, Slot, Agent, Primary, NoTile

(* The elements of a sequence that are in a set, in their order. *)
LEMMA WithinFacts ==
    ASSUME NEW S, NEW s \in Seq(S), NEW T
    PROVE  /\ Within(s, T) \in Seq(S) /\ Within(s, T) \in Seq(S \cap T)
           /\ TilesOf(Within(s, T)) = TilesOf(s) \cap T
           /\ Distinct(s) => Distinct(Within(s, T))
           /\ Len(Within(s, T)) \in Nat /\ DOMAIN Within(s, T) = 1..Len(Within(s, T))
           /\ (\E i \in DOMAIN s : s[i] \notin T) => Len(Within(s, T)) < Len(s)
           /\ Len(Within(s, T)) <= Len(s)
<1> DEFINE I == {i \in DOMAIN s : s[i] \in T}
           p == Picked(s, I)
           n == Cardinality(I)
<1>1. I \subseteq DOMAIN s /\ DOMAIN s = 1..Len(s) /\ Len(s) \in Nat /\ Within(s, T) = p
  BY DEF Within
<1> HIDE DEF I
<1>2. /\ IsFiniteSet(I) /\ n \in Nat /\ p \in Seq(S) /\ Len(p) = n /\ DOMAIN p = 1..n
      /\ \A k \in 1..n : InOrder(I)[k] \in I /\ p[k] = s[InOrder(I)[k]]
      /\ I \subseteq Nat
  BY <1>1, PickedLists
<1>3. /\ DOMAIN InOrder(I) = 1..n
      /\ \A j, k \in 1..n : j < k => InOrder(I)[j] < InOrder(I)[k]
      /\ \A i \in I : \E k \in 1..n : InOrder(I)[k] = i
  <2>1. /\ DOMAIN InOrder(I) = 1..Cardinality(I)
        /\ \A j, k \in DOMAIN InOrder(I) : j < k => InOrder(I)[j] < InOrder(I)[k]
        /\ \A i \in I : \E k \in DOMAIN InOrder(I) : InOrder(I)[k] = i
    BY <1>2, InOrderLists, Zenon
  <2> QED BY <2>1
<1> HIDE DEF p, n
<1>4. \A k \in 1..n : p[k] \in S \cap T
  <2> TAKE k \in 1..n
  <2>1. InOrder(I)[k] \in DOMAIN s /\ p[k] = s[InOrder(I)[k]] /\ s[InOrder(I)[k]] \in T
    BY <1>2 DEF I
  <2>2. s[InOrder(I)[k]] \in S
    BY <1>1, <2>1, ElementOfSeq
  <2> QED BY <2>1, <2>2
<1>5. p \in Seq(S \cap T)
  BY <1>2, <1>4
<1>6. TilesOf(p) = TilesOf(s) \cap T
  <2>1. ASSUME NEW k \in 1..n PROVE p[k] \in TilesOf(s) \cap T
    BY <1>1, <1>2 DEF I, TilesOf
  <2>2. ASSUME NEW i \in DOMAIN s, s[i] \in T PROVE s[i] \in TilesOf(p)
    <3>1. PICK k \in 1..n : InOrder(I)[k] = i
      BY <1>3, <2>2 DEF I
    <3> QED BY <1>2, <3>1 DEF TilesOf
  <2> QED BY <1>2, <2>1, <2>2 DEF TilesOf
<1>7. Distinct(s) => Distinct(p)
  <2> SUFFICES ASSUME Distinct(s), NEW j \in 1..n, NEW k \in 1..n, p[j] = p[k] PROVE j = k
    BY <1>2 DEF Distinct
  <2>1. InOrder(I)[j] = InOrder(I)[k]
    BY <1>1, <1>2 DEF Distinct
  <2>2. ~(j < k) /\ ~(k < j)
    <3>1. InOrder(I)[j] \in Nat
      BY <1>2
    <3> QED BY <1>3, <2>1, <3>1
  <2> QED BY <1>2, <2>2
<1>8. n <= Len(s) /\ (I # DOMAIN s => n < Len(s))
  <2>1. IsFiniteSet(DOMAIN s) /\ Cardinality(DOMAIN s) = Len(s)
    <3>1. IsFiniteSet(1..Len(s)) /\ Cardinality(1..Len(s)) = IF 1 > Len(s) THEN 0 ELSE Len(s) - 1 + 1
      BY <1>1, FS_Interval
    <3> QED BY <1>1, <3>1
  <2>2. Cardinality(I) <= Cardinality(DOMAIN s)
        /\ (Cardinality(I) = Cardinality(DOMAIN s) => I = DOMAIN s)
    BY <1>1, <2>1, FS_Subset
  <2> QED BY <1>1, <1>2, <2>1, <2>2 DEF n
<1>9. (\E i \in DOMAIN s : s[i] \notin T) => I # DOMAIN s
  BY DEF I
<1> QED BY <1>1, <1>2, <1>5, <1>6, <1>7, <1>8, <1>9

(* What the operations of the store keep. *)
LEMMA SaneFacts ==
    ASSUME NEW u, Sane(u)
    PROVE  /\ u \in Screens /\ u.tabs \subseteq Tiles /\ u.visible \in Seq(Tiles) /\ u.split \in Seq(Threads)
           /\ u.active \in Slots /\ u.focused \in Tiles \cup {NoTile}
           /\ Len(u.visible) \in Nat /\ DOMAIN u.visible = 1..Len(u.visible)
           /\ Len(u.split) \in Nat /\ DOMAIN u.split = 1..Len(u.split) /\ Len(u.split) \in Slots
           /\ Len(u.visible) # 0 /\ Final(u.visible) \in u.tabs /\ Head(u.visible) \in u.tabs
           /\ Head(u.visible) \in TilesOf(u.visible)
<1>1. /\ u \in Screens /\ u.tabs \subseteq Tiles /\ u.visible \in Seq(Tiles) /\ u.split \in Seq(Threads)
      /\ u.active \in Slots /\ u.focused \in Tiles \cup {NoTile}
      /\ Len(u.split) < MaxPanes /\ u.visible # <<>> /\ TilesOf(u.visible) \subseteq u.tabs
  BY DEF Sane, Screens
<1>2. /\ Len(u.visible) \in Nat /\ DOMAIN u.visible = 1..Len(u.visible)
      /\ Len(u.split) \in Nat /\ DOMAIN u.split = 1..Len(u.split) /\ Len(u.split) \in Slots
  BY <1>1, PaneAssumption, LenProperties DEF Slots
<1>3. Len(u.visible) # 0
  BY <1>1, EmptySeq
<1>4. Len(u.visible) \in DOMAIN u.visible /\ 1 \in DOMAIN u.visible
  BY <1>2, <1>3
<1>5. Final(u.visible) \in TilesOf(u.visible) /\ Head(u.visible) \in TilesOf(u.visible)
  <2>1. Head(u.visible) = u.visible[1]
    BY <1>1, HeadTailProperties
  <2> QED BY <1>4, <2>1 DEF Final, TilesOf
<1> QED BY <1>1, <1>2, <1>3, <1>5

LEMMA Refocused ==
    ASSUME NEW A, NEW B, NEW C, NEW D, NEW E, NEW a \in D, NEW f \in E,
           NEW u \in [tabs : A, visible : B, split : C, active : D, focused : E]
    PROVE  LET w == [u EXCEPT !.active = a, !.focused = f]
               x == [u EXCEPT !.focused = f, !.active = a]
           IN  /\ w \in [tabs : A, visible : B, split : C, active : D, focused : E]
               /\ w.tabs = u.tabs /\ w.visible = u.visible /\ w.split = u.split
               /\ w.active = a /\ w.focused = f /\ x = w
OBVIOUS

LEMMA FocusOnSane ==
    ASSUME NEW u, Sane(u), NEW t \in Tiles, Slot(t) <= Len(u.split)
    PROVE  /\ Sane(FocusOn(u, t)) /\ Sane(Focused(u, t))
           /\ FocusOn(u, t).split = u.split /\ Focused(u, t).split = u.split
           /\ FocusOn(u, t).tabs = u.tabs /\ Focused(u, t).tabs = u.tabs
<1>1. Slot(t) \in Slots
  BY TileFacts
<1> DEFINE w == FocusOn(u, t)
<1>2. /\ w \in Screens /\ w.tabs = u.tabs /\ w.visible = u.visible /\ w.split = u.split
      /\ w.active = Slot(t) /\ w.focused = t
  <2>1. u \in Screens /\ t \in Tiles \cup {NoTile}
    BY SaneFacts
  <2> QED BY <1>1, <2>1, Refocused DEF FocusOn, Screens
<1> HIDE DEF w
<1>3. Sane(w)
  BY <1>2 DEF Sane
<1> QED BY <1>2, <1>3 DEF Focused, w

(* Only one tile is shown, one that is open. *)
LEMMA ShowOnlySane ==
    ASSUME NEW u, Sane(u), NEW t \in u.tabs
    PROVE  /\ Sane(ShowOnly(u, t)) /\ ShowOnly(u, t).split = u.split /\ ShowOnly(u, t).tabs = u.tabs
<1> DEFINE w == [u EXCEPT !.visible = <<t>>]
<1>1. t \in Tiles /\ Slot(t) <= Len(u.split)
  BY SaneFacts DEF Sane
<1>2. <<t>> \in Seq(Tiles) /\ Distinct(<<t>>) /\ TilesOf(<<t>>) = {t} /\ <<t>> # <<>>
  BY <1>1 DEF Distinct, TilesOf
<1>3. /\ w \in Screens /\ w.tabs = u.tabs /\ w.visible = <<t>> /\ w.split = u.split
      /\ w.active = u.active /\ w.focused = u.focused
  BY <1>2, SaneFacts DEF Screens
<1> HIDE DEF w
<1>4. Sane(w)
  BY <1>2, <1>3 DEF Sane
<1> QED BY <1>1, <1>3, <1>4, FocusOnSane DEF ShowOnly, w

LEMMA OpenTileSane ==
    ASSUME NEW u, Sane(u), NEW t \in Tiles, Slot(t) <= Len(u.split)
    PROVE  /\ Sane(OpenTile(u, t)) /\ OpenTile(u, t).split = u.split
           /\ OpenTile(u, t).tabs = u.tabs \cup {t} /\ OpenTile(u, t).visible = u.visible
           /\ Sane(Beside(OpenTile(u, t), t)) /\ Beside(OpenTile(u, t), t).split = u.split
           /\ Beside(OpenTile(u, t), t).tabs = u.tabs \cup {t}
<1> DEFINE w == OpenTile(u, t)
           x == Beside(w, t)
           more == IF t \in TilesOf(u.visible) THEN u.visible ELSE Append(u.visible, t)
<1>1. /\ w \in Screens /\ w.tabs = u.tabs \cup {t} /\ w.visible = u.visible /\ w.split = u.split
      /\ w.active = u.active /\ w.focused = u.focused
  BY SaneFacts DEF Screens, OpenTile
<1> HIDE DEF w
<1>2. Sane(w)
  BY <1>1, SaneFacts DEF Sane
<1>3. /\ more \in Seq(Tiles) /\ more # <<>> /\ TilesOf(more) \subseteq u.tabs \cup {t} /\ Distinct(more)
  <2>1. CASE t \in TilesOf(u.visible)
    BY <2>1, SaneFacts DEF Sane
  <2>2. CASE t \notin TilesOf(u.visible)
    <3>1. more = Append(u.visible, t) /\ u.visible \in Seq(Tiles) /\ Len(u.visible) \in Nat
      BY <2>2, SaneFacts
    <3> HIDE DEF more
    <3>2. /\ more \in Seq(Tiles) /\ more # <<>> /\ DOMAIN more = 1..(Len(u.visible) + 1)
          /\ more[Len(u.visible) + 1] = t
          /\ \A i \in DOMAIN u.visible : more[i] = u.visible[i]
      BY <3>1, SaneFacts, AppendProperties
    <3>3. \A i \in DOMAIN more : i \in DOMAIN u.visible \/ i = Len(u.visible) + 1
      BY <3>1, <3>2, SaneFacts
    <3>4. TilesOf(more) \subseteq u.tabs \cup {t}
      BY <3>2, <3>3 DEF Sane, TilesOf
    <3>5. Distinct(more)
      BY <2>2, <3>2, <3>3 DEF Sane, Distinct, TilesOf
    <3> QED BY <3>2, <3>4, <3>5
  <2> QED BY <2>1, <2>2
<1> HIDE DEF more
<1>4. /\ x \in Screens /\ x.tabs = w.tabs /\ x.visible = more /\ x.split = u.split
      /\ x.active = u.active /\ x.focused = u.focused
  BY <1>1, <1>3 DEF Screens, Beside, more
<1> HIDE DEF x
<1>5. Sane(x)
  BY <1>1, <1>2, <1>3, <1>4 DEF Sane
<1> QED BY <1>1, <1>2, <1>4, <1>5 DEF w, x

LEMMA UnfocusedSane ==
    ASSUME NEW u, Sane(u)
    PROVE  Sane(Unfocused(u)) /\ Unfocused(u).split = u.split /\ Unfocused(u).tabs = u.tabs
<1> DEFINE w == Unfocused(u)
<1>1. /\ w \in Screens /\ w.tabs = u.tabs /\ w.visible = u.visible /\ w.split = u.split
      /\ w.active = 0 /\ w.focused = NoTile
  <2>1. u \in Screens /\ 0 \in Slots /\ NoTile \in Tiles \cup {NoTile}
    BY SaneFacts, TileFacts
  <2> QED BY <2>1, Refocused DEF Unfocused, Screens
<1> HIDE DEF w
<1>2. Sane(w)
  BY <1>1, SaneFacts DEF Sane
<1> QED BY <1>1, <1>2 DEF w

(* The grid of all agents. *)
LEMMA RebuiltSane ==
    ASSUME NEW u, u \in Screens, Len(u.split) < MaxPanes, Distinct(u.split), Primary \in u.tabs,
           \A t \in u.tabs : Slot(t) <= Len(u.split),
           u.focused # NoTile => u.active = Slot(u.focused), u.active <= Len(u.split)
    PROVE  Sane(Rebuilt(u)) /\ Reachable(Rebuilt(u)) /\ Rebuilt(u).split = u.split
<1> DEFINE n == Len(u.split)
           grid == [i \in 1..(n + 1) |-> Agent(i - 1)]
           w == Rebuilt(u)
<1>1. n \in Nat /\ n < MaxPanes /\ u.split \in Seq(Threads) /\ DOMAIN u.split = 1..n /\ MaxPanes \in Nat
  BY PaneAssumption, LenProperties DEF Screens
<1> HIDE DEF n
<1>2. \A i \in 1..(n + 1) : Agent(i - 1) \in Tiles /\ Slot(Agent(i - 1)) = i - 1
  BY <1>1, TileFacts DEF Slots
<1>3. grid \in Seq(Tiles) /\ DOMAIN grid = 1..(n + 1) /\ \A i \in 1..(n + 1) : grid[i] = Agent(i - 1)
  BY <1>1, <1>2
<1> HIDE DEF grid
<1>4. Distinct(grid) /\ grid # <<>>
  BY <1>1, <1>2, <1>3 DEF Distinct
<1>5. /\ TilesOf(grid) \subseteq Tiles /\ \A t \in TilesOf(grid) : Slot(t) <= n
      /\ \A i \in 1..n : Agent(i) \in TilesOf(grid)
  <2>1. \A i \in 1..n : i + 1 \in 1..(n + 1) /\ Agent((i + 1) - 1) = Agent(i)
    BY <1>1
  <2>2. \A i \in 1..(n + 1) : i - 1 <= n
    BY <1>1
  <2> QED BY <1>2, <1>3, <2>1, <2>2 DEF TilesOf
<1>6. /\ w \in Screens /\ w.tabs = u.tabs \cup TilesOf(grid) /\ w.visible = grid /\ w.split = u.split
      /\ w.active = u.active /\ w.focused = u.focused
  BY <1>3, <1>5 DEF Screens, Rebuilt, grid, n
<1> HIDE DEF w
<1>7. Sane(w)
  BY <1>4, <1>5, <1>6 DEF Sane, n
<1>8. Reachable(w)
  BY <1>1, <1>5, <1>6 DEF Reachable
<1> QED BY <1>6, <1>7, <1>8 DEF w

LEMMA Retiled ==
    ASSUME NEW A, NEW B, NEW C, NEW D, NEW E, NEW a \in A, NEW b \in B,
           NEW u \in [tabs : A, visible : B, split : C, active : D, focused : E]
    PROVE  LET w == [u EXCEPT !.tabs = a, !.visible = b]
           IN  /\ w \in [tabs : A, visible : B, split : C, active : D, focused : E]
               /\ w.tabs = a /\ w.visible = b /\ w.split = u.split
               /\ w.active = u.active /\ w.focused = u.focused
OBVIOUS

(* A tab of a side view is closed. *)
LEMMA RemoveTabSane ==
    ASSUME NEW u, Sane(u), NEW v \in SideViews, NEW n \in Slots
    PROVE  LET w == RemoveTab(u, <<v, n>>)
           IN  /\ Sane(w) /\ w.split = u.split
               /\ \A m \in Slots : Agent(m) \in u.tabs => Agent(m) \in w.tabs
<1> DEFINE t == <<v, n>>
           rest == Within(u.visible, Tiles \ {t})
           owner == IF Agent(Slot(t)) \in u.tabs THEN Agent(Slot(t)) ELSE Primary
           s == IF rest = <<>> THEN <<owner>> ELSE rest
           w == [u EXCEPT !.tabs = @ \ {t}, !.visible = s]
<1>1. t \in Tiles /\ (\A m \in Slots : t # Agent(m)) /\ t # Primary
  BY TileFacts DEF Primary
<1>2. owner \in u.tabs /\ owner # t
  BY <1>1, TileFacts DEF Sane
<1> HIDE DEF owner, t
<1>3. /\ rest \in Seq(Tiles) /\ TilesOf(rest) = TilesOf(u.visible) \cap (Tiles \ {t}) /\ Distinct(rest)
  BY SaneFacts, WithinFacts DEF Sane
<1> HIDE DEF rest
<1>4. s \in Seq(Tiles) /\ s # <<>> /\ TilesOf(s) \subseteq u.tabs \ {t} /\ Distinct(s)
  <2>1. CASE rest = <<>>
    <3>1. s = <<owner>>
      BY <2>1
    <3>2. owner \in Tiles
      BY <1>2, SaneFacts
    <3> HIDE DEF s
    <3>3. TilesOf(s) = {owner} /\ Distinct(s) /\ s # <<>> /\ s \in Seq(Tiles)
      BY <3>1, <3>2 DEF TilesOf, Distinct
    <3> QED BY <1>2, <3>3
  <2>2. CASE rest # <<>>
    BY <1>3, <2>2 DEF Sane
  <2> QED BY <2>1, <2>2
<1> HIDE DEF s
<1>5. /\ w \in Screens /\ w.tabs = u.tabs \ {t} /\ w.visible = s /\ w.split = u.split
      /\ w.active = u.active /\ w.focused = u.focused
  <2>1. u \in Screens /\ u.tabs \ {t} \in SUBSET Tiles
    BY SaneFacts
  <2> QED BY <1>4, <2>1, Retiled DEF Screens
<1> HIDE DEF w
<1>6. Sane(w)
  BY <1>1, <1>4, <1>5 DEF Sane
<1>7. Final(s) \in Tiles /\ Slot(Final(s)) <= Len(w.split)
  <2>1. Final(s) \in w.tabs
    BY <1>5, <1>6, SaneFacts
  <2> QED BY <1>6, <2>1, SaneFacts DEF Sane
<1>8. Sane(FocusOn(w, Final(s))) /\ FocusOn(w, Final(s)).split = u.split /\ FocusOn(w, Final(s)).tabs = w.tabs
  BY <1>5, <1>6, <1>7, FocusOnSane
<1>9. RemoveTab(u, t) = IF u.focused = t THEN FocusOn(w, Final(s)) ELSE w
  BY DEF RemoveTab, w, s, rest, owner
<1> QED BY <1>1, <1>5, <1>6, <1>8, <1>9 DEF t

(* Every split is closed. *)
LEMMA CloseAllSane ==
    ASSUME NEW u, Sane(u)
    PROVE  Sane(CloseAll(u)) /\ CloseAll(u).split = <<>> /\ (u.split = <<>> => CloseAll(u) = u)
<1> DEFINE T == {t \in Tiles : Slot(t) = 0}
           rest == Within(u.visible, T)
           v == NotEmpty(rest)
           w == [tabs |-> {t \in u.tabs : Slot(t) = 0}, visible |-> v, split |-> <<>>,
                 active |-> 0, focused |-> NoTile]
<1>1. u.split = <<>> => \A t \in u.tabs : Slot(t) = 0
  <2> SUFFICES ASSUME u.split = <<>>, NEW t \in u.tabs PROVE Slot(t) = 0
    OBVIOUS
  <2>1. Len(u.split) = 0 /\ Slot(t) \in Nat /\ Slot(t) <= Len(u.split)
    BY PaneAssumption, TileFacts, SaneFacts DEF Sane, Slots
  <2> QED BY <2>1
<1>2. CloseAll(u) = IF u.split = <<>> THEN u ELSE w
  BY <1>1 DEF CloseAll
<1>3. rest \in Seq(Tiles) /\ TilesOf(rest) = TilesOf(u.visible) \cap T /\ Distinct(rest)
  BY SaneFacts, WithinFacts DEF Sane
<1> HIDE DEF rest
<1>4. /\ v \in Seq(Tiles) /\ v # <<>> /\ Distinct(v)
      /\ TilesOf(v) \subseteq {t \in u.tabs : Slot(t) = 0}
  <2>1. CASE rest = <<>>
    <3>1. v = <<Primary>> /\ Primary \in Tiles /\ Slot(Primary) = 0 /\ Primary \in u.tabs
      BY <2>1, TileFacts DEF NotEmpty, Sane
    <3> QED BY <3>1 DEF TilesOf, Distinct
  <2>2. CASE rest # <<>>
    BY <1>3, <2>2 DEF NotEmpty, Sane
  <2> QED BY <2>1, <2>2
<1> HIDE DEF v
<1>5. /\ w \in Screens /\ w.tabs = {t \in u.tabs : Slot(t) = 0} /\ w.visible = v /\ w.split = <<>>
      /\ w.active = 0 /\ w.focused = NoTile
  <2>1. {t \in u.tabs : Slot(t) = 0} \subseteq Tiles /\ 0 \in Slots /\ NoTile \in Tiles \cup {NoTile}
        /\ <<>> \in Seq(Threads)
    BY SaneFacts, TileFacts
  <2> QED BY <1>4, <2>1 DEF Screens
<1> HIDE DEF w
<1>6. Len(<<>>) = 0 /\ Distinct(<<>>) /\ 0 < MaxPanes
  BY PaneAssumption DEF Distinct
<1>7. Sane(w)
  <2>1. \A t \in w.tabs : Slot(t) <= Len(w.split)
    BY <1>5, <1>6
  <2>2. Primary \in w.tabs
    BY <1>5, TileFacts DEF Sane
  <2> QED BY <1>4, <1>5, <1>6, <2>1, <2>2 DEF Sane
<1> QED BY <1>2, <1>5, <1>7

(* One chat leaves the split. *)
LEMMA WithoutOne ==
    ASSUME NEW S, NEW s \in Seq(S), Distinct(s), NEW k \in DOMAIN s
    PROVE  Len(Within(s, S \ {s[k]})) = Len(s) - 1
<1> DEFINE I == {i \in DOMAIN s : s[i] \in S \ {s[k]}}
<1>1. DOMAIN s = 1..Len(s) /\ Len(s) \in Nat
  OBVIOUS
<1>2. I = (1..Len(s)) \ {k}
  <2>1. \A i \in DOMAIN s : s[i] \in S
    BY ElementOfSeq
  <2> QED BY <1>1, <2>1 DEF Distinct
<1>3. IsFiniteSet(1..Len(s)) /\ Cardinality(1..Len(s)) = Len(s)
  <2>1. IsFiniteSet(1..Len(s)) /\ Cardinality(1..Len(s)) = IF 1 > Len(s) THEN 0 ELSE Len(s) - 1 + 1
    BY <1>1, FS_Interval
  <2> QED BY <1>1, <2>1
<1>4. Cardinality(I) = Len(s) - 1
  BY <1>1, <1>2, <1>3, FS_RemoveElement
<1>5. Within(s, S \ {s[k]}) = Picked(s, I)
  BY DEF Within
<1> HIDE DEF I
<1>6. I \subseteq DOMAIN s
  BY DEF I
<1>7. Len(Picked(s, I)) = Cardinality(I)
  BY <1>1, <1>6, PickedLists
<1> QED BY <1>4, <1>5, <1>7

(* The tiles behind the slot that closes move up, and none takes another's place. *)
LEMMA Compacts ==
    ASSUME NEW n \in Slots, NEW k \in 1..n
    PROVE  /\ \A t \in Tiles : /\ CompactAfter(t, k) \in Tiles
                               /\ Slot(CompactAfter(t, k)) =
                                      IF Slot(t) > k THEN Slot(t) - 1 ELSE Slot(t)
                               /\ Slot(t) <= n /\ Slot(t) # k => Slot(CompactAfter(t, k)) <= n - 1
           /\ \A s, t \in Tiles : Slot(s) # k /\ Slot(t) # k /\ CompactAfter(s, k) = CompactAfter(t, k)
                                      => s = t
           /\ CompactAfter(Primary, k) = Primary /\ CompactAfter(NoTile, k) = NoTile
           /\ \A m \in Slots : Slot(CompactAfter(Agent(m), k)) = IF m > k THEN m - 1 ELSE m
<1>1. n \in Nat /\ k \in Nat /\ 1 <= k /\ k <= n /\ MaxPanes \in Nat /\ n < MaxPanes
  BY PaneAssumption DEF Slots
<1>2. \A t \in Tiles : /\ Slot(t) \in Nat /\ Slot(t) < MaxPanes
                       /\ t[1] \in {"agent"} \cup SideViews /\ t = <<t[1], Slot(t)>>
  BY <1>1, TileFacts DEF Slots
<1>3. \A t \in Tiles : Slot(t) > k => /\ <<t[1], Slot(t) - 1>> \in Tiles
                                      /\ Slot(<<t[1], Slot(t) - 1>>) = Slot(t) - 1
  <2> SUFFICES ASSUME NEW t \in Tiles, Slot(t) > k
               PROVE  <<t[1], Slot(t) - 1>> \in Tiles /\ Slot(<<t[1], Slot(t) - 1>>) = Slot(t) - 1
    OBVIOUS
  <2>1. Slot(t) - 1 \in Slots
    BY <1>1, <1>2 DEF Slots
  <2> QED BY <1>2, <2>1 DEF Tiles, Slot
<1>4. \A t \in Tiles : /\ CompactAfter(t, k) \in Tiles
                       /\ Slot(CompactAfter(t, k)) = IF Slot(t) > k THEN Slot(t) - 1 ELSE Slot(t)
  BY <1>3 DEF CompactAfter
<1>5. \A t \in Tiles : Slot(t) <= n /\ Slot(t) # k => Slot(CompactAfter(t, k)) <= n - 1
  BY <1>1, <1>2, <1>4
<1>6. \A t \in Tiles : CompactAfter(t, k)[1] = t[1]
  BY DEF CompactAfter
<1>7. ASSUME NEW s \in Tiles, NEW t \in Tiles, Slot(s) # k, Slot(t) # k,
             CompactAfter(s, k) = CompactAfter(t, k)
      PROVE  s = t
  <2>1. Slot(CompactAfter(s, k)) = Slot(CompactAfter(t, k)) /\ s[1] = t[1]
    BY <1>6, <1>7
  <2>2. Slot(s) = Slot(t)
    BY <1>1, <1>2, <1>4, <1>7, <2>1
  <2> QED BY <1>2, <2>1, <2>2
<1>8. CompactAfter(Primary, k) = Primary /\ CompactAfter(NoTile, k) = NoTile
  BY <1>1, TileFacts DEF CompactAfter
<1>9. \A m \in Slots : Slot(CompactAfter(Agent(m), k)) = IF m > k THEN m - 1 ELSE m
  BY <1>4, TileFacts
<1> QED BY <1>4, <1>5, <1>7, <1>8, <1>9

(* The split of one chat is closed. *)
LEMMA CloseOneSane ==
    ASSUME NEW u, Sane(u), NEW c \in Threads
    PROVE  /\ Sane(CloseOne(u, c))
           /\ CloseOne(u, c) = u \/ CloseOne(u, c).split # u.split
<1> DEFINE k == CHOOSE i \in DOMAIN u.split : u.split[i] = c
           n == Len(u.split)
           left == Within(u.visible, {t \in Tiles : Slot(t) # k})
           moved == [i \in DOMAIN left |-> CompactAfter(left[i], k)]
           v == NotEmpty(moved)
           tabs == {CompactAfter(t, k) : t \in {s \in u.tabs : Slot(s) # k}}
           split == Within(u.split, Threads \ {c})
           active == IF u.active = k THEN 0 ELSE Slot(CompactAfter(Agent(u.active), k))
           w == [tabs |-> tabs, visible |-> v, split |-> split, active |-> active,
                 focused |-> CompactAfter(u.focused, k)]
<1> SUFFICES ASSUME c \in TilesOf(u.split)
             PROVE  Sane(CloseOne(u, c)) /\ CloseOne(u, c).split # u.split
  BY DEF CloseOne
<1>1. k \in DOMAIN u.split /\ u.split[k] = c
  BY DEF TilesOf
<1>2. CloseOne(u, c) = IF u.focused # NoTile /\ Slot(u.focused) = k THEN FocusOn(w, Final(v)) ELSE w
  BY DEF CloseOne
<1>3. /\ n \in Slots /\ k \in 1..n /\ n \in Nat /\ n < MaxPanes /\ MaxPanes \in Nat /\ k \in Nat
      /\ 1 <= k /\ k <= n
  BY <1>1, SaneFacts, PaneAssumption DEF Sane
<1> HIDE DEF k
<1>4. split \in Seq(Threads) /\ Distinct(split) /\ Len(split) = n - 1
  <2>1. u.split \in Seq(Threads) /\ Distinct(u.split)
    BY SaneFacts DEF Sane
  <2>2. split \in Seq(Threads) /\ Distinct(split)
    BY <2>1, WithinFacts
  <2> QED BY <1>1, <2>1, <2>2, WithoutOne
<1> HIDE DEF n, split
<1>5. /\ left \in Seq({t \in Tiles : Slot(t) # k}) /\ TilesOf(left) \subseteq u.tabs /\ Distinct(left)
      /\ DOMAIN left = 1..Len(left) /\ Len(left) \in Nat
  <2> DEFINE T == {t \in Tiles : Slot(t) # k}
  <2>1. T = Tiles \cap T
    OBVIOUS
  <2> HIDE DEF T
  <2>2. /\ Within(u.visible, T) \in Seq(Tiles \cap T) /\ Distinct(Within(u.visible, T))
        /\ TilesOf(Within(u.visible, T)) = TilesOf(u.visible) \cap T
        /\ DOMAIN Within(u.visible, T) = 1..Len(Within(u.visible, T))
        /\ Len(Within(u.visible, T)) \in Nat
    <3>1. u.visible \in Seq(Tiles) /\ Distinct(u.visible)
      BY SaneFacts DEF Sane
    <3> QED BY <3>1, WithinFacts
  <2>3. left = Within(u.visible, T)
    BY DEF T
  <2>4. T = {t \in Tiles : Slot(t) # k}
    BY DEF T
  <2> HIDE DEF left
  <2>5. TilesOf(u.visible) \subseteq u.tabs
    BY DEF Sane
  <2> QED BY <2>1, <2>2, <2>3, <2>4, <2>5
<1> HIDE DEF left
<1>6. \A i \in DOMAIN left : left[i] \in Tiles /\ Slot(left[i]) # k /\ left[i] \in u.tabs
  <2> TAKE i \in DOMAIN left
  <2>1. left[i] \in {t \in Tiles : Slot(t) # k}
    BY <1>5, ElementOfSeq
  <2> QED BY <1>5, <2>1 DEF TilesOf
<1>7. /\ moved \in Seq(Tiles) /\ Distinct(moved) /\ TilesOf(moved) \subseteq tabs
  <2>1. DOMAIN moved = 1..Len(left) /\ \A i \in DOMAIN left : moved[i] = CompactAfter(left[i], k)
    BY <1>5
  <2> HIDE DEF moved
  <2>2. \A i \in DOMAIN left : moved[i] \in Tiles /\ moved[i] \in tabs
    BY <1>3, <1>6, <2>1, Compacts
  <2>3. moved = [i \in 1..Len(left) |-> moved[i]]
    BY <1>5 DEF moved
  <2>4. moved \in Seq(Tiles)
    BY <1>5, <2>1, <2>2, <2>3
  <2>5. Distinct(moved)
    <3> SUFFICES ASSUME NEW i \in DOMAIN left, NEW j \in DOMAIN left, moved[i] = moved[j] PROVE i = j
      BY <1>5, <2>1 DEF Distinct
    <3>1. left[i] = left[j]
      BY <1>3, <1>6, <2>1, Compacts
    <3> QED BY <1>5, <3>1 DEF Distinct
  <2>6. TilesOf(moved) \subseteq tabs
    BY <1>5, <2>1, <2>2 DEF TilesOf
  <2> QED BY <2>4, <2>5, <2>6
<1>8. tabs \subseteq Tiles /\ Primary \in tabs /\ \A t \in tabs : Slot(t) <= n - 1
  <2>1. Primary \in u.tabs /\ Slot(Primary) # k /\ CompactAfter(Primary, k) = Primary
    BY <1>3, TileFacts, Compacts DEF Sane
  <2>2. ASSUME NEW t \in u.tabs, Slot(t) # k
        PROVE  CompactAfter(t, k) \in Tiles /\ Slot(CompactAfter(t, k)) <= n - 1
    <3>1. t \in Tiles /\ Slot(t) <= n
      BY SaneFacts DEF Sane, n
    <3> QED BY <1>3, <2>2, <3>1, Compacts
  <2> QED BY <2>1, <2>2
<1> HIDE DEF moved, tabs
<1>9. v \in Seq(Tiles) /\ v # <<>> /\ Distinct(v) /\ TilesOf(v) \subseteq tabs
  <2>1. CASE moved = <<>>
    <3>1. v = <<Primary>>
      BY <2>1 DEF NotEmpty
    <3> HIDE DEF v
    <3>2. v \in Seq(Tiles) /\ TilesOf(v) = {Primary} /\ Distinct(v) /\ v # <<>>
      BY <3>1, TileFacts DEF TilesOf, Distinct
    <3> QED BY <1>8, <3>2
  <2>2. CASE moved # <<>>
    BY <1>7, <2>2 DEF NotEmpty
  <2> QED BY <2>1, <2>2
<1> HIDE DEF v
<1>10. active \in Slots /\ active <= n - 1 /\ u.active \in Slots /\ u.active <= n
       /\ active = IF u.active = k THEN 0 ELSE IF u.active > k THEN u.active - 1 ELSE u.active
  <2>1. u.active \in Slots /\ u.active <= n /\ u.active \in Nat
    BY SaneFacts, PaneAssumption DEF Sane, n, Slots
  <2>2. active = IF u.active = k THEN 0 ELSE IF u.active > k THEN u.active - 1 ELSE u.active
    BY <1>3, <2>1, Compacts
  <2> HIDE DEF active
  <2>3. active \in 0..(n - 1)
    BY <1>3, <2>1, <2>2
  <2> QED BY <1>3, <2>1, <2>2, <2>3 DEF Slots
<1> HIDE DEF active
<1>11. CompactAfter(u.focused, k) \in Tiles \cup {NoTile}
  BY <1>3, SaneFacts, Compacts
<1>12. /\ w \in Screens /\ w.tabs = tabs /\ w.visible = v /\ w.split = split /\ w.active = active
       /\ w.focused = CompactAfter(u.focused, k)
  BY <1>4, <1>8, <1>9, <1>10, <1>11 DEF Screens
<1> HIDE DEF w
<1>13. split # u.split
  BY <1>3, <1>4 DEF n
<1>14. CASE u.focused # NoTile /\ Slot(u.focused) = k
  <2> DEFINE t == Final(v)
             x == FocusOn(w, t)
  <2>1. t \in tabs /\ t \in Tiles
    <3>1. Len(v) \in DOMAIN v
      BY <1>9, EmptySeq, LenProperties
    <3> QED BY <1>8, <1>9, <3>1 DEF Final, TilesOf
  <2> HIDE DEF t
  <2>2. Slot(t) \in Slots /\ t \in Tiles \cup {NoTile} /\ Slot(t) <= n - 1
    BY <1>8, <2>1, TileFacts
  <2>3. /\ x \in Screens /\ x.tabs = tabs /\ x.visible = v /\ x.split = split /\ x.active = Slot(t)
        /\ x.focused = t
    BY <1>12, <2>2, Refocused DEF FocusOn, Screens
  <2> HIDE DEF x
  <2>4. n - 1 < MaxPanes
    BY <1>3
  <2>5. Sane(x)
    BY <1>4, <1>8, <1>9, <2>2, <2>3, <2>4 DEF Sane
  <2> QED BY <1>2, <1>13, <1>14, <2>3, <2>5 DEF x, t
<1>15. CASE u.focused = NoTile \/ Slot(u.focused) # k
  <2>1. w.focused # NoTile => w.active = Slot(w.focused)
    <3> SUFFICES ASSUME w.focused # NoTile PROVE w.active = Slot(w.focused)
      OBVIOUS
    <3>1. u.focused # NoTile /\ u.focused \in Tiles
      BY <1>3, <1>12, SaneFacts, Compacts
    <3>2. u.active = Slot(u.focused) /\ u.active # k
      BY <1>15, <3>1 DEF Sane
    <3>3. Slot(w.focused) = IF u.active > k THEN u.active - 1 ELSE u.active
      BY <1>3, <1>12, <3>1, <3>2, Compacts
    <3> QED BY <1>10, <1>12, <3>2, <3>3
  <2>2. n - 1 < MaxPanes
    BY <1>3
  <2>3. Sane(w)
    BY <1>4, <1>8, <1>9, <1>10, <1>12, <2>1, <2>2 DEF Sane
  <2> QED BY <1>2, <1>12, <1>13, <1>15, <2>3
<1> QED BY <1>14, <1>15

(* A workspace is loaded with a layout of its own. *)
LEMMA LoadedSane ==
    ASSUME NEW u, Sane(u), NEW w, NEW l \in Loaded(u, w)
    PROVE  Sane(l) /\ l.split = u.split
<1>1. CASE l = u
  BY <1>1
<1>2. CASE l # u
  <2>1. PICK o \in OwnLayouts : l = [u EXCEPT !.tabs = o.tabs, !.visible = o.visible]
    BY <1>2 DEF Loaded
  <2>2. PICK tabs \in {{Primary} \cup s : s \in SUBSET (SideViews \X {0})} :
             o \in {[tabs |-> tabs, visible |-> v] :
                       v \in {s \in UNION {[1..n -> tabs] : n \in 1..Cardinality(tabs)} :
                                  \A i, j \in DOMAIN s : s[i] = s[j] => i = j}}
    BY DEF OwnLayouts
  <2>3. PICK v \in UNION {[1..n -> tabs] : n \in 1..Cardinality(tabs)} :
             /\ \A i, j \in DOMAIN v : v[i] = v[j] => i = j
             /\ o = [tabs |-> tabs, visible |-> v]
    BY <2>2
  <2>4. PICK n \in 1..Cardinality(tabs) : v \in [1..n -> tabs]
    BY <2>3
  <2>5. Primary \in tabs /\ tabs \subseteq Tiles /\ \A t \in tabs : Slot(t) = 0
    <3>1. PICK s \in SUBSET (SideViews \X {0}) : tabs = {Primary} \cup s
      BY <2>2
    <3>2. ASSUME NEW t \in SideViews \X {0} PROVE t \in Tiles /\ Slot(t) = 0
      BY TileFacts
    <3> QED BY <3>1, <3>2, TileFacts
  <2>6. n \in Nat /\ 1 <= n
    <3>1. Cardinality(tabs) \in Nat
      <4>1. PICK s \in SUBSET (SideViews \X {0}) : tabs = {Primary} \cup s
        BY <2>2
      <4>2. IsFiniteSet(SideViews \X {0})
        BY PaneAssumption, FS_Product, FS_Singleton
      <4>3. IsFiniteSet(tabs)
        BY <4>1, <4>2, FS_Subset, FS_Union, FS_Singleton
      <4> QED BY <4>3, FS_CardinalityType
    <3> QED BY <3>1
  <2>7. v \in Seq(Tiles) /\ Len(v) = n /\ v # <<>> /\ DOMAIN v = 1..n /\ \A i \in 1..n : v[i] \in tabs
    <3>1. DOMAIN v = 1..n /\ \A i \in 1..n : v[i] \in tabs
      BY <2>4
    <3>2. v \in Seq(tabs) /\ Len(v) = n
      BY <2>4, <2>6
    <3>3. v \in Seq(Tiles)
      BY <2>4, <2>5, <2>6
    <3> QED BY <2>6, <3>1, <3>2, <3>3
  <2>8. Distinct(v) /\ TilesOf(v) \subseteq tabs
    BY <2>3, <2>7 DEF Distinct, TilesOf
  <2>9. /\ l \in Screens /\ l.tabs = tabs /\ l.visible = v /\ l.split = u.split
        /\ l.active = u.active /\ l.focused = u.focused
    <3>1. u \in Screens /\ o.tabs = tabs /\ o.visible = v /\ tabs \in SUBSET Tiles
      BY <2>3, <2>5, SaneFacts
    <3> QED BY <2>1, <2>7, <3>1, Retiled DEF Screens
  <2>10. \A t \in tabs : Slot(t) <= Len(l.split)
    BY <2>5, <2>9, SaneFacts
  <2>11. Sane(l)
    BY <2>5, <2>7, <2>8, <2>9, <2>10 DEF Sane
  <2> QED BY <2>9, <2>11
<1> QED BY <1>1, <1>2

(* A narrow window has the primary tile and the one that is shown. *)
LEMMA NarrowSane ==
    ASSUME NEW u, Sane(u), NEW t \in Tiles, Slot(t) <= Len(u.split)
    PROVE  LET w == ShowOnly([u EXCEPT !.tabs = {Primary, t}], t)
           IN  Sane(w) /\ w.split = u.split
<1> DEFINE w == [[u EXCEPT !.tabs = {Primary, t}] EXCEPT !.visible = <<t>>]
           y == [u EXCEPT !.tabs = {Primary, t}, !.visible = <<t>>]
           x == FocusOn(w, t)
<1>1. /\ {Primary, t} \in SUBSET Tiles /\ <<t>> \in Seq(Tiles) /\ u \in Screens
      /\ t \in Tiles \cup {NoTile} /\ Slot(t) \in Slots
  BY TileFacts, SaneFacts
<1>2. w = y
  OBVIOUS
<1>3. w \in Screens /\ w.tabs = {Primary, t} /\ w.visible = <<t>> /\ w.split = u.split
  BY <1>1, <1>2, Retiled DEF Screens
<1> HIDE DEF w, y
<1>4. /\ x \in Screens /\ x.tabs = {Primary, t} /\ x.visible = <<t>> /\ x.split = u.split
      /\ x.active = Slot(t) /\ x.focused = t
  BY <1>1, <1>3, Refocused DEF FocusOn, Screens
<1> HIDE DEF x
<1>5. Slot(Primary) <= Len(u.split)
  BY TileFacts, SaneFacts
<1>6. TilesOf(<<t>>) = {t} /\ Distinct(<<t>>) /\ <<t>> # <<>>
  BY DEF TilesOf, Distinct
<1>7. Sane(x)
  BY <1>4, <1>5, <1>6 DEF Sane
<1> QED BY <1>4, <1>7 DEF ShowOnly, x, w

LEMMA FreshSane == Sane(FreshScreen) /\ FreshScreen.split = <<>>
<1> DEFINE w == FreshScreen
<1>1. /\ w \in Screens /\ w.tabs = {Primary} /\ w.visible = <<Primary>> /\ w.split = <<>>
      /\ w.active = 0 /\ w.focused = NoTile
  BY TileFacts DEF FreshScreen, Screens
<1> HIDE DEF w
<1>2. /\ TilesOf(<<Primary>>) = {Primary} /\ Distinct(<<Primary>>) /\ Distinct(<<>>)
      /\ <<Primary>> # <<>> /\ Len(<<>>) = 0 /\ Slot(Primary) = 0 /\ 0 < MaxPanes
  BY TileFacts, PaneAssumption DEF TilesOf, Distinct
<1>3. Sane(w)
  BY <1>1, <1>2 DEF Sane
<1> QED BY <1>1, <1>3 DEF w

LEMMA PaneInvInit == PaneInit => PaneInv
<1> SUFFICES ASSUME PaneInit PROVE PaneInv
  OBVIOUS
<1>1. Sane(screen)
  BY FreshSane DEF PaneInit
<1>2. due \in BOOLEAN
  BY Zenon DEF PaneInit
<1>3. SplitsShown
  BY PaneAssumption DEF PaneInit, SplitsShown
<1> QED BY <1>1, <1>2, <1>3 DEF PaneInv, PaneInit, NoResurrection

(* A change of the screen that the user makes: if the split chats stay, so do their panes. *)
LEMMA BecomesKeeps ==
    ASSUME PaneInv, NEW u, Sane(u), Becomes(u),
           u.split = screen.split /\ wide /\ Reachable(screen) => Reachable(u)
    PROVE  PaneInv'
<1> USE DEF PaneInv
<1>1. Sane(screen')
  BY DEF Becomes
<1>2. SplitsShown'
  <2> SUFFICES ASSUME ~due', wide', page' \in Threads, workspace' = page'
               PROVE  page' \notin TilesOf(screen'.split) /\ Reachable(screen')
    BY DEF SplitsShown, Reachable
  <2>1. ~due /\ wide /\ page \in Threads /\ workspace = page /\ screen' = u /\ page' = page
    BY DEF Becomes
  <2>2. screen'.split = screen.split
    BY <2>1 DEF Becomes
  <2> QED BY <2>1, <2>2 DEF SplitsShown, Reachable
<1>3. due' \in BOOLEAN
  BY Zenon DEF Becomes
<1>4. NoResurrection'
  BY DEF Becomes, NoResurrection
<1> QED BY <1>1, <1>2, <1>3, <1>4 DEF Becomes

(* The same tabs, or more, of the same split. *)
LEMMA ReachableMore ==
    ASSUME NEW u, NEW w, u.split = w.split, u.tabs \subseteq w.tabs, Reachable(u)
    PROVE  Reachable(w)
BY DEF Reachable

LEMMA PainterFacts ==
    ASSUME PaneInv
    PROVE  \A t \in Painted \cup {Primary} : t \in screen.tabs /\ t \in Tiles /\ Slot(t) <= Len(screen.split)
<1>1. Sane(screen)
  BY DEF PaneInv
<1>2. \A t \in Painted \cup {Primary} : t \in screen.tabs
  BY <1>1, SaneFacts DEF Painted, Sane
<1> QED BY <1>1, <1>2, SaneFacts DEF Sane

LEMMA ActiveSlotFacts ==
    ASSUME PaneInv
    PROVE  ActiveSlot(screen) \in Slots /\ ActiveSlot(screen) <= Len(screen.split)
BY SaneFacts, TileFacts DEF PaneInv, ActiveSlot, Sane

LEMMA FocusTileStep == PaneInv /\ FocusTile => PaneInv'
<1> SUFFICES ASSUME PaneInv, NEW t \in Painted \cup {Primary}, Becomes(Focused(screen, t))
             PROVE  PaneInv'
  BY DEF FocusTile
<1>1. Sane(screen) /\ t \in Tiles /\ Slot(t) <= Len(screen.split)
  BY PainterFacts DEF PaneInv
<1>2. Sane(Focused(screen, t)) /\ Focused(screen, t).split = screen.split /\ Focused(screen, t).tabs = screen.tabs
  BY <1>1, FocusOnSane
<1> QED BY <1>2, BecomesKeeps, ReachableMore

LEMMA ShowPrimaryStep == PaneInv /\ ShowPrimary => PaneInv'
<1> SUFFICES ASSUME PaneInv, ShowPrimary PROVE PaneInv'
  OBVIOUS
<1> DEFINE u == IF Primary \in TilesOf(screen.visible) THEN Focused(screen, Primary)
                ELSE ShowOnly(screen, Primary)
<1>1. Sane(screen) /\ Primary \in Tiles /\ Primary \in screen.tabs /\ Slot(Primary) <= Len(screen.split)
  BY PainterFacts DEF PaneInv
<1>2. Sane(u) /\ u.split = screen.split /\ u.tabs = screen.tabs
  BY <1>1, FocusOnSane, ShowOnlySane
<1>3. Becomes(u)
  BY DEF ShowPrimary
<1> HIDE DEF u
<1> QED BY <1>2, <1>3, BecomesKeeps, ReachableMore

LEMMA ToggleAgentStep ==
    ASSUME PaneInv, NEW toggle \in BOOLEAN, ToggleAgent(toggle)
    PROVE  PaneInv'
<1>1. Sane(screen) /\ Primary \in screen.tabs
  BY PainterFacts DEF PaneInv
<1>2. CASE toggle /\ screen.split # <<>>
  <2>1. Becomes(CloseAll(screen))
    BY <1>2 DEF ToggleAgent
  <2>2. Sane(CloseAll(screen)) /\ CloseAll(screen).split # screen.split
    BY <1>1, <1>2, CloseAllSane
  <2> QED BY <2>1, <2>2, BecomesKeeps
<1>3. CASE ~(toggle /\ screen.split # <<>>)
  <2>1. Becomes(ShowOnly(screen, Primary))
    BY <1>3 DEF ToggleAgent
  <2>2. /\ Sane(ShowOnly(screen, Primary)) /\ ShowOnly(screen, Primary).split = screen.split
        /\ ShowOnly(screen, Primary).tabs = screen.tabs
    BY <1>1, ShowOnlySane
  <2> QED BY <2>1, <2>2, BecomesKeeps, ReachableMore
<1> QED BY <1>2, <1>3

LEMMA ToggleViewStep ==
    ASSUME PaneInv, NEW v \in SideViews, NEW toggle \in BOOLEAN, ToggleView(v, toggle)
    PROVE  PaneInv'
<1> DEFINE n == ActiveSlot(screen)
           t == <<v, n>>
           narrowed == IF toggle /\ Head(screen.visible) = t THEN Primary ELSE t
           a == ShowOnly([screen EXCEPT !.tabs = {Primary, narrowed}], narrowed)
           b == RemoveTab(screen, t)
           c == ShowOnly(OpenTile(screen, t), t)
<1>1. Sane(screen) /\ n \in Slots /\ n <= Len(screen.split)
  BY ActiveSlotFacts DEF PaneInv
<1> HIDE DEF n
<1>2. t \in Tiles /\ Slot(t) <= Len(screen.split) /\ Primary \in Tiles /\ Slot(Primary) <= Len(screen.split)
  BY <1>1, TileFacts, PainterFacts
<1>3. narrowed \in Tiles /\ Slot(narrowed) <= Len(screen.split)
  BY <1>2
<1>4. \/ ~wide /\ Becomes(a)
      \/ Becomes(b)
      \/ Becomes(c)
  BY DEF ToggleView, n
<1> HIDE DEF narrowed
<1>5. Sane(a) /\ a.split = screen.split
  BY <1>1, <1>3, NarrowSane
<1>6. Sane(b) /\ b.split = screen.split /\ \A m \in Slots : Agent(m) \in screen.tabs => Agent(m) \in b.tabs
  BY <1>1, RemoveTabSane
<1>7. Sane(c) /\ c.split = screen.split /\ screen.tabs \subseteq c.tabs
  <2> DEFINE o == OpenTile(screen, t)
  <2>1. Sane(o) /\ o.split = screen.split /\ o.tabs = screen.tabs \cup {t}
    BY <1>1, <1>2, OpenTileSane
  <2> HIDE DEF o, t
  <2>2. Sane(ShowOnly(o, t)) /\ ShowOnly(o, t).split = o.split /\ ShowOnly(o, t).tabs = o.tabs
    BY <2>1, ShowOnlySane
  <2> QED BY <2>1, <2>2 DEF o
<1>8. Reachable(screen) => Reachable(b)
  <2>1. \A i \in DOMAIN screen.split : i \in Slots
    BY <1>1, SaneFacts, PaneAssumption DEF Slots
  <2> QED BY <1>6, <2>1 DEF Reachable
<1> HIDE DEF a, b, c
<1> QED BY <1>4, <1>5, <1>6, <1>7, <1>8, BecomesKeeps, ReachableMore

LEMMA AddViewStep ==
    ASSUME PaneInv, NEW v \in SideViews, AddViewToSplit(v)
    PROVE  PaneInv'
<1> DEFINE t == <<v, ActiveSlot(screen)>>
           u == Beside(OpenTile(screen, t), t)
<1>1. Sane(screen) /\ t \in Tiles /\ Slot(t) <= Len(screen.split)
  BY ActiveSlotFacts, TileFacts DEF PaneInv
<1>2. Becomes(FocusOn(u, t))
  BY DEF AddViewToSplit
<1> HIDE DEF t
<1>3. Sane(u) /\ u.split = screen.split /\ u.tabs = screen.tabs \cup {t}
  BY <1>1, OpenTileSane
<1> HIDE DEF u
<1>4. Sane(FocusOn(u, t)) /\ FocusOn(u, t).split = screen.split /\ screen.tabs \subseteq FocusOn(u, t).tabs
  BY <1>1, <1>3, FocusOnSane
<1> QED BY <1>2, <1>4, BecomesKeeps, ReachableMore

LEMMA OpenFileStep ==
    ASSUME PaneInv, NEW n \in 0..Len(screen.split), NEW split \in BOOLEAN, OpenFile(n, split)
    PROVE  PaneInv'
<1> DEFINE t == <<"editor", n>>
           o == OpenTile(screen, t)
           b == Beside(o, t)
           x == Focused(b, t)
           y == ShowOnly(o, t)
<1>1. Sane(screen) /\ n \in Slots /\ n <= Len(screen.split)
  <2>1. Sane(screen)
    BY DEF PaneInv
  <2> QED BY <2>1, SaneFacts, PaneAssumption DEF Slots
<1>2. t \in Tiles /\ Slot(t) <= Len(screen.split)
  BY <1>1, TileFacts, PaneAssumption
<1>3. Becomes(x) \/ Becomes(y)
  BY DEF OpenFile
<1> HIDE DEF t
<1>4. /\ Sane(o) /\ o.split = screen.split /\ o.tabs = screen.tabs \cup {t}
      /\ Sane(b) /\ b.split = screen.split /\ b.tabs = screen.tabs \cup {t}
  BY <1>1, <1>2, OpenTileSane
<1> HIDE DEF o, b
<1>5. Sane(x) /\ x.split = screen.split /\ screen.tabs \subseteq x.tabs
  BY <1>2, <1>4, FocusOnSane
<1>6. Sane(y) /\ y.split = screen.split /\ screen.tabs \subseteq y.tabs
  BY <1>4, ShowOnlySane
<1> HIDE DEF x, y
<1> QED BY <1>3, <1>5, <1>6, BecomesKeeps, ReachableMore

LEMMA OpenChatStep ==
    ASSUME PaneInv, NEW c \in Threads, OpenChatInSplit(c)
    PROVE  PaneInv'
<1> DEFINE s == screen.split
           more == [screen EXCEPT !.split = IF c \in TilesOf(screen.split) THEN @ ELSE Append(@, c)]
           r == Rebuilt(more)
<1>1. /\ Sane(screen) /\ s \in Seq(Threads) /\ Len(s) \in Nat /\ DOMAIN s = 1..Len(s)
      /\ Distinct(s) /\ screen \in Screens /\ MaxPanes \in Nat
  BY SaneFacts, PaneAssumption DEF PaneInv, Sane
<1>2. CASE c \in TilesOf(s)
  <2> DEFINE k == CHOOSE i \in DOMAIN more.split : more.split[i] = c
             x == Focused(r, Agent(k))
  <2>1. more = screen
    BY <1>1, <1>2 DEF Screens
  <2>2. Becomes(x)
    BY <1>2 DEF OpenChatInSplit
  <2>3. k \in DOMAIN s
    BY <1>2, <2>1 DEF TilesOf
  <2> HIDE DEF k
  <2>4. Sane(r) /\ Reachable(r) /\ r.split = s
    <3> HIDE DEF more
    <3> QED BY <1>1, <2>1, RebuiltSane DEF Sane
  <2> HIDE DEF r
  <2>5. Agent(k) \in Tiles /\ Slot(Agent(k)) <= Len(r.split)
    <3>1. k \in Slots /\ k <= Len(s)
      BY <1>1, <2>3 DEF Sane, Slots
    <3> QED BY <2>4, <3>1, TileFacts
  <2>6. Sane(x) /\ x.split = s /\ x.tabs = r.tabs
    BY <2>4, <2>5, FocusOnSane
  <2> HIDE DEF x
  <2>7. Reachable(x)
    BY <2>4, <2>6, ReachableMore
  <2> QED BY <2>2, <2>6, <2>7, BecomesKeeps
<1>3. CASE c \notin TilesOf(s)
  <2> DEFINE a == Append(s, c)
             x == Unfocused(r)
  <2>1. Becomes(x) /\ Len(s) < MaxPanes - 1
    BY <1>3 DEF OpenChatInSplit
  <2>2. /\ a \in Seq(Threads) /\ Len(a) = Len(s) + 1 /\ DOMAIN a = 1..(Len(s) + 1)
        /\ a[Len(s) + 1] = c /\ \A i \in 1..Len(s) : a[i] = s[i]
    BY <1>1, AppendProperties
  <2> HIDE DEF a
  <2>3. /\ more \in Screens /\ more.tabs = screen.tabs /\ more.split = a
        /\ more.active = screen.active /\ more.focused = screen.focused
    BY <1>1, <1>3, <2>2 DEF Screens, a
  <2> HIDE DEF more
  <2>4. Distinct(a)
    <3>1. \A i \in DOMAIN a : i \in DOMAIN s \/ i = Len(s) + 1
      BY <1>1, <2>2
    <3> QED BY <1>1, <1>3, <2>2, <3>1 DEF Distinct, TilesOf
  <2>5. /\ Len(a) < MaxPanes /\ Primary \in screen.tabs
        /\ \A t \in screen.tabs : Slot(t) <= Len(a)
        /\ screen.focused # NoTile => screen.active = Slot(screen.focused)
        /\ screen.active <= Len(a)
    <3>1. \A t \in screen.tabs : Slot(t) \in Nat /\ Slot(t) <= Len(s)
      BY <1>1, SaneFacts, TileFacts, PaneAssumption DEF Sane, Slots
    <3>2. screen.active \in Nat /\ screen.active <= Len(s)
      BY <1>1, SaneFacts, PaneAssumption DEF Sane, Slots
    <3>3. Len(s) + 1 < MaxPanes
      BY <1>1, <2>1
    <3>4. \A m \in Nat : m <= Len(s) => m <= Len(s) + 1
      BY <1>1
    <3> QED BY <1>1, <2>2, <3>1, <3>2, <3>3, <3>4 DEF Sane
  <2>6. Sane(r) /\ r.split = a
    BY <2>3, <2>4, <2>5, RebuiltSane
  <2> HIDE DEF r
  <2>7. Sane(x) /\ x.split = a /\ a # s
    <3>1. a # s
      BY <1>1, <2>2
    <3> QED BY <2>6, <3>1, UnfocusedSane
  <2> QED BY <2>1, <2>7, BecomesKeeps
<1> QED BY <1>2, <1>3

LEMMA CloseSplitStep ==
    ASSUME PaneInv, NEW c \in Threads, CloseSplitChat(c)
    PROVE  PaneInv'
<1>1. Becomes(CloseOne(screen, c)) /\ CloseOne(screen, c) # screen
  BY DEF CloseSplitChat, Becomes
<1>2. Sane(CloseOne(screen, c)) /\ CloseOne(screen, c).split # screen.split
  BY <1>1, CloseOneSane DEF PaneInv
<1> QED BY <1>1, <1>2, BecomesKeeps

(* A page that is shown: its effects are due if it is a chat's. *)
LEMMA ShowKeeps ==
    ASSUME Sane(screen), NEW p \in Threads \cup Channels \cup {"landing", "elsewhere"},
           NEW u, Sane(u), NEW again \in BOOLEAN, Show(p, u, again)
    PROVE  /\ Sane(screen') /\ page' = p /\ due' \in BOOLEAN /\ (~due' => page' \notin Threads)
           /\ workspace' \in {p, NoneLoaded, workspace}
           /\ workspace' = p => p # "elsewhere" \/ workspace = "elsewhere"
<1>1. page' = p /\ due' = (p \in Threads)
  BY DEF Show
<1>2. due' \in BOOLEAN
  BY <1>1
<1>3. CASE p \in Threads /\ workspace' = p
           /\ \E l \in Loaded(u, p) : screen' = IF again THEN Unfocused(CloseOne(l, p)) ELSE l
  <2>1. PICK l \in Loaded(u, p) : screen' = IF again THEN Unfocused(CloseOne(l, p)) ELSE l
    BY <1>3
  <2>2. Sane(l) /\ Sane(CloseOne(l, p))
    BY <1>3, LoadedSane, CloseOneSane
  <2>3. Sane(screen')
    BY <2>1, <2>2, UnfocusedSane
  <2> QED BY <1>1, <1>2, <1>3, <2>3, PaneAssumption
<1>4. CASE p \in Channels /\ workspace' = p /\ screen' \in Loaded(CloseAll(u), p)
  BY <1>1, <1>2, <1>4, CloseAllSane, LoadedSane DEF Channels
<1>5. CASE p = "landing" /\ workspace' = NoneLoaded /\ screen' = FreshScreen
  BY <1>1, <1>2, <1>5, FreshSane
<1>6. CASE p = "elsewhere" /\ UNCHANGED workspace /\ screen' = u
  BY <1>1, <1>2, <1>6
<1> QED BY <1>3, <1>4, <1>5, <1>6 DEF Show

LEMMA GoStep ==
    ASSUME PaneInv, NEW p \in Threads \cup Channels \cup {"landing", "elsewhere"}, Go(p)
    PROVE  PaneInv'
<1> USE DEF PaneInv
<1>1. /\ p \notin erased /\ wide' = wide /\ erased' = erased /\ workspace \notin erased
      /\ saved = {} /\ Show(p, screen, page \in Threads)
  BY DEF Go, NoResurrection
<1>2. saved' = {}
  BY <1>1 DEF Go, Stashed
<1>3. (page \in Threads) \in BOOLEAN
  OBVIOUS
<1>4. /\ Sane(screen') /\ page' = p /\ due' \in BOOLEAN /\ (~due' => page' \notin Threads)
      /\ workspace' \in {p, NoneLoaded, workspace}
      /\ workspace' = p => p # "elsewhere" \/ workspace = "elsewhere"
  BY <1>1, <1>3, ShowKeeps
<1>5. NoneLoaded \notin erased
  BY PaneAssumption DEF NoneLoaded
<1>6. NoResurrection' /\ SplitsShown'
  BY <1>1, <1>2, <1>4, <1>5 DEF NoResurrection, SplitsShown
<1> QED BY <1>1, <1>4, <1>6, PaneAssumption DEF NoneLoaded, Channels

LEMMA ReloadStep == PaneInv /\ ReloadPage => PaneInv'
<1> SUFFICES ASSUME PaneInv, ReloadPage PROVE PaneInv'
  OBVIOUS
<1> USE DEF PaneInv
<1>1. /\ page \notin erased /\ wide' = wide /\ erased' = erased /\ workspace \notin erased
      /\ saved' = {} /\ Show(page, Unfocused(screen), FALSE)
  BY DEF ReloadPage, NoResurrection
<1>2. Sane(Unfocused(screen))
  BY UnfocusedSane
<1>3. /\ Sane(screen') /\ page' = page /\ due' \in BOOLEAN /\ (~due' => page' \notin Threads)
      /\ workspace' \in {page, NoneLoaded, workspace}
      /\ workspace' = page => page # "elsewhere" \/ workspace = "elsewhere"
  BY <1>1, <1>2, ShowKeeps
<1>4. NoneLoaded \notin erased
  BY PaneAssumption DEF NoneLoaded
<1>5. NoResurrection' /\ SplitsShown'
  BY <1>1, <1>3, <1>4 DEF NoResurrection, SplitsShown
<1> QED BY <1>1, <1>3, <1>5, PaneAssumption DEF NoneLoaded, Channels

LEMMA EffectsStep == PaneInv /\ RunEffects => PaneInv'
<1> SUFFICES ASSUME PaneInv, RunEffects PROVE PaneInv'
  OBVIOUS
<1> USE DEF PaneInv
<1>1. /\ page' = page /\ workspace' = workspace /\ saved' = saved /\ wide' = wide /\ erased' = erased
      /\ due = TRUE
  BY DEF RunEffects
<1>2. NoResurrection'
  BY <1>1 DEF NoResurrection
<1>3. CASE page = workspace /\ page \in TilesOf(screen.split)
  <2>1. screen' = CloseOne(screen, page) /\ due' = due
    BY <1>3 DEF RunEffects
  <2>2. page \in Threads
    <3>1. \A i \in DOMAIN screen.split : screen.split[i] \in Threads
      BY SaneFacts, ElementOfSeq
    <3> QED BY <1>3, <3>1 DEF TilesOf
  <2>3. Sane(screen')
    BY <2>1, <2>2, CloseOneSane
  <2>4. SplitsShown'
    BY <1>1, <2>1 DEF SplitsShown
  <2> QED BY <1>1, <1>2, <2>1, <2>3, <2>4
<1>4. CASE ~(page = workspace /\ page \in TilesOf(screen.split))
  <2> DEFINE missing == \E i \in DOMAIN screen.split : Agent(i) \notin screen.tabs
  <2>1. due' = FALSE /\ screen' = IF page = workspace /\ wide /\ missing THEN Rebuilt(screen) ELSE screen
    BY <1>4 DEF RunEffects
  <2>2. due' \in BOOLEAN
    BY <2>1, Zenon
  <2>3. Sane(Rebuilt(screen)) /\ Reachable(Rebuilt(screen)) /\ Rebuilt(screen).split = screen.split
    BY SaneFacts, RebuiltSane DEF Sane
  <2>4. Sane(screen') /\ screen'.split = screen.split
    BY <2>1, <2>3
  <2>5. page = workspace /\ wide => Reachable(screen')
    BY <2>1, <2>3 DEF Reachable
  <2>6. SplitsShown'
    BY <1>1, <1>4, <2>4, <2>5 DEF SplitsShown, Reachable
  <2> QED BY <1>1, <1>2, <2>2, <2>4, <2>6
<1> QED BY <1>3, <1>4

LEMMA ResizeStep == PaneInv /\ Resize => PaneInv'
<1> SUFFICES ASSUME PaneInv, Resize PROVE PaneInv'
  OBVIOUS
<1> USE DEF PaneInv, Resize
<1>1. wide' \in BOOLEAN
  BY Zenon
<1>2. due' \in BOOLEAN
  OBVIOUS
<1>3. SplitsShown' /\ NoResurrection'
  BY DEF SplitsShown, NoResurrection
<1> QED BY <1>1, <1>2, <1>3

LEMMA DeleteStep ==
    ASSUME PaneInv, NEW c \in Threads, NEW here \in BOOLEAN, DeleteChat(c, here)
    PROVE  PaneInv'
<1> USE DEF PaneInv
<1>1. /\ erased' = erased \cup {c} /\ wide' = wide /\ saved = {} /\ workspace \notin erased
  BY DEF DeleteChat, NoResurrection
<1>2. PointerWithout(c) \notin erased' /\ NoneLoaded \notin erased'
      /\ PointerWithout(c) \in Threads \cup Channels \cup {NoneLoaded}
  BY <1>1, PaneAssumption DEF PointerWithout, NoneLoaded
<1>3. CASE Show("landing", screen, FALSE) /\ Stashed(PointerWithout(c), "landing")
  <2>1. saved' = {}
    BY <1>1, <1>2, <1>3 DEF Stashed
  <2>2. /\ Sane(screen') /\ page' = "landing" /\ due' \in BOOLEAN
        /\ (~due' => page' \notin Threads)
    BY <1>3, ShowKeeps
  <2>3. workspace' = NoneLoaded
    BY <1>3, PaneAssumption DEF Show, Channels
  <2>4. SplitsShown' /\ NoResurrection'
    BY <1>2, <2>1, <2>2, <2>3 DEF SplitsShown, NoResurrection
  <2> QED BY <1>1, <2>2, <2>3, <2>4
<1>4. CASE /\ workspace' = PointerWithout(c)
           /\ screen' = IF here THEN CloseAll(screen) ELSE CloseOne(screen, c)
           /\ due' = (page \in Threads) /\ UNCHANGED <<page, saved>>
  <2>1. Sane(screen')
    BY <1>4, CloseAllSane, CloseOneSane
  <2>2. due' \in BOOLEAN
    BY <1>4
  <2>3. SplitsShown' /\ NoResurrection'
    BY <1>1, <1>2, <1>4 DEF SplitsShown, NoResurrection
  <2> QED BY <1>1, <1>2, <1>4, <2>1, <2>2, <2>3
<1> QED BY <1>3, <1>4 DEF DeleteChat

LEMMA DeleteAllStep == PaneInv /\ DeleteAllChats => PaneInv'
<1> SUFFICES ASSUME PaneInv, DeleteAllChats PROVE PaneInv'
  OBVIOUS
<1> USE DEF PaneInv, DeleteAllChats
<1>1. due' \in BOOLEAN
  OBVIOUS
<1>2. Sane(screen')
  BY FreshSane
<1>3. SplitsShown' /\ NoResurrection'
  BY PaneAssumption DEF SplitsShown, NoResurrection, NoneLoaded
<1> QED BY <1>1, <1>2, <1>3

LEMMA PaneInvStep == PaneInv /\ [PaneNext]_paneVars => PaneInv'
<1> SUFFICES ASSUME PaneInv, [PaneNext]_paneVars PROVE PaneInv'
  OBVIOUS
<1>1. CASE RunEffects
  BY <1>1, EffectsStep
<1>2. CASE ReloadPage
  BY <1>2, ReloadStep
<1>3. CASE \E p \in Threads \cup Channels \cup {"landing", "elsewhere"} : Go(p)
  BY <1>3, GoStep
<1>4. CASE UserActs
  <2>1. CASE FocusTile
    BY <2>1, FocusTileStep
  <2>2. CASE ShowPrimary
    BY <2>2, ShowPrimaryStep
  <2>3. CASE Resize
    BY <2>3, ResizeStep
  <2>4. CASE DeleteAllChats
    BY <2>4, DeleteAllStep
  <2>5. CASE \E toggle \in BOOLEAN : ToggleAgent(toggle)
    BY <2>5, ToggleAgentStep
  <2>6. CASE \E toggle \in BOOLEAN : \E v \in SideViews : ToggleView(v, toggle)
    BY <2>6, ToggleViewStep
  <2>7. CASE \E toggle \in BOOLEAN : \E n \in 0..Len(screen.split) : OpenFile(n, toggle)
    BY <2>7, OpenFileStep
  <2>8. CASE \E v \in SideViews : AddViewToSplit(v)
    BY <2>8, AddViewStep
  <2>9. CASE \E c \in Threads : OpenChatInSplit(c)
    BY <2>9, OpenChatStep
  <2>10. CASE \E c \in Threads : CloseSplitChat(c)
    BY <2>10, CloseSplitStep
  <2>11. CASE \E c \in Threads : \E here \in BOOLEAN : DeleteChat(c, here)
    BY <2>11, DeleteStep
  <2> QED BY <1>4, <2>1, <2>2, <2>3, <2>4, <2>5, <2>6, <2>7, <2>8, <2>9, <2>10, <2>11, Zenon DEF UserActs
<1>5. CASE UNCHANGED paneVars
  BY <1>5 DEF paneVars, PaneInv, Sane, Screens, SplitsShown, NoResurrection
<1> QED BY <1>1, <1>2, <1>3, <1>4, <1>5 DEF PaneNext

(* However panes are opened, split, closed, restored and deleted, each tile has its chat, the focus
   is where its chat is, every split chat can be reached, and no deleted chat comes back. *)
THEOREM PanesAreSafe == PaneSpec => []LayoutSafe
BY PaneInvInit, PaneInvSafe, PaneInvStep, PTL DEF PaneSpec

(* Where the others are in a sequence that one element leaves. *)
LEMMA WithoutShifts ==
    ASSUME NEW S, NEW s \in Seq(S), Distinct(s), NEW k \in DOMAIN s,
           NEW j \in 1..(Len(s) - 1)
    PROVE  Within(s, S \ {s[k]})[j] = s[IF j < k THEN j ELSE j + 1]
<1> DEFINE n == Len(s)
           I == {i \in DOMAIN s : s[i] \in S \ {s[k]}}
           to == IF j < k THEN j ELSE j + 1
           before == {i \in I : i < to}
<1>1. DOMAIN s = 1..n /\ n \in Nat /\ k \in Nat /\ 1 <= k /\ k <= n /\ j \in Nat /\ 1 <= j /\ j <= n - 1
  OBVIOUS
<1> HIDE DEF n
<1>2. I = (1..n) \ {k}
  <2>1. \A i \in DOMAIN s : s[i] \in S
    BY ElementOfSeq
  <2> QED BY <1>1, <2>1 DEF Distinct
<1>0. \A m \in Nat : IsFiniteSet(1..m) /\ Cardinality(1..m) = m
  <2> TAKE m \in Nat
  <2>1. 1 \in Int /\ m \in Int /\ m >= 0
    OBVIOUS
  <2>2. IsFiniteSet(1..m) /\ Cardinality(1..m) = IF 1 > m THEN 0 ELSE m - 1 + 1
    BY <2>1, FS_Interval
  <2>3. (IF 1 > m THEN 0 ELSE m - 1 + 1) = m
    BY <2>1
  <2> QED BY <2>2, <2>3
<1>3. IsFiniteSet(I) /\ Cardinality(I) = n - 1 /\ I \subseteq Nat
  <2>1. IsFiniteSet(1..n) /\ Cardinality(1..n) = n /\ k \in 1..n
    BY <1>0, <1>1
  <2>2. IsFiniteSet((1..n) \ {k}) /\ Cardinality((1..n) \ {k}) = n - 1
    BY <2>1, FS_RemoveElement
  <2>3. (1..n) \ {k} \subseteq Nat
    OBVIOUS
  <2> QED BY <1>2, <2>2, <2>3, Zenon
<1>4. Within(s, S \ {s[k]})[j] = s[InOrder(I)[j]]
  <2>1. Within(s, S \ {s[k]}) = Picked(s, I)
    BY DEF Within
  <2> HIDE DEF I
  <2>2. j \in 1..Cardinality(I)
    BY <1>1, <1>3
  <2> QED BY <2>1, <2>2 DEF Picked
<1> HIDE DEF I
<1>5. to \in I
  BY <1>1, <1>2
<1>6. Cardinality(before) = j - 1
  <2>1. IsFiniteSet(1..j) /\ Cardinality(1..j) = j /\ Cardinality(1..(j - 1)) = j - 1
    <3>1. j - 1 \in Nat
      BY <1>1
    <3> QED BY <1>0, <1>1, <3>1
  <2>2. CASE j < k
    <3>1. before = 1..(j - 1)
      BY <1>1, <1>2, <2>2
    <3> QED BY <1>1, <2>1, <3>1
  <2>3. CASE ~(j < k)
    <3>1. before = (1..j) \ {k} /\ k \in 1..j
      BY <1>1, <1>2, <2>3
    <3>2. Cardinality((1..j) \ {k}) = j - 1
      BY <2>1, <3>1, FS_RemoveElement
    <3> QED BY <3>1, <3>2
  <2> QED BY <2>2, <2>3
<1>7. InOrder(I)[j] = to
  <2>1. \A i \in I : Rank(I, i) = j - 1 => i = to
    <3> SUFFICES ASSUME NEW i \in I, Rank(I, i) = j - 1 PROVE i = to
      OBVIOUS
    <3>1. Rank(I, to) = j - 1
      BY <1>6 DEF Rank
    <3> HIDE DEF to, before
    <3>2. ~(i < to) /\ ~(to < i)
      <4>1. i < to => Rank(I, i) < Rank(I, to)
        BY <1>3, <1>5, RankRises
      <4>2. to < i => Rank(I, to) < Rank(I, i)
        BY <1>3, <1>5, RankRises
      <4> QED BY <1>1, <3>1, <4>1, <4>2
    <3>3. i \in Nat /\ to \in Nat
      BY <1>3, <1>5
    <3> QED BY <3>2, <3>3
  <2>2. Rank(I, to) = j - 1
    BY <1>6 DEF Rank
  <2>3. j \in 1..Cardinality(I)
    BY <1>1, <1>3
  <2>4. InOrder(I)[j] = CHOOSE i \in I : Rank(I, i) = j - 1
    BY <2>3 DEF InOrder, Rank
  <2> HIDE DEF to
  <2> QED BY <1>5, <2>1, <2>2, <2>4
<1> QED BY <1>4, <1>7

(* What is kept when every split is closed. *)
LEMMA CloseAllFollows ==
    ASSUME NEW u, Sane(u), NEW w, w.split = <<>>, w.tabs = {t \in u.tabs : Slot(t) = 0},
           w.visible = NotEmpty(Within(u.visible, {t \in Tiles : Slot(t) = 0})), w.active = 0
    PROVE  PanesFollow(u, w)
<1> DEFINE Keeps(t) == Slot(t) = 0 \/ Pane(u, t)[2] \in TilesOf(w.split)
           left == Picked(u.visible, {i \in DOMAIN u.visible : Keeps(u.visible[i])})
<1>1. TilesOf(w.split) = {}
  BY DEF TilesOf
<1>2. \A t : Keeps(t) <=> Slot(t) = 0
  BY <1>1
<1>3. \A t : Slot(t) = 0 => Pane(w, t) = Pane(u, t)
  BY SaneFacts DEF Pane
<1>4. {Pane(w, t) : t \in w.tabs} = {Pane(u, t) : t \in {s \in u.tabs : Keeps(s)}}
  BY <1>2, <1>3
<1>5. left # <<>> => Panes(w, w.visible) = Panes(u, left)
  <2> SUFFICES ASSUME left # <<>> PROVE Panes(w, w.visible) = Panes(u, left)
    OBVIOUS
  <2> DEFINE T == {t \in Tiles : Slot(t) = 0}
  <2>1. {i \in DOMAIN u.visible : Keeps(u.visible[i])} = {i \in DOMAIN u.visible : u.visible[i] \in T}
    <3>1. \A i \in DOMAIN u.visible : u.visible[i] \in Tiles
      BY SaneFacts, ElementOfSeq
    <3> QED BY <1>2, <3>1
  <2>2. left = Within(u.visible, T)
    BY <2>1 DEF Within
  <2>3. w.visible = left
    BY <2>2 DEF NotEmpty
  <2>4. TilesOf(Within(u.visible, T)) = TilesOf(u.visible) \cap T
    BY SaneFacts, WithinFacts
  <2> HIDE DEF left, Keeps
  <2>5. \A i \in DOMAIN left : Slot(left[i]) = 0
    BY <2>2, <2>4 DEF TilesOf
  <2> QED BY <1>3, <2>3, <2>5 DEF Panes
<1>6. Keeps(Agent(u.active)) => Pane(w, Agent(w.active)) = Pane(u, Agent(u.active))
  BY <1>2, <1>3, SaneFacts, TileFacts
<1> QED BY <1>4, <1>5, <1>6 DEF PanesFollow

(* What is kept when the split of one chat is closed. *)
LEMMA CloseOneFollows ==
    ASSUME NEW u, Sane(u), NEW c \in Threads, c \in TilesOf(u.split)
    PROVE  PanesFollow(u, CloseOne(u, c))
<1> DEFINE w == CloseOne(u, c)
           k == CHOOSE i \in DOMAIN u.split : u.split[i] = c
           n == Len(u.split)
           apart == Within(u.visible, {t \in Tiles : Slot(t) # k})
           moved == [i \in DOMAIN apart |-> CompactAfter(apart[i], k)]
           Keeps(t) == Slot(t) = 0 \/ Pane(u, t)[2] \in TilesOf(w.split)
           left == Picked(u.visible, {i \in DOMAIN u.visible : Keeps(u.visible[i])})
<1>1. k \in DOMAIN u.split /\ u.split[k] = c
  BY DEF TilesOf
<1>2. /\ w.tabs = {CompactAfter(t, k) : t \in {s \in u.tabs : Slot(s) # k}}
      /\ w.visible = NotEmpty(moved) /\ w.split = Within(u.split, Threads \ {c})
      /\ ~(u.focused # NoTile /\ Slot(u.focused) = k) =>
             w.active = IF u.active = k THEN 0 ELSE Slot(CompactAfter(Agent(u.active), k))
  BY DEF CloseOne, FocusOn
<1>3. u.focused # NoTile /\ Slot(u.focused) = k => u.active = k
  BY DEF Sane
<1> HIDE DEF w, k, moved
<1>4. /\ n \in Slots /\ k \in 1..n /\ n \in Nat /\ k \in Nat /\ 1 <= k /\ k <= n /\ DOMAIN u.split = 1..n
      /\ u.split \in Seq(Threads) /\ Distinct(u.split)
  BY <1>1, SaneFacts DEF Sane
<1>5. /\ Len(w.split) = n - 1 /\ DOMAIN w.split = 1..(n - 1)
      /\ TilesOf(w.split) = TilesOf(u.split) \cap (Threads \ {c})
      /\ \A j \in 1..(n - 1) : w.split[j] = u.split[IF j < k THEN j ELSE j + 1]
  <2>1. w.split = Within(u.split, Threads \ {u.split[k]})
    BY <1>1, <1>2
  <2>2. Len(w.split) = n - 1
    BY <1>4, <2>1, WithoutOne
  <2>3. DOMAIN w.split = 1..Len(w.split) /\ TilesOf(w.split) = TilesOf(u.split) \cap (Threads \ {c})
    BY <1>2, <1>4, WithinFacts
  <2>4. ASSUME NEW j \in 1..(n - 1) PROVE w.split[j] = u.split[IF j < k THEN j ELSE j + 1]
    <3> DEFINE s == u.split
    <3>1. s \in Seq(Threads) /\ Distinct(s) /\ k \in DOMAIN s /\ j \in 1..(Len(s) - 1)
      BY <1>1, <1>4
    <3> HIDE DEF s
    <3>2. Within(s, Threads \ {s[k]})[j] = s[IF j < k THEN j ELSE j + 1]
      BY <3>1, WithoutShifts
    <3> QED BY <2>1, <3>2 DEF s
  <2> QED BY <2>2, <2>3, <2>4
<1> HIDE DEF n
<1>6. ASSUME NEW t \in Tiles, Slot(t) <= n
      PROVE  /\ Keeps(t) <=> Slot(t) # k
             /\ Slot(t) # k => Pane(w, CompactAfter(t, k)) = Pane(u, t)
  <2>1. Slot(t) \in Nat
    BY TileFacts, PaneAssumption DEF Slots
  <2>2. /\ Slot(CompactAfter(t, k)) = IF Slot(t) > k THEN Slot(t) - 1 ELSE Slot(t)
        /\ CompactAfter(t, k)[1] = t[1]
    BY <1>4, Compacts DEF CompactAfter
  <2>3. CASE Slot(t) = 0
    <3>1. Slot(t) # k /\ Keeps(t)
      BY <1>4, <2>3
    <3>2. Slot(CompactAfter(t, k)) = 0
      BY <1>4, <2>2, <2>3
    <3>3. 0 \notin DOMAIN u.split /\ 0 \notin DOMAIN w.split
      BY <1>4, <1>5
    <3> QED BY <2>2, <2>3, <3>1, <3>2, <3>3 DEF Pane
  <2>4. CASE Slot(t) = k
    <3>1. Pane(u, t)[2] = c /\ Slot(t) # 0
      BY <1>1, <1>4, <2>4 DEF Pane
    <3>2. c \notin TilesOf(w.split)
      BY <1>5
    <3> QED BY <2>4, <3>1, <3>2
  <2>5. CASE Slot(t) # 0 /\ Slot(t) # k
    <3> DEFINE j == Slot(CompactAfter(t, k))
    <3>1. /\ j \in 1..(n - 1) /\ Slot(t) = (IF j < k THEN j ELSE j + 1)
          /\ Slot(t) \in 1..n
      BY <1>4, <2>1, <2>2, <2>5, <1>6
    <3> HIDE DEF j
    <3>2. w.split[j] = u.split[Slot(t)] /\ j \in DOMAIN w.split /\ Slot(t) \in DOMAIN u.split
      BY <1>4, <1>5, <3>1
    <3>3. Pane(u, t) = <<t[1], u.split[Slot(t)]>>
      BY <3>2 DEF Pane
    <3>4. Pane(w, CompactAfter(t, k)) = <<t[1], w.split[j]>>
      BY <2>2, <3>2 DEF Pane, j
    <3>5. w.split[j] \in TilesOf(w.split)
      BY <3>2 DEF TilesOf
    <3> QED BY <2>5, <3>2, <3>3, <3>4, <3>5
  <2> QED BY <2>3, <2>4, <2>5
<1> HIDE DEF Keeps
<1>7. \A t \in u.tabs : t \in Tiles /\ Slot(t) <= n
  BY SaneFacts DEF Sane, n
<1>8. {Pane(w, t) : t \in w.tabs} = {Pane(u, t) : t \in {s \in u.tabs : Keeps(s)}}
  <2>1. {Pane(w, t) : t \in w.tabs} = {Pane(w, CompactAfter(t, k)) : t \in {s \in u.tabs : Slot(s) # k}}
    BY <1>2
  <2> QED BY <1>6, <1>7, <2>1
<1>9. left # <<>> => Panes(w, w.visible) = Panes(u, left)
  <2> SUFFICES ASSUME left # <<>> PROVE Panes(w, w.visible) = Panes(u, left)
    OBVIOUS
  <2> DEFINE T == {t \in Tiles : Slot(t) # k}
  <2>1. \A i \in DOMAIN u.visible : u.visible[i] \in Tiles /\ Slot(u.visible[i]) <= n
    <3>1. \A i \in DOMAIN u.visible : u.visible[i] \in u.tabs
      BY DEF Sane, TilesOf
    <3> QED BY <1>7, <3>1
  <2>2. {i \in DOMAIN u.visible : Keeps(u.visible[i])} = {i \in DOMAIN u.visible : u.visible[i] \in T}
    BY <1>6, <2>1
  <2>3. left = Within(u.visible, T) /\ apart = left
    BY <2>2 DEF Within
  <2>4. TilesOf(left) = TilesOf(u.visible) \cap T /\ DOMAIN left = 1..Len(left) /\ Len(left) \in Nat
        /\ left \in Seq(Tiles)
    <3>1. u.visible \in Seq(Tiles) /\ left = Within(u.visible, T)
      BY <2>3, SaneFacts
    <3> HIDE DEF left, T
    <3> QED BY <3>1, WithinFacts
  <2> HIDE DEF left, apart
  <2>5. \A i \in DOMAIN left : left[i] \in Tiles /\ Slot(left[i]) <= n /\ Slot(left[i]) # k
    <3>1. \A i \in DOMAIN left : left[i] \in TilesOf(u.visible) \cap T
      BY <2>4 DEF TilesOf
    <3> QED BY <2>1, <3>1 DEF TilesOf
  <2>6. DOMAIN moved = DOMAIN left /\ \A i \in DOMAIN left : moved[i] = CompactAfter(left[i], k)
    BY <2>3 DEF moved
  <2>7. moved # <<>> /\ w.visible = moved
    <3>1. 1 \in DOMAIN left
      BY <2>4, EmptySeq
    <3>2. moved # <<>>
      BY <2>6, <3>1
    <3> QED BY <1>2, <3>2 DEF NotEmpty
  <2>8. \A i \in DOMAIN left : Pane(w, moved[i]) = Pane(u, left[i])
    BY <1>6, <2>5, <2>6
  <2> QED BY <2>6, <2>7, <2>8 DEF Panes
<1>10. Keeps(Agent(u.active)) => Pane(w, Agent(w.active)) = Pane(u, Agent(u.active))
  <2> SUFFICES ASSUME Keeps(Agent(u.active)) PROVE Pane(w, Agent(w.active)) = Pane(u, Agent(u.active))
    OBVIOUS
  <2>1. Agent(u.active) \in Tiles /\ Slot(Agent(u.active)) = u.active /\ u.active <= n
    BY SaneFacts, TileFacts DEF Sane, n
  <2>2. u.active # k
    BY <1>6, <2>1
  <2>3. w.active = Slot(CompactAfter(Agent(u.active), k))
    BY <1>2, <1>3, <2>2
  <2>4. Agent(w.active) = CompactAfter(Agent(u.active), k)
    BY <2>3 DEF Agent, CompactAfter, Slot
  <2> QED BY <1>6, <2>1, <2>2, <2>4
<1> QED BY <1>8, <1>9, <1>10 DEF PanesFollow, Keeps, w

LEMMA CloseAllShrinks ==
    ASSUME NEW u, Sane(u), Len(CloseAll(u).split) < Len(u.split)
    PROVE  PanesFollow(u, CloseAll(u)) /\ PanesFollow(u, CloseAll(Unfocused(u)))
<1>1. u.split # <<>> /\ Unfocused(u).split # <<>>
  BY CloseAllSane, UnfocusedSane
<1>2. /\ CloseAll(u).tabs = {t \in u.tabs : Slot(t) = 0} /\ CloseAll(u).split = <<>>
      /\ CloseAll(u).visible = NotEmpty(Within(u.visible, {t \in Tiles : Slot(t) = 0}))
      /\ CloseAll(u).active = 0
  BY <1>1 DEF CloseAll
<1>3. Unfocused(u).tabs = u.tabs /\ Unfocused(u).visible = u.visible
  BY SaneFacts DEF Unfocused, Screens
<1>4. CloseAll(Unfocused(u)) = CloseAll(u)
  BY <1>1, <1>3 DEF CloseAll
<1> QED BY <1>2, <1>4, CloseAllFollows

(* What leaves the split chats alone. *)
LEMMA SameSplit ==
    ASSUME NEW u, "split" \in DOMAIN u
    PROVE  /\ Unfocused(u).split = u.split /\ Rebuilt(u).split = u.split
           /\ \A t : /\ FocusOn(u, t).split = u.split /\ DOMAIN FocusOn(u, t) = DOMAIN u
                     /\ Focused(u, t).split = u.split
                     /\ ShowOnly(u, t).split = u.split
                     /\ OpenTile(u, t).split = u.split /\ DOMAIN OpenTile(u, t) = DOMAIN u
                     /\ Beside(u, t).split = u.split /\ DOMAIN Beside(u, t) = DOMAIN u
                     /\ RemoveTab(u, t).split = u.split
           /\ DOMAIN Rebuilt(u) = DOMAIN u
           /\ \A s : /\ [u EXCEPT !.tabs = s].split = u.split
                     /\ DOMAIN [u EXCEPT !.tabs = s] = DOMAIN u
<1>1. Unfocused(u).split = u.split
  BY DEF Unfocused
<1>2. Rebuilt(u).split = u.split /\ DOMAIN Rebuilt(u) = DOMAIN u
  BY DEF Rebuilt
<1>3. ASSUME NEW t
      PROVE  /\ FocusOn(u, t).split = u.split /\ DOMAIN FocusOn(u, t) = DOMAIN u
             /\ OpenTile(u, t).split = u.split /\ DOMAIN OpenTile(u, t) = DOMAIN u
             /\ Focused(u, t).split = u.split
  BY DEF FocusOn, OpenTile, Focused
<1>4. ASSUME NEW t
      PROVE  Beside(u, t).split = u.split /\ DOMAIN Beside(u, t) = DOMAIN u
  BY DEF Beside
<1>5. ASSUME NEW t
      PROVE  ShowOnly(u, t).split = u.split
  BY DEF ShowOnly, FocusOn
<1>6. ASSUME NEW t
      PROVE  RemoveTab(u, t).split = u.split
  BY DEF RemoveTab, FocusOn
<1>7. ASSUME NEW s
      PROVE  [u EXCEPT !.tabs = s].split = u.split /\ DOMAIN [u EXCEPT !.tabs = s] = DOMAIN u
  OBVIOUS
<1> QED BY <1>1, <1>2, <1>3, <1>4, <1>5, <1>6, <1>7

LEMMA SameSplitInTurn ==
    ASSUME NEW u, "split" \in DOMAIN u, NEW t, NEW s
    PROVE  /\ ShowOnly(OpenTile(u, t), t).split = u.split
           /\ Focused(Beside(OpenTile(u, t), t), t).split = u.split
           /\ FocusOn(Beside(OpenTile(u, t), t), t).split = u.split
           /\ ShowOnly([u EXCEPT !.tabs = s], t).split = u.split
<1> DEFINE o == OpenTile(u, t)
           b == Beside(o, t)
           x == [u EXCEPT !.tabs = s]
<1>1. o.split = u.split /\ "split" \in DOMAIN o
  BY SameSplit
<1>2. x.split = u.split /\ "split" \in DOMAIN x
  OBVIOUS
<1> HIDE DEF o, x
<1>3. b.split = u.split /\ "split" \in DOMAIN b
  BY <1>1, SameSplit
<1> HIDE DEF b
<1>4. ShowOnly(o, t).split = u.split
  BY <1>1, SameSplit
<1>5. Focused(b, t).split = u.split /\ FocusOn(b, t).split = u.split
  BY <1>3, SameSplit
<1>6. ShowOnly(x, t).split = u.split
  BY <1>2, SameSplit
<1> QED BY <1>4, <1>5, <1>6 DEF o, b, x

(* One step of the window in which the split gets shorter. *)
LEMMA ClosingFollows ==
    ASSUME PaneInv, PaneNext, page' = page, workspace' = workspace, workspace # NoneLoaded,
           Len(screen'.split) < Len(screen.split)
    PROVE  PanesFollow(screen, screen')
<1>0. Sane(screen) /\ Len(screen.split) \in Nat
  BY SaneFacts DEF PaneInv
<1>1. ASSUME NEW c \in Threads, screen' = CloseOne(screen, c)
      PROVE  PanesFollow(screen, screen')
  <2>1. c \in TilesOf(screen.split)
    BY <1>0, <1>1 DEF CloseOne
  <2> QED BY <1>0, <1>1, <2>1, CloseOneFollows
<1>2. ASSUME screen' = CloseAll(screen) \/ screen' = CloseAll(Unfocused(screen))
      PROVE  PanesFollow(screen, screen')
  <2>1. Len(CloseAll(screen).split) < Len(screen.split)
    BY <1>0, <1>2, CloseAllSane, UnfocusedSane
  <2> QED BY <1>0, <1>2, <2>1, CloseAllShrinks
<1>3. ASSUME NEW u, screen' = u, u.split = screen.split
      PROVE  FALSE
  BY <1>0, <1>3
<1>4. "split" \in DOMAIN screen
  BY <1>0, SaneFacts DEF Screens
<1>5. CASE RunEffects
  <2>1. CASE page = workspace /\ page \in TilesOf(screen.split)
    <3>1. \A i \in DOMAIN screen.split : screen.split[i] \in Threads
      BY <1>0, SaneFacts, ElementOfSeq
    <3>2. page \in Threads /\ screen' = CloseOne(screen, page)
      BY <1>5, <2>1, <3>1 DEF RunEffects, TilesOf
    <3> QED BY <1>1, <3>2
  <2>2. CASE ~(page = workspace /\ page \in TilesOf(screen.split))
    <3>1. screen' = Rebuilt(screen) \/ screen' = screen
      BY <1>5, <2>2 DEF RunEffects
    <3> QED BY <1>3, <1>4, <3>1, SameSplit
  <2> QED BY <2>1, <2>2
<1>6. CASE ReloadPage
  <2> DEFINE u == Unfocused(screen)
  <2>1. Show(page, u, FALSE)
    BY <1>6 DEF ReloadPage
  <2>2. Sane(u) /\ u.split = screen.split
    BY <1>0, UnfocusedSane
  <2>3. CASE \E l \in Loaded(u, page) : screen' = l
    <3>1. PICK l \in Loaded(u, page) : screen' = l
      BY <2>3
    <3>2. l.split = screen.split
      BY <2>2, LoadedSane
    <3> QED BY <1>3, <3>1, <3>2
  <2>4. CASE workspace' = page /\ screen' \in Loaded(CloseAll(u), page)
    <3>1. screen' = CloseAll(u)
      BY <2>4 DEF Loaded
    <3> QED BY <1>2, <3>1
  <2>5. CASE workspace' = NoneLoaded
    BY <2>5
  <2>6. CASE screen' = u
    BY <1>3, <2>2, <2>6
  <2> QED BY <2>1, <2>3, <2>4, <2>5, <2>6 DEF Show
<1>7. CASE \E p \in Threads \cup Channels \cup {"landing", "elsewhere"} : Go(p)
  BY <1>7 DEF Go, Show
<1>8. CASE UserActs
  <2>1. ASSUME FocusTile \/ ShowPrimary PROVE FALSE
    <3>1. PICK t : screen' = Focused(screen, t) \/ screen' = ShowOnly(screen, t)
      BY <2>1 DEF FocusTile, ShowPrimary, Becomes
    <3>2. screen'.split = screen.split
      BY <1>4, <3>1, SameSplit
    <3> QED BY <1>3, <3>2
  <2>2. ASSUME Resize PROVE FALSE
    BY <1>3, <2>2 DEF Resize
  <2>3. ASSUME DeleteAllChats PROVE FALSE
    BY <2>3 DEF DeleteAllChats
  <2>4. ASSUME NEW toggle \in BOOLEAN, ToggleAgent(toggle) PROVE PanesFollow(screen, screen')
    <3>1. screen' = CloseAll(screen) \/ screen' = ShowOnly(screen, Primary)
      BY <2>4 DEF ToggleAgent, Becomes
    <3> QED BY <1>2, <1>3, <1>4, <3>1, SameSplit
  <2>5. ASSUME NEW toggle \in BOOLEAN, NEW v \in SideViews, ToggleView(v, toggle) PROVE FALSE
    <3>1. \E t, s : \/ screen' = ShowOnly([screen EXCEPT !.tabs = s], t)
                    \/ screen' = RemoveTab(screen, t)
                    \/ screen' = ShowOnly(OpenTile(screen, t), t)
      BY <2>5 DEF ToggleView, Becomes
    <3>2. PICK t, s : \/ screen' = ShowOnly([screen EXCEPT !.tabs = s], t)
                      \/ screen' = RemoveTab(screen, t)
                      \/ screen' = ShowOnly(OpenTile(screen, t), t)
      BY <3>1
    <3>3. RemoveTab(screen, t).split = screen.split
      BY <1>4, SameSplit
    <3>4. ShowOnly(OpenTile(screen, t), t).split = screen.split
      BY <1>4, SameSplitInTurn
    <3>5. ShowOnly([screen EXCEPT !.tabs = s], t).split = screen.split
      BY <1>4, SameSplitInTurn
    <3>6. screen'.split = screen.split
      BY <3>2, <3>3, <3>4, <3>5, Zenon
    <3> QED BY <1>3, <3>6
  <2>6. ASSUME NEW toggle \in BOOLEAN, NEW n, OpenFile(n, toggle) PROVE FALSE
    <3>1. PICK t : \/ screen' = Focused(Beside(OpenTile(screen, t), t), t)
                   \/ screen' = ShowOnly(OpenTile(screen, t), t)
      BY <2>6 DEF OpenFile, Becomes
    <3>2. Focused(Beside(OpenTile(screen, t), t), t).split = screen.split
      BY <1>4, SameSplitInTurn
    <3>3. ShowOnly(OpenTile(screen, t), t).split = screen.split
      BY <1>4, SameSplitInTurn
    <3>4. screen'.split = screen.split
      BY <3>1, <3>2, <3>3, Zenon
    <3> QED BY <1>3, <3>4
  <2>7. ASSUME NEW v \in SideViews, AddViewToSplit(v) PROVE FALSE
    <3>1. PICK t : screen' = FocusOn(Beside(OpenTile(screen, t), t), t)
      BY <2>7 DEF AddViewToSplit, Becomes
    <3>2. screen'.split = screen.split
      BY <1>4, <3>1, SameSplitInTurn
    <3> QED BY <1>3, <3>2
  <2>8. ASSUME NEW c \in Threads, OpenChatInSplit(c) PROVE FALSE
    <3> DEFINE more == [screen EXCEPT !.split = IF c \in TilesOf(screen.split) THEN @ ELSE Append(@, c)]
    <3>1. \/ \E t : screen' = Focused(Rebuilt(more), t)
          \/ screen' = Unfocused(Rebuilt(more))
      BY <2>8 DEF OpenChatInSplit, Becomes
    <3>2. "split" \in DOMAIN more /\ more.split \in {screen.split, Append(screen.split, c)}
      BY <1>4
    <3>3. Len(Append(screen.split, c)) = Len(screen.split) + 1
      BY <1>0, SaneFacts, AppendProperties
    <3> HIDE DEF more
    <3>4. screen'.split = more.split
      BY <3>1, <3>2, SameSplit
    <3> QED BY <1>0, <3>2, <3>3, <3>4
  <2>9. ASSUME NEW c \in Threads, CloseSplitChat(c) PROVE PanesFollow(screen, screen')
    BY <1>1, <2>9 DEF CloseSplitChat, Becomes
  <2>10. ASSUME NEW c \in Threads, NEW here \in BOOLEAN, DeleteChat(c, here)
         PROVE  PanesFollow(screen, screen')
    <3>1. screen' = CloseAll(screen) \/ screen' = CloseOne(screen, c)
      BY <2>10 DEF DeleteChat, Show
    <3> QED BY <1>1, <1>2, <3>1
  <2> QED BY <1>8, <2>1, <2>2, <2>3, <2>4, <2>5, <2>6, <2>7, <2>8, <2>9, <2>10 DEF UserActs
<1> QED BY <1>5, <1>6, <1>7, <1>8 DEF PaneNext

(* However a pane is closed, the tiles of the remaining chats and the focus stay with their chats
   (closeSplitChat, compactTileAfter of uiStore.ts). *)
THEOREM PanesFollowTheirChats == PaneSpec => ClosingKeepsPanes
<1>1. PaneInv /\ [PaneNext]_paneVars
        => [page' = page /\ workspace' = workspace /\ workspace # NoneLoaded
              /\ Len(screen'.split) < Len(screen.split) => PanesFollow(screen, screen')]_paneVars
  BY ClosingFollows
<1> QED BY <1>1, PaneInvInit, PaneInvStep, PTL DEF PaneSpec, ClosingKeepsPanes

-----------------------------------------------------------------------------
(* Together.  A step of one component stutters in the others. *)

LEMMA BackgroundStarts ==
    BackgroundInit => /\ TokInv /\ PushInv /\ WakeInv /\ AutoInv /\ TermInv /\ MachInv /\ PaneInv
                      /\ part \in Parts
BY TokInvInit, PushInvInit, WakeInvInit, AutoInvInit, TermInvInit, MachInvInit, PaneInvInit
   DEF BackgroundInit

LEMMA BackgroundSteps ==
    [BackgroundNext]_backgroundVars =>
        /\ [TokenNext]_tokenVars /\ [PushNext]_pushVars /\ [WakeNext]_wakeVars
        /\ [AutomationNext]_autoVars /\ [TerminalNext]_termVars /\ [MachineNext]_machineVars
        /\ [PaneNext]_paneVars /\ UNCHANGED part
BY DEF BackgroundNext, backgroundVars

(* The sessions of the browser and of its machines are safe beside everything else. *)
THEOREM SessionsAreSafe == BackgroundSpec => []SessionsSafe
<1>1. TokInv /\ MachInv => SessionsSafe
  BY TokInvSafe, MachInvSafe DEF SessionsSafe
<1> QED BY <1>1, BackgroundStarts, BackgroundSteps, TokInvStep, MachInvStep, PTL DEF BackgroundSpec

(* A terminal pane goes with the socket that took the shell last, and every pane of a window
   has its chat, beside everything else. *)
THEOREM WindowIsSafe == BackgroundSpec => []WindowSafe
<1>1. TermInv /\ PaneInv => WindowSafe
  BY TermInvSafe, PaneInvSafe DEF WindowSafe
<1> QED BY <1>1, BackgroundStarts, BackgroundSteps, TermInvStep, PaneInvStep, PTL DEF BackgroundSpec

(* Every component's variables stay in the sets they are drawn from; a report the parent has not
   heard of is still somewhere. *)
THEOREM BackgroundTypes == BackgroundSpec => []BackgroundTypeOK
<1>1. TokInv /\ PushInv /\ WakeInv /\ AutoInv /\ TermInv /\ MachInv /\ PaneInv /\ part \in Parts
        => BackgroundTypeOK
  BY AutoInvTypes, TermInvTypes, PaneInvSafe
     DEF BackgroundTypeOK, TokInv, TokTyped, PushInv, WakeInv, MachInv
<1>2. part \in Parts /\ UNCHANGED part => (part \in Parts)'
  OBVIOUS
<1> QED BY <1>1, <1>2, BackgroundStarts, BackgroundSteps, TokInvStep, PushInvStep, WakeInvStep,
        AutoInvStep, TermInvStep, MachInvStep, PaneInvStep, PTL DEF BackgroundSpec

=============================================================================
