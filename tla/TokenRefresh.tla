---------------------------- MODULE TokenRefresh ----------------------------
(***************************************************************************)
(* The rotation of one user's refresh tokens: backend refresh_token.py     *)
(* and the pages of one browser, lib/api.ts and utils/storage.ts.  Every   *)
(* page caches the tokens; localStorage shares them, and storage events    *)
(* tell the other pages of a write, one by one and later.  A request or    *)
(* its answer may be lost, and a page may be reloaded at any moment.       *)
(***************************************************************************)
EXTENDS Naturals, Sequences

CONSTANTS
    Tabs,
    MaxTokens       \* bound on the refresh tokens the server issues

ASSUME TokenAssumption == MaxTokens \in Nat \ {0}

VARIABLES
    tokens,         \* the rows of refresh_tokens, by age: parent and revoked_at
    old,            \* the access tokens issued with tokens 1..old have expired
    storage,        \* the refresh token in localStorage, 0: none
    cached,         \* per tab: cachedRefreshToken
    storageEvents,  \* per tab: the storage events it has yet to handle
    refreshing,     \* per tab: its refreshLocalSession
    crossed         \* a tab has written tokens before it handled another's write

tokenVars == <<tokens, old, storage, cached, storageEvents, refreshing, crossed>>

Idle0 == [at |-> "idle", used |-> 0, got |-> 0]

TokenTypeOK ==
    /\ tokens \in Seq([parent : 0..MaxTokens, revoked : BOOLEAN]) /\ Len(tokens) <= MaxTokens
    /\ old \in 0..Len(tokens) /\ storage \in 0..Len(tokens)
    /\ cached \in [Tabs -> 0..Len(tokens)]
    /\ \A t \in Tabs : storageEvents[t] \in Seq(0..Len(tokens))
    /\ refreshing \in [Tabs -> [at : {"idle", "sent", "answered"}, used : 0..Len(tokens),
                                got : 0..Len(tokens)]]
    /\ crossed \in BOOLEAN

-----------------------------------------------------------------------------
Accepted(k) == ~tokens[k].revoked

\* Mutant: the token itself is revoked as soon as it is used.
AllBefore(k) == {j \in DOMAIN tokens : j <= k}
\* The relatives that the first use of token k revokes: its parent and its siblings.
Superseded(k) ==
    LET p == tokens[k].parent
    IN  IF p = 0 THEN {} ELSE {j \in DOMAIN tokens : j # k /\ (j = p \/ tokens[j].parent = p)}

\* validate_and_rotate: got = 0 stands for a 401.
Rotate(t) ==
    LET k == refreshing[t].used IN
    /\ refreshing[t].at = "sent"
    /\ IF Accepted(k)
       THEN /\ Len(tokens) < MaxTokens
            /\ tokens' = Append([j \in DOMAIN tokens |->
                                    [tokens[j] EXCEPT !.revoked = @ \/ j \in Superseded(k)]],
                                [parent |-> k, revoked |-> FALSE])
            /\ refreshing' = [refreshing EXCEPT ![t].at = "answered",
                                                ![t].got = Len(tokens) + 1]
       ELSE /\ refreshing' = [refreshing EXCEPT ![t].at = "answered"]
            /\ UNCHANGED tokens
    /\ UNCHANGED <<old, storage, cached, storageEvents, crossed>>

\* The connection fails, before or after the server has acted: RefreshTokenError(0).
LoseRefresh(t) ==
    /\ refreshing[t].at # "idle"
    /\ refreshing' = [refreshing EXCEPT ![t] = Idle0]
    /\ UNCHANGED <<tokens, old, storage, cached, storageEvents, crossed>>

-----------------------------------------------------------------------------
\* getValidToken, request: one refresh at a time per page, when the access token is old.
StartRefresh(t) ==
    /\ refreshing[t].at = "idle" /\ cached[t] # 0 /\ cached[t] <= old
    /\ refreshing' = [refreshing EXCEPT ![t] = [at |-> "sent", used |-> cached[t], got |-> 0]]
    /\ UNCHANGED <<tokens, old, storage, cached, storageEvents, crossed>>

\* setTokens, clearAuth: memory first, then localStorage, whose other tabs hear of it.
WriteTokens(t, k) ==
    /\ cached' = [cached EXCEPT ![t] = k]
    /\ storage' = k
    /\ storageEvents' = [u \in Tabs |->
            IF u = t \/ storage = k THEN storageEvents[u] ELSE Append(storageEvents[u], k)]
    /\ crossed' = (crossed \/ storageEvents[t] # <<>>)

\* The tokens another tab has stored meanwhile win over the answer, a 401 included.
KeepsCached(t) == cached[t] # refreshing[t].used /\ cached[t] # 0

ReceiveRefresh(t) ==
    /\ refreshing[t].at = "answered"
    /\ refreshing' = [refreshing EXCEPT ![t] = Idle0]
    /\ IF KeepsCached(t)
       THEN UNCHANGED <<storage, cached, storageEvents, crossed>>
       ELSE WriteTokens(t, IF cached[t] = 0 THEN 0 ELSE refreshing[t].got)
    /\ UNCHANGED <<tokens, old>>

HandleStorageEvent(t) ==
    /\ storageEvents[t] # <<>>
    /\ cached' = [cached EXCEPT ![t] = Head(storageEvents[t])]
    /\ storageEvents' = [storageEvents EXCEPT ![t] = Tail(@)]
    /\ UNCHANGED <<tokens, old, storage, refreshing, crossed>>

\* The page, or the desktop application, is closed and opened again.
ReloadTab(t) ==
    /\ cached' = [cached EXCEPT ![t] = storage]
    /\ storageEvents' = [storageEvents EXCEPT ![t] = <<>>]
    /\ refreshing' = [refreshing EXCEPT ![t] = Idle0]
    /\ UNCHANGED <<tokens, old, storage, crossed>>

\* Access tokens live for minutes: they expire while no request and no event is under way.
AccessExpires ==
    /\ \A t \in Tabs : refreshing[t].at = "idle" /\ storageEvents[t] = <<>>
    /\ old < Len(tokens) /\ old' = Len(tokens)
    /\ UNCHANGED <<tokens, storage, cached, storageEvents, refreshing, crossed>>

-----------------------------------------------------------------------------
TokenInit ==
    /\ tokens = <<[parent |-> 0, revoked |-> FALSE]>> /\ old = 0 /\ storage = 1
    /\ cached = [t \in Tabs |-> 1] /\ storageEvents = [t \in Tabs |-> <<>>]
    /\ refreshing = [t \in Tabs |-> Idle0] /\ crossed = FALSE

TokenNext ==
    \/ \E t \in Tabs : \/ StartRefresh(t) \/ Rotate(t) \/ LoseRefresh(t) \/ ReceiveRefresh(t)
                       \/ HandleStorageEvent(t) \/ ReloadTab(t)
    \/ AccessExpires

TokenSpec == TokenInit /\ [][TokenNext]_tokenVars

-----------------------------------------------------------------------------
(* Unless two tabs have written tokens at the same moment, the browser keeps a
   token that the server accepts, whatever requests and answers are lost: nobody
   is signed out ("or the next refresh replays a rotated-away token", storage.ts). *)
SessionSurvives == crossed \/ (storage # 0 /\ Accepted(storage))
=============================================================================
