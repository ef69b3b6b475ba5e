----------------------------- MODULE PaneLayout -----------------------------
(***************************************************************************)
(* frontend/src/store/uiStore.ts: the panes of one browser window, with    *)
(* the effects of pages/ChatPage and pages/ChannelPage that load, rebuild  *)
(* and tear them down.  The chat of the route has the primary pane; other  *)
(* chats are split beside it, each in a slot.  A tile is a view of a slot. *)
(*                                                                         *)
(* Rows only matter to the geometry: a layout is its tiles in reading      *)
(* order.  What a workspace gets back is any layout of the primary slot,   *)
(* as though it had a saved one or none.  React runs the effects of a      *)
(* render before it handles the next event: nothing else happens while     *)
(* they are due.  The page of a deleted chat is not opened by its URL.     *)
(***************************************************************************)
EXTENDS Subsequence

CONSTANTS
    Threads,        \* chats
    SideViews,      \* views other than the agent: diff, editor, terminal
    MaxPanes,       \* MAX_CHAT_PANES
    MaxDeletes      \* bound on the chats deleted one by one

ASSUME PaneAssumption ==
    /\ MaxPanes \in Nat \ {0} /\ MaxDeletes \in Nat
    /\ IsFiniteSet(SideViews) /\ "editor" \in SideViews /\ "agent" \notin SideViews
    /\ Threads \cap {"landing", "channel", "elsewhere"} = {}

VARIABLES
    page,           \* the route: a chat, a channel, the landing page, inbox or settings
    workspace,      \* currentWorkspaceChatId
    screen,         \* openTabs, visibleLayout, splitChatIds, activeAgentTile, focusedTile
    saved,          \* deleted chats that have a layout in layoutsByChat
    wide,           \* isDesktop(), ~isMobile
    due,            \* an effect of ChatPage is to run
    erased          \* chats the server has deleted

paneVars == <<page, workspace, screen, saved, wide, due, erased>>

Slots == 0..(MaxPanes - 1)
Tiles == ({"agent"} \cup SideViews) \X Slots
Agent(n) == <<"agent", n>>
Primary == Agent(0)
NoTile == <<"none", 0>>
Slot(t) == t[2]
Channels == {"channel"}
NoneLoaded == "landing"      \* null, as on the landing page
TilesOf(s) == {s[i] : i \in DOMAIN s}
Final(s) == s[Len(s)]
Within(s, T) == Picked(s, {i \in DOMAIN s : s[i] \in T})

PaneTypeOK ==
    /\ page \in Threads \cup Channels \cup {"landing", "elsewhere"}
    /\ workspace \in Threads \cup Channels \cup {NoneLoaded}
    /\ screen.tabs \subseteq Tiles /\ screen.visible \in Seq(Tiles)
    /\ screen.split \in Seq(Threads) /\ Len(screen.split) < MaxPanes
    /\ screen.active \in Slots /\ screen.focused \in Tiles \cup {NoTile}
    /\ wide \in BOOLEAN /\ due \in BOOLEAN
    /\ saved \subseteq erased /\ erased \subseteq Threads

-----------------------------------------------------------------------------
(* What each operation of the store makes of the screen u *)

FreshScreen ==
    [tabs |-> {Primary}, visible |-> <<Primary>>, split |-> <<>>, active |-> 0,
     focused |-> NoTile]

FocusOn(u, t) == [u EXCEPT !.focused = t, !.active = Slot(t)]
Focused(u, t) == IF u.focused = t THEN u ELSE FocusOn(u, t)     \* focusTile
ShowOnly(u, t) == FocusOn([u EXCEPT !.visible = <<t>>], t)
OpenTile(u, t) == [u EXCEPT !.tabs = @ \cup {t}]
ActiveSlot(u) == IF u.active \in DOMAIN u.split THEN u.active ELSE 0

\* rebuildSplitGrid: an agent tile for every chat, and nothing else in sight.
Rebuilt(u) ==
    LET grid == [i \in 1..(Len(u.split) + 1) |-> Agent(i - 1)]
    IN  [u EXCEPT !.tabs = @ \cup TilesOf(grid), !.visible = grid]

NotEmpty(v) == IF v = <<>> THEN <<Primary>> ELSE v

RemoveTab(u, t) ==
    LET rest == Within(u.visible, Tiles \ {t})
        owner == IF Agent(Slot(t)) \in u.tabs THEN Agent(Slot(t)) ELSE Primary
        v == IF rest = <<>> THEN <<owner>> ELSE rest
        w == [u EXCEPT !.tabs = @ \ {t}, !.visible = v]
    IN  IF u.focused = t THEN FocusOn(w, Final(v)) ELSE w

CloseAll(u) ==
    IF u.split = <<>> /\ \A t \in u.tabs : Slot(t) = 0 THEN u
    ELSE [tabs |-> {t \in u.tabs : Slot(t) = 0},
          visible |-> NotEmpty(Within(u.visible, {t \in Tiles : Slot(t) = 0})),
          split |-> <<>>, active |-> 0, focused |-> NoTile]

\* Mutant: the tiles behind the closed slot stay where they are.
StayAfter(t, k) == t
\* compactTileAfter: the tiles behind the closed slot move up with their chats.
CompactAfter(t, k) == IF Slot(t) > k THEN <<t[1], Slot(t) - 1>> ELSE t

\* closeSplitChat of one chat.
CloseOne(u, c) ==
    LET k == CHOOSE i \in DOMAIN u.split : u.split[i] = c
        left == Within(u.visible, {t \in Tiles : Slot(t) # k})
        v == NotEmpty([i \in DOMAIN left |-> CompactAfter(left[i], k)])
        w == [tabs |-> {CompactAfter(t, k) : t \in {s \in u.tabs : Slot(s) # k}},
              visible |-> v,
              split |-> Within(u.split, Threads \ {c}),
              active |-> IF u.active = k THEN 0 ELSE Slot(CompactAfter(Agent(u.active), k)),
              focused |-> CompactAfter(u.focused, k)]
    IN  IF c \notin TilesOf(u.split) THEN u
        ELSE IF u.focused # NoTile /\ Slot(u.focused) = k THEN FocusOn(w, Final(v))
        ELSE w

-----------------------------------------------------------------------------
(* Workspaces: the tabs of a chat or channel are saved when another is loaded *)

OwnLayouts ==
    UNION {{[tabs |-> tabs, visible |-> v] :
                v \in {s \in UNION {[1..n -> tabs] : n \in 1..Cardinality(tabs)} :
                           \A i, j \in DOMAIN s : s[i] = s[j] => i = j}} :
           tabs \in {{Primary} \cup s : s \in SUBSET (SideViews \X {0})}}

\* stashWorkspace by the page that is left or by loadWorkspace(p), for the workspace w.
Stashed(w, p) ==
    saved' = IF page = "elsewhere" /\ p = "landing" THEN saved
             ELSE saved \cup ({w} \cap erased')

\* loadWorkspace(w)
Loaded(u, w) ==
    IF workspace = w THEN {u}
    ELSE {[u EXCEPT !.tabs = l.tabs, !.visible = l.visible] : l \in OwnLayouts}
Unfocused(u) == [u EXCEPT !.active = 0, !.focused = NoTile]

\* What a page does when it is shown; again is TRUE if it was the page of another chat.
Show(p, u, again) ==
    /\ page' = p /\ due' = (p \in Threads)
    /\ \/ /\ p \in Threads /\ workspace' = p
          /\ \E l \in Loaded(u, p) : screen' = IF again THEN Unfocused(CloseOne(l, p)) ELSE l
       \/ p \in Channels /\ workspace' = p /\ screen' \in Loaded(CloseAll(u), p)
       \/ p = "landing" /\ workspace' = NoneLoaded /\ screen' = FreshScreen
       \/ p = "elsewhere" /\ UNCHANGED workspace /\ screen' = u

Go(p) ==
    /\ ~due /\ p # page /\ p \notin erased
    /\ UNCHANGED <<wide, erased>> /\ Stashed(workspace, p)
    /\ Show(p, screen, page \in Threads)

\* The focus and the layouts of other pages are not persisted.
ReloadPage ==
    /\ page \notin erased
    /\ Show(page, Unfocused(screen), FALSE) /\ saved' = {}
    /\ UNCHANGED <<wide, erased>>

\* The effects of ChatPage: the chat of the route leaves the split, missing panes come back.
RunEffects ==
    LET missing == \E i \in DOMAIN screen.split : Agent(i) \notin screen.tabs IN
    /\ due
    /\ IF page = workspace /\ page \in TilesOf(screen.split)
       THEN screen' = CloseOne(screen, page) /\ UNCHANGED due
       ELSE /\ due' = FALSE
            /\ screen' = IF page = workspace /\ wide /\ missing THEN Rebuilt(screen)
                         ELSE screen
    /\ UNCHANGED <<page, workspace, saved, wide, erased>>

Resize ==
    /\ ~due /\ wide' = ~wide /\ due' = (page \in Threads)
    /\ UNCHANGED <<page, workspace, screen, saved, erased>>

-----------------------------------------------------------------------------
(* The user *)

\* Only a change of the split chats makes effects due.
Becomes(u) ==
    /\ ~due /\ screen' = u /\ u # screen
    /\ due' = (page \in Threads /\ u.split # screen.split)
    /\ UNCHANGED <<page, workspace, saved, wide, erased>>

\* paintedLayout: a narrow window shows the focused tile, or the first.
Painted ==
    IF wide THEN TilesOf(screen.visible)
    ELSE {IF screen.focused \in TilesOf(screen.visible) THEN screen.focused
          ELSE Head(screen.visible)}

\* A pane is clicked; the session panel turns to the primary chat though another pane hides it.
FocusTile ==
    /\ page = workspace
    /\ \E t \in Painted \cup {Primary} : Becomes(Focused(screen, t))

\* toggleView: the agent.
ToggleAgent(toggle) ==
    Becomes(IF toggle /\ screen.split # <<>> THEN CloseAll(screen)
            ELSE ShowOnly(screen, Primary))

\* toggleView: another view, of the active pane.
ToggleView(v, toggle) ==
    LET t == <<v, ActiveSlot(screen)>>
        narrowed == IF toggle /\ Head(screen.visible) = t THEN Primary ELSE t
    IN  Becomes(
          IF ~wide THEN ShowOnly([screen EXCEPT !.tabs = {Primary, narrowed}], narrowed)
          ELSE IF toggle /\ t \in screen.tabs \cap TilesOf(screen.visible)
               THEN RemoveTab(screen, t)
          ELSE ShowOnly(OpenTile(screen, t), t))

Beside(u, t) == [u EXCEPT !.visible = IF t \in TilesOf(@) THEN @ ELSE Append(@, t)]

AddViewToSplit(v) ==
    LET t == <<v, ActiveSlot(screen)>>
    IN  page # "elsewhere" /\ Becomes(FocusOn(Beside(OpenTile(screen, t), t), t))

\* openFileInEditor, for a file of the chat in slot n.
OpenFile(n, split) ==
    LET t == <<"editor", n>>
        u == OpenTile(screen, t)
    IN  /\ page # "elsewhere"
        /\ Becomes(IF t \in TilesOf(screen.visible) \/ (split /\ wide) THEN Focused(Beside(u, t), t)
                   ELSE ShowOnly(u, t))

\* openChatInSplit, which the sidebar offers on a chat's page of a wide window.
OpenChatInSplit(c) ==
    LET known == c \in TilesOf(screen.split)
        more == [screen EXCEPT !.split = IF known THEN @ ELSE Append(@, c)]
    IN  /\ wide /\ page \in Threads \ {c} /\ c \notin erased
        /\ known \/ Len(screen.split) < MaxPanes - 1
        /\ Becomes(IF known THEN Focused(Rebuilt(more), Agent(CHOOSE i \in DOMAIN more.split :
                                                                 more.split[i] = c))
                   ELSE Unfocused(Rebuilt(more)))

\* A tab of the title bar is closed, or the chat cannot be fetched.
CloseSplitChat(c) == page \in Threads /\ Becomes(CloseOne(screen, c))

\* The tab of the chat that is shown is clicked.
ShowPrimary ==
    /\ page \in Threads
    /\ Becomes(IF Primary \in TilesOf(screen.visible) THEN Focused(screen, Primary)
               ELSE ShowOnly(screen, Primary))

\* Mutant: the pointer to the workspace stays.
KeepPointer(c) == workspace
\* cleanupChat
PointerWithout(c) == IF workspace = c THEN NoneLoaded ELSE workspace

\* A deletion is confirmed by the server.  here: c was the page's chat when the user asked for it.
DeleteChat(c, here) ==
    /\ ~due /\ c \notin erased /\ Cardinality(erased) < MaxDeletes
    /\ erased' = erased \cup {c} /\ UNCHANGED wide
    /\ \/ /\ here /\ page # "landing"
          /\ Show("landing", screen, FALSE) /\ Stashed(PointerWithout(c), "landing")
       \/ /\ ~here \/ page = "landing"
          /\ workspace' = PointerWithout(c)
          /\ screen' = IF here THEN CloseAll(screen) ELSE CloseOne(screen, c)
          /\ due' = (page \in Threads) /\ UNCHANGED <<page, saved>>

\* useDeleteAllChatsMutation of the settings; by the time it ends the user may be elsewhere.
DeleteAllChats ==
    /\ ~due /\ erased # Threads
    /\ erased' = Threads /\ workspace' = NoneLoaded /\ screen' = FreshScreen
    /\ saved' = {} /\ due' = (page \in Threads) /\ UNCHANGED <<page, wide>>

-----------------------------------------------------------------------------
PaneInit ==
    /\ page = "landing" /\ workspace = NoneLoaded /\ screen = FreshScreen
    /\ saved = {} /\ wide \in BOOLEAN /\ due = FALSE /\ erased = {}

UserActs ==
    \/ FocusTile \/ ShowPrimary \/ Resize \/ DeleteAllChats
    \/ \E toggle \in BOOLEAN :
           \/ ToggleAgent(toggle)
           \/ \E v \in SideViews : ToggleView(v, toggle)
           \/ \E n \in 0..Len(screen.split) : OpenFile(n, toggle)
    \/ \E v \in SideViews : AddViewToSplit(v)
    \/ \E c \in Threads :
           \/ OpenChatInSplit(c) \/ CloseSplitChat(c)
           \/ \E here \in BOOLEAN : DeleteChat(c, here)

PaneNext ==
    \/ RunEffects \/ UserActs \/ ReloadPage
    \/ \E p \in Threads \cup Channels \cup {"landing", "elsewhere"} : Go(p)
PaneSpec == PaneInit /\ [][PaneNext]_paneVars

-----------------------------------------------------------------------------
(* What ui.types.ts says of the layout: the primary agent is always open, something is always
   visible, what is visible is open, a chat is split once, and a split tile has its chat. *)
LayoutSane ==
    /\ Primary \in screen.tabs /\ screen.visible # <<>>
    /\ TilesOf(screen.visible) \subseteq screen.tabs
    /\ \A i, j \in DOMAIN screen.visible : screen.visible[i] = screen.visible[j] => i = j
    /\ \A i, j \in DOMAIN screen.split : screen.split[i] = screen.split[j] => i = j
    /\ \A t \in screen.tabs : Slot(t) <= Len(screen.split)

(* Shortcuts go to the chat of the focused tile, and never to a pane that is gone. *)
FocusCoherent ==
    /\ screen.focused # NoTile => screen.active = Slot(screen.focused)
    /\ screen.active <= Len(screen.split)

(* Once the effects have run, the chat of the route has one pane and every other split chat
   can be reached. *)
SplitsShown ==
    ~due /\ wide /\ page \in Threads /\ workspace = page =>
        /\ page \notin TilesOf(screen.split)
        /\ \A i \in DOMAIN screen.split : Agent(i) \in screen.tabs

(* A deleted chat does not come back with the layout that is saved when its page is left. *)
NoResurrection == saved = {} /\ workspace \notin erased

LayoutSafe == LayoutSane /\ FocusCoherent /\ SplitsShown /\ NoResurrection

Pane(u, t) == <<t[1], IF Slot(t) \in DOMAIN u.split THEN u.split[Slot(t)] ELSE "primary">>
Panes(u, s) == [i \in DOMAIN s |-> Pane(u, s[i])]

\* From screen u to screen w the panes whose chats are still there stay what and where they are.
PanesFollow(u, w) ==
    LET Keeps(t) == Slot(t) = 0 \/ Pane(u, t)[2] \in TilesOf(w.split)
        left == Picked(u.visible, {i \in DOMAIN u.visible : Keeps(u.visible[i])})
    IN  /\ {Pane(w, t) : t \in w.tabs} = {Pane(u, t) : t \in {s \in u.tabs : Keeps(s)}}
        /\ left # <<>> => Panes(w, w.visible) = Panes(u, left)
        /\ Keeps(Agent(u.active)) => Pane(w, Agent(w.active)) = Pane(u, Agent(u.active))

(* A pane that closes takes no other along: every tile of the remaining chats, and the focus,
   stays with its chat, though the slots are numbered anew. *)
ClosingKeepsPanes ==
    [][page' = page /\ workspace' = workspace /\ workspace # NoneLoaded
           /\ Len(screen'.split) < Len(screen.split) => PanesFollow(screen, screen')]_paneVars
=============================================================================
