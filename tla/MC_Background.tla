--------------------------- MODULE MC_Background ---------------------------
(***************************************************************************)
(* The small protocols that run beside the turns, checked together.  They  *)
(* share no state: a behaviour is one of one of them, chosen at the start, *)
(* while the others stay where they began.                                 *)
(***************************************************************************)
EXTENDS TokenRefresh, PushDelivery, SubThreadWake, Automation, Terminal,
        MachineSession, PaneLayout

VARIABLE part

Parts == {"tokens", "push", "wake", "automations", "terminals", "machines", "panes"}
AnySchedule == CHOOSE s \in Crons : NextRuns(s, 0) # {}
AnyPlace == CHOOSE w \in Workspaces : TRUE

BackgroundInit ==
    /\ TokenInit /\ PushInit /\ WakeInit /\ AutomationInit /\ TerminalInit
    /\ MachineInit /\ PaneInit
    /\ part \in Parts
    /\ part # "automations" =>
         \A a \in Automations : row[a].schedule = AnySchedule /\ row[a].workspace = AnyPlace
    /\ part # "panes" => wide

BackgroundNext ==
    \/ part = "tokens" /\ TokenNext
       /\ UNCHANGED <<part, pushVars, wakeVars, autoVars, termVars, machineVars,
                       paneVars>>
    \/ part = "push" /\ PushNext
       /\ UNCHANGED <<part, tokenVars, wakeVars, autoVars, termVars, machineVars,
                       paneVars>>
    \/ part = "wake" /\ WakeNext
       /\ UNCHANGED <<part, tokenVars, pushVars, autoVars, termVars, machineVars,
                       paneVars>>
    \/ part = "automations" /\ AutomationNext
       /\ UNCHANGED <<part, tokenVars, pushVars, wakeVars, termVars, machineVars,
                       paneVars>>
    \/ part = "terminals" /\ TerminalNext
       /\ UNCHANGED <<part, tokenVars, pushVars, wakeVars, autoVars, machineVars,
                       paneVars>>
    \/ part = "machines" /\ MachineNext
       /\ UNCHANGED <<part, tokenVars, pushVars, wakeVars, autoVars, termVars,
                       paneVars>>
    \/ part = "panes" /\ PaneNext
       /\ UNCHANGED <<part, tokenVars, pushVars, wakeVars, autoVars, termVars,
                       machineVars>>

backgroundVars == <<part, tokenVars, pushVars, wakeVars, autoVars, termVars,
                    machineVars, paneVars>>

\* Only deliveries and reports are asked for liveness.
BackgroundSpec ==
    BackgroundInit /\ [][BackgroundNext]_backgroundVars /\ PushFairness /\ WakeFairness

\* Every component's variables stay in the sets they are drawn from; a row lock
\* belongs to a dispatcher that wrote the row, a delivery to a device that exists,
\* and a report the parent has not heard of is still somewhere.
BackgroundTypeOK ==
    /\ part \in Parts /\ TokenTypeOK /\ PushTypeOK /\ WakeTypeOK /\ AutomationTypeOK
    /\ TerminalTypeOK /\ MachineTypeOK /\ PaneTypeOK

(* Sessions: this server's survives lost answers, races of tabs and restarts, and a remote
   machine's is there as long as the page shows the machine as online, and gone with it. *)
SessionsSafe == SessionSurvives /\ MachineSafe

(* What a window shows: a terminal pane goes with the socket that took the shell last, and
   however panes are opened, split, closed and restored, each has its chat and none a deleted one. *)
WindowSafe == TerminalSafe /\ LayoutSafe

=============================================================================
