----------------------------- MODULE Automation -----------------------------
(***************************************************************************)
(* backend/app/services/automation.py: scheduled automations, dispatched   *)
(* by the maintenance loops of overlapping processes while their owner     *)
(* edits and deletes them.  A dispatcher selects the due rows, advances    *)
(* each by a compare-and-swap on next_run_at, commits once, and only then  *)
(* fires what it claimed, from the rows as it had selected them.           *)
(*                                                                         *)
(* Instants are 0..Horizon.  At Fold the clocks of the automation's zone   *)
(* go back by Repeated, so the wall clock shows that stretch twice; a      *)
(* schedule is the set of wall-clock times a cron expression matches.      *)
(***************************************************************************)
EXTENDS Naturals, FiniteSetsExt

CONSTANTS
    Automations, Dispatchers, Workspaces,
    NoDispatcher, NoAutomation, NoWorkspace,
    Crons,      \* the cron expressions, as sets of wall-clock times
    Horizon,        \* bound on time, after which a schedule has no slot left
    Fold, Repeated  \* the clock change

Time == 0..Horizon

ASSUME AutomationAssumption ==
    /\ Horizon \in Nat /\ Fold \in Time /\ Repeated \in 0..Fold
    /\ Crons \subseteq SUBSET Time /\ Crons # {} /\ Workspaces # {}
    /\ NoDispatcher \notin Dispatchers /\ NoAutomation \notin Automations
    /\ NoWorkspace \notin Workspaces

VARIABLES
    now,
    deleted,    \* the workspaces that were soft-deleted
    row,        \* the committed row of each automation, or NoRow
    rowLock,    \* who has written the row and not committed yet
    dispatch,   \* per dispatcher: the batch it is in
    edit,       \* the PATCH in progress: its automation, the row it read, and the
                \* workspace it found and is about to write
    fires,      \* how often each slot of each automation was run
    refolded    \* the automations rescheduled across the clock change

autoVars == <<now, deleted, row, rowLock, dispatch, edit, fires, refolded>>

Row == [enabled : BOOLEAN, schedule : Crons, next : Time, workspace : Workspaces]
NoRow == [enabled |-> FALSE, schedule |-> {}, next |-> 0, workspace |-> NoWorkspace]
NoFunction == [a \in {} |-> NoRow]
NoBatch == [at |-> "idle", seen |-> NoFunction, todo |-> {}, writes |-> NoFunction, fire |-> {}]
NoEdit == [automation |-> NoAutomation, read |-> NoRow, workspace |-> NoWorkspace]

Wall(t) == IF t < Fold THEN t ELSE t - Repeated

(***************************************************************************)
(* compute_next_run: croniter lists the matching instants after the base,  *)
(* and those that do not show a later wall-clock time are skipped.         *)
(***************************************************************************)
CronInstants(schedule, base) == {t \in Time : t > base /\ Wall(t) \in schedule}
\* Mutant: a wall-clock time that comes again is a slot again.
EveryInstant(schedule, base) == CronInstants(schedule, base)
NextRuns(schedule, base) == {t \in CronInstants(schedule, base) : Wall(t) > Wall(base)}
Computable(schedule) == NextRuns(schedule, now) # {}
NextRun(schedule) == Min(NextRuns(schedule, now))

AutomationTypeOK ==
    /\ now \in Time /\ deleted \subseteq Workspaces
    /\ \A a \in Automations :
         /\ row[a] \in Row \cup {NoRow}
         /\ rowLock[a] \in Dispatchers \cup {NoDispatcher}
         /\ rowLock[a] # NoDispatcher => a \in DOMAIN dispatch[rowLock[a]].writes
    /\ \A d \in Dispatchers :
         /\ dispatch[d].at \in {"idle", "batch", "firing"}
         /\ dispatch[d].todo \cup dispatch[d].fire \subseteq DOMAIN dispatch[d].seen
    /\ edit.automation \in Automations \cup {NoAutomation}
    /\ edit.workspace \in Workspaces \cup {NoWorkspace}
    /\ \A a \in Automations, t \in Time : fires[a][t] \in Nat

AutomationInit ==
    /\ now = 0 /\ deleted = {}
    /\ row \in [Automations ->
                  {[enabled |-> TRUE, schedule |-> s, next |-> Min(NextRuns(s, 0)), workspace |-> w] :
                      s \in {s \in Crons : NextRuns(s, 0) # {}}, w \in Workspaces}]
    /\ rowLock = [a \in Automations |-> NoDispatcher]
    /\ dispatch = [d \in Dispatchers |-> NoBatch]
    /\ edit = NoEdit
    /\ fires = [a \in Automations |-> [t \in Time |-> 0]]
    /\ refolded = {}

-----------------------------------------------------------------------------
(* run_due_automations, the batch *)

DueRow(a) == row[a] # NoRow /\ row[a].enabled /\ row[a].next <= now

SelectDue(d) ==
    /\ dispatch[d].at = "idle"
    /\ \E a \in Automations : DueRow(a)
    /\ LET due == {a \in Automations : DueRow(a)} IN
         dispatch' = [dispatch EXCEPT ![d] =
             [NoBatch EXCEPT !.at = "batch", !.todo = due, !.seen = [a \in due |-> row[a]]]]
    /\ UNCHANGED <<now, deleted, row, rowLock, edit, fires, refolded>>

\* Mutant: the claim looks at the id alone.
AnyRow(d, a) == row[a] # NoRow
\* UPDATE ... WHERE next_run_at is what was selected.  It waits for the lock of
\* the row, then looks at the row again.
StillThatSlot(d, a) == row[a] # NoRow /\ row[a].next = dispatch[d].seen[a].next

Write(d, a, new, claimed) ==
    /\ dispatch[d].at = "batch" /\ a \in dispatch[d].todo
    /\ rowLock[a] = NoDispatcher
    /\ IF StillThatSlot(d, a)
         THEN /\ rowLock' = [rowLock EXCEPT ![a] = d]
              /\ dispatch' = [dispatch EXCEPT
                   ![d].todo = @ \ {a},
                   ![d].writes = [b \in DOMAIN @ \cup {a} |-> IF b = a THEN new ELSE @[b]],
                   ![d].fire = IF claimed THEN @ \cup {a} ELSE @]
         ELSE /\ dispatch' = [dispatch EXCEPT ![d].todo = @ \ {a}]
              /\ UNCHANGED rowLock
    /\ UNCHANGED <<now, deleted, row, edit, fires>>

\* The claim.  The next slot is computed from the present instant.
ClaimSlot(d, a) ==
    /\ dispatch[d].at = "batch" /\ a \in dispatch[d].todo
    /\ Computable(dispatch[d].seen[a].schedule)
    /\ Write(d, a, [row[a] EXCEPT !.next = NextRun(dispatch[d].seen[a].schedule)], TRUE)
    /\ refolded' = IF dispatch[d].seen[a].next < Fold /\ Fold <= now
                   THEN refolded \cup {a} ELSE refolded

\* No slot is left: only the row that is still the broken one is disabled.
DisableUncomputable(d, a) ==
    /\ dispatch[d].at = "batch" /\ a \in dispatch[d].todo
    /\ ~Computable(dispatch[d].seen[a].schedule)
    /\ Write(d, a, [row[a] EXCEPT !.enabled = FALSE], FALSE)
    /\ UNCHANGED refolded

\* The user of the row could not be loaded: it stays due.
SkipRow(d, a) ==
    /\ dispatch[d].at = "batch" /\ a \in dispatch[d].todo
    /\ dispatch' = [dispatch EXCEPT ![d].todo = @ \ {a}]
    /\ UNCHANGED <<now, deleted, row, rowLock, edit, fires, refolded>>

CommitBatch(d) ==
    /\ dispatch[d].at = "batch" /\ dispatch[d].todo = {}
    /\ row' = [a \in Automations |-> IF rowLock[a] = d THEN dispatch[d].writes[a] ELSE row[a]]
    /\ rowLock' = [a \in Automations |-> IF rowLock[a] = d THEN NoDispatcher ELSE rowLock[a]]
    /\ dispatch' = [dispatch EXCEPT ![d] =
         IF @.fire = {} THEN NoBatch ELSE [@ EXCEPT !.at = "firing", !.writes = NoFunction]]
    /\ UNCHANGED <<now, deleted, edit, fires, refolded>>

\* A crash, or an error out of the batch (the database breaks a deadlock of two
\* dispatchers this way): what was written is rolled back, what was claimed by a
\* committed batch and has not run yet is lost.
AbandonBatch(d) ==
    /\ dispatch[d].at # "idle"
    /\ rowLock' = [a \in Automations |-> IF rowLock[a] = d THEN NoDispatcher ELSE rowLock[a]]
    /\ dispatch' = [dispatch EXCEPT ![d] = NoBatch]
    /\ UNCHANGED <<now, deleted, row, edit, fires, refolded>>

-----------------------------------------------------------------------------
(* run_due_automations, what follows the commit *)

Fired(d, a) ==
    dispatch' = [dispatch EXCEPT
        ![d] = IF @.fire = {a} THEN NoBatch ELSE [dispatch[d] EXCEPT !.fire = @ \ {a}]]

\* _fire: the chat is created and its turn started, or it fails for a reason
\* (a retired model, a revoked device, a turn that does not start) that leaves
\* the row alone.
Fire(d, a) ==
    /\ dispatch[d].at = "firing" /\ a \in dispatch[d].fire
    /\ Fired(d, a)
    /\ \/ /\ dispatch[d].seen[a].workspace \notin deleted
          /\ fires' = [fires EXCEPT ![a][dispatch[d].seen[a].next] = @ + 1]
       \/ UNCHANGED fires
    /\ UNCHANGED <<now, deleted, row, rowLock, edit, refolded>>

\* Mutant: the row is disabled wherever it points now.
AnyWorkspace(d, a) == row[a] # NoRow
StillPointsThere(d, a) == row[a] # NoRow /\ row[a].workspace = dispatch[d].seen[a].workspace

\* create_chat finds no workspace.
DisableForMissingWorkspace(d, a) ==
    /\ dispatch[d].at = "firing" /\ a \in dispatch[d].fire
    /\ dispatch[d].seen[a].workspace \in deleted
    /\ rowLock[a] = NoDispatcher
    /\ row' = IF StillPointsThere(d, a) THEN [row EXCEPT ![a].enabled = FALSE] ELSE row
    /\ Fired(d, a)
    /\ UNCHANGED <<now, deleted, rowLock, edit, fires, refolded>>

-----------------------------------------------------------------------------
(* The owner: update_automation, delete_automation; workspaces go *)

\* _get_owned, and _validate_workspace if the PATCH moves the automation.
EditReads(a) ==
    /\ edit = NoEdit /\ row[a] # NoRow
    /\ \E w \in (Workspaces \ deleted) \cup {NoWorkspace} :
         edit' = [automation |-> a, read |-> row[a], workspace |-> w]
    /\ UNCHANGED <<now, deleted, row, rowLock, dispatch, fires, refolded>>

\* The session writes the columns whose new value is not the one it read.
Merged(current, read, new) ==
    [f \in DOMAIN current |-> IF new[f] = read[f] THEN current[f] ELSE new[f]]

RepeatedStretch == Fold..(Fold + Repeated)

EditSchedule ==
    LET a == edit.automation IN
    /\ edit # NoEdit /\ edit.workspace = NoWorkspace /\ rowLock[a] = NoDispatcher
    /\ \E s \in Crons, e \in BOOLEAN :
         /\ Computable(s)
         /\ row' = IF row[a] = NoRow THEN row ELSE [row EXCEPT ![a] =
              Merged(@, edit.read, [edit.read EXCEPT
                  !.schedule = s, !.enabled = e, !.next = NextRun(s)])]
    /\ edit' = NoEdit
    /\ refolded' = IF now \in RepeatedStretch THEN refolded \cup {a} ELSE refolded
    /\ UNCHANGED <<now, deleted, rowLock, dispatch, fires>>

EditWorkspace ==
    LET a == edit.automation IN
    /\ edit # NoEdit /\ edit.workspace # NoWorkspace /\ rowLock[a] = NoDispatcher
    /\ row' = IF row[a] = NoRow THEN row ELSE [row EXCEPT ![a] =
         Merged(@, edit.read, [edit.read EXCEPT !.workspace = edit.workspace])]
    /\ edit' = NoEdit
    /\ UNCHANGED <<now, deleted, rowLock, dispatch, fires, refolded>>

\* 400, 404, or the connection fails: nothing is written.
EditRefused ==
    /\ edit # NoEdit
    /\ edit' = NoEdit
    /\ UNCHANGED <<now, deleted, row, rowLock, dispatch, fires, refolded>>

DeleteAutomation(a) ==
    /\ row[a] # NoRow /\ rowLock[a] = NoDispatcher
    /\ row' = [row EXCEPT ![a] = NoRow]
    /\ UNCHANGED <<now, deleted, rowLock, dispatch, edit, fires, refolded>>

\* The automations that point at the workspace go with it.
DeleteWorkspace(w) ==
    /\ w \notin deleted
    /\ \A a \in Automations : row[a].workspace = w => rowLock[a] = NoDispatcher
    /\ deleted' = deleted \cup {w}
    /\ row' = [a \in Automations |-> IF row[a].workspace = w THEN NoRow ELSE row[a]]
    /\ UNCHANGED <<now, rowLock, dispatch, edit, fires, refolded>>

TimePasses ==
    /\ now < Horizon
    /\ now' = now + 1
    /\ UNCHANGED <<deleted, row, rowLock, dispatch, edit, fires, refolded>>

AutomationNext ==
    \/ \E d \in Dispatchers :
         \/ SelectDue(d) \/ CommitBatch(d) \/ AbandonBatch(d)
         \/ \E a \in Automations :
              \/ ClaimSlot(d, a) \/ DisableUncomputable(d, a) \/ SkipRow(d, a)
              \/ Fire(d, a) \/ DisableForMissingWorkspace(d, a)
    \/ \E a \in Automations : EditReads(a) \/ DeleteAutomation(a)
    \/ EditSchedule \/ EditWorkspace \/ EditRefused
    \/ \E w \in Workspaces : DeleteWorkspace(w)
    \/ TimePasses

AutomationSpec == AutomationInit /\ [][AutomationNext]_autoVars

-----------------------------------------------------------------------------
\* However many dispatchers overlap, crash or are overtaken by an edit, no slot
\* of an automation runs twice, and no wall-clock time does either when the
\* clocks go back.  The second half does not hold, and is not claimed, for an
\* automation rescheduled from the repeated stretch: by an edit made in it, or
\* by a dispatcher that came to a slot of before the change only after it.
SlotFiresOnce ==
    \A a \in Automations, t, u \in Time :
        /\ fires[a][t] <= 1
        /\ t # u /\ Wall(t) = Wall(u) /\ a \notin refolded => fires[a][t] + fires[a][u] <= 1

\* A dispatcher disables only what is broken: the row it turns off still has the
\* schedule in which that dispatcher found no further slot, or points at a
\* workspace that is gone.  A row repaired since it was selected stays enabled.
OnlyBrokenDisabled ==
    [][ edit' = edit =>
        \A a \in Automations :
            row[a].enabled /\ row'[a] # NoRow /\ ~row'[a].enabled =>
                \/ row[a].workspace \in deleted
                \/ \E d \in Dispatchers :
                     /\ a \in DOMAIN dispatch[d].writes
                     /\ dispatch[d].seen[a].schedule = row[a].schedule ]_autoVars

=============================================================================
