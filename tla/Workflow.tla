------------------------------ MODULE Workflow ------------------------------
(***************************************************************************)
(* The workflow engine (src/apps/backend/src/core/workflow): services      *)
(* publish events, onAny finds the active workflows of the trigger and     *)
(* puts one job per workflow into a BullMQ queue, and a worker reads the   *)
(* workflow again and runs its actions, while administrators create, edit, *)
(* switch off and delete workflows.                                        *)
(*                                                                         *)
(* A job is the pair of a workflow and an event.  The queue is external:   *)
(* a job is tried once; one whose worker lost its lock ("stalled"), as the *)
(* worker died or its event loop was blocked, is handed out once more, and *)
(* a worker that was only blocked goes on with the first execution.        *)
(***************************************************************************)
EXTENDS Integers, Sequences, FiniteSets

CONSTANTS
  Workflows,     \* ids of workflows that may be created (bound)
  Events,        \* the events published, records with id, trigger, tenant
                 \* and payload
  Drafts,        \* the rows an administrator may write
  Holds(_, _),   \* do the conditions hold for the payload?
  HandsName,     \* is a listener of '**' called with the name of the event?
  MaxEdits,      \* edits and deletions of workflows (bound)
  MaxFaults,     \* failures and crashes (bound)
  None

VARIABLES
  workflows,  \* rows of Workflow
  heard,      \* per event: what became of it
  queueing,   \* per event: matching workflows whose job is still to be added
  matched,    \* the jobs an event was matched to
  status,     \* per job: its state in the queue
  stalls,     \* per job: how often it stalled
  runs,       \* per job and attempt: the actions left of the execution
  written,    \* per job and action: the notifications written
  missed,     \* events that no dispatch was started for, though one matched
  edits,      \* how many edits happened
  faults      \* how many failures happened

queue == <<status, stalls, runs, written>>
vars  == <<workflows, heard, queueing, matched, queue, missed, edits, faults>>

Jobs == Workflows \X Events

Attempts == {1, 2}

ActionTypes == {"notify", "log", "webhook"}

Rows == [tenant : {d.tenant : d \in Drafts},
         trigger : {d.trigger : d \in Drafts},
         conditions : {d.conditions : d \in Drafts},
         actions : {d.actions : d \in Drafts}, active : BOOLEAN]

\* The numbers of the actions workflows have.
ActionNumbers == UNION {DOMAIN d.actions : d \in Drafts}

\* An execution: the actions read and the number of the next, 0 while the
\* workflow is still to be read.
ToRead == [actions |-> <<>>, next |-> 0]

Executions == [actions : {d.actions : d \in Drafts}, next : Nat \ {0}]

Runs == {None, ToRead} \union Executions

ASSUME WorkflowAssumption ==
  /\ None \notin Rows \union {ToRead} \union Executions
  /\ HandsName \in BOOLEAN /\ MaxEdits \in Nat /\ MaxFaults \in Nat
  /\ \A d \in Drafts : d \in Rows /\ d.actions \in Seq(ActionTypes)
  /\ \A c \in {d.conditions : d \in Drafts}, e \in Events :
       Holds(c, e.payload) \in BOOLEAN

Init ==
  /\ workflows = [w \in Workflows |-> None]
  /\ heard = [e \in Events |-> "no"]
  /\ queueing = [e \in Events |-> {}]
  /\ matched = {}
  /\ status = [j \in Jobs |-> "none"]
  /\ stalls = [j \in Jobs |-> 0]
  /\ runs = [r \in Jobs \X Attempts |-> None]
  /\ written = [j \in Jobs |-> [i \in ActionNumbers |-> 0]]
  /\ missed = {}
  /\ edits = 0 /\ faults = 0

-----------------------------------------------------------------------------
(* The controller. *)

Edited == edits < MaxEdits /\ edits' = edits + 1

\* Ids are never used again.
Create(w, row) ==
  /\ workflows[w] = None /\ \A j \in matched : j[1] # w
  /\ workflows' = [workflows EXCEPT ![w] = row]
  /\ UNCHANGED <<heard, queueing, matched, queue, missed, edits, faults>>

\* update writes the columns of the body, never the tenant.
Update(w, row) ==
  /\ Edited
  /\ workflows[w] # None
  /\ workflows' = [workflows EXCEPT
                     ![w] = [row EXCEPT !.tenant = workflows[w].tenant]]
  /\ UNCHANGED <<heard, queueing, matched, queue, missed, faults>>

Remove(w) ==
  /\ Edited
  /\ workflows[w] # None
  /\ workflows' = [workflows EXCEPT ![w] = None]
  /\ UNCHANGED <<heard, queueing, matched, queue, missed, faults>>

-----------------------------------------------------------------------------
(* The engine. *)

\* Mutant of Matching: the workflows of all tenants.
MatchingAnyTenant(e) ==
  {w \in Workflows : /\ workflows[w] # None
                     /\ workflows[w].trigger = e.trigger
                     /\ workflows[w].active}

Matching(e) ==
  {w \in Workflows : /\ workflows[w] # None
                     /\ workflows[w].tenant = e.tenant
                     /\ workflows[w].trigger = e.trigger
                     /\ workflows[w].active}

\* A service publishes e.  onAny looks for the tenant in its second argument,
\* which an emitter that hands over the payload alone leaves undefined.
OnAny(e) ==
  /\ heard[e] = "no"
  /\ heard' = [heard EXCEPT ![e] = IF HandsName THEN "find" ELSE "over"]
  /\ missed' = IF HandsName \/ Matching(e) = {} THEN missed
                                                ELSE missed \union {e}
  /\ UNCHANGED <<workflows, queueing, matched, queue, edits, faults>>

\* dispatch: findMany.
Find(e) ==
  /\ heard[e] = "find"
  /\ heard' = [heard EXCEPT ![e] = IF Matching(e) = {} THEN "over" ELSE "add"]
  /\ queueing' = [queueing EXCEPT ![e] = Matching(e)]
  /\ matched' = matched \union (Matching(e) \X {e})
  /\ UNCHANGED <<workflows, queue, missed, edits, faults>>

\* Mutant of Add: only the first job is added.
AddFirst(e) ==
  /\ heard[e] = "add"
  /\ \E w \in queueing[e] : status' = [status EXCEPT ![<<w, e>>] = "waiting"]
  /\ queueing' = [queueing EXCEPT ![e] = {}]
  /\ heard' = [heard EXCEPT ![e] = "over"]
  /\ UNCHANGED <<workflows, matched, stalls, runs, written, missed, edits,
                 faults>>

\* dispatch: queue.add, one workflow after the other.
Add(e) ==
  /\ heard[e] = "add"
  /\ \E w \in queueing[e] :
       /\ queueing' = [queueing EXCEPT ![e] = @ \ {w}]
       /\ status' = [status EXCEPT ![<<w, e>>] = "waiting"]
       /\ heard' = IF queueing[e] = {w} THEN [heard EXCEPT ![e] = "over"]
                                        ELSE heard
  /\ UNCHANGED <<workflows, matched, stalls, runs, written, missed, edits,
                 faults>>

-----------------------------------------------------------------------------
(* The queue and its workers. *)

Attempt(j) == stalls[j] + 1

Take(j) ==
  /\ status[j] = "waiting"
  /\ status' = [status EXCEPT ![j] = "active"]
  /\ runs' = [runs EXCEPT ![<<j, Attempt(j)>>] = ToRead]
  /\ UNCHANGED <<workflows, heard, queueing, matched, stalls, written, missed,
                 edits, faults>>

\* The execution n of j ends; the queue hears of the one that has the lock.
End(j, n, outcome) ==
  /\ runs' = [runs EXCEPT ![<<j, n>>] = None]
  /\ status' = IF status[j] = "active" /\ n = Attempt(j)
               THEN [status EXCEPT ![j] = outcome] ELSE status

\* process looks at the workflow again, but not at its trigger.
Runnable(w, e) ==
  /\ workflows[w] # None /\ workflows[w].active
  /\ Holds(workflows[w].conditions, e.payload)

Read(j, n) ==
  /\ runs[<<j, n>>] = ToRead
  /\ IF Runnable(j[1], j[2])
     THEN /\ runs' = [runs EXCEPT ![<<j, n>>] =
                        [actions |-> workflows[j[1]].actions, next |-> 1]]
          /\ UNCHANGED status
     ELSE End(j, n, "done")
  /\ UNCHANGED <<workflows, heard, queueing, matched, stalls, written, missed,
                 edits, faults>>

\* Mutant of ActionsOf: the workflow is looked up for every action.
ActionsOfNow(j, n) ==
  IF workflows[j[1]] = None THEN <<>> ELSE workflows[j[1]].actions

ActionsOf(j, n) == runs[<<j, n>>].actions

Running(j, n) == runs[<<j, n>>] \notin {None, ToRead}

\* run: the next action.  A failure is caught, and the next one follows.
RunAction(j, n, fails) ==
  LET i == runs[<<j, n>>].next
  IN /\ Running(j, n)
     /\ i <= Len(ActionsOf(j, n))
     /\ runs' = [runs EXCEPT ![<<j, n>>].next = i + 1]
     /\ written' = IF ActionsOf(j, n)[i] = "notify" /\ ~fails
                   THEN [written EXCEPT ![j][i] = @ + 1] ELSE written
     /\ UNCHANGED <<workflows, heard, queueing, matched, status, stalls,
                    missed, edits>>

Act(j, n) == RunAction(j, n, FALSE) /\ UNCHANGED faults

Complete(j, n) ==
  /\ Running(j, n)
  /\ runs[<<j, n>>].next > Len(ActionsOf(j, n))
  /\ End(j, n, "done")
  /\ UNCHANGED <<workflows, heard, queueing, matched, stalls, written, missed,
                 edits, faults>>

\* Mutant of Stall: there is no end to it.
StallForever(j) ==
  /\ status[j] = "active"
  /\ status' = [status EXCEPT ![j] = "waiting"]
  /\ stalls' = [stalls EXCEPT ![j] = @ + 1]

\* Mutant of Stall: a stalled job is handed out again however often it stalls,
\* with the lock of the second attempt.
StallAgain(j) ==
  /\ status[j] = "active"
  /\ status' = [status EXCEPT ![j] = "waiting"]
  /\ stalls' = [stalls EXCEPT ![j] = 1]

\* The queue finds an active job without a lock: the first time it is handed
\* out again (maxStalledCount), the second time it fails.
Stall(j) ==
  /\ status[j] = "active"
  /\ status' = [status EXCEPT ![j] = IF stalls[j] = 0 THEN "waiting"
                                                      ELSE "failed"]
  /\ stalls' = [stalls EXCEPT ![j] = IF @ = 0 THEN 1 ELSE @]

StallRest == UNCHANGED <<workflows, heard, queueing, matched, runs, written,
                         missed, edits>>

\* The worker died before.
Abandoned(j) ==
  /\ runs[<<j, Attempt(j)>>] = None
  /\ Stall(j) /\ StallRest /\ UNCHANGED faults

-----------------------------------------------------------------------------
(* Failures. *)

Fault == faults < MaxFaults /\ faults' = faults + 1

\* The worker is blocked for too long, and goes on.
Blocked(j) ==
  /\ Fault
  /\ runs[<<j, Attempt(j)>>] # None
  /\ Stall(j) /\ StallRest

\* findMany or queue.add fails: logged, the rest is not queued.
DispatchFails(e) ==
  /\ Fault
  /\ heard[e] \in {"find", "add"}
  /\ heard' = [heard EXCEPT ![e] = "cut"]
  /\ queueing' = [queueing EXCEPT ![e] = {}]
  /\ UNCHANGED <<workflows, matched, queue, missed, edits>>

ReadFails(j, n) ==
  /\ Fault
  /\ runs[<<j, n>>] = ToRead
  /\ End(j, n, "failed")
  /\ UNCHANGED <<workflows, heard, queueing, matched, stalls, written, missed,
                 edits>>

ActionFails(j, n) == Fault /\ RunAction(j, n, TRUE)

\* The process dies, with the dispatches and the executions in it.
Crash ==
  /\ Fault
  /\ heard' = [e \in Events |-> IF heard[e] \in {"find", "add"} THEN "cut"
                                                              ELSE heard[e]]
  /\ queueing' = [e \in Events |-> {}]
  /\ runs' = [r \in Jobs \X Attempts |-> None]
  /\ UNCHANGED <<workflows, matched, status, stalls, written, missed, edits>>

Administer ==
  \E w \in Workflows : \/ Remove(w)
                       \/ \E row \in Drafts : Create(w, row) \/ Update(w, row)

Dispatch(e) == Find(e) \/ Add(e)

Work(j) ==
  \/ Take(j) \/ Abandoned(j)
  \/ \E n \in Attempts : Read(j, n) \/ Act(j, n) \/ Complete(j, n)

Next ==
  \/ Administer \/ Crash
  \/ \E e \in Events : OnAny(e) \/ Dispatch(e) \/ DispatchFails(e)
  \/ \E j \in Jobs : Work(j) \/ Blocked(j)
  \/ \E j \in Jobs, n \in Attempts : ReadFails(j, n) \/ ActionFails(j, n)

Spec == Init /\ [][Next]_vars

\* A dispatch goes on by itself, idle workers take what waits, an execution
\* goes on, and the queue looks for stalled jobs periodically.
FairSpec ==
  /\ Spec
  /\ \A e \in Events : WF_vars(Dispatch(e))
  /\ \A j \in Jobs : /\ WF_vars(Take(j)) /\ WF_vars(Abandoned(j))
                     /\ \A n \in Attempts : WF_vars(Read(j, n) \/ Act(j, n)
                                                    \/ Complete(j, n))

-----------------------------------------------------------------------------
\* Types of all variables; what is still to be queued was matched, and only
\* matched jobs are queued.
WorkflowTypeOK ==
  /\ workflows \in [Workflows -> Rows \union {None}]
  /\ heard \in [Events -> {"no", "find", "add", "over", "cut"}]
  /\ queueing \in [Events -> SUBSET Workflows]
  /\ matched \subseteq Jobs
  /\ status \in [Jobs -> {"none", "waiting", "active", "done", "failed"}]
  /\ stalls \in [Jobs -> {0, 1}]
  /\ runs \in [Jobs \X Attempts -> Runs]
  /\ written \in [Jobs -> [ActionNumbers -> Nat]]
  /\ missed \subseteq Events /\ edits \in 0..MaxEdits /\ faults \in 0..MaxFaults
  /\ \A e \in Events : queueing[e] \X {e} \subseteq matched
  /\ \A j \in Jobs : status[j] # "none" => j \in matched

\* An action of a workflow writes its notification at most once per event,
\* twice if the job stalled, even if the blocked worker and the second one run
\* the actions of two versions of the workflow at the same time.
RepeatedOnlyAfterStall ==
  \A j \in Jobs, i \in ActionNumbers : written[j][i] <= stalls[j] + 1

\* A notification is written only for an event the workflow was matched to, of
\* its own tenant, and goes to the tenant of the event: an edit of the trigger
\* or a move of the job between workers never sends it to another tenant.
NotifiesOwnTenant ==
  \A j \in Jobs : (\E i \in ActionNumbers : written[j][i] > 0) =>
    /\ j \in matched
    /\ workflows[j[1]] # None => workflows[j[1]].tenant = j[2].tenant

\* An execution runs the actions of one version of the workflow, all of them or
\* (the workflow is gone, switched off or no longer fits) none, whatever is
\* edited meanwhile: a job that is done without a stall or a failure has written
\* what one of the versions says.
OneVersionIsRun ==
  \A j \in Jobs : status[j] = "done" /\ faults = 0 =>
    \/ \A i \in ActionNumbers : written[j][i] = 0
    \/ \E d \in Drafts : \A i \in ActionNumbers :
         written[j][i] = IF i <= Len(d.actions) /\ d.actions[i] = "notify"
                         THEN 1 ELSE 0

\* Every workflow an event was matched to is executed to the end or fails,
\* unless a failure or a crash cut the dispatch off.
MatchedIsHandled ==
  \A j \in Jobs :
    (j \in matched) ~> (status[j] \in {"done", "failed"} \/ heard[j[2]] = "cut")

\* The engine "listens to internal domain events and dispatches matching
\* workflow definitions" (workflow.engine.ts:4-5): none of them goes by while a
\* workflow of its tenant waits for it.
EventsAreHeard == missed = {}

=============================================================================
