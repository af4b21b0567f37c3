--------------------------- MODULE WorkflowProofs ---------------------------
(* Theorems about the workflow engine, for every value of the constants:   *)
(* any number of workflows, events, edits and failures, any conditions and  *)
(* any lists of actions.                                                    *)
EXTENDS Workflow, TLAPS

-----------------------------------------------------------------------------
(* The inductive invariant.                                                *)

\* There are no executions by attempts that were not made yet.
NoRunAhead ==
  \A j \in Jobs, n \in Attempts :
    n > Attempt(j) \/ (n = Attempt(j) /\ status[j] \in {"none", "waiting"})
      => runs[<<j, n>>] = None

\* A job still to be added is not in the queue, nor one of an event for which
\* nothing was looked up.
AddedOnce ==
  \A e \in Events, w \in Workflows :
    heard[e] \in {"no", "find"} \/ w \in queueing[e] => status[<<w, e>>] = "none"

\* Will attempt n of job j still come to action i?
Left(j, n, i) ==
  IF \/ runs[<<j, n>>] = ToRead
     \/ Running(j, n) /\ runs[<<j, n>>].next <= i
  THEN 1 ELSE 0

\* Is the last attempt of job j still to be made?
ToStart(j) == IF status[j] \in {"none", "waiting"} THEN 1 ELSE 0

\* What was written and what may still be is no more than one for each attempt.
Account(j, i) == written[j][i] + Left(j, 1, i) + Left(j, 2, i) + ToStart(j)

Accounted == \A j \in Jobs, i \in ActionNumbers : Account(j, i) <= Attempt(j)

OnceInv == WorkflowTypeOK /\ NoRunAhead /\ AddedOnce /\ Accounted

-----------------------------------------------------------------------------
(* The steps, and the types.                                               *)

LEMMA JobParts ==
  /\ \A j \in Jobs : j[1] \in Workflows /\ j[2] \in Events /\ j = <<j[1], j[2]>>
  /\ \A w \in Workflows, e \in Events :
       <<w, e>> \in Jobs /\ <<w, e>>[1] = w /\ <<w, e>>[2] = e
BY DEF Jobs

LEMMA NumberTypes == ActionNumbers \subseteq Nat \ {0}
<1>1. ASSUME NEW d \in Drafts PROVE DOMAIN d.actions \subseteq Nat \ {0}
  <2>1. d.actions \in Seq(ActionTypes)
    BY WorkflowAssumption
  <2> QED
    BY <2>1
<1> QED
  BY <1>1 DEF ActionNumbers

LEMMA RunKinds ==
  /\ None # ToRead /\ None \notin Executions /\ ToRead \notin Executions
  /\ \A r \in Executions : /\ r.actions \in Seq(ActionTypes)
                           /\ DOMAIN r.actions \subseteq ActionNumbers
                           /\ Len(r.actions) \in Nat
                           /\ r.next \in Nat \ {0}
<1>1. None # ToRead /\ None \notin Executions
  BY WorkflowAssumption
<1>2. ASSUME NEW r \in Executions
      PROVE  /\ r.actions \in Seq(ActionTypes)
             /\ DOMAIN r.actions \subseteq ActionNumbers
             /\ Len(r.actions) \in Nat
             /\ r.next \in Nat \ {0}
  <2>1. r.actions \in {d.actions : d \in Drafts} /\ r.next \in Nat \ {0}
    BY DEF Executions
  <2>2. PICK d \in Drafts : r.actions = d.actions
    BY <2>1
  <2>3. r.actions \in Seq(ActionTypes)
    BY <2>2, WorkflowAssumption
  <2>4. Len(r.actions) \in Nat
    BY <2>3
  <2>5. DOMAIN r.actions \subseteq ActionNumbers
    BY <2>2 DEF ActionNumbers
  <2> QED
    BY <2>1, <2>3, <2>4, <2>5
<1>3. ToRead.next = 0
  BY DEF ToRead
<1>4. ToRead \notin Executions
  BY <1>2, <1>3
<1> QED
  BY <1>1, <1>2, <1>4

(* A step, as far as the queue is concerned.                               *)

\* The execution n of j reads its workflow, or comes to its end.
Begins(j, n) ==
  /\ runs[<<j, n>>] = ToRead
  /\ workflows[j[1]] # None
  /\ runs' = [runs EXCEPT ![<<j, n>>] =
                [actions |-> workflows[j[1]].actions, next |-> 1]]
  /\ UNCHANGED <<status, stalls, written>>

Ends(j, n) ==
  /\ \/ runs[<<j, n>>] = ToRead
     \/ Running(j, n) /\ runs[<<j, n>>].next > Len(ActionsOf(j, n))
  /\ \E outcome \in {"done", "failed"} : End(j, n, outcome)
  /\ UNCHANGED <<stalls, written>>

Acts(j, n) == \E fails \in BOOLEAN : RunAction(j, n, fails)

Stalls(j) == Stall(j) /\ StallRest

\* The steps that leave the dispatches alone.
Executes ==
  \/ \E j \in Jobs : Take(j) \/ Stalls(j)
  \/ \E j \in Jobs, n \in Attempts : Begins(j, n) \/ Ends(j, n) \/ Acts(j, n)

LEMMA Steps ==
  ASSUME Next
  PROVE  \/ Administer
         \/ \E e \in Events : OnAny(e) \/ Find(e) \/ Add(e) \/ DispatchFails(e)
         \/ /\ Executes
            /\ UNCHANGED <<workflows, heard, queueing, matched, missed, edits>>
            /\ faults' = faults \/ Fault
         \/ Crash
<1>1. CASE \E e \in Events : OnAny(e) \/ Dispatch(e) \/ DispatchFails(e)
  BY <1>1 DEF Dispatch
<1>2. CASE \E j \in Jobs : Take(j) \/ Abandoned(j) \/ Blocked(j)
  BY <1>2 DEF Executes, Take, Abandoned, Blocked, Stalls, StallRest
<1>3. ASSUME NEW j \in Jobs, NEW n \in Attempts, Read(j, n)
      PROVE  Begins(j, n) \/ Ends(j, n)
  <2>1. CASE Runnable(j[1], j[2])
    BY <1>3, <2>1 DEF Read, Runnable, Begins
  <2>2. CASE ~Runnable(j[1], j[2])
    BY <1>3, <2>2 DEF Read, Ends
  <2> QED
    BY <2>1, <2>2
<1>4. ASSUME NEW j \in Jobs, NEW n \in Attempts
      PROVE  /\ Complete(j, n) \/ ReadFails(j, n) => Ends(j, n)
             /\ Act(j, n) \/ ActionFails(j, n) => Acts(j, n)
  BY DEF Complete, ReadFails, Ends, Act, ActionFails, Acts
<1>5. CASE \E j \in Jobs, n \in Attempts :
             \/ Read(j, n) \/ Act(j, n) \/ Complete(j, n)
             \/ ReadFails(j, n) \/ ActionFails(j, n)
  <2>1. PICK j \in Jobs, n \in Attempts :
             \/ Read(j, n) \/ Act(j, n) \/ Complete(j, n)
             \/ ReadFails(j, n) \/ ActionFails(j, n)
    BY <1>5
  <2>2. Executes
    BY <2>1, <1>3, <1>4 DEF Executes
  <2> QED
    BY <2>1, <2>2 DEF Read, Act, Complete, ReadFails, ActionFails, RunAction
<1> QED
  BY <1>1, <1>2, <1>5 DEF Next, Work

(* What the administrators write are rows of the type.                     *)
LEMMA DraftRows ==
  ASSUME NEW d \in Drafts
  PROVE  /\ d \in Rows
         /\ d.actions \in {f.actions : f \in Drafts}
         /\ \A r \in Rows : [d EXCEPT !.tenant = r.tenant] \in Rows
<1>1. d \in Rows
  BY WorkflowAssumption
<1> QED
  BY <1>1 DEF Rows

(* An execution that begins runs actions somebody wrote.                   *)
LEMMA RowActions ==
  ASSUME WorkflowTypeOK, NEW w \in Workflows, workflows[w] # None
  PROVE  [actions |-> workflows[w].actions, next |-> 1] \in Executions
<1>1. workflows[w] \in Rows
  BY DEF WorkflowTypeOK
<1> QED
  BY <1>1 DEF Rows, Executions

LEMMA RowTypes ==
  ASSUME WorkflowTypeOK, Administer
  PROVE  /\ workflows' \in [Workflows -> Rows \union {None}]
         /\ edits' \in 0..MaxEdits
<1>1. workflows \in [Workflows -> Rows \union {None}] /\ edits \in 0..MaxEdits
  BY DEF WorkflowTypeOK
<1>2. ASSUME NEW w \in Workflows, NEW row \in Drafts, Create(w, row)
      PROVE  /\ workflows' \in [Workflows -> Rows \union {None}]
             /\ edits' \in 0..MaxEdits
  BY <1>1, <1>2, DraftRows DEF Create
<1>3. Edited => edits' \in 0..MaxEdits
  BY <1>1, WorkflowAssumption DEF Edited
<1>4. ASSUME NEW w \in Workflows, NEW row \in Drafts, Update(w, row)
      PROVE  /\ workflows' \in [Workflows -> Rows \union {None}]
             /\ edits' \in 0..MaxEdits
  <2>1. workflows[w] \in Rows
    BY <1>1, <1>4 DEF Update
  <2>2. [row EXCEPT !.tenant = workflows[w].tenant] \in Rows
    BY <2>1, DraftRows
  <2> QED
    BY <1>1, <1>3, <1>4, <2>2 DEF Update
<1>5. ASSUME NEW w \in Workflows, Remove(w)
      PROVE  /\ workflows' \in [Workflows -> Rows \union {None}]
             /\ edits' \in 0..MaxEdits
  BY <1>1, <1>3, <1>5 DEF Remove
<1> QED
  BY <1>2, <1>4, <1>5 DEF Administer

\* The types of what the queue keeps.
QueueTypes ==
  /\ status \in [Jobs -> {"none", "waiting", "active", "done", "failed"}]
  /\ stalls \in [Jobs -> {0, 1}]
  /\ runs \in [Jobs \X Attempts -> Runs]
  /\ written \in [Jobs -> [ActionNumbers -> Nat]]

(* Where an execution stands that is to act, and what it is after.         *)
LEMMA ActPosition ==
  ASSUME QueueTypes, NEW j \in Jobs, NEW n \in Attempts, Acts(j, n)
  PROVE  LET r == runs[<<j, n>>]
         IN /\ Running(j, n) /\ r \in Executions /\ r.next \in ActionNumbers
            /\ [r EXCEPT !.next = r.next + 1] \in Executions
<1> DEFINE r == runs[<<j, n>>]
<1>1. Running(j, n) /\ r \in Executions /\ r.next <= Len(r.actions)
  BY DEF Acts, RunAction, Running, ActionsOf, QueueTypes, Runs
<1>2. r.next \in ActionNumbers /\ r.next + 1 \in Nat \ {0}
  <2>1. /\ r.next \in Nat \ {0} /\ r.actions \in Seq(ActionTypes)
        /\ DOMAIN r.actions \subseteq ActionNumbers
    BY <1>1, RunKinds
  <2>2. r.next \in DOMAIN r.actions
    BY <1>1, <2>1
  <2> QED
    BY <2>1, <2>2
<1>3. [r EXCEPT !.next = r.next + 1] \in Executions
  BY <1>1, <1>2 DEF Executions
<1> QED
  BY <1>1, <1>2, <1>3

LEMMA ActTypes ==
  ASSUME QueueTypes, NEW j \in Jobs, NEW n \in Attempts, Acts(j, n)
  PROVE  QueueTypes'
<1> DEFINE r == runs[<<j, n>>]
<1>1. r.next \in ActionNumbers /\ [r EXCEPT !.next = r.next + 1] \in Executions
  BY ActPosition
<1>2. runs' = [runs EXCEPT ![<<j, n>>] = [r EXCEPT !.next = r.next + 1]]
  BY DEF Acts, RunAction
<1>3. runs' \in [Jobs \X Attempts -> Runs]
  BY <1>1, <1>2 DEF QueueTypes, Runs
<1>4. \/ written' = written
      \/ written' = [written EXCEPT ![j][r.next] = @ + 1]
  BY DEF Acts, RunAction
<1>5. written' \in [Jobs -> [ActionNumbers -> Nat]]
  <2>1. written \in [Jobs -> [ActionNumbers -> Nat]]
    BY DEF QueueTypes
  <2>2. written[j] \in [ActionNumbers -> Nat] /\ written[j][r.next] \in Nat
    BY <1>1, <2>1
  <2>3. [written[j] EXCEPT ![r.next] = @ + 1] \in [ActionNumbers -> Nat]
    BY <1>1, <2>2
  <2> QED
    BY <1>4, <2>1, <2>3
<1> QED
  BY <1>3, <1>5 DEF QueueTypes, Acts, RunAction

LEMMA ExecuteTypes ==
  ASSUME WorkflowTypeOK, Executes
  PROVE  QueueTypes'
<1>1. QueueTypes /\ workflows \in [Workflows -> Rows \union {None}]
  BY DEF WorkflowTypeOK, QueueTypes
<1>2. ASSUME NEW j \in Jobs, Take(j) PROVE QueueTypes'
  BY <1>1, <1>2 DEF QueueTypes, Take, Runs
<1>3. ASSUME NEW j \in Jobs, Stalls(j) PROVE QueueTypes'
  BY <1>1, <1>3 DEF QueueTypes, Stalls, Stall, StallRest
<1>4. ASSUME NEW j \in Jobs, NEW n \in Attempts, Begins(j, n) PROVE QueueTypes'
  <2>1. [actions |-> workflows[j[1]].actions, next |-> 1] \in Executions
    BY <1>4, JobParts, RowActions DEF Begins
  <2> QED
    BY <1>1, <1>4, <2>1 DEF QueueTypes, Begins, Runs
<1>5. ASSUME NEW j \in Jobs, NEW n \in Attempts, Ends(j, n) PROVE QueueTypes'
  BY <1>1, <1>5 DEF QueueTypes, Ends, End, Runs
<1> QED
  BY <1>1, <1>2, <1>3, <1>4, <1>5, ActTypes DEF Executes

(* The rest of the types.                                                  *)
LEMMA TypesInit == Init => WorkflowTypeOK
<1> SUFFICES ASSUME Init PROVE WorkflowTypeOK
  OBVIOUS
<1>1. edits \in 0..MaxEdits /\ faults \in 0..MaxFaults
  BY WorkflowAssumption DEF Init
<1>2. /\ workflows \in [Workflows -> Rows \union {None}]
      /\ heard \in [Events -> {"no", "find", "add", "over", "cut"}]
      /\ queueing \in [Events -> SUBSET Workflows]
      /\ matched \subseteq Jobs /\ missed \subseteq Events
  BY DEF Init
<1>3. QueueTypes
  BY DEF Init, QueueTypes, Runs
<1>4. /\ \A e \in Events : queueing[e] \X {e} \subseteq matched
      /\ \A j \in Jobs : status[j] # "none" => j \in matched
  BY DEF Init
<1> QED
  BY <1>1, <1>2, <1>3, <1>4 DEF WorkflowTypeOK, QueueTypes

\* What a step of a dispatch keeps.
DispatchTypes ==
  /\ heard \in [Events -> {"no", "find", "add", "over", "cut"}]
  /\ queueing \in [Events -> SUBSET Workflows]
  /\ matched \subseteq Jobs /\ missed \subseteq Events
  /\ \A e \in Events, w \in Workflows : w \in queueing[e] => <<w, e>> \in matched

LEMMA DispatchMeans ==
  ASSUME queueing \in [Events -> SUBSET Workflows]
  PROVE  (\A e \in Events : queueing[e] \X {e} \subseteq matched) <=>
         (\A e \in Events, w \in Workflows :
            w \in queueing[e] => <<w, e>> \in matched)
<1>1. \A e \in Events : queueing[e] \subseteq Workflows
  OBVIOUS
<1> QED
  BY <1>1

LEMMA FaultTypes ==
  ASSUME WorkflowTypeOK, faults' = faults \/ Fault
  PROVE  faults' \in 0..MaxFaults
BY WorkflowAssumption DEF WorkflowTypeOK, Fault

LEMMA TypesOfDispatch ==
  ASSUME WorkflowTypeOK, NEW e \in Events,
         OnAny(e) \/ Find(e) \/ Add(e) \/ DispatchFails(e)
  PROVE  WorkflowTypeOK'
<1>0. DispatchTypes
  BY DispatchMeans DEF WorkflowTypeOK, DispatchTypes
<1>1. Matching(e) \subseteq Workflows /\ Matching(e) \X {e} \subseteq Jobs
  BY DEF Matching, Jobs
<1>2. CASE OnAny(e)
  BY <1>2 DEF WorkflowTypeOK, OnAny, queue
<1>3. CASE Find(e)
  <2>1. DispatchTypes'
    BY <1>0, <1>1, <1>3 DEF DispatchTypes, Find
  <2>2. \A j \in Jobs : status'[j] # "none" => j \in matched'
    BY <1>3 DEF WorkflowTypeOK, Find, queue
  <2> QED
    BY <1>3, <2>1, <2>2, DispatchMeans
       DEF WorkflowTypeOK, DispatchTypes, Find, queue
<1>4. CASE Add(e)
  <2>1. PICK w \in queueing[e] :
          /\ queueing' = [queueing EXCEPT ![e] = @ \ {w}]
          /\ status' = [status EXCEPT ![<<w, e>>] = "waiting"]
          /\ heard' = IF queueing[e] = {w} THEN [heard EXCEPT ![e] = "over"]
                                           ELSE heard
    BY <1>4 DEF Add
  <2>2. w \in Workflows /\ <<w, e>> \in Jobs /\ <<w, e>> \in matched
    BY <1>0, JobParts DEF DispatchTypes
  <2>3. DispatchTypes'
    BY <1>0, <1>4, <2>1 DEF DispatchTypes, Add
  <2>4. status' \in [Jobs -> {"none", "waiting", "active", "done", "failed"}]
    BY <2>1 DEF WorkflowTypeOK
  <2>5. \A j \in Jobs : status'[j] # "none" => j \in matched
    BY <2>1, <2>2 DEF WorkflowTypeOK
  <2> QED
    BY <1>4, <2>3, <2>4, <2>5, DispatchMeans
       DEF WorkflowTypeOK, DispatchTypes, Add
<1>5. CASE DispatchFails(e)
  <2>1. DispatchTypes'
    BY <1>0, <1>5 DEF DispatchTypes, DispatchFails
  <2>2. faults' \in 0..MaxFaults
    BY <1>5, FaultTypes DEF DispatchFails
  <2> QED
    BY <1>5, <2>1, <2>2, DispatchMeans
       DEF WorkflowTypeOK, DispatchTypes, DispatchFails, queue
<1> QED
  BY <1>2, <1>3, <1>4, <1>5

LEMMA TypesStep == WorkflowTypeOK /\ [Next]_vars => WorkflowTypeOK'
<1> SUFFICES ASSUME WorkflowTypeOK, [Next]_vars PROVE WorkflowTypeOK'
  OBVIOUS
<1>1. CASE UNCHANGED vars
  BY <1>1 DEF WorkflowTypeOK, vars, queue
<1>2. CASE Administer
  <2>1. UNCHANGED <<heard, queueing, matched, queue, missed, faults>>
    BY <1>2 DEF Administer, Create, Update, Remove
  <2> QED
    BY <1>2, <2>1, RowTypes DEF WorkflowTypeOK, queue
<1>3. CASE \E e \in Events : OnAny(e) \/ Find(e) \/ Add(e) \/ DispatchFails(e)
  BY <1>3, TypesOfDispatch
<1>4. CASE /\ Executes
           /\ UNCHANGED <<workflows, heard, queueing, matched, missed, edits>>
           /\ faults' = faults \/ Fault
  <2>1. QueueTypes' /\ faults' \in 0..MaxFaults
    BY <1>4, ExecuteTypes, FaultTypes
  <2>2. \A j \in Jobs : status'[j] # "none" => status[j] # "none"
    BY <1>4 DEF Executes, Take, Stalls, Stall, Begins, Ends, End, Acts,
                RunAction, WorkflowTypeOK
  <2> QED
    BY <1>4, <2>1, <2>2 DEF WorkflowTypeOK, QueueTypes
<1>5. CASE Crash
  <2>1. /\ heard' \in [Events -> {"no", "find", "add", "over", "cut"}]
        /\ queueing' \in [Events -> SUBSET Workflows]
        /\ \A e \in Events : queueing'[e] \X {e} \subseteq matched
        /\ runs' \in [Jobs \X Attempts -> Runs]
    BY <1>5 DEF WorkflowTypeOK, Crash, Runs
  <2> QED
    BY <1>5, <2>1, FaultTypes DEF WorkflowTypeOK, Crash
<1> QED
  BY <1>1, <1>2, <1>3, <1>4, <1>5, Steps

(* Every state has variables of their types.                               *)
THEOREM WorkflowTypes == Spec => []WorkflowTypeOK
BY TypesInit, TypesStep, PTL DEF Spec

-----------------------------------------------------------------------------
(* Actions are repeated by second attempts only.                           *)

(* A step changes the queue's state of at most the jobs it is about.       *)
LEMMA QuietSteps ==
  ASSUME [Next]_vars
  PROVE  \/ UNCHANGED queue
         \/ \E e \in Events : Add(e)
         \/ Executes /\ UNCHANGED <<workflows, heard, queueing, matched>>
         \/ Crash
<1>1. Administer => UNCHANGED queue
  BY DEF Administer, Create, Update, Remove
<1>2. \A e \in Events : OnAny(e) \/ Find(e) \/ DispatchFails(e) => UNCHANGED queue
  BY DEF OnAny, Find, DispatchFails
<1>3. UNCHANGED vars => UNCHANGED queue
  BY DEF vars
<1> QED
  BY <1>1, <1>2, <1>3, Steps

LEMMA AttemptTypes ==
  ASSUME WorkflowTypeOK, NEW j \in Jobs
  PROVE  Attempt(j) \in {1, 2} /\ Attempt(j) = stalls[j] + 1
BY DEF WorkflowTypeOK, Attempt

LEMMA NoRunAheadStep ==
  WorkflowTypeOK /\ NoRunAhead /\ AddedOnce /\ [Next]_vars => NoRunAhead'
<1> SUFFICES ASSUME WorkflowTypeOK, NoRunAhead, AddedOnce, [Next]_vars
             PROVE  NoRunAhead'
  OBVIOUS
<1>0. QueueTypes
  BY DEF WorkflowTypeOK, QueueTypes
<1>1. CASE UNCHANGED queue
  BY <1>1 DEF NoRunAhead, queue, Attempt
<1>2. CASE \E e \in Events : Add(e)
  <2>1. PICK e \in Events : \E w \in queueing[e] :
          /\ Add(e)
          /\ status' = [status EXCEPT ![<<w, e>>] = "waiting"]
    BY <1>2 DEF Add
  <2>2. PICK w \in queueing[e] : status' = [status EXCEPT ![<<w, e>>] = "waiting"]
    BY <2>1
  <2>3. w \in Workflows
    BY DEF WorkflowTypeOK
  <2>4. status[<<w, e>>] = "none"
    BY <2>3 DEF AddedOnce
  <2>5. \A k \in Jobs :
          status'[k] \in {"none", "waiting"} => status[k] \in {"none", "waiting"}
    BY <1>0, <2>2, <2>4 DEF QueueTypes
  <2> QED
    BY <2>1, <2>5 DEF NoRunAhead, Add, Attempt
<1>3. CASE Crash
  BY <1>3 DEF NoRunAhead, Crash, Attempt, Attempts, QueueTypes
<1>4. CASE Executes
  <2>1. ASSUME NEW j \in Jobs, Take(j) PROVE NoRunAhead'
    <3>1. Attempt(j) \in Attempts
      BY AttemptTypes DEF Attempts
    <3>2. /\ \A k \in Jobs, m \in Attempts :
               <<k, m>> # <<j, Attempt(j)>> => runs'[<<k, m>>] = runs[<<k, m>>]
          /\ \A k \in Jobs : k # j => status'[k] = status[k]
          /\ status'[j] = "active" /\ stalls' = stalls
      BY <1>0, <2>1 DEF Take, QueueTypes
    <3>3. \A k \in Jobs, m \in Attempts :
            <<k, m>> = <<j, Attempt(j)>> <=> k = j /\ m = Attempt(j)
      OBVIOUS
    <3>4. Attempt(j) \in Nat
      BY AttemptTypes
    <3> QED
      BY <3>2, <3>3, <3>4 DEF NoRunAhead, Attempt
  <2>2. ASSUME NEW j \in Jobs, Stalls(j) PROVE NoRunAhead'
    <3>1. /\ \A k \in Jobs : k # j => status'[k] = status[k] /\ stalls'[k] = stalls[k]
          /\ \/ status'[j] = "waiting" /\ stalls[j] = 0 /\ stalls'[j] = 1
             \/ status'[j] = "failed" /\ stalls'[j] = stalls[j]
          /\ runs' = runs
      BY <1>0, <2>2 DEF Stalls, StallRest, Stall, QueueTypes
    <3>2. ASSUME NEW k \in Jobs, NEW m \in Attempts,
                 \/ m > stalls'[k] + 1
                 \/ m = stalls'[k] + 1 /\ status'[k] \in {"none", "waiting"}
          PROVE  runs[<<k, m>>] = None
      <4>1. m \in {1, 2} /\ stalls[k] \in {0, 1}
        BY <1>0 DEF QueueTypes, Attempts
      <4>2. CASE k # j
        BY <3>1, <3>2, <4>1, <4>2 DEF NoRunAhead, Attempt
      <4>3. CASE k = j
        BY <3>1, <3>2, <4>1, <4>3 DEF NoRunAhead, Attempt
      <4> QED
        BY <4>2, <4>3
    <3> QED
      BY <3>1, <3>2 DEF NoRunAhead, Attempt
  <2>3. ASSUME NEW j \in Jobs, NEW n \in Attempts,
               Begins(j, n) \/ Ends(j, n) \/ Acts(j, n)
        PROVE  NoRunAhead'
    <3>1. runs[<<j, n>>] # None
      BY <2>3, RunKinds DEF Begins, Ends, Acts, RunAction, Running
    <3>2. ~(n > Attempt(j) \/ (n = Attempt(j) /\ status[j] \in {"none", "waiting"}))
      BY <3>1 DEF NoRunAhead
    <3>3. /\ \A k \in Jobs, m \in Attempts :
               <<k, m>> # <<j, n>> => runs'[<<k, m>>] = runs[<<k, m>>]
          /\ stalls' = stalls
      BY <1>0, <2>3 DEF Begins, Ends, End, Acts, RunAction, QueueTypes
    <3>4. \A k \in Jobs :
            status'[k] \in {"none", "waiting"} => status'[k] = status[k]
      BY <1>0, <2>3 DEF Begins, Ends, End, Acts, RunAction, QueueTypes
    <3>5. status[j] \notin {"none", "waiting"} => status'[j] \notin {"none", "waiting"}
      BY <3>4
    <3> QED
      BY <3>2, <3>3, <3>4, <3>5 DEF NoRunAhead, Attempt
  <2> QED
    BY <1>4, <2>1, <2>2, <2>3 DEF Executes
<1> QED
  BY <1>1, <1>2, <1>3, <1>4, QuietSteps

LEMMA AddedOnceStep ==
  WorkflowTypeOK /\ AddedOnce /\ [Next]_vars => AddedOnce'
<1> SUFFICES ASSUME WorkflowTypeOK, AddedOnce, [Next]_vars PROVE AddedOnce'
  OBVIOUS
<1>0. QueueTypes /\ DispatchTypes
  BY DispatchMeans DEF WorkflowTypeOK, QueueTypes, DispatchTypes
<1>1. CASE \E e \in Events : OnAny(e) \/ Find(e) \/ DispatchFails(e)
  BY <1>0, <1>1 DEF AddedOnce, OnAny, Find, DispatchFails, DispatchTypes, queue
<1>2. CASE \E e \in Events : Add(e)
  <2>1. PICK e \in Events : Add(e)
    BY <1>2
  <2>2. PICK w \in queueing[e] :
          /\ queueing' = [queueing EXCEPT ![e] = @ \ {w}]
          /\ status' = [status EXCEPT ![<<w, e>>] = "waiting"]
          /\ heard' = IF queueing[e] = {w} THEN [heard EXCEPT ![e] = "over"]
                                           ELSE heard
    BY <2>1 DEF Add
  <2>3. heard[e] = "add" /\ w \in Workflows
    BY <1>0, <2>1 DEF Add, DispatchTypes
  <2>4. ASSUME NEW f \in Events, NEW v \in Workflows,
               heard'[f] \in {"no", "find"} \/ v \in queueing'[f]
        PROVE  status'[<<v, f>>] = "none"
    <3>1. <<v, f>> # <<w, e>>
      BY <1>0, <2>2, <2>3, <2>4 DEF DispatchTypes
    <3>2. heard[f] \in {"no", "find"} \/ v \in queueing[f]
      BY <1>0, <2>2, <2>3, <2>4 DEF DispatchTypes
    <3> QED
      BY <1>0, <2>2, <3>1, <3>2, JobParts DEF AddedOnce, QueueTypes
  <2> QED
    BY <2>4 DEF AddedOnce
<1>3. CASE Crash
  BY <1>0, <1>3 DEF AddedOnce, Crash, DispatchTypes
<1>4. CASE Executes /\ UNCHANGED <<heard, queueing>>
  <2>1. ASSUME NEW k \in Jobs, status[k] = "none" PROVE status'[k] = "none"
    BY <1>0, <1>4, <2>1
       DEF QueueTypes, Executes, Take, Stalls, Stall, StallRest, Begins, Ends,
           End, Acts, RunAction
  <2> QED
    BY <1>4, <2>1, JobParts DEF AddedOnce
<1>5. CASE UNCHANGED <<heard, queueing, status>>
  BY <1>5 DEF AddedOnce
<1>6. Administer \/ UNCHANGED vars => UNCHANGED <<heard, queueing, status>>
  BY DEF Administer, Create, Update, Remove, vars, queue
<1> QED
  BY <1>1, <1>2, <1>3, <1>4, <1>5, <1>6, Steps

(* The account of a job which a step gives at most an end.                 *)
LEMMA AccountKept ==
  ASSUME WorkflowTypeOK, NEW k \in Jobs, NEW i \in ActionNumbers,
         Account(k, i) <= Attempt(k),
         written'[k] = written[k], stalls'[k] = stalls[k],
         status'[k] \in {"none", "waiting"} => status[k] \in {"none", "waiting"},
         \A n \in Attempts : \/ runs'[<<k, n>>] = runs[<<k, n>>]
                             \/ runs'[<<k, n>>] = None
  PROVE  (Account(k, i) <= Attempt(k))'
<1>1. ASSUME NEW n \in Attempts PROVE Left(k, n, i)' <= Left(k, n, i)
  BY RunKinds DEF Left, Running
<1>2. Left(k, 1, i)' <= Left(k, 1, i) /\ Left(k, 2, i)' <= Left(k, 2, i)
  BY <1>1 DEF Attempts
<1>3. ToStart(k)' <= ToStart(k)
  BY DEF ToStart
<1>4. Attempt(k)' = Attempt(k) /\ Attempt(k) \in {1, 2}
  BY AttemptTypes DEF Attempt
<1>5. written[k][i] \in Nat
  BY DEF WorkflowTypeOK
<1>6. /\ \A n \in Attempts : Left(k, n, i) \in {0, 1} /\ Left(k, n, i)' \in {0, 1}
      /\ ToStart(k) \in {0, 1} /\ ToStart(k)' \in {0, 1}
  BY DEF Left, ToStart
<1>7. /\ Left(k, 1, i) \in {0, 1} /\ Left(k, 1, i)' \in {0, 1}
      /\ Left(k, 2, i) \in {0, 1} /\ Left(k, 2, i)' \in {0, 1}
  BY <1>6 DEF Attempts
<1> HIDE DEF Account
<1>8. Account(k, i)' <= Account(k, i)
  BY <1>2, <1>3, <1>5, <1>6, <1>7 DEF Account
<1> QED
  BY <1>4, <1>5, <1>6, <1>7, <1>8 DEF Account

(* The account of a job that gets an attempt, or of which an execution goes *)
(* on.                                                                      *)
LEMMA AccountMoves ==
  ASSUME WorkflowTypeOK, WorkflowTypeOK', NEW k \in Jobs, NEW i \in ActionNumbers,
         Account(k, i) <= Attempt(k), NEW n \in Attempts,
         \A m \in Attempts \ {n} : runs'[<<k, m>>] = runs[<<k, m>>],
         \/ /\ Left(k, n, i)' + ToStart(k)' <= Left(k, n, i) + ToStart(k)
            /\ written'[k][i] = written[k][i] /\ stalls'[k] = stalls[k]
         \/ /\ Left(k, n, i) = 1 /\ Left(k, n, i)' = 0
            /\ written'[k][i] = written[k][i] + 1
            /\ stalls'[k] = stalls[k] /\ status'[k] = status[k]
         \/ /\ Left(k, n, i)' = Left(k, n, i) /\ written'[k][i] = written[k][i]
            /\ stalls'[k] = stalls[k] + 1
  PROVE  (Account(k, i) <= Attempt(k))'
<1>1. \A m \in Attempts \ {n} : Left(k, m, i)' = Left(k, m, i)
  BY DEF Left, Running
<1>2. written[k][i] \in Nat /\ stalls[k] \in {0, 1}
  BY DEF WorkflowTypeOK
<1>3. /\ \A m \in Attempts : Left(k, m, i) \in {0, 1} /\ Left(k, m, i)' \in {0, 1}
      /\ ToStart(k) \in {0, 1} /\ ToStart(k)' \in {0, 1}
      /\ status'[k] = status[k] => ToStart(k)' = ToStart(k)
  BY DEF Left, ToStart
<1>4. CASE n = 1
  BY <1>1, <1>2, <1>3, <1>4 DEF Account, Attempt, Attempts
<1>5. CASE n = 2
  BY <1>1, <1>2, <1>3, <1>5 DEF Account, Attempt, Attempts
<1> QED
  BY <1>4, <1>5 DEF Attempts

LEMMA AccountedExecutes ==
  ASSUME WorkflowTypeOK, WorkflowTypeOK', NoRunAhead, Accounted, Executes,
         NEW k \in Jobs, NEW i \in ActionNumbers
  PROVE  (Account(k, i) <= Attempt(k))'
<1>0. QueueTypes /\ Account(k, i) <= Attempt(k)
  BY DEF WorkflowTypeOK, QueueTypes, Accounted
<1>1. ASSUME NEW j \in Jobs, Take(j) PROVE (Account(k, i) <= Attempt(k))'
  <2>1. Attempt(j) \in Attempts
    BY AttemptTypes DEF Attempts
  <2>2. /\ \A l \in Jobs, m \in Attempts : 
             l # j \/ m # Attempt(j) => runs'[<<l, m>>] = runs[<<l, m>>]
        /\ runs'[<<j, Attempt(j)>>] = ToRead
        /\ \A l \in Jobs : l # j => status'[l] = status[l]
        /\ status[j] = "waiting" /\ status'[j] = "active"
        /\ stalls' = stalls /\ written' = written
    BY <1>0, <1>1, <2>1 DEF Take, QueueTypes
  <2>3. CASE k # j
    BY <1>0, <2>2, <2>3, AccountKept
  <2>4. CASE k = j
    <3>1. runs[<<j, Attempt(j)>>] = None
      BY <2>1, <2>2 DEF NoRunAhead
    <3>2. Left(j, Attempt(j), i) = 0 /\ ToStart(j) = 1 /\ ToStart(j)' = 0
      BY <2>2, <3>1, RunKinds DEF Left, Running, ToStart
    <3>3. (Left(j, Attempt(j), i) + ToStart(j) = 1) /\ ToStart(j) \in {0, 1}
      BY <3>2
    <3>4. \A m \in Attempts : m = Attempt(j) => Left(j, m, i)' = 1
      BY <2>2 DEF Left
    <3>5. PICK m \in Attempts : m = Attempt(j)
      BY <2>1
    <3>6. Left(j, m, i)' + ToStart(j)' <= Left(j, m, i) + ToStart(j)
      BY <3>2, <3>4, <3>5
    <3> QED
      BY <1>0, <2>2, <2>4, <3>5, <3>6, AccountMoves
  <2> QED
    BY <2>3, <2>4
<1>2. ASSUME NEW j \in Jobs, Stalls(j) PROVE (Account(k, i) <= Attempt(k))'
  <2>1. /\ \A l \in Jobs : l # j => status'[l] = status[l] /\ stalls'[l] = stalls[l]
        /\ \/ status'[j] = "waiting" /\ stalls'[j] = stalls[j] + 1
           \/ status'[j] = "failed" /\ stalls'[j] = stalls[j]
        /\ runs' = runs /\ written' = written
    BY <1>0, <1>2 DEF Stalls, StallRest, Stall, QueueTypes
  <2>2. CASE k = j /\ stalls'[j] = stalls[j] + 1
    <3>1. Left(k, 1, i)' = Left(k, 1, i)
      BY <2>1 DEF Left, Running
    <3> QED
      BY <1>0, <2>1, <2>2, <3>1, AccountMoves DEF Attempts
  <2> QED
    BY <1>0, <2>1, <2>2, AccountKept
<1>3. ASSUME NEW j \in Jobs, NEW n \in Attempts, Begins(j, n)
      PROVE  (Account(k, i) <= Attempt(k))'
  <2>1. /\ \A l \in Jobs, m \in Attempts :
             l # j \/ m # n => runs'[<<l, m>>] = runs[<<l, m>>]
        /\ runs[<<j, n>>] = ToRead
        /\ UNCHANGED <<status, stalls, written>>
    BY <1>0, <1>3 DEF Begins, QueueTypes
  <2>2. CASE k = j
    <3>1. Left(j, n, i) = 1 /\ Left(j, n, i)' \in {0, 1} /\ ToStart(j)' = ToStart(j)
      BY <2>1 DEF Left, ToStart
    <3>2. ToStart(j) \in {0, 1}
      BY DEF ToStart
    <3>3. Left(j, n, i)' + ToStart(j)' <= Left(j, n, i) + ToStart(j)
      BY <3>1, <3>2
    <3> QED
      BY <1>0, <2>1, <2>2, <3>3, AccountMoves
  <2> QED
    BY <1>0, <2>1, <2>2, AccountKept
<1>4. ASSUME NEW j \in Jobs, NEW n \in Attempts, Ends(j, n)
      PROVE  (Account(k, i) <= Attempt(k))'
  <2>1. /\ \A l \in Jobs, m \in Attempts : \/ runs'[<<l, m>>] = runs[<<l, m>>]
                                           \/ runs'[<<l, m>>] = None
        /\ \A l \in Jobs : status'[l] \in {"none", "waiting"} => status'[l] = status[l]
        /\ stalls' = stalls /\ written' = written
    BY <1>0, <1>4 DEF Ends, End, QueueTypes
  <2> QED
    BY <1>0, <2>1, AccountKept
<1>5. ASSUME NEW j \in Jobs, NEW n \in Attempts, Acts(j, n)
      PROVE  (Account(k, i) <= Attempt(k))'
  <2> DEFINE r == runs[<<j, n>>]
  <2>1. Running(j, n) /\ r \in Executions
    BY <1>0, <1>5, ActPosition
  <2>2. r.next \in ActionNumbers /\ [r EXCEPT !.next = r.next + 1] \in Executions
    BY <1>0, <1>5, ActPosition
  <2>3. /\ \A l \in Jobs, m \in Attempts :
             l # j \/ m # n => runs'[<<l, m>>] = runs[<<l, m>>]
        /\ runs'[<<j, n>>] = [r EXCEPT !.next = r.next + 1]
        /\ UNCHANGED <<status, stalls>>
    BY <1>0, <1>5 DEF Acts, RunAction, QueueTypes
  <2>4. /\ Running(j, n)' /\ runs'[<<j, n>>] # ToRead
        /\ runs'[<<j, n>>].next = r.next + 1 /\ r # ToRead
    BY <2>1, <2>2, <2>3, RunKinds DEF Running, Executions
  <2>5. /\ \A l \in Jobs : l # j => written'[l] = written[l]
        /\ \A m \in ActionNumbers : m # r.next => written'[j][m] = written[j][m]
        /\ \/ written'[j][r.next] = written[j][r.next]
           \/ written'[j][r.next] = written[j][r.next] + 1
    BY <1>0, <1>5, <2>2 DEF Acts, RunAction, QueueTypes
  <2>6. ToStart(j)' = ToStart(j) /\ ToStart(j) \in {0, 1}
    BY <2>3 DEF ToStart
  <2>7. CASE k # j
    BY <1>0, <2>3, <2>5, <2>7, AccountKept
  <2>8. CASE k = j /\ i = r.next
    <3>1. Left(j, n, i) = 1 /\ Left(j, n, i)' = 0
      BY <2>1, <2>2, <2>4, <2>8, NumberTypes DEF Left
    <3>2. Left(j, n, i)' + ToStart(j)' <= Left(j, n, i) + ToStart(j)
      BY <2>6, <3>1
    <3> QED
      BY <1>0, <2>3, <2>5, <2>8, <3>1, <3>2, AccountMoves
  <2>9. CASE k = j /\ i # r.next
    <3>1. Left(j, n, i)' <= Left(j, n, i)
      <4>1. r.next + 1 <= i => r.next <= i
        BY <2>2, NumberTypes
      <4>2. Left(j, n, i) = IF r.next <= i THEN 1 ELSE 0
        BY <2>1, <2>4 DEF Left
      <4>3. Left(j, n, i)' = IF r.next + 1 <= i THEN 1 ELSE 0
        BY <2>4 DEF Left
      <4> QED
        BY <4>1, <4>2, <4>3
    <3>2. Left(j, n, i) \in {0, 1} /\ Left(j, n, i)' \in {0, 1}
      BY DEF Left
    <3>3. Left(j, n, i)' + ToStart(j)' <= Left(j, n, i) + ToStart(j)
      BY <2>6, <3>1, <3>2
    <3> QED
      BY <1>0, <2>3, <2>5, <2>9, <3>3, AccountMoves
  <2> QED
    BY <2>7, <2>8, <2>9
<1> QED
  BY <1>1, <1>2, <1>3, <1>4, <1>5 DEF Executes

LEMMA AccountedStep ==
  OnceInv /\ WorkflowTypeOK' /\ [Next]_vars => Accounted'
<1> SUFFICES ASSUME OnceInv, WorkflowTypeOK', [Next]_vars,
                    NEW k \in Jobs, NEW i \in ActionNumbers
             PROVE  (Account(k, i) <= Attempt(k))'
  BY DEF Accounted
<1>0. QueueTypes /\ WorkflowTypeOK /\ Account(k, i) <= Attempt(k)
  BY DEF OnceInv, WorkflowTypeOK, QueueTypes, Accounted
<1>1. CASE UNCHANGED queue
  BY <1>0, <1>1, AccountKept DEF queue
<1>2. CASE \E e \in Events : Add(e)
  <2>1. PICK e \in Events : Add(e)
    BY <1>2
  <2>2. PICK w \in queueing[e] : status' = [status EXCEPT ![<<w, e>>] = "waiting"]
    BY <2>1 DEF Add
  <2>3. w \in Workflows
    BY <1>0 DEF WorkflowTypeOK
  <2>4. status[<<w, e>>] = "none"
    BY <2>3 DEF OnceInv, AddedOnce
  <2>5. status'[k] \in {"none", "waiting"} => status[k] \in {"none", "waiting"}
    BY <1>0, <2>2, <2>4 DEF QueueTypes
  <2> QED
    BY <1>0, <2>1, <2>5, AccountKept DEF Add
<1>3. CASE Crash
  <2>1. \A n \in Attempts : runs'[<<k, n>>] = None
    BY <1>3 DEF Crash
  <2> QED
    BY <1>0, <1>3, <2>1, AccountKept DEF Crash
<1>4. CASE Executes
  BY <1>4, AccountedExecutes DEF OnceInv
<1> QED
  BY <1>1, <1>2, <1>3, <1>4, QuietSteps

LEMMA OnceInit == Init => OnceInv
<1> SUFFICES ASSUME Init PROVE OnceInv
  OBVIOUS
<1>1. NoRunAhead /\ AddedOnce
  BY JobParts DEF Init, NoRunAhead, AddedOnce
<1>2. Accounted
  <2> SUFFICES ASSUME NEW j \in Jobs, NEW i \in ActionNumbers
               PROVE  Account(j, i) <= Attempt(j)
    BY DEF Accounted
  <2>1. \A n \in Attempts : Left(j, n, i) = 0
    BY RunKinds DEF Init, Left, Running
  <2>2. ToStart(j) = 1 /\ written[j][i] = 0 /\ Attempt(j) = 1
    BY DEF Init, ToStart, Attempt
  <2> QED
    BY <2>1, <2>2 DEF Account, Attempts
<1> QED
  BY <1>1, <1>2, TypesInit DEF OnceInv

LEMMA OnceAlways == Spec => []OnceInv
<1>1. OnceInv /\ [Next]_vars => OnceInv'
  BY TypesStep, NoRunAheadStep, AddedOnceStep, AccountedStep DEF OnceInv
<1> QED
  BY <1>1, OnceInit, PTL DEF Spec

(* An action of a workflow notifies at most once per event, and twice only *)
(* when its job stalled (WorkflowProcessor.process run again by the queue), *)
(* whatever the two executions read and in whatever order they go on.      *)
THEOREM RepeatsNeedAStall == Spec => []RepeatedOnlyAfterStall
<1>1. OnceInv => RepeatedOnlyAfterStall
  <2> SUFFICES ASSUME OnceInv, NEW j \in Jobs, NEW i \in ActionNumbers
               PROVE  written[j][i] <= stalls[j] + 1
    BY DEF RepeatedOnlyAfterStall
  <2>1. Account(j, i) <= Attempt(j) /\ written[j][i] \in Nat /\ stalls[j] \in {0, 1}
    BY DEF OnceInv, Accounted, WorkflowTypeOK
  <2>2. Left(j, 1, i) \in {0, 1} /\ Left(j, 2, i) \in {0, 1} /\ ToStart(j) \in {0, 1}
    BY DEF Left, ToStart
  <2> QED
    BY <2>1, <2>2 DEF Account, Attempt
<1> QED
  BY <1>1, OnceAlways, PTL

-----------------------------------------------------------------------------
(* Notifications stay with the tenant.                                     *)

\* A workflow stays of the tenant whose event it was matched to.
OwnTenant ==
  \A j \in matched :
    workflows[j[1]] # None => workflows[j[1]].tenant = j[2].tenant

\* Only what was queued is executed, and writes.
QueuedFirst ==
  \A j \in Jobs :
    \/ \E n \in Attempts : runs[<<j, n>>] # None
    \/ \E i \in ActionNumbers : written[j][i] > 0
    => status[j] # "none"

LEMMA OwnTenantStep == WorkflowTypeOK /\ OwnTenant /\ [Next]_vars => OwnTenant'
<1> SUFFICES ASSUME WorkflowTypeOK, OwnTenant, [Next]_vars PROVE OwnTenant'
  OBVIOUS
<1>0. /\ workflows \in [Workflows -> Rows \union {None}] /\ matched \subseteq Jobs
      /\ \A j \in matched : j[1] \in Workflows
  BY JobParts DEF WorkflowTypeOK
<1>1. CASE Administer
  <2>1. ASSUME NEW w \in Workflows, NEW row \in Drafts, Create(w, row)
        PROVE  OwnTenant'
    BY <1>0, <2>1 DEF Create, OwnTenant
  <2>2. ASSUME NEW w \in Workflows, NEW row \in Drafts, Update(w, row)
        PROVE  OwnTenant'
    <3>1. [row EXCEPT !.tenant = workflows[w].tenant].tenant = workflows[w].tenant
      BY DraftRows DEF Rows
    <3>2. /\ workflows[w] # None /\ matched' = matched
          /\ \A v \in Workflows : v # w => workflows'[v] = workflows[v]
          /\ workflows'[w].tenant = workflows[w].tenant
      BY <1>0, <2>2, <3>1 DEF Update
    <3> QED
      BY <1>0, <3>2 DEF OwnTenant
  <2>3. ASSUME NEW w \in Workflows, Remove(w) PROVE OwnTenant'
    BY <1>0, <2>3 DEF Remove, OwnTenant
  <2> QED
    BY <1>1, <2>1, <2>2, <2>3 DEF Administer
<1>2. CASE \E e \in Events : Find(e)
  <2>1. PICK e \in Events : Find(e)
    BY <1>2
  <2>2. \A j \in Matching(e) \X {e} : workflows[j[1]].tenant = j[2].tenant
    BY DEF Matching
  <2> QED
    BY <2>1, <2>2 DEF OwnTenant, Find
<1>3. CASE UNCHANGED <<workflows, matched>>
  BY <1>3 DEF OwnTenant
<1>4. \A e \in Events : OnAny(e) \/ Add(e) \/ DispatchFails(e) =>
        UNCHANGED <<workflows, matched>>
  BY DEF OnAny, Add, DispatchFails
<1> QED
  BY <1>1, <1>2, <1>3, <1>4, Steps DEF Crash, vars

LEMMA QueuedFirstStep ==
  WorkflowTypeOK /\ QueuedFirst /\ [Next]_vars => QueuedFirst'
<1> SUFFICES ASSUME WorkflowTypeOK, QueuedFirst, [Next]_vars PROVE QueuedFirst'
  OBVIOUS
<1>0. QueueTypes
  BY DEF WorkflowTypeOK, QueueTypes
<1>1. CASE UNCHANGED queue
  BY <1>1 DEF QueuedFirst, queue
<1>2. CASE \E e \in Events : Add(e)
  <2>1. PICK e \in Events : Add(e)
    BY <1>2
  <2>2. PICK w \in queueing[e] : status' = [status EXCEPT ![<<w, e>>] = "waiting"]
    BY <2>1 DEF Add
  <2>3. \A j \in Jobs : status[j] # "none" => status'[j] # "none"
    BY <1>0, <2>2 DEF QueueTypes
  <2> QED
    BY <2>1, <2>3 DEF QueuedFirst, Add
<1>3. CASE Crash
  BY <1>3 DEF QueuedFirst, Crash
<1>4. CASE Executes
  <2>1. ASSUME NEW j \in Jobs, Take(j) \/ Stalls(j) PROVE QueuedFirst'
    <3>1. /\ \A k \in Jobs, n \in Attempts :
               k # j => runs'[<<k, n>>] = runs[<<k, n>>]
          /\ \A k \in Jobs : k # j => status'[k] = status[k]
          /\ status'[j] # "none" /\ written' = written
      BY <1>0, <2>1 DEF Take, Stalls, StallRest, Stall, QueueTypes
    <3> QED
      BY <3>1 DEF QueuedFirst
  <2>2. ASSUME NEW j \in Jobs, NEW n \in Attempts,
               Begins(j, n) \/ Ends(j, n) \/ Acts(j, n)
        PROVE  QueuedFirst'
    <3>1. runs[<<j, n>>] # None
      BY <2>2, RunKinds DEF Begins, Ends, Acts, RunAction, Running
    <3>2. /\ \A k \in Jobs, m \in Attempts :
               k # j => runs'[<<k, m>>] = runs[<<k, m>>]
          /\ \A k \in Jobs : k # j => written'[k] = written[k]
      BY <1>0, <2>2 DEF Begins, Ends, End, Acts, RunAction, QueueTypes
    <3>3. \A k \in Jobs : status[k] # "none" => status'[k] # "none"
      BY <1>0, <2>2 DEF Begins, Ends, End, Acts, RunAction, QueueTypes
    <3> QED
      BY <3>1, <3>2, <3>3 DEF QueuedFirst
  <2> QED
    BY <1>4, <2>1, <2>2 DEF Executes
<1> QED
  BY <1>1, <1>2, <1>3, <1>4, QuietSteps

(* A notification goes to the tenant of the event, and only a workflow of  *)
(* that tenant writes one (WorkflowEngine.dispatch, WorkflowProcessor.run), *)
(* whatever is edited between the event and the execution.                 *)
THEOREM NotificationsKeepTheTenant == Spec => []NotifiesOwnTenant
<1> DEFINE Inv == WorkflowTypeOK /\ OwnTenant /\ QueuedFirst
<1>1. Init => Inv
  <2>1. Init => OwnTenant
    BY DEF Init, OwnTenant
  <2>2. ASSUME Init, NEW j \in Jobs
        PROVE  /\ \A n \in Attempts : runs[<<j, n>>] = None
               /\ \A i \in ActionNumbers : ~(written[j][i] > 0)
    BY <2>2 DEF Init, Attempts
  <2>3. Init => QueuedFirst
    BY <2>2 DEF QueuedFirst
  <2> QED
    BY <2>1, <2>3, TypesInit
<1>2. Inv /\ [Next]_vars => Inv'
  BY TypesStep, OwnTenantStep, QueuedFirstStep
<1>3. Inv => NotifiesOwnTenant
  BY DEF NotifiesOwnTenant, WorkflowTypeOK, OwnTenant, QueuedFirst
<1> QED
  BY <1>1, <1>2, <1>3, PTL DEF Spec

-----------------------------------------------------------------------------
(* One version of a workflow is run.                                       *)

Notified(actions, i) ==
  IF i <= Len(actions) /\ actions[i] = "notify" THEN 1 ELSE 0

\* What job j has written agrees with where its only execution stands.
Untroubled(j) ==
  /\ stalls[j] = 0
  /\ runs[<<j, 1>>] # None <=> status[j] = "active"
  /\ status[j] \in {"none", "waiting"} \/ runs[<<j, 1>>] = ToRead =>
       \A i \in ActionNumbers : written[j][i] = 0
  /\ Running(j, 1) =>
       \A i \in ActionNumbers :
         written[j][i] = IF i < runs[<<j, 1>>].next
                         THEN Notified(ActionsOf(j, 1), i) ELSE 0
  /\ status[j] = "done" =>
       \/ \A i \in ActionNumbers : written[j][i] = 0
       \/ \E d \in Drafts : \A i \in ActionNumbers :
            written[j][i] = Notified(d.actions, i)

VersionInv ==
  /\ OnceInv
  /\ faults = 0 => \A j \in Jobs : Untroubled(j)

(* The steps of a history without failures.                                *)
LEMMA SmoothSteps ==
  ASSUME WorkflowTypeOK, Next, faults' = 0
  PROVE  /\ faults = 0
         /\ \/ UNCHANGED queue
            \/ \E e \in Events : Add(e)
            \/ \E j \in Jobs : Take(j) \/ Abandoned(j)
            \/ \E j \in Jobs, n \in Attempts :
                 Read(j, n) \/ Act(j, n) \/ Complete(j, n)
<1>1. faults \in Nat
  BY WorkflowAssumption DEF WorkflowTypeOK
<1>2. ~Fault
  BY <1>1 DEF Fault
<1>3. CASE Administer
  BY <1>3 DEF Administer, Create, Update, Remove
<1>4. CASE \E e \in Events : OnAny(e) \/ Find(e) \/ Add(e)
  BY <1>4 DEF OnAny, Find, Add
<1>5. CASE \E j \in Jobs : Work(j)
  BY <1>5 DEF Work, Take, Abandoned, Read, Act, Complete
<1> QED
  BY <1>2, <1>3, <1>4, <1>5
     DEF Next, Dispatch, Crash, DispatchFails, Blocked, ReadFails, ActionFails

LEMMA UntroubledFrame ==
  ASSUME NEW j \in Jobs, Untroubled(j), status'[j] = status[j],
         stalls'[j] = stalls[j], runs'[<<j, 1>>] = runs[<<j, 1>>],
         written'[j] = written[j]
  PROVE  Untroubled(j)'
BY DEF Untroubled, Running, ActionsOf

LEMMA UntroubledStep ==
  ASSUME OnceInv, WorkflowTypeOK', NoRunAhead', Next, faults' = 0,
         NEW k \in Jobs, \A j \in Jobs : Untroubled(j)
  PROVE  Untroubled(k)'
<1>0. WorkflowTypeOK /\ QueueTypes /\ Untroubled(k)
  BY DEF OnceInv, WorkflowTypeOK, QueueTypes
<1>1. \A j \in Jobs : Attempt(j) = 1 /\ runs[<<j, 2>>] = None
  <2>1. ASSUME NEW j \in Jobs PROVE stalls[j] = 0
    BY Zenon DEF Untroubled
  <2>2. \A j \in Jobs : Attempt(j) = 1
    BY <2>1 DEF Attempt
  <2>3. 2 \in Attempts /\ 2 > 1
    BY DEF Attempts
  <2>4. NoRunAhead
    BY DEF OnceInv
  <2> QED
    BY <2>2, <2>3, <2>4 DEF NoRunAhead
<1>2. CASE UNCHANGED queue
  BY <1>0, <1>2, UntroubledFrame DEF queue
<1>3. CASE \E e \in Events : Add(e)
  <2>1. PICK e \in Events : Add(e)
    BY <1>3
  <2>2. PICK w \in queueing[e] : status' = [status EXCEPT ![<<w, e>>] = "waiting"]
    BY <2>1 DEF Add
  <2>3. w \in Workflows /\ UNCHANGED <<stalls, runs, written>>
    BY <1>0, <2>1 DEF WorkflowTypeOK, Add
  <2>4. status[<<w, e>>] = "none"
    BY <2>3 DEF OnceInv, AddedOnce
  <2>5. CASE k = <<w, e>>
    <3>1. status[k] = "none" /\ status'[k] = "waiting"
      BY <1>0, <2>2, <2>4, <2>5 DEF QueueTypes
    <3>2. runs[<<k, 1>>] = None
      BY <1>0, <3>1 DEF Untroubled
    <3> QED
      BY <1>0, <2>3, <3>1, <3>2 DEF Untroubled, Running
  <2>6. CASE k # <<w, e>>
    <3>1. status'[k] = status[k]
      BY <1>0, <2>2, <2>6 DEF QueueTypes
    <3> QED
      BY <1>0, <2>3, <3>1, UntroubledFrame
  <2> QED
    BY <2>5, <2>6
<1>4. ASSUME NEW j \in Jobs, Take(j) PROVE Untroubled(k)'
  <2>1. /\ \A l \in Jobs : l # j => status'[l] = status[l]
                                    /\ runs'[<<l, 1>>] = runs[<<l, 1>>]
        /\ status[j] = "waiting" /\ status'[j] = "active"
        /\ runs'[<<j, 1>>] = ToRead
        /\ stalls' = stalls /\ written' = written
    BY <1>0, <1>1, <1>4 DEF Take, QueueTypes, Attempts
  <2>2. CASE k # j
    BY <1>0, <2>1, <2>2, UntroubledFrame
  <2>3. CASE k = j
    BY <1>0, <2>1, <2>3, RunKinds DEF Untroubled, Running
  <2> QED
    BY <2>2, <2>3
<1>5. ASSUME NEW j \in Jobs PROVE ~Abandoned(j)
  BY <1>1 DEF Abandoned, Stall, Untroubled
<1>6. ASSUME NEW j \in Jobs, NEW n \in Attempts, 
             Read(j, n) \/ Act(j, n) \/ Complete(j, n)
      PROVE  n = 1 /\ runs[<<j, 1>>] # None /\ status[j] = "active"
  <2>1. runs[<<j, n>>] # None
    BY <1>6, RunKinds DEF Read, Act, RunAction, Complete, Running
  <2> QED
    BY <1>1, <2>1 DEF Attempts, Untroubled
<1>7. ASSUME NEW j \in Jobs, End(j, 1, "done"), stalls' = stalls,
             written' = written, status[j] = "active",
             \/ \A i \in ActionNumbers : written[j][i] = 0
             \/ \E d \in Drafts : \A i \in ActionNumbers :
                  written[j][i] = Notified(d.actions, i)
      PROVE  Untroubled(k)'
  <2>1. /\ \A l \in Jobs : l # j => status'[l] = status[l]
                                    /\ runs'[<<l, 1>>] = runs[<<l, 1>>]
        /\ status'[j] = "done" /\ runs'[<<j, 1>>] = None
    BY <1>0, <1>1, <1>7 DEF End, QueueTypes, Attempts
  <2>2. CASE k # j
    BY <1>0, <1>7, <2>1, <2>2, UntroubledFrame
  <2>3. CASE k = j
    BY <1>0, <1>7, <2>1, <2>3, RunKinds DEF Untroubled, Running
  <2> QED
    BY <2>2, <2>3
<1>8. ASSUME NEW j \in Jobs, Read(j, 1) PROVE Untroubled(k)'
  <2>1. \A i \in ActionNumbers : written[j][i] = 0
    BY <1>8 DEF Read, Untroubled
  <2>2. status[j] = "active" /\ UNCHANGED <<stalls, written>>
    BY <1>6, <1>8 DEF Read, Attempts
  <2>3. CASE ~Runnable(j[1], j[2])
    BY <1>7, <1>8, <2>1, <2>2, <2>3 DEF Read
  <2>4. CASE Runnable(j[1], j[2])
    <3> DEFINE r == [actions |-> workflows[j[1]].actions, next |-> 1]
    <3>1. runs' = [runs EXCEPT ![<<j, 1>>] = r] /\ status' = status
      BY <1>8, <2>4 DEF Read
    <3>2. r.next = 1
      OBVIOUS
    <3> HIDE DEF r
    <3>3. CASE k # j
      BY <1>0, <2>2, <3>1, <3>3, UntroubledFrame DEF QueueTypes, Attempts
    <3>4. CASE k = j
      <4>1. runs'[<<k, 1>>] = r
        BY <1>0, <3>1, <3>4 DEF QueueTypes, Attempts
      <4>2. r \in Executions
        BY <1>0, <4>1, <3>1, <2>4, JobParts, RowActions DEF r, Runnable
      <4> QED
        BY <1>0, <2>1, <2>2, <3>1, <3>2, <3>4, <4>1, <4>2, RunKinds, NumberTypes
           DEF Untroubled, Running
    <3> QED
      BY <3>3, <3>4
  <2> QED
    BY <2>3, <2>4
<1>9. ASSUME NEW j \in Jobs, Complete(j, 1) PROVE Untroubled(k)'
  <2>1. /\ Running(j, 1) /\ End(j, 1, "done") /\ UNCHANGED <<stalls, written>>
        /\ runs[<<j, 1>>].next > Len(ActionsOf(j, 1))
    BY <1>9 DEF Complete
  <2>2. runs[<<j, 1>>] \in Executions
    BY <1>0, <2>1 DEF Running, QueueTypes, Runs, Attempts
  <2>3. PICK d \in Drafts : ActionsOf(j, 1) = d.actions
    BY <2>2 DEF Executions, ActionsOf
  <2>4. ASSUME NEW i \in ActionNumbers
        PROVE  written[j][i] = Notified(d.actions, i)
    <3>1. written[j][i] = IF i < runs[<<j, 1>>].next
                          THEN Notified(d.actions, i) ELSE 0
      BY <2>1, <2>3 DEF Untroubled
    <3>2. /\ runs[<<j, 1>>].next \in Nat \ {0}
          /\ Len(d.actions) \in Nat
          /\ runs[<<j, 1>>].next > Len(d.actions)
      BY <2>1, <2>2, <2>3, RunKinds DEF ActionsOf
    <3>3. ~(i < runs[<<j, 1>>].next) => ~(i <= Len(d.actions))
      BY <3>2, NumberTypes
    <3> QED
      BY <3>1, <3>3 DEF Notified
  <2>5. status[j] = "active"
    BY <1>6, <1>9 DEF Attempts
  <2> QED
    BY <1>7, <2>1, <2>4, <2>5
<1>10. ASSUME NEW j \in Jobs, Act(j, 1) PROVE Untroubled(k)'
  <2> DEFINE r == runs[<<j, 1>>]
             s == [r EXCEPT !.next = r.next + 1]
  <2>1. /\ Running(j, 1) /\ r \in Executions
        /\ r.next \in ActionNumbers /\ s \in Executions
    BY <1>0, <1>10, ActPosition DEF Act, Acts, Attempts
  <2>2. /\ runs' = [runs EXCEPT ![<<j, 1>>] = s] /\ r.next <= Len(r.actions)
        /\ written' = IF r.actions[r.next] = "notify"
                      THEN [written EXCEPT ![j][r.next] = @ + 1] ELSE written
        /\ UNCHANGED <<status, stalls>>
    BY <1>10 DEF Act, RunAction, ActionsOf
  <2>3. s.next = r.next + 1 /\ s.actions = r.actions
    BY <2>1 DEF Executions
  <2> HIDE DEF s
  <2>4. CASE k # j
    BY <1>0, <2>2, <2>4, UntroubledFrame DEF QueueTypes, Attempts
  <2>5. CASE k = j
    <3>1. runs'[<<j, 1>>] = s /\ s # None /\ s # ToRead
      BY <1>0, <2>1, <2>2, RunKinds DEF QueueTypes, Attempts
    <3>2. ASSUME NEW i \in ActionNumbers
          PROVE  written'[j][i] = IF i < s.next THEN Notified(s.actions, i) ELSE 0
      <4>1. written[j][i] = IF i < r.next THEN Notified(r.actions, i) ELSE 0
        BY <2>1 DEF Untroubled, ActionsOf
      <4>2. CASE i # r.next
        <5>1. written'[j][i] = written[j][i]
          BY <1>0, <2>1, <2>2, <4>2 DEF QueueTypes
        <5>2. i < s.next <=> i < r.next
          <6>1. i \in Nat /\ r.next \in Nat
            BY <2>1, NumberTypes
          <6> HIDE DEF r
          <6> QED
            BY <2>3, <4>2, <6>1
        <5> QED
          BY <2>3, <4>1, <5>1, <5>2
      <4>3. CASE i = r.next
        <5>1. written[j][i] = 0
          BY <2>1, <4>1, <4>3, NumberTypes
        <5>2. written'[j][i] = Notified(r.actions, i)
          <6>1. CASE r.actions[r.next] = "notify"
            <7>1. written'[j][i] = written[j][i] + 1
              BY <1>0, <2>1, <2>2, <4>3, <6>1 DEF QueueTypes
            <7> QED
              BY <2>2, <4>3, <5>1, <6>1, <7>1 DEF Notified
          <6>2. CASE r.actions[r.next] # "notify"
            BY <2>2, <4>3, <5>1, <6>2 DEF Notified
          <6> QED
            BY <6>1, <6>2
        <5>3. i < s.next
          BY <2>1, <2>3, <4>3, NumberTypes
        <5> QED
          BY <2>3, <5>2, <5>3
      <4> QED
        BY <4>2, <4>3
    <3>3. status[j] = "active" /\ r # None
      BY <1>6, <1>10 DEF Attempts
    <3> QED
      BY <1>0, <2>2, <2>5, <3>1, <3>2, <3>3 DEF Untroubled, Running, ActionsOf
  <2> QED
    BY <2>4, <2>5
<1> QED
  BY <1>0, <1>2, <1>3, <1>4, <1>5, <1>6, <1>8, <1>9, <1>10, SmoothSteps

LEMMA VersionStep == VersionInv /\ [Next]_vars => VersionInv'
<1> SUFFICES ASSUME VersionInv, [Next]_vars PROVE VersionInv'
  OBVIOUS
<1>1. OnceInv /\ OnceInv'
  BY TypesStep, NoRunAheadStep, AddedOnceStep, AccountedStep
     DEF VersionInv, OnceInv
<1>2. CASE UNCHANGED vars
  BY <1>1, <1>2, UntroubledFrame DEF VersionInv, vars, queue
<1>3. CASE Next
  BY <1>1, <1>3, SmoothSteps, UntroubledStep DEF VersionInv, OnceInv
<1> QED
  BY <1>2, <1>3

(* As long as nothing fails, a job that is done wrote the notifications of *)
(* one version of the workflow, each once, or none at all                  *)
(* (WorkflowProcessor.process), whatever administrators edit meanwhile.    *)
THEOREM OneVersion == Spec => []OneVersionIsRun
<1>1. Init => VersionInv
  <2>1. Init => \A j \in Jobs : Untroubled(j)
    BY RunKinds DEF Init, Untroubled, Running, Attempts
  <2> QED
    BY <2>1, OnceInit DEF VersionInv
<1>2. VersionInv => OneVersionIsRun
  BY DEF VersionInv, Untroubled, OneVersionIsRun, Notified
<1> QED
  BY <1>1, <1>2, VersionStep, PTL DEF Spec

=============================================================================
