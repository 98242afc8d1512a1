--------------------------- MODULE WorkflowExecutor ---------------------------
(***************************************************************************)
(* workflow-library/executor.js: one execution of a workflow whose steps   *)
(* are tasks, parallel branches, conditionals and compensations.  A list   *)
(* of steps runs in order, each once those before it have passed; branches *)
(* run side by side; when the workflow failed, the compensations of the    *)
(* steps that completed run one by one, the latest first.                  *)
(***************************************************************************)
EXTENDS Naturals, Sequences, SequencesExt

CONSTANTS
  Workflow,       (* the definition, a record of                           *)
                  (*   steps         the ids of its steps                  *)
                  (*   top           the list it executes                  *)
                  (*   kind          the type of each step                 *)
                  (*   lists         of a parallel step, its branches; of  *)
                  (*                 a conditional, its cases and then the *)
                  (*                 default, << >> if it has none         *)
                  (*   dependsOn     the steps that must have completed    *)
                  (*   conditional   the steps that have a condition       *)
                  (*   goesOn        the steps with onFailure: continue    *)
                  (*   compensation  the step that undoes it, or "none"    *)
                  (*   timed         the tasks with a timeout, their own   *)
                  (*                 or the workflow's                     *)
  MaxAttempts     (* retryPolicy.maxAttempts                               *)

Steps == Workflow.steps
Kind(s) == Workflow.kind[s]
Lists(s) == Range(Workflow.lists[s])
Compensable(s) == Workflow.compensation[s] # "none"
IsTask(s) == Kind(s) \in {"task", "compensation"}

AllLists == {Workflow.top} \cup (UNION {Lists(p) : p \in Steps})
Inside(p) == UNION {Range(L) : L \in Lists(p)}

(* What WorkflowValidator accepts, of the workflows whose compensations    *)
(* are tasks that are not compensated themselves.                          *)
ASSUME WorkflowAssumptions ==
  /\ MaxAttempts \in Nat \ {0}
  /\ Workflow.top \in Seq(Steps) /\ Workflow.lists \in [Steps -> Seq(Seq(Steps))]
  /\ \A s \in Steps :
       /\ \E L \in AllLists : s \in Range(L)
       /\ Compensable(s) => Kind(Workflow.compensation[s]) = "compensation"
       /\ Kind(s) = "compensation" => ~Compensable(s)
       /\ Kind(s) \in {"parallel", "conditional"} => Lists(s) # {}

(* A workflow is a JSON document, and a step is known by its id: it stands *)
(* at one place of one list, and of any steps one is inside no other.      *)
ASSUME NestingAssumptions ==
  /\ \A L, M \in AllLists : \A i \in DOMAIN L, j \in DOMAIN M : L[i] = M[j] => L = M /\ i = j
  /\ \A S \in SUBSET Steps : S # {} => \E s \in S : \A p \in S : s \notin Inside(p)

VARIABLES
  policy,         (* workflow.compensationPolicy                           *)
  phase,          (* context.state                                         *)
  status,         (* status[s]: how far step s has come                    *)
  attempt,        (* attempt[s]: the number of its current attempt         *)
  chosen,         (* chosen[s]: the list a conditional runs, 0 for none    *)
  stack,          (* context.compensationStack                             *)
  todo,           (* the compensations that have yet to run, last first    *)
  completed,      (* the steps that completed before the workflow ended    *)
  tried           (* what became of each compensation that had its turn,   *)
                  (* in that order: the step it is for and its outcome     *)

workflowVars == <<policy, phase, status, attempt, chosen, stack, todo, completed, tried>>

WorkflowInit ==
  /\ policy \in {"none", "partial", "full"}
  /\ phase = "running"
  /\ status = [s \in Steps |-> "waiting"]
  /\ attempt = [s \in Steps |-> 0]
  /\ chosen = [s \in Steps |-> 0]
  /\ stack = << >> /\ todo = << >> /\ completed = << >> /\ tried = << >>

-----------------------------------------------------------------------------
(* Lists of steps.                                                         *)

GoesOn(s) == s \in Workflow.goesOn

Passed(s) == status[s] \in {"completed", "skipped"} \/ (status[s] = "failed" /\ GoesOn(s))
Threw(s) == status[s] = "failed" /\ ~GoesOn(s)

ListThrew(L) == \E s \in Range(L) : Threw(s)
ListEnded(L) == ListThrew(L) \/ \A s \in Range(L) : Passed(s)

(* The lists under way: the workflow's, the branches of parallel steps     *)
(* that run, and the case a running conditional chose.                     *)
Branches == UNION { Lists(s) : s \in {p \in Steps : Kind(p) = "parallel" /\ status[p] = "running"} }
Cases == { Workflow.lists[s][chosen[s]] : s \in {p \in Steps : status[p] = "running" /\ chosen[p] > 0} }
Entered == {Workflow.top} \cup Branches \cup Cases

IsNext(s) == \E L \in Entered : \E i \in DOMAIN L :
  L[i] = s /\ \A j \in 1 .. (i - 1) : Passed(L[j])

-----------------------------------------------------------------------------
(* _executeStep.                                                           *)

Status(s, value) == status' = [status EXCEPT ![s] = value]

(* A step is skipped if a dependency has not completed or its condition    *)
(* does not hold.                                                          *)
Skips(s) ==
  \/ \E d \in Workflow.dependsOn[s] : status[d] # "completed"
  \/ s \in Workflow.conditional

(* The case that matches, or the default; without a case it is an error.   *)
CasesOf(s) == LET n == Len(Workflow.lists[s]) IN IF n > 1 THEN 1 .. n ELSE {0}

Runs(s) ==
  /\ \A d \in Workflow.dependsOn[s] : status[d] = "completed"
  /\ Status(s, "running")
  /\ \/ /\ IsTask(s)
        /\ attempt' = [attempt EXCEPT ![s] = 1]
        /\ UNCHANGED chosen
     \/ /\ Kind(s) = "parallel"
        /\ UNCHANGED <<attempt, chosen>>
     \/ /\ Kind(s) = "conditional"
        /\ \E case \in CasesOf(s) : chosen' = [chosen EXCEPT ![s] = case]
        /\ UNCHANGED attempt

StepBegins(s) ==
  /\ phase = "running"
  /\ status[s] = "waiting" /\ IsNext(s)
  /\ \/ Skips(s) /\ Status(s, "skipped") /\ UNCHANGED <<attempt, chosen>>
     \/ Runs(s)
  /\ UNCHANGED <<policy, phase, stack, todo, completed, tried>>

(* The loop over the compensations goes on, whatever the outcome.          *)
TurnEnds(outcome) ==
  /\ tried' = Append(tried, [step |-> Last(todo), outcome |-> outcome])
  /\ todo' = Front(todo)

(* Mutant: a step in a branch registers its compensation with the branch.  *)
EndsInBranch(s, outcome) ==
  /\ Status(s, outcome)
  /\ \/ /\ phase = "running"
        /\ completed' = IF outcome = "completed" THEN Append(completed, s) ELSE completed
        /\ stack' = IF outcome = "completed" /\ Compensable(s) /\ s \in Range(Workflow.top)
                    THEN Append(stack, s) ELSE stack
        /\ UNCHANGED <<todo, tried>>
     \/ /\ phase = "compensating"
        /\ TurnEnds(outcome)
        /\ UNCHANGED <<stack, completed>>

(* A step has its outcome.  While the workflow runs, one that completed    *)
(* registers its compensation; afterwards it was itself the compensation   *)
(* that the loop awaits.                                                   *)
Ends(s, outcome) ==
  /\ Status(s, outcome)
  /\ \/ /\ phase = "running"
        /\ completed' = IF outcome = "completed" THEN Append(completed, s) ELSE completed
        /\ stack' = IF outcome = "completed" /\ Compensable(s) THEN Append(stack, s) ELSE stack
        /\ UNCHANGED <<todo, tried>>
     \/ /\ phase = "compensating"
        /\ TurnEnds(outcome)
        /\ UNCHANGED <<stack, completed>>

-----------------------------------------------------------------------------
(* _executeTask: attempts, each against a timeout, with pauses between.    *)

TaskCompletes(s) ==
  /\ IsTask(s) /\ status[s] = "running"
  /\ Ends(s, "completed")
  /\ UNCHANGED <<policy, phase, attempt, chosen>>

(* Mutant: the last attempt is followed by a pause, too.                   *)
AttemptFailsForEver(s) ==
  /\ IsTask(s) /\ status[s] = "running"
  /\ Status(s, "pause")
  /\ UNCHANGED <<policy, phase, attempt, chosen, stack, todo, completed, tried>>

(* The attempt fails or its timeout, if it has one, wins the race.  What   *)
(* is still going on in it then goes on unobserved.                        *)
AttemptFails(s) ==
  /\ IsTask(s) /\ status[s] = "running"
  /\ \/ /\ attempt[s] < MaxAttempts
        /\ Status(s, "pause")
        /\ UNCHANGED <<stack, todo, completed, tried>>
     \/ Ends(s, "failed")                \* the last attempt, or not retryable
  /\ UNCHANGED <<policy, phase, attempt, chosen>>

BackoffEnds(s) ==
  /\ status[s] = "pause"
  /\ Status(s, "running")
  /\ attempt' = [attempt EXCEPT ![s] = IF @ < MaxAttempts THEN @ + 1 ELSE @]
  /\ UNCHANGED <<policy, phase, chosen, stack, todo, completed, tried>>

-----------------------------------------------------------------------------
(* _executeParallel, _executeConditional.                                  *)

(* Mutant: the step fails as soon as one branch has thrown.                *)
ParallelEndsEarly(s) ==
  /\ Kind(s) = "parallel" /\ status[s] = "running"
  /\ \/ (\E L \in Lists(s) : ListThrew(L)) /\ Ends(s, "failed")
     \/ (\A L \in Lists(s) : ListEnded(L) /\ ~ListThrew(L)) /\ Ends(s, "completed")
  /\ UNCHANGED <<policy, phase, attempt, chosen>>

(* Every branch has ended, and none or some of them threw.                 *)
ParallelEnds(s) ==
  /\ Kind(s) = "parallel" /\ status[s] = "running"
  /\ \A L \in Lists(s) : ListEnded(L)
  /\ Ends(s, IF \E L \in Lists(s) : ListThrew(L) THEN "failed" ELSE "completed")
  /\ UNCHANGED <<policy, phase, attempt, chosen>>

(* The steps of the case that matched, or of the default, have passed, or  *)
(* one threw; or there is no case at all.                                  *)
ConditionalEnds(s) ==
  /\ Kind(s) = "conditional" /\ status[s] = "running"
  /\ LET L == IF chosen[s] = 0 THEN << >> ELSE Workflow.lists[s][chosen[s]] IN
       /\ ListEnded(L)
       /\ Ends(s, IF chosen[s] = 0 \/ ListThrew(L) THEN "failed" ELSE "completed")
  /\ UNCHANGED <<policy, phase, attempt, chosen>>

-----------------------------------------------------------------------------
(* execute, _executeCompensation.                                          *)

(* All steps passed, or one threw: then the compensations that the policy  *)
(* asks for are next.                                                      *)
WorkflowEnds ==
  /\ phase = "running"
  /\ ListEnded(Workflow.top)
  /\ \/ /\ ~ListThrew(Workflow.top)
        /\ phase' = "completed" /\ UNCHANGED todo
     \/ /\ ListThrew(Workflow.top) /\ policy = "none"
        /\ phase' = "failed" /\ UNCHANGED todo
     \/ /\ ListThrew(Workflow.top) /\ policy # "none"
        /\ phase' = "compensating"
        /\ todo' = IF policy = "full" \/ stack = << >> THEN stack ELSE <<Last(stack)>>
  /\ UNCHANGED <<policy, status, attempt, chosen, stack, completed, tried>>

Underway == {s \in Steps : status[s] \in {"running", "pause"}}

(* The compensation of the latest step is executed like any step; one that *)
(* is skipped has had its turn.                                            *)
CompensationBegins(s) ==
  /\ phase = "compensating" /\ todo # << >>
  /\ s = Workflow.compensation[Last(todo)]
  /\ status[s] \notin {"running", "pause"}
  /\ \/ Skips(s) /\ TurnEnds("skipped") /\ UNCHANGED <<status, attempt, chosen, stack, completed>>
     \/ Runs(s) /\ UNCHANGED <<stack, todo, completed, tried>>
  /\ UNCHANGED <<policy, phase>>

CompensationEnds ==
  /\ phase = "compensating" /\ todo = << >>
  /\ phase' = "compensated"
  /\ UNCHANGED <<policy, status, attempt, chosen, stack, todo, completed, tried>>

(* The promise of execute is settled, and nothing more happens.            *)
Settled == phase \in {"completed", "failed", "compensated"} /\ UNCHANGED workflowVars

-----------------------------------------------------------------------------
(* An attempt that has a time limit is over when that has passed.          *)
TimesOut(s) == s \in Workflow.timed /\ AttemptFails(s)

(* What happens without a task that answers.                               *)
Proceeds(s) == \/ StepBegins(s) \/ CompensationBegins(s)
               \/ TimesOut(s) \/ BackoffEnds(s)
               \/ ParallelEnds(s) \/ ConditionalEnds(s)

Executes == WorkflowEnds \/ CompensationEnds \/ \E s \in Steps : Proceeds(s)

WorkflowNext == Executes \/ Settled \/ \E s \in Steps : TaskCompletes(s) \/ AttemptFails(s)

WorkflowSpec == WorkflowInit /\ [][WorkflowNext]_workflowVars

(* Timers fire, and promises that are settled continue.  Nothing says that *)
(* a task answers.                                                         *)
FairWorkflowSpec == WorkflowSpec /\ WF_workflowVars(Executes)

-----------------------------------------------------------------------------
(* Properties.                                                             *)

(* Every variable holds values of the shape the code gives it.             *)
WorkflowTypeOK ==
  /\ policy \in {"none", "partial", "full"}
  /\ phase \in {"running", "completed", "failed", "compensating", "compensated"}
  /\ status \in [Steps -> {"waiting", "skipped", "running", "pause", "completed", "failed"}]
  /\ attempt \in [Steps -> 0 .. MaxAttempts]
  /\ chosen \in [Steps -> Nat] /\ \A s \in Steps : chosen[s] <= Len(Workflow.lists[s])
  /\ {stack, todo, completed} \subseteq Seq(Steps)
  /\ tried \in Seq([step : Steps, outcome : {"completed", "failed", "skipped"}])

(* When the workflow has failed no step of it is under way any more,       *)
(* whatever branch it was in: compensations run one at a time and alone.   *)
CompensatesAlone ==
  phase # "running" => \A s \in Underway :
    phase = "compensating" /\ todo # << >> /\ s = Workflow.compensation[Last(todo)]

(* The step s comes before t in the sequence q.                            *)
Before(q, s, t) == \E i, j \in DOMAIN q : i < j /\ q[i] = s /\ q[j] = t

Undoes(i) == Workflow.compensation[tried[i].step]

(* When the workflow is compensated no step completed twice, and of those  *)
(* that completed and can be undone, in whatever branch, each has had the  *)
(* turn of its compensation, the latest first - or, under the partial      *)
(* policy, the latest alone -, whether or not those before it succeeded.   *)
(* A compensation is left with the outcome of its last turn, unless it was *)
(* skipped then: a step that is not undone has one that failed or was.     *)
UndoesWhatCompleted ==
  phase = "compensated" =>
    LET toUndo == {s \in Range(completed) : Compensable(s)} IN
    /\ \A i, j \in DOMAIN completed : completed[i] = completed[j] => i = j
    /\ {tried[i].step : i \in DOMAIN tried} =
         IF policy = "full" THEN toUndo
         ELSE {s \in toUndo : \A t \in toUndo : ~Before(completed, s, t)}
    /\ \A i, j \in DOMAIN tried : i < j => Before(completed, tried[j].step, tried[i].step)
    /\ \A i \in DOMAIN tried :
         \/ tried[i].outcome \in {"skipped", status[Undoes(i)]}
         \/ \E j \in DOMAIN tried : i < j /\ Undoes(j) = Undoes(i)

(* Every execution settles, however its branches fail and whatever has to  *)
(* be undone, unless a task that has no time limit is never answered.      *)
WorkflowSettles ==
  (\A s \in {t \in Steps : IsTask(t)} \ Workflow.timed : []<>(status[s] # "running")) =>
    (Underway # {} ~> phase \in {"completed", "failed", "compensated"})

-----------------------------------------------------------------------------
(* A claim of the sources that the code does not keep.                     *)

(* workflow-library/README.md:368, "If any step fails, compensation        *)
(* executes in reverse order", and :154, "compensation for rollback on     *)
(* failure": no compensation runs in a workflow that has not failed.       *)
CompensationIsRollback ==
  phase = "running" => \A s \in Underway : Kind(s) # "compensation"
=============================================================================
