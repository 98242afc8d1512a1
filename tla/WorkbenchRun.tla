----------------------------- MODULE WorkbenchRun -----------------------------
(***************************************************************************)
(* workbench/runtime/orchestrator.js and agent-runner.js: one run of a     *)
(* workflow, a sequence of units that are run one after the other.  A unit *)
(* is a group of steps that a few workers take from a queue; a single step *)
(* runs like a group of one.                                               *)
(***************************************************************************)
EXTENDS Naturals, Sequences, SequencesExt, FiniteSets

CONSTANTS
  Units,          (* workflow.steps: a sequence of sequences of step ids   *)
  Concurrency     (* maxConcurrency                                        *)

StepsOf(u) == ToSet(Units[u])
StepIds == UNION {StepsOf(u) : u \in DOMAIN Units}
UnitOf(s) == CHOOSE u \in DOMAIN Units : s \in StepsOf(u)

ASSUME WorkbenchAssumptions ==
  /\ Concurrency \in Nat \ {0}
  /\ Units \in Seq(Seq(StepIds)) /\ Units # << >>
  /\ \A u, v \in DOMAIN Units : \A i \in DOMAIN Units[u], j \in DOMAIN Units[v] :
       Units[u][i] = Units[v][j] => u = v /\ i = j    \* no id is used twice

VARIABLES
  failFast,       (* options.failFast                                      *)
  unit,           (* the unit under way, or the next; past the last at the *)
                  (* end                                                   *)
  within,         (* is the unit under way?                                *)
  queue,          (* its steps that no worker has taken                    *)
  taken,          (* its steps the adapters work on, with the order that   *)
                  (* was read for each before the await                    *)
  records,        (* its records                                           *)
  earlier,        (* the records of the units before                       *)
  seen            (* seen[s]: the records s could refer to when it began   *)

workbenchVars == <<failFast, unit, within, queue, taken, records, earlier, seen>>

WorkbenchInit ==
  /\ failFast \in BOOLEAN
  /\ unit = 1 /\ within = FALSE
  /\ queue = << >> /\ taken = {} /\ records = << >> /\ earlier = << >>
  /\ seen = [s \in StepIds |-> {}]

Record(s, order, ok) == [id |-> s, order |-> order, ok |-> ok]
Ids(recs) == {r.id : r \in ToSet(recs)}
HasError(recs) == \E r \in ToSet(recs) : ~r.ok

-----------------------------------------------------------------------------
(* Mutants: units count, not records; a record can be referred to before   *)
(* its group has ended.                                                    *)
CurrentOrderByUnit == unit - 1
ContextAtOnce == Ids(earlier) \cup Ids(records')

(* currentOrder grows by the records of each unit; context holds the       *)
(* records of the units that have ended.                                   *)
CurrentOrder == Len(earlier)
Context == Ids(earlier)

(* runParallelGroup: as many workers as may run take a step each.          *)
Workers(u) == IF Len(Units[u]) < Concurrency THEN Len(Units[u]) ELSE Concurrency

UnitBegins ==
  /\ ~within /\ unit <= Len(Units)
  /\ within' = TRUE
  /\ UNCHANGED <<failFast, unit, records, earlier>>
  /\ queue' = SubSeq(Units[unit], Workers(unit) + 1, Len(Units[unit]))
  /\ LET first == ToSet(SubSeq(Units[unit], 1, Workers(unit))) IN
       /\ taken' = {[id |-> s, order |-> CurrentOrder] : s \in first}
       /\ seen' = [s \in StepIds |-> IF s \in first THEN Context ELSE seen[s]]

Aborted(recs) == failFast /\ HasError(recs)

(* The adapter answers or throws: the record is kept, and unless the group *)
(* was aborted the worker takes the next step, whose order counts the      *)
(* records so far.                                                         *)
StepEnds(t, ok) ==
  LET recs == Append(records, Record(t.id, t.order, ok))
      order == CurrentOrder + Len(recs)
  IN
  /\ t \in taken
  /\ records' = recs
  /\ \/ /\ Aborted(recs) \/ queue = << >>
        /\ taken' = taken \ {t}
        /\ UNCHANGED <<queue, seen>>
     \/ /\ ~Aborted(recs) /\ queue # << >>
        /\ taken' = (taken \ {t}) \cup {[id |-> Head(queue), order |-> order]}
        /\ queue' = Tail(queue)
        /\ seen' = [seen EXCEPT ![Head(queue)] = Context]
  /\ UNCHANGED <<failFast, unit, within, earlier>>

(* Mutant: a unit that was aborted is not left before its queue is empty.  *)
UnitEndsOnEmptyQueue ==
  /\ within /\ taken = {} /\ queue = << >>
  /\ within' = FALSE
  /\ earlier' = earlier \o records /\ records' = << >>
  /\ unit' = IF failFast /\ HasError(records) THEN Len(Units) + 1 ELSE unit + 1
  /\ UNCHANGED <<failFast, queue, taken, seen>>

(* All workers are done.  With failFast an error ends the run.             *)
UnitEnds ==
  /\ within /\ taken = {}
  /\ within' = FALSE
  /\ earlier' = earlier \o records /\ records' = << >> /\ queue' = << >>
  /\ unit' = IF failFast /\ HasError(records) THEN Len(Units) + 1 ELSE unit + 1
  /\ UNCHANGED <<failFast, taken, seen>>

RunReturned == unit > Len(Units) /\ UNCHANGED workbenchVars

-----------------------------------------------------------------------------
Answered(s) == \E t \in taken : t.id = s /\ \E ok \in BOOLEAN : StepEnds(t, ok)

WorksOn == UnitBegins \/ UnitEnds \/ \E s \in StepIds : Answered(s)

WorkbenchNext == WorksOn \/ RunReturned

WorkbenchSpec == WorkbenchInit /\ [][WorkbenchNext]_workbenchVars

(* Adapters answer or throw.                                               *)
FairWorkbenchSpec == WorkbenchSpec /\ WF_workbenchVars(WorksOn)

-----------------------------------------------------------------------------
(* Properties.                                                             *)

(* Every variable holds values of the shape the code gives it, and no more *)
(* steps are under way than there are workers.                             *)
WorkbenchTypeOK ==
  /\ failFast \in BOOLEAN /\ within \in BOOLEAN
  /\ unit \in 1 .. Len(Units) + 1
  /\ queue \in Seq(StepIds)
  /\ taken \subseteq [id : StepIds, order : Nat] /\ Cardinality(taken) <= Concurrency
  /\ {records, earlier} \subseteq Seq([id : StepIds, order : Nat, ok : BOOLEAN])
  /\ seen \in [StepIds -> SUBSET StepIds]

(* Workers that read the order across an await may give steps of one group *)
(* the same order, never one that a step of another unit has: sorting the  *)
(* records by order keeps the units apart, also after a group that failed  *)
(* or had fewer workers than steps.                                        *)
OrderSeparatesUnits ==
  \A r1, r2 \in ToSet(earlier \o records) :
    UnitOf(r1.id) < UnitOf(r2.id) => r1.order < r2.order

(* What a step could refer to is every step of the units before its own    *)
(* and no step of its own, however the workers of its group overtook each  *)
(* other.                                                                  *)
SeesEarlierUnits ==
  \A s \in Ids(records) \cup Ids(earlier) \cup {t.id : t \in taken} :
    seen[s] = UNION {StepsOf(u) : u \in 1 .. (UnitOf(s) - 1)}

(* Every run returns, with one record of every step it began; without      *)
(* failFast that is every step of the workflow.                            *)
RunReturns ==
  within ~> /\ unit > Len(Units)
            /\ \A i, j \in DOMAIN earlier : earlier[i].id = earlier[j].id => i = j
            /\ failFast \/ Ids(earlier) = StepIds
=============================================================================
