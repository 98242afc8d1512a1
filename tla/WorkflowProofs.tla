---------------------------- MODULE WorkflowProofs ----------------------------
(***************************************************************************)
(* Proofs about the two that execute workflows: the executor of the        *)
(* workflow library, for any definition that is a tree of steps, any       *)
(* outcomes and any number of attempts, and the orchestrator of the        *)
(* workbench, for any units, any number of workers and any answers.        *)
(***************************************************************************)
EXTENDS WorkflowExecutor, WorkbenchRun, FiniteSetTheorems, SequenceTheorems, TLAPS

Statuses == {"waiting", "skipped", "running", "pause", "completed", "failed"}

(* A list runs in order: what has begun follows what has passed.           *)
Ordered == \A L \in AllLists : \A i, j \in DOMAIN L :
  i < j /\ status[L[j]] # "waiting" => Passed(L[i])

(* No step outlives the list that it was begun in.                         *)
InEntered == \A s \in Underway : \E L \in Entered : s \in Range(L)

(* What had its turn and what has yet to have it are, from its end, what   *)
(* the policy asks for.                                                    *)
Plan == IF policy = "full" \/ stack = << >> THEN stack ELSE <<Last(stack)>>

PlanKept ==
  /\ Len(tried) + Len(todo) = Len(Plan)
  /\ \A i \in DOMAIN todo : todo[i] = Plan[i]
  /\ \A i \in DOMAIN tried : tried[i].step = Plan[Len(Plan) + 1 - i]

(* The latest turn of a compensation left it as it is, if it ran then and  *)
(* does not run again.                                                     *)
OutcomesKept == \A i \in DOMAIN tried :
  /\ Undoes(i) \in Steps
  /\ \/ tried[i].outcome \in {"skipped", status[Undoes(i)]}
     \/ Undoes(i) \in Underway
     \/ \E j \in DOMAIN tried : i < j /\ Undoes(j) = Undoes(i)

Turns == [step : Steps, outcome : {"completed", "failed", "skipped"}]

(* The stack holds what completed and can be undone, in that order.        *)
StackKept ==
  /\ \A i, j \in DOMAIN completed : completed[i] = completed[j] => i = j
  /\ Range(stack) = {s \in Range(completed) : Compensable(s)}
  /\ \A i, j \in DOMAIN stack : i < j => Before(completed, stack[i], stack[j])

WorkflowInv ==
  /\ WorkflowTypeOK
  /\ \A s \in Steps : chosen[s] > 0 => Kind(s) = "conditional"
  /\ \A s \in Steps : status[s] = "pause" => IsTask(s)
  /\ phase = "running" =>
       /\ Ordered /\ InEntered
       /\ \A s \in Range(completed) : status[s] = "completed"
       /\ todo = << >> /\ tried = << >>
  /\ StackKept
  /\ phase = "compensating" => policy # "none" /\ PlanKept
  /\ phase = "compensated" => policy # "none" /\ PlanKept /\ todo = << >>
  /\ OutcomesKept
  /\ CompensatesAlone

-----------------------------------------------------------------------------
(* Lists.                                                                  *)

LEMMA EnteredAre ==
  ASSUME NEW L
  PROVE  L \in Entered <=>
           \/ L = Workflow.top
           \/ \E p \in Steps : /\ status[p] = "running"
                               /\ \/ Kind(p) = "parallel" /\ L \in Lists(p)
                                  \/ chosen[p] > 0 /\ L = Workflow.lists[p][chosen[p]]
<1>1. L \in Branches <=> \E p \in Steps : status[p] = "running" /\ Kind(p) = "parallel" /\ L \in Lists(p)
  BY DEF Branches
<1>2. L \in Cases <=> \E p \in Steps : status[p] = "running" /\ chosen[p] > 0 /\ L = Workflow.lists[p][chosen[p]]
  BY DEF Cases
<1> QED BY <1>1, <1>2 DEF Entered

LEMMA EnteredListed == ASSUME WorkflowTypeOK PROVE Entered \subseteq AllLists
<1> SUFFICES ASSUME NEW L \in Entered PROVE L \in AllLists
  OBVIOUS
<1>1. CASE L = Workflow.top
  BY <1>1 DEF AllLists
<1>2. ASSUME NEW p \in Steps, L \in Lists(p) PROVE L \in AllLists
  BY <1>2 DEF AllLists
<1>3. ASSUME NEW p \in Steps, chosen[p] > 0, L = Workflow.lists[p][chosen[p]]
      PROVE  L \in Lists(p)
  <2>1. Workflow.lists[p] \in Seq(Seq(Steps)) /\ chosen[p] \in 1 .. Len(Workflow.lists[p])
    BY <1>3, WorkflowAssumptions DEF WorkflowTypeOK
  <2> QED BY <1>3, <2>1 DEF Lists, Range
<1> QED BY <1>1, <1>2, <1>3, EnteredAre

LEMMA ListsAreSequences == AllLists \subseteq Seq(Steps)
BY WorkflowAssumptions DEF AllLists, Lists, Range

(* Where a list has ended nothing is under way: a step that threw follows  *)
(* steps that passed, and nothing has begun after it.                      *)
LEMMA EndedIsIdle ==
  ASSUME Ordered, NEW L \in AllLists, ListEnded(L), NEW s \in Range(L)
  PROVE  s \notin Underway
<1> SUFFICES ASSUME status[s] \in {"running", "pause"} PROVE FALSE
  BY DEF Underway
<1>1. L \in Seq(Steps)
  BY ListsAreSequences
<1>2. PICK i \in DOMAIN L : L[i] = s
  BY DEF Range
<1>3. ~Passed(s)
  BY DEF Passed
<1>4. PICK j \in DOMAIN L : Threw(L[j])
  BY <1>3 DEF ListEnded, ListThrew, Range
<1>5. ~Passed(L[j]) /\ status[L[j]] # "waiting" /\ status[s] # "waiting"
  BY <1>4 DEF Threw, Passed
<1>6. i # j
  BY <1>2, <1>4 DEF Threw
<1>7. i \in Nat /\ j \in Nat
  BY <1>1
<1>8. i < j \/ j < i
  BY <1>6, <1>7
<1> QED BY <1>2, <1>3, <1>5, <1>8 DEF Ordered

(* Once the workflow's own list has ended, no step of any list is under    *)
(* way: one that is inside no other would be in that list.                 *)
LEMMA EndedWorkflowIsIdle ==
  ASSUME WorkflowTypeOK, Ordered, InEntered, ListEnded(Workflow.top),
         \A s \in Steps : chosen[s] > 0 => Kind(s) = "conditional"
  PROVE  Underway = {}
<1> SUFFICES ASSUME Underway # {} PROVE FALSE
  OBVIOUS
<1>1. Underway \in SUBSET Steps
  BY DEF Underway
<1>2. PICK s \in Underway : \A p \in Underway : s \notin Inside(p)
  BY <1>1, NestingAssumptions
<1>3. PICK L \in Entered : s \in Range(L)
  BY DEF InEntered
<1>4. L = Workflow.top
  <2> SUFFICES ASSUME L # Workflow.top PROVE FALSE
    OBVIOUS
  <2>1. PICK p \in Steps : /\ status[p] = "running"
                           /\ \/ Kind(p) = "parallel" /\ L \in Lists(p)
                              \/ chosen[p] > 0 /\ L = Workflow.lists[p][chosen[p]]
    BY <1>3, EnteredAre
  <2>2. L \in Lists(p)
    <3>1. ASSUME chosen[p] > 0, L = Workflow.lists[p][chosen[p]] PROVE L \in Lists(p)
      <4>1. Workflow.lists[p] \in Seq(Seq(Steps)) /\ chosen[p] \in 1 .. Len(Workflow.lists[p])
        BY <3>1, WorkflowAssumptions DEF WorkflowTypeOK
      <4> QED BY <3>1, <4>1 DEF Lists, Range
    <3> QED BY <2>1, <3>1
  <2>3. p \in Underway /\ s \in Inside(p)
    BY <1>3, <2>1, <2>2 DEF Underway, Inside
  <2> QED BY <1>2, <2>3
<1>5. Workflow.top \in AllLists
  BY DEF AllLists
<1> QED BY <1>3, <1>4, <1>5, EndedIsIdle

(* A step that begins in its turn, or goes on, keeps the lists in order.   *)
LEMMA StatusKeepsOrder ==
  ASSUME WorkflowTypeOK, Ordered, NEW s \in Steps, NEW v, Status(s, v),
         IsNext(s) \/ status[s] # "waiting", ~Passed(s)
  PROVE  Ordered'
<1> SUFFICES ASSUME NEW L \in AllLists, NEW i \in DOMAIN L, NEW j \in DOMAIN L,
                    i < j, status'[L[j]] # "waiting"
             PROVE  Passed(L[i])'
  BY DEF Ordered
<1>1. L \in Seq(Steps)
  BY ListsAreSequences
<1>2. L[i] \in Steps /\ L[j] \in Steps /\ i \in Nat /\ j \in Nat
  BY <1>1
<1>3. \A t \in Steps : t # s => status'[t] = status[t]
  BY DEF Status, WorkflowTypeOK
<1>4. Passed(L[i])
  <2>1. CASE status[L[j]] # "waiting"
    BY <2>1 DEF Ordered
  <2>2. CASE status[L[j]] = "waiting"
    <3>1. L[j] = s
      BY <1>2, <1>3, <2>2
    <3>2. PICK M \in Entered : \E h \in DOMAIN M : M[h] = s /\ \A g \in 1 .. (h - 1) : Passed(M[g])
      BY <2>2, <3>1 DEF IsNext
    <3>3. PICK h \in DOMAIN M : M[h] = s /\ \A g \in 1 .. (h - 1) : Passed(M[g])
      BY <3>2
    <3>4. M \in AllLists
      BY EnteredListed
    <3>5. M = L /\ h = j
      BY <3>1, <3>3, <3>4, NestingAssumptions
    <3>6. i \in 1 .. (j - 1)
      BY <1>1, <1>2
    <3> QED BY <3>3, <3>5, <3>6
  <2> QED BY <2>1, <2>2
<1>5. status'[L[i]] = status[L[i]]
  BY <1>2, <1>3, <1>4
<1> QED BY <1>4, <1>5 DEF Passed

(* The lists stay entered whose steps may still be under way: all of them, *)
(* but for those of a step that ends.                                      *)
LEMMA StatusKeepsEntered ==
  ASSUME WorkflowTypeOK, Ordered, InEntered, NEW s \in Steps, NEW v, Status(s, v),
         \A t \in Steps : t # s => chosen'[t] = chosen[t],
         v \in {"running", "pause"} => \E L \in Entered : s \in Range(L),
         status[s] # "running"
           \/ \A L \in AllLists :
                \/ Kind(s) = "parallel" /\ L \in Lists(s)
                \/ chosen[s] > 0 /\ L = Workflow.lists[s][chosen[s]]
                => ListEnded(L)
  PROVE  InEntered'
<1>1. \A t \in Steps : t # s => status'[t] = status[t]
  BY DEF Status, WorkflowTypeOK
<1>2. status'[s] = v
  BY DEF Status, WorkflowTypeOK
<1> SUFFICES ASSUME NEW t \in Steps, status'[t] \in {"running", "pause"}
             PROVE  \E L \in Entered' : t \in Range(L)
  BY DEF InEntered, Underway
<1>3. PICK L \in Entered : t \in Range(L)
  BY <1>1, <1>2 DEF InEntered, Underway
<1>4. L \in AllLists
  BY EnteredListed
<1>5. ASSUME NEW p \in Steps, p # s, status[p] = "running",
             \/ Kind(p) = "parallel" /\ L \in Lists(p)
             \/ chosen[p] > 0 /\ L = Workflow.lists[p][chosen[p]]
      PROVE  L \in Entered'
  <2>1. status'[p] = "running" /\ chosen'[p] = chosen[p]
    BY <1>1, <1>5
  <2>2. CASE Kind(p) = "parallel" /\ L \in Lists(p)
    <3>1. L \in Branches'
      BY <2>1, <2>2 DEF Branches
    <3> QED BY <3>1 DEF Entered
  <2>3. CASE chosen[p] > 0 /\ L = Workflow.lists[p][chosen[p]]
    <3>1. p \in {q \in Steps : status'[q] = "running" /\ chosen'[q] > 0}
          /\ L = Workflow.lists[p][chosen'[p]]
      BY <2>1, <2>3
    <3> QED BY <3>1 DEF Cases, Entered
  <2> QED BY <1>5, <2>2, <2>3
<1>6. CASE L = Workflow.top
  BY <1>3, <1>6 DEF Entered
<1>7. CASE L # Workflow.top
  <2>1. PICK p \in Steps : /\ status[p] = "running"
                           /\ \/ Kind(p) = "parallel" /\ L \in Lists(p)
                              \/ chosen[p] > 0 /\ L = Workflow.lists[p][chosen[p]]
    BY <1>7, EnteredAre
  <2>2. CASE p # s
    BY <1>3, <1>5, <2>1, <2>2
  <2>3. CASE p = s
    <3>1. ListEnded(L)
      BY <1>4, <2>1, <2>3
    <3>2. t \notin Underway
      BY <1>3, <1>4, <3>1, EndedIsIdle
    <3>3. t = s
      BY <1>1, <3>2 DEF Underway
    <3>4. s \in Underway
      BY <2>1, <2>3 DEF Underway
    <3> QED BY <3>2, <3>3, <3>4
  <2> QED BY <2>2, <2>3
<1> QED BY <1>6, <1>7

-----------------------------------------------------------------------------
(* The compensations.                                                      *)

LEMMA AppendedRange ==
  ASSUME NEW q \in Seq(Steps), NEW s \in Steps
  PROVE  /\ Append(q, s) \in Seq(Steps) /\ Len(Append(q, s)) = Len(q) + 1
         /\ DOMAIN q = 1 .. Len(q) /\ DOMAIN Append(q, s) = 1 .. Len(q) + 1 /\ Len(q) \in Nat
         /\ Append(q, s)[Len(q) + 1] = s /\ \A i \in 1 .. Len(q) : Append(q, s)[i] = q[i]
         /\ Range(Append(q, s)) = Range(q) \cup {s}
<1>1. /\ Append(q, s) \in Seq(Steps) /\ Len(Append(q, s)) = Len(q) + 1
      /\ DOMAIN q = 1 .. Len(q) /\ DOMAIN Append(q, s) = 1 .. Len(q) + 1 /\ Len(q) \in Nat
      /\ Append(q, s)[Len(q) + 1] = s /\ \A i \in 1 .. Len(q) : Append(q, s)[i] = q[i]
  OBVIOUS
<1>2. Range(Append(q, s)) = Range(q) \cup {s}
  BY <1>1 DEF Range
<1> QED BY <1>1, <1>2

LEMMA BeforeAppended ==
  ASSUME NEW q \in Seq(Steps), NEW s \in Steps
  PROVE  /\ \A t, u : Before(q, t, u) => Before(Append(q, s), t, u)
         /\ \A t \in Range(q) : Before(Append(q, s), t, s)
<1>1. ASSUME NEW t, NEW u, Before(q, t, u) PROVE Before(Append(q, s), t, u)
  <2>1. PICK i, j \in DOMAIN q : i < j /\ q[i] = t /\ q[j] = u
    BY <1>1 DEF Before
  <2>2. /\ i \in DOMAIN Append(q, s) /\ j \in DOMAIN Append(q, s)
        /\ Append(q, s)[i] = q[i] /\ Append(q, s)[j] = q[j]
    BY AppendedRange
  <2> QED BY <2>1, <2>2 DEF Before
<1>2. ASSUME NEW t \in Range(q) PROVE Before(Append(q, s), t, s)
  <2>1. PICK i \in 1 .. Len(q) : q[i] = t
    BY DEF Range
  <2>2. /\ i \in DOMAIN Append(q, s) /\ Len(q) + 1 \in DOMAIN Append(q, s) /\ i < Len(q) + 1
        /\ Append(q, s)[i] = t /\ Append(q, s)[Len(q) + 1] = s
    BY <2>1, AppendedRange
  <2> QED BY <2>2 DEF Before
<1> QED BY <1>1, <1>2

LEMMA CompletingKeepsStack ==
  ASSUME WorkflowTypeOK, StackKept, NEW s \in Steps, s \notin Range(completed),
         completed' = Append(completed, s),
         stack' = IF Compensable(s) THEN Append(stack, s) ELSE stack
  PROVE  StackKept'
<1>1. completed \in Seq(Steps) /\ stack \in Seq(Steps)
  BY DEF WorkflowTypeOK
<1>2. /\ DOMAIN completed' = 1 .. Len(completed) + 1 /\ completed'[Len(completed) + 1] = s
      /\ \A i \in 1 .. Len(completed) : completed'[i] = completed[i]
      /\ DOMAIN completed = 1 .. Len(completed) /\ Len(completed) \in Nat
      /\ Range(completed') = Range(completed) \cup {s}
  BY <1>1, AppendedRange
<1>3. \A i, j \in DOMAIN completed' : completed'[i] = completed'[j] => i = j
  <2>1. \A i \in 1 .. Len(completed) : completed[i] # s
    BY <1>2 DEF Range
  <2>2. \A i, j \in 1 .. Len(completed) : completed[i] = completed[j] => i = j
    BY <1>2 DEF StackKept
  <2> QED BY <1>2, <2>1, <2>2
<1>4. \A i, j \in DOMAIN stack : i < j => Before(completed', stack[i], stack[j])
  BY <1>1, BeforeAppended DEF StackKept
<1>5. CASE ~Compensable(s)
  <2>1. stack' = stack /\ Range(stack) = {t \in Range(completed') : Compensable(t)}
    BY <1>2, <1>5 DEF StackKept
  <2> QED BY <1>3, <1>4, <2>1 DEF StackKept
<1>6. CASE Compensable(s)
  <2>1. /\ DOMAIN stack' = 1 .. Len(stack) + 1 /\ stack'[Len(stack) + 1] = s
        /\ \A i \in 1 .. Len(stack) : stack'[i] = stack[i]
        /\ DOMAIN stack = 1 .. Len(stack) /\ Len(stack) \in Nat
        /\ Range(stack') = Range(stack) \cup {s}
    BY <1>1, <1>6, AppendedRange
  <2>2. Range(stack') = {t \in Range(completed') : Compensable(t)}
    BY <1>2, <1>6, <2>1 DEF StackKept
  <2>3. ASSUME NEW i \in DOMAIN stack', NEW j \in DOMAIN stack', i < j
        PROVE  Before(completed', stack'[i], stack'[j])
    <3>1. i \in 1 .. Len(stack) /\ stack'[i] = stack[i]
      BY <2>1, <2>3
    <3>2. CASE j \in 1 .. Len(stack)
      BY <1>4, <2>1, <2>3, <3>1, <3>2
    <3>3. CASE j = Len(stack) + 1
      <4>1. stack[i] \in Range(completed)
        BY <2>1, <3>1 DEF StackKept, Range
      <4> QED BY <1>1, <2>1, <3>1, <3>3, <4>1, BeforeAppended
    <3> QED BY <2>1, <3>2, <3>3
  <2> QED BY <1>3, <2>2, <2>3 DEF StackKept
<1> QED BY <1>5, <1>6

LEMMA FrontLast ==
  ASSUME NEW q \in Seq(Steps), q # << >>
  PROVE  /\ Len(q) \in Nat \ {0} /\ Last(q) = q[Len(q)] /\ Last(q) \in Range(q) /\ Last(q) \in Steps
         /\ Front(q) \in Seq(Steps) /\ Len(Front(q)) = Len(q) - 1
         /\ DOMAIN Front(q) = 1 .. Len(q) - 1 /\ \A i \in 1 .. Len(q) - 1 : Front(q)[i] = q[i]
<1>1. Len(q) \in Nat \ {0} /\ Last(q) = q[Len(q)] /\ Last(q) \in Range(q) /\ Last(q) \in Steps
  BY DEF Last, Range
<1>2. PICK n \in Nat : Len(q) = n + 1
  BY <1>1
<1>3. Front(q) = SubSeq(q, 1, n)
  BY <1>2 DEF Front
<1>4. /\ SubSeq(q, 1, n) \in Seq(Steps) /\ Len(SubSeq(q, 1, n)) = n
      /\ \A i \in 1 .. n : SubSeq(q, 1, n)[i] = q[i]
  BY <1>2
<1> QED BY <1>1, <1>2, <1>3, <1>4

LEMMA AppendedTurn ==
  ASSUME NEW q \in Seq(Turns), NEW turn \in Turns
  PROVE  /\ Append(q, turn) \in Seq(Turns) /\ Len(Append(q, turn)) = Len(q) + 1
         /\ DOMAIN q = 1 .. Len(q) /\ DOMAIN Append(q, turn) = 1 .. Len(q) + 1 /\ Len(q) \in Nat
         /\ Append(q, turn)[Len(q) + 1] = turn
         /\ \A i \in 1 .. Len(q) : Append(q, turn)[i] = q[i]
OBVIOUS

(* The turn of the latest step that is left keeps to the plan.             *)
LEMMA TurnKeepsPlan ==
  ASSUME WorkflowTypeOK, PlanKept, todo # << >>, UNCHANGED <<policy, stack>>,
         NEW outcome \in {"completed", "failed", "skipped"}, TurnEnds(outcome)
  PROVE  PlanKept' /\ todo' \in Seq(Steps) /\ tried' \in Seq(Turns)
<1> DEFINE turn == [step |-> Last(todo), outcome |-> outcome]
<1>1. todo \in Seq(Steps) /\ tried \in Seq(Turns) /\ Len(todo) \in Nat \ {0} /\ Len(tried) \in Nat
  BY DEF WorkflowTypeOK, Turns
<1>2. Last(todo) = todo[Len(todo)] /\ Last(todo) \in Steps
  BY FrontLast DEF WorkflowTypeOK
<1>3. /\ todo' \in Seq(Steps) /\ Len(todo') = Len(todo) - 1
      /\ DOMAIN todo' = 1 .. Len(todo) - 1 /\ \A i \in DOMAIN todo' : todo'[i] = todo[i]
  BY FrontLast DEF WorkflowTypeOK, TurnEnds
<1>4. turn \in Turns /\ turn.step = todo[Len(todo)] /\ tried' = Append(tried, turn)
  BY <1>2 DEF Turns, TurnEnds
<1> HIDE DEF turn
<1>5. /\ tried' \in Seq(Turns) /\ Len(tried') = Len(tried) + 1
      /\ DOMAIN tried' = 1 .. Len(tried) + 1 /\ DOMAIN tried = 1 .. Len(tried)
      /\ tried'[Len(tried) + 1].step = todo[Len(todo)]
      /\ \A i \in 1 .. Len(tried) : tried'[i] = tried[i]
  BY <1>1, <1>4, AppendedTurn
<1>6. Plan' = Plan
  BY DEF Plan
<1>7. Len(tried) + Len(todo) = Len(Plan) /\ todo[Len(todo)] = Plan[Len(todo)]
  BY <1>1 DEF PlanKept
<1>8. \A i \in DOMAIN todo' : todo'[i] = Plan[i]
  BY <1>1, <1>3 DEF PlanKept
<1>9. \A i \in DOMAIN tried' : tried'[i].step = Plan[Len(Plan) + 1 - i]
  <2>1. \A i \in 1 .. Len(tried) : tried'[i].step = Plan[Len(Plan) + 1 - i]
    BY <1>5 DEF PlanKept
  <2>2. tried'[Len(tried) + 1].step = Plan[Len(Plan) + 1 - (Len(tried) + 1)]
    <3>1. \A n, u, d \in Nat : u + d = n => n + 1 - (u + 1) = d
      OBVIOUS
    <3>2. Len(Plan) \in Nat
      BY <1>1, <1>7
    <3>3. Len(Plan) + 1 - (Len(tried) + 1) = Len(todo)
      BY <1>1, <1>7, <3>1, <3>2
    <3> QED BY <1>5, <1>7, <3>3
  <2> QED BY <1>1, <1>5, <2>1, <2>2
<1>10. Len(tried') + Len(todo') = Len(Plan)
  <2>1. \A u, d \in Nat : (u + 1) + (d - 1) = u + d
    OBVIOUS
  <2>2. Len(tried') + Len(todo') = (Len(tried) + 1) + (Len(todo) - 1)
    BY <1>3, <1>5
  <2> QED BY <1>1, <1>7, <2>1, <2>2
<1> QED BY <1>3, <1>5, <1>6, <1>8, <1>9, <1>10 DEF PlanKept

(* It is also the latest turn of its compensation, which is left as it     *)
(* records; the other compensations are left as they were.                 *)
LEMMA TurnKeepsOutcomes ==
  ASSUME WorkflowTypeOK, OutcomesKept, todo # << >>, NEW s \in Steps,
         s = Workflow.compensation[Last(todo)], \A t \in Underway : t = s,
         NEW outcome \in {"completed", "failed", "skipped"}, TurnEnds(outcome),
         outcome \in {"skipped", status'[s]},
         \A t \in Steps : t # s => status'[t] = status[t]
  PROVE  OutcomesKept'
<1> DEFINE turn == [step |-> Last(todo), outcome |-> outcome]
<1>1. turn \in Turns /\ turn.step = Last(todo) /\ turn.outcome = outcome /\ tried' = Append(tried, turn)
  BY FrontLast DEF WorkflowTypeOK, Turns, TurnEnds
<1> HIDE DEF turn
<1>2. /\ DOMAIN tried' = 1 .. Len(tried) + 1 /\ DOMAIN tried = 1 .. Len(tried) /\ Len(tried) \in Nat
      /\ tried'[Len(tried) + 1] = turn /\ \A i \in 1 .. Len(tried) : tried'[i] = tried[i]
  <2>1. tried \in Seq(Turns)
    BY DEF WorkflowTypeOK, Turns
  <2> QED BY <1>1, <2>1, AppendedTurn
<1>3. /\ Workflow.compensation[tried'[Len(tried) + 1].step] = s
      /\ \A i \in DOMAIN tried : Workflow.compensation[tried'[i].step] = Undoes(i)
  BY <1>1, <1>2 DEF Undoes
<1> DEFINE undoes(i) == Workflow.compensation[tried'[i].step]
<1>4. SUFFICES ASSUME NEW i \in DOMAIN tried'
               PROVE  /\ undoes(i) \in Steps
                      /\ \/ tried'[i].outcome \in {"skipped", status'[undoes(i)]}
                         \/ \E j \in DOMAIN tried' : i < j /\ undoes(j) = undoes(i)
  BY DEF OutcomesKept, Undoes
<1>5. CASE i = Len(tried) + 1
  BY <1>1, <1>2, <1>3, <1>5
<1>6. CASE i \in DOMAIN tried /\ undoes(i) = s
  <2>1. Len(tried) + 1 \in DOMAIN tried' /\ i < Len(tried) + 1 /\ undoes(Len(tried) + 1) = undoes(i)
    BY <1>2, <1>3, <1>6
  <2> QED BY <1>6, <2>1
<1>7. CASE i \in DOMAIN tried /\ undoes(i) # s
  <2>1. undoes(i) = Undoes(i) /\ Undoes(i) \in Steps /\ Undoes(i) \notin Underway
        /\ tried'[i] = tried[i] /\ status'[undoes(i)] = status[Undoes(i)]
    BY <1>2, <1>3, <1>7 DEF OutcomesKept
  <2>2. CASE tried[i].outcome \in {"skipped", status[Undoes(i)]}
    BY <2>1, <2>2
  <2>3. ASSUME NEW j \in DOMAIN tried, i < j, Undoes(j) = Undoes(i)
        PROVE  j \in DOMAIN tried' /\ undoes(j) = undoes(i)
    BY <1>2, <1>3, <2>1, <2>3
  <2> QED BY <1>7, <2>1, <2>2, <2>3 DEF OutcomesKept
<1> QED BY <1>2, <1>5, <1>6, <1>7

(* While no turn ends and only a compensation that is now under way has    *)
(* another status, the outcomes are kept, too.                             *)
LEMMA SameTurnsKeepOutcomes ==
  ASSUME OutcomesKept, tried' = tried, NEW s \in Underway',
         \A t \in Steps : t # s => status'[t] = status[t]
  PROVE  OutcomesKept'
<1> SUFFICES ASSUME NEW i \in DOMAIN tried
             PROVE  /\ Undoes(i) \in Steps
                    /\ \/ tried[i].outcome \in {"skipped", status'[Undoes(i)]}
                       \/ Undoes(i) \in Underway'
                       \/ \E j \in DOMAIN tried : i < j /\ Undoes(j) = Undoes(i)
  BY DEF OutcomesKept, Undoes
<1>1. /\ Undoes(i) \in Steps
      /\ \/ tried[i].outcome \in {"skipped", status[Undoes(i)]}
         \/ Undoes(i) \in Underway
         \/ \E j \in DOMAIN tried : i < j /\ Undoes(j) = Undoes(i)
  BY DEF OutcomesKept
<1>2. \A t \in Steps : t # s /\ t \in Underway => t \in Underway'
  BY DEF Underway
<1> QED BY <1>1, <1>2

LEMMA StatusType ==
  ASSUME WorkflowTypeOK, NEW s \in Steps, NEW v \in Statuses, Status(s, v)
  PROVE  /\ status' \in [Steps -> Statuses] /\ status'[s] = v
         /\ \A t \in Steps : t # s => status'[t] = status[t]
BY DEF WorkflowTypeOK, Statuses, Status

-----------------------------------------------------------------------------
(* The actions.                                                            *)

LEMMA WorkflowInitInv == WorkflowInit => WorkflowInv
<1> SUFFICES ASSUME WorkflowInit PROVE WorkflowInv
  OBVIOUS
<1>1. WorkflowTypeOK
  <2>1. \A s \in Steps : Len(Workflow.lists[s]) \in Nat
    BY WorkflowAssumptions
  <2> QED BY <2>1, WorkflowAssumptions DEF WorkflowInit, WorkflowTypeOK
<1>2. Underway = {}
  BY DEF Underway, WorkflowInit
<1>3. Ordered
  <2> SUFFICES ASSUME NEW L \in AllLists, NEW j \in DOMAIN L PROVE status[L[j]] = "waiting"
    BY DEF Ordered
  <2>1. L[j] \in Steps
    BY ListsAreSequences
  <2> QED BY <2>1 DEF WorkflowInit
<1>4. StackKept
  BY DEF WorkflowInit, StackKept, Range
<1>5. OutcomesKept
  BY DEF WorkflowInit, OutcomesKept
<1> QED
  BY <1>1, <1>2, <1>3, <1>4, <1>5
  DEF WorkflowInit, WorkflowInv, InEntered, CompensatesAlone, Range

LEMMA StepBeginsKeeps ==
  ASSUME WorkflowInv, NEW s \in Steps, StepBegins(s)
  PROVE  WorkflowInv'
<1>1. /\ phase = "running" /\ status[s] = "waiting" /\ IsNext(s) /\ WorkflowTypeOK
      /\ UNCHANGED <<policy, phase, stack, todo, completed, tried>>
  BY DEF StepBegins, WorkflowInv
<1>2. PICK v \in {"skipped", "running"} : Status(s, v)
  BY DEF StepBegins, Runs
<1>3. /\ status' \in [Steps -> Statuses] /\ status'[s] = v
      /\ \A t \in Steps : t # s => status'[t] = status[t]
  BY <1>1, <1>2, StatusType DEF Statuses
<1>4. /\ attempt' \in [Steps -> 0 .. MaxAttempts]
      /\ chosen' \in [Steps -> Nat] /\ \A t \in Steps : chosen'[t] <= Len(Workflow.lists[t])
      /\ \A t \in Steps : t # s => chosen'[t] = chosen[t]
      /\ \A t \in Steps : chosen'[t] > 0 => Kind(t) = "conditional"
  <2>1. CASE UNCHANGED <<attempt, chosen>>
    BY <1>1, <2>1 DEF WorkflowTypeOK, WorkflowInv
  <2>2. CASE attempt' = [attempt EXCEPT ![s] = 1] /\ UNCHANGED chosen
    BY <1>1, <2>2, WorkflowAssumptions DEF WorkflowTypeOK, WorkflowInv
  <2>3. ASSUME Kind(s) = "conditional", NEW case \in CasesOf(s),
               chosen' = [chosen EXCEPT ![s] = case], UNCHANGED attempt
        PROVE  /\ attempt' \in [Steps -> 0 .. MaxAttempts]
               /\ chosen' \in [Steps -> Nat] /\ \A t \in Steps : chosen'[t] <= Len(Workflow.lists[t])
               /\ \A t \in Steps : t # s => chosen'[t] = chosen[t]
               /\ \A t \in Steps : chosen'[t] > 0 => Kind(t) = "conditional"
    <3>1. Len(Workflow.lists[s]) \in Nat /\ case \in Nat /\ case <= Len(Workflow.lists[s])
      BY <2>3, WorkflowAssumptions DEF CasesOf
    <3>2. chosen' \in [Steps -> Nat] /\ chosen'[s] = case /\ \A t \in Steps : t # s => chosen'[t] = chosen[t]
      BY <1>1, <2>3, <3>1 DEF WorkflowTypeOK
    <3> QED BY <1>1, <2>3, <3>1, <3>2 DEF WorkflowTypeOK, WorkflowInv
  <2> QED BY <2>1, <2>2, <2>3 DEF StepBegins, Runs
<1>5. WorkflowTypeOK'
  BY <1>1, <1>3, <1>4 DEF WorkflowTypeOK, Statuses
<1>6. Ordered /\ InEntered
  BY <1>1 DEF WorkflowInv
<1>7. Ordered'
  BY <1>1, <1>2, <1>6, StatusKeepsOrder DEF Passed
<1>8. \E L \in Entered : s \in Range(L)
  BY <1>1 DEF IsNext, Range
<1>9. InEntered'
  BY <1>1, <1>2, <1>4, <1>6, <1>8, StatusKeepsEntered
<1>10. \A t \in Range(completed) : status'[t] = "completed"
  <2>1. \A t \in Range(completed) : t \in Steps /\ status[t] = "completed"
    BY <1>1 DEF WorkflowInv, WorkflowTypeOK, Range
  <2> QED BY <1>1, <1>3, <2>1
<1>11. StackKept'
  BY <1>1 DEF WorkflowInv, StackKept
<1>12. \A t \in Steps : status'[t] = "pause" => IsTask(t)
  BY <1>3 DEF WorkflowInv
<1>13. OutcomesKept'
  BY <1>1 DEF WorkflowInv, OutcomesKept
<1> QED
  BY <1>1, <1>4, <1>5, <1>7, <1>9, <1>10, <1>11, <1>12, <1>13 DEF WorkflowInv, CompensatesAlone

(* A step that ran has its outcome, and so have its lists.                 *)
LEMMA EndsKeeps ==
  ASSUME WorkflowInv, NEW s \in Steps, NEW outcome \in {"completed", "failed"},
         status[s] = "running", Ends(s, outcome), UNCHANGED <<policy, phase, attempt, chosen>>,
         \A L \in AllLists :
           \/ Kind(s) = "parallel" /\ L \in Lists(s)
           \/ chosen[s] > 0 /\ L = Workflow.lists[s][chosen[s]]
           => ListEnded(L)
  PROVE  WorkflowInv'
<1>1. WorkflowTypeOK /\ Status(s, outcome) /\ phase \in {"running", "compensating"}
  BY DEF WorkflowInv, Ends
<1>2. /\ status' \in [Steps -> Statuses] /\ status'[s] = outcome
      /\ \A t \in Steps : t # s => status'[t] = status[t]
  BY <1>1, StatusType DEF Statuses
<1>3. /\ \A t \in Steps : chosen'[t] > 0 => Kind(t) = "conditional"
      /\ \A t \in Steps : status'[t] = "pause" => IsTask(t)
  BY <1>2 DEF WorkflowInv
<1>4. CASE phase = "running"
  <2>1. /\ completed' = IF outcome = "completed" THEN Append(completed, s) ELSE completed
        /\ stack' = IF outcome = "completed" /\ Compensable(s) THEN Append(stack, s) ELSE stack
        /\ UNCHANGED <<todo, tried>> /\ tried = << >>
    BY <1>4 DEF Ends, WorkflowInv
  <2>2. completed \in Seq(Steps) /\ stack \in Seq(Steps)
    BY <1>1 DEF WorkflowTypeOK
  <2>3. Ordered /\ InEntered /\ \A t \in Range(completed) : t \in Steps /\ status[t] = "completed"
    BY <1>4, <2>2 DEF WorkflowInv, Range
  <2>4. s \notin Range(completed)
    BY <2>3
  <2>5. completed' \in Seq(Steps) /\ stack' \in Seq(Steps)
    BY <2>1, <2>2
  <2>6. WorkflowTypeOK'
    BY <1>1, <1>2, <2>1, <2>5 DEF WorkflowTypeOK, Statuses
  <2>7. Ordered'
    BY <1>1, <2>3, StatusKeepsOrder DEF Passed
  <2>8. InEntered'
    BY <1>1, <2>3, StatusKeepsEntered
  <2>9. \A t \in Range(completed') : status'[t] = "completed"
    <3>1. CASE outcome = "completed"
      <4>1. Range(completed') = Range(completed) \cup {s}
        BY <2>1, <2>2, <3>1, AppendedRange
      <4> QED BY <1>2, <2>3, <3>1, <4>1
    <3>2. CASE outcome # "completed"
      BY <1>2, <2>1, <2>3, <2>4, <3>2
    <3> QED BY <3>1, <3>2
  <2>10. StackKept'
    <3>1. StackKept
      BY DEF WorkflowInv
    <3>2. CASE outcome = "completed"
      BY <1>1, <2>1, <2>4, <3>1, <3>2, CompletingKeepsStack
    <3>3. CASE outcome # "completed"
      BY <2>1, <3>1, <3>3 DEF StackKept
    <3> QED BY <3>2, <3>3
  <2>11. OutcomesKept'
    BY <2>1 DEF OutcomesKept
  <2> QED
    BY <1>3, <1>4, <2>1, <2>6, <2>7, <2>8, <2>9, <2>10, <2>11 DEF WorkflowInv, CompensatesAlone
<1>5. CASE phase = "compensating"
  <2>1. TurnEnds(outcome) /\ UNCHANGED <<stack, completed>>
    BY <1>5 DEF Ends
  <2>2. s \in Underway
    BY DEF Underway
  <2>3. todo # << >> /\ s = Workflow.compensation[Last(todo)] /\ \A t \in Underway : t = s
    BY <1>5, <2>2 DEF WorkflowInv, CompensatesAlone
  <2>4. PlanKept /\ StackKept /\ policy # "none"
    BY <1>5 DEF WorkflowInv
  <2>5. PlanKept' /\ todo' \in Seq(Steps) /\ tried' \in Seq(Turns)
    BY <1>1, <2>1, <2>3, <2>4, TurnKeepsPlan
  <2>6. WorkflowTypeOK'
    BY <1>1, <1>2, <2>1, <2>5 DEF WorkflowTypeOK, Statuses, Turns
  <2>7. Underway' = {}
    BY <1>2, <2>3 DEF Underway
  <2>8. StackKept'
    BY <2>1, <2>4 DEF StackKept
  <2>9. OutcomesKept'
    BY <1>1, <1>2, <2>1, <2>3, TurnKeepsOutcomes DEF WorkflowInv
  <2> QED BY <1>3, <1>5, <2>4, <2>5, <2>6, <2>7, <2>8, <2>9 DEF WorkflowInv, CompensatesAlone
<1> QED BY <1>1, <1>4, <1>5

(* An attempt is followed by a pause, or a pause by an attempt.            *)
LEMMA RetryKeeps ==
  ASSUME WorkflowInv, NEW s \in Steps, NEW v \in {"running", "pause"}, status[s] \in {"running", "pause"},
         Status(s, v), IsTask(s), attempt' \in [Steps -> 0 .. MaxAttempts],
         UNCHANGED <<policy, phase, chosen, stack, todo, completed, tried>>
  PROVE  WorkflowInv'
<1>1. WorkflowTypeOK
  BY DEF WorkflowInv
<1>2. /\ status' \in [Steps -> Statuses] /\ status'[s] = v
      /\ \A t \in Steps : t # s => status'[t] = status[t]
  BY <1>1, StatusType DEF Statuses
<1>3. WorkflowTypeOK'
  BY <1>1, <1>2 DEF WorkflowTypeOK, Statuses
<1>4. Underway' = Underway
  BY <1>2 DEF Underway
<1>5. ASSUME phase = "running"
      PROVE  Ordered' /\ InEntered' /\ \A t \in Range(completed') : status'[t] = "completed"
  <2>1. Ordered /\ InEntered /\ \A t \in Range(completed) : t \in Steps /\ status[t] = "completed"
    BY <1>1, <1>5 DEF WorkflowInv, WorkflowTypeOK, Range
  <2>2. Ordered'
    BY <1>1, <2>1, StatusKeepsOrder DEF Passed
  <2>3. \E L \in Entered : s \in Range(L)
    BY <2>1 DEF InEntered, Underway
  <2>4. \A L : ~ \/ Kind(s) = "parallel" /\ L \in Lists(s)
                 \/ chosen[s] > 0 /\ L = Workflow.lists[s][chosen[s]]
    BY DEF WorkflowInv, IsTask
  <2>5. InEntered'
    BY <1>1, <2>1, <2>3, <2>4, StatusKeepsEntered
  <2> QED BY <1>2, <2>1, <2>2, <2>5
<1>6. StackKept' /\ (PlanKept => PlanKept')
  BY DEF WorkflowInv, StackKept, PlanKept, Plan
<1>7. \A t \in Steps : status'[t] = "pause" => IsTask(t)
  BY <1>2 DEF WorkflowInv
<1>8. OutcomesKept'
  <2>1. s \in Underway'
    BY <1>2 DEF Underway
  <2> QED BY <1>2, <2>1, SameTurnsKeepOutcomes DEF WorkflowInv
<1> QED BY <1>3, <1>4, <1>5, <1>6, <1>7, <1>8 DEF WorkflowInv, CompensatesAlone

LEMMA TaskKeeps ==
  ASSUME WorkflowInv, NEW s \in Steps, TaskCompletes(s) \/ AttemptFails(s) \/ BackoffEnds(s)
  PROVE  WorkflowInv'
<1>1. WorkflowTypeOK /\ \A t \in Steps : chosen[t] > 0 => Kind(t) = "conditional"
  BY DEF WorkflowInv
<1>2. ASSUME NEW outcome \in {"completed", "failed"}, IsTask(s), status[s] = "running",
             Ends(s, outcome), UNCHANGED <<policy, phase, attempt, chosen>>
      PROVE  WorkflowInv'
  BY <1>1, <1>2, EndsKeeps DEF IsTask
<1>3. CASE TaskCompletes(s)
  BY <1>2, <1>3 DEF TaskCompletes
<1>4. CASE AttemptFails(s)
  <2>1. CASE Ends(s, "failed")
    BY <1>2, <1>4, <2>1 DEF AttemptFails
  <2>2. CASE Status(s, "pause") /\ UNCHANGED <<stack, todo, completed, tried>>
    <3>1. attempt' \in [Steps -> 0 .. MaxAttempts]
      BY <1>1, <1>4 DEF AttemptFails, WorkflowTypeOK
    <3> QED BY <1>4, <2>2, <3>1, RetryKeeps DEF AttemptFails
  <2> QED BY <1>4, <2>1, <2>2 DEF AttemptFails
<1>5. CASE BackoffEnds(s)
  <2>1. status[s] = "pause" /\ IsTask(s)
    BY <1>5 DEF BackoffEnds, WorkflowInv
  <2>2. MaxAttempts \in Nat \ {0} /\ attempt \in [Steps -> 0 .. MaxAttempts]
    BY <1>1, WorkflowAssumptions DEF WorkflowTypeOK
  <2>3. (IF attempt[s] < MaxAttempts THEN attempt[s] + 1 ELSE attempt[s]) \in 0 .. MaxAttempts
    BY <2>2
  <2>4. attempt' \in [Steps -> 0 .. MaxAttempts]
    BY <1>5, <2>2, <2>3 DEF BackoffEnds
  <2> QED BY <1>5, <2>1, <2>4, RetryKeeps DEF BackoffEnds
<1> QED BY <1>3, <1>4, <1>5

LEMMA ParentKeeps ==
  ASSUME WorkflowInv, NEW s \in Steps, ParallelEnds(s) \/ ConditionalEnds(s)
  PROVE  WorkflowInv'
<1>1. \A t \in Steps : chosen[t] > 0 => Kind(t) = "conditional"
  BY DEF WorkflowInv
<1>2. CASE ParallelEnds(s)
  <2>1. PICK outcome \in {"completed", "failed"} : Ends(s, outcome)
    BY <1>2 DEF ParallelEnds
  <2>2. \A L \in AllLists :
          \/ Kind(s) = "parallel" /\ L \in Lists(s)
          \/ chosen[s] > 0 /\ L = Workflow.lists[s][chosen[s]]
          => ListEnded(L)
    BY <1>1, <1>2 DEF ParallelEnds
  <2> QED BY <1>2, <2>1, <2>2, EndsKeeps DEF ParallelEnds
<1>3. CASE ConditionalEnds(s)
  <2>1. PICK outcome \in {"completed", "failed"} : Ends(s, outcome)
    BY <1>3 DEF ConditionalEnds
  <2>2. chosen[s] > 0 => ListEnded(Workflow.lists[s][chosen[s]])
    BY <1>3 DEF ConditionalEnds, WorkflowInv, WorkflowTypeOK
  <2>3. Kind(s) = "conditional"
    BY <1>3 DEF ConditionalEnds
  <2> QED BY <1>3, <2>1, <2>2, <2>3, EndsKeeps DEF ConditionalEnds
<1> QED BY <1>2, <1>3

(* The workflow ends with all its steps; its plan is to undo.              *)
LEMMA WorkflowEndsKeeps == ASSUME WorkflowInv, WorkflowEnds PROVE WorkflowInv'
<1>1. /\ phase = "running" /\ ListEnded(Workflow.top) /\ WorkflowTypeOK
      /\ UNCHANGED <<policy, status, attempt, chosen, stack, completed, tried>>
  BY DEF WorkflowEnds, WorkflowInv
<1>2. Underway = {} /\ tried = << >> /\ todo = << >>
  BY <1>1, EndedWorkflowIsIdle DEF WorkflowInv
<1>3. Underway' = {}
  BY <1>1, <1>2 DEF Underway
<1>4. StackKept' /\ OutcomesKept'
  BY <1>1, <1>2 DEF WorkflowInv, StackKept, OutcomesKept
<1>5. CASE phase' \in {"completed", "failed"} /\ UNCHANGED todo
  <2>1. WorkflowTypeOK'
    BY <1>1, <1>5 DEF WorkflowTypeOK
  <2> QED BY <1>1, <1>3, <1>4, <1>5, <2>1 DEF WorkflowInv, CompensatesAlone
<1>6. CASE phase' = "compensating" /\ policy # "none"
           /\ todo' = IF policy = "full" \/ stack = << >> THEN stack ELSE <<Last(stack)>>
  <2>1. stack \in Seq(Steps) /\ (stack # << >> => Last(stack) \in Steps)
    BY <1>1, FrontLast DEF WorkflowTypeOK
  <2>2. todo' = Plan' /\ todo' \in Seq(Steps)
    BY <1>1, <1>6, <2>1 DEF Plan
  <2>3. PlanKept'
    BY <1>1, <1>2, <2>2 DEF PlanKept
  <2>4. WorkflowTypeOK'
    BY <1>1, <1>6, <2>2 DEF WorkflowTypeOK
  <2> QED BY <1>1, <1>3, <1>4, <1>6, <2>3, <2>4 DEF WorkflowInv, CompensatesAlone
<1> QED BY <1>5, <1>6 DEF WorkflowEnds

LEMMA CompensationBeginsKeeps ==
  ASSUME WorkflowInv, NEW s \in Steps, CompensationBegins(s)
  PROVE  WorkflowInv'
<1>1. /\ phase = "compensating" /\ phase' = phase /\ todo # << >> /\ policy' = policy
      /\ s = Workflow.compensation[Last(todo)] /\ status[s] \notin {"running", "pause"}
      /\ WorkflowTypeOK /\ StackKept /\ PlanKept /\ policy # "none"
  BY DEF CompensationBegins, WorkflowInv
<1>2. Underway = {}
  BY <1>1 DEF WorkflowInv, CompensatesAlone, Underway
<1>3. CASE TurnEnds("skipped") /\ UNCHANGED <<status, attempt, chosen, stack, completed>>
  <2>1. PlanKept' /\ todo' \in Seq(Steps) /\ tried' \in Seq(Turns)
    BY <1>1, <1>3, TurnKeepsPlan
  <2>2. WorkflowTypeOK'
    BY <1>1, <1>3, <2>1 DEF WorkflowTypeOK, Turns
  <2>3. Underway' = {} /\ StackKept'
    BY <1>1, <1>2, <1>3 DEF Underway, StackKept
  <2>4. OutcomesKept'
    BY <1>1, <1>2, <1>3, TurnKeepsOutcomes DEF WorkflowInv
  <2> QED
    BY <1>1, <1>3, <2>1, <2>2, <2>3, <2>4 DEF WorkflowInv, CompensatesAlone
<1>4. CASE Runs(s) /\ UNCHANGED <<stack, todo, completed, tried>>
  <2>1. Kind(s) = "compensation"
    <3>1. Last(todo) \in Range(stack)
      <4>1. todo \in Seq(Steps) /\ stack \in Seq(Steps)
        BY <1>1 DEF WorkflowTypeOK
      <4>2. Last(todo) = Plan[Len(todo)] /\ Len(todo) \in 1 .. Len(Plan)
        <5>1. Last(todo) = todo[Len(todo)] /\ Len(todo) \in Nat \ {0}
          BY <1>1, <4>1, FrontLast
        <5>2. Len(tried) \in Nat
          BY <1>1 DEF WorkflowTypeOK
        <5> QED BY <1>1, <4>1, <5>1, <5>2 DEF PlanKept
      <4>3. stack # << >>
        <5> SUFFICES ASSUME stack = << >> PROVE FALSE
          OBVIOUS
        <5>1. Plan = << >>
          BY DEF Plan
        <5> QED BY <4>2, <5>1
      <4>4. Last(stack) \in Range(stack)
        BY <4>1, <4>3, FrontLast
      <4>5. CASE policy = "full"
        BY <4>1, <4>2, <4>5 DEF Plan, Range
      <4>6. CASE policy # "full"
        BY <4>2, <4>3, <4>4, <4>6 DEF Plan
      <4> QED BY <4>5, <4>6
    <3>2. Compensable(Last(todo)) /\ Last(todo) \in Steps
      BY <1>1, <3>1, FrontLast DEF StackKept, WorkflowTypeOK
    <3> QED BY <1>1, <3>2, WorkflowAssumptions
  <2>2. IsTask(s) /\ Status(s, "running")
        /\ attempt' = [attempt EXCEPT ![s] = 1] /\ UNCHANGED chosen
    BY <1>4, <2>1 DEF Runs, IsTask
  <2>3. /\ status' \in [Steps -> Statuses] /\ status'[s] = "running"
        /\ \A t \in Steps : t # s => status'[t] = status[t]
    BY <1>1, <2>2, StatusType DEF Statuses
  <2>4. attempt' \in [Steps -> 0 .. MaxAttempts]
    BY <1>1, <2>2, WorkflowAssumptions DEF WorkflowTypeOK
  <2>5. WorkflowTypeOK'
    BY <1>1, <1>4, <2>2, <2>3, <2>4 DEF WorkflowTypeOK, Statuses
  <2>6. \A t \in Underway' : t = s
    BY <1>2, <2>3 DEF Underway
  <2>7. PlanKept' /\ StackKept'
    BY <1>1, <1>4 DEF PlanKept, StackKept, Plan
  <2>8. /\ \A t \in Steps : chosen'[t] > 0 => Kind(t) = "conditional"
        /\ \A t \in Steps : status'[t] = "pause" => IsTask(t)
    BY <2>2, <2>3 DEF WorkflowInv
  <2>9. OutcomesKept'
    <3>1. s \in Underway'
      BY <2>3 DEF Underway
    <3> QED BY <1>4, <2>3, <3>1, SameTurnsKeepOutcomes DEF WorkflowInv
  <2> QED BY <1>1, <1>4, <2>5, <2>6, <2>7, <2>8, <2>9 DEF WorkflowInv, CompensatesAlone
<1> QED BY <1>3, <1>4 DEF CompensationBegins

LEMMA CompensationEndsKeeps == ASSUME WorkflowInv, CompensationEnds PROVE WorkflowInv'
<1>1. /\ phase = "compensating" /\ phase' = "compensated" /\ todo = << >>
      /\ UNCHANGED <<policy, status, attempt, chosen, stack, todo, completed, tried>>
      /\ WorkflowTypeOK /\ StackKept /\ PlanKept /\ policy # "none"
  BY DEF CompensationEnds, WorkflowInv
<1>2. Underway = {}
  BY <1>1 DEF WorkflowInv, CompensatesAlone
<1>3. Underway' = {}
  BY <1>1, <1>2 DEF Underway
<1>4. WorkflowTypeOK' /\ StackKept' /\ PlanKept' /\ OutcomesKept'
  BY <1>1, <1>2, <1>3 DEF WorkflowTypeOK, StackKept, PlanKept, Plan, WorkflowInv, OutcomesKept, Undoes
<1> QED BY <1>1, <1>3, <1>4 DEF WorkflowInv, CompensatesAlone

LEMMA WorkflowStepInv == ASSUME WorkflowInv, [WorkflowNext]_workflowVars PROVE WorkflowInv'
<1>1. CASE UNCHANGED workflowVars
  <2>1. /\ policy' = policy /\ phase' = phase /\ status' = status /\ attempt' = attempt
        /\ chosen' = chosen /\ stack' = stack /\ todo' = todo
        /\ completed' = completed /\ tried' = tried
    BY <1>1 DEF workflowVars
  <2>2. Branches' = Branches /\ Cases' = Cases
    BY <2>1 DEF Branches, Cases
  <2>3. Underway' = Underway /\ Entered' = Entered
    BY <2>1, <2>2 DEF Underway, Entered
  <2>4. WorkflowTypeOK' /\ StackKept' /\ CompensatesAlone' /\ OutcomesKept'
    BY <2>1, <2>3 DEF WorkflowInv, WorkflowTypeOK, StackKept, CompensatesAlone, OutcomesKept, Undoes
  <2>5. (PlanKept <=> PlanKept') /\ (Ordered <=> Ordered') /\ (InEntered <=> InEntered')
    BY <2>1, <2>3 DEF PlanKept, Plan, Ordered, Passed, InEntered
  <2> QED BY <2>1, <2>4, <2>5 DEF WorkflowInv
<1>2. CASE WorkflowNext
  BY <1>1, <1>2, StepBeginsKeeps, TaskKeeps, ParentKeeps, WorkflowEndsKeeps,
     CompensationBeginsKeeps, CompensationEndsKeeps
  DEF WorkflowNext, Executes, Proceeds, TimesOut, Settled
<1> QED BY <1>1, <1>2

THEOREM WorkflowInvariant == WorkflowSpec => []WorkflowInv
<1>1. WorkflowInv /\ [WorkflowNext]_workflowVars => WorkflowInv'
  BY WorkflowStepInv
<1> QED BY <1>1, WorkflowInitInv, PTL DEF WorkflowSpec

(* However steps are nested in branches and cases, whichever of them fail  *)
(* and however often they are attempted: when the promise of the workflow  *)
(* has turned to its compensations, or is settled, no step of it is under  *)
(* way but the compensation that the loop awaits.                          *)
THEOREM CompensationsRunAlone == WorkflowSpec => []CompensatesAlone
<1>1. WorkflowInv => CompensatesAlone
  BY DEF WorkflowInv
<1> QED BY <1>1, WorkflowInvariant, PTL

(* And the compensations that have had their turn are those that the       *)
(* policy asks for, in the reverse order of the steps they are for; those  *)
(* that failed or were skipped are the only ones that undid nothing.       *)
THEOREM CompletedStepsAreUndone == WorkflowSpec => []UndoesWhatCompleted
<1>1. WorkflowInv => UndoesWhatCompleted
  <2> SUFFICES ASSUME WorkflowInv, phase = "compensated" PROVE UndoesWhatCompleted
    BY DEF UndoesWhatCompleted
  <2> DEFINE toUndo == {s \in Range(completed) : Compensable(s)}
             triedSteps == {tried[i].step : i \in DOMAIN tried}
  <2>1. /\ StackKept /\ PlanKept /\ todo = << >> /\ policy \in {"partial", "full"}
        /\ stack \in Seq(Steps) /\ tried \in Seq(Turns) /\ completed \in Seq(Steps)
    BY DEF WorkflowInv, WorkflowTypeOK, Turns
  <2>2. Len(tried) = Len(Plan) /\ DOMAIN tried = 1 .. Len(Plan) /\ Len(Plan) \in Nat
        /\ \A i \in 1 .. Len(Plan) : tried[i].step = Plan[Len(Plan) + 1 - i]
    BY <2>1 DEF PlanKept
  <2>3. \A i, j \in DOMAIN completed : completed[i] = completed[j] => i = j
    BY <2>1 DEF StackKept
  <2>4. \A i \in DOMAIN tried :
          \/ tried[i].outcome \in {"skipped", status[Undoes(i)]}
          \/ \E j \in DOMAIN tried : i < j /\ Undoes(j) = Undoes(i)
    <3>1. Underway = {}
      BY <2>1 DEF WorkflowInv, CompensatesAlone
    <3> QED BY <3>1 DEF WorkflowInv, OutcomesKept
  <2>5. CASE policy = "full" \/ stack = << >>
    <3>1. Plan = stack /\ DOMAIN stack = 1 .. Len(stack) /\ Len(stack) \in Nat
      BY <2>1, <2>5 DEF Plan
    <3>2. \A i \in 1 .. Len(stack) : Len(stack) + 1 - i \in 1 .. Len(stack)
                                    /\ Len(stack) + 1 - (Len(stack) + 1 - i) = i
      BY <3>1
    <3>3. triedSteps = Range(stack)
      <4>1. ASSUME NEW i \in DOMAIN tried PROVE tried[i].step \in Range(stack)
        BY <2>2, <3>1, <3>2 DEF Range
      <4>2. ASSUME NEW i \in DOMAIN stack PROVE stack[i] \in triedSteps
        <5>1. Len(stack) + 1 - i \in DOMAIN tried /\ tried[Len(stack) + 1 - i].step = stack[i]
          BY <2>2, <3>1, <3>2
        <5> QED BY <5>1 DEF Range
      <4> QED BY <4>1, <4>2 DEF Range
    <3>4. ASSUME NEW i \in DOMAIN tried, NEW j \in DOMAIN tried, i < j
          PROVE  Before(completed, tried[j].step, tried[i].step)
      <4> DEFINE h == Len(stack) + 1 - i
                 g == Len(stack) + 1 - j
      <4>1. h \in DOMAIN stack /\ g \in DOMAIN stack /\ g < h /\ tried[i].step = stack[h] /\ tried[j].step = stack[g]
        BY <2>2, <3>1, <3>2, <3>4
      <4> HIDE DEF h, g
      <4> QED BY <2>1, <4>1 DEF StackKept
    <3>5. triedSteps = toUndo
      BY <2>1, <3>3 DEF StackKept
    <3>6. policy # "full" => toUndo = {}
      BY <2>1, <2>5 DEF StackKept, Range
    <3>7. toUndo = {} => {s \in toUndo : \A t \in toUndo : ~Before(completed, s, t)} = {}
      OBVIOUS
    <3>8. triedSteps = IF policy = "full" THEN toUndo
                       ELSE {s \in toUndo : \A t \in toUndo : ~Before(completed, s, t)}
      BY <3>5, <3>6, <3>7
    <3> QED BY <2>3, <2>4, <3>4, <3>8 DEF UndoesWhatCompleted
  <2>6. CASE policy = "partial" /\ stack # << >>
    <3>1. Plan = <<Last(stack)>> /\ Len(Plan) = 1
      BY <2>6 DEF Plan
    <3>2. tried[1].step = Last(stack) /\ DOMAIN tried = 1 .. 1
      BY <2>2, <3>1
    <3>3. triedSteps = {Last(stack)}
      BY <3>2 DEF Range
    <3>4. /\ Last(stack) = stack[Len(stack)] /\ Len(stack) \in DOMAIN stack /\ Last(stack) \in Range(stack)
          /\ DOMAIN stack = 1 .. Len(stack) /\ Len(stack) \in Nat
      BY <2>1, <2>6, FrontLast
    <3>5. Range(stack) = toUndo
      BY <2>1 DEF StackKept
    <3>6. ASSUME NEW s, NEW t, Before(completed, s, t) PROVE ~Before(completed, t, s)
      <4>1. PICK i, j \in DOMAIN completed : i < j /\ completed[i] = s /\ completed[j] = t
        BY <3>6 DEF Before
      <4>2. ASSUME NEW g \in DOMAIN completed, NEW h \in DOMAIN completed, g < h,
                   completed[g] = t, completed[h] = s
            PROVE  FALSE
        <5>1. g = j /\ h = i /\ i \in Nat /\ j \in Nat
          BY <2>1, <2>3, <4>1, <4>2
        <5> QED BY <4>1, <4>2, <5>1
      <4> QED BY <4>2 DEF Before
    <3>7. ASSUME NEW s \in toUndo, s # Last(stack) PROVE Before(completed, s, Last(stack))
      <4>1. PICK i \in DOMAIN stack : stack[i] = s
        BY <3>5 DEF Range
      <4>2. i < Len(stack)
        BY <3>4, <3>7, <4>1
      <4> QED BY <2>1, <3>4, <4>1, <4>2 DEF StackKept
    <3>8. ~Before(completed, Last(stack), Last(stack))
      BY <3>6
    <3>9. {s \in toUndo : \A t \in toUndo : ~Before(completed, s, t)} = {Last(stack)}
      <4>1. Last(stack) \in toUndo
        BY <3>4, <3>5
      <4>2. \A t \in toUndo : ~Before(completed, Last(stack), t)
        BY <3>6, <3>7, <3>8
      <4>3. \A s \in toUndo : s # Last(stack) => \E t \in toUndo : Before(completed, s, t)
        BY <3>7, <4>1
      <4> HIDE DEF toUndo
      <4> QED BY <4>1, <4>2, <4>3
    <3>10. \A i, j \in DOMAIN tried : ~(i < j)
      BY <3>2
    <3> QED BY <2>3, <2>4, <2>6, <3>3, <3>9, <3>10 DEF UndoesWhatCompleted
  <2> QED BY <2>1, <2>5, <2>6
<1> QED BY <1>1, WorkflowInvariant, PTL

-----------------------------------------------------------------------------
(* Runs of the workbench.                                                  *)

(* The steps of the units before u.                                        *)
StepsBefore(u) == UNION {StepsOf(v) : v \in 1 .. (u - 1)}

(* Orders grow with the records: those of the units that have ended are    *)
(* below, those of the unit under way at or above the number of records    *)
(* that was there when it began, and none is above those there are now.    *)
OrdersKept ==
  /\ \A r \in ToSet(earlier) : UnitOf(r.id) < unit /\ r.order < Len(earlier)
  /\ \A r \in ToSet(records) : /\ UnitOf(r.id) = unit /\ Len(earlier) <= r.order
                               /\ r.order < Len(earlier) + Len(records)
  /\ \A t \in taken : /\ UnitOf(t.id) = unit /\ Len(earlier) <= t.order
                      /\ t.order <= Len(earlier) + Len(records)

(* Until the unit ends each of its steps waits, is worked on or has its    *)
(* record, and it ends with steps that wait only when it was aborted.      *)
UnitKept ==
  /\ within => unit <= Len(Units)
  /\ within => StepsOf(unit) = ToSet(queue) \cup {t.id : t \in taken} \cup Ids(records)
  /\ within /\ taken = {} => queue = << >> \/ Aborted(records)
  /\ ~within => queue = << >> /\ taken = {} /\ records = << >>
  /\ IsFiniteSet(taken)
  /\ unit <= Len(Units) => Ids(earlier) = StepsBefore(unit)

WorkbenchInv == WorkbenchTypeOK /\ OrdersKept /\ UnitKept /\ OrderSeparatesUnits /\ SeesEarlierUnits

LEMMA UnitOfStep ==
  ASSUME NEW u \in DOMAIN Units, NEW s \in StepsOf(u)
  PROVE  s \in StepIds /\ UnitOf(s) = u
<1>1. s \in StepIds
  BY DEF StepIds
<1>2. ASSUME NEW v \in DOMAIN Units, s \in StepsOf(v) PROVE v = u
  BY <1>2, WorkbenchAssumptions DEF StepsOf, ToSet
<1> QED BY <1>1, <1>2 DEF UnitOf

LEMMA UnitOfType == ASSUME NEW s \in StepIds PROVE UnitOf(s) \in DOMAIN Units /\ s \in StepsOf(UnitOf(s))
<1>1. PICK u \in DOMAIN Units : s \in StepsOf(u)
  BY DEF StepIds
<1> QED BY <1>1, UnitOfStep

LEMMA UnitsAreSequences ==
  /\ DOMAIN Units = 1 .. Len(Units) /\ Len(Units) \in Nat \ {0}
  /\ \A u \in DOMAIN Units : Units[u] \in Seq(StepIds) /\ Len(Units[u]) \in Nat
BY WorkbenchAssumptions

LEMMA WorkersOfUnit ==
  ASSUME NEW u \in DOMAIN Units
  PROVE  /\ Workers(u) \in 0 .. Len(Units[u]) /\ Workers(u) <= Concurrency
         /\ Workers(u) = 0 => Len(Units[u]) = 0
BY UnitsAreSequences, WorkbenchAssumptions DEF Workers

LEMMA ElementsTyped == ASSUME NEW S, NEW q \in Seq(S) PROVE ToSet(q) \subseteq S
<1>1. \A i \in DOMAIN q : q[i] \in S
  OBVIOUS
<1> QED BY <1>1 DEF ToSet

LEMMA AppendedSet ==
  ASSUME NEW S, NEW q \in Seq(S), NEW x \in S
  PROVE  /\ Append(q, x) \in Seq(S) /\ Len(Append(q, x)) = Len(q) + 1 /\ Len(q) \in Nat
         /\ ToSet(Append(q, x)) = ToSet(q) \cup {x}
<1>1. /\ Append(q, x) \in Seq(S) /\ Len(Append(q, x)) = Len(q) + 1 /\ Len(q) \in Nat
      /\ DOMAIN q = 1 .. Len(q) /\ DOMAIN Append(q, x) = 1 .. Len(q) + 1
      /\ Append(q, x)[Len(q) + 1] = x /\ \A i \in 1 .. Len(q) : Append(q, x)[i] = q[i]
  OBVIOUS
<1> HIDE DEF Append
<1>2. DOMAIN Append(q, x) = DOMAIN q \cup {Len(q) + 1}
  BY <1>1
<1> QED BY <1>1, <1>2 DEF ToSet

LEMMA JoinedSet ==
  ASSUME NEW S, NEW q \in Seq(S), NEW r \in Seq(S)
  PROVE  /\ q \o r \in Seq(S) /\ Len(q \o r) = Len(q) + Len(r) /\ Len(q) \in Nat /\ Len(r) \in Nat
         /\ ToSet(q \o r) = ToSet(q) \cup ToSet(r)
<1>1. /\ q \o r \in Seq(S) /\ Len(q \o r) = Len(q) + Len(r) /\ Len(q) \in Nat /\ Len(r) \in Nat
      /\ DOMAIN q = 1 .. Len(q) /\ DOMAIN r = 1 .. Len(r) /\ DOMAIN (q \o r) = 1 .. Len(q) + Len(r)
      /\ \A i \in 1 .. Len(q) : (q \o r)[i] = q[i]
      /\ \A i \in 1 .. Len(q) + Len(r) : i > Len(q) => (q \o r)[i] = r[i - Len(q)]
  OBVIOUS
<1>2. ASSUME NEW x \in ToSet(q \o r) PROVE x \in ToSet(q) \cup ToSet(r)
  <2>1. PICK i \in 1 .. Len(q) + Len(r) : (q \o r)[i] = x
    BY <1>1, <1>2 DEF ToSet
  <2>2. CASE i <= Len(q)
    <3>1. i \in DOMAIN q /\ q[i] = x
      BY <1>1, <2>1, <2>2
    <3> QED BY <3>1 DEF ToSet
  <2>3. CASE i > Len(q)
    <3>1. i - Len(q) \in DOMAIN r /\ r[i - Len(q)] = x
      BY <1>1, <2>1, <2>3
    <3> QED BY <3>1 DEF ToSet
  <2> QED BY <1>1, <2>1, <2>2, <2>3
<1>3. ASSUME NEW x \in ToSet(q) PROVE x \in ToSet(q \o r)
  <2>1. PICK i \in DOMAIN q : q[i] = x
    BY <1>3 DEF ToSet
  <2>2. i \in DOMAIN (q \o r) /\ (q \o r)[i] = x
    BY <1>1, <2>1
  <2> QED BY <2>2 DEF ToSet
<1>4. ASSUME NEW x \in ToSet(r) PROVE x \in ToSet(q \o r)
  <2>1. PICK i \in DOMAIN r : r[i] = x
    BY <1>4 DEF ToSet
  <2>2. Len(q) + i \in DOMAIN (q \o r) /\ (q \o r)[Len(q) + i] = r[(Len(q) + i) - Len(q)]
    BY <1>1, <2>1
  <2>3. (Len(q) + i) - Len(q) = i
    BY <1>1, <2>1
  <2> QED BY <2>1, <2>2, <2>3 DEF ToSet
<1> QED BY <1>1, <1>2, <1>3, <1>4

LEMMA HeadAndTail ==
  ASSUME NEW S, NEW q \in Seq(S), q # << >>
  PROVE  /\ Head(q) \in S /\ Tail(q) \in Seq(S)
         /\ ToSet(q) = {Head(q)} \cup ToSet(Tail(q))
<1>1. /\ Len(q) \in Nat \ {0} /\ DOMAIN q = 1 .. Len(q) /\ Head(q) = q[1] /\ Tail(q) \in Seq(S)
      /\ DOMAIN Tail(q) = 1 .. Len(q) - 1 /\ \A i \in 1 .. Len(q) - 1 : Tail(q)[i] = q[i + 1]
      /\ Head(q) \in S
  OBVIOUS
<1>2. ASSUME NEW x \in ToSet(q) PROVE x \in {Head(q)} \cup ToSet(Tail(q))
  <2>1. PICK i \in DOMAIN q : q[i] = x
    BY <1>2 DEF ToSet
  <2>2. CASE i = 1
    BY <1>1, <2>1, <2>2
  <2>3. CASE i # 1
    <3>1. i - 1 \in DOMAIN Tail(q) /\ Tail(q)[i - 1] = q[(i - 1) + 1] /\ (i - 1) + 1 = i
      BY <1>1, <2>1, <2>3
    <3> QED BY <2>1, <3>1 DEF ToSet
  <2> QED BY <2>2, <2>3
<1>3. ASSUME NEW x \in ToSet(Tail(q)) PROVE x \in ToSet(q)
  <2>1. PICK i \in DOMAIN Tail(q) : Tail(q)[i] = x
    BY <1>3 DEF ToSet
  <2>2. i + 1 \in DOMAIN q /\ q[i + 1] = x
    BY <1>1, <2>1
  <2> QED BY <2>2 DEF ToSet
<1>4. Head(q) \in ToSet(q)
  BY <1>1 DEF ToSet
<1> QED BY <1>1, <1>2, <1>3, <1>4

LEMMA SplitSequence ==
  ASSUME NEW S, NEW q \in Seq(S), NEW n \in 0 .. Len(q)
  PROVE  /\ SubSeq(q, 1, n) \in Seq(S) /\ SubSeq(q, n + 1, Len(q)) \in Seq(S)
         /\ ToSet(q) = ToSet(SubSeq(q, 1, n)) \cup ToSet(SubSeq(q, n + 1, Len(q)))
         /\ n # 0 => ToSet(SubSeq(q, 1, n)) # {}
         /\ Len(q) = 0 => SubSeq(q, n + 1, Len(q)) = << >>
         /\ Len(SubSeq(q, 1, n)) = n
<1> DEFINE front == SubSeq(q, 1, n)
           rest == SubSeq(q, n + 1, Len(q))
<1>1. PICK d \in Nat : Len(q) = n + d /\ n \in Nat
  <2>1. Len(q) - n \in Nat /\ Len(q) = n + (Len(q) - n) /\ n \in Nat
    OBVIOUS
  <2> QED BY <2>1
<1>2. DOMAIN q = 1 .. n + d /\ \A i \in 1 .. n + d : q[i] \in S
  BY <1>1
<1>3. /\ front \in Seq(S) /\ Len(front) = n
      /\ DOMAIN front = 1 .. n /\ \A i \in 1 .. n : front[i] = q[i]
  BY <1>1
<1>4. /\ rest \in Seq(S) /\ Len(rest) = d
      /\ DOMAIN rest = 1 .. d /\ \A i \in 1 .. d : rest[i] = q[n + i]
  <2>1. \A i \in n + 1 .. n + d : q[i] \in S
    BY <1>1, <1>2
  <2>2. /\ rest \in Seq(S) /\ Len(rest) = IF n + 1 <= n + d THEN (n + d) - (n + 1) + 1 ELSE 0
        /\ \A i \in 1 .. (n + d) - (n + 1) + 1 : rest[i] = q[(n + 1) + i - 1]
    BY <1>1, <2>1, SubSeqProperties
  <2>3. /\ (n + d) - (n + 1) + 1 = d /\ (IF n + 1 <= n + d THEN d ELSE 0) = d
        /\ \A i \in 1 .. d : (n + 1) + i - 1 = n + i
    BY <1>1
  <2> HIDE DEF rest
  <2>4. Len(rest) = d /\ \A i \in 1 .. d : rest[i] = q[n + i]
    BY <2>2, <2>3
  <2> QED BY <2>2, <2>4
<1>5. Len(q) = 0 => rest = << >>
  <2>1. Len(q) = 0 => Len(rest) = 0
    BY <1>1, <1>4
  <2> HIDE DEF rest
  <2> QED BY <1>4, <2>1
<1> HIDE DEF front, rest
<1>6. n # 0 => ToSet(front) # {}
  <2>1. n # 0 => 1 \in DOMAIN front
    BY <1>1, <1>3
  <2> QED BY <2>1 DEF ToSet
<1>7. ASSUME NEW x \in ToSet(q)
      PROVE  x \in ToSet(front) \cup ToSet(rest)
  <2>1. PICK i \in 1 .. n + d : q[i] = x
    BY <1>2, <1>7 DEF ToSet
  <2>2. CASE i <= n
    <3>1. i \in DOMAIN front /\ front[i] = x
      BY <1>1, <1>3, <2>1, <2>2
    <3> QED BY <3>1 DEF ToSet
  <2>3. CASE i > n
    <3>1. i - n \in 1 .. d /\ n + (i - n) = i
      BY <1>1, <2>3
    <3>2. i - n \in DOMAIN rest /\ rest[i - n] = x
      BY <1>4, <2>1, <3>1
    <3> QED BY <3>2 DEF ToSet
  <2> QED BY <1>1, <2>2, <2>3
<1>8. ASSUME NEW x \in ToSet(front) PROVE x \in ToSet(q)
  <2>1. PICK i \in 1 .. n : front[i] = x
    BY <1>3, <1>8 DEF ToSet
  <2>2. i \in DOMAIN q /\ q[i] = x
    BY <1>1, <1>2, <1>3, <2>1
  <2> QED BY <2>2 DEF ToSet
<1>9. ASSUME NEW x \in ToSet(rest) PROVE x \in ToSet(q)
  <2>1. PICK i \in 1 .. d : rest[i] = x
    BY <1>4, <1>9 DEF ToSet
  <2>2. n + i \in 1 .. n + d
    BY <1>1
  <2>3. n + i \in DOMAIN q /\ q[n + i] = x
    BY <1>2, <1>4, <2>1, <2>2
  <2> QED BY <2>3 DEF ToSet
<1> QED BY <1>3, <1>4, <1>5, <1>6, <1>7, <1>8, <1>9 DEF front, rest

(* A sequence has no more elements than its length.                        *)
LEMMA TakenCount ==
  ASSUME NEW S, NEW q \in Seq(S), NEW n \in Nat
  PROVE  LET T == {[id |-> s, order |-> n] : s \in ToSet(q)} IN
         IsFiniteSet(T) /\ Cardinality(T) <= Len(q)
<1> DEFINE T == {[id |-> s, order |-> n] : s \in ToSet(q)}
           f == [i \in 1 .. Len(q) |-> [id |-> q[i], order |-> n]]
<1>1. Len(q) \in Nat /\ DOMAIN q = 1 .. Len(q)
  OBVIOUS
<1>2. f \in [1 .. Len(q) -> T]
  BY <1>1 DEF ToSet
<1>3. \A t \in T : \E i \in 1 .. Len(q) : f[i] = t
  BY <1>1 DEF ToSet
<1>4. ExistsSurjection(1 .. Len(q), T)
  BY <1>2, <1>3 DEF ExistsSurjection, Surjection
<1>5. IsFiniteSet(T)
  BY <1>1, <1>4, FS_NatSurjection
<1> QED BY <1>1, <1>4, <1>5, FS_SurjCardinalityBound

(* The records of the unit under way are above those before it.            *)
LEMMA Separated ==
  ASSUME NEW e \in Seq([id : StepIds, order : Nat, ok : BOOLEAN]),
         NEW r \in Seq([id : StepIds, order : Nat, ok : BOOLEAN]), NEW u \in Nat,
         \A a \in ToSet(e) : UnitOf(a.id) < u /\ a.order < Len(e),
         \A a \in ToSet(r) : UnitOf(a.id) = u /\ Len(e) <= a.order,
         \A a, b \in ToSet(e) : UnitOf(a.id) < UnitOf(b.id) => a.order < b.order
  PROVE  \A a, b \in ToSet(e \o r) : UnitOf(a.id) < UnitOf(b.id) => a.order < b.order
<1>1. ToSet(e \o r) = ToSet(e) \cup ToSet(r) /\ Len(e) \in Nat
  BY JoinedSet
<1>2. \A a \in ToSet(e) \cup ToSet(r) : a.id \in StepIds /\ a.order \in Nat
  <2>1. ToSet(e) \cup ToSet(r) \subseteq [id : StepIds, order : Nat, ok : BOOLEAN]
    BY ElementsTyped
  <2> QED BY <2>1
<1>3. \A a \in ToSet(e) \cup ToSet(r) : UnitOf(a.id) \in Nat
  BY <1>2, UnitOfType, UnitsAreSequences
<1> QED BY <1>1, <1>2, <1>3

LEMMA RecordsTyped ==
  ASSUME WorkbenchTypeOK
  PROVE  \A r \in ToSet(earlier) \cup ToSet(records) :
           r.id \in StepIds /\ r.order \in Nat /\ UnitOf(r.id) \in Nat
<1>1. \A r \in ToSet(earlier) \cup ToSet(records) : r.id \in StepIds /\ r.order \in Nat
  <2>1. ToSet(earlier) \cup ToSet(records) \subseteq [id : StepIds, order : Nat, ok : BOOLEAN]
    BY ElementsTyped DEF WorkbenchTypeOK
  <2> QED BY <2>1
<1> QED BY <1>1, UnitOfType, UnitsAreSequences

(* The first part of a step's proof: the records of the units before stay  *)
(* as they were.                                                           *)
LEMMA StaysSeparated ==
  ASSUME WorkbenchTypeOK, OrderSeparatesUnits, WorkbenchTypeOK', OrdersKept', earlier' = earlier
  PROVE  OrderSeparatesUnits'
<1>1. /\ earlier \in Seq([id : StepIds, order : Nat, ok : BOOLEAN])
      /\ records \in Seq([id : StepIds, order : Nat, ok : BOOLEAN])
      /\ earlier' \in Seq([id : StepIds, order : Nat, ok : BOOLEAN])
      /\ records' \in Seq([id : StepIds, order : Nat, ok : BOOLEAN]) /\ unit' \in Nat
  BY UnitsAreSequences DEF WorkbenchTypeOK
<1>2. ToSet(earlier \o records) = ToSet(earlier) \cup ToSet(records)
  BY <1>1, JoinedSet
<1>3. \A a, b \in ToSet(earlier') : UnitOf(a.id) < UnitOf(b.id) => a.order < b.order
  BY <1>2 DEF OrderSeparatesUnits
<1>4. \A a, b \in ToSet(earlier' \o records') : UnitOf(a.id) < UnitOf(b.id) => a.order < b.order
  BY <1>1, <1>3, Separated DEF OrdersKept
<1> QED BY <1>4 DEF OrderSeparatesUnits

-----------------------------------------------------------------------------
LEMMA WorkbenchInitInv == WorkbenchInit => WorkbenchInv
<1> SUFFICES ASSUME WorkbenchInit PROVE WorkbenchInv
  OBVIOUS
<1>1. /\ failFast \in BOOLEAN /\ unit = 1 /\ within = FALSE
      /\ queue = << >> /\ taken = {} /\ records = << >> /\ earlier = << >>
      /\ seen = [s \in StepIds |-> {}]
  BY DEF WorkbenchInit
<1>2. ToSet(earlier) = {} /\ ToSet(records) = {} /\ ToSet(earlier \o records) = {}
  BY <1>1 DEF ToSet
<1>3. WorkbenchTypeOK
  <2>1. unit \in 1 .. Len(Units) + 1
    BY <1>1, UnitsAreSequences
  <2>2. Cardinality(taken) = 0 /\ 0 <= Concurrency
    BY <1>1, FS_EmptySet, WorkbenchAssumptions
  <2>3. << >> \in Seq(StepIds) /\ << >> \in Seq([id : StepIds, order : Nat, ok : BOOLEAN])
    OBVIOUS
  <2>4. seen \in [StepIds -> SUBSET StepIds]
    BY <1>1
  <2> QED BY <1>1, <2>1, <2>2, <2>3, <2>4 DEF WorkbenchTypeOK
<1>4. OrdersKept /\ OrderSeparatesUnits
  BY <1>1, <1>2 DEF OrdersKept, OrderSeparatesUnits
<1>5. Ids(earlier) = {} /\ Ids(records) = {} /\ StepsBefore(1) = {}
  BY <1>2 DEF Ids, StepsBefore
<1>6. UnitKept /\ SeesEarlierUnits
  BY <1>1, <1>5, FS_EmptySet DEF UnitKept, SeesEarlierUnits
<1> QED BY <1>3, <1>4, <1>6 DEF WorkbenchInv

LEMMA UnitBeginsKeeps == ASSUME WorkbenchInv, UnitBegins PROVE WorkbenchInv'
<1> DEFINE U == Units[unit]
           front == SubSeq(U, 1, Workers(unit))
           first == ToSet(front)
<1>1. /\ ~within /\ unit \in DOMAIN Units /\ within' = TRUE
      /\ UNCHANGED <<failFast, unit, records, earlier>>
      /\ queue' = SubSeq(U, Workers(unit) + 1, Len(U))
      /\ taken' = {[id |-> s, order |-> Len(earlier)] : s \in first}
      /\ seen' = [s \in StepIds |-> IF s \in first THEN Ids(earlier) ELSE seen[s]]
  BY UnitsAreSequences DEF WorkbenchInv, WorkbenchTypeOK, UnitBegins, CurrentOrder, Context
<1>2. /\ WorkbenchTypeOK /\ OrdersKept /\ OrderSeparatesUnits /\ SeesEarlierUnits
      /\ queue = << >> /\ taken = {} /\ records = << >> /\ Ids(earlier) = StepsBefore(unit)
  BY <1>1, UnitsAreSequences DEF WorkbenchInv, UnitKept
<1>3. U \in Seq(StepIds) /\ Workers(unit) \in 0 .. Len(U) /\ Workers(unit) <= Concurrency
  BY <1>1, UnitsAreSequences, WorkersOfUnit
<1>4. /\ front \in Seq(StepIds) /\ queue' \in Seq(StepIds) /\ Len(front) = Workers(unit)
      /\ ToSet(U) = first \cup ToSet(queue')
      /\ first = {} => queue' = << >>
  BY <1>1, <1>3, SplitSequence, WorkersOfUnit
<1> HIDE DEF front
<1>5. StepsOf(unit) = first \cup ToSet(queue') /\ first \subseteq StepIds
  BY <1>4, ElementsTyped DEF StepsOf
<1>6. {t.id : t \in taken'} = first
  <2> HIDE DEF first
  <2>1. ASSUME NEW s \in first PROVE s \in {t.id : t \in taken'}
    <3>1. [id |-> s, order |-> Len(earlier)] \in taken'
      BY <1>1, <2>1
    <3>2. [id |-> s, order |-> Len(earlier)].id = s
      OBVIOUS
    <3> QED BY <3>1, <3>2
  <2>2. \A t \in taken' : t.id \in first
    BY <1>1
  <2> QED BY <2>1, <2>2
<1>7. Len(earlier) \in Nat /\ Len(records) = 0 /\ Ids(records) = {} /\ ToSet(records) = {}
  BY <1>2 DEF WorkbenchTypeOK, Ids, ToSet
<1>8. IsFiniteSet(taken') /\ Cardinality(taken') <= Concurrency
  <2>1. IsFiniteSet(taken') /\ Cardinality(taken') <= Workers(unit)
    BY <1>1, <1>4, <1>7, TakenCount
  <2>2. Cardinality(taken') \in Nat /\ Workers(unit) \in Nat /\ Concurrency \in Nat
    BY <1>3, <2>1, FS_CardinalityType, UnitsAreSequences, WorkbenchAssumptions
  <2> QED BY <1>3, <2>1, <2>2
<1>9. \A s \in first : UnitOf(s) = unit
  BY <1>1, <1>5, UnitOfStep
<1>10. WorkbenchTypeOK'
  <2>1. Ids(earlier) \subseteq StepIds
    BY <1>2, RecordsTyped DEF Ids
  <2>2. seen' \in [StepIds -> SUBSET StepIds]
    BY <1>1, <1>2, <2>1 DEF WorkbenchTypeOK
  <2>3. taken' \subseteq [id : StepIds, order : Nat]
    BY <1>1, <1>5, <1>7
  <2> QED BY <1>1, <1>2, <1>4, <1>8, <2>2, <2>3 DEF WorkbenchTypeOK
<1>11. OrdersKept'
  BY <1>1, <1>2, <1>7, <1>9 DEF OrdersKept
<1>12. UnitKept'
  <2>1. taken' = {} => first = {}
    BY <1>6
  <2> QED BY <1>1, <1>2, <1>4, <1>5, <1>6, <1>7, <1>8, <2>1, UnitsAreSequences DEF UnitKept
<1>13. SeesEarlierUnits'
  <2> SUFFICES ASSUME NEW s \in Ids(earlier) \cup first PROVE seen'[s] = StepsBefore(UnitOf(s))
    BY <1>1, <1>6, <1>7 DEF SeesEarlierUnits, StepsBefore
  <2>1. CASE s \in first
    BY <1>1, <1>2, <1>5, <1>9, <2>1
  <2>2. CASE s \in Ids(earlier) /\ s \notin first
    <3>1. s \in StepIds /\ seen[s] = StepsBefore(UnitOf(s))
      BY <1>2, <2>2, RecordsTyped DEF SeesEarlierUnits, StepsBefore, Ids
    <3> QED BY <1>1, <2>2, <3>1
  <2> QED BY <2>1, <2>2
<1>14. OrderSeparatesUnits'
  BY <1>1, <1>2, <1>10, <1>11, StaysSeparated
<1> QED BY <1>10, <1>11, <1>12, <1>13, <1>14 DEF WorkbenchInv

LEMMA StepEndsKeeps ==
  ASSUME WorkbenchInv, NEW t \in taken, NEW ok \in BOOLEAN, StepEnds(t, ok)
  PROVE  WorkbenchInv'
<1> DEFINE r == Record(t.id, t.order, ok)
           n == CurrentOrder + Len(records')
<1>1. /\ records' = Append(records, r) /\ UNCHANGED <<failFast, unit, within, earlier>>
      /\ \/ /\ Aborted(records') \/ queue = << >>
            /\ taken' = taken \ {t} /\ UNCHANGED <<queue, seen>>
         \/ /\ ~Aborted(records') /\ queue # << >>
            /\ taken' = (taken \ {t}) \cup {[id |-> Head(queue), order |-> n]}
            /\ queue' = Tail(queue)
            /\ seen' = [seen EXCEPT ![Head(queue)] = Context]
  BY DEF StepEnds
<1>2. WorkbenchTypeOK /\ OrdersKept /\ OrderSeparatesUnits /\ SeesEarlierUnits /\ UnitKept
  BY DEF WorkbenchInv
<1>3. within /\ unit \in DOMAIN Units
  BY <1>2, UnitsAreSequences DEF UnitKept, WorkbenchTypeOK
<1>4. /\ r \in [id : StepIds, order : Nat, ok : BOOLEAN] /\ r.id = t.id /\ r.order = t.order
      /\ t.id \in StepIds /\ t.order \in Nat
  BY <1>2 DEF WorkbenchTypeOK, Record
<1>5. /\ records' \in Seq([id : StepIds, order : Nat, ok : BOOLEAN])
      /\ Len(records') = Len(records) + 1 /\ Len(records) \in Nat /\ Len(earlier) \in Nat
      /\ ToSet(records') = ToSet(records) \cup {r}
  <2>1. records \in Seq([id : StepIds, order : Nat, ok : BOOLEAN]) /\ Len(earlier) \in Nat
    BY <1>2 DEF WorkbenchTypeOK
  <2>2. \A S : records \in Seq(S) /\ r \in S =>
          /\ Append(records, r) \in Seq(S) /\ Len(Append(records, r)) = Len(records) + 1
          /\ Len(records) \in Nat /\ ToSet(Append(records, r)) = ToSet(records) \cup {r}
    BY AppendedSet
  <2> HIDE DEF r
  <2> QED BY <1>1, <1>4, <2>1, <2>2
<1>6. Ids(records') = Ids(records) \cup {t.id}
  BY <1>4, <1>5 DEF Ids
<1>7. n \in Nat /\ n = Len(earlier) + Len(records) + 1
  BY <1>5 DEF CurrentOrder
<1> HIDE DEF r, n
<1>8. /\ IsFiniteSet(taken) /\ IsFiniteSet(taken \ {t})
      /\ Cardinality(taken \ {t}) = Cardinality(taken) - 1 /\ Cardinality(taken) \in Nat
      /\ Cardinality(taken) <= Concurrency /\ Concurrency \in Nat
  <2>1. IsFiniteSet(taken) /\ Cardinality(taken) <= Concurrency
    BY <1>2 DEF UnitKept, WorkbenchTypeOK
  <2> QED BY <2>1, FS_RemoveElement, FS_CardinalityType, WorkbenchAssumptions
<1>9. \A x \in ToSet(earlier) \cup ToSet(records) : x.id \in StepIds /\ x.order \in Nat /\ UnitOf(x.id) \in Nat
  BY <1>2, RecordsTyped
<1>10. CASE (Aborted(records') \/ queue = << >>) /\ taken' = taken \ {t} /\ UNCHANGED <<queue, seen>>
  <2>1. WorkbenchTypeOK'
    <3>1. Cardinality(taken') <= Concurrency
      BY <1>8, <1>10
    <3> QED BY <1>1, <1>2, <1>5, <1>10, <3>1 DEF WorkbenchTypeOK
  <2>2. OrdersKept'
    <3>1. \A x \in ToSet(records') : /\ UnitOf(x.id) = unit /\ Len(earlier) <= x.order
                                     /\ x.order < Len(earlier) + Len(records')
      BY <1>2, <1>4, <1>5, <1>9 DEF OrdersKept
    <3>2. \A x \in taken' : /\ UnitOf(x.id) = unit /\ Len(earlier) <= x.order
                            /\ x.order <= Len(earlier) + Len(records') /\ x.order \in Nat
      BY <1>2, <1>5, <1>10 DEF OrdersKept, WorkbenchTypeOK
    <3> QED BY <1>1, <1>2, <3>1, <3>2 DEF OrdersKept
  <2>3. {x.id : x \in taken} \cup Ids(records) = {x.id : x \in taken'} \cup Ids(records')
    BY <1>6, <1>10
  <2>4. UnitKept'
    <3>1. records' # << >> /\ IsFiniteSet(taken')
      BY <1>5, <1>8, <1>10
    <3>2. StepsOf(unit) = ToSet(queue') \cup {x.id : x \in taken'} \cup Ids(records')
      BY <1>2, <1>3, <1>10, <2>3 DEF UnitKept
    <3> QED BY <1>1, <1>2, <1>3, <1>10, <3>1, <3>2 DEF UnitKept, Aborted
  <2>5. SeesEarlierUnits'
    BY <1>1, <1>2, <1>6, <1>10 DEF SeesEarlierUnits
  <2> QED BY <1>1, <1>2, <2>1, <2>2, <2>4, <2>5, StaysSeparated DEF WorkbenchInv
<1>11. CASE /\ ~Aborted(records') /\ queue # << >>
            /\ taken' = (taken \ {t}) \cup {[id |-> Head(queue), order |-> n]}
            /\ queue' = Tail(queue)
            /\ seen' = [seen EXCEPT ![Head(queue)] = Context]
  <2> DEFINE h == Head(queue)
             new == [id |-> h, order |-> n]
  <2>1. h \in StepIds /\ queue' \in Seq(StepIds) /\ ToSet(queue) = {h} \cup ToSet(queue')
    BY <1>2, <1>11, HeadAndTail DEF WorkbenchTypeOK
  <2>2. h \in StepsOf(unit) /\ UnitOf(h) = unit
    BY <1>2, <1>3, <2>1, UnitOfStep DEF UnitKept
  <2>3. Ids(earlier) = StepsBefore(unit) /\ Ids(earlier) \subseteq StepIds
    BY <1>2, <1>3, <1>9, UnitsAreSequences DEF UnitKept, Ids
  <2>4. new.id = h /\ new.order = n /\ new \in [id : StepIds, order : Nat]
    BY <1>7, <2>1
  <2>5. taken' = (taken \ {t}) \cup {new} /\ seen' = [seen EXCEPT ![h] = Ids(earlier)]
    BY <1>11 DEF Context
  <2> HIDE DEF h, new
  <2>6. IsFiniteSet(taken') /\ Cardinality(taken') <= Concurrency
    <3>1. /\ IsFiniteSet(taken')
          /\ Cardinality(taken') = IF new \in taken \ {t} THEN Cardinality(taken \ {t})
                                   ELSE Cardinality(taken \ {t}) + 1
      BY <1>8, <2>5, FS_AddElement
    <3> QED BY <1>8, <3>1
  <2>7. WorkbenchTypeOK'
    <3>1. seen' \in [StepIds -> SUBSET StepIds]
      BY <1>2, <2>1, <2>3, <2>5 DEF WorkbenchTypeOK
    <3>2. taken' \subseteq [id : StepIds, order : Nat]
      BY <1>2, <2>4, <2>5 DEF WorkbenchTypeOK
    <3> QED BY <1>1, <1>2, <1>5, <2>1, <2>6, <3>1, <3>2 DEF WorkbenchTypeOK
  <2>8. OrdersKept'
    <3>1. \A x \in ToSet(records') : /\ UnitOf(x.id) = unit /\ Len(earlier) <= x.order
                                     /\ x.order < Len(earlier) + Len(records')
      BY <1>2, <1>4, <1>5, <1>9 DEF OrdersKept
    <3>2. \A x \in taken : /\ UnitOf(x.id) = unit /\ Len(earlier) <= x.order
                           /\ x.order <= Len(earlier) + Len(records') /\ x.order \in Nat
      BY <1>2, <1>5 DEF OrdersKept, WorkbenchTypeOK
    <3>3. UnitOf(new.id) = unit /\ Len(earlier) <= new.order /\ new.order <= Len(earlier) + Len(records')
      BY <1>5, <1>7, <2>2, <2>4
    <3> QED BY <1>1, <1>2, <2>5, <3>1, <3>2, <3>3 DEF OrdersKept
  <2>9. {x.id : x \in taken'} \cup Ids(records') = {x.id : x \in taken} \cup Ids(records) \cup {h}
    BY <1>6, <2>4, <2>5
  <2>10. UnitKept'
    <3>1. StepsOf(unit) = ToSet(queue') \cup {x.id : x \in taken'} \cup Ids(records')
      BY <1>2, <1>3, <2>1, <2>9 DEF UnitKept
    <3>2. taken' # {}
      BY <2>5
    <3> QED BY <1>1, <1>2, <1>3, <2>6, <3>1, <3>2 DEF UnitKept
  <2>11. SeesEarlierUnits'
    <3> SUFFICES ASSUME NEW s \in Ids(records) \cup Ids(earlier) \cup {x.id : x \in taken} \cup {h}
                 PROVE  seen'[s] = StepsBefore(UnitOf(s))
      BY <1>1, <2>9 DEF SeesEarlierUnits, StepsBefore
    <3>1. CASE s = h
      BY <1>2, <2>1, <2>2, <2>3, <2>5, <3>1 DEF WorkbenchTypeOK
    <3>2. CASE s # h
      <4>1. s \in StepIds
        BY <1>2, <1>9, <3>2 DEF Ids, WorkbenchTypeOK
      <4> QED BY <1>2, <2>5, <3>2, <4>1 DEF WorkbenchTypeOK, SeesEarlierUnits, StepsBefore
    <3> QED BY <3>1, <3>2
  <2> QED BY <1>1, <1>2, <2>7, <2>8, <2>10, <2>11, StaysSeparated DEF WorkbenchInv
<1> QED BY <1>1, <1>10, <1>11

LEMMA UnitEndsKeeps == ASSUME WorkbenchInv, UnitEnds PROVE WorkbenchInv'
<1>1. /\ within /\ taken = {} /\ within' = FALSE
      /\ earlier' = earlier \o records /\ records' = << >> /\ queue' = << >>
      /\ unit' = IF Aborted(records) THEN Len(Units) + 1 ELSE unit + 1
      /\ UNCHANGED <<failFast, taken, seen>>
  BY DEF UnitEnds, Aborted
<1>2. WorkbenchTypeOK /\ OrdersKept /\ OrderSeparatesUnits /\ SeesEarlierUnits /\ UnitKept
  BY DEF WorkbenchInv
<1>3. unit \in DOMAIN Units /\ unit \in 1 .. Len(Units) /\ Len(Units) \in Nat \ {0}
  BY <1>1, <1>2, UnitsAreSequences DEF UnitKept, WorkbenchTypeOK
<1>4. /\ earlier' \in Seq([id : StepIds, order : Nat, ok : BOOLEAN])
      /\ Len(earlier') = Len(earlier) + Len(records) /\ Len(records) \in Nat /\ Len(earlier) \in Nat
      /\ ToSet(earlier') = ToSet(earlier) \cup ToSet(records)
  <2>1. /\ records \in Seq([id : StepIds, order : Nat, ok : BOOLEAN])
        /\ earlier \in Seq([id : StepIds, order : Nat, ok : BOOLEAN])
    BY <1>2 DEF WorkbenchTypeOK
  <2> QED BY <1>1, <2>1, JoinedSet
<1>5. \A x \in ToSet(earlier) \cup ToSet(records) : x.id \in StepIds /\ x.order \in Nat /\ UnitOf(x.id) \in Nat
  BY <1>2, RecordsTyped
<1>6. unit' \in 1 .. Len(Units) + 1 /\ unit' > unit
  BY <1>1, <1>3
<1>7. WorkbenchTypeOK'
  <2>1. << >> \in Seq(StepIds) /\ << >> \in Seq([id : StepIds, order : Nat, ok : BOOLEAN])
    OBVIOUS
  <2>2. /\ failFast' \in BOOLEAN /\ within' \in BOOLEAN /\ seen' \in [StepIds -> SUBSET StepIds]
        /\ taken' \subseteq [id : StepIds, order : Nat] /\ Cardinality(taken') <= Concurrency
    BY <1>1, <1>2 DEF WorkbenchTypeOK
  <2>3. queue' \in Seq(StepIds)
    BY <1>1, <2>1
  <2>4. {records', earlier'} \subseteq Seq([id : StepIds, order : Nat, ok : BOOLEAN])
    BY <1>1, <1>4, <2>1
  <2> QED BY <1>6, <2>2, <2>3, <2>4 DEF WorkbenchTypeOK
<1>8. ToSet(records') = {} /\ Ids(records') = {} /\ Ids(earlier') = Ids(earlier) \cup Ids(records)
  <2>1. ToSet(records') = {}
    BY <1>1 DEF ToSet
  <2>2. Ids(records') = {}
    BY <2>1 DEF Ids
  <2>3. Ids(earlier') = Ids(earlier) \cup Ids(records)
    BY <1>4 DEF Ids
  <2> QED BY <2>1, <2>2, <2>3
<1>9. OrdersKept'
  <2>1. ASSUME NEW x \in ToSet(earlier') PROVE UnitOf(x.id) < unit' /\ x.order < Len(earlier')
    <3>1. CASE x \in ToSet(earlier)
      BY <1>2, <1>3, <1>4, <1>5, <1>6, <3>1 DEF OrdersKept
    <3>2. CASE x \in ToSet(records)
      BY <1>2, <1>3, <1>4, <1>5, <1>6, <3>2 DEF OrdersKept
    <3> QED BY <1>4, <2>1, <3>1, <3>2
  <2> QED BY <1>1, <1>8, <2>1 DEF OrdersKept
<1>10. UnitKept'
  <2>1. ASSUME unit' <= Len(Units) PROVE Ids(earlier') = StepsBefore(unit')
    <3>1. ~Aborted(records) /\ unit' = unit + 1
      BY <1>1, <1>3, <2>1
    <3>2. ToSet(queue) = {} /\ {t.id : t \in taken} = {}
      BY <1>1, <1>2, <3>1 DEF UnitKept, ToSet
    <3>3. Ids(records) = StepsOf(unit) /\ Ids(earlier) = StepsBefore(unit)
      BY <1>1, <1>2, <1>3, <3>2 DEF UnitKept
    <3>4. 1 .. (unit' - 1) = (1 .. (unit - 1)) \cup {unit}
      BY <1>3, <3>1
    <3>5. StepsBefore(unit') = StepsBefore(unit) \cup StepsOf(unit)
      BY <3>4 DEF StepsBefore
    <3> QED BY <1>8, <3>3, <3>5
  <2> QED BY <1>1, <1>2, <2>1 DEF UnitKept
<1>11. SeesEarlierUnits'
  BY <1>1, <1>2, <1>8 DEF SeesEarlierUnits
<1>12. OrderSeparatesUnits'
  <2>1. ToSet(earlier' \o records') = ToSet(earlier')
    BY <1>1, <1>4, <1>7, <1>8, JoinedSet DEF WorkbenchTypeOK
  <2>2. ToSet(earlier') = ToSet(earlier \o records)
    BY <1>1
  <2> QED BY <1>2, <2>1, <2>2 DEF OrderSeparatesUnits
<1> QED BY <1>7, <1>9, <1>10, <1>11, <1>12 DEF WorkbenchInv

LEMMA WorkbenchStepInv == ASSUME WorkbenchInv, [WorkbenchNext]_workbenchVars PROVE WorkbenchInv'
<1>1. CASE UNCHANGED workbenchVars
  <2>1. /\ failFast' = failFast /\ unit' = unit /\ within' = within /\ queue' = queue
        /\ taken' = taken /\ records' = records /\ earlier' = earlier /\ seen' = seen
    BY <1>1 DEF workbenchVars
  <2>2. WorkbenchTypeOK' /\ OrdersKept'
    BY <2>1 DEF WorkbenchInv, WorkbenchTypeOK, OrdersKept
  <2>3. UnitKept'
    BY <2>1 DEF WorkbenchInv, UnitKept, Aborted
  <2>4. OrderSeparatesUnits' /\ SeesEarlierUnits'
    BY <2>1 DEF WorkbenchInv, OrderSeparatesUnits, SeesEarlierUnits
  <2> QED BY <2>2, <2>3, <2>4 DEF WorkbenchInv
<1>2. CASE UnitBegins \/ UnitEnds
  BY <1>2, UnitBeginsKeeps, UnitEndsKeeps
<1>3. CASE \E s \in StepIds : Answered(s)
  <2>1. PICK t \in taken, ok \in BOOLEAN : StepEnds(t, ok)
    BY <1>3 DEF Answered
  <2> QED BY <2>1, StepEndsKeeps
<1> QED BY <1>1, <1>2, <1>3 DEF WorkbenchNext, WorksOn, RunReturned

-----------------------------------------------------------------------------
(* In every state of every run the records are numbered below those that   *)
(* are there, no more steps are under way than there are workers, and what *)
(* WorkbenchInv says of the unit under way holds.                          *)
THEOREM WorkbenchInvariant == WorkbenchSpec => []WorkbenchInv
<1>1. WorkbenchInit => WorkbenchInv
  BY WorkbenchInitInv
<1>2. WorkbenchInv /\ [WorkbenchNext]_workbenchVars => WorkbenchInv'
  BY WorkbenchStepInv
<1> QED BY <1>1, <1>2, PTL DEF WorkbenchSpec

(* Whatever the units, the number of workers and the order in which the    *)
(* adapters answer, every record of an earlier unit has a lower order than *)
(* every record of a later one (runParallelGroup, runWorkflow).            *)
THEOREM OrdersSeparateUnits == WorkbenchSpec => []OrderSeparatesUnits
<1>1. WorkbenchInv => OrderSeparatesUnits
  BY DEF WorkbenchInv
<1> QED BY <1>1, WorkbenchInvariant, PTL

(* A step that is begun can refer to every step of the units before its    *)
(* own, which all have their records, and to no other.                     *)
THEOREM StepsSeeEarlierUnits == WorkbenchSpec => []SeesEarlierUnits
<1>1. WorkbenchInv => SeesEarlierUnits
  BY DEF WorkbenchInv
<1> QED BY <1>1, WorkbenchInvariant, PTL
=============================================================================
