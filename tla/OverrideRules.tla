----------------------------- MODULE OverrideRules -----------------------------
(***************************************************************************)
(* core/overrides: the rules an engine has loaded, of which it keeps one   *)
(* per id, and the matches it has answered and cached.  matchAPIPattern    *)
(* works as matchPIIPattern does, with other signals.                      *)
(***************************************************************************)
EXTENDS Naturals, Sequences, SequencesExt

CONSTANTS
  RuleFiles,      (* valid rules, records of                               *)
                  (*   id, type, source                                    *)
                  (*   confidence, verified   a percentage, a count        *)
                  (*   created       a month                               *)
                  (*   weight        for each question, the weight of the  *)
                  (*                 signals that match, in tenths         *)
  FieldQuestions, (* records of the key, which is the field, its context   *)
                  (* and protocol, and of what is known of its data        *)
  FirstMonth, LastMonth

ASSUME RuleAssumptions ==
  /\ FirstMonth \in Nat /\ LastMonth \in Nat /\ FirstMonth <= LastMonth
  /\ \A r \in RuleFiles :
       /\ r.source \in {"community", "organization", "project"}
       /\ r.confidence \in 0 .. 100 /\ r.verified \in Nat /\ r.created \in 0 .. FirstMonth
       /\ r.weight \in [FieldQuestions -> Nat]

VARIABLES
  rules,          (* the rules kept, in the order they were added          *)
  rulesByType,    (* the same rules, per type                              *)
  month,          (* the time, in windows of the decay                     *)
  matchCache,     (* matchCache[k]: the set of the question asked under k, *)
                  (* if any, and of the rule that answered it, if any      *)
  offered,        (* the rules loaded since clear, with the month          *)
  changed         (* the keys cached before rules or the month changed     *)

overrideVars == <<rules, rulesByType, month, matchCache, offered, changed>>

RuleTypes == {"pii_pattern"} \cup {r.type : r \in RuleFiles}
Unasked == [asked |-> {}, answer |-> {}]
CacheKeys == {q.key : q \in FieldQuestions}

OverrideInit ==
  /\ rules = << >> /\ rulesByType = [t \in RuleTypes |-> << >>]
  /\ month = FirstMonth
  /\ matchCache = [k \in CacheKeys |-> Unasked]
  /\ offered = {} /\ changed = {}

-----------------------------------------------------------------------------
(* schema.js.                                                              *)

Capped(n, most) == IF n < most THEN n ELSE most

Precedence(r) == CASE r.source = "project" -> 3 [] r.source = "organization" -> 2 [] OTHER -> 1

(* calculateDecay, in tenths: rules lose confidence in their first months. *)
Decay(r) == 10 - Capped(month - r.created, 3)

(* calculateEffectiveConfidence, in thousandths.                           *)
Confidence(r) == Capped(r.confidence * Decay(r) + Capped(5 * r.verified, 100), 1000)

-----------------------------------------------------------------------------
(* loader.js: addRule.                                                     *)

(* Mutant: confidence alone decides.                                       *)
OutranksByConfidence(r, old) == Confidence(r) > Confidence(old)

Outranks(r, old) ==
  \/ Precedence(r) > Precedence(old)
  \/ Precedence(r) = Precedence(old) /\ Confidence(r) > Confidence(old)

(* removeRule's filter, which finds one rule with that id, if any.         *)
Others(list, id) ==
  LET held == {i \in DOMAIN list : list[i].id = id} IN
  IF held = {} THEN list ELSE RemoveAt(list, CHOOSE i \in held : TRUE)

(* removeRule of one with that id, if there is one, and _addRule.          *)
Put(r) ==
  /\ rules' = Append(Others(rules, r.id), r)
  /\ rulesByType' = [t \in RuleTypes |->
       LET others == Others(rulesByType[t], r.id) IN
       IF t = r.type THEN Append(others, r) ELSE others]
  /\ changed' = CacheKeys

AddRule(r) ==
  LET old == {x \in ToSet(rules) : x.id = r.id} IN
  /\ \/ (\A x \in old : Outranks(r, x)) /\ Put(r)
     \/ (\E x \in old : ~Outranks(r, x)) /\ UNCHANGED <<rules, rulesByType, changed>>
  /\ offered' = offered \cup {[rule |-> r, month |-> month]}
  /\ UNCHANGED <<month, matchCache>>

(* RuleLoader.clear, which leaves the matcher's cache.                     *)
ClearRules ==
  /\ rules' = << >> /\ rulesByType' = [t \in RuleTypes |-> << >>]
  /\ offered' = {} /\ changed' = CacheKeys
  /\ UNCHANGED <<month, matchCache>>

MonthPasses ==
  /\ month < LastMonth
  /\ month' = month + 1
  /\ changed' = CacheKeys
  /\ UNCHANGED <<rules, rulesByType, matchCache, offered>>

-----------------------------------------------------------------------------
(* matcher.js: matchPIIPattern.                                            *)

(* The signals' weights are added up to one; a rule without any does not   *)
(* match.                                                                  *)
MatchConfidence(r, q) == Confidence(r) * Capped(r.weight[q], 10)
Matched(r, q) == r.weight[q] > 0

(* Mutant: what the rule says of itself decides.                           *)
BetterByRule(r, best, q) == Confidence(r) > Confidence(best)
Better(r, best, q) == MatchConfidence(r, q) > MatchConfidence(best, q)

(* The best of the first n rules that could match, if one does.            *)
BestOf(list, q) ==
  LET best[n \in 0 .. Len(list)] ==
        IF n = 0 THEN {}
        ELSE IF Matched(list[n], q) /\ \A r \in best[n - 1] : Better(list[n], r, q)
             THEN {list[n]} ELSE best[n - 1]
  IN  best[Len(list)]

BestMatch(q) == BestOf(rulesByType["pii_pattern"], q)

(* A question whose key is in the cache is answered from there.            *)
Match(q) ==
  /\ matchCache[q.key] = Unasked
  /\ matchCache' = [matchCache EXCEPT ![q.key] = [asked |-> {q}, answer |-> BestMatch(q)]]
  /\ changed' = changed \ {q.key}
  /\ UNCHANGED <<rules, rulesByType, month, offered>>

ClearMatches ==
  /\ matchCache' = [k \in CacheKeys |-> Unasked]
  /\ UNCHANGED <<rules, rulesByType, month, offered, changed>>

-----------------------------------------------------------------------------
OverrideNext ==
  \/ \E r \in RuleFiles : AddRule(r)
  \/ \E q \in FieldQuestions : Match(q)
  \/ ClearRules \/ MonthPasses \/ ClearMatches

OverrideSpec == OverrideInit /\ [][OverrideNext]_overrideVars

-----------------------------------------------------------------------------
(* Properties.                                                             *)

(* Every variable holds values of the shape the code gives it.             *)
OverrideTypeOK ==
  /\ ToSet(rules) \subseteq RuleFiles
  /\ \A t \in RuleTypes : ToSet(rulesByType[t]) \subseteq RuleFiles
  /\ month \in FirstMonth .. LastMonth
  /\ matchCache \in [CacheKeys -> [asked : SUBSET FieldQuestions, answer : SUBSET RuleFiles]]
  /\ offered \subseteq [rule : RuleFiles, month : FirstMonth .. LastMonth]
  /\ changed \subseteq CacheKeys

AddedBefore(r, s) == \E i, j \in DOMAIN rules : i < j /\ rules[i] = r /\ rules[j] = s

(* Whatever the order the packs are loaded in, one rule is kept per id; no *)
(* rule that was loaded has a higher source than it, nor, of the same      *)
(* source and if no month has passed since, more confidence; and the types *)
(* index the rules that are kept, as they were added, also those that      *)
(* changed their type.                                                     *)
LoadOrderIsIrrelevant ==
  /\ \A o \in offered : \E r \in ToSet(rules) :
       /\ r.id = o.rule.id
       /\ Precedence(r) >= Precedence(o.rule)
       /\ Precedence(r) = Precedence(o.rule) /\ o.month = month => Confidence(r) >= Confidence(o.rule)
  /\ \A i, j \in DOMAIN rules : rules[i].id = rules[j].id => i = j
  /\ \A t \in RuleTypes :
       /\ ToSet(rulesByType[t]) = {r \in ToSet(rules) : r.type = t}
       /\ \A i, j \in DOMAIN rulesByType[t] :
            i < j => AddedBefore(rulesByType[t][i], rulesByType[t][j])

(* The rule that answers a question is the one of those kept that matches  *)
(* with the most confidence, by then and not when it was loaded, and the   *)
(* first added of several; until rules or time change, or the key is asked *)
(* about other data.                                                       *)
BestMatchAnswers ==
  \A k \in CacheKeys \ changed : \A q \in matchCache[k].asked :
    LET candidates == {i \in DOMAIN rules : rules[i].type = "pii_pattern" /\ Matched(rules[i], q)}
        best == {i \in candidates : \A j \in candidates :
                   \/ MatchConfidence(rules[i], q) > MatchConfidence(rules[j], q)
                   \/ MatchConfidence(rules[i], q) = MatchConfidence(rules[j], q) /\ i <= j}
    IN  matchCache[k].answer = {rules[i] : i \in best}
=============================================================================
