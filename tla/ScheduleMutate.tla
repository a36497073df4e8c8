--------------------------- MODULE ScheduleMutate ---------------------------
(***************************************************************************)
(* SearchSpace::GetRandomInitialSketch and SearchSpace::RandomScheduleMutate *)
(* (src/unnamed/part_001, lines 52-146).                                   *)
(*                                                                         *)
(* GetRandomInitialSketch builds sketches one after the other; each starts *)
(* from the lowered program with the whole rule registry applicable and is *)
(* mutated up to init_sketch_random_depth_ times.  One mutation scans the  *)
(* applicable rules (Init on each, erase / clear / break), builds a        *)
(* std::map from cumulative weight offsets to rules, draws rand() %        *)
(* cur_weight, looks the draw up with lower_bound and applies the rule.    *)
(*                                                                         *)
(* A program is abstracted to the list of rewrites applied to it; the      *)
(* rules are the external AutoGenRule capability, whose Init answer (apply *)
(* type and NumberApplicable) is an input chosen with \E.  The std::map    *)
(* lookup is modelled exactly, including what lower_bound returning end()  *)
(* does in libstdc++ (see Sample).                                          *)
(***************************************************************************)
EXTENDS Integers, SequencesExt, FiniteSetsExt

CONSTANTS
  Registry,        \* sketch_rules_: the rules, in emplace_back order
  MinApplicable,   \* least NumberApplicable() a rule that can apply gives
  MaxApplicable,   \* bound on AutoGenRule::NumberApplicable()
  RandomDepth,     \* init_sketch_random_depth_
  Num,             \* the num argument of GetRandomInitialSketch
  NoRule,          \* the pointer read through weight_to_rule.end()
  UseCostModel,    \* FLAGS_auto_schedule_use_cost_model
  MaxMutations     \* bound on the caller's GetScheduleMutate calls

Rules == ToSet(Registry)

\* RuleApplyType
CannotApply == "kCannotApply"
Apply       == "kApply"
SkipThis    == "kApplyAndSkipThisRule"
SkipAll     == "kApplyAndSkipAllRules"
ApplyTypes  == {CannotApply, Apply, SkipThis, SkipAll}

ASSUME /\ Cardinality(Rules) = Len(Registry)
       /\ NoRule \notin Rules
       /\ MinApplicable \in Nat
       /\ MaxApplicable \in Nat \ {0}
       /\ RandomDepth \in Nat
       /\ Num \in Int
       /\ UseCostModel \in BOOLEAN
       /\ MaxMutations \in Nat

VARIABLES
  pc,            \* program counter of the single tuning thread
  result,        \* the std::vector<SearchState> result of the sketches so far
  sketch,        \* the SearchState being mutated: [applied, rules]
  depth,         \* the loop index i of the depth loop
  iter,          \* the iterator into sketch.rules during the Init scan
  weightToRule,  \* std::map<int, AutoGenRule*> weight_to_rule
  curWeight,     \* cur_weight
  \* history, for the properties only:
  roundRules,    \* applicable_rules when the current mutation started
  verdict,       \* rule -> [type, n]: what each Init returned this round
  lastPick,      \* [rule, index, sample] of the last Apply, or NoPick
  caller,        \* who called RandomScheduleMutate: "sketch" or "mutate"
  mutations      \* GetScheduleMutate calls made so far

vars == <<pc, result, sketch, depth, iter, weightToRule, curWeight,
          roundRules, verdict, lastPick, caller, mutations>>
cvars == <<caller, mutations>>

NoPick == [rule |-> NoRule, index |-> -1, sample |-> -1]

\* NumberApplicable() is asked only when Init did not answer kCannotApply;
\* nothing in the rule contract keeps it from answering 0.
Counts(t) == IF t = CannotApply THEN {0} ELSE MinApplicable..MaxApplicable

\* result.size() < num: the int num is converted to size_t, so a negative
\* num becomes at least 2^64 - 2^31, above any size a vector reaches.
SizeLess(size, num) == num < 0 \/ size < num

\* predicted_cost: SearchState::NOT_INIT_COST, or the score the cost model
\* gave; a score is abstracted to the program it was predicted on.
NotInitCost == [evaluated |-> FALSE, program |-> <<>>]
Predict(program) == [evaluated |-> TRUE, program |-> program]

\* The lowered program with every rule applicable (lines 54-62).
InitialSketch == [applied |-> <<>>, rules |-> Registry, cost |-> NotInitCost]

Init ==
  /\ pc = "sketch"
  /\ result = <<>>
  /\ sketch = InitialSketch
  /\ depth = 0
  /\ iter = 1
  /\ weightToRule = <<>>
  /\ curWeight = 0
  /\ roundRules = <<>>
  /\ verdict = <<>>
  /\ lastPick = NoPick
  /\ caller = "sketch"
  /\ mutations = 0

-----------------------------------------------------------------------------
(* GetRandomInitialSketch                                                  *)

\* while (result.size() < num): a fresh state from init_schedule.
StartSketch ==
  /\ pc = "sketch"
  /\ IF SizeLess(Len(result), Num)
     THEN /\ sketch' = InitialSketch
          /\ depth' = 0
          /\ pc' = "depth"
     ELSE /\ pc' = "done"
          /\ UNCHANGED <<sketch, depth>>
  /\ UNCHANGED <<result, iter, weightToRule, curWeight, roundRules, verdict,
                 lastPick, cvars>>

\* Mutant: the depth loop runs while i <= depth.
DepthLeftOffByOne == depth <= RandomDepth

\* The condition i < init_sketch_random_depth_ of the depth loop.
DepthLeft == depth < RandomDepth

\* for (i = 0; i < depth; ++i): RandomScheduleMutate starts on the state
\* (SearchState ret(state); an empty weight_to_rule; cur_weight = 0) ...
StartRound(s) ==
  /\ pc' = "scan"
  /\ iter' = 1
  /\ weightToRule' = <<>>
  /\ curWeight' = 0
  /\ roundRules' = s.rules
  /\ verdict' = <<>>
  /\ lastPick' = NoPick

BeginMutate ==
  /\ pc = "depth"
  /\ DepthLeft
  /\ StartRound(sketch)
  /\ UNCHANGED <<result, sketch, depth, cvars>>

\* ... or the loop ends and the sketch is appended to result.
EndSketch ==
  /\ pc = "depth"
  /\ ~DepthLeft
  /\ result' = Append(result, sketch)
  /\ pc' = "sketch"
  /\ UNCHANGED <<sketch, depth, iter, weightToRule, curWeight, roundRules,
                 verdict, lastPick, cvars>>

\* Mutant: the depth loop forgets ++i.
DepthLoopAfterNoIncrement(s) ==
  /\ sketch' = s
  /\ IF s.rules = <<>>
     THEN /\ result' = Append(result, s)
          /\ pc' = "sketch"
     ELSE /\ pc' = "depth"
          /\ UNCHANGED result
  /\ UNCHANGED depth

\* RandomScheduleMutate has returned s to the depth loop: state = s; the
\* loop breaks when s has no applicable rule left, and goes on with ++i
\* otherwise.
DepthLoopAfter(s) ==
  /\ sketch' = s
  /\ IF s.rules = <<>>
     THEN /\ result' = Append(result, s)
          /\ pc' = "sketch"
          /\ UNCHANGED depth
     ELSE /\ depth' = depth + 1
          /\ pc' = "depth"
          /\ UNCHANGED result

\* GetScheduleMutate, after RandomScheduleMutate returned ret: with
\* FLAGS_auto_schedule_use_cost_model, ret->predicted_cost is set to the
\* cost model's prediction for ret's program; otherwise ret keeps the
\* predicted_cost it was copied with (SearchState ret(state)).
WithCost(s) ==
  IF UseCostModel THEN [s EXCEPT !.cost = Predict(s.applied)] ELSE s

\* GetScheduleMutate returns ret to its caller, which adds it to the
\* states it holds.
MutateReturned(s) ==
  /\ sketch' = WithCost(s)
  /\ result' = Append(result, WithCost(s))
  /\ mutations' = mutations + 1
  /\ pc' = "done"
  /\ UNCHANGED <<depth, caller>>

\* RandomScheduleMutate returns s to whichever function called it.
AfterMutate(s) ==
  IF caller = "sketch"
  THEN DepthLoopAfter(s) /\ UNCHANGED cvars
  ELSE MutateReturned(s)

-----------------------------------------------------------------------------
(* RandomScheduleMutate                                                    *)

\* Mutant: kApplyAndSkipAllRules breaks without clearing the list.
ClearedNoOp(rules) == rules

\* ret->applicable_rules.clear()
Cleared(rules) == <<>>

\* One turn of the scan loop (lines 109-125) on the rule at iter: Init
\* answers type t and NumberApplicable n.  A rule that can apply is put in
\* weight_to_rule at the current offset, which then grows by n;
\* kApplyAndSkipThisRule erases the rule (iter then points at the next
\* one), kApplyAndSkipAllRules clears the list and breaks.
ScanRule ==
  /\ pc = "scan"
  /\ iter <= Len(sketch.rules)
  /\ LET rule == sketch.rules[iter] IN
     \E t \in ApplyTypes : \E n \in Counts(t) :
       /\ verdict' = verdict @@ (rule :> [type |-> t, n |-> n])
       /\ IF t = CannotApply
          THEN /\ UNCHANGED <<weightToRule, curWeight>>
          ELSE /\ weightToRule' = (curWeight :> rule) @@ weightToRule
               /\ curWeight' = curWeight + n
       /\ CASE t \in {CannotApply, Apply} ->
                 /\ iter' = iter + 1
                 /\ UNCHANGED <<sketch, pc>>
            [] t = SkipThis ->
                 /\ sketch' = [sketch EXCEPT !.rules = RemoveAt(@, iter)]
                 /\ UNCHANGED <<iter, pc>>
            [] t = SkipAll ->
                 /\ sketch' = [sketch EXCEPT !.rules = Cleared(@)]
                 /\ pc' = "sample"
                 /\ UNCHANGED iter
  /\ UNCHANGED <<result, depth, roundRules, lastPick, cvars>>

\* The iterator reached the end of applicable_rules.
EndScan ==
  /\ pc = "scan"
  /\ iter > Len(sketch.rules)
  /\ pc' = "sample"
  /\ UNCHANGED <<result, sketch, depth, iter, weightToRule, curWeight,
                 roundRules, verdict, lastPick, cvars>>

\* Mutant: the lower_bound result is used without the '--iter' fix-up.
LookupKeyNoFixup(sample) ==
  LET notLess == {k \in DOMAIN weightToRule : k >= sample}
  IN  IF notLess # {} THEN Min(notLess) ELSE NoRule

\* weight_to_rule.lower_bound(sample) followed by the '--iter' fix-up
\* (lines 136-140).  When every key is below the sample, lower_bound
\* returns end() and iter->first reads the map header: in libstdc++ the
\* value field of the header node overlays _M_node_count, so first is the
\* number of entries.  If that exceeds the sample, --end() is the last
\* entry; otherwise iter->second is whatever follows the map in memory.
LookupKey(sample) ==
  LET keys == DOMAIN weightToRule
      notLess == {k \in keys : k >= sample}
  IN  IF notLess # {}
      THEN LET k == Min(notLess)
           IN  IF k > sample THEN Max({j \in keys : j < k}) ELSE k
      ELSE IF Cardinality(keys) > sample THEN Max(keys) ELSE NoRule

\* The process dies.
Crash == pc' = "crashed" /\ UNCHANGED <<result, sketch, depth, cvars>>

\* Lines 127-145: no rule can apply and the state is returned as it is;
\* otherwise sample_index = rand() % cur_weight is looked up and the rule
\* found is applied at sample_index - key.  When every rule entered
\* answered NumberApplicable() == 0, rand() % 0 divides by zero (SIGFPE);
\* applying through the garbage pointer of the end() case is a crash.
Sample ==
  /\ pc = "sample"
  /\ CASE weightToRule = <<>> ->
            /\ lastPick' = NoPick
            /\ AfterMutate(sketch)
       [] curWeight = 0 ->
            /\ lastPick' = NoPick
            /\ Crash
       [] OTHER ->
          \E sample \in 0..(curWeight - 1) :
            LET key == LookupKey(sample) IN
            IF key = NoRule
            THEN /\ lastPick' = [rule |-> NoRule, index |-> -1,
                                 sample |-> sample]
                 /\ Crash
            ELSE LET pick == [rule |-> weightToRule[key],
                              index |-> sample - key, sample |-> sample]
                 IN  /\ lastPick' = pick
                     /\ AfterMutate([sketch EXCEPT !.applied =
                                       Append(@, <<pick.rule, pick.index>>)])
  /\ UNCHANGED <<iter, weightToRule, curWeight, roundRules, verdict>>

-----------------------------------------------------------------------------
(* GetScheduleMutate and its caller                                        *)

\* The caller (the evolutionary search, not in src/) has the cost model
\* score one of the states it holds.
Evaluate ==
  /\ pc = "done"
  /\ mutations < MaxMutations
  /\ \E i \in DOMAIN result :
       result' = [result EXCEPT ![i].cost = Predict(result[i].applied)]
  /\ UNCHANGED <<pc, sketch, depth, iter, weightToRule, curWeight, roundRules,
                 verdict, lastPick, cvars>>

\* GetScheduleMutate(state, cost_model) on one of the caller's states:
\* has_manual_schedule is the constant false, so ManualScheduleMutate is
\* never called and RandomScheduleMutate starts on the state.
GetScheduleMutate ==
  /\ pc = "done"
  /\ mutations < MaxMutations
  /\ \E i \in DOMAIN result :
       /\ sketch' = result[i]
       /\ StartRound(result[i])
  /\ caller' = "mutate"
  /\ UNCHANGED <<result, depth, mutations>>

NextStep ==
  \/ StartSketch
  \/ BeginMutate
  \/ EndSketch
  \/ ScanRule
  \/ EndScan
  \/ Sample
  \/ Evaluate
  \/ GetScheduleMutate

\* A single thread runs GetRandomInitialSketch to its end: no step of it
\* waits on anything, so it is never stopped while a step is enabled.  It
\* stops for good once it has returned ("done") or crashed.
Spec == Init /\ [][NextStep]_vars /\ WF_vars(NextStep)

-----------------------------------------------------------------------------
(* Properties                                                              *)

\* Every variable holds a value of its type.
TypeOK ==
  /\ pc \in {"sketch", "depth", "scan", "sample", "done", "crashed"}
  /\ result \in Seq([applied : Seq(Rules \X Int), rules : Seq(Rules),
                     cost : [evaluated : BOOLEAN,
                             program : Seq(Rules \X Int)]])
  /\ sketch.rules \in Seq(Rules)
  /\ depth \in 0..RandomDepth
  /\ curWeight \in 0..(Len(Registry) * MaxApplicable)
  /\ DOMAIN weightToRule \subseteq 0..curWeight
  /\ lastPick.rule \in Rules \cup {NoRule}

\* The rules whose Init this round answered something other than
\* kCannotApply, in the order the scan met them.
Entered ==
  SelectSeq(roundRules,
            LAMBDA r : r \in DOMAIN verdict /\ verdict[r].type # CannotApply)

\* Reference partition of [0, total weight): the offset at which a rule's
\* span starts is the sum of the counts of the rules entered before it.
RefOffset(r) ==
  FoldLeft(LAMBDA acc, x : acc + verdict[x].n, 0,
           SubSeq(Entered, 1, SelectInSeq(Entered, LAMBDA x : x = r) - 1))

\* When the Init scan of a mutation is over, (a) Init was called on every
\* rule that was applicable when the mutation started, in order, up to
\* and including the first one that answered kApplyAndSkipAllRules, and
\* on no other; (b) applicable_rules is empty if some rule answered
\* kApplyAndSkipAllRules, and otherwise is the old list without the rules
\* that answered kApplyAndSkipThisRule.  This is what the erase / clear /
\* break of the scan loop of RandomScheduleMutate must achieve.
ScanOutcome ==
  pc = "sample" =>
    LET vetoed == {i \in 1..Len(roundRules) :
                     /\ roundRules[i] \in DOMAIN verdict
                     /\ verdict[roundRules[i]].type = SkipAll}
        stop == IF vetoed = {} THEN Len(roundRules) ELSE Min(vetoed)
    IN  /\ DOMAIN verdict = {roundRules[i] : i \in 1..stop}
        /\ sketch.rules =
             IF vetoed # {} THEN <<>>
             ELSE SelectSeq(roundRules, LAMBDA r : verdict[r].type # SkipThis)

\* Whenever RandomScheduleMutate applies a real rule, it is a rule whose
\* Init this round said it can apply, and the (rule, local index) pair it
\* applies is the one whose span of the weight partition contains the
\* drawn sample_index: offset + index = sample, index < NumberApplicable.
\* This is what the lower_bound / '--iter' lookup must compute.
SampledPairValid ==
  lastPick.rule \in Rules =>
    /\ lastPick.rule \in ToSet(Entered)
    /\ RefOffset(lastPick.rule) + lastPick.index = lastPick.sample
    /\ lastPick.index \in 0..(verdict[lastPick.rule].n - 1)

\* RandomScheduleMutate does not crash: it neither divides by a zero
\* cur_weight nor applies a rule through the pointer read from
\* weight_to_rule.end().
NeverCrashes == pc # "crashed"

\* GetRandomInitialSketch returns (or the process has died): the scan
\* loop, the depth loop and the sketch loop all end.
Termination == <>(pc \in {"done", "crashed"})

\* Every state GetScheduleMutate hands back, and every state the caller
\* holds, carries either NOT_INIT_COST ("not yet evaluated", spec section
\* 3) or the cost predicted for its own program, never the cost of the
\* program it was mutated from (SearchState ret(state) copies the
\* parent's predicted_cost, which line 91 refreshes only when
\* FLAGS_auto_schedule_use_cost_model is set).
CostOfOwnProgram ==
  \A i \in DOMAIN result :
    result[i].cost.evaluated => result[i].cost.program = result[i].applied
=============================================================================
