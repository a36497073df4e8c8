--------------------------- MODULE StateTransfer ---------------------------
(***************************************************************************)
(* SearchSpace::CollectStateTransfer and CheckBlockExist                   *)
(* (src/unnamed/part_001, lines 248-310): breadth-first expansion of one   *)
(* state restricted to one block.  Each turn of the while loop draws the   *)
(* next rule from a RuleSampler; each turn of the inner for loop handles   *)
(* one state of the layer: skipped if it lacks the block or the rule       *)
(* cannot apply, otherwise ApplyOnBlock's successors go to new_states and  *)
(* the state is erased from the layer when it is pruned (by the rule's     *)
(* kApplyAndSkipAllRules answer, or by a uniform draw below                *)
(* prune_probability).  new_states is spliced onto the end of the layer.  *)
(*                                                                         *)
(* A SearchState is abstracted to the rewrites applied to it and the set   *)
(* of blocks its program still has.  AnalyseApplyType and the number of    *)
(* states ApplyOnBlock returns are inputs chosen with \E; an inlining rule *)
(* removes the block it is applied on.  The RuleSampler (not in src/)     *)
(* hands out each rule of init_rules once: in order for "traversal", in   *)
(* any order for "probabilistic" (RulePicks).                             *)
(***************************************************************************)
EXTENDS Integers, SequencesExt, FiniteSetsExt

CONSTANTS
  Blocks,          \* the block names of the lowered program, in order
  InitRules,       \* init_rules: sketch_rules_ without the last rule
  InliningRules,   \* the rules whose ApplyOnBlock inlines the block away
  MaxFanout        \* bound on the number of states ApplyOnBlock returns

BlockSet == ToSet(Blocks)
RuleSet == ToSet(InitRules)

\* RuleApplyType
CannotApply == "kCannotApply"
Apply       == "kApply"
SkipThis    == "kApplyAndSkipThisRule"
SkipAll     == "kApplyAndSkipAllRules"
ApplyTypes  == {CannotApply, Apply, SkipThis, SkipAll}

ASSUME /\ Cardinality(BlockSet) = Len(Blocks)
       /\ Cardinality(RuleSet) = Len(InitRules) /\ InitRules # <<>>
       /\ InliningRules \subseteq RuleSet
       /\ MaxFanout \in Nat

\* The lowered program before any rewrite.
InitialState == [applied |-> <<>>, blocks |-> BlockSet]

\* The states ApplyOnBlock of rule on block can return from state s: k
\* rewritten variants; an inlining rule removes the block.
Successors(s, rule, block, k) ==
  [j \in 1..k |->
     [applied |-> Append(s.applied, <<rule, block, j>>),
      blocks  |-> IF rule \in InliningRules THEN s.blocks \ {block}
                  ELSE s.blocks]]

\* uniform_real_distribution(0, 1)(rng) < prune_probability: the draw is
\* in [0, 1), so a probability >= 1 always prunes and one <= 0 never does.
PruneDraws(p) == IF p >= 1 THEN {TRUE} ELSE IF p <= 0 THEN {FALSE}
                 ELSE BOOLEAN

VARIABLES
  tpc,         \* "loop" (while head), "layer" (for loop), "returned"
  block,       \* block_name
  steps,       \* steps (0: until the sampler is exhausted)
  pruneByRule, \* prune_by_rule
  pruneProb,   \* prune_probability
  sampler,     \* the rules the RuleSampler can still yield
  traversal,   \* the sampler was made with "traversal"
  step,        \* step
  rule,        \* the rule of the current turn of the while loop
  layer,       \* std::list<SearchState> layer
  idx,         \* the position of the for loop's iterator in layer
  newStates,   \* new_states of the current turn
  retired      \* history: the states this call decided to prune

tvars == <<tpc, block, steps, pruneByRule, pruneProb, sampler, traversal,
           step, rule, layer, idx, newStates, retired>>

\* The call CollectStateTransfer(s, b, RuleSampler::Make(init_rules, kind),
\* st, byRule, p) with a fresh sampler.
Call(s, b, isTraversal, st, byRule, p) ==
  /\ tpc' = "loop"
  /\ block' = b
  /\ steps' = st
  /\ pruneByRule' = byRule
  /\ pruneProb' = p
  /\ sampler' = InitRules
  /\ traversal' = isTraversal
  /\ step' = 0
  /\ rule' = Head(InitRules)
  /\ layer' = <<s>>
  /\ idx' = 1
  /\ newStates' = <<>>
  /\ retired' = {}

-----------------------------------------------------------------------------
\* RuleSampler::NextRule() hands out the rule at i, which it will not
\* hand out again.
Remaining(i) == RemoveAt(sampler, i)

\* The positions NextRule() may hand out: the first remaining rule for the
\* traversal sampler, any remaining one for the probabilistic sampler.
RulePicks == IF traversal THEN {1} ELSE DOMAIN sampler

\* The while condition (step++ < steps || steps == 0) && (rule =
\* rule_sampler->NextRule()): step is incremented whatever the outcome, and
\* NextRule is only called when the first conjunct holds.
LoopHead ==
  /\ tpc = "loop"
  /\ step' = step + 1
  /\ IF (step < steps \/ steps = 0) /\ sampler # <<>>
     THEN \E i \in RulePicks :
            /\ rule' = sampler[i]
            /\ sampler' = Remaining(i)
            /\ idx' = 1
            /\ tpc' = "layer"
     ELSE /\ tpc' = "returned"
          /\ UNCHANGED <<sampler, rule, idx>>
  /\ UNCHANGED <<block, steps, pruneByRule, pruneProb, traversal, layer,
                 newStates, retired>>

\* Mutant: 'continue' without '++iter' when the block is missing.
SkipStateStuck(i) == i

\* ++iter; continue; past a state that lacks the block.
SkipState(i) == i + 1

\* Mutant: the CheckBlockExist test is left out.
HasBlockAlways(s) == TRUE

\* CheckBlockExist(state, block_name)
HasBlock(s) == block \in s.blocks

\* Mutant: the rule-driven prune tests the wrong apply type.
NeedPruneWrongType(type, draw) ==
  IF pruneByRule THEN type = SkipThis ELSE draw

\* need_prune: the rule's kApplyAndSkipAllRules answer, or the draw.
NeedPrune(type, draw) ==
  IF pruneByRule THEN type = SkipAll ELSE draw

\* What the prune policy asks for (the spec's words, for the history
\* variable retired): the rule vetoed the state, or the random draw fell
\* below prune_probability.
Retires(type, draw) ==
  \/ pruneByRule /\ type = SkipAll
  \/ ~pruneByRule /\ draw

\* Mutant: the state after the iterator is erased instead.
ErasedNext(l, i) == RemoveAt(l, i + 1)

\* layer.erase(iter) removes the state the iterator points at.
Erased(l, i) == RemoveAt(l, i)

\* Mutant: the iterator is also advanced after layer.erase(iter).
AfterEraseAdvance(i) == i + 1

\* iter = layer.erase(iter): the iterator now points at the next state.
AfterErase(i) == i

\* One turn of the for loop on the state at idx (lines 275-303).
LayerTurn ==
  /\ tpc = "layer"
  /\ idx <= Len(layer)
  /\ LET s == layer[idx] IN
     IF ~HasBlock(s)
     THEN /\ idx' = SkipState(idx)
          /\ UNCHANGED <<layer, newStates, retired>>
     ELSE \E type \in ApplyTypes :
            IF type = CannotApply
            THEN /\ idx' = idx + 1
                 /\ UNCHANGED <<layer, newStates, retired>>
            ELSE \E k \in 0..MaxFanout, draw \in PruneDraws(pruneProb) :
                   /\ newStates' = newStates \o Successors(s, rule, block, k)
                   /\ retired' = IF Retires(type, draw) THEN retired \cup {s}
                                 ELSE retired
                   /\ IF NeedPrune(type, draw)
                      THEN /\ layer' = Erased(layer, idx)
                           /\ idx' = AfterErase(idx)
                      ELSE /\ idx' = idx + 1
                           /\ UNCHANGED layer
  /\ UNCHANGED <<tpc, block, steps, pruneByRule, pruneProb, sampler,
                 traversal, step, rule>>

\* layer.splice(layer.end(), new_states) ends the turn of the while loop.
SpliceLayer ==
  /\ tpc = "layer"
  /\ idx > Len(layer)
  /\ layer' = layer \o newStates
  /\ newStates' = <<>>
  /\ tpc' = "loop"
  /\ UNCHANGED <<block, steps, pruneByRule, pruneProb, sampler, traversal,
                 step, rule, idx, retired>>

TransferNext == LoopHead \/ LayerTurn \/ SpliceLayer

-----------------------------------------------------------------------------
(* CollectStateTransfer on its own, started as SearchSpace calls it        *)

\* The two calls of part_001: GetRulePrunedInitialSketch passes a traversal
\* sampler, steps 0 and prune_by_rule (prune_probability, left to its
\* default, is not read); GetRandomPrunedInitialSketch passes a
\* probabilistic sampler, steps drawn from 0..init_rules.size(), no
\* prune_by_rule and prune_probability 1.
TInit ==
  /\ tpc = "loop"
  /\ block \in BlockSet
  /\ \/ /\ traversal = TRUE /\ steps = 0 /\ pruneByRule = TRUE
        /\ pruneProb = 0
     \/ /\ traversal = FALSE /\ steps \in 0..Len(InitRules)
        /\ pruneByRule = FALSE /\ pruneProb = 1
  /\ sampler = InitRules
  /\ step = 0
  /\ rule = Head(InitRules)
  /\ layer = <<InitialState>>
  /\ idx = 1
  /\ newStates = <<>>
  /\ retired = {}

\* One thread runs the call to its end; nothing in it waits.
TSpec == TInit /\ [][TransferNext]_tvars /\ WF_tvars(TransferNext)

-----------------------------------------------------------------------------
(* Properties                                                              *)

Rewrites == RuleSet \X BlockSet \X (1..MaxFanout)

States == [applied : Seq(Rewrites), blocks : SUBSET BlockSet]

\* Every variable holds a value of its type; the for loop's iterator
\* stays within the layer (at most one past its end).
TypeOK ==
  /\ tpc \in {"loop", "layer", "returned"}
  /\ block \in BlockSet
  /\ sampler \in Seq(RuleSet)
  /\ rule \in RuleSet
  /\ layer \in Seq(States)
  /\ newStates \in Seq(States)
  /\ idx \in 1..(Len(layer) + 1)

\* Between turns of the while loop, no state that the prune policy
\* retired (vetoed by kApplyAndSkipAllRules under prune_by_rule, or hit by
\* the random draw otherwise) is still in the layer: a pruned state is
\* never expanded again, and is not returned.
RetiredStatesGone ==
  tpc \in {"loop", "returned"} =>
    \A i \in DOMAIN layer : layer[i] \notin retired

\* No state in the layer or in new_states carries a rewrite of a block
\* made after that block was inlined away: ApplyOnBlock is only called on
\* states whose program still has the block.
NoRewriteOfRemovedBlock ==
  \A s \in ToSet(layer) \cup ToSet(newStates) :
    \A i, j \in DOMAIN s.applied :
      (i < j /\ s.applied[i][1] \in InliningRules) =>
         s.applied[j][2] # s.applied[i][2]

\* The abstract expansion of spec section 4.5, seen through the states the
\* call holds (the layer and the new states of the current turn) and
\* whether it has returned.
Abs == INSTANCE LayeredExpansion
         WITH BlockSet <- BlockSet, RuleSet <- RuleSet,
              InliningRules <- InliningRules, MaxFanout <- MaxFanout,
              Origin <- InitialState,
              live <- ToSet(layer) \cup ToSet(newStates),
              target <- block,
              returned <- (tpc = "returned")

\* CollectStateTransfer implements the abstract expansion: each for-loop
\* turn expands (and possibly erases) only the state at the iterator,
\* which still has the block, adds exactly that rule's successors of it,
\* removes no other state, and the call returns.
RefinesLayeredExpansion == Abs!Spec

\* CollectStateTransfer returns: with steps == 0 the only way out of the
\* while loop is the rule sampler running dry.
TransferTerminates == <>(tpc = "returned")
=============================================================================
