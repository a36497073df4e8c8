---------------------------- MODULE PrunedSketch ----------------------------
(***************************************************************************)
(* SearchSpace::GetInitialSketch, GetRulePrunedInitialSketch and           *)
(* GetRandomPrunedInitialSketch (src/unnamed/part_001, lines 148-246).     *)
(*                                                                         *)
(* GetInitialSketch calls one of the two generators until it has num       *)
(* sketches, taking each call's states last-first.  A generator walks the  *)
(* blocks with a BlockSampler (reversed traversal, or probabilistic) and,  *)
(* for each block, runs CollectStateTransfer (module StateTransfer) on     *)
(* every state of the current generation, gathering the results in the    *)
(* next one.  The generations live in two buffers reached through the      *)
(* pointers p_states_cur / p_states_next, swapped after each block; the    *)
(* generator returns *p_states_next.                                        *)
(***************************************************************************)
EXTENDS Integers, SequencesExt, FiniteSetsExt

CONSTANTS
  Blocks, InitRules, InliningRules, MaxFanout,   \* as in StateTransfer
  Strategies,      \* the strategy arguments GetInitialSketch may get
  Num,             \* the num argument of GetInitialSketch
  RandomDepth      \* init_sketch_random_depth_

ASSUME /\ Strategies \subseteq STRING
       /\ Num \in Int
       /\ RandomDepth \in Nat

VARIABLES
  tpc, block, steps, pruneByRule, pruneProb, sampler, traversal, step,
  rule, layer, idx, newStates, retired,          \* CollectStateTransfer
  strategy,    \* GetInitialSketch's strategy argument
  pc,          \* where the tuning thread is
  result,      \* GetInitialSketch's result
  buf1, buf2,  \* states_buf1, states_buf2
  curIs1,      \* p_states_cur == &states_buf1 (p_states_next the other)
  blockQueue,  \* the blocks the BlockSampler can still hand out
  totalSteps,  \* total_steps of the random-pruned generator
  sIdx,        \* the for loop's position in *p_states_cur
  \* history, for the properties only:
  frontier     \* the generation the last block produced

T == INSTANCE StateTransfer

tvars == <<tpc, block, steps, pruneByRule, pruneProb, sampler, traversal,
           step, rule, layer, idx, newStates, retired>>
ovars == <<strategy, pc, result, buf1, buf2, curIs1, blockQueue, totalSteps, sIdx,
           frontier>>
vars == <<tvars, ovars>>

IsRulePrune == strategy = "rule_prune"
Cur == IF curIs1 THEN buf1 ELSE buf2
Nxt == IF curIs1 THEN buf2 ELSE buf1

\* Write the buffer p_states_next points at.
SetNxt(v) == IF curIs1 THEN buf2' = v /\ UNCHANGED buf1
             ELSE buf1' = v /\ UNCHANGED buf2

\* The blocks in the order the generator's BlockSampler is made with.
BlockOrder == IF IsRulePrune THEN Reverse(Blocks) ELSE Blocks

Init ==
  /\ strategy \in Strategies
  /\ pc = "generate"
  /\ result = <<>>
  /\ buf1 = <<>> /\ buf2 = <<>> /\ curIs1 = TRUE
  /\ blockQueue = BlockOrder /\ totalSteps = 0 /\ sIdx = 1
  /\ frontier = <<>>
  \* CollectStateTransfer not running yet
  /\ tpc = "returned" /\ block = Head(Blocks) /\ steps = 0
  /\ pruneByRule = IsRulePrune /\ pruneProb = 1 /\ sampler = <<>>
  /\ traversal = IsRulePrune /\ step = 0 /\ rule = Head(InitRules)
  /\ layer = <<>> /\ idx = 1 /\ newStates = <<>> /\ retired = {}

-----------------------------------------------------------------------------
\* The strategy names GetInitialSketch knows.
Generators == {"rule_prune", "random_prune"}

\* GetRulePrunedInitialSketch / GetRandomPrunedInitialSketch start: the
\* lowered program as the one state of states_buf1, states_buf2 empty.
Generate ==
  /\ pc = "generate"
  /\ strategy \in Generators
  /\ buf1' = <<T!InitialState>> /\ buf2' = <<>> /\ curIs1' = TRUE
  /\ blockQueue' = BlockOrder
  /\ totalSteps' = 0
  /\ frontier' = <<T!InitialState>>
  /\ pc' = "blocks"
  /\ UNCHANGED <<strategy, result, sIdx, tvars>>

\* LOG(FATAL) << "Unimplemented init sketch strategy": the process dies.
UnknownStrategy ==
  /\ pc = "generate"
  /\ strategy \notin Generators
  /\ pc' = "fatal"
  /\ UNCHANGED <<strategy, result, buf1, buf2, curIs1, blockQueue, totalSteps,
                 sIdx, frontier, tvars>>

\* if (total_steps + steps > init_sketch_random_depth_) clamp steps.
ClampSteps(d) ==
  IF totalSteps + d > RandomDepth THEN RandomDepth - totalSteps ELSE d

\* The range-for over *p_states_cur starts at its first state.
ForStart == 1

\* The positions NextBlock() may hand out: the first remaining block for
\* the traversal sampler, any remaining one for the probabilistic sampler.
BlockPicks == IF IsRulePrune THEN {1} ELSE DOMAIN blockQueue

\* The while condition: NextBlock() is called first; the loop goes on
\* when it returned a block and (random-pruned) the budget is not spent.
\* The random-pruned generator then draws steps from
\* uniform_int_distribution(0, init_rules.size()).  The next buffer is
\* cleared for the new generation.
NextBlock ==
  /\ pc = "blocks"
  /\ blockQueue # <<>>
  /\ \E i \in BlockPicks :
       /\ blockQueue' = RemoveAt(blockQueue, i)
       /\ IF IsRulePrune \/ totalSteps < RandomDepth
          THEN /\ block' = blockQueue[i]
               /\ \E d \in 0..Len(InitRules) :
                    /\ steps' = IF IsRulePrune THEN 0 ELSE ClampSteps(d)
                    /\ totalSteps' = IF IsRulePrune THEN totalSteps
                                     ELSE totalSteps + ClampSteps(d)
               /\ SetNxt(<<>>)
               /\ sIdx' = ForStart
               /\ pc' = "states"
          ELSE /\ pc' = "return"
               /\ UNCHANGED <<block, steps, totalSteps, buf1, buf2, sIdx>>
  /\ UNCHANGED <<strategy, result, curIs1, frontier, tpc, pruneByRule, pruneProb,
                 sampler, traversal, step, rule, layer, idx, newStates,
                 retired>>

\* The BlockSampler returned "": the loop ends.
NoMoreBlocks ==
  /\ pc = "blocks"
  /\ blockQueue = <<>>
  /\ pc' = "return"
  /\ UNCHANGED <<strategy, result, buf1, buf2, curIs1, blockQueue, totalSteps, sIdx,
                 frontier, tvars>>

\* for (state : *p_states_cur): CollectStateTransfer with a fresh
\* RuleSampler, or, past the last state, std::swap(p_states_cur,
\* p_states_next).
ForState ==
  /\ pc = "states"
  /\ IF sIdx <= Len(Cur)
     THEN /\ T!Call(Cur[sIdx], block, IsRulePrune,
                    steps, IsRulePrune, 1)
          /\ pc' = "transfer"
          /\ UNCHANGED <<curIs1, frontier>>
     ELSE /\ curIs1' = ~curIs1
          /\ frontier' = Nxt
          /\ pc' = "blocks"
          /\ UNCHANGED tvars
  /\ UNCHANGED <<strategy, result, buf1, buf2, blockQueue, totalSteps, sIdx>>

\* A step of the running CollectStateTransfer.
Transfer ==
  /\ pc = "transfer"
  /\ T!TransferNext
  /\ UNCHANGED ovars

\* CollectStateTransfer returned: its layer is appended to *p_states_next.
TransferReturned ==
  /\ pc = "transfer"
  /\ tpc = "returned"
  /\ SetNxt(Nxt \o layer)
  /\ sIdx' = sIdx + 1
  /\ pc' = "states"
  /\ UNCHANGED <<strategy, result, curIs1, blockQueue, totalSteps, frontier,
                 tvars>>

\* return *p_states_next;
Returned == Nxt

\* result.size() < num and result.size() == num compare a size_t with the
\* int num, converted to size_t: a negative num becomes at least
\* 2^64 - 2^31, above any size a vector reaches.
SizeLess(size, num) == num < 0 \/ size < num

\* Mutant: the for loop pushes every returned sketch, without the break.
TakenNoBreak(got) == got

\* The sketches the for loop pushes, last-first, before result.size() ==
\* num breaks it: all of them when num is negative.
Taken(got) ==
  IF Num < 0 THEN got ELSE SubSeq(got, 1, Min({Len(got), Num - Len(result)}))

\* GetInitialSketch takes the returned sketches last-first until it has
\* num, and calls the generator again while it has fewer.
Gather ==
  /\ pc = "return"
  /\ result' = result \o Taken(Reverse(Returned))
  /\ pc' = IF SizeLess(Len(result'), Num) THEN "generate" ELSE "done"
  /\ UNCHANGED <<strategy, buf1, buf2, curIs1, blockQueue, totalSteps,
                 sIdx, frontier, tvars>>

NextStep ==
  \/ Generate
  \/ UnknownStrategy
  \/ NextBlock
  \/ NoMoreBlocks
  \/ ForState
  \/ Transfer
  \/ TransferReturned
  \/ Gather

\* One thread runs GetInitialSketch; nothing in it waits.
Spec == Init /\ [][NextStep]_vars /\ WF_vars(NextStep)

-----------------------------------------------------------------------------
(* Properties                                                              *)

\* Every state the thread holds: both buffers and the running transfer.
Held == ToSet(buf1) \cup ToSet(buf2) \cup ToSet(layer) \cup ToSet(newStates)

\* When a generator returns, what it returns is the frontier its last
\* block produced ("replaces the frontier with the union of successors"
\* and returns it), not an older generation.
ReturnsFinalFrontier == pc = "return" => Returned = frontier

\* No state of the random-pruned generator carries more rewrites than
\* init_sketch_random_depth_: the mutation steps drawn per block are
\* bounded by the remaining depth budget.
RandomRewritesWithinDepth ==
  \A s \in Held : Len(s.applied) <= RandomDepth

\* GetInitialSketch(num, strategy) returns exactly num sketches, however
\* many each generator call returns (spec section 8: "GetInitialSketch(3,
\* \"rule_prune\") ... returns exactly 3 states").
GetInitialSketchReturnsNum == pc = "done" => Len(result) = Num

\* GetInitialSketch returns.
GetInitialSketchTerminates == <>(pc = "done")
=============================================================================
