# TLA+ models of CINN's auto-schedule search space, random engine and assert_true op

This directory holds TLA+ models of three parts of the repository:

- the random engine `cinn::utils::LinearRandomEngine` (`src/unnamed/part_000`);
- the sketch generation and mutation of `cinn::auto_schedule::SearchSpace` (`src/unnamed/part_001`, the `search_space.cc` code);
- the `assert_true` operator (`src/cinn/hlir/op/contrib/assert_true.cc`): its registration, inference functions and compute.

Each is checked with TLC. `PROJECT.json` lists the components, runs, mutants, the map from each definition to its source lines, the findings and the hazards.

## 1. The system

| Part | Source | State | Operations |
|---|---|---|---|
| LinearRandomEngine | part_000:25-86 | a caller-owned `int64` cell | `InitState` (through `NormalizeState`), `Next`/`operator()`, `ForkState`, `ForkRandomState` |
| SearchSpace constructor | part_001:42-50 | `sketch_rules_`: AutoInline, MultiLevelTiling, AutoUnroll, SkipRule | — |
| GetRandomInitialSketch | part_001:52-80 | `result`, the sketch being mutated, the depth index | builds `num` sketches, each mutated up to `init_sketch_random_depth_` times |
| RandomScheduleMutate | part_001:101-146 | `ret->applicable_rules`, `weight_to_rule`, `cur_weight` | scans the rules, then samples and applies one |
| GetScheduleMutate / ManualScheduleMutate | part_001:82-99 | the caller's state and its `predicted_cost` | forward to RandomScheduleMutate (the manual branch is dead: `has_manual_schedule` is false); set `predicted_cost` from the cost model when the flag is on |
| CollectStateTransfer / CheckBlockExist | part_001:248-310 | `layer`, `new_states`, `step`, the RuleSampler | expands one state on one block, rule by rule |
| GetRulePrunedInitialSketch / GetRandomPrunedInitialSketch | part_001:148-216 | two buffers behind `p_states_cur` and `p_states_next`, `total_steps`, the BlockSampler | walk the blocks; expand every state of a generation into the next; swap |
| GetInitialSketch | part_001:218-246 | `result` | calls a generator until it holds `num` sketches |
| BlockSampler / RuleSampler | not under src/ (spec §4.2) | the items still to hand out | `Make`, `NextBlock` / `NextRule` |
| assert_true op | assert_true.cc:39-89 | the op table entry; a node's inputs, inferred shapes and dtypes; the strategy; the compute's result | registration, InferShape, InferDtype, StrategyForAssertTrue and its compute lambda |

More on the search space:

- **Single thread.** The search space runs on a single tuning thread. No two of its operations interleave.
- **Branching comes from the rules and the random draws.** The hard behaviour is in how the code reacts to what the rules answer (apply types, counts, fan-out) and to the random draws:
  - iterator updates while erasing from a list;
  - a `std::map` lookup at its end;
  - a double buffer swapped in a loop;
  - a depth budget shared between two loops;
  - loops whose termination depends on a sampler or on a generator's output.
- **Rules are inputs.** The rules (AutoGenRule) and the IR are external. A program is abstracted to the list of rewrites applied to it and the set of blocks it still has. An inlining rule removes its block.

## 2. Modules

| Module | Models | State ↔ code |
|---|---|---|
| `LinearRandomEngine` | the engine | `cell` = `*state_`; `aborted` = `CHECK_GE` failed; `forked` = the last child seed |
| `ScheduleMutate` | GetRandomInitialSketch + RandomScheduleMutate + GetScheduleMutate | `sketch` = [applied, rules, cost]; `iter`; `weightToRule`; `curWeight`; `pc` is the loop position; `caller` says whether the mutation runs for the sketch loop or for GetScheduleMutate; `mutations` counts the GetScheduleMutate calls |
| `StateTransfer` | CollectStateTransfer + CheckBlockExist | `layer`, `idx` (the list iterator), `newStates`, `sampler`, `step`, `steps` |
| `LayeredExpansion` | what CollectStateTransfer promises | `live` (a set of states), `target`, `returned`; one `Expand` step per rule application |
| `PrunedSketch` | both pruned generators + GetInitialSketch | `strategy` (the argument, chosen in Init; a name other than the two generators takes the `LOG(FATAL)` branch), `buf1`, `buf2`, `curIs1` (which buffer is current), `blockQueue`, `totalSteps`, `sIdx`; it composes `StateTransfer` by `INSTANCE` |
| `AssertTrueOp` | assert_true.cc | `entry` (the op table entry), `node`, `outShapes`, `outTypes`, `strategy`, `args`, `ret`; `pc` is the compiler's pipeline position |
| `MC_*` | instantiations for TLC | model values for rules and blocks |

Notes on the modules:

- **Engine arithmetic.** The engine runs with its real constants. TLC integers are 32-bit, so the int64 products are computed by `MulMod`, Schrage's overflow-free modular product (exact for both multiplier/modulus pairs of the code). C++ `%` on negative numbers is `CRem`.
- **The `lower_bound` end() case.** `ScheduleMutate` models the lookup exactly, including what libstdc++ does when `lower_bound` returns `end()`:
  - `end()->first` is the map's node count.
  - If that count exceeds the sample, `--end()` is the last entry.
  - Otherwise the rule pointer is garbage, and the model moves to `crashed`.
- **Rule answers are inputs.** The Init answer of a rule is chosen with `\E`, as are AnalyseApplyType, the number of successors, and the prune draw.
- **Samplers.** The samplers are modelled from the spec:
  - "traversal" hands the items out in order;
  - "probabilistic" hands out any remaining item, without replacement.
  - This is the `RulePicks`/`Remaining` step of `StateTransfer` and the `BlockPicks` step of `PrunedSketch`. No property is checked of the samplers themselves: their code is not in `src/`, and a check of the spec's sampler against the spec would say nothing about this repository. That the sampler never repeats a rule is an assumption `TransferTerminates` depends on.
- **NumberApplicable.** A rule that can apply answers `NumberApplicable()` in `MinApplicable..MaxApplicable`. With 0, two rules can share a `weight_to_rule` key (the later assignment wins), and if every entered rule answers 0, `rand() % cur_weight` divides by zero (`Sample` moves to `crashed`).
- **`int num` against `size_t`.** `result.size() < num` and `result.size() == num` convert the `int` to `size_t`. `SizeLess` and `Taken` model this: a negative `num` never stops the loops.
- **GetScheduleMutate.** After GetRandomInitialSketch returns, the caller may call GetScheduleMutate on a returned sketch (`GetScheduleMutate`), and may score a returned sketch with the cost model (`Evaluate`, from the spec: the evolutionary search is not under `src/`). `WithCost` is the `if (FLAGS_auto_schedule_use_cost_model)` refresh of `predicted_cost` after the mutation. A cost is abstracted to the program it was predicted for.
- **Refinement.** `StateTransfer` implements `LayeredExpansion` under the mapping `live <- ToSet(layer) \cup ToSet(newStates)`, `target <- block`, `returned <- (tpc = "returned")`. The erase/splice bookkeeping, the iterator and the sampler are all hidden; what is left is "expand a live state that has the block, maybe prune it, and eventually return".
- **assert_true.** The framework that drives the op is not in this file. `BuildNode` makes a node with any number of inputs up to `MaxInputs` (the framework does not enforce `set_num_inputs`). `Compute` is called with no argument or with one pack of the node's inputs; a failed `CHECK` is the state `aborted`. A tensor is abstracted to its shape and dtype, and `pe::Identity(b)` to `b`.
- **History variables.** `retired`, `frontier`, `verdict`, `roundRules` and `lastPick` are written only for the properties.

## 3. Runs

| Run | Expect | Checks |
|---|---|---|
| engine | pass | `TypeOK`, `StateInRange` (cell in [1, 2^31-2] after InitState); `MulModCorrect` is an ASSUME of `MC_LinearRandomEngine`, checked by TLC before the run |
| engine_negseed | violation | `NeverAborts`: a seed < -1 aborts in `CHECK_GE` |
| mutate | pass | `TypeOK`, `ScanOutcome` (the rule list after a scan is exactly what erase/clear/break leave), `SampledPairValid` (an applied (rule, index) is the one whose weight interval holds the draw), `Termination` |
| mutate_end | violation | `NeverCrashes`: the end() dereference (with `MinApplicable = 1`; with 0 the shortest trace is the division by zero) |
| mutate_cost | violation | `CostOfOwnProgram`: with the cost-model flag off, a mutated state keeps its parent's `predicted_cost` |
| transfer | pass | `TypeOK`, `RetiredStatesGone`, `NoRewriteOfRemovedBlock`, `TransferTerminates`, `RefinesLayeredExpansion` (StateTransfer implements LayeredExpansion) |
| pruned | pass | `GetInitialSketchReturnsNum` (exactly `num` sketches, however many each generator call returns), over both strategies and an unknown one |
| pruned_depth | violation | `RandomRewritesWithinDepth`: steps = 0 is unbounded |
| pruned_stale | violation | `ReturnsFinalFrontier`: the generators return the generation before the last |
| pruned_livelock | violation | `GetInitialSketchTerminates`: an empty generator result loops forever |
| assert_true_arity | violation | `NumInputsHonoured`: a node with the registered one input aborts in the compute |
| assert_true_infer | violation | `InferenceMatchesCompute`: the inferred output is input 0's, the computed one is input 1's |

### Findings

1. **Negative seed (spec–code divergence).** The spec says out-of-range seeds are corrected. The code keeps the sign of a negative seed under C++ `%` and then aborts.
2. **Crash in RandomScheduleMutate (code bug).** TLC's shortest trace: the first rule, AutoInline, answers kApplyAndSkipAllRules with NumberApplicable 2, so `weight_to_rule` is {0: AutoInline}, and the draw is 1. `lower_bound` returns `end()`, and the map holds one node, so `end()->first` is 1, which is not greater than the draw. The code then applies a garbage rule pointer.
3. **Stale generation returned (code bug).** `return *p_states_next` after the final swap returns the generation before the last block's. With one block, the result is the unmodified program.
4. **Depth budget overrun (code bug).** Random pruning can draw `steps = 0`, which CollectStateTransfer reads as "no limit". The sketch then gets more rewrites than `init_sketch_random_depth_`.
5. **Livelock in GetInitialSketch (code bug).** The rule-pruned generator is deterministic, so once it returns nothing it always returns nothing, and GetInitialSketch loops forever. It returns nothing when the generation it returns was fully pruned, or when the program has no block.

6. **assert_true aborts on its registered arity (code bug).** The op is registered with `set_num_inputs(1)`, but the compute lambda does `CHECK_GE(pack_args.size(), 2U)`. A node built with one input and lowered with its inputs packed aborts.
7. **assert_true inference disagrees with its compute (code bug).** InferShape and InferDtype return the input shapes and dtypes (output 0 is input 0's), while the compute returns `pe::Identity(b)`, a copy of the second input. With inputs of different dtypes or shapes (TLC's trace: a Bool input a and a Float32 input b), the output the compiler was told about is not the one computed.

8. **Stale predicted cost (spec–code divergence).** With `FLAGS_auto_schedule_use_cost_model` off, the state GetScheduleMutate returns keeps its parent's `predicted_cost` (copied by `SearchState ret(state)`), although its program changed. The spec says `predicted_cost` is the state's own score or NOT_INIT_COST ("not yet evaluated"). Trace: a sketch is returned, the caller scores it, GetScheduleMutate applies a rule to it, and the returned state carries the score of the unmutated program. With the flag on, line 91 refreshes the cost; that case is not a run, because the property would only restate line 91.

Each property of a passing run has a mutant in `PROJECT.json`: a plausible bug in the mapped code that the property catches.

## 4. Bounds

| Module | Bounds | Why they are enough |
|---|---|---|
| Engine | `MaxDraws = 12`; seeds {-1, 0, 42, 2^31-1, 1305499371}; device values {0, 1, 2^31-2} | These cover the -1, 0 and modulus corrections, and a fork that returns 0 |
| ScheduleMutate | the four registered rules; `NumberApplicable` in 0..2 (1..2 in `mutate_end`); depth 1 (2 in `mutate_end`); `num = 1`; one GetScheduleMutate | Weights 0, 1 and 2 give shared keys and offsets above and below the node count, which decides the end() case. The GetScheduleMutate call runs a second round on the rule list the first round left, so depth 1 still covers a scan of a reduced list (502,129 states, about 40 s) |
| StateTransfer | 2 blocks; 3 rules (one inlining); fan-out up to 2 | Covers erase followed by splice, skipped states, and both call sites (24,788 states) |
| AssertTrueOp | 2 shapes; 2 dtypes; up to 3 inputs | 0, 1, 2 and 3 inputs cover every CHECK outcome; two shapes and two dtypes tell input 0 from input 1. Only violation runs use this module |
| PrunedSketch | both strategies and one unknown name; 2 blocks; 2 rules; fan-out 1; depth 2; `num = 2` | Two blocks make the swap, the block order and the budget clamp observable, and `num = 2` makes GetInitialSketch call the generator again (55,292 states). Fan-out 2 does not finish in 10 minutes |

## 5. Fairness

- Every spec is one sequential thread that never waits, so weak fairness on its next-state relation is justified: the thread keeps running until it returns.
- The engine has no liveness property and no fairness.
- Runs that end in a returned procedure use `CHECK_DEADLOCK FALSE`, because the thread really stops there.

## 6. Not modelled

- **ManualScheduleMutate.** `has_manual_schedule` is constantly false, so the branch is unreachable. The cost model itself is external: a prediction is abstracted to the program it scores.
- **SearchState aliasing.** `SearchState ret(state)` copies a SearchState. If that copy shares the underlying object, RandomScheduleMutate also mutates the caller's state. SearchState's definition is not under `src/`, and the spec (§3, §5) says copies are copy-on-write. The models therefore treat states as values, and the question stays open as a hazard (part_001:108).
- **The samplers.** Only the use the search space makes of them is modelled (`RulePicks`, `BlockPicks`), from the spec, because the sampler code is not in `src/`.
- **Reproducibility.** `std::random_device` seeding is listed as a hazard. Draws are nondeterministic in every model. Reproducibility compares two runs, so it is not a property of a single behaviour.
- **A negative `num`.** It is modelled (`SizeLess`), but no run uses it: `result` then grows without bound and the state space is infinite.
- **The Make failure of a sampler** on an unknown strategy name. It is unreachable: part_001 passes only the literals "traversal" and "probabilistic".
- **The operator framework.** `OpRegistry`, `OpStrategy`, the lowering and the elementwise schedule are not in `src/`. The order of the pipeline steps in `AssertTrueOp` is the order the graph compiler uses them.
- **AutoGenRule implementations and the IR schedule.** They are not in `src/`. Their answers (apply type, `NumberApplicable`, successor counts, the blocks a rewrite removes) are inputs chosen with `\E`.

Every operation in `src/` that changes state is an action of some module. What is left open above depends on code that is not in `src/` (SearchState, the samplers, the rules), or on a comparison of two runs. Neither can be decided faithfully from this repository.
