-------------------------- MODULE LayeredExpansion --------------------------
(***************************************************************************)
(* What CollectStateTransfer promises (spec section 4.5), with no lists,  *)
(* iterators, turns or samplers: a set of live states, initially the one  *)
(* state it is called on.  A step expands one live state that still has   *)
(* the target block: the rule's successors on that block join the live    *)
(* set, and the state itself may be pruned.  States lacking the block are *)
(* never expanded nor removed.  The call eventually returns the live set. *)
(***************************************************************************)
EXTENDS Integers, Sequences

CONSTANTS
  BlockSet,       \* the blocks of the program
  RuleSet,        \* the rules the sampler can hand out
  InliningRules,  \* the rules whose rewrite removes the block
  MaxFanout,      \* bound on the successors of one application
  Origin          \* the state the call is made on

VARIABLES
  live,           \* the live states
  target,         \* the block the call is restricted to
  returned        \* the call has returned live

avars == <<live, target, returned>>

\* The j-th state a rewrite by rule r restricted to block b makes of s.
Child(s, r, b, j) ==
  [applied |-> Append(s.applied, <<r, b, j>>),
   blocks  |-> IF r \in InliningRules THEN s.blocks \ {b} ELSE s.blocks]

Init ==
  /\ live = {Origin}
  /\ target \in BlockSet
  /\ returned = FALSE

\* A live state with the target block is rewritten by one rule into up to
\* MaxFanout successors, and is pruned or kept.
Expand(s) ==
  /\ ~returned
  /\ s \in live
  /\ target \in s.blocks
  /\ \E r \in RuleSet, k \in 0..MaxFanout, prune \in BOOLEAN :
       live' = (IF prune THEN live \ {s} ELSE live)
                 \cup {Child(s, r, target, j) : j \in 1..k}
  /\ UNCHANGED <<target, returned>>

\* The call returns.
Return ==
  /\ ~returned
  /\ returned' = TRUE
  /\ UNCHANGED <<live, target>>

Next == (\E s \in live : Expand(s)) \/ Return

\* The call always returns.
Spec == Init /\ [][Next]_avars /\ WF_avars(Return)
=============================================================================
