---------------------------- MODULE AssertTrueOp ----------------------------
(***************************************************************************)
(* The assert_true operator (src/cinn/hlir/op/contrib/assert_true.cc): its *)
(* registration in the operator table, the shape and dtype inference      *)
(* functions, and StrategyForAssertTrue with its compute lambda.           *)
(*                                                                         *)
(* The framework that drives these functions is not in this file.  One    *)
(* node of the op goes through them in the order the graph compiler uses  *)
(* them: infershape and inferdtype when the graph is built, the strategy  *)
(* and its compute when the node is lowered.  The node's inputs are any   *)
(* sequence of tensors up to MaxInputs long, and the compute receives      *)
(* either no argument or one pack holding the node's input tensors.  A    *)
(* tensor is abstracted to its shape and dtype.                            *)
(***************************************************************************)
EXTENDS Integers, Sequences

CONSTANTS
  Shapes,      \* shapes an input tensor may have
  Types,       \* dtypes an input tensor may have
  MaxInputs    \* bound on the number of inputs a node is built with

ASSUME MaxInputs \in Nat

Tensors == [shape : Shapes, dtype : Types]

VARIABLES
  pc,          \* where the node is in the compiler's pipeline
  entry,       \* the operator table entry of assert_true (or NoEntry)
  node,        \* the node's input tensors
  outShapes,   \* what infershape returned
  outTypes,    \* what inferdtype returned
  strategy,    \* the schedules of the OpStrategy StrategyForAssertTrue built
  args,        \* the lang::Args the compute lambda was called with
  ret          \* *ret: the CINNValuePack the compute lambda returned

vars == <<pc, entry, node, outShapes, outTypes, strategy, args, ret>>

NoEntry == [numInputs |-> 0, numOutputs |-> 0]

\* CINN_REGISTER_OP(assert_true) and its attribute chain; the op pattern,
\* support level and the inference functions it names are constant and
\* left out of the entry.
AssertTrueEntry == [numInputs |-> 1, numOutputs |-> 1]

\* InferShapeForAssertTrue: the output shapes are the input shapes.
InferShape(ins) == [i \in DOMAIN ins |-> ins[i].shape]

\* InferDtypeForAssertTrue: the output dtypes are the input dtypes.
InferDtype(ins) == [i \in DOMAIN ins |-> ins[i].dtype]

\* pe::Identity(b, "assert_true_out"): a tensor of b's shape and dtype.
Identity(b) == b

Init ==
  /\ pc = "unregistered"
  /\ entry = NoEntry
  /\ node = <<>>
  /\ outShapes = <<>>
  /\ outTypes = <<>>
  /\ strategy = <<>>
  /\ args = <<>>
  /\ ret = <<>>

\* CINN_REGISTER_HELPER(assert_true_ops): the entry is made once, at
\* static initialisation.
Register ==
  /\ pc = "unregistered"
  /\ entry' = AssertTrueEntry
  /\ pc' = "registered"
  /\ UNCHANGED <<node, outShapes, outTypes, strategy, args, ret>>

\* A graph node of assert_true is built with some inputs.
BuildNode ==
  /\ pc = "registered"
  /\ \E n \in 0..MaxInputs : \E ins \in [1..n -> Tensors] : node' = ins
  /\ pc' = "built"
  /\ UNCHANGED <<entry, outShapes, outTypes, strategy, args, ret>>

\* The "infershape" attribute is applied to the node's input shapes.
InferShapeStep ==
  /\ pc = "built"
  /\ outShapes' = InferShape(node)
  /\ pc' = "shaped"
  /\ UNCHANGED <<entry, node, outTypes, strategy, args, ret>>

\* The "inferdtype" attribute is applied to the node's input dtypes.
InferDtypeStep ==
  /\ pc = "shaped"
  /\ outTypes' = InferDtype(node)
  /\ pc' = "typed"
  /\ UNCHANGED <<entry, node, outShapes, strategy, args, ret>>

\* StrategyForAssertTrue: one implementation, the compute lambda with the
\* elementwise schedule of output_shapes (its name and priority are
\* constants and left out).
SelectStrategy ==
  /\ pc = "typed"
  /\ strategy' = <<outShapes>>
  /\ pc' = "lowering"
  /\ UNCHANGED <<entry, node, outShapes, outTypes, args, ret>>

\* The compute lambda: CHECK(!args.empty()), pack_args = args[0],
\* CHECK_GE(pack_args.size(), 2), then the output is Identity of the
\* second tensor b (a, the first, is read but not used) and the result is
\* the pack {out, stages}.  A failed CHECK aborts the process.
Compute ==
  /\ pc = "lowering"
  /\ \E a \in {<<>>, <<node>>} :
       /\ args' = a
       /\ IF a = <<>> \/ Len(a[1]) < 2
          THEN /\ pc' = "aborted"
               /\ UNCHANGED ret
          ELSE /\ ret' = <<Identity(a[1][2]), "stages">>
               /\ pc' = "done"
  /\ UNCHANGED <<entry, node, outShapes, outTypes, strategy>>

Next ==
  \/ Register
  \/ BuildNode
  \/ InferShapeStep
  \/ InferDtypeStep
  \/ SelectStrategy
  \/ Compute

\* The node is lowered once; the pipeline stops in "done" or "aborted".
Spec == Init /\ [][Next]_vars

-----------------------------------------------------------------------------
(* Properties                                                              *)

\* A node built with the number of inputs the operator is registered with
\* (set_num_inputs) and lowered with its inputs packed is computed without
\* a fatal CHECK in the compute lambda.
NumInputsHonoured ==
  (pc = "aborted" /\ args # <<>>) => Len(node) # entry.numInputs

\* What the compiler was told about the op's output describes what the
\* compute produces: output 0 of infershape and inferdtype has the shape
\* and dtype of the tensor the compute lambda returns.
InferenceMatchesCompute ==
  pc = "done" =>
    /\ outShapes[1] = ret[1].shape
    /\ outTypes[1] = ret[1].dtype
=============================================================================
