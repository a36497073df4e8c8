--------------------------- MODULE MC_AssertTrueOp ---------------------------
(* assert_true over two shapes and two dtypes, nodes of up to three inputs. *)
EXTENDS AssertTrueOp

CONSTANTS S1, S2, Bool, Float32

MC_Shapes == {S1, S2}
MC_Types == {Bool, Float32}
=============================================================================
