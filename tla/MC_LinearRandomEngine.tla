----------------------- MODULE MC_LinearRandomEngine -----------------------
(* The engine with the constants of LinearRandomEngine and ForkState.      *)
EXTENDS LinearRandomEngine

MC_Modulus == 2147483647
MC_ForkModulus == 1999999973

\* Seeds that reach every branch of NormalizeState: the device sentinel -1,
\* 0, the modulus itself (reduced to 0), an ordinary seed, and the seed
\* whose next state is 1999999973, from which ForkState returns 0.
MC_Seeds == {-1, 0, 42, 2147483647, 1305499371}

\* A negative seed other than -1 (e.g. a negated flag value).
MC_SeedsNegative == MC_Seeds \cup {-5}

\* random_device()() % modulus: 0 and the extremes of the range.
MC_DeviceRandomValues == {0, 1, 2147483646}

\* Schrage's product agrees with the direct product on small inputs.
ASSUME MulModCorrect
=============================================================================
