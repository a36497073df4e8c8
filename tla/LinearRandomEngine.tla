------------------------- MODULE LinearRandomEngine -------------------------
(***************************************************************************)
(* cinn::utils::LinearRandomEngine (src/unnamed/part_000): a Park-Miller   *)
(* linear congruential generator that does not own its state.  It is bound *)
(* to an int64 cell owned by the caller; InitState normalises a seed into  *)
(* the cell, Next advances the cell, ForkState advances the cell once and  *)
(* derives a child seed from the new value.                                *)
(*                                                                         *)
(* TLC integers are 32 bits wide, so the products of the C++ code          *)
(* (cell * 48271 < 2^47, next * 32767 < 2^46, both exact in int64) are     *)
(* computed by MulMod, Schrage's overflow-free modular product.           *)
(* This lets the model run with the real constants.                        *)
(***************************************************************************)
EXTENDS Integers

CONSTANTS
  Multiplier,          \* LinearRandomEngine::multiplier (48271)
  Increment,           \* LinearRandomEngine::increment  (0)
  Modulus,             \* LinearRandomEngine::modulus    (2^31 - 1)
  ForkMultiplier,      \* the 32767 of ForkState
  ForkModulus,         \* the 1999999973 of ForkState
  Seeds,               \* seeds a caller may pass to InitState
  DeviceRandomValues,  \* values std::random_device()() % modulus can take
  MaxDraws             \* bound on the number of Next/ForkState calls

ASSUME /\ Modulus \in 2..2147483647
       /\ Increment \in 0..(Modulus - 1)
       /\ Multiplier \in 1..(Modulus - 1)
       /\ ForkModulus \in 2..Modulus
       /\ ForkMultiplier \in 1..(ForkModulus - 1)
       /\ DeviceRandomValues \subseteq 0..(Modulus - 1)
       /\ MaxDraws \in Nat

VARIABLES
  cell,       \* *state_, the caller-owned int64 seed cell
  inited,     \* InitState has stored a normalised seed in the cell
  draws,      \* number of Next/ForkState calls so far (bounded)
  forked,     \* the value the last ForkState returned (-1: none yet)
  aborted     \* CHECK_GE in NormalizeState failed: the process is dead

vars == <<cell, inited, draws, forked, aborted>>

-----------------------------------------------------------------------------
(* Arithmetic                                                              *)

\* x + y mod m for x, y in 0..m-1, never leaving 0..m-1.
AddMod(x, y, m) == IF x >= m - y THEN x - (m - y) ELSE x + y

\* Schrage's condition: a * b mod m can be formed for every a in 0..m-1
\* without an intermediate value leaving 32 bits.
Schrage(b, m) == b > 0 /\ m % b < m \div b

ASSUME Schrage(Multiplier, Modulus) /\ Schrage(ForkMultiplier, ForkModulus)

\* Mutant: the negative intermediate is not brought back into range.
MulModNoWrap(a, b, m) ==
  (b * (a % (m \div b))) - ((m % b) * (a \div (m \div b)))

\* a * b mod m for a in 0..m-1 by Schrage's decomposition m = b*q + r:
\* b*(a mod q) - r*(a div q) is a * b mod m, or that minus m.  Both
\* products stay below m, so it is exact in TLC for m < 2^31.
MulMod(a, b, m) ==
  LET q == m \div b
      r == m % b
      t == b * (a % q) - r * (a \div q)
  IN  IF t < 0 THEN t + m ELSE t

\* C++ '%' on int64: the remainder takes the sign of the dividend.
CRem(a, m) == IF a >= 0 THEN a % m ELSE -((-a) % m)

-----------------------------------------------------------------------------
(* LinearRandomEngine                                                      *)

\* Mutant: NormalizeState without the 'if (state == 0) state = 1' fix.
NormalizedStatesNoZeroFix(s) ==
  IF s = -1 THEN DeviceRandomValues ELSE {CRem(s, Modulus)}

\* NormalizeState(state): -1 draws from the device, anything else is
\* reduced with C++ '%'; 0 becomes 1.  The set of values it can return
\* (a set because of the device draw).
NormalizedStates(s) ==
  LET reduced == IF s = -1 THEN DeviceRandomValues ELSE {CRem(s, Modulus)}
  IN  {IF r = 0 THEN 1 ELSE r : r \in reduced}

\* Next(): *state_ = (increment + *state_ * multiplier) % modulus.
NextState(s) == AddMod(Increment, MulMod(s, Multiplier, Modulus), Modulus)

\* Mutant: the child seed reduced by the engine modulus instead.
ForkOfWrongModulus(next) == MulMod(next, ForkMultiplier, Modulus)

\* ForkState(): (Next() * 32767) % 1999999973, on the advanced state.
ForkOf(next) == MulMod(next % ForkModulus, ForkMultiplier, ForkModulus)

Init ==
  /\ cell = -1            \* the owner's cell before any InitState
  /\ inited = FALSE
  /\ draws = 0
  /\ forked = -1
  /\ aborted = FALSE

\* InitState(state): *state_ = NormalizeState(state); CHECK_GE(state, 0)
\* aborts the process on a negative normalised value.
InitState(s) ==
  /\ ~aborted
  /\ \E n \in NormalizedStates(s) :
       IF n >= 0
       THEN /\ cell' = n
            /\ inited' = TRUE
            /\ UNCHANGED <<draws, forked, aborted>>
       ELSE /\ aborted' = TRUE
            /\ UNCHANGED <<cell, inited, draws, forked>>

\* operator()() / Next(): advance the cell and return it.
Next ==
  /\ ~aborted /\ inited
  /\ draws < MaxDraws
  /\ cell' = NextState(cell)
  /\ draws' = draws + 1
  /\ UNCHANGED <<inited, forked, aborted>>

\* ForkState() / ForkRandomState(&seed): the parent cell moves to its next
\* state and the child seed is derived from that new state.
ForkState ==
  /\ ~aborted /\ inited
  /\ draws < MaxDraws
  /\ cell' = NextState(cell)
  /\ forked' = ForkOf(NextState(cell))
  /\ draws' = draws + 1
  /\ UNCHANGED <<inited, aborted>>

NextStep ==
  \/ \E s \in Seeds : InitState(s)
  \/ Next
  \/ ForkState

Spec == Init /\ [][NextStep]_vars

-----------------------------------------------------------------------------
(* Properties                                                              *)

\* Every variable holds a value of its type; a forked seed lies in
\* [0, 1999999973).
TypeOK ==
  /\ cell \in Int
  /\ inited \in BOOLEAN
  /\ draws \in 0..MaxDraws
  /\ forked \in -1..(ForkModulus - 1)
  /\ aborted \in BOOLEAN

\* Once InitState has run, the cell stays in [1, modulus-1] across every
\* InitState, Next and ForkState (the range NormalizeState promises and
\* the multiplicative recurrence must preserve: a 0 would be absorbing
\* and every later Next would return 0).
StateInRange == inited => cell \in 1..(Modulus - 1)

\* InitState never hits the fatal CHECK_GE of NormalizeState: every seed
\* is normalised into range ("values outside range are corrected").
NeverAborts == ~aborted

\* MulMod, the product Next and ForkState are computed with, agrees with
\* the direct product a * b % m on all small inputs it is used for.
MulModCorrect ==
  \A m \in 2..40 : \A b \in {c \in 1..(m - 1) : Schrage(c, m)} :
    \A a \in 0..(m - 1) : MulMod(a, b, m) = (a * b) % m
=============================================================================
