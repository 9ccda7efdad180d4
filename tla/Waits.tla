------------------------------- MODULE Waits --------------------------------
(***************************************************************************)
(* The waits between the attempts of a job, twice: computeBackoff of       *)
(* reminder.worker.ts, and the loop body of mc_wait_sums in                *)
(* experiments/analyze.py, which the study calls a replica of it.          *)
(*                                                                         *)
(* A random number is any of the Grid fractions u / Grid, 0 <= u < Grid,   *)
(* and waits are whole milliseconds, so a floor is \div; the memory of the *)
(* decorrelated strategy, a real number in the code, is kept in units of   *)
(* 1 / Grid ms, rounded down.                                              *)
(***************************************************************************)
EXTENDS Integers

CONSTANTS
  Base, Cap,    \* REMINDER_BACKOFF_BASE_MS, REMINDER_BACKOFF_CAP_MS
  Grid          \* resolution of the random numbers

ASSUME WaitsAssumption ==
  /\ Base \in Nat \ {0} /\ Cap \in Nat /\ Base <= Cap
  /\ Grid \in Nat \ {0}

Strategies == {"none", "fixed", "exp", "equal_jitter", "decorrelated", "full_jitter"}

LesserOf(a, b) == IF a < b THEN a ELSE b
GreaterOf(a, b) == IF a > b THEN a ELSE b

Pow2[n \in Nat] == IF n = 0 THEN 1 ELSE 2 * Pow2[n - 1]

\* Mutant: the first retry already waits for twice the base.
ExpShifted(n) == LesserOf(Cap, Base * Pow2[n])

\* The capped exponential; n counts from 1.
Exp(n) == LesserOf(Cap, Base * Pow2[n - 1])

\* Mutant: the draw ranges from 0 and not from the base.
DrawFromZero(u, p) == LesserOf(Cap * Grid, (u * 3 * p) \div Grid)

\* The decorrelated draw, in units of 1 / Grid, for a remembered wait p.
Draw(u, p) ==
  LesserOf(Cap * Grid, Base * Grid + (u * GreaterOf(0, 3 * p - Base * Grid)) \div Grid)

FullJitter(e, u)  == (u * e) \div Grid
EqualJitter(e, u) == (e * Grid + u * e) \div (2 * Grid)

\* The switch of computeBackoff: the wait after failure n, for the random number
\* u and the remembered wait p.
ComputeBackoff(s, n, u, p) ==
  CASE s = "none"         -> 0
    [] s = "fixed"        -> Base
    [] s = "exp"          -> Exp(n)
    [] s = "equal_jitter" -> EqualJitter(Exp(n), u)
    [] s = "decorrelated" -> Draw(u, p) \div Grid
    [] OTHER              -> FullJitter(Exp(n), u)

-----------------------------------------------------------------------------

\* The replica's e and d, from its own formulas.
ReplicaExp(n) == LesserOf(Cap, Base * Pow2[n - 1])
ReplicaDraw(u, p) ==
  LesserOf(Cap * Grid, Base * Grid + (u * GreaterOf(0, p * 3 - Base * Grid)) \div Grid)

\* One pass of the replica's loop.
ReplicaWait(s, n, u, p) ==
  LET e == ReplicaExp(n) IN
  CASE s = "none"         -> 0
    [] s = "fixed"        -> Base
    [] s = "exp"          -> e
    [] s = "equal_jitter" -> (e * Grid + u * e) \div (2 * Grid)
    [] s = "decorrelated" -> ReplicaDraw(u, p) \div Grid
    [] OTHER              -> (u * e) \div Grid

\* Sums over the first n waits of the capped exponential and of its half.
ExpSum[n \in Nat]   == IF n = 0 THEN 0 ELSE ExpSum[n - 1] + ReplicaExp(n)
FloorSum[n \in Nat] == IF n = 0 THEN 0 ELSE FloorSum[n - 1] + ReplicaExp(n) \div 2

-----------------------------------------------------------------------------

\* For the properties, not of the code: what the waits of a schedule with a given
\* number of attempts sum to at least, whatever is drawn.
GuaranteedSum(s, budget) ==
  CASE s \in {"fixed", "decorrelated"} -> (budget - 1) * Base
    [] s = "exp"                       -> ExpSum[budget - 1]
    [] s = "equal_jitter"              -> FloorSum[budget - 1]
    [] OTHER                           -> 0
=============================================================================
