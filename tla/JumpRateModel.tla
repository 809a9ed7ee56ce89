--------------------------- MODULE JumpRateModel ---------------------------
(***************************************************************************)
(* The interest rate model: the yearly rates of a market as a function of  *)
(* its cash, loans and reserves (jump-rate-model/src/lib.rs). Saturation   *)
(* of u128 is left out.                                                    *)
(***************************************************************************)
EXTENDS Integers

CONSTANTS
    Scale,      \* SCALE_1E6
    MaxParam    \* what initialize and set_params allow a rate to be

\* What the admin may set: initialize and set_params refuse anything else.
Params == [base : 0..MaxParam, multiplier : 0..MaxParam, jump : 0..MaxParam, kink : 0..Scale]

Least(a, b) == IF a <= b THEN a ELSE b

\* get_borrow_rate panics on reserves beyond what there is.
Answers(cash, borrows, reserves) == borrows = 0 \/ reserves <= cash + borrows

Utilization(cash, borrows, reserves) ==
    IF borrows = 0 \/ cash + borrows = reserves THEN 0
    ELSE Least((borrows * Scale) \div (cash + borrows - reserves), Scale)

\* What a slope charges for a stretch of utilization.
Slope(stretch, rate) == (stretch * rate) \div Scale

RateAt(p, util) ==
    IF util <= p.kink THEN p.base + Slope(util, p.multiplier)
    ELSE p.base + Slope(p.kink, p.multiplier) + Slope(util - p.kink, p.jump)

BorrowRate(p, cash, borrows, reserves) == RateAt(p, Utilization(cash, borrows, reserves))

SupplyRate(p, cash, borrows, reserves, reserveFactor) ==
    LET toPool == (BorrowRate(p, cash, borrows, reserves) * (Scale - reserveFactor)) \div Scale
    IN (Utilization(cash, borrows, reserves) * toPool) \div Scale

=============================================================================
