---------------------------- MODULE LiquityMath -----------------------------
(***************************************************************************)
(* LiquityMath.sol and LiquityBase.sol: collateral ratios and the system's *)
(* parameters.  A ratio is a fixed-point number of DECIMAL_PRECISION parts *)
(* and every division rounds down, as SafeMath's does.                     *)
(***************************************************************************)
EXTENDS Naturals

CONSTANTS DECIMAL_PRECISION,      \* one, as a fixed-point number (1e18)
          NICR_PRECISION,         \* scale of nominal ratios (1e20)
          MAX_UINT,               \* 2^256 - 1, the ratio of a trove without debt
          MCR, CCR,               \* minimum and critical collateral ratio
          LUSD_GAS_COMPENSATION,  \* liquidation reserve kept in the gas pool
          MIN_NET_DEBT,           \* least debt of a trove, without the reserve
          PERCENT_DIVISOR         \* a liquidator gets 1/PERCENT_DIVISOR of the collateral

ASSUME ScaleAssumption ==
    {DECIMAL_PRECISION, NICR_PRECISION, MAX_UINT, MIN_NET_DEBT,
     PERCENT_DIVISOR} \subseteq Nat \ {0}

ASSUME RatioAssumption ==
    /\ MCR \in Nat /\ CCR \in Nat /\ LUSD_GAS_COMPENSATION \in Nat
    /\ DECIMAL_PRECISION < MCR /\ MCR < CCR /\ CCR < MAX_UINT

Min2(a, b) == IF a < b THEN a ELSE b

ComputeCR(coll, debt, p) ==
    IF debt > 0 THEN (coll * p) \div debt ELSE MAX_UINT

ComputeNominalCR(coll, debt) ==
    IF debt > 0 THEN (coll * NICR_PRECISION) \div debt ELSE MAX_UINT

MutCompositeDebt(debt) == debt      \* broken: without the reserve
CompositeDebt(debt) == debt + LUSD_GAS_COMPENSATION

CollGasCompensation(coll) == coll \div PERCENT_DIVISOR
=============================================================================
