-------------------------------- MODULE Trove --------------------------------
(****************************************************************************)
(* lib-base's troves and deposits as values: what a client asks for to get  *)
(* from the one it sees to the one it wants, and what it expects to get.    *)
(****************************************************************************)
EXTENDS Decimal

CONSTANT LUSD_LIQUIDATION_RESERVE
ASSUME ReserveAssumption == LUSD_LIQUIDATION_RESERVE \in Nat

Trove(collateral, debt) == [collateral |-> collateral, debt |-> debt]

EmptyTrove == Trove(0, 0)

Add(t, u) == Trove(t.collateral + u.collateral, t.debt + u.debt)

\* Never below zero.
Subtract(t, u) == Trove(Positive(t.collateral - u.collateral), Positive(t.debt - u.debt))

Multiply(t, factor) == Trove(Mul(t.collateral, factor), Mul(t.debt, factor))

ApplyFee(rate, increase) == Mul(increase, DIGITS + rate)

MutUnapplyFee(rate, increase) == Div(increase, DIGITS + rate)    \* broken: rounded down
UnapplyFee(rate, increase) == DivCeil(increase, DIGITS + rate)

NetDebt(t) == t.debt - LUSD_LIQUIDATION_RESERVE

-----------------------------------------------------------------------------
(* Changes.  A parameter that is not given is zero. *)

Change(type, deposit, withdraw, borrow, repay, setToZero) ==
    [type |-> type, depositCollateral |-> deposit, withdrawCollateral |-> withdraw,
     borrowLUSD |-> borrow, repayLUSD |-> repay, setToZero |-> setToZero]

\* What the target names as gone for good, whatever is there by then.
SetToZero(t, u) ==
    CASE u.debt = 0 /\ t.debt # 0 -> "debt"
      [] u.collateral = 0 /\ t.collateral # 0 -> "collateral"
      [] OTHER -> "none"

WhatChanged(t, u, rate) ==
    CASE t = u -> Change("none", 0, 0, 0, 0, "none")
      [] t # u /\ t = EmptyTrove /\ u.debt < LUSD_LIQUIDATION_RESERVE ->
           Change("invalidCreation", 0, 0, 0, 0, "none")
      [] t # u /\ t = EmptyTrove /\ u.debt >= LUSD_LIQUIDATION_RESERVE ->
           Change("creation", u.collateral, 0, UnapplyFee(rate, NetDebt(u)), 0, "none")
      [] t # u /\ t # EmptyTrove /\ u = EmptyTrove ->
           Change("closure", 0, t.collateral, 0, NetDebt(t), "none")
      [] OTHER ->
           Change("adjustment",
                  Positive(u.collateral - t.collateral), Positive(t.collateral - u.collateral),
                  UnapplyFee(rate, Positive(u.debt - t.debt)), Positive(t.debt - u.debt),
                  SetToZero(t, u))

Adjusted(t, change, rate) ==
    LET added == Trove(change.depositCollateral, ApplyFee(rate, change.borrowLUSD))
        taken == Trove(change.withdrawCollateral, change.repayLUSD)
        after == Subtract(Add(t, added), taken)
    IN  CASE change.setToZero = "collateral" -> Trove(0, after.debt)
          [] change.setToZero = "debt" -> Trove(after.collateral, 0)
          [] OTHER -> after

\* An invalid creation yields the target, as if it could be had.
Apply(t, u, change, rate) ==
    CASE change.type = "none" -> t
      [] change.type = "invalidCreation" -> u
      [] change.type = "creation" ->
           Trove(change.depositCollateral,
                 LUSD_LIQUIDATION_RESERVE + ApplyFee(rate, change.borrowLUSD))
      [] change.type = "closure" -> EmptyTrove
      [] change.type = "adjustment" -> Adjusted(t, change, rate)

-----------------------------------------------------------------------------
(* Redistribution, for one who knows the stake and the snapshot of a trove. *)

ApplyRedistribution(t, stake, snapshot, total) ==
    Add(t, Multiply(Subtract(total, snapshot), stake))

-----------------------------------------------------------------------------
(* Deposits in the Stability Pool *)

DepositWhatChanged(current, wanted) ==
    [withdrawLUSD |-> Positive(current - wanted), depositLUSD |-> Positive(wanted - current),
     withdrawAllLUSD |-> wanted = 0 /\ current > 0]

DepositApply(current, change) ==
    IF change.withdrawLUSD > 0
    THEN IF change.withdrawAllLUSD THEN 0 ELSE Positive(current - change.withdrawLUSD)
    ELSE current + change.depositLUSD
=============================================================================
