---------------------------- MODULE HintHelpers -----------------------------
(***************************************************************************)
(* HintHelpers.getRedemptionHints, which a client calls before it sends a  *)
(* redemption: how much of an amount can be redeemed, and the nominal      *)
(* ratio the last trove will then have.  The cap on the number of troves   *)
(* (70 in the client) is above the number of borrowers.                    *)
(***************************************************************************)
EXTENDS BorrowerOperations

MutNetLUSDDebt(b) == Troves[b].debt - LUSD_GAS_COMPENSATION     \* broken: no rewards
NetLUSDDebt(b) == Troves[b].debt - LUSD_GAS_COMPENSATION + Pending(b).LUSDDebt

\* What is left of the last trove if n of its debt is redeemed.
HintNICR(b, n) ==
    ComputeNominalCR(Entire(b).ETH - (n * DECIMAL_PRECISION) \div price,
                     CompositeDebt(NetLUSDDebt(b) - n))

\* From the trove at place i of the list towards the head, with an amount
\* still to be redeemed.
RedemptionHints(i, amount) ==
    LET walk[k \in 0..Len(sortedTroves)] ==
          [remaining \in 0..amount |->
             IF k = 0 \/ remaining = 0 THEN [NICR |-> 0, remaining |-> remaining]
             ELSE LET b == sortedTroves[k]
                      net == NetLUSDDebt(b)
                      max == Min2(remaining, net - MIN_NET_DEBT)
                  IN  IF net <= remaining THEN walk[k - 1][remaining - net]
                      ELSE IF net <= MIN_NET_DEBT THEN [NICR |-> 0, remaining |-> remaining]
                      ELSE [NICR |-> HintNICR(b, max), remaining |-> remaining - max]]
        found == walk[i][amount]
    IN  [NICR |-> found.NICR, truncated |-> amount - found.remaining]

\* The hints for the rest of the redemption under way.
HintsNow ==
    RedemptionHints(IF tx.user = NONE THEN 0 ELSE Position(tx.user), redemption.remainingLUSD)

HintsExact == HintsNow.truncated = redemption.remainingLUSD

\* The hints a client gets are still right for every trove the redemption
\* comes to, although each redeemed trove has changed the list, the pools
\* and, with its rewards, its own debt: cut to the amount the hints report,
\* a redemption that nobody interferes with closes every trove it goes
\* through, leaves the last one with the very ratio it passes, and redeems
\* all of it.
HintsStayExact ==
    [][\A b \in Borrowers, amount \in Redemptions :
         /\ BeginRedemption(amount, b) =>
              LET hints == RedemptionHints(Position(b), amount)
              IN  hints.truncated > 0 => RedemptionHints(Position(b), hints.truncated) = hints
         /\ RedeemWholeTrove(b) /\ HintsExact => HintsExact' /\ HintsNow'.NICR = HintsNow.NICR
         /\ RedeemPart(b) /\ HintsExact =>
              redemption'.remainingLUSD = 0 /\ NominalICR(b)' = HintsNow.NICR
         /\ CancelPartial(b) /\ HintsExact => PartialAllowed(b)]_vars
=============================================================================
