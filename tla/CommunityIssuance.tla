--------------------------- MODULE CommunityIssuance ---------------------------
(****************************************************************************)
(* CommunityIssuance.sol: MAHA streams to the Stability Pool at a constant  *)
(* rate until the end of a period, and the owner may start another one.     *)
(****************************************************************************)
EXTENDS Integers

CONSTANTS
    RewardsDuration,
    InitialMAHA     \* its balance at the deployment

ASSUME IssuanceAssumption ==
    /\ RewardsDuration \in Nat \ {0}
    /\ InitialMAHA \in Nat

VARIABLES
    now,            \* block.timestamp
    issuance        \* its storage and its balance of MAHA

LastTimeRewardApplicable ==
    IF now < issuance.periodFinish THEN now ELSE issuance.periodFinish

\* SafeMath: after the period the last update is behind its end, and
\* issueMAHA reverts, with whatever called it, until a new period is started.
CanIssue == issuance.lastUpdateTime <= LastTimeRewardApplicable

\* _getCumulativeIssuance
Issuance ==
    LET rewards == issuance.rewardRate * (LastTimeRewardApplicable - issuance.lastUpdateTime)
    IN  IF rewards < issuance.balance THEN rewards ELSE issuance.balance

\* issueMAHA, and sendMAHA of what is paid out in the same transaction.
IssueMAHA(paid) ==
    /\ CanIssue
    /\ paid <= issuance.balance
    /\ issuance' = [issuance EXCEPT
           !.totalMAHAIssued = @ + Issuance,
           !.lastUpdateTime = now,
           !.balance = @ - paid]

\* The owner sends the reward, and then notifies the contract of it.
NotifyRewardAmount(reward) ==
    LET leftover == IF now >= issuance.periodFinish THEN 0
                    ELSE (issuance.periodFinish - now) * issuance.rewardRate
        rate     == (reward + leftover) \div RewardsDuration
    IN  /\ rate <= (issuance.balance + reward) \div RewardsDuration
        /\ issuance' = [issuance EXCEPT
               !.rewardRate = rate,
               !.lastUpdateTime = now,
               !.periodFinish = now + RewardsDuration,
               !.balance = @ + reward]

\* setAddresses
IssuanceInit ==
    /\ now = 0
    /\ issuance = [rewardRate      |-> InitialMAHA \div RewardsDuration,
                   lastUpdateTime  |-> 0,
                   periodFinish    |-> RewardsDuration,
                   balance         |-> InitialMAHA,
                   totalMAHAIssued |-> 0]
=============================================================================
