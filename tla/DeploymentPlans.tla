--------------------------- MODULE DeploymentPlans ---------------------------
(****************************************************************************)
(* What each deployment script does, as a sequence of steps: the contracts  *)
(* it creates with the contracts their constructors are given, the setters  *)
(* it calls with the contracts it passes, and under which condition.        *)
(* The scripts are older than the contracts beside them: a setter is taken  *)
(* to do what its caller expects of it.  Left out: addresses that are not   *)
(* of created contracts (tokens, timelock), numbers, and the verification   *)
(* on Etherscan, which adds links that no later step reads.                 *)
(****************************************************************************)
EXTENDS Naturals, Sequences, FiniteSets

New(name) == [op |-> "deploy", name |-> name, args |-> {}]
NewWith(name, args) == [op |-> "deploy", name |-> name, args |-> args]
NewAll(names) == [i \in DOMAIN names |-> New(names[i])]

\* A setter that renounces the ownership, sent unless guard has renounced it.
GuardedBy(guard, target, links) ==
    [op |-> "tell", target |-> target, guard |-> guard, links |-> links, final |-> TRUE]
Tell(target, links) == GuardedBy(target, target, links)

\* A setter that may be called again, sent every time.
Put(target, links) ==
    [op |-> "put", target |-> target, links |-> links, final |-> FALSE]

\* The initializer of a contract behind a proxy, sent unless it has run already.
Initialize(target) ==
    [op |-> "initialize", target |-> target, links |-> {}, final |-> FALSE]

\* Flips in target the switch of the contract of, which has a mapping for its
\* kind; sent unless that mapping has the contract checked.
Toggle(target, checked, of) ==
    [op |-> "toggle", target |-> target, checked |-> checked, of |-> of]

Throw == <<[op |-> "throw"]>>
AtOnce(tells) == <<[op |-> "batch", tells |-> tells]>>

Addressed(step) == IF step.op = "batch" THEN {step.tells[i] : i \in DOMAIN step.tells} ELSE {step}

\* The contracts whose addresses a step sends.
PassedOn(step) ==
    CASE step.op = "deploy" -> step.args
      [] step.op = "toggle" -> {step.target, step.of}
      [] step.op \in {"tell", "put", "initialize", "batch"} ->
            UNION {{t.target} \union t.links : t \in Addressed(step)}
      [] OTHER -> {}

-----------------------------------------------------------------------------
Pools == <<"ActivePool", "StabilityPool", "GasPool", "DefaultPool", "CollSurplusPool",
           "BorrowerOperations", "HintHelpers">>
PoolSet == {Pools[i] : i \in 1..5}
Operators == {"TroveManager", "BorrowerOperations"}

(* mainnetDeploymentHelper.js *)

MainnetCore ==
    NewAll(<<"PriceFeed", "EcosystemFund", "GMUOracle", "ARTHStablecoin",
             "SortedTroves", "TroveManager">> \o Pools)
    \o <<NewWith("Governance", Operators),
         NewWith("MultiTroveGetter", {"TroveManager", "SortedTroves"})>>

MainnetConnect ==
    <<Put("Governance", {"PriceFeed"}),
      Put("Governance", {"EcosystemFund"}),
      Tell("SortedTroves", Operators),
      Tell("TroveManager", PoolSet \union
           {"BorrowerOperations", "ARTHStablecoin", "SortedTroves", "Governance"}),
      Tell("BorrowerOperations", PoolSet \union
           {"TroveManager", "ARTHStablecoin", "SortedTroves", "Governance"}),
      Tell("StabilityPool", Operators \union
           {"ActivePool", "ARTHStablecoin", "SortedTroves", "Governance"}),
      Tell("ActivePool", Operators \union {"StabilityPool", "DefaultPool", "CollSurplusPool"}),
      Tell("DefaultPool", {"TroveManager", "ActivePool"}),
      Tell("CollSurplusPool", Operators \union {"ActivePool"}),
      Tell("HintHelpers", {"SortedTroves", "TroveManager"})>>

(* bscDeploymentHelper.js *)

BscCore ==
    NewAll(<<"PriceFeed", "EcosystemFund", "GMUOracle", "ARTHStablecoin",
             "SortedTroves", "TroveManager">> \o Pools)
    \o <<NewWith("Governance", Operators \union {"PriceFeed", "EcosystemFund"}),
         NewWith("IncentivePool", {"TroveManager"}),
         NewWith("MultiTroveGetter", {"TroveManager", "SortedTroves"})>>

BscConnect ==
    <<Tell("SortedTroves", Operators),
      Tell("TroveManager", PoolSet \union
           {"BorrowerOperations", "ARTHStablecoin", "SortedTroves", "Governance"}),
      Tell("BorrowerOperations", PoolSet \union
           {"TroveManager", "ARTHStablecoin", "SortedTroves", "Governance", "IncentivePool"}),
      Tell("StabilityPool", Operators \union
           {"ActivePool", "ARTHStablecoin", "SortedTroves", "Governance"}),
      Tell("ActivePool", Operators \union {"StabilityPool", "DefaultPool", "CollSurplusPool"}),
      Tell("DefaultPool", {"TroveManager", "ActivePool"}),
      Tell("CollSurplusPool", Operators \union {"ActivePool"}),
      Tell("HintHelpers", {"SortedTroves", "TroveManager"})>>

(* maticMainnetDeploymentHelper.js: proxyParams, which TroveManager's     *)
(* constructor would be given, is defined nowhere.                        *)
MaticCore ==
    NewAll(<<"PriceFeed", "EcosystemFund", "GMUOracle", "ARTHStablecoin", "SortedTroves">>)
    \o Throw

(* testnetDeploymentHelpers.js *)

TestnetCore(mockToken) ==
    NewAll(<<mockToken, "ARTHStablecoin", "MahaToken", "EcosystemFund",
             "UniswapPairOracle_ARTH_MAHA", "MockAggregator", "GMUOracle", "MockPairOracle",
             "PriceFeed", "SortedTroves", "TroveManagerImplementation">>)
    \o <<NewWith("TroveManager", {"TroveManagerImplementation"}),
         Initialize("TroveManager")>>
    \o NewAll(Pools)
    \o <<NewWith("Governance", Operators),
         NewWith("MultiTroveGetter", {"TroveManager", "SortedTroves"})>>

TestnetLQTY ==
    NewAll(<<"LQTYStaking", "LockupContractFactory", "CommunityIssuance">>)
    \o <<NewWith("LQTYToken", {"CommunityIssuance", "LQTYStaking", "LockupContractFactory"})>>

\* Rounds, prices and times of the aggregator are numbers.
AggregatorValues == [i \in 1..6 |-> Put("MockAggregator", {})]

TestnetConnect(mockToken) ==
    AggregatorValues \o
    <<GuardedBy("SortedTroves", "PriceFeed", {mockToken, "MockAggregator", "GMUOracle"}
                \union (IF mockToken = "MahaToken" THEN {"MockPairOracle"} ELSE {})),
      Put("Governance", {"PriceFeed"}),
      Put("Governance", {"MahaToken", "UniswapPairOracle_ARTH_MAHA"}),
      Put("Governance", {"EcosystemFund"}),
      Toggle("ARTHStablecoin", "BorrowerOperations", "BorrowerOperations"),
      Toggle("ARTHStablecoin", "BorrowerOperations", "TroveManager"),
      Toggle("ARTHStablecoin", "BorrowerOperations", "StabilityPool"),
      Tell("SortedTroves", Operators),
      Tell("TroveManager", PoolSet \union
           {"BorrowerOperations", "ARTHStablecoin", "SortedTroves", "Governance", mockToken}),
      Tell("BorrowerOperations", PoolSet \union
           {"TroveManager", "ARTHStablecoin", "SortedTroves", "Governance", mockToken}),
      Tell("StabilityPool", Operators \union
           {"ActivePool", "ARTHStablecoin", "SortedTroves", "CommunityIssuance", "Governance",
            mockToken}),
      Tell("ActivePool", Operators \union
           {"StabilityPool", "DefaultPool", "CollSurplusPool", mockToken}),
      Tell("DefaultPool", {"TroveManager", "ActivePool", mockToken}),
      Tell("CollSurplusPool", Operators \union {"ActivePool", mockToken}),
      Tell("HintHelpers", {"SortedTroves", "TroveManager"})>>

TestnetConnectLQTY(mockToken) ==
    <<GuardedBy("LQTYStaking", "LockupContractFactory", {"LQTYToken"}),
      Tell("LQTYStaking", Operators \union {"LQTYToken", "ARTHStablecoin", "ActivePool", mockToken}),
      Tell("CommunityIssuance", {"LQTYToken", "StabilityPool"})>>

(* lib-ethers' deploy.ts: nothing is kept, all setters are sent together. *)

EthersDeploy ==
    NewAll(<<"ActivePool", "BorrowerOperations", "TroveManager", "CollSurplusPool",
             "CommunityIssuance", "DefaultPool", "HintHelpers", "LockupContractFactory",
             "LQTYStaking", "PriceFeed", "SortedTroves", "StabilityPool", "GasPool", "Unipool">>)
    \o <<NewWith("ARTHStablecoin", Operators \union {"StabilityPool"}),
         NewWith("LQTYToken", {"CommunityIssuance", "LQTYStaking", "LockupContractFactory",
                               "Unipool"}),
         NewWith("MultiTroveGetter", {"TroveManager", "SortedTroves"})>>

EthersConnect ==
    AtOnce(<<Tell("SortedTroves", Operators),
             Tell("TroveManager", PoolSet \union
                  {"BorrowerOperations", "PriceFeed", "ARTHStablecoin", "SortedTroves",
                   "LQTYToken", "LQTYStaking"}),
             Tell("BorrowerOperations", PoolSet \union
                  {"TroveManager", "PriceFeed", "SortedTroves", "ARTHStablecoin",
                   "LQTYStaking"}),
             Tell("StabilityPool", Operators \union
                  {"ActivePool", "ARTHStablecoin", "SortedTroves", "PriceFeed",
                   "CommunityIssuance"}),
             Tell("ActivePool", Operators \union {"StabilityPool", "DefaultPool"}),
             Tell("DefaultPool", {"TroveManager", "ActivePool"}),
             Tell("CollSurplusPool", Operators \union {"ActivePool"}),
             Tell("HintHelpers", {"SortedTroves", "TroveManager"}),
             Tell("LQTYStaking", Operators \union {"LQTYToken", "ARTHStablecoin", "ActivePool"}),
             Tell("LockupContractFactory", {"LQTYToken"}),
             Tell("CommunityIssuance", {"LQTYToken", "StabilityPool"}),
             Tell("Unipool", {"LQTYToken", "UniToken"})>>)

EthersSetup == EthersDeploy \o NewAll(<<"UniToken">>) \o EthersConnect

(* deploymentHelpers.js, with which the tests deploy *)

HardhatCore ==
    NewAll(<<"WETH", "PriceFeed", "SortedTroves", "TroveManager">> \o Pools
           \o <<"FunctionCaller", "ARTHStablecoin">>)
    \o <<NewWith("Governance", {"TroveManager"}), New("MahaToken"), New("MahaOracle"),
         NewWith("ARTHController", {"ARTHStablecoin"}),
         NewWith("Controller", Operators \union
                 {"StabilityPool", "Governance", "ARTHStablecoin", "GasPool"})>>

HardhatLQTY ==
    NewAll(<<"LQTYStaking", "LockupContractFactory", "CommunityIssuance">>)
    \o <<NewWith("LQTYToken", {"CommunityIssuance", "LQTYStaking", "LockupContractFactory"})>>

Unguarded(step) == [step EXCEPT !.op = "put"]

HardhatConnect ==
    LET links == {"ARTHStablecoin", "Governance", "Controller"}
    IN  <<Put("ARTHStablecoin", {"ARTHController"}),
          Put("ARTHController", {"Controller"}),
          Put("Governance", {"PriceFeed"}),
          Put("Governance", {"MahaToken", "MahaOracle"}),
          Unguarded(Tell("SortedTroves", Operators)),
          Put("FunctionCaller", {"TroveManager"}),
          Put("FunctionCaller", {"SortedTroves"}),
          Unguarded(Tell("TroveManager", PoolSet \union links \union
                    {"BorrowerOperations", "SortedTroves", "LQTYToken", "LQTYStaking"})),
          Unguarded(Tell("BorrowerOperations", PoolSet \union links \union
                    {"TroveManager", "SortedTroves", "LQTYStaking", "WETH"})),
          Unguarded(Tell("StabilityPool", Operators \union links \union
                    {"ActivePool", "SortedTroves", "CommunityIssuance", "WETH"})),
          Unguarded(Tell("ActivePool", Operators \union
                    {"StabilityPool", "DefaultPool", "CollSurplusPool", "WETH"})),
          Unguarded(Tell("DefaultPool", {"TroveManager", "ActivePool", "WETH"})),
          Unguarded(Tell("CollSurplusPool", Operators \union {"ActivePool", "WETH"})),
          Unguarded(Tell("GasPool", Operators \union {"ARTHStablecoin", "Controller"})),
          Unguarded(Tell("HintHelpers", {"SortedTroves", "TroveManager"}))>>

HardhatConnectLQTY == <<Unguarded(Tell("LockupContractFactory", {"LQTYToken"}))>>

HardhatConnectLQTYToCore ==
    <<Unguarded(Tell("LQTYStaking", Operators \union
                {"LQTYToken", "ARTHStablecoin", "ActivePool", "WETH"})),
      Unguarded(Tell("CommunityIssuance", {"LQTYToken", "StabilityPool"}))>>

(* truffleDeploymentHelpers.js *)

TruffleDeploy ==
    NewAll(<<"PriceFeed", "SortedTroves", "TroveManager", "ActivePool", "StabilityPool",
             "DefaultPool", "FunctionCaller", "BorrowerOperations">>)
    \o <<NewWith("ARTHStablecoin", Operators \union {"StabilityPool"})>>

TruffleConnect ==
    <<Put("SortedTroves", {"TroveManager"}),
      Put("FunctionCaller", {"TroveManager"}), Put("FunctionCaller", {"SortedTroves"}),
      Put("PriceFeed", {"TroveManager"}),
      Put("TroveManager", {"ARTHStablecoin"}), Put("TroveManager", {"SortedTroves"}),
      Put("TroveManager", {"PriceFeed"}), Put("TroveManager", {"ActivePool"}),
      Put("TroveManager", {"DefaultPool"}), Put("TroveManager", {"StabilityPool"}),
      Put("TroveManager", {"BorrowerOperations"}),
      Put("BorrowerOperations", {"SortedTroves"}), Put("BorrowerOperations", {"PriceFeed"}),
      Put("BorrowerOperations", {"ActivePool"}), Put("BorrowerOperations", {"DefaultPool"}),
      Put("BorrowerOperations", {"TroveManager"}),
      Put("StabilityPool", {"ActivePool"}), Put("StabilityPool", {"DefaultPool"}),
      Put("ActivePool", {"StabilityPool"}), Put("ActivePool", {"DefaultPool"}),
      Put("DefaultPool", {"StabilityPool"}), Put("DefaultPool", {"ActivePool"})>>
=============================================================================
