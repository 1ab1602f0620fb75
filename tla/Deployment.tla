------------------------------ MODULE Deployment ------------------------------
(****************************************************************************)
(* The deployment scripts against the chain: contracts are created, saved   *)
(* in OUTPUT_FILE and told of each other.  The script may die at any await  *)
(* and is then run again; transactions it has sent are mined nevertheless.  *)
(****************************************************************************)
EXTENDS DeploymentPlans, SequencesExt

CONSTANTS
    Tokens,     \* COLLATERLAS, in their order
    MaxRuns     \* how often a script is started; the last two runs are not interrupted

VARIABLES
    plan,       \* the script
    stage,      \* "idle", "run", "send", "wait", "done" or "failed"
    pc,         \* the step it has come to
    known,      \* the contract objects of this run
    saved,      \* OUTPUT_FILE
    chain,      \* the contracts, by address
    mempool,    \* transactions sent and not mined yet, in the order of their nonces
    runs

vars == <<plan, stage, pc, known, saved, chain, mempool, runs>>

(******************************** programs *********************************)

Shared == {"EcosystemFund", "GMUOracle", "ARTHStablecoin", "MahaToken",
           "UniswapPairOracle_ARTH_MAHA"}

Key(token, name) == IF name \in Shared THEN <<"", name>> ELSE <<token, name>>

\* testnetDeploymentHelpers.js takes MahaToken for the token MAHA.
MockToken(token) == IF token = "MAHA" THEN "MahaToken" ELSE "MockToken"

StepsOf(p, token) ==
    CASE p = "mainnet" -> MainnetCore \o MainnetConnect
      [] p = "bsc"     -> BscCore \o BscConnect
      [] p = "matic"   -> MaticCore
      [] p = "testnet" -> TestnetCore(MockToken(token)) \o TestnetLQTY
                          \o TestnetConnect(MockToken(token))
                          \o TestnetConnectLQTY(MockToken(token))
      [] p = "ethers"  -> EthersSetup
      [] p = "hardhat" -> HardhatCore \o HardhatLQTY \o HardhatConnectLQTY
                          \o HardhatConnect \o HardhatConnectLQTYToCore
      [] p = "truffle" -> TruffleDeploy \o TruffleConnect

Plans == {"mainnet", "bsc", "matic", "testnet", "ethers", "hardhat", "truffle"}
Saving == {"mainnet", "bsc", "matic", "testnet"}

\* deploy: one collateral after the other.
Program(p) ==
    IF p \in Saving
    THEN FlattenSeq([t \in DOMAIN Tokens |->
             [i \in DOMAIN StepsOf(p, Tokens[t]) |->
                 [token |-> Tokens[t], step |-> StepsOf(p, Tokens[t])[i]]]])
    ELSE [i \in DOMAIN StepsOf(p, "ETH") |->
             [token |-> "ETH", step |-> StepsOf(p, "ETH")[i]]]

Programs == [p \in Plans |-> Program(p)]

\* The contracts that p creates before its step i.
CreatedBefore(p, i) ==
    LET Earlier == {j \in 1..(i - 1) \intersect DOMAIN Programs[p] :
                        Programs[p][j].step.op = "deploy"}
    IN  {Key(Programs[p][j].token, Programs[p][j].step.name) : j \in Earlier}

\* A script passes on and asks about only what it has created before, and one that
\* keeps no file creates nothing twice.
ASSUME ProgramAssumption ==
    \A p \in Plans : \A i \in DOMAIN Programs[p] :
        LET token == Programs[p][i].token
            step == Programs[p][i].step
        IN  /\ \A name \in PassedOn(step) : Key(token, name) \in CreatedBefore(p, i)
            /\ step.op = "deploy" /\ p \notin Saving =>
                    Key(token, step.name) \notin CreatedBefore(p, i)
            /\ step.op = "batch" => step.tells \in Seq(Addressed(step))
            /\ step.op = "tell" => Key(token, step.guard) \in CreatedBefore(p, i)
            /\ step.op = "toggle" => Key(token, step.checked) \in CreatedBefore(p, i)

\* The setters that p calls: in which step, addressed to which contract, and which
\* one is asked for its owner before.
SettersIn(entry, i) ==
    {[at |-> i, key |-> Key(entry.token, t.target), tell |-> t,
      asked |-> Key(entry.token, IF entry.step.op = "tell" THEN entry.step.guard ELSE t.target)] :
        t \in Addressed(entry.step)}

Calling == {"tell", "put", "initialize", "batch"}

Setters ==
    [p \in Plans |-> UNION {SettersIn(Programs[p][i], i) :
        i \in {j \in DOMAIN Programs[p] : Programs[p][j].step.op \in Calling}}]

SwitchIn(entry, i) ==
    [at |-> i, key |-> Key(entry.token, entry.step.target), of |-> entry.step.of,
     other |-> Key(entry.token, entry.step.of)]

Switches ==
    [p \in Plans |-> {SwitchIn(Programs[p][i], i) :
        i \in {j \in DOMAIN Programs[p] : Programs[p][j].step.op = "toggle"}}]

\* A contract is given away by one setter, after all others that are addressed to
\* it and all steps that ask for its owner; no switch is flipped twice, nor in a
\* transaction with setters.
ASSUME OrderAssumption ==
    \A p \in Plans :
        /\ Programs[p] \in Seq({Programs[p][i] : i \in DOMAIN Programs[p]})
        /\ \A s, last \in Setters[p] :
                last.tell.final /\ last.key \in {s.key, s.asked} => s.at < last.at \/ s = last
        /\ \A s \in Setters[p] :
                /\ s.tell.op \in Calling \ {"batch"}
                /\ s.tell.op = "initialize" => s.tell.links = {} /\ ~s.tell.final
        /\ \A v, w \in Switches[p] : v.key = w.key /\ v.other = w.other => v = w

Here == Programs[plan][pc]
Step == Here.step
At(name) == known[Key(Here.token, name)]

(********************************* script **********************************)

Running == stage = "run" /\ pc \in DOMAIN Programs[plan]

Entered(contracts, key, address) ==
    [k \in DOMAIN contracts \union {key} |-> IF k = key THEN address ELSE contracts[k]]

Create(key, args) == [op |-> "create", key |-> key, args |-> args]

Setter(tell) ==
    [op |-> "set", to |-> At(tell.target),
     told |-> {<<name, At(name)>> : name \in tell.links}, final |-> tell.final,
     initializes |-> tell.op = "initialize"]

Renounced(address) == chain[address].owner = "none"

Send(txs) ==
    /\ mempool' = mempool \o txs
    /\ stage' = "wait"
    /\ UNCHANGED <<plan, pc, known, saved, chain, runs>>

Advance ==
    /\ pc' = pc + 1
    /\ stage' = "run"

\* loadOrDeploy of a contract that an earlier run has saved.
Load ==
    /\ Running /\ Step.op = "deploy"
    /\ LET key == Key(Here.token, Step.name)
       IN  /\ key \in DOMAIN saved
           /\ known' = Entered(known, key, saved[key])
    /\ Advance
    /\ UNCHANGED <<plan, saved, chain, mempool, runs>>

MutDeploy ==    \* broken: OUTPUT_FILE is not looked at
    /\ Running /\ Step.op = "deploy"
    /\ Send(<<Create(Key(Here.token, Step.name), {At(name) : name \in Step.args})>>)

Deploy ==
    /\ Running /\ Step.op = "deploy"
    /\ LET key == Key(Here.token, Step.name)
       IN  /\ key \notin DOMAIN saved
           /\ Send(<<Create(key, {At(name) : name \in Step.args})>>)

\* await waitForTransaction, and the file is written before anything else.
Save ==
    /\ stage = "wait" /\ Step.op = "deploy"
    /\ mempool = <<>>
    /\ LET key == Key(Here.token, Step.name)
       IN  /\ known' = Entered(known, key, Len(chain))
           /\ saved' = IF plan \in Saving THEN Entered(saved, key, Len(chain)) ELSE saved
    /\ Advance
    /\ UNCHANGED <<plan, chain, mempool, runs>>

MutCheck ==    \* broken: a rerun does not ask who owns the contract
    /\ Running
    /\ Step.op \in Calling \union {"toggle"}
    /\ stage' = "send"
    /\ UNCHANGED <<plan, pc, known, saved, chain, mempool, runs>>

\* The condition in front of a setter is read; the setter is sent later.
Check ==
    /\ Running
    /\ \/ /\ Step.op = "tell"
          /\ IF Renounced(At(Step.guard)) THEN Advance ELSE stage' = "send" /\ UNCHANGED pc
       \/ /\ Step.op = "toggle"
          /\ IF <<Step.of, At(Step.checked)>> \in chain[At(Step.target)].allowed
             THEN Advance ELSE stage' = "send" /\ UNCHANGED pc
       \/ /\ Step.op = "initialize"
          /\ IF chain[At(Step.target)].initialized
             THEN Advance ELSE stage' = "send" /\ UNCHANGED pc
       \/ /\ Step.op \in {"put", "batch"}
          /\ stage' = "send" /\ UNCHANGED pc
    /\ UNCHANGED <<plan, known, saved, chain, mempool, runs>>

\* The gas estimate of a setter that only the owner may call fails without him, and
\* that of an initializer fails when it has run.
Refused ==
    \E t \in Addressed(Step) :
        \/ Renounced(At(t.target))
        \/ t.op = "initialize" /\ chain[At(t.target)].initialized

SendSetters ==
    /\ stage = "send"
    /\ ~Refused
    /\ Send(CASE Step.op = "batch"  -> [i \in DOMAIN Step.tells |-> Setter(Step.tells[i])]
              [] Step.op = "toggle" -> <<[op |-> "toggle", to |-> At(Step.target),
                                          of |-> <<Step.of, At(Step.of)>>]>>
              [] OTHER              -> <<Setter(Step)>>)

MutSet ==    \* broken: the next step does not wait for the receipt
    /\ stage = "wait" /\ Step.op # "deploy"
    /\ Advance
    /\ UNCHANGED <<plan, known, saved, chain, mempool, runs>>

\* waitForTransaction also returns when the transaction has reverted.
Set ==
    /\ stage = "wait" /\ Step.op # "deploy"
    /\ mempool = <<>>
    /\ Advance
    /\ UNCHANGED <<plan, known, saved, chain, mempool, runs>>

Fail ==
    /\ \/ stage = "send" /\ Refused
       \/ Running /\ Step.op = "throw"
    /\ stage' = "failed"
    /\ UNCHANGED <<plan, pc, known, saved, chain, mempool, runs>>

Finish ==
    /\ stage = "run" /\ pc \notin DOMAIN Programs[plan]
    /\ stage' = "done"
    /\ UNCHANGED <<plan, pc, known, saved, chain, mempool, runs>>

\* loadPreviousDeployment, in a new process.
Start ==
    /\ stage \in {"idle", "failed", "done"}
    /\ runs < MaxRuns
    /\ runs > 0 => plan \in Saving
    /\ runs' = runs + 1
    /\ stage' = "run" /\ pc' = 1 /\ known' = <<>>
    /\ UNCHANGED <<plan, saved, chain, mempool>>

\* The process dies at an await.  Only a script that saves is worth running again.
Crash ==
    /\ stage \in {"run", "send", "wait"}
    /\ plan \in Saving /\ runs < MaxRuns - 1
    /\ stage' = "idle" /\ pc' = 1 /\ known' = <<>>
    /\ UNCHANGED <<plan, saved, chain, mempool, runs>>

(********************************** chain **********************************)

Created(tx) ==
    [key |-> tx.key, args |-> tx.args, told |-> {}, allowed |-> {}, initialized |-> FALSE,
     owner |-> "deployer"]

\* onlyOwner: a setter that comes too late reverts and changes nothing, nor does an
\* initializer that has run.
Executed(tx) ==
    CASE tx.op = "create" -> Append(chain, Created(tx))
      [] tx.op = "set" ->
            IF Renounced(tx.to) THEN chain
            ELSE [chain EXCEPT
                    ![tx.to].told = {t \in @ : \A u \in tx.told : u[1] # t[1]} \union tx.told,
                    ![tx.to].initialized = IF tx.initializes THEN TRUE ELSE @,
                    ![tx.to].owner = IF tx.final THEN "none" ELSE @]
      [] tx.op = "toggle" ->
            [chain EXCEPT ![tx.to].allowed =
                IF tx.of \in @ THEN @ \ {tx.of} ELSE @ \union {tx.of}]

Mine ==
    /\ mempool # <<>>
    /\ chain' = Executed(Head(mempool))
    /\ mempool' = Tail(mempool)
    /\ UNCHANGED <<plan, stage, pc, known, saved, runs>>

(******************************* specification *****************************)

Init ==
    /\ plan \in Plans
    /\ stage = "idle" /\ pc = 1
    /\ known = <<>> /\ saved = <<>>
    /\ chain = <<>> /\ mempool = <<>>
    /\ runs = 0

Script == Load \/ Deploy \/ Save \/ Check \/ SendSetters \/ Set \/ Fail \/ Finish

Next == Start \/ Script \/ Crash \/ Mine

\* Transactions are mined, the script goes on, and somebody runs it again.
Fairness == WF_vars(Mine) /\ WF_vars(Script) /\ WF_vars(Start)

Spec == Init /\ [][Next]_vars /\ Fairness

(******************************** properties *******************************)

InUse ==
    [key \in DOMAIN known \union DOMAIN saved |->
        IF key \in DOMAIN known THEN known[key] ELSE saved[key]]

References(c) == c.args \union {t[2] : t \in c.told \union c.allowed}

\* A contract in use knows only contracts in use: what a crashed run left on the
\* chain without saving it is known to nobody, although the rerun mixes contracts
\* of both runs.
WiredToSaved ==
    \A key \in DOMAIN InUse : \A a \in References(chain[InUse[key]]) :
        /\ chain[a].key \in DOMAIN InUse
        /\ InUse[chain[a].key] = a

Obeyed(entry, t) ==
    LET Of(name) == known[Key(entry.token, name)]
    IN  IF t.op = "toggle"
        THEN runs > 1 \/ <<t.of, Of(t.of)>> \in chain[Of(t.target)].allowed
        ELSE /\ \A name \in t.links : \E told \in chain[Of(t.target)].told : told[1] = name
             /\ t.final => Renounced(Of(t.target))
             /\ t.op = "initialize" => chain[Of(t.target)].initialized

\* A script that ends has had every setter executed, by this run or by one that
\* crashed, and has given all ownership away.  The toggles of a second testnet
\* run are excepted: it asks about BorrowerOperations before it flips the others.
CompleteWhenDone ==
    stage = "done" =>
        \A i \in DOMAIN Programs[plan] : LET entry == Programs[plan][i]
            IN  entry.step.op \in Calling \union {"toggle"} =>
                    \A t \in Addressed(entry.step) : Obeyed(entry, t)

\* A contract has been given away, and the one that is asked instead of it has not.
HalfWired ==
    \E entry \in {Programs[plan][i] : i \in DOMAIN Programs[plan]} :
        /\ entry.step.op = "tell"
        /\ LET target == Key(entry.token, entry.step.target)
               guard == Key(entry.token, entry.step.guard)
           IN  /\ {target, guard} \subseteq DOMAIN saved
               /\ Renounced(saved[target]) /\ ~Renounced(saved[guard])

\* A script that is run again after a crash gets through, at the latest in the
\* second run, for the first may find the crashed run's setter mined between its
\* own question and its own setter.  Not so matic's, which throws, and one on the
\* testnet that has died half wired: PriceFeed is set up unless SortedTroves is, and
\* LockupContractFactory unless LQTYStaking is, so every later run fails there.
EventuallyWired ==
    <>(\/ stage = "done"
       \/ plan = "matic"
       \/ plan = "testnet" /\ stage = "failed" /\ HalfWired)
=============================================================================
