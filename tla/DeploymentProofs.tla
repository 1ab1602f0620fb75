--------------------------- MODULE DeploymentProofs ---------------------------
(* Whatever is deployed, in however many runs and wherever they die: the      *)
(* contracts of the saved file know only each other, and a script that comes  *)
(* to its end has left no setter behind.                                      *)
EXTENDS Deployment, TLAPS

-----------------------------------------------------------------------------
(* The inductive invariant *)

Steps(p) == {Programs[p][i].step : i \in DOMAIN Programs[p]}
Keys == UNION {CreatedBefore(p, i) : p \in Plans, i \in Nat}
Names == UNION {PassedOn(step) : step \in UNION {Steps(p) : p \in Plans}}
Finals == {t.final : t \in UNION {Addressed(step) : step \in UNION {Steps(p) : p \in Plans}}}

Contracts == [key : Keys, args : SUBSET Nat, told : SUBSET (Names \X Nat),
              allowed : SUBSET (Names \X Nat), initialized : BOOLEAN,
              owner : {"deployer", "none"}]

Creations == [op : {"create"}, key : Keys, args : SUBSET Nat]
Settings == [op : {"set"}, to : Nat, told : SUBSET (Names \X Nat), final : Finals,
             initializes : BOOLEAN]
Toggles == [op : {"toggle"}, to : Nat, of : Names \X Nat]

TypeOK ==
    /\ plan \in Plans
    /\ stage \in {"idle", "run", "send", "wait", "done", "failed"}
    /\ pc \in Nat \ {0}
    /\ known \in [DOMAIN known -> Nat] /\ saved \in [DOMAIN saved -> Nat]
    /\ chain \in Seq(Contracts)
    /\ mempool \in Seq(Creations \union Settings \union Toggles)
    /\ runs \in Nat

\* What a later run, or the rest of this one, works with.
Used == IF plan \in Saving THEN saved ELSE known

Wired(a) ==
    /\ a \in 1..Len(chain)
    /\ chain[a].key \in DOMAIN Used
    /\ Used[chain[a].key] = a

\* The objects of a run are those of the file, and exist under their names.
BooksAgree ==
    /\ plan \in Saving =>
           \A key \in DOMAIN known : key \in DOMAIN saved /\ saved[key] = known[key]
    /\ plan \notin Saving => saved = <<>>
    /\ \A key \in DOMAIN Used : Used[key] \in 1..Len(chain) /\ chain[Used[key]].key = key

\* The script knows what it has passed by.
KnowsItsSteps ==
    /\ stage \in {"run", "send", "wait"} => DOMAIN known = CreatedBefore(plan, pc)
    /\ stage \in {"send", "wait"} => pc \in DOMAIN Programs[plan]
    /\ stage = "send" => Step.op \in Calling \union {"toggle"}
    /\ runs = 0 => stage = "idle" /\ chain = <<>> /\ mempool = <<>> /\ known = <<>>

\* The contract a script waits for is the last one to come, and is not saved yet.
AwaitsLast ==
    stage = "wait" /\ Step.op = "deploy" =>
        LET key == Key(Here.token, Step.name)
        IN  /\ key \notin DOMAIN Used
            /\ mempool = <<>> => Len(chain) > 0 /\ chain[Len(chain)].key = key
            /\ mempool # <<>> => /\ mempool[Len(mempool)].op = "create"
                                 /\ mempool[Len(mempool)].key = key

SendsWired(tx) ==
    /\ tx.op = "create" => \A a \in tx.args : Wired(a)
    /\ tx.op = "set" => tx.to \in 1..Len(chain) /\ \A t \in tx.told : Wired(t[2])
    /\ tx.op = "toggle" => tx.to \in 1..Len(chain) /\ Wired(tx.of[2])

RefersToWired ==
    /\ \A i \in 1..Len(chain) : \A a \in References(chain[i]) : Wired(a)
    /\ \A i \in 1..Len(mempool) : SendsWired(mempool[i])

IInv == TypeOK /\ BooksAgree /\ KnowsItsSteps /\ AwaitsLast /\ RefersToWired

-----------------------------------------------------------------------------
(* Lemmas *)

LEMMA KnownIsUsed ==
    ASSUME BooksAgree, NEW key \in DOMAIN known
    PROVE  key \in DOMAIN Used /\ Used[key] = known[key]
BY DEF BooksAgree, Used

LEMMA KeysOfSteps ==
    ASSUME NEW p \in Plans, NEW i \in DOMAIN Programs[p], i \in Nat \ {0}
    PROVE  LET key == Key(Programs[p][i].token, Programs[p][i].step.name)
           IN  IF Programs[p][i].step.op = "deploy"
               THEN key \in Keys /\ CreatedBefore(p, i + 1) = CreatedBefore(p, i) \union {key}
               ELSE CreatedBefore(p, i + 1) = CreatedBefore(p, i)
<1> DEFINE Made(j) == Key(Programs[p][j].token, Programs[p][j].step.name)
           Earlier(n) == {j \in 1..(n - 1) \intersect DOMAIN Programs[p] :
                              Programs[p][j].step.op = "deploy"}
<1>1. \A n : CreatedBefore(p, n) = {Made(j) : j \in Earlier(n)}
  BY DEF CreatedBefore
<1>2. CASE Programs[p][i].step.op = "deploy"
  <2>1. Earlier(i + 1) = Earlier(i) \union {i}
    BY <1>2
  <2>2. CreatedBefore(p, i + 1) = CreatedBefore(p, i) \union {Made(i)}
    BY <1>1, <2>1
  <2>3. Made(i) \in Keys
    BY <2>2 DEF Keys
  <2>4. QED BY <1>2, <2>2, <2>3
<1>3. CASE Programs[p][i].step.op # "deploy"
  <2>1. Earlier(i + 1) = Earlier(i)
    BY <1>3
  <2>2. QED BY <1>1, <1>3, <2>1
<1>4. QED BY <1>2, <1>3

\* A wired contract stays wired while chain and books only grow.
LEMMA WiredStays ==
    ASSUME NEW a, Wired(a), Len(chain) \in Nat, Len(chain') \in Nat, Len(chain) <= Len(chain'),
           \A i \in 1..Len(chain) : chain'[i].key = chain[i].key,
           \A key \in DOMAIN Used : key \in DOMAIN Used' /\ Used'[key] = Used[key]
    PROVE  Wired(a)'
BY DEF Wired

\* Contracts whose entries stay, and nothing more sent: all that is known stays wired.
LEMMA NothingNew ==
    ASSUME TypeOK, RefersToWired, UNCHANGED <<chain, mempool>>,
           \A key \in DOMAIN Used : key \in DOMAIN Used' /\ Used'[key] = Used[key]
    PROVE  RefersToWired'
<1>1. ASSUME NEW a, Wired(a) PROVE Wired(a)'
  BY <1>1, WiredStays DEF TypeOK
<1>2. ASSUME NEW tx, SendsWired(tx) PROVE SendsWired(tx)'
  BY <1>1, <1>2 DEF SendsWired
<1>3. QED BY <1>1, <1>2 DEF RefersToWired, References

\* What a step passes on was created before, and is in the books.
LEMMA PassesOnWired ==
    ASSUME TypeOK, BooksAgree, KnowsItsSteps, stage \in {"run", "send"},
           pc \in DOMAIN Programs[plan], NEW name \in PassedOn(Step)
    PROVE  At(name) \in Nat /\ Wired(At(name)) /\ name \in Names
<1> DEFINE key == Key(Here.token, name)
<1>1. key \in DOMAIN known
  BY ProgramAssumption DEF TypeOK, KnowsItsSteps, Here, Step
<1>2. key \in DOMAIN Used /\ Used[key] = known[key] /\ At(name) = known[key]
  BY <1>1, KnownIsUsed DEF At
<1>3. Used[key] \in 1..Len(chain) /\ chain[Used[key]].key = key
  BY <1>2 DEF BooksAgree
<1>4. Wired(At(name))
  BY <1>2, <1>3 DEF Wired
<1>5. Step \in Steps(plan)
  BY DEF Steps, Step, Here
<1>6. QED BY <1>2, <1>3, <1>4, <1>5 DEF Names, TypeOK

-----------------------------------------------------------------------------
(* The steps of a script *)

LEMMA StartOK == IInv /\ Start => IInv'
<1> SUFFICES ASSUME IInv, Start PROVE IInv'
  OBVIOUS
<1>1. DOMAIN known' = {} /\ CreatedBefore(plan, 1) = {} /\ known' = <<>>
  BY DEF Start, CreatedBefore
<1>2. Used' = Used
  BY <1>1 DEF IInv, TypeOK, KnowsItsSteps, Start, Used
<1>3. TypeOK'
  BY <1>1 DEF IInv, TypeOK, Start
<1>4. BooksAgree'
  BY <1>1, <1>2 DEF IInv, BooksAgree, Start
<1>5. KnowsItsSteps' /\ AwaitsLast'
  BY <1>1 DEF IInv, TypeOK, KnowsItsSteps, AwaitsLast, Start
<1>6. RefersToWired'
  BY <1>2, NothingNew DEF IInv, Start
<1>7. QED BY <1>3, <1>4, <1>5, <1>6 DEF IInv

LEMMA CrashOK == IInv /\ Crash => IInv'
<1> SUFFICES ASSUME IInv, Crash PROVE IInv'
  OBVIOUS
<1>1. DOMAIN known' = {} /\ known' = <<>>
  BY DEF Crash
<1>2. Used' = Used
  BY DEF Crash, Used
<1>3. TypeOK'
  BY <1>1 DEF IInv, TypeOK, Crash
<1>4. BooksAgree'
  BY <1>1, <1>2 DEF IInv, BooksAgree, Crash
<1>5. KnowsItsSteps' /\ AwaitsLast'
  BY <1>1 DEF IInv, TypeOK, KnowsItsSteps, AwaitsLast, Crash
<1>6. RefersToWired'
  BY <1>2, NothingNew DEF IInv, Crash
<1>7. QED BY <1>3, <1>4, <1>5, <1>6 DEF IInv

LEMMA LoadOK == IInv /\ Load => IInv'
<1> SUFFICES ASSUME IInv, Load PROVE IInv'
  OBVIOUS
<1> DEFINE key == Key(Here.token, Step.name)
<1>1. /\ stage = "run" /\ pc \in DOMAIN Programs[plan] /\ Step.op = "deploy"
      /\ key \in DOMAIN saved /\ known' = Entered(known, key, saved[key])
      /\ pc' = pc + 1 /\ stage' = "run"
      /\ UNCHANGED <<plan, saved, chain, mempool, runs>>
  BY DEF Load, Running, Advance
<1>2. plan \in Saving
  BY <1>1 DEF IInv, BooksAgree
<1>3. /\ DOMAIN known' = DOMAIN known \union {key}
      /\ \A k \in DOMAIN known' : known'[k] = IF k = key THEN saved[key] ELSE known[k]
  BY <1>1 DEF Entered
<1>4. Used' = Used
  BY <1>1, <1>2 DEF Used
<1>5. TypeOK'
  <2>1. known' \in [DOMAIN known' -> Nat]
    BY <1>1 DEF Entered, IInv, TypeOK
  <2>2. QED BY <1>1, <2>1 DEF IInv, TypeOK
<1>6. BooksAgree'
  BY <1>1, <1>2, <1>3, <1>4 DEF IInv, BooksAgree
<1>7. KnowsItsSteps' /\ AwaitsLast'
  <2>1. DOMAIN known' = CreatedBefore(plan, pc + 1)
    BY <1>1, <1>3, KeysOfSteps DEF IInv, TypeOK, KnowsItsSteps, Here, Step
  <2>2. QED BY <1>1, <2>1 DEF IInv, TypeOK, KnowsItsSteps, AwaitsLast
<1>8. RefersToWired'
  BY <1>1, <1>4, NothingNew DEF IInv
<1>9. QED BY <1>5, <1>6, <1>7, <1>8 DEF IInv

LEMMA DeployOK == IInv /\ Deploy => IInv'
<1> SUFFICES ASSUME IInv, Deploy PROVE IInv'
  OBVIOUS
<1> DEFINE key == Key(Here.token, Step.name)
           args == {At(name) : name \in Step.args}
<1>1. /\ stage = "run" /\ pc \in DOMAIN Programs[plan] /\ Step.op = "deploy"
      /\ key \notin DOMAIN saved
      /\ mempool' = mempool \o <<Create(key, args)>> /\ stage' = "wait"
      /\ UNCHANGED <<plan, pc, known, saved, chain, runs>>
  BY DEF Deploy, Send, Running
<1>2. PassedOn(Step) = Step.args /\ Used' = Used
  BY <1>1 DEF PassedOn, Used
<1>3. \A a \in args : a \in Nat /\ Wired(a)
  BY <1>1, <1>2, PassesOnWired DEF IInv
<1>4. key \in Keys
  BY <1>1, KeysOfSteps DEF IInv, TypeOK, Here, Step
<1>5. Create(key, args) \in Creations
  BY <1>3, <1>4 DEF Create, Creations
<1> DEFINE tx == Create(key, args)
<1>6. /\ mempool' \in Seq(Creations \union Settings \union Toggles)
      /\ Len(mempool') = Len(mempool) + 1 /\ Len(mempool) \in Nat
      /\ mempool'[Len(mempool')] = tx
      /\ \A i \in 1..Len(mempool) : mempool'[i] = mempool[i]
  BY <1>1, <1>5 DEF IInv, TypeOK
<1>7. TypeOK'
  BY <1>1, <1>6 DEF IInv, TypeOK
<1>8. BooksAgree'
  BY <1>1, <1>2 DEF IInv, BooksAgree
<1>9. KnowsItsSteps'
  BY <1>1 DEF IInv, TypeOK, KnowsItsSteps, Step, Here
<1>10. AwaitsLast'
  <2>1. key \notin DOMAIN Used
    <3>1. CASE plan \in Saving
      BY <1>1, <3>1 DEF Used
    <3>2. CASE plan \notin Saving
      BY <1>1, <3>2, ProgramAssumption DEF IInv, TypeOK, KnowsItsSteps, Used, Here, Step
    <3>3. QED BY <3>1, <3>2
  <2>2. mempool' # <<>> /\ tx.op = "create" /\ tx.key = key
    BY <1>6 DEF Create
  <2>3. QED BY <1>1, <1>2, <1>6, <2>1, <2>2 DEF AwaitsLast, Here, Step
<1>11. RefersToWired'
  <2>1. ASSUME NEW a, Wired(a) PROVE Wired(a)'
    BY <1>1, <1>2, <2>1 DEF Wired
  <2>2. ASSUME NEW x, SendsWired(x) PROVE SendsWired(x)'
    BY <1>1, <2>1, <2>2 DEF SendsWired
  <2>3. SendsWired(tx)
    BY <1>3 DEF SendsWired, Create
  <2>4. ASSUME NEW i \in 1..Len(mempool'), NEW x, x = mempool'[i]
        PROVE  SendsWired(x)'
    <3>1. CASE i = Len(mempool')
      BY <1>6, <2>2, <2>3, <2>4, <3>1
    <3>2. CASE i # Len(mempool')
      <4>1. i \in 1..Len(mempool) /\ x = mempool[i]
        BY <1>6, <2>4, <3>2
      <4>2. QED BY <2>2, <4>1 DEF IInv, RefersToWired
    <3>3. QED BY <3>1, <3>2
  <2>5. \A i \in 1..Len(chain) : \A a \in References(chain[i]) : Wired(a)'
    BY <2>1 DEF IInv, RefersToWired
  <2>6. QED BY <1>1, <2>4, <2>5 DEF RefersToWired, References, SendsWired
<1>12. QED BY <1>7, <1>8, <1>9, <1>10, <1>11 DEF IInv

LEMMA SaveOK == IInv /\ Save => IInv'
<1> SUFFICES ASSUME IInv, Save PROVE IInv'
  OBVIOUS
<1> DEFINE key == Key(Here.token, Step.name)
<1>1. /\ stage = "wait" /\ Step.op = "deploy" /\ mempool = <<>>
      /\ known' = Entered(known, key, Len(chain))
      /\ saved' = IF plan \in Saving THEN Entered(saved, key, Len(chain)) ELSE saved
      /\ pc' = pc + 1 /\ stage' = "run"
      /\ UNCHANGED <<plan, chain, mempool, runs>>
  BY DEF Save, Advance
<1>2. /\ pc \in DOMAIN Programs[plan] /\ key \notin DOMAIN Used
      /\ Len(chain) \in Nat /\ Len(chain) > 0 /\ chain[Len(chain)].key = key
  BY <1>1 DEF IInv, TypeOK, KnowsItsSteps, AwaitsLast
<1>3. /\ DOMAIN known' = DOMAIN known \union {key}
      /\ \A k \in DOMAIN known' : known'[k] = IF k = key THEN Len(chain) ELSE known[k]
      /\ plan \in Saving =>
            /\ DOMAIN saved' = DOMAIN saved \union {key}
            /\ \A k \in DOMAIN saved' : saved'[k] = IF k = key THEN Len(chain) ELSE saved[k]
  BY <1>1 DEF Entered
<1>4. /\ DOMAIN Used' = DOMAIN Used \union {key}
      /\ \A k \in DOMAIN Used' : Used'[k] = IF k = key THEN Len(chain) ELSE Used[k]
  BY <1>1, <1>3 DEF Used
<1>5. TypeOK'
  <2>1. known' \in [DOMAIN known' -> Nat] /\ saved' \in [DOMAIN saved' -> Nat]
    BY <1>1, <1>2 DEF Entered, IInv, TypeOK
  <2>2. QED BY <1>1, <2>1 DEF IInv, TypeOK
<1>6. BooksAgree'
  BY <1>1, <1>2, <1>3, <1>4 DEF IInv, BooksAgree
<1>7. KnowsItsSteps' /\ AwaitsLast'
  <2>1. DOMAIN known' = CreatedBefore(plan, pc + 1)
    BY <1>1, <1>2, <1>3, KeysOfSteps DEF IInv, TypeOK, KnowsItsSteps, Here, Step
  <2>2. QED BY <1>1, <2>1 DEF IInv, TypeOK, KnowsItsSteps, AwaitsLast
<1>8. RefersToWired'
  BY <1>1, <1>2, <1>4, NothingNew DEF IInv
<1>9. QED BY <1>5, <1>6, <1>7, <1>8 DEF IInv

LEMMA CheckOK == IInv /\ Check => IInv'
<1> SUFFICES ASSUME IInv, Check PROVE IInv'
  OBVIOUS
<1>1. /\ stage = "run" /\ pc \in DOMAIN Programs[plan]
      /\ Step.op \in Calling \union {"toggle"}
      /\ \/ pc' = pc + 1 /\ stage' = "run"
         \/ pc' = pc /\ stage' = "send"
      /\ UNCHANGED <<plan, known, saved, chain, mempool, runs>>
  BY DEF Check, Running, Advance, Calling
<1>2. Used' = Used
  BY <1>1 DEF Used
<1>3. TypeOK' /\ BooksAgree'
  BY <1>1, <1>2 DEF IInv, TypeOK, BooksAgree
<1>4. KnowsItsSteps' /\ AwaitsLast'
  <2>1. CreatedBefore(plan, pc + 1) = CreatedBefore(plan, pc)
    BY <1>1, KeysOfSteps DEF IInv, TypeOK, Here, Step, Calling
  <2>2. QED BY <1>1, <2>1 DEF IInv, TypeOK, KnowsItsSteps, AwaitsLast, Step, Here
<1>5. RefersToWired'
  BY <1>1, <1>2, NothingNew DEF IInv
<1>6. QED BY <1>3, <1>4, <1>5 DEF IInv

LEMMA SetOK == IInv /\ Set => IInv'
<1> SUFFICES ASSUME IInv, Set PROVE IInv'
  OBVIOUS
<1>1. /\ stage = "wait" /\ Step.op # "deploy" /\ pc' = pc + 1 /\ stage' = "run"
      /\ UNCHANGED <<plan, known, saved, chain, mempool, runs>>
  BY DEF Set, Advance
<1>2. Used' = Used /\ pc \in DOMAIN Programs[plan]
  BY <1>1 DEF Used, IInv, KnowsItsSteps
<1>3. TypeOK' /\ BooksAgree'
  BY <1>1, <1>2 DEF IInv, TypeOK, BooksAgree
<1>4. KnowsItsSteps' /\ AwaitsLast'
  <2>1. CreatedBefore(plan, pc + 1) = CreatedBefore(plan, pc)
    BY <1>1, <1>2, KeysOfSteps DEF IInv, TypeOK, Here, Step
  <2>2. QED BY <1>1, <2>1 DEF IInv, TypeOK, KnowsItsSteps, AwaitsLast
<1>5. RefersToWired'
  BY <1>1, <1>2, NothingNew DEF IInv
<1>6. QED BY <1>3, <1>4, <1>5 DEF IInv

LEMMA EndOK == IInv /\ (Fail \/ Finish) => IInv'
<1> SUFFICES ASSUME IInv, Fail \/ Finish PROVE IInv'
  OBVIOUS
<1>1. /\ stage' \in {"failed", "done"} /\ runs # 0
      /\ UNCHANGED <<plan, pc, known, saved, chain, mempool, runs>>
  BY DEF Fail, Finish, Running, IInv, KnowsItsSteps
<1>2. Used' = Used
  BY <1>1 DEF Used
<1>3. TypeOK' /\ BooksAgree' /\ KnowsItsSteps' /\ AwaitsLast'
  BY <1>1, <1>2 DEF IInv, TypeOK, BooksAgree, KnowsItsSteps, AwaitsLast
<1>4. QED BY <1>1, <1>2, <1>3, NothingNew DEF IInv
\* What is sent: the setters that the step calls, each of them, or the toggle.
LEMMA SettersSent ==
    ASSUME IInv, SendSetters
    PROVE  \E txs \in Seq(Settings \union Toggles) :
              /\ Send(txs)
              /\ \A i \in 1..Len(txs) : SendsWired(txs[i])
              /\ Step.op # "toggle" =>
                    /\ \A i \in 1..Len(txs) : \E t \in Addressed(Step) : txs[i] = Setter(t)
                    /\ \A t \in Addressed(Step) : \E i \in 1..Len(txs) : txs[i] = Setter(t)
              /\ Step.op = "toggle" =>
                    /\ Len(txs) = 1
                    /\ txs[1] = [op |-> "toggle", to |-> At(Step.target), of |-> <<Step.of, At(Step.of)>>]
<1>1. /\ stage = "send" /\ pc \in DOMAIN Programs[plan]
      /\ Step.op \in Calling \union {"toggle"}
  BY DEF SendSetters, Send, IInv, KnowsItsSteps
<1> DEFINE Fine(tx) == tx \in Settings \union Toggles /\ SendsWired(tx)
<1>2. \A name \in PassedOn(Step) : At(name) \in Nat /\ Wired(At(name)) /\ name \in Names
  BY <1>1, PassesOnWired DEF IInv
<1>3. ASSUME NEW t \in Addressed(Step), Step.op # "toggle" PROVE Fine(Setter(t))
  <2>1. \A name \in {t.target} \union t.links : name \in PassedOn(Step)
    BY <1>1, <1>3 DEF PassedOn, Calling
  <2>2. \A name \in {t.target} \union t.links :
            At(name) \in Nat /\ Wired(At(name)) /\ name \in Names
    BY <1>2, <2>1
  <2>3. t.final \in Finals
    <3>1. Step \in Steps(plan)
      BY <1>1 DEF Steps, Step, Here
    <3>2. QED BY <1>3, <3>1 DEF Finals, IInv, TypeOK
  <2>4. Setter(t) \in Settings
    BY <2>2, <2>3 DEF Setter, Settings
  <2>5. SendsWired(Setter(t))
    BY <2>2 DEF SendsWired, Setter, Wired
  <2>6. QED BY <2>4, <2>5
<1>4. CASE Step.op = "batch"
  <2> DEFINE txs == [i \in DOMAIN Step.tells |-> Setter(Step.tells[i])]
  <2>1. Step.tells \in Seq(Addressed(Step))
    BY <1>1, <1>4, ProgramAssumption DEF IInv, TypeOK, Step, Here
  <2>2. \A i \in 1..Len(Step.tells) : Fine(Setter(Step.tells[i]))
    BY <1>3, <1>4, <2>1
  <2>3. /\ txs \in Seq(Settings \union Toggles)
        /\ Len(txs) = Len(Step.tells) /\ \A i \in 1..Len(txs) : txs[i] = Setter(Step.tells[i])
    BY <2>1, <2>2
  <2>4. Send(txs)
    BY <1>4 DEF SendSetters
  <2>5. /\ \A i \in 1..Len(Step.tells) : Step.tells[i] \in Addressed(Step)
        /\ \A t \in Addressed(Step) : \E i \in 1..Len(Step.tells) : t = Step.tells[i]
    BY <1>4, <2>1 DEF Addressed
  <2> HIDE DEF txs
  <2>6. QED BY <1>4, <2>2, <2>3, <2>4, <2>5
<1>5. CASE Step.op = "toggle"
  <2> DEFINE tx == [op |-> "toggle", to |-> At(Step.target), of |-> <<Step.of, At(Step.of)>>]
  <2>1. \A name \in {Step.target, Step.of} :
            At(name) \in Nat /\ Wired(At(name)) /\ name \in Names
    BY <1>2, <1>5 DEF PassedOn
  <2>2. Fine(tx)
    BY <2>1 DEF Toggles, SendsWired, Wired
  <2>3. Send(<<tx>>)
    BY <1>5 DEF SendSetters
  <2>4. \A x : x = tx => /\ Fine(x) /\ Send(<<x>>)
                         /\ <<x>> \in Seq(Settings \union Toggles) /\ Len(<<x>>) = 1 /\ <<x>>[1] = x
    BY <2>2, <2>3
  <2>5. PICK x : x = tx
    OBVIOUS
  <2> HIDE DEF tx
  <2>6. \A i \in 1..Len(<<x>>) : Fine(<<x>>[i])
    BY <2>4, <2>5
  <2>7. QED BY <1>5, <2>4, <2>5, <2>6 DEF tx
<1>6. CASE Step.op \in {"tell", "put", "initialize"}
  <2> DEFINE tx == Setter(Step)
  <2>1. Addressed(Step) = {Step}
    BY <1>6 DEF Addressed
  <2>2. Fine(tx) /\ Send(<<tx>>)
    BY <1>3, <1>6, <2>1 DEF SendSetters
  <2>3. PICK x : x = Setter(Step) /\ Fine(x) /\ Send(<<x>>)
    BY <2>2
  <2>4. <<x>> \in Seq(Settings \union Toggles) /\ Len(<<x>>) = 1 /\ <<x>>[1] = x
    BY <2>3
  <2>5. \A i \in 1..Len(<<x>>) : SendsWired(<<x>>[i]) /\ <<x>>[i] = Setter(Step)
    BY <2>3, <2>4
  <2>6. \A t \in Addressed(Step) : \E i \in 1..Len(<<x>>) : <<x>>[i] = Setter(t)
    BY <2>1, <2>3, <2>4
  <2>7. Step.op # "toggle" /\ Step \in Addressed(Step)
    BY <1>6, <2>1
  <2>8. QED BY <2>3, <2>4, <2>5, <2>6, <2>7
<1>7. QED BY <1>1, <1>4, <1>5, <1>6 DEF Calling

LEMMA SendSettersOK == IInv /\ SendSetters => IInv'
<1> SUFFICES ASSUME IInv, SendSetters PROVE IInv'
  OBVIOUS
<1>1. PICK txs \in Seq(Settings \union Toggles) :
          Send(txs) /\ \A i \in 1..Len(txs) : SendsWired(txs[i])
  BY SettersSent
<1>2. /\ stage = "send" /\ pc \in DOMAIN Programs[plan]
      /\ Step.op \in Calling \union {"toggle"}
      /\ stage' = "wait" /\ mempool' = mempool \o txs
      /\ UNCHANGED <<plan, pc, known, saved, chain, runs>>
  BY <1>1 DEF SendSetters, Send, IInv, KnowsItsSteps
<1>3. /\ mempool' \in Seq(Creations \union Settings \union Toggles)
      /\ Len(mempool') = Len(mempool) + Len(txs)
      /\ Len(mempool) \in Nat /\ Len(txs) \in Nat
      /\ \A i \in 1..Len(mempool') : mempool'[i] = IF i <= Len(mempool) THEN mempool[i]
                                                   ELSE txs[i - Len(mempool)]
  BY <1>2 DEF IInv, TypeOK
<1>4. TypeOK' /\ BooksAgree' /\ KnowsItsSteps' /\ AwaitsLast'
  <2>1. Used' = Used /\ Step' = Step /\ Step.op # "deploy"
    BY <1>2 DEF Used, Step, Here, Calling
  <2>2. QED BY <1>2, <1>3, <2>1 DEF IInv, TypeOK, BooksAgree, KnowsItsSteps, AwaitsLast
<1>5. RefersToWired'
  <2>1. ASSUME NEW a, Wired(a) PROVE Wired(a)'
    BY <1>2, <2>1 DEF Wired, Used
  <2>2. ASSUME NEW x, SendsWired(x) PROVE SendsWired(x)'
    BY <1>2, <2>1, <2>2 DEF SendsWired
  <2>3. ASSUME NEW i \in 1..Len(mempool'), NEW x, x = mempool'[i]
        PROVE  SendsWired(x)'
    <3>1. CASE i <= Len(mempool)
      BY <1>3, <2>2, <2>3, <3>1 DEF IInv, RefersToWired
    <3>2. CASE i > Len(mempool)
      <4>1. i - Len(mempool) \in 1..Len(txs) /\ x = txs[i - Len(mempool)]
        BY <1>3, <2>3, <3>2
      <4>2. QED BY <1>1, <2>2, <4>1
    <3>3. QED BY <1>3, <3>1, <3>2
  <2>4. \A i \in 1..Len(chain) : \A a \in References(chain[i]) : Wired(a)'
    BY <2>1 DEF IInv, RefersToWired
  <2>5. QED BY <1>2, <2>3, <2>4 DEF RefersToWired, References, SendsWired
<1>6. QED BY <1>4, <1>5 DEF IInv

-----------------------------------------------------------------------------
(* The chain *)

LEMMA ExecutedTypes ==
    ASSUME TypeOK, NEW tx \in Creations \union Settings \union Toggles, SendsWired(tx)
    PROVE  /\ Executed(tx) \in Seq(Contracts)
           /\ Len(Executed(tx)) = IF tx.op = "create" THEN Len(chain) + 1 ELSE Len(chain)
           /\ \A i \in 1..Len(chain) : Executed(tx)[i].key = chain[i].key
           /\ tx.op = "create" => Executed(tx)[Len(chain) + 1].key = tx.key
           /\ \A i \in 1..Len(Executed(tx)) : \A a \in References(Executed(tx)[i]) :
                  Wired(a) \/ (i <= Len(chain) /\ a \in References(chain[i]))
<1>1. CASE tx.op = "create"
  <2>1. tx \in Creations
    BY <1>1 DEF Creations, Settings, Toggles
  <2>2. Created(tx) \in Contracts /\ Created(tx).key = tx.key
        /\ References(Created(tx)) = tx.args
    BY <2>1 DEF Created, Creations, Contracts, References
  <2>3. Executed(tx) = Append(chain, Created(tx))
    BY <1>1 DEF Executed
  <2>4. chain \in Seq(Contracts)
    BY DEF TypeOK
  <2>5. /\ Executed(tx) \in Seq(Contracts) /\ Len(Executed(tx)) = Len(chain) + 1
        /\ \A i \in 1..Len(chain) : Executed(tx)[i] = chain[i]
        /\ Executed(tx)[Len(chain) + 1] = Created(tx)
    BY <2>2, <2>3, <2>4
  <2>6. \A a \in tx.args : Wired(a)
    BY <1>1 DEF SendsWired
  <2>7. ASSUME NEW i \in 1..Len(Executed(tx)), NEW a \in References(Executed(tx)[i])
        PROVE  Wired(a) \/ (i <= Len(chain) /\ a \in References(chain[i]))
    <3>1. CASE i = Len(chain) + 1
      BY <2>2, <2>5, <2>6, <2>7, <3>1
    <3>2. CASE i # Len(chain) + 1
      BY <2>4, <2>5, <2>7, <3>2
    <3>3. QED BY <3>1, <3>2
  <2>8. QED BY <1>1, <2>2, <2>5, <2>7
<1>2. CASE tx.op = "set"
  <2>1. tx \in Settings /\ tx.to \in 1..Len(chain) /\ \A t \in tx.told : Wired(t[2])
    BY <1>2 DEF Creations, Settings, Toggles, SendsWired
  <2> DEFINE old == chain[tx.to]
             told == {t \in old.told : \A u \in tx.told : u[1] # t[1]} \union tx.told
             owner == IF tx.final THEN "none" ELSE old.owner
             initialized == IF tx.initializes THEN TRUE ELSE old.initialized
             new == [old EXCEPT !.told = told, !.initialized = initialized, !.owner = owner]
  <2>2. chain \in Seq(Contracts) /\ old \in Contracts
    BY <2>1 DEF TypeOK
  <2>3. told \in SUBSET (Names \X Nat) /\ owner \in {"deployer", "none"}
        /\ initialized \in BOOLEAN
    BY <2>1, <2>2 DEF Settings, Contracts
  <2>4. /\ new \in Contracts /\ new.key = old.key /\ new.args = old.args
        /\ new.told = told /\ new.allowed = old.allowed
    BY <2>2, <2>3 DEF Contracts
  <2>5. Executed(tx) = chain \/ Executed(tx) = [chain EXCEPT ![tx.to] = new]
    BY <1>2 DEF Executed
  <2>6. \A a \in References(new) : Wired(a) \/ a \in References(old)
    BY <2>1, <2>4 DEF References
  <2> HIDE DEF new, told, initialized, owner
  <2>7. CASE Executed(tx) = chain
    BY <1>2, <2>2, <2>7
  <2>8. CASE Executed(tx) = [chain EXCEPT ![tx.to] = new]
    <3>1. /\ Executed(tx) \in Seq(Contracts) /\ Len(Executed(tx)) = Len(chain)
          /\ \A i \in 1..Len(chain) : Executed(tx)[i] = IF i = tx.to THEN new ELSE chain[i]
      BY <2>1, <2>2, <2>4, <2>8
    <3>2. QED BY <1>2, <2>4, <2>6, <3>1
  <2>9. QED BY <2>5, <2>7, <2>8
<1>3. CASE tx.op = "toggle"
  <2>1. tx \in Toggles /\ tx.to \in 1..Len(chain) /\ Wired(tx.of[2])
    BY <1>3 DEF Creations, Settings, Toggles, SendsWired
  <2> DEFINE old == chain[tx.to]
             allowed == IF tx.of \in old.allowed THEN old.allowed \ {tx.of}
                        ELSE old.allowed \union {tx.of}
             new == [old EXCEPT !.allowed = allowed]
  <2>2. chain \in Seq(Contracts) /\ old \in Contracts
    BY <2>1 DEF TypeOK
  <2>3. allowed \in SUBSET (Names \X Nat)
    BY <2>1, <2>2 DEF Toggles, Contracts
  <2>4. /\ new \in Contracts /\ new.key = old.key /\ new.args = old.args
        /\ new.told = old.told /\ new.allowed = allowed
    BY <2>2, <2>3 DEF Contracts
  <2>5. Executed(tx) = [chain EXCEPT ![tx.to] = new]
    BY <1>3 DEF Executed
  <2>6. \A a \in References(new) : Wired(a) \/ a \in References(old)
    BY <2>1, <2>4 DEF References
  <2> HIDE DEF new, allowed
  <2>7. /\ Executed(tx) \in Seq(Contracts) /\ Len(Executed(tx)) = Len(chain)
        /\ \A i \in 1..Len(chain) : Executed(tx)[i] = IF i = tx.to THEN new ELSE chain[i]
    BY <2>1, <2>2, <2>4, <2>5
  <2>8. QED BY <1>3, <2>4, <2>6, <2>7
<1>4. QED BY <1>1, <1>2, <1>3 DEF Creations, Settings, Toggles

LEMMA MineOK == IInv /\ Mine => IInv'
<1> SUFFICES ASSUME IInv, Mine PROVE IInv'
  OBVIOUS
<1> DEFINE tx == Head(mempool)
<1>1. /\ mempool # <<>> /\ chain' = Executed(tx) /\ mempool' = Tail(mempool)
      /\ UNCHANGED <<plan, stage, pc, known, saved, runs>>
  BY DEF Mine
<1>2. /\ Len(mempool) \in Nat \ {0} /\ tx = mempool[1]
      /\ tx \in Creations \union Settings \union Toggles
      /\ mempool' \in Seq(Creations \union Settings \union Toggles)
      /\ Len(mempool') = Len(mempool) - 1
      /\ \A i \in 1..Len(mempool') : mempool'[i] = mempool[i + 1]
  BY <1>1 DEF IInv, TypeOK
<1>3. SendsWired(tx)
  BY <1>2 DEF IInv, RefersToWired
<1>4. /\ chain' \in Seq(Contracts)
      /\ Len(chain') = IF tx.op = "create" THEN Len(chain) + 1 ELSE Len(chain)
      /\ \A i \in 1..Len(chain) : chain'[i].key = chain[i].key
      /\ tx.op = "create" => chain'[Len(chain) + 1].key = tx.key
      /\ \A i \in 1..Len(chain') : \A a \in References(chain'[i]) :
             Wired(a) \/ (i <= Len(chain) /\ a \in References(chain[i]))
  BY <1>1, <1>2, <1>3, ExecutedTypes DEF IInv
<1>5. Used' = Used /\ Len(chain) \in Nat /\ Len(chain) <= Len(chain')
  BY <1>1, <1>4 DEF Used, IInv, TypeOK
<1>6. TypeOK'
  BY <1>1, <1>2, <1>4 DEF IInv, TypeOK
<1>7. BooksAgree'
  BY <1>1, <1>4, <1>5 DEF IInv, BooksAgree
<1>8. KnowsItsSteps'
  BY <1>1, <1>2 DEF IInv, KnowsItsSteps, Step, Here
<1>9. AwaitsLast'
  <2>1. SUFFICES ASSUME stage = "wait", Step.op = "deploy" PROVE AwaitsLast'
    BY <1>1 DEF AwaitsLast, Step, Here
  <2> DEFINE key == Key(Here.token, Step.name)
  <2>2. /\ key \notin DOMAIN Used
        /\ mempool[Len(mempool)].op = "create" /\ mempool[Len(mempool)].key = key
    BY <1>1, <2>1 DEF IInv, AwaitsLast
  <2>3. CASE mempool' = <<>>
    <3>1. Len(mempool) = 1 /\ tx.op = "create" /\ tx.key = key
      <4>1. Len(mempool') = 0
        BY <2>3
      <4>2. Len(mempool) = 1
        BY <1>2, <4>1
      <4>3. QED BY <1>2, <2>2, <4>2
    <3>2. Len(chain') > 0 /\ chain'[Len(chain')].key = key
      BY <1>4, <1>5, <3>1
    <3>3. QED BY <1>1, <1>5, <2>2, <2>3, <3>2 DEF AwaitsLast, Step, Here
  <2>4. CASE mempool' # <<>>
    <3>1. mempool'[Len(mempool')] = mempool[Len(mempool)]
      BY <1>2, <2>4
    <3>2. QED BY <1>1, <1>5, <2>2, <2>4, <3>1 DEF AwaitsLast, Step, Here
  <2>5. QED BY <2>3, <2>4
<1>10. RefersToWired'
  <2>1. ASSUME NEW a, Wired(a) PROVE Wired(a)'
    BY <1>4, <1>5, <2>1, WiredStays DEF IInv, TypeOK
  <2>2. ASSUME NEW x, SendsWired(x) PROVE SendsWired(x)'
    BY <1>4, <1>5, <2>1, <2>2 DEF SendsWired
  <2>3. ASSUME NEW i \in 1..Len(mempool'), NEW x, x = mempool'[i]
        PROVE  SendsWired(x)'
    <3>1. i + 1 \in 1..Len(mempool) /\ x = mempool[i + 1]
      BY <1>2, <2>3
    <3>2. QED BY <2>2, <3>1 DEF IInv, RefersToWired
  <2>4. ASSUME NEW i \in 1..Len(chain'), NEW a \in References(chain'[i])
        PROVE  Wired(a)'
    <3>1. Wired(a)
      BY <1>4, <1>5, <2>4 DEF IInv, RefersToWired
    <3>2. QED BY <2>1, <3>1
  <2>5. QED BY <2>3, <2>4 DEF RefersToWired, References, SendsWired
<1>11. QED BY <1>6, <1>7, <1>8, <1>9, <1>10 DEF IInv

-----------------------------------------------------------------------------
(* The theorem *)

LEMMA InitOK == Init => IInv
<1> SUFFICES ASSUME Init PROVE IInv
  OBVIOUS
<1>1. DOMAIN known = {} /\ DOMAIN saved = {} /\ Used = <<>> /\ Len(chain) = 0 /\ Len(mempool) = 0
  BY DEF Init, Used
<1>2. QED BY <1>1 DEF Init, IInv, TypeOK, BooksAgree, KnowsItsSteps, AwaitsLast, RefersToWired

LEMMA StepOK == IInv /\ [Next]_vars => IInv'
<1> SUFFICES ASSUME IInv, [Next]_vars PROVE IInv'
  OBVIOUS
<1>1. CASE UNCHANGED vars
  <2>1. Used' = Used /\ UNCHANGED <<plan, stage, pc, known, saved, chain, mempool, runs>>
    BY <1>1 DEF vars, Used
  <2>2. TypeOK' /\ BooksAgree' /\ KnowsItsSteps' /\ AwaitsLast'
    BY <2>1 DEF IInv, TypeOK, BooksAgree, KnowsItsSteps, AwaitsLast, Step, Here
  <2>3. QED BY <2>1, <2>2, NothingNew DEF IInv
<1>2. CASE Next
  BY <1>2, StartOK, LoadOK, DeployOK, SaveOK, CheckOK, SendSettersOK, SetOK, EndOK, CrashOK,
     MineOK DEF Next, Script
<1>3. QED BY <1>1, <1>2

\* A contract that the file or the running script knows has been given, by its
\* constructor, its setters and its switches, the addresses of such contracts only.
\* A contract that was created and not saved before a crash is never passed on,
\* however often the script is run again: deploy, loadOrDeploy and the setters of
\* the deployment helpers.
THEOREM FileIsClosed == Spec => []WiredToSaved
<1>1. IInv => WiredToSaved
  <2> SUFFICES ASSUME IInv PROVE WiredToSaved
    OBVIOUS
  <2>1. DOMAIN InUse = DOMAIN Used /\ \A key \in DOMAIN Used : InUse[key] = Used[key]
    <3>1. CASE plan \in Saving
      BY <3>1 DEF IInv, BooksAgree, InUse, Used
    <3>2. CASE plan \notin Saving
      BY <3>2 DEF IInv, BooksAgree, InUse, Used
    <3>3. QED BY <3>1, <3>2
  <2>2. \A key \in DOMAIN Used : Used[key] \in 1..Len(chain)
    BY DEF IInv, BooksAgree
  <2>3. QED BY <2>1, <2>2 DEF IInv, RefersToWired, WiredToSaved, Wired
<1>2. QED BY <1>1, InitOK, StepOK, PTL DEF Spec

-----------------------------------------------------------------------------
(* What the setters have done *)

\* The names of the contracts that a has been told of.
NamesIn(told) == {t[1] : t \in told}
ToldTo(a) == NamesIn(chain[a].told)
Initialized(a) == chain[a].initialized

\* A setter has been executed, or others have done the same.
Done(s) ==
    /\ s.key \in DOMAIN Used
    /\ s.tell.links \subseteq ToldTo(Used[s.key])
    /\ s.tell.op = "initialize" => Initialized(Used[s.key])
    /\ s.tell.final => Renounced(Used[s.key])

\* What must be true when a contract is given away that knows the names by then.
Complete(key, names) ==
    \A s \in Setters[plan] :
        /\ s.key = key => s.tell.links \subseteq names
        /\ s.key = key /\ s.tell.op = "initialize" => Done(s)
        /\ s.asked = key /\ s.key # key => Done(s)

\* A contract that has been given away is in use and has been told everything.
GivenAwayComplete ==
    \A a \in 1..Len(chain) : Renounced(a) => Wired(a) /\ Complete(chain[a].key, ToldTo(a))

\* A setter that was sent, by this run or one that crashed, gives away no contract
\* that it does not complete.
SendsComplete(tx) ==
    tx.op = "set" =>
        /\ Wired(tx.to)
        /\ tx.final => Complete(chain[tx.to].key, ToldTo(tx.to) \union NamesIn(tx.told))

Promises ==
    /\ GivenAwayComplete
    /\ \A m \in 1..Len(mempool) : SendsComplete(mempool[m])

Carries(tx, s) ==
    /\ tx.op = "set" /\ tx.to = Used[s.key]
    /\ s.tell.links \subseteq NamesIn(tx.told)
    /\ s.tell.op = "initialize" => tx.initializes
    /\ s.tell.final => tx.final

Sent(s) == s.key \in DOMAIN Used /\ \E m \in 1..Len(mempool) : Carries(mempool[m], s)

\* The setters of the steps behind a run are done, and those it waits for are done
\* or sent.
SettersDone ==
    /\ stage \in {"run", "send", "wait", "done"} =>
          \A s \in Setters[plan] : s.at < pc => Done(s)
    /\ stage = "wait" => \A s \in Setters[plan] : s.at = pc => Done(s) \/ Sent(s)
    /\ stage = "done" => pc \notin DOMAIN Programs[plan] /\ DOMAIN known = CreatedBefore(plan, pc)

-----------------------------------------------------------------------------
(* What the switches of a first run have done *)

Flipping == stage = "wait" /\ Step.op = "toggle"
Flipped == IF Flipping /\ mempool = <<>> THEN pc + 1 ELSE pc

FirstRun == runs = 1 /\ stage \in {"run", "send", "wait", "done"}

\* Nothing is on its way but what this run waits for; the switches behind it are
\* on, and no others.
SwitchesFlipped ==
    FirstRun =>
    /\ stage # "wait" => mempool = <<>>
    /\ \A m \in 1..Len(mempool) : mempool[m].op = "toggle" =>
          /\ Flipping /\ Len(mempool) = 1
          /\ mempool[m].to = At(Step.target) /\ mempool[m].of = <<Step.of, At(Step.of)>>
    /\ Flipping /\ mempool # <<>> => mempool[1].op = "toggle"
    /\ \A w \in Switches[plan] : w.at < Flipped =>
          <<w.of, known[w.other]>> \in chain[known[w.key]].allowed
    /\ \A a \in 1..Len(chain) : \A pr \in chain[a].allowed :
          \E w \in Switches[plan] :
              w.at < Flipped /\ known[w.key] = a /\ w.of = pr[1] /\ known[w.other] = pr[2]

\* The invariant behind CompleteWhenDone.
CInv == IInv /\ Promises /\ SettersDone /\ SwitchesFlipped

-----------------------------------------------------------------------------
(* The programs *)

LEMMA KeyNames ==
    ASSUME NEW token, NEW name
    PROVE  Key(token, name)[2] = name
<1>1. CASE name \in Shared
  <2>1. \A first : <<first, name>>[2] = name
    OBVIOUS
  <2>2. QED BY ONLY <1>1, <2>1, Zenon DEF Key
<1>2. CASE name \notin Shared
  <2>1. Key(token, name) = <<token, name>>
    BY <1>2 DEF Key
  <2>2. QED BY <2>1
<1>3. QED BY <1>1, <1>2

LEMMA Places ==
    ASSUME NEW p \in Plans
    PROVE  /\ Len(Programs[p]) \in Nat /\ DOMAIN Programs[p] = 1..Len(Programs[p])
           /\ \A i \in Nat, j \in Nat : i <= j => CreatedBefore(p, i) \subseteq CreatedBefore(p, j)
<1>1. Len(Programs[p]) \in Nat /\ DOMAIN Programs[p] = 1..Len(Programs[p])
  BY OrderAssumption
<1>2. ASSUME NEW i \in Nat, NEW j \in Nat, i <= j
      PROVE  CreatedBefore(p, i) \subseteq CreatedBefore(p, j)
  <2>1. 1..(i - 1) \subseteq 1..(j - 1)
    BY <1>2
  <2>2. QED BY <2>1 DEF CreatedBefore
<1>3. QED BY <1>1, <1>2

\* A setter of Setters is one that its step calls, and passes on what has been created.
LEMMA SettersAre ==
    ASSUME NEW p \in Plans, NEW s \in Setters[p]
    PROVE  LET entry == Programs[p][s.at]
           IN  /\ s.at \in DOMAIN Programs[p] /\ s.at \in Nat
               /\ entry.step.op \in Calling
               /\ s.tell \in Addressed(entry.step)
               /\ s.key = Key(entry.token, s.tell.target)
               /\ s.asked = IF entry.step.op = "tell" THEN Key(entry.token, entry.step.guard) ELSE s.key
               /\ s.key \in CreatedBefore(p, s.at) /\ s.asked \in CreatedBefore(p, s.at)
<1>1. PICK i \in DOMAIN Programs[p] :
          /\ Programs[p][i].step.op \in Calling
          /\ s \in SettersIn(Programs[p][i], i)
  BY DEF Setters
<1> DEFINE entry == Programs[p][i]
<1>2. PICK t \in Addressed(entry.step) :
          s = [at |-> i, key |-> Key(entry.token, t.target), tell |-> t,
               asked |-> Key(entry.token, IF entry.step.op = "tell" THEN entry.step.guard
                                          ELSE t.target)]
  BY <1>1 DEF SettersIn
<1>3. /\ s.at = i /\ s.tell = t /\ s.key = Key(entry.token, t.target)
      /\ s.asked = IF entry.step.op = "tell" THEN Key(entry.token, entry.step.guard) ELSE s.key
  BY <1>2
<1>4. t.target \in PassedOn(entry.step)
  BY <1>1, <1>2 DEF PassedOn, Calling
<1>5. s.key \in CreatedBefore(p, i) /\ s.asked \in CreatedBefore(p, i)
  <2>1. s.key \in CreatedBefore(p, i)
    BY <1>3, <1>4, ProgramAssumption
  <2>2. entry.step.op = "tell" =>
            Key(entry.token, entry.step.guard) \in CreatedBefore(p, i)
    BY ProgramAssumption
  <2>3. QED BY <1>3, <2>1, <2>2
<1>6. i \in Nat
  BY Places
<1>7. QED BY <1>1, <1>3, <1>5, <1>6

LEMMA SettersOfStep ==
    ASSUME NEW p \in Plans, NEW i \in DOMAIN Programs[p],
           Programs[p][i].step.op \in Calling,
           NEW t \in Addressed(Programs[p][i].step)
    PROVE  \E s \in Setters[p] :
              s.at = i /\ s.tell = t /\ s.key = Key(Programs[p][i].token, t.target)
<1> DEFINE entry == Programs[p][i]
           s == [at |-> i, key |-> Key(entry.token, t.target), tell |-> t,
                 asked |-> Key(entry.token, IF entry.step.op = "tell" THEN entry.step.guard
                                            ELSE t.target)]
<1>1. s \in SettersIn(entry, i)
  BY DEF SettersIn
<1>2. s \in Setters[p]
  BY <1>1 DEF Setters
<1>3. s.at = i /\ s.tell = t /\ s.key = Key(entry.token, t.target)
  OBVIOUS
<1>4. QED BY <1>2, <1>3

LEMMA SwitchesAre ==
    ASSUME NEW p \in Plans, NEW w \in Switches[p]
    PROVE  LET entry == Programs[p][w.at]
           IN  /\ w.at \in DOMAIN Programs[p] /\ w.at \in Nat /\ entry.step.op = "toggle"
               /\ w.key = Key(entry.token, entry.step.target)
               /\ w.of = entry.step.of /\ w.other = Key(entry.token, entry.step.of)
               /\ w.key \in CreatedBefore(p, w.at) /\ w.other \in CreatedBefore(p, w.at)
<1>1. PICK i \in DOMAIN Programs[p] :
          Programs[p][i].step.op = "toggle" /\ w = SwitchIn(Programs[p][i], i)
  BY DEF Switches
<1> DEFINE entry == Programs[p][i]
<1>2. /\ w.at = i /\ w.key = Key(entry.token, entry.step.target)
      /\ w.of = entry.step.of /\ w.other = Key(entry.token, entry.step.of)
  BY <1>1 DEF SwitchIn
<1>3. entry.step.target \in PassedOn(entry.step) /\ entry.step.of \in PassedOn(entry.step)
  BY <1>1 DEF PassedOn
<1>4. w.key \in CreatedBefore(p, i) /\ w.other \in CreatedBefore(p, i)
  <2>1. \A name \in PassedOn(entry.step) : Key(entry.token, name) \in CreatedBefore(p, i)
    BY ProgramAssumption
  <2>2. QED BY <1>2, <1>3, <2>1
<1>5. i \in Nat
  BY Places
<1>6. QED BY <1>1, <1>2, <1>4, <1>5

LEMMA SwitchOfStep ==
    ASSUME NEW p \in Plans, NEW i \in DOMAIN Programs[p], Programs[p][i].step.op = "toggle"
    PROVE  \E w \in Switches[p] :
              /\ w.at = i /\ w.key = Key(Programs[p][i].token, Programs[p][i].step.target)
              /\ w.of = Programs[p][i].step.of
              /\ w.other = Key(Programs[p][i].token, Programs[p][i].step.of)
<1>1. SwitchIn(Programs[p][i], i) \in Switches[p]
  BY DEF Switches
<1>2. QED BY <1>1 DEF SwitchIn

\* What is sent in a setter's place is no toggle.
LEMMA OpsOfSetters ==
    ASSUME NEW p \in Plans, NEW i \in DOMAIN Programs[p],
           Programs[p][i].step.op \in Calling,
           NEW t \in Addressed(Programs[p][i].step)
    PROVE  t.op # "toggle"
<1>1. PICK s \in Setters[p] : s.tell = t
  BY SettersOfStep
<1>2. QED BY <1>1, OrderAssumption DEF Calling

-----------------------------------------------------------------------------
(* What has been done stays done *)

\* The books and the contracts' addresses only grow, and no ownership comes back.
Grows ==
    /\ plan' = plan
    /\ \A a : Wired(a) => Wired(a)'
    /\ \A key \in DOMAIN Used : key \in DOMAIN Used' /\ Used'[key] = Used[key]
    /\ \A a \in 1..Len(chain) :
          /\ chain'[a].key = chain[a].key
          /\ ToldTo(a) \subseteq ToldTo(a)'
          /\ Initialized(a) => Initialized(a)'
          /\ Renounced(a) => Renounced(a)'

LEMMA DoneStays ==
    ASSUME BooksAgree, Grows, NEW s, Done(s)
    PROVE  Done(s)'
<1>1. s.key \in DOMAIN Used' /\ Used'[s.key] = Used[s.key] /\ Used[s.key] \in 1..Len(chain)
  BY DEF Done, Grows, BooksAgree
<1>2. PICK a \in 1..Len(chain) : a = Used[s.key] /\ a = Used'[s.key]
  BY <1>1
<1>3. /\ s.tell.links \subseteq ToldTo(a)
      /\ s.tell.op = "initialize" => Initialized(a)
      /\ s.tell.final => Renounced(a)
  BY <1>2 DEF Done
<1>4. /\ s.tell.links \subseteq ToldTo(a)'
      /\ s.tell.op = "initialize" => Initialized(a)'
      /\ s.tell.final => Renounced(a)'
  BY <1>3 DEF Grows
<1>5. QED BY <1>1, <1>2, <1>4 DEF Done

LEMMA CompleteStays ==
    ASSUME BooksAgree, Grows, NEW key, NEW names, NEW more, names \subseteq more,
           Complete(key, names)
    PROVE  Complete(key, more)'
<1>1. \A s : Done(s) => Done(s)'
  BY DoneStays
<1>2. QED BY <1>1 DEF Complete, Grows

\* What was sent and is not mined yet keeps its promise.
LEMMA SendsStay ==
    ASSUME BooksAgree, Grows, NEW tx, SendsComplete(tx)
    PROVE  SendsComplete(tx)'
<1> SUFFICES ASSUME tx.op = "set" PROVE Wired(tx.to)' /\ (tx.final =>
              Complete(chain[tx.to].key, ToldTo(tx.to) \union NamesIn(tx.told))')
  BY DEF SendsComplete
<1>1. Wired(tx.to) /\ Wired(tx.to)'
  BY DEF SendsComplete, Grows
<1>2. PICK a \in 1..Len(chain) : a = tx.to
  BY <1>1 DEF Wired
<1>3. ASSUME tx.final
      PROVE  Complete(chain[a].key, ToldTo(a) \union NamesIn(tx.told))'
  <2>1. Complete(chain[a].key, ToldTo(a) \union NamesIn(tx.told))
    BY <1>2, <1>3 DEF SendsComplete
  <2>2. chain'[a].key = chain[a].key /\ ToldTo(a) \subseteq ToldTo(a)'
    BY DEF Grows
  <2>3. PICK key, names, more :
            /\ key = chain[a].key /\ names = ToldTo(a) \union NamesIn(tx.told)
            /\ more = ToldTo(a)' \union NamesIn(tx.told)
    OBVIOUS
  <2>4. Complete(key, more)'
    BY <2>1, <2>2, <2>3, CompleteStays
  <2>5. QED BY <2>2, <2>3, <2>4 DEF Complete, NamesIn
<1>4. QED BY <1>1, <1>2, <1>3

LEMMA SendsKept ==
    ASSUME BooksAgree, Grows,
           \A m \in 1..Len(mempool') : \E tx : tx = mempool'[m] /\ SendsComplete(tx)
    PROVE  \A m \in 1..Len(mempool') : SendsComplete(mempool[m])'
<1>1. ASSUME NEW m \in 1..Len(mempool') PROVE SendsComplete(mempool[m])'
  <2>1. PICK tx : tx = mempool'[m] /\ SendsComplete(tx)
    OBVIOUS
  <2>2. SendsComplete(tx)'
    BY <2>1, SendsStay
  <2>3. QED BY <2>1, <2>2 DEF SendsComplete
<1>2. QED BY <1>1

\* As long as nothing is mined, what was given away stays complete.
LEMMA GivenAwayStays ==
    ASSUME BooksAgree, Grows, GivenAwayComplete, UNCHANGED chain
    PROVE  GivenAwayComplete'
<1>1. ASSUME NEW a \in 1..Len(chain), Renounced(a)
      PROVE  Wired(a)' /\ Complete(chain[a].key, ToldTo(a))'
  <2>1. Wired(a) /\ Complete(chain[a].key, ToldTo(a)) /\ Wired(a)'
    BY <1>1 DEF GivenAwayComplete, Grows
  <2>2. PICK key, names : key = chain[a].key /\ names = ToldTo(a) /\ names = ToldTo(a)'
    BY DEF ToldTo
  <2>3. Complete(key, names)'
    BY <2>1, <2>2, CompleteStays
  <2>4. QED BY <2>1, <2>2, <2>3 DEF Complete
<1>2. QED BY <1>1 DEF GivenAwayComplete, Renounced

LEMMA PromisesStay ==
    ASSUME BooksAgree, Grows, Promises, UNCHANGED <<chain, mempool>>
    PROVE  Promises'
BY GivenAwayStays, SendsKept DEF Promises

LEMMA GrowsIfStill ==
    ASSUME TypeOK, UNCHANGED <<plan, chain>>,
           \A key \in DOMAIN Used : key \in DOMAIN Used' /\ Used'[key] = Used[key]
    PROVE  Grows
<1>1. ASSUME NEW a, Wired(a) PROVE Wired(a)'
  BY <1>1 DEF Wired
<1>2. QED BY <1>1 DEF Grows, ToldTo, Initialized, Renounced

-----------------------------------------------------------------------------
(* The steps of a script, again *)

\* What a run has come by it knows, and its setters are addressed to.
LEMMA KnownSoFar ==
    ASSUME IInv, stage \in {"run", "send", "wait"}
    PROVE  /\ \A s \in Setters[plan] : s.at <= pc => s.key \in DOMAIN known /\ s.asked \in DOMAIN known
           /\ \A w \in Switches[plan] : w.at <= pc => w.key \in DOMAIN known /\ w.other \in DOMAIN known
<1>1. DOMAIN known = CreatedBefore(plan, pc) /\ pc \in Nat /\ plan \in Plans
  BY DEF IInv, TypeOK, KnowsItsSteps
<1>2. \A i \in Nat : i <= pc => CreatedBefore(plan, i) \subseteq DOMAIN known
  BY <1>1, Places
<1>3. ASSUME NEW s \in Setters[plan], s.at <= pc
      PROVE  s.key \in DOMAIN known /\ s.asked \in DOMAIN known
  BY <1>1, <1>2, <1>3, SettersAre
<1>4. ASSUME NEW w \in Switches[plan], w.at <= pc
      PROVE  w.key \in DOMAIN known /\ w.other \in DOMAIN known
  BY <1>1, <1>2, <1>4, SwitchesAre
<1>5. QED BY <1>3, <1>4

\* A run goes on to the next step, with all setters of this one done and its switch
\* flipped.
LEMMA GoesOn ==
    ASSUME CInv, stage \in {"run", "wait"}, pc \in DOMAIN Programs[plan],
           stage' = "run", pc' = pc + 1, UNCHANGED <<plan, chain, mempool, runs>>,
           \A key \in DOMAIN Used : key \in DOMAIN Used' /\ Used'[key] = Used[key],
           \A key \in DOMAIN known : key \in DOMAIN known' /\ known'[key] = known[key],
           \A s \in Setters[plan] : s.at = pc => Done(s),
           stage = "wait" => mempool = <<>>,
           FirstRun /\ Step.op = "toggle" => stage = "wait"
    PROVE  Promises' /\ SettersDone' /\ SwitchesFlipped'
<1>1. Grows /\ pc \in Nat /\ plan \in Plans
  BY GrowsIfStill DEF CInv, IInv, TypeOK
<1>2. Promises'
  BY <1>1, PromisesStay DEF CInv, IInv
<1>3. SettersDone'
  <2>1. ASSUME NEW s \in Setters[plan], s.at < pc + 1 PROVE Done(s)'
    <3>1. s.at \in Nat
      BY <1>1, SettersAre
    <3>2. s.at < pc \/ s.at = pc
      BY <1>1, <2>1, <3>1
    <3>3. Done(s)
      BY <3>2 DEF CInv, SettersDone
    <3>4. QED BY <1>1, <3>3, DoneStays DEF CInv, IInv
  <2>2. QED BY <2>1 DEF SettersDone
<1>4. SwitchesFlipped'
  <2>1. SUFFICES ASSUME FirstRun PROVE SwitchesFlipped'
    BY DEF SwitchesFlipped, FirstRun
  <2>2. mempool' = <<>> /\ Len(mempool') = 0 /\ Flipped' = pc + 1
    BY <2>1 DEF CInv, SwitchesFlipped, Flipped, Flipping
  <2>3. Flipped = IF Step.op = "toggle" THEN pc + 1 ELSE pc
    BY <2>1, <2>2 DEF Flipped, Flipping
  <2>4. ASSUME NEW w \in Switches[plan], w.at < pc + 1
        PROVE  w.at < Flipped /\ known'[w.key] = known[w.key] /\ known'[w.other] = known[w.other]
    <3>1. w.at \in Nat /\ Programs[plan][w.at].step.op = "toggle"
      BY <1>1, SwitchesAre
    <3>2. w.at <= pc
      BY <1>1, <2>4, <3>1
    <3>3. w.key \in DOMAIN known /\ w.other \in DOMAIN known
      BY <3>2, KnownSoFar DEF CInv
    <3>4. w.at = pc => Step.op = "toggle"
      BY <3>1 DEF Step, Here
    <3>5. w.at < Flipped
      BY <1>1, <2>3, <2>4, <3>1, <3>4
    <3>6. QED BY <3>3, <3>5
  <2>5. /\ \A w \in Switches[plan] : w.at < pc + 1 =>
              <<w.of, known'[w.other]>> \in chain[known'[w.key]].allowed
        /\ \A a \in 1..Len(chain) : \A pr \in chain[a].allowed :
              \E w \in Switches[plan] :
                  w.at < pc + 1 /\ known'[w.key] = a /\ w.of = pr[1] /\ known'[w.other] = pr[2]
    <3>1. ASSUME NEW w \in Switches[plan], w.at < pc + 1
          PROVE  <<w.of, known'[w.other]>> \in chain[known'[w.key]].allowed
      BY <2>1, <2>4, <3>1 DEF CInv, SwitchesFlipped
    <3>2. ASSUME NEW a \in 1..Len(chain), NEW pr \in chain[a].allowed
          PROVE  \E w \in Switches[plan] :
                  w.at < pc + 1 /\ known'[w.key] = a /\ w.of = pr[1] /\ known'[w.other] = pr[2]
      <4>1. PICK w \in Switches[plan] :
                w.at < Flipped /\ known[w.key] = a /\ w.of = pr[1] /\ known[w.other] = pr[2]
        BY <2>1 DEF CInv, SwitchesFlipped
      <4>2. w.at < pc + 1
        BY <1>1, <2>3, <4>1, SwitchesAre
      <4>3. QED BY <2>4, <4>1, <4>2
    <3>3. QED BY <3>1, <3>2
  <2>6. QED BY <2>2, <2>5 DEF SwitchesFlipped, Flipping
<1>5. QED BY <1>2, <1>3, <1>4

LEMMA NoSettersToCreate ==
    ASSUME CInv, Step.op \notin Calling
    PROVE  \A s \in Setters[plan] : s.at # pc
BY SettersAre DEF CInv, IInv, TypeOK, Step, Here

LEMMA LoadGoesOn == CInv /\ Load => Promises' /\ SettersDone' /\ SwitchesFlipped'
<1> SUFFICES ASSUME CInv, Load PROVE Promises' /\ SettersDone' /\ SwitchesFlipped'
  OBVIOUS
<1> DEFINE key == Key(Here.token, Step.name)
<1>1. /\ stage = "run" /\ pc \in DOMAIN Programs[plan] /\ Step.op = "deploy"
      /\ key \in DOMAIN saved /\ known' = Entered(known, key, saved[key])
      /\ pc' = pc + 1 /\ stage' = "run"
      /\ UNCHANGED <<plan, saved, chain, mempool, runs>>
  BY DEF Load, Running, Advance
<1>2. plan \in Saving /\ \A k \in DOMAIN known : saved[k] = known[k]
  BY <1>1 DEF CInv, IInv, BooksAgree
<1>3. \A k \in DOMAIN known : k \in DOMAIN known' /\ known'[k] = known[k]
  BY <1>1, <1>2 DEF Entered
<1>4. Used' = Used
  BY <1>1, <1>2 DEF Used
<1>5. QED BY <1>1, <1>3, <1>4, GoesOn, NoSettersToCreate DEF Calling

LEMMA SaveGoesOn == CInv /\ Save => Promises' /\ SettersDone' /\ SwitchesFlipped'
<1> SUFFICES ASSUME CInv, Save PROVE Promises' /\ SettersDone' /\ SwitchesFlipped'
  OBVIOUS
<1> DEFINE key == Key(Here.token, Step.name)
<1>1. /\ stage = "wait" /\ Step.op = "deploy" /\ mempool = <<>>
      /\ known' = Entered(known, key, Len(chain))
      /\ saved' = IF plan \in Saving THEN Entered(saved, key, Len(chain)) ELSE saved
      /\ pc' = pc + 1 /\ stage' = "run"
      /\ UNCHANGED <<plan, chain, mempool, runs>>
  BY DEF Save, Advance
<1>2. pc \in DOMAIN Programs[plan] /\ key \notin DOMAIN Used
  BY <1>1 DEF CInv, IInv, KnowsItsSteps, AwaitsLast
<1>3. key \notin DOMAIN known
  BY <1>2, KnownIsUsed DEF CInv, IInv
<1>4. \A k \in DOMAIN known : k \in DOMAIN known' /\ known'[k] = known[k]
  BY <1>1, <1>3 DEF Entered
<1>5. \A k \in DOMAIN Used : k \in DOMAIN Used' /\ Used'[k] = Used[k]
  BY <1>1, <1>2 DEF Used, Entered
<1>6. QED BY <1>1, <1>2, <1>4, <1>5, GoesOn, NoSettersToCreate DEF Calling

LEMMA SetGoesOn == CInv /\ Set => Promises' /\ SettersDone' /\ SwitchesFlipped'
<1> SUFFICES ASSUME CInv, Set PROVE Promises' /\ SettersDone' /\ SwitchesFlipped'
  OBVIOUS
<1>1. /\ stage = "wait" /\ mempool = <<>> /\ pc' = pc + 1 /\ stage' = "run"
      /\ UNCHANGED <<plan, known, saved, chain, mempool, runs>>
  BY DEF Set, Advance
<1>2. pc \in DOMAIN Programs[plan] /\ Used' = Used /\ Len(mempool) = 0
  BY <1>1 DEF CInv, IInv, KnowsItsSteps, Used
<1>3. \A s \in Setters[plan] : s.at = pc => Done(s)
  BY <1>1, <1>2 DEF CInv, SettersDone, Sent
<1>4. QED BY <1>1, <1>2, <1>3, GoesOn

\* Everything stays: a run that asks and will send, or that has come to its end.
LEMMA AsksGoesOn ==
    ASSUME CInv, stage = "run",
           \/ stage' = "send"
           \/ stage' = "done" /\ pc \notin DOMAIN Programs[plan],
           UNCHANGED <<plan, pc, known, saved, chain, mempool, runs>>
    PROVE  Promises' /\ SettersDone' /\ SwitchesFlipped'
<1>1. Used' = Used
  BY DEF Used
<1>2. Grows
  BY <1>1, GrowsIfStill DEF CInv, IInv
<1>3. Promises'
  BY <1>2, PromisesStay DEF CInv, IInv
<1>4. SettersDone'
  <2>1. \A s \in Setters[plan] : s.at < pc => Done(s)'
    BY <1>2, DoneStays DEF CInv, IInv, SettersDone
  <2>2. QED BY <2>1 DEF SettersDone, CInv, IInv, KnowsItsSteps
<1>5. SwitchesFlipped'
  <2>1. Flipped' = Flipped /\ ~Flipping /\ ~Flipping'
    BY DEF Flipped, Flipping
  <2>2. QED BY <2>1 DEF CInv, SwitchesFlipped, FirstRun
<1>6. QED BY <1>3, <1>4, <1>5

LEMMA StartGoesOn == CInv /\ Start => Promises' /\ SettersDone' /\ SwitchesFlipped'
<1> SUFFICES ASSUME CInv, Start PROVE Promises' /\ SettersDone' /\ SwitchesFlipped'
  OBVIOUS
<1>1. /\ pc' = 1 /\ known' = <<>> /\ stage' = "run" /\ runs' = runs + 1
      /\ runs > 0 => plan \in Saving
      /\ UNCHANGED <<plan, saved, chain, mempool>>
  BY DEF Start
<1>2. Used' = Used /\ plan \in Plans /\ runs \in Nat
  BY <1>1 DEF CInv, IInv, TypeOK, KnowsItsSteps, Used
<1>3. Promises'
  BY <1>1, <1>2, GrowsIfStill, PromisesStay DEF CInv, IInv
<1>4. SettersDone'
  <2>1. \A s \in Setters[plan] : ~(s.at < 1)
    BY <1>2, SettersAre, Places
  <2>2. QED BY <1>1, <2>1 DEF SettersDone
<1>5. SwitchesFlipped'
  <2>1. SUFFICES ASSUME FirstRun' PROVE SwitchesFlipped'
    BY DEF SwitchesFlipped
  <2>2. chain' = <<>> /\ mempool' = <<>>
    BY <1>1, <1>2, <2>1 DEF FirstRun, CInv, IInv, KnowsItsSteps
  <2>3. Len(chain') = 0 /\ Len(mempool') = 0
    BY <2>2
  <2>4. Flipped' = 1 /\ ~Flipping'
    BY <1>1 DEF Flipped, Flipping
  <2>5. \A w \in Switches[plan] : ~(w.at < 1)
    BY <1>2, SwitchesAre, Places
  <2>6. QED BY <1>1, <2>2, <2>3, <2>4, <2>5 DEF SwitchesFlipped
<1>6. QED BY <1>3, <1>4, <1>5

LEMMA StopGoesOn == CInv /\ (Crash \/ Fail) => Promises' /\ SettersDone' /\ SwitchesFlipped'
<1> SUFFICES ASSUME CInv, Crash \/ Fail PROVE Promises' /\ SettersDone' /\ SwitchesFlipped'
  OBVIOUS
<1>1. stage' \in {"idle", "failed"} /\ UNCHANGED <<plan, saved, chain, mempool>>
  BY DEF Crash, Fail
<1>2. Used' = Used
  BY <1>1 DEF Crash, Fail, Used
<1>3. Promises'
  BY <1>1, <1>2, GrowsIfStill, PromisesStay DEF CInv, IInv
<1>4. QED BY <1>1, <1>3 DEF SettersDone, SwitchesFlipped, FirstRun

LEMMA CheckGoesOn == CInv /\ Check => Promises' /\ SettersDone' /\ SwitchesFlipped'
<1> SUFFICES ASSUME CInv, Check PROVE Promises' /\ SettersDone' /\ SwitchesFlipped'
  OBVIOUS
<1>1. /\ stage = "run" /\ pc \in DOMAIN Programs[plan] /\ plan \in Plans /\ pc \in Nat
      /\ UNCHANGED <<plan, known, saved, chain, mempool, runs>>
      /\ Used' = Used
  BY DEF Check, Running, CInv, IInv, TypeOK, Used
<1>2. CASE stage' = "send" /\ pc' = pc
  BY <1>1, <1>2, AsksGoesOn
<1>3. CASE Step.op = "tell" /\ Renounced(At(Step.guard)) /\ Advance
  <2>1. ASSUME NEW s \in Setters[plan], s.at = pc PROVE Done(s)
    <3>1. s.asked = Key(Here.token, Step.guard)
      BY <1>1, <1>3, <2>1, SettersAre DEF Step, Here
    <3>2. s.key \in DOMAIN known /\ s.asked \in DOMAIN known
      BY <1>1, <2>1, KnownSoFar DEF CInv
    <3>3. /\ s.key \in DOMAIN Used
          /\ s.asked \in DOMAIN Used /\ Used[s.asked] = known[s.asked]
      BY <3>2, KnownIsUsed DEF CInv, IInv
    <3>4. PICK a \in 1..Len(chain) : a = Used[s.asked] /\ chain[a].key = s.asked
      BY <3>3 DEF CInv, IInv, BooksAgree
    <3>5. Renounced(a)
      BY <1>3, <3>1, <3>3, <3>4 DEF At
    <3>6. Complete(s.asked, ToldTo(a))
      BY <3>4, <3>5 DEF CInv, Promises, GivenAwayComplete
    <3>7. CASE s.key = s.asked
      BY <3>3, <3>4, <3>5, <3>6, <3>7 DEF Complete, Done
    <3>8. CASE s.key # s.asked
      BY <3>6, <3>8 DEF Complete
    <3>9. QED BY <3>7, <3>8
  <2>2. QED BY <1>1, <1>3, <2>1, GoesOn DEF Advance
<1>4. CASE /\ Step.op = "toggle" /\ Advance
           /\ <<Step.of, At(Step.checked)>> \in chain[At(Step.target)].allowed
  <2>1. ASSUME FirstRun PROVE FALSE
    <3>1. PICK v \in Switches[plan] :
              /\ v.at = pc /\ v.key = Key(Here.token, Step.target)
              /\ v.of = Step.of /\ v.other = Key(Here.token, Step.of)
      BY <1>1, <1>4, SwitchOfStep DEF Step, Here
    <3>2. PICK checked : checked = Key(Here.token, Step.checked)
      OBVIOUS
    <3>3. v.key \in DOMAIN known /\ checked \in DOMAIN known
      <4>1. checked \in CreatedBefore(plan, pc)
        BY <1>1, <1>4, <3>2, ProgramAssumption DEF Step, Here
      <4>2. QED BY <1>1, <3>1, <4>1, KnownSoFar DEF CInv, IInv, KnowsItsSteps
    <3>4. \A k \in DOMAIN known : known[k] \in 1..Len(chain) /\ chain[known[k]].key = k
      BY KnownIsUsed DEF CInv, IInv, BooksAgree
    <3>5. known[v.key] = At(Step.target) /\ known[checked] = At(Step.checked)
      BY <3>1, <3>2 DEF At
    <3>6. PICK pr \in chain[known[v.key]].allowed : pr[1] = v.of /\ pr[2] = known[checked]
      BY <1>4, <3>1, <3>5
    <3>7. Flipped = pc
      BY <1>1 DEF Flipped, Flipping
    <3>8. PICK w \in Switches[plan] :
              /\ w.at < pc /\ known[w.key] = known[v.key]
              /\ w.of = v.of /\ known[w.other] = known[checked]
      BY <2>1, <3>3, <3>4, <3>6, <3>7 DEF CInv, SwitchesFlipped
    <3>9. w.at \in Nat /\ w.other = Key(Programs[plan][w.at].token, w.of)
      BY <1>1, SwitchesAre
    <3>10. w.key \in DOMAIN known /\ w.other \in DOMAIN known
      BY <1>1, <3>8, <3>9, KnownSoFar DEF CInv
    <3>11. w.key = v.key /\ w.other = checked
      BY <3>3, <3>4, <3>8, <3>10
    <3>12. w.of = Step.checked
      <4>1. checked[2] = Step.checked /\ w.other[2] = w.of
        BY <3>2, <3>9, KeyNames
      <4>2. QED BY <3>11, <4>1
    <3>13. w.other = v.other
      BY <3>1, <3>2, <3>8, <3>11, <3>12
    <3>14. w = v
      BY <1>1, <3>11, <3>13, OrderAssumption
    <3>15. QED BY <1>1, <3>1, <3>8, <3>14
  <2>2. \A s \in Setters[plan] : s.at # pc
    BY <1>4, NoSettersToCreate DEF Calling
  <2>3. QED BY <1>1, <1>4, <2>1, <2>2, GoesOn DEF Advance
<1>5. CASE Step.op = "initialize" /\ chain[At(Step.target)].initialized /\ Advance
  <2>1. ASSUME NEW s \in Setters[plan], s.at = pc PROVE Done(s)
    <3>1. s.tell = Step /\ s.key = Key(Here.token, Step.target)
      BY <1>1, <1>5, <2>1, SettersAre DEF Step, Here, Addressed
    <3>2. s.key \in DOMAIN Used /\ Used[s.key] = At(Step.target)
      BY <1>1, <2>1, <3>1, KnownSoFar, KnownIsUsed DEF CInv, IInv, At
    <3>3. s.tell.links = {} /\ ~s.tell.final
      BY <1>1, <1>5, <3>1, <2>1, OrderAssumption
    <3>4. QED BY <1>5, <3>2, <3>3 DEF Done, Initialized
  <2>2. QED BY <1>1, <1>5, <2>1, GoesOn DEF Advance
<1>6. QED BY <1>1, <1>2, <1>3, <1>4, <1>5 DEF Check, Advance

\* What is sent is complete when it gives its contract away; a script that waits
\* has sent what the step asks for.
LEMMA SendGoesOn ==
    ASSUME CInv, stage \in {"run", "send"}, pc \in DOMAIN Programs[plan],
           NEW txs, txs \in Seq(Creations \union Settings \union Toggles), Send(txs),
           \A m \in 1..Len(txs) : SendsComplete(txs[m]),
           \A s \in Setters[plan] : s.at = pc =>
               s.key \in DOMAIN Used /\ \E m \in 1..Len(txs) : Carries(txs[m], s),
           Step.op # "toggle" => \A m \in 1..Len(txs) : txs[m].op # "toggle",
           Step.op = "toggle" =>
               /\ Len(txs) = 1 /\ txs[1].op = "toggle"
               /\ txs[1].to = At(Step.target) /\ txs[1].of = <<Step.of, At(Step.of)>>
    PROVE  Promises' /\ SettersDone' /\ SwitchesFlipped'
<1>1. /\ mempool' = mempool \o txs /\ stage' = "wait" /\ Used' = Used
      /\ UNCHANGED <<plan, pc, known, saved, chain, runs>>
  BY DEF Send, Used
<1>2. Grows /\ plan \in Plans
  BY <1>1, GrowsIfStill DEF CInv, IInv, TypeOK
<1>3. /\ Len(mempool') = Len(mempool) + Len(txs)
      /\ Len(mempool) \in Nat /\ Len(txs) \in Nat
      /\ \A m \in 1..Len(mempool') : mempool'[m] = IF m <= Len(mempool) THEN mempool[m]
                                                   ELSE txs[m - Len(mempool)]
  BY <1>1 DEF CInv, IInv, TypeOK
<1>4. Promises'
  <2>1. ASSUME NEW m \in 1..Len(mempool')
        PROVE  \E tx : tx = mempool'[m] /\ SendsComplete(tx)
    <3>1. CASE m <= Len(mempool)
      BY <1>3, <2>1, <3>1 DEF CInv, Promises
    <3>2. CASE m > Len(mempool)
      <4>1. m - Len(mempool) \in 1..Len(txs) /\ mempool'[m] = txs[m - Len(mempool)]
        BY <1>3, <2>1, <3>2
      <4>2. QED BY <4>1
    <3>3. QED BY <1>3, <3>1, <3>2
  <2>2. \A m \in 1..Len(mempool') : SendsComplete(mempool[m])'
    BY <1>2, <2>1, SendsKept DEF CInv, IInv
  <2>3. GivenAwayComplete'
    BY <1>1, <1>2, GivenAwayStays DEF CInv, IInv, Promises
  <2>4. QED BY <2>2, <2>3 DEF Promises
<1>5. SettersDone'
  <2>1. ASSUME NEW s \in Setters[plan], s.at = pc PROVE Sent(s)'
    <3>1. PICK m \in 1..Len(txs) : Carries(txs[m], s)
      BY <2>1
    <3>2. Len(mempool) + m \in 1..Len(mempool') /\ mempool'[Len(mempool) + m] = txs[m]
      BY <1>3
    <3>3. PICK tx : (\E n \in 1..Len(mempool') : tx = mempool'[n]) /\ Carries(tx, s)
      BY <3>1, <3>2
    <3>4. s.key \in DOMAIN Used'
      BY <1>1, <2>1
    <3>5. QED BY <1>1, <3>3, <3>4 DEF Sent, Carries
  <2>2. \A s \in Setters[plan] : s.at < pc => Done(s)'
    BY <1>2, DoneStays DEF CInv, IInv, SettersDone
  <2>3. QED BY <1>1, <2>1, <2>2 DEF SettersDone
<1>6. SwitchesFlipped'
  <2>1. SUFFICES ASSUME FirstRun PROVE SwitchesFlipped'
    BY <1>1 DEF SwitchesFlipped, FirstRun
  <2>2. mempool = <<>> /\ Len(mempool) = 0
    BY <2>1 DEF CInv, SwitchesFlipped
  <2>3. Len(mempool') = Len(txs) /\ \A m \in 1..Len(txs) : mempool'[m] = txs[m]
    BY <1>3, <2>2
  <2>4. Flipping' <=> Step.op = "toggle"
    BY <1>1 DEF Flipping, Step, Here
  <2>5. Flipping' => mempool' # <<>>
    <3>1. Flipping' => Len(mempool') = 1
      BY <2>3, <2>4
    <3>2. QED BY <3>1
  <2>6. Flipped = pc /\ Flipped' = pc
    BY <1>1, <2>5 DEF Flipped, Flipping
  <2>7. Step' = Step /\ \A name : At(name)' = At(name)
    BY <1>1 DEF Step, Here, At
  <2>8. \A m \in 1..Len(mempool') : mempool'[m].op = "toggle" =>
          /\ Flipping' /\ Len(mempool') = 1
          /\ mempool'[m].to = At(Step.target) /\ mempool'[m].of = <<Step.of, At(Step.of)>>
    BY <2>3, <2>4
  <2>9. At(Step.target)' = At(Step.target) /\ At(Step.of)' = At(Step.of)
    BY <1>1 DEF Step, Here, At
  <2>10. Flipping' /\ mempool' # <<>> => mempool'[1].op = "toggle"
    BY <2>3, <2>4
  <2>11. QED BY <1>1, <2>1, <2>6, <2>7, <2>8, <2>9, <2>10 DEF CInv, SwitchesFlipped
<1>7. QED BY <1>4, <1>5, <1>6

LEMMA DeployGoesOn == CInv /\ Deploy => Promises' /\ SettersDone' /\ SwitchesFlipped'
<1> SUFFICES ASSUME CInv, Deploy PROVE Promises' /\ SettersDone' /\ SwitchesFlipped'
  OBVIOUS
<1> DEFINE key == Key(Here.token, Step.name)
           args == {At(name) : name \in Step.args}
           tx == Create(key, args)
<1>1. /\ stage = "run" /\ pc \in DOMAIN Programs[plan] /\ Step.op = "deploy" /\ Send(<<tx>>)
  BY DEF Deploy, Running
<1>2. PassedOn(Step) = Step.args
  BY <1>1 DEF PassedOn
<1>3. \A a \in args : a \in Nat
  BY <1>1, <1>2, PassesOnWired DEF CInv, IInv
<1>4. key \in Keys
  BY <1>1, KeysOfSteps DEF CInv, IInv, TypeOK, Here, Step
<1>5. tx \in Creations /\ tx.op = "create"
  BY <1>3, <1>4 DEF Create, Creations
<1> HIDE DEF tx
<1>6. <<tx>> \in Seq(Creations \union Settings \union Toggles) /\ Len(<<tx>>) = 1 /\ <<tx>>[1] = tx
  BY <1>5
<1>7. \A m \in 1..Len(<<tx>>) : <<tx>>[m].op = "create" /\ SendsComplete(<<tx>>[m])
  BY <1>5, <1>6 DEF SendsComplete
<1>8. \A s \in Setters[plan] : s.at # pc
  BY <1>1, NoSettersToCreate DEF Calling
<1>9. QED BY <1>1, <1>6, <1>7, <1>8, SendGoesOn

LEMMA SendSettersGoesOn ==
    CInv /\ SendSetters => Promises' /\ SettersDone' /\ SwitchesFlipped'
<1> SUFFICES ASSUME CInv, SendSetters PROVE Promises' /\ SettersDone' /\ SwitchesFlipped'
  OBVIOUS
<1>1. /\ stage = "send" /\ pc \in DOMAIN Programs[plan] /\ plan \in Plans /\ pc \in Nat
      /\ Step.op \in Calling \union {"toggle"}
  BY DEF SendSetters, CInv, IInv, TypeOK, KnowsItsSteps
<1>2. PICK txs \in Seq(Settings \union Toggles) :
          /\ Send(txs)
          /\ \A i \in 1..Len(txs) : SendsWired(txs[i])
          /\ Step.op # "toggle" =>
                /\ \A i \in 1..Len(txs) : \E t \in Addressed(Step) : txs[i] = Setter(t)
                /\ \A t \in Addressed(Step) : \E i \in 1..Len(txs) : txs[i] = Setter(t)
          /\ Step.op = "toggle" =>
                /\ Len(txs) = 1
                /\ txs[1] = [op |-> "toggle", to |-> At(Step.target), of |-> <<Step.of, At(Step.of)>>]
  BY SettersSent DEF CInv
<1>3. txs \in Seq(Creations \union Settings \union Toggles)
  BY <1>2
<1>4. CASE Step.op = "toggle"
  <2>1. /\ Len(txs) = 1 /\ txs[1].op = "toggle"
        /\ txs[1].to = At(Step.target) /\ txs[1].of = <<Step.of, At(Step.of)>>
    BY <1>2, <1>4
  <2>2. \A m \in 1..Len(txs) : SendsComplete(txs[m])
    BY <2>1 DEF SendsComplete
  <2>3. \A s \in Setters[plan] : s.at # pc
    BY <1>4, NoSettersToCreate DEF Calling
  <2>4. QED BY <1>1, <1>2, <1>3, <1>4, <2>1, <2>2, <2>3, SendGoesOn
<1>5. CASE Step.op # "toggle"
  <2>1. ASSUME NEW t \in Addressed(Step)
        PROVE  /\ Setter(t).op = "set" /\ SendsComplete(Setter(t))
               /\ \A s \in Setters[plan] : s.at = pc /\ s.tell = t =>
                     s.key \in DOMAIN Used /\ Carries(Setter(t), s)
    <3>1. PICK u \in Setters[plan] : u.at = pc /\ u.tell = t /\ u.key = Key(Here.token, t.target)
      BY <1>1, <1>5, <2>1, SettersOfStep DEF Step, Here
    <3>2. /\ u.key \in DOMAIN Used /\ Used[u.key] = At(t.target)
          /\ Used[u.key] \in 1..Len(chain) /\ chain[Used[u.key]].key = u.key
      <4>1. u.key \in DOMAIN known
        BY <1>1, <3>1, KnownSoFar DEF CInv
      <4>2. QED BY <3>1, <4>1, KnownIsUsed DEF CInv, IInv, BooksAgree, At
    <3>3. PICK a \in 1..Len(chain) : a = At(t.target) /\ a = Used[u.key] /\ chain[a].key = u.key
      BY <3>2
    <3>4. PICK tx : tx = Setter(t)
      OBVIOUS
    <3>5. tx.op = "set" /\ tx.to = a /\ tx.final = t.final
      BY <3>3, <3>4 DEF Setter
    <3>6. t.op = "initialize" => tx.initializes
      BY <3>4 DEF Setter
    <3>7. NamesIn(tx.told) = t.links
      <4>1. tx.told = {<<name, At(name)>> : name \in t.links}
        BY <3>4 DEF Setter
      <4>2. \A name : <<name, At(name)>>[1] = name
        OBVIOUS
      <4>3. ASSUME NEW n \in NamesIn(tx.told) PROVE n \in t.links
        <5>1. PICK pr \in tx.told : n = pr[1]
          BY <4>3 DEF NamesIn
        <5>2. PICK name \in t.links : pr = <<name, At(name)>>
          BY <4>1, <5>1
        <5>3. QED BY <4>2, <5>1, <5>2
      <4>4. ASSUME NEW name \in t.links PROVE name \in NamesIn(tx.told)
        <5>1. PICK pr \in tx.told : pr = <<name, At(name)>>
          BY <4>1, <4>4
        <5>2. pr[1] = name
          BY <4>2, <5>1
        <5>3. QED BY <5>1, <5>2 DEF NamesIn
      <4>5. QED BY <4>3, <4>4
    <3>8. Wired(a)
      BY <3>2, <3>3 DEF Wired
    <3>9. ASSUME t.final PROVE Complete(u.key, ToldTo(a) \union t.links)
      <4>1. ASSUME NEW s \in Setters[plan], u.key \in {s.key, s.asked}, s # u PROVE Done(s)
        <5>1. s.at < pc
          BY <1>1, <3>1, <3>9, <4>1, OrderAssumption
        <5>2. QED BY <1>1, <5>1 DEF CInv, SettersDone
      <4>2. ASSUME NEW s \in Setters[plan], s.key = u.key
            PROVE  s.tell.links \subseteq ToldTo(a) \union t.links
        <5>1. CASE s = u
          BY <3>1, <5>1
        <5>2. CASE s # u
          BY <3>3, <4>1, <4>2, <5>2 DEF Done
        <5>3. QED BY <5>1, <5>2
      <4>3. ASSUME NEW s \in Setters[plan], s.asked = u.key, s.key # u.key PROVE Done(s)
        BY <3>1, <4>1, <4>3
      <4>4. ASSUME NEW s \in Setters[plan], s.key = u.key, s.tell.op = "initialize" PROVE Done(s)
        BY <1>1, <3>1, <3>9, <4>1, <4>4, OrderAssumption
      <4>5. QED BY <4>2, <4>3, <4>4 DEF Complete
    <3>10. SendsComplete(tx)
      BY <3>3, <3>5, <3>7, <3>8, <3>9 DEF SendsComplete
    <3>11. ASSUME NEW s \in Setters[plan], s.at = pc, s.tell = t
           PROVE  s.key \in DOMAIN Used /\ Carries(tx, s)
      <4>1. s.key = u.key
        BY <1>1, <3>1, <3>11, SettersAre
      <4>2. QED BY <3>2, <3>3, <3>5, <3>6, <3>7, <3>11, <4>1 DEF Carries
    <3>12. QED BY <3>4, <3>5, <3>10, <3>11
  <2>2. \A m \in 1..Len(txs) : txs[m].op # "toggle" /\ SendsComplete(txs[m])
    <3>1. ASSUME NEW m \in 1..Len(txs) PROVE txs[m].op # "toggle" /\ SendsComplete(txs[m])
      <4>1. PICK t \in Addressed(Step) : txs[m] = Setter(t)
        BY <1>2, <1>5
      <4>2. PICK tx : tx = txs[m] /\ tx = Setter(t)
        BY <4>1
      <4>3. QED BY <2>1, <4>2
    <3>2. QED BY <3>1
  <2>3. ASSUME NEW s \in Setters[plan], s.at = pc
        PROVE  s.key \in DOMAIN Used /\ \E m \in 1..Len(txs) : Carries(txs[m], s)
    <3>1. s.tell \in Addressed(Step)
      BY <1>1, <2>3, SettersAre DEF Step, Here
    <3>2. PICK m \in 1..Len(txs) : txs[m] = Setter(s.tell)
      BY <1>2, <1>5, <3>1
    <3>3. s.key \in DOMAIN Used /\ Carries(Setter(s.tell), s)
      BY <2>1, <2>3, <3>1
    <3>4. QED BY <3>2, <3>3
  <2>4. QED BY <1>1, <1>2, <1>3, <1>5, <2>2, <2>3, SendGoesOn
<1>6. QED BY <1>4, <1>5

-----------------------------------------------------------------------------
(* The chain, again *)

\* What a transaction does to the chain, which is c afterwards: it appends a contract
\* that somebody owns, or it adds to the names of one that is owned, or flips a switch.
CreateWork(c) ==
    /\ Len(c) = Len(chain) + 1
    /\ \A a \in 1..Len(chain) : c[a] = chain[a]
    /\ c[Len(chain) + 1].owner = "deployer" /\ c[Len(chain) + 1].allowed = {}

ChangesOnly(address, c) ==
    /\ address \in 1..Len(chain) /\ Len(c) = Len(chain)
    /\ \A a \in 1..Len(chain) : a # address => c[a] = chain[a]

SetWork(tx, c) ==
    /\ ChangesOnly(tx.to, c)
    /\ Renounced(tx.to) => c = chain
    /\ ~Renounced(tx.to) =>
           /\ NamesIn(c[tx.to].told) = ToldTo(tx.to) \union NamesIn(tx.told)
           /\ c[tx.to].initialized <=> tx.initializes \/ Initialized(tx.to)
           /\ c[tx.to].owner = "none" <=> tx.final
    /\ c[tx.to].allowed = chain[tx.to].allowed

ToggleWork(tx, c) ==
    /\ ChangesOnly(tx.to, c)
    /\ c[tx.to].told = chain[tx.to].told /\ c[tx.to].owner = chain[tx.to].owner
    /\ c[tx.to].initialized <=> Initialized(tx.to)
    /\ c[tx.to].allowed = IF tx.of \in chain[tx.to].allowed THEN chain[tx.to].allowed \ {tx.of}
                          ELSE chain[tx.to].allowed \union {tx.of}

LEMMA ExecutedWork ==
    ASSUME TypeOK, NEW tx \in Creations \union Settings \union Toggles, SendsWired(tx)
    PROVE  /\ tx.op = "create" => CreateWork(Executed(tx))
           /\ tx.op = "set" => SetWork(tx, Executed(tx))
           /\ tx.op = "toggle" => ToggleWork(tx, Executed(tx))
<1>1. chain \in Seq(Contracts)
  BY DEF TypeOK
<1>2. ASSUME tx.op = "create" PROVE CreateWork(Executed(tx))
  <2>1. PICK new : new = Created(tx)
    OBVIOUS
  <2>2. Executed(tx) = Append(chain, new) /\ new.owner = "deployer" /\ new.allowed = {}
    BY <1>2, <2>1 DEF Executed, Created
  <2>3. QED BY <1>1, <2>2 DEF CreateWork
<1>3. ASSUME tx.op = "set" PROVE SetWork(tx, Executed(tx))
  <2>1. tx.to \in 1..Len(chain)
    BY <1>3 DEF SendsWired
  <2>2. PICK old, told, initialized, owner :
            /\ old = chain[tx.to]
            /\ told = {t \in old.told : \A u \in tx.told : u[1] # t[1]} \union tx.told
            /\ initialized = IF tx.initializes THEN TRUE ELSE old.initialized
            /\ owner = IF tx.final THEN "none" ELSE old.owner
    OBVIOUS
  <2>3. PICK new :
            new = [old EXCEPT !.told = told, !.initialized = initialized, !.owner = owner]
    OBVIOUS
  <2>4. old \in Contracts
    BY <1>1, <2>1, <2>2
  <2>5. /\ new.told = told /\ new.allowed = old.allowed /\ new.owner = owner
        /\ new.initialized = initialized
    BY <2>3, <2>4 DEF Contracts
  <2>6. NamesIn(told) = NamesIn(old.told) \union NamesIn(tx.told)
    BY <2>2 DEF NamesIn
  <2>7. CASE ~Renounced(tx.to)
    <3>1. Executed(tx) = [chain EXCEPT ![tx.to] = new]
      BY <1>3, <2>2, <2>3, <2>7 DEF Executed
    <3>2. /\ owner = "none" <=> tx.final
          /\ initialized <=> tx.initializes \/ Initialized(tx.to)
      BY <2>2, <2>7 DEF Renounced, Initialized
    <3>3. ChangesOnly(tx.to, Executed(tx)) /\ Executed(tx)[tx.to] = new
      BY <1>1, <2>1, <3>1 DEF ChangesOnly
    <3>4. QED BY <2>2, <2>5, <2>6, <2>7, <3>2, <3>3 DEF SetWork, ToldTo
  <2>8. CASE Renounced(tx.to)
    <3>1. Executed(tx) = chain
      BY <1>3, <2>8 DEF Executed
    <3>2. QED BY <2>1, <2>8, <3>1 DEF SetWork, ChangesOnly
  <2>9. QED BY <2>7, <2>8
<1>4. ASSUME tx.op = "toggle" PROVE ToggleWork(tx, Executed(tx))
  <2>1. tx.to \in 1..Len(chain)
    BY <1>4 DEF SendsWired
  <2>2. PICK old, allowed :
            /\ old = chain[tx.to]
            /\ allowed = IF tx.of \in old.allowed THEN old.allowed \ {tx.of}
                         ELSE old.allowed \union {tx.of}
    OBVIOUS
  <2>3. PICK new : new = [old EXCEPT !.allowed = allowed]
    OBVIOUS
  <2>4. old \in Contracts
    BY <1>1, <2>1, <2>2
  <2>5. /\ new.told = old.told /\ new.owner = old.owner /\ new.allowed = allowed
        /\ new.initialized = old.initialized
    BY <2>3, <2>4 DEF Contracts
  <2>6. Executed(tx) = [chain EXCEPT ![tx.to] = new]
    BY <1>4, <2>2, <2>3 DEF Executed
  <2>7. ChangesOnly(tx.to, Executed(tx)) /\ Executed(tx)[tx.to] = new
    BY <1>1, <2>1, <2>6 DEF ChangesOnly
  <2>8. QED BY <2>2, <2>5, <2>7 DEF ToggleWork, Initialized
<1>5. QED BY <1>2, <1>3, <1>4

\* What the next transaction is and does.
LEMMA MineWork ==
    ASSUME CInv, Mine
    PROVE  \E tx \in Creations \union Settings \union Toggles :
              /\ tx = mempool[1] /\ SendsWired(tx) /\ SendsComplete(tx)
              /\ Len(mempool) \in Nat \ {0} /\ Len(mempool') = Len(mempool) - 1
              /\ \A m \in 1..Len(mempool') : mempool'[m] = mempool[m + 1]
              /\ Len(mempool) = 1 => mempool' = <<>>
              /\ \/ tx.op = "create" /\ CreateWork(chain')
                 \/ tx.op = "set" /\ SetWork(tx, chain')
                 \/ tx.op = "toggle" /\ ToggleWork(tx, chain')
<1>1. /\ mempool # <<>> /\ chain' = Executed(Head(mempool)) /\ mempool' = Tail(mempool)
      /\ mempool \in Seq(Creations \union Settings \union Toggles)
      /\ \A m \in 1..Len(mempool) : SendsWired(mempool[m]) /\ SendsComplete(mempool[m])
      /\ TypeOK
  BY DEF Mine, CInv, IInv, TypeOK, RefersToWired, Promises
<1>2. PICK tx : tx = Head(mempool) /\ chain' = Executed(tx)
  BY <1>1
<1>3. /\ tx \in Creations \union Settings \union Toggles /\ tx = mempool[1]
      /\ Len(mempool) \in Nat \ {0}
  BY <1>1, <1>2
<1>4. SendsWired(tx) /\ SendsComplete(tx)
  BY <1>1, <1>3
<1>5. /\ Len(mempool') = Len(mempool) - 1
      /\ \A m \in 1..Len(mempool') : mempool'[m] = mempool[m + 1]
      /\ Len(mempool) = 1 => mempool' = <<>>
  BY <1>1, <1>3
<1>6. \/ tx.op = "create" /\ CreateWork(chain')
      \/ tx.op = "set" /\ SetWork(tx, chain')
      \/ tx.op = "toggle" /\ ToggleWork(tx, chain')
  <2>1. /\ tx.op = "create" => CreateWork(Executed(tx))
        /\ tx.op = "set" => SetWork(tx, Executed(tx))
        /\ tx.op = "toggle" => ToggleWork(tx, Executed(tx))
    BY <1>1, <1>3, <1>4, ExecutedWork
  <2>2. tx.op \in {"create", "set", "toggle"}
    BY <1>3 DEF Creations, Settings, Toggles
  <2>3. QED BY <1>2, <2>1, <2>2
<1>7. QED BY <1>3, <1>4, <1>5, <1>6

LEMMA MineGrows ==
    ASSUME CInv, Mine
    PROVE  Grows
<1>1. UNCHANGED <<plan, known, saved>> /\ Len(chain) \in Nat
  BY DEF Mine, CInv, IInv, TypeOK
<1>2. PICK tx \in Creations \union Settings \union Toggles :
          \/ tx.op = "create" /\ CreateWork(chain')
          \/ tx.op = "set" /\ SetWork(tx, chain')
          \/ tx.op = "toggle" /\ ToggleWork(tx, chain')
  BY MineWork
<1>3. Used' = Used
  BY <1>1 DEF Used
<1>4. /\ Len(chain') \in Nat /\ Len(chain) <= Len(chain')
      /\ \A a \in 1..Len(chain) : chain'[a].key = chain[a].key
  <2>1. \E x \in Creations \union Settings \union Toggles : SendsWired(x) /\ chain' = Executed(x)
    BY DEF Mine, CInv, IInv, TypeOK, RefersToWired
  <2>2. QED BY <1>1, <2>1, ExecutedTypes DEF CInv, IInv
<1>5. \A a : Wired(a) => Wired(a)'
  BY <1>1, <1>3, <1>4, WiredStays
<1>6. ASSUME NEW a \in 1..Len(chain)
      PROVE  /\ ToldTo(a) \subseteq NamesIn(chain'[a].told)
             /\ Initialized(a) => chain'[a].initialized
             /\ chain[a].owner = "none" => chain'[a].owner = "none"
  <2>1. CASE chain'[a] = chain[a]
    BY <2>1 DEF ToldTo, Initialized
  <2>2. CASE tx.op = "set" /\ SetWork(tx, chain') /\ chain'[a] # chain[a]
    BY <2>2 DEF SetWork, ChangesOnly, Renounced
  <2>3. CASE tx.op = "toggle" /\ ToggleWork(tx, chain') /\ chain'[a] # chain[a]
    BY <2>3 DEF ToggleWork, ChangesOnly, ToldTo
  <2>4. QED BY <1>2, <2>1, <2>2, <2>3 DEF CreateWork
<1>7. QED BY <1>1, <1>3, <1>4, <1>5, <1>6 DEF Grows, ToldTo, Initialized, Renounced, NamesIn

LEMMA MineKeepsPromises == CInv /\ Mine => Promises'
<1> SUFFICES ASSUME CInv, Mine PROVE Promises'
  OBVIOUS
<1>1. PICK tx \in Creations \union Settings \union Toggles :
          /\ SendsComplete(tx)
          /\ Len(mempool) \in Nat \ {0} /\ Len(mempool') = Len(mempool) - 1
          /\ \A m \in 1..Len(mempool') : mempool'[m] = mempool[m + 1]
          /\ \/ tx.op = "create" /\ CreateWork(chain')
             \/ tx.op = "set" /\ SetWork(tx, chain')
             \/ tx.op = "toggle" /\ ToggleWork(tx, chain')
  BY MineWork
<1>2. Grows /\ BooksAgree /\ Len(chain) \in Nat
  BY MineGrows DEF CInv, IInv, TypeOK
<1>3. \A m \in 1..Len(mempool') : SendsComplete(mempool[m])'
  <2>1. ASSUME NEW m \in 1..Len(mempool')
        PROVE  \E x : x = mempool'[m] /\ SendsComplete(x)
    <3>1. m + 1 \in 1..Len(mempool) /\ mempool'[m] = mempool[m + 1]
      BY <1>1, <2>1
    <3>2. QED BY <3>1 DEF CInv, Promises
  <2>2. QED BY <1>2, <2>1, SendsKept
<1>4. ASSUME NEW a \in 1..Len(chain'), chain'[a].owner = "none"
      PROVE  /\ a \in 1..Len(chain) /\ Wired(a)
             /\ \E names : Complete(chain[a].key, names) /\ names \subseteq NamesIn(chain'[a].told)
  <2>1. a \in 1..Len(chain)
    BY <1>1, <1>2, <1>4 DEF CreateWork, SetWork, ToggleWork, ChangesOnly
  <2>2. CASE chain[a].owner = "none"
    <3>1. Wired(a) /\ Complete(chain[a].key, ToldTo(a))
      BY <2>1, <2>2 DEF CInv, Promises, GivenAwayComplete, Renounced
    <3>2. ToldTo(a) \subseteq NamesIn(chain'[a].told)
      BY <1>2, <2>1 DEF Grows, ToldTo, NamesIn
    <3>3. QED BY <2>1, <3>1, <3>2
  <2>3. CASE chain[a].owner # "none"
    <3>1. tx.op = "set" /\ SetWork(tx, chain') /\ a = tx.to /\ ~Renounced(tx.to)
      BY <1>1, <1>4, <2>1, <2>3 DEF CreateWork, SetWork, ToggleWork, ChangesOnly, Renounced
    <3>2. tx.final /\ NamesIn(chain'[a].told) = ToldTo(a) \union NamesIn(tx.told)
      BY <1>4, <3>1 DEF SetWork
    <3>3. Wired(a) /\ Complete(chain[a].key, ToldTo(a) \union NamesIn(tx.told))
      BY <1>1, <3>1, <3>2 DEF SendsComplete
    <3>4. QED BY <2>1, <3>2, <3>3
  <2>4. QED BY <2>2, <2>3
<1>5. ASSUME NEW a \in 1..Len(chain'), chain'[a].owner = "none"
      PROVE  Wired(a)' /\ Complete(chain[a].key, ToldTo(a))'
  <2>1. a \in 1..Len(chain) /\ Wired(a) /\ Wired(a)'
    BY <1>2, <1>4, <1>5 DEF Grows
  <2>2. PICK names : Complete(chain[a].key, names) /\ names \subseteq NamesIn(chain'[a].told)
    BY <1>4, <1>5
  <2>3. PICK key, more : key = chain[a].key /\ key = chain'[a].key /\ more = NamesIn(chain'[a].told)
    BY <1>2, <2>1 DEF Grows
  <2>4. Complete(key, more)'
    BY <1>2, <2>2, <2>3, CompleteStays
  <2>5. QED BY <2>1, <2>3, <2>4 DEF Complete, ToldTo, NamesIn
<1>6. GivenAwayComplete'
  BY <1>5 DEF GivenAwayComplete, Renounced
<1>7. QED BY <1>3, <1>6 DEF Promises

LEMMA MineKeepsSetters == CInv /\ Mine => SettersDone'
<1> SUFFICES ASSUME CInv, Mine PROVE SettersDone'
  OBVIOUS
<1>1. UNCHANGED <<plan, stage, pc, known, saved, runs>> /\ Used' = Used
  BY DEF Mine, Used
<1>2. PICK tx \in Creations \union Settings \union Toggles :
          /\ tx = mempool[1]
          /\ Len(mempool) \in Nat \ {0} /\ Len(mempool') = Len(mempool) - 1
          /\ \A m \in 1..Len(mempool') : mempool'[m] = mempool[m + 1]
          /\ tx.op = "set" => SetWork(tx, chain')
  BY MineWork
<1>3. Grows /\ BooksAgree
  BY MineGrows DEF CInv, IInv
<1>4. ASSUME NEW s \in Setters[plan], s.key \in DOMAIN Used, Carries(tx, s) PROVE Done(s)'
  <2>1. PICK a \in 1..Len(chain) : a = Used[s.key] /\ chain[a].key = s.key /\ a = tx.to
    BY <1>3, <1>4 DEF BooksAgree, Carries
  <2>2. CASE Renounced(a)
    <3>1. Complete(s.key, ToldTo(a))
      BY <2>1, <2>2 DEF CInv, Promises, GivenAwayComplete
    <3>2. Done(s)
      BY <1>4, <2>1, <2>2, <3>1 DEF Complete, Done
    <3>3. QED BY <1>3, <3>2, DoneStays
  <2>3. CASE ~Renounced(a)
    <3>1. /\ NamesIn(chain'[a].told) = ToldTo(a) \union NamesIn(tx.told)
          /\ chain'[a].initialized <=> tx.initializes \/ Initialized(a)
          /\ chain'[a].owner = "none" <=> tx.final
      BY <1>2, <1>4, <2>1, <2>3 DEF Carries, SetWork
    <3>2. /\ s.tell.links \subseteq NamesIn(chain'[a].told)
          /\ s.tell.op = "initialize" => chain'[a].initialized
          /\ s.tell.final => chain'[a].owner = "none"
      BY <1>4, <3>1 DEF Carries
    <3>3. QED BY <1>1, <1>4, <2>1, <3>2 DEF Done, ToldTo, Initialized, Renounced, NamesIn
  <2>4. QED BY <2>2, <2>3
<1>5. ASSUME stage = "wait", NEW s \in Setters[plan], s.at = pc PROVE Done(s)' \/ Sent(s)'
  <2>1. CASE Done(s)
    BY <1>3, <2>1, DoneStays
  <2>2. CASE Sent(s)
    <3>1. PICK m \in 1..Len(mempool) : Carries(mempool[m], s) /\ s.key \in DOMAIN Used
      BY <2>2 DEF Sent
    <3>2. CASE m = 1
      BY <1>2, <1>4, <3>1, <3>2
    <3>3. CASE m # 1
      <4>1. PICK x : (\E n \in 1..Len(mempool') : x = mempool'[n]) /\ Carries(x, s)
        <5>1. m - 1 \in 1..Len(mempool') /\ mempool'[m - 1] = mempool[m]
          BY <1>2, <3>3
        <5>2. QED BY <3>1, <5>1
      <4>2. QED BY <1>1, <3>1, <4>1 DEF Sent, Carries
    <3>4. QED BY <3>2, <3>3
  <2>3. QED BY <1>5, <2>1, <2>2 DEF CInv, SettersDone
<1>6. ASSUME stage \in {"run", "send", "wait", "done"}, NEW s \in Setters[plan], s.at < pc
      PROVE  Done(s)'
  <2>1. Done(s)
    BY <1>6 DEF CInv, SettersDone
  <2>2. QED BY <1>3, <2>1, DoneStays
<1>7. QED BY <1>1, <1>5, <1>6 DEF SettersDone, CInv

LEMMA MineKeepsSwitches == CInv /\ Mine => SwitchesFlipped'
<1> SUFFICES ASSUME CInv, Mine, FirstRun PROVE SwitchesFlipped'
  BY DEF Mine, SwitchesFlipped, FirstRun
<1>1. mempool # <<>> /\ UNCHANGED <<plan, stage, pc, known, saved, runs>>
  BY DEF Mine
<1>2. PICK tx \in Creations \union Settings \union Toggles :
          /\ tx = mempool[1]
          /\ Len(mempool) \in Nat \ {0} /\ Len(mempool') = Len(mempool) - 1
          /\ \A m \in 1..Len(mempool') : mempool'[m] = mempool[m + 1]
          /\ Len(mempool) = 1 => mempool' = <<>>
          /\ \/ tx.op = "create" /\ CreateWork(chain')
             \/ tx.op = "set" /\ SetWork(tx, chain')
             \/ tx.op = "toggle" /\ ToggleWork(tx, chain')
  BY MineWork
<1>3. /\ stage = "wait" /\ pc \in DOMAIN Programs[plan] /\ plan \in Plans /\ pc \in Nat
      /\ Len(chain) \in Nat
  BY <1>1 DEF CInv, SwitchesFlipped, IInv, KnowsItsSteps, TypeOK
<1>4. /\ Flipping' <=> Flipping
      /\ Flipped = pc
      /\ At(Step.target)' = At(Step.target) /\ At(Step.of)' = At(Step.of) /\ Step' = Step
  BY <1>1 DEF Flipping, Flipped, Step, Here, At
<1>5. Flipping <=> tx.op = "toggle"
  BY <1>1, <1>2 DEF CInv, SwitchesFlipped
<1>6. \A k \in DOMAIN known : known[k] \in 1..Len(chain) /\ chain[known[k]].key = k
  BY KnownIsUsed DEF CInv, IInv, BooksAgree
<1>7. \A w \in Switches[plan] : w.at <= pc => known[w.key] \in 1..Len(chain)
  BY <1>3, <1>6, KnownSoFar DEF CInv
<1>8. \A m \in 1..Len(mempool') : mempool'[m].op # "toggle"
  <2>1. ASSUME NEW m \in 1..Len(mempool'), mempool'[m].op = "toggle" PROVE FALSE
    <3>1. m + 1 \in 1..Len(mempool) /\ mempool[m + 1].op = "toggle"
      BY <1>2, <2>1
    <3>2. Len(mempool) = 1
      BY <3>1 DEF CInv, SwitchesFlipped
    <3>3. QED BY <3>1, <3>2
  <2>2. QED BY <2>1
<1>9. CASE tx.op # "toggle"
  <2>1. Flipped' = pc
    BY <1>1, <1>4, <1>5, <1>9 DEF Flipped
  <2>2. \A a \in 1..Len(chain) : a \in 1..Len(chain') /\ chain'[a].allowed = chain[a].allowed
    BY <1>2, <1>3, <1>9 DEF CreateWork, SetWork, ChangesOnly
  <2>3. \A a \in 1..Len(chain') : a \notin 1..Len(chain) => chain'[a].allowed = {}
    BY <1>2, <1>3, <1>9 DEF CreateWork, SetWork, ChangesOnly
  <2>4. ASSUME NEW w \in Switches[plan], w.at < pc
        PROVE  <<w.of, known[w.other]>> \in chain'[known[w.key]].allowed
    <3>1. <<w.of, known[w.other]>> \in chain[known[w.key]].allowed
      BY <1>4, <2>4 DEF CInv, SwitchesFlipped
    <3>2. known[w.key] \in 1..Len(chain)
      BY <1>3, <1>7, <2>4, SwitchesAre
    <3>3. QED BY <2>2, <3>1, <3>2
  <2>5. ASSUME NEW a \in 1..Len(chain'), NEW pr \in chain'[a].allowed
        PROVE  \E w \in Switches[plan] :
                  w.at < pc /\ known[w.key] = a /\ w.of = pr[1] /\ known[w.other] = pr[2]
    <3>1. a \in 1..Len(chain) /\ pr \in chain[a].allowed
      BY <2>2, <2>3, <2>5
    <3>2. QED BY <1>4, <3>1 DEF CInv, SwitchesFlipped
  <2>6. QED BY <1>1, <1>3, <1>4, <1>5, <1>8, <1>9, <2>1, <2>4, <2>5 DEF SwitchesFlipped
<1>10. CASE tx.op = "toggle"
  <2>1. /\ Len(mempool) = 1 /\ mempool' = <<>>
        /\ tx.to = At(Step.target) /\ tx.of = <<Step.of, At(Step.of)>>
    BY <1>2, <1>10 DEF CInv, SwitchesFlipped
  <2>2. Flipped' = pc + 1
    BY <1>1, <1>4, <1>5, <1>10, <2>1 DEF Flipped
  <2>3. PICK v \in Switches[plan] :
            /\ v.at = pc /\ v.key = Key(Here.token, Step.target)
            /\ v.of = Step.of /\ v.other = Key(Here.token, Step.of)
    BY <1>3, <1>5, <1>10, SwitchOfStep DEF Step, Here, Flipping
  <2>4. tx.to = known[v.key] /\ tx.of = <<v.of, known[v.other]>>
    BY <2>1, <2>3 DEF At
  <2>5. v.key \in DOMAIN known /\ v.other \in DOMAIN known
    BY <1>3, <2>3, KnownSoFar DEF CInv
  <2>6. tx.of \notin chain[known[v.key]].allowed
    <3>1. SUFFICES ASSUME tx.of \in chain[known[v.key]].allowed PROVE FALSE
      OBVIOUS
    <3>2. PICK w \in Switches[plan] :
              w.at < pc /\ known[w.key] = known[v.key] /\ known[w.other] = known[v.other]
      BY <1>4, <1>6, <2>4, <2>5, <3>1 DEF CInv, SwitchesFlipped
    <3>3. w.key \in DOMAIN known /\ w.other \in DOMAIN known
      BY <1>3, <3>2, SwitchesAre, KnownSoFar DEF CInv
    <3>4. w.key = v.key /\ w.other = v.other
      BY <1>6, <2>5, <3>2, <3>3
    <3>5. w = v
      BY <1>3, <3>4, OrderAssumption
    <3>6. QED BY <1>3, <2>3, <3>2, <3>5
  <2>7. /\ Len(chain') = Len(chain)
        /\ \A a \in 1..Len(chain) : chain'[a].allowed =
              IF a = known[v.key] THEN chain[a].allowed \union {<<v.of, known[v.other]>>}
              ELSE chain[a].allowed
    <3>1. ToggleWork(tx, chain')
      BY <1>2, <1>10
    <3>2. ChangesOnly(known[v.key], chain')
      BY <2>4, <3>1 DEF ToggleWork
    <3>3. chain'[known[v.key]].allowed = chain[known[v.key]].allowed \union {<<v.of, known[v.other]>>}
      BY <2>4, <2>6, <3>1 DEF ToggleWork
    <3>4. QED BY <3>2, <3>3 DEF ChangesOnly
  <2>8. ASSUME NEW w \in Switches[plan], w.at < pc + 1
        PROVE  <<w.of, known[w.other]>> \in chain'[known[w.key]].allowed
    <3>1. w.at \in Nat /\ known[w.key] \in 1..Len(chain)
      BY <1>3, <1>7, <2>8, SwitchesAre
    <3>2. CASE w.at < pc
      <4>1. <<w.of, known[w.other]>> \in chain[known[w.key]].allowed
        BY <1>4, <3>2 DEF CInv, SwitchesFlipped
      <4>2. QED BY <2>7, <3>1, <4>1
    <3>3. CASE w.at = pc
      <4>1. w.key = v.key /\ w.other = v.other /\ w.of = v.of
        BY <1>3, <2>3, <3>3, SwitchesAre DEF Step, Here
      <4>2. QED BY <2>7, <3>1, <4>1
    <3>4. QED BY <1>3, <2>8, <3>1, <3>2, <3>3
  <2>9. ASSUME NEW a \in 1..Len(chain'), NEW pr \in chain'[a].allowed
        PROVE  \E w \in Switches[plan] :
                  w.at < pc + 1 /\ known[w.key] = a /\ w.of = pr[1] /\ known[w.other] = pr[2]
    <3>1. CASE pr \in chain[a].allowed
      <4>1. PICK w \in Switches[plan] :
                w.at < pc /\ known[w.key] = a /\ w.of = pr[1] /\ known[w.other] = pr[2]
        BY <1>4, <2>7, <2>9, <3>1 DEF CInv, SwitchesFlipped
      <4>2. w.at < pc + 1
        BY <1>3, <4>1, SwitchesAre
      <4>3. QED BY <4>1, <4>2
    <3>2. CASE pr \notin chain[a].allowed
      <4>1. a = known[v.key] /\ pr = <<v.of, known[v.other]>>
        BY <2>7, <2>9, <3>2
      <4>2. pr[1] = v.of /\ pr[2] = known[v.other] /\ v.at < pc + 1
        BY <1>3, <2>3, <4>1
      <4>3. QED BY <4>1, <4>2
    <3>3. QED BY <3>1, <3>2
  <2>10. Len(mempool') = 0
    BY <2>1
  <2>11. QED BY <1>1, <1>3, <2>1, <2>2, <2>8, <2>9, <2>10, SMTT(30) DEF SwitchesFlipped
<1>11. QED BY <1>9, <1>10

-----------------------------------------------------------------------------
(* The theorem *)

LEMMA CInitOK == Init => CInv
<1> SUFFICES ASSUME Init PROVE CInv
  OBVIOUS
<1>1. Len(chain) = 0 /\ Len(mempool) = 0 /\ stage = "idle"
  BY DEF Init
<1>2. QED
  BY <1>1, InitOK DEF CInv, Promises, GivenAwayComplete, SettersDone, SwitchesFlipped, FirstRun

LEMMA CStepOK == CInv /\ [Next]_vars => CInv'
<1> SUFFICES ASSUME CInv, [Next]_vars PROVE CInv'
  OBVIOUS
<1>1. IInv'
  BY StepOK DEF CInv
<1>2. CASE UNCHANGED vars
  <2>1. UNCHANGED <<plan, stage, pc, known, saved, chain, mempool, runs>>
    BY <1>2 DEF vars
  <2>2. Used' = Used
    BY <2>1 DEF Used
  <2>3. Grows
    BY <2>1, <2>2, GrowsIfStill DEF CInv, IInv
  <2>4. Promises'
    BY <2>1, <2>3, PromisesStay DEF CInv, IInv
  <2>5. \A s : (Done(s) => Done(s)') /\ (Sent(s) => Sent(s)')
    <3>1. ASSUME NEW s, Sent(s) PROVE Sent(s)'
      BY <2>1, <2>2, <3>1 DEF Sent, Carries
    <3>2. QED BY <2>3, <3>1, DoneStays DEF CInv, IInv
  <2>6. SettersDone'
    BY <2>1, <2>5 DEF CInv, SettersDone
  <2>7. SwitchesFlipped'
    BY <2>1 DEF CInv, SwitchesFlipped, FirstRun, Flipped, Flipping, Step, Here, At
  <2>8. QED BY <1>1, <2>4, <2>6, <2>7 DEF CInv
<1>3. CASE Start
  BY <1>1, <1>3, StartGoesOn DEF CInv
<1>4. CASE Load
  BY <1>1, <1>4, LoadGoesOn DEF CInv
<1>5. CASE Deploy
  BY <1>1, <1>5, DeployGoesOn DEF CInv
<1>6. CASE Save
  BY <1>1, <1>6, SaveGoesOn DEF CInv
<1>7. CASE Check
  BY <1>1, <1>7, CheckGoesOn DEF CInv
<1>8. CASE SendSetters
  BY <1>1, <1>8, SendSettersGoesOn DEF CInv
<1>9. CASE Set
  BY <1>1, <1>9, SetGoesOn DEF CInv
<1>10. CASE Fail \/ Crash
  BY <1>1, <1>10, StopGoesOn DEF CInv
<1>11. CASE Finish
  BY <1>1, <1>11, AsksGoesOn DEF CInv, Finish
<1>12. CASE Mine
  BY <1>1, <1>12, MineKeepsPromises, MineKeepsSetters, MineKeepsSwitches DEF CInv
<1>13. QED BY <1>2, <1>3, <1>4, <1>5, <1>6, <1>7, <1>8, <1>9, <1>10, <1>11, <1>12 DEF Next, Script

\* A script that has come to its end has had each of its setters executed, by this
\* run or by one that crashed, has initialized what stands behind a proxy, although a
\* rerun may find it initialized and given away, and has given all ownership away, in
\* whatever order its transactions and those of crashed runs were mined; and a first
\* run has all its switches flipped: the connect functions of the deployment helpers.
THEOREM NothingIsLeftUndone == Spec => []CompleteWhenDone
<1>1. CInv => CompleteWhenDone
  <2> SUFFICES ASSUME CInv, stage = "done", NEW i \in DOMAIN Programs[plan],
                      NEW entry, entry = Programs[plan][i],
                      entry.step.op \in Calling \union {"toggle"},
                      NEW t \in Addressed(entry.step)
               PROVE  Obeyed(entry, t)
    BY DEF CompleteWhenDone
  <2>1. plan \in Plans /\ pc \in Nat \ {0}
    BY DEF CInv, IInv, TypeOK
  <2>2. pc \notin DOMAIN Programs[plan] /\ DOMAIN known = CreatedBefore(plan, pc)
    BY DEF CInv, SettersDone
  <2>3. i < pc /\ i \in Nat
    BY <2>1, <2>2, Places
  <2>4. CreatedBefore(plan, i) \subseteq DOMAIN known
    BY <2>1, <2>2, <2>3, Places
  <2>5. CASE entry.step.op # "toggle"
    <3>1. PICK s \in Setters[plan] : s.at = i /\ s.tell = t /\ s.key = Key(entry.token, t.target)
      BY <2>1, <2>5, SettersOfStep
    <3>2. Done(s)
      BY <2>3, <3>1 DEF CInv, SettersDone
    <3>3. s.key \in DOMAIN known
      BY <2>1, <2>4, <3>1, SettersAre
    <3>4. PICK a : a = known[Key(entry.token, t.target)] /\ a = Used[s.key]
      BY <3>1, <3>3, KnownIsUsed DEF CInv, IInv
    <3>5. /\ t.links \subseteq ToldTo(a)
          /\ t.op = "initialize" => chain[a].initialized
          /\ t.final => Renounced(a)
      BY <3>1, <3>2, <3>4 DEF Done, Initialized
    <3>6. \A name \in t.links : \E told \in chain[a].told : told[1] = name
      BY <3>5 DEF ToldTo, NamesIn
    <3>7. t.op # "toggle"
      BY <2>1, <2>5, OpsOfSetters
    <3>8. QED BY <3>4, <3>5, <3>6, <3>7 DEF Obeyed
  <2>6. CASE entry.step.op = "toggle"
    <3>1. PICK w \in Switches[plan] :
              /\ w.at = i /\ w.key = Key(entry.token, entry.step.target)
              /\ w.of = entry.step.of /\ w.other = Key(entry.token, entry.step.of)
      BY <2>1, <2>6, SwitchOfStep
    <3>2. t = entry.step
      BY <2>6 DEF Addressed
    <3>3. runs \in Nat \ {0}
      BY DEF CInv, IInv, TypeOK, KnowsItsSteps
    <3>4. runs = 1 => <<w.of, known[w.other]>> \in chain[known[w.key]].allowed
      BY <2>3, <3>1 DEF CInv, SwitchesFlipped, FirstRun, Flipped, Flipping
    <3>5. QED BY <2>6, <3>1, <3>2, <3>3, <3>4 DEF Obeyed
  <2>7. QED BY <2>5, <2>6
<1>2. QED BY <1>1, CInitOK, CStepOK, PTL DEF Spec
=============================================================================
