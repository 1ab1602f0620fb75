---------------------------- MODULE ProviderProofs ----------------------------
(***************************************************************************)
(* Safety of the providers, for every number of nodes, sockets, listeners, *)
(* waits, calls and blocks: the block listener is attached exactly once,   *)
(* and a batched call gets its own result at its own block.                *)
(***************************************************************************)
EXTENDS BatchedProvider, TLAPS

Providers == {Base} \union Sockets

(***************************** block listener ******************************)

\* The sockets and how often the listener is on at each provider.  Without the
\* last conjunct a socket could be opened that already hears blocks.
ListenerTypes ==
    /\ attached \in [Providers -> Nat]
    /\ wsProvider \in Sockets \union {None}
    /\ socketState \in [Sockets -> {"unused", "connecting", "open", "closed"}]
    /\ wsProvider # None => socketState[wsProvider] # "unused"
    /\ \A s \in Sockets : socketState[s] = "unused" => attached[s] = 0

ListenerInv == ListenerTypes /\ HearsBlocksOnce

listenerVars == <<attached, wsProvider, socketState, blockListeners>>

LEMMA NoneIsNoSocket == None \notin Sockets /\ Base \notin Sockets
BY ProviderAssumption DEF Sockets, Base

LEMMA OnOff ==
    ASSUME NEW at \in [Providers -> Nat], NEW p \in Providers
    PROVE  /\ On(at, p) \in [Providers -> Nat]
           /\ Off(at, p) \in [Providers -> Nat]
           /\ On(at, p)[p] = at[p] + 1
           /\ at[p] <= 1 => Off(at, p)[p] = 0
           /\ \A q \in Providers : q # p => On(at, p)[q] = at[q] /\ Off(at, p)[q] = at[q]
BY DEF On, Off

LEMMA CurrentIsProvider ==
    ASSUME ListenerInv
    PROVE  Current(wsProvider) \in Providers
BY DEF ListenerInv, ListenerTypes, Current, Providers

LEMMA AddKeepsOnce ==
    ASSUME ListenerInv, NEW l, AddBlockListener(l), UNCHANGED socketVars
    PROVE  ListenerInv'
<1> DEFINE p == Current(wsProvider)
<1>1. p \in Providers
  BY CurrentIsProvider
<1>2. UNCHANGED <<wsProvider, socketState>> /\ Current(wsProvider') = p
  BY DEF socketVars
<1>3. CASE blockListeners = {}
  <2>1. attached' = On(attached, p) /\ blockListeners' # {}
    BY <1>3 DEF AddBlockListener
  <2>2. attached \in [Providers -> Nat] /\ attached[p] = 0
    BY <1>3 DEF ListenerInv, ListenerTypes, HearsBlocksOnce
  <2>3. /\ On(attached, p) \in [Providers -> Nat]
        /\ On(attached, p)[p] = 1
        /\ \A q \in Providers : q # p => On(attached, p)[q] = attached[q]
    BY <1>1, <2>2, OnOff
  <2>4. Base \in Providers /\ (wsProvider # None => p = wsProvider /\ p # Base)
    BY NoneIsNoSocket DEF Current, Providers, ListenerInv, ListenerTypes
  <2>5. \A s \in Sockets : socketState[s] = "unused" => s # p
    BY NoneIsNoSocket DEF Current, ListenerInv, ListenerTypes
  <2>6. HearsBlocksOnce'
    BY <1>2, <2>1, <2>3, <2>4 DEF HearsBlocksOnce, ListenerInv
  <2>7. ListenerTypes'
    BY <1>2, <2>1, <2>3, <2>5 DEF ListenerInv, ListenerTypes, Providers
  <2>8. QED BY <2>6, <2>7 DEF ListenerInv
<1>4. CASE blockListeners # {}
  BY <1>2, <1>4 DEF AddBlockListener, ListenerInv, ListenerTypes, HearsBlocksOnce
<1>5. QED BY <1>3, <1>4

LEMMA RemovingKeepsOnce ==
    ASSUME ListenerInv, NEW ls, AfterRemoving(ls), UNCHANGED socketVars
    PROVE  ListenerInv'
<1> DEFINE p == Current(wsProvider)
<1>1. p \in Providers
  BY CurrentIsProvider
<1>2. UNCHANGED <<wsProvider, socketState>> /\ Current(wsProvider') = p
  BY DEF socketVars
<1>3. CASE blockListeners # {} /\ blockListeners \subseteq ls
  <2>1. attached' = Off(attached, p) /\ blockListeners' = {}
    BY <1>3 DEF AfterRemoving
  <2>2. attached \in [Providers -> Nat] /\ attached[p] = 1
    BY <1>3 DEF ListenerInv, ListenerTypes, HearsBlocksOnce
  <2>3. /\ Off(attached, p) \in [Providers -> Nat]
        /\ Off(attached, p)[p] = 0
        /\ \A q \in Providers : q # p => Off(attached, p)[q] = attached[q]
    BY <1>1, <2>2, OnOff
  <2>4. Base \in Providers /\ (wsProvider # None => p = wsProvider /\ p # Base)
    BY NoneIsNoSocket DEF Current, Providers, ListenerInv, ListenerTypes
  <2>5. HearsBlocksOnce'
    BY <1>2, <2>1, <2>3, <2>4 DEF HearsBlocksOnce, ListenerInv
  <2>6. ListenerTypes'
    BY <1>2, <2>1, <2>3 DEF ListenerInv, ListenerTypes, Providers
  <2>7. QED BY <2>5, <2>6 DEF ListenerInv
<1>4. CASE ~(blockListeners # {} /\ blockListeners \subseteq ls)
  <2>1. attached' = attached /\ (blockListeners' = {} <=> blockListeners = {})
    BY <1>4 DEF AfterRemoving
  <2>2. QED BY <1>2, <2>1 DEF ListenerInv, ListenerTypes, HearsBlocksOnce
<1>5. QED BY <1>3, <1>4

\* Losing a web socket that is there: the poller takes over.
LEMMA SwitchToPoller ==
    ASSUME ListenerInv, wsProvider # None
    PROVE  /\ Switchover(None, attached) \in [Providers -> Nat]
           /\ Switchover(None, attached)[Base] = IF blockListeners = {} THEN 0 ELSE 1
           /\ \A s \in Sockets : Switchover(None, attached)[s] = attached[s]
<1>1. attached \in [Providers -> Nat] /\ attached[Base] = 0 /\ Base \in Providers
  BY DEF ListenerInv, ListenerTypes, HearsBlocksOnce, Providers
<1>2. CASE blockListeners = {}
  BY <1>1, <1>2 DEF Switchover, Providers
<1>3. CASE blockListeners # {}
  <2>1. Switchover(None, attached) = On(attached, Base)
    BY <1>3 DEF Switchover
  <2>2. /\ On(attached, Base) \in [Providers -> Nat]
        /\ On(attached, Base)[Base] = 1
        /\ \A q \in Providers : q # Base => On(attached, Base)[q] = attached[q]
    BY <1>1, OnOff
  <2>3. QED BY <1>3, <2>1, <2>2, NoneIsNoSocket DEF Providers
<1>4. QED BY <1>2, <1>3

\* A new web socket takes over from the poller, or from a socket it makes forgotten.
LEMMA OpeningKeepsOnce ==
    ASSUME ListenerInv, OpenWebSocket
    PROVE  ListenerInv'
<1> DEFINE n == NextSocket
           polled == Off(attached, Base)
<1>1. n \in Sockets /\ socketState[n] = "unused"
  BY DEF OpenWebSocket, NextSocket
<1>2. n # None /\ n # Base /\ n \in Providers /\ Base \in Providers
  BY <1>1, NoneIsNoSocket DEF Providers
<1>3. attached \in [Providers -> Nat] /\ attached[n] = 0
  BY <1>1 DEF ListenerInv, ListenerTypes
<1>4. /\ wsProvider' = n /\ blockListeners' = blockListeners
      /\ socketState' = [socketState EXCEPT ![n] = "connecting"]
      /\ attached' = Switchover(n, attached)
  BY DEF OpenWebSocket
<1>5. socketState' \in [Sockets -> {"unused", "connecting", "open", "closed"}]
      /\ socketState'[n] = "connecting"
      /\ \A s \in Sockets : s # n => socketState'[s] = socketState[s]
  BY <1>1, <1>4 DEF ListenerInv, ListenerTypes
<1>6. Current(wsProvider') = n
  BY <1>2, <1>4 DEF Current
<1>7. CASE blockListeners = {}
  <2>1. attached' = attached
    BY <1>4, <1>7 DEF Switchover
  <2>2. attached[Base] = 0
    BY <1>7 DEF ListenerInv, HearsBlocksOnce, Current
  <2>3. HearsBlocksOnce'
    BY <1>3, <1>4, <1>6, <1>7, <2>1, <2>2 DEF HearsBlocksOnce
  <2>4. ListenerTypes'
    BY <1>1, <1>3, <1>4, <1>5, <2>1 DEF ListenerInv, ListenerTypes
  <2>5. QED BY <2>3, <2>4 DEF ListenerInv
<1>8. CASE blockListeners # {}
  <2>1. attached' = On(polled, n)
    BY <1>2, <1>4, <1>8 DEF Switchover
  <2>2. attached[Base] <= 1
    BY <1>3, <1>8 DEF ListenerInv, HearsBlocksOnce, Current
  <2>3. /\ polled \in [Providers -> Nat] /\ polled[Base] = 0
        /\ \A q \in Providers : q # Base => polled[q] = attached[q]
    BY <1>2, <1>3, <2>2, OnOff
  <2>4. /\ attached' \in [Providers -> Nat] /\ attached'[n] = polled[n] + 1
        /\ \A q \in Providers : q # n => attached'[q] = polled[q]
    BY <1>2, <2>1, <2>3, OnOff
  <2>5. attached'[n] = 1 /\ attached'[Base] = 0
    BY <1>2, <1>3, <2>3, <2>4
  <2>6. \A s \in Sockets : s # n => attached'[s] = attached[s]
    BY <2>3, <2>4, NoneIsNoSocket DEF Providers
  <2>7. HearsBlocksOnce'
    BY <1>4, <1>6, <1>8, <2>5 DEF HearsBlocksOnce
  <2>8. ListenerTypes'
    BY <1>1, <1>4, <1>5, <2>4, <2>6 DEF ListenerInv, ListenerTypes
  <2>9. QED BY <2>7, <2>8 DEF ListenerInv
<1>9. QED BY <1>7, <1>8

LEMMA ClosingKeepsOnce ==
    ASSUME ListenerInv, UserCloses
    PROVE  ListenerInv'
<1>1. wsProvider \in Sockets /\ wsProvider # None
  BY DEF UserCloses, ListenerInv, ListenerTypes
<1>2. /\ wsProvider' = None /\ blockListeners' = blockListeners
      /\ socketState' = [socketState EXCEPT ![wsProvider] = "closed"]
      /\ attached' = Switchover(None, attached)
  BY DEF UserCloses
<1>3. /\ attached' \in [Providers -> Nat]
      /\ attached'[Base] = IF blockListeners = {} THEN 0 ELSE 1
      /\ \A s \in Sockets : attached'[s] = attached[s]
  BY <1>1, <1>2, SwitchToPoller
<1>4. HearsBlocksOnce'
  BY <1>2, <1>3 DEF HearsBlocksOnce, Current
<1>5. ListenerTypes'
  BY <1>1, <1>2, <1>3 DEF ListenerInv, ListenerTypes
<1>6. QED BY <1>4, <1>5 DEF ListenerInv

LEMMA DroppingKeepsOnce ==
    ASSUME ListenerInv, NEW s \in Sockets, Drop(s)
    PROVE  ListenerInv'
<1>1. /\ wsProvider' = None /\ blockListeners' = blockListeners
      /\ socketState' = [t \in Sockets |->
                            IF t \in {s, wsProvider} THEN "closed" ELSE socketState[t]]
      /\ attached' = IF wsProvider = None THEN attached ELSE Switchover(None, attached)
  BY DEF Drop
<1>2. /\ attached' \in [Providers -> Nat]
      /\ attached'[Base] = IF blockListeners = {} THEN 0 ELSE 1
      /\ \A t \in Sockets : attached'[t] = attached[t]
  <2>1. CASE wsProvider = None
    BY <1>1, <2>1 DEF ListenerInv, ListenerTypes, HearsBlocksOnce, Current
  <2>2. CASE wsProvider # None
    BY <1>1, <2>2, SwitchToPoller
  <2>3. QED BY <2>1, <2>2
<1>3. HearsBlocksOnce'
  BY <1>1, <1>2 DEF HearsBlocksOnce, Current
<1>4. ListenerTypes'
  BY <1>1, <1>2 DEF ListenerInv, ListenerTypes
<1>5. QED BY <1>3, <1>4 DEF ListenerInv

LEMMA ConnectingKeepsOnce ==
    ASSUME ListenerInv, NEW s \in Sockets, Connect(s)
    PROVE  ListenerInv'
<1>1. /\ UNCHANGED <<wsProvider, attached, blockListeners>>
      /\ socketState' = [socketState EXCEPT ![s] = "open"]
  BY DEF Connect, eventVars
<1>2. HearsBlocksOnce'
  BY <1>1 DEF ListenerInv, HearsBlocksOnce, Current
<1>3. ListenerTypes'
  BY <1>1 DEF ListenerInv, ListenerTypes
<1>4. QED BY <1>2, <1>3 DEF ListenerInv

LEMMA IdleKeepsOnce ==
    ASSUME ListenerInv, UNCHANGED listenerVars
    PROVE  ListenerInv'
BY DEF ListenerInv, ListenerTypes, HearsBlocksOnce, listenerVars, Current

LEMMA WaitingKeepsOnce ==
    ASSUME ListenerInv, NEW w, WaitForTransaction(w) \/ WaitStep(w)
    PROVE  ListenerInv'
<1>1. ASSUME NEW v, NEW phase, Go(v, phase)
      PROVE  UNCHANGED listenerVars
  BY <1>1 DEF Go, listenerVars, socketVars, eventVars
<1>2. ASSUME NEW v, AwaitBlock(v)
      PROVE  ListenerInv'
  BY <1>2, AddKeepsOnce DEF AwaitBlock
<1>3. CASE WaitForTransaction(w) \/ AskForReceipt(w)
  BY <1>3, IdleKeepsOnce DEF WaitForTransaction, AskForReceipt, listenerVars, socketVars, eventVars
<1>4. ASSUME NEW n \in Nodes, Receipt(w, n) \/ LookIntoBlock(w, n)
      PROVE  ListenerInv'
  BY <1>1, <1>2, <1>4, IdleKeepsOnce DEF Receipt, LookIntoBlock
<1>5. QED BY <1>3, <1>4 DEF WaitStep

LEMMA ListenerStep ==
    ASSUME ListenerInv, [Next]_allVars
    PROVE  ListenerInv'
<1>1. CASE UserOpens \/ Reconnect
  BY <1>1, OpeningKeepsOnce DEF UserOpens, Reconnect
<1>2. CASE UserCloses
  BY <1>2, ClosingKeepsOnce
<1>3. CASE \E s \in Sockets : Connect(s) \/ Drop(s)
  BY <1>3, ConnectingKeepsOnce, DroppingKeepsOnce
<1>4. CASE \E s \in Subscribers : Subscribe(s) \/ Unsubscribe(s)
  BY <1>4, AddKeepsOnce, RemovingKeepsOnce DEF Subscribe, Unsubscribe
<1>5. CASE \E p \in {Base} \union Sockets, n \in Nodes : OnBlock(p, n)
  BY <1>5, IdleKeepsOnce DEF OnBlock, listenerVars, socketVars
<1>6. CASE CallListeners
  BY <1>6, RemovingKeepsOnce DEF CallListeners
<1>7. CASE \E w \in Waits : WaitForTransaction(w) \/ WaitStep(w)
  BY <1>7, WaitingKeepsOnce
<1>8. CASE \E n \in Nodes : NewBlock(n)
  BY <1>8, IdleKeepsOnce DEF NewBlock, listenerVars, socketVars, eventVars
<1>9. CASE ProviderNext
  BY <1>1, <1>2, <1>3, <1>4, <1>5, <1>6, <1>7, <1>8, <1>9 DEF ProviderNext
<1>10. CASE UNCHANGED vars
  BY <1>10, IdleKeepsOnce DEF vars, listenerVars, socketVars, eventVars
<1>11. QED
  <2>1. ASSUME NEW c, NEW tag, NEW b, Call(c, tag, b)
        PROVE  UNCHANGED vars
    BY <2>1 DEF Call
  <2>2. ASSUME NEW r, NEW results, Settle(r, results)
        PROVE  UNCHANGED vars
    BY <2>2 DEF Settle
  <2>3. ASSUME NEW r, NEW n, Perform(r) \/ Answer(r, n) \/ HeaderNotFound(r, n)
        PROVE  UNCHANGED vars
    BY <2>2, <2>3 DEF Perform, Answer, HeaderNotFound
  <2>4. CASE SetChainId \/ DispatchCalls
    BY <1>10, <2>4 DEF SetChainId, DispatchCalls
  <2>5. CASE RequestStep
    BY <1>10, <2>3, <2>5 DEF RequestStep
  <2>6. QED BY <1>9, <1>10, <2>1, <2>4, <2>5 DEF Next, allVars

LEMMA ListenerInit ==
    ASSUME Init
    PROVE  ListenerInv
<1>1. attached \in [Providers -> Nat] /\ \A p \in Providers : attached[p] = 0
  BY DEF Init, ProviderInit, Providers
<1>2. blockListeners = {}
  BY DEF Init, ProviderInit
<1>3. /\ wsProvider \in Sockets \union {None}
      /\ socketState \in [Sockets -> {"unused", "connecting", "open", "closed"}]
      /\ wsProvider # None => socketState[wsProvider] # "unused"
  BY ProviderAssumption DEF Init, Callers, Waiters, Sockets
<1>4. QED
  BY <1>1, <1>2, <1>3 DEF ListenerInv, ListenerTypes, HearsBlocksOnce, Current, Providers

\* The provider in use has the one block listener exactly if somebody listens:
\* for any number of sockets that open, close, drop and reconnect in any order.
THEOREM BlocksAreHeardOnce == Spec => []HearsBlocksOnce
<1>1. Init => ListenerInv
  BY ListenerInit
<1>2. ListenerInv /\ [Next]_allVars => ListenerInv'
  BY ListenerStep
<1>3. ListenerInv => HearsBlocksOnce
  BY DEF ListenerInv
<1>4. QED BY <1>1, <1>2, <1>3, PTL DEF Spec

(***************************** batched calls *******************************)

Requests == [calls : Seq(Calls), blockTag : Nat, starting : Int \union {None},
             phase : {"ready", "sent"}, via : {Base, None} \union Sockets]

\* All calls of a batch or of a request have asked for its block.
Agree(batch) == \A i \in DOMAIN batch.calls : tagOf[batch.calls[i]] = batch.blockTag

\* Whoever is answered has asked: otherwise a later call would change its tag.
BatchTypes ==
    /\ tagOf \in [Calls -> Nat \union {None}]
    /\ batched \in [calls : Seq(Calls), blockTag : Nat]
    /\ requests \subseteq Requests
    /\ \A c \in Calls : answer[c] \notin {None, Rejected} => tagOf[c] # None

BatchInv ==
    /\ BatchTypes
    /\ Agree(batched)
    /\ \A r \in requests : Agree(r)
    /\ AnsweredAtItsBlock

LEMMA NewRequest ==
    ASSUME NEW calls \in Seq(Calls), NEW tag \in Nat
    PROVE  /\ Request(calls, tag) \in Requests
           /\ Request(calls, tag).calls = calls
           /\ Request(calls, tag).blockTag = tag
BY DEF Request, Requests

\* A call that has not been made is in no batch and no request, so that its tag is free.
LEMMA CallKeepsAnswers ==
    ASSUME BatchInv, NEW c \in Calls, NEW tag \in {Latest} \union 1 .. MaxBlock, NEW b,
           Call(c, tag, b)
    PROVE  BatchInv'
<1>1. tag \in Nat /\ None \notin Nat
  BY ProviderAssumption DEF Latest
<1>2. /\ tagOf[c] = None /\ answer' = answer
      /\ tagOf' = [tagOf EXCEPT ![c] = tag]
  BY DEF Call
<1>3. /\ tagOf' \in [Calls -> Nat \union {None}] /\ tagOf'[c] = tag
      /\ \A d \in Calls : d # c => tagOf'[d] = tagOf[d]
  BY <1>1, <1>2 DEF BatchInv, BatchTypes
<1>4. ASSUME NEW batch, batch.calls \in Seq(Calls), batch.blockTag \in Nat, Agree(batch)
      PROVE  \A i \in DOMAIN batch.calls : tagOf'[batch.calls[i]] = batch.blockTag
  <2>1. TAKE i \in DOMAIN batch.calls
  <2>2. batch.calls[i] \in Calls /\ tagOf[batch.calls[i]] = batch.blockTag
    BY <1>4 DEF Agree
  <2>3. batch.calls[i] # c
    BY <1>1, <1>2, <1>4, <2>2
  <2>4. QED BY <1>3, <2>2, <2>3
<1>5. /\ batched.calls \in Seq(Calls) /\ batched.blockTag \in Nat
      /\ \A r \in requests : r.calls \in Seq(Calls) /\ r.blockTag \in Nat
  BY DEF BatchInv, BatchTypes, Requests
<1>6. AnsweredAtItsBlock' /\ \A d \in Calls : answer'[d] \notin {None, Rejected} => tagOf'[d] # None
  BY <1>1, <1>2, <1>3 DEF BatchInv, BatchTypes, AnsweredAtItsBlock, Rejected
<1>7. CASE b /\ ~AlreadyBatchedCallsConflictWith(tag)
  <2>1. /\ requests' = requests
        /\ batched' = [calls |-> Append(batched.calls, c),
                       blockTag |-> IF batched.calls = <<>> THEN tag ELSE batched.blockTag]
    BY <1>7 DEF Call
  <2>2. batched'.blockTag = tag /\ (batched.calls # <<>> => batched.blockTag = tag)
    BY <1>7, <2>1 DEF AlreadyBatchedCallsConflictWith
  <2>3. batched' \in [calls : Seq(Calls), blockTag : Nat]
    BY <1>1, <1>5, <2>1
  <2>4. Agree(batched)'
    <3>1. \A i \in DOMAIN batched.calls : tagOf'[batched.calls[i]] = batched.blockTag
      BY <1>4, <1>5 DEF BatchInv
    <3>2. SUFFICES ASSUME NEW i \in DOMAIN batched'.calls
                   PROVE  tagOf'[batched'.calls[i]] = tag
      BY <2>2 DEF Agree
    <3>3. CASE i = Len(batched.calls) + 1
      BY <1>3, <1>5, <2>1, <3>3
    <3>4. CASE i # Len(batched.calls) + 1
      <4>1. i \in 1 .. Len(batched.calls) /\ batched'.calls[i] = batched.calls[i]
        BY <1>5, <2>1, <3>2, <3>4
      <4>2. batched.calls # <<>>
        BY <4>1
      <4>3. QED BY <1>5, <2>2, <3>1, <4>1, <4>2
    <3>5. QED BY <3>3, <3>4
  <2>5. \A r \in requests' : Agree(r)'
    BY <1>4, <1>5, <2>1 DEF BatchInv, Agree
  <2>6. QED BY <1>3, <1>6, <2>1, <2>3, <2>4, <2>5 DEF BatchInv, BatchTypes
<1>8. CASE ~(b /\ ~AlreadyBatchedCallsConflictWith(tag))
  <2>1. batched' = batched /\ requests' = requests \union {Request(<<c>>, tag)}
    BY <1>8 DEF Call
  <2>2. Agree(batched)'
    BY <1>4, <1>5, <2>1 DEF BatchInv, Agree
  <2>3. /\ Request(<<c>>, tag) \in Requests
        /\ Request(<<c>>, tag).calls = <<c>>
        /\ Request(<<c>>, tag).blockTag = tag
    <3>1. <<c>> \in Seq(Calls)
      OBVIOUS
    <3>2. QED BY <1>1, <3>1, NewRequest
  <2>4. \A r \in requests' : Agree(r)'
    <3>1. TAKE r \in requests'
    <3>2. CASE r \in requests
      BY <1>4, <1>5, <3>2 DEF BatchInv, Agree
    <3>3. CASE r = Request(<<c>>, tag)
      BY <1>3, <2>3, <3>3 DEF Agree
    <3>4. QED BY <2>1, <3>2, <3>3
  <2>5. QED BY <1>3, <1>6, <2>1, <2>2, <2>3, <2>4 DEF BatchInv, BatchTypes
<1>9. QED BY <1>7, <1>8

LEMMA DispatchKeepsAnswers ==
    ASSUME BatchInv, DispatchCalls
    PROVE  BatchInv'
<1>1. /\ batched' = EmptyBatch /\ UNCHANGED <<tagOf, answer>>
      /\ requests' = requests \union {Request(batched.calls, batched.blockTag)}
  BY DEF DispatchCalls
<1>2. /\ Request(batched.calls, batched.blockTag) \in Requests
      /\ Request(batched.calls, batched.blockTag).calls = batched.calls
      /\ Request(batched.calls, batched.blockTag).blockTag = batched.blockTag
  <2>1. batched.calls \in Seq(Calls) /\ batched.blockTag \in Nat
    BY DEF BatchInv, BatchTypes
  <2>2. QED BY <2>1, NewRequest
<1>3. \A r \in requests' : Agree(r)'
  BY <1>1, <1>2 DEF BatchInv, Agree
<1>4. Agree(batched)' /\ batched' \in [calls : Seq(Calls), blockTag : Nat]
  BY <1>1 DEF Agree, EmptyBatch, Latest
<1>5. AnsweredAtItsBlock'
  BY <1>1 DEF BatchInv, AnsweredAtItsBlock
<1>6. BatchTypes'
  BY <1>1, <1>2, <1>4 DEF BatchInv, BatchTypes
<1>7. QED BY <1>3, <1>4, <1>5, <1>6 DEF BatchInv

\* Repeating a request, on the same block or none, keeps its calls and its tag.
LEMMA ReplaceKeepsAnswers ==
    ASSUME BatchInv, NEW r \in requests, NEW s \in Requests, Replace(r, s),
           s.calls = r.calls, s.blockTag = r.blockTag,
           UNCHANGED <<batched, tagOf, answer>>
    PROVE  BatchInv'
<1>1. requests' = (requests \ {r}) \union {s}
  BY DEF Replace
<1>2. \A q \in requests' : Agree(q)'
  BY <1>1 DEF BatchInv, Agree
<1>3. QED
  BY <1>1, <1>2 DEF BatchInv, BatchTypes, Agree, AnsweredAtItsBlock

LEMMA SettleKeepsAnswers ==
    ASSUME BatchInv, NEW r \in requests, NEW results, Settle(r, results),
           \A i \in DOMAIN r.calls : results[i] = Rejected
               \/ /\ results[i].call = r.calls[i]
                  /\ r.blockTag # Latest => results[i].block = r.blockTag
    PROVE  BatchInv'
<1>1. /\ UNCHANGED <<batched, tagOf>> /\ requests' = requests \ {r}
      /\ answer' = [c \in Calls |-> IF c \in CallsOf(r)
                       THEN results[CHOOSE i \in DOMAIN r.calls : r.calls[i] = c]
                       ELSE answer[c]]
  BY DEF Settle
<1>2. None \notin Nat /\ r.blockTag \in Nat
  BY ProviderAssumption DEF BatchInv, BatchTypes, Requests
<1>3. ASSUME NEW c \in Calls, answer'[c] \notin {None, Rejected}
      PROVE  /\ tagOf[c] # None /\ answer'[c].call = c
             /\ tagOf[c] # Latest => answer'[c].block = tagOf[c]
  <2>1. CASE c \in CallsOf(r)
    <3>1. PICK i \in DOMAIN r.calls : r.calls[i] = c /\ answer'[c] = results[i]
      BY <1>1, <2>1 DEF CallsOf
    <3>2. tagOf[c] = r.blockTag
      BY <3>1 DEF BatchInv, Agree
    <3>3. QED BY <1>2, <1>3, <3>1, <3>2
  <2>2. CASE c \notin CallsOf(r)
    BY <1>1, <1>3, <2>2 DEF BatchInv, BatchTypes, AnsweredAtItsBlock
  <2>3. QED BY <2>1, <2>2
<1>4. AnsweredAtItsBlock'
  BY <1>1, <1>3 DEF AnsweredAtItsBlock, Rejected
<1>5. BatchTypes'
  BY <1>1, <1>3 DEF BatchInv, BatchTypes, Rejected
<1>6. QED BY <1>1, <1>4, <1>5 DEF BatchInv, Agree

LEMMA RequestKeepsAnswers ==
    ASSUME ListenerTypes, BatchInv, RequestStep
    PROVE  BatchInv'
<1>1. PICK r \in requests : Perform(r) \/ \E n \in Nodes : Answer(r, n) \/ HeaderNotFound(r, n)
  BY DEF RequestStep
<1>2. /\ r \in Requests
      /\ DOMAIN r = {"calls", "blockTag", "starting", "phase", "via"}
  BY <1>1 DEF BatchInv, BatchTypes, Requests
<1>3. CASE Perform(r)
  <2> DEFINE starting == IF r.starting # None THEN r.starting
                         ELSE IF r.blockTag = seenBlock /\ r.blockTag # Latest
                         THEN seenBlock ELSE NoRetry
             via == IF Ready THEN wsProvider ELSE Base
             s == [r EXCEPT !.phase = "sent", !.via = via, !.starting = starting]
  <2>1. Replace(r, s) /\ UNCHANGED <<batched, tagOf, answer>>
    BY <1>2, <1>3 DEF Perform
  <2>2. via \in {Base, None} \union Sockets
    BY DEF ListenerTypes
  <2>3. starting \in Int \union {None}
    BY <1>2 DEF Requests, NoRetry
  <2>4. s \in Requests /\ s.calls = r.calls /\ s.blockTag = r.blockTag
    <3> HIDE DEF starting, via
    <3> QED BY <1>2, <2>2, <2>3 DEF Requests
  <2>5. QED BY <2>1, <2>4, ReplaceKeepsAnswers
<1>4. ASSUME NEW n \in Nodes, Answer(r, n)
      PROVE  BatchInv'
  <2> DEFINE results == [i \in DOMAIN r.calls |->
                 [call  |-> r.calls[i],
                  block |-> IF r.blockTag = Latest THEN height[n] ELSE r.blockTag]]
  <2>1. Settle(r, results)
    BY <1>4 DEF Answer
  <2>2. \A i \in DOMAIN r.calls : /\ results[i].call = r.calls[i]
                                  /\ r.blockTag # Latest => results[i].block = r.blockTag
    OBVIOUS
  <2> HIDE DEF results
  <2>3. QED BY <2>1, <2>2, SettleKeepsAnswers
<1>5. ASSUME NEW n \in Nodes, HeaderNotFound(r, n)
      PROVE  BatchInv'
  <2>1. CASE r.starting = seenBlock
    <3> DEFINE s == [r EXCEPT !.phase = "ready"]
    <3>1. Replace(r, s) /\ UNCHANGED <<batched, tagOf, answer>>
      BY <1>5, <2>1 DEF HeaderNotFound
    <3>2. s \in Requests /\ s.calls = r.calls /\ s.blockTag = r.blockTag
      BY <1>2 DEF Requests
    <3>3. QED BY <3>1, <3>2, ReplaceKeepsAnswers
  <2>2. CASE r.starting # seenBlock
    <3> DEFINE results == [i \in DOMAIN r.calls |-> Rejected]
    <3>1. Settle(r, results)
      BY <1>5, <2>2 DEF HeaderNotFound
    <3>2. \A i \in DOMAIN r.calls : results[i] = Rejected
      OBVIOUS
    <3> HIDE DEF results
    <3>3. QED BY <3>1, <3>2, SettleKeepsAnswers
  <2>3. QED BY <2>1, <2>2
<1>6. QED BY <1>1, <1>3, <1>4, <1>5

LEMMA BatchStep ==
    ASSUME ListenerInv, BatchInv, [Next]_allVars
    PROVE  BatchInv'
<1>1. CASE UNCHANGED <<batched, requests, tagOf, answer>>
  BY <1>1 DEF BatchInv, BatchTypes, Agree, AnsweredAtItsBlock
<1>2. CASE ProviderNext /\ UNCHANGED batchVars
  BY <1>1, <1>2 DEF batchVars
<1>3. CASE SetChainId
  BY <1>1, <1>3 DEF SetChainId
<1>4. CASE \E c \in Calls, tag \in {Latest} \union 1 .. MaxBlock, b \in BOOLEAN : Call(c, tag, b)
  BY <1>4, CallKeepsAnswers
<1>5. CASE RequestStep
  BY <1>5, RequestKeepsAnswers DEF ListenerInv
<1>6. CASE UNCHANGED allVars
  BY <1>1, <1>6 DEF allVars, batchVars
<1>7. QED
  BY <1>2, <1>3, <1>4, <1>5, <1>6, DispatchKeepsAnswers DEF Next

\* A call that resolves has its own result, from the block it asked for: for any
\* calls that share requests, any nodes that lag and any requests that are repeated.
THEOREM AnswersAreAtTheirBlock == Spec => []AnsweredAtItsBlock
<1>1. Init => ListenerInv /\ BatchInv
  <2>1. SUFFICES ASSUME Init PROVE BatchInv
    BY ListenerInit
  <2>2. batched = EmptyBatch /\ requests = {}
    BY <2>1 DEF Init
  <2>3. /\ tagOf \in [Calls -> Nat \union {None}]
        /\ \A c \in Calls : answer[c] \in {None, Rejected}
    BY <2>1 DEF Init, Callers, Waiters, Latest
  <2>4. batched \in [calls : Seq(Calls), blockTag : Nat] /\ batched.calls = <<>>
    BY <2>2 DEF EmptyBatch, Latest
  <2>5. QED
    BY <2>2, <2>3, <2>4 DEF BatchInv, BatchTypes, Agree, AnsweredAtItsBlock
<1>2. ListenerInv /\ BatchInv /\ [Next]_allVars => (ListenerInv /\ BatchInv)'
  BY ListenerStep, BatchStep
<1>3. BatchInv => AnsweredAtItsBlock
  BY DEF BatchInv
<1>4. QED BY <1>1, <1>2, <1>3, PTL DEF Spec
=============================================================================
