---------------------- MODULE WebSocketAugmentedProvider ----------------------
(****************************************************************************)
(* A provider that hears of blocks and reads through a web socket while it  *)
(* has one, and by polling otherwise.  Both ends are load balanced: every   *)
(* answer and every block event comes from a node, and nodes lag behind     *)
(* each other.  Requests come from BatchedProvider.                         *)
(****************************************************************************)
EXTENDS Integers, FiniteSets

CONSTANTS
    Nodes,          \* behind the load balancers
    MaxBlock,       \* bound on the chain; its last block stands for all later ones
    MaxSockets,     \* bound on the web sockets that are opened
    Waits,          \* calls of waitForTransaction
    Subscribers,    \* other listeners to blocks
    Confirmations,
    None            \* undefined

ASSUME ProviderAssumption ==
    /\ MaxSockets \in Nat \ {0}
    /\ None \notin Nat

VARIABLES
    height,         \* the latest block of every node
    socketState,    \* "unused", "connecting", "open" or "closed"
    wsProvider,
    reconnects,     \* pending timers of 10 seconds, numbered by their sockets
    reconnectTimerId,
    attached,       \* how often _blockListener is on at each provider
    seenBlock,
    scheduled,      \* _blockListenerScheduled
    blockListeners,
    minedIn,        \* the block of the transaction that is waited for
    wait            \* the calls of waitForTransaction

socketVars == <<socketState, wsProvider, reconnects, reconnectTimerId>>
eventVars == <<attached, seenBlock, scheduled, blockListeners>>
chainVars == <<height, minedIn>>
vars == <<socketVars, eventVars, chainVars, wait>>

Base == 0           \* the provider that polls
Sockets == 1 .. MaxSockets

Open(provider) == provider # Base => socketState[provider] = "open"
Current(socket) == IF socket = None THEN Base ELSE socket

(******************************* block events ******************************)

On(at, provider) == [at EXCEPT ![provider] = @ + 1]

\* off of a listener that is not on does nothing.
Off(at, provider) == [at EXCEPT ![provider] = IF @ > 0 THEN @ - 1 ELSE 0]

MutSwitchover(socket, at) ==    \* broken: the poller goes on beside the socket
    IF blockListeners = {} THEN at ELSE On(at, Current(socket))

MutDeafSwitchover(socket, at) ==    \* broken: without a socket nobody starts the poller
    IF blockListeners = {} \/ socket = None THEN at ELSE On(Off(at, Base), socket)

\* What is attached when socket has become the web socket, or there is none.
Switchover(socket, at) ==
    CASE blockListeners = {} -> at
      [] blockListeners # {} /\ socket # None -> On(Off(at, Base), socket)
      [] blockListeners # {} /\ socket = None -> On(at, Base)

AddBlockListener(listener) ==
    /\ blockListeners' = blockListeners \union {listener}
    /\ attached' = IF blockListeners = {} THEN On(attached, Current(wsProvider)) ELSE attached

AfterRemoving(listeners) ==
    /\ blockListeners' = blockListeners \ listeners
    /\ attached' = IF blockListeners # {} /\ blockListeners \subseteq listeners
                   THEN Off(attached, Current(wsProvider)) ELSE attached

Subscribe(s) ==
    /\ s \notin blockListeners
    /\ AddBlockListener(s)
    /\ UNCHANGED <<socketVars, seenBlock, scheduled, chainVars, wait>>

Unsubscribe(s) ==
    /\ s \in blockListeners
    /\ AfterRemoving({s})
    /\ UNCHANGED <<socketVars, seenBlock, scheduled, chainVars, wait>>

\* A provider reports the latest block of a node, if the listener is attached.
OnBlock(provider, n) ==
    /\ Open(provider) /\ attached[provider] > 0
    /\ height[n] > 0
    /\ seenBlock' = height[n]
    /\ scheduled' = TRUE
    /\ UNCHANGED <<socketVars, attached, blockListeners, chainVars, wait>>

\* 50 ms after the first block event.  Those who listen once remove themselves.
CallListeners ==
    /\ scheduled
    /\ scheduled' = FALSE
    /\ AfterRemoving(Waits)
    /\ wait' = [w \in Waits |-> IF w \in blockListeners
                                THEN [wait[w] EXCEPT !.phase = "ask", !.latest = seenBlock]
                                ELSE wait[w]]
    /\ UNCHANGED <<socketVars, seenBlock, chainVars>>

(******************************* web sockets *******************************)

NextSocket == CHOOSE s \in Sockets : socketState[s] = "unused"

\* openWebSocket forgets the web socket it may already have, without closing it.
OpenWebSocket ==
    /\ \E s \in Sockets : socketState[s] = "unused"
    /\ socketState' = [socketState EXCEPT ![NextSocket] = "connecting"]
    /\ wsProvider' = NextSocket
    /\ attached' = Switchover(NextSocket, attached)
    /\ UNCHANGED <<reconnectTimerId, seenBlock, scheduled, blockListeners, chainVars, wait>>

UserOpens == OpenWebSocket /\ UNCHANGED reconnects

Reconnect ==
    \E timer \in reconnects :
        /\ OpenWebSocket
        /\ reconnects' = reconnects \ {timer}

Connect(s) ==
    /\ socketState[s] = "connecting"
    /\ socketState' = [socketState EXCEPT ![s] = "open"]
    /\ UNCHANGED <<wsProvider, reconnects, reconnectTimerId, eventVars, chainVars, wait>>

\* closeWebSocket, which only stops the reconnection if there is a web socket.
UserCloses ==
    /\ wsProvider # None
    /\ socketState' = [socketState EXCEPT ![wsProvider] = "closed"]
    /\ wsProvider' = None
    /\ attached' = Switchover(None, attached)
    /\ reconnects' = reconnects \ {reconnectTimerId}
    /\ reconnectTimerId' = None
    /\ UNCHANGED <<seenBlock, scheduled, blockListeners, chainVars, wait>>

\* A web socket ends, be it the current one or a forgotten one: _onWebSocketClose
\* closes the current one and starts a timer.
Drop(s) ==
    /\ socketState[s] \in {"connecting", "open"}
    /\ socketState' = [t \in Sockets |->
                          IF t \in {s, wsProvider} THEN "closed" ELSE socketState[t]]
    /\ wsProvider' = None
    /\ attached' = IF wsProvider = None THEN attached ELSE Switchover(None, attached)
    /\ reconnects' = (IF wsProvider = None THEN reconnects
                      ELSE reconnects \ {reconnectTimerId}) \union {s}
    /\ reconnectTimerId' = s
    /\ UNCHANGED <<seenBlock, scheduled, blockListeners, chainVars, wait>>

(**************************** waitForTransaction ***************************)

NotWaiting == [phase |-> "no", latest |-> None, via |-> Base]

WaitForTransaction(w) ==
    /\ wait[w].phase = "no"
    /\ wait' = [wait EXCEPT ![w] = [phase |-> "ask", latest |-> None, via |-> Base]]
    /\ UNCHANGED <<socketVars, eventVars, chainVars>>

\* getTransactionReceipt uses a web socket that is not connected yet.
AskForReceipt(w) ==
    /\ wait[w].phase = "ask"
    /\ wait' = [wait EXCEPT ![w].phase = "asked", ![w].via = Current(wsProvider)]
    /\ UNCHANGED <<socketVars, eventVars, chainVars>>

\* The next block decides: this.once("block", resolve).
AwaitBlock(w) ==
    /\ wait' = [wait EXCEPT ![w].phase = "once"]
    /\ AddBlockListener(w)
    /\ UNCHANGED <<socketVars, seenBlock, scheduled, chainVars>>

Go(w, phase) ==
    /\ wait' = [wait EXCEPT ![w].phase = phase]
    /\ UNCHANGED <<socketVars, eventVars, chainVars>>

ConfirmedBy(n) == height[n] - minedIn + 1

\* A node that is behind the latest block seen is asked again later.
Receipt(w, n) ==
    LET latest == wait[w].latest
        found  == height[n] >= minedIn
    IN  /\ wait[w].phase = "asked" /\ Open(wait[w].via)
        /\ \/ found /\ latest # None /\ height[n] < latest /\ Go(w, "ask")
           \/ /\ found /\ (latest # None => height[n] >= latest)
              /\ IF ConfirmedBy(n) >= Confirmations THEN Go(w, "done") ELSE AwaitBlock(w)
           \/ ~found /\ latest # None /\ Go(w, "look")
           \/ ~found /\ latest = None /\ AwaitBlock(w)

\* _blockContainsTx asks until a node has the block.
LookIntoBlock(w, n) ==
    /\ wait[w].phase = "look"
    /\ height[n] >= wait[w].latest
    /\ IF wait[w].latest = minedIn THEN Go(w, "ask") ELSE AwaitBlock(w)

(*********************************** chain *********************************)

NewBlock(n) ==
    /\ height[n] < MaxBlock
    /\ height' = [height EXCEPT ![n] = @ + 1]
    /\ UNCHANGED <<socketVars, eventVars, minedIn, wait>>

(******************************* specification *****************************)

ProviderInit ==
    /\ height = [n \in Nodes |-> 0]
    /\ reconnects = {} /\ reconnectTimerId = None
    /\ attached = [p \in {Base} \union Sockets |-> 0]
    /\ seenBlock = 0 /\ scheduled = FALSE
    /\ blockListeners = {}
    /\ minedIn \in 1 .. MaxBlock - Confirmations + 1

WaitStep(w) ==
    \/ AskForReceipt(w)
    \/ \E n \in Nodes : Receipt(w, n) \/ LookIntoBlock(w, n)

ProviderNext ==
    \/ UserOpens \/ UserCloses \/ Reconnect
    \/ \E s \in Sockets : Connect(s) \/ Drop(s)
    \/ \E s \in Subscribers : Subscribe(s) \/ Unsubscribe(s)
    \/ \E p \in {Base} \union Sockets, n \in Nodes : OnBlock(p, n)
    \/ CallListeners
    \/ \E w \in Waits : WaitForTransaction(w) \/ WaitStep(w)
    \/ \E n \in Nodes : NewBlock(n)

BlockEvent == \E p \in {Base} \union Sockets, n \in Nodes : OnBlock(p, n)

(******************************** properties *******************************)

\* Whoever subscribes, opens, closes or drops, and in whatever order: the provider
\* in use has the one block listener exactly if somebody listens, and the poller
\* has none beside a web socket.  (Forgotten web sockets keep theirs.)
HearsBlocksOnce ==
    /\ attached[Current(wsProvider)] = IF blockListeners = {} THEN 0 ELSE 1
    /\ wsProvider # None => attached[Base] = 0
=============================================================================
