--------------------------- MODULE BatchedProvider ---------------------------
(****************************************************************************)
(* Calls that are made within a few milliseconds for the same block travel  *)
(* in one request of Multicall's aggregate, through the provider that       *)
(* WebSocketAugmentedProvider augments.                                     *)
(****************************************************************************)
EXTENDS WebSocketAugmentedProvider, Sequences

CONSTANT Calls

VARIABLES
    multicall,  \* whether chainId has been set to a network with Multicall
    batched,    \* the calls of the batch, whose timer runs if there are any
    requests,   \* underway to the nodes
    tagOf,      \* the block tag of every call made
    answer      \* what every call has been resolved or rejected with

batchVars == <<multicall, batched, requests, tagOf, answer>>
allVars == <<vars, batchVars>>

Latest == 0     \* the block tag "latest" or undefined

EmptyBatch == [calls |-> <<>>, blockTag |-> Latest]

\* A request's starting block is None before it has been performed.
Request(calls, tag) ==
    [calls |-> calls, blockTag |-> tag, starting |-> None, phase |-> "ready", via |-> Base]

NoRetry == -1

\* Bounded: before the first call (a call before it travels like an unbatchable one).
SetChainId ==
    /\ ~multicall
    /\ \A c \in Calls : tagOf[c] = None
    /\ multicall' = TRUE
    /\ UNCHANGED <<vars, batched, requests, tagOf, answer>>

MutAlreadyBatchedCallsConflictWith(tag) == FALSE    \* broken: any batch will do

AlreadyBatchedCallsConflictWith(tag) ==
    batched.calls # <<>> /\ tag # batched.blockTag

\* call and getBalance.  A batchable call sets neither gas nor value.
Call(c, tag, batchable) ==
    /\ tagOf[c] = None
    /\ multicall
    /\ \E n \in Nodes : height[n] >= tag
    /\ tagOf' = [tagOf EXCEPT ![c] = tag]
    /\ IF batchable /\ ~AlreadyBatchedCallsConflictWith(tag)
       THEN /\ batched' = [calls |-> Append(batched.calls, c),
                           blockTag |-> IF batched.calls = <<>> THEN tag ELSE batched.blockTag]
            /\ UNCHANGED requests
       ELSE /\ requests' = requests \union {Request(<<c>>, tag)}
            /\ UNCHANGED batched
    /\ UNCHANGED <<vars, multicall, answer>>

\* The timer of the batch, 10 ms after the last call was added.
DispatchCalls ==
    /\ batched.calls # <<>>
    /\ requests' = requests \union {Request(batched.calls, batched.blockTag)}
    /\ batched' = EmptyBatch
    /\ UNCHANGED <<vars, multicall, tagOf, answer>>

Replace(request, new) == requests' = (requests \ {request}) \union {new}

Ready == wsProvider # None /\ socketState[wsProvider] = "open"

\* A request for the block just seen may be repeated.
Perform(r) ==
    /\ r.phase = "ready"
    /\ Replace(r, [r EXCEPT
           !.phase = "sent",
           !.via = IF Ready THEN wsProvider ELSE Base,
           !.starting = IF @ # None THEN @
                        ELSE IF r.blockTag = seenBlock /\ r.blockTag # Latest
                        THEN seenBlock ELSE NoRetry])
    /\ UNCHANGED <<vars, multicall, batched, tagOf, answer>>

CallsOf(r) == {r.calls[i] : i \in DOMAIN r.calls}

Settle(r, results) ==
    /\ answer' = [c \in Calls |-> IF c \in CallsOf(r)
                     THEN results[CHOOSE i \in DOMAIN r.calls : r.calls[i] = c]
                     ELSE answer[c]]
    /\ requests' = requests \ {r}
    /\ UNCHANGED <<vars, multicall, batched, tagOf>>

Rejected == [call |-> None, block |-> None]

\* A node that knows the block computes all results there, in their order.
Answer(r, n) ==
    /\ r.phase = "sent" /\ Open(r.via)
    /\ height[n] >= r.blockTag
    /\ Settle(r, [i \in DOMAIN r.calls |->
           [call  |-> r.calls[i],
            block |-> IF r.blockTag = Latest THEN height[n] ELSE r.blockTag]])

\* Another node does not; the request is repeated while no other block was seen.
HeaderNotFound(r, n) ==
    /\ r.phase = "sent" /\ Open(r.via)
    /\ height[n] < r.blockTag
    /\ IF r.starting = seenBlock
       THEN /\ Replace(r, [r EXCEPT !.phase = "ready"])
            /\ UNCHANGED <<vars, multicall, batched, tagOf, answer>>
       ELSE Settle(r, [i \in DOMAIN r.calls |-> Rejected])

\* Who calls and who waits meet in the block events only, so it is one or the
\* other here: all web sockets but one are gone, or all calls are settled.
Callers ==
    /\ socketState = [s \in Sockets |-> IF s = MaxSockets THEN "open" ELSE "closed"]
    /\ wsProvider = MaxSockets
    /\ wait = [w \in Waits |-> [NotWaiting EXCEPT !.phase = "done"]]
    /\ minedIn = 1 /\ multicall = FALSE
    /\ tagOf = [c \in Calls |-> None]
    /\ answer = [c \in Calls |-> None]

Waiters ==
    /\ socketState = [s \in Sockets |-> "unused"]
    /\ wsProvider = None
    /\ wait = [w \in Waits |-> NotWaiting]
    /\ multicall = TRUE
    /\ tagOf = [c \in Calls |-> Latest]
    /\ answer = [c \in Calls |-> Rejected]

Init ==
    /\ ProviderInit
    /\ Callers \/ Waiters
    /\ batched = EmptyBatch
    /\ requests = {}

RequestStep ==
    \E r \in requests :
        \/ Perform(r)
        \/ \E n \in Nodes : Answer(r, n) \/ HeaderNotFound(r, n)

Next ==
    \/ ProviderNext /\ UNCHANGED batchVars
    \/ SetChainId
    \/ \E c \in Calls, tag \in {Latest} \union 1 .. MaxBlock, b \in BOOLEAN : Call(c, tag, b)
    \/ DispatchCalls
    \/ RequestStep

Fairness ==
    /\ WF_allVars(DispatchCalls)
    /\ \A c \in Calls : WF_allVars(\E r \in requests :
           /\ c \in CallsOf(r)
           /\ Perform(r) \/ \E n \in Nodes : Answer(r, n) \/ HeaderNotFound(r, n))
    /\ \A w \in Waits : WF_allVars(WaitStep(w) /\ UNCHANGED batchVars)
    /\ \A n \in Nodes : WF_allVars(NewBlock(n) /\ UNCHANGED batchVars)
    /\ \A s \in Sockets : WF_allVars(Connect(s) /\ UNCHANGED batchVars)
    /\ WF_allVars(BlockEvent /\ UNCHANGED batchVars)
    /\ WF_allVars(CallListeners /\ UNCHANGED batchVars)

Spec == Init /\ [][Next]_allVars /\ Fairness

(******************************** properties *******************************)

\* A call that resolves gets its own result, computed at the block it asked for,
\* whichever calls shared its request and however often that was repeated.
AnsweredAtItsBlock ==
    \A c \in Calls : answer[c] \notin {None, Rejected} =>
        /\ answer[c].call = c
        /\ tagOf[c] # Latest => answer[c].block = tagOf[c]

Stranded(provider) == provider # Base /\ socketState[provider] = "closed"

\* Every call is settled and every wait for a mined transaction ends, although
\* nodes lag and block events are missed and coalesced - unless a web socket
\* closes with the request underway, which nobody notices.
EverythingEnds ==
    /\ \A c \in Calls : tagOf[c] # None ~>
           \/ answer[c] # None
           \/ \E r \in requests : Stranded(r.via) /\ c \in CallsOf(r)
    /\ \A w \in Waits : wait[w].phase # "no" ~>
           \/ wait[w].phase = "done"
           \/ wait[w].phase = "asked" /\ Stranded(wait[w].via)
=============================================================================
