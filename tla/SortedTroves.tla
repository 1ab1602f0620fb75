---------------------------- MODULE SortedTroves ----------------------------
(***************************************************************************)
(* SortedTroves.sol: the doubly linked list of active troves, its position *)
(* hints and the loops that walk it.  A call is one EVM transaction (or    *)
(* part of one), so nothing runs while `call` is not idle, but each        *)
(* iteration of _descendList and _ascendList is a step of its own: the     *)
(* walk reads pointers and ratios one node at a time.                      *)
(*                                                                         *)
(* The ratios (`nicr`) live in TroveManager.  They are written here by the *)
(* operations of TroveManager and BorrowerOperations that call the list,   *)
(* and by redistributions, which change the ratio of every active trove    *)
(* at once without touching the list.                                      *)
(***************************************************************************)
EXTENDS Naturals, FiniteSets

CONSTANTS Ids,       \* trove owners (addresses)
          NULL,      \* address(0)
          MaxSize,   \* data.maxSize, given to setParams
          MaxNICR    \* bound: the ratios are 1..MaxNICR

ASSUME NullAssumption == NULL \notin Ids
ASSUME SizeAssumption == MaxSize \in Nat \ {0} /\ MaxNICR \in Nat \ {0}

VARIABLES head, tail, size,   \* data.head, data.tail, data.size
          members,            \* { id : data.nodes[id].exists }
          nextId, prevId,     \* data.nodes[id].nextId and .prevId
          nicr,               \* TroveManager.getNominalICR(id)
          call,               \* the insertion under way
          drifted             \* history: a redistribution has unsorted the list

links == <<head, tail, size, members, nextId, prevId>>
vars == <<links, nicr, call, drifted>>

NICRs == 1..MaxNICR
NoDebt == MaxNICR + 1     \* getNominalICR of an owner without debt: 2^256 - 1
Hints == Ids \union {NULL}

Idle == [phase |-> "idle", id |-> NULL, nicr |-> 0, prev |-> NULL, next |-> NULL]
Call(phase, id, n, p, x) ==
    [phase |-> phase, id |-> id, nicr |-> n, prev |-> p, next |-> x]

NominalICR(id) == IF id = NULL THEN NoDebt ELSE nicr[id]
Next_(id) == IF id = NULL THEN NULL ELSE nextId[id]   \* nodes[0] is never written
Prev_(id) == IF id = NULL THEN NULL ELSE prevId[id]

-----------------------------------------------------------------------------
(* Positions *)

\* Broken form: the comparison with the left neighbour is missing.
MutValidInsertPosition(n, p, x) ==
    CASE p = NULL /\ x = NULL -> size = 0
      [] p = NULL /\ x # NULL -> head = x /\ n >= NominalICR(x)
      [] p # NULL /\ x = NULL -> tail = p
      [] OTHER -> Next_(p) = x /\ n >= NominalICR(x)

\* _validInsertPosition: an empty list, before the head, after the tail, or
\* between two adjacent nodes; the ratios are read from TroveManager.
ValidInsertPosition(n, p, x) ==
    CASE p = NULL /\ x = NULL -> size = 0
      [] p = NULL /\ x # NULL -> head = x /\ n >= NominalICR(x)
      [] p # NULL /\ x = NULL -> tail = p /\ n <= NominalICR(p)
      [] OTHER -> Next_(p) = x /\ NominalICR(p) >= n /\ n >= NominalICR(x)

\* The entry of _descendList and of _ascendList, from a start node.
StartDescend(id, n, start) ==
    IF head = start /\ n >= NominalICR(start)
    THEN Call("link", id, n, NULL, start)
    ELSE Call("descend", id, n, start, Next_(start))

StartAscend(id, n, start) ==
    IF tail = start /\ n <= NominalICR(start)
    THEN Call("link", id, n, start, NULL)
    ELSE Call("ascend", id, n, Prev_(start), start)

\* Hints that left the list, or whose ratio moved to the wrong side, are
\* dropped before a walk starts from the other one, or from the head.
MutKeptPrev(n, p) == IF p \in members THEN p ELSE NULL   \* broken: a stale ratio
KeptPrev(n, p) == IF p \in members /\ n <= NominalICR(p) THEN p ELSE NULL
KeptNext(n, x) == IF x \in members /\ n >= NominalICR(x) THEN x ELSE NULL

\* _findInsertPosition
FindInsertPosition(id, n, p, x) ==
    LET prev == KeptPrev(n, p)
        next == KeptNext(n, x)
    IN  IF prev = NULL /\ next = NULL THEN StartDescend(id, n, head)
        ELSE IF prev = NULL THEN StartAscend(id, n, next)
        ELSE StartDescend(id, n, prev)

-----------------------------------------------------------------------------
(* Operations *)

\* _remove: the only node, the head, the tail or a middle node is bypassed
\* and deleted; ReInsert and RemoveNode add what becomes of the ratio.
UnlinkOnly(id) ==
    /\ size <= 1
    /\ head' = NULL
    /\ tail' = NULL
    /\ nextId' = [nextId EXCEPT ![id] = NULL]
    /\ prevId' = [prevId EXCEPT ![id] = NULL]

UnlinkHead(id) ==
    /\ size > 1
    /\ id = head
    /\ head' = nextId[id]
    /\ prevId' = [prevId EXCEPT ![nextId[id]] = NULL, ![id] = NULL]
    /\ nextId' = [nextId EXCEPT ![id] = NULL]
    /\ UNCHANGED tail

MutUnlinkTail(id) ==   \* broken: the new tail still points at the removed node
    /\ size > 1
    /\ id # head
    /\ id = tail
    /\ tail' = prevId[id]
    /\ nextId' = [nextId EXCEPT ![id] = NULL]
    /\ prevId' = [prevId EXCEPT ![id] = NULL]
    /\ UNCHANGED head

UnlinkTail(id) ==
    /\ size > 1
    /\ id # head
    /\ id = tail
    /\ tail' = prevId[id]
    /\ nextId' = [nextId EXCEPT ![prevId[id]] = NULL, ![id] = NULL]
    /\ prevId' = [prevId EXCEPT ![id] = NULL]
    /\ UNCHANGED head

UnlinkMiddle(id) ==
    /\ size > 1
    /\ id \notin {head, tail}
    /\ nextId' = [nextId EXCEPT ![prevId[id]] = nextId[id], ![id] = NULL]
    /\ prevId' = [prevId EXCEPT ![nextId[id]] = prevId[id], ![id] = NULL]
    /\ UNCHANGED <<head, tail>>

MutUnlink(id) ==       \* broken: without require(contains(_id))
    /\ members' = members \ {id}
    /\ size' = size - 1
    /\ UnlinkOnly(id) \/ UnlinkHead(id) \/ UnlinkTail(id) \/ UnlinkMiddle(id)

Unlink(id) ==
    /\ id \in members
    /\ members' = members \ {id}
    /\ size' = size - 1
    /\ \/ UnlinkOnly(id)
       \/ UnlinkHead(id)
       \/ UnlinkTail(id)
       \/ UnlinkMiddle(id)

\* insert, called by BorrowerOperations.openTrove: the trove already has its
\* collateral and debt, so TroveManager reports the ratio that is passed in.
Insert(id, n, p, x) ==
    /\ call = Idle
    /\ size # MaxSize
    /\ id \notin members
    /\ nicr' = [nicr EXCEPT ![id] = n]
    /\ call' = Call("check", id, n, p, x)
    /\ UNCHANGED <<links, drifted>>

\* reInsert, after an adjustment or a partial redemption: out of the list
\* first, then the insertion, with the ratio the trove has now.
ReInsert(id, n, p, x) ==
    /\ call = Idle
    /\ Unlink(id)
    /\ nicr' = [nicr EXCEPT ![id] = n]
    /\ call' = Call("check", id, n, p, x)
    /\ UNCHANGED drifted

\* remove, called when TroveManager closes a trove and zeroes its debt.
RemoveNode(id) ==
    /\ call = Idle
    /\ Unlink(id)
    /\ nicr' = [nicr EXCEPT ![id] = NoDebt]
    /\ UNCHANGED <<call, drifted>>

\* _insert tries the caller's position before it searches for one.
CheckHint ==
    /\ call.phase = "check"
    /\ call' = IF ValidInsertPosition(call.nicr, call.prev, call.next)
               THEN [call EXCEPT !.phase = "link"]
               ELSE FindInsertPosition(call.id, call.nicr, call.prev, call.next)
    /\ UNCHANGED <<links, nicr, drifted>>

\* One iteration of a loop: stop at its end or at a valid position, or move.
Descend ==
    /\ call.phase = "descend"
    /\ call' = IF call.prev = NULL \/ ValidInsertPosition(call.nicr, call.prev, call.next)
               THEN [call EXCEPT !.phase = "link"]
               ELSE LET p == Next_(call.prev)
                    IN  [call EXCEPT !.prev = p, !.next = Next_(p)]
    /\ UNCHANGED <<links, nicr, drifted>>

MutAscend ==           \* broken: prevId is read again, nextId never moves
    /\ call.phase = "ascend"
    /\ call' = IF call.next = NULL \/ ValidInsertPosition(call.nicr, call.prev, call.next)
               THEN [call EXCEPT !.phase = "link"]
               ELSE [call EXCEPT !.prev = Prev_(call.next)]
    /\ UNCHANGED <<links, nicr, drifted>>

Ascend ==
    /\ call.phase = "ascend"
    /\ call' = IF call.next = NULL \/ ValidInsertPosition(call.nicr, call.prev, call.next)
               THEN [call EXCEPT !.phase = "link"]
               ELSE LET x == Prev_(call.next)
                    IN  [call EXCEPT !.prev = Prev_(x), !.next = x]
    /\ UNCHANGED <<links, nicr, drifted>>

\* The end of _insert: the node is linked as the only one, as head, as tail
\* or between two nodes.  The position found is not looked at again.
LinkOnly(id) ==
    /\ head' = id
    /\ tail' = id
    /\ UNCHANGED <<nextId, prevId>>

LinkHead(id) ==
    /\ nextId' = [nextId EXCEPT ![id] = head]
    /\ prevId' = [prevId EXCEPT ![head] = id]
    /\ head' = id
    /\ UNCHANGED tail

LinkTail(id) ==
    /\ prevId' = [prevId EXCEPT ![id] = tail]
    /\ nextId' = [nextId EXCEPT ![tail] = id]
    /\ tail' = id
    /\ UNCHANGED head

LinkBetween(id, p, x) ==
    /\ nextId' = [nextId EXCEPT ![id] = x, ![p] = id]
    /\ prevId' = [prevId EXCEPT ![id] = p, ![x] = id]
    /\ UNCHANGED <<head, tail>>

LinkNode ==
    /\ call.phase = "link"
    /\ members' = members \union {call.id}
    /\ size' = size + 1
    /\ CASE call.prev = NULL /\ call.next = NULL -> LinkOnly(call.id)
         [] call.prev = NULL /\ call.next # NULL -> LinkHead(call.id)
         [] call.prev # NULL /\ call.next = NULL -> LinkTail(call.id)
         [] OTHER -> LinkBetween(call.id, call.prev, call.next)
    /\ call' = Idle
    /\ UNCHANGED <<nicr, drifted>>

-----------------------------------------------------------------------------
(* The environment and the specification *)

SortedBy(f) ==
    \A id \in members : nextId[id] # NULL => f[id] >= f[nextId[id]]

\* _redistributeDebtAndColl gives every active trove a share of a liquidated
\* one.  The shares are rounded, so the new ratios are left open; `drifted`
\* records that they no longer agree with the order of the list.
Redistribute ==
    /\ call = Idle
    /\ \E f \in [members -> NICRs] :
         /\ nicr' = [id \in Ids |-> IF id \in members THEN f[id] ELSE nicr[id]]
         /\ drifted' = (drifted \/ ~SortedBy(nicr'))
    /\ UNCHANGED <<links, call>>

Init ==
    /\ head = NULL /\ tail = NULL /\ size = 0 /\ members = {}
    /\ nextId = [id \in Ids |-> NULL]
    /\ prevId = [id \in Ids |-> NULL]
    /\ nicr = [id \in Ids |-> NoDebt]
    /\ call = Idle
    /\ drifted = FALSE

Loop == CheckHint \/ Descend \/ Ascend \/ LinkNode

Next ==
    \/ \E id \in Ids, n \in NICRs, p, x \in Hints :
         Insert(id, n, p, x) \/ ReInsert(id, n, p, x)
    \/ \E id \in Ids : RemoveNode(id)
    \/ CheckHint
    \/ Descend
    \/ Ascend
    \/ LinkNode
    \/ Redistribute

\* A transaction that has begun is run to its end by the EVM; nobody owes
\* the list another transaction.
Spec == Init /\ [][Next]_vars /\ WF_vars(Loop)

-----------------------------------------------------------------------------
(* Properties *)

\* Types of the list's storage and of the call under way.
TypeOK ==
    /\ members \subseteq Ids
    /\ {head, tail} \subseteq Hints
    /\ size \in Nat
    /\ nextId \in [Ids -> Hints]
    /\ prevId \in [Ids -> Hints]
    /\ nicr \in [Ids -> 1..NoDebt]
    /\ call \in [phase : {"idle", "check", "descend", "ascend", "link"}, id : Hints,
                  nicr : 0..MaxNICR, prev : Hints, next : Hints]
    /\ drifted \in BOOLEAN

\* s is the sequence of nodes the pointers spell out, read from both ends,
\* and the nodes outside it hold no pointer.
Spells(s) ==
    /\ {s[i] : i \in 1..size} = members
    /\ \A i, j \in 1..size : s[i] = s[j] => i = j
    /\ head = IF size = 0 THEN NULL ELSE s[1]
    /\ tail = IF size = 0 THEN NULL ELSE s[size]
    /\ \A i \in 1..size : nextId[s[i]] = IF i = size THEN NULL ELSE s[i + 1]
    /\ \A i \in 1..size : prevId[s[i]] = IF i = 1 THEN NULL ELSE s[i - 1]
    /\ \A id \in Ids \ members : nextId[id] = NULL /\ prevId[id] = NULL

\* Whatever hints the callers give and however the ratios move, the pointers
\* spell one list of exactly the `exists` nodes, the same in both
\* directions, of length data.size, and deleted nodes keep no stale pointer
\* that a later hint could be matched against (_insert, _remove).
WellLinked == \E s \in [1..size -> Ids] : Spells(s)

\* A walk that ends has found a place: when a node is about to be linked,
\* the position is the one _validInsertPosition accepts.  In particular the
\* loops never run off the end of a non-empty list, which would make the
\* node head and tail of a list that loses all the others, even when
\* rounding has left the list unsorted.
LinksAtValidPosition ==
    call.phase = "link" => ValidInsertPosition(call.nicr, call.prev, call.next)

\* As long as no redistribution has upset the order itself, the list is
\* sorted by current ratio, whatever the hints.
Sorted == ~drifted => SortedBy(nicr)

\* The list from head to tail, and the sequence it implements.
Order == CHOOSE s \in [1..size -> Ids] : Spells(s)
List == INSTANCE SortedList WITH order <- Order

\* The linked list implements the abstract one: a node is only ever put
\* between enclosing neighbours, and no call moves any other node.
ImplementsSortedList == List!Spec

\* Every insertion that starts is completed: no walk goes round for ever
\* (a loop without end would make the transaction run out of gas).
WalkEnds == call # Idle ~> call = Idle
=============================================================================
