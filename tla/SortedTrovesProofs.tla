-------------------------- MODULE SortedTrovesProofs --------------------------
(***************************************************************************)
(* Proofs about SortedTroves, for every set of owners, every size limit    *)
(* and every range of ratios.  The inductive invariant IInv adds to the    *)
(* checked invariants what a walk knows at each of its iterations.  Last,  *)
(* the linked list is shown to implement the sequence of SortedList: the   *)
(* pointers spell one sequence only, which _remove and the end of _insert  *)
(* change as the abstract list says and no other step changes.             *)
(***************************************************************************)
EXTENDS SortedTroves, CollectionTheorems

\* Taking a node out leaves a list that the pointers spell: the spelled
\* sequence without that node (_remove).
LEMMA UnlinkTakesOut ==
    ASSUME TypeOK, NEW s \in [1..size -> Ids], Spells(s), NEW id \in Ids, Unlink(id)
    PROVE  /\ size \in Nat /\ size' = size - 1
           /\ \E k \in 1..size : \E t \in [1..size' -> Ids] :
                /\ s[k] = id /\ Spells(t)'
                /\ \A i \in 1..size' : t[i] = IF i < k THEN s[i] ELSE s[i + 1]
<1> USE NullAssumption DEF Hints
<1>1. Spells(s)
  OBVIOUS
<1>2. PICK k \in 1..size : s[k] = id
  BY <1>1 DEF Spells, Unlink
<1>3. size \in Nat /\ size >= 1 /\ size' = size - 1
  BY <1>2 DEF TypeOK, Unlink
<1>4. PICK t : t = [i \in 1..(size - 1) |-> IF i < k THEN s[i] ELSE s[i + 1]]
  OBVIOUS
<1>5. t \in [1..size' -> Ids]
  BY <1>3, <1>4
<1>6. \A i \in 1..size' : t[i] = IF i < k THEN s[i] ELSE s[i + 1]
  BY <1>3, <1>4
<1>7. \A i, j \in 1..size : s[i] = s[j] => i = j
  BY <1>1 DEF Spells
<1>8. \A i \in 1..size : /\ nextId[s[i]] = IF i = size THEN NULL ELSE s[i + 1]
                         /\ prevId[s[i]] = IF i = 1 THEN NULL ELSE s[i - 1]
  BY <1>1 DEF Spells
<1>9. head = s[1] /\ tail = s[size]
  BY <1>1, <1>3 DEF Spells
<1>10. {t[i] : i \in 1..size'} = members'
  <2>1. ASSUME NEW i \in 1..size' PROVE t[i] \in members \ {id}
    BY <1>1, <1>2, <1>3, <1>6, <1>7 DEF Spells
  <2>2. ASSUME NEW x \in members \ {id} PROVE \E i \in 1..size' : t[i] = x
    <3>1. PICK j \in 1..size : s[j] = x
      BY <1>1 DEF Spells
    <3>2. CASE j < k
      BY <3>1, <3>2, <1>2, <1>3, <1>6
    <3>3. CASE j > k
      <4>1. j - 1 \in 1..size' /\ t[j - 1] = x
        BY <3>1, <3>3, <1>2, <1>3, <1>6
      <4>2. QED BY <4>1
    <3>4. QED BY <3>1, <3>2, <3>3, <1>2
  <2>3. QED BY <2>1, <2>2 DEF Unlink
<1>11. \A i, j \in 1..size' : t[i] = t[j] => i = j
  BY <1>2, <1>3, <1>6, <1>7
<1>12. \A x \in Ids \ members' : nextId'[x] = NULL /\ prevId'[x] = NULL
  <2>0. nextId \in [Ids -> Hints] /\ prevId \in [Ids -> Hints]
    BY DEF TypeOK
  <2>1. nextId'[id] = NULL /\ prevId'[id] = NULL
    BY <2>0 DEF Unlink, UnlinkOnly, UnlinkHead, UnlinkTail, UnlinkMiddle
  <2>2. ASSUME NEW x \in Ids \ members
        PROVE  nextId'[x] = NULL /\ prevId'[x] = NULL
    <3>1. nextId[x] = NULL /\ prevId[x] = NULL
      BY <1>1 DEF Spells
    <3>2. nextId[id] # x /\ prevId[id] # x
      <4>1. \A i \in 1..size : s[i] \in members
        BY <1>1 DEF Spells
      <4>2. /\ nextId[id] = IF k = size THEN NULL ELSE s[k + 1]
            /\ prevId[id] = IF k = 1 THEN NULL ELSE s[k - 1]
        BY <1>2, <1>8
      <4>3. x # NULL
        OBVIOUS
      <4>4. k # size => k + 1 \in 1..size
        BY <1>3
      <4>5. k # 1 => k - 1 \in 1..size
        BY <1>3
      <4>6. QED BY <4>1, <4>2, <4>3, <4>4, <4>5
    <3>3. QED
      BY <2>0, <3>1, <3>2 DEF Unlink, UnlinkOnly, UnlinkHead, UnlinkTail, UnlinkMiddle
  <2>3. QED BY <2>1, <2>2 DEF Unlink
<1>13. /\ head' = IF size' = 0 THEN NULL ELSE t[1]
       /\ tail' = IF size' = 0 THEN NULL ELSE t[size']
       /\ \A i \in 1..size' : nextId'[t[i]] = IF i = size' THEN NULL ELSE t[i + 1]
       /\ \A i \in 1..size' : prevId'[t[i]] = IF i = 1 THEN NULL ELSE t[i - 1]
  <2>0. nextId \in [Ids -> Hints] /\ prevId \in [Ids -> Hints]
    BY DEF TypeOK
  <2>1. CASE UnlinkOnly(id)
    BY <2>1, <1>3 DEF UnlinkOnly
  <2>2. CASE UnlinkHead(id)
    <3>1. k = 1 /\ nextId[id] = s[2] /\ size > 1
      BY <2>2, <1>2, <1>3, <1>7, <1>8, <1>9 DEF UnlinkHead
    <3>2. nextId[id] \in Hints /\ prevId[id] \in Hints /\ id \in Ids
      BY <2>0, <1>1, <1>2 DEF Spells
    <3>3. \A i \in 1..size' : t[i] \in Ids /\ t[i] # id
      BY <1>2, <1>3, <1>5, <1>6, <1>7
    <3>4. \A i \in 1..size' : nextId'[t[i]] = IF i = size' THEN NULL ELSE t[i + 1]
      BY <2>0, <2>2, <3>1, <3>2, <3>3, <1>2, <1>3, <1>6, <1>7, <1>8, SMTT(30) DEF UnlinkHead
    <3>5. \A i \in 1..size' : prevId'[t[i]] = IF i = 1 THEN NULL ELSE t[i - 1]
      BY <2>0, <2>2, <3>1, <3>2, <3>3, <1>2, <1>3, <1>6, <1>7, <1>8, SMTT(30) DEF UnlinkHead
    <3>6. /\ head' = IF size' = 0 THEN NULL ELSE t[1]
          /\ tail' = IF size' = 0 THEN NULL ELSE t[size']
      BY <2>2, <3>1, <1>3, <1>6, <1>9 DEF UnlinkHead
    <3>7. QED BY <3>4, <3>5, <3>6
  <2>3. CASE UnlinkTail(id)
    <3>1. k = size /\ prevId[id] = s[size - 1] /\ size > 1
      BY <2>3, <1>2, <1>3, <1>7, <1>8, <1>9 DEF UnlinkTail
    <3>2. nextId[id] \in Hints /\ prevId[id] \in Hints /\ id \in Ids
      BY <2>0, <1>1, <1>2 DEF Spells
    <3>3. \A i \in 1..size' : t[i] \in Ids /\ t[i] # id
      BY <1>2, <1>3, <1>5, <1>6, <1>7
    <3>4. \A i \in 1..size' : nextId'[t[i]] = IF i = size' THEN NULL ELSE t[i + 1]
      BY <2>0, <2>3, <3>1, <3>2, <3>3, <1>2, <1>3, <1>6, <1>7, <1>8, SMTT(30) DEF UnlinkTail
    <3>5. \A i \in 1..size' : prevId'[t[i]] = IF i = 1 THEN NULL ELSE t[i - 1]
      BY <2>0, <2>3, <3>1, <3>2, <3>3, <1>2, <1>3, <1>6, <1>7, <1>8, SMTT(30) DEF UnlinkTail
    <3>6. /\ head' = IF size' = 0 THEN NULL ELSE t[1]
          /\ tail' = IF size' = 0 THEN NULL ELSE t[size']
      BY <2>3, <3>1, <1>3, <1>6, <1>9 DEF UnlinkTail
    <3>7. QED BY <3>4, <3>5, <3>6
  <2>4. CASE UnlinkMiddle(id)
    <3>1. /\ k > 1 /\ k < size
          /\ prevId[id] = s[k - 1] /\ nextId[id] = s[k + 1]
      BY <2>4, <1>2, <1>3, <1>7, <1>8, <1>9 DEF UnlinkMiddle
    <3>2. nextId[id] \in Hints /\ prevId[id] \in Hints /\ id \in Ids
      BY <2>0, <1>1, <1>2 DEF Spells
    <3>3. \A i \in 1..size' : t[i] \in Ids /\ t[i] # id
      BY <1>2, <1>3, <1>5, <1>6, <1>7
    <3>4. \A i \in 1..size' : nextId'[t[i]] = IF i = size' THEN NULL ELSE t[i + 1]
      BY <2>0, <2>4, <3>1, <3>2, <3>3, <1>2, <1>3, <1>6, <1>7, <1>8, SMTT(30) DEF UnlinkMiddle
    <3>5. \A i \in 1..size' : prevId'[t[i]] = IF i = 1 THEN NULL ELSE t[i - 1]
      BY <2>0, <2>4, <3>1, <3>2, <3>3, <1>2, <1>3, <1>6, <1>7, <1>8, SMTT(30) DEF UnlinkMiddle
    <3>6. /\ head' = IF size' = 0 THEN NULL ELSE t[1]
          /\ tail' = IF size' = 0 THEN NULL ELSE t[size']
      BY <2>4, <3>1, <1>3, <1>6, <1>9 DEF UnlinkMiddle
    <3>7. QED BY <3>4, <3>5, <3>6
  <2>5. QED BY <2>1, <2>2, <2>3, <2>4 DEF Unlink
<1>14. Spells(t)'
  BY <1>10, <1>11, <1>12, <1>13 DEF Spells
<1>15. QED BY <1>2, <1>3, <1>5, <1>6, <1>14

\* In particular the list stays well linked.
LEMMA UnlinkKeepsWellLinked ==
    ASSUME TypeOK, WellLinked, NEW id \in Ids, Unlink(id)
    PROVE  WellLinked'
<1>1. PICK s \in [1..size -> Ids] : Spells(s)
  BY DEF WellLinked
<1>2. \E t \in [1..size' -> Ids] : Spells(t)'
  BY <1>1, UnlinkTakesOut
<1>3. QED BY <1>2 DEF WellLinked

\* Linking a node at a valid position spells the sequence with the node
\* inserted there, between nodes whose ratios enclose its own (the end of
\* _insert).
LEMMA LinkPutsIn ==
    ASSUME TypeOK, NEW s \in [1..size -> Ids], Spells(s), LinkNode,
           call.id \in Ids \ members,
           ValidInsertPosition(call.nicr, call.prev, call.next)
    PROVE  /\ size \in Nat /\ size' = size + 1
           /\ \E k \in 1..(size + 1) : \E t \in [1..size' -> Ids] :
                /\ Spells(t)'
                /\ \A i \in 1..size' : t[i] = IF i < k THEN s[i] ELSE
                                              IF i = k THEN call.id ELSE s[i - 1]
                /\ k > 1 => nicr[s[k - 1]] >= call.nicr
                /\ k <= size => call.nicr >= nicr[s[k]]
<1> USE NullAssumption DEF Hints
<1> DEFINE id == call.id
<1>1. Spells(s)
  OBVIOUS
<1>2. size \in Nat /\ size' = size + 1 /\ members' = members \union {id}
  BY DEF TypeOK, LinkNode
<1>3. \A i \in 1..size : s[i] \in members /\ s[i] # id
  BY <1>1 DEF Spells
<1>4. call.prev \in Hints /\ call.next \in Hints
  BY DEF TypeOK
<1>5. nextId \in [Ids -> Hints] /\ prevId \in [Ids -> Hints]
  BY DEF TypeOK
<1>6. PICK k \in 1..(size + 1) :
        /\ \/ size = 0 /\ k = 1 /\ LinkOnly(id)
           \/ size > 0 /\ k = 1 /\ LinkHead(id)
           \/ size > 0 /\ k = size + 1 /\ LinkTail(id)
           \/ k > 1 /\ k <= size /\ LinkBetween(id, s[k - 1], s[k])
        /\ k > 1 => nicr[s[k - 1]] >= call.nicr
        /\ k <= size => call.nicr >= nicr[s[k]]
  <2>0. nicr \in [Ids -> Nat] /\ call.nicr \in Nat
    BY SizeAssumption DEF TypeOK, NoDebt
  <2>1. CASE call.prev = NULL /\ call.next = NULL
    <3>1. size = 0 /\ LinkOnly(id)
      BY <2>1 DEF LinkNode, ValidInsertPosition
    <3>2. QED BY <3>1
  <2>2. CASE call.prev = NULL /\ call.next # NULL
    <3>1. size > 0 /\ LinkHead(id)
      BY <2>2, <1>1, <1>2 DEF LinkNode, ValidInsertPosition, Spells
    <3>2. s[1] = call.next /\ call.nicr >= nicr[s[1]]
      BY <2>2, <3>1, <1>1 DEF ValidInsertPosition, NominalICR, Spells
    <3>3. 1 \in 1..(size + 1) /\ ~(1 > 1)
      BY <1>2
    <3>4. QED BY <3>1, <3>2, <3>3
  <2>3. CASE call.prev # NULL /\ call.next = NULL
    <3>1. size > 0 /\ LinkTail(id)
      BY <2>3, <1>1, <1>2 DEF LinkNode, ValidInsertPosition, Spells
    <3>2. s[size] = call.prev /\ nicr[s[size]] >= call.nicr
      BY <2>0, <2>3, <3>1, <1>1, <1>4 DEF ValidInsertPosition, NominalICR, Spells
    <3>3. size + 1 \in 1..(size + 1) /\ (size + 1) - 1 = size /\ ~(size + 1 <= size)
      BY <1>2
    <3>4. QED BY <3>1, <3>2, <3>3
  <2>4. CASE call.prev # NULL /\ call.next # NULL
    <3>1. /\ LinkBetween(id, call.prev, call.next) /\ nextId[call.prev] = call.next
          /\ nicr[call.prev] >= call.nicr /\ call.nicr >= nicr[call.next]
      BY <2>4 DEF LinkNode, ValidInsertPosition, Next_, NominalICR
    <3>2. call.prev \in members
      BY <2>4, <3>1, <1>1, <1>4 DEF Spells
    <3>3. PICK j \in 1..size : s[j] = call.prev
      BY <3>2, <1>1 DEF Spells
    <3>4. j # size /\ call.next = s[j + 1]
      BY <3>1, <3>3, <2>4, <1>1 DEF Spells
    <3>5. /\ j + 1 \in 1..(size + 1) /\ j + 1 > 1 /\ j + 1 <= size
          /\ s[(j + 1) - 1] = call.prev
      BY <3>3, <3>4, <1>2
    <3>6. QED BY <3>1, <3>4, <3>5
  <2>5. QED BY <2>1, <2>2, <2>3, <2>4
<1>7. PICK t : t = [i \in 1..(size + 1) |-> IF i < k THEN s[i] ELSE
                                           IF i = k THEN id ELSE s[i - 1]]
  OBVIOUS
<1>8. t \in [1..size' -> Ids]
  BY <1>2, <1>6, <1>7
<1>9. \A i \in 1..size' : t[i] = IF i < k THEN s[i] ELSE
                                 IF i = k THEN id ELSE s[i - 1]
  BY <1>2, <1>7
<1>10. \A i, j \in 1..size : s[i] = s[j] => i = j
  BY <1>1 DEF Spells
<1>11. \A i \in 1..size : /\ nextId[s[i]] = IF i = size THEN NULL ELSE s[i + 1]
                          /\ prevId[s[i]] = IF i = 1 THEN NULL ELSE s[i - 1]
  BY <1>1 DEF Spells
<1>12. size > 0 => head = s[1] /\ tail = s[size]
  BY <1>1, <1>2 DEF Spells
<1>13. nextId[id] = NULL /\ prevId[id] = NULL
  BY <1>1 DEF Spells
<1>14. {t[i] : i \in 1..size'} = members'
  <2>1. ASSUME NEW i \in 1..size' PROVE t[i] \in members'
    BY <1>2, <1>3, <1>6, <1>9
  <2>2. ASSUME NEW x \in members PROVE \E i \in 1..size' : t[i] = x
    <3>1. PICK j \in 1..size : s[j] = x
      BY <1>1 DEF Spells
    <3>2. CASE j < k
      BY <3>1, <3>2, <1>2, <1>6, <1>9
    <3>3. CASE j >= k
      <4>1. j + 1 \in 1..size' /\ t[j + 1] = x
        BY <3>1, <3>3, <1>2, <1>6, <1>9
      <4>2. QED BY <4>1
    <3>4. QED BY <3>1, <3>2, <3>3, <1>6
  <2>3. k \in 1..size' /\ t[k] = id
    BY <1>2, <1>6, <1>9
  <2>4. QED BY <2>1, <2>2, <2>3, <1>2
<1>15. \A i, j \in 1..size' : t[i] = t[j] => i = j
  BY <1>2, <1>3, <1>6, <1>9, <1>10
<1>16. \A x \in Ids \ members' : nextId'[x] = NULL /\ prevId'[x] = NULL
  <2>1. SUFFICES ASSUME NEW x \in Ids \ members, x # id
                 PROVE  nextId'[x] = NULL /\ prevId'[x] = NULL
    BY <1>2
  <2>2. nextId[x] = NULL /\ prevId[x] = NULL
    BY <1>1 DEF Spells
  <2>3. \A i \in 1..size : x # s[i]
    BY <1>3
  <2>4. CASE LinkOnly(id)
    BY <2>2, <2>4 DEF LinkOnly
  <2>5. CASE size > 0 /\ LinkHead(id)
    BY <2>1, <2>2, <2>3, <2>5, <1>2, <1>5, <1>12 DEF LinkHead
  <2>6. CASE size > 0 /\ LinkTail(id)
    BY <2>1, <2>2, <2>3, <2>6, <1>2, <1>5, <1>12 DEF LinkTail
  <2>7. CASE k > 1 /\ k <= size /\ LinkBetween(id, s[k - 1], s[k])
    BY <2>1, <2>2, <2>3, <2>7, <1>2, <1>5 DEF LinkBetween
  <2>8. QED BY <2>4, <2>5, <2>6, <2>7, <1>6
<1>17. /\ head' = IF k = 1 THEN id ELSE head
       /\ tail' = IF k = size + 1 THEN id ELSE tail
       /\ nextId'[id] = IF k = size + 1 THEN NULL ELSE s[k]
       /\ prevId'[id] = IF k = 1 THEN NULL ELSE s[k - 1]
       /\ \A i \in 1..size : nextId'[s[i]] = IF i = k - 1 THEN id ELSE nextId[s[i]]
       /\ \A i \in 1..size : prevId'[s[i]] = IF i = k THEN id ELSE prevId[s[i]]
  <2>1. CASE size = 0 /\ k = 1 /\ LinkOnly(id)
    BY <2>1, <1>13 DEF LinkOnly
  <2>2. CASE size > 0 /\ k = 1 /\ LinkHead(id)
    BY <2>2, <1>2, <1>3, <1>5, <1>10, <1>12, <1>13 DEF LinkHead
  <2>3. CASE size > 0 /\ k = size + 1 /\ LinkTail(id)
    <3>1. head' = head /\ tail' = id /\ nextId'[id] = NULL
      BY <2>3, <1>2, <1>3, <1>12, <1>13 DEF LinkTail
    <3>2. size \in 1..size /\ k # size /\ k - 1 = size /\ s[size] = tail /\ tail # id
      BY <2>3, <1>2, <1>3, <1>12
    <3>3. prevId'[id] = s[k - 1]
      BY <2>3, <3>2, <1>5 DEF LinkTail
    <3>4. \A i \in 1..size : nextId'[s[i]] = IF i = k - 1 THEN id ELSE nextId[s[i]]
      BY <2>3, <3>2, <1>3, <1>5, <1>10 DEF LinkTail
    <3>5. \A i \in 1..size : prevId'[s[i]] = IF i = k THEN id ELSE prevId[s[i]]
      BY <2>3, <3>2, <1>2, <1>3, <1>5 DEF LinkTail
    <3>6. QED BY <2>3, <3>1, <3>2, <3>3, <3>4, <3>5, <1>2
  <2>4. CASE k > 1 /\ k <= size /\ LinkBetween(id, s[k - 1], s[k])
    <3>1. head' = head /\ tail' = tail
      BY <2>4 DEF LinkBetween
    <3>2. k \in 1..size /\ k - 1 \in 1..size
      BY <2>4, <1>2
    <3>3. s[k - 1] # id /\ s[k] # id /\ s[k - 1] \in Ids /\ s[k] \in Ids
      BY <3>2, <1>3
    <3>4. nextId'[id] = s[k] /\ prevId'[id] = s[k - 1]
      BY <2>4, <3>3, <1>5 DEF LinkBetween
    <3>5. \A i \in 1..size : nextId'[s[i]] = IF i = k - 1 THEN id ELSE nextId[s[i]]
      BY <2>4, <3>2, <3>3, <1>3, <1>5, <1>10 DEF LinkBetween
    <3>6. \A i \in 1..size : prevId'[s[i]] = IF i = k THEN id ELSE prevId[s[i]]
      BY <2>4, <3>2, <3>3, <1>3, <1>5, <1>10 DEF LinkBetween
    <3>7. QED BY <2>4, <3>1, <3>4, <3>5, <3>6, <1>2
  <2>5. QED BY <2>1, <2>2, <2>3, <2>4, <1>6
<1>18. /\ head' = IF size' = 0 THEN NULL ELSE t[1]
       /\ tail' = IF size' = 0 THEN NULL ELSE t[size']
  BY <1>2, <1>9, <1>12, <1>17
<1>19. ASSUME NEW i \in 1..size'
       PROVE  /\ nextId'[t[i]] = IF i = size' THEN NULL ELSE t[i + 1]
              /\ prevId'[t[i]] = IF i = 1 THEN NULL ELSE t[i - 1]
  <2>1. CASE i < k
    BY <2>1, <1>2, <1>9, <1>11, <1>17
  <2>2. CASE i = k
    BY <2>2, <1>2, <1>9, <1>11, <1>17
  <2>3. CASE i > k
    BY <2>3, <1>2, <1>9, <1>11, <1>17
  <2>4. QED BY <2>1, <2>2, <2>3, <1>2
<1>20. Spells(t)'
  BY <1>14, <1>15, <1>16, <1>18, <1>19 DEF Spells
<1>21. QED BY <1>2, <1>6, <1>8, <1>9, <1>20

\* In particular the list stays well linked.
LEMMA LinkKeepsWellLinked ==
    ASSUME TypeOK, WellLinked, LinkNode, call.id \in Ids \ members,
           ValidInsertPosition(call.nicr, call.prev, call.next)
    PROVE  WellLinked'
<1>1. PICK s \in [1..size -> Ids] : Spells(s)
  BY DEF WellLinked
<1>2. \E t \in [1..size' -> Ids] : Spells(t)'
  BY <1>1, LinkPutsIn
<1>3. QED BY <1>2 DEF WellLinked

-----------------------------------------------------------------------------
\* What an insertion under way knows: the node is out of the list with the
\* ratio TroveManager reports, and a walk stands on a member at the right
\* side of which the node belongs, or on nothing in an empty list.
CallOK ==
    /\ call.phase = "idle" => call = Idle
    /\ call.phase # "idle" => /\ call.id \in Ids \ members
                             /\ call.nicr \in NICRs
                             /\ nicr[call.id] = call.nicr
    /\ call.phase = "descend" =>
         \/ size = 0 /\ call.prev = NULL /\ call.next = NULL
         \/ /\ call.prev \in members
            /\ call.next = nextId[call.prev]
            /\ call.nicr <= nicr[call.prev]
    /\ call.phase = "ascend" => /\ call.next \in members
                               /\ call.prev = prevId[call.next]
                               /\ call.nicr >= nicr[call.next]

IInv == TypeOK /\ WellLinked /\ CallOK /\ LinksAtValidPosition

\* The ends of the list are where the pointers end, and neighbours point at
\* each other: the local facts a walk uses.
LEMMA Ends ==
    ASSUME TypeOK, WellLinked
    PROVE  /\ size = 0 <=> head = NULL
           /\ size = 0 <=> members = {}
           /\ head # NULL => head \in members
           /\ \A x \in members : nextId[x] = NULL => x = tail
           /\ \A x \in members : prevId[x] = NULL => x = head
           /\ \A x \in members : nextId[x] # NULL =>
                nextId[x] \in members /\ prevId[nextId[x]] = x
           /\ \A x \in members : prevId[x] # NULL =>
                prevId[x] \in members /\ nextId[prevId[x]] = x
<1>1. PICK s \in [1..size -> Ids] : Spells(s)
  BY DEF WellLinked
<1>2. size \in Nat /\ (\A i \in 1..size : s[i] # NULL)
  BY NullAssumption DEF TypeOK
<1>3. /\ size = 0 <=> head = NULL
      /\ head # NULL => head \in members
  BY <1>1, <1>2 DEF Spells
<1>4. size = 0 <=> members = {}
  BY <1>1, <1>2 DEF Spells
<1>5. ASSUME NEW x \in members
      PROVE  /\ nextId[x] = NULL => x = tail
             /\ prevId[x] = NULL => x = head
             /\ nextId[x] # NULL => nextId[x] \in members /\ prevId[nextId[x]] = x
             /\ prevId[x] # NULL => prevId[x] \in members /\ nextId[prevId[x]] = x
  <2>1. PICK k \in 1..size : s[k] = x
    BY <1>1 DEF Spells
  <2>2. CASE k = size
    BY <1>1, <1>2, <2>1, <2>2 DEF Spells
  <2>3. CASE k < size
    <3>1. k + 1 \in 1..size /\ nextId[x] = s[k + 1]
      BY <1>1, <1>2, <2>1, <2>3 DEF Spells
    <3>2. CASE k = 1
      BY <1>1, <1>2, <2>1, <3>1, <3>2 DEF Spells
    <3>3. CASE k > 1
      BY <1>1, <1>2, <2>1, <3>1, <3>3 DEF Spells
    <3>4. QED BY <3>2, <3>3, <2>1
  <2>4. QED BY <2>2, <2>3, <2>1, <1>2
<1>6. QED BY <1>3, <1>4, <1>5

\* A walk downwards starts where its invariant holds, or has found the place
\* before the head (_descendList).
LEMMA StartDescendOK ==
    ASSUME TypeOK, WellLinked, NEW id \in Ids, NEW n \in NICRs,
           NEW start \in Hints,
           \/ start = head /\ (start = NULL \/ start \in members)
           \/ start \in members /\ n <= nicr[start]
    PROVE  LET c == StartDescend(id, n, start)
           IN  /\ c.phase \in {"descend", "link"}
               /\ c.phase = "link" => ValidInsertPosition(n, c.prev, c.next)
               /\ c.phase = "descend" =>
                    \/ size = 0 /\ c.prev = NULL /\ c.next = NULL
                    \/ /\ c.prev \in members
                       /\ c.next = nextId[c.prev]
                       /\ n <= nicr[c.prev]
<1>1. members \subseteq Ids /\ nicr \in [Ids -> 1..NoDebt] /\ n < NoDebt
  BY SizeAssumption DEF TypeOK, NICRs, NoDebt
<1>2. CASE head = start /\ n >= NominalICR(start)
  <2>1. start # NULL
    BY <1>1, <1>2, SizeAssumption DEF NominalICR, NoDebt, NICRs
  <2>2. QED
    BY <1>2, <2>1 DEF StartDescend, Call, ValidInsertPosition
<1>3. CASE ~(head = start /\ n >= NominalICR(start))
  <2>1. CASE start = NULL
    <3>1. start = head
      BY <1>1, <2>1, NullAssumption
    <3>2. size = 0
      BY <3>1, <2>1, Ends
    <3>3. QED BY <1>3, <2>1, <3>2 DEF StartDescend, Call, Next_
  <2>2. CASE start # NULL
    <3>1. start \in members /\ n <= nicr[start]
      BY <1>1, <1>3, <2>2, SizeAssumption DEF NominalICR, NICRs, NoDebt
    <3>2. QED BY <1>3, <2>2, <3>1 DEF StartDescend, Call, Next_
  <2>3. QED BY <2>1, <2>2
<1>4. QED BY <1>2, <1>3

\* The same for a walk upwards (_ascendList).
LEMMA StartAscendOK ==
    ASSUME TypeOK, WellLinked, NEW id \in Ids, NEW n \in NICRs,
           NEW start \in members, n >= nicr[start]
    PROVE  LET c == StartAscend(id, n, start)
           IN  /\ c.phase \in {"ascend", "link"}
               /\ c.phase = "link" => ValidInsertPosition(n, c.prev, c.next)
               /\ c.phase = "ascend" => /\ c.next \in members
                                       /\ c.prev = prevId[c.next]
                                       /\ n >= nicr[c.next]
<1>1. start # NULL
  BY NullAssumption DEF TypeOK
<1>2. QED
  BY <1>1 DEF StartAscend, Call, ValidInsertPosition, NominalICR, Prev_
-----------------------------------------------------------------------------
\* The check of the caller's hints starts a walk that knows its side of the
\* list, or links; only `call` changes (_findInsertPosition).
LEMMA CheckHintOK ==
    ASSUME IInv, CheckHint PROVE CallOK' /\ LinksAtValidPosition' /\ TypeOK'
<1> USE DEF IInv
<1>1. /\ call.id \in Ids \ members /\ call.nicr \in NICRs /\ nicr[call.id] = call.nicr
      /\ call.prev \in Hints /\ call.next \in Hints
  BY DEF CheckHint, CallOK, TypeOK
<1>2. UNCHANGED <<head, tail, size, members, nextId, prevId, nicr, drifted>>
  BY DEF CheckHint, links
<1>3. NULL \notin members /\ members \subseteq Ids
  BY NullAssumption DEF TypeOK
<1>4. CASE ValidInsertPosition(call.nicr, call.prev, call.next)
  <2>1. call' = [call EXCEPT !.phase = "link"]
    BY <1>4 DEF CheckHint
  <2>2. QED
    BY <1>1, <1>2, <1>4, <2>1
       DEF CallOK, LinksAtValidPosition, TypeOK, ValidInsertPosition, NominalICR, Next_, Idle
<1>5. CASE ~ValidInsertPosition(call.nicr, call.prev, call.next)
  <2> DEFINE p == KeptPrev(call.nicr, call.prev)
             x == KeptNext(call.nicr, call.next)
  <2>1. call' = FindInsertPosition(call.id, call.nicr, call.prev, call.next)
    BY <1>5 DEF CheckHint
  <2>2. p # NULL => p \in members /\ call.nicr <= nicr[p]
    BY <1>3 DEF KeptPrev, NominalICR
  <2>3. x # NULL => x \in members /\ call.nicr >= nicr[x]
    BY <1>3 DEF KeptNext, NominalICR
  <2>4. /\ call'.id = call.id /\ call'.nicr = call.nicr
        /\ call'.phase # "idle"
        /\ call'.phase \in {"descend", "ascend", "link"}
        /\ call'.phase = "link" => ValidInsertPosition(call.nicr, call'.prev, call'.next)
        /\ call'.phase = "descend" =>
             \/ size = 0 /\ call'.prev = NULL /\ call'.next = NULL
             \/ /\ call'.prev \in members
                /\ call'.next = nextId[call'.prev]
                /\ call.nicr <= nicr[call'.prev]
        /\ call'.phase = "ascend" => /\ call'.next \in members
                                    /\ call'.prev = prevId[call'.next]
                                    /\ call.nicr >= nicr[call'.next]
        /\ call' = [phase |-> call'.phase, id |-> call.id, nicr |-> call.nicr,
                    prev |-> call'.prev, next |-> call'.next]
        /\ call'.prev \in Hints /\ call'.next \in Hints
    <3>1. head \in Hints /\ tail \in Hints /\ (head = NULL \/ head \in members)
      BY Ends DEF TypeOK
    <3>2. nextId \in [Ids -> Hints] /\ prevId \in [Ids -> Hints]
      BY DEF TypeOK
    <3>3. CASE p = NULL /\ x = NULL
      <4>1. call' = StartDescend(call.id, call.nicr, head)
        BY <2>1, <3>3 DEF FindInsertPosition
      <4>2. QED
        BY <1>1, <1>3, <3>1, <3>2, <4>1, StartDescendOK DEF StartDescend, Call, Next_, Hints
    <3>4. CASE p = NULL /\ x # NULL
      <4>1. call' = StartAscend(call.id, call.nicr, x)
        BY <2>1, <3>4 DEF FindInsertPosition
      <4>2. QED
        BY <1>1, <1>3, <2>3, <3>1, <3>2, <3>4, <4>1, StartAscendOK
           DEF StartAscend, Call, Prev_, Hints
    <3>5. CASE p # NULL
      <4>1. call' = StartDescend(call.id, call.nicr, p)
        BY <2>1, <3>5 DEF FindInsertPosition
      <4>2. QED
        BY <1>1, <1>3, <2>2, <3>1, <3>2, <3>5, <4>1, StartDescendOK
           DEF StartDescend, Call, Next_, Hints
    <3>6. QED BY <3>3, <3>4, <3>5
  <2>5. TypeOK'
    BY <1>1, <1>2, <2>4 DEF TypeOK, Hints, NICRs, NoDebt
  <2>6. CallOK' /\ LinksAtValidPosition'
    BY <1>1, <1>2, <2>4
       DEF CallOK, LinksAtValidPosition, ValidInsertPosition, NominalICR, Next_, Idle
  <2>7. QED BY <2>5, <2>6
<1>6. QED BY <1>4, <1>5

\* A step of the walk downwards keeps what the walk knows (_descendList).
LEMMA DescendOK ==
    ASSUME IInv, Descend PROVE CallOK' /\ LinksAtValidPosition' /\ TypeOK'
<1> USE DEF IInv
<1>1. /\ call.id \in Ids \ members /\ call.nicr \in NICRs /\ nicr[call.id] = call.nicr
      /\ call.prev \in Hints /\ call.next \in Hints
      /\ call \in [phase : {"idle", "check", "descend", "ascend", "link"}, id : Hints,
                   nicr : 0..MaxNICR, prev : Hints, next : Hints]
  BY DEF Descend, CallOK, TypeOK
<1>2. UNCHANGED <<head, tail, size, members, nextId, prevId, nicr, drifted>>
  BY DEF Descend, links
<1>3. NULL \notin members /\ members \subseteq Ids
  BY NullAssumption DEF TypeOK
<1>4. CASE size = 0 /\ call.prev = NULL /\ call.next = NULL
  <2>1. call' = [call EXCEPT !.phase = "link"]
    BY <1>4 DEF Descend
  <2>2. QED
    BY <1>1, <1>2, <1>4, <2>1
       DEF CallOK, LinksAtValidPosition, TypeOK, ValidInsertPosition, Idle
<1>5. CASE /\ call.prev \in members
           /\ call.next = nextId[call.prev]
           /\ call.nicr <= nicr[call.prev]
  <2>1. call.prev # NULL
    BY <1>3, <1>5
  <2>2. CASE ValidInsertPosition(call.nicr, call.prev, call.next)
    <3>1. call' = [call EXCEPT !.phase = "link"]
      BY <2>2 DEF Descend
    <3>2. QED
      BY <1>1, <1>2, <2>2, <3>1
         DEF CallOK, LinksAtValidPosition, TypeOK, ValidInsertPosition, NominalICR, Next_, Idle
  <2>3. CASE ~ValidInsertPosition(call.nicr, call.prev, call.next)
    <3>1. call.next # NULL
      BY <1>5, <2>1, <2>3, Ends DEF ValidInsertPosition, NominalICR
    <3>2. call.next \in members
      BY <1>5, <3>1, Ends
    <3>3. nicr[call.prev] \in Nat /\ nicr[call.next] \in Nat /\ call.nicr \in Nat
      BY <1>1, <1>3, <1>5, <3>2 DEF TypeOK, NoDebt, NICRs
    <3>4. call.nicr <= nicr[call.next]
      BY <1>3, <1>5, <2>1, <2>3, <3>1, <3>2, <3>3 DEF ValidInsertPosition, NominalICR, Next_
    <3>5. call' = [call EXCEPT !.prev = call.next, !.next = nextId[call.next]]
      BY <1>5, <2>1, <2>3, <3>1 DEF Descend, Next_
    <3>6. call.phase = "descend" /\ nextId[call.next] \in Hints
      BY <1>3, <3>2 DEF Descend, TypeOK
    <3>7. QED
      BY <1>1, <1>2, <3>2, <3>4, <3>5, <3>6
         DEF CallOK, LinksAtValidPosition, TypeOK, Idle
  <2>4. QED BY <2>2, <2>3
<1>6. QED BY <1>4, <1>5 DEF Descend, CallOK

\* A step of the walk upwards keeps what the walk knows (_ascendList).
LEMMA AscendOK ==
    ASSUME IInv, Ascend PROVE CallOK' /\ LinksAtValidPosition' /\ TypeOK'
<1> USE DEF IInv
<1>1. /\ call.id \in Ids \ members /\ call.nicr \in NICRs /\ nicr[call.id] = call.nicr
      /\ call.prev \in Hints /\ call.next \in members
      /\ call.prev = prevId[call.next] /\ call.nicr >= nicr[call.next]
      /\ call \in [phase : {"idle", "check", "descend", "ascend", "link"}, id : Hints,
                   nicr : 0..MaxNICR, prev : Hints, next : Hints]
  BY DEF Ascend, CallOK, TypeOK
<1>2. UNCHANGED <<head, tail, size, members, nextId, prevId, nicr, drifted>>
  BY DEF Ascend, links
<1>3. NULL \notin members /\ members \subseteq Ids
  BY NullAssumption DEF TypeOK
<1>4. call.next # NULL
  BY <1>1, <1>3
<1>5. CASE ValidInsertPosition(call.nicr, call.prev, call.next)
  <2>1. call' = [call EXCEPT !.phase = "link"]
    BY <1>5 DEF Ascend
  <2>2. QED
    BY <1>1, <1>2, <1>5, <2>1
       DEF CallOK, LinksAtValidPosition, TypeOK, ValidInsertPosition, NominalICR, Next_, Idle
<1>6. CASE ~ValidInsertPosition(call.nicr, call.prev, call.next)
  <2>1. call.prev # NULL
    BY <1>1, <1>4, <1>6, Ends DEF ValidInsertPosition, NominalICR
  <2>2. call.prev \in members /\ nextId[call.prev] = call.next
    BY <1>1, <2>1, Ends
  <2>3. nicr[call.prev] \in Nat /\ nicr[call.next] \in Nat /\ call.nicr \in Nat
    BY <1>1, <1>3, <2>2 DEF TypeOK, NoDebt, NICRs
  <2>4. call.nicr >= nicr[call.prev]
    BY <1>1, <1>4, <1>6, <2>1, <2>2, <2>3 DEF ValidInsertPosition, NominalICR, Next_
  <2>5. call' = [call EXCEPT !.prev = prevId[call.prev], !.next = call.prev]
    BY <1>1, <1>4, <1>6, <2>1 DEF Ascend, Prev_
  <2>6. call.phase = "ascend" /\ prevId[call.prev] \in Hints
    BY <1>3, <2>2 DEF Ascend, TypeOK
  <2>7. QED
    BY <1>1, <1>2, <2>2, <2>4, <2>5, <2>6 DEF CallOK, LinksAtValidPosition, TypeOK, Idle
<1>7. QED BY <1>5, <1>6
-----------------------------------------------------------------------------
\* Removing a node keeps the types of the list's storage.
LEMMA UnlinkKeepsTypes ==
    ASSUME TypeOK, WellLinked, NEW id \in Ids, Unlink(id)
    PROVE  /\ members' \subseteq Ids /\ {head, tail}' \subseteq Hints /\ size' \in Nat
           /\ nextId' \in [Ids -> Hints] /\ prevId' \in [Ids -> Hints]
<1>1. size >= 1 /\ size \in Nat
  BY Ends DEF Unlink, TypeOK
<1>2. /\ nextId \in [Ids -> Hints] /\ prevId \in [Ids -> Hints]
      /\ nextId[id] \in Hints /\ prevId[id] \in Hints
      /\ NULL \in Hints /\ head \in Hints /\ tail \in Hints /\ members \subseteq Ids
  BY DEF TypeOK, Hints
<1>3. CASE UnlinkOnly(id)
  BY <1>1, <1>2, <1>3 DEF UnlinkOnly, Unlink
<1>4. CASE UnlinkHead(id)
  BY <1>1, <1>2, <1>4 DEF UnlinkHead, Unlink
<1>5. CASE UnlinkTail(id)
  BY <1>1, <1>2, <1>5 DEF UnlinkTail, Unlink
<1>6. CASE UnlinkMiddle(id)
  BY <1>1, <1>2, <1>6 DEF UnlinkMiddle, Unlink
<1>7. QED BY <1>3, <1>4, <1>5, <1>6 DEF Unlink

\* The empty list of setParams satisfies the invariant.
LEMMA InitIInv == Init => IInv
<1> SUFFICES ASSUME Init PROVE IInv
  OBVIOUS
<1>1. TypeOK
  <2>1. NoDebt \in 1..NoDebt /\ 0 \in 0..MaxNICR
    BY SizeAssumption DEF NoDebt
  <2>2. nicr \in [Ids -> 1..NoDebt]
    BY <2>1 DEF Init
  <2>3. call \in [phase : {"idle", "check", "descend", "ascend", "link"}, id : Hints,
                  nicr : 0..MaxNICR, prev : Hints, next : Hints]
    BY <2>1 DEF Init, Idle, Hints
  <2>4. QED BY <2>2, <2>3 DEF Init, TypeOK, Hints
<1>2. WellLinked
  <2>1. PICK s : s = [i \in 1..size |-> NULL]
    OBVIOUS
  <2>2. 1..size = {}
    BY DEF Init
  <2>3. s \in [1..size -> Ids]
    BY <2>1, <2>2
  <2>4. Spells(s)
    BY <2>2 DEF Init, Spells
  <2>5. QED BY <2>3, <2>4 DEF WellLinked
<1>3. CallOK /\ LinksAtValidPosition
  BY DEF Init, CallOK, LinksAtValidPosition, Idle
<1>4. QED BY <1>1, <1>2, <1>3 DEF IInv

\* Every operation of the list keeps the invariant.
LEMMA NextIInv == IInv /\ [Next]_vars => IInv'
<1> SUFFICES ASSUME IInv, [Next]_vars PROVE IInv'
  OBVIOUS
<1>0. TypeOK /\ WellLinked /\ CallOK /\ LinksAtValidPosition
  BY DEF IInv
<1>a. ASSUME UNCHANGED links PROVE WellLinked'
  BY <1>0, <1>a, ZenonT(60) DEF WellLinked, Spells, links
<1>1. ASSUME NEW id \in Ids, NEW n \in NICRs, NEW p \in Hints, NEW x \in Hints,
             Insert(id, n, p, x)
      PROVE  IInv'
  <2>1. WellLinked'
    BY <1>1, <1>a DEF Insert
  <2>2. TypeOK'
    BY <1>0, <1>1, SizeAssumption DEF Insert, TypeOK, Call, links, NICRs, NoDebt, Hints
  <2>3. CallOK' /\ LinksAtValidPosition'
    BY <1>0, <1>1 DEF Insert, CallOK, LinksAtValidPosition, Call, links, Idle, TypeOK
  <2>4. QED BY <2>1, <2>2, <2>3 DEF IInv
<1>2. ASSUME NEW id \in Ids, NEW n \in NICRs, NEW p \in Hints, NEW x \in Hints,
             ReInsert(id, n, p, x)
      PROVE  IInv'
  <2>1. WellLinked'
    BY <1>0, <1>2, UnlinkKeepsWellLinked DEF ReInsert
  <2>2. TypeOK'
    <3>1. /\ nicr' \in [Ids -> 1..NoDebt] /\ drifted' \in BOOLEAN
          /\ call' \in [phase : {"idle", "check", "descend", "ascend", "link"}, id : Hints,
                  nicr : 0..MaxNICR, prev : Hints, next : Hints]
      BY <1>0, <1>2, SizeAssumption DEF ReInsert, TypeOK, Call, NICRs, NoDebt, Hints
    <3>2. QED BY <1>0, <1>2, <3>1, UnlinkKeepsTypes DEF ReInsert, TypeOK
  <2>3. CallOK' /\ LinksAtValidPosition'
    BY <1>0, <1>2 DEF ReInsert, Unlink, CallOK, LinksAtValidPosition, Call, Idle, TypeOK
  <2>4. QED BY <2>1, <2>2, <2>3 DEF IInv
<1>3. ASSUME NEW id \in Ids, RemoveNode(id)
      PROVE  IInv'
  <2>1. WellLinked'
    BY <1>0, <1>3, UnlinkKeepsWellLinked DEF RemoveNode
  <2>2. TypeOK'
    <3>1. /\ nicr' \in [Ids -> 1..NoDebt] /\ drifted' \in BOOLEAN
          /\ call' \in [phase : {"idle", "check", "descend", "ascend", "link"}, id : Hints,
                  nicr : 0..MaxNICR, prev : Hints, next : Hints]
      BY <1>0, <1>3, SizeAssumption DEF RemoveNode, TypeOK, NoDebt
    <3>2. QED BY <1>0, <1>3, <3>1, UnlinkKeepsTypes DEF RemoveNode, TypeOK
  <2>3. CallOK' /\ LinksAtValidPosition'
    BY <1>0, <1>3 DEF RemoveNode, CallOK, LinksAtValidPosition, Idle
  <2>4. QED BY <2>1, <2>2, <2>3 DEF IInv
<1>4. CASE CheckHint
  BY <1>4, <1>a, CheckHintOK DEF IInv, CheckHint
<1>5. CASE Descend
  BY <1>5, <1>a, DescendOK DEF IInv, Descend
<1>6. CASE Ascend
  BY <1>6, <1>a, AscendOK DEF IInv, Ascend
<1>7. CASE LinkNode
  <2>1. call.id \in Ids \ members
    BY <1>0, <1>7 DEF LinkNode, CallOK
  <2>2. WellLinked'
    BY <1>0, <1>7, <2>1, LinkKeepsWellLinked DEF LinkNode, LinksAtValidPosition
  <2>3. TypeOK'
    <3>1. /\ members' \subseteq Ids /\ size' \in Nat /\ nicr' \in [Ids -> 1..NoDebt]
          /\ drifted' \in BOOLEAN
          /\ call' \in [phase : {"idle", "check", "descend", "ascend", "link"}, id : Hints,
                  nicr : 0..MaxNICR, prev : Hints, next : Hints]
      BY <1>0, <1>7, <2>1, SizeAssumption DEF LinkNode, TypeOK, Idle, Hints
    <3>2. /\ {head, tail}' \subseteq Hints
          /\ nextId' \in [Ids -> Hints] /\ prevId' \in [Ids -> Hints]
      BY <1>0, <1>7, <2>1 DEF LinkNode, LinkOnly, LinkHead, LinkTail, LinkBetween, TypeOK, Hints
    <3>3. QED BY <3>1, <3>2 DEF TypeOK
  <2>4. CallOK' /\ LinksAtValidPosition'
    BY <1>7 DEF LinkNode, CallOK, LinksAtValidPosition, Idle
  <2>5. QED BY <2>2, <2>3, <2>4 DEF IInv
<1>8. CASE Redistribute
  <2>1. WellLinked'
    BY <1>8, <1>a DEF Redistribute
  <2>2. TypeOK'
    <3>1. nicr' \in [Ids -> 1..NoDebt]
      BY <1>0, <1>8, SizeAssumption DEF Redistribute, TypeOK, NICRs, NoDebt
    <3>2. drifted' \in BOOLEAN
      BY <1>0, <1>8 DEF Redistribute, TypeOK, SortedBy
    <3>3. QED BY <1>0, <1>8, <3>1, <3>2 DEF Redistribute, TypeOK, links
  <2>3. CallOK' /\ LinksAtValidPosition'
    BY <1>0, <1>8 DEF Redistribute, CallOK, LinksAtValidPosition, links, Idle
  <2>4. QED BY <2>1, <2>2, <2>3 DEF IInv
<1>9. CASE UNCHANGED vars
  BY <1>0, <1>9, <1>a
     DEF vars, links, IInv, TypeOK, CallOK, LinksAtValidPosition, ValidInsertPosition,
         NominalICR, Next_
<1>10. QED
  BY <1>1, <1>2, <1>3, <1>4, <1>5, <1>6, <1>7, <1>8, <1>9 DEF Next

-----------------------------------------------------------------------------
\* The storage of SortedTroves keeps its types.
THEOREM ListTypes == Spec => []TypeOK
<1>1. IInv => TypeOK
  BY DEF IInv
<1>2. QED BY <1>1, InitIInv, NextIInv, PTL DEF Spec

\* For any number of troves, any hints and any movement of the ratios, the
\* pointers always spell one list of the existing nodes (_insert, _remove).
THEOREM ListWellLinked == Spec => []WellLinked
<1>1. IInv => WellLinked
  BY DEF IInv
<1>2. QED BY <1>1, InitIInv, NextIInv, PTL DEF Spec

\* No search ever ends off the list: a node is linked at a position that
\* _validInsertPosition accepts, also in a list that rounding has unsorted.
THEOREM InsertsAtValidPosition == Spec => []LinksAtValidPosition
<1>1. IInv => LinksAtValidPosition
  BY DEF IInv
<1>2. QED BY <1>1, InitIInv, NextIInv, PTL DEF Spec
-----------------------------------------------------------------------------
\* Taking a node out keeps the rest sorted: its neighbours were on either
\* side of it.  Only the ratio of id may have changed.
LEMMA UnlinkKeepsSorted ==
    ASSUME TypeOK, WellLinked, NEW id \in Ids, Unlink(id), SortedBy(nicr),
           nicr' \in [Ids -> 1..NoDebt],
           \A y \in Ids \ {id} : nicr'[y] = nicr[y]
    PROVE  SortedBy(nicr)'
<1> USE NullAssumption, SizeAssumption DEF NoDebt
<1>1. SUFFICES ASSUME NEW y \in members', nextId'[y] # NULL
               PROVE  nicr'[y] >= nicr'[nextId'[y]]
  BY DEF SortedBy
<1>2. /\ y \in members /\ y # id /\ id \in members /\ members \subseteq Ids
      /\ nextId \in [Ids -> Hints] /\ prevId \in [Ids -> Hints]
      /\ nicr \in [Ids -> Nat]
  BY DEF Unlink, TypeOK
<1>3. CASE nextId[y] = id
  <2>1. prevId[id] = y
    BY <1>2, <1>3, Ends
  <2>2. id # head
    <3>1. PICK s \in [1..size -> Ids] : Spells(s)
      BY DEF WellLinked
    <3>2. PICK k \in 1..size : s[k] = y
      BY <1>2, <3>1 DEF Spells
    <3>3. k # size /\ s[k + 1] = id
      BY <1>2, <1>3, <3>1, <3>2 DEF Spells
    <3>4. k + 1 \in 1..size /\ 1 \in 1..size /\ k + 1 # 1
      BY <3>2, <3>3 DEF TypeOK
    <3>5. s[1] # id
      BY <3>1, <3>3, <3>4 DEF Spells
    <3>6. QED BY <3>1, <3>4, <3>5 DEF Spells, TypeOK
  <2>3. nextId'[y] = nextId[id]
    <3>1. CASE UnlinkOnly(id)
      BY <2>1, <1>2, <2>2, <3>1, Ends DEF UnlinkOnly, TypeOK, WellLinked, Spells
    <3>2. CASE UnlinkTail(id)
      <4>1. nextId'[y] = NULL
        BY <1>2, <2>1, <3>2 DEF UnlinkTail
      <4>2. QED BY <1>1, <4>1
    <3>3. CASE UnlinkMiddle(id)
      BY <1>2, <2>1, <3>3 DEF UnlinkMiddle
    <3>4. QED BY <2>2, <3>1, <3>2, <3>3 DEF Unlink, UnlinkHead
  <2>4. nextId[id] \in members /\ nextId[id] # id
    <3>1. nextId[id] \in members
      BY <1>1, <1>2, <2>3, Ends
    <3>2. nextId[id] = id => prevId[id] = id
      BY <1>1, <1>2, <2>3, Ends
    <3>3. QED BY <1>2, <2>1, <3>1, <3>2
  <2>5. nicr[y] >= nicr[id] /\ nicr[id] >= nicr[nextId[id]]
    BY <1>1, <1>2, <1>3, <2>3, <2>4 DEF SortedBy
  <2>6. nicr[y] >= nicr[nextId[id]]
    BY <1>2, <2>4, <2>5
  <2>7. QED BY <1>2, <2>3, <2>4, <2>6
<1>4. CASE nextId[y] # id
  <2>1. y # prevId[id]
    BY <1>2, <1>4, Ends DEF Hints
  <2>2. nextId'[y] = nextId[y]
    BY <1>1, <1>2, <2>1 DEF Unlink, UnlinkOnly, UnlinkHead, UnlinkTail, UnlinkMiddle
  <2>3. nextId[y] \in members /\ nicr[y] >= nicr[nextId[y]]
    BY <1>1, <1>2, <2>2, Ends DEF SortedBy
  <2>4. QED BY <1>2, <1>4, <2>2, <2>3
<1>5. QED BY <1>3, <1>4

\* Linking at a valid position keeps the list sorted.
LEMMA LinkKeepsSorted ==
    ASSUME IInv, LinkNode, SortedBy(nicr)
    PROVE  SortedBy(nicr)'
<1> USE NullAssumption, SizeAssumption DEF NoDebt
<1> DEFINE id == call.id
<1>1. SUFFICES ASSUME NEW y \in members', nextId'[y] # NULL
               PROVE  nicr[y] >= nicr[nextId'[y]]
  BY DEF SortedBy, LinkNode
<1>2. /\ TypeOK /\ WellLinked
      /\ id \in Ids \ members /\ nicr[id] = call.nicr /\ members' = members \union {id}
      /\ ValidInsertPosition(call.nicr, call.prev, call.next)
      /\ members \subseteq Ids /\ nicr \in [Ids -> Nat]
      /\ nextId \in [Ids -> Hints] /\ prevId \in [Ids -> Hints]
      /\ call.prev \in Hints /\ call.next \in Hints
  BY DEF IInv, CallOK, LinksAtValidPosition, LinkNode, TypeOK
<1>3. nextId[id] = NULL
  BY <1>2 DEF WellLinked, Spells
<1>4. y # id /\ nextId'[y] = nextId[y] => nicr[y] >= nicr[nextId'[y]]
  BY <1>1, <1>2 DEF SortedBy
<1>5. CASE call.prev = NULL /\ call.next = NULL
  <2>1. nextId' = nextId
    BY <1>5 DEF LinkNode, LinkOnly
  <2>2. QED BY <1>1, <1>3, <1>4, <2>1
<1>6. CASE call.prev = NULL /\ call.next # NULL
  <2>1. head = call.next /\ nicr[id] >= nicr[head] /\ LinkHead(id)
    BY <1>2, <1>6 DEF LinkNode, ValidInsertPosition, NominalICR
  <2>2. QED BY <1>1, <1>2, <1>4, <2>1 DEF LinkHead
<1>7. CASE call.prev # NULL /\ call.next = NULL
  <2>1. tail = call.prev /\ nicr[id] <= nicr[tail] /\ LinkTail(id)
    BY <1>2, <1>7 DEF LinkNode, ValidInsertPosition, NominalICR
  <2>2. tail \in members
    <3>1. size # 0
      BY <1>2, <1>7, <2>1 DEF WellLinked, Spells
    <3>2. QED BY <1>2, <3>1 DEF WellLinked, Spells, TypeOK
  <2>3. y = id => nextId'[y] = NULL
    BY <1>2, <1>3, <2>1, <2>2 DEF LinkTail
  <2>4. y = tail => nextId'[y] = id
    BY <1>2, <2>1, <2>2 DEF LinkTail
  <2>5. y # id /\ y # tail => nextId'[y] = nextId[y]
    BY <1>2, <2>1, <2>2 DEF LinkTail
  <2>6. QED BY <1>1, <1>2, <1>4, <2>1, <2>2, <2>3, <2>4, <2>5
<1>8. CASE call.prev # NULL /\ call.next # NULL
  <2>1. /\ LinkBetween(id, call.prev, call.next)
        /\ nextId[call.prev] = call.next
        /\ nicr[call.prev] >= nicr[id] /\ nicr[id] >= nicr[call.next]
    BY <1>2, <1>8 DEF LinkNode, ValidInsertPosition, NominalICR, Next_
  <2>2. call.prev \in Ids /\ call.prev # id
    BY <1>2, <1>3, <1>8, <2>1 DEF Hints
  <2>3. /\ nextId'[id] = call.next
        /\ nextId'[call.prev] = id
        /\ y # id /\ y # call.prev => nextId'[y] = nextId[y]
    BY <1>2, <2>1, <2>2 DEF LinkBetween
  <2>4. QED BY <1>1, <1>2, <1>4, <2>1, <2>2, <2>3
<1>9. QED BY <1>5, <1>6, <1>7, <1>8

\* No step of the list puts two neighbours in the wrong order.
LEMMA NextSorted == IInv /\ IInv' /\ Sorted /\ [Next]_vars => Sorted'
<1> SUFFICES ASSUME IInv, IInv', Sorted, [Next]_vars, ~drifted' PROVE SortedBy(nicr)'
  BY DEF Sorted
<1>0. TypeOK /\ WellLinked /\ TypeOK'
  BY DEF IInv
<1>1. CASE Redistribute
  BY <1>0, <1>1 DEF Redistribute, SortedBy, links, TypeOK
<1>2. CASE ~Redistribute
  <2>0. drifted' = drifted /\ SortedBy(nicr)
    <3>1. drifted' = drifted
      BY <1>2 DEF Next, vars, Insert, ReInsert, RemoveNode, CheckHint, Descend, Ascend, LinkNode
    <3>2. QED BY <3>1 DEF Sorted
  <2>1. ASSUME NEW id \in Ids, NEW n \in NICRs, NEW p \in Hints, NEW x \in Hints,
               Insert(id, n, p, x)
        PROVE  SortedBy(nicr)'
    <3>1. \A y \in members : y # id /\ nextId[y] # id
      <4>1. id # NULL /\ id \notin members
        BY <2>1, NullAssumption DEF Insert
      <4>2. \A y \in members : nextId[y] # NULL => nextId[y] \in members
        BY <1>0, Ends
      <4>3. QED BY <4>1, <4>2
    <3>2. QED BY <1>0, <2>0, <2>1, <3>1 DEF Insert, links, SortedBy, TypeOK, Hints
  <2>2. ASSUME NEW id \in Ids, NEW n \in NICRs, NEW p \in Hints, NEW x \in Hints,
               ReInsert(id, n, p, x)
        PROVE  SortedBy(nicr)'
    <3>1. nicr' \in [Ids -> 1..NoDebt] /\ \A y \in Ids \ {id} : nicr'[y] = nicr[y]
      BY <1>0, <2>2 DEF ReInsert, TypeOK
    <3>2. QED BY <1>0, <2>0, <2>2, <3>1, UnlinkKeepsSorted DEF ReInsert
  <2>3. ASSUME NEW id \in Ids, RemoveNode(id)
        PROVE  SortedBy(nicr)'
    <3>1. nicr' \in [Ids -> 1..NoDebt] /\ \A y \in Ids \ {id} : nicr'[y] = nicr[y]
      BY <1>0, <2>3 DEF RemoveNode, TypeOK
    <3>2. QED BY <1>0, <2>0, <2>3, <3>1, UnlinkKeepsSorted DEF RemoveNode
  <2>4. CASE LinkNode
    BY <2>0, <2>4, LinkKeepsSorted
  <2>5. CASE CheckHint \/ Descend \/ Ascend \/ UNCHANGED vars
    <3>1. UNCHANGED <<members, nextId, nicr>>
      BY <2>5 DEF CheckHint, Descend, Ascend, links, vars
    <3>2. QED BY <2>0, <3>1 DEF SortedBy
  <2>6. QED BY <1>2, <2>1, <2>2, <2>3, <2>4, <2>5 DEF Next
<1>3. QED BY <1>1, <1>2

\* The list is sorted by current ratio for as long as redistributions keep
\* the order of the troves, whatever hints the callers give.
THEOREM ListSorted == Spec => []Sorted
<1>1. Init => Sorted
  BY DEF Init, Sorted, SortedBy
<1>2. QED BY <1>1, InitIInv, NextIInv, NextSorted, PTL DEF Spec

-----------------------------------------------------------------------------
(* The abstract list *)

\* The pointers spell one sequence only.
LEMMA SpelledOnce ==
    ASSUME TypeOK, NEW s \in [1..size -> Ids], NEW t \in [1..size -> Ids],
           Spells(s), Spells(t)
    PROVE  s = t
<1>1. SUFFICES ASSUME NEW j \in 1..size, s[j] # t[j] PROVE FALSE
  <2>1. PICK n \in Nat : n = size
    BY DEF TypeOK
  <2>2. s \in [1..n -> Ids] /\ t \in [1..n -> Ids]
    BY <2>1
  <2>3. ASSUME \A i \in 1..n : s[i] = t[i] PROVE s = t
    <3>1. s = [i \in 1..n |-> s[i]] /\ t = [i \in 1..n |-> t[i]]
      BY <2>2
    <3>2. QED BY <2>3, <3>1
  <2>4. QED BY <2>1, <2>3
<1> DEFINE S == 1..size
           differ == {i \in S : s[i] # t[i]}
           prefixes == {1..i : i \in differ}
<1>2. size \in Nat /\ IsFiniteSet(S)
  BY FS_Interval DEF TypeOK
<1>3. PICK i \in differ : \A n \in differ : 1..n \subseteq 1..i => 1..n = 1..i
  <2>1. prefixes \in SUBSET SUBSET S
    <3>1. \A i \in differ : 1..i \in SUBSET S
      BY <1>2
    <3>2. QED BY <3>1
  <2>2. prefixes # {}
    <3>1. j \in differ
      BY <1>1
    <3>2. QED BY <3>1
  <2>3. PICK u \in prefixes : \A v \in prefixes : v \subseteq u => v = u
    <3> HIDE DEF prefixes, S
    <3>1. QED BY <1>2, <2>1, <2>2, SmallestSubset
  <2>4. PICK i \in differ : u = 1..i
    OBVIOUS
  <2>5. ASSUME NEW n \in differ PROVE 1..n \subseteq 1..i => 1..n = 1..i
    <3>1. 1..n \in prefixes
      OBVIOUS
    <3>2. QED BY <2>3, <2>4, <3>1
  <2>6. QED BY <2>5
<1>4. i \in 1..size /\ s[i] # t[i]
  OBVIOUS
<1>5. CASE i = 1
  BY <1>2, <1>4, <1>5 DEF Spells
<1>6. CASE i # 1
  <2>1. i - 1 \in 1..size /\ (i - 1) + 1 = i /\ i - 1 # size
    BY <1>2, <1>4, <1>6
  <2>2. 1..(i - 1) \subseteq 1..i /\ i \in 1..i /\ i \notin 1..(i - 1)
    BY <1>2, <1>4
  <2>3. s[i - 1] = t[i - 1]
    BY <1>3, <2>1, <2>2
  <2>4. nextId[s[i - 1]] = s[i] /\ nextId[t[i - 1]] = t[i]
    BY <2>1 DEF Spells
  <2>5. QED BY <1>4, <2>3, <2>4
<1>7. QED BY <1>5, <1>6

\* Order is the sequence the pointers spell.
OrderIsSpelled == TypeOK => \A s \in [1..size -> Ids] : Spells(s) => Order = s

LEMMA OrderIs == OrderIsSpelled
<1>1. SUFFICES ASSUME TypeOK, NEW s \in [1..size -> Ids], Spells(s) PROVE Order = s
  BY DEF OrderIsSpelled
<1>2. Order \in [1..size -> Ids] /\ Spells(Order)
  BY <1>1 DEF Order
<1>3. QED BY <1>1, <1>2, SpelledOnce

LEMMA NextOrderIs == OrderIsSpelled'
BY OrderIs, PTL

\* A function on the first n numbers is the sequence that has its values.
LEMMA SequenceIs ==
    ASSUME NEW S, NEW n \in Nat, NEW f \in [1..n -> S], NEW s \in Seq(S), Len(s) = n,
           \A i \in 1..n : s[i] = f[i]
    PROVE  f = s
<1>1. s \in [1..n -> S]
  BY LenProperties
<1>2. QED BY <1>1

\* Such functions are sequences.
LEMMA FunctionIsSequence ==
    ASSUME NEW S, NEW n \in Nat, NEW f \in [1..n -> S]
    PROVE  f \in Seq(S) /\ Len(f) = n /\ DOMAIN f = 1..n
OBVIOUS

\* _remove takes the owner out of the abstract list.
LEMMA UnlinkIsDelete ==
    ASSUME IInv, IInv', NEW id \in Ids, Unlink(id)
    PROVE  List!Next
<1>1. PICK s \in [1..size -> Ids] : Spells(s)
  BY DEF IInv, WellLinked
<1>2. PICK k \in 1..size : \E t \in [1..size' -> Ids] :
        /\ s[k] = id /\ Spells(t)'
        /\ \A i \in 1..size' : t[i] = IF i < k THEN s[i] ELSE s[i + 1]
  BY <1>1, UnlinkTakesOut DEF IInv
<1>3. PICK t \in [1..size' -> Ids] :
        /\ Spells(t)'
        /\ \A i \in 1..size' : t[i] = IF i < k THEN s[i] ELSE s[i + 1]
  BY <1>2
<1>4. size \in Nat /\ size' = size - 1 /\ size' \in Nat
  BY <1>1, <1>2, UnlinkTakesOut DEF IInv
<1>5. Order = s /\ Order' = t
  BY <1>1, <1>3, OrderIs, NextOrderIs DEF OrderIsSpelled, IInv
<1>6. s \in Seq(Ids) /\ Len(s) = size /\ DOMAIN s = 1..size
  BY <1>4, FunctionIsSequence
<1>7. /\ RemoveAt(s, k) \in Seq(Ids) /\ Len(RemoveAt(s, k)) = size'
      /\ \A i \in 1..size' : RemoveAt(s, k)[i] = IF i < k THEN s[i] ELSE s[i + 1]
  BY <1>4, <1>6, RemoveAtIs
<1>8. t = RemoveAt(s, k)
  BY <1>3, <1>4, <1>7, SequenceIs
<1>9. List!RemoveAt(s, k) = RemoveAt(s, k)
  BY DEF List!RemoveAt, RemoveAt
<1>10. List!Delete(k) /\ k \in DOMAIN Order
  BY <1>5, <1>6, <1>8, <1>9 DEF List!Delete
<1>11. QED BY <1>10 DEF List!Next

\* The end of _insert puts it where its ratio fits.
LEMMA LinkIsInsert ==
    ASSUME IInv, IInv', LinkNode
    PROVE  List!Next
<1> DEFINE id == call.id
<1>1. PICK s \in [1..size -> Ids] : Spells(s)
  BY DEF IInv, WellLinked
<1>2. /\ TypeOK /\ id \in Ids \ members /\ nicr[id] = call.nicr
      /\ ValidInsertPosition(call.nicr, call.prev, call.next)
  BY DEF IInv, LinkNode, CallOK, LinksAtValidPosition
<1>3. PICK k \in 1..(size + 1) : \E t \in [1..size' -> Ids] :
        /\ Spells(t)'
        /\ \A i \in 1..size' : t[i] = IF i < k THEN s[i] ELSE
                                      IF i = k THEN call.id ELSE s[i - 1]
        /\ k > 1 => nicr[s[k - 1]] >= call.nicr
        /\ k <= size => call.nicr >= nicr[s[k]]
  BY <1>1, <1>2, LinkPutsIn
<1>4. PICK t \in [1..size' -> Ids] :
        /\ Spells(t)'
        /\ \A i \in 1..size' : t[i] = IF i < k THEN s[i] ELSE
                                      IF i = k THEN id ELSE s[i - 1]
  BY <1>3
<1>5. size \in Nat /\ size' = size + 1 /\ size' \in Nat
  BY <1>1, <1>2, LinkPutsIn
<1>6. Order = s /\ Order' = t
  BY <1>1, <1>4, OrderIs, NextOrderIs DEF OrderIsSpelled, IInv
<1>7. s \in Seq(Ids) /\ Len(s) = size /\ DOMAIN s = 1..size
  BY <1>5, FunctionIsSequence
<1> HIDE DEF id
<1>8. /\ InsertAt(s, k, id) \in Seq(Ids) /\ Len(InsertAt(s, k, id)) = size'
      /\ \A i \in 1..size' : InsertAt(s, k, id)[i]
           = IF i < k THEN s[i] ELSE IF i = k THEN id ELSE s[i - 1]
  <2>1. id \in Ids /\ k \in 1..(Len(s) + 1)
    BY <1>2, <1>7
  <2>2. /\ InsertAt(s, k, id) \in Seq(Ids) /\ Len(InsertAt(s, k, id)) = Len(s) + 1
        /\ \A i \in 1..(Len(s) + 1) : InsertAt(s, k, id)[i]
             = IF i < k THEN s[i] ELSE IF i = k THEN id ELSE s[i - 1]
    BY ONLY <1>7, <2>1, InsertAtIs, SMTT(90)
  <2>3. QED BY <1>5, <1>7, <2>2
<1>9. t = InsertAt(s, k, id)
  BY <1>4, <1>5, <1>8, SequenceIs
<1>10. List!InsertAt(s, k, id) = InsertAt(s, k, id)
  BY DEF List!InsertAt, InsertAt
<1>11. id \notin List!ToSet(s)
  <2>1. List!ToSet(s) = {s[i] : i \in 1..size}
    BY <1>7 DEF List!ToSet
  <2>2. QED BY <1>1, <1>2, <2>1 DEF Spells
<1>12. List!Fits(id, k)
  BY <1>2, <1>3, <1>6, <1>7 DEF List!Fits
<1>13. List!Insert(id)
  BY <1>6, <1>7, <1>9, <1>10, <1>11, <1>12 DEF List!Insert
<1>14. QED BY <1>2, <1>13 DEF List!Next

\* No other step changes the abstract list.
LEMMA WalkIsStutter ==
    ASSUME IInv, IInv', UNCHANGED links
    PROVE  Order' = Order
<1>1. PICK s \in [1..size -> Ids] : Spells(s)
  BY DEF IInv, WellLinked
<1>2. s \in [1..size' -> Ids] /\ Spells(s)'
  BY <1>1 DEF links, Spells
<1>3. QED BY <1>1, <1>2, OrderIs, NextOrderIs DEF OrderIsSpelled, IInv

\* The linked list implements the abstract one, for any owners, hints and
\* ratios: a node is only ever put between neighbours that enclose its ratio,
\* and no call moves any other node (insert, remove, reInsert).
THEOREM ListImplementsSequence == Spec => ImplementsSortedList
<1>1. Init => List!Init
  <2>1. SUFFICES ASSUME Init PROVE Order = << >>
    BY DEF List!Init
  <2>2. TypeOK /\ size = 0
    BY <2>1, InitIInv DEF IInv, Init
  <2>3. PICK s \in [1..size -> Ids] : Spells(s)
    BY <2>1, InitIInv DEF IInv, WellLinked
  <2>4. Order = s
    BY <2>2, <2>3, OrderIs DEF OrderIsSpelled
  <2>5. << >> \in Seq(Ids) /\ Len(<< >>) = 0 /\ 1..0 = {}
    OBVIOUS
  <2>6. s = << >>
    BY <2>2, <2>5, SequenceIs
  <2>7. QED BY <2>4, <2>6
<1>2. IInv /\ IInv' /\ [Next]_vars => [List!Next]_Order
  <2>1. SUFFICES ASSUME IInv, IInv', [Next]_vars PROVE List!Next \/ Order' = Order
    OBVIOUS
  <2>2. ASSUME NEW id \in Ids, Unlink(id) PROVE List!Next
    BY <2>1, <2>2, UnlinkIsDelete
  <2>3. ASSUME LinkNode PROVE List!Next
    BY <2>1, <2>3, LinkIsInsert
  <2>4. ASSUME UNCHANGED links PROVE Order' = Order
    BY <2>1, <2>4, WalkIsStutter
  <2>5. CASE \E id \in Ids, n \in NICRs, p \in Hints, x \in Hints : Insert(id, n, p, x)
    BY <2>4, <2>5 DEF Insert
  <2>6. CASE \E id \in Ids, n \in NICRs, p \in Hints, x \in Hints : ReInsert(id, n, p, x)
    BY <2>2, <2>6 DEF ReInsert
  <2>7. CASE \E id \in Ids : RemoveNode(id)
    BY <2>2, <2>7 DEF RemoveNode
  <2>8. CASE CheckHint \/ Descend \/ Ascend \/ Redistribute
    BY <2>4, <2>8 DEF CheckHint, Descend, Ascend, Redistribute
  <2>9. CASE UNCHANGED vars
    BY <2>4, <2>9 DEF vars, links
  <2>10. QED BY <2>1, <2>3, <2>5, <2>6, <2>7, <2>8, <2>9 DEF Next
<1>3. QED BY <1>1, <1>2, InitIInv, NextIInv, PTL DEF Spec, ImplementsSortedList, List!Spec
=============================================================================
