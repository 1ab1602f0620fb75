--------------------------- MODULE LedgerProofs ----------------------------
(***************************************************************************)
(* Proofs about the specification of the ledger, for every set of          *)
(* borrowers, every parameter and every input.                             *)
(*                                                                         *)
(* The first half: types, the owners' book and the ARTH supply; what a     *)
(* sequence of liquidations tracks of the system, that borrowers keep      *)
(* normal mode, the minimum net debt and the reserves in the gas pool; and *)
(* that other people's operations take nothing from a trove.               *)
(* The inductive invariant IInv says of the present ledger and of the one a *)
(* revert restores what the first theorems claim, and adds what each step  *)
(* relies on: a closed trove is empty, no snapshot is ahead of the rewards *)
(* per unit staked, a walk stands on a listed trove, and a recovery-mode   *)
(* loop runs below CCR.  The other theorems rest on it.                    *)
(*                                                                         *)
(* The second half, from "What a liquidation and a redemption keep in      *)
(* memory": the sums.  What the pools hold is what the troves, the pending *)
(* rewards and the claims add up to, and totalStakes is the sum of the     *)
(* stakes.  The default pool is the hard one: rewards per unit staked are  *)
(* rounded down and their remainder is carried over, so that pool, in      *)
(* parts of DECIMAL_PRECISION, covers what every stake has earned plus the *)
(* error.  The last part is about the hints of a redemption, which are     *)
(* right as long as what is pending is what the redemption will apply.     *)
(***************************************************************************)
EXTENDS BorrowerOperations, HintHelpers, CollectionTheorems

-----------------------------------------------------------------------------
(* The book *)

\* No element occurs twice.
Distinct(s) == \A i, j \in DOMAIN s : s[i] = s[j] => i = j

\* The book is consistent (OwnersConsistent's OwnersMatch), its entries are
\* well typed, only active troves are listed, and a trove that is not active
\* is empty (_closeTrove, and openTrove's assumption about it).
BookOK(troves, owners, list) ==
    /\ troves \in [Borrowers -> TroveRecords]
    /\ owners \in Seq(Borrowers) /\ list \in Seq(Borrowers)
    /\ OwnersMatch(troves, owners, list)
    /\ \A i \in DOMAIN list : troves[list[i]].status = "active"
    /\ \A b \in Borrowers : troves[b].status # "active" =>
         troves[b].coll = 0 /\ troves[b].debt = 0 /\ troves[b].stake = 0

\* A listed owner stands at its position and has an active trove.
LEMMA ListedAt ==
    ASSUME BookOK(Troves, TroveOwners, sortedTroves), NEW b \in ToSet(sortedTroves)
    PROVE  /\ Position(b) \in 1..Len(sortedTroves)
           /\ sortedTroves[Position(b)] = b
           /\ b \in Borrowers /\ Active(b)
<1>1. sortedTroves \in Seq(Borrowers)
  BY DEF BookOK
<1>2. PICK i \in DOMAIN sortedTroves : sortedTroves[i] = b
  BY DEF ToSet
<1>3. Position(b) \in DOMAIN sortedTroves /\ sortedTroves[Position(b)] = b
  BY <1>2 DEF Position
<1>4. DOMAIN sortedTroves = 1..Len(sortedTroves)
  BY <1>1, LenProperties
<1>5. QED BY <1>1, <1>3, <1>4, ElementOfSeq DEF BookOK, Active

\* The owner of an active trove is listed.
LEMMA ActiveListed ==
    ASSUME BookOK(Troves, TroveOwners, sortedTroves), NEW b \in Borrowers, Active(b)
    PROVE  b \in ToSet(sortedTroves)
BY DEF BookOK, OwnersMatch, Active

\* Taking an owner off the list removes it and nobody else; the neighbour
\* that getPrev returned before is still listed after.
LEMMA UnlistedIs ==
    ASSUME BookOK(Troves, TroveOwners, sortedTroves), NEW b \in ToSet(sortedTroves)
    PROVE  /\ Unlisted(b) \in Seq(Borrowers)
           /\ Len(Unlisted(b)) = Len(sortedTroves) - 1
           /\ ToSet(Unlisted(b)) = ToSet(sortedTroves) \ {b}
           /\ Distinct(Unlisted(b))
           /\ GetPrev(b) \in ToSet(Unlisted(b)) \union {NONE}
<1> DEFINE s == sortedTroves
           p == Position(b)
           u == Unlisted(b)
<1>1. s \in Seq(Borrowers) /\ Len(s) \in Nat /\ DOMAIN s = 1..Len(s)
  BY LenProperties DEF BookOK
<1>2. p \in 1..Len(s) /\ s[p] = b
  BY ListedAt
<1>3. \A i, j \in 1..Len(s) : s[i] = s[j] => i = j
  BY <1>1 DEF BookOK, OwnersMatch
<1>4. /\ u \in Seq(Borrowers) /\ Len(u) = Len(s) - 1
      /\ \A k \in 1..(Len(s) - 1) : u[k] = IF k < p THEN s[k] ELSE s[k + 1]
  BY <1>1, <1>2, RemoveAtIs DEF Unlisted
<1> HIDE DEF s, p, u
<1>5. DOMAIN u = 1..(Len(s) - 1)
  BY <1>4, LenProperties
<1>6. ASSUME NEW k \in 1..(Len(s) - 1) PROVE u[k] \in ToSet(s) \ {b}
  <2>1. CASE k < p
    BY <2>1, <1>1, <1>2, <1>3, <1>4, SMTT(30) DEF ToSet
  <2>2. CASE k >= p
    BY <2>2, <1>1, <1>2, <1>3, <1>4 DEF ToSet
  <2>3. k < p \/ k >= p
    BY <1>1, <1>2
  <2>4. QED BY <2>1, <2>2, <2>3
<1>7. ASSUME NEW i \in 1..Len(s), s[i] # b PROVE s[i] \in ToSet(u)
  <2>1. CASE i < p
    BY <2>1, <1>1, <1>2, <1>4, <1>5 DEF ToSet
  <2>2. CASE i > p
    <3>1. i - 1 \in 1..(Len(s) - 1) /\ u[i - 1] = s[i]
      BY <2>2, <1>1, <1>2, <1>4
    <3>2. QED BY <3>1, <1>5 DEF ToSet
  <2>3. i < p \/ i > p
    BY <1>1, <1>2, <1>7
  <2>4. QED BY <2>1, <2>2, <2>3
<1>8. ToSet(u) = ToSet(s) \ {b}
  BY <1>1, <1>5, <1>6, <1>7 DEF ToSet
<1>9. ASSUME NEW i \in 1..(Len(s) - 1), NEW j \in 1..(Len(s) - 1), u[i] = u[j]
      PROVE  i = j
  BY <1>1, <1>2, <1>3, <1>4, <1>9
<1>10. ASSUME p # 1 PROVE s[p - 1] \in ToSet(u)
  <2>1. p - 1 \in 1..Len(s) /\ p - 1 # p
    BY <1>1, <1>2, <1>10
  <2>2. s[p - 1] # b
    BY <2>1, <1>2, <1>3
  <2>3. QED BY <2>1, <2>2, <1>7
<1>11. QED
  BY <1>4, <1>5, <1>8, <1>9, <1>10 DEF s, p, u, Distinct, GetPrev

\* Wherever the hints lead, an insertion adds the owner, once.
LEMMA InsertionIs ==
    ASSUME NEW s \in Seq(Borrowers), Distinct(s), NEW b \in Borrowers, b \notin ToSet(s),
           NEW n, NEW t \in Insertions(s, b, n)
    PROVE  /\ t \in Seq(Borrowers)
           /\ Len(t) = Len(s) + 1
           /\ ToSet(t) = ToSet(s) \union {b}
           /\ Distinct(t)
<1>1. PICK p \in 1..(Len(s) + 1) : t = InsertAt(s, p, b)
  BY DEF Insertions
<1>2. Len(s) \in Nat /\ DOMAIN s = 1..Len(s)
  BY LenProperties
<1>3. /\ t \in Seq(Borrowers) /\ Len(t) = Len(s) + 1
      /\ \A k \in 1..(Len(s) + 1) :
           t[k] = IF k < p THEN s[k] ELSE IF k = p THEN b ELSE s[k - 1]
  <2>1. /\ InsertAt(s, p, b) \in Seq(Borrowers) /\ Len(InsertAt(s, p, b)) = Len(s) + 1
        /\ \A k \in 1..(Len(s) + 1) :
             InsertAt(s, p, b)[k] = IF k < p THEN s[k] ELSE IF k = p THEN b ELSE s[k - 1]
    BY InsertAtIs
  <2>2. QED BY <1>1, <2>1
<1>4. DOMAIN t = 1..(Len(s) + 1)
  BY <1>3, LenProperties
<1>5. \A i, j \in 1..Len(s) : s[i] = s[j] => i = j
  BY <1>2 DEF Distinct
<1>6. \A i \in 1..Len(s) : s[i] # b
  BY <1>2 DEF ToSet
<1>7. ASSUME NEW k \in 1..(Len(s) + 1) PROVE t[k] \in ToSet(s) \union {b}
  <2>1. CASE k < p
    BY <2>1, <1>2, <1>3 DEF ToSet
  <2>2. CASE k > p
    <3>1. k - 1 \in 1..Len(s) /\ t[k] = s[k - 1]
      BY <2>2, <1>2, <1>3
    <3>2. QED BY <3>1, <1>2 DEF ToSet
  <2>3. CASE k = p
    BY <2>3, <1>3
  <2>4. k < p \/ k > p \/ k = p
    BY <1>2
  <2>5. QED BY <2>1, <2>2, <2>3, <2>4
<1>8. ASSUME NEW i \in 1..Len(s) PROVE s[i] \in ToSet(t)
  <2>1. CASE i < p
    BY <2>1, <1>2, <1>3, <1>4 DEF ToSet
  <2>2. CASE i >= p
    <3>1. i + 1 \in 1..(Len(s) + 1) /\ t[i + 1] = s[i]
      BY <2>2, <1>2, <1>3
    <3>2. QED BY <3>1, <1>4 DEF ToSet
  <2>3. i < p \/ i >= p
    BY <1>2
  <2>4. QED BY <2>1, <2>2, <2>3
<1>9. b \in ToSet(t)
  BY <1>3, <1>4 DEF ToSet
<1>10. ToSet(t) = ToSet(s) \union {b}
  BY <1>2, <1>4, <1>7, <1>8, <1>9 DEF ToSet
<1>11. ASSUME NEW i \in 1..(Len(s) + 1), NEW j \in 1..(Len(s) + 1), t[i] = t[j]
       PROVE  i = j
  <2> DEFINE Old(k) == IF k < p THEN k ELSE k - 1
  <2>1. ASSUME NEW k \in 1..(Len(s) + 1), k # p
        PROVE  Old(k) \in 1..Len(s) /\ t[k] = s[Old(k)] /\ t[k] # b
    BY <2>1, <1>2, <1>3, <1>6
  <2>2. t[p] = b
    BY <1>3
  <2>3. CASE i = p \/ j = p
    BY <2>1, <2>2, <2>3, <1>11
  <2>4. CASE i # p /\ j # p
    <3>1. Old(i) = Old(j)
      BY <2>1, <2>4, <1>5, <1>11
    <3>2. QED BY <2>4, <3>1, <1>2
  <2>5. QED BY <2>3, <2>4
<1>12. QED BY <1>3, <1>4, <1>10, <1>11 DEF Distinct

-----------------------------------------------------------------------------
(* Closing a trove *)

\* The statuses _closeTrove sets.
ClosedStatuses == {"closedByOwner", "closedByLiquidation", "closedByRedemption"}

\* The index kept in an active trove points at its owner.
LEMMA IndexOf ==
    ASSUME BookOK(Troves, TroveOwners, sortedTroves), NEW b \in Borrowers, Active(b)
    PROVE  /\ Troves[b].arrayIndex + 1 \in 1..Len(TroveOwners)
           /\ TroveOwners[Troves[b].arrayIndex + 1] = b
<1>1. Troves[b] \in TroveRecords
  BY DEF BookOK
<1>2. /\ Troves[b].arrayIndex < Len(TroveOwners)
      /\ TroveOwners[Troves[b].arrayIndex + 1] = b
  BY DEF BookOK, OwnersMatch, Active
<1>3. Troves[b].arrayIndex \in Nat /\ Len(TroveOwners) \in Nat
  BY <1>1, LenProperties DEF TroveRecords, BookOK
<1>4. QED BY <1>2, <1>3

\* What _removeTroveOwner leaves: one owner less, the last one at the place
\* that is free.
LEMMA RemoveTroveOwnerIs ==
    ASSUME BookOK(Troves, TroveOwners, sortedTroves), NEW b \in Borrowers, Active(b)
    PROVE  LET n == Len(TroveOwners) - 1 IN
           /\ RemoveTroveOwner(b) \in Seq(Borrowers)
           /\ Len(RemoveTroveOwner(b)) = n
           /\ DOMAIN RemoveTroveOwner(b) = 1..n
           /\ \A k \in 1..n : RemoveTroveOwner(b)[k] =
                IF k = Troves[b].arrayIndex + 1 THEN LastOwner ELSE TroveOwners[k]
           /\ LastOwner \in Borrowers /\ LastOwner = TroveOwners[n + 1]
<1> DEFINE n == Len(TroveOwners) - 1
           e(k) == IF k = Troves[b].arrayIndex + 1 THEN LastOwner ELSE TroveOwners[k]
<1>1. TroveOwners \in Seq(Borrowers) /\ Len(TroveOwners) \in Nat
  BY LenProperties DEF BookOK
<1>2. n \in Nat
  BY <1>1, IndexOf
<1>3. LastOwner \in Borrowers /\ LastOwner = TroveOwners[n + 1]
  BY <1>1, <1>2, ElementOfSeq DEF LastOwner, Last
<1>4. \A k \in 1..n : e(k) \in Borrowers
  BY <1>1, <1>2, <1>3, ElementOfSeq
<1>5. RemoveTroveOwner(b) = [k \in 1..n |-> e(k)]
  BY DEF RemoveTroveOwner
<1> HIDE DEF e
<1>6. [k \in 1..n |-> e(k)] \in Seq(Borrowers)
  BY <1>2, <1>4, IsASeq
<1>7. Len([k \in 1..n |-> e(k)]) = n
  BY <1>2
<1>8. QED BY <1>3, <1>5, <1>6, <1>7 DEF e

\* _closeTrove keeps the book consistent: the owner that moves gets its new
\* index, also when the trove that closes is the last one.
LEMMA CloseKeepsBook ==
    ASSUME BookOK(Troves, TroveOwners, sortedTroves), NEW b \in Borrowers, Active(b),
           NEW status \in ClosedStatuses, CloseTrove(b, status)
    PROVE  BookOK(Troves', TroveOwners', sortedTroves')
<1> DEFINE n == Len(TroveOwners) - 1
           p == Troves[b].arrayIndex + 1
<1>1. /\ Troves' = Closed(b, status)
      /\ TroveOwners' = RemoveTroveOwner(b)
      /\ sortedTroves' = Unlisted(b)
  BY DEF CloseTrove
<1>2. /\ Troves \in [Borrowers -> TroveRecords]
      /\ OwnersMatch(Troves, TroveOwners, sortedTroves)
      /\ Len(TroveOwners) \in Nat /\ DOMAIN TroveOwners = 1..Len(TroveOwners)
  BY LenProperties DEF BookOK
<1>3. /\ TroveOwners' \in Seq(Borrowers) /\ Len(TroveOwners') = n
      /\ DOMAIN TroveOwners' = 1..n
      /\ \A k \in 1..n : TroveOwners'[k] = IF k = p THEN LastOwner ELSE TroveOwners[k]
      /\ LastOwner \in Borrowers /\ LastOwner = TroveOwners[n + 1]
  BY <1>1, RemoveTroveOwnerIs
<1>4. p \in 1..(n + 1) /\ TroveOwners[p] = b /\ n \in Nat /\ p \in Nat
  BY <1>2, IndexOf
<1>5. b \in ToSet(sortedTroves)
  BY ActiveListed
<1>6. /\ sortedTroves' \in Seq(Borrowers) /\ Len(sortedTroves') = Len(sortedTroves) - 1
      /\ ToSet(sortedTroves') = ToSet(sortedTroves) \ {b} /\ Distinct(sortedTroves')
  BY <1>1, <1>5, UnlistedIs
<1>7. /\ Troves[LastOwner].status = "active" /\ Troves[LastOwner].arrayIndex = n
  BY <1>2, <1>3, <1>4 DEF OwnersMatch
<1>8. /\ Troves' \in [Borrowers -> TroveRecords]
      /\ \A x \in Borrowers :
           /\ x = b => /\ Troves'[x].status = status /\ Troves'[x].coll = 0
                       /\ Troves'[x].debt = 0 /\ Troves'[x].stake = 0
           /\ x # b => /\ Troves'[x].status = Troves[x].status
                       /\ Troves'[x].coll = Troves[x].coll
                       /\ Troves'[x].debt = Troves[x].debt
                       /\ Troves'[x].stake = Troves[x].stake
           /\ x # b /\ x # LastOwner => Troves'[x].arrayIndex = Troves[x].arrayIndex
           /\ x # b /\ x = LastOwner => Troves'[x].arrayIndex = Troves[b].arrayIndex
  BY <1>1, <1>2, ZenonT(60) DEF Closed, TroveRecords, ClosedStatuses
<1>9. Troves[b].arrayIndex \in Nat
  BY <1>2 DEF TroveRecords
<1>10. ASSUME NEW x \in Borrowers, Troves'[x].status = "active"
       PROVE  /\ Troves'[x].arrayIndex < n
              /\ TroveOwners'[Troves'[x].arrayIndex + 1] = x
              /\ x \in ToSet(sortedTroves')
  <2>1. x # b /\ Troves[x].status = "active"
    BY <1>8, <1>10 DEF ClosedStatuses
  <2>2. /\ Troves[x].arrayIndex < n + 1 /\ Troves[x].arrayIndex \in Nat
        /\ TroveOwners[Troves[x].arrayIndex + 1] = x /\ x \in ToSet(sortedTroves)
    BY <2>1, <1>2, <1>4 DEF OwnersMatch, TroveRecords
  <2>3. x \in ToSet(sortedTroves')
    BY <2>1, <2>2, <1>6
  <2>4. CASE x = LastOwner
    <3>1. p # n + 1
      BY <2>1, <2>4, <1>3, <1>4
    <3>2. Troves'[x].arrayIndex = Troves[b].arrayIndex
      BY <2>1, <2>4, <1>8
    <3>3. Troves'[x].arrayIndex < n /\ Troves'[x].arrayIndex + 1 = p /\ p \in 1..n
      BY <3>1, <3>2, <1>4, <1>9
    <3>4. TroveOwners'[p] = x
      BY <2>4, <3>3, <1>3
    <3>5. QED BY <2>3, <3>3, <3>4
  <2>5. CASE x # LastOwner
    <3>1. /\ Troves'[x].arrayIndex = Troves[x].arrayIndex
          /\ Troves[x].arrayIndex + 1 # n + 1
          /\ Troves[x].arrayIndex + 1 # p
      BY <2>1, <2>2, <2>5, <1>3, <1>4, <1>8
    <3>2. Troves[x].arrayIndex + 1 \in 1..n
      BY <2>2, <3>1, <1>4
    <3>3. QED BY <2>2, <2>3, <3>1, <3>2, <1>3, <1>4
  <2>6. QED BY <2>4, <2>5
<1>11. ASSUME NEW k \in 1..n
       PROVE  /\ Troves'[TroveOwners'[k]].status = "active"
              /\ Troves'[TroveOwners'[k]].arrayIndex = k - 1
  <2>1. k \in DOMAIN TroveOwners /\ n + 1 \in DOMAIN TroveOwners
    BY <1>2, <1>4
  <2>2. /\ Troves[TroveOwners[k]].status = "active"
        /\ Troves[TroveOwners[k]].arrayIndex = k - 1
        /\ TroveOwners[k] \in Borrowers
    BY <2>1, <1>2, ElementOfSeq DEF OwnersMatch, BookOK
  <2>3. CASE k = p
    <3>1. TroveOwners'[k] = LastOwner /\ LastOwner # b
      BY <2>3, <1>3, <1>4, <1>7
    <3>2. QED BY <2>3, <3>1, <1>3, <1>4, <1>7, <1>8, <1>9
  <2>4. CASE k # p
    <3>1. TroveOwners'[k] = TroveOwners[k] /\ TroveOwners[k] # b
      BY <2>2, <2>4, <1>3, <1>4
    <3>2. TroveOwners[k] # LastOwner
      BY <2>2, <1>4, <1>7
    <3>3. QED BY <2>2, <3>1, <3>2, <1>8
  <2>5. QED BY <2>3, <2>4
<1>12. ASSUME NEW i \in DOMAIN sortedTroves' PROVE Troves'[sortedTroves'[i]].status = "active"
  <2>1. sortedTroves'[i] \in ToSet(sortedTroves) /\ sortedTroves'[i] # b
    BY <1>6 DEF ToSet
  <2>2. PICK k \in DOMAIN sortedTroves : sortedTroves[k] = sortedTroves'[i]
    BY <2>1 DEF ToSet
  <2>3. Troves[sortedTroves'[i]].status = "active" /\ sortedTroves'[i] \in Borrowers
    BY <2>1, <2>2, ListedAt DEF BookOK
  <2>4. QED BY <2>1, <2>3, <1>8
<1>13. Len(TroveOwners') = Len(sortedTroves')
  BY <1>2, <1>3, <1>6 DEF OwnersMatch
<1>14. OwnersMatch(Troves', TroveOwners', sortedTroves')
  BY <1>3, <1>6, <1>10, <1>11, <1>13 DEF OwnersMatch, Distinct
<1>15. ASSUME NEW x \in Borrowers, Troves'[x].status # "active"
       PROVE  Troves'[x].coll = 0 /\ Troves'[x].debt = 0 /\ Troves'[x].stake = 0
  BY <1>8, <1>15 DEF BookOK
<1>16. QED BY <1>3, <1>6, <1>8, <1>12, <1>14, <1>15 DEF BookOK

-----------------------------------------------------------------------------
(* Rewriting and opening a trove *)

\* Only the amounts of one trove are rewritten.
SameEntries(f, b) ==
    /\ f \in [Borrowers -> TroveRecords]
    /\ \A x \in Borrowers : f[x].status = Troves[x].status
                         /\ f[x].arrayIndex = Troves[x].arrayIndex
    /\ \A x \in Borrowers \ {b} : f[x] = Troves[x]

\* Rewriting an active trove's amounts, while the list is permuted at most,
\* keeps the book consistent.
LEMMA RewriteKeepsBook ==
    ASSUME BookOK(Troves, TroveOwners, sortedTroves), NEW b \in Borrowers, Active(b),
           NEW f, SameEntries(f, b), NEW list \in Seq(Borrowers),
           Len(list) = Len(sortedTroves), ToSet(list) = ToSet(sortedTroves), Distinct(list)
    PROVE  BookOK(f, TroveOwners, list)
<1>1. ASSUME NEW i \in DOMAIN list PROVE f[list[i]].status = "active"
  <2>1. list[i] \in ToSet(sortedTroves)
    BY DEF ToSet
  <2>2. Troves[list[i]].status = "active" /\ list[i] \in Borrowers
    BY <2>1, ListedAt DEF Active
  <2>3. QED BY <2>2 DEF SameEntries
<1>2. ASSUME NEW x \in Borrowers, f[x].status # "active"
      PROVE  f[x].coll = 0 /\ f[x].debt = 0 /\ f[x].stake = 0
  BY <1>2 DEF SameEntries, BookOK, Active
<1>3. ASSUME NEW x \in Borrowers, f[x].status = "active"
      PROVE  /\ f[x].arrayIndex < Len(TroveOwners)
             /\ TroveOwners[f[x].arrayIndex + 1] = x /\ x \in ToSet(list)
  BY <1>3 DEF SameEntries, BookOK, OwnersMatch
<1>4. ASSUME NEW i \in DOMAIN TroveOwners
      PROVE  f[TroveOwners[i]].status = "active" /\ f[TroveOwners[i]].arrayIndex = i - 1
  <2>1. TroveOwners[i] \in Borrowers
    BY ElementOfSeq, LenProperties DEF BookOK
  <2>2. QED BY <2>1 DEF SameEntries, BookOK, OwnersMatch
<1>5. OwnersMatch(f, TroveOwners, list)
  BY <1>3, <1>4 DEF OwnersMatch, BookOK, Distinct
<1>6. QED BY <1>1, <1>2, <1>5 DEF BookOK, SameEntries

\* So does taking its owner off the list and inserting it again
\* (SortedTroves.reInsert).
LEMMA ResortKeepsBook ==
    ASSUME BookOK(Troves, TroveOwners, sortedTroves), NEW b \in Borrowers, Active(b),
           NEW f, SameEntries(f, b), NEW n, NEW list \in Insertions(Unlisted(b), b, n)
    PROVE  BookOK(f, TroveOwners, list) /\ ToSet(list) = ToSet(sortedTroves)
<1>1. b \in ToSet(sortedTroves)
  BY ActiveListed
<1>2. /\ Unlisted(b) \in Seq(Borrowers) /\ Len(Unlisted(b)) = Len(sortedTroves) - 1
      /\ ToSet(Unlisted(b)) = ToSet(sortedTroves) \ {b} /\ Distinct(Unlisted(b))
  BY <1>1, UnlistedIs
<1>3. /\ list \in Seq(Borrowers) /\ Len(list) = Len(Unlisted(b)) + 1
      /\ ToSet(list) = ToSet(Unlisted(b)) \union {b} /\ Distinct(list)
  BY <1>2, InsertionIs
<1>4. Len(sortedTroves) \in Nat
  BY LenProperties DEF BookOK
<1>5. Len(list) = Len(sortedTroves) /\ ToSet(list) = ToSet(sortedTroves)
  BY <1>1, <1>2, <1>3, <1>4
<1>6. QED BY <1>3, <1>5, RewriteKeepsBook

\* Opening a trove keeps the book consistent: its index is the old length of
\* the owners array.
LEMMA OpenKeepsBook ==
    ASSUME BookOK(Troves, TroveOwners, sortedTroves), NEW b \in Borrowers, ~Active(b),
           NEW r \in TroveRecords, r.status = "active", r.arrayIndex = Len(TroveOwners),
           NEW n, NEW list \in Insertions(sortedTroves, b, n)
    PROVE  BookOK([Troves EXCEPT ![b] = r], AddTroveOwner(b), list)
<1> DEFINE f == [Troves EXCEPT ![b] = r]
           owners == AddTroveOwner(b)
           m == Len(TroveOwners)
<1>1. /\ TroveOwners \in Seq(Borrowers) /\ m \in Nat /\ DOMAIN TroveOwners = 1..m
      /\ OwnersMatch(Troves, TroveOwners, sortedTroves)
      /\ sortedTroves \in Seq(Borrowers) /\ Distinct(sortedTroves)
  BY LenProperties DEF BookOK, OwnersMatch, Distinct
<1>2. /\ owners \in Seq(Borrowers) /\ Len(owners) = m + 1 /\ DOMAIN owners = 1..(m + 1)
      /\ \A i \in 1..m : owners[i] = TroveOwners[i]
      /\ owners[m + 1] = b
  BY <1>1, AppendProperties, LenProperties DEF AddTroveOwner
<1>3. b \notin ToSet(sortedTroves)
  BY ListedAt
<1>4. /\ list \in Seq(Borrowers) /\ Len(list) = Len(sortedTroves) + 1
      /\ ToSet(list) = ToSet(sortedTroves) \union {b} /\ Distinct(list)
  BY <1>1, <1>3, InsertionIs
<1>5. /\ f \in [Borrowers -> TroveRecords] /\ f[b] = r
      /\ \A x \in Borrowers \ {b} : f[x] = Troves[x]
  BY DEF BookOK
<1> HIDE DEF f, owners
<1>6. ASSUME NEW x \in Borrowers, f[x].status = "active"
      PROVE  f[x].arrayIndex < m + 1 /\ owners[f[x].arrayIndex + 1] = x /\ x \in ToSet(list)
  <2>1. CASE x = b
    BY <2>1, <1>1, <1>2, <1>4, <1>5
  <2>2. CASE x # b
    <3>1. f[x] = Troves[x] /\ Active(x)
      BY <2>2, <1>5, <1>6 DEF Active
    <3>2. Troves[x].arrayIndex + 1 \in 1..m /\ TroveOwners[Troves[x].arrayIndex + 1] = x
      BY <3>1, IndexOf
    <3>3. Troves[x].arrayIndex \in Nat
      BY DEF BookOK, TroveRecords
    <3>4. x \in ToSet(sortedTroves)
      BY <3>1, ActiveListed
    <3>5. QED BY <3>1, <3>2, <3>3, <3>4, <1>1, <1>2, <1>4
  <2>3. QED BY <2>1, <2>2
<1>7. ASSUME NEW i \in 1..(m + 1)
      PROVE  f[owners[i]].status = "active" /\ f[owners[i]].arrayIndex = i - 1
  <2>1. CASE i = m + 1
    BY <2>1, <1>1, <1>2, <1>5
  <2>2. CASE i \in 1..m
    <3>1. /\ TroveOwners[i] \in Borrowers /\ Troves[TroveOwners[i]].status = "active"
          /\ Troves[TroveOwners[i]].arrayIndex = i - 1
      BY <2>2, <1>1, ElementOfSeq DEF OwnersMatch
    <3>2. TroveOwners[i] # b
      BY <3>1 DEF Active
    <3>3. QED BY <2>2, <3>1, <3>2, <1>2, <1>5
  <2>3. QED BY <2>1, <2>2, <1>1
<1>8. ASSUME NEW i \in DOMAIN list PROVE f[list[i]].status = "active"
  <2>1. list[i] \in ToSet(sortedTroves) \union {b}
    BY <1>4 DEF ToSet
  <2>2. CASE list[i] = b
    BY <2>2, <1>5
  <2>3. CASE list[i] # b
    <3>1. list[i] \in ToSet(sortedTroves)
      BY <2>1, <2>3
    <3>2. list[i] \in Borrowers /\ Troves[list[i]].status = "active"
      BY <3>1, ListedAt DEF Active
    <3>3. QED BY <2>3, <3>2, <1>5
  <2>4. QED BY <2>2, <2>3
<1>9. Len(owners) = Len(list)
  BY <1>1, <1>2, <1>4 DEF OwnersMatch
<1>10. OwnersMatch(f, owners, list)
  BY <1>2, <1>4, <1>6, <1>7, <1>9 DEF OwnersMatch, Distinct
<1>11. ASSUME NEW x \in Borrowers, f[x].status # "active"
       PROVE  f[x].coll = 0 /\ f[x].debt = 0 /\ f[x].stake = 0
  BY <1>5, <1>11 DEF BookOK
<1>12. QED BY <1>2, <1>4, <1>5, <1>8, <1>10, <1>11 DEF BookOK, f, owners

-----------------------------------------------------------------------------
(* The inductive invariant *)

\* No snapshot is ahead of L: the subtraction of getPendingETHReward and
\* getPendingLUSDDebtReward never goes below zero.
RewardsOK(snaps, l, error) ==
    /\ snaps \in [Borrowers -> Amounts] /\ l \in Amounts /\ error \in Amounts
    /\ \A b \in Borrowers : Covers(l, snaps[b])

\* The sums of stakes and the collateral snapshot are numbers.
StakesOK(stakes, stakesSnapshot, collSnapshot) ==
    stakes \in Nat /\ stakesSnapshot \in Nat /\ collSnapshot \in Nat

\* The pools hold numbers, and all ARTH is somebody's debt.
PoolsOK(active, default, surplus, a) ==
    /\ active \in Amounts /\ default \in Amounts
    /\ surplus \in [ETH : Nat, balances : [Borrowers -> Nat]]
    /\ a \in [wallets : Nat, gasPool : Nat, stabilityPool : Nat]
    /\ a.wallets + a.gasPool + a.stabilityPool = active.LUSDDebt + default.LUSDDebt

\* The ledger as it is.
CurrentOK ==
    /\ BookOK(Troves, TroveOwners, sortedTroves)
    /\ RewardsOK(rewardSnapshots, L, lastError)
    /\ StakesOK(totalStakes, totalStakesSnapshot, totalCollateralSnapshot)
    /\ PoolsOK(activePool, defaultPool, surplusPool, arth)

\* The ledger that a revert restores.
CommittedOK ==
    /\ BookOK(committed.Troves, committed.TroveOwners, committed.sortedTroves)
    /\ RewardsOK(committed.rewardSnapshots, committed.L, committed.lastError)
    /\ StakesOK(committed.totalStakes, committed.totalStakesSnapshot,
                committed.totalCollateralSnapshot)
    /\ PoolsOK(committed.activePool, committed.defaultPool, committed.surplusPool,
               committed.arth)

\* What a loop variable over troves may hold.
Users == Borrowers \union {NONE}

\* A redemption, and a sequence that began in recovery mode, walk the list
\* with getPrev.
WalksTheList == Redeeming \/ (Sequence /\ tx.recovery)

\* The memory of a transaction.
TxRecords == [op : {"idle", "sequence", "batch", "redemption"}, user : Users, first : Users,
              recovery : BOOLEAN, back : BOOLEAN, sp : Nat, sysDebt : Nat, sysColl : Nat]

\* The transaction under way: while in recovery mode the tracked ratio is
\* below CCR, so that a trove without debt never counts as below it; and a
\* walk stands on a listed trove or at the end.
LocalOK ==
    /\ price \in Prices
    /\ tx \in TxRecords
    /\ totals \in [DOMAIN NoTotals -> Nat]
    /\ redemption \in [DOMAIN NoRedemption -> Nat]
    /\ InRecovery => TrackedTCR < CCR
    /\ WalksTheList => tx.user \in ToSet(sortedTroves) \union {NONE}

\* The inductive invariant.
IInv == CurrentOK /\ CommittedOK /\ LocalOK

-----------------------------------------------------------------------------
(* Arithmetic *)

\* Division of naturals rounds down.
LEMMA DivNat ==
    ASSUME NEW a \in Nat, NEW d \in Nat, d > 0
    PROVE  a \div d \in Nat /\ (a \div d) * d <= a /\ a < (a \div d + 1) * d
OBVIOUS

\* A quotient is at most m if the dividend is at most m divisors.
LEMMA DivAtMost ==
    ASSUME NEW a \in Nat, NEW d \in Nat, d > 0, NEW m \in Nat, a <= m * d
    PROVE  a \div d \in Nat /\ a \div d <= m
<1>1. a \div d \in Nat /\ (a \div d) * d <= m * d
  BY DivNat
<1>2. QED BY <1>1

\* The assumptions on the constants, in the form the proofs use.
LEMMA ConstantFacts ==
    /\ DECIMAL_PRECISION \in Nat /\ DECIMAL_PRECISION > 0
    /\ NICR_PRECISION \in Nat /\ MAX_UINT \in Nat
    /\ PERCENT_DIVISOR \in Nat /\ PERCENT_DIVISOR > 0
    /\ MCR \in Nat /\ CCR \in Nat /\ LUSD_GAS_COMPENSATION \in Nat
    /\ DECIMAL_PRECISION < MCR /\ MCR < CCR /\ CCR < MAX_UINT
    /\ \A p \in Prices : p \in Nat /\ p > 0
<1>1. /\ DECIMAL_PRECISION \in Nat /\ DECIMAL_PRECISION > 0
      /\ NICR_PRECISION \in Nat /\ MAX_UINT \in Nat
      /\ PERCENT_DIVISOR \in Nat /\ PERCENT_DIVISOR > 0
  BY ScaleAssumption
<1>2. /\ MCR \in Nat /\ CCR \in Nat /\ LUSD_GAS_COMPENSATION \in Nat
      /\ DECIMAL_PRECISION < MCR /\ MCR < CCR /\ CCR < MAX_UINT
  BY ScaleAssumption, RatioAssumption
<1>3. \A p \in Prices : p \in Nat /\ p > 0
  BY InputAssumption
<1>4. QED BY <1>1, <1>2, <1>3

\* What the operations are called with.
LEMMA InputsAreNat ==
    /\ CollAmounts \subseteq Nat /\ DebtAmounts \subseteq Nat /\ CollChanges \subseteq Nat
    /\ DebtChanges \subseteq Nat /\ BorrowingFees \subseteq Nat /\ Deposits \subseteq Nat
    /\ Redemptions \subseteq Nat
BY InputAssumption

\* Plus and Minus work on each field, and Minus stays within the naturals
\* where Covers holds.
LEMMA AmountArithmetic ==
    ASSUME NEW p \in Amounts, NEW q \in Amounts
    PROVE  /\ Plus(p, q) \in Amounts
           /\ Plus(p, q).ETH = p.ETH + q.ETH
           /\ Plus(p, q).LUSDDebt = p.LUSDDebt + q.LUSDDebt
           /\ Covers(p, q) => /\ Minus(p, q) \in Amounts
                              /\ Minus(p, q).ETH = p.ETH - q.ETH
                              /\ Minus(p, q).LUSDDebt = p.LUSDDebt - q.LUSDDebt
           /\ p.ETH \in Nat /\ p.LUSDDebt \in Nat
BY DEF Plus, Minus, Covers, Amount, Amounts

\* A collateral ratio is a natural number.
LEMMA RatioNat ==
    ASSUME NEW c \in Nat, NEW d \in Nat, NEW p \in Nat
    PROVE  ComputeCR(c, d, p) \in Nat
<1>1. c * p \in Nat
  OBVIOUS
<1>2. CASE d > 0
  BY <1>1, <1>2, DivNat DEF ComputeCR
<1>3. CASE d = 0
  BY <1>3, ConstantFacts DEF ComputeCR
<1>4. QED BY <1>2, <1>3

\* The fields of the liquidation totals.
LEMMA TotalsIs ==
    /\ DOMAIN NoTotals = {"CollInSequence", "DebtInSequence", "CollGasCompensation",
         "LUSDGasCompensation", "DebtToOffset", "CollToSendToSP", "DebtToRedistribute",
         "CollToRedistribute", "CollSurplus"}
    /\ NoTotals \in [DOMAIN NoTotals -> Nat]
BY DEF NoTotals

\* The fields of the redemption totals.
LEMMA RedemptionIs ==
    /\ DOMAIN NoRedemption = {"remainingLUSD", "totalLUSDToRedeem", "totalETHDrawn"}
    /\ NoRedemption \in [DOMAIN NoRedemption -> Nat]
BY DEF NoRedemption

\* A trove's pending and entire amounts are well typed; a trove that is not
\* active has neither.
LEMMA PendingAmounts ==
    ASSUME CurrentOK, NEW b \in Borrowers
    PROVE  /\ Pending(b) \in Amounts /\ Entire(b) \in Amounts /\ Applied(b) \in Amounts
           /\ Entire(b).ETH = Troves[b].coll + Pending(b).ETH
           /\ Entire(b).LUSDDebt = Troves[b].debt + Pending(b).LUSDDebt
           /\ Troves[b].coll \in Nat /\ Troves[b].debt \in Nat /\ Troves[b].stake \in Nat
           /\ ~Active(b) => Entire(b) = Amount(0, 0)
<1>1. /\ Troves[b] \in TroveRecords /\ L \in Amounts /\ rewardSnapshots[b] \in Amounts
      /\ Covers(L, rewardSnapshots[b])
      /\ ~Active(b) => Troves[b].coll = 0 /\ Troves[b].debt = 0
  BY DEF CurrentOK, BookOK, RewardsOK, Active
<1>2. Troves[b].coll \in Nat /\ Troves[b].debt \in Nat /\ Troves[b].stake \in Nat
  BY <1>1 DEF TroveRecords
<1>3. L.ETH - rewardSnapshots[b].ETH \in Nat /\ L.LUSDDebt - rewardSnapshots[b].LUSDDebt \in Nat
  BY <1>1 DEF Amounts, Covers
<1>4. /\ Troves[b].stake * (L.ETH - rewardSnapshots[b].ETH) \in Nat
      /\ Troves[b].stake * (L.LUSDDebt - rewardSnapshots[b].LUSDDebt) \in Nat
  BY <1>2, <1>3
<1>5. Pending(b) \in Amounts
  BY <1>4, DivNat, ConstantFacts DEF Pending, Amount, Amounts
<1>6. Amount(Troves[b].coll, Troves[b].debt) \in Amounts
  BY <1>2 DEF Amount, Amounts
<1>7. /\ Entire(b) \in Amounts
      /\ Entire(b).ETH = Troves[b].coll + Pending(b).ETH
      /\ Entire(b).LUSDDebt = Troves[b].debt + Pending(b).LUSDDebt
  BY <1>5, <1>6, AmountArithmetic DEF Entire, Amount
<1>8. Applied(b) \in Amounts
  BY <1>5 DEF Applied, Amount, Amounts
<1>9. ~Active(b) => Entire(b) = Amount(0, 0)
  BY <1>1 DEF Entire, Pending, Plus, Amount
<1>10. QED BY <1>2, <1>5, <1>7, <1>8, <1>9

\* _applyPendingRewards changes a trove's amounts only.
LEMMA AppliedTroveIs ==
    ASSUME CurrentOK, NEW b \in Borrowers
    PROVE  /\ AppliedTrove(b) \in TroveRecords
           /\ AppliedTrove(b).coll \in Nat /\ AppliedTrove(b).debt \in Nat
           /\ AppliedTrove(b).status = Troves[b].status
           /\ AppliedTrove(b).arrayIndex = Troves[b].arrayIndex
<1>1. Troves[b] \in TroveRecords /\ Applied(b) \in Amounts
  BY PendingAmounts DEF CurrentOK, BookOK
<1>2. Applied(b).ETH \in Nat /\ Applied(b).LUSDDebt \in Nat
  BY <1>1 DEF Amounts
<1>3. /\ Troves[b].coll + Applied(b).ETH \in Nat
      /\ Troves[b].debt + Applied(b).LUSDDebt \in Nat
  BY <1>2, PendingAmounts
<1> DEFINE c == Troves[b].coll + Applied(b).ETH
           d == Troves[b].debt + Applied(b).LUSDDebt
<1>4. AppliedTrove(b) = [Troves[b] EXCEPT !.coll = c, !.debt = d]
  BY DEF AppliedTrove
<1>5. c \in Nat /\ d \in Nat
  BY <1>3
<1> HIDE DEF c, d
<1>6. QED BY <1>1, <1>4, <1>5 DEF TroveRecords

\* _computeNewStake returns a natural number.
LEMMA StakeNat ==
    ASSUME CurrentOK, NEW c \in Nat
    PROVE  ComputeNewStake(c) \in Nat
<1>1. totalStakesSnapshot \in Nat /\ totalCollateralSnapshot \in Nat
  BY DEF CurrentOK, StakesOK
<1>2. c * totalStakesSnapshot \in Nat
  BY <1>1
<1>3. CASE totalCollateralSnapshot = 0
  BY <1>3 DEF ComputeNewStake
<1>4. CASE totalCollateralSnapshot > 0
  BY <1>1, <1>2, <1>4, DivNat DEF ComputeNewStake
<1>5. QED BY <1>1, <1>3, <1>4

\* The system's debt and collateral are natural numbers.
LEMMA SystemIs ==
    ASSUME CurrentOK
    PROVE  /\ EntireSystemColl \in Nat /\ EntireSystemDebt \in Nat
           /\ activePool \in Amounts /\ defaultPool \in Amounts
           /\ activePool.ETH \in Nat /\ activePool.LUSDDebt \in Nat
           /\ defaultPool.ETH \in Nat /\ defaultPool.LUSDDebt \in Nat
<1>1. activePool \in Amounts /\ defaultPool \in Amounts
  BY DEF CurrentOK, PoolsOK
<1>2. QED BY <1>1 DEF Amounts, EntireSystemColl, EntireSystemDebt

-----------------------------------------------------------------------------
(* Commit, revert and what leaves the ledger alone *)

\* A transaction that commits leaves its own ledger as the one to restore.
LEMMA CommitOK == CurrentOK' /\ Commit => CommittedOK'
<1> SUFFICES ASSUME CurrentOK', Commit PROVE CommittedOK'
  OBVIOUS
<1>1. /\ committed'.Troves = Troves' /\ committed'.rewardSnapshots = rewardSnapshots'
      /\ committed'.TroveOwners = TroveOwners' /\ committed'.sortedTroves = sortedTroves'
      /\ committed'.totalStakes = totalStakes'
      /\ committed'.totalStakesSnapshot = totalStakesSnapshot'
      /\ committed'.totalCollateralSnapshot = totalCollateralSnapshot'
      /\ committed'.L = L' /\ committed'.lastError = lastError'
      /\ committed'.activePool = activePool' /\ committed'.defaultPool = defaultPool'
      /\ committed'.surplusPool = surplusPool' /\ committed'.arth = arth'
  BY DEF Commit, Ledger
<1>2. QED BY <1>1 DEF CurrentOK, CommittedOK

\* A revert leaves the ledger that was committed.
LEMMA RevertOK == CommittedOK /\ Revert => CurrentOK'
BY DEF Revert, CurrentOK, CommittedOK

\* A step that leaves ledger and committed ledger alone.
LEMMA SameLedgerOK ==
    ASSUME IInv, UNCHANGED <<book, pools, committed>>
    PROVE  CurrentOK' /\ CommittedOK'
BY DEF IInv, CurrentOK, CommittedOK, book, pools, snapshots, rewards

\* A transaction that begins and ends within one step.
LEMMA IdleLocalOK ==
    ASSUME LocalOK, Idle, UNCHANGED local, price' \in Prices
    PROVE  LocalOK'
<1>1. tx' = tx /\ tx.op = "idle" /\ totals' = totals /\ redemption' = redemption
  BY DEF Idle, local
<1>2. ~InRecovery' /\ ~WalksTheList'
  BY <1>1 DEF InRecovery, Liquidating, WalksTheList, Redeeming, Sequence
<1>3. QED BY <1>1, <1>2 DEF LocalOK

\* The end of a transaction of several steps, or its revert.
LEMMA ReturnOK ==
    ASSUME price' \in Prices, tx' = IdleTx, totals' = NoTotals, redemption' = NoRedemption
    PROVE  LocalOK'
<1>1. ~InRecovery' /\ ~WalksTheList'
  BY DEF IdleTx, InRecovery, Liquidating, WalksTheList, Redeeming, Sequence
<1>2. tx' \in TxRecords
  BY DEF IdleTx, TxRecords, Users
<1>3. NoRedemption \in [DOMAIN NoRedemption -> Nat]
  BY DEF NoRedemption
<1>4. QED BY <1>1, <1>2, <1>3, TotalsIs DEF LocalOK

\* The deployed contracts satisfy the invariant.
LEMMA InitOK == Init => IInv
<1> SUFFICES ASSUME Init PROVE IInv
  OBVIOUS
<1>1. NoTrove \in TroveRecords /\ Amount(0, 0) \in Amounts
  BY DEF NoTrove, TroveRecords, Amount, Amounts
<1>2. BookOK(Troves, TroveOwners, sortedTroves)
  <2>1. /\ Troves = [b \in Borrowers |-> NoTrove]
        /\ TroveOwners = << >> /\ sortedTroves = << >>
    BY DEF Init
  <2>2. \A b \in Borrowers : Troves[b] = NoTrove
    BY <2>1
  <2>3. OwnersMatch(Troves, TroveOwners, sortedTroves)
    BY <2>1, <2>2 DEF OwnersMatch, NoTrove
  <2>4. << >> \in Seq(Borrowers) /\ DOMAIN << >> = {}
    OBVIOUS
  <2>5. QED BY <1>1, <2>1, <2>2, <2>3, <2>4 DEF BookOK, NoTrove
<1>3. RewardsOK(rewardSnapshots, L, lastError)
  BY <1>1 DEF Init, RewardsOK, Covers, Amount
<1>4. StakesOK(totalStakes, totalStakesSnapshot, totalCollateralSnapshot)
  BY DEF Init, StakesOK
<1>5. PoolsOK(activePool, defaultPool, surplusPool, arth)
  BY <1>1 DEF Init, PoolsOK, Amount
<1>6. CurrentOK
  BY <1>2, <1>3, <1>4, <1>5 DEF CurrentOK
<1>7. CommittedOK
  <2>1. /\ committed.Troves = Troves /\ committed.rewardSnapshots = rewardSnapshots
        /\ committed.TroveOwners = TroveOwners /\ committed.sortedTroves = sortedTroves
        /\ committed.totalStakes = totalStakes
        /\ committed.totalStakesSnapshot = totalStakesSnapshot
        /\ committed.totalCollateralSnapshot = totalCollateralSnapshot
        /\ committed.L = L /\ committed.lastError = lastError
        /\ committed.activePool = activePool /\ committed.defaultPool = defaultPool
        /\ committed.surplusPool = surplusPool /\ committed.arth = arth
    BY DEF Init, Ledger
  <2>2. QED BY <2>1, <1>6 DEF CurrentOK, CommittedOK
<1>8. LocalOK
  <2>1. price \in Prices /\ tx = IdleTx /\ totals = NoTotals /\ redemption = NoRedemption
    BY DEF Init
  <2>2. ~InRecovery /\ ~WalksTheList
    BY <2>1 DEF IdleTx, InRecovery, Liquidating, WalksTheList, Redeeming, Sequence
  <2>3. tx \in TxRecords
    BY <2>1 DEF IdleTx, TxRecords, Users
  <2>4. NoRedemption \in [DOMAIN NoRedemption -> Nat]
    BY DEF NoRedemption
  <2>5. QED BY <2>1, <2>2, <2>3, <2>4, TotalsIs DEF LocalOK
<1>9. QED BY <1>6, <1>7, <1>8 DEF IInv

-----------------------------------------------------------------------------
(* Parts of the ledger that several operations change alike *)

\* _updateTroveRewardSnapshots leaves no snapshot ahead of L.
LEMMA AppliedSnapshotOK ==
    ASSUME CurrentOK, NEW b \in Borrowers
    PROVE  RewardsOK([rewardSnapshots EXCEPT ![b] = AppliedSnapshot(b)], L, lastError)
<1>1. RewardsOK(rewardSnapshots, L, lastError)
  BY DEF CurrentOK
<1>2. Covers(L, L)
  BY <1>1 DEF RewardsOK, Covers, Amounts
<1>3. QED BY <1>1, <1>2 DEF RewardsOK, AppliedSnapshot

\* _closeTrove and _removeStake keep rewards and stakes well typed: the stake
\* is subtracted from a sum that covers it.
LEMMA CloseKeepsRest ==
    ASSUME CurrentOK, NEW b \in Borrowers, NEW status, CloseTrove(b, status),
           UNCHANGED <<snapshots, rewards>>
    PROVE  /\ RewardsOK(rewardSnapshots', L', lastError')
           /\ StakesOK(totalStakes', totalStakesSnapshot', totalCollateralSnapshot')
<1>1. RewardsOK(rewardSnapshots', L', lastError')
  <2>1. /\ rewardSnapshots' = [rewardSnapshots EXCEPT ![b] = Amount(0, 0)]
        /\ L' = L /\ lastError' = lastError
    BY DEF CloseTrove, rewards
  <2>2. Amount(0, 0) \in Amounts /\ \A l \in Amounts : Covers(l, Amount(0, 0))
    BY DEF Amount, Amounts, Covers
  <2>3. QED BY <2>1, <2>2 DEF CurrentOK, RewardsOK
<1>2. totalStakes' = totalStakes - Troves[b].stake /\ totalStakes >= Troves[b].stake
  BY DEF CloseTrove, TotalStakesWithout
<1>3. Troves[b].stake \in Nat
  BY PendingAmounts
<1>4. QED BY <1>1, <1>2, <1>3 DEF CurrentOK, StakesOK, snapshots

\* _movePendingTroveRewardsToActivePool moves debt between the pools and
\* creates none.
LEMMA MovedRewards ==
    ASSUME CurrentOK, NEW b \in Borrowers, Covers(defaultPool, Applied(b))
    PROVE  /\ Plus(activePool, Applied(b)) \in Amounts
           /\ Minus(defaultPool, Applied(b)) \in Amounts
           /\ Plus(activePool, Applied(b)).LUSDDebt \in Nat
           /\ Minus(defaultPool, Applied(b)).LUSDDebt \in Nat
           /\ Plus(activePool, Applied(b)).LUSDDebt + Minus(defaultPool, Applied(b)).LUSDDebt
                = arth.wallets + arth.gasPool + arth.stabilityPool
           /\ arth \in [wallets : Nat, gasPool : Nat, stabilityPool : Nat]
           /\ arth.wallets \in Nat /\ arth.gasPool \in Nat /\ arth.stabilityPool \in Nat
           /\ surplusPool \in [ETH : Nat, balances : [Borrowers -> Nat]]
<1>1. PoolsOK(activePool, defaultPool, surplusPool, arth) /\ Applied(b) \in Amounts
  BY PendingAmounts DEF CurrentOK
<1>2. /\ Plus(activePool, Applied(b)) \in Amounts
      /\ Minus(defaultPool, Applied(b)) \in Amounts
      /\ Plus(activePool, Applied(b)).LUSDDebt = activePool.LUSDDebt + Applied(b).LUSDDebt
      /\ Minus(defaultPool, Applied(b)).LUSDDebt
           = defaultPool.LUSDDebt - Applied(b).LUSDDebt
  BY <1>1, AmountArithmetic DEF PoolsOK
<1>3. /\ activePool.LUSDDebt \in Nat /\ defaultPool.LUSDDebt \in Nat
      /\ Applied(b).LUSDDebt \in Nat
      /\ arth.wallets \in Nat /\ arth.gasPool \in Nat /\ arth.stabilityPool \in Nat
  BY <1>1 DEF PoolsOK, Amounts
<1>4. /\ Plus(activePool, Applied(b)).LUSDDebt \in Nat
      /\ Minus(defaultPool, Applied(b)).LUSDDebt \in Nat
  BY <1>2 DEF Amounts
<1>5. arth.wallets + arth.gasPool + arth.stabilityPool
        = activePool.LUSDDebt + defaultPool.LUSDDebt
  BY <1>1 DEF PoolsOK
<1>6. Plus(activePool, Applied(b)).LUSDDebt + Minus(defaultPool, Applied(b)).LUSDDebt
        = arth.wallets + arth.gasPool + arth.stabilityPool
  BY <1>2, <1>3, <1>5
<1>7. QED BY <1>1, <1>2, <1>3, <1>4, <1>6 DEF PoolsOK

\* Writing collateral, debt and stake of one trove rewrites that trove only.
LEMMA RewriteIs ==
    ASSUME CurrentOK, NEW b \in Borrowers, NEW c \in Nat, NEW d \in Nat, NEW s \in Nat
    PROVE  SameEntries([Troves EXCEPT ![b].coll = c, ![b].debt = d, ![b].stake = s], b)
<1> DEFINE f == [Troves EXCEPT ![b].coll = c, ![b].debt = d, ![b].stake = s]
<1>1. Troves \in [Borrowers -> TroveRecords]
  BY DEF CurrentOK, BookOK
<1>2. Troves[b] \in TroveRecords
  BY <1>1
<1>3. f = [Troves EXCEPT ![b] = [Troves[b] EXCEPT !.coll = c, !.debt = d, !.stake = s]]
  BY <1>1
<1>4. /\ [Troves[b] EXCEPT !.coll = c, !.debt = d, !.stake = s] \in TroveRecords
      /\ [Troves[b] EXCEPT !.coll = c, !.debt = d, !.stake = s].status = Troves[b].status
      /\ [Troves[b] EXCEPT !.coll = c, !.debt = d, !.stake = s].arrayIndex
           = Troves[b].arrayIndex
  BY <1>2 DEF TroveRecords
<1>5. QED BY <1>1, <1>3, <1>4 DEF SameEntries

\* _updateStakeAndTotalStakes keeps the sum of stakes a natural number.
LEMMA RestakedIs ==
    ASSUME CurrentOK, NEW b \in Borrowers, totalStakes >= Troves[b].stake, NEW s \in Nat,
           totalStakes' = totalStakes - Troves[b].stake + s, UNCHANGED snapshots
    PROVE  StakesOK(totalStakes', totalStakesSnapshot', totalCollateralSnapshot')
<1>1. Troves[b].stake \in Nat /\ totalStakes \in Nat
  BY PendingAmounts DEF CurrentOK, StakesOK
<1>2. QED BY <1>1 DEF CurrentOK, StakesOK, snapshots

\* A step that moves ARTH between its holders, or pays a surplus, and leaves
\* the troves and both pools alone.
LEMMA SurplusStepOK ==
    ASSUME CurrentOK, UNCHANGED <<book, activePool, defaultPool>>,
           surplusPool' \in [ETH : Nat, balances : [Borrowers -> Nat]],
           arth' \in [wallets : Nat, gasPool : Nat, stabilityPool : Nat],
           arth'.wallets + arth'.gasPool + arth'.stabilityPool
             = arth.wallets + arth.gasPool + arth.stabilityPool
    PROVE  CurrentOK'
<1>1. PoolsOK(activePool', defaultPool', surplusPool', arth')
  BY DEF CurrentOK, PoolsOK
<1>2. QED BY <1>1 DEF CurrentOK, book, snapshots, rewards

\* The next trove of a walk is still listed when the present one is closed.
LEMMA NextListed ==
    ASSUME CurrentOK, LocalOK, NEW b \in Borrowers, Active(b), sortedTroves' = Unlisted(b)
    PROVE  /\ GetPrev(b) \in ToSet(sortedTroves') \union {NONE}
           /\ GetPrev(b) \in Users
           /\ NextUser(b) \in Users
<1>1. b \in ToSet(sortedTroves) /\ BookOK(Troves, TroveOwners, sortedTroves)
  BY ActiveListed DEF CurrentOK
<1>2. GetPrev(b) \in ToSet(Unlisted(b)) \union {NONE} /\ ToSet(Unlisted(b)) \subseteq ToSet(sortedTroves)
  BY <1>1, UnlistedIs
<1>3. ToSet(sortedTroves) \subseteq Borrowers
  BY <1>1, ListedAt
<1>4. QED BY <1>2, <1>3 DEF Users, NextUser, LocalOK, TxRecords

-----------------------------------------------------------------------------
(* Liquidation *)

\* The liquidator's part is no more than the collateral.
LEMMA GasIsAPart ==
    ASSUME NEW c \in Nat
    PROVE  CollGasCompensation(c) \in Nat /\ CollGasCompensation(c) <= c
<1>1. c <= c * PERCENT_DIVISOR
  BY ConstantFacts
<1>2. QED BY <1>1, DivAtMost, ConstantFacts DEF CollGasCompensation

\* What the Stability Pool takes is no more than the debt, the collateral and
\* the deposits.
LEMMA OffsetIsAPart ==
    ASSUME NEW debt \in Nat, debt > 0, NEW coll \in Nat, NEW sp \in Nat
    PROVE  /\ Offset(debt, coll, sp) \in Amounts
           /\ Offset(debt, coll, sp).ETH \in Nat /\ Offset(debt, coll, sp).LUSDDebt \in Nat
           /\ Offset(debt, coll, sp).LUSDDebt <= debt
           /\ Offset(debt, coll, sp).LUSDDebt <= sp
           /\ Offset(debt, coll, sp).ETH <= coll
<1> DEFINE off == Min2(debt, sp)
<1>1. off \in Nat /\ off <= debt /\ off <= sp
  BY DEF Min2
<1> HIDE DEF off
<1>2. coll * off \in Nat /\ coll * off <= coll * debt
  BY <1>1
<1>3. (coll * off) \div debt \in Nat /\ (coll * off) \div debt <= coll
  BY <1>2, DivAtMost
<1>4. CASE sp > 0
  <2>1. Offset(debt, coll, sp) = Amount((coll * off) \div debt, off)
    BY <1>4 DEF Offset, off
  <2>2. QED BY <2>1, <1>1, <1>3 DEF Amount, Amounts
<1>5. CASE sp = 0
  BY <1>5 DEF Offset, Amount, Amounts
<1>6. QED BY <1>4, <1>5

\* _getOffsetAndRedistributionVals splits a trove with debt without
\* underflow, and takes no more from the Stability Pool than it holds.
LEMMA FullValuesOK ==
    ASSUME CurrentOK, NEW b \in Borrowers, Entire(b).LUSDDebt > 0, NEW sp \in Nat
    PROVE  /\ FullValues(b, sp) \in [DOMAIN NoTotals -> Nat]
           /\ FullValues(b, sp).DebtToOffset <= sp
<1> DEFINE all == Entire(b)
           gas == CollGasCompensation(all.ETH)
           off == Offset(all.LUSDDebt, all.ETH - gas, sp)
           r1 == all.LUSDDebt - off.LUSDDebt
           r2 == all.ETH - gas - off.ETH
<1>1. all.ETH \in Nat /\ all.LUSDDebt \in Nat
  BY PendingAmounts DEF Amounts
<1>2. gas \in Nat /\ gas <= all.ETH /\ all.ETH - gas \in Nat
  BY <1>1, GasIsAPart
<1>3. /\ off.ETH \in Nat /\ off.LUSDDebt \in Nat
      /\ off.LUSDDebt <= all.LUSDDebt /\ off.LUSDDebt <= sp /\ off.ETH <= all.ETH - gas
  <2> DEFINE c == all.ETH - gas
  <2>1. c \in Nat
    BY <1>2
  <2> HIDE DEF c
  <2>2. QED BY <1>1, <2>1, OffsetIsAPart DEF c
<1>4. r1 \in Nat /\ r2 \in Nat
  BY <1>1, <1>2, <1>3
<1>5. FullValues(b, sp) = [NoTotals EXCEPT !.CollInSequence = all.ETH,
           !.DebtInSequence = all.LUSDDebt, !.CollGasCompensation = gas,
           !.LUSDGasCompensation = LUSD_GAS_COMPENSATION, !.DebtToOffset = off.LUSDDebt,
           !.CollToSendToSP = off.ETH, !.DebtToRedistribute = r1, !.CollToRedistribute = r2]
  BY DEF FullValues
<1> HIDE DEF all, gas, off, r1, r2
<1>6. FullValues(b, sp) \in [DOMAIN NoTotals -> Nat]
  BY <1>1, <1>2, <1>3, <1>4, <1>5, TotalsIs, ConstantFacts
<1>7. FullValues(b, sp).DebtToOffset = off.LUSDDebt
  BY <1>5, TotalsIs
<1>8. QED BY <1>3, <1>6, <1>7

\* _getCappedOffsetVals does not underflow at a ratio of MCR or more: the
\* collateral at MCR is at most the trove's.
LEMMA CappedValuesOK ==
    ASSUME CurrentOK, price \in Prices, NEW b \in Borrowers, CurrentICR(b) >= MCR
    PROVE  /\ CappedValues(b) \in [DOMAIN NoTotals -> Nat]
           /\ CappedValues(b).DebtToOffset = Entire(b).LUSDDebt
<1> DEFINE c == Entire(b).ETH
           d == Entire(b).LUSDDebt
           toOffset == (d * MCR) \div price
           gas == CollGasCompensation(toOffset)
           r1 == toOffset - gas
           r2 == c - toOffset
<1>1. c \in Nat /\ d \in Nat /\ price \in Nat /\ price > 0 /\ MCR \in Nat
  BY PendingAmounts, ConstantFacts DEF Amounts
<1>2. d * MCR <= c * price
  <2>1. CASE d > 0
    <3>1. c * price \in Nat
      BY <1>1
    <3>2. (c * price) \div d \in Nat /\ (c * price) \div d >= MCR
          /\ ((c * price) \div d) * d <= c * price
      BY <2>1, <3>1, <1>1, DivNat DEF CurrentICR, ComputeCR
    <3>3. MCR * d <= ((c * price) \div d) * d
      BY <3>2, <1>1
    <3>4. QED BY <3>1, <3>2, <3>3, <1>1
  <2>2. CASE d = 0
    BY <2>2, <1>1
  <2>3. QED BY <2>1, <2>2, <1>1
<1>3. toOffset \in Nat /\ toOffset <= c
  <2>1. d * MCR \in Nat
    BY <1>1
  <2>2. QED BY <2>1, <1>1, <1>2, DivAtMost
<1>4. gas \in Nat /\ gas <= toOffset /\ r1 \in Nat /\ r2 \in Nat
  BY <1>1, <1>3, GasIsAPart
<1>5. CappedValues(b) = [NoTotals EXCEPT !.CollInSequence = c, !.DebtInSequence = d,
           !.CollGasCompensation = gas, !.LUSDGasCompensation = LUSD_GAS_COMPENSATION,
           !.DebtToOffset = d, !.CollToSendToSP = r1, !.CollSurplus = r2]
  BY DEF CappedValues
<1> HIDE DEF c, d, toOffset, gas, r1, r2
<1>6. CappedValues(b) \in [DOMAIN NoTotals -> Nat]
  BY <1>1, <1>3, <1>4, <1>5, TotalsIs, ConstantFacts
<1>7. CappedValues(b).DebtToOffset = d
  BY <1>5, TotalsIs
<1>8. QED BY <1>6, <1>7 DEF d

\* Closing one liquidated trove, whatever its values, keeps ledger and totals
\* in order.
LEMMA LiquidateTroveOK ==
    ASSUME CurrentOK, totals \in [DOMAIN NoTotals -> Nat], NEW b \in Borrowers, Active(b),
           NEW v \in [DOMAIN NoTotals -> Nat], LiquidateTrove(b, v)
    PROVE  CurrentOK' /\ totals' \in [DOMAIN NoTotals -> Nat]
<1>1. BookOK(Troves', TroveOwners', sortedTroves')
  BY CloseKeepsBook DEF LiquidateTrove, ClosedStatuses, CurrentOK
<1>2. /\ RewardsOK(rewardSnapshots', L', lastError')
      /\ StakesOK(totalStakes', totalStakesSnapshot', totalCollateralSnapshot')
  BY CloseKeepsRest DEF LiquidateTrove
<1>3. PoolsOK(activePool', defaultPool', surplusPool', arth')
  <2>1. PoolsOK(activePool, defaultPool, surplusPool, arth) /\ Pending(b) \in Amounts
    BY PendingAmounts DEF CurrentOK
  <2>2. /\ Covers(defaultPool, Pending(b))
        /\ defaultPool' = Minus(defaultPool, Pending(b))
        /\ activePool' = Plus(activePool, Pending(b))
        /\ surplusPool' = [surplusPool EXCEPT !.balances = AccountSurplus(b, v.CollSurplus)]
        /\ arth' = arth
    BY DEF LiquidateTrove
  <2>3. surplusPool' \in [ETH : Nat, balances : [Borrowers -> Nat]]
    <3>1. v.CollSurplus \in Nat
      BY TotalsIs
    <3>2. AccountSurplus(b, v.CollSurplus) \in [Borrowers -> Nat]
      BY <3>1, <2>1 DEF AccountSurplus, PoolsOK
    <3>3. QED BY <3>2, <2>1, <2>2 DEF PoolsOK
  <2>4. /\ activePool' \in Amounts /\ defaultPool' \in Amounts
        /\ activePool'.LUSDDebt = activePool.LUSDDebt + Pending(b).LUSDDebt
        /\ defaultPool'.LUSDDebt = defaultPool.LUSDDebt - Pending(b).LUSDDebt
        /\ activePool.LUSDDebt \in Nat /\ defaultPool.LUSDDebt \in Nat
        /\ Pending(b).LUSDDebt \in Nat
    BY <2>1, <2>2, AmountArithmetic DEF PoolsOK
  <2>5. activePool'.LUSDDebt + defaultPool'.LUSDDebt = activePool.LUSDDebt + defaultPool.LUSDDebt
    BY <2>4
  <2>6. QED BY <2>1, <2>2, <2>3, <2>4, <2>5 DEF PoolsOK
<1>4. totals' \in [DOMAIN NoTotals -> Nat]
  BY DEF LiquidateTrove, AddLiquidationValues
<1>5. QED BY <1>1, <1>2, <1>3, <1>4 DEF CurrentOK

\* A trove below MCR is active and owes something.
LEMMA Riskiest ==
    ASSUME CurrentOK, NEW b \in Borrowers, CurrentICR(b) < MCR
    PROVE  Active(b) /\ Entire(b).LUSDDebt > 0
<1>1. Entire(b).LUSDDebt \in Nat
  BY PendingAmounts DEF Amounts
<1>2. Entire(b).LUSDDebt # 0
  BY ConstantFacts DEF CurrentICR, ComputeCR
<1>3. Active(b)
  BY <1>2, PendingAmounts DEF Amount
<1>4. QED BY <1>1, <1>2, <1>3

\* Whatever _liquidateRecoveryMode closes is active, and its values are well
\* typed and within the remaining deposits.  A trove at or above MCR is
\* closed only below the tracked ratio, which is below CCR; a closed trove's
\* ratio is the largest number.
LEMMA RecoveryValuesOK ==
    ASSUME CurrentOK, LocalOK, NEW b \in Borrowers, InRecovery,
           CurrentICR(b) < MCR \/ Capped(b)
    PROVE  /\ Active(b)
           /\ RecoveryValues(b) \in [DOMAIN NoTotals -> Nat]
           /\ RecoveryValues(b).DebtToOffset <= tx.sp
<1>1. tx.sp \in Nat /\ price \in Prices
  BY DEF LocalOK, TxRecords
<1>2. CurrentICR(b) \in Nat
  BY RatioNat, PendingAmounts, <1>1, ConstantFacts DEF CurrentICR, Amounts
<1>3. CASE CurrentICR(b) < MCR
  <2>1. Active(b) /\ Entire(b).LUSDDebt > 0
    BY <1>3, Riskiest
  <2>2. /\ FullValues(b, 0) \in [DOMAIN NoTotals -> Nat]
        /\ FullValues(b, 0).DebtToOffset <= 0
        /\ FullValues(b, 0).DebtToOffset \in Nat
    BY <2>1, FullValuesOK, TotalsIs
  <2>3. /\ FullValues(b, tx.sp) \in [DOMAIN NoTotals -> Nat]
        /\ FullValues(b, tx.sp).DebtToOffset <= tx.sp
    BY <2>1, <1>1, FullValuesOK
  <2>4. FullValues(b, 0).DebtToOffset <= tx.sp
    BY <2>2, <1>1
  <2>5. QED BY <2>1, <2>2, <2>3, <2>4, <1>3 DEF RecoveryValues
<1>4. CASE ~(CurrentICR(b) < MCR)
  <2>1. CurrentICR(b) < TrackedTCR /\ Entire(b).LUSDDebt <= tx.sp
    BY <1>4 DEF Capped
  <2>2. CurrentICR(b) >= MCR /\ ~(CurrentICR(b) <= DECIMAL_PRECISION)
    BY <1>2, <1>4, ConstantFacts
  <2>3. Active(b)
    <3>1. TrackedTCR < CCR /\ TrackedTCR \in Nat
      BY RatioNat, <1>1, ConstantFacts DEF LocalOK, TxRecords, TrackedTCR
    <3>2. CurrentICR(b) # MAX_UINT
      BY <2>1, <3>1, <1>2, ConstantFacts
    <3>3. QED BY <3>2, PendingAmounts DEF CurrentICR, ComputeCR, Amount
  <2>4. /\ CappedValues(b) \in [DOMAIN NoTotals -> Nat]
        /\ CappedValues(b).DebtToOffset <= tx.sp
    BY <2>1, <2>2, <1>1, CappedValuesOK
  <2>5. QED BY <2>2, <2>3, <2>4, <1>4 DEF RecoveryValues
<1>5. QED BY <1>3, <1>4

\* BeginLiquidation keeps the invariant.
LEMMA BeginLiquidationOK ==
    ASSUME IInv, NEW op \in {"sequence", "batch"}, BeginLiquidation(op)
    PROVE  IInv'
<1>1. CurrentOK' /\ CommittedOK'
  BY SameLedgerOK DEF BeginLiquidation
<1>2. UNCHANGED <<price, totals, redemption, sortedTroves>>
  BY DEF BeginLiquidation, book
<1>3. CurrentOK /\ LocalOK
  BY DEF IInv
<1> DEFINE n == Len(sortedTroves)
<1>4. sortedTroves \in Seq(Borrowers) /\ n \in Nat /\ n > 0 /\ DOMAIN sortedTroves = 1..n
  <2>1. TroveOwners \in Seq(Borrowers) /\ TroveOwners # << >> /\ Len(TroveOwners) = n
    BY <1>3 DEF BeginLiquidation, CurrentOK, BookOK, OwnersMatch
  <2>2. Len(TroveOwners) > 0
    BY <2>1, EmptySeq, LenProperties
  <2>3. QED BY <1>3, <2>1, <2>2, LenProperties DEF CurrentOK, BookOK
<1>5. /\ Last(sortedTroves) \in ToSet(sortedTroves) /\ Last(sortedTroves) \in Borrowers
      /\ Head(sortedTroves) \in Borrowers
  <2>1. Last(sortedTroves) = sortedTroves[n] /\ Head(sortedTroves) = sortedTroves[1]
    BY <1>4 DEF Last
  <2>2. n \in 1..n /\ 1 \in 1..n
    BY <1>4
  <2>3. QED BY <2>1, <2>2, <1>4, ElementOfSeq DEF ToSet
<1>6. arth.stabilityPool \in Nat /\ RecoveryMode \in BOOLEAN
  BY <1>3 DEF CurrentOK, PoolsOK, RecoveryMode
<1>7. tx' = [op |-> op, user |-> Last(sortedTroves), first |-> Head(sortedTroves),
             recovery |-> RecoveryMode, back |-> FALSE, sp |-> arth.stabilityPool,
             sysDebt |-> EntireSystemDebt, sysColl |-> EntireSystemColl]
  BY DEF BeginLiquidation
<1>8. tx' \in TxRecords
  BY <1>3, <1>5, <1>6, <1>7, SystemIs DEF TxRecords, Users
<1>9. InRecovery' => TrackedTCR' < CCR
  BY <1>2, <1>7 DEF InRecovery, TrackedTCR, RecoveryMode, TCR
<1>10. WalksTheList' => tx'.user \in ToSet(sortedTroves') \union {NONE}
  BY <1>2, <1>5, <1>7
<1>11. QED BY <1>1, <1>2, <1>3, <1>8, <1>9, <1>10 DEF IInv, LocalOK

\* LiquidateInRecoveryMode keeps the invariant.
LEMMA RecoveryStepOK ==
    ASSUME IInv, NEW b \in Borrowers, LiquidateInRecoveryMode(b)
    PROVE  IInv'
<1> DEFINE v == RecoveryValues(b)
           d == tx.sysDebt - v.DebtToOffset
           c == tx.sysColl - TakenOff(v)
<1>0. CurrentOK /\ CommittedOK /\ LocalOK
  BY DEF IInv
<1>1. /\ Active(b) /\ v \in [DOMAIN NoTotals -> Nat] /\ v.DebtToOffset <= tx.sp
  BY <1>0, RecoveryValuesOK DEF LiquidateInRecoveryMode
<1>2. /\ LiquidateTrove(b, v)
      /\ tx.sysColl >= TakenOff(v) /\ tx.sysDebt >= v.DebtToOffset
      /\ tx' = [tx EXCEPT !.user = NextUser(b), !.sp = @ - v.DebtToOffset,
                  !.sysDebt = @ - v.DebtToOffset, !.sysColl = @ - TakenOff(v),
                  !.back = BackToNormal(d, c)]
  BY DEF LiquidateInRecoveryMode
<1> HIDE DEF v
<1>3. CurrentOK' /\ totals' \in [DOMAIN NoTotals -> Nat]
  BY <1>0, <1>1, <1>2, LiquidateTroveOK DEF LocalOK
<1>4. UNCHANGED <<price, redemption, committed>> /\ sortedTroves' = Unlisted(b)
  BY <1>2 DEF LiquidateTrove, CloseTrove
<1>5. CommittedOK'
  BY <1>0, <1>4 DEF CommittedOK
<1>6. tx \in TxRecords /\ tx.sp \in Nat /\ tx.sysDebt \in Nat /\ tx.sysColl \in Nat
  BY <1>0 DEF LocalOK, TxRecords
<1>7. v.DebtToOffset \in Nat /\ TakenOff(v) \in Nat
  BY <1>1, TotalsIs DEF TakenOff
<1>8. d \in Nat /\ c \in Nat /\ tx.sp - v.DebtToOffset \in Nat
  BY <1>1, <1>2, <1>6, <1>7
<1>9. NextUser(b) \in Users /\ BackToNormal(d, c) \in BOOLEAN
  BY <1>0, <1>1, <1>4, NextListed DEF BackToNormal
<1>10. /\ tx' \in TxRecords
       /\ tx'.op = tx.op /\ tx'.recovery = tx.recovery /\ tx'.user = NextUser(b)
       /\ tx'.sysDebt = d /\ tx'.sysColl = c /\ tx'.back = BackToNormal(d, c)
  BY <1>2, <1>6, <1>8, <1>9 DEF TxRecords
<1>11. InRecovery' => TrackedTCR' < CCR
  BY <1>4, <1>10 DEF InRecovery, TrackedTCR, BackToNormal
<1>12. WalksTheList' => tx'.user \in ToSet(sortedTroves') \union {NONE}
  <2>1. WalksTheList' => NextUser(b) = GetPrev(b)
    BY <1>10 DEF WalksTheList, Redeeming, Sequence, NextUser, LiquidateInRecoveryMode, InRecovery, Liquidating
  <2>2. QED BY <2>1, <1>0, <1>1, <1>4, <1>10, NextListed
<1>13. QED BY <1>0, <1>3, <1>4, <1>5, <1>10, <1>11, <1>12 DEF IInv, LocalOK

\* PassOver keeps the invariant.
LEMMA PassOverOK ==
    ASSUME IInv, NEW b \in Borrowers, PassOver(b)
    PROVE  IInv'
<1>1. CurrentOK' /\ CommittedOK'
  BY SameLedgerOK DEF PassOver
<1>2. UNCHANGED <<price, totals, redemption, sortedTroves>>
  BY DEF PassOver, book
<1>3. CurrentOK /\ LocalOK
  BY DEF IInv
<1>4. Sequence /\ tx.recovery /\ b = tx.user /\ WalksTheList
  BY DEF PassOver, InRecovery, Candidate, WalksTheList, Sequence
<1>5. b \in ToSet(sortedTroves)
  BY <1>3, <1>4, BorrowersAssumption DEF LocalOK
<1>6. GetPrev(b) \in ToSet(sortedTroves) \union {NONE} /\ GetPrev(b) \in Users
  <2>1. BookOK(Troves, TroveOwners, sortedTroves)
    BY <1>3 DEF CurrentOK
  <2>2. GetPrev(b) \in ToSet(Unlisted(b)) \union {NONE} /\ ToSet(Unlisted(b)) \subseteq ToSet(sortedTroves)
    BY <2>1, <1>5, UnlistedIs
  <2>3. ToSet(sortedTroves) \subseteq Borrowers
    BY <2>1, ListedAt
  <2>4. QED BY <2>2, <2>3 DEF Users
<1>7. NextUser(b) = GetPrev(b)
  BY <1>4 DEF NextUser
<1> DEFINE back == BackToNormal(tx.sysDebt, tx.sysColl)
<1>8. tx' = [tx EXCEPT !.user = GetPrev(b), !.back = back] /\ back \in BOOLEAN
  BY <1>7 DEF PassOver, BackToNormal
<1> HIDE DEF back
<1>9. /\ tx' \in TxRecords /\ tx'.user = GetPrev(b) /\ tx'.back = back
      /\ tx'.sysDebt = tx.sysDebt /\ tx'.sysColl = tx.sysColl
  BY <1>3, <1>6, <1>8 DEF LocalOK, TxRecords
<1>10. InRecovery' => TrackedTCR' < CCR
  BY <1>2, <1>9 DEF InRecovery, TrackedTCR, BackToNormal, back
<1>11. QED BY <1>1, <1>2, <1>3, <1>6, <1>9, <1>10 DEF IInv, LocalOK

\* LiquidateInNormalMode keeps the invariant.
LEMMA NormalStepOK ==
    ASSUME IInv, NEW b \in Borrowers, LiquidateInNormalMode(b)
    PROVE  IInv'
<1> DEFINE v == FullValues(b, tx.sp)
<1>0. CurrentOK /\ CommittedOK /\ LocalOK
  BY DEF IInv
<1>1. Active(b) /\ Entire(b).LUSDDebt > 0
  BY <1>0, Riskiest DEF LiquidateInNormalMode
<1>2. /\ LiquidateTrove(b, v)
      /\ tx' = [tx EXCEPT !.user = NextUser(b), !.sp = @ - v.DebtToOffset]
  BY DEF LiquidateInNormalMode
<1>3. tx \in TxRecords /\ tx.sp \in Nat
  BY <1>0 DEF LocalOK, TxRecords
<1>4. v \in [DOMAIN NoTotals -> Nat] /\ v.DebtToOffset <= tx.sp /\ v.DebtToOffset \in Nat
  BY <1>0, <1>1, <1>3, FullValuesOK, TotalsIs
<1> HIDE DEF v
<1>5. CurrentOK' /\ totals' \in [DOMAIN NoTotals -> Nat]
  BY <1>0, <1>1, <1>2, <1>4, LiquidateTroveOK DEF LocalOK
<1>6. UNCHANGED <<price, redemption, committed>> /\ sortedTroves' = Unlisted(b)
  BY <1>2 DEF LiquidateTrove, CloseTrove
<1>7. CommittedOK'
  BY <1>0, <1>6 DEF CommittedOK
<1>8. tx.sp - v.DebtToOffset \in Nat
  BY <1>3, <1>4
<1>9. NextUser(b) \in Users /\ GetPrev(b) \in ToSet(sortedTroves') \union {NONE}
  BY <1>0, <1>1, <1>6, NextListed
<1>10. /\ tx' \in TxRecords /\ tx'.user = NextUser(b)
       /\ tx'.op = tx.op /\ tx'.recovery = tx.recovery /\ tx'.back = tx.back
  BY <1>2, <1>3, <1>8, <1>9 DEF TxRecords
<1>11. ~InRecovery'
  BY <1>10 DEF InRecovery, Liquidating, LiquidateInNormalMode
<1>12. WalksTheList' => tx'.user \in ToSet(sortedTroves') \union {NONE}
  BY <1>9, <1>10 DEF WalksTheList, Redeeming, Sequence, NextUser, LiquidateInNormalMode, Liquidating
<1>13. QED BY <1>0, <1>5, <1>6, <1>7, <1>10, <1>11, <1>12 DEF IInv, LocalOK

\* _redistributeDebtAndColl only raises L, and leaves an error that is not
\* negative.
LEMMA RedistributeOK ==
    ASSUME CurrentOK, LocalOK, Redistribute, UNCHANGED rewardSnapshots
    PROVE  RewardsOK(rewardSnapshots', L', lastError')
<1>1. /\ RewardsOK(rewardSnapshots, L, lastError)
      /\ totalStakes \in Nat /\ rewardSnapshots' = rewardSnapshots
  BY DEF CurrentOK, StakesOK
<1>2. CASE totals.DebtToRedistribute = 0
  BY <1>1, <1>2 DEF Redistribute, rewards
<1>3. CASE totals.DebtToRedistribute # 0
  <2> DEFINE n == Numerators(Redistributed)
             e == n.ETH \div totalStakes
             d == n.LUSDDebt \div totalStakes
             restE == n.ETH - e * totalStakes
             restD == n.LUSDDebt - d * totalStakes
  <2>1. /\ totalStakes > 0
        /\ L' = Plus(L, Amount(e, d))
        /\ lastError' = Amount(restE, restD)
    <3>1. Amount(e, d).ETH = e /\ Amount(e, d).LUSDDebt = d
      BY DEF Amount
    <3> HIDE DEF e, d
    <3>2. QED BY <3>1, <1>3 DEF Redistribute, e, d
  <2>2. n \in Amounts
    <3>1. Redistributed.ETH \in Nat /\ Redistributed.LUSDDebt \in Nat
      BY TotalsIs DEF Redistributed, LocalOK, Amount
    <3>2. Redistributed.ETH * DECIMAL_PRECISION \in Nat
          /\ Redistributed.LUSDDebt * DECIMAL_PRECISION \in Nat
      BY <3>1, ConstantFacts
    <3>3. Amount(Redistributed.ETH * DECIMAL_PRECISION,
                 Redistributed.LUSDDebt * DECIMAL_PRECISION) \in Amounts
      BY <3>2 DEF Amount, Amounts
    <3>4. lastError \in Amounts
      BY <1>1 DEF RewardsOK
    <3>5. QED BY <3>3, <3>4, AmountArithmetic DEF Numerators
  <2>3. n.ETH \in Nat /\ n.LUSDDebt \in Nat
    BY <2>2 DEF Amounts
  <2> HIDE DEF n
  <2>4. e \in Nat /\ d \in Nat /\ restE \in Nat /\ restD \in Nat
    <3>1. e \in Nat /\ e * totalStakes <= n.ETH
      BY <2>1, <2>3, <1>1, DivNat
    <3>2. d \in Nat /\ d * totalStakes <= n.LUSDDebt
      BY <2>1, <2>3, <1>1, DivNat
    <3> HIDE DEF e, d
    <3>3. e * totalStakes \in Nat /\ d * totalStakes \in Nat
      BY <3>1, <3>2, <1>1
    <3>4. QED BY <3>1, <3>2, <3>3, <2>3
  <2> HIDE DEF e, d, restE, restD
  <2>5. Amount(e, d) \in Amounts /\ lastError' \in Amounts
    BY <2>1, <2>4 DEF Amount, Amounts
  <2>6. L \in Amounts
    BY <1>1 DEF RewardsOK
  <2>7. L' \in Amounts /\ L'.ETH = L.ETH + e /\ L'.LUSDDebt = L.LUSDDebt + d
    <3>1. Amount(e, d).ETH = e /\ Amount(e, d).LUSDDebt = d
      BY DEF Amount
    <3>2. QED BY <3>1, <2>1, <2>5, <2>6, AmountArithmetic
  <2>8. ASSUME NEW b \in Borrowers PROVE Covers(L', rewardSnapshots[b])
    <3>1. rewardSnapshots[b] \in Amounts /\ Covers(L, rewardSnapshots[b])
      BY <1>1 DEF RewardsOK
    <3>2. QED BY <3>1, <2>4, <2>6, <2>7 DEF Covers, Amounts
  <2>9. QED BY <1>1, <2>5, <2>7, <2>8 DEF RewardsOK
<1>4. QED BY <1>2, <1>3

\* FinishLiquidation keeps the invariant: the debt that is offset is burnt,
\* the debt that is redistributed changes pools.
LEMMA FinishLiquidationOK == ASSUME IInv, FinishLiquidation PROVE IInv'
<1>1. CurrentOK /\ LocalOK
  BY DEF IInv
<1>2. totals.CollSurplus \in Nat /\ totals.CollGasCompensation \in Nat
      /\ totals.LUSDGasCompensation \in Nat
  BY <1>1, TotalsIs DEF LocalOK
<1>3. Redistributed \in Amounts /\ OffsetBySP \in Amounts
  BY <1>1, TotalsIs DEF LocalOK, Redistributed, OffsetBySP, Amount, Amounts
<1>4. /\ LeavesActivePool \in Amounts
      /\ LeavesActivePool.LUSDDebt = OffsetBySP.LUSDDebt + Redistributed.LUSDDebt
  <2> DEFINE c == totals.CollSurplus + totals.CollGasCompensation
  <2>1. c \in Nat
    BY <1>2
  <2> HIDE DEF c
  <2>2. Amount(c, 0) \in Amounts /\ Amount(c, 0).LUSDDebt = 0
    BY <2>1 DEF Amount, Amounts
  <2>3. /\ Plus(OffsetBySP, Redistributed) \in Amounts
        /\ Plus(OffsetBySP, Redistributed).LUSDDebt
             = OffsetBySP.LUSDDebt + Redistributed.LUSDDebt
        /\ OffsetBySP.LUSDDebt \in Nat /\ Redistributed.LUSDDebt \in Nat
    BY <1>3, AmountArithmetic
  <2>4. QED BY <2>2, <2>3, AmountArithmetic DEF LeavesActivePool, c
<1>5. /\ activePool' = Minus(activePool, LeavesActivePool)
      /\ Covers(activePool, LeavesActivePool)
      /\ defaultPool' = Plus(defaultPool, Redistributed)
      /\ surplusPool' = [surplusPool EXCEPT !.ETH = @ + totals.CollSurplus]
      /\ OffsetBySP.LUSDDebt <= arth.stabilityPool
      /\ totals.LUSDGasCompensation <= arth.gasPool
      /\ arth' = [arth EXCEPT !.stabilityPool = @ - OffsetBySP.LUSDDebt,
                              !.gasPool = @ - totals.LUSDGasCompensation,
                              !.wallets = @ + totals.LUSDGasCompensation]
  BY DEF FinishLiquidation
<1>6. PoolsOK(activePool, defaultPool, surplusPool, arth)
  BY <1>1 DEF CurrentOK
<1> DEFINE off == OffsetBySP.LUSDDebt
           red == Redistributed.LUSDDebt
           gas == totals.LUSDGasCompensation
<1>7. off \in Nat /\ red \in Nat /\ gas \in Nat /\ LeavesActivePool.LUSDDebt = off + red
  BY <1>2, <1>3, <1>4 DEF Amounts
<1>8. activePool \in Amounts /\ defaultPool \in Amounts
  BY <1>6 DEF PoolsOK
<1>9. /\ activePool' \in Amounts
       /\ activePool'.LUSDDebt = activePool.LUSDDebt - LeavesActivePool.LUSDDebt
  BY <1>4, <1>5, <1>8, AmountArithmetic
<1>10. /\ defaultPool' \in Amounts
       /\ defaultPool'.LUSDDebt = defaultPool.LUSDDebt + red
  BY <1>3, <1>5, <1>8, AmountArithmetic
<1>11. /\ activePool'.LUSDDebt = activePool.LUSDDebt - (off + red)
      /\ activePool.LUSDDebt \in Nat /\ defaultPool.LUSDDebt \in Nat
      /\ activePool'.ETH \in Nat /\ defaultPool'.ETH \in Nat
  BY <1>7, <1>8, <1>9, <1>10 DEF Amounts
<1>12. /\ off <= arth.stabilityPool /\ gas <= arth.gasPool
       /\ arth' = [arth EXCEPT !.stabilityPool = @ - off, !.gasPool = @ - gas,
                               !.wallets = @ + gas]
  BY <1>5
<1> HIDE DEF off, red, gas
<1>13. /\ arth \in [wallets : Nat, gasPool : Nat, stabilityPool : Nat]
       /\ arth.wallets \in Nat /\ arth.gasPool \in Nat /\ arth.stabilityPool \in Nat
  BY <1>6 DEF PoolsOK
<1> DEFINE w == arth.wallets + gas
           g == arth.gasPool - gas
           p == arth.stabilityPool - off
<1>14. w \in Nat /\ g \in Nat /\ p \in Nat
  BY <1>7, <1>12, <1>13
<1>15. arth' = [arth EXCEPT !.stabilityPool = p, !.gasPool = g, !.wallets = w]
  BY <1>12
<1> HIDE DEF w, g, p
<1>16. /\ arth' \in [wallets : Nat, gasPool : Nat, stabilityPool : Nat]
      /\ arth'.wallets = w /\ arth'.gasPool = g /\ arth'.stabilityPool = p
  BY <1>13, <1>14, <1>15
<1>17. PoolsOK(activePool', defaultPool', surplusPool', arth')
  <2>1. surplusPool' \in [ETH : Nat, balances : [Borrowers -> Nat]]
    BY <1>2, <1>5, <1>6 DEF PoolsOK
  <2>2. arth'.wallets + arth'.gasPool + arth'.stabilityPool
          = activePool'.LUSDDebt + defaultPool'.LUSDDebt
    <3>1. arth.wallets + arth.gasPool + arth.stabilityPool
            = activePool.LUSDDebt + defaultPool.LUSDDebt
      BY <1>6 DEF PoolsOK
    <3>2. w + g + p = activePool.LUSDDebt + defaultPool.LUSDDebt - off
      BY <3>1, <1>11, <1>7, <1>13 DEF w, g, p
    <3>3. activePool'.LUSDDebt + defaultPool'.LUSDDebt
            = activePool.LUSDDebt + defaultPool.LUSDDebt - off
      BY <1>11, <1>7, <1>10
    <3>4. QED BY <3>2, <3>3, <1>16
  <2>3. QED BY <1>16, <1>9, <1>10, <2>1, <2>2 DEF PoolsOK
<1>18. RewardsOK(rewardSnapshots', L', lastError')
  BY <1>1, RedistributeOK DEF FinishLiquidation
<1>19. BookOK(Troves', TroveOwners', sortedTroves')
  BY <1>1 DEF FinishLiquidation, CurrentOK
<1>20. StakesOK(totalStakes', totalStakesSnapshot', totalCollateralSnapshot')
  BY <1>1, <1>11 DEF FinishLiquidation, CurrentOK, StakesOK
<1>21. CurrentOK'
  BY <1>17, <1>18, <1>19, <1>20 DEF CurrentOK
<1>22. CommittedOK'
  BY <1>21, CommitOK DEF FinishLiquidation, Return
<1>23. LocalOK'
  BY <1>1, ReturnOK DEF FinishLiquidation, Return, LocalOK
<1>24. QED BY <1>21, <1>22, <1>23 DEF IInv

-----------------------------------------------------------------------------
(* Redemption *)

\* BeginRedemption keeps the invariant: both ways to find the first trove end
\* on a listed one.
LEMMA BeginRedemptionOK ==
    ASSUME IInv, NEW amount \in Nat, NEW b \in Borrowers, BeginRedemption(amount, b)
    PROVE  IInv'
<1>1. CurrentOK' /\ CommittedOK'
  BY SameLedgerOK DEF BeginRedemption
<1>2. UNCHANGED <<price, totals, sortedTroves>>
  BY DEF BeginRedemption, book
<1>3. CurrentOK /\ LocalOK
  BY DEF IInv
<1>4. b \in ToSet(sortedTroves)
  BY DEF BeginRedemption, ValidFirstRedemptionHint, FirstAboveMCR
<1>5. tx' \in TxRecords /\ tx'.user = b /\ tx'.op = "redemption"
  BY DEF BeginRedemption, IdleTx, TxRecords, Users
<1>6. redemption' \in [DOMAIN NoRedemption -> Nat]
  BY RedemptionIs DEF BeginRedemption
<1>7. ~InRecovery'
  BY <1>5 DEF InRecovery, Liquidating
<1>8. QED BY <1>1, <1>2, <1>3, <1>4, <1>5, <1>6, <1>7 DEF IInv, LocalOK

\* The trove a redemption looks at is active, and the amounts taken from it
\* and left to it are natural numbers.
LEMMA LookedAt ==
    ASSUME IInv, NEW b \in Borrowers, Looking(b), Redeemable(b)
    PROVE  /\ Active(b)
           /\ Lot(b) \in Nat /\ ETHLot(b) \in Nat /\ NewDebt(b) \in Nat /\ NewColl(b) \in Nat
           /\ NewDebt(b) = AppliedTrove(b).debt - Lot(b)
           /\ Lot(b) <= redemption.remainingLUSD
           /\ Tally(b) \in [DOMAIN NoRedemption -> Nat]
<1>1. CurrentOK /\ LocalOK
  BY DEF IInv
<1>2. /\ redemption.remainingLUSD \in Nat /\ redemption.totalLUSDToRedeem \in Nat
      /\ redemption.totalETHDrawn \in Nat /\ price \in Nat /\ price > 0
  BY <1>1, RedemptionIs, ConstantFacts DEF LocalOK
<1>3. Active(b)
  <2>1. b \in ToSet(sortedTroves)
    BY <1>1, BorrowersAssumption DEF Looking, LocalOK, WalksTheList
  <2>2. QED BY <1>1, <2>1, ListedAt DEF CurrentOK
<1> DEFINE c == AppliedTrove(b).coll
           d == AppliedTrove(b).debt
<1>4. c \in Nat /\ d \in Nat /\ d >= LUSD_GAS_COMPENSATION /\ c >= ETHLot(b)
  BY <1>1, AppliedTroveIs DEF Redeemable
<1> HIDE DEF c, d
<1>5. Lot(b) = Min2(redemption.remainingLUSD, d - LUSD_GAS_COMPENSATION)
  BY DEF Lot, d
<1>6. Lot(b) \in Nat /\ Lot(b) <= redemption.remainingLUSD /\ Lot(b) <= d
  BY <1>2, <1>4, <1>5, ConstantFacts DEF Min2
<1>7. ETHLot(b) \in Nat
  <2>1. Lot(b) * DECIMAL_PRECISION \in Nat
    BY <1>6, ConstantFacts
  <2>2. QED BY <2>1, <1>2, DivNat DEF ETHLot
<1>8. NewDebt(b) = d - Lot(b) /\ NewColl(b) = c - ETHLot(b)
  BY DEF NewDebt, NewColl, c, d
<1>9. Tally(b) \in [DOMAIN NoRedemption -> Nat]
  BY <1>2, <1>6, <1>7, RedemptionIs DEF Tally
<1>10. QED BY <1>3, <1>4, <1>6, <1>7, <1>8, <1>9 DEF d

\* RedeemWholeTrove keeps the invariant: the reserve is burnt with the debt
\* it covers.
LEMMA RedeemWholeTroveOK ==
    ASSUME IInv, NEW b \in Borrowers, RedeemWholeTrove(b)
    PROVE  IInv'
<1>0. CurrentOK /\ CommittedOK /\ LocalOK
  BY DEF IInv
<1>1. Active(b) /\ NewColl(b) \in Nat /\ Tally(b) \in [DOMAIN NoRedemption -> Nat]
  BY LookedAt DEF RedeemWholeTrove
<1> DEFINE leaves == Amount(NewColl(b), LUSD_GAS_COMPENSATION)
<1>2. /\ Covers(Plus(activePool, Applied(b)), leaves)
      /\ Covers(defaultPool, Applied(b))
      /\ arth.gasPool >= LUSD_GAS_COMPENSATION
      /\ CloseTrove(b, "closedByRedemption")
      /\ defaultPool' = Minus(defaultPool, Applied(b))
      /\ activePool' = Minus(Plus(activePool, Applied(b)), leaves)
      /\ surplusPool' = [ETH |-> surplusPool.ETH + NewColl(b),
                         balances |-> AccountSurplus(b, NewColl(b))]
      /\ arth' = [arth EXCEPT !.gasPool = @ - LUSD_GAS_COMPENSATION]
      /\ redemption' = Tally(b) /\ tx' = [tx EXCEPT !.user = GetPrev(b)]
      /\ UNCHANGED <<snapshots, rewards, price, totals, committed>>
  BY DEF RedeemWholeTrove, Redeemable
<1>3. BookOK(Troves', TroveOwners', sortedTroves')
  BY <1>0, <1>1, <1>2, CloseKeepsBook DEF ClosedStatuses, CurrentOK
<1>4. /\ RewardsOK(rewardSnapshots', L', lastError')
      /\ StakesOK(totalStakes', totalStakesSnapshot', totalCollateralSnapshot')
  BY <1>0, <1>2, CloseKeepsRest
<1>5. PoolsOK(activePool', defaultPool', surplusPool', arth')
  <2>1. PoolsOK(activePool, defaultPool, surplusPool, arth) /\ Applied(b) \in Amounts
    BY <1>0, PendingAmounts DEF CurrentOK
  <2>2. leaves \in Amounts /\ leaves.LUSDDebt = LUSD_GAS_COMPENSATION
    BY <1>1, ConstantFacts DEF Amount, Amounts
  <2> HIDE DEF leaves
  <2>3. /\ Plus(activePool, Applied(b)) \in Amounts
        /\ Plus(activePool, Applied(b)).LUSDDebt = activePool.LUSDDebt + Applied(b).LUSDDebt
        /\ Applied(b).LUSDDebt \in Nat /\ activePool.LUSDDebt \in Nat
        /\ defaultPool.LUSDDebt \in Nat
    BY <2>1, AmountArithmetic DEF PoolsOK
  <2>4. /\ activePool' \in Amounts /\ defaultPool' \in Amounts
        /\ activePool'.LUSDDebt
             = activePool.LUSDDebt + Applied(b).LUSDDebt - LUSD_GAS_COMPENSATION
        /\ defaultPool'.LUSDDebt = defaultPool.LUSDDebt - Applied(b).LUSDDebt
    <3> DEFINE p == Plus(activePool, Applied(b))
    <3>1. p \in Amounts /\ p.LUSDDebt = activePool.LUSDDebt + Applied(b).LUSDDebt
      BY <2>3
    <3>2. Covers(p, leaves) /\ activePool' = Minus(p, leaves)
      BY <1>2
    <3> HIDE DEF p
    <3>3. activePool' \in Amounts /\ activePool'.LUSDDebt = p.LUSDDebt - leaves.LUSDDebt
      BY <2>2, <3>1, <3>2, AmountArithmetic
    <3>4. defaultPool \in Amounts
      BY <2>1 DEF PoolsOK
    <3>5. /\ defaultPool' \in Amounts
          /\ defaultPool'.LUSDDebt = defaultPool.LUSDDebt - Applied(b).LUSDDebt
      BY <1>2, <2>1, <3>4, AmountArithmetic
    <3>6. QED BY <2>2, <2>3, <3>1, <3>3, <3>5, ConstantFacts
  <2>5. surplusPool' \in [ETH : Nat, balances : [Borrowers -> Nat]]
    <3>1. AccountSurplus(b, NewColl(b)) \in [Borrowers -> Nat]
      BY <1>1, <2>1 DEF AccountSurplus, PoolsOK
    <3>2. QED BY <3>1, <1>1, <1>2, <2>1 DEF PoolsOK
  <2>6. /\ arth' \in [wallets : Nat, gasPool : Nat, stabilityPool : Nat]
        /\ arth'.wallets + arth'.gasPool + arth'.stabilityPool
             = arth.wallets + arth.gasPool + arth.stabilityPool - LUSD_GAS_COMPENSATION
    BY <1>2, <2>1, ConstantFacts DEF PoolsOK
  <2>7. arth'.wallets + arth'.gasPool + arth'.stabilityPool
          = activePool'.LUSDDebt + defaultPool'.LUSDDebt
    BY <2>1, <2>3, <2>4, <2>6, ConstantFacts DEF PoolsOK
  <2>8. QED BY <2>4, <2>5, <2>6, <2>7 DEF PoolsOK
<1>6. CurrentOK'
  BY <1>3, <1>4, <1>5 DEF CurrentOK
<1>7. sortedTroves' = Unlisted(b)
  BY <1>2 DEF CloseTrove
<1>8. GetPrev(b) \in ToSet(sortedTroves') \union {NONE} /\ GetPrev(b) \in Users
  BY <1>0, <1>1, <1>7, NextListed
<1>9. /\ tx' \in TxRecords /\ tx'.user = GetPrev(b) /\ tx'.op = "redemption"
  BY <1>0, <1>2, <1>8 DEF LocalOK, TxRecords, RedeemWholeTrove, Looking, Redeeming
<1>10. LocalOK'
  <2>1. ~InRecovery'
    BY <1>9 DEF InRecovery, Liquidating
  <2>2. redemption' \in [DOMAIN NoRedemption -> Nat]
    BY <1>1, <1>2
  <2>3. QED BY <2>1, <2>2, <1>0, <1>2, <1>8, <1>9 DEF LocalOK
<1>11. QED BY <1>0, <1>2, <1>6, <1>10 DEF IInv, CommittedOK

\* RedeemPart keeps the invariant.
LEMMA RedeemPartOK ==
    ASSUME IInv, NEW b \in Borrowers, RedeemPart(b)
    PROVE  IInv'
<1> DEFINE stake == ComputeNewStake(NewColl(b))
<1>0. CurrentOK /\ CommittedOK /\ LocalOK
  BY DEF IInv
<1>1. /\ Active(b) /\ NewColl(b) \in Nat /\ NewDebt(b) \in Nat
      /\ Tally(b) \in [DOMAIN NoRedemption -> Nat]
  BY LookedAt DEF RedeemPart
<1>2. stake \in Nat
  BY <1>0, <1>1, StakeNat
<1>3. /\ sortedTroves' \in Insertions(Unlisted(b), b, ComputeNominalCR(NewColl(b), NewDebt(b)))
      /\ Troves' = [Troves EXCEPT ![b].coll = NewColl(b), ![b].debt = NewDebt(b),
                                  ![b].stake = stake]
      /\ totalStakes >= Troves[b].stake
      /\ totalStakes' = totalStakes - Troves[b].stake + stake
      /\ rewardSnapshots' = [rewardSnapshots EXCEPT ![b] = AppliedSnapshot(b)]
      /\ Covers(defaultPool, Applied(b))
      /\ defaultPool' = Minus(defaultPool, Applied(b))
      /\ activePool' = Plus(activePool, Applied(b))
      /\ redemption' = Tally(b) /\ tx' = [tx EXCEPT !.user = GetPrev(b)]
      /\ UNCHANGED <<TroveOwners, snapshots, rewards, surplusPool, arth, price, totals, committed>>
  <2>1. Troves' = [Troves EXCEPT ![b].debt = NewDebt(b), ![b].coll = NewColl(b),
                                 ![b].stake = stake]
    BY DEF RedeemPart
  <2>2. Troves \in [Borrowers -> TroveRecords]
    BY <1>0 DEF CurrentOK, BookOK
  <2> HIDE DEF stake
  <2>3. Troves' = [Troves EXCEPT ![b].coll = NewColl(b), ![b].debt = NewDebt(b),
                                 ![b].stake = stake]
    BY <2>1, <2>2 DEF TroveRecords
  <2>4. QED BY <2>3 DEF RedeemPart, Redeemable, stake
<1> HIDE DEF stake
<1>4. SameEntries(Troves', b)
  BY <1>0, <1>1, <1>2, <1>3, RewriteIs
<1>5. BookOK(Troves', TroveOwners', sortedTroves') /\ ToSet(sortedTroves') = ToSet(sortedTroves)
  BY <1>0, <1>1, <1>3, <1>4, ResortKeepsBook DEF CurrentOK
<1>6. RewardsOK(rewardSnapshots', L', lastError')
  BY <1>0, <1>3, AppliedSnapshotOK DEF rewards
<1>7. StakesOK(totalStakes', totalStakesSnapshot', totalCollateralSnapshot')
  BY <1>0, <1>2, <1>3, RestakedIs
<1>8. PoolsOK(activePool', defaultPool', surplusPool', arth')
  <2>1. arth' = arth /\ surplusPool' = surplusPool
    BY <1>3
  <2>2. QED BY <2>1, <1>0, <1>3, MovedRewards DEF PoolsOK
<1>9. CurrentOK'
  BY <1>5, <1>6, <1>7, <1>8 DEF CurrentOK
<1>10. GetPrev(b) \in ToSet(sortedTroves') \union {NONE} /\ GetPrev(b) \in Users
  <2>1. BookOK(Troves, TroveOwners, sortedTroves) /\ b \in ToSet(sortedTroves)
    BY <1>0, <1>1, ActiveListed DEF CurrentOK
  <2>2. GetPrev(b) \in ToSet(Unlisted(b)) \union {NONE} /\ ToSet(Unlisted(b)) \subseteq ToSet(sortedTroves)
    BY <2>1, UnlistedIs
  <2>3. ToSet(sortedTroves) \subseteq Borrowers
    BY <2>1, ListedAt
  <2>4. QED BY <2>2, <2>3, <1>5 DEF Users
<1>11. tx' \in TxRecords /\ tx'.user = GetPrev(b) /\ tx'.op = "redemption"
  BY <1>0, <1>3, <1>10 DEF LocalOK, TxRecords, RedeemPart, Looking, Redeeming
<1>12. LocalOK'
  <2>1. ~InRecovery'
    BY <1>11 DEF InRecovery, Liquidating
  <2>2. redemption' \in [DOMAIN NoRedemption -> Nat]
    BY <1>1, <1>3
  <2>3. QED BY <2>1, <2>2, <1>0, <1>3, <1>10, <1>11 DEF LocalOK
<1>13. QED BY <1>0, <1>3, <1>9, <1>12 DEF IInv, CommittedOK

\* CancelPartial keeps the invariant.
LEMMA CancelPartialOK ==
    ASSUME IInv, NEW b \in Borrowers, CancelPartial(b)
    PROVE  IInv'
<1>0. CurrentOK /\ CommittedOK /\ LocalOK
  BY DEF IInv
<1>1. Active(b)
  BY LookedAt DEF CancelPartial
<1>2. /\ Troves' = [Troves EXCEPT ![b] = AppliedTrove(b)]
      /\ rewardSnapshots' = [rewardSnapshots EXCEPT ![b] = AppliedSnapshot(b)]
      /\ Covers(defaultPool, Applied(b))
      /\ defaultPool' = Minus(defaultPool, Applied(b))
      /\ activePool' = Plus(activePool, Applied(b))
      /\ tx' = [tx EXCEPT !.user = NONE]
      /\ UNCHANGED <<TroveOwners, sortedTroves, totalStakes, snapshots, rewards, surplusPool,
                     arth, price, totals, redemption, committed>>
  BY DEF CancelPartial, Redeemable
<1>3. SameEntries(Troves', b)
  <2>1. /\ AppliedTrove(b) \in TroveRecords /\ AppliedTrove(b).status = Troves[b].status
        /\ AppliedTrove(b).arrayIndex = Troves[b].arrayIndex
    BY <1>0, AppliedTroveIs
  <2>2. Troves \in [Borrowers -> TroveRecords]
    BY <1>0 DEF CurrentOK, BookOK
  <2>3. QED BY <2>1, <2>2, <1>2 DEF SameEntries
<1>4. BookOK(Troves', TroveOwners', sortedTroves')
  <2>1. /\ BookOK(Troves, TroveOwners, sortedTroves)
        /\ sortedTroves \in Seq(Borrowers) /\ Distinct(sortedTroves)
    BY <1>0 DEF CurrentOK, BookOK, OwnersMatch, Distinct
  <2>2. BookOK(Troves', TroveOwners, sortedTroves)
    BY <2>1, <1>1, <1>3, RewriteKeepsBook
  <2>3. QED BY <2>2, <1>2
<1>5. RewardsOK(rewardSnapshots', L', lastError')
  BY <1>0, <1>2, AppliedSnapshotOK DEF rewards
<1>6. StakesOK(totalStakes', totalStakesSnapshot', totalCollateralSnapshot')
  BY <1>0, <1>2 DEF CurrentOK, snapshots
<1>7. PoolsOK(activePool', defaultPool', surplusPool', arth')
  <2>1. arth' = arth /\ surplusPool' = surplusPool
    BY <1>2
  <2>2. QED BY <2>1, <1>0, <1>2, MovedRewards DEF PoolsOK
<1>8. tx' \in TxRecords /\ tx'.user = NONE /\ tx'.op = "redemption"
  BY <1>0, <1>2 DEF LocalOK, TxRecords, Users, CancelPartial, Looking, Redeeming
<1>9. LocalOK'
  <2>1. ~InRecovery'
    BY <1>8 DEF InRecovery, Liquidating
  <2>2. QED BY <2>1, <1>0, <1>2, <1>8 DEF LocalOK
<1>10. QED BY <1>0, <1>2, <1>4, <1>5, <1>6, <1>7, <1>9 DEF IInv, CurrentOK, CommittedOK

\* FinishRedemption keeps the invariant: the debt that was redeemed is burnt.
LEMMA FinishRedemptionOK == ASSUME IInv, FinishRedemption PROVE IInv'
<1>0. CurrentOK /\ LocalOK
  BY DEF IInv
<1> DEFINE e == redemption.totalETHDrawn
           r == redemption.totalLUSDToRedeem
           w == arth.wallets - r
<1>1. e \in Nat /\ r \in Nat
  BY <1>0, RedemptionIs DEF LocalOK
<1> HIDE DEF e, r
<1>2. /\ Covers(activePool, Amount(e, r)) /\ activePool' = Minus(activePool, Amount(e, r))
      /\ arth.wallets >= r /\ arth' = [arth EXCEPT !.wallets = w]
      /\ UNCHANGED <<book, defaultPool, surplusPool>>
  BY DEF FinishRedemption, e, r
<1>3. PoolsOK(activePool, defaultPool, surplusPool, arth)
  BY <1>0 DEF CurrentOK
<1>4. /\ activePool' \in Amounts /\ activePool'.LUSDDebt = activePool.LUSDDebt - r
      /\ activePool.LUSDDebt \in Nat /\ defaultPool.LUSDDebt \in Nat
  <2>1. Amount(e, r) \in Amounts /\ Amount(e, r).LUSDDebt = r
    BY <1>1 DEF Amount, Amounts
  <2>2. activePool \in Amounts /\ defaultPool \in Amounts
    BY <1>3 DEF PoolsOK
  <2>3. /\ activePool' \in Amounts
        /\ activePool'.LUSDDebt = activePool.LUSDDebt - Amount(e, r).LUSDDebt
    BY <2>1, <2>2, <1>2, AmountArithmetic
  <2>4. QED BY <2>1, <2>2, <2>3 DEF Amounts
<1>5. /\ arth \in [wallets : Nat, gasPool : Nat, stabilityPool : Nat]
      /\ arth.wallets \in Nat /\ arth.gasPool \in Nat /\ arth.stabilityPool \in Nat
  BY <1>3 DEF PoolsOK
<1>6. w \in Nat
  BY <1>1, <1>2, <1>5
<1> HIDE DEF w
<1>7. /\ arth' \in [wallets : Nat, gasPool : Nat, stabilityPool : Nat]
      /\ arth'.wallets = w /\ arth'.gasPool = arth.gasPool
      /\ arth'.stabilityPool = arth.stabilityPool
  BY <1>2, <1>5, <1>6
<1>8. PoolsOK(activePool', defaultPool', surplusPool', arth')
  <2>1. arth.wallets + arth.gasPool + arth.stabilityPool
          = activePool.LUSDDebt + defaultPool.LUSDDebt
    BY <1>3 DEF PoolsOK
  <2>2. arth'.wallets + arth'.gasPool + arth'.stabilityPool
          = activePool'.LUSDDebt + defaultPool'.LUSDDebt
    <3>1. defaultPool' = defaultPool
      BY <1>2
    <3>2. QED BY <2>1, <3>1, <1>1, <1>4, <1>5, <1>7 DEF w
  <2>3. QED BY <2>2, <1>2, <1>3, <1>4, <1>7 DEF PoolsOK
<1>9. CurrentOK'
  BY <1>0, <1>2, <1>8 DEF CurrentOK, book, snapshots, rewards
<1>10. CommittedOK'
  BY <1>9, CommitOK DEF FinishRedemption, Return
<1>11. LocalOK'
  BY <1>0, ReturnOK DEF FinishRedemption, Return, LocalOK
<1>12. QED BY <1>9, <1>10, <1>11 DEF IInv

-----------------------------------------------------------------------------
(* Borrowers, depositors and the price feed *)

\* OpenTrove keeps the invariant: the debt is the ARTH paid out, the fee and
\* the reserve.
LEMMA OpenTroveOK ==
    ASSUME IInv, NEW b \in Borrowers, NEW coll \in Nat, NEW amount \in Nat, NEW fee \in Nat,
           OpenTrove(b, coll, amount, fee)
    PROVE  IInv'
<1> DEFINE netDebt == amount + fee
           debt == CompositeDebt(netDebt)
           stake == ComputeNewStake(Troves[b].coll + coll)
           r == [status |-> "active", coll |-> Troves[b].coll + coll,
                 debt |-> Troves[b].debt + debt, stake |-> stake,
                 arrayIndex |-> Len(TroveOwners)]
<1>0. CurrentOK /\ LocalOK /\ Troves \in [Borrowers -> TroveRecords]
  BY DEF IInv, CurrentOK, BookOK
<1>1. /\ ~Active(b) /\ Idle
      /\ Troves' = [Troves EXCEPT ![b] = r]
      /\ totalStakes' = totalStakes - Troves[b].stake + Troves'[b].stake
      /\ rewardSnapshots' = [rewardSnapshots EXCEPT ![b] = L]
      /\ sortedTroves' \in Insertions(sortedTroves, b, ComputeNominalCR(coll, debt))
      /\ TroveOwners' = AddTroveOwner(b)
      /\ activePool' = Plus(activePool, Amount(coll, debt))
      /\ arth' = [arth EXCEPT !.wallets = @ + netDebt, !.gasPool = @ + LUSD_GAS_COMPENSATION]
      /\ UNCHANGED <<snapshots, rewards, defaultPool, surplusPool, price, local>>
      /\ Commit
  BY <1>0 DEF OpenTrove, Begin
<1>2. /\ netDebt \in Nat /\ debt \in Nat /\ debt = netDebt + LUSD_GAS_COMPENSATION
  BY ConstantFacts DEF CompositeDebt
<1>3. Troves[b].coll + coll \in Nat /\ Troves[b].debt + debt \in Nat
  BY <1>0, <1>2, PendingAmounts
<1>4. stake \in Nat
  <2> DEFINE c == Troves[b].coll + coll
  <2>1. c \in Nat
    BY <1>3
  <2> HIDE DEF c
  <2>2. QED BY <2>1, <1>0, StakeNat DEF c
<1> HIDE DEF stake, debt, netDebt
<1>5. r \in TroveRecords /\ r.status = "active" /\ r.arrayIndex = Len(TroveOwners) /\ r.stake = stake
  <2>1. Len(TroveOwners) \in Nat
    BY <1>0, LenProperties DEF CurrentOK, BookOK
  <2>2. QED BY <2>1, <1>3, <1>4 DEF TroveRecords
<1> HIDE DEF r
<1>6. BookOK(Troves', TroveOwners', sortedTroves')
  BY <1>0, <1>1, <1>5, OpenKeepsBook DEF CurrentOK
<1>7. RewardsOK(rewardSnapshots', L', lastError')
  <2>1. RewardsOK(rewardSnapshots, L, lastError) /\ L' = L /\ lastError' = lastError
    BY <1>0, <1>1 DEF CurrentOK, rewards
  <2>2. Covers(L, L)
    BY <2>1 DEF RewardsOK, Covers, Amounts
  <2>3. QED BY <2>1, <2>2, <1>1 DEF RewardsOK
<1>8. StakesOK(totalStakes', totalStakesSnapshot', totalCollateralSnapshot')
  <2>1. Troves[b].stake = 0
    BY <1>0, <1>1 DEF CurrentOK, BookOK, Active
  <2>2. Troves'[b].stake = stake
    BY <1>0, <1>1, <1>5
  <2>3. QED BY <2>1, <2>2, <1>0, <1>1, <1>4 DEF CurrentOK, StakesOK, snapshots
<1>9. PoolsOK(activePool', defaultPool', surplusPool', arth')
  <2>1. PoolsOK(activePool, defaultPool, surplusPool, arth)
    BY <1>0 DEF CurrentOK
  <2>2. Amount(coll, debt) \in Amounts /\ Amount(coll, debt).LUSDDebt = debt
    BY <1>2 DEF Amount, Amounts
  <2>3. activePool \in Amounts
    BY <2>1 DEF PoolsOK
  <2>4. activePool' \in Amounts /\ activePool'.LUSDDebt = activePool.LUSDDebt + debt
    BY <2>2, <2>3, <1>1, AmountArithmetic
  <2>5. /\ activePool.LUSDDebt \in Nat /\ defaultPool.LUSDDebt \in Nat
        /\ arth.wallets \in Nat /\ arth.gasPool \in Nat /\ arth.stabilityPool \in Nat
        /\ arth \in [wallets : Nat, gasPool : Nat, stabilityPool : Nat]
    BY <2>1 DEF PoolsOK, Amounts
  <2>6. /\ arth.wallets + netDebt \in Nat /\ arth.gasPool + LUSD_GAS_COMPENSATION \in Nat
    BY <2>5, <1>2, ConstantFacts
  <2>7. /\ arth' \in [wallets : Nat, gasPool : Nat, stabilityPool : Nat]
        /\ arth'.wallets = arth.wallets + netDebt
        /\ arth'.gasPool = arth.gasPool + LUSD_GAS_COMPENSATION
        /\ arth'.stabilityPool = arth.stabilityPool
    BY <2>5, <2>6, <1>1
  <2>8. arth'.wallets + arth'.gasPool + arth'.stabilityPool
          = activePool'.LUSDDebt + defaultPool'.LUSDDebt
    <3>1. arth.wallets + arth.gasPool + arth.stabilityPool
            = activePool.LUSDDebt + defaultPool.LUSDDebt /\ defaultPool' = defaultPool
      BY <2>1, <1>1 DEF PoolsOK
    <3>2. QED BY <3>1, <2>4, <2>5, <2>7, <1>2, ConstantFacts
  <2>9. QED BY <2>1, <2>4, <2>7, <2>8, <1>1 DEF PoolsOK
<1>10. CurrentOK'
  BY <1>6, <1>7, <1>8, <1>9 DEF CurrentOK
<1>11. CommittedOK'
  BY <1>1, <1>10, CommitOK
<1>12. LocalOK'
  BY <1>0, <1>1, IdleLocalOK DEF LocalOK
<1>13. QED BY <1>10, <1>11, <1>12 DEF IInv

\* AdjustTrove keeps the invariant.
LEMMA AdjustTroveOK ==
    ASSUME IInv, NEW b \in Borrowers, NEW w \in Nat, NEW t \in Nat, NEW d \in Nat,
           NEW inc \in BOOLEAN, NEW fee \in Nat, AdjustTrove(b, w, t, d, inc, fee)
    PROVE  IInv'
<1> DEFINE before == AppliedTrove(b)
           into == Amount(t, IF inc THEN d + fee ELSE 0)
           out == Amount(w, IF inc THEN 0 ELSE d)
           newColl == before.coll + into.ETH - out.ETH
           newDebt == before.debt + into.LUSDDebt - out.LUSDDebt
           stake == ComputeNewStake(newColl)
<1>0. CurrentOK /\ LocalOK
  BY DEF IInv
<1>1. /\ Active(b) /\ Idle
      /\ Covers(defaultPool, Applied(b))
      /\ Covers(Amount(before.coll, before.debt), out)
      /\ ~inc /\ d > 0 => arth.wallets >= d
      /\ totalStakes >= Troves[b].stake
      /\ Troves' = [Troves EXCEPT ![b].coll = newColl, ![b].debt = newDebt, ![b].stake = stake]
      /\ totalStakes' = totalStakes - Troves[b].stake + stake
      /\ rewardSnapshots' = [rewardSnapshots EXCEPT ![b] = AppliedSnapshot(b)]
      /\ sortedTroves' \in Insertions(Unlisted(b), b, ComputeNominalCR(newColl, newDebt))
      /\ Covers(Plus(Plus(activePool, Applied(b)), into), out)
      /\ defaultPool' = Minus(defaultPool, Applied(b))
      /\ activePool' = Minus(Plus(Plus(activePool, Applied(b)), into), out)
      /\ arth' = [arth EXCEPT !.wallets = @ + into.LUSDDebt - out.LUSDDebt]
      /\ UNCHANGED <<TroveOwners, snapshots, rewards, surplusPool, price, local>>
      /\ Commit
  BY DEF AdjustTrove, Begin
<1>2. /\ into \in Amounts /\ out \in Amounts
      /\ into.ETH \in Nat /\ into.LUSDDebt \in Nat /\ out.ETH \in Nat /\ out.LUSDDebt \in Nat
  BY DEF Amount, Amounts
<1>3. arth.wallets \in Nat /\ arth.wallets + into.LUSDDebt - out.LUSDDebt \in Nat
  <2>1. arth.wallets \in Nat
    BY <1>0, <1>1, MovedRewards
  <2>2. out.LUSDDebt <= arth.wallets
    <3>1. CASE inc
      BY <3>1, <2>1 DEF Amount
    <3>2. CASE ~inc
      BY <3>2, <2>1, <1>1 DEF Amount
    <3>3. QED BY <3>1, <3>2
  <2> HIDE DEF into, out
  <2>3. QED BY <2>1, <2>2, <1>2
<1>4. newColl \in Nat /\ newDebt \in Nat
  <2>1. before.coll \in Nat /\ before.debt \in Nat
    BY <1>0, AppliedTroveIs
  <2>2. before.coll >= out.ETH /\ before.debt >= out.LUSDDebt
    <3> HIDE DEF before, out
    <3>1. QED BY <1>1 DEF Covers, Amount
  <2> HIDE DEF before, into, out
  <2>3. QED BY <2>1, <2>2, <1>2
<1> HIDE DEF before, into, out, newColl, newDebt
<1>5. stake \in Nat
  BY <1>0, <1>4, StakeNat
<1> HIDE DEF stake
<1>6. SameEntries(Troves', b)
  BY <1>0, <1>1, <1>4, <1>5, RewriteIs
<1>7. BookOK(Troves', TroveOwners', sortedTroves')
  BY <1>0, <1>1, <1>6, ResortKeepsBook DEF CurrentOK
<1>8. RewardsOK(rewardSnapshots', L', lastError')
  BY <1>0, <1>1, AppliedSnapshotOK DEF rewards
<1>9. StakesOK(totalStakes', totalStakesSnapshot', totalCollateralSnapshot')
  BY <1>0, <1>1, <1>5, RestakedIs
<1>10. PoolsOK(activePool', defaultPool', surplusPool', arth')
  <2> DEFINE p == Plus(activePool, Applied(b))
             q == Minus(defaultPool, Applied(b))
             x == arth.wallets + into.LUSDDebt - out.LUSDDebt
  <2>1. /\ p \in Amounts /\ q \in Amounts /\ p.LUSDDebt \in Nat /\ q.LUSDDebt \in Nat
        /\ p.LUSDDebt + q.LUSDDebt = arth.wallets + arth.gasPool + arth.stabilityPool
        /\ arth \in [wallets : Nat, gasPool : Nat, stabilityPool : Nat]
        /\ arth.gasPool \in Nat /\ arth.stabilityPool \in Nat
        /\ surplusPool \in [ETH : Nat, balances : [Borrowers -> Nat]]
    BY <1>0, <1>1, MovedRewards
  <2>2. Covers(Plus(p, into), out) /\ activePool' = Minus(Plus(p, into), out)
        /\ defaultPool' = q /\ arth' = [arth EXCEPT !.wallets = x]
    BY <1>1
  <2> HIDE DEF p, q
  <2>3. Plus(p, into) \in Amounts /\ Plus(p, into).LUSDDebt = p.LUSDDebt + into.LUSDDebt
    BY <2>1, <1>2, AmountArithmetic
  <2>4. activePool' \in Amounts /\ activePool'.LUSDDebt = p.LUSDDebt + into.LUSDDebt - out.LUSDDebt
    <3> DEFINE m == Plus(p, into)
    <3>1. m \in Amounts /\ m.LUSDDebt = p.LUSDDebt + into.LUSDDebt
          /\ Covers(m, out) /\ activePool' = Minus(m, out)
      BY <2>2, <2>3
    <3> HIDE DEF m
    <3>2. Minus(m, out) \in Amounts /\ Minus(m, out).LUSDDebt = m.LUSDDebt - out.LUSDDebt
      BY <3>1, <1>2, AmountArithmetic
    <3>3. activePool' \in Amounts /\ activePool'.LUSDDebt = m.LUSDDebt - out.LUSDDebt
      BY <3>1, <3>2
    <3>4. QED BY <2>1, <3>1, <3>3, <1>2
  <2>5. x \in Nat /\ x = arth.wallets + into.LUSDDebt - out.LUSDDebt
    BY <1>3
  <2> HIDE DEF x
  <2>6. /\ arth' \in [wallets : Nat, gasPool : Nat, stabilityPool : Nat]
        /\ arth'.wallets = x /\ arth'.gasPool = arth.gasPool
        /\ arth'.stabilityPool = arth.stabilityPool
    BY <2>1, <2>2, <2>5
  <2>7. x + arth.gasPool + arth.stabilityPool
          = p.LUSDDebt + into.LUSDDebt - out.LUSDDebt + q.LUSDDebt
    BY <2>1, <2>5, <1>2, <1>3
  <2>8. surplusPool' = surplusPool
    BY <1>1
  <2>9. QED BY <2>1, <2>2, <2>4, <2>6, <2>7, <2>8 DEF PoolsOK
<1>11. CurrentOK'
  BY <1>7, <1>8, <1>9, <1>10 DEF CurrentOK
<1>12. CommittedOK'
  BY <1>1, <1>11, CommitOK
<1>13. LocalOK'
  BY <1>0, <1>1, IdleLocalOK DEF LocalOK
<1>14. QED BY <1>11, <1>12, <1>13 DEF IInv

\* CloseOwnTrove keeps the invariant.
LEMMA CloseOwnTroveOK ==
    ASSUME IInv, NEW b \in Borrowers, CloseOwnTrove(b)
    PROVE  IInv'
<1> DEFINE before == AppliedTrove(b)
           out == Amount(before.coll, before.debt)
           p == Plus(activePool, Applied(b))
           q == Minus(defaultPool, Applied(b))
           x == arth.wallets - (before.debt - LUSD_GAS_COMPENSATION)
           g == arth.gasPool - LUSD_GAS_COMPENSATION
<1>0. CurrentOK /\ LocalOK
  BY DEF IInv
<1>1. /\ Active(b) /\ Idle
      /\ Covers(defaultPool, Applied(b))
      /\ before.debt >= LUSD_GAS_COMPENSATION
      /\ arth.wallets >= before.debt - LUSD_GAS_COMPENSATION
      /\ arth.gasPool >= LUSD_GAS_COMPENSATION
      /\ Covers(p, out)
      /\ CloseTrove(b, "closedByOwner")
      /\ defaultPool' = q
      /\ activePool' = Minus(p, out)
      /\ arth' = [arth EXCEPT !.wallets = x, !.gasPool = g]
      /\ UNCHANGED <<snapshots, rewards, surplusPool, price, local>>
      /\ Commit
  BY DEF CloseOwnTrove, Begin
<1>2. before.coll \in Nat /\ before.debt \in Nat
  BY <1>0, AppliedTroveIs
<1> HIDE DEF before
<1>3. out \in Amounts /\ out.LUSDDebt = before.debt
  BY <1>2 DEF Amount, Amounts
<1>4. BookOK(Troves', TroveOwners', sortedTroves')
  BY <1>0, <1>1, CloseKeepsBook DEF ClosedStatuses, CurrentOK
<1>5. /\ RewardsOK(rewardSnapshots', L', lastError')
      /\ StakesOK(totalStakes', totalStakesSnapshot', totalCollateralSnapshot')
  BY <1>0, <1>1, CloseKeepsRest
<1>6. PoolsOK(activePool', defaultPool', surplusPool', arth')
  <2>1. /\ p \in Amounts /\ q \in Amounts /\ p.LUSDDebt \in Nat /\ q.LUSDDebt \in Nat
        /\ p.LUSDDebt + q.LUSDDebt = arth.wallets + arth.gasPool + arth.stabilityPool
        /\ arth \in [wallets : Nat, gasPool : Nat, stabilityPool : Nat]
        /\ arth.wallets \in Nat /\ arth.gasPool \in Nat /\ arth.stabilityPool \in Nat
        /\ surplusPool \in [ETH : Nat, balances : [Borrowers -> Nat]]
    BY <1>0, <1>1, MovedRewards
  <2> HIDE DEF p, q, out
  <2>2. activePool' \in Amounts /\ activePool'.LUSDDebt = p.LUSDDebt - before.debt
    BY <2>1, <1>1, <1>3, AmountArithmetic
  <2>3. x \in Nat /\ g \in Nat
    BY <2>1, <1>1, <1>2, ConstantFacts
  <2>4. x + g + arth.stabilityPool = p.LUSDDebt - before.debt + q.LUSDDebt
    BY <2>1, <1>2, ConstantFacts
  <2> HIDE DEF x, g
  <2>5. /\ arth' \in [wallets : Nat, gasPool : Nat, stabilityPool : Nat]
        /\ arth'.wallets = x /\ arth'.gasPool = g
        /\ arth'.stabilityPool = arth.stabilityPool
    BY <2>1, <2>3, <1>1
  <2>6. QED BY <2>1, <2>2, <2>4, <2>5, <1>1 DEF PoolsOK
<1>7. CurrentOK'
  BY <1>4, <1>5, <1>6 DEF CurrentOK
<1>8. CommittedOK'
  BY <1>1, <1>7, CommitOK
<1>9. LocalOK'
  BY <1>0, <1>1, IdleLocalOK DEF LocalOK
<1>10. QED BY <1>7, <1>8, <1>9 DEF IInv

\* ClaimCollateral keeps the invariant.
LEMMA ClaimCollateralOK ==
    ASSUME IInv, NEW b \in Borrowers, ClaimCollateral(b)
    PROVE  IInv'
<1>0. CurrentOK /\ LocalOK
  BY DEF IInv
<1>1. PoolsOK(activePool, defaultPool, surplusPool, arth)
  BY <1>0 DEF CurrentOK
<1> DEFINE e == surplusPool.ETH - surplusPool.balances[b]
           f == [surplusPool.balances EXCEPT ![b] = 0]
<1>2. e \in Nat /\ f \in [Borrowers -> Nat]
  BY <1>1 DEF PoolsOK, ClaimCollateral
<1>3. surplusPool' = [ETH |-> e, balances |-> f] /\ arth' = arth
  BY DEF ClaimCollateral
<1> HIDE DEF e, f
<1>4. UNCHANGED <<book, activePool, defaultPool>>
  BY DEF ClaimCollateral
<1>5. CurrentOK'
  BY <1>0, <1>1, <1>2, <1>3, <1>4, SurplusStepOK DEF PoolsOK
<1>6. CommittedOK'
  BY <1>5, CommitOK DEF ClaimCollateral
<1>7. LocalOK'
  BY <1>0, IdleLocalOK DEF LocalOK, ClaimCollateral
<1>8. QED BY <1>5, <1>6, <1>7 DEF IInv

\* Deposits and withdrawals keep the invariant.
LEMMA StabilityPoolStepOK ==
    ASSUME IInv, NEW amount \in Nat, ProvideToSP(amount) \/ WithdrawFromSP(amount)
    PROVE  IInv'
<1>0. CurrentOK /\ LocalOK
  BY DEF IInv
<1>1. /\ arth \in [wallets : Nat, gasPool : Nat, stabilityPool : Nat]
      /\ arth.wallets \in Nat /\ arth.gasPool \in Nat /\ arth.stabilityPool \in Nat
      /\ surplusPool \in [ETH : Nat, balances : [Borrowers -> Nat]]
  BY <1>0 DEF CurrentOK, PoolsOK
<1>2. /\ Idle /\ surplusPool' = surplusPool /\ Commit
      /\ UNCHANGED <<book, activePool, defaultPool, price, local>>
  BY DEF ProvideToSP, WithdrawFromSP
<1>3. /\ arth' \in [wallets : Nat, gasPool : Nat, stabilityPool : Nat]
      /\ arth'.wallets + arth'.gasPool + arth'.stabilityPool
           = arth.wallets + arth.gasPool + arth.stabilityPool
  <2>1. CASE ProvideToSP(amount)
    <3> DEFINE w == arth.wallets - amount
               s == arth.stabilityPool + amount
    <3>1. w \in Nat /\ s \in Nat /\ w + s = arth.wallets + arth.stabilityPool
      BY <2>1, <1>1 DEF ProvideToSP
    <3>2. arth' = [arth EXCEPT !.wallets = w, !.stabilityPool = s]
      BY <2>1 DEF ProvideToSP
    <3> HIDE DEF w, s
    <3>3. /\ arth' \in [wallets : Nat, gasPool : Nat, stabilityPool : Nat]
          /\ arth'.wallets = w /\ arth'.gasPool = arth.gasPool /\ arth'.stabilityPool = s
      BY <3>1, <3>2, <1>1
    <3>4. QED BY <3>1, <3>3, <1>1
  <2>2. CASE WithdrawFromSP(amount)
    <3> DEFINE w == arth.wallets + amount
               s == arth.stabilityPool - amount
    <3>1. w \in Nat /\ s \in Nat /\ w + s = arth.wallets + arth.stabilityPool
      BY <2>2, <1>1 DEF WithdrawFromSP
    <3>2. arth' = [arth EXCEPT !.wallets = w, !.stabilityPool = s]
      BY <2>2 DEF WithdrawFromSP
    <3> HIDE DEF w, s
    <3>3. /\ arth' \in [wallets : Nat, gasPool : Nat, stabilityPool : Nat]
          /\ arth'.wallets = w /\ arth'.gasPool = arth.gasPool /\ arth'.stabilityPool = s
      BY <3>1, <3>2, <1>1
    <3>4. QED BY <3>1, <3>3, <1>1
  <2>3. QED BY <2>1, <2>2
<1>4. CurrentOK'
  BY <1>0, <1>1, <1>2, <1>3, SurplusStepOK
<1>5. CommittedOK'
  BY <1>2, <1>4, CommitOK
<1>6. LocalOK'
  BY <1>0, <1>2, IdleLocalOK DEF LocalOK
<1>7. QED BY <1>4, <1>5, <1>6 DEF IInv

\* A new price keeps the invariant.
LEMMA SetPriceOK == ASSUME IInv, NEW p \in Prices, SetPrice(p) PROVE IInv'
<1>1. CurrentOK' /\ CommittedOK'
  BY SameLedgerOK DEF SetPrice
<1>2. LocalOK'
  BY IdleLocalOK DEF IInv, SetPrice
<1>3. QED BY <1>1, <1>2 DEF IInv

\* A revert keeps the invariant.
LEMMA RevertStepOK == ASSUME IInv, Revert PROVE IInv'
<1>1. CurrentOK'
  BY RevertOK DEF IInv
<1>2. CommittedOK'
  BY DEF IInv, Revert, CommittedOK
<1>3. LocalOK'
  BY ReturnOK DEF IInv, Revert, LocalOK
<1>4. QED BY <1>1, <1>2, <1>3 DEF IInv

\* Nothing that the invariant depends on is outside of vars.
LEMMA StutterOK == ASSUME IInv, UNCHANGED vars PROVE IInv'
<1>1. CurrentOK' /\ CommittedOK'
  BY SameLedgerOK DEF vars
<1>2. UNCHANGED <<sortedTroves, price, tx, totals, redemption>>
  BY DEF vars, book, local
<1>3. LocalOK'
  BY <1>2 DEF IInv, LocalOK, InRecovery, Liquidating, TrackedTCR, WalksTheList, Redeeming, Sequence
<1>4. QED BY <1>1, <1>3 DEF IInv

\* Every step keeps the invariant.
LEMMA StepOK == IInv /\ [Next]_vars => IInv'
<1> SUFFICES ASSUME IInv, [Next]_vars PROVE IInv'
  OBVIOUS
<1>1. ASSUME NEW b \in Borrowers, NEW coll \in CollAmounts, NEW amount \in DebtAmounts,
             NEW fee \in BorrowingFees \union {0}, OpenTrove(b, coll, amount, fee)
      PROVE  IInv'
  BY <1>1, InputsAreNat, OpenTroveOK
<1>2. ASSUME NEW b \in Borrowers, AdjustOwnTrove(b) PROVE IInv'
  <2>1. PICK w \in CollChanges \union {0}, t \in CollChanges \union {0},
             d \in DebtChanges \union {0}, inc \in BOOLEAN, fee \in BorrowingFees \union {0} :
               AdjustTrove(b, w, t, d, inc, fee)
    BY <1>2 DEF AdjustOwnTrove
  <2>2. w \in Nat /\ t \in Nat /\ d \in Nat /\ fee \in Nat
    BY InputsAreNat
  <2>3. QED BY <2>1, <2>2, AdjustTroveOK
<1>3. ASSUME NEW b \in Borrowers, CloseOwnTrove(b) PROVE IInv'
  BY <1>3, CloseOwnTroveOK
<1>4. ASSUME NEW b \in Borrowers, ClaimCollateral(b) PROVE IInv'
  BY <1>4, ClaimCollateralOK
<1>5. CASE BorrowerStep
  BY <1>1, <1>2, <1>3, <1>4, <1>5 DEF BorrowerStep
<1>6. CASE LiquidationStep
  BY <1>6, BeginLiquidationOK, RecoveryStepOK, PassOverOK, NormalStepOK, FinishLiquidationOK
     DEF LiquidationStep
<1>7. CASE RedemptionStep
  BY <1>7, InputsAreNat, BeginRedemptionOK, RedeemWholeTroveOK, RedeemPartOK, CancelPartialOK,
     FinishRedemptionOK DEF RedemptionStep
<1>8. CASE EnvironmentStep
  BY <1>8, InputsAreNat, StabilityPoolStepOK, SetPriceOK DEF EnvironmentStep
<1>9. QED
  BY <1>5, <1>6, <1>7, <1>8, RevertStepOK, StutterOK DEF Next

-----------------------------------------------------------------------------
(* Theorems *)

\* The invariant holds in every state of every behaviour.
THEOREM LedgerInvariant == Spec => []IInv
<1>1. QED BY InitOK, StepOK, PTL DEF Spec

\* Storage and memory stay well typed: the subtractions that carry no guard
\* in the model (a snapshot from L, the parts of a liquidated trove from its
\* whole, a lot from a debt) never go below zero, so SafeMath never reverts
\* on them.
THEOREM LedgerTypes == Spec => []TypeOK
<1>1. IInv => TypeOK
  BY DEF IInv, CurrentOK, LocalOK, BookOK, RewardsOK, StakesOK, PoolsOK, TxRecords, Users, TypeOK
<1>2. QED BY <1>1, LedgerInvariant, PTL

\* The owners array, the index in each trove and the sorted list name the
\* same active troves, now and after a revert (_addTroveOwnerToArray,
\* _removeTroveOwner, _closeTrove, SortedTroves).
THEOREM OwnersStayConsistent == Spec => []OwnersConsistent
<1>1. IInv => OwnersConsistent
  BY DEF IInv, CurrentOK, CommittedOK, BookOK, OwnersConsistent
<1>2. QED BY <1>1, LedgerInvariant, PTL

\* All ARTH in existence is owed by a trove or redistributed debt, and the
\* other way round, in every state, also between the steps of a liquidation
\* or redemption.
THEOREM SupplyIsDebt == Spec => []SupplyEqualsDebt
<1>1. IInv => SupplyEqualsDebt
  <2> SUFFICES ASSUME IInv PROVE SupplyEqualsDebt
    OBVIOUS
  <2>1. PoolsOK(activePool, defaultPool, surplusPool, arth)
    BY DEF IInv, CurrentOK
  <2>2. QED BY <2>1 DEF PoolsOK, SupplyEqualsDebt, EntireSystemDebt
<1>2. QED BY <1>1, LedgerInvariant, PTL

-----------------------------------------------------------------------------
(* What a transaction keeps in memory *)

\* Only a liquidation has totals.
Settled == ~Liquidating => totals = NoTotals

\* The memory of a transaction under way keeps its operation.
LEMMA SameOperation ==
    ASSUME LocalOK, NEW b \in Borrowers,
           LiquidateInRecoveryMode(b) \/ PassOver(b) \/ LiquidateInNormalMode(b)
             \/ RedeemWholeTrove(b) \/ RedeemPart(b) \/ CancelPartial(b)
    PROVE  tx'.op = tx.op /\ tx'.recovery = tx.recovery
<1>1. tx \in TxRecords
  BY DEF LocalOK
<1>2. DOMAIN tx = {"op", "user", "first", "recovery", "back", "sp", "sysDebt", "sysColl"}
  BY <1>1 DEF TxRecords
<1>3. CASE LiquidateInRecoveryMode(b)
  BY <1>2, <1>3 DEF LiquidateInRecoveryMode
<1>4. CASE PassOver(b)
  BY <1>2, <1>4 DEF PassOver
<1>5. CASE LiquidateInNormalMode(b)
  BY <1>2, <1>5 DEF LiquidateInNormalMode
<1>6. CASE RedeemWholeTrove(b) \/ RedeemPart(b) \/ CancelPartial(b)
  BY <1>2, <1>6 DEF RedeemWholeTrove, RedeemPart, CancelPartial
<1>7. QED BY <1>3, <1>4, <1>5, <1>6

\* The operations of one step leave the memory of a transaction idle.
LEMMA OneStepTransactions ==
    ASSUME BorrowerStep \/ EnvironmentStep
    PROVE  Idle /\ UNCHANGED local
<1>1. ASSUME NEW b, NEW coll, NEW amount, NEW fee, OpenTrove(b, coll, amount, fee)
      PROVE  Idle /\ UNCHANGED local
  BY <1>1 DEF OpenTrove, Begin
<1>2. ASSUME NEW b, NEW w, NEW t, NEW d, NEW inc, NEW fee, AdjustTrove(b, w, t, d, inc, fee)
      PROVE  Idle /\ UNCHANGED local
  BY <1>2 DEF AdjustTrove, Begin
<1>3. ASSUME NEW b, CloseOwnTrove(b) \/ ClaimCollateral(b)
      PROVE  Idle /\ UNCHANGED local
  BY <1>3 DEF CloseOwnTrove, ClaimCollateral, Begin
<1>4. ASSUME NEW x, ProvideToSP(x) \/ WithdrawFromSP(x) \/ SetPrice(x)
      PROVE  Idle /\ UNCHANGED local
  BY <1>4 DEF ProvideToSP, WithdrawFromSP, SetPrice
<1>5. CASE BorrowerStep
  BY <1>1, <1>2, <1>3, <1>5 DEF BorrowerStep, AdjustOwnTrove
<1>6. CASE EnvironmentStep
  BY <1>4, <1>6 DEF EnvironmentStep
<1>7. QED BY <1>5, <1>6

\* No step leaves totals behind when its liquidation has ended.
LEMMA SettledStep ==
    ASSUME IInv, Settled, [Next]_vars
    PROVE  Settled'
<1>1. LocalOK
  BY DEF IInv
<1>2. CASE UNCHANGED local
  BY <1>2 DEF local, Settled, Liquidating
<1>3. CASE BorrowerStep \/ EnvironmentStep
  <2>1. UNCHANGED local
    BY <1>3, OneStepTransactions
  <2>2. QED BY <2>1, <1>2
<1>4. CASE LiquidationStep
  <2>1. ASSUME NEW op \in {"sequence", "batch"}, BeginLiquidation(op) PROVE Settled'
    BY <2>1 DEF BeginLiquidation, Settled, Liquidating
  <2>2. ASSUME NEW b \in Borrowers,
               LiquidateInRecoveryMode(b) \/ PassOver(b) \/ LiquidateInNormalMode(b)
        PROVE  Settled'
    <3>1. tx'.op = tx.op
      BY <2>2, <1>1, SameOperation
    <3>2. Liquidating
      BY <2>2 DEF LiquidateInRecoveryMode, PassOver, LiquidateInNormalMode, InRecovery
    <3>3. QED BY <3>1, <3>2 DEF Settled, Liquidating
  <2>3. CASE FinishLiquidation
    BY <2>3 DEF FinishLiquidation, Return, Settled
  <2>4. QED BY <2>1, <2>2, <2>3, <1>4 DEF LiquidationStep
<1>5. CASE RedemptionStep
  <2>1. ASSUME NEW b \in Borrowers, NEW amount, BeginRedemption(amount, b) PROVE Settled'
    <3>1. ~Liquidating /\ totals' = totals
      BY <2>1 DEF BeginRedemption, Begin, Idle, Liquidating
    <3>2. QED BY <3>1 DEF Settled
  <2>2. ASSUME NEW b \in Borrowers, RedeemWholeTrove(b) \/ RedeemPart(b) \/ CancelPartial(b)
        PROVE  Settled'
    <3>1. ~Liquidating /\ totals' = totals
      BY <2>2 DEF RedeemWholeTrove, RedeemPart, CancelPartial, Looking, Redeeming, Liquidating
    <3>2. QED BY <3>1 DEF Settled
  <2>3. CASE FinishRedemption
    BY <2>3 DEF FinishRedemption, Return, Settled
  <2>4. QED BY <2>1, <2>2, <2>3, <1>5 DEF RedemptionStep
<1>6. CASE Revert
  BY <1>6 DEF Revert, Settled
<1>7. CASE UNCHANGED vars
  BY <1>7, <1>2 DEF vars
<1>8. QED BY <1>3, <1>4, <1>5, <1>6, <1>7 DEF Next

\* Totals exist only while a liquidation is under way.
LEMMA TotalsSettle == Spec => [](IInv /\ Settled)
<1>1. Init => Settled
  BY DEF Init, Settled
<1>2. QED BY <1>1, InitOK, StepOK, SettledStep, PTL DEF Spec
-----------------------------------------------------------------------------

\* A trove closed in recovery mode by a sequence takes the same amounts off
\* the tracked totals that it adds to the values still to be sent
\* (_getTotalsFromLiquidateTrovesSequence_RecoveryMode).
LEMMA RecoveryStepTracks ==
    ASSUME IInv, NEW b \in Borrowers, LiquidateInRecoveryMode(b), Sequence, TracksSystem
    PROVE  TracksSystem'
<1> DEFINE v == RecoveryValues(b)
           t == TakenOff(v)
<1>0. CurrentOK /\ LocalOK
  BY DEF IInv
<1>1. v \in [DOMAIN NoTotals -> Nat]
  BY <1>0, RecoveryValuesOK DEF LiquidateInRecoveryMode
<1>2. v.DebtToOffset \in Nat /\ v.CollToSendToSP \in Nat /\ v.CollSurplus \in Nat
  BY <1>1, TotalsIs
<1>3. t = v.CollToSendToSP + v.CollSurplus
  BY DEF TakenOff
<1>4. /\ LiquidateTrove(b, v)
      /\ tx' = [tx EXCEPT !.user = NextUser(b), !.sp = @ - v.DebtToOffset,
                  !.sysDebt = @ - v.DebtToOffset, !.sysColl = @ - t,
                  !.back = BackToNormal(tx.sysDebt - v.DebtToOffset, tx.sysColl - t)]
  BY DEF LiquidateInRecoveryMode
<1> HIDE DEF v, t
<1>5. tx \in TxRecords /\ tx.sysDebt \in Nat /\ tx.sysColl \in Nat
  BY <1>0 DEF LocalOK, TxRecords
<1>6. tx'.sysDebt = tx.sysDebt - v.DebtToOffset /\ tx'.sysColl = tx.sysColl - t
  BY <1>4, <1>5 DEF TxRecords
<1>7. totals \in [DOMAIN NoTotals -> Nat]
  BY <1>0 DEF LocalOK
<1>8. /\ totals.DebtToOffset \in Nat /\ totals.CollToSendToSP \in Nat
      /\ totals.CollSurplus \in Nat
      /\ totals'.DebtToOffset = totals.DebtToOffset + v.DebtToOffset
      /\ totals'.CollToSendToSP = totals.CollToSendToSP + v.CollToSendToSP
      /\ totals'.CollSurplus = totals.CollSurplus + v.CollSurplus
  BY <1>4, <1>7, TotalsIs DEF LiquidateTrove, AddLiquidationValues
<1>9. EntireSystemDebt' = EntireSystemDebt /\ EntireSystemColl' = EntireSystemColl
  <2>1. /\ Pending(b) \in Amounts /\ activePool \in Amounts /\ defaultPool \in Amounts
    BY <1>0, PendingAmounts, SystemIs
  <2>2. /\ Covers(defaultPool, Pending(b))
        /\ defaultPool' = Minus(defaultPool, Pending(b))
        /\ activePool' = Plus(activePool, Pending(b))
    BY <1>4 DEF LiquidateTrove
  <2>3. /\ activePool'.ETH = activePool.ETH + Pending(b).ETH
        /\ activePool'.LUSDDebt = activePool.LUSDDebt + Pending(b).LUSDDebt
    BY <2>1, <2>2, AmountArithmetic
  <2>4. /\ defaultPool'.ETH = defaultPool.ETH - Pending(b).ETH
        /\ defaultPool'.LUSDDebt = defaultPool.LUSDDebt - Pending(b).LUSDDebt
    BY <2>1, <2>2, AmountArithmetic
  <2>5. /\ activePool.ETH \in Nat /\ activePool.LUSDDebt \in Nat
        /\ defaultPool.ETH \in Nat /\ defaultPool.LUSDDebt \in Nat
        /\ Pending(b).ETH \in Nat /\ Pending(b).LUSDDebt \in Nat
    BY <2>1 DEF Amounts
  <2>6. QED BY <2>3, <2>4, <2>5 DEF EntireSystemDebt, EntireSystemColl
<1>10. /\ tx.sysDebt + totals.DebtToOffset = EntireSystemDebt
       /\ tx.sysColl + totals.CollToSendToSP + totals.CollSurplus = EntireSystemColl
  BY DEF TracksSystem
<1>11. tx'.sysDebt + totals'.DebtToOffset = EntireSystemDebt
  BY <1>2, <1>5, <1>6, <1>8, <1>10
<1>12. tx'.sysColl + totals'.CollToSendToSP + totals'.CollSurplus = EntireSystemColl
  BY <1>2, <1>3, <1>5, <1>6, <1>8, <1>10
<1>13. QED BY <1>9, <1>11, <1>12 DEF TracksSystem

\* Every step keeps the tracked totals in step with the pools.
LEMMA TracksStep ==
    ASSUME IInv, Settled, SequenceTracksSystem, [Next]_vars
    PROVE  SequenceTracksSystem'
<1>1. LocalOK /\ CurrentOK
  BY DEF IInv
<1>2. CASE tx' = IdleTx
  BY <1>2 DEF IdleTx, SequenceTracksSystem, Sequence
<1>3. CASE Idle /\ UNCHANGED local
  BY <1>3 DEF local, Idle, SequenceTracksSystem, Sequence
<1>4. CASE BorrowerStep \/ EnvironmentStep
  <2>1. Idle /\ UNCHANGED local
    BY <1>4, OneStepTransactions
  <2>2. QED BY <2>1, <1>3
<1>5. CASE LiquidationStep
  <2>1. ASSUME NEW op \in {"sequence", "batch"}, BeginLiquidation(op)
        PROVE  SequenceTracksSystem'
    <3>1. /\ totals' = NoTotals /\ activePool' = activePool /\ defaultPool' = defaultPool
          /\ tx'.sysDebt = EntireSystemDebt /\ tx'.sysColl = EntireSystemColl
      BY <2>1 DEF BeginLiquidation, Begin, Idle, Settled, Liquidating, pools
    <3>2. EntireSystemDebt' = EntireSystemDebt /\ EntireSystemColl' = EntireSystemColl
      BY <3>1 DEF EntireSystemDebt, EntireSystemColl
    <3>3. EntireSystemDebt \in Nat /\ EntireSystemColl \in Nat
      BY <1>1, SystemIs
    <3>4. totals'.DebtToOffset = 0 /\ totals'.CollToSendToSP = 0 /\ totals'.CollSurplus = 0
      BY <3>1 DEF NoTotals
    <3>5. QED BY <3>1, <3>2, <3>3, <3>4 DEF SequenceTracksSystem, TracksSystem
  <2>2. ASSUME NEW b \in Borrowers, LiquidateInRecoveryMode(b)
        PROVE  SequenceTracksSystem'
    <3>1. tx'.op = tx.op
      BY <2>2, <1>1, SameOperation
    <3>2. InRecovery
      BY <2>2 DEF LiquidateInRecoveryMode
    <3>3. CASE Sequence
      BY <3>2, <3>3, <2>2, RecoveryStepTracks DEF SequenceTracksSystem
    <3>4. CASE ~Sequence
      BY <3>1, <3>4 DEF SequenceTracksSystem, Sequence
    <3>5. QED BY <3>3, <3>4
  <2>3. ASSUME NEW b \in Borrowers, PassOver(b)
        PROVE  SequenceTracksSystem'
    <3>1. tx \in TxRecords
      BY <1>1 DEF LocalOK
    <3>2. /\ tx' = [tx EXCEPT !.user = NextUser(b), !.back = BackToNormal(tx.sysDebt, tx.sysColl)]
          /\ activePool' = activePool /\ defaultPool' = defaultPool /\ totals' = totals
          /\ Sequence /\ InRecovery
      BY <2>3 DEF PassOver, pools
    <3>3. tx'.sysDebt = tx.sysDebt /\ tx'.sysColl = tx.sysColl
      BY <3>1, <3>2 DEF TxRecords
    <3>4. TracksSystem
      BY <3>2 DEF SequenceTracksSystem
    <3>5. TracksSystem'
      BY <3>2, <3>3, <3>4 DEF TracksSystem, EntireSystemDebt, EntireSystemColl
    <3>6. QED BY <3>5 DEF SequenceTracksSystem
  <2>4. ASSUME NEW b \in Borrowers, LiquidateInNormalMode(b)
        PROVE  SequenceTracksSystem'
    <3>1. tx \in TxRecords
      BY <1>1 DEF LocalOK
    <3>2. tx'.op = tx.op /\ tx'.recovery = tx.recovery /\ tx'.back = tx.back
      BY <3>1, <2>4 DEF TxRecords, LiquidateInNormalMode
    <3>3. ~InRecovery'
      BY <3>2, <2>4 DEF InRecovery, Liquidating, LiquidateInNormalMode
    <3>4. QED BY <3>3 DEF SequenceTracksSystem
  <2>5. CASE FinishLiquidation
    BY <2>5, <1>2 DEF FinishLiquidation, Return
  <2>6. QED BY <2>1, <2>2, <2>3, <2>4, <2>5, <1>5 DEF LiquidationStep
<1>6. CASE RedemptionStep
  <2>1. ASSUME NEW b \in Borrowers, NEW amount, BeginRedemption(amount, b)
        PROVE  SequenceTracksSystem'
    BY <2>1 DEF BeginRedemption, IdleTx, SequenceTracksSystem, Sequence
  <2>2. ASSUME NEW b \in Borrowers, RedeemWholeTrove(b) \/ RedeemPart(b) \/ CancelPartial(b)
        PROVE  SequenceTracksSystem'
    <3>1. tx'.op = tx.op
      BY <2>2, <1>1, SameOperation
    <3>2. tx.op = "redemption"
      BY <2>2 DEF RedeemWholeTrove, RedeemPart, CancelPartial, Looking, Redeeming
    <3>3. QED BY <3>1, <3>2 DEF SequenceTracksSystem, Sequence
  <2>3. CASE FinishRedemption
    BY <2>3, <1>2 DEF FinishRedemption, Return
  <2>4. QED BY <2>1, <2>2, <2>3, <1>6 DEF RedemptionStep
<1>7. CASE Revert
  BY <1>7, <1>2 DEF Revert
<1>8. CASE UNCHANGED vars
  BY <1>8 DEF vars, local, pools, SequenceTracksSystem, TracksSystem, Sequence, InRecovery,
     Liquidating, EntireSystemDebt, EntireSystemColl
<1>9. QED BY <1>4, <1>5, <1>6, <1>7, <1>8 DEF Next

\* While a sequence is in recovery mode, what it takes for the system's debt
\* and collateral is what the pools will hold once the values it accumulated
\* are sent (entireSystemDebt and entireSystemColl there).
THEOREM SequencesTrackTheSystem == Spec => []SequenceTracksSystem
<1>1. Init => SequenceTracksSystem
  BY DEF Init, IdleTx, SequenceTracksSystem, Sequence
<1>2. QED BY <1>1, TotalsSettle, TracksStep, PTL DEF Spec
-----------------------------------------------------------------------------

\* Pending rewards that are applied change pools and leave the system's
\* totals alone.
LEMMA AppliedKeepsTotals ==
    ASSUME CurrentOK, NEW b \in Borrowers, Covers(defaultPool, Applied(b))
    PROVE  LET p == Plus(activePool, Applied(b))
               q == Minus(defaultPool, Applied(b)) IN
           /\ p \in Amounts /\ q \in Amounts
           /\ p.ETH \in Nat /\ q.ETH \in Nat /\ p.LUSDDebt \in Nat /\ q.LUSDDebt \in Nat
           /\ p.ETH + q.ETH = EntireSystemColl
           /\ p.LUSDDebt + q.LUSDDebt = EntireSystemDebt
<1> DEFINE p == Plus(activePool, Applied(b))
           q == Minus(defaultPool, Applied(b))
<1>1. activePool \in Amounts /\ defaultPool \in Amounts /\ Applied(b) \in Amounts
  BY SystemIs, PendingAmounts
<1>2. p \in Amounts /\ p.ETH = activePool.ETH + Applied(b).ETH
      /\ p.LUSDDebt = activePool.LUSDDebt + Applied(b).LUSDDebt
  BY <1>1, AmountArithmetic
<1>3. q \in Amounts /\ q.ETH = defaultPool.ETH - Applied(b).ETH
      /\ q.LUSDDebt = defaultPool.LUSDDebt - Applied(b).LUSDDebt
  BY <1>1, AmountArithmetic
<1> HIDE DEF p, q
<1>4. /\ activePool.ETH \in Nat /\ activePool.LUSDDebt \in Nat
      /\ defaultPool.ETH \in Nat /\ defaultPool.LUSDDebt \in Nat
      /\ Applied(b).ETH \in Nat /\ Applied(b).LUSDDebt \in Nat
      /\ p.ETH \in Nat /\ q.ETH \in Nat /\ p.LUSDDebt \in Nat /\ q.LUSDDebt \in Nat
  BY <1>1, <1>2, <1>3 DEF Amounts
<1>5. p.ETH + q.ETH = EntireSystemColl /\ p.LUSDDebt + q.LUSDDebt = EntireSystemDebt
  BY <1>2, <1>3, <1>4 DEF EntireSystemColl, EntireSystemDebt
<1>6. QED BY <1>2, <1>3, <1>4, <1>5 DEF p, q

\* The ratio that _getNewTCRFromTroveChange predicts is the one the pools
\* have after the change.
LEMMA PredictedTCR ==
    ASSUME CurrentOK, NEW into \in Amounts, NEW out \in Amounts,
           EntireSystemColl' = EntireSystemColl + into.ETH - out.ETH,
           EntireSystemDebt' = EntireSystemDebt + into.LUSDDebt - out.LUSDDebt,
           price' = price, price \in Prices, NewTCR(into, out) >= CCR
    PROVE  ~RecoveryMode'
<1>1. TCR' = NewTCR(into, out)
  BY DEF TCR, NewTCR
<1>2. EntireSystemColl' \in Int /\ EntireSystemDebt' \in Int /\ price \in Nat
  BY SystemIs, ConstantFacts DEF Amounts
<1>3. NewTCR(into, out) \in Int
  <2> DEFINE c == EntireSystemColl + into.ETH - out.ETH
             d == EntireSystemDebt + into.LUSDDebt - out.LUSDDebt
  <2>1. c \in Int /\ d \in Int
    BY <1>2
  <2>2. NewTCR(into, out) = IF d > 0 THEN (c * price) \div d ELSE MAX_UINT
    BY DEF NewTCR, ComputeCR
  <2> HIDE DEF c, d
  <2>3. c * price \in Int
    BY <2>1, <1>2
  <2>4. d > 0 => (c * price) \div d \in Int
    BY <2>1, <2>3
  <2>5. QED BY <2>2, <2>4, ConstantFacts
<1>4. QED BY <1>1, <1>3, ConstantFacts DEF RecoveryMode

\* openTrove in normal mode leaves a ratio of at least CCR.
LEMMA OpenKeepsMode ==
    ASSUME IInv, NEW b \in Borrowers, NEW coll \in Nat, NEW amount \in Nat, NEW fee \in Nat,
           OpenTrove(b, coll, amount, fee), ~RecoveryMode
    PROVE  ~RecoveryMode'
<1> DEFINE debt == CompositeDebt(amount + fee)
           into == Amount(coll, debt)
           none == Amount(0, 0)
<1>1. CurrentOK /\ price \in Prices
  BY DEF IInv, LocalOK
<1>2. /\ NewTCR(into, none) >= CCR
      /\ activePool' = Plus(activePool, into) /\ UNCHANGED <<defaultPool, price>>
  BY DEF OpenTrove
<1>3. debt \in Nat
  BY ConstantFacts DEF CompositeDebt
<1> HIDE DEF debt
<1>4. /\ into \in Amounts /\ none \in Amounts
      /\ into.ETH \in Nat /\ into.LUSDDebt \in Nat /\ none.ETH = 0 /\ none.LUSDDebt = 0
  BY <1>3 DEF Amount, Amounts
<1> HIDE DEF into, none
<1>5. /\ activePool'.ETH = activePool.ETH + into.ETH
      /\ activePool'.LUSDDebt = activePool.LUSDDebt + into.LUSDDebt
  BY <1>1, <1>2, <1>4, SystemIs, AmountArithmetic
<1>6. /\ EntireSystemColl' = EntireSystemColl + into.ETH - none.ETH
      /\ EntireSystemDebt' = EntireSystemDebt + into.LUSDDebt - none.LUSDDebt
  BY <1>1, <1>2, <1>4, <1>5, SystemIs DEF EntireSystemColl, EntireSystemDebt
<1>7. QED BY <1>1, <1>2, <1>4, <1>6, PredictedTCR

\* So does adjustTrove, pending rewards applied first.
LEMMA AdjustKeepsMode ==
    ASSUME IInv, NEW b \in Borrowers, NEW w \in Nat, NEW t \in Nat, NEW d \in Nat,
           NEW inc \in BOOLEAN, NEW fee \in Nat, AdjustTrove(b, w, t, d, inc, fee),
           ~RecoveryMode
    PROVE  ~RecoveryMode'
<1> DEFINE into == Amount(t, IF inc THEN d + fee ELSE 0)
           out == Amount(w, IF inc THEN 0 ELSE d)
           p == Plus(activePool, Applied(b))
           q == Minus(defaultPool, Applied(b))
<1>1. CurrentOK /\ price \in Prices
  BY DEF IInv, LocalOK
<1>2. /\ NewTCR(into, out) >= CCR
      /\ Covers(defaultPool, Applied(b)) /\ Covers(Plus(p, into), out)
      /\ defaultPool' = q /\ activePool' = Minus(Plus(p, into), out) /\ price' = price
  BY DEF AdjustTrove, ValidAdjustment
<1>3. /\ into \in Amounts /\ out \in Amounts
      /\ into.ETH \in Nat /\ into.LUSDDebt \in Nat /\ out.ETH \in Nat /\ out.LUSDDebt \in Nat
  BY DEF Amount, Amounts
<1> HIDE DEF into, out
<1>4. /\ p \in Amounts /\ q \in Amounts
      /\ p.ETH \in Nat /\ q.ETH \in Nat /\ p.LUSDDebt \in Nat /\ q.LUSDDebt \in Nat
      /\ p.ETH + q.ETH = EntireSystemColl /\ p.LUSDDebt + q.LUSDDebt = EntireSystemDebt
  BY <1>1, <1>2, AppliedKeepsTotals
<1> HIDE DEF p, q
<1> DEFINE m == Plus(p, into)
<1>5. /\ m \in Amounts /\ m.ETH = p.ETH + into.ETH /\ m.LUSDDebt = p.LUSDDebt + into.LUSDDebt
  BY <1>3, <1>4, AmountArithmetic
<1>6. Covers(m, out) /\ activePool' = Minus(m, out)
  BY <1>2
<1> HIDE DEF m
<1>7. activePool'.ETH = m.ETH - out.ETH /\ activePool'.LUSDDebt = m.LUSDDebt - out.LUSDDebt
  BY <1>3, <1>5, <1>6, AmountArithmetic
<1>8. /\ EntireSystemColl' = EntireSystemColl + into.ETH - out.ETH
      /\ EntireSystemDebt' = EntireSystemDebt + into.LUSDDebt - out.LUSDDebt
  <2>1. EntireSystemColl' = activePool'.ETH + q.ETH
        /\ EntireSystemDebt' = activePool'.LUSDDebt + q.LUSDDebt
    BY <1>2 DEF EntireSystemColl, EntireSystemDebt
  <2>2. QED BY <2>1, <1>3, <1>4, <1>5, <1>7
<1>9. QED BY <1>1, <1>2, <1>3, <1>8, PredictedTCR

\* So does closeTrove.
LEMMA CloseKeepsMode ==
    ASSUME IInv, NEW b \in Borrowers, CloseOwnTrove(b)
    PROVE  ~RecoveryMode'
<1> DEFINE before == AppliedTrove(b)
           out == Amount(before.coll, before.debt)
           none == Amount(0, 0)
           p == Plus(activePool, Applied(b))
           q == Minus(defaultPool, Applied(b))
<1>1. CurrentOK /\ price \in Prices
  BY DEF IInv, LocalOK
<1>2. /\ NewTCR(none, out) >= CCR
      /\ Covers(defaultPool, Applied(b)) /\ Covers(p, out)
      /\ defaultPool' = q /\ activePool' = Minus(p, out) /\ price' = price
  BY DEF CloseOwnTrove
<1>3. before.coll \in Nat /\ before.debt \in Nat
  BY <1>1, AppliedTroveIs
<1> HIDE DEF before
<1>4. /\ out \in Amounts /\ none \in Amounts /\ none.ETH = 0 /\ none.LUSDDebt = 0
      /\ out.ETH \in Nat /\ out.LUSDDebt \in Nat
  BY <1>3 DEF Amount, Amounts
<1> HIDE DEF out, none
<1>5. /\ p \in Amounts /\ q \in Amounts
      /\ p.ETH \in Nat /\ q.ETH \in Nat /\ p.LUSDDebt \in Nat /\ q.LUSDDebt \in Nat
      /\ p.ETH + q.ETH = EntireSystemColl /\ p.LUSDDebt + q.LUSDDebt = EntireSystemDebt
  BY <1>1, <1>2, AppliedKeepsTotals
<1> HIDE DEF p, q
<1>6. activePool'.ETH = p.ETH - out.ETH /\ activePool'.LUSDDebt = p.LUSDDebt - out.LUSDDebt
  BY <1>2, <1>4, <1>5, AmountArithmetic
<1>7. /\ EntireSystemColl' = EntireSystemColl + none.ETH - out.ETH
      /\ EntireSystemDebt' = EntireSystemDebt + none.LUSDDebt - out.LUSDDebt
  <2>1. EntireSystemColl' = activePool'.ETH + q.ETH
        /\ EntireSystemDebt' = activePool'.LUSDDebt + q.LUSDDebt
    BY <1>2 DEF EntireSystemColl, EntireSystemDebt
  <2>2. QED BY <2>1, <1>4, <1>5, <1>6
<1>8. QED BY <1>1, <1>2, <1>4, <1>7, PredictedTCR

\* No operation of a borrower takes the system out of normal mode.
LEMMA BorrowerKeepsMode ==
    ASSUME IInv, BorrowerStep, ~RecoveryMode
    PROVE  ~RecoveryMode'
<1>1. ASSUME NEW b \in Borrowers, NEW coll \in CollAmounts, NEW amount \in DebtAmounts,
             NEW fee \in BorrowingFees \union {0}, OpenTrove(b, coll, amount, fee)
      PROVE  ~RecoveryMode'
  BY <1>1, InputsAreNat, OpenKeepsMode
<1>2. ASSUME NEW b \in Borrowers, AdjustOwnTrove(b) PROVE ~RecoveryMode'
  <2>1. PICK w \in CollChanges \union {0}, t \in CollChanges \union {0},
             d \in DebtChanges \union {0}, inc \in BOOLEAN, fee \in BorrowingFees \union {0} :
               AdjustTrove(b, w, t, d, inc, fee)
    BY <1>2 DEF AdjustOwnTrove
  <2>2. w \in Nat /\ t \in Nat /\ d \in Nat /\ fee \in Nat
    BY InputsAreNat
  <2>3. QED BY <2>1, <2>2, AdjustKeepsMode
<1>3. ASSUME NEW b \in Borrowers, CloseOwnTrove(b) PROVE ~RecoveryMode'
  BY <1>3, CloseKeepsMode
<1>4. ASSUME NEW b \in Borrowers, ClaimCollateral(b) PROVE ~RecoveryMode'
  BY <1>4 DEF ClaimCollateral, RecoveryMode, TCR, EntireSystemColl, EntireSystemDebt
<1>5. QED BY <1>1, <1>2, <1>3, <1>4 DEF BorrowerStep

\* A borrower's operation that starts in normal mode ends in it: the ratio
\* _requireNewTCRisAboveCCR is given is the one the pools have afterwards.
THEOREM BorrowersKeepNormalMode == Spec => NormalModeKept
<1>1. IInv /\ [Next]_vars => [BorrowerStep /\ ~RecoveryMode => ~RecoveryMode']_vars
  BY BorrowerKeepsMode
<1>2. QED BY <1>1, LedgerInvariant, PTL DEF Spec, NormalModeKept
-----------------------------------------------------------------------------
(* The floor under the debts, and the reserves *)

\* The owners of active troves in a mapping of troves.
ActiveIn(f) == {b \in Borrowers : f[b].status = "active"}

\* Each active trove owes the minimum net debt and its reserve.
DebtFloor(f) == \A b \in ActiveIn(f) : f[b].debt >= LUSD_GAS_COMPENSATION + MIN_NET_DEBT

\* The gas pool holds a reserve for each active trove, and what is owed to a
\* liquidator.
Reserves(f, gasPool, owed) == gasPool = LUSD_GAS_COMPENSATION * Cardinality(ActiveIn(f)) + owed

\* Floor and reserves now, and after a revert.
TrovesOK == DebtFloor(Troves) /\ Reserves(Troves, arth.gasPool, totals.LUSDGasCompensation)
CommittedTrovesOK ==
    DebtFloor(committed.Troves) /\ Reserves(committed.Troves, committed.arth.gasPool, 0)

\* The active troves can be counted.
LEMMA CountIs ==
    ASSUME NEW f
    PROVE  IsFiniteSet(ActiveIn(f)) /\ Cardinality(ActiveIn(f)) \in Nat
<1>1. ActiveIn(f) \subseteq Borrowers /\ IsFiniteSet(Borrowers)
  BY BorrowersAssumption DEF ActiveIn
<1>2. QED BY <1>1, FS_Subset, FS_CardinalityType

\* Closing a trove takes one off the count and leaves the other debts.
LEMMA ClosedTroves ==
    ASSUME CurrentOK, NEW b \in Borrowers, Active(b), NEW status \in ClosedStatuses,
           CloseTrove(b, status), DebtFloor(Troves)
    PROVE  /\ DebtFloor(Troves')
           /\ Cardinality(ActiveIn(Troves')) = Cardinality(ActiveIn(Troves)) - 1
<1>1. Troves' = Closed(b, status) /\ Troves \in [Borrowers -> TroveRecords]
  BY DEF CloseTrove, CurrentOK, BookOK
<1>2. ASSUME NEW x \in Borrowers
      PROVE  /\ Troves'[x].status = "active" <=> x # b /\ Troves[x].status = "active"
             /\ x # b => Troves'[x].debt = Troves[x].debt
  <2>1. Troves[x] \in TroveRecords
    BY <1>1
  <2>2. CASE x = b
    BY <2>1, <2>2, <1>1 DEF Closed, TroveRecords, ClosedStatuses
  <2>3. CASE x # b
    BY <2>1, <2>3, <1>1 DEF Closed, TroveRecords
  <2>4. QED BY <2>2, <2>3
<1>3. ActiveIn(Troves') = ActiveIn(Troves) \ {b} /\ b \in ActiveIn(Troves)
  BY <1>2 DEF ActiveIn, Active
<1>4. Cardinality(ActiveIn(Troves')) = Cardinality(ActiveIn(Troves)) - 1
  BY <1>3, CountIs, FS_RemoveElement
<1>5. DebtFloor(Troves')
  <2>1. ASSUME NEW x \in ActiveIn(Troves')
        PROVE  Troves'[x].debt >= LUSD_GAS_COMPENSATION + MIN_NET_DEBT
    <3>1. x \in ActiveIn(Troves) /\ x # b /\ x \in Borrowers
      BY <1>3 DEF ActiveIn
    <3>2. QED BY <3>1, <1>2 DEF DebtFloor
  <2>2. QED BY <2>1 DEF DebtFloor
<1>6. QED BY <1>4, <1>5

\* Rewriting a trove's amounts leaves the count, and the floor if its new
\* debt respects it.
LEMMA RewrittenTroves ==
    ASSUME NEW b \in Borrowers, SameEntries(Troves', b), DebtFloor(Troves),
           Troves'[b].debt >= LUSD_GAS_COMPENSATION + MIN_NET_DEBT
    PROVE  DebtFloor(Troves') /\ ActiveIn(Troves') = ActiveIn(Troves)
<1>1. ActiveIn(Troves') = ActiveIn(Troves)
  BY DEF SameEntries, ActiveIn
<1>2. ASSUME NEW x \in ActiveIn(Troves')
      PROVE  Troves'[x].debt >= LUSD_GAS_COMPENSATION + MIN_NET_DEBT
  <2>1. x \in ActiveIn(Troves) /\ x \in Borrowers
    BY <1>1 DEF ActiveIn
  <2>2. CASE x = b
    BY <2>2
  <2>3. CASE x # b
    BY <2>1, <2>3 DEF SameEntries, DebtFloor
  <2>4. QED BY <2>2, <2>3
<1>3. QED BY <1>1, <1>2 DEF DebtFloor

\* The type of the ARTH balances.
LEMMA ArthIs ==
    ASSUME CurrentOK
    PROVE  /\ arth \in [wallets : Nat, gasPool : Nat, stabilityPool : Nat]
           /\ arth.gasPool \in Nat
BY DEF CurrentOK, PoolsOK

\* The type of the reserve and of the minimum net debt.
LEMMA FloorIs == /\ LUSD_GAS_COMPENSATION \in Nat /\ MIN_NET_DEBT \in Nat
                 /\ LUSD_GAS_COMPENSATION + MIN_NET_DEBT \in Nat
BY ScaleAssumption, RatioAssumption

\* The reserves of one trove more, or one less.
LEMMA OneMore ==
    ASSUME NEW n \in Nat
    PROVE  /\ LUSD_GAS_COMPENSATION * (n + 1) = LUSD_GAS_COMPENSATION * n + LUSD_GAS_COMPENSATION
           /\ LUSD_GAS_COMPENSATION * n \in Nat
           /\ n > 0 => LUSD_GAS_COMPENSATION * n
                         = LUSD_GAS_COMPENSATION * (n - 1) + LUSD_GAS_COMPENSATION
BY FloorIs

\* openTrove checks the net debt and mints the reserve.
LEMMA OpenKeepsTroves ==
    ASSUME IInv, TrovesOK, NEW b \in Borrowers, NEW coll \in Nat, NEW amount \in Nat,
           NEW fee \in Nat, OpenTrove(b, coll, amount, fee)
    PROVE  TrovesOK'
<1> DEFINE netDebt == amount + fee
           debt == CompositeDebt(netDebt)
           d == Troves[b].debt + debt
           r == [status |-> "active", coll |-> Troves[b].coll + coll, debt |-> d,
                 stake |-> ComputeNewStake(Troves[b].coll + coll),
                 arrayIndex |-> Len(TroveOwners)]
<1>1. CurrentOK /\ LocalOK /\ Troves \in [Borrowers -> TroveRecords]
  BY DEF IInv, CurrentOK, BookOK
<1>2. /\ ~Active(b) /\ netDebt >= MIN_NET_DEBT /\ totals' = totals
      /\ Troves' = [Troves EXCEPT ![b] = r]
      /\ arth' = [arth EXCEPT !.wallets = @ + netDebt, !.gasPool = @ + LUSD_GAS_COMPENSATION]
  BY <1>1 DEF OpenTrove, local
<1>3. netDebt \in Nat /\ debt = netDebt + LUSD_GAS_COMPENSATION /\ Troves[b].debt \in Nat
  BY <1>1, PendingAmounts DEF CompositeDebt
<1>4. r.status = "active" /\ r.debt = d
  OBVIOUS
<1>5. d >= LUSD_GAS_COMPENSATION + MIN_NET_DEBT
  <2> HIDE DEF debt, netDebt
  <2>1. QED BY <1>2, <1>3, FloorIs
<1> HIDE DEF r, d, debt, netDebt
<1>6. Troves'[b] = r /\ \A x \in Borrowers \ {b} : Troves'[x] = Troves[x]
  BY <1>1, <1>2
<1>7. ActiveIn(Troves') = ActiveIn(Troves) \union {b} /\ b \notin ActiveIn(Troves)
  BY <1>2, <1>4, <1>6 DEF ActiveIn, Active
<1>8. DebtFloor(Troves')
  <2>1. ASSUME NEW x \in ActiveIn(Troves')
        PROVE  Troves'[x].debt >= LUSD_GAS_COMPENSATION + MIN_NET_DEBT
    <3>1. CASE x = b
      BY <3>1, <1>4, <1>5, <1>6
    <3>2. CASE x # b
      BY <3>2, <1>6, <1>7 DEF TrovesOK, DebtFloor, ActiveIn
    <3>3. QED BY <3>1, <3>2
  <2>2. QED BY <2>1 DEF DebtFloor
<1>9. Cardinality(ActiveIn(Troves')) = Cardinality(ActiveIn(Troves)) + 1
  BY <1>7, CountIs, FS_AddElement
<1>10. arth'.gasPool = arth.gasPool + LUSD_GAS_COMPENSATION
  BY <1>1, <1>2, ArthIs
<1>11. totals.LUSDGasCompensation \in Nat /\ arth.gasPool \in Nat
  BY <1>1, TotalsIs, ArthIs DEF LocalOK
<1>12. Reserves(Troves', arth'.gasPool, totals'.LUSDGasCompensation)
  <2> DEFINE n == Cardinality(ActiveIn(Troves))
  <2>1. n \in Nat /\ Cardinality(ActiveIn(Troves')) = n + 1
    BY <1>9, CountIs
  <2>2. arth.gasPool = LUSD_GAS_COMPENSATION * n + totals.LUSDGasCompensation
    BY DEF TrovesOK, Reserves
  <2> HIDE DEF n
  <2>3. arth'.gasPool = LUSD_GAS_COMPENSATION * (n + 1) + totals.LUSDGasCompensation
    BY <2>1, <2>2, <1>10, <1>11, OneMore, FloorIs
  <2>4. QED BY <2>1, <2>3, <1>2 DEF Reserves
<1>13. QED BY <1>8, <1>12 DEF TrovesOK

\* One trove is closed and one reserve leaves the gas pool or is owed to a
\* liquidator.
LEMMA CloseKeepsReserves ==
    ASSUME IInv, TrovesOK, NEW b \in Borrowers, Active(b), NEW status \in ClosedStatuses,
           CloseTrove(b, status),
           totals'.LUSDGasCompensation \in Nat, arth'.gasPool \in Nat,
           arth'.gasPool + totals.LUSDGasCompensation + LUSD_GAS_COMPENSATION
             = arth.gasPool + totals'.LUSDGasCompensation
    PROVE  TrovesOK'
<1> DEFINE n == Cardinality(ActiveIn(Troves))
<1>1. CurrentOK /\ LocalOK
  BY DEF IInv
<1>2. DebtFloor(Troves') /\ Cardinality(ActiveIn(Troves')) = n - 1
  BY <1>1, ClosedTroves DEF TrovesOK
<1>3. n \in Nat /\ n - 1 \in Nat
  BY <1>2, CountIs
<1>4. totals.LUSDGasCompensation \in Nat /\ arth.gasPool \in Nat
  BY <1>1, TotalsIs, ArthIs DEF LocalOK
<1>5. arth.gasPool = LUSD_GAS_COMPENSATION * n + totals.LUSDGasCompensation
  BY DEF TrovesOK, Reserves
<1> HIDE DEF n
<1>6. LUSD_GAS_COMPENSATION * n = LUSD_GAS_COMPENSATION * (n - 1) + LUSD_GAS_COMPENSATION
      /\ LUSD_GAS_COMPENSATION * n \in Nat /\ LUSD_GAS_COMPENSATION * (n - 1) \in Nat
  BY <1>3, OneMore
<1>7. arth'.gasPool = LUSD_GAS_COMPENSATION * (n - 1) + totals'.LUSDGasCompensation
  BY <1>4, <1>5, <1>6, FloorIs
<1>8. QED BY <1>2, <1>7 DEF TrovesOK, Reserves

\* A liquidated trove's reserve is owed to the liquidator.
LEMMA LiquidateKeepsReserves ==
    ASSUME IInv, TrovesOK, NEW b \in Borrowers, Active(b), NEW v \in [DOMAIN NoTotals -> Nat],
           v.LUSDGasCompensation = LUSD_GAS_COMPENSATION, LiquidateTrove(b, v)
    PROVE  TrovesOK'
<1>1. CurrentOK /\ LocalOK
  BY DEF IInv
<1>2. CloseTrove(b, "closedByLiquidation") /\ arth' = arth
  BY DEF LiquidateTrove
<1>3. totals'.LUSDGasCompensation = totals.LUSDGasCompensation + LUSD_GAS_COMPENSATION
      /\ totals.LUSDGasCompensation \in Nat
  BY <1>1, TotalsIs DEF LocalOK, LiquidateTrove, AddLiquidationValues
<1>4. QED BY <1>1, <1>2, <1>3, ArthIs, FloorIs, CloseKeepsReserves DEF ClosedStatuses

\* Either way to compute a liquidation's values takes one reserve.
LEMMA ValuesGas ==
    ASSUME NEW b, NEW sp
    PROVE  /\ FullValues(b, sp).LUSDGasCompensation = LUSD_GAS_COMPENSATION
           /\ CappedValues(b).LUSDGasCompensation = LUSD_GAS_COMPENSATION
BY DEF FullValues, CappedValues, NoTotals

\* Both liquidation loops keep floor and reserves.
LEMMA LiquidationKeepsTroves ==
    ASSUME IInv, TrovesOK, NEW b \in Borrowers,
           LiquidateInRecoveryMode(b) \/ LiquidateInNormalMode(b)
    PROVE  TrovesOK'
<1>1. CurrentOK /\ LocalOK
  BY DEF IInv
<1>2. CASE LiquidateInRecoveryMode(b)
  <2>1. /\ Active(b) /\ RecoveryValues(b) \in [DOMAIN NoTotals -> Nat]
    BY <1>1, <1>2, RecoveryValuesOK DEF LiquidateInRecoveryMode
  <2>2. RecoveryValues(b).LUSDGasCompensation = LUSD_GAS_COMPENSATION
    BY ValuesGas DEF RecoveryValues
  <2>3. LiquidateTrove(b, RecoveryValues(b))
    BY <1>2 DEF LiquidateInRecoveryMode
  <2>4. QED BY <2>1, <2>2, <2>3, LiquidateKeepsReserves
<1>3. CASE LiquidateInNormalMode(b)
  <2>1. Active(b) /\ Entire(b).LUSDDebt > 0 /\ tx.sp \in Nat
    BY <1>1, <1>3, Riskiest DEF LiquidateInNormalMode, LocalOK, TxRecords
  <2>2. FullValues(b, tx.sp) \in [DOMAIN NoTotals -> Nat]
    BY <2>1, <1>1, FullValuesOK
  <2>3. LiquidateTrove(b, FullValues(b, tx.sp))
    BY <1>3 DEF LiquidateInNormalMode
  <2>4. QED BY <2>1, <2>2, <2>3, ValuesGas, LiquidateKeepsReserves
<1>4. QED BY <1>2, <1>3

\* The liquidator is paid the reserves that were owed.
LEMMA FinishKeepsTroves ==
    ASSUME IInv, Settled, TrovesOK, FinishLiquidation \/ FinishRedemption
    PROVE  TrovesOK'
<1>1. CurrentOK /\ LocalOK
  BY DEF IInv
<1>2. /\ totals.LUSDGasCompensation \in Nat /\ arth.gasPool \in Nat
      /\ arth \in [wallets : Nat, gasPool : Nat, stabilityPool : Nat]
  BY <1>1, TotalsIs, ArthIs DEF LocalOK
<1>3. Troves' = Troves /\ totals'.LUSDGasCompensation = 0
  BY DEF FinishLiquidation, FinishRedemption, Return, NoTotals, book
<1>4. arth'.gasPool = arth.gasPool - totals.LUSDGasCompensation
  <2>1. CASE FinishLiquidation
    BY <2>1, <1>2 DEF FinishLiquidation
  <2>2. CASE FinishRedemption
    <3>1. totals.LUSDGasCompensation = 0
      BY <2>2 DEF FinishRedemption, Redeeming, Liquidating, Settled, NoTotals
    <3>2. arth'.gasPool = arth.gasPool
      BY <2>2, <1>2 DEF FinishRedemption
    <3>3. QED BY <3>1, <3>2, <1>2
  <2>3. QED BY <2>1, <2>2
<1> DEFINE k == LUSD_GAS_COMPENSATION * Cardinality(ActiveIn(Troves))
<1>5. k \in Nat
  BY CountIs, OneMore
<1>6. arth.gasPool = k + totals.LUSDGasCompensation
  BY DEF TrovesOK, Reserves
<1>7. ActiveIn(Troves') = ActiveIn(Troves) /\ DebtFloor(Troves')
  BY <1>3 DEF TrovesOK
<1> HIDE DEF k
<1>8. arth'.gasPool = k + 0
  BY <1>2, <1>4, <1>5, <1>6
<1>9. QED BY <1>3, <1>7, <1>8 DEF TrovesOK, Reserves, k

\* The trove changes, the reserves do not.
LEMMA RewriteKeepsTroves ==
    ASSUME TrovesOK, NEW b \in Borrowers, SameEntries(Troves', b),
           Troves'[b].debt >= LUSD_GAS_COMPENSATION + MIN_NET_DEBT,
           totals' = totals, arth'.gasPool = arth.gasPool
    PROVE  TrovesOK'
<1>1. DebtFloor(Troves') /\ ActiveIn(Troves') = ActiveIn(Troves)
  BY RewrittenTroves DEF TrovesOK
<1>2. QED BY <1>1 DEF TrovesOK, Reserves

\* Pending rewards only add to a debt.
LEMMA AppliedDebt ==
    ASSUME CurrentOK, TrovesOK, NEW b \in Borrowers, Active(b)
    PROVE  AppliedTrove(b).debt >= LUSD_GAS_COMPENSATION + MIN_NET_DEBT
<1>1. Troves[b].debt >= LUSD_GAS_COMPENSATION + MIN_NET_DEBT
  BY DEF TrovesOK, DebtFloor, ActiveIn, Active
<1>2. Troves[b] \in TroveRecords /\ Applied(b) \in Amounts /\ Troves[b].debt \in Nat
  BY PendingAmounts DEF CurrentOK, BookOK
<1>3. Applied(b).LUSDDebt \in Nat
  BY <1>2 DEF Amounts
<1>4. AppliedTrove(b).debt = Troves[b].debt + Applied(b).LUSDDebt
  BY <1>2 DEF AppliedTrove, TroveRecords
<1>5. QED BY <1>1, <1>2, <1>3, <1>4, FloorIs

\* adjustTrove checks the minimum only where a debt is repaid; otherwise
\* the debt does not fall.
LEMMA AdjustKeepsTroves ==
    ASSUME IInv, TrovesOK, NEW b \in Borrowers, NEW w \in Nat, NEW t \in Nat, NEW d \in Nat,
           NEW inc \in BOOLEAN, NEW fee \in Nat, AdjustTrove(b, w, t, d, inc, fee)
    PROVE  TrovesOK'
<1> DEFINE before == AppliedTrove(b)
           into == Amount(t, IF inc THEN d + fee ELSE 0)
           out == Amount(w, IF inc THEN 0 ELSE d)
           newColl == before.coll + into.ETH - out.ETH
           newDebt == before.debt + into.LUSDDebt - out.LUSDDebt
           stake == ComputeNewStake(newColl)
<1>1. CurrentOK /\ Troves \in [Borrowers -> TroveRecords]
  BY DEF IInv, CurrentOK, BookOK
<1>2. /\ Active(b)
      /\ Covers(Amount(before.coll, before.debt), out)
      /\ ~inc /\ d > 0 => newDebt >= LUSD_GAS_COMPENSATION + MIN_NET_DEBT
      /\ Troves' = [Troves EXCEPT ![b].coll = newColl, ![b].debt = newDebt, ![b].stake = stake]
      /\ arth' = [arth EXCEPT !.wallets = @ + into.LUSDDebt - out.LUSDDebt]
      /\ totals' = totals
  BY DEF AdjustTrove, local
<1>3. before.coll \in Nat /\ before.debt \in Nat
      /\ before.debt >= LUSD_GAS_COMPENSATION + MIN_NET_DEBT
  BY <1>1, <1>2, AppliedTroveIs, AppliedDebt
<1>4. /\ into.ETH \in Nat /\ out.ETH \in Nat
      /\ into.LUSDDebt = (IF inc THEN d + fee ELSE 0)
      /\ out.LUSDDebt = (IF inc THEN 0 ELSE d)
  BY DEF Amount
<1>5. before.coll >= out.ETH /\ before.debt >= out.LUSDDebt
  <2> HIDE DEF before, out
  <2>1. QED BY <1>2 DEF Covers, Amount
<1> HIDE DEF before, into, out
<1>6. newColl \in Nat /\ newDebt \in Nat
  BY <1>3, <1>4, <1>5
<1>7. newDebt >= LUSD_GAS_COMPENSATION + MIN_NET_DEBT
  <2>1. CASE inc
    BY <2>1, <1>3, <1>4, FloorIs
  <2>2. CASE ~inc /\ d > 0
    BY <2>2, <1>2
  <2>3. CASE ~inc /\ d = 0
    BY <2>3, <1>3, <1>4, FloorIs
  <2>4. QED BY <2>1, <2>2, <2>3
<1> HIDE DEF newColl, newDebt
<1>8. stake \in Nat
  BY <1>1, <1>6, StakeNat
<1> HIDE DEF stake
<1>9. SameEntries(Troves', b) /\ Troves'[b].debt = newDebt
  <2>1. SameEntries(Troves', b)
    BY <1>1, <1>2, <1>6, <1>8, RewriteIs
  <2>2. Troves[b] \in TroveRecords
    BY <1>1
  <2>3. QED BY <2>1, <2>2, <1>1, <1>2 DEF TroveRecords
<1>10. arth'.gasPool = arth.gasPool
  BY <1>1, <1>2, ArthIs
<1>11. QED BY <1>2, <1>7, <1>9, <1>10, RewriteKeepsTroves

\* What RedeemPart leaves owes the minimum (PartialAllowed); what
\* CancelPartial leaves owes no less than before.
LEMMA RedeemPartKeepsTroves ==
    ASSUME IInv, TrovesOK, NEW b \in Borrowers, RedeemPart(b) \/ CancelPartial(b)
    PROVE  TrovesOK'
<1>1. CurrentOK /\ Troves \in [Borrowers -> TroveRecords]
  BY DEF IInv, CurrentOK, BookOK
<1>2. CASE RedeemPart(b)
  <2> DEFINE stake == ComputeNewStake(NewColl(b))
  <2>1. /\ NewColl(b) \in Nat /\ NewDebt(b) \in Nat
        /\ Active(b)
    BY <1>2, LookedAt DEF RedeemPart
  <2>2. stake \in Nat
    BY <1>1, <2>1, StakeNat
  <2>3. NewDebt(b) >= LUSD_GAS_COMPENSATION + MIN_NET_DEBT
    <3>1. NewDebt(b) - LUSD_GAS_COMPENSATION >= MIN_NET_DEBT
      BY <1>2 DEF RedeemPart, PartialAllowed
    <3>2. QED BY <3>1, <2>1, FloorIs
  <2>4. /\ Troves' = [Troves EXCEPT ![b].debt = NewDebt(b), ![b].coll = NewColl(b),
                                    ![b].stake = stake]
        /\ arth' = arth /\ totals' = totals
    BY <1>2 DEF RedeemPart
  <2> HIDE DEF stake
  <2>5. Troves' = [Troves EXCEPT ![b].coll = NewColl(b), ![b].debt = NewDebt(b),
                                 ![b].stake = stake]
    BY <2>4, <1>1 DEF TroveRecords
  <2>6. SameEntries(Troves', b)
    BY <2>1, <2>2, <2>5, <1>1, RewriteIs
  <2>7. Troves'[b].debt = NewDebt(b)
    BY <1>1, <2>4 DEF TroveRecords
  <2>8. QED BY <2>3, <2>4, <2>6, <2>7, RewriteKeepsTroves
<1>3. CASE CancelPartial(b)
  <2>1. Active(b)
    BY <1>3, LookedAt DEF CancelPartial
  <2>2. Troves' = [Troves EXCEPT ![b] = AppliedTrove(b)] /\ arth' = arth /\ totals' = totals
    BY <1>3 DEF CancelPartial
  <2>3. /\ AppliedTrove(b) \in TroveRecords /\ AppliedTrove(b).status = Troves[b].status
        /\ AppliedTrove(b).arrayIndex = Troves[b].arrayIndex
    BY <1>1, AppliedTroveIs
  <2>4. SameEntries(Troves', b) /\ Troves'[b] = AppliedTrove(b)
    BY <1>1, <2>2, <2>3 DEF SameEntries
  <2>5. QED BY <1>1, <2>1, <2>2, <2>4, AppliedDebt, RewriteKeepsTroves
<1>4. QED BY <1>2, <1>3

\* A redeemed trove and one closed by its owner give their reserve back.
LEMMA RepaidKeepsTroves ==
    ASSUME IInv, TrovesOK, NEW b \in Borrowers, RedeemWholeTrove(b) \/ CloseOwnTrove(b)
    PROVE  TrovesOK'
<1>1. CurrentOK /\ LocalOK
  BY DEF IInv
<1>2. /\ arth \in [wallets : Nat, gasPool : Nat, stabilityPool : Nat]
      /\ arth.gasPool \in Nat /\ totals.LUSDGasCompensation \in Nat
  BY <1>1, ArthIs, TotalsIs DEF LocalOK
<1>3. CASE RedeemWholeTrove(b)
  <2>1. Active(b)
    BY <1>3, LookedAt DEF RedeemWholeTrove
  <2>2. /\ CloseTrove(b, "closedByRedemption") /\ arth.gasPool >= LUSD_GAS_COMPENSATION
        /\ arth' = [arth EXCEPT !.gasPool = @ - LUSD_GAS_COMPENSATION] /\ totals' = totals
    BY <1>3 DEF RedeemWholeTrove
  <2>3. arth'.gasPool = arth.gasPool - LUSD_GAS_COMPENSATION
    BY <1>2, <2>2
  <2>4. QED BY <1>2, <2>1, <2>2, <2>3, FloorIs, CloseKeepsReserves DEF ClosedStatuses
<1>4. CASE CloseOwnTrove(b)
  <2> DEFINE x == arth.wallets - (AppliedTrove(b).debt - LUSD_GAS_COMPENSATION)
  <2>1. /\ Active(b) /\ CloseTrove(b, "closedByOwner")
        /\ arth.gasPool >= LUSD_GAS_COMPENSATION
        /\ arth' = [arth EXCEPT !.wallets = x, !.gasPool = @ - LUSD_GAS_COMPENSATION]
        /\ totals' = totals
    BY <1>4 DEF CloseOwnTrove, local
  <2> HIDE DEF x
  <2>2. arth'.gasPool = arth.gasPool - LUSD_GAS_COMPENSATION
    BY <1>2, <2>1
  <2>3. QED BY <1>2, <2>1, <2>2, FloorIs, CloseKeepsReserves DEF ClosedStatuses
<1>5. QED BY <1>3, <1>4

\* A step that leaves troves and reserves alone.
LEMMA QuietKeepsTroves ==
    ASSUME TrovesOK, Troves' = Troves, totals' = totals, arth'.gasPool = arth.gasPool
    PROVE  TrovesOK'
BY DEF TrovesOK, Reserves

\* A revert restores what was committed, and owes no liquidator anything.
LEMMA RevertKeepsTroves ==
    ASSUME CommittedTrovesOK, Revert
    PROVE  TrovesOK'
<1>1. totals'.LUSDGasCompensation = 0
  BY DEF Revert, NoTotals
<1>2. QED BY <1>1 DEF Revert, CommittedTrovesOK, TrovesOK

\* Every step keeps the floor under the debts and the reserves.
LEMMA TrovesStep ==
    ASSUME IInv, Settled, TrovesOK, CommittedTrovesOK, [Next]_vars
    PROVE  TrovesOK'
<1>1. CurrentOK
  BY DEF IInv
<1>2. CASE BorrowerStep
  <2>1. ASSUME NEW b \in Borrowers, NEW coll \in CollAmounts, NEW amount \in DebtAmounts,
               NEW fee \in BorrowingFees \union {0}, OpenTrove(b, coll, amount, fee)
        PROVE  TrovesOK'
    BY <2>1, InputsAreNat, OpenKeepsTroves
  <2>2. ASSUME NEW b \in Borrowers, AdjustOwnTrove(b) PROVE TrovesOK'
    <3>1. PICK w \in CollChanges \union {0}, t \in CollChanges \union {0},
               d \in DebtChanges \union {0}, inc \in BOOLEAN, fee \in BorrowingFees \union {0} :
                 AdjustTrove(b, w, t, d, inc, fee)
      BY <2>2 DEF AdjustOwnTrove
    <3>2. w \in Nat /\ t \in Nat /\ d \in Nat /\ fee \in Nat
      BY InputsAreNat
    <3>3. QED BY <3>1, <3>2, AdjustKeepsTroves
  <2>3. ASSUME NEW b \in Borrowers, CloseOwnTrove(b) PROVE TrovesOK'
    BY <2>3, RepaidKeepsTroves
  <2>4. ASSUME NEW b \in Borrowers, ClaimCollateral(b) PROVE TrovesOK'
    BY <2>4, QuietKeepsTroves DEF ClaimCollateral, book, local
  <2>5. QED BY <1>2, <2>1, <2>2, <2>3, <2>4 DEF BorrowerStep
<1>3. CASE LiquidationStep
  <2>1. ASSUME NEW op \in {"sequence", "batch"}, BeginLiquidation(op) PROVE TrovesOK'
    BY <2>1, QuietKeepsTroves DEF BeginLiquidation, book, pools
  <2>2. ASSUME NEW b \in Borrowers, PassOver(b) PROVE TrovesOK'
    BY <2>2, QuietKeepsTroves DEF PassOver, book, pools
  <2>3. QED BY <1>3, <2>1, <2>2, LiquidationKeepsTroves, FinishKeepsTroves DEF LiquidationStep
<1>4. CASE RedemptionStep
  <2>1. ASSUME NEW b \in Borrowers, NEW amount, BeginRedemption(amount, b) PROVE TrovesOK'
    BY <2>1, QuietKeepsTroves DEF BeginRedemption, book, pools
  <2>2. QED BY <1>4, <2>1, RepaidKeepsTroves, RedeemPartKeepsTroves, FinishKeepsTroves
            DEF RedemptionStep
<1>5. CASE EnvironmentStep
  <2>1. ASSUME NEW a, ProvideToSP(a) \/ WithdrawFromSP(a) PROVE TrovesOK'
    <3>1. Troves' = Troves /\ totals' = totals
      BY <2>1 DEF ProvideToSP, WithdrawFromSP, book, local
    <3>2. arth'.gasPool = arth.gasPool
      BY <2>1, <1>1, ArthIs DEF ProvideToSP, WithdrawFromSP
    <3>3. QED BY <3>1, <3>2, QuietKeepsTroves
  <2>2. ASSUME NEW p, SetPrice(p) PROVE TrovesOK'
    BY <2>2, QuietKeepsTroves DEF SetPrice, book, pools, local
  <2>3. QED BY <1>5, <2>1, <2>2 DEF EnvironmentStep
<1>6. CASE Revert
  BY <1>6, RevertKeepsTroves
<1>7. CASE UNCHANGED vars
  BY <1>7, QuietKeepsTroves DEF vars, book, pools, local
<1>8. QED BY <1>2, <1>3, <1>4, <1>5, <1>6, <1>7 DEF Next

\* Either nothing is committed, or the ledger is, and then no liquidator is
\* owed anything.
LEMMA CommitsSettled ==
    ASSUME Settled, [Next]_vars
    PROVE  committed' = committed \/ (Commit /\ totals' = NoTotals)
<1>1. CASE BorrowerStep
  <2>1. Idle /\ totals' = totals
    BY <1>1, OneStepTransactions DEF local
  <2>2. totals' = NoTotals
    BY <2>1 DEF Settled, Idle, Liquidating
  <2>3. ASSUME NEW b, NEW coll, NEW amount, NEW fee, OpenTrove(b, coll, amount, fee)
        PROVE  Commit
    BY <2>3 DEF OpenTrove
  <2>4. ASSUME NEW b, NEW w, NEW t, NEW d, NEW inc, NEW fee, AdjustTrove(b, w, t, d, inc, fee)
        PROVE  Commit
    BY <2>4 DEF AdjustTrove
  <2>5. ASSUME NEW b, CloseOwnTrove(b) \/ ClaimCollateral(b) PROVE Commit
    BY <2>5 DEF CloseOwnTrove, ClaimCollateral
  <2>6. QED BY <1>1, <2>2, <2>3, <2>4, <2>5 DEF BorrowerStep, AdjustOwnTrove
<1>2. CASE EnvironmentStep
  <2>1. Idle /\ totals' = totals
    BY <1>2, OneStepTransactions DEF local
  <2>2. totals' = NoTotals
    BY <2>1 DEF Settled, Idle, Liquidating
  <2>3. ASSUME NEW a, ProvideToSP(a) \/ WithdrawFromSP(a) PROVE Commit
    BY <2>3 DEF ProvideToSP, WithdrawFromSP
  <2>4. ASSUME NEW p, SetPrice(p) PROVE committed' = committed
    BY <2>4 DEF SetPrice
  <2>5. QED BY <1>2, <2>2, <2>3, <2>4 DEF EnvironmentStep
<1>3. CASE FinishLiquidation \/ FinishRedemption
  BY <1>3 DEF FinishLiquidation, FinishRedemption, Return
<1>4. CASE LiquidationStep /\ ~FinishLiquidation
  BY <1>4 DEF LiquidationStep, BeginLiquidation, LiquidateInRecoveryMode, PassOver,
     LiquidateInNormalMode, LiquidateTrove
<1>5. CASE RedemptionStep /\ ~FinishRedemption
  BY <1>5 DEF RedemptionStep, BeginRedemption, RedeemWholeTrove, RedeemPart, CancelPartial
<1>6. CASE Revert \/ UNCHANGED vars
  BY <1>6 DEF Revert, vars
<1>7. QED BY <1>1, <1>2, <1>3, <1>4, <1>5, <1>6 DEF Next, LiquidationStep, RedemptionStep

\* What a revert would restore keeps floor and reserves as well.
LEMMA CommittedTrovesStep ==
    ASSUME Settled, TrovesOK', CommittedTrovesOK, [Next]_vars
    PROVE  CommittedTrovesOK'
<1>1. CASE committed' = committed
  BY <1>1 DEF CommittedTrovesOK
<1>2. CASE Commit /\ totals' = NoTotals
  <2>1. committed'.Troves = Troves' /\ committed'.arth = arth'
    BY <1>2 DEF Commit, Ledger
  <2>2. totals'.LUSDGasCompensation = 0
    BY <1>2 DEF NoTotals
  <2>3. QED BY <2>1, <2>2 DEF TrovesOK, CommittedTrovesOK
<1>3. QED BY <1>1, <1>2, CommitsSettled

\* Without a trove there is neither a debt nor a reserve.
LEMMA TrovesInit == Init => TrovesOK /\ CommittedTrovesOK
<1> SUFFICES ASSUME Init PROVE TrovesOK /\ CommittedTrovesOK
  OBVIOUS
<1>1. Troves = [b \in Borrowers |-> NoTrove] /\ NoTrove.status = "nonExistent"
  BY DEF Init, NoTrove
<1>2. ActiveIn(Troves) = {}
  BY <1>1 DEF ActiveIn
<1>3. arth.gasPool = 0 /\ totals.LUSDGasCompensation = 0
  BY DEF Init, NoTotals
<1>4. TrovesOK
  BY <1>2, <1>3, FS_EmptySet, FloorIs DEF TrovesOK, DebtFloor, Reserves
<1>5. committed.Troves = Troves /\ committed.arth = arth
  BY DEF Init, Ledger
<1>6. QED BY <1>3, <1>4, <1>5 DEF TrovesOK, CommittedTrovesOK

\* Floor and reserves hold in every state, and after any revert.
LEMMA TrovesInvariant == Spec => [](TrovesOK /\ CommittedTrovesOK)
<1>1. IInv /\ Settled /\ TrovesOK /\ CommittedTrovesOK /\ [Next]_vars
        => (TrovesOK /\ CommittedTrovesOK)'
  BY TrovesStep, CommittedTrovesStep
<1>2. QED BY <1>1, TrovesInit, TotalsSettle, PTL DEF Spec

\* No trove owes less than the minimum net debt and its reserve, whatever
\* was redeemed, repaid, liquidated or reverted
\* (_requireAtLeastMinNetDebt, _redeemCollateralFromTrove).
THEOREM DebtsStayAboveMinimum == Spec => []NetDebtAboveMinimum
<1>1. TrovesOK => NetDebtAboveMinimum
  BY DEF TrovesOK, DebtFloor, ActiveIn, Active, ActiveOwners, NetDebtAboveMinimum
<1>2. QED BY <1>1, TrovesInvariant, PTL

\* The gas pool holds one reserve for each open trove and for each that the
\* liquidation under way closed: no burn or return of a reserve ever fails.
THEOREM GasPoolIsFunded == Spec => []GasPoolCoversReserves
<1>1. TrovesOK => GasPoolCoversReserves
  BY DEF TrovesOK, Reserves, ActiveIn, Active, ActiveOwners, GasPoolCoversReserves
<1>2. QED BY <1>1, TrovesInvariant, PTL

-----------------------------------------------------------------------------
(* What other people's operations do to a trove *)

\* What getEntireDebtAndColl looks at.
SameShare(b) ==
    /\ Troves'[b].status = Troves[b].status /\ Troves'[b].stake = Troves[b].stake
    /\ Troves'[b].coll = Troves[b].coll /\ Troves'[b].debt = Troves[b].debt
    /\ rewardSnapshots'[b] = rewardSnapshots[b] /\ L' = L

Keeps(b) == Active(b) /\ Active(b)' => Covers(Entire(b)', Entire(b))

LEMMA CoversItself == ASSUME NEW p \in Amounts PROVE Covers(p, p)
BY DEF Covers, Amounts

LEMMA SameShareKeeps ==
    ASSUME CurrentOK, NEW b \in Borrowers, SameShare(b)
    PROVE  Keeps(b)
<1>1. Pending(b)' = Pending(b)
  BY DEF SameShare, Pending, Active
<1>2. Entire(b)' = Entire(b)
  BY <1>1 DEF SameShare, Entire
<1>3. Entire(b) \in Amounts
  BY PendingAmounts
<1>4. QED BY <1>2, <1>3, CoversItself DEF Keeps

\* Nothing of the book is written.
LEMMA QuietKeeps ==
    ASSUME CurrentOK, UNCHANGED book, NEW b \in Borrowers
    PROVE  Keeps(b)
BY SameShareKeeps DEF book, rewards, SameShare

\* A close empties one trove and moves the index of another.
LEMMA CloseKeeps ==
    ASSUME CurrentOK, NEW x \in Borrowers, NEW status, status # "active",
           CloseTrove(x, status), UNCHANGED rewards, NEW b \in Borrowers
    PROVE  Keeps(b)
<1>1. /\ Troves \in [Borrowers -> TroveRecords] /\ rewardSnapshots \in [Borrowers -> Amounts]
      /\ Troves' = Closed(x, status)
      /\ rewardSnapshots' = [rewardSnapshots EXCEPT ![x] = Amount(0, 0)]
      /\ L' = L
  BY DEF CloseTrove, CurrentOK, BookOK, RewardsOK, rewards
<1>2. CASE b = x
  <2>1. Troves'[b].status = status
    BY <1>1, <1>2 DEF Closed, TroveRecords
  <2>2. QED BY <2>1 DEF Keeps, Active
<1>3. CASE b # x
  <2>1. Troves[b] \in TroveRecords
    BY <1>1
  <2>2. Troves'[b] = IF b = LastOwner THEN [Troves[b] EXCEPT !.arrayIndex = Troves[x].arrayIndex]
                     ELSE Troves[b]
    BY <1>1, <1>3 DEF Closed
  <2>3. /\ Troves'[b].status = Troves[b].status /\ Troves'[b].stake = Troves[b].stake
        /\ Troves'[b].coll = Troves[b].coll /\ Troves'[b].debt = Troves[b].debt
    BY <2>1, <2>2 DEF TroveRecords
  <2>4. QED BY <1>1, <1>3, <2>3, SameShareKeeps DEF SameShare
<1>4. QED BY <1>2, <1>3

\* A trove, its snapshot and its stake are written: the others' are not.
LEMMA RewriteKeepsOthers ==
    ASSUME CurrentOK, NEW x \in Borrowers, NEW b \in Borrowers, b # x,
           Troves'[b] = Troves[b], rewardSnapshots'[b] = rewardSnapshots[b], UNCHANGED rewards
    PROVE  Keeps(b)
BY SameShareKeeps DEF SameShare, rewards

LEMMA ShareOfNothing ==
    ASSUME NEW s \in Nat, NEW x \in Nat
    PROVE  (s * (x - x)) \div DECIMAL_PRECISION = 0
<1>1. s * (x - x) = 0
  OBVIOUS
<1>2. QED BY <1>1, ConstantFacts

\* _applyPendingRewards: what was pending is in the trove, and nothing is pending.
LEMMA AppliedKeeps ==
    ASSUME CurrentOK, NEW b \in Borrowers, Active(b), UNCHANGED rewards,
           Troves' = [Troves EXCEPT ![b] = AppliedTrove(b)],
           rewardSnapshots' = [rewardSnapshots EXCEPT ![b] = AppliedSnapshot(b)]
    PROVE  Keeps(b)
<1>1. /\ Troves \in [Borrowers -> TroveRecords] /\ rewardSnapshots \in [Borrowers -> Amounts]
      /\ L \in Amounts /\ L' = L
  BY DEF CurrentOK, BookOK, RewardsOK, rewards
<1>2. Troves[b] \in TroveRecords /\ Troves'[b] = AppliedTrove(b)
      /\ rewardSnapshots'[b] = AppliedSnapshot(b)
  BY <1>1
<1> DEFINE c == Troves[b].coll + Applied(b).ETH
           d == Troves[b].debt + Applied(b).LUSDDebt
<1>3. AppliedTrove(b) = [Troves[b] EXCEPT !.coll = c, !.debt = d]
  BY DEF AppliedTrove
<1>4. /\ Troves'[b].status = Troves[b].status /\ Troves'[b].stake = Troves[b].stake
      /\ Troves'[b].coll = c /\ Troves'[b].debt = d
  <2> HIDE DEF c, d
  <2>1. QED BY <1>2, <1>3 DEF TroveRecords
<1>5. /\ Entire(b).ETH = Troves[b].coll + Pending(b).ETH
      /\ Entire(b).LUSDDebt = Troves[b].debt + Pending(b).LUSDDebt
      /\ Entire(b) \in Amounts /\ Pending(b) \in Amounts
      /\ Troves[b].coll \in Nat /\ Troves[b].debt \in Nat /\ Troves[b].stake \in Nat
  BY PendingAmounts
<1>6. CASE HasPendingRewards(b)
  <2>1. rewardSnapshots'[b] = L /\ Applied(b) = Pending(b)
    BY <1>2, <1>6 DEF AppliedSnapshot, Applied
  <2>2. L.ETH \in Nat /\ L.LUSDDebt \in Nat
    BY <1>1 DEF Amounts
  <2>3. Active(b)'
    BY <1>4 DEF Active
  <2>4. Pending(b)' = Amount(0, 0)
    <3>1. /\ (Troves'[b].stake * (L'.ETH - rewardSnapshots'[b].ETH)) \div DECIMAL_PRECISION = 0
          /\ (Troves'[b].stake * (L'.LUSDDebt - rewardSnapshots'[b].LUSDDebt)) \div DECIMAL_PRECISION = 0
      BY <1>1, <1>4, <1>5, <2>1, <2>2, ShareOfNothing
    <3>2. QED BY <2>3, <3>1 DEF Pending
  <2>5. c = Entire(b).ETH /\ d = Entire(b).LUSDDebt /\ c \in Nat /\ d \in Nat
    BY <1>5, <2>1 DEF Amounts
  <2> HIDE DEF c, d
  <2>6. Entire(b)' = Amount(c, d)
    BY <1>4, <2>4, <2>5 DEF Entire, Plus, Amount
  <2>7. QED BY <2>5, <2>6 DEF Keeps, Covers, Amount
<1>7. CASE ~HasPendingRewards(b)
  <2>1. rewardSnapshots'[b] = rewardSnapshots[b] /\ Applied(b) = Amount(0, 0)
    BY <1>2, <1>7 DEF AppliedSnapshot, Applied
  <2>2. c = Troves[b].coll /\ d = Troves[b].debt
    BY <1>5, <2>1 DEF Amount
  <2>3. QED BY <1>1, <1>4, <2>1, <2>2, SameShareKeeps DEF SameShare
<1>8. QED BY <1>6, <1>7

\* A quotient does not fall with its dividend.
LEMMA DivMonotone ==
    ASSUME NEW x \in Nat, NEW y \in Nat, x <= y, NEW d \in Nat, d > 0
    PROVE  x \div d <= y \div d
<1>1. /\ x \div d \in Nat /\ (x \div d) * d <= x
      /\ y \div d \in Nat /\ y < (y \div d + 1) * d
  BY DivNat
<1> DEFINE p == x \div d
           q == y \div d
<1> HIDE DEF p, q
<1>2. p * d < (q + 1) * d /\ p \in Nat /\ q \in Nat
  <2>1. p \in Nat /\ q \in Nat /\ p * d <= x /\ y < (q + 1) * d
    BY <1>1 DEF p, q
  <2>2. p * d \in Nat /\ (q + 1) * d \in Nat
    BY <2>1
  <2>3. QED BY <2>1, <2>2
<1>3. p < q + 1
  <2>1. SUFFICES ASSUME p >= q + 1 PROVE FALSE
    BY <1>2
  <2>2. p * d = (q + 1) * d + (p - (q + 1)) * d /\ p - (q + 1) \in Nat
    BY <1>2, <2>1
  <2>3. (p - (q + 1)) * d \in Nat
    BY <2>2
  <2>4. (q + 1) * d \in Nat
    BY <1>2
  <2>5. QED BY <1>2, <2>2, <2>3, <2>4
<1>4. QED BY <1>2, <1>3 DEF p, q

\* What a stake is due grows with the rewards per unit staked.
LEMMA ShareGrows ==
    ASSUME NEW s \in Nat, NEW l \in Nat, NEW m \in Nat, NEW x \in Nat, x <= l, l <= m
    PROVE  (s * (l - x)) \div DECIMAL_PRECISION <= (s * (m - x)) \div DECIMAL_PRECISION
<1>1. l - x \in Nat /\ m - x = (l - x) + (m - l) /\ m - l \in Nat
  OBVIOUS
<1>2. s * (l - x) \in Nat /\ s * (m - l) \in Nat
  BY <1>1
<1>3. s * (m - x) = s * (l - x) + s * (m - l)
  BY <1>1
<1>4. s * (m - x) \in Nat /\ s * (l - x) <= s * (m - x)
  BY <1>2, <1>3
<1>5. QED BY <1>2, <1>4, DivMonotone, ConstantFacts

LEMMA RewardsGrow ==
    ASSUME CurrentOK, CurrentOK', UNCHANGED <<Troves, rewardSnapshots>>, Covers(L', L),
           NEW b \in Borrowers
    PROVE  Keeps(b)
<1> SUFFICES ASSUME Active(b) PROVE Covers(Entire(b)', Entire(b))
  BY DEF Keeps
<1>1. /\ L \in Amounts /\ L' \in Amounts /\ rewardSnapshots[b] \in Amounts
      /\ Covers(L, rewardSnapshots[b])
  BY DEF CurrentOK, RewardsOK
<1>2. /\ L.ETH \in Nat /\ L.LUSDDebt \in Nat /\ L'.ETH \in Nat /\ L'.LUSDDebt \in Nat
      /\ rewardSnapshots[b].ETH \in Nat /\ rewardSnapshots[b].LUSDDebt \in Nat
      /\ rewardSnapshots[b].ETH <= L.ETH /\ rewardSnapshots[b].LUSDDebt <= L.LUSDDebt
      /\ L.ETH <= L'.ETH /\ L.LUSDDebt <= L'.LUSDDebt
  BY <1>1 DEF Amounts, Covers
<1>3. /\ Troves[b].coll \in Nat /\ Troves[b].debt \in Nat /\ Troves[b].stake \in Nat
      /\ Pending(b) \in Amounts /\ Entire(b) \in Amounts
      /\ Entire(b).ETH = Troves[b].coll + Pending(b).ETH
      /\ Entire(b).LUSDDebt = Troves[b].debt + Pending(b).LUSDDebt
  BY PendingAmounts
<1>4. Pending(b).ETH \in Nat /\ Pending(b).LUSDDebt \in Nat
  BY <1>3 DEF Amounts
<1> DEFINE e == (Troves[b].stake * (L'.ETH - rewardSnapshots[b].ETH)) \div DECIMAL_PRECISION
           d == (Troves[b].stake * (L'.LUSDDebt - rewardSnapshots[b].LUSDDebt)) \div DECIMAL_PRECISION
<1>5. Pending(b)' = Amount(e, d)
  BY DEF Pending, Active
<1>6. Pending(b).ETH <= e /\ Pending(b).LUSDDebt <= d
  <2>1. /\ Pending(b).ETH = (Troves[b].stake * (L.ETH - rewardSnapshots[b].ETH)) \div DECIMAL_PRECISION
        /\ Pending(b).LUSDDebt = (Troves[b].stake * (L.LUSDDebt - rewardSnapshots[b].LUSDDebt)) \div DECIMAL_PRECISION
    BY DEF Pending, Amount
  <2>2. Pending(b).ETH <= e
    <3> DEFINE s == Troves[b].stake
               x == rewardSnapshots[b].ETH
               l == L.ETH
               m == L'.ETH
               y == Pending(b).ETH
               z == e
    <3>1. s \in Nat /\ x \in Nat /\ l \in Nat /\ m \in Nat /\ x <= l /\ l <= m
      BY <1>2, <1>3
    <3>2. y = (s * (l - x)) \div DECIMAL_PRECISION /\ z = (s * (m - x)) \div DECIMAL_PRECISION
      BY <2>1
    <3> HIDE DEF s, x, l, m, y, z
    <3>3. (s * (l - x)) \div DECIMAL_PRECISION <= (s * (m - x)) \div DECIMAL_PRECISION
      BY <3>1, ShareGrows
    <3>4. y <= z
      BY <3>2, <3>3
    <3>5. QED BY <3>4 DEF y, z
  <2>3. Pending(b).LUSDDebt <= d
    <3> DEFINE s == Troves[b].stake
               x == rewardSnapshots[b].LUSDDebt
               l == L.LUSDDebt
               m == L'.LUSDDebt
               y == Pending(b).LUSDDebt
               z == d
    <3>1. s \in Nat /\ x \in Nat /\ l \in Nat /\ m \in Nat /\ x <= l /\ l <= m
      BY <1>2, <1>3
    <3>2. y = (s * (l - x)) \div DECIMAL_PRECISION /\ z = (s * (m - x)) \div DECIMAL_PRECISION
      BY <2>1
    <3> HIDE DEF s, x, l, m, y, z
    <3>3. (s * (l - x)) \div DECIMAL_PRECISION <= (s * (m - x)) \div DECIMAL_PRECISION
      BY <3>1, ShareGrows
    <3>4. y <= z
      BY <3>2, <3>3
    <3>5. QED BY <3>4 DEF y, z
  <2>4. QED BY <2>2, <2>3
<1>7. e \in Nat /\ d \in Nat
  <2>1. /\ Troves[b].stake * (L'.ETH - rewardSnapshots[b].ETH) \in Nat
        /\ Troves[b].stake * (L'.LUSDDebt - rewardSnapshots[b].LUSDDebt) \in Nat
    <3>1. L'.ETH - rewardSnapshots[b].ETH \in Nat /\ L'.LUSDDebt - rewardSnapshots[b].LUSDDebt \in Nat
      BY <1>2
    <3>2. QED BY <1>3, <3>1
  <2>2. QED BY <2>1, DivNat, ConstantFacts
<1> HIDE DEF e, d
<1>8. Entire(b)' = Amount(Troves[b].coll + e, Troves[b].debt + d)
  BY <1>5 DEF Entire, Plus, Amount
<1>9. QED BY <1>3, <1>4, <1>6, <1>7, <1>8 DEF Covers, Amount

\* Redistribution adds to the rewards per unit staked.
LEMMA RedistributeAdds ==
    ASSUME CurrentOK, LocalOK, Redistribute
    PROVE  Covers(L', L)
<1>1. L \in Amounts /\ lastError \in Amounts /\ totalStakes \in Nat
  BY DEF CurrentOK, RewardsOK, StakesOK
<1>2. CASE totals.DebtToRedistribute = 0
  BY <1>1, <1>2, CoversItself DEF Redistribute, rewards
<1>3. CASE totals.DebtToRedistribute # 0
  <2> DEFINE n == Numerators(Redistributed)
             e == n.ETH \div totalStakes
             d == n.LUSDDebt \div totalStakes
  <2>1. totalStakes > 0 /\ L' = Plus(L, Amount(e, d))
    BY <1>3 DEF Redistribute
  <2>2. n.ETH \in Nat /\ n.LUSDDebt \in Nat
    <3>1. Redistributed.ETH \in Nat /\ Redistributed.LUSDDebt \in Nat
      BY TotalsIs DEF Redistributed, LocalOK, Amount
    <3>2. Redistributed.ETH * DECIMAL_PRECISION \in Nat
          /\ Redistributed.LUSDDebt * DECIMAL_PRECISION \in Nat
      BY <3>1, ConstantFacts
    <3>3. Amount(Redistributed.ETH * DECIMAL_PRECISION,
                 Redistributed.LUSDDebt * DECIMAL_PRECISION) \in Amounts
      BY <3>2 DEF Amount, Amounts
    <3>4. QED BY <1>1, <3>3, AmountArithmetic DEF Numerators, Amounts
  <2> HIDE DEF n
  <2>3. e \in Nat /\ d \in Nat
    BY <1>1, <2>1, <2>2, DivNat
  <2> HIDE DEF e, d
  <2>4. L' = Amount(L.ETH + e, L.LUSDDebt + d)
    BY <2>1 DEF Plus, Amount
  <2>5. QED BY <1>1, <2>3, <2>4 DEF Covers, Amount, Amounts
<1>4. QED BY <1>2, <1>3

-----------------------------------------------------------------------------
(* The steps *)

LEMMA BorrowerStepKeeps ==
    ASSUME IInv, BorrowerStep, NEW b \in Borrowers
    PROVE  Keeps(b) \/ AdjustOwnTrove(b)
<1>0. CurrentOK /\ Troves \in [Borrowers -> TroveRecords]
      /\ rewardSnapshots \in [Borrowers -> Amounts]
  BY DEF IInv, CurrentOK, BookOK, RewardsOK
<1>1. ASSUME NEW x \in Borrowers, NEW coll, NEW amount, NEW fee, OpenTrove(x, coll, amount, fee)
      PROVE  Keeps(b)
  <2>1. CASE b = x
    BY <1>1, <2>1 DEF OpenTrove, Keeps
  <2>2. CASE b # x
    <3>1. Troves'[b] = Troves[b] /\ rewardSnapshots'[b] = rewardSnapshots[b] /\ UNCHANGED rewards
      BY <1>0, <1>1, <2>2 DEF OpenTrove
    <3>2. QED BY <1>0, <2>2, <3>1, RewriteKeepsOthers
  <2>3. QED BY <2>1, <2>2
<1>2. ASSUME NEW x \in Borrowers, NEW w, NEW t, NEW d, NEW inc, NEW fee,
             AdjustTrove(x, w, t, d, inc, fee), b # x
      PROVE  Keeps(b)
  <2>1. Troves'[b] = Troves[b] /\ rewardSnapshots'[b] = rewardSnapshots[b] /\ UNCHANGED rewards
    BY <1>0, <1>2 DEF AdjustTrove
  <2>2. QED BY <1>0, <1>2, <2>1, RewriteKeepsOthers
<1>3. ASSUME NEW x \in Borrowers, CloseOwnTrove(x)
      PROVE  Keeps(b)
  BY <1>0, <1>3, CloseKeeps DEF CloseOwnTrove
<1>4. ASSUME NEW x \in Borrowers, ClaimCollateral(x)
      PROVE  Keeps(b)
  BY <1>0, <1>4, QuietKeeps DEF ClaimCollateral
<1>5. ASSUME NEW x \in Borrowers, AdjustOwnTrove(x), b # x
      PROVE  Keeps(b)
  BY <1>2, <1>5 DEF AdjustOwnTrove
<1>6. QED BY <1>1, <1>3, <1>4, <1>5 DEF BorrowerStep

LEMMA LiquidationStepKeeps ==
    ASSUME IInv, LiquidationStep, NEW b \in Borrowers
    PROVE  Keeps(b)
<1>0. CurrentOK /\ LocalOK
  BY DEF IInv
<1>1. ASSUME NEW x \in Borrowers, NEW v, LiquidateTrove(x, v)
      PROVE  Keeps(b)
  BY <1>0, <1>1, CloseKeeps DEF LiquidateTrove
<1>2. ASSUME NEW x \in Borrowers, LiquidateInRecoveryMode(x) \/ LiquidateInNormalMode(x)
      PROVE  Keeps(b)
  BY <1>1, <1>2 DEF LiquidateInRecoveryMode, LiquidateInNormalMode
<1>3. ASSUME NEW op, BeginLiquidation(op)
      PROVE  Keeps(b)
  BY <1>0, <1>3, QuietKeeps DEF BeginLiquidation
<1>4. ASSUME NEW x, PassOver(x)
      PROVE  Keeps(b)
  BY <1>0, <1>4, QuietKeeps DEF PassOver
<1>5. CASE FinishLiquidation
  <2>1. CurrentOK'
    BY <1>5, FinishLiquidationOK DEF IInv
  <2>2. Covers(L', L) /\ UNCHANGED <<Troves, rewardSnapshots>>
    BY <1>0, <1>5, RedistributeAdds DEF FinishLiquidation
  <2>3. QED BY <1>0, <2>1, <2>2, RewardsGrow
<1>6. QED BY <1>2, <1>3, <1>4, <1>5 DEF LiquidationStep

LEMMA RedemptionStepKeeps ==
    ASSUME IInv, RedemptionStep, NEW b \in Borrowers
    PROVE  Keeps(b) \/ RedeemPart(b)
<1>0. CurrentOK /\ Troves \in [Borrowers -> TroveRecords]
      /\ rewardSnapshots \in [Borrowers -> Amounts]
  BY DEF IInv, CurrentOK, BookOK, RewardsOK
<1>1. ASSUME NEW amount, NEW x, BeginRedemption(amount, x)
      PROVE  Keeps(b)
  BY <1>0, <1>1, QuietKeeps DEF BeginRedemption
<1>2. ASSUME NEW x \in Borrowers, RedeemWholeTrove(x)
      PROVE  Keeps(b)
  BY <1>0, <1>2, CloseKeeps DEF RedeemWholeTrove
<1>3. ASSUME NEW x \in Borrowers, RedeemPart(x), b # x
      PROVE  Keeps(b)
  <2>1. Troves'[b] = Troves[b] /\ rewardSnapshots'[b] = rewardSnapshots[b] /\ UNCHANGED rewards
    BY <1>0, <1>3 DEF RedeemPart
  <2>2. QED BY <1>0, <1>3, <2>1, RewriteKeepsOthers
<1>4. ASSUME NEW x \in Borrowers, CancelPartial(x)
      PROVE  Keeps(b)
  <2>1. /\ Troves' = [Troves EXCEPT ![x] = AppliedTrove(x)]
        /\ rewardSnapshots' = [rewardSnapshots EXCEPT ![x] = AppliedSnapshot(x)]
        /\ UNCHANGED rewards
    BY <1>4 DEF CancelPartial
  <2>2. CASE b = x
    BY <1>0, <2>1, <2>2, AppliedKeeps DEF Keeps
  <2>3. CASE b # x
    <3>1. Troves'[b] = Troves[b] /\ rewardSnapshots'[b] = rewardSnapshots[b]
      BY <1>0, <2>1, <2>3
    <3>2. QED BY <1>0, <2>1, <2>3, <3>1, RewriteKeepsOthers
  <2>4. QED BY <2>2, <2>3
<1>5. CASE FinishRedemption
  BY <1>0, <1>5, QuietKeeps DEF FinishRedemption
<1>6. QED BY <1>1, <1>2, <1>3, <1>4, <1>5 DEF RedemptionStep

LEMMA EnvironmentStepKeeps ==
    ASSUME IInv, EnvironmentStep, NEW b \in Borrowers
    PROVE  Keeps(b)
<1>1. UNCHANGED book
  BY DEF EnvironmentStep, ProvideToSP, WithdrawFromSP, SetPrice
<1>2. QED BY <1>1, QuietKeeps DEF IInv

\* A trove that stays open owns and owes all it did, unless its owner adjusts it
\* or it is redeemed from: liquidations only add to it, however the divisions of
\* the redistribution round, and a redemption that is cancelled changes nothing.
THEOREM TrovesOnlyGain == Spec => OthersOnlyGain
<1>1. IInv /\ [Next]_vars =>
        [\A b \in Borrowers : Active(b) /\ Active(b)' =>
           Covers(Entire(b)', Entire(b)) \/ RedeemPart(b) \/ AdjustOwnTrove(b) \/ Revert]_vars
  <2> SUFFICES ASSUME IInv, Next, NEW b \in Borrowers, ~Revert
               PROVE  Keeps(b) \/ RedeemPart(b) \/ AdjustOwnTrove(b)
    BY DEF Keeps
  <2>1. QED
    BY BorrowerStepKeeps, LiquidationStepKeeps, RedemptionStepKeeps, EnvironmentStepKeeps
       DEF Next
<1>2. QED BY <1>1, LedgerInvariant, PTL DEF Spec, OthersOnlyGain

-----------------------------------------------------------------------------
(* What a liquidation and a redemption keep in memory *)

\* Whatever a liquidation takes has one destination: collateral goes to the
\* Stability Pool, the other troves, the owner's claim or the liquidator, and
\* debt to the first two; nothing goes where no debt goes.
Split(v) ==
    /\ v.CollInSequence = v.CollToSendToSP + v.CollToRedistribute + v.CollSurplus
                            + v.CollGasCompensation
    /\ v.DebtInSequence = v.DebtToOffset + v.DebtToRedistribute
    /\ v.DebtToOffset = 0 => v.CollToSendToSP = 0
    /\ v.DebtToRedistribute = 0 => v.CollToRedistribute = 0

\* Only the operation under way has totals; what is left of the Stability
\* Pool for its next trove is what the pool holds less what is to be offset.
MemoryOK ==
    /\ Settled
    /\ ~Redeeming => redemption = NoRedemption
    /\ Liquidating => tx.sp + totals.DebtToOffset = arth.stabilityPool
    /\ Split(totals)

\* Taking all of the debt takes all of the collateral, and nothing of it none.
LEMMA OffsetOfAll ==
    ASSUME NEW debt \in Nat, debt > 0, NEW coll \in Nat, NEW sp \in Nat
    PROVE  /\ Offset(debt, coll, sp).LUSDDebt = 0 => Offset(debt, coll, sp).ETH = 0
           /\ Offset(debt, coll, sp).LUSDDebt = debt => Offset(debt, coll, sp).ETH = coll
<1> DEFINE off == Min2(debt, sp)
<1>1. off \in Nat
  BY DEF Min2
<1> HIDE DEF off
<1>2. CASE sp > 0
  <2>1. Offset(debt, coll, sp) = Amount((coll * off) \div debt, off)
    BY <1>2 DEF Offset, off
  <2>2. CASE off = 0
    <3>1. (coll * off) \div debt = 0
      BY <2>2
    <3>2. QED BY <2>1, <2>2, <3>1 DEF Amount
  <2>3. CASE off = debt
    <3>1. coll * debt \in Nat
      OBVIOUS
    <3>2. (coll * debt) \div debt = coll
      <4> DEFINE q == (coll * debt) \div debt
      <4>1. q \in Nat /\ q * debt <= coll * debt /\ coll * debt < (q + 1) * debt
        BY <3>1, DivNat
      <4> HIDE DEF q
      <4>2. q <= coll
        <5>1. SUFFICES ASSUME q >= coll + 1 PROVE FALSE
          BY <4>1
        <5>2. q * debt = (coll + 1) * debt + (q - (coll + 1)) * debt /\ q - (coll + 1) \in Nat
          BY <4>1, <5>1
        <5>3. (q - (coll + 1)) * debt \in Nat /\ (coll + 1) * debt = coll * debt + debt
          BY <5>2
        <5>4. QED BY <3>1, <4>1, <5>2, <5>3
      <4>3. coll < q + 1
        <5>1. SUFFICES ASSUME coll >= q + 1 PROVE FALSE
          BY <4>1
        <5>2. coll * debt = (q + 1) * debt + (coll - (q + 1)) * debt /\ coll - (q + 1) \in Nat
          BY <4>1, <5>1
        <5>3. (coll - (q + 1)) * debt \in Nat /\ (q + 1) * debt \in Nat
          BY <5>2, <4>1
        <5>4. QED BY <3>1, <4>1, <5>2, <5>3
      <4>4. q = coll
        BY <4>1, <4>2, <4>3
      <4>5. QED BY <4>4 DEF q
    <3>3. QED BY <2>1, <2>3, <3>2 DEF Amount
  <2>4. QED BY <2>1, <2>2, <2>3 DEF Amount
<1>3. CASE sp = 0
  BY <1>3 DEF Offset, Amount
<1>4. QED BY <1>2, <1>3

\* _getOffsetAndRedistributionVals leaves no remainder.
LEMMA FullValuesSplit ==
    ASSUME CurrentOK, NEW b \in Borrowers, Entire(b).LUSDDebt > 0, NEW sp \in Nat
    PROVE  /\ Split(FullValues(b, sp))
           /\ FullValues(b, sp).CollInSequence = Entire(b).ETH
           /\ FullValues(b, sp).DebtInSequence = Entire(b).LUSDDebt
           /\ FullValues(b, sp).CollSurplus = 0
<1> DEFINE e == Entire(b).ETH
           d == Entire(b).LUSDDebt
           gas == CollGasCompensation(e)
           c == e - gas
           off == Offset(d, c, sp)
           r1 == d - off.LUSDDebt
           r2 == c - off.ETH
           oe == off.ETH
           od == off.LUSDDebt
<1>1. e \in Nat /\ d \in Nat /\ d > 0
  BY PendingAmounts DEF Amounts
<1>2. FullValues(b, sp) = [NoTotals EXCEPT !.CollInSequence = e,
           !.DebtInSequence = d, !.CollGasCompensation = gas,
           !.LUSDGasCompensation = LUSD_GAS_COMPENSATION, !.DebtToOffset = od,
           !.CollToSendToSP = oe, !.DebtToRedistribute = r1, !.CollToRedistribute = r2]
  BY DEF FullValues
<1> HIDE DEF e, d
<1>3. gas \in Nat /\ gas <= e /\ c \in Nat /\ e = c + gas
  BY <1>1, GasIsAPart
<1> HIDE DEF gas, c
<1>4. /\ oe \in Nat /\ od \in Nat /\ od <= d /\ oe <= c
      /\ od = 0 => oe = 0
      /\ od = d => oe = c
  BY <1>1, <1>3, OffsetIsAPart, OffsetOfAll
<1> HIDE DEF off, oe, od
<1>5. r1 = d - od /\ r2 = c - oe
  BY DEF od, oe
<1> HIDE DEF r1, r2
<1>6. /\ FullValues(b, sp).CollInSequence = e /\ FullValues(b, sp).DebtInSequence = d
      /\ FullValues(b, sp).CollGasCompensation = gas /\ FullValues(b, sp).DebtToOffset = od
      /\ FullValues(b, sp).CollToSendToSP = oe /\ FullValues(b, sp).DebtToRedistribute = r1
      /\ FullValues(b, sp).CollToRedistribute = r2 /\ FullValues(b, sp).CollSurplus = 0
  BY <1>2 DEF NoTotals
<1>7. /\ e = oe + r2 + 0 + gas /\ d = od + r1
      /\ od = 0 => oe = 0
      /\ r1 = 0 => r2 = 0
  BY <1>1, <1>3, <1>4, <1>5
<1>8. QED BY <1>6, <1>7 DEF Split, e, d

\* Nor does _getCappedOffsetVals.
LEMMA CappedValuesSplit ==
    ASSUME CurrentOK, price \in Prices, NEW b \in Borrowers, CurrentICR(b) >= MCR,
           Entire(b).LUSDDebt > 0
    PROVE  /\ Split(CappedValues(b))
           /\ CappedValues(b).CollInSequence = Entire(b).ETH
           /\ CappedValues(b).DebtInSequence = Entire(b).LUSDDebt
<1> DEFINE c == Entire(b).ETH
           d == Entire(b).LUSDDebt
           toOffset == (d * MCR) \div price
           gas == CollGasCompensation(toOffset)
           r1 == toOffset - gas
           r2 == c - toOffset
<1>1. CappedValues(b) = [NoTotals EXCEPT !.CollInSequence = c, !.DebtInSequence = d,
           !.CollGasCompensation = gas, !.LUSDGasCompensation = LUSD_GAS_COMPENSATION,
           !.DebtToOffset = d, !.CollToSendToSP = r1, !.CollSurplus = r2]
  BY DEF CappedValues
<1>2. c \in Nat /\ d \in Nat /\ d > 0 /\ price \in Nat /\ price > 0 /\ MCR \in Nat
  BY PendingAmounts, ConstantFacts DEF Amounts
<1>3. toOffset \in Nat
  <2>1. d * MCR \in Nat
    BY <1>2
  <2>2. QED BY <2>1, <1>2, DivNat
<1>4. gas \in Nat
  BY <1>3, GasIsAPart
<1>5. c = r1 + 0 + r2 + gas /\ d = d + 0
  <2> HIDE DEF c, d, gas, toOffset
  <2>1. QED BY <1>2, <1>3, <1>4
<1> HIDE DEF c, d, toOffset, gas, r1, r2
<1>6. /\ CappedValues(b).CollInSequence = c /\ CappedValues(b).DebtInSequence = d
      /\ CappedValues(b).CollGasCompensation = gas /\ CappedValues(b).DebtToOffset = d
      /\ CappedValues(b).CollToSendToSP = r1 /\ CappedValues(b).DebtToRedistribute = 0
      /\ CappedValues(b).CollToRedistribute = 0 /\ CappedValues(b).CollSurplus = r2
  BY <1>1 DEF NoTotals
<1>7. QED BY <1>2, <1>5, <1>6 DEF Split, c, d

\* A trove that a loop of liquidations closes, and its values.
LoopCloses(b, v) ==
    /\ Active(b) /\ LiquidateTrove(b, v)
    /\ v \in [DOMAIN NoTotals -> Nat] /\ Split(v)
    /\ v.CollInSequence = Entire(b).ETH /\ v.DebtInSequence = Entire(b).LUSDDebt
    /\ v.DebtToOffset <= tx.sp /\ tx'.sp = tx.sp - v.DebtToOffset
    /\ Liquidating /\ tx'.op = tx.op

\* In recovery mode.
LEMMA RecoveryStepCloses ==
    ASSUME IInv, NEW b \in Borrowers, LiquidateInRecoveryMode(b)
    PROVE  LoopCloses(b, RecoveryValues(b))
<1> DEFINE v == RecoveryValues(b)
           c == tx.sysColl - TakenOff(v)
           d == tx.sysDebt - v.DebtToOffset
<1>1. CurrentOK /\ LocalOK /\ InRecovery /\ (CurrentICR(b) < MCR \/ Capped(b))
  BY DEF IInv, LiquidateInRecoveryMode
<1>2. Active(b) /\ v \in [DOMAIN NoTotals -> Nat] /\ v.DebtToOffset <= tx.sp
  BY <1>1, RecoveryValuesOK
<1>3. /\ tx \in TxRecords /\ tx.sp \in Nat /\ price \in Prices
      /\ TrackedTCR \in Nat /\ CurrentICR(b) \in Nat /\ TrackedTCR < CCR
  BY <1>1, RatioNat, PendingAmounts, ConstantFacts
     DEF LocalOK, TxRecords, TrackedTCR, CurrentICR, Amounts
<1>4. Entire(b).LUSDDebt > 0
  <2>1. CASE CurrentICR(b) < MCR
    BY <1>1, <2>1, Riskiest
  <2>2. CASE Capped(b)
    <3>1. CurrentICR(b) # MAX_UINT
      BY <1>3, <2>2, ConstantFacts DEF Capped
    <3>2. Entire(b).LUSDDebt \in Nat
      BY <1>1, PendingAmounts DEF Amounts
    <3>3. QED BY <3>1, <3>2 DEF CurrentICR, ComputeCR
  <2>3. QED BY <1>1, <2>1, <2>2
<1>5. Split(v) /\ v.CollInSequence = Entire(b).ETH /\ v.DebtInSequence = Entire(b).LUSDDebt
  <2>1. CASE CurrentICR(b) < MCR
    BY <1>1, <1>3, <1>4, <2>1, FullValuesSplit DEF RecoveryValues
  <2>2. CASE ~(CurrentICR(b) < MCR)
    <3>1. CurrentICR(b) >= MCR /\ ~(CurrentICR(b) <= DECIMAL_PRECISION)
      BY <1>3, <2>2, ConstantFacts
    <3>2. QED BY <1>1, <1>3, <1>4, <2>2, <3>1, CappedValuesSplit DEF RecoveryValues
  <2>3. QED BY <2>1, <2>2
<1>6. /\ LiquidateTrove(b, v)
      /\ tx' = [tx EXCEPT !.user = NextUser(b), !.sp = @ - v.DebtToOffset,
                  !.sysDebt = @ - v.DebtToOffset, !.sysColl = @ - TakenOff(v),
                  !.back = BackToNormal(d, c)]
  BY DEF LiquidateInRecoveryMode
<1> HIDE DEF v, c, d
<1>7. tx'.sp = tx.sp - v.DebtToOffset /\ tx'.op = tx.op
  BY <1>3, <1>6 DEF TxRecords
<1>8. QED BY <1>1, <1>2, <1>5, <1>6, <1>7 DEF LoopCloses, InRecovery, v

\* In normal mode.
LEMMA NormalStepCloses ==
    ASSUME IInv, NEW b \in Borrowers, LiquidateInNormalMode(b)
    PROVE  LoopCloses(b, FullValues(b, tx.sp))
<1> DEFINE v == FullValues(b, tx.sp)
<1>1. CurrentOK /\ LocalOK
  BY DEF IInv
<1>2. tx \in TxRecords /\ tx.sp \in Nat
  BY <1>1 DEF LocalOK, TxRecords
<1>3. Active(b) /\ Entire(b).LUSDDebt > 0
  BY <1>1, Riskiest DEF LiquidateInNormalMode
<1>4. v \in [DOMAIN NoTotals -> Nat] /\ v.DebtToOffset <= tx.sp
  BY <1>1, <1>2, <1>3, FullValuesOK
<1>5. Split(v) /\ v.CollInSequence = Entire(b).ETH /\ v.DebtInSequence = Entire(b).LUSDDebt
  BY <1>1, <1>2, <1>3, FullValuesSplit
<1>6. /\ LiquidateTrove(b, v) /\ Liquidating
      /\ tx' = [tx EXCEPT !.user = NextUser(b), !.sp = @ - v.DebtToOffset]
  BY DEF LiquidateInNormalMode
<1> HIDE DEF v
<1>7. tx'.sp = tx.sp - v.DebtToOffset /\ tx'.op = tx.op
  BY <1>2, <1>6 DEF TxRecords
<1>8. QED BY <1>3, <1>4, <1>5, <1>6, <1>7 DEF LoopCloses, v

\* Either way.
LEMMA LoopStepCloses ==
    ASSUME IInv, NEW b \in Borrowers, LiquidateInRecoveryMode(b) \/ LiquidateInNormalMode(b)
    PROVE  \E v : LoopCloses(b, v)
BY RecoveryStepCloses, NormalStepCloses

\* The values of one more trove are added field by field.
LEMMA AddedValues ==
    ASSUME LocalOK, NEW b \in Borrowers, NEW v, LoopCloses(b, v)
    PROVE  \A f \in DOMAIN NoTotals : /\ totals[f] \in Nat /\ v[f] \in Nat
                                      /\ totals'[f] = totals[f] + v[f]
BY DEF LocalOK, LoopCloses, LiquidateTrove, AddLiquidationValues

\* Two splits add up to a split.
LEMMA SplitsAdd ==
    ASSUME LocalOK, NEW b \in Borrowers, NEW v, LoopCloses(b, v), Split(totals)
    PROVE  Split(totals')
<1>1. \A f \in DOMAIN NoTotals : /\ totals[f] \in Nat /\ v[f] \in Nat
                                 /\ totals'[f] = totals[f] + v[f]
  BY AddedValues
<1>2. Split(v)
  BY DEF LoopCloses
<1>3. /\ totals.CollInSequence \in Nat /\ v.CollInSequence \in Nat
      /\ totals'.CollInSequence = totals.CollInSequence + v.CollInSequence
      /\ totals.DebtInSequence \in Nat /\ v.DebtInSequence \in Nat
      /\ totals'.DebtInSequence = totals.DebtInSequence + v.DebtInSequence
      /\ totals.CollGasCompensation \in Nat /\ v.CollGasCompensation \in Nat
      /\ totals'.CollGasCompensation = totals.CollGasCompensation + v.CollGasCompensation
      /\ totals.CollSurplus \in Nat /\ v.CollSurplus \in Nat
      /\ totals'.CollSurplus = totals.CollSurplus + v.CollSurplus
  BY <1>1, TotalsIs
<1>4. /\ totals.DebtToOffset \in Nat /\ v.DebtToOffset \in Nat
      /\ totals'.DebtToOffset = totals.DebtToOffset + v.DebtToOffset
      /\ totals.CollToSendToSP \in Nat /\ v.CollToSendToSP \in Nat
      /\ totals'.CollToSendToSP = totals.CollToSendToSP + v.CollToSendToSP
      /\ totals.DebtToRedistribute \in Nat /\ v.DebtToRedistribute \in Nat
      /\ totals'.DebtToRedistribute = totals.DebtToRedistribute + v.DebtToRedistribute
      /\ totals.CollToRedistribute \in Nat /\ v.CollToRedistribute \in Nat
      /\ totals'.CollToRedistribute = totals.CollToRedistribute + v.CollToRedistribute
  BY <1>1, TotalsIs
<1>5. Split(totals)
  OBVIOUS
<1>6. totals'.CollInSequence = totals'.CollToSendToSP + totals'.CollToRedistribute
                                 + totals'.CollSurplus + totals'.CollGasCompensation
  <2>1. /\ v.CollInSequence = v.CollToSendToSP + v.CollToRedistribute + v.CollSurplus
                                + v.CollGasCompensation
        /\ totals.CollInSequence = totals.CollToSendToSP + totals.CollToRedistribute
                                     + totals.CollSurplus + totals.CollGasCompensation
    BY <1>2, <1>5 DEF Split
  <2>2. QED BY <1>3, <1>4, <2>1
<1>7. totals'.DebtInSequence = totals'.DebtToOffset + totals'.DebtToRedistribute
  BY <1>2, <1>3, <1>4, <1>5 DEF Split
<1>8. /\ totals'.DebtToOffset = 0 => totals'.CollToSendToSP = 0
      /\ totals'.DebtToRedistribute = 0 => totals'.CollToRedistribute = 0
  <2>1. /\ v.DebtToOffset = 0 => v.CollToSendToSP = 0
        /\ v.DebtToRedistribute = 0 => v.CollToRedistribute = 0
        /\ totals.DebtToOffset = 0 => totals.CollToSendToSP = 0
        /\ totals.DebtToRedistribute = 0 => totals.CollToRedistribute = 0
    BY <1>2, <1>5 DEF Split
  <2>2. totals'.DebtToOffset = 0 => totals.DebtToOffset = 0 /\ v.DebtToOffset = 0
    BY <1>4
  <2>3. totals'.DebtToRedistribute = 0 => totals.DebtToRedistribute = 0 /\ v.DebtToRedistribute = 0
    BY <1>4
  <2>4. totals'.DebtToOffset = 0 => totals'.CollToSendToSP = 0
    BY <1>4, <2>1, <2>2
  <2>5. totals'.DebtToRedistribute = 0 => totals'.CollToRedistribute = 0
    BY <1>4, <2>1, <2>3
  <2>6. QED BY <2>4, <2>5
<1>9. QED BY <1>6, <1>7, <1>8 DEF Split

\* Every step keeps what the memory says.
LEMMA MemoryStep ==
    ASSUME IInv, MemoryOK, [Next]_vars
    PROVE  MemoryOK'
<1>0. CurrentOK /\ LocalOK /\ Settled' /\ Split(NoTotals)
  BY SettledStep DEF IInv, MemoryOK, Split, NoTotals
<1>1. CASE tx' = IdleTx /\ totals' = NoTotals /\ redemption' = NoRedemption
  <2>1. ~Redeeming' /\ ~Liquidating'
    BY <1>1 DEF IdleTx, Redeeming, Liquidating
  <2>2. QED BY <1>0, <1>1, <2>1 DEF MemoryOK
<1>2. CASE UNCHANGED local /\ (arth' = arth \/ Idle)
  BY <1>0, <1>2 DEF MemoryOK, local, Liquidating, Redeeming, Idle
<1>3. CASE BorrowerStep \/ EnvironmentStep
  BY <1>2, <1>3, OneStepTransactions
<1>4. CASE LiquidationStep
  <2>1. ASSUME NEW op \in {"sequence", "batch"}, BeginLiquidation(op) PROVE MemoryOK'
    <3>1. /\ ~Redeeming /\ ~Liquidating /\ totals' = totals /\ redemption' = redemption
          /\ tx'.sp = arth.stabilityPool /\ arth' = arth
      BY <2>1 DEF BeginLiquidation, Begin, Idle, Redeeming, Liquidating, pools
    <3>2. totals' = NoTotals /\ redemption' = NoRedemption
      BY <3>1 DEF MemoryOK, Settled
    <3>3. totals'.DebtToOffset = 0 /\ arth.stabilityPool \in Nat
      BY <3>2, <1>0, ArthIs DEF NoTotals
    <3>4. QED BY <1>0, <3>1, <3>2, <3>3 DEF MemoryOK
  <2>2. ASSUME NEW b \in Borrowers, LiquidateInRecoveryMode(b) \/ LiquidateInNormalMode(b)
        PROVE  MemoryOK'
    <3>1. PICK v : LoopCloses(b, v)
      BY <2>2, LoopStepCloses
    <3>2. Split(totals')
      BY <1>0, <3>1, SplitsAdd DEF MemoryOK
    <3>3. totals.DebtToOffset \in Nat /\ v.DebtToOffset \in Nat
          /\ totals'.DebtToOffset = totals.DebtToOffset + v.DebtToOffset
      BY <1>0, <3>1, AddedValues, TotalsIs
    <3>4. /\ tx'.sp = tx.sp - v.DebtToOffset /\ tx'.op = tx.op /\ Liquidating
          /\ arth' = arth /\ redemption' = redemption
      BY <3>1 DEF LoopCloses, LiquidateTrove
    <3>5. tx.sp \in Nat /\ arth.stabilityPool \in Nat
          /\ tx.sp + totals.DebtToOffset = arth.stabilityPool
      BY <1>0, <3>4, ArthIs DEF LocalOK, TxRecords, MemoryOK
    <3>6. tx'.sp + totals'.DebtToOffset = arth'.stabilityPool
      BY <3>3, <3>4, <3>5
    <3>7. redemption' = NoRedemption
      BY <3>4 DEF Liquidating, Redeeming, MemoryOK
    <3>8. QED BY <1>0, <3>2, <3>6, <3>7 DEF MemoryOK
  <2>3. ASSUME NEW b \in Borrowers, PassOver(b) PROVE MemoryOK'
    <3>1. tx'.op = tx.op
      BY <2>3, <1>0, SameOperation
    <3>2. tx \in TxRecords
      BY <1>0 DEF LocalOK
    <3>3. tx'.sp = tx.sp
      BY <3>2, <2>3 DEF PassOver, TxRecords
    <3>4. totals' = totals /\ redemption' = redemption /\ arth' = arth
      BY <2>3 DEF PassOver, pools
    <3>5. QED BY <1>0, <3>1, <3>3, <3>4 DEF MemoryOK, Liquidating, Redeeming
  <2>4. CASE FinishLiquidation
    BY <2>4, <1>1 DEF FinishLiquidation, Return
  <2>5. QED BY <1>4, <2>1, <2>2, <2>3, <2>4 DEF LiquidationStep
<1>5. CASE RedemptionStep
  <2>1. ASSUME NEW b \in Borrowers, NEW amount, BeginRedemption(amount, b) PROVE MemoryOK'
    <3>1. tx'.op = "redemption" /\ totals' = totals
      BY <2>1 DEF BeginRedemption, IdleTx
    <3>2. QED BY <1>0, <3>1 DEF MemoryOK, Liquidating, Redeeming
  <2>2. ASSUME NEW b \in Borrowers, RedeemWholeTrove(b) \/ RedeemPart(b) \/ CancelPartial(b)
        PROVE  MemoryOK'
    <3>1. tx'.op = tx.op
      BY <2>2, <1>0, SameOperation
    <3>2. Redeeming /\ totals' = totals
      BY <2>2 DEF RedeemWholeTrove, RedeemPart, CancelPartial, Looking
    <3>3. QED BY <1>0, <3>1, <3>2 DEF MemoryOK, Liquidating, Redeeming
  <2>3. CASE FinishRedemption
    BY <2>3, <1>1 DEF FinishRedemption, Return
  <2>4. QED BY <1>5, <2>1, <2>2, <2>3 DEF RedemptionStep
<1>6. CASE Revert
  BY <1>6, <1>1 DEF Revert
<1>7. CASE UNCHANGED vars
  BY <1>7, <1>2 DEF vars, pools
<1>8. QED BY <1>3, <1>4, <1>5, <1>6, <1>7 DEF Next

LEMMA MemoryInit == Init => MemoryOK
<1> SUFFICES ASSUME Init PROVE MemoryOK
  OBVIOUS
<1>1. tx = IdleTx /\ totals = NoTotals /\ redemption = NoRedemption
  BY DEF Init
<1>2. QED BY <1>1 DEF MemoryOK, Settled, Liquidating, Redeeming, IdleTx, Split, NoTotals

\* The memory keeps to it in every state.
LEMMA MemoryInvariant == Spec => [](IInv /\ MemoryOK)
<1>1. IInv /\ MemoryOK /\ [Next]_vars => (IInv /\ MemoryOK)'
  BY StepOK, MemoryStep
<1>2. QED BY <1>1, InitOK, MemoryInit, PTL DEF Spec

-----------------------------------------------------------------------------
(* What the pools and the stakes add up to *)

\* A field of all troves, by owner, and the sum over all owners.
Colls(f) == [b \in Borrowers |-> f[b].coll]
Debts(f) == [b \in Borrowers |-> f[b].debt]
Stakes(f) == [b \in Borrowers |-> f[b].stake]
SumOf(f) == SumFunctionOnSet(f, Borrowers)

\* What a transaction under way has taken from troves and not yet sent on.
HeldColl == totals.CollInSequence + redemption.totalETHDrawn
HeldDebt == totals.DebtInSequence + redemption.totalLUSDToRedeem

\* The active pool holds what the troves record and what is held; the stakes
\* add up.
TrovesAddUp(f, stakes, active, coll, debt) ==
    /\ stakes = SumOf(Stakes(f))
    /\ active.ETH = SumOf(Colls(f)) + coll
    /\ active.LUSDDebt = SumOf(Debts(f)) + debt

\* The surplus pool holds what the claims add up to, less what is owed to it.
ClaimsAddUp(surplus, owed) == SumOf(surplus.balances) = surplus.ETH + owed

\* Now, and after a revert.
SumsOK == /\ TrovesAddUp(Troves, totalStakes, activePool, HeldColl, HeldDebt)
          /\ ClaimsAddUp(surplusPool, totals.CollSurplus)
CommittedSumsOK ==
    /\ TrovesAddUp(committed.Troves, committed.totalStakes, committed.activePool, 0, 0)
    /\ ClaimsAddUp(committed.surplusPool, 0)

\* No trove but that of b is written.
OthersKept(b) ==
    \A x \in Borrowers \ {b} : /\ Troves'[x].coll = Troves[x].coll
                               /\ Troves'[x].debt = Troves[x].debt
                               /\ Troves'[x].stake = Troves[x].stake

\* Writing one trove changes the sums by what it changes in that trove.
LEMMA WrittenSums ==
    ASSUME CurrentOK, CurrentOK', NEW b \in Borrowers, OthersKept(b)
    PROVE  /\ SumOf(Colls(Troves')) = SumOf(Colls(Troves)) - Troves[b].coll + Troves'[b].coll
           /\ SumOf(Debts(Troves')) = SumOf(Debts(Troves)) - Troves[b].debt + Troves'[b].debt
           /\ SumOf(Stakes(Troves')) = SumOf(Stakes(Troves)) - Troves[b].stake + Troves'[b].stake
<1>1. IsFiniteSet(Borrowers)
  BY BorrowersAssumption
<1>2. ASSUME NEW x \in Borrowers
      PROVE  /\ Troves[x].coll \in Int /\ Troves[x].debt \in Int /\ Troves[x].stake \in Int
             /\ Troves'[x].coll \in Int /\ Troves'[x].debt \in Int /\ Troves'[x].stake \in Int
  <2>1. Troves[x] \in TroveRecords /\ Troves'[x] \in TroveRecords
    BY DEF CurrentOK, BookOK
  <2>2. QED BY <2>1 DEF TroveRecords
<1>3. SumOf(Colls(Troves')) = SumOf(Colls(Troves)) - Troves[b].coll + Troves'[b].coll
  <2> DEFINE f == Colls(Troves)
             g == Colls(Troves')
  <2>1. /\ \A y \in Borrowers : f[y] \in Int /\ g[y] \in Int
        /\ \A y \in Borrowers \ {b} : g[y] = f[y]
    BY <1>2 DEF Colls, OthersKept
  <2>2. f[b] = Troves[b].coll /\ g[b] = Troves'[b].coll
    BY DEF Colls
  <2> HIDE DEF f, g
  <2>3. SumFunctionOnSet(g, Borrowers) = SumFunctionOnSet(f, Borrowers) - f[b] + g[b]
    BY ONLY <1>1, <2>1, SumUpdate, b \in Borrowers
  <2>4. QED BY <2>2, <2>3 DEF SumOf, f, g
<1>4. SumOf(Debts(Troves')) = SumOf(Debts(Troves)) - Troves[b].debt + Troves'[b].debt
  <2> DEFINE f == Debts(Troves)
             g == Debts(Troves')
  <2>1. /\ \A y \in Borrowers : f[y] \in Int /\ g[y] \in Int
        /\ \A y \in Borrowers \ {b} : g[y] = f[y]
    BY <1>2 DEF Debts, OthersKept
  <2>2. f[b] = Troves[b].debt /\ g[b] = Troves'[b].debt
    BY DEF Debts
  <2> HIDE DEF f, g
  <2>3. SumFunctionOnSet(g, Borrowers) = SumFunctionOnSet(f, Borrowers) - f[b] + g[b]
    BY ONLY <1>1, <2>1, SumUpdate, b \in Borrowers
  <2>4. QED BY <2>2, <2>3 DEF SumOf, f, g
<1>5. SumOf(Stakes(Troves')) = SumOf(Stakes(Troves)) - Troves[b].stake + Troves'[b].stake
  <2> DEFINE f == Stakes(Troves)
             g == Stakes(Troves')
  <2>1. /\ \A y \in Borrowers : f[y] \in Int /\ g[y] \in Int
        /\ \A y \in Borrowers \ {b} : g[y] = f[y]
    BY <1>2 DEF Stakes, OthersKept
  <2>2. f[b] = Troves[b].stake /\ g[b] = Troves'[b].stake
    BY DEF Stakes
  <2> HIDE DEF f, g
  <2>3. SumFunctionOnSet(g, Borrowers) = SumFunctionOnSet(f, Borrowers) - f[b] + g[b]
    BY ONLY <1>1, <2>1, SumUpdate, b \in Borrowers
  <2>4. QED BY <2>2, <2>3 DEF SumOf, f, g
<1>6. QED BY <1>3, <1>4, <1>5

\* The sums are integers.
LEMMA SumsAreInt ==
    ASSUME CurrentOK
    PROVE  /\ SumOf(Colls(Troves)) \in Int /\ SumOf(Debts(Troves)) \in Int
           /\ SumOf(Stakes(Troves)) \in Int /\ SumOf(surplusPool.balances) \in Int
           /\ surplusPool.ETH \in Nat
<1>1. IsFiniteSet(Borrowers)
  BY BorrowersAssumption
<1>2. ASSUME NEW x \in Borrowers
      PROVE  Troves[x].coll \in Int /\ Troves[x].debt \in Int /\ Troves[x].stake \in Int
  <2>1. Troves[x] \in TroveRecords
    BY DEF CurrentOK, BookOK
  <2>2. QED BY <2>1 DEF TroveRecords
<1>3. surplusPool \in [ETH : Nat, balances : [Borrowers -> Nat]]
  BY DEF CurrentOK, PoolsOK
<1>4. \A x \in Borrowers : Colls(Troves)[x] \in Int /\ Debts(Troves)[x] \in Int
        /\ Stakes(Troves)[x] \in Int /\ surplusPool.balances[x] \in Int
  BY <1>2, <1>3 DEF Colls, Debts, Stakes
<1>5. QED BY <1>1, <1>3, <1>4, SumType DEF SumOf

\* A step that writes one trove and moves the difference through the active
\* pool, or holds it.
LEMMA OneTroveAddsUp ==
    ASSUME IInv, IInv', SumsOK, NEW b \in Borrowers, OthersKept(b),
           totalStakes' = totalStakes - Troves[b].stake + Troves'[b].stake,
           activePool'.ETH + Troves[b].coll + HeldColl
             = activePool.ETH + Troves'[b].coll + HeldColl',
           activePool'.LUSDDebt + Troves[b].debt + HeldDebt
             = activePool.LUSDDebt + Troves'[b].debt + HeldDebt'
    PROVE  TrovesAddUp(Troves', totalStakes', activePool', HeldColl', HeldDebt')
<1>1. CurrentOK /\ CurrentOK' /\ LocalOK /\ LocalOK'
  BY DEF IInv
<1>2. /\ totals \in [DOMAIN NoTotals -> Nat] /\ redemption \in [DOMAIN NoRedemption -> Nat]
      /\ totals' \in [DOMAIN NoTotals -> Nat] /\ redemption' \in [DOMAIN NoRedemption -> Nat]
  BY <1>1 DEF LocalOK
<1>3. HeldColl \in Nat /\ HeldDebt \in Nat
  BY <1>2, TotalsIs, RedemptionIs DEF HeldColl, HeldDebt
<1>4. HeldColl' \in Nat /\ HeldDebt' \in Nat
  BY <1>2, TotalsIs, RedemptionIs DEF HeldColl, HeldDebt
<1>5. activePool \in Amounts /\ activePool' \in Amounts
  BY <1>1 DEF CurrentOK, PoolsOK
<1>6. /\ activePool.ETH \in Nat /\ activePool.LUSDDebt \in Nat
      /\ activePool'.ETH \in Nat /\ activePool'.LUSDDebt \in Nat
  BY <1>5 DEF Amounts
<1>7. Troves[b] \in TroveRecords /\ Troves'[b] \in TroveRecords
  BY <1>1 DEF CurrentOK, BookOK
<1>8. /\ Troves[b].coll \in Nat /\ Troves[b].debt \in Nat /\ Troves[b].stake \in Nat
      /\ Troves'[b].coll \in Nat /\ Troves'[b].debt \in Nat /\ Troves'[b].stake \in Nat
  BY <1>7 DEF TroveRecords
<1>9. /\ SumOf(Colls(Troves)) \in Int /\ SumOf(Debts(Troves)) \in Int
      /\ SumOf(Stakes(Troves)) \in Int
  BY <1>1, SumsAreInt
<1>10. /\ SumOf(Colls(Troves')) = SumOf(Colls(Troves)) - Troves[b].coll + Troves'[b].coll
       /\ SumOf(Debts(Troves')) = SumOf(Debts(Troves)) - Troves[b].debt + Troves'[b].debt
       /\ SumOf(Stakes(Troves')) = SumOf(Stakes(Troves)) - Troves[b].stake + Troves'[b].stake
  BY <1>1, WrittenSums
<1>11. /\ totalStakes = SumOf(Stakes(Troves))
       /\ activePool.ETH = SumOf(Colls(Troves)) + HeldColl
       /\ activePool.LUSDDebt = SumOf(Debts(Troves)) + HeldDebt
  BY DEF SumsOK, TrovesAddUp
<1> DEFINE c == SumOf(Colls(Troves))
           d == SumOf(Debts(Troves))
           c1 == SumOf(Colls(Troves'))
           d1 == SumOf(Debts(Troves'))
<1>12. activePool'.ETH = c1 + HeldColl'
  <2>1. /\ c \in Int /\ c1 = c - Troves[b].coll + Troves'[b].coll
        /\ activePool.ETH = c + HeldColl
    BY <1>9, <1>10, <1>11
  <2> HIDE DEF c, c1
  <2>2. QED BY <1>3, <1>4, <1>6, <1>8, <2>1
<1>13. activePool'.LUSDDebt = d1 + HeldDebt'
  <2>1. /\ d \in Int /\ d1 = d - Troves[b].debt + Troves'[b].debt
        /\ activePool.LUSDDebt = d + HeldDebt
    BY <1>9, <1>10, <1>11
  <2> HIDE DEF d, d1
  <2>2. QED BY <1>3, <1>4, <1>6, <1>8, <2>1, SMTT(30)
<1>14. totalStakes' = SumOf(Stakes(Troves'))
  BY <1>10, <1>11
<1>15. QED BY <1>12, <1>13, <1>14 DEF TrovesAddUp

\* An account of a surplus adds it to the claims.
LEMMA AccountedClaim ==
    ASSUME CurrentOK, NEW b \in Borrowers, NEW amount \in Nat
    PROVE  SumOf(AccountSurplus(b, amount)) = SumOf(surplusPool.balances) + amount
<1>1. IsFiniteSet(Borrowers)
  BY BorrowersAssumption
<1>2. surplusPool.balances \in [Borrowers -> Nat]
  BY DEF CurrentOK, PoolsOK
<1> DEFINE f == surplusPool.balances
           g == AccountSurplus(b, amount)
<1>3. /\ \A y \in Borrowers : f[y] \in Int /\ g[y] \in Int
      /\ \A y \in Borrowers \ {b} : g[y] = f[y]
      /\ g[b] = f[b] + amount
  BY <1>2 DEF AccountSurplus
<1> HIDE DEF f, g
<1>4. SumFunctionOnSet(g, Borrowers) = SumFunctionOnSet(f, Borrowers) - f[b] + g[b]
  BY <1>1, <1>3, SumUpdate
<1>5. f[b] \in Int /\ SumFunctionOnSet(f, Borrowers) \in Int
  BY <1>1, <1>3, SumType
<1>6. SumFunctionOnSet(g, Borrowers) = SumFunctionOnSet(f, Borrowers) + amount
  BY <1>3, <1>4, <1>5
<1>7. QED BY <1>6 DEF SumOf, f, g

\* A closed trove is empty; the swap in the owners array touches no amounts.
LEMMA ClosedIs ==
    ASSUME CurrentOK, NEW b \in Borrowers, NEW status, CloseTrove(b, status)
    PROVE  /\ OthersKept(b)
           /\ Troves'[b].coll = 0 /\ Troves'[b].debt = 0 /\ Troves'[b].stake = 0
           /\ totalStakes' = totalStakes - Troves[b].stake + Troves'[b].stake
<1>1. /\ Troves \in [Borrowers -> TroveRecords] /\ Troves' = Closed(b, status)
      /\ totalStakes' = totalStakes - Troves[b].stake
  BY DEF CloseTrove, TotalStakesWithout, CurrentOK, BookOK
<1>2. Troves[b] \in TroveRecords
  BY <1>1
<1>3. Troves'[b].coll = 0 /\ Troves'[b].debt = 0 /\ Troves'[b].stake = 0
  BY <1>1, <1>2 DEF Closed, TroveRecords
<1>4. OthersKept(b)
  BY <1>1 DEF OthersKept, Closed, TroveRecords
<1>5. totalStakes \in Nat /\ Troves[b].stake \in Nat
  BY <1>2 DEF CurrentOK, StakesOK, TroveRecords
<1>6. QED BY <1>1, <1>3, <1>4, <1>5

\* A rewritten trove has what is written; no other changes.
LEMMA RewrittenIs ==
    ASSUME CurrentOK, NEW b \in Borrowers, NEW c, NEW d, NEW s,
           Troves' = [Troves EXCEPT ![b].coll = c, ![b].debt = d, ![b].stake = s]
    PROVE  /\ OthersKept(b)
           /\ Troves'[b].coll = c /\ Troves'[b].debt = d /\ Troves'[b].stake = s
<1>1. Troves \in [Borrowers -> TroveRecords] /\ Troves[b] \in TroveRecords
  BY DEF CurrentOK, BookOK
<1>2. QED BY <1>1 DEF OthersKept, TroveRecords

\* What _applyPendingRewards makes of a trove's amounts.
LEMMA AppliedAmounts ==
    ASSUME CurrentOK, NEW b \in Borrowers
    PROVE  /\ AppliedTrove(b).coll = Troves[b].coll + Applied(b).ETH
           /\ AppliedTrove(b).debt = Troves[b].debt + Applied(b).LUSDDebt
           /\ AppliedTrove(b).stake = Troves[b].stake
           /\ Applied(b).ETH \in Nat /\ Applied(b).LUSDDebt \in Nat
           /\ Troves[b].coll \in Nat /\ Troves[b].debt \in Nat /\ Troves[b].stake \in Nat
           /\ activePool.ETH \in Nat /\ activePool.LUSDDebt \in Nat
           /\ Plus(activePool, Applied(b)) \in Amounts
           /\ Plus(activePool, Applied(b)).ETH = activePool.ETH + Applied(b).ETH
           /\ Plus(activePool, Applied(b)).LUSDDebt
                = activePool.LUSDDebt + Applied(b).LUSDDebt
<1>1. Troves[b] \in TroveRecords /\ Applied(b) \in Amounts /\ activePool \in Amounts
  BY PendingAmounts DEF CurrentOK, BookOK, PoolsOK
<1> DEFINE c == Troves[b].coll + Applied(b).ETH
           d == Troves[b].debt + Applied(b).LUSDDebt
<1>2. AppliedTrove(b) = [Troves[b] EXCEPT !.coll = c, !.debt = d]
  BY DEF AppliedTrove
<1>3. /\ AppliedTrove(b).coll = c /\ AppliedTrove(b).debt = d
      /\ AppliedTrove(b).stake = Troves[b].stake
  <2> HIDE DEF c, d
  <2>1. QED BY <1>1, <1>2 DEF TroveRecords
<1>4. QED BY <1>1, <1>3, PendingAmounts, AmountArithmetic

-----------------------------------------------------------------------------
(* The sums in each operation *)

\* What is left of a pool that takes q in and pays r out.
LEMMA PoolPays ==
    ASSUME NEW p \in Amounts, NEW q \in Amounts, NEW r \in Amounts, Covers(Plus(p, q), r)
    PROVE  /\ Minus(Plus(p, q), r) \in Amounts
           /\ Minus(Plus(p, q), r).ETH = p.ETH + q.ETH - r.ETH
           /\ Minus(Plus(p, q), r).LUSDDebt = p.LUSDDebt + q.LUSDDebt - r.LUSDDebt
           /\ p.ETH + q.ETH >= r.ETH /\ p.LUSDDebt + q.LUSDDebt >= r.LUSDDebt
<1> DEFINE m == Plus(p, q)
<1>1. m \in Amounts /\ m.ETH = p.ETH + q.ETH /\ m.LUSDDebt = p.LUSDDebt + q.LUSDDebt
  BY AmountArithmetic
<1>2. Covers(m, r)
  OBVIOUS
<1> HIDE DEF m
<1>3. /\ Minus(m, r) \in Amounts /\ Minus(m, r).ETH = m.ETH - r.ETH
      /\ Minus(m, r).LUSDDebt = m.LUSDDebt - r.LUSDDebt
  BY <1>1, <1>2, AmountArithmetic
<1>4. m.ETH >= r.ETH /\ m.LUSDDebt >= r.LUSDDebt
  BY <1>2 DEF Covers
<1>5. /\ Minus(m, r) \in Amounts
      /\ Minus(m, r).ETH = p.ETH + q.ETH - r.ETH
      /\ Minus(m, r).LUSDDebt = p.LUSDDebt + q.LUSDDebt - r.LUSDDebt
      /\ p.ETH + q.ETH >= r.ETH /\ p.LUSDDebt + q.LUSDDebt >= r.LUSDDebt
  <2>1. /\ p.ETH \in Nat /\ q.ETH \in Nat /\ r.ETH \in Nat /\ p.LUSDDebt \in Nat
        /\ q.LUSDDebt \in Nat /\ r.LUSDDebt \in Nat
    BY DEF Amounts
  <2>2. QED BY <2>1, <1>1, <1>3, <1>4
<1>6. QED BY <1>5 DEF m

\* No claim changes.
LEMMA SameClaims ==
    ASSUME SumsOK, surplusPool' = surplusPool, totals' = totals
    PROVE  ClaimsAddUp(surplusPool', totals'.CollSurplus)
BY DEF SumsOK

\* No trove, and nothing that troves are summed up to, changes.
LEMMA QuietSums ==
    ASSUME SumsOK, Troves' = Troves, totalStakes' = totalStakes, activePool' = activePool,
           surplusPool' = surplusPool, totals' = totals,
           redemption'.totalETHDrawn = redemption.totalETHDrawn,
           redemption'.totalLUSDToRedeem = redemption.totalLUSDToRedeem
    PROVE  SumsOK'
<1>1. HeldColl' = HeldColl /\ HeldDebt' = HeldDebt
  BY DEF HeldColl, HeldDebt
<1>2. TrovesAddUp(Troves', totalStakes', activePool', HeldColl', HeldDebt')
  BY <1>1 DEF SumsOK
<1>3. QED BY <1>2, SameClaims DEF SumsOK

\* A new trove enters the sums, and its amounts the active pool.
LEMMA OpenSums ==
    ASSUME IInv, IInv', SumsOK, NEW b \in Borrowers, NEW coll \in Nat, NEW amount \in Nat,
           NEW fee \in Nat, OpenTrove(b, coll, amount, fee)
    PROVE  SumsOK'
<1> DEFINE debt == CompositeDebt(amount + fee)
           c == Troves[b].coll + coll
           d == Troves[b].debt + debt
           r == [status |-> "active", coll |-> c, debt |-> d, stake |-> ComputeNewStake(c),
                 arrayIndex |-> Len(TroveOwners)]
<1>1. /\ CurrentOK /\ Troves \in [Borrowers -> TroveRecords] /\ Troves[b] \in TroveRecords
      /\ activePool \in Amounts
  BY DEF IInv, CurrentOK, BookOK, PoolsOK
<1>2. /\ Troves' = [Troves EXCEPT ![b] = r]
      /\ totalStakes' = totalStakes - Troves[b].stake + Troves'[b].stake
      /\ activePool' = Plus(activePool, Amount(coll, debt))
      /\ surplusPool' = surplusPool /\ UNCHANGED local
  BY <1>1 DEF OpenTrove
<1>3. debt \in Nat
  BY ConstantFacts DEF CompositeDebt
<1> HIDE DEF debt
<1>4. Troves'[b].coll = c /\ Troves'[b].debt = d
  <2> HIDE DEF c, d
  <2>1. QED BY <1>1, <1>2
<1>5. OthersKept(b)
  <2> HIDE DEF r
  <2>1. QED BY <1>1, <1>2 DEF OthersKept
<1>6. activePool'.ETH = activePool.ETH + coll /\ activePool'.LUSDDebt = activePool.LUSDDebt + debt
      /\ activePool.ETH \in Nat /\ activePool.LUSDDebt \in Nat
  <2>1. Amount(coll, debt) \in Amounts /\ Amount(coll, debt).ETH = coll
        /\ Amount(coll, debt).LUSDDebt = debt
    BY <1>3 DEF Amount, Amounts
  <2>2. QED BY <1>1, <1>2, <2>1, AmountArithmetic
<1>7. HeldColl' = HeldColl /\ HeldDebt' = HeldDebt /\ HeldColl \in Nat /\ HeldDebt \in Nat
      /\ totals' = totals
  <2>1. totals \in [DOMAIN NoTotals -> Nat] /\ redemption \in [DOMAIN NoRedemption -> Nat]
    BY DEF IInv, LocalOK
  <2>2. HeldColl \in Nat /\ HeldDebt \in Nat
    BY <2>1, TotalsIs, RedemptionIs DEF HeldColl, HeldDebt
  <2>3. QED BY <1>2, <2>2 DEF HeldColl, HeldDebt, local
<1>8. Troves[b].coll \in Nat /\ Troves[b].debt \in Nat
  BY <1>1 DEF TroveRecords
<1> HIDE DEF r
<1>9. /\ activePool'.ETH + Troves[b].coll + HeldColl = activePool.ETH + Troves'[b].coll + HeldColl'
      /\ activePool'.LUSDDebt + Troves[b].debt + HeldDebt
           = activePool.LUSDDebt + Troves'[b].debt + HeldDebt'
  BY <1>3, <1>4, <1>6, <1>7, <1>8
<1>10. TrovesAddUp(Troves', totalStakes', activePool', HeldColl', HeldDebt')
  BY <1>2, <1>5, <1>9, OneTroveAddsUp
<1>11. ClaimsAddUp(surplusPool', totals'.CollSurplus)
  BY <1>2, <1>7, SameClaims
<1>12. QED BY <1>10, <1>11 DEF SumsOK

\* What a transaction holds are numbers, and a step that leaves its totals alone
\* holds as much.
LEMMA HeldIs ==
    ASSUME IInv
    PROVE  /\ HeldColl \in Nat /\ HeldDebt \in Nat
           /\ UNCHANGED <<totals, redemption>> => HeldColl' = HeldColl /\ HeldDebt' = HeldDebt
<1>1. totals \in [DOMAIN NoTotals -> Nat] /\ redemption \in [DOMAIN NoRedemption -> Nat]
  BY DEF IInv, LocalOK
<1>2. QED BY <1>1, TotalsIs, RedemptionIs DEF HeldColl, HeldDebt

\* What an adjustment brings and takes passes through trove and pool alike.
LEMMA AdjustSums ==
    ASSUME IInv, IInv', SumsOK, NEW b \in Borrowers, NEW w \in Nat, NEW t \in Nat,
           NEW d \in Nat, NEW inc \in BOOLEAN, NEW fee \in Nat,
           AdjustTrove(b, w, t, d, inc, fee)
    PROVE  SumsOK'
<1> DEFINE into == Amount(t, IF inc THEN d + fee ELSE 0)
           out == Amount(w, IF inc THEN 0 ELSE d)
           c == AppliedTrove(b).coll + into.ETH - out.ETH
           e == AppliedTrove(b).debt + into.LUSDDebt - out.LUSDDebt
           s == ComputeNewStake(c)
           p == Plus(activePool, Applied(b))
<1>1. CurrentOK
  BY DEF IInv
<1>2. /\ Troves' = [Troves EXCEPT ![b].coll = c, ![b].debt = e, ![b].stake = s]
      /\ totalStakes' = totalStakes - Troves[b].stake + s
      /\ Covers(Plus(p, into), out) /\ activePool' = Minus(Plus(p, into), out)
      /\ surplusPool' = surplusPool /\ UNCHANGED <<totals, redemption>>
  BY DEF AdjustTrove, local
<1>3. /\ into \in Amounts /\ out \in Amounts
      /\ into.ETH \in Nat /\ into.LUSDDebt \in Nat /\ out.ETH \in Nat /\ out.LUSDDebt \in Nat
  BY DEF Amount, Amounts
<1>4. /\ AppliedTrove(b).coll = Troves[b].coll + Applied(b).ETH
      /\ AppliedTrove(b).debt = Troves[b].debt + Applied(b).LUSDDebt
      /\ Applied(b).ETH \in Nat /\ Applied(b).LUSDDebt \in Nat
      /\ Troves[b].coll \in Nat /\ Troves[b].debt \in Nat
      /\ activePool.ETH \in Nat /\ activePool.LUSDDebt \in Nat
      /\ p \in Amounts /\ p.ETH = activePool.ETH + Applied(b).ETH
      /\ p.LUSDDebt = activePool.LUSDDebt + Applied(b).LUSDDebt
  BY <1>1, AppliedAmounts
<1> HIDE DEF into, out, p
<1>5. /\ activePool'.ETH = p.ETH + into.ETH - out.ETH
      /\ activePool'.LUSDDebt = p.LUSDDebt + into.LUSDDebt - out.LUSDDebt
  BY <1>2, <1>3, <1>4, PoolPays
<1>6. OthersKept(b) /\ Troves'[b].coll = c /\ Troves'[b].debt = e /\ Troves'[b].stake = s
  <2> HIDE DEF c, e, s
  <2>1. QED BY <1>1, <1>2, RewrittenIs, ZenonT(60)
<1>7. HeldColl' = HeldColl /\ HeldDebt' = HeldDebt /\ HeldColl \in Nat /\ HeldDebt \in Nat
  BY <1>2, HeldIs
<1>8. totalStakes' = totalStakes - Troves[b].stake + Troves'[b].stake
  BY <1>2, <1>6
<1> HIDE DEF s
<1>9. /\ activePool'.ETH + Troves[b].coll + HeldColl = activePool.ETH + Troves'[b].coll + HeldColl'
      /\ activePool'.LUSDDebt + Troves[b].debt + HeldDebt
           = activePool.LUSDDebt + Troves'[b].debt + HeldDebt'
  BY <1>3, <1>4, <1>5, <1>6, <1>7
<1>10. TrovesAddUp(Troves', totalStakes', activePool', HeldColl', HeldDebt')
  BY <1>6, <1>8, <1>9, OneTroveAddsUp
<1>11. ClaimsAddUp(surplusPool', totals'.CollSurplus)
  BY <1>2, SameClaims
<1>12. QED BY <1>10, <1>11 DEF SumsOK

\* closeTrove takes the trove's amounts out of the sums and of the pool.
LEMMA CloseOwnSums ==
    ASSUME IInv, IInv', SumsOK, NEW b \in Borrowers, CloseOwnTrove(b)
    PROVE  SumsOK'
<1> DEFINE out == Amount(AppliedTrove(b).coll, AppliedTrove(b).debt)
<1>1. CurrentOK
  BY DEF IInv
<1>2. /\ CloseTrove(b, "closedByOwner")
      /\ Covers(Plus(activePool, Applied(b)), out)
      /\ activePool' = Minus(Plus(activePool, Applied(b)), out)
      /\ surplusPool' = surplusPool /\ UNCHANGED <<totals, redemption>>
  BY DEF CloseOwnTrove, local
<1>3. /\ AppliedTrove(b).coll = Troves[b].coll + Applied(b).ETH
      /\ AppliedTrove(b).debt = Troves[b].debt + Applied(b).LUSDDebt
      /\ Applied(b).ETH \in Nat /\ Applied(b).LUSDDebt \in Nat
      /\ Troves[b].coll \in Nat /\ Troves[b].debt \in Nat
      /\ activePool.ETH \in Nat /\ activePool.LUSDDebt \in Nat
      /\ activePool \in Amounts /\ Applied(b) \in Amounts
  BY <1>1, AppliedAmounts, PendingAmounts DEF CurrentOK, PoolsOK
<1>4. /\ out \in Amounts /\ out.ETH = Troves[b].coll + Applied(b).ETH
      /\ out.LUSDDebt = Troves[b].debt + Applied(b).LUSDDebt
  BY <1>3 DEF Amount, Amounts
<1> HIDE DEF out
<1>5. /\ activePool'.ETH = activePool.ETH + Applied(b).ETH - out.ETH
      /\ activePool'.LUSDDebt = activePool.LUSDDebt + Applied(b).LUSDDebt - out.LUSDDebt
  BY <1>2, <1>3, <1>4, PoolPays
<1>6. /\ OthersKept(b)
      /\ Troves'[b].coll = 0 /\ Troves'[b].debt = 0 /\ Troves'[b].stake = 0
      /\ totalStakes' = totalStakes - Troves[b].stake + Troves'[b].stake
  BY <1>1, <1>2, ClosedIs
<1>7. HeldColl' = HeldColl /\ HeldDebt' = HeldDebt /\ HeldColl \in Nat /\ HeldDebt \in Nat
  BY <1>2, HeldIs
<1>8. /\ activePool'.ETH + Troves[b].coll + HeldColl = activePool.ETH + Troves'[b].coll + HeldColl'
      /\ activePool'.LUSDDebt + Troves[b].debt + HeldDebt
           = activePool.LUSDDebt + Troves'[b].debt + HeldDebt'
  BY <1>3, <1>4, <1>5, <1>6, <1>7
<1>9. TrovesAddUp(Troves', totalStakes', activePool', HeldColl', HeldDebt')
  BY <1>6, <1>8, OneTroveAddsUp
<1>10. ClaimsAddUp(surplusPool', totals'.CollSurplus)
  BY <1>2, SameClaims
<1>11. QED BY <1>9, <1>10 DEF SumsOK

\* A claim that is paid leaves the claims and the pool.
LEMMA ClaimSums ==
    ASSUME IInv, SumsOK, NEW b \in Borrowers, ClaimCollateral(b)
    PROVE  SumsOK'
<1> DEFINE f == surplusPool.balances
           g == [surplusPool.balances EXCEPT ![b] = 0]
<1>1. CurrentOK
  BY DEF IInv
<1>2. /\ surplusPool' = [ETH |-> surplusPool.ETH - surplusPool.balances[b], balances |-> g]
      /\ UNCHANGED <<Troves, totalStakes, activePool, totals, redemption>>
  BY DEF ClaimCollateral, book, local
<1>3. /\ surplusPool \in [ETH : Nat, balances : [Borrowers -> Nat]]
      /\ IsFiniteSet(Borrowers)
  BY <1>1, BorrowersAssumption DEF CurrentOK, PoolsOK
<1>4. /\ \A y \in Borrowers : f[y] \in Int /\ g[y] \in Int
      /\ \A y \in Borrowers \ {b} : g[y] = f[y]
      /\ f[b] \in Nat /\ g[b] = 0
  BY <1>3
<1>5. surplusPool'.balances = g /\ surplusPool'.ETH = surplusPool.ETH - f[b]
      /\ surplusPool.ETH \in Nat /\ surplusPool.balances = f
  BY <1>2, <1>3
<1> HIDE DEF f, g
<1>6. SumFunctionOnSet(g, Borrowers) = SumFunctionOnSet(f, Borrowers) - f[b] + g[b]
      /\ SumFunctionOnSet(f, Borrowers) \in Int
  <2>1. IsFiniteSet(Borrowers)
    BY <1>3
  <2>2. /\ \A y \in Borrowers : f[y] \in Int /\ g[y] \in Int
        /\ \A y \in Borrowers \ {b} : g[y] = f[y]
    BY <1>4
  <2>3. SumFunctionOnSet(f, Borrowers) \in Int
    BY ONLY <2>1, <2>2, SumType
  <2>4. QED BY ONLY <2>1, <2>2, <2>3, SumUpdate, b \in Borrowers
<1>7. totals.CollSurplus \in Nat /\ totals' = totals
  BY <1>2, TotalsIs DEF IInv, LocalOK
<1>8. SumOf(f) = surplusPool.ETH + totals.CollSurplus
  BY <1>5 DEF SumsOK, ClaimsAddUp
<1>9. SumOf(g) = surplusPool'.ETH + totals'.CollSurplus
  BY <1>4, <1>5, <1>6, <1>7, <1>8 DEF SumOf
<1>10. ClaimsAddUp(surplusPool', totals'.CollSurplus)
  BY <1>5, <1>9 DEF ClaimsAddUp
<1>11. HeldColl' = HeldColl /\ HeldDebt' = HeldDebt
  BY <1>2, HeldIs
<1>12. TrovesAddUp(Troves', totalStakes', activePool', HeldColl', HeldDebt')
  BY <1>2, <1>11 DEF SumsOK
<1>13. QED BY <1>10, <1>12 DEF SumsOK

\* A loop of liquidations takes a trove out of the sums and holds its amounts,
\* pending rewards included, in the pool; its claim is owed to the surplus pool.
LEMMA LoopSums ==
    ASSUME IInv, IInv', SumsOK, NEW b \in Borrowers, NEW v, LoopCloses(b, v)
    PROVE  SumsOK'
<1>1. CurrentOK /\ LocalOK
  BY DEF IInv
<1>2. /\ CloseTrove(b, "closedByLiquidation")
      /\ activePool' = Plus(activePool, Pending(b))
      /\ surplusPool' = [surplusPool EXCEPT !.balances = AccountSurplus(b, v.CollSurplus)]
      /\ redemption' = redemption
      /\ v.CollInSequence = Entire(b).ETH /\ v.DebtInSequence = Entire(b).LUSDDebt
  BY DEF LoopCloses, LiquidateTrove
<1>3. /\ OthersKept(b)
      /\ Troves'[b].coll = 0 /\ Troves'[b].debt = 0 /\ Troves'[b].stake = 0
      /\ totalStakes' = totalStakes - Troves[b].stake + Troves'[b].stake
  BY <1>1, <1>2, ClosedIs
<1>4. /\ Pending(b) \in Amounts /\ activePool \in Amounts
      /\ Entire(b).ETH = Troves[b].coll + Pending(b).ETH
      /\ Entire(b).LUSDDebt = Troves[b].debt + Pending(b).LUSDDebt
      /\ Troves[b].coll \in Nat /\ Troves[b].debt \in Nat
  BY <1>1, PendingAmounts DEF CurrentOK, PoolsOK
<1>5. /\ activePool'.ETH = activePool.ETH + Pending(b).ETH
      /\ activePool'.LUSDDebt = activePool.LUSDDebt + Pending(b).LUSDDebt
      /\ activePool.ETH \in Nat /\ activePool.LUSDDebt \in Nat
      /\ Pending(b).ETH \in Nat /\ Pending(b).LUSDDebt \in Nat
  BY <1>2, <1>4, AmountArithmetic DEF Amounts
<1>6. \A f \in DOMAIN NoTotals : /\ totals[f] \in Nat /\ v[f] \in Nat
                                 /\ totals'[f] = totals[f] + v[f]
  BY <1>1, AddedValues
<1>7. /\ totals'.CollInSequence = totals.CollInSequence + v.CollInSequence
      /\ totals'.DebtInSequence = totals.DebtInSequence + v.DebtInSequence
      /\ totals.CollInSequence \in Nat /\ totals.DebtInSequence \in Nat
      /\ totals'.CollSurplus = totals.CollSurplus + v.CollSurplus
      /\ totals.CollSurplus \in Nat /\ v.CollSurplus \in Nat
  BY <1>6, TotalsIs
<1>8. /\ redemption.totalETHDrawn \in Nat /\ redemption.totalLUSDToRedeem \in Nat
  BY <1>1, RedemptionIs DEF LocalOK
<1>9. HeldColl' = HeldColl + Entire(b).ETH /\ HeldDebt' = HeldDebt + Entire(b).LUSDDebt
      /\ HeldColl \in Nat /\ HeldDebt \in Nat
  BY <1>2, <1>4, <1>5, <1>7, <1>8 DEF HeldColl, HeldDebt
<1>10. /\ activePool'.ETH + Troves[b].coll + HeldColl = activePool.ETH + Troves'[b].coll + HeldColl'
       /\ activePool'.LUSDDebt + Troves[b].debt + HeldDebt
            = activePool.LUSDDebt + Troves'[b].debt + HeldDebt'
  BY <1>3, <1>4, <1>5, <1>9
<1>11. TrovesAddUp(Troves', totalStakes', activePool', HeldColl', HeldDebt')
  BY <1>3, <1>10, OneTroveAddsUp
<1>12. ClaimsAddUp(surplusPool', totals'.CollSurplus)
  <2>1. SumOf(AccountSurplus(b, v.CollSurplus)) = SumOf(surplusPool.balances) + v.CollSurplus
    BY <1>1, <1>7, AccountedClaim
  <2>2. surplusPool \in [ETH : Nat, balances : [Borrowers -> Nat]]
    BY <1>1 DEF CurrentOK, PoolsOK
  <2> DEFINE g == AccountSurplus(b, v.CollSurplus)
  <2>3. surplusPool' = [surplusPool EXCEPT !.balances = g]
    BY <1>2
  <2> HIDE DEF g
  <2>4. surplusPool'.balances = g /\ surplusPool'.ETH = surplusPool.ETH /\ surplusPool.ETH \in Nat
    BY <2>2, <2>3
  <2>5. SumOf(surplusPool.balances) = surplusPool.ETH + totals.CollSurplus
    BY DEF SumsOK, ClaimsAddUp
  <2>6. SumOf(g) = SumOf(surplusPool.balances) + v.CollSurplus
    BY <2>1 DEF g
  <2>7. SumOf(g) = surplusPool'.ETH + totals'.CollSurplus
    BY <2>4, <2>5, <2>6, <1>7
  <2>8. QED BY <2>4, <2>7 DEF ClaimsAddUp
<1>13. QED BY <1>11, <1>12 DEF SumsOK

\* What leaves the active pool is all the collateral that was held, and none
\* of the held debt stays behind in it.
LEMMA LeavesAll ==
    ASSUME IInv, MemoryOK, FinishLiquidation
    PROVE  /\ LeavesActivePool \in Amounts
           /\ LeavesActivePool.ETH = totals.CollInSequence
           /\ LeavesActivePool.LUSDDebt = totals.DebtInSequence
<1>1. /\ Liquidating /\ LocalOK
      /\ OffsetBySP.LUSDDebt <= arth.stabilityPool
  BY DEF FinishLiquidation, IInv
<1>2. /\ totals.CollInSequence \in Nat /\ totals.DebtInSequence \in Nat
      /\ totals.CollToSendToSP \in Nat /\ totals.DebtToOffset \in Nat
      /\ totals.CollToRedistribute \in Nat /\ totals.DebtToRedistribute \in Nat
      /\ totals.CollSurplus \in Nat /\ totals.CollGasCompensation \in Nat
  BY <1>1, TotalsIs DEF LocalOK
<1>3. Split(totals) /\ tx.sp + totals.DebtToOffset = arth.stabilityPool
  BY <1>1 DEF MemoryOK
<1>4. tx.sp \in Nat /\ arth.stabilityPool \in Nat
  BY <1>1, ArthIs DEF IInv, LocalOK, TxRecords
<1>5. /\ OffsetBySP \in Amounts
      /\ OffsetBySP.ETH = totals.CollToSendToSP /\ OffsetBySP.LUSDDebt = totals.DebtToOffset
  <2>1. CASE totals.DebtToOffset = 0
    BY <2>1, <1>2, <1>3 DEF Split, OffsetBySP, Amount, Amounts
  <2>2. CASE totals.DebtToOffset # 0
    <3>1. arth.stabilityPool # 0
      BY <2>2, <1>2, <1>3, <1>4
    <3>2. QED BY <2>2, <3>1, <1>2 DEF OffsetBySP, Amount, Amounts
  <2>3. QED BY <2>1, <2>2
<1>6. /\ Redistributed \in Amounts
      /\ Redistributed.ETH = totals.CollToRedistribute
      /\ Redistributed.LUSDDebt = totals.DebtToRedistribute
  BY <1>2, <1>3 DEF Split, Redistributed, Amount, Amounts
<1> DEFINE p == Plus(OffsetBySP, Redistributed)
           q == Amount(totals.CollSurplus + totals.CollGasCompensation, 0)
<1>7. /\ p \in Amounts /\ p.ETH = totals.CollToSendToSP + totals.CollToRedistribute
      /\ p.LUSDDebt = totals.DebtToOffset + totals.DebtToRedistribute
  BY <1>5, <1>6, AmountArithmetic
<1>8. /\ q \in Amounts /\ q.ETH = totals.CollSurplus + totals.CollGasCompensation
      /\ q.LUSDDebt = 0
  BY <1>2 DEF Amount, Amounts
<1>9. LeavesActivePool = Plus(p, q)
  BY DEF LeavesActivePool
<1> HIDE DEF p, q
<1>10. /\ LeavesActivePool \in Amounts /\ LeavesActivePool.ETH = p.ETH + q.ETH
       /\ LeavesActivePool.LUSDDebt = p.LUSDDebt + q.LUSDDebt
  BY <1>7, <1>8, <1>9, AmountArithmetic
<1>11. /\ totals.CollInSequence = totals.CollToSendToSP + totals.CollToRedistribute
                                    + totals.CollSurplus + totals.CollGasCompensation
       /\ totals.DebtInSequence = totals.DebtToOffset + totals.DebtToRedistribute
  BY <1>3 DEF Split
<1>12. QED BY <1>2, <1>7, <1>8, <1>10, <1>11

\* Nothing is held when a transaction returns.
LEMMA ReturnHoldsNothing ==
    ASSUME totals' = NoTotals, redemption' = NoRedemption
    PROVE  HeldColl' = 0 /\ HeldDebt' = 0 /\ totals'.CollSurplus = 0
BY DEF HeldColl, HeldDebt, NoTotals, NoRedemption

\* A liquidation that ends has sent on all it held.
LEMMA FinishLiquidationSums ==
    ASSUME IInv, MemoryOK, SumsOK, FinishLiquidation
    PROVE  SumsOK'
<1>1. /\ Liquidating /\ Covers(activePool, LeavesActivePool)
      /\ activePool' = Minus(activePool, LeavesActivePool)
      /\ surplusPool' = [surplusPool EXCEPT !.ETH = @ + totals.CollSurplus]
      /\ Troves' = Troves /\ totalStakes' = totalStakes
      /\ totals' = NoTotals /\ redemption' = NoRedemption
  BY DEF FinishLiquidation, Return
<1>2. /\ LeavesActivePool \in Amounts /\ LeavesActivePool.ETH = totals.CollInSequence
      /\ LeavesActivePool.LUSDDebt = totals.DebtInSequence
  BY LeavesAll
<1>3. activePool \in Amounts /\ surplusPool \in [ETH : Nat, balances : [Borrowers -> Nat]]
  BY DEF IInv, CurrentOK, PoolsOK
<1>4. /\ activePool'.ETH = activePool.ETH - totals.CollInSequence
      /\ activePool'.LUSDDebt = activePool.LUSDDebt - totals.DebtInSequence
      /\ activePool.ETH \in Nat /\ activePool.LUSDDebt \in Nat
  BY <1>1, <1>2, <1>3, AmountArithmetic
<1>5. redemption = NoRedemption
  BY <1>1 DEF MemoryOK, Liquidating, Redeeming
<1>6. /\ totals.CollInSequence \in Nat /\ totals.DebtInSequence \in Nat
      /\ totals.CollSurplus \in Nat
  BY TotalsIs DEF IInv, LocalOK
<1>7. HeldColl = totals.CollInSequence /\ HeldDebt = totals.DebtInSequence
  BY <1>5, <1>6 DEF HeldColl, HeldDebt, NoRedemption
<1>8. HeldColl' = 0 /\ HeldDebt' = 0 /\ totals'.CollSurplus = 0
  BY <1>1, ReturnHoldsNothing
<1>9. CurrentOK
  BY DEF IInv
<1> DEFINE c == SumOf(Colls(Troves))
           d == SumOf(Debts(Troves))
<1>10. c \in Int /\ d \in Int
  BY <1>9, SumsAreInt
<1>11. /\ totalStakes = SumOf(Stakes(Troves))
       /\ activePool.ETH = c + HeldColl /\ activePool.LUSDDebt = d + HeldDebt
  BY DEF SumsOK, TrovesAddUp
<1>12. activePool'.ETH = c + HeldColl' /\ activePool'.LUSDDebt = d + HeldDebt'
  <2> HIDE DEF c, d
  <2>1. QED BY <1>4, <1>6, <1>7, <1>8, <1>10, <1>11
<1>13. TrovesAddUp(Troves', totalStakes', activePool', HeldColl', HeldDebt')
  BY <1>1, <1>11, <1>12 DEF TrovesAddUp
<1>14. ClaimsAddUp(surplusPool', totals'.CollSurplus)
  <2>1. /\ surplusPool'.balances = surplusPool.balances
        /\ surplusPool'.ETH = surplusPool.ETH + totals.CollSurplus /\ surplusPool.ETH \in Nat
    BY <1>1, <1>3
  <2>2. SumOf(surplusPool.balances) = surplusPool.ETH + totals.CollSurplus
    BY DEF SumsOK, ClaimsAddUp
  <2>3. QED BY <2>1, <2>2, <1>6, <1>8 DEF ClaimsAddUp
<1>15. QED BY <1>13, <1>14 DEF SumsOK

\* What a redemption takes from the trove it looks at.
LEMMA LotIs ==
    ASSUME IInv, NEW b \in Borrowers, Looking(b), Redeemable(b)
    PROVE  /\ Lot(b) \in Nat /\ ETHLot(b) \in Nat /\ NewDebt(b) \in Nat /\ NewColl(b) \in Nat
           /\ NewDebt(b) = Troves[b].debt + Applied(b).LUSDDebt - Lot(b)
           /\ NewColl(b) = Troves[b].coll + Applied(b).ETH - ETHLot(b)
           /\ redemption' = Tally(b) /\ totals' = totals
                => /\ HeldColl' = HeldColl + ETHLot(b) /\ HeldDebt' = HeldDebt + Lot(b)
                   /\ totals'.CollSurplus = totals.CollSurplus
           /\ HeldColl \in Nat /\ HeldDebt \in Nat
<1>1. CurrentOK /\ LocalOK
  BY DEF IInv
<1>2. Lot(b) \in Nat /\ ETHLot(b) \in Nat /\ NewDebt(b) \in Nat /\ NewColl(b) \in Nat
  BY LookedAt
<1>3. /\ AppliedTrove(b).coll = Troves[b].coll + Applied(b).ETH
      /\ AppliedTrove(b).debt = Troves[b].debt + Applied(b).LUSDDebt
      /\ Applied(b).ETH \in Nat /\ Applied(b).LUSDDebt \in Nat
      /\ Troves[b].coll \in Nat /\ Troves[b].debt \in Nat
  BY <1>1, AppliedAmounts
<1>4. /\ NewDebt(b) = AppliedTrove(b).debt - Lot(b)
      /\ NewColl(b) = AppliedTrove(b).coll - ETHLot(b)
  BY DEF NewDebt, NewColl
<1>5. /\ redemption.totalLUSDToRedeem \in Nat /\ redemption.totalETHDrawn \in Nat
      /\ totals.CollInSequence \in Nat /\ totals.DebtInSequence \in Nat
  BY <1>1, RedemptionIs, TotalsIs DEF LocalOK
<1>6. ASSUME redemption' = Tally(b), totals' = totals
      PROVE  /\ HeldColl' = HeldColl + ETHLot(b) /\ HeldDebt' = HeldDebt + Lot(b)
             /\ totals'.CollSurplus = totals.CollSurplus
  <2>1. /\ redemption'.totalETHDrawn = redemption.totalETHDrawn + ETHLot(b)
        /\ redemption'.totalLUSDToRedeem = redemption.totalLUSDToRedeem + Lot(b)
    BY <1>6 DEF Tally
  <2>2. /\ HeldColl' = totals.CollInSequence + (redemption.totalETHDrawn + ETHLot(b))
        /\ HeldDebt' = totals.DebtInSequence + (redemption.totalLUSDToRedeem + Lot(b))
    BY <1>6, <2>1 DEF HeldColl, HeldDebt
  <2>3. QED BY <1>2, <1>5, <1>6, <2>2 DEF HeldColl, HeldDebt
<1>7. /\ NewDebt(b) = Troves[b].debt + Applied(b).LUSDDebt - Lot(b)
      /\ NewColl(b) = Troves[b].coll + Applied(b).ETH - ETHLot(b)
  BY <1>2, <1>3, <1>4
<1>8. HeldColl \in Nat /\ HeldDebt \in Nat
  BY HeldIs
<1>9. QED BY <1>2, <1>6, <1>7, <1>8

\* A whole trove is redeemed: the lot is held, the reserve burnt, and what is
\* left of the collateral goes to the surplus pool.
LEMMA RedeemWholeSums ==
    ASSUME IInv, IInv', SumsOK, NEW b \in Borrowers, RedeemWholeTrove(b)
    PROVE  SumsOK'
<1> DEFINE out == Amount(NewColl(b), LUSD_GAS_COMPENSATION)
           n == NewColl(b)
<1>1. CurrentOK
  BY DEF IInv
<1>2. /\ Looking(b) /\ Redeemable(b) /\ NewDebt(b) = LUSD_GAS_COMPENSATION
      /\ CloseTrove(b, "closedByRedemption")
      /\ Covers(Plus(activePool, Applied(b)), out)
      /\ activePool' = Minus(Plus(activePool, Applied(b)), out)
      /\ surplusPool' = [ETH |-> surplusPool.ETH + n, balances |-> AccountSurplus(b, n)]
      /\ redemption' = Tally(b) /\ totals' = totals
  BY DEF RedeemWholeTrove
<1>3. /\ Lot(b) \in Nat /\ ETHLot(b) \in Nat /\ n \in Nat
      /\ NewDebt(b) = Troves[b].debt + Applied(b).LUSDDebt - Lot(b)
      /\ n = Troves[b].coll + Applied(b).ETH - ETHLot(b)
      /\ HeldColl' = HeldColl + ETHLot(b) /\ HeldDebt' = HeldDebt + Lot(b)
      /\ HeldColl \in Nat /\ HeldDebt \in Nat
      /\ totals'.CollSurplus = totals.CollSurplus
  BY <1>2, LotIs
<1>4. /\ Applied(b).ETH \in Nat /\ Applied(b).LUSDDebt \in Nat
      /\ Troves[b].coll \in Nat /\ Troves[b].debt \in Nat
      /\ activePool.ETH \in Nat /\ activePool.LUSDDebt \in Nat
      /\ activePool \in Amounts /\ Applied(b) \in Amounts
  BY <1>1, AppliedAmounts, PendingAmounts DEF CurrentOK, PoolsOK
<1>5. /\ out \in Amounts /\ out.ETH = n /\ out.LUSDDebt = LUSD_GAS_COMPENSATION
      /\ LUSD_GAS_COMPENSATION \in Nat
  BY <1>3, ConstantFacts DEF Amount, Amounts
<1> HIDE DEF out, n
<1>6. /\ activePool'.ETH = activePool.ETH + Applied(b).ETH - n
      /\ activePool'.LUSDDebt = activePool.LUSDDebt + Applied(b).LUSDDebt - LUSD_GAS_COMPENSATION
  BY <1>2, <1>4, <1>5, PoolPays
<1>7. /\ OthersKept(b)
      /\ Troves'[b].coll = 0 /\ Troves'[b].debt = 0 /\ Troves'[b].stake = 0
      /\ totalStakes' = totalStakes - Troves[b].stake + Troves'[b].stake
  BY <1>1, <1>2, ClosedIs
<1>8. /\ activePool'.ETH + Troves[b].coll + HeldColl = activePool.ETH + Troves'[b].coll + HeldColl'
      /\ activePool'.LUSDDebt + Troves[b].debt + HeldDebt
           = activePool.LUSDDebt + Troves'[b].debt + HeldDebt'
  <2>1. activePool'.ETH + Troves[b].coll + HeldColl
          = activePool.ETH + Troves'[b].coll + HeldColl'
    BY <1>3, <1>4, <1>6, <1>7
  <2>2. LUSD_GAS_COMPENSATION = Troves[b].debt + Applied(b).LUSDDebt - Lot(b)
    BY <1>2, <1>3
  <2>3. activePool'.LUSDDebt + Troves[b].debt + HeldDebt
          = activePool.LUSDDebt + Troves'[b].debt + HeldDebt'
    BY <2>2, <1>3, <1>4, <1>5, <1>6, <1>7
  <2>4. QED BY <2>1, <2>3
<1>9. TrovesAddUp(Troves', totalStakes', activePool', HeldColl', HeldDebt')
  BY <1>7, <1>8, OneTroveAddsUp
<1>10. ClaimsAddUp(surplusPool', totals'.CollSurplus)
  <2>1. SumOf(AccountSurplus(b, n)) = SumOf(surplusPool.balances) + n
    BY <1>1, <1>3, AccountedClaim
  <2>2. SumOf(surplusPool.balances) = surplusPool.ETH + totals.CollSurplus
    BY DEF SumsOK, ClaimsAddUp
  <2>3. surplusPool.ETH \in Nat
    BY <1>1 DEF CurrentOK, PoolsOK
  <2>4. totals.CollSurplus \in Nat
    BY TotalsIs DEF IInv, LocalOK
  <2>5. /\ surplusPool'.balances = AccountSurplus(b, n)
        /\ surplusPool'.ETH = surplusPool.ETH + n
    BY <1>2
  <2>6. QED BY <1>3, <2>1, <2>2, <2>3, <2>4, <2>5 DEF ClaimsAddUp
<1>11. QED BY <1>9, <1>10 DEF SumsOK

\* Part of a trove is redeemed: the lot leaves the trove and is held.
LEMMA RedeemPartSums ==
    ASSUME IInv, IInv', SumsOK, NEW b \in Borrowers, RedeemPart(b)
    PROVE  SumsOK'
<1> DEFINE c == NewColl(b)
           d == NewDebt(b)
           s == ComputeNewStake(NewColl(b))
<1>1. CurrentOK
  BY DEF IInv
<1>2. /\ Looking(b) /\ Redeemable(b)
      /\ Troves' = [Troves EXCEPT ![b].debt = d, ![b].coll = c, ![b].stake = s]
      /\ totalStakes' = totalStakes - Troves[b].stake + s
      /\ activePool' = Plus(activePool, Applied(b))
      /\ surplusPool' = surplusPool
      /\ redemption' = Tally(b) /\ totals' = totals
  BY DEF RedeemPart
<1>3. /\ Lot(b) \in Nat /\ ETHLot(b) \in Nat
      /\ d = Troves[b].debt + Applied(b).LUSDDebt - Lot(b)
      /\ c = Troves[b].coll + Applied(b).ETH - ETHLot(b)
      /\ HeldColl' = HeldColl + ETHLot(b) /\ HeldDebt' = HeldDebt + Lot(b)
      /\ HeldColl \in Nat /\ HeldDebt \in Nat
  BY <1>2, LotIs
<1>4. /\ Applied(b).ETH \in Nat /\ Applied(b).LUSDDebt \in Nat
      /\ Troves[b].coll \in Nat /\ Troves[b].debt \in Nat
      /\ activePool.ETH \in Nat /\ activePool.LUSDDebt \in Nat
      /\ Plus(activePool, Applied(b)).ETH = activePool.ETH + Applied(b).ETH
      /\ Plus(activePool, Applied(b)).LUSDDebt = activePool.LUSDDebt + Applied(b).LUSDDebt
  BY <1>1, AppliedAmounts
<1> HIDE DEF c, d, s
<1>5. Troves' = [Troves EXCEPT ![b].coll = c, ![b].debt = d, ![b].stake = s]
  <2>1. Troves \in [Borrowers -> TroveRecords]
    BY <1>1 DEF CurrentOK, BookOK
  <2>2. QED BY <1>2, <2>1 DEF TroveRecords
<1>6. OthersKept(b) /\ Troves'[b].coll = c /\ Troves'[b].debt = d /\ Troves'[b].stake = s
  BY <1>1, <1>5, RewrittenIs, ZenonT(60)
<1>7. /\ activePool'.ETH + Troves[b].coll + HeldColl = activePool.ETH + Troves'[b].coll + HeldColl'
      /\ activePool'.LUSDDebt + Troves[b].debt + HeldDebt
           = activePool.LUSDDebt + Troves'[b].debt + HeldDebt'
  BY <1>2, <1>3, <1>4, <1>6
<1>8. totalStakes' = totalStakes - Troves[b].stake + Troves'[b].stake
  BY <1>2, <1>6
<1>9. TrovesAddUp(Troves', totalStakes', activePool', HeldColl', HeldDebt')
  BY <1>6, <1>7, <1>8, OneTroveAddsUp
<1>10. ClaimsAddUp(surplusPool', totals'.CollSurplus)
  BY <1>2, SameClaims
<1>11. QED BY <1>9, <1>10 DEF SumsOK

\* A cancelled partial redemption moves the pending rewards only.
LEMMA CancelSums ==
    ASSUME IInv, IInv', SumsOK, NEW b \in Borrowers, CancelPartial(b)
    PROVE  SumsOK'
<1>1. CurrentOK /\ Troves \in [Borrowers -> TroveRecords]
  BY DEF IInv, CurrentOK, BookOK
<1>2. /\ Troves' = [Troves EXCEPT ![b] = AppliedTrove(b)]
      /\ totalStakes' = totalStakes
      /\ activePool' = Plus(activePool, Applied(b))
      /\ surplusPool' = surplusPool /\ redemption' = redemption /\ totals' = totals
  BY DEF CancelPartial
<1>3. /\ Applied(b).ETH \in Nat /\ Applied(b).LUSDDebt \in Nat
      /\ Troves[b].coll \in Nat /\ Troves[b].debt \in Nat /\ Troves[b].stake \in Nat
      /\ activePool.ETH \in Nat /\ activePool.LUSDDebt \in Nat
      /\ AppliedTrove(b).coll = Troves[b].coll + Applied(b).ETH
      /\ AppliedTrove(b).debt = Troves[b].debt + Applied(b).LUSDDebt
      /\ AppliedTrove(b).stake = Troves[b].stake
      /\ Plus(activePool, Applied(b)).ETH = activePool.ETH + Applied(b).ETH
      /\ Plus(activePool, Applied(b)).LUSDDebt = activePool.LUSDDebt + Applied(b).LUSDDebt
  BY <1>1, AppliedAmounts
<1>4. OthersKept(b) /\ Troves'[b] = AppliedTrove(b)
  BY <1>1, <1>2 DEF OthersKept
<1>5. HeldColl' = HeldColl /\ HeldDebt' = HeldDebt /\ HeldColl \in Nat /\ HeldDebt \in Nat
  BY <1>2, HeldIs
<1>6. totalStakes \in Nat
  BY <1>1 DEF CurrentOK, StakesOK
<1>7. totalStakes' = totalStakes - Troves[b].stake + Troves'[b].stake
  BY <1>2, <1>3, <1>4, <1>6
<1>8. /\ activePool'.ETH + Troves[b].coll + HeldColl = activePool.ETH + Troves'[b].coll + HeldColl'
      /\ activePool'.LUSDDebt + Troves[b].debt + HeldDebt
           = activePool.LUSDDebt + Troves'[b].debt + HeldDebt'
  BY <1>2, <1>3, <1>4, <1>5
<1>9. TrovesAddUp(Troves', totalStakes', activePool', HeldColl', HeldDebt')
  BY <1>4, <1>7, <1>8, OneTroveAddsUp
<1>10. ClaimsAddUp(surplusPool', totals'.CollSurplus)
  BY <1>2, SameClaims
<1>11. QED BY <1>9, <1>10 DEF SumsOK

\* A redemption that ends has sent on all it held.
LEMMA FinishRedemptionSums ==
    ASSUME IInv, MemoryOK, SumsOK, FinishRedemption
    PROVE  SumsOK'
<1> DEFINE out == Amount(redemption.totalETHDrawn, redemption.totalLUSDToRedeem)
<1>1. /\ Redeeming /\ Covers(activePool, out) /\ activePool' = Minus(activePool, out)
      /\ Troves' = Troves /\ totalStakes' = totalStakes /\ surplusPool' = surplusPool
      /\ totals' = NoTotals /\ redemption' = NoRedemption
  BY DEF FinishRedemption, Return, book
<1>2. totals = NoTotals
  BY <1>1 DEF MemoryOK, Settled, Redeeming, Liquidating
<1>3. redemption.totalETHDrawn \in Nat /\ redemption.totalLUSDToRedeem \in Nat
  BY RedemptionIs DEF IInv, LocalOK
<1>4. HeldColl = redemption.totalETHDrawn /\ HeldDebt = redemption.totalLUSDToRedeem
  BY <1>2, <1>3 DEF HeldColl, HeldDebt, NoTotals
<1>5. out \in Amounts /\ out.ETH = HeldColl /\ out.LUSDDebt = HeldDebt
  BY <1>3, <1>4 DEF Amount, Amounts
<1>6. activePool \in Amounts /\ CurrentOK
  BY DEF IInv, CurrentOK, PoolsOK
<1> HIDE DEF out
<1>7. /\ activePool'.ETH = activePool.ETH - HeldColl
      /\ activePool'.LUSDDebt = activePool.LUSDDebt - HeldDebt
      /\ activePool.ETH \in Nat /\ activePool.LUSDDebt \in Nat
  BY <1>1, <1>5, <1>6, AmountArithmetic
<1>8. HeldColl' = 0 /\ HeldDebt' = 0 /\ totals'.CollSurplus = 0 /\ totals.CollSurplus = 0
  BY <1>1, <1>2, ReturnHoldsNothing DEF NoTotals
<1> DEFINE c == SumOf(Colls(Troves))
           d == SumOf(Debts(Troves))
<1>9. c \in Int /\ d \in Int
  BY <1>6, SumsAreInt
<1>10. /\ totalStakes = SumOf(Stakes(Troves))
       /\ activePool.ETH = c + HeldColl /\ activePool.LUSDDebt = d + HeldDebt
  BY DEF SumsOK, TrovesAddUp
<1>11. HeldColl \in Nat /\ HeldDebt \in Nat
  BY HeldIs
<1>12. activePool'.ETH = c + HeldColl' /\ activePool'.LUSDDebt = d + HeldDebt'
  <2> HIDE DEF c, d
  <2>1. QED BY <1>7, <1>8, <1>9, <1>10, <1>11
<1>13. TrovesAddUp(Troves', totalStakes', activePool', HeldColl', HeldDebt')
  BY <1>1, <1>10, <1>12 DEF TrovesAddUp
<1>14. ClaimsAddUp(surplusPool', totals'.CollSurplus)
  BY <1>1, <1>8 DEF SumsOK
<1>15. QED BY <1>13, <1>14 DEF SumsOK

\* A revert restores sums that add up, and holds nothing.
LEMMA RevertSums ==
    ASSUME CommittedSumsOK, Revert
    PROVE  SumsOK'
<1>1. /\ Troves' = committed.Troves /\ totalStakes' = committed.totalStakes
      /\ activePool' = committed.activePool /\ surplusPool' = committed.surplusPool
      /\ totals' = NoTotals /\ redemption' = NoRedemption
  BY DEF Revert
<1>2. HeldColl' = 0 /\ HeldDebt' = 0 /\ totals'.CollSurplus = 0
  BY <1>1, ReturnHoldsNothing
<1>3. QED BY <1>1, <1>2 DEF CommittedSumsOK, SumsOK

\* Every step keeps the sums.
LEMMA SumsStep ==
    ASSUME IInv, MemoryOK, SumsOK, CommittedSumsOK, [Next]_vars
    PROVE  SumsOK'
<1>0. CurrentOK /\ IInv'
  BY StepOK DEF IInv
<1>1. CASE BorrowerStep
  <2>1. ASSUME NEW b \in Borrowers, NEW coll \in CollAmounts, NEW amount \in DebtAmounts,
               NEW fee \in BorrowingFees \union {0}, OpenTrove(b, coll, amount, fee)
        PROVE  SumsOK'
    BY <1>0, <2>1, InputsAreNat, OpenSums
  <2>2. ASSUME NEW b \in Borrowers, AdjustOwnTrove(b) PROVE SumsOK'
    <3>1. PICK w \in CollChanges \union {0}, t \in CollChanges \union {0},
               d \in DebtChanges \union {0}, inc \in BOOLEAN, fee \in BorrowingFees \union {0} :
                 AdjustTrove(b, w, t, d, inc, fee)
      BY <2>2 DEF AdjustOwnTrove
    <3>2. w \in Nat /\ t \in Nat /\ d \in Nat /\ fee \in Nat
      BY InputsAreNat
    <3>3. QED BY <1>0, <3>1, <3>2, AdjustSums
  <2>3. QED BY <1>0, <1>1, <2>1, <2>2, CloseOwnSums, ClaimSums DEF BorrowerStep
<1>2. CASE LiquidationStep
  <2>1. ASSUME NEW op \in {"sequence", "batch"}, BeginLiquidation(op) PROVE SumsOK'
    BY <2>1, QuietSums DEF BeginLiquidation, book, pools
  <2>2. ASSUME NEW b \in Borrowers, LiquidateInRecoveryMode(b) \/ LiquidateInNormalMode(b)
        PROVE  SumsOK'
    BY <1>0, <2>2, LoopStepCloses, LoopSums
  <2>3. ASSUME NEW b \in Borrowers, PassOver(b) PROVE SumsOK'
    BY <2>3, QuietSums DEF PassOver, book, pools
  <2>4. QED BY <1>2, <2>1, <2>2, <2>3, FinishLiquidationSums DEF LiquidationStep
<1>3. CASE RedemptionStep
  <2>1. ASSUME NEW b \in Borrowers, NEW amount \in Nat, BeginRedemption(amount, b)
        PROVE  SumsOK'
    <3>1. Idle /\ redemption' = [NoRedemption EXCEPT !.remainingLUSD = amount]
          /\ UNCHANGED <<book, pools, totals>>
      BY <2>1 DEF BeginRedemption, Begin
    <3>2. redemption = NoRedemption
      BY <3>1 DEF MemoryOK, Idle, Redeeming
    <3>3. /\ redemption'.totalETHDrawn = redemption.totalETHDrawn
          /\ redemption'.totalLUSDToRedeem = redemption.totalLUSDToRedeem
      BY <3>1, <3>2 DEF NoRedemption
    <3>4. QED BY <3>1, <3>3, QuietSums DEF book, pools
  <2>2. QED BY <1>0, <1>3, <2>1, InputsAreNat, RedeemWholeSums, RedeemPartSums, CancelSums,
               FinishRedemptionSums DEF RedemptionStep
<1>4. CASE EnvironmentStep
  BY <1>4, QuietSums DEF EnvironmentStep, ProvideToSP, WithdrawFromSP, SetPrice, book, pools, local
<1>5. CASE Revert
  BY <1>5, RevertSums
<1>6. CASE UNCHANGED vars
  BY <1>6, QuietSums DEF vars, book, pools, local
<1>7. QED BY <1>1, <1>2, <1>3, <1>4, <1>5, <1>6 DEF Next

\* Whatever is committed is committed when nothing is held.
LEMMA CommitsNothingHeld ==
    ASSUME MemoryOK, [Next]_vars
    PROVE  committed' = committed \/ (Commit /\ HeldColl' = 0 /\ HeldDebt' = 0
                                       /\ totals'.CollSurplus = 0)
<1>1. committed' = committed \/ (Commit /\ totals' = NoTotals)
  BY CommitsSettled DEF MemoryOK
<1>2. CASE BorrowerStep \/ EnvironmentStep
  <2>1. Idle /\ redemption' = redemption
    BY <1>2, OneStepTransactions DEF local
  <2>2. redemption' = NoRedemption
    BY <2>1 DEF MemoryOK, Idle, Redeeming
  <2>3. QED BY <1>1, <2>2, ReturnHoldsNothing
<1>3. CASE FinishLiquidation \/ FinishRedemption
  BY <1>3, <1>1, ReturnHoldsNothing DEF FinishLiquidation, FinishRedemption, Return
<1>4. CASE LiquidationStep /\ ~FinishLiquidation
  BY <1>4 DEF LiquidationStep, BeginLiquidation, LiquidateInRecoveryMode, PassOver,
     LiquidateInNormalMode, LiquidateTrove
<1>5. CASE RedemptionStep /\ ~FinishRedemption
  BY <1>5 DEF RedemptionStep, BeginRedemption, RedeemWholeTrove, RedeemPart, CancelPartial
<1>6. CASE Revert \/ UNCHANGED vars
  BY <1>6 DEF Revert, vars
<1>7. QED BY <1>2, <1>3, <1>4, <1>5, <1>6 DEF Next, LiquidationStep, RedemptionStep

\* So the sums of what a revert would restore add up as well.
LEMMA CommittedSumsStep ==
    ASSUME MemoryOK, SumsOK', CommittedSumsOK, [Next]_vars
    PROVE  CommittedSumsOK'
<1>1. CASE committed' = committed
  BY <1>1 DEF CommittedSumsOK
<1>2. CASE Commit /\ HeldColl' = 0 /\ HeldDebt' = 0 /\ totals'.CollSurplus = 0
  <2>1. /\ committed'.Troves = Troves' /\ committed'.totalStakes = totalStakes'
        /\ committed'.activePool = activePool' /\ committed'.surplusPool = surplusPool'
    BY <1>2 DEF Commit, Ledger
  <2>2. QED BY <1>2, <2>1 DEF SumsOK, CommittedSumsOK
<1>3. QED BY <1>1, <1>2, CommitsNothingHeld

\* A sum of zeros.
LEMMA SumOfZeros ==
    ASSUME NEW f, \A b \in Borrowers : f[b] = 0
    PROVE  SumOf(f) = 0
<1>1. IsFiniteSet(Borrowers)
  BY BorrowersAssumption
<1>2. \A b \in Borrowers : f[b] \in Int /\ f[b] = f[b] + 1 * f[b]
  OBVIOUS
<1>3. SumFunctionOnSet(f, Borrowers) \in Int
  BY ONLY <1>1, <1>2, SumType
<1>4. SumFunctionOnSet(f, Borrowers)
        = SumFunctionOnSet(f, Borrowers) + 1 * SumFunctionOnSet(f, Borrowers)
  <2>1. /\ 1 \in Int
        /\ \A b \in Borrowers : f[b] \in Int /\ f[b] \in Int /\ f[b] = f[b] + 1 * f[b]
    BY <1>2
  <2>2. QED BY ONLY <1>1, <2>1, SumLinear
<1> DEFINE x == SumFunctionOnSet(f, Borrowers)
<1>5. x \in Int /\ x = x + 1 * x
  BY <1>3, <1>4
<1> HIDE DEF x
<1>6. x = 0
  BY <1>5
<1>7. QED BY <1>6 DEF SumOf, x

\* Initially all the sums are zero.
LEMMA SumsInit == Init => SumsOK /\ CommittedSumsOK
<1> SUFFICES ASSUME Init PROVE SumsOK /\ CommittedSumsOK
  OBVIOUS
<1>1. /\ Troves = [b \in Borrowers |-> NoTrove] /\ totalStakes = 0
      /\ activePool = Amount(0, 0)
      /\ surplusPool = [ETH |-> 0, balances |-> [b \in Borrowers |-> 0]]
      /\ totals = NoTotals /\ redemption = NoRedemption /\ committed = Ledger
  BY DEF Init
<1>2. /\ HeldColl = 0 /\ HeldDebt = 0 /\ totals.CollSurplus = 0
      /\ activePool.ETH = 0 /\ activePool.LUSDDebt = 0
      /\ surplusPool.ETH = 0 /\ surplusPool.balances = [b \in Borrowers |-> 0]
  BY <1>1 DEF HeldColl, HeldDebt, NoTotals, NoRedemption, Amount
<1>3. /\ \A b \in Borrowers : Colls(Troves)[b] = 0
      /\ \A b \in Borrowers : Debts(Troves)[b] = 0
      /\ \A b \in Borrowers : Stakes(Troves)[b] = 0
      /\ \A b \in Borrowers : surplusPool.balances[b] = 0
  BY <1>1, <1>2 DEF Colls, Debts, Stakes, NoTrove
<1>4. /\ SumOf(Colls(Troves)) = 0 /\ SumOf(Debts(Troves)) = 0
      /\ SumOf(Stakes(Troves)) = 0 /\ SumOf(surplusPool.balances) = 0
  BY <1>3, SumOfZeros
<1>5. SumsOK
  BY <1>1, <1>2, <1>4 DEF SumsOK, TrovesAddUp, ClaimsAddUp
<1>6. /\ committed.Troves = Troves /\ committed.totalStakes = totalStakes
      /\ committed.activePool = activePool /\ committed.surplusPool = surplusPool
  BY <1>1 DEF Ledger
<1>7. QED BY <1>2, <1>5, <1>6 DEF SumsOK, CommittedSumsOK

\* The sums add up in every state, and after any revert.
LEMMA SumsInvariant == Spec => [](IInv /\ MemoryOK /\ SumsOK /\ CommittedSumsOK)
<1>1. IInv /\ MemoryOK /\ SumsOK /\ CommittedSumsOK /\ [Next]_vars
        => (SumsOK /\ CommittedSumsOK)'
  BY SumsStep, CommittedSumsStep
<1>2. QED BY <1>1, SumsInit, MemoryInvariant, PTL DEF Spec

\* Sum, as the properties write it, is SumOf.
LEMMA SumIs ==
    /\ Sum(Coll) = SumOf(Colls(Troves)) /\ Sum(Debt) = SumOf(Debts(Troves))
    /\ Sum(Stake) = SumOf(Stakes(Troves))
    /\ CurrentOK => Sum(Surplus) = SumOf(surplusPool.balances)
<1>1. Sum(Coll) = SumOf(Colls(Troves))
  BY DEF Sum, SumFunction, SumOf, Coll, Colls
<1>2. Sum(Debt) = SumOf(Debts(Troves))
  BY DEF Sum, SumFunction, SumOf, Debt, Debts
<1>3. Sum(Stake) = SumOf(Stakes(Troves))
  BY DEF Sum, SumFunction, SumOf, Stake, Stakes
<1>4. CurrentOK => Sum(Surplus) = SumOf(surplusPool.balances)
  <2> SUFFICES ASSUME CurrentOK PROVE Sum(Surplus) = SumOf(surplusPool.balances)
    OBVIOUS
  <2>1. surplusPool.balances \in [Borrowers -> Nat]
    BY DEF CurrentOK, PoolsOK
  <2>2. [b \in Borrowers |-> surplusPool.balances[b]] = surplusPool.balances
    BY <2>1
  <2>3. Sum(Surplus) = SumOf([b \in Borrowers |-> surplusPool.balances[b]])
    BY DEF Sum, SumFunction, SumOf, Surplus
  <2>4. QED BY <2>2, <2>3
<1>5. QED BY <1>1, <1>2, <1>3, <1>4

\* The active pool's counters are exactly what the troves record and what the
\* transaction under way holds, whatever is liquidated, redeemed, cancelled or
\* reverted: no sub of ActivePool.sendETH or decreaseLUSDDebt can fail on a
\* trove's own amounts.
THEOREM ActivePoolIsExact == Spec => []ActivePoolBacksTroves
<1>1. IInv /\ SumsOK => ActivePoolBacksTroves
  <2> SUFFICES ASSUME IInv, SumsOK PROVE ActivePoolBacksTroves
    OBVIOUS
  <2>1. /\ activePool.ETH = SumOf(Colls(Troves)) + HeldColl
        /\ activePool.LUSDDebt = SumOf(Debts(Troves)) + HeldDebt
    BY DEF SumsOK, TrovesAddUp
  <2>2. /\ SumOf(Colls(Troves)) \in Int /\ SumOf(Debts(Troves)) \in Int
    BY SumsAreInt DEF IInv
  <2>3. /\ totals.CollInSequence \in Nat /\ totals.DebtInSequence \in Nat
        /\ redemption.totalETHDrawn \in Nat /\ redemption.totalLUSDToRedeem \in Nat
    BY TotalsIs, RedemptionIs DEF IInv, LocalOK
  <2>4. /\ activePool.ETH = Sum(Coll) + HeldColl /\ Sum(Coll) \in Int
        /\ activePool.LUSDDebt = Sum(Debt) + HeldDebt /\ Sum(Debt) \in Int
    BY <2>1, <2>2, SumIs
  <2>5. QED BY <2>3, <2>4 DEF ActivePoolBacksTroves, HeldColl, HeldDebt
<1>2. QED BY <1>1, SumsInvariant, PTL

\* Every claim on the surplus pool is funded as soon as the transaction that
\* accounted for it has sent the collateral (accountSurplus, claimColl).
THEOREM ClaimsAreFunded == Spec => []SurplusIsFunded
<1>1. IInv /\ SumsOK => SurplusIsFunded
  BY SumIs DEF IInv, SumsOK, ClaimsAddUp, SurplusIsFunded
<1>2. QED BY <1>1, SumsInvariant, PTL

-----------------------------------------------------------------------------
(* Somebody to redistribute to *)

\* No rounding has made the stake of an open trove zero.
StakesPositive == \A b \in Borrowers : Active(b) => Troves[b].stake > 0

\* A liquidation leaves a trove open; _computeNewStake's assertion holds now
\* and after a revert.
OpenOK ==
    /\ Liquidating => TroveOwners # << >>
    /\ StakeDefined
    /\ committed.totalCollateralSnapshot = 0 \/ committed.totalStakesSnapshot > 0

\* Where a trove is open, and every stake counts, the stakes add up to
\* something.
LEMMA SomeStake ==
    ASSUME IInv, SumsOK, StakesPositive, TroveOwners # << >>
    PROVE  totalStakes > 0
<1>1. /\ BookOK(Troves, TroveOwners, sortedTroves) /\ IsFiniteSet(Borrowers)
  BY BorrowersAssumption DEF IInv, CurrentOK
<1>2. 1 \in DOMAIN TroveOwners /\ TroveOwners[1] \in Borrowers
  <2>1. TroveOwners \in Seq(Borrowers)
    BY <1>1 DEF BookOK
  <2>2. QED BY <2>1, EmptySeq, LenProperties, ElementOfSeq
<1> DEFINE x == TroveOwners[1]
<1>3. Active(x)
  BY <1>1, <1>2 DEF BookOK, OwnersMatch, Active
<1>4. x \in Borrowers /\ Troves[x].stake > 0
  BY <1>2, <1>3 DEF StakesPositive
<1> HIDE DEF x
<1> DEFINE f == Stakes(Troves)
<1>5. \A b \in Borrowers : Troves[b] \in TroveRecords
  BY <1>1 DEF BookOK
<1>6. /\ \A b \in Borrowers : f[b] \in Nat
      /\ f[x] = Troves[x].stake
  BY <1>4, <1>5 DEF Stakes, TroveRecords
<1> HIDE DEF f
<1>7. SumFunctionOnSet(f, Borrowers) \in Nat /\ f[x] <= SumFunctionOnSet(f, Borrowers)
  <2>1. \A b \in Borrowers : f[b] \in Nat
    BY <1>6
  <2>2. IsFiniteSet(Borrowers) /\ x \in Borrowers
    BY <1>1, <1>4
  <2>3. QED BY ONLY <2>1, <2>2, SumOfNaturals
<1>8. totalStakes = SumFunctionOnSet(f, Borrowers)
  BY DEF SumsOK, TrovesAddUp, SumOf, f
<1>9. f[x] \in Nat /\ f[x] > 0
  BY <1>4, <1>6
<1>10. QED BY <1>7, <1>8, <1>9

\* No close takes the last owner; nothing but the end of a liquidation sets
\* the snapshots.
LEMMA OpenStep ==
    ASSUME IInv, SumsOK, StakesPositive, OpenOK, [Next]_vars
    PROVE  OpenOK'
<1>0. CurrentOK /\ LocalOK
  BY DEF IInv
<1>1. ASSUME UNCHANGED snapshots PROVE StakeDefined'
  BY <1>1 DEF OpenOK, StakeDefined, snapshots
<1>2. ASSUME StakeDefined', committed' = committed \/ Commit
      PROVE  committed'.totalCollateralSnapshot = 0 \/ committed'.totalStakesSnapshot > 0
  BY <1>2 DEF OpenOK, StakeDefined, Commit, Ledger
<1>3. ASSUME Idle, UNCHANGED local PROVE ~Liquidating'
  BY <1>3 DEF Idle, Liquidating, local
<1>4. CASE BorrowerStep \/ EnvironmentStep
  <2> DEFINE Kept == UNCHANGED snapshots /\ (committed' = committed \/ Commit)
  <2>1. ASSUME NEW b, NEW coll, NEW amount, NEW fee, OpenTrove(b, coll, amount, fee) PROVE Kept
    BY <2>1 DEF OpenTrove
  <2>2. ASSUME NEW b, NEW w, NEW t, NEW d, NEW inc, NEW fee, AdjustTrove(b, w, t, d, inc, fee)
        PROVE  Kept
    BY <2>2 DEF AdjustTrove
  <2>3. ASSUME NEW b, CloseOwnTrove(b) PROVE Kept
    BY <2>3 DEF CloseOwnTrove
  <2>4. ASSUME NEW b, ClaimCollateral(b) PROVE Kept
    BY <2>4 DEF ClaimCollateral, book
  <2>5. ASSUME NEW a, ProvideToSP(a) \/ WithdrawFromSP(a) PROVE Kept
    BY <2>5 DEF ProvideToSP, WithdrawFromSP, book
  <2>6. ASSUME NEW p, SetPrice(p) PROVE Kept
    BY <2>6 DEF SetPrice, book
  <2>7. Kept
    BY <1>4, <2>1, <2>2, <2>3, <2>4, <2>5, <2>6
       DEF BorrowerStep, AdjustOwnTrove, EnvironmentStep
  <2>8. QED BY <1>1, <1>2, <1>3, <1>4, <2>7, OneStepTransactions DEF OpenOK
<1>5. CASE LiquidationStep
  <2>1. ASSUME NEW op \in {"sequence", "batch"}, BeginLiquidation(op) PROVE OpenOK'
    BY <2>1, <1>1 DEF BeginLiquidation, book, OpenOK
  <2>2. ASSUME NEW b \in Borrowers, LiquidateInRecoveryMode(b) \/ LiquidateInNormalMode(b)
        PROVE  OpenOK'
    <3>1. PICK v : LoopCloses(b, v)
      BY <2>2, LoopStepCloses
    <3>2. /\ Active(b) /\ CloseTrove(b, "closedByLiquidation")
          /\ UNCHANGED <<snapshots, committed>>
      BY <3>1 DEF LoopCloses, LiquidateTrove
    <3>3. Len(TroveOwners) > 1 /\ TroveOwners' = RemoveTroveOwner(b)
      BY <3>2 DEF CloseTrove
    <3>4. Len(TroveOwners') = Len(TroveOwners) - 1 /\ Len(TroveOwners) \in Nat
      BY <1>0, <3>2, <3>3, RemoveTroveOwnerIs, LenProperties DEF CurrentOK, BookOK
    <3>5. TroveOwners' # << >>
      <4>1. Len(TroveOwners') > 0
        BY <3>3, <3>4
      <4>2. QED BY <4>1, EmptySeq
    <3>6. QED BY <3>2, <3>5, <1>1 DEF OpenOK
  <2>3. ASSUME NEW b \in Borrowers, PassOver(b) PROVE OpenOK'
    BY <2>3, <1>1 DEF PassOver, InRecovery, book, OpenOK
  <2>4. CASE FinishLiquidation
    <3>1. totalStakesSnapshot' = totalStakes /\ TroveOwners # << >> /\ Commit /\ tx' = IdleTx
      BY <2>4 DEF FinishLiquidation, Return, OpenOK
    <3>2. totalStakes > 0
      BY <3>1, SomeStake
    <3>3. QED BY <3>1, <3>2, <1>2 DEF OpenOK, StakeDefined, IdleTx, Liquidating
  <2>5. QED BY <1>5, <2>1, <2>2, <2>3, <2>4 DEF LiquidationStep
<1>6. CASE RedemptionStep
  <2>1. UNCHANGED snapshots /\ (committed' = committed \/ Commit)
    BY <1>6 DEF RedemptionStep, BeginRedemption, RedeemWholeTrove, RedeemPart, CancelPartial,
       FinishRedemption, Return, book
  <2>2. ~Liquidating'
    <3>1. ASSUME NEW amount, NEW b, BeginRedemption(amount, b) PROVE ~Liquidating'
      BY <3>1 DEF BeginRedemption, IdleTx, Liquidating
    <3>2. ASSUME NEW b \in Borrowers, RedeemWholeTrove(b) \/ RedeemPart(b) \/ CancelPartial(b)
          PROVE  ~Liquidating'
      <4>1. tx'.op = tx.op
        BY <1>0, <3>2, SameOperation
      <4>2. Redeeming
        BY <3>2 DEF RedeemWholeTrove, RedeemPart, CancelPartial, Looking
      <4>3. QED BY <4>1, <4>2 DEF Liquidating, Redeeming
    <3>3. CASE FinishRedemption
      BY <3>3 DEF FinishRedemption, Return, IdleTx, Liquidating
    <3>4. QED BY <1>6, <3>1, <3>2, <3>3 DEF RedemptionStep
  <2>3. QED BY <1>1, <1>2, <2>1, <2>2 DEF OpenOK
<1>7. CASE Revert
  BY <1>7 DEF Revert, IdleTx, Liquidating, OpenOK, StakeDefined
<1>8. CASE UNCHANGED vars
  BY <1>8 DEF vars, book, local, snapshots, OpenOK, StakeDefined, Liquidating
<1>9. QED BY <1>4, <1>5, <1>6, <1>7, <1>8 DEF Next

\* totalStakes is the sum of the stakes that the rewards are computed for,
\* whatever is opened, restaked, closed, redeemed or reverted (_removeStake,
\* _updateStakeAndTotalStakes).
THEOREM StakesAreExact == Spec => [](totalStakes = Sum(Stake))
<1>1. SumsOK => totalStakes = Sum(Stake)
  BY SumIs DEF SumsOK, TrovesAddUp
<1>2. QED BY <1>1, SumsInvariant, PTL

\* As long as no rounding makes an open trove's stake zero, a redistribution
\* finds stakes to divide by, and the assertion of _computeNewStake holds.
THEOREM RedistributionsFindStakes == Spec /\ []StakesPositive => []StakesAddUp
<1>1. Init => OpenOK
  <2> SUFFICES ASSUME Init PROVE OpenOK
    OBVIOUS
  <2>1. /\ tx = IdleTx /\ totalCollateralSnapshot = 0 /\ committed = Ledger
    BY DEF Init
  <2>2. QED BY <2>1 DEF OpenOK, StakeDefined, IdleTx, Liquidating, Ledger
<1>2. IInv /\ SumsOK /\ StakesPositive /\ OpenOK /\ [Next]_vars => OpenOK'
  BY OpenStep
<1>3. IInv /\ MemoryOK /\ SumsOK /\ StakesPositive /\ OpenOK => StakesAddUp
  <2> SUFFICES ASSUME IInv, MemoryOK, SumsOK, StakesPositive, OpenOK PROVE StakesAddUp
    OBVIOUS
  <2>1. totalStakes = Sum(Stake)
    BY SumIs DEF SumsOK, TrovesAddUp
  <2>2. ASSUME totals.DebtToRedistribute > 0 PROVE totalStakes > 0
    <3>1. Liquidating
      BY <2>2 DEF MemoryOK, Settled, NoTotals
    <3>2. QED BY <3>1, SomeStake DEF OpenOK
  <2>3. QED BY <2>1, <2>2 DEF StakesAddUp, OpenOK
<1>4. QED BY <1>1, <1>2, <1>3, SumsInvariant, PTL DEF Spec

-----------------------------------------------------------------------------
(* The default pool *)

\* What l per unit staked has earned each stake since its snapshot, in parts of
\* DECIMAL_PRECISION.
Earned(stakes, snaps, l) == [b \in Borrowers |-> stakes[b] * (l - snaps[b])]

\* The pool holds all that is earned, and the error carried to the next
\* redistribution.
Backed(pool, error, stakes, snaps, l) ==
    SumOf(Earned(stakes, snaps, l)) + error <= DECIMAL_PRECISION * pool

\* Stakes and snapshots are numbers, and no snapshot is ahead.
Shares(stakes, snaps, l) ==
    \A b \in Borrowers : stakes[b] \in Nat /\ snaps[b] \in Nat /\ snaps[b] <= l

\* What a stake has earned is a number.
LEMMA EarnedNat ==
    ASSUME NEW l \in Nat, NEW stakes, NEW snaps, Shares(stakes, snaps, l)
    PROVE  /\ \A b \in Borrowers : Earned(stakes, snaps, l)[b] \in Nat
           /\ SumOf(Earned(stakes, snaps, l)) \in Nat
<1> DEFINE f == Earned(stakes, snaps, l)
<1>1. \A b \in Borrowers : f[b] \in Nat
  <2> SUFFICES ASSUME NEW b \in Borrowers PROVE stakes[b] * (l - snaps[b]) \in Nat
    BY DEF Earned
  <2>1. stakes[b] \in Nat /\ snaps[b] \in Nat /\ snaps[b] <= l
    BY DEF Shares
  <2>2. l - snaps[b] \in Nat
    BY <2>1
  <2>3. QED BY <2>1, <2>2
<1> HIDE DEF f
<1>2. IsFiniteSet(Borrowers)
  BY BorrowersAssumption
<1>3. SumFunctionOnSet(f, Borrowers) \in Nat
  BY ONLY <1>1, <1>2, SumOfNaturals
<1>4. QED BY <1>1, <1>3 DEF SumOf, f

\* One trove's share is paid, at least in part, and settled.
LEMMA SharePaid ==
    ASSUME NEW l \in Nat, NEW stakes, NEW snaps, NEW stakes1, NEW snaps1,
           Shares(stakes, snaps, l), Shares(stakes1, snaps1, l), NEW b \in Borrowers,
           \A x \in Borrowers \ {b} : stakes1[x] = stakes[x] /\ snaps1[x] = snaps[x],
           NEW pool \in Nat, NEW paid \in Nat, NEW error \in Nat,
           stakes1[b] * (l - snaps1[b]) + DECIMAL_PRECISION * paid <= stakes[b] * (l - snaps[b]),
           Backed(pool, error, stakes, snaps, l)
    PROVE  Backed(pool - paid, error, stakes1, snaps1, l)
<1> DEFINE f == Earned(stakes, snaps, l)
           g == Earned(stakes1, snaps1, l)
<1>1. /\ \A y \in Borrowers : f[y] \in Nat /\ g[y] \in Nat
      /\ SumFunctionOnSet(f, Borrowers) \in Nat
  BY EarnedNat DEF SumOf
<1>2. \A y \in Borrowers \ {b} : g[y] = f[y]
  BY DEF Earned
<1>3. g[b] + DECIMAL_PRECISION * paid <= f[b]
  BY DEF Earned
<1>4. SumFunctionOnSet(f, Borrowers) + error <= DECIMAL_PRECISION * pool
  BY DEF Backed, SumOf
<1> HIDE DEF f, g
<1>5. SumFunctionOnSet(g, Borrowers) = SumFunctionOnSet(f, Borrowers) - f[b] + g[b]
  <2>1. IsFiniteSet(Borrowers) /\ \A y \in Borrowers : f[y] \in Int /\ g[y] \in Int
    BY <1>1, BorrowersAssumption
  <2>2. QED BY ONLY <2>1, <1>2, SumUpdate, b \in Borrowers
<1> DEFINE s == SumFunctionOnSet(f, Borrowers)
           t == SumFunctionOnSet(g, Borrowers)
<1>6. s \in Nat /\ f[b] \in Nat /\ g[b] \in Nat /\ t = s - f[b] + g[b]
      /\ s + error <= DECIMAL_PRECISION * pool
  BY <1>1, <1>4, <1>5
<1> HIDE DEF s, t
<1>7. DECIMAL_PRECISION * (pool - paid) = DECIMAL_PRECISION * pool - DECIMAL_PRECISION * paid
      /\ DECIMAL_PRECISION * pool \in Nat /\ DECIMAL_PRECISION * paid \in Nat
  BY ConstantFacts
<1>8. t + error <= DECIMAL_PRECISION * (pool - paid)
  <2> DEFINE x == DECIMAL_PRECISION * pool
             y == DECIMAL_PRECISION * paid
             z == DECIMAL_PRECISION * (pool - paid)
  <2>1. z = x - y /\ x \in Nat /\ y \in Nat /\ s + error <= x /\ g[b] + y <= f[b]
    BY <1>3, <1>6, <1>7
  <2> HIDE DEF x, y, z
  <2>2. t + error <= z
    BY <2>1, <1>6
  <2>3. QED BY <2>2 DEF z
<1>9. QED BY <1>8 DEF Backed, SumOf, t, g

\* A redistribution adds to what is earned what it adds to the pool, but for
\* the change of the error.
LEMMA ShareAdded ==
    ASSUME NEW l \in Nat, NEW stakes, NEW snaps, Shares(stakes, snaps, l),
           NEW total \in Nat, total = SumOf([b \in Borrowers |-> stakes[b]]),
           NEW pool \in Nat, NEW error \in Nat, NEW q \in Nat, NEW perUnit \in Nat,
           NEW error1 \in Nat,
           error1 = q * DECIMAL_PRECISION + error - perUnit * total,
           Backed(pool, error, stakes, snaps, l)
    PROVE  Backed(pool + q, error1, stakes, snaps, l + perUnit)
<1> DEFINE f == Earned(stakes, snaps, l)
           g == [b \in Borrowers |-> stakes[b]]
           h == Earned(stakes, snaps, l + perUnit)
<1>1. /\ \A y \in Borrowers : f[y] \in Nat
      /\ SumFunctionOnSet(f, Borrowers) \in Nat
  BY EarnedNat DEF SumOf
<1>2. ASSUME NEW y \in Borrowers PROVE g[y] \in Int /\ h[y] = f[y] + perUnit * g[y]
  <2>1. stakes[y] \in Nat /\ snaps[y] \in Nat
    BY DEF Shares
  <2>2. stakes[y] * (l + perUnit - snaps[y]) = stakes[y] * (l - snaps[y]) + perUnit * stakes[y]
    BY <2>1
  <2>3. QED BY <2>1, <2>2 DEF Earned
<1>3. total = SumFunctionOnSet(g, Borrowers)
  BY DEF SumOf
<1>4. SumFunctionOnSet(f, Borrowers) + error <= DECIMAL_PRECISION * pool
  BY DEF Backed, SumOf
<1> HIDE DEF f, g, h
<1>5. SumFunctionOnSet(h, Borrowers)
        = SumFunctionOnSet(f, Borrowers) + perUnit * SumFunctionOnSet(g, Borrowers)
  <2>1. IsFiniteSet(Borrowers) /\ perUnit \in Int
    BY BorrowersAssumption
  <2>2. \A y \in Borrowers : f[y] \in Int /\ g[y] \in Int /\ h[y] = f[y] + perUnit * g[y]
    BY <1>1, <1>2
  <2>3. QED BY ONLY <2>1, <2>2, SumLinear
<1> DEFINE s == SumFunctionOnSet(f, Borrowers)
           t == SumFunctionOnSet(h, Borrowers)
<1>6. s \in Nat /\ t = s + perUnit * total /\ s + error <= DECIMAL_PRECISION * pool
  BY <1>1, <1>3, <1>4, <1>5
<1> HIDE DEF s, t
<1>7. DECIMAL_PRECISION * (pool + q) = DECIMAL_PRECISION * pool + q * DECIMAL_PRECISION
      /\ DECIMAL_PRECISION * pool \in Nat /\ q * DECIMAL_PRECISION \in Nat
      /\ perUnit * total \in Nat
  BY ConstantFacts
<1>8. t + error1 <= DECIMAL_PRECISION * (pool + q)
  <2> DEFINE x == DECIMAL_PRECISION * pool
             y == q * DECIMAL_PRECISION
             z == DECIMAL_PRECISION * (pool + q)
             u == perUnit * total
  <2>1. /\ z = x + y /\ x \in Nat /\ y \in Nat /\ u \in Nat /\ s + error <= x
        /\ t = s + u /\ error1 = y + error - u
    BY <1>6, <1>7
  <2> HIDE DEF x, y, z, u
  <2>2. t + error1 <= z
    BY <2>1, <1>6
  <2>3. QED BY <2>2 DEF z
<1>9. QED BY <1>8 DEF Backed, SumOf, t, h

\* A backed pool pays every share, rounded down.
LEMMA BackedCovers ==
    ASSUME NEW l \in Nat, NEW stakes, NEW snaps, Shares(stakes, snaps, l),
           NEW pool \in Nat, NEW error \in Nat, Backed(pool, error, stakes, snaps, l),
           NEW p, \A b \in Borrowers : p[b] \in Nat
                    /\ DECIMAL_PRECISION * p[b] <= stakes[b] * (l - snaps[b])
    PROVE  SumOf(p) <= pool
<1> DEFINE f == Earned(stakes, snaps, l)
           zero == [b \in Borrowers |-> 0]
           h == [b \in Borrowers |-> DECIMAL_PRECISION * p[b]]
<1>0. IsFiniteSet(Borrowers) /\ DECIMAL_PRECISION \in Int
  BY BorrowersAssumption, ConstantFacts
<1>1. /\ \A y \in Borrowers : f[y] \in Nat
      /\ SumFunctionOnSet(f, Borrowers) \in Nat
  BY EarnedNat DEF SumOf
<1>2. ASSUME NEW y \in Borrowers
      PROVE  /\ h[y] \in Int /\ f[y] \in Int /\ h[y] <= f[y]
             /\ zero[y] \in Int /\ p[y] \in Int /\ h[y] = zero[y] + DECIMAL_PRECISION * p[y]
  <2>1. p[y] \in Nat /\ DECIMAL_PRECISION * p[y] \in Nat /\ f[y] \in Nat
        /\ h[y] = DECIMAL_PRECISION * p[y] /\ zero[y] = 0
    BY <1>1, ConstantFacts
  <2>2. h[y] <= f[y]
    BY <2>1 DEF Earned
  <2> HIDE DEF h, f, zero
  <2>3. QED BY <2>1, <2>2
<1>3. SumOf(zero) = 0
  <2>1. \A b \in Borrowers : zero[b] = 0
    OBVIOUS
  <2> HIDE DEF zero
  <2>2. QED BY <2>1, SumOfZeros
<1>4. SumFunctionOnSet(f, Borrowers) + error <= DECIMAL_PRECISION * pool
  BY DEF Backed, SumOf
<1> HIDE DEF f, h, zero
<1>5. SumFunctionOnSet(h, Borrowers) <= SumFunctionOnSet(f, Borrowers)
  <2>1. \A y \in Borrowers : h[y] \in Int /\ f[y] \in Int /\ h[y] <= f[y]
    BY <1>2
  <2>2. QED BY ONLY <1>0, <2>1, SumMonotone
<1>6. SumFunctionOnSet(h, Borrowers)
        = SumFunctionOnSet(zero, Borrowers) + DECIMAL_PRECISION * SumFunctionOnSet(p, Borrowers)
  <2>1. \A y \in Borrowers : zero[y] \in Int /\ p[y] \in Int
                              /\ h[y] = zero[y] + DECIMAL_PRECISION * p[y]
    BY <1>2
  <2>2. QED BY ONLY <1>0, <2>1, SumLinear
<1>7. SumFunctionOnSet(p, Borrowers) \in Int
  <2>1. \A y \in Borrowers : p[y] \in Int
    BY <1>2
  <2>2. QED BY ONLY <1>0, <2>1, SumType
<1> DEFINE s == SumFunctionOnSet(f, Borrowers)
           t == SumFunctionOnSet(p, Borrowers)
           u == SumFunctionOnSet(h, Borrowers)
<1>8. /\ s \in Nat /\ t \in Int /\ u = 0 + DECIMAL_PRECISION * t /\ u <= s
      /\ s + error <= DECIMAL_PRECISION * pool
  BY <1>1, <1>3, <1>4, <1>5, <1>6, <1>7 DEF SumOf
<1> HIDE DEF s, t, u
<1>9. DECIMAL_PRECISION * t <= DECIMAL_PRECISION * pool
  <2>1. DECIMAL_PRECISION * t \in Int /\ DECIMAL_PRECISION * pool \in Int
    BY <1>8, ConstantFacts
  <2>2. QED BY <2>1, <1>8
<1>10. t <= pool
  <2>1. SUFFICES ASSUME t >= pool + 1 PROVE FALSE
    BY <1>8
  <2>2. t - (pool + 1) \in Nat /\ t = pool + 1 + (t - (pool + 1))
    BY <1>8, <2>1
  <2> DEFINE k == t - (pool + 1)
  <2>3. k \in Nat /\ t = pool + 1 + k
    BY <2>2
  <2> HIDE DEF k
  <2>4. DECIMAL_PRECISION * t
          = DECIMAL_PRECISION * pool + DECIMAL_PRECISION + DECIMAL_PRECISION * k
    BY <2>3, ConstantFacts
  <2>5. DECIMAL_PRECISION * k \in Nat /\ DECIMAL_PRECISION * pool \in Nat
    BY <2>3, ConstantFacts
  <2>6. QED BY <1>9, <2>4, <2>5, ConstantFacts
<1>11. QED BY <1>10 DEF SumOf, t

-----------------------------------------------------------------------------
(* What the stakes have earned is backed *)

\* The snapshots of one amount.
EthSnaps(s) == [b \in Borrowers |-> s[b].ETH]
DebtSnaps(s) == [b \in Borrowers |-> s[b].LUSDDebt]

\* The default pool backs the collateral, and the debt, that the stakes earned.
EthBacked(f, s, l, error, pool) ==
    Backed(pool.ETH, error.ETH, Stakes(f), EthSnaps(s), l.ETH)
DebtBacked(f, s, l, error, pool) ==
    Backed(pool.LUSDDebt, error.LUSDDebt, Stakes(f), DebtSnaps(s), l.LUSDDebt)
EthOK == EthBacked(Troves, rewardSnapshots, L, lastError, defaultPool)
DebtOK == DebtBacked(Troves, rewardSnapshots, L, lastError, defaultPool)
CommittedEthOK == EthBacked(committed.Troves, committed.rewardSnapshots, committed.L,
                            committed.lastError, committed.defaultPool)
CommittedDebtOK == DebtBacked(committed.Troves, committed.rewardSnapshots, committed.L,
                              committed.lastError, committed.defaultPool)

\* A share that has no collateral pending has no debt pending either:
\* hasPendingRewards looks at the collateral only.
CaughtUp(f, s, l) ==
    \A b \in Borrowers : f[b].status = "active" /\ s[b].ETH = l.ETH => s[b].LUSDDebt = l.LUSDDebt

\* Snapshots and stakes are numbers, and no snapshot is ahead.
LEMMA SharesAre ==
    ASSUME NEW f \in [Borrowers -> TroveRecords], NEW s, NEW l, NEW error, RewardsOK(s, l, error)
    PROVE  /\ Shares(Stakes(f), EthSnaps(s), l.ETH)
           /\ Shares(Stakes(f), DebtSnaps(s), l.LUSDDebt)
           /\ l.ETH \in Nat /\ l.LUSDDebt \in Nat
           /\ error.ETH \in Nat /\ error.LUSDDebt \in Nat
<1>1. /\ s \in [Borrowers -> Amounts] /\ l \in Amounts /\ error \in Amounts
      /\ \A b \in Borrowers : Covers(l, s[b])
  BY DEF RewardsOK
<1>2. ASSUME NEW b \in Borrowers
      PROVE  /\ f[b].stake \in Nat
             /\ s[b].ETH \in Nat /\ s[b].ETH <= l.ETH
             /\ s[b].LUSDDebt \in Nat /\ s[b].LUSDDebt <= l.LUSDDebt
  <2>1. f[b] \in TroveRecords /\ s[b] \in Amounts
    BY <1>1
  <2>2. QED BY <1>1, <2>1 DEF TroveRecords, Amounts, Covers
<1>3. Shares(Stakes(f), EthSnaps(s), l.ETH)
  BY <1>2 DEF Shares, Stakes, EthSnaps
<1>4. Shares(Stakes(f), DebtSnaps(s), l.LUSDDebt)
  BY <1>2 DEF Shares, Stakes, DebtSnaps
<1>5. QED BY <1>1, <1>3, <1>4 DEF Amounts

\* One trove is written, and p paid out of the default pool for it.
Pays(b, p) ==
    /\ OthersKept(b)
    /\ \A x \in Borrowers \ {b} : rewardSnapshots'[x] = rewardSnapshots[x]
    /\ UNCHANGED rewards
    /\ p \in Amounts /\ Covers(defaultPool, p) /\ defaultPool' = Minus(defaultPool, p)

\* The share it has then is no more than what it had and was not paid.
SettlesEth(b, p) ==
    Troves'[b].stake * (L.ETH - rewardSnapshots'[b].ETH) + DECIMAL_PRECISION * p.ETH
      <= Troves[b].stake * (L.ETH - rewardSnapshots[b].ETH)
SettlesDebt(b, p) ==
    Troves'[b].stake * (L.LUSDDebt - rewardSnapshots'[b].LUSDDebt)
        + DECIMAL_PRECISION * p.LUSDDebt
      <= Troves[b].stake * (L.LUSDDebt - rewardSnapshots[b].LUSDDebt)

\* Such a step keeps the collateral backed.
LEMMA PaysEth ==
    ASSUME CurrentOK, CurrentOK', EthOK, NEW b \in Borrowers, NEW p, Pays(b, p),
           SettlesEth(b, p)
    PROVE  EthOK'
<1> DEFINE f == Stakes(Troves)
           g == EthSnaps(rewardSnapshots)
           f1 == Stakes(Troves')
           g1 == EthSnaps(rewardSnapshots')
           l == L.ETH
           paid == p.ETH
           error == lastError.ETH
           pool == defaultPool.ETH
<1>1. /\ Shares(f, g, l) /\ Shares(f1, g1, L'.ETH)
      /\ l \in Nat /\ error \in Nat /\ pool \in Nat
  <2>1. /\ Troves \in [Borrowers -> TroveRecords] /\ Troves' \in [Borrowers -> TroveRecords]
        /\ RewardsOK(rewardSnapshots, L, lastError)
        /\ RewardsOK(rewardSnapshots', L', lastError')
        /\ defaultPool \in Amounts
    BY DEF CurrentOK, BookOK, PoolsOK
  <2>2. QED BY <2>1, SharesAre DEF Amounts
<1>2. L'.ETH = l /\ lastError'.ETH = error
  BY DEF Pays, rewards
<1>3. paid \in Nat /\ defaultPool'.ETH = pool - paid
  <2>1. defaultPool \in Amounts /\ p \in Amounts /\ Covers(defaultPool, p)
    BY DEF CurrentOK, PoolsOK, Pays
  <2>2. QED BY <2>1, AmountArithmetic DEF Pays
<1>4. \A x \in Borrowers \ {b} : f1[x] = f[x] /\ g1[x] = g[x]
  BY DEF Pays, OthersKept, Stakes, EthSnaps
<1>5. f1[b] * (l - g1[b]) + DECIMAL_PRECISION * paid <= f[b] * (l - g[b])
  BY DEF SettlesEth, Stakes, EthSnaps
<1>6. Backed(pool, error, f, g, l)
  BY DEF EthOK, EthBacked
<1>7. Shares(f1, g1, l)
  BY <1>1, <1>2
<1> HIDE DEF f, g, f1, g1, l, paid, error, pool
<1>8. Backed(pool - paid, error, f1, g1, l)
  BY <1>1, <1>3, <1>4, <1>5, <1>6, <1>7, SharePaid
<1>9. Backed(defaultPool'.ETH, lastError'.ETH, f1, g1, L'.ETH)
  BY <1>2, <1>3, <1>8
<1>10. QED BY <1>9 DEF EthOK, EthBacked, f1, g1

\* And the debt.
LEMMA PaysDebt ==
    ASSUME CurrentOK, CurrentOK', DebtOK, NEW b \in Borrowers, NEW p, Pays(b, p),
           SettlesDebt(b, p)
    PROVE  DebtOK'
<1> DEFINE f == Stakes(Troves)
           g == DebtSnaps(rewardSnapshots)
           f1 == Stakes(Troves')
           g1 == DebtSnaps(rewardSnapshots')
           l == L.LUSDDebt
           paid == p.LUSDDebt
           error == lastError.LUSDDebt
           pool == defaultPool.LUSDDebt
<1>1. /\ Shares(f, g, l) /\ Shares(f1, g1, L'.LUSDDebt)
      /\ l \in Nat /\ error \in Nat /\ pool \in Nat
  <2>1. /\ Troves \in [Borrowers -> TroveRecords] /\ Troves' \in [Borrowers -> TroveRecords]
        /\ RewardsOK(rewardSnapshots, L, lastError)
        /\ RewardsOK(rewardSnapshots', L', lastError')
        /\ defaultPool \in Amounts
    BY DEF CurrentOK, BookOK, PoolsOK
  <2>2. QED BY <2>1, SharesAre DEF Amounts
<1>2. L'.LUSDDebt = l /\ lastError'.LUSDDebt = error
  BY DEF Pays, rewards
<1>3. paid \in Nat /\ defaultPool'.LUSDDebt = pool - paid
  <2>1. defaultPool \in Amounts /\ p \in Amounts /\ Covers(defaultPool, p)
    BY DEF CurrentOK, PoolsOK, Pays
  <2>2. QED BY <2>1, AmountArithmetic DEF Pays
<1>4. \A x \in Borrowers \ {b} : f1[x] = f[x] /\ g1[x] = g[x]
  BY DEF Pays, OthersKept, Stakes, DebtSnaps
<1>5. f1[b] * (l - g1[b]) + DECIMAL_PRECISION * paid <= f[b] * (l - g[b])
  BY DEF SettlesDebt, Stakes, DebtSnaps
<1>6. Backed(pool, error, f, g, l)
  BY DEF DebtOK, DebtBacked
<1>7. Shares(f1, g1, l)
  BY <1>1, <1>2
<1> HIDE DEF f, g, f1, g1, l, paid, error, pool
<1>8. Backed(pool - paid, error, f1, g1, l)
  BY <1>1, <1>3, <1>4, <1>5, <1>6, <1>7, SharePaid
<1>9. Backed(defaultPool'.LUSDDebt, lastError'.LUSDDebt, f1, g1, L'.LUSDDebt)
  BY <1>2, <1>3, <1>8
<1>10. QED BY <1>9 DEF DebtOK, DebtBacked, f1, g1

\* A pending reward is the share of the stake, rounded down, and nothing where
\* the trove is not active.
LEMMA PendingShare ==
    ASSUME CurrentOK, NEW b \in Borrowers
    PROVE  /\ Pending(b) \in Amounts /\ Pending(b).ETH \in Nat /\ Pending(b).LUSDDebt \in Nat
           /\ DECIMAL_PRECISION * Pending(b).ETH
                <= Troves[b].stake * (L.ETH - rewardSnapshots[b].ETH)
           /\ DECIMAL_PRECISION * Pending(b).LUSDDebt
                <= Troves[b].stake * (L.LUSDDebt - rewardSnapshots[b].LUSDDebt)
           /\ Troves[b].stake * (L.ETH - rewardSnapshots[b].ETH) \in Nat
           /\ Troves[b].stake * (L.LUSDDebt - rewardSnapshots[b].LUSDDebt) \in Nat
           /\ L.ETH \in Nat /\ L.LUSDDebt \in Nat
           /\ rewardSnapshots[b].ETH \in Nat /\ rewardSnapshots[b].LUSDDebt \in Nat
<1> DEFINE x == Troves[b].stake * (L.ETH - rewardSnapshots[b].ETH)
           y == Troves[b].stake * (L.LUSDDebt - rewardSnapshots[b].LUSDDebt)
<1>1. /\ Troves[b] \in TroveRecords /\ L \in Amounts /\ rewardSnapshots[b] \in Amounts
      /\ Covers(L, rewardSnapshots[b])
  BY DEF CurrentOK, BookOK, RewardsOK
<1>2. Troves[b].stake \in Nat /\ L.ETH - rewardSnapshots[b].ETH \in Nat
      /\ L.LUSDDebt - rewardSnapshots[b].LUSDDebt \in Nat
  BY <1>1 DEF TroveRecords, Amounts, Covers
<1>3. x \in Nat /\ y \in Nat
  BY <1>2
<1>4. Pending(b) = IF Active(b)
                   THEN Amount(x \div DECIMAL_PRECISION, y \div DECIMAL_PRECISION)
                   ELSE Amount(0, 0)
  BY DEF Pending
<1>5. /\ L.ETH \in Nat /\ L.LUSDDebt \in Nat
      /\ rewardSnapshots[b].ETH \in Nat /\ rewardSnapshots[b].LUSDDebt \in Nat
      /\ Pending(b) \in Amounts /\ Pending(b).ETH \in Nat /\ Pending(b).LUSDDebt \in Nat
  BY <1>1, PendingAmounts DEF Amounts
<1> HIDE DEF x, y
<1>6. /\ (x \div DECIMAL_PRECISION) * DECIMAL_PRECISION <= x
      /\ (y \div DECIMAL_PRECISION) * DECIMAL_PRECISION <= y
      /\ x \div DECIMAL_PRECISION \in Nat /\ y \div DECIMAL_PRECISION \in Nat
  BY <1>3, DivNat, ConstantFacts
<1>7. DECIMAL_PRECISION * Pending(b).ETH <= x /\ DECIMAL_PRECISION * Pending(b).LUSDDebt <= y
  <2>1. CASE Active(b)
    <3> DEFINE p == x \div DECIMAL_PRECISION
               q == y \div DECIMAL_PRECISION
    <3>1. Pending(b).ETH = p /\ Pending(b).LUSDDebt = q
      BY <2>1, <1>4 DEF Amount
    <3>2. p \in Nat /\ q \in Nat /\ p * DECIMAL_PRECISION <= x /\ q * DECIMAL_PRECISION <= y
      BY <1>6
    <3> HIDE DEF p, q
    <3>3. QED BY <3>1, <3>2, ConstantFacts
  <2>2. CASE ~Active(b)
    <3>1. Pending(b).ETH = 0 /\ Pending(b).LUSDDebt = 0
      BY <2>2, <1>4 DEF Amount
    <3>2. QED BY <3>1, <1>3, ConstantFacts
  <2>3. QED BY <2>1, <2>2
<1>8. QED BY <1>3, <1>5, <1>7 DEF x, y

\* Nothing is earned on nothing.
LEMMA NothingEarned ==
    ASSUME NEW s \in Nat, NEW x \in Nat
    PROVE  s * (x - x) = 0 /\ \A y \in Nat : 0 * (x - y) = 0
<1>1. x - x = 0
  OBVIOUS
<1>2. QED BY <1>1

\* What _applyPendingRewards pays, and what is left to earn when the snapshot is
\* updated: whatever the new stake, no more than there was.
LEMMA AppliedShare ==
    ASSUME CurrentOK, NEW b \in Borrowers, Active(b), NEW s \in Nat,
           rewardSnapshots'[b] = AppliedSnapshot(b), Troves'[b].stake = s
    PROVE  /\ SettlesEth(b, Applied(b))
           /\ s = Troves[b].stake \/ CaughtUp(Troves, rewardSnapshots, L)
                => SettlesDebt(b, Applied(b))
<1> DEFINE t == Troves[b].stake
           l == L.ETH
           m == L.LUSDDebt
           x == rewardSnapshots[b].ETH
           y == rewardSnapshots[b].LUSDDebt
<1>1. /\ DECIMAL_PRECISION * Pending(b).ETH <= t * (l - x)
      /\ DECIMAL_PRECISION * Pending(b).LUSDDebt <= t * (m - y)
      /\ l \in Nat /\ m \in Nat /\ x \in Nat /\ y \in Nat
      /\ Pending(b).ETH \in Nat /\ Pending(b).LUSDDebt \in Nat
      /\ t * (l - x) \in Nat /\ t * (m - y) \in Nat
  BY PendingShare
<1>2. CASE HasPendingRewards(b)
  <2>1. rewardSnapshots'[b].ETH = l /\ rewardSnapshots'[b].LUSDDebt = m
        /\ Applied(b) = Pending(b)
    BY <1>2 DEF AppliedSnapshot, Applied
  <2>2. s * (l - l) = 0 /\ s * (m - m) = 0
    BY <1>1, NothingEarned
  <2>3. SettlesEth(b, Applied(b))
    <3> HIDE DEF t, x
    <3>1. s * (l - l) + DECIMAL_PRECISION * Pending(b).ETH <= t * (l - x)
      <4>1. DECIMAL_PRECISION * Pending(b).ETH \in Nat
        BY <1>1, ConstantFacts
      <4>2. QED BY <4>1, <1>1, <2>2
    <3>2. QED BY <2>1, <3>1 DEF SettlesEth, t, x
  <2>4. SettlesDebt(b, Applied(b))
    <3> HIDE DEF t, y
    <3>1. s * (m - m) + DECIMAL_PRECISION * Pending(b).LUSDDebt <= t * (m - y)
      <4>1. DECIMAL_PRECISION * Pending(b).LUSDDebt \in Nat
        BY <1>1, ConstantFacts
      <4>2. QED BY <4>1, <1>1, <2>2
    <3>2. QED BY <2>1, <3>1 DEF SettlesDebt, t, y
  <2>5. QED BY <2>3, <2>4
<1>3. CASE ~HasPendingRewards(b)
  <2>1. /\ rewardSnapshots'[b].ETH = x /\ rewardSnapshots'[b].LUSDDebt = y
        /\ Applied(b).ETH = 0 /\ Applied(b).LUSDDebt = 0
    BY <1>3 DEF AppliedSnapshot, Applied, Amount
  <2>2. x = l
    <3>1. x <= l
      BY DEF CurrentOK, RewardsOK, Covers
    <3>2. QED BY <3>1, <1>1, <1>3 DEF HasPendingRewards
  <2>3. DECIMAL_PRECISION * 0 = 0
    BY ConstantFacts
  <2>4. SettlesEth(b, Applied(b))
    <3> HIDE DEF t, x
    <3>1. s * (l - x) = 0 /\ t * (l - x) = 0 /\ 0 \in Nat
      BY <1>1, <2>2, NothingEarned, PendingAmounts DEF t
    <3>2. s * (l - x) + DECIMAL_PRECISION * 0 <= t * (l - x)
      BY <2>3, <3>1
    <3>3. QED BY <2>1, <3>2 DEF SettlesEth, t, x
  <2>5. ASSUME s = t PROVE SettlesDebt(b, Applied(b))
    <3>1. s * (m - y) + DECIMAL_PRECISION * 0 <= t * (m - y)
      <4> DEFINE z == t * (m - y)
      <4>1. s * (m - y) = z /\ z \in Nat
        BY <1>1, <2>5
      <4> HIDE DEF z
      <4>2. z + 0 <= z
        BY <4>1
      <4>3. QED BY <4>1, <4>2, <2>3 DEF z
    <3> HIDE DEF t, y
    <3>2. QED BY <2>1, <3>1 DEF SettlesDebt, t, y
  <2>6. ASSUME CaughtUp(Troves, rewardSnapshots, L) PROVE SettlesDebt(b, Applied(b))
    <3>1. y = m
      BY <2>2, <2>6 DEF CaughtUp, Active
    <3> HIDE DEF t, y
    <3>2. s * (m - y) = 0 /\ t * (m - y) = 0
      BY <1>1, <3>1, NothingEarned, PendingAmounts DEF t
    <3>3. s * (m - y) + DECIMAL_PRECISION * 0 <= t * (m - y)
      BY <2>3, <3>2
    <3>4. QED BY <2>1, <3>3 DEF SettlesDebt, t, y
  <2>7. QED BY <2>4, <2>5, <2>6
<1>4. QED BY <1>2, <1>3

-----------------------------------------------------------------------------
(* Steps that take a snapshot *)

\* No other trove becomes active, and that of b has taken a new snapshot if it
\* had anything to take one of.
SnapshotTaken(b) ==
    /\ \A x \in Borrowers \ {b} : Troves'[x].status = "active" => Troves[x].status = "active"
    /\ Troves'[b].status = "active" =>
         \/ rewardSnapshots'[b] = L
         \/ Troves[b].status = "active" /\ rewardSnapshots'[b] = rewardSnapshots[b]

\* A step that writes the trove of b.
TroveWritten(b) ==
    /\ SnapshotTaken(b)
    /\ \E p : /\ Pays(b, p) /\ SettlesEth(b, p)
              /\ CaughtUp(Troves, rewardSnapshots, L) => SettlesDebt(b, p)

\* Nothing is paid for nothing.
LEMMA NothingPaid ==
    ASSUME CurrentOK, UNCHANGED defaultPool
    PROVE  /\ Amount(0, 0) \in Amounts /\ Covers(defaultPool, Amount(0, 0))
           /\ defaultPool' = Minus(defaultPool, Amount(0, 0))
<1>1. defaultPool \in Amounts
  BY DEF CurrentOK, PoolsOK
<1>2. defaultPool = [ETH |-> defaultPool.ETH - 0, LUSDDebt |-> defaultPool.LUSDDebt - 0]
  BY <1>1 DEF Amounts
<1>3. QED BY <1>1, <1>2 DEF Amounts, Amount, Covers, Minus

\* openTrove: the stake starts with a snapshot of its own.
LEMMA OpenWrites ==
    ASSUME IInv, IInv', NEW b \in Borrowers, NEW coll \in Nat, NEW amount \in Nat,
           NEW fee \in Nat, OpenTrove(b, coll, amount, fee)
    PROVE  TroveWritten(b)
<1> DEFINE c == Troves[b].coll + coll
           r == [status |-> "active", coll |-> c,
                 debt |-> Troves[b].debt + CompositeDebt(amount + fee),
                 stake |-> ComputeNewStake(c), arrayIndex |-> Len(TroveOwners)]
<1>1. /\ CurrentOK /\ Troves \in [Borrowers -> TroveRecords] /\ Troves[b] \in TroveRecords
      /\ rewardSnapshots \in [Borrowers -> Amounts]
      /\ Troves' \in [Borrowers -> TroveRecords]
  BY DEF IInv, CurrentOK, BookOK, RewardsOK
<1>2. /\ ~Active(b) /\ Troves' = [Troves EXCEPT ![b] = r]
      /\ rewardSnapshots' = [rewardSnapshots EXCEPT ![b] = L]
      /\ UNCHANGED <<rewards, defaultPool>>
  BY <1>1 DEF OpenTrove
<1> HIDE DEF r
<1>3. \A x \in Borrowers \ {b} : Troves'[x] = Troves[x] /\ rewardSnapshots'[x] = rewardSnapshots[x]
  BY <1>1, <1>2
<1>4. rewardSnapshots'[b] = L
  BY <1>1, <1>2
<1>5. Troves[b].stake = 0 /\ Troves'[b].stake \in Nat
  <2>1. Troves'[b] \in TroveRecords
    BY <1>1
  <2>2. QED BY <1>1, <1>2, <2>1 DEF CurrentOK, BookOK, Active, TroveRecords
<1>6. Pays(b, Amount(0, 0))
  BY <1>1, <1>2, <1>3, NothingPaid DEF Pays, OthersKept
<1>7. /\ L.ETH \in Nat /\ L.LUSDDebt \in Nat
      /\ rewardSnapshots[b].ETH \in Nat /\ rewardSnapshots[b].LUSDDebt \in Nat
  BY <1>1, PendingShare
<1>8. SettlesEth(b, Amount(0, 0)) /\ SettlesDebt(b, Amount(0, 0))
  <2> DEFINE s == Troves'[b].stake
  <2>1. s \in Nat
    BY <1>5
  <2> HIDE DEF s
  <2>2. /\ s * (L.ETH - L.ETH) = 0 /\ s * (L.LUSDDebt - L.LUSDDebt) = 0
        /\ 0 * (L.ETH - rewardSnapshots[b].ETH) = 0
        /\ 0 * (L.LUSDDebt - rewardSnapshots[b].LUSDDebt) = 0
    BY <2>1, <1>7, NothingEarned
  <2>3. DECIMAL_PRECISION * 0 = 0
    BY ConstantFacts
  <2>4. Amount(0, 0).ETH = 0 /\ Amount(0, 0).LUSDDebt = 0
    BY DEF Amount
  <2>5. QED BY <1>4, <1>5, <2>2, <2>3, <2>4 DEF SettlesEth, SettlesDebt, s
<1>9. SnapshotTaken(b)
  BY <1>3, <1>4 DEF SnapshotTaken
<1>10. QED BY <1>6, <1>8, <1>9 DEF TroveWritten

\* A trove that stays open: its rewards are applied, and its stake may change.
LEMMA AppliedWrites ==
    ASSUME IInv, IInv', NEW b \in Borrowers, Active(b), OthersKept(b),
           \A x \in Borrowers \ {b} : Troves'[x].status = Troves[x].status,
           rewardSnapshots' = [rewardSnapshots EXCEPT ![b] = AppliedSnapshot(b)],
           UNCHANGED rewards, Covers(defaultPool, Applied(b)),
           defaultPool' = Minus(defaultPool, Applied(b))
    PROVE  TroveWritten(b)
<1>1. /\ CurrentOK /\ rewardSnapshots \in [Borrowers -> Amounts]
      /\ Troves' \in [Borrowers -> TroveRecords]
  BY DEF IInv, CurrentOK, BookOK, RewardsOK
<1>2. /\ rewardSnapshots'[b] = AppliedSnapshot(b)
      /\ \A x \in Borrowers \ {b} : rewardSnapshots'[x] = rewardSnapshots[x]
  BY <1>1
<1>3. Pays(b, Applied(b))
  BY <1>1, <1>2, PendingAmounts DEF Pays
<1>4. Troves'[b].stake \in Nat
  <2>1. Troves'[b] \in TroveRecords
    BY <1>1
  <2>2. QED BY <2>1 DEF TroveRecords
<1>5. /\ SettlesEth(b, Applied(b))
      /\ CaughtUp(Troves, rewardSnapshots, L) => SettlesDebt(b, Applied(b))
  BY <1>1, <1>2, <1>4, AppliedShare
<1>6. SnapshotTaken(b)
  BY <1>2 DEF SnapshotTaken, AppliedSnapshot, HasPendingRewards, Active
<1>7. QED BY <1>3, <1>5, <1>6 DEF TroveWritten

\* A trove that is closed: whatever part of its share is paid.
LEMMA ClosedWrites ==
    ASSUME IInv, NEW b \in Borrowers, NEW status, status # "active", CloseTrove(b, status),
           NEW p, p = Applied(b) \/ p = Pending(b), UNCHANGED rewards,
           Covers(defaultPool, p), defaultPool' = Minus(defaultPool, p)
    PROVE  TroveWritten(b)
<1>1. /\ CurrentOK /\ Troves \in [Borrowers -> TroveRecords]
      /\ rewardSnapshots \in [Borrowers -> Amounts]
      /\ Troves' = Closed(b, status)
      /\ rewardSnapshots' = [rewardSnapshots EXCEPT ![b] = Amount(0, 0)]
  BY DEF IInv, CurrentOK, BookOK, RewardsOK, CloseTrove
<1>2. OthersKept(b) /\ Troves'[b].stake = 0
  BY <1>1, ClosedIs
<1>3. p \in Amounts
  BY <1>1, PendingAmounts
<1>4. Pays(b, p)
  BY <1>1, <1>2, <1>3 DEF Pays
<1>5. rewardSnapshots'[b].ETH = 0 /\ rewardSnapshots'[b].LUSDDebt = 0
  BY <1>1 DEF Amount
<1> DEFINE x == Troves[b].stake * (L.ETH - rewardSnapshots[b].ETH)
           y == Troves[b].stake * (L.LUSDDebt - rewardSnapshots[b].LUSDDebt)
<1>6. /\ DECIMAL_PRECISION * Pending(b).ETH <= x /\ DECIMAL_PRECISION * Pending(b).LUSDDebt <= y
      /\ x \in Nat /\ y \in Nat /\ L.ETH \in Nat /\ L.LUSDDebt \in Nat
      /\ Pending(b).ETH \in Nat /\ Pending(b).LUSDDebt \in Nat
  BY <1>1, PendingShare
<1> HIDE DEF x, y
<1>7. DECIMAL_PRECISION * p.ETH <= x /\ DECIMAL_PRECISION * p.LUSDDebt <= y
      /\ p.ETH \in Nat /\ p.LUSDDebt \in Nat
  <2>1. CASE p = Pending(b)
    BY <2>1, <1>6
  <2>2. CASE p = Amount(0, 0)
    <3>1. DECIMAL_PRECISION * 0 = 0
      BY ConstantFacts
    <3>2. QED BY <2>2, <3>1, <1>6 DEF Amount
  <2>3. QED BY <2>1, <2>2 DEF Applied
<1>8. 0 * (L.ETH - 0) = 0 /\ 0 * (L.LUSDDebt - 0) = 0
      /\ DECIMAL_PRECISION * p.ETH \in Nat /\ DECIMAL_PRECISION * p.LUSDDebt \in Nat
  BY <1>6, <1>7, NothingEarned, ConstantFacts
<1>9. SettlesEth(b, p) /\ SettlesDebt(b, p)
  <2>1. 0 * (L.ETH - 0) + DECIMAL_PRECISION * p.ETH <= x
    BY <1>7, <1>8
  <2>2. 0 * (L.LUSDDebt - 0) + DECIMAL_PRECISION * p.LUSDDebt <= y
    BY <1>7, <1>8
  <2>3. QED BY <1>2, <1>5, <2>1, <2>2 DEF SettlesEth, SettlesDebt, x, y
<1>10. SnapshotTaken(b)
  BY <1>1 DEF SnapshotTaken, Closed, TroveRecords
<1>11. QED BY <1>4, <1>9, <1>10 DEF TroveWritten

\* adjustTrove restakes.
LEMMA AdjustWrites ==
    ASSUME IInv, IInv', NEW b \in Borrowers, NEW w, NEW t, NEW d, NEW inc, NEW fee,
           AdjustTrove(b, w, t, d, inc, fee)
    PROVE  TroveWritten(b)
<1>1. /\ Active(b) /\ Covers(defaultPool, Applied(b))
      /\ defaultPool' = Minus(defaultPool, Applied(b))
      /\ rewardSnapshots' = [rewardSnapshots EXCEPT ![b] = AppliedSnapshot(b)]
      /\ UNCHANGED rewards
      /\ \E c, e, s : Troves' = [Troves EXCEPT ![b].coll = c, ![b].debt = e, ![b].stake = s]
  BY DEF AdjustTrove
<1>2. CurrentOK /\ Troves \in [Borrowers -> TroveRecords]
  BY DEF IInv, CurrentOK, BookOK
<1>3. OthersKept(b) /\ \A x \in Borrowers \ {b} : Troves'[x].status = Troves[x].status
  BY <1>1, <1>2 DEF OthersKept
<1>4. QED BY <1>1, <1>3, AppliedWrites

\* So does a partial redemption; a cancelled one keeps the stake.
LEMMA RedemptionWrites ==
    ASSUME IInv, IInv', NEW b \in Borrowers, RedeemPart(b) \/ CancelPartial(b)
    PROVE  TroveWritten(b)
<1>1. /\ Looking(b) /\ Redeemable(b)
      /\ defaultPool' = Minus(defaultPool, Applied(b))
      /\ rewardSnapshots' = [rewardSnapshots EXCEPT ![b] = AppliedSnapshot(b)]
      /\ UNCHANGED rewards
  BY DEF RedeemPart, CancelPartial
<1>2. Active(b) /\ Covers(defaultPool, Applied(b))
  BY <1>1, LookedAt DEF Redeemable
<1>3. CurrentOK /\ Troves \in [Borrowers -> TroveRecords]
  BY DEF IInv, CurrentOK, BookOK
<1>4. OthersKept(b) /\ \A x \in Borrowers \ {b} : Troves'[x].status = Troves[x].status
  BY <1>3 DEF OthersKept, RedeemPart, CancelPartial
<1>5. QED BY <1>1, <1>2, <1>4, AppliedWrites

\* Every step writes one trove, ends a liquidation, reverts, or leaves alone
\* what the default pool backs.
SharesKept == UNCHANGED <<Troves, rewardSnapshots, rewards, defaultPool>>

LEMMA StepWrites ==
    ASSUME IInv, [Next]_vars
    PROVE  \/ \E b \in Borrowers : TroveWritten(b)
           \/ FinishLiquidation \/ Revert \/ SharesKept
<1>0. IInv'
  BY StepOK
<1>1. CASE BorrowerStep
  <2>1. ASSUME NEW b \in Borrowers, NEW coll \in CollAmounts, NEW amount \in DebtAmounts,
               NEW fee \in BorrowingFees \union {0}, OpenTrove(b, coll, amount, fee)
        PROVE  TroveWritten(b)
    BY <1>0, <2>1, InputsAreNat, OpenWrites
  <2>2. ASSUME NEW b \in Borrowers, AdjustOwnTrove(b) PROVE TroveWritten(b)
    BY <1>0, <2>2, AdjustWrites DEF AdjustOwnTrove
  <2>3. ASSUME NEW b \in Borrowers, CloseOwnTrove(b) PROVE TroveWritten(b)
    <3>1. /\ CloseTrove(b, "closedByOwner") /\ UNCHANGED rewards
          /\ Covers(defaultPool, Applied(b)) /\ defaultPool' = Minus(defaultPool, Applied(b))
      BY <2>3 DEF CloseOwnTrove
    <3>2. QED BY <3>1, ClosedWrites
  <2>4. ASSUME NEW b \in Borrowers, ClaimCollateral(b) PROVE SharesKept
    BY <2>4 DEF ClaimCollateral, SharesKept, book
  <2>5. QED BY <1>1, <2>1, <2>2, <2>3, <2>4 DEF BorrowerStep
<1>2. CASE LiquidationStep
  <2>1. ASSUME NEW op, BeginLiquidation(op) PROVE SharesKept
    BY <2>1 DEF BeginLiquidation, SharesKept, book, pools
  <2>2. ASSUME NEW b \in Borrowers, LiquidateInRecoveryMode(b) \/ LiquidateInNormalMode(b)
        PROVE  TroveWritten(b)
    <3>1. PICK v : LoopCloses(b, v)
      BY <2>2, LoopStepCloses
    <3>2. /\ CloseTrove(b, "closedByLiquidation") /\ UNCHANGED rewards
          /\ Covers(defaultPool, Pending(b)) /\ defaultPool' = Minus(defaultPool, Pending(b))
      BY <3>1 DEF LoopCloses, LiquidateTrove
    <3>3. QED BY <3>2, ClosedWrites
  <2>3. ASSUME NEW b \in Borrowers, PassOver(b) PROVE SharesKept
    BY <2>3 DEF PassOver, SharesKept, book, pools
  <2>4. QED BY <1>2, <2>1, <2>2, <2>3 DEF LiquidationStep
<1>3. CASE RedemptionStep
  <2>1. ASSUME NEW b, NEW amount, BeginRedemption(amount, b) PROVE SharesKept
    BY <2>1 DEF BeginRedemption, SharesKept, book, pools
  <2>2. ASSUME NEW b \in Borrowers, RedeemWholeTrove(b) PROVE TroveWritten(b)
    <3>1. /\ CloseTrove(b, "closedByRedemption") /\ UNCHANGED rewards
          /\ Covers(defaultPool, Applied(b)) /\ defaultPool' = Minus(defaultPool, Applied(b))
      BY <2>2 DEF RedeemWholeTrove, Redeemable
    <3>2. QED BY <3>1, ClosedWrites
  <2>3. CASE FinishRedemption
    BY <2>3 DEF FinishRedemption, SharesKept, book
  <2>4. QED BY <1>0, <1>3, <2>1, <2>2, <2>3, RedemptionWrites DEF RedemptionStep
<1>4. CASE EnvironmentStep
  BY <1>4 DEF EnvironmentStep, ProvideToSP, WithdrawFromSP, SetPrice, SharesKept, book, pools
<1>5. CASE UNCHANGED vars
  BY <1>5 DEF vars, book, pools, SharesKept
<1>6. QED BY <1>1, <1>2, <1>3, <1>4, <1>5 DEF Next

-----------------------------------------------------------------------------
(* A redistribution *)

\* What _redistributeDebtAndColl adds to one reward per unit: a quotient of
\* the amount and the last error, whose remainder is the next error.
Quotient(q, error, l, error1, l1) ==
    \E perUnit \in Nat :
        /\ l1 = l + perUnit
        /\ error1 = q * DECIMAL_PRECISION + error - perUnit * totalStakes

\* A quotient and its remainder.
LEMMA QuotientIs ==
    ASSUME NEW q \in Nat, NEW error \in Nat, NEW l \in Nat, totalStakes \in Nat, totalStakes > 0,
           NEW n, n = q * DECIMAL_PRECISION + error,
           NEW u, u = n \div totalStakes
    PROVE  /\ u \in Nat /\ n - u * totalStakes \in Nat
           /\ Quotient(q, error, l, n - u * totalStakes, l + u)
<1>1. n \in Nat
  BY ConstantFacts
<1>2. u \in Nat /\ u * totalStakes <= n
  BY <1>1, DivNat
<1>3. u * totalStakes \in Nat
  BY <1>2
<1>4. n - u * totalStakes \in Nat
  BY <1>1, <1>2, <1>3
<1>5. n - u * totalStakes = q * DECIMAL_PRECISION + error - u * totalStakes
  <2> DEFINE x == q * DECIMAL_PRECISION
             y == u * totalStakes
  <2>1. x \in Nat /\ y \in Nat /\ n = x + error
    BY <1>3, ConstantFacts
  <2> HIDE DEF x, y
  <2>2. n - y = x + error - y
    BY <2>1
  <2>3. QED BY <2>2 DEF x, y
<1>6. Quotient(q, error, l, n - u * totalStakes, l + u)
  BY <1>2, <1>5 DEF Quotient
<1>7. QED BY <1>2, <1>4, <1>6

\* Both rewards per unit grow so, or nothing is redistributed at all.
LEMMA RedistributedIs ==
    ASSUME CurrentOK, LocalOK, Redistribute
    PROVE  /\ Redistributed \in Amounts
           /\ \/ Redistributed = Amount(0, 0) /\ UNCHANGED rewards
              \/ /\ Quotient(Redistributed.ETH, lastError.ETH, L.ETH, lastError'.ETH, L'.ETH)
                 /\ Quotient(Redistributed.LUSDDebt, lastError.LUSDDebt, L.LUSDDebt,
                             lastError'.LUSDDebt, L'.LUSDDebt)
<1>1. /\ L \in Amounts /\ lastError \in Amounts /\ totalStakes \in Nat
  BY DEF CurrentOK, RewardsOK, StakesOK
<1>2. Redistributed \in Amounts
  BY TotalsIs DEF LocalOK, Redistributed, Amount, Amounts
<1>3. CASE totals.DebtToRedistribute = 0
  BY <1>2, <1>3 DEF Redistribute, Redistributed
<1>4. CASE totals.DebtToRedistribute # 0
  <2> DEFINE r == Redistributed
             n == Numerators(r)
             e == n.ETH \div totalStakes
             d == n.LUSDDebt \div totalStakes
  <2>1. /\ totalStakes > 0
        /\ L' = Plus(L, Amount(e, d))
        /\ lastError' = Amount(n.ETH - e * totalStakes, n.LUSDDebt - d * totalStakes)
    <3>1. Amount(e, d).ETH = e /\ Amount(e, d).LUSDDebt = d
      BY DEF Amount
    <3> HIDE DEF e, d
    <3>2. QED BY <3>1, <1>4 DEF Redistribute, e, d
  <2>2. /\ r.ETH \in Nat /\ r.LUSDDebt \in Nat
        /\ lastError.ETH \in Nat /\ lastError.LUSDDebt \in Nat
        /\ L.ETH \in Nat /\ L.LUSDDebt \in Nat
    BY <1>1, <1>2 DEF Amounts
  <2> HIDE DEF r
  <2>3. /\ n.ETH = r.ETH * DECIMAL_PRECISION + lastError.ETH
        /\ n.LUSDDebt = r.LUSDDebt * DECIMAL_PRECISION + lastError.LUSDDebt
    BY DEF Numerators, Plus, Amount
  <2>4. /\ L'.ETH = L.ETH + e /\ L'.LUSDDebt = L.LUSDDebt + d
        /\ lastError'.ETH = n.ETH - e * totalStakes
        /\ lastError'.LUSDDebt = n.LUSDDebt - d * totalStakes
    <3> HIDE DEF e, d, n
    <3>1. QED BY <2>1 DEF Plus, Amount
  <2> HIDE DEF n
  <2>5. Quotient(r.ETH, lastError.ETH, L.ETH, n.ETH - e * totalStakes, L.ETH + e)
    BY <1>1, <2>1, <2>2, <2>3, QuotientIs
  <2>6. Quotient(r.LUSDDebt, lastError.LUSDDebt, L.LUSDDebt,
                 n.LUSDDebt - d * totalStakes, L.LUSDDebt + d)
    BY <1>1, <2>1, <2>2, <2>3, QuotientIs
  <2>7. QED BY <1>2, <2>4, <2>5, <2>6 DEF r
<1>5. QED BY <1>3, <1>4

\* A pool to which a quotient of the stakes' sum is added stays backed.
LEMMA QuotientBacked ==
    ASSUME NEW l \in Nat, NEW f, NEW g, Shares(f, g, l), totalStakes \in Nat,
           totalStakes = SumOf([b \in Borrowers |-> f[b]]),
           NEW pool \in Nat, NEW error \in Nat, NEW q \in Nat, NEW l1, NEW error1 \in Nat,
           Quotient(q, error, l, error1, l1), Backed(pool, error, f, g, l)
    PROVE  Backed(pool + q, error1, f, g, l1)
<1>1. PICK perUnit \in Nat : /\ l1 = l + perUnit
                             /\ error1 = q * DECIMAL_PRECISION + error - perUnit * totalStakes
  BY DEF Quotient
<1>2. Backed(pool + q, error1, f, g, l + perUnit)
  BY <1>1, ShareAdded
<1>3. QED BY <1>1, <1>2

\* The end of a liquidation keeps the default pool backed: what it moves there
\* is at least what it adds to the stakes' shares.
LEMMA FinishBacked ==
    ASSUME IInv, IInv', SumsOK, FinishLiquidation
    PROVE  (EthOK => EthOK') /\ (DebtOK => DebtOK')
<1>1. /\ CurrentOK /\ LocalOK /\ Redistribute
      /\ defaultPool' = Plus(defaultPool, Redistributed)
      /\ Troves' = Troves /\ rewardSnapshots' = rewardSnapshots
  BY DEF IInv, FinishLiquidation
<1>2. /\ Troves \in [Borrowers -> TroveRecords] /\ totalStakes \in Nat
      /\ RewardsOK(rewardSnapshots, L, lastError) /\ defaultPool \in Amounts
      /\ RewardsOK(rewardSnapshots', L', lastError') /\ Troves' \in [Borrowers -> TroveRecords]
  BY <1>1 DEF IInv, CurrentOK, BookOK, PoolsOK, StakesOK
<1>3. Redistributed \in Amounts
  BY <1>1, RedistributedIs
<1>4. /\ defaultPool'.ETH = defaultPool.ETH + Redistributed.ETH
      /\ defaultPool'.LUSDDebt = defaultPool.LUSDDebt + Redistributed.LUSDDebt
      /\ Redistributed.ETH \in Nat /\ Redistributed.LUSDDebt \in Nat
      /\ defaultPool.ETH \in Nat /\ defaultPool.LUSDDebt \in Nat
  BY <1>1, <1>2, <1>3, AmountArithmetic
<1> DEFINE f == Stakes(Troves)
           g == EthSnaps(rewardSnapshots)
           h == DebtSnaps(rewardSnapshots)
<1>5. /\ Shares(f, g, L.ETH) /\ Shares(f, h, L.LUSDDebt)
      /\ L.ETH \in Nat /\ L.LUSDDebt \in Nat
      /\ lastError.ETH \in Nat /\ lastError.LUSDDebt \in Nat
  BY <1>2, SharesAre
<1>6. lastError'.ETH \in Nat /\ lastError'.LUSDDebt \in Nat
  BY <1>2 DEF RewardsOK, Amounts
<1>7. totalStakes = SumOf([b \in Borrowers |-> f[b]])
  <2>1. [b \in Borrowers |-> f[b]] = f
    BY DEF Stakes
  <2>2. QED BY <2>1 DEF SumsOK, TrovesAddUp
<1>8. CASE Redistributed = Amount(0, 0) /\ UNCHANGED rewards
  <2>1. /\ defaultPool'.ETH = defaultPool.ETH /\ defaultPool'.LUSDDebt = defaultPool.LUSDDebt
    BY <1>4, <1>8 DEF Amount
  <2>2. L' = L /\ lastError' = lastError
    BY <1>8 DEF rewards
  <2>3. QED BY <1>1, <2>1, <2>2 DEF EthOK, DebtOK, EthBacked, DebtBacked
<1>9. CASE /\ Quotient(Redistributed.ETH, lastError.ETH, L.ETH, lastError'.ETH, L'.ETH)
           /\ Quotient(Redistributed.LUSDDebt, lastError.LUSDDebt, L.LUSDDebt,
                       lastError'.LUSDDebt, L'.LUSDDebt)
  <2> DEFINE e == lastError'.ETH
             d == lastError'.LUSDDebt
             l1 == L'.ETH
             m1 == L'.LUSDDebt
  <2>1. /\ Quotient(Redistributed.ETH, lastError.ETH, L.ETH, e, l1)
        /\ Quotient(Redistributed.LUSDDebt, lastError.LUSDDebt, L.LUSDDebt, d, m1)
        /\ e \in Nat /\ d \in Nat
    BY <1>6, <1>9
  <2> HIDE DEF f, g, h, e, d, l1, m1
  <2>2. ASSUME Backed(defaultPool.ETH, lastError.ETH, f, g, L.ETH)
        PROVE  Backed(defaultPool.ETH + Redistributed.ETH, e, f, g, l1)
    BY <1>2, <1>4, <1>5, <1>7, <2>1, <2>2, QuotientBacked
  <2>3. ASSUME Backed(defaultPool.LUSDDebt, lastError.LUSDDebt, f, h, L.LUSDDebt)
        PROVE  Backed(defaultPool.LUSDDebt + Redistributed.LUSDDebt, d, f, h, m1)
    BY <1>2, <1>4, <1>5, <1>7, <2>1, <2>3, QuotientBacked
  <2>4. EthOK => EthOK'
    BY <1>1, <1>4, <2>2 DEF EthOK, EthBacked, e, l1, f, g
  <2>5. DebtOK => DebtOK'
    BY <1>1, <1>4, <2>3 DEF DebtOK, DebtBacked, d, m1, f, h
  <2>6. QED BY <2>4, <2>5
<1>10. QED BY <1>1, <1>8, <1>9, RedistributedIs

\* Every step keeps the collateral backed.
LEMMA EthStep ==
    ASSUME IInv, SumsOK, EthOK, CommittedEthOK, [Next]_vars
    PROVE  EthOK'
<1>1. IInv' /\ CurrentOK /\ CurrentOK'
  BY StepOK DEF IInv
<1>2. ASSUME NEW b \in Borrowers, TroveWritten(b) PROVE EthOK'
  <2>1. PICK p : Pays(b, p) /\ SettlesEth(b, p)
    BY <1>2 DEF TroveWritten
  <2>2. QED BY <1>1, <2>1, PaysEth
<1>3. CASE FinishLiquidation
  BY <1>1, <1>3, FinishBacked
<1>4. CASE Revert
  BY <1>4 DEF Revert, EthOK, CommittedEthOK
<1>5. CASE SharesKept
  BY <1>5 DEF SharesKept, rewards, EthOK
<1>6. QED BY <1>2, <1>3, <1>4, <1>5, StepWrites

\* What is committed is the ledger as it is.
LEMMA CommittedShares ==
    ASSUME MemoryOK, [Next]_vars
    PROVE  /\ CommittedEthOK /\ EthOK' => CommittedEthOK'
           /\ CommittedDebtOK /\ DebtOK' => CommittedDebtOK'
<1>1. CASE committed' = committed
  BY <1>1 DEF CommittedEthOK, CommittedDebtOK
<1>2. CASE Commit
  <2>1. /\ committed'.Troves = Troves' /\ committed'.rewardSnapshots = rewardSnapshots'
        /\ committed'.L = L' /\ committed'.lastError = lastError'
        /\ committed'.defaultPool = defaultPool'
    BY <1>2 DEF Commit, Ledger
  <2>2. QED BY <2>1 DEF EthOK, DebtOK, CommittedEthOK, CommittedDebtOK
<1>3. QED BY <1>1, <1>2, CommitsNothingHeld

\* Nothing is earned before a trove is opened.
LEMMA SharesInit ==
    Init => /\ EthOK /\ DebtOK /\ CommittedEthOK /\ CommittedDebtOK
            /\ CaughtUp(Troves, rewardSnapshots, L)
            /\ CaughtUp(committed.Troves, committed.rewardSnapshots, committed.L)
<1> SUFFICES ASSUME Init
             PROVE  /\ EthOK /\ DebtOK /\ CommittedEthOK /\ CommittedDebtOK
                    /\ CaughtUp(Troves, rewardSnapshots, L)
                    /\ CaughtUp(committed.Troves, committed.rewardSnapshots, committed.L)
  OBVIOUS
<1>1. /\ Troves = [b \in Borrowers |-> NoTrove]
      /\ rewardSnapshots = [b \in Borrowers |-> Amount(0, 0)]
      /\ L = Amount(0, 0) /\ lastError = Amount(0, 0) /\ defaultPool = Amount(0, 0)
      /\ committed = Ledger
  BY DEF Init
<1>2. /\ L.ETH = 0 /\ L.LUSDDebt = 0 /\ lastError.ETH = 0 /\ lastError.LUSDDebt = 0
      /\ defaultPool.ETH = 0 /\ defaultPool.LUSDDebt = 0
  BY <1>1 DEF Amount
<1> DEFINE f == Earned(Stakes(Troves), EthSnaps(rewardSnapshots), L.ETH)
           g == Earned(Stakes(Troves), DebtSnaps(rewardSnapshots), L.LUSDDebt)
<1>3. \A b \in Borrowers : f[b] = 0 /\ g[b] = 0
  <2>1. ASSUME NEW b \in Borrowers
        PROVE  /\ Stakes(Troves)[b] = 0 /\ EthSnaps(rewardSnapshots)[b] = 0
               /\ DebtSnaps(rewardSnapshots)[b] = 0
    BY <1>1 DEF Stakes, EthSnaps, DebtSnaps, NoTrove, Amount
  <2>2. 0 * (0 - 0) = 0
    OBVIOUS
  <2>3. QED BY <1>2, <2>1, <2>2 DEF Earned
<1> HIDE DEF f, g
<1>4. SumOf(f) = 0 /\ SumOf(g) = 0
  BY <1>3, SumOfZeros
<1>5. DECIMAL_PRECISION * 0 = 0
  BY ConstantFacts
<1>6. EthOK /\ DebtOK
  BY <1>2, <1>4, <1>5 DEF EthOK, DebtOK, EthBacked, DebtBacked, Backed, f, g
<1>7. /\ committed.Troves = Troves /\ committed.rewardSnapshots = rewardSnapshots
      /\ committed.L = L /\ committed.lastError = lastError
      /\ committed.defaultPool = defaultPool
  BY <1>1 DEF Ledger
<1>8. CommittedEthOK /\ CommittedDebtOK
  BY <1>6, <1>7 DEF EthOK, DebtOK, CommittedEthOK, CommittedDebtOK
<1>9. CaughtUp(Troves, rewardSnapshots, L)
  BY <1>1, <1>2 DEF CaughtUp, Amount
<1>10. QED BY <1>6, <1>7, <1>8, <1>9

\* The collateral is backed in every state, and after any revert.
LEMMA EthInvariant ==
    Spec => [](IInv /\ MemoryOK /\ SumsOK /\ CommittedSumsOK /\ EthOK /\ CommittedEthOK)
<1>1. IInv /\ MemoryOK /\ SumsOK /\ EthOK /\ CommittedEthOK /\ [Next]_vars
        => (EthOK /\ CommittedEthOK)'
  BY EthStep, CommittedShares
<1>2. QED BY <1>1, SharesInit, SumsInvariant, PTL DEF Spec

\* What is pending adds up to no more than the default pool holds.
LEMMA PendingIsBacked ==
    ASSUME CurrentOK
    PROVE  /\ EthOK => defaultPool.ETH >= Sum(PendingETH)
           /\ DebtOK => defaultPool.LUSDDebt >= Sum(PendingDebt)
<1> DEFINE p == [b \in Borrowers |-> PendingETH(b)]
           q == [b \in Borrowers |-> PendingDebt(b)]
<1>1. /\ Sum(PendingETH) = SumOf(p) /\ Sum(PendingDebt) = SumOf(q)
  BY DEF Sum, SumFunction, SumOf
<1>2. ASSUME NEW b \in Borrowers
      PROVE  /\ p[b] \in Nat /\ q[b] \in Nat
             /\ DECIMAL_PRECISION * p[b]
                  <= Stakes(Troves)[b] * (L.ETH - EthSnaps(rewardSnapshots)[b])
             /\ DECIMAL_PRECISION * q[b]
                  <= Stakes(Troves)[b] * (L.LUSDDebt - DebtSnaps(rewardSnapshots)[b])
  <2>1. /\ p[b] = Pending(b).ETH /\ q[b] = Pending(b).LUSDDebt
        /\ Stakes(Troves)[b] = Troves[b].stake
        /\ EthSnaps(rewardSnapshots)[b] = rewardSnapshots[b].ETH
        /\ DebtSnaps(rewardSnapshots)[b] = rewardSnapshots[b].LUSDDebt
    BY DEF PendingETH, PendingDebt, Stakes, EthSnaps, DebtSnaps
  <2> HIDE DEF p, q
  <2>2. QED BY <2>1, PendingShare
<1> HIDE DEF p, q
<1>3. /\ Shares(Stakes(Troves), EthSnaps(rewardSnapshots), L.ETH)
      /\ Shares(Stakes(Troves), DebtSnaps(rewardSnapshots), L.LUSDDebt)
      /\ L.ETH \in Nat /\ L.LUSDDebt \in Nat
      /\ lastError.ETH \in Nat /\ lastError.LUSDDebt \in Nat
  BY SharesAre DEF CurrentOK, BookOK
<1>4. defaultPool.ETH \in Nat /\ defaultPool.LUSDDebt \in Nat
  BY DEF CurrentOK, PoolsOK, Amounts
<1>5. ASSUME EthOK PROVE SumOf(p) <= defaultPool.ETH
  BY <1>2, <1>3, <1>4, <1>5, BackedCovers DEF EthOK, EthBacked
<1>6. ASSUME DebtOK PROVE SumOf(q) <= defaultPool.LUSDDebt
  BY <1>2, <1>3, <1>4, <1>6, BackedCovers DEF DebtOK, DebtBacked
<1>7. SumOf(p) \in Int /\ SumOf(q) \in Int
  <2>1. IsFiniteSet(Borrowers) /\ \A b \in Borrowers : p[b] \in Int /\ q[b] \in Int
    BY <1>2, BorrowersAssumption
  <2>2. SumFunctionOnSet(p, Borrowers) \in Int /\ SumFunctionOnSet(q, Borrowers) \in Int
    BY ONLY <2>1, SumType
  <2>3. QED BY <2>2 DEF SumOf
<1>8. QED BY <1>1, <1>4, <1>5, <1>6, <1>7

\* The default pool always has the collateral of every pending reward, however
\* the quotients are rounded and the stakes change between redistributions:
\* sendETHToActivePool never fails on a trove's own reward.
THEOREM DefaultPoolPaysCollateral == Spec => [](defaultPool.ETH >= Sum(PendingETH))
<1>1. IInv /\ EthOK => defaultPool.ETH >= Sum(PendingETH)
  BY PendingIsBacked DEF IInv
<1>2. QED BY <1>1, EthInvariant, PTL

-----------------------------------------------------------------------------
(* The debt that is redistributed *)

\* No redistribution raises the debt per unit staked while it leaves the
\* collateral per unit as it was: one that rounds to nothing.
RewardsRiseTogether == [][L'.LUSDDebt # L.LUSDDebt => L'.ETH # L.ETH]_vars

\* Then a trove without collateral pending has no debt pending.
AllCaughtUp == CaughtUp(Troves, rewardSnapshots, L)
CommittedCaughtUp == CaughtUp(committed.Troves, committed.rewardSnapshots, committed.L)

LEMMA CaughtUpStep ==
    ASSUME IInv, AllCaughtUp, CommittedCaughtUp, [Next]_vars,
           L'.LUSDDebt # L.LUSDDebt => L'.ETH # L.ETH
    PROVE  AllCaughtUp'
<1>1. CurrentOK /\ LocalOK
  BY DEF IInv
<1>2. ASSUME NEW b \in Borrowers, TroveWritten(b) PROVE AllCaughtUp'
  <2>1. /\ SnapshotTaken(b) /\ L' = L
        /\ \A x \in Borrowers \ {b} : rewardSnapshots'[x] = rewardSnapshots[x]
    BY <1>2 DEF TroveWritten, Pays, rewards
  <2>2. QED BY <2>1 DEF AllCaughtUp, CaughtUp, SnapshotTaken
<1>3. CASE FinishLiquidation
  <2>1. /\ Redistribute /\ Troves' = Troves /\ rewardSnapshots' = rewardSnapshots
    BY <1>3 DEF FinishLiquidation
  <2>2. L.ETH <= L'.ETH
    BY <1>1, <2>1, RedistributeAdds DEF Covers
  <2>3. L.ETH \in Nat /\ L'.ETH \in Nat
    <3>1. IInv'
      BY StepOK
    <3>2. QED BY <1>1, <3>1 DEF IInv, CurrentOK, RewardsOK, Amounts
  <2>4. ASSUME NEW b \in Borrowers, Troves[b].status = "active", rewardSnapshots[b].ETH = L'.ETH
        PROVE  rewardSnapshots[b].LUSDDebt = L'.LUSDDebt
    <3>1. rewardSnapshots[b].ETH <= L.ETH
      BY <1>1 DEF CurrentOK, RewardsOK, Covers
    <3>2. L'.ETH = L.ETH
      BY <2>2, <2>3, <2>4, <3>1
    <3>3. L'.LUSDDebt = L.LUSDDebt /\ rewardSnapshots[b].ETH = L.ETH
      BY <2>4, <3>2
    <3>4. QED BY <2>4, <3>3 DEF AllCaughtUp, CaughtUp
  <2>5. QED BY <2>1, <2>4 DEF AllCaughtUp, CaughtUp
<1>4. CASE Revert
  BY <1>4 DEF Revert, AllCaughtUp, CommittedCaughtUp
<1>5. CASE SharesKept
  BY <1>5 DEF SharesKept, rewards, AllCaughtUp
<1>6. QED BY <1>2, <1>3, <1>4, <1>5, StepWrites

LEMMA CommittedCaughtUpStep ==
    ASSUME MemoryOK, AllCaughtUp', CommittedCaughtUp, [Next]_vars
    PROVE  CommittedCaughtUp'
<1>1. CASE committed' = committed
  BY <1>1 DEF CommittedCaughtUp
<1>2. CASE Commit
  BY <1>2 DEF Commit, Ledger, AllCaughtUp, CommittedCaughtUp
<1>3. QED BY <1>1, <1>2, CommitsNothingHeld

\* Every step keeps the debt backed, as long as no trove is behind on it.
LEMMA DebtStep ==
    ASSUME IInv, SumsOK, AllCaughtUp, DebtOK, CommittedDebtOK, [Next]_vars
    PROVE  DebtOK'
<1>1. IInv' /\ CurrentOK /\ CurrentOK'
  BY StepOK DEF IInv
<1>2. ASSUME NEW b \in Borrowers, TroveWritten(b) PROVE DebtOK'
  <2>1. PICK p : Pays(b, p) /\ SettlesDebt(b, p)
    BY <1>2 DEF TroveWritten, AllCaughtUp
  <2>2. QED BY <1>1, <2>1, PaysDebt
<1>3. CASE FinishLiquidation
  BY <1>1, <1>3, FinishBacked
<1>4. CASE Revert
  BY <1>4 DEF Revert, DebtOK, CommittedDebtOK
<1>5. CASE SharesKept
  BY <1>5 DEF SharesKept, rewards, DebtOK
<1>6. QED BY <1>2, <1>3, <1>4, <1>5, StepWrites

\* No trove falls behind on the debt alone.
LEMMA NobodyFallsBehind ==
    Spec /\ RewardsRiseTogether => [](AllCaughtUp /\ CommittedCaughtUp)
<1>1. IInv /\ MemoryOK /\ AllCaughtUp /\ CommittedCaughtUp /\ [Next]_vars
        /\ [L'.LUSDDebt # L.LUSDDebt => L'.ETH # L.ETH]_vars
        => (AllCaughtUp /\ CommittedCaughtUp)'
  <2> SUFFICES ASSUME IInv, MemoryOK, AllCaughtUp, CommittedCaughtUp, [Next]_vars,
                      [L'.LUSDDebt # L.LUSDDebt => L'.ETH # L.ETH]_vars
               PROVE  (AllCaughtUp /\ CommittedCaughtUp)'
    OBVIOUS
  <2>1. L'.LUSDDebt # L.LUSDDebt => L'.ETH # L.ETH
    BY DEF vars, book, rewards
  <2>2. QED BY <2>1, CaughtUpStep, CommittedCaughtUpStep
<1>2. Init => AllCaughtUp /\ CommittedCaughtUp
  BY SharesInit DEF AllCaughtUp, CommittedCaughtUp
<1>3. QED BY <1>1, <1>2, MemoryInvariant, PTL DEF Spec, RewardsRiseTogether

\* Collateral and debt of every pending reward are in the default pool, unless
\* a redistribution raised the debt per unit alone: _applyPendingRewards does
\* nothing for a trove without collateral pending, and what it then leaves
\* pending is computed anew from the next stake.
THEOREM DefaultPoolIsEnough == Spec /\ RewardsRiseTogether => []DefaultPoolCoversRewards
<1>1. IInv /\ MemoryOK /\ SumsOK /\ AllCaughtUp /\ DebtOK /\ CommittedDebtOK /\ [Next]_vars
        => (DebtOK /\ CommittedDebtOK)'
  BY DebtStep, CommittedShares
<1>2. Init => DebtOK /\ CommittedDebtOK
  BY SharesInit
<1>3. IInv /\ EthOK /\ DebtOK => DefaultPoolCoversRewards
  BY PendingIsBacked DEF IInv, DefaultPoolCoversRewards
<1>4. QED BY <1>1, <1>2, <1>3, EthInvariant, NobodyFallsBehind, PTL DEF Spec

\* So nothing is lost between pools, troves, claims and token.
THEOREM LedgerIsBalanced == Spec /\ RewardsRiseTogether => []LedgerBalanced
<1>1. ActivePoolBacksTroves /\ DefaultPoolCoversRewards /\ SupplyEqualsDebt /\ SurplusIsFunded
        => LedgerBalanced
  BY DEF LedgerBalanced
<1>2. QED BY <1>1, ActivePoolIsExact, DefaultPoolIsEnough, SupplyIsDebt, ClaimsAreFunded, PTL

-----------------------------------------------------------------------------
(* The walk of the redemption hints *)

\* What getRedemptionHints finds at a trove with net debt n and the ratios q,
\* when r is left to redeem; further is what it finds behind the trove.
Found(n, q, r, further) ==
    IF n <= r THEN further[r - n]
    ELSE IF n <= MIN_NET_DEBT THEN [NICR |-> 0, remaining |-> r]
    ELSE [NICR |-> q[Min2(r, n - MIN_NET_DEBT)], remaining |-> r - Min2(r, n - MIN_NET_DEBT)]

\* w is the walk over the first k places, for amounts up to a; n and q have the
\* net debts and the ratios by place.
HintWalk(w, k, a, n, q) ==
    \A j \in 0..k, r \in 0..a :
        w[j][r] = IF j = 0 \/ r = 0 THEN [NICR |-> 0, remaining |-> r]
                  ELSE Found(n[j], q[j], r, w[j - 1])

LEMMA WalkAt ==
    ASSUME NEW w, NEW k \in Nat, NEW a \in Nat, NEW n, NEW q, HintWalk(w, k, a, n, q),
           NEW j \in 0..k, NEW r \in 0..a
    PROVE  /\ j = 0 \/ r = 0 => w[j][r].NICR = 0 /\ w[j][r].remaining = r
           /\ j # 0 /\ r # 0 => w[j][r] = Found(n[j], q[j], r, w[j - 1])
<1>1. w[j][r] = IF j = 0 \/ r = 0 THEN [NICR |-> 0, remaining |-> r]
                ELSE Found(n[j], q[j], r, w[j - 1])
  BY DEF HintWalk
<1> HIDE DEF Found
<1>2. CASE j = 0 \/ r = 0
  <2>1. w[j][r] = [NICR |-> 0, remaining |-> r]
    BY <1>1, <1>2
  <2>2. QED BY <1>2, <2>1
<1>3. CASE ~(j = 0 \/ r = 0)
  BY <1>1, <1>3
<1>4. QED BY <1>2, <1>3

\* Two walks find the same where they see the same troves.
LEMMA WalksAgree ==
    ASSUME NEW w, NEW k \in Nat, NEW a \in Nat, NEW n, NEW q, HintWalk(w, k, a, n, q),
           NEW v, NEW m \in Nat, NEW c \in Nat, NEW o, NEW p, HintWalk(v, m, c, o, p),
           NEW top \in Nat, top <= k, top <= m,
           \A j \in 1..top : n[j] \in Nat /\ n[j] = o[j] /\ q[j] = p[j],
           NEW r \in Nat, r <= a, r <= c
    PROVE  w[top][r] = v[top][r]
<1> DEFINE Bad == {j \in 0..top : \E x \in Nat : x <= a /\ x <= c /\ w[j][x] # v[j][x]}
<1>1. SUFFICES ASSUME Bad # {} PROVE FALSE
  OBVIOUS
<1>2. PICK j \in Bad : \A i \in Bad : j <= i
  <2>1. Bad \in SUBSET Nat
    OBVIOUS
  <2> HIDE DEF Bad
  <2>2. QED BY <1>1, <2>1, SmallestNumber
<1>3. PICK x \in Nat : x <= a /\ x <= c /\ w[j][x] # v[j][x]
  OBVIOUS
<1>4. /\ j \in 0..k /\ j \in 0..m /\ x \in 0..a /\ x \in 0..c
      /\ j # 0 => j \in 1..top /\ j - 1 \in 0..top /\ ~(j <= j - 1)
  BY <1>2, <1>3
<1> HIDE DEF Bad
<1>5. j # 0 /\ x # 0
  <2>1. SUFFICES ASSUME j = 0 \/ x = 0 PROVE w[j][x] = v[j][x]
    BY <1>3
  <2>2. w[j][x] = [NICR |-> 0, remaining |-> x] /\ v[j][x] = [NICR |-> 0, remaining |-> x]
    BY <1>4, <2>1 DEF HintWalk
  <2>3. QED BY <2>2
<1>6. /\ w[j][x] = Found(n[j], q[j], x, w[j - 1])
      /\ v[j][x] = Found(n[j], q[j], x, v[j - 1])
  BY <1>4, <1>5 DEF HintWalk
<1>7. n[j] <= x => w[j - 1][x - n[j]] = v[j - 1][x - n[j]]
  <2>1. SUFFICES ASSUME n[j] <= x PROVE w[j - 1][x - n[j]] = v[j - 1][x - n[j]]
    OBVIOUS
  <2>2. n[j] \in Nat
    BY <1>4, <1>5
  <2>3. x - n[j] \in Nat /\ x - n[j] <= a /\ x - n[j] <= c
    BY <1>3, <2>1, <2>2
  <2>4. j - 1 \notin Bad /\ j - 1 \in 0..top
    BY <1>2, <1>4, <1>5
  <2>5. QED BY <2>3, <2>4 DEF Bad
<1>8. QED BY <1>3, <1>6, <1>7 DEF Found

\* What the walk leaves is no more than the amount; and given only what it does
\* not leave, it finds the same ratio and leaves nothing.
LEMMA WalkTruncated ==
    ASSUME NEW w, NEW k \in Nat, NEW a \in Nat, NEW n, NEW q, HintWalk(w, k, a, n, q),
           \A j \in 1..k : n[j] \in Nat, MIN_NET_DEBT \in Nat,
           NEW i \in 0..k, NEW r \in 0..a
    PROVE  /\ w[i][r].remaining \in 0..r
           /\ w[i][r - w[i][r].remaining].remaining = 0
           /\ w[i][r - w[i][r].remaining].NICR = w[i][r].NICR
<1> DEFINE Good(j, x) ==
              /\ w[j][x].remaining \in 0..x
              /\ w[j][x - w[j][x].remaining].remaining = 0
              /\ w[j][x - w[j][x].remaining].NICR = w[j][x].NICR
           Bad == {j \in 0..k : \E x \in 0..a : ~Good(j, x)}
<1>1. SUFFICES ASSUME Bad # {} PROVE FALSE
  OBVIOUS
<1>2. PICK j \in Bad : \A l \in Bad : j <= l
  <2>1. Bad \in SUBSET Nat
    OBVIOUS
  <2> HIDE DEF Bad
  <2>2. QED BY <1>1, <2>1, SmallestNumber
<1>3. PICK x \in 0..a : ~Good(j, x)
  OBVIOUS
<1>4. j \in 0..k /\ x \in Nat
  OBVIOUS
<1>5. j # 0 => j \in 1..k /\ n[j] \in Nat /\ \A y \in 0..a : Good(j - 1, y)
  <2>1. SUFFICES ASSUME j # 0 PROVE j \in 1..k /\ n[j] \in Nat /\ \A y \in 0..a : Good(j - 1, y)
    OBVIOUS
  <2>2. j \in 1..k /\ j - 1 \in 0..k /\ ~(j <= j - 1)
    BY <1>4, <2>1
  <2> HIDE DEF Good
  <2>3. j - 1 \notin Bad
    <3> HIDE DEF Bad
    <3> QED BY <1>2, <2>2
  <2>4. QED BY <2>2, <2>3
<1> HIDE DEF Bad
<1>6. ASSUME NEW y \in 0..a
      PROVE  /\ j = 0 \/ y = 0 => w[j][y].NICR = 0 /\ w[j][y].remaining = y
             /\ j # 0 /\ y # 0 => w[j][y] = Found(n[j], q[j], y, w[j - 1])
  BY <1>4, WalkAt
<1>7. w[j][0].remaining = 0 /\ w[j][0].NICR = 0
  <2>1. 0 \in 0..a
    OBVIOUS
  <2>2. QED BY <1>6, <2>1
<1>8. CASE j = 0 \/ x = 0
  <2>1. w[j][x].remaining = x /\ w[j][x].NICR = 0
    BY <1>6, <1>8
  <2>2. x - w[j][x].remaining = 0
    BY <1>4, <2>1
  <2>3. QED BY <1>3, <1>4, <1>7, <2>1, <2>2
<1>9. CASE j # 0 /\ x # 0 /\ n[j] <= x
  <2> DEFINE y == x - n[j]
             z == y - w[j - 1][y].remaining
  <2>1. n[j] \in Nat /\ y \in 0..a /\ y <= x
    BY <1>4, <1>5, <1>9
  <2>2. w[j][x] = w[j - 1][y]
    BY <1>6, <1>9 DEF Found
  <2>3. Good(j - 1, y)
    BY <1>5, <1>9, <2>1
  <2>4. x - w[j][x].remaining = n[j] + z /\ z \in 0..a /\ n[j] + z \in 0..a /\ n[j] <= n[j] + z
        /\ (n[j] + z) - n[j] = z
    <3> DEFINE rest == w[j - 1][y].remaining
    <3>1. rest \in 0..y /\ w[j][x].remaining = rest
      BY <2>2, <2>3
    <3> HIDE DEF rest, Good
    <3>2. z = (x - n[j]) - rest
      BY DEF rest
    <3>3. x \in 0..a
      OBVIOUS
    <3> HIDE DEF z
    <3>4. QED BY <2>1, <3>1, <3>2, <3>3
  <2>5. CASE n[j] + z = 0
    <3>1. z = 0 /\ n[j] = 0
      BY <2>1, <2>4, <2>5
    <3>2. w[j - 1][0].NICR = 0
      <4>1. j - 1 \in 0..k /\ 0 \in 0..a
        BY <1>4, <1>9
      <4>2. QED BY <4>1, WalkAt
    <3>3. w[j - 1][y].NICR = 0
      BY <2>3, <3>1, <3>2
    <3>4. w[j][x].remaining \in 0..x
      BY <2>1, <2>2, <2>3, <1>4
    <3>5. QED BY <1>3, <1>7, <2>2, <2>4, <2>5, <3>3, <3>4
  <2>6. CASE n[j] + z # 0
    <3>1. w[j][n[j] + z] = w[j - 1][z]
      BY <1>6, <1>9, <2>4, <2>6 DEF Found
    <3>2. w[j][x].remaining \in 0..x
      BY <2>1, <2>2, <2>3, <1>4
    <3>3. QED BY <1>3, <2>2, <2>3, <2>4, <3>1, <3>2
  <2>7. QED BY <2>5, <2>6
<1>10. CASE j # 0 /\ x # 0 /\ ~(n[j] <= x) /\ n[j] <= MIN_NET_DEBT
  <2>1. w[j][x].remaining = x /\ w[j][x].NICR = 0
    <3>1. Found(n[j], q[j], x, w[j - 1]) = [NICR |-> 0, remaining |-> x]
      BY <1>10 DEF Found
    <3>2. QED BY <1>6, <1>10, <3>1
  <2>2. x - w[j][x].remaining = 0
    BY <1>4, <2>1
  <2>3. QED BY <1>3, <1>4, <1>7, <2>1, <2>2
<1>11. CASE j # 0 /\ x # 0 /\ ~(n[j] <= x) /\ ~(n[j] <= MIN_NET_DEBT)
  <2> DEFINE m == Min2(x, n[j] - MIN_NET_DEBT)
  <2>1. m \in 0..a /\ m <= x /\ m # 0 /\ ~(n[j] <= m) /\ Min2(m, n[j] - MIN_NET_DEBT) = m
    BY <1>4, <1>5, <1>11 DEF Min2
  <2>2. w[j][x].remaining = x - m /\ w[j][x].NICR = q[j][m]
    <3>1. Found(n[j], q[j], x, w[j - 1]) = [NICR |-> q[j][m], remaining |-> x - m]
      BY <1>11 DEF Found
    <3>2. QED BY <1>6, <1>11, <3>1
  <2>3. x - w[j][x].remaining = m
    BY <1>4, <2>1, <2>2
  <2>4. w[j][m].remaining = m - m /\ w[j][m].NICR = q[j][m]
    <3>1. Found(n[j], q[j], m, w[j - 1]) = [NICR |-> q[j][m], remaining |-> m - m]
      BY <1>11, <2>1 DEF Found
    <3>2. QED BY <1>6, <1>11, <2>1, <3>1
  <2>5. m - m = 0 /\ w[j][x].remaining \in 0..x
    BY <1>4, <2>1, <2>2
  <2>6. QED BY <1>3, <2>2, <2>3, <2>4, <2>5
<1>12. QED BY <1>8, <1>9, <1>10, <1>11

-----------------------------------------------------------------------------
(* The walk along the list *)

\* One place of the walk in RedemptionHints.
HintsAt(k, amount, further) ==
    [remaining \in 0..amount |->
       IF k = 0 \/ remaining = 0 THEN [NICR |-> 0, remaining |-> remaining]
       ELSE LET b == sortedTroves[k]
                net == NetLUSDDebt(b)
                max == Min2(remaining, net - MIN_NET_DEBT)
            IN  IF net <= remaining THEN further[remaining - net]
                ELSE IF net <= MIN_NET_DEBT THEN [NICR |-> 0, remaining |-> remaining]
                ELSE [NICR |-> HintNICR(b, max), remaining |-> remaining - max]]

LEMMA WalkExists ==
    \A n, amount \in Nat : \E w : w = [k \in 0..n |-> HintsAt(k, amount, w[k - 1])]
<1> SUFFICES ASSUME NEW amount \in Nat
             PROVE  \A n \in Nat : \E w : w = [k \in 0..n |-> HintsAt(k, amount, w[k - 1])]
  OBVIOUS
<1> DEFINE At(k, f) == HintsAt(k, amount, f)
           Bad == {n \in Nat : ~ \E w : w = [k \in 0..n |-> At(k, w[k - 1])]}
<1>1. SUFFICES ASSUME Bad # {} PROVE FALSE
  OBVIOUS
<1>2. PICK n \in Bad : \A m \in Bad : n <= m
  <2>1. Bad \in SUBSET Nat
    OBVIOUS
  <2> HIDE DEF Bad
  <2>2. QED BY <1>1, <2>1, SmallestNumber
<1>3. n \in Nat /\ ~ \E w : w = [k \in 0..n |-> At(k, w[k - 1])]
  OBVIOUS
<1>4. n # 0 => n - 1 \in Nat /\ n - 1 \notin Bad
  BY <1>2, <1>3
<1>5. \A f, g : At(0, f) = At(0, g)
  BY DEF HintsAt
<1> HIDE DEF At
<1>6. CASE n = 0
  <2> DEFINE w == [k \in 0..n |-> At(k, 0)]
  <2>1. \A k \in 0..n : k = 0
    BY <1>6
  <2>2. \A k \in 0..n : At(k, 0) = At(k, w[k - 1])
    BY <1>5, <2>1
  <2>3. w = [k \in 0..n |-> At(k, w[k - 1])]
    BY <2>2
  <2>4. QED BY <1>3, <2>3
<1>7. CASE n # 0
  <2>1. n - 1 \in Nat /\ \E v : v = [k \in 0..(n - 1) |-> At(k, v[k - 1])]
    BY <1>4, <1>7
  <2>2. PICK v : v = [k \in 0..(n - 1) |-> At(k, v[k - 1])]
    BY <2>1
  <2> DEFINE w == [k \in 0..n |-> At(k, v[k - 1])]
  <2>3. \A k \in 0..(n - 1) : k \in 0..n /\ w[k] = v[k]
    <3>1. \A k \in 0..(n - 1) : k \in 0..n
      BY <1>3
    <3>2. \A k \in 0..(n - 1) : v[k] = At(k, v[k - 1])
      BY ONLY <2>2, Zenon
    <3>3. QED BY <3>1, <3>2
  <2>4. \A k \in 0..n : k # 0 => k - 1 \in 0..(n - 1)
    BY <1>3
  <2> HIDE DEF w
  <2>5. \A k \in 0..n : At(k, v[k - 1]) = At(k, w[k - 1])
    BY <1>5, <2>3, <2>4
  <2>6. w = [k \in 0..n |-> At(k, w[k - 1])]
    BY <2>5 DEF w
  <2>7. QED BY <1>3, <2>6
<1>8. QED BY <1>6, <1>7

\* Net debts and ratios by place of the list.
NetDebts == [k \in DOMAIN sortedTroves |-> NetLUSDDebt(sortedTroves[k])]
HintRatios == [k \in DOMAIN sortedTroves |-> [m \in Nat |-> HintNICR(sortedTroves[k], m)]]
DebtsAreNat ==
    /\ DOMAIN sortedTroves = 1..Len(sortedTroves) /\ Len(sortedTroves) \in Nat
    /\ \A k \in DOMAIN sortedTroves : NetDebts[k] \in Nat

\* What a walk reports of an amount at a place.
Reported(w, i, amount) == [NICR |-> w[i][amount].NICR, truncated |-> amount - w[i][amount].remaining]

\* The recursive function of RedemptionHints is such a walk.
LEMMA HintsAreWalk ==
    DebtsAreNat => \A amount \in Nat : \E w :
        /\ HintWalk(w, Len(sortedTroves), amount, NetDebts, HintRatios)
        /\ \A i : RedemptionHints(i, amount) = Reported(w, i, amount)
<1> SUFFICES ASSUME DebtsAreNat, NEW amount \in Nat
             PROVE  \E w : /\ HintWalk(w, Len(sortedTroves), amount, NetDebts, HintRatios)
                           /\ \A i : RedemptionHints(i, amount) = Reported(w, i, amount)
  OBVIOUS
<1> DEFINE n == Len(sortedTroves)
           walk == CHOOSE walk : walk = [k \in 0..n |-> HintsAt(k, amount, walk[k - 1])]
<1>1. \A i : RedemptionHints(i, amount) = Reported(walk, i, amount)
  BY Zenon DEF RedemptionHints, Reported, HintsAt
<1>2. walk = [k \in 0..n |-> HintsAt(k, amount, walk[k - 1])]
  <2>1. n \in Nat
    BY DEF DebtsAreNat
  <2>2. \E w : w = [k \in 0..n |-> HintsAt(k, amount, w[k - 1])]
    BY <2>1, WalkExists
  <2>3. QED BY <2>2, Zenon
<1> HIDE DEF walk
<1>3. \A k \in 0..n : walk[k] = HintsAt(k, amount, walk[k - 1])
  BY ONLY <1>2, Zenon
<1>4. ASSUME NEW j \in 0..n, NEW r \in 0..amount
      PROVE  walk[j][r] = IF j = 0 \/ r = 0 THEN [NICR |-> 0, remaining |-> r]
                          ELSE Found(NetDebts[j], HintRatios[j], r, walk[j - 1])
  <2>1. walk[j] = HintsAt(j, amount, walk[j - 1])
    BY <1>3
  <2> DEFINE b == sortedTroves[j]
             net == NetLUSDDebt(b)
             max == Min2(r, net - MIN_NET_DEBT)
  <2>2. walk[j][r] =
           IF j = 0 \/ r = 0 THEN [NICR |-> 0, remaining |-> r]
           ELSE IF net <= r THEN walk[j - 1][r - net]
           ELSE IF net <= MIN_NET_DEBT THEN [NICR |-> 0, remaining |-> r]
           ELSE [NICR |-> HintNICR(b, max), remaining |-> r - max]
    BY ONLY <2>1, Zenon DEF HintsAt
  <2>3. j # 0 => NetDebts[j] = net /\ net \in Nat /\ HintRatios[j] = [m \in Nat |-> HintNICR(b, m)]
    BY DEF DebtsAreNat, NetDebts, HintRatios
  <2>4. j # 0 /\ ~(net <= MIN_NET_DEBT) => max \in Nat /\ HintRatios[j][max] = HintNICR(b, max)
    <3>1. SUFFICES ASSUME j # 0, ~(net <= MIN_NET_DEBT)
                   PROVE  max \in Nat /\ HintRatios[j][max] = HintNICR(b, max)
      OBVIOUS
    <3>2. max \in Nat
      BY <2>3, <3>1, FloorIs DEF Min2
    <3> HIDE DEF max, net, b
    <3>3. QED BY <2>3, <3>1, <3>2
  <2> HIDE DEF b, net
  <2>5. QED BY <2>2, <2>3, <2>4 DEF Found
<1>5. HintWalk(walk, n, amount, NetDebts, HintRatios)
  BY <1>4 DEF HintWalk
<1>6. QED BY <1>1, <1>5


-----------------------------------------------------------------------------
(* The hints during a redemption *)

\* Where the redemption under way goes on: the place that HintsNow starts at.
WalkPlace == IF tx.user = NONE THEN 0 ELSE Position(tx.user)

\* w is the walk that HintsNow reads.
HintsFound(w) ==
    /\ HintWalk(w, Len(sortedTroves), redemption.remainingLUSD, NetDebts, HintRatios)
    /\ HintsNow = Reported(w, WalkPlace, redemption.remainingLUSD)

LEMMA NowIsWalk ==
    DebtsAreNat /\ redemption.remainingLUSD \in Nat => \E w : HintsFound(w)
<1> SUFFICES ASSUME DebtsAreNat, redemption.remainingLUSD \in Nat
             PROVE  \E w : HintsFound(w)
  OBVIOUS
<1>1. PICK w : /\ HintWalk(w, Len(sortedTroves), redemption.remainingLUSD, NetDebts, HintRatios)
               /\ \A i : RedemptionHints(i, redemption.remainingLUSD)
                           = Reported(w, i, redemption.remainingLUSD)
  BY HintsAreWalk
<1>2. HintsNow = RedemptionHints(WalkPlace, redemption.remainingLUSD)
  BY DEF HintsNow, WalkPlace
<1>3. QED BY <1>1, <1>2 DEF HintsFound

LEMMA NowIsWalkAfter ==
    (DebtsAreNat /\ redemption.remainingLUSD \in Nat => \E w : HintsFound(w))'
BY NowIsWalk, PTL

\* The net debt of the hints is a natural number: every listed trove owes more
\* than the reserve.
LEMMA ListedDebts == IInv /\ TrovesOK => DebtsAreNat
<1> SUFFICES ASSUME IInv, TrovesOK PROVE DebtsAreNat
  OBVIOUS
<1>1. CurrentOK /\ BookOK(Troves, TroveOwners, sortedTroves) /\ sortedTroves \in Seq(Borrowers)
  BY DEF IInv, CurrentOK, BookOK
<1>2. DOMAIN sortedTroves = 1..Len(sortedTroves) /\ Len(sortedTroves) \in Nat
  BY <1>1, LenProperties
<1>3. ASSUME NEW k \in DOMAIN sortedTroves PROVE NetDebts[k] \in Nat
  <2> DEFINE b == sortedTroves[k]
  <2>1. b \in Borrowers /\ Active(b)
    <3>1. b \in ToSet(sortedTroves)
      BY DEF ToSet
    <3>2. QED BY <1>1, <3>1, ListedAt
  <2>2. Troves[b].debt \in Nat /\ Pending(b).LUSDDebt \in Nat
    BY <1>1, <2>1, PendingAmounts DEF Amounts
  <2>3. Troves[b].debt >= LUSD_GAS_COMPENSATION + MIN_NET_DEBT
    BY <2>1 DEF TrovesOK, DebtFloor, ActiveIn, Active
  <2>4. NetDebts[k] = NetLUSDDebt(b)
    BY DEF NetDebts
  <2> HIDE DEF b
  <2>5. NetLUSDDebt(b) \in Nat
    BY <2>2, <2>3, FloorIs DEF NetLUSDDebt
  <2>6. QED BY <2>4, <2>5
<1>4. QED BY <1>2, <1>3 DEF DebtsAreNat

LEMMA ListedDebtsAfter == (IInv /\ TrovesOK => DebtsAreNat)'
BY ListedDebts, PTL

\* The hints count what is pending, and a redemption applies it: the same, if
\* no trove is behind on the debt alone.
LEMMA NetIs ==
    ASSUME CurrentOK, AllCaughtUp, NEW b \in Borrowers, Active(b)
    PROVE  /\ Pending(b) = Applied(b)
           /\ NetLUSDDebt(b) = AppliedTrove(b).debt - LUSD_GAS_COMPENSATION
           /\ Entire(b).ETH = AppliedTrove(b).coll
           /\ AppliedSnapshot(b) = L
<1>1. /\ L \in Amounts /\ rewardSnapshots[b] \in Amounts /\ Covers(L, rewardSnapshots[b])
      /\ Troves[b].stake \in Nat
  BY PendingAmounts DEF CurrentOK, RewardsOK
<1>2. ~HasPendingRewards(b) => /\ L.ETH = rewardSnapshots[b].ETH
                               /\ L.LUSDDebt = rewardSnapshots[b].LUSDDebt
  <2>1. SUFFICES ASSUME ~HasPendingRewards(b)
                 PROVE  /\ L.ETH = rewardSnapshots[b].ETH
                        /\ L.LUSDDebt = rewardSnapshots[b].LUSDDebt
    OBVIOUS
  <2>2. L.ETH = rewardSnapshots[b].ETH
    BY <1>1, <2>1 DEF HasPendingRewards, Amounts, Covers
  <2>3. QED BY <2>2 DEF AllCaughtUp, CaughtUp, Active
<1>3. Pending(b) = Applied(b)
  <2>1. CASE HasPendingRewards(b)
    BY <2>1 DEF Applied
  <2>2. CASE ~HasPendingRewards(b)
    <3> DEFINE t == Troves[b].stake
               l == L.ETH
               m == L.LUSDDebt
    <3>1. t * (l - l) = 0 /\ t * (m - m) = 0 /\ 0 \div DECIMAL_PRECISION = 0
      <4>1. l \in Nat /\ m \in Nat /\ t \in Nat
        BY <1>1 DEF Amounts
      <4>2. t * (l - l) = 0 /\ t * (m - m) = 0
        BY <4>1, NothingEarned
      <4>3. 0 \div DECIMAL_PRECISION = 0
        BY ScaleAssumption
      <4>4. QED BY <4>2, <4>3
    <3>2. Pending(b) = Amount((t * (l - l)) \div DECIMAL_PRECISION,
                              (t * (m - m)) \div DECIMAL_PRECISION)
      BY <1>2, <2>2 DEF Pending
    <3>3. Pending(b) = Amount(0, 0)
      BY <3>1, <3>2
    <3>4. QED BY <2>2, <3>3 DEF Applied
  <2>3. QED BY <2>1, <2>2
<1>4. AppliedSnapshot(b) = L
  <2>1. ASSUME ~HasPendingRewards(b) PROVE rewardSnapshots[b] = L
    BY <1>1, <1>2, <2>1 DEF Amounts
  <2>2. QED BY <2>1 DEF AppliedSnapshot
<1>5. /\ Entire(b).ETH = Troves[b].coll + Pending(b).ETH
      /\ Troves[b].debt \in Nat /\ Pending(b).LUSDDebt \in Nat
      /\ AppliedTrove(b).coll = Troves[b].coll + Applied(b).ETH
      /\ AppliedTrove(b).debt = Troves[b].debt + Applied(b).LUSDDebt
  BY <1>3, PendingAmounts, AppliedAmounts
<1>6. NetLUSDDebt(b) = AppliedTrove(b).debt - LUSD_GAS_COMPENSATION
  BY <1>3, <1>5, FloorIs DEF NetLUSDDebt
<1>7. QED BY <1>3, <1>4, <1>5, <1>6

\* Cut to what the hints report, the amount gets the same hints.
LEMMA HintsOfTruncated ==
    ASSUME IInv, DebtsAreNat, NEW amount \in Nat, NEW b \in ToSet(sortedTroves),
           NEW hints, hints = RedemptionHints(Position(b), amount)
    PROVE  RedemptionHints(Position(b), hints.truncated) = hints
<1> DEFINE k == Len(sortedTroves)
           i == Position(b)
           c == hints.truncated
<1>1. PICK w : /\ HintWalk(w, k, amount, NetDebts, HintRatios)
               /\ \A j : RedemptionHints(j, amount) = Reported(w, j, amount)
  BY HintsAreWalk
<1>2. k \in Nat /\ i \in 1..k /\ i \in 0..k /\ i \in Nat /\ amount \in 0..amount
  <2>1. i \in 1..Len(sortedTroves) /\ Len(sortedTroves) \in Nat
    BY ListedAt DEF IInv, CurrentOK, DebtsAreNat
  <2>2. QED BY <2>1
<1>3. \A j \in 1..k : NetDebts[j] \in Nat
  BY DEF DebtsAreNat
<1>4. hints = Reported(w, i, amount)
  BY <1>1
<1> HIDE DEF k, i
<1>5. /\ w[i][amount].remaining \in 0..amount
      /\ w[i][amount - w[i][amount].remaining].remaining = 0
      /\ w[i][amount - w[i][amount].remaining].NICR = w[i][amount].NICR
  BY <1>1, <1>2, <1>3, WalkTruncated, FloorIs
<1>6. c = amount - w[i][amount].remaining /\ hints.NICR = w[i][amount].NICR
  BY <1>4 DEF Reported
<1>7. c \in Nat /\ c <= amount /\ w[i][c].remaining = 0 /\ w[i][c].NICR = hints.NICR
  BY <1>5, <1>6
<1> HIDE DEF c
<1>8. PICK v : /\ HintWalk(v, k, c, NetDebts, HintRatios)
               /\ \A j : RedemptionHints(j, c) = Reported(v, j, c)
  BY <1>7, HintsAreWalk DEF k
<1>9. w[i][c] = v[i][c]
  <2>1. \A j \in 1..i : NetDebts[j] \in Nat
    BY <1>2, <1>3
  <2>2. i <= k /\ c <= c
    BY <1>2, <1>7
  <2>3. QED BY <1>1, <1>2, <1>7, <1>8, <2>1, <2>2, WalksAgree
<1>10. RedemptionHints(i, c) = [NICR |-> hints.NICR, truncated |-> c]
  <2>1. c - 0 = c
    BY <1>7
  <2>2. QED BY <1>7, <1>8, <1>9, <2>1 DEF Reported
<1>11. hints = [NICR |-> hints.NICR, truncated |-> c]
  BY <1>4 DEF Reported, c
<1>12. QED BY <1>10, <1>11 DEF i, c

\* The trove that a redemption has come to.
LEMMA HintsHere ==
    ASSUME IInv, TrovesOK, AllCaughtUp, NEW b \in Borrowers, Looking(b), HintsExact
    PROVE  \E w :
      LET k == Position(b)
          r == redemption.remainingLUSD
          n == NetLUSDDebt(b)
      IN  /\ HintWalk(w, Len(sortedTroves), r, NetDebts, HintRatios)
          /\ w[k][r].remaining = 0 /\ w[k][r].NICR = HintsNow.NICR
          /\ n <= r => w[k][r] = w[k - 1][r - n]
          /\ ~(n <= r) => r <= n - MIN_NET_DEBT /\ HintsNow.NICR = HintNICR(b, r)
<1> DEFINE k == Position(b)
           r == redemption.remainingLUSD
           n == NetLUSDDebt(b)
           top == Len(sortedTroves)
<1>1. /\ CurrentOK /\ LocalOK /\ DebtsAreNat /\ r \in Nat /\ r # 0
  BY ListedDebts, RedemptionIs DEF IInv, LocalOK, Looking
<1>2. b \in ToSet(sortedTroves) /\ WalkPlace = k
  BY <1>1, BorrowersAssumption DEF Looking, LocalOK, WalksTheList, WalkPlace
<1>3. /\ top \in Nat /\ k \in 1..top /\ k \in 0..top /\ k \in Nat /\ k # 0 /\ r \in 0..r
      /\ sortedTroves[k] = b /\ k \in DOMAIN sortedTroves
  <2>1. k \in 1..Len(sortedTroves) /\ sortedTroves[k] = b
    BY <1>1, <1>2, ListedAt DEF CurrentOK
  <2>2. DOMAIN sortedTroves = 1..Len(sortedTroves) /\ Len(sortedTroves) \in Nat
    BY <1>1 DEF DebtsAreNat
  <2>3. QED BY <1>1, <2>1, <2>2
<1>4. PICK w : HintsFound(w)
  BY <1>1, NowIsWalk
<1>5. HintWalk(w, top, r, NetDebts, HintRatios) /\ HintsNow = Reported(w, k, r)
  BY <1>2, <1>4 DEF HintsFound
<1>6. \A j \in 1..top : NetDebts[j] \in Nat
  BY <1>1 DEF DebtsAreNat
<1>7. NetDebts[k] = n /\ n \in Nat /\ HintRatios[k] = [m \in Nat |-> HintNICR(b, m)]
  BY <1>3, <1>6 DEF NetDebts, HintRatios
<1>8. w[k][r].remaining = 0 /\ w[k][r].NICR = HintsNow.NICR
  <2>1. HintsNow.truncated = r - w[k][r].remaining /\ HintsNow.NICR = w[k][r].NICR
    BY <1>5 DEF Reported
  <2>2. HintsNow.truncated = r
    BY DEF HintsExact
  <2> HIDE DEF k, r, top
  <2>3. w[k][r].remaining \in 0..r
    BY <1>3, <1>5, <1>6, <1>1, WalkTruncated, FloorIs
  <2>4. QED BY <1>1, <2>1, <2>2, <2>3
<1>9. w[k][r] = Found(NetDebts[k], HintRatios[k], r, w[k - 1])
  <2> HIDE DEF k, r, top
  <2>1. QED BY <1>1, <1>3, <1>5, WalkAt
<1> DEFINE q == HintRatios[k]
<1>10. w[k][r] = Found(n, q, r, w[k - 1])
  BY <1>7, <1>9
<1>11. \A m \in Nat : q[m] = HintNICR(b, m)
  BY <1>7
<1> HIDE DEF k, r, top, n, q
<1>12. n <= r => w[k][r] = w[k - 1][r - n]
  BY <1>10 DEF Found
<1>13. ASSUME ~(n <= r) PROVE r <= n - MIN_NET_DEBT /\ HintsNow.NICR = HintNICR(b, r)
  <2>1. ~(n <= MIN_NET_DEBT)
    <3>1. SUFFICES ASSUME n <= MIN_NET_DEBT PROVE FALSE
      OBVIOUS
    <3>2. w[k][r] = [NICR |-> 0, remaining |-> r]
      BY <1>10, <1>13, <3>1 DEF Found
    <3>3. QED BY <1>1, <1>8, <3>2
  <2> DEFINE m == Min2(r, n - MIN_NET_DEBT)
  <2>2. w[k][r] = [NICR |-> q[m], remaining |-> r - m]
    BY <1>10, <1>13, <2>1 DEF Found
  <2>3. r - m = 0 /\ w[k][r].NICR = q[m]
    BY <1>8, <2>2
  <2>4. m = r /\ r <= n - MIN_NET_DEBT
    <3>1. n \in Nat /\ r \in Nat /\ MIN_NET_DEBT \in Nat
      BY <1>1, <1>7, FloorIs
    <3>2. r - Min2(r, n - MIN_NET_DEBT) = 0
      BY <2>3
    <3>3. QED BY <2>1, <3>1, <3>2 DEF Min2
  <2>5. QED BY <1>1, <1>8, <1>11, <2>3, <2>4
<1>14. /\ HintWalk(w, top, r, NetDebts, HintRatios)
       /\ w[k][r].remaining = 0 /\ w[k][r].NICR = HintsNow.NICR
       /\ n <= r => w[k][r] = w[k - 1][r - n]
       /\ ~(n <= r) => r <= n - MIN_NET_DEBT /\ HintsNow.NICR = HintNICR(b, r)
  BY <1>5, <1>8, <1>12, <1>13
<1>15. QED BY <1>14 DEF k, r, n, top

\* A partial redemption lowers the debt as the hints said.
LEMMA HintsForPart ==
    ASSUME IInv, TrovesOK, AllCaughtUp, NEW b \in Borrowers, Looking(b), Redeemable(b),
           NewDebt(b) # LUSD_GAS_COMPENSATION, HintsExact
    PROVE  /\ Lot(b) = redemption.remainingLUSD
           /\ PartialAllowed(b)
           /\ HintsNow.NICR = ComputeNominalCR(NewColl(b), NewDebt(b))
<1> DEFINE r == redemption.remainingLUSD
           n == NetLUSDDebt(b)
           d == AppliedTrove(b).debt
<1>1. /\ CurrentOK /\ Active(b) /\ r \in Nat /\ d \in Nat /\ LUSD_GAS_COMPENSATION \in Nat
      /\ MIN_NET_DEBT \in Nat
  BY LookedAt, RedemptionIs, AppliedTroveIs, FloorIs DEF IInv, LocalOK
<1>2. n = d - LUSD_GAS_COMPENSATION /\ Entire(b).ETH = AppliedTrove(b).coll
  BY <1>1, NetIs
<1>3. ~(n <= r) => r <= n - MIN_NET_DEBT /\ HintsNow.NICR = HintNICR(b, r)
  BY HintsHere
<1>4. Lot(b) = Min2(r, n) /\ NewDebt(b) = d - Lot(b)
  BY <1>2 DEF Lot, NewDebt
<1> HIDE DEF r, n, d
<1>5. n \in Int /\ d = n + LUSD_GAS_COMPENSATION
  BY <1>1, <1>2
<1>6. ~(n <= r)
  <2>1. SUFFICES ASSUME n <= r PROVE NewDebt(b) = LUSD_GAS_COMPENSATION
    OBVIOUS
  <2>2. Lot(b) = n
    BY <1>1, <1>4, <1>5, <2>1 DEF Min2
  <2>3. QED BY <1>1, <1>4, <1>5, <2>2
<1>7. Lot(b) = r /\ NewDebt(b) = d - r
  BY <1>1, <1>4, <1>5, <1>6 DEF Min2
<1>8. PartialAllowed(b)
  <2>1. r <= n - MIN_NET_DEBT
    BY <1>3, <1>6
  <2>2. NewDebt(b) - LUSD_GAS_COMPENSATION >= MIN_NET_DEBT
    BY <1>1, <1>5, <1>7, <2>1
  <2>3. QED BY <2>2 DEF PartialAllowed
<1>9. HintsNow.NICR = ComputeNominalCR(NewColl(b), NewDebt(b))
  <2>1. n - r + LUSD_GAS_COMPENSATION = d - r
    BY <1>1, <1>5
  <2>2. CompositeDebt(NetLUSDDebt(b) - r) = NewDebt(b)
    BY <1>7, <2>1 DEF CompositeDebt, n
  <2>3. Entire(b).ETH - (r * DECIMAL_PRECISION) \div price = NewColl(b)
    BY <1>2, <1>7 DEF NewColl, ETHLot
  <2>4. QED BY <1>3, <1>6, <2>2, <2>3 DEF HintNICR
<1>10. QED BY <1>7, <1>8, <1>9 DEF r

\* The ratio a partly redeemed trove then has: nothing is pending.
LEMMA RatioAfterPart ==
    ASSUME IInv, IInv', AllCaughtUp, NEW b \in Borrowers, RedeemPart(b)
    PROVE  NominalICR(b)' = ComputeNominalCR(NewColl(b), NewDebt(b))
<1> DEFINE c == NewColl(b)
           d == NewDebt(b)
           s == ComputeNewStake(NewColl(b))
<1>1. /\ CurrentOK /\ Looking(b) /\ Redeemable(b) /\ UNCHANGED rewards
      /\ Troves' = [Troves EXCEPT ![b].debt = d, ![b].coll = c, ![b].stake = s]
      /\ rewardSnapshots' = [rewardSnapshots EXCEPT ![b] = AppliedSnapshot(b)]
  BY DEF IInv, RedeemPart
<1>2. Active(b) /\ c \in Nat /\ d \in Nat /\ s \in Nat
  BY <1>1, LookedAt, StakeNat
<1>3. AppliedSnapshot(b) = L /\ L' = L /\ L \in Amounts
  BY <1>1, <1>2, NetIs DEF rewards, CurrentOK, RewardsOK
<1>4. /\ Troves \in [Borrowers -> TroveRecords] /\ Troves[b] \in TroveRecords
      /\ rewardSnapshots \in [Borrowers -> Amounts]
  BY <1>1 DEF CurrentOK, BookOK, RewardsOK
<1> HIDE DEF c, d, s
<1>5. /\ Troves'[b].coll = c /\ Troves'[b].debt = d /\ Troves'[b].stake = s
      /\ Troves'[b].status = Troves[b].status /\ rewardSnapshots'[b] = L
  BY <1>1, <1>3, <1>4 DEF TroveRecords
<1>6. Pending(b)' = Amount(0, 0)
  <2> DEFINE l == L.ETH
             m == L.LUSDDebt
  <2>1. l \in Nat /\ m \in Nat
    BY <1>3 DEF Amounts
  <2>2. s * (l - l) = 0 /\ s * (m - m) = 0
    BY <1>2, <2>1, NothingEarned
  <2>3. 0 \div DECIMAL_PRECISION = 0
    BY ScaleAssumption
  <2>4. Pending(b)' = Amount((s * (l - l)) \div DECIMAL_PRECISION,
                             (s * (m - m)) \div DECIMAL_PRECISION)
    BY <1>2, <1>3, <1>5 DEF Pending, Active
  <2>5. QED BY <2>2, <2>3, <2>4
<1>7. Entire(b)'.ETH = c /\ Entire(b)'.LUSDDebt = d
  <2>1. Entire(b)' = Amount(c + 0, d + 0)
    BY <1>5, <1>6 DEF Entire, Plus, Amount
  <2>2. c + 0 = c /\ d + 0 = d
    BY <1>2
  <2>3. QED BY <2>1, <2>2 DEF Amount
<1>8. QED BY <1>7 DEF NominalICR, c, d

\* The hints look at the amounts of a trove, its stake and its snapshot.
LEMMA SameHint ==
    ASSUME NEW x \in Borrowers, L' = L, price' = price,
           rewardSnapshots'[x] = rewardSnapshots[x],
           Troves'[x].status = Troves[x].status, Troves'[x].stake = Troves[x].stake,
           Troves'[x].coll = Troves[x].coll, Troves'[x].debt = Troves[x].debt
    PROVE  /\ NetLUSDDebt(x)' = NetLUSDDebt(x)
           /\ \A m : HintNICR(x, m)' = HintNICR(x, m)
           /\ CurrentICR(x)' = CurrentICR(x)
<1>1. Pending(x)' = Pending(x)
  BY DEF Pending, Active
<1>2. Entire(x)' = Entire(x)
  BY <1>1 DEF Entire
<1>3. NetLUSDDebt(x)' = NetLUSDDebt(x)
  BY <1>1 DEF NetLUSDDebt
<1>4. CurrentICR(x)' = CurrentICR(x)
  BY <1>2 DEF CurrentICR
<1>5. QED BY <1>2, <1>3, <1>4 DEF HintNICR

\* Where the walk goes on, if it goes on.
LEMMA PlaceIs ==
    IInv => /\ \A j \in DOMAIN sortedTroves : tx.user = sortedTroves[j] => WalkPlace = j
            /\ tx.user = NONE => WalkPlace = 0
<1> SUFFICES ASSUME IInv
             PROVE  \A j \in DOMAIN sortedTroves : tx.user = sortedTroves[j] => WalkPlace = j
  BY DEF WalkPlace
<1>1. /\ BookOK(Troves, TroveOwners, sortedTroves) /\ sortedTroves \in Seq(Borrowers)
      /\ Distinct(sortedTroves) /\ DOMAIN sortedTroves = 1..Len(sortedTroves)
  <2>1. BookOK(Troves, TroveOwners, sortedTroves)
    BY DEF IInv, CurrentOK
  <2>2. QED BY <2>1, LenProperties DEF BookOK, OwnersMatch, Distinct
<1>2. ASSUME NEW j \in DOMAIN sortedTroves, tx.user = sortedTroves[j] PROVE WalkPlace = j
  <2>1. sortedTroves[j] \in ToSet(sortedTroves) /\ sortedTroves[j] \in Borrowers
    BY <1>1, ElementOfSeq DEF ToSet
  <2>2. tx.user # NONE
    BY <1>2, <2>1, BorrowersAssumption
  <2>3. Position(tx.user) \in DOMAIN sortedTroves /\ sortedTroves[Position(tx.user)] = tx.user
    BY <1>1, <1>2, <2>1, ListedAt
  <2>4. Position(tx.user) = j
    BY <1>1, <1>2, <2>3 DEF Distinct
  <2>5. QED BY <2>2, <2>4 DEF WalkPlace
<1>3. QED BY <1>2

LEMMA PlaceIsAfter ==
    (IInv => /\ \A j \in DOMAIN sortedTroves : tx.user = sortedTroves[j] => WalkPlace = j
             /\ tx.user = NONE => WalkPlace = 0)'
BY PlaceIs, PTL

\* Closing a trove leaves the places before its own as they were.
LEMMA PlacesKept ==
    ASSUME IInv, NEW b \in ToSet(sortedTroves), NEW status, CloseTrove(b, status),
           UNCHANGED <<rewards, price>>
    PROVE  LET k == Position(b) IN
           /\ k \in 1..Len(sortedTroves) /\ Len(sortedTroves) \in Nat
           /\ Len(sortedTroves') = Len(sortedTroves) - 1
           /\ DOMAIN sortedTroves' = 1..(Len(sortedTroves) - 1)
           /\ \A j \in 1..(k - 1) : /\ sortedTroves'[j] = sortedTroves[j]
                                    /\ NetDebts'[j] = NetDebts[j]
                                    /\ HintRatios'[j] = HintRatios[j]
                                    /\ CurrentICR(sortedTroves[j])' = CurrentICR(sortedTroves[j])
<1> DEFINE k == Position(b)
           s == sortedTroves
<1>1. CurrentOK /\ BookOK(Troves, TroveOwners, sortedTroves) /\ s \in Seq(Borrowers)
  BY DEF IInv, CurrentOK, BookOK
<1>2. k \in 1..Len(s) /\ Len(s) \in Nat /\ DOMAIN s = 1..Len(s) /\ s[k] = b /\ b \in Borrowers
  BY <1>1, ListedAt, LenProperties
<1>3. \A i, j \in 1..Len(s) : s[i] = s[j] => i = j
  BY <1>1, <1>2 DEF BookOK, OwnersMatch
<1>4. /\ sortedTroves' = RemoveAt(s, k)
      /\ Troves' = Closed(b, status)
      /\ rewardSnapshots' = [rewardSnapshots EXCEPT ![b] = Amount(0, 0)]
      /\ L' = L /\ price' = price
  BY DEF CloseTrove, Unlisted, rewards
<1>5. /\ sortedTroves' \in Seq(Borrowers) /\ Len(sortedTroves') = Len(s) - 1
      /\ \A j \in 1..(Len(s) - 1) : sortedTroves'[j] = IF j < k THEN s[j] ELSE s[j + 1]
  <2>1. /\ RemoveAt(s, k) \in Seq(Borrowers) /\ Len(RemoveAt(s, k)) = Len(s) - 1
        /\ \A j \in 1..(Len(s) - 1) : RemoveAt(s, k)[j] = IF j < k THEN s[j] ELSE s[j + 1]
    BY <1>1, <1>2, RemoveAtIs
  <2>2. QED BY <1>4, <2>1
<1>6. DOMAIN sortedTroves' = 1..(Len(s) - 1)
  BY <1>5, LenProperties
<1>7. ASSUME NEW j \in 1..(k - 1)
      PROVE  /\ sortedTroves'[j] = s[j]
             /\ NetDebts'[j] = NetDebts[j]
             /\ HintRatios'[j] = HintRatios[j]
             /\ CurrentICR(sortedTroves[j])' = CurrentICR(sortedTroves[j])
  <2> HIDE DEF k
  <2>1. j \in 1..(Len(s) - 1) /\ j \in 1..Len(s) /\ j < k /\ j # k
    BY <1>2
  <2>2. PICK x \in Borrowers : sortedTroves'[j] = x /\ s[j] = x /\ x # b
    <3>1. sortedTroves'[j] = s[j]
      BY <1>5, <2>1
    <3>2. s[j] \in Borrowers
      BY <1>1, <2>1, ElementOfSeq
    <3>3. QED BY <1>2, <1>3, <2>1, <3>1, <3>2
  <2>3. /\ Troves \in [Borrowers -> TroveRecords] /\ Troves[x] \in TroveRecords
        /\ rewardSnapshots \in [Borrowers -> Amounts]
    BY <1>1, <2>2 DEF CurrentOK, BookOK, RewardsOK
  <2>4. rewardSnapshots'[x] = rewardSnapshots[x]
    BY <1>4, <2>2, <2>3
  <2>5. Troves'[x] = IF x = LastOwner THEN [Troves[x] EXCEPT !.arrayIndex = Troves[b].arrayIndex]
                     ELSE Troves[x]
    BY <1>4, <2>2 DEF Closed
  <2>6. /\ Troves'[x].status = Troves[x].status /\ Troves'[x].stake = Troves[x].stake
        /\ Troves'[x].coll = Troves[x].coll /\ Troves'[x].debt = Troves[x].debt
    BY <2>3, <2>5 DEF TroveRecords
  <2>7. /\ NetLUSDDebt(x)' = NetLUSDDebt(x)
        /\ \A m : HintNICR(x, m)' = HintNICR(x, m)
        /\ CurrentICR(x)' = CurrentICR(x)
    BY <1>4, <2>2, <2>4, <2>6, SameHint
  <2>8. j \in DOMAIN s /\ j \in DOMAIN sortedTroves'
    BY <1>2, <1>6, <2>1
  <2>9. NetDebts'[j] = NetLUSDDebt(x)' /\ NetDebts[j] = NetLUSDDebt(x)
    BY <2>2, <2>8 DEF NetDebts
  <2>10. HintRatios'[j] = [m \in Nat |-> HintNICR(x, m)'] /\ HintRatios[j] = [m \in Nat |-> HintNICR(x, m)]
    BY <2>2, <2>8 DEF HintRatios
  <2>11. HintRatios'[j] = HintRatios[j]
    BY <2>7, <2>10
  <2>12. CurrentICR(sortedTroves[j])' = CurrentICR(sortedTroves[j])
    <3>1. CurrentICR(sortedTroves[j])' = CurrentICR(x)'
      BY <2>2 DEF CurrentICR, Entire, Pending, Active
    <3>2. QED BY <2>2, <2>7, <3>1
  <2>13. QED BY <2>2, <2>7, <2>9, <2>11, <2>12
<1> HIDE DEF k
<1>8. QED BY <1>2, <1>5, <1>6, <1>7 DEF k

\* After a whole redemption the walk goes on at the place before.
LEMMA WalkGoesOn ==
    ASSUME IInv, IInv', NEW b \in Borrowers, RedeemWholeTrove(b)
    PROVE  b \in ToSet(sortedTroves) /\ WalkPlace' = Position(b) - 1
<1> DEFINE k == Position(b)
<1>1. /\ Looking(b) /\ Redeemable(b) /\ CloseTrove(b, "closedByRedemption")
      /\ UNCHANGED <<rewards, price>> /\ tx' = [tx EXCEPT !.user = GetPrev(b)]
  BY DEF RedeemWholeTrove
<1>2. CurrentOK /\ LocalOK /\ Active(b)
  BY <1>1, LookedAt DEF IInv
<1>3. b \in ToSet(sortedTroves)
  BY <1>2, ActiveListed DEF CurrentOK
<1>4. /\ k \in 1..Len(sortedTroves) /\ Len(sortedTroves) \in Nat
      /\ DOMAIN sortedTroves' = 1..(Len(sortedTroves) - 1)
      /\ \A j \in 1..(k - 1) : sortedTroves'[j] = sortedTroves[j]
  BY <1>1, <1>3, PlacesKept
<1>5. tx'.user = GetPrev(b)
  BY <1>1, <1>2 DEF LocalOK, TxRecords
<1>6. CASE k = 1
  <2>1. tx'.user = NONE
    BY <1>5, <1>6 DEF GetPrev
  <2>2. WalkPlace' = 0
    BY <2>1, PlaceIsAfter
  <2>3. QED BY <1>3, <1>6, <2>2
<1>7. CASE k # 1
  <2> HIDE DEF k
  <2>1. tx'.user = sortedTroves[k - 1]
    BY <1>5, <1>7 DEF GetPrev, k
  <2>2. k - 1 \in 1..(k - 1) /\ k - 1 \in DOMAIN sortedTroves'
    BY <1>4, <1>7
  <2>3. tx'.user = sortedTroves'[k - 1]
    BY <1>4, <2>1, <2>2
  <2>4. WalkPlace' = k - 1
    BY <2>2, <2>3, PlaceIsAfter
  <2>5. QED BY <1>3, <2>4 DEF k
<1>8. QED BY <1>6, <1>7

\* A whole redemption leaves the hints for the rest as they were.
LEMMA HintsForWhole ==
    ASSUME IInv, IInv', TrovesOK, TrovesOK', AllCaughtUp,
           NEW b \in Borrowers, RedeemWholeTrove(b), HintsExact
    PROVE  HintsExact' /\ HintsNow'.NICR = HintsNow.NICR
<1> DEFINE k == Position(b)
           r == redemption.remainingLUSD
           n == NetLUSDDebt(b)
           d == AppliedTrove(b).debt
           top == Len(sortedTroves)
<1>1. /\ Looking(b) /\ Redeemable(b) /\ NewDebt(b) = LUSD_GAS_COMPENSATION
      /\ CloseTrove(b, "closedByRedemption") /\ UNCHANGED <<rewards, price>>
      /\ redemption' = Tally(b) /\ tx' = [tx EXCEPT !.user = GetPrev(b)]
  BY DEF RedeemWholeTrove
<1>2. /\ CurrentOK /\ LocalOK /\ Active(b) /\ r \in Nat /\ d \in Nat
      /\ LUSD_GAS_COMPENSATION \in Nat /\ MIN_NET_DEBT \in Nat
  BY <1>1, LookedAt, RedemptionIs, AppliedTroveIs, FloorIs DEF IInv, LocalOK
<1>3. b \in ToSet(sortedTroves)
  BY <1>2, ActiveListed DEF CurrentOK
<1>4. n = d - LUSD_GAS_COMPENSATION /\ Lot(b) = Min2(r, d - LUSD_GAS_COMPENSATION)
      /\ NewDebt(b) = d - Lot(b)
  BY <1>2, NetIs DEF Lot, NewDebt
<1>5. DebtsAreNat /\ DebtsAreNat'
  BY ListedDebts, ListedDebtsAfter
<1>6. PICK w : /\ HintWalk(w, top, r, NetDebts, HintRatios)
               /\ w[k][r].remaining = 0 /\ w[k][r].NICR = HintsNow.NICR
               /\ n <= r => w[k][r] = w[k - 1][r - n]
               /\ ~(n <= r) => r <= n - MIN_NET_DEBT /\ HintsNow.NICR = HintNICR(b, r)
  BY <1>1, HintsHere
<1>7. /\ k \in 1..top /\ top \in Nat /\ Len(sortedTroves') = top - 1
      /\ DOMAIN sortedTroves' = 1..(top - 1)
      /\ \A j \in 1..(k - 1) : /\ sortedTroves'[j] = sortedTroves[j]
                               /\ NetDebts'[j] = NetDebts[j]
                               /\ HintRatios'[j] = HintRatios[j]
  BY <1>1, <1>3, PlacesKept
<1>8. \A j \in 1..top : NetDebts[j] \in Nat
  BY <1>5 DEF DebtsAreNat
<1>9. redemption'.remainingLUSD = r - Lot(b)
  BY <1>1 DEF Tally
<1>10. WalkPlace' = k - 1
  BY WalkGoesOn
<1> HIDE DEF k, r, n, d, top
<1>12. n \in Int /\ n <= r /\ Lot(b) = n
  BY <1>1, <1>2, <1>4, <1>6 DEF Min2
<1>13. n \in Nat
  <2>1. n = NetDebts[k]
    BY <1>3, <1>7, ListedAt, <1>5, <1>2 DEF NetDebts, k, n, top, DebtsAreNat, CurrentOK
  <2>2. QED BY <1>7, <1>8, <2>1
<1> DEFINE rest == r - n
<1>14. rest \in Nat /\ rest <= r /\ redemption'.remainingLUSD = rest
  BY <1>2, <1>9, <1>12, <1>13
<1>15. PICK v : HintsFound(v)'
  <2>1. redemption'.remainingLUSD \in Nat
    BY <1>14
  <2>2. QED BY <1>5, <2>1, NowIsWalkAfter
<1> HIDE DEF rest
<1>16. /\ HintWalk(v, top - 1, rest, NetDebts', HintRatios')
       /\ HintsNow' = Reported(v, k - 1, rest)
  BY <1>7, <1>10, <1>14, <1>15 DEF HintsFound, HintWalk, Reported
<1>17. w[k - 1][rest] = v[k - 1][rest]
  <2>1. k - 1 \in Nat /\ k - 1 <= top /\ k - 1 <= top - 1 /\ top - 1 \in Nat /\ rest <= rest
    BY <1>7, <1>14
  <2>2. \A j \in 1..(k - 1) : /\ NetDebts[j] \in Nat /\ NetDebts[j] = NetDebts'[j]
                              /\ HintRatios[j] = HintRatios'[j]
    <3>1. \A j \in 1..(k - 1) : j \in 1..top
      BY <1>7
    <3>2. QED BY <1>7, <1>8, <3>1
  <2> DEFINE i == k - 1
             m == top - 1
             o == NetDebts'
             p == HintRatios'
  <2>3. /\ HintWalk(w, top, r, NetDebts, HintRatios) /\ HintWalk(v, m, rest, o, p)
        /\ \A j \in 1..i : NetDebts[j] \in Nat /\ NetDebts[j] = o[j] /\ HintRatios[j] = p[j]
    BY <1>6, <1>16, <2>2 DEF top, r, k
  <2> HIDE DEF i, m, o, p
  <2>4. /\ i \in Nat /\ m \in Nat /\ top \in Nat /\ i <= top /\ i <= m
        /\ r \in Nat /\ rest \in Nat /\ rest <= r /\ rest <= rest
    BY <1>2, <1>7, <1>14, <2>1 DEF i, m, r, top
  <2>5. w[i][rest] = v[i][rest]
    BY <2>3, <2>4, WalksAgree
  <2>6. QED BY <2>5 DEF i
<1>18. v[k - 1][rest] = w[k][r]
  BY <1>6, <1>12, <1>17 DEF k, r, n, rest
<1>19. v[k - 1][rest].remaining = 0 /\ v[k - 1][rest].NICR = HintsNow.NICR
  BY <1>6, <1>18 DEF k, r
<1>20. HintsNow'.NICR = HintsNow.NICR /\ HintsNow'.truncated = rest - 0
  BY <1>16, <1>19 DEF Reported
<1>21. HintsNow'.truncated = rest
  BY <1>14, <1>20
<1>22. QED BY <1>14, <1>20, <1>21 DEF HintsExact

\* The hints stay right for every trove the redemption comes to, unless a
\* redistribution raised the debt per unit alone: the hints count a debt that
\* is pending without collateral, and the redemption does not apply it.
THEOREM HintsAreExact == Spec /\ RewardsRiseTogether => HintsStayExact
<1>1. IInv /\ IInv' /\ TrovesOK /\ TrovesOK' /\ AllCaughtUp =>
        [\A b \in Borrowers, amount \in Redemptions :
           /\ BeginRedemption(amount, b) =>
                LET hints == RedemptionHints(Position(b), amount)
                IN  hints.truncated > 0 => RedemptionHints(Position(b), hints.truncated) = hints
           /\ RedeemWholeTrove(b) /\ HintsExact => HintsExact' /\ HintsNow'.NICR = HintsNow.NICR
           /\ RedeemPart(b) /\ HintsExact =>
                redemption'.remainingLUSD = 0 /\ NominalICR(b)' = HintsNow.NICR
           /\ CancelPartial(b) /\ HintsExact => PartialAllowed(b)]_vars
  <2> SUFFICES ASSUME IInv, IInv', TrovesOK, TrovesOK', AllCaughtUp,
                      NEW b \in Borrowers, NEW amount \in Redemptions
               PROVE  /\ BeginRedemption(amount, b) =>
                           RedemptionHints(Position(b),
                                           RedemptionHints(Position(b), amount).truncated)
                             = RedemptionHints(Position(b), amount)
                      /\ RedeemWholeTrove(b) /\ HintsExact =>
                           HintsExact' /\ HintsNow'.NICR = HintsNow.NICR
                      /\ RedeemPart(b) /\ HintsExact =>
                           redemption'.remainingLUSD = 0 /\ NominalICR(b)' = HintsNow.NICR
                      /\ CancelPartial(b) /\ HintsExact => PartialAllowed(b)
    BY Zenon
  <2>1. ASSUME BeginRedemption(amount, b)
        PROVE  RedemptionHints(Position(b), RedemptionHints(Position(b), amount).truncated)
                 = RedemptionHints(Position(b), amount)
    <3>1. b \in ToSet(sortedTroves) /\ amount \in Nat
      BY <2>1, InputsAreNat DEF BeginRedemption, ValidFirstRedemptionHint, FirstAboveMCR
    <3>2. DebtsAreNat
      BY ListedDebts
    <3>3. QED BY <3>1, <3>2, HintsOfTruncated
  <2>2. ASSUME RedeemWholeTrove(b), HintsExact
        PROVE  HintsExact' /\ HintsNow'.NICR = HintsNow.NICR
    BY <2>2, HintsForWhole
  <2>3. ASSUME RedeemPart(b), HintsExact
        PROVE  redemption'.remainingLUSD = 0 /\ NominalICR(b)' = HintsNow.NICR
    <3>1. /\ Looking(b) /\ Redeemable(b) /\ NewDebt(b) # LUSD_GAS_COMPENSATION
          /\ redemption' = Tally(b)
      BY <2>3 DEF RedeemPart
    <3>2. /\ Lot(b) = redemption.remainingLUSD
          /\ HintsNow.NICR = ComputeNominalCR(NewColl(b), NewDebt(b))
      BY <2>3, <3>1, HintsForPart
    <3>3. redemption'.remainingLUSD = 0
      <4>1. redemption.remainingLUSD \in Nat
        BY RedemptionIs DEF IInv, LocalOK
      <4>2. redemption'.remainingLUSD = redemption.remainingLUSD - Lot(b)
        BY <3>1 DEF Tally
      <4>3. QED BY <3>2, <4>1, <4>2
    <3>4. QED BY <2>3, <3>2, <3>3, RatioAfterPart
  <2>4. ASSUME CancelPartial(b), HintsExact PROVE PartialAllowed(b)
    <3>1. Looking(b) /\ Redeemable(b) /\ NewDebt(b) # LUSD_GAS_COMPENSATION
      BY <2>4 DEF CancelPartial
    <3>2. QED BY <2>4, <3>1, HintsForPart
  <2>5. QED BY <2>1, <2>2, <2>3, <2>4
<1>2. QED
  BY <1>1, MemoryInvariant, TrovesInvariant, NobodyFallsBehind, PTL DEF HintsStayExact

-----------------------------------------------------------------------------
(* Whom a redemption may come to *)

\* The list is in the order of the ratios at the present price.
InOrder ==
    \A i, j \in DOMAIN sortedTroves :
        i <= j => CurrentICR(sortedTroves[i]) >= CurrentICR(sortedTroves[j])

\* Redemptions begin when it is.  The rounding of a redistribution may leave
\* two neighbours the other way round.
RedemptionsFindOrder ==
    [][\A b \in Borrowers, amount \in Redemptions : BeginRedemption(amount, b) => InOrder]_vars

\* From the trove that is looked at to the head, nobody is below MCR.
Spared ==
    \A j \in DOMAIN sortedTroves :
        Redeeming /\ redemption.remainingLUSD > 0 /\ tx.user = sortedTroves[j]
          => \A i \in 1..j : CurrentICR(sortedTroves[i]) >= MCR

LEMMA ICRIsNat == IInv => \A b \in Borrowers : CurrentICR(b) \in Nat
<1> SUFFICES ASSUME IInv, NEW b \in Borrowers PROVE CurrentICR(b) \in Nat
  OBVIOUS
<1>1. CurrentOK /\ price \in Nat
  BY ConstantFacts DEF IInv, LocalOK
<1>2. Entire(b).ETH \in Nat /\ Entire(b).LUSDDebt \in Nat
  BY <1>1, PendingAmounts DEF Amounts
<1>3. QED BY <1>1, <1>2, RatioNat DEF CurrentICR

\* Where a redemption begins.
LEMMA BeginSpares ==
    ASSUME IInv, NEW b \in Borrowers, NEW amount, BeginRedemption(amount, b), InOrder
    PROVE  Spared'
<1>1. /\ b \in ToSet(sortedTroves) /\ CurrentICR(b) >= MCR
      /\ UNCHANGED <<book, price>> /\ tx'.user = b
  BY DEF BeginRedemption, ValidFirstRedemptionHint, FirstAboveMCR, IdleTx
<1>2. BookOK(Troves, TroveOwners, sortedTroves) /\ sortedTroves \in Seq(Borrowers)
      /\ DOMAIN sortedTroves = 1..Len(sortedTroves) /\ Len(sortedTroves) \in Nat
  BY LenProperties DEF IInv, CurrentOK, BookOK
<1>3. ASSUME NEW j \in DOMAIN sortedTroves', tx'.user = sortedTroves'[j], NEW i \in 1..j
      PROVE  CurrentICR(sortedTroves[i])' >= MCR
  <2>1. sortedTroves' = sortedTroves /\ j \in DOMAIN sortedTroves /\ sortedTroves[j] = b
    BY <1>1, <1>3 DEF book
  <2>2. i \in DOMAIN sortedTroves /\ i <= j
    BY <1>2, <1>3, <2>1
  <2>3. CurrentICR(sortedTroves[i]) >= CurrentICR(b)
    BY <2>1, <2>2 DEF InOrder
  <2>4. sortedTroves[i] \in Borrowers
    BY <1>2, <2>2, ElementOfSeq
  <2>5. CurrentICR(sortedTroves[i]) \in Nat /\ CurrentICR(b) \in Nat /\ MCR \in Nat
    BY <2>4, ICRIsNat, ConstantFacts
  <2>6. CurrentICR(sortedTroves[i])' = CurrentICR(sortedTroves[i])
    BY <1>1 DEF book, rewards, CurrentICR, Entire, Pending, Active
  <2>7. QED BY <1>1, <2>3, <2>5, <2>6
<1>4. QED BY <1>3 DEF Spared

\* Where it goes on.
LEMMA WholeSpares ==
    ASSUME IInv, IInv', Spared, NEW b \in Borrowers, RedeemWholeTrove(b)
    PROVE  Spared'
<1> DEFINE k == Position(b)
<1>1. b \in ToSet(sortedTroves) /\ WalkPlace' = k - 1
  BY WalkGoesOn
<1>2. /\ Looking(b) /\ CloseTrove(b, "closedByRedemption") /\ UNCHANGED <<rewards, price>>
  BY DEF RedeemWholeTrove
<1>3. /\ k \in 1..Len(sortedTroves) /\ Len(sortedTroves) \in Nat
      /\ \A i \in 1..(k - 1) : /\ sortedTroves'[i] = sortedTroves[i]
                               /\ CurrentICR(sortedTroves[i])' = CurrentICR(sortedTroves[i])
  BY <1>1, <1>2, PlacesKept
<1>4. \A i \in 1..k : CurrentICR(sortedTroves[i]) >= MCR
  <2>1. BookOK(Troves, TroveOwners, sortedTroves)
    BY DEF IInv, CurrentOK
  <2>2. sortedTroves[k] = b /\ k \in DOMAIN sortedTroves
    BY <1>1, <1>3, <2>1, ListedAt, LenProperties DEF BookOK
  <2> HIDE DEF k
  <2>3. QED BY <1>2, <2>2 DEF Spared, Looking
<1> HIDE DEF k
<1>5. ASSUME NEW j \in DOMAIN sortedTroves', tx'.user = sortedTroves'[j], NEW i \in 1..j
      PROVE  CurrentICR(sortedTroves[i])' >= MCR
  <2>1. j = k - 1
    BY <1>1, <1>5, PlaceIsAfter
  <2>2. i \in 1..(k - 1) /\ i \in 1..k
    BY <1>3, <1>5, <2>1
  <2>3. QED BY <1>3, <1>4, <2>2
<1>6. QED BY <1>5 DEF Spared

\* Only the steps of a redemption lead to where one looks at troves.
LEMMA SparedStep ==
    ASSUME IInv, IInv', Spared, [Next]_vars,
           \A b \in Borrowers, amount \in Redemptions : BeginRedemption(amount, b) => InOrder
    PROVE  Spared'
<1>0. CurrentOK /\ LocalOK
  BY DEF IInv
<1>1. CASE ~Redeeming'
  BY <1>1 DEF Spared
<1>2. CASE BorrowerStep \/ EnvironmentStep
  <2>1. Idle /\ tx' = tx
    BY <1>2, OneStepTransactions DEF local
  <2>2. QED BY <1>1, <2>1 DEF Idle, Redeeming
<1>3. CASE LiquidationStep
  <2>1. ASSUME NEW op \in {"sequence", "batch"}, BeginLiquidation(op) PROVE ~Redeeming'
    BY <2>1 DEF BeginLiquidation, Redeeming
  <2>2. ASSUME NEW b \in Borrowers,
               LiquidateInRecoveryMode(b) \/ PassOver(b) \/ LiquidateInNormalMode(b)
        PROVE  ~Redeeming'
    <3>1. tx'.op = tx.op
      BY <1>0, <2>2, SameOperation
    <3>2. Liquidating
      BY <2>2 DEF LiquidateInRecoveryMode, PassOver, LiquidateInNormalMode, InRecovery
    <3>3. QED BY <3>1, <3>2 DEF Liquidating, Redeeming
  <2>3. CASE FinishLiquidation
    BY <2>3, <1>1 DEF FinishLiquidation, Return, IdleTx, Redeeming
  <2>4. QED BY <1>1, <1>3, <2>1, <2>2, <2>3 DEF LiquidationStep
<1>4. CASE RedemptionStep
  <2>1. ASSUME NEW b \in Borrowers, NEW amount \in Redemptions, BeginRedemption(amount, b)
        PROVE  Spared'
    BY <2>1, BeginSpares
  <2>2. ASSUME NEW b \in Borrowers, RedeemWholeTrove(b) PROVE Spared'
    BY <2>2, WholeSpares
  <2>3. ASSUME NEW b \in Borrowers, RedeemPart(b) PROVE Spared'
    <3>1. /\ Looking(b) /\ Redeemable(b) /\ NewDebt(b) # LUSD_GAS_COMPENSATION
          /\ redemption' = Tally(b)
      BY <2>3 DEF RedeemPart
    <3>2. redemption.remainingLUSD \in Nat /\ LUSD_GAS_COMPENSATION \in Nat /\ AppliedTrove(b).debt \in Nat
      BY <1>0, RedemptionIs, ConstantFacts, AppliedTroveIs DEF LocalOK
    <3>3. Lot(b) = redemption.remainingLUSD
      BY <3>1, <3>2 DEF NewDebt, Lot, Min2
    <3>4. redemption'.remainingLUSD = 0
      BY <3>1, <3>2, <3>3 DEF Tally
    <3>5. QED BY <3>4 DEF Spared
  <2>4. ASSUME NEW b \in Borrowers, CancelPartial(b) PROVE Spared'
    <3>1. tx'.user = NONE
      BY <1>0, <2>4 DEF CancelPartial, LocalOK, TxRecords
    <3>2. sortedTroves' \in Seq(Borrowers)
      BY DEF IInv, CurrentOK, BookOK
    <3>3. \A j \in DOMAIN sortedTroves' : sortedTroves'[j] # NONE
      BY <3>2, ElementOfSeq, BorrowersAssumption
    <3>4. QED BY <3>1, <3>3 DEF Spared
  <2>5. CASE FinishRedemption
    BY <2>5, <1>1 DEF FinishRedemption, Return, IdleTx, Redeeming
  <2>6. QED BY <1>4, <2>1, <2>2, <2>3, <2>4, <2>5 DEF RedemptionStep
<1>5. CASE Revert
  BY <1>5, <1>1 DEF Revert, IdleTx, Redeeming
<1>6. CASE UNCHANGED vars
  BY <1>6 DEF vars, book, local, rewards, Spared, Redeeming, CurrentICR, Entire, Pending, Active
<1>7. QED BY <1>2, <1>3, <1>4, <1>5, <1>6 DEF Next

\* BorrowerOperations!RedemptionSparesRisky: a redemption that begins when the
\* list is in order takes nothing from a trove below MCR, however far it walks:
\* wherever the caller's hint or the search from the tail lets it start, the
\* troves that getPrev leads to were at or above MCR then, and still are.
THEOREM RedemptionsSpareTheRisky == Spec /\ RedemptionsFindOrder => RedemptionSparesRisky
<1>1. Init => Spared
  <2> SUFFICES ASSUME Init PROVE Spared
    OBVIOUS
  <2>1. tx = IdleTx
    BY DEF Init
  <2>2. QED BY <2>1 DEF Spared, IdleTx, Redeeming
<1>2. IInv /\ IInv' /\ Spared /\ [Next]_vars
      /\ [\A b \in Borrowers, amount \in Redemptions : BeginRedemption(amount, b) => InOrder]_vars
        => Spared'
  <2> SUFFICES ASSUME IInv, IInv', Spared, [Next]_vars,
                      [\A b \in Borrowers, amount \in Redemptions :
                         BeginRedemption(amount, b) => InOrder]_vars
               PROVE  Spared'
    BY Zenon
  <2>1. CASE UNCHANGED vars
    BY <2>1 DEF vars, book, local, rewards, Spared, Redeeming, CurrentICR, Entire, Pending, Active
  <2>2. CASE ~UNCHANGED vars
    BY <2>2, SparedStep, Zenon
  <2>3. QED BY <2>1, <2>2
<1>3. IInv /\ Spared =>
        [\A b \in Borrowers :
           RedeemWholeTrove(b) \/ RedeemPart(b) => CurrentICR(b) >= MCR]_vars
  <2> SUFFICES ASSUME IInv, Spared, NEW b \in Borrowers, RedeemWholeTrove(b) \/ RedeemPart(b)
               PROVE  CurrentICR(b) >= MCR
    OBVIOUS
  <2>1. Looking(b) /\ Redeemable(b)
    BY DEF RedeemWholeTrove, RedeemPart
  <2>2. BookOK(Troves, TroveOwners, sortedTroves) /\ Active(b)
    BY <2>1, LookedAt DEF IInv, CurrentOK
  <2>3. PICK k \in DOMAIN sortedTroves : sortedTroves[k] = b
    BY <2>2, ActiveListed DEF ToSet
  <2>4. k \in 1..k
    BY <2>2, <2>3, LenProperties DEF BookOK
  <2>5. QED BY <2>1, <2>3, <2>4 DEF Spared, Looking
<1>4. QED
  BY <1>1, <1>2, <1>3, LedgerInvariant, PTL DEF Spec, RedemptionsFindOrder, RedemptionSparesRisky
=============================================================================
