----------------------------- MODULE StoreProofs ------------------------------
(***************************************************************************)
(* Safety of the polled store and of the reads through its cache, for      *)
(* every length of the chain and every number of starts and failures.      *)
(***************************************************************************)
EXTENDS BlockPolledLiquityStore, TLAPS

IsFieldwise(state) == state = [f \in Fields |-> state[f]]

AtBlock(b) == [f \in Fields |-> ValueAt(f, b)]

\* A read of a tagged block has only one possible result, even while it is underway.
GetOK(g) ==
    /\ g = [tag |-> g.tag, got |-> g.got]
    /\ g.tag \in {None} \union 0 .. head
    /\ g.tag # None => g.got = AtBlock(g.tag)
    /\ g.got = [f \in DOMAIN g.got |-> g.got[f]]

StoreInv ==
    /\ head \in Nat
    /\ \A g \in gets : GetOK(g)
    /\ blockTag \in {None} \union 0 .. head
    /\ blockTag # None => loaded
    /\ loaded => IsFieldwise(baseState)
    /\ StateBelongsToItsBlock

\* Who applies all changes to what he has gets what there is.
LEMMA PatchedDifference ==
    ASSUME NEW b1, NEW d1, NEW t1, NEW b2, NEW d2, NEW t2
    PROVE  LET old == State(b1, d1, t1)
               new == State(b2, d2, t2)
           IN Patched(old, Difference(new, old)) = new
<1> DEFINE old == State(b1, d1, t1)
           new == State(b2, d2, t2)
           parts == {"base", "derived", "blockTag"}
<1>1. DOMAIN old = parts /\ DOMAIN new = parts /\ new = [p \in parts |-> new[p]]
  BY DEF State
<1> HIDE DEF old, new, parts
<1>2. Patched(old, Difference(new, old)) = [p \in parts |-> new[p]]
  BY <1>1 DEF Patched, Difference
<1>3. QED BY <1>1, <1>2 DEF old, new

\* A load makes the store, and a subscriber's copy, the state of its tag.
LEMMA LoadKeepsBlock ==
    ASSUME StoreInv, NEW g \in gets, DOMAIN g.got = Fields, Load(g.got, g.tag), head' = head
    PROVE  /\ blockTag' \in {None} \union 0 .. head'
           /\ loaded' /\ IsFieldwise(baseState)' /\ StateBelongsToItsBlock'
<1>1. GetOK(g)
  BY DEF StoreInv
<1>2. /\ loaded' = TRUE /\ baseState' = g.got /\ derivedState' = Derive(g.got)
      /\ blockTag' = g.tag /\ copy' = State(g.got, Derive(g.got), g.tag)
  BY DEF Load
<1>3. g.tag # None => \A f \in Fields : g.got[f] = ValueAt(f, g.tag)
  BY <1>1 DEF GetOK, AtBlock
<1>4. QED
  BY <1>1, <1>2, <1>3 DEF GetOK, IsFieldwise, StateBelongsToItsBlock

LEMMA UpdateKeepsBlock ==
    ASSUME StoreInv, NEW update, NEW tag \in {None} \union 0 .. head, Update(update, tag),
           head' = head, update = IF tag = None THEN <<>> ELSE AtBlock(tag)
    PROVE  /\ blockTag' \in {None} \union 0 .. head'
           /\ loaded' /\ IsFieldwise(baseState)' /\ StateBelongsToItsBlock'
<1> DEFINE base == Reduce(baseState, update)
           newTag == IF tag # None THEN tag ELSE blockTag
<1>1. /\ loaded /\ loaded' = loaded
      /\ baseState' = base /\ derivedState' = Derive(base) /\ blockTag' = newTag
      /\ copy' = Patched(copy, Difference(State(base, Derive(base), newTag),
                                          State(baseState, derivedState, blockTag)))
  BY DEF Update, State
<1>2. IsFieldwise(base) /\ base = [f \in Fields |-> base[f]]
  BY DEF Reduce, IsFieldwise
<1>3. copy = State(baseState, derivedState, blockTag)
  BY <1>1 DEF StoreInv, StateBelongsToItsBlock
<1>4. copy' = State(base, Derive(base), newTag)
  <2> HIDE DEF base, newTag
  <2>1. QED BY <1>1, <1>3, PatchedDifference
<1>5. \A f \in Fields : base[f] = IF tag = None THEN baseState[f] ELSE ValueAt(f, tag)
  <2>1. CASE tag = None
    <3>1. DOMAIN update = {}
      BY <2>1
    <3>2. QED BY <2>1, <3>1 DEF Reduce
  <2>2. CASE tag # None
    <3>1. DOMAIN update = Fields /\ \A f \in Fields : update[f] = ValueAt(f, tag)
      BY <2>2 DEF AtBlock
    <3>2. QED BY <2>2, <3>1 DEF Reduce
  <2>3. QED BY <2>1, <2>2
<1>6. newTag # None => \A f \in Fields : base[f] = ValueAt(f, newTag)
  BY <1>1, <1>5 DEF StoreInv, StateBelongsToItsBlock
<1>7. newTag \in {None} \union 0 .. head
  BY DEF StoreInv
<1> HIDE DEF base, newTag
<1>8. QED
  BY <1>1, <1>2, <1>4, <1>6, <1>7 DEF StateBelongsToItsBlock, IsFieldwise

\* What does not touch the store keeps it, if the reads underway stay sound.
LEMMA StoreUntouched ==
    ASSUME StoreInv, UNCHANGED <<loaded, baseState, derivedState, blockTag, copy>>,
           head' \in Nat, head <= head', \A g \in gets' : GetOK(g)'
    PROVE  StoreInv'
<1>1. blockTag \in {None} \union 0 .. head'
  BY DEF StoreInv
<1>2. QED BY <1>1 DEF StoreInv, IsFieldwise, StateBelongsToItsBlock

LEMMA NewGet ==
    ASSUME head \in Nat, NEW tag \in {None, head}
    PROVE  GetOK(Get(tag))
<1>1. CASE tag = None
  <2>1. Get(tag) = [tag |-> None, got |-> <<>>]
    BY <1>1 DEF Get
  <2>2. <<>> = [f \in DOMAIN <<>> |-> <<>>[f]]
    OBVIOUS
  <2>3. QED BY <2>1, <2>2 DEF GetOK
<1>2. CASE tag # None
  <2>1. Get(tag) = [tag |-> tag, got |-> AtBlock(tag)]
    BY <1>2 DEF Get, AtBlock
  <2>2. AtBlock(tag) = [f \in DOMAIN AtBlock(tag) |-> AtBlock(tag)[f]]
    BY DEF AtBlock
  <2>3. tag \in 0 .. head
    BY <1>2
  <2>4. QED BY <2>1, <2>2, <2>3 DEF GetOK
<1>3. QED BY <1>1, <1>2

\* Only the untagged read waits for answers.
LEMMA AnswerKeepsStore ==
    ASSUME StoreInv, NEW g \in gets, NEW field \in Fields, Answer(g, field)
    PROVE  StoreInv'
<1> DEFINE got == [f \in DOMAIN g.got \union {field} |->
                      IF f = field THEN ValueAt(f, head) ELSE g.got[f]]
<1>1. /\ field \notin DOMAIN g.got
      /\ gets' = (gets \ {g}) \union {[g EXCEPT !.got = got]}
      /\ UNCHANGED <<storeVars, head>>
  BY DEF Answer
<1>2. GetOK(g)
  BY DEF StoreInv
<1>3. g.tag = None
  BY <1>1, <1>2 DEF GetOK, AtBlock
<1>4. got = [f \in DOMAIN got |-> got[f]]
  OBVIOUS
<1> HIDE DEF got
<1>5. [g EXCEPT !.got = got] = [tag |-> None, got |-> got]
  BY <1>2, <1>3 DEF GetOK
<1>6. GetOK([g EXCEPT !.got = got])
  BY <1>4, <1>5 DEF GetOK
<1>7. \A q \in gets' : GetOK(q)'
  BY <1>1, <1>6 DEF StoreInv, GetOK
<1>8. QED
  BY <1>1, <1>7, StoreUntouched DEF storeVars, StoreInv

LEMMA GotKeepsStore ==
    ASSUME StoreInv, NEW g \in gets, Got(g)
    PROVE  StoreInv'
<1>1. /\ DOMAIN g.got = Fields /\ gets' = gets \ {g} /\ UNCHANGED head
  BY DEF Got
<1>2. GetOK(g) /\ \A q \in gets' : GetOK(q)'
  BY <1>1 DEF StoreInv, GetOK
<1>3. CASE ~loaded
  <2>1. Load(g.got, g.tag)
    BY <1>3 DEF Got
  <2>2. QED BY <1>1, <1>2, <2>1, LoadKeepsBlock DEF StoreInv
<1>4. CASE loaded /\ g.tag = None
  <2>1. UNCHANGED storeVars
    BY <1>4 DEF Got
  <2>2. QED BY <1>1, <1>2, <2>1, StoreUntouched DEF storeVars, StoreInv
<1>5. CASE loaded /\ g.tag # None
  <2>1. Update(g.got, g.tag)
    BY <1>5 DEF Got
  <2>2. g.got = AtBlock(g.tag) /\ g.tag \in {None} \union 0 .. head
    BY <1>2, <1>5 DEF GetOK
  <2>3. QED BY <1>1, <1>2, <1>5, <2>1, <2>2, UpdateKeepsBlock DEF StoreInv
<1>6. QED BY <1>3, <1>4, <1>5

LEMMA StoreStep ==
    ASSUME StoreInv, [Next]_vars
    PROVE  StoreInv'
<1>1. CASE NewBlock
  <2>1. head' = head + 1 /\ UNCHANGED <<storeVars, gets>>
    BY <1>1 DEF NewBlock
  <2>2. head \in Nat /\ 0 .. head \subseteq 0 .. head'
    BY <2>1 DEF StoreInv
  <2>3. \A g \in gets' : GetOK(g)'
    BY <2>1, <2>2 DEF StoreInv, GetOK
  <2>4. QED BY <2>1, <2>2, <2>3, StoreUntouched DEF storeVars, StoreInv
<1>2. CASE Start \/ BlockListener
  <2>1. PICK tag \in {None, head} : gets' = gets \union {Get(tag)}
    BY <1>2 DEF Start, BlockListener
  <2>2. UNCHANGED <<storeVars, head>>
    BY <1>2 DEF Start, BlockListener
  <2>3. GetOK(Get(tag))
    BY NewGet DEF StoreInv
  <2>4. \A g \in gets' : GetOK(g)'
    BY <2>1, <2>2, <2>3 DEF StoreInv, GetOK
  <2>5. QED BY <2>2, <2>4, StoreUntouched DEF storeVars, StoreInv
<1>3. CASE Stop
  <2>1. UNCHANGED <<loaded, baseState, derivedState, blockTag, copy, head, gets>>
    BY <1>3 DEF Stop
  <2>2. QED BY <2>1, StoreUntouched DEF StoreInv, GetOK
<1>4. ASSUME NEW g \in gets, GetStep(g) \/ Fail(g)
      PROVE  StoreInv'
  <2>1. CASE Fail(g)
    <3>1. gets' = gets \ {g} /\ UNCHANGED <<storeVars, head>>
      BY <2>1 DEF Fail
    <3>2. QED BY <3>1, StoreUntouched DEF storeVars, StoreInv, GetOK
  <2>2. QED BY <1>4, <2>1, AnswerKeepsStore, GotKeepsStore DEF GetStep
<1>5. CASE UpdateTimer
  <2>1. Update(<<>>, None) /\ UNCHANGED others
    BY <1>5 DEF UpdateTimer
  <2>2. head' = head /\ gets' = gets
    BY <2>1 DEF others
  <2>3. /\ blockTag' \in {None} \union 0 .. head'
        /\ loaded' /\ IsFieldwise(baseState)' /\ StateBelongsToItsBlock'
    BY <2>1, <2>2, UpdateKeepsBlock
  <2>4. QED BY <2>2, <2>3 DEF StoreInv, GetOK
<1>6. ASSUME UNCHANGED <<storeVars, head, gets>>
      PROVE  StoreInv'
  BY <1>6, StoreUntouched DEF storeVars, StoreInv, GetOK
<1>7. ASSUME NEW own, NEW tag, GetTrove(own, tag)
      PROVE  StoreInv'
  BY <1>6, <1>7 DEF GetTrove
<1>8. CASE (\E f \in {"trove", "redistributed"} : ChainAnswers(f)) \/ Apply
  BY <1>6, <1>8 DEF ChainAnswers, Apply
<1>9. CASE Event \/ Debounced \/ Report \/ LoseRead
  BY <1>6, <1>9 DEF Event, Debounced, Report, LoseRead
<1>10. CASE UNCHANGED vars
  BY <1>6, <1>10 DEF vars
<1>11. QED
  BY <1>1, <1>2, <1>3, <1>4, <1>5, <1>7, <1>8, <1>9, <1>10 DEF Next

LEMMA StoreInit ==
    ASSUME Init
    PROVE  StoreInv
<1>1. head = 0 /\ gets = {} /\ loaded = FALSE /\ blockTag = None
  BY DEF Init, NotLoaded
<1>2. QED BY <1>1 DEF StoreInv, StateBelongsToItsBlock

\* Whichever reads overtake each other, fail or arrive late: the state is that of
\* the block it is tagged with, and subscribers have it.
THEOREM StoreIsOneBlock == Spec => []StateBelongsToItsBlock
<1>1. Init => StoreInv
  BY StoreInit
<1>2. StoreInv /\ [Next]_vars => StoreInv'
  BY StoreStep
<1>3. StoreInv => StateBelongsToItsBlock
  BY DEF StoreInv
<1>4. QED BY <1>1, <1>2, <1>3, PTL DEF Spec

(********************************** cache **********************************)

\* What a read for one block may still have to ask the chain for.
Awaited == IF query.stage = "asked" /\ query.tag # None THEN {None} ELSE {}

\* Both halves of a read come from one block as soon as they are there.
QueryInv ==
    query.stage \in {"asked", "done"} =>
        /\ query = [stage |-> query.stage, tag |-> query.tag, oneBlock |-> query.oneBlock,
                    trove |-> query.trove, redistributed |-> query.redistributed]
        /\ query.tag \in {None} \union 0 .. head
        /\ query.oneBlock =>
             \E b \in IF query.tag # None THEN {query.tag} ELSE 0 .. head :
                 /\ query.trove \in {ValueAt("trove", b)} \union Awaited
                 /\ query.redistributed \in {ValueAt("redistributed", b)} \union Awaited

LEMMA ValuesAreThere ==
    ASSUME NEW f \in Fields, NEW b
    PROVE  ValueAt(f, b) # None
BY NoneAssumption DEF Fields, ValueAt

\* Either the store has the block that is asked for, or the chain is asked for it.
LEMMA GetTroveReadsOneBlock ==
    ASSUME StoreInv, NEW own \in BOOLEAN, NEW tag \in {None} \union 0 .. head,
           GetTrove(own, tag)
    PROVE  QueryInv'
<1> DEFINE trove == IF UserHit(own, tag) THEN baseState.trove ELSE None
           red == IF BlockHit(tag) THEN baseState.redistributed ELSE None
           one == tag # None \/ (own /\ blockTag # None)
<1>1. /\ query' = [stage |-> "asked", tag |-> tag, oneBlock |-> one,
                   trove |-> trove, redistributed |-> red]
      /\ UNCHANGED head
  BY DEF GetTrove
<1>2. blockTag # None =>
        /\ loaded /\ blockTag \in 0 .. head
        /\ baseState.trove = ValueAt("trove", blockTag)
        /\ baseState.redistributed = ValueAt("redistributed", blockTag)
  <2>1. SUFFICES ASSUME blockTag # None
                 PROVE  /\ loaded /\ blockTag \in 0 .. head
                        /\ \A f \in Fields : baseState[f] = ValueAt(f, blockTag)
    BY DEF Fields
  <2>2. QED BY <2>1 DEF StoreInv, StateBelongsToItsBlock
<1>3. CASE tag # None
  <2>1. /\ trove \in {ValueAt("trove", tag), None}
        /\ red \in {ValueAt("redistributed", tag), None}
    BY <1>2, <1>3 DEF UserHit, BlockHit
  <2> HIDE DEF trove, red, one
  <2>2. Awaited' = {None} /\ query'.tag = tag
    BY <1>1, <1>3 DEF Awaited
  <2>3. QED BY <1>1, <1>3, <2>1, <2>2 DEF QueryInv
<1>4. CASE tag = None
  <2>1. one => /\ blockTag \in 0 .. head
               /\ trove = ValueAt("trove", blockTag)
               /\ red = ValueAt("redistributed", blockTag)
    BY <1>2, <1>4 DEF UserHit, BlockHit
  <2> HIDE DEF trove, red, one
  <2>2. QED BY <1>1, <1>4, <2>1 DEF QueryInv
<1>5. QED BY <1>3, <1>4

LEMMA ChainAnswersOneBlock ==
    ASSUME QueryInv, NEW field \in {"trove", "redistributed"}, ChainAnswers(field)
    PROVE  QueryInv'
<1> DEFINE value == ValueAt(field, AtTag(query.tag))
<1>1. /\ query.stage = "asked" /\ query[field] = None /\ UNCHANGED head
      /\ query' = [query EXCEPT ![field] = value]
  BY DEF ChainAnswers
<1> HIDE DEF value
<1>2. query = [stage |-> query.stage, tag |-> query.tag, oneBlock |-> query.oneBlock,
               trove |-> query.trove, redistributed |-> query.redistributed]
  BY <1>1 DEF QueryInv
<1>3. query' = [stage |-> "asked", tag |-> query.tag, oneBlock |-> query.oneBlock,
                trove |-> IF field = "trove" THEN value ELSE query.trove,
                redistributed |-> IF field = "trove" THEN query.redistributed ELSE value]
  BY <1>1, <1>2
<1>4. Awaited' = Awaited
  BY <1>1, <1>3 DEF Awaited
<1>5. CASE ~query.oneBlock
  BY <1>1, <1>3, <1>5 DEF QueryInv
<1>6. CASE query.oneBlock
  <2>1. PICK b \in (IF query.tag # None THEN {query.tag} ELSE 0 .. head) :
           /\ query.trove \in {ValueAt("trove", b)} \union Awaited
           /\ query.redistributed \in {ValueAt("redistributed", b)} \union Awaited
    BY <1>1, <1>6 DEF QueryInv
  <2>2. query.tag # None
    <3>1. field \in Fields /\ query[field] \in {ValueAt(field, b)} \union Awaited
      BY <2>1 DEF Fields
    <3>2. QED BY <1>1, <3>1, ValuesAreThere DEF Awaited
  <2>3. b = query.tag /\ value = ValueAt(field, b)
    BY <2>1, <2>2 DEF value, AtTag
  <2>4. QED BY <1>1, <1>3, <1>4, <2>1, <2>2, <2>3 DEF QueryInv
<1>7. QED BY <1>5, <1>6

LEMMA ApplyReadsOneBlock ==
    ASSUME QueryInv, Apply
    PROVE  QueryInv'
<1>1. /\ query.stage = "asked" /\ query.trove # None /\ query.redistributed # None
      /\ UNCHANGED head /\ query' = [query EXCEPT !.stage = "done"]
  BY DEF Apply
<1>2. query' = [stage |-> "done", tag |-> query.tag, oneBlock |-> query.oneBlock,
                trove |-> query.trove, redistributed |-> query.redistributed]
  BY <1>1 DEF QueryInv
<1>3. query.oneBlock =>
        \E b \in IF query.tag # None THEN {query.tag} ELSE 0 .. head :
            /\ query.trove = ValueAt("trove", b)
            /\ query.redistributed = ValueAt("redistributed", b)
  BY <1>1 DEF QueryInv, Awaited
<1>4. QED BY <1>1, <1>2, <1>3 DEF QueryInv

LEMMA QueryStep ==
    ASSUME StoreInv, QueryInv, [Next]_vars
    PROVE  QueryInv'
<1>1. ASSUME UNCHANGED query, head' \in {head, head + 1}
      PROVE  QueryInv'
  <2>1. 0 .. head \subseteq 0 .. head'
    BY <1>1 DEF StoreInv
  <2>2. Awaited' = Awaited
    BY <1>1 DEF Awaited
  <2>3. QED BY <1>1, <2>1, <2>2 DEF QueryInv
<1>2. CASE NewBlock \/ Start \/ Stop \/ BlockListener
  BY <1>1, <1>2 DEF NewBlock, Start, Stop, BlockListener
<1>3. ASSUME NEW g, GetStep(g) \/ Fail(g)
      PROVE  QueryInv'
  BY <1>1, <1>3 DEF GetStep, Got, Answer, Fail
<1>4. CASE UpdateTimer
  BY <1>1, <1>4 DEF UpdateTimer, others
<1>5. CASE Event \/ Debounced \/ Report \/ LoseRead
  BY <1>1, <1>5 DEF Event, Debounced, Report, LoseRead
<1>6. CASE UNCHANGED vars
  BY <1>1, <1>6 DEF vars
<1>7. QED
  BY <1>2, <1>3, <1>4, <1>5, <1>6, GetTroveReadsOneBlock, ChainAnswersOneBlock,
     ApplyReadsOneBlock DEF Next

\* A trove and the redistribution that is applied to it are of one block, the one
\* that was asked for, however the store moves on between the two answers.
THEOREM CachedReadsAreOneBlock == Spec => []ReadsOneBlock
<1>1. Init => StoreInv /\ QueryInv
  <2>1. Init => query.stage \in {"none", "never"}
    BY DEF Init
  <2>2. QED BY <2>1, StoreInit DEF QueryInv
<1>2. StoreInv /\ QueryInv /\ [Next]_vars => (StoreInv /\ QueryInv)'
  BY StoreStep, QueryStep
<1>3. QueryInv => ReadsOneBlock
  BY DEF QueryInv, ReadsOneBlock, Awaited
<1>4. QED BY <1>1, <1>2, <1>3, PTL DEF Spec
=============================================================================
