------------------------ MODULE BlockPolledLiquityStore ------------------------
(****************************************************************************)
(* lib-ethers' store reads its whole state again at every block.  All reads *)
(* are asynchronous and answered one by one.  Beside it: reads through the  *)
(* cache that is made of the store, and the debounced watchers of events.   *)
(****************************************************************************)
EXTENDS LiquityStore

CONSTANTS
    MaxBlock,       \* bound on the chain; its last block stands for all later ones
    MaxStarts,      \* bound on how often the store is started
    MaxFailures     \* bound on the reads that fail, a store's or a watcher's

VARIABLES
    head,           \* the chain's latest block
    listening,      \* blockListener is on
    gets,           \* calls of _get underway
    starts, failures,
    query,          \* a read of a trove through the cache
    watch           \* a watcher of the trove's events

vars == <<storeVars, head, listening, gets, starts, failures, query, watch>>
others == <<head, listening, gets, starts, failures, query, watch>>

Blocks == 0 .. MaxBlock

\* Some history in which the trove changes first, what is redistributed next, and
\* the price comes back.  Blocks after the third change nothing.
ValueAt(field, b) ==
    CASE field = "trove"         -> IF b >= 1 THEN 1 ELSE 0
      [] field = "redistributed" -> IF b >= 2 THEN 1 ELSE 0
      [] field = "price"         -> IF b = 1 THEN 6 ELSE 5

AtTag(tag) == IF tag = None THEN head ELSE tag

(********************************** store **********************************)

\* The answers at a tag do not depend on when they come, the others do.
Get(tag) ==
    [tag |-> tag,
     got |-> IF tag = None THEN <<>> ELSE [f \in Fields |-> ValueAt(f, tag)]]

\* start and its _doStart: a read of whatever is the latest, then one for each block.
Start ==
    /\ ~listening /\ starts < MaxStarts
    /\ starts' = starts + 1
    /\ listening' = TRUE
    /\ gets' = gets \union {Get(None)}
    /\ UNCHANGED <<storeVars, head, failures, query, watch>>

\* The function that start has returned.  Reads underway are not given up.
Stop ==
    /\ listening
    /\ listening' = FALSE
    /\ updateTimer' = FALSE
    /\ UNCHANGED <<loaded, baseState, derivedState, blockTag, copy,
                   head, gets, starts, failures, query, watch>>

MutBlockListener ==    \* broken: only a loaded store reads at a block
    /\ listening /\ head > 0 /\ loaded
    /\ ~\E g \in gets : g.tag = head
    /\ gets' = gets \union {Get(head)}
    /\ UNCHANGED <<storeVars, head, listening, starts, failures, query, watch>>

\* Bounded: the last block is not read again while a read of it is underway.
BlockListener ==
    /\ listening /\ head > 0
    /\ ~\E g \in gets : g.tag = head
    /\ gets' = gets \union {Get(head)}
    /\ UNCHANGED <<storeVars, head, listening, starts, failures, query, watch>>

\* One of the parallel reads is answered, at what is the latest block then.
Answer(g, field) ==
    /\ field \notin DOMAIN g.got
    /\ gets' = (gets \ {g}) \union
               {[g EXCEPT !.got = [f \in DOMAIN g.got \union {field} |->
                     IF f = field THEN ValueAt(f, head) ELSE g.got[f]]]}
    /\ UNCHANGED <<storeVars, head, listening, starts, failures, query, watch>>

\* One of them fails, and with it all of _get.
Fail(g) ==
    /\ failures < MaxFailures
    /\ failures' = failures + 1
    /\ gets' = gets \ {g}
    /\ UNCHANGED <<storeVars, head, listening, starts, query, watch>>

MutGot(g) ==    \* broken: the first read is used although a block's was faster
    /\ DOMAIN g.got = Fields
    /\ gets' = gets \ {g}
    /\ IF loaded THEN Update(g.got, g.tag) ELSE Load(g.got, g.tag)
    /\ UNCHANGED <<head, listening, starts, failures, query, watch>>

\* All answers are there.  The first read only loads; a block's loads or updates.
Got(g) ==
    /\ DOMAIN g.got = Fields
    /\ gets' = gets \ {g}
    /\ CASE ~loaded              -> Load(g.got, g.tag)
         [] loaded /\ g.tag = None -> UNCHANGED storeVars
         [] loaded /\ g.tag # None -> Update(g.got, g.tag)
    /\ UNCHANGED <<head, listening, starts, failures, query, watch>>

\* 30 seconds without an update: rates are derived again from the same base.
UpdateTimer ==
    /\ updateTimer
    /\ Update(<<>>, None)
    /\ UNCHANGED others

(********************************** cache **********************************)

MutBlockHit(tag) == loaded    \* broken: the tag is not compared

\* A value of the store is used unless another block was asked for.
BlockHit(tag) == loaded /\ (tag # None => tag = blockTag)

UserHit(own, tag) == BlockHit(tag) /\ own

\* getTrove asks for the trove and for the redistribution at once.  What the cache
\* does not have is read from the chain.
GetTrove(own, tag) ==
    /\ query.stage \in {"none", "done"} /\ ~watch.on
    /\ query' = [stage |-> "asked", tag |-> tag,
                 oneBlock |-> tag # None \/ (own /\ blockTag # None),
                 trove |-> IF UserHit(own, tag) THEN baseState.trove ELSE None,
                 redistributed |-> IF BlockHit(tag) THEN baseState.redistributed ELSE None]
    /\ UNCHANGED <<storeVars, head, listening, gets, starts, failures, watch>>

ChainAnswers(field) ==
    /\ query.stage = "asked" /\ query[field] = None
    /\ query' = [query EXCEPT ![field] = ValueAt(field, AtTag(query.tag))]
    /\ UNCHANGED <<storeVars, head, listening, gets, starts, failures, watch>>

Apply ==
    /\ query.stage = "asked" /\ query.trove # None /\ query.redistributed # None
    /\ query' = [query EXCEPT !.stage = "done"]
    /\ UNCHANGED <<storeVars, head, listening, gets, starts, failures, watch>>

(********************************* watchers ********************************)

MutEvent ==    \* broken: the block of the last event counts, not the latest one
    /\ watch.due # {}
    /\ \E b \in watch.due :
          watch' = [watch EXCEPT !.due = @ \ {b}, !.timer = TRUE, !.latestBlock = b]
    /\ UNCHANGED <<storeVars, head, listening, gets, starts, failures, query>>

\* debounce: the latest block counts, and the timer starts again.
Event ==
    /\ watch.due # {}
    /\ \E b \in watch.due :
          watch' = [watch EXCEPT !.due = @ \ {b}, !.timer = TRUE,
                                 !.latestBlock = IF b > @ THEN b ELSE @]
    /\ UNCHANGED <<storeVars, head, listening, gets, starts, failures, query>>

Debounced ==
    /\ watch.timer
    /\ watch' = [watch EXCEPT !.timer = FALSE, !.reads = @ \union {watch.latestBlock}]
    /\ UNCHANGED <<storeVars, head, listening, gets, starts, failures, query>>

Report ==
    \E tag \in watch.reads :
        /\ watch' = [watch EXCEPT !.reads = @ \ {tag}, !.reported = tag]
        /\ UNCHANGED <<storeVars, head, listening, gets, starts, failures, query>>

\* Nobody catches a watcher's read that fails, and nobody repeats it.
LoseRead ==
    /\ failures < MaxFailures
    /\ failures' = failures + 1
    /\ \E tag \in watch.reads :
          watch' = [watch EXCEPT !.reads = @ \ {tag}, !.lost = @ \union {tag}]
    /\ UNCHANGED <<storeVars, head, listening, gets, starts, query>>

(******************************* specification *****************************)

\* Every block has an event for the watcher, which the provider has to poll.
NewBlock ==
    /\ head < MaxBlock
    /\ head' = head + 1
    /\ watch' = IF watch.on THEN [watch EXCEPT !.due = @ \union {head + 1}]
                ELSE watch
    /\ UNCHANGED <<storeVars, listening, gets, starts, failures, query>>

\* A watcher shares nothing with a store: there is the one or the other.  If the
\* cache is asked, the store is started only once.
Init ==
    /\ NotLoaded
    /\ head = 0
    /\ listening = FALSE
    /\ gets = {} /\ failures = 0
    /\ \E asking, on \in BOOLEAN :
          /\ query = [stage |-> IF asking THEN "none" ELSE "never"]
          /\ starts = IF on THEN MaxStarts ELSE IF asking THEN MaxStarts - 1 ELSE 0
          /\ watch = [on |-> on, due |-> {}, timer |-> FALSE, latestBlock |-> 0,
                      reads |-> {}, reported |-> 0, lost |-> {}]

GetStep(g) == Got(g) \/ \E f \in Fields : Answer(g, f)

Next ==
    \/ NewBlock
    \/ Start \/ Stop \/ BlockListener
    \/ \E g \in gets : GetStep(g) \/ Fail(g)
    \/ UpdateTimer
    \/ \E own \in BOOLEAN, tag \in {None} \union 0 .. head : GetTrove(own, tag)
    \/ \E f \in {"trove", "redistributed"} : ChainAnswers(f)
    \/ Apply
    \/ Event \/ Debounced \/ Report \/ LoseRead

\* Blocks come, the provider reports them, reads are answered, timers fire.
Fairness ==
    /\ WF_vars(NewBlock) /\ WF_vars(BlockListener)
    /\ WF_vars(\E g \in gets : GetStep(g))
    /\ WF_vars(Event) /\ WF_vars(Debounced) /\ WF_vars(Report \/ LoseRead)

Spec == Init /\ [][Next]_vars /\ Fairness

(******************************** properties *******************************)

\* Once a block's read has arrived, the whole state is that of the block it is
\* tagged with, whichever reads overtake each other, fail, or arrive after a stop
\* or a second start; and subscribers who apply the changes have that state.
StateBelongsToItsBlock ==
    loaded =>
        /\ blockTag # None => \A f \in Fields : baseState[f] = ValueAt(f, blockTag)
        /\ derivedState = Derive(baseState)
        /\ copy = State(baseState, derivedState, blockTag)

\* getTrove applies a redistribution to a trove of the same block, the one that
\* was asked for - if one was, or the trove is the user's own and the store has
\* a block.  (Of other troves the cache has only the redistribution, of its block.)
ReadsOneBlock ==
    query.stage = "done" /\ query.oneBlock =>
        \E b \in IF query.tag # None THEN {query.tag} ELSE 0 .. head :
            /\ query.trove = ValueAt("trove", b)
            /\ query.redistributed = ValueAt("redistributed", b)

\* A store that is not stopped for good comes to show the latest block, again and
\* again, even if reads have failed.  A watcher of events has a change reported, by
\* a read of its block or of a later one; if that read fails the change is lost
\* until an event starts a later read, and for good if it was the last event's.
KeepsUp ==
    /\ <>[]listening => []<>(loaded /\ blockTag = MaxBlock)
    /\ \A b \in 1 .. MaxBlock :
          b \in watch.due ~> watch.reported >= b \/ MaxBlock \in watch.lost
=============================================================================
