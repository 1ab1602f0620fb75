----------------------------- MODULE LiquityStore -----------------------------
(****************************************************************************)
(* lib-base's LiquityStore: a base state that subclasses load and update,   *)
(* a state derived from it, and subscribers who are told what has changed.  *)
(* Variables of the chain are abstracted to three: the user's trove before  *)
(* redistribution, what has been redistributed to every stake, the price.   *)
(****************************************************************************)
EXTENDS Naturals, FiniteSets

CONSTANT None       \* undefined

ASSUME NoneAssumption == None \notin Nat

VARIABLES
    loaded,
    baseState, derivedState,
    blockTag,       \* of the extra state; None after an untagged load
    updateTimer,    \* whether an update is scheduled, 30 seconds after the last
    copy            \* what a subscriber has made of the changes he was told of

storeVars == <<loaded, baseState, derivedState, blockTag, updateTimer, copy>>

Fields == {"trove", "redistributed", "price"}

Derive(base) ==
    [userTrove |-> <<base.trove, base.redistributed>>,
     fees      |-> base.price,
     haveUndercollateralizedTroves |-> <<base.redistributed, base.price>>]

State(base, derived, tag) == [base |-> base, derived |-> derived, blockTag |-> tag]

\* The parts of new that differ from old.
Difference(new, old) ==
    [part \in {p \in DOMAIN new : new[p] # old[p]} |-> new[part]]

Patched(state, change) ==
    [part \in DOMAIN state |-> IF part \in DOMAIN change THEN change[part] ELSE state[part]]

\* _reduce keeps the old value of what an update does not have or does not change.
Reduce(old, update) ==
    [f \in Fields |-> IF f \in DOMAIN update /\ update[f] # old[f] THEN update[f] ELSE old[f]]

Load(base, tag) ==
    /\ ~loaded
    /\ loaded' = TRUE
    /\ baseState' = base
    /\ derivedState' = Derive(base)
    /\ blockTag' = tag
    /\ updateTimer' = TRUE
    /\ copy' = State(base, Derive(base), tag)     \* onLoaded: state can be read now

\* Subscribers get the change after everything has been updated.
Update(update, tag) ==
    LET base == Reduce(baseState, update)
        new  == State(base, Derive(base), IF tag # None THEN tag ELSE blockTag)
    IN  /\ loaded
        /\ baseState' = base
        /\ derivedState' = Derive(base)
        /\ blockTag' = new.blockTag
        /\ updateTimer' = TRUE
        /\ copy' = Patched(copy, Difference(new, State(baseState, derivedState, blockTag)))
        /\ UNCHANGED loaded

NotLoaded ==
    /\ loaded = FALSE
    /\ baseState = None /\ derivedState = None /\ blockTag = None
    /\ updateTimer = FALSE
    /\ copy = None
=============================================================================
