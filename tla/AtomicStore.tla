---------------------------- MODULE AtomicStore ----------------------------
(***************************************************************************)
(* What the track promises to the rest of the engine: a transaction works  *)
(* on a pending copy of the committed store.  It commits the whole copy,   *)
(* drops it, or fails, and then only the substates it marked as forced     *)
(* keep the value they had when they were marked; the rest is as before    *)
(* the transaction.  Fee payment and bookkeeping may still update the      *)
(* pending copy between the end of the execution and the commit.           *)
(***************************************************************************)
EXTENDS Sequences

CONSTANTS Substates, Values, None

VARIABLES committed, pending, forced, phase

\* forced[s] is a sequence of at most one value
NotForced == <<>>

Stores == [Substates -> Values \cup {None}]

Init ==
    /\ committed \in Stores
    /\ pending = committed
    /\ forced = [s \in Substates |-> NotForced]
    /\ phase = "executing"

\* the transaction changes its pending copy
Work ==
    /\ phase # "failed"
    /\ pending' \in Stores
    /\ UNCHANGED <<committed, forced, phase>>

\* the value of s is kept even if the execution fails
Force(s) ==
    /\ phase = "executing"
    /\ forced' = [forced EXCEPT ![s] = <<pending[s]>>]
    /\ UNCHANGED <<committed, pending, phase>>

\* the execution stops with an error, possibly in the middle of a change
Fail ==
    /\ phase = "executing"
    /\ pending' \in Stores
    /\ phase' = "failed"
    /\ UNCHANGED <<committed, forced>>

Succeed ==
    /\ phase = "executing"
    /\ phase' = "finalizing"
    /\ UNCHANGED <<committed, pending, forced>>

Rollback ==
    /\ phase = "failed"
    /\ pending' = [s \in Substates |-> IF forced[s] = NotForced THEN committed[s] ELSE forced[s][1]]
    /\ forced' = [s \in Substates |-> NotForced]
    /\ phase' = "finalizing"
    /\ UNCHANGED committed

Begin ==
    /\ pending' = committed'
    /\ forced' = [s \in Substates |-> NotForced]
    /\ phase' = "executing"

Commit ==
    /\ phase = "finalizing"
    /\ committed' = pending
    /\ Begin

Discard ==
    /\ phase # "finalizing"
    /\ committed' = committed
    /\ Begin

Next ==
    \/ Work
    \/ Fail
    \/ \E s \in Substates : Force(s)
    \/ Succeed
    \/ Rollback
    \/ Commit
    \/ Discard

Spec == Init /\ [][Next]_<<committed, pending, forced, phase>>
=============================================================================
