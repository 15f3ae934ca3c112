------------------------------- MODULE Track -------------------------------
(***************************************************************************)
(* The transaction overlay of the engine: MappedTrack                      *)
(* (radix-engine/src/track/track.rs) with the per-substate state machine   *)
(* TrackedSubstateValue (radix-engine/src/track/state_updates.rs).         *)
(*                                                                         *)
(* A transaction reads and writes substates through the track.  At its end *)
(* the track is either finalized and turned into the state updates that    *)
(* are committed to the substate database, or, when the execution failed,  *)
(* first reverted to the force writes (the fee locks) and then finalized.  *)
(*                                                                         *)
(* A substate identifier stands for (NodeId, PartitionNumber, SubstateKey); *)
(* its partition and node are given by PartitionOf and NodeOf, and its     *)
(* position in the order of the database sort keys by Rank.                *)
(***************************************************************************)
EXTENDS Naturals, FiniteSets

CONSTANTS
    Substates,        \* every substate identifier of the instance
    Partitions,
    Nodes,
    Values,           \* substate contents
    None,             \* no content (Option::None)
    PartitionOf,      \* [Substates -> Partitions]
    NodeOf,           \* [Substates -> Nodes]
    Rank,             \* [Substates -> Nat]: the order of DbSortKey
    TransientFields,  \* the fields a blueprint declares TransientStatic
    MaxLimit          \* bound on the limit argument of scans and drains

ASSUME TrackAssumption ==
    /\ PartitionOf \in [Substates -> Partitions]
    /\ NodeOf \in [Substates -> Nodes]
    /\ \A s, t \in Substates : PartitionOf[s] = PartitionOf[t] => NodeOf[s] = NodeOf[t]
    /\ None \notin Values
    /\ TransientFields \subseteq Substates
    /\ MaxLimit \in Nat

ASSUME RankAssumption ==
    /\ IsFiniteSet(Substates)
    /\ Rank \in [Substates -> Nat]
    /\ \A s, t \in Substates : Rank[s] = Rank[t] => s = t

VARIABLES
    db,           \* the committed substate database
    tracked,      \* MappedTrack.tracked_nodes, flattened to substates
    isNew,        \* the tracked nodes whose is_new is true
    forceWrites,  \* MappedTrack.force_write_tracked_nodes
    deleted,      \* MappedTrack.deleted_partitions
    transient,    \* MappedTrack.transient_substates
    forceOpen,    \* substates open with MUTABLE | UNMODIFIED_BASE | FORCE_WRITE
    phase         \* where the transaction stands

vars == <<db, tracked, isNew, forceWrites, deleted, transient, forceOpen, phase>>

Contents == Values \cup {None}

SubstatesOf(n) == {s \in Substates : NodeOf[s] = n}
SubstatesIn(p) == {s \in Substates : PartitionOf[s] = p}

-----------------------------------------------------------------------------
(***************************************************************************)
(* TrackedSubstateValue.  val is what get() returns, None for no value or  *)
(* Write::Delete; old is the value that was read from the database.        *)
(***************************************************************************)
Tags == {"Absent", "New", "ReadOnly", "ReadExistAndWrite",
         "ReadNonExistAndWrite", "WriteOnly", "Garbage"}

TrackedSubstateValue == [tag : Tags, old : Contents, val : Contents]

Tracked(tag, old, val) == [tag |-> tag, old |-> old, val |-> val]

Absent == Tracked("Absent", None, None)
New(v) == Tracked("New", None, v)
ReadOnly(v) == Tracked("ReadOnly", v, v)
ReadExistAndWrite(old, w) == Tracked("ReadExistAndWrite", old, w)
ReadNonExistAndWrite(v) == Tracked("ReadNonExistAndWrite", None, v)
WriteOnly(w) == Tracked("WriteOnly", None, w)
Garbage == Tracked("Garbage", None, None)

IsTracked(t) == t.tag # "Absent"

\* TrackedSubstateValue::set
SetValue(t, v) ==
    IF t.tag = "Garbage" THEN WriteOnly(v)
    ELSE IF t.tag = "ReadOnly" /\ t.val = None THEN ReadNonExistAndWrite(v)
    ELSE IF t.tag = "ReadOnly" THEN ReadExistAndWrite(t.old, v)
    ELSE Tracked(t.tag, t.old, v)

\* broken variant: taking a blind write forgets that the database may hold a value
TakeValue_DropsBlindWrite(t) ==
    IF t.tag \in {"New", "WriteOnly"} THEN Garbage
    ELSE IF t.tag = "ReadNonExistAndWrite" THEN ReadOnly(None)
    ELSE IF t.tag = "ReadOnly" /\ t.val # None THEN ReadExistAndWrite(t.old, None)
    ELSE Tracked(t.tag, t.old, None)

\* TrackedSubstateValue::take (the value it returns is t.val)
TakeValue(t) ==
    IF t.tag = "New" THEN Garbage
    ELSE IF t.tag = "ReadNonExistAndWrite" THEN ReadOnly(None)
    ELSE IF t.tag = "ReadOnly" /\ t.val # None THEN ReadExistAndWrite(t.old, None)
    ELSE Tracked(t.tag, t.old, None)

\* broken variant: an insert after a read miss survives the revert
RevertWrites_KeepsInserts(t) ==
    IF t.tag \in {"New", "WriteOnly"} THEN Garbage
    ELSE IF t.tag = "ReadExistAndWrite" THEN ReadOnly(t.old)
    ELSE t

\* TrackedSubstateValue::revert_writes
RevertWrites(t) ==
    IF t.tag \in {"New", "WriteOnly"} THEN Garbage
    ELSE IF t.tag \in {"ReadExistAndWrite", "ReadNonExistAndWrite"} THEN ReadOnly(t.old)
    ELSE t

\* get_tracked_substate: the entry of s, filled from the database when vacant
Loaded(s) ==
    IF IsTracked(tracked[s]) THEN tracked[s]
    ELSE IF s \in transient THEN ReadOnly(None)
    ELSE ReadOnly(db[s])

\* get_tracked_substate_info
TrackedSubstateInfo(s) ==
    IF tracked[s].tag \in {"New", "Garbage"} THEN "New"
    ELSE IF tracked[s].tag \in {"WriteOnly", "ReadExistAndWrite", "ReadNonExistAndWrite"}
    THEN "Updated"
    ELSE "Unmodified"

-----------------------------------------------------------------------------
(***************************************************************************)
(* What the transaction sees, and what a commit would make durable.        *)
(***************************************************************************)

\* the value get_substate returns for s
View(s) == Loaded(s).val

\* TrackedSubstates::to_state_updates after finalize dropped the transient
\* substates: the DatabaseUpdate of s, None standing for Delete
HasUpdate(s) ==
    /\ s \notin transient
    /\ tracked[s].tag \in {"New", "ReadExistAndWrite", "ReadNonExistAndWrite", "WriteOnly"}

\* the content of s after the state updates are applied to the database: the
\* deleted partitions become resets, on top of which the updates are applied
Effect(s) ==
    IF HasUpdate(s) THEN tracked[s].val
    ELSE IF PartitionOf[s] \in deleted THEN None
    ELSE db[s]

\* broken variant: a blind write is always charged as an insert
StoreCommit_BlindWriteIsInsert(s) ==
    LET t == tracked[s]
        had == t.tag = "ReadExistAndWrite"
    IN  IF ~HasUpdate(s) THEN "NoOp"
        ELSE IF t.val # None THEN (IF had THEN "Update" ELSE "Insert")
        ELSE (IF had THEN "Delete" ELSE "NoOp")

\* get_commit_info: the StoreCommit of s that storage costs are computed from
StoreCommit(s) ==
    LET t == tracked[s]
        had == IF t.tag = "WriteOnly" THEN db[s] # None ELSE t.tag = "ReadExistAndWrite"
    IN  IF ~HasUpdate(s) THEN "NoOp"
        ELSE IF t.val # None THEN (IF had THEN "Update" ELSE "Insert")
        ELSE (IF had THEN "Delete" ELSE "NoOp")

\* the first n members of S in the order of the database sort keys
FirstN(S, n) == {s \in S : Cardinality({t \in S : Rank[t] < Rank[s]}) < n}

TrackedLive(p) == {s \in SubstatesIn(p) : IsTracked(tracked[s]) /\ tracked[s].val # None}

\* broken variant: the entries deleted in the track reappear from the database
UntrackedInDb_IgnoresTrack(p) ==
    {s \in SubstatesIn(p) : s \notin TrackedLive(p) /\ db[s] # None /\ NodeOf[s] \notin isNew}

\* the entries list_entries_from_db adds to the tracked ones: none for a node
\* that was just created
UntrackedInDb(p) ==
    {s \in SubstatesIn(p) : ~IsTracked(tracked[s]) /\ db[s] # None /\ NodeOf[s] \notin isNew}

\* the keys scan_keys returns, which are also those drain_substates takes:
\* tracked entries first, then the database up to the limit
ScanKeys(p, limit) ==
    LET items == FirstN(TrackedLive(p), limit)
    IN  items \cup FirstN(UntrackedInDb(p), limit - Cardinality(items))

\* scan_sorted_substates: the tracked changes merged over the database entries
ScanSorted(p, limit) == FirstN(TrackedLive(p) \cup UntrackedInDb(p), limit)

-----------------------------------------------------------------------------
(***************************************************************************)
(* The operations of the track during the execution of a transaction.      *)
(***************************************************************************)

NothingTracked == [s \in Substates |-> Absent]

\* MappedTrack::new on a database that never held a transient field
Init ==
    /\ db \in [Substates -> Contents]
    /\ \A s \in TransientFields : db[s] = None
    /\ tracked = NothingTracked
    /\ isNew = {}
    /\ forceWrites = NothingTracked
    /\ deleted = {}
    /\ transient = {}
    /\ forceOpen = {}
    /\ phase = "executing"

\* MappedTrack::new for the next transaction
NewTrack ==
    /\ tracked' = NothingTracked
    /\ isNew' = {}
    /\ forceWrites' = NothingTracked
    /\ deleted' = {}
    /\ transient' = {}
    /\ forceOpen' = {}
    /\ phase' = "executing"

\* substates are written while they are not locked, and a transient field is
\* marked before every access (the system opens it that way)
Accessible(s) == s \in TransientFields => s \in transient

\* mark_as_transient
MarkAsTransient(s) ==
    /\ phase = "executing"
    /\ s \in TransientFields
    /\ transient' = transient \cup {s}
    /\ UNCHANGED <<db, tracked, isNew, forceWrites, deleted, forceOpen, phase>>

\* create_node: the id is fresh, so the node has no content, though reads may
\* have recorded that; its transient fields were marked when it was in the heap
CreateNode(n, substates) ==
    /\ phase = "executing"
    /\ n \notin isNew
    /\ \A s \in SubstatesOf(n) : db[s] = None /\ tracked[s] \in {Absent, ReadOnly(None)}
    /\ tracked' = [s \in Substates |->
                     IF NodeOf[s] # n THEN tracked[s]
                     ELSE IF substates[s] = None THEN Absent
                     ELSE New(substates[s])]
    /\ isNew' = isNew \cup {n}
    /\ transient' = transient \cup
                      {s \in SubstatesOf(n) \cap TransientFields : substates[s] # None}
    /\ UNCHANGED <<db, forceWrites, deleted, forceOpen, phase>>

\* get_substate
GetSubstate(s) ==
    /\ phase \in {"executing", "finalizing"}
    /\ Accessible(s)
    /\ tracked' = [tracked EXCEPT ![s] = Loaded(s)]
    /\ UNCHANGED <<db, isNew, forceWrites, deleted, transient, forceOpen, phase>>

\* set_substate: a vacant entry becomes a blind write
SetTracked(s, v) ==
    [tracked EXCEPT ![s] =
        IF IsTracked(tracked[s]) THEN SetValue(tracked[s], v) ELSE WriteOnly(v)]

SetSubstate(s, v) ==
    /\ phase \in {"executing", "finalizing"}
    /\ Accessible(s)
    /\ s \notin forceOpen
    /\ tracked' = SetTracked(s, v)
    /\ UNCHANGED <<db, isNew, forceWrites, deleted, transient, forceOpen, phase>>

\* remove_substate
RemoveSubstate(s) ==
    /\ phase = "executing"
    /\ Accessible(s)
    /\ s \notin forceOpen
    /\ tracked' = [tracked EXCEPT ![s] = TakeValue(Loaded(s))]
    /\ UNCHANGED <<db, isNew, forceWrites, deleted, transient, forceOpen, phase>>

\* the entries of the track after the substates D of one partition were drained
Drained(D) ==
    [s \in Substates |->
        IF s \notin D THEN tracked[s]
        ELSE IF IsTracked(tracked[s]) THEN TakeValue(tracked[s])
        ELSE ReadExistAndWrite(db[s], None)]

\* drain_substates
DrainSubstates(p, limit) ==
    /\ phase = "executing"
    /\ SubstatesIn(p) \cap (forceOpen \cup TransientFields) = {}
    /\ tracked' = Drained(ScanKeys(p, limit))
    /\ UNCHANGED <<db, isNew, forceWrites, deleted, transient, forceOpen, phase>>

\* drain_substates when a cost callback fails half way: the entries drained so
\* far stay drained, and a failure while the database is read records none of it
DrainSubstatesFails(p, limit, done) ==
    /\ phase = "executing"
    /\ done <= limit
    /\ SubstatesIn(p) \cap (forceOpen \cup TransientFields) = {}
    /\ tracked' = Drained(ScanKeys(p, done))
    /\ phase' = "failed"
    /\ UNCHANGED <<db, isNew, forceWrites, deleted, transient, forceOpen>>

\* open_substate with MUTABLE | UNMODIFIED_BASE | FORCE_WRITE (a vault's lock_fee)
OpenForForceWrite(s) ==
    /\ phase = "executing"
    /\ s \notin TransientFields \cup forceOpen
    /\ TrackedSubstateInfo(s) = "Unmodified"
    /\ View(s) # None
    /\ tracked' = [tracked EXCEPT ![s] = Loaded(s)]
    /\ forceOpen' = forceOpen \cup {s}
    /\ UNCHANGED <<db, isNew, forceWrites, deleted, transient, phase>>

\* write_substate through that handle
WriteForceOpen(s, v) ==
    /\ phase = "executing"
    /\ s \in forceOpen
    /\ tracked' = SetTracked(s, v)
    /\ UNCHANGED <<db, isNew, forceWrites, deleted, transient, forceOpen, phase>>

\* close_substate of that handle: force_write keeps a copy of the entry
CloseForceWrite(s) ==
    /\ phase = "executing"
    /\ s \in forceOpen
    /\ tracked' = [tracked EXCEPT ![s] = Loaded(s)]
    /\ forceWrites' = [forceWrites EXCEPT ![s] = Loaded(s)]
    /\ forceOpen' = forceOpen \ {s}
    /\ UNCHANGED <<db, isNew, deleted, transient, phase>>

-----------------------------------------------------------------------------
(***************************************************************************)
(* The end of a transaction.                                               *)
(***************************************************************************)

\* any error of the execution: the frames are abandoned where they stand
ExecutionFails ==
    /\ phase = "executing"
    /\ phase' = "failed"
    /\ UNCHANGED <<db, tracked, isNew, forceWrites, deleted, transient, forceOpen>>

\* the root frame returned, every substate is closed
ExecutionSucceeds ==
    /\ phase = "executing"
    /\ forceOpen = {}
    /\ phase' = "finalizing"
    /\ UNCHANGED <<db, tracked, isNew, forceWrites, deleted, transient, forceOpen>>

\* the entry of s after revert_non_force_write_changes
Reverted(s) ==
    IF IsTracked(forceWrites[s]) THEN forceWrites[s]
    ELSE IF NodeOf[s] \in isNew THEN Absent
    ELSE RevertWrites(tracked[s])

\* revert_non_force_write_changes
RevertNonForceWriteChanges ==
    /\ phase = "failed"
    /\ tracked' = [s \in Substates |-> Reverted(s)]
    /\ isNew' = {}
    /\ forceWrites' = NothingTracked
    /\ forceOpen' = {}
    /\ phase' = "finalizing"
    /\ UNCHANGED <<db, deleted, transient>>

\* delete_partition: the transaction tracker drops its oldest partition
DeletePartition(p) ==
    /\ phase = "finalizing"
    /\ deleted' = deleted \cup {p}
    /\ UNCHANGED <<db, tracked, isNew, forceWrites, transient, forceOpen, phase>>

\* broken variant: the deleted partitions are not reset
Commit_DropsResets ==
    /\ phase = "finalizing"
    /\ db' = [s \in Substates |-> IF HasUpdate(s) THEN tracked[s].val ELSE db[s]]
    /\ NewTrack

\* finalize, to_state_updates and the commit; the next transaction starts on a
\* fresh track
Commit ==
    /\ phase = "finalizing"
    /\ db' = [s \in Substates |-> Effect(s)]
    /\ NewTrack

\* a rejected or aborted transaction drops its track
Discard ==
    /\ phase \in {"executing", "failed"}
    /\ db' = db
    /\ NewTrack

Next ==
    \/ \E s \in Substates : MarkAsTransient(s)
    \/ \E n \in Nodes : \E substates \in [SubstatesOf(n) -> Contents] : CreateNode(n, substates)
    \/ \E s \in Substates : GetSubstate(s)
    \/ \E s \in Substates, v \in Values : SetSubstate(s, v)
    \/ \E s \in Substates : RemoveSubstate(s)
    \/ \E p \in Partitions, limit \in 0..MaxLimit : DrainSubstates(p, limit)
    \/ \E p \in Partitions, limit, done \in 0..MaxLimit : DrainSubstatesFails(p, limit, done)
    \/ \E s \in Substates : OpenForForceWrite(s)
    \/ \E s \in Substates, v \in Values : WriteForceOpen(s, v)
    \/ \E s \in Substates : CloseForceWrite(s)
    \/ ExecutionFails
    \/ ExecutionSucceeds
    \/ RevertNonForceWriteChanges
    \/ \E p \in Partitions : DeletePartition(p)
    \/ Commit
    \/ Discard

Spec == Init /\ [][Next]_vars

-----------------------------------------------------------------------------
(***************************************************************************)
(* Properties                                                              *)
(***************************************************************************)

\* The type of every variable of the track.
TypeOK ==
    /\ db \in [Substates -> Contents]
    /\ tracked \in [Substates -> TrackedSubstateValue]
    /\ isNew \subseteq Nodes
    /\ forceWrites \in [Substates -> TrackedSubstateValue]
    /\ deleted \subseteq Partitions
    /\ transient \subseteq TransientFields
    /\ forceOpen \subseteq Substates
    /\ phase \in {"executing", "failed", "finalizing"}

\* What get_substate shows the transaction is what to_state_updates will commit:
\* while it executes, every non-transient substate reads as its content after a
\* commit at this point.
ViewIsEffect ==
    phase \in {"executing", "failed"} =>
        \A s \in Substates \ TransientFields : View(s) = Effect(s)

\* A transient field never reaches the database, whatever was written to it and
\* whether the transaction fails or not (finalize removes it from the track).
TransientNeverPersisted == \A s \in TransientFields : db[s] = None

\* The unwraps of revert_non_force_write_changes and the expect of force_write
\* never fail: a force write is on a tracked entry of a node that survives the
\* revert, and closing a force-written substate never goes to the database.
NoPanic ==
    /\ \A s \in Substates : IsTracked(forceWrites[s]) =>
            IsTracked(tracked[s]) /\ NodeOf[s] \notin isNew
    /\ \A s \in forceOpen : IsTracked(tracked[s])

\* Storage is charged for the real difference: get_commit_info reports an insert
\* or a delete exactly when the commit creates or destroys the substate.
CommitInfoIsDifference ==
    phase = "executing" =>
        \A s \in Substates \ TransientFields :
            /\ StoreCommit(s) = "Insert" <=> db[s] = None /\ Effect(s) # None
            /\ StoreCommit(s) = "Delete" <=> db[s] # None /\ Effect(s) = None
            /\ StoreCommit(s) = "Update" => db[s] # None /\ Effect(s) # None

Visible(p) == {s \in SubstatesIn(p) : View(s) # None}

\* A scan of a partition sees exactly what single reads see: scan_keys returns as
\* many visible keys as the limit allows, and scan_sorted_substates the first ones.
ScansAgreeWithReads ==
    phase = "executing" =>
        \A p \in Partitions, limit \in 0..MaxLimit :
            SubstatesIn(p) \cap TransientFields = {} =>
                /\ ScanKeys(p, limit) \subseteq Visible(p)
                /\ Cardinality(ScanKeys(p, limit)) =
                     IF Cardinality(Visible(p)) < limit THEN Cardinality(Visible(p)) ELSE limit
                /\ ScanSorted(p, limit) = FirstN(Visible(p), limit)

\* A fee lock starts from committed state only: at the moment a substate is opened
\* for a force write, the transaction has not changed it.
ForceWriteBaseIsCommitted ==
    [][\A s \in forceOpen' \ forceOpen : View(s)' = db[s]]_vars

\* A failed execution leaves its force writes and nothing else: after the revert a
\* commit would store each force-written value and keep every other substate.
RevertKeepsOnlyForceWrites ==
    [][phase = "failed" /\ phase' = "finalizing" =>
         \A s \in Substates \ TransientFields :
            Effect(s)' = IF IsTracked(forceWrites[s]) THEN forceWrites[s].val ELSE db[s]]_vars

-----------------------------------------------------------------------------
(***************************************************************************)
(* The inductive invariant behind these properties: every entry of the     *)
(* track remembers the truth about the database, and the nodes marked new  *)
(* have no content there.                                                  *)
(***************************************************************************)

\* the entry t is coherent with the database content d of its substate
Coherent(t, d) ==
    /\ t.tag \in {"Absent", "Garbage"} => t.old = None /\ t.val = None
    /\ t.tag = "New" => t.old = None /\ t.val # None
    /\ t.tag = "WriteOnly" => t.old = None
    /\ t.tag = "ReadOnly" => t.old = d /\ t.val = d
    /\ t.tag = "ReadExistAndWrite" => t.old = d /\ d # None
    /\ t.tag = "ReadNonExistAndWrite" => t.old = None /\ d = None /\ t.val # None

CacheCoherent == \A s \in Substates : Coherent(tracked[s], db[s])

NewNodesAreFresh == \A s \in Substates : NodeOf[s] \in isNew => db[s] = None

NewEntriesOnNewNodes ==
    \A s \in Substates :
        /\ tracked[s].tag = "New" => NodeOf[s] \in isNew
        /\ tracked[s].tag = "Garbage" /\ phase # "finalizing" => NodeOf[s] \in isNew

ForceWritesOnCommitted ==
    \A s \in Substates : IsTracked(forceWrites[s]) =>
        /\ s \notin TransientFields
        /\ db[s] # None
        /\ IsTracked(tracked[s])
        /\ forceWrites[s].tag \in {"ReadOnly", "ReadExistAndWrite"}
        /\ Coherent(forceWrites[s], db[s])

OpenForForceWriteOnCommitted ==
    \A s \in forceOpen :
        /\ s \notin TransientFields
        /\ db[s] # None
        /\ tracked[s].tag \in {"ReadOnly", "ReadExistAndWrite"}

\* a transient field is marked before it can have an entry in the track
TransientMarked == \A s \in TransientFields : IsTracked(tracked[s]) => s \in transient

DeletedOnlyAtTheEnd == phase # "finalizing" => deleted = {}

TrackInv ==
    /\ TypeOK
    /\ TransientNeverPersisted
    /\ CacheCoherent
    /\ NewNodesAreFresh
    /\ NewEntriesOnNewNodes
    /\ ForceWritesOnCommitted
    /\ OpenForForceWriteOnCommitted
    /\ TransientMarked
    /\ DeletedOnlyAtTheEnd

-----------------------------------------------------------------------------
(***************************************************************************)
(* The track implements the atomic store.                                  *)
(***************************************************************************)

Store == INSTANCE AtomicStore WITH
    committed <- db,
    pending <- [s \in Substates |-> Effect(s)],
    forced <- [s \in Substates |-> IF IsTracked(forceWrites[s]) THEN <<forceWrites[s].val>>
                                                              ELSE <<>>]

\* Every behaviour of the track, seen through the state updates it would produce,
\* is one of the atomic store: commits are atomic, failures keep the force writes.
ImplementsAtomicStore == Store!Spec
=============================================================================
