---------------------------- MODULE TrackProofs ----------------------------
(***************************************************************************)
(* Proofs about Track, for every set of substates, partitions, nodes and   *)
(* values and every assignment of substates to partitions and nodes.       *)
(***************************************************************************)
EXTENDS Track, TLAPS

(***************************************************************************)
(* Lemmas about the entries of the track.                                  *)
(***************************************************************************)

\* TrackedSubstateValue::set keeps an entry coherent, leaves it tracked, stores the
\* value, and does not turn it into a new or a garbage entry.
LEMMA SetValueLemma ==
    ASSUME NEW t \in TrackedSubstateValue, NEW v \in Values, NEW d \in Contents,
           Coherent(t, d), t.tag # "Absent"
    PROVE  /\ SetValue(t, v) \in TrackedSubstateValue
           /\ Coherent(SetValue(t, v), d)
           /\ SetValue(t, v).tag # "Absent"
           /\ SetValue(t, v).tag # "Garbage"
           /\ SetValue(t, v).val = v
           /\ SetValue(t, v).tag = "New" => t.tag = "New"
           /\ t.tag \in {"ReadOnly", "ReadExistAndWrite"} /\ d # None
                => SetValue(t, v).tag = "ReadExistAndWrite"
  BY TrackAssumption DEF SetValue, TrackedSubstateValue, Tags, Contents, Coherent, WriteOnly,
     ReadNonExistAndWrite, ReadExistAndWrite, Tracked

\* TrackedSubstateValue::take keeps an entry coherent and tracked and leaves it
\* without a value; only a new entry becomes garbage.
LEMMA TakeValueLemma ==
    ASSUME NEW t \in TrackedSubstateValue, NEW d \in Contents,
           Coherent(t, d), t.tag # "Absent"
    PROVE  /\ TakeValue(t) \in TrackedSubstateValue
           /\ Coherent(TakeValue(t), d)
           /\ TakeValue(t).tag # "Absent"
           /\ TakeValue(t).tag # "New"
           /\ TakeValue(t).val = None
           /\ TakeValue(t).tag = "Garbage" => t.tag \in {"New", "Garbage"}
  BY TrackAssumption DEF TakeValue, TrackedSubstateValue, Tags, Contents, Coherent, Garbage,
     ReadOnly, ReadExistAndWrite, Tracked

\* TrackedSubstateValue::revert_writes keeps an entry coherent and tracked, and
\* leaves no update of it behind.
LEMMA RevertWritesLemma ==
    ASSUME NEW t \in TrackedSubstateValue, NEW d \in Contents, Coherent(t, d)
    PROVE  /\ RevertWrites(t) \in TrackedSubstateValue
           /\ Coherent(RevertWrites(t), d)
           /\ RevertWrites(t).tag \in {"Absent", "ReadOnly", "Garbage"}
           /\ RevertWrites(t).tag = "Absent" <=> t.tag = "Absent"
  BY TrackAssumption DEF RevertWrites, TrackedSubstateValue, Tags, Contents, Coherent, Garbage,
     ReadOnly, Tracked

\* get_tracked_substate: the loaded entry of an accessible substate is tracked and
\* coherent, a tracked one is returned as it is, a vacant one is only read.
LEMMA LoadedLemma ==
    ASSUME TrackInv, NEW s \in Substates, Accessible(s)
    PROVE  /\ Loaded(s) \in TrackedSubstateValue
           /\ Coherent(Loaded(s), db[s])
           /\ Loaded(s).tag # "Absent"
           /\ tracked[s].tag # "Absent" => Loaded(s) = tracked[s]
           /\ tracked[s].tag = "Absent" => Loaded(s).tag = "ReadOnly"
  BY TrackAssumption DEF TrackInv, TypeOK, TransientNeverPersisted, CacheCoherent, Accessible, Loaded,
     IsTracked, ReadOnly, Tracked, Coherent, TrackedSubstateValue, Tags, Contents

-----------------------------------------------------------------------------
(***************************************************************************)
(* TrackInv is inductive.                                                  *)
(***************************************************************************)

\* A fresh track on a database without transient fields satisfies TrackInv.
LEMMA InitInv == Init => TrackInv
  BY TrackAssumption DEF Init, NothingTracked, Absent, Tracked, TrackInv, TypeOK, TransientNeverPersisted,
     CacheCoherent, Coherent, NewNodesAreFresh, NewEntriesOnNewNodes, ForceWritesOnCommitted,
     OpenForForceWriteOnCommitted, TransientMarked, DeletedOnlyAtTheEnd, IsTracked, TrackedSubstateValue,
     Tags, Contents

\* A step that changes one entry, and neither the database nor the set of new nodes,
\* keeps TrackInv when the new entry is coherent, still tracked and neither becomes
\* new nor garbage off a new node, and an open force write keeps its kind.
LEMMA OneEntryStep ==
    ASSUME TrackInv, NEW s \in Substates, NEW t \in TrackedSubstateValue,
           Coherent(t, db[s]), t.tag # "Absent",
           t.tag = "New" => tracked[s].tag = "New",
           t.tag = "Garbage" => tracked[s].tag \in {"New", "Garbage"},
           s \in forceOpen => t.tag \in {"ReadOnly", "ReadExistAndWrite"},
           Accessible(s),
           tracked' = [tracked EXCEPT ![s] = t],
           UNCHANGED <<db, isNew, forceWrites, deleted, transient, forceOpen, phase>>
    PROVE  TrackInv'
<1>1. TypeOK' /\ TransientNeverPersisted' /\ NewNodesAreFresh' /\ DeletedOnlyAtTheEnd'
  BY DEF TrackInv, TypeOK, TransientNeverPersisted, NewNodesAreFresh, DeletedOnlyAtTheEnd
<1>2. \A u \in Substates : u # s => tracked'[u] = tracked[u]
  BY DEF TrackInv, TypeOK
<1>3. tracked'[s] = t
  BY DEF TrackInv, TypeOK
<1>4. CacheCoherent'
  BY <1>2, <1>3 DEF TrackInv, CacheCoherent, Coherent
<1>5. NewEntriesOnNewNodes'
  BY <1>2, <1>3 DEF TrackInv, NewEntriesOnNewNodes
<1>6. ForceWritesOnCommitted'
  BY <1>2, <1>3 DEF TrackInv, ForceWritesOnCommitted, IsTracked, Coherent
<1>7. OpenForForceWriteOnCommitted'
  BY <1>2, <1>3 DEF TrackInv, TypeOK, OpenForForceWriteOnCommitted
<1>8. TransientMarked'
  BY <1>2, <1>3, TrackAssumption DEF TrackInv, TransientMarked, Accessible
<1> QED
  BY <1>1, <1>4, <1>5, <1>6, <1>7, <1>8 DEF TrackInv

\* A drained entry is coherent, tracked, without value, and garbage only if it was
\* a new entry before.
LEMMA DrainedLemma ==
    ASSUME TrackInv, NEW p \in Partitions, NEW k \in Nat,
           SubstatesIn(p) \cap (forceOpen \cup TransientFields) = {},
           tracked' = Drained(ScanKeys(p, k)),
           UNCHANGED <<db, isNew, forceWrites, deleted, transient, forceOpen>>,
           phase' \in {phase, "failed"}, phase = "executing"
    PROVE  TrackInv'
<1> DEFINE D == ScanKeys(p, k)
<1>1. D \subseteq TrackedLive(p) \cup UntrackedInDb(p)
  BY DEF ScanKeys, FirstN
<1>2. \A s \in D : s \in Substates /\ s \notin forceOpen /\ s \notin TransientFields
  BY <1>1 DEF TrackedLive, UntrackedInDb, SubstatesIn
<1>3. \A s \in D : tracked[s].tag = "Absent" => db[s] # None
  BY <1>1 DEF TrackedLive, UntrackedInDb, IsTracked
<1>4. \A s \in Substates \ D : tracked'[s] = tracked[s]
  BY DEF Drained
<1>5. ASSUME NEW s \in D
      PROVE  /\ tracked'[s] \in TrackedSubstateValue
             /\ Coherent(tracked'[s], db[s])
             /\ tracked'[s].tag \notin {"Absent", "New"}
             /\ tracked'[s].tag = "Garbage" => tracked[s].tag \in {"New", "Garbage"}
  <2>1. s \in Substates
    BY <1>2
  <2>2. CASE tracked[s].tag = "Absent"
    <3>1. tracked'[s] = ReadExistAndWrite(db[s], None)
      BY <2>1, <2>2 DEF Drained, IsTracked
    <3> QED
      BY <2>1, <2>2, <3>1, <1>3, TrackAssumption DEF TrackInv, TypeOK, ReadExistAndWrite, Tracked,
         Coherent, TrackedSubstateValue, Tags, Contents
  <2>3. CASE tracked[s].tag # "Absent"
    <3>1. tracked'[s] = TakeValue(tracked[s])
      BY <2>1, <2>3 DEF Drained, IsTracked
    <3> QED
      BY <2>1, <2>3, <3>1, TakeValueLemma DEF TrackInv, TypeOK, CacheCoherent
  <2> QED
    BY <2>2, <2>3
<1> HIDE DEF D
<1>6. tracked' \in [Substates -> TrackedSubstateValue]
  <2>1. \A s \in Substates : tracked'[s] \in TrackedSubstateValue
    BY <1>4, <1>5 DEF TrackInv, TypeOK
  <2>2. tracked' = [s \in Substates |-> tracked'[s]]
    BY DEF Drained
  <2> QED
    BY <2>1, <2>2
<1>7. TypeOK' /\ TransientNeverPersisted' /\ NewNodesAreFresh' /\ DeletedOnlyAtTheEnd'
  BY <1>6 DEF TrackInv, TypeOK, TransientNeverPersisted, NewNodesAreFresh, DeletedOnlyAtTheEnd
<1>8. CacheCoherent'
  BY <1>4, <1>5 DEF TrackInv, CacheCoherent, Coherent
<1>9. NewEntriesOnNewNodes'
  BY <1>4, <1>5 DEF TrackInv, NewEntriesOnNewNodes
<1>10. ForceWritesOnCommitted'
  BY <1>4, <1>5 DEF TrackInv, ForceWritesOnCommitted, IsTracked, Coherent
<1>11. OpenForForceWriteOnCommitted'
  BY <1>2, <1>4 DEF TrackInv, TypeOK, OpenForForceWriteOnCommitted
<1>12. TransientMarked'
  BY <1>2, <1>4, TrackAssumption DEF TrackInv, TransientMarked
<1> QED
  BY <1>7, <1>8, <1>9, <1>10, <1>11, <1>12 DEF TrackInv

\* Steps that leave the track alone, and change at most the phase of the
\* transaction before its end, keep TrackInv.
LEMMA PhaseStep ==
    ASSUME TrackInv, phase' \in {"executing", "failed", "finalizing"}, phase' # phase,
           phase = "executing",
           UNCHANGED <<db, tracked, isNew, forceWrites, deleted, transient, forceOpen>>
    PROVE  TrackInv'
  BY DEF TrackInv, TypeOK, TransientNeverPersisted, CacheCoherent, Coherent, NewNodesAreFresh,
     NewEntriesOnNewNodes, ForceWritesOnCommitted, OpenForForceWriteOnCommitted,
     TransientMarked, DeletedOnlyAtTheEnd, IsTracked

\* create_node on a fresh node: its entries are all new, and no force write is on it.
LEMMA CreateNodeStep ==
    ASSUME TrackInv, NEW n \in Nodes, NEW substates \in [SubstatesOf(n) -> Contents],
           CreateNode(n, substates)
    PROVE  TrackInv'
<1> USE DEF CreateNode
<1>1. \A s \in Substates : NodeOf[s] # n => tracked'[s] = tracked[s]
  OBVIOUS
<1>2. \A s \in Substates : NodeOf[s] = n =>
        \/ substates[s] = None /\ tracked'[s] = Absent
        \/ substates[s] \in Values /\ tracked'[s] = New(substates[s])
  BY DEF SubstatesOf, Contents
<1>3. \A s \in Substates : NodeOf[s] = n => db[s] = None
  BY DEF SubstatesOf
<1>4. \A s \in Substates : NodeOf[s] = n =>
        /\ tracked'[s] \in TrackedSubstateValue
        /\ Coherent(tracked'[s], db[s])
        /\ tracked'[s].tag # "Garbage"
  BY <1>2, TrackAssumption DEF Absent, New, Tracked, TrackedSubstateValue, Tags, Contents, Coherent
<1>5. TypeOK'
  <2>1. tracked' \in [Substates -> TrackedSubstateValue]
    BY <1>1, <1>4 DEF TrackInv, TypeOK
  <2> QED
    BY <2>1 DEF TrackInv, TypeOK
<1>6. TransientNeverPersisted' /\ DeletedOnlyAtTheEnd'
  BY DEF TrackInv, TransientNeverPersisted, DeletedOnlyAtTheEnd
<1>7. NewNodesAreFresh'
  BY <1>3 DEF TrackInv, NewNodesAreFresh
<1>8. CacheCoherent'
  BY <1>1, <1>4 DEF TrackInv, CacheCoherent, Coherent
<1>9. NewEntriesOnNewNodes'
  BY <1>1, <1>4 DEF TrackInv, NewEntriesOnNewNodes
<1>10. ForceWritesOnCommitted'
  BY <1>1, <1>3 DEF TrackInv, ForceWritesOnCommitted, IsTracked, Coherent
<1>11. OpenForForceWriteOnCommitted'
  BY <1>1, <1>3 DEF TrackInv, TypeOK, OpenForForceWriteOnCommitted
<1>12. TransientMarked'
  BY <1>1, <1>2, TrackAssumption DEF TrackInv, TransientMarked, IsTracked, Absent, Tracked, SubstatesOf
<1> QED
  BY <1>5, <1>6, <1>7, <1>8, <1>9, <1>10, <1>11, <1>12 DEF TrackInv

\* Dropping the track keeps TrackInv when the database keeps no transient field.
LEMMA NewTrackStep ==
    ASSUME TrackInv, NewTrack, db' \in [Substates -> Contents],
           \A s \in TransientFields : db'[s] = None
    PROVE  TrackInv'
  BY TrackAssumption DEF NewTrack, NothingTracked, Absent, Tracked, TrackInv, TypeOK,
     TransientNeverPersisted, CacheCoherent, Coherent, NewNodesAreFresh, NewEntriesOnNewNodes,
     ForceWritesOnCommitted, OpenForForceWriteOnCommitted, TransientMarked, DeletedOnlyAtTheEnd,
     IsTracked, TrackedSubstateValue, Tags, Contents

\* revert_non_force_write_changes: every entry is coherent again, and none is new.
LEMMA RevertStep ==
    ASSUME TrackInv, RevertNonForceWriteChanges
    PROVE  TrackInv'
<1> USE DEF RevertNonForceWriteChanges
<1>1. \A s \in Substates :
        /\ tracked'[s] \in TrackedSubstateValue
        /\ Coherent(tracked'[s], db[s])
        /\ tracked'[s].tag # "New"
        /\ s \in TransientFields /\ tracked'[s].tag # "Absent" => s \in transient
  <2> SUFFICES ASSUME NEW s \in Substates
               PROVE  /\ Reverted(s) \in TrackedSubstateValue
                      /\ Coherent(Reverted(s), db[s])
                      /\ Reverted(s).tag # "New"
                      /\ s \in TransientFields /\ Reverted(s).tag # "Absent" => s \in transient
    OBVIOUS
  <2>1. CASE forceWrites[s].tag # "Absent"
    BY <2>1 DEF Reverted, IsTracked, TrackInv, TypeOK, ForceWritesOnCommitted
  <2>2. CASE forceWrites[s].tag = "Absent" /\ NodeOf[s] \in isNew
    BY <2>2, TrackAssumption DEF Reverted, IsTracked, Absent, Tracked, Coherent, TrackedSubstateValue,
       Tags, Contents
  <2>3. CASE forceWrites[s].tag = "Absent" /\ NodeOf[s] \notin isNew
    BY <2>3, RevertWritesLemma DEF Reverted, IsTracked, TrackInv, TypeOK, CacheCoherent, TransientMarked
  <2> QED
    BY <2>1, <2>2, <2>3
<1>2. TypeOK'
  <2>1. tracked' \in [Substates -> TrackedSubstateValue]
    BY <1>1
  <2>2. forceWrites' \in [Substates -> TrackedSubstateValue]
    BY DEF NothingTracked, Absent, Tracked, TrackedSubstateValue, Tags, Contents
  <2> QED
    BY <2>1, <2>2 DEF TrackInv, TypeOK
<1>3. TransientNeverPersisted' /\ DeletedOnlyAtTheEnd' /\ NewNodesAreFresh'
  BY DEF TrackInv, TransientNeverPersisted, DeletedOnlyAtTheEnd, NewNodesAreFresh
<1>4. CacheCoherent' /\ NewEntriesOnNewNodes'
  BY <1>1 DEF CacheCoherent, Coherent, NewEntriesOnNewNodes
<1>5. ForceWritesOnCommitted' /\ OpenForForceWriteOnCommitted'
  BY DEF ForceWritesOnCommitted, OpenForForceWriteOnCommitted, NothingTracked, Absent, Tracked, IsTracked
<1>6. TransientMarked'
  BY <1>1, TrackAssumption DEF TransientMarked, IsTracked
<1> QED
  BY <1>2, <1>3, <1>4, <1>5, <1>6 DEF TrackInv

\* set_substate of an accessible substate whose lock allows it.
LEMMA SetTrackedStep ==
    ASSUME TrackInv, NEW s \in Substates, NEW v \in Values, Accessible(s),
           s \in forceOpen => tracked[s].tag \in {"ReadOnly", "ReadExistAndWrite"} /\ db[s] # None,
           tracked' = SetTracked(s, v),
           UNCHANGED <<db, isNew, forceWrites, deleted, transient, forceOpen, phase>>
    PROVE  TrackInv'
<1> DEFINE t == IF tracked[s].tag # "Absent" THEN SetValue(tracked[s], v) ELSE WriteOnly(v)
<1>1. tracked' = [tracked EXCEPT ![s] = t]
  BY DEF SetTracked, IsTracked
<1>2. /\ t \in TrackedSubstateValue
      /\ Coherent(t, db[s])
      /\ t.tag # "Absent"
      /\ t.tag # "Garbage"
      /\ t.tag = "New" => tracked[s].tag = "New"
      /\ s \in forceOpen => t.tag \in {"ReadOnly", "ReadExistAndWrite"}
  <2>1. CASE tracked[s].tag # "Absent"
    BY <2>1, SetValueLemma DEF TrackInv, TypeOK, CacheCoherent
  <2>2. CASE tracked[s].tag = "Absent"
    BY <2>2, TrackAssumption DEF WriteOnly, Tracked, Coherent, TrackedSubstateValue, Tags, Contents
  <2> QED
    BY <2>1, <2>2
<1> HIDE DEF t
<1> QED
  BY <1>1, <1>2, OneEntryStep

\* Closing a force-written substate copies its entry, which is tracked and rests on
\* committed state.
LEMMA CloseForceWriteStep ==
    ASSUME TrackInv, NEW s \in Substates, CloseForceWrite(s)
    PROVE  TrackInv'
<1> USE DEF CloseForceWrite
<1>1. s \notin TransientFields /\ db[s] # None /\ tracked[s].tag \in {"ReadOnly", "ReadExistAndWrite"}
  BY DEF TrackInv, OpenForForceWriteOnCommitted
<1>2. Loaded(s) = tracked[s]
  BY <1>1 DEF Loaded, IsTracked
<1>3. tracked' = tracked
  BY <1>2 DEF TrackInv, TypeOK
<1>4. forceWrites' = [forceWrites EXCEPT ![s] = tracked[s]]
  BY <1>2
<1>5. TypeOK'
  BY <1>3, <1>4 DEF TrackInv, TypeOK
<1>6. ForceWritesOnCommitted'
  BY <1>1, <1>3, <1>4 DEF TrackInv, TypeOK, CacheCoherent, ForceWritesOnCommitted, IsTracked, Coherent
<1>7. OpenForForceWriteOnCommitted'
  BY <1>3 DEF TrackInv, OpenForForceWriteOnCommitted
<1> QED
  BY <1>3, <1>5, <1>6, <1>7 DEF TrackInv, TransientNeverPersisted, CacheCoherent, Coherent,
     NewNodesAreFresh, NewEntriesOnNewNodes, TransientMarked, DeletedOnlyAtTheEnd, IsTracked

\* Every step of the track keeps the inductive invariant.
LEMMA NextInv == TrackInv /\ [Next]_vars => TrackInv'
<1> SUFFICES ASSUME TrackInv, [Next]_vars PROVE TrackInv'
  OBVIOUS
<1>1. ASSUME NEW s \in Substates, MarkAsTransient(s) PROVE TrackInv'
  BY <1>1 DEF MarkAsTransient, TrackInv, TypeOK, TransientNeverPersisted, CacheCoherent, Coherent,
     NewNodesAreFresh, NewEntriesOnNewNodes, ForceWritesOnCommitted, OpenForForceWriteOnCommitted,
     TransientMarked, DeletedOnlyAtTheEnd, IsTracked
<1>2. ASSUME NEW n \in Nodes, NEW substates \in [SubstatesOf(n) -> Contents], CreateNode(n, substates)
      PROVE  TrackInv'
  BY <1>2, CreateNodeStep
<1>3. ASSUME NEW s \in Substates, GetSubstate(s) PROVE TrackInv'
  <2>1. s \in forceOpen => Loaded(s).tag \in {"ReadOnly", "ReadExistAndWrite"}
    BY <1>3, LoadedLemma DEF GetSubstate, TrackInv, OpenForForceWriteOnCommitted
  <2> QED
    BY <1>3, <2>1, LoadedLemma, OneEntryStep DEF GetSubstate
<1>4. ASSUME NEW s \in Substates, NEW v \in Values, SetSubstate(s, v) PROVE TrackInv'
  BY <1>4, SetTrackedStep DEF SetSubstate
<1>5. ASSUME NEW s \in Substates, RemoveSubstate(s) PROVE TrackInv'
  <2>1. /\ Loaded(s) \in TrackedSubstateValue
        /\ Coherent(Loaded(s), db[s])
        /\ Loaded(s).tag # "Absent"
        /\ Loaded(s).tag \in {"New", "Garbage"} => Loaded(s) = tracked[s]
    BY <1>5, LoadedLemma DEF RemoveSubstate
  <2>2. db[s] \in Contents
    BY DEF TrackInv, TypeOK
  <2>3. /\ TakeValue(Loaded(s)) \in TrackedSubstateValue
        /\ Coherent(TakeValue(Loaded(s)), db[s])
        /\ TakeValue(Loaded(s)).tag # "Absent"
        /\ TakeValue(Loaded(s)).tag # "New"
        /\ TakeValue(Loaded(s)).tag = "Garbage" => tracked[s].tag \in {"New", "Garbage"}
    BY <2>1, <2>2, TakeValueLemma
  <2> QED
    BY <1>5, <2>3, OneEntryStep DEF RemoveSubstate
<1>6. ASSUME NEW p \in Partitions, NEW limit \in 0..MaxLimit, DrainSubstates(p, limit) PROVE TrackInv'
  BY <1>6, DrainedLemma, TrackAssumption DEF DrainSubstates
<1>7. ASSUME NEW p \in Partitions, NEW limit \in 0..MaxLimit, NEW done \in 0..MaxLimit,
             DrainSubstatesFails(p, limit, done)
      PROVE  TrackInv'
  BY <1>7, DrainedLemma, TrackAssumption DEF DrainSubstatesFails
<1>8. ASSUME NEW s \in Substates, OpenForForceWrite(s) PROVE TrackInv'
  <2>1. Accessible(s)
    BY <1>8 DEF OpenForForceWrite, Accessible
  <2>2. Loaded(s).tag = "ReadOnly" /\ Loaded(s).val # None
    BY <1>8, <2>1, LoadedLemma DEF OpenForForceWrite, TrackedSubstateInfo, View, TrackInv, TypeOK,
       TrackedSubstateValue, Tags
  <2>3. db[s] # None
    BY <2>1, <2>2, LoadedLemma DEF Coherent
  <2>4. tracked'[s].tag = "ReadOnly"
    BY <1>8, <2>2 DEF OpenForForceWrite, TrackInv, TypeOK
  <2>5. \A u \in Substates : u # s => tracked'[u] = tracked[u]
    BY <1>8 DEF OpenForForceWrite, TrackInv, TypeOK
  <2>6. TypeOK' /\ CacheCoherent'
    <3>1. tracked' \in [Substates -> TrackedSubstateValue]
      BY <1>8, <2>1, LoadedLemma DEF OpenForForceWrite, TrackInv, TypeOK
    <3>2. TypeOK'
      BY <1>8, <3>1 DEF OpenForForceWrite, TrackInv, TypeOK
    <3>3. Coherent(tracked'[s], db[s])
      BY <1>8, <2>1, LoadedLemma DEF OpenForForceWrite, TrackInv, TypeOK
    <3>4. db' = db
      BY <1>8 DEF OpenForForceWrite
    <3> QED
      BY <2>5, <3>2, <3>3, <3>4 DEF TrackInv, CacheCoherent, Coherent
  <2>7. TransientNeverPersisted' /\ NewNodesAreFresh' /\ DeletedOnlyAtTheEnd'
    BY <1>8 DEF OpenForForceWrite, TrackInv, TransientNeverPersisted, NewNodesAreFresh, DeletedOnlyAtTheEnd
  <2>8. NewEntriesOnNewNodes'
    BY <1>8, <2>4, <2>5 DEF OpenForForceWrite, TrackInv, NewEntriesOnNewNodes
  <2>9. ForceWritesOnCommitted'
    BY <1>8, <2>4, <2>5 DEF OpenForForceWrite, TrackInv, ForceWritesOnCommitted, IsTracked, Coherent
  <2>10. OpenForForceWriteOnCommitted'
    BY <1>8, <2>3, <2>4, <2>5 DEF OpenForForceWrite, TrackInv, TypeOK, OpenForForceWriteOnCommitted
  <2>11. TransientMarked'
    BY <1>8, <2>5, TrackAssumption DEF OpenForForceWrite, TrackInv, TransientMarked
  <2> QED
    BY <2>6, <2>7, <2>8, <2>9, <2>10, <2>11 DEF TrackInv
<1>9. ASSUME NEW s \in Substates, NEW v \in Values, WriteForceOpen(s, v) PROVE TrackInv'
  BY <1>9, SetTrackedStep DEF WriteForceOpen, TrackInv, OpenForForceWriteOnCommitted, Accessible
<1>10. ASSUME NEW s \in Substates, CloseForceWrite(s) PROVE TrackInv'
  BY <1>10, CloseForceWriteStep
<1>11. CASE ExecutionFails
  BY <1>11, PhaseStep DEF ExecutionFails
<1>12. CASE ExecutionSucceeds
  BY <1>12, PhaseStep DEF ExecutionSucceeds
<1>13. CASE RevertNonForceWriteChanges
  BY <1>13, RevertStep
<1>14. ASSUME NEW p \in Partitions, DeletePartition(p) PROVE TrackInv'
  BY <1>14 DEF DeletePartition, TrackInv, TypeOK, TransientNeverPersisted, CacheCoherent, Coherent,
     NewNodesAreFresh, NewEntriesOnNewNodes, ForceWritesOnCommitted, OpenForForceWriteOnCommitted,
     TransientMarked, DeletedOnlyAtTheEnd, IsTracked
<1>15. CASE Commit
  <2>1. \A s \in Substates : Effect(s) \in Contents
    BY DEF Effect, TrackInv, TypeOK, TrackedSubstateValue, Contents
  <2>2. \A s \in TransientFields : Effect(s) = None
    BY TrackAssumption DEF Effect, HasUpdate, TrackInv, TransientNeverPersisted, TransientMarked, IsTracked
  <2> QED
    BY <1>15, <2>1, <2>2, NewTrackStep, TrackAssumption DEF Commit
<1>16. CASE Discard
  BY <1>16, NewTrackStep DEF Discard, TrackInv, TypeOK, TransientNeverPersisted
<1>17. CASE UNCHANGED vars
  BY <1>17 DEF vars, TrackInv, TypeOK, TransientNeverPersisted, CacheCoherent, Coherent,
     NewNodesAreFresh, NewEntriesOnNewNodes, ForceWritesOnCommitted, OpenForForceWriteOnCommitted,
     TransientMarked, DeletedOnlyAtTheEnd, IsTracked
<1> QED
  BY <1>1, <1>2, <1>3, <1>4, <1>5, <1>6, <1>7, <1>8, <1>9, <1>10, <1>11, <1>12, <1>13, <1>14, <1>15,
     <1>16, <1>17 DEF Next

\* The inductive invariant holds in every state a sequence of transactions reaches.
THEOREM TrackInvariant == Spec => []TrackInv
  BY InitInv, NextInv, PTL DEF Spec

\* MappedTrack is type correct.
THEOREM TypeCorrect == Spec => []TypeOK
<1>1. TrackInv => TypeOK
  BY DEF TrackInv
<1> QED
  BY <1>1, TrackInvariant, PTL

-----------------------------------------------------------------------------
(***************************************************************************)
(* The safety properties, from TrackInv.                                   *)
(***************************************************************************)

\* While a transaction executes, what it reads through the track is what a commit
\* would store.
THEOREM ReadsAreCommits == Spec => []ViewIsEffect
<1>1. TrackInv => ViewIsEffect
  <2> SUFFICES ASSUME TrackInv, phase \in {"executing", "failed"}, NEW s \in Substates \ TransientFields
               PROVE  View(s) = Effect(s)
    BY DEF ViewIsEffect
  <2>1. tracked[s] \in TrackedSubstateValue /\ Coherent(tracked[s], db[s]) /\ s \notin transient
    BY DEF TrackInv, TypeOK, CacheCoherent
  <2>2. deleted = {}
    BY DEF TrackInv, DeletedOnlyAtTheEnd
  <2>3. tracked[s].tag = "Garbage" => db[s] = None
    BY DEF TrackInv, NewEntriesOnNewNodes, NewNodesAreFresh
  <2> QED
    BY <2>1, <2>2, <2>3 DEF View, Loaded, IsTracked, ReadOnly, Tracked, Effect, HasUpdate, Coherent,
       TrackedSubstateValue, Tags
<1> QED
  BY <1>1, TrackInvariant, PTL

\* A transient field never reaches the database.
THEOREM TransientStaysOut == Spec => []TransientNeverPersisted
<1>1. TrackInv => TransientNeverPersisted
  BY DEF TrackInv
<1> QED
  BY <1>1, TrackInvariant, PTL

\* The unwraps of revert_non_force_write_changes and force_write never fail.
THEOREM PanicFree == Spec => []NoPanic
<1>1. TrackInv => NoPanic
  BY DEF TrackInv, NoPanic, ForceWritesOnCommitted, OpenForForceWriteOnCommitted, NewNodesAreFresh,
     IsTracked, TypeOK
<1> QED
  BY <1>1, TrackInvariant, PTL

\* get_commit_info reports an insert or a delete exactly when the commit creates or
\* destroys the substate.
THEOREM StorageChargedForDifference == Spec => []CommitInfoIsDifference
<1>1. TrackInv => CommitInfoIsDifference
  <2> SUFFICES ASSUME TrackInv, phase = "executing", NEW s \in Substates \ TransientFields
               PROVE  /\ StoreCommit(s) = "Insert" <=> db[s] = None /\ Effect(s) # None
                      /\ StoreCommit(s) = "Delete" <=> db[s] # None /\ Effect(s) = None
                      /\ StoreCommit(s) = "Update" => db[s] # None /\ Effect(s) # None
    BY DEF CommitInfoIsDifference
  <2>1. tracked[s] \in TrackedSubstateValue /\ Coherent(tracked[s], db[s]) /\ s \notin transient
    BY DEF TrackInv, TypeOK, CacheCoherent
  <2>2. deleted = {}
    BY DEF TrackInv, DeletedOnlyAtTheEnd
  <2>3. tracked[s].tag = "New" => db[s] = None
    BY DEF TrackInv, NewEntriesOnNewNodes, NewNodesAreFresh
  <2> QED
    BY <2>1, <2>2, <2>3 DEF StoreCommit, Effect, HasUpdate, Coherent, TrackedSubstateValue, Tags
<1> QED
  BY <1>1, TrackInvariant, PTL

\* The effect of a substate after revert_non_force_write_changes: its force-written
\* value, or its committed content.
LEMMA RevertEffect ==
    ASSUME TrackInv, RevertNonForceWriteChanges, NEW s \in Substates
    PROVE  Effect(s)' = IF IsTracked(forceWrites[s]) THEN forceWrites[s].val ELSE db[s]
<1> USE DEF RevertNonForceWriteChanges
<1>1. tracked'[s] = Reverted(s) /\ deleted' = {} /\ db' = db /\ transient' = transient
  BY DEF TrackInv, DeletedOnlyAtTheEnd
<1>2. CASE forceWrites[s].tag # "Absent"
  <2>1. /\ tracked'[s] = forceWrites[s]
        /\ forceWrites[s].tag \in {"ReadOnly", "ReadExistAndWrite"}
        /\ Coherent(forceWrites[s], db[s])
        /\ s \notin transient
    BY <1>1, <1>2 DEF Reverted, IsTracked, TrackInv, TypeOK, ForceWritesOnCommitted
  <2> QED
    BY <1>1, <1>2, <2>1 DEF Effect, HasUpdate, IsTracked, Coherent
<1>3. CASE forceWrites[s].tag = "Absent"
  <2>1. tracked'[s].tag \in {"Absent", "ReadOnly", "Garbage"}
    <3>1. CASE NodeOf[s] \in isNew
      BY <1>1, <1>3, <3>1 DEF Reverted, IsTracked, Absent, Tracked
    <3>2. CASE NodeOf[s] \notin isNew
      BY <1>1, <1>3, <3>2, RevertWritesLemma DEF Reverted, IsTracked, TrackInv, TypeOK, CacheCoherent
    <3> QED
      BY <3>1, <3>2
  <2> QED
    BY <1>1, <1>3, <2>1 DEF Effect, HasUpdate, IsTracked
<1> QED
  BY <1>2, <1>3

\* A failed execution leaves its force writes and nothing else.
THEOREM FailureKeepsOnlyForceWrites == Spec => RevertKeepsOnlyForceWrites
<1> DEFINE A == phase = "failed" /\ phase' = "finalizing" =>
                  \A s \in Substates \ TransientFields :
                    Effect(s)' = IF IsTracked(forceWrites[s]) THEN forceWrites[s].val ELSE db[s]
<1>1. TrackInv /\ [Next]_vars => [A]_vars
  <2> SUFFICES ASSUME TrackInv, Next, phase = "failed", phase' = "finalizing"
               PROVE  A
    OBVIOUS
  <2>1. RevertNonForceWriteChanges
    BY DEF Next, MarkAsTransient, CreateNode, GetSubstate, SetSubstate, RemoveSubstate, DrainSubstates,
       DrainSubstatesFails, OpenForForceWrite, WriteForceOpen, CloseForceWrite, ExecutionFails,
       ExecutionSucceeds, DeletePartition, Commit, Discard, NewTrack
  <2> QED
    BY <2>1, RevertEffect
<1> QED
  BY <1>1, TrackInvariant, PTL DEF Spec, RevertKeepsOnlyForceWrites

\* A substate opened for a force write is read as it is in the database.
THEOREM FeeLocksStartFromCommitted == Spec => ForceWriteBaseIsCommitted
<1> DEFINE A == \A s \in forceOpen' \ forceOpen : View(s)' = db[s]
<1>1. TrackInv /\ [Next]_vars => [A]_vars
  <2> SUFFICES ASSUME TrackInv, Next, NEW s \in forceOpen' \ forceOpen
               PROVE  View(s)' = db[s]
    OBVIOUS
  <2>1. s \in Substates /\ OpenForForceWrite(s)
    BY DEF Next, MarkAsTransient, CreateNode, GetSubstate, SetSubstate, RemoveSubstate, DrainSubstates,
       DrainSubstatesFails, OpenForForceWrite, WriteForceOpen, CloseForceWrite, ExecutionFails,
       ExecutionSucceeds, RevertNonForceWriteChanges, DeletePartition, Commit, Discard, NewTrack
  <2>2. Accessible(s)
    BY <2>1 DEF OpenForForceWrite, Accessible
  <2>3. /\ Loaded(s).tag = "ReadOnly"
        /\ Loaded(s).val = db[s]
    BY <2>1, <2>2, LoadedLemma DEF OpenForForceWrite, TrackedSubstateInfo, TrackInv, TypeOK,
       TrackedSubstateValue, Tags, Coherent
  <2>4. tracked'[s] = Loaded(s)
    BY <2>1 DEF OpenForForceWrite, TrackInv, TypeOK
  <2> QED
    BY <2>3, <2>4 DEF View, Loaded, IsTracked
<1> QED
  BY <1>1, TrackInvariant, PTL DEF Spec, ForceWriteBaseIsCommitted

-----------------------------------------------------------------------------
(***************************************************************************)
(* The track implements the atomic store.                                  *)
(***************************************************************************)

Pending == [s \in Substates |-> Effect(s)]

Forced == [s \in Substates |-> IF IsTracked(forceWrites[s]) THEN <<forceWrites[s].val>> ELSE <<>>]

\* A new track shows the committed store, and nothing is forced.
LEMMA NewTrackBegins == ASSUME NewTrack, db' \in [Substates -> Contents]
                        PROVE  Pending' = db' /\ Forced' = [s \in Substates |-> <<>>]
<1>1. \A s \in Substates : tracked'[s].tag = "Absent" /\ forceWrites'[s].tag = "Absent" /\ deleted' = {}
  BY DEF NewTrack, NothingTracked, Absent, Tracked
<1>2. \A s \in Substates : Effect(s)' = db'[s]
  BY <1>1 DEF Effect, HasUpdate
<1> QED
  BY <1>1, <1>2 DEF Pending, Forced, IsTracked

\* Every step of the track is a step of the atomic store.
LEMMA StepRefines ==
    ASSUME TrackInv, TrackInv', [Next]_vars
    PROVE  [Store!Next]_<<db, Pending, Forced, phase>>
<1> USE DEF Store!Next, Store!NotForced
<1>0. [s \in Substates |-> Effect(s)]' \in Store!Stores
  <2>1. \A s \in Substates : Effect(s)' \in Contents
    BY DEF Effect, TrackInv, TypeOK, TrackedSubstateValue, Contents
  <2> QED
    BY <2>1 DEF Store!Stores, Contents
<1>a. ASSUME phase \in {"executing", "finalizing"}, UNCHANGED <<db, forceWrites, phase>>
      PROVE  Store!Work
  BY <1>a, <1>0 DEF Store!Work, Forced
<1>b. ASSUME phase = "executing", phase' = "failed", UNCHANGED <<db, forceWrites>>
      PROVE  Store!Fail
  BY <1>b, <1>0 DEF Store!Fail, Forced
<1>c. ASSUME phase = "executing", phase' = "finalizing", UNCHANGED <<db, forceWrites, tracked, transient, deleted>>
      PROVE  Store!Succeed
  BY <1>c DEF Store!Succeed, Pending, Forced, Effect, HasUpdate
<1>1. ASSUME NEW s \in Substates, CloseForceWrite(s) PROVE Store!Force(s)
  <2> USE DEF CloseForceWrite
  <2>1. /\ tracked[s].tag \in {"ReadOnly", "ReadExistAndWrite"}
        /\ s \notin transient
        /\ deleted = {}
        /\ Coherent(tracked[s], db[s])
    BY <1>1 DEF TrackInv, TypeOK, OpenForForceWriteOnCommitted, DeletedOnlyAtTheEnd, CacheCoherent
  <2>2. Loaded(s) = tracked[s]
    BY <2>1 DEF Loaded, IsTracked
  <2>3. tracked' = tracked /\ forceWrites' = [forceWrites EXCEPT ![s] = tracked[s]]
    BY <1>1, <2>2 DEF TrackInv, TypeOK
  <2>4. Pending' = Pending
    BY <1>1, <2>3 DEF Pending, Effect, HasUpdate
  <2>5. Effect(s) = tracked[s].val
    BY <2>1 DEF Effect, HasUpdate, Coherent
  <2>6. Forced' = [Forced EXCEPT ![s] = <<Pending[s]>>]
    BY <2>1, <2>3, <2>5 DEF Forced, Pending, IsTracked, TrackInv, TypeOK
  <2> QED
    BY <1>1, <2>4, <2>6 DEF Store!Force, Pending, Forced
<1>2. CASE RevertNonForceWriteChanges
  <2>1. Pending' = [s \in Substates |-> IF Forced[s] = <<>> THEN db[s] ELSE Forced[s][1]]
    BY <1>2, RevertEffect DEF Pending, Forced
  <2>2. Forced' = [s \in Substates |-> <<>>]
    BY <1>2 DEF RevertNonForceWriteChanges, Forced, NothingTracked, Absent, Tracked, IsTracked
  <2>3. Store!Rollback
    BY <1>2, <2>1, <2>2 DEF RevertNonForceWriteChanges, Store!Rollback, Pending, Forced
  <2> QED
    BY <2>3
<1>3. CASE Commit
  <2>1. db' = Pending /\ NewTrack /\ phase = "finalizing"
    BY <1>3 DEF Commit, Pending
  <2>2. Store!Commit
    BY <2>1, NewTrackBegins DEF Store!Commit, Store!Begin, NewTrack, Pending, Forced, TrackInv, TypeOK
  <2> QED
    BY <2>2
<1>4. CASE Discard
  <2>1. Store!Discard
    BY <1>4, NewTrackBegins DEF Discard, Store!Discard, Store!Begin, NewTrack, Pending, Forced, TrackInv, TypeOK
  <2> QED
    BY <2>1
<1>5. CASE UNCHANGED vars
  BY <1>5 DEF vars, Pending, Forced, Effect, HasUpdate
<1>6. CASE \E p \in Partitions, limit, done \in 0..MaxLimit : DrainSubstatesFails(p, limit, done)
  BY <1>6, <1>b DEF DrainSubstatesFails
<1>7. CASE ExecutionFails
  BY <1>7, <1>b DEF ExecutionFails
<1>8. CASE ExecutionSucceeds
  BY <1>8, <1>c DEF ExecutionSucceeds
<1>9. CASE \/ \E s \in Substates : MarkAsTransient(s)
           \/ \E n \in Nodes : \E substates \in [SubstatesOf(n) -> Contents] : CreateNode(n, substates)
           \/ \E s \in Substates : GetSubstate(s)
           \/ \E s \in Substates, v \in Values : SetSubstate(s, v)
           \/ \E s \in Substates : RemoveSubstate(s)
           \/ \E p \in Partitions, limit \in 0..MaxLimit : DrainSubstates(p, limit)
           \/ \E s \in Substates : OpenForForceWrite(s)
           \/ \E s \in Substates, v \in Values : WriteForceOpen(s, v)
           \/ \E p \in Partitions : DeletePartition(p)
  BY <1>9, <1>a DEF MarkAsTransient, CreateNode, GetSubstate, SetSubstate, RemoveSubstate,
     DrainSubstates, OpenForForceWrite, WriteForceOpen, DeletePartition
<1> QED
  BY <1>1, <1>2, <1>3, <1>4, <1>5, <1>6, <1>7, <1>8, <1>9 DEF Next

\* The track implements the atomic store: commits are atomic, a failed execution
\* keeps its force writes only.
THEOREM TrackImplementsAtomicStore == Spec => ImplementsAtomicStore
<1>1. Init => Store!Init
  BY InitInv DEF Init, Store!Init, Store!Stores, Store!NotForced, Contents, Effect, HasUpdate, IsTracked, NothingTracked, Absent,
     Tracked
<1>2. TrackInv /\ TrackInv' /\ [Next]_vars =>
        [Store!Next]_<<db, [s \in Substates |-> Effect(s)],
                       [s \in Substates |-> IF IsTracked(forceWrites[s]) THEN <<forceWrites[s].val>> ELSE <<>>],
                       phase>>
  BY StepRefines DEF Pending, Forced
<1> QED
  BY <1>1, <1>2, TrackInvariant, PTL DEF Spec, ImplementsAtomicStore, Store!Spec
=============================================================================
