------------------------------- MODULE Kernel -------------------------------
(***************************************************************************)
(* The kernel: call frames, the nodes they own, the references they hold,  *)
(* the substates they have open, and the two devices (heap and store) a    *)
(* node lives on.  Every action is one successful call of the kernel API   *)
(* by the current frame; a call that returns an error ends the execution,  *)
(* and its state is then thrown away (module Track has what survives).     *)
(*                                                                         *)
(* A node has one substate, whose value is the nodes it owns and the nodes *)
(* it refers to.  Left out: virtualised substates, the set, remove, scan   *)
(* and drain calls (their values own and refer to nothing), auth zones.    *)
(*                                                                         *)
(* The calls are the ones the system layer lets through: see ValueAllowed, *)
(* MayOpen, CreateNode, CreateNodeFrom and SwitchStack.                    *)
(***************************************************************************)
EXTENDS Naturals, FiniteSets

CONSTANTS
    Global,       \* global nodes
    Internal,     \* internal nodes
    Proofs,       \* the internal nodes that are proofs,
    Buckets,      \* ... that are buckets,
    Vaults,       \* ... that are vaults,
    KVStores,     \* ... and that are key value stores
    Outer,        \* the global node that is the outer object of an inner one
    Transactions, \* what a transaction finds stored, refers to and may allocate
    Stacks,       \* the numbers of the stacks of call frames, one for each intent
    MaxDepth,     \* bound on the frames of a stack
    MaxHandles,   \* bound on the substates a frame has open
    Values        \* the values written to a substate

Nodes == Global \cup Internal
Frames == Stacks \X (1..MaxDepth)
Handles == 1..MaxHandles
NoValue == [owns |-> {}, refs |-> {}]

\* the objects of blueprints that are declared transient
Transient == Proofs \cup Buckets
Objects == Internal \ (Transient \cup Vaults \cup KVStores)
OuterObjects(S) == {Outer[n] : n \in S \cap DOMAIN Outer}

ASSUME KernelAssumption ==
    /\ Global \cap Internal = {}
    /\ Transient \cup Vaults \cup KVStores \subseteq Internal
    /\ DOMAIN Outer \subseteq Internal /\ OuterObjects(Internal) \subseteq Global
    /\ Values \subseteq [owns : SUBSET Internal, refs : SUBSET Nodes]
    /\ NoValue \in Values
    /\ \A t \in Transactions :
        /\ DOMAIN t.stored \subseteq Nodes
        /\ \A n \in DOMAIN t.stored : t.stored[n] \in Values
        /\ t.directs \subseteq Internal \cap DOMAIN t.stored
        /\ t.allocates \subseteq Nodes \ DOMAIN t.stored
        /\ t.intents \subseteq Stacks
    /\ Stacks \subseteq Nat
    /\ MaxDepth \in Nat \ {0} /\ MaxHandles \in Nat \ {0}

VARIABLES
    device,          \* where each node is
    value,           \* what its substate owns and refers to
    emptied,         \* heap nodes whose partition was moved to a global node
    pinned_to_heap,
    non_global_node_refs, \* per node: the device recorded, the references counted
    substate_locks,  \* per node: readers and whether there is a writer
    current,         \* current_stack_index
    depth,           \* frames of each stack
    owned_root_nodes, global_refs, direct_refs, transient_references,
    open_substates,  \* these five: of each frame
    actor,           \* the receiver of each frame's invocation (a set of at most one)
    returned         \* frames whose output is passed, not popped yet

objectVars == <<device, value, emptied, pinned_to_heap, non_global_node_refs>>
frameVars == <<owned_root_nodes, global_refs, direct_refs, transient_references,
               open_substates, actor, returned>>
vars == <<objectVars, substate_locks, current, depth, frameVars>>

cur == <<current, depth[current]>>

-----------------------------------------------------------------------------
(* Visibility *)

\* a reference origin: the device it stands for, and the global node it came through
HeapOrigin == [device |-> "heap", via |-> {}]
StoreOrigin == [device |-> "store", via |-> {}]

NoReference == [count |-> 0, origin |-> HeapOrigin]

Borrowed(f) == {n \in Internal : transient_references[f][n].count > 0}

\* get_node_visibility
VisibleOwning(f, owned) == global_refs[f] \cup direct_refs[f] \cup owned \cup Borrowed(f)
Visible(f) == VisibleOwning(f, owned_root_nodes[f])

\* reference_origin: Visibility is ordered, direct access comes last
Origin(f, owned, n) ==
    IF n \in global_refs[f] THEN [device |-> "store", via |-> {n}]
    ELSE IF n \in owned THEN HeapOrigin
    ELSE IF n \in Borrowed(f) THEN transient_references[f][n].origin
    ELSE StoreOrigin

NodeDevice(f, n) == Origin(f, owned_root_nodes[f], n).device

-----------------------------------------------------------------------------
(* Locks *)

Unlocked == [readers |-> 0, writer |-> FALSE]
Locked(n) == substate_locks[n] # Unlocked

\* SubstateLockState::try_lock
CanLock(n, mutable) ==
    /\ ~substate_locks[n].writer
    /\ mutable => substate_locks[n].readers = 0

Lock(s, mutable) ==
    IF mutable THEN [readers |-> 0, writer |-> TRUE]
    ELSE [readers |-> s.readers + 1, writer |-> FALSE]

\* unlocking the handles hs
Unlock(n, hs) ==
    LET on == {h \in hs : h.node = n}
    IN  IF \E h \in on : h.mutable THEN Unlocked
        ELSE [readers |-> substate_locks[n].readers - Cardinality(on),
              writer |-> substate_locks[n].writer]

-----------------------------------------------------------------------------
(* Moving nodes to the store *)

\* the nodes of S and all they own, at most as deep as there are nodes
Descendants(S) ==
    LET within[k \in Nat] ==
            IF k = 0 THEN S
            ELSE LET T == within[k - 1] IN T \cup UNION {value[n].owns : n \in T}
    IN  within[Cardinality(Internal)]

\* move_node_from_heap_to_store succeeds
Persistable(n) ==
    \A m \in Descendants({n}) :
        /\ non_global_node_refs[m].count = 0
        /\ m \notin pinned_to_heap
        /\ value[m].refs \subseteq Global

Moved(S) == [n \in Nodes |-> IF n \in Descendants(S) THEN "store" ELSE device[n]]

-----------------------------------------------------------------------------
(* The difference that a new, changed or dropped substate makes *)

Diff(old, new) ==
    [addedOwns   |-> new.owns \ old.owns, removedOwns |-> old.owns \ new.owns,
     addedRefs   |-> new.refs \ old.refs, removedRefs |-> old.refs \ new.refs]

OwnedAfter(d) == (owned_root_nodes[cur] \ d.addedOwns) \cup d.removedOwns

\* take_node_internal, for each node of S
CanTake(S) == S \subseteq owned_root_nodes[cur] /\ \A n \in S : ~Locked(n)

ReferencesHeld(d) ==
    d.addedRefs \subseteq global_refs[cur] \cup OwnedAfter(d) \cup Borrowed(cur)

\* broken variant: a stored substate may give up the nodes it owns
DiffAllowed_StoreTake(dev, d) ==
    /\ CanTake(d.addedOwns)
    /\ ReferencesHeld(d)
    /\ dev = "store" => /\ \A n \in d.addedOwns : Persistable(n)
                        /\ d.addedRefs \subseteq Global

\* process_substate_diff succeeds
DiffAllowed(dev, d) ==
    /\ CanTake(d.addedOwns)
    /\ ReferencesHeld(d)
    /\ dev = "store" => /\ \A n \in d.addedOwns : Persistable(n)
                        /\ d.removedOwns = {}
                        /\ d.addedRefs \subseteq Global

\* broken variant: a reference given up stays counted
NodeRefsAfter_Leak(dev, d) ==
    [n \in Internal |->
        IF dev = "heap" /\ n \in d.addedRefs
        THEN [device |-> Origin(cur, OwnedAfter(d), n).device,
              count  |-> non_global_node_refs[n].count + 1]
        ELSE non_global_node_refs[n]]

\* increment_ref_count keeps the device of an entry that exists, even with count 0
NodeRefsAfter(dev, d) ==
    [n \in Internal |->
        LET r == non_global_node_refs[n]
        IN  IF dev = "heap" /\ n \in d.addedRefs
            THEN [device |-> IF r.device = "none" THEN Origin(cur, OwnedAfter(d), n).device
                             ELSE r.device,
                  count  |-> r.count + 1]
            ELSE IF dev = "heap" /\ n \in d.removedRefs
            THEN [device |-> r.device, count |-> r.count - 1]
            ELSE r]

Borrow(t, origin) ==
    IF t.count = 0 THEN [count |-> 1, origin |-> origin]
    ELSE [count |-> t.count + 1, origin |-> t.origin]

GiveBack(t, k) ==
    IF t.count > k THEN [count |-> t.count - k, origin |-> t.origin] ELSE NoReference

\* broken variant: a second borrowing is not counted
ApplyDiff_OnlyOne(t, n, d, origin, dev) ==
    LET t1 == IF n \in d.addedOwns THEN Borrow(NoReference, origin) ELSE t
        t2 == IF n \in d.removedOwns THEN GiveBack(t1, 1) ELSE t1
        t3 == IF n \in d.addedRefs THEN Borrow(NoReference, [device |-> dev, via |-> {}])
              ELSE t2
    IN  IF n \in d.removedRefs THEN GiveBack(t3, 1) ELSE t3

\* apply_diff_to_open_substate on one transient reference; dev is get_ref_device
ApplyDiff(t, n, d, origin, dev) ==
    LET t1 == IF n \in d.addedOwns THEN Borrow(t, origin) ELSE t
        t2 == IF n \in d.removedOwns THEN GiveBack(t1, 1) ELSE t1
        t3 == IF n \in d.addedRefs THEN Borrow(t2, [device |-> dev, via |-> {}]) ELSE t2
    IN  IF n \in d.removedRefs THEN GiveBack(t3, 1) ELSE t3

\* how often the handles hs borrow n
Borrows(hs, n) ==
    Cardinality({h \in hs : n \in h.owns}) + Cardinality({h \in hs : n \in h.refs})

\* the transient references of frame f once the handles hs are closed
AfterClose(f, hs) ==
    [n \in Internal |-> GiveBack(transient_references[f][n], Borrows(hs, n))]

-----------------------------------------------------------------------------
(* The limits of the system layer *)

\* payload validation and the resource package: only proofs refer to internal nodes, and
\* only to the vault or bucket they are on
ValueAllowed(n, v) ==
    /\ v.refs \cap Internal # {} =>
           n \in Proofs /\ v.refs \cap Internal \subseteq Vaults \cup Buckets
    /\ n \in Transient \cup Vaults => v.owns = {}

\* get_actor_object_id: the actor, or its outer object
ActorObjects == actor[cur] \cup OuterObjects(actor[cur])

\* a frame opens substates of these and of the key value stores it sees
MayOpen(n) == n \in ActorObjects \cup KVStores

-----------------------------------------------------------------------------
Init == \E t \in Transactions :
    /\ device = [n \in Nodes |-> IF n \in DOMAIN t.stored THEN "store"
                               ELSE IF n \in t.allocates THEN "unused" ELSE "absent"]
    /\ value = [n \in Nodes |-> IF n \in DOMAIN t.stored THEN t.stored[n] ELSE NoValue]
    /\ emptied = {}
    /\ pinned_to_heap = {}
    /\ non_global_node_refs = [n \in Internal |-> [device |-> "none", count |-> 0]]
    /\ substate_locks = [n \in Nodes |-> Unlocked]
    /\ current \in t.intents /\ \A s \in t.intents : current <= s
    /\ depth = [s \in Stacks |-> IF s \in t.intents THEN 1 ELSE 0]
    /\ owned_root_nodes = [f \in Frames |-> {}]
    /\ global_refs = [f \in Frames |-> IF f[2] = depth[f[1]] THEN Global \cap DOMAIN t.stored
                                      ELSE {}]
    /\ direct_refs = [f \in Frames |-> IF f[2] = depth[f[1]] THEN t.directs ELSE {}]
    /\ transient_references = [f \in Frames |-> [n \in Internal |-> NoReference]]
    /\ open_substates = [f \in Frames |-> {}]
    /\ actor = [f \in Frames |-> {}]
    /\ returned = [f \in Frames |-> FALSE]

Running == ~returned[cur]

\* pin_node, which new_object_internal calls for the objects of transient blueprints
PinNode(n) == pinned_to_heap' = pinned_to_heap \cup ({n} \cap Transient)

\* instance_context: the outer object of the inner objects a frame may create
InstanceContext == (actor[cur] \cap Global) \cup OuterObjects(actor[cur])

\* kernel_create_node: a global node goes to the store, an internal one to the heap
CreateNode(n, v) ==
    LET dest == IF n \in Global THEN "store" ELSE "heap"
        d == Diff(NoValue, v)
    IN  /\ Running
        /\ device[n] = "unused"
        /\ ValueAllowed(n, v)
        /\ OuterObjects({n}) \subseteq InstanceContext
        /\ DiffAllowed(dest, d)
        /\ PinNode(n)
        /\ device' = [(IF dest = "store" THEN Moved(d.addedOwns) ELSE device) EXCEPT ![n] = dest]
        /\ value' = [value EXCEPT ![n] = v]
        /\ non_global_node_refs' = NodeRefsAfter(dest, d)
        /\ owned_root_nodes' = [owned_root_nodes EXCEPT ![cur] =
                                    OwnedAfter(d) \cup ({n} \cap Internal)]
        /\ global_refs' = [global_refs EXCEPT ![cur] = @ \cup ({n} \cap Global)]
        /\ UNCHANGED <<emptied, substate_locks, current, depth, direct_refs,
                       transient_references, open_substates, actor, returned>>

\* kernel_create_node_from: a new global node takes over the partition of n.  The system
\* refuses transient objects and key value stores, and the resource package, which alone may
\* globalize vaults, never does it.
CreateNodeFrom(g, n) ==
    /\ Running
    /\ g \in Global /\ device[g] = "unused"
    /\ n \in Visible(cur) \cap Objects /\ NodeDevice(cur, n) = "heap"
    /\ ~Locked(n)
    /\ device[n] = "heap" /\ n \notin emptied
    /\ \A m \in value[n].owns : Persistable(m)
    /\ value[n].refs \subseteq Global
    /\ device' = [Moved(value[n].owns) EXCEPT ![g] = "store"]
    /\ value' = [value EXCEPT ![g] = value[n], ![n] = NoValue]
    /\ emptied' = emptied \cup {n}
    /\ global_refs' = [global_refs EXCEPT ![cur] = @ \cup {g}]
    /\ UNCHANGED <<pinned_to_heap, non_global_node_refs, substate_locks, current, depth,
                   owned_root_nodes, direct_refs, transient_references, open_substates,
                   actor, returned>>

\* kernel_drop_node
DropNode(n) ==
    LET d == Diff(value[n], NoValue)
    IN  /\ Running
        /\ CanTake({n})
        /\ non_global_node_refs[n].count = 0
        /\ device' = [device EXCEPT ![n] = "dropped"]
        /\ value' = [value EXCEPT ![n] = NoValue]
        /\ emptied' = emptied \ {n}
        /\ pinned_to_heap' = pinned_to_heap \ {n}
        /\ non_global_node_refs' = NodeRefsAfter("heap", d)
        /\ owned_root_nodes' = [owned_root_nodes EXCEPT ![cur] =
                                    (@ \ {n}) \cup d.removedOwns]
        /\ global_refs' = [global_refs EXCEPT ![cur] =
                               @ \cup (d.removedRefs \cap Global) \cup OuterObjects({n})]
        /\ UNCHANGED <<substate_locks, current, depth, direct_refs, transient_references,
                       open_substates, actor, returned>>

-----------------------------------------------------------------------------
FreeHandles == Handles \ {h.id : h \in open_substates[cur]}

\* kernel_open_substate: finds the substate on the device the reference stands for
OpenSubstate(n, mutable) ==
    LET origin == Origin(cur, owned_root_nodes[cur], n)
        d == Diff(NoValue, value[n])
        h == [id      |-> CHOOSE i \in FreeHandles : \A j \in FreeHandles : i <= j,
              node    |-> n, mutable |-> mutable, origin |-> origin,
              owns    |-> value[n].owns, refs |-> value[n].refs]
    IN  /\ Running /\ FreeHandles # {}
        /\ n \in Visible(cur) /\ MayOpen(n)
        /\ device[n] = origin.device /\ n \notin emptied
        /\ CanLock(n, mutable)
        /\ substate_locks' = [substate_locks EXCEPT ![n] = Lock(@, mutable)]
        /\ open_substates' = [open_substates EXCEPT ![cur] = @ \cup {h}]
        /\ global_refs' = [global_refs EXCEPT ![cur] = @ \cup (value[n].refs \cap Global)]
        /\ transient_references' = [transient_references EXCEPT ![cur] =
               [m \in Internal |-> ApplyDiff(@[m], m, d, origin, non_global_node_refs[m].device)]]
        /\ UNCHANGED <<objectVars, current, depth, owned_root_nodes, direct_refs, actor,
                       returned>>

\* the handle after a write
Rewritten(h, v) ==
    [id |-> h.id, node |-> h.node, mutable |-> h.mutable, origin |-> h.origin,
     owns |-> v.owns, refs |-> v.refs]

\* kernel_write_substate
WriteSubstate(h, v) ==
    LET dev == h.origin.device
        d == Diff([owns |-> h.owns, refs |-> h.refs], v)
    IN  /\ Running
        /\ h.mutable
        /\ ValueAllowed(h.node, v)
        /\ DiffAllowed(dev, d)
        /\ value' = [value EXCEPT ![h.node] = v]
        /\ device' = IF dev = "store" THEN Moved(d.addedOwns) ELSE device
        /\ non_global_node_refs' = NodeRefsAfter(dev, d)
        /\ owned_root_nodes' = [owned_root_nodes EXCEPT ![cur] = OwnedAfter(d)]
        /\ global_refs' = [global_refs EXCEPT ![cur] = @ \cup (d.removedRefs \cap Global)]
        /\ transient_references' = [transient_references EXCEPT ![cur] =
               [m \in Internal |-> ApplyDiff(@[m], m, d, h.origin,
                                          non_global_node_refs'[m].device)]]
        /\ open_substates' = [open_substates EXCEPT ![cur] = (@ \ {h}) \cup {Rewritten(h, v)}]
        /\ UNCHANGED <<emptied, pinned_to_heap, substate_locks, current, depth, direct_refs,
                       actor, returned>>

\* close_substate: no node it owns is open
CanClose(h) == \A n \in h.owns : ~Locked(n)

\* kernel_close_substate
CloseSubstate(h) ==
    /\ Running
    /\ CanClose(h)
    /\ substate_locks' = [n \in Nodes |-> Unlock(n, {h})]
    /\ open_substates' = [open_substates EXCEPT ![cur] = @ \ {h}]
    /\ transient_references' = [transient_references EXCEPT ![cur] = AfterClose(cur, {h})]
    /\ UNCHANGED <<objectVars, current, depth, owned_root_nodes, global_refs, direct_refs,
                   actor, returned>>

-----------------------------------------------------------------------------
(* Frames and stacks *)

\* broken variant: a node that was moved is still owned by the sender
PassNodes_Copy(to, moved) ==
    owned_root_nodes' = [owned_root_nodes EXCEPT ![to] = @ \cup moved]

PassNodes(to, moved) ==
    owned_root_nodes' = [owned_root_nodes EXCEPT ![cur] = @ \ moved, ![to] = @ \cup moved]

\* pass_message from the current frame: the nodes and references a value carries
PassMessage(to, moved, globals, directs) ==
    /\ CanTake(moved)
    /\ globals \subseteq global_refs[cur]
    /\ directs \subseteq direct_refs[cur]
    /\ PassNodes(to, moved)
    /\ direct_refs' = [direct_refs EXCEPT ![to] = @ \cup directs]

\* kernel_invoke up to the callee's first step.  The receiver is a global node, an
\* internal node the callee borrows, an internal node accessed directly, or absent.  The
\* caller reads its type info, and caller and callee then see its outer object.
\* A frame that has returned only invokes the drop function of its proofs (auto_drop).
Invoke(receiver, direct, moved, globals, directs) ==
    LET callee == <<current, depth[current] + 1>>
        borrowed == IF direct THEN {} ELSE receiver \cap Internal
        kept == owned_root_nodes[cur] \ moved
        outer == OuterObjects(receiver)
        passed == globals \cup (receiver \cap Global)
    IN  /\ returned[cur] => receiver = {} /\ \E p \in Proofs : moved = {p}
        /\ direct => receiver # {} /\ receiver \subseteq Internal
        /\ PassMessage(callee, moved, passed, directs \cup (IF direct THEN receiver ELSE {}))
        /\ borrowed \subseteq VisibleOwning(cur, kept)
        /\ transient_references' = [transient_references EXCEPT ![callee] =
               [n \in Internal |-> IF n \in borrowed THEN Borrow(NoReference, Origin(cur, kept, n))
                                   ELSE NoReference]]
        /\ global_refs' = [global_refs EXCEPT ![cur] = @ \cup outer, ![callee] =
               passed \cup outer \cup UNION {Origin(cur, kept, n).via : n \in borrowed}]
        /\ depth' = [depth EXCEPT ![current] = @ + 1]
        /\ actor' = [actor EXCEPT ![callee] = receiver]
        /\ UNCHANGED <<objectVars, substate_locks, current, open_substates, returned>>

\* kernel_invoke after the callee's last step: close its substates, pass its output
ReturnValue(moved, globals, directs) ==
    LET caller == <<current, depth[current] - 1>>
    IN  /\ moved \subseteq owned_root_nodes[cur]
        /\ \A n \in moved : Unlock(n, open_substates[cur]) = Unlocked
        /\ globals \subseteq global_refs[cur]
        /\ directs \subseteq direct_refs[cur]
        /\ substate_locks' = [n \in Nodes |-> Unlock(n, open_substates[cur])]
        /\ open_substates' = [open_substates EXCEPT ![cur] = {}]
        /\ transient_references' = [transient_references EXCEPT ![cur] =
               AfterClose(cur, open_substates[cur])]
        /\ PassNodes(caller, moved)
        /\ global_refs' = [global_refs EXCEPT ![caller] = @ \cup globals]
        /\ direct_refs' = [direct_refs EXCEPT ![caller] = @ \cup directs]
        /\ returned' = [returned EXCEPT ![cur] = TRUE]
        /\ UNCHANGED <<objectVars, current, depth, actor>>

\* no OrphanedNodes
CanPop == returned[cur] /\ owned_root_nodes[cur] = {}

\* kernel_invoke: pop the frame
PopFrame ==
    /\ CanPop
    /\ owned_root_nodes' = [owned_root_nodes EXCEPT ![cur] = {}]
    /\ global_refs' = [global_refs EXCEPT ![cur] = {}]
    /\ direct_refs' = [direct_refs EXCEPT ![cur] = {}]
    /\ transient_references' = [transient_references EXCEPT ![cur] =
                                    [n \in Internal |-> NoReference]]
    /\ actor' = [actor EXCEPT ![cur] = {}]
    /\ returned' = [returned EXCEPT ![cur] = FALSE]
    /\ depth' = [depth EXCEPT ![current] = @ - 1]
    /\ UNCHANGED <<objectVars, substate_locks, current, open_substates>>

\* kernel_switch_stack; the intent processor calls it, and the next action, from root frames
SwitchStack(s) ==
    /\ Running
    /\ s # current /\ depth[s] > 0
    /\ depth[current] = 1
    /\ current' = s
    /\ UNCHANGED <<objectVars, substate_locks, depth, frameVars>>

\* kernel_send_to_stack
SendToStack(s, moved, globals, directs) ==
    LET to == <<s, depth[s]>>
    IN  /\ Running
        /\ s # current /\ depth[s] > 0
        /\ depth[current] = 1
        /\ moved # {} \/ ~(globals \subseteq global_refs[to]) \/ ~(directs \subseteq direct_refs[to])
        /\ PassMessage(to, moved, globals, directs)
        /\ global_refs' = [global_refs EXCEPT ![to] = @ \cup globals]
        /\ UNCHANGED <<objectVars, substate_locks, current, depth, transient_references,
                       open_substates, actor, returned>>

-----------------------------------------------------------------------------
Create == \E n \in Nodes, v \in Values : CreateNode(n, v)
CreateFrom == \E g \in Global, n \in Internal : CreateNodeFrom(g, n)
Drop == \E n \in owned_root_nodes[cur] : DropNode(n)
Open == \E n \in Visible(cur), mutable \in BOOLEAN : OpenSubstate(n, mutable)
Write == \E h \in open_substates[cur], v \in Values : WriteSubstate(h, v)
Close == \E h \in open_substates[cur] : CloseSubstate(h)

Receivers == {{}} \cup {{n} : n \in Visible(cur)}

Call ==
    /\ depth[current] < MaxDepth
    /\ \E receiver \in Receivers, direct \in BOOLEAN, moved \in SUBSET owned_root_nodes[cur],
          globals \in SUBSET global_refs[cur], directs \in SUBSET direct_refs[cur] :
          Invoke(receiver, direct, moved, globals, directs)

Return ==
    /\ Running /\ depth[current] > 1
    /\ \E moved \in SUBSET owned_root_nodes[cur], globals \in SUBSET global_refs[cur],
          directs \in SUBSET direct_refs[cur] : ReturnValue(moved, globals, directs)

Switch == \E s \in Stacks : SwitchStack(s)

Send == \E s \in Stacks, moved \in SUBSET owned_root_nodes[cur],
           globals \in SUBSET global_refs[cur], directs \in SUBSET direct_refs[cur] :
           SendToStack(s, moved, globals, directs)

Next ==
    \/ Create \/ CreateFrom \/ Drop
    \/ Open \/ Write \/ Close
    \/ Call \/ Return \/ PopFrame
    \/ Switch \/ Send

Spec == Init /\ [][Next]_vars

-----------------------------------------------------------------------------
(* Properties *)

AllHandles == UNION {{f} \X open_substates[f] : f \in Frames}

Owners(n) == {m \in Nodes : n \in value[m].owns}
OwningFrames(n) == {f \in Frames : n \in owned_root_nodes[f]}

\* Every node on the heap has one owner, and is reached from the nodes the frames own: when
\* the last frame gives up its nodes the heap is empty, as Kernel execution asserts.
\* What a frame owns is on the heap, where drop_node and move_node_from_heap_to_store
\* look for it ("Frame owned node not found in heap" panics).
HeapIsOwned ==
    /\ \A n \in Internal : device[n] = "heap" =>
           Cardinality(Owners(n)) + Cardinality(OwningFrames(n)) = 1
    /\ {n \in Internal : device[n] = "heap"} =
           Descendants(UNION {owned_root_nodes[f] : f \in Frames})

\* What KernelDatabaseChecker checks of a database: a stored internal node has one owner,
\* which is stored, and stored substates refer to stored global nodes only.
StoreWellFormed ==
    /\ \A n \in Internal : device[n] = "store" =>
           /\ OwningFrames(n) = {}
           /\ Cardinality(Owners(n)) = 1
           /\ \A m \in Owners(n) : device[m] = "store"
    /\ \A n \in Nodes : device[n] = "store" =>
           /\ \A m \in value[n].owns : device[m] = "store"
           /\ \A m \in value[n].refs : m \in Global /\ device[m] = "store"

\* NonGlobalNodeRefs counts the substates that refer to a node, so that a node with a proof
\* on it is neither dropped nor stored, and get_ref_device never finds a count of 0; and a
\* reference that stands for the store finds its node there.
ReferencesSound ==
    /\ \A n \in Internal :
        LET refs == {m \in Nodes : n \in value[m].refs}
        IN  /\ non_global_node_refs[n].count = Cardinality(refs)
            /\ refs # {} => /\ device[n] \in {"heap", "store"}
                            /\ non_global_node_refs[n].device # "none"
    /\ \A f \in Frames : \A n \in Visible(f) :
        NodeDevice(f, n) = "store" => device[n] = "store"

\* A substate stays open safely while other frames and stacks run.  SubstateLocks agrees
\* with the handles: one writer and nothing else, or only readers, and no lock outlives its
\* handle.  The node is visible to its frame, still on the device it was opened on, and still
\* owns and refers to what the handle says (read_substate unwraps it, and diff computes a
\* write's effects from it).  Transient references count at least the open substates they
\* come from, so that closing or writing one never removes a reference that is not there
\* (the unwraps of apply_diff_to_open_substate).
HandlesSound ==
    /\ \A n \in Nodes :
        LET on == {x \in AllHandles : x[2].node = n}
        IN  /\ substate_locks[n].readers = Cardinality({x \in on : ~x[2].mutable})
            /\ substate_locks[n].writer = (\E x \in on : x[2].mutable)
            /\ (\E x \in on : x[2].mutable) => Cardinality(on) = 1
    /\ \A x \in AllHandles :
        /\ x[2].node \in Visible(x[1])
        /\ device[x[2].node] = x[2].origin.device
        /\ x[2].node \notin emptied
        /\ x[2].owns = value[x[2].node].owns
        /\ x[2].refs = value[x[2].node].refs
    /\ \A f \in Frames : \A n \in Internal :
        transient_references[f][n].count >= Borrows(open_substates[f], n)

=============================================================================
