------------------------------- MODULE Intents -------------------------------
(***************************************************************************)
(* A transaction of a root intent and subintents, from the validation of   *)
(* its structure to the end of its execution; or a partial transaction,    *)
(* whose root is a subintent too, and which is only validated.             *)
(*                                                                         *)
(* TransactionValidator first relates the intents (who is whose child),    *)
(* then marks depths from the root with a work list, then validates the    *)
(* intents one by one, aggregating their validity ranges and counting the  *)
(* yields of each manifest.  What it accepts, MultiThreadIntentProcessor   *)
(* runs: one thread per intent, of which one at a time runs until it       *)
(* yields to a child or to its parent, handing over buckets.               *)
(*                                                                         *)
(* A manifest is a straight line of instructions, so only the number of    *)
(* its yields is fixed before the run and the instructions themselves are  *)
(* chosen as they are executed.                                            *)
(***************************************************************************)
EXTENDS Integers, FiniteSets, FiniteSetsExt, Sequences, SequencesExt

CONSTANTS N,           \* subintents of the transaction, by SubintentIndex 0 .. N-1
          MaxChildren, \* children of an intent
          MaxDepth,    \* max_subintent_depth
          MaxYields,   \* yields between an intent and one of its children
          Headers,     \* [network, start, end, from, to]: epochs, optional timestamps
          Network,     \* required_network_id
          MaxEpochs,   \* max_epoch_range
          Instants,    \* epochs and timestamps to compare ranges on
          Tokens,      \* resources the intents move
          MaxMoves,    \* withdrawals and deposits of all manifests
          Badged,      \* threads whose auth zone satisfies a VERIFY_PARENT rule
          UseRoot      \* use_root_for_verify_parent_instruction, before CuttlefishPart2

ASSUME IntentsAssumption ==
  /\ N \in Nat /\ MaxChildren \in Nat /\ MaxDepth \in Nat \ {0} /\ MaxEpochs \in Nat
  /\ MaxYields \in Nat \ {0} /\ MaxMoves \in Nat
  /\ Badged \subseteq 0 .. N /\ UseRoot \in BOOLEAN

Subintent == 0 .. (N - 1)
Root == 0
ThreadOf(i) == i + 1
Thread == 0 .. N
Hash == 0 .. N          \* N: a subintent that is not part of the transaction
Placeholder == N + 1    \* PLACEHOLDER_PARENT

VARIABLES
  phase,         \* relating, marking, validating, running, or how it ended
  partial,       \* the root is a subintent
  children,      \* children() of each intent, by thread
  \* validate_intent_relationships
  related,       \* the intents whose children have been handled
  parent,        \* per subintent, the thread of its parent
  depth,         \* per subintent, its depth, 0 when not reached
  work_list,     \* a stack of <<subintent, depth>>
  \* validate_intents_and_structure
  validated,     \* the number of intents validated so far
  overall,       \* the overall validity range: [start, end, from, to]
  points,        \* history: the <<epoch, time>> valid for all of them
  child_yields,  \* per subintent, YIELD_TO_CHILDs its parent's manifest still has
  parent_yields, \* per subintent, YIELD_TO_PARENTs its own manifest still has
  \* MultiThreadIntentProcessor::execute
  cur_thread, parent_stack,
  passed_value,  \* <<>> or <<the tokens handed over>>
  stack_nodes,   \* per thread, the tokens its stack owns
  worktop,       \* per thread, the tokens on its worktop
  world,         \* the tokens in accounts
  cleaned,       \* threads whose stack has been cleaned up
  moves          \* withdrawals and deposits so far

intents == <<partial, children>>
validation == <<related, parent, depth, work_list, validated, overall, points>>
execution == <<cur_thread, parent_stack, passed_value, stack_nodes, worktop, world, cleaned, moves>>
vars == <<phase, intents, validation, child_yields, parent_yields, execution>>

Final == {"no_tree", "rejected", "partial", "aborted", "broken", "success"}
Unbounded == [start |-> Min(Instants), end |-> Max(Instants) + 1, from |-> <<>>, to |-> <<>>]

Init ==
  /\ phase = "relating"
  /\ partial \in BOOLEAN
  /\ children \in [Thread -> {S \in SUBSET Hash : Cardinality(S) <= MaxChildren}]
  /\ related = 0
  /\ parent = [i \in Subintent |-> Placeholder]
  /\ depth = [i \in Subintent |-> 0]
  /\ work_list = <<>>
  /\ validated = 0
  /\ overall = Unbounded
  /\ points = Instants \X Instants
  /\ child_yields = [i \in Subintent |-> 0]
  /\ parent_yields = [i \in Subintent |-> 0]
  /\ cur_thread = Root
  /\ parent_stack = <<>>
  /\ passed_value = <<>>
  /\ stack_nodes = [t \in Thread |-> {}]
  /\ worktop = [t \in Thread |-> {}]
  /\ world = Tokens
  /\ cleaned = {}
  /\ moves = 0

Reject(why) ==
  /\ phase' = why
  /\ UNCHANGED <<intents, validation, child_yields, parent_yields, execution>>

-----------------------------------------------------------------------------
(* Mutant: a second parent takes the child over. *)
CanRelate_Shared(t) == children[t] \subseteq Subintent
(* STEP 2: the children of the root, then of each subintent.  A child has  *)
(* to be part of the transaction and must not have a parent yet.           *)
CanRelate(t) ==
  /\ children[t] \subseteq Subintent
  /\ \A i \in children[t] : parent[i] = Placeholder
RelateChildren ==
  /\ phase = "relating" /\ related <= N
  /\ IF CanRelate(related)
     THEN /\ parent' = [i \in Subintent |-> IF i \in children[related] THEN related ELSE parent[i]]
          /\ related' = related + 1
          /\ UNCHANGED <<phase, intents, depth, work_list, validated, overall, points,
                         child_yields, parent_yields, execution>>
     ELSE Reject("no_tree")

Push(list, S, d) ==
  list \o [k \in 1 .. Cardinality(S) |-> <<SetToSortSeq(S, <)[k], d>>]

StartMarking ==
  /\ phase = "relating" /\ related = N + 1
  /\ phase' = "marking"
  /\ work_list' = Push(<<>>, children[Root], 1)
  /\ UNCHANGED <<intents, related, parent, depth, validated, overall, points, child_yields,
                 parent_yields, execution>>

(* A partial transaction is going to be a child itself. *)
MaxDepthHere == IF partial THEN MaxDepth - 1 ELSE MaxDepth

(* STEP 3: one element of the work list. *)
MarkDepth ==
  /\ phase = "marking" /\ work_list # <<>>
  /\ LET i == Last(work_list)[1]
         d == Last(work_list)[2]
     IN IF d > MaxDepthHere THEN Reject("no_tree")
        ELSE /\ depth' = [depth EXCEPT ![i] = d]
             /\ work_list' = Push(Front(work_list), children[ThreadOf(i)], d + 1)
             /\ UNCHANGED <<phase, intents, related, parent, validated, overall, points,
                            child_yields, parent_yields, execution>>

(* STEP 4 *)
CheckReached ==
  /\ phase = "marking" /\ work_list = <<>>
  /\ IF \E i \in Subintent : depth[i] = 0 THEN Reject("no_tree")
     ELSE /\ phase' = "validating"
          /\ UNCHANGED <<intents, validation, child_yields, parent_yields, execution>>

-----------------------------------------------------------------------------
Later(o, v) == IF o = <<>> \/ v[1] > o[1] THEN v ELSE o
Earlier(o, v) == IF o = <<>> \/ v[1] < o[1] THEN v ELSE o

(* update_headers: epochs are required, timestamps optional. *)
Narrow(range, h) ==
  [start |-> Max({range.start, h.start}), end |-> Min({range.end, h.end}),
   from |-> IF h.from = <<>> THEN range.from ELSE Later(range.from, h.from),
   to |-> IF h.to = <<>> THEN range.to ELSE Earlier(range.to, h.to)]
IsEmpty(range) ==
  \/ range.start >= range.end
  \/ range.from # <<>> /\ range.to # <<>> /\ range.from[1] >= range.to[1]

(* validate_intent_header_v2, before it updates the overall range. *)
ValidHeader(h) ==
  /\ h.network = Network
  /\ ~IsEmpty(h)
  /\ h.end <= h.start + MaxEpochs

Within(range, e, t) ==
  /\ range.start <= e /\ e < range.end
  /\ range.from # <<>> => range.from[1] <= t
  /\ range.to # <<>> => t < range.to[1]

ChildrenOf(t) == {i \in Subintent : parent[i] = t}

(* validate_intent: the header narrows the overall range, and the manifest *)
(* yields n[i] times to its child i and m times to its parent.  A          *)
(* subintent's last instruction is a YIELD_TO_PARENT, a transaction's root *)
(* has none.                                                               *)
IsSubintent(t) == t # Root \/ partial
ValidateIntent(h, n, m) ==
  /\ phase = "validating" /\ validated <= N
  /\ DOMAIN n = ChildrenOf(validated)
  /\ ~IsSubintent(validated) => m = 0
  /\ LET range == Narrow(overall, h)
     IN IF ~ValidHeader(h) \/ IsEmpty(range) \/ (IsSubintent(validated) /\ m = 0)
        THEN Reject("rejected")
        ELSE /\ overall' = range
             /\ points' = {p \in points : Within(h, p[1], p[2])}
             /\ child_yields' = n @@ child_yields
             /\ parent_yields' = IF validated = Root THEN parent_yields
                                 ELSE [parent_yields EXCEPT ![validated - 1] = m]
             /\ validated' = validated + 1
             /\ UNCHANGED <<phase, intents, related, parent, depth, work_list, execution>>

(* Mutant: a subintent may have yields left over. *)
YieldsMatch_AtMost == \A i \in Subintent : child_yields[i] <= parent_yields[i]
(* The yields of a parent to a child have to match those back. *)
YieldsMatch == \A i \in Subintent : child_yields[i] = parent_yields[i]

(* The processor gets a validated tree; the range and the depths are for   *)
(* others, so they are forgotten here.                                     *)
StartRun ==
  /\ phase = "validating" /\ validated = N + 1
  /\ IF ~YieldsMatch THEN Reject("rejected")
     ELSE /\ phase' = IF partial THEN "partial" ELSE "running"
          /\ overall' = Unbounded /\ points' = Instants \X Instants
          /\ UNCHANGED <<intents, related, parent, depth, work_list, validated, child_yields,
                         parent_yields, execution>>
-----------------------------------------------------------------------------
(* The processor.  children_mapping lists, per thread, the threads of its  *)
(* children in the order in which the manifest numbers them.               *)
ChildrenMapping(t) ==
  LET cs == SetToSortSeq(children[t], <)
  IN [k \in DOMAIN cs |-> ThreadOf(cs[k])]

(* A thread runs when it has taken in what was handed to it. *)
Running == phase = "running" /\ passed_value = <<>>
End(how) ==
  /\ phase' = how
  /\ UNCHANGED <<intents, validation, child_yields, parent_yields, execution>>

(* resume, first part: handle_call_return_data puts buckets on the worktop. *)
Receive ==
  /\ phase = "running" /\ passed_value # <<>>
  /\ worktop' = [worktop EXCEPT ![cur_thread] = @ \cup passed_value[1]]
  /\ passed_value' = <<>>
  /\ UNCHANGED <<phase, intents, validation, child_yields, parent_yields, cur_thread,
                 parent_stack, stack_nodes, world, cleaned, moves>>

(* The other instructions of a manifest move resources between accounts    *)
(* and the worktop.                                                        *)
Withdraw(x) ==
  /\ Running /\ moves < MaxMoves /\ x \in world
  /\ world' = world \ {x}
  /\ worktop' = [worktop EXCEPT ![cur_thread] = @ \cup {x}]
  /\ stack_nodes' = [stack_nodes EXCEPT ![cur_thread] = @ \cup {x}]
  /\ moves' = moves + 1
  /\ UNCHANGED <<phase, intents, validation, child_yields, parent_yields, cur_thread,
                 parent_stack, passed_value, cleaned>>

Deposit(x) ==
  /\ Running /\ moves < MaxMoves /\ x \in worktop[cur_thread]
  /\ world' = world \cup {x}
  /\ worktop' = [worktop EXCEPT ![cur_thread] = @ \ {x}]
  /\ stack_nodes' = [stack_nodes EXCEPT ![cur_thread] = @ \ {x}]
  /\ moves' = moves + 1
  /\ UNCHANGED <<phase, intents, validation, child_yields, parent_yields, cur_thread,
                 parent_stack, passed_value, cleaned>>

(* Mutant: the stack is cleaned up before the value is sent. *)
SwitchThread_CleansFirst(next, S, done) ==
  /\ stack_nodes' = [stack_nodes EXCEPT ![cur_thread] = @ \ S, ![next] = @ \cup S]
  /\ worktop' = [worktop EXCEPT ![cur_thread] = @ \ S]
  /\ passed_value' = <<S>>
  /\ phase' = IF done /\ stack_nodes[cur_thread] # {} THEN "broken" ELSE phase
  /\ cleaned' = IF done THEN cleaned \cup {cur_thread} ELSE cleaned
  /\ cur_thread' = next
  /\ UNCHANGED <<intents, validation, world, moves>>
(* SwitchThread: the tokens S go to the stack of the next thread; then, if *)
(* the intent is done, its own stack is cleaned up, and has to be empty.   *)
SwitchThread(next, S, done) ==
  LET sent == [stack_nodes EXCEPT ![cur_thread] = @ \ S, ![next] = @ \cup S]
  IN /\ stack_nodes' = sent
     /\ worktop' = [worktop EXCEPT ![cur_thread] = @ \ S]
     /\ passed_value' = <<S>>
     /\ phase' = IF done /\ sent[cur_thread] # {} THEN "broken" ELSE phase
     /\ cleaned' = IF done THEN cleaned \cup {cur_thread} ELSE cleaned
     /\ cur_thread' = next
     /\ UNCHANGED <<intents, validation, world, moves>>

(* YIELD_TO_CHILD of the k-th child. *)
YieldToChild(k, S) ==
  /\ Running
  /\ k \in DOMAIN ChildrenMapping(cur_thread)
  /\ LET next == ChildrenMapping(cur_thread)[k]
         i == SetToSortSeq(children[cur_thread], <)[k]
     IN /\ child_yields[i] > 0
        /\ IF next \in cleaned THEN End("broken")
           ELSE /\ SwitchThread(next, S, FALSE)
                /\ parent_stack' = Append(parent_stack, cur_thread)
                /\ child_yields' = [child_yields EXCEPT ![i] = @ - 1]
                /\ UNCHANGED parent_yields

(* YIELD_TO_PARENT; the last one drops the worktop, which has to be empty, *)
(* and ends the intent.                                                    *)
YieldToParent(S) ==
  /\ Running /\ cur_thread # Root
  /\ LET i == cur_thread - 1
         done == parent_yields[i] = 1
     IN /\ parent_yields[i] > 0
        /\ done => \A c \in ChildrenOf(cur_thread) : child_yields[c] = 0
        /\ IF done /\ worktop[cur_thread] # S THEN End("aborted")
           ELSE IF parent_stack = <<>> THEN End("broken")
           ELSE /\ SwitchThread(Last(parent_stack), S, done)
                /\ parent_stack' = Front(parent_stack)
                /\ parent_yields' = [parent_yields EXCEPT ![i] = @ - 1]
                /\ UNCHANGED child_yields

(* check_yielded_value: proofs do not leave their intent. *)
YieldProof ==
  /\ Running
  /\ \/ \E i \in ChildrenOf(cur_thread) : child_yields[i] > 0
     \/ cur_thread # Root
  /\ End("aborted")

(* VERIFY_PARENT, which the validator refuses in a root intent. *)
VerifyParent ==
  /\ Running /\ cur_thread # Root
  /\ IF parent_stack = <<>> THEN End("broken")
     ELSE /\ (IF UseRoot THEN Head(parent_stack) ELSE Last(parent_stack)) \notin Badged
          /\ End("aborted")

(* The end of the root's manifest: worktop.drop, cleanup, and the final    *)
(* assertion that no intent waits.                                         *)
RootIntentDone ==
  /\ Running /\ cur_thread = Root
  /\ \A i \in ChildrenOf(Root) : child_yields[i] = 0
  /\ IF worktop[Root] # {} THEN End("aborted")
     ELSE IF stack_nodes[Root] # {} \/ parent_stack # <<>> THEN End("broken")
     ELSE /\ phase' = "success"
          /\ cleaned' = cleaned \cup {Root}
          /\ UNCHANGED <<intents, validation, child_yields, parent_yields, cur_thread,
                         parent_stack, passed_value, stack_nodes, worktop, world, moves>>

Ended == phase \in Final /\ UNCHANGED vars

Next ==
  \/ RelateChildren \/ StartMarking \/ MarkDepth \/ CheckReached
  \/ \E h \in Headers, n \in [ChildrenOf(validated) -> 0 .. MaxYields], m \in 0 .. MaxYields :
       ValidateIntent(h, n, m)
  \/ StartRun
  \/ Receive
  \/ \E x \in Tokens : Withdraw(x) \/ Deposit(x)
  \/ \E k \in 1 .. MaxChildren, S \in SUBSET worktop[cur_thread] : YieldToChild(k, S)
  \/ \E S \in SUBSET worktop[cur_thread] : YieldToParent(S)
  \/ YieldProof \/ VerifyParent \/ RootIntentDone
  \/ Ended

Spec == Init /\ [][Next]_vars

-----------------------------------------------------------------------------
IsTree ==
  \E up \in [Subintent -> Thread],
     d \in [Subintent -> 1 .. (IF partial THEN MaxDepth - 1 ELSE MaxDepth)] :
    /\ \A t \in Thread : children[t] = {i \in Subintent : up[i] = t}
    /\ \A i \in Subintent : d[i] = IF up[i] = Root THEN 1 ELSE d[up[i] - 1] + 1

(* The relations are accepted exactly when they form a tree under the root *)
(* of no more than the allowed depth, less one for a root that will be a   *)
(* child itself: "Therefore there is a unique path from every subintent to *)
(* the root, which implies the subintents form a tree"                     *)
(* (validate_intent_relationships). Cycles, shared and missing children    *)
(* are refused however they are listed, and nothing else is. The overall   *)
(* validity range that is narrowed intent by intent is the intersection of *)
(* the ranges of the intents seen so far, and not empty.                   *)
ValidatorIsExact ==
  /\ phase \in {"validating", "running", "rejected", "partial", "aborted", "broken", "success"}
       => IsTree
  /\ phase = "no_tree" => ~IsTree
  /\ points = {p \in Instants \X Instants : Within(overall, p[1], p[2])}
  /\ points # {}

(* In a validated transaction the threads on parent_stack and the current  *)
(* one are a path of the tree from the root, so a yield to the parent      *)
(* reaches the parent; no thread is resumed after its end, no stack is     *)
(* cleaned up while it owns something, and the final                       *)
(* `assert!(parent_stack.is_empty())` holds.                               *)
YieldsFollowTheTree ==
  /\ phase = "running" =>
       LET path == Append(parent_stack, cur_thread)
       IN /\ path[1] = Root
          /\ \A k \in DOMAIN parent_stack : path[k + 1] - 1 \in children[path[k]]
  /\ phase # "broken"

(* Whatever is handed from stack to stack is owned by exactly one of them  *)
(* or in an account, and when the root ends, every subintent has run to    *)
(* its own end and nothing is left in a stack.                             *)
EveryIntentFinishes ==
  /\ \A x \in Tokens :
       IF x \in world THEN \A t \in Thread : x \notin stack_nodes[t]
       ELSE Cardinality({t \in Thread : x \in stack_nodes[t]}) = 1
  /\ phase = "success" => cleaned = Thread /\ world = Tokens
=============================================================================
