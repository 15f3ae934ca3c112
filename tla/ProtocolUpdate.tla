--------------------------- MODULE ProtocolUpdate ---------------------------
(***************************************************************************)
(* Protocol updates that survive a restart: ProtocolExecutor finds where   *)
(* to start from the status substate in the database, and                  *)
(* ProtocolUpdateExecutor runs the batches of each update, committing      *)
(* their transactions one by one; the last transaction of a batch records  *)
(* the status.  The process may stop between any two commits.  Only        *)
(* updates with status tracking are modelled (CuttlefishPart1 and later);  *)
(* the ones before them always run from their start.  Groups, batches and  *)
(* transactions count from 0, as in the code.                              *)
(***************************************************************************)
EXTENDS Naturals, Sequences

CONSTANTS
    Shape,      \* per update, batch group and batch, the number of its transactions
    MaxCrashes  \* bound on the number of restarts

ASSUME UpdateAssumption ==
    /\ Shape \in Seq(Seq(Seq(Nat))) /\ Shape # <<>>
    /\ MaxCrashes \in Nat

Latest == Len(Shape)

\* the batch groups of update v, the "completion" group included
Groups(v) == Append(Shape[v], <<0>>)
GroupCount(v) == Len(Groups(v))
BatchCount(v, g) == Len(Groups(v)[g + 1])
TransactionCount(v, g, b) == Groups(v)[g + 1][b + 1]

VARIABLES
    status,     \* the ProtocolUpdateStatusSummary in the database
    log,        \* the transactions committed to the database, in order
    pc,         \* where the executor is; "down" when no process runs
    version,    \* protocol_version of the running ProtocolUpdateExecutor
    startGroup, \* start_at_batch_group_index
    startBatch, \* start_at_batch_index_in_first_group
    group,      \* position in batch_groups
    batch,      \* position in the batches of the group
    transaction, \* transaction_index in the batch
    crashes

position == <<version, startGroup, startBatch, group, batch, transaction>>
vars == <<status, log, pc, position, crashes>>

\* the database of a ledger at the version before the first update
Init ==
    /\ status = [version |-> 0, complete |-> TRUE, group |-> 0, batch |-> 0]
    /\ log = <<>>
    /\ pc = "down"
    /\ version = 0 /\ startGroup = 0 /\ startBatch = 0
    /\ group = 0 /\ batch = 0 /\ transaction = 0
    /\ crashes = 0

\* the executor of update v is created, to start at batch b of group g
Continue(v, g, b) ==
    /\ version' = v
    /\ startGroup' = g
    /\ startBatch' = b
    /\ group' = g
    /\ batch' = 0
    /\ transaction' = 0
    /\ pc' = "group"

\* broken variant: the batch that was committed last is run again
ResumePoint_Inclusive ==
    IF status.complete THEN <<status.version + 1, 0, 0>>
    ELSE <<status.version, status.group, status.batch>>

\* each_target_protocol_version: the first update to run and where it starts
ResumePoint ==
    IF status.complete THEN <<status.version + 1, 0, 0>>
    ELSE <<status.version, status.group, status.batch + 1>>

\* a process starts and discovers the start point from the database
Start ==
    /\ pc = "down"
    /\ IF ResumePoint[1] <= Latest
       THEN Continue(ResumePoint[1], ResumePoint[2], ResumePoint[3])
       ELSE pc' = "finished" /\ UNCHANGED position
    /\ UNCHANGED <<status, log, crashes>>

\* the indices that run_and_commit_advanced gives to groups and batches: it
\* enumerates after it skips
GroupIndex == group - startGroup
StartAtBatch == IF GroupIndex = startGroup THEN startBatch ELSE 0
BatchIndex == batch - StartAtBatch

EnterGroup ==
    /\ pc = "group"
    /\ group < GroupCount(version)
    /\ batch' = StartAtBatch
    /\ pc' = "batch"
    /\ UNCHANGED <<status, log, version, startGroup, startBatch, group, transaction, crashes>>

\* a transaction of the batch is executed and committed on its own
CommitTransaction ==
    /\ pc = "batch"
    /\ batch < BatchCount(version, group)
    /\ transaction < TransactionCount(version, group, batch)
    /\ log' = Append(log, <<version, group, batch, transaction>>)
    /\ transaction' = transaction + 1
    /\ UNCHANGED <<status, pc, version, startGroup, startBatch, group, batch, crashes>>

IsLastBatch ==
    /\ GroupIndex = GroupCount(version) - 1
    /\ BatchIndex = BatchCount(version, group) - 1

\* generate_update_status_flash_transaction, the last transaction of the batch
CommitStatus ==
    /\ pc = "batch"
    /\ batch < BatchCount(version, group)
    /\ transaction = TransactionCount(version, group, batch)
    /\ status' = IF IsLastBatch
                 THEN [version |-> version, complete |-> TRUE, group |-> 0, batch |-> 0]
                 ELSE [version |-> version, complete |-> FALSE,
                       group |-> GroupIndex, batch |-> BatchIndex]
    /\ batch' = batch + 1
    /\ transaction' = 0
    /\ UNCHANGED <<log, pc, version, startGroup, startBatch, group, crashes>>

LeaveGroup ==
    /\ pc = "batch"
    /\ batch >= BatchCount(version, group)
    /\ group' = group + 1
    /\ pc' = "group"
    /\ UNCHANGED <<status, log, version, startGroup, startBatch, batch, transaction, crashes>>


\* all_between_inclusive has another version
HasNextVersion == version < Latest

\* the update is done: the next one runs from its start
LeaveVersion ==
    /\ pc = "group"
    /\ group >= GroupCount(version)
    /\ IF HasNextVersion
       THEN Continue(version + 1, 0, 0)
       ELSE pc' = "finished" /\ UNCHANGED position
    /\ UNCHANGED <<status, log, crashes>>

\* the process stops; only the database survives
Crash ==
    /\ pc # "down"
    /\ crashes < MaxCrashes
    /\ pc' = "down"
    /\ crashes' = crashes + 1
    /\ version' = 0 /\ startGroup' = 0 /\ startBatch' = 0
    /\ group' = 0 /\ batch' = 0 /\ transaction' = 0
    /\ UNCHANGED <<status, log>>

Run ==
    \/ Start \/ EnterGroup \/ CommitTransaction \/ CommitStatus
    \/ LeaveGroup \/ LeaveVersion

Next == Run \/ Crash

Spec == Init /\ [][Next]_vars

\* a process that is up keeps running, and one that went down is started again
FairSpec == Spec /\ WF_vars(Run)

-----------------------------------------------------------------------------
(***************************************************************************)
(* Properties                                                              *)
(***************************************************************************)

\* the transactions of all updates, status updates aside
Plan ==
    UNION {UNION {UNION {
        {<<v, g, b, t>> : t \in 0..(TransactionCount(v, g, b) - 1)} :
            b \in 0..(BatchCount(v, g) - 1)} : g \in 0..(GroupCount(v) - 1)} : v \in 1..Latest}

Committed == {log[i] : i \in 1..Len(log)}

\* t comes after s in the plan
Precedes(s, t) == \E k \in 1..4 : s[k] < t[k] /\ \A j \in 1..(k - 1) : s[j] = t[j]

\* the status substate says that the batch of t is done
Recorded(t) ==
    \/ t[1] < status.version
    \/ /\ t[1] = status.version
       /\ \/ status.complete
          \/ t[2] < status.group
          \/ t[2] = status.group /\ t[3] <= status.batch

\* Wherever the process was restarted, between two batches or inside one: a transaction is
\* committed only after all that are planned before it, and never again once the status
\* substate records its batch; and the status is never ahead of what is committed, so that
\* nobody sees an update as done while transactions of it are missing.
ResumesAfterRecorded ==
    [][/\ \A t \in Plan : log' = Append(log, t) =>
              /\ ~Recorded(t)
              /\ \A s \in Plan : Precedes(s, t) => s \in Committed
       /\ \A t \in Plan : Recorded(t)' => t \in Committed']_vars

\* What protocol_update_generation.rs says of a batch, "a batch of transactions to be
\* committed atomically": a process that starts finds whole batches in the database, with
\* their status, and nothing of any other batch.  run_and_commit_advanced commits the
\* transactions of a batch, and its status, one by one.
BatchesAtomic == pc = "down" => \A t \in Plan : t \in Committed <=> Recorded(t)

=============================================================================
