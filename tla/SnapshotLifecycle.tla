------------------------- MODULE SnapshotLifecycle -------------------------
(***************************************************************************)
(* The life of a snapshot: the row the API keeps in Postgres, the Temporal *)
(* execution that computes it, and the actors that write both:             *)
(*                                                                         *)
(*   - the create request (SnapshotService.create), which inserts the row, *)
(*     starts the workflow and classifies a failed start;                  *)
(*   - the OrchestratorWorkflow, whose activities read and write the row,  *)
(*     store objects and post the scores;                                  *)
(*   - the reconciler (SnapshotReconcilerService), which settles or        *)
(*     restarts rows nobody finished;                                      *)
(*   - the delete request (SnapshotService.deleteById).                    *)
(*                                                                         *)
(* An activity has up to MaxAttempts attempts.  An attempt may be lost     *)
(* before or after its effect, and an attempt that timed out or whose run  *)
(* was cancelled or terminated may still commit its effect later: these    *)
(* late effects wait in the variable late.                                 *)
(***************************************************************************)
EXTENDS Integers, FiniteSets

CONSTANTS
  N,            \* number of snapshots; their ids 1..N are in createdAt order
  Combined,     \* the ids whose algorithm is of kind `combined'
  MaxAttempts,  \* ACTIVITY_MAX_ATTEMPTS
  MaxRuns,      \* bound: workflow runs started per snapshot
  MaxLate       \* bound: attempts in flight whose caller gave up on them

Snapshots == 1..N

ASSUME NAssumption == N \in Nat
ASSUME CombinedAssumption == Combined \subseteq Snapshots
ASSUME BoundsAssumption ==
  MaxAttempts \in Nat \ {0} /\ MaxRuns \in Nat /\ MaxLate \in Nat

VARIABLES
  row,          \* row[s]: the row of `snapshots' and its `snapshot_outputs'
  publication,  \* publication[s]: the row of `snapshot_publications'
  objects,      \* ids whose result objects are in the bucket
  posted,       \* ids whose scores have been posted to DeepID by a run
  exec,         \* exec[s]: status of the Temporal execution snapshot-<s>
  runs,         \* runs[s]: how many runs have been started
  cancelReq,    \* ids whose current run has a pending cancel request
  pc,           \* pc[s]: the activity the current run is waiting for
  attempt,      \* attempt[s]: the attempt of that activity, from 1
  late,         \* <<s, w>>: effects of abandoned attempts, still to commit
  creator,      \* creator[s]: where the create request of s is
  deleter,      \* deleter[s]: where the delete request of s is
  recPc,        \* where the reconciler pass is
  todo          \* the listed rows the pass has still to look at

vars == <<row, publication, objects, posted, exec, runs, cancelReq, pc,
          attempt, late, creator, deleter, recPc, todo>>

storeVars    == <<row, publication, objects, posted>>
workflowVars == <<exec, runs, cancelReq, pc, attempt>>
recVars      == <<recPc, todo>>

-----------------------------------------------------------------------------
(* The row.                                                                *)

Terminal == {"completed", "failed", "cancelled"}
Live     == {"queued", "running"}
Status   == {"absent", "deleted"} \cup Live \cup Terminal

\* Timestamps are abstracted to what the code compares: startedAt and
\* completedAt to whether they are set, updatedAt to whether it is older than
\* the reconciler's grace, createdAt to whether it is older than its start
\* budget.  outputs are "given" by the create request or "produced" by a run.
Row == [status      : Status,
        startedAt   : {"unset", "set"},
        completedAt : {"unset", "set"},
        outputs     : {"unset", "given", "produced"},
        error       : {"unset", "workflow", "reconciled", "start"},
        updatedAt   : {"fresh", "stale"},
        createdAt   : {"fresh", "old"}]

NoRow(st) == [status |-> st, startedAt |-> "unset", completedAt |-> "unset",
              outputs |-> "unset", error |-> "unset",
              updatedAt |-> "fresh", createdAt |-> "fresh"]

Exists(r) == r.status \in Live \cup Terminal

\* Mutant: only `completed' is immutable, a failed row may be reopened.
CanTransitionReopens(from, to) ==
  \/ from = to
  \/ from = "queued" /\ to # "completed"
  \/ from = "running" /\ to \in Terminal
  \/ from \in {"failed", "cancelled"} /\ to = "running"

\* The status state machine of the repository.
CanTransition(from, to) ==
  \/ from = to
  \/ from = "queued" /\ to # "completed"
  \/ from = "running" /\ to \in Terminal

\* A requested change: "unset" stands for a field the caller leaves undefined.
Update(st, out, err) == [status |-> st, outputs |-> out, error |-> err]

\* Mutant: a forbidden status is dropped, the rest of the update is applied.
ApplyExternalUpdatePartly(r, u) ==
  LET allowed == u.status # "unset" /\ CanTransition(r.status, u.status)
  IN  IF ~Exists(r)
      THEN r
      ELSE [status      |-> IF allowed THEN u.status ELSE r.status,
            startedAt   |-> IF u.status = "running" THEN "set" ELSE r.startedAt,
            completedAt |-> IF u.status \in Terminal THEN "set" ELSE r.completedAt,
            outputs     |-> IF u.outputs # "unset" THEN u.outputs ELSE r.outputs,
            error       |-> IF u.error # "unset" THEN u.error ELSE r.error,
            updatedAt   |-> "fresh",
            createdAt   |-> r.createdAt]

\* SnapshotService.applyExternalUpdate stamps startedAt and completedAt from
\* the status; SnapshotRepository.applyExternalUpdate ignores the whole update
\* when the status may not change, and does nothing without a row.  Every
\* caller passes a status or a temporal object, so updatedAt is always set.
ApplyExternalUpdate(r, u) ==
  IF ~Exists(r) \/ (u.status # "unset" /\ ~CanTransition(r.status, u.status))
  THEN r
  ELSE [status      |-> IF u.status # "unset" THEN u.status ELSE r.status,
        startedAt   |-> IF u.status = "running" THEN "set" ELSE r.startedAt,
        completedAt |-> IF u.status \in Terminal THEN "set" ELSE r.completedAt,
        outputs     |-> IF u.outputs # "unset" THEN u.outputs ELSE r.outputs,
        error       |-> IF u.error # "unset" THEN u.error ELSE r.error,
        updatedAt   |-> "fresh",
        createdAt   |-> r.createdAt]

-----------------------------------------------------------------------------
(* The workflow: what it waits for, and where it goes next.                *)

ReadPcs   == {"getSnapshot", "getCompleted"}
WritePcs  == {"markRunning", "persistOutputs", "markCompleted",
              "markFailed", "markCancelled"}
RecordPcs == {"recordPending", "recordSent", "recordFailed"}
WorkPcs   == {"phases", "submitRaw", "encrypted", "postScores"}
Pcs       == ReadPcs \cup WritePcs \cup RecordPcs \cup WorkPcs
Effects   == WritePcs \cup RecordPcs \cup {"phases", "postScores"}
Closed    == {"COMPLETED", "FAILED", "CANCELLED", "TERMINATED", "TIMED_OUT"}

\* The awaits after the running write, before the completed one returns.
RunningPcs == {"phases", "persistOutputs", "submitRaw", "encrypted",
               "markCompleted"}
\* The best-effort posting stage after the completed write.
PostingPcs == {"getCompleted", "postScores"} \cup RecordPcs

\* The updateSnapshot calls of the workflow, by the await that issues them.
UpdateCalls ==
  {<<"markRunning",    Update("running", "unset", "unset")>>,
   <<"persistOutputs", Update("unset", "produced", "unset")>>,
   <<"markCompleted",  Update("completed", "produced", "unset")>>,
   <<"markFailed",     Update("failed", "unset", "workflow")>>,
   <<"markCancelled",  Update("cancelled", "unset", "workflow")>>}

\* Its recordSnapshotPublication calls.
PublicationCalls ==
  {<<"recordPending", "pending">>, <<"recordSent", "sent">>,
   <<"recordFailed", "failed">>}

\* What an attempt of activity w does to the world when it commits: the row
\* and publication writes are no-ops without a row.
Effect(s, w) ==
  /\ \/ w \notin WritePcs /\ row' = row
     \/ \E c \in UpdateCalls :
          /\ c[1] = w
          /\ row' = [row EXCEPT ![s] = ApplyExternalUpdate(row[s], c[2])]
  /\ \/ (w \notin RecordPcs \/ ~Exists(row[s])) /\ publication' = publication
     \/ /\ Exists(row[s])
        /\ \E c \in PublicationCalls :
             c[1] = w /\ publication' = [publication EXCEPT ![s] = c[2]]
  /\ objects' = IF w = "phases" THEN objects \cup {s} ELSE objects
  /\ posted' = IF w = "postScores" THEN posted \cup {s} ELSE posted

\* Where the workflow goes when the activity it waits for returns: from an
\* await to another one, or to the status its execution closes with.  A post
\* that found no postable output is recorded as failed.
SuccessEdges(s) ==
  {<<"getSnapshot", IF row[s].status = "completed" THEN "COMPLETED"
                                                    ELSE "markRunning">>,
   <<"markRunning", "phases">>,
   <<"phases", IF s \in Combined THEN "persistOutputs" ELSE "markCompleted">>,
   <<"persistOutputs", "submitRaw">>,
   <<"submitRaw", "encrypted">>,
   <<"encrypted", "markCompleted">>,
   <<"markCompleted", IF s \in Combined THEN "COMPLETED" ELSE "getCompleted">>,
   <<"getCompleted", "recordPending">>,
   <<"recordPending", "postScores">>,
   <<"postScores", "recordSent">>,
   <<"postScores", "recordFailed">>,
   <<"recordSent", "COMPLETED">>,
   <<"recordFailed", "COMPLETED">>,
   <<"markFailed", "FAILED">>,
   <<"markCancelled", "CANCELLED">>}

\* Mutant: a failed running write is logged and the run goes on.
EscapeEdgesSwallowed ==
  {<<"getSnapshot", "FAILED">>, <<"markRunning", "phases">>,
   <<"markFailed", "FAILED">>, <<"markCancelled", "CANCELLED">>}

\* ... and when it throws: before the running write the error escapes, after
\* it the failure handler writes the terminal status (and swallows an error of
\* that write), and the posting stage swallows everything.
EscapeEdges ==
  {<<"getSnapshot", "FAILED">>, <<"markRunning", "FAILED">>,
   <<"markFailed", "FAILED">>, <<"markCancelled", "CANCELLED">>}

\* Mutant: a failed post is recorded as sent.
SwallowEdgesSent ==
  {<<"getCompleted", "recordFailed">>, <<"postScores", "recordSent">>,
   <<"recordPending", "postScores">>, <<"recordSent", "COMPLETED">>,
   <<"recordFailed", "COMPLETED">>}

SwallowEdges ==
  {<<"getCompleted", "recordFailed">>, <<"postScores", "recordFailed">>,
   <<"recordPending", "postScores">>, <<"recordSent", "COMPLETED">>,
   <<"recordFailed", "COMPLETED">>}

FailureEdges == EscapeEdges \cup SwallowEdges \cup (RunningPcs \X {"markFailed"})

\* The non-retryable SNAPSHOT_NOT_FOUND skips the terminal status write.
NotFoundEdges == EscapeEdges \cup SwallowEdges \cup (RunningPcs \X {"FAILED"})

\* Mutant: a cancellation is caught around the whole run, which completes.
CancelEdgesCaught ==
  ({"getSnapshot", "markRunning"} \cup RunningPcs \cup PostingPcs)
    \X {"COMPLETED"}

\* A cancellation in the posting stage also cancels the write that would
\* record the failure: that error is swallowed and the run completes.  The
\* failure handler runs in a non-cancellable scope.
CancelEdges ==
  {<<"getSnapshot", "CANCELLED">>, <<"markRunning", "CANCELLED">>}
    \cup (RunningPcs \X {"markCancelled"}) \cup (PostingPcs \X {"COMPLETED"})

-----------------------------------------------------------------------------
Init ==
  /\ row = [s \in Snapshots |-> NoRow("absent")]
  /\ publication = [s \in Snapshots |-> "unset"]
  /\ objects = {}
  /\ posted = {}
  /\ exec = [s \in Snapshots |-> "none"]
  /\ runs = [s \in Snapshots |-> 0]
  /\ cancelReq = {}
  /\ pc = [s \in Snapshots |-> "none"]
  /\ attempt = [s \in Snapshots |-> 1]
  /\ late = {}
  /\ creator = [s \in Snapshots |-> "none"]
  /\ deleter = [s \in Snapshots |-> "none"]
  /\ recPc = "idle"
  /\ todo = {}

-----------------------------------------------------------------------------
(* Temporal.                                                               *)

\* startRunSnapshotWorkflow reaching the server: a running execution counts as
\* started, any other is replaced by a new run of the same workflow id.
StartWorkflow(s) ==
  IF exec[s] = "RUNNING"
  THEN UNCHANGED workflowVars
  ELSE /\ runs[s] < MaxRuns
       /\ exec' = [exec EXCEPT ![s] = "RUNNING"]
       /\ runs' = [runs EXCEPT ![s] = @ + 1]
       /\ cancelReq' = cancelReq \ {s}
       /\ pc' = [pc EXCEPT ![s] = "getSnapshot"]
       /\ attempt' = [attempt EXCEPT ![s] = 1]

\* The run goes on to activity k, or closes with status k.
Goto(s, k) ==
  /\ pc' = [pc EXCEPT ![s] = IF k \in Closed THEN "none" ELSE k]
  /\ exec' = [exec EXCEPT ![s] = IF k \in Closed THEN k ELSE @]
  /\ attempt' = [attempt EXCEPT ![s] = 1]
  /\ UNCHANGED <<runs, cancelReq>>

\* The run follows one of the edges from the await it is at.
Follow(s, edges) == \E e \in edges : e[1] = pc[s] /\ Goto(s, e[2])

\* The attempt under way at pc[s] is given up: it may be gone, or still commit.
AbandonAttempt(s) ==
  \/ UNCHANGED late
  \/ /\ pc[s] \in Effects
     /\ Cardinality(late) < MaxLate
     /\ late' = late \cup {<<s, pc[s]>>}

\* The activity returns.  getSnapshot, updateSnapshot and
\* recordSnapshotPublication return only if they found the row.
ActivityCompletes(s) ==
  /\ pc[s] # "none"
  /\ pc[s] \in WorkPcs \/ Exists(row[s])
  /\ Effect(s, pc[s])
  /\ Follow(s, SuccessEdges(s))
  /\ UNCHANGED <<late, creator, deleter, recVars>>

\* The activity did not find the row.
ActivityNotFound(s) ==
  /\ pc[s] \in ReadPcs \cup WritePcs \cup RecordPcs
  /\ ~Exists(row[s])
  /\ Follow(s, NotFoundEdges)
  /\ UNCHANGED <<storeVars, late, creator, deleter, recVars>>

\* Mutant: no maximumAttempts.
AttemptOverUnlimited(s) ==
  /\ attempt' = [attempt EXCEPT ![s] = @ + 1]
  /\ UNCHANGED <<exec, runs, cancelReq, pc>>

\* The attempt failed: Temporal schedules the next one, or the activity fails
\* because the attempts are used up or its error is not retryable.
AttemptOver(s) ==
  \/ /\ attempt[s] < MaxAttempts
     /\ attempt' = [attempt EXCEPT ![s] = @ + 1]
     /\ UNCHANGED <<exec, runs, cancelReq, pc>>
  \/ /\ attempt[s] = MaxAttempts \/ pc[s] \in WorkPcs
     /\ Follow(s, FailureEdges)

\* ... before it had any effect, or timed out and may still have it,
AttemptFails(s) ==
  /\ pc[s] # "none"
  /\ AbandonAttempt(s)
  /\ AttemptOver(s)
  /\ UNCHANGED <<storeVars, creator, deleter, recVars>>

\* ... or after it committed.
ResponseLost(s) ==
  /\ pc[s] \in Effects
  /\ Effect(s, pc[s])
  /\ AttemptOver(s)
  /\ UNCHANGED <<late, creator, deleter, recVars>>

\* An attempt nobody waits for any more commits.
LateCommit ==
  \E a \in late :
    /\ Effect(a[1], a[2])
    /\ late' = late \ {a}
    /\ UNCHANGED <<workflowVars, creator, deleter, recVars>>

\* Somebody asks Temporal to cancel the run.
RequestCancel(s) ==
  /\ exec[s] = "RUNNING" /\ s \notin cancelReq
  /\ cancelReq' = cancelReq \cup {s}
  /\ UNCHANGED <<storeVars, exec, runs, pc, attempt, late, creator, deleter,
                 recVars>>

\* The pending await throws a CancelledFailure.
DeliverCancel(s) ==
  /\ s \in cancelReq
  /\ AbandonAttempt(s)
  /\ Follow(s, CancelEdges)
  /\ UNCHANGED <<storeVars, creator, deleter, recVars>>

\* The server closes the run without running workflow code again.
CloseRun(s, st) ==
  /\ exec[s] = "RUNNING"
  /\ AbandonAttempt(s)
  /\ Goto(s, st)

\* workflowRunTimeout.
RunTimesOut(s) ==
  /\ CloseRun(s, "TIMED_OUT")
  /\ UNCHANGED <<storeVars, creator, deleter, recVars>>

\* Somebody terminates the run in Temporal.
OperatorTerminates(s) ==
  /\ CloseRun(s, "TERMINATED")
  /\ UNCHANGED <<storeVars, creator, deleter, recVars>>

\* Temporal forgets a closed execution.
RetentionElapses(s) ==
  /\ exec[s] \in Closed
  /\ exec' = [exec EXCEPT ![s] = "none"]
  /\ UNCHANGED <<storeVars, runs, cancelReq, pc, attempt, late, creator,
                 deleter, recVars>>

-----------------------------------------------------------------------------
(* The create request.                                                     *)

CreateRow(s) ==
  /\ row[s].status = "absent"
  /\ \A t \in Snapshots : t < s => row[t].status # "absent"
  /\ \E out \in {"unset", "given"} :
       row' = [row EXCEPT ![s] = [NoRow("queued") EXCEPT !.outputs = out]]
  /\ creator' = [creator EXCEPT ![s] = "persistId"]
  /\ UNCHANGED <<publication, objects, posted, workflowVars, late, deleter,
                 recVars>>

\* launchSnapshotWorkflow persists the workflow id: an update without a
\* status, which a deleted row survives.
PersistWorkflowId(s) ==
  /\ creator[s] = "persistId"
  /\ row' = [row EXCEPT ![s] =
            ApplyExternalUpdate(row[s], Update("unset", "unset", "unset"))]
  /\ creator' = [creator EXCEPT ![s] = "start"]
  /\ UNCHANGED <<publication, objects, posted, workflowVars, late, deleter,
                 recVars>>

CreateStarts(s) ==
  /\ creator[s] = "start"
  /\ StartWorkflow(s)
  /\ creator' = [creator EXCEPT ![s] = "done"]
  /\ UNCHANGED <<storeVars, late, deleter, recVars>>

\* The start call failed, with or without the server having started the run.
CreateStartFails(s) ==
  /\ creator[s] = "start"
  /\ StartWorkflow(s) \/ UNCHANGED workflowVars
  /\ creator' = [creator EXCEPT ![s] = "classify"]
  /\ UNCHANGED <<storeVars, late, deleter, recVars>>

\* handleStartFailure: only a missing execution is marked as a failed start.
ClassifyStart(s) ==
  /\ creator[s] = "classify"
  /\ creator' = [creator EXCEPT ![s] =
                   IF exec[s] = "none" THEN "markFailed" ELSE "done"]
  /\ UNCHANGED <<storeVars, workflowVars, late, deleter, recVars>>

MarkStartFailed(s) ==
  /\ creator[s] = "markFailed"
  /\ row' = [row EXCEPT ![s] =
            ApplyExternalUpdate(row[s], Update("failed", "unset", "start"))]
  /\ creator' = [creator EXCEPT ![s] = "done"]
  /\ UNCHANGED <<publication, objects, posted, workflowVars, late, deleter,
                 recVars>>

\* The request ends early: the id or the failure could not be written, the
\* execution could not be described, or the process died.
CreateAborts(s) ==
  /\ creator[s] \notin {"none", "done"}
  /\ creator' = [creator EXCEPT ![s] = "done"]
  /\ UNCHANGED <<storeVars, workflowVars, late, deleter, recVars>>

-----------------------------------------------------------------------------
(* The reconciler.  todo holds the rows as findUnsettled read them.        *)

Listed == [id : Snapshots, status : Live]

\* One pass at a time; the cutoff is taken once, at its beginning.
ListUnsettled ==
  /\ recPc = "idle"
  /\ todo' = {l \in Listed : /\ row[l.id].status = l.status
                             /\ row[l.id].updatedAt = "stale"}
  /\ todo' # {}
  /\ recPc' = "describe"
  /\ UNCHANGED <<storeVars, workflowVars, late, creator, deleter>>

\* Rows are taken oldest first.
IsNext(l) == l \in todo /\ \A m \in todo : l.id <= m.id

\* The pass is done with row l.
DropRow(l) ==
  /\ todo' = todo \ {l}
  /\ recPc' = IF todo = {l} THEN "idle" ELSE "describe"

\* Mutant: a timed out run is taken for one that is still running.
DescribeRowNoTimeout(l) ==
  /\ recPc = "describe" /\ IsNext(l)
  /\ \/ exec[l.id] \in {"RUNNING", "TIMED_OUT"} /\ DropRow(l)
     \/ /\ exec[l.id] \notin {"RUNNING", "TIMED_OUT"}
        /\ recPc' = IF exec[l.id] = "none" THEN "start" ELSE "settleFailed"
        /\ UNCHANGED todo
  /\ UNCHANGED <<storeVars, workflowVars, late, creator, deleter>>

DescribeRow(l) ==
  /\ recPc = "describe" /\ IsNext(l)
  /\ \/ exec[l.id] = "RUNNING" /\ DropRow(l)
     \/ /\ exec[l.id] = "CANCELLED"
        /\ recPc' = "settleCancelled" /\ UNCHANGED todo
     \/ /\ exec[l.id] = "none" /\ l.status = "queued"
        /\ recPc' = "start" /\ UNCHANGED todo
     \/ /\ \/ exec[l.id] \in Closed \ {"CANCELLED"}
           \/ exec[l.id] = "none" /\ l.status = "running"
        /\ recPc' = "settleFailed" /\ UNCHANGED todo
  /\ UNCHANGED <<storeVars, workflowVars, late, creator, deleter>>

StartOrphan(l) ==
  /\ recPc = "start" /\ IsNext(l)
  /\ StartWorkflow(l.id)
  /\ DropRow(l)
  /\ UNCHANGED <<storeVars, late, creator, deleter>>

\* The start call failed, with or without the server having started the run:
\* an old row is given up, a young one left for the next pass.
StartOrphanFails(l) ==
  /\ recPc = "start" /\ IsNext(l)
  /\ StartWorkflow(l.id) \/ UNCHANGED workflowVars
  /\ IF row[l.id].createdAt = "old"
     THEN recPc' = "settleStart" /\ UNCHANGED todo
     ELSE DropRow(l)
  /\ UNCHANGED <<storeVars, late, creator, deleter>>

SettleCalls ==
  {<<"settleCancelled", Update("cancelled", "unset", "reconciled")>>,
   <<"settleFailed",    Update("failed", "unset", "reconciled")>>,
   <<"settleStart",     Update("failed", "unset", "start")>>}

Settle(l) ==
  /\ IsNext(l)
  /\ \E c \in SettleCalls :
       /\ c[1] = recPc
       /\ row' = [row EXCEPT ![l.id] = ApplyExternalUpdate(row[l.id], c[2])]
  /\ DropRow(l)
  /\ UNCHANGED <<publication, objects, posted, workflowVars, late, creator,
                 deleter>>

\* An error (Temporal or Postgres unreachable) or the end of the process ends
\* the whole pass; the next one lists again.
PassAborts ==
  /\ recPc # "idle"
  /\ recPc' = "idle"
  /\ todo' = {}
  /\ UNCHANGED <<storeVars, workflowVars, late, creator, deleter>>

-----------------------------------------------------------------------------
(* The delete request.                                                     *)

\* Mutant: the objects of a settled snapshot are removed before its row.
DeleteRequestedObjectsFirst(s) ==
  /\ deleter[s] = "none" /\ Exists(row[s])
  /\ deleter' = [deleter EXCEPT ![s] =
                   IF row[s].status \in Live THEN "terminate" ELSE "deleteObjects"]
  /\ UNCHANGED <<storeVars, workflowVars, late, creator, recVars>>

DeleteRequested(s) ==
  /\ deleter[s] = "none" /\ Exists(row[s])
  /\ deleter' = [deleter EXCEPT ![s] =
                   IF row[s].status \in Live THEN "terminate" ELSE "deleteRow"]
  /\ UNCHANGED <<storeVars, workflowVars, late, creator, recVars>>

\* terminateSnapshotWorkflow waits for the close and swallows every error.
DeleteTerminates(s) ==
  /\ deleter[s] = "terminate"
  /\ \/ CloseRun(s, "TERMINATED")
     \/ UNCHANGED <<workflowVars, late>>
  /\ deleter' = [deleter EXCEPT ![s] = "deleteRow"]
  /\ UNCHANGED <<storeVars, creator, recVars>>

\* Outputs and publications go with the row.
DeleteRow(s) ==
  /\ deleter[s] = "deleteRow"
  /\ row' = [row EXCEPT ![s] = NoRow("deleted")]
  /\ publication' = [publication EXCEPT ![s] = "unset"]
  /\ deleter' = [deleter EXCEPT ![s] = "deleteObjects"]
  /\ UNCHANGED <<objects, posted, workflowVars, late, creator, recVars>>

\* Best effort: the objects below snapshots/<id>/ go, or stay.
DeleteObjects(s) ==
  /\ deleter[s] = "deleteObjects"
  /\ objects' \in {objects, objects \ {s}}
  /\ deleter' = [deleter EXCEPT ![s] = "none"]
  /\ UNCHANGED <<row, publication, posted, workflowVars, late, creator,
                 recVars>>

\* The process died, or the row could not be deleted.
DeleteAborts(s) ==
  /\ deleter[s] # "none"
  /\ deleter' = [deleter EXCEPT ![s] = "none"]
  /\ UNCHANGED <<storeVars, workflowVars, late, creator, recVars>>

-----------------------------------------------------------------------------
(* Time.                                                                   *)

\* The row was last updated longer than reconcileGraceMs ago.
GraceElapses(s) ==
  /\ row[s].status \in Live /\ row[s].updatedAt = "fresh"
  /\ row' = [row EXCEPT ![s].updatedAt = "stale"]
  /\ UNCHANGED <<publication, objects, posted, workflowVars, late, creator,
                 deleter, recVars>>

\* The row was created longer than startFailedAfterMs ago.
StartBudgetElapses(s) ==
  /\ row[s].status = "queued" /\ row[s].createdAt = "fresh"
  /\ row' = [row EXCEPT ![s].createdAt = "old"]
  /\ UNCHANGED <<publication, objects, posted, workflowVars, late, creator,
                 deleter, recVars>>

-----------------------------------------------------------------------------
CreateNext(s) ==
  \/ CreateRow(s) \/ PersistWorkflowId(s) \/ CreateStarts(s)
  \/ CreateStartFails(s) \/ ClassifyStart(s) \/ MarkStartFailed(s)
  \/ CreateAborts(s)

WorkflowNext(s) ==
  \/ ActivityCompletes(s) \/ ActivityNotFound(s) \/ AttemptFails(s)
  \/ ResponseLost(s) \/ RequestCancel(s) \/ DeliverCancel(s)
  \/ RunTimesOut(s) \/ OperatorTerminates(s) \/ RetentionElapses(s)

ReconcileRow(l) ==
  DescribeRow(l) \/ StartOrphan(l) \/ StartOrphanFails(l) \/ Settle(l)

DeleteNext(s) ==
  \/ DeleteRequested(s) \/ DeleteTerminates(s) \/ DeleteRow(s)
  \/ DeleteObjects(s) \/ DeleteAborts(s)

Next ==
  \/ \E s \in Snapshots : \/ CreateNext(s) \/ WorkflowNext(s) \/ DeleteNext(s)
                          \/ GraceElapses(s) \/ StartBudgetElapses(s)
  \/ \E l \in Listed : ReconcileRow(l)
  \/ ListUnsettled \/ PassAborts \/ LateCommit

Spec == Init /\ [][Next]_vars

\* The server enforces workflowRunTimeout; time passes; the interval timer
\* keeps starting passes, and however many of them abort, Temporal and
\* Postgres do not stay unreachable for ever at the same step of a row.
\* Nothing is assumed of the workflow code, its activities, or any request.
Fairness ==
  /\ \A s \in Snapshots : /\ WF_vars(RunTimesOut(s))
                          /\ WF_vars(GraceElapses(s))
                          /\ WF_vars(StartBudgetElapses(s))
  /\ WF_vars(ListUnsettled)
  /\ \A l \in Listed : /\ SF_vars(DescribeRow(l))
                       /\ SF_vars(StartOrphan(l) \/ StartOrphanFails(l))
                       /\ SF_vars(Settle(l))

FairSpec == Spec /\ Fairness

-----------------------------------------------------------------------------
(* Correctness.                                                            *)

\* Every variable has its type.
TypeOK ==
  /\ row \in [Snapshots -> Row]
  /\ publication \in [Snapshots -> {"unset", "pending", "sent", "failed"}]
  /\ objects \in SUBSET Snapshots
  /\ posted \in SUBSET Snapshots
  /\ exec \in [Snapshots -> {"none", "RUNNING"} \cup Closed]
  /\ runs \in [Snapshots -> 0..MaxRuns]
  /\ cancelReq \in SUBSET Snapshots
  /\ pc \in [Snapshots -> Pcs \cup {"none"}]
  /\ attempt \in [Snapshots -> 1..MaxAttempts]
  /\ late \in SUBSET (Snapshots \X Effects)
  /\ creator \in [Snapshots -> {"none", "persistId", "start", "classify",
                                "markFailed", "done"}]
  /\ deleter \in [Snapshots -> {"none", "terminate", "deleteRow",
                                "deleteObjects"}]
  /\ recPc \in {"idle", "describe", "start", "settleFailed",
                "settleCancelled", "settleStart"}
  /\ todo \in SUBSET Listed

\* The fields of a row agree with its status.
Consistent(r) ==
  /\ r.status = "queued" => /\ r.startedAt = "unset"
                            /\ r.completedAt = "unset" /\ r.error = "unset"
  /\ r.status = "running" => /\ r.startedAt = "set"
                             /\ r.completedAt = "unset" /\ r.error = "unset"
  /\ r.status = "completed" => /\ r.startedAt = "set"
                               /\ r.completedAt = "set"
                               /\ r.outputs = "produced" /\ r.error = "unset"
  /\ r.status \in {"failed", "cancelled"} => /\ r.completedAt = "set"
                                             /\ r.error # "unset"

\* A row never mixes the fields of two outcomes, whichever writers (request,
\* run, late attempt, reconciler) raced for it: an update that loses against a
\* terminal status leaves no outputs, error or timestamp behind.
RowConsistent == \A s \in Snapshots : Consistent(row[s])

\* The row's fate is decided.
Settled(s) == row[s].status \in Terminal \cup {"deleted"}

\* The result objects of a completed snapshot are in the bucket: a delete
\* request removes the row before the objects, and a run stores them before it
\* completes.
CompletedHasObjects ==
  \A s \in Snapshots : row[s].status = "completed" => s \in objects

\* The posting stage, its ledger and its late attempts only ever concern a
\* snapshot whose fate is decided: no score is published for a row that is
\* still queued or running.
PublishesOnlySettled ==
  \A s \in Snapshots :
    (pc[s] \in PostingPcs \/ publication[s] # "unset" \/ s \in posted)
      => Settled(s)

\* The ledger says `sent' only of scores that were posted.
SentWasPosted ==
  \A s \in Snapshots : publication[s] = "sent" => s \in posted

\* A run that closed as COMPLETED left a settled row: the reconciler's branch
\* "Workflow completed but the snapshot was never finalized" is a safety net.
CompletedRunSettled ==
  \A s \in Snapshots : exec[s] = "COMPLETED" => Settled(s)

Abstract == INSTANCE SnapshotStatusMachine
              WITH status <- [s \in Snapshots |-> row[s].status]

\* The store keeps the promise of the status machine: a settled status is
\* final, only a running snapshot completes, a deleted row stays deleted.
StatusMachine == Abstract!Spec

\* A created snapshot does not stay queued or running for ever, whatever
\* becomes of its create request and its runs.
EventuallySettled ==
  \A s \in Snapshots :
    (row[s].status \in Live) ~> Settled(s)
=============================================================================
