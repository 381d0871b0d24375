---------------------- MODULE SnapshotLifecycleProofs ----------------------
(***************************************************************************)
(* Proofs about SnapshotLifecycle, for every number of snapshots, every    *)
(* set of combined ones and every bound.                                   *)
(***************************************************************************)
EXTENDS SnapshotLifecycle, TLAPS

-----------------------------------------------------------------------------
(* The inductive invariant.                                                *)

\* Nothing refers to a snapshot that has not been created.
Untouched(s) ==
  /\ creator[s] = "none" /\ deleter[s] = "none" /\ pc[s] = "none"
  /\ publication[s] = "unset" /\ s \notin posted
  /\ \A w \in Effects : <<s, w>> \notin late
  /\ \A l \in todo : l.id # s

\* s is, or a late attempt of s may be, at one of the awaits W.
At(s, W) == pc[s] \in W \/ \E w \in W : <<s, w>> \in late

LifeInv(s) ==
  /\ Consistent(row[s])
  /\ row[s].status = "absent" => Untouched(s)
  /\ exec[s] = "RUNNING" <=> pc[s] # "none"
  /\ pc[s] \in RunningPcs \cup {"markFailed", "markCancelled"}
       => row[s].status # "queued"
  /\ At(s, PostingPcs) \/ publication[s] # "unset" \/ s \in posted
       => Settled(s)
  /\ exec[s] = "COMPLETED" => Settled(s)
  /\ deleter[s] = "deleteObjects" => row[s].status = "deleted"
  /\ (row[s].status = "completed" \/ At(s, {"markCompleted"})
      \/ pc[s] \in {"persistOutputs", "submitRaw", "encrypted"})
       => s \in objects \/ row[s].status = "deleted"
  /\ publication[s] = "sent" \/ At(s, {"recordSent"}) => s \in posted

IInv == TypeOK /\ \A s \in Snapshots : LifeInv(s)

-----------------------------------------------------------------------------
(* The row update.                                                         *)

\* The updates any writer ever requests.
Updates ==
  {u \in [status  : {"unset", "running"} \cup Terminal,
          outputs : {"unset", "produced"},
          error   : {"unset", "workflow", "reconciled", "start"}] :
     /\ u.status \in {"unset", "running"} => u.error = "unset"
     /\ u.status = "completed" => u.outputs = "produced" /\ u.error = "unset"
     /\ u.status \in {"failed", "cancelled"} => u.error # "unset"}

LEMMA CallsAreUpdates ==
  \A c \in UpdateCalls \cup SettleCalls : c[2] \in Updates
BY DEF UpdateCalls, SettleCalls, Update, Updates, Terminal

LEMMA TouchIsUpdate == Update("unset", "unset", "unset") \in Updates
BY DEF Update, Updates, Terminal

LEMMA StartFailureIsUpdate == Update("failed", "unset", "start") \in Updates
BY DEF Update, Updates, Terminal

\* What applyExternalUpdate does to one row: it stays a row, and its status is
\* kept or moved along the state machine.
StatusStep(from, to) ==
  \/ to = from
  \/ from = "queued" /\ to \in {"running", "failed", "cancelled"}
  \/ from = "running" /\ to \in Terminal

LEMMA ApplyType ==
  ASSUME NEW r \in Row, NEW u \in Updates
  PROVE  ApplyExternalUpdate(r, u) \in Row
BY DEF Row, Updates, ApplyExternalUpdate, Exists, Status, Live, Terminal

LEMMA ApplyStatus ==
  ASSUME NEW r \in Row, NEW u \in Updates
  PROVE  StatusStep(r.status, ApplyExternalUpdate(r, u).status)
BY DEF Row, Updates, ApplyExternalUpdate, Exists, Status, Live, Terminal,
       CanTransition, StatusStep

LEMMA ApplyConsistent ==
  ASSUME NEW r \in Row, NEW u \in Updates, Consistent(r)
  PROVE  Consistent(ApplyExternalUpdate(r, u))
BY DEF Row, Updates, ApplyExternalUpdate, Exists, Status, Live, Terminal,
       CanTransition, Consistent

-----------------------------------------------------------------------------
(* Type correctness.                                                       *)

\* An effect changes only the stores, and only the entries of s.
LEMMA EffectType ==
  ASSUME TypeOK, NEW s \in Snapshots, NEW w \in Pcs, Effect(s, w)
  PROVE  /\ row' \in [Snapshots -> Row]
         /\ publication' \in [Snapshots -> {"unset", "pending", "sent", "failed"}]
         /\ objects' \in SUBSET Snapshots
         /\ posted' \in SUBSET Snapshots
<1>1. row' \in [Snapshots -> Row]
  <2>1. \A c \in UpdateCalls : ApplyExternalUpdate(row[s], c[2]) \in Row
    BY CallsAreUpdates, ApplyType DEF TypeOK
  <2> QED
    BY <2>1 DEF Effect, TypeOK
<1>2. publication' \in [Snapshots -> {"unset", "pending", "sent", "failed"}]
  BY DEF Effect, TypeOK, PublicationCalls
<1>3. objects' \in SUBSET Snapshots /\ posted' \in SUBSET Snapshots
  BY DEF Effect, TypeOK
<1> QED
  BY <1>1, <1>2, <1>3

\* Every edge of the workflow's control graph ends at an await or a close.
LEMMA EdgesType ==
  ASSUME NEW s \in Snapshots
  PROVE  \A e \in SuccessEdges(s) \cup FailureEdges \cup NotFoundEdges
                    \cup CancelEdges : e[2] \in Pcs \cup Closed
BY DEF SuccessEdges, FailureEdges, NotFoundEdges, CancelEdges, EscapeEdges,
       SwallowEdges, RunningPcs, PostingPcs, Pcs, ReadPcs, WritePcs, RecordPcs,
       WorkPcs, Closed

LEMMA GotoType ==
  ASSUME TypeOK, NEW s \in Snapshots, NEW k \in Pcs \cup Closed, Goto(s, k)
  PROVE  /\ exec' \in [Snapshots -> {"none", "RUNNING"} \cup Closed]
         /\ runs' \in [Snapshots -> 0..MaxRuns]
         /\ cancelReq' \in SUBSET Snapshots
         /\ pc' \in [Snapshots -> Pcs \cup {"none"}]
         /\ attempt' \in [Snapshots -> 1..MaxAttempts]
BY BoundsAssumption DEF Goto, TypeOK

LEMMA StartType ==
  ASSUME TypeOK, NEW s \in Snapshots,
         StartWorkflow(s) \/ UNCHANGED workflowVars
  PROVE  /\ exec' \in [Snapshots -> {"none", "RUNNING"} \cup Closed]
         /\ runs' \in [Snapshots -> 0..MaxRuns]
         /\ cancelReq' \in SUBSET Snapshots
         /\ pc' \in [Snapshots -> Pcs \cup {"none"}]
         /\ attempt' \in [Snapshots -> 1..MaxAttempts]
BY BoundsAssumption DEF StartWorkflow, workflowVars, TypeOK, Pcs, ReadPcs

LEMMA AbandonType ==
  ASSUME TypeOK, NEW s \in Snapshots, AbandonAttempt(s)
  PROVE  late' \in SUBSET (Snapshots \X Effects)
BY DEF AbandonAttempt, TypeOK

LEMMA AttemptOverType ==
  ASSUME TypeOK, NEW s \in Snapshots, AttemptOver(s)
  PROVE  /\ exec' \in [Snapshots -> {"none", "RUNNING"} \cup Closed]
         /\ runs' \in [Snapshots -> 0..MaxRuns]
         /\ cancelReq' \in SUBSET Snapshots
         /\ pc' \in [Snapshots -> Pcs \cup {"none"}]
         /\ attempt' \in [Snapshots -> 1..MaxAttempts]
<1>1. CASE Follow(s, FailureEdges)
  BY <1>1, EdgesType, GotoType DEF Follow
<1>2. CASE /\ attempt[s] < MaxAttempts
           /\ attempt' = [attempt EXCEPT ![s] = @ + 1]
           /\ UNCHANGED <<exec, runs, cancelReq, pc>>
  BY <1>2, BoundsAssumption DEF TypeOK
<1> QED
  BY <1>1, <1>2 DEF AttemptOver

LEMMA UpdateRowType ==
  ASSUME TypeOK, NEW s \in Snapshots, NEW u \in Updates
  PROVE  [row EXCEPT ![s] = ApplyExternalUpdate(row[s], u)] \in [Snapshots -> Row]
BY ApplyType DEF TypeOK

LEMMA DropRowType ==
  ASSUME TypeOK, NEW l, DropRow(l)
  PROVE  todo' \in SUBSET Listed /\ recPc' \in {"idle", "describe"}
BY DEF DropRow, TypeOK

LEMMA NoRowType ==
  ASSUME NEW st \in Status, NEW out \in {"unset", "given"}
  PROVE  NoRow(st) \in Row /\ [NoRow(st) EXCEPT !.outputs = out] \in Row
BY DEF NoRow, Row

LEMMA EffectsArePcs == Effects \subseteq Pcs
BY DEF Effects, Pcs, WritePcs, RecordPcs, WorkPcs

LEMMA InitType == Init => TypeOK
<1>1. NoRow("absent") \in Row
  BY NoRowType DEF Status
<1> QED
  BY <1>1, BoundsAssumption DEF Init, TypeOK

LEMMA CreateType ==
  ASSUME TypeOK, NEW s \in Snapshots, CreateNext(s)
  PROVE  TypeOK'
<1>1. CASE CreateRow(s)
  <2>1. \A out \in {"unset", "given"} : [NoRow("queued") EXCEPT !.outputs = out] \in Row
    BY NoRowType DEF Status, Live
  <2> QED
    BY <1>1, <2>1 DEF CreateRow, TypeOK, workflowVars, recVars
<1>2. CASE PersistWorkflowId(s)
  BY <1>2, UpdateRowType, TouchIsUpdate
  DEF PersistWorkflowId, TypeOK, workflowVars, recVars
<1>3. CASE CreateStarts(s)
  BY <1>3, StartType DEF CreateStarts, TypeOK, storeVars, recVars
<1>4. CASE CreateStartFails(s)
  BY <1>4, StartType DEF CreateStartFails, TypeOK, storeVars, recVars
<1>5. CASE ClassifyStart(s)
  BY <1>5 DEF ClassifyStart, TypeOK, storeVars, workflowVars, recVars
<1>6. CASE MarkStartFailed(s)
  BY <1>6, UpdateRowType, StartFailureIsUpdate
  DEF MarkStartFailed, TypeOK, workflowVars, recVars
<1>7. CASE CreateAborts(s)
  BY <1>7 DEF CreateAborts, TypeOK, storeVars, workflowVars, recVars
<1> QED
  BY <1>1, <1>2, <1>3, <1>4, <1>5, <1>6, <1>7 DEF CreateNext

LEMMA WorkflowType ==
  ASSUME TypeOK, NEW s \in Snapshots, WorkflowNext(s)
  PROVE  TypeOK'
<1>1. CASE ActivityCompletes(s)
  <2>1. pc[s] \in Pcs
    BY <1>1 DEF ActivityCompletes, TypeOK
  <2>2. PICK e \in SuccessEdges(s) : e[1] = pc[s] /\ Goto(s, e[2])
    BY <1>1 DEF ActivityCompletes, Follow
  <2>3. e[2] \in Pcs \cup Closed
    BY EdgesType
  <2> QED
    BY <1>1, <2>1, <2>2, <2>3, EffectType, GotoType
    DEF ActivityCompletes, TypeOK, recVars
<1>2. CASE ActivityNotFound(s)
  <2>1. PICK e \in NotFoundEdges : e[1] = pc[s] /\ Goto(s, e[2])
    BY <1>2 DEF ActivityNotFound, Follow
  <2>2. e[2] \in Pcs \cup Closed
    BY EdgesType
  <2> QED
    BY <1>2, <2>1, <2>2, GotoType DEF ActivityNotFound, TypeOK, storeVars, recVars
<1>3. CASE AttemptFails(s)
  BY <1>3, AbandonType, AttemptOverType DEF AttemptFails, TypeOK, storeVars, recVars
<1>4. CASE ResponseLost(s)
  BY <1>4, EffectType, EffectsArePcs, AttemptOverType DEF ResponseLost, TypeOK, recVars
<1>5. CASE RequestCancel(s)
  BY <1>5 DEF RequestCancel, TypeOK, storeVars, recVars
<1>6. CASE DeliverCancel(s)
  <2>1. PICK e \in CancelEdges : e[1] = pc[s] /\ Goto(s, e[2])
    BY <1>6 DEF DeliverCancel, Follow
  <2>2. e[2] \in Pcs \cup Closed
    BY EdgesType
  <2> QED
    BY <1>6, <2>1, <2>2, AbandonType, GotoType
    DEF DeliverCancel, TypeOK, storeVars, recVars
<1>7. CASE RunTimesOut(s)
  BY <1>7, AbandonType, GotoType
  DEF RunTimesOut, CloseRun, Closed, TypeOK, storeVars, recVars
<1>8. CASE OperatorTerminates(s)
  BY <1>8, AbandonType, GotoType
  DEF OperatorTerminates, CloseRun, Closed, TypeOK, storeVars, recVars
<1>9. CASE RetentionElapses(s)
  BY <1>9 DEF RetentionElapses, TypeOK, storeVars, recVars
<1> QED
  BY <1>1, <1>2, <1>3, <1>4, <1>5, <1>6, <1>7, <1>8, <1>9 DEF WorkflowNext

LEMMA ReconcileType ==
  ASSUME TypeOK, NEW l \in Listed, ReconcileRow(l)
  PROVE  TypeOK'
<1>0. l.id \in Snapshots
  BY DEF Listed
<1>1. CASE DescribeRow(l)
  BY <1>1, DropRowType
  DEF DescribeRow, TypeOK, storeVars, workflowVars
<1>2. CASE StartOrphan(l)
  BY <1>0, <1>2, StartType, DropRowType DEF StartOrphan, TypeOK, storeVars
<1>3. CASE StartOrphanFails(l)
  BY <1>0, <1>3, StartType, DropRowType DEF StartOrphanFails, TypeOK, storeVars
<1>4. CASE Settle(l)
  <2>1. PICK c \in SettleCalls :
          row' = [row EXCEPT ![l.id] = ApplyExternalUpdate(row[l.id], c[2])]
    BY <1>4 DEF Settle
  <2>2. c[2] \in Updates
    BY CallsAreUpdates
  <2>3. row' \in [Snapshots -> Row]
    BY <1>0, <2>1, <2>2, UpdateRowType
  <2> QED
    BY <1>4, <2>3, DropRowType DEF Settle, TypeOK, workflowVars
<1> QED
  BY <1>1, <1>2, <1>3, <1>4 DEF ReconcileRow

LEMMA DeleteType ==
  ASSUME TypeOK, NEW s \in Snapshots, DeleteNext(s)
  PROVE  TypeOK'
<1>1. CASE DeleteRequested(s)
  BY <1>1 DEF DeleteRequested, TypeOK, storeVars, workflowVars, recVars
<1>2. CASE DeleteTerminates(s)
  <2>1. CASE CloseRun(s, "TERMINATED")
    BY <1>2, <2>1, AbandonType, GotoType
    DEF DeleteTerminates, CloseRun, Closed, TypeOK, storeVars, recVars
  <2>2. CASE UNCHANGED <<workflowVars, late>>
    BY <1>2, <2>2 DEF DeleteTerminates, TypeOK, storeVars, workflowVars, recVars
  <2> QED
    BY <1>2, <2>1, <2>2 DEF DeleteTerminates
<1>3. CASE DeleteRow(s)
  <2>1. NoRow("deleted") \in Row
    BY NoRowType DEF Status
  <2> QED
    BY <1>3, <2>1 DEF DeleteRow, TypeOK, workflowVars, recVars
<1>4. CASE DeleteObjects(s)
  BY <1>4 DEF DeleteObjects, TypeOK, workflowVars, recVars
<1>5. CASE DeleteAborts(s)
  BY <1>5 DEF DeleteAborts, TypeOK, storeVars, workflowVars, recVars
<1> QED
  BY <1>1, <1>2, <1>3, <1>4, <1>5 DEF DeleteNext

LEMMA ClockType ==
  ASSUME NEW r \in Row
  PROVE  /\ [r EXCEPT !.updatedAt = "stale"] \in Row
         /\ [r EXCEPT !.createdAt = "old"] \in Row
BY DEF Row

LEMMA TimeType ==
  ASSUME TypeOK, NEW s \in Snapshots, GraceElapses(s) \/ StartBudgetElapses(s)
  PROVE  TypeOK'
<1>1. /\ [row[s] EXCEPT !.updatedAt = "stale"] \in Row
      /\ [row[s] EXCEPT !.createdAt = "old"] \in Row
  BY ClockType DEF TypeOK
<1> QED
  BY <1>1 DEF GraceElapses, StartBudgetElapses, TypeOK, workflowVars, recVars

LEMMA NextType == TypeOK /\ [Next]_vars => TypeOK'
<1> SUFFICES ASSUME TypeOK, [Next]_vars PROVE TypeOK'
  OBVIOUS
<1>1. CASE ListUnsettled
  BY <1>1 DEF ListUnsettled, TypeOK, storeVars, workflowVars
<1>2. CASE PassAborts
  BY <1>2 DEF PassAborts, TypeOK, storeVars, workflowVars
<1>3. CASE LateCommit
  <2>1. PICK a \in late : Effect(a[1], a[2]) /\ late' = late \ {a}
    BY <1>3 DEF LateCommit
  <2>2. a[1] \in Snapshots /\ a[2] \in Pcs
    BY EffectsArePcs DEF TypeOK
  <2> QED
    BY <1>3, <2>1, <2>2, EffectType DEF LateCommit, TypeOK, workflowVars, recVars
<1>4. CASE UNCHANGED vars
  BY <1>4 DEF vars, TypeOK
<1> QED
  BY <1>1, <1>2, <1>3, <1>4, CreateType, WorkflowType, ReconcileType, DeleteType,
     TimeType DEF Next

\* Every variable keeps its type, with any number of snapshots and any bounds.
THEOREM TypeCorrect == Spec => []TypeOK
<1>1. Init => TypeOK
  BY InitType
<1>2. TypeOK /\ [Next]_vars => TypeOK'
  BY NextType
<1> QED
  BY <1>1, <1>2, PTL DEF Spec

-----------------------------------------------------------------------------
(* The inductive invariant is preserved.                                   *)

\* What a step that concerns other snapshots leaves of t.
Same(t) ==
  /\ row'[t] = row[t] /\ publication'[t] = publication[t]
  /\ exec'[t] = exec[t] /\ pc'[t] = pc[t]
  /\ creator'[t] = creator[t] /\ deleter'[t] = deleter[t]
  /\ t \in objects' <=> t \in objects
  /\ t \in posted' <=> t \in posted
  /\ \A w : <<t, w>> \in late' <=> <<t, w>> \in late
  /\ \A l \in todo' : l.id = t => l \in todo

LEMMA Frame ==
  ASSUME NEW t \in Snapshots, LifeInv(t), Same(t)
  PROVE  LifeInv(t)'
<1>1. At(t, PostingPcs)' <=> At(t, PostingPcs)
  BY DEF At, Same, PostingPcs, RecordPcs
<1>2. At(t, {"markCompleted"})' <=> At(t, {"markCompleted"})
  BY DEF At, Same
<1>3. At(t, {"recordSent"})' <=> At(t, {"recordSent"})
  BY DEF At, Same
<1>4. Untouched(t) => Untouched(t)'
  BY DEF Untouched, Same
<1>5. Consistent(row[t])' <=> Consistent(row[t])
  BY DEF Consistent, Same
<1>6. Settled(t)' <=> Settled(t)
  BY DEF Settled, Same
<1> QED
  BY <1>1, <1>2, <1>3, <1>4, <1>5, <1>6 DEF LifeInv, Same

\* How the status machine's steps move a row between the invariant's cases.
LEMMA StepFacts ==
  ASSUME NEW a \in Status, NEW b \in Status, StatusStep(a, b)
  PROVE  /\ a = "absent" <=> b = "absent"
         /\ a = "deleted" <=> b = "deleted"
         /\ a # "queued" => b # "queued"
         /\ a \in Terminal \cup {"deleted"} => b = a
BY DEF StatusStep, Status, Live, Terminal

\* The cases of applyExternalUpdate the workflow relies on.
LEMMA ApplyCases ==
  ASSUME NEW r \in Row, NEW u \in Updates
  PROVE  LET q == ApplyExternalUpdate(r, u)
         IN  /\ u.status = "running" /\ Exists(r) => q.status # "queued"
             /\ u.status = "completed" /\ r.status \notin {"queued", "absent"}
                  => q.status \in Terminal \cup {"deleted"}
             /\ q.status = "completed"
                  => r.status = "completed" \/ u.status = "completed"
BY DEF Row, Updates, ApplyExternalUpdate, Exists, Status, Live, Terminal,
       CanTransition

LEMMA EffectFacts ==
  ASSUME TypeOK, NEW s \in Snapshots, LifeInv(s), NEW w \in Pcs, Effect(s, w)
  PROVE  /\ \A t \in Snapshots \ {s} :
              /\ row'[t] = row[t] /\ publication'[t] = publication[t]
              /\ t \in objects' <=> t \in objects
              /\ t \in posted' <=> t \in posted
         /\ Consistent(row'[s])
         /\ StatusStep(row[s].status, row'[s].status)
         /\ row'[s].status = "completed"
              => row[s].status = "completed" \/ w = "markCompleted"
         /\ w = "markRunning" /\ Exists(row[s]) => row'[s].status # "queued"
         /\ w = "markCompleted" /\ row[s].status \notin {"queued", "absent"}
              => row'[s].status \in Terminal \cup {"deleted"}
         /\ publication'[s] # publication[s] => w \in RecordPcs
         /\ publication'[s] = "sent" => publication[s] = "sent" \/ w = "recordSent"
         /\ s \in objects => s \in objects'
         /\ w = "phases" => s \in objects'
         /\ s \in posted => s \in posted'
         /\ w = "postScores" => s \in posted'
         /\ s \in posted' => s \in posted \/ w = "postScores"
<1>1. CASE w \notin WritePcs
  <2>1. row' = row
    BY <1>1 DEF Effect, UpdateCalls, WritePcs
  <2>2. Consistent(row[s])
    BY DEF LifeInv
  <2> QED
    BY <1>1, <2>1, <2>2
    DEF Effect, TypeOK, StatusStep, PublicationCalls, RecordPcs, WritePcs
<1>2. CASE w \in WritePcs
  <2>1. PICK c \in UpdateCalls :
          /\ c[1] = w
          /\ row' = [row EXCEPT ![s] = ApplyExternalUpdate(row[s], c[2])]
    BY <1>2 DEF Effect
  <2>2. c[2] \in Updates
    BY CallsAreUpdates
  <2>3. row[s] \in Row /\ Consistent(row[s])
    BY DEF TypeOK, LifeInv
  <2>4. /\ row'[s] = ApplyExternalUpdate(row[s], c[2])
        /\ \A t \in Snapshots \ {s} : row'[t] = row[t]
    BY <2>1 DEF TypeOK
  <2>5. Consistent(row'[s]) /\ StatusStep(row[s].status, row'[s].status)
    BY <2>2, <2>3, <2>4, ApplyConsistent, ApplyStatus
  <2>6. /\ w = "markRunning" => c[2].status = "running"
        /\ w = "markCompleted" <=> c[2].status = "completed"
    BY <2>1 DEF UpdateCalls, Update
  <2>7. /\ row'[s].status = "completed"
             => row[s].status = "completed" \/ w = "markCompleted"
        /\ w = "markRunning" /\ Exists(row[s]) => row'[s].status # "queued"
        /\ w = "markCompleted" /\ row[s].status \notin {"queued", "absent"}
             => row'[s].status \in Terminal \cup {"deleted"}
    BY <2>2, <2>3, <2>4, <2>6, ApplyCases
  <2>8. /\ publication' = publication
        /\ objects' = objects /\ posted' = posted
        /\ w \notin {"phases", "postScores"}
    BY <1>2 DEF Effect, WritePcs, PublicationCalls
  <2> QED
    BY <2>4, <2>5, <2>7, <2>8
<1> QED
  BY <1>1, <1>2

LEMMA EffectFrame ==
  ASSUME TypeOK, NEW s \in Snapshots, LifeInv(s), NEW w \in Pcs, Effect(s, w),
         NEW t \in Snapshots, t # s, LifeInv(t),
         exec'[t] = exec[t], pc'[t] = pc[t], creator'[t] = creator[t],
         deleter'[t] = deleter[t], todo' = todo,
         \A x : <<t, x>> \in late' <=> <<t, x>> \in late
  PROVE  LifeInv(t)'
<1>1. Same(t)
  BY EffectFacts DEF Same
<1> QED
  BY <1>1, Frame

\* What Goto(s, k) makes of the run of s, and of every other run.
LEMMA GotoFacts ==
  ASSUME TypeOK, NEW s \in Snapshots, NEW k, Goto(s, k)
  PROVE  /\ pc'[s] = IF k \in Closed THEN "none" ELSE k
         /\ exec'[s] = IF k \in Closed THEN k ELSE exec[s]
         /\ \A t \in Snapshots \ {s} : pc'[t] = pc[t] /\ exec'[t] = exec[t]
BY DEF Goto, TypeOK

\* The activity returned: the row's status and the await move together.
LEMMA CompletesInv ==
  ASSUME IInv, NEW s \in Snapshots, ActivityCompletes(s), NEW t \in Snapshots
  PROVE  LifeInv(t)'
<1>1. TypeOK /\ LifeInv(s) /\ LifeInv(t) /\ pc[s] \in Pcs /\ Effect(s, pc[s])
  BY DEF IInv, TypeOK, ActivityCompletes
<1>2. PICK e \in SuccessEdges(s) : e[1] = pc[s] /\ Goto(s, e[2])
  BY DEF ActivityCompletes, Follow
<1>3. /\ late' = late /\ creator' = creator /\ deleter' = deleter
      /\ todo' = todo
  BY DEF ActivityCompletes, recVars
<1>4. CASE t # s
  BY <1>1, <1>2, <1>3, <1>4, EffectFrame, GotoFacts
<1>5. CASE t = s
  <2>1. row[s].status # "absent" /\ exec[s] = "RUNNING"
    BY <1>1 DEF LifeInv, Untouched, ActivityCompletes
  <2>2. row[s].status \in Status /\ row'[s].status \in Status
    BY <1>1, EffectType DEF TypeOK, Row
  <2>3. /\ row'[s].status # "absent"
        /\ row[s].status = "deleted" <=> row'[s].status = "deleted"
        /\ row[s].status # "queued" => row'[s].status # "queued"
        /\ Settled(s) => row'[s].status = row[s].status
    BY <1>1, <2>1, <2>2, EffectFacts, StepFacts DEF Settled
  <2>4. pc[s] \in WorkPcs \/ Exists(row[s])
    BY DEF ActivityCompletes
  <2>5. /\ pc'[s] = IF e[2] \in Closed THEN "none" ELSE e[2]
        /\ exec'[s] = IF e[2] \in Closed THEN e[2] ELSE exec[s]
    BY <1>1, <1>2, GotoFacts
  <2>6. exec'[s] = "RUNNING" <=> pc'[s] # "none"
    BY <1>2, <2>1, <2>5 DEF SuccessEdges, Closed
  <2>7. pc'[s] \in RunningPcs \cup {"markFailed", "markCancelled"}
          => row'[s].status # "queued"
    <3>1. ASSUME pc'[s] \in RunningPcs \cup {"markFailed", "markCancelled"}
          PROVE  pc[s] \in RunningPcs \/ pc[s] = "markRunning"
      BY <1>2, <2>5, <3>1 DEF SuccessEdges, RunningPcs, Closed
    <3>2. pc[s] \in RunningPcs => row[s].status # "queued"
      BY <1>1 DEF LifeInv
    <3>3. pc[s] = "markRunning" => row'[s].status # "queued"
      BY <1>1, <2>4, EffectFacts DEF WorkPcs
    <3> QED
      BY <2>3, <3>1, <3>2, <3>3
  <2>8. /\ At(s, PostingPcs)' => At(s, PostingPcs) \/ pc[s] = "markCompleted"
        /\ publication'[s] # "unset" => publication[s] # "unset" \/ pc[s] \in PostingPcs
        /\ s \in posted' => s \in posted \/ pc[s] \in PostingPcs
        /\ exec'[s] = "COMPLETED"
             => \/ pc[s] \in PostingPcs \cup {"markCompleted"}
                \/ row[s].status = "completed"
    <3>1. At(s, PostingPcs)' => At(s, PostingPcs) \/ pc[s] = "markCompleted"
      BY <1>2, <1>3, <2>5 DEF At, SuccessEdges, PostingPcs, RecordPcs, Closed
    <3>2. publication'[s] # "unset" => publication[s] # "unset" \/ pc[s] \in PostingPcs
      BY <1>1, EffectFacts DEF PostingPcs
    <3>3. s \in posted' => s \in posted \/ pc[s] \in PostingPcs
      BY <1>1, EffectFacts DEF PostingPcs
    <3>4. exec'[s] = "COMPLETED"
             => \/ pc[s] \in PostingPcs \cup {"markCompleted"}
                \/ row[s].status = "completed"
      BY <1>2, <2>1, <2>5 DEF SuccessEdges, PostingPcs, RecordPcs, Closed
    <3> QED
      BY <3>1, <3>2, <3>3, <3>4
  <2>9. Settled(s) => Settled(s)'
    BY <2>3 DEF Settled
  <2>10. pc[s] = "markCompleted" => Settled(s)'
    BY <1>1, <2>1, EffectFacts DEF LifeInv, RunningPcs, Settled
  <2>11. pc[s] \in PostingPcs => Settled(s)
    BY <1>1 DEF LifeInv, At
  <2>12. row[s].status = "completed" => Settled(s)
    BY DEF Settled, Terminal
  <2>13. /\ At(s, PostingPcs)' \/ publication'[s] # "unset" \/ s \in posted'
              => Settled(s)'
         /\ exec'[s] = "COMPLETED" => Settled(s)'
    BY <1>1, <2>8, <2>9, <2>10, <2>11, <2>12 DEF LifeInv
  <2>14. deleter'[s] = "deleteObjects" => row'[s].status = "deleted"
    BY <1>1, <1>3, <2>3 DEF LifeInv
  <2>15. (row'[s].status = "completed" \/ At(s, {"markCompleted"})'
          \/ pc'[s] \in {"persistOutputs", "submitRaw", "encrypted"})
           => s \in objects' \/ row'[s].status = "deleted"
    <3>1. row'[s].status = "completed"
             => row[s].status = "completed" \/ At(s, {"markCompleted"})
      BY <1>1, EffectFacts DEF At
    <3>2. At(s, {"markCompleted"})'
             => \/ At(s, {"markCompleted"}) \/ pc[s] = "phases"
                \/ pc[s] \in {"persistOutputs", "submitRaw", "encrypted"}
      BY <1>2, <1>3, <2>5 DEF At, SuccessEdges, Closed
    <3>3. pc'[s] \in {"persistOutputs", "submitRaw", "encrypted"}
             => \/ pc[s] = "phases"
                \/ pc[s] \in {"persistOutputs", "submitRaw", "encrypted"}
      BY <1>2, <2>5 DEF SuccessEdges, Closed
    <3>4. pc[s] = "phases" => s \in objects'
      BY <1>1, EffectFacts
    <3>5. s \in objects => s \in objects'
      BY <1>1, EffectFacts
    <3> QED
      BY <1>1, <2>3, <3>1, <3>2, <3>3, <3>4, <3>5 DEF LifeInv
  <2>16. publication'[s] = "sent" \/ At(s, {"recordSent"})' => s \in posted'
    <3>1. publication'[s] = "sent" => publication[s] = "sent" \/ At(s, {"recordSent"})
      BY <1>1, EffectFacts DEF At
    <3>2. At(s, {"recordSent"})' => At(s, {"recordSent"}) \/ pc[s] = "postScores"
      BY <1>2, <1>3, <2>5 DEF At, SuccessEdges, Closed
    <3>3. /\ s \in posted => s \in posted'
          /\ pc[s] = "postScores" => s \in posted'
      BY <1>1, EffectFacts
    <3> QED
      BY <1>1, <3>1, <3>2, <3>3 DEF LifeInv
  <2>17. Consistent(row'[s])
    BY <1>1, EffectFacts
  <2> QED
    BY <1>5, <2>3, <2>6, <2>7, <2>13, <2>14, <2>15, <2>16, <2>17 DEF LifeInv, Consistent
<1> QED
  BY <1>4, <1>5

\* The moves of a run other than an activity's success: the run stays where it
\* is, its failure handler takes over, the posting stage swallows an error, or
\* the run closes.
Move(p, k) ==
  \/ k = p
  \/ k \in {"markFailed", "markCancelled"} /\ p \in RunningPcs
  \/ k \in {"postScores", "recordFailed", "COMPLETED"} /\ p \in PostingPcs
  \/ k \in Closed \ {"COMPLETED"}

LEMMA EdgesMove ==
  \A e \in FailureEdges \cup NotFoundEdges \cup CancelEdges : Move(e[1], e[2])
BY DEF FailureEdges, NotFoundEdges, CancelEdges, EscapeEdges, SwallowEdges,
       RunningPcs, PostingPcs, RecordPcs, Closed, Move

\* Such a move preserves the invariant, whether an attempt of s (the current
\* one or a late one) commits with it, is left in flight, or neither.
LEMMA MoveInv ==
  ASSUME IInv, NEW s \in Snapshots, NEW w \in Effects, NEW k,
         \/ Effect(s, w) /\ At(s, {w})
         \/ UNCHANGED storeVars /\ pc[s] # "none",
         Move(pc[s], k),
         pc'[s] = IF k \in Closed THEN "none" ELSE k,
         exec'[s] = IF k \in Closed THEN k ELSE exec[s],
         \A x : <<s, x>> \in late' => <<s, x>> \in late \/ x = pc[s],
         deleter'[s] = "deleteObjects" => deleter[s] = "deleteObjects"
  PROVE  LifeInv(s)'
<1>1. TypeOK /\ LifeInv(s) /\ w \in Pcs
  BY EffectsArePcs DEF IInv
<1>2. row[s].status # "absent"
  <2>1. row[s].status = "absent" => Untouched(s)
    BY <1>1 DEF LifeInv
  <2>2. pc[s] # "none" => ~Untouched(s)
    BY DEF Untouched
  <2>3. At(s, {w}) => ~Untouched(s)
    BY EffectsArePcs DEF Untouched, At, Pcs, ReadPcs, WritePcs, RecordPcs, WorkPcs
  <2> QED
    BY <2>1, <2>2, <2>3
<1>3. /\ row'[s].status # "absent"
      /\ row[s].status = "deleted" <=> row'[s].status = "deleted"
      /\ row[s].status # "queued" => row'[s].status # "queued"
      /\ Settled(s) => row'[s].status = row[s].status
      /\ Consistent(row'[s])
      /\ row'[s].status = "completed"
           => row[s].status = "completed" \/ At(s, {"markCompleted"})
      /\ publication'[s] # "unset"
           => publication[s] # "unset" \/ At(s, PostingPcs)
      /\ publication'[s] = "sent" => publication[s] = "sent" \/ At(s, {"recordSent"})
      /\ s \in objects => s \in objects'
      /\ s \in posted => s \in posted'
      /\ s \in posted' => s \in posted \/ At(s, PostingPcs)
  <2>1. CASE Effect(s, w) /\ At(s, {w})
    <3>1. row[s].status \in Status /\ row'[s].status \in Status
      BY <1>1, <2>1, EffectType DEF TypeOK, Row
    <3>2. w \in PostingPcs => At(s, PostingPcs)
      BY <2>1 DEF At
    <3>3. /\ w = "markCompleted" => At(s, {"markCompleted"})
          /\ w = "recordSent" => At(s, {"recordSent"})
      BY <2>1
    <3>4. /\ w \in RecordPcs => At(s, PostingPcs)
          /\ w = "postScores" => At(s, PostingPcs)
      BY <3>2 DEF PostingPcs
    <3>5. StatusStep(row[s].status, row'[s].status)
      BY <1>1, <2>1, EffectFacts
    <3>6. /\ row'[s].status # "absent"
          /\ row[s].status = "deleted" <=> row'[s].status = "deleted"
          /\ row[s].status # "queued" => row'[s].status # "queued"
          /\ Settled(s) => row'[s].status = row[s].status
      BY <1>2, <3>1, <3>5, StepFacts DEF Settled
    <3> QED
      BY <1>1, <2>1, <3>3, <3>4, <3>6, EffectFacts
  <2>2. CASE UNCHANGED storeVars
    BY <1>1, <1>2, <2>2 DEF storeVars, LifeInv
  <2> QED
    BY <2>1, <2>2
<1>4. /\ At(s, PostingPcs)' => At(s, PostingPcs)
      /\ At(s, {"markCompleted"})' => At(s, {"markCompleted"})
      /\ At(s, {"recordSent"})' => At(s, {"recordSent"})
  <2>1. ASSUME At(s, PostingPcs)' PROVE At(s, PostingPcs)
    BY <2>1 DEF At, Move, PostingPcs, RecordPcs, RunningPcs, Closed
  <2>2. ASSUME At(s, {"markCompleted"})' PROVE At(s, {"markCompleted"})
    BY <2>2 DEF At, Move, Closed
  <2>3. ASSUME At(s, {"recordSent"})' PROVE At(s, {"recordSent"})
    BY <2>3 DEF At, Move, Closed
  <2> QED
    BY <2>1, <2>2, <2>3
<1>5. pc'[s] \in RunningPcs \cup {"markFailed", "markCancelled"}
        => pc[s] \in RunningPcs \cup {"markFailed", "markCancelled"}
  BY DEF Move, RunningPcs, Closed
<1>6. pc'[s] \in {"persistOutputs", "submitRaw", "encrypted"}
        => pc[s] \in {"persistOutputs", "submitRaw", "encrypted"}
  BY DEF Move, Closed
<1>7. exec'[s] = "RUNNING" <=> pc'[s] # "none"
  <2>1. exec[s] = "RUNNING" <=> pc[s] # "none"
    BY <1>1 DEF LifeInv
  <2>2. pc[s] \notin Closed
    BY <1>1 DEF TypeOK, Pcs, ReadPcs, WritePcs, RecordPcs, WorkPcs, Closed
  <2>3. CASE k = pc[s]
    BY <2>1, <2>2, <2>3
  <2>4. CASE k # pc[s] /\ k \in Closed
    BY <2>4 DEF Closed
  <2>5. CASE k # pc[s] /\ k \notin Closed
    <3>1. pc[s] # "none" /\ k # "none"
      BY <2>5 DEF Move, RunningPcs, PostingPcs, RecordPcs, Closed
    <3> QED
      BY <2>1, <2>5, <3>1
  <2> QED
    BY <2>3, <2>4, <2>5
<1>8. exec'[s] = "COMPLETED" => exec[s] = "COMPLETED" \/ At(s, PostingPcs)
  BY <1>1 DEF Move, Closed, At, TypeOK, Pcs, ReadPcs, WritePcs, WorkPcs, RecordPcs
<1>9. Settled(s) => Settled(s)'
  BY <1>3 DEF Settled
<1> QED
  BY <1>1, <1>3, <1>4, <1>5, <1>6, <1>7, <1>8, <1>9 DEF LifeInv, Consistent

\* The same for every snapshot.
LEMMA MoveAllInv ==
  ASSUME IInv, NEW s \in Snapshots, NEW w \in Effects, NEW k,
         \/ Effect(s, w) /\ At(s, {w})
         \/ UNCHANGED storeVars /\ pc[s] # "none",
         Move(pc[s], k),
         pc' = [pc EXCEPT ![s] = IF k \in Closed THEN "none" ELSE k],
         exec' = [exec EXCEPT ![s] = IF k \in Closed THEN k ELSE @],
         late' \subseteq late \cup {<<s, pc[s]>>},
         \A t \in Snapshots \ {s} : \A x : <<t, x>> \in late => <<t, x>> \in late',
         deleter'[s] = "deleteObjects" => deleter[s] = "deleteObjects",
         \A t \in Snapshots \ {s} : deleter'[t] = deleter[t],
         creator' = creator, todo' = todo,
         NEW t \in Snapshots
  PROVE  LifeInv(t)'
<1>1. TypeOK /\ LifeInv(s) /\ LifeInv(t) /\ w \in Pcs
  BY EffectsArePcs DEF IInv
<1>2. CASE t = s
  <2>1. /\ pc'[s] = IF k \in Closed THEN "none" ELSE k
        /\ exec'[s] = IF k \in Closed THEN k ELSE exec[s]
    BY <1>1 DEF TypeOK
  <2>2. \A x : <<s, x>> \in late' => <<s, x>> \in late \/ x = pc[s]
    OBVIOUS
  <2> QED
    BY <1>2, <2>1, <2>2, MoveInv
<1>3. CASE t # s
  <2>1. /\ pc'[t] = pc[t] /\ exec'[t] = exec[t]
        /\ creator'[t] = creator[t] /\ deleter'[t] = deleter[t]
    BY <1>1, <1>3 DEF TypeOK
  <2>2. \A x : <<t, x>> \in late' <=> <<t, x>> \in late
    BY <1>3
  <2>3. CASE Effect(s, w)
    BY <1>1, <1>3, <2>1, <2>2, <2>3, EffectFrame
  <2>4. CASE UNCHANGED storeVars
    <3>1. Same(t)
      BY <2>1, <2>2, <2>4 DEF Same, storeVars
    <3> QED
      BY <1>1, <3>1, Frame
  <2> QED
    BY <2>3, <2>4
<1> QED
  BY <1>2, <1>3

\* An attempt that is over leaves the run where it is or on a failure edge.
LEMMA AttemptOverMoves ==
  ASSUME TypeOK, NEW s \in Snapshots, AttemptOver(s)
  PROVE  \E k : /\ Move(pc[s], k)
                /\ pc' = [pc EXCEPT ![s] = IF k \in Closed THEN "none" ELSE k]
                /\ exec' = [exec EXCEPT ![s] = IF k \in Closed THEN k ELSE @]
<1>1. CASE Follow(s, FailureEdges)
  <2>1. PICK e \in FailureEdges : e[1] = pc[s] /\ Goto(s, e[2])
    BY <1>1 DEF Follow
  <2>2. Move(pc[s], e[2])
    BY <2>1, EdgesMove
  <2> QED
    BY <2>1, <2>2 DEF Goto
<1>2. CASE UNCHANGED <<exec, runs, cancelReq, pc>>
  <2>1. pc[s] \notin Closed
    BY DEF TypeOK, Pcs, ReadPcs, WritePcs, RecordPcs, WorkPcs, Closed
  <2>2. /\ pc' = [pc EXCEPT ![s] = IF pc[s] \in Closed THEN "none" ELSE pc[s]]
        /\ exec' = [exec EXCEPT ![s] = IF pc[s] \in Closed THEN pc[s] ELSE @]
    BY <1>2, <2>1 DEF TypeOK
  <2>3. Move(pc[s], pc[s])
    BY DEF Move
  <2> QED
    BY <2>2, <2>3
<1> QED
  BY <1>1, <1>2 DEF AttemptOver

\* A run closed from outside.
LEMMA CloseRunInv ==
  ASSUME IInv, NEW s \in Snapshots, NEW st \in {"TIMED_OUT", "TERMINATED"},
         CloseRun(s, st), UNCHANGED storeVars, creator' = creator, todo' = todo,
         deleter'[s] = "deleteObjects" => deleter[s] = "deleteObjects",
         \A t \in Snapshots \ {s} : deleter'[t] = deleter[t],
         NEW t \in Snapshots
  PROVE  LifeInv(t)'
<1>1. pc[s] # "none"
  BY DEF IInv, LifeInv, CloseRun
<1>2. Move(pc[s], st)
  BY DEF Move, Closed
<1>3. /\ late' \subseteq late \cup {<<s, pc[s]>>}
      /\ \A u \in Snapshots \ {s} : \A x : <<u, x>> \in late => <<u, x>> \in late'
  BY DEF CloseRun, AbandonAttempt
<1>4. /\ pc' = [pc EXCEPT ![s] = IF st \in Closed THEN "none" ELSE st]
      /\ exec' = [exec EXCEPT ![s] = IF st \in Closed THEN st ELSE @]
  BY DEF CloseRun, Goto
<1>5. "phases" \in Effects
  BY DEF Effects
<1> QED
  BY <1>1, <1>2, <1>3, <1>4, <1>5, MoveAllInv

LEMMA EffectNotNone == "phases" \in Effects /\ "none" \notin Effects
BY DEF Effects, WritePcs, RecordPcs

\* The workflow's own steps.
LEMMA WorkflowInv ==
  ASSUME IInv, NEW s \in Snapshots, WorkflowNext(s), NEW t \in Snapshots
  PROVE  LifeInv(t)'
<1>1. TypeOK /\ LifeInv(s) /\ LifeInv(t)
  BY DEF IInv
<1>2. CASE ActivityCompletes(s)
  BY <1>2, CompletesInv
<1>3. CASE ActivityNotFound(s)
  <2>1. PICK e \in NotFoundEdges : e[1] = pc[s] /\ Goto(s, e[2])
    BY <1>3 DEF ActivityNotFound, Follow
  <2>2. Move(pc[s], e[2])
    BY <2>1, EdgesMove
  <2>3. /\ pc[s] # "none" /\ UNCHANGED storeVars /\ late' = late
        /\ creator' = creator /\ deleter' = deleter /\ todo' = todo
    BY <1>3 DEF ActivityNotFound, ReadPcs, WritePcs, RecordPcs, recVars
  <2> QED
    BY <2>1, <2>2, <2>3, EffectNotNone, MoveAllInv DEF Goto
<1>4. CASE AttemptFails(s)
  <2>1. /\ pc[s] # "none" /\ UNCHANGED storeVars
        /\ creator' = creator /\ deleter' = deleter /\ todo' = todo
    BY <1>4 DEF AttemptFails, recVars
  <2>2. /\ late' \subseteq late \cup {<<s, pc[s]>>}
        /\ \A u \in Snapshots \ {s} : \A x : <<u, x>> \in late => <<u, x>> \in late'
    BY <1>4 DEF AttemptFails, AbandonAttempt
  <2>3. PICK k : /\ Move(pc[s], k)
                 /\ pc' = [pc EXCEPT ![s] = IF k \in Closed THEN "none" ELSE k]
                 /\ exec' = [exec EXCEPT ![s] = IF k \in Closed THEN k ELSE @]
    BY <1>1, <1>4, AttemptOverMoves DEF AttemptFails
  <2> QED
    BY <2>1, <2>2, <2>3, EffectNotNone, MoveAllInv
<1>5. CASE ResponseLost(s)
  <2>1. /\ pc[s] \in Effects /\ Effect(s, pc[s]) /\ late' = late
        /\ creator' = creator /\ deleter' = deleter /\ todo' = todo
    BY <1>5 DEF ResponseLost, recVars
  <2>2. At(s, {pc[s]})
    BY DEF At
  <2>3. PICK k : /\ Move(pc[s], k)
                 /\ pc' = [pc EXCEPT ![s] = IF k \in Closed THEN "none" ELSE k]
                 /\ exec' = [exec EXCEPT ![s] = IF k \in Closed THEN k ELSE @]
    BY <1>1, <1>5, AttemptOverMoves DEF ResponseLost
  <2> QED
    BY <2>1, <2>2, <2>3, MoveAllInv
<1>6. CASE RequestCancel(s)
  <2>1. Same(t)
    BY <1>6 DEF RequestCancel, Same, storeVars, recVars
  <2> QED
    BY <1>1, <2>1, Frame
<1>7. CASE DeliverCancel(s)
  <2>1. PICK e \in CancelEdges : e[1] = pc[s] /\ Goto(s, e[2])
    BY <1>7 DEF DeliverCancel, Follow
  <2>2. Move(pc[s], e[2])
    BY <2>1, EdgesMove
  <2>3. pc[s] # "none"
    BY <2>1 DEF CancelEdges, RunningPcs, PostingPcs, RecordPcs
  <2>4. /\ UNCHANGED storeVars
        /\ creator' = creator /\ deleter' = deleter /\ todo' = todo
    BY <1>7 DEF DeliverCancel, recVars
  <2>5. /\ late' \subseteq late \cup {<<s, pc[s]>>}
        /\ \A u \in Snapshots \ {s} : \A x : <<u, x>> \in late => <<u, x>> \in late'
    BY <1>7 DEF DeliverCancel, AbandonAttempt
  <2> QED
    BY <2>1, <2>2, <2>3, <2>4, <2>5, EffectNotNone, MoveAllInv DEF Goto
<1>8. CASE RunTimesOut(s) \/ OperatorTerminates(s)
  <2>1. PICK st \in {"TIMED_OUT", "TERMINATED"} : CloseRun(s, st)
    BY <1>8 DEF RunTimesOut, OperatorTerminates
  <2>2. /\ UNCHANGED storeVars
        /\ creator' = creator /\ deleter' = deleter /\ todo' = todo
    BY <1>8 DEF RunTimesOut, OperatorTerminates, recVars
  <2> QED
    BY <2>1, <2>2, CloseRunInv
<1>9. CASE RetentionElapses(s)
  <2>1. CASE t # s
    <3>1. Same(t)
      BY <1>1, <1>9, <2>1 DEF RetentionElapses, Same, TypeOK, storeVars, recVars
    <3> QED
      BY <1>1, <3>1, Frame
  <2>2. CASE t = s
    <3>1. exec'[s] = "none" /\ exec[s] # "RUNNING"
      BY <1>1, <1>9 DEF RetentionElapses, TypeOK, Closed
    <3>2. /\ row' = row /\ publication' = publication /\ objects' = objects
          /\ posted' = posted /\ pc' = pc /\ late' = late /\ creator' = creator
          /\ deleter' = deleter /\ todo' = todo
      BY <1>9 DEF RetentionElapses, storeVars, recVars
    <3> QED
      BY <1>1, <2>2, <3>1, <3>2 DEF LifeInv, At, Untouched, Settled, Consistent
  <2> QED
    BY <2>1, <2>2
<1> QED
  BY <1>2, <1>3, <1>4, <1>5, <1>6, <1>7, <1>8, <1>9 DEF WorkflowNext

LEMMA LateCommitInv ==
  ASSUME IInv, LateCommit, NEW t \in Snapshots
  PROVE  LifeInv(t)'
<1>1. PICK a \in late : Effect(a[1], a[2]) /\ late' = late \ {a}
  BY DEF LateCommit
<1>2. a[1] \in Snapshots /\ a[2] \in Effects /\ a = <<a[1], a[2]>>
  BY DEF IInv, TypeOK
<1>3. At(a[1], {a[2]})
  BY <1>2 DEF At
<1>4. /\ pc' = pc /\ exec' = exec /\ creator' = creator /\ deleter' = deleter
      /\ todo' = todo
  BY DEF LateCommit, workflowVars, recVars
<1>5. pc[a[1]] \notin Closed
  BY <1>2 DEF IInv, TypeOK, Pcs, ReadPcs, WritePcs, RecordPcs, WorkPcs, Closed
<1>6. /\ pc' = [pc EXCEPT ![a[1]] = IF pc[a[1]] \in Closed THEN "none" ELSE pc[a[1]]]
      /\ exec' = [exec EXCEPT ![a[1]] = IF pc[a[1]] \in Closed THEN pc[a[1]] ELSE @]
  BY <1>2, <1>4, <1>5 DEF IInv, TypeOK
<1>7. Move(pc[a[1]], pc[a[1]])
  BY DEF Move
<1>8. /\ late' \subseteq late \cup {<<a[1], pc[a[1]]>>}
      /\ \A u \in Snapshots \ {a[1]} : \A x : <<u, x>> \in late => <<u, x>> \in late'
  BY <1>1, <1>2
<1> QED
  BY <1>1, <1>2, <1>3, <1>4, <1>6, <1>7, <1>8, MoveAllInv

\* A step of a request or of the reconciler that leaves t's row, stores and
\* run alone.
LEMMA QuietInv ==
  ASSUME NEW t \in Snapshots, LifeInv(t), UNCHANGED storeVars, late' = late,
         exec'[t] = exec[t], pc'[t] = pc[t],
         deleter'[t] = "deleteObjects" => row[t].status = "deleted",
         row[t].status = "absent" => /\ creator'[t] = "none" /\ deleter'[t] = "none"
                                     /\ \A l \in todo' : l.id # t
  PROVE  LifeInv(t)'
BY DEF LifeInv, Untouched, At, Settled, Consistent, storeVars

\* A (possibly failed) start by a request or the reconciler.
LEMMA StartInv ==
  ASSUME IInv, NEW s \in Snapshots, row[s].status # "absent",
         StartWorkflow(s) \/ UNCHANGED workflowVars,
         UNCHANGED storeVars, late' = late, deleter' = deleter,
         \A t \in Snapshots \ {s} : creator'[t] = creator[t],
         todo' \subseteq todo,
         NEW t \in Snapshots
  PROVE  LifeInv(t)'
<1>1. TypeOK /\ LifeInv(t) /\ LifeInv(s)
  BY DEF IInv
<1>2. CASE exec'[t] = exec[t] /\ pc'[t] = pc[t]
  <2>1. row[t].status = "absent" => /\ creator'[t] = "none" /\ deleter'[t] = "none"
                                    /\ \A l \in todo' : l.id # t
    BY <1>1 DEF LifeInv, Untouched
  <2>2. deleter'[t] = "deleteObjects" => row[t].status = "deleted"
    BY <1>1 DEF LifeInv
  <2> QED
    BY <1>1, <1>2, <2>1, <2>2, QuietInv
<1>3. CASE ~(exec'[t] = exec[t] /\ pc'[t] = pc[t])
  <2>1. /\ t = s /\ exec[s] # "RUNNING"
        /\ exec'[s] = "RUNNING" /\ pc'[s] = "getSnapshot"
    BY <1>1, <1>3 DEF StartWorkflow, workflowVars, TypeOK
  <2>2. /\ row' = row /\ publication' = publication /\ objects' = objects
        /\ posted' = posted
    BY DEF storeVars
  <2>3. /\ At(s, PostingPcs)' => At(s, PostingPcs)
        /\ At(s, {"markCompleted"})' => At(s, {"markCompleted"})
        /\ At(s, {"recordSent"})' => At(s, {"recordSent"})
    <3>1. ASSUME At(s, PostingPcs)' PROVE At(s, PostingPcs)
      <4>1. pc[s] = "none"
        BY <1>1, <2>1 DEF LifeInv
      <4> QED
        BY <2>1, <3>1, <4>1 DEF At, LifeInv, Untouched, PostingPcs, RecordPcs
    <3>2. ASSUME At(s, {"markCompleted"})' PROVE At(s, {"markCompleted"})
      BY <2>1, <3>2 DEF At
    <3>3. ASSUME At(s, {"recordSent"})' PROVE At(s, {"recordSent"})
      BY <2>1, <3>3 DEF At
    <3> QED
      BY <3>1, <3>2, <3>3
  <2> QED
    BY <1>1, <2>1, <2>2, <2>3 DEF LifeInv, Settled, Consistent, RunningPcs
<1> QED
  BY <1>2, <1>3

\* A row update by a request or the reconciler, which never completes a row.
LEMMA RowUpdateInv ==
  ASSUME IInv, NEW s \in Snapshots, NEW u \in Updates, u.status # "completed",
         row[s].status # "absent",
         row' = [row EXCEPT ![s] = ApplyExternalUpdate(row[s], u)],
         UNCHANGED <<publication, objects, posted, exec, pc, late, deleter>>,
         \A t \in Snapshots \ {s} : creator'[t] = creator[t],
         todo' \subseteq todo,
         NEW t \in Snapshots
  PROVE  LifeInv(t)'
<1>1. TypeOK /\ LifeInv(t) /\ LifeInv(s) /\ row[s] \in Row
  BY DEF IInv, TypeOK
<1>2. CASE t # s
  <2>1. Same(t)
    BY <1>1, <1>2 DEF Same, TypeOK
  <2> QED
    BY <1>1, <2>1, Frame
<1>3. CASE t = s
  <2>1. row'[s] = ApplyExternalUpdate(row[s], u)
    BY <1>1 DEF TypeOK
  <2>2. row'[s] \in Row
    BY <1>1, <2>1, ApplyType
  <2>3. Consistent(row'[s])
    BY <1>1, <2>1, ApplyConsistent DEF LifeInv
  <2>4. row[s].status \in Status /\ row'[s].status \in Status
    BY <1>1, <2>2 DEF Row
  <2>5. StatusStep(row[s].status, row'[s].status)
    BY <1>1, <2>1, ApplyStatus
  <2>6. /\ row'[s].status # "absent"
        /\ row[s].status = "deleted" <=> row'[s].status = "deleted"
        /\ row[s].status # "queued" => row'[s].status # "queued"
        /\ Settled(s) => row'[s].status = row[s].status
    BY <2>4, <2>5, StepFacts DEF Settled
  <2>7. row'[s].status = "completed" => row[s].status = "completed"
    BY <1>1, <2>1, ApplyCases
  <2>8. Settled(s) => Settled(s)'
    BY <2>6 DEF Settled
  <2>9. /\ At(s, PostingPcs)' <=> At(s, PostingPcs)
        /\ At(s, {"markCompleted"})' <=> At(s, {"markCompleted"})
        /\ At(s, {"recordSent"})' <=> At(s, {"recordSent"})
    BY DEF At, PostingPcs, RecordPcs
  <2> QED
    BY <1>1, <1>3, <2>3, <2>6, <2>7, <2>8, <2>9 DEF LifeInv, Consistent
<1> QED
  BY <1>2, <1>3

\* A new row is consistent and nothing refers to it yet.
LEMMA CreateRowInv ==
  ASSUME IInv, NEW s \in Snapshots, CreateRow(s), NEW t \in Snapshots
  PROVE  LifeInv(t)'
<1>1. TypeOK /\ LifeInv(t) /\ LifeInv(s)
  BY DEF IInv
<1>2. /\ publication' = publication /\ objects' = objects /\ posted' = posted
      /\ exec' = exec /\ pc' = pc /\ late' = late /\ deleter' = deleter
      /\ todo' = todo
  BY DEF CreateRow, workflowVars, recVars
<1>3. CASE t # s
  <2>1. Same(t)
    BY <1>1, <1>2, <1>3 DEF CreateRow, Same, TypeOK
  <2> QED
    BY <1>1, <2>1, Frame
<1>4. CASE t = s
  <2>1. PICK out \in {"unset", "given"} :
          row'[s] = [NoRow("queued") EXCEPT !.outputs = out]
    BY <1>1 DEF CreateRow, TypeOK
  <2>2. /\ row'[s].status = "queued" /\ Consistent(row'[s])
    BY <2>1 DEF NoRow, Consistent
  <2>3. Untouched(s) /\ exec[s] # "COMPLETED"
    BY <1>1 DEF CreateRow, LifeInv, Settled, Terminal
  <2>4. ~At(s, PostingPcs)' /\ ~At(s, {"markCompleted"})' /\ ~At(s, {"recordSent"})'
    <3>1. \A w : <<s, w>> \notin late
      BY <1>1, <2>3 DEF Untouched, TypeOK
    <3> QED
      BY <1>2, <2>3, <3>1 DEF At, Untouched, PostingPcs, RecordPcs
  <2> QED
    BY <1>1, <1>2, <1>4, <2>2, <2>3, <2>4 DEF LifeInv, Untouched, Consistent, RunningPcs
<1> QED
  BY <1>3, <1>4

LEMMA CreateInv ==
  ASSUME IInv, NEW s \in Snapshots, CreateNext(s), NEW t \in Snapshots
  PROVE  LifeInv(t)'
<1>1. TypeOK /\ LifeInv(t) /\ LifeInv(s)
  BY DEF IInv
<1>2. CASE CreateRow(s)
  BY <1>2, CreateRowInv
<1>3. ASSUME creator[s] \notin {"none", "done"} PROVE row[s].status # "absent"
  BY <1>1, <1>3 DEF LifeInv, Untouched
<1>4. ASSUME NEW x, creator' = [creator EXCEPT ![s] = x]
      PROVE  \A u \in Snapshots \ {s} : creator'[u] = creator[u]
  BY <1>1, <1>4 DEF TypeOK
<1>5. CASE PersistWorkflowId(s)
  <2>1. /\ row[s].status # "absent"
        /\ row' = [row EXCEPT ![s] =
                     ApplyExternalUpdate(row[s], Update("unset", "unset", "unset"))]
        /\ UNCHANGED <<publication, objects, posted, exec, pc, late, deleter>>
        /\ todo' \subseteq todo
    BY <1>3, <1>5 DEF PersistWorkflowId, workflowVars, recVars
  <2>2. \A u \in Snapshots \ {s} : creator'[u] = creator[u]
    BY <1>4, <1>5 DEF PersistWorkflowId
  <2>3. Update("unset", "unset", "unset").status # "completed"
    BY DEF Update
  <2> QED
    BY <2>1, <2>2, <2>3, TouchIsUpdate, RowUpdateInv
<1>6. CASE CreateStarts(s) \/ CreateStartFails(s)
  <2>1. /\ row[s].status # "absent"
        /\ StartWorkflow(s) \/ UNCHANGED workflowVars
        /\ UNCHANGED storeVars /\ late' = late /\ deleter' = deleter
        /\ todo' \subseteq todo
    BY <1>3, <1>6 DEF CreateStarts, CreateStartFails, recVars
  <2>2. \A u \in Snapshots \ {s} : creator'[u] = creator[u]
    BY <1>4, <1>6 DEF CreateStarts, CreateStartFails
  <2> QED
    BY <2>1, <2>2, StartInv
<1>7. CASE MarkStartFailed(s)
  <2>1. /\ row[s].status # "absent"
        /\ row' = [row EXCEPT ![s] =
                     ApplyExternalUpdate(row[s], Update("failed", "unset", "start"))]
        /\ UNCHANGED <<publication, objects, posted, exec, pc, late, deleter>>
        /\ todo' \subseteq todo
    BY <1>3, <1>7 DEF MarkStartFailed, workflowVars, recVars
  <2>2. \A u \in Snapshots \ {s} : creator'[u] = creator[u]
    BY <1>4, <1>7 DEF MarkStartFailed
  <2>3. Update("failed", "unset", "start").status # "completed"
    BY DEF Update
  <2> QED
    BY <2>1, <2>2, <2>3, StartFailureIsUpdate, RowUpdateInv
<1>8. CASE ClassifyStart(s) \/ CreateAborts(s)
  <2>1. /\ row[s].status # "absent"
        /\ UNCHANGED workflowVars
        /\ UNCHANGED storeVars /\ late' = late /\ deleter' = deleter
        /\ todo' \subseteq todo
    BY <1>3, <1>8 DEF ClassifyStart, CreateAborts, recVars
  <2>2. \A u \in Snapshots \ {s} : creator'[u] = creator[u]
    BY <1>4, <1>8 DEF ClassifyStart, CreateAborts
  <2> QED
    BY <2>1, <2>2, StartInv
<1> QED
  BY <1>2, <1>5, <1>6, <1>7, <1>8 DEF CreateNext

LEMMA ReconcileInv ==
  ASSUME IInv, NEW l \in Listed, ReconcileRow(l), NEW t \in Snapshots
  PROVE  LifeInv(t)'
<1>1. TypeOK /\ LifeInv(t) /\ l.id \in Snapshots /\ LifeInv(l.id)
  BY DEF IInv, Listed
<1>2. row[l.id].status # "absent"
  BY <1>1 DEF ReconcileRow, DescribeRow, StartOrphan, StartOrphanFails, Settle,
              IsNext, LifeInv, Untouched
<1>3. todo' \subseteq todo /\ creator' = creator /\ deleter' = deleter /\ late' = late
  BY DEF ReconcileRow, DescribeRow, StartOrphan, StartOrphanFails, Settle, DropRow
<1>4. CASE DescribeRow(l)
  BY <1>1, <1>2, <1>3, <1>4, StartInv DEF DescribeRow
<1>5. CASE StartOrphan(l) \/ StartOrphanFails(l)
  BY <1>1, <1>2, <1>3, <1>5, StartInv DEF StartOrphan, StartOrphanFails
<1>6. CASE Settle(l)
  <2>1. PICK c \in SettleCalls :
          row' = [row EXCEPT ![l.id] = ApplyExternalUpdate(row[l.id], c[2])]
    BY <1>6 DEF Settle
  <2>2. c[2] \in Updates /\ c[2].status # "completed"
    BY CallsAreUpdates DEF SettleCalls, Update
  <2>3. UNCHANGED <<publication, objects, posted, exec, pc, late, deleter>>
    BY <1>6 DEF Settle, workflowVars
  <2> QED
    BY <1>1, <1>2, <1>3, <2>1, <2>2, <2>3, RowUpdateInv
<1> QED
  BY <1>4, <1>5, <1>6 DEF ReconcileRow

\* Listing picks up existing rows only.
LEMMA PassInv ==
  ASSUME IInv, ListUnsettled \/ PassAborts, NEW t \in Snapshots
  PROVE  LifeInv(t)'
<1>1. LifeInv(t)
  BY DEF IInv
<1>2. /\ UNCHANGED storeVars /\ late' = late /\ exec' = exec /\ pc' = pc
      /\ creator' = creator /\ deleter' = deleter
  BY DEF ListUnsettled, PassAborts, workflowVars
<1>3. row[t].status = "absent" => \A l \in todo' : l.id # t
  BY DEF ListUnsettled, PassAborts, Listed, Live
<1>4. /\ row[t].status = "absent" => creator[t] = "none" /\ deleter[t] = "none"
      /\ deleter[t] = "deleteObjects" => row[t].status = "deleted"
  BY <1>1 DEF LifeInv, Untouched
<1> QED
  BY <1>1, <1>2, <1>3, <1>4, QuietInv

LEMMA DeleteInv ==
  ASSUME IInv, NEW s \in Snapshots, DeleteNext(s), NEW t \in Snapshots
  PROVE  LifeInv(t)'
<1>1. TypeOK /\ LifeInv(t) /\ LifeInv(s)
  BY DEF IInv
<1>2. row[s].status # "absent"
  BY <1>1 DEF DeleteNext, DeleteRequested, DeleteTerminates, DeleteRow,
              DeleteObjects, DeleteAborts, LifeInv, Untouched, Exists, Live, Terminal
<1>3. CASE DeleteRequested(s) \/ DeleteAborts(s)
               \/ (DeleteTerminates(s) /\ UNCHANGED <<workflowVars, late>>)
  <2>1. /\ UNCHANGED storeVars /\ late' = late /\ exec' = exec /\ pc' = pc
        /\ creator' = creator /\ todo' = todo
    BY <1>3 DEF DeleteRequested, DeleteAborts, DeleteTerminates, workflowVars, recVars
  <2>2. /\ deleter'[s] # "deleteObjects"
        /\ \A u \in Snapshots \ {s} : deleter'[u] = deleter[u]
    BY <1>1, <1>3 DEF DeleteRequested, DeleteAborts, DeleteTerminates, TypeOK
  <2>3. /\ row[t].status = "absent" => /\ creator[t] = "none" /\ deleter[t] = "none"
                                       /\ \A l \in todo : l.id # t
        /\ deleter[t] = "deleteObjects" => row[t].status = "deleted"
    BY <1>1 DEF LifeInv, Untouched
  <2> QED
    BY <1>1, <1>2, <2>1, <2>2, <2>3, QuietInv
<1>4. CASE DeleteTerminates(s) /\ CloseRun(s, "TERMINATED")
  <2>1. /\ UNCHANGED storeVars /\ creator' = creator /\ todo' = todo
        /\ deleter'[s] # "deleteObjects"
        /\ \A u \in Snapshots \ {s} : deleter'[u] = deleter[u]
    BY <1>1, <1>4 DEF DeleteTerminates, TypeOK, recVars
  <2> QED
    BY <1>4, <2>1, CloseRunInv
<1>5. CASE DeleteRow(s)
  <2>1. /\ objects' = objects /\ posted' = posted /\ exec' = exec /\ pc' = pc
        /\ late' = late /\ creator' = creator /\ todo' = todo
    BY <1>5 DEF DeleteRow, workflowVars, recVars
  <2>2. CASE t # s
    <3>1. Same(t)
      BY <1>1, <1>5, <2>1, <2>2 DEF DeleteRow, Same, TypeOK
    <3> QED
      BY <1>1, <3>1, Frame
  <2>3. CASE t = s
    <3>1. row'[s] = NoRow("deleted") /\ publication'[s] = "unset"
      BY <1>1, <1>5 DEF DeleteRow, TypeOK
    <3>2. row'[s].status = "deleted" /\ Consistent(row'[s])
      BY <3>1 DEF NoRow, Consistent
    <3>3. Settled(s)'
      BY <3>2 DEF Settled
    <3>4. At(s, {"recordSent"})' <=> At(s, {"recordSent"})
      BY <2>1 DEF At
    <3> QED
      BY <1>1, <2>1, <2>3, <3>1, <3>2, <3>3, <3>4 DEF LifeInv, Consistent
  <2> QED
    BY <2>2, <2>3
<1>6. CASE DeleteObjects(s)
  <2>1. /\ row' = row /\ publication' = publication /\ posted' = posted
        /\ exec' = exec /\ pc' = pc /\ late' = late /\ creator' = creator
        /\ todo' = todo
    BY <1>6 DEF DeleteObjects, workflowVars, recVars
  <2>2. /\ deleter'[s] = "none" /\ row[s].status = "deleted"
        /\ \A u \in Snapshots \ {s} : /\ deleter'[u] = deleter[u]
                                      /\ u \in objects' <=> u \in objects
    BY <1>1, <1>6 DEF DeleteObjects, TypeOK, LifeInv
  <2>3. CASE t # s
    <3>1. Same(t)
      BY <2>1, <2>2, <2>3 DEF Same
    <3> QED
      BY <1>1, <3>1, Frame
  <2>4. CASE t = s
    BY <1>1, <2>1, <2>2, <2>4 DEF LifeInv, Untouched, At, Settled, Consistent
  <2> QED
    BY <2>3, <2>4
<1> QED
  BY <1>3, <1>4, <1>5, <1>6 DEF DeleteNext, DeleteTerminates

\* The clocks change only the two timestamps the reconciler compares.
LEMMA TimeInv ==
  ASSUME IInv, NEW s \in Snapshots, GraceElapses(s) \/ StartBudgetElapses(s),
         NEW t \in Snapshots
  PROVE  LifeInv(t)'
<1>1. TypeOK /\ LifeInv(t)
  BY DEF IInv
<1>2. /\ publication' = publication /\ objects' = objects /\ posted' = posted
      /\ exec' = exec /\ pc' = pc /\ late' = late /\ creator' = creator
      /\ deleter' = deleter /\ todo' = todo
  BY DEF GraceElapses, StartBudgetElapses, workflowVars, recVars
<1>3. /\ row'[t].status = row[t].status /\ row'[t].startedAt = row[t].startedAt
      /\ row'[t].completedAt = row[t].completedAt
      /\ row'[t].outputs = row[t].outputs /\ row'[t].error = row[t].error
  BY <1>1 DEF GraceElapses, StartBudgetElapses, TypeOK, Row
<1>4. Consistent(row[t])'
  BY <1>1, <1>3 DEF LifeInv, Consistent
<1> QED
  BY <1>1, <1>2, <1>3, <1>4 DEF LifeInv, Untouched, At, Settled

LEMMA InitInv == Init => IInv
<1> SUFFICES ASSUME Init, NEW s \in Snapshots PROVE LifeInv(s)
  BY InitType DEF IInv
<1>1. row[s].status = "absent" /\ Consistent(row[s])
  BY DEF Init, NoRow, Consistent
<1> QED
  BY <1>1 DEF Init, LifeInv, Untouched, At, RunningPcs, PostingPcs, RecordPcs

LEMMA NextInv == IInv /\ [Next]_vars => IInv'
<1> SUFFICES ASSUME IInv, [Next]_vars PROVE IInv'
  OBVIOUS
<1>1. TypeOK'
  BY NextType DEF IInv
<1>2. ASSUME NEW t \in Snapshots PROVE LifeInv(t)'
  <2>1. CASE UNCHANGED vars
    <3>1. Same(t)
      BY <2>1 DEF vars, Same
    <3> QED
      BY <3>1, Frame DEF IInv
  <2> QED
    BY <2>1, CreateInv, WorkflowInv, DeleteInv, TimeInv, ReconcileInv, PassInv,
       LateCommitInv DEF Next
<1> QED
  BY <1>1, <1>2 DEF IInv

\* The facts about one snapshot that hold together at every step of every
\* writer of its row: the create request, the workflow and its late attempts,
\* the reconciler and the delete request.
THEOREM Inductive == Spec => []IInv
<1>1. Init => IInv
  BY InitInv
<1>2. IInv /\ [Next]_vars => IInv'
  BY NextInv
<1> QED
  BY <1>1, <1>2, PTL DEF Spec

-----------------------------------------------------------------------------
(* The theorems.                                                           *)

\* Whatever order the writers of a row commit in, the row never mixes the
\* fields of two outcomes.
THEOREM RowsStayConsistent == Spec => []RowConsistent
<1>1. IInv => RowConsistent
  BY DEF IInv, LifeInv, RowConsistent
<1> QED
  BY <1>1, Inductive, PTL

\* Scores are posted, and a publication recorded, only for a snapshot whose
\* fate is decided.
THEOREM PublishingIsLast == Spec => []PublishesOnlySettled
<1>1. IInv => PublishesOnlySettled
  BY DEF IInv, LifeInv, At, PublishesOnlySettled
<1> QED
  BY <1>1, Inductive, PTL

\* The objects of a completed snapshot are in the bucket.
THEOREM ObjectsOutliveRow == Spec => []CompletedHasObjects
<1>1. IInv => CompletedHasObjects
  BY DEF IInv, LifeInv, CompletedHasObjects
<1> QED
  BY <1>1, Inductive, PTL

\* The ledger never claims a post that did not happen.
THEOREM LedgerIsTruthful == Spec => []SentWasPosted
<1>1. IInv => SentWasPosted
  BY DEF IInv, LifeInv, SentWasPosted
<1> QED
  BY <1>1, Inductive, PTL

\* A run closes as COMPLETED only when the row is settled.
THEOREM CompletedRunsSettle == Spec => []CompletedRunSettled
<1>1. IInv => CompletedRunSettled
  BY DEF IInv, LifeInv, CompletedRunSettled
<1> QED
  BY <1>1, Inductive, PTL

\* One step changes the status of at most one snapshot, by a step of the
\* status machine.
StatusMove(from, to) ==
  \/ StatusStep(from, to)
  \/ from = "absent" /\ to = "queued"
  \/ from # "absent" /\ to = "deleted"

OneMove ==
  \/ \A t \in Snapshots : row'[t].status = row[t].status
  \/ \E s \in Snapshots :
       /\ \A t \in Snapshots \ {s} : row'[t].status = row[t].status
       /\ StatusMove(row[s].status, row'[s].status)

LEMMA UpdateMoves ==
  ASSUME TypeOK, NEW s \in Snapshots, NEW u \in Updates,
         row' = [row EXCEPT ![s] = ApplyExternalUpdate(row[s], u)]
  PROVE  OneMove
<1>1. /\ row'[s] = ApplyExternalUpdate(row[s], u) /\ row[s] \in Row
      /\ \A t \in Snapshots \ {s} : row'[t] = row[t]
  BY DEF TypeOK
<1>2. StatusStep(row[s].status, row'[s].status)
  BY <1>1, ApplyStatus
<1> QED
  BY <1>1, <1>2 DEF OneMove, StatusMove

LEMMA EffectMoves ==
  ASSUME TypeOK, NEW s \in Snapshots, NEW w, Effect(s, w)
  PROVE  OneMove
<1>1. CASE row' = row
  BY <1>1 DEF OneMove
<1>2. CASE row' # row
  <2>1. PICK c \in UpdateCalls :
          row' = [row EXCEPT ![s] = ApplyExternalUpdate(row[s], c[2])]
    BY <1>2 DEF Effect
  <2>2. c[2] \in Updates
    BY CallsAreUpdates
  <2> QED
    BY <2>1, <2>2, UpdateMoves
<1> QED
  BY <1>1, <1>2

LEMMA NextMoves == IInv /\ [Next]_vars => OneMove
<1> SUFFICES ASSUME IInv, [Next]_vars PROVE OneMove
  OBVIOUS
<1>1. TypeOK
  BY DEF IInv
<1>2. ASSUME row' = row PROVE OneMove
  BY <1>2 DEF OneMove
<1>3. CASE UNCHANGED vars
  BY <1>2, <1>3 DEF vars
<1>4. ASSUME NEW s \in Snapshots, CreateNext(s) PROVE OneMove
  <2>1. CASE CreateRow(s)
    <3>1. /\ row[s].status = "absent" /\ row'[s].status = "queued"
          /\ \A t \in Snapshots \ {s} : row'[t] = row[t]
      BY <1>1, <2>1 DEF CreateRow, NoRow, TypeOK
    <3> QED
      BY <3>1 DEF OneMove, StatusMove
  <2>2. CASE PersistWorkflowId(s)
    BY <1>1, <2>2, TouchIsUpdate, UpdateMoves DEF PersistWorkflowId
  <2>3. CASE MarkStartFailed(s)
    BY <1>1, <2>3, StartFailureIsUpdate, UpdateMoves DEF MarkStartFailed
  <2> QED
    BY <1>2, <1>4, <2>1, <2>2, <2>3
    DEF CreateNext, CreateStarts, CreateStartFails, ClassifyStart, CreateAborts,
        storeVars
<1>5. ASSUME NEW s \in Snapshots, WorkflowNext(s) PROVE OneMove
  <2>1. CASE ActivityCompletes(s)
    BY <1>1, <2>1, EffectMoves DEF ActivityCompletes
  <2>2. CASE ResponseLost(s)
    BY <1>1, <2>2, EffectMoves DEF ResponseLost
  <2> QED
    BY <1>2, <1>5, <2>1, <2>2
    DEF WorkflowNext, ActivityNotFound, AttemptFails, RequestCancel, DeliverCancel,
        RunTimesOut, OperatorTerminates, RetentionElapses, storeVars
<1>6. ASSUME NEW s \in Snapshots, DeleteNext(s) PROVE OneMove
  <2>1. CASE DeleteRow(s)
    <3>1. /\ row'[s].status = "deleted"
          /\ \A t \in Snapshots \ {s} : row'[t] = row[t]
      BY <1>1, <2>1 DEF DeleteRow, NoRow, TypeOK
    <3>2. row[s].status # "absent"
      BY <2>1 DEF DeleteRow, IInv, LifeInv, Untouched
    <3> QED
      BY <3>1, <3>2 DEF OneMove, StatusMove
  <2> QED
    BY <1>2, <1>6, <2>1
    DEF DeleteNext, DeleteRequested, DeleteTerminates, DeleteObjects, DeleteAborts,
        storeVars
<1>7. ASSUME NEW s \in Snapshots, GraceElapses(s) \/ StartBudgetElapses(s)
      PROVE OneMove
  <2>1. \A t \in Snapshots : row'[t].status = row[t].status
    BY <1>1, <1>7 DEF GraceElapses, StartBudgetElapses, TypeOK, Row
  <2> QED
    BY <2>1 DEF OneMove
<1>8. ASSUME NEW l \in Listed, ReconcileRow(l) PROVE OneMove
  <2>1. CASE Settle(l)
    <3>1. PICK c \in SettleCalls :
            row' = [row EXCEPT ![l.id] = ApplyExternalUpdate(row[l.id], c[2])]
      BY <2>1 DEF Settle
    <3>2. c[2] \in Updates /\ l.id \in Snapshots
      BY CallsAreUpdates DEF Listed
    <3> QED
      BY <1>1, <3>1, <3>2, UpdateMoves
  <2> QED
    BY <1>2, <1>8, <2>1
    DEF ReconcileRow, DescribeRow, StartOrphan, StartOrphanFails, storeVars
<1>9. CASE LateCommit
  <2>1. PICK a \in late : Effect(a[1], a[2])
    BY <1>9 DEF LateCommit
  <2>2. a[1] \in Snapshots
    BY <1>1 DEF TypeOK
  <2> QED
    BY <1>1, <2>1, <2>2, EffectMoves
<1>10. CASE ListUnsettled \/ PassAborts
  BY <1>2, <1>10 DEF ListUnsettled, PassAborts, storeVars
<1> QED
  BY <1>3, <1>4, <1>5, <1>6, <1>7, <1>8, <1>9, <1>10 DEF Next

\* The store implements the status machine: a settled status is final, only a
\* running snapshot completes, a deleted row never comes back.
THEOREM StoreImplementsStatusMachine == Spec => StatusMachine
<1> DEFINE st == [s \in Snapshots |-> row[s].status]
<1>1. Init => Abstract!Init
  BY DEF Init, NoRow, Abstract!Init
<1>2. IInv /\ [Next]_vars => [Abstract!Next]_st
  <2> SUFFICES ASSUME IInv, [Next]_vars, st' # st PROVE Abstract!Next
    OBVIOUS
  <2>1. row \in [Snapshots -> Row] /\ row' \in [Snapshots -> Row]
    BY NextType DEF IInv, TypeOK
  <2>2. PICK s \in Snapshots :
          /\ \A t \in Snapshots \ {s} : row'[t].status = row[t].status
          /\ StatusMove(row[s].status, row'[s].status)
    <3>1. ~ \A t \in Snapshots : row'[t].status = row[t].status
      OBVIOUS
    <3> QED
      BY <3>1, NextMoves DEF OneMove
  <2>3. st' = [st EXCEPT ![s] = row'[s].status] /\ row'[s].status # row[s].status
    BY <2>2
  <2>4. row[s].status \in Status /\ row'[s].status \in Status
    BY <2>1 DEF Row
  <2>5. st[s] = row[s].status
    OBVIOUS
  <2>6. Abstract!Create(s) \/ Abstract!Begin(s) \/ Abstract!Settle(s) \/ Abstract!Delete(s)
    BY <2>2, <2>3, <2>4, <2>5
    DEF StatusMove, StatusStep, Status, Live, Terminal, Abstract!Create, Abstract!Begin,
        Abstract!Settle, Abstract!Delete, Abstract!Live, Abstract!Terminal
  <2> QED
    BY <2>6 DEF Abstract!Next
<1> QED
  BY <1>1, <1>2, Inductive, PTL DEF Spec, StatusMachine, Abstract!Spec

=============================================================================
