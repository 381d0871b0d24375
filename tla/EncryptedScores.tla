--------------------------- MODULE EncryptedScores ---------------------------
(***************************************************************************)
(* The second half of a combined (custom_score) run: raw child scores go   *)
(* to DeepID, the workflow polls on durable timers until DeepID encrypted  *)
(* them, and a processing pass evaluates and posts each complete user's    *)
(* final entry (apps/workflows/src/workflows/encryption-readiness.ts and   *)
(* encrypted-custom-score.ts, the three DeepID activities they drive).     *)
(*                                                                         *)
(* Interleaved with it: DeepID changes what it shows of a user between any *)
(* two reads, also of one pass; the users cursor expires; an activity      *)
(* attempt dies after any of its calls and is retried; time passes while   *)
(* an activity runs.  The workflow itself is replayed from history, so a   *)
(* worker crash does not touch its variables.                              *)
(***************************************************************************)
EXTENDS Naturals, Sequences, FiniteSets, SequencesExt

CONSTANTS Pages,          \* the users listing: a sequence of disjoint sets of users
          Children,       \* the selected children, each with its encrypted scope
          PollDelays,     \* DEEP_ID_READINESS_POLL_DELAYS_MS
          SteadyDelay,    \* DEEP_ID_READINESS_STEADY_POLL_DELAY_MS
          EncryptionTime, \* DEEP_ID_ENCRYPTION_DEADLINE_MS
          RunTimeout,     \* WORKFLOW_RUN_TIMEOUT, which Temporal enforces
          CursorRestarts, \* CURSOR_RESTART_LIMIT
          ActivityTries   \* ACTIVITY_MAX_ATTEMPTS

ASSUME EncryptedScoresAssumption ==
    /\ {EncryptionTime, RunTimeout, CursorRestarts, ActivityTries, SteadyDelay} \subseteq Nat
    /\ EncryptionTime < RunTimeout /\ ActivityTries > 0
    /\ PollDelays \in Seq(Nat) /\ Len(Pages) \in Nat /\ DOMAIN Pages = 1..Len(Pages)
    /\ \A p, q \in DOMAIN Pages : p # q => Pages[p] \cap Pages[q] = {}

People == UNION {Pages[p] : p \in DOMAIN Pages}

VARIABLES
    phase,      \* where the run is
    reason,     \* why it failed, "" while it has not
    clock,      \* workflow time
    deadline,   \* deadlineAtMs of the lifecycle
    polls,      \* length of polledAtOffsetsMs of the present poll
    tries, restarts,   \* of the activity that runs: attempt, cursor restarts
    page,       \* pages read in this pass
    view,       \* classification of the users this pass read
    queue,      \* complete users of the page being posted
    accepted    \* users whose final entry DeepID answered OK, in any pass

passVars == <<page, view, queue>>
encVars == <<phase, reason, clock, deadline, polls, tries, restarts, passVars, accepted>>

NoView == [u \in {} |-> "incomplete"]

EncInit ==
    /\ phase = "raw" /\ reason = ""
    /\ clock = 0 /\ deadline = 0 /\ polls = 0
    /\ tries = 1 /\ restarts = 0
    /\ page = 0 /\ view = NoView /\ queue = {} /\ accepted = {}

-----------------------------------------------------------------------------
(* Pieces of the steps.                                                    *)

FieldStates == {"absent", "pending_encryption", "encrypted"}

\* classifyEncryptedUser, a field per selected child: one absent field outweighs
\* every pending one.
ClassifyEncryptedUser(fields) ==
    IF \E c \in DOMAIN fields : fields[c] = "absent" THEN "incomplete"
    ELSE IF \E c \in DOMAIN fields : fields[c] = "pending_encryption" THEN "potentiallyComplete"
    ELSE "complete"

StartPass == page' = 0 /\ view' = NoView /\ queue' = {}

\* A workflow-level activity call: a first attempt with no restarts.
CallActivity == tries' = 1 /\ restarts' = 0 /\ StartPass

Fail(why) ==
    /\ phase' = "failed" /\ reason' = why
    /\ UNCHANGED <<clock, deadline, polls, tries, restarts, passVars, accepted>>

\* iterateUsers yields a page.  Between any two reads DeepID may have encrypted a
\* field, set it pending again, or lost it with the user's consent, so a read
\* shows anything.
ReadPage ==
    /\ page < Len(Pages)
    /\ page' = page + 1
    /\ \E fields \in [Pages[page'] -> [Children -> FieldStates]] :
          view' = [u \in DOMAIN view \cup Pages[page'] |->
                       IF u \in Pages[page'] THEN ClassifyEncryptedUser(fields[u]) ELSE view[u]]

Seen(v, state) == {u \in DOMAIN v : v[u] = state}

-----------------------------------------------------------------------------
(* The workflow.                                                           *)

\* submitCustomRawScores returns: every child had an accepted row.  A failure of
\* the activity, after its retries, fails the run.
SubmitCustomRawScores ==
    /\ phase = "raw"
    /\ \/ /\ phase' = "sleep" /\ deadline' = clock + EncryptionTime /\ polls' = 0
          /\ UNCHANGED <<reason, clock, tries, restarts, passVars, accepted>>
       \/ Fail("raw")

DelayOf(n) == IF n <= Len(PollDelays) THEN PollDelays[n] ELSE SteadyDelay

\* Mutant: the sleep is not cut at the deadline.
WakeForPollLate ==
    /\ phase = "sleep"
    /\ phase' = "poll" /\ clock' = clock + DelayOf(polls + 1)
    /\ CallActivity
    /\ UNCHANGED <<reason, deadline, polls, accepted>>

\* Mutant: a negative sleep never fires.
WakeForPollAhead ==
    /\ phase = "sleep" /\ clock <= deadline
    /\ phase' = "poll"
    /\ clock' = IF clock + DelayOf(polls + 1) <= deadline THEN clock + DelayOf(polls + 1) ELSE deadline
    /\ CallActivity
    /\ UNCHANGED <<reason, deadline, polls, accepted>>

\* workflow.sleep(Math.min(delayMs, deadlineAtMs - now)): a sleep past the
\* deadline is none at all.
WakeForPoll ==
    /\ phase = "sleep"
    /\ phase' = "poll"
    /\ clock' = IF clock + DelayOf(polls + 1) <= deadline THEN clock + DelayOf(polls + 1)
                ELSE IF clock > deadline THEN clock ELSE deadline
    /\ CallActivity
    /\ UNCHANGED <<reason, deadline, polls, accepted>>

\* checkEncryptionReadiness reads a page, and after the last one returns:
\* ready when no user is potentially complete.
PollPage ==
    /\ phase = "poll" /\ page < Len(Pages)
    /\ ReadPage
    /\ UNCHANGED <<phase, reason, clock, deadline, polls, tries, restarts, queue, accepted>>

PollReturns ==
    /\ phase = "poll" /\ page = Len(Pages)
    /\ polls' = polls + 1
    /\ \/ /\ Seen(view, "potentiallyComplete") = {}
          /\ phase' = "process" /\ CallActivity /\ UNCHANGED reason
       \/ /\ Seen(view, "potentiallyComplete") # {} /\ clock >= deadline
          /\ phase' = "failed" /\ reason' = "timeout"
          /\ UNCHANGED <<tries, restarts, passVars>>
       \/ /\ Seen(view, "potentiallyComplete") # {} /\ clock < deadline
          /\ phase' = "sleep" /\ UNCHANGED <<reason, tries, restarts, passVars>>
    /\ UNCHANGED <<clock, deadline, accepted>>

\* Mutant: the users classified before the pending one are submitted.
ProcessPageEagerly ==
    /\ phase = "process" /\ page < Len(Pages) /\ queue = {}
    /\ ReadPage
    /\ queue' = Seen(view', "complete") \cap Pages[page']
    /\ UNCHANGED <<phase, reason, clock, deadline, polls, tries, restarts, accepted>>

\* runProcessingPass reads and classifies one page; a pending user stops the
\* pass before anything of the page is posted and the workflow polls afresh.
ProcessPage ==
    /\ phase = "process" /\ page < Len(Pages) /\ queue = {}
    /\ ReadPage
    /\ \/ /\ \E u \in Pages[page'] : view'[u] = "potentiallyComplete"
          /\ phase' = "sleep" /\ polls' = 0 /\ UNCHANGED queue
       \/ /\ \A u \in Pages[page'] : view'[u] # "potentiallyComplete"
          /\ queue' = Seen(view', "complete") \cap Pages[page']
          /\ UNCHANGED <<phase, polls>>
    /\ UNCHANGED <<reason, clock, deadline, tries, restarts, accepted>>

\* Mutant: a per-user rejection is logged and the pass goes on.
PostEntryLogsRejection ==
    /\ phase = "process"
    /\ \E u \in queue :
          /\ queue' = queue \ {u}
          /\ accepted' \in {accepted, accepted \cup {u}}
    /\ UNCHANGED <<phase, reason, clock, deadline, polls, tries, restarts, page, view>>

\* submitPage posts a batch (one entry here): OK, or the run fails.
PostEntry ==
    /\ phase = "process"
    /\ \E u \in queue :
          \/ /\ queue' = queue \ {u} /\ accepted' = accepted \cup {u}
             /\ UNCHANGED <<phase, reason, clock, deadline, polls, tries, restarts, page, view>>
          \/ Fail("rejected")

PassReturns ==
    /\ phase = "process" /\ page = Len(Pages) /\ queue = {}
    /\ phase' = "done"
    /\ UNCHANGED <<reason, clock, deadline, polls, tries, restarts, passVars, accepted>>

\* A 400 on a later page: the partial pass is discarded, at most
\* CURSOR_RESTART_LIMIT times per activity attempt.
CursorExpires ==
    /\ phase \in {"poll", "process"} /\ 0 < page /\ page < Len(Pages) /\ queue = {}
    /\ \/ /\ restarts < CursorRestarts
          /\ restarts' = restarts + 1 /\ StartPass
          /\ UNCHANGED <<phase, reason, clock, deadline, polls, tries, accepted>>
       \/ restarts >= CursorRestarts /\ Fail("cursor")

\* A retryable failure, a lost worker or a missed heartbeat ends the attempt
\* after any of its calls; what it posted stays posted.
AttemptDies ==
    /\ phase \in {"poll", "process"}
    /\ \/ /\ tries < ActivityTries
          /\ tries' = tries + 1 /\ restarts' = 0 /\ StartPass
          /\ UNCHANGED <<phase, reason, clock, deadline, polls, accepted>>
       \/ tries >= ActivityTries /\ Fail("attempts")

\* toReadinessFailure, toSubmissionFailure: contract violations, refusals and
\* evaluator failures are not retried.
AttemptIsFatal == phase \in {"poll", "process"} /\ Fail("fatal")

TimePasses ==
    /\ phase \in {"poll", "process"} /\ clock < RunTimeout
    /\ clock' = clock + 1
    /\ UNCHANGED <<phase, reason, deadline, polls, tries, restarts, passVars, accepted>>

\* Temporal ends the run, wherever it is.
RunTimesOut == phase \in {"sleep", "poll", "process"} /\ clock = RunTimeout /\ Fail("run_timeout")

LifecycleStep ==
    \/ SubmitCustomRawScores \/ WakeForPoll \/ PollPage \/ PollReturns
    \/ ProcessPage \/ PostEntry \/ PassReturns

EncNext ==
    \/ LifecycleStep \/ CursorExpires \/ AttemptDies \/ AttemptIsFatal
    \/ TimePasses \/ RunTimesOut

EncSpec == EncInit /\ [][EncNext]_encVars

-----------------------------------------------------------------------------
(* Properties.                                                             *)

\* The types of the lifecycle's variables; the clock never passes the run timeout.
EncTypeOK ==
    /\ phase \in {"raw", "sleep", "poll", "process", "done", "failed"}
    /\ clock \in 0..RunTimeout /\ deadline \in 0..RunTimeout /\ polls \in Nat
    /\ tries \in 1..ActivityTries /\ restarts \in 0..CursorRestarts
    /\ page \in 0..Len(Pages) /\ queue \subseteq DOMAIN view /\ DOMAIN view \subseteq People
    /\ \A u \in DOMAIN view : view[u] \in {"incomplete", "potentiallyComplete", "complete"}
    /\ accepted \subseteq People

\* The run completes only after one pass read every page, met no pending user and
\* had the final entry of each of its complete users accepted
\* (encrypted-custom-score.ts: "Resolves only when a processing pass has
\* submitted every complete user's final entry with OK"), however many passes were
\* cut short before by a cursor, a crash or a pending user.
DoneCoversCohort ==
    phase = "done" => /\ DOMAIN view = People
                      /\ Seen(view, "potentiallyComplete") = {}
                      /\ Seen(view, "complete") \subseteq accepted

\* Nothing of a page is posted while a user of that page is pending
\* (deep-id-submit-encrypted-scores.activities.ts, runProcessingPass).
NoPostFromPendingPage ==
    queue # {} => \A p \in DOMAIN Pages :
        queue \cap Pages[p] # {} => \A u \in Pages[p] : view[u] # "potentiallyComplete"

\* The encryption deadline is fixed by the raw submission: rounds of polling and
\* processing never move it, no timer fires past it while it lies ahead, and the
\* run gives up for it only after a poll begun at the deadline or later.
DeadlineStands ==
    [][/\ phase # "raw" => deadline' = deadline
       /\ (phase = "sleep" /\ clock' # clock) => clock' <= deadline
       /\ (phase' = "failed" /\ reason' = "timeout") =>
              clock >= deadline /\ Seen(view, "potentiallyComplete") # {}]_encVars

\* Whatever DeepID, the cursor and the activities do, the run ends.
LifecycleEnds == phase = "raw" ~> phase \in {"done", "failed"}

\* What a run keeps: nothing is posted too early, and nobody is left out when it is done.
EncryptedRunInv == EncTypeOK /\ DoneCoversCohort /\ NoPostFromPendingPage

\* The run keeps to its deadline and ends.
EncryptedRunEnds == DeadlineStands /\ LifecycleEnds
=============================================================================
