-------------------------- MODULE MissionPipeline --------------------------
(***************************************************************************)
(* One mission of the mission pipeline: its audit log and its heartbeat    *)
(* (two rows of UserSetting), the lease of its execution (a row of Memory) *)
(* and the invocations that work on them:                                  *)
(*   - /api/missions/run: the operator runs the pipeline                   *)
(*     (mission-pipeline.ts, runMissionPipeline);                          *)
(*   - /api/missions/[id]/approve: the owner decides; an approval resumes  *)
(*     the pipeline in the background, under no lease;                     *)
(*   - mission-pipeline-recovery.ts: the sweep that retries a mission      *)
(*     whose stage crashed, under the lease.                               *)
(* An invocation is a worker with a program counter, one action per        *)
(* database call.  Both rows are JSON values, read and written back whole. *)
(* The rounds of a stage are one step with their outcome; timers (the      *)
(* backoff of a retry, the expiry of a lease) run out at any time.         *)
(***************************************************************************)
EXTENDS Naturals

CONSTANTS
    Worker,           \* invocations in progress at the same time
    NoWorker, Orphan, \* no holder of the lease; a holder that is gone
    TeamStages,       \* stages before the CEO's
    Gated,            \* pipeline.requiresOwnerApproval
    VerifierRejects,  \* may the Super Agent still reject in the last round?
    MaxAutoRetries,   \* MAX_MISSION_AUTO_RETRIES
    MaxRequests,      \* bound: requests of the operator
    MaxErrors,        \* bound: database errors, all of them swallowed
    MaxDeaths         \* bound: invocations the platform kills

ASSUME StageAssumption == TeamStages \in Nat \ {0}
ASSUME FlagAssumption == Gated \in BOOLEAN /\ VerifierRejects \in BOOLEAN
ASSUME BudgetAssumption == MaxAutoRetries \in Nat
ASSUME BoundAssumption == MaxRequests \in Nat /\ MaxErrors \in Nat /\ MaxDeaths \in Nat
ASSUME NoneAssumption == NoWorker \notin Worker /\ Orphan \notin Worker /\ NoWorker # Orphan

VARIABLES
    log,       \* approval_log_<mission>: the entries that are ever looked up
    hb,        \* mission_heartbeat_<mission>
    lease,     \* holder of the execution lease
    pc, stage, \* of each invocation: its next call and the stage it is at,
    lane,      \*   what started it,
    done,      \*   the stages it found completed,
    entry,     \*   the entry it adds to the log,
    seen,      \*   the log it read for that,
    draft,     \*   the heartbeat it is to save
    requests, errors, deaths,
    consent,   \* has the owner approved, or the operator waived, the CEO stage?
    decision,  \* the owner's last decision
    finished,  \* stages whose agent has delivered
    reports,   \* has the CEO's report been sent?
    retries,   \* automatic retries since a stage last completed
    served     \* has a sweep re-run the mission since its last recorded failure?

store == <<log, hb, lease>>
bounds == <<requests, errors, deaths>>
history == <<consent, decision, finished, reports, retries, served>>
locals == <<stage, lane, done, entry, seen, draft>>
vars == <<store, pc, locals, bounds, history>>

CeoStage == TeamStages + 1
StageNo == 1 .. CeoStage

\* Log entries as <<action, stage>>.  A crash is logged as an escalation;
\* entries of one action and stage count once, nothing counts them.
Entry == ({"started", "approved", "escalated", "crashed", "submitted"} \X StageNo)
         \cup ({"owner_approved", "owner_rejected", "completed"} \X {0})

\* The statuses idle, working, errored and stuck are "working": nothing tells
\* them apart.  A next retry time is stored exactly when retryable is true.
Heartbeat == [status : {"none", "working", "paused", "failed", "completed"},
              retryable : BOOLEAN, count : 0 .. MaxAutoRetries + 1]

Label == {"idle", "append", "write", "resume", "rejectLoad", "leaseRead", "leaseWrite",
          "leaseConfirm", "loadPrior", "saveInitial", "snapshot", "leader", "ceo", "gate",
          "granted", "denied", "pause", "build", "saveStage", "report", "failLoad",
          "saveLast", "releaseRead", "releaseDelete"}

Lane == {"none", "start", "skip", "resume", "sweep"}

NoHeartbeat == [status |-> "none", retryable |-> FALSE, count |-> 0]
NoEntry == <<"completed", 0>>

TypeOK ==
    /\ log \subseteq Entry
    /\ hb \in Heartbeat
    /\ lease \in Worker \cup {NoWorker, Orphan}
    /\ pc \in [Worker -> Label]
    /\ stage \in [Worker -> StageNo]
    /\ lane \in [Worker -> Lane]
    /\ done \in [Worker -> SUBSET (1 .. TeamStages)]
    /\ entry \in [Worker -> Entry]
    /\ seen \in [Worker -> SUBSET Entry]
    /\ draft \in [Worker -> Heartbeat]
    /\ requests \in 0 .. MaxRequests
    /\ errors \in 0 .. MaxErrors
    /\ deaths \in 0 .. MaxDeaths
    /\ consent \in BOOLEAN /\ reports \in BOOLEAN /\ served \in BOOLEAN
    /\ decision \in {"none", "approve", "reject"}
    /\ finished \subseteq StageNo
    /\ retries \in 0 .. MaxAutoRetries + 1

Init ==
    /\ log = {}
    /\ hb = NoHeartbeat
    /\ lease = NoWorker
    /\ pc = [w \in Worker |-> "idle"]
    /\ stage = [w \in Worker |-> 1]
    /\ lane = [w \in Worker |-> "none"]
    /\ done = [w \in Worker |-> {}]
    /\ entry = [w \in Worker |-> NoEntry]
    /\ seen = [w \in Worker |-> {}]
    /\ draft = [w \in Worker |-> NoHeartbeat]
    /\ requests = 0 /\ errors = 0 /\ deaths = 0
    /\ consent = FALSE /\ reports = FALSE /\ served = FALSE
    /\ decision = "none"
    /\ finished = {}
    /\ retries = 0

-----------------------------------------------------------------------------
(* Helpers *)

At(w, label) == pc[w] = label

Become(w, label) == pc' = [pc EXCEPT ![w] = label]

Goto(w, label) == Become(w, label) /\ UNCHANGED locals

\* A database call succeeds, or it fails and its caller swallows the error.
Call(ok) ==
    \/ ok /\ UNCHANGED errors
    \/ ~ok /\ errors < MaxErrors /\ errors' = errors + 1

\* Counters are compared with MaxAutoRetries only: one above it stands for all.
Bump(n) == IF n > MaxAutoRetries THEN n ELSE n + 1

\* The invocation of w is gone, except that it may be left at a label in a lane.
Leave(w, label, in) ==
    /\ Become(w, label)
    /\ lane' = [lane EXCEPT ![w] = in]
    /\ stage' = [stage EXCEPT ![w] = 1]
    /\ done' = [done EXCEPT ![w] = {}]
    /\ entry' = [entry EXCEPT ![w] = NoEntry]
    /\ seen' = [seen EXCEPT ![w] = {}]
    /\ draft' = [draft EXCEPT ![w] = NoHeartbeat]

\* The invocation returns; a sweep first releases its lease.
End(w) ==
    \/ lane[w] = "sweep" /\ Leave(w, "releaseRead", "sweep")
    \/ lane[w] # "sweep" /\ Leave(w, "idle", "none")

\* logApprovalEvent: read the row, add the entry, write the row
Append(w, e) ==
    /\ Become(w, "append")
    /\ entry' = [entry EXCEPT ![w] = e]
    /\ UNCHANGED <<stage, lane, done, seen, draft>>

\* A run starts, or goes on to its runMissionPipeline.
Launch(w, in) ==
    /\ Become(w, "loadPrior")
    /\ lane' = [lane EXCEPT ![w] = in]
    /\ UNCHANGED <<stage, done, entry, seen, draft>>

\* The invocation has a heartbeat ready that it is to save.
Prepare(w, label, status, retryable, count) ==
    /\ Become(w, label)
    /\ draft' = [draft EXCEPT ![w] = [status |-> status, retryable |-> retryable, count |-> count]]
    /\ UNCHANGED <<stage, lane, done, entry, seen>>

SkipsGate(w) == lane[w] \in {"skip", "resume"}

\* The loop reaches stage s, the first one not skipped.
Enter(w, s, completed) ==
    /\ Become(w, IF s = CeoStage /\ Gated /\ ~SkipsGate(w) THEN "gate" ELSE "append")
    /\ stage' = [stage EXCEPT ![w] = s]
    /\ done' = [done EXCEPT ![w] = completed]
    /\ entry' = [entry EXCEPT ![w] = <<"started", s>>]
    /\ UNCHANGED <<lane, seen, draft>>

\* s is the first stage from n on that is not skipped; the CEO's never is.
FirstFrom(s, n, completed) ==
    /\ s >= n /\ s \notin completed
    /\ \A t \in n .. s - 1 : t \in completed

\* mutant: the last retry of the budget is never due
DueBeforeLast == hb.status = "failed" /\ hb.retryable /\ hb.count < MaxAutoRetries

\* isMissionDueForAutoRetry, whenever its time has come
Due == hb.status = "failed" /\ hb.retryable /\ hb.count <= MaxAutoRetries

\* buildHeartbeatFromAuditLog: the status it derives from the log...
Derived(entries) ==
    IF \E s \in StageNo : {<<"escalated", s>>, <<"crashed", s>>} \cap entries # {}
    THEN "working"
    ELSE IF <<"owner_approved", 0>> \in entries THEN "completed"
    ELSE IF <<"owner_rejected", 0>> \in entries THEN "paused"
    ELSE "working"

\* ...and whether it finds a stage that has started and not completed
Current(entries) ==
    \E s \in StageNo : <<"started", s>> \in entries /\ <<"approved", s>> \notin entries

\* mutant: the status derived from the log is kept as it is
StageStatusDerived(s, entries) == IF s = CeoStage THEN "completed" ELSE Derived(entries)

\* The status saved when stage s has run to completion.
StageStatus(s, entries) ==
    IF s = CeoStage THEN "completed"
    ELSE IF Current(entries) THEN Derived(entries)
    ELSE "working"

-----------------------------------------------------------------------------
(* The requests of the operator and the sweep *)

\* /api/missions/run; only the operator's own skipOwnerApproval is heeded.
Start(w) ==
    /\ At(w, "idle") /\ requests < MaxRequests
    /\ \E skip \in BOOLEAN :
         /\ Launch(w, IF skip THEN "skip" ELSE "start")
         /\ consent' = (consent \/ skip)
    /\ requests' = requests + 1
    /\ UNCHANGED <<store, errors, deaths, decision, finished, reports, retries, served>>

OwnerApproves(w) ==
    /\ At(w, "idle") /\ requests < MaxRequests
    /\ Append(w, <<"owner_approved", 0>>)
    /\ requests' = requests + 1
    /\ consent' = TRUE
    /\ decision' = "approve"
    /\ UNCHANGED <<store, errors, deaths, finished, reports, retries, served>>

OwnerRejects(w) ==
    /\ At(w, "idle") /\ requests < MaxRequests
    /\ Append(w, <<"owner_rejected", 0>>)
    /\ requests' = requests + 1
    /\ decision' = "reject"
    /\ UNCHANGED <<store, errors, deaths, consent, finished, reports, retries, served>>

\* sweepMissionPipelineAutoRetries lists the missions that are due.
Sweep(w) ==
    /\ At(w, "idle") /\ Due
    /\ Goto(w, "leaseRead")
    /\ UNCHANGED <<store, bounds, history>>

-----------------------------------------------------------------------------
(* acquireMissionExecutionLease and releaseMissionExecutionLease *)

LeaseRead(w) ==
    /\ At(w, "leaseRead")
    /\ \E ok \in BOOLEAN :
         /\ Call(ok)
         /\ IF ok /\ lease = NoWorker THEN Goto(w, "leaseWrite") ELSE End(w)
    /\ UNCHANGED <<store, requests, deaths, history>>

LeaseWrite(w) ==
    /\ At(w, "leaseWrite")
    /\ lease' = w
    /\ Goto(w, "leaseConfirm")
    /\ UNCHANGED <<log, hb, bounds, history>>

\* mutant: the sweep resumes the mission as an approval does
LeaseConfirmResuming(w) ==
    /\ At(w, "leaseConfirm")
    /\ lease = w
    /\ Launch(w, "resume")
    /\ UNCHANGED <<store, bounds, history>>

\* The worker that finds itself in the row re-runs the mission, without skip.
LeaseConfirm(w) ==
    /\ At(w, "leaseConfirm")
    /\ \E ok \in BOOLEAN :
         /\ Call(ok)
         /\ IF ok /\ lease = w
            THEN Launch(w, "sweep") /\ UNCHANGED lease
            ELSE /\ End(w)
                 /\ lease' = IF lease = w THEN Orphan ELSE lease
    /\ UNCHANGED <<log, hb, requests, deaths, history>>

\* The lease row is looked up and, if it is the sweep's own, deleted by its key.
ReleaseRead(w) ==
    /\ At(w, "releaseRead")
    /\ \E ok \in BOOLEAN :
         /\ Call(ok)
         /\ IF ok /\ lease = w
            THEN Goto(w, "releaseDelete") /\ UNCHANGED lease
            ELSE /\ Leave(w, "idle", "none")
                 /\ lease' = IF lease = w THEN Orphan ELSE lease
    /\ UNCHANGED <<log, hb, requests, deaths, history>>

ReleaseDelete(w) ==
    /\ At(w, "releaseDelete")
    /\ lease' = NoWorker
    /\ Leave(w, "idle", "none")
    /\ UNCHANGED <<log, hb, bounds, history>>

\* A run can outlast its lease.
Expire ==
    /\ lease # NoWorker
    /\ lease \in Worker => ~At(lease, "leaseConfirm")
    /\ lease' = NoWorker
    /\ UNCHANGED <<log, hb, pc, locals, bounds, history>>

-----------------------------------------------------------------------------
(* runMissionPipeline: the start of a run *)

\* mutant: the initial heartbeat starts a new retry budget
LoadPriorFresh(w) ==
    /\ At(w, "loadPrior")
    /\ Prepare(w, "saveInitial", "working", FALSE, 0)
    /\ UNCHANGED <<store, bounds, history>>

\* mutant: the initial heartbeat keeps the pending retry
LoadPriorKeeping(w) ==
    /\ At(w, "loadPrior")
    /\ Prepare(w, "saveInitial", "working", hb.retryable, hb.count)
    /\ UNCHANGED <<store, bounds, history>>

\* The initial heartbeat carries the count of retries on, and nothing else.
LoadPrior(w) ==
    /\ At(w, "loadPrior")
    /\ \E ok \in BOOLEAN :
         /\ Call(ok)
         /\ Prepare(w, "saveInitial", "working", FALSE, IF ok THEN hb.count ELSE 0)
    /\ UNCHANGED <<store, requests, deaths, history>>

\* saveHeartbeat overwrites the row with the draft.
Save(w, ok) == Call(ok) /\ hb' = IF ok THEN draft[w] ELSE hb

SaveInitial(w) ==
    /\ At(w, "saveInitial")
    /\ \E ok \in BOOLEAN : Save(w, ok)
    /\ Goto(w, "snapshot")
    /\ retries' = IF lane[w] = "sweep" THEN Bump(retries) ELSE retries
    /\ served' = (served \/ lane[w] = "sweep")
    /\ UNCHANGED <<log, lease, requests, deaths, consent, decision, finished, reports>>

\* mutant: the stages completed before are not looked up
SnapshotNothing(w) ==
    /\ At(w, "snapshot")
    /\ Enter(w, 1, {})
    /\ UNCHANGED <<store, bounds, history>>

\* mutant: a stage that has started counts as completed
SnapshotStarted(w) ==
    /\ At(w, "snapshot")
    /\ LET started == {s \in 1 .. TeamStages : <<"started", s>> \in log}
       IN \E s \in StageNo : FirstFrom(s, 1, started) /\ Enter(w, s, started)
    /\ UNCHANGED <<store, bounds, history>>

\* The log is read once; the stages approved in it are skipped.
Snapshot(w) ==
    /\ At(w, "snapshot")
    /\ \E ok \in BOOLEAN :
         /\ Call(ok)
         /\ LET approved == {s \in 1 .. TeamStages : ok /\ <<"approved", s>> \in log}
            IN \E s \in StageNo : FirstFrom(s, 1, approved) /\ Enter(w, s, approved)
    /\ UNCHANGED <<store, requests, deaths, history>>

-----------------------------------------------------------------------------
(* The owner's gate *)

\* hasOwnerApproval: a read that fails counts as no approval.
GateApproval(w) ==
    /\ At(w, "gate")
    /\ \E ok \in BOOLEAN :
         /\ Call(ok)
         /\ Goto(w, IF ok /\ <<"owner_approved", 0>> \in log THEN "granted" ELSE "denied")
    /\ UNCHANGED <<store, requests, deaths, history>>

\* hasOwnerRejection: a read that fails counts as no rejection.  The run of a
\* rejected mission returns and leaves the heartbeat as it is.
GateRejection(w) ==
    /\ At(w, "granted") \/ At(w, "denied")
    /\ \E ok \in BOOLEAN :
         /\ Call(ok)
         /\ IF ok /\ <<"owner_rejected", 0>> \in log THEN End(w)
            ELSE IF At(w, "granted") THEN Append(w, <<"started", CeoStage>>)
            ELSE Goto(w, "pause")
    /\ UNCHANGED <<store, requests, deaths, history>>

\* Load the heartbeat and save it with another status, if there is one.
Restate(w, status) ==
    \E ok \in BOOLEAN :
      /\ Call(ok)
      /\ IF ok /\ hb.status # "none"
         THEN Prepare(w, "saveLast", status, hb.retryable, hb.count)
         ELSE End(w)

\* requestOwnerApproval
Pause(w) ==
    /\ At(w, "pause")
    /\ Restate(w, "paused")
    /\ UNCHANGED <<store, requests, deaths, history>>

\* mutant: the route writes a status that is not a MissionStatus
RejectLoadOther(w) ==
    /\ At(w, "rejectLoad")
    /\ Restate(w, "rejected")
    /\ UNCHANGED <<store, requests, deaths, history>>

\* The approve route: the heartbeat of a rejected mission keeps its retry fields.
RejectLoad(w) ==
    /\ At(w, "rejectLoad")
    /\ Restate(w, "failed")
    /\ UNCHANGED <<store, requests, deaths, history>>

\* resumeMissionPipeline: runs with skipOwnerApproval, if there is a heartbeat
Resume(w) ==
    /\ At(w, "resume")
    /\ \E ok \in BOOLEAN :
         /\ Call(ok)
         /\ IF ok /\ hb.status # "none"
            THEN Launch(w, "resume")
            ELSE End(w)
    /\ UNCHANGED <<store, requests, deaths, history>>

-----------------------------------------------------------------------------
(* The log *)

After(e) ==
    CASE e[1] = "started" -> IF e[2] = CeoStage THEN "ceo" ELSE "leader"
      [] e[1] \in {"approved", "escalated", "submitted"} -> "build"
      [] e[1] = "crashed" -> "failLoad"
      [] e[1] = "owner_approved" -> "resume"
      [] e[1] = "owner_rejected" -> "rejectLoad"

Appended(w) ==
    IF entry[w][1] = "completed" THEN End(w) ELSE Goto(w, After(entry[w]))

AppendRead(w) ==
    /\ At(w, "append")
    /\ \E ok \in BOOLEAN :
         /\ Call(ok)
         /\ IF ok THEN /\ Become(w, "write")
                       /\ seen' = [seen EXCEPT ![w] = log]
                       /\ UNCHANGED <<stage, lane, done, entry, draft>>
            ELSE Appended(w)
    /\ UNCHANGED <<store, requests, deaths, history>>

\* Whatever was appended since the read is lost.
AppendWrite(w) ==
    /\ At(w, "write")
    /\ \E ok \in BOOLEAN :
         /\ Call(ok)
         /\ log' = IF ok THEN seen[w] \cup {entry[w]} ELSE log
    /\ Appended(w)
    /\ UNCHANGED <<hb, lease, requests, deaths, history>>

-----------------------------------------------------------------------------
(* runTeamWithVerificationLoop and what follows it *)

\* The team delivers and is approved, delivers and is escalated, or crashes.
Leader(w) ==
    /\ At(w, "leader")
    /\ \/ /\ \E verdict \in {"approved"} \cup (IF VerifierRejects THEN {"escalated"} ELSE {}) :
               Append(w, <<verdict, stage[w]>>)
          /\ finished' = finished \cup {stage[w]}
       \/ Append(w, <<"crashed", stage[w]>>) /\ UNCHANGED finished
    /\ UNCHANGED <<store, bounds, consent, decision, reports, retries, served>>

\* The CEO's stage never crashes: a model that fails gets a fallback report.
Ceo(w) ==
    /\ At(w, "ceo")
    /\ Append(w, <<"submitted", CeoStage>>)
    /\ finished' = finished \cup {CeoStage}
    /\ UNCHANGED <<store, bounds, consent, decision, reports, retries, served>>

\* buildHeartbeatFromAuditLog; a log that cannot be read counts as empty
Build(w) ==
    /\ At(w, "build")
    /\ \E ok \in BOOLEAN :
         /\ Call(ok)
         /\ Prepare(w, "saveStage", StageStatus(stage[w], IF ok THEN log ELSE {}), FALSE, 0)
    /\ UNCHANGED <<store, requests, deaths, history>>

\* On to the next stage, or to the report of the CEO.
SaveStage(w) ==
    /\ At(w, "saveStage")
    /\ \E ok \in BOOLEAN :
         /\ Save(w, ok)
         /\ retries' = IF ok THEN 0 ELSE retries
    /\ IF stage[w] = CeoStage THEN Goto(w, "report")
       ELSE \E s \in StageNo : /\ FirstFrom(s, stage[w] + 1, done[w])
                               /\ Enter(w, s, done[w])
    /\ UNCHANGED <<log, lease, requests, deaths, consent, decision, finished, reports, served>>

\* The report is stored and sent, then the log gets its last entry.
Report(w) ==
    /\ At(w, "report")
    /\ reports' = TRUE
    /\ Append(w, <<"completed", 0>>)
    /\ UNCHANGED <<store, bounds, consent, decision, finished, retries, served>>

\* recordMissionStageFailureOnHeartbeat, from the count of the stored heartbeat
FailLoad(w) ==
    /\ At(w, "failLoad")
    /\ \E ok, retryable \in BOOLEAN :
         LET prior == IF ok THEN hb.count ELSE 0
             count == IF retryable THEN Bump(prior) ELSE prior
         IN /\ Call(ok)
            /\ Prepare(w, "saveLast", "failed", retryable /\ count <= MaxAutoRetries, count)
    /\ UNCHANGED <<store, requests, deaths, history>>

\* The last call of a run that paused or crashed, or of a rejection.
SaveLast(w) ==
    /\ At(w, "saveLast")
    /\ \E ok \in BOOLEAN : Save(w, ok)
    /\ served' = (served /\ entry[w][1] # "crashed")
    /\ End(w)
    /\ UNCHANGED <<log, lease, requests, deaths, consent, decision, finished, reports, retries>>

\* The platform kills the invocation; its lease stays until it expires.
Die(w) ==
    /\ ~At(w, "idle") /\ deaths < MaxDeaths
    /\ Leave(w, "idle", "none")
    /\ lease' = IF lease = w THEN Orphan ELSE lease
    /\ deaths' = deaths + 1
    /\ UNCHANGED <<log, hb, requests, errors, history>>

-----------------------------------------------------------------------------

\* the step of an invocation that is under way
Step(w) ==
    \/ LeaseRead(w) \/ LeaseWrite(w) \/ LeaseConfirm(w) \/ ReleaseRead(w) \/ ReleaseDelete(w)
    \/ LoadPrior(w) \/ SaveInitial(w) \/ Snapshot(w)
    \/ GateApproval(w) \/ GateRejection(w) \/ Pause(w) \/ RejectLoad(w) \/ Resume(w)
    \/ AppendRead(w) \/ AppendWrite(w)
    \/ Leader(w) \/ Ceo(w) \/ Build(w) \/ SaveStage(w) \/ Report(w) \/ FailLoad(w) \/ SaveLast(w)

Next ==
    \/ \E w \in Worker : Step(w) \/ Start(w) \/ OwnerApproves(w) \/ OwnerRejects(w)
                         \/ Sweep(w) \/ Die(w)
    \/ Expire

Spec == Init /\ [][Next]_vars

\* An invocation that is not killed goes on; the scheduler sweeps every fifteen
\* minutes; leases expire.  Nothing makes the operator act.
FairSpec ==
    /\ Spec
    /\ \A w \in Worker : WF_vars(Step(w))
    /\ WF_vars(\E w \in Worker : Sweep(w))
    /\ WF_vars(Expire)

-----------------------------------------------------------------------------
(* Properties *)

\* The CEO's stage of a gated mission runs only after the owner approved the
\* mission or the operator waived the approval: not because a sweep retries a
\* crashed stage, and not because entries of the log are lost.
CeoAfterConsent ==
    Gated => \A w \in Worker : (At(w, "ceo") \/ CeoStage \in finished \/ reports) => consent

\* A stage runs only when every stage before it has delivered, in this run or
\* in an earlier one: skipping what the log calls completed skips no work.
StagesInOrder ==
    \A w \in Worker : At(w, "leader") \/ At(w, "ceo")
                      => \A s \in 1 .. stage[w] - 1 : s \in finished

\* One invocation at a time, no database error: a stage whose approval is in
\* the log is not run again, however many crashes, kills and retries follow.
ApprovedStageNotRedone ==
    \A w \in Worker : At(w, "leader") => <<"approved", stage[w]>> \notin log

\* One invocation at a time, no database error: between two completed stages
\* the sweeps retry the mission at most MaxAutoRetries times.
RetryBudgetHolds == retries <= MaxAutoRetries

\* One invocation at a time, no database error: a mission shown as completed
\* has had its CEO's stage, although an approval alone makes the log read so.
CompletedMeansCeo == hb.status = "completed" => CeoStage \in finished

\* One invocation at a time: sweeps re-run a mission once for each failure that
\* is recorded (mission-pipeline-recovery.ts:101: "two concurrent sweeps can
\* both inspect the same due mission but only one ever re-runs it").
OneRerunPerFailure ==
    [][\A w \in Worker : lane[w] = "sweep" /\ SaveInitial(w) => ~served]_vars

Escalated == \E s \in 1 .. TeamStages : <<"escalated", s>> \in log

\* An approved mission gets its report or fails for good, unless it is rejected
\* too: the crash of its resumed run does not strand it, the sweep retries it
\* and finds the approval in the log.  A mission without a heartbeat was never
\* run; a rejection, even an earlier one, stops every run that is not resumed;
\* a killed run is not retried; an escalated stage can be retried for ever.
ApprovedMissionReports ==
    decision = "approve"
    ~> \/ reports
       \/ hb.status = "none"
       \/ hb.status = "failed" /\ ~hb.retryable
       \/ decision = "reject" \/ <<"owner_rejected", 0>> \in log
       \/ deaths > 0 \/ Escalated

\* The sweeps of a mission come to an end (mission-pipeline-recovery.ts:24: "an
\* unhealthy mission must not retry forever")...
RetriesEnd == <>[](\A w \in Worker : lane[w] # "sweep")

\* ...when no stage of it was escalated: each completed stage renews the
\* budget, but an approved one completes once.
RetriesEndUnlessEscalated == <>Escalated \/ RetriesEnd

-----------------------------------------------------------------------------
(* The promise to the owner: StagedDelivery, read off what has happened *)

Delivery == INSTANCE StagedDelivery WITH
               Last <- CeoStage, delivered <- finished, reported <- reports

\* Stages deliver in order, the CEO's with consent and before the report, whatever
\* invocations overlap, fail or die and whatever the log loses.
ImplementsDelivery == Delivery!Spec
=============================================================================
