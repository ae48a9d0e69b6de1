------------------------- MODULE MissionSupervisor -------------------------
(***************************************************************************)
(* One durable mission: its row (the whole mission as one JSON value), the *)
(* supervisor's state of it (another row), the artifact ledger, and those  *)
(* who change them:                                                        *)
(*   - a cycle of mission-supervisor.ts (internalCycle), which lists the   *)
(*     missions first and saves what it listed, minutes later;             *)
(*   - requests to /api/mission-active, which read the mission, change it  *)
(*     and save it whole, under no lease.                                  *)
(* One cycle runs at a time: the lease that keeps cycles apart is modelled *)
(* in MissionPipeline.  A leader's run, with the registration and the      *)
(* verification of its artifact, is one step with its outcome.  Database   *)
(* errors, the texts, and which leader has the stage are left out.         *)
(***************************************************************************)
EXTENDS Naturals

CONSTANTS
    WorkStages,  \* stages that require an artifact, PLANNED to VERIFIED
    Request,     \* requests to /api/mission-active in progress at a time
    ReplanAt, EscalateAt,  \* FAILURE_THRESHOLDS
    MaxDeaths    \* bound: cycles the platform kills

ASSUME StageAssumption == WorkStages \in Nat \ {0}
ASSUME ThresholdAssumption ==
    /\ ReplanAt \in Nat \ {0} /\ EscalateAt \in Nat
    /\ ReplanAt < EscalateAt
ASSUME BoundAssumption == MaxDeaths \in Nat

VARIABLES
    mission,     \* active_mission_<id>: its stage and that stage's artifact
    state,       \* mission_supervisor_state_<owner>:<id>
    proven,      \* stages of which the ledger has a verified artifact
    pc,          \* the cycle's next call,
    snap,        \*   the mission as it listed and changed it,
    draft,       \*   the state it is to write
    asked, held, \* of each request: what it does, and the mission it read
    deaths,
    approved,    \* has the owner approved the mission?
    attempts     \* leader runs since the mission was last moved on or replanned

cycle == <<pc, snap, draft>>
requests == <<asked, held>>
vars == <<mission, state, proven, cycle, requests, deaths, approved, attempts>>

OwnerApproval == WorkStages + 1
Completed == WorkStages + 2

Mission == [stage : 1 .. Completed, art : {"none", "unverified", "verified"}]
Action == {"none", "ADVANCE_STAGE", "OWNER_APPROVAL", "WAIT_FOR_ARTIFACT", "RETRY_LEADER",
           "REPLAN_REQUIRED", "REPLAN_AND_CONTINUE", "ESCALATE", "COMPLETED"}
State == [failures : 0 .. EscalateAt, last : Action]
Kind == {"none", "advance", "approve", "set-artifact", "verify-artifact", "message"}
Label == {"idle", "inspect", "advance", "delegate", "leader", "replanFailed", "replan",
          "escalate", "save", "write"}

NewMission == [stage |-> 1, art |-> "none"]
NewState == [failures |-> 0, last |-> "none"]

TypeOK ==
    /\ mission \in Mission
    /\ state \in State
    /\ proven \subseteq 1 .. WorkStages
    /\ pc \in Label
    /\ snap \in Mission
    /\ draft \in State
    /\ asked \in [Request -> Kind]
    /\ held \in [Request -> Mission]
    /\ deaths \in 0 .. MaxDeaths
    /\ approved \in BOOLEAN
    /\ attempts \in Nat

Init ==
    /\ mission = NewMission
    /\ state = NewState
    /\ proven = {}
    /\ pc = "idle" /\ snap = NewMission /\ draft = NewState
    /\ asked = [r \in Request |-> "none"]
    /\ held = [r \in Request |-> NewMission]
    /\ deaths = 0
    /\ approved = FALSE
    /\ attempts = 0

-----------------------------------------------------------------------------
(* Helpers *)

\* evaluateFailurePolicy
Policy(failures) ==
    IF failures >= EscalateAt THEN "ESCALATE"
    ELSE IF failures >= ReplanAt THEN "REPLAN" ELSE "RETRY"

\* The next stage is active and has no artifact yet.
Advanced(m) == [stage |-> m.stage + 1, art |-> "none"]

WithArtifact(m, art) == [stage |-> m.stage, art |-> art]

\* mutant: leaders are not stopped at the threshold
TriesAlways(failures) == "RUN_LEADER"

\* mutant: at the threshold the mission is left waiting
TriesWaiting(failures) == IF failures >= EscalateAt THEN "WAIT_FOR_ARTIFACT" ELSE "RUN_LEADER"

\* A stage without an artifact: another run, or the threshold
Tries(failures) == IF failures >= EscalateAt THEN "ESCALATE" ELSE "RUN_LEADER"

\* Where inspectMission leads: whether the leader is ready and whether a
\* replacement is found are facts about agents, different each time.
Decision(m, failures, ready, found) ==
    CASE m.stage = Completed -> "COMPLETED"
      [] m.stage = OwnerApproval -> "OWNER_APPROVAL"
      [] m.stage <= WorkStages /\ ~ready ->
            IF Policy(failures + 1) = "ESCALATE" THEN "ESCALATE"
            ELSE IF found THEN "REPLAN_AND_CONTINUE"
            ELSE IF Policy(failures + 1) = "REPLAN" THEN "REPLAN_REQUIRED"
            ELSE "RUN_LEADER"
      [] m.stage <= WorkStages /\ ready /\ m.art = "unverified" ->
            IF Policy(failures + 1) = "ESCALATE" THEN "ESCALATE" ELSE "WAIT_FOR_ARTIFACT"
      [] m.stage <= WorkStages /\ ready /\ m.art = "verified" -> "ADVANCE_STAGE"
      [] m.stage <= WorkStages /\ ready /\ m.art = "none" ->
            Tries(failures)

\* saveActiveMissionDB overwrites the row with m.
Save(m) == mission' = m

\* The cycle goes on to label, with these failures and this last action.
Note(label, failures, last) ==
    /\ pc' = label
    /\ draft' = [failures |-> failures, last |-> last]

\* The cycle's turn at this mission is over.
Rest == pc' = "idle" /\ snap' = NewMission /\ draft' = NewState

-----------------------------------------------------------------------------
(* The supervisor's cycle *)

\* listActiveMissionsDB, and the mission is among the five that are taken; its
\* turn may come much later.  The rows are in no order, those of completed
\* missions stay and the index's own row is one of them: nothing makes a cycle
\* take this mission.
List ==
    /\ pc = "idle"
    /\ pc' = "inspect"
    /\ snap' = mission
    /\ UNCHANGED <<mission, state, proven, draft, requests, deaths, approved, attempts>>

\* The mission's execution lease is not had, or the cycle ends before: the index's
\* row is hydrated to a mission without an id, and asking for its lease throws.
Abandon ==
    /\ pc = "inspect"
    /\ Rest
    /\ UNCHANGED <<mission, state, proven, requests, deaths, approved, attempts>>

\* inspectMission, and the decisions that change nothing but the state
Inspect ==
    /\ pc = "inspect"
    /\ \E ready, found \in BOOLEAN :
         LET action == Decision(snap, state.failures, ready, found)
         IN \/ /\ action \in {"OWNER_APPROVAL", "WAIT_FOR_ARTIFACT", "COMPLETED"}
               /\ Note("write", state.failures, action)
            \/ action = "REPLAN_REQUIRED" /\ Note("write", state.failures + 1, action)
            \/ action = "ADVANCE_STAGE" /\ Note("advance", state.failures, state.last)
            \/ action = "RUN_LEADER" /\ Note("delegate", state.failures, state.last)
            \/ action = "REPLAN_AND_CONTINUE" /\ Note("replan", state.failures, state.last)
            \/ action = "ESCALATE" /\ Note("escalate", state.failures, state.last)
    /\ UNCHANGED <<mission, state, proven, snap, requests, deaths, approved, attempts>>

\* mutant: the mission is read again, but its artifact is not checked again
AdvanceLatest ==
    /\ pc = "advance"
    /\ Save(Advanced(mission))
    /\ Note("write", 0, "ADVANCE_STAGE")
    /\ attempts' = 0
    /\ UNCHANGED <<state, proven, snap, requests, deaths, approved>>

\* advanceDurableMission
Advance ==
    /\ pc = "advance"
    /\ Save(Advanced(snap))
    /\ Note("write", 0, "ADVANCE_STAGE")
    /\ attempts' = 0
    /\ UNCHANGED <<state, proven, snap, requests, deaths, approved>>

\* The cycle's bound on leader runs is used up by other missions.
Postpone ==
    /\ pc = "delegate"
    /\ Note("write", draft.failures, draft.last)
    /\ UNCHANGED <<mission, state, proven, snap, requests, deaths, approved, attempts>>

\* The leader turns out not to be ready: the outer catch.
NotReady ==
    /\ pc = "delegate"
    /\ Note("save", draft.failures + 1, "ESCALATE")
    /\ UNCHANGED <<mission, state, proven, snap, requests, deaths, approved, attempts>>

\* runLeader saves the delegation before it calls the leader.
Delegate ==
    /\ pc = "delegate"
    /\ Save(snap)
    /\ Note("leader", draft.failures, draft.last)
    /\ UNCHANGED <<state, proven, snap, requests, deaths, approved, attempts>>

\* The failure is counted, and the policy is applied to the new count.
Failed(failures) ==
    /\ \/ Policy(failures + 1) = "RETRY" /\ Note("save", failures + 1, "RETRY_LEADER")
       \/ Policy(failures + 1) = "REPLAN" /\ Note("replanFailed", failures + 1, draft.last)
       \/ Policy(failures + 1) = "ESCALATE" /\ Note("save", failures + 1, "ESCALATE")
    /\ attempts' = attempts + 1

\* The leader throws, or returns nothing that is recognised as an artifact...
LeaderFails ==
    /\ pc = "leader"
    /\ Failed(draft.failures)
    /\ UNCHANGED <<mission, state, proven, snap, requests, deaths, approved>>

\* ...or an artifact that is not verified...
LeaderUnverified ==
    /\ pc = "leader"
    /\ snap' = WithArtifact(snap, "unverified")
    /\ Failed(draft.failures)
    /\ UNCHANGED <<mission, state, proven, requests, deaths, approved>>

\* ...or one that is.
LeaderVerified ==
    /\ pc = "leader"
    /\ snap' = WithArtifact(snap, "verified")
    /\ proven' = proven \cup {snap.stage}
    /\ Note("save", 0, draft.last)
    /\ attempts' = 0
    /\ UNCHANGED <<mission, state, requests, deaths, approved>>

\* applySafeReplan with a replacement that is found
Replaced(label) ==
    /\ Save(snap)
    /\ Note(label, 0, "REPLAN_AND_CONTINUE")
    /\ attempts' = 0

\* Replanning because a leader failed; the mission is saved afterwards.
ReplanFailed ==
    /\ pc = "replanFailed"
    /\ \/ Replaced("save")
       \/ Note("save", draft.failures, "REPLAN_REQUIRED") /\ UNCHANGED <<mission, attempts>>
    /\ UNCHANGED <<state, proven, snap, requests, deaths, approved>>

\* Replanning because the leader is not ready; the replacement may be gone.
Replan ==
    /\ pc = "replan"
    /\ \/ Replaced("write")
       \/ Note("write", draft.failures + 1, "REPLAN_REQUIRED") /\ UNCHANGED <<mission, attempts>>
    /\ UNCHANGED <<state, proven, snap, requests, deaths, approved>>

Escalate ==
    /\ pc = "escalate"
    /\ Save(snap)
    /\ Note("write", draft.failures, "ESCALATE")
    /\ UNCHANGED <<state, proven, snap, requests, deaths, approved, attempts>>

SaveMission ==
    /\ pc = "save"
    /\ Save(snap)
    /\ Note("write", draft.failures, draft.last)
    /\ UNCHANGED <<state, proven, snap, requests, deaths, approved, attempts>>

\* writeState
Write ==
    /\ pc = "write"
    /\ state' = draft
    /\ Rest
    /\ UNCHANGED <<mission, proven, requests, deaths, approved, attempts>>

\* The platform kills the cycle.
Die ==
    /\ pc # "idle" /\ deaths < MaxDeaths
    /\ Rest
    /\ deaths' = deaths + 1
    /\ UNCHANGED <<mission, state, proven, requests, approved, attempts>>

-----------------------------------------------------------------------------
(* The requests *)

\* mutant: the artifact of the stage is not asked for
AcceptsUnchecked(kind, m) ==
    \/ kind = "advance" /\ m.stage # Completed
    \/ kind = "approve" /\ m.stage = OwnerApproval
    \/ kind = "set-artifact" /\ m.stage <= WorkStages
    \/ kind = "verify-artifact" /\ m.art # "none"
    \/ kind = "message"

\* mutant: a completed mission can be advanced once more
AcceptsAnyStage(kind, m) ==
    \/ kind = "advance" /\ (m.art = "verified" \/ m.stage >= OwnerApproval)
    \/ kind = "approve" /\ m.stage = OwnerApproval

\* What a request may do to the mission it read; it is refused otherwise.
Accepts(kind, m) ==
    \/ kind = "advance" /\ (m.art = "verified" \/ m.stage = OwnerApproval)
    \/ kind = "approve" /\ m.stage = OwnerApproval
    \/ kind = "set-artifact" /\ m.stage <= WorkStages
    \/ kind = "verify-artifact" /\ m.art # "none"
    \/ kind = "message"

Ask(r) ==
    /\ asked[r] = "none"
    /\ \E kind \in Kind :
         /\ Accepts(kind, mission)
         /\ asked' = [asked EXCEPT ![r] = kind]
    /\ held' = [held EXCEPT ![r] = mission]
    /\ UNCHANGED <<mission, state, proven, cycle, deaths, approved, attempts>>

\* The request saves the mission it read with m made of it.
Answer(r, m) ==
    /\ Save(m)
    /\ asked' = [asked EXCEPT ![r] = "none"]
    /\ held' = [held EXCEPT ![r] = NewMission]
    /\ UNCHANGED <<state, cycle, deaths, attempts>>

\* advance and approve; whoever is at the owner's boundary is the owner.
AnswerMove(r) ==
    /\ asked[r] \in {"advance", "approve"}
    /\ Answer(r, Advanced(held[r]))
    /\ approved' = (approved \/ held[r].stage = OwnerApproval)
    /\ UNCHANGED proven

\* set-artifact: a value whose artifact the ledger calls verified is verified.
AnswerSet(r) ==
    /\ asked[r] = "set-artifact"
    /\ \E art \in {"unverified", "verified"} :
         /\ art = "verified" => held[r].stage \in proven
         /\ Answer(r, WithArtifact(held[r], art))
    /\ UNCHANGED <<proven, approved>>

\* verify-artifact.  The ledger may not have the artifact, or a request that names
\* another venture looks for another one; the mission's artifact is then unverified,
\* even one that was verified.  What the ledger calls verified stays so.
AnswerVerify(r) ==
    /\ asked[r] = "verify-artifact"
    /\ \/ Answer(r, WithArtifact(held[r], "unverified")) /\ UNCHANGED proven
       \/ /\ Answer(r, WithArtifact(held[r], "verified"))
          /\ proven' = proven \cup {held[r].stage}
    /\ UNCHANGED approved

\* appendLeaderMessageDB adds to the mission's threads and log.
AnswerMessage(r) ==
    /\ asked[r] = "message"
    /\ Answer(r, held[r])
    /\ UNCHANGED <<proven, approved>>

-----------------------------------------------------------------------------

CycleStep ==
    \/ Inspect \/ Advance \/ Postpone \/ NotReady \/ Delegate
    \/ LeaderFails \/ LeaderUnverified \/ LeaderVerified
    \/ ReplanFailed \/ Replan \/ Escalate \/ SaveMission \/ Write

RequestStep(r) ==
    Ask(r) \/ AnswerMove(r) \/ AnswerSet(r) \/ AnswerVerify(r) \/ AnswerMessage(r)

Next == List \/ Abandon \/ CycleStep \/ Die \/ \E r \in Request : RequestStep(r)

Spec == Init /\ [][Next]_vars

\* A cycle that is not killed goes on with the mission.  Nothing else is promised:
\* not that a cycle takes the mission, nor that its bound on leader runs leaves
\* one for it, nor that requests come.
FairSpec == Spec /\ WF_vars(CycleStep)

-----------------------------------------------------------------------------
(* Properties *)

\* MISSION-AUTONOMY-SUPERVISOR.md, "Owner approval is never auto-approved": the
\* mission is completed only when the owner has moved it there, although the
\* cycle saves missions that requests have changed since it listed them.
CompletedByOwner == mission.stage = Completed => approved

\* "A stage cannot advance when its required artifact is missing or
\* unverified": every stage behind the mission has a verified artifact in the
\* ledger, whichever of the overlapping writers wins.
StagesBacked == \A s \in 1 .. WorkStages : s < mission.stage => s \in proven

\* Leaders are stopped at the escalation threshold ("Failure threshold reached;
\* autonomous retry and replan are stopped"): between two steps forward or
\* replans a leader runs at most EscalateAt times, and once more for each
\* killed cycle that ran one and could not count it.
AttemptBudget == attempts <= EscalateAt + deaths

\* No mission that cycles inspect for ever is run again and again without anybody
\* hearing of it: time and again it moves on, gets another leader, waits for an
\* artifact to be verified or for the owner, or is escalated.  Two things the code
\* does not promise are presumed: that cycles reach it, and that their bound on
\* leader runs is not always used up before it.
ReachedMissionIsHeard ==
    []<><<Inspect>>_vars /\ ([]<>(pc = "delegate") => []<><<Delegate>>_vars)
      => []<>(\/ attempts = 0 \/ mission.art # "none" \/ mission.stage > WorkStages
              \/ state.last = "ESCALATE")

\* What the two writers intend: the mission walks its stages one at a time and never back.
\* A save of an older copy breaks it; MissionSupervisorProofs says when it holds.
Chain == INSTANCE MissionChain WITH Work <- WorkStages, stage <- mission.stage
ImplementsChain == Chain!Spec
=============================================================================
