----------------------- MODULE MissionSupervisorProofs -----------------------
(***************************************************************************)
(* MissionSupervisor for every number of stages, of overlapping requests   *)
(* and of killed cycles, and for every pair of thresholds.                 *)
(*                                                                         *)
(* Every copy of the mission, in the row or in somebody's hands, is backed *)
(* by the ledger and by the owner's approval; both only grow, so a stale   *)
(* copy written back is backed too.  Runs of leaders are counted in the    *)
(* state, in the draft of the cycle that made them, or by its death.       *)
(***************************************************************************)
EXTENDS MissionSupervisor, TLAPS

\* A copy of the mission and the evidence for it
Backed(m, ledger, consent) ==
    /\ m.stage = Completed => consent
    /\ \A s \in 1 .. WorkStages : s < m.stage => s \in ledger
    /\ m.art = "verified" => m.stage \in ledger
    /\ m.art # "none" => m.stage <= WorkStages

Evidence ==
    /\ Backed(mission, proven, approved)
    /\ Backed(snap, proven, approved)
    /\ \A r \in Request : Backed(held[r], proven, approved)

\* What was checked of a copy still holds when it is acted upon.
Checked ==
    /\ pc \in {"advance", "delegate", "leader"} => snap.stage <= WorkStages
    /\ pc = "advance" => snap.art = "verified"
    /\ \A r \in Request : asked[r] # "none" => Accepts(asked[r], held[r])

\* The labels before a leader's run of this turn is counted
Before == {"idle", "inspect", "advance", "delegate", "leader", "replan", "escalate"}

Counted ==
    /\ pc \in {"delegate", "leader", "replan"} => draft.failures < EscalateAt
    /\ attempts <= state.failures + deaths + 1
    /\ pc \in Before => attempts <= state.failures + deaths
    /\ pc \notin {"idle", "inspect"} => attempts <= draft.failures + deaths

IInv == TypeOK /\ Evidence /\ Checked /\ Counted

-----------------------------------------------------------------------------
(* Facts about data *)

\* A mission given by its two fields is a mission, and its fields are those.
LEMMA MissionOf ==
    ASSUME NEW st \in 1 .. Completed, NEW a \in {"none", "unverified", "verified"}
    PROVE  /\ [stage |-> st, art |-> a] \in Mission
           /\ [stage |-> st, art |-> a].stage = st
           /\ [stage |-> st, art |-> a].art = a
BY DEF Mission

\* Likewise for the supervisor's state.
LEMMA StateOf ==
    ASSUME NEW f \in 0 .. EscalateAt, NEW a \in Action
    PROVE  /\ [failures |-> f, last |-> a] \in State
           /\ [failures |-> f, last |-> a].failures = f
           /\ [failures |-> f, last |-> a].last = a
BY DEF State

\* The fields of a mission and of a state have their types.
LEMMA FieldTypes ==
    /\ \A m \in Mission : m.stage \in 1 .. Completed /\ m.art \in {"none", "unverified", "verified"}
    /\ \A s \in State : s.failures \in 0 .. EscalateAt /\ s.last \in Action
BY DEF Mission, State

\* The constants are numbers, and a new mission and a new state are typed.
LEMMA ConstantTypes ==
    /\ WorkStages \in Nat \ {0} /\ ReplanAt \in Nat \ {0} /\ EscalateAt \in Nat /\ MaxDeaths \in Nat
    /\ ReplanAt < EscalateAt
    /\ OwnerApproval = WorkStages + 1 /\ Completed = WorkStages + 2
    /\ NewMission \in Mission /\ NewMission.stage = 1 /\ NewMission.art = "none"
    /\ NewState \in State /\ NewState.failures = 0
BY StageAssumption, ThresholdAssumption, BoundAssumption
   DEF OwnerApproval, Completed, NewMission, NewState, Mission, State, Action

\* A new mission needs no evidence.
LEMMA NewIsBacked ==
    ASSUME NEW ledger, NEW consent
    PROVE  Backed(NewMission, ledger, consent)
BY ConstantTypes DEF Backed

\* Evidence that only grows backs every copy it backed.
LEMMA BackedStays ==
    ASSUME NEW m \in Mission,
           NEW ledger, NEW more, ledger \subseteq more,
           NEW consent, NEW then, consent => then,
           Backed(m, ledger, consent)
    PROVE  Backed(m, more, then)
BY FieldTypes DEF Backed

\* A copy is moved on from a verified stage, or by the owner from the
\* boundary, and is backed.
LEMMA AdvancedIsBacked ==
    ASSUME NEW m \in Mission, m.stage # Completed,
           NEW ledger \in SUBSET (1 .. WorkStages), NEW consent \in BOOLEAN,
           Backed(m, ledger, consent),
           m.art = "verified" \/ (m.stage = OwnerApproval /\ consent)
    PROVE  Advanced(m) \in Mission /\ Backed(Advanced(m), ledger, consent)
<1>1. m.stage + 1 \in 1 .. Completed
      BY FieldTypes, ConstantTypes
<1>2. /\ Advanced(m) \in Mission
      /\ Advanced(m).stage = m.stage + 1
      /\ Advanced(m).art = "none"
      BY <1>1, MissionOf DEF Advanced
<1>3. m.stage \in 1 .. Completed
      BY FieldTypes
<1>4. m.stage <= WorkStages => m.stage \in ledger
      <2>1. m.art = "verified" => m.stage \in ledger
            BY DEF Backed
      <2>2. m.stage = OwnerApproval => ~(m.stage <= WorkStages)
            BY ConstantTypes
      <2> QED BY <2>1, <2>2
<1>5. m.stage + 1 = Completed => consent
      <2>1. m.art = "verified" => m.stage <= WorkStages
            BY DEF Backed
      <2>2. m.stage + 1 = Completed => ~(m.stage <= WorkStages)
            BY <1>3, ConstantTypes
      <2> QED BY <2>1, <2>2
<1>6. ASSUME NEW s \in 1 .. WorkStages, s < m.stage + 1
      PROVE  s \in ledger
      <2>1. s < m.stage \/ s = m.stage
            BY <1>3, <1>6, ConstantTypes
      <2> QED BY <2>1, <1>4 DEF Backed
<1> QED BY <1>2, <1>5, <1>6 DEF Backed

\* An artifact is put into a copy at a stage that takes one, as verified only
\* if the ledger says so.
LEMMA WithArtifactIsBacked ==
    ASSUME NEW m \in Mission, m.stage <= WorkStages,
           NEW ledger, NEW consent,
           Backed(m, ledger, consent),
           NEW a \in {"unverified", "verified"}, a = "verified" => m.stage \in ledger
    PROVE  WithArtifact(m, a) \in Mission /\ Backed(WithArtifact(m, a), ledger, consent)
<1>1. /\ WithArtifact(m, a) \in Mission
      /\ WithArtifact(m, a).stage = m.stage
      /\ WithArtifact(m, a).art = a
      BY FieldTypes, MissionOf DEF WithArtifact
<1> QED BY <1>1 DEF Backed

\* What a request may do, by its kind.
LEMMA AcceptsKinds ==
    ASSUME NEW kind, NEW m, Accepts(kind, m)
    PROVE  /\ kind \in {"advance", "approve"} => m.art = "verified" \/ m.stage = OwnerApproval
           /\ kind = "set-artifact" => m.stage <= WorkStages
           /\ kind = "verify-artifact" => m.art # "none"
BY DEF Accepts

-----------------------------------------------------------------------------
(* The inductive invariant: the cycle *)

\* The initial state has it.
LEMMA InitInv == Init => IInv
<1> SUFFICES ASSUME Init PROVE IInv
    OBVIOUS
<1>1. TypeOK
      <2>1. mission \in Mission /\ snap \in Mission /\ state \in State /\ draft \in State
            BY ConstantTypes DEF Init
      <2>2. held \in [Request -> Mission]
            BY ConstantTypes DEF Init
      <2>3. deaths \in 0 .. MaxDeaths /\ attempts \in Nat
            BY ConstantTypes DEF Init
      <2> QED BY <2>1, <2>2, <2>3 DEF Init, TypeOK, Label, Kind
<1>2. Evidence
      BY NewIsBacked DEF Init, Evidence
<1>3. Checked
      BY DEF Init, Checked
<1>4. Counted
      BY ConstantTypes DEF Init, Counted
<1> QED BY <1>1, <1>2, <1>3, <1>4 DEF IInv

\* A step of the cycle that keeps the requests and approvals, takes nothing out
\* of the ledger and saves and holds backed copies keeps the evidence.
LEMMA EvidenceKept ==
    ASSUME IInv, UNCHANGED <<held, approved>>,
           proven \subseteq proven',
           Backed(mission', proven', approved'), Backed(snap', proven', approved')
    PROVE  Evidence'
<1>1. \A r \in Request : held[r] \in Mission /\ Backed(held[r], proven, approved)
      BY DEF IInv, TypeOK, Evidence
<1>2. \A r \in Request : Backed(held'[r], proven', approved')
      BY <1>1, BackedStays
<1> QED BY <1>2 DEF Evidence

\* A step that changes no copy and no evidence keeps it.
LEMMA EvidenceUntouched ==
    ASSUME IInv, UNCHANGED <<mission, snap, held, proven, approved>>
    PROVE  Evidence'
BY DEF IInv, Evidence, Backed

\* A step that saves the cycle's copy keeps the evidence.
LEMMA EvidenceSaved ==
    ASSUME IInv, UNCHANGED <<snap, held, proven, approved>>, Save(snap)
    PROVE  Evidence'
BY DEF IInv, Evidence, Backed, Save

\* Where the cycle is after a step, and what its draft is
LEMMA NoteTypes ==
    ASSUME NEW label \in Label, NEW f \in 0 .. EscalateAt, NEW a \in Action,
           Note(label, f, a)
    PROVE  /\ pc' = label /\ pc' \in Label
           /\ draft' \in State /\ draft'.failures = f
BY StateOf DEF Note

\* The cycle lists the mission.
LEMMA ListInv == ASSUME IInv, List PROVE IInv'
<1>1. TypeOK'
      BY DEF IInv, TypeOK, List, requests, Label
<1>2. Evidence'
      BY DEF IInv, Evidence, Backed, List, requests
<1>3. Checked'
      BY DEF IInv, Checked, List, requests
<1>4. Counted'
      BY DEF IInv, Counted, Before, List
<1> QED BY <1>1, <1>2, <1>3, <1>4 DEF IInv

\* What a decision tells of the mission and of the failures
LEMMA DecisionMeans ==
    ASSUME NEW m \in Mission, NEW failures \in Nat, NEW ready \in BOOLEAN, NEW found \in BOOLEAN
    PROVE  /\ Decision(m, failures, ready, found) \in
                {"COMPLETED", "OWNER_APPROVAL", "ESCALATE", "REPLAN_AND_CONTINUE",
                 "REPLAN_REQUIRED", "RUN_LEADER", "WAIT_FOR_ARTIFACT", "ADVANCE_STAGE"}
           /\ Decision(m, failures, ready, found) \in
                {"REPLAN_AND_CONTINUE", "REPLAN_REQUIRED", "RUN_LEADER"} => failures < EscalateAt
           /\ Decision(m, failures, ready, found) \in
                {"RUN_LEADER", "ADVANCE_STAGE"} => m.stage <= WorkStages
           /\ Decision(m, failures, ready, found) = "ADVANCE_STAGE" => m.art = "verified"
<1>1. /\ m.stage \in 1 .. Completed
      /\ m.art \in {"none", "unverified", "verified"}
      BY FieldTypes
<1>2. CASE m.stage = Completed
      BY <1>2, ConstantTypes DEF Decision
<1>3. CASE m.stage = OwnerApproval
      BY <1>3, ConstantTypes DEF Decision
<1>4. CASE m.stage <= WorkStages
      <2>1. m.stage # Completed /\ m.stage # OwnerApproval
            BY <1>1, <1>4, ConstantTypes
      <2>2. CASE ~ready
            BY <2>1, <2>2, <1>4, ConstantTypes DEF Decision, Policy
      <2>3. CASE ready /\ m.art = "unverified"
            BY <2>1, <2>3, <1>4 DEF Decision
      <2>4. CASE ready /\ m.art = "verified"
            BY <2>1, <2>4, <1>4 DEF Decision
      <2>5. CASE ready /\ m.art = "none"
            BY <2>1, <2>5, <1>4, ConstantTypes DEF Decision, Tries
      <2> QED BY <1>1, <2>2, <2>3, <2>4, <2>5
<1> QED BY <1>1, <1>2, <1>3, <1>4, ConstantTypes

\* The cycle decides.
LEMMA InspectInv == ASSUME IInv, Inspect PROVE IInv'
<1>0. /\ pc = "inspect" /\ snap \in Mission /\ state \in State
      /\ state.failures \in 0 .. EscalateAt /\ state.last \in Action
      /\ attempts \in Nat /\ deaths \in Nat
      /\ attempts <= state.failures + deaths
      /\ UNCHANGED <<mission, state, proven, snap, asked, held, deaths, approved, attempts>>
      BY FieldTypes DEF IInv, TypeOK, Inspect, Counted, Before, requests
<1>1. PICK ready \in BOOLEAN, found \in BOOLEAN :
        LET action == Decision(snap, state.failures, ready, found)
        IN \/ /\ action \in {"OWNER_APPROVAL", "WAIT_FOR_ARTIFACT", "COMPLETED"}
              /\ Note("write", state.failures, action)
           \/ action = "REPLAN_REQUIRED" /\ Note("write", state.failures + 1, action)
           \/ action = "ADVANCE_STAGE" /\ Note("advance", state.failures, state.last)
           \/ action = "RUN_LEADER" /\ Note("delegate", state.failures, state.last)
           \/ action = "REPLAN_AND_CONTINUE" /\ Note("replan", state.failures, state.last)
           \/ action = "ESCALATE" /\ Note("escalate", state.failures, state.last)
      BY DEF Inspect
<1> DEFINE action == Decision(snap, state.failures, ready, found)
<1>2. /\ action \in {"REPLAN_AND_CONTINUE", "REPLAN_REQUIRED", "RUN_LEADER"}
           => state.failures < EscalateAt
      /\ action \in {"RUN_LEADER", "ADVANCE_STAGE"} => snap.stage <= WorkStages
      /\ action = "ADVANCE_STAGE" => snap.art = "verified"
      BY <1>0, DecisionMeans
<1>3. PICK label \in {"write", "advance", "delegate", "replan", "escalate"},
           f \in 0 .. EscalateAt, a \in Action :
        /\ Note(label, f, a)
        /\ f = state.failures \/ f = state.failures + 1
        /\ label \in {"delegate", "replan"} => f < EscalateAt
        /\ label \in {"advance", "delegate"} => snap.stage <= WorkStages
        /\ label = "advance" => snap.art = "verified"
        /\ label # "write" => f = state.failures
      <2>1. state.failures \in 0 .. EscalateAt /\ state.last \in Action
            BY <1>0
      <2>2. CASE action \in {"OWNER_APPROVAL", "WAIT_FOR_ARTIFACT", "COMPLETED"}
            BY <1>1, <2>1, <2>2 DEF Action
      <2>3. CASE action = "REPLAN_REQUIRED"
            <3>1. state.failures + 1 \in 0 .. EscalateAt
                  BY <1>2, <2>1, <2>3, ConstantTypes
            <3> QED BY <1>1, <2>3, <3>1 DEF Action
      <2>4. CASE action = "ADVANCE_STAGE"
            BY <1>1, <1>2, <2>1, <2>4
      <2>5. CASE action = "RUN_LEADER"
            BY <1>1, <1>2, <2>1, <2>5
      <2>6. CASE action = "REPLAN_AND_CONTINUE"
            BY <1>1, <1>2, <2>1, <2>6
      <2>7. CASE action = "ESCALATE"
            BY <1>1, <2>1, <2>7
      <2> QED BY <1>1, <2>2, <2>3, <2>4, <2>5, <2>6, <2>7
<1>4. /\ pc' = label /\ pc' \in Label /\ draft' \in State /\ draft'.failures = f
      <2>1. label \in Label
            BY DEF Label
      <2> QED BY <1>3, <2>1, NoteTypes
<1>5. TypeOK'
      BY <1>0, <1>4 DEF IInv, TypeOK
<1>6. Evidence'
      BY <1>0, EvidenceUntouched
<1>7. Checked'
      BY <1>0, <1>3, <1>4 DEF IInv, Checked
<1>8. Counted'
      <2>1. attempts' <= draft'.failures + deaths'
            BY <1>0, <1>3, <1>4, ConstantTypes
      <2>2. attempts' <= state'.failures + deaths' /\ attempts' <= state'.failures + deaths' + 1
            BY <1>0, ConstantTypes
      <2>3. pc' \in {"delegate", "leader", "replan"} => draft'.failures < EscalateAt
            BY <1>3, <1>4
      <2> QED BY <2>1, <2>2, <2>3 DEF Counted
<1> QED BY <1>5, <1>6, <1>7, <1>8 DEF IInv
\* What is known of the cycle before a step
LEMMA CycleTypes ==
    ASSUME IInv
    PROVE  /\ pc \in Label /\ mission \in Mission /\ snap \in Mission
           /\ state \in State /\ state.failures \in 0 .. EscalateAt
           /\ draft \in State /\ draft.failures \in 0 .. EscalateAt /\ draft.last \in Action
           /\ attempts \in Nat /\ deaths \in Nat /\ deaths <= MaxDeaths
           /\ proven \in SUBSET (1 .. WorkStages) /\ approved \in BOOLEAN
           /\ Backed(mission, proven, approved) /\ Backed(snap, proven, approved)
BY FieldTypes, ConstantTypes DEF IInv, TypeOK, Evidence

\* The rest of the invariant after a step of the cycle to a label from which
\* no leader is run, with every run counted in its draft
LEMMA AfterNote ==
    ASSUME IInv, NEW label \in {"leader", "save", "write", "replanFailed"},
           NEW f \in 0 .. EscalateAt, NEW a \in Action, Note(label, f, a),
           label = "leader" => snap'.stage <= WorkStages /\ f < EscalateAt
                               /\ attempts' <= state.failures + deaths,
           mission' \in Mission, snap' \in Mission, proven' \in SUBSET (1 .. WorkStages),
           attempts' \in Nat, attempts' <= f + deaths, attempts' <= state.failures + deaths + 1,
           UNCHANGED <<state, asked, held, deaths, approved>>,
           Evidence'
    PROVE  IInv'
<1>1. label \in Label
      BY DEF Label
<1>2. /\ pc' = label /\ pc' \in Label /\ draft' \in State /\ draft'.failures = f
      BY <1>1, NoteTypes
<1>3. TypeOK'
      BY <1>2 DEF IInv, TypeOK
<1>4. Checked'
      BY <1>2 DEF IInv, Checked
<1>5. Counted'
      BY <1>2 DEF Counted, Before
<1> QED BY <1>3, <1>4, <1>5 DEF IInv

\* The cycle moves the mission on.
LEMMA AdvanceInv == ASSUME IInv, Advance PROVE IInv'
<1>1. /\ mission' = Advanced(snap) /\ Note("write", 0, "ADVANCE_STAGE") /\ attempts' = 0
      /\ UNCHANGED <<state, proven, snap, asked, held, deaths, approved>>
      BY DEF Advance, Save, requests
<1>2. snap.art = "verified" /\ snap.stage # Completed
      <2>1. snap.art = "verified" /\ snap.stage <= WorkStages
            BY DEF Advance, IInv, Checked
      <2> QED BY <2>1, CycleTypes, FieldTypes, ConstantTypes
<1>3. mission' \in Mission /\ Backed(mission', proven, approved)
      BY <1>1, <1>2, CycleTypes, AdvancedIsBacked
<1>4. Backed(mission', proven', approved') /\ Backed(snap', proven', approved')
      BY <1>1, <1>3, CycleTypes
<1>5. Evidence'
      BY <1>1, <1>4, EvidenceKept
<1>6. 0 \in 0 .. EscalateAt /\ "ADVANCE_STAGE" \in Action
      BY ConstantTypes DEF Action
<1>7. attempts' <= 0 + deaths /\ attempts' <= state.failures + deaths + 1
      BY <1>1, CycleTypes
<1>8. snap' \in Mission /\ proven' \in SUBSET (1 .. WorkStages)
      BY <1>1, CycleTypes
<1> QED BY <1>1, <1>3, <1>5, <1>6, <1>7, <1>8, AfterNote

\* The leader is not run in this turn.
LEMMA PostponeInv == ASSUME IInv, Postpone PROVE IInv'
<1>1. /\ Note("write", draft.failures, draft.last)
      /\ UNCHANGED <<mission, state, proven, snap, asked, held, deaths, approved, attempts>>
      BY DEF Postpone, requests
<1>2. attempts <= draft.failures + deaths /\ attempts <= state.failures + deaths + 1
      BY DEF Postpone, IInv, Counted
<1>3. Evidence'
      BY <1>1, EvidenceUntouched
<1>4. mission' \in Mission /\ snap' \in Mission /\ proven' \in SUBSET (1 .. WorkStages)
      BY <1>1, CycleTypes
<1> QED BY <1>1, <1>2, <1>3, <1>4, CycleTypes, AfterNote

\* The leader is not ready; the failure is counted.
LEMMA NotReadyInv == ASSUME IInv, NotReady PROVE IInv'
<1>1. /\ Note("save", draft.failures + 1, "ESCALATE")
      /\ UNCHANGED <<mission, state, proven, snap, asked, held, deaths, approved, attempts>>
      BY DEF NotReady, requests
<1>2. /\ attempts <= draft.failures + deaths /\ attempts <= state.failures + deaths + 1
      /\ draft.failures < EscalateAt
      BY DEF NotReady, IInv, Counted
<1>3. Evidence'
      BY <1>1, EvidenceUntouched
<1>4. draft.failures + 1 \in 0 .. EscalateAt /\ "ESCALATE" \in Action
      BY <1>2, CycleTypes, ConstantTypes DEF Action
<1>5. attempts' <= draft.failures + 1 + deaths
      BY <1>1, <1>2, CycleTypes
<1>6. mission' \in Mission /\ snap' \in Mission /\ proven' \in SUBSET (1 .. WorkStages)
      BY <1>1, CycleTypes
<1> QED BY <1>1, <1>2, <1>3, <1>4, <1>5, <1>6, CycleTypes, AfterNote

\* The delegation is saved.
LEMMA DelegateInv == ASSUME IInv, Delegate PROVE IInv'
<1>1. /\ Note("leader", draft.failures, draft.last) /\ Save(snap)
      /\ UNCHANGED <<state, proven, snap, asked, held, deaths, approved, attempts>>
      BY DEF Delegate, requests
<1>2. /\ attempts <= draft.failures + deaths /\ attempts <= state.failures + deaths + 1
      /\ attempts <= state.failures + deaths
      /\ draft.failures < EscalateAt /\ snap.stage <= WorkStages
      BY DEF Delegate, IInv, Counted, Checked, Before
<1>3. Evidence'
      BY <1>1, EvidenceSaved
<1>4. mission' \in Mission /\ snap' \in Mission /\ proven' \in SUBSET (1 .. WorkStages)
      BY <1>1, CycleTypes DEF Save
<1> QED BY <1>1, <1>2, <1>3, <1>4, CycleTypes, AfterNote

\* A failed run is counted once, whatever the policy makes of it.
LEMMA FailedInv ==
    ASSUME IInv, pc = "leader", Failed(draft.failures),
           snap' \in Mission, Evidence',
           UNCHANGED <<mission, state, proven, asked, held, deaths, approved>>
    PROVE  IInv'
<1>1. /\ draft.failures < EscalateAt /\ snap.stage <= WorkStages
      /\ attempts <= draft.failures + deaths /\ attempts <= state.failures + deaths
      BY DEF IInv, Counted, Checked, Before
<1>2. attempts' = attempts + 1
      BY DEF Failed
<1>3. PICK label \in {"save", "replanFailed"}, a \in Action : Note(label, draft.failures + 1, a)
      BY CycleTypes DEF Failed, Action
<1>4. draft.failures + 1 \in 0 .. EscalateAt
      BY <1>1, CycleTypes, ConstantTypes
<1>5. /\ attempts' \in Nat /\ attempts' <= draft.failures + 1 + deaths
      /\ attempts' <= state.failures + deaths + 1
      BY <1>1, <1>2, CycleTypes
<1>6. mission' \in Mission /\ proven' \in SUBSET (1 .. WorkStages)
      BY CycleTypes
<1> QED BY <1>3, <1>4, <1>5, <1>6, AfterNote

\* The leader fails.
LEMMA LeaderFailsInv == ASSUME IInv, LeaderFails PROVE IInv'
<1>1. /\ pc = "leader" /\ Failed(draft.failures)
      /\ UNCHANGED <<mission, state, proven, snap, asked, held, deaths, approved>>
      BY DEF LeaderFails, requests
<1>2. Evidence' /\ snap' \in Mission
      BY <1>1, EvidenceUntouched, CycleTypes
<1> QED BY <1>1, <1>2, FailedInv

\* The leader's artifact is not verified.
LEMMA LeaderUnverifiedInv == ASSUME IInv, LeaderUnverified PROVE IInv'
<1>1. /\ pc = "leader" /\ Failed(draft.failures) /\ snap' = WithArtifact(snap, "unverified")
      /\ UNCHANGED <<mission, state, proven, asked, held, deaths, approved>>
      BY DEF LeaderUnverified, requests
<1>2. snap.stage <= WorkStages
      BY <1>1 DEF IInv, Checked
<1>3. snap' \in Mission /\ Backed(snap', proven, approved)
      BY <1>1, <1>2, CycleTypes, WithArtifactIsBacked
<1>4. Backed(snap', proven', approved') /\ Backed(mission', proven', approved')
      BY <1>1, <1>3, CycleTypes
<1>5. Evidence'
      BY <1>1, <1>4, EvidenceKept
<1> QED BY <1>1, <1>3, <1>5, FailedInv

\* The leader's artifact is verified.
LEMMA LeaderVerifiedInv == ASSUME IInv, LeaderVerified PROVE IInv'
<1>1. /\ pc = "leader" /\ Note("save", 0, draft.last) /\ attempts' = 0
      /\ snap' = WithArtifact(snap, "verified") /\ proven' = proven \cup {snap.stage}
      /\ UNCHANGED <<mission, state, asked, held, deaths, approved>>
      BY DEF LeaderVerified, requests
<1>2. snap.stage <= WorkStages
      BY <1>1 DEF IInv, Checked
<1>3. proven' \in SUBSET (1 .. WorkStages) /\ proven \subseteq proven' /\ snap.stage \in proven'
      BY <1>1, <1>2, CycleTypes, FieldTypes, ConstantTypes
<1>4. Backed(snap, proven', approved) /\ Backed(mission, proven', approved)
      BY <1>3, CycleTypes, BackedStays
<1>5. snap' \in Mission /\ Backed(snap', proven', approved)
      BY <1>1, <1>2, <1>3, <1>4, CycleTypes, WithArtifactIsBacked
<1>6. Backed(snap', proven', approved') /\ Backed(mission', proven', approved')
      BY <1>1, <1>4, <1>5
<1>7. Evidence'
      BY <1>1, <1>3, <1>6, EvidenceKept
<1>8. /\ 0 \in 0 .. EscalateAt /\ attempts' \in Nat
      /\ attempts' <= 0 + deaths /\ attempts' <= state.failures + deaths + 1
      /\ mission' \in Mission
      BY <1>1, CycleTypes, ConstantTypes
<1> QED BY <1>1, <1>3, <1>5, <1>7, <1>8, CycleTypes, AfterNote

\* The replacement of a leader is saved and the counting starts again.
LEMMA ReplacedInv ==
    ASSUME IInv, NEW label \in {"save", "write"}, Replaced(label),
           UNCHANGED <<state, proven, snap, asked, held, deaths, approved>>
    PROVE  IInv'
<1>1. Save(snap) /\ Note(label, 0, "REPLAN_AND_CONTINUE") /\ attempts' = 0
      BY DEF Replaced
<1>2. Evidence'
      BY <1>1, EvidenceSaved
<1>3. /\ 0 \in 0 .. EscalateAt /\ "REPLAN_AND_CONTINUE" \in Action /\ attempts' \in Nat
      /\ attempts' <= 0 + deaths /\ attempts' <= state.failures + deaths + 1
      BY <1>1, CycleTypes, ConstantTypes DEF Action
<1>4. mission' \in Mission /\ snap' \in Mission /\ proven' \in SUBSET (1 .. WorkStages)
      BY <1>1, CycleTypes DEF Save
<1> QED BY <1>1, <1>2, <1>3, <1>4, AfterNote

\* Replanning after a failed run
LEMMA ReplanFailedInv == ASSUME IInv, ReplanFailed PROVE IInv'
<1>1. /\ pc = "replanFailed"
      /\ UNCHANGED <<state, proven, snap, asked, held, deaths, approved>>
      BY DEF ReplanFailed, requests
<1>2. CASE Replaced("save")
      BY <1>1, <1>2, ReplacedInv
<1>3. CASE Note("save", draft.failures, "REPLAN_REQUIRED") /\ UNCHANGED <<mission, attempts>>
      <2>1. Evidence'
            BY <1>1, <1>3, EvidenceUntouched
      <2>2. attempts <= draft.failures + deaths /\ attempts <= state.failures + deaths + 1
            BY <1>1 DEF IInv, Counted
      <2>3. mission' \in Mission /\ snap' \in Mission /\ proven' \in SUBSET (1 .. WorkStages)
            BY <1>1, <1>3, CycleTypes
      <2>4. "REPLAN_REQUIRED" \in Action
            BY DEF Action
      <2> QED BY <1>1, <1>3, <2>1, <2>2, <2>3, <2>4, CycleTypes, AfterNote
<1> QED BY <1>2, <1>3 DEF ReplanFailed

\* Replanning because the leader is not ready
LEMMA ReplanInv == ASSUME IInv, Replan PROVE IInv'
<1>1. /\ pc = "replan"
      /\ UNCHANGED <<state, proven, snap, asked, held, deaths, approved>>
      BY DEF Replan, requests
<1>2. CASE Replaced("write")
      BY <1>1, <1>2, ReplacedInv
<1>3. CASE Note("write", draft.failures + 1, "REPLAN_REQUIRED") /\ UNCHANGED <<mission, attempts>>
      <2>1. Evidence'
            BY <1>1, <1>3, EvidenceUntouched
      <2>2. /\ attempts <= draft.failures + deaths /\ attempts <= state.failures + deaths + 1
            /\ draft.failures < EscalateAt
            BY <1>1 DEF IInv, Counted
      <2>3. mission' \in Mission /\ snap' \in Mission /\ proven' \in SUBSET (1 .. WorkStages)
            BY <1>1, <1>3, CycleTypes
      <2>4. /\ draft.failures + 1 \in 0 .. EscalateAt /\ "REPLAN_REQUIRED" \in Action
            /\ attempts' <= draft.failures + 1 + deaths
            BY <1>3, <2>2, CycleTypes, ConstantTypes DEF Action
      <2> QED BY <1>1, <1>3, <2>1, <2>2, <2>3, <2>4, CycleTypes, AfterNote
<1> QED BY <1>2, <1>3 DEF Replan

\* The escalation is saved.
LEMMA EscalateInv == ASSUME IInv, Escalate PROVE IInv'
<1>1. /\ pc = "escalate" /\ Save(snap) /\ Note("write", draft.failures, "ESCALATE")
      /\ UNCHANGED <<state, proven, snap, asked, held, deaths, approved, attempts>>
      BY DEF Escalate, requests
<1>2. attempts <= draft.failures + deaths /\ attempts <= state.failures + deaths + 1
      BY <1>1 DEF IInv, Counted
<1>3. Evidence'
      BY <1>1, EvidenceSaved
<1>4. mission' \in Mission /\ snap' \in Mission /\ proven' \in SUBSET (1 .. WorkStages)
      BY <1>1, CycleTypes DEF Save
<1>5. "ESCALATE" \in Action
      BY CycleTypes DEF Action
<1> QED BY <1>1, <1>2, <1>3, <1>4, <1>5, CycleTypes, AfterNote

\* The mission is saved.
LEMMA SaveMissionInv == ASSUME IInv, SaveMission PROVE IInv'
<1>1. /\ pc = "save" /\ Save(snap) /\ Note("write", draft.failures, draft.last)
      /\ UNCHANGED <<state, proven, snap, asked, held, deaths, approved, attempts>>
      BY DEF SaveMission, requests
<1>2. attempts <= draft.failures + deaths /\ attempts <= state.failures + deaths + 1
      BY <1>1 DEF IInv, Counted
<1>3. Evidence'
      BY <1>1, EvidenceSaved
<1>4. mission' \in Mission /\ snap' \in Mission /\ proven' \in SUBSET (1 .. WorkStages)
      BY <1>1, CycleTypes DEF Save
<1>5. draft.last \in Action
      BY CycleTypes DEF Action
<1> QED BY <1>1, <1>2, <1>3, <1>4, <1>5, CycleTypes, AfterNote

\* A turn that is over leaves a new mission and a new state in the cycle.
LEMMA RestTypes ==
    ASSUME IInv, Rest, UNCHANGED <<mission, asked, held, proven, approved>>
    PROVE  /\ pc' = "idle" /\ pc' \in Label
           /\ snap' \in Mission /\ draft' \in State
           /\ Evidence' /\ Checked'
<1>1. /\ pc' = "idle" /\ pc' \in Label /\ snap' \in Mission /\ draft' \in State
      BY ConstantTypes DEF Rest, Label
<1>2. Backed(snap', proven', approved') /\ Backed(mission', proven', approved')
      BY CycleTypes, NewIsBacked DEF Rest
<1>3. Evidence'
      BY <1>2, EvidenceKept
<1>4. Checked'
      BY <1>1 DEF IInv, Checked
<1> QED BY <1>1, <1>3, <1>4

\* The state is written and the turn is over.
LEMMA WriteInv == ASSUME IInv, Write PROVE IInv'
<1>1. /\ pc = "write" /\ state' = draft /\ Rest
      /\ UNCHANGED <<mission, proven, asked, held, deaths, approved, attempts>>
      BY DEF Write, requests
<1>2. /\ pc' = "idle" /\ pc' \in Label /\ snap' \in Mission /\ draft' \in State
      /\ Evidence' /\ Checked'
      BY <1>1, RestTypes
<1>3. TypeOK'
      BY <1>1, <1>2 DEF IInv, TypeOK
<1>4. attempts <= draft.failures + deaths
      BY <1>1 DEF IInv, Counted
<1>5. attempts' <= state'.failures + deaths' /\ attempts' <= state'.failures + deaths' + 1
      BY <1>1, <1>4, CycleTypes
<1>6. Counted'
      BY <1>2, <1>5 DEF Counted
<1> QED BY <1>2, <1>3, <1>6 DEF IInv

\* A killed cycle may have run a leader that nobody counted.
LEMMA DieInv == ASSUME IInv, Die PROVE IInv'
<1>1. /\ Rest /\ deaths' = deaths + 1 /\ deaths < MaxDeaths
      /\ UNCHANGED <<mission, state, proven, asked, held, approved, attempts>>
      BY DEF Die, requests
<1>2. /\ pc' = "idle" /\ pc' \in Label /\ snap' \in Mission /\ draft' \in State
      /\ Evidence' /\ Checked'
      BY <1>1, RestTypes
<1>3. deaths' \in 0 .. MaxDeaths
      BY <1>1, CycleTypes, ConstantTypes
<1>4. TypeOK'
      BY <1>1, <1>2, <1>3 DEF IInv, TypeOK
<1>5. attempts <= state.failures + deaths + 1
      BY DEF IInv, Counted
<1>6. attempts' <= state'.failures + deaths' /\ attempts' <= state'.failures + deaths' + 1
      BY <1>1, <1>5, CycleTypes
<1>7. Counted'
      BY <1>2, <1>6 DEF Counted
<1> QED BY <1>2, <1>4, <1>7 DEF IInv

\* A mission whose turn does not come is left as it is.
LEMMA AbandonInv == ASSUME IInv, Abandon PROVE IInv'
<1>1. /\ pc = "inspect" /\ Rest
      /\ UNCHANGED <<mission, state, proven, asked, held, deaths, approved, attempts>>
      BY DEF Abandon, requests
<1>2. /\ pc' = "idle" /\ pc' \in Label /\ snap' \in Mission /\ draft' \in State
      /\ Evidence' /\ Checked'
      BY <1>1, RestTypes
<1>3. TypeOK'
      BY <1>1, <1>2 DEF IInv, TypeOK
<1>4. attempts <= state.failures + deaths
      BY <1>1 DEF IInv, Counted, Before
<1>5. attempts' <= state'.failures + deaths' /\ attempts' <= state'.failures + deaths' + 1
      BY <1>1, <1>4, CycleTypes
<1>6. Counted'
      BY <1>2, <1>5 DEF Counted
<1> QED BY <1>2, <1>3, <1>6 DEF IInv

-----------------------------------------------------------------------------
(* The inductive invariant: the requests *)

\* What is known of a request that is under way
LEMMA HeldTypes ==
    ASSUME IInv, NEW r \in Request
    PROVE  /\ held[r] \in Mission /\ Backed(held[r], proven, approved)
           /\ asked[r] \in Kind
           /\ asked[r] # "none" => Accepts(asked[r], held[r])
BY DEF IInv, TypeOK, Evidence, Checked

\* A request reads the mission.
LEMMA AskInv == ASSUME IInv, NEW r \in Request, Ask(r) PROVE IInv'
<1>1. PICK kind \in Kind : Accepts(kind, mission) /\ asked' = [asked EXCEPT ![r] = kind]
      BY DEF Ask
<1>2. /\ held' = [held EXCEPT ![r] = mission]
      /\ UNCHANGED <<mission, state, proven, pc, snap, draft, deaths, approved, attempts>>
      BY DEF Ask, cycle
<1>3. /\ asked \in [Request -> Kind] /\ held \in [Request -> Mission]
      BY DEF IInv, TypeOK
<1>4. \A q \in Request : /\ asked'[q] = IF q = r THEN kind ELSE asked[q]
                         /\ held'[q] = IF q = r THEN mission ELSE held[q]
      BY <1>1, <1>2, <1>3
<1>5. TypeOK'
      <2>1. asked' \in [Request -> Kind] /\ held' \in [Request -> Mission]
            BY <1>1, <1>2, <1>3, CycleTypes
      <2> QED BY <1>2, <2>1 DEF IInv, TypeOK
<1>6. Evidence'
      <2>1. \A q \in Request : Backed(held'[q], proven, approved)
            BY <1>4, HeldTypes, CycleTypes
      <2> QED BY <1>2, <2>1, CycleTypes DEF Evidence
<1>7. Checked'
      <2>1. \A q \in Request : asked'[q] # "none" => Accepts(asked'[q], held'[q])
            BY <1>1, <1>4, HeldTypes
      <2> QED BY <1>2, <2>1 DEF IInv, Checked
<1>8. Counted'
      BY <1>2 DEF IInv, Counted
<1> QED BY <1>5, <1>6, <1>7, <1>8 DEF IInv

\* A request that saves a backed copy keeps the invariant.
LEMMA AnswerInv ==
    ASSUME IInv, NEW r \in Request, NEW m \in Mission, Answer(r, m),
           proven' \in SUBSET (1 .. WorkStages), proven \subseteq proven',
           approved' \in BOOLEAN, approved => approved',
           Backed(m, proven', approved')
    PROVE  IInv'
<1>1. /\ mission' = m
      /\ asked' = [asked EXCEPT ![r] = "none"] /\ held' = [held EXCEPT ![r] = NewMission]
      /\ UNCHANGED <<state, pc, snap, draft, deaths, attempts>>
      BY DEF Answer, Save, cycle
<1>2. asked \in [Request -> Kind] /\ held \in [Request -> Mission]
      BY DEF IInv, TypeOK
<1>3. \A q \in Request : /\ asked'[q] = IF q = r THEN "none" ELSE asked[q]
                         /\ held'[q] = IF q = r THEN NewMission ELSE held[q]
      BY <1>1, <1>2
<1>4. TypeOK'
      <2>1. asked' \in [Request -> Kind] /\ held' \in [Request -> Mission]
            BY <1>1, <1>2, ConstantTypes DEF Kind
      <2> QED BY <1>1, <2>1 DEF IInv, TypeOK
<1>5. Evidence'
      <2>1. ASSUME NEW q \in Request PROVE Backed(held[q], proven', approved')
            <3>1. held[q] \in Mission /\ Backed(held[q], proven, approved)
                  BY HeldTypes
            <3> QED BY <3>1, CycleTypes, BackedStays
      <2>2. \A q \in Request : Backed(held'[q], proven', approved')
            BY <1>3, <2>1, NewIsBacked
      <2>3. Backed(snap, proven', approved')
            BY CycleTypes, BackedStays
      <2>4. Backed(mission', proven', approved') /\ Backed(snap', proven', approved')
            BY <1>1, <2>3
      <2> QED BY <2>2, <2>4 DEF Evidence
<1>6. Checked'
      <2>1. \A q \in Request : asked'[q] # "none" => Accepts(asked'[q], held'[q])
            BY <1>3, HeldTypes
      <2> QED BY <1>1, <2>1 DEF IInv, Checked
<1>7. Counted'
      BY <1>1 DEF IInv, Counted
<1> QED BY <1>4, <1>5, <1>6, <1>7 DEF IInv

\* A request moves the mission on.
LEMMA AnswerMoveInv == ASSUME IInv, NEW r \in Request, AnswerMove(r) PROVE IInv'
<1>1. /\ asked[r] \in {"advance", "approve"} /\ Answer(r, Advanced(held[r]))
      /\ approved' = (approved \/ held[r].stage = OwnerApproval) /\ proven' = proven
      BY DEF AnswerMove
<1>2. held[r].art = "verified" \/ held[r].stage = OwnerApproval
      BY <1>1, HeldTypes, AcceptsKinds
<1>3. approved' \in BOOLEAN /\ (approved => approved')
      BY <1>1, CycleTypes
<1>4. held[r] \in Mission /\ Backed(held[r], proven', approved')
      BY <1>1, <1>3, HeldTypes, BackedStays
<1>5. held[r].stage # Completed
      <2>1. held[r].art = "verified" => held[r].stage <= WorkStages
            BY HeldTypes DEF Backed
      <2> QED BY <1>2, <2>1, ConstantTypes
<1>6. held[r].art = "verified" \/ (held[r].stage = OwnerApproval /\ approved')
      BY <1>1, <1>2
<1>7. proven' \in SUBSET (1 .. WorkStages) /\ proven \subseteq proven'
      BY <1>1, CycleTypes
<1>8. Advanced(held[r]) \in Mission /\ Backed(Advanced(held[r]), proven', approved')
      BY <1>3, <1>4, <1>5, <1>6, <1>7, AdvancedIsBacked
<1> QED BY <1>1, <1>3, <1>7, <1>8, AnswerInv

\* A request puts an artifact in.
LEMMA AnswerSetInv == ASSUME IInv, NEW r \in Request, AnswerSet(r) PROVE IInv'
<1>1. /\ asked[r] = "set-artifact"
      /\ UNCHANGED <<proven, approved>>
      BY DEF AnswerSet
<1>2. PICK art \in {"unverified", "verified"} :
        /\ art = "verified" => held[r].stage \in proven
        /\ Answer(r, WithArtifact(held[r], art))
      BY DEF AnswerSet
<1>3. held[r] \in Mission /\ Backed(held[r], proven, approved) /\ held[r].stage <= WorkStages
      BY <1>1, HeldTypes, AcceptsKinds
<1>4. /\ WithArtifact(held[r], art) \in Mission
      /\ Backed(WithArtifact(held[r], art), proven, approved)
      BY <1>2, <1>3, WithArtifactIsBacked
<1>5. /\ proven' \in SUBSET (1 .. WorkStages) /\ proven \subseteq proven'
      /\ approved' \in BOOLEAN /\ (approved => approved')
      /\ Backed(WithArtifact(held[r], art), proven', approved')
      BY <1>1, <1>4, CycleTypes
<1> QED BY <1>2, <1>4, <1>5, AnswerInv

\* A request has an artifact verified.
LEMMA AnswerVerifyInv == ASSUME IInv, NEW r \in Request, AnswerVerify(r) PROVE IInv'
<1>1. asked[r] = "verify-artifact" /\ approved' = approved
      BY DEF AnswerVerify
<1>2. held[r] \in Mission /\ Backed(held[r], proven, approved) /\ held[r].art # "none"
      BY <1>1, HeldTypes, AcceptsKinds
<1>3. held[r].stage \in 1 .. WorkStages
      BY <1>2, FieldTypes, ConstantTypes DEF Backed
<1>4. approved' \in BOOLEAN /\ (approved => approved')
      BY <1>1, CycleTypes
<1>5. CASE Answer(r, WithArtifact(held[r], "unverified")) /\ UNCHANGED proven
      <2>1. /\ proven' \in SUBSET (1 .. WorkStages) /\ proven \subseteq proven'
            BY <1>5, CycleTypes
      <2>2. Backed(held[r], proven', approved')
            BY <1>2, <1>4, <2>1, BackedStays
      <2>3. held[r].stage <= WorkStages
            BY <1>3, ConstantTypes
      <2>4. /\ WithArtifact(held[r], "unverified") \in Mission
            /\ Backed(WithArtifact(held[r], "unverified"), proven', approved')
            BY <1>2, <2>1, <2>2, <2>3, WithArtifactIsBacked
      <2> QED BY <1>4, <1>5, <2>1, <2>4, AnswerInv
<1>6. CASE /\ Answer(r, WithArtifact(held[r], "verified"))
           /\ proven' = proven \cup {held[r].stage}
      <2>1. /\ proven' \in SUBSET (1 .. WorkStages) /\ proven \subseteq proven'
            /\ held[r].stage \in proven'
            BY <1>3, <1>6, CycleTypes
      <2>2. Backed(held[r], proven', approved')
            BY <1>2, <1>4, <2>1, BackedStays
      <2>3. held[r].stage <= WorkStages
            BY <1>3, ConstantTypes
      <2>4. /\ WithArtifact(held[r], "verified") \in Mission
            /\ Backed(WithArtifact(held[r], "verified"), proven', approved')
            BY <1>2, <2>1, <2>2, <2>3, WithArtifactIsBacked
      <2> QED BY <1>4, <1>6, <2>1, <2>4, AnswerInv
<1> QED BY <1>5, <1>6 DEF AnswerVerify

\* A request adds a message.
LEMMA AnswerMessageInv == ASSUME IInv, NEW r \in Request, AnswerMessage(r) PROVE IInv'
<1>1. Answer(r, held[r]) /\ UNCHANGED <<proven, approved>>
      BY DEF AnswerMessage
<1>2. /\ held[r] \in Mission /\ Backed(held[r], proven', approved')
      /\ proven' \in SUBSET (1 .. WorkStages) /\ proven \subseteq proven'
      /\ approved' \in BOOLEAN /\ (approved => approved')
      BY <1>1, HeldTypes, CycleTypes
<1> QED BY <1>1, <1>2, AnswerInv

-----------------------------------------------------------------------------
(* The theorems *)

\* Every step keeps the invariant.
LEMMA NextInv == IInv /\ [Next]_vars => IInv'
<1> SUFFICES ASSUME IInv, [Next]_vars PROVE IInv'
    OBVIOUS
<1>1. CASE UNCHANGED vars
      BY <1>1 DEF vars, cycle, requests, IInv, TypeOK, Evidence, Backed, Checked, Counted
<1>2. CASE List
      BY <1>2, ListInv
<1>3. CASE CycleStep
      BY <1>3, InspectInv, AdvanceInv, PostponeInv, NotReadyInv, DelegateInv, LeaderFailsInv,
         LeaderUnverifiedInv, LeaderVerifiedInv, ReplanFailedInv, ReplanInv, EscalateInv,
         SaveMissionInv, WriteInv DEF CycleStep
<1>4. CASE Die
      BY <1>4, DieInv
<1>5. ASSUME NEW r \in Request, RequestStep(r) PROVE IInv'
      BY <1>5, AskInv, AnswerMoveInv, AnswerSetInv, AnswerVerifyInv, AnswerMessageInv
      DEF RequestStep
<1>6. CASE Abandon
      BY <1>6, AbandonInv
<1> QED BY <1>1, <1>2, <1>3, <1>4, <1>5, <1>6 DEF Next

\* The invariant holds in every state of every behaviour.
THEOREM Invariance == Spec => []IInv
BY InitInv, NextInv, PTL DEF Spec

\* Type correctness: among the rest, neither the state that is written nor the
\* draft ever counts more failures than the escalation threshold.
THEOREM TypeCorrect == Spec => []TypeOK
<1>1. IInv => TypeOK
      BY DEF IInv
<1> QED BY <1>1, Invariance, PTL

\* However cycles and requests overwrite each other's missions, the mission is
\* completed only by the owner.
THEOREM CompletedByOwnerAlways == Spec => []CompletedByOwner
<1>1. IInv => CompletedByOwner
      BY DEF IInv, Evidence, Backed, CompletedByOwner
<1> QED BY <1>1, Invariance, PTL

\* However they overwrite each other, every stage behind the mission has a
\* verified artifact in the ledger.
THEOREM StagesBackedAlways == Spec => []StagesBacked
<1>1. IInv => StagesBacked
      BY DEF IInv, Evidence, Backed, StagesBacked
<1> QED BY <1>1, Invariance, PTL

\* A leader is run at most as often as the escalation threshold says, and once
\* more for each killed cycle.
THEOREM AttemptBudgetAlways == Spec => []AttemptBudget
<1>1. ASSUME IInv PROVE AttemptBudget
      <2>1. attempts <= state.failures + deaths \/ attempts <= draft.failures + deaths
            BY <1>1 DEF IInv, Counted, Before
      <2> QED BY <1>1, <2>1, CycleTypes, ConstantTypes DEF AttemptBudget
<1> QED BY <1>1, Invariance, PTL

-----------------------------------------------------------------------------
(* The chain of stages, as long as the mission is not moved on while somebody *)
(* else holds a copy of it                                                    *)

\* The labels from which a cycle may still save its copy
Saving == Label \ {"idle", "write"}

\* When the cycle or a request moves the mission on, nobody else is between
\* reading it and saving it.  Overlaps that move nothing are allowed: messages,
\* artifacts, delegations, runs of leaders, replans, deaths.
MovesApart ==
    /\ Advance => \A r \in Request : asked[r] = "none"
    /\ \A r \in Request : AnswerMove(r) =>
            pc \notin Saving /\ \A q \in Request \ {r} : asked[q] = "none"

\* Every copy that may still be saved is of the stage the mission is at.
Fresh ==
    /\ pc \in Saving => snap.stage = mission.stage
    /\ \A r \in Request : asked[r] # "none" => held[r].stage = mission.stage

\* A step that leaves the stages of the mission and of the cycle's copy alone,
\* and the requests, keeps the copies fresh, unless it begins a turn.
LEMMA FreshKept ==
    ASSUME Fresh, mission'.stage = mission.stage, UNCHANGED <<asked, held>>,
           pc' \in Saving => pc \in Saving /\ snap'.stage = snap.stage
    PROVE  Fresh'
BY DEF Fresh

\* A request that does not move the mission saves its stage, which is the
\* mission's, and the copies stay fresh.
LEMMA FreshAnswered ==
    ASSUME IInv, Fresh, NEW r \in Request, asked[r] # "none",
           NEW m, m.stage = held[r].stage, Answer(r, m)
    PROVE  mission'.stage = mission.stage /\ Fresh'
<1>1. /\ mission' = m /\ asked' = [asked EXCEPT ![r] = "none"]
      /\ held' = [held EXCEPT ![r] = NewMission] /\ UNCHANGED <<pc, snap>>
      BY DEF Answer, Save, cycle
<1>2. mission'.stage = mission.stage
      BY <1>1 DEF Fresh
<1>3. ASSUME NEW q \in Request, asked'[q] # "none"
      PROVE  asked[q] # "none" /\ held'[q] = held[q]
      BY <1>1, <1>3 DEF IInv, TypeOK
<1> QED BY <1>1, <1>2, <1>3 DEF Fresh

\* The labels the cycle goes on to
LEMMA LabelFacts ==
    /\ Saving = {"inspect", "advance", "delegate", "leader", "replanFailed", "replan",
                 "escalate", "save"}
    /\ "idle" \notin Saving /\ "write" \notin Saving
BY DEF Saving, Label

\* A turn of the cycle: it moves the mission on at most one stage, verifies
\* at most the mission's own stage, and keeps its copy fresh.
LEMMA CycleChain ==
    ASSUME IInv, Fresh, CycleStep, MovesApart
    PROVE  Fresh' /\ [Chain!Next]_<<mission.stage, proven, approved>>
<1>0. UNCHANGED <<asked, held, approved>>
      BY DEF CycleStep, Inspect, Advance, Postpone, NotReady, Delegate, LeaderFails,
         LeaderUnverified, LeaderVerified, ReplanFailed, Replan, Escalate, SaveMission,
         Write, requests
<1>1. CASE Advance
      <2>1. /\ snap.stage = mission.stage /\ snap.stage \in proven /\ snap.stage <= WorkStages
            BY <1>1, LabelFacts DEF Advance, Fresh, IInv, Checked, Evidence, Backed
      <2>2. /\ mission'.stage = mission.stage + 1 /\ proven' = proven /\ pc' = "write"
            BY <1>1, <2>1 DEF Advance, Save, Advanced, Note
      <2>3. Chain!Advance
            BY <1>0, <2>1, <2>2 DEF Chain!Advance
      <2>4. \A r \in Request : asked'[r] = "none"
            BY <1>0, <1>1 DEF MovesApart
      <2>5. Fresh'
            BY <2>2, <2>4, LabelFacts DEF Fresh
      <2> QED BY <2>3, <2>5 DEF Chain!Next
<1>2. CASE LeaderVerified
      <2>1. /\ snap.stage = mission.stage /\ snap.stage <= WorkStages
            BY <1>2, LabelFacts DEF LeaderVerified, Fresh, IInv, Checked
      <2>2. /\ mission' = mission /\ proven' = proven \cup {mission.stage} /\ pc \in Saving
            /\ snap'.stage = snap.stage
            BY <1>2, <2>1, LabelFacts DEF LeaderVerified, WithArtifact
      <2>3. Chain!Verify
            BY <1>0, <2>1, <2>2 DEF Chain!Verify
      <2>4. Fresh'
            BY <1>0, <2>2, FreshKept
      <2> QED BY <2>3, <2>4 DEF Chain!Next
<1>3. CASE \/ Inspect \/ Postpone \/ NotReady \/ LeaderFails \/ LeaderUnverified \/ Write
      <2>1. /\ mission' = mission /\ proven' = proven
            BY <1>3 DEF Inspect, Postpone, NotReady, LeaderFails, LeaderUnverified, Write
      <2>2. pc \in Saving \/ pc' \notin Saving
            BY <1>3, LabelFacts DEF Inspect, Postpone, NotReady, LeaderFails,
               LeaderUnverified, Write, Rest
      <2>3. pc' \in Saving => snap'.stage = snap.stage
            BY <1>3, LabelFacts DEF Inspect, Postpone, NotReady, LeaderFails, LeaderUnverified,
               WithArtifact, Write, Rest
      <2>4. Fresh'
            BY <1>0, <2>1, <2>2, <2>3, FreshKept
      <2> QED BY <1>0, <2>1, <2>4
<1>4. CASE \/ Delegate \/ ReplanFailed \/ Replan \/ Escalate \/ SaveMission
      <2>1. /\ pc \in Saving /\ snap' = snap /\ proven' = proven
            BY <1>4, LabelFacts DEF Delegate, ReplanFailed, Replan, Escalate, SaveMission
      <2>2. mission' = snap \/ mission' = mission
            BY <1>4 DEF Delegate, ReplanFailed, Replan, Replaced, Escalate, SaveMission, Save
      <2>3. mission'.stage = mission.stage
            BY <2>1, <2>2 DEF Fresh
      <2>4. Fresh'
            BY <1>0, <2>1, <2>3, FreshKept
      <2> QED BY <1>0, <2>1, <2>3, <2>4
<1> QED BY <1>1, <1>2, <1>3, <1>4 DEF CycleStep

\* A request: likewise.
LEMMA RequestChain ==
    ASSUME IInv, Fresh, NEW r \in Request, RequestStep(r), MovesApart
    PROVE  Fresh' /\ [Chain!Next]_<<mission.stage, proven, approved>>
<1>1. CASE Ask(r)
      <2>1. /\ held' = [held EXCEPT ![r] = mission]
            /\ UNCHANGED <<mission, proven, pc, snap, approved>>
            /\ \E kind \in Kind : asked' = [asked EXCEPT ![r] = kind]
            BY <1>1 DEF Ask, cycle
      <2>2. \A q \in Request : /\ q # r => asked'[q] = asked[q] /\ held'[q] = held[q]
                               /\ q = r => held'[q] = mission
            BY <2>1 DEF IInv, TypeOK
      <2>3. Fresh'
            BY <2>1, <2>2 DEF Fresh
      <2> QED BY <2>1, <2>3
<1>2. CASE AnswerMove(r)
      <2>1. /\ asked[r] \in {"advance", "approve"} /\ Answer(r, Advanced(held[r]))
            /\ approved' = (approved \/ held[r].stage = OwnerApproval) /\ proven' = proven
            BY <1>2 DEF AnswerMove
      <2>2. /\ held[r] \in Mission /\ held[r].stage = mission.stage
            /\ Backed(held[r], proven, approved)
            /\ held[r].art = "verified" \/ held[r].stage = OwnerApproval
            BY <2>1, HeldTypes, AcceptsKinds DEF Fresh
      <2>3. mission'.stage = mission.stage + 1
            BY <2>1, <2>2 DEF Answer, Save, Advanced
      <2>4. ASSUME held[r].stage = OwnerApproval PROVE Chain!Next
            <3>1. mission.stage = WorkStages + 1 /\ approved'
                  BY <2>1, <2>2, <2>4, ConstantTypes
            <3>2. approved' \in BOOLEAN
                  BY <2>1, CycleTypes
            <3>3. Chain!Approve
                  BY <2>1, <2>3, <3>1, <3>2 DEF Chain!Approve
            <3> QED BY <3>3 DEF Chain!Next
      <2>5. ASSUME held[r].stage # OwnerApproval PROVE Chain!Next
            <3>1. mission.stage <= WorkStages /\ mission.stage \in proven
                  BY <2>2, <2>5 DEF Backed
            <3>2. approved' = approved
                  BY <2>1, <2>5, CycleTypes
            <3>3. Chain!Advance
                  BY <2>1, <2>3, <3>1, <3>2 DEF Chain!Advance
            <3> QED BY <3>3 DEF Chain!Next
      <2>6. /\ pc' = pc /\ pc \notin Saving /\ asked' = [asked EXCEPT ![r] = "none"]
            /\ \A q \in Request \ {r} : asked[q] = "none"
            BY <1>2, <2>1 DEF MovesApart, Answer, cycle
      <2>7. Fresh'
            BY <2>6 DEF Fresh, IInv, TypeOK
      <2> QED BY <2>4, <2>5, <2>7
<1>3. CASE AnswerSet(r)
      <2>1. /\ asked[r] = "set-artifact" /\ UNCHANGED <<proven, approved>>
            /\ \E art \in {"unverified", "verified"} : Answer(r, WithArtifact(held[r], art))
            BY <1>3 DEF AnswerSet
      <2>2. \A art : WithArtifact(held[r], art).stage = held[r].stage
            BY DEF WithArtifact
      <2>3. mission'.stage = mission.stage /\ Fresh'
            BY <2>1, <2>2, FreshAnswered
      <2> QED BY <2>1, <2>3
<1>4. CASE AnswerVerify(r)
      <2>1. /\ asked[r] = "verify-artifact" /\ approved' = approved
            /\ \/ Answer(r, WithArtifact(held[r], "unverified")) /\ UNCHANGED proven
               \/ /\ Answer(r, WithArtifact(held[r], "verified"))
                  /\ proven' = proven \cup {held[r].stage}
            BY <1>4 DEF AnswerVerify
      <2>2. /\ held[r].stage = mission.stage /\ held[r].stage <= WorkStages
            BY <2>1, HeldTypes, AcceptsKinds DEF Fresh, Backed
      <2>3. \A art : WithArtifact(held[r], art).stage = held[r].stage
            BY DEF WithArtifact
      <2>4. mission'.stage = mission.stage /\ Fresh'
            BY <2>1, <2>3, FreshAnswered
      <2>5. CASE UNCHANGED proven
            BY <2>1, <2>4, <2>5
      <2>6. CASE proven' = proven \cup {held[r].stage}
            <3>1. Chain!Verify
                  BY <2>1, <2>2, <2>4, <2>6 DEF Chain!Verify
            <3> QED BY <2>4, <3>1 DEF Chain!Next
      <2> QED BY <2>1, <2>5, <2>6
<1>5. CASE AnswerMessage(r)
      <2>1. /\ asked[r] = "message" /\ Answer(r, held[r]) /\ UNCHANGED <<proven, approved>>
            BY <1>5 DEF AnswerMessage
      <2>2. mission'.stage = mission.stage /\ Fresh'
            BY <2>1, FreshAnswered
      <2> QED BY <2>1, <2>2
<1> QED BY <1>1, <1>2, <1>3, <1>4, <1>5 DEF RequestStep

\* Every step is a step of the chain or leaves it alone.
LEMMA ChainStep ==
    ASSUME IInv, Fresh, [Next]_vars, [MovesApart]_vars
    PROVE  Fresh' /\ [Chain!Next]_<<mission.stage, proven, approved>>
<1>1. CASE UNCHANGED vars
      BY <1>1 DEF vars, cycle, requests, Fresh
<1>2. CASE List
      <2>1. /\ UNCHANGED <<mission, proven, asked, held, approved>> /\ snap' = mission
            BY <1>2 DEF List, requests
      <2> QED BY <2>1 DEF Fresh
<1>3. CASE Die
      <2>1. UNCHANGED <<mission, proven, asked, held, approved>> /\ pc' = "idle"
            BY <1>3 DEF Die, Rest, requests
      <2> QED BY <2>1, LabelFacts, FreshKept
<1>6. CASE Abandon
      <2>1. UNCHANGED <<mission, proven, asked, held, approved>> /\ pc' = "idle"
            BY <1>6 DEF Abandon, Rest, requests
      <2> QED BY <2>1, LabelFacts, FreshKept
<1>4. CASE ~UNCHANGED vars /\ CycleStep
      BY <1>4, CycleChain
<1>5. ASSUME ~UNCHANGED vars, NEW r \in Request, RequestStep(r)
      PROVE  Fresh' /\ [Chain!Next]_<<mission.stage, proven, approved>>
      BY <1>5, RequestChain
<1> QED BY <1>1, <1>2, <1>3, <1>4, <1>5, <1>6 DEF Next

\* As long as nobody moves the mission on under somebody else's copy, it walks
\* the chain: one stage at a time, never back, each work stage with its
\* artifact verified while the mission stands there, the last step by the
\* owner, and COMPLETED for good.  Without the hypothesis a stale save takes
\* the mission back (saveActiveMissionDB overwrites the whole row).
THEOREM ChainRefinement == Spec /\ [][MovesApart]_vars => ImplementsChain
<1>1. Init => Chain!Init /\ Fresh
      BY ConstantTypes, LabelFacts DEF Init, Chain!Init, Fresh
<1>2. IInv /\ Fresh /\ [Next]_vars /\ [MovesApart]_vars
        => Fresh' /\ [Chain!Next]_<<mission.stage, proven, approved>>
      BY ChainStep
<1> QED BY Invariance, <1>1, <1>2, PTL DEF Spec, ImplementsChain, Chain!Spec
=============================================================================
