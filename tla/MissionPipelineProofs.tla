------------------------ MODULE MissionPipelineProofs ------------------------
(***************************************************************************)
(* Proofs about the mission pipeline, for any number of invocations,       *)
(* stages, requests, database errors and killed invocations: its types,    *)
(* the owner's gate before the CEO's stage, and what StagedDelivery says   *)
(* of stages and reports; and, as long as invocations do not overlap and   *)
(* no database call has failed, that approved stages are kept, retries     *)
(* stay within their budget, failures are re-run once, and a mission shown *)
(* as completed has had its CEO's stage.                                   *)
(***************************************************************************)
EXTENDS MissionPipeline, TLAPS

USE StageAssumption, FlagAssumption, BudgetAssumption, BoundAssumption, NoneAssumption

-----------------------------------------------------------------------------
(* The inductive invariant: what the stored rows say, and what each         *)
(* invocation has to know at its program counter                            *)

Approval == <<"owner_approved", 0>>

\* Calls of a run between its reaching a stage and its leaving it, the gate aside
InStage == {"append", "write", "leader", "ceo", "build", "saveStage", "report"}
AtGate == {"gate", "granted", "denied"}

\* An approval in the log, and a CEO's stage that has run, had the owner's consent;
\* a stage that the log calls approved has delivered.
StoreOK ==
    /\ Approval \in log => consent
    /\ Gated /\ (CeoStage \in finished \/ reports) => consent
    /\ \A s \in 1 .. TeamStages : <<"approved", s>> \in log => s \in finished

\* What an invocation has read from the log, or is to add to it, is no less true.
ReadOK(w) ==
    /\ Approval \in seen[w] \/ entry[w] = Approval => consent
    /\ pc[w] = "granted" \/ SkipsGate(w) \/ pc[w] = "resume" => consent
    /\ \A s \in 1 .. TeamStages :
          \/ <<"approved", s>> \in seen[w]
          \/ entry[w] = <<"approved", s>>
          \/ s \in done[w]
          => s \in finished

\* The entry that announces a stage names the stage the run is at; an idle
\* worker is at none.
StageOK(w) ==
    /\ \/ pc[w] \in {"leader", "ceo"}
       \/ pc[w] \in {"append", "write"} /\ entry[w][1] = "started"
       => entry[w] = <<"started", stage[w]>>
    /\ pc[w] = "leader" => stage[w] # CeoStage
    /\ pc[w] \in {"ceo", "report"} \cup AtGate => stage[w] = CeoStage
    /\ pc[w] = "idle" => stage[w] = 1

\* A run at the CEO's stage of a gated mission, past the gate, has consent.
GateOK(w) == Gated /\ stage[w] = CeoStage /\ pc[w] \in InStage => consent

\* The stages before that of a run have delivered, and its own once it is logged.
OrderOK(w) ==
    /\ pc[w] \in InStage \cup AtGate => \A s \in 1 .. stage[w] - 1 : s \in finished
    /\ \/ pc[w] \in {"build", "saveStage"}
       \/ /\ pc[w] \in {"append", "write"}
          /\ entry[w][1] \in {"approved", "escalated", "submitted"}
       => stage[w] \in finished

WorkerOK(w) == ReadOK(w) /\ StageOK(w) /\ GateOK(w) /\ OrderOK(w)

IInv == TypeOK /\ StoreOK /\ \A w \in Worker : WorkerOK(w)

\* The invariant's types, of the invocations and of the rest
LocalType ==
    /\ pc \in [Worker -> Label] /\ stage \in [Worker -> StageNo] /\ lane \in [Worker -> Lane]
    /\ done \in [Worker -> SUBSET (1 .. TeamStages)] /\ entry \in [Worker -> Entry]
    /\ seen \in [Worker -> SUBSET Entry] /\ draft \in [Worker -> Heartbeat]

RestType ==
    /\ log \subseteq Entry /\ hb \in Heartbeat /\ lease \in Worker \cup {NoWorker, Orphan}
    /\ requests \in 0 .. MaxRequests /\ errors \in 0 .. MaxErrors /\ deaths \in 0 .. MaxDeaths
    /\ consent \in BOOLEAN /\ reports \in BOOLEAN /\ served \in BOOLEAN
    /\ decision \in {"none", "approve", "reject"}
    /\ finished \subseteq StageNo /\ retries \in 0 .. MaxAutoRetries + 1

\* A step of w leaves the other workers alone.
Alone(w) ==
    \A v \in Worker \ {w} :
        /\ pc'[v] = pc[v] /\ stage'[v] = stage[v] /\ lane'[v] = lane[v]
        /\ done'[v] = done[v] /\ entry'[v] = entry[v] /\ seen'[v] = seen[v]

\* Consent and the stages that have delivered only grow.
Grown == (consent => consent') /\ finished \subseteq finished'

Good(w) == LocalType' /\ RestType' /\ StoreOK' /\ WorkerOK(w)' /\ Alone(w) /\ Grown

-----------------------------------------------------------------------------
(* Helpers *)

\* Stage numbers and the flags as the provers need them.
LEMMA StageFacts == /\ TeamStages \in Nat /\ CeoStage \in Nat /\ CeoStage > 1
                    /\ CeoStage \in StageNo /\ 1 \in StageNo
                    /\ \A s \in StageNo : s # CeoStage => s \in 1 .. TeamStages
                    /\ \A s \in 1 .. TeamStages : s \in StageNo
  BY DEF CeoStage, StageNo

\* The entries the code appends.
LEMMA EntryFacts ==
    /\ \A s \in StageNo : \A a \in {"started", "approved", "escalated", "crashed", "submitted"} :
          <<a, s>> \in Entry
    /\ Approval \in Entry /\ <<"owner_rejected", 0>> \in Entry /\ NoEntry \in Entry
    /\ <<"completed", 0>> \in Entry
    /\ \A e \in Entry : /\ e[1] = "owner_approved" => e = Approval
                        /\ e[1] \in {"started", "approved", "escalated", "crashed", "submitted",
                                     "owner_approved", "owner_rejected", "completed"}
                        /\ e = <<e[1], e[2]>>
  BY StageFacts DEF Entry, Approval, NoEntry

\* The types of what a worker carries and those of the rest are TypeOK.
LEMMA TypeSplit == TypeOK <=> LocalType /\ RestType
  BY DEF TypeOK, LocalType, RestType

-----------------------------------------------------------------------------
(* What each way to go on does to the invocation *)

\* To another call, with nothing else changed
LEMMA GotoIs ==
    ASSUME LocalType, NEW w \in Worker, NEW label \in Label, Goto(w, label)
    PROVE  /\ LocalType' /\ Alone(w) /\ pc'[w] = label
           /\ stage'[w] = stage[w] /\ lane'[w] = lane[w] /\ done'[w] = done[w]
           /\ entry'[w] = entry[w] /\ seen'[w] = seen[w]
  BY DEF LocalType, Alone, Goto, Become, locals

\* Into a run
LEMMA LaunchIs ==
    ASSUME LocalType, NEW w \in Worker, NEW in \in Lane, Launch(w, in)
    PROVE  /\ LocalType' /\ Alone(w) /\ pc'[w] = "loadPrior" /\ lane'[w] = in
           /\ stage'[w] = stage[w] /\ done'[w] = done[w]
           /\ entry'[w] = entry[w] /\ seen'[w] = seen[w]
  BY DEF LocalType, Alone, Launch, Become, Label

\* To an entry of the log
LEMMA AppendIs ==
    ASSUME LocalType, NEW w \in Worker, NEW e \in Entry, Append(w, e)
    PROVE  /\ LocalType' /\ Alone(w) /\ pc'[w] = "append" /\ entry'[w] = e
           /\ stage'[w] = stage[w] /\ lane'[w] = lane[w] /\ done'[w] = done[w]
           /\ seen'[w] = seen[w]
  BY DEF LocalType, Alone, Append, Become, Label

\* To the saving of a heartbeat
LEMMA PrepareIs ==
    ASSUME LocalType, NEW w \in Worker, NEW label \in Label, NEW status, NEW retryable, NEW count,
           [status |-> status, retryable |-> retryable, count |-> count] \in Heartbeat,
           Prepare(w, label, status, retryable, count)
    PROVE  /\ LocalType' /\ Alone(w) /\ pc'[w] = label
           /\ stage'[w] = stage[w] /\ lane'[w] = lane[w] /\ done'[w] = done[w]
           /\ entry'[w] = entry[w] /\ seen'[w] = seen[w]
  BY DEF LocalType, Alone, Prepare, Become

\* To another stage
LEMMA EnterIs ==
    ASSUME LocalType, NEW w \in Worker, NEW s \in StageNo, NEW c \in SUBSET (1 .. TeamStages),
           Enter(w, s, c)
    PROVE  /\ LocalType' /\ Alone(w)
           /\ pc'[w] = IF s = CeoStage /\ Gated /\ ~SkipsGate(w) THEN "gate" ELSE "append"
           /\ stage'[w] = s /\ lane'[w] = lane[w] /\ done'[w] = c
           /\ entry'[w] = <<"started", s>> /\ seen'[w] = seen[w]
  <1>1. <<"started", s>> \in Entry
    BY EntryFacts
  <1> QED BY <1>1 DEF LocalType, Alone, Enter, Become, Label

\* Out of the invocation
LEMMA LeaveIs ==
    ASSUME LocalType, NEW w \in Worker, NEW label \in Label, NEW in \in Lane, Leave(w, label, in)
    PROVE  /\ LocalType' /\ Alone(w) /\ pc'[w] = label /\ lane'[w] = in /\ stage'[w] = 1
           /\ done'[w] = {} /\ entry'[w] = NoEntry /\ seen'[w] = {}
  <1>1. NoEntry \in Entry /\ NoHeartbeat \in Heartbeat /\ 1 \in StageNo
    BY EntryFacts, StageFacts DEF NoHeartbeat, Heartbeat
  <1> QED BY <1>1 DEF LocalType, Alone, Leave, Become

-----------------------------------------------------------------------------
(* What an invocation has to know after that *)

\* Outside the stages and the gate there is nothing to know about the stage.
Quiet == Label \ (InStage \cup AtGate)

\* At a call outside the stages and the gate a worker has nothing to know there.
LEMMA QuietOK ==
    ASSUME NEW w \in Worker, pc'[w] \in Quiet, pc'[w] = "idle" => stage'[w] = 1
    PROVE  StageOK(w)' /\ GateOK(w)' /\ OrderOK(w)'
  BY DEF Quiet, InStage, AtGate, StageOK, GateOK, OrderOK

\* What was read stays true.
LEMMA ReadKept ==
    ASSUME NEW w \in Worker, ReadOK(w), Grown,
           seen'[w] = seen[w], entry'[w] = entry[w], done'[w] = done[w], lane'[w] = lane[w],
           pc'[w] \notin {"granted", "resume"}
    PROVE  ReadOK(w)'
  BY DEF ReadOK, Grown, SkipsGate

\* An invocation that is left knows nothing.
LEMMA LeaveGood ==
    ASSUME LocalType, NEW w \in Worker, NEW label \in {"idle", "releaseRead"},
           NEW in \in {"none", "sweep"}, Leave(w, label, in)
    PROVE  LocalType' /\ Alone(w) /\ WorkerOK(w)'
  <1>1. label \in Label /\ in \in Lane /\ label \in Quiet
    BY DEF Label, Lane, Quiet, InStage, AtGate
  <1>2. /\ LocalType' /\ Alone(w) /\ pc'[w] = label /\ lane'[w] = in /\ stage'[w] = 1
        /\ done'[w] = {} /\ entry'[w] = NoEntry /\ seen'[w] = {}
    BY <1>1, LeaveIs
  <1>3. ReadOK(w)'
    BY <1>2 DEF ReadOK, SkipsGate, NoEntry, Approval
  <1> QED BY <1>1, <1>2, <1>3, QuietOK DEF WorkerOK

\* An invocation that returns leaves a worker that knows what it has to.
LEMMA EndGood ==
    ASSUME LocalType, NEW w \in Worker, End(w)
    PROVE  LocalType' /\ Alone(w) /\ WorkerOK(w)'
  BY LeaveGood DEF End

-----------------------------------------------------------------------------
(* The actions *)

\* A database call that fails is counted within its bound.
LEMMA CallType == ASSUME NEW ok \in BOOLEAN, errors \in 0 .. MaxErrors, Call(ok)
                  PROVE  errors' \in 0 .. MaxErrors
  BY DEF Call

\* So is a retry within its own.
LEMMA BumpType == ASSUME NEW n \in 0 .. MaxAutoRetries + 1
                  PROVE  Bump(n) \in 0 .. MaxAutoRetries + 1
  BY DEF Bump

\* A heartbeat made of its parts is one.
LEMMA BeatType ==
    ASSUME NEW status \in {"none", "working", "paused", "failed", "completed"},
           NEW retryable \in BOOLEAN, NEW count \in 0 .. MaxAutoRetries + 1
    PROVE  [status |-> status, retryable |-> retryable, count |-> count] \in Heartbeat
  BY DEF Heartbeat

\* The parts of the stored heartbeat.
LEMMA HbType ==
    ASSUME RestType
    PROVE  hb.status \in {"none", "working", "paused", "failed", "completed"}
           /\ hb.retryable \in BOOLEAN /\ hb.count \in 0 .. MaxAutoRetries + 1
  BY DEF RestType, Heartbeat

\* A step that ends the invocation, or leads it to a quiet call with nothing read,
\* keeps what it knows.
LEMMA QuietGood ==
    ASSUME NEW w \in Worker, WorkerOK(w), Grown, pc'[w] \in Quiet \ {"resume", "idle"},
           seen'[w] = seen[w], entry'[w] = entry[w], done'[w] = done[w], lane'[w] = lane[w]
    PROVE  WorkerOK(w)'
  <1>1. ReadOK(w)'
    BY ReadKept DEF WorkerOK, Quiet, AtGate
  <1> QED BY <1>1, QuietOK DEF WorkerOK

\* The store's part of the invariant, when the step leaves log and reports alone.
LEMMA StoreKept ==
    ASSUME StoreOK, Grown, UNCHANGED <<log, reports>>, finished' = finished
    PROVE  StoreOK'
  BY DEF StoreOK, Grown

\* The parts of the invariant that the step of one worker uses.
LEMMA InvSplit ==
    ASSUME IInv, NEW w \in Worker
    PROVE  LocalType /\ RestType /\ StoreOK /\ WorkerOK(w)
           /\ pc[w] \in Label /\ stage[w] \in StageNo /\ lane[w] \in Lane
           /\ done[w] \in SUBSET (1 .. TeamStages) /\ entry[w] \in Entry
           /\ seen[w] \in SUBSET Entry /\ draft[w] \in Heartbeat
  BY TypeSplit DEF IInv, LocalType

\* A sweep that lists the mission knows nothing yet.
LEMMA SweepGood == ASSUME IInv, NEW w \in Worker, Sweep(w) PROVE Good(w)
  <1>0. LocalType /\ RestType /\ StoreOK /\ WorkerOK(w)
    BY InvSplit
  <1>1. RestType'
    BY <1>0, CallType, BumpType, InvSplit DEF RestType, store, bounds, history, Sweep
  <1>2. Grown /\ UNCHANGED <<log, reports, finished>>
    BY DEF Grown, store, history, Sweep
  <1>3. StoreOK'
    BY <1>0, <1>2, StoreKept
  <1>4. LocalType' /\ Alone(w) /\ WorkerOK(w)'
    <2>1. "leaseRead" \in Label /\ "leaseRead" \in Quiet \ {"resume", "idle"}
      BY DEF Label, Quiet, InStage, AtGate
    <2>2. CASE Goto(w, "leaseRead")
      BY <1>0, <1>2, <2>1, <2>2, GotoIs, QuietGood
    <2> QED BY <2>2 DEF Sweep
  <1> QED BY <1>1, <1>2, <1>3, <1>4 DEF Good

\* The lookup of the lease changes the label only.
LEMMA LeaseReadGood == ASSUME IInv, NEW w \in Worker, LeaseRead(w) PROVE Good(w)
  <1>0. LocalType /\ RestType /\ StoreOK /\ WorkerOK(w)
    BY InvSplit
  <1>1. RestType'
    BY <1>0, CallType, BumpType, InvSplit DEF RestType, store, bounds, history, LeaseRead
  <1>2. Grown /\ UNCHANGED <<log, reports, finished>>
    BY DEF Grown, store, history, LeaseRead
  <1>3. StoreOK'
    BY <1>0, <1>2, StoreKept
  <1>4. LocalType' /\ Alone(w) /\ WorkerOK(w)'
    <2>1. "leaseWrite" \in Label /\ "leaseWrite" \in Quiet \ {"resume", "idle"}
      BY DEF Label, Quiet, InStage, AtGate
    <2>2. CASE Goto(w, "leaseWrite")
      BY <1>0, <1>2, <2>1, <2>2, GotoIs, QuietGood
    <2>3. CASE End(w)
      BY <1>0, <2>3, EndGood
    <2> QED BY <2>2, <2>3 DEF LeaseRead
  <1> QED BY <1>1, <1>2, <1>3, <1>4 DEF Good

\* The write of the lease changes no log.
LEMMA LeaseWriteGood == ASSUME IInv, NEW w \in Worker, LeaseWrite(w) PROVE Good(w)
  <1>0. LocalType /\ RestType /\ StoreOK /\ WorkerOK(w)
    BY InvSplit
  <1>1. RestType'
    BY <1>0, CallType, BumpType, InvSplit DEF RestType, store, bounds, history, LeaseWrite
  <1>2. Grown /\ UNCHANGED <<log, reports, finished>>
    BY DEF Grown, store, history, LeaseWrite
  <1>3. StoreOK'
    BY <1>0, <1>2, StoreKept
  <1>4. LocalType' /\ Alone(w) /\ WorkerOK(w)'
    <2>1. "leaseConfirm" \in Label /\ "leaseConfirm" \in Quiet \ {"resume", "idle"}
      BY DEF Label, Quiet, InStage, AtGate
    <2>2. CASE Goto(w, "leaseConfirm")
      BY <1>0, <1>2, <2>1, <2>2, GotoIs, QuietGood
    <2> QED BY <2>2 DEF LeaseWrite
  <1> QED BY <1>1, <1>2, <1>3, <1>4 DEF Good

\* A run that waits for the owner saves the heartbeat and returns.
LEMMA PauseGood == ASSUME IInv, NEW w \in Worker, Pause(w) PROVE Good(w)
  <1>0. LocalType /\ RestType /\ StoreOK /\ WorkerOK(w)
    BY InvSplit
  <1>1. RestType'
    BY <1>0, CallType, BumpType, InvSplit DEF RestType, store, bounds, history, Pause, Restate
  <1>2. Grown /\ UNCHANGED <<log, reports, finished>>
    BY DEF Grown, store, history, Pause, Restate
  <1>3. StoreOK'
    BY <1>0, <1>2, StoreKept
  <1>4. LocalType' /\ Alone(w) /\ WorkerOK(w)'
    <2>1. "saveLast" \in Label /\ "saveLast" \in Quiet \ {"resume", "idle"}
      BY DEF Label, Quiet, InStage, AtGate
    <2>2. CASE Prepare(w, "saveLast", "paused", hb.retryable, hb.count)
      <3>1. [status |-> "paused", retryable |-> hb.retryable, count |-> hb.count] \in Heartbeat
        BY <1>0, HbType, BeatType
      <3> QED BY <1>0, <1>2, <2>1, <2>2, <3>1, PrepareIs, QuietGood
    <2>3. CASE End(w)
      BY <1>0, <2>3, EndGood
    <2> QED BY <2>2, <2>3 DEF Pause, Restate
  <1> QED BY <1>1, <1>2, <1>3, <1>4 DEF Good

\* A rejection saves the heartbeat and returns.
LEMMA RejectLoadGood == ASSUME IInv, NEW w \in Worker, RejectLoad(w) PROVE Good(w)
  <1>0. LocalType /\ RestType /\ StoreOK /\ WorkerOK(w)
    BY InvSplit
  <1>1. RestType'
    BY <1>0, CallType, BumpType, InvSplit DEF RestType, store, bounds, history, RejectLoad,
        Restate
  <1>2. Grown /\ UNCHANGED <<log, reports, finished>>
    BY DEF Grown, store, history, RejectLoad, Restate
  <1>3. StoreOK'
    BY <1>0, <1>2, StoreKept
  <1>4. LocalType' /\ Alone(w) /\ WorkerOK(w)'
    <2>1. "saveLast" \in Label /\ "saveLast" \in Quiet \ {"resume", "idle"}
      BY DEF Label, Quiet, InStage, AtGate
    <2>2. CASE Prepare(w, "saveLast", "failed", hb.retryable, hb.count)
      <3>1. [status |-> "failed", retryable |-> hb.retryable, count |-> hb.count] \in Heartbeat
        BY <1>0, HbType, BeatType
      <3> QED BY <1>0, <1>2, <2>1, <2>2, <3>1, PrepareIs, QuietGood
    <2>3. CASE End(w)
      BY <1>0, <2>3, EndGood
    <2> QED BY <2>2, <2>3 DEF RejectLoad, Restate
  <1> QED BY <1>1, <1>2, <1>3, <1>4 DEF Good

\* The first call of a run reads the heartbeat only.
LEMMA LoadPriorGood == ASSUME IInv, NEW w \in Worker, LoadPrior(w) PROVE Good(w)
  <1>0. LocalType /\ RestType /\ StoreOK /\ WorkerOK(w)
    BY InvSplit
  <1>1. RestType'
    BY <1>0, CallType, BumpType, InvSplit DEF RestType, store, bounds, history, LoadPrior
  <1>2. Grown /\ UNCHANGED <<log, reports, finished>>
    BY DEF Grown, store, history, LoadPrior
  <1>3. StoreOK'
    BY <1>0, <1>2, StoreKept
  <1>4. LocalType' /\ Alone(w) /\ WorkerOK(w)'
    <2>1. "saveInitial" \in Label /\ "saveInitial" \in Quiet \ {"resume", "idle"}
      BY DEF Label, Quiet, InStage, AtGate
    <2>2. PICK ok \in BOOLEAN :
             Prepare(w, "saveInitial", "working", FALSE, IF ok THEN hb.count ELSE 0)
      BY DEF LoadPrior
    <2> DEFINE count == IF ok THEN hb.count ELSE 0
    <2>4. count \in 0 .. MaxAutoRetries + 1
      BY <1>0, HbType
    <2> HIDE DEF count
    <2>3. [status |-> "working", retryable |-> FALSE, count |-> count] \in Heartbeat
      BY <2>4, BeatType
    <2>5. Prepare(w, "saveInitial", "working", FALSE, count)
      BY <2>2 DEF count
    <2> QED BY <1>0, <1>2, <2>1, <2>5, <2>3, PrepareIs, QuietGood
  <1> QED BY <1>1, <1>2, <1>3, <1>4 DEF Good

\* A crashed run saves the heartbeat and returns.
LEMMA FailLoadGood == ASSUME IInv, NEW w \in Worker, FailLoad(w) PROVE Good(w)
  <1>0. LocalType /\ RestType /\ StoreOK /\ WorkerOK(w)
    BY InvSplit
  <1>1. RestType'
    BY <1>0, CallType, BumpType, InvSplit DEF RestType, store, bounds, history, FailLoad
  <1>2. Grown /\ UNCHANGED <<log, reports, finished>>
    BY DEF Grown, store, history, FailLoad
  <1>3. StoreOK'
    BY <1>0, <1>2, StoreKept
  <1>4. LocalType' /\ Alone(w) /\ WorkerOK(w)'
    <2>1. "saveLast" \in Label /\ "saveLast" \in Quiet \ {"resume", "idle"}
      BY DEF Label, Quiet, InStage, AtGate
    <2> DEFINE prior(ok) == IF ok THEN hb.count ELSE 0
               count(ok, again) == IF again THEN Bump(prior(ok)) ELSE prior(ok)
               due(ok, again) == again /\ count(ok, again) <= MaxAutoRetries
    <2>2. PICK ok \in BOOLEAN, again \in BOOLEAN :
             Prepare(w, "saveLast", "failed", due(ok, again), count(ok, again))
      BY DEF FailLoad
    <2>3. prior(ok) \in 0 .. MaxAutoRetries + 1
      BY <1>0, HbType
    <2>4. count(ok, again) \in 0 .. MaxAutoRetries + 1
      BY <2>3, BumpType
    <2>5. due(ok, again) \in BOOLEAN
      OBVIOUS
    <2> HIDE DEF prior, count, due
    <2>6. [status |-> "failed", retryable |-> due(ok, again), count |-> count(ok, again)]
             \in Heartbeat
      BY <2>4, <2>5, BeatType
    <2> QED BY <1>0, <1>2, <2>1, <2>2, <2>6, PrepareIs, QuietGood
  <1> QED BY <1>1, <1>2, <1>3, <1>4 DEF Good

\* The initial heartbeat is no part of what is known of the log.
LEMMA SaveInitialGood == ASSUME IInv, NEW w \in Worker, SaveInitial(w) PROVE Good(w)
  <1>0. LocalType /\ RestType /\ StoreOK /\ WorkerOK(w)
    BY InvSplit
  <1>1. RestType'
    BY <1>0, CallType, BumpType, InvSplit DEF RestType, store, bounds, history, SaveInitial,
        Save
  <1>2. Grown /\ UNCHANGED <<log, reports, finished>>
    BY DEF Grown, store, history, SaveInitial, Save
  <1>3. StoreOK'
    BY <1>0, <1>2, StoreKept
  <1>4. LocalType' /\ Alone(w) /\ WorkerOK(w)'
    <2>1. "snapshot" \in Label /\ "snapshot" \in Quiet \ {"resume", "idle"}
      BY DEF Label, Quiet, InStage, AtGate
    <2> QED BY <1>0, <1>2, <2>1, GotoIs, QuietGood DEF SaveInitial
  <1> QED BY <1>1, <1>2, <1>3, <1>4 DEF Good

\* After its last heartbeat a run returns.
LEMMA SaveLastGood == ASSUME IInv, NEW w \in Worker, SaveLast(w) PROVE Good(w)
  <1>0. LocalType /\ RestType /\ StoreOK /\ WorkerOK(w)
    BY InvSplit
  <1>1. RestType'
    BY <1>0, CallType, BumpType, InvSplit DEF RestType, store, bounds, history, SaveLast, Save
  <1>2. Grown /\ UNCHANGED <<log, reports, finished>>
    BY DEF Grown, store, history, SaveLast, Save
  <1>3. StoreOK'
    BY <1>0, <1>2, StoreKept
  <1>4. LocalType' /\ Alone(w) /\ WorkerOK(w)'
    BY <1>0, EndGood DEF SaveLast
  <1> QED BY <1>1, <1>2, <1>3, <1>4 DEF Good

\* The lookup that precedes the release changes no log.
LEMMA ReleaseReadGood == ASSUME IInv, NEW w \in Worker, ReleaseRead(w) PROVE Good(w)
  <1>0. LocalType /\ RestType /\ StoreOK /\ WorkerOK(w)
    BY InvSplit
  <1>1. RestType'
    BY <1>0, CallType, BumpType, InvSplit DEF RestType, store, bounds, history, ReleaseRead
  <1>2. Grown /\ UNCHANGED <<log, reports, finished>>
    BY DEF Grown, store, history, ReleaseRead
  <1>3. StoreOK'
    BY <1>0, <1>2, StoreKept
  <1>4. LocalType' /\ Alone(w) /\ WorkerOK(w)'
    <2>1. "releaseDelete" \in Label /\ "releaseDelete" \in Quiet \ {"resume", "idle"}
      BY DEF Label, Quiet, InStage, AtGate
    <2>2. CASE Goto(w, "releaseDelete")
      BY <1>0, <1>2, <2>1, <2>2, GotoIs, QuietGood
    <2>3. CASE Leave(w, "idle", "none")
      BY <1>0, <2>3, LeaveGood
    <2> QED BY <2>2, <2>3 DEF ReleaseRead
  <1> QED BY <1>1, <1>2, <1>3, <1>4 DEF Good

\* The release leaves an idle worker.
LEMMA ReleaseDeleteGood == ASSUME IInv, NEW w \in Worker, ReleaseDelete(w) PROVE Good(w)
  <1>0. LocalType /\ RestType /\ StoreOK /\ WorkerOK(w)
    BY InvSplit
  <1>1. RestType'
    BY <1>0, CallType, BumpType, InvSplit DEF RestType, store, bounds, history, ReleaseDelete
  <1>2. Grown /\ UNCHANGED <<log, reports, finished>>
    BY DEF Grown, store, history, ReleaseDelete
  <1>3. StoreOK'
    BY <1>0, <1>2, StoreKept
  <1>4. LocalType' /\ Alone(w) /\ WorkerOK(w)'
    BY <1>0, LeaveGood DEF ReleaseDelete
  <1> QED BY <1>1, <1>2, <1>3, <1>4 DEF Good

\* A killed invocation leaves an idle worker, and the log as it is.
LEMMA DieGood == ASSUME IInv, NEW w \in Worker, Die(w) PROVE Good(w)
  <1>0. LocalType /\ RestType /\ StoreOK /\ WorkerOK(w)
    BY InvSplit
  <1>1. RestType'
    BY <1>0, CallType, BumpType, InvSplit DEF RestType, store, bounds, history, Die
  <1>2. Grown /\ UNCHANGED <<log, reports, finished>>
    BY DEF Grown, store, history, Die
  <1>3. StoreOK'
    BY <1>0, <1>2, StoreKept
  <1>4. LocalType' /\ Alone(w) /\ WorkerOK(w)'
    BY <1>0, LeaveGood DEF Die
  <1> QED BY <1>1, <1>2, <1>3, <1>4 DEF Good

-----------------------------------------------------------------------------
(* The actions of a run inside the stages and at the gate *)

\* What was read stays true, and what is newly to be added is true as well.
LEMMA ReadGrown ==
    ASSUME NEW w \in Worker, ReadOK(w), Grown, seen'[w] = seen[w], done'[w] = done[w],
           entry'[w] = Approval => consent',
           \A s \in 1 .. TeamStages : entry'[w] = <<"approved", s>> => s \in finished',
           pc'[w] = "granted" \/ SkipsGate(w)' \/ pc'[w] = "resume" => consent'
    PROVE  ReadOK(w)'
  BY DEF ReadOK, Grown

\* An operator's skip is consent; without it the run is at no stage yet.
LEMMA StartGood == ASSUME IInv, NEW w \in Worker, Start(w) PROVE Good(w)
  <1>0. LocalType /\ RestType /\ StoreOK /\ WorkerOK(w)
    BY InvSplit
  <1>1. RestType'
    BY <1>0 DEF RestType, store, Start
  <1>2. Grown /\ UNCHANGED <<log, reports, finished>>
    BY DEF Grown, store, Start
  <1>3. StoreOK'
    BY <1>0, <1>2, StoreKept
  <1>4. PICK skip \in BOOLEAN : /\ Launch(w, IF skip THEN "skip" ELSE "start")
                                /\ consent' = (consent \/ skip)
    BY DEF Start
  <1>5. (IF skip THEN "skip" ELSE "start") \in Lane
    BY DEF Lane
  <1>6. /\ LocalType' /\ Alone(w) /\ pc'[w] = "loadPrior"
        /\ lane'[w] = IF skip THEN "skip" ELSE "start"
        /\ done'[w] = done[w] /\ entry'[w] = entry[w] /\ seen'[w] = seen[w]
    BY <1>0, <1>4, <1>5, LaunchIs
  <1>7. ReadOK(w)'
    BY <1>0, <1>2, <1>4, <1>6 DEF WorkerOK, ReadOK, Grown, SkipsGate
  <1>8. pc'[w] \in Quiet /\ pc'[w] # "idle"
    BY <1>6 DEF Quiet, Label, InStage, AtGate
  <1> QED BY <1>1, <1>2, <1>3, <1>6, <1>7, <1>8, QuietOK DEF Good, WorkerOK

\* A decision is consent, or is no approval; the worker is at no stage.
LEMMA DecideGood ==
    ASSUME IInv, NEW w \in Worker, OwnerApproves(w) \/ OwnerRejects(w) PROVE Good(w)
  <1>0. LocalType /\ RestType /\ StoreOK /\ WorkerOK(w)
    BY InvSplit
  <1>1. RestType'
    <2>1. CASE OwnerApproves(w)
      BY <1>0, <2>1 DEF RestType, store, OwnerApproves
    <2>2. CASE OwnerRejects(w)
      BY <1>0, <2>2 DEF RestType, store, OwnerRejects
    <2> QED BY <2>1, <2>2
  <1>2. Grown /\ UNCHANGED <<log, reports, finished>>
    BY DEF Grown, store, OwnerApproves, OwnerRejects
  <1>3. StoreOK'
    BY <1>0, <1>2, StoreKept
  <1>4. PICK e \in {Approval, <<"owner_rejected", 0>>} :
           Append(w, e) /\ (e = Approval => consent')
    BY DEF OwnerApproves, OwnerRejects, Approval
  <1>5. /\ LocalType' /\ Alone(w) /\ pc'[w] = "append" /\ entry'[w] = e
        /\ stage'[w] = stage[w] /\ lane'[w] = lane[w] /\ done'[w] = done[w]
        /\ seen'[w] = seen[w]
    BY <1>0, <1>4, EntryFacts, AppendIs
  <1>6. stage'[w] = 1
    BY <1>0, <1>5 DEF WorkerOK, StageOK, OwnerApproves, OwnerRejects, At
  <1>7. ReadOK(w)'
    BY <1>0, <1>2, <1>4, <1>5 DEF WorkerOK, ReadOK, Grown, SkipsGate, Approval
  <1>8. StageOK(w)' /\ GateOK(w)' /\ OrderOK(w)'
    BY <1>4, <1>5, <1>6, StageFacts
    DEF StageOK, GateOK, OrderOK, Approval, AtGate
  <1> QED BY <1>1, <1>2, <1>3, <1>5, <1>7, <1>8 DEF Good, WorkerOK

\* A sweep that has the lease runs the pipeline without a skip.
LEMMA LeaseConfirmGood == ASSUME IInv, NEW w \in Worker, LeaseConfirm(w) PROVE Good(w)
  <1>0. LocalType /\ RestType /\ StoreOK /\ WorkerOK(w)
    BY InvSplit
  <1>1. RestType'
    BY <1>0, CallType DEF RestType, history, LeaseConfirm
  <1>2. Grown /\ UNCHANGED <<log, reports, finished>>
    BY DEF Grown, history, LeaseConfirm
  <1>3. StoreOK'
    BY <1>0, <1>2, StoreKept
  <1>4. CASE Launch(w, "sweep")
    <2>1. /\ LocalType' /\ Alone(w) /\ pc'[w] = "loadPrior" /\ lane'[w] = "sweep"
          /\ done'[w] = done[w] /\ entry'[w] = entry[w] /\ seen'[w] = seen[w]
      BY <1>0, <1>4, LaunchIs DEF Lane
    <2>2. ReadOK(w)'
      BY <1>0, <1>2, <2>1 DEF WorkerOK, ReadOK, Grown, SkipsGate
    <2>3. pc'[w] \in Quiet /\ pc'[w] # "idle"
      BY <2>1 DEF Quiet, Label, InStage, AtGate
    <2> QED BY <1>1, <1>2, <1>3, <2>1, <2>2, <2>3, QuietOK DEF Good, WorkerOK
  <1>5. CASE End(w)
    BY <1>0, <1>1, <1>2, <1>3, <1>5, EndGood DEF Good
  <1> QED BY <1>4, <1>5 DEF LeaseConfirm

\* Only an approval leads to a resumed run, and to its skip.
LEMMA ResumeGood == ASSUME IInv, NEW w \in Worker, Resume(w) PROVE Good(w)
  <1>0. LocalType /\ RestType /\ StoreOK /\ WorkerOK(w)
    BY InvSplit
  <1>1. RestType'
    BY <1>0, CallType DEF RestType, history, store, Resume
  <1>2. Grown /\ UNCHANGED <<log, reports, finished>>
    BY DEF Grown, history, store, Resume
  <1>3. StoreOK'
    BY <1>0, <1>2, StoreKept
  <1>4. CASE Launch(w, "resume")
    <2>1. /\ LocalType' /\ Alone(w) /\ pc'[w] = "loadPrior" /\ lane'[w] = "resume"
          /\ done'[w] = done[w] /\ entry'[w] = entry[w] /\ seen'[w] = seen[w]
      BY <1>0, <1>4, LaunchIs DEF Lane
    <2>2. ReadOK(w)'
      BY <1>0, <1>2, <2>1 DEF WorkerOK, ReadOK, Grown, SkipsGate, Resume, At
    <2>3. pc'[w] \in Quiet /\ pc'[w] # "idle"
      BY <2>1 DEF Quiet, Label, InStage, AtGate
    <2> QED BY <1>1, <1>2, <1>3, <2>1, <2>2, <2>3, QuietOK DEF Good, WorkerOK
  <1>5. CASE End(w)
    BY <1>0, <1>1, <1>2, <1>3, <1>5, EndGood DEF Good
  <1> QED BY <1>4, <1>5 DEF Resume

\* A run comes to a stage whose predecessors have delivered, and to the CEO's
\* stage only through the gate or with a skip.
LEMMA EnterGood ==
    ASSUME LocalType, NEW w \in Worker, ReadOK(w), Grown,
           NEW s \in StageNo, NEW c \in SUBSET (1 .. TeamStages), Enter(w, s, c),
           c \subseteq finished', \A t \in 1 .. s - 1 : t \in finished'
    PROVE  LocalType' /\ Alone(w) /\ WorkerOK(w)'
  <1>1. /\ LocalType' /\ Alone(w)
        /\ pc'[w] = IF s = CeoStage /\ Gated /\ ~SkipsGate(w) THEN "gate" ELSE "append"
        /\ stage'[w] = s /\ lane'[w] = lane[w] /\ done'[w] = c
        /\ entry'[w] = <<"started", s>> /\ seen'[w] = seen[w]
    BY EnterIs
  <1>2. (pc'[w] = "gate" /\ s = CeoStage) \/ pc'[w] = "append"
    BY <1>1
  <1>3. ReadOK(w)'
    BY <1>1, <1>2 DEF ReadOK, Grown, SkipsGate, Approval
  <1>4. StageOK(w)'
    BY <1>1, <1>2 DEF StageOK, AtGate
  <1>5. GateOK(w)'
    BY <1>1, <1>2 DEF GateOK, ReadOK, Grown, SkipsGate, InStage
  <1>6. OrderOK(w)'
    BY <1>1, <1>2 DEF OrderOK
  <1> QED BY <1>1, <1>3, <1>4, <1>5, <1>6 DEF WorkerOK

\* What the log calls approved has delivered.
LEMMA SnapshotGood == ASSUME IInv, NEW w \in Worker, Snapshot(w) PROVE Good(w)
  <1>0. LocalType /\ RestType /\ StoreOK /\ WorkerOK(w)
    BY InvSplit
  <1>1. RestType'
    BY <1>0, CallType DEF RestType, history, store, Snapshot
  <1>2. Grown /\ UNCHANGED <<log, reports, finished>>
    BY DEF Grown, history, store, Snapshot
  <1>3. StoreOK'
    BY <1>0, <1>2, StoreKept
  <1>4. PICK ok \in BOOLEAN :
           LET approved == {s \in 1 .. TeamStages : ok /\ <<"approved", s>> \in log}
           IN \E s \in StageNo : FirstFrom(s, 1, approved) /\ Enter(w, s, approved)
    BY DEF Snapshot
  <1> DEFINE approved == {s \in 1 .. TeamStages : ok /\ <<"approved", s>> \in log}
  <1>5. PICK s \in StageNo : FirstFrom(s, 1, approved) /\ Enter(w, s, approved)
    BY <1>4
  <1>6. approved \in SUBSET (1 .. TeamStages) /\ approved \subseteq finished'
    BY <1>0, <1>2 DEF StoreOK
  <1>7. \A t \in 1 .. s - 1 : t \in approved
    BY <1>5 DEF FirstFrom
  <1> HIDE DEF approved
  <1>8. LocalType' /\ Alone(w) /\ WorkerOK(w)'
    BY <1>0, <1>2, <1>5, <1>6, <1>7, EnterGood DEF WorkerOK
  <1> QED BY <1>1, <1>2, <1>3, <1>8 DEF Good

\* The run goes on from the gate only with an approval it read in the log.
LEMMA GateApprovalGood == ASSUME IInv, NEW w \in Worker, GateApproval(w) PROVE Good(w)
  <1>0. LocalType /\ RestType /\ StoreOK /\ WorkerOK(w)
    BY InvSplit
  <1>1. RestType'
    BY <1>0, CallType DEF RestType, history, store, GateApproval
  <1>2. Grown /\ UNCHANGED <<log, reports, finished>>
    BY DEF Grown, history, store, GateApproval
  <1>3. StoreOK'
    BY <1>0, <1>2, StoreKept
  <1>4. PICK label \in {"granted", "denied"} :
           Goto(w, label) /\ (label = "granted" => Approval \in log)
    BY DEF GateApproval, Approval
  <1>5. /\ LocalType' /\ Alone(w) /\ pc'[w] = label
        /\ stage'[w] = stage[w] /\ lane'[w] = lane[w] /\ done'[w] = done[w]
        /\ entry'[w] = entry[w] /\ seen'[w] = seen[w]
    BY <1>0, <1>4, GotoIs DEF Label
  <1>6. ReadOK(w)'
    BY <1>0, <1>2, <1>4, <1>5 DEF WorkerOK, ReadOK, Grown, SkipsGate, StoreOK
  <1>7. StageOK(w)' /\ GateOK(w)' /\ OrderOK(w)'
    BY <1>0, <1>2, <1>4, <1>5
    DEF WorkerOK, StageOK, GateOK, OrderOK, AtGate, InStage, GateApproval, At, Grown
  <1> QED BY <1>1, <1>2, <1>3, <1>5, <1>6, <1>7 DEF Good, WorkerOK

\* Behind the gate are runs whose approval was in the log.
LEMMA GateRejectionGood == ASSUME IInv, NEW w \in Worker, GateRejection(w) PROVE Good(w)
  <1>0. LocalType /\ RestType /\ StoreOK /\ WorkerOK(w)
    BY InvSplit
  <1>1. RestType'
    BY <1>0, CallType DEF RestType, history, store, GateRejection
  <1>2. Grown /\ UNCHANGED <<log, reports, finished>>
    BY DEF Grown, history, store, GateRejection
  <1>3. StoreOK'
    BY <1>0, <1>2, StoreKept
  <1>4. CASE pc[w] = "granted" /\ Append(w, <<"started", CeoStage>>)
    <2>1. /\ LocalType' /\ Alone(w) /\ pc'[w] = "append"
          /\ entry'[w] = <<"started", CeoStage>>
          /\ stage'[w] = stage[w] /\ lane'[w] = lane[w] /\ done'[w] = done[w]
          /\ seen'[w] = seen[w]
      BY <1>0, <1>4, StageFacts, EntryFacts, AppendIs
    <2>2. ReadOK(w)'
      BY <1>0, <1>2, <2>1 DEF WorkerOK, ReadOK, Grown, SkipsGate, Approval
    <2>3. StageOK(w)' /\ GateOK(w)' /\ OrderOK(w)'
      BY <1>0, <1>2, <1>4, <2>1
      DEF WorkerOK, StageOK, GateOK, OrderOK, ReadOK, AtGate, InStage, Grown
    <2> QED BY <1>1, <1>2, <1>3, <2>1, <2>2, <2>3 DEF Good, WorkerOK
  <1>5. CASE Goto(w, "pause")
    <2>1. "pause" \in Label /\ "pause" \in Quiet \ {"resume", "idle"}
      BY DEF Label, Quiet, InStage, AtGate
    <2> QED BY <1>0, <1>1, <1>2, <1>3, <1>5, <2>1, GotoIs, QuietGood DEF Good
  <1>6. CASE End(w)
    BY <1>0, <1>1, <1>2, <1>3, <1>6, EndGood DEF Good
  <1> QED BY <1>4, <1>5, <1>6 DEF GateRejection, At

\* Once its entry is in the log, or is lost, a run goes where the entry leads.
LEMMA AppendedGood ==
    ASSUME IInv, NEW w \in Worker, pc[w] \in {"append", "write"}, Appended(w), Grown
    PROVE  LocalType' /\ Alone(w) /\ WorkerOK(w)'
  <1>0. LocalType /\ WorkerOK(w) /\ entry[w] \in Entry
    BY InvSplit
  <1>1. CASE entry[w][1] = "completed"
    BY <1>0, <1>1, EndGood DEF Appended
  <1>2. CASE entry[w][1] = "started"
    <2>1. entry[w][2] = stage[w]
      BY <1>0, <1>2 DEF WorkerOK, StageOK
    <2>2. After(entry[w]) = IF stage[w] = CeoStage THEN "ceo" ELSE "leader"
      BY <1>2, <2>1 DEF After
    <2>3. PICK label \in {"ceo", "leader"} :
             label = After(entry[w]) /\ (label = "ceo" <=> stage[w] = CeoStage)
      BY <2>2
    <2>4. /\ LocalType' /\ Alone(w) /\ pc'[w] = label
          /\ stage'[w] = stage[w] /\ lane'[w] = lane[w] /\ done'[w] = done[w]
          /\ entry'[w] = entry[w] /\ seen'[w] = seen[w]
      BY <1>0, <1>2, <2>3, GotoIs DEF Appended, Label
    <2>5. ReadOK(w)'
      BY <1>0, <2>3, <2>4, ReadKept DEF WorkerOK
    <2>6. StageOK(w)' /\ GateOK(w)' /\ OrderOK(w)'
      BY <1>0, <1>2, <2>3, <2>4
      DEF WorkerOK, StageOK, GateOK, OrderOK, AtGate, InStage, Grown
    <2> QED BY <2>4, <2>5, <2>6 DEF WorkerOK
  <1>3. CASE entry[w][1] \in {"approved", "escalated", "submitted"}
    <2>1. After(entry[w]) = "build"
      BY <1>3 DEF After
    <2>2. /\ LocalType' /\ Alone(w) /\ pc'[w] = "build"
          /\ stage'[w] = stage[w] /\ lane'[w] = lane[w] /\ done'[w] = done[w]
          /\ entry'[w] = entry[w] /\ seen'[w] = seen[w]
      BY <1>0, <1>3, <2>1, GotoIs DEF Appended, Label
    <2>3. ReadOK(w)'
      BY <1>0, <2>2, ReadKept DEF WorkerOK
    <2>4. StageOK(w)' /\ GateOK(w)' /\ OrderOK(w)'
      BY <1>0, <1>3, <2>2
      DEF WorkerOK, StageOK, GateOK, OrderOK, AtGate, InStage, Grown
    <2> QED BY <2>2, <2>3, <2>4 DEF WorkerOK
  <1>4. CASE entry[w][1] = "owner_approved"
    <2>1. After(entry[w]) = "resume" /\ entry[w] = Approval
      BY <1>0, <1>4, EntryFacts DEF After
    <2>2. /\ LocalType' /\ Alone(w) /\ pc'[w] = "resume"
          /\ stage'[w] = stage[w] /\ lane'[w] = lane[w] /\ done'[w] = done[w]
          /\ entry'[w] = entry[w] /\ seen'[w] = seen[w]
      BY <1>0, <1>4, <2>1, GotoIs DEF Appended, Label
    <2>3. ReadOK(w)'
      BY <1>0, <2>1, <2>2 DEF WorkerOK, ReadOK, Grown, SkipsGate
    <2>4. pc'[w] \in Quiet /\ pc'[w] # "idle"
      BY <2>2 DEF Quiet, Label, InStage, AtGate
    <2> QED BY <2>2, <2>3, <2>4, QuietOK DEF WorkerOK
  <1>5. CASE entry[w][1] \in {"crashed", "owner_rejected"}
    <2>1. PICK label \in {"failLoad", "rejectLoad"} : label = After(entry[w])
      BY <1>5 DEF After
    <2>2. label \in Label /\ label \in Quiet \ {"resume", "idle"}
      BY DEF Label, Quiet, InStage, AtGate
    <2>3. Goto(w, label)
      BY <1>5, <2>1 DEF Appended
    <2> QED BY <1>0, <2>2, <2>3, GotoIs, QuietGood
  <1> QED BY <1>0, <1>1, <1>2, <1>3, <1>4, <1>5, EntryFacts

\* What is read from the log is as true as the log.
LEMMA AppendReadGood == ASSUME IInv, NEW w \in Worker, AppendRead(w) PROVE Good(w)
  <1>0. LocalType /\ RestType /\ StoreOK /\ WorkerOK(w)
    BY InvSplit
  <1>1. RestType'
    BY <1>0, CallType DEF RestType, history, store, AppendRead
  <1>2. Grown /\ UNCHANGED <<log, reports, finished>>
    BY DEF Grown, history, store, AppendRead
  <1>3. StoreOK'
    BY <1>0, <1>2, StoreKept
  <1>4. CASE Appended(w)
    BY <1>1, <1>2, <1>3, <1>4, AppendedGood DEF Good, AppendRead, At
  <1>5. CASE /\ Become(w, "write") /\ seen' = [seen EXCEPT ![w] = log]
             /\ UNCHANGED <<stage, lane, done, entry, draft>>
    <2>1. /\ LocalType' /\ Alone(w) /\ pc'[w] = "write"
          /\ stage'[w] = stage[w] /\ lane'[w] = lane[w] /\ done'[w] = done[w]
          /\ entry'[w] = entry[w] /\ seen'[w] = log
      BY <1>0, <1>5 DEF LocalType, RestType, Alone, Become, Label
    <2>2. ReadOK(w)'
      BY <1>0, <1>2, <2>1 DEF WorkerOK, ReadOK, Grown, SkipsGate, StoreOK
    <2>3. StageOK(w)' /\ GateOK(w)' /\ OrderOK(w)'
      BY <1>0, <1>2, <2>1
      DEF WorkerOK, StageOK, GateOK, OrderOK, AtGate, InStage, Grown, AppendRead, At
    <2> QED BY <1>1, <1>2, <1>3, <2>1, <2>2, <2>3 DEF Good, WorkerOK
  <1> QED BY <1>4, <1>5 DEF AppendRead

\* The log that is written back was true when it was read, and still is.
LEMMA AppendWriteGood == ASSUME IInv, NEW w \in Worker, AppendWrite(w) PROVE Good(w)
  <1>0. /\ LocalType /\ RestType /\ StoreOK /\ WorkerOK(w)
        /\ entry[w] \in Entry /\ seen[w] \in SUBSET Entry
    BY InvSplit
  <1>1. log' = log \/ log' = seen[w] \cup {entry[w]}
    BY DEF AppendWrite
  <1>2. RestType'
    BY <1>0, <1>1, CallType DEF RestType, history, AppendWrite
  <1>3. Grown /\ UNCHANGED <<reports, finished, consent>>
    BY DEF Grown, history, AppendWrite
  <1>4. StoreOK'
    BY <1>0, <1>1, <1>3 DEF StoreOK, WorkerOK, ReadOK
  <1>5. LocalType' /\ Alone(w) /\ WorkerOK(w)'
    BY <1>3, AppendedGood DEF AppendWrite, At
  <1> QED BY <1>2, <1>3, <1>4, <1>5 DEF Good

\* What the team delivers it delivers before the log says so.
LEMMA LeaderGood == ASSUME IInv, NEW w \in Worker, Leader(w) PROVE Good(w)
  <1>0. /\ LocalType /\ RestType /\ StoreOK /\ WorkerOK(w) /\ stage[w] \in StageNo
    BY InvSplit
  <1>1. PICK verdict \in {"approved", "escalated", "crashed"} :
           /\ Append(w, <<verdict, stage[w]>>)
           /\ \/ verdict = "crashed" /\ finished' = finished
              \/ verdict # "crashed" /\ finished' = finished \cup {stage[w]}
    <2>1. ASSUME Append(w, <<"crashed", stage[w]>>), UNCHANGED finished
          PROVE  \E verdict \in {"approved", "escalated", "crashed"} :
                    /\ Append(w, <<verdict, stage[w]>>)
                    /\ \/ verdict = "crashed" /\ finished' = finished
                       \/ verdict # "crashed" /\ finished' = finished \cup {stage[w]}
      <3> "crashed" \in {"approved", "escalated", "crashed"}
        OBVIOUS
      <3>1. finished' = finished
        BY <2>1
      <3> QED BY <2>1, <3>1, Zenon
    <2>2. CASE /\ \E verdict \in {"approved", "escalated"} : Append(w, <<verdict, stage[w]>>)
               /\ finished' = finished \cup {stage[w]}
      <3>1. PICK verdict \in {"approved", "escalated"} : Append(w, <<verdict, stage[w]>>)
        BY <2>2
      <3> WITNESS verdict \in {"approved", "escalated", "crashed"}
      <3> QED BY <2>2, <3>1
    <2> QED BY <2>1, <2>2 DEF Leader
  <1>2. RestType'
    BY <1>0, <1>1 DEF RestType, store, bounds, Leader
  <1>3. Grown /\ UNCHANGED <<log, reports, consent>>
    BY <1>1 DEF Grown, store, Leader
  <1>4. stage[w] # CeoStage
    BY <1>0 DEF WorkerOK, StageOK, Leader, At
  <1>5. StoreOK'
    BY <1>0, <1>1, <1>3, <1>4 DEF StoreOK
  <1>6. <<verdict, stage[w]>> \in Entry
    BY <1>0, EntryFacts
  <1>7. /\ LocalType' /\ Alone(w) /\ pc'[w] = "append" /\ entry'[w] = <<verdict, stage[w]>>
        /\ stage'[w] = stage[w] /\ lane'[w] = lane[w] /\ done'[w] = done[w]
        /\ seen'[w] = seen[w]
    BY <1>0, <1>1, <1>6, AppendIs
  <1>8. ReadOK(w)'
    BY <1>0, <1>1, <1>3, <1>7 DEF WorkerOK, ReadOK, Grown, SkipsGate, Approval
  <1>9. StageOK(w)' /\ GateOK(w)' /\ OrderOK(w)'
    BY <1>0, <1>1, <1>3, <1>4, <1>7
    DEF WorkerOK, StageOK, GateOK, OrderOK, AtGate, InStage, Grown, Leader, At
  <1> QED BY <1>2, <1>3, <1>5, <1>7, <1>8, <1>9 DEF Good, WorkerOK

\* The CEO's stage delivers only where the gate was passed.
LEMMA CeoGood == ASSUME IInv, NEW w \in Worker, Ceo(w) PROVE Good(w)
  <1>0. /\ LocalType /\ RestType /\ StoreOK /\ WorkerOK(w)
    BY InvSplit
  <1>1. RestType'
    BY <1>0, StageFacts DEF RestType, store, bounds, Ceo
  <1>2. Grown /\ UNCHANGED <<log, reports, consent>> /\ finished' = finished \cup {CeoStage}
    BY DEF Grown, store, Ceo
  <1>3. stage[w] = CeoStage /\ (Gated => consent)
    BY <1>0 DEF WorkerOK, StageOK, GateOK, InStage, Ceo, At
  <1>4. StoreOK'
    BY <1>0, <1>2, <1>3 DEF StoreOK
  <1>5. /\ LocalType' /\ Alone(w) /\ pc'[w] = "append" /\ entry'[w] = <<"submitted", CeoStage>>
        /\ stage'[w] = stage[w] /\ lane'[w] = lane[w] /\ done'[w] = done[w]
        /\ seen'[w] = seen[w]
    BY <1>0, StageFacts, EntryFacts, AppendIs DEF Ceo
  <1>6. ReadOK(w)'
    BY <1>0, <1>2, <1>5 DEF WorkerOK, ReadOK, Grown, SkipsGate, Approval
  <1>7. StageOK(w)' /\ GateOK(w)' /\ OrderOK(w)'
    BY <1>0, <1>2, <1>3, <1>5
    DEF WorkerOK, StageOK, GateOK, OrderOK, AtGate, InStage, Grown, Ceo, At
  <1> QED BY <1>1, <1>2, <1>4, <1>5, <1>6, <1>7 DEF Good, WorkerOK

\* A stage that is done saves its heartbeat.
LEMMA BuildGood == ASSUME IInv, NEW w \in Worker, Build(w) PROVE Good(w)
  <1>0. LocalType /\ RestType /\ StoreOK /\ WorkerOK(w)
    BY InvSplit
  <1>1. RestType'
    BY <1>0, CallType DEF RestType, history, store, Build
  <1>2. Grown /\ UNCHANGED <<log, reports, finished>>
    BY DEF Grown, history, store, Build
  <1>3. StoreOK'
    BY <1>0, <1>2, StoreKept
  <1>4. PICK status \in {"working", "paused", "completed"} :
           Prepare(w, "saveStage", status, FALSE, 0)
    BY DEF Build, StageStatus, Derived
  <1>5. [status |-> status, retryable |-> FALSE, count |-> 0] \in Heartbeat
    BY DEF Heartbeat
  <1>6. /\ LocalType' /\ Alone(w) /\ pc'[w] = "saveStage"
        /\ stage'[w] = stage[w] /\ lane'[w] = lane[w] /\ done'[w] = done[w]
        /\ entry'[w] = entry[w] /\ seen'[w] = seen[w]
    BY <1>0, <1>4, <1>5, PrepareIs DEF Label
  <1>7. ReadOK(w)'
    BY <1>0, <1>2, <1>6, ReadKept DEF WorkerOK
  <1>8. StageOK(w)' /\ GateOK(w)' /\ OrderOK(w)'
    BY <1>0, <1>2, <1>6
    DEF WorkerOK, StageOK, GateOK, OrderOK, AtGate, InStage, Grown, Build, At
  <1> QED BY <1>1, <1>2, <1>3, <1>6, <1>7, <1>8 DEF Good, WorkerOK

\* The stage a run leaves has delivered, and so has each one it skips.
LEMMA SaveStageGood == ASSUME IInv, NEW w \in Worker, SaveStage(w) PROVE Good(w)
  <1>0. /\ LocalType /\ RestType /\ StoreOK /\ WorkerOK(w)
        /\ stage[w] \in StageNo /\ done[w] \in SUBSET (1 .. TeamStages)
        /\ draft[w] \in Heartbeat
    BY InvSplit
  <1>1. RestType'
    BY <1>0, CallType DEF RestType, Save, SaveStage
  <1>2. Grown /\ UNCHANGED <<log, reports, finished, consent>>
    BY DEF Grown, SaveStage
  <1>3. StoreOK'
    BY <1>0, <1>2, StoreKept
  <1>4. CASE stage[w] = CeoStage /\ Goto(w, "report")
    <2>1. /\ LocalType' /\ Alone(w) /\ pc'[w] = "report"
          /\ stage'[w] = stage[w] /\ lane'[w] = lane[w] /\ done'[w] = done[w]
          /\ entry'[w] = entry[w] /\ seen'[w] = seen[w]
      BY <1>0, <1>4, GotoIs DEF Label
    <2>2. ReadOK(w)'
      BY <1>0, <1>2, <2>1, ReadKept DEF WorkerOK
    <2>3. StageOK(w)' /\ GateOK(w)' /\ OrderOK(w)'
      BY <1>0, <1>2, <1>4, <2>1
      DEF WorkerOK, StageOK, GateOK, OrderOK, AtGate, InStage, Grown, SaveStage, At
    <2> QED BY <1>1, <1>2, <1>3, <2>1, <2>2, <2>3 DEF Good, WorkerOK
  <1>5. CASE \E s \in StageNo : /\ FirstFrom(s, stage[w] + 1, done[w])
                                /\ Enter(w, s, done[w])
    <2>1. PICK s \in StageNo : FirstFrom(s, stage[w] + 1, done[w]) /\ Enter(w, s, done[w])
      BY <1>5
    <2>2. done[w] \subseteq finished'
      BY <1>0, <1>2 DEF WorkerOK, ReadOK
    <2>3. \A t \in 1 .. stage[w] : t \in finished'
      BY <1>0, <1>2 DEF WorkerOK, OrderOK, InStage, StageNo, CeoStage, SaveStage, At
    <2>4. \A t \in 1 .. s - 1 : t \in finished'
      BY <1>0, <2>1, <2>2, <2>3 DEF FirstFrom, StageNo, CeoStage
    <2>5. LocalType' /\ Alone(w) /\ WorkerOK(w)'
      BY <1>0, <1>2, <2>1, <2>2, <2>4, EnterGood DEF WorkerOK
    <2> QED BY <1>1, <1>2, <1>3, <2>5 DEF Good
  <1> QED BY <1>4, <1>5 DEF SaveStage

\* The report follows the CEO's stage, and with it the consent.
LEMMA ReportGood == ASSUME IInv, NEW w \in Worker, Report(w) PROVE Good(w)
  <1>0. LocalType /\ RestType /\ StoreOK /\ WorkerOK(w)
    BY InvSplit
  <1>1. RestType'
    BY <1>0 DEF RestType, store, bounds, Report
  <1>2. Grown /\ UNCHANGED <<log, finished, consent>> /\ reports' = TRUE
    BY DEF Grown, store, Report
  <1>3. stage[w] = CeoStage /\ (Gated => consent)
    BY <1>0 DEF WorkerOK, StageOK, GateOK, InStage, Report, At
  <1>4. StoreOK'
    BY <1>0, <1>2, <1>3 DEF StoreOK
  <1>5. /\ LocalType' /\ Alone(w) /\ pc'[w] = "append" /\ entry'[w] = <<"completed", 0>>
        /\ stage'[w] = stage[w] /\ lane'[w] = lane[w] /\ done'[w] = done[w]
        /\ seen'[w] = seen[w]
    BY <1>0, EntryFacts, AppendIs DEF Report
  <1>6. ReadOK(w)'
    BY <1>0, <1>2, <1>5 DEF WorkerOK, ReadOK, Grown, SkipsGate, Approval
  <1>7. StageOK(w)' /\ GateOK(w)' /\ OrderOK(w)'
    BY <1>0, <1>2, <1>3, <1>5
    DEF WorkerOK, StageOK, GateOK, OrderOK, AtGate, InStage, Grown, Report, At
  <1> QED BY <1>1, <1>2, <1>4, <1>5, <1>6, <1>7 DEF Good, WorkerOK

-----------------------------------------------------------------------------
(* The invariant holds *)

\* Every step of an invocation keeps its part of the invariant and the store's.
LEMMA StepGood ==
    ASSUME IInv, NEW w \in Worker,
           \/ Step(w) \/ Start(w) \/ OwnerApproves(w) \/ OwnerRejects(w) \/ Sweep(w) \/ Die(w)
    PROVE  Good(w)
  BY SweepGood, LeaseReadGood, LeaseWriteGood, LeaseConfirmGood, ReleaseReadGood,
     ReleaseDeleteGood, LoadPriorGood, SaveInitialGood, SnapshotGood, GateApprovalGood,
     GateRejectionGood, PauseGood, RejectLoadGood, ResumeGood, AppendReadGood,
     AppendWriteGood, LeaderGood, CeoGood, BuildGood, SaveStageGood, ReportGood,
     FailLoadGood, SaveLastGood, DieGood, StartGood, DecideGood
  DEF Step

\* The others keep theirs, because consent and delivered stages are never undone.
LEMMA OthersGood ==
    ASSUME NEW w \in Worker, NEW v \in Worker \ {w}, WorkerOK(v), Alone(w), Grown
    PROVE  WorkerOK(v)'
  <1>1. /\ pc'[v] = pc[v] /\ stage'[v] = stage[v] /\ lane'[v] = lane[v]
        /\ done'[v] = done[v] /\ entry'[v] = entry[v] /\ seen'[v] = seen[v]
    BY DEF Alone
  <1>2. ReadOK(v)'
    BY <1>1 DEF WorkerOK, ReadOK, Grown, SkipsGate
  <1>3. StageOK(v)' /\ GateOK(v)'
    BY <1>1 DEF WorkerOK, StageOK, GateOK, Grown
  <1>4. OrderOK(v)'
    BY <1>1 DEF WorkerOK, OrderOK, Grown
  <1> QED BY <1>2, <1>3, <1>4 DEF WorkerOK

\* The invariant holds before anything has run.
LEMMA InitInv == Init => IInv
  <1> SUFFICES ASSUME Init PROVE IInv
    OBVIOUS
  <1>1. NoEntry \in Entry /\ NoHeartbeat \in Heartbeat /\ 1 \in StageNo
    BY EntryFacts, StageFacts DEF NoHeartbeat, Heartbeat
  <1>2. TypeOK
    <2>1. LocalType
      BY <1>1 DEF Init, LocalType, Label, Lane
    <2>2. RestType
      <3>1. /\ log \subseteq Entry /\ hb \in Heartbeat /\ finished \subseteq StageNo
            /\ lease \in Worker \cup {NoWorker, Orphan}
        BY <1>1 DEF Init
      <3>2. /\ requests \in 0 .. MaxRequests /\ errors \in 0 .. MaxErrors
            /\ deaths \in 0 .. MaxDeaths /\ retries \in 0 .. MaxAutoRetries + 1
        BY DEF Init
      <3>3. /\ consent \in BOOLEAN /\ reports \in BOOLEAN /\ served \in BOOLEAN
            /\ decision \in {"none", "approve", "reject"}
        BY DEF Init
      <3> QED BY <3>1, <3>2, <3>3 DEF RestType
    <2> QED BY <2>1, <2>2, TypeSplit
  <1>3. StoreOK
    BY DEF Init, StoreOK
  <1>4. ASSUME NEW w \in Worker PROVE WorkerOK(w)
    BY StageFacts
    DEF Init, WorkerOK, ReadOK, StageOK, GateOK, OrderOK, SkipsGate, NoEntry, Approval,
        InStage, AtGate
  <1> QED BY <1>2, <1>3, <1>4 DEF IInv

\* Every step, of a worker or of the clock, keeps the invariant.
LEMMA NextInv == IInv /\ [Next]_vars => IInv'
  <1> SUFFICES ASSUME IInv, [Next]_vars PROVE IInv'
    OBVIOUS
  <1>1. ASSUME NEW w \in Worker,
               \/ Step(w) \/ Start(w) \/ OwnerApproves(w) \/ OwnerRejects(w)
               \/ Sweep(w) \/ Die(w)
        PROVE  IInv'
    <2>1. Good(w)
      BY <1>1, StepGood
    <2>2. ASSUME NEW v \in Worker PROVE WorkerOK(v)'
      BY <2>1, <2>2, OthersGood DEF Good, IInv
    <2>3. TypeOK'
      BY <2>1 DEF Good, TypeOK, LocalType, RestType
    <2> QED BY <2>1, <2>2, <2>3 DEF Good, IInv
  <1>2. CASE Expire
    <2>1. UNCHANGED <<log, hb, pc, locals, bounds, history>> /\ lease' = NoWorker
      BY <1>2 DEF Expire
    <2>2. TypeOK' /\ StoreOK'
      BY <2>1 DEF IInv, TypeOK, StoreOK, locals, bounds, history
    <2>3. ASSUME NEW v \in Worker PROVE WorkerOK(v)'
      BY <2>1 DEF IInv, WorkerOK, ReadOK, StageOK, GateOK, OrderOK, SkipsGate, locals, history
    <2> QED BY <2>2, <2>3 DEF IInv
  <1>3. CASE UNCHANGED vars
    <2>1. TypeOK' /\ StoreOK'
      BY <1>3 DEF IInv, TypeOK, StoreOK, vars, store, locals, bounds, history
    <2>2. ASSUME NEW v \in Worker PROVE WorkerOK(v)'
      BY <1>3 DEF IInv, WorkerOK, ReadOK, StageOK, GateOK, OrderOK, SkipsGate, vars, locals,
                  history
    <2> QED BY <2>1, <2>2 DEF IInv
  <1> QED BY <1>1, <1>2, <1>3 DEF Next

\* The invariant holds in every reachable state.
LEMMA Invariance == Spec => []IInv
  BY InitInv, NextInv, PTL DEF Spec

-----------------------------------------------------------------------------
(* The theorems *)

\* Every row and every invocation is always of its type; in particular a stored
\* retry count never exceeds the budget by more than one.
THEOREM TypeCorrect == Spec => []TypeOK
  <1>1. IInv => TypeOK
    BY DEF IInv
  <1> QED BY <1>1, Invariance, PTL

\* The owner's gate (mission-pipeline.ts, the CEO stage of the loop): the CEO's
\* stage of a gated mission runs only with the owner's approval or the
\* operator's waiver, whatever sweeps, retries, lost log entries, database
\* errors and killed invocations come between.
THEOREM CeoAfterConsentAlways == Spec => []CeoAfterConsent
  <1>1. ASSUME IInv PROVE CeoAfterConsent
    <2>1. ASSUME NEW w \in Worker, Gated, At(w, "ceo") PROVE consent
      BY <1>1, <2>1 DEF IInv, WorkerOK, StageOK, GateOK, InStage, At
    <2> QED BY <1>1, <2>1 DEF IInv, StoreOK, CeoAfterConsent
  <1> QED BY <1>1, Invariance, PTL

\* Skipping the stages that the log calls approved (mission-pipeline.ts, the
\* resumable snapshot) skips no work: when a stage runs, every earlier one of
\* the mission has delivered, although entries of the log get lost.
THEOREM StagesInOrderAlways == Spec => []StagesInOrder
  <1>1. IInv => StagesInOrder
    BY DEF IInv, WorkerOK, OrderOK, InStage, StagesInOrder, At
  <1> QED BY <1>1, Invariance, PTL
-----------------------------------------------------------------------------
(* Refinement of StagedDelivery *)

\* Where an invocation goes with or without its entry written.
LEMMA AppendTo ==
    ASSUME IInv, NEW w \in Worker, AppendRead(w) \/ AppendWrite(w)
    PROVE  pc'[w] \in {"write", "leader", "ceo", "build", "failLoad", "resume", "rejectLoad",
                       "releaseRead", "idle"}
  <1>1. LocalType /\ entry[w] \in Entry
    BY InvSplit
  <1>2. After(entry[w]) \in {"leader", "ceo", "build", "failLoad", "resume", "rejectLoad"}
            \/ entry[w][1] = "completed"
    BY <1>1, EntryFacts DEF After
  <1>3. Become(w, "write") \/ Appended(w)
    BY DEF AppendRead, AppendWrite
  <1> QED BY <1>1, <1>2, <1>3 DEF Appended, Goto, End, Leave, Become, LocalType

\* A run that is to report has had its CEO's stage.
ReportOK == \A w \in Worker : pc[w] = "report" => CeoStage \in finished

\* Only the end of the CEO's stage leads there.
LEMMA ReportOnly ==
    ASSUME IInv, NEW w \in Worker, pc'[w] = "report",
           \/ Step(w) \/ Start(w) \/ OwnerApproves(w) \/ OwnerRejects(w) \/ Sweep(w) \/ Die(w)
    PROVE  SaveStage(w) /\ stage[w] = CeoStage
  <1>0. LocalType
    BY InvSplit
  <1>1. ASSUME LeaseRead(w) \/ LeaseWrite(w) \/ LeaseConfirm(w) \/ ReleaseRead(w)
               \/ ReleaseDelete(w) \/ Sweep(w) \/ Die(w) \/ Start(w)
        PROVE  FALSE
    BY <1>0, <1>1 DEF LeaseRead, LeaseWrite, LeaseConfirm, ReleaseRead, ReleaseDelete, Sweep,
        Die, Start, Goto, Launch, End, Leave, Become, LocalType
  <1>2. ASSUME LoadPrior(w) \/ SaveInitial(w) \/ Snapshot(w) \/ Pause(w) \/ RejectLoad(w)
               \/ Resume(w) \/ FailLoad(w) \/ SaveLast(w)
        PROVE  FALSE
    BY <1>0, <1>2 DEF LoadPrior, SaveInitial, Snapshot, Pause, RejectLoad, Resume, FailLoad,
        SaveLast, Restate, Prepare, Enter, Goto, Launch, End, Leave, Become, LocalType
  <1>3. ASSUME GateApproval(w) \/ GateRejection(w) \/ Leader(w) \/ Ceo(w) \/ Build(w)
               \/ Report(w) \/ OwnerApproves(w) \/ OwnerRejects(w)
        PROVE  FALSE
    BY <1>0, <1>3 DEF GateApproval, GateRejection, Leader, Ceo, Build, Report, OwnerApproves,
        OwnerRejects, Append, Prepare, Goto, End, Leave, Become, LocalType
  <1>4. ~AppendRead(w) /\ ~AppendWrite(w)
    BY AppendTo
  <1>5. SaveStage(w)
    BY <1>1, <1>2, <1>3, <1>4 DEF Step
  <1>6. ASSUME stage[w] # CeoStage PROVE FALSE
    BY <1>0, <1>5, <1>6 DEF SaveStage, Enter, Become, LocalType
  <1> QED BY <1>5, <1>6

\* And its agent has delivered by then.
LEMMA ReportStep ==
    ASSUME IInv, ReportOK, [Next]_vars
    PROVE  ReportOK'
  <1>1. ASSUME NEW w \in Worker,
               \/ Step(w) \/ Start(w) \/ OwnerApproves(w) \/ OwnerRejects(w)
               \/ Sweep(w) \/ Die(w),
               NEW v \in Worker, pc'[v] = "report"
        PROVE  CeoStage \in finished'
    <2>1. Good(w)
      BY <1>1, StepGood
    <2>2. CASE v = w
      <3>1. SaveStage(w) /\ stage[w] = CeoStage
        BY <1>1, <2>2, ReportOnly
      <3>2. CeoStage \in finished
        BY <3>1, InvSplit DEF SaveStage, At, WorkerOK, OrderOK
      <3> QED BY <2>1, <3>2 DEF Good, Grown
    <2>3. CASE v # w
      BY <1>1, <2>1, <2>3 DEF Good, Alone, Grown, ReportOK
    <2> QED BY <2>2, <2>3
  <1>2. Expire \/ UNCHANGED vars => ReportOK'
    BY DEF Expire, vars, history, ReportOK
  <1> QED BY <1>1, <1>2 DEF Next, ReportOK

\* Every step of the pipeline is a step of StagedDelivery or leaves it alone.
LEMMA DeliveryStep ==
    ASSUME IInv, ReportOK, [Next]_vars
    PROVE  [Delivery!Next]_<<consent, finished, reports>>
  <1> DEFINE Goal == [Delivery!Next]_<<consent, finished, reports>>
  <1>1. ASSUME NEW w \in Worker, Start(w) \/ OwnerApproves(w) PROVE Goal
    <2>1. consent \in BOOLEAN /\ UNCHANGED <<finished, reports>>
      BY <1>1 DEF Start, OwnerApproves, IInv, TypeOK
    <2>2. consent' = TRUE \/ consent' = consent
      BY <1>1, <2>1 DEF Start, OwnerApproves
    <2> QED BY <2>1, <2>2 DEF Delivery!Next, Delivery!Consent
  <1>2. ASSUME NEW w \in Worker, Leader(w) PROVE Goal
    <2>1. UNCHANGED <<consent, reports>>
      BY <1>2 DEF Leader
    <2>2. CASE finished' = finished
      BY <2>1, <2>2
    <2>3. CASE finished' = finished \cup {stage[w]}
      <3>1. /\ stage[w] \in 1 .. CeoStage /\ stage[w] # CeoStage
            /\ \A t \in 1 .. stage[w] - 1 : t \in finished
        BY <1>2, InvSplit DEF Leader, At, WorkerOK, StageOK, OrderOK, InStage, StageNo
      <3>2. Delivery!Deliver(stage[w])
        BY <2>1, <2>3, <3>1 DEF Delivery!Deliver
      <3> QED BY <3>1, <3>2 DEF Delivery!Next
    <2> QED BY <1>2, <2>2, <2>3 DEF Leader
  <1>3. ASSUME NEW w \in Worker, Ceo(w) PROVE Goal
    <2>1. stage[w] = CeoStage
      BY <1>3, InvSplit DEF Ceo, At, WorkerOK, StageOK
    <2>2. (Gated => consent) /\ \A t \in 1 .. CeoStage - 1 : t \in finished
      BY <1>3, <2>1, InvSplit DEF Ceo, At, WorkerOK, GateOK, OrderOK, InStage
    <2>3. finished' = finished \cup {CeoStage} /\ UNCHANGED <<consent, reports>>
      BY <1>3 DEF Ceo
    <2>4. CeoStage \in 1 .. CeoStage
      BY StageFacts
    <2>5. Delivery!Deliver(CeoStage)
      BY <2>3, <2>2 DEF Delivery!Deliver
    <2> QED BY <2>4, <2>5 DEF Delivery!Next
  <1>4. ASSUME NEW w \in Worker, Report(w) PROVE Goal
    <2>1. CeoStage \in finished
      BY <1>4 DEF Report, At, ReportOK
    <2> QED BY <1>4, <2>1 DEF Report, Delivery!Next, Delivery!Report
  <1>5. ASSUME NEW w \in Worker, Step(w) \/ OwnerRejects(w) \/ Sweep(w) \/ Die(w),
               ~Leader(w), ~Ceo(w), ~Report(w)
        PROVE  UNCHANGED <<consent, finished, reports>>
    BY <1>5 DEF Step, OwnerRejects, Sweep, Die, LeaseRead, LeaseWrite, LeaseConfirm,
        ReleaseRead, ReleaseDelete, LoadPrior, SaveInitial, Snapshot, GateApproval,
        GateRejection, Pause, RejectLoad, Resume, AppendRead, AppendWrite, Build, SaveStage,
        FailLoad, SaveLast, history
  <1>6. Expire \/ UNCHANGED vars => UNCHANGED <<consent, finished, reports>>
    BY DEF Expire, vars, history
  <1> QED BY <1>1, <1>2, <1>3, <1>4, <1>5, <1>6 DEF Next

\* For any number of overlapping invocations, database errors, lost log entries and kills:
\* the pipeline delivers as StagedDelivery says.
THEOREM DeliveryRefinement == Spec => ImplementsDelivery
  <1>1. Init => Delivery!Init /\ ReportOK
    BY DEF Init, Delivery!Init, ReportOK
  <1>2. IInv /\ ReportOK /\ [Next]_vars => ReportOK'
    BY ReportStep
  <1>3. IInv /\ ReportOK /\ [Next]_vars => [Delivery!Next]_<<consent, finished, reports>>
    BY DeliveryStep
  <1> QED BY <1>1, <1>2, <1>3, Invariance, PTL DEF Spec, ImplementsDelivery, Delivery!Spec

-----------------------------------------------------------------------------
(* As long as invocations do not overlap and no database call has failed, the log and the
   heartbeat keep the promises that lost updates break. *)

\* No call has failed so far, and at most one invocation is under way.
Undisturbed ==
    /\ errors = 0
    /\ \A v, w \in Worker : v = w \/ At(v, "idle") \/ At(w, "idle")

\* The entries a run adds for the stage it is at, and the calls it makes there
RunEntry == {"started", "approved", "escalated", "crashed", "submitted"}
InRun(w) == \/ pc[w] \in {"leader", "ceo", "build", "saveStage"} \cup AtGate
            \/ pc[w] \in {"append", "write"} /\ entry[w][1] \in RunEntry

\* A stage that has run to completion, in this run or an earlier one
Closed(s) == <<"approved", s>> \in log \/ <<"escalated", s>> \in log

\* A stage starts only after those before it were closed.
LogOK == \A t \in StageNo : <<"started", t>> \in log => \A s \in 1 .. t - 1 : Closed(s)

\* An entry is of the stage the run is at.
EntryOK(w) ==
    /\ pc[w] = "write" => seen[w] = log
    /\ pc[w] \in {"append", "write"} /\ entry[w][1] \in RunEntry =>
          /\ entry[w][2] = stage[w]
          /\ entry[w][1] = "submitted" => stage[w] = CeoStage
          /\ entry[w][1] \in {"approved", "escalated", "crashed"} => stage[w] # CeoStage

\* What the run has passed is closed, what it skips is approved, what it is still to run is
\* not; and a stage that runs although a later one has started was escalated.
LoopOK(w) ==
    InRun(w) =>
        /\ \A s \in 1 .. stage[w] - 1 : Closed(s)
        /\ \A s \in done[w] : <<"approved", s>> \in log
        /\ \A s \in stage[w] + 1 .. TeamStages : s \notin done[w] => <<"approved", s>> \notin log
        /\ stage[w] # CeoStage =>
              /\ pc[w] \notin {"build", "saveStage"} => <<"approved", stage[w]>> \notin log
              /\ pc[w] \in {"build", "saveStage"} => Closed(stage[w])
              /\ (\E t \in stage[w] + 1 .. CeoStage : <<"started", t>> \in log)
                    => <<"escalated", stage[w]>> \in log

\* A heartbeat that says completed, stored or about to be.
DoneOK(w) ==
    /\ hb.status = "completed" => CeoStage \in finished
    /\ pc[w] \in {"saveInitial", "saveStage", "saveLast"} /\ draft[w].status = "completed"
          => CeoStage \in finished

\* The stored count of retries is never behind the true one, and is ahead of it while a
\* retry is pending or under way.
BudgetOK(w) ==
    /\ retries <= MaxAutoRetries /\ retries <= hb.count
    /\ hb.retryable => retries < hb.count /\ hb.count <= MaxAutoRetries
    /\ pc[w] \in {"leaseRead", "leaseWrite", "leaseConfirm"} => hb.retryable
    /\ lane[w] = "sweep" /\ pc[w] \in {"loadPrior", "saveInitial"}
          => retries < hb.count /\ hb.count <= MaxAutoRetries
    /\ pc[w] = "saveInitial" => draft[w].count = hb.count /\ ~draft[w].retryable
    /\ pc[w] = "saveStage" => draft[w].count = 0 /\ ~draft[w].retryable
    /\ pc[w] = "saveLast" =>
          /\ retries <= draft[w].count
          /\ draft[w].retryable => retries < draft[w].count /\ draft[w].count <= MaxAutoRetries

\* A pending retry is of a failure that no sweep has served.
ServedOK(w) ==
    /\ hb.retryable => ~served
    /\ lane[w] = "sweep" /\ pc[w] \in {"loadPrior", "saveInitial"} => ~served
    /\ pc[w] = "failLoad" => entry[w][1] = "crashed"
    /\ pc[w] = "saveLast" /\ draft[w].retryable => ~served \/ entry[w][1] = "crashed"

AloneInv ==
    /\ LogOK /\ RetryBudgetHolds /\ CompletedMeansCeo
    /\ \A w \in Worker : EntryOK(w) /\ LoopOK(w) /\ DoneOK(w) /\ BudgetOK(w) /\ ServedOK(w)

\* A call that leaves no error behind succeeds.
LEMMA NoErrors == ASSUME Undisturbed', IInv, NEW ok \in BOOLEAN, Call(ok) PROVE ok
  BY DEF Undisturbed, IInv, TypeOK, Call

\* A step out of the stages that leaves the log alone leaves nothing to know.
LEMMA OutOfRun ==
    ASSUME IInv, LogOK, NEW w \in Worker, log' = log, pc'[w] \in Label, pc'[w] # "write",
           pc'[w] \notin {"leader", "ceo", "build", "saveStage"} \cup AtGate,
           pc'[w] = "append" => entry'[w][1] \notin RunEntry
    PROVE  LogOK' /\ EntryOK(w)' /\ LoopOK(w)'
  BY DEF LogOK, Closed, EntryOK, LoopOK, InRun

\* The calls outside the stages
LEMMA OutsideLog ==
    ASSUME IInv, AloneInv, NEW w \in Worker,
           \/ LeaseRead(w) \/ LeaseWrite(w) \/ LeaseConfirm(w) \/ ReleaseRead(w)
           \/ ReleaseDelete(w) \/ LoadPrior(w) \/ SaveInitial(w) \/ Pause(w) \/ RejectLoad(w)
           \/ Resume(w) \/ FailLoad(w) \/ SaveLast(w) \/ Report(w)
           \/ Start(w) \/ OwnerApproves(w) \/ OwnerRejects(w) \/ Sweep(w) \/ Die(w)
    PROVE  LogOK' /\ EntryOK(w)' /\ LoopOK(w)'
  <1>1. log' = log
    BY DEF LeaseRead, LeaseWrite, LeaseConfirm, ReleaseRead, ReleaseDelete, LoadPrior,
        SaveInitial, Pause, RejectLoad, Resume, FailLoad, SaveLast, Report, Start,
        OwnerApproves, OwnerRejects, Sweep, Die, store
  <1>2. pc \in [Worker -> Label] /\ entry \in [Worker -> Entry]
    BY DEF IInv, TypeOK
  <1>3. ASSUME LeaseRead(w) \/ LeaseWrite(w) \/ LeaseConfirm(w) \/ ReleaseRead(w)
               \/ ReleaseDelete(w) \/ Sweep(w) \/ Die(w)
        PROVE  pc'[w] \in {"leaseWrite", "leaseConfirm", "loadPrior", "releaseRead", "idle",
                           "releaseDelete", "leaseRead"}
    BY <1>2, <1>3 DEF LeaseRead, LeaseWrite, LeaseConfirm, ReleaseRead, ReleaseDelete, Sweep,
        Die, Goto, Launch, End, Leave, Become
  <1>4. ASSUME LoadPrior(w) \/ SaveInitial(w) \/ Pause(w) \/ RejectLoad(w) \/ Resume(w)
               \/ FailLoad(w) \/ SaveLast(w) \/ Start(w)
        PROVE  pc'[w] \in {"saveInitial", "snapshot", "saveLast", "loadPrior", "releaseRead",
                           "idle"}
    BY <1>2, <1>4 DEF LoadPrior, SaveInitial, Pause, RejectLoad, Resume, FailLoad, SaveLast,
        Start, Restate, Prepare, Goto, Launch, End, Leave, Become
  <1>5. ASSUME Report(w) \/ OwnerApproves(w) \/ OwnerRejects(w)
        PROVE  pc'[w] = "append" /\ entry'[w][1] \in {"completed", "owner_approved", "owner_rejected"}
    BY <1>2, <1>5 DEF Report, OwnerApproves, OwnerRejects, Append, Become
  <1>6. /\ pc'[w] \in Label /\ pc'[w] # "write"
        /\ pc'[w] \notin {"leader", "ceo", "build", "saveStage"} \cup AtGate
        /\ pc'[w] = "append" => entry'[w][1] \notin RunEntry
    BY <1>3, <1>4, <1>5 DEF Label, AtGate, RunEntry
  <1> QED BY <1>1, <1>6, OutOfRun DEF AloneInv

\* A run comes to a stage that is not approved, past stages that are closed.
LEMMA EnterLog ==
    ASSUME IInv, AloneInv, NEW w \in Worker, NEW s \in StageNo,
           NEW c \in SUBSET (1 .. TeamStages), Enter(w, s, c), log' = log,
           \A t \in 1 .. s - 1 : Closed(t), \A t \in c : <<"approved", t>> \in log,
           \A t \in s .. TeamStages : t \notin c => <<"approved", t>> \notin log,
           s \notin c
    PROVE  LogOK' /\ EntryOK(w)' /\ LoopOK(w)'
  <1>1. LocalType /\ s \in Nat /\ s >= 1 /\ s <= CeoStage
    BY InvSplit DEF StageNo, CeoStage
  <1>2. /\ pc'[w] \in {"gate", "append"} /\ stage'[w] = s /\ done'[w] = c
        /\ entry'[w] = <<"started", s>>
    BY <1>1, EnterIs
  <1>3. LogOK' /\ EntryOK(w)'
    BY <1>2 DEF AloneInv, LogOK, Closed, EntryOK
  <1>4. ASSUME s # CeoStage
        PROVE  /\ <<"approved", s>> \notin log
               /\ (\E t \in s + 1 .. CeoStage : <<"started", t>> \in log)
                    => <<"escalated", s>> \in log
    <2>1. s \in s .. TeamStages
      BY <1>1, <1>4 DEF CeoStage
    <2>2. <<"approved", s>> \notin log
      BY <2>1
    <2>3. ASSUME NEW t \in s + 1 .. CeoStage, <<"started", t>> \in log
          PROVE  <<"escalated", s>> \in log
      <3>1. t \in StageNo /\ s \in 1 .. t - 1
        BY <1>1 DEF StageNo, CeoStage
      <3> QED BY <2>2, <2>3, <3>1 DEF AloneInv, LogOK, Closed
    <2> QED BY <2>2, <2>3
  <1>5. \A t \in s + 1 .. TeamStages : t \notin c => <<"approved", t>> \notin log
    BY <1>1
  <1>6. LoopOK(w)'
    BY <1>2, <1>4, <1>5 DEF LoopOK, Closed
  <1> QED BY <1>3, <1>6

\* The start of a run finds out what it may skip.
LEMMA SnapshotLog ==
    ASSUME Undisturbed', IInv, AloneInv, NEW w \in Worker, Snapshot(w)
    PROVE  LogOK' /\ EntryOK(w)' /\ LoopOK(w)'
  <1> DEFINE approved == {s \in 1 .. TeamStages : <<"approved", s>> \in log}
  <1>1. PICK ok \in BOOLEAN :
           /\ Call(ok)
           /\ LET found == {s \in 1 .. TeamStages : ok /\ <<"approved", s>> \in log}
              IN \E s \in StageNo : FirstFrom(s, 1, found) /\ Enter(w, s, found)
    BY DEF Snapshot
  <1>2. ok
    BY <1>1, NoErrors
  <1>3. {s \in 1 .. TeamStages : ok /\ <<"approved", s>> \in log} = approved
    BY <1>2
  <1>4. PICK s \in StageNo : FirstFrom(s, 1, approved) /\ Enter(w, s, approved)
    BY <1>1, <1>3
  <1>5. log' = log
    BY DEF Snapshot, store
  <1>6. s \in 1 .. CeoStage /\ s \notin approved /\ \A t \in 1 .. s - 1 : t \in approved
    BY <1>4 DEF FirstFrom, StageNo
  <1>7. \A t \in 1 .. s - 1 : Closed(t)
    BY <1>6 DEF Closed
  <1>8. \A t \in s .. TeamStages : t \notin approved => <<"approved", t>> \notin log
    BY <1>6
  <1> QED BY <1>4, <1>5, <1>6, <1>7, <1>8, EnterLog

\* The end of a stage leads to the next one that is not approved.
LEMMA SaveStageLog ==
    ASSUME IInv, AloneInv, NEW w \in Worker, SaveStage(w)
    PROVE  LogOK' /\ EntryOK(w)' /\ LoopOK(w)'
  <1>0. /\ LocalType /\ stage[w] \in StageNo /\ done[w] \in SUBSET (1 .. TeamStages)
    BY InvSplit
  <1>1. log' = log
    BY DEF SaveStage
  <1>2. CASE stage[w] = CeoStage /\ Goto(w, "report")
    <2>1. pc'[w] = "report"
      BY <1>0, <1>2, GotoIs DEF Label
    <2> QED BY <1>1, <2>1, OutOfRun DEF AloneInv, Label, AtGate
  <1>3. ASSUME stage[w] # CeoStage, NEW s \in StageNo,
               FirstFrom(s, stage[w] + 1, done[w]), Enter(w, s, done[w])
        PROVE  LogOK' /\ EntryOK(w)' /\ LoopOK(w)'
    <2>1. /\ \A t \in 1 .. stage[w] - 1 : Closed(t)
          /\ \A t \in done[w] : <<"approved", t>> \in log
          /\ \A t \in stage[w] + 1 .. TeamStages : t \notin done[w] => <<"approved", t>> \notin log
          /\ Closed(stage[w])
      BY <1>3 DEF AloneInv, LoopOK, InRun, SaveStage, At
    <2>2. /\ s >= stage[w] + 1 /\ s \notin done[w]
          /\ \A t \in stage[w] + 1 .. s - 1 : t \in done[w]
      BY <1>3 DEF FirstFrom
    <2>3. \A t \in 1 .. s - 1 : Closed(t)
      <3> SUFFICES ASSUME NEW t \in 1 .. s - 1 PROVE Closed(t)
        OBVIOUS
      <3>1. t \in 1 .. stage[w] - 1 \/ t = stage[w] \/ t \in stage[w] + 1 .. s - 1
        BY <1>0 DEF StageNo, CeoStage
      <3> QED BY <2>1, <2>2, <3>1 DEF Closed
    <2>4. \A t \in s .. TeamStages : t \notin done[w] => <<"approved", t>> \notin log
      BY <1>0, <2>1, <2>2 DEF StageNo, CeoStage
    <2> QED BY <1>0, <1>1, <1>3, <2>1, <2>2, <2>3, <2>4, EnterLog
  <1> QED BY <1>2, <1>3 DEF SaveStage

\* The gate: the CEO's stage is the last, so it only has stages behind it.
LEMMA GateLog ==
    ASSUME IInv, AloneInv, NEW w \in Worker, GateApproval(w) \/ GateRejection(w)
    PROVE  LogOK' /\ EntryOK(w)' /\ LoopOK(w)'
  <1>0. LocalType /\ stage[w] = CeoStage /\ log' = log
    BY InvSplit DEF WorkerOK, StageOK, AtGate, GateApproval, GateRejection, At, store
  <1>1. LogOK'
    BY <1>0 DEF AloneInv, LogOK, Closed
  <1>2. /\ \A s \in 1 .. stage[w] - 1 : Closed(s)
        /\ \A s \in done[w] : <<"approved", s>> \in log
    BY DEF AloneInv, LoopOK, InRun, AtGate, GateApproval, GateRejection, At
  <1>3. \/ /\ pc'[w] \in {"granted", "denied"} /\ stage'[w] = stage[w] /\ done'[w] = done[w]
        \/ /\ pc'[w] = "append" /\ stage'[w] = stage[w] /\ done'[w] = done[w]
           /\ entry'[w] = <<"started", CeoStage>>
        \/ pc'[w] \in {"pause", "releaseRead", "idle"}
    BY <1>0 DEF LocalType, GateApproval, GateRejection, Goto, Append, End, Leave, Become, locals
  <1>4. EntryOK(w)'
    BY <1>0, <1>3 DEF EntryOK, RunEntry
  <1>5. CASE pc'[w] \in {"pause", "releaseRead", "idle"}
    <2>1. ~InRun(w)'
      BY <1>5 DEF InRun, AtGate
    <2> QED BY <1>1, <1>4, <2>1 DEF LoopOK
  <1>6. CASE stage'[w] = stage[w] /\ done'[w] = done[w]
    <2>1. \A s \in CeoStage + 1 .. TeamStages : FALSE
      BY DEF CeoStage
    <2>2. stage'[w] = CeoStage
      BY <1>0, <1>6
    <2>3. /\ \A s \in 1 .. stage'[w] - 1 : Closed(s)'
          /\ \A s \in done'[w] : <<"approved", s>> \in log'
      BY <1>0, <1>2, <1>6 DEF Closed
    <2> QED BY <1>1, <1>4, <2>1, <2>2, <2>3 DEF LoopOK
  <1> QED BY <1>3, <1>5, <1>6

\* The calls of a stage that leave the log alone
LEMMA InsideLog ==
    ASSUME Undisturbed', IInv, AloneInv, NEW w \in Worker,
           AppendRead(w) \/ Leader(w) \/ Ceo(w) \/ Build(w)
    PROVE  LogOK' /\ EntryOK(w)' /\ LoopOK(w)'
  <1>0. LocalType /\ WorkerOK(w) /\ log' = log
    BY InvSplit DEF AppendRead, Leader, Ceo, Build, store
  <1>1. LogOK'
    BY <1>0 DEF AloneInv, LogOK, Closed
  <1>2. stage'[w] = stage[w] /\ done'[w] = done[w]
    <2>1. ASSUME AppendRead(w)
          PROVE  stage'[w] = stage[w] /\ done'[w] = done[w]
      <3>1. PICK ok \in BOOLEAN : /\ Call(ok)
                                  /\ ok => UNCHANGED <<stage, done>>
        BY <2>1 DEF AppendRead
      <3> QED BY <3>1, NoErrors
    <2> QED BY <2>1 DEF Leader, Ceo, Build, Append, Prepare
  <1>3. CASE AppendRead(w)
    <2>1. PICK ok \in BOOLEAN :
             /\ Call(ok)
             /\ ok => /\ Become(w, "write") /\ seen' = [seen EXCEPT ![w] = log]
                      /\ UNCHANGED entry
      BY <1>3 DEF AppendRead
    <2>2. pc[w] = "append" /\ pc'[w] = "write" /\ seen'[w] = log /\ entry' = entry
      BY <1>0, <1>3, <2>1, NoErrors DEF LocalType, Become, AppendRead, At
    <2>3. EntryOK(w)'
      BY <1>0, <1>2, <2>2 DEF AloneInv, EntryOK
    <2>4. InRun(w)' => InRun(w)
      BY <2>2 DEF InRun, AtGate
    <2>5. LoopOK(w)'
      BY <1>0, <1>2, <2>2, <2>4 DEF AloneInv, LoopOK, Closed
    <2> QED BY <1>1, <2>3, <2>5
  <1>4. CASE Leader(w) \/ Ceo(w) \/ Build(w)
    <2>1. /\ InRun(w)
          /\ \/ pc[w] = "leader" /\ pc'[w] = "append" /\ stage[w] # CeoStage
                /\ entry'[w][2] = stage[w] /\ entry'[w][1] \in {"approved", "escalated", "crashed"}
             \/ pc[w] = "ceo" /\ pc'[w] = "append" /\ stage[w] = CeoStage
                /\ entry'[w] = <<"submitted", CeoStage>>
             \/ pc[w] = "build" /\ pc'[w] = "saveStage"
      BY <1>0, <1>4 DEF Leader, Ceo, Build, LocalType, Append, Prepare, Become, InRun, At,
          WorkerOK, StageOK
    <2>2. EntryOK(w)'
      BY <1>2, <2>1 DEF EntryOK
    <2>3. LoopOK(w)'
      BY <1>0, <1>2, <2>1 DEF AloneInv, LoopOK, Closed
    <2> QED BY <1>1, <2>2, <2>3
  <1> QED BY <1>3, <1>4

\* An entry goes to a log that is as it was read.
LEMMA WriteLog ==
    ASSUME Undisturbed', IInv, AloneInv, NEW w \in Worker, AppendWrite(w)
    PROVE  LogOK' /\ EntryOK(w)' /\ LoopOK(w)'
  <1> DEFINE e == entry[w]
  <1>0. /\ LocalType /\ WorkerOK(w) /\ e \in Entry /\ stage[w] \in StageNo /\ pc[w] = "write"
    BY InvSplit DEF AppendWrite, At
  <1>1. log' = log \cup {e}
    <2>1. PICK ok \in BOOLEAN : Call(ok) /\ (ok => log' = seen[w] \cup {e})
      BY DEF AppendWrite
    <2> QED BY <1>0, <2>1, NoErrors DEF AloneInv, EntryOK
  <1>2. e[1] \in RunEntry => e = <<e[1], stage[w]>> /\ InRun(w)
    BY <1>0, EntryFacts DEF AloneInv, EntryOK, InRun
  <1>3. \A s : Closed(s) => Closed(s)'
    BY <1>1 DEF Closed
  <1>4. LogOK'
    <2> SUFFICES ASSUME NEW t \in StageNo, <<"started", t>> \in log', NEW s \in 1 .. t - 1
                 PROVE  Closed(s)'
      BY DEF LogOK
    <2>1. CASE <<"started", t>> \in log
      BY <1>3, <2>1 DEF AloneInv, LogOK
    <2>2. CASE <<"started", t>> = e
      <3>1. t = stage[w] /\ InRun(w)
        BY <1>2, <2>2 DEF RunEntry
      <3> QED BY <1>3, <3>1 DEF AloneInv, LoopOK
    <2> QED BY <1>1, <2>1, <2>2
  <1>5. \/ /\ e[1] = "completed" /\ pc'[w] \in {"releaseRead", "idle"}
        \/ /\ e[1] # "completed" /\ pc'[w] = After(e)
           /\ entry'[w] = e /\ stage'[w] = stage[w] /\ done'[w] = done[w]
    BY <1>0 DEF AppendWrite, Appended, Goto, End, Leave, Become, locals, LocalType
  <1>6. pc'[w] \notin {"append", "write"}
    BY <1>0, <1>5, EntryFacts DEF After
  <1>7. EntryOK(w)'
    BY <1>6 DEF EntryOK
  <1>8. CASE ~InRun(w)'
    BY <1>4, <1>7, <1>8 DEF LoopOK
  <1>9. CASE InRun(w)'
    <2>1. /\ e[1] \in {"started", "approved", "escalated", "submitted"}
          /\ pc'[w] = After(e) /\ stage'[w] = stage[w] /\ done'[w] = done[w]
      BY <1>0, <1>5, <1>6, <1>9, EntryFacts DEF InRun, After, AtGate
    <2>2. e = <<e[1], stage[w]>> /\ InRun(w)
      BY <1>2, <2>1 DEF RunEntry
    <2>3. /\ \A s \in 1 .. stage[w] - 1 : Closed(s)'
          /\ \A s \in done[w] : <<"approved", s>> \in log'
      BY <1>1, <1>3, <2>2 DEF AloneInv, LoopOK
    <2>4. \A s \in stage[w] + 1 .. TeamStages : s \notin done[w] => <<"approved", s>> \notin log'
      <3> SUFFICES ASSUME NEW s \in stage[w] + 1 .. TeamStages, s \notin done[w]
                   PROVE  <<"approved", s>> \notin log'
        OBVIOUS
      <3>1. <<"approved", s>> \notin log
        BY <2>2 DEF AloneInv, LoopOK
      <3>2. s # stage[w]
        BY <1>0 DEF StageNo, CeoStage
      <3> QED BY <1>1, <2>2, <3>1, <3>2
    <2>5. ASSUME stage[w] # CeoStage
          PROVE  /\ pc'[w] \notin {"build", "saveStage"} => <<"approved", stage[w]>> \notin log'
                 /\ pc'[w] \in {"build", "saveStage"} => Closed(stage[w])'
                 /\ (\E t \in stage[w] + 1 .. CeoStage : <<"started", t>> \in log')
                       => <<"escalated", stage[w]>> \in log'
      <3>1. e[1] # "submitted"
        BY <1>0, <2>2, <2>5 DEF AloneInv, EntryOK, RunEntry
      <3>2. pc'[w] \notin {"build", "saveStage"} => e[1] = "started"
        BY <2>1, <3>1 DEF After
      <3>3. pc'[w] \in {"build", "saveStage"} => e[1] \in {"approved", "escalated"}
        BY <2>1, <3>1 DEF After
      <3>4. /\ <<"approved", stage[w]>> \notin log
            /\ (\E t \in stage[w] + 1 .. CeoStage : <<"started", t>> \in log)
                  => <<"escalated", stage[w]>> \in log
        BY <1>0, <2>2, <2>5 DEF AloneInv, LoopOK
      <3>5. ASSUME NEW t \in stage[w] + 1 .. CeoStage, <<"started", t>> \in log'
            PROVE  <<"started", t>> \in log
        <4>1. t # stage[w]
          BY <1>0 DEF StageNo, CeoStage
        <4> QED BY <1>1, <2>2, <3>5, <4>1
      <3>6. ASSUME pc'[w] \notin {"build", "saveStage"}
            PROVE  <<"approved", stage[w]>> \notin log'
        BY <1>1, <2>2, <3>2, <3>4, <3>6
      <3>7. ASSUME pc'[w] \in {"build", "saveStage"} PROVE Closed(stage[w])'
        BY <1>1, <1>5, <2>1, <2>2, <3>3, <3>7 DEF Closed
      <3> QED BY <1>1, <3>4, <3>5, <3>6, <3>7
    <2>6. LoopOK(w)'
      BY <2>1, <2>3, <2>4, <2>5 DEF LoopOK
    <2> QED BY <1>4, <1>7, <2>6
  <1> QED BY <1>8, <1>9

\* The heartbeat built from the log after a stage of a team never says completed: the run
\* has closed this stage, and what has started without being approved was escalated.
LEMMA StatusOfStage ==
    ASSUME IInv, AloneInv, NEW w \in Worker, At(w, "build"), stage[w] # CeoStage
    PROVE  StageStatus(stage[w], log) # "completed"
  <1> SUFFICES ASSUME Current(log), Derived(log) = "completed" PROVE FALSE
    BY DEF StageStatus
  <1>1. \A s \in StageNo : <<"escalated", s>> \notin log
    BY DEF Derived
  <1>2. PICK t \in StageNo : <<"started", t>> \in log /\ <<"approved", t>> \notin log
    BY DEF Current
  <1>3. /\ \A s \in 1 .. stage[w] - 1 : Closed(s)
        /\ Closed(stage[w])
        /\ (\E s \in stage[w] + 1 .. CeoStage : <<"started", s>> \in log)
              => <<"escalated", stage[w]>> \in log
    BY DEF AloneInv, LoopOK, InRun, At
  <1>4. stage[w] \in StageNo
    BY InvSplit
  <1>5. t \in 1 .. stage[w] - 1 \/ t = stage[w] \/ t \in stage[w] + 1 .. CeoStage
    BY <1>4 DEF StageNo, CeoStage
  <1> QED BY <1>1, <1>2, <1>3, <1>4, <1>5 DEF Closed

\* A heartbeat is saved as completed only after the CEO's stage.
LEMMA DoneStep ==
    ASSUME Undisturbed', IInv, AloneInv, NEW w \in Worker, Good(w),
           \/ Step(w) \/ Start(w) \/ OwnerApproves(w) \/ OwnerRejects(w) \/ Sweep(w) \/ Die(w)
    PROVE  DoneOK(w)'
  <1>0. LocalType /\ WorkerOK(w) /\ DoneOK(w) /\ finished \subseteq finished'
    BY InvSplit DEF AloneInv, Good, Grown
  <1> DEFINE Saving == {"saveInitial", "saveStage", "saveLast"}
  \* A save stores what the invocation has prepared.
  <1>1. ASSUME SaveInitial(w) \/ SaveStage(w) \/ SaveLast(w)
        PROVE  pc[w] \in Saving /\ pc'[w] \notin Saving /\ (hb' = hb \/ hb' = draft[w])
    <2>1. pc'[w] \in {"snapshot", "report", "gate", "append", "releaseRead", "idle"}
      BY <1>0, <1>1 DEF SaveInitial, SaveStage, SaveLast, Goto, Enter, End, Leave, Become,
          LocalType
    <2> QED BY <1>1, <2>1 DEF SaveInitial, SaveStage, SaveLast, Save, At
  <1>2. CASE SaveInitial(w) \/ SaveStage(w) \/ SaveLast(w)
    BY <1>0, <1>1, <1>2 DEF DoneOK
  \* Every other call leaves the heartbeat alone; what is prepared is completed in one case.
  <1>3. ASSUME hb' = hb, pc'[w] \in Saving => draft'[w].status # "completed"
        PROVE  DoneOK(w)'
    BY <1>0, <1>3 DEF DoneOK
  <1>4. CASE Build(w)
    <2>1. PICK ok \in BOOLEAN :
             /\ Call(ok)
             /\ Prepare(w, "saveStage", StageStatus(stage[w], IF ok THEN log ELSE {}), FALSE, 0)
      BY <1>4 DEF Build
    <2>2. Prepare(w, "saveStage", StageStatus(stage[w], log), FALSE, 0)
      BY <2>1, NoErrors
    <2>3. draft'[w].status = StageStatus(stage[w], log) /\ hb' = hb
      BY <1>0, <1>4, <2>2 DEF Build, Prepare, LocalType, store
    <2>4. CASE stage[w] = CeoStage
      <3>1. CeoStage \in finished
        BY <1>0, <1>4, <2>4 DEF WorkerOK, OrderOK, Build, At
      <3> QED BY <1>0, <3>1 DEF DoneOK
    <2>5. CASE stage[w] # CeoStage
      BY <1>3, <1>4, <2>3, <2>5, StatusOfStage DEF Build
    <2> QED BY <2>4, <2>5
  <1>5. CASE LoadPrior(w) \/ Pause(w) \/ RejectLoad(w) \/ FailLoad(w)
    <2>1. hb' = hb
      BY <1>5 DEF LoadPrior, Pause, RejectLoad, FailLoad, store
    <2>2. \/ \E label \in Saving, status \in {"working", "paused", "failed"} :
                \E again, count : Prepare(w, label, status, again, count)
          \/ End(w)
      BY <1>5 DEF LoadPrior, Pause, RejectLoad, FailLoad, Restate
    <2>3. ASSUME NEW label \in Saving, NEW status \in {"working", "paused", "failed"},
                 NEW again, NEW count, Prepare(w, label, status, again, count)
          PROVE  draft'[w].status # "completed"
      BY <1>0, <2>3 DEF Prepare, LocalType
    <2>4. ASSUME End(w) PROVE pc'[w] \notin Saving
      BY <1>0, <2>4 DEF End, Leave, Become, LocalType
    <2> QED BY <1>3, <2>1, <2>2, <2>3, <2>4
  <1>6. CASE \/ LeaseRead(w) \/ LeaseWrite(w) \/ LeaseConfirm(w) \/ ReleaseRead(w)
             \/ ReleaseDelete(w) \/ Snapshot(w) \/ GateApproval(w) \/ GateRejection(w)
             \/ Resume(w) \/ Sweep(w) \/ Die(w)
    <2>1. pc'[w] \notin Saving
      BY <1>0, <1>6 DEF LeaseRead, LeaseWrite, LeaseConfirm, ReleaseRead, ReleaseDelete,
          Snapshot, GateApproval, GateRejection, Resume, Sweep, Die, Goto, Launch, Enter,
          Append, End, Leave, Become, LocalType
    <2>2. hb' = hb
      BY <1>6 DEF LeaseRead, LeaseWrite, LeaseConfirm, ReleaseRead, ReleaseDelete, Snapshot,
          GateApproval, GateRejection, Resume, Sweep, Die, store
    <2> QED BY <1>3, <2>1, <2>2
  <1>7. CASE \/ AppendRead(w) \/ AppendWrite(w) \/ Leader(w) \/ Ceo(w) \/ Report(w)
             \/ Start(w) \/ OwnerApproves(w) \/ OwnerRejects(w)
    <2>1. pc'[w] \notin Saving
      BY <1>0, <1>7, AppendTo DEF Leader, Ceo, Report, Start, OwnerApproves, OwnerRejects,
          Append, Launch, Become, LocalType
    <2>2. hb' = hb
      BY <1>7 DEF AppendRead, AppendWrite, Leader, Ceo, Report, Start, OwnerApproves,
          OwnerRejects, store
    <2> QED BY <1>3, <2>1, <2>2
  <1> QED BY <1>2, <1>4, <1>5, <1>6, <1>7 DEF Step

\* The budget of retries
LEMMA BudgetStep ==
    ASSUME Undisturbed', IInv, AloneInv, NEW w \in Worker,
           \/ Step(w) \/ Start(w) \/ OwnerApproves(w) \/ OwnerRejects(w) \/ Sweep(w) \/ Die(w)
    PROVE  BudgetOK(w)'
  <1>0. LocalType /\ RestType /\ BudgetOK(w) /\ draft[w] \in Heartbeat /\ retries \in Nat
    BY InvSplit DEF AloneInv, RestType
  <1>1. hb.count \in Nat /\ hb.count <= MaxAutoRetries + 1 /\ hb.retryable \in BOOLEAN
    BY <1>0, HbType
  <1> DEFINE Lease == {"leaseRead", "leaseWrite", "leaseConfirm"}
             Rest == {"loadPrior", "saveInitial", "saveStage", "saveLast"} \cup Lease
  \* Calls that neither prepare nor save a heartbeat
  <1>2. ASSUME hb' = hb, retries' = retries, pc'[w] \notin Rest PROVE BudgetOK(w)'
    BY <1>0, <1>2 DEF BudgetOK
  <1>3. CASE Sweep(w) \/ LeaseRead(w) \/ LeaseWrite(w) \/ LeaseConfirm(w)
    <2>1. hb' = hb /\ retries' = retries
      BY <1>3 DEF Sweep, LeaseRead, LeaseWrite, LeaseConfirm, store, history
    <2>2. hb.retryable
      BY <1>0, <1>3 DEF BudgetOK, Sweep, Due, LeaseRead, LeaseWrite, LeaseConfirm, At
    <2>3. pc'[w] \in Lease \cup {"loadPrior", "releaseRead", "idle"}
      BY <1>0, <1>3 DEF Sweep, LeaseRead, LeaseWrite, LeaseConfirm, Goto, Launch, End, Leave,
          Become, LocalType
    <2> QED BY <1>0, <2>1, <2>2, <2>3 DEF BudgetOK
  <1>4. CASE LoadPrior(w)
    <2>1. PICK ok \in BOOLEAN :
             /\ Call(ok)
             /\ Prepare(w, "saveInitial", "working", FALSE, IF ok THEN hb.count ELSE 0)
      BY <1>4 DEF LoadPrior
    <2>2. Prepare(w, "saveInitial", "working", FALSE, hb.count)
      BY <2>1, NoErrors
    <2>3. /\ pc[w] = "loadPrior" /\ pc'[w] = "saveInitial" /\ lane' = lane
          /\ draft'[w].count = hb.count /\ draft'[w].retryable = FALSE
          /\ hb' = hb /\ retries' = retries
      BY <1>0, <1>4, <2>2 DEF LoadPrior, Prepare, Become, LocalType, store, history, At
    <2> QED BY <1>0, <2>3 DEF BudgetOK
  <1>5. CASE SaveInitial(w)
    <2>1. hb' = draft[w]
      <3>1. PICK ok \in BOOLEAN : Call(ok) /\ hb' = IF ok THEN draft[w] ELSE hb
        BY <1>5 DEF SaveInitial, Save
      <3> QED BY <3>1, NoErrors
    <2>2. /\ pc[w] = "saveInitial" /\ pc'[w] = "snapshot"
          /\ retries' = IF lane[w] = "sweep" THEN Bump(retries) ELSE retries
      BY <1>0, <1>5 DEF SaveInitial, Goto, Become, LocalType, At
    <2>3. draft[w].count = hb.count /\ ~draft[w].retryable
      BY <1>0, <2>2 DEF BudgetOK
    <2>4. retries' <= MaxAutoRetries /\ retries' <= hb.count
      BY <1>0, <1>1, <2>2 DEF BudgetOK, Bump
    <2> QED BY <2>1, <2>2, <2>3, <2>4 DEF BudgetOK
  <1>6. CASE Build(w)
    <2>1. /\ pc'[w] = "saveStage" /\ draft'[w].count = 0 /\ draft'[w].retryable = FALSE
          /\ hb' = hb /\ retries' = retries
      BY <1>0, <1>6 DEF Build, Prepare, Become, LocalType, store, history
    <2> QED BY <1>0, <2>1 DEF BudgetOK
  <1>7. CASE SaveStage(w)
    <2>1. hb' = draft[w] /\ retries' = 0
      <3>1. PICK ok \in BOOLEAN : /\ Call(ok) /\ hb' = IF ok THEN draft[w] ELSE hb
                                  /\ retries' = IF ok THEN 0 ELSE retries
        BY <1>7 DEF SaveStage, Save
      <3> QED BY <3>1, NoErrors
    <2>2. pc'[w] \in {"report", "gate", "append"}
      BY <1>0, <1>7 DEF SaveStage, Goto, Enter, Become, LocalType
    <2>3. draft[w].count = 0 /\ ~draft[w].retryable
      BY <1>0, <1>7 DEF BudgetOK, SaveStage, At
    <2> QED BY <2>1, <2>2, <2>3 DEF BudgetOK
  <1>8. CASE Pause(w) \/ RejectLoad(w)
    <2>1. hb' = hb /\ retries' = retries
      BY <1>8 DEF Pause, RejectLoad, store, history
    <2>2. \/ /\ pc'[w] = "saveLast" /\ draft'[w].count = hb.count
             /\ draft'[w].retryable = hb.retryable
          \/ pc'[w] \in {"releaseRead", "idle"}
      BY <1>0, <1>8 DEF Pause, RejectLoad, Restate, Prepare, End, Leave, Become, LocalType
    <2> QED BY <1>0, <2>1, <2>2 DEF BudgetOK
  <1>9. CASE FailLoad(w)
    <2>1. PICK ok \in BOOLEAN, again \in BOOLEAN :
             LET prior == IF ok THEN hb.count ELSE 0
                 count == IF again THEN Bump(prior) ELSE prior
             IN Call(ok) /\ Prepare(w, "saveLast", "failed", again /\ count <= MaxAutoRetries, count)
      BY <1>9 DEF FailLoad
    <2> DEFINE count == IF again THEN Bump(hb.count) ELSE hb.count
    <2>2. Prepare(w, "saveLast", "failed", again /\ count <= MaxAutoRetries, count)
      BY <2>1, NoErrors
    <2>3. /\ pc'[w] = "saveLast" /\ draft'[w].count = count
          /\ draft'[w].retryable = (again /\ count <= MaxAutoRetries)
          /\ hb' = hb /\ retries' = retries
      BY <1>0, <1>9, <2>2 DEF FailLoad, Prepare, Become, LocalType, store, history
    <2>4. retries <= count /\ (again /\ count <= MaxAutoRetries => retries < count)
      BY <1>0, <1>1 DEF BudgetOK, Bump
    <2> HIDE DEF count
    <2> QED BY <1>0, <2>3, <2>4 DEF BudgetOK
  <1>10. CASE SaveLast(w)
    <2>1. hb' = draft[w] /\ retries' = retries
      <3>1. PICK ok \in BOOLEAN : Call(ok) /\ hb' = IF ok THEN draft[w] ELSE hb
        BY <1>10 DEF SaveLast, Save
      <3> QED BY <1>10, <3>1, NoErrors DEF SaveLast
    <2>2. pc'[w] \in {"releaseRead", "idle"}
      BY <1>0, <1>10 DEF SaveLast, End, Leave, Become, LocalType
    <2> QED BY <1>0, <1>10, <2>1, <2>2 DEF BudgetOK, SaveLast, At
  <1>11. CASE Start(w) \/ Resume(w)
    <2>1. hb' = hb /\ retries' = retries
      BY <1>11 DEF Start, Resume, store, history
    <2>2. \/ pc'[w] = "loadPrior" /\ lane'[w] # "sweep"
          \/ pc'[w] \in {"releaseRead", "idle"}
      BY <1>0, <1>11 DEF Start, Resume, Launch, End, Leave, Become, LocalType
    <2> QED BY <1>0, <2>1, <2>2 DEF BudgetOK
  <1>12. CASE \/ ReleaseRead(w) \/ ReleaseDelete(w) \/ Snapshot(w) \/ GateApproval(w)
              \/ GateRejection(w) \/ Die(w)
    <2>1. pc'[w] \notin Rest
      BY <1>0, <1>12 DEF ReleaseRead, ReleaseDelete, Snapshot, GateApproval, GateRejection,
          Die, Goto, Enter, Append, End, Leave, Become, LocalType
    <2>2. hb' = hb /\ retries' = retries
      BY <1>12 DEF ReleaseRead, ReleaseDelete, Snapshot, GateApproval, GateRejection, Die,
          store, history
    <2> QED BY <1>2, <2>1, <2>2
  <1>13. CASE \/ AppendRead(w) \/ AppendWrite(w) \/ Leader(w) \/ Ceo(w) \/ Report(w)
              \/ OwnerApproves(w) \/ OwnerRejects(w)
    <2>1. pc'[w] \notin Rest
      BY <1>0, <1>13, AppendTo DEF Leader, Ceo, Report, OwnerApproves, OwnerRejects, Append,
          Become, LocalType
    <2>2. hb' = hb /\ retries' = retries
      BY <1>13 DEF AppendRead, AppendWrite, Leader, Ceo, Report, OwnerApproves, OwnerRejects,
          store, history
    <2> QED BY <1>2, <2>1, <2>2
  <1> QED BY <1>3, <1>4, <1>5, <1>6, <1>7, <1>8, <1>9, <1>10, <1>11, <1>12, <1>13 DEF Step

\* A failure is served once: only a crash that is recorded makes a retry pending again.
LEMMA ServedStep ==
    ASSUME Undisturbed', IInv, AloneInv, NEW w \in Worker,
           \/ Step(w) \/ Start(w) \/ OwnerApproves(w) \/ OwnerRejects(w) \/ Sweep(w) \/ Die(w)
    PROVE  ServedOK(w)'
  <1>0. LocalType /\ ServedOK(w) /\ BudgetOK(w)
    BY InvSplit DEF AloneInv
  <1> DEFINE Lease == {"leaseRead", "leaseWrite", "leaseConfirm"}
             Rest == {"loadPrior", "saveInitial", "saveLast", "failLoad"}
  \* Calls that neither prepare nor save a heartbeat, nor record a crash
  <1>1. ASSUME hb' = hb, served' = served, pc'[w] \notin Rest PROVE ServedOK(w)'
    BY <1>0, <1>1 DEF ServedOK
  <1>2. CASE LeaseConfirm(w)
    <2>1. hb' = hb /\ served' = served
      BY <1>2 DEF LeaseConfirm, history
    <2>2. hb.retryable /\ ~served
      BY <1>0, <1>2 DEF BudgetOK, ServedOK, LeaseConfirm, At
    <2>3. pc'[w] \in {"loadPrior", "releaseRead", "idle"}
      BY <1>0, <1>2 DEF LeaseConfirm, Launch, End, Leave, Become, LocalType
    <2> QED BY <2>1, <2>2, <2>3 DEF ServedOK
  <1>3. CASE LoadPrior(w)
    <2>1. /\ pc[w] = "loadPrior" /\ pc'[w] = "saveInitial" /\ lane' = lane
          /\ hb' = hb /\ served' = served
      BY <1>0, <1>3 DEF LoadPrior, Prepare, Become, LocalType, store, history, At
    <2> QED BY <1>0, <2>1 DEF ServedOK
  <1>4. CASE SaveInitial(w) \/ SaveStage(w)
    <2>1. hb' = draft[w]
      <3>1. PICK ok \in BOOLEAN : Call(ok) /\ hb' = IF ok THEN draft[w] ELSE hb
        BY <1>4 DEF SaveInitial, SaveStage, Save
      <3> QED BY <3>1, NoErrors
    <2>2. ~draft[w].retryable
      BY <1>0, <1>4 DEF BudgetOK, SaveInitial, SaveStage, At
    <2>3. pc'[w] \in {"snapshot", "report", "gate", "append"}
      BY <1>0, <1>4 DEF SaveInitial, SaveStage, Goto, Enter, Become, LocalType
    <2> QED BY <2>1, <2>2, <2>3 DEF ServedOK
  <1>5. CASE Pause(w) \/ RejectLoad(w)
    <2>1. hb' = hb /\ served' = served
      BY <1>5 DEF Pause, RejectLoad, store, history
    <2>2. \/ pc'[w] = "saveLast" /\ draft'[w].retryable = hb.retryable
          \/ pc'[w] \in {"releaseRead", "idle"}
      BY <1>0, <1>5 DEF Pause, RejectLoad, Restate, Prepare, End, Leave, Become, LocalType
    <2> QED BY <1>0, <2>1, <2>2 DEF ServedOK
  <1>6. CASE FailLoad(w)
    <2>1. /\ pc[w] = "failLoad" /\ pc'[w] = "saveLast" /\ entry' = entry
          /\ hb' = hb /\ served' = served
      BY <1>0, <1>6 DEF FailLoad, Prepare, Become, LocalType, store, history, At
    <2> QED BY <1>0, <2>1 DEF ServedOK
  <1>7. CASE SaveLast(w)
    <2>1. hb' = draft[w]
      <3>1. PICK ok \in BOOLEAN : Call(ok) /\ hb' = IF ok THEN draft[w] ELSE hb
        BY <1>7 DEF SaveLast, Save
      <3> QED BY <3>1, NoErrors
    <2>2. /\ pc[w] = "saveLast" /\ pc'[w] \in {"releaseRead", "idle"}
          /\ served' = (served /\ entry[w][1] # "crashed")
      BY <1>0, <1>7 DEF SaveLast, End, Leave, Become, LocalType, At
    <2> QED BY <1>0, <2>1, <2>2 DEF ServedOK
  <1>8. CASE Start(w) \/ Resume(w)
    <2>1. hb' = hb /\ served' = served
      BY <1>8 DEF Start, Resume, store, history
    <2>2. \/ pc'[w] = "loadPrior" /\ lane'[w] # "sweep"
          \/ pc'[w] \in {"releaseRead", "idle"}
      BY <1>0, <1>8 DEF Start, Resume, Launch, End, Leave, Become, LocalType
    <2> QED BY <1>0, <2>1, <2>2 DEF ServedOK
  <1>9. CASE AppendRead(w) \/ AppendWrite(w)
    <2>1. hb' = hb /\ served' = served
      BY <1>9 DEF AppendRead, AppendWrite, store, history
    <2>2. pc'[w] = "failLoad" => entry'[w][1] = "crashed"
      <3>1. entry[w] \in Entry /\ (Become(w, "write") \/ Appended(w))
        BY <1>9, InvSplit DEF AppendRead, AppendWrite
      <3>2. CASE Become(w, "write")
        BY <1>0, <3>2 DEF Become, LocalType
      <3>3. CASE Appended(w) /\ entry[w][1] = "completed"
        BY <1>0, <3>3 DEF Appended, End, Leave, Become, LocalType
      <3>4. CASE Appended(w) /\ entry[w][1] # "completed"
        <4>1. pc'[w] = After(entry[w]) /\ entry' = entry
          BY <1>0, <3>4 DEF Appended, Goto, Become, LocalType, locals
        <4>2. After(entry[w]) = "failLoad" => entry[w][1] = "crashed"
          BY <3>1, <3>4, EntryFacts DEF After
        <4> QED BY <4>1, <4>2
      <3> QED BY <3>1, <3>2, <3>3, <3>4
    <2>3. pc'[w] \notin {"loadPrior", "saveInitial", "saveLast"}
      BY <1>9, AppendTo
    <2> QED BY <1>0, <2>1, <2>2, <2>3 DEF ServedOK
  <1>10. CASE \/ Sweep(w) \/ LeaseRead(w) \/ LeaseWrite(w) \/ ReleaseRead(w)
              \/ ReleaseDelete(w) \/ Snapshot(w) \/ GateApproval(w) \/ GateRejection(w) \/ Die(w)
    <2>1. pc'[w] \notin Rest
      BY <1>0, <1>10 DEF Sweep, LeaseRead, LeaseWrite, ReleaseRead, ReleaseDelete, Snapshot,
          GateApproval, GateRejection, Die, Goto, Enter, Append, End, Leave, Become, LocalType
    <2>2. hb' = hb /\ served' = served
      BY <1>10 DEF Sweep, LeaseRead, LeaseWrite, ReleaseRead, ReleaseDelete, Snapshot,
          GateApproval, GateRejection, Die, store, history
    <2> QED BY <1>1, <2>1, <2>2
  <1>11. CASE Leader(w) \/ Ceo(w) \/ Build(w) \/ Report(w) \/ OwnerApproves(w) \/ OwnerRejects(w)
    <2>1. pc'[w] \in {"append", "saveStage"}
      BY <1>0, <1>11 DEF Leader, Ceo, Build, Report, OwnerApproves, OwnerRejects, Append,
          Prepare, Become, LocalType
    <2>2. hb' = hb /\ served' = served
      BY <1>11 DEF Leader, Ceo, Build, Report, OwnerApproves, OwnerRejects, store, history
    <2> QED BY <1>1, <2>1, <2>2
  <1> QED BY <1>2, <1>3, <1>4, <1>5, <1>6, <1>7, <1>8, <1>9, <1>10, <1>11 DEF Step

\* The other invocations are idle before and after a step of one, and have nothing to know.
LEMMA OthersIdle ==
    ASSUME Undisturbed, Undisturbed', IInv, NEW w \in Worker, NEW v \in Worker \ {w}, Good(w),
           \/ Step(w) \/ Start(w) \/ OwnerApproves(w) \/ OwnerRejects(w) \/ Sweep(w) \/ Die(w)
    PROVE  pc'[v] = "idle"
  <1>1. pc'[v] = pc[v]
    BY DEF Good, Alone
  <1>2. LocalType
    BY InvSplit
  <1>3. Step(w) \/ Die(w) => pc[w] # "idle"
    BY DEF Step, LeaseRead, LeaseWrite, LeaseConfirm, ReleaseRead, ReleaseDelete, LoadPrior,
        SaveInitial, Snapshot, GateApproval, GateRejection, Pause, RejectLoad, Resume,
        AppendRead, AppendWrite, Leader, Ceo, Build, SaveStage, Report, FailLoad, SaveLast,
        Die, At
  <1>4. Start(w) \/ OwnerApproves(w) \/ OwnerRejects(w) \/ Sweep(w) => pc'[w] # "idle"
    BY <1>2 DEF Start, OwnerApproves, OwnerRejects, Sweep, Launch, Append, Goto, Become,
        LocalType
  <1> QED BY <1>1, <1>3, <1>4 DEF Undisturbed, At

\* Undisturbed steps keep all of it.
LEMMA AloneStep ==
    ASSUME Undisturbed, Undisturbed', IInv, AloneInv, [Next]_vars
    PROVE  AloneInv'
  <1>1. ASSUME NEW w \in Worker,
               \/ Step(w) \/ Start(w) \/ OwnerApproves(w) \/ OwnerRejects(w)
               \/ Sweep(w) \/ Die(w)
        PROVE  AloneInv'
    <2>1. LogOK' /\ EntryOK(w)' /\ LoopOK(w)'
      BY <1>1, OutsideLog, SnapshotLog, SaveStageLog, GateLog, InsideLog, WriteLog DEF Step
    <2>2. DoneOK(w)' /\ BudgetOK(w)' /\ ServedOK(w)'
      BY <1>1, StepGood, DoneStep, BudgetStep, ServedStep
    <2>3. ASSUME NEW v \in Worker \ {w}
          PROVE  (EntryOK(v) /\ LoopOK(v) /\ DoneOK(v) /\ BudgetOK(v) /\ ServedOK(v))'
      <3>1. pc'[v] = "idle"
        BY <1>1, StepGood, OthersIdle
      <3> QED
        BY <2>2, <3>1 DEF EntryOK, LoopOK, InRun, AtGate, DoneOK, BudgetOK, ServedOK
    <2>4. RetryBudgetHolds' /\ CompletedMeansCeo'
      BY <2>2 DEF DoneOK, BudgetOK, RetryBudgetHolds, CompletedMeansCeo
    <2> QED BY <2>1, <2>2, <2>3, <2>4 DEF AloneInv
  <1>2. CASE Expire \/ UNCHANGED vars
    <2>1. UNCHANGED <<log, hb, pc, locals, history>>
      BY <1>2 DEF Expire, vars, store
    <2> QED BY <2>1 DEF AloneInv, LogOK, Closed, EntryOK, LoopOK, InRun, DoneOK, BudgetOK,
                        ServedOK, RetryBudgetHolds, CompletedMeansCeo, locals, history
  <1> QED BY <1>1, <1>2 DEF Next

\* As long as nothing disturbs it the stronger invariant holds too.
LEMMA AloneInvariance == Spec /\ []Undisturbed => [](IInv /\ AloneInv)
  <1>1. Init => AloneInv
    BY DEF Init, AloneInv, LogOK, EntryOK, LoopOK, InRun, AtGate, DoneOK, BudgetOK,
        ServedOK, RetryBudgetHolds, CompletedMeansCeo, NoHeartbeat
  <1>2. Undisturbed /\ Undisturbed' /\ IInv /\ AloneInv /\ [Next]_vars => AloneInv'
    BY AloneStep
  <1> QED BY <1>1, <1>2, Invariance, PTL DEF Spec

\* As long as invocations do not overlap and no database call fails, for any number of them,
\* stages, requests, kills and any budget: no stage whose approval is in the log runs again.
THEOREM ApprovedNotRedone == Spec /\ []Undisturbed => []ApprovedStageNotRedone
  <1>1. IInv /\ AloneInv => ApprovedStageNotRedone
    BY DEF IInv, WorkerOK, StageOK, AloneInv, LoopOK, InRun, ApprovedStageNotRedone, At
  <1> QED BY <1>1, AloneInvariance, PTL

\* Likewise: the sweeps stay within the budget of retries.
THEOREM BudgetKept == Spec /\ []Undisturbed => []RetryBudgetHolds
  <1>1. AloneInv => RetryBudgetHolds
    BY DEF AloneInv
  <1> QED BY <1>1, AloneInvariance, PTL

\* Likewise: a mission shown as completed has had its CEO's stage.
THEOREM CompletedHadCeo == Spec /\ []Undisturbed => []CompletedMeansCeo
  <1>1. AloneInv => CompletedMeansCeo
    BY DEF AloneInv
  <1> QED BY <1>1, AloneInvariance, PTL

\* Likewise: a failure that is recorded is re-run by one sweep.
THEOREM OneRerun == Spec /\ []Undisturbed => OneRerunPerFailure
  <1>1. AloneInv => [\A w \in Worker : lane[w] = "sweep" /\ SaveInitial(w) => ~served]_vars
    BY DEF AloneInv, ServedOK, SaveInitial, At
  <1> QED BY <1>1, AloneInvariance, PTL DEF OneRerunPerFailure

\* An instance with one worker and no errors, as in the run PipelineSerial, is undisturbed.
THEOREM AloneIsUndisturbed ==
    MaxErrors = 0 /\ (\A v, w \in Worker : v = w) => (Spec => []Undisturbed)
  <1> SUFFICES ASSUME MaxErrors = 0, \A v, w \in Worker : v = w
               PROVE  Spec => []Undisturbed
    OBVIOUS
  <1>1. IInv => Undisturbed
    BY DEF IInv, TypeOK, Undisturbed
  <1> QED BY <1>1, Invariance, PTL

=============================================================================
