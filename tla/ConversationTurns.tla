------------------------- MODULE ConversationTurns -------------------------
(***************************************************************************)
(* One conversation with the CEO agent and the handlers that work on it at *)
(* the same time:                                                          *)
(*   - POST /api/agent accepts a message as the conversation's next turn,  *)
(*     may write the conversation's research objective, computes an answer *)
(*     and stores it unless a newer turn has been accepted;                *)
(*   - a scheduled run (schedules/tick) accepts its prompt as a turn of a  *)
(*     conversation of its own and stores an answer in the same way.       *)
(* A handler may be killed at any step and its database calls may fail.    *)
(* The transactions are those of PostgreSQL's default, READ COMMITTED.     *)
(* What is written in messages, answers and objectives is left out but for *)
(* the tickers of an objective; so are deleted conversations.              *)
(***************************************************************************)
EXTENDS Naturals, FiniteSets

CONSTANTS
    Chat,       \* POST requests to /api/agent
    Scheduled,  \* scheduled runs
    Key, NoKey, \* values of clientRequestId; NoKey: the request has none
    Ticker,     \* what a research objective can be about
    MaxTickers, \* the most one objective keeps
    MaxDeaths   \* bound: handlers the platform kills

ASSUME HandlerAssumption == IsFiniteSet(Chat) /\ IsFiniteSet(Scheduled) /\ Chat \cap Scheduled = {}
ASSUME KeyAssumption == NoKey \notin Key
ASSUME TickerAssumption == IsFiniteSet(Ticker) /\ MaxTickers \in Nat \ {0}
ASSUME BoundAssumption == MaxDeaths \in Nat

Handler == Chat \cup Scheduled

VARIABLES
    owner,      \* Conversation.userId: the session's user, nobody, or no such row
    revision,   \* Conversation.revision
    key,        \* clientRequestId of each request
    turn, row,  \* the turn a handler was given (0: none), and the turnStatus of
                \*   the user message it wrote for it
    answered,   \* has the handler's assistant message been written?
    audited,    \* is its superseded answer in the audit log?
    status, tickers,  \* the research objective it established
    lock,       \* who holds the conversation's advisory lock
    at,         \* the handler's next step
    known,      \* tickers of the objective it loaded ({}: none was active)
    want, continues,  \* its candidate ({}: none); does it continue the active one?
    seen,       \* the active objective its transaction has read
    told,       \* the event or status its client is sent
    broken      \* was it killed, or did one of its last calls fail?

turns == <<owner, revision, key, turn>>
objectives == <<status, tickers, lock, seen>>
drafts == <<known, want, continues>>
vars == <<turns, row, answered, audited, objectives, at, drafts, told, broken>>

Label == {"start", "create", "load", "accept", "prepare", "lock", "read", "write", "compute",
          "insert", "audit", "cancelled", "close", "end", "killed"}
\* "error" is the stream's error event, and the status of a request that is
\* cancelled before its stream or throws there.
Event == {"none", "not found", "unavailable", "duplicate", "error", "superseded", "answer"}

\* At most one handler of them
OneOf(S) == {{}} \cup {{p} : p \in S}

TypeOK ==
    /\ owner \in {"absent", "session", "nobody"}
    /\ revision \in Nat
    /\ key \in [Chat -> Key \cup {NoKey}]
    /\ turn \in [Handler -> Nat]
    /\ row \in [Handler -> {"none", "open", "closed"}]
    /\ answered \in [Handler -> BOOLEAN]
    /\ audited \in [Handler -> BOOLEAN]
    /\ status \in [Handler -> {"none", "active", "superseded"}]
    /\ tickers \in [Handler -> SUBSET Ticker]
    /\ lock \in OneOf(Handler)
    /\ at \in [Handler -> Label]
    /\ known \in [Handler -> SUBSET Ticker]
    /\ want \in [Handler -> SUBSET Ticker]
    /\ continues \in [Handler -> BOOLEAN]
    /\ seen \in [Handler -> OneOf(Handler)]
    /\ told \in [Handler -> Event]
    /\ broken \in [Handler -> BOOLEAN]

\* The conversation may be new, begun, or one that the scheduler made.
Init ==
    /\ owner \in {"absent", "session", "nobody"}
    /\ revision = 0
    /\ key \in [Chat -> Key \cup {NoKey}]
    /\ turn = [p \in Handler |-> 0]
    /\ row = [p \in Handler |-> "none"]
    /\ answered = [p \in Handler |-> FALSE]
    /\ audited = [p \in Handler |-> FALSE]
    /\ status = [p \in Handler |-> "none"]
    /\ tickers = [p \in Handler |-> {}]
    /\ lock = {}
    /\ at = [p \in Handler |-> "start"]
    /\ known = [p \in Handler |-> {}]
    /\ want = [p \in Handler |-> {}]
    /\ continues = [p \in Handler |-> FALSE]
    /\ seen = [p \in Handler |-> {}]
    /\ told = [p \in Handler |-> "none"]
    /\ broken = [p \in Handler |-> FALSE]

-----------------------------------------------------------------------------
(* Helpers *)

Goto(p, label) == at' = [at EXCEPT ![p] = label]
Tell(p, event) == told' = [told EXCEPT ![p] = event]
Break(p) == broken' = [broken EXCEPT ![p] = TRUE]

\* The handler is done: the stream's finally block comes first, if there is one.
Finish(p) == Goto(p, IF p \in Chat THEN "close" ELSE "end")

Active == {p \in Handler : status[p] = "active"}

\* Is the message already there?  The unique index on (conversationId,
\* clientRequestId) does not hold requests without an id apart.
Duplicate(p) ==
    /\ key[p] # NoKey
    /\ \E q \in Chat : row[q] # "none" /\ key[q] = key[p]

\* closeCeoTurnMarker: every user message of the handler's turn
Closed(p) == [q \in Handler |-> IF row[q] # "none" /\ turn[q] = turn[p] THEN "closed" ELSE row[q]]

\* The loaded objective is not looked at again.
Forget(p) == known' = [known EXCEPT ![p] = {}]

\* The objective's transaction is over, and its lock with it.
EndTransaction(p) ==
    /\ lock' = lock \ {p}
    /\ want' = [want EXCEPT ![p] = {}]
    /\ continues' = [continues EXCEPT ![p] = FALSE]
    /\ seen' = [seen EXCEPT ![p] = {}]

\* unique: the first MaxTickers of a list that begins with those of first; the
\* order of the others is a fact about a text.
Unique(first, more) ==
    {S \in SUBSET (first \cup more) :
       /\ first \subseteq S
       /\ Cardinality(S) <= MaxTickers
       /\ S = first \cup more \/ Cardinality(S) = MaxTickers}

\* mutant: the tickers of the candidate replace those of the objective
MergedAnew(p, q) == {want[p]}

\* mergedResearchObjectiveEntities
Merged(p, q) == Unique(tickers[q], want[p])

-----------------------------------------------------------------------------
(* Accepting a turn *)

Find(p) ==
    /\ at[p] = "start"
    /\ \/ owner = "absent" /\ Goto(p, "create") /\ UNCHANGED told
       \/ owner = "session" /\ Goto(p, "load") /\ UNCHANGED told
       \/ owner = "nobody" /\ Goto(p, "end") /\ Tell(p, "not found")
    /\ UNCHANGED <<turns, row, answered, audited, objectives, drafts, broken>>

\* Of two first messages one creates the conversation and the other is refused;
\* the one that creates it may not hear of it.
Create(p) ==
    /\ at[p] = "create"
    /\ owner' = IF owner = "absent" THEN "session" ELSE owner
    /\ \/ owner = "absent" /\ Goto(p, "load") /\ UNCHANGED told
       \/ Goto(p, "end") /\ Tell(p, "unavailable")
    /\ UNCHANGED <<revision, key, turn, row, answered, audited, objectives, drafts, broken>>

\* loadConversationContext and loadActiveResearchObjective, which finds nothing
\* when it fails
Load(p) ==
    /\ at[p] = "load"
    /\ \/ UNCHANGED known
       \/ \E q \in Active : known' = [known EXCEPT ![p] = tickers[q]]
    /\ Goto(p, "accept")
    /\ UNCHANGED <<turns, row, answered, audited, objectives, want, continues, told, broken>>

\* The transaction that takes the next revision and writes the user message
TakeTurn(p, marker, label) ==
    /\ revision' = revision + 1
    /\ turn' = [turn EXCEPT ![p] = revision + 1]
    /\ row' = [row EXCEPT ![p] = marker]
    /\ Goto(p, label)
    /\ UNCHANGED told

\* mutant: only a turn in progress is recognised as the same request
AcceptUnlessOpen(p) ==
    /\ at[p] = "accept"
    /\ \/ /\ key[p] # NoKey /\ \E q \in Chat : row[q] = "open" /\ key[q] = key[p]
          /\ Tell(p, "duplicate") /\ Forget(p) /\ Goto(p, "end")
          /\ UNCHANGED <<revision, turn, row>>
       \/ /\ ~(key[p] # NoKey /\ \E q \in Chat : row[q] = "open" /\ key[q] = key[p])
          /\ TakeTurn(p, "open", "prepare") /\ UNCHANGED known
    /\ UNCHANGED <<owner, key, answered, audited, objectives, want, continues, broken>>

\* A duplicate rolls the whole transaction back.
Accept(p) ==
    /\ at[p] = "accept"
    /\ \/ /\ Duplicate(p)
          /\ Tell(p, "duplicate") /\ Forget(p) /\ Goto(p, "end")
          /\ UNCHANGED <<revision, turn, row>>
       \/ /\ ~Duplicate(p)
          /\ TakeTurn(p, "open", "prepare") /\ UNCHANGED known
    /\ UNCHANGED <<owner, key, answered, audited, objectives, want, continues, broken>>

\* The calls before the turn fail.
AcceptFails(p) ==
    /\ at[p] \in {"create", "load", "accept"}
    /\ Tell(p, "unavailable") /\ Forget(p) /\ Goto(p, "end")
    /\ UNCHANGED <<turns, row, answered, audited, objectives, want, continues, broken>>

\* The transaction commits, but its outcome does not come back: the client is
\* told 503, nobody works on the turn, and its marker stays open.
AcceptUnheard(p) ==
    /\ at[p] = "accept" /\ ~Duplicate(p)
    /\ revision' = revision + 1
    /\ turn' = [turn EXCEPT ![p] = revision + 1]
    /\ row' = [row EXCEPT ![p] = "open"]
    /\ Tell(p, "unavailable") /\ Forget(p) /\ Goto(p, "end")
    /\ UNCHANGED <<owner, key, answered, audited, objectives, want, continues, broken>>

\* A scheduled run; its message is closed from the start.  If the outcome of
\* the transaction is lost it ends, as after AnswerFails.
AcceptScheduled(s) ==
    /\ at[s] = "start" /\ owner = "nobody"
    /\ TakeTurn(s, "closed", "compute")
    /\ UNCHANGED <<owner, key, answered, audited, objectives, drafts, broken>>

-----------------------------------------------------------------------------
(* Preparing the turn: the research objective *)

\* mutant: the marker is forgotten when the client cancels before the stream
CancelEarlyOpen(p) ==
    /\ at[p] = "prepare"
    /\ Forget(p) /\ Goto(p, "cancelled")
    /\ UNCHANGED <<row, turns, answered, audited, objectives, want, continues, told, broken>>

\* The client goes away while the message is interpreted: the marker is closed
\* (the error of one that cannot be closed is swallowed)...
CancelEarly(p) ==
    /\ at[p] = "prepare"
    /\ Forget(p) /\ Goto(p, "cancelled")
    /\ \/ row' = Closed(p) /\ UNCHANGED broken
       \/ Break(p) /\ UNCHANGED row
    /\ UNCHANGED <<turns, answered, audited, objectives, want, continues, told>>

\* ...and then the request is answered.
TellCancelled(p) ==
    /\ at[p] = "cancelled"
    /\ Tell(p, "error") /\ Goto(p, "end")
    /\ UNCHANGED <<turns, row, answered, audited, objectives, drafts, broken>>

\* Whether the message is about shares, which ones it names and whether it goes
\* on with the objective loaded before the turn is a fact about its text.
Prepare(p) ==
    /\ at[p] = "prepare"
    /\ \/ Goto(p, "compute") /\ UNCHANGED <<want, continues>>
       \/ \E named \in SUBSET Ticker, same \in BOOLEAN :
            \E candidate \in Unique(IF same THEN known[p] ELSE {}, named) :
              /\ same => known[p] # {}
              /\ candidate # {}
              /\ want' = [want EXCEPT ![p] = candidate]
              /\ continues' = [continues EXCEPT ![p] = same]
              /\ Goto(p, "lock")
    /\ Forget(p)
    /\ UNCHANGED <<turns, row, answered, audited, objectives, told, broken>>

\* mutant: a shared lock
LockShared(p) ==
    /\ at[p] = "lock"
    /\ lock' = lock \cup {p}
    /\ Goto(p, "read")
    /\ UNCHANGED <<turns, row, answered, audited, status, tickers, seen, drafts, told, broken>>

\* ensureResearchObjective's transaction begins: pg_advisory_xact_lock
Lock(p) ==
    /\ at[p] = "lock" /\ lock = {}
    /\ lock' = {p}
    /\ Goto(p, "read")
    /\ UNCHANGED <<turns, row, answered, audited, status, tickers, seen, drafts, told, broken>>

\* mutant: the active objective is only looked for to be continued
ReadActiveToContinue(p) ==
    /\ at[p] = "read"
    /\ \/ (Active = {} \/ ~continues[p]) /\ UNCHANGED seen
       \/ continues[p] /\ \E q \in Active : seen' = [seen EXCEPT ![p] = {q}]
    /\ Goto(p, "write")
    /\ UNCHANGED <<turns, row, answered, audited, status, tickers, lock, drafts, told, broken>>

ReadActive(p) ==
    /\ at[p] = "read"
    /\ \/ Active = {} /\ UNCHANGED seen
       \/ \E q \in Active : seen' = [seen EXCEPT ![p] = {q}]
    /\ Goto(p, "write")
    /\ UNCHANGED <<turns, row, answered, audited, status, tickers, lock, drafts, told, broken>>

\* The active objective is continued...
Continue(p) ==
    /\ at[p] = "write" /\ continues[p]
    /\ \E q \in seen[p] : \E merged \in Merged(p, q) : tickers' = [tickers EXCEPT ![q] = merged]
    /\ EndTransaction(p) /\ Goto(p, "compute")
    /\ UNCHANGED <<turns, row, answered, audited, status, known, told, broken>>

\* ...or superseded by a new one.
Establish(p) ==
    /\ at[p] = "write" /\ (continues[p] => seen[p] = {})
    /\ status' = [q \in Handler |-> IF q = p THEN "active"
                                    ELSE IF q \in seen[p] THEN "superseded" ELSE status[q]]
    /\ tickers' = [tickers EXCEPT ![p] = want[p]]
    /\ EndTransaction(p) /\ Goto(p, "compute")
    /\ UNCHANGED <<turns, row, answered, audited, known, told, broken>>

\* Any failure of the transaction, the time it may wait for the lock included,
\* rolls it back and the turn goes on.
EnsureFails(p) ==
    /\ at[p] \in {"lock", "read", "write"}
    /\ EndTransaction(p) /\ Goto(p, "compute")
    /\ UNCHANGED <<turns, row, answered, audited, status, tickers, known, told, broken>>

\* Nothing catches the error of gatherCeoSelfInspectionEvidence, one of the
\* calls between the objective and the answer.
GatherThrows(p) ==
    /\ at[p] = "compute" /\ p \in Chat
    /\ Tell(p, "error") /\ Break(p) /\ Goto(p, "end")
    /\ UNCHANGED <<turns, row, answered, audited, objectives, drafts>>

-----------------------------------------------------------------------------
(* The answer *)

\* The answer is computed (the orchestrator and the CEO lifecycle change nothing
\* here), and persistCeoAssistantMessage reads the revision...
Check(p) ==
    /\ at[p] = "compute"
    /\ \/ revision <= turn[p] /\ Goto(p, "insert") /\ UNCHANGED told
       \/ revision > turn[p] /\ p \in Chat /\ Goto(p, "audit") /\ UNCHANGED told
       \/ revision > turn[p] /\ p \in Scheduled /\ Finish(p) /\ Tell(p, "error")
    /\ UNCHANGED <<turns, row, answered, audited, objectives, drafts, broken>>

\* ...and writes the answer.
Insert(p) ==
    /\ at[p] = "insert"
    /\ answered' = [answered EXCEPT ![p] = TRUE]
    /\ Tell(p, "answer") /\ Finish(p)
    /\ UNCHANGED <<turns, row, audited, objectives, drafts, broken>>

\* The transaction commits, but its outcome does not come back.
InsertUnheard(p) ==
    /\ at[p] = "insert"
    /\ answered' = [answered EXCEPT ![p] = TRUE]
    /\ Tell(p, "error") /\ Finish(p)
    /\ UNCHANGED <<turns, row, audited, objectives, drafts, broken>>

\* mutant: the answer is sent although it could not be stored
AnswerFailsQuietly(p) ==
    /\ at[p] \in {"compute", "insert"}
    /\ Tell(p, IF at[p] = "insert" THEN "answer" ELSE "error") /\ Finish(p)
    /\ UNCHANGED <<turns, row, answered, audited, objectives, drafts, broken>>

\* An error, the time limit or the client's abort; a transaction is rolled back.
AnswerFails(p) ==
    /\ at[p] \in {"compute", "insert"}
    /\ Tell(p, "error") /\ Finish(p)
    /\ UNCHANGED <<turns, row, answered, audited, objectives, drafts, broken>>

\* recordSupersededCeoResponse, whose error is swallowed, and the client is told.
Audit(p) ==
    /\ at[p] = "audit"
    /\ \/ audited' = [audited EXCEPT ![p] = TRUE] /\ UNCHANGED broken
       \/ Break(p) /\ UNCHANGED audited
    /\ Tell(p, "superseded") /\ Finish(p)
    /\ UNCHANGED <<turns, row, answered, objectives, drafts>>

\* The stream's finally block; its error is swallowed.
Close(p) ==
    /\ at[p] = "close"
    /\ \/ row' = Closed(p) /\ UNCHANGED broken
       \/ Break(p) /\ UNCHANGED row
    /\ Goto(p, "end")
    /\ UNCHANGED <<turns, answered, audited, objectives, drafts, told>>

\* The platform kills a handler whose turn is accepted (before that it leaves
\* what AcceptFails leaves); its transaction ends.
Die(p) ==
    /\ row[p] # "none" /\ at[p] \notin {"end", "killed"}
    /\ Cardinality({q \in Handler : at[q] = "killed"}) < MaxDeaths
    /\ EndTransaction(p) /\ Forget(p) /\ Break(p) /\ Goto(p, "killed")
    /\ UNCHANGED <<turns, row, answered, audited, status, tickers, told>>

-----------------------------------------------------------------------------

Arrive(p) == p \in Chat /\ Find(p)

ChatStep(p) ==
    /\ p \in Chat
    /\ \/ Create(p) \/ Load(p) \/ Accept(p) \/ AcceptFails(p) \/ AcceptUnheard(p)
       \/ CancelEarly(p) \/ TellCancelled(p) \/ Prepare(p)
       \/ Lock(p) \/ ReadActive(p) \/ Continue(p) \/ Establish(p) \/ EnsureFails(p)
       \/ GatherThrows(p) \/ Audit(p) \/ Close(p)

AnswerStep(p) == Check(p) \/ Insert(p) \/ InsertUnheard(p) \/ AnswerFails(p)

Step(p) == ChatStep(p) \/ AnswerStep(p)

\* Nothing is left to do.
Done == (\A p \in Handler : at[p] \in {"start", "end", "killed"}) /\ UNCHANGED vars

Next ==
    \/ \E p \in Handler : Step(p) \/ Die(p)
    \/ \E p \in Chat : Arrive(p)
    \/ \E s \in Scheduled : AcceptScheduled(s)
    \/ Done

Spec == Init /\ [][Next]_vars

-----------------------------------------------------------------------------
(* Properties *)

\* route.ts, "a client retry carrying the same clientRequestId ... never
\* consumes a turn number": of the requests with one id at most one is given a
\* turn, however they overlap, and the turns given are 1 to the revision, each
\* once.
RetryNotRunAgain ==
    /\ \A p, q \in Handler : p # q /\ turn[p] = turn[q] => turn[p] = 0
    /\ \A p \in Handler : turn[p] <= revision
    /\ \A p, q \in Chat :
         p # q /\ turn[p] # 0 /\ turn[q] # 0 /\ key[p] = key[q] => key[p] = NoKey

\* What the client is told is what the conversation holds: an answer is stored,
\* a superseded answer is not and a newer turn exists, a duplicate's original
\* has been accepted; and a superseded answer is in the audit log unless writing
\* it there failed.
RepliesTruthful ==
    \A p \in Chat :
      /\ told[p] = "answer" => answered[p]
      /\ told[p] = "superseded" => ~answered[p] /\ turn[p] < revision
      /\ told[p] = "duplicate" => \E q \in Chat : q # p /\ turn[q] # 0 /\ key[q] = key[p]
      /\ told[p] = "superseded" => audited[p] \/ broken[p]

\* ensureResearchObjective serialises on the conversation: handlers that decided
\* from what they had loaded before never leave two objectives active.
OneActiveObjective == \A p, q \in Active : p = q

\* "never dropping an entity a prior turn already established": the tickers of
\* an objective only grow, although candidates are made from older versions.
TickersKept == [][\A p \in Handler : status[p] # "none" => tickers[p] \subseteq tickers'[p]]_vars

\* Nothing is done about the turn any more.
Over(p) == at[p] \in {"cancelled", "end", "killed"}

\* A turn's marker is "durable, queryable evidence of an incomplete turn"
\* (ceo-response-persistence.ts): one still open after its handler has ended
\* means that the handler was killed, threw before the stream or failed to close
\* it, or else that its client was told 503 although the turn was taken (the
\* comment there, "on every normal exit path", forgets that one).  No marker is
\* closed, by its own handler or another one, while work on its turn goes on,
\* and one that is closed without a word to the client is of a turn that has
\* left neither an answer nor an objective.
MarkersTruthful ==
    \A p \in Chat :
      /\ row[p] = "open" /\ Over(p) => broken[p] \/ told[p] = "unavailable"
      /\ row[p] = "closed" => Over(p)
      /\ row[p] = "closed" /\ told[p] = "none" => ~answered[p] /\ status[p] = "none"

\* ceo-response-persistence.ts, "the entire 'is this still current' decision and
\* the write itself are one atomic step": an answer is only written while its
\* turn is the conversation's latest.
CurrentAnswerOnly ==
    [][\A p \in Handler : answered'[p] /\ ~answered[p] => turn[p] = revision]_vars

-----------------------------------------------------------------------------
(* The promise of the objectives, kept by whoever holds the lock *)

History == INSTANCE ObjectiveHistory WITH Author <- Handler

\* ensureResearchObjective: an objective supersedes what is active when it is written, is
\* continued only while it is active and never drops a ticker, although handlers decide
\* from what they loaded before they had the lock.
ImplementsObjectives == History!Spec
=============================================================================
