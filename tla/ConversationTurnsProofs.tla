----------------------- MODULE ConversationTurnsProofs -----------------------
(***************************************************************************)
(* ConversationTurns for every number of requests, scheduled runs, request *)
(* ids and tickers, and every number of killed handlers.                   *)
(*                                                                         *)
(* Turns are distinct because the revision is taken and written in one     *)
(* step, so a handler that closes the markers of its turn closes its own.  *)
(* Objectives change only under the lock, and what its holder has read is  *)
(* still what is active when it writes.                                    *)
(***************************************************************************)
EXTENDS ConversationTurns, TLAPS

\* The labels of a handler that has no turn yet, and of one that has told its
\* client nothing yet
Waiting == {"start", "create", "load", "accept"}
Preparing == Waiting \cup {"prepare", "lock", "read", "write", "cancelled"}
Silent == Preparing \cup {"compute", "insert", "audit"}

\* Turns and rows go together.
TurnInv ==
    /\ RetryNotRunAgain
    /\ \A p \in Handler : row[p] = "none" <=> turn[p] = 0
    /\ \A p \in Handler : at[p] \in Waiting => turn[p] = 0

\* What is told, and when
ReplyInv ==
    /\ RepliesTruthful
    /\ \A p \in Handler :
         /\ at[p] \in Silent => told[p] = "none" /\ ~answered[p]
         /\ at[p] = "close" => told[p] # "none"
         /\ at[p] = "audit" => p \in Chat /\ turn[p] < revision

\* The holder of the lock, and what it has read
LockInv ==
    /\ OneActiveObjective
    /\ \A p \in Handler :
         /\ at[p] \in {"read", "write"} => lock = {p}
         /\ seen[p] = IF at[p] = "write" THEN Active ELSE {}
         /\ at[p] \in Preparing => status[p] = "none"

IInv == TypeOK /\ TurnInv /\ ReplyInv /\ MarkersTruthful /\ LockInv

\* A step of one handler
Move(p) ==
    \/ Create(p) \/ Load(p) \/ Accept(p) \/ AcceptFails(p) \/ CancelEarly(p)
    \/ Prepare(p) \/ Lock(p) \/ ReadActive(p) \/ Continue(p) \/ Establish(p)
    \/ EnsureFails(p) \/ GatherThrows(p) \/ Audit(p) \/ Close(p) \/ Check(p)
    \/ Insert(p) \/ InsertUnheard(p) \/ AnswerFails(p) \/ Die(p)
    \/ AcceptUnheard(p) \/ TellCancelled(p)
    \/ (p \in Chat /\ Find(p)) \/ (p \in Scheduled /\ AcceptScheduled(p))

-----------------------------------------------------------------------------

\* Every step of the specification is a handler's or changes nothing.
LEMMA MoveOrNot ==
    ASSUME [Next]_vars
    PROVE  (\E p \in Handler : Move(p)) \/ UNCHANGED vars
<1>1. ASSUME Next
      PROVE  (\E p \in Handler : Move(p)) \/ UNCHANGED vars
  <2>1. ASSUME NEW p \in Handler, Step(p) \/ Die(p)
        PROVE  Move(p)
        BY <2>1 DEF Step, ChatStep, AnswerStep, Move
  <2>2. ASSUME NEW p \in Chat, Arrive(p)
        PROVE  p \in Handler /\ Move(p)
        BY <2>2 DEF Arrive, Move, Handler
  <2>3. ASSUME NEW s \in Scheduled, AcceptScheduled(s)
        PROVE  s \in Handler /\ Move(s)
        BY <2>3 DEF Move, Handler
  <2> QED BY <1>1, <2>1, <2>2, <2>3 DEF Next, Done
<1> QED BY <1>1

\* What unique keeps of two lists
LEMMA UniqueBounds ==
    ASSUME NEW first, NEW more, NEW S \in Unique(first, more)
    PROVE  first \subseteq S /\ S \subseteq first \cup more
BY DEF Unique

\* Every step keeps the type invariant.
LEMMA TypeStep ==
    ASSUME TypeOK, [Next]_vars
    PROVE  TypeOK'
<1>1. ASSUME NEW p \in Handler, Move(p)
      PROVE  TypeOK'
  <2>1. ASSUME Create(p)
        PROVE  TypeOK'
    <3>1. at' \in [Handler -> Label]
          BY <2>1 DEF TypeOK, Create, Goto, Tell, Label
    <3>2. told' \in [Handler -> Event]
          BY <2>1 DEF TypeOK, Create, Goto, Tell, Event
    <3>3. owner' \in {"absent", "session", "nobody"}
          BY <2>1 DEF TypeOK, Create, Goto, Tell
    <3> QED BY <2>1, <3>1, <3>2, <3>3 DEF TypeOK, Create, turns, objectives, drafts
  <2>2. ASSUME Load(p)
        PROVE  TypeOK'
    <3>1. at' \in [Handler -> Label]
          BY <2>2 DEF TypeOK, Load, Goto, Label
    <3>2. known' \in [Handler -> SUBSET Ticker]
          BY <2>2 DEF TypeOK, Load, Goto, Active
    <3> QED BY <2>2, <3>1, <3>2 DEF TypeOK, Load, turns, objectives, drafts
  <2>3. ASSUME Accept(p)
        PROVE  TypeOK'
    <3>1. at' \in [Handler -> Label]
          BY <2>3 DEF TypeOK, Accept, Goto, Tell, Forget, TakeTurn, Label
    <3>2. told' \in [Handler -> Event]
          BY <2>3 DEF TypeOK, Accept, Goto, Tell, Forget, TakeTurn, Event
    <3>3. known' \in [Handler -> SUBSET Ticker]
          BY <2>3 DEF TypeOK, Accept, Goto, Tell, Forget, TakeTurn
    <3>4. revision' \in Nat /\ turn' \in [Handler -> Nat]
          BY <2>3 DEF TypeOK, Accept, Goto, Tell, Forget, TakeTurn
    <3>5. row' \in [Handler -> {"none", "open", "closed"}]
          BY <2>3 DEF TypeOK, Accept, Goto, Tell, Forget, TakeTurn
    <3> QED BY <2>3, <3>1, <3>2, <3>3, <3>4, <3>5 DEF TypeOK, Accept, turns, objectives, drafts
  <2>4. ASSUME AcceptFails(p)
        PROVE  TypeOK'
        BY <2>4, TypeOK
           DEF AcceptFails, Goto, Tell, Forget, TypeOK, Label, Event, OneOf, turns,
           objectives, drafts
  <2>5. ASSUME CancelEarly(p)
        PROVE  TypeOK'
        BY <2>5, TypeOK
           DEF CancelEarly, Goto, Tell, Forget, Break, TypeOK, Label, Event, OneOf, Closed,
           turns, objectives, drafts
  <2>6. ASSUME Prepare(p)
        PROVE  TypeOK'
    <3>1. at' \in [Handler -> Label]
          BY <2>6 DEF TypeOK, Prepare, Goto, Forget, Label
    <3>2. known' \in [Handler -> SUBSET Ticker]
          BY <2>6 DEF TypeOK, Prepare, Goto, Forget
    <3>3. want' \in [Handler -> SUBSET Ticker]
      <4>1. \A named \in SUBSET Ticker, same \in BOOLEAN :
              Unique(IF same THEN known[p] ELSE {}, named) \subseteq SUBSET Ticker
            BY UniqueBounds DEF TypeOK
      <4>2. want' = want \/ \E candidate \in SUBSET Ticker : want' = [want EXCEPT ![p] = candidate]
            BY <2>6, <4>1 DEF Prepare
      <4> QED BY <4>2 DEF TypeOK
    <3>4. continues' \in [Handler -> BOOLEAN]
          BY <2>6 DEF TypeOK, Prepare, Goto, Forget
    <3> QED BY <2>6, <3>1, <3>2, <3>3, <3>4 DEF TypeOK, Prepare, turns, objectives, drafts
  <2>7. ASSUME Lock(p)
        PROVE  TypeOK'
        BY <2>7, TypeOK
           DEF Lock, Goto, TypeOK, Label, Event, OneOf, turns, objectives, drafts
  <2>8. ASSUME ReadActive(p)
        PROVE  TypeOK'
    <3>1. at' \in [Handler -> Label]
          BY <2>8 DEF TypeOK, ReadActive, Goto, Label
    <3>2. seen' \in [Handler -> OneOf(Handler)]
          BY <2>8 DEF TypeOK, ReadActive, Goto, Active, OneOf
    <3> QED BY <2>8, <3>1, <3>2 DEF TypeOK, ReadActive, turns, objectives, drafts
  <2>9. ASSUME Continue(p)
        PROVE  TypeOK'
    <3>1. at' \in [Handler -> Label]
          BY <2>9 DEF TypeOK, Continue, Goto, EndTransaction, Label
    <3>2. tickers' \in [Handler -> SUBSET Ticker]
      <4>1. \A q \in Handler : \A merged \in Merged(p, q) : merged \in SUBSET Ticker
            BY UniqueBounds DEF Merged, TypeOK
      <4>2. seen[p] \subseteq Handler
            BY DEF TypeOK, OneOf
      <4> QED BY <2>9, <4>1, <4>2 DEF Continue, TypeOK
    <3>3. lock' \in OneOf(Handler) /\ seen' \in [Handler -> OneOf(Handler)]
          BY <2>9 DEF TypeOK, Continue, Goto, EndTransaction, OneOf
    <3>4. want' \in [Handler -> SUBSET Ticker] /\ continues' \in [Handler -> BOOLEAN]
          BY <2>9 DEF TypeOK, Continue, Goto, EndTransaction
    <3> QED BY <2>9, <3>1, <3>2, <3>3, <3>4 DEF TypeOK, Continue, turns, objectives, drafts
  <2>10. ASSUME Establish(p)
        PROVE  TypeOK'
        BY <2>10, TypeOK
           DEF Establish, Goto, EndTransaction, TypeOK, Label, Event, OneOf, turns,
           objectives, drafts
  <2>11. ASSUME EnsureFails(p)
        PROVE  TypeOK'
        BY <2>11, TypeOK
           DEF EnsureFails, Goto, EndTransaction, TypeOK, Label, Event, OneOf, turns,
           objectives, drafts
  <2>12. ASSUME GatherThrows(p)
        PROVE  TypeOK'
        BY <2>12, TypeOK
           DEF GatherThrows, Goto, Tell, Break, TypeOK, Label, Event, OneOf, turns,
           objectives, drafts
  <2>13. ASSUME Audit(p)
        PROVE  TypeOK'
        BY <2>13, TypeOK
           DEF Audit, Goto, Tell, Break, Finish, TypeOK, Label, Event, OneOf, turns,
           objectives, drafts
  <2>14. ASSUME Close(p)
        PROVE  TypeOK'
        BY <2>14, TypeOK
           DEF Close, Goto, Break, TypeOK, Label, Event, OneOf, Closed, turns, objectives,
           drafts
  <2>15. ASSUME Check(p)
        PROVE  TypeOK'
    <3>1. at' \in [Handler -> Label]
          BY <2>15 DEF TypeOK, Check, Goto, Tell, Finish, Label
    <3>2. told' \in [Handler -> Event]
          BY <2>15 DEF TypeOK, Check, Goto, Tell, Finish, Event
    <3> QED BY <2>15, <3>1, <3>2 DEF TypeOK, Check, turns, objectives, drafts
  <2>16. ASSUME Insert(p)
        PROVE  TypeOK'
        BY <2>16, TypeOK
           DEF Insert, Goto, Tell, Finish, TypeOK, Label, Event, OneOf, turns, objectives,
           drafts
  <2>17. ASSUME InsertUnheard(p)
        PROVE  TypeOK'
        BY <2>17, TypeOK
           DEF InsertUnheard, Goto, Tell, Finish, TypeOK, Label, Event, OneOf, turns,
           objectives, drafts
  <2>18. ASSUME AnswerFails(p)
        PROVE  TypeOK'
        BY <2>18, TypeOK
           DEF AnswerFails, Goto, Tell, Finish, TypeOK, Label, Event, OneOf, turns,
           objectives, drafts
  <2>19. ASSUME Die(p)
        PROVE  TypeOK'
        BY <2>19, TypeOK
           DEF Die, Goto, Break, EndTransaction, Forget, TypeOK, Label, Event, OneOf, turns,
           objectives, drafts
  <2>20. ASSUME Find(p), p \in Chat
        PROVE  TypeOK'
    <3>1. at' \in [Handler -> Label]
      <4>1. at \in [Handler -> Label] /\ {"create", "load", "end"} \subseteq Label
            BY DEF TypeOK, Label
      <4>2. Goto(p, "create") \/ Goto(p, "load") \/ Goto(p, "end")
            BY <2>20 DEF Find
      <4> QED BY <4>1, <4>2 DEF Goto
    <3>2. told' \in [Handler -> Event]
          BY <2>20 DEF TypeOK, Find, Goto, Tell, Event
    <3> QED BY <2>20, <3>1, <3>2 DEF TypeOK, Find, turns, objectives, drafts
  <2>21. ASSUME AcceptScheduled(p), p \in Scheduled
        PROVE  TypeOK'
    <3>1. at' \in [Handler -> Label]
          BY <2>21 DEF TypeOK, AcceptScheduled, Goto, TakeTurn, Label
    <3>2. revision' \in Nat /\ turn' \in [Handler -> Nat]
          BY <2>21 DEF TypeOK, AcceptScheduled, Goto, TakeTurn
    <3>3. row' \in [Handler -> {"none", "open", "closed"}]
          BY <2>21 DEF TypeOK, AcceptScheduled, Goto, TakeTurn
    <3> QED BY <2>21, <3>1, <3>2, <3>3 DEF TypeOK, TakeTurn, AcceptScheduled, turns,
                objectives, drafts
  <2>22. ASSUME AcceptUnheard(p)
        PROVE  TypeOK'
    <3>1. at' \in [Handler -> Label] /\ told' \in [Handler -> Event]
          BY <2>22 DEF TypeOK, AcceptUnheard, Goto, Tell, Label, Event
    <3>2. revision' \in Nat /\ turn' \in [Handler -> Nat]
          BY <2>22 DEF TypeOK, AcceptUnheard
    <3>3. row' \in [Handler -> {"none", "open", "closed"}] /\ known' \in [Handler -> SUBSET Ticker]
          BY <2>22 DEF TypeOK, AcceptUnheard, Forget
    <3> QED BY <2>22, <3>1, <3>2, <3>3 DEF TypeOK, AcceptUnheard, objectives
  <2>23. ASSUME TellCancelled(p)
        PROVE  TypeOK'
        BY <2>23, TypeOK
           DEF TellCancelled, Goto, Tell, TypeOK, Label, Event, OneOf, turns,
           objectives, drafts
  <2> QED BY <1>1, <2>1, <2>2, <2>3, <2>4, <2>5, <2>6, <2>7, <2>8, <2>9, <2>10, <2>11, <2>12,
              <2>13, <2>14, <2>15, <2>16, <2>17, <2>18, <2>19, <2>20, <2>21, <2>22, <2>23
          DEF Move
<1>2. ASSUME UNCHANGED vars
      PROVE  TypeOK'
      BY <1>2 DEF vars, turns, objectives, drafts, TypeOK, Label, Event, OneOf
<1> QED BY <1>1, <1>2, MoveOrNot

\* A turn is given once, and a request id gets one turn.
LEMMA TurnStep ==
    ASSUME TypeOK, TurnInv, [Next]_vars
    PROVE  TurnInv'
<1>1. ASSUME NEW p \in Handler, Move(p)
      PROVE  TurnInv'
  <2>1. ASSUME Create(p)
        PROVE  TurnInv'
        BY <2>1, HandlerAssumption
           DEF Create, Goto, Tell, TypeOK, TurnInv, RetryNotRunAgain, Waiting, Handler,
           turns, objectives, drafts
  <2>2. ASSUME Load(p)
        PROVE  TurnInv'
        BY <2>2, HandlerAssumption
           DEF Load, Goto, TypeOK, TurnInv, RetryNotRunAgain, Waiting, Handler, turns,
           objectives, drafts
  <2>3. ASSUME Accept(p)
        PROVE  TurnInv'
        BY <2>3, HandlerAssumption
           DEF Accept, Goto, Tell, Forget, TakeTurn, TypeOK, TurnInv, RetryNotRunAgain,
           Waiting, Handler, Duplicate, turns, objectives, drafts
  <2>4. ASSUME AcceptFails(p)
        PROVE  TurnInv'
        BY <2>4, HandlerAssumption
           DEF AcceptFails, Goto, Tell, Forget, TypeOK, TurnInv, RetryNotRunAgain, Waiting,
           Handler, turns, objectives, drafts
  <2>5. ASSUME CancelEarly(p)
        PROVE  TurnInv'
        BY <2>5, HandlerAssumption
           DEF CancelEarly, Goto, Tell, Forget, Break, TypeOK, TurnInv, RetryNotRunAgain,
           Waiting, Handler, Closed, turns, objectives, drafts
  <2>6. ASSUME Prepare(p)
        PROVE  TurnInv'
        BY <2>6, HandlerAssumption
           DEF Prepare, Goto, Forget, TypeOK, TurnInv, RetryNotRunAgain, Waiting, Handler,
           turns, objectives, drafts
  <2>7. ASSUME Lock(p)
        PROVE  TurnInv'
        BY <2>7, HandlerAssumption
           DEF Lock, Goto, TypeOK, TurnInv, RetryNotRunAgain, Waiting, Handler, turns,
           objectives, drafts
  <2>8. ASSUME ReadActive(p)
        PROVE  TurnInv'
        BY <2>8, HandlerAssumption
           DEF ReadActive, Goto, TypeOK, TurnInv, RetryNotRunAgain, Waiting, Handler, turns,
           objectives, drafts
  <2>9. ASSUME Continue(p)
        PROVE  TurnInv'
        BY <2>9, HandlerAssumption
           DEF Continue, Goto, EndTransaction, TypeOK, TurnInv, RetryNotRunAgain, Waiting,
           Handler, turns, objectives, drafts
  <2>10. ASSUME Establish(p)
        PROVE  TurnInv'
        BY <2>10, HandlerAssumption
           DEF Establish, Goto, EndTransaction, TypeOK, TurnInv, RetryNotRunAgain, Waiting,
           Handler, turns, objectives, drafts
  <2>11. ASSUME EnsureFails(p)
        PROVE  TurnInv'
        BY <2>11, HandlerAssumption
           DEF EnsureFails, Goto, EndTransaction, TypeOK, TurnInv, RetryNotRunAgain, Waiting,
           Handler, turns, objectives, drafts
  <2>12. ASSUME GatherThrows(p)
        PROVE  TurnInv'
        BY <2>12, HandlerAssumption
           DEF GatherThrows, Goto, Tell, Break, TypeOK, TurnInv, RetryNotRunAgain, Waiting,
           Handler, turns, objectives, drafts
  <2>13. ASSUME Audit(p)
        PROVE  TurnInv'
        BY <2>13, HandlerAssumption
           DEF Audit, Goto, Tell, Break, Finish, TypeOK, TurnInv, RetryNotRunAgain, Waiting,
           Handler, turns, objectives, drafts
  <2>14. ASSUME Close(p)
        PROVE  TurnInv'
        BY <2>14, HandlerAssumption
           DEF Close, Goto, Break, TypeOK, TurnInv, RetryNotRunAgain, Waiting, Handler,
           Closed, turns, objectives, drafts
  <2>15. ASSUME Check(p)
        PROVE  TurnInv'
        BY <2>15, HandlerAssumption
           DEF Check, Goto, Tell, Finish, TypeOK, TurnInv, RetryNotRunAgain, Waiting,
           Handler, turns, objectives, drafts
  <2>16. ASSUME Insert(p)
        PROVE  TurnInv'
        BY <2>16, HandlerAssumption
           DEF Insert, Goto, Tell, Finish, TypeOK, TurnInv, RetryNotRunAgain, Waiting,
           Handler, turns, objectives, drafts
  <2>17. ASSUME InsertUnheard(p)
        PROVE  TurnInv'
        BY <2>17, HandlerAssumption
           DEF InsertUnheard, Goto, Tell, Finish, TypeOK, TurnInv, RetryNotRunAgain, Waiting,
           Handler, turns, objectives, drafts
  <2>18. ASSUME AnswerFails(p)
        PROVE  TurnInv'
        BY <2>18, HandlerAssumption
           DEF AnswerFails, Goto, Tell, Finish, TypeOK, TurnInv, RetryNotRunAgain, Waiting,
           Handler, turns, objectives, drafts
  <2>19. ASSUME Die(p)
        PROVE  TurnInv'
        BY <2>19, HandlerAssumption
           DEF Die, Goto, Break, EndTransaction, Forget, TypeOK, TurnInv, RetryNotRunAgain,
           Waiting, Handler, turns, objectives, drafts
  <2>20. ASSUME Find(p), p \in Chat
        PROVE  TurnInv'
        BY <2>20, HandlerAssumption
           DEF Find, Goto, Tell, TypeOK, TurnInv, RetryNotRunAgain, Waiting, Handler, turns,
           objectives, drafts
  <2>21. ASSUME AcceptScheduled(p), p \in Scheduled
        PROVE  TurnInv'
        BY <2>21, HandlerAssumption
           DEF AcceptScheduled, Goto, TakeTurn, TypeOK, TurnInv, RetryNotRunAgain, Waiting,
           Handler, turns, objectives, drafts
  <2>22. ASSUME AcceptUnheard(p)
        PROVE  TurnInv'
        BY <2>22, HandlerAssumption
           DEF AcceptUnheard, Goto, Tell, Forget, TypeOK, TurnInv, RetryNotRunAgain, Waiting, Handler, turns, objectives, drafts, Duplicate
  <2>23. ASSUME TellCancelled(p)
        PROVE  TurnInv'
        BY <2>23, HandlerAssumption
           DEF TellCancelled, Goto, Tell, TypeOK, TurnInv, RetryNotRunAgain, Waiting, Handler, turns, objectives, drafts
  <2> QED BY <1>1, <2>1, <2>2, <2>3, <2>4, <2>5, <2>6, <2>7, <2>8, <2>9, <2>10, <2>11, <2>12,
              <2>13, <2>14, <2>15, <2>16, <2>17, <2>18, <2>19, <2>20, <2>21, <2>22, <2>23
          DEF Move
<1>2. ASSUME UNCHANGED vars
      PROVE  TurnInv'
      BY <1>2 DEF vars, turns, objectives, drafts, TypeOK, TurnInv, RetryNotRunAgain,
          Waiting, Handler
<1> QED BY <1>1, <1>2, MoveOrNot

\* Nothing is told that the conversation does not hold.
LEMMA ReplyStep ==
    ASSUME TypeOK, TurnInv, ReplyInv, [Next]_vars
    PROVE  ReplyInv'
<1>1. ASSUME NEW p \in Handler, Move(p)
      PROVE  ReplyInv'
  <2>1. ASSUME Create(p)
        PROVE  ReplyInv'
        BY <2>1, HandlerAssumption
           DEF Create, Goto, Tell, TypeOK, TurnInv, RetryNotRunAgain, ReplyInv,
           RepliesTruthful, Silent, Preparing, Waiting, Handler, turns, objectives, drafts
  <2>2. ASSUME Load(p)
        PROVE  ReplyInv'
        BY <2>2, HandlerAssumption
           DEF Load, Goto, TypeOK, TurnInv, RetryNotRunAgain, ReplyInv, RepliesTruthful,
           Silent, Preparing, Waiting, Handler, turns, objectives, drafts
  <2>3. ASSUME Accept(p)
        PROVE  ReplyInv'
        BY <2>3, HandlerAssumption
           DEF Accept, Goto, Tell, Forget, TakeTurn, TypeOK, TurnInv, RetryNotRunAgain,
           ReplyInv, RepliesTruthful, Silent, Preparing, Waiting, Handler, Duplicate, turns,
           objectives, drafts
  <2>4. ASSUME AcceptFails(p)
        PROVE  ReplyInv'
        BY <2>4, HandlerAssumption
           DEF AcceptFails, Goto, Tell, Forget, TypeOK, TurnInv, RetryNotRunAgain, ReplyInv,
           RepliesTruthful, Silent, Preparing, Waiting, Handler, turns, objectives, drafts
  <2>5. ASSUME CancelEarly(p)
        PROVE  ReplyInv'
        BY <2>5, HandlerAssumption
           DEF CancelEarly, Goto, Tell, Forget, Break, TypeOK, TurnInv, RetryNotRunAgain,
           ReplyInv, RepliesTruthful, Silent, Preparing, Waiting, Handler, Closed, turns,
           objectives, drafts
  <2>6. ASSUME Prepare(p)
        PROVE  ReplyInv'
        BY <2>6, HandlerAssumption
           DEF Prepare, Goto, Forget, TypeOK, TurnInv, RetryNotRunAgain, ReplyInv,
           RepliesTruthful, Silent, Preparing, Waiting, Handler, turns, objectives, drafts
  <2>7. ASSUME Lock(p)
        PROVE  ReplyInv'
        BY <2>7, HandlerAssumption
           DEF Lock, Goto, TypeOK, TurnInv, RetryNotRunAgain, ReplyInv, RepliesTruthful,
           Silent, Preparing, Waiting, Handler, turns, objectives, drafts
  <2>8. ASSUME ReadActive(p)
        PROVE  ReplyInv'
        BY <2>8, HandlerAssumption
           DEF ReadActive, Goto, TypeOK, TurnInv, RetryNotRunAgain, ReplyInv,
           RepliesTruthful, Silent, Preparing, Waiting, Handler, turns, objectives, drafts
  <2>9. ASSUME Continue(p)
        PROVE  ReplyInv'
        BY <2>9, HandlerAssumption
           DEF Continue, Goto, EndTransaction, TypeOK, TurnInv, RetryNotRunAgain, ReplyInv,
           RepliesTruthful, Silent, Preparing, Waiting, Handler, turns, objectives, drafts
  <2>10. ASSUME Establish(p)
        PROVE  ReplyInv'
        BY <2>10, HandlerAssumption
           DEF Establish, Goto, EndTransaction, TypeOK, TurnInv, RetryNotRunAgain, ReplyInv,
           RepliesTruthful, Silent, Preparing, Waiting, Handler, turns, objectives, drafts
  <2>11. ASSUME EnsureFails(p)
        PROVE  ReplyInv'
        BY <2>11, HandlerAssumption
           DEF EnsureFails, Goto, EndTransaction, TypeOK, TurnInv, RetryNotRunAgain,
           ReplyInv, RepliesTruthful, Silent, Preparing, Waiting, Handler, turns, objectives,
           drafts
  <2>12. ASSUME GatherThrows(p)
        PROVE  ReplyInv'
        BY <2>12, HandlerAssumption
           DEF GatherThrows, Goto, Tell, Break, TypeOK, TurnInv, RetryNotRunAgain, ReplyInv,
           RepliesTruthful, Silent, Preparing, Waiting, Handler, turns, objectives, drafts
  <2>13. ASSUME Audit(p)
        PROVE  ReplyInv'
        BY <2>13, HandlerAssumption
           DEF Audit, Goto, Tell, Break, Finish, TypeOK, TurnInv, RetryNotRunAgain, ReplyInv,
           RepliesTruthful, Silent, Preparing, Waiting, Handler, turns, objectives, drafts
  <2>14. ASSUME Close(p)
        PROVE  ReplyInv'
        BY <2>14, HandlerAssumption
           DEF Close, Goto, Break, TypeOK, TurnInv, RetryNotRunAgain, ReplyInv,
           RepliesTruthful, Silent, Preparing, Waiting, Handler, Closed, turns, objectives,
           drafts
  <2>15. ASSUME Check(p)
        PROVE  ReplyInv'
        BY <2>15, HandlerAssumption
           DEF Check, Goto, Tell, Finish, TypeOK, TurnInv, RetryNotRunAgain, ReplyInv,
           RepliesTruthful, Silent, Preparing, Waiting, Handler, turns, objectives, drafts
  <2>16. ASSUME Insert(p)
        PROVE  ReplyInv'
        BY <2>16, HandlerAssumption
           DEF Insert, Goto, Tell, Finish, TypeOK, TurnInv, RetryNotRunAgain, ReplyInv,
           RepliesTruthful, Silent, Preparing, Waiting, Handler, turns, objectives, drafts
  <2>17. ASSUME InsertUnheard(p)
        PROVE  ReplyInv'
        BY <2>17, HandlerAssumption
           DEF InsertUnheard, Goto, Tell, Finish, TypeOK, TurnInv, RetryNotRunAgain,
           ReplyInv, RepliesTruthful, Silent, Preparing, Waiting, Handler, turns, objectives,
           drafts
  <2>18. ASSUME AnswerFails(p)
        PROVE  ReplyInv'
        BY <2>18, HandlerAssumption
           DEF AnswerFails, Goto, Tell, Finish, TypeOK, TurnInv, RetryNotRunAgain, ReplyInv,
           RepliesTruthful, Silent, Preparing, Waiting, Handler, turns, objectives, drafts
  <2>19. ASSUME Die(p)
        PROVE  ReplyInv'
        BY <2>19, HandlerAssumption
           DEF Die, Goto, Break, EndTransaction, Forget, TypeOK, TurnInv, RetryNotRunAgain,
           ReplyInv, RepliesTruthful, Silent, Preparing, Waiting, Handler, turns, objectives,
           drafts
  <2>20. ASSUME Find(p), p \in Chat
        PROVE  ReplyInv'
    <3>1. at[p] = "start" /\ told[p] = "none" /\ p \in Handler
          BY <2>20 DEF Find, ReplyInv, Silent, Preparing, Waiting, Handler
    <3>2. CASE owner = "nobody"
      <4>1. /\ at' = [at EXCEPT ![p] = "end"]
            /\ told' = [told EXCEPT ![p] = "not found"]
            /\ UNCHANGED <<revision, key, turn, answered, audited, broken>>
            BY <2>20, <3>2 DEF Find, Goto, Tell, turns
      <4>2. \A q \in Handler : q # p => at'[q] = at[q] /\ told'[q] = told[q]
            BY <4>1 DEF TypeOK
      <4>3. at'[p] = "end" /\ told'[p] = "not found"
            BY <3>1, <4>1 DEF TypeOK
      <4>4. RepliesTruthful'
            BY <4>1, <4>2, <4>3 DEF ReplyInv, RepliesTruthful, Handler
      <4> QED BY <4>1, <4>2, <4>3, <4>4 DEF ReplyInv, Silent, Preparing, Waiting
    <3>3. CASE owner # "nobody"
      <4>1. /\ UNCHANGED <<told, revision, key, turn, answered, audited, broken>>
            /\ Goto(p, "create") \/ Goto(p, "load")
            BY <2>20, <3>3 DEF Find, turns
      <4>2. at'[p] \in Waiting /\ \A q \in Handler : q # p => at'[q] = at[q]
            BY <3>1, <4>1 DEF Goto, TypeOK, Waiting
      <4>3. RepliesTruthful'
            BY <4>1 DEF ReplyInv, RepliesTruthful
      <4> QED BY <3>1, <4>1, <4>2, <4>3 DEF ReplyInv, Silent, Preparing, Waiting
    <3> QED BY <3>2, <3>3
  <2>21. ASSUME AcceptScheduled(p), p \in Scheduled
        PROVE  ReplyInv'
        BY <2>21, HandlerAssumption
           DEF AcceptScheduled, Goto, TakeTurn, TypeOK, TurnInv, RetryNotRunAgain, ReplyInv,
           RepliesTruthful, Silent, Preparing, Waiting, Handler, turns, objectives, drafts
  <2>22. ASSUME AcceptUnheard(p)
        PROVE  ReplyInv'
        BY <2>22, HandlerAssumption
           DEF AcceptUnheard, Goto, Tell, Forget, TypeOK, TurnInv, RetryNotRunAgain, ReplyInv, RepliesTruthful,
           Silent, Preparing, Waiting, Handler, Duplicate, turns, objectives, drafts
  <2>23. ASSUME TellCancelled(p)
        PROVE  ReplyInv'
        BY <2>23, HandlerAssumption
           DEF TellCancelled, Goto, Tell, TypeOK, TurnInv, RetryNotRunAgain, ReplyInv, RepliesTruthful,
           Silent, Preparing, Waiting, Handler, Duplicate, turns, objectives, drafts
  <2> QED BY <1>1, <2>1, <2>2, <2>3, <2>4, <2>5, <2>6, <2>7, <2>8, <2>9, <2>10, <2>11, <2>12,
              <2>13, <2>14, <2>15, <2>16, <2>17, <2>18, <2>19, <2>20, <2>21, <2>22, <2>23
          DEF Move
<1>2. ASSUME UNCHANGED vars
      PROVE  ReplyInv'
      BY <1>2 DEF vars, turns, objectives, drafts, TypeOK, TurnInv, RetryNotRunAgain,
          ReplyInv, RepliesTruthful, Silent, Preparing, Waiting, Handler
<1> QED BY <1>1, <1>2, MoveOrNot

\* A handler closes its own marker, last of all.
LEMMA MarkerStep ==
    ASSUME TypeOK, TurnInv, ReplyInv, LockInv, MarkersTruthful, [Next]_vars
    PROVE  MarkersTruthful'
<1>1. ASSUME NEW p \in Handler, Move(p)
      PROVE  MarkersTruthful'
  <2>1. ASSUME Create(p)
        PROVE  MarkersTruthful'
        BY <2>1, HandlerAssumption
           DEF Create, Goto, Tell, TypeOK, TurnInv, RetryNotRunAgain, ReplyInv, LockInv,
           MarkersTruthful, Over, Silent, Preparing, Waiting, Handler, turns, objectives, drafts
  <2>2. ASSUME Load(p)
        PROVE  MarkersTruthful'
        BY <2>2, HandlerAssumption
           DEF Load, Goto, TypeOK, TurnInv, RetryNotRunAgain, ReplyInv, LockInv,
           MarkersTruthful, Over, Silent, Preparing, Waiting, Handler, turns, objectives, drafts
  <2>3. ASSUME Accept(p)
        PROVE  MarkersTruthful'
        BY <2>3, HandlerAssumption
           DEF Accept, Goto, Tell, Forget, TakeTurn, TypeOK, TurnInv, RetryNotRunAgain,
           ReplyInv, LockInv, MarkersTruthful, Over, Silent, Preparing, Waiting, Handler, Duplicate,
           turns, objectives, drafts
  <2>4. ASSUME AcceptFails(p)
        PROVE  MarkersTruthful'
        BY <2>4, HandlerAssumption
           DEF AcceptFails, Goto, Tell, Forget, TypeOK, TurnInv, RetryNotRunAgain, ReplyInv, LockInv,
           MarkersTruthful, Over, Silent, Preparing, Waiting, Handler, turns, objectives, drafts
  <2>5. ASSUME CancelEarly(p)
        PROVE  MarkersTruthful'
        BY <2>5, HandlerAssumption
           DEF CancelEarly, Goto, Tell, Forget, Break, TypeOK, TurnInv, RetryNotRunAgain,
           ReplyInv, LockInv, MarkersTruthful, Over, Silent, Preparing, Waiting, Handler, Closed,
           turns, objectives, drafts
  <2>6. ASSUME Prepare(p)
        PROVE  MarkersTruthful'
        BY <2>6, HandlerAssumption
           DEF Prepare, Goto, Forget, TypeOK, TurnInv, RetryNotRunAgain, ReplyInv, LockInv,
           MarkersTruthful, Over, Silent, Preparing, Waiting, Handler, turns, objectives, drafts
  <2>7. ASSUME Lock(p)
        PROVE  MarkersTruthful'
        BY <2>7, HandlerAssumption
           DEF Lock, Goto, TypeOK, TurnInv, RetryNotRunAgain, ReplyInv, LockInv,
           MarkersTruthful, Over, Silent, Preparing, Waiting, Handler, turns, objectives, drafts
  <2>8. ASSUME ReadActive(p)
        PROVE  MarkersTruthful'
        BY <2>8, HandlerAssumption
           DEF ReadActive, Goto, TypeOK, TurnInv, RetryNotRunAgain, ReplyInv, LockInv,
           MarkersTruthful, Over, Silent, Preparing, Waiting, Handler, turns, objectives, drafts
  <2>9. ASSUME Continue(p)
        PROVE  MarkersTruthful'
        BY <2>9, HandlerAssumption
           DEF Continue, Goto, EndTransaction, TypeOK, TurnInv, RetryNotRunAgain, ReplyInv, LockInv,
           MarkersTruthful, Over, Silent, Preparing, Waiting, Handler, turns, objectives, drafts
  <2>10. ASSUME Establish(p)
        PROVE  MarkersTruthful'
    <3>1. /\ UNCHANGED <<row, answered, told, broken>>
          /\ at[p] = "write" /\ at' = [at EXCEPT ![p] = "compute"]
          BY <2>10 DEF Establish, Goto
    <3>2. p \in Chat => row[p] # "closed"
          BY <3>1 DEF MarkersTruthful, Over
    <3>3. \A q \in Handler : q # p /\ status[q] = "none" => status'[q] = "none"
          BY <2>10, <3>1 DEF Establish, LockInv, Active
    <3> QED BY <3>1, <3>2, <3>3 DEF MarkersTruthful, Over, TypeOK, Handler
  <2>11. ASSUME EnsureFails(p)
        PROVE  MarkersTruthful'
        BY <2>11, HandlerAssumption
           DEF EnsureFails, Goto, EndTransaction, TypeOK, TurnInv, RetryNotRunAgain,
           ReplyInv, LockInv, MarkersTruthful, Over, Silent, Preparing, Waiting, Handler, turns,
           objectives, drafts
  <2>12. ASSUME GatherThrows(p)
        PROVE  MarkersTruthful'
        BY <2>12, HandlerAssumption
           DEF GatherThrows, Goto, Tell, Break, TypeOK, TurnInv, RetryNotRunAgain, ReplyInv, LockInv,
           MarkersTruthful, Over, Silent, Preparing, Waiting, Handler, turns, objectives, drafts
  <2>13. ASSUME Audit(p)
        PROVE  MarkersTruthful'
        BY <2>13, HandlerAssumption
           DEF Audit, Goto, Tell, Break, Finish, TypeOK, TurnInv, RetryNotRunAgain, ReplyInv, LockInv,
           MarkersTruthful, Over, Silent, Preparing, Waiting, Handler, turns, objectives, drafts
  <2>14. ASSUME Close(p)
        PROVE  MarkersTruthful'
        BY <2>14, HandlerAssumption
           DEF Close, Goto, Break, TypeOK, TurnInv, RetryNotRunAgain, ReplyInv, LockInv,
           MarkersTruthful, Over, Silent, Preparing, Waiting, Handler, Closed, turns,
           objectives, drafts
  <2>15. ASSUME Check(p)
        PROVE  MarkersTruthful'
        BY <2>15, HandlerAssumption
           DEF Check, Goto, Tell, Finish, TypeOK, TurnInv, RetryNotRunAgain, ReplyInv, LockInv,
           MarkersTruthful, Over, Silent, Preparing, Waiting, Handler, turns, objectives, drafts
  <2>16. ASSUME Insert(p)
        PROVE  MarkersTruthful'
        BY <2>16, HandlerAssumption
           DEF Insert, Goto, Tell, Finish, TypeOK, TurnInv, RetryNotRunAgain, ReplyInv, LockInv,
           MarkersTruthful, Over, Silent, Preparing, Waiting, Handler, turns, objectives, drafts
  <2>17. ASSUME InsertUnheard(p)
        PROVE  MarkersTruthful'
        BY <2>17, HandlerAssumption
           DEF InsertUnheard, Goto, Tell, Finish, TypeOK, TurnInv, RetryNotRunAgain,
           ReplyInv, LockInv, MarkersTruthful, Over, Silent, Preparing, Waiting, Handler, turns,
           objectives, drafts
  <2>18. ASSUME AnswerFails(p)
        PROVE  MarkersTruthful'
        BY <2>18, HandlerAssumption
           DEF AnswerFails, Goto, Tell, Finish, TypeOK, TurnInv, RetryNotRunAgain, ReplyInv, LockInv,
           MarkersTruthful, Over, Silent, Preparing, Waiting, Handler, turns, objectives, drafts
  <2>19. ASSUME Die(p)
        PROVE  MarkersTruthful'
        BY <2>19, HandlerAssumption
           DEF Die, Goto, Break, EndTransaction, Forget, TypeOK, TurnInv, RetryNotRunAgain,
           ReplyInv, LockInv, MarkersTruthful, Over, Silent, Preparing, Waiting, Handler, turns,
           objectives, drafts
  <2>20. ASSUME Find(p), p \in Chat
        PROVE  MarkersTruthful'
    <3>1. at[p] = "start" /\ row[p] = "none"
          BY <2>20 DEF Find, TurnInv, Waiting, Handler
    <3>2. UNCHANGED <<row, answered, status, broken>>
          BY <2>20 DEF Find, objectives
    <3>3. \A q \in Handler : q # p => at'[q] = at[q] /\ told'[q] = told[q]
          BY <2>20 DEF Find, Goto, Tell, TypeOK
    <3> QED BY <3>1, <3>2, <3>3 DEF MarkersTruthful, Over, Handler
  <2>21. ASSUME AcceptScheduled(p), p \in Scheduled
        PROVE  MarkersTruthful'
        BY <2>21, HandlerAssumption
           DEF AcceptScheduled, Goto, TakeTurn, TypeOK, TurnInv, RetryNotRunAgain, ReplyInv, LockInv,
           MarkersTruthful, Over, Silent, Preparing, Waiting, Handler, turns, objectives, drafts
  <2>22. ASSUME AcceptUnheard(p)
        PROVE  MarkersTruthful'
        BY <2>22, HandlerAssumption
           DEF AcceptUnheard, Goto, Tell, Forget, TypeOK, TurnInv, RetryNotRunAgain, ReplyInv, LockInv,
           MarkersTruthful, Over, Silent, Preparing, Waiting, Handler, Duplicate, turns, objectives, drafts
  <2>23. ASSUME TellCancelled(p)
        PROVE  MarkersTruthful'
    <3>1. UNCHANGED <<row, answered, status, broken>>
          BY <2>23 DEF TellCancelled, objectives
    <3>2. at[p] = "cancelled" /\ told'[p] = "error" /\ at'[p] = "end"
          BY <2>23 DEF TellCancelled, Tell, Goto, TypeOK
    <3>3. row[p] = "open" /\ p \in Chat => broken[p]
          BY <3>2 DEF MarkersTruthful, Over, ReplyInv, Silent, Preparing
    <3>4. \A q \in Handler : q # p => at'[q] = at[q] /\ told'[q] = told[q]
          BY <2>23 DEF TellCancelled, Goto, Tell, TypeOK
    <3> QED BY <3>1, <3>2, <3>3, <3>4 DEF MarkersTruthful, Over, Handler
  <2> QED BY <1>1, <2>1, <2>2, <2>3, <2>4, <2>5, <2>6, <2>7, <2>8, <2>9, <2>10, <2>11, <2>12,
              <2>13, <2>14, <2>15, <2>16, <2>17, <2>18, <2>19, <2>20, <2>21, <2>22, <2>23
          DEF Move
<1>2. ASSUME UNCHANGED vars
      PROVE  MarkersTruthful'
      BY <1>2 DEF vars, turns, objectives, drafts, TypeOK, TurnInv, RetryNotRunAgain,
          ReplyInv, LockInv, MarkersTruthful, Over, Silent, Preparing, Waiting, Handler
<1> QED BY <1>1, <1>2, MoveOrNot

\* Whoever is about to write the objective holds the lock and has read it.
LEMMA LockStep ==
    ASSUME TypeOK, LockInv, [Next]_vars
    PROVE  LockInv'
<1>1. ASSUME NEW p \in Handler, Move(p)
      PROVE  LockInv'
  <2>1. ASSUME Create(p)
        PROVE  LockInv'
        BY <2>1
           DEF Create, Goto, Tell, TypeOK, LockInv, OneActiveObjective, Active, Preparing,
           Waiting, OneOf, turns, objectives, drafts
  <2>2. ASSUME Load(p)
        PROVE  LockInv'
        BY <2>2
           DEF Load, Goto, TypeOK, LockInv, OneActiveObjective, Active, Preparing, Waiting,
           OneOf, turns, objectives, drafts
  <2>3. ASSUME Accept(p)
        PROVE  LockInv'
        BY <2>3
           DEF Accept, Goto, Tell, Forget, TakeTurn, TypeOK, LockInv, OneActiveObjective,
           Active, Preparing, Waiting, OneOf, turns, objectives, drafts
  <2>4. ASSUME AcceptFails(p)
        PROVE  LockInv'
        BY <2>4
           DEF AcceptFails, Goto, Tell, Forget, TypeOK, LockInv, OneActiveObjective, Active,
           Preparing, Waiting, OneOf, turns, objectives, drafts
  <2>5. ASSUME CancelEarly(p)
        PROVE  LockInv'
        BY <2>5
           DEF CancelEarly, Goto, Tell, Forget, Break, TypeOK, LockInv, OneActiveObjective,
           Active, Preparing, Waiting, OneOf, turns, objectives, drafts
  <2>6. ASSUME Prepare(p)
        PROVE  LockInv'
        BY <2>6
           DEF Prepare, Goto, Forget, TypeOK, LockInv, OneActiveObjective, Active, Preparing,
           Waiting, OneOf, turns, objectives, drafts
  <2>7. ASSUME Lock(p)
        PROVE  LockInv'
        BY <2>7
           DEF Lock, Goto, TypeOK, LockInv, OneActiveObjective, Active, Preparing, Waiting,
           OneOf, turns, objectives, drafts
  <2>8. ASSUME ReadActive(p)
        PROVE  LockInv'
    <3> USE <2>8 DEF ReadActive, Goto, turns, objectives, drafts, TypeOK
    <3>1. /\ lock = {p} /\ lock' = {p} /\ Active' = Active
          /\ seen[p] = {}
          BY DEF LockInv, Active
    <3>2. seen'[p] = Active /\ at'[p] = "write"
          BY <3>1 DEF LockInv, OneActiveObjective, Active
    <3>3. \A q \in Handler : q # p => seen'[q] = seen[q] /\ at'[q] = at[q]
          OBVIOUS
    <3>4. \A q \in Handler : q # p => at[q] \notin {"read", "write"}
          BY <3>1 DEF LockInv
    <3>5. \A q \in Handler : at'[q] \in Preparing => status'[q] = "none"
          BY DEF LockInv, Preparing, Waiting
    <3> HIDE DEF ReadActive, TypeOK
    <3> QED BY <3>1, <3>2, <3>3, <3>4, <3>5 DEF LockInv, OneActiveObjective
  <2>9. ASSUME Continue(p)
        PROVE  LockInv'
    <3> USE <2>9 DEF Continue, Goto, EndTransaction, turns, objectives, drafts, TypeOK
    <3>1. /\ lock = {p} /\ lock' = {} /\ Active' = Active
          BY DEF LockInv, Active
    <3>2. \A q \in Handler : q # p => at[q] \notin {"read", "write"} /\ at'[q] = at[q] /\ seen'[q] = seen[q]
      <4>1. \A q \in Handler : q # p => at[q] \notin {"read", "write"}
            BY <3>1 DEF LockInv
      <4> QED BY <4>1
    <3>3. at'[p] = "compute" /\ seen'[p] = {}
          OBVIOUS
    <3>4. \A q \in Handler : at'[q] \in Preparing => status'[q] = "none"
          BY DEF LockInv, Preparing, Waiting
    <3> HIDE DEF Continue, EndTransaction, TypeOK
    <3> QED BY <3>1, <3>2, <3>3, <3>4 DEF LockInv, OneActiveObjective
  <2>10. ASSUME Establish(p)
        PROVE  LockInv'
    <3> USE <2>10 DEF Establish, Goto, EndTransaction, turns, objectives, drafts, TypeOK
    <3>1. /\ lock = {p} /\ lock' = {}
          /\ Active = seen[p]
          BY DEF LockInv
    <3>2. Active' = {p}
          BY <3>1 DEF Active
    <3>3. \A q \in Handler : at'[q] \notin {"read", "write"}
          BY <3>1 DEF LockInv
    <3>4. \A q \in Handler : at'[q] \in Preparing => q # p /\ at[q] \in Preparing /\ status[q] = "none"
          BY DEF LockInv, Preparing, Waiting
    <3>5. \A q \in Handler : at'[q] \in Preparing => status'[q] = "none"
          BY <3>1, <3>4 DEF Active
    <3>6. \A q \in Handler : seen'[q] = {} /\ at'[q] # "write"
          BY <3>1, <3>3 DEF LockInv
    <3> QED BY <3>2, <3>3, <3>5, <3>6 DEF LockInv, OneActiveObjective
  <2>11. ASSUME EnsureFails(p)
        PROVE  LockInv'
    <3>1. /\ at[p] \in {"lock", "read", "write"} /\ lock' = lock \ {p}
          /\ Active' = Active /\ UNCHANGED status
          BY <2>11 DEF EnsureFails, EndTransaction, Active
    <3>2. at'[p] = "compute" /\ seen'[p] = {}
          BY <2>11 DEF EnsureFails, EndTransaction, Goto, TypeOK
    <3>3. \A q \in Handler : q # p => at'[q] = at[q] /\ seen'[q] = seen[q]
          BY <2>11 DEF EnsureFails, EndTransaction, Goto, TypeOK
    <3>4. \A q \in Handler : q # p /\ at[q] \in {"read", "write"} => lock' = {q}
          BY <3>1 DEF LockInv
    <3> QED BY <3>1, <3>2, <3>3, <3>4 DEF LockInv, OneActiveObjective, Preparing, Waiting
  <2>12. ASSUME GatherThrows(p)
        PROVE  LockInv'
        BY <2>12
           DEF GatherThrows, Goto, Tell, Break, TypeOK, LockInv, OneActiveObjective, Active,
           Preparing, Waiting, OneOf, turns, objectives, drafts
  <2>13. ASSUME Audit(p)
        PROVE  LockInv'
        BY <2>13
           DEF Audit, Goto, Tell, Break, Finish, TypeOK, LockInv, OneActiveObjective, Active,
           Preparing, Waiting, OneOf, turns, objectives, drafts
  <2>14. ASSUME Close(p)
        PROVE  LockInv'
        BY <2>14
           DEF Close, Goto, Break, TypeOK, LockInv, OneActiveObjective, Active, Preparing,
           Waiting, OneOf, turns, objectives, drafts
  <2>15. ASSUME Check(p)
        PROVE  LockInv'
        BY <2>15
           DEF Check, Goto, Tell, Finish, TypeOK, LockInv, OneActiveObjective, Active,
           Preparing, Waiting, OneOf, turns, objectives, drafts
  <2>16. ASSUME Insert(p)
        PROVE  LockInv'
        BY <2>16
           DEF Insert, Goto, Tell, Finish, TypeOK, LockInv, OneActiveObjective, Active,
           Preparing, Waiting, OneOf, turns, objectives, drafts
  <2>17. ASSUME InsertUnheard(p)
        PROVE  LockInv'
        BY <2>17
           DEF InsertUnheard, Goto, Tell, Finish, TypeOK, LockInv, OneActiveObjective,
           Active, Preparing, Waiting, OneOf, turns, objectives, drafts
  <2>18. ASSUME AnswerFails(p)
        PROVE  LockInv'
        BY <2>18
           DEF AnswerFails, Goto, Tell, Finish, TypeOK, LockInv, OneActiveObjective, Active,
           Preparing, Waiting, OneOf, turns, objectives, drafts
  <2>19. ASSUME Die(p)
        PROVE  LockInv'
    <3>1. lock' = lock \ {p} /\ Active' = Active /\ UNCHANGED status
          BY <2>19 DEF Die, EndTransaction, Active
    <3>2. at'[p] = "killed" /\ seen'[p] = {}
          BY <2>19 DEF Die, EndTransaction, Goto, TypeOK
    <3>3. \A q \in Handler : q # p => at'[q] = at[q] /\ seen'[q] = seen[q]
          BY <2>19 DEF Die, EndTransaction, Goto, TypeOK
    <3>4. \A q \in Handler : q # p /\ at[q] \in {"read", "write"} => lock' = {q}
          BY <3>1 DEF LockInv
    <3> QED BY <3>1, <3>2, <3>3, <3>4 DEF LockInv, OneActiveObjective, Preparing, Waiting
  <2>20. ASSUME Find(p), p \in Chat
        PROVE  LockInv'
    <3>1. /\ at[p] = "start" /\ p \in Handler
          /\ at' = [at EXCEPT ![p] = at'[p]] /\ at'[p] \in {"create", "load", "end"}
          BY <2>20 DEF Find, Goto, TypeOK, Handler
    <3>2. UNCHANGED <<status, lock, seen>> /\ Active' = Active
          BY <2>20 DEF Find, objectives, Active
    <3> QED BY <3>1, <3>2 DEF LockInv, OneActiveObjective, TypeOK, Preparing, Waiting
  <2>21. ASSUME AcceptScheduled(p), p \in Scheduled
        PROVE  LockInv'
        BY <2>21
           DEF AcceptScheduled, Goto, TakeTurn, TypeOK, LockInv, OneActiveObjective, Active,
           Preparing, Waiting, OneOf, turns, objectives, drafts
  <2>22. ASSUME AcceptUnheard(p)
        PROVE  LockInv'
        BY <2>22
           DEF AcceptUnheard, Goto, Tell, Forget, TypeOK, LockInv, OneActiveObjective, Active, Preparing,
           Waiting, OneOf, turns, objectives, drafts
  <2>23. ASSUME TellCancelled(p)
        PROVE  LockInv'
        BY <2>23
           DEF TellCancelled, Goto, Tell, TypeOK, LockInv, OneActiveObjective, Active, Preparing,
           Waiting, OneOf, turns, objectives, drafts
  <2> QED BY <1>1, <2>1, <2>2, <2>3, <2>4, <2>5, <2>6, <2>7, <2>8, <2>9, <2>10, <2>11, <2>12,
              <2>13, <2>14, <2>15, <2>16, <2>17, <2>18, <2>19, <2>20, <2>21, <2>22, <2>23
          DEF Move
<1>2. ASSUME UNCHANGED vars
      PROVE  LockInv'
      BY <1>2 DEF vars, turns, objectives, drafts, TypeOK, LockInv, OneActiveObjective,
          Active, Preparing, Waiting, OneOf
<1> QED BY <1>1, <1>2, MoveOrNot

\* The invariant holds at the start...
LEMMA InitInv == Init => IInv
BY HandlerAssumption DEF Init, IInv, TypeOK, Label, Event, OneOf, TurnInv, RetryNotRunAgain,
   ReplyInv, RepliesTruthful, MarkersTruthful, Over, LockInv, OneActiveObjective, Active,
   Waiting, Preparing, Silent, Handler

\* ...and is kept by every step.
LEMMA NextInv == IInv /\ [Next]_vars => IInv'
BY TypeStep, TurnStep, ReplyStep, MarkerStep, LockStep DEF IInv

\* The invariant the properties follow from: it holds in every reachable state.
LEMMA Invariance == Spec => []IInv
BY InitInv, NextInv, PTL DEF Spec

-----------------------------------------------------------------------------
(* The theorems *)

\* Every variable has its type.
THEOREM TypeCorrect == Spec => []TypeOK
<1>1. IInv => TypeOK
      BY DEF IInv
<1> QED BY <1>1, Invariance, PTL

\* agent/route.ts: a request id is given one turn, however its retries overlap,
\* and refused retries use up no turn number.
THEOREM RetryNotRunAgainAlways == Spec => []RetryNotRunAgain
<1>1. IInv => RetryNotRunAgain
      BY DEF IInv, TurnInv
<1> QED BY <1>1, Invariance, PTL

\* What a client is told agrees with what the conversation holds.
THEOREM RepliesTruthfulAlways == Spec => []RepliesTruthful
<1>1. IInv => RepliesTruthful
      BY DEF IInv, ReplyInv
<1> QED BY <1>1, Invariance, PTL

\* A conversation never has two active research objectives.
THEOREM OneActiveObjectiveAlways == Spec => []OneActiveObjective
<1>1. IInv => OneActiveObjective
      BY DEF IInv, LockInv
<1> QED BY <1>1, Invariance, PTL

\* A marker left open is of a handler that was killed, threw, failed to close
\* it or never heard that its turn was taken, none is closed while work goes on,
\* and one closed in silence hides nothing.
THEOREM MarkersTruthfulAlways == Spec => []MarkersTruthful
<1>1. IInv => MarkersTruthful
      BY DEF IInv
<1> QED BY <1>1, Invariance, PTL

\* A step of one handler keeps the tickers of every objective.
LEMMA TickersStep ==
    ASSUME TypeOK, LockInv, [Next]_vars
    PROVE  \A p \in Handler : status[p] # "none" => tickers[p] \subseteq tickers'[p]
<1>1. ASSUME NEW p \in Handler, Move(p)
      PROVE  \A q \in Handler : status[q] # "none" => tickers[q] \subseteq tickers'[q]
  <2>1. CASE Continue(p)
    <3>0. PICK q \in seen[p] :
            \E merged \in Merged(p, q) : tickers' = [tickers EXCEPT ![q] = merged]
          BY <2>1 DEF Continue
    <3>1. PICK merged \in Merged(p, q) : tickers' = [tickers EXCEPT ![q] = merged]
          BY <3>0
    <3>2. tickers[q] \subseteq merged
          BY <3>1, UniqueBounds DEF Merged
    <3> QED BY <3>1, <3>2 DEF TypeOK
  <2>2. CASE Establish(p)
    <3>1. status[p] = "none"
          BY <2>2 DEF Establish, LockInv, Preparing, Waiting
    <3> QED BY <2>2, <3>1 DEF Establish, TypeOK
  <2>3. CASE UNCHANGED tickers
        BY <2>3
  <2>4. Continue(p) \/ Establish(p) \/ UNCHANGED tickers
        BY <1>1 DEF Move, Create, Load, Accept, AcceptFails, AcceptUnheard, CancelEarly,
           TellCancelled, Prepare, Lock,
           ReadActive, EnsureFails, GatherThrows, Audit, Close, Check, Insert, InsertUnheard,
           AnswerFails, Die, Find, AcceptScheduled, objectives
  <2> QED BY <2>1, <2>2, <2>3, <2>4
<1>2. ASSUME UNCHANGED vars
      PROVE  \A q \in Handler : status[q] # "none" => tickers[q] \subseteq tickers'[q]
      BY <1>2 DEF vars, objectives
<1> QED BY <1>1, <1>2, MoveOrNot

\* The tickers of an objective only grow.
THEOREM TickersKeptAlways == Spec => TickersKept
<1> DEFINE Grows == \A p \in Handler : status[p] # "none" => tickers[p] \subseteq tickers'[p]
<1>1. IInv /\ [Next]_vars => Grows
      BY TickersStep DEF IInv
<1>2. [][Grows]_vars <=> TickersKept
      BY PTL DEF TickersKept
<1> HIDE DEF Grows
<1> QED BY <1>1, <1>2, Invariance, PTL DEF Spec

-----------------------------------------------------------------------------
(* Refinement of ObjectiveHistory *)

\* A handler that is to write an objective has one to write.
WantOK == \A p \in Handler : at[p] \in {"lock", "read", "write"} => want[p] # {}

\* What a handler wants is decided by its own steps.
LEMMA WantStep ==
    ASSUME TypeOK, WantOK, [Next]_vars
    PROVE  WantOK'
<1>1. ASSUME NEW p \in Handler, Move(p)
      PROVE  WantOK'
  <2>1. CASE Prepare(p)
        BY <2>1 DEF Prepare, Goto, WantOK, TypeOK
  <2>2. CASE Lock(p) \/ ReadActive(p)
        BY <2>2 DEF Lock, ReadActive, Goto, WantOK, TypeOK, drafts
  <2>3. CASE Continue(p) \/ Establish(p) \/ EnsureFails(p) \/ Die(p)
        BY <2>3 DEF Continue, Establish, EnsureFails, Die, EndTransaction, Goto, WantOK, TypeOK
  <2>4. CASE \/ Create(p) \/ Load(p) \/ Accept(p) \/ AcceptFails(p) \/ AcceptUnheard(p)
             \/ CancelEarly(p) \/ TellCancelled(p) \/ GatherThrows(p) \/ Find(p) \/ AcceptScheduled(p)
    <3>1. want' = want
          BY <2>4 DEF Create, Load, Accept, AcceptFails, AcceptUnheard, CancelEarly, TellCancelled,
             GatherThrows, Find, AcceptScheduled, drafts
    <3>2. \A q \in Handler : at'[q] = at[q] \/ at'[q] \notin {"lock", "read", "write"}
          BY <2>4 DEF Create, Load, Accept, AcceptFails, AcceptUnheard, CancelEarly, TellCancelled,
             GatherThrows, Find, AcceptScheduled, TakeTurn, Goto, TypeOK
    <3> QED BY <3>1, <3>2 DEF WantOK
  <2>5. CASE \/ Audit(p) \/ Close(p) \/ Check(p) \/ Insert(p) \/ InsertUnheard(p)
             \/ AnswerFails(p)
    <3>1. want' = want
          BY <2>5 DEF Audit, Close, Check, Insert, InsertUnheard, AnswerFails, drafts
    <3>2. \A q \in Handler : at'[q] = at[q] \/ at'[q] \notin {"lock", "read", "write"}
          BY <2>5 DEF Audit, Close, Check, Insert, InsertUnheard, AnswerFails, Finish, Goto,
             TypeOK
    <3> QED BY <3>1, <3>2 DEF WantOK
  <2> QED BY <1>1, <2>1, <2>2, <2>3, <2>4, <2>5 DEF Move
<1>2. UNCHANGED vars => WantOK'
      BY DEF vars, drafts, WantOK
<1> QED BY <1>1, <1>2, MoveOrNot

\* Every step of a handler is a step of the history or leaves it alone.
LEMMA HistoryStep ==
    ASSUME IInv, WantOK, [Next]_vars
    PROVE  [History!Next]_<<status, tickers>>
<1> USE DEF IInv
<1>1. ASSUME NEW p \in Handler, Move(p)
      PROVE  [History!Next]_<<status, tickers>>
  <2>1. CASE Continue(p)
    <3>0. PICK q \in seen[p] :
            \E merged \in Merged(p, q) : tickers' = [tickers EXCEPT ![q] = merged]
          BY <2>1 DEF Continue
    <3>1. PICK merged \in Merged(p, q) : tickers' = [tickers EXCEPT ![q] = merged]
          BY <3>0
    <3>2. q \in Handler /\ status[q] = "active"
          BY <2>1 DEF Continue, LockInv, Active
    <3>3. /\ merged \in SUBSET Ticker
          /\ tickers' = [tickers EXCEPT ![q] = tickers[q] \cup merged]
      <4>1. tickers[q] \subseteq merged /\ merged \subseteq tickers[q] \cup want[p]
            BY UniqueBounds DEF Merged
      <4>2. tickers[q] \cup merged = merged
            BY <4>1
      <4>3. merged \in SUBSET Ticker
            BY <3>2, <4>1 DEF TypeOK
      <4> QED BY <3>1, <4>2, <4>3
    <3>4. History!Extend(q)
          BY <2>1, <3>2, <3>3 DEF Continue, History!Extend
    <3> QED BY <3>2, <3>4 DEF History!Next
  <2>2. CASE Establish(p)
    <3>1. status[p] = "none" /\ seen[p] = Active /\ want[p] # {}
          BY <2>2 DEF Establish, LockInv, Preparing, WantOK
    <3>2. status' = [q \in Handler |-> IF q = p THEN "active"
                                       ELSE IF status[q] = "active" THEN "superseded"
                                       ELSE status[q]]
          BY <2>2, <3>1 DEF Establish, Active
    <3>3. want[p] \in SUBSET Ticker /\ tickers' = [tickers EXCEPT ![p] = want[p]]
          BY <2>2 DEF Establish, TypeOK
    <3>4. History!Establish(p)
          BY <3>1, <3>2, <3>3 DEF History!Establish
    <3> QED BY <3>4 DEF History!Next
  <2>3. CASE UNCHANGED <<status, tickers>>
        BY <2>3
  <2>4. Continue(p) \/ Establish(p) \/ UNCHANGED <<status, tickers>>
        BY <1>1 DEF Move, Create, Load, Accept, AcceptFails, AcceptUnheard, CancelEarly,
           TellCancelled, Prepare, Lock,
           ReadActive, EnsureFails, GatherThrows, Audit, Close, Check, Insert, InsertUnheard,
           AnswerFails, Die, Find, AcceptScheduled, objectives
  <2> QED BY <2>1, <2>2, <2>3, <2>4
<1>2. UNCHANGED vars => [History!Next]_<<status, tickers>>
      BY DEF vars, objectives
<1> QED BY <1>1, <1>2, MoveOrNot

\* For any number of overlapping handlers, lock time-outs and kills: the objectives of a
\* conversation are a history.
THEOREM ObjectivesRefinement == Spec => ImplementsObjectives
<1>1. Init => History!Init /\ WantOK
      BY DEF Init, History!Init, WantOK
<1>2. TypeOK /\ WantOK /\ [Next]_vars => WantOK'
      BY WantStep
<1>3. IInv /\ WantOK /\ [Next]_vars => [History!Next]_<<status, tickers>>
      BY HistoryStep
<1>4. IInv => TypeOK
      BY DEF IInv
<1> QED BY <1>1, <1>2, <1>3, <1>4, Invariance, PTL DEF Spec, ImplementsObjectives, History!Spec

-----------------------------------------------------------------------------
(* The answer and the revision.  An answer can be written after a newer turn was accepted,
   and only because turns are accepted between the check and the write. *)

\* No turn is accepted while a handler has checked the revision and not yet written its
\* answer: what a lock on the conversation's row, from the check on, would give.
HeldWhileInserting == (\E p \in Handler : at[p] = "insert") => revision' = revision

\* A handler about to write its answer has the latest turn.
LatestOK == \A p \in Handler : at[p] = "insert" => turn[p] = revision

\* The check finds it, and nothing changes it before the write.
LEMMA LatestStep ==
    ASSUME IInv, LatestOK, [Next]_vars, HeldWhileInserting
    PROVE  LatestOK'
<1> USE DEF IInv
<1>1. ASSUME NEW p \in Handler, Move(p), NEW q \in Handler, at'[q] = "insert"
      PROVE  turn'[q] = revision'
  <2>1. CASE Check(p)
    <3>1. UNCHANGED <<turn, revision>>
          BY <2>1 DEF Check, turns
    <3>2. at[q] = "insert" \/ (p = q /\ revision <= turn[q])
          BY <1>1, <2>1 DEF Check, Goto, Finish, TypeOK
    <3>3. turn[q] <= revision /\ turn[q] \in Nat /\ revision \in Nat
          BY DEF TurnInv, RetryNotRunAgain, TypeOK
    <3> QED BY <3>1, <3>2, <3>3 DEF LatestOK
  <2>2. CASE Accept(p) \/ AcceptUnheard(p) \/ AcceptScheduled(p)
    <3>1. at[q] = "insert" /\ p # q
          BY <1>1, <2>2 DEF Accept, AcceptUnheard, AcceptScheduled, TakeTurn, Goto, TypeOK
    <3>2. revision' = revision
          BY <3>1 DEF HeldWhileInserting
    <3>3. turn'[q] = turn[q]
          BY <2>2, <3>1 DEF Accept, AcceptUnheard, AcceptScheduled, TakeTurn, TypeOK
    <3> QED BY <3>1, <3>2, <3>3 DEF LatestOK
  <2>3. CASE ~Check(p) /\ ~Accept(p) /\ ~AcceptUnheard(p) /\ ~AcceptScheduled(p)
    <3>1. UNCHANGED <<turn, revision>>
          BY <1>1, <2>3 DEF Move, Create, Load, AcceptFails, CancelEarly, TellCancelled, Prepare,
             Lock,
             ReadActive, Continue, Establish, EnsureFails, GatherThrows, Audit, Close, Insert,
             InsertUnheard, AnswerFails, Die, Find, turns
    <3>2. at[q] = "insert"
          BY <1>1, <2>3 DEF Move, Create, Load, AcceptFails, CancelEarly, TellCancelled, Prepare,
             Lock,
             ReadActive, Continue, Establish, EnsureFails, GatherThrows, Audit, Close, Insert,
             InsertUnheard, AnswerFails, Die, Find, Finish, Goto, TypeOK
    <3> QED BY <3>1, <3>2 DEF LatestOK
  <2> QED BY <2>1, <2>2, <2>3
<1>2. UNCHANGED vars => LatestOK'
      BY DEF vars, turns, LatestOK
<1> QED BY <1>1, <1>2, MoveOrNot DEF LatestOK

\* Closing that window is enough, for any number of overlapping handlers, failures and kills:
\* an answer is then only written while its turn is the latest.
THEOREM CurrentAnswerWhenHeld == Spec /\ [][HeldWhileInserting]_vars => CurrentAnswerOnly
<1> DEFINE Current == \A p \in Handler : answered'[p] /\ ~answered[p] => turn[p] = revision
<1>1. Init => LatestOK
      BY DEF Init, LatestOK
<1>2. IInv /\ LatestOK /\ [Next]_vars /\ [HeldWhileInserting]_vars => LatestOK'
  <2>1. UNCHANGED vars /\ LatestOK => LatestOK'
        BY DEF vars, turns, LatestOK
  <2> QED BY <2>1, LatestStep
<1>3. IInv /\ LatestOK /\ [Next]_vars => [Current]_vars
  <2>1. ASSUME IInv, LatestOK, NEW p \in Handler, Move(p), NEW q \in Handler,
               answered'[q], ~answered[q]
        PROVE  turn[q] = revision
    <3>1. Insert(p) \/ InsertUnheard(p) \/ UNCHANGED answered
          BY <2>1 DEF Move, Create, Load, Accept, AcceptFails, AcceptUnheard, CancelEarly,
           TellCancelled, Prepare, Lock,
             ReadActive, Continue, Establish, EnsureFails, GatherThrows, Audit, Close, Check,
             AnswerFails, Die, Find, AcceptScheduled
    <3>2. at[q] = "insert"
          BY <2>1, <3>1 DEF Insert, InsertUnheard, IInv, TypeOK
    <3> QED BY <2>1, <3>2 DEF LatestOK
  <2> QED BY <2>1, MoveOrNot
<1>4. [][Current]_vars <=> CurrentAnswerOnly
      BY PTL DEF CurrentAnswerOnly
<1> HIDE DEF Current
<1> QED BY <1>1, <1>2, <1>3, <1>4, Invariance, PTL DEF Spec
=============================================================================
