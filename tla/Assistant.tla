------------------------------- MODULE Assistant -------------------------------
(***************************************************************************)
(* The assistant: the tabs of one user against the server's one thread.    *)
(***************************************************************************)
EXTENDS AssistantService, AssistantChat

Server(q) ==
  \/ StreamChat(q) \/ ResumeChat(q) \/ ResumeNothing(q)
  \/ Execute(q) \/ ExecuteThrows(q)
  \/ ModelAnswers(q) \/ ModelReads(q) \/ ModelFails(q)
  \/ \E c \in Call : ResumeAsksNext(q, c) \/ \E C \in SUBSET Call : ModelAsks(q, C, c)
  \/ IdleTimeout(q)

User(t, q) ==
  \/ Send(t, q)
  \/ \E approve \in BOOLEAN : Respond(t, q, approve)
  \/ \E c \in Location, found \in BOOLEAN : Locate(t, q, c, found)

Browser(t, q) == HandleEvent(t, q) \/ GiveUp(t, q) \/ Drop(t, q)

Next ==
  \/ \E q \in Request : Server(q) \/ NeverArrives(q)
  \/ \E t \in Tab, q \in Request : User(t, q) \/ Browser(t, q)
  \/ Restart
  \/ \E t \in Tab : Reload(t)

Spec == Init /\ [][Next]_vars

-----------------------------------------------------------------------------
(* Properties *)

\* As long as turns do not overlap, a mutation runs only after its own card was
\* approved, and at most once for every call of the message that carries it, so once
\* if it is the only one: whatever is declined, lost, timed out, reloaded, restarted
\* or fails half-way (toLangChainTool, respondToConfirmation).
ApprovedUnlessOverlapped ==
  ~overlapped =>
    \A c \in Mutation :
      /\ executed[c] > 0 => c \in approved
      /\ executed[c] <= Cardinality(message[c])

-----------------------------------------------------------------------------
(* Why it holds: an inductive invariant *)

\* Of all that can lead to an execution there is one: a run, a question that is
\* still to arrive, or one that is open.
OneAtATime ==
  /\ \A p, q \in Request : Running(p) /\ Running(q) => p = q
  /\ \A q \in Request : Running(q) => Arriving = {} /\ Questions = {}
  /\ \A x, y \in Arriving : x = y
  /\ \A x, y \in Questions : x = y
  /\ Arriving # {} => Questions = {}

\* An answer reaches the call it was given for, or a thread that waits for nothing.
AnswersReachTheirCall ==
  /\ \A x \in Arriving : Waiting \in {wire[x[1]][x[2]], None}
  /\ \A x \in Questions : Waiting \in {x[2], None}
  /\ \A q \in Request : run[q].pc = "sent" /\ Waiting \in Mutation =>
       /\ run[q].ask # "coordinates"
       /\ run[q].ask = "approve" => Waiting \in approved

\* An answer to the call that waits may still come.
AnswerMayCome ==
  \/ Arriving # {} \/ Questions # {}
  \/ \E q \in Request : run[q].pc = "sent" /\ run[q].ask # "message"

\* What the calls of the waiting message have done: every answer has started its
\* approved ones once.
RunsFollowAnswers ==
  thread # None =>
    LET M == message[thread.call] IN
    /\ thread.granted \subseteq approved
    /\ \A c \in M \cap Mutation :
         /\ executed[c] <= Cardinality(M \ thread.later)
         /\ AnswerMayCome => executed[c] <= Cardinality((M \ thread.later) \ {thread.call})

\* A call that ran or waits is one the model has made, with the others of its message.
CallsAreMade ==
  /\ \A c \in Call : \A d \in message[c] : message[d] = message[c]
  /\ thread # None =>
       /\ {thread.call} \cup thread.granted \cup thread.later \subseteq message[thread.call]
       /\ thread.call \notin thread.later
  /\ \A c \in Mutation : executed[c] > 0 => c \in message[c]

\* Why ApprovedUnlessOverlapped holds: the one thread has one turn under way, so
\* the value a resume carries, which names no call, can mean only one, and it starts
\* what was approved in the same message before.
TurnInv ==
  /\ CallsAreMade
  /\ ApprovedUnlessOverlapped
  /\ ~overlapped => OneAtATime /\ AnswersReachTheirCall /\ RunsFollowAnswers

-----------------------------------------------------------------------------
(* Liveness *)

\* The server takes up what arrives and its timer runs; the tab handles what
\* arrives, and its timer runs once the response has begun.
Fairness ==
  /\ \A q \in Request :
       /\ WF_vars(\/ StreamChat(q) \/ ResumeChat(q) \/ ResumeNothing(q)
                  \/ \E c \in Call : ResumeAsksNext(q, c))
       /\ WF_vars(IdleTimeout(q))
  /\ \A t \in Tab, q \in Request :
       /\ WF_vars(HandleEvent(t, q))
       /\ WF_vars(q \in answered /\ Lost(q) /\ GiveUp(t, q))

LiveSpec == Spec /\ Fairness

\* The panel does not stay busy for ever when the model stalls, the server restarts
\* or a connection that had begun to answer dies (withIdleTimeout on both sides).
\* A connection that dies earlier is beyond both timers.
PanelRecovers ==
  \A t \in Tab :
    streaming[t] ~>
      \/ ~streaming[t]
      \/ \E q \in listening[t] : q \notin answered /\ Lost(q)
===============================================================================
