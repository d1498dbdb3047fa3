---------------------------- MODULE AssistantState ----------------------------
(***************************************************************************)
(* One signed-in user, the user's browser tabs, and the user's             *)
(* conversation with the assistant.  The conversation is one LangGraph     *)
(* thread, whatever the tab: thread_id is the user's id.                   *)
(*                                                                         *)
(* A call is a tool call of the model that needs an answer: a mutating     *)
(* tool, which waits for an approval, or get_user_location.  One message   *)
(* of the model may carry several.  createReactAgent runs them in one      *)
(* node, which is run from its start whenever one of them is answered.     *)
(***************************************************************************)
EXTENDS Naturals, Sequences, FiniteSets

CONSTANTS
  Tab,        \* browser tabs of the user
  Request,    \* POST /assistant/chat and /chat/resume requests that may be open at once
  Mutation,   \* calls of mutating tools the model may make
  Location,   \* calls of get_user_location the model may make
  None,       \* no call
  StepLimit   \* GRAPH_RECURSION_LIMIT

Call == Mutation \cup Location

ASSUME AssistantAssumption ==
  /\ StepLimit \in Nat
  /\ Mutation \cap Location = {} /\ IsFiniteSet(Call)
  /\ None \notin Call /\ {"error", "done"} \cap Call = {}

VARIABLES
  thread,     \* the message the thread's latest checkpoint waits in, or None
  run,        \* what the server does for a request
  message,    \* the calls of the message that carries a call; none if it is not made
  wire,       \* events of a request's stream that the tab has not handled
  answered,   \* requests whose first event reached the tab
  listening,  \* useAssistantChat: the requests a tab consumes
  streaming,  \* isStreaming
  card,       \* pendingConfirmation
  locating,   \* location answers a tab is waiting for: calls of fetchLocationNow
  approved,   \* calls whose own card the user approved
  executed,   \* how often a mutation's tool was started
  overlapped  \* two turns have overlapped, or an open question was passed over

server == <<thread, run, message, executed>>
client == <<listening, streaming, card, locating, approved, overlapped>>
vars == <<thread, run, message, wire, answered, listening, streaming, card, locating,
          approved, executed, overlapped>>

\* A message of the model whose calls wait: the one that waits for an answer, the
\* mutations before it that were approved, and the calls still to be asked about.
Message == [call: Call, granted: SUBSET Mutation, later: SUBSET Call]

\* The call the next answer goes to, or None.
Waiting == IF thread = None THEN None ELSE thread.call

\* What a request asks: a new message, or the value a resume carries.
Ask == {"message", "approve", "decline", "coordinates", "nowhere"}

\* What becomes of a request: on its way; the graph asks the model or waits
\* for tools; over.  open: its response can still be written.
Run ==
  [pc: {"none"}, open: {FALSE}]
  \cup [pc: {"sent"}, ask: Ask, open: BOOLEAN]
  \cup [pc: {"model"}, steps: 0..StepLimit, open: BOOLEAN]
  \cup [pc: {"execute"}, open: BOOLEAN]

NoRun == [pc |-> "none", open |-> FALSE]

\* Events the tab acts on.  Tokens and tool activity only show text.
Event == Call \cup {"error", "done"}

Running(q) == run[q].pc # "none"
Free(q) == ~Running(q) /\ wire[q] = <<>> /\ \A t \in Tab : q \notin listening[t]

-----------------------------------------------------------------------------
TypeOK ==
  /\ thread \in Message \cup {None}
  /\ run \in [Request -> Run]
  /\ message \in [Call -> SUBSET Call]
  /\ wire \in [Request -> Seq(Event)]
  /\ answered \in SUBSET Request
  /\ listening \in [Tab -> SUBSET Request]
  /\ streaming \in [Tab -> BOOLEAN]
  /\ card \in [Tab -> Mutation \cup {None}]
  /\ locating \in [Tab -> SUBSET Location]
  /\ approved \in SUBSET Mutation
  /\ executed \in [Mutation -> Nat]
  /\ overlapped \in BOOLEAN

Init ==
  /\ thread = None
  /\ run = [q \in Request |-> NoRun]
  /\ message = [c \in Call |-> {}]
  /\ wire = [q \in Request |-> <<>>]
  /\ answered = {}
  /\ listening = [t \in Tab |-> {}]
  /\ streaming = [t \in Tab |-> FALSE]
  /\ card = [t \in Tab |-> None]
  /\ locating = [t \in Tab |-> {}]
  /\ approved = {}
  /\ executed = [c \in Mutation |-> 0]
  /\ overlapped = FALSE
===============================================================================
