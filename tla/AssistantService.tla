--------------------------- MODULE AssistantService ---------------------------
(***************************************************************************)
(* assistant.service.ts and assistant.controller.ts: the graph a request   *)
(* runs, with what LangGraph does for it (checkpoints in memory, interrupt *)
(* and resume, the step limit).  The model is free: it may answer, call    *)
(* any tool its caller's role has, or fail.                                *)
(***************************************************************************)
EXTENDS AssistantState

\* pipeToSse: an event is written while the response can be written.
Emit(q, events) ==
  /\ wire' = [wire EXCEPT ![q] = IF run[q].open THEN @ \o events ELSE @]
  /\ UNCHANGED answered

Silent == UNCHANGED <<wire, answered>>

\* streamChat: a new message starts a turn.  A call that waited for an answer is
\* given up with the checkpoint it waited in.
StreamChat(q) ==
  /\ run[q].pc = "sent" /\ run[q].ask = "message"
  /\ thread' = None
  /\ run' = [run EXCEPT ![q] = [pc |-> "model", steps |-> 0, open |-> @.open]]
  /\ Silent
  /\ UNCHANGED <<message, executed, client>>

\* Mutant: a refusal is taken for an answer like any other.
ApprovesAnyAnswer(ask) == ask # "nowhere"

\* toLangChainTool: the value an interrupt is resumed with counts as an approval
\* unless it is false or null.
Approves(ask) == ask \notin {"decline", "nowhere"}

\* The mutations that have their approval, with the value a resume carries: it goes
\* to whatever call waits.
Granted(q) ==
  thread.granted \cup
    (IF thread.call \in Mutation /\ Approves(run[q].ask) THEN {thread.call} ELSE {})

\* The node of the tools runs from its start: every approved call of the message is
\* started, those that were started with an earlier answer too.
Starts(q) ==
  executed' = [c \in Mutation |-> IF c \in Granted(q) THEN executed[c] + 1 ELSE executed[c]]

\* resumeChat, for a thread that waits: the last call of the message is answered.
ResumeChat(q) ==
  /\ run[q].pc = "sent" /\ run[q].ask # "message"
  /\ thread # None /\ thread.later = {}
  /\ Starts(q)
  /\ IF Granted(q) # {}
     THEN /\ run' = [run EXCEPT ![q] = [pc |-> "execute", open |-> @.open]]
          /\ UNCHANGED thread
     ELSE /\ run' = [run EXCEPT ![q] = [pc |-> "model", steps |-> 0, open |-> @.open]]
          /\ thread' = None
  /\ Silent
  /\ UNCHANGED <<message, client>>

\* resumeChat, when more calls of the message wait: the next one interrupts, while the
\* tools just started go on unobserved.
ResumeAsksNext(q, c) ==
  /\ run[q].pc = "sent" /\ run[q].ask # "message"
  /\ thread # None /\ c \in thread.later
  /\ Starts(q)
  /\ thread' = [call |-> c, granted |-> Granted(q), later |-> thread.later \ {c}]
  /\ run' = [run EXCEPT ![q] = NoRun]
  /\ Emit(q, <<c, "done">>)
  /\ UNCHANGED <<message, client>>

\* resumeChat, for a thread that waits for nothing, after a restart for example.
ResumeNothing(q) ==
  /\ run[q].pc = "sent" /\ run[q].ask # "message"
  /\ thread = None
  /\ run' = [run EXCEPT ![q] = NoRun]
  /\ \E last \in {"done", "error"} : Emit(q, <<last>>)
  /\ UNCHANGED <<thread, message, executed, client>>

\* The tools of a message have run; the checkpoint after them waits for nothing.  A
\* refusal of the service (an HttpException) is a result like any other.
Execute(q) ==
  /\ run[q].pc = "execute"
  /\ thread' = None
  /\ run' = [run EXCEPT ![q] = [pc |-> "model", steps |-> 0, open |-> @.open]]
  /\ Silent
  /\ UNCHANGED <<message, executed, client>>

\* A tool throws something else: the turn ends and the last call still waits.
ExecuteThrows(q) ==
  /\ run[q].pc = "execute"
  /\ run' = [run EXCEPT ![q] = NoRun]
  /\ Emit(q, <<"error">>)
  /\ UNCHANGED <<thread, message, executed, client>>

\* The model has answered: the turn is over.
ModelAnswers(q) ==
  /\ run[q].pc = "model"
  /\ thread' = None
  /\ run' = [run EXCEPT ![q] = NoRun]
  /\ Emit(q, <<"done">>)
  /\ UNCHANGED <<message, executed, client>>

\* The model calls a tool that only reads: the turn goes on.
ModelReads(q) ==
  /\ run[q].pc = "model"
  /\ run[q].steps < StepLimit
  /\ thread' = None
  /\ run' = [run EXCEPT ![q].steps = @ + 1]
  /\ Silent
  /\ UNCHANGED <<message, executed, client>>

\* The model's message carries calls that interrupt: the checkpoint waits in them, the
\* tab is told of one (interrupts[0]), and the stream ends.
ModelAsks(q, C, c) ==
  /\ run[q].pc = "model"
  /\ run[q].steps < StepLimit
  /\ c \in C /\ \A d \in C : message[d] = {}
  /\ message' = [d \in Call |-> IF d \in C THEN C ELSE message[d]]
  /\ thread' = [call |-> c, granted |-> {}, later |-> C \ {c}]
  /\ run' = [run EXCEPT ![q] = NoRun]
  /\ Emit(q, <<c, "done">>)
  /\ UNCHANGED <<executed, client>>

\* The provider fails, or the step limit is reached.
ModelFails(q) ==
  /\ run[q].pc = "model"
  /\ run' = [run EXCEPT ![q] = NoRun]
  /\ Emit(q, <<"error">>)
  /\ UNCHANGED <<thread, message, executed, client>>

\* withIdleTimeout: the tab is told that nothing came, and the graph goes on.
IdleTimeout(q) ==
  /\ run[q].pc \in {"model", "execute"}
  /\ run[q].open
  /\ run' = [run EXCEPT ![q].open = FALSE]
  /\ Emit(q, <<"error">>)
  /\ UNCHANGED <<thread, message, executed, client>>

\* The process restarts: the MemorySaver and every run are gone, and connections
\* are reset.
Restart ==
  /\ thread' = None
  /\ run' = [q \in Request |-> NoRun]
  /\ wire' = [q \in Request |-> IF run[q].open THEN Append(wire[q], "error") ELSE wire[q]]
  /\ UNCHANGED <<message, executed, answered, client>>
===============================================================================
