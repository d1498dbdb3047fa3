---------------------------- MODULE AssistantProofs ----------------------------
(***************************************************************************)
(* One thread, many requests: why an approval reaches the call it was      *)
(* given for as long as turns do not overlap, for any number of tabs,      *)
(* requests and calls.  Most steps only shrink the turn that is under way. *)
(***************************************************************************)
EXTENDS Assistant, FiniteSetTheorems, TLAPS

-----------------------------------------------------------------------------
(* Types *)

LEMMA RunFields ==
  ASSUME TypeOK, NEW q \in Request
  PROVE  /\ run[q].pc \in {"none", "sent", "model", "execute"}
         /\ run[q].open \in BOOLEAN
         /\ run[q].pc = "sent" => run[q].ask \in Ask
         /\ run[q].pc = "model" => run[q].steps \in 0..StepLimit
BY DEF TypeOK, Run

LEMMA RunsOf ==
  ASSUME NEW o \in BOOLEAN
  PROVE  /\ \A a \in Ask : [pc |-> "sent", ask |-> a, open |-> o] \in Run
         /\ \A k \in 0..StepLimit : [pc |-> "model", steps |-> k, open |-> o] \in Run
         /\ [pc |-> "execute", open |-> o] \in Run
         /\ NoRun \in Run /\ NoRun.pc = "none"
BY DEF Run, NoRun

LEMMA FirstStep == 0 \in 0..StepLimit
BY AssistantAssumption

\* A run whose response can no longer be written.
LEMMA RunClosed ==
  ASSUME NEW r \in Run
  PROVE  LET s == [r EXCEPT !.open = FALSE]
         IN  /\ s \in Run /\ s.pc = r.pc
             /\ r.pc = "sent" => s.ask = r.ask
<1> DEFINE s == [r EXCEPT !.open = FALSE]
<1>1. CASE r \in [pc: {"none"}, open: {FALSE}]
  <2>1. s \in [pc: {"none"}, open: {FALSE}] /\ s.pc = "none" /\ r.pc = "none"
    BY <1>1
  <2> QED BY <2>1 DEF Run
<1>2. CASE r \in [pc: {"sent"}, ask: Ask, open: BOOLEAN]
  <2>1. s \in [pc: {"sent"}, ask: Ask, open: BOOLEAN] /\ s.ask = r.ask /\ r.pc = "sent"
    BY <1>2
  <2> QED BY <2>1 DEF Run
<1>3. CASE r \in [pc: {"model"}, steps: 0..StepLimit, open: BOOLEAN]
  <2>1. s \in [pc: {"model"}, steps: 0..StepLimit, open: BOOLEAN] /\ r.pc = "model"
    BY <1>3
  <2> QED BY <2>1 DEF Run
<1>4. CASE r \in [pc: {"execute"}, open: BOOLEAN]
  <2>1. s \in [pc: {"execute"}, open: BOOLEAN] /\ r.pc = "execute"
    BY <1>4
  <2> QED BY <2>1 DEF Run
<1> QED BY <1>1, <1>2, <1>3, <1>4 DEF Run

LEMMA InitTypes == Init => TypeOK
<1> SUFFICES ASSUME Init PROVE TypeOK
  OBVIOUS
<1>1. run \in [Request -> Run]
  BY DEF Run, NoRun, Init
<1>2. wire \in [Request -> Seq(Event)]
  BY DEF Init
<1>3. executed \in [Mutation -> Nat] /\ card \in [Tab -> Mutation \cup {None}]
  BY DEF Init
<1>4. listening \in [Tab -> SUBSET Request] /\ locating \in [Tab -> SUBSET Location]
  BY DEF Init
<1>5. streaming \in [Tab -> BOOLEAN] /\ thread \in Message \cup {None} /\ overlapped \in BOOLEAN
  BY DEF Init
<1>6. message \in [Call -> SUBSET Call] /\ answered \in SUBSET Request /\ approved \in SUBSET Mutation
  BY DEF Init
<1> QED BY <1>1, <1>2, <1>3, <1>4, <1>5, <1>6 DEF TypeOK

-----------------------------------------------------------------------------
(* Steps that shrink the turn *)

\* What a request may still do is what it could do before.
RunsShrink ==
  \A q \in Request :
    /\ run'[q].pc # "none" => run[q].pc # "none"
    /\ run'[q].pc = "sent" => run[q].pc = "sent" /\ run'[q].ask = run[q].ask

\* Streams lose their head, all they hold, or nothing, and get no new question.
WiresShrink ==
  \A q \in Request : \E k \in {0, 1} : \A i \in DOMAIN wire'[q] :
    wire'[q][i] \in Call => i + k \in DOMAIN wire[q] /\ wire[q][i + k] = wire'[q][i]

Shrinks ==
  /\ thread' \in {thread, None}
  /\ UNCHANGED <<message, executed, approved, overlapped>>
  /\ RunsShrink /\ WiresShrink
  /\ Questions' \subseteq Questions

\* A step keeps the types and the inductive invariant.
StepIsSound == TypeOK' /\ TurnInv'

LEMMA ArrivingShrinks ==
  ASSUME TypeOK, TypeOK', WiresShrink
  PROVE  /\ Arriving' # {} => Arriving # {}
         /\ \A x \in Arriving' :
              \E y \in Arriving : wire[y[1]][y[2]] = wire'[x[1]][x[2]]
         /\ (\A x, y \in Arriving : x = y) => \A x, y \in Arriving' : x = y
<1>1. ASSUME NEW x \in Arriving'
      PROVE  /\ x[1] \in Request /\ x[2] \in DOMAIN wire'[x[1]] /\ wire'[x[1]][x[2]] \in Call
             /\ x = <<x[1], x[2]>>
  BY DEF Arriving
<1>2. ASSUME NEW q \in Request, NEW i \in DOMAIN wire[q], wire[q][i] \in Call
      PROVE  <<q, i>> \in Arriving
  BY <1>2 DEF Arriving
<1>3. ASSUME NEW x \in Arriving'
      PROVE  \E y \in Arriving : wire[y[1]][y[2]] = wire'[x[1]][x[2]]
  <2>1. PICK k \in {0, 1} : \A i \in DOMAIN wire'[x[1]] :
          wire'[x[1]][i] \in Call =>
            i + k \in DOMAIN wire[x[1]] /\ wire[x[1]][i + k] = wire'[x[1]][i]
    BY <1>1 DEF WiresShrink
  <2>2. <<x[1], x[2] + k>> \in Arriving
    BY <1>1, <1>2, <2>1
  <2> QED BY <1>1, <2>1, <2>2
<1>4. ASSUME \A x, y \in Arriving : x = y, NEW x \in Arriving', NEW y \in Arriving'
      PROVE  x = y
  <2>1. PICK k \in {0, 1} : \A i \in DOMAIN wire'[x[1]] :
          wire'[x[1]][i] \in Call =>
            i + k \in DOMAIN wire[x[1]] /\ wire[x[1]][i + k] = wire'[x[1]][i]
    BY <1>1 DEF WiresShrink
  <2>2. PICK l \in {0, 1} : \A i \in DOMAIN wire'[y[1]] :
          wire'[y[1]][i] \in Call =>
            i + l \in DOMAIN wire[y[1]] /\ wire[y[1]][i + l] = wire'[y[1]][i]
    BY <1>1 DEF WiresShrink
  <2>3. <<x[1], x[2] + k>> \in Arriving /\ <<y[1], y[2] + l>> \in Arriving
    BY <1>1, <1>2, <2>1, <2>2
  <2>4. x[1] = y[1]
    BY <1>4, <2>3
  <2>5. <<y[1], y[2] + k>> \in Arriving
    BY <1>1, <1>2, <2>1, <2>4
  <2>6. x[2] + k = y[2] + k
    BY <1>4, <2>3, <2>5
  <2>7. x[2] \in Nat /\ y[2] \in Nat
    <3>1. wire'[x[1]] \in Seq(Event) /\ wire'[y[1]] \in Seq(Event)
      BY <1>1 DEF TypeOK
    <3> QED BY <1>1, <3>1
  <2> QED BY <1>1, <2>4, <2>6, <2>7
<1> QED BY <1>3, <1>4

LEMMA QuestionsType ==
  ASSUME TypeOK
  PROVE  \A x \in Questions : x[1] \in Tab /\ x[2] \in Call
BY DEF Questions, TypeOK, Call

LEMMA ArrivingType ==
  ASSUME TypeOK
  PROVE  \A x \in Arriving :
           x[1] \in Request /\ x[2] \in DOMAIN wire[x[1]] /\ wire[x[1]][x[2]] \in Call
BY DEF Arriving

\* What shrinks the turn cannot make an answer reach the wrong call.
LEMMA ShrinksIsSound ==
  ASSUME TypeOK, TypeOK', TurnInv, Shrinks
  PROVE  TurnInv'
<1>1. /\ thread' # None => thread' = thread
      /\ Waiting' \in {Waiting, None}
  BY DEF Shrinks, Waiting
<1>2. CallsAreMade'
  BY <1>1 DEF TurnInv, CallsAreMade, Shrinks
<1>3. ApprovedUnlessOverlapped'
  BY DEF TurnInv, ApprovedUnlessOverlapped, Shrinks
<1> SUFFICES ASSUME ~overlapped PROVE OneAtATime' /\ AnswersReachTheirCall' /\ RunsFollowAnswers'
  BY <1>2, <1>3 DEF TurnInv, Shrinks
<1>4. OneAtATime /\ AnswersReachTheirCall /\ RunsFollowAnswers
  BY DEF TurnInv
<1>5. /\ Arriving' # {} => Arriving # {}
      /\ \A x \in Arriving' : \E y \in Arriving : wire[y[1]][y[2]] = wire'[x[1]][x[2]]
      /\ (\A x, y \in Arriving : x = y) => \A x, y \in Arriving' : x = y
  BY ArrivingShrinks DEF Shrinks
<1>6. \A q \in Request : Running(q)' => Running(q)
  BY DEF Shrinks, RunsShrink, Running
<1>7. Questions' \subseteq Questions
  BY DEF Shrinks
<1>8. OneAtATime'
  <2>1. \A p, q \in Request : Running(p)' /\ Running(q)' => p = q
    BY <1>4, <1>6 DEF OneAtATime
  <2>2. \A q \in Request : Running(q)' => Arriving' = {} /\ Questions' = {}
    BY <1>4, <1>5, <1>6, <1>7 DEF OneAtATime
  <2>3. \A x, y \in Arriving' : x = y
    BY <1>4, <1>5 DEF OneAtATime
  <2>4. \A x, y \in Questions' : x = y
    BY <1>4, <1>7 DEF OneAtATime
  <2>5. Arriving' # {} => Questions' = {}
    BY <1>4, <1>5, <1>7 DEF OneAtATime
  <2> QED BY <2>1, <2>2, <2>3, <2>4, <2>5 DEF OneAtATime
<1>9. AnswersReachTheirCall'
  <2>1. \A x \in Arriving' : Waiting' \in {wire'[x[1]][x[2]], None}
    BY <1>1, <1>4, <1>5 DEF AnswersReachTheirCall
  <2>2. \A x \in Questions' : Waiting' \in {x[2], None}
    BY <1>1, <1>4, <1>7 DEF AnswersReachTheirCall
  <2>3. \A q \in Request : run'[q].pc = "sent" /\ Waiting' \in Mutation =>
          run'[q].ask # "coordinates" /\ (run'[q].ask = "approve" => Waiting' \in approved')
    BY <1>1, <1>4, AssistantAssumption DEF AnswersReachTheirCall, Shrinks, RunsShrink, Call
  <2> QED BY <2>1, <2>2, <2>3 DEF AnswersReachTheirCall
<1>10. RunsFollowAnswers'
  <2>1. AnswerMayCome' => AnswerMayCome
    BY <1>5, <1>7 DEF AnswerMayCome, Shrinks, RunsShrink
  <2> QED BY <1>1, <1>4, <2>1 DEF RunsFollowAnswers, Shrinks
<1> QED BY <1>8, <1>9, <1>10

\* What becomes of the requests when one of them changes.
LEMMA OneRunShrinks ==
  ASSUME TypeOK, NEW q \in Request, NEW r \in Run, run' = [run EXCEPT ![q] = r],
         \/ r.pc \in {"none", "model"} /\ run[q].pc # "none"
         \/ /\ r.pc = run[q].pc
            /\ r.pc = "sent" => r.ask = run[q].ask
  PROVE  run' \in [Request -> Run] /\ RunsShrink
<1>1. run \in [Request -> Run]
  BY DEF TypeOK
<1>2. run' \in [Request -> Run] /\ run'[q] = r /\ \A p \in Request \ {q} : run'[p] = run[p]
  BY <1>1
<1>3. \A p \in Request \ {q} : run'[p] = run[p]
  BY <1>2
<1>4. ASSUME NEW p \in Request
      PROVE  /\ run'[p].pc # "none" => run[p].pc # "none"
             /\ run'[p].pc = "sent" => run[p].pc = "sent" /\ run'[p].ask = run[p].ask
  <2>1. CASE p = q
    <3>1. run'[p] = r
      BY <1>2, <2>1
    <3> QED BY <2>1, <3>1
  <2>2. CASE p # q
    BY <1>3, <2>2
  <2> QED BY <2>1, <2>2
<1> QED BY <1>2, <1>4 DEF RunsShrink

\* Running and wire shrink when they do not change.
LEMMA SilentShrinks ==
  ASSUME TypeOK, wire' = wire
  PROVE  wire' \in [Request -> Seq(Event)] /\ WiresShrink
<1>1. \A q \in Request : wire[q] \in Seq(Event)
  BY DEF TypeOK
<1>2. \A q \in Request : \A i \in DOMAIN wire[q] : i \in Nat
  BY <1>1
<1>3. \A q \in Request : \A i \in DOMAIN wire[q] : i + 0 = i
  BY <1>2
<1>4. WiresShrink
  BY <1>3 DEF WiresShrink
<1> QED BY <1>4 DEF TypeOK

\* The stream of a request that is over gets a last event, which asks nothing.
LEMMA LastEventShrinks ==
  ASSUME TypeOK, NEW q \in Request, NEW e \in {"error", "done"}, Emit(q, <<e>>)
  PROVE  wire' \in [Request -> Seq(Event)] /\ WiresShrink /\ answered' = answered
<1>1. e \in Event /\ e \notin Call
  BY AssistantAssumption DEF Event
<1>2. \A p \in Request : wire[p] \in Seq(Event)
  BY DEF TypeOK
<1>3. wire[q] \o <<e>> \in Seq(Event)
  BY <1>1, <1>2
<1>4. wire' \in [Request -> Seq(Event)]
  BY <1>2, <1>3 DEF Emit, TypeOK
<1>5. \A p \in Request : wire'[p] \in {wire[p], wire[p] \o <<e>>}
  BY DEF Emit, TypeOK
<1>6. ASSUME NEW p \in Request, NEW i \in DOMAIN wire'[p], wire'[p][i] \in Call
      PROVE  i + 0 \in DOMAIN wire[p] /\ wire[p][i + 0] = wire'[p][i]
  <2>1. wire[p] \in Seq(Event)
    BY <1>2
  <2>2. CASE wire'[p] = wire[p]
    BY <2>1, <2>2, <1>6
  <2>3. CASE wire'[p] = wire[p] \o <<e>>
    BY <1>1, <1>6, <2>1, <2>3
  <2> QED BY <1>5, <2>2, <2>3
<1> QED BY <1>4, <1>6 DEF WiresShrink, Emit

\* A step of the server, and what its lemmas have to show of it.
LEMMA ServerShrinks ==
  ASSUME TypeOK, TurnInv, run' \in [Request -> Run], RunsShrink,
         wire' \in [Request -> Seq(Event)], WiresShrink,
         thread' \in {thread, None}, UNCHANGED <<message, executed, answered, client>>
  PROVE  StepIsSound
<1>1. TypeOK'
  BY DEF TypeOK, client
<1>2. Questions' = Questions
  BY DEF Questions, client
<1>3. Shrinks
  BY <1>2 DEF Shrinks, client
<1> QED BY <1>1, <1>3, ShrinksIsSound DEF StepIsSound

-----------------------------------------------------------------------------
(* The server *)

LEMMA StreamChatIsSound ==
  ASSUME TypeOK, TurnInv, NEW q \in Request, StreamChat(q)
  PROVE  StepIsSound
<1> DEFINE r == [pc |-> "model", steps |-> 0, open |-> run[q].open]
<1>1. r \in Run /\ r.pc = "model"
  BY RunFields, RunsOf, FirstStep
<1>2. run' = [run EXCEPT ![q] = r] /\ run[q].pc = "sent"
  BY DEF StreamChat, TypeOK
<1> HIDE DEF r
<1>3. run' \in [Request -> Run] /\ RunsShrink
  BY <1>1, <1>2, OneRunShrinks
<1>4. wire' = wire
  BY DEF StreamChat, Silent
<1> QED BY <1>3, <1>4, SilentShrinks, ServerShrinks DEF StreamChat, Silent

LEMMA ResumeNothingIsSound ==
  ASSUME TypeOK, TurnInv, NEW q \in Request, ResumeNothing(q)
  PROVE  StepIsSound
<1>1. run' \in [Request -> Run] /\ RunsShrink
  BY RunsOf, OneRunShrinks DEF ResumeNothing
<1>2. PICK last \in {"done", "error"} : Emit(q, <<last>>)
  BY DEF ResumeNothing
<1> QED BY <1>1, <1>2, LastEventShrinks, ServerShrinks DEF ResumeNothing

LEMMA ModelAnswersIsSound ==
  ASSUME TypeOK, TurnInv, NEW q \in Request, ModelAnswers(q)
  PROVE  StepIsSound
<1>1. run' \in [Request -> Run] /\ RunsShrink
  BY RunsOf, OneRunShrinks DEF ModelAnswers
<1> QED BY <1>1, LastEventShrinks, ServerShrinks DEF ModelAnswers

LEMMA TurnFailsIsSound ==
  ASSUME TypeOK, TurnInv, NEW q \in Request, ModelFails(q) \/ ExecuteThrows(q)
  PROVE  StepIsSound
<1>1. run' \in [Request -> Run] /\ RunsShrink
  BY RunsOf, OneRunShrinks DEF ModelFails, ExecuteThrows
<1> QED BY <1>1, LastEventShrinks, ServerShrinks DEF ModelFails, ExecuteThrows

LEMMA ModelReadsIsSound ==
  ASSUME TypeOK, TurnInv, NEW q \in Request, ModelReads(q)
  PROVE  StepIsSound
<1> DEFINE r == [run[q] EXCEPT !.steps = @ + 1]
<1>1. run[q] \in [pc: {"model"}, steps: 0..StepLimit, open: BOOLEAN]
  BY DEF ModelReads, TypeOK, Run
<1>2. r \in [pc: {"model"}, steps: 0..StepLimit, open: BOOLEAN] /\ r.pc = "model"
  BY <1>1, AssistantAssumption DEF ModelReads
<1>3. run' = [run EXCEPT ![q] = r] /\ run[q].pc = "model" /\ r \in Run
  BY <1>2 DEF ModelReads, TypeOK, Run
<1> HIDE DEF r
<1>4. run' \in [Request -> Run] /\ RunsShrink
  BY <1>2, <1>3, OneRunShrinks
<1>5. wire' = wire
  BY DEF ModelReads, Silent
<1> QED BY <1>4, <1>5, SilentShrinks, ServerShrinks DEF ModelReads, Silent

\* The response is closed: the run goes on as it was.
LEMMA OneRunCloses ==
  ASSUME TypeOK, NEW q \in Request, run' = [run EXCEPT ![q].open = FALSE]
  PROVE  run' \in [Request -> Run] /\ RunsShrink
<1> DEFINE r == [run[q] EXCEPT !.open = FALSE]
<1>1. run[q] \in Run
  BY DEF TypeOK
<1>2. /\ r \in Run /\ r.pc = run[q].pc
      /\ run[q].pc = "sent" => r.ask = run[q].ask
  BY <1>1, RunClosed
<1>3. run' = [run EXCEPT ![q] = r]
  BY DEF TypeOK
<1> HIDE DEF r
<1> QED BY <1>2, <1>3, OneRunShrinks

LEMMA IdleTimeoutIsSound ==
  ASSUME TypeOK, TurnInv, NEW q \in Request, IdleTimeout(q)
  PROVE  StepIsSound
<1>1. run' \in [Request -> Run] /\ RunsShrink
  BY OneRunCloses DEF IdleTimeout
<1> QED BY <1>1, LastEventShrinks, ServerShrinks DEF IdleTimeout

LEMMA NeverArrivesIsSound ==
  ASSUME TypeOK, TurnInv, NEW q \in Request, NeverArrives(q)
  PROVE  StepIsSound
<1>1. run' \in [Request -> Run] /\ RunsShrink
  BY RunsOf, OneRunShrinks DEF NeverArrives
<1> QED BY <1>1, SilentShrinks, ServerShrinks DEF NeverArrives

LEMMA RestartIsSound ==
  ASSUME TypeOK, TurnInv, Restart
  PROVE  StepIsSound
<1>1. run' \in [Request -> Run] /\ RunsShrink
  BY RunsOf DEF Restart, RunsShrink
<1>2. "error" \in Event /\ "error" \notin Call
  BY AssistantAssumption DEF Event
<1>3. \A p \in Request : wire[p] \in Seq(Event) /\ Append(wire[p], "error") \in Seq(Event)
  BY <1>2 DEF TypeOK
<1>4. wire' \in [Request -> Seq(Event)]
  BY <1>3 DEF Restart
<1>5. \A p \in Request : wire'[p] \in {wire[p], Append(wire[p], "error")}
  BY DEF Restart
<1>6. ASSUME NEW p \in Request, NEW i \in DOMAIN wire'[p], wire'[p][i] \in Call
      PROVE  i + 0 \in DOMAIN wire[p] /\ wire[p][i + 0] = wire'[p][i]
  <2>1. wire[p] \in Seq(Event)
    BY <1>3
  <2>2. CASE wire'[p] = wire[p]
    BY <2>1, <2>2, <1>6
  <2>3. CASE wire'[p] = Append(wire[p], "error")
    BY <1>2, <1>6, <2>1, <2>3
  <2> QED BY <1>5, <2>2, <2>3
<1>7. WiresShrink
  BY <1>6 DEF WiresShrink
<1> QED BY <1>1, <1>4, <1>7, ServerShrinks DEF Restart

\* The tools a resume starts are calls of the waiting message.  As long as turns do
\* not overlap they are approved, and each was started once less than the message's
\* calls have been answered now.
LEMMA StartsIsSound ==
  ASSUME TypeOK, TurnInv, NEW q \in Request, run[q].pc = "sent", run[q].ask # "message",
         thread # None, Starts(q)
  PROVE  LET M == message[thread.call] IN
         /\ executed' \in [Mutation -> Nat]
         /\ Granted(q) \subseteq M \cap Mutation
         /\ \A c \in Mutation : executed'[c] > 0 => c \in message[c]
         /\ ~overlapped =>
              /\ Granted(q) \subseteq approved
              /\ \A c \in Mutation :
                   /\ executed'[c] > 0 => c \in approved
                   /\ executed'[c] <= Cardinality(message[c])
              /\ \A c \in M \cap Mutation : executed'[c] <= Cardinality(M \ thread.later)
<1> DEFINE M == message[thread.call]
           asked == M \ thread.later
<1>1. thread \in Message /\ thread.call \in Call /\ thread.granted \subseteq Mutation
  BY DEF TypeOK, Message
<1>2. /\ M \subseteq Call /\ thread.call \in asked /\ thread.granted \subseteq M
      /\ \A c \in M : message[c] = M
  BY <1>1 DEF TurnInv, CallsAreMade, TypeOK
<1>3. Granted(q) \subseteq M \cap Mutation
  BY <1>1, <1>2 DEF Granted
<1>4. /\ executed' \in [Mutation -> Nat]
      /\ \A c \in Mutation :
           executed'[c] = IF c \in Granted(q) THEN executed[c] + 1 ELSE executed[c]
  BY DEF Starts, TypeOK
<1>5. \A c \in Mutation : executed'[c] > 0 => c \in message[c]
  BY <1>2, <1>3, <1>4 DEF TurnInv, CallsAreMade
<1>6. ASSUME ~overlapped
      PROVE  /\ Granted(q) \subseteq approved
             /\ \A c \in Mutation :
                  /\ executed'[c] > 0 => c \in approved
                  /\ executed'[c] <= Cardinality(message[c])
             /\ \A c \in M \cap Mutation : executed'[c] <= Cardinality(asked)
  <2>1. RunsFollowAnswers /\ AnswersReachTheirCall /\ ApprovedUnlessOverlapped /\ AnswerMayCome
    BY <1>6 DEF TurnInv, AnswerMayCome
  <2>2. thread.call \in Mutation /\ Approves(run[q].ask) => thread.call \in approved
    <3>1. run[q].ask \in Ask
      BY RunFields
    <3> QED BY <2>1, <3>1 DEF AnswersReachTheirCall, Waiting, Approves, Ask
  <2>3. Granted(q) \subseteq approved
    BY <2>1, <2>2 DEF Granted, RunsFollowAnswers
  <2>4. IsFiniteSet(M) /\ IsFiniteSet(asked)
    BY <1>2, AssistantAssumption, FS_Subset
  <2>5. /\ Cardinality(asked \ {thread.call}) = Cardinality(asked) - 1
        /\ Cardinality(asked) \in Nat /\ Cardinality(M) \in Nat
        /\ Cardinality(asked) <= Cardinality(M)
    <3>1. asked \subseteq M
      OBVIOUS
    <3>2. Cardinality(asked \ {thread.call}) = Cardinality(asked) - 1
      BY <1>2, <2>4, FS_RemoveElement
    <3>3. Cardinality(asked) \in Nat /\ Cardinality(M) \in Nat
      BY <2>4, FS_CardinalityType
    <3>4. Cardinality(asked) <= Cardinality(M)
      BY <2>4, <3>1, FS_Subset
    <3> QED BY <3>2, <3>3, <3>4
  <2>6. \A c \in M \cap Mutation : executed[c] <= Cardinality(asked \ {thread.call})
    BY <2>1 DEF RunsFollowAnswers
  <2> HIDE DEF asked
  <2>7. \A c \in M \cap Mutation : executed'[c] <= Cardinality(asked)
    <3> SUFFICES ASSUME NEW c \in M \cap Mutation PROVE executed'[c] <= Cardinality(asked)
      OBVIOUS
    <3>1. executed[c] \in Nat /\ executed[c] <= Cardinality(asked) - 1
      BY <2>5, <2>6 DEF TypeOK
    <3> QED BY <1>4, <2>5, <3>1
  <2>8. ASSUME NEW c \in Mutation
        PROVE  /\ executed'[c] > 0 => c \in approved
               /\ executed'[c] <= Cardinality(message[c])
    <3>1. CASE c \in Granted(q)
      <4>1. c \in M \cap Mutation /\ message[c] = M
        BY <1>2, <1>3, <3>1
      <4>2. executed'[c] <= Cardinality(asked) /\ executed'[c] \in Nat
        BY <1>4, <2>7, <4>1
      <4> QED BY <2>3, <2>5, <3>1, <4>1, <4>2
    <3>2. CASE c \notin Granted(q)
      BY <1>4, <1>6, <2>1, <3>2 DEF ApprovedUnlessOverlapped
    <3> QED BY <3>1, <3>2
  <2> QED BY <2>3, <2>7, <2>8
<1> QED BY <1>3, <1>4, <1>5, <1>6

\* The value a resume carries reaches the call it was given for.
LEMMA ResumeChatIsSound ==
  ASSUME TypeOK, TurnInv, NEW q \in Request, ResumeChat(q)
  PROVE  StepIsSound
<1> run[q].open \in BOOLEAN /\ run[q].pc = "sent" /\ run[q].ask # "message" /\ thread # None
  BY RunFields DEF ResumeChat
<1>1. wire' \in [Request -> Seq(Event)] /\ WiresShrink /\ wire' = wire
  BY SilentShrinks DEF ResumeChat, Silent
<1>2. UNCHANGED <<message, answered, client>>
  BY DEF ResumeChat, Silent
<1>3. CASE Granted(q) = {}
  <2> DEFINE r == [pc |-> "model", steps |-> 0, open |-> run[q].open]
  <2>1. r \in Run /\ r.pc = "model"
    BY RunsOf, FirstStep
  <2>2. run' = [run EXCEPT ![q] = r]
    BY <1>3 DEF ResumeChat, TypeOK
  <2> HIDE DEF r
  <2>3. run' \in [Request -> Run] /\ RunsShrink
    BY <2>1, <2>2, OneRunShrinks
  <2>4. thread' = None /\ executed' = executed
    BY <1>3 DEF ResumeChat, Starts, TypeOK
  <2> QED BY <1>1, <1>2, <2>3, <2>4, ServerShrinks
<1>4. CASE Granted(q) # {}
  <2> DEFINE r == [pc |-> "execute", open |-> run[q].open]
  <2>1. r \in Run /\ r.pc = "execute"
    BY RunsOf
  <2>2. run' = [run EXCEPT ![q] = r] /\ thread' = thread
    BY <1>4 DEF ResumeChat, TypeOK
  <2> HIDE DEF r
  <2>3. /\ run' \in [Request -> Run] /\ run'[q] = r
        /\ \A p \in Request \ {q} : run'[p] = run[p]
    BY <2>1, <2>2 DEF TypeOK
  <2>4. /\ executed' \in [Mutation -> Nat]
        /\ \A c \in Mutation : executed'[c] > 0 => c \in message[c]
        /\ ~overlapped =>
             /\ \A c \in Mutation :
                  /\ executed'[c] > 0 => c \in approved
                  /\ executed'[c] <= Cardinality(message[c])
             /\ \A c \in message[thread.call] \cap Mutation :
                  executed'[c] <= Cardinality(message[thread.call] \ thread.later)
    BY StartsIsSound DEF ResumeChat
  <2>5. TypeOK'
    BY <1>1, <1>2, <2>2, <2>3, <2>4 DEF TypeOK, client
  <2>6. Arriving' = Arriving /\ Questions' = Questions /\ Waiting' = Waiting
    BY <1>1, <1>2, <2>2 DEF Arriving, Questions, Waiting, client
  <2>7. \A p \in Request : Running(p)' <=> Running(p)
    BY <2>1, <2>3 DEF Running
  <2>8. CallsAreMade'
    BY <1>2, <2>2, <2>4 DEF TurnInv, CallsAreMade
  <2>9. ApprovedUnlessOverlapped'
    BY <1>2, <2>4 DEF ApprovedUnlessOverlapped, client
  <2>10. ~overlapped => OneAtATime'
    BY <2>6, <2>7 DEF TurnInv, OneAtATime
  <2>11. ~overlapped => AnswersReachTheirCall'
    BY <1>1, <1>2, <2>1, <2>3, <2>6 DEF TurnInv, AnswersReachTheirCall, client
  <2>12. ~overlapped => RunsFollowAnswers'
    <3>1. ~overlapped => ~AnswerMayCome'
      <4>1. ~overlapped => Arriving = {} /\ Questions = {}
        BY DEF TurnInv, OneAtATime, Running
      <4>2. ~overlapped => \A p \in Request \ {q} : run[p].pc = "none"
        BY DEF TurnInv, OneAtATime, Running
      <4> QED BY <2>1, <2>3, <2>6, <4>1, <4>2 DEF AnswerMayCome
    <3> QED BY <1>2, <2>2, <2>4, <3>1 DEF TurnInv, RunsFollowAnswers, client
  <2> QED BY <1>2, <2>5, <2>8, <2>9, <2>10, <2>11, <2>12 DEF StepIsSound, TurnInv, client
<1> QED BY <1>3, <1>4

\* The tools of a message have run, and its thread waits no more.
LEMMA ExecuteIsSound ==
  ASSUME TypeOK, TurnInv, NEW q \in Request, Execute(q)
  PROVE  StepIsSound
<1> DEFINE r == [pc |-> "model", steps |-> 0, open |-> run[q].open]
<1>1. r \in Run /\ r.pc = "model"
  BY RunFields, RunsOf, FirstStep
<1>2. run' = [run EXCEPT ![q] = r] /\ run[q].pc = "execute"
  BY DEF Execute, TypeOK
<1> HIDE DEF r
<1>3. run' \in [Request -> Run] /\ RunsShrink
  BY <1>1, <1>2, OneRunShrinks
<1>4. wire' = wire
  BY DEF Execute, Silent
<1> QED BY <1>3, <1>4, SilentShrinks, ServerShrinks DEF Execute, Silent

\* A run ends with a question: it is the only one, and the thread waits for its answer.
LEMMA QuestionIsOnlyOne ==
  ASSUME TypeOK, TurnInv, NEW q \in Request, NEW c \in Call, Running(q),
         run' = [run EXCEPT ![q] = NoRun], Emit(q, <<c, "done">>), UNCHANGED client,
         thread'.call = c
  PROVE  /\ run' \in [Request -> Run]
         /\ wire' \in [Request -> Seq(Event)]
         /\ UNCHANGED answered
         /\ ~overlapped => OneAtATime' /\ AnswersReachTheirCall'
<1>1. UNCHANGED answered
  BY DEF Emit
<1>2. /\ run' \in [Request -> Run] /\ run'[q].pc = "none"
      /\ \A p \in Request \ {q} : run'[p] = run[p]
  BY RunsOf DEF TypeOK
<1>3. /\ {c, "done"} \subseteq Event /\ "done" \notin Call
      /\ \A p \in Request : wire[p] \in Seq(Event)
  BY AssistantAssumption DEF Event, TypeOK
<1>4. wire[q] \o <<c, "done">> \in Seq(Event)
  BY <1>3
<1>5. /\ wire' \in [Request -> Seq(Event)]
      /\ wire'[q] \in {wire[q], wire[q] \o <<c, "done">>}
      /\ \A p \in Request \ {q} : wire'[p] = wire[p]
  BY <1>3, <1>4 DEF Emit, TypeOK
<1>6. ASSUME ~overlapped PROVE OneAtATime' /\ AnswersReachTheirCall'
  <2>1. \A p \in Request : ~Running(p)'
    BY <1>2, <1>6 DEF TurnInv, OneAtATime, Running
  <2>2. Arriving = {} /\ Questions = {}
    BY <1>6 DEF TurnInv, OneAtATime
  <2>3. Questions' = {}
    BY <2>2 DEF Questions, client
  <2>4. \A x \in Arriving' : x = <<q, Len(wire[q]) + 1>> /\ wire'[q][x[2]] = c
    <3> SUFFICES ASSUME NEW p \in Request, NEW i \in DOMAIN wire'[p], wire'[p][i] \in Call
                 PROVE  p = q /\ i = Len(wire[q]) + 1 /\ wire'[q][i] = c
      BY DEF Arriving
    <3>1. ASSUME NEW j \in DOMAIN wire[p], wire[p][j] \in Call PROVE FALSE
      <4>1. <<p, j>> \in Arriving
        BY <3>1 DEF Arriving
      <4> QED BY <2>2, <4>1
    <3>2. wire'[p] # wire[p]
      BY <3>1
    <3>3. p = q /\ wire'[q] = wire[q] \o <<c, "done">>
      BY <1>5, <3>2
    <3>4. wire[q] \in Seq(Event)
      BY <1>3
    <3> QED BY <1>3, <3>1, <3>3, <3>4
  <2>5. OneAtATime'
    BY <2>1, <2>3, <2>4 DEF OneAtATime
  <2>6. AnswersReachTheirCall'
    <3>1. \A p \in Request : run'[p].pc # "sent"
      BY <2>1 DEF Running
    <3>2. \A x \in Arriving' : wire'[x[1]][x[2]] = c
      BY <2>4
    <3>3. Waiting' \in {c, None}
      BY DEF Waiting
    <3> QED BY <2>3, <3>1, <3>2, <3>3 DEF AnswersReachTheirCall
  <2> QED BY <2>5, <2>6
<1> QED BY <1>1, <1>2, <1>5, <1>6

\* More calls of the message wait: one more of them is answered than have been.
LEMMA ResumeAsksNextIsSound ==
  ASSUME TypeOK, TurnInv, NEW q \in Request, NEW c \in Call, ResumeAsksNext(q, c)
  PROVE  StepIsSound
<1> DEFINE M == message[thread.call]
<1>1. /\ run[q].pc = "sent" /\ run[q].ask # "message" /\ thread # None /\ c \in thread.later
      /\ thread' = [call |-> c, granted |-> Granted(q), later |-> thread.later \ {c}]
      /\ Starts(q) /\ UNCHANGED <<message, client>>
  BY DEF ResumeAsksNext
<1>2. thread \in Message /\ thread.call \in Call /\ thread.later \subseteq Call
  BY <1>1 DEF TypeOK, Message
<1>3. thread.later \subseteq M /\ thread.call \notin thread.later /\ message[c] = M
  BY <1>1, <1>2 DEF TurnInv, CallsAreMade, TypeOK
<1>4. /\ executed' \in [Mutation -> Nat] /\ Granted(q) \subseteq M \cap Mutation
      /\ \A d \in Mutation : executed'[d] > 0 => d \in message[d]
      /\ ~overlapped =>
           /\ Granted(q) \subseteq approved
           /\ \A d \in Mutation :
                /\ executed'[d] > 0 => d \in approved
                /\ executed'[d] <= Cardinality(message[d])
           /\ \A d \in M \cap Mutation : executed'[d] <= Cardinality(M \ thread.later)
  BY <1>1, StartsIsSound
<1>5. /\ thread'.call = c /\ thread'.granted = Granted(q) /\ thread'.later = thread.later \ {c}
      /\ thread' \in Message
  BY <1>1, <1>2, <1>4 DEF Message
<1>6. /\ run' \in [Request -> Run] /\ wire' \in [Request -> Seq(Event)] /\ UNCHANGED answered
      /\ ~overlapped => OneAtATime' /\ AnswersReachTheirCall'
  BY <1>1, <1>5, QuestionIsOnlyOne DEF ResumeAsksNext, Running
<1>7. TypeOK'
  BY <1>1, <1>4, <1>5, <1>6 DEF TypeOK, client
<1>8. CallsAreMade'
  BY <1>1, <1>3, <1>4, <1>5 DEF TurnInv, CallsAreMade
<1>9. ApprovedUnlessOverlapped'
  BY <1>1, <1>4 DEF ApprovedUnlessOverlapped, client
<1>10. ~overlapped => RunsFollowAnswers'
  <2>1. /\ (M \ thread'.later) \ {c} = M \ thread.later
        /\ M \ thread.later \subseteq M \ thread'.later
    BY <1>1, <1>5
  <2>2. IsFiniteSet(M \ thread'.later)
    <3>1. M \ thread'.later \subseteq Call
      BY <1>2 DEF TypeOK
    <3> QED BY <3>1, AssistantAssumption, FS_Subset
  <2>3. /\ Cardinality(M \ thread.later) \in Nat /\ Cardinality(M \ thread'.later) \in Nat
        /\ Cardinality(M \ thread.later) <= Cardinality(M \ thread'.later)
    BY <2>1, <2>2, FS_CardinalityType, FS_Subset
  <2>4. ~overlapped => \A d \in M \cap Mutation : executed'[d] <= Cardinality(M \ thread'.later)
    <3> SUFFICES ASSUME ~overlapped, NEW d \in M \cap Mutation
                 PROVE  executed'[d] <= Cardinality(M \ thread'.later)
      OBVIOUS
    <3>1. executed'[d] \in Nat /\ executed'[d] <= Cardinality(M \ thread.later)
      BY <1>4
    <3> QED BY <2>3, <3>1
  <2>5. message'[thread'.call] = M /\ approved' = approved
    BY <1>1, <1>3, <1>5 DEF client
  <2> QED BY <1>4, <1>5, <2>1, <2>4, <2>5 DEF RunsFollowAnswers
<1> QED BY <1>1, <1>6, <1>7, <1>8, <1>9, <1>10 DEF StepIsSound, TurnInv, client

\* A new message: none of its calls has run, and the thread waits for an answer to one.
LEMMA ModelAsksIsSound ==
  ASSUME TypeOK, TurnInv, NEW q \in Request, NEW C \in SUBSET Call, NEW c \in Call,
         ModelAsks(q, C, c)
  PROVE  StepIsSound
<1>1. /\ c \in C /\ run[q].pc = "model" /\ \A d \in C : message[d] = {}
      /\ thread' = [call |-> c, granted |-> {}, later |-> C \ {c}]
      /\ message' = [d \in Call |-> IF d \in C THEN C ELSE message[d]]
      /\ UNCHANGED <<executed, client>>
  BY DEF ModelAsks
<1>2. /\ thread'.call = c /\ thread'.granted = {} /\ thread'.later = C \ {c}
      /\ thread' \in Message
  BY <1>1 DEF Message
<1>3. /\ run' \in [Request -> Run] /\ wire' \in [Request -> Seq(Event)] /\ UNCHANGED answered
      /\ ~overlapped => OneAtATime' /\ AnswersReachTheirCall'
  BY <1>1, <1>2, QuestionIsOnlyOne DEF ModelAsks, Running
<1>4. message' \in [Call -> SUBSET Call]
  BY <1>1 DEF TypeOK
<1>5. TypeOK'
  BY <1>1, <1>2, <1>3, <1>4 DEF TypeOK, client
<1>6. \A d \in C \cap Mutation : executed[d] = 0
  <2> SUFFICES ASSUME NEW d \in C \cap Mutation PROVE executed[d] = 0
    OBVIOUS
  <2>1. ~(executed[d] > 0)
    BY <1>1 DEF TurnInv, CallsAreMade
  <2>2. executed[d] \in Nat
    BY DEF TypeOK
  <2> QED BY <2>1, <2>2
<1>7. CallsAreMade'
  <2>1. \A d \in Call : \A e \in message'[d] : message'[e] = message'[d]
    <3> SUFFICES ASSUME NEW d \in Call, NEW e \in message'[d] PROVE message'[e] = message'[d]
      OBVIOUS
    <3>1. e \in Call
      BY <1>4
    <3>2. CASE d \in C
      BY <1>1, <3>1, <3>2
    <3>3. CASE d \notin C
      <4>1. e \in message[d] /\ message[e] = message[d]
        BY <1>1, <3>3 DEF TurnInv, CallsAreMade
      <4>2. e \notin C
        BY <1>1, <4>1
      <4> QED BY <1>1, <3>1, <3>3, <4>1, <4>2
    <3> QED BY <3>2, <3>3
  <2>2. \A d \in Mutation : executed'[d] > 0 => d \in message'[d]
    BY <1>1, <1>6 DEF TurnInv, CallsAreMade, Call
  <2>3. message'[c] = C
    BY <1>1
  <2> QED BY <1>1, <1>2, <2>1, <2>2, <2>3 DEF CallsAreMade
<1>8. \A S \in SUBSET Call : Cardinality(S) \in Nat
  BY AssistantAssumption, FS_Subset, FS_CardinalityType
<1>9. ApprovedUnlessOverlapped'
  <2> SUFFICES ASSUME ~overlapped, NEW d \in Mutation
               PROVE  /\ executed[d] > 0 => d \in approved
                      /\ executed[d] <= Cardinality(message'[d])
    BY <1>1 DEF ApprovedUnlessOverlapped, client
  <2>1. CASE d \in C
    BY <1>1, <1>6, <1>8, <2>1 DEF Call
  <2>2. CASE d \notin C
    BY <1>1, <2>2 DEF TurnInv, ApprovedUnlessOverlapped, Call
  <2> QED BY <2>1, <2>2
<1>10. RunsFollowAnswers'
  <2>1. message'[thread'.call] = C
    BY <1>1, <1>2
  <2>2. /\ 0 <= Cardinality(C \ thread'.later)
        /\ 0 <= Cardinality((C \ thread'.later) \ {c})
    BY <1>8
  <2> QED BY <1>1, <1>2, <1>6, <2>1, <2>2 DEF RunsFollowAnswers
<1> QED BY <1>1, <1>3, <1>5, <1>7, <1>9, <1>10 DEF StepIsSound, TurnInv, client

-----------------------------------------------------------------------------
(* The browser *)

\* Streams that are cut are typed, and ask nothing any more.
LEMMA CutShrinks ==
  ASSUME TypeOK, wire' \in [Request -> Seq(Event)],
         \A q \in Request : wire'[q] \in {wire[q], <<>>}
  PROVE  WiresShrink
<1>1. ASSUME NEW q \in Request, NEW i \in DOMAIN wire'[q]
      PROVE  i + 0 \in DOMAIN wire[q] /\ wire[q][i + 0] = wire'[q][i]
  <2>1. wire[q] \in Seq(Event)
    BY DEF TypeOK
  <2>2. CASE wire'[q] = wire[q]
    BY <2>1, <2>2, <1>1
  <2>3. CASE wire'[q] = <<>>
    BY <2>3, <1>1
  <2> QED BY <2>2, <2>3
<1> QED BY <1>1 DEF WiresShrink

LEMMA ClosingIsSound ==
  ASSUME TypeOK, TurnInv, NEW t \in Tab, NEW q \in Request,
         run' = [run EXCEPT ![q].open = FALSE], wire' = [wire EXCEPT ![q] = <<>>],
         listening' \in [Tab -> SUBSET Request], streaming' \in [Tab -> BOOLEAN],
         UNCHANGED <<thread, message, executed, answered, card, locating, approved, overlapped>>
  PROVE  StepIsSound
<1>1. run' \in [Request -> Run] /\ RunsShrink
  BY OneRunCloses
<1>2. wire' \in [Request -> Seq(Event)] /\ \A p \in Request : wire'[p] \in {wire[p], <<>>}
  BY DEF TypeOK
<1>3. WiresShrink
  BY <1>2, CutShrinks
<1>4. TypeOK'
  BY <1>1, <1>2 DEF TypeOK
<1>5. Questions' = Questions
  BY DEF Questions
<1>6. Shrinks
  BY <1>1, <1>3, <1>5 DEF Shrinks
<1> QED BY <1>4, <1>6, ShrinksIsSound DEF StepIsSound

LEMMA GiveUpIsSound ==
  ASSUME TypeOK, TurnInv, NEW t \in Tab, NEW q \in Request, GiveUp(t, q)
  PROVE  StepIsSound
<1>1. listening' \in [Tab -> SUBSET Request] /\ streaming' \in [Tab -> BOOLEAN]
  BY DEF GiveUp, StopReading, TypeOK
<1> QED BY <1>1, ClosingIsSound DEF GiveUp, StopReading

LEMMA DropIsSound ==
  ASSUME TypeOK, TurnInv, NEW t \in Tab, NEW q \in Request, Drop(t, q)
  PROVE  StepIsSound
<1>1. listening' \in [Tab -> SUBSET Request] /\ streaming' \in [Tab -> BOOLEAN]
  BY DEF Drop, client, TypeOK
<1> QED BY <1>1, ClosingIsSound DEF Drop, client

LEMMA ReloadIsSound ==
  ASSUME TypeOK, TurnInv, NEW t \in Tab, Reload(t)
  PROVE  StepIsSound
<1>1. ASSUME NEW q \in Request
      PROVE  /\ run'[q] \in Run /\ run'[q].pc = run[q].pc
             /\ run[q].pc = "sent" => run'[q].ask = run[q].ask
  <2> DEFINE r == [run[q] EXCEPT !.open = FALSE]
  <2>1. run[q] \in Run
    BY DEF TypeOK
  <2>2. /\ r \in Run /\ r.pc = run[q].pc
        /\ run[q].pc = "sent" => r.ask = run[q].ask
    BY <2>1, RunClosed
  <2>3. run'[q] \in {run[q], r}
    BY DEF Reload
  <2> HIDE DEF r
  <2> QED BY <2>1, <2>2, <2>3
<1>2. run' \in [Request -> Run] /\ RunsShrink
  BY <1>1 DEF Reload, RunsShrink
<1>3. /\ wire' \in [Request -> Seq(Event)]
      /\ \A p \in Request : wire'[p] \in {wire[p], <<>>}
  BY DEF Reload, TypeOK
<1>4. WiresShrink
  BY <1>3, CutShrinks
<1>5. TypeOK'
  BY <1>2, <1>3 DEF Reload, TypeOK
<1>6. Questions' \subseteq Questions
  <2>1. /\ card' \in [Tab -> Mutation \cup {None}]
        /\ \A u \in Tab : card'[u] \in {card[u], None} /\ locating'[u] \subseteq locating[u]
    BY DEF Reload, TypeOK
  <2>2. ASSUME NEW u \in Tab, card'[u] # None PROVE <<u, card'[u]>> \in Questions
    <3>1. card'[u] = card[u] /\ card[u] # None
      BY <2>1, <2>2
    <3> QED BY <3>1 DEF Questions
  <2>3. ASSUME NEW u \in Tab, NEW c \in locating'[u] PROVE <<u, c>> \in Questions
    <3>1. c \in locating[u]
      BY <2>1
    <3> QED BY <3>1 DEF Questions
  <2> QED BY <2>2, <2>3 DEF Questions
<1>7. Shrinks
  BY <1>2, <1>4, <1>6 DEF Shrinks, Reload
<1> QED BY <1>5, <1>7, ShrinksIsSound DEF StepIsSound

\* The panel hears of an event: a question it was asked is now open, or the
\* stream has ended.
LEMMA HandleEventIsSound ==
  ASSUME TypeOK, TurnInv, NEW t \in Tab, NEW q \in Request, HandleEvent(t, q)
  PROVE  StepIsSound
<1> DEFINE e == Head(wire[q])
<1>1. wire[q] \in Seq(Event) /\ wire[q] # <<>>
  BY DEF HandleEvent, TypeOK
<1>2. /\ e \in Event /\ e = wire[q][1] /\ 1 \in DOMAIN wire[q]
      /\ Tail(wire[q]) \in Seq(Event)
      /\ \A i \in DOMAIN Tail(wire[q]) :
           i \in Nat /\ i + 1 \in DOMAIN wire[q] /\ wire[q][i + 1] = Tail(wire[q])[i]
  BY <1>1
<1>3. /\ wire' \in [Request -> Seq(Event)] /\ wire'[q] = Tail(wire[q])
      /\ \A p \in Request \ {q} : wire'[p] = wire[p]
  BY <1>2 DEF HandleEvent, TypeOK
<1>4. card' \in [Tab -> Mutation \cup {None}] /\ locating' \in [Tab -> SUBSET Location]
  BY DEF HandleEvent, TypeOK
<1>5. listening' \in [Tab -> SUBSET Request] /\ streaming' \in [Tab -> BOOLEAN]
  BY DEF HandleEvent, TypeOK
<1>6. UNCHANGED <<thread, run, message, executed, approved, overlapped>>
  BY DEF HandleEvent, server
<1>7. TypeOK'
  BY <1>3, <1>4, <1>5, <1>6 DEF HandleEvent, TypeOK
<1>8. CASE e \notin Call
  <2>1. UNCHANGED <<card, locating>>
    BY <1>8 DEF HandleEvent, Call
  <2>2. Questions' = Questions
    BY <2>1 DEF Questions
  <2>3. ASSUME NEW p \in Request
        PROVE  \E k \in {0, 1} : \A i \in DOMAIN wire'[p] :
                 wire'[p][i] \in Call => i + k \in DOMAIN wire[p] /\ wire[p][i + k] = wire'[p][i]
    <3>1. CASE p = q
      BY <1>2, <1>3, <3>1
    <3>2. CASE p # q
      <4>1. wire'[p] = wire[p] /\ wire[p] \in Seq(Event)
        BY <1>3, <3>2 DEF TypeOK
      <4>2. \A i \in DOMAIN wire'[p] : i + 0 \in DOMAIN wire[p] /\ wire[p][i + 0] = wire'[p][i]
        BY <4>1
      <4> QED BY <4>2
    <3> QED BY <3>1, <3>2
  <2>4. Shrinks
    BY <1>6, <2>2, <2>3 DEF Shrinks, WiresShrink, RunsShrink
  <2> QED BY <1>7, <2>4, ShrinksIsSound DEF StepIsSound
<1>9. CASE e \in Call
  <2>1. <<q, 1>> \in Arriving
    BY <1>2, <1>9 DEF Arriving
  <2>2. CallsAreMade' /\ ApprovedUnlessOverlapped'
    BY <1>6 DEF TurnInv, CallsAreMade, ApprovedUnlessOverlapped
  <2>3. ASSUME ~overlapped PROVE OneAtATime' /\ AnswersReachTheirCall' /\ RunsFollowAnswers'
    <3>1. /\ \A x \in Arriving : x = <<q, 1>>
          /\ Questions = {}
          /\ \A p \in Request : ~Running(p)
          /\ Waiting \in {e, None}
      <4>1. Waiting \in {wire[q][1], None}
        BY <2>1, <2>3 DEF TurnInv, AnswersReachTheirCall
      <4> QED BY <1>2, <2>1, <2>3, <4>1 DEF TurnInv, OneAtATime
    <3>2. \A p \in Request : ~Running(p)'
      BY <1>6, <3>1 DEF Running
    <3>3. Arriving' = {}
      <4> SUFFICES ASSUME NEW p \in Request, NEW i \in DOMAIN wire'[p], wire'[p][i] \in Call
                   PROVE  FALSE
        BY DEF Arriving
      <4>1. CASE p = q
        <5>1. i \in Nat /\ i + 1 \in DOMAIN wire[q] /\ wire[q][i + 1] \in Call /\ i # 0
          BY <1>2, <1>3, <4>1
        <5>2. <<q, i + 1>> \in Arriving
          BY <5>1 DEF Arriving
        <5> QED BY <3>1, <5>1, <5>2
      <4>2. CASE p # q
        <5>1. <<p, i>> \in Arriving
          BY <1>3, <4>2 DEF Arriving
        <5> QED BY <3>1, <4>2, <5>1
      <4> QED BY <4>1, <4>2
    <3>4. \A u \in Tab : card[u] = None /\ locating[u] = {}
      <4>1. ASSUME NEW u \in Tab, card[u] # None PROVE <<u, card[u]>> \in Questions
        BY <4>1 DEF Questions
      <4>2. ASSUME NEW u \in Tab, NEW c \in locating[u] PROVE <<u, c>> \in Questions
        BY DEF Questions
      <4> QED BY <3>1, <4>1, <4>2
    <3>5. \A x \in Questions' : x = <<t, e>>
      <4>1. ASSUME NEW u \in Tab, card'[u] # None PROVE u = t /\ card'[u] = e
        BY <3>4, <4>1 DEF HandleEvent, TypeOK
      <4>2. ASSUME NEW u \in Tab, NEW c \in locating'[u] PROVE u = t /\ c = e
        BY <3>4, <4>2 DEF HandleEvent, TypeOK
      <4> QED BY <4>1, <4>2 DEF Questions
    <3>6. OneAtATime'
      BY <3>2, <3>3, <3>5 DEF OneAtATime
    <3>7. AnswersReachTheirCall'
      BY <1>6, <3>1, <3>2, <3>3, <3>5 DEF AnswersReachTheirCall, Running, Waiting
    <3>8. RunsFollowAnswers'
      BY <1>6, <2>1, <2>3 DEF TurnInv, RunsFollowAnswers, AnswerMayCome
    <3> QED BY <3>6, <3>7, <3>8
  <2> QED BY <1>6, <1>7, <2>2, <2>3 DEF StepIsSound, TurnInv
<1> QED BY <1>8, <1>9

-----------------------------------------------------------------------------
(* The user *)

\* A request that is sent answers the one open question, or the turn overlaps
\* another from now on.
LEMMA ConsumeIsSound ==
  ASSUME TypeOK, TurnInv, NEW t \in Tab, NEW q \in Request, NEW ask \in Ask, NEW asked,
         Consume(t, q, ask, asked),
         card' \in [Tab -> Mutation \cup {None}], locating' \in [Tab -> SUBSET Location],
         approved' \in SUBSET Mutation, approved \subseteq approved',
         ask # "message" => asked # {}, Questions = asked => Questions' = {},
         ~overlapped /\ Questions = asked /\ Waiting \in Mutation =>
           ask # "coordinates" /\ (ask = "approve" => Waiting \in approved')
  PROVE  StepIsSound
<1> DEFINE r == [pc |-> "sent", ask |-> ask, open |-> TRUE]
<1>1. r \in Run /\ r.pc = "sent" /\ r.ask = ask
  BY RunsOf
<1>2. run' = [run EXCEPT ![q] = r]
  BY DEF Consume
<1> HIDE DEF r
<1>3. /\ run' \in [Request -> Run] /\ run'[q] = r
      /\ \A p \in Request \ {q} : run'[p] = run[p]
  BY <1>1, <1>2 DEF TypeOK
<1>4. UNCHANGED <<thread, message, wire, executed>>
  BY DEF Consume
<1>5. overlapped' \in BOOLEAN /\ (~overlapped' => ~overlapped /\ ~Busy /\ Questions = asked)
  BY DEF Consume, TypeOK
<1>6. listening' \in [Tab -> SUBSET Request] /\ streaming' \in [Tab -> BOOLEAN]
  BY DEF Consume, TypeOK
<1>7. TypeOK'
  BY <1>3, <1>4, <1>5, <1>6 DEF Consume, TypeOK
<1>8. CallsAreMade'
  BY <1>1, <1>3, <1>4 DEF TurnInv, CallsAreMade
<1>9. ApprovedUnlessOverlapped'
  BY <1>4, <1>5 DEF TurnInv, ApprovedUnlessOverlapped
<1>10. ASSUME ~overlapped' PROVE OneAtATime' /\ AnswersReachTheirCall' /\ RunsFollowAnswers'
  <2>1. /\ Questions' = {} /\ Arriving' = {}
        /\ \A p \in Request \ {q} : ~Running(p) /\ ~Running(p)'
    BY <1>3, <1>4, <1>5, <1>10 DEF Busy, Arriving, Running
  <2>2. OneAtATime'
    BY <2>1 DEF OneAtATime
  <2>3. AnswersReachTheirCall'
    <3>1. Waiting' = Waiting
      BY <1>4 DEF Waiting
    <3> QED BY <1>1, <1>3, <1>5, <1>10, <2>1, <3>1 DEF AnswersReachTheirCall, Running
  <2>4. RunsFollowAnswers'
    <3>1. AnswerMayCome' => AnswerMayCome
      BY <1>1, <1>3, <1>5, <1>10, <2>1 DEF AnswerMayCome, Running
    <3> QED BY <1>4, <1>5, <1>10, <3>1 DEF TurnInv, RunsFollowAnswers
  <2> QED BY <2>2, <2>3, <2>4
<1> QED BY <1>7, <1>8, <1>9, <1>10 DEF StepIsSound, TurnInv

LEMMA SendIsSound ==
  ASSUME TypeOK, TurnInv, NEW t \in Tab, NEW q \in Request, Send(t, q)
  PROVE  StepIsSound
<1>1. "message" \in Ask
  BY DEF Ask
<1>2. Questions' = Questions
  BY DEF Send, Questions
<1>3. Consume(t, q, "message", {}) /\ UNCHANGED <<card, locating, approved>>
  BY DEF Send
<1> QED BY <1>1, <1>2, <1>3, ConsumeIsSound DEF TypeOK

\* The one open question, when it was a card.
LEMMA RespondIsSound ==
  ASSUME TypeOK, TurnInv, NEW t \in Tab, NEW q \in Request, NEW approve \in BOOLEAN,
         Respond(t, q, approve)
  PROVE  StepIsSound
<1> DEFINE ask == IF approve THEN "approve" ELSE "decline"
           asked == {<<t, card[t]>>}
<1>1. ask \in Ask /\ ask # "coordinates" /\ (ask = "approve" => approve)
  BY DEF Ask
<1>2. Consume(t, q, ask, asked)
  BY DEF Respond
<1>3. /\ card[t] \in Mutation /\ card[t] # None /\ UNCHANGED locating
      /\ card' = [card EXCEPT ![t] = None]
      /\ approved' = IF approve THEN approved \cup {card[t]} ELSE approved
  BY DEF Respond, TypeOK
<1>4. /\ card' \in [Tab -> Mutation \cup {None}] /\ locating' \in [Tab -> SUBSET Location]
      /\ approved' \in SUBSET Mutation /\ approved \subseteq approved'
  BY <1>3 DEF TypeOK
<1>5. ASSUME Questions = asked PROVE Questions' = {}
  <2>1. ASSUME NEW u \in Tab, card[u] # None PROVE u = t
    <3>1. <<u, card[u]>> \in Questions
      BY <2>1 DEF Questions
    <3> QED BY <1>5, <3>1
  <2>2. ASSUME NEW u \in Tab, NEW c \in locating[u] PROVE FALSE
    <3>1. <<u, c>> \in Questions /\ c \in Location
      BY DEF Questions, TypeOK
    <3> QED BY <1>3, <1>5, <3>1, AssistantAssumption
  <2>3. \A u \in Tab : card'[u] = None /\ locating'[u] = {}
    BY <1>3, <2>1, <2>2 DEF TypeOK
  <2> QED BY <2>3 DEF Questions
<1>6. ASSUME ~overlapped, Questions = asked, Waiting \in Mutation, approve
      PROVE  Waiting \in approved'
  <2>1. Waiting = card[t]
    BY <1>6, AssistantAssumption DEF TurnInv, AnswersReachTheirCall, Call
  <2> QED BY <1>3, <1>6, <2>1
<1>7. asked # {}
  OBVIOUS
<1> HIDE DEF ask, asked
<1> QED BY <1>1, <1>2, <1>4, <1>5, <1>6, <1>7, ConsumeIsSound

\* The one open question, when it was one for the location.
LEMMA LocateIsSound ==
  ASSUME TypeOK, TurnInv, NEW t \in Tab, NEW q \in Request, NEW c \in Location,
         NEW found \in BOOLEAN, Locate(t, q, c, found)
  PROVE  StepIsSound
<1> DEFINE ask == IF found THEN "coordinates" ELSE "nowhere"
           asked == {<<t, c>>}
<1>1. ask \in Ask /\ ask # "approve"
  BY DEF Ask
<1>2. Consume(t, q, ask, asked)
  BY DEF Locate
<1>3. /\ c \in locating[t] /\ UNCHANGED <<card, approved>>
      /\ locating' = [locating EXCEPT ![t] = @ \ {c}]
      /\ locating' \in [Tab -> SUBSET Location]
  BY DEF Locate, TypeOK
<1>4. ASSUME Questions = asked PROVE Questions' = {}
  <2>1. ASSUME NEW u \in Tab, card[u] # None PROVE FALSE
    <3>1. <<u, card[u]>> \in Questions /\ card[u] \in Mutation
      BY <2>1 DEF Questions, TypeOK
    <3> QED BY <1>4, <3>1, AssistantAssumption
  <2>2. ASSUME NEW u \in Tab, NEW d \in locating[u] PROVE u = t /\ d = c
    <3>1. <<u, d>> \in Questions
      BY DEF Questions
    <3> QED BY <1>4, <3>1
  <2>3. \A u \in Tab : card'[u] = None /\ locating'[u] = {}
    BY <1>3, <2>1, <2>2 DEF TypeOK
  <2> QED BY <2>3 DEF Questions
<1>5. ~(~overlapped /\ Questions = asked /\ Waiting \in Mutation)
  BY AssistantAssumption DEF TurnInv, AnswersReachTheirCall, Call
<1>6. asked # {}
  OBVIOUS
<1> HIDE DEF ask, asked
<1> QED BY <1>1, <1>2, <1>3, <1>4, <1>5, <1>6, ConsumeIsSound DEF TypeOK

-----------------------------------------------------------------------------
(* Every step *)

LEMMA StutterIsSound ==
  ASSUME TypeOK, TurnInv, UNCHANGED vars
  PROVE  StepIsSound
<1>1. TypeOK'
  BY DEF TypeOK, vars
<1>2. Arriving' = Arriving /\ Questions' = Questions
  BY DEF Arriving, Questions, vars
<1>3. TurnInv'
  BY <1>2 DEF TurnInv, CallsAreMade, ApprovedUnlessOverlapped, OneAtATime,
       AnswersReachTheirCall, RunsFollowAnswers, AnswerMayCome, Waiting, Running, vars
<1> QED BY <1>1, <1>3 DEF StepIsSound

LEMMA EveryStepIsSound ==
  ASSUME TypeOK, TurnInv, [Next]_vars
  PROVE  StepIsSound
<1>1. ASSUME NEW q \in Request, Server(q) PROVE StepIsSound
  BY <1>1, StreamChatIsSound, ResumeChatIsSound, ResumeAsksNextIsSound, ResumeNothingIsSound,
     ExecuteIsSound,     TurnFailsIsSound, ModelAnswersIsSound, ModelReadsIsSound, ModelAsksIsSound,
     IdleTimeoutIsSound
  DEF Server
<1>2. ASSUME NEW t \in Tab, NEW q \in Request, User(t, q) PROVE StepIsSound
  BY <1>2, SendIsSound, RespondIsSound, LocateIsSound DEF User
<1>3. ASSUME NEW t \in Tab, NEW q \in Request, Browser(t, q) PROVE StepIsSound
  BY <1>3, HandleEventIsSound, GiveUpIsSound, DropIsSound DEF Browser
<1> QED BY <1>1, <1>2, <1>3, NeverArrivesIsSound, RestartIsSound, ReloadIsSound,
           StutterIsSound DEF Next

LEMMA InitIsSound == Init => TypeOK /\ TurnInv
<1> SUFFICES ASSUME Init PROVE TypeOK /\ TurnInv
  OBVIOUS
<1>1. TypeOK
  BY InitTypes
<1>2. Arriving = {} /\ Questions = {} /\ \A q \in Request : run[q].pc = "none"
  BY DEF Init, Arriving, Questions, NoRun
<1>3. CallsAreMade /\ RunsFollowAnswers
  BY AssistantAssumption DEF Init, CallsAreMade, RunsFollowAnswers, Call
<1>4. ApprovedUnlessOverlapped
  <2>1. Cardinality({}) = 0
    BY FS_EmptySet
  <2> QED BY <2>1 DEF Init, ApprovedUnlessOverlapped, Call
<1>5. OneAtATime /\ AnswersReachTheirCall
  BY <1>2, AssistantAssumption
  DEF Init, OneAtATime, AnswersReachTheirCall, Waiting, Running, Call
<1> QED BY <1>1, <1>3, <1>4, <1>5 DEF TurnInv

\* The conversation, its requests and the tabs keep their types, and as long as
\* turns do not overlap there is one turn under way, whose answer reaches the call
\* it was given for.
THEOREM TurnsStayApart == Spec => [](TypeOK /\ TurnInv)
<1>1. TypeOK /\ TurnInv /\ [Next]_vars => TypeOK' /\ TurnInv'
  BY EveryStepIsSound DEF StepIsSound
<1> QED BY <1>1, InitIsSound, PTL DEF Spec

\* The state of the assistant keeps its types.
THEOREM AssistantTypeCorrect == Spec => []TypeOK
BY TurnsStayApart, PTL

\* As long as turns do not overlap, a mutation's tool is started only after its own
\* card was approved, and at most once for every call of the message that carries it
\* (toLangChainTool, respondToConfirmation).
THEOREM OnlyApprovedRun == Spec => []ApprovedUnlessOverlapped
<1>1. TurnInv => ApprovedUnlessOverlapped
  BY DEF TurnInv
<1> QED BY <1>1, TurnsStayApart, PTL

==============================================================================
