----------------------------- MODULE AssistantChat -----------------------------
(***************************************************************************)
(* features/assistant/hooks.ts and api.ts, and the panel that calls them:  *)
(* one instance of useAssistantChat per tab.                               *)
(***************************************************************************)
EXTENDS AssistantState

\* A question is open while its card is shown or its location is awaited.
Questions == {<<t, card[t]>> : t \in {u \in Tab : card[u] # None}}
             \cup UNION {{t} \X locating[t] : t \in Tab}

\* The questions that are still to arrive: requests, and places in their streams.
Arriving == UNION {{q} \X {i \in DOMAIN wire[q] : wire[q][i] \in Call} : q \in Request}

\* A turn is under way: a graph runs, or a question it asked is still to arrive.
Busy == (\E q \in Request : Running(q)) \/ Arriving # {}

\* consume: the request is sent and listened to.  asked is what it answers.
Consume(t, q, ask, asked) ==
  /\ Free(q)
  /\ run' = [run EXCEPT ![q] = [pc |-> "sent", ask |-> ask, open |-> TRUE]]
  /\ listening' = [listening EXCEPT ![t] = @ \cup {q}]
  /\ streaming' = [streaming EXCEPT ![t] = TRUE]
  /\ answered' = answered \ {q}
  /\ overlapped' = (overlapped \/ Busy \/ Questions # asked)
  /\ UNCHANGED <<thread, message, wire, executed>>

\* send: not while streaming.  A card that is shown stays.
Send(t, q) ==
  /\ ~streaming[t]
  /\ Consume(t, q, "message", {})
  /\ UNCHANGED <<card, locating, approved>>

\* respondToConfirmation: the card's buttons, at any time.
Respond(t, q, approve) ==
  /\ card[t] # None
  /\ Consume(t, q, IF approve THEN "approve" ELSE "decline", {<<t, card[t]>>})
  /\ card' = [card EXCEPT ![t] = None]
  /\ approved' = IF approve THEN approved \cup {card[t]} ELSE approved
  /\ UNCHANGED locating

\* fetchLocationNow resolves: the tab resumes with what it got, at any time.
Locate(t, q, c, found) ==
  /\ c \in locating[t]
  /\ Consume(t, q, IF found THEN "coordinates" ELSE "nowhere", {<<t, c>>})
  /\ locating' = [locating EXCEPT ![t] = @ \ {c}]
  /\ UNCHANGED <<card, approved>>

\* Mutant: whatever the assistant waits for is shown as a card.
HandleEventAsCard(t, q) ==
  /\ q \in listening[t]
  /\ wire[q] # <<>>
  /\ LET e == Head(wire[q]) IN
       /\ card' = IF e \in Call THEN [card EXCEPT ![t] = e] ELSE card
       /\ streaming' = IF e \in Call THEN streaming ELSE [streaming EXCEPT ![t] = FALSE]
       /\ listening' = IF e \in Call THEN listening ELSE [listening EXCEPT ![t] = @ \ {q}]
  /\ wire' = [wire EXCEPT ![q] = Tail(@)]
  /\ answered' = answered \cup {q}
  /\ UNCHANGED <<server, locating, approved, overlapped>>

\* handleEvent: the card is replaced, the location is asked for; the end of the
\* stream, good or bad, ends isStreaming.
HandleEvent(t, q) ==
  /\ q \in listening[t]
  /\ wire[q] # <<>>
  /\ LET e == Head(wire[q]) IN
       /\ card' = IF e \in Mutation THEN [card EXCEPT ![t] = e] ELSE card
       /\ locating' = IF e \in Location THEN [locating EXCEPT ![t] = @ \cup {e}] ELSE locating
       /\ streaming' = IF e \in Call THEN streaming ELSE [streaming EXCEPT ![t] = FALSE]
       /\ listening' = IF e \in Call THEN listening ELSE [listening EXCEPT ![t] = @ \ {q}]
  /\ wire' = [wire EXCEPT ![q] = Tail(@)]
  /\ answered' = answered \cup {q}
  /\ UNCHANGED <<server, approved, overlapped>>

\* The tab stops reading: nothing arrived for STREAM_IDLE_TIMEOUT_MS, or the read
\* failed.  The graph goes on; pipeToSse gives up at its next event.
StopReading(t, q) ==
  /\ run' = [run EXCEPT ![q].open = FALSE]
  /\ wire' = [wire EXCEPT ![q] = <<>>]
  /\ listening' = [listening EXCEPT ![t] = @ \ {q}]
  /\ UNCHANGED <<thread, message, executed, answered, card, locating, approved, overlapped>>

\* Mutant: isStreaming is only reset after a stream that ended well.
GiveUpNoFinally(t, q) ==
  /\ q \in listening[t]
  /\ StopReading(t, q)
  /\ UNCHANGED streaming

\* consume's finally block: a stream that ends in an exception ends isStreaming too.
GiveUp(t, q) ==
  /\ q \in listening[t]
  /\ StopReading(t, q)
  /\ streaming' = [streaming EXCEPT ![t] = FALSE]

\* The connection dies and neither side is told.
Drop(t, q) ==
  /\ q \in listening[t]
  /\ run' = [run EXCEPT ![q].open = FALSE]
  /\ wire' = [wire EXCEPT ![q] = <<>>]
  /\ UNCHANGED <<thread, message, executed, answered, client>>

\* A request that was on its way when its connection died may never arrive.
NeverArrives(q) ==
  /\ run[q].pc = "sent" /\ ~run[q].open
  /\ run' = [run EXCEPT ![q] = NoRun]
  /\ UNCHANGED <<thread, message, executed, wire, answered, client>>

\* A request whose connection died: nothing will ever arrive.
Lost(q) == ~run[q].open /\ wire[q] = <<>>

\* The page is reloaded: the conversation it shows is gone, the thread is not.
Reload(t) ==
  /\ listening' = [listening EXCEPT ![t] = {}]
  /\ run' = [q \in Request |-> IF q \in listening[t] THEN [run[q] EXCEPT !.open = FALSE] ELSE run[q]]
  /\ wire' = [q \in Request |-> IF q \in listening[t] THEN <<>> ELSE wire[q]]
  /\ streaming' = [streaming EXCEPT ![t] = FALSE]
  /\ card' = [card EXCEPT ![t] = None]
  /\ locating' = [locating EXCEPT ![t] = {}]
  /\ UNCHANGED <<thread, message, executed, answered, approved, overlapped>>
================================================================================
