---------------------------- MODULE BookingWizard ----------------------------
(***************************************************************************)
(* The booking page: the form, the choice of a slot and the confirmation   *)
(* of one visit, while time passes, floors come and go and the request is  *)
(* under way.  An event handler and the effects of the render it causes    *)
(* are one step; the clock alone renders nothing.                          *)
(***************************************************************************)
EXTENDS Naturals, FiniteSets

CONSTANTS Floor, Slot,
          FloorOf,      \* the floor of a slot
          Arrival,      \* inputs: arrival times
          Duration,     \* inputs: durations
          Nothing,
          MaxTime       \* bound: the clock stops here

VARIABLES time,
          floors,       \* useFloors: the floors as last received
          step,         \* 0 details, 1 slot, 2 confirmation
          floor,        \* selectedFloorId
          form,         \* the values of the details form
          deps,         \* floor, arrivalIso and duration as last rendered
          chosen,       \* selectedSlot, and what deps were when it was chosen
          request,      \* createReservation while pending
          result,       \* the slot of the reservation in the answer
          mine,         \* reservations made by this visit
          lost          \* an answer did not arrive
wizardVars == <<time, floors, step, floor, form, deps, chosen, request, result, mine, lost>>

Values == [arrival: Arrival \cup {Nothing}, duration: Duration]
Deps == [floor: Floor \cup {Nothing}, iso: Arrival \cup {Nothing}, duration: Duration]
Booked == [slot: Slot, arrival: Arrival, duration: Duration]
Pending == [booked: Booked, under: Deps, stage: {"sent", "accepted", "refused"}]

\* arrivalIso: no window to search once the arrival is past.
Iso(f) == IF f.arrival # Nothing /\ f.arrival >= time THEN f.arrival ELSE Nothing

WizardInit ==
  /\ time = 0 /\ floors = {} /\ step = 0 /\ floor = Nothing
  /\ form \in [arrival: {Nothing}, duration: Duration]
  /\ deps = [floor |-> Nothing, iso |-> Nothing, duration |-> form.duration]
  /\ chosen = Nothing
  /\ request = Nothing /\ result = Nothing /\ mine = {} /\ lost = FALSE

\* Mutant: the effect does not depend on the duration.
KeepsOtherDuration(f, values, slot) ==
  /\ floor' = f /\ form' = values
  /\ deps' = [floor |-> f, iso |-> Iso(values), duration |-> values.duration]
  /\ chosen' = IF [deps' EXCEPT !.duration = 0] = [deps EXCEPT !.duration = 0] THEN slot ELSE Nothing

\* A render with this floor, form and slot, and the effect that clears the slot
\* when what it was chosen under has changed.
Render(f, values, slot) ==
  /\ floor' = f /\ form' = values
  /\ deps' = [floor |-> f, iso |-> Iso(values), duration |-> values.duration]
  /\ chosen' = IF deps' = deps THEN slot ELSE Nothing

Rerender == Render(floor, form, chosen)

\* The first answer selects a floor; a later one may lack the selected floor.
FloorsAnswered(F) ==
  /\ result = Nothing /\ F # floors
  /\ floors' = F
  /\ \E f \in F : Render(IF floor = Nothing THEN f ELSE floor, form, chosen)
  /\ UNCHANGED <<time, step, request, result, mine, lost>>

Edit(values) ==
  /\ step = 0 /\ result = Nothing
  /\ Render(floor, values, chosen)
  /\ UNCHANGED <<time, floors, step, request, result, mine, lost>>

\* onSubmitDetails, behind the schema's check of the arrival.
SubmitDetails ==
  /\ step = 0 /\ result = Nothing /\ Iso(form) # Nothing
  /\ step' = 1
  /\ Rerender
  /\ UNCHANGED <<time, floors, request, result, mine, lost>>

\* Tabs are shown for more than one floor.
SelectFloor(f) ==
  /\ step = 1 /\ result = Nothing /\ f \in floors /\ Cardinality(floors) > 1
  /\ Render(f, form, chosen)
  /\ UNCHANGED <<time, floors, step, request, result, mine, lost>>

\* A slot that the answer for the rendered floor and window shows as free.
SelectSlot(s) ==
  /\ step = 1 /\ result = Nothing
  /\ deps.iso # Nothing /\ FloorOf[s] = deps.floor
  /\ Render(floor, form, [slot |-> s, under |-> deps])
  /\ UNCHANGED <<time, floors, step, request, result, mine, lost>>

Continue ==
  /\ step = 1 /\ result = Nothing /\ chosen # Nothing
  /\ step' = 2
  /\ Rerender
  /\ UNCHANGED <<time, floors, request, result, mine, lost>>

\* Possible while the request is pending, too.
Back ==
  /\ step > 0 /\ result = Nothing
  /\ step' = step - 1
  /\ Rerender
  /\ UNCHANGED <<time, floors, request, result, mine, lost>>

Send ==
  request' = [booked |-> [slot |-> chosen.slot, arrival |-> form.arrival, duration |-> form.duration],
              under |-> chosen.under, stage |-> "sent"]

\* Mutant: the button stays enabled while the request is pending.
ConfirmAgain ==
  /\ step = 2 /\ result = Nothing /\ chosen # Nothing
  /\ Send /\ Rerender
  /\ UNCHANGED <<time, floors, step, result, mine, lost>>

\* onConfirm
Confirm ==
  /\ step = 2 /\ result = Nothing /\ chosen # Nothing /\ request = Nothing
  /\ Send /\ Rerender
  /\ UNCHANGED <<time, floors, step, result, mine, lost>>

\* The backend books, unless the arrival is past or the slot is taken for the
\* time, by this visit or by somebody else.  (The buffer it keeps between two
\* bookings only makes it refuse more.)
Overlapping(b, c) ==
  b.slot = c.slot /\ b.arrival < c.arrival + c.duration /\ c.arrival < b.arrival + b.duration
Accept ==
  /\ request # Nothing /\ request.stage = "sent"
  /\ request.booked.arrival >= time
  /\ ~\E b \in mine : Overlapping(b, request.booked)
  /\ mine' = mine \cup {request.booked}
  /\ request' = [request EXCEPT !.stage = "accepted"]
  /\ UNCHANGED <<time, floors, step, floor, form, deps, chosen, result, lost>>
Refuse ==
  /\ request # Nothing /\ request.stage = "sent"
  /\ request' = [request EXCEPT !.stage = "refused"]
  /\ UNCHANGED <<time, floors, step, floor, form, deps, chosen, result, mine, lost>>

\* A success replaces the form by the confirmation; anything else only shows a
\* message, and the form can be used again.
Answered ==
  /\ request # Nothing /\ request.stage # "sent"
  /\ result' = IF request.stage = "accepted" THEN request.booked.slot ELSE result
  /\ request' = Nothing
  /\ Rerender
  /\ UNCHANGED <<time, floors, step, mine, lost>>
AnswerLost ==
  /\ request # Nothing /\ ~lost
  /\ request' = Nothing /\ lost' = TRUE
  /\ Rerender
  /\ UNCHANGED <<time, floors, step, result, mine>>

\* Something else on the page renders it.
Refresh == Rerender /\ UNCHANGED <<time, floors, step, request, result, mine, lost>>

Tick ==
  /\ time < MaxTime /\ time' = time + 1
  /\ UNCHANGED <<floors, step, floor, form, deps, chosen, request, result, mine, lost>>

WizardNext ==
  \/ \E F \in SUBSET Floor \ {{}} : FloorsAnswered(F)
  \/ \E values \in Values : Edit(values)
  \/ \E f \in floors : SelectFloor(f)
  \/ \E s \in Slot : SelectSlot(s)
  \/ SubmitDetails \/ Continue \/ Back \/ Confirm
  \/ Accept \/ Refuse \/ Answered \/ AnswerLost
  \/ Refresh \/ Tick

WizardTypeOK ==
  /\ time \in 0..MaxTime /\ floors \in SUBSET Floor /\ step \in 0..2
  /\ floor \in Floor \cup {Nothing} /\ form \in Values /\ deps \in Deps
  /\ chosen \in [slot: Slot, under: Deps] \cup {Nothing} /\ result \in Slot \cup {Nothing}
  /\ request \in Pending \cup {Nothing} /\ mine \in SUBSET Booked /\ lost \in BOOLEAN

-----------------------------------------------------------------------------
\* Properties

\* What is sent is a slot that was shown as free on its floor for just the time
\* that is sent: whichever way the customer goes back and forth, nothing that
\* was chosen for another time or floor survives.
SentAsShown ==
  request # Nothing =>
    LET b == request.booked u == request.under IN
    FloorOf[b.slot] = u.floor /\ b.arrival = u.iso /\ b.duration = u.duration

\* One visit books once, or twice when an answer was lost and the customer tried
\* again: going back while the request is pending does not allow a second one.
BooksOnce == Cardinality(mine) <= 1 + (IF lost THEN 1 ELSE 0)

-----------------------------------------------------------------------------
\* Why they hold: an inductive invariant

\* What the effects see is what is entered, but for an arrival that is past.
RenderedAsEntered ==
  deps.floor = floor /\ deps.duration = form.duration /\ deps.iso \in {form.arrival, Nothing}

\* A slot that is chosen was chosen under what is rendered.
ChosenAsRendered ==
  chosen # Nothing =>
    chosen.under = deps /\ FloorOf[chosen.slot] = deps.floor /\ deps.iso # Nothing

\* A reservation was made that this visit shows, or is about to.
Decided == result # Nothing \/ (request # Nothing /\ request.stage = "accepted")

\* A visit that has shown its reservation is over, and of what it booked only
\* that reservation and the one of a lost answer can be there.
VisitEndsWithBooking ==
  /\ result # Nothing => request = Nothing
  /\ IsFiniteSet(mine)
  /\ Cardinality(mine) <= (IF lost THEN 1 ELSE 0) + (IF Decided THEN 1 ELSE 0)

VisitInv == RenderedAsEntered /\ ChosenAsRendered /\ SentAsShown /\ VisitEndsWithBooking
=============================================================================
