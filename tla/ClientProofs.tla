----------------------------- MODULE ClientProofs -----------------------------
(***************************************************************************)
(* The web client, for all the floors, slots, times and writes there may   *)
(* be: the visit of the booking page first, then the session with one of   *)
(* its queries.                                                            *)
(***************************************************************************)
EXTENDS WebClient, FiniteSetTheorems, TLAPS

-----------------------------------------------------------------------------
(* The visit of the booking page *)

\* A render, its effect and what the visit was: the choice survives a render only
\* when all it was made under is as it was.
LEMMA RenderIsSound ==
  ASSUME Wizard!WizardTypeOK, NEW f \in Floor \cup {None}, NEW values \in Wizard!Values,
         NEW slot, slot \in [slot: Slot, under: Wizard!Deps] \cup {None},
         slot # None =>
           slot.under = deps /\ FloorOf[slot.slot] = deps.floor /\ deps.iso # None,
         Wizard!Render(f, values, slot)
  PROVE  /\ floor' \in Floor \cup {None} /\ form' \in Wizard!Values /\ deps' \in Wizard!Deps
         /\ chosen' \in [slot: Slot, under: Wizard!Deps] \cup {None}
         /\ Wizard!RenderedAsEntered' /\ Wizard!ChosenAsRendered'
<1>1. floor' = f /\ form' = values
  BY DEF Wizard!Render
<1>2. /\ deps'.floor = f /\ deps'.duration = values.duration
      /\ deps'.iso \in {values.arrival, None} /\ deps' \in Wizard!Deps
  BY DEF Wizard!Render, Wizard!Iso, Wizard!Values, Wizard!Deps
<1>3. chosen' \in {slot, None} /\ (chosen' # None => chosen' = slot /\ deps' = deps)
  BY DEF Wizard!Render
<1>4. Wizard!RenderedAsEntered'
  BY <1>1, <1>2 DEF Wizard!RenderedAsEntered
<1>5. Wizard!ChosenAsRendered'
  BY <1>3 DEF Wizard!ChosenAsRendered
<1> QED BY <1>1, <1>2, <1>3, <1>4, <1>5

WizardIsSound == Wizard!WizardTypeOK' /\ Wizard!VisitInv'

LEMMA SameCardinality ==
  ASSUME NEW S
  PROVE  /\ Wizard!Cardinality(S) = Cardinality(S)
         /\ Wizard!IsFiniteSet(S) <=> IsFiniteSet(S)
<1>1. Wizard!Cardinality(S) = Cardinality(S)
  BY Zenon DEF Wizard!Cardinality, Cardinality
<1>2. Wizard!IsFiniteSet(S) <=> IsFiniteSet(S)
  BY DEF Wizard!IsFiniteSet, IsFiniteSet
<1> QED BY <1>1, <1>2

LEMMA InitOfVisit == Wizard!WizardInit => Wizard!WizardTypeOK /\ Wizard!VisitInv
<1> SUFFICES ASSUME Wizard!WizardInit PROVE Wizard!WizardTypeOK /\ Wizard!VisitInv
  OBVIOUS
<1>1. form \in [arrival: {None}, duration: Duration]
  BY DEF Wizard!WizardInit
<1>2. form \in Wizard!Values /\ deps \in Wizard!Deps
  BY <1>1 DEF Wizard!WizardInit, Wizard!Values, Wizard!Deps
<1>3. Wizard!WizardTypeOK
  <2>1. time \in 0..MaxTime /\ step \in 0..2
    BY WizardAssumption DEF Wizard!WizardInit
  <2>2. /\ floors \in SUBSET Floor /\ mine \in SUBSET Wizard!Booked /\ lost \in BOOLEAN
        /\ floor = None /\ chosen = None /\ request = None /\ result = None
    BY DEF Wizard!WizardInit
  <2> QED BY <1>2, <2>1, <2>2 DEF Wizard!WizardTypeOK
<1>4. IsFiniteSet(mine) /\ Cardinality(mine) = 0
  BY FS_EmptySet DEF Wizard!WizardInit
<1>5. Wizard!VisitInv
  BY <1>1, <1>4, SameCardinality DEF Wizard!WizardInit, Wizard!VisitInv, Wizard!RenderedAsEntered,
    Wizard!ChosenAsRendered, Wizard!SentAsShown, Wizard!VisitEndsWithBooking, Wizard!Decided
<1> QED BY <1>3, <1>5

\* A step of the page that sends nothing and hears of nothing.
LEMMA QuietRenderIsSound ==
  ASSUME Wizard!WizardTypeOK, Wizard!VisitInv,
         NEW f \in Floor \cup {None}, NEW values \in Wizard!Values,
         NEW slot, slot \in [slot: Slot, under: Wizard!Deps] \cup {None},
         slot # None =>
           slot.under = deps /\ FloorOf[slot.slot] = deps.floor /\ deps.iso # None,
         Wizard!Render(f, values, slot),
         time' \in 0..MaxTime, floors' \in SUBSET Floor, step' \in 0..2,
         UNCHANGED <<request, result, mine, lost>>
  PROVE  WizardIsSound
<1>1. /\ floor' \in Floor \cup {None} /\ form' \in Wizard!Values /\ deps' \in Wizard!Deps
      /\ chosen' \in [slot: Slot, under: Wizard!Deps] \cup {None}
      /\ Wizard!RenderedAsEntered' /\ Wizard!ChosenAsRendered'
  BY RenderIsSound
<1>2. Wizard!WizardTypeOK'
  BY <1>1 DEF Wizard!WizardTypeOK
<1>3. Wizard!SentAsShown' /\ Wizard!VisitEndsWithBooking'
  BY DEF Wizard!VisitInv, Wizard!SentAsShown, Wizard!VisitEndsWithBooking, Wizard!Decided
<1> QED BY <1>1, <1>2, <1>3 DEF WizardIsSound, Wizard!VisitInv

LEMMA ChosenNow ==
  ASSUME Wizard!WizardTypeOK, Wizard!VisitInv
  PROVE  /\ chosen \in [slot: Slot, under: Wizard!Deps] \cup {None}
         /\ chosen # None =>
              chosen.under = deps /\ FloorOf[chosen.slot] = deps.floor /\ deps.iso # None
         /\ floor \in Floor \cup {None} /\ form \in Wizard!Values /\ deps \in Wizard!Deps
         /\ time \in 0..MaxTime /\ floors \in SUBSET Floor /\ step \in 0..2
BY DEF Wizard!WizardTypeOK, Wizard!VisitInv, Wizard!ChosenAsRendered

LEMMA FillingInIsSound ==
  ASSUME Wizard!WizardTypeOK, Wizard!VisitInv,
         \/ \E F \in SUBSET Floor \ {{}} : Wizard!FloorsAnswered(F)
         \/ \E values \in Wizard!Values : Wizard!Edit(values)
         \/ \E f \in floors : Wizard!SelectFloor(f)
         \/ Wizard!SubmitDetails \/ Wizard!Continue \/ Wizard!Back \/ Wizard!Refresh
  PROVE  WizardIsSound
<1>1. ASSUME NEW F \in SUBSET Floor \ {{}}, Wizard!FloorsAnswered(F) PROVE WizardIsSound
  <2>1. PICK f \in F : Wizard!Render(IF floor = None THEN f ELSE floor, form, chosen)
    BY <1>1 DEF Wizard!FloorsAnswered
  <2>2. (IF floor = None THEN f ELSE floor) \in Floor \cup {None}
    BY ChosenNow
  <2>3. /\ floors' \in SUBSET Floor /\ UNCHANGED <<time, step, request, result, mine, lost>>
    BY <1>1 DEF Wizard!FloorsAnswered
  <2> QED BY <2>1, <2>2, <2>3, ChosenNow, QuietRenderIsSound
<1>2. ASSUME NEW values \in Wizard!Values, Wizard!Edit(values) PROVE WizardIsSound
  BY <1>2, ChosenNow, QuietRenderIsSound DEF Wizard!Edit
<1>3. ASSUME NEW f \in floors, Wizard!SelectFloor(f) PROVE WizardIsSound
  <2>1. f \in Floor \cup {None}
    BY ChosenNow
  <2> QED BY <1>3, <2>1, ChosenNow, QuietRenderIsSound DEF Wizard!SelectFloor
<1>4. ASSUME Wizard!SubmitDetails \/ Wizard!Continue \/ Wizard!Back \/ Wizard!Refresh
      PROVE  WizardIsSound
  <2>1. step' \in 0..2
    BY <1>4, ChosenNow
    DEF Wizard!SubmitDetails, Wizard!Continue, Wizard!Back, Wizard!Refresh
  <2>2. /\ Wizard!Render(floor, form, chosen)
        /\ UNCHANGED <<time, floors, request, result, mine, lost>>
    BY <1>4 DEF Wizard!SubmitDetails, Wizard!Continue, Wizard!Back, Wizard!Refresh,
         Wizard!Rerender
  <2> QED BY <2>1, <2>2, ChosenNow, QuietRenderIsSound
<1> QED BY <1>1, <1>2, <1>3, <1>4

\* A slot is chosen under what is rendered.
LEMMA SelectSlotIsSound ==
  ASSUME Wizard!WizardTypeOK, Wizard!VisitInv, NEW s \in Slot, Wizard!SelectSlot(s)
  PROVE  WizardIsSound
<1> DEFINE c == [slot |-> s, under |-> deps]
<1>1. c \in [slot: Slot, under: Wizard!Deps] /\ c.slot = s /\ c.under = deps
  BY ChosenNow
<1>2. Wizard!Render(floor, form, c) /\ FloorOf[s] = deps.floor /\ deps.iso # None
  BY DEF Wizard!SelectSlot
<1>3. UNCHANGED <<time, floors, step, request, result, mine, lost>>
  BY DEF Wizard!SelectSlot
<1> HIDE DEF c
<1> QED BY <1>1, <1>2, <1>3, ChosenNow, QuietRenderIsSound

\* What is chosen and what is entered are sent together.
LEMMA ConfirmIsSound ==
  ASSUME Wizard!WizardTypeOK, Wizard!VisitInv, Wizard!Confirm
  PROVE  WizardIsSound
<1> DEFINE b == [slot |-> chosen.slot, arrival |-> form.arrival, duration |-> form.duration]
           r == [booked |-> b, under |-> chosen.under, stage |-> "sent"]
<1>1. /\ chosen # None /\ request = None /\ request' = r /\ result = None
      /\ Wizard!Render(floor, form, chosen)
      /\ UNCHANGED <<time, floors, step, result, mine, lost>>
  BY DEF Wizard!Confirm, Wizard!Send, Wizard!Rerender
<1>2. /\ chosen \in [slot: Slot, under: Wizard!Deps] /\ deps.iso # None
      /\ deps.iso = form.arrival /\ deps.duration = form.duration
      /\ chosen.under = deps /\ FloorOf[chosen.slot] = deps.floor
  BY <1>1, ChosenNow DEF Wizard!VisitInv, Wizard!RenderedAsEntered
<1>3. form.arrival \in Arrival /\ form.duration \in Duration
  BY <1>2, ChosenNow DEF Wizard!Values
<1>4. b \in Wizard!Booked /\ r \in Wizard!Pending
  BY <1>2, <1>3 DEF Wizard!Booked, Wizard!Pending
<1>5. /\ floor' \in Floor \cup {None} /\ form' \in Wizard!Values /\ deps' \in Wizard!Deps
      /\ chosen' \in [slot: Slot, under: Wizard!Deps] \cup {None}
      /\ Wizard!RenderedAsEntered' /\ Wizard!ChosenAsRendered'
  BY <1>1, ChosenNow, RenderIsSound
<1>6. /\ FloorOf[request'.booked.slot] = request'.under.floor
      /\ request'.booked.arrival = request'.under.iso
      /\ request'.booked.duration = request'.under.duration
      /\ request'.stage = "sent"
  BY <1>1, <1>2
<1> HIDE DEF b, r
<1>7. Wizard!WizardTypeOK'
  BY <1>1, <1>4, <1>5 DEF Wizard!WizardTypeOK
<1>8. Wizard!SentAsShown'
  BY <1>6 DEF Wizard!SentAsShown
<1>9. Wizard!VisitEndsWithBooking'
  BY <1>1, <1>6 DEF Wizard!VisitInv, Wizard!VisitEndsWithBooking, Wizard!Decided
<1> QED BY <1>5, <1>7, <1>8, <1>9 DEF WizardIsSound, Wizard!VisitInv

\* What the backend decides: an acceptance is one more reservation, of a visit that
\* has none to show yet.
LEMMA DecisionIsSound ==
  ASSUME Wizard!WizardTypeOK, Wizard!VisitInv, Wizard!Accept \/ Wizard!Refuse
  PROVE  WizardIsSound
<1>1. PICK stage \in {"accepted", "refused"} :
        /\ request # None /\ request.stage = "sent"
        /\ request' = [request EXCEPT !.stage = stage]
        /\ mine' = IF stage = "accepted" THEN mine \cup {request.booked} ELSE mine
  BY DEF Wizard!Accept, Wizard!Refuse
<1>2. UNCHANGED <<time, floors, step, floor, form, deps, chosen, result, lost>>
  BY DEF Wizard!Accept, Wizard!Refuse
<1>3. request \in Wizard!Pending
  BY <1>1 DEF Wizard!WizardTypeOK
<1>4. /\ request' \in Wizard!Pending /\ request'.stage = stage
      /\ request'.booked = request.booked /\ request'.under = request.under
      /\ request.booked \in Wizard!Booked
  BY <1>1, <1>3 DEF Wizard!Pending
<1>5. Wizard!WizardTypeOK'
  BY <1>1, <1>2, <1>4 DEF Wizard!WizardTypeOK
<1>6. Wizard!RenderedAsEntered' /\ Wizard!ChosenAsRendered'
  BY <1>2 DEF Wizard!VisitInv, Wizard!RenderedAsEntered, Wizard!ChosenAsRendered
<1>7. Wizard!SentAsShown'
  BY <1>1, <1>4 DEF Wizard!VisitInv, Wizard!SentAsShown
<1>8. result = None /\ ~Wizard!Decided
  BY <1>1 DEF Wizard!VisitInv, Wizard!VisitEndsWithBooking, Wizard!Decided
<1>9. /\ IsFiniteSet(mine) /\ Cardinality(mine) \in Nat
      /\ Cardinality(mine) <= IF lost THEN 1 ELSE 0
  BY <1>8, FS_CardinalityType, SameCardinality DEF Wizard!VisitInv, Wizard!VisitEndsWithBooking
<1>10. /\ IsFiniteSet(mine \cup {request.booked})
       /\ Cardinality(mine \cup {request.booked}) <= (IF lost THEN 1 ELSE 0) + 1
  BY <1>9, FS_AddElement
<1>11. Wizard!VisitEndsWithBooking'
  <2>1. CASE stage = "accepted"
    <3>1. request' # None => Wizard!Decided'
      BY <1>4, <2>1 DEF Wizard!Decided
    <3>2. request' # None
      BY <1>4, WizardAssumption
    <3> QED BY <1>1, <1>2, <1>8, <1>10, <2>1, <3>1, <3>2, SameCardinality DEF Wizard!VisitEndsWithBooking
  <2>2. CASE stage = "refused"
    <3>1. ~Wizard!Decided'
      BY <1>2, <1>4, <1>8, <2>2 DEF Wizard!Decided
    <3> QED BY <1>1, <1>2, <1>8, <1>9, <2>2, <3>1, SameCardinality DEF Wizard!VisitEndsWithBooking
  <2> QED BY <2>1, <2>2
<1> QED BY <1>5, <1>6, <1>7, <1>11 DEF WizardIsSound, Wizard!VisitInv

\* The answer, or its loss: the one reservation that was about to be shown is shown,
\* or it is the one of the lost answer.
LEMMA AnswerIsSound ==
  ASSUME Wizard!WizardTypeOK, Wizard!VisitInv, Wizard!Answered \/ Wizard!AnswerLost
  PROVE  WizardIsSound
<1>1. /\ request # None /\ request' = None /\ Wizard!Render(floor, form, chosen)
      /\ UNCHANGED <<time, floors, step, mine>>
  BY DEF Wizard!Answered, Wizard!AnswerLost, Wizard!Rerender
<1>2. /\ floor' \in Floor \cup {None} /\ form' \in Wizard!Values /\ deps' \in Wizard!Deps
      /\ chosen' \in [slot: Slot, under: Wizard!Deps] \cup {None}
      /\ Wizard!RenderedAsEntered' /\ Wizard!ChosenAsRendered'
  BY <1>1, ChosenNow, RenderIsSound
<1>3. /\ request.booked.slot \in Slot
      /\ request.stage \in {"sent", "accepted", "refused"}
  BY <1>1 DEF Wizard!WizardTypeOK, Wizard!Pending, Wizard!Booked
<1>4. result' \in Slot \cup {None} /\ lost' \in BOOLEAN
  BY <1>3 DEF Wizard!Answered, Wizard!AnswerLost, Wizard!WizardTypeOK
<1>5. Wizard!WizardTypeOK'
  BY <1>1, <1>2, <1>4 DEF Wizard!WizardTypeOK
<1>6. Wizard!SentAsShown'
  BY <1>1 DEF Wizard!SentAsShown
<1>7. result = None /\ IsFiniteSet(mine) /\ Cardinality(mine) \in Nat
  BY <1>1, FS_CardinalityType, SameCardinality DEF Wizard!VisitInv, Wizard!VisitEndsWithBooking
<1>8. Wizard!Decided <=> request.stage = "accepted"
  BY <1>1, <1>7 DEF Wizard!Decided
<1>9. Cardinality(mine) <=
        (IF lost THEN 1 ELSE 0) + (IF request.stage = "accepted" THEN 1 ELSE 0)
  BY <1>8, SameCardinality DEF Wizard!VisitInv, Wizard!VisitEndsWithBooking
<1>10. Wizard!VisitEndsWithBooking'
  <2>1. Wizard!Decided' <=> result' # None
    BY <1>1 DEF Wizard!Decided
  <2>2. CASE Wizard!Answered
    <3>1. lost' = lost /\ (request.stage = "accepted" => result' # None)
      BY <1>3, <2>2, WizardAssumption DEF Wizard!Answered
    <3> QED BY <1>1, <1>7, <1>9, <2>1, <3>1, SameCardinality DEF Wizard!VisitEndsWithBooking
  <2>3. CASE Wizard!AnswerLost
    <3>1. ~lost /\ lost' /\ result' = result
      BY <2>3 DEF Wizard!AnswerLost
    <3>2. Cardinality(mine) <= 1
      BY <1>7, <1>9, <3>1
    <3> QED BY <1>1, <1>7, <2>1, <3>1, <3>2, SameCardinality DEF Wizard!VisitEndsWithBooking
  <2> QED BY <2>2, <2>3
<1> QED BY <1>2, <1>5, <1>6, <1>10 DEF WizardIsSound, Wizard!VisitInv

\* The clock renders nothing.
LEMMA TickIsSound ==
  ASSUME Wizard!WizardTypeOK, Wizard!VisitInv, Wizard!Tick \/ UNCHANGED wizard
  PROVE  WizardIsSound
<1>1. UNCHANGED <<floors, step, floor, form, deps, chosen, request, result, mine, lost>>
  BY DEF Wizard!Tick, wizard
<1>2. time' \in 0..MaxTime
  BY WizardAssumption DEF Wizard!Tick, wizard, Wizard!WizardTypeOK
<1>3. Wizard!WizardTypeOK'
  BY <1>1, <1>2 DEF Wizard!WizardTypeOK
<1>4. Wizard!VisitInv'
  BY <1>1 DEF Wizard!VisitInv, Wizard!RenderedAsEntered, Wizard!ChosenAsRendered,
    Wizard!SentAsShown, Wizard!VisitEndsWithBooking, Wizard!Decided
<1> QED BY <1>3, <1>4 DEF WizardIsSound

LEMMA VisitIsSound ==
  ASSUME Wizard!WizardTypeOK, Wizard!VisitInv, Wizard!WizardNext \/ UNCHANGED wizard
  PROVE  WizardIsSound
BY FillingInIsSound, SelectSlotIsSound, ConfirmIsSound, DecisionIsSound, AnswerIsSound,
   TickIsSound
DEF Wizard!WizardNext

LEMMA VisitStaysSound == WebSpec => [](Wizard!WizardTypeOK /\ Wizard!VisitInv)
<1>1. WebInit => Wizard!WizardTypeOK /\ Wizard!VisitInv
  BY InitOfVisit DEF WebInit
<1>2. ASSUME Wizard!WizardTypeOK, Wizard!VisitInv, [WebNext]_<<focus, vars, wizard>>
      PROVE  Wizard!WizardTypeOK' /\ Wizard!VisitInv'
  BY <1>2, VisitIsSound DEF WebNext, Data, Booking, WizardIsSound
<1> QED BY <1>1, <1>2, PTL DEF WebSpec

\* The booking page sends what was shown for just the floor and time that it sends,
\* for any number of floors, slots and times (the effect that clears selectedSlot).
THEOREM WhatIsSentWasShown == WebSpec => []SentAsShown
<1>1. Wizard!VisitInv => SentAsShown
  BY DEF Wizard!VisitInv, SentAsShown
<1> QED BY <1>1, VisitStaysSound, PTL

\* One visit of the booking page makes one reservation, and a second one only when an
\* answer was lost (onConfirm, disabled while pending).
THEOREM VisitsBookOnce == WebSpec => []BooksOnce
<1>1. Wizard!VisitInv => BooksOnce
  <2> SUFFICES ASSUME Wizard!VisitInv PROVE BooksOnce
    OBVIOUS
  <2>1. /\ IsFiniteSet(mine) /\ Cardinality(mine) \in Nat
        /\ Cardinality(mine) <=
             (IF lost THEN 1 ELSE 0) + (IF Wizard!Decided THEN 1 ELSE 0)
    BY FS_CardinalityType, SameCardinality DEF Wizard!VisitInv, Wizard!VisitEndsWithBooking
  <2> QED BY <2>1, SameCardinality DEF BooksOnce, Wizard!BooksOnce
<1> QED BY <1>1, VisitStaysSound, PTL

-----------------------------------------------------------------------------
(* Pages *)

Author == DOMAIN MutationHook \cup {Others}

LEMMA ScreensOf ==
  ASSUME NEW r \in Role, NEW p \in Page
  PROVE  Screens[r][p] = ContentOf(p, r) /\ (p \in ShellPages => Shells[r][p] = Shell(p, r))
BY DEF Screens, Shells, ShellPages

LEMMA BearerType ==
  ASSUME NEW token \in Token \cup {None}
  PROVE  Bearer(token) \in Role \cup {Visitor}
BY ClientAssumption DEF Bearer, Token

LEMMA WhoType == TypeOK => Who \in Role \cup {Visitor}
BY BearerType DEF TypeOK, Who

LEMMA UserType ==
  ASSUME TypeOK, user # None
  PROVE  user \in Self /\ user.owner \in Account /\ user.role \in Role /\ user.card \in BOOLEAN
BY DEF TypeOK, Self

LEMMA AnswersArePages ==
  ASSUME NEW who \in Role \cup {Visitor}, NEW p \in Page
  PROVE  Answers[who][p] \in Page
<1>1. Answers[who][p] = Middleware(p, who)
  BY DEF Answers
<1>2. Middleware(p, who) \in {p, "dashboard", "login", "unauthorized"}
  BY DEF Middleware
<1> QED BY <1>1, <1>2, PagesAssumption

\* Where an address leads, the middleware answers with that address again.
Routed(who, p) == p \in ShellPages => Answers[who][p] = p

LEMMA AnswersAreRouted ==
  ASSUME NEW who \in Role \cup {Visitor}, NEW p \in Page
  PROVE  Routed(who, Answers[who][p])
<1>1. \A q \in Page : Answers[who][q] = Middleware(q, who)
  BY DEF Answers
<1>2. "login" \notin ShellPages /\ "unauthorized" \notin ShellPages
  BY DEF ShellPages, PublicPages
<1>3. CASE who = Visitor
  <2>1. Middleware(p, who) = "login" \/ (Middleware(p, who) = p /\ p \in PublicPages)
    BY <1>3 DEF Middleware
  <2> QED BY <1>1, <1>2, <2>1 DEF Routed, ShellPages
<1>4. CASE who # Visitor
  <2>1. who \in Role /\ Middleware(p, who) \in {p, "dashboard", "unauthorized"}
    BY <1>4 DEF Middleware
  <2> QED BY <1>1, <1>2, <2>1, PagesAssumption DEF Routed
<1> QED BY <1>3, <1>4

LEMMA OpenedIsRouted ==
  ASSUME NEW who \in Role \cup {Visitor}, NEW p
  PROVE  /\ Opened(p, who) \in Page \cup {NotFound} /\ Opened(p, who) # PaymentStep
         /\ Routed(who, Opened(p, who))
<1>1. CASE p \in Page
  BY <1>1, AnswersArePages, AnswersAreRouted, PagesAssumption DEF Opened
<1>2. CASE p \notin Page
  <2>1. Opened(p, who) \in {"login", "unauthorized", NotFound}
    BY <1>2 DEF Opened
  <2>2. \A q \in {"login", "unauthorized", NotFound} : q \notin ShellPages
    BY PagesAssumption DEF ShellPages, PublicPages
  <2> QED BY <2>1, <2>2, PagesAssumption DEF Routed
<1> QED BY <1>1, <1>2

\* Only customers are offered to book, on one page.
LEMMA BookingIsOffered ==
  ASSUME NEW r \in Role, NEW p \in Page, "useCreateReservation" \in Screens[r][p].mutations
  PROVE  p = "book" /\ r = "CUSTOMER"
<1>1. "useCreateReservation" \in ContentOf(p, r).mutations
  BY ScreensOf
<1> QED BY <1>1 DEF ContentOf, Screen, NoScreen, DashboardPage, CustomerDashboard,
  StaffDashboard, ParkingLotsPage, CustomerParkingLotsView, StaffParkingLotsView,
  ParkingLotDetailPage, BookingPage, NearbyPage, MyReservationsPage, ReservationDetailPage,
  AdminReservationsPage, CheckpointPage, AdminUsersPage, EditStaffDialog, AdminManagersPage,
  NewManagerPage, UploadPolicyDialog, AdminPoliciesPage, NewParkingLotPage, AddFloorDialog,
  EditFloorDialog, EditParkingLotPage, EditProfileDialog, ChangePasswordDialog, BillingTab,
  ProfilePage, NotificationsPage, CompleteProfilePage, UnauthorizedPage, Role, StaffRole

\* What a tab renders before it knows its account asks and offers nothing.
LEMMA NothingUnknown ==
  ASSUME TypeOK, user = None \/ page = "login" \/ page = NotFound \/ page = PaymentStep
  PROVE  Mounted = {} /\ (page # PaymentStep => Offered = {})
<1>1. Content \in {LoginPage, RegisterPage(FALSE), NoScreen} \/
      (page = PaymentStep /\ Content = RegisterPage(TRUE))
  BY PagesAssumption DEF Content, PublicPages
<1>2. Surround = NoScreen
  BY PagesAssumption DEF Surround, InShell, ShellPages, PublicPages
<1> QED BY <1>1, <1>2 DEF Mounted, Offered, NoScreen, LoginPage, RegisterPage, Screen

\* Whoever is offered to book is a customer, of whom a card is known.
LEMMA BookersKnowTheirCard ==
  ASSUME TypeOK, "useCreateReservation" \in Offered
  PROVE  user # None /\ user.card /\ user.role = "CUSTOMER"
<1>1. page # PaymentStep
  <2> SUFFICES ASSUME page = PaymentStep PROVE FALSE
    OBVIOUS
  <2>1. Content = RegisterPage(TRUE) /\ Surround = NoScreen
    BY PagesAssumption DEF Content, PublicPages, Surround, InShell, ShellPages
  <2> QED BY <2>1 DEF Offered, RegisterPage, NoScreen, Screen
<1>2. user # None /\ user.role \in Role /\ page # "login" /\ page \in Page
  BY <1>1, NothingUnknown, UserType DEF TypeOK
<1>3. "useCreateReservation" \notin Surround.mutations
  <2>1. CASE InShell
    <3>1. Surround = Shell(page, user.role)
      BY <1>2, <2>1, ScreensOf DEF Surround, InShell
    <3> QED BY <3>1 DEF Shell, NotificationBell, Screen
  <2>2. CASE ~InShell
    BY <2>2 DEF Surround, NoScreen, Screen
  <2> QED BY <2>1, <2>2
<1>4. "useCreateReservation" \in Content.mutations
  BY <1>3 DEF Offered
<1>5. page # "register"
  <2>1. page = "register" => Content = RegisterPage(page = PaymentStep)
    BY <1>1, <1>2 DEF Content, PublicPages
  <2> QED BY <1>4, <2>1 DEF RegisterPage, Screen
<1>6. /\ page \notin PublicPages /\ ~(NeedsBilling /\ page \in ShellPages)
      /\ Content = Screens[user.role][page]
  BY <1>1, <1>2, <1>4, <1>5 DEF Content, NoScreen, Screen, PublicPages
<1>7. page = "book" /\ user.role = "CUSTOMER"
  BY <1>2, <1>4, <1>6, BookingIsOffered
<1>8. page \in ShellPages /\ page # Onboarding
  BY <1>2, <1>7 DEF ShellPages, PublicPages, Onboarding
<1> QED BY <1>2, <1>6, <1>7, <1>8 DEF NeedsBilling

-----------------------------------------------------------------------------
(* The cache entry *)

LEMMA EmptyType == Empty \in EntryOf(Author) /\ ~Empty.data /\ Empty.lacks = {} /\
                   ~Empty.invalid /\ Empty.fetch = "idle" /\ Empty.answer = {}
BY DEF Empty, EntryOf

LEMMA FetchOps ==
  ASSUME NEW e \in EntryOf(Author)
  PROVE  /\ Fetching(e) \in EntryOf(Author) /\ Fetching(e).fetch = "sent"
         /\ Failed(e) \in EntryOf(Author) /\ Failed(e).fetch = "idle"
         /\ \A f \in {Fetching(e), Failed(e)} :
              f.data = e.data /\ f.lacks = e.lacks /\ f.invalid = e.invalid /\ f.answer = {}
         /\ Answered(e) \in EntryOf(Author) /\ Answered(e).fetch = "answered"
         /\ Answered(e).data = e.data /\ Answered(e).lacks = e.lacks
         /\ Answered(e).invalid = e.invalid /\ Answered(e).answer = e.answer
BY DEF Fetching, Failed, Answered, EntryOf

LEMMA LandOps ==
  ASSUME NEW e \in EntryOf(Author)
  PROVE  /\ Landed(e) \in EntryOf(Author) /\ Landed(e).data /\ Landed(e).lacks = e.answer
         /\ ~Landed(e).invalid /\ Landed(e).fetch = "idle" /\ Landed(e).answer = {}
BY DEF Landed, Empty, EntryOf

LEMMA WriteOps ==
  ASSUME NEW e \in EntryOf(Author), NEW a \in Author
  PROVE  /\ Written(e, a) \in EntryOf(Author)
         /\ Written(e, a).data = e.data /\ Written(e, a).invalid = e.invalid
         /\ Written(e, a).fetch = e.fetch
         /\ Written(e, a).lacks = IF e.data THEN e.lacks \cup {a} ELSE e.lacks
         /\ Written(e, a).answer = IF e.fetch = "answered" THEN e.answer \cup {a} ELSE e.answer
BY DEF Written, EntryOf

LEMMA WriteOfEmpty ==
  ASSUME NEW a
  PROVE  Written(Empty, a) = Empty
BY DEF Written, Empty

LEMMA PatchOps ==
  ASSUME NEW e \in EntryOf(Author), NEW a \in Author, NEW creates \in BOOLEAN
  PROVE  LET p == Patched(e, a, creates)
         IN  /\ p \in EntryOf(Author) /\ p.data = (e.data \/ creates) /\ ~p.invalid
             /\ p.fetch = e.fetch /\ p.lacks = e.lacks \ {a} /\ p.answer = e.answer
<1> DEFINE d == e.data \/ creates
<1>1. d \in BOOLEAN /\ Patched(e, a, creates) = [e EXCEPT !.data = d, !.lacks = e.lacks \ {a}, !.invalid = FALSE]
  BY DEF Patched, EntryOf
<1> HIDE DEF d
<1>2. /\ Patched(e, a, creates) \in EntryOf(Author) /\ Patched(e, a, creates).data = d
      /\ ~Patched(e, a, creates).invalid /\ Patched(e, a, creates).fetch = e.fetch
      /\ Patched(e, a, creates).lacks = e.lacks \ {a} /\ Patched(e, a, creates).answer = e.answer
  BY <1>1 DEF EntryOf
<1> QED BY <1>2 DEF d

\* What is invalidated is marked when there are data; its request starts over, or
\* goes on.
LEMMA InvalidateOps ==
  ASSUME NEW e \in EntryOf(Author), NEW mounted \in BOOLEAN
  PROVE  /\ Invalidated(e, mounted) \in EntryOf(Author)
         /\ Invalidated(e, mounted).data = e.data /\ Invalidated(e, mounted).invalid = e.data
         /\ Invalidated(e, mounted).lacks = e.lacks
         /\ \/ Invalidated(e, mounted).fetch = e.fetch /\ Invalidated(e, mounted).answer = e.answer
            \/ Invalidated(e, mounted).fetch = "sent" /\ Invalidated(e, mounted).answer = {}
<1> DEFINE f == [e EXCEPT !.invalid = e.data]
<1>1. /\ f \in EntryOf(Author) /\ f.data = e.data /\ f.invalid = e.data /\ f.lacks = e.lacks
      /\ f.fetch = e.fetch /\ f.answer = e.answer
  BY DEF EntryOf
<1>2. Invalidated(e, mounted) \in {f, Fetching(f)}
  BY DEF Invalidated
<1> HIDE DEF f
<1> QED BY <1>1, <1>2, FetchOps

\* The answer in flight, and all that is known, may change authors.
LEMMA RenameOps ==
  ASSUME NEW S \in SUBSET Author, NEW a
  PROVE  /\ Renamed(S, a, Others) \in SUBSET Author
         /\ Renamed(S, a, Others) \ {Others} = S \ {a, Others}
         /\ S = {} => Renamed(S, a, Others) = {}
BY DEF Renamed, Author

LEMMA KnownOfState ==
  ASSUME TypeOK
  PROVE  /\ entry \in EntryOf(Author)
         /\ entry.data \in BOOLEAN /\ entry.lacks \in SUBSET Author /\ entry.invalid \in BOOLEAN
         /\ entry.fetch \in {"idle", "sent", "answered"} /\ entry.answer \in SUBSET Author
         /\ watched \in DOMAIN QueryHook /\ MaxWrites[watched] \in Nat
BY ClientAssumption DEF TypeOK, EntryOf, Author

-----------------------------------------------------------------------------
(* Accounts *)

ClientIsSound == TypeOK' /\ SessionInv' /\ CacheInv'

\* What was true of an account stays true: it stays, and so does its card.
Grows ==
  /\ account' \in [Account -> Row \cup {None}]
  /\ \A a \in Account :
       account[a] # None => account'[a] # None /\ (account[a].card => account'[a].card)
TrueNow(self) == self # None => account'[self.owner] # None /\ (self.card => account'[self.owner].card)

LEMMA TruthStays ==
  ASSUME Grows, NEW self \in Self \cup {None}, TrueOf(self)
  PROVE  TrueNow(self)
BY DEF Grows, TrueOf, TrueNow, Self

LEMMA NothingGrows ==
  ASSUME TypeOK, UNCHANGED account
  PROVE  Grows
BY DEF Grows, TypeOK

LEMMA RowChange ==
  ASSUME TypeOK, NEW a \in Account, NEW row \in Row, account' = [account EXCEPT ![a] = row],
         account[a] # None => (account[a].card => row.card)
  PROVE  Grows /\ account'[a] = row /\ account'[a] # None
<1>1. account \in [Account -> Row \cup {None}] /\ row # None
  BY ClientAssumption DEF TypeOK
<1>2. /\ account' \in [Account -> Row \cup {None}] /\ account'[a] = row
      /\ \A b \in Account : b # a => account'[b] = account[b]
  BY <1>1
<1> QED BY <1>1, <1>2 DEF Grows

LEMMA CardSaved ==
  ASSUME TypeOK, NEW a \in Account, account[a] # None,
         account' = [account EXCEPT ![a].card = TRUE]
  PROVE  Grows /\ account'[a] # None /\ account'[a].card
<1> DEFINE row == [account[a] EXCEPT !.card = TRUE]
<1>1. account[a] \in Row
  BY DEF TypeOK
<1>2. row \in Row /\ row.card
  BY <1>1 DEF Row
<1>3. account' = [account EXCEPT ![a] = row]
  OBVIOUS
<1> HIDE DEF row
<1> QED BY <1>2, <1>3, RowChange

LEMMA RoleGiven ==
  ASSUME TypeOK, NEW a \in Account, account[a] # None, NEW r \in Role,
         account' = [account EXCEPT ![a].role = r]
  PROVE  Grows
<1> DEFINE row == [account[a] EXCEPT !.role = r]
<1>1. account[a] \in Row
  BY DEF TypeOK
<1>2. row \in Row /\ row.card = account[a].card
  BY <1>1 DEF Row
<1>3. account' = [account EXCEPT ![a] = row]
  OBVIOUS
<1> HIDE DEF row
<1> QED BY <1>2, <1>3, RowChange

LEMMA TokensOfRows ==
  ASSUME NEW a \in Account, NEW row \in Row
  PROVE  TokenOf(a, row) \in Token /\ TokenOf(a, row).owner = a
BY DEF TokenOf, Token, Row

\* Whoever signs in, here or in another tab, is an account with a token.
LEMMA WhoAppears ==
  ASSUME TypeOK, NEW a \in Account, Appears(a)
  PROVE  /\ Grows /\ account'[a] # None
         /\ TokenOf(a, account'[a]) \in Token /\ TokenOf(a, account'[a]).owner = a
<1>1. CASE account[a] = None
  <2>1. PICK r \in NewRow : account' = [account EXCEPT ![a] = r]
    BY <1>1 DEF Appears
  <2>2. r \in Row
    BY DEF NewRow
  <2> QED BY <1>1, <2>1, <2>2, RowChange, TokensOfRows
<1>2. CASE account[a] # None
  <2>1. account' = account
    BY <1>2 DEF Appears
  <2>2. account[a] \in Row
    BY <1>2 DEF TypeOK
  <2> QED BY <1>2, <2>1, <2>2, NothingGrows, TokensOfRows
<1> QED BY <1>1, <1>2

LEMMA ProfileType ==
  ASSUME TypeOK, NEW a \in Account, account[a] # None
  PROVE  /\ Profile(a) \in Self /\ Profile(a) # None /\ Profile(a).owner = a
         /\ TrueOf(Profile(a))
<1>1. account[a] \in Row
  BY DEF TypeOK
<1>2. Profile(a) \in Self /\ Profile(a).owner = a /\ Profile(a).card = account[a].card
  BY <1>1 DEF Profile, Self, Row
<1> QED BY <1>2, ClientAssumption DEF TrueOf

LEMMA OwnerOfCookie ==
  ASSUME TypeOK, SessionInv, cookie # None
  PROVE  cookie \in Token /\ cookie.owner \in Account /\ account[cookie.owner] # None
BY DEF TypeOK, SessionInv, Token

-----------------------------------------------------------------------------
(* Steps of the session *)

LEMMA LeftOps ==
  ASSUME TypeOK, NEW m, m \in {mutation, Left(page')}
  PROVE  /\ mutation = None => m = None
         /\ mutation # None =>
              m \in Requested /\ m # None /\ m.hook = mutation.hook /\ m.self = mutation.self
<1>1. mutation # None => mutation \in Requested
  BY DEF TypeOK
<1>2. CASE mutation = None
  BY <1>2 DEF Left
<1>3. CASE mutation # None
  <2>1. [mutation EXCEPT !.shown = FALSE] \in Requested
    BY <1>1, <1>3 DEF Requested
  <2>2. /\ [mutation EXCEPT !.shown = FALSE].hook = mutation.hook
        /\ [mutation EXCEPT !.shown = FALSE].self = mutation.self
    BY <1>1, <1>3 DEF Requested
  <2>3. m \in {mutation, [mutation EXCEPT !.shown = FALSE]}
    BY <1>3 DEF Left
  <2> QED BY <1>1, <1>3, <2>1, <2>2, <2>3, ClientAssumption
<1> QED BY <1>2, <1>3

\* What the tab knows and where it is change, and a mutation goes on.
LEMMA SessionStepIsSound ==
  ASSUME TypeOK, SessionInv, CacheInv, Grows,
         cookie' \in Token \cup {None}, cookie' # None => account'[cookie'.owner] # None,
         asks' \in BOOLEAN, crossed' \in BOOLEAN,
         me' \in Self \cup {None}, user' \in Self \cup {None},
         TrueNow(me'), user # None => user' # None,
         ~crossed' => /\ ~crossed /\ TrueNow(user')
                      /\ mutation # None => user'.owner = user.owner,
         page' \in Page \cup {NotFound, PaymentStep}, page' = PaymentStep => user' # None,
         served' \in Role \cup {Visitor}, changes' \in 0..MaxChanges[watched],
         entry' \in {entry, Empty}, mutation' \in {mutation, Left(page')},
         UNCHANGED <<watched, event, writes>>
  PROVE  ClientIsSound
<1>1. /\ mutation = None => mutation' = None
      /\ mutation # None => /\ mutation' \in Requested /\ mutation' # None
                            /\ mutation'.hook = mutation.hook /\ mutation'.self = mutation.self
  BY LeftOps
<1>2. TypeOK'
  <2>1. entry' \in EntryOf(Author) /\ (entry' # Empty => user' # None)
    BY EmptyType DEF TypeOK, Author
  <2>2. mutation' \in Requested \cup {None}
    BY <1>1
  <2> QED BY <2>1, <2>2 DEF TypeOK, Grows, Author
<1>3. SessionInv'
  <2>1. mutation' # None =>
          /\ user' # None /\ TrueNow(mutation'.self)
          /\ mutation'.hook = "useUpdateProfile" => mutation'.self # None
    <3>1. mutation # None =>
            mutation.self \in Self \cup {None} /\ TrueOf(mutation.self) /\ user # None
      BY DEF TypeOK, Requested, SessionInv
    <3> QED BY <1>1, <3>1, TruthStays DEF SessionInv
  <2>2. ~crossed' /\ mutation' # None =>
          /\ mutation'.self # None => mutation'.self.owner = user'.owner
          /\ mutation'.hook \in {"useCreateReservation", "useSavePaymentMethod"} =>
               account'[user'.owner].card
    <3> SUFFICES ASSUME ~crossed', mutation' # None
                 PROVE  /\ mutation'.self # None => mutation'.self.owner = user'.owner
                        /\ mutation'.hook \in {"useCreateReservation", "useSavePaymentMethod"} =>
                             account'[user'.owner].card
      OBVIOUS
    <3>1. mutation # None /\ ~crossed /\ user # None /\ user'.owner = user.owner
      BY <1>1 DEF SessionInv
    <3>2. user.owner \in Account /\ account[user.owner] # None
      BY <3>1, UserType DEF SessionInv, TrueOf
    <3> QED BY <1>1, <3>1, <3>2 DEF SessionInv, Grows
  <2> QED BY <2>1, <2>2 DEF SessionInv, TrueOf, TrueNow
<1>4. CacheInv'
  <2>1. \A m : Settled(m)' <=> Settled(m)
    BY <1>1 DEF Settled
  <2>2. CASE entry' = entry
    BY <2>1, <2>2 DEF CacheInv
  <2>3. CASE entry' = Empty
    BY <2>3, EmptyType DEF CacheInv
  <2> QED BY <2>2, <2>3
<1> QED BY <1>2, <1>3, <1>4 DEF ClientIsSound

\* A full load: whatever the tab knew is gone.
Loaded ==
  /\ page' \in Page \cup {NotFound} /\ page' # PaymentStep
  /\ served' \in Role \cup {Visitor} /\ Routed(served', page')
  /\ asks' \in BOOLEAN /\ me' = None /\ user' = None /\ crossed' = FALSE
  /\ entry' = Empty /\ mutation' = None

LEMMA LoadLeads ==
  ASSUME NEW p, NEW token \in Token \cup {None}, Load(p, token)
  PROVE  Loaded /\ cookie' = token
BY BearerType, OpenedIsRouted DEF Load, Loaded

LEMMA LoadedIsSound ==
  ASSUME TypeOK, Grows, Loaded,
         cookie' \in Token \cup {None}, cookie' # None => account'[cookie'.owner] # None,
         changes' \in 0..MaxChanges[watched], UNCHANGED <<watched, event, writes>>
  PROVE  ClientIsSound
<1>1. TypeOK'
  BY EmptyType DEF TypeOK, Loaded, Grows, Author
<1>2. SessionInv'
  BY DEF SessionInv, Loaded, TrueOf
<1>3. CacheInv'
  BY EmptyType DEF CacheInv, Loaded
<1> QED BY <1>1, <1>2, <1>3 DEF ClientIsSound

LEMMA SignedOutIsSound ==
  ASSUME TypeOK, Load("login", None), changes' \in 0..MaxChanges[watched],
         UNCHANGED <<watched, account, event, writes>>
  PROVE  ClientIsSound
<1>1. Loaded /\ cookie' = None
  BY LoadLeads
<1> QED BY <1>1, NothingGrows, LoadedIsSound

\* Signing in, out or away.
LEMMA LeavingIsSound ==
  ASSUME TypeOK, SessionInv, CacheInv, Reload \/ (\E a \in Account : Login(a)) \/ Logout
  PROVE  ClientIsSound
<1>1. changes' \in 0..MaxChanges[watched] /\ UNCHANGED <<watched, event, writes>>
  BY DEF Reload, Login, Logout, TypeOK
<1>2. CASE Reload
  <2>1. Loaded /\ cookie' = cookie /\ account' = account
    BY <1>2, LoadLeads DEF Reload, TypeOK
  <2>2. cookie' \in Token \cup {None} /\ (cookie' # None => account'[cookie'.owner] # None)
    BY <2>1 DEF TypeOK, SessionInv
  <2> QED BY <1>1, <2>1, <2>2, NothingGrows, LoadedIsSound
<1>3. CASE \E a \in Account : Login(a)
  <2>1. PICK a \in Account : Login(a)
    BY <1>3
  <2>2. /\ Grows /\ account'[a] # None
        /\ TokenOf(a, account'[a]) \in Token /\ TokenOf(a, account'[a]).owner = a
    BY <2>1, WhoAppears DEF Login
  <2>3. Loaded /\ cookie' = TokenOf(a, account'[a])
    BY <2>1, <2>2, LoadLeads DEF Login
  <2> QED BY <1>1, <2>2, <2>3, LoadedIsSound
<1>4. CASE Logout
  BY <1>1, <1>4, SignedOutIsSound DEF Logout
<1> QED BY <1>2, <1>3, <1>4

\* The session of a step that leaves it alone.
LEMMA SessionOfState ==
  ASSUME TypeOK, SessionInv
  PROVE  /\ cookie \in Token \cup {None} /\ (cookie # None => account[cookie.owner] # None)
         /\ asks \in BOOLEAN /\ crossed \in BOOLEAN
         /\ me \in Self \cup {None} /\ user \in Self \cup {None} /\ TrueOf(me)
         /\ ~crossed => TrueOf(user)
         /\ page \in Page \cup {NotFound, PaymentStep} /\ (page = PaymentStep => user # None)
         /\ served \in Role \cup {Visitor} /\ changes \in 0..MaxChanges[watched]
         /\ event \in BOOLEAN /\ writes \in 0..MaxWrites[watched]
BY DEF TypeOK, SessionInv

\* The tab shows another page.
LEMMA MoveIsSound ==
  ASSUME TypeOK, SessionInv, CacheInv, page' \in Page \cup {NotFound}, page' # PaymentStep,
         served' \in Role \cup {Visitor}, mutation' = Left(page'),
         UNCHANGED <<watched, changes, session, entry, event, writes>>
  PROVE  ClientIsSound
<1>1. UNCHANGED <<account, cookie, asks, me, user, crossed>>
  BY DEF session
<1>2. Grows
  BY <1>1, NothingGrows
<1>3. TrueNow(me') /\ (~crossed' => TrueNow(user'))
  BY <1>1, <1>2, SessionOfState, TruthStays
<1> QED BY <1>1, <1>2, <1>3, SessionOfState, SessionStepIsSound

LEMMA NavigateIsSound ==
  ASSUME TypeOK, SessionInv, CacheInv, NEW p \in Links, Navigate(p)
  PROVE  ClientIsSound
<1>1. UNCHANGED <<watched, changes, account, event, writes>>
  BY DEF Navigate
<1>2. CASE Opened(p, Who) = NotFound
  <2>1. Load(NotFound, cookie)
    BY <1>2 DEF Navigate
  <2>2. Loaded /\ cookie' = cookie
    BY <2>1, LoadLeads, SessionOfState
  <2> QED BY <1>1, <2>2, SessionOfState, NothingGrows, LoadedIsSound
<1>3. CASE Opened(p, Who) # NotFound
  <2>1. /\ page' = Opened(p, Who) /\ served' = Who /\ mutation' = Left(page')
        /\ UNCHANGED <<cookie, asks, me, user, crossed, entry>>
    BY <1>3 DEF Navigate
  <2>2. page' \in Page \cup {NotFound} /\ page' # PaymentStep /\ served' \in Role \cup {Visitor}
    BY <2>1, WhoType, OpenedIsRouted
  <2> QED BY <1>1, <2>1, <2>2, MoveIsSound DEF session
<1> QED BY <1>2, <1>3

LEMMA RedirectIsSound ==
  ASSUME TypeOK, SessionInv, CacheInv, Redirect
  PROVE  ClientIsSound
<1>1. /\ page' \in {Opened(Onboarding, Who), Opened("parking-lot", Who)} /\ served' = Who
      /\ mutation' = Left(page') /\ UNCHANGED <<watched, changes, session, entry, event, writes>>
  BY DEF Redirect
<1>2. page' \in Page \cup {NotFound} /\ page' # PaymentStep /\ served' \in Role \cup {Visitor}
  BY <1>1, WhoType, OpenedIsRouted
<1> QED BY <1>1, <1>2, MoveIsSound

\* A new account: a mutation under way is not the new one's.
LEMMA RegisterIsSound ==
  ASSUME TypeOK, SessionInv, CacheInv, NEW a \in Account, Register(a)
  PROVE  ClientIsSound
<1> DEFINE row == [role |-> "CUSTOMER", card |-> FALSE]
<1>1. row \in Row
  BY DEF Row, Role
<1>2. /\ account[a] = None /\ account' = [account EXCEPT ![a] = row] /\ page \in PublicPages
      /\ cookie' = TokenOf(a, account'[a]) /\ asks' = TRUE /\ me' = None
      /\ user' = [owner |-> a, role |-> "CUSTOMER", card |-> FALSE]
      /\ crossed' = (crossed \/ mutation # None)
      /\ entry' \in {entry, Empty} /\ page' \in {page, PaymentStep} /\ mutation' = Left(page')
      /\ UNCHANGED <<watched, changes, served, event, writes>>
  BY DEF Register
<1> HIDE DEF row
<1>3. Grows /\ account'[a] # None /\ account'[a] = row
  BY <1>1, <1>2, RowChange
<1>4. cookie' \in Token /\ cookie'.owner = a
  BY <1>1, <1>2, <1>3, TokensOfRows
<1>5. user' \in Self /\ user'.owner = a /\ ~user'.card
  BY <1>2 DEF Self, Role
<1>6. user' # None /\ TrueNow(user') /\ TrueNow(me')
  BY <1>2, <1>3, <1>5, ClientAssumption DEF TrueNow
<1>7. crossed' \in BOOLEAN /\ (~crossed' => ~crossed /\ mutation = None)
  BY <1>2 DEF TypeOK
<1>8. page' \in Page \cup {NotFound, PaymentStep}
  BY <1>2 DEF TypeOK
<1> QED BY <1>2, <1>3, <1>4, <1>5, <1>6, <1>7, <1>8, SessionOfState, SessionStepIsSound

\* What the backend says of the cookie's account, and the moment the tab believes it.
LEMMA ProfileIsSound ==
  ASSUME TypeOK, SessionInv, CacheInv, BootAnswered \/ ProfileLands \/ BootFails
  PROVE  ClientIsSound
<1>1. UNCHANGED <<watched, account, event, writes>> /\ changes' \in 0..MaxChanges[watched]
  BY ClientAssumption DEF BootAnswered, ProfileLands, BootFails, Elsewhere, TypeOK
<1>2. Grows
  BY <1>1, NothingGrows
<1>3. CASE BootAnswered
  <2>1. CASE Who = Visitor /\ page # "login"
    BY <1>1, <1>3, <2>1, SignedOutIsSound DEF BootAnswered
  <2>2. CASE Who = Visitor /\ page = "login"
    <3>1. /\ cookie' = None /\ asks' = (user # None)
          /\ UNCHANGED <<me, user, crossed, page, served, entry, mutation>>
      BY <1>3, <2>2 DEF BootAnswered
    <3>2. TrueNow(me') /\ (~crossed' => TrueNow(user'))
      BY <1>2, <3>1, SessionOfState, TruthStays
    <3>3. asks' \in BOOLEAN
      BY <3>1
    <3> QED BY <1>1, <1>2, <3>1, <3>2, <3>3, SessionOfState, SessionStepIsSound
  <2>3. CASE Who # Visitor
    <3>1. /\ me' = Profile(cookie.owner)
          /\ UNCHANGED <<cookie, asks, user, crossed, page, served, entry, mutation>>
      BY <1>3, <2>3 DEF BootAnswered
    <3>2. cookie # None
      BY <2>3 DEF Who, Bearer
    <3>3. Profile(cookie.owner) \in Self /\ TrueOf(Profile(cookie.owner))
      BY <3>2, OwnerOfCookie, ProfileType
    <3>4. me' \in Self /\ TrueNow(me') /\ (~crossed' => TrueNow(user'))
      BY <1>2, <3>1, <3>3, SessionOfState, TruthStays
    <3> QED BY <1>1, <1>2, <3>1, <3>4, SessionOfState, SessionStepIsSound
  <2> QED BY <2>1, <2>2, <2>3
<1>4. CASE ProfileLands
  <2>1. /\ me # None /\ user' = me /\ me' = None
        /\ crossed' = (crossed \/ (mutation # None /\ me.owner # user.owner))
        /\ entry' \in {entry, Empty}
        /\ UNCHANGED <<cookie, asks, page, served, mutation>>
    BY <1>4 DEF ProfileLands
  <2>2. TrueNow(user') /\ TrueNow(me') /\ user' \in Self
    BY <1>2, <2>1, SessionOfState, TruthStays DEF TrueNow
  <2>3. /\ crossed' \in BOOLEAN
        /\ ~crossed' => ~crossed /\ (mutation # None => user'.owner = user.owner)
    BY <2>1, SessionOfState
  <2> QED BY <1>1, <1>2, <2>1, <2>2, <2>3, SessionOfState, SessionStepIsSound
<1>5. CASE BootFails
  <2>1. me' = None /\ UNCHANGED <<cookie, asks, user, crossed, page, served, entry, mutation>>
    BY <1>5 DEF BootFails
  <2>2. TrueNow(me') /\ (~crossed' => TrueNow(user'))
    BY <1>2, <2>1, SessionOfState, TruthStays DEF TrueNow
  <2> QED BY <1>1, <1>2, <2>1, <2>2, SessionOfState, SessionStepIsSound
<1> QED BY <1>3, <1>4, <1>5

\* Other tabs, administrators and time: the tab itself learns nothing.
LEMMA ElsewhereIsSound ==
  ASSUME TypeOK, SessionInv, CacheInv,
         SessionChanges \/ (\E a \in Account : AccountChanges(a))
  PROVE  ClientIsSound
<1>1. /\ UNCHANGED <<watched, asks, me, user, crossed, page, served, entry, mutation, event, writes>>
      /\ changes' \in 0..MaxChanges[watched]
  BY ClientAssumption DEF SessionChanges, AccountChanges, Elsewhere, TypeOK
<1>2. /\ Grows /\ cookie' \in Token \cup {None}
      /\ cookie' # None => account'[cookie'.owner] # None
  <2>1. CASE SessionChanges /\ cookie' = None /\ UNCHANGED account
    BY <2>1, NothingGrows
  <2>2. CASE SessionChanges /\ Who # Visitor /\ cookie' = [cookie EXCEPT !.valid = FALSE] /\ UNCHANGED account
    <3>1. cookie # None
      BY <2>2 DEF Who, Bearer
    <3>2. cookie' \in Token /\ cookie'.owner = cookie.owner
      BY <2>2, <3>1, OwnerOfCookie DEF Token
    <3> QED BY <2>2, <3>1, <3>2, OwnerOfCookie, NothingGrows
  <2>3. CASE \E a \in Account : Appears(a) /\ cookie' = TokenOf(a, account'[a])
    BY <2>3, WhoAppears
  <2>4. CASE \E a \in Account : AccountChanges(a)
    <3>1. PICK a \in Account : AccountChanges(a)
      BY <2>4
    <3>2. Grows
      <4>1. account[a] # None
        BY <3>1 DEF AccountChanges
      <4>2. CASE account[a].role \in StaffRole
        <5>1. PICK r \in StaffRole : account' = [account EXCEPT ![a].role = r]
          BY <3>1, <4>2 DEF AccountChanges
        <5>2. r \in Role
          BY DEF StaffRole, Role
        <5> QED BY <4>1, <5>1, <5>2, RoleGiven
      <4>3. CASE account[a].role \notin StaffRole
        <5>1. account' = [account EXCEPT ![a].card = TRUE]
          BY <3>1, <4>3 DEF AccountChanges
        <5> QED BY <4>1, <5>1, CardSaved
      <4> QED BY <4>2, <4>3
    <3>3. cookie' = cookie
      BY <3>1 DEF AccountChanges
    <3>4. cookie # None => cookie.owner \in Account /\ account[cookie.owner] # None
      BY OwnerOfCookie
    <3> QED BY <3>2, <3>3, <3>4, SessionOfState DEF Grows
  <2> QED BY <2>1, <2>2, <2>3, <2>4 DEF SessionChanges
<1>3. TrueNow(me') /\ (~crossed' => TrueNow(user'))
  BY <1>1, <1>2, SessionOfState, TruthStays
<1> QED BY <1>1, <1>2, <1>3, SessionOfState, SessionStepIsSound

-----------------------------------------------------------------------------
(* Steps of the watched query *)

\* The entry changes, and neither the account nor the mutation does.
LEMMA EntryIsSound ==
  ASSUME TypeOK, SessionInv, entry' \in EntryOf(Author), entry' # Empty => user # None,
         CacheInv', cookie' \in {cookie, None}, event' \in BOOLEAN, writes' \in 0..MaxWrites[watched],
         UNCHANGED <<watched, changes, account, asks, me, user, crossed, page, served, mutation>>
  PROVE  ClientIsSound
<1>1. TypeOK'
  BY DEF TypeOK, Author
<1>2. SessionInv'
  BY DEF SessionInv, TrueOf
<1> QED BY <1>1, <1>2 DEF ClientIsSound

LEMMA FetchIsSound ==
  ASSUME TypeOK, SessionInv, CacheInv, BeginFetch \/ LandFetch \/ LoseFetch \/ Collect
  PROVE  ClientIsSound
<1>1. UNCHANGED <<watched, changes, account, cookie, asks, me, user, crossed, page, served,
                  mutation, event, writes>>
  BY DEF BeginFetch, LandFetch, LoseFetch, Collect, session
<1>2. /\ entry \in EntryOf(Author) /\ (entry # Empty => user # None)
      /\ \A m : Settled(m)' <=> Settled(m)
  BY <1>1, KnownOfState DEF TypeOK, Settled
<1>3. entry' # Empty => user # None
  <2>1. CASE BeginFetch
    BY <2>1, NothingUnknown DEF BeginFetch
  <2>2. CASE LandFetch \/ LoseFetch
    BY <1>2, <2>2, EmptyType DEF LandFetch, LoseFetch
  <2>3. CASE Collect
    BY <2>3 DEF Collect
  <2> QED BY <2>1, <2>2, <2>3
<1>4. entry' \in EntryOf(Author) /\ CacheInv'
  <2>1. CASE BeginFetch \/ LoseFetch
    <3>1. entry' \in {Fetching(entry), Failed(entry)}
      BY <2>1 DEF BeginFetch, LoseFetch
    <3>2. /\ entry' \in EntryOf(Author) /\ entry'.answer = {}
          /\ entry'.data = entry.data /\ entry'.lacks = entry.lacks /\ entry'.invalid = entry.invalid
      BY <1>2, <3>1, FetchOps
    <3> QED BY <1>1, <1>2, <3>2 DEF CacheInv
  <2>2. CASE LandFetch
    <3>1. /\ entry' \in EntryOf(Author) /\ entry'.data /\ entry'.lacks = entry.answer
          /\ ~entry'.invalid /\ entry'.fetch = "idle" /\ entry'.answer = {}
      BY <1>2, <2>2, LandOps DEF LandFetch
    <3> QED BY <1>1, <1>2, <3>1 DEF CacheInv
  <2>3. CASE Collect
    BY <2>3, EmptyType DEF Collect, CacheInv
  <2> QED BY <2>1, <2>2, <2>3
<1> QED BY <1>1, <1>3, <1>4, SessionOfState, EntryIsSound

LEMMA AnswerFetchIsSound ==
  ASSUME TypeOK, SessionInv, CacheInv, AnswerFetch
  PROVE  ClientIsSound
<1>1. /\ entry.fetch = "sent" /\ UNCHANGED <<watched, changes, account, event, writes>>
      /\ user # None
  BY EmptyType DEF AnswerFetch, TypeOK
<1>2. CASE Load("login", None)
  BY <1>1, <1>2, SessionOfState, SignedOutIsSound
<1>3. CASE ~Load("login", None)
  <2>1. /\ entry' \in {Answered(entry), Failed(entry)} /\ cookie' \in {cookie, None}
        /\ UNCHANGED <<asks, me, user, crossed, page, served, mutation>>
    BY <1>3 DEF AnswerFetch, Unauthorized, session
  <2>2. /\ entry' \in EntryOf(Author) /\ entry'.answer = {}
        /\ entry'.data = entry.data /\ entry'.lacks = entry.lacks /\ entry'.invalid = entry.invalid
    BY <1>1, <2>1, FetchOps, KnownOfState DEF CacheInv
  <2>3. \A m : Settled(m)' <=> Settled(m)
    BY <2>1 DEF Settled
  <2>4. CacheInv'
    BY <1>1, <2>2, <2>3 DEF CacheInv
  <2> QED BY <1>1, <2>1, <2>2, <2>4, SessionOfState, EntryIsSound
<1> QED BY <1>2, <1>3

-----------------------------------------------------------------------------
(* Mutations and the writes of others *)

LEMMA OthersWriteIsSound ==
  ASSUME TypeOK, SessionInv, CacheInv, OthersWrite
  PROVE  ClientIsSound
<1>1. /\ writes < MaxWrites[watched] /\ writes' = writes + 1 /\ entry' = Written(entry, Others)
      /\ UNCHANGED <<watched, changes, account, cookie, asks, me, user, crossed, page, served, mutation>>
  BY DEF OthersWrite, session
<1>2. Others \in Author
  BY DEF Author
<1>3. /\ entry' \in EntryOf(Author)
      /\ entry'.data = entry.data /\ entry'.invalid = entry.invalid /\ entry'.fetch = entry.fetch
      /\ entry'.lacks = IF entry.data THEN entry.lacks \cup {Others} ELSE entry.lacks
      /\ entry'.answer = IF entry.fetch = "answered" THEN entry.answer \cup {Others} ELSE entry.answer
  BY <1>1, <1>2, KnownOfState, WriteOps
<1>4. entry' # Empty => user # None
  BY <1>1, WriteOfEmpty DEF TypeOK
<1>5. \A m : Settled(m)' <=> Settled(m)
  BY <1>1 DEF Settled
<1>6. CacheInv'
  BY <1>1, <1>3, <1>5, KnownOfState DEF CacheInv
<1>7. writes' \in 0..MaxWrites[watched]
  BY <1>1, KnownOfState DEF TypeOK
<1>8. event' \in BOOLEAN
  <2>1. ("reservation" \in ReadsOf(watched)) \in BOOLEAN /\ event \in BOOLEAN
    BY DEF TypeOK
  <2>2. event' = event \/ event' = ("reservation" \in ReadsOf(watched))
    BY Zenon DEF OthersWrite
  <2> QED BY Zenon, <2>1, <2>2
<1> QED BY <1>1, <1>3, <1>4, <1>6, <1>7, <1>8, EntryIsSound

LEMMA PushIsSound ==
  ASSUME TypeOK, SessionInv, CacheInv, Push
  PROVE  ClientIsSound
<1> DEFINE mounted == watched \in Mounted
<1>1. /\ event' = FALSE
      /\ UNCHANGED <<watched, changes, account, cookie, asks, me, user, crossed, page, served,
                     mutation, writes>>
      /\ entry' = entry \/ (entry' = Invalidated(entry, mounted) /\ user # None)
  BY DEF Push, session
<1>2. mounted \in BOOLEAN
  OBVIOUS
<1> HIDE DEF mounted
<1>3. \A m : Settled(m)' <=> Settled(m)
  BY <1>1 DEF Settled
<1>4. entry' \in EntryOf(Author) /\ CacheInv' /\ (entry' # Empty => user # None)
  <2>1. CASE entry' = entry
    BY <1>1, <1>3, <2>1, KnownOfState DEF CacheInv, TypeOK
  <2>2. CASE entry' = Invalidated(entry, mounted) /\ user # None
    <3>1. /\ entry' \in EntryOf(Author) /\ entry'.data = entry.data /\ entry'.invalid = entry.data
          /\ entry'.lacks = entry.lacks
          /\ \/ entry'.fetch = entry.fetch /\ entry'.answer = entry.answer
             \/ entry'.fetch = "sent" /\ entry'.answer = {}
      BY <1>2, <2>2, KnownOfState, InvalidateOps
    <3> QED BY <1>1, <1>3, <2>2, <3>1, KnownOfState DEF CacheInv
  <2> QED BY <1>1, <2>1, <2>2
<1> QED BY <1>1, <1>4, SessionOfState, EntryIsSound

\* A mutation is carried out, for the cookie's account: what the entry lacks now is not
\* settled yet, and a booking of the account that is shown is one with a card.
LEMMA MutateIsSound ==
  ASSUME TypeOK, SessionInv, CacheInv, NEW m \in Offered, Mutate(m)
  PROVE  ClientIsSound
<1>1. /\ m \in Concerning[watched] /\ mutation = None /\ page # "login"
      /\ (user = None => page = PaymentStep) /\ UNCHANGED <<watched, changes, event>>
  <2>1. /\ m \in Concerning[watched] /\ mutation = None /\ UNCHANGED <<watched, changes, event>>
    BY DEF Mutate
  <2>2. PaymentStep # "login"
    BY PagesAssumption
  <2>3. page = "login" \/ user = None => page = PaymentStep
    BY NothingUnknown
  <2> QED BY <2>1, <2>2, <2>3
<1>2. user # None
  BY <1>1 DEF SessionInv
<1>3. m \in DOMAIN MutationHook
  <2>1. watched \in DOMAIN QueryHook
    BY KnownOfState
  <2>2. Concerning[watched] \subseteq DOMAIN MutationHook
    BY <2>1, HooksAssumption DEF Concerning
  <2> QED BY <1>1, <2>2
<1>4. CASE Who = Visitor
  <2>1. Load("login", None) /\ UNCHANGED <<watched, changes, account, event, writes>>
    BY <1>1, <1>4 DEF Mutate, Unauthorized
  <2> QED BY <2>1, SessionOfState, SignedOutIsSound
<1>5. CASE Who # Visitor
  <2> DEFINE a == cookie.owner
             self == IF m = "useUpdateProfile" THEN Profile(a) ELSE None
             new == [hook |-> m, shown |-> TRUE, self |-> self]
  <2>1. /\ writes < MaxWrites[watched] /\ writes' = writes + 1
        /\ mutation' = new
        /\ account' = IF m = "useSavePaymentMethod" THEN [account EXCEPT ![a].card = TRUE]
                      ELSE account
        /\ crossed' = (crossed \/ a # user.owner)
        /\ entry' = IF Touches(m, watched) THEN Written(entry, m) ELSE entry
        /\ UNCHANGED <<cookie, asks, me, user, page, served>>
    BY <1>5 DEF Mutate, Touches
  <2>2. cookie # None /\ a \in Account /\ account[a] # None
    BY <1>5, OwnerOfCookie DEF Who, Bearer
  <2>3. Profile(a) \in Self /\ Profile(a) # None /\ Profile(a).owner = a /\ TrueOf(Profile(a))
    BY <2>2, ProfileType
  <2>4. Grows /\ (m = "useSavePaymentMethod" => account'[a].card)
    BY <2>1, <2>2, CardSaved, NothingGrows
  <2>5. /\ new \in Requested /\ new.hook = m /\ new.self = self /\ new # None
        /\ self \in Self \cup {None} /\ (self # None => self.owner = a) /\ TrueNow(self)
        /\ m = "useUpdateProfile" => self # None
    <3>1. self \in Self \cup {None} /\ (self # None => self.owner = a) /\ TrueOf(self)
      BY <2>3 DEF TrueOf
    <3>2. TrueNow(self)
      BY <2>4, <3>1, TruthStays
    <3>3. m = "useUpdateProfile" => self # None
      BY <2>3
    <3> HIDE DEF self
    <3>4. new \in Requested /\ new.hook = m /\ new.self = self
      BY <1>3, <3>1 DEF Requested
    <3>5. new # None
      BY <3>4, ClientAssumption
    <3> QED BY <3>1, <3>2, <3>3, <3>4, <3>5
  <2> HIDE DEF new, self
  <2>6. m \in Author /\ m # Others
    BY <1>3, ClientAssumption DEF Author
  <2>7. /\ entry' \in EntryOf(Author)
        /\ entry'.data = entry.data /\ entry'.invalid = entry.invalid /\ entry'.fetch = entry.fetch
        /\ entry'.lacks \subseteq entry.lacks \cup {m} /\ (~entry.data => entry'.lacks = entry.lacks)
        /\ entry'.answer \subseteq entry.answer \cup {m}
        /\ (entry.fetch # "answered" => entry'.answer = entry.answer)
        /\ (~Touches(m, watched) => entry' = entry)
    BY <2>1, <2>6, KnownOfState, WriteOps
  <2>8. TypeOK'
    <3>1. writes' \in 0..MaxWrites[watched]
      BY <2>1, KnownOfState DEF TypeOK
    <3>2. crossed' \in BOOLEAN
      BY <2>1 DEF TypeOK
    <3>3. account' \in [Account -> Row \cup {None}]
      BY <2>4 DEF Grows
    <3> QED BY <1>1, <1>2, <2>1, <2>5, <2>7, <3>1, <3>2, <3>3 DEF TypeOK, Author
  <2>9. SessionInv'
    <3>1. /\ cookie' # None => account'[cookie'.owner] # None
          /\ TrueOf(me)' /\ (~crossed' => TrueOf(user)')
      <4>1. TrueNow(me) /\ (~crossed => TrueNow(user))
        BY <2>4, SessionOfState, TruthStays
      <4>2. ~crossed' => ~crossed
        BY <2>1, SessionOfState
      <4> QED BY <2>1, <2>2, <2>4, <4>1, <4>2 DEF TrueOf, TrueNow, Grows
    <3>2. TrueOf(mutation.self)' /\ (mutation'.hook = "useUpdateProfile" => mutation'.self # None)
      BY <2>1, <2>5 DEF TrueOf, TrueNow
    <3>3. ~crossed' => /\ mutation'.self # None => mutation'.self.owner = user'.owner
                       /\ mutation'.hook \in {"useCreateReservation", "useSavePaymentMethod"} =>
                            account'[user'.owner].card
      <4> SUFFICES ASSUME ~crossed'
                   PROVE  /\ mutation'.self # None => mutation'.self.owner = user'.owner
                          /\ mutation'.hook \in {"useCreateReservation", "useSavePaymentMethod"} =>
                               account'[user'.owner].card
        OBVIOUS
      <4>1. ~crossed /\ user'.owner = a /\ user.owner = a
        BY <2>1
      <4>2. m = "useCreateReservation" => account[a].card
        BY <1>2, <4>1, BookersKnowTheirCard, SessionOfState DEF TrueOf
      <4>3. m = "useCreateReservation" => account'[a].card
        BY <2>2, <2>4, <4>2 DEF Grows
      <4> QED BY <2>1, <2>4, <2>5, <4>1, <4>3
    <3>4. (page = PaymentStep => user # None)'
      BY <1>2, <2>1
    <3> QED BY <1>2, <2>1, <3>1, <3>2, <3>3, <3>4 DEF SessionInv
  <2>10. entry.answer \ {Others} = {} /\ \A n : Settled(n)
    BY <1>1 DEF CacheInv, Settled
  <2>11. ~Settled(m)'
    BY <2>1, <2>5 DEF Settled
  <2>12. \A n \in entry'.answer \ {Others} : Touches(n, watched) /\ ~Settled(n)'
    BY <2>7, <2>10, <2>11
  <2>13. \A n \in entry'.lacks \ {Others} :
           Touches(n, watched) /\ (entry'.invalid \/ ~Settled(n)' \/ MayLinger(n, watched))
    BY <2>7, <2>10, <2>11 DEF CacheInv
  <2>14. CacheInv'
    BY <1>1, <2>7, <2>12, <2>13 DEF CacheInv
  <2> QED BY <2>8, <2>9, <2>14 DEF ClientIsSound
<1> QED BY <1>4, <1>5

\* The mutation is over: nobody expects it of an answer in flight.
LEMMA LoseMutationIsSound ==
  ASSUME TypeOK, SessionInv, CacheInv, LoseMutation
  PROVE  ClientIsSound
<1> DEFINE l == Renamed(entry.lacks, mutation.hook, Others)
           a == Renamed(entry.answer, mutation.hook, Others)
<1>1. /\ mutation # None /\ mutation' = None /\ user # None
      /\ entry' = [entry EXCEPT !.lacks = l, !.answer = a]
      /\ UNCHANGED <<watched, changes, account, cookie, asks, me, user, crossed, page, served, event, writes>>
  BY DEF LoseMutation, SessionInv, session
<1>2. /\ l \in SUBSET Author /\ l \ {Others} = entry.lacks \ {mutation.hook, Others}
      /\ entry.lacks = {} => l = {}
      /\ a \in SUBSET Author /\ a \ {Others} = entry.answer \ {mutation.hook, Others}
      /\ entry.answer = {} => a = {}
  BY KnownOfState, RenameOps
<1> HIDE DEF l, a
<1>3. /\ entry' \in EntryOf(Author) /\ entry'.lacks = l /\ entry'.answer = a
      /\ entry'.data = entry.data /\ entry'.invalid = entry.invalid /\ entry'.fetch = entry.fetch
  BY <1>1, <1>2, KnownOfState DEF EntryOf
<1>4. TypeOK'
  BY <1>1, <1>3 DEF TypeOK, Author
<1>5. SessionInv'
  BY <1>1 DEF SessionInv, TrueOf
<1>6. \A m : m # mutation.hook => Settled(m)
  BY DEF Settled
<1>7. entry'.answer \ {Others} = {}
  BY <1>2, <1>3, <1>6 DEF CacheInv
<1>8. \A m \in entry'.lacks \ {Others} :
        Touches(m, watched) /\ (entry'.invalid \/ MayLinger(m, watched))
  BY <1>2, <1>3, <1>6 DEF CacheInv
<1>9. CacheInv'
  BY <1>1, <1>2, <1>3, <1>7, <1>8 DEF CacheInv
<1> QED BY <1>4, <1>5, <1>9 DEF ClientIsSound

\* What a hook does to the entry it concerns: what is left that its data lack is
\* marked, or may linger.
LEMMA EntryAfterSuccess ==
  ASSUME TypeOK, SessionInv, CacheInv, mutation # None
  PROVE  LET m == mutation.hook e == EntryAfter(m)
         IN  /\ e \in EntryOf(Author)
             /\ ~e.data => e.lacks = {} /\ ~e.invalid
             /\ e.fetch # "answered" => e.answer = {}
             /\ e.answer \subseteq entry.answer
             /\ \A n \in e.lacks \ {Others} :
                  Touches(n, watched) /\ (e.invalid \/ MayLinger(n, watched))
<1> DEFINE m == mutation.hook
           e == EntryAfter(m)
           mounted == watched \in Mounted
<1>1. /\ m \in DOMAIN MutationHook /\ m \in Author /\ m # Others /\ watched \in DOMAIN QueryHook
      /\ entry \in EntryOf(Author)
  <2>1. mutation \in Requested
    BY DEF TypeOK
  <2> QED BY <2>1, KnownOfState, ClientAssumption DEF Requested, Author
<1>2. \A n : n # m => Settled(n)
  BY DEF Settled
<1>3. mounted \in BOOLEAN
  OBVIOUS
<1>4. /\ Invalidates(m, watched) => e = Invalidated(entry, mounted)
      /\ ~Invalidates(m, watched) /\ Patches(m, watched) => e = Patched(entry, m, Creates(m))
      /\ ~Invalidates(m, watched) /\ ~Patches(m, watched) => e = entry
  BY DEF EntryAfter
<1> HIDE DEF m, e, mounted
<1>5. CASE Invalidates(m, watched)
  <2>1. /\ e \in EntryOf(Author) /\ e.data = entry.data /\ e.invalid = entry.data
        /\ e.lacks = entry.lacks
        /\ \/ e.fetch = entry.fetch /\ e.answer = entry.answer
           \/ e.fetch = "sent" /\ e.answer = {}
    BY <1>1, <1>3, <1>4, <1>5, InvalidateOps
  <2>2. \A n \in e.lacks \ {Others} : e.invalid /\ Touches(n, watched)
    BY <2>1, KnownOfState DEF CacheInv
  <2> QED BY <2>1, <2>2 DEF CacheInv, m, e
<1>6. CASE ~Invalidates(m, watched) /\ Patches(m, watched)
  <2>1. /\ e \in EntryOf(Author) /\ (~e.data => ~entry.data) /\ ~e.invalid /\ e.fetch = entry.fetch
        /\ e.lacks = entry.lacks \ {m} /\ e.answer = entry.answer
    <3>1. Creates(m) \in BOOLEAN
      BY DEF Creates
    <3>2. e = Patched(entry, m, Creates(m))
      BY <1>4, <1>6
    <3>3. /\ e \in EntryOf(Author) /\ e.data = (entry.data \/ Creates(m)) /\ ~e.invalid
          /\ e.fetch = entry.fetch /\ e.lacks = entry.lacks \ {m} /\ e.answer = entry.answer
      BY <1>1, <3>1, <3>2, PatchOps
    <3>4. ~e.data => ~entry.data
      BY <3>3, Zenon
    <3> QED BY <3>3, <3>4
  <2>2. ASSUME NEW n \in e.lacks \ {Others} PROVE Touches(n, watched) /\ MayLinger(n, watched)
    <3>1. n \in DOMAIN MutationHook /\ n # m /\ Touches(n, watched)
      BY <2>1, KnownOfState DEF CacheInv, Author
    <3> QED BY <1>1, <1>6, <3>1, HooksAssumption
  <2> QED BY <2>1, <2>2 DEF CacheInv, m, e
<1>7. CASE ~Invalidates(m, watched) /\ ~Patches(m, watched)
  <2>1. e = entry
    BY <1>4, <1>7
  <2>2. Touches(m, watched) => MayLinger(m, watched)
    BY <1>1, <1>7, HooksAssumption
  <2>3. \A n \in entry.lacks \ {Others} :
          Touches(n, watched) /\ (entry.invalid \/ MayLinger(n, watched))
    BY <1>2, <2>2 DEF CacheInv
  <2> QED BY <1>1, <2>1, <2>3 DEF CacheInv, m, e
<1> QED BY <1>5, <1>6, <1>7

LEMMA ExcuseOps ==
  ASSUME NEW e \in EntryOf(Author), NEW a
  PROVE  /\ Excused(e, a) \in EntryOf(Author)
         /\ Excused(e, a).data = e.data /\ Excused(e, a).lacks = e.lacks
         /\ Excused(e, a).invalid = e.invalid /\ Excused(e, a).fetch = e.fetch
         /\ Excused(e, a).answer \ {Others} = e.answer \ {a, Others}
         /\ e.answer = {} => Excused(e, a).answer = {}
<1> DEFINE r == Renamed(e.answer, a, Others)
<1>1. e.answer \in SUBSET Author
  BY DEF EntryOf
<1>2. r \in SUBSET Author /\ r \ {Others} = e.answer \ {a, Others} /\ (e.answer = {} => r = {})
  BY <1>1, RenameOps
<1>3. Excused(e, a) = [e EXCEPT !.answer = r]
  BY DEF Excused, EntryOf
<1> HIDE DEF r
<1> QED BY <1>2, <1>3 DEF EntryOf

LEMMA SettleIsSound ==
  ASSUME TypeOK, SessionInv, CacheInv, SettleMutation
  PROVE  ClientIsSound
<1> DEFINE m == mutation.hook
           e == EntryAfter(m)
<1>1. /\ mutation # None /\ user # None
      /\ UNCHANGED <<watched, changes, account, event, writes>>
      /\ mutation \in Requested /\ m \in DOMAIN MutationHook
  BY DEF SettleMutation, SessionInv, TypeOK, Requested
<1>2. CASE Load("login", None)
  BY <1>1, <1>2, SessionOfState, SignedOutIsSound
<1>3. CASE Load("dashboard", cookie)
  <2>1. Loaded /\ cookie' = cookie
    BY <1>3, LoadLeads, SessionOfState
  <2> QED BY <1>1, <2>1, SessionOfState, NothingGrows, LoadedIsSound
<1>4. CASE ~Load("login", None) /\ ~Load("dashboard", cookie)
  <2>1. /\ user' = UserAfter(m) /\ entry' \in {Empty, Excused(e, m)} /\ mutation' = None
        /\ UNCHANGED <<cookie, asks, me, crossed>>
        /\ \/ page' = Opened(Follows(page, m), Who) /\ served' = Who
           \/ UNCHANGED <<page, served>>
    BY <1>4 DEF SettleMutation
  <2>2. /\ e \in EntryOf(Author)
        /\ ~e.data => e.lacks = {} /\ ~e.invalid
        /\ e.fetch # "answered" => e.answer = {}
        /\ e.answer \subseteq entry.answer
        /\ \A n \in e.lacks \ {Others} :
             Touches(n, watched) /\ (e.invalid \/ MayLinger(n, watched))
    BY <1>1, EntryAfterSuccess
  <2> HIDE DEF e
  <2>3. ASSUME entry' = Excused(e, m) PROVE entry' \in EntryOf(Author) /\ CacheInv'
    <3>1. /\ entry' \in EntryOf(Author) /\ entry'.data = e.data /\ entry'.lacks = e.lacks
          /\ entry'.invalid = e.invalid /\ entry'.fetch = e.fetch
          /\ entry'.answer \ {Others} = e.answer \ {m, Others}
          /\ e.answer = {} => entry'.answer = {}
      BY <2>2, <2>3, ExcuseOps
    <3>2. entry'.answer \ {Others} = {}
      BY <2>2, <3>1 DEF CacheInv, Settled
    <3>3. CacheInv'
      BY <1>1, <2>2, <3>1, <3>2 DEF CacheInv
    <3> QED BY <3>1, <3>3
  <2>4. entry' \in EntryOf(Author) /\ CacheInv'
    <3>1. ASSUME entry' = Empty PROVE entry' \in EntryOf(Author) /\ CacheInv'
      BY <3>1, EmptyType DEF CacheInv, Empty
    <3> QED BY <2>1, <2>3, <3>1
  <2>5. /\ page' \in Page \cup {NotFound, PaymentStep}
        /\ served' \in Role \cup {Visitor} /\ (page' = PaymentStep => page = PaymentStep)
    BY <2>1, WhoType, OpenedIsRouted, SessionOfState
  <2>6. /\ user' \in Self /\ user' # None
        /\ ~crossed => TrueOf(user')
    <3>1. CASE m = "useSavePaymentMethod"
      <4>1. user' = [user EXCEPT !.card = TRUE]
        BY <2>1, <3>1 DEF UserAfter
      <4>2. user' \in Self /\ user'.owner = user.owner
        BY <1>1, <4>1, UserType DEF Self
      <4>3. ~crossed => account[user.owner] # None /\ account[user.owner].card
        BY <1>1, <3>1 DEF SessionInv, TrueOf
      <4> QED BY <4>2, <4>3, ClientAssumption DEF TrueOf
    <3>2. CASE m = "useUpdateProfile"
      <4>1. user' = mutation.self /\ mutation.self # None /\ TrueOf(mutation.self)
        BY <1>1, <2>1, <3>2 DEF UserAfter, SessionInv
      <4>2. mutation.self \in Self
        BY <1>1, <4>1 DEF Requested
      <4> QED BY <4>1, <4>2
    <3>3. CASE m \notin {"useSavePaymentMethod", "useUpdateProfile"}
      <4>1. user' = user
        BY <2>1, <3>3 DEF UserAfter
      <4> QED BY <1>1, <4>1, UserType, SessionOfState
    <3> QED BY <3>1, <3>2, <3>3
  <2>7. TypeOK'
    BY <1>1, <2>1, <2>4, <2>5, <2>6 DEF TypeOK, Author
  <2>8. SessionInv'
    BY <1>1, <2>1, <2>5, <2>6 DEF SessionInv, TrueOf
  <2> QED BY <2>4, <2>7, <2>8 DEF ClientIsSound
<1> QED BY <1>2, <1>3, <1>4

-----------------------------------------------------------------------------
(* Every step *)

LEMMA ClientStutterIsSound ==
  ASSUME TypeOK, SessionInv, CacheInv, UNCHANGED vars
  PROVE  ClientIsSound
<1>1. UNCHANGED <<watched, changes, account, cookie, asks, me, user, crossed, page, served, entry,
                  mutation, event, writes>>
  BY DEF vars, session
<1>2. TypeOK'
  BY <1>1 DEF TypeOK
<1>3. SessionInv'
  BY <1>1 DEF SessionInv, TrueOf
<1>4. CacheInv'
  BY <1>1 DEF CacheInv, Settled
<1> QED BY <1>2, <1>3, <1>4 DEF ClientIsSound

LEMMA ClientStepIsSound ==
  ASSUME TypeOK, SessionInv, CacheInv, Next \/ UNCHANGED vars
  PROVE  ClientIsSound
BY LeavingIsSound, NavigateIsSound, RedirectIsSound, RegisterIsSound, ProfileIsSound,
   ElsewhereIsSound, FetchIsSound, AnswerFetchIsSound, MutateIsSound, LoseMutationIsSound,
   SettleIsSound, OthersWriteIsSound, PushIsSound, ClientStutterIsSound
DEF Next

LEMMA ClientInitIsSound == Init => TypeOK /\ SessionInv /\ CacheInv /\ RouteInv
<1> SUFFICES ASSUME Init PROVE TypeOK /\ SessionInv /\ CacheInv /\ RouteInv
  OBVIOUS
<1>1. /\ watched \in DOMAIN MaxWrites /\ asks = (cookie # None)
      /\ me = None /\ user = None /\ crossed = FALSE /\ served = Who
      /\ entry = Empty /\ mutation = None /\ event = FALSE /\ changes = 0 /\ writes = 0
  BY DEF Init
<1>2. /\ account \in [Account -> Row \cup {None}] /\ cookie \in Token \cup {None}
      /\ cookie # None => account[cookie.owner] # None
  <2>1. CASE cookie = None /\ account = [a \in Account |-> None]
    BY <2>1
  <2>2. CASE \E a \in Account, r \in NewRow, valid \in BOOLEAN :
               /\ account = [b \in Account |-> IF b = a THEN r ELSE None]
               /\ cookie = [TokenOf(a, r) EXCEPT !.valid = valid]
    <3>1. PICK a \in Account, r \in NewRow, valid \in BOOLEAN :
               /\ account = [b \in Account |-> IF b = a THEN r ELSE None]
               /\ cookie = [TokenOf(a, r) EXCEPT !.valid = valid]
      BY <2>2
    <3>2. r \in Row /\ r # None
      BY ClientAssumption DEF NewRow
    <3>3. cookie \in Token /\ cookie.owner = a
      BY <3>1, <3>2, TokensOfRows DEF Token
    <3> QED BY <3>1, <3>2, <3>3
  <2> QED BY <2>1, <2>2 DEF Init
<1>3. Who \in Role \cup {Visitor}
  BY <1>2, BearerType DEF Who
<1>4. page \in Page /\ Routed(Who, page)
  BY <1>3, AnswersArePages, AnswersAreRouted DEF Init
<1>5. MaxWrites[watched] \in Nat /\ MaxChanges[watched] \in Nat
  BY <1>1, ClientAssumption
<1>6. TypeOK
  <2>1. entry \in EntryOf(Author) /\ (entry # Empty => user # None)
    BY <1>1, EmptyType
  <2>2. asks \in BOOLEAN /\ crossed \in BOOLEAN /\ event \in BOOLEAN
    BY <1>1
  <2>3. changes \in 0..MaxChanges[watched] /\ writes \in 0..MaxWrites[watched]
    BY <1>1, <1>5
  <2> QED BY <1>1, <1>2, <1>3, <1>4, <2>1, <2>2, <2>3 DEF TypeOK, Author
<1>7. SessionInv /\ CacheInv
  BY <1>1, <1>2, <1>4, EmptyType, PagesAssumption DEF SessionInv, CacheInv, TrueOf
<1>8. RouteInv
  BY <1>1, <1>4 DEF RouteInv, Routed
<1> QED BY <1>6, <1>7, <1>8

LEMMA ClientStaysSound == WebSpec => [](TypeOK /\ SessionInv /\ CacheInv)
<1>1. WebInit => TypeOK /\ SessionInv /\ CacheInv
  BY ClientInitIsSound DEF WebInit
<1>2. ASSUME TypeOK, SessionInv, CacheInv, [WebNext]_<<focus, vars, wizard>>
      PROVE  TypeOK' /\ SessionInv' /\ CacheInv'
  BY <1>2, ClientStepIsSound DEF WebNext, Data, Booking, ClientIsSound
<1> QED BY <1>1, <1>2, PTL DEF WebSpec

\* The tab and the visit keep their types, however many accounts, writes and visits
\* there are.
THEOREM WebTypeCorrect == WebSpec => []WebTypeOK
<1>1. TypeOK /\ Wizard!WizardTypeOK => WebTypeOK
  BY DEF WebTypeOK
<1> QED BY <1>1, ClientStaysSound, VisitStaysSound, PTL

\* As long as a tab has acted for the account it shows, nobody books before a card is
\* known to the backend (app-shell.tsx), whatever other tabs, administrators and late
\* answers do to the session: what the tab knows of that account's card is true.
THEOREM BookersAlwaysHaveCards == WebSpec => []BookersHaveCards
<1>1. SessionInv => BookersHaveCards
  BY DEF SessionInv, BookersHaveCards
<1> QED BY <1>1, ClientStaysSound, PTL

\* Once a mutation of this tab has succeeded, no idle query of its feature shows data
\* from before it as up to date, for any number of writes of this tab and of others
\* (onSuccess of the mutation hooks), but for the exceptions named there.
THEOREM OwnWritesAlwaysShow == WebSpec => []OwnWritesShow
<1>1. CacheInv => OwnWritesShow
  BY DEF CacheInv, OwnWritesShow, MayLinger
<1> QED BY <1>1, ClientStaysSound, PTL

-----------------------------------------------------------------------------
(* The pages that a tab comes to *)

\* Wherever a step leads is where it was, the step of a page outside the shell, or
\* what the middleware answered the bearer of the token.
LEMMA RouteIsKept ==
  ASSUME TypeOK, RouteInv, Next \/ UNCHANGED vars
  PROVE  RouteInv'
<1>1. /\ Routed(served, page) /\ Routed(served, PaymentStep)
      /\ Who \in Role \cup {Visitor} /\ \A p : Routed(Who, Opened(p, Who))
  BY WhoType, OpenedIsRouted, PagesAssumption DEF RouteInv, Routed, ShellPages
<1>2. SUFFICES Routed(served', page')
  BY DEF RouteInv, Routed
<1>3. \A token \in Token \cup {None} : \A p : Load(p, token) => Routed(served', page')
  BY LoadLeads DEF Loaded
<1>4. CASE Reload \/ Logout
  BY <1>3, <1>4 DEF Reload, Logout, TypeOK
<1>5. CASE \E a \in Account : Login(a)
  BY <1>3, <1>5, WhoAppears DEF Login
<1>6. CASE (\E p \in Links : Navigate(p)) \/ Redirect
  BY <1>1, <1>3, <1>6 DEF Navigate, Redirect, TypeOK
<1>7. CASE \E a \in Account : Register(a)
  BY <1>1, <1>7 DEF Register
<1>8. CASE BootAnswered \/ AnswerFetch \/ (\E m \in Offered : Mutate(m))
  <2>1. Load("login", None) \/ UNCHANGED <<page, served>>
    BY <1>8 DEF BootAnswered, AnswerFetch, Mutate, Unauthorized
  <2> QED BY <1>1, <1>3, <2>1
<1>9. CASE SettleMutation
  <2>1. \/ Load("login", None) \/ Load("dashboard", cookie) \/ UNCHANGED <<page, served>>
        \/ page' = Opened(Follows(page, mutation.hook), Who) /\ served' = Who
    BY <1>9 DEF SettleMutation
  <2> QED BY <1>1, <1>3, <2>1 DEF TypeOK
<1>10. CASE \/ ProfileLands \/ BootFails \/ SessionChanges \/ (\E a \in Account : AccountChanges(a))
            \/ BeginFetch \/ LandFetch \/ LoseFetch \/ Collect \/ LoseMutation \/ OthersWrite
            \/ Push \/ UNCHANGED vars
  BY <1>1, <1>10 DEF ProfileLands, BootFails, SessionChanges, AccountChanges, BeginFetch,
    LandFetch, LoseFetch, Collect, LoseMutation, OthersWrite, Push, vars
<1> QED BY <1>4, <1>5, <1>6, <1>7, <1>8, <1>9, <1>10 DEF Next

LEMMA ShownIsPermitted == TypeOK /\ RouteInv => OfferedIsPermitted
<1> SUFFICES ASSUME TypeOK, RouteInv, InShell, served = user.role
             PROVE  /\ ContentIsPermitted(Mounted, Offered, Links, user.role, page)
                    /\ ToolsArePermitted(user.role)
  BY DEF OfferedIsPermitted
<1>1. page \in ShellPages /\ user # None /\ ~NeedsBilling /\ user.role \in Role
  BY UserType DEF InShell
<1>2. page \in Page \ PublicPages /\ page # "login" /\ page # "register" /\ page # PaymentStep
  BY <1>1, PagesAssumption DEF ShellPages, PublicPages
<1>3. Content = Screens[user.role][page] /\ Surround = Shells[user.role][page]
  BY <1>1, <1>2 DEF Content, Surround
<1>4. Answers[user.role][page] = page
  BY <1>1 DEF RouteInv
<1> QED BY <1>1, <1>3, <1>4, ScreensAssumption DEF Mounted, Offered, Links

LEMMA RouteStaysAnswered == WebSpec => []RouteInv
<1>1. WebInit => RouteInv
  BY ClientInitIsSound DEF WebInit
<1>2. ASSUME TypeOK, RouteInv, [WebNext]_<<focus, vars, wizard>>
      PROVE  RouteInv'
  BY <1>2, RouteIsKept DEF WebNext, Data, Booking
<1> QED BY <1>1, <1>2, ClientStaysSound, PTL DEF WebSpec

\* What a visit of the booking page has rendered, sent and heard, what a tab knows of
\* the accounts, the page it was answered with and what its cache lacks stay
\* consistent, whichever way answers, events, sessions and pages cross each other.
THEOREM WebInvariant == WebSpec => []WebInv
<1>1. Wizard!VisitInv /\ SessionInv /\ RouteInv /\ CacheInv => WebInv
  BY DEF WebInv
<1> QED BY <1>1, VisitStaysSound, ClientStaysSound, RouteStaysAnswered, PTL

\* What a tab shows is what the middleware (middleware.ts) and the guards of the
\* backend's controllers let the role have that the page was answered for, as long as
\* the tab's account has that role, whichever way tokens, accounts, pages and mutations
\* have gone, but for the exceptions named there.
THEOREM OfferedStaysPermitted == WebSpec => []OfferedIsPermitted
BY ClientStaysSound, RouteStaysAnswered, ShownIsPermitted, PTL

=============================================================================
