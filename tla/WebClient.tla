------------------------------ MODULE WebClient ------------------------------
(***************************************************************************)
(* A tab of the web client.  Its features keep their state apart from each *)
(* other, so a behaviour follows one of them: a session with one of its    *)
(* queries (Client), or one visit of the booking page (BookingWizard).     *)
(***************************************************************************)
EXTENDS Client

CONSTANTS Floor, Slot, FloorOf, Arrival, Duration, MaxTime

VARIABLES focus,
          time, floors, step, floor, form, deps, chosen, request, result, mine, lost

Wizard == INSTANCE BookingWizard WITH Nothing <- None

\* Neither a slot nor a request is taken for the absence of one.
ASSUME WizardAssumption == None \notin Slot \cup Wizard!Pending /\ MaxTime \in Nat

wizard == <<time, floors, step, floor, form, deps, chosen, request, result, mine, lost>>

\* What is not followed stays in one of its initial states.
NotFollowed ==
  /\ focus = "booking" =>
       watched = (CHOOSE q \in DOMAIN MaxWrites : TRUE) /\ cookie = None /\ page = "login"
  /\ focus = "data" => form.duration = CHOOSE d \in Duration : TRUE

WebInit == focus \in {"data", "booking"} /\ Init /\ Wizard!WizardInit /\ NotFollowed

Data == focus = "data" /\ Next /\ UNCHANGED <<focus, wizard>>
Booking == focus = "booking" /\ Wizard!WizardNext /\ UNCHANGED <<focus, vars>>

WebNext == Data \/ Booking

WebSpec == WebInit /\ [][WebNext]_<<focus, vars, wizard>> /\ Fairness

WebTypeOK == TypeOK /\ Wizard!WizardTypeOK

\* The booking page sends what was shown for just the floor and time that it
\* sends, whatever was chosen before (its effect on selectedSlot).
SentAsShown == Wizard!SentAsShown

\* One visit of the booking page makes one reservation, but for lost answers.
BooksOnce == Wizard!BooksOnce

\* Why these hold, and the safety properties of Client: what a visit has rendered and
\* decided, and what a session knows, caches and shows.
WebInv == Wizard!VisitInv /\ SessionInv /\ RouteInv /\ CacheInv
=============================================================================
