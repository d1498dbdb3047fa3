------------------------------ MODULE Endpoints ------------------------------
(***************************************************************************)
(* The HTTP interface of the backend as its clients see it: for every      *)
(* route of every controller, who passes its guards and which kinds of     *)
(* data its handler reads into the answer or changes.                      *)
(***************************************************************************)
EXTENDS FiniteSets, TLC

Role == {"CUSTOMER", "MANAGER", "ADMIN"}
StaffRole == {"MANAGER", "ADMIN"}

\* A request without a valid token.
Visitor == "VISITOR"

\* The kinds of data a screen can show.
Resource == {"lot", "floor", "slot", "reservation", "notification", "user", "card", "policy"}

\* JwtAuthGuard lets any valid token through, RolesGuard the listed roles,
\* and a route without guards everybody.
SignedIn == Role
Public == Role \cup {Visitor}

\* A route that answers with data, and one that changes data.
Get(who, what) == [roles |-> who, reads |-> what, writes |-> {}]
Put(who, what) == [roles |-> who, reads |-> {}, writes |-> what]

\* Slot counts come with every lot, so its readers read floors and slots too.
ParkingLotController ==
  "lots" :> Get(SignedIn, {"lot", "floor", "slot"}) @@
  "lot" :> Get(SignedIn, {"lot", "floor", "slot"}) @@
  "nearbyLots" :> Get(SignedIn, {"lot", "floor", "slot"}) @@
  "createLot" :> Put(StaffRole, {"lot", "floor", "slot"}) @@
  "updateLot" :> Put(StaffRole, {"lot"}) @@
  "deleteLot" :> Put(StaffRole, {"lot", "floor", "slot"})

FloorRoutes ==
  "floors" :> Get(Public, {"floor", "slot"}) @@
  "createFloor" :> Put(StaffRole, {"floor", "slot"}) @@
  "updateFloor" :> Put(StaffRole, {"floor", "slot"}) @@
  "deleteFloor" :> Put(StaffRole, {"floor", "slot"})

\* The search endpoint answers by current status, or by the reservations of a
\* window when one is given.
ParkingSlotController ==
  "slots" :> Get(SignedIn, {"floor", "slot"}) @@
  "slotsInWindow" :> Get(SignedIn, {"floor", "slot", "reservation"}) @@
  "slot" :> Get(SignedIn, {"floor", "slot"}) @@
  "updateStatus" :> Put(StaffRole, {"slot"}) @@
  "bulkUpdateStatus" :> Put(StaffRole, {"slot"})

\* The two checkout-payment routes refuse every reservation that is not
\* PENDING_PAYMENT, a status nothing sets: they change nothing.
ReservationController ==
  "createReservation" :> Put({"CUSTOMER"}, {"reservation", "slot", "notification"}) @@
  "myReservations" :> Get(SignedIn, {"reservation"}) @@
  "lotReservations" :> Get(StaffRole, {"reservation"}) @@
  "reservation" :> Get(SignedIn, {"reservation"}) @@
  "cancelReservation" :> Put(SignedIn, {"reservation", "slot", "notification"}) @@
  "confirmCheckoutPayment" :> Put(SignedIn, {}) @@
  "failCheckoutPayment" :> Put(SignedIn, {})

\* A scan moves the reservation and its slot and notifies the customer.
CheckpointController ==
  "checkIn" :> Put(StaffRole, {"reservation", "slot", "notification"}) @@
  "checkOut" :> Put(StaffRole, {"reservation", "slot", "notification"})

\* The routes on one's own account.
UsersMe ==
  "me" :> Get(SignedIn, {"user", "card"}) @@
  "updateProfile" :> Put(SignedIn, {"user"}) @@
  "deleteOwnAccount" :> Put(SignedIn, {"user", "reservation", "notification", "card"}) @@
  "changePassword" :> Put(SignedIn, {}) @@
  "savePaymentMethod" :> Put(SignedIn, {"card"}) @@
  "paymentMethod" :> Get(SignedIn, {"card"})

\* The routes on the accounts of others; blocking cancels reservations.
UsersAdmin ==
  "users" :> Get({"ADMIN"}, {"user"}) @@
  "user" :> Get({"ADMIN"}, {"user"}) @@
  "createStaff" :> Put({"ADMIN"}, {"user"}) @@
  "removeManager" :> Put({"ADMIN"}, {"user"}) @@
  "updateUser" :> Put({"ADMIN"}, {"user"}) @@
  "updateStaffRole" :> Put({"ADMIN"}, {"user"}) @@
  "block" :> Put({"ADMIN"}, {"user", "reservation", "slot"}) @@
  "unblock" :> Put({"ADMIN"}, {"user"})

PolicyController ==
  "policies" :> Get({"ADMIN"}, {"policy"}) @@
  "uploadPolicy" :> Put({"ADMIN"}, {"policy"}) @@
  "deletePolicy" :> Put({"ADMIN"}, {"policy"})

NotificationController ==
  "notifications" :> Get(SignedIn, {"notification"}) @@
  "markAllRead" :> Put(SignedIn, {"notification"})

AuthController ==
  "register" :> Put(Public, {"user"}) @@
  "login" :> Put(Public, {})

Endpoint ==
  ParkingLotController @@ FloorRoutes @@ ParkingSlotController @@ ReservationController @@
  CheckpointController @@ UsersMe @@ UsersAdmin @@ PolicyController @@
  NotificationController @@ AuthController

\* RolesGuard.canActivate behind JwtAuthGuard.
Permitted(route, who) == who \in Endpoint[route].roles
=============================================================================
