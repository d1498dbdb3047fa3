---------------------------- MODULE AssistantTools ----------------------------
(***************************************************************************)
(* The tools the assistant offers a signed-in user.  A tool calls its      *)
(* service directly, past the guards of the route that wraps the same      *)
(* service, and brings a list of roles of its own.                         *)
(***************************************************************************)
EXTENDS Endpoints

\* A tool that runs at once, and one that waits for the user's approval.
Tool(who, route) == [roles |-> who, mutating |-> FALSE, route |-> route]
Mutating(who, route) == [roles |-> who, mutating |-> TRUE, route |-> route]

buildParkingLotTools ==
  "find_nearby_parking_lots" :> Tool(SignedIn, "nearbyLots") @@
  "list_parking_lots" :> Tool(SignedIn, "lots") @@
  "get_parking_lot" :> Tool(SignedIn, "lot") @@
  "list_parking_lot_floors" :> Tool(SignedIn, "floors") @@
  "create_parking_lot" :> Mutating(StaffRole, "createLot") @@
  "update_parking_lot" :> Mutating(StaffRole, "updateLot") @@
  "delete_parking_lot" :> Mutating(StaffRole, "deleteLot") @@
  "create_parking_floor" :> Mutating(StaffRole, "createFloor")

buildParkingSlotTools ==
  "search_parking_slots" :> Tool(SignedIn, "slotsInWindow") @@
  "get_parking_slot" :> Tool(SignedIn, "slot") @@
  "update_slot_status" :> Mutating(StaffRole, "updateStatus") @@
  "bulk_update_slot_status" :> Mutating(StaffRole, "bulkUpdateStatus")

buildReservationTools ==
  "list_my_reservations" :> Tool(SignedIn, "myReservations") @@
  "get_reservation" :> Tool(SignedIn, "reservation") @@
  "list_lot_reservations" :> Tool(StaffRole, "lotReservations") @@
  "book_parking_slot" :> Mutating({"CUSTOMER"}, "createReservation") @@
  "cancel_reservation" :> Mutating(SignedIn, "cancelReservation")

buildCheckpointTools ==
  "check_in_via_qr" :> Mutating(StaffRole, "checkIn") @@
  "check_out_via_qr" :> Mutating(StaffRole, "checkOut")

buildUsersTools ==
  "get_my_profile" :> Tool(SignedIn, "me") @@
  "get_my_payment_method" :> Tool(SignedIn, "paymentMethod") @@
  "list_all_users" :> Tool({"ADMIN"}, "users") @@
  "get_user" :> Tool({"ADMIN"}, "user") @@
  "update_my_profile" :> Mutating(SignedIn, "updateProfile") @@
  "block_user" :> Mutating({"ADMIN"}, "block") @@
  "unblock_user" :> Mutating({"ADMIN"}, "unblock") @@
  "update_user" :> Mutating({"ADMIN"}, "updateUser") @@
  "remove_manager" :> Mutating({"ADMIN"}, "removeManager")

buildNotificationTools ==
  "list_my_notifications" :> Tool(SignedIn, "notifications") @@
  "mark_notifications_read" :> Mutating(SignedIn, "markAllRead")

\* ToolRegistry.allTools.  The policy search and the location prompt, open to
\* everybody, have no route to compare with and are left out.
AllTools ==
  buildParkingLotTools @@ buildParkingSlotTools @@ buildReservationTools @@
  buildCheckpointTools @@ buildUsersTools @@ buildNotificationTools

\* ToolRegistry.forRole
ForRole(role) == {t \in DOMAIN AllTools : role \in AllTools[t].roles}

\* A tool lets nobody past what its route would refuse, and exactly the tools
\* whose route changes something wait for an approval.
ToolsArePermitted(role) ==
  \A t \in ForRole(role) :
    /\ Permitted(AllTools[t].route, role)
    /\ AllTools[t].mutating <=> Endpoint[AllTools[t].route].writes # {}
=============================================================================
