------------------------------- MODULE Queries -------------------------------
(***************************************************************************)
(* The web client's data hooks: which cache entry each query fills from    *)
(* which route, and what each mutation does to the cache when it succeeds. *)
(* A key is the array the code uses, with one value for every id.          *)
(***************************************************************************)
EXTENDS Endpoints, SequencesExt

Query(key, route) == [key |-> key, route |-> route, polled |-> FALSE]
Polled(key, route) == [key |-> key, route |-> route, polled |-> TRUE]

\* features/parking-lots: the list's key is a prefix of all others.
ParkingLotsQueries ==
  "useParkingLots" :> Query(<<"parking-lots">>, "lots") @@
  "useParkingLot" :> Query(<<"parking-lots", "id">>, "lot") @@
  "useNearbyParkingLots" :> Query(<<"parking-lots", "nearby", "params">>, "nearbyLots") @@
  "useFloors" :> Query(<<"parking-lots", "id", "floors">>, "floors")

ParkingSlotsQueries ==
  "useFloorSlots" :> Query(<<"parking-slots", "floor", "id">>, "slots") @@
  "useFloorSlotsForWindow" :>
     Query(<<"parking-slots", "floor", "id", "window", "arrival", "minutes">>, "slotsInWindow")

ReservationsQueries ==
  "useMyReservations" :> Polled(<<"reservations", "mine", "user">>, "myReservations") @@
  "useReservationsByLot" :> Query(<<"reservations", "by-lot", "id">>, "lotReservations") @@
  "useReservation" :> Polled(<<"reservations", "id">>, "reservation")

NotificationsQueries ==
  "useMyNotifications" :> Polled(<<"notifications", "mine", "user">>, "notifications")

UsersQueries ==
  "useAdminUsers" :> Query(<<"users">>, "users") @@
  "usePaymentMethod" :> Query(<<"payment-method">>, "paymentMethod")

PoliciesQueries == "useAdminPolicies" :> Query(<<"policies">>, "policies")

\* AuthProvider's own query: the account behind the cookie.
AuthQuery == "useAuth" :> Query(<<"auth", "me">>, "me")

QueryHook ==
  ParkingLotsQueries @@ ParkingSlotsQueries @@ ReservationsQueries @@
  NotificationsQueries @@ UsersQueries @@ PoliciesQueries @@ AuthQuery

Bell == "useMyNotifications"
Me == "useAuth"

\* A mutation names its route, the key prefixes it invalidates and the keys
\* it writes its answer to (setQueryData) when it succeeds.
Mutation(route, invalidates, patches) ==
  [route |-> route, invalidates |-> invalidates, patches |-> patches]

All(feature) == {<<feature>>}

LotMutations ==
  "useCreateParkingLot" :> Mutation("createLot", All("parking-lots"), {}) @@
  "useUpdateParkingLot" :>
     Mutation("updateLot", All("parking-lots") \cup {<<"parking-lots", "id">>}, {}) @@
  "useDeleteParkingLot" :> Mutation("deleteLot", All("parking-lots"), {})

FloorKeys == {<<"parking-lots", "id", "floors">>, <<"parking-lots", "id">>, <<"parking-lots">>}

FloorMutations ==
  "useCreateFloor" :> Mutation("createFloor", FloorKeys, {}) @@
  "useUpdateFloor" :> Mutation("updateFloor", {<<"parking-lots", "id", "floors">>}, {}) @@
  "useDeleteFloor" :> Mutation("deleteFloor", FloorKeys, {})

SlotMutations ==
  "useBulkUpdateSlotStatus" :> Mutation("bulkUpdateStatus", All("parking-slots"), {})

ReservationMutations ==
  "useCreateReservation" :> Mutation("createReservation", All("reservations"), {}) @@
  "useCancelReservation" :> Mutation("cancelReservation", All("reservations"), {}) @@
  "useConfirmCheckoutPayment" :> Mutation("confirmCheckoutPayment", All("reservations"), {}) @@
  "useFailCheckoutPayment" :> Mutation("failCheckoutPayment", All("reservations"), {})

NotificationMutations ==
  "useMarkNotificationsRead" :>
     Mutation("markAllRead", {}, {<<"notifications", "mine", "user">>})

StaffAccountMutations ==
  "useCreateStaff" :> Mutation("createStaff", All("users"), {}) @@
  "useRemoveManager" :> Mutation("removeManager", All("users"), {}) @@
  "useUpdateUser" :> Mutation("updateUser", All("users"), {}) @@
  "useUpdateStaffRole" :> Mutation("updateStaffRole", All("users"), {})

BlockMutations ==
  "useBlockUser" :> Mutation("block", All("users"), {}) @@
  "useUnblockUser" :> Mutation("unblock", All("users"), {})

\* Saving a card writes both entries that show it.
ProfileMutations ==
  "useUpdateProfile" :> Mutation("updateProfile", {}, {<<"auth", "me">>}) @@
  "useDeleteOwnAccount" :> Mutation("deleteOwnAccount", {}, {}) @@
  "useChangePassword" :> Mutation("changePassword", {}, {}) @@
  "useSavePaymentMethod" :>
     Mutation("savePaymentMethod", {}, {<<"payment-method">>, <<"auth", "me">>})

PolicyMutations ==
  "useUploadPolicy" :> Mutation("uploadPolicy", All("policies"), {}) @@
  "useDeletePolicy" :> Mutation("deletePolicy", All("policies"), {})

CheckpointMutations ==
  "useCheckIn" :> Mutation("checkIn", {}, {}) @@
  "useCheckOut" :> Mutation("checkOut", {}, {})

MutationHook ==
  LotMutations @@ FloorMutations @@ SlotMutations @@ ReservationMutations @@
  NotificationMutations @@ StaffAccountMutations @@ BlockMutations @@ ProfileMutations @@
  PolicyMutations @@ CheckpointMutations

ReadsOf(q) == Endpoint[QueryHook[q].route].reads
WritesOf(m) == Endpoint[MutationHook[m].route].writes
Invalidates(m, q) == \E k \in MutationHook[m].invalidates : IsPrefix(k, QueryHook[q].key)
Patches(m, q) == QueryHook[q].key \in MutationHook[m].patches
KeyedByUser(q) == Contains(QueryHook[q].key, "user")

\* use-realtime-sync: what a pushed event invalidates.
PushedKeys == {<<"reservations">>, <<"notifications">>}
Pushed(q) == \E k \in PushedKeys : IsPrefix(k, QueryHook[q].key)
=============================================================================
