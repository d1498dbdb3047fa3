-------------------------------- MODULE Pages --------------------------------
(***************************************************************************)
(* The web client's pages: who may open them, what they query, what they   *)
(* let the user do and where they link to.                                 *)
(***************************************************************************)
EXTENDS Queries

\* A page's content for one role: mounted queries, offered mutations, links.
Screen(queries, mutations, links) ==
  [queries |-> queries, mutations |-> mutations, links |-> links]

NoScreen == Screen({}, {}, {})

CustomerDashboard ==
  Screen({"useMyReservations", "useMyNotifications"}, {}, {"nearby", "notifications", "reservation"})
StaffDashboard ==
  Screen({"useParkingLots"}, {}, {"parking-lots", "checkpoint", "parking-lot", "admin/parking-lots/new"})
DashboardPage(role) == IF role = "CUSTOMER" THEN CustomerDashboard ELSE StaffDashboard

CustomerParkingLotsView == Screen({"useParkingLots"}, {}, {"parking-lot"})
StaffParkingLotsView == Screen({"useParkingLots"}, {}, {"parking-lot", "admin/parking-lots/new"})
ParkingLotsPage(role) == IF role \in StaffRole THEN StaffParkingLotsView ELSE CustomerParkingLotsView

ParkingLotDetailPage(role) ==
  IF role \in StaffRole
  THEN Screen({"useParkingLot", "useFloors", "useFloorSlots"},
              {"useBulkUpdateSlotStatus", "useDeleteParkingLot"}, {"admin/parking-lots/edit"})
  ELSE Screen({"useParkingLot", "useFloors", "useFloorSlots"}, {}, {"book"})

\* Staff see nothing and are sent to the lot, but the queries above the
\* check are mounted (the window query is not: it waits for a filled form).
BookingPage(role) ==
  IF role = "CUSTOMER"
  THEN Screen({"useParkingLot", "useFloors", "useFloorSlotsForWindow"},
              {"useCreateReservation"}, {"reservation"})
  ELSE Screen({"useParkingLot", "useFloors"}, {}, {"parking-lot"})

NearbyPage(role) == Screen({"useNearbyParkingLots"}, {}, {"parking-lot"})

MyReservationsPage(role) ==
  Screen({"useMyReservations"}, {"useCancelReservation"}, {"reservation", "parking-lots"})

\* Its two payment buttons wait for PENDING_PAYMENT, which nothing sets.
ReservationDetailPage(role) == Screen({"useReservation"}, {"useCancelReservation"}, {})

AdminReservationsPage(role) ==
  Screen({"useParkingLots", "useReservationsByLot"}, {"useCancelReservation"}, {"reservation"})

CheckpointPage(role) == Screen({}, {"useCheckIn", "useCheckOut"}, {})

AdminUsersPage(role) == Screen({"useAdminUsers"}, {"useBlockUser", "useUnblockUser"}, {})

EditStaffDialog == {"useUpdateUser", "useUpdateStaffRole"}
AdminManagersPage(role) ==
  Screen({"useAdminUsers"}, {"useBlockUser", "useUnblockUser", "useRemoveManager"} \cup EditStaffDialog,
         {"admin/managers/new"})
NewManagerPage(role) == Screen({}, {"useCreateStaff"}, {})

UploadPolicyDialog == {"useUploadPolicy"}
AdminPoliciesPage(role) ==
  Screen({"useAdminPolicies"}, {"useDeletePolicy"} \cup UploadPolicyDialog, {})

\* The list of managers to choose from is queried for every role, the choice
\* is shown to administrators.
NewParkingLotPage(role) == Screen({"useAdminUsers"}, {"useCreateParkingLot"}, {})

AddFloorDialog == {"useCreateFloor"}
EditFloorDialog == {"useUpdateFloor"}
EditParkingLotPage(role) ==
  Screen({"useParkingLot", "useFloors", "useAdminUsers"},
         {"useUpdateParkingLot", "useDeleteFloor"} \cup AddFloorDialog \cup EditFloorDialog, {})

EditProfileDialog == {"useUpdateProfile"}
ChangePasswordDialog == {"useChangePassword"}
\* Customers get a second tab with their card.
BillingTab == Screen({"usePaymentMethod"}, {"useSavePaymentMethod"}, {})
ProfilePage(role) ==
  Screen(IF role = "CUSTOMER" THEN BillingTab.queries ELSE {},
         {"useDeleteOwnAccount"} \cup EditProfileDialog \cup ChangePasswordDialog \cup
           (IF role = "CUSTOMER" THEN BillingTab.mutations ELSE {}), {})

NotificationsPage(role) == Screen({"useMyNotifications"}, {"useMarkNotificationsRead"}, {})

CompleteProfilePage(role) == Screen({}, {"useSavePaymentMethod"}, {})

UnauthorizedPage(role) == Screen({}, {}, {"dashboard"})

\* The public pages; registering goes on to a step that asks for a card, at the same
\* address.
PaymentStep == "register-payment"
LoginPage == Screen({}, {}, {"register"})
RegisterPage(payment) ==
  IF payment THEN Screen({}, {"useSavePaymentMethod"}, {}) ELSE Screen({}, {}, {"login"})

ContentOf(page, role) ==
  CASE page = "dashboard" -> DashboardPage(role)
    [] page = "parking-lots" -> ParkingLotsPage(role)
    [] page = "parking-lot" -> ParkingLotDetailPage(role)
    [] page = "book" -> BookingPage(role)
    [] page = "nearby" -> NearbyPage(role)
    [] page = "reservations" -> MyReservationsPage(role)
    [] page = "reservation" -> ReservationDetailPage(role)
    [] page = "admin/reservations" -> AdminReservationsPage(role)
    [] page = "checkpoint" -> CheckpointPage(role)
    [] page = "admin/users" -> AdminUsersPage(role)
    [] page = "admin/managers" -> AdminManagersPage(role)
    [] page = "admin/managers/new" -> NewManagerPage(role)
    [] page = "admin/policies" -> AdminPoliciesPage(role)
    [] page = "admin/parking-lots/new" -> NewParkingLotPage(role)
    [] page = "admin/parking-lots/edit" -> EditParkingLotPage(role)
    [] page = "profile" -> ProfilePage(role)
    [] page = "notifications" -> NotificationsPage(role)
    [] page = "complete-profile" -> CompleteProfilePage(role)
    [] page = "unauthorized" -> UnauthorizedPage(role)
    [] OTHER -> NoScreen

\* The route of every page, ids as "id".
Path ==
  "dashboard" :> <<"dashboard">> @@ "parking-lots" :> <<"parking-lots">> @@
  "parking-lot" :> <<"parking-lots", "id">> @@ "book" :> <<"parking-lots", "id", "book">> @@
  "nearby" :> <<"nearby">> @@ "reservations" :> <<"reservations">> @@
  "reservation" :> <<"reservations", "id">> @@ "checkpoint" :> <<"checkpoint">> @@
  "profile" :> <<"profile">> @@ "notifications" :> <<"notifications">> @@
  "admin/reservations" :> <<"admin", "reservations">> @@ "admin/users" :> <<"admin", "users">> @@
  "admin/managers" :> <<"admin", "managers">> @@
  "admin/managers/new" :> <<"admin", "managers", "new">> @@
  "admin/policies" :> <<"admin", "policies">> @@
  "admin/parking-lots/new" :> <<"admin", "parking-lots", "new">> @@
  "admin/parking-lots/edit" :> <<"admin", "parking-lots", "id", "edit">> @@
  "complete-profile" :> <<"complete-profile">> @@ "unauthorized" :> <<"unauthorized">> @@
  "login" :> <<"login">> @@ "register" :> <<"register">>
Page == DOMAIN Path
NotFound == "not-found"
PageAt(path) == IF \E p \in Page : Path[p] = path
                THEN CHOOSE p \in Page : Path[p] = path ELSE NotFound

\* NAV_ITEMS: the sidebar's and the bottom bar's links with their roles.
NavItems ==
  "dashboard" :> Role @@ "nearby" :> {"CUSTOMER"} @@ "parking-lots" :> Role @@
  "reservations" :> {"CUSTOMER"} @@ "admin/reservations" :> StaffRole @@
  "checkpoint" :> StaffRole @@ "admin/users" :> {"ADMIN"} @@ "admin/managers" :> {"ADMIN"} @@
  "admin/policies" :> {"ADMIN"} @@ "profile" :> Role
VisibleNavItems(role) == {page \in DOMAIN NavItems : role \in NavItems[page]}

\* The breadcrumbs link every proper prefix of the path, one of them remapped.
ResolveHref(path, i) ==
  IF i = 3 /\ SubSeq(path, 1, 3) = <<"admin", "parking-lots", "id">>
  THEN <<"parking-lots", "id">> ELSE SubSeq(path, 1, i)
Breadcrumbs(page) == {PageAt(ResolveHref(Path[page], i)) : i \in 1..Len(Path[page]) - 1}

\* Around every page of the shell: the bell with its query, the top bar and
\* the navigation.
NotificationBell == Screen({"useMyNotifications"}, {"useMarkNotificationsRead"}, {"notifications"})
Topbar(page) == Screen({}, {}, {"profile"} \cup Breadcrumbs(page))
Shell(page, role) ==
  Screen(NotificationBell.queries, NotificationBell.mutations,
         NotificationBell.links \cup Topbar(page).links \cup VisibleNavItems(role))

\* Pages outside the full shell.
PublicPages == {"login", "register"}
Onboarding == "complete-profile"
ShellPages == Page \ (PublicPages \cup {Onboarding, "unauthorized"})

Under(prefixes, page) == \E prefix \in prefixes : IsPrefix(prefix, Path[page])
STAFF_ONLY_PREFIXES == {<<"admin">>, <<"checkpoint">>}
ADMIN_ONLY_PREFIXES == {<<"admin", "users">>}
CUSTOMER_ONLY_PREFIXES == {<<"nearby">>}

\* Mutant: only the public pages are looked at without a token.
LetVisitorsPass(page, who) ==
  IF who = Visitor THEN page
  ELSE IF page \in PublicPages THEN "dashboard"
  ELSE IF \/ Under(ADMIN_ONLY_PREFIXES, page) /\ who # "ADMIN"
          \/ Under(STAFF_ONLY_PREFIXES, page) /\ who = "CUSTOMER"
          \/ Under(CUSTOMER_ONLY_PREFIXES, page) /\ who # "CUSTOMER"
       THEN "unauthorized" ELSE page

\* middleware: the page a request for a page is answered with.
Middleware(page, who) ==
  IF page \in PublicPages THEN (IF who = Visitor THEN page ELSE "dashboard")
  ELSE IF who = Visitor THEN "login"
  ELSE IF \/ Under(ADMIN_ONLY_PREFIXES, page) /\ who # "ADMIN"
          \/ Under(STAFF_ONLY_PREFIXES, page) /\ who = "CUSTOMER"
          \/ Under(CUSTOMER_ONLY_PREFIXES, page) /\ who # "CUSTOMER"
       THEN "unauthorized" ELSE page

\* The same as functions.
Screens == [role \in Role |-> [page \in Page |-> ContentOf(page, role)]]
Shells == [role \in Role |-> [page \in ShellPages |-> Shell(page, role)]]
Answers == [who \in Role \cup {Visitor} |-> [page \in Page |-> Middleware(page, who)]]

\* Where a page goes when its mutation has succeeded.
Follows(page, mutation) ==
  CASE mutation = "useCreateParkingLot" -> "parking-lot"
    [] mutation \in {"useUpdateParkingLot", "useDeleteParkingLot"} -> "parking-lots"
    [] mutation = "useCreateStaff" -> "admin/managers"
    [] OTHER -> page

\* The pages that the code names are there, each role may see where it is sent, and
\* links lead to pages, but for those of breadcrumbs.  (No parameter occurs in this:
\* it is evaluated.)
ASSUME PagesAssumption ==
  /\ {"login", "register", "dashboard", "parking-lots", "parking-lot", "book",
      "admin/managers", "unauthorized", Onboarding} \subseteq Page
  /\ NotFound \notin Page /\ PaymentStep \notin Page \cup {NotFound}
  /\ \A role \in Role : Answers[role]["dashboard"] = "dashboard"
  /\ \A role \in StaffRole : Answers[role]["parking-lot"] = "parking-lot"
  /\ \A role \in Role :
       /\ \A page \in Page : Screens[role][page].links \subseteq Page
       /\ \A page \in ShellPages : Shells[role][page].links \subseteq Page \cup {NotFound}
=============================================================================
