------------------------------- MODULE Client --------------------------------
(***************************************************************************)
(* One browser tab of the web client: its session, its page, one of its    *)
(* cached queries (any one of them, as the queries do not touch each       *)
(* other) and its mutation, next to other clients of the same backend and  *)
(* to another tab that shares the cookie.                                  *)
(***************************************************************************)
EXTENDS Pages, AssistantTools, QueryCache, Naturals

CONSTANTS Account,    \* accounts that people of this browser have
          Others,     \* the author of every write that is not this tab's
          None,
          \* Bounds for every query to follow: on writes, on the accounts that
          \* appear, and on what happens elsewhere (see Elsewhere).
          MaxWrites, MaxAccounts, MaxChanges

\* A row of an account, the token a cookie holds, and what an answer tells of an account.
Row == [role : Role, card : BOOLEAN]
Token == [owner : Account, claim : Role, valid : BOOLEAN]
Self == [owner : Account, role : Role, card : BOOLEAN]
Requested == [hook : DOMAIN MutationHook, shown : BOOLEAN, self : Self \cup {None}]

\* AuthProvider's query is apart; all others can be watched.
ASSUME ClientAssumption ==
  /\ Others \notin DOMAIN MutationHook
  /\ None \notin Requested \cup Row \cup Token \cup Self
  /\ DOMAIN MaxWrites \subseteq DOMAIN QueryHook \ {Me}
  /\ \A q \in DOMAIN MaxWrites :
       MaxWrites[q] \in Nat /\ MaxAccounts[q] \in Nat /\ MaxChanges[q] \in Nat

VARIABLES watched,    \* the query this behaviour follows
          account,    \* the accounts that have appeared: role, and whether a card is on file
          cookie,     \* spms_token, which the tabs of the browser share
          changes,    \* made elsewhere
          page,
          served,     \* whom the middleware answered the page for
          asks,       \* /users/me: a token was there when the tab was loaded
          me,         \* its answer in flight
          user,       \* its cached answer: the account that the tab shows
          crossed,    \* since its load the tab has acted for another account than it shows
          entry,      \* the watched query's cache entry
          mutation,   \* carried out, its answer in flight
          event,      \* a reservation:updated event is on its way
          writes
session == <<account, cookie, asks, me, user, crossed>>
vars == <<watched, session, changes, page, served, entry, mutation, event, writes>>

\* Whom the middleware and the guards take a request for: they read the token alone.
Bearer(token) == IF token # None /\ token.valid THEN token.claim ELSE Visitor
Who == Bearer(cookie)

\* Mutant: only the dashboard sends customers without a card away.
GateDashboard == user # None /\ user.role = "CUSTOMER" /\ ~user.card /\ page = "dashboard"

NeedsBilling == user # None /\ user.role = "CUSTOMER" /\ ~user.card /\ page # Onboarding

\* What the tab renders: a skeleton until the account is known, and while a
\* customer without a card is sent to the onboarding page.
InShell == page \in ShellPages /\ user # None /\ ~NeedsBilling
Content ==
  CASE page = "login" -> LoginPage
    [] page \in {"register", PaymentStep} -> RegisterPage(page = PaymentStep)
    [] page \in Page \ PublicPages /\ user # None /\ ~(NeedsBilling /\ page \in ShellPages)
         -> Screens[user.role][page]
    [] OTHER -> NoScreen
Surround == IF InShell THEN Shells[user.role][page] ELSE NoScreen
Mounted == Content.queries \cup Surround.queries
Offered == Content.mutations \cup Surround.mutations
Links == Content.links \cup Surround.links

TypeOK ==
  /\ watched \in DOMAIN MaxWrites /\ account \in [Account -> Row \cup {None}]
  /\ cookie \in Token \cup {None} /\ asks \in BOOLEAN /\ crossed \in BOOLEAN
  /\ me \in Self \cup {None} /\ user \in Self \cup {None}
  /\ page \in Page \cup {NotFound, PaymentStep} /\ served \in Role \cup {Visitor}
  /\ entry \in EntryOf(DOMAIN MutationHook \cup {Others})
  /\ entry # Empty => user # None
  /\ mutation \in Requested \cup {None}
  /\ event \in BOOLEAN
  /\ changes \in 0..MaxChanges[watched] /\ writes \in 0..MaxWrites[watched]

\* Accounts appear when they are first signed in; customers may have a card then.
NewRow == {r \in Row : r.card => r.role = "CUSTOMER"}
Room == Cardinality({a \in Account : account[a] # None}) < MaxAccounts[watched]
Appears(a) ==
  \/ account[a] # None /\ UNCHANGED account
  \/ account[a] = None /\ Room /\ \E r \in NewRow : account' = [account EXCEPT ![a] = r]
TokenOf(a, row) == [owner |-> a, claim |-> row.role, valid |-> TRUE]

\* Mutant: the middleware's matcher leaves the pages out.
OpenedUnmatched(p, who) == IF p \in Page THEN p ELSE NotFound

\* Where a request for an address leads.  Those without a page are under /admin.
Opened(p, who) ==
  CASE p \in Page -> Answers[who][p]
    [] p \notin Page /\ who = Visitor -> "login"
    [] p \notin Page /\ who = "CUSTOMER" -> "unauthorized"
    [] OTHER -> NotFound

\* A tab opened at any address, with whatever cookie the browser has.
Init ==
  /\ watched \in DOMAIN MaxWrites
  /\ \/ cookie = None /\ account = [a \in Account |-> None]
     \/ \E a \in Account, r \in NewRow, valid \in BOOLEAN :
          /\ account = [b \in Account |-> IF b = a THEN r ELSE None]
          /\ cookie = [TokenOf(a, r) EXCEPT !.valid = valid]
  /\ served = Who /\ \E p \in Page : page = Answers[Who][p]
  /\ asks = (cookie # None)
  /\ me = None /\ user = None /\ crossed = FALSE
  /\ entry = Empty /\ mutation = None /\ event = FALSE /\ changes = 0 /\ writes = 0

\* Mutant: the session is forgotten and the router moves on; the cache stays.
RouterPush(p, token) ==
  /\ cookie' = token
  /\ page' = Opened(p, Bearer(token)) /\ served' = Bearer(token)
  /\ asks' = (token # None)
  /\ me' = None /\ user' = None /\ crossed' = FALSE
  /\ mutation' = None /\ UNCHANGED entry

\* A full load of a page: a new script context with an empty cache.
Load(p, token) ==
  /\ cookie' = token
  /\ page' = Opened(p, Bearer(token)) /\ served' = Bearer(token)
  /\ asks' = (token # None)
  /\ me' = None /\ user' = None /\ crossed' = FALSE
  /\ entry' = Empty /\ mutation' = None

\* Mutant: a 401 forgets the token and no more.
ForgetToken(otherwise) ==
  cookie' = None /\ UNCHANGED <<asks, me, user, crossed, page, served>> /\ otherwise

\* The response interceptor on a 401: the cookie goes, and so does the tab
\* unless it is on the sign-in page, where only the caller learns of it.
Unauthorized(otherwise) ==
  IF page # "login" THEN Load("login", None)
  ELSE cookie' = None /\ UNCHANGED <<asks, me, user, crossed, page, served>> /\ otherwise

\* A mutation goes on when its page is left, but the page's own continuation
\* does not run any more.
Left(p) == IF mutation # None /\ p # page THEN [mutation EXCEPT !.shown = FALSE] ELSE mutation

\* Typing an address is opening another tab, as in Init.
Reload ==
  /\ Load(IF page = PaymentStep THEN "register" ELSE page, cookie)
  /\ UNCHANGED <<watched, changes, account, event, writes>>

\* The router asks for the page; an address without one is loaded.
Navigate(p) ==
  /\ p \in Links
  /\ IF Opened(p, Who) = NotFound THEN Load(NotFound, cookie)
     ELSE /\ page' = Opened(p, Who) /\ served' = Who
          /\ mutation' = Left(page')
          /\ UNCHANGED <<cookie, asks, me, user, crossed, entry>>
  /\ UNCHANGED <<watched, changes, account, event, writes>>

\* The effects of AppShell and of the booking page.
Redirect ==
  /\ \/ NeedsBilling /\ page \in ShellPages /\ page' = Opened(Onboarding, Who)
     \/ /\ user # None /\ page = "book" /\ user.role \in StaffRole
        /\ page' = Opened("parking-lot", Who)
  /\ served' = Who
  /\ mutation' = Left(page')
  /\ UNCHANGED <<watched, changes, session, entry, event, writes>>

-----------------------------------------------------------------------------
\* Session

\* The hook moves on whether or not its page is still shown.
Login(a) ==
  /\ page \in PublicPages
  /\ Appears(a)
  /\ Load("dashboard", TokenOf(a, account'[a]))
  /\ UNCHANGED <<watched, changes, event, writes>>

\* A key that names the user is another one for another user.
Rekeyed(self) == user # None /\ self.owner # user.owner /\ KeyedByUser(watched)

\* The cache keeps what it holds, and the page, unless it has been left for the
\* sign-in page, goes on to ask for the new account's card.
Register(a) ==
  /\ page \in PublicPages /\ account[a] = None /\ Room
  /\ account' = [account EXCEPT ![a] = [role |-> "CUSTOMER", card |-> FALSE]]
  /\ cookie' = TokenOf(a, account'[a]) /\ asks' = TRUE /\ me' = None
  /\ user' = [owner |-> a, role |-> "CUSTOMER", card |-> FALSE]
  /\ crossed' = (crossed \/ mutation # None)
  /\ entry' = IF Rekeyed(user') THEN Empty ELSE entry
  /\ page' = IF page = "register" THEN PaymentStep ELSE page
  /\ mutation' = Left(page')
  /\ UNCHANGED <<watched, changes, served, event, writes>>

Logout ==
  /\ InShell \/ (page = "unauthorized" /\ cookie # None)
  /\ Load("login", None)
  /\ UNCHANGED <<watched, changes, account, event, writes>>

\* What the backend tells the bearer of a token of its account: not what the token says.
Profile(a) == [owner |-> a, role |-> account[a].role, card |-> account[a].card]

\* What happens to the session, its accounts or the network and is not this tab's doing.
Elsewhere == changes < MaxChanges[watched] /\ changes' = changes + 1

\* /users/me, when the tab has been loaded and when a connection comes back later.
BootAnswered ==
  /\ asks /\ me = None
  /\ IF user = None THEN UNCHANGED changes ELSE Elsewhere
  /\ IF Who = Visitor
     THEN IF page # "login" THEN Load("login", None)
          ELSE /\ cookie' = None /\ asks' = (user # None)
               /\ UNCHANGED <<me, user, crossed, page, served, entry, mutation>>
     ELSE /\ me' = Profile(cookie.owner)
          /\ UNCHANGED <<cookie, asks, user, crossed, page, served, entry, mutation>>
  /\ UNCHANGED <<watched, account, event, writes>>

\* The tab shows whom the answer names, whoever it was signed in as before.
ProfileLands ==
  /\ me # None
  /\ user' = me /\ me' = None
  /\ crossed' = (crossed \/ (mutation # None /\ me.owner # user.owner))
  /\ entry' = IF Rekeyed(me) THEN Empty ELSE entry
  /\ UNCHANGED <<watched, changes, account, cookie, asks, page, served, mutation,
                 event, writes>>

\* The query has retry: false: one lost answer leaves the skeleton, or what was known.
BootFails ==
  /\ me # None
  /\ me' = None
  /\ UNCHANGED <<watched, changes, account, cookie, asks, user, crossed, page, served, entry,
                 mutation, event, writes>>

\* The token's time runs out, or another tab of the browser signs out, or signs in or
\* registers any account: this tab goes on showing the one it knows.
SessionChanges ==
  /\ Elsewhere
  /\ \/ Who # Visitor /\ cookie' = [cookie EXCEPT !.valid = FALSE] /\ UNCHANGED account
     \/ cookie # None /\ cookie' = None /\ UNCHANGED account
     \/ \E a \in Account : Appears(a) /\ cookie' = TokenOf(a, account'[a])
  /\ UNCHANGED <<watched, asks, me, user, crossed, page, served, entry, mutation,
                 event, writes>>

\* An administrator changes an account's role, or its owner saves a card elsewhere.
\* The tokens that are out stay as they are.
AccountChanges(a) ==
  /\ account[a] # None /\ Elsewhere
  /\ account' \in IF account[a].role \in StaffRole
                  THEN {[account EXCEPT ![a].role = r] : r \in StaffRole \ {account[a].role}}
                  ELSE {[account EXCEPT ![a].card = TRUE]}
  /\ UNCHANGED <<watched, cookie, asks, me, user, crossed, page, served, entry, mutation,
                 event, writes>>

-----------------------------------------------------------------------------
\* The watched query

\* Mutant: nothing is asked for twice.
FetchOnce ==
  /\ watched \in Mounted /\ entry.fetch = "idle" /\ ~entry.data
  /\ entry' = Fetching(entry)
  /\ UNCHANGED <<watched, changes, session, page, served, mutation, event, writes>>

\* On mounting, polling, reconnecting or at the press of a retry button.
BeginFetch ==
  /\ watched \in Mounted /\ entry.fetch = "idle"
  /\ entry' = Fetching(entry)
  /\ UNCHANGED <<watched, changes, session, page, served, mutation, event, writes>>

\* The backend reads the data, or refuses: 401 signs the tab out.
AnswerFetch ==
  /\ entry.fetch = "sent"
  /\ IF Who = Visitor THEN Unauthorized(entry' = Failed(entry) /\ UNCHANGED mutation)
     ELSE /\ entry' = IF Permitted(QueryHook[watched].route, Who)
                      THEN Answered(entry) ELSE Failed(entry)
          /\ UNCHANGED <<session, page, served, mutation>>
  /\ UNCHANGED <<watched, changes, account, event, writes>>

LandFetch ==
  /\ entry.fetch = "answered"
  /\ entry' = Landed(entry)
  /\ UNCHANGED <<watched, changes, session, page, served, mutation, event, writes>>

LoseFetch ==
  /\ entry.fetch # "idle"
  /\ entry' = Failed(entry)
  /\ UNCHANGED <<watched, changes, session, page, served, mutation, event, writes>>

\* Unmounted data is dropped after a while.
Collect ==
  /\ watched \notin Mounted /\ entry.data /\ entry.fetch = "idle"
  /\ entry' = Empty
  /\ UNCHANGED <<watched, changes, session, page, served, mutation, event, writes>>

-----------------------------------------------------------------------------
\* Mutations and the writes of others

\* The mutations that matter to this behaviour: those that write or refresh
\* what the watched query shows, and those that need or change the account.
\* (The others happen and leave every variable but page as it is, which they
\* change to a page the user can reach as well.)
Concerning ==
  [q \in DOMAIN QueryHook |->
     {m \in DOMAIN MutationHook : \/ WritesOf(m) \cap ReadsOf(q) # {}
                                  \/ Invalidates(m, q) \/ Patches(m, q)}
       \cup {"useCreateReservation", "useSavePaymentMethod", "useUpdateProfile",
             "useDeleteOwnAccount"}]

\* A form or a button, disabled while its mutation is pending: the backend
\* carries the request out for the cookie's account, or refuses it for want of
\* a token.  Until then the client has done nothing but wait, and a refusal by
\* a rule, by the role or by the network leaves it as it was, so neither is a
\* step of its own.
Mutate(m) ==
  /\ m \in Offered \cap Concerning[watched] /\ mutation = None
  /\ IF Who = Visitor
     THEN Unauthorized(UNCHANGED <<entry, mutation>>) /\ UNCHANGED <<account, writes>>
     ELSE /\ Permitted(MutationHook[m].route, Who)
          /\ writes < MaxWrites[watched]
          /\ writes' = writes + 1
          /\ mutation' = [hook |-> m, shown |-> TRUE,
                          self |-> IF m = "useUpdateProfile"
                                   THEN Profile(cookie.owner) ELSE None]
          /\ account' = IF m = "useSavePaymentMethod"
                        THEN [account EXCEPT ![cookie.owner].card = TRUE] ELSE account
          /\ crossed' = (crossed \/ cookie.owner # user.owner)
          /\ entry' = IF WritesOf(m) \cap ReadsOf(watched) # {}
                      THEN Written(entry, m) ELSE entry
          /\ UNCHANGED <<cookie, asks, me, user, page, served>>
  /\ UNCHANGED <<watched, changes, event>>

\* The answer is lost, which looks like a refusal.
LoseMutation ==
  /\ mutation # None
  /\ mutation' = None
  /\ entry' = [entry EXCEPT !.lacks = Renamed(@, mutation.hook, Others),
                            !.answer = Renamed(@, mutation.hook, Others)]
  /\ UNCHANGED <<watched, changes, session, page, served, event, writes>>

\* A card's entry is created by the answer; the bell's is only changed by it.
Creates(m) == m = "useSavePaymentMethod"

\* Mutant: the effect is given to mutate() and is gone with its page.
EntryAfterIfShown(m) ==
  IF ~mutation.shown THEN entry
  ELSE IF Invalidates(m, watched) THEN Invalidated(entry, watched \in Mounted)
  ELSE IF Patches(m, watched) THEN Patched(entry, m, Creates(m)) ELSE entry

\* onSuccess: the hook's effect on the watched entry, and on the account that is shown,
\* whichever that is by now.
EntryAfter(m) ==
  IF Invalidates(m, watched) THEN Invalidated(entry, watched \in Mounted)
  ELSE IF Patches(m, watched) THEN Patched(entry, m, Creates(m)) ELSE entry
UserAfter(m) ==
  CASE m = "useSavePaymentMethod" -> [user EXCEPT !.card = TRUE]
    [] m = "useUpdateProfile" -> mutation.self
    [] OTHER -> user

\* Of an answer read before the mutation and still in flight after it nobody
\* expects the mutation any more; see OwnWritesShow.
Excused(e, m) == [e EXCEPT !.answer = Renamed(@, m, Others)]

\* ... and the page's own continuation, when it is still shown.
SettleMutation ==
  /\ mutation # None
  /\ LET m == mutation.hook IN
     IF mutation.shown /\ m = "useDeleteOwnAccount" THEN Load("login", None)
     ELSE IF mutation.shown /\ m = "useSavePaymentMethod" /\ page \in {Onboarding, PaymentStep}
     THEN Load("dashboard", cookie)
     ELSE /\ user' = UserAfter(m)
          /\ entry' = IF Rekeyed(user') THEN Empty ELSE Excused(EntryAfter(m), m)
          /\ IF mutation.shown /\ Follows(page, m) # page
             THEN page' = Opened(Follows(page, m), Who) /\ served' = Who
             ELSE UNCHANGED <<page, served>>
          /\ mutation' = None
          /\ UNCHANGED <<cookie, asks, me, crossed>>
  /\ UNCHANGED <<watched, changes, account, event, writes>>

OthersWrite ==
  /\ writes < MaxWrites[watched]
  /\ writes' = writes + 1
  /\ entry' = Written(entry, Others)
  /\ event' \in {event, "reservation" \in ReadsOf(watched)}
  /\ UNCHANGED <<watched, changes, session, page, served, mutation>>

\* The socket delivers the event, or the connection is down and it is lost.
Push ==
  /\ event /\ event' = FALSE
  /\ entry' \in {entry, IF Pushed(watched) /\ user # None /\ page \in ShellPages \cup {Onboarding}
                        THEN Invalidated(entry, watched \in Mounted) ELSE entry}
  /\ UNCHANGED <<watched, changes, session, page, served, mutation, writes>>

Next ==
  \/ Reload
  \/ \E p \in Links : Navigate(p)
  \/ Redirect \/ Logout \/ BootAnswered \/ ProfileLands \/ BootFails \/ SessionChanges
  \/ \E a \in Account : Login(a) \/ Register(a) \/ AccountChanges(a)
  \/ BeginFetch \/ AnswerFetch \/ LandFetch \/ LoseFetch \/ Collect
  \/ \E m \in Offered : Mutate(m)
  \/ LoseMutation \/ SettleMutation
  \/ OthersWrite \/ Push

Spec == Init /\ [][Next]_vars

\* A mounted polled query is asked for again and again, effects run, and a
\* backend that keeps answering is heard of in the end, however often an
\* answer is lost.
Poll == QueryHook[watched].polled /\ BeginFetch
Fairness ==
  WF_vars(Poll) /\ WF_vars(Redirect) /\ SF_vars(AnswerFetch) /\ SF_vars(LandFetch)

-----------------------------------------------------------------------------
\* Properties

\* What a page shows a role is what the middleware and the backend's guards
\* let that role have, for queries, for buttons and forms, and for links; so
\* is what the assistant, whose panel is in the shell, offers to do for it.
\* Four places are known where they disagree: the lot forms ask for all
\* accounts whoever opens them, three pages for administrators only are open
\* to managers who type their address, and the breadcrumbs of admin pages
\* lead to addresses without a page.
LotForms == {"admin/parking-lots/new", "admin/parking-lots/edit"}
OpenToManagers == {"admin/managers", "admin/managers/new", "admin/policies"}

ContentIsPermitted(queries, mutations, links, r, p) ==
  /\ \A q \in queries : \/ Permitted(QueryHook[q].route, r)
                        \/ r = "MANAGER" /\ p \in LotForms /\ q = "useAdminUsers"
                        \/ r = "MANAGER" /\ p \in OpenToManagers
  /\ \A m \in mutations : \/ Permitted(MutationHook[m].route, r)
                          \/ r = "MANAGER" /\ p \in OpenToManagers
  /\ \A l \in links : IF l = NotFound THEN Under({<<"admin">>}, p) ELSE Answers[r][l] = l
OfferedIsPermitted ==
  InShell /\ served = user.role =>
    ContentIsPermitted(Mounted, Offered, Links, user.role, page) /\ ToolsArePermitted(user.role)

\* So it is for every role on every page that the middleware lets it see.  (No
\* parameter occurs in this: it is evaluated.)
ASSUME ScreensAssumption ==
  \A r \in Role :
    /\ ToolsArePermitted(r)
    /\ \A p \in ShellPages :
         Answers[r][p] = p =>
           LET content == Screens[r][p] around == Shells[r][p]
           IN  ContentIsPermitted(content.queries \cup around.queries,
                                  content.mutations \cup around.mutations,
                                  content.links \cup around.links, r, p)

\* Why it holds in a tab: a page inside the shell is one that the middleware lets the
\* role see that it was answered for.
RouteInv == page \in ShellPages => Answers[served][page] = page

\* As long as this tab has acted for the account it shows, nobody books before a card
\* is known to the backend: the checkout charges it without asking (app-shell.tsx).
BookersHaveCards ==
  ~crossed /\ mutation # None /\ mutation.hook = "useCreateReservation" => account[user.owner].card

\* Once a mutation of this tab has succeeded, no idle query of the same
\* feature shows data from before it as up to date.  Known exceptions: the
\* hooks that leave a neighbouring entry alone, and an answer that was read
\* before the mutation and was not called off (Excused).
Settled(m) == mutation = None \/ mutation.hook # m
Feature(hook) ==
  CASE hook \in DOMAIN ParkingLotsQueries \cup DOMAIN LotMutations \cup DOMAIN FloorMutations -> 1
    [] hook \in DOMAIN ParkingSlotsQueries \cup DOMAIN SlotMutations -> 2
    [] hook \in DOMAIN ReservationsQueries \cup DOMAIN ReservationMutations -> 3
    [] hook \in DOMAIN NotificationsQueries \cup DOMAIN NotificationMutations -> 4
    [] hook \in DOMAIN UsersQueries \cup DOMAIN StaffAccountMutations \cup
         DOMAIN BlockMutations \cup DOMAIN ProfileMutations -> 5
    [] hook \in DOMAIN PoliciesQueries \cup DOMAIN PolicyMutations -> 6
    [] OTHER -> 7
LeavesAlone ==
  ({"useUpdateFloor"} \X {"useParkingLots", "useParkingLot", "useNearbyParkingLots"})
    \cup {<<"useUpdateProfile", "useAdminUsers">>}
    \cup ({"useDeleteOwnAccount"} \X {"useAdminUsers", "usePaymentMethod"})
OwnWritesShow ==
  entry.data /\ entry.fetch = "idle" /\ ~entry.invalid =>
    \A m \in entry.lacks \ {Others} :
      Settled(m) /\ Feature(m) = Feature(watched) => <<m, watched>> \in LeavesAlone

\* Data that a mutation made stale is refreshed by the mutation's hook, or is left
\* alone; and no other hook's answer is taken for a refresh of it.  (No parameter
\* occurs in this: it is evaluated.)
Touches(m, q) == WritesOf(m) \cap ReadsOf(q) # {}
MayLinger(m, q) == Feature(m) = Feature(q) => <<m, q>> \in LeavesAlone
ASSUME HooksAssumption ==
  /\ {"useCreateReservation", "useSavePaymentMethod", "useUpdateProfile", "useDeleteOwnAccount"}
       \subseteq DOMAIN MutationHook
  /\ \A q \in DOMAIN QueryHook, m \in DOMAIN MutationHook :
       Touches(m, q) /\ ~MayLinger(m, q) =>
         /\ Invalidates(m, q) \/ Patches(m, q)
         /\ \A n \in DOMAIN MutationHook \ {m} : ~Patches(n, q)

\* Why nobody books without a card: only a tab that knows an account has a mutation,
\* which is that account's, and what answers tell of an account is true.
TrueOf(self) == self # None => account[self.owner] # None /\ (self.card => account[self.owner].card)
SessionInv ==
  /\ page = PaymentStep => user # None
  /\ cookie # None => account[cookie.owner] # None
  /\ TrueOf(me)
  /\ mutation # None =>
       /\ user # None /\ TrueOf(mutation.self)
       /\ mutation.hook = "useUpdateProfile" => mutation.self # None
  /\ ~crossed =>
       /\ TrueOf(user)
       /\ mutation # None =>
            /\ mutation.self # None => mutation.self.owner = user.owner
            /\ mutation.hook \in {"useCreateReservation", "useSavePaymentMethod"} =>
                 account[user.owner].card

\* Why own writes show: of the writes of this tab, an answer in flight can lack only
\* the one under way, and data that lacks another one is marked or left alone.
CacheInv ==
  /\ ~entry.data => entry.lacks = {} /\ ~entry.invalid
  /\ entry.fetch # "answered" => entry.answer = {}
  /\ \A m \in entry.answer \ {Others} : Touches(m, watched) /\ ~Settled(m)
  /\ \A m \in entry.lacks \ {Others} :
       Touches(m, watched) /\ (entry.invalid \/ ~Settled(m) \/ MayLinger(m, watched))

\* A tab inside the shell whose session has ended, here, by its expiry or in
\* another tab, ends up on the sign-in page by itself: the bell keeps asking.
SessionEnded == watched = Bell /\ InShell /\ Who = Visitor
SignedOutTabsLeave == SessionEnded ~> (Who # Visitor \/ ~InShell)

\* A polled query that stays on screen comes to show everything there is,
\* whatever answers, events and mutations crossed each other before.
Behind == QueryHook[watched].polled /\ watched \in Mounted /\ entry.lacks # {}
PolledDataCatchesUp ==
  Behind ~> (entry.lacks = {} \/ watched \notin Mounted \/ Who = Visitor)
=============================================================================
