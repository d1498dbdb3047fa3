---------------------------- MODULE AccountService ----------------------------
(***************************************************************************)
(* auth.service.ts and the account operations of users.service.ts.  The    *)
(* guards read the caller's role from the token, not from the User row.    *)
(* Names and passwords are left out: no other operation reads them.        *)
(***************************************************************************)
EXTENDS AdminState

\* register: the email is checked, the password is hashed, the row is inserted.
RegisterBegin(p, e) ==
  /\ EmailFree(e, None)
  /\ Begin(p, [op |-> "register", email |-> e])
  /\ UNCHANGED <<user, token, lot, floor, slots, booked, doc>>

\* Mutant: the early check is trusted; no key stands behind it.
RegisterCommitUnchecked(p, x) ==
  LET w == req[p] IN
  /\ w.op = "register"
  /\ user[x] = NoUser
  /\ user' = [user EXCEPT ![x] = [role |-> "CUSTOMER", email |-> w.email, blocked |-> FALSE]]
  /\ token' = token \cup {[sub |-> x, role |-> "CUSTOMER"]}
  /\ End(p)
  /\ UNCHANGED <<lot, floor, slots, booked, doc>>

RegisterCommit(p, x) ==
  LET w == req[p] IN
  /\ w.op = "register"
  /\ user[x] = NoUser
  /\ EmailFree(w.email, x)
  /\ user' = [user EXCEPT ![x] = [role |-> "CUSTOMER", email |-> w.email, blocked |-> FALSE]]
  /\ token' = token \cup {[sub |-> x, role |-> "CUSTOMER"]}
  /\ End(p)
  /\ UNCHANGED <<lot, floor, slots, booked, doc>>

\* login: the row is read once; comparing the password takes a while, and then
\* the token repeats the row as it was read.
LoginBegin(p, x) ==
  /\ req[p] = Idle
  /\ LiveUser(x)
  /\ ~user[x].blocked
  /\ req' = [req EXCEPT ![p] = [op |-> "login", token |-> [sub |-> x, role |-> user[x].role]]]
  /\ UNCHANGED <<user, token, lot, floor, slots, booked, doc, ops>>

LoginEnd(p) ==
  /\ req[p].op = "login"
  /\ token' = token \cup {req[p].token}
  /\ End(p)
  /\ UNCHANGED <<user, lot, floor, slots, booked, doc>>

\* A token's lifetime ends; nothing else revokes it.
Expire(t) ==
  /\ t \in token
  /\ token' = token \ {t}
  /\ UNCHANGED <<user, lot, floor, slots, booked, doc, req, ops>>

CreateStaffBegin(p, t, e, role) ==
  /\ t \in token /\ t.role = "ADMIN"
  /\ EmailFree(e, None)
  /\ Begin(p, [op |-> "createStaff", email |-> e, role |-> role])
  /\ UNCHANGED <<user, token, lot, floor, slots, booked, doc>>

CreateStaffCommit(p, x) ==
  LET w == req[p] IN
  /\ w.op = "createStaff"
  /\ user[x] = NoUser
  /\ EmailFree(w.email, x)
  /\ user' = [user EXCEPT ![x] = [role |-> w.role, email |-> w.email, blocked |-> FALSE]]
  /\ End(p)
  /\ UNCHANGED <<token, lot, floor, slots, booked, doc>>

\* updateProfile with a new email: not for managers, by the role in the token.
UpdateProfileBegin(p, t, e) ==
  /\ t \in token /\ t.role # "MANAGER"
  /\ EmailFree(e, t.sub)
  /\ Begin(p, [op |-> "updateProfile", target |-> t.sub, email |-> e])
  /\ UNCHANGED <<user, token, lot, floor, slots, booked, doc>>

\* adminUpdateProfile: the same writes for any account.
AdminUpdateProfileBegin(p, t, x, e) ==
  /\ t \in token /\ t.role = "ADMIN"
  /\ LiveUser(x)
  /\ EmailFree(e, x)
  /\ Begin(p, [op |-> "updateProfile", target |-> x, email |-> e])
  /\ UNCHANGED <<user, token, lot, floor, slots, booked, doc>>

UpdateProfileCommit(p) ==
  LET w == req[p] IN
  /\ w.op = "updateProfile"
  /\ LiveUser(w.target)
  /\ EmailFree(w.email, w.target)
  /\ user' = [user EXCEPT ![w.target].email = w.email]
  /\ End(p)
  /\ UNCHANGED <<token, lot, floor, slots, booked, doc>>

\* block and unblock; what block does to reservations is in UsersService.
SetBlocked(t, x, b) ==
  /\ t \in token /\ t.role = "ADMIN"
  /\ b => x # t.sub
  /\ LiveUser(x)
  /\ user' = [user EXCEPT ![x].blocked = b]
  /\ UNCHANGED <<token, lot, floor, slots, booked, doc, req, ops>>

\* Mutant: the target's own role is not looked at.
UpdateRoleAnyTarget(p, t, x, role) ==
  /\ t \in token /\ t.role = "ADMIN"
  /\ x # t.sub
  /\ LiveUser(x)
  /\ Begin(p, [op |-> "updateRole", by |-> t.sub, target |-> x, role |-> role])
  /\ UNCHANGED <<user, token, lot, floor, slots, booked, doc>>

UpdateRoleBegin(p, t, x, role) ==
  /\ t \in token /\ t.role = "ADMIN"
  /\ x # t.sub
  /\ user[x].role \in Staff
  /\ Begin(p, [op |-> "updateRole", by |-> t.sub, target |-> x, role |-> role])
  /\ UNCHANGED <<user, token, lot, floor, slots, booked, doc>>

UpdateRoleCommit(p) ==
  LET w == req[p] IN
  /\ w.op = "updateRole"
  /\ LiveUser(w.target)
  /\ user' = [user EXCEPT ![w.target].role = w.role]
  /\ End(p)
  /\ UNCHANGED <<token, lot, floor, slots, booked, doc>>

\* The row goes away with the reservations of a customer.
DeleteUser(x, freed) ==
  /\ LiveUser(x)
  /\ Unreferenced(x)
  /\ user' = [user EXCEPT ![x] = [NoUser EXCEPT !.role = "DELETED"]]
  /\ booked' = booked \ freed

\* Mutant: any account but an administrator's.
RemoveAnyButAdmin(p, t, x) ==
  /\ t \in token /\ t.role = "ADMIN"
  /\ user[x].role \in Role \ {"ADMIN"}
  /\ Begin(p, [op |-> "removeManager", target |-> x])
  /\ UNCHANGED <<user, token, lot, floor, slots, booked, doc>>

RemoveManagerBegin(p, t, x) ==
  /\ t \in token /\ t.role = "ADMIN"
  /\ user[x].role = "MANAGER"
  /\ Begin(p, [op |-> "removeManager", target |-> x])
  /\ UNCHANGED <<user, token, lot, floor, slots, booked, doc>>

RemoveManagerCommit(p) ==
  /\ req[p].op = "removeManager"
  /\ DeleteUser(req[p].target, {})
  /\ End(p)
  /\ UNCHANGED <<token, lot, floor, slots, doc>>

\* removeSelf, one statement.
RemoveSelf(t, freed) ==
  /\ t \in token
  /\ t.role # "CUSTOMER" => freed = {}
  /\ DeleteUser(t.sub, freed)
  /\ UNCHANGED <<token, lot, floor, slots, doc, req, ops>>
===============================================================================
