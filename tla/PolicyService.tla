---------------------------- MODULE PolicyService -----------------------------
(***************************************************************************)
(* policy.service.ts: documents administrators upload.  A document and its *)
(* chunks are one row here: they are written by one transaction and leave  *)
(* by a cascade.                                                           *)
(***************************************************************************)
EXTENDS AdminState

\* upload: the text is parsed, cut and embedded before anything is written.
UploadBegin(p, t) ==
  /\ t \in token /\ t.role = "ADMIN"
  /\ Begin(p, [op |-> "upload", by |-> t.sub])
  /\ UNCHANGED <<user, token, lot, floor, slots, booked, doc>>

UploadCommit(p, d) ==
  LET w == req[p] IN
  /\ w.op = "upload"
  /\ doc[d] = NoDoc
  /\ LiveUser(w.by)
  /\ doc' = [doc EXCEPT ![d] = [state |-> "LIVE", uploader |-> w.by]]
  /\ End(p)
  /\ UNCHANGED <<user, token, lot, floor, slots, booked>>

\* remove: the second of two statements; the first only looks the row up.
RemoveDocument(t, d) ==
  /\ t \in token /\ t.role = "ADMIN"
  /\ doc[d].state = "LIVE"
  /\ doc' = [doc EXCEPT ![d] = [NoDoc EXCEPT !.state = "DELETED"]]
  /\ UNCHANGED <<user, token, lot, floor, slots, booked, req, ops>>
===============================================================================
