------------------------ MODULE ReservationMonitoring ------------------------
(***************************************************************************)
(* reservation-monitoring.service.ts: the cron that cancels no-shows and   *)
(* decides, when a stay's grace period is over, between an extension and   *)
(* overtime.  A tick works through lists it read earlier; each decision    *)
(* commits in a transaction of its own.  The order of a list is the        *)
(* database's choice.  Reminders are messages only and are left out here.  *)
(***************************************************************************)
EXTENDS ParkingState

\* Mutant: the cutoff itself counts as late.
NoShowsAtCutoff == {r \in Resv : res[r].status = "CONFIRMED" /\ res[r].start <= now - Grace}

\* Mutant: the cutoff is one hour too early.
NoShowsTooLate == {r \in Resv : res[r].status = "CONFIRMED" /\ res[r].start < now - Grace - 1}

\* cancelNoShows: the rows that are late, with the cutoff taken before the query.
NoShows == {r \in Resv : res[r].status = "CONFIRMED" /\ res[r].start < now - Grace}

\* Mutant: the buffer is not waited for.
GraceOverAtEnd(i) == {r \in job[i].todo : now >= job[i].ends[r]}

\* Mutant: the end of the buffer is missed by one.
GraceOverAfterBuffer(i) == {r \in job[i].todo : now > job[i].ends[r] + Buffer}

\* processActiveBookings: the listed cars whose grace period is over, by the clock as
\* it is now and the end times as they were listed.
GraceOver(i) == {r \in job[i].todo : now >= job[i].ends[r] + Buffer}

\* monitor: a tick that finds isRunning set is skipped; otherwise it starts with
\* the list of no-shows.  The cutoff is taken before the query: a row that becomes
\* late in between is left for the next tick.
MonitorStart(i) ==
  /\ job[i] = NotRunning
  /\ job' = [job EXCEPT ![i] = [pc |-> "noShows", todo |-> NoShows]]
  /\ UNCHANGED <<now, res, qr, slot, payment, challan, card, account, lotActive, tx>>

\* cancelNoShows, one listed row: cancelled without looking at its status again.
\* A row that has been deleted makes the update throw, which ends the tick.
CancelNoShow(i, r) ==
  /\ job[i].pc = "noShows"
  /\ r \in job[i].todo
  /\ IF Exists(r)
       THEN /\ CanCancel(r, None)
            /\ CancelRows({r})
            /\ job' = [job EXCEPT ![i] = [pc |-> "noShows", todo |-> job[i].todo \ {r}]]
       ELSE /\ job' = [job EXCEPT ![i] = NotRunning]
            /\ UNCHANGED <<res, qr, slot>>
  /\ UNCHANGED <<now, payment, challan, card, account, lotActive, tx>>

\* The end times of the rows in R; the others' are not kept.
EndsOf(R, ends) == [r \in Resv |-> IF r \in R THEN ends[r] ELSE 0]

\* processActiveBookings, its query: the checked-in rows with the end times they have.
ListActive(i) ==
  LET active == {r \in Resv : res[r].status = "CHECKED_IN"} IN
  /\ job[i].pc = "noShows"
  /\ job[i].todo = {}
  /\ job' = [job EXCEPT ![i] =
       [pc |-> "listed", todo |-> active,
        ends |-> EndsOf(active, [r \in Resv |-> res[r].end])]]
  /\ UNCHANGED <<now, res, qr, slot, payment, challan, card, account, lotActive, tx>>

\* processActiveBookings, after its query: the clock is read.  Rows still inside their
\* grace period get reminders and nothing else.
ReadClock(i) ==
  /\ job[i].pc = "listed"
  /\ job' = [job EXCEPT ![i] =
       [pc |-> "active", todo |-> GraceOver(i), ends |-> EndsOf(GraceOver(i), job[i].ends)]]
  /\ UNCHANGED <<now, res, qr, slot, payment, challan, card, account, lotActive, tx>>

\* resolveGraceExpiry: is a CONFIRMED reservation waiting for the slot?  Only
\* those that start after the end time the list was read with count.
ResolveGraceExpiry(i, r) ==
  /\ job[i].pc = "active"
  /\ r \in job[i].todo
  /\ job' = [job EXCEPT ![i] =
       [pc |-> "resolve", todo |-> job[i].todo \ {r}, ends |-> job[i].ends, cur |-> r,
        queued |-> \E q \in Resv : /\ res[q].status = "CONFIRMED"
                                   /\ res[q].slot = res[r].slot
                                   /\ res[q].start > job[i].ends[r]]]
  /\ UNCHANGED <<now, res, qr, slot, payment, challan, card, account, lotActive, tx>>

\* The challan that makes a decision about (reservation, end time) final.
CycleChallan(i, type) ==
  [resv |-> job[i].cur, type |-> type, forCheckoutAt |-> job[i].ends[job[i].cur]]

\* The tick goes on with the rest of its list.
NextRow(i) ==
  job' = [job EXCEPT ![i] = [pc |-> "active", todo |-> job[i].todo, ends |-> job[i].ends]]

\* markOvertime: nothing if this cycle's challan exists, else challan and status.
MarkOvertime(i) ==
  LET r == job[i].cur
      c == CycleChallan(i, "OVERTIME")
  IN
  /\ job[i].pc = "resolve"
  /\ job[i].queued
  /\ Exists(r)
  /\ ~RowLocked(r, None)
  /\ challan' = challan \cup {c}
  /\ res' = IF c \in challan THEN res ELSE [res EXCEPT ![r].status = "OVERTIME"]
  /\ NextRow(i)
  /\ UNCHANGED <<now, qr, slot, payment, card, account, lotActive, tx>>

\* Mutant: the extension is counted from the clock.
ExtendedFromNow(i) == now + Extension

\* Mutant: the end time is not moved.
NotExtended(i) == job[i].ends[job[i].cur]

\* newEndTime: one extension after the end time the list was read with.
ExtendedEnd(i) == job[i].ends[job[i].cur] + Extension

\* extendBooking: nothing if this cycle's challan exists, else challan and the new
\* end time.
ExtendBooking(i) ==
  LET r == job[i].cur
      c == CycleChallan(i, "EXTENSION")
  IN
  /\ job[i].pc = "resolve"
  /\ ~job[i].queued
  /\ Exists(r)
  /\ ~RowLocked(r, None)
  /\ challan' = challan \cup {c}
  /\ res' = IF c \in challan THEN res
              ELSE [res EXCEPT ![r].end = ExtendedEnd(i)]
  /\ NextRow(i)
  /\ UNCHANGED <<now, qr, slot, payment, card, account, lotActive, tx>>

\* The end of a tick: both lists are done.
MonitorDone(i) ==
  /\ job[i].pc = "active"
  /\ job[i].todo = {}
  /\ job' = [job EXCEPT ![i] = NotRunning]
  /\ UNCHANGED <<now, res, qr, slot, payment, challan, card, account, lotActive, tx>>

\* Mutant: a tick that throws leaves isRunning set.
MonitorFailKeepsGuard(i) ==
  /\ job[i].pc \notin {"idle", "stuck"}
  /\ job' = [job EXCEPT ![i] = [pc |-> "stuck"]]
  /\ UNCHANGED <<now, res, qr, slot, payment, challan, card, account, lotActive, tx>>

\* A statement of the tick throws (a lost connection, a deadlock, the transaction
\* timeout, a row that was deleted) or the process restarts: isRunning is reset
\* and the rest of the tick is lost.
MonitorFail(i) ==
  /\ job[i].pc # "idle"
  /\ job' = [job EXCEPT ![i] = NotRunning]
  /\ UNCHANGED <<now, res, qr, slot, payment, challan, card, account, lotActive, tx>>

=============================================================================
