----------------------------- MODULE QueryCache ------------------------------
(***************************************************************************)
(* One entry of the client's query cache, as the code relies on the query  *)
(* library to keep it: the data last received, the request in flight, and  *)
(* what invalidating or patching does to both.  Instead of values, an      *)
(* entry remembers which writes its data does not show yet, by author.     *)
(***************************************************************************)
EXTENDS FiniteSets

\* data:    something was received
\* lacks:   the authors of writes made since the data was read
\* invalid: marked for refetching
\* fetch:   the request in flight: none, on its way, or answered
\* answer:  the authors of writes made since the answer was read
Empty == [data |-> FALSE, lacks |-> {}, invalid |-> FALSE, fetch |-> "idle", answer |-> {}]

EntryOf(authors) ==
  [data : BOOLEAN, lacks : SUBSET authors, invalid : BOOLEAN,
   fetch : {"idle", "sent", "answered"}, answer : SUBSET authors]

Fetching(e) == [e EXCEPT !.fetch = "sent", !.answer = {}]
Answered(e) == [e EXCEPT !.fetch = "answered"]
Failed(e) == [e EXCEPT !.fetch = "idle", !.answer = {}]

\* The answer replaces the data and clears the mark, however old it is.
Landed(e) == [Empty EXCEPT !.data = TRUE, !.lacks = e.answer]

\* A write on the server, by an author.
Written(e, author) ==
  [e EXCEPT !.lacks = IF e.data THEN @ \cup {author} ELSE @,
            !.answer = IF e.fetch = "answered" THEN @ \cup {author} ELSE @]

\* A write counts from here on as another author's.
Renamed(authors, old, new) ==
  IF old \in authors THEN (authors \ {old}) \cup {new} ELSE authors

\* invalidateQueries: mark the entry and refetch it when it is mounted.  A
\* request in flight is cancelled and restarted over existing data only;
\* a first load goes on, and so does the request of an unmounted query.
Invalidated(e, mounted) ==
  IF mounted /\ (e.data \/ e.fetch = "idle")
  THEN Fetching([e EXCEPT !.invalid = e.data])
  ELSE [e EXCEPT !.invalid = e.data]

\* setQueryData with the mutation's result: a request in flight goes on.  A result that
\* does not build on the data creates the entry.
Patched(e, author, creates) ==
  [e EXCEPT !.data = @ \/ creates, !.lacks = @ \ {author}, !.invalid = FALSE]
=============================================================================
