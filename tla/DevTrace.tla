------------------------------- MODULE DevTrace -------------------------------
(***************************************************************************)
(* The wire format of an external trace: what the store accepts            *)
(* (traceEvents, src/dev-artifacts.ts) and what the replay engine accepts  *)
(* (validateTrace, src/dev-runtime.ts).  Both read the events once, left   *)
(* to right, keeping the last call's number and the calls still pending.   *)
(* An event is a record with at least a kind and an id; every kind other   *)
(* than "call" settles the call of its id.                                 *)
(***************************************************************************)
EXTENDS Integers, Sequences

(* The reader's state before the first event, and its state once it failed. *)
Fresh == [ok |-> TRUE, previousId |-> -1, pending |-> {}]
Rejected == [ok |-> FALSE, previousId |-> -1, pending |-> {}]

(* One event: numbered tells whether its number may follow previousId. *)
ReadEvent(reader, event, numbered) ==
  IF event.kind = "call"
  THEN IF ~numbered THEN Rejected
       ELSE [reader EXCEPT !.previousId = event.id, !.pending = @ \cup {event.id}]
  ELSE IF event.id \notin reader.pending THEN Rejected
       ELSE [reader EXCEPT !.pending = @ \ {event.id}]

(* The store wants the calls numbered 0, 1, 2, ... without a gap. *)
StoreReader(trace) ==
  LET read[n \in 0 .. Len(trace)] ==
        IF n = 0 THEN Fresh
        ELSE LET r == read[n - 1]
             IN  IF ~r.ok THEN Rejected
                 ELSE ReadEvent(r, trace[n], trace[n].id = r.previousId + 1)
  IN  read[Len(trace)]

(* The replay engine only wants the numbers of the calls to increase. *)
ReplayReader(trace) ==
  LET read[n \in 0 .. Len(trace)] ==
        IF n = 0 THEN Fresh
        ELSE LET r == read[n - 1]
             IN  IF ~r.ok THEN Rejected
                 ELSE ReadEvent(r, trace[n], trace[n].id > r.previousId)
  IN  read[Len(trace)]

TraceEvents(trace) == StoreReader(trace).ok /\ StoreReader(trace).pending = {}
ValidTrace(trace) == ReplayReader(trace).ok /\ ReplayReader(trace).pending = {}
=============================================================================
