---------------------------- MODULE ObservationLog ----------------------------
(***************************************************************************)
(* What the transport between the pages and the collector promises, whatever *)
(* posts, retries, reloads and writes it takes: the collector applies what *)
(* each client made once and in the order it was made, and it calls the    *)
(* recording complete only if nothing that a client it knows observed was  *)
(* left behind.                                                            *)
(***************************************************************************)
EXTENDS Integers, Sequences

CONSTANTS
  Client,      \* who reports
  Kind         \* what they report: "observation" and others

VARIABLES
  made,        \* what each client reported, in order
  wasted,      \* clients that had to drop something
  applied,     \* what the collector applied for each client
  verdict      \* "open", "complete" or "partial"

vars == <<made, wasted, applied, verdict>>

Init ==
  /\ made = [c \in Client |-> <<>>]
  /\ wasted = {}
  /\ applied = [c \in Client |-> <<>>]
  /\ verdict = "open"

(* A client reports, drops, or drops and reports that it did.               *)
Make ==
  /\ \E c \in Client, kinds \in {<<k>> : k \in Kind} \cup {<<>>} :
       made' = [made EXCEPT ![c] = @ \o kinds]
  /\ \E dropping \in SUBSET Client : wasted' = wasted \cup dropping
  /\ UNCHANGED <<applied, verdict>>

Apply(c) ==
  /\ Len(applied[c]) < Len(made[c])
  /\ applied' = [applied EXCEPT ![c] = Append(@, made[c][Len(@) + 1])]
  /\ UNCHANGED <<made, wasted, verdict>>

Known == {c \in Client : applied[c] # <<>>}

NothingLeftBehind ==
  \A c \in Known :
    /\ c \notin wasted
    /\ \A n \in DOMAIN made[c] : made[c][n] = "observation" => n <= Len(applied[c])

Conclude ==
  /\ verdict = "open"
  /\ verdict' \in {"complete", "partial"}
  /\ verdict' = "complete" => NothingLeftBehind
  /\ UNCHANGED <<made, wasted, applied>>

Next == Make \/ Conclude \/ \E c \in Client : Apply(c)

Spec == Init /\ [][Next]_vars
=============================================================================
