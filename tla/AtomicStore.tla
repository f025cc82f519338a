---------------------------- MODULE AtomicStore -----------------------------
(***************************************************************************)
(* What ObjectStore promises its callers: an insert takes effect at one    *)
(* instant, an object once visible stays visible, a read answers "missing" *)
(* or with the whole object, and an acknowledged insert outlives a power   *)
(* loss.                                                                   *)
(***************************************************************************)
CONSTANTS Digests, Readers

VARIABLES
  stored,     \* digests whose object is visible
  promised,   \* digests whose insert returned Ok
  answer      \* answer[r]: state of reader r's last read

vars == <<stored, promised, answer>>

Init ==
  /\ stored = {}
  /\ promised = {}
  /\ answer = [r \in Readers |-> "none"]

\* The object appears; the insert may return in the same instant.
Insert(d) ==
  /\ stored' = stored \cup {d}
  /\ promised' \in {promised, promised \cup {d}}
  /\ UNCHANGED answer

\* An insert of a visible object returns.
Acknowledge(d) ==
  /\ d \in stored
  /\ promised' = promised \cup {d}
  /\ UNCHANGED <<stored, answer>>

Lookup(r, d) ==
  /\ answer[r] # "pending"
  /\ answer' = [answer EXCEPT ![r] = IF d \in stored THEN "pending" ELSE "missing"]
  /\ UNCHANGED <<stored, promised>>

Deliver(r) ==
  /\ answer[r] = "pending"
  /\ answer' = [answer EXCEPT ![r] = "whole"]
  /\ UNCHANGED <<stored, promised>>

\* Power loss: objects may go, but none that was promised; reads in progress
\* never answer.
Lose ==
  /\ stored' \in SUBSET stored
  /\ promised \subseteq stored'
  /\ answer' = [r \in Readers |-> IF answer[r] = "pending" THEN "none" ELSE answer[r]]
  /\ UNCHANGED promised

Next ==
  \/ \E d \in Digests : Insert(d) \/ Acknowledge(d)
  \/ \E r \in Readers : Deliver(r) \/ \E d \in Digests : Lookup(r, d)
  \/ Lose

Spec == Init /\ [][Next]_vars
=============================================================================
