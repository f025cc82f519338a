------------------------------ MODULE Webhook -------------------------------
(***************************************************************************)
(* The webhook handler of jet-server's HTTP listener: verify, reject       *)
(* replays with the DeliveryGuard, parse, dispatch.  Handlers run in       *)
(* parallel; providers and proxies deliver anything any number of times.   *)
(*                                                                         *)
(* A delivery is what is resent byte for byte.  What its signature and its *)
(* payload amount to is a constant of the delivery.                        *)
(***************************************************************************)
EXTENDS Naturals, FiniteSets, Functions

CONSTANTS
  Deliveries,
  Handlers,      \* requests being served at the same time
  Ids,           \* delivery ids
  NoId,          \* header absent, empty or longer than 200 bytes
  Id,            \* Id[x]: x's delivery id
  Signature,     \* Signature[x]: what the body limit, the route and verify make of x
  Event,         \* Event[x]: what parse and dispatch make of x
  Capacity,      \* DeliveryGuard.capacity
  TTL,           \* DeliveryGuard.ttl
  MaxTime,       \* bound: the clock
  MaxRuns,       \* bound: runs of one delivery are counted up to here
  MaxRestarts    \* bound: restarts of the server

Signatures == {"valid", "invalid", "nosecret", "noprovider", "toolarge"}
Events == {"trigger", "ignored", "unmapped", "malformed"}
Times == 0 .. MaxTime

ASSUME DeliveryAssumption ==
  /\ NoId \notin Ids /\ Deliveries # {}
  /\ Id \in [Deliveries -> Ids \cup {NoId}]
  /\ Signature \in [Deliveries -> Signatures]
  /\ Event \in [Deliveries -> Events]
ASSUME BoundAssumption ==
  /\ Capacity \in Nat \ {0}
  /\ TTL \in Nat /\ MaxTime \in Nat /\ MaxRuns \in Nat /\ MaxRestarts \in Nat

VARIABLES
  now,           \* the monotonic clock
  seen,          \* DeliveryGuard.seen
  hpc, what,     \* handlers: control point and delivery
  reading,       \* the clock as the handler read it
  runs,          \* runs[x]: runs queued for delivery x
  acked,         \* deliveries answered with success
  restarts,
  lastFresh,     \* history: reading of an id's last Fresh verdict,
  later          \* and the ids found Fresh after that or with no older reading

handlerVars == <<hpc, what, reading>>
vars == <<now, seen, hpc, what, reading, runs, acked, restarts, lastFresh, later>>

historyVars == <<lastFresh, later>>

Remembered == DOMAIN seen
\* The responses that tell the sender not to send again.
Good == {"accepted", "ignored", "duplicate"}

\* What an idle handler's local holds.
Unused == CHOOSE x \in Deliveries : TRUE

TypeOK ==
  /\ now \in Times
  /\ Remembered \subseteq Ids
  /\ seen \in [Remembered -> Times]
  /\ hpc \in [Handlers -> {"idle", "check", "parse"}]
  /\ what \in [Handlers -> Deliveries]
  /\ reading \in [Handlers -> Times]
  /\ runs \in [Deliveries -> 0 .. MaxRuns]
  /\ acked \subseteq Deliveries
  /\ restarts \in 0 .. MaxRestarts
  /\ DOMAIN lastFresh \subseteq Ids
  /\ lastFresh \in [DOMAIN lastFresh -> Times]
  /\ later \in [DOMAIN lastFresh -> SUBSET Ids]

Init ==
  /\ now = 0
  /\ seen = << >>
  /\ hpc = [h \in Handlers |-> "idle"]
  /\ what = [h \in Handlers |-> Unused]
  /\ reading = [h \in Handlers |-> 0]
  /\ runs = [x \in Deliveries |-> 0]
  /\ acked = {}
  /\ restarts = 0
  /\ lastFresh = << >>
  /\ later = << >>

-----------------------------------------------------------------------------

Goto(h, to) ==
  /\ hpc' = [hpc EXCEPT ![h] = to]
  /\ UNCHANGED acked

\* The handler returns: its locals are gone.
Respond(h, x, answer) ==
  /\ hpc' = [hpc EXCEPT ![h] = "idle"]
  /\ what' = [what EXCEPT ![h] = Unused]
  /\ reading' = [reading EXCEPT ![h] = 0]
  /\ acked' = IF answer \in Good THEN acked \cup {x} ELSE acked

Refusal == [toolarge |-> "toolarge", noprovider |-> "notfound", invalid |-> "rejected",
            nosecret |-> "error"]

\* Mutant of Receive: a delivery without an id is taken for a duplicate.
ReceiveStrict(h, x) ==
  /\ hpc[h] = "idle"
  /\ \/ Signature[x] # "valid" /\ Respond(h, x, Refusal[Signature[x]])
     \/ Signature[x] = "valid" /\ Id[x] = NoId /\ Respond(h, x, "duplicate")
     \/ /\ Signature[x] = "valid" /\ Id[x] # NoId
        /\ what' = [what EXCEPT ![h] = x]
        /\ Goto(h, "check") /\ reading' = [reading EXCEPT ![h] = now]
  /\ UNCHANGED <<now, seen, runs, restarts, historyVars>>

\* Take the body up to its limit, route to the provider, verify the signature
\* over the raw body, and enter DeliveryGuard::check up to its lock: no usable id
\* is Unidentified, which proceeds; otherwise the clock is read before the map is
\* locked.
Receive(h, x) ==
  /\ hpc[h] = "idle"
  /\ \/ Signature[x] # "valid" /\ Respond(h, x, Refusal[Signature[x]])
     \/ /\ Signature[x] = "valid"
        /\ what' = [what EXCEPT ![h] = x]
        /\ \/ Id[x] = NoId /\ Goto(h, "parse") /\ UNCHANGED reading
           \/ Id[x] # NoId /\ Goto(h, "check") /\ reading' = [reading EXCEPT ![h] = now]
  /\ UNCHANGED <<now, seen, runs, restarts, historyVars>>

\* now.duration_since(at) < ttl, which saturates at zero.
Live(at, t) == t < at + TTL

\* Expired entries are dropped when the map is more than half full.
Retained(t) ==
  IF Cardinality(Remembered) > Capacity \div 2
  THEN {i \in Remembered : Live(seen[i], t)}
  ELSE Remembered

\* Mutant of Evictions: the cap is off by one.
EvictionsLate(kept) ==
  IF Cardinality(kept) > Capacity
  THEN {{o} : o \in {i \in kept : \A j \in kept : seen[i] <= seen[j]}}
  ELSE {{}}

\* Mutant of Evictions: the newest entry goes.
EvictionsNewest(kept) ==
  IF Cardinality(kept) >= Capacity
  THEN {{o} : o \in {i \in kept : \A j \in kept : seen[i] >= seen[j]}}
  ELSE {{}}

\* At the cap an oldest entry makes room; the hash map decides between equals.
Evictions(kept) ==
  IF Cardinality(kept) >= Capacity
  THEN {{o} : o \in {i \in kept : \A j \in kept : seen[i] <= seen[j]}}
  ELSE {{}}

NoteFresh(i, t) ==
  /\ lastFresh' = [j \in DOMAIN lastFresh \cup {i} |-> IF j = i THEN t ELSE lastFresh[j]]
  /\ later' = [j \in DOMAIN lastFresh' |->
       IF j = i THEN {k \in DOMAIN lastFresh \ {i} : lastFresh[k] >= t}
                ELSE later[j] \cup {i}]

\* The rest of DeliveryGuard::check, under the lock: duplicate check and insert
\* are one step.
CheckDelivery(h) ==
  /\ hpc[h] = "check"
  /\ LET i == Id[what[h]]
         t == reading[h]
         kept == Retained(t) IN
       \/ /\ i \in kept /\ Live(seen[i], t)
          /\ seen' = Restrict(seen, kept)
          /\ Respond(h, what[h], "duplicate")
          /\ UNCHANGED historyVars
       \/ /\ ~(i \in kept /\ Live(seen[i], t))
          /\ \E out \in Evictions(kept) :
               seen' = [j \in (kept \ out) \cup {i} |-> IF j = i THEN t ELSE seen[j]]
          /\ Goto(h, "parse")
          /\ reading' = [reading EXCEPT ![h] = 0]
          /\ NoteFresh(i, t)
          /\ UNCHANGED what
  /\ UNCHANGED <<now, runs, restarts>>

\* parse, then dispatch: a malformed payload is the sender's error; what does
\* not trigger and what no pipeline is mapped to is acknowledged; the rest
\* queues a run.  enqueue has no other error, so dispatch's last branch is dead.
Dispatch(h) ==
  /\ hpc[h] = "parse"
  /\ \/ /\ Event[what[h]] = "malformed"
        /\ Respond(h, what[h], "bad")
        /\ UNCHANGED runs
     \/ /\ Event[what[h]] \in {"ignored", "unmapped"}
        /\ Respond(h, what[h], "ignored")
        /\ UNCHANGED runs
     \/ /\ Event[what[h]] = "trigger"
        /\ runs' = [runs EXCEPT ![what[h]] = IF @ < MaxRuns THEN @ + 1 ELSE @]
        /\ Respond(h, what[h], "accepted")
  /\ UNCHANGED <<now, seen, restarts, historyVars>>

-----------------------------------------------------------------------------
(* The environment *)

Tick ==
  /\ now < MaxTime
  /\ now' = now + 1
  /\ UNCHANGED <<seen, handlerVars, runs, acked, restarts, historyVars>>

\* The server stops and starts: requests in progress are lost, and so is the
\* guard, which lives in memory.
Restart ==
  /\ restarts < MaxRestarts
  /\ restarts' = restarts + 1
  /\ seen' = << >>
  /\ hpc' = [h \in Handlers |-> "idle"]
  /\ what' = [h \in Handlers |-> Unused]
  /\ reading' = [h \in Handlers |-> 0]
  /\ lastFresh' = << >> /\ later' = << >>
  /\ UNCHANGED <<now, runs, acked>>

Handle(h) == CheckDelivery(h) \/ Dispatch(h)

Next ==
  \/ \E h \in Handlers : Handle(h) \/ \E x \in Deliveries : Receive(h, x)
  \/ Tick
  \/ Restart

Spec == Init /\ [][Next]_vars

\* A provider resends until it is answered with success.
Resend(x) == x \notin acked /\ \E h \in Handlers : Receive(h, x)

Genuine == {x \in Deliveries : Signature[x] = "valid"}

\* Handlers are polled to their end, providers retry.
FairSpec ==
  /\ Spec
  /\ \A h \in Handlers : WF_vars(Handle(h))
  /\ \A x \in Genuine : SF_vars(Resend(x))

-----------------------------------------------------------------------------
(* Properties *)

\* The guard never holds more than its capacity (dedupe.rs:31, "hard cap").
BoundedMemory == Cardinality(Remembered) <= Capacity

\* An id is Fresh again only after its TTL, or after capacity many other ids
\* came after it and pushed it out, although handlers that read the clock in
\* one order may take the lock in another.
ReplayWindow ==
  [][\A h \in Handlers :
       LET i == Id[what[h]] IN
         hpc[h] = "check" /\ hpc'[h] = "parse" /\ i \in DOMAIN lastFresh =>
           ~Live(lastFresh[i], now) \/ Cardinality(later[i]) >= Capacity]_vars

\* While the server stays up, a verified delivery of a triggering event for a
\* mapped repository gets its run, whatever copies, forgeries and other
\* deliveries come in between.
GenuineDeliveryRuns ==
  [](restarts = 0) =>
    \A x \in Genuine : Event[x] = "trigger" => <>(runs[x] > 0)
=============================================================================
