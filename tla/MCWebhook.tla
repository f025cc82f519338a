----------------------------- MODULE MCWebhook ------------------------------
(* Values of the constants of Webhook for the runs. *)
EXTENDS Webhook, TLC

CONSTANTS x1, x2, x3, x4, x5, i1, i2, i3

\* One delivery that triggers, a forgery that carries its id, one that triggers
\* without an id, one no pipeline is mapped to, a malformed one.  The three ids
\* of verified deliveries exceed the capacity.
MixedId == x1 :> i1 @@ x2 :> i1 @@ x3 :> NoId @@ x4 :> i2 @@ x5 :> i3
MixedSignature == [x \in Deliveries |-> IF x = x2 THEN "invalid" ELSE "valid"]
MixedEvent == x1 :> "trigger" @@ x2 :> "trigger" @@ x3 :> "trigger" @@ x4 :> "unmapped"
              @@ x5 :> "malformed"
=============================================================================
