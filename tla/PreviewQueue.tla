------------------------------ MODULE PreviewQueue ------------------------------
(***************************************************************************)
(* The pilot intake and the queue of subscription previews made from it.   *)
(* Each operation holds its store's flock from the load to the atomic      *)
(* save, so it is one step.  A preview is named after its pilot request    *)
(* (quote_<request>), so a second review updates the same preview.         *)
(***************************************************************************)
EXTENDS Integers

CONSTANTS Pilots            \* pilot requests

VARIABLES
    pilots,     \* pilot_intake.json: the state of each request
    previews    \* subscription_preview_queue.json

Unrequested == "none"
PilotStates == {Unrequested, "requested", "reviewed"}

\* sub: activated_subscription_id, 0 when there is none; captured stands for
\* checkout_claimed and payment_capture_claimed, fulfilled for fulfillment_claimed
NoPreview == [state |-> "none", drafted |-> FALSE, sub |-> 0,
              captured |-> FALSE, delivered |-> FALSE, fulfilled |-> FALSE]
Preview(Ids) == [state : {"none", "previewed", "reviewed"}, drafted : BOOLEAN, sub : Ids,
                 captured : BOOLEAN, delivered : BOOLEAN, fulfilled : BOOLEAN]

\* the intake's public door is closed (410): requests are those taken before
QueueInit ==
    /\ pilots \in [Pilots -> {"requested", "reviewed"}]
    /\ previews = [p \in Pilots |-> NoPreview]

\* acknowledge_pilot_request: only a fresh request changes state
Acknowledged(p) == [pilots EXCEPT ![p] = IF @ = "requested" THEN "reviewed" ELSE @]

\* queue_subscription_preview: fields the new preview names replace the old ones,
\* the three claims among them; the marks below stay
Quoted(p) ==
    [previews EXCEPT
        ![p].state = IF pilots[p] = "reviewed" THEN "reviewed" ELSE "previewed",
        ![p].captured = FALSE, ![p].fulfilled = FALSE]

Quotable(p) == previews[p].state # "none"

MarkDrafted(p) == [previews EXCEPT ![p].drafted = TRUE]
MarkActivated(p, s, verified) == [previews EXCEPT ![p].sub = s, ![p].captured = verified]
MarkDelivered(p) == [previews EXCEPT ![p].delivered = TRUE, ![p].fulfilled = TRUE]
=============================================================================
