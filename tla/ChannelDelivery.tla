---------------------------- MODULE ChannelDelivery ----------------------------
(***************************************************************************)
(* Messages leaving the gateway.  A delivery is a Loom record: it is       *)
(* queued, then marked delivered or failed.  The Telegram poller and the   *)
(* heartbeat queue a record, send it themselves and mark it; whatever else *)
(* is queued is sent by the drain thread, which looks every two seconds    *)
(* for records older than one second.  The web handler queues a record,    *)
(* answers over HTTP and marks it, while any other request marks old ones  *)
(* as failed.  Before queueing and before draining, a text that was        *)
(* recently sent to the same chat is suppressed as a duplicate.  Both the  *)
(* drain and the tidying see no more than the newest Limit records, and a  *)
(* record without text or recipient is never drained.                      *)
(* There is one chat; Loom keeps the records, and a duplicate is looked    *)
(* for among all of them, last changed first.                              *)
(***************************************************************************)
EXTENDS Integers, Sequences, FiniteSets

CONSTANTS
    Msgs,           \* inbound Telegram messages
    Texts,          \* answers and notices
    Lasting,        \* morning briefs: duplicates of these are never forgotten
    Casts,          \* which of the threads take part in a behaviour
    Limit,          \* records a listing of the deliveries holds, in each cast (50 in the code)
    MaxDeliveries, MaxFaults, MaxCrashes        \* bounds

ASSUME ChannelAssumption == MaxDeliveries \in Nat /\ MaxFaults \in Nat /\ MaxCrashes \in Nat
ASSUME ListingAssumption == Limit \in [Casts -> Nat] /\ <<"no text", 0>> \notin Texts

NoText == <<"no text", 0>>
Ids == 1 .. MaxDeliveries
Senders == {"poll", "beat"}
Idle == [pc |-> "idle", msg |-> "none", text |-> NoText, d |-> 0]
NoRecord == [chan |-> "none", text |-> NoText, status |-> "none", aged |-> FALSE,
             old |-> FALSE, dup |-> FALSE]

VARIABLES
    cast,       \* the threads of this behaviour
    recs,       \* the delivery records
    order,      \* their ids, last changed first
    hs,         \* the threads that answer: poll, beat, web
    drain,      \* the drain thread: the queued ids it listed, the one it sends
    tidy,       \* the ids a web request listed as stale
    inbox,      \* messages Telegram would hand out again after a restart
    passed,     \* messages below the poller's offset (in memory)
    seen,       \* recent_ingress: messages recorded as seen
    sent,       \* times each delivery reached the chat or the client (history)
    torn,       \* deliveries whose sender was slow, lost its mark or died (history)
    handled,    \* times each message was handed to the team (history)
    lapsed,     \* messages whose seen mark outlived its window (history)
    faults, crashes

chvars == <<cast, recs, order, hs, drain, tidy, inbox, passed, seen, sent, torn, handled,
            lapsed, faults, crashes>>

ChInit ==
    /\ cast \in Casts
    /\ recs = [d \in Ids |-> NoRecord] /\ order = <<>>
    /\ hs = [a \in {"poll", "beat", "web"} |-> Idle]
    /\ drain = [list |-> {}, d |-> 0, pc |-> "idle"] /\ tidy = {}
    /\ inbox = Msgs /\ passed = {} /\ seen = {}
    /\ sent = [d \in Ids |-> 0] /\ torn = {} /\ handled = [m \in Msgs |-> 0] /\ lapsed = {}
    /\ faults = 0 /\ crashes = 0

---------------------------------------------------------------------------
Touched(d) == <<d>> \o SelectSeq(order, LAMBDA e : e # d)
Made == {d \in Ids : recs[d].status # "none"}
Fresh == Cardinality(Made) + 1

\* Mutant: the window applies to every text
Matches_window(x) == {d \in Made : /\ recs[d].chan = "telegram" /\ recs[d].text = x
                                   /\ recs[d].status \in {"queued", "delivered"} /\ ~recs[d].old}
\* the records that make a text a duplicate
Matches(x) == {d \in Made : /\ recs[d].chan = "telegram" /\ recs[d].text = x
                            /\ recs[d].status \in {"queued", "delivered"}
                            /\ ~recs[d].old \/ x \in Lasting}
Known(x) == Matches(x) # {}

\* channel deliveries: the records Loom lists, the newest of every channel and status
Listed == {d \in Made : d > Cardinality(Made) - Limit[cast]}

\* channel send: the record is queued
Queue(chan, x) ==
    /\ Fresh \in Ids
    /\ recs' = [recs EXCEPT ![Fresh] = [NoRecord EXCEPT !.chan = chan, !.text = x,
                                                        !.status = "queued"]]
    /\ order' = <<Fresh>> \o order

\* another program on this host queues a delivery through Loom, perhaps one that lacks
\* its text or its recipient
Foreign ==
    /\ "other" \in cast
    /\ \E x \in Texts \cup {NoText} : Queue("telegram", x)
    /\ UNCHANGED <<cast, hs, drain, tidy, inbox, passed, seen, sent, torn, handled, lapsed, faults,
                   crashes>>

\* channel update: marks the record, or fails and is only logged
Mark(d, status, dup) ==
    \/ d \in Ids /\ recs' = [recs EXCEPT ![d].status = status, ![d].dup = dup]
       /\ order' = Touched(d) /\ UNCHANGED <<torn, faults>>
    \/ d = 0 /\ UNCHANGED <<recs, order, torn, faults>>
    \/ /\ d \in Ids /\ faults < MaxFaults /\ faults' = faults + 1
       /\ torn' = torn \cup {d} /\ UNCHANGED <<recs, order>>

Fault == faults < MaxFaults /\ faults' = faults + 1

---------------------------------------------------------------------------
(***************************************************************************)
(* The poller.  The offset passes a message as soon as it is taken; the    *)
(* server forgets it at the next poll.                                     *)
(***************************************************************************)
\* Mutant: a message is recorded as seen only once it was answered
Receive_late(m) ==
    /\ "poll" \in cast /\ hs["poll"].pc = "idle" /\ m \in inbox \ passed
    /\ passed' = passed \cup {m}
    /\ hs' = [hs EXCEPT !["poll"] = [Idle EXCEPT !.pc = "route", !.msg = m]]
    /\ handled' = [handled EXCEPT ![m] = @ + 1]
    /\ UNCHANGED <<cast, recs, order, drain, tidy, inbox, seen, sent, torn, lapsed, faults, crashes>>
Receive(m) ==
    /\ "poll" \in cast /\ hs["poll"].pc = "idle" /\ m \in inbox \ passed
    /\ passed' = passed \cup {m} /\ seen' = seen \cup {m}
    /\ \/ m \in seen /\ UNCHANGED <<hs, handled>>
       \/ /\ m \notin seen
          /\ hs' = [hs EXCEPT !["poll"] = [Idle EXCEPT !.pc = "route", !.msg = m]]
          /\ handled' = [handled EXCEPT ![m] = @ + 1]
    /\ UNCHANGED <<cast, recs, order, drain, tidy, inbox, sent, torn, lapsed, faults, crashes>>

Poll ==
    /\ "poll" \in cast /\ hs["poll"].pc = "idle" /\ inbox \cap passed # {}
    /\ inbox' = inbox \ passed
    /\ UNCHANGED <<cast, recs, order, hs, drain, tidy, passed, seen, sent, torn, handled, lapsed,
                   faults, crashes>>

\* the team's answer, a heartbeat's notice or the answer of a web request
Answer(a) ==
    /\ a \in cast
    /\ a = "poll" => hs[a].pc = "route"
    /\ a # "poll" => hs[a].pc = "idle"
    /\ \/ \E x \in Texts : hs' = [hs EXCEPT ![a].text = x,
                                            ![a].pc = IF a = "web" THEN "queue" ELSE "check"]
       \/ a = "poll" /\ hs' = [hs EXCEPT ![a] = Idle]      \* an empty answer is not sent
    /\ UNCHANGED <<cast, recs, order, drain, tidy, inbox, passed, seen, sent, torn, handled, lapsed,
                   faults, crashes>>

Check(a) ==
    /\ hs[a].pc = "check"
    /\ hs' = [hs EXCEPT ![a] = IF Known(hs[a].text) THEN Idle ELSE [@ EXCEPT !.pc = "queue"]]
    /\ UNCHANGED <<cast, recs, order, drain, tidy, inbox, passed, seen, sent, torn, handled, lapsed,
                   faults, crashes>>

\* a failed channel send leaves no record, and the message is sent all the same
Enqueue(a) ==
    /\ hs[a].pc = "queue"
    /\ \/ /\ Queue(IF a = "web" THEN "web_api" ELSE "telegram", hs[a].text)
          /\ hs' = [hs EXCEPT ![a].pc = "send", ![a].d = Fresh] /\ UNCHANGED faults
       \/ Fault /\ hs' = [hs EXCEPT ![a].pc = "send"] /\ UNCHANGED <<recs, order>>
    /\ UNCHANGED <<cast, drain, tidy, inbox, passed, seen, sent, torn, handled, lapsed, crashes>>

Reached(d) == IF d \in Ids THEN [sent EXCEPT ![d] = @ + 1] ELSE sent

Send(a) ==
    /\ hs[a].pc = "send"
    /\ \/ sent' = Reached(hs[a].d) /\ hs' = [hs EXCEPT ![a].pc = "told"] /\ UNCHANGED faults
       \/ Fault /\ hs' = [hs EXCEPT ![a].pc = "failed"] /\ UNCHANGED sent
    /\ UNCHANGED <<cast, recs, order, drain, tidy, inbox, passed, seen, torn, handled, lapsed, crashes>>

Finish(a) ==
    /\ hs[a].pc \in {"told", "failed"}
    /\ Mark(hs[a].d, IF hs[a].pc = "told" THEN "delivered" ELSE "failed", FALSE)
    /\ hs' = [hs EXCEPT ![a] = Idle]
    /\ UNCHANGED <<cast, drain, tidy, inbox, passed, seen, sent, handled, lapsed, crashes>>

---------------------------------------------------------------------------
\* _drain_pending_deliveries: the listing is not read again
\* Mutant: a delivery is drained however young
Waiting_young == {d \in Listed : /\ recs[d].chan = "telegram" /\ recs[d].status = "queued"
                                 /\ recs[d].text # NoText}
Waiting == {d \in Listed : /\ recs[d].chan = "telegram" /\ recs[d].status = "queued"
                           /\ recs[d].aged /\ recs[d].text # NoText}

DrainList ==
    /\ drain.pc = "idle" /\ drain.list = {} /\ Waiting # {}
    /\ drain' = [drain EXCEPT !.list = Waiting]
    /\ UNCHANGED <<cast, recs, order, hs, tidy, inbox, passed, seen, sent, torn, handled, lapsed,
                   faults, crashes>>

\* another record, changed later, says the same
Twin(d) ==
    LET found == SelectSeq(order, LAMBDA e : e \in Matches(recs[d].text))
    IN found # <<>> /\ Head(found) # d

\* Mutant: a duplicate is passed over and left queued
DrainNext_skip(d) ==
    /\ drain.pc = "idle" /\ d \in drain.list
    /\ drain' = IF ~Twin(d) THEN [list |-> drain.list \ {d}, d |-> d, pc |-> "send"]
                ELSE [drain EXCEPT !.list = @ \ {d}]
    /\ UNCHANGED <<cast, recs, order, hs, tidy, inbox, passed, seen, sent, torn, handled, lapsed,
                   faults, crashes>>
DrainNext(d) ==
    /\ drain.pc = "idle" /\ d \in drain.list
    /\ \/ /\ ~Twin(d) /\ drain' = [list |-> drain.list \ {d}, d |-> d, pc |-> "send"]
          /\ UNCHANGED <<recs, order, torn, faults>>
       \/ /\ Twin(d) /\ Mark(d, "delivered", TRUE)
          /\ drain' = [drain EXCEPT !.list = @ \ {d}]
    /\ UNCHANGED <<cast, hs, tidy, inbox, passed, seen, sent, handled, lapsed, crashes>>

DrainSend ==
    /\ drain.pc = "send"
    /\ \/ sent' = Reached(drain.d) /\ drain' = [drain EXCEPT !.pc = "told"] /\ UNCHANGED faults
       \/ Fault /\ drain' = [drain EXCEPT !.pc = "failed"] /\ UNCHANGED sent
    /\ UNCHANGED <<cast, recs, order, hs, tidy, inbox, passed, seen, torn, handled, lapsed, crashes>>

\* Mutant: a drained delivery is marked delivered whether or not it was sent
DrainMark_blind ==
    /\ drain.pc \in {"told", "failed"}
    /\ Mark(drain.d, "delivered", FALSE)
    /\ drain' = [drain EXCEPT !.d = 0, !.pc = "idle"]
    /\ UNCHANGED <<cast, hs, tidy, inbox, passed, seen, sent, handled, lapsed, crashes>>
DrainMark ==
    /\ drain.pc \in {"told", "failed"}
    /\ Mark(drain.d, IF drain.pc = "told" THEN "delivered" ELSE "failed", FALSE)
    /\ drain' = [drain EXCEPT !.d = 0, !.pc = "idle"]
    /\ UNCHANGED <<cast, hs, tidy, inbox, passed, seen, sent, handled, lapsed, crashes>>

\* _reconcile_stale_web_deliveries, at the start of every POST
TidyList ==
    /\ "web" \in cast /\ tidy = {}
    /\ tidy' = {d \in Listed : recs[d].chan = "web_api" /\ recs[d].status = "queued" /\ recs[d].aged}
    /\ tidy' # {}
    /\ UNCHANGED <<cast, recs, order, hs, drain, inbox, passed, seen, sent, torn, handled, lapsed,
                   faults, crashes>>
TidyMark(d) ==
    /\ d \in tidy /\ tidy' = tidy \ {d}
    /\ Mark(d, "failed", FALSE)
    /\ UNCHANGED <<cast, hs, drain, inbox, passed, seen, sent, handled, lapsed, crashes>>

---------------------------------------------------------------------------
\* time passes: a queued record becomes old enough to be drained or tidied away,
Held(d) == \E a \in DOMAIN hs : hs[a].d = d
Age(d) ==
    /\ d \in Made /\ recs[d].status = "queued" /\ ~recs[d].aged
    /\ recs' = [recs EXCEPT ![d].aged = TRUE]
    /\ torn' = IF Held(d) THEN torn \cup {d} ELSE torn
    /\ UNCHANGED <<cast, order, hs, drain, tidy, inbox, passed, seen, sent, handled, lapsed, faults,
                   crashes>>
\* a record leaves the window in which it suppresses duplicates,
Forget(d) ==
    /\ d \in Made /\ recs[d].status # "queued" /\ ~recs[d].old
    /\ recs' = [recs EXCEPT ![d].old = TRUE]
    /\ UNCHANGED <<cast, order, hs, drain, tidy, inbox, passed, seen, sent, torn, handled, lapsed,
                   faults, crashes>>
\* a message leaves the window in which it is recognised
Lapse(m) ==
    /\ m \in seen /\ hs["poll"].msg # m /\ crashes > 0
    /\ seen' = seen \ {m} /\ lapsed' = lapsed \cup {m}
    /\ UNCHANGED <<cast, recs, order, hs, drain, tidy, inbox, passed, sent, torn, handled, faults,
                   crashes>>

\* the gateway stops and is started again; Loom keeps its records
Crash ==
    /\ crashes < MaxCrashes /\ crashes' = crashes + 1
    /\ torn' = torn \cup {d \in Ids : Held(d) \/ drain.d = d}
    /\ hs' = [a \in DOMAIN hs |-> Idle]
    /\ drain' = [list |-> {}, d |-> 0, pc |-> "idle"] /\ tidy' = {} /\ passed' = {}
    /\ UNCHANGED <<cast, recs, order, inbox, seen, sent, handled, lapsed, faults>>

ChNext ==
    \/ \E m \in Msgs : Receive(m) \/ Lapse(m)
    \/ Poll \/ Foreign
    \/ \E a \in DOMAIN hs : Answer(a) \/ Check(a) \/ Enqueue(a) \/ Send(a) \/ Finish(a)
    \/ DrainList \/ DrainSend \/ DrainMark \/ TidyList \/ Crash
    \/ \E d \in Ids : DrainNext(d) \/ TidyMark(d) \/ Age(d) \/ Forget(d)

DrainThread == DrainList \/ DrainSend \/ DrainMark \/ (\E d \in Ids : DrainNext(d))

---------------------------------------------------------------------------
(***************************************************************************)
(* Properties                                                              *)
(***************************************************************************)
\* A delivery marked delivered, and not as the duplicate of another, reached the chat
\* or the client; one marked failed did not, unless its sender was slow, lost a mark
\* or died: the marks of the drain, the senders and the tidying never contradict what
\* happened.
MarkedTruly ==
    \A d \in Made :
        /\ recs[d].status = "delivered" /\ ~recs[d].dup => sent[d] > 0
        /\ recs[d].status = "failed" /\ d \notin torn => sent[d] = 0

\* No delivery reaches the chat twice, by the thread that queued it and by the drain,
\* unless the sender was slower than the drain's one second, its mark was lost or it
\* died between sending and marking.
SentOnce == \A d \in Ids : sent[d] > 1 => d \in torn

\* A message Telegram hands out again after a restart is not handled a second time
\* within the window of the seen marks (recent_ingress).
HandledOnce == \A m \in Msgs : handled[m] > 1 => m \in lapsed

\* Every queued message that has a text and a recipient is in the end marked, by its sender
\* or by the drain, whatever was sent, failed or restarted before, unless so many newer
\* records (Limit) were made that the listing no longer shows it.
QueueDrains ==
    \A d \in Ids :
        recs[d].chan = "telegram" /\ recs[d].status = "queued" /\ recs[d].text # NoText
            ~> recs[d].status # "queued" \/ d \notin Listed

=============================================================================
