--------------------------------- MODULE Alerting ---------------------------------
(***************************************************************************)
(* SLO alerts.  Every status request evaluates the objectives and compares *)
(* each with its row in the alert state; a change becomes an event, and an *)
(* active one is queued until it is resolved.  An operator's dispatch      *)
(* acknowledges what is queued (no caller hands a hook on).  Everything is *)
(* written to a JSON-lines file and to SQLite, whose errors are swallowed: *)
(* a read that fails finds nothing, a query that fails reads the file, and *)
(* a write that fails is gone from the tables.                             *)
(***************************************************************************)
EXTENDS Naturals, Sequences, FiniteSets

CONSTANTS Watchers,             \* threads that evaluate or dispatch
          Objectives, QueueLimit,
          MaxEvents, MaxShifts, MaxDbFaults     \* bounds
ASSUME AlertingAssumption == QueueLimit \in Nat

ACTIVE_STATUSES == {"warning", "breached"}
Statuses == {"healthy", "unknown"} \cup ACTIVE_STATUSES
NoState == [status |-> "none", event |-> 0]

VARIABLES
    metrics,        \* the status each objective would be given now
    events,         \* the file's events, in order
    inDb,           \* those of them in the table
    state,          \* the state row of each objective
    acks,           \* how often an event was acknowledged, in the file and in the table
    watch,          \* threads
    shifts, faults

alvars == <<metrics, events, inDb, state, acks, watch, shifts, faults>>
Watching == [at |-> "idle", seen |-> [o \in Objectives |-> "none"], todo |-> {}, o |-> "none",
             was |-> NoState, event |-> 0, queue |-> {}]

AlInit ==
    /\ metrics = [o \in Objectives |-> "healthy"]
    /\ events = <<>> /\ inDb = {} /\ state = [o \in Objectives |-> NoState]
    /\ acks = <<>>
    /\ watch = [w \in Watchers |-> Watching] /\ shifts = 0 /\ faults = 0

Active(status) == status \in ACTIVE_STATUSES
To(w, r) == watch' = [watch EXCEPT ![w] = r]
\* an access of the database that fails or does not
Fault == faults < MaxDbFaults /\ faults' = faults + 1
Fine == faults' = faults

---------------------------------------------------------------------------
\* evaluate_observability: all objectives at once
Evaluate(w) ==
    /\ watch[w].at = "idle" /\ Len(events) < MaxEvents
    /\ To(w, [Watching EXCEPT !.at = "pick", !.seen = metrics, !.todo = Objectives])
    /\ UNCHANGED <<metrics, events, inDb, state, acks, shifts, faults>>
Pick(w) ==
    LET r == watch[w] IN
    /\ r.at = "pick"
    /\ \/ r.todo = {} /\ To(w, Watching)
       \/ \E o \in r.todo : To(w, [r EXCEPT !.at = "read", !.o = o, !.todo = @ \ {o}])
    /\ UNCHANGED <<metrics, events, inDb, state, acks, shifts, faults>>

\* a change of status is an event, and so is a first status, but only an active one
Changed(was, status) ==
    /\ was.status # status
    /\ was # NoState \/ Active(status)
\* _load_current_state
Read(w) ==
    LET r == watch[w]
        with(was) == To(w, [r EXCEPT !.was = was, !.event = was.event,
                                     !.at = IF Changed(was, r.seen[r.o]) THEN "event" ELSE "state"])
    IN /\ r.at = "read"
       /\ \/ Fine /\ with(state[r.o])
          \/ Fault /\ with(NoState)
       /\ UNCHANGED <<metrics, events, inDb, state, acks, shifts>>
Write(w) ==
    LET r == watch[w] IN
    /\ r.at = "event" /\ Len(events) < 2 * MaxEvents
    /\ events' = Append(events, [o |-> r.o, status |-> r.seen[r.o]])
    /\ acks' = Append(acks, [file |-> 0, table |-> 0])
    /\ \/ Fine /\ inDb' = inDb \cup {Len(events')}
       \/ Fault /\ UNCHANGED inDb
    /\ To(w, [r EXCEPT !.event = Len(events'), !.at = "state"])
    /\ UNCHANGED <<metrics, state, shifts>>

\* Mutant: the state row of a steady objective names no event
Row_fresh(r) == [status |-> r.seen[r.o],
                 event |-> IF Changed(r.was, r.seen[r.o]) THEN r.event ELSE 0]
Row(r) == [status |-> r.seen[r.o], event |-> r.event]
\* upsert_slo_alert_state; what is noted of the delivery, without a hook, is left out
Upsert(w) ==
    LET r == watch[w] IN
    /\ r.at = "state"
    /\ \/ Fine /\ state' = [state EXCEPT ![r.o] = Row(r)]
       \/ Fault /\ UNCHANGED state
    /\ To(w, [r EXCEPT !.at = "pick", !.was = NoState, !.event = 0, !.o = "none"])
    /\ UNCHANGED <<metrics, events, inDb, acks, shifts>>

---------------------------------------------------------------------------
Last(S) == {e \in S : Cardinality({d \in S : d > e}) < QueueLimit}
\* alert_queue_snapshot: of the latest events, those their objective's row points to
AlertQueue(known) ==
    {e \in Last(known) : Active(events[e].status)
        /\ state[events[e].o].event = e /\ Active(state[events[e].o].status)}

\* the queue without what was dispatched already
Undispatched(known, counts) == {e \in AlertQueue(known) : counts[e] = 0}

\* dispatch_queued_alerts: the snapshot, of whose three queries one may fail, and then each
\* entry of it
Dispatch(w) ==
    LET count == [e \in DOMAIN acks |-> acks[e].table]
        onFile == [e \in DOMAIN acks |-> acks[e].file]
        with(queue) == To(w, [Watching EXCEPT !.at = "ack", !.queue = queue])
    IN /\ watch[w].at = "idle" /\ events # <<>>
       /\ \/ Fine /\ with(Undispatched(inDb, count))
          \/ /\ Fault
             /\ \/ with(Undispatched(DOMAIN events, count))
                \/ with(Undispatched(inDb, onFile))
                \/ \E e \in Undispatched(inDb, count) : with(Undispatched(inDb, count) \ {e})
       /\ UNCHANGED <<metrics, events, inDb, state, acks, shifts>>
Acknowledge(w) ==
    LET r == watch[w] IN
    /\ r.at = "ack"
    /\ \/ r.queue = {} /\ To(w, Watching) /\ UNCHANGED <<acks, faults>>
       \/ \E e \in r.queue :
            /\ \/ Fine /\ acks' = [acks EXCEPT ![e] = [file |-> @.file + 1, table |-> @.table + 1]]
               \/ Fault /\ acks' = [acks EXCEPT ![e].file = @ + 1]
            /\ To(w, [r EXCEPT !.queue = @ \ {e}])
    /\ UNCHANGED <<metrics, events, inDb, state, shifts>>

Shift(o) ==
    /\ shifts < MaxShifts /\ shifts' = shifts + 1
    /\ metrics' \in {[metrics EXCEPT ![o] = s] : s \in Statuses \ {metrics[o]}}
    /\ UNCHANGED <<events, inDb, state, acks, watch, faults>>

AlNext ==
    \/ \E w \in Watchers : \/ Evaluate(w) \/ Pick(w) \/ Read(w) \/ Write(w) \/ Upsert(w)
                           \/ Dispatch(w) \/ Acknowledge(w)
    \/ \E o \in Objectives : Shift(o)
AlSpec == AlInit /\ [][AlNext]_alvars

---------------------------------------------------------------------------
\* An objective whose row says it is at fault is queued under an event of that very status,
\* however evaluations overlap and whatever read of the database failed: unless the write
\* of that event failed, or as many newer events as the queue looks at came after it.
AlertIsQueued ==
    \A o \in Objectives : Active(state[o].status) =>
        LET e == state[o].event
        IN /\ e \in DOMAIN events /\ events[e] = [o |-> o, status |-> state[o].status]
           /\ e \in AlertQueue(inDb) \/ e \notin inDb \/ Cardinality({d \in inDb : d > e}) >= QueueLimit
=============================================================================
