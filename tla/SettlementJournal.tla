---------------------------- MODULE SettlementJournal ----------------------------
(***************************************************************************)
(* The paid tools of the MCP server.  A payment is settled outside; the    *)
(* hook then writes "settled" to the settlement journal, books the revenue *)
(* (outside this repository, once per payment reference) and writes how    *)
(* that ended.  What is left "settled" is booked again by the next start.  *)
(* The server runs as two processes (stdio and HTTP) over one journal; a   *)
(* process may end between any two steps.                                  *)
(***************************************************************************)
EXTENDS Naturals, Sequences, FiniteSets

CONSTANTS Servers, PaymentRefs, MaxSettled, MaxStops

NoRef == "none"     \* the settlement names no transaction

VARIABLES
    mjournal,       \* the journal: events with their reference
    booked,         \* references the revenue layer has an order for
    proc,           \* the processes: at, ref, whether the order was there before, todo
    settled,        \* payments settled outside (bounded)
    stops

mcpvars == <<mjournal, booked, proc, settled, stops>>

Down == [at |-> "down", ref |-> NoRef, dup |-> FALSE, todo |-> <<>>]

SjInit ==
    /\ mjournal = <<>> /\ booked = {} /\ settled = 0 /\ stops = 0
    /\ proc = [p \in Servers |-> Down]

\* append_mcp_settlement_event, under settlement_lock
Journal(event, ref) == mjournal' = Append(mjournal, [event |-> event, ref |-> ref])

\* Mutant: an attempt that failed closes the payment too
Pending_closed(log) ==
    LET opens(i) == log[i].event = "settled" /\ log[i].ref # NoRef
        closes(i) == log[i].event \in {"recorded", "duplicate", "failed"}
    IN {i \in DOMAIN log : opens(i) /\ \A j \in i + 1 .. Len(log) :
            log[j].ref = log[i].ref => ~closes(j) /\ ~opens(j)}
\* pending_mcp_settlements: the last "settled" of a reference that nothing closed since
Pending(log) ==
    LET opens(i) == log[i].event = "settled" /\ log[i].ref # NoRef
        closes(i) == log[i].event \in {"recorded", "duplicate"}
    IN {i \in DOMAIN log : opens(i) /\ \A j \in i + 1 .. Len(log) :
            log[j].ref = log[i].ref => ~closes(j) /\ ~opens(j)}

\* create_server: every pending payment is booked again, in any order of the references
Start(p) ==
    /\ proc[p].at = "down"
    /\ \E order \in [1 .. Cardinality(Pending(mjournal)) -> Pending(mjournal)] :
         /\ \A i, j \in DOMAIN order : i # j => order[i] # order[j]
         /\ proc' = [proc EXCEPT ![p] = [Down EXCEPT !.at = "next",
                        !.todo = [i \in DOMAIN order |-> mjournal[order[i]].ref]]]
    /\ UNCHANGED <<mjournal, booked, settled, stops>>

\* recover_pending_mcp_settlements; a process with nothing left to recover serves
Recover(p) ==
    LET r == proc[p] IN
    /\ r.at = "next"
    /\ proc' = [proc EXCEPT ![p] =
                  IF r.todo = <<>> THEN [r EXCEPT !.at = "up"]
                  ELSE [r EXCEPT !.at = "book", !.ref = Head(r.todo), !.todo = Tail(r.todo)]]
    /\ UNCHANGED <<mjournal, booked, settled, stops>>

\* a tool was called and its payment settled outside, under a reference of its own or under
\* one that others have too ("unknown"): the hook begins
Settled(p) ==
    /\ proc[p].at = "up" /\ settled < MaxSettled
    /\ settled' = settled + 1
    /\ \E ref \in PaymentRefs \cup {NoRef} :
         proc' = [proc EXCEPT ![p].at = "hook", ![p].ref = ref]
    /\ UNCHANGED <<mjournal, booked, stops>>
Hook(p) ==
    /\ proc[p].at = "hook" /\ Journal("settled", proc[p].ref)
    /\ proc' = [proc EXCEPT ![p].at = "book"]
    /\ UNCHANGED <<booked, settled, stops>>

\* record_revenue: without a reference nothing is booked
Book(p) ==
    LET r == proc[p]
        go(at) == proc' = [proc EXCEPT ![p].at = at, ![p].dup = r.ref \in booked]
    IN /\ r.at = "book"
       /\ \/ r.ref = NoRef /\ go("next") /\ UNCHANGED booked
          \/ r.ref # NoRef /\ go("close") /\ booked' = booked \cup {r.ref}
          \/ r.ref # NoRef /\ go("failed") /\ UNCHANGED booked
       /\ UNCHANGED <<mjournal, settled, stops>>

\* the payment log is written, and then the journal; after a new order come the audit and
\* the meter, and whatever fails on the way is journaled as a failure
Close(p) ==
    LET r == proc[p]
        go(at) == proc' = [proc EXCEPT ![p].at = at]
    IN /\ \/ /\ r.at = "close" /\ go("failed") /\ UNCHANGED mjournal
          \/ /\ r.at = "close" /\ Journal(IF r.dup THEN "duplicate" ELSE "recorded", r.ref)
             /\ go(IF r.dup THEN "next" ELSE "tag")
          \/ /\ r.at = "tag" /\ UNCHANGED mjournal /\ \E at \in {"next", "failed"} : go(at)
          \/ /\ r.at = "failed" /\ Journal("failed", r.ref) /\ go("next")
       /\ UNCHANGED <<booked, settled, stops>>

Stop(p) ==
    /\ proc[p].at # "down" /\ stops < MaxStops
    /\ stops' = stops + 1 /\ proc' = [proc EXCEPT ![p] = Down]
    /\ UNCHANGED <<mjournal, booked, settled>>

SjNext == \E p \in Servers : \/ Start(p) \/ Recover(p) \/ Settled(p) \/ Hook(p)
                             \/ Book(p) \/ Close(p) \/ Stop(p)
SjSpec == SjInit /\ [][SjNext]_mcpvars

---------------------------------------------------------------------------
\* A payment whose settlement was journaled with its reference is booked, or the next
\* start will try to: over the two processes, their ends and failed bookings.  And the
\* journal never calls recorded what has no order.
JournaledIsBooked ==
    \A i \in DOMAIN mjournal :
        LET e == mjournal[i] IN
        /\ e.event = "settled" /\ e.ref # NoRef =>
             e.ref \in booked \/ \E j \in Pending(mjournal) : mjournal[j].ref = e.ref
        /\ e.event \in {"recorded", "duplicate"} => e.ref \in booked
=============================================================================
