------------------------------- MODULE Authority -------------------------------
(***************************************************************************)
(* Who may act: the authority queue of the founding institution holds      *)
(* approval requests, delegations and the kill switch in one JSON file.    *)
(* Every operation loads the whole file and the ones that change it save   *)
(* the whole copy, with no lock.  Each load and save first runs the        *)
(* migration of the legacy queue file, which is never removed.             *)
(* One thread is one request of the workspace, the MCP server or the CLI.  *)
(***************************************************************************)
EXTENDS Integers, Sequences

CONSTANTS
    Threads, Agents,
    Approvals, Delegations,     \* identifiers
    Ops,                        \* operations requested
    Rights,                     \* agents whom the economy's own rules allow to act
    Legacies,                   \* contents the legacy file may have
    Hours, MaxTime,             \* how long a delegation may last, bound on the clock
    MaxRequests                 \* bound

None == "none"
NoDelegation == [to |-> None, until |-> 0]
Delegation == [to : Agents, until : Int]
Queue == [approvals : [Approvals -> {None, "pending", "approved", "denied"}],
          delegations : [Delegations -> Delegation \cup {NoDelegation}],
          kill : BOOLEAN,
          there : BOOLEAN]            \* whether the file exists

\* what _load_queue makes of a missing file
Empty == [approvals |-> [a \in Approvals |-> None],
          delegations |-> [d \in Delegations |-> NoDelegation],
          kill |-> FALSE, there |-> TRUE]
Absent == [Empty EXCEPT !.there = FALSE]

ASSUME AuthorityAssumption ==
    /\ None \notin Agents /\ Rights \subseteq Agents
    /\ Legacies \subseteq Queue
    /\ \A q \in Legacies : ~q.there => q = Absent
    /\ Hours \subseteq Int /\ MaxTime \in Nat /\ MaxRequests \in Nat

VARIABLES
    legacy,     \* authority_queue.json beside the code
    queue,      \* authority_queue.json of the capsule
    now,
    th,         \* threads
    used,       \* identifiers given out
    revoked,    \* delegations whose revocation was written (history)
    said,       \* last answer given to each thread's caller (history)
    seen,       \* what was true at some moment since the thread's request (history)
    whom,       \* agent the thread's last question was about (history)
    alone,      \* whether no two requests have been served at once (history)
    requests

files == <<legacy, queue>>
history == <<revoked, said>>
vars == <<legacy, queue, now, th, used, revoked, said, seen, whom, alone, requests>>

Idle == [op |-> None, id |-> None, agent |-> None, arg |-> None, todo |-> <<>>, copy |-> Empty]

Init ==
    /\ legacy \in Legacies
    /\ queue \in {Absent, Empty, legacy}
    /\ now = 0
    /\ th = [t \in Threads |-> Idle]
    /\ used = {a \in Approvals : legacy.approvals[a] # None}
              \cup {d \in Delegations : legacy.delegations[d] # NoDelegation}
    /\ revoked = {}
    /\ said = [t \in Threads |-> None]
    /\ seen = [t \in Threads |-> {}] /\ whom = [t \in Threads |-> None] /\ alone = TRUE
    /\ requests = 0

Busy(t) == th[t].todo # <<>>
At(t, s) == Busy(t) /\ Head(th[t].todo) = s
Rest(t) == Tail(th[t].todo)
Continue(t, r, rest) ==
    th' = [th EXCEPT ![t] = IF rest = <<>> THEN Idle ELSE [r EXCEPT !.todo = rest]]

(***************************************************************************)
(* The migration of the legacy queue.                                      *)
(***************************************************************************)
\* Mutant: an engaged kill switch does not count as state
HasState_noKill(q) ==
    \/ \E a \in Approvals : q.approvals[a] # None
    \/ \E d \in Delegations : q.delegations[d] # NoDelegation
HasState(q) ==
    \/ \E a \in Approvals : q.approvals[a] # None
    \/ \E d \in Delegations : q.delegations[d] # NoDelegation
    \/ q.kill

NeedsLegacy ==
    /\ legacy.there
    /\ ~queue.there \/ (HasState(legacy) /\ ~HasState(queue))

Migrate(t) ==
    /\ At(t, "migrate")
    /\ \/ NeedsLegacy  /\ Continue(t, th[t], <<"copy">> \o Rest(t))
       \/ ~NeedsLegacy /\ Continue(t, th[t], Rest(t))
    /\ UNCHANGED <<files, now, used, history, requests>>

CopyLegacy(t) ==
    /\ At(t, "copy")
    /\ queue' = legacy
    /\ Continue(t, th[t], Rest(t))
    /\ UNCHANGED <<legacy, now, used, history, requests>>

(***************************************************************************)
(* Bootstrap copies the legacy file over a queue without state, whatever   *)
(* the legacy file holds, and writes an empty queue where none is.         *)
(***************************************************************************)
Boot(t) ==
    LET stateless == ~HasState(queue) IN
    /\ At(t, "boot")
    /\ \/ legacy.there /\ stateless      /\ Continue(t, th[t], <<"copy">>)
       \/ ~legacy.there /\ ~queue.there /\ Continue(t, th[t], <<"write">>)
       \/ legacy.there /\ ~stateless     /\ Continue(t, th[t], <<>>)
       \/ ~legacy.there /\ queue.there /\ Continue(t, th[t], <<>>)
    /\ UNCHANGED <<files, now, used, history, requests>>

(***************************************************************************)
(* The operations: what each does to its copy, and when it refuses.        *)
(***************************************************************************)
Accepts(r) ==
    /\ r.op = "decide" => r.copy.approvals[r.id] = "pending"
    /\ r.op = "revoke" => r.copy.delegations[r.id] # NoDelegation

Edited(r) ==
    CASE r.op = "request"  -> [r.copy EXCEPT !.approvals[r.id] = "pending"]
      [] r.op = "decide"   -> [r.copy EXCEPT !.approvals[r.id] = r.arg]
      [] r.op = "delegate" -> [r.copy EXCEPT !.delegations[r.id] = [to |-> r.agent, until |-> r.arg]]
      [] r.op = "revoke"   -> [r.copy EXCEPT !.delegations[r.id] = NoDelegation]
      [] r.op = "engage"   -> [r.copy EXCEPT !.kill = TRUE]
      [] r.op = "disengage" -> [r.copy EXCEPT !.kill = FALSE]
      [] OTHER             -> r.copy

LoadQueue(t) ==
    LET r == [th[t] EXCEPT !.copy = [queue EXCEPT !.there = TRUE]] IN
    /\ At(t, "read")
    /\ \/ Accepts(r)  /\ Continue(t, r, Rest(t))
       \/ ~Accepts(r) /\ Continue(t, r, <<>>)
    /\ UNCHANGED <<files, now, used, history, requests>>

SaveQueue(t) ==
    /\ At(t, "write")
    /\ queue' = Edited(th[t])
    /\ revoked' = IF th[t].op = "revoke" THEN revoked \cup {th[t].id} ELSE revoked
    /\ Continue(t, th[t], Rest(t))
    /\ UNCHANGED <<legacy, now, used, said, requests>>

(***************************************************************************)
(* Questions: check_authority, and the gate of paid MCP tools, which looks *)
(* at the kill switch only.                                                *)
(***************************************************************************)
\* scopes are left out: a delegation stands for one of the scope that is asked
Lent(q, a) == \E d \in Delegations : q.delegations[d].to = a /\ q.delegations[d].until > now

\* Mutant: delegations are looked up before the kill switch
Verdict_delegatedFirst(q, a) ==
    IF Lent(q, a) THEN "delegated"
    ELSE IF q.kill THEN "halted"
    ELSE IF a \in Rights THEN "rights" ELSE "denied"
Verdict(q, a) ==
    IF q.kill THEN "halted"
    ELSE IF Lent(q, a) THEN "delegated"
    ELSE IF a \in Rights THEN "rights" ELSE "denied"

Answer(t) ==
    LET r == th[t] IN
    /\ At(t, "answer")
    /\ said' = [said EXCEPT ![t] =
          IF r.op = "gate" THEN (IF r.copy.kill THEN "halted" ELSE "clear")
          ELSE Verdict(r.copy, r.agent)]
    /\ Continue(t, r, Rest(t))
    /\ UNCHANGED <<files, now, used, revoked, requests>>

(***************************************************************************)
(* Requests.                                                               *)
(***************************************************************************)
Load == <<"migrate", "read">>
Steps(op) ==
    CASE op = "bootstrap"         -> <<"boot">>
      [] op \in {"check", "gate"} -> Load \o <<"answer">>
      [] OTHER                    -> Load \o <<"migrate", "write">>

\* identifiers of new approvals and delegations are fresh
Asked(op) ==
    LET ids == IF op \in {"request", "decide"} THEN Approvals
               ELSE IF op \in {"delegate", "revoke"} THEN Delegations ELSE {None}
        args == IF op = "decide" THEN {"approved", "denied"}
                ELSE IF op = "delegate" THEN {now + h : h \in Hours} ELSE {None}
        agents == IF op \in {"delegate", "check"} THEN Agents ELSE {None}
    IN  [id : IF op \in {"request", "delegate"} THEN ids \ used ELSE ids, arg : args, agent : agents]

Request(t) ==
    /\ ~Busy(t) /\ requests < MaxRequests /\ requests' = requests + 1
    /\ \E op \in Ops : \E q \in Asked(op) :
          /\ th' = [th EXCEPT ![t] = [op |-> op, id |-> q.id, agent |-> q.agent, arg |-> q.arg,
                                      todo |-> Steps(op), copy |-> Empty]]
          /\ used' = IF op \in {"request", "delegate"} THEN used \cup {q.id} ELSE used
    /\ said' = [said EXCEPT ![t] = None]
    /\ UNCHANGED <<files, now, revoked>>

Tick ==
    /\ now < MaxTime /\ now' = now + 1
    /\ UNCHANGED <<files, th, used, history, requests>>

\* history: what held at some moment between a question and its answer, and whom
\* the question was about
Facts ==
    (IF queue.kill THEN {} ELSE {"off"}) \cup {a \in Agents : Lent(queue, a)}
Witnessed ==
    /\ whom' = [t \in Threads |-> IF said'[t] # None THEN whom[t] ELSE th'[t].agent]
    /\ seen' = [t \in Threads |->
        IF said'[t] # None THEN seen[t]
        ELSE IF th'[t].op \in {"check", "gate"} THEN (IF Busy(t) THEN seen[t] ELSE {}) \cup Facts'
        ELSE {}]

Next ==
    /\ \/ Tick
       \/ \E t \in Threads :
             \/ Request(t) \/ Migrate(t) \/ CopyLegacy(t) \/ Boot(t)
             \/ LoadQueue(t) \/ SaveQueue(t) \/ Answer(t)
    /\ Witnessed
    /\ alone' = (alone /\ \A t, u \in Threads : Busy(t)' /\ Busy(u)' => t = u)
Spec == Init /\ [][Next]_vars

(***************************************************************************)
(* Properties.                                                             *)
(***************************************************************************)
\* While no two requests are served at once, what stands in the queue stands until a
\* request changes it: the engaged kill switch goes off only to disengage it
\* (engage_kill_switch: "Halt all non-owner actions"), a decision is final
\* (decide_approval: "is already"), and a request for approval is not lost.
QueueHolds ==
    [][alone =>
         /\ queue.kill /\ ~queue'.kill => \E t \in Threads : At(t, "write") /\ th[t].op = "disengage"
         /\ \A a \in Approvals : queue.approvals[a] # queue'.approvals[a] =>
               queue.approvals[a] \in {None, "pending"} /\ queue'.approvals[a] # None]_vars

\* A delegation that was revoked is not in force again (revoke_delegation:
\* "Remove a delegation").
RevokedStaysRevoked ==
    \A d \in revoked : queue.delegations[d] = NoDelegation

\* Whoever is let through was so entitled at some moment of the request: the
\* switch was off, a delegation named as the reason was in force and made out to
\* the very agent that was asked about, and rights named as the reason are that
\* agent's (check_authority).
AnsweredTruly ==
    \A t \in Threads :
        /\ said[t] \in {"clear", "delegated", "rights"} => "off" \in seen[t]
        /\ said[t] = "delegated" => whom[t] \in seen[t] \cap Agents
        /\ said[t] = "rights" => whom[t] \in Rights
=============================================================================
