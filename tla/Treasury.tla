------------------------------ MODULE Treasury ------------------------------
(***************************************************************************)
(* The founding treasury as the workspace server runs it: payout proposals *)
(* (treasury.py), the warrants that authorise their execution (warrants.py) *)
(* and the ledger that pays for them, which the owner's accounting         *)
(* operations (company/accounting.py, accounting_service.py) also write.   *)
(*                                                                         *)
(* The three stores are whole JSON files.  A handler reads a file, edits   *)
(* its own copy and writes the whole copy back; the workspace serves each  *)
(* request on a thread of its own (ThreadingHTTPServer) and only the       *)
(* accounting operations hold a lock, so what a thread writes back may be  *)
(* stale.  Every read of a file and every write of a file is one step      *)
(* here; a request that fails a guard has written nothing and is no step.  *)
(* Money is in whole cents.  Proposals are not linked to a commitment and  *)
(* settle through the adapter internal_ledger, the only one enabled.       *)
(***************************************************************************)
EXTENDS Integers

CONSTANTS
    Workers,        \* the threads that serve requests
    Proposals,      \* the proposal ids that uuid4 may return
    Warrants,       \* the warrant ids that uuid4 may return
    Members, Admins, Owners,    \* users holding at least that role
    Contributors,   \* contributors whose wallet may receive payouts
    None,           \* the empty string of an unset field
    Amounts,        \* payout, deposit and draw amounts
    Floors,         \* reserve floors the owner may set
    WindowHours,    \* dispute windows the owner may open
    EarlyRequests,  \* values of allow_early that execute requests carry
    TTL,            \* lifetime of a warrant
    OpeningCash, OpeningFloor, OpeningCapital, Revenue,
    MaxCapital, MaxNow, MaxAborts, MaxDebits
                    \* bounds: deposits, clock, broken requests, payouts of a proposal

ASSUME RolesAreRanked == Owners \subseteq Admins /\ Admins \subseteq Members
ASSUME NoneIsNobody == None \notin Members \cup Contributors \cup Proposals \cup Warrants
ASSUME MoneyIsNat ==
    /\ Amounts \subseteq Nat \ {0} /\ Floors \subseteq Nat /\ WindowHours \subseteq Nat
    /\ OpeningCash \in Nat /\ OpeningFloor \in Nat /\ OpeningCapital \in Nat
    /\ Revenue \in Nat /\ MaxCapital \in Nat
ASSUME BoundsAreNat ==
    MaxNow \in Nat /\ MaxAborts \in Nat /\ MaxDebits \in Nat /\ TTL \in Nat \ {0}
ASSUME EarlyIsBoolean == EarlyRequests \subseteq BOOLEAN

VARIABLES
    proposals,  \* payout_proposals.json
    ledger,     \* the treasury object of ledger.json
    warrants,   \* warrants.json
    pc,         \* where each worker is in its handler
    job,        \* what its request names, while it executes a payout
    pcopy, lcopy, wcopy,    \* its copies of the three files
    minted,     \* ids already drawn: uuid4 does not repeat
    debits,     \* how often the ledger was debited for a proposal (history)
    rows,       \* payout_execution rows of the journal, by proposal and warrant
    now,        \* the clock
    aborts      \* how many requests broke off half-way

stores == <<proposals, ledger, warrants>>
copies == <<job, pcopy, lcopy, wcopy>>
vars == <<proposals, ledger, warrants, pc, job, pcopy, lcopy, wcopy, minted,
          debits, rows, now, aborts>>

----------------------------------------------------------------------------
(* Records *)

\* Mutant: the table lets an approved proposal skip the dispute window.
Transitions_skipWindow ==
    { <<"draft", "submitted">>, <<"submitted", "under_review">>,
      <<"under_review", "approved">>, <<"approved", "dispute_window">>,
      <<"approved", "executed">>, <<"dispute_window", "executed">> }

\* The proposal state machine's table, executed/rejected/cancelled being final.
Transitions ==
    { <<"draft", "submitted">>, <<"draft", "cancelled">>,
      <<"submitted", "under_review">>, <<"submitted", "rejected">>,
      <<"submitted", "cancelled">>,
      <<"under_review", "approved">>, <<"under_review", "rejected">>,
      <<"approved", "dispute_window">>,
      <<"dispute_window", "executed">>, <<"dispute_window", "rejected">> }

Statuses == {"none", "draft", "submitted", "under_review", "approved",
             "dispute_window", "executed", "rejected", "cancelled"}

Proposal == [status: Statuses, proposer: Members \cup {None},
             contributor: Contributors \cup {None}, amount: Nat,
             reviewer: Members \cup {None}, approver: Members \cup {None},
             ends: Nat]

NoProposal == [status |-> "none", proposer |-> None, contributor |-> None,
               amount |-> 0, reviewer |-> None, approver |-> None, ends |-> 0]

Ledger == [cash: Int, floor: Nat, capital: Nat, expenses: Nat, draws: Nat]

\* for: the proposal the recorded request hash binds it to; None: no hash.
Warrant == [review: {"none", "auto_issued", "pending_review", "approved",
                     "stayed", "revoked"},
            exec: {"ready", "executed"}, actor: Members \cup {None},
            for: Proposals \cup {None}, expires: Nat]

NoWarrant == [review |-> "none", exec |-> "ready", actor |-> None,
              for |-> None, expires |-> 0]

Job == [prop: Proposals \cup {None}, warrant: Warrants \cup {None}]

NoJob == [prop |-> None, warrant |-> None]
NoProposals == [p \in Proposals |-> NoProposal]
NoWarrants == [w \in Warrants |-> NoWarrant]
OpeningLedger == [cash |-> OpeningCash, floor |-> OpeningFloor,
                  capital |-> OpeningCapital, expenses |-> 0, draws |-> 0]

Init ==
    /\ proposals = NoProposals /\ ledger = OpeningLedger /\ warrants = NoWarrants
    /\ pc = [t \in Workers |-> "idle"]
    /\ job = [t \in Workers |-> NoJob]
    /\ pcopy = [t \in Workers |-> NoProposals]
    /\ lcopy = [t \in Workers |-> OpeningLedger]
    /\ wcopy = [t \in Workers |-> NoWarrants]
    /\ minted = {}
    /\ debits = [p \in Proposals |-> 0]
    /\ rows = [p \in Proposals |-> [w \in Warrants |-> 0]]
    /\ now = 0 /\ aborts = 0

At(t, l) == pc[t] = l
Goto(t, l) == pc' = [pc EXCEPT ![t] = l]

\* The request is over: its thread and its copies are gone.
Finish(t) ==
    /\ Goto(t, "idle")
    /\ job' = [job EXCEPT ![t] = NoJob]
    /\ pcopy' = [pcopy EXCEPT ![t] = NoProposals]
    /\ lcopy' = [lcopy EXCEPT ![t] = OpeningLedger]
    /\ wcopy' = [wcopy EXCEPT ![t] = NoWarrants]

----------------------------------------------------------------------------
(* Payout proposals: each request edits its copy of the proposal store.    *)

\* _require_transition, on the record the request has read.
CanGo(rec, status) == <<rec.status, status>> \in Transitions

\* The lists reject_payout_proposal and cancel_payout_proposal test instead.
Rejectable(rec) == rec.status \in {"submitted", "under_review", "dispute_window"}
Cancellable(rec) == rec.status \in {"draft", "submitted"}

\* The proposer, or anyone with the owner role (owner_override).
MayManage(rec, by) == by = rec.proposer \/ by \in Owners

\* Mutant: the contributor who is to be paid may review.
ReviewerAllowed_contributor(rec, by) == by # rec.proposer

ReviewerAllowed(rec, by) == by \notin {rec.contributor, rec.proposer}

Edit(t, p, rec) ==
    /\ At(t, "idle")
    /\ pcopy' = [pcopy EXCEPT ![t] = [proposals EXCEPT ![p] = rec]]
    /\ Goto(t, "saving")
    /\ UNCHANGED <<stores, job, lcopy, wcopy, debits, rows, now, aborts>>

Propose(t, p, by, c, amount) ==
    /\ p \notin minted
    /\ minted' = minted \cup {p}
    /\ Edit(t, p, [NoProposal EXCEPT !.status = "draft", !.proposer = by,
                                     !.contributor = c, !.amount = amount])

Submit(t, p, by) ==
    /\ CanGo(proposals[p], "submitted") /\ MayManage(proposals[p], by)
    /\ Edit(t, p, [proposals[p] EXCEPT !.status = "submitted"])
    /\ UNCHANGED minted

Review(t, p, by) ==
    /\ CanGo(proposals[p], "under_review") /\ ReviewerAllowed(proposals[p], by)
    /\ Edit(t, p, [proposals[p] EXCEPT !.status = "under_review", !.reviewer = by])
    /\ UNCHANGED minted

Approve(t, p, by) ==
    /\ CanGo(proposals[p], "approved")
    /\ Edit(t, p, [proposals[p] EXCEPT !.status = "approved", !.approver = by])
    /\ UNCHANGED minted

OpenWindow(t, p, hours) ==
    /\ CanGo(proposals[p], "dispute_window")
    /\ Edit(t, p, [proposals[p] EXCEPT !.status = "dispute_window",
                                       !.ends = now + hours])
    /\ UNCHANGED minted

Reject(t, p, by) ==
    /\ Rejectable(proposals[p])
    /\ Edit(t, p, [proposals[p] EXCEPT !.status = "rejected", !.reviewer = by])
    /\ UNCHANGED minted

Cancel(t, p, by) ==
    /\ Cancellable(proposals[p]) /\ MayManage(proposals[p], by)
    /\ Edit(t, p, [proposals[p] EXCEPT !.status = "cancelled"])
    /\ UNCHANGED minted

Save(t) ==
    /\ At(t, "saving")
    /\ proposals' = pcopy[t]
    /\ Finish(t)
    /\ UNCHANGED <<ledger, warrants, minted, debits, rows, now, aborts>>

ProposalRequest(t) ==
    \E p \in Proposals :
        \/ \E by \in Members, c \in Contributors, a \in Amounts : Propose(t, p, by, c, a)
        \/ \E by \in Members : Submit(t, p, by) \/ Cancel(t, p, by)
        \/ \E by \in Admins : Review(t, p, by) \/ Reject(t, p, by)
        \/ \E by \in Owners : Approve(t, p, by)
        \/ \E hours \in WindowHours : OpenWindow(t, p, hours)

----------------------------------------------------------------------------
(* Warrants *)

EditWarrant(t, w, rec) ==
    /\ At(t, "idle")
    /\ wcopy' = [wcopy EXCEPT ![t] = [warrants EXCEPT ![w] = rec]]
    /\ Goto(t, "warranting")
    /\ UNCHANGED <<stores, job, pcopy, lcopy, debits, rows, now, aborts>>

\* p = None: issued without a request payload, so without a hash.
IssueWarrant(t, w, by, p, review) ==
    /\ w \notin minted
    /\ minted' = minted \cup {w}
    /\ EditWarrant(t, w, [review |-> review, exec |-> "ready", actor |-> by,
                          for |-> p, expires |-> now + TTL])

\* Any decision on any warrant, whatever state it is in.
ReviewWarrant(t, w, decision) ==
    /\ warrants[w] # NoWarrant
    /\ EditWarrant(t, w, [warrants[w] EXCEPT !.review = decision])
    /\ UNCHANGED minted

SaveWarrant(t) ==
    /\ At(t, "warranting")
    /\ warrants' = wcopy[t]
    /\ Finish(t)
    /\ UNCHANGED <<proposals, ledger, minted, debits, rows, now, aborts>>

WarrantRequest(t) ==
    \E w \in Warrants :
        \/ \E by \in Admins, p \in Proposals \cup {None},
              review \in {"auto_issued", "pending_review"} : IssueWarrant(t, w, by, p, review)
        \/ \E decision \in {"approved", "stayed", "revoked"} : ReviewWarrant(t, w, decision)

----------------------------------------------------------------------------
(* The owner's accounting operations.  Contributions and the reserve floor *)
(* take the lock of accounting.py, draws the one of accounting_service.py. *)

\* The lock is held from the read of the ledger to its write.
LockFree(l) == \A t \in Workers : ~At(t, l)

ReadLedger(t, l, copy) ==
    /\ At(t, "idle") /\ LockFree(l)
    /\ lcopy' = [lcopy EXCEPT ![t] = copy]
    /\ Goto(t, l)
    /\ UNCHANGED <<stores, job, pcopy, wcopy, minted, debits, rows, now, aborts>>

Contribute(t, amount) ==
    /\ ledger.capital + amount <= MaxCapital
    /\ ReadLedger(t, "posting", [ledger EXCEPT !.cash = @ + amount, !.capital = @ + amount])

SetFloor(t, floor) == ReadLedger(t, "posting", [ledger EXCEPT !.floor = floor])

\* The reserve the draw must leave behind: available = max(0, cash - floor).
Draw(t, amount) ==
    /\ amount <= ledger.cash - ledger.floor
    /\ ReadLedger(t, "drawing", [ledger EXCEPT !.cash = @ - amount, !.draws = @ + amount])

PostLedger(t) ==
    /\ At(t, "posting") \/ At(t, "drawing")
    /\ ledger' = lcopy[t]
    /\ Finish(t)
    /\ UNCHANGED <<proposals, warrants, minted, debits, rows, now, aborts>>

LedgerRequest(t) ==
    \/ \E a \in Amounts : Contribute(t, a) \/ Draw(t, a)
    \/ \E f \in Floors : SetFloor(t, f)

----------------------------------------------------------------------------
(* Executing a payout: /api/payouts/execute. *)

Executable(rec, by, p) ==
    /\ rec.review \in {"auto_issued", "approved"}
    /\ rec.exec = "ready"
    /\ rec.expires > now
    /\ rec.actor = by
    /\ rec.for \in {None, p}

\* validate_warrant_for_execution
ExecValidate(t, p, w, by) ==
    /\ At(t, "idle") /\ debits[p] < MaxDebits
    /\ Executable(warrants[w], by, p)
    /\ job' = [job EXCEPT ![t] = [prop |-> p, warrant |-> w]]
    /\ Goto(t, "authorized")
    /\ UNCHANGED <<stores, pcopy, lcopy, wcopy, minted, debits, rows, now, aborts>>

\* phase_machine.evaluate >= 5, its conditions on paid orders taken as met.
PhaseAllowsPayout(l) == Revenue > l.capital /\ l.cash > l.floor

\* Mutant: the reserve floor is forgotten.
CanPayout_noFloor(l, amount) == l.cash >= amount

CanPayout(l, amount) == l.cash >= l.floor + amount

WindowOver(rec, early) == early \/ rec.ends <= now

\* The guards of execute_payout_proposal; a request that fails one is over.
ExecCheck(t, early) ==
    LET rec == proposals[job[t].prop] IN
    /\ At(t, "authorized")
    /\ IF /\ CanGo(rec, "executed") /\ PhaseAllowsPayout(ledger)
          /\ WindowOver(rec, early) /\ CanPayout(ledger, rec.amount)
       THEN /\ pcopy' = [pcopy EXCEPT ![t] = proposals]
            /\ Goto(t, "checked")
            /\ UNCHANGED <<job, lcopy, wcopy>>
       ELSE Finish(t)
    /\ UNCHANGED <<stores, minted, debits, rows, now, aborts>>

ExecLoadLedger(t) ==
    /\ At(t, "checked")
    /\ lcopy' = [lcopy EXCEPT ![t] = ledger]
    /\ Goto(t, "loaded")
    /\ UNCHANGED <<stores, job, pcopy, wcopy, minted, debits, rows, now, aborts>>

\* Mutant: the payout is not booked as an expense.
Debited_unbooked(l, amount) == [l EXCEPT !.cash = @ - amount]

Debited(l, amount) == [l EXCEPT !.cash = @ - amount, !.expenses = @ + amount]

ExecWriteLedger(t) ==
    LET p == job[t].prop IN
    /\ At(t, "loaded")
    /\ ledger' = Debited(lcopy[t], pcopy[t][p].amount)
    /\ debits' = [debits EXCEPT ![p] = @ + 1]
    /\ Goto(t, "debited")
    /\ UNCHANGED <<proposals, warrants, copies, minted, rows, now, aborts>>

\* _append_transaction
ExecJournal(t) ==
    /\ At(t, "debited")
    /\ rows' = [rows EXCEPT ![job[t].prop][job[t].warrant] = @ + 1]
    /\ Goto(t, "journaled")
    /\ UNCHANGED <<stores, copies, minted, debits, now, aborts>>

\* Mutant: the store is saved before the journal row is written.
ExecSave_early(t) ==
    /\ At(t, "debited")
    /\ proposals' = [pcopy[t] EXCEPT ![job[t].prop].status = "executed"]
    /\ Goto(t, "paid")
    /\ UNCHANGED <<ledger, warrants, copies, minted, debits, rows, now, aborts>>

\* Mutant: the record is saved with the status it was read with.
ExecSave_sameStatus(t) ==
    /\ At(t, "journaled")
    /\ proposals' = pcopy[t]
    /\ Goto(t, "paid")
    /\ UNCHANGED <<ledger, warrants, copies, minted, debits, rows, now, aborts>>

ExecSave(t) ==
    /\ At(t, "journaled")
    /\ proposals' = [pcopy[t] EXCEPT ![job[t].prop].status = "executed"]
    /\ Goto(t, "paid")
    /\ UNCHANGED <<ledger, warrants, copies, minted, debits, rows, now, aborts>>

\* Mutant: the warrant is marked before the payout is journaled.
MarkLoad_early(t) ==
    LET w == job[t].warrant IN
    /\ At(t, "debited") /\ warrants[w].exec = "ready"
    /\ wcopy' = [wcopy EXCEPT ![t] = [warrants EXCEPT ![w].exec = "executed"]]
    /\ Goto(t, "warranting")
    /\ UNCHANGED <<stores, job, pcopy, lcopy, minted, debits, rows, now, aborts>>

\* mark_warrant_executed
MarkLoad(t) ==
    LET w == job[t].warrant IN
    /\ At(t, "paid")
    /\ IF warrants[w] # NoWarrant /\ warrants[w].exec = "ready"
       THEN /\ wcopy' = [wcopy EXCEPT ![t] = [warrants EXCEPT ![w].exec = "executed"]]
            /\ Goto(t, "warranting")
            /\ UNCHANGED <<job, pcopy, lcopy>>
       ELSE Finish(t)
    /\ UNCHANGED <<stores, minted, debits, rows, now, aborts>>

Execute(t) ==
    \/ \E p \in Proposals, w \in Warrants, by \in Owners : ExecValidate(t, p, w, by)
    \/ \E early \in EarlyRequests : ExecCheck(t, early)
    \/ ExecLoadLedger(t) \/ ExecWriteLedger(t) \/ ExecJournal(t) \/ ExecSave(t)
    \/ MarkLoad(t)

----------------------------------------------------------------------------
(* The clock, and a request that breaks off between two of its steps: an   *)
(* exception (a file read while another thread was writing it, a full      *)
(* disk), or the end of the server process.                                *)

Abort(t) ==
    /\ ~At(t, "idle") /\ aborts < MaxAborts
    /\ aborts' = aborts + 1
    /\ Finish(t)
    /\ UNCHANGED <<stores, minted, debits, rows, now>>

Tick ==
    /\ now < MaxNow
    /\ now' = now + 1
    /\ UNCHANGED <<stores, pc, copies, minted, debits, rows, aborts>>

Step(t) ==
    \/ ProposalRequest(t) \/ Save(t)
    \/ WarrantRequest(t) \/ SaveWarrant(t)
    \/ LedgerRequest(t) \/ PostLedger(t)
    \/ Execute(t) \/ Abort(t)

Next == Tick \/ \E t \in Workers : Step(t)

Spec == Init /\ [][Next]_vars

----------------------------------------------------------------------------
(* Properties *)

\* Every variable keeps its shape.
TypeOK ==
    /\ proposals \in [Proposals -> Proposal]
    /\ ledger \in Ledger
    /\ warrants \in [Warrants -> Warrant]
    /\ pc \in [Workers -> {"idle", "saving", "warranting", "posting", "drawing",
                           "authorized", "checked", "loaded", "debited",
                           "journaled", "paid"}]
    /\ job \in [Workers -> Job]
    /\ pcopy \in [Workers -> [Proposals -> Proposal]]
    /\ lcopy \in [Workers -> Ledger]
    /\ wcopy \in [Workers -> [Warrants -> Warrant]]
    /\ minted \subseteq Proposals \cup Warrants
    /\ debits \in [Proposals -> Nat]
    /\ rows \in [Proposals -> [Warrants -> Nat]]
    /\ now \in Nat /\ aborts \in Nat

Balanced(l) == l.cash + l.expenses + l.draws = OpeningCash + l.capital - OpeningCapital

\* Whatever stale copy a thread writes back, the ledger on disk is one that
\* some sequence of postings explains: cash, expenses, draws and capital add
\* up (execute_payout_proposal, contribute_capital, take_owner_draw).
BooksBalance == Balanced(ledger)

\* A proposal past review was reviewed by an administrator who neither asked for
\* it nor is paid by it (review_payout_proposal), and its approval was an owner's
\* (approve_payout_proposal).  The code lets the owner who approves be the
\* reviewer, the proposer or the one who is paid.
Separated(rec) ==
    /\ rec.status \in {"under_review", "approved", "dispute_window", "executed"} =>
           rec.reviewer \in Admins \ {rec.proposer, rec.contributor}
    /\ rec.status \in {"approved", "dispute_window", "executed"} => rec.approver \in Owners

\* No interleaving of requests, whatever stale copy of the store they save,
\* brings a proposal past review without that reviewer, or to approval and
\* execution without that owner.
DutiesSeparated == \A p \in Proposals : Separated(proposals[p])

\* A proposal the store calls executed was debited from the ledger and has
\* its row in the journal: the store is written last.
ExecutedIsJournaled ==
    \A p \in Proposals : proposals[p].status = "executed" =>
        debits[p] > 0 /\ \E w \in Warrants : rows[p][w] > 0

Spent(w) == \E p \in Proposals : rows[p][w] > 0

\* A warrant is marked executed only after a payout was journaled under it,
\* whatever stale copies of warrants.json are written back.
WarrantSpentOnPayout == \A w \in Warrants : warrants[w].exec = "executed" => Spent(w)

\* What a proposal has come to, in the promise's words.  It is paid from the
\* moment the ledger is debited, which is before its status says so.
Stage == [p \in Proposals |->
    LET status == proposals[p].status IN
    CASE debits[p] > 0 -> "paid"
      [] debits[p] = 0 /\ status = "none" -> "none"
      [] debits[p] = 0 /\ status \in {"rejected", "cancelled"} -> "closed"
      [] debits[p] = 0 /\ status = "dispute_window" -> "cleared"
      [] OTHER -> "pending"]

Promise == INSTANCE PayoutLedger WITH
    stage <- Stage, worth <- [p \in Proposals |-> proposals[p].amount],
    times <- debits, broken <- aborts, cash <- ledger.cash, floor <- ledger.floor

\* One request at a time, the treasury is the promised ledger: each proposal is
\* paid when cleared, above the floor, and again only if a request broke off
\* between the debit and the save.
KeepsPromise == Promise!Spec
=============================================================================
