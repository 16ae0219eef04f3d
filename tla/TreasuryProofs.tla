--------------------------- MODULE TreasuryProofs ---------------------------
(* Theorems about Treasury, for any number of threads, proposals and       *)
(* warrants, and for requests that break off anywhere: what holds however   *)
(* the requests overlap, and then the promise, kept while they do not.      *)
EXTENDS Treasury, TLAPS

USE DEF Finish, Goto, At, stores, copies

\* Types: what a request computes from well-typed stores is well-typed.
LEMMA EditTyped ==
    ASSUME TypeOK, NEW t \in Workers, NEW p \in Proposals, NEW rec \in Proposal,
           minted' \subseteq Proposals \cup Warrants, Edit(t, p, rec)
    PROVE  TypeOK'
BY DEF TypeOK, Edit

LEMMA ProposalRequestTyped ==
    ASSUME TypeOK, NEW t \in Workers, ProposalRequest(t)
    PROVE  TypeOK'
<1>1. PICK p \in Proposals :
        \/ \E by \in Members, c \in Contributors, a \in Amounts : Propose(t, p, by, c, a)
        \/ \E by \in Members : Submit(t, p, by) \/ Cancel(t, p, by)
        \/ \E by \in Admins : Review(t, p, by) \/ Reject(t, p, by)
        \/ \E by \in Owners : Approve(t, p, by)
        \/ \E hours \in WindowHours : OpenWindow(t, p, hours)
  BY DEF ProposalRequest
<1>2. proposals[p] \in Proposal /\ Admins \subseteq Members /\ Owners \subseteq Members
  BY RolesAreRanked DEF TypeOK
<1>3. ASSUME NEW by \in Members, NEW c \in Contributors, NEW a \in Amounts,
             Propose(t, p, by, c, a)
      PROVE  TypeOK'
  <2>1. [NoProposal EXCEPT !.status = "draft", !.proposer = by,
                           !.contributor = c, !.amount = a] \in Proposal
    BY MoneyIsNat DEF NoProposal, Proposal, Statuses
  <2>2. minted' \subseteq Proposals \cup Warrants
    BY <1>3 DEF Propose, TypeOK
  <2> QED BY <1>3, <2>1, <2>2, EditTyped DEF Propose
<1>4. ASSUME NEW by \in Members, Submit(t, p, by) \/ Cancel(t, p, by)
      PROVE  TypeOK'
  <2>1. /\ [proposals[p] EXCEPT !.status = "submitted"] \in Proposal
        /\ [proposals[p] EXCEPT !.status = "cancelled"] \in Proposal
    BY <1>2 DEF Proposal, Statuses
  <2> QED BY <1>4, <2>1, EditTyped DEF Submit, Cancel, TypeOK
<1>5. ASSUME NEW by \in Admins, Review(t, p, by) \/ Reject(t, p, by)
      PROVE  TypeOK'
  <2>1. /\ [proposals[p] EXCEPT !.status = "under_review", !.reviewer = by] \in Proposal
        /\ [proposals[p] EXCEPT !.status = "rejected", !.reviewer = by] \in Proposal
    BY <1>2 DEF Proposal, Statuses
  <2> QED BY <1>5, <2>1, EditTyped DEF Review, Reject, TypeOK
<1>6. ASSUME NEW by \in Owners, Approve(t, p, by)
      PROVE  TypeOK'
  <2>1. [proposals[p] EXCEPT !.status = "approved", !.approver = by] \in Proposal
    BY <1>2 DEF Proposal, Statuses
  <2> QED BY <1>6, <2>1, EditTyped DEF Approve, TypeOK
<1>7. ASSUME NEW hours \in WindowHours, OpenWindow(t, p, hours)
      PROVE  TypeOK'
  <2>1. now + hours \in Nat
    BY MoneyIsNat DEF TypeOK
  <2>2. [proposals[p] EXCEPT !.status = "dispute_window", !.ends = now + hours] \in Proposal
    BY <1>2, <2>1 DEF Proposal, Statuses
  <2> QED BY <1>7, <2>2, EditTyped DEF OpenWindow, TypeOK
<1> QED BY <1>1, <1>3, <1>4, <1>5, <1>6, <1>7

LEMMA WarrantRequestTyped ==
    ASSUME TypeOK, NEW t \in Workers, WarrantRequest(t)
    PROVE  TypeOK'
<1>1. PICK w \in Warrants :
        \/ \E by \in Admins, p \in Proposals \cup {None},
              review \in {"auto_issued", "pending_review"} : IssueWarrant(t, w, by, p, review)
        \/ \E decision \in {"approved", "stayed", "revoked"} : ReviewWarrant(t, w, decision)
  BY DEF WarrantRequest
<1>2. ASSUME NEW rec \in Warrant, minted' \subseteq Proposals \cup Warrants,
             EditWarrant(t, w, rec)
      PROVE  TypeOK'
  BY <1>2 DEF TypeOK, EditWarrant
<1>3. ASSUME NEW by \in Admins, NEW p \in Proposals \cup {None},
             NEW review \in {"auto_issued", "pending_review"},
             IssueWarrant(t, w, by, p, review)
      PROVE  TypeOK'
  <2>1. now + TTL \in Nat
    BY BoundsAreNat DEF TypeOK
  <2>2. [review |-> review, exec |-> "ready", actor |-> by, for |-> p,
         expires |-> now + TTL] \in Warrant
    BY <2>1, RolesAreRanked DEF Warrant
  <2> QED BY <1>2, <1>3, <2>2 DEF IssueWarrant, TypeOK
<1>4. ASSUME NEW decision \in {"approved", "stayed", "revoked"},
             ReviewWarrant(t, w, decision)
      PROVE  TypeOK'
  <2>1. [warrants[w] EXCEPT !.review = decision] \in Warrant
    BY DEF TypeOK, Warrant
  <2> QED BY <1>2, <1>4, <2>1 DEF ReviewWarrant, TypeOK
<1> QED BY <1>1, <1>3, <1>4

LEMMA LedgerRequestTyped ==
    ASSUME TypeOK, NEW t \in Workers, LedgerRequest(t)
    PROVE  TypeOK'
<1>1. ASSUME NEW l \in {"posting", "drawing"}, NEW copy \in Ledger, ReadLedger(t, l, copy)
      PROVE  TypeOK'
  BY <1>1 DEF TypeOK, ReadLedger
<1>2. ASSUME NEW a \in Amounts, Contribute(t, a)
      PROVE  TypeOK'
  <2>0. ledger \in Ledger /\ ledger.cash + a \in Int /\ ledger.capital + a \in Nat
    BY MoneyIsNat DEF TypeOK, Ledger
  <2>1. [ledger EXCEPT !.cash = @ + a, !.capital = @ + a] \in Ledger
    BY <2>0 DEF Ledger
  <2> QED BY <1>1, <1>2, <2>1 DEF Contribute
<1>3. ASSUME NEW a \in Amounts, Draw(t, a)
      PROVE  TypeOK'
  <2>0. ledger \in Ledger /\ ledger.cash - a \in Int /\ ledger.draws + a \in Nat
    BY MoneyIsNat DEF TypeOK, Ledger
  <2>1. [ledger EXCEPT !.cash = @ - a, !.draws = @ + a] \in Ledger
    BY <2>0 DEF Ledger
  <2> QED BY <1>1, <1>3, <2>1 DEF Draw
<1>4. ASSUME NEW f \in Floors, SetFloor(t, f)
      PROVE  TypeOK'
  <2>1. [ledger EXCEPT !.floor = f] \in Ledger
    BY MoneyIsNat DEF TypeOK, Ledger
  <2> QED BY <1>1, <1>4, <2>1 DEF SetFloor
<1> QED BY <1>2, <1>3, <1>4 DEF LedgerRequest

\* What a finished request leaves behind.
LEMMA EmptyCopiesTyped ==
    /\ NoJob \in Job /\ NoProposals \in [Proposals -> Proposal]
    /\ OpeningLedger \in Ledger /\ NoWarrants \in [Warrants -> Warrant]
<1>1. NoJob \in Job
  BY DEF NoJob, Job
<1>2. NoProposals \in [Proposals -> Proposal]
  BY DEF NoProposals, NoProposal, Proposal, Statuses
<1>3. OpeningLedger \in Ledger
  BY MoneyIsNat DEF OpeningLedger, Ledger
<1>4. NoWarrants \in [Warrants -> Warrant]
  BY DEF NoWarrants, NoWarrant, Warrant
<1> QED BY <1>1, <1>2, <1>3, <1>4

LEMMA WriteTyped ==
    ASSUME TypeOK, NEW t \in Workers,
           Save(t) \/ SaveWarrant(t) \/ PostLedger(t) \/ Abort(t)
    PROVE  TypeOK'
<1>1. CASE Save(t)
  BY <1>1, EmptyCopiesTyped DEF TypeOK, Save
<1>2. CASE SaveWarrant(t)
  BY <1>2, EmptyCopiesTyped DEF TypeOK, SaveWarrant
<1>3. CASE PostLedger(t)
  BY <1>3, EmptyCopiesTyped DEF TypeOK, PostLedger
<1>4. CASE Abort(t)
  BY <1>4, EmptyCopiesTyped DEF TypeOK, Abort
<1> QED BY <1>1, <1>2, <1>3, <1>4

\* While a payout is executed the request names a proposal and a warrant.
Executing == {"authorized", "checked", "loaded", "debited", "journaled", "paid"}

JobsNamed ==
    \A t \in Workers : pc[t] \in Executing =>
        job[t].prop \in Proposals /\ job[t].warrant \in Warrants

LEMMA ExecuteTyped ==
    ASSUME TypeOK, JobsNamed, NEW t \in Workers, Execute(t)
    PROVE  TypeOK'
<1>1. ASSUME NEW p \in Proposals, NEW w \in Warrants, NEW by \in Owners,
             ExecValidate(t, p, w, by)
      PROVE  TypeOK'
  BY <1>1 DEF TypeOK, ExecValidate, Job
<1>2. ASSUME NEW early \in EarlyRequests, ExecCheck(t, early)
      PROVE  TypeOK'
  BY <1>2, EmptyCopiesTyped DEF TypeOK, ExecCheck
<1>3. CASE ExecLoadLedger(t)
  BY <1>3 DEF TypeOK, ExecLoadLedger
<1>4. CASE ExecWriteLedger(t)
  <2>1. job[t].prop \in Proposals
    BY <1>4 DEF ExecWriteLedger, JobsNamed, Executing
  <2>2. lcopy[t] \in Ledger /\ pcopy[t][job[t].prop].amount \in Nat
    BY <2>1 DEF TypeOK, Proposal
  <2>3. ASSUME NEW l \in Ledger, NEW a \in Nat PROVE Debited(l, a) \in Ledger
    <3>1. l.cash - a \in Int /\ l.expenses + a \in Nat
      BY DEF Ledger
    <3> QED BY <3>1 DEF Debited, Ledger
  <2> QED BY <1>4, <2>1, <2>2, <2>3 DEF TypeOK, ExecWriteLedger
<1>5. CASE ExecJournal(t)
  BY <1>5 DEF TypeOK, ExecJournal, JobsNamed, Executing
<1>6. CASE ExecSave(t)
  <2>1. job[t].prop \in Proposals
    BY <1>6 DEF ExecSave, JobsNamed, Executing
  <2>2. pcopy[t][job[t].prop] \in Proposal
    BY <2>1 DEF TypeOK
  <2>3. [pcopy[t][job[t].prop] EXCEPT !.status = "executed"] \in Proposal
    BY <2>2 DEF Proposal, Statuses
  <2> QED BY <1>6, <2>1, <2>3 DEF TypeOK, ExecSave
<1>7. CASE MarkLoad(t)
  <2>1. job[t].warrant \in Warrants
    BY <1>7 DEF MarkLoad, JobsNamed, Executing
  <2>2. warrants[job[t].warrant] \in Warrant
    BY <2>1 DEF TypeOK
  <2>3. [warrants[job[t].warrant] EXCEPT !.exec = "executed"] \in Warrant
    BY <2>2 DEF Warrant
  <2>4. UNCHANGED <<stores, minted, debits, rows, now, aborts>>
    BY <1>7 DEF MarkLoad
  <2>5. CASE Finish(t)
    BY <2>4, <2>5, EmptyCopiesTyped DEF TypeOK
  <2>6. CASE /\ wcopy' = [wcopy EXCEPT ![t] = [warrants EXCEPT ![job[t].warrant].exec = "executed"]]
             /\ Goto(t, "warranting") /\ UNCHANGED <<job, pcopy, lcopy>>
    BY <2>1, <2>3, <2>4, <2>6 DEF TypeOK
  <2> QED BY <1>7, <2>5, <2>6 DEF MarkLoad
<1> QED BY <1>1, <1>2, <1>3, <1>4, <1>5, <1>6, <1>7 DEF Execute

\* A request that edits a store or the ledger only reads, and keeps no job.
LEMMA RequestsBegin ==
    ASSUME NEW t \in Workers, ProposalRequest(t) \/ WarrantRequest(t) \/ LedgerRequest(t)
    PROVE  /\ UNCHANGED <<proposals, ledger, warrants, job, debits, rows>>
           /\ \E l \in {"saving", "warranting", "posting", "drawing"} : Goto(t, l)
<1>1. CASE ProposalRequest(t)
  BY <1>1 DEF ProposalRequest, Propose, Submit, Review, Approve, OpenWindow, Reject, Cancel, Edit
<1>2. CASE WarrantRequest(t)
  BY <1>2 DEF WarrantRequest, IssueWarrant, ReviewWarrant, EditWarrant
<1>3. CASE LedgerRequest(t)
  BY <1>3 DEF LedgerRequest, Contribute, SetFloor, Draw, ReadLedger
<1> QED BY <1>1, <1>2, <1>3

LEMMA JobsStayNamed ==
    ASSUME TypeOK, JobsNamed, [Next]_vars
    PROVE  JobsNamed'
<1>1. CASE \E t \in Workers : ProposalRequest(t) \/ WarrantRequest(t) \/ LedgerRequest(t)
  BY <1>1, RequestsBegin DEF JobsNamed, TypeOK, Executing
<1>2. CASE \E t \in Workers : Save(t) \/ SaveWarrant(t) \/ PostLedger(t) \/ Abort(t)
  BY <1>2 DEF JobsNamed, TypeOK, Save, SaveWarrant, PostLedger, Abort, Executing
<1>3. CASE \E t \in Workers : Execute(t)
  BY <1>3 DEF JobsNamed, TypeOK, Execute, ExecValidate, ExecCheck, ExecLoadLedger,
       ExecWriteLedger, ExecJournal, ExecSave, MarkLoad, Executing
<1>4. CASE Tick \/ UNCHANGED vars
  BY <1>4 DEF JobsNamed, Tick, vars
<1> QED BY <1>1, <1>2, <1>3, <1>4 DEF Next, Step

LEMMA TypedAndNamed == Spec => [](TypeOK /\ JobsNamed)
<1>1. Init => TypeOK /\ JobsNamed
  BY EmptyCopiesTyped DEF Init, TypeOK, JobsNamed, Executing
<1>2. TypeOK /\ JobsNamed /\ [Next]_vars => TypeOK'
  <2> SUFFICES ASSUME TypeOK, JobsNamed, [Next]_vars PROVE TypeOK'
    OBVIOUS
  <2>1. CASE Tick \/ UNCHANGED vars
    BY <2>1 DEF TypeOK, Tick, vars
  <2>2. CASE \E t \in Workers : Step(t)
    BY <2>2, ProposalRequestTyped, WarrantRequestTyped, LedgerRequestTyped, WriteTyped,
       ExecuteTyped DEF Step
  <2> QED BY <2>1, <2>2 DEF Next
<1> QED BY <1>1, <1>2, JobsStayNamed, PTL DEF Spec

\* The stores, the copies every request holds and the histories keep their
\* shapes, whatever is interleaved and wherever requests break off.
THEOREM TypeCorrect == Spec => []TypeOK
BY TypedAndNamed, PTL

-----------------------------------------------------------------------------
(* The books.  A thread's copy balances because it was read from a ledger  *)
(* that did and every operation posts both sides; so it may overwrite a    *)
(* newer ledger and the result still balances.                             *)

BooksInv == BooksBalance /\ \A t \in Workers : Balanced(lcopy[t])

LEMMA OpeningBalances == Balanced(OpeningLedger)
BY MoneyIsNat DEF Balanced, OpeningLedger

LEMMA PostingsBalance ==
    ASSUME NEW l \in Ledger, Balanced(l), NEW a \in Nat
    PROVE  /\ Balanced([l EXCEPT !.cash = @ + a, !.capital = @ + a])
           /\ Balanced([l EXCEPT !.cash = @ - a, !.draws = @ + a])
           /\ Balanced(Debited(l, a))
           /\ \A f \in Floors : Balanced([l EXCEPT !.floor = f])
<1>1. l.cash \in Int /\ l.capital \in Nat /\ l.draws \in Nat /\ l.expenses \in Nat
  BY DEF Ledger
<1> QED BY <1>1, MoneyIsNat DEF Balanced, Debited, Ledger

LEMMA BooksStayBalanced ==
    ASSUME TypeOK, JobsNamed, BooksInv, [Next]_vars
    PROVE  BooksInv'
<1>1. CASE \E t \in Workers : ProposalRequest(t) \/ WarrantRequest(t)
  <2>1. UNCHANGED <<ledger, lcopy>>
    <3>1. CASE \E t \in Workers : ProposalRequest(t)
      <4>1. \E t \in Workers, p \in Proposals : \E rec : Edit(t, p, rec)
        BY <3>1 DEF ProposalRequest, Propose, Submit, Review, Approve, OpenWindow, Reject, Cancel
      <4> QED BY <4>1 DEF Edit
    <3>2. CASE \E t \in Workers : WarrantRequest(t)
      BY <3>2 DEF WarrantRequest, IssueWarrant, ReviewWarrant, EditWarrant
    <3> QED BY <1>1, <3>1, <3>2
  <2> QED BY <2>1 DEF BooksInv, BooksBalance, Balanced
<1>2. ASSUME NEW t \in Workers, LedgerRequest(t) PROVE BooksInv'
  <2>1. ledger' = ledger /\ \E copy : Balanced(copy) /\ lcopy' = [lcopy EXCEPT ![t] = copy]
    <3>1. ledger \in Ledger /\ Balanced(ledger)
      BY DEF TypeOK, BooksInv, BooksBalance
    <3>2. CASE \E a \in Amounts : Contribute(t, a)
      BY <3>1, <3>2, PostingsBalance, MoneyIsNat DEF Contribute, ReadLedger
    <3>3. CASE \E a \in Amounts : Draw(t, a)
      BY <3>1, <3>3, PostingsBalance, MoneyIsNat DEF Draw, ReadLedger
    <3>4. CASE \E f \in Floors : SetFloor(t, f)
      <4>1. \A f \in Floors : Balanced([ledger EXCEPT !.floor = f])
        BY <3>1 DEF Balanced, Ledger
      <4> QED BY <3>4, <4>1 DEF SetFloor, ReadLedger
    <3> QED BY <1>2, <3>2, <3>3, <3>4 DEF LedgerRequest
  <2> QED BY <2>1 DEF BooksInv, BooksBalance, TypeOK, Balanced
<1>3. ASSUME NEW t \in Workers, Save(t) \/ SaveWarrant(t) \/ PostLedger(t) \/ Abort(t)
      PROVE  BooksInv'
  <2>1. /\ ledger' = ledger \/ ledger' = lcopy[t]
        /\ lcopy' = [lcopy EXCEPT ![t] = OpeningLedger]
    BY <1>3 DEF Save, SaveWarrant, PostLedger, Abort
  <2> QED BY <2>1, OpeningBalances DEF BooksInv, BooksBalance, TypeOK, Balanced
<1>4. ASSUME NEW t \in Workers, ExecWriteLedger(t) PROVE BooksInv'
  <2>1. lcopy[t] \in Ledger /\ pcopy[t][job[t].prop].amount \in Nat
    BY <1>4 DEF ExecWriteLedger, JobsNamed, Executing, TypeOK, Proposal
  <2>2. Balanced(Debited(lcopy[t], pcopy[t][job[t].prop].amount))
    BY <2>1, PostingsBalance DEF BooksInv
  <2> QED BY <1>4, <2>2 DEF ExecWriteLedger, BooksInv, BooksBalance, Balanced
<1>5. ASSUME NEW t \in Workers, Execute(t), ~ExecWriteLedger(t) PROVE BooksInv'
  <2>1. /\ ledger' = ledger
        /\ \/ lcopy' = lcopy
           \/ lcopy' = [lcopy EXCEPT ![t] = ledger]
           \/ lcopy' = [lcopy EXCEPT ![t] = OpeningLedger]
    BY <1>5 DEF Execute, ExecValidate, ExecCheck, ExecLoadLedger, ExecJournal, ExecSave, MarkLoad
  <2> QED BY <2>1, OpeningBalances DEF BooksInv, BooksBalance, TypeOK, Balanced
<1>6. CASE Tick \/ UNCHANGED vars
  BY <1>6 DEF BooksInv, BooksBalance, Balanced, Tick, vars
<1> QED BY <1>1, <1>2, <1>3, <1>4, <1>5, <1>6 DEF Next, Step

\* The treasury's books add up after any interleaving of payouts, deposits
\* and draws, lost updates and broken requests included.
THEOREM BooksAlwaysBalance == Spec => []BooksBalance
<1>1. Init => BooksInv
  BY OpeningBalances DEF Init, BooksInv, BooksBalance
<1>2. TypeOK /\ JobsNamed /\ BooksInv /\ [Next]_vars => BooksInv'
  BY BooksStayBalanced
<1>3. BooksInv => BooksBalance
  BY DEF BooksInv
<1> QED BY <1>1, <1>2, <1>3, TypedAndNamed, PTL DEF Spec

-----------------------------------------------------------------------------
(* Separation of duties.  Each record is judged by itself, so it is enough *)
(* that every version of it, on disk or in a copy, went through review; a  *)
(* payout marks executed only a record it read inside the dispute window.  *)

DutiesInv ==
    /\ DutiesSeparated
    /\ \A t \in Workers, p \in Proposals : Separated(pcopy[t][p])
    /\ \A t \in Workers : pc[t] \in {"checked", "loaded", "debited", "journaled"} =>
           pcopy[t][job[t].prop].status = "dispute_window"

LEMMA RequestsSeparate ==
    ASSUME TypeOK, DutiesSeparated, NEW t \in Workers, ProposalRequest(t)
    PROVE  \E copy : /\ \A p \in Proposals : Separated(copy[p])
                     /\ pcopy' = [pcopy EXCEPT ![t] = copy]
<1>1. PICK p \in Proposals :
        \/ \E by \in Members, c \in Contributors, a \in Amounts : Propose(t, p, by, c, a)
        \/ \E by \in Members : Submit(t, p, by) \/ Cancel(t, p, by)
        \/ \E by \in Admins : Review(t, p, by) \/ Reject(t, p, by)
        \/ \E by \in Owners : Approve(t, p, by)
        \/ \E hours \in WindowHours : OpenWindow(t, p, hours)
  BY DEF ProposalRequest
<1>2. ASSUME NEW rec, Separated(rec), Edit(t, p, rec)
      PROVE  \E copy : /\ \A q \in Proposals : Separated(copy[q])
                       /\ pcopy' = [pcopy EXCEPT ![t] = copy]
  <2>1. \A q \in Proposals : Separated([proposals EXCEPT ![p] = rec][q])
    BY <1>2 DEF DutiesSeparated, TypeOK
  <2> QED BY <1>2, <2>1 DEF Edit
<1>3. proposals[p] \in Proposal /\ Separated(proposals[p])
  BY DEF DutiesSeparated, TypeOK
<1>4. CASE \E by \in Members, c \in Contributors, a \in Amounts : Propose(t, p, by, c, a)
  BY <1>2, <1>4 DEF Propose, Separated, NoProposal
<1>5. CASE \E by \in Members : Submit(t, p, by) \/ Cancel(t, p, by)
  BY <1>2, <1>3, <1>5 DEF Submit, Cancel, Separated, Proposal
<1>6. CASE \E by \in Admins : Review(t, p, by) \/ Reject(t, p, by)
  BY <1>2, <1>3, <1>6 DEF Review, Reject, ReviewerAllowed, Separated, Proposal
<1>7. CASE \E by \in Owners : Approve(t, p, by)
  BY <1>2, <1>3, <1>7 DEF Approve, CanGo, Transitions, Separated, Proposal
<1>8. CASE \E hours \in WindowHours : OpenWindow(t, p, hours)
  BY <1>2, <1>3, <1>8 DEF OpenWindow, CanGo, Transitions, Separated, Proposal
<1> QED BY <1>1, <1>4, <1>5, <1>6, <1>7, <1>8

LEMMA EmptySeparated == \A p \in Proposals : Separated(NoProposals[p])
BY DEF NoProposals, NoProposal, Separated

LEMMA DutiesStaySeparated ==
    ASSUME TypeOK, JobsNamed, DutiesInv, [Next]_vars
    PROVE  DutiesInv'
<1>1. ASSUME NEW t \in Workers, ProposalRequest(t) PROVE DutiesInv'
  <2>1. PICK copy : /\ \A p \in Proposals : Separated(copy[p])
                    /\ pcopy' = [pcopy EXCEPT ![t] = copy]
    BY <1>1, RequestsSeparate DEF DutiesInv
  <2>2. /\ UNCHANGED <<proposals, job>>
        /\ \E l \in {"saving", "warranting", "posting", "drawing"} : Goto(t, l)
    BY <1>1, RequestsBegin
  <2>3. \A u \in Workers, p \in Proposals : Separated(pcopy[u][p])'
    BY <2>1 DEF DutiesInv, TypeOK, Separated
  <2>4. DutiesSeparated'
    BY <2>2 DEF DutiesInv, DutiesSeparated, Separated
  <2> QED BY <2>1, <2>2, <2>3, <2>4 DEF DutiesInv, TypeOK
<1>2. ASSUME NEW t \in Workers, WarrantRequest(t) \/ LedgerRequest(t) PROVE DutiesInv'
  <2>1. pcopy' = pcopy
    BY <1>2 DEF WarrantRequest, IssueWarrant, ReviewWarrant, EditWarrant, LedgerRequest,
         Contribute, SetFloor, Draw, ReadLedger
  <2>2. /\ UNCHANGED <<proposals, job>>
        /\ \E l \in {"saving", "warranting", "posting", "drawing"} : Goto(t, l)
    BY <1>2, RequestsBegin
  <2> QED BY <2>1, <2>2 DEF DutiesInv, DutiesSeparated, TypeOK, Separated
<1>3. ASSUME NEW t \in Workers, Save(t) \/ SaveWarrant(t) \/ PostLedger(t) \/ Abort(t)
      PROVE  DutiesInv'
  <2>1. /\ proposals' = proposals \/ proposals' = pcopy[t]
        /\ Finish(t)
    BY <1>3 DEF Save, SaveWarrant, PostLedger, Abort
  <2>2. DutiesSeparated'
    BY <2>1 DEF DutiesInv, DutiesSeparated, Separated
  <2>3. \A u \in Workers, p \in Proposals : Separated(pcopy[u][p])'
    BY <2>1, EmptySeparated DEF DutiesInv, TypeOK, Separated
  <2> QED BY <2>1, <2>2, <2>3 DEF DutiesInv, TypeOK
<1>4. ASSUME NEW t \in Workers, ExecSave(t) PROVE DutiesInv'
  <2>1. /\ job[t].prop \in Proposals
        /\ pcopy[t][job[t].prop] \in Proposal
        /\ pcopy[t][job[t].prop].status = "dispute_window"
    BY <1>4 DEF ExecSave, JobsNamed, Executing, DutiesInv, TypeOK
  <2>2. Separated([pcopy[t][job[t].prop] EXCEPT !.status = "executed"])
    BY <2>1 DEF DutiesInv, Separated, Proposal
  <2>3. \A p \in Proposals : Separated(proposals'[p])
    BY <1>4, <2>1, <2>2 DEF ExecSave, DutiesInv, TypeOK
  <2>4. DutiesSeparated'
    BY <2>3 DEF DutiesSeparated, Separated
  <2> QED BY <1>4, <2>4 DEF ExecSave, DutiesInv, TypeOK, Separated
<1>5. ASSUME NEW t \in Workers, NEW early \in EarlyRequests, ExecCheck(t, early)
      PROVE  DutiesInv'
  <2>1. UNCHANGED proposals
    BY <1>5 DEF ExecCheck
  <2>2. CASE Finish(t)
    BY <2>1, <2>2, EmptySeparated DEF DutiesInv, DutiesSeparated, TypeOK, Separated
  <2>3. CASE /\ CanGo(proposals[job[t].prop], "executed")
             /\ pcopy' = [pcopy EXCEPT ![t] = proposals]
             /\ Goto(t, "checked") /\ UNCHANGED job
    <3>1. proposals[job[t].prop].status = "dispute_window"
      BY <2>3 DEF CanGo, Transitions
    <3>2. \A u \in Workers, p \in Proposals : Separated(pcopy[u][p])'
      BY <2>3 DEF DutiesInv, DutiesSeparated, TypeOK, Separated
    <3> QED BY <2>1, <2>3, <3>1, <3>2 DEF DutiesInv, DutiesSeparated, TypeOK, Separated
  <2> QED BY <1>5, <2>2, <2>3 DEF ExecCheck
<1>6. ASSUME NEW t \in Workers,
             \/ \E p \in Proposals, w \in Warrants, by \in Owners : ExecValidate(t, p, w, by)
             \/ ExecLoadLedger(t) \/ ExecWriteLedger(t) \/ ExecJournal(t)
      PROVE  DutiesInv'
  <2>1. UNCHANGED <<proposals, pcopy>>
    BY <1>6 DEF ExecValidate, ExecLoadLedger, ExecWriteLedger, ExecJournal
  <2>2. \/ Goto(t, "authorized") /\ \A u \in Workers \ {t} : job'[u] = job[u]
        \/ /\ UNCHANGED job
           /\ \/ At(t, "checked") /\ Goto(t, "loaded")
              \/ At(t, "loaded") /\ Goto(t, "debited")
              \/ At(t, "debited") /\ Goto(t, "journaled")
    BY <1>6 DEF ExecValidate, ExecLoadLedger, ExecWriteLedger, ExecJournal, TypeOK
  <2> QED BY <2>1, <2>2 DEF DutiesInv, DutiesSeparated, TypeOK, Separated
<1>7. ASSUME NEW t \in Workers, MarkLoad(t) PROVE DutiesInv'
  <2>1. UNCHANGED proposals
    BY <1>7 DEF MarkLoad
  <2>2. \/ Finish(t)
        \/ Goto(t, "warranting") /\ UNCHANGED <<job, pcopy>>
    BY <1>7 DEF MarkLoad
  <2> QED BY <2>1, <2>2, EmptySeparated DEF DutiesInv, DutiesSeparated, TypeOK, Separated
<1>8. CASE Tick \/ UNCHANGED vars
  BY <1>8 DEF DutiesInv, DutiesSeparated, Separated, Tick, vars
<1> QED BY <1>1, <1>2, <1>3, <1>4, <1>5, <1>6, <1>7, <1>8 DEF Next, Step, Execute

\* No interleaving and no broken request gets a proposal past review and
\* approval without a separate reviewer and an owner.
THEOREM DutiesAlwaysSeparated == Spec => []DutiesSeparated
<1>1. Init => DutiesInv
  BY EmptySeparated DEF Init, DutiesInv, DutiesSeparated
<1>2. TypeOK /\ JobsNamed /\ DutiesInv /\ [Next]_vars => DutiesInv'
  BY DutiesStaySeparated
<1>3. DutiesInv => DutiesSeparated
  BY DEF DutiesInv
<1> QED BY <1>1, <1>2, <1>3, TypedAndNamed, PTL DEF Spec

-----------------------------------------------------------------------------
(* The journal.  A payout saves the proposal store last, so a version that *)
(* says executed, and every copy made of it, comes after the debit and the *)
(* journal row; both histories only grow.                                  *)

Journaled(p) == debits[p] > 0 /\ \E w \in Warrants : rows[p][w] > 0

JournalInv ==
    /\ ExecutedIsJournaled
    /\ \A t \in Workers, p \in Proposals : pcopy[t][p].status = "executed" => Journaled(p)
    /\ \A t \in Workers :
        /\ pc[t] \in {"debited", "journaled", "paid"} => debits[job[t].prop] > 0
        /\ pc[t] \in {"journaled", "paid"} => rows[job[t].prop][job[t].warrant] > 0

\* Only ExecWriteLedger and ExecJournal touch the histories, and count up.
LEMMA HistoriesGrow ==
    ASSUME TypeOK, JobsNamed, [Next]_vars
    PROVE  /\ \A p \in Proposals : debits[p] > 0 => debits'[p] > 0
           /\ \A p \in Proposals, w \in Warrants : rows[p][w] > 0 => rows'[p][w] > 0
           /\ \A p \in Proposals : Journaled(p) => Journaled(p)'
<1>1. /\ \A p \in Proposals : debits[p] > 0 => debits'[p] > 0
      /\ \A p \in Proposals, w \in Warrants : rows[p][w] > 0 => rows'[p][w] > 0
  <2>1. CASE \E t \in Workers : ProposalRequest(t) \/ WarrantRequest(t) \/ LedgerRequest(t)
    BY <2>1, RequestsBegin
  <2>2. CASE \E t \in Workers : Save(t) \/ SaveWarrant(t) \/ PostLedger(t) \/ Abort(t)
    BY <2>2 DEF Save, SaveWarrant, PostLedger, Abort
  <2>3. CASE \E t \in Workers : ExecWriteLedger(t)
    BY <2>3 DEF ExecWriteLedger, TypeOK
  <2>4. CASE \E t \in Workers : ExecJournal(t)
    BY <2>4 DEF ExecJournal, TypeOK
  <2>5. CASE \E t \in Workers : Execute(t) /\ ~ExecWriteLedger(t) /\ ~ExecJournal(t)
    BY <2>5 DEF Execute, ExecValidate, ExecCheck, ExecLoadLedger, ExecSave, MarkLoad
  <2>6. CASE Tick \/ UNCHANGED vars
    BY <2>6 DEF Tick, vars
  <2> QED BY <2>1, <2>2, <2>3, <2>4, <2>5, <2>6 DEF Next, Step
<1> QED BY <1>1 DEF Journaled

\* A request copies an executed record only from the store, and makes none.
LEMMA RequestsCopyExecuted ==
    ASSUME TypeOK, NEW t \in Workers, ProposalRequest(t)
    PROVE  /\ \A u \in Workers \ {t} : pcopy'[u] = pcopy[u]
           /\ \A q \in Proposals : pcopy'[t][q].status = "executed" =>
                  proposals[q].status = "executed"
<1>1. ASSUME NEW p \in Proposals, NEW rec, rec.status # "executed", Edit(t, p, rec)
      PROVE  /\ \A u \in Workers \ {t} : pcopy'[u] = pcopy[u]
             /\ \A q \in Proposals : pcopy'[t][q].status = "executed" =>
                    proposals[q].status = "executed"
  BY <1>1 DEF Edit, TypeOK
<1>2. \A p \in Proposals : proposals[p] \in Proposal
  BY DEF TypeOK
<1>3. CASE \E p \in Proposals, by \in Members, c \in Contributors, a \in Amounts :
              Propose(t, p, by, c, a)
  BY <1>1, <1>3 DEF Propose, NoProposal
<1>4. CASE \E p \in Proposals, by \in Members : Submit(t, p, by) \/ Cancel(t, p, by)
  BY <1>1, <1>2, <1>4 DEF Submit, Cancel, Proposal
<1>5. CASE \E p \in Proposals, by \in Admins : Review(t, p, by) \/ Reject(t, p, by)
  BY <1>1, <1>2, <1>5 DEF Review, Reject, Proposal
<1>6. CASE \E p \in Proposals, by \in Owners : Approve(t, p, by)
  BY <1>1, <1>2, <1>6 DEF Approve, Proposal
<1>7. CASE \E p \in Proposals, hours \in WindowHours : OpenWindow(t, p, hours)
  BY <1>1, <1>2, <1>7 DEF OpenWindow, Proposal
<1> QED BY <1>3, <1>4, <1>5, <1>6, <1>7 DEF ProposalRequest

LEMMA EmptyUnexecuted == \A p \in Proposals : NoProposals[p].status = "none"
BY DEF NoProposals, NoProposal

LEMMA JournalStays ==
    ASSUME TypeOK, JobsNamed, JournalInv, [Next]_vars
    PROVE  JournalInv'
<1> USE HistoriesGrow
<1>1. ASSUME NEW t \in Workers, ProposalRequest(t) PROVE JournalInv'
  <2>1. /\ UNCHANGED <<proposals, job, debits, rows>>
        /\ \E l \in {"saving", "warranting", "posting", "drawing"} : Goto(t, l)
    BY <1>1, RequestsBegin
  <2>2. \A u \in Workers, p \in Proposals :
           pcopy'[u][p].status = "executed" => Journaled(p)'
    BY <1>1, RequestsCopyExecuted DEF JournalInv, ExecutedIsJournaled, Journaled
  <2> QED BY <2>1, <2>2 DEF JournalInv, ExecutedIsJournaled, TypeOK
<1>2. ASSUME NEW t \in Workers, WarrantRequest(t) \/ LedgerRequest(t) PROVE JournalInv'
  <2>1. pcopy' = pcopy
    BY <1>2 DEF WarrantRequest, IssueWarrant, ReviewWarrant, EditWarrant, LedgerRequest,
         Contribute, SetFloor, Draw, ReadLedger
  <2>2. /\ UNCHANGED <<proposals, job, debits, rows>>
        /\ \E l \in {"saving", "warranting", "posting", "drawing"} : Goto(t, l)
    BY <1>2, RequestsBegin
  <2> QED BY <2>1, <2>2 DEF JournalInv, ExecutedIsJournaled, Journaled, TypeOK
<1>3. ASSUME NEW t \in Workers, Save(t) \/ SaveWarrant(t) \/ PostLedger(t) \/ Abort(t)
      PROVE  JournalInv'
  <2>1. /\ proposals' = proposals \/ proposals' = pcopy[t]
        /\ Finish(t) /\ UNCHANGED <<debits, rows>>
    BY <1>3 DEF Save, SaveWarrant, PostLedger, Abort
  <2>2. ExecutedIsJournaled'
    BY <2>1 DEF JournalInv, ExecutedIsJournaled, Journaled
  <2> QED BY <2>1, <2>2, EmptyUnexecuted DEF JournalInv, Journaled, TypeOK
<1>4. ASSUME NEW t \in Workers, ExecWriteLedger(t) PROVE JournalInv'
  <2>1. UNCHANGED <<proposals, pcopy, job, rows>> /\ Goto(t, "debited")
    BY <1>4 DEF ExecWriteLedger
  <2>2. debits'[job[t].prop] > 0
    BY <1>4 DEF ExecWriteLedger, JobsNamed, Executing, TypeOK
  <2>3. \A u \in Workers : pc'[u] \in {"debited", "journaled", "paid"} => debits'[job[u].prop] > 0
    BY <2>1, <2>2 DEF JournalInv, JobsNamed, Executing, TypeOK
  <2>4. ExecutedIsJournaled'
    BY <2>1 DEF JournalInv, ExecutedIsJournaled, Journaled
  <2> QED BY <2>1, <2>3, <2>4 DEF JournalInv, TypeOK
<1>5. ASSUME NEW t \in Workers, ExecJournal(t) PROVE JournalInv'
  <2>1. UNCHANGED <<proposals, pcopy, job, debits>> /\ At(t, "debited") /\ Goto(t, "journaled")
    BY <1>5 DEF ExecJournal
  <2>2. rows'[job[t].prop][job[t].warrant] > 0
    BY <1>5 DEF ExecJournal, JobsNamed, Executing, TypeOK
  <2>3. \A u \in Workers : pc'[u] \in {"journaled", "paid"} =>
           rows'[job[u].prop][job[u].warrant] > 0
    BY <2>1, <2>2 DEF JournalInv, JobsNamed, Executing, TypeOK
  <2>4. ExecutedIsJournaled'
    BY <2>1 DEF JournalInv, ExecutedIsJournaled, Journaled
  <2> QED BY <2>1, <2>3, <2>4 DEF JournalInv, TypeOK
<1>6. ASSUME NEW t \in Workers, ExecSave(t) PROVE JournalInv'
  <2>1. /\ UNCHANGED <<pcopy, job, debits, rows>> /\ At(t, "journaled") /\ Goto(t, "paid")
        /\ job[t].prop \in Proposals /\ job[t].warrant \in Warrants
    BY <1>6 DEF ExecSave, JobsNamed, Executing
  <2>2. Journaled(job[t].prop)
    BY <2>1 DEF JournalInv, Journaled
  <2>3. \A p \in Proposals : proposals'[p].status = "executed" => Journaled(p)
    BY <1>6, <2>1, <2>2 DEF ExecSave, JournalInv, TypeOK
  <2>4. ExecutedIsJournaled'
    BY <2>1, <2>3 DEF ExecutedIsJournaled, Journaled
  <2> QED BY <2>1, <2>4 DEF JournalInv, Journaled, TypeOK
<1>7. ASSUME NEW t \in Workers, NEW early \in EarlyRequests, ExecCheck(t, early)
      PROVE  JournalInv'
  <2>1. UNCHANGED <<proposals, debits, rows>>
    BY <1>7 DEF ExecCheck
  <2>2. \/ Finish(t)
        \/ pcopy' = [pcopy EXCEPT ![t] = proposals] /\ Goto(t, "checked") /\ UNCHANGED job
    BY <1>7 DEF ExecCheck
  <2>3. \A u \in Workers, p \in Proposals :
           pcopy'[u][p].status = "executed" => Journaled(p)'
    <3> SUFFICES ASSUME NEW u \in Workers, NEW p \in Proposals,
                        pcopy'[u][p].status = "executed"
                 PROVE  Journaled(p)
      BY <2>1
    <3>1. \/ pcopy'[u] = pcopy[u]
          \/ pcopy'[u] = NoProposals
          \/ pcopy'[u] = proposals
      BY <2>2 DEF TypeOK
    <3> QED BY <3>1, EmptyUnexecuted DEF JournalInv, ExecutedIsJournaled, Journaled
  <2>4. ExecutedIsJournaled'
    BY <2>1 DEF JournalInv, ExecutedIsJournaled, Journaled
  <2>5. \A u \in Workers : pc'[u] \in {"debited", "journaled", "paid"} =>
           pc[u] = pc'[u] /\ job'[u] = job[u]
    BY <2>2 DEF TypeOK
  <2> QED BY <2>1, <2>3, <2>4, <2>5 DEF JournalInv
<1>8. ASSUME NEW t \in Workers,
             \/ \E p \in Proposals, w \in Warrants, by \in Owners : ExecValidate(t, p, w, by)
             \/ ExecLoadLedger(t)
      PROVE  JournalInv'
  <2>1. UNCHANGED <<proposals, pcopy, debits, rows>>
    BY <1>8 DEF ExecValidate, ExecLoadLedger
  <2>2. /\ \E l \in {"authorized", "loaded"} : Goto(t, l)
        /\ \A u \in Workers \ {t} : job'[u] = job[u]
    BY <1>8 DEF ExecValidate, ExecLoadLedger, TypeOK
  <2> QED BY <2>1, <2>2 DEF JournalInv, ExecutedIsJournaled, Journaled, TypeOK
<1>9. ASSUME NEW t \in Workers, MarkLoad(t) PROVE JournalInv'
  <2>1. UNCHANGED <<proposals, debits, rows>>
    BY <1>9 DEF MarkLoad
  <2>2. Finish(t) \/ (Goto(t, "warranting") /\ UNCHANGED <<job, pcopy>>)
    BY <1>9 DEF MarkLoad
  <2>3. \A u \in Workers, p \in Proposals :
           pcopy'[u][p].status = "executed" => Journaled(p)'
    <3> SUFFICES ASSUME NEW u \in Workers, NEW p \in Proposals,
                        pcopy'[u][p].status = "executed"
                 PROVE  Journaled(p)
      BY <2>1
    <3>1. pcopy'[u] = pcopy[u] \/ pcopy'[u] = NoProposals
      BY <2>2 DEF TypeOK
    <3> QED BY <3>1, EmptyUnexecuted DEF JournalInv
  <2>4. ExecutedIsJournaled'
    BY <2>1 DEF JournalInv, ExecutedIsJournaled, Journaled
  <2>5. \A u \in Workers : pc'[u] \in {"debited", "journaled", "paid"} =>
           pc[u] = pc'[u] /\ job'[u] = job[u]
    BY <2>2 DEF TypeOK
  <2> QED BY <2>1, <2>3, <2>4, <2>5 DEF JournalInv
<1>10. CASE Tick \/ UNCHANGED vars
  BY <1>10 DEF JournalInv, ExecutedIsJournaled, Journaled, Tick, vars
<1> QED BY <1>1, <1>2, <1>3, <1>4, <1>5, <1>6, <1>7, <1>8, <1>9, <1>10 DEF Next, Step, Execute

\* Whatever is interleaved or breaks off, the store calls a proposal executed
\* only when the ledger was debited and the journal has the row.
THEOREM ExecutedAlwaysJournaled == Spec => []ExecutedIsJournaled
<1>1. Init => JournalInv
  BY EmptyUnexecuted DEF Init, JournalInv, ExecutedIsJournaled
<1>2. TypeOK /\ JobsNamed /\ JournalInv /\ [Next]_vars => JournalInv'
  BY JournalStays
<1>3. JournalInv => ExecutedIsJournaled
  BY DEF JournalInv
<1> QED BY <1>1, <1>2, <1>3, TypedAndNamed, PTL DEF Spec

-----------------------------------------------------------------------------
(* Warrants.  Only MarkLoad makes a copy that says executed, after its own *)
(* request journaled the payout; every other copy repeats one on disk.     *)

SpentInv ==
    /\ WarrantSpentOnPayout
    /\ \A t \in Workers, w \in Warrants : wcopy[t][w].exec = "executed" => Spent(w)

LEMMA SpentGrows ==
    ASSUME TypeOK, JobsNamed, [Next]_vars
    PROVE  \A w \in Warrants : Spent(w) => Spent(w)'
BY HistoriesGrow DEF Spent

LEMMA SpentStays ==
    ASSUME TypeOK, JobsNamed, JournalInv, SpentInv, [Next]_vars
    PROVE  SpentInv'
<1>1. \A w \in Warrants : warrants'[w].exec = "executed" => Spent(w)
  <2>1. CASE \E t \in Workers : ProposalRequest(t) \/ WarrantRequest(t) \/ LedgerRequest(t)
    BY <2>1, RequestsBegin DEF SpentInv, WarrantSpentOnPayout
  <2>2. CASE \E t \in Workers : Save(t) \/ SaveWarrant(t) \/ PostLedger(t) \/ Abort(t)
    BY <2>2 DEF Save, SaveWarrant, PostLedger, Abort, SpentInv, WarrantSpentOnPayout
  <2>3. CASE \E t \in Workers : Execute(t)
    BY <2>3 DEF Execute, ExecValidate, ExecCheck, ExecLoadLedger, ExecWriteLedger, ExecJournal,
         ExecSave, MarkLoad, SpentInv, WarrantSpentOnPayout
  <2>4. CASE Tick \/ UNCHANGED vars
    BY <2>4 DEF Tick, vars, SpentInv, WarrantSpentOnPayout
  <2> QED BY <2>1, <2>2, <2>3, <2>4 DEF Next, Step
<1>2. \A u \in Workers, w \in Warrants : wcopy'[u][w].exec = "executed" => Spent(w)
  <2>1. ASSUME NEW t \in Workers, WarrantRequest(t)
        PROVE  /\ \A u \in Workers \ {t} : wcopy'[u] = wcopy[u]
               /\ \A w \in Warrants : wcopy'[t][w].exec = "executed" =>
                      warrants[w].exec = "executed"
    <3>1. ASSUME NEW w \in Warrants, NEW rec, EditWarrant(t, w, rec),
                 rec.exec = "executed" => warrants[w].exec = "executed"
          PROVE  /\ \A u \in Workers \ {t} : wcopy'[u] = wcopy[u]
                 /\ \A v \in Warrants : wcopy'[t][v].exec = "executed" =>
                        warrants[v].exec = "executed"
      BY <3>1 DEF EditWarrant, TypeOK
    <3>2. CASE \E w \in Warrants, by \in Admins, p \in Proposals \cup {None},
                 review \in {"auto_issued", "pending_review"} : IssueWarrant(t, w, by, p, review)
      BY <3>1, <3>2 DEF IssueWarrant
    <3>3. CASE \E w \in Warrants, decision \in {"approved", "stayed", "revoked"} :
                 ReviewWarrant(t, w, decision)
      <4>1. PICK w \in Warrants, d \in {"approved", "stayed", "revoked"} : ReviewWarrant(t, w, d)
        BY <3>3
      <4>2. warrants[w] \in Warrant
        BY DEF TypeOK
      <4>3. [warrants[w] EXCEPT !.review = d].exec = warrants[w].exec
        BY <4>2 DEF Warrant
      <4> QED BY <3>1, <4>1, <4>3 DEF ReviewWarrant
    <3> QED BY <2>1, <3>2, <3>3 DEF WarrantRequest
  <2>2. CASE \E t \in Workers : WarrantRequest(t)
    BY <2>1, <2>2 DEF SpentInv, WarrantSpentOnPayout
  <2>3. CASE \E t \in Workers : ProposalRequest(t) \/ LedgerRequest(t)
    <3>1. UNCHANGED wcopy
      <4>1. CASE \E t \in Workers : ProposalRequest(t)
        <5>1. \E t \in Workers, p \in Proposals : \E rec : Edit(t, p, rec)
          BY <4>1 DEF ProposalRequest, Propose, Submit, Review, Approve, OpenWindow, Reject,
               Cancel
        <5> QED BY <5>1 DEF Edit
      <4>2. CASE \E t \in Workers : LedgerRequest(t)
        BY <4>2 DEF LedgerRequest, Contribute, SetFloor, Draw, ReadLedger
      <4> QED BY <2>3, <4>1, <4>2
    <3> QED BY <3>1 DEF SpentInv
  <2>4. CASE \E t \in Workers : Save(t) \/ SaveWarrant(t) \/ PostLedger(t) \/ Abort(t)
    <3>1. \E t \in Workers : wcopy' = [wcopy EXCEPT ![t] = NoWarrants]
      BY <2>4 DEF Save, SaveWarrant, PostLedger, Abort
    <3> QED BY <3>1 DEF SpentInv, TypeOK, NoWarrants, NoWarrant
  <2>5. ASSUME NEW t \in Workers, MarkLoad(t)
        PROVE  \A u \in Workers, w \in Warrants : wcopy'[u][w].exec = "executed" => Spent(w)
    <3>1. Spent(job[t].warrant)
      BY <2>5 DEF MarkLoad, JournalInv, Spent, JobsNamed, Executing
    <3>2. \/ wcopy' = [wcopy EXCEPT ![t] = NoWarrants]
          \/ wcopy' = [wcopy EXCEPT ![t] = [warrants EXCEPT ![job[t].warrant].exec = "executed"]]
      BY <2>5 DEF MarkLoad
    <3>3. \A w \in Warrants : NoWarrants[w].exec = "ready"
      BY DEF NoWarrants, NoWarrant
    <3>4. \A w \in Warrants :
            [warrants EXCEPT ![job[t].warrant].exec = "executed"][w].exec = "executed" =>
                w = job[t].warrant \/ warrants[w].exec = "executed"
      BY DEF TypeOK
    <3>5. \A u \in Workers : \/ wcopy'[u] = wcopy[u]
                             \/ wcopy'[u] = NoWarrants
                             \/ wcopy'[u] = [warrants EXCEPT ![job[t].warrant].exec = "executed"]
      BY <3>2 DEF TypeOK
    <3> QED BY <3>1, <3>3, <3>4, <3>5 DEF SpentInv, WarrantSpentOnPayout
  <2>6. CASE \E t \in Workers : Execute(t) /\ ~MarkLoad(t)
    <3>1. \E t \in Workers : wcopy' = wcopy \/ wcopy' = [wcopy EXCEPT ![t] = NoWarrants]
      BY <2>6 DEF Execute, ExecValidate, ExecCheck, ExecLoadLedger, ExecWriteLedger,
           ExecJournal, ExecSave
    <3>2. \A w \in Warrants : NoWarrants[w].exec = "ready"
      BY DEF NoWarrants, NoWarrant
    <3>3. \A u \in Workers : wcopy'[u] = wcopy[u] \/ wcopy'[u] = NoWarrants
      BY <3>1 DEF TypeOK
    <3> QED BY <3>2, <3>3 DEF SpentInv
  <2>7. CASE Tick \/ UNCHANGED vars
    BY <2>7 DEF Tick, vars, SpentInv
  <2> QED BY <2>2, <2>3, <2>4, <2>5, <2>6, <2>7 DEF Next, Step
<1>3. WarrantSpentOnPayout'
  BY <1>1, SpentGrows DEF WarrantSpentOnPayout
<1>4. \A u \in Workers, w \in Warrants : (wcopy[u][w].exec = "executed" => Spent(w))'
  BY <1>2, SpentGrows
<1> QED BY <1>3, <1>4 DEF SpentInv

\* A warrant marked executed has always paid something, stale writes of
\* warrants.json and broken requests included.
THEOREM WarrantAlwaysSpentOnPayout == Spec => []WarrantSpentOnPayout
<1>1. Init => JournalInv /\ SpentInv
  BY EmptyUnexecuted DEF Init, JournalInv, ExecutedIsJournaled, SpentInv, WarrantSpentOnPayout,
     NoWarrants, NoWarrant
<1>2. TypeOK /\ JobsNamed /\ JournalInv /\ SpentInv /\ [Next]_vars => JournalInv' /\ SpentInv'
  BY JournalStays, SpentStays
<1>3. SpentInv => WarrantSpentOnPayout
  BY DEF SpentInv
<1> QED BY <1>1, <1>2, <1>3, TypedAndNamed, PTL DEF Spec

-----------------------------------------------------------------------------
(* The promise.  While no two requests are served at once, what a request   *)
(* copied is still what the store says when it writes, so each write is a   *)
(* step of PayoutLedger and everything else changes nothing it speaks of.   *)

Alone == \A s, t \in Workers : ~At(s, "idle") /\ ~At(t, "idle") => s = t

\* What a saved record may come to: a filed proposal, or one more move of the old one.
Moves == {<<"draft", "submitted">>, <<"draft", "cancelled">>, <<"submitted", "under_review">>,
          <<"submitted", "rejected">>, <<"submitted", "cancelled">>, <<"under_review", "approved">>,
          <<"under_review", "rejected">>, <<"approved", "dispute_window">>,
          <<"dispute_window", "rejected">>}
Legal(p, rec) ==
    \/ p \in minted /\ proposals[p].status = "none" /\ rec.status = "draft" /\ rec.amount \in Amounts
    \/ rec.amount = proposals[p].amount /\ <<proposals[p].status, rec.status>> \in Moves
Saving(t) ==
    \E p \in Proposals : \E rec \in Proposal :
        pcopy[t] = [proposals EXCEPT ![p] = rec] /\ Legal(p, rec)
Posting(t) ==
    \/ \E a \in Amounts : lcopy[t] = [ledger EXCEPT !.cash = @ + a, !.capital = @ + a]
    \/ \E f \in Floors : lcopy[t] = [ledger EXCEPT !.floor = f]
Drawing(t) ==
    \E a \in Amounts : /\ a <= ledger.cash - ledger.floor
                       /\ lcopy[t] = [ledger EXCEPT !.cash = @ - a, !.draws = @ + a]
Cleared(t) == pcopy[t] = proposals /\ proposals[job[t].prop].status = "dispute_window"
UpToDate(t) ==
    /\ pc[t] = "saving" => Saving(t)
    /\ pc[t] = "posting" => Posting(t)
    /\ pc[t] = "drawing" => Drawing(t)
    /\ pc[t] \in {"checked", "loaded"} =>
           Cleared(t) /\ CanPayout(ledger, proposals[job[t].prop].amount)
    /\ pc[t] = "loaded" => lcopy[t] = ledger
    /\ pc[t] \in {"debited", "journaled"} => Cleared(t) /\ debits[job[t].prop] > 0

\* A proposal is debited once more than requests broke off only if it is executed, or
\* about to be.
InPayment(p) == \E t \in Workers : pc[t] \in {"debited", "journaled"} /\ job[t].prop = p
Repaid(p) ==
    /\ p \notin minted => proposals[p].status = "none"
    /\ proposals[p].status = "none" => debits[p] = 0
    /\ debits[p] <= aborts + 1
    /\ proposals[p].status # "executed" /\ ~InPayment(p) => debits[p] <= aborts

PromiseInv == (\A t \in Workers : UpToDate(t)) /\ \A p \in Proposals : Repaid(p)
Context == TypeOK /\ JobsNamed /\ PromiseInv /\ Alone /\ Alone'

\* Whoever takes a step is, before it or after it, the one request that is served.
LEMMA OneServed ==
    ASSUME Context, NEW t \in Workers, Step(t)
    PROVE  \A u \in Workers \ {t} : pc[u] = "idle" /\ pc'[u] = "idle"
<1>1. \E l : pc' = [pc EXCEPT ![t] = l]
  <2>1. CASE ProposalRequest(t) \/ WarrantRequest(t) \/ LedgerRequest(t)
    BY <2>1, RequestsBegin
  <2>2. CASE Save(t) \/ SaveWarrant(t) \/ PostLedger(t) \/ Abort(t)
    BY <2>2 DEF Save, SaveWarrant, PostLedger, Abort
  <2>3. CASE Execute(t)
    BY <2>3 DEF Execute, ExecValidate, ExecCheck, ExecLoadLedger, ExecWriteLedger, ExecJournal,
         ExecSave, MarkLoad
  <2> QED BY <2>1, <2>2, <2>3 DEF Step
<1>2. pc[t] # "idle" \/ pc'[t] # "idle"
  <2>1. CASE ProposalRequest(t) \/ WarrantRequest(t) \/ LedgerRequest(t)
    BY <2>1, RequestsBegin DEF Context, TypeOK
  <2>2. CASE Save(t) \/ SaveWarrant(t) \/ PostLedger(t) \/ Abort(t)
    BY <2>2 DEF Save, SaveWarrant, PostLedger, Abort
  <2>3. CASE Execute(t)
    BY <2>3 DEF Execute, ExecValidate, ExecCheck, ExecLoadLedger, ExecWriteLedger, ExecJournal,
         ExecSave, MarkLoad, Context, TypeOK
  <2> QED BY <2>1, <2>2, <2>3 DEF Step
<1>3. \A u \in Workers \ {t} : pc'[u] = pc[u]
  BY <1>1 DEF Context, TypeOK
<1> QED BY <1>2, <1>3 DEF Context, Alone

\* A request at rest has nothing to be up to date with.
LEMMA RestUpToDate ==
    ASSUME NEW t \in Workers, pc[t] \in {"idle", "warranting", "authorized", "paid"}
    PROVE  UpToDate(t)
BY DEF UpToDate

\* What PayoutLedger sees of a step.
Quiet == UNCHANGED <<Stage, debits, aborts, ledger>>
         /\ [p \in Proposals |-> proposals'[p].amount] = [p \in Proposals |-> proposals[p].amount]
LEMMA QuietStutters == ASSUME Quiet PROVE UNCHANGED Promise!vars
BY DEF Quiet, Promise!vars, Promise!money

LEMMA SameStage == ASSUME UNCHANGED <<proposals, debits>> PROVE UNCHANGED Stage
BY DEF Stage

Kept == Promise!Next \/ UNCHANGED Promise!vars

LEMMA RepaidStays ==
    ASSUME Context, UNCHANGED <<proposals, debits, aborts>>, minted \subseteq minted',
           \A p \in Proposals : InPayment(p) => InPayment(p)'
    PROVE  \A p \in Proposals : Repaid(p)'
<1> SUFFICES ASSUME NEW p \in Proposals PROVE Repaid(p)'
  OBVIOUS
<1>1. Repaid(p)
  BY DEF Context, PromiseInv
<1> QED BY <1>1 DEF Repaid

\* A step that writes no store is none of the promise.
LEMMA OnlyReads ==
    ASSUME Context, NEW t \in Workers, Step(t), UpToDate(t)',
           UNCHANGED <<proposals, ledger, debits, aborts>>, minted \subseteq minted',
           pc[t] \in {"debited", "journaled"} => pc'[t] \in {"debited", "journaled"} /\ UNCHANGED job
    PROVE  PromiseInv' /\ Kept
<1>1. \A u \in Workers \ {t} : pc[u] = "idle" /\ pc'[u] = "idle"
  BY OneServed
<1>2. \A u \in Workers \ {t} : UpToDate(u)'
  BY <1>1 DEF UpToDate
<1>3. \A p \in Proposals : InPayment(p) => InPayment(p)'
  BY <1>1 DEF InPayment
<1>4. \A p \in Proposals : Repaid(p)'
  BY <1>3, RepaidStays
<1>5. UNCHANGED Promise!vars
  BY SameStage, QuietStutters DEF Quiet
<1> QED BY <1>2, <1>4, <1>5 DEF PromiseInv, Kept

LEMMA EditKeeps ==
    ASSUME Context, NEW t \in Workers, Step(t), NEW p \in Proposals, NEW rec \in Proposal,
           Edit(t, p, rec), minted \subseteq minted',
           \/ /\ p \in minted' /\ proposals[p].status = "none"
              /\ rec.status = "draft" /\ rec.amount \in Amounts
           \/ rec.amount = proposals[p].amount /\ <<proposals[p].status, rec.status>> \in Moves
    PROVE  PromiseInv' /\ Kept
<1>1. /\ pc[t] = "idle" /\ pc' = [pc EXCEPT ![t] = "saving"]
      /\ pcopy' = [pcopy EXCEPT ![t] = [proposals EXCEPT ![p] = rec]]
      /\ UNCHANGED <<proposals, ledger, debits, aborts>>
  BY DEF Edit
<1>2. pc'[t] = "saving" /\ pcopy'[t] = [proposals EXCEPT ![p] = rec]
  BY <1>1 DEF Context, TypeOK
<1>3. Legal(p, rec)'
  BY <1>1 DEF Legal
<1>4. Saving(t)'
  BY <1>1, <1>2, <1>3 DEF Saving
<1>5. UpToDate(t)'
  BY <1>2, <1>4 DEF UpToDate
<1> QED BY <1>1, <1>5, OnlyReads

LEMMA ProposalRequestKeeps ==
    ASSUME Context, NEW t \in Workers, ProposalRequest(t)
    PROVE  PromiseInv' /\ Kept
<1>0. Step(t)
  BY DEF Step
<1>1. PICK p \in Proposals :
        \/ \E by \in Members, c \in Contributors, a \in Amounts : Propose(t, p, by, c, a)
        \/ \E by \in Members : Submit(t, p, by) \/ Cancel(t, p, by)
        \/ \E by \in Admins : Review(t, p, by) \/ Reject(t, p, by)
        \/ \E by \in Owners : Approve(t, p, by)
        \/ \E hours \in WindowHours : OpenWindow(t, p, hours)
  BY DEF ProposalRequest
<1>2. proposals[p] \in Proposal /\ Admins \subseteq Members /\ Owners \subseteq Members
  BY RolesAreRanked DEF Context, TypeOK
<1>3. ASSUME NEW by \in Members, NEW c \in Contributors, NEW a \in Amounts,
             Propose(t, p, by, c, a)
      PROVE  PromiseInv' /\ Kept
  <2> DEFINE rec == [NoProposal EXCEPT !.status = "draft", !.proposer = by,
                                       !.contributor = c, !.amount = a]
  <2>1. rec \in Proposal /\ rec.status = "draft" /\ rec.amount = a
    BY MoneyIsNat DEF NoProposal, Proposal, Statuses
  <2>2. p \notin minted /\ minted' = minted \cup {p} /\ Edit(t, p, rec)
    BY <1>3 DEF Propose
  <2>3. proposals[p].status = "none"
    BY <2>2 DEF Context, PromiseInv, Repaid
  <2> HIDE DEF rec
  <2> QED BY <1>0, <2>1, <2>2, <2>3, EditKeeps
<1>4. ASSUME NEW rec \in Proposal, Edit(t, p, rec), minted' = minted, rec.amount = proposals[p].amount,
             <<proposals[p].status, rec.status>> \in Moves
      PROVE  PromiseInv' /\ Kept
  BY <1>0, <1>4, EditKeeps
<1>5. ASSUME NEW by \in Members, Submit(t, p, by) PROVE PromiseInv' /\ Kept
  <2> DEFINE rec == [proposals[p] EXCEPT !.status = "submitted"]
  <2>1. rec \in Proposal /\ rec.amount = proposals[p].amount /\ rec.status = "submitted"
    BY <1>2 DEF Proposal, Statuses
  <2>2. Edit(t, p, rec) /\ minted' = minted /\ proposals[p].status = "draft"
    BY <1>5 DEF Submit, CanGo, Transitions
  <2> HIDE DEF rec
  <2> QED BY <1>4, <2>1, <2>2 DEF Moves
<1>6. ASSUME NEW by \in Members, Cancel(t, p, by) PROVE PromiseInv' /\ Kept
  <2> DEFINE rec == [proposals[p] EXCEPT !.status = "cancelled"]
  <2>1. rec \in Proposal /\ rec.amount = proposals[p].amount /\ rec.status = "cancelled"
    BY <1>2 DEF Proposal, Statuses
  <2>2. Edit(t, p, rec) /\ minted' = minted /\ proposals[p].status \in {"draft", "submitted"}
    BY <1>6 DEF Cancel, Cancellable
  <2> HIDE DEF rec
  <2> QED BY <1>4, <2>1, <2>2 DEF Moves
<1>7. ASSUME NEW by \in Admins, Review(t, p, by) PROVE PromiseInv' /\ Kept
  <2> DEFINE rec == [proposals[p] EXCEPT !.status = "under_review", !.reviewer = by]
  <2>1. rec \in Proposal /\ rec.amount = proposals[p].amount /\ rec.status = "under_review"
    BY <1>2 DEF Proposal, Statuses
  <2>2. Edit(t, p, rec) /\ minted' = minted /\ proposals[p].status = "submitted"
    BY <1>7 DEF Review, CanGo, Transitions
  <2> HIDE DEF rec
  <2> QED BY <1>4, <2>1, <2>2 DEF Moves
<1>8. ASSUME NEW by \in Admins, Reject(t, p, by) PROVE PromiseInv' /\ Kept
  <2> DEFINE rec == [proposals[p] EXCEPT !.status = "rejected", !.reviewer = by]
  <2>1. rec \in Proposal /\ rec.amount = proposals[p].amount /\ rec.status = "rejected"
    BY <1>2 DEF Proposal, Statuses
  <2>2. /\ Edit(t, p, rec) /\ minted' = minted
        /\ proposals[p].status \in {"submitted", "under_review", "dispute_window"}
    BY <1>8 DEF Reject, Rejectable
  <2> HIDE DEF rec
  <2> QED BY <1>4, <2>1, <2>2 DEF Moves
<1>9. ASSUME NEW by \in Owners, Approve(t, p, by) PROVE PromiseInv' /\ Kept
  <2> DEFINE rec == [proposals[p] EXCEPT !.status = "approved", !.approver = by]
  <2>1. rec \in Proposal /\ rec.amount = proposals[p].amount /\ rec.status = "approved"
    BY <1>2 DEF Proposal, Statuses
  <2>2. Edit(t, p, rec) /\ minted' = minted /\ proposals[p].status = "under_review"
    BY <1>9 DEF Approve, CanGo, Transitions
  <2> HIDE DEF rec
  <2> QED BY <1>4, <2>1, <2>2 DEF Moves
<1>10. ASSUME NEW hours \in WindowHours, OpenWindow(t, p, hours) PROVE PromiseInv' /\ Kept
  <2> DEFINE rec == [proposals[p] EXCEPT !.status = "dispute_window", !.ends = now + hours]
  <2>0. now + hours \in Nat
    BY MoneyIsNat DEF Context, TypeOK
  <2>1. rec \in Proposal /\ rec.amount = proposals[p].amount /\ rec.status = "dispute_window"
    BY <1>2, <2>0 DEF Proposal, Statuses
  <2>2. Edit(t, p, rec) /\ minted' = minted /\ proposals[p].status = "approved"
    BY <1>10 DEF OpenWindow, CanGo, Transitions
  <2> HIDE DEF rec
  <2> QED BY <1>4, <2>1, <2>2 DEF Moves
<1> QED BY <1>1, <1>3, <1>5, <1>6, <1>7, <1>8, <1>9, <1>10

LEMMA OtherRequestKeeps ==
    ASSUME Context, NEW t \in Workers, WarrantRequest(t) \/ LedgerRequest(t)
    PROVE  PromiseInv' /\ Kept
<1>0. Step(t) /\ UNCHANGED <<proposals, ledger, debits, aborts>>
  <2>1. UNCHANGED <<proposals, ledger, debits>>
    BY RequestsBegin
  <2>2. UNCHANGED aborts
    BY DEF WarrantRequest, IssueWarrant, ReviewWarrant, EditWarrant, LedgerRequest, Contribute,
       SetFloor, Draw, ReadLedger
  <2> QED BY <2>1, <2>2 DEF Step
<1>1. CASE WarrantRequest(t)
  <2>1. \E w \in Warrants : \E rec : EditWarrant(t, w, rec) /\ minted \subseteq minted'
    BY <1>1 DEF WarrantRequest, IssueWarrant, ReviewWarrant
  <2>2. pc[t] = "idle" /\ pc'[t] = "warranting" /\ minted \subseteq minted'
    BY <2>1 DEF EditWarrant, Context, TypeOK
  <2>3. UpToDate(t)'
    BY <2>2 DEF UpToDate
  <2> QED BY <1>0, <2>2, <2>3, OnlyReads
<1>2. ASSUME NEW l \in {"posting", "drawing"}, NEW copy, ReadLedger(t, l, copy)
      PROVE  pc[t] = "idle" /\ pc'[t] = l /\ lcopy'[t] = copy /\ minted' = minted
  BY <1>2 DEF ReadLedger, Context, TypeOK
<1>3. ASSUME NEW a \in Amounts, Contribute(t, a) PROVE PromiseInv' /\ Kept
  <2>1. ReadLedger(t, "posting", [ledger EXCEPT !.cash = @ + a, !.capital = @ + a])
    BY <1>3 DEF Contribute
  <2>2. /\ pc[t] = "idle" /\ pc'[t] = "posting" /\ minted' = minted
        /\ lcopy'[t] = [ledger EXCEPT !.cash = @ + a, !.capital = @ + a]
    BY <1>2, <2>1
  <2>3. Posting(t)'
    BY <1>0, <2>2 DEF Posting
  <2>4. UpToDate(t)'
    BY <2>2, <2>3 DEF UpToDate
  <2> QED BY <1>0, <2>2, <2>4, OnlyReads
<1>4. ASSUME NEW f \in Floors, SetFloor(t, f) PROVE PromiseInv' /\ Kept
  <2>1. ReadLedger(t, "posting", [ledger EXCEPT !.floor = f])
    BY <1>4 DEF SetFloor
  <2>2. /\ pc[t] = "idle" /\ pc'[t] = "posting" /\ minted' = minted
        /\ lcopy'[t] = [ledger EXCEPT !.floor = f]
    BY <1>2, <2>1
  <2>3. Posting(t)'
    BY <1>0, <2>2 DEF Posting
  <2>4. UpToDate(t)'
    BY <2>2, <2>3 DEF UpToDate
  <2> QED BY <1>0, <2>2, <2>4, OnlyReads
<1>5. ASSUME NEW a \in Amounts, Draw(t, a) PROVE PromiseInv' /\ Kept
  <2>1. /\ a <= ledger.cash - ledger.floor
        /\ ReadLedger(t, "drawing", [ledger EXCEPT !.cash = @ - a, !.draws = @ + a])
    BY <1>5 DEF Draw
  <2>2. /\ pc[t] = "idle" /\ pc'[t] = "drawing" /\ minted' = minted
        /\ lcopy'[t] = [ledger EXCEPT !.cash = @ - a, !.draws = @ + a]
    BY <1>2, <2>1
  <2>3. Drawing(t)'
    BY <1>0, <2>1, <2>2 DEF Drawing
  <2>4. UpToDate(t)'
    BY <2>2, <2>3 DEF UpToDate
  <2> QED BY <1>0, <2>2, <2>4, OnlyReads
<1> QED BY <1>1, <1>3, <1>4, <1>5 DEF LedgerRequest

StageOf(status, n) ==
    CASE n > 0 -> "paid"
      [] n = 0 /\ status = "none" -> "none"
      [] n = 0 /\ status \in {"rejected", "cancelled"} -> "closed"
      [] n = 0 /\ status = "dispute_window" -> "cleared"
      [] OTHER -> "pending"

LEMMA StageSays ==
    /\ Stage = [p \in Proposals |-> StageOf(proposals[p].status, debits[p])]
    /\ \A n \in Nat, s \in Statuses :
         /\ n > 0 => StageOf(s, n) = "paid"
         /\ n = 0 /\ s \in {"draft", "submitted", "under_review", "approved"} => StageOf(s, n) = "pending"
         /\ n = 0 /\ s = "none" => StageOf(s, n) = "none"
         /\ n = 0 /\ s = "dispute_window" => StageOf(s, n) = "cleared"
         /\ n = 0 /\ s \in {"rejected", "cancelled"} => StageOf(s, n) = "closed"
<1>1. Stage = [p \in Proposals |-> StageOf(proposals[p].status, debits[p])]
  BY DEF Stage, StageOf
<1>2. ASSUME NEW n \in Nat, NEW s \in Statuses
      PROVE  /\ n > 0 => StageOf(s, n) = "paid"
             /\ n = 0 /\ s \in {"draft", "submitted", "under_review", "approved"} => StageOf(s, n) = "pending"
             /\ n = 0 /\ s = "none" => StageOf(s, n) = "none"
             /\ n = 0 /\ s = "dispute_window" => StageOf(s, n) = "cleared"
             /\ n = 0 /\ s \in {"rejected", "cancelled"} => StageOf(s, n) = "closed"
  BY DEF StageOf
<1> QED BY <1>1, <1>2

\* One proposal goes on, the others stay where they are.
LEMMA StageMoves ==
    ASSUME Context, NEW p \in Proposals, NEW s, NEW n,
           \A q \in Proposals : q # p => proposals'[q] = proposals[q] /\ debits'[q] = debits[q],
           proposals'[p].status = s, debits'[p] = n
    PROVE  Stage' = [Stage EXCEPT ![p] = StageOf(s, n)]
<1>1. Stage' = [q \in Proposals |-> StageOf(proposals'[q].status, debits'[q])]
  BY DEF Stage, StageOf
<1>2. Stage = [q \in Proposals |-> StageOf(proposals[q].status, debits[q])]
  BY StageSays
<1> QED BY <1>1, <1>2

\* A request that ends leaves no one served.
LEMMA AllRest ==
    ASSUME Context, NEW t \in Workers, Step(t), pc' = [pc EXCEPT ![t] = "idle"]
    PROVE  /\ \A u \in Workers : UpToDate(u)'
           /\ \A p \in Proposals : ~InPayment(p)'
<1>1. \A u \in Workers : pc'[u] = "idle"
  BY OneServed DEF Context, TypeOK
<1> QED BY <1>1 DEF UpToDate, InPayment

LEMMA SaveKeeps ==
    ASSUME Context, NEW t \in Workers, Save(t)
    PROVE  PromiseInv' /\ Kept
<1>1. /\ pc[t] = "saving" /\ proposals' = pcopy[t] /\ pc' = [pc EXCEPT ![t] = "idle"]
      /\ UNCHANGED <<ledger, minted, debits, aborts>> /\ Step(t)
  BY DEF Save, Step
<1>2. PICK p \in Proposals : \E rec \in Proposal : pcopy[t] = [proposals EXCEPT ![p] = rec] /\ Legal(p, rec)
  BY <1>1 DEF Context, PromiseInv, UpToDate, Saving
<1>3. PICK rec \in Proposal : pcopy[t] = [proposals EXCEPT ![p] = rec] /\ Legal(p, rec)
  BY <1>2
<1>4. /\ proposals' = [proposals EXCEPT ![p] = rec] /\ proposals'[p] = rec
      /\ \A q \in Proposals : q # p => proposals'[q] = proposals[q] /\ debits'[q] = debits[q]
  BY <1>1, <1>3 DEF Context, TypeOK
<1>5. \A q \in Proposals : Repaid(q) /\ ~InPayment(q)
  BY <1>1, OneServed DEF Context, PromiseInv, InPayment
<1>6. PromiseInv'
  <2>1. (\A u \in Workers : UpToDate(u)') /\ \A q \in Proposals : ~InPayment(q)'
    BY <1>1, AllRest
  <2>2. ASSUME NEW q \in Proposals, q # p PROVE Repaid(q)'
    BY <1>1, <1>4, <1>5, <2>1, <2>2 DEF Repaid
  <2>3. Repaid(p)'
    <3>1. p \in minted /\ rec.status # "none" /\ proposals[p].status # "executed"
      BY <1>3, <1>5 DEF Legal, Moves, Repaid
    <3> QED BY <1>1, <1>4, <1>5, <2>1, <3>1 DEF Repaid
  <2> QED BY <2>1, <2>2, <2>3 DEF PromiseInv
<1> DEFINE worth == [q \in Proposals |-> proposals[q].amount]
           s == proposals[p].status
           n == debits[p]
<1>7. /\ Stage' = [Stage EXCEPT ![p] = StageOf(rec.status, n)] /\ Stage[p] = StageOf(s, n)
      /\ s \in Statuses /\ rec.status \in Statuses /\ n \in Nat
      /\ Stage = [Stage EXCEPT ![p] = Stage[p]]
  <2>1. debits'[p] = debits[p]
    BY <1>1
  <2>2. Stage' = [Stage EXCEPT ![p] = StageOf(rec.status, n)]
    BY <1>4, <2>1, StageMoves
  <2>3. proposals[p] \in Proposal /\ debits[p] \in Nat
    BY DEF Context, TypeOK
  <2>4. s \in Statuses /\ rec.status \in Statuses
    BY <2>3 DEF Proposal
  <2> QED BY <2>2, <2>3, <2>4, StageSays
<1>8. [q \in Proposals |-> proposals'[q].amount] = [worth EXCEPT ![p] = rec.amount]
  <2>1. proposals'[p].amount = rec.amount
    BY <1>4
  <2>2. \A q \in Proposals : q # p => proposals'[q].amount = worth[q]
    BY <1>4
  <2> HIDE DEF worth
  <2>3. worth = [q \in Proposals |-> worth[q]]
    BY DEF worth
  <2> QED BY <2>1, <2>2, <2>3
<1>9. worth = [worth EXCEPT ![p] = proposals[p].amount]
  OBVIOUS
<1> HIDE DEF s, n, worth
<1>10. CASE p \in minted /\ s = "none" /\ rec.status = "draft" /\ rec.amount \in Amounts
  <2>1. n = 0
    BY <1>5, <1>10 DEF Repaid, s, n
  <2>2. Stage[p] = "none" /\ Stage' = [Stage EXCEPT ![p] = "pending"]
    BY <1>7, <1>10, <2>1, StageSays
  <2>3. Promise!File(p)
    BY <1>1, <1>8, <1>10, <2>2 DEF Promise!File, Promise!Move, Promise!money, worth
  <2> QED BY <1>6, <2>3 DEF Kept, Promise!Next
<1>11. CASE rec.amount = proposals[p].amount /\ <<s, rec.status>> \in Moves
  <2>1. [q \in Proposals |-> proposals'[q].amount] = worth
    BY <1>8, <1>9, <1>11
  <2>2. CASE StageOf(rec.status, n) = StageOf(s, n)
    <3>1. Stage' = Stage
      BY <1>7, <2>2
    <3>2. Quiet
      BY <1>1, <2>1, <3>1 DEF Quiet, worth
    <3> QED BY <1>6, <3>2, QuietStutters DEF Kept
  <2>3. CASE n = 0 /\ <<s, rec.status>> = <<"approved", "dispute_window">>
    <3>1. Stage[p] = "pending" /\ Stage' = [Stage EXCEPT ![p] = "cleared"]
      BY <1>7, <2>3, StageSays
    <3>2. Promise!Clear(p)
      BY <1>1, <2>1, <3>1 DEF Promise!Clear, Promise!Move, Promise!money, worth
    <3> QED BY <1>6, <3>2 DEF Kept, Promise!Next
  <2>4. CASE n = 0 /\ rec.status \in {"rejected", "cancelled"}
    <3>1. Stage[p] \in {"pending", "cleared"} /\ Stage' = [Stage EXCEPT ![p] = "closed"]
      BY <1>7, <1>11, <2>4, StageSays DEF Moves
    <3>2. Promise!Close(p)
      BY <1>1, <2>1, <3>1 DEF Promise!Close, Promise!Move, Promise!money, worth
    <3> QED BY <1>6, <3>2 DEF Kept, Promise!Next
  <2>5. CASE n > 0
    <3>1. StageOf(rec.status, n) = StageOf(s, n)
      BY <1>7, <2>5, StageSays
    <3> QED BY <2>2, <3>1
  <2>6. CASE n = 0 /\ rec.status \in {"submitted", "under_review", "approved"}
    <3>1. s \in {"draft", "submitted", "under_review"}
      BY <1>11, <2>6 DEF Moves
    <3>2. StageOf(rec.status, n) = StageOf(s, n)
      BY <1>7, <2>6, <3>1, StageSays
    <3> QED BY <2>2, <3>2
  <2>7. \/ rec.status \in {"submitted", "under_review", "approved", "rejected", "cancelled"}
        \/ <<s, rec.status>> = <<"approved", "dispute_window">>
    BY <1>11 DEF Moves
  <2> QED BY <1>7, <2>3, <2>4, <2>5, <2>6, <2>7
<1> QED BY <1>3, <1>10, <1>11 DEF Legal, s

LEMMA SaveWarrantKeeps ==
    ASSUME Context, NEW t \in Workers, SaveWarrant(t)
    PROVE  PromiseInv' /\ Kept
<1>1. /\ pc[t] = "warranting" /\ pc'[t] = "idle" /\ Step(t)
      /\ UNCHANGED <<proposals, ledger, minted, debits, aborts>>
  BY DEF SaveWarrant, Step, Context, TypeOK
<1>2. UpToDate(t)'
  BY <1>1 DEF UpToDate
<1> QED BY <1>1, <1>2, OnlyReads

LEMMA PostLedgerKeeps ==
    ASSUME Context, NEW t \in Workers, PostLedger(t)
    PROVE  PromiseInv' /\ Kept
<1>1. /\ pc[t] \in {"posting", "drawing"} /\ ledger' = lcopy[t] /\ pc' = [pc EXCEPT ![t] = "idle"]
      /\ UNCHANGED <<proposals, minted, debits, aborts>> /\ Step(t)
  BY DEF PostLedger, Step
<1>2. PromiseInv'
  <2>1. (\A u \in Workers : UpToDate(u)') /\ \A q \in Proposals : ~InPayment(q)'
    BY <1>1, AllRest
  <2>2. \A q \in Proposals : ~InPayment(q)
    BY <1>1, OneServed DEF InPayment
  <2>3. \A q \in Proposals : Repaid(q)'
    BY <1>1, <2>2, RepaidStays
  <2> QED BY <2>1, <2>3 DEF PromiseInv
<1>3. UNCHANGED Stage /\ ledger \in Ledger
  BY <1>1, SameStage DEF Context, TypeOK
<1>4. ASSUME NEW a \in Amounts, ledger' = [ledger EXCEPT !.cash = @ + a, !.capital = @ + a]
      PROVE  Kept
  <2>1. ledger'.cash = ledger.cash + a /\ ledger'.floor = ledger.floor
    BY <1>3, <1>4 DEF Ledger
  <2>2. Promise!Deposit(a)
    BY <1>1, <1>3, <2>1 DEF Promise!Deposit
  <2> QED BY <2>2 DEF Kept, Promise!Next
<1>5. ASSUME NEW f \in Floors, ledger' = [ledger EXCEPT !.floor = f] PROVE Kept
  <2>1. ledger'.cash = ledger.cash /\ ledger'.floor = f
    BY <1>3, <1>5 DEF Ledger
  <2>2. Promise!SetFloor(f)
    BY <1>1, <1>3, <2>1 DEF Promise!SetFloor
  <2> QED BY <2>2 DEF Kept, Promise!Next
<1>6. ASSUME NEW a \in Amounts, a <= ledger.cash - ledger.floor,
             ledger' = [ledger EXCEPT !.cash = @ - a, !.draws = @ + a]
      PROVE  Kept
  <2>1. ledger'.cash = ledger.cash - a /\ ledger'.floor = ledger.floor
    BY <1>3, <1>6 DEF Ledger
  <2>2. ledger.cash - a >= ledger.floor
    BY <1>3, <1>6, MoneyIsNat DEF Ledger
  <2>3. Promise!Draw(a)
    BY <1>1, <1>3, <2>1, <2>2 DEF Promise!Draw
  <2> QED BY <2>3 DEF Kept, Promise!Next
<1>7. Posting(t) \/ Drawing(t)
  BY <1>1 DEF Context, PromiseInv, UpToDate
<1> QED BY <1>1, <1>2, <1>4, <1>5, <1>6, <1>7 DEF Posting, Drawing

LEMMA AbortKeeps ==
    ASSUME Context, NEW t \in Workers, Abort(t)
    PROVE  PromiseInv' /\ Kept
<1>1. /\ pc' = [pc EXCEPT ![t] = "idle"] /\ aborts' = aborts + 1 /\ Step(t)
      /\ UNCHANGED <<proposals, ledger, minted, debits>>
  BY DEF Abort, Step
<1>2. PromiseInv'
  <2>1. \A u \in Workers : UpToDate(u)'
    BY <1>1, AllRest
  <2>2. ASSUME NEW q \in Proposals PROVE Repaid(q)'
    <3>1. Repaid(q) /\ debits[q] \in Nat /\ aborts \in Nat
      BY DEF Context, PromiseInv, TypeOK
    <3> QED BY <1>1, <3>1 DEF Repaid
  <2> QED BY <2>1, <2>2 DEF PromiseInv
<1>3. Promise!Break
  BY <1>1, SameStage DEF Promise!Break, Promise!money
<1> QED BY <1>2, <1>3 DEF Kept, Promise!Next

LEMMA ExecuteKeeps ==
    ASSUME Context, NEW t \in Workers, Execute(t)
    PROVE  PromiseInv' /\ Kept
<1>0. Step(t) /\ UpToDate(t)
  BY DEF Step, Context, PromiseInv
<1>1. ASSUME NEW p \in Proposals, NEW w \in Warrants, NEW by \in Owners, ExecValidate(t, p, w, by)
      PROVE  PromiseInv' /\ Kept
  <2>1. /\ pc[t] = "idle" /\ pc'[t] = "authorized"
        /\ UNCHANGED <<proposals, ledger, minted, debits, aborts>>
    BY <1>1 DEF ExecValidate, Context, TypeOK
  <2>2. UpToDate(t)'
    BY <2>1 DEF UpToDate
  <2> QED BY <1>0, <2>1, <2>2, OnlyReads
<1>2. ASSUME NEW early \in EarlyRequests, ExecCheck(t, early) PROVE PromiseInv' /\ Kept
  <2>1. pc[t] = "authorized" /\ UNCHANGED <<proposals, ledger, minted, debits, aborts>>
    BY <1>2 DEF ExecCheck
  <2>2. \/ pc'[t] = "idle"
        \/ /\ pc'[t] = "checked" /\ UNCHANGED job /\ pcopy'[t] = proposals
           /\ CanGo(proposals[job[t].prop], "executed")
           /\ CanPayout(ledger, proposals[job[t].prop].amount)
    BY <1>2 DEF ExecCheck, Context, TypeOK
  <2>3. CASE pc'[t] = "idle"
    <3>1. UpToDate(t)'
      BY <2>3 DEF UpToDate
    <3> QED BY <1>0, <2>1, <3>1, OnlyReads
  <2>4. CASE /\ pc'[t] = "checked" /\ UNCHANGED job /\ pcopy'[t] = proposals
             /\ CanGo(proposals[job[t].prop], "executed")
             /\ CanPayout(ledger, proposals[job[t].prop].amount)
    <3>1. proposals[job[t].prop].status = "dispute_window"
      BY <2>4 DEF CanGo, Transitions
    <3>2. Cleared(t)' /\ CanPayout(ledger, proposals[job[t].prop].amount)'
      BY <2>1, <2>4, <3>1 DEF Cleared, CanPayout
    <3>3. UpToDate(t)'
      BY <2>4, <3>2 DEF UpToDate
    <3> QED BY <1>0, <2>1, <3>3, OnlyReads
  <2> QED BY <2>2, <2>3, <2>4
<1>3. CASE ExecLoadLedger(t)
  <2>1. /\ pc[t] = "checked" /\ pc'[t] = "loaded" /\ lcopy'[t] = ledger /\ UNCHANGED <<pcopy, job>>
        /\ UNCHANGED <<proposals, ledger, minted, debits, aborts>>
    BY <1>3 DEF ExecLoadLedger, Context, TypeOK
  <2>2. Cleared(t)' /\ CanPayout(ledger, proposals[job[t].prop].amount)'
    BY <1>0, <2>1 DEF UpToDate, Cleared, CanPayout
  <2>3. UpToDate(t)'
    BY <2>1, <2>2 DEF UpToDate
  <2> QED BY <1>0, <2>1, <2>3, OnlyReads
<1>4. CASE ExecWriteLedger(t)
  <2> DEFINE p == job[t].prop
             worth == [q \in Proposals |-> proposals[q].amount]
  <2>1. /\ pc[t] = "loaded" /\ pc' = [pc EXCEPT ![t] = "debited"] /\ pc'[t] = "debited"
        /\ ledger' = Debited(lcopy[t], pcopy[t][p].amount)
        /\ debits' = [debits EXCEPT ![p] = @ + 1]
        /\ UNCHANGED <<proposals, pcopy, job, minted, aborts>>
    BY <1>4 DEF ExecWriteLedger, Context, TypeOK
  <2>2. /\ p \in Proposals /\ pcopy[t] = proposals /\ proposals[p].status = "dispute_window"
        /\ lcopy[t] = ledger /\ CanPayout(ledger, proposals[p].amount)
    BY <1>0, <2>1 DEF UpToDate, Cleared, Context, JobsNamed, Executing
  <2>3. /\ debits[p] \in Nat /\ debits'[p] = debits[p] + 1 /\ aborts \in Nat
        /\ \A q \in Proposals : q # p => debits'[q] = debits[q]
    BY <2>1, <2>2 DEF Context, TypeOK
  <2> HIDE DEF p
  <2>4. \A q \in Proposals : Repaid(q) /\ ~InPayment(q)
    BY <1>0, <2>1, OneServed DEF Context, PromiseInv, InPayment
  <2>5. debits[p] <= aborts
    BY <2>2, <2>4 DEF Repaid
  <2>6. PromiseInv'
    <3>1. \A u \in Workers \ {t} : UpToDate(u)'
      BY <1>0, OneServed DEF UpToDate
    <3>2. Cleared(t)' /\ debits'[job'[t].prop] > 0
      BY <2>1, <2>2, <2>3 DEF Cleared, p
    <3>3. UpToDate(t)'
      BY <2>1, <3>2 DEF UpToDate
    <3>4. ASSUME NEW q \in Proposals PROVE Repaid(q)'
      <4>1. CASE q = p
        <5>1. proposals'[q].status = "dispute_window" /\ q \in minted'
          BY <2>1, <2>2, <2>4, <4>1 DEF Repaid
        <5>2. debits'[q] <= aborts' + 1
          BY <2>1, <2>3, <2>5, <4>1
        <5>3. InPayment(q)'
          BY <2>1, <4>1 DEF InPayment, p
        <5> QED BY <5>1, <5>2, <5>3 DEF Repaid
      <4>2. CASE q # p
        BY <2>1, <2>3, <2>4, <4>2 DEF Repaid
      <4> QED BY <4>1, <4>2
    <3> QED BY <3>1, <3>3, <3>4 DEF PromiseInv
  <2>7. Stage' = [Stage EXCEPT ![p] = "paid"] /\ Stage[p] = StageOf("dispute_window", debits[p])
    <3>1. proposals'[p].status = "dispute_window"
      BY <2>1, <2>2
    <3>2. Stage' = [Stage EXCEPT ![p] = StageOf("dispute_window", debits[p] + 1)]
      BY <2>1, <2>2, <2>3, <3>1, StageMoves
    <3>3. "dispute_window" \in Statuses /\ debits[p] + 1 \in Nat /\ debits[p] + 1 > 0
      BY <2>3 DEF Statuses
    <3> QED BY <2>2, <3>2, <3>3, StageSays
  <2>8. Stage[p] = "cleared" \/ (Stage[p] = "paid" /\ debits[p] <= aborts)
    <3>1. "dispute_window" \in Statuses
      BY DEF Statuses
    <3> QED BY <2>3, <2>5, <2>7, <3>1, StageSays
  <2>9. /\ ledger'.cash = ledger.cash - worth[p] /\ ledger'.floor = ledger.floor
        /\ ledger.cash >= ledger.floor + worth[p]
    <3>1. ledger' = Debited(ledger, proposals[p].amount) /\ ledger \in Ledger
      BY <2>1, <2>2 DEF Context, TypeOK
    <3> QED BY <2>2, <3>1 DEF Debited, Ledger, CanPayout
  <2>10. Promise!Pay(p)
    BY <2>1, <2>7, <2>8, <2>9 DEF Promise!Pay, Promise!Move
  <2> QED BY <2>2, <2>6, <2>10 DEF Kept, Promise!Next
<1>5. CASE ExecJournal(t)
  <2>1. /\ pc[t] = "debited" /\ pc'[t] = "journaled" /\ UNCHANGED <<pcopy, job>>
        /\ UNCHANGED <<proposals, ledger, minted, debits, aborts>>
    BY <1>5 DEF ExecJournal, Context, TypeOK
  <2>2. UpToDate(t)'
    BY <1>0, <2>1 DEF UpToDate, Cleared
  <2> QED BY <1>0, <2>1, <2>2, OnlyReads
<1>6. CASE ExecSave(t)
  <2> DEFINE p == job[t].prop
  <2>1. /\ pc[t] = "journaled" /\ pc'[t] = "paid"
        /\ proposals' = [pcopy[t] EXCEPT ![p].status = "executed"]
        /\ UNCHANGED <<ledger, minted, debits, aborts>>
    BY <1>6 DEF ExecSave, Context, TypeOK
  <2>2. /\ p \in Proposals /\ pcopy[t] = proposals /\ proposals[p].status = "dispute_window"
        /\ debits[p] > 0 /\ debits[p] \in Nat /\ proposals[p] \in Proposal
    BY <1>0, <2>1 DEF UpToDate, Cleared, Context, JobsNamed, Executing, TypeOK
  <2>3. /\ proposals'[p].status = "executed" /\ proposals'[p].amount = proposals[p].amount
        /\ \A q \in Proposals : q # p => proposals'[q] = proposals[q]
    BY <2>1, <2>2 DEF Context, TypeOK, Proposal
  <2> HIDE DEF p
  <2>4. PromiseInv'
    <3>1. \A u \in Workers \ {t} : UpToDate(u)'
      BY <1>0, OneServed DEF UpToDate
    <3>2. UpToDate(t)'
      BY <2>1 DEF UpToDate
    <3>3. ASSUME NEW q \in Proposals PROVE Repaid(q)'
      <4>1. Repaid(q)
        BY DEF Context, PromiseInv
      <4>2. CASE q = p
        BY <2>1, <2>2, <2>3, <4>1, <4>2 DEF Repaid
      <4>3. CASE q # p
        <5>1. ~InPayment(q)
          BY <1>0, <2>1, <4>3, OneServed DEF InPayment, p
        <5> QED BY <2>1, <2>3, <4>1, <4>3, <5>1 DEF Repaid
      <4> QED BY <4>2, <4>3
    <3> QED BY <3>1, <3>2, <3>3 DEF PromiseInv
  <2>5. Stage' = Stage
    <3>1. Stage' = [Stage EXCEPT ![p] = StageOf("executed", debits[p])]
      BY <2>1, <2>2, <2>3, StageMoves
    <3>2. Stage[p] = StageOf("dispute_window", debits[p]) /\ Stage = [Stage EXCEPT ![p] = Stage[p]]
      BY <2>2, StageSays
    <3>3. StageOf("executed", debits[p]) = "paid" /\ StageOf("dispute_window", debits[p]) = "paid"
      BY <2>2, StageSays DEF Statuses
    <3> QED BY <3>1, <3>2, <3>3
  <2>6. Quiet
    BY <2>1, <2>3, <2>5 DEF Quiet
  <2> QED BY <2>4, <2>6, QuietStutters DEF Kept
<1>7. CASE MarkLoad(t)
  <2>1. /\ pc[t] = "paid" /\ pc'[t] \in {"idle", "warranting"}
        /\ UNCHANGED <<proposals, ledger, minted, debits, aborts>>
    BY <1>7 DEF MarkLoad, Context, TypeOK
  <2>2. UpToDate(t)'
    BY <2>1 DEF UpToDate
  <2> QED BY <1>0, <2>1, <2>2, OnlyReads
<1> QED BY <1>1, <1>2, <1>3, <1>4, <1>5, <1>6, <1>7 DEF Execute

LEMMA PromiseKept ==
    ASSUME Context, [Next]_vars
    PROVE  PromiseInv' /\ Kept
<1>1. CASE \E t \in Workers : Step(t)
  BY <1>1, ProposalRequestKeeps, OtherRequestKeeps, SaveKeeps, SaveWarrantKeeps, PostLedgerKeeps,
     AbortKeeps, ExecuteKeeps DEF Step
<1>2. CASE Tick \/ UNCHANGED vars
  <2>1. UNCHANGED <<proposals, ledger, pc, job, pcopy, lcopy, minted, debits, aborts>>
    BY <1>2 DEF Tick, vars
  <2>2. \A u \in Workers : UpToDate(u)'
    BY <2>1 DEF Context, PromiseInv, UpToDate, Saving, Legal, Posting, Drawing, Cleared, CanPayout
  <2>3. \A q \in Proposals : Repaid(q)'
    BY <2>1 DEF Context, PromiseInv, Repaid, InPayment
  <2>4. Quiet
    BY <2>1, SameStage DEF Quiet
  <2> QED BY <2>2, <2>3, <2>4, QuietStutters DEF PromiseInv, Kept
<1> QED BY <1>1, <1>2 DEF Next

\* While no two requests are served at once, the treasury implements PayoutLedger: a
\* proposal is paid when cleared, above the floor, and again only for a request that broke
\* off between the debit and the save (execute_payout_proposal, _save_proposals).
THEOREM ServedAloneKeepsPromise == Spec /\ []Alone => KeepsPromise
<1>1. Init => PromiseInv /\ Promise!Init
  <2> SUFFICES ASSUME Init PROVE PromiseInv /\ Promise!Init
    OBVIOUS
  <2>1. \A p \in Proposals : proposals[p].status = "none" /\ proposals[p].amount = 0 /\ debits[p] = 0
    BY DEF Init, NoProposals, NoProposal
  <2>2. PromiseInv
    BY <2>1 DEF Init, PromiseInv, UpToDate, Repaid
  <2>3. Stage = [p \in Proposals |-> "none"]
    <3>1. "none" \in Statuses /\ 0 \in Nat
      BY DEF Statuses
    <3>2. StageOf("none", 0) = "none"
      BY <3>1, StageSays
    <3> QED BY <2>1, <3>2, StageSays
  <2>4. [p \in Proposals |-> proposals[p].amount] = [p \in Proposals |-> 0]
    BY <2>1
  <2>5. Promise!Init
    BY <2>3, <2>4 DEF Init, Promise!Init, OpeningLedger
  <2> QED BY <2>2, <2>5
<1>2. TypeOK /\ JobsNamed /\ PromiseInv /\ Alone /\ Alone' /\ [Next]_vars =>
          PromiseInv' /\ [Promise!Next]_(Promise!vars)
  BY PromiseKept DEF Context, Kept
<1> QED BY <1>1, <1>2, TypedAndNamed, PTL DEF Spec, KeepsPromise, Promise!Spec
=============================================================================
