----------------------------- MODULE OwnerAccounts -----------------------------
(***************************************************************************)
(* The owner's money: the owner ledger (owner_ledger.json and its SQLite   *)
(* row, which wins when both exist), the treasury object of ledger.json    *)
(* and the transaction journal.  The same five operations exist twice: in  *)
(* company/accounting.py, behind the CLI and the treasury routes, and in   *)
(* accounting_service.py, behind the accounting routes.  Each pair shares  *)
(* its stores but not its lock file, and payouts write ledger.json without *)
(* any lock.  Money is in whole units; a failed guard has written nothing. *)
(***************************************************************************)
EXTENDS Integers, Sequences

CONSTANTS
    Threads,
    Doors,          \* which implementations requests come through: "cli", "service"
    Ops,            \* operations requested
    Amounts, Floors,
    OpeningCash, OpeningFloor, OpeningCapital,
    Gap,            \* capital the treasury knows of and the owner ledger does not
    MaxRequests, MaxBreaks   \* bounds

ASSUME OwnerAccountsAssumption ==
    /\ Doors \subseteq {"cli", "service"}
    /\ Ops \subseteq {"contribute", "expense", "reimburse", "draw", "floor", "payout", "snapshot"}
    /\ Amounts \subseteq Nat \ {0} /\ Floors \subseteq Nat
    /\ OpeningCash \in Nat /\ OpeningFloor \in Nat /\ OpeningCapital \in Nat
    /\ Gap \in 0 .. OpeningCapital
    /\ MaxRequests \in Nat /\ MaxBreaks \in Nat
    /\ "none" \notin Threads

VARIABLES
    json, row,      \* the owner ledger: the file and its SQLite row
    ledger,         \* the treasury object of ledger.json
    journal,        \* cash booked by the rows of transactions.jsonl
    locks,          \* who holds the flock of each door
    th,             \* threads
    paid,           \* cash that reimbursements took out of the ledger (history)
    requests, breaks

stores == <<json, row, ledger, journal>>
vars == <<json, row, ledger, journal, locks, th, paid, requests, breaks>>

None == "none"
Opening == [cash |-> OpeningCash, capital |-> OpeningCapital, draws |-> 0, floor |-> OpeningFloor]
OpeningOwner == [capital |-> OpeningCapital - Gap, expenses |-> 0, reimbursed |-> 0, draws |-> 0]
Idle == [op |-> None, door |-> None, amt |-> 0, todo |-> <<>>,
         owner |-> OpeningOwner, led |-> Opening]

Init ==
    /\ json = OpeningOwner /\ row = OpeningOwner /\ ledger = Opening /\ journal = OpeningCash
    /\ locks = [d \in {"cli", "service"} |-> None]
    /\ th = [t \in Threads |-> Idle]
    /\ paid = 0 /\ requests = 0 /\ breaks = 0

(***************************************************************************)
(* Threads: a request is the list of its reads and writes, in order.       *)
(***************************************************************************)
Busy(t) == th[t].todo # <<>>
At(t, s) == Busy(t) /\ Head(th[t].todo) = s
Rest(t) == Tail(th[t].todo)

\* leaving the with-block releases the lock
Continue(t, r, rest) ==
    /\ th' = [th EXCEPT ![t] = IF rest = <<>> THEN Idle ELSE [r EXCEPT !.todo = rest]]
    /\ locks' = IF rest = <<>> THEN [d \in DOMAIN locks |-> IF locks[d] = t THEN None ELSE locks[d]]
                ELSE locks

\* Mutant: both implementations forget to wait for the lock
LockFree_never(d) == TRUE
LockFree(d) == locks[d] = None

Lock(t) ==
    /\ At(t, "lock") /\ LockFree(th[t].door)
    /\ locks' = [locks EXCEPT ![th[t].door] = t]
    /\ th' = [th EXCEPT ![t].todo = Rest(t)]
    /\ UNCHANGED <<json, row, ledger, journal, paid, requests, breaks>>

(***************************************************************************)
(* What an operation does to its copies.                                   *)
(***************************************************************************)
\* Mutant: what was already reimbursed is not taken off
Owed_gross(o) == o.expenses
Owed(o) == o.expenses - o.reimbursed

Available(l) == l.cash - l.floor

Allowed(r) ==
    /\ r.op = "reimburse" => r.amt <= Owed(r.owner)
    /\ r.op \in {"reimburse", "draw", "payout"} => r.amt <= Available(r.led)

OwnerAfter(r) ==
    CASE r.op = "contribute" -> [r.owner EXCEPT !.capital = @ + r.amt]
      [] r.op = "expense"    -> [r.owner EXCEPT !.expenses = @ + r.amt]
      [] r.op = "reimburse"  -> [r.owner EXCEPT !.reimbursed = @ + r.amt]
      [] r.op = "draw"       -> [r.owner EXCEPT !.draws = @ + r.amt]
      [] OTHER               -> r.owner

LedgerAfter(r) ==
    CASE r.op = "contribute" -> [r.led EXCEPT !.cash = @ + r.amt, !.capital = @ + r.amt]
      [] r.op \in {"reimburse", "draw"} -> [r.led EXCEPT !.cash = @ - r.amt, !.draws = @ + r.amt]
      [] r.op = "payout"     -> [r.led EXCEPT !.cash = @ - r.amt]
      [] r.op = "floor"      -> [r.led EXCEPT !.floor = r.amt]

CashMoved(r) ==
    CASE r.op = "contribute" -> r.amt
      [] r.op \in {"reimburse", "draw", "payout"} -> -r.amt
      [] OTHER -> 0

(***************************************************************************)
(* Reads.                                                                  *)
(***************************************************************************)
LoadOwner(t) ==
    /\ At(t, "owner")
    /\ Continue(t, [th[t] EXCEPT !.owner = row], Rest(t))
    /\ UNCHANGED <<stores, paid, requests, breaks>>

\* the service's load: capital the treasury knows of is backfilled and saved
\* before anything else happens
Backfill(t) ==
    LET lags == ledger.capital > th[t].owner.capital IN
    /\ At(t, "sync")
    /\ \/ lags /\ Continue(t, [th[t] EXCEPT !.owner.capital = ledger.capital],
                           <<"syncJson", "syncRow">> \o Rest(t))
       \/ ~lags /\ Continue(t, th[t], Rest(t))
    /\ UNCHANGED <<stores, paid, requests, breaks>>

LoadLedger(t) ==
    LET r == [th[t] EXCEPT !.led = ledger] IN
    /\ At(t, "ledger")
    /\ \/ Allowed(r) /\ Continue(t, r, Rest(t))
       \/ ~Allowed(r) /\ Continue(t, r, <<>>)
    /\ UNCHANGED <<stores, paid, requests, breaks>>

(***************************************************************************)
(* Writes.                                                                 *)
(***************************************************************************)
SaveJson(t) ==
    /\ \/ At(t, "json") /\ json' = OwnerAfter(th[t])
       \/ At(t, "syncJson") /\ json' = th[t].owner
    /\ Continue(t, th[t], Rest(t))
    /\ UNCHANGED <<row, ledger, journal, paid, requests, breaks>>

SaveRow(t) ==
    /\ \/ At(t, "row") /\ row' = OwnerAfter(th[t])
       \/ At(t, "syncRow") /\ row' = th[t].owner
    /\ Continue(t, th[t], Rest(t))
    /\ UNCHANGED <<json, ledger, journal, paid, requests, breaks>>

SaveLedger(t) ==
    /\ At(t, "save")
    /\ ledger' = LedgerAfter(th[t])
    /\ paid' = IF th[t].op = "reimburse" THEN paid + th[t].amt ELSE paid
    /\ Continue(t, th[t], Rest(t))
    /\ UNCHANGED <<json, row, journal, requests, breaks>>

Journal(t) ==
    /\ At(t, "journal")
    /\ journal' = journal + CashMoved(th[t])
    /\ Continue(t, th[t], Rest(t))
    /\ UNCHANGED <<json, row, ledger, paid, requests, breaks>>

(***************************************************************************)
(* Requests.                                                               *)
(***************************************************************************)
\* Mutant: the treasury pays before the owner ledger says so
Saves_treasuryFirst == <<"save", "json", "row", "journal">>
Saves == <<"json", "row", "save", "journal">>

OwnerLoad(d) == IF d = "service" THEN <<"owner", "sync">> ELSE <<"owner">>

Steps(d, op) ==
    CASE op \in {"contribute", "reimburse"} -> <<"lock">> \o OwnerLoad(d) \o <<"ledger">> \o Saves
      [] op = "draw" /\ d = "service" -> <<"lock">> \o OwnerLoad(d) \o <<"ledger">> \o Saves
      [] op = "draw" /\ d = "cli"     -> <<"lock", "ledger", "owner">> \o Saves
      [] op = "expense"  -> <<"lock">> \o OwnerLoad(d) \o <<"json", "row", "journal">>
      [] op = "floor"    -> <<"lock", "ledger", "save", "journal">>
      [] op = "snapshot" -> <<"lock">> \o OwnerLoad(d)
      [] op = "payout"   -> <<"ledger", "save", "journal">>

\* reserve-floor policy only has the first implementation, snapshots only the second
Offered(d, op) ==
    /\ op = "floor" => d = "cli"
    /\ op = "snapshot" => d = "service"

Request(t) ==
    /\ ~Busy(t) /\ requests < MaxRequests /\ requests' = requests + 1
    /\ \E d \in Doors, op \in Ops, n \in Amounts \cup Floors :
          /\ Offered(d, op) /\ n \in IF op = "floor" THEN Floors ELSE Amounts
          /\ th' = [th EXCEPT ![t] = [Idle EXCEPT !.op = op, !.door = d, !.amt = n, !.todo = Steps(d, op)]]
    /\ UNCHANGED <<stores, locks, paid, breaks>>

\* an exception or a kill: the lock goes with the process or the with-block
Break(t) ==
    /\ Busy(t) /\ breaks < MaxBreaks /\ breaks' = breaks + 1
    /\ Continue(t, th[t], <<>>)
    /\ UNCHANGED <<stores, paid, requests>>

Next == \E t \in Threads :
    \/ Lock(t) \/ LoadOwner(t) \/ Backfill(t) \/ LoadLedger(t)
    \/ SaveJson(t) \/ SaveRow(t) \/ SaveLedger(t) \/ Journal(t)
    \/ Request(t) \/ Break(t)
Spec == Init /\ [][Next]_vars

(***************************************************************************)
(* Properties.                                                             *)
(***************************************************************************)
Owner  == [capital : Nat, expenses : Nat, reimbursed : Nat, draws : Nat]
Ledger == [cash : Nat, capital : Nat, draws : Nat, floor : Nat]

\* Sums of money are never negative, and the locks are held by threads.
TypeOK ==
    /\ json \in Owner /\ row \in Owner /\ ledger \in Ledger /\ journal \in Int /\ paid \in Nat
    /\ locks \in [{"cli", "service"} -> Threads \cup {None}]

AllIdle == \A t \in Threads : ~Busy(t)

\* What orders the requests of a behaviour: they come through one door, whose lock they
\* take, and no payout does; or they are served one at a time.
Mode(m) ==
    IF m = "one at a time" THEN \A t, u \in Threads : Busy(t) /\ Busy(u) => t = u
    ELSE \A t \in Threads : Busy(t) => th[t].door = m /\ th[t].op # "payout"

\* At rest, unless a request broke off, the four books tell one story: file and row of the owner ledger are
\* equal, the treasury's draws are the owner's draws and reimbursements, the
\* journal explains the cash, and the capital differs at most by what the owner
\* ledger lacked from the start (ARCHITECTURE.md: the owner ledger and the
\* treasury journal "stay canonical").
BooksAgree ==
    AllIdle /\ breaks = 0 =>
        /\ json = row
        /\ ledger.draws = row.reimbursed + row.draws
        /\ ledger.capital - row.capital \in {0, Gap}
        /\ journal = ledger.cash

\* No cash has moved that the owner ledger does not know of, wherever a request
\* breaks off: each operation saves the owner ledger before the treasury.
OwnerKnows ==
    /\ ledger.draws <= row.reimbursed + row.draws
    /\ ledger.capital - row.capital <= Gap

\* The owner is never paid back more than the recorded expenses
\* (reimburse_owner: "exceeds unreimbursed expenses").
PaidIsOwed == paid <= row.expenses

\* No owner ledger on disk claims more reimbursements than expenses.
ReimbursedWithinExpenses ==
    json.reimbursed <= json.expenses /\ row.reimbursed <= row.expenses
=============================================================================
