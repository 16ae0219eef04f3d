---------------------------- MODULE PayoutLedger ----------------------------
(* What the treasury promises about contributor payouts, with every request *)
(* a single step: a proposal is paid after it was cleared, out of the       *)
(* surplus above the reserve floor, and once, or once more at most for      *)
(* every request that broke off; a closed proposal is never paid.           *)
EXTENDS Integers

CONSTANTS Proposals, Amounts, Floors, OpeningCash, OpeningFloor

VARIABLES
    stage, worth,  \* of each proposal
    times,         \* how often each was paid
    broken,        \* requests that broke off
    cash, floor

money == <<cash, floor>>
vars == <<stage, worth, times, broken, money>>

Init ==
    /\ stage = [p \in Proposals |-> "none"]
    /\ worth = [p \in Proposals |-> 0]
    /\ times = [p \in Proposals |-> 0] /\ broken = 0
    /\ cash = OpeningCash /\ floor = OpeningFloor

Move(p, from, to) == stage[p] \in from /\ stage' = [stage EXCEPT ![p] = to]

File(p) ==
    /\ Move(p, {"none"}, "pending")
    /\ \E a \in Amounts : worth' = [worth EXCEPT ![p] = a]
    /\ UNCHANGED <<times, broken, money>>

Clear(p) == Move(p, {"pending"}, "cleared") /\ UNCHANGED <<worth, times, broken, money>>

Close(p) ==
    /\ Move(p, {"pending", "cleared"}, "closed")
    /\ UNCHANGED <<worth, times, broken, money>>

Pay(p) ==
    /\ \/ Move(p, {"cleared"}, "paid")
       \/ Move(p, {"paid"}, "paid") /\ times[p] <= broken
    /\ cash >= floor + worth[p]
    /\ cash' = cash - worth[p]
    /\ times' = [times EXCEPT ![p] = @ + 1]
    /\ UNCHANGED <<worth, broken, floor>>

Break == broken' = broken + 1 /\ UNCHANGED <<stage, worth, times, money>>

Deposit(a) == cash' = cash + a /\ UNCHANGED <<stage, worth, times, broken, floor>>

Draw(a) ==
    /\ cash - a >= floor
    /\ cash' = cash - a
    /\ UNCHANGED <<stage, worth, times, broken, floor>>

SetFloor(f) == floor' = f /\ UNCHANGED <<stage, worth, times, broken, cash>>

Next ==
    \/ \E p \in Proposals : File(p) \/ Clear(p) \/ Close(p) \/ Pay(p)
    \/ \E a \in Amounts : Deposit(a) \/ Draw(a)
    \/ \E f \in Floors : SetFloor(f)
    \/ Break

Spec == Init /\ [][Next]_vars
=============================================================================
