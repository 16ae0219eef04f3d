-------------------------- MODULE OwnerAccountsProofs --------------------------
(* Theorems about OwnerAccounts for any number of threads, both              *)
(* implementations at once, and requests that break off anywhere.            *)
EXTENDS OwnerAccounts, SequenceTheorems, TLAPS

StepNames == {"lock", "owner", "sync", "syncJson", "syncRow", "ledger",
              "json", "row", "save", "journal"}
Spends == {"reimburse", "draw", "payout"}
Movers == Spends \cup {"contribute", "floor"}
AllOps == Movers \cup {"expense", "snapshot", None}

Thread == [op : AllOps, door : {"cli", "service", None}, amt : Nat, todo : Seq(StepNames),
           owner : Owner, led : Ledger]
Has(s, x) == \E i \in 1 .. Len(s) : s[i] = x

\* What the order of a request's steps guarantees: nothing is written before the
\* treasury is read, a reimbursement reads the treasury after the owner ledger,
\* and only operations that move money write the treasury.
Plan(op, s) ==
    /\ s \in Seq(StepNames)
    /\ \A i, j \in 1 .. Len(s) : i < j /\ s[i] \in {"json", "row", "save"} => s[j] # "ledger"
    /\ op = "reimburse" =>
          \A i \in 1 .. Len(s) : s[i] \in {"owner", "sync"} =>
             \E j \in 1 .. Len(s) : i < j /\ s[j] = "ledger"
    /\ Has(s, "save") => op \in Movers

\* A thread's copies are sound, and it has passed the checks or has yet to make them.
ThreadOK(r) ==
    /\ r.owner.reimbursed <= r.owner.expenses
    /\ Plan(r.op, r.todo)
    /\ r.todo # <<>> => Has(r.todo, "ledger") \/ Allowed(r)

IInv ==
    /\ TypeOK
    /\ th \in [Threads -> Thread]
    /\ ReimbursedWithinExpenses
    /\ \A t \in Threads : ThreadOK(th[t])

(***************************************************************************)
(* Sequences of steps.                                                     *)
(***************************************************************************)
LEMMA PlanEmpty == ASSUME NEW op PROVE Plan(op, <<>>)
BY DEF Plan, Has

LEMMA PlanTail ==
    ASSUME NEW op, NEW s, Plan(op, s), s # <<>>
    PROVE  /\ Plan(op, Tail(s))
           /\ Head(s) = s[1] /\ Head(s) \in StepNames
           /\ \A x : Has(s, x) => Head(s) = x \/ Has(Tail(s), x)
           /\ \A x : Has(Tail(s), x) => Has(s, x)
<1> DEFINE r == Tail(s)
<1>1. s \in Seq(StepNames) /\ Len(s) >= 1 /\ Head(s) = s[1] /\ s[1] \in StepNames
  BY DEF Plan
<1>2. r \in Seq(StepNames) /\ Len(r) = Len(s) - 1 /\ \A i \in 1 .. Len(r) : r[i] = s[i + 1]
  BY <1>1
<1>3. \A i \in 1 .. Len(r) : i + 1 \in 1 .. Len(s)
  BY <1>1, <1>2
<1>4. \A i, j \in 1 .. Len(r) : i < j /\ r[i] \in {"json", "row", "save"} => r[j] # "ledger"
  BY <1>1, <1>2, <1>3 DEF Plan
<1>5. ASSUME op = "reimburse", NEW i \in 1 .. Len(r), r[i] \in {"owner", "sync"}
      PROVE  \E j \in 1 .. Len(r) : i < j /\ r[j] = "ledger"
  <2>1. s[i + 1] \in {"owner", "sync"} /\ i + 1 \in 1 .. Len(s)
    BY <1>2, <1>3, <1>5
  <2>2. PICK k \in 1 .. Len(s) : i + 1 < k /\ s[k] = "ledger"
    BY <2>1, <1>5 DEF Plan
  <2>3. k - 1 \in 1 .. Len(r) /\ i < k - 1 /\ r[k - 1] = s[k]
    BY <1>1, <1>2, <2>2
  <2> QED BY <2>2, <2>3
<1>6. ASSUME NEW x, Has(r, x) PROVE Has(s, x)
  BY <1>2, <1>3, <1>6 DEF Has
<1>7. ASSUME NEW x, Has(s, x), s[1] # x PROVE Has(r, x)
  <2>1. PICK i \in 1 .. Len(s) : s[i] = x
    BY <1>7 DEF Has
  <2>2. i - 1 \in 1 .. Len(r) /\ r[i - 1] = s[i]
    BY <1>1, <1>2, <1>7, <2>1
  <2> QED BY <2>1, <2>2 DEF Has
<1> QED BY <1>1, <1>2, <1>4, <1>5, <1>6, <1>7 DEF Plan

LEMMA Prepended ==
    ASSUME NEW S, NEW p \in Seq(S), NEW s \in Seq(S), Len(p) = 2
    PROVE  /\ p \o s \in Seq(S) /\ Len(p \o s) = Len(s) + 2
           /\ \A i \in 1 .. Len(s) : (p \o s)[i + 2] = s[i]
           /\ (p \o s)[1] = p[1] /\ (p \o s)[2] = p[2]
<1>1. /\ p \o s \in Seq(S) /\ Len(p \o s) = 2 + Len(s) /\ Len(s) \in Nat
      /\ \A i \in 1 .. 2 + Len(s) : (p \o s)[i] = IF i <= 2 THEN p[i] ELSE s[i - 2]
  <2>1. /\ p \o s \in Seq(S) /\ Len(p \o s) = Len(p) + Len(s)
        /\ \A i \in 1 .. Len(p) + Len(s) : (p \o s)[i] = IF i <= Len(p) THEN p[i] ELSE s[i - Len(p)]
    BY ConcatProperties
  <2>2. Len(s) \in Nat
    OBVIOUS
  <2> QED BY <2>1, <2>2
<1>2. ASSUME NEW i \in 1 .. Len(s) PROVE (p \o s)[i + 2] = s[i]
  <2>1. i + 2 \in 1 .. 2 + Len(s) /\ ~(i + 2 <= 2) /\ (i + 2) - 2 = i
    BY <1>1
  <2> QED BY <1>1, <2>1
<1>3. 1 \in 1 .. 2 + Len(s) /\ 2 \in 1 .. 2 + Len(s)
  BY <1>1
<1> QED BY <1>1, <1>2, <1>3

\* The capital backfill puts its two writes in front.
LEMMA PlanSync ==
    ASSUME NEW op, NEW s, Plan(op, s)
    PROVE  /\ Plan(op, <<"syncJson", "syncRow">> \o s)
           /\ \A x : Has(s, x) => Has(<<"syncJson", "syncRow">> \o s, x)
           /\ <<"syncJson", "syncRow">> \o s # <<>>
<1> DEFINE p == <<"syncJson", "syncRow">>  r == p \o s
<1>1. p \in Seq(StepNames) /\ Len(p) = 2 /\ p[1] = "syncJson" /\ p[2] = "syncRow"
  BY DEF StepNames
<1>2. s \in Seq(StepNames)
  BY DEF Plan
<1> HIDE DEF p
<1>3. /\ r \in Seq(StepNames) /\ Len(r) = Len(s) + 2 /\ Len(s) \in Nat
      /\ \A i \in 1 .. Len(s) : r[i + 2] = s[i]
      /\ r[1] = "syncJson" /\ r[2] = "syncRow"
  BY <1>1, <1>2, Prepended
<1> HIDE DEF r
<1>4. ASSUME NEW i \in 1 .. Len(r), r[i] \notin {"syncJson", "syncRow"}
      PROVE  i - 2 \in 1 .. Len(s) /\ r[i] = s[i - 2]
  <2>1. i # 1 /\ i # 2
    BY <1>3, <1>4
  <2>2. i - 2 \in 1 .. Len(s) /\ (i - 2) + 2 = i
    BY <1>3, <2>1
  <2> QED BY <1>3, <2>2
<1>5. \A i, j \in 1 .. Len(r) : i < j /\ r[i] \in {"json", "row", "save"} => r[j] # "ledger"
  <2> SUFFICES ASSUME NEW i \in 1 .. Len(r), NEW j \in 1 .. Len(r), i < j,
                      r[i] \in {"json", "row", "save"}, r[j] = "ledger"
               PROVE  FALSE
    OBVIOUS
  <2>1. i - 2 \in 1 .. Len(s) /\ r[i] = s[i - 2] /\ j - 2 \in 1 .. Len(s) /\ r[j] = s[j - 2]
    BY <1>4
  <2>2. i - 2 < j - 2
    BY <1>3
  <2> QED BY <2>1, <2>2 DEF Plan
<1>6. ASSUME op = "reimburse", NEW i \in 1 .. Len(r), r[i] \in {"owner", "sync"}
      PROVE  \E j \in 1 .. Len(r) : i < j /\ r[j] = "ledger"
  <2>1. i - 2 \in 1 .. Len(s) /\ r[i] = s[i - 2]
    BY <1>4, <1>6
  <2>2. PICK k \in 1 .. Len(s) : i - 2 < k /\ s[k] = "ledger"
    BY <1>6, <2>1 DEF Plan
  <2>3. k + 2 \in 1 .. Len(r) /\ i < k + 2 /\ r[k + 2] = "ledger"
    BY <1>3, <2>2
  <2> QED BY <2>3
<1>7. ASSUME NEW x, Has(s, x) PROVE Has(r, x)
  <2>1. PICK i \in 1 .. Len(s) : s[i] = x
    BY <1>7 DEF Has
  <2>2. i + 2 \in 1 .. Len(r) /\ r[i + 2] = x
    BY <1>3, <2>1
  <2> QED BY <2>2 DEF Has
<1>8. Has(r, "save") => Has(s, "save")
  BY <1>4 DEF Has
<1>9. r # <<>>
  BY <1>3
<1>10. Plan(op, r)
  BY <1>3, <1>5, <1>6, <1>8 DEF Plan
<1> QED BY <1>7, <1>9, <1>10 DEF r, p

\* Every request starts from a plan that reads the treasury, if it spends.
LEMMA PlanSteps ==
    ASSUME NEW d \in {"cli", "service"}, NEW op \in AllOps \ {None}
    PROVE  /\ Plan(op, Steps(d, op))
           /\ Steps(d, op) # <<>>
           /\ op \in Spends => Has(Steps(d, op), "ledger")
<1>1. CASE op = "contribute" \/ op = "reimburse" \/ (op = "draw" /\ d = "service")
  <2>1. CASE d = "cli"
    <3> DEFINE s == <<"lock">> \o <<"owner">> \o <<"ledger">> \o <<"json", "row", "save", "journal">>
    <3>1. s \in Seq(StepNames) BY DEF StepNames
    <3>2. /\ Len(s) = 7 /\ s[1] = "lock" /\ s[2] = "owner" /\ s[3] = "ledger"
          /\ s[4] = "json" /\ s[5] = "row" /\ s[6] = "save" /\ s[7] = "journal"
      OBVIOUS
    <3>3. Steps(d, op) = s BY <1>1, <2>1 DEF Steps, OwnerLoad, Saves
    <3> HIDE DEF s
    <3>4. Has(s, "ledger") BY <3>2 DEF Has
    <3>5. \A i \in 1 .. Len(s) : s[i] \in {"json", "row", "save"} => 3 < i BY <3>2
    <3>6. \A j \in 1 .. Len(s) : 3 < j => s[j] # "ledger" BY <3>2
    <3>7. \A i, j \in 1 .. Len(s) : i < j /\ s[i] \in {"json", "row", "save"} => s[j] # "ledger"
      BY <3>2, <3>5, <3>6
    <3>8. \A i \in 1 .. Len(s) : s[i] \in {"owner", "sync"} => i < 3 BY <3>2
    <3>9. 3 \in 1 .. Len(s) /\ s[3] = "ledger" /\ s # <<>> BY <3>2
    <3>10. Plan(op, s) BY <1>1, <3>1, <3>7, <3>8, <3>9 DEF Plan, Movers, Spends
    <3> QED BY <3>3, <3>4, <3>9, <3>10
  <2>2. CASE d = "service"
    <3> DEFINE s == <<"lock">> \o <<"owner", "sync">> \o <<"ledger">> \o <<"json", "row", "save", "journal">>
    <3>1. s \in Seq(StepNames) BY DEF StepNames
    <3>2. /\ Len(s) = 8 /\ s[1] = "lock" /\ s[2] = "owner" /\ s[3] = "sync" /\ s[4] = "ledger"
          /\ s[5] = "json" /\ s[6] = "row" /\ s[7] = "save" /\ s[8] = "journal"
      OBVIOUS
    <3>3. Steps(d, op) = s BY <1>1, <2>2 DEF Steps, OwnerLoad, Saves
    <3> HIDE DEF s
    <3>4. Has(s, "ledger") BY <3>2 DEF Has
    <3>5. \A i \in 1 .. Len(s) : s[i] \in {"json", "row", "save"} => 4 < i BY <3>2
    <3>6. \A j \in 1 .. Len(s) : 4 < j => s[j] # "ledger" BY <3>2
    <3>7. \A i, j \in 1 .. Len(s) : i < j /\ s[i] \in {"json", "row", "save"} => s[j] # "ledger"
      BY <3>2, <3>5, <3>6
    <3>8. \A i \in 1 .. Len(s) : s[i] \in {"owner", "sync"} => i < 4 BY <3>2
    <3>9. 4 \in 1 .. Len(s) /\ s[4] = "ledger" /\ s # <<>> BY <3>2
    <3>10. Plan(op, s) BY <1>1, <3>1, <3>7, <3>8, <3>9 DEF Plan, Movers, Spends
    <3> QED BY <3>3, <3>4, <3>9, <3>10
  <2> QED BY <2>1, <2>2
<1>2. CASE op = "draw" /\ d = "cli"
  <2> DEFINE s == <<"lock", "ledger", "owner">> \o <<"json", "row", "save", "journal">>
  <2>1. s \in Seq(StepNames) BY DEF StepNames
  <2>2. /\ Len(s) = 7 /\ s[1] = "lock" /\ s[2] = "ledger" /\ s[3] = "owner"
        /\ s[4] = "json" /\ s[5] = "row" /\ s[6] = "save" /\ s[7] = "journal"
    OBVIOUS
  <2>3. Steps(d, op) = s BY <1>2 DEF Steps, Saves
  <2> HIDE DEF s
  <2> QED BY <1>2, <2>1, <2>2, <2>3 DEF Plan, Has, Movers, Spends
<1>3. CASE op = "expense"
  <2>1. CASE d = "cli"
    <3> DEFINE s == <<"lock">> \o <<"owner">> \o <<"json", "row", "journal">>
    <3>1. s \in Seq(StepNames) BY DEF StepNames
    <3>2. /\ Len(s) = 5 /\ s[1] = "lock" /\ s[2] = "owner" /\ s[3] = "json"
          /\ s[4] = "row" /\ s[5] = "journal"
      OBVIOUS
    <3>3. Steps(d, op) = s BY <1>3, <2>1 DEF Steps, OwnerLoad
    <3> HIDE DEF s
    <3> QED BY <1>3, <3>1, <3>2, <3>3 DEF Plan, Has, Spends
  <2>2. CASE d = "service"
    <3> DEFINE s == <<"lock">> \o <<"owner", "sync">> \o <<"json", "row", "journal">>
    <3>1. s \in Seq(StepNames) BY DEF StepNames
    <3>2. /\ Len(s) = 6 /\ s[1] = "lock" /\ s[2] = "owner" /\ s[3] = "sync" /\ s[4] = "json"
          /\ s[5] = "row" /\ s[6] = "journal"
      OBVIOUS
    <3>3. Steps(d, op) = s BY <1>3, <2>2 DEF Steps, OwnerLoad
    <3> HIDE DEF s
    <3> QED BY <1>3, <3>1, <3>2, <3>3 DEF Plan, Has, Spends
  <2> QED BY <2>1, <2>2
<1>4. CASE op = "floor"
  <2> DEFINE s == <<"lock", "ledger", "save", "journal">>
  <2>1. s \in Seq(StepNames) BY DEF StepNames
  <2>2. /\ Len(s) = 4 /\ s[1] = "lock" /\ s[2] = "ledger" /\ s[3] = "save" /\ s[4] = "journal"
    OBVIOUS
  <2>3. Steps(d, op) = s BY <1>4 DEF Steps
  <2> HIDE DEF s
  <2> QED BY <1>4, <2>1, <2>2, <2>3 DEF Plan, Has, Movers, Spends
<1>5. CASE op = "snapshot"
  <2>1. CASE d = "cli"
    <3> DEFINE s == <<"lock">> \o <<"owner">>
    <3>1. s \in Seq(StepNames) BY DEF StepNames
    <3>2. Len(s) = 2 /\ s[1] = "lock" /\ s[2] = "owner"
      OBVIOUS
    <3>3. Steps(d, op) = s BY <1>5, <2>1 DEF Steps, OwnerLoad
    <3> HIDE DEF s
    <3>4. \A i \in 1 .. Len(s) : s[i] \in {"lock", "owner", "sync"} BY <3>2
    <3> QED BY <1>5, <3>1, <3>2, <3>3, <3>4 DEF Plan, Has, Spends
  <2>2. CASE d = "service"
    <3> DEFINE s == <<"lock">> \o <<"owner", "sync">>
    <3>1. s \in Seq(StepNames) BY DEF StepNames
    <3>2. Len(s) = 3 /\ s[1] = "lock" /\ s[2] = "owner" /\ s[3] = "sync"
      OBVIOUS
    <3>3. Steps(d, op) = s BY <1>5, <2>2 DEF Steps, OwnerLoad
    <3> HIDE DEF s
    <3>4. \A i \in 1 .. Len(s) : s[i] \in {"lock", "owner", "sync"} BY <3>2
    <3>5. ~Has(s, "save") /\ s # <<>> BY <3>2, <3>4 DEF Has
    <3>6. Plan(op, s) BY <1>5, <3>1, <3>4, <3>5 DEF Plan
    <3> QED BY <1>5, <3>3, <3>5, <3>6 DEF Spends
  <2> QED BY <2>1, <2>2
<1>6. CASE op = "payout"
  <2> DEFINE s == <<"ledger", "save", "journal">>
  <2>1. s \in Seq(StepNames) BY DEF StepNames
  <2>2. Len(s) = 3 /\ s[1] = "ledger" /\ s[2] = "save" /\ s[3] = "journal"
    OBVIOUS
  <2>3. Steps(d, op) = s BY <1>6 DEF Steps
  <2> HIDE DEF s
  <2>4. Has(s, "ledger") BY <2>2 DEF Has
  <2>5. \A i \in 2 .. Len(s) : s[i] # "ledger" BY <2>2
  <2>6. \A i, j \in 1 .. Len(s) : i < j => s[j] # "ledger" BY <2>2, <2>5
  <2>7. s # <<>> BY <2>2
  <2>8. Plan(op, s) BY <1>6, <2>1, <2>6 DEF Plan, Movers, Spends
  <2>9. Plan(op, Steps(d, op)) /\ Steps(d, op) # <<>> /\ Has(Steps(d, op), "ledger")
    BY <2>3, <2>4, <2>7, <2>8
  <2> QED BY <2>9
<1>7. op \in {"contribute", "reimburse", "draw", "expense", "floor", "snapshot", "payout"}
  BY DEF AllOps, Movers, Spends
<1> QED BY <1>1, <1>2, <1>3, <1>4, <1>5, <1>6, <1>7

(***************************************************************************)
(* Steps of a thread.                                                      *)
(***************************************************************************)
LEMMA IdleOK == Idle \in Thread /\ ThreadOK(Idle)
<1>1. OpeningOwner \in Owner /\ OpeningOwner.reimbursed <= OpeningOwner.expenses
  BY OwnerAccountsAssumption DEF OpeningOwner, Owner
<1>2. Opening \in Ledger
  BY OwnerAccountsAssumption DEF Opening, Ledger
<1>3. <<>> \in Seq(StepNames)
  OBVIOUS
<1>4. Idle \in Thread
  BY <1>1, <1>2, <1>3 DEF Idle, Thread, AllOps
<1> QED BY <1>1, <1>4, PlanEmpty DEF ThreadOK, Idle

\* Going on with a sound thread keeps all threads sound.
LEMMA ContinueKeeps ==
    ASSUME IInv, NEW t \in Threads, NEW r \in Thread, NEW rest \in Seq(StepNames),
           Continue(t, r, rest),
           rest # <<>> => ThreadOK([r EXCEPT !.todo = rest])
    PROVE  /\ th' \in [Threads -> Thread]
           /\ \A u \in Threads : ThreadOK(th'[u])
           /\ locks' \in [{"cli", "service"} -> Threads \cup {None}]
<1> DEFINE n == IF rest = <<>> THEN Idle ELSE [r EXCEPT !.todo = rest]
<1>1. n \in Thread /\ ThreadOK(n)
  <2>1. CASE rest = <<>>
    BY <2>1, IdleOK
  <2>2. CASE rest # <<>>
    <3>1. [r EXCEPT !.todo = rest] \in Thread
      BY DEF Thread
    <3> QED BY <2>2, <3>1
  <2> QED BY <2>1, <2>2
<1>2. th' = [th EXCEPT ![t] = n]
  BY DEF Continue
<1> HIDE DEF n
<1>3. locks' \in [{"cli", "service"} -> Threads \cup {None}]
  BY DEF Continue, IInv, TypeOK
<1> QED BY <1>1, <1>2, <1>3 DEF IInv

\* What a busy thread may assume of itself, and of itself without its next step.
LEMMA BusyFacts ==
    ASSUME IInv, NEW t \in Threads, Busy(t)
    PROVE  /\ th[t] \in Thread /\ ThreadOK(th[t])
           /\ Rest(t) \in Seq(StepNames) /\ Plan(th[t].op, Rest(t))
           /\ ~At(t, "ledger") /\ Has(th[t].todo, "ledger") => Has(Rest(t), "ledger")
           /\ At(t, "owner") \/ At(t, "sync")
                 => (th[t].op = "reimburse" => Has(Rest(t), "ledger"))
           /\ At(t, "json") \/ At(t, "row") \/ At(t, "save") => Allowed(th[t])
           /\ At(t, "save") => th[t].op \in Movers
<1> DEFINE r == th[t]  s == r.todo
<1>1. r \in Thread /\ ThreadOK(r) /\ s # <<>> /\ Plan(r.op, s)
  BY DEF IInv, ThreadOK, Busy
<1>2. /\ Plan(r.op, Tail(s)) /\ Head(s) = s[1]
      /\ \A x : Has(s, x) => Head(s) = x \/ Has(Tail(s), x)
  BY <1>1, PlanTail
<1>3. Len(s) \in Nat /\ 1 \in 1 .. Len(s)
  BY <1>1 DEF Plan
<1>4. ASSUME s[1] \in {"json", "row", "save"} PROVE Allowed(r)
  <2>1. ~Has(s, "ledger")
    BY <1>3, <1>4, <1>1 DEF Has, Plan
  <2> QED BY <1>1, <2>1 DEF ThreadOK
<1>5. ASSUME s[1] \in {"owner", "sync"}, r.op = "reimburse" PROVE Has(Tail(s), "ledger")
  <2>1. Has(s, "ledger")
    BY <1>1, <1>3, <1>5 DEF Plan, Has
  <2> QED BY <1>2, <1>5, <2>1
<1>6. s[1] = "save" => r.op \in Movers
  BY <1>1, <1>3 DEF Plan, Has
<1>7. Tail(s) \in Seq(StepNames)
  BY <1>2 DEF Plan
<1> QED BY <1>1, <1>2, <1>4, <1>5, <1>6, <1>7 DEF At, Rest, Busy

\* A step that leaves the copies alone and is not the read of the treasury.
LEMMA PlainStep ==
    ASSUME IInv, NEW t \in Threads, Busy(t), ~At(t, "ledger"), Continue(t, th[t], Rest(t))
    PROVE  /\ th' \in [Threads -> Thread]
           /\ \A u \in Threads : ThreadOK(th'[u])
           /\ locks' \in [{"cli", "service"} -> Threads \cup {None}]
<1>1. ThreadOK([th[t] EXCEPT !.todo = Rest(t)])
  BY BusyFacts DEF ThreadOK, Allowed, Thread, Busy
<1> QED BY <1>1, BusyFacts, ContinueKeeps

(***************************************************************************)
(* Actions.                                                                *)
(***************************************************************************)
LEMMA LockKeeps == ASSUME IInv, NEW t \in Threads, Lock(t) PROVE IInv'
<1> DEFINE r == [th[t] EXCEPT !.todo = Rest(t)]
<1>1. Busy(t) /\ ~At(t, "ledger")
  BY DEF Lock, At
<1>2. th[t] \in Thread /\ ThreadOK(th[t]) /\ Rest(t) \in Seq(StepNames) /\ Plan(th[t].op, Rest(t))
  BY <1>1, BusyFacts
<1>3. r \in Thread
  BY <1>2 DEF Thread
<1>4. ThreadOK(r)
  BY <1>1, <1>2, BusyFacts DEF ThreadOK, Allowed, Thread, Busy
<1>5. th' = [th EXCEPT ![t] = r]
  BY DEF Lock, IInv, Thread
<1> HIDE DEF r
<1>6. th' \in [Threads -> Thread] /\ \A u \in Threads : ThreadOK(th'[u])
  BY <1>3, <1>4, <1>5 DEF IInv
<1>7. locks' \in [{"cli", "service"} -> Threads \cup {None}]
  BY DEF Lock, IInv, TypeOK
<1> QED BY <1>6, <1>7 DEF Lock, IInv, TypeOK, ReimbursedWithinExpenses

LEMMA LoadOwnerKeeps == ASSUME IInv, NEW t \in Threads, LoadOwner(t) PROVE IInv'
<1> DEFINE r == [th[t] EXCEPT !.owner = row]
<1>1. Busy(t) /\ ~At(t, "ledger") /\ At(t, "owner")
  BY DEF LoadOwner, At
<1>2. /\ th[t] \in Thread /\ ThreadOK(th[t]) /\ Rest(t) \in Seq(StepNames) /\ Plan(th[t].op, Rest(t))
      /\ Has(th[t].todo, "ledger") => Has(Rest(t), "ledger")
      /\ th[t].op = "reimburse" => Has(Rest(t), "ledger")
  BY <1>1, BusyFacts
<1>3. row \in Owner /\ row.reimbursed <= row.expenses
  BY DEF IInv, TypeOK, ReimbursedWithinExpenses
<1>4. r \in Thread
  BY <1>2, <1>3 DEF Thread
<1>5. ThreadOK([r EXCEPT !.todo = Rest(t)])
  BY <1>1, <1>2, <1>3 DEF ThreadOK, Allowed, Thread, Busy
<1>6. Continue(t, r, Rest(t))
  BY DEF LoadOwner
<1> HIDE DEF r
<1>7. /\ th' \in [Threads -> Thread] /\ \A u \in Threads : ThreadOK(th'[u])
      /\ locks' \in [{"cli", "service"} -> Threads \cup {None}]
  BY <1>2, <1>4, <1>5, <1>6, ContinueKeeps
<1> QED BY <1>7 DEF LoadOwner, stores, IInv, TypeOK, ReimbursedWithinExpenses

LEMMA BackfillKeeps == ASSUME IInv, NEW t \in Threads, Backfill(t) PROVE IInv'
<1> DEFINE r == [th[t] EXCEPT !.owner.capital = ledger.capital]
           rest == <<"syncJson", "syncRow">> \o Rest(t)
<1>1. Busy(t) /\ ~At(t, "ledger") /\ At(t, "sync")
  BY DEF Backfill, At
<1>2. /\ th[t] \in Thread /\ ThreadOK(th[t]) /\ Rest(t) \in Seq(StepNames) /\ Plan(th[t].op, Rest(t))
      /\ Has(th[t].todo, "ledger") => Has(Rest(t), "ledger")
      /\ th[t].op = "reimburse" => Has(Rest(t), "ledger")
  BY <1>1, BusyFacts
<1>3. CASE Continue(t, r, rest)
  <2>1. ledger.capital \in Nat
    BY DEF IInv, TypeOK, Ledger
  <2>2. r \in Thread /\ r.owner.reimbursed <= r.owner.expenses /\ r.op = th[t].op
        /\ r.amt = th[t].amt /\ r.led = th[t].led
    <3>1. th[t].owner \in Owner /\ th[t].owner.reimbursed <= th[t].owner.expenses
      BY <1>2 DEF Thread, ThreadOK
    <3> DEFINE o == [th[t].owner EXCEPT !.capital = ledger.capital]
    <3>2. o \in Owner /\ o.reimbursed <= o.expenses
      BY <2>1, <3>1 DEF Owner
    <3>3. r = [th[t] EXCEPT !.owner = o]
      BY <1>2, <3>1 DEF Thread, Owner
    <3> HIDE DEF o
    <3> QED BY <1>2, <3>2, <3>3 DEF Thread
  <2>3. /\ Plan(th[t].op, rest) /\ rest # <<>>
        /\ Has(Rest(t), "ledger") => Has(rest, "ledger")
    BY <1>2, PlanSync
  <2>4. rest \in Seq(StepNames)
    BY <2>3 DEF Plan
  <2> HIDE DEF r, rest
  <2>5. ThreadOK([r EXCEPT !.todo = rest])
    BY <1>1, <1>2, <2>2, <2>3 DEF ThreadOK, Allowed, Thread, Busy
  <2> QED BY <1>3, <2>2, <2>4, <2>5, ContinueKeeps DEF Backfill, stores, IInv, TypeOK, ReimbursedWithinExpenses
<1>4. CASE Continue(t, th[t], Rest(t))
  BY <1>1, <1>4, PlainStep DEF Backfill, stores, IInv, TypeOK, ReimbursedWithinExpenses
<1> QED BY <1>3, <1>4 DEF Backfill

LEMMA LoadLedgerKeeps == ASSUME IInv, NEW t \in Threads, LoadLedger(t) PROVE IInv'
<1> DEFINE r == [th[t] EXCEPT !.led = ledger]
<1>1. Busy(t)
  BY DEF LoadLedger, At
<1>2. /\ th[t] \in Thread /\ ThreadOK(th[t]) /\ Rest(t) \in Seq(StepNames) /\ Plan(th[t].op, Rest(t))
  BY <1>1, BusyFacts
<1>3. r \in Thread /\ r.owner = th[t].owner /\ r.op = th[t].op
  BY <1>2 DEF Thread, IInv, TypeOK
<1>4. CASE Allowed(r) /\ Continue(t, r, Rest(t))
  <2>1. ThreadOK([r EXCEPT !.todo = Rest(t)])
    BY <1>2, <1>3, <1>4 DEF ThreadOK, Allowed, Thread
  <2> HIDE DEF r
  <2>2. /\ th' \in [Threads -> Thread] /\ \A u \in Threads : ThreadOK(th'[u])
        /\ locks' \in [{"cli", "service"} -> Threads \cup {None}]
    BY <1>2, <1>3, <1>4, <2>1, ContinueKeeps
  <2> QED BY <2>2 DEF LoadLedger, stores, IInv, TypeOK, ReimbursedWithinExpenses
<1>5. CASE Continue(t, r, <<>>)
  <2> HIDE DEF r
  <2>1. <<>> \in Seq(StepNames)
    OBVIOUS
  <2>2. /\ th' \in [Threads -> Thread] /\ \A u \in Threads : ThreadOK(th'[u])
        /\ locks' \in [{"cli", "service"} -> Threads \cup {None}]
    BY <1>3, <1>5, <2>1, ContinueKeeps
  <2> QED BY <2>2 DEF LoadLedger, stores, IInv, TypeOK, ReimbursedWithinExpenses
<1> QED BY <1>4, <1>5 DEF LoadLedger

\* The owner ledger a thread writes claims no more reimbursements than expenses.
LEMMA OwnerAfterSound ==
    ASSUME NEW r \in Thread, r.owner.reimbursed <= r.owner.expenses, Allowed(r)
    PROVE  OwnerAfter(r) \in Owner /\ OwnerAfter(r).reimbursed <= OwnerAfter(r).expenses
<1>1. r.owner \in Owner /\ r.amt \in Nat
  BY DEF Thread
<1>2. r.op = "reimburse" => r.owner.reimbursed + r.amt <= r.owner.expenses
  BY <1>1 DEF Allowed, Owed, Owner
<1>3. CASE r.op = "contribute"
  BY <1>1, <1>3 DEF OwnerAfter, Owner
<1>4. CASE r.op = "expense"
  BY <1>1, <1>4 DEF OwnerAfter, Owner
<1>5. CASE r.op = "reimburse"
  BY <1>1, <1>2, <1>5 DEF OwnerAfter, Owner
<1>6. CASE r.op = "draw"
  BY <1>1, <1>6 DEF OwnerAfter, Owner
<1>7. CASE r.op \notin {"contribute", "expense", "reimburse", "draw"}
  BY <1>1, <1>7 DEF OwnerAfter
<1> QED BY <1>3, <1>4, <1>5, <1>6, <1>7

\* The treasury a thread writes holds no debt.
LEMMA LedgerAfterTyped ==
    ASSUME NEW r \in Thread, r.op \in Movers, Allowed(r)
    PROVE  LedgerAfter(r) \in Ledger
<1>1. r.led \in Ledger /\ r.amt \in Nat
  BY DEF Thread
<1>2. ASSUME r.op \in Spends PROVE r.led.cash - r.amt \in Nat
  <2>1. r.led.cash \in Nat /\ r.led.floor \in Nat
    BY <1>1 DEF Ledger
  <2>2. r.amt <= r.led.cash - r.led.floor
    BY <1>2 DEF Allowed, Available, Spends
  <2>3. \A c, f, n \in Nat : n <= c - f => c - n \in Nat
    OBVIOUS
  <2> QED BY <1>1, <2>1, <2>2, <2>3
<1>3. CASE r.op = "contribute"
  <2>1. LedgerAfter(r) = [r.led EXCEPT !.cash = @ + r.amt, !.capital = @ + r.amt]
    BY <1>3 DEF LedgerAfter
  <2>2. r.led.cash + r.amt \in Nat /\ r.led.capital + r.amt \in Nat
    BY <1>1 DEF Ledger
  <2> QED BY <1>1, <2>1, <2>2 DEF Ledger
<1>4. CASE r.op \in {"reimburse", "draw"}
  <2>1. LedgerAfter(r) = [r.led EXCEPT !.cash = @ - r.amt, !.draws = @ + r.amt]
    BY <1>4 DEF LedgerAfter
  <2>2. r.led.draws + r.amt \in Nat /\ r.led.cash - r.amt \in Nat
    BY <1>1, <1>2, <1>4 DEF Ledger, Spends
  <2> QED BY <1>1, <2>1, <2>2 DEF Ledger
<1>5. CASE r.op = "payout"
  <2>1. LedgerAfter(r) = [r.led EXCEPT !.cash = @ - r.amt]
    BY <1>5 DEF LedgerAfter
  <2> QED BY <1>1, <1>2, <1>5, <2>1 DEF Ledger, Spends
<1>6. CASE r.op = "floor"
  BY <1>1, <1>6 DEF LedgerAfter, Ledger
<1> QED BY <1>3, <1>4, <1>5, <1>6 DEF Movers, Spends

LEMMA SaveJsonKeeps == ASSUME IInv, NEW t \in Threads, SaveJson(t) PROVE IInv'
<1>1. Busy(t) /\ ~At(t, "ledger") /\ Continue(t, th[t], Rest(t))
  BY DEF SaveJson, At
<1>2. th[t] \in Thread /\ ThreadOK(th[t]) /\ th[t].owner \in Owner
  BY <1>1, BusyFacts DEF Thread
<1>3. json' \in Owner /\ json'.reimbursed <= json'.expenses
  <2>1. CASE At(t, "json") /\ json' = OwnerAfter(th[t])
    <3>1. Allowed(th[t])
      BY <1>1, <2>1, BusyFacts
    <3> QED BY <1>2, <2>1, <3>1, OwnerAfterSound DEF ThreadOK
  <2>2. CASE json' = th[t].owner
    BY <1>2, <2>2 DEF ThreadOK
  <2> QED BY <2>1, <2>2 DEF SaveJson
<1> QED BY <1>1, <1>3, PlainStep DEF SaveJson, IInv, TypeOK, ReimbursedWithinExpenses

LEMMA SaveRowKeeps == ASSUME IInv, NEW t \in Threads, SaveRow(t) PROVE IInv'
<1>1. Busy(t) /\ ~At(t, "ledger") /\ Continue(t, th[t], Rest(t))
  BY DEF SaveRow, At
<1>2. th[t] \in Thread /\ ThreadOK(th[t]) /\ th[t].owner \in Owner
  BY <1>1, BusyFacts DEF Thread
<1>3. row' \in Owner /\ row'.reimbursed <= row'.expenses
  <2>1. CASE At(t, "row") /\ row' = OwnerAfter(th[t])
    <3>1. Allowed(th[t])
      BY <1>1, <2>1, BusyFacts
    <3> QED BY <1>2, <2>1, <3>1, OwnerAfterSound DEF ThreadOK
  <2>2. CASE row' = th[t].owner
    BY <1>2, <2>2 DEF ThreadOK
  <2> QED BY <2>1, <2>2 DEF SaveRow
<1> QED BY <1>1, <1>3, PlainStep DEF SaveRow, IInv, TypeOK, ReimbursedWithinExpenses

LEMMA SaveLedgerKeeps == ASSUME IInv, NEW t \in Threads, SaveLedger(t) PROVE IInv'
<1>1. Busy(t) /\ ~At(t, "ledger") /\ At(t, "save") /\ Continue(t, th[t], Rest(t))
  BY DEF SaveLedger, At
<1>2. th[t] \in Thread /\ Allowed(th[t]) /\ th[t].op \in Movers /\ th[t].amt \in Nat
  BY <1>1, BusyFacts DEF Thread
<1>3. ledger' \in Ledger
  BY <1>2, LedgerAfterTyped DEF SaveLedger
<1>4. paid' \in Nat
  BY <1>2 DEF SaveLedger, IInv, TypeOK
<1> QED BY <1>1, <1>3, <1>4, PlainStep DEF SaveLedger, IInv, TypeOK, ReimbursedWithinExpenses

LEMMA JournalKeeps == ASSUME IInv, NEW t \in Threads, Journal(t) PROVE IInv'
<1>1. Busy(t) /\ ~At(t, "ledger") /\ Continue(t, th[t], Rest(t))
  BY DEF Journal, At
<1>2. th[t].amt \in Nat
  BY <1>1, BusyFacts DEF Thread
<1>3. journal' \in Int
  BY <1>2 DEF Journal, CashMoved, IInv, TypeOK
<1> QED BY <1>1, <1>3, PlainStep DEF Journal, IInv, TypeOK, ReimbursedWithinExpenses

LEMMA RequestKeeps == ASSUME IInv, NEW t \in Threads, Request(t) PROVE IInv'
<1>1. PICK d \in Doors, op \in Ops, n \in Amounts \cup Floors :
        th' = [th EXCEPT ![t] = [Idle EXCEPT !.op = op, !.door = d, !.amt = n, !.todo = Steps(d, op)]]
  BY DEF Request
<1> DEFINE r == [Idle EXCEPT !.op = op, !.door = d, !.amt = n, !.todo = Steps(d, op)]
<1>2. d \in {"cli", "service"} /\ op \in AllOps \ {None} /\ n \in Nat
  BY OwnerAccountsAssumption DEF AllOps, Movers, Spends, None
<1>3. /\ Plan(op, Steps(d, op)) /\ Steps(d, op) \in Seq(StepNames)
      /\ op \in Spends => Has(Steps(d, op), "ledger")
  BY <1>2, PlanSteps DEF Plan
<1>4. Idle \in Thread /\ Idle.owner.reimbursed <= Idle.owner.expenses
  BY IdleOK DEF ThreadOK
<1>5. r \in Thread /\ r.op = op /\ r.todo = Steps(d, op) /\ r.owner = Idle.owner
  BY <1>2, <1>3, <1>4 DEF Thread
<1>6. th' = [th EXCEPT ![t] = r]
  BY <1>1
<1> HIDE DEF r
<1>7. ThreadOK(r)
  BY <1>3, <1>4, <1>5 DEF ThreadOK, Allowed, Spends
<1>8. th' \in [Threads -> Thread] /\ \A u \in Threads : ThreadOK(th'[u])
  BY <1>5, <1>6, <1>7 DEF IInv
<1> QED BY <1>8 DEF Request, stores, IInv, TypeOK, ReimbursedWithinExpenses

LEMMA BreakKeeps == ASSUME IInv, NEW t \in Threads, Break(t) PROVE IInv'
<1>1. th[t] \in Thread /\ <<>> \in Seq(StepNames)
  BY DEF IInv
<1>2. /\ th' \in [Threads -> Thread] /\ \A u \in Threads : ThreadOK(th'[u])
      /\ locks' \in [{"cli", "service"} -> Threads \cup {None}]
  BY <1>1, ContinueKeeps DEF Break
<1> QED BY <1>2 DEF Break, stores, IInv, TypeOK, ReimbursedWithinExpenses

(***************************************************************************)
(* Theorems.                                                               *)
(***************************************************************************)
LEMMA Initially == Init => IInv
<1>1. OpeningOwner \in Owner /\ OpeningOwner.reimbursed <= OpeningOwner.expenses
  BY OwnerAccountsAssumption DEF OpeningOwner, Owner
<1>2. Opening \in Ledger /\ OpeningCash \in Int
  BY OwnerAccountsAssumption DEF Opening, Ledger
<1> QED BY <1>1, <1>2, IdleOK DEF Init, IInv, TypeOK, ReimbursedWithinExpenses

LEMMA Inductive == IInv /\ [Next]_vars => IInv'
<1> SUFFICES ASSUME IInv, [Next]_vars PROVE IInv'
  OBVIOUS
<1>1. ASSUME NEW t \in Threads,
             \/ Lock(t) \/ LoadOwner(t) \/ Backfill(t) \/ LoadLedger(t)
             \/ SaveJson(t) \/ SaveRow(t) \/ SaveLedger(t) \/ Journal(t)
             \/ Request(t) \/ Break(t)
      PROVE  IInv'
  BY <1>1, LockKeeps, LoadOwnerKeeps, BackfillKeeps, LoadLedgerKeeps, SaveJsonKeeps,
     SaveRowKeeps, SaveLedgerKeeps, JournalKeeps, RequestKeeps, BreakKeeps
<1>2. CASE UNCHANGED vars
  BY <1>2 DEF vars, IInv, TypeOK, ReimbursedWithinExpenses
<1> QED BY <1>1, <1>2 DEF Next

\* The treasury never goes into debt: whatever requests of either implementation
\* interleave or break off, every treasury written holds no negative sum.
THEOREM Typed == Spec => []TypeOK
<1>1. IInv => TypeOK
  BY DEF IInv
<1> QED BY Initially, Inductive, <1>1, PTL DEF Spec

\* No owner ledger on disk, file or row, ever claims more reimbursements than
\* expenses, although both implementations may write it at once.
THEOREM NeverOverReimbursed == Spec => []ReimbursedWithinExpenses
<1>1. IInv => ReimbursedWithinExpenses
  BY DEF IInv
<1> QED BY Initially, Inductive, <1>1, PTL DEF Spec

(***************************************************************************)
(* The books, while a lock or the requests' own order keeps them apart.    *)
(***************************************************************************)
Moving == {"contribute", "reimburse", "draw"}
OwnerWork == {"sync", "syncJson", "syncRow", "json", "row"}
Before == {"lock", "owner", "sync", "syncJson", "syncRow", "ledger"}

\* the steps that may come after a step
After(x) ==
    CASE x = "lock" -> {"owner", "sync", "ledger", "json", "row", "save", "journal"}
      [] x = "owner" -> {"sync", "ledger", "json", "row", "save", "journal"}
      [] x = "syncJson" -> {"syncRow", "ledger", "json", "row", "save", "journal"}
      [] x \in {"sync", "syncRow"} -> {"ledger", "json", "row", "save", "journal"}
      [] x = "ledger" -> {"owner", "json", "row", "save", "journal"}
      [] x = "json" -> {"row", "save", "journal"}
      [] x = "row" -> {"save", "journal"}
      [] x = "save" -> {"journal"}
      [] x = "journal" -> {}
Follows(s) == s \in Seq(StepNames) /\ \A i, j \in 1 .. Len(s) : i < j => s[j] \in After(s[i])

\* no store is written without its twin, and the owner ledger before the treasury
Whole(op, s) ==
    /\ Has(s, "json") => Has(s, "row")
    /\ Has(s, "syncJson") => Has(s, "syncRow")
    /\ Has(s, "ledger") => Has(s, "save")
    /\ Has(s, "save") => Has(s, "journal")
    /\ op \in Moving /\ Has(s, "row") => Has(s, "save")
    /\ \A x \in Before : Has(s, x) =>
          /\ op \in Moving /\ Has(s, "save") => Has(s, "row")
          /\ Has(s, "row") => Has(s, "json")
    /\ Has(s, "lock") =>
          /\ Has(s, "save") => Has(s, "ledger")
          /\ \A x \in OwnerWork : Has(s, x) => Has(s, "owner")
          /\ op \in Movers => Has(s, "save")

Covers(o, l) == l.draws <= o.reimbursed + o.draws /\ l.capital - o.capital <= Gap
Tally(o, l)  == l.draws = o.reimbursed + o.draws /\ l.capital - o.capital \in {0, Gap}

\* The copies r of a request that has the steps s left, against the row w and the treasury l.
Sound(r, s, w, l) ==
    /\ Follows(s) /\ Whole(r.op, s)
    /\ Has(s, "save") /\ ~Has(s, "ledger") => r.led = l
    /\ ~Has(s, "owner") => \A x \in OwnerWork : Has(s, x) => Covers(r.owner, l)
    /\ r.op \in Moving /\ Has(s, "save") /\ ~Has(s, "row") => w = OwnerAfter(r) /\ Covers(r.owner, l)

\* How far a request has brought the books: the file j, the row w, the treasury l and
\* the journal b.  With nothing left to do they agree.
Mid(r, s, j, w, l, b) ==
    /\ j = IF Has(s, "row") /\ ~Has(s, "json") THEN OwnerAfter(r)
           ELSE IF Has(s, "syncRow") /\ ~Has(s, "syncJson") THEN r.owner ELSE w
    /\ ~Has(s, "owner") => \A x \in OwnerWork : Has(s, x) =>
          r.owner = IF Has(s, "syncRow") THEN [w EXCEPT !.capital = l.capital] ELSE w
    /\ IF r.op \in Moving /\ Has(s, "save") /\ ~Has(s, "row")
       THEN w = OwnerAfter(r) /\ Tally(r.owner, l)
       ELSE Tally(w, l)
    /\ b = IF r.op \in Movers /\ Has(s, "journal") /\ ~Has(s, "save")
           THEN l.cash - CashMoved(r) ELSE l.cash

Inside(t) == th[t].todo # <<>> /\ ~Has(th[t].todo, "lock")
Exclusive == \A t, u \in Threads : Inside(t) /\ Inside(u) => t = u
\* A request past its lock holds it, unless it is a payout, which takes none.
Held ==
    /\ breaks \in Nat
    /\ \A t \in Threads : Busy(t) => th[t].door \in {"cli", "service"}
    /\ \A t \in Threads : Inside(t) /\ th[t].op # "payout" => locks[th[t].door] = t

Agree == json = row /\ Tally(row, ledger) /\ journal = ledger.cash
BooksInv ==
    /\ OwnerKnows
    /\ \A t \in Threads : Sound(th[t], th[t].todo, row, ledger)
    /\ breaks = 0 => /\ \A t \in Threads : Inside(t) => Mid(th[t], th[t].todo, json, row, ledger, journal)
                     /\ (\A t \in Threads : ~Inside(t)) => Agree

\* What is left after a step.
LEMMA FollowsTail ==
    ASSUME NEW op, NEW s, Follows(s), Whole(op, s), s # <<>>
    PROVE  /\ Follows(Tail(s)) /\ Whole(op, Tail(s))
           /\ Head(s) \in StepNames
           /\ \A x : Has(s, x) <=> Head(s) = x \/ Has(Tail(s), x)
           /\ \A x : Has(Tail(s), x) => x \in After(Head(s)) /\ x # "lock"
<1> DEFINE r == Tail(s)  x == Head(s)
<1>1. s \in Seq(StepNames) /\ Len(s) >= 1 /\ x = s[1] /\ x \in StepNames
  BY DEF Follows
<1>2. r \in Seq(StepNames) /\ Len(r) = Len(s) - 1 /\ \A i \in 1 .. Len(r) : r[i] = s[i + 1]
  BY <1>1
<1>3. \A i \in 1 .. Len(r) : i + 1 \in 1 .. Len(s)
  BY <1>1, <1>2
<1>4. ASSUME NEW i \in 1 .. Len(r), NEW j \in 1 .. Len(r), i < j PROVE r[j] \in After(r[i])
  <2>1. i + 1 \in 1 .. Len(s) /\ j + 1 \in 1 .. Len(s) /\ i + 1 < j + 1 BY <1>1, <1>2, <1>3, <1>4
  <2> QED BY <1>2, <2>1 DEF Follows
<1>5. Follows(r) BY <1>2, <1>4 DEF Follows
<1>6. ASSUME NEW y PROVE Has(s, y) <=> x = y \/ Has(r, y)
  <2>1. ASSUME NEW i \in 1 .. Len(s), s[i] = y, s[1] # y PROVE Has(r, y)
    <3>1. i - 1 \in 1 .. Len(r) /\ r[i - 1] = s[i] BY <1>1, <1>2, <2>1
    <3> QED BY <2>1, <3>1 DEF Has
  <2>2. Has(r, y) => Has(s, y) BY <1>2, <1>3 DEF Has
  <2>3. 1 \in 1 .. Len(s) BY <1>1
  <2> QED BY <1>1, <2>1, <2>2, <2>3 DEF Has
<1>7. ASSUME NEW y, Has(r, y) PROVE y \in After(x)
  <2>1. PICK i \in 1 .. Len(r) : r[i] = y BY <1>7 DEF Has
  <2>2. 1 \in 1 .. Len(s) /\ i + 1 \in 1 .. Len(s) /\ 1 < i + 1 BY <1>1, <1>3
  <2> QED BY <1>1, <1>2, <2>1, <2>2 DEF Follows
<1> HIDE DEF r, x
<1>8. \A y : Has(r, y) => y # "lock" BY <1>1, <1>7 DEF After, StepNames
<1>9. Whole(op, r)
  <2>1. Has(r, "json") => Has(r, "row") BY <1>6, <1>7 DEF Whole, After
  <2>2. Has(r, "syncJson") => Has(r, "syncRow") BY <1>6, <1>7 DEF Whole, After
  <2>3. Has(r, "ledger") => Has(r, "save") BY <1>6, <1>7 DEF Whole, After
  <2>4. Has(r, "save") => Has(r, "journal") BY <1>6, <1>7 DEF Whole, After
  <2>5. op \in Moving /\ Has(r, "row") => Has(r, "save") BY <1>6, <1>7 DEF Whole, After
  <2>6. ASSUME NEW y \in Before, Has(r, y)
        PROVE  /\ op \in Moving /\ Has(r, "save") => Has(r, "row")
               /\ Has(r, "row") => Has(r, "json")
    <3>1. Has(s, y) BY <1>6, <2>6
    <3>2. x \notin {"row", "json"} BY <1>7, <2>6 DEF After, Before
    <3> QED BY <1>6, <2>6, <3>1, <3>2 DEF Whole
  <2>7. ~Has(r, "lock") BY <1>8
  <2> QED BY <2>1, <2>2, <2>3, <2>4, <2>5, <2>6, <2>7 DEF Whole
<1> QED BY <1>1, <1>5, <1>6, <1>7, <1>8, <1>9 DEF r, x

\* The capital backfill's two writes in front.
LEMMA FollowsSync ==
    ASSUME NEW op, NEW s, Follows(s), Whole(op, s), \A x : Has(s, x) => x \in After("sync"),
           op \in Moving /\ Has(s, "save") => Has(s, "row"), Has(s, "row") => Has(s, "json")
    PROVE  LET r == <<"syncJson", "syncRow">> \o s
           IN Follows(r) /\ Whole(op, r) /\ \A x : Has(r, x) <=> x \in {"syncJson", "syncRow"} \/ Has(s, x)
<1> DEFINE p == <<"syncJson", "syncRow">>  r == p \o s
<1>1. p \in Seq(StepNames) /\ Len(p) = 2 /\ p[1] = "syncJson" /\ p[2] = "syncRow"
  BY DEF StepNames
<1>2. s \in Seq(StepNames)
  BY DEF Follows
<1> HIDE DEF p
<1>3. /\ r \in Seq(StepNames) /\ Len(r) = Len(s) + 2 /\ Len(s) \in Nat
      /\ \A i \in 1 .. Len(s) : r[i + 2] = s[i]
      /\ r[1] = "syncJson" /\ r[2] = "syncRow"
  BY <1>1, <1>2, Prepended
<1> HIDE DEF r
<1>4. ASSUME NEW i \in 1 .. Len(r), i > 2 PROVE i - 2 \in 1 .. Len(s) /\ r[i] = s[i - 2] /\ Has(s, r[i])
  <2>1. i - 2 \in 1 .. Len(s) /\ (i - 2) + 2 = i BY <1>3, <1>4
  <2> QED BY <1>3, <2>1 DEF Has
<1>5. ASSUME NEW x PROVE Has(r, x) <=> x \in {"syncJson", "syncRow"} \/ Has(s, x)
  <2>1. Has(s, x) => Has(r, x)
    <3>1. ASSUME NEW i \in 1 .. Len(s) PROVE i + 2 \in 1 .. Len(r) BY <1>3
    <3> QED BY <1>3, <3>1 DEF Has
  <2>2. 1 \in 1 .. Len(r) /\ 2 \in 1 .. Len(r) BY <1>3
  <2>3. ASSUME NEW i \in 1 .. Len(r) PROVE r[i] \in {"syncJson", "syncRow"} \/ Has(s, r[i])
    <3>1. i = 1 \/ i = 2 \/ i > 2 BY <1>3
    <3> QED BY <1>3, <1>4, <3>1
  <2>4. Has(r, "syncJson") /\ Has(r, "syncRow") BY <1>3, <2>2 DEF Has
  <2>5. Has(r, x) => x \in {"syncJson", "syncRow"} \/ Has(s, x) BY <2>3 DEF Has
  <2> QED BY <2>1, <2>4, <2>5
<1>6. ASSUME NEW i \in 1 .. Len(r), NEW j \in 1 .. Len(r), i < j PROVE r[j] \in After(r[i])
  <2>1. CASE i > 2
    <3>1. j > 2 BY <1>3, <1>6, <2>1
    <3>2. i - 2 \in 1 .. Len(s) /\ r[i] = s[i - 2] /\ j - 2 \in 1 .. Len(s) /\ r[j] = s[j - 2] /\ i - 2 < j - 2
      BY <1>3, <1>4, <1>6, <2>1, <3>1
    <3> QED BY <3>2 DEF Follows
  <2>2. CASE i <= 2 /\ j > 2
    <3>1. r[j] \in After("sync") BY <1>4, <2>2
    <3>2. i = 1 \/ i = 2 BY <1>3, <2>2
    <3> QED BY <1>3, <3>1, <3>2 DEF After
  <2>3. CASE j <= 2
    <3>1. i = 1 /\ j = 2 BY <1>3, <1>6, <2>3
    <3> QED BY <1>3, <3>1 DEF After
  <2> QED BY <1>3, <2>1, <2>2, <2>3
<1>7. Follows(r) BY <1>3, <1>6 DEF Follows
<1>8. ~Has(s, "lock") /\ ~Has(r, "lock") BY <1>5 DEF After
<1>9. Whole(op, r) BY <1>5, <1>8 DEF Whole
<1> QED BY <1>5, <1>7, <1>9 DEF r, p

\* Every request's steps are in order.
LEMMA StepsInOrder ==
    ASSUME NEW d \in {"cli", "service"}, NEW op \in AllOps \ {None}
    PROVE  /\ Follows(Steps(d, op)) /\ Whole(op, Steps(d, op)) /\ Steps(d, op) # <<>>
           /\ Has(Steps(d, op), "lock") <=> op # "payout"
           /\ op = "payout" => \A x : Has(Steps(d, op), x) <=> x \in {"ledger", "save", "journal"}
<1>1. CASE op \in {"contribute", "reimburse"} \/ (op = "draw" /\ d = "service")
  <2>1. CASE d = "cli"
    <3> DEFINE s == <<"lock">> \o <<"owner">> \o <<"ledger">> \o <<"json", "row", "save", "journal">>
    <3>1. s \in Seq(StepNames) BY DEF StepNames
    <3>2. Len(s) = 7 /\ s[1] = "lock" /\ s[2] = "owner" /\ s[3] = "ledger" /\ s[4] = "json" /\ s[5] = "row" /\ s[6] = "save" /\ s[7] = "journal" OBVIOUS
    <3>3. Steps(d, op) = s BY <1>1, <2>1 DEF Steps, OwnerLoad, Saves
    <3> HIDE DEF s
    <3>4. \A i, j \in 1 .. Len(s) : i < j => s[j] \in After(s[i])
      BY <3>2 DEF After
    <3>5. \A x : Has(s, x) <=> x \in {"lock", "owner", "ledger", "json", "row", "save", "journal"}
      BY <3>2 DEF Has
    <3>6. s # <<>> BY <3>2
    <3> QED BY <1>1, <3>1, <3>3, <3>4, <3>5, <3>6
      DEF Follows, Whole, Moving, Movers, Spends, Before, OwnerWork
  <2>2. CASE d = "service"
    <3> DEFINE s == <<"lock">> \o <<"owner", "sync">> \o <<"ledger">> \o <<"json", "row", "save", "journal">>
    <3>1. s \in Seq(StepNames) BY DEF StepNames
    <3>2. Len(s) = 8 /\ s[1] = "lock" /\ s[2] = "owner" /\ s[3] = "sync" /\ s[4] = "ledger" /\ s[5] = "json" /\ s[6] = "row" /\ s[7] = "save" /\ s[8] = "journal" OBVIOUS
    <3>3. Steps(d, op) = s BY <1>1, <2>2 DEF Steps, OwnerLoad, Saves
    <3> HIDE DEF s
    <3>4. \A i, j \in 1 .. Len(s) : i < j => s[j] \in After(s[i])
      BY <3>2 DEF After
    <3>5. \A x : Has(s, x) <=> x \in {"lock", "owner", "sync", "ledger", "json", "row", "save", "journal"}
      BY <3>2 DEF Has
    <3>6. s # <<>> BY <3>2
    <3> QED BY <1>1, <3>1, <3>3, <3>4, <3>5, <3>6
      DEF Follows, Whole, Moving, Movers, Spends, Before, OwnerWork
  <2> QED BY <2>1, <2>2
<1>2. CASE op = "draw" /\ d = "cli"
  <2> DEFINE s == <<"lock", "ledger", "owner">> \o <<"json", "row", "save", "journal">>
  <2>1. s \in Seq(StepNames) BY DEF StepNames
  <2>2. Len(s) = 7 /\ s[1] = "lock" /\ s[2] = "ledger" /\ s[3] = "owner" /\ s[4] = "json" /\ s[5] = "row" /\ s[6] = "save" /\ s[7] = "journal" OBVIOUS
  <2>3. Steps(d, op) = s BY <1>2 DEF Steps, Saves
  <2> HIDE DEF s
  <2>4. \A i, j \in 1 .. Len(s) : i < j => s[j] \in After(s[i])
    BY <2>2 DEF After
  <2>5. \A x : Has(s, x) <=> x \in {"lock", "ledger", "owner", "json", "row", "save", "journal"}
    BY <2>2 DEF Has
  <2>6. s # <<>> BY <2>2
  <2> QED BY <1>2, <2>1, <2>3, <2>4, <2>5, <2>6
    DEF Follows, Whole, Moving, Movers, Spends, Before, OwnerWork
<1>3. CASE op = "expense"
  <2>1. CASE d = "cli"
    <3> DEFINE s == <<"lock">> \o <<"owner">> \o <<"json", "row", "journal">>
    <3>1. s \in Seq(StepNames) BY DEF StepNames
    <3>2. Len(s) = 5 /\ s[1] = "lock" /\ s[2] = "owner" /\ s[3] = "json" /\ s[4] = "row" /\ s[5] = "journal" OBVIOUS
    <3>3. Steps(d, op) = s BY <1>3, <2>1 DEF Steps, OwnerLoad
    <3> HIDE DEF s
    <3>4. \A i, j \in 1 .. Len(s) : i < j => s[j] \in After(s[i])
      BY <3>2 DEF After
    <3>5. \A x : Has(s, x) <=> x \in {"lock", "owner", "json", "row", "journal"}
      BY <3>2 DEF Has
    <3>6. s # <<>> BY <3>2
    <3> QED BY <1>3, <3>1, <3>3, <3>4, <3>5, <3>6
      DEF Follows, Whole, Moving, Movers, Spends, Before, OwnerWork
  <2>2. CASE d = "service"
    <3> DEFINE s == <<"lock">> \o <<"owner", "sync">> \o <<"json", "row", "journal">>
    <3>1. s \in Seq(StepNames) BY DEF StepNames
    <3>2. Len(s) = 6 /\ s[1] = "lock" /\ s[2] = "owner" /\ s[3] = "sync" /\ s[4] = "json" /\ s[5] = "row" /\ s[6] = "journal" OBVIOUS
    <3>3. Steps(d, op) = s BY <1>3, <2>2 DEF Steps, OwnerLoad
    <3> HIDE DEF s
    <3>4. \A i, j \in 1 .. Len(s) : i < j => s[j] \in After(s[i])
      BY <3>2 DEF After
    <3>5. \A x : Has(s, x) <=> x \in {"lock", "owner", "sync", "json", "row", "journal"}
      BY <3>2 DEF Has
    <3>6. s # <<>> BY <3>2
    <3> QED BY <1>3, <3>1, <3>3, <3>4, <3>5, <3>6
      DEF Follows, Whole, Moving, Movers, Spends, Before, OwnerWork
  <2> QED BY <2>1, <2>2
<1>4. CASE op = "floor"
  <2> DEFINE s == <<"lock", "ledger", "save", "journal">>
  <2>1. s \in Seq(StepNames) BY DEF StepNames
  <2>2. Len(s) = 4 /\ s[1] = "lock" /\ s[2] = "ledger" /\ s[3] = "save" /\ s[4] = "journal" OBVIOUS
  <2>3. Steps(d, op) = s BY <1>4 DEF Steps
  <2> HIDE DEF s
  <2>4. \A i, j \in 1 .. Len(s) : i < j => s[j] \in After(s[i])
    BY <2>2 DEF After
  <2>5. \A x : Has(s, x) <=> x \in {"lock", "ledger", "save", "journal"}
    BY <2>2 DEF Has
  <2>6. s # <<>> BY <2>2
  <2> QED BY <1>4, <2>1, <2>3, <2>4, <2>5, <2>6
    DEF Follows, Whole, Moving, Movers, Spends, Before, OwnerWork
<1>5. CASE op = "snapshot"
  <2>1. CASE d = "cli"
    <3> DEFINE s == <<"lock">> \o <<"owner">>
    <3>1. s \in Seq(StepNames) BY DEF StepNames
    <3>2. Len(s) = 2 /\ s[1] = "lock" /\ s[2] = "owner" OBVIOUS
    <3>3. Steps(d, op) = s BY <1>5, <2>1 DEF Steps, OwnerLoad
    <3> HIDE DEF s
    <3>4. \A i, j \in 1 .. Len(s) : i < j => s[j] \in After(s[i])
      BY <3>2 DEF After
    <3>5. \A x : Has(s, x) <=> x \in {"lock", "owner"}
      BY <3>2 DEF Has
    <3>6. s # <<>> BY <3>2
    <3> QED BY <1>5, <3>1, <3>3, <3>4, <3>5, <3>6
      DEF Follows, Whole, Moving, Movers, Spends, Before, OwnerWork
  <2>2. CASE d = "service"
    <3> DEFINE s == <<"lock">> \o <<"owner", "sync">>
    <3>1. s \in Seq(StepNames) BY DEF StepNames
    <3>2. Len(s) = 3 /\ s[1] = "lock" /\ s[2] = "owner" /\ s[3] = "sync" OBVIOUS
    <3>3. Steps(d, op) = s BY <1>5, <2>2 DEF Steps, OwnerLoad
    <3> HIDE DEF s
    <3>4. \A i, j \in 1 .. Len(s) : i < j => s[j] \in After(s[i])
      BY <3>2 DEF After
    <3>5. \A x : Has(s, x) <=> x \in {"lock", "owner", "sync"}
      BY <3>2 DEF Has
    <3>6. s # <<>> BY <3>2
    <3> QED BY <1>5, <3>1, <3>3, <3>4, <3>5, <3>6
      DEF Follows, Whole, Moving, Movers, Spends, Before, OwnerWork
  <2> QED BY <2>1, <2>2
<1>6. CASE op = "payout"
  <2> DEFINE s == <<"ledger", "save", "journal">>
  <2>1. s \in Seq(StepNames) BY DEF StepNames
  <2>2. Len(s) = 3 /\ s[1] = "ledger" /\ s[2] = "save" /\ s[3] = "journal" OBVIOUS
  <2>3. Steps(d, op) = s BY <1>6 DEF Steps
  <2> HIDE DEF s
  <2>4. \A i, j \in 1 .. Len(s) : i < j => s[j] \in After(s[i])
    BY <2>2 DEF After
  <2>5. \A x : Has(s, x) <=> x \in {"ledger", "save", "journal"}
    BY <2>2 DEF Has
  <2>6. s # <<>> BY <2>2
  <2> QED BY <1>6, <2>1, <2>3, <2>4, <2>5, <2>6
    DEF Follows, Whole, Moving, Movers, Spends, Before, OwnerWork
<1>7. op \in {"contribute", "reimburse", "draw", "expense", "floor", "snapshot", "payout"}
  BY DEF AllOps, Movers, Spends
<1> QED BY <1>1, <1>2, <1>3, <1>4, <1>5, <1>6, <1>7

---------------------------------------------------------------------------
\* Thread t goes on to the steps q with the record r, or ends.
Goes(t, r, q) ==
    /\ th'[t].todo = q
    /\ q # <<>> => /\ th'[t].op = r.op /\ th'[t].door = r.door /\ th'[t].amt = r.amt
                   /\ th'[t].owner = r.owner /\ th'[t].led = r.led
    /\ \A u \in Threads \ {t} : th'[u] = th[u]

LEMMA NothingLeft == \A x : ~Has(<<>>, x)
BY DEF Has

LEMMA Going ==
    ASSUME IInv, NEW t \in Threads, NEW r \in Thread, NEW q \in Seq(StepNames), Continue(t, r, q)
    PROVE  /\ Goes(t, r, q)
           /\ \A d \in {"cli", "service"} : locks[d] # t \/ q # <<>> => locks'[d] = locks[d]
<1> DEFINE n == IF q = <<>> THEN Idle ELSE [r EXCEPT !.todo = q]
<1>1. th' = [th EXCEPT ![t] = n] BY DEF Continue
<1>2. th'[t] = n /\ \A u \in Threads \ {t} : th'[u] = th[u] BY <1>1 DEF IInv
<1>3. n.todo = q BY DEF Idle, Thread
<1>4. q # <<>> => /\ n.op = r.op /\ n.door = r.door /\ n.amt = r.amt
                  /\ n.owner = r.owner /\ n.led = r.led
  BY DEF Thread
<1>5. \A d \in {"cli", "service"} : locks[d] # t \/ q # <<>> => locks'[d] = locks[d]
  BY DEF Continue, IInv, TypeOK
<1> HIDE DEF n
<1> QED BY <1>2, <1>3, <1>4, <1>5 DEF Goes

\* A busy thread, its next step and what follows it.
LEMMA Serving ==
    ASSUME IInv, BooksInv, NEW t \in Threads, Busy(t)
    PROVE  LET r == th[t]  s == r.todo  x == Head(s)  q == Rest(t)
           IN /\ r \in Thread /\ s # <<>> /\ q \in Seq(StepNames)
              /\ Sound(r, s, row, ledger) /\ Whole(r.op, s) /\ Follows(q) /\ Whole(r.op, q)
              /\ \A y : Has(s, y) <=> x = y \/ Has(q, y)
              /\ \A y : Has(q, y) => y \in After(x) /\ y # "lock"
              /\ x # "lock" => Inside(t)
              /\ row \in Owner /\ ledger \in Ledger /\ journal \in Int
              /\ Covers(row, ledger)
<1> DEFINE r == th[t]  s == r.todo  x == Head(s)  q == Rest(t)
<1>1. r \in Thread /\ s # <<>> /\ row \in Owner /\ ledger \in Ledger /\ journal \in Int
  BY DEF IInv, TypeOK, Busy
<1>2. Sound(r, s, row, ledger) /\ Covers(row, ledger) BY DEF BooksInv, OwnerKnows, Covers
<1>3. Follows(s) /\ Whole(r.op, s) BY <1>2 DEF Sound
<1>4. /\ Follows(q) /\ Whole(r.op, q)
      /\ \A y : Has(s, y) <=> x = y \/ Has(q, y)
      /\ \A y : Has(q, y) => y \in After(x) /\ y # "lock"
  BY <1>1, <1>3, FollowsTail DEF Rest
<1>5. x # "lock" => Inside(t) BY <1>1, <1>4 DEF Inside
<1>6. q \in Seq(StepNames) BY <1>4 DEF Follows
<1> QED BY <1>1, <1>2, <1>3, <1>4, <1>5, <1>6

\* A thread that waits for the lock, or has nothing to do, relies on nothing.
LEMMA Waiting ==
    ASSUME NEW r, NEW s, NEW w, NEW l, NEW w2, NEW l2, Sound(r, s, w, l), s = <<>> \/ Has(s, "lock")
    PROVE  Sound(r, s, w2, l2)
<1>1. CASE s = <<>>
  <2>1. \A x : ~Has(s, x) BY <1>1, NothingLeft
  <2> QED BY <2>1 DEF Sound
<1>2. CASE Has(s, "lock")
  <2>1. Whole(r.op, s) BY DEF Sound
  <2>2. Has(s, "save") => Has(s, "ledger") BY <1>2, <2>1 DEF Whole
  <2>3. \A x \in OwnerWork : Has(s, x) => Has(s, "owner") BY <1>2, <2>1 DEF Whole
  <2>4. r.op \in Moving /\ Has(s, "save") => Has(s, "row") BY <1>2, <2>1 DEF Whole, Before
  <2> QED BY <2>2, <2>3, <2>4 DEF Sound
<1> QED BY <1>1, <1>2

\* What a step has to leave behind, when it is the only request past its lock.
LEMMA Onward ==
    ASSUME IInv, BooksInv, NEW t \in Threads,
           \A u \in Threads \ {t} : ~Inside(u) /\ th'[u] = th[u],
           ~Has(th'[t].todo, "lock"), OwnerKnows',
           Sound(th'[t], th'[t].todo, row', ledger'),
           breaks' = 0 => Mid(th'[t], th'[t].todo, json', row', ledger', journal')
    PROVE  BooksInv'
<1>1. ASSUME NEW u \in Threads PROVE Sound(th'[u], th'[u].todo, row', ledger')
  <2>1. CASE u # t
    <3>1. th'[u] = th[u] /\ ~Inside(u) BY <2>1
    <3>2. Sound(th[u], th[u].todo, row, ledger) /\ (th[u].todo = <<>> \/ Has(th[u].todo, "lock"))
      BY <3>1 DEF BooksInv, Inside
    <3> QED BY <3>1, <3>2, Waiting
  <2> QED BY <2>1
<1>2. ASSUME breaks' = 0, NEW u \in Threads, th'[u].todo # <<>>, ~Has(th'[u].todo, "lock")
      PROVE  Mid(th'[u], th'[u].todo, json', row', ledger', journal')
  BY <1>2 DEF Inside
<1>3. ASSUME breaks' = 0, \A u \in Threads : ~(th'[u].todo # <<>> /\ ~Has(th'[u].todo, "lock"))
      PROVE  json' = row' /\ Tally(row', ledger') /\ journal' = ledger'.cash
  <2>1. th'[t].todo = <<>> BY <1>3
  <2>2. \A x : ~Has(th'[t].todo, x) BY <2>1, NothingLeft
  <2> QED BY <1>3, <2>2 DEF Mid
<1> QED BY <1>1, <1>2, <1>3 DEF BooksInv, Inside, Agree

\* What is to be done does not change with what is left.
LEMMA SameWork ==
    ASSUME NEW n, NEW r, n.op = r.op, n.amt = r.amt, n.owner = r.owner, n.led = r.led
    PROVE  OwnerAfter(n) = OwnerAfter(r) /\ CashMoved(n) = CashMoved(r) /\ LedgerAfter(n) = LedgerAfter(r)
BY DEF OwnerAfter, CashMoved, LedgerAfter

\* What the books are to the record a thread goes on with, they are to its new record.
LEMMA Carried ==
    ASSUME NEW n, NEW r, NEW q, NEW j, NEW w, NEW l, NEW b,
           q # <<>> => n.op = r.op /\ n.amt = r.amt /\ n.owner = r.owner /\ n.led = r.led
    PROVE  /\ Sound(r, q, w, l) => Sound(n, q, w, l)
           /\ Mid(r, q, j, w, l, b) => Mid(n, q, j, w, l, b)
<1>1. CASE q = <<>>
  <2>1. \A x : ~Has(q, x) BY <1>1, NothingLeft
  <2>2. Whole(n.op, q) BY <2>1 DEF Whole
  <2> QED BY <2>1, <2>2 DEF Sound, Mid
<1>2. CASE q # <<>>
  <2>1. OwnerAfter(n) = OwnerAfter(r) /\ CashMoved(n) = CashMoved(r) BY <1>2, SameWork
  <2> QED BY <1>2, <2>1 DEF Sound, Mid
<1> QED BY <1>1, <1>2

Alone(t) == \A u \in Threads \ {t} : ~Inside(u)

\* The books, seen by a thread past its lock.
Books(t) ==
    LET r == th[t]  s == r.todo IN
    /\ Sound(r, s, row, ledger)
    /\ breaks = 0 => Mid(r, s, json, row, ledger, journal)

LEMMA Past ==
    ASSUME BooksInv, NEW t \in Threads, Inside(t)
    PROVE  Books(t)
BY DEF BooksInv, Books

\* Going on with r to q, and the books as the steps in q see them.
LEMMA GoOn ==
    ASSUME IInv, BooksInv, NEW t \in Threads, Alone(t), NEW r, NEW q, Goes(t, r, q),
           ~Has(q, "lock"), OwnerKnows', Sound(r, q, row', ledger'),
           breaks' = 0 => Mid(r, q, json', row', ledger', journal')
    PROVE  BooksInv'
<1> DEFINE n == th'[t]  j == json'  w == row'  l == ledger'  b == journal'
<1>1. n.todo = q /\ (q # <<>> => n.op = r.op /\ n.amt = r.amt /\ n.owner = r.owner /\ n.led = r.led)
  BY DEF Goes
<1>2. Sound(n, q, w, l) /\ (breaks' = 0 => Mid(n, q, j, w, l, b))
  <2>1. Sound(r, q, w, l) /\ (breaks' = 0 => Mid(r, q, j, w, l, b)) OBVIOUS
  <2> HIDE DEF n, j, w, l, b
  <2> QED BY <1>1, <2>1, Carried
<1>3. \A u \in Threads \ {t} : ~Inside(u) /\ th'[u] = th[u] BY DEF Alone, Goes
<1> QED BY <1>1, <1>2, <1>3, Onward

LEMMA LoadOwnerBooks ==
    ASSUME IInv, BooksInv, NEW t \in Threads, Alone(t), LoadOwner(t)
    PROVE  BooksInv'
<1> DEFINE q == Rest(t)  s == th[t].todo  r == [th[t] EXCEPT !.owner = row]
<1>1. Busy(t) /\ Head(s) = "owner" BY DEF LoadOwner, At
<1>2. /\ th[t] \in Thread /\ q \in Seq(StepNames) /\ Follows(q) /\ Whole(th[t].op, q) /\ Whole(th[t].op, s)
      /\ \A y : Has(s, y) <=> y = "owner" \/ Has(q, y)
      /\ \A y : Has(q, y) => y \in After("owner") /\ y # "lock"
      /\ Inside(t) /\ row \in Owner /\ ledger \in Ledger /\ Covers(row, ledger)
  BY <1>1, Serving
<1>3. Books(t) BY <1>2, Past
<1>4. r \in Thread /\ r.owner = row /\ r.op = th[t].op /\ r.amt = th[t].amt /\ r.led = th[t].led
  BY <1>2 DEF Thread
<1>5. Continue(t, r, q) /\ UNCHANGED <<json, row, ledger, journal, breaks>> BY DEF LoadOwner, stores
<1> HIDE DEF r
<1>6. Goes(t, r, q) BY <1>2, <1>4, <1>5, Going
<1>7. ~Has(q, "syncRow") BY <1>2 DEF After
<1>8. /\ r.op \in Moving /\ Has(q, "save") => Has(q, "row")
      /\ Has(q, "row") => Has(q, "json")
  BY <1>2, <1>4 DEF Whole, Before
<1> HIDE DEF q, s
<1>9. Has(q, "save") /\ ~Has(q, "ledger") => r.led = ledger BY <1>2, <1>3, <1>4 DEF Books, Sound, s
<1>10. Sound(r, q, row, ledger) BY <1>2, <1>4, <1>8, <1>9 DEF Sound
<1>11. ASSUME breaks = 0 PROVE Mid(r, q, json, row, ledger, journal)
  <2>1. Mid(th[t], s, json, row, ledger, journal) BY <1>3, <1>11 DEF Books, s
  <2>2. CashMoved(r) = CashMoved(th[t]) BY <1>4 DEF CashMoved
  <2> QED BY <1>2, <1>4, <1>7, <1>8, <2>1, <2>2 DEF Mid
<1>12. OwnerKnows' BY <1>2, <1>5 DEF OwnerKnows, Covers
<1> QED BY <1>2, <1>5, <1>6, <1>10, <1>11, <1>12, GoOn

LEMMA BackfillBooks ==
    ASSUME IInv, BooksInv, NEW t \in Threads, Alone(t), Backfill(t)
    PROVE  BooksInv'
<1> DEFINE q == Rest(t)  s == th[t].todo  p == <<"syncJson", "syncRow">> \o q
           o == [th[t].owner EXCEPT !.capital = ledger.capital]
           r == [th[t] EXCEPT !.owner = o]
<1>1. Busy(t) /\ Head(s) = "sync" BY DEF Backfill, At
<1>2. /\ th[t] \in Thread /\ q \in Seq(StepNames) /\ Follows(q) /\ Whole(th[t].op, q) /\ Whole(th[t].op, s)
      /\ \A y : Has(s, y) <=> y = "sync" \/ Has(q, y)
      /\ \A y : Has(q, y) => y \in After("sync") /\ y # "lock"
      /\ Inside(t) /\ row \in Owner /\ ledger \in Ledger /\ Covers(row, ledger)
  BY <1>1, Serving
<1>3. Books(t) BY <1>2, Past
<1>4. UNCHANGED <<json, row, ledger, journal, breaks>> BY DEF Backfill, stores
<1>5. OwnerKnows' BY <1>2, <1>4 DEF OwnerKnows, Covers
<1>6. /\ th[t].op \in Moving /\ Has(q, "save") => Has(q, "row")
      /\ Has(q, "row") => Has(q, "json")
  BY <1>2 DEF Whole, Before
<1>7. ~Has(s, "owner") /\ ~Has(q, "owner") /\ ~Has(s, "syncRow") /\ ~Has(q, "syncRow") /\ ~Has(q, "syncJson")
  BY <1>2 DEF After
<1>8. Covers(th[t].owner, ledger) BY <1>2, <1>3, <1>7 DEF Books, Sound, OwnerWork
<1>9. CASE Continue(t, th[t], q)
  <2>1. Goes(t, th[t], q) BY <1>2, <1>9, Going
  <2> HIDE DEF q, s
  <2>2. Sound(th[t], q, row, ledger) BY <1>2, <1>3, <1>6, <1>8 DEF Books, Sound, s
  <2>3. ASSUME breaks = 0 PROVE Mid(th[t], q, json, row, ledger, journal)
    <3>1. Mid(th[t], s, json, row, ledger, journal) BY <1>3, <2>3 DEF Books, s
    <3> QED BY <1>2, <1>6, <1>7, <3>1 DEF Mid
  <2> QED BY <1>2, <1>4, <1>5, <2>1, <2>2, <2>3, GoOn
<1>10. CASE Continue(t, [th[t] EXCEPT !.owner.capital = ledger.capital], p)
  <2>1. th[t].owner \in Owner /\ o \in Owner /\ o.capital = ledger.capital /\ o.draws = th[t].owner.draws
        /\ o.reimbursed = th[t].owner.reimbursed /\ ledger.capital \in Nat
    BY <1>2 DEF Thread, Owner, Ledger
  <2>2. r = [th[t] EXCEPT !.owner.capital = ledger.capital] BY <1>2, <2>1 DEF Thread, Owner
  <2> HIDE DEF o
  <2>3. r \in Thread /\ r.owner = o /\ r.op = th[t].op /\ r.amt = th[t].amt /\ r.led = th[t].led
    BY <1>2, <2>1 DEF Thread
  <2>4. Continue(t, r, p) BY <1>10, <2>2
  <2> HIDE DEF r
  <2>5. \A x : Has(q, x) => x \in After("sync") BY <1>2
  <2> HIDE DEF q, s
  <2>6. Follows(p) /\ Whole(th[t].op, p) /\ \A x : Has(p, x) <=> x \in {"syncJson", "syncRow"} \/ Has(q, x)
    BY <1>2, <1>6, <2>5, FollowsSync
  <2>7. p \in Seq(StepNames) BY <2>6 DEF Follows
  <2>8. Goes(t, r, p) BY <2>3, <2>4, <2>7, Going
  <2> HIDE DEF p
  <2>9. Covers(o, ledger)
    <3>1. Gap >= 0 BY OwnerAccountsAssumption
    <3>2. ledger.capital - ledger.capital = 0 BY <2>1
    <3> QED BY <1>8, <2>1, <3>1, <3>2 DEF Covers
  <2>10. Has(q, "save") /\ ~Has(q, "ledger") => th[t].led = ledger BY <1>2, <1>3 DEF Books, Sound, s
  <2>11. Sound(r, p, row, ledger) BY <1>6, <2>3, <2>6, <2>9, <2>10 DEF Sound
  <2>12. ASSUME breaks = 0 PROVE Mid(r, p, json, row, ledger, journal)
    <3>1. Mid(th[t], s, json, row, ledger, journal) BY <1>3, <2>12 DEF Books, s
    <3>2. CashMoved(r) = CashMoved(th[t]) BY <2>3 DEF CashMoved
    <3>3. th[t].owner = row BY <1>2, <1>7, <3>1 DEF Mid, OwnerWork
    <3>4. o = [row EXCEPT !.capital = ledger.capital] BY <3>3 DEF o
    <3>5. json = row /\ Tally(row, ledger) BY <1>2, <1>6, <1>7, <3>1 DEF Mid
    <3>6. journal = IF r.op \in Movers /\ Has(p, "journal") /\ ~Has(p, "save")
                    THEN ledger.cash - CashMoved(r) ELSE ledger.cash
      BY <1>2, <2>3, <2>6, <3>1, <3>2 DEF Mid
    <3> QED BY <1>6, <1>7, <2>3, <2>6, <3>4, <3>5, <3>6 DEF Mid
  <2>13. ~Has(p, "lock") BY <1>2, <2>6
  <2> QED BY <1>4, <1>5, <2>8, <2>11, <2>12, <2>13, GoOn
<1> QED BY <1>9, <1>10 DEF Backfill

\* A request that ends without another write, the books being in order.
LEMMA EndsBooks ==
    ASSUME IInv, BooksInv, NEW t \in Threads, Alone(t), NEW r, Goes(t, r, <<>>), OwnerKnows',
           breaks' = 0 => json' = row' /\ Tally(row', ledger') /\ journal' = ledger'.cash
    PROVE  BooksInv'
<1>1. \A x : ~Has(<<>>, x) BY NothingLeft
<1>2. Follows(<<>>) BY DEF Follows
<1>3. Whole(r.op, <<>>) BY <1>1 DEF Whole
<1>4. Sound(r, <<>>, row', ledger') BY <1>1, <1>2, <1>3 DEF Sound
<1>5. breaks' = 0 => Mid(r, <<>>, json', row', ledger', journal') BY <1>1 DEF Mid
<1> QED BY <1>1, <1>4, <1>5, GoOn

LEMMA LoadLedgerBooks ==
    ASSUME IInv, BooksInv, NEW t \in Threads, Alone(t), LoadLedger(t)
    PROVE  BooksInv'
<1> DEFINE q == Rest(t)  s == th[t].todo  r == [th[t] EXCEPT !.led = ledger]
<1>1. Busy(t) /\ Head(s) = "ledger" BY DEF LoadLedger, At
<1>2. /\ th[t] \in Thread /\ q \in Seq(StepNames) /\ Follows(q) /\ Whole(th[t].op, q) /\ Whole(th[t].op, s)
      /\ \A y : Has(s, y) <=> y = "ledger" \/ Has(q, y)
      /\ \A y : Has(q, y) => y \in After("ledger") /\ y # "lock"
      /\ Inside(t) /\ row \in Owner /\ ledger \in Ledger /\ Covers(row, ledger)
  BY <1>1, Serving
<1>3. Books(t) BY <1>2, Past
<1>4. UNCHANGED <<json, row, ledger, journal, breaks>> BY DEF LoadLedger, stores
<1>5. OwnerKnows' BY <1>2, <1>4 DEF OwnerKnows, Covers
<1>6. r \in Thread /\ r.owner = th[t].owner /\ r.op = th[t].op /\ r.amt = th[t].amt /\ r.led = ledger
  BY <1>2 DEF Thread
<1>7. /\ Has(q, "save") /\ ~Has(q, "syncRow") /\ Has(q, "row") => Has(q, "json")
      /\ th[t].op \in Moving => Has(q, "row")
      /\ ~Has(q, "syncRow") /\ Has(q, "save")
  BY <1>2 DEF Whole, Before, After
<1> HIDE DEF r
<1>8. ASSUME breaks = 0
      PROVE  json = row /\ Tally(row, ledger) /\ journal = ledger.cash
  <2>1. Mid(th[t], s, json, row, ledger, journal) BY <1>3, <1>8 DEF Books
  <2> HIDE DEF q, s
  <2> QED BY <1>2, <1>7, <2>1 DEF Mid
<1>9. CASE Continue(t, r, q)
  <2>1. Goes(t, r, q) BY <1>2, <1>6, <1>9, Going
  <2> HIDE DEF q, s
  <2>2. Sound(r, q, row, ledger) BY <1>2, <1>3, <1>6, <1>7 DEF Books, Sound, s
  <2>3. ASSUME breaks = 0 PROVE Mid(r, q, json, row, ledger, journal)
    <3>1. Mid(th[t], s, json, row, ledger, journal) BY <1>3, <2>3 DEF Books, s
    <3> QED BY <1>2, <1>6, <1>7, <1>8, <2>3, <3>1 DEF Mid
  <2> QED BY <1>2, <1>4, <1>5, <2>1, <2>2, <2>3, GoOn
<1>10. CASE Continue(t, r, <<>>)
  <2>1. <<>> \in Seq(StepNames) OBVIOUS
  <2>2. Goes(t, r, <<>>) BY <1>6, <1>10, <2>1, Going
  <2> QED BY <1>4, <1>5, <1>8, <2>2, EndsBooks
<1> QED BY <1>9, <1>10 DEF LoadLedger, r

LEMMA SaveJsonBooks ==
    ASSUME IInv, BooksInv, NEW t \in Threads, Alone(t), SaveJson(t)
    PROVE  BooksInv'
<1> DEFINE q == Rest(t)  s == th[t].todo  r == th[t]
<1>1. Busy(t) /\ Head(s) \in {"json", "syncJson"} BY DEF SaveJson, At
<1>2. /\ r \in Thread /\ q \in Seq(StepNames) /\ Follows(q) /\ Whole(r.op, q) /\ Whole(r.op, s)
      /\ \A y : Has(s, y) <=> y = Head(s) \/ Has(q, y)
      /\ \A y : Has(q, y) => y \in After(Head(s)) /\ y # "lock"
      /\ Inside(t) /\ row \in Owner /\ ledger \in Ledger /\ Covers(row, ledger)
  BY <1>1, Serving
<1>3. Books(t) BY <1>2, Past
<1>4. Continue(t, r, q) /\ UNCHANGED <<row, ledger, journal, breaks>> BY DEF SaveJson
<1>5. OwnerKnows' BY <1>2, <1>4 DEF OwnerKnows, Covers
<1>6. Goes(t, r, q) BY <1>2, <1>4, Going
<1>7. /\ Head(s) = "json" => Has(q, "row") /\ ~Has(q, "json")
      /\ Head(s) = "syncJson" => /\ Has(q, "syncRow") /\ ~Has(q, "syncJson")
                                 /\ Has(q, "row") => Has(q, "json")
  BY <1>2 DEF Whole, Before, After
<1>8. ~Has(q, "owner") /\ ~Has(s, "owner") BY <1>1, <1>2 DEF After
<1>9. Head(s) = "json" => json' = OwnerAfter(r) BY DEF SaveJson, At
<1>10. Head(s) = "syncJson" => json' = r.owner BY DEF SaveJson, At
<1> DEFINE h == Head(s)
<1>11. Sound(r, s, row, ledger) /\ (breaks = 0 => Mid(r, s, json, row, ledger, journal)) BY <1>3 DEF Books
<1> HIDE DEF q, s, h
<1>12. Sound(r, q, row, ledger) BY <1>1, <1>2, <1>11 DEF Sound, h
<1>13. ASSUME breaks = 0 PROVE Mid(r, q, json', row, ledger, journal)
  <2>1. Mid(r, s, json, row, ledger, journal) BY <1>11, <1>13
  <2>2. json' = IF Has(q, "row") /\ ~Has(q, "json") THEN OwnerAfter(r)
                ELSE IF Has(q, "syncRow") /\ ~Has(q, "syncJson") THEN r.owner ELSE row
    BY <1>1, <1>7, <1>9, <1>10
  <2>3. \A x \in OwnerWork : Has(q, x) =>
          r.owner = IF Has(q, "syncRow") THEN [row EXCEPT !.capital = ledger.capital] ELSE row
    BY <1>1, <1>2, <1>8, <2>1 DEF Mid
  <2>4. \A x \in {"save", "row", "journal"} : Has(q, x) <=> Has(s, x) BY <1>1, <1>2
  <2> QED BY <2>1, <2>2, <2>3, <2>4 DEF Mid
<1> QED BY <1>2, <1>4, <1>5, <1>6, <1>12, <1>13, GoOn

\* The owner ledger an operation writes knows of no less than the one it read.
LEMMA OwnerAfterCovers ==
    ASSUME NEW r \in Thread, NEW l \in Ledger
    PROVE  /\ Covers(r.owner, l) => Covers(OwnerAfter(r), l)
           /\ r.op \notin Moving /\ Tally(r.owner, l) => Tally(OwnerAfter(r), l)
<1> DEFINE o == r.owner  w == OwnerAfter(r)
<1>1. o \in Owner /\ r.amt \in Nat BY DEF Thread
<1>2. /\ w.capital = IF r.op = "contribute" THEN o.capital + r.amt ELSE o.capital
      /\ w.reimbursed = IF r.op = "reimburse" THEN o.reimbursed + r.amt ELSE o.reimbursed
      /\ w.draws = IF r.op = "draw" THEN o.draws + r.amt ELSE o.draws
  BY <1>1 DEF OwnerAfter, Owner
<1>3. /\ o.capital \in Nat /\ o.reimbursed \in Nat /\ o.draws \in Nat
      /\ l.capital \in Nat /\ l.draws \in Nat
  BY <1>1 DEF Owner, Ledger
<1> HIDE DEF o, w
<1>4. /\ w.capital \in Nat /\ w.reimbursed \in Nat /\ w.draws \in Nat
      /\ w.capital >= o.capital /\ w.reimbursed >= o.reimbursed /\ w.draws >= o.draws
  BY <1>1, <1>2, <1>3
<1>5. Gap \in Int BY OwnerAccountsAssumption
<1>6. Covers(o, l) => Covers(w, l) BY <1>3, <1>4, <1>5 DEF Covers
<1>7. r.op \notin Moving /\ Tally(o, l) => Tally(w, l) BY <1>2 DEF Moving, Tally
<1> QED BY <1>6, <1>7 DEF o, w

LEMMA SaveRowBooks ==
    ASSUME IInv, BooksInv, NEW t \in Threads, Alone(t), SaveRow(t)
    PROVE  BooksInv'
<1> DEFINE q == Rest(t)  s == th[t].todo  r == th[t]  h == Head(s)
<1>1. Busy(t) /\ h \in {"row", "syncRow"} BY DEF SaveRow, At
<1>2. /\ r \in Thread /\ q \in Seq(StepNames) /\ Follows(q) /\ Whole(r.op, q) /\ Whole(r.op, s)
      /\ \A y : Has(s, y) <=> y = h \/ Has(q, y)
      /\ \A y : Has(q, y) => y \in After(h) /\ y # "lock"
      /\ Inside(t) /\ row \in Owner /\ ledger \in Ledger /\ Covers(row, ledger)
  BY <1>1, Serving
<1>3. Books(t) BY <1>2, Past
<1>4. Continue(t, r, q) /\ UNCHANGED <<json, ledger, journal, breaks>> BY DEF SaveRow
<1>5. Goes(t, r, q) BY <1>2, <1>4, Going
<1>6. Sound(r, s, row, ledger) /\ (breaks = 0 => Mid(r, s, json, row, ledger, journal)) BY <1>3 DEF Books
<1>7. /\ h = "row" => row' = OwnerAfter(r)
      /\ h = "syncRow" => row' = r.owner
  BY DEF SaveRow, At
<1> HIDE DEF q, s, h
<1>8. ~Has(s, "owner") /\ ~Has(q, "owner") /\ ~Has(q, "syncRow") /\ ~Has(s, "syncJson") /\ ~Has(q, "syncJson")
  BY <1>1, <1>2 DEF After
<1>9. Has(s, h) /\ h \in OwnerWork BY <1>1, <1>2 DEF OwnerWork
<1>10. Covers(r.owner, ledger) BY <1>6, <1>8, <1>9 DEF Sound
<1>11. \A x \in {"save", "journal", "ledger"} : Has(q, x) <=> Has(s, x) BY <1>1, <1>2
<1>12. breaks = 0 => r.owner = IF Has(s, "syncRow") THEN [row EXCEPT !.capital = ledger.capital] ELSE row
  BY <1>6, <1>8, <1>9 DEF Mid
<1>13. Covers(row', ledger) BY <1>1, <1>2, <1>7, <1>10, OwnerAfterCovers
<1>14. OwnerKnows' BY <1>4, <1>13 DEF OwnerKnows, Covers
<1>15. CASE h = "row"
  <2>1. ~Has(s, "json") /\ ~Has(q, "json") /\ ~Has(q, "row") /\ ~Has(s, "syncRow") /\ Has(s, "row")
    BY <1>2, <1>15 DEF After
  <2>2. \A x \in OwnerWork : ~Has(q, x) BY <1>2, <1>15 DEF After, OwnerWork
  <2>3. Sound(r, q, row', ledger) BY <1>2, <1>6, <1>7, <1>10, <1>11, <1>15, <2>2 DEF Sound
  <2>4. ASSUME breaks = 0 PROVE Mid(r, q, json, row', ledger, journal)
    <3>1. Mid(r, s, json, row, ledger, journal) BY <1>6, <2>4
    <3>2. json = row' BY <1>7, <1>15, <2>1, <3>1 DEF Mid
    <3>3. Tally(r.owner, ledger) BY <1>12, <2>1, <2>4, <3>1 DEF Mid
    <3>4. r.op \in Moving => Has(q, "save") BY <1>2, <1>11, <2>1 DEF Whole
    <3>5. IF r.op \in Moving /\ Has(q, "save") /\ ~Has(q, "row")
          THEN row' = OwnerAfter(r) /\ Tally(r.owner, ledger)
          ELSE Tally(row', ledger)
      BY <1>2, <1>7, <1>15, <2>1, <3>3, <3>4, OwnerAfterCovers
    <3> QED BY <1>8, <1>11, <2>1, <2>2, <3>1, <3>2, <3>5 DEF Mid
  <2> QED BY <1>2, <1>4, <1>5, <1>14, <2>3, <2>4, GoOn
<1>16. CASE h = "syncRow"
  <2>1. /\ r.op \in Moving /\ Has(q, "save") => Has(q, "row")
        /\ Has(q, "row") => Has(q, "json")
        /\ Has(s, "row") => Has(s, "json")
        /\ r.op \in Moving /\ Has(s, "save") => Has(s, "row")
    BY <1>2, <1>16 DEF Whole, Before
  <2>2. Has(s, "syncRow") BY <1>9, <1>16
  <2>3. Sound(r, q, row', ledger) BY <1>2, <1>6, <1>10, <1>11, <2>1 DEF Sound
  <2>4. ASSUME breaks = 0 PROVE Mid(r, q, json, row', ledger, journal)
    <3>1. Mid(r, s, json, row, ledger, journal) BY <1>6, <2>4
    <3>2. json = row' BY <1>7, <1>8, <1>16, <2>1, <2>2, <3>1 DEF Mid
    <3>3. Tally(row, ledger) BY <2>1, <3>1 DEF Mid
    <3>4. r.owner = [row EXCEPT !.capital = ledger.capital] BY <1>12, <2>2, <2>4
    <3>5. r.owner.capital = ledger.capital /\ r.owner.draws = row.draws
          /\ r.owner.reimbursed = row.reimbursed /\ ledger.capital \in Nat
      BY <1>2, <3>4 DEF Owner, Ledger
    <3>6. ledger.capital - ledger.capital = 0 BY <3>5
    <3>7. Tally(row', ledger) BY <1>7, <1>16, <3>3, <3>5, <3>6 DEF Tally
    <3> QED BY <1>7, <1>8, <1>11, <1>16, <2>1, <3>1, <3>2, <3>7 DEF Mid
  <2> QED BY <1>2, <1>4, <1>5, <1>14, <2>3, <2>4, GoOn
<1> QED BY <1>1, <1>15, <1>16

\* The treasury an operation writes moves with the owner ledger it wrote, and by the
\* cash it books.
LEMMA LedgerAfterMoves ==
    ASSUME NEW r \in Thread, r.op \in Movers
    PROVE  /\ r.op \in Moving /\ Covers(r.owner, r.led) => Covers(OwnerAfter(r), LedgerAfter(r))
           /\ r.op \in Moving /\ Tally(r.owner, r.led) => Tally(OwnerAfter(r), LedgerAfter(r))
           /\ r.op \notin Moving => LedgerAfter(r).draws = r.led.draws /\ LedgerAfter(r).capital = r.led.capital
           /\ r.led.cash = LedgerAfter(r).cash - CashMoved(r)
<1> DEFINE o == r.owner  w == OwnerAfter(r)  l == r.led  k == LedgerAfter(r)  n == r.amt
<1>1. o \in Owner /\ l \in Ledger /\ n \in Nat BY DEF Thread
<1>2. /\ o.capital \in Nat /\ o.reimbursed \in Nat /\ o.draws \in Nat
      /\ l.capital \in Nat /\ l.draws \in Nat /\ l.cash \in Nat /\ Gap \in Int
  BY <1>1, OwnerAccountsAssumption DEF Owner, Ledger
<1>3. /\ w.capital = IF r.op = "contribute" THEN o.capital + n ELSE o.capital
      /\ w.reimbursed = IF r.op = "reimburse" THEN o.reimbursed + n ELSE o.reimbursed
      /\ w.draws = IF r.op = "draw" THEN o.draws + n ELSE o.draws
  BY <1>1 DEF OwnerAfter, Owner
<1>4. /\ k.cash = IF r.op = "contribute" THEN l.cash + n
                  ELSE IF r.op \in Spends THEN l.cash - n ELSE l.cash
      /\ k.capital = IF r.op = "contribute" THEN l.capital + n ELSE l.capital
      /\ k.draws = IF r.op \in {"reimburse", "draw"} THEN l.draws + n ELSE l.draws
  <2>1. CASE r.op = "contribute" BY <1>1, <2>1 DEF LedgerAfter, Ledger, Spends
  <2>2. CASE r.op \in {"reimburse", "draw"} BY <1>1, <2>2 DEF LedgerAfter, Ledger, Spends
  <2>3. CASE r.op = "payout" BY <1>1, <2>3 DEF LedgerAfter, Ledger, Spends
  <2>4. CASE r.op = "floor" BY <1>1, <2>4 DEF LedgerAfter, Ledger, Spends
  <2> QED BY <2>1, <2>2, <2>3, <2>4 DEF Movers, Spends
<1>5. CashMoved(r) = IF r.op = "contribute" THEN n ELSE IF r.op \in Spends THEN -n ELSE 0
  BY DEF CashMoved, Spends
<1> HIDE DEF o, w, l, k, n
<1>6. r.op \in Moving => k.draws - (w.reimbursed + w.draws) = l.draws - (o.reimbursed + o.draws)
                         /\ k.capital - w.capital = l.capital - o.capital
  BY <1>1, <1>2, <1>3, <1>4 DEF Moving
<1>7. /\ k.draws \in Int /\ w.reimbursed \in Int /\ w.draws \in Int
      /\ k.capital \in Int /\ w.capital \in Int
  BY <1>1, <1>2, <1>3, <1>4
<1>8. r.op \in Moving /\ Covers(o, l) => Covers(w, k) BY <1>2, <1>6, <1>7 DEF Covers
<1>9. r.op \in Moving /\ Tally(o, l) => Tally(w, k) BY <1>2, <1>6, <1>7 DEF Tally
<1>10. r.op \notin Moving => k.draws = l.draws /\ k.capital = l.capital BY <1>4 DEF Moving
<1>11. l.cash = k.cash - CashMoved(r) BY <1>1, <1>2, <1>4, <1>5
<1> QED BY <1>8, <1>9, <1>10, <1>11 DEF o, w, l, k

LEMMA SaveLedgerBooks ==
    ASSUME IInv, BooksInv, NEW t \in Threads, Alone(t), SaveLedger(t)
    PROVE  BooksInv'
<1> DEFINE q == Rest(t)  s == th[t].todo  r == th[t]
<1>1. Busy(t) /\ Head(s) = "save" /\ At(t, "save") BY DEF SaveLedger, At
<1>2. /\ r \in Thread /\ q \in Seq(StepNames) /\ Follows(q) /\ Whole(r.op, q) /\ Whole(r.op, s)
      /\ \A y : Has(s, y) <=> y = "save" \/ Has(q, y)
      /\ \A y : Has(q, y) => y \in After("save") /\ y # "lock"
      /\ Inside(t) /\ row \in Owner /\ ledger \in Ledger /\ Covers(row, ledger)
  BY <1>1, Serving
<1>3. Books(t) BY <1>2, Past
<1>4. Continue(t, r, q) /\ UNCHANGED <<json, row, journal, breaks>> BY DEF SaveLedger
<1>5. Goes(t, r, q) BY <1>2, <1>4, Going
<1>6. Sound(r, s, row, ledger) /\ (breaks = 0 => Mid(r, s, json, row, ledger, journal)) BY <1>3 DEF Books
<1>7. ledger' = LedgerAfter(r) /\ r.op \in Movers BY <1>1, BusyFacts DEF SaveLedger
<1> HIDE DEF q, s
<1>8. \A x : Has(q, x) <=> x = "journal" BY <1>2 DEF After, Whole
<1>9. Has(s, "save") /\ Has(s, "journal") /\ \A x : Has(s, x) => x \in {"save", "journal"} BY <1>2, <1>8
<1>10. r.led = ledger BY <1>6, <1>9 DEF Sound
<1>11. r.op \in Moving => row = OwnerAfter(r) /\ Covers(r.owner, ledger) BY <1>6, <1>9 DEF Sound
<1>12. Covers(row, ledger')
  <2>1. CASE r.op \in Moving BY <1>2, <1>7, <1>10, <1>11, <2>1, LedgerAfterMoves
  <2>2. CASE r.op \notin Moving
    <3>1. ledger'.draws = ledger.draws /\ ledger'.capital = ledger.capital
      BY <1>2, <1>7, <1>10, <2>2, LedgerAfterMoves
    <3> QED BY <1>2, <3>1 DEF Covers
  <2> QED BY <2>1, <2>2
<1>13. OwnerKnows' BY <1>4, <1>12 DEF OwnerKnows, Covers
<1>14. Sound(r, q, row, ledger') BY <1>2, <1>8 DEF Sound, OwnerWork
<1>15. ASSUME breaks = 0 PROVE Mid(r, q, json, row, ledger', journal)
  <2>1. Mid(r, s, json, row, ledger, journal) BY <1>6, <1>15
  <2>2. json = row /\ journal = ledger.cash BY <1>9, <2>1 DEF Mid
  <2>3. Tally(row, ledger')
    <3>1. CASE r.op \in Moving
      <4>1. Tally(r.owner, ledger) BY <1>9, <2>1, <3>1 DEF Mid
      <4> QED BY <1>2, <1>7, <1>10, <1>11, <3>1, <4>1, LedgerAfterMoves
    <3>2. CASE r.op \notin Moving
      <4>1. Tally(row, ledger) BY <2>1, <3>2 DEF Mid
      <4>2. ledger'.draws = ledger.draws /\ ledger'.capital = ledger.capital
        BY <1>2, <1>7, <1>10, <3>2, LedgerAfterMoves
      <4> QED BY <4>1, <4>2 DEF Tally
    <3> QED BY <3>1, <3>2
  <2>4. journal = ledger'.cash - CashMoved(r) BY <1>2, <1>7, <1>10, <2>2, LedgerAfterMoves
  <2> HIDE DEF r
  <2> QED BY <1>7, <1>8, <2>2, <2>3, <2>4 DEF Mid, OwnerWork
<1>16. ~Has(q, "lock") BY <1>8
<1> QED BY <1>4, <1>5, <1>13, <1>14, <1>15, <1>16, GoOn

\* The journal's row is the last step.
LEMMA JournalBooks ==
    ASSUME IInv, BooksInv, NEW t \in Threads, Alone(t), Journal(t)
    PROVE  BooksInv'
<1> DEFINE q == Rest(t)  s == th[t].todo  r == th[t]
<1>1. Busy(t) /\ Head(s) = "journal" BY DEF Journal, At
<1>2. /\ r \in Thread /\ q \in Seq(StepNames) /\ Follows(q) /\ Whole(r.op, q) /\ Whole(r.op, s)
      /\ \A y : Has(s, y) <=> y = "journal" \/ Has(q, y)
      /\ \A y : Has(q, y) => y \in After("journal") /\ y # "lock"
      /\ Inside(t) /\ row \in Owner /\ ledger \in Ledger /\ Covers(row, ledger)
  BY <1>1, Serving
<1>3. Books(t) BY <1>2, Past
<1>4. Continue(t, r, q) /\ UNCHANGED <<json, row, ledger, breaks>> /\ journal' = journal + CashMoved(r)
  BY DEF Journal
<1>5. Goes(t, r, q) BY <1>2, <1>4, Going
<1>6. Sound(r, s, row, ledger) /\ (breaks = 0 => Mid(r, s, json, row, ledger, journal)) BY <1>3 DEF Books
<1>7. OwnerKnows' BY <1>2, <1>4 DEF OwnerKnows, Covers
<1> HIDE DEF q, s
<1>8. \A x : ~Has(q, x) BY <1>2 DEF After
<1>9. Has(s, "journal") /\ \A x : Has(s, x) => x = "journal" BY <1>2, <1>8
<1>10. Sound(r, q, row, ledger) BY <1>2, <1>8 DEF Sound
<1>11. ASSUME breaks = 0 PROVE Mid(r, q, json, row, ledger, journal')
  <2>1. Mid(r, s, json, row, ledger, journal) BY <1>6, <1>11
  <2>2. json = row /\ Tally(row, ledger) BY <1>9, <2>1 DEF Mid
  <2>3. CashMoved(r) \in Int /\ ledger.cash \in Int /\ (r.op \notin Movers => CashMoved(r) = 0)
    BY <1>2 DEF CashMoved, Thread, Ledger, Movers, Spends
  <2>4. journal = IF r.op \in Movers THEN ledger.cash - CashMoved(r) ELSE ledger.cash
    BY <1>9, <2>1 DEF Mid
  <2>5. journal' = ledger.cash BY <1>4, <2>3, <2>4
  <2> QED BY <1>8, <2>2, <2>5 DEF Mid
<1>12. ~Has(q, "lock") BY <1>8
<1> QED BY <1>4, <1>5, <1>7, <1>10, <1>11, <1>12, GoOn

\* A thread that has not passed its lock touches none of the books.
LEMMA Aside ==
    ASSUME BooksInv, NEW t \in Threads, ~Inside(t), \A u \in Threads \ {t} : th'[u] = th[u],
           UNCHANGED stores, breaks' = 0 => breaks = 0,
           Sound(th'[t], th'[t].todo, row, ledger), th'[t].todo = <<>> \/ Has(th'[t].todo, "lock")
    PROVE  BooksInv'
<1>1. \A u \in Threads : Sound(th'[u], th'[u].todo, row, ledger) BY DEF BooksInv
<1>2. \A u \in Threads : Inside(u)' => u # t /\ Inside(u) BY DEF Inside
<1>3. ASSUME \A u \in Threads : ~Inside(u)' PROVE \A u \in Threads : ~Inside(u) BY <1>3 DEF Inside
<1>4. UNCHANGED <<json, row, ledger, journal>> BY DEF stores
<1>5. ASSUME breaks' = 0, NEW u \in Threads, Inside(u)'
      PROVE  Mid(th[u], th[u].todo, json, row, ledger, journal) /\ th'[u] = th[u]
  BY <1>2, <1>5 DEF BooksInv
<1>6. ASSUME breaks' = 0, \A u \in Threads : ~Inside(u)' PROVE Agree BY <1>3, <1>6 DEF BooksInv
<1> QED BY <1>1, <1>4, <1>5, <1>6 DEF BooksInv, OwnerKnows, Agree

LEMMA LockBooks ==
    ASSUME IInv, BooksInv, Exclusive', NEW t \in Threads, Lock(t)
    PROVE  BooksInv'
<1> DEFINE q == Rest(t)  s == th[t].todo  r == th[t]
<1>1. Busy(t) /\ Head(s) = "lock" BY DEF Lock, At
<1>2. /\ r \in Thread /\ q \in Seq(StepNames) /\ Follows(q) /\ Whole(r.op, q) /\ Whole(r.op, s)
      /\ \A y : Has(s, y) <=> y = "lock" \/ Has(q, y)
      /\ \A y : Has(q, y) => y \in After("lock") /\ y # "lock"
      /\ row \in Owner /\ ledger \in Ledger /\ Covers(row, ledger)
      /\ Sound(r, s, row, ledger)
  BY <1>1, Serving DEF Sound
<1>3. UNCHANGED <<json, row, ledger, journal, breaks>> /\ th' = [th EXCEPT ![t].todo = q] BY DEF Lock
<1>4. Goes(t, r, q) BY <1>2, <1>3 DEF Goes, IInv, Thread
<1>5. ~Inside(t) BY <1>2 DEF Inside
<1>6. th'[t].todo = q /\ \A u \in Threads \ {t} : th'[u] = th[u] BY <1>4 DEF Goes
<1>7. OwnerKnows' BY <1>2, <1>3 DEF OwnerKnows, Covers
<1> DEFINE n == th'[t]
<1>8. q # <<>> => n.op = r.op /\ n.amt = r.amt /\ n.owner = r.owner /\ n.led = r.led BY <1>4 DEF Goes
<1> HIDE DEF q, s, n
<1>9. /\ Has(q, "save") => Has(q, "ledger")
      /\ \A x \in OwnerWork : Has(q, x) => Has(q, "owner")
      /\ r.op \in Movers => Has(q, "save")
      /\ r.op \in Moving /\ Has(q, "save") => Has(q, "row")
      /\ Has(q, "row") => Has(q, "json")
  <2>1. Has(s, "lock") BY <1>2
  <2>2. \A x \in OwnerWork : Has(s, x) => Has(s, "owner") BY <1>2, <2>1 DEF Whole
  <2>3. \A x \in OwnerWork : Has(q, x) => Has(q, "owner") BY <1>2, <2>2
  <2>4. "lock" \in Before BY DEF Before
  <2>5. /\ r.op \in Moving /\ Has(s, "save") => Has(s, "row")
        /\ Has(s, "row") => Has(s, "json")
        /\ Has(s, "save") => Has(s, "ledger")
        /\ r.op \in Movers => Has(s, "save")
    BY <1>2, <2>1, <2>4 DEF Whole
  <2> QED BY <1>2, <2>3, <2>5
<1>10. Sound(r, q, row, ledger) BY <1>2, <1>9 DEF Sound
<1>11. CASE q = <<>>
  <2>1. Sound(n, q, row, ledger) BY <1>8, <1>10, Carried
  <2>2. Sound(th'[t], th'[t].todo, row, ledger) BY <1>6, <2>1 DEF n
  <2>3. UNCHANGED stores BY <1>3 DEF stores
  <2>4. th'[t].todo = <<>> BY <1>6, <1>11
  <2> QED BY <1>3, <1>5, <1>6, <2>2, <2>3, <2>4, Aside
<1>12. CASE q # <<>>
  <2>1. ~Has(q, "lock") BY <1>2
  <2>2. Inside(t)' BY <1>6, <1>12, <2>1 DEF Inside
  <2>3. ASSUME NEW u \in Threads \ {t} PROVE ~Inside(u)
    <3>1. ~Inside(u)' BY <2>2, <2>3 DEF Exclusive
    <3> QED BY <1>6, <3>1 DEF Inside
  <2>4. Alone(t) BY <2>3 DEF Alone
  <2>5. ASSUME breaks = 0 PROVE Mid(r, q, json, row, ledger, journal)
    <3>1. json = row /\ Tally(row, ledger) /\ journal = ledger.cash
      BY <1>5, <2>3, <2>5 DEF BooksInv, Agree
    <3>2. ~Has(q, "syncRow") BY <1>2 DEF After
    <3> QED BY <1>9, <3>1, <3>2 DEF Mid
  <2> QED BY <1>3, <1>4, <1>7, <1>10, <2>1, <2>4, <2>5, GoOn
<1> QED BY <1>11, <1>12

LEMMA RequestBooks ==
    ASSUME IInv, BooksInv, Exclusive', NEW t \in Threads, Request(t)
    PROVE  BooksInv'
<1>1. PICK d \in Doors, op \in Ops, n \in Amounts \cup Floors :
        th' = [th EXCEPT ![t] = [Idle EXCEPT !.op = op, !.door = d, !.amt = n, !.todo = Steps(d, op)]]
  BY DEF Request
<1> DEFINE r == [Idle EXCEPT !.op = op, !.door = d, !.amt = n, !.todo = Steps(d, op)]  s == Steps(d, op)
<1>2. d \in {"cli", "service"} /\ op \in AllOps \ {None}
  BY OwnerAccountsAssumption DEF AllOps, Movers, Spends, None
<1>3. /\ Follows(s) /\ Whole(op, s) /\ s # <<>>
      /\ Has(s, "lock") <=> op # "payout"
      /\ op = "payout" => \A x : Has(s, x) <=> x \in {"ledger", "save", "journal"}
  BY <1>2, StepsInOrder
<1>4. r.op = op /\ r.todo = s BY DEF Idle
<1>5. th' = [th EXCEPT ![t] = r] BY <1>1
<1>6. ~Inside(t) BY DEF Request, Busy, Inside
<1>7. UNCHANGED <<json, row, ledger, journal, breaks>> BY DEF Request, stores
<1> HIDE DEF r, s
<1>8. th'[t] = r /\ \A u \in Threads \ {t} : th'[u] = th[u] BY <1>5 DEF IInv
<1>9. CASE op # "payout"
  <2>1. Has(s, "save") => Has(s, "ledger") BY <1>3, <1>9 DEF Whole
  <2>2. \A x \in OwnerWork : Has(s, x) => Has(s, "owner") BY <1>3, <1>9 DEF Whole
  <2>3. op \in Moving /\ Has(s, "save") => Has(s, "row") BY <1>3, <1>9 DEF Whole, Before
  <2>4. Sound(r, s, row, ledger) BY <1>3, <1>4, <2>1, <2>2, <2>3 DEF Sound
  <2>5. Sound(th'[t], th'[t].todo, row, ledger) /\ Has(th'[t].todo, "lock") BY <1>3, <1>4, <1>8, <1>9, <2>4
  <2>6. UNCHANGED stores BY <1>7 DEF stores
  <2> QED BY <1>6, <1>7, <1>8, <2>5, <2>6, Aside
<1>10. CASE op = "payout"
  <2>1. ~Has(s, "lock") /\ Has(s, "save") /\ Has(s, "ledger") /\ \A x \in OwnerWork : ~Has(s, x)
    BY <1>3, <1>10 DEF OwnerWork
  <2>2. Inside(t)' BY <1>3, <1>4, <1>8, <2>1 DEF Inside
  <2>3. ASSUME NEW u \in Threads \ {t} PROVE ~Inside(u)
    <3>1. ~Inside(u)' BY <2>2, <2>3 DEF Exclusive
    <3> QED BY <1>8, <3>1 DEF Inside
  <2>4. Alone(t) BY <2>3 DEF Alone
  <2>5. Goes(t, r, s) BY <1>4, <1>8 DEF Goes
  <2>6. op \notin Moving BY <1>10 DEF Moving
  <2>7. Sound(r, s, row, ledger) BY <1>3, <1>4, <2>1, <2>6 DEF Sound
  <2>8. ASSUME breaks = 0 PROVE Mid(r, s, json, row, ledger, journal)
    <3>1. json = row /\ Tally(row, ledger) /\ journal = ledger.cash
      BY <1>6, <2>3, <2>8 DEF BooksInv, Agree
    <3> QED BY <1>4, <2>1, <2>6, <3>1 DEF Mid, OwnerWork
  <2>9. OwnerKnows' BY <1>7 DEF OwnerKnows, BooksInv
  <2> QED BY <1>7, <2>1, <2>4, <2>5, <2>7, <2>8, <2>9, GoOn
<1> QED BY <1>9, <1>10

LEMMA BreakBooks ==
    ASSUME IInv, BooksInv, Held, Exclusive, NEW t \in Threads, Break(t)
    PROVE  BooksInv'
<1>1. UNCHANGED <<json, row, ledger, journal>> /\ breaks' # 0 BY DEF Break, stores, Held
<1>2. <<>> \in Seq(StepNames) /\ th[t] \in Thread BY DEF IInv
<1>3. Goes(t, th[t], <<>>) BY <1>2, Going DEF Break
<1>4. CASE Inside(t)
  <2>1. Alone(t) BY <1>4 DEF Exclusive, Alone
  <2>2. OwnerKnows' BY <1>1 DEF OwnerKnows, BooksInv
  <2> QED BY <1>1, <1>3, <2>1, <2>2, EndsBooks
<1>5. CASE ~Inside(t)
  <2>1. Sound(th[t], <<>>, row, ledger)
    <3>1. \A x : ~Has(<<>>, x) BY NothingLeft
    <3>2. Follows(<<>>) BY DEF Follows
    <3>3. Whole(th[t].op, <<>>) BY <3>1 DEF Whole
    <3> QED BY <3>1, <3>2, <3>3 DEF Sound
  <2> DEFINE n == th'[t]
  <2>2. n.todo = <<>> /\ \A u \in Threads \ {t} : th'[u] = th[u] BY <1>3 DEF Goes
  <2> HIDE DEF n
  <2>3. Sound(n, <<>>, row, ledger) BY <2>1, Carried
  <2>4. Sound(th'[t], th'[t].todo, row, ledger) /\ th'[t].todo = <<>> BY <2>2, <2>3 DEF n
  <2>5. UNCHANGED stores BY <1>1 DEF stores
  <2> QED BY <1>1, <1>5, <2>2, <2>4, <2>5, Aside
<1> QED BY <1>4, <1>5

(***************************************************************************)
(* The locks.                                                              *)
(***************************************************************************)
\* A request that goes on keeps its lock, and one that ends gives up only its own.
LEMMA GoesOnHeld ==
    ASSUME IInv, Held, NEW t \in Threads, Busy(t), NEW r \in Thread, NEW q \in Seq(StepNames),
           Continue(t, r, q), r.op = th[t].op, r.door = th[t].door, breaks' \in Nat,
           q # <<>> /\ ~Has(q, "lock") => Inside(t)
    PROVE  Held'
<1>1. /\ th'[t].todo = q
      /\ q # <<>> => th'[t].op = th[t].op /\ th'[t].door = th[t].door
      /\ \A u \in Threads \ {t} : th'[u] = th[u]
  BY Going DEF Goes
<1>2. \A d \in {"cli", "service"} : locks[d] # t \/ q # <<>> => locks'[d] = locks[d] BY Going
<1>3. ASSUME NEW u \in Threads, Busy(u)'
      PROVE  /\ Busy(u) /\ th'[u].door = th[u].door /\ th[u].door \in {"cli", "service"}
             /\ Inside(u)' => Inside(u) /\ th'[u].op = th[u].op
             /\ u # t \/ q # <<>>
  BY <1>1, <1>3 DEF Busy, Inside, Held
<1>4. ASSUME NEW u \in Threads, Inside(u)', th'[u].op # "payout" PROVE locks'[th'[u].door] = u
  <2>1. Busy(u)' BY <1>4 DEF Inside, Busy
  <2>2. locks[th[u].door] = u BY <1>3, <1>4, <2>1 DEF Held
  <2> QED BY <1>2, <1>3, <2>1, <2>2
<1> QED BY <1>3, <1>4 DEF Held

LEMMA PlainHeld ==
    ASSUME IInv, Held, NEW t \in Threads, Busy(t), ~At(t, "lock"), NEW r \in Thread,
           Continue(t, r, Rest(t)), r.op = th[t].op, r.door = th[t].door, UNCHANGED breaks
    PROVE  Held'
<1>1. Rest(t) \in Seq(StepNames) BY BusyFacts
<1>2. Plan(th[t].op, th[t].todo) BY DEF IInv, ThreadOK
<1>3. Has(th[t].todo, "lock") => Has(Rest(t), "lock") BY <1>2, PlanTail DEF Busy, At, Rest
<1>4. breaks' \in Nat BY DEF Held
<1>5. Rest(t) # <<>> /\ ~Has(Rest(t), "lock") => Inside(t) BY <1>3 DEF Inside, Busy
<1> QED BY <1>1, <1>4, <1>5, GoesOnHeld

LEMMA LockHeld == ASSUME IInv, Held, NEW t \in Threads, Lock(t) PROVE Held'
<1>1. Busy(t) /\ locks[th[t].door] = None /\ locks' = [locks EXCEPT ![th[t].door] = t]
      /\ th' = [th EXCEPT ![t].todo = Rest(t)] /\ UNCHANGED breaks
  BY DEF Lock, LockFree, At
<1>2. \A u \in Threads : th'[u].door = th[u].door /\ th'[u].op = th[u].op
  BY <1>1 DEF IInv, Thread
<1>3. \A u \in Threads \ {t} : th'[u] = th[u] BY <1>1 DEF IInv
<1>4. \A u \in Threads : Busy(u)' => Busy(u) BY <1>1, <1>3 DEF Busy
<1>5. \A u \in Threads : Busy(u) => th[u].door \in {"cli", "service"} BY DEF Held
<1>6. DOMAIN locks = {"cli", "service"} BY DEF IInv, TypeOK
<1>7. ASSUME NEW u \in Threads, Inside(u)', th'[u].op # "payout" PROVE locks'[th'[u].door] = u
  <2>1. Busy(u)' BY <1>7 DEF Inside, Busy
  <2>2. th'[u].door = th[u].door /\ th[u].door \in {"cli", "service"} BY <1>2, <1>4, <1>5, <2>1
  <2>3. CASE u = t BY <1>1, <1>6, <2>2, <2>3
  <2>4. CASE u # t
    <3>1. locks[th[u].door] = u BY <1>2, <1>3, <1>7, <2>4 DEF Held, Inside
    <3>2. u # None BY OwnerAccountsAssumption DEF None
    <3> QED BY <1>1, <1>6, <2>2, <3>1, <3>2
  <2> QED BY <2>3, <2>4
<1>8. breaks' \in Nat BY <1>1 DEF Held
<1>9. \A u \in Threads : Busy(u)' => th'[u].door \in {"cli", "service"} BY <1>2, <1>4, <1>5
<1> QED BY <1>7, <1>8, <1>9 DEF Held

LEMMA BackfillHeld == ASSUME IInv, Held, NEW t \in Threads, Backfill(t) PROVE Held'
<1> DEFINE r == [th[t] EXCEPT !.owner.capital = ledger.capital]
           rest == <<"syncJson", "syncRow">> \o Rest(t)
<1>1. Busy(t) /\ At(t, "sync") /\ ~At(t, "lock") /\ UNCHANGED breaks BY DEF Backfill, At
<1>2. th[t] \in Thread /\ Plan(th[t].op, Rest(t)) /\ Plan(th[t].op, th[t].todo)
  BY <1>1, BusyFacts DEF IInv, ThreadOK
<1>3. CASE Continue(t, r, rest)
  <2>1. ledger.capital \in Nat
    BY DEF IInv, TypeOK, Ledger
  <2>2. r \in Thread /\ r.op = th[t].op /\ r.door = th[t].door
    <3> DEFINE o == [th[t].owner EXCEPT !.capital = ledger.capital]
    <3>1. th[t].owner \in Owner /\ o \in Owner BY <1>2, <2>1 DEF Thread, Owner
    <3>2. r = [th[t] EXCEPT !.owner = o] BY <1>2, <3>1 DEF Thread, Owner
    <3> HIDE DEF o
    <3> QED BY <1>2, <3>1, <3>2 DEF Thread
  <2>3. rest \in Seq(StepNames) /\ (Has(Rest(t), "lock") => Has(rest, "lock")) BY <1>2, PlanSync DEF Plan
  <2>4. Has(th[t].todo, "lock") => Has(Rest(t), "lock") BY <1>1, <1>2, PlanTail DEF Busy, At, Rest
  <2>5. rest # <<>> /\ ~Has(rest, "lock") => Inside(t) BY <1>1, <2>3, <2>4 DEF Inside, Busy
  <2>6. breaks' \in Nat BY <1>1 DEF Held
  <2> HIDE DEF r, rest
  <2> QED BY <1>1, <1>3, <2>2, <2>3, <2>5, <2>6, GoesOnHeld
<1>4. CASE Continue(t, th[t], Rest(t)) BY <1>1, <1>2, <1>4, PlainHeld
<1> QED BY <1>3, <1>4 DEF Backfill

LEMMA RequestHeld == ASSUME IInv, Held, NEW t \in Threads, Request(t) PROVE Held'
<1>1. PICK d \in Doors, op \in Ops, n \in Amounts \cup Floors :
        th' = [th EXCEPT ![t] = [Idle EXCEPT !.op = op, !.door = d, !.amt = n, !.todo = Steps(d, op)]]
  BY DEF Request
<1> DEFINE s == Steps(d, op)
<1>2. d \in {"cli", "service"} /\ op \in AllOps \ {None}
  BY OwnerAccountsAssumption DEF AllOps, Movers, Spends, None
<1>3. Has(s, "lock") <=> op # "payout" BY <1>2, StepsInOrder
<1>4. th'[t].op = op /\ th'[t].door = d /\ th'[t].todo = s /\ \A u \in Threads \ {t} : th'[u] = th[u]
  BY <1>1 DEF IInv, Idle
<1>5. UNCHANGED <<locks, breaks>> BY DEF Request
<1> HIDE DEF s
<1>6. ~(Inside(t)' /\ th'[t].op # "payout") BY <1>3, <1>4 DEF Inside
<1>7. \A u \in Threads : Busy(u)' => th'[u].door \in {"cli", "service"} BY <1>2, <1>4 DEF Held, Busy
<1>8. ASSUME NEW u \in Threads, Inside(u)', th'[u].op # "payout" PROVE locks'[th'[u].door] = u
  <2>1. u # t BY <1>6, <1>8
  <2>2. th'[u] = th[u] BY <1>4, <2>1
  <2> QED BY <1>5, <1>8, <2>2 DEF Held, Inside
<1>9. breaks' \in Nat BY <1>5 DEF Held
<1> QED BY <1>7, <1>8, <1>9 DEF Held

LEMMA HeldStep == ASSUME IInv, Held, [Next]_vars PROVE Held'
<1>1. ASSUME NEW t \in Threads, LoadOwner(t) PROVE Held'
  <2> DEFINE r == [th[t] EXCEPT !.owner = row]
  <2>1. Busy(t) /\ ~At(t, "lock") BY <1>1 DEF LoadOwner, At
  <2>2. r \in Thread /\ r.op = th[t].op /\ r.door = th[t].door BY DEF IInv, TypeOK, Thread
  <2>3. Continue(t, r, Rest(t)) /\ UNCHANGED breaks BY <1>1 DEF LoadOwner
  <2> HIDE DEF r
  <2> QED BY <2>1, <2>2, <2>3, PlainHeld
<1>2. ASSUME NEW t \in Threads, LoadLedger(t) PROVE Held'
  <2> DEFINE r == [th[t] EXCEPT !.led = ledger]
  <2>1. Busy(t) /\ ~At(t, "lock") /\ UNCHANGED breaks BY <1>2 DEF LoadLedger, At
  <2>2. r \in Thread /\ r.op = th[t].op /\ r.door = th[t].door BY DEF IInv, TypeOK, Thread
  <2>3. Continue(t, r, Rest(t)) \/ Continue(t, r, <<>>) BY <1>2 DEF LoadLedger
  <2>4. breaks' \in Nat /\ <<>> \in Seq(StepNames) BY <2>1 DEF Held
  <2> HIDE DEF r
  <2> QED BY <2>1, <2>2, <2>3, <2>4, PlainHeld, GoesOnHeld
<1>3. ASSUME NEW t \in Threads, SaveJson(t) \/ SaveRow(t) \/ SaveLedger(t) \/ Journal(t) PROVE Held'
  <2>1. Busy(t) /\ ~At(t, "lock") /\ UNCHANGED breaks /\ Continue(t, th[t], Rest(t))
    BY <1>3 DEF SaveJson, SaveRow, SaveLedger, Journal, At
  <2>2. th[t] \in Thread BY DEF IInv
  <2> QED BY <2>1, <2>2, PlainHeld
<1>4. ASSUME NEW t \in Threads, Break(t) PROVE Held'
  <2>1. Busy(t) /\ breaks' \in Nat /\ Continue(t, th[t], <<>>) BY <1>4 DEF Break, Held
  <2>2. th[t] \in Thread /\ <<>> \in Seq(StepNames) BY DEF IInv
  <2> QED BY <2>1, <2>2, GoesOnHeld
<1>5. CASE UNCHANGED vars BY <1>5 DEF vars, Held, Inside, Busy
<1> QED BY <1>1, <1>2, <1>3, <1>4, <1>5, LockHeld, BackfillHeld, RequestHeld DEF Next

\* In a mode, at most one request is past its lock.
LEMMA HeldExcludes ==
    ASSUME IInv, Held, NEW m \in Doors \cup {"one at a time"}, Mode(m)
    PROVE  Exclusive
<1> SUFFICES ASSUME NEW t \in Threads, NEW u \in Threads, Inside(t), Inside(u) PROVE t = u
  BY DEF Exclusive
<1>1. Busy(t) /\ Busy(u) BY DEF Inside, Busy
<1>2. CASE m = "one at a time" BY <1>1, <1>2 DEF Mode
<1>3. CASE m # "one at a time"
  <2>1. /\ th[t].door = m /\ th[t].op # "payout" /\ th[u].door = m /\ th[u].op # "payout"
    BY <1>1, <1>3 DEF Mode
  <2> QED BY <2>1 DEF Held
<1> QED BY <1>2, <1>3

(***************************************************************************)
(* Theorems about the books.                                               *)
(***************************************************************************)
LEMMA BooksInitially == Init => Held /\ BooksInv
<1> SUFFICES ASSUME Init PROVE Held /\ BooksInv
  OBVIOUS
<1>1. \A t \in Threads : th[t] = Idle /\ th[t].todo = <<>> BY DEF Init, Idle
<1>2. \A t \in Threads : ~Inside(t) /\ ~Busy(t) BY <1>1 DEF Inside, Busy
<1>3. breaks = 0 BY DEF Init
<1>4. ASSUME NEW r, NEW w, NEW l PROVE Sound(r, <<>>, w, l)
  <2>1. \A x : ~Has(<<>>, x) BY NothingLeft
  <2>2. Follows(<<>>) BY DEF Follows
  <2>3. Whole(r.op, <<>>) BY <2>1 DEF Whole
  <2> QED BY <2>1, <2>2, <2>3 DEF Sound
<1>5. row.capital = OpeningCapital - Gap /\ row.reimbursed = 0 /\ row.draws = 0
      /\ ledger.capital = OpeningCapital /\ ledger.draws = 0 /\ ledger.cash = OpeningCash
  BY DEF Init, Opening, OpeningOwner
<1>6. OpeningCapital \in Nat /\ Gap \in Nat BY OwnerAccountsAssumption
<1>7. ledger.capital - row.capital = Gap BY <1>5, <1>6
<1>8. OwnerKnows BY <1>5, <1>6, <1>7 DEF OwnerKnows
<1>9. Agree BY <1>5, <1>7 DEF Init, Agree, Tally
<1> QED BY <1>1, <1>2, <1>3, <1>4, <1>8, <1>9 DEF Held, BooksInv

LEMMA BooksStep ==
    ASSUME IInv, BooksInv, Held, Exclusive, Exclusive', [Next]_vars
    PROVE  BooksInv'
<1>1. ASSUME NEW t \in Threads,
             \/ LoadOwner(t) \/ Backfill(t) \/ LoadLedger(t)
             \/ SaveJson(t) \/ SaveRow(t) \/ SaveLedger(t) \/ Journal(t)
      PROVE  BooksInv'
  <2>1. Busy(t) /\ Head(th[t].todo) # "lock"
    BY <1>1 DEF LoadOwner, Backfill, LoadLedger, SaveJson, SaveRow, SaveLedger, Journal, At
  <2>2. Inside(t) BY <2>1, Serving
  <2>3. Alone(t) BY <2>2 DEF Exclusive, Alone
  <2> QED BY <1>1, <2>3, LoadOwnerBooks, BackfillBooks, LoadLedgerBooks, SaveJsonBooks,
             SaveRowBooks, SaveLedgerBooks, JournalBooks
<1>2. CASE UNCHANGED vars
  BY <1>2 DEF vars, BooksInv, OwnerKnows, Inside, Agree
<1> QED BY <1>1, <1>2, LockBooks, RequestBooks, BreakBooks DEF Next

LEMMA BooksKept ==
    ASSUME NEW m \in Doors \cup {"one at a time"}
    PROVE  Spec /\ []Mode(m) => []BooksInv
<1>1. Init => IInv /\ Held /\ BooksInv BY Initially, BooksInitially
<1>2. IInv /\ Held /\ [Next]_vars => IInv' /\ Held' BY Inductive, HeldStep
<1>3. IInv /\ Held /\ Mode(m) => Exclusive BY HeldExcludes
<1>4. IInv /\ Held /\ BooksInv /\ Exclusive /\ Exclusive' /\ [Next]_vars => BooksInv' BY BooksStep
<1> QED BY <1>1, <1>2, <1>3, <1>4, PTL DEF Spec

\* Wherever a request breaks off, the owner ledger knows of all the cash that has
\* moved, as long as the requests come through one implementation, whose lock they
\* take, and no payout does, or are served one at a time.
THEOREM OwnerAlwaysKnows ==
    ASSUME NEW m \in Doors \cup {"one at a time"}
    PROVE  Spec /\ []Mode(m) => []OwnerKnows
<1>1. BooksInv => OwnerKnows BY DEF BooksInv
<1> QED BY <1>1, BooksKept, PTL

\* In either mode the file and the row of the owner ledger, the treasury and the
\* journal tell one story whenever no request is served, unless one broke off.
THEOREM BooksAlwaysAgree ==
    ASSUME NEW m \in Doors \cup {"one at a time"}
    PROVE  Spec /\ []Mode(m) => []BooksAgree
<1>1. BooksInv => BooksAgree
  <2>1. AllIdle => \A t \in Threads : ~Inside(t) BY DEF AllIdle, Busy, Inside
  <2> QED BY <2>1 DEF BooksInv, BooksAgree, Agree, Tally
<1> QED BY <1>1, BooksKept, PTL
=============================================================================
