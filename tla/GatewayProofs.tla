------------------------------ MODULE GatewayProofs ------------------------------
(***************************************************************************)
(* Proofs about four parts of the gateway: the scoring of deliveries pays  *)
(* once and its journal explains the ledger; the questionnaires ship only  *)
(* what their answers allow; the memory claims no more than it earned; and *)
(* a team's delivery keeps to the court, to its gate and to its verdict.   *)
(***************************************************************************)
EXTENDS SessionScoring, TrustReview, SessionMemory, TeamDelivery,
        FiniteSetTheorems, SequenceTheorems, WellFoundedInduction, TLAPS

---------------------------------------------------------------------------
(***************************************************************************)
(* Session scoring: shapes                                                 *)
(***************************************************************************)
ScoreState(x) ==
    /\ x = [events |-> x.events, prints |-> x.prints, outcomes |-> x.outcomes, court |-> x.court]
    /\ \E S : x.prints \in Seq(S)
Records(S) == [pc : S, d : S, seen : S, state : S, book : S, todo : S, charges : S]
ScorerRecord(r) ==
    /\ \E S : r \in Records(S)
    /\ r.pc \in {"idle", "begin", "repeat", "book", "journal", "ledger", "court"}
    /\ ScoreState(r.state)
Entry(x) == x = [rep |-> x.rep, auth |-> x.auth, flags |-> x.flags]
Register(b) == b = [a \in Agents |-> b[a]] /\ \A a \in Agents : Entry(b[a])

Scores ==
    /\ scorer = [s \in Scorers |-> scorer[s]] /\ \A s \in Scorers : ScorerRecord(scorer[s])
    /\ ScoreState(state) /\ Register(ledger)
    /\ \A s \in Scorers : /\ scorer[s].pc \in {"journal", "ledger"} => Register(scorer[s].book)
                          /\ scorer[s].pc = "journal" => scorer[s].todo \subseteq Agents
    /\ \E S : journal \in Seq(S)

\* What each step does to the scorer that takes it.
ScorerStep(s, r) ==
    /\ ScorerRecord(r) /\ scorer'[s] = r
    /\ scorer' = [t \in Scorers |-> scorer'[t]]
    /\ \A t \in Scorers : t # s => scorer'[t] = scorer[t]

\* A record of this shape may take other parts.
LEMMA ScorerRoom ==
  ASSUME NEW x, ScorerRecord(x), NEW V
  PROVE  \E S : V \subseteq S /\ x \in Records(S)
<1>1. PICK S : x \in Records(S) BY DEF ScorerRecord
<1>2. x \in Records(S \cup V) BY <1>1 DEF Records
<1> QED BY <1>2

LEMMA StateWith ==
  ASSUME NEW x, ScoreState(x), NEW v
  PROVE  ScoreState([x EXCEPT !.court = v])
<1>1. PICK S : x.prints \in Seq(S) BY DEF ScoreState
<1> DEFINE y == [x EXCEPT !.court = v]
<1>2. /\ y.prints = x.prints
      /\ y = [events |-> y.events, prints |-> y.prints, outcomes |-> y.outcomes, court |-> y.court]
  BY DEF ScoreState
<1> HIDE DEF y
<1>3. y.prints \in Seq(S) BY <1>1, <1>2
<1>4. ScoreState(y) BY <1>2, <1>3 DEF ScoreState
<1> QED BY <1>4 DEF y

LEMMA EntryParts ==
  ASSUME NEW x, Entry(x)
  PROVE  \E r, a, f : x = [rep |-> r, auth |-> a, flags |-> f]
BY DEF Entry

LEMMA RestingShape ==
  ScorerRecord(Resting) /\ ScoreState(NoState) /\ Resting.pc = "idle"
<1>1. Resting \in Records({"idle", "none", NoState, <<>>, {}}) BY DEF Resting, Records
<1>2. NoState.prints \in Seq({}) BY DEF NoState
<1>3. ScoreState(NoState) BY <1>2 DEF ScoreState, NoState
<1> QED BY <1>1, <1>3 DEF ScorerRecord, Resting

LEMMA ScorerSet ==
  ASSUME Scores, NEW s \in Scorers, NEW r, ScorerRecord(r), scorer' = [scorer EXCEPT ![s] = r]
  PROVE  ScorerStep(s, r)
BY DEF Scores, ScorerStep

LEMMA FinishStep ==
  ASSUME Scores, NEW s \in Scorers, Finish(s)
  PROVE  \E r : /\ ScorerStep(s, r) /\ r.pc = "begin" /\ scorer[s].pc = "idle"
                /\ UNCHANGED <<state, ledger, journal, charged, muddled, again>>
<1> DEFINE d == Deliveries[Len(delivered) + 1]
           r == [Resting EXCEPT !.pc = "begin", !.d = d]
<1>1. scorer' = [scorer EXCEPT ![s] = r] BY DEF Finish
<1>2. ScorerRecord(r) /\ r.pc = "begin"
  <2> HIDE DEF d
  <2>1. PICK S : {"begin", d} \subseteq S /\ Resting \in Records(S) BY RestingShape, ScorerRoom
  <2>2. Resting.state = NoState BY DEF Resting
  <2> HIDE DEF Resting
  <2>3. r \in Records(S) /\ r.pc = "begin" /\ r.state = NoState BY <2>1, <2>2 DEF Records
  <2> QED BY <2>3, RestingShape DEF ScorerRecord
<1> HIDE DEF r
<1>3. ScorerStep(s, r) BY <1>1, <1>2, ScorerSet
<1> QED BY <1>2, <1>3 DEF Finish

LEMMA BeginStep ==
  ASSUME Scores, NEW s \in Scorers, Begin(s)
  PROVE  \E r, st : /\ ScorerStep(s, r) /\ scorer[s].pc = "begin"
                    /\ \/ r = Resting
                       \/ /\ r.pc \in {"repeat", "book"} /\ r.d = scorer[s].d
                          /\ r.pc = "book" => Of(s).print \notin Prints(st)
                    /\ UNCHANGED <<state, ledger, journal, charged, muddled>>
                    /\ TakenUp(s, st)
<1>1. PICK st \in StateRead(s) :
         /\ TakenUp(s, st)
         /\ scorer' = [scorer EXCEPT ![s] =
               IF scorer[s].d \in Listed(st.events) \/ ~Of(s).eligible THEN Resting
               ELSE [@ EXCEPT !.pc = IF Of(s).print \in Prints(st) THEN "repeat" ELSE "book",
                              !.seen = delivered, !.state = st]]
  BY Zenon DEF Begin
<1> DEFINE c == IF Of(s).print \in Prints(st) THEN "repeat" ELSE "book"
           q == [scorer[s] EXCEPT !.pc = c, !.seen = delivered, !.state = st]
           r == IF scorer[s].d \in Listed(st.events) \/ ~Of(s).eligible THEN Resting ELSE q
<1>2. scorer' = [scorer EXCEPT ![s] = r] BY <1>1 DEF Scores
<1>3. c \in {"repeat", "book"} /\ (c = "book" => Of(s).print \notin Prints(st)) OBVIOUS
<1>4. ScorerRecord(q) /\ q.pc = c /\ q.d = scorer[s].d
  <2> HIDE DEF c
  <2>1. ScorerRecord(scorer[s]) /\ ScoreState(state) BY DEF Scores
  <2>2. ScoreState(st) BY <1>1, <2>1, RestingShape DEF StateRead
  <2>3. PICK S : {c, delivered, st} \subseteq S /\ scorer[s] \in Records(S) BY <2>1, ScorerRoom
  <2>4. q \in Records(S) /\ q.pc = c /\ q.d = scorer[s].d /\ q.state = st BY <2>3 DEF Records
  <2> HIDE DEF q
  <2> QED BY <1>3, <2>2, <2>4 DEF ScorerRecord
<1> HIDE DEF c, q
<1>5. ScorerRecord(r) BY <1>4, RestingShape
<1>6. ScorerStep(s, r) BY <1>2, <1>5, ScorerSet
<1>7. r = Resting \/ r = q OBVIOUS
<1> HIDE DEF r
<1> QED BY <1>1, <1>3, <1>4, <1>6, <1>7 DEF Begin

LEMMA RepeatStep ==
  ASSUME Scores, NEW s \in Scorers, Repeat(s)
  PROVE  /\ ScorerStep(s, Resting) /\ scorer[s].pc = "repeat" /\ ScoreState(state')
         /\ again' = again \cup Forgotten
         /\ UNCHANGED <<ledger, journal, muddled>>
<1>1. ScorerStep(s, Resting) BY ScorerSet, RestingShape DEF Repeat
<1>2. ScoreState(scorer[s].state) BY DEF Scores, ScorerRecord
<1>3. \E e : state' = [scorer[s].state EXCEPT !.events = e] BY DEF Repeat
<1>4. ScoreState(state') BY <1>2, <1>3 DEF ScoreState
<1> QED BY <1>1, <1>4 DEF Repeat

LEMMA BookStep ==
  ASSUME Scores, NEW s \in Scorers, Book(s)
  PROVE  \E r : /\ ScorerStep(s, r) /\ scorer[s].pc = "book"
                /\ r.pc = "journal" /\ r.d = scorer[s].d /\ r.state = scorer[s].state
                /\ r.book = ledger /\ r.todo \subseteq Agents
                /\ UNCHANGED <<state, ledger, journal, charged, again>>
                /\ muddled' = IF Holders = {} THEN muddled ELSE Agents
<1> DEFINE todo == Paid(Of(s), scorer[s].seen)
           r == [scorer[s] EXCEPT !.pc = "journal", !.book = ledger, !.todo = todo]
<1>1. scorer' = [scorer EXCEPT ![s].pc = "journal", ![s].book = ledger, ![s].todo = todo]
  BY DEF Book
<1>2. todo \subseteq Agents BY DEF Paid
<1> HIDE DEF todo
<1>3. ScorerRecord(scorer[s]) BY DEF Scores
<1>4. /\ ScorerRecord(r) /\ r.pc = "journal" /\ r.d = scorer[s].d /\ r.state = scorer[s].state
      /\ r.book = ledger /\ r.todo = todo
  <2>1. PICK S : {"journal", ledger, todo} \subseteq S /\ scorer[s] \in Records(S)
    BY <1>3, ScorerRoom
  <2>2. r \in Records(S) BY <2>1 DEF Records
  <2> QED BY <1>3, <2>1, <2>2 DEF Records, ScorerRecord
<1>5. scorer' = [scorer EXCEPT ![s] = r] BY <1>1 DEF Scores
<1> HIDE DEF r
<1>6. ScorerStep(s, r) BY <1>4, <1>5, ScorerSet
<1> QED BY <1>2, <1>4, <1>6 DEF Book

LEMMA AppliedShape ==
  ASSUME NEW x, NEW points, Entry(x)
  PROVE  Entry(Applied(x, points))
<1>1. PICK r, a, f : x = [rep |-> r, auth |-> a, flags |-> f] BY EntryParts
<1> DEFINE v == Within(x.rep + (IF "probation" \in x.flags /\ points[1] > 0
                                THEN Halved(points[1]) ELSE points[1]))
           w == Within(x.auth + (IF "zero_authority" \in x.flags /\ points[2] > 0
                                 THEN 0 ELSE points[2]))
<1>2. Applied(x, points) = [x EXCEPT !.rep = v, !.auth = w] BY Zenon DEF Applied
<1> HIDE DEF v, w
<1>3. Applied(x, points) = [x EXCEPT !.rep = v, !.auth = w] BY <1>2
<1>4. Applied(x, points) = [rep |-> v, auth |-> w, flags |-> f] BY <1>1, <1>3
<1> QED BY <1>4 DEF Entry

LEMMA JournalStep ==
  ASSUME Scores, NEW s \in Scorers, NEW a \in Agents, Journal(s, a)
  PROVE  \E r, e : /\ ScorerStep(s, r) /\ scorer[s].pc = "journal" /\ a \in scorer[s].todo
                   /\ r.pc \in {"journal", "ledger"} /\ r.d = scorer[s].d
                   /\ r.state = scorer[s].state
                   /\ r.todo = scorer[s].todo \ {a} /\ Register(r.book)
                   /\ \A b \in Agents : b # a => r.book[b] = scorer[s].book[b]
                   /\ e.agent = a /\ e.print = Of(s).print
                   /\ e.before = scorer[s].book[a].rep /\ e.after = r.book[a].rep
                   /\ journal' = Append(journal, e)
                   /\ UNCHANGED <<state, ledger, charged, muddled, again>>
<1> DEFINE new == Applied(scorer[s].book[a], Earned(a, Of(s), scorer[s].seen))
           pc == IF scorer[s].todo = {a} THEN "ledger" ELSE scorer[s].pc
           book == [scorer[s].book EXCEPT ![a] = new]
           r == [scorer[s] EXCEPT !.book = book, !.todo = scorer[s].todo \ {a}, !.pc = pc]
<1>0. scorer[s].pc = "journal" /\ Register(scorer[s].book) /\ ScorerRecord(scorer[s])
  BY DEF Journal, Scores
<1>1. scorer' = [scorer EXCEPT ![s].book[a] = new, ![s].todo = @ \ {a},
                               ![s].pc = IF scorer[s].todo = {a} THEN "ledger" ELSE @]
  BY DEF Journal
<1>2. pc \in {"journal", "ledger"} BY <1>0
<1>3. Entry(new) BY <1>0, AppliedShape DEF Register
<1> HIDE DEF new
<1>4. Register(book) /\ book[a] = new /\ \A b \in Agents : b # a => book[b] = scorer[s].book[b]
  BY <1>0, <1>3 DEF Register
<1>5. scorer' = [scorer EXCEPT ![s] = r] BY <1>0, <1>1 DEF Scores, ScorerRecord
<1> HIDE DEF pc, book
<1>6. /\ ScorerRecord(r) /\ r.pc = pc /\ r.d = scorer[s].d /\ r.state = scorer[s].state
      /\ r.book = book /\ r.todo = scorer[s].todo \ {a}
  <2>1. PICK S : {pc, book, scorer[s].todo \ {a}} \subseteq S /\ scorer[s] \in Records(S)
    BY <1>0, ScorerRoom
  <2>2. r \in Records(S) BY <2>1 DEF Records
  <2> QED BY <1>0, <1>2, <2>1, <2>2 DEF Records, ScorerRecord
<1> HIDE DEF r
<1>7. ScorerStep(s, r) BY <1>5, <1>6, ScorerSet
<1> DEFINE e == [agent |-> a, print |-> Of(s).print, before |-> scorer[s].book[a].rep,
                 after |-> new.rep, by |-> scorer[s].d]
<1>8. journal' = Append(journal, e) BY DEF Journal, new
<1>9. a \in scorer[s].todo /\ UNCHANGED <<state, ledger, charged, muddled, again>> BY DEF Journal
<1>10. Register(r.book) /\ r.book[a] = new /\ \A b \in Agents : b # a => r.book[b] = scorer[s].book[b]
  BY <1>4, <1>6
<1>11. /\ e.agent = a /\ e.print = Of(s).print
       /\ e.before = scorer[s].book[a].rep /\ e.after = r.book[a].rep
  BY <1>10
<1> HIDE DEF e
<1> QED BY <1>0, <1>2, <1>6, <1>7, <1>8, <1>9, <1>10, <1>11

LEMMA SaveLedgerStep ==
  ASSUME Scores, NEW s \in Scorers, SaveLedger(s)
  PROVE  \E r : /\ ScorerStep(s, r) /\ scorer[s].pc = "ledger"
                /\ r.pc = "court" /\ r.d = scorer[s].d
                /\ ledger' = scorer[s].book
                /\ UNCHANGED <<state, journal, charged, muddled, again>>
<1> DEFINE x == Remember(scorer[s].state.outcomes, scorer[s].d)
           c == Accused(scorer[s].book, scorer[s].state.outcomes, scorer[s].d)
           st == [scorer[s].state EXCEPT !.outcomes = x]
           r == [scorer[s] EXCEPT !.pc = "court", !.charges = c, !.state = st]
<1>0. ScorerRecord(scorer[s]) BY DEF Scores
<1>1. scorer' = [scorer EXCEPT ![s].pc = "court", ![s].charges = c,
                               ![s].state.outcomes = Remember(@, scorer[s].d)]
  BY DEF SaveLedger
<1>2. scorer' = [scorer EXCEPT ![s] = r] BY <1>0, <1>1 DEF Scores, ScorerRecord, ScoreState
<1> HIDE DEF x, c
<1>3. ScoreState(st)
  BY <1>0 DEF ScorerRecord, ScoreState
<1> HIDE DEF st
<1>4. ScorerRecord(r) /\ r.pc = "court" /\ r.d = scorer[s].d /\ r.state = st
  <2>1. PICK S : {"court", st, c} \subseteq S /\ scorer[s] \in Records(S)
    BY <1>0, ScorerRoom
  <2>2. r \in Records(S) BY <2>1 DEF Records
  <2> QED BY <1>0, <1>3, <2>1, <2>2 DEF Records, ScorerRecord
<1> HIDE DEF r
<1>5. ScorerStep(s, r) BY <1>2, <1>4, ScorerSet
<1> QED BY <1>3, <1>4, <1>5 DEF SaveLedger

LEMMA FileStep ==
  ASSUME Scores, NEW s \in Scorers, NEW x \in scorer[s].charges, File(s, x)
  PROVE  \E r : /\ ScorerStep(s, r) /\ scorer[s].pc = "court"
                /\ r.pc = "court" /\ r.d = scorer[s].d
                /\ Register(ledger') /\ \A a \in Agents : ledger'[a].rep = ledger[a].rep
                /\ (muddled' = muddled \/ muddled' = Agents)
                /\ UNCHANGED <<state, journal, again>>
<1> DEFINE rest == scorer[s].charges \ {x}
           q == [scorer[s] EXCEPT !.charges = rest]
           st == [scorer[s].state EXCEPT !.court = scorer[s].state.court \cup {Key(s, x)}]
           p == [scorer[s] EXCEPT !.charges = rest, !.state = st]
<1>0. ScorerRecord(scorer[s]) /\ Register(ledger) /\ scorer[s].pc = "court" BY DEF Scores, File
<1>1. /\ \/ scorer' = [scorer EXCEPT ![s].charges = @ \ {x}]
         \/ scorer' = [scorer EXCEPT ![s].charges = @ \ {x}, ![s].state.court = @ \cup {Key(s, x)}]
      /\ \/ ledger' = ledger
         \/ ledger' = [ledger EXCEPT ![x.agent].flags = @ \cup Sanction(x.severity)]
      /\ UNCHANGED <<state, journal, again>>
  <2>1. \/ scorer' = [scorer EXCEPT ![s].charges = @ \ {x}]
        \/ scorer' = [scorer EXCEPT ![s].charges = @ \ {x}, ![s].state.court = @ \cup {Key(s, x)}]
    BY Zenon DEF File
  <2>2. ledger' = ledger \/ ledger' = [ledger EXCEPT ![x.agent].flags = @ \cup Sanction(x.severity)]
    BY Zenon DEF File
  <2>3. UNCHANGED <<state, journal, again>> BY Zenon DEF File
  <2> QED BY <2>1, <2>2, <2>3, Zenon
<1>8. muddled' = muddled \/ muddled' = Agents BY DEF File
<1>2. scorer' = [scorer EXCEPT ![s] = q] \/ scorer' = [scorer EXCEPT ![s] = p]
  BY <1>0, <1>1 DEF Scores, ScorerRecord, ScoreState
<1>3. Register(ledger') /\ \A a \in Agents : ledger'[a].rep = ledger[a].rep
  <2> DEFINE z == ledger[x.agent].flags \cup Sanction(x.severity)
  <2>1. ledger' = ledger \/ ledger' = [ledger EXCEPT ![x.agent].flags = z]
    BY <1>1
  <2> HIDE DEF z
  <2> QED BY <1>0, <2>1 DEF Register, Entry
<1> HIDE DEF rest
<1>4. ScoreState(st)
  <2> DEFINE v == scorer[s].state.court \cup {Key(s, x)}
  <2> HIDE DEF v
  <2> QED BY <1>0, StateWith DEF ScorerRecord
<1> HIDE DEF st
<1>5. ScorerRecord(q) /\ q.pc = "court" /\ q.d = scorer[s].d /\ q.state = scorer[s].state
  <2>1. PICK S : {rest} \subseteq S /\ scorer[s] \in Records(S) BY <1>0, ScorerRoom
  <2>2. q \in Records(S) BY <2>1 DEF Records
  <2> QED BY <1>0, <2>1, <2>2 DEF Records, ScorerRecord
<1>6. ScorerRecord(p) /\ p.pc = "court" /\ p.d = scorer[s].d /\ p.state = st
  <2>1. PICK S : {st, rest} \subseteq S /\ scorer[s] \in Records(S)
    BY <1>0, ScorerRoom
  <2>2. p \in Records(S) BY <2>1 DEF Records
  <2> QED BY <1>0, <1>4, <2>1, <2>2 DEF Records, ScorerRecord
<1> HIDE DEF q, p
<1>7. ScorerStep(s, q) \/ ScorerStep(s, p) BY <1>2, <1>5, <1>6, ScorerSet
<1> QED BY <1>0, <1>1, <1>3, <1>4, <1>5, <1>6, <1>7, <1>8

\* What is appended is kept, however much is cut.
LEMMA TrimmedKeeps ==
  ASSUME NEW S, NEW list \in Seq(S), NEW x
  PROVE  /\ Trimmed(Append(list, x)) \in Seq(S \cup {x})
         /\ x \in Listed(Trimmed(Append(list, x)))
<1> DEFINE whole == Append(list, x)
           m == Len(whole) - ScoredKept + 1
           cut == SubSeq(whole, m, Len(whole))
<1>1. whole \in Seq(S \cup {x}) /\ Len(whole) = Len(list) + 1 /\ whole[Len(whole)] = x
      /\ Len(list) \in Nat
  OBVIOUS
<1>2. ScoredLimit \in Nat /\ ScoredKept \in 1 .. ScoredLimit BY ScoringAssumption
<1> HIDE DEF whole
<1>3. CASE Len(whole) > ScoredLimit
  <2>1. m \in 1 .. Len(whole) /\ Len(whole) \in Nat BY <1>1, <1>2, <1>3
  <2>2. cut \in Seq(S \cup {x}) /\ Len(cut) = ScoredKept /\ cut[ScoredKept] = whole[Len(whole)]
    BY <1>1, <1>2, <2>1, SubSeqProperties
  <2>3. ScoredKept \in DOMAIN cut BY <1>2, <2>2
  <2>4. Trimmed(whole) = cut BY <1>3 DEF Trimmed
  <2> QED BY <1>1, <2>2, <2>3, <2>4 DEF Listed, whole
<1>4. CASE ~(Len(whole) > ScoredLimit)
  <2>1. Trimmed(whole) = whole BY <1>4 DEF Trimmed
  <2>2. Len(whole) \in DOMAIN whole BY <1>1
  <2> QED BY <1>1, <2>1, <2>2 DEF Listed, whole
<1> QED BY <1>3, <1>4

LEMMA CloseStep ==
  ASSUME Scores, NEW s \in Scorers, Close(s)
  PROVE  /\ ScorerStep(s, Resting) /\ scorer[s].pc = "court" /\ ScoreState(state')
         /\ Of(s).print \in Prints(state')
         /\ again' = again \cup Forgotten
         /\ UNCHANGED <<ledger, journal, muddled>>
<1>1. scorer' = [scorer EXCEPT ![s] = Resting] BY DEF Close
<1>2. ScorerStep(s, Resting) BY <1>1, ScorerSet, RestingShape
<1>3. ScoreState(scorer[s].state) BY DEF Scores, ScorerRecord
<1> DEFINE list == Trimmed(Append(scorer[s].state.prints, Of(s).print))
<1>4. PICK S : list \in Seq(S) /\ Of(s).print \in Listed(list)
  BY <1>3, TrimmedKeeps DEF ScoreState
<1>5. \E e : state' = [scorer[s].state EXCEPT !.events = e, !.prints = list] BY DEF Close
<1> HIDE DEF list
<1>6. ScoreState(state') /\ state'.prints = list BY <1>3, <1>4, <1>5 DEF ScoreState
<1> QED BY <1>2, <1>4, <1>6 DEF Close, Prints

LEMMA ScoreCrashStep ==
  ASSUME Scores, ScoreCrash
  PROVE  /\ scorer' = [t \in Scorers |-> scorer'[t]] /\ \A s \in Scorers : scorer'[s] = Resting
         /\ again' = again \cup {Of(s).print : s \in {s \in Scorers : Busy(s)}} \cup Forgotten
         /\ (muddled' = IF Holders = {} THEN muddled ELSE Agents)
         /\ ScoreState(state') /\ UNCHANGED <<ledger, journal>>
<1>1. state' = state \/ state' = NoState BY DEF ScoreCrash
<1>2. ScoreState(state') BY <1>1, RestingShape DEF Scores
<1> QED BY <1>2 DEF ScoreCrash

---------------------------------------------------------------------------
(***************************************************************************)
(* Session scoring: the invariant                                          *)
(***************************************************************************)
\* Two scorers at one print have been noted.
Lone ==
    \A s, t \in Scorers : s # t /\ Busy(s) /\ Busy(t) /\ Of(s).print = Of(t).print
                          => Of(s).print \in again
\* What is journaled is in the score state, or a scorer will put it there.
Remembered ==
    \A i \in DOMAIN journal : journal[i].print \notin again
        => \/ journal[i].print \in Prints(state)
           \/ \E s \in Scorers : /\ scorer[s].pc \in {"journal", "ledger", "court"}
                                 /\ Of(s).print = journal[i].print
\* No scorer is about to pay what is journaled.
Unpaid ==
    \A s \in Scorers, i \in DOMAIN journal :
        Busy(s) /\ journal[i].print \notin again /\ Of(s).print = journal[i].print
            => /\ scorer[s].pc # "book"
               /\ scorer[s].pc = "journal" => journal[i].agent \notin scorer[s].todo
PayInv ==
    /\ Scores /\ Lone /\ Remembered /\ Unpaid /\ PaidOnce

\* Of an agent whose entry nobody has muddled: one holder at most, whose book says what
\* the journal does; and the journal is a chain.
LastOf(a, i) ==
    /\ i \in DOMAIN journal /\ journal[i].agent = a
    /\ \A j \in DOMAIN journal : j > i => journal[j].agent # a
Chained(a) ==
    \A i, j \in DOMAIN journal :
        /\ i < j /\ journal[i].agent = a /\ journal[j].agent = a
        /\ \A k \in DOMAIN journal : i < k /\ k < j => journal[k].agent # a
        => journal[j].before = journal[i].after
Explained(a) ==
    /\ \A s, t \in Holders : s = t
    /\ \A i \in DOMAIN journal : LastOf(a, i)
        => /\ Holders = {} => ledger[a].rep = journal[i].after
           /\ \A s \in Holders : scorer[s].book[a].rep = journal[i].after
    /\ Chained(a)
JournalInv == Scores /\ \A a \in Agents \ muddled : Explained(a)

\* The journal with one more entry.
LEMMA Appended ==
  ASSUME Scores, NEW e, journal' = Append(journal, e)
  PROVE  \E n \in Nat : /\ DOMAIN journal = 1..n /\ DOMAIN journal' = 1..(n + 1)
                        /\ journal'[n + 1] = e
                        /\ \A i \in 1..n : journal'[i] = journal[i]
                        /\ \E S : journal' \in Seq(S)
<1>1. PICK S : journal \in Seq(S) BY DEF Scores
<1>2. journal \in Seq(S \cup {e}) BY <1>1
<1>3. journal' \in Seq(S \cup {e}) BY <1>2
<1>4. Len(journal) \in Nat /\ DOMAIN journal = 1..Len(journal) BY <1>1
<1>5. Len(journal') = Len(journal) + 1 /\ DOMAIN journal' = 1..Len(journal')
  BY <1>2, <1>3
<1>6. journal'[Len(journal) + 1] = e /\ \A i \in 1..Len(journal) : journal'[i] = journal[i]
  BY <1>2
<1>7. WITNESS Len(journal) \in Nat
<1> QED BY <1>3, <1>4, <1>5, <1>6

LEMMA JournalIndices ==
  ASSUME Scores
  PROVE  \E n \in Nat : DOMAIN journal = 1..n
BY DEF Scores

\* The scorer's record, the score state and the ledger keep their shape.
LEMMA ScoresStay ==
  ASSUME Scores, SsNext
  PROVE  Scores'
<1>1. ASSUME NEW s \in Scorers, NEW r, ScorerStep(s, r), ScoreState(state'), Register(ledger'),
             r.pc \in {"journal", "ledger"} => Register(r.book),
             r.pc = "journal" => r.todo \subseteq Agents, \E S : journal' \in Seq(S)
      PROVE  Scores'
  <2>1. ScoreState(state)' BY <1>1 DEF ScoreState
  <2>2. Register(ledger)' BY <1>1 DEF Register, Entry
  <2>3. /\ scorer' = [t \in Scorers |-> scorer'[t]] /\ \A t \in Scorers : ScorerRecord(scorer'[t])
        /\ \A t \in Scorers : /\ scorer'[t].pc \in {"journal", "ledger"} => Register(scorer'[t].book)
                              /\ scorer'[t].pc = "journal" => scorer'[t].todo \subseteq Agents
    BY <1>1 DEF Scores, ScorerStep
  <2>4. /\ \A t \in Scorers : ScorerRecord(scorer[t])'
        /\ \A t \in Scorers : (scorer[t].pc \in {"journal", "ledger"} => Register(scorer[t].book))'
    BY <2>3 DEF ScorerRecord, ScoreState, Register, Entry, Records
  <2> QED BY <1>1, <2>1, <2>2, <2>3, <2>4 DEF Scores
<1> HIDE DEF Scores
<1>2. ScoreState(state) /\ Register(ledger) /\ \E S : journal \in Seq(S) BY DEF Scores
<1>3. ASSUME NEW s \in Scorers, Finish(s) PROVE Scores'
  <2>1. PICK r : ScorerStep(s, r) /\ r.pc = "begin" /\ UNCHANGED <<state, ledger, journal>>
    BY <1>3, FinishStep
  <2> QED BY <1>1, <1>2, <2>1
<1>4. ASSUME NEW s \in Scorers, Begin(s) PROVE Scores'
  <2>1. PICK r : /\ ScorerStep(s, r) /\ (r = Resting \/ r.pc \in {"repeat", "book"})
                 /\ UNCHANGED <<state, ledger, journal>>
    BY <1>4, BeginStep
  <2> QED BY <1>1, <1>2, <2>1, RestingShape
<1>5. ASSUME NEW s \in Scorers, Book(s) PROVE Scores'
  <2>1. PICK r : /\ ScorerStep(s, r) /\ r.pc = "journal" /\ r.book = ledger /\ r.todo \subseteq Agents
                 /\ UNCHANGED <<state, ledger, journal>>
    BY <1>5, BookStep
  <2> QED BY <1>1, <1>2, <2>1
<1>6. ASSUME NEW s \in Scorers, NEW a \in Agents, Journal(s, a) PROVE Scores'
  <2>1. PICK r, e : /\ ScorerStep(s, r) /\ scorer[s].pc = "journal" /\ r.todo = scorer[s].todo \ {a}
                    /\ Register(r.book) /\ journal' = Append(journal, e)
                    /\ UNCHANGED <<state, ledger>>
    BY <1>6, JournalStep
  <2>2. \E S : journal' \in Seq(S) BY <2>1, Appended
  <2>3. r.todo \subseteq Agents BY <2>1 DEF Scores
  <2> QED BY <1>1, <1>2, <2>1, <2>2, <2>3
<1>7. ASSUME NEW s \in Scorers, SaveLedger(s) PROVE Scores'
  <2>1. PICK r : /\ ScorerStep(s, r) /\ r.pc = "court" /\ scorer[s].pc = "ledger"
                 /\ ledger' = scorer[s].book /\ UNCHANGED <<state, journal>>
    BY <1>7, SaveLedgerStep
  <2>2. Register(ledger') BY <2>1 DEF Scores
  <2> QED BY <1>1, <1>2, <2>1, <2>2
<1>8. ASSUME NEW s \in Scorers, NEW x \in scorer[s].charges, File(s, x) PROVE Scores'
  <2>1. PICK r : /\ ScorerStep(s, r) /\ r.pc = "court" /\ Register(ledger')
                 /\ UNCHANGED <<state, journal>>
    BY <1>8, FileStep
  <2> QED BY <1>1, <1>2, <2>1
<1>9. ASSUME NEW s \in Scorers, Close(s) PROVE Scores'
  <2>1. ScorerStep(s, Resting) /\ ScoreState(state') /\ UNCHANGED <<ledger, journal>>
    BY <1>9, CloseStep
  <2> QED BY <1>1, <1>2, <2>1, RestingShape
<1>10. ASSUME NEW s \in Scorers, Repeat(s) PROVE Scores'
  <2>1. ScorerStep(s, Resting) /\ ScoreState(state') /\ UNCHANGED <<ledger, journal>>
    BY <1>10, RepeatStep
  <2> QED BY <1>1, <1>2, <2>1, RestingShape
<1>11. ASSUME ScoreCrash PROVE Scores'
  <2>1. /\ scorer' = [t \in Scorers |-> scorer'[t]] /\ \A s \in Scorers : scorer'[s] = Resting
        /\ ScoreState(state') /\ UNCHANGED <<ledger, journal>>
    BY <1>11, ScoreCrashStep
  <2> QED BY <1>2, <2>1, RestingShape DEF Scores, ScoreState, Register, Entry
<1> QED BY <1>3, <1>4, <1>5, <1>6, <1>7, <1>8, <1>9, <1>10, <1>11 DEF SsNext

LEMMA ScoresAtFirst == SsInit => Scores
<1> SUFFICES ASSUME SsInit PROVE Scores OBVIOUS
<1>1. ScoreState(state) /\ journal \in Seq({}) /\ scorer = [s \in Scorers |-> Resting]
  BY RestingShape DEF SsInit
<1>2. ledger = [a \in Agents |-> [rep |-> 50, auth |-> 50, flags |-> {}]]
  BY DEF SsInit
<1>3. Register(ledger) BY <1>2 DEF Register, Entry
<1> QED BY <1>1, <1>3, RestingShape DEF Scores

---------------------------------------------------------------------------
(***************************************************************************)
(* Session scoring: paid once                                              *)
(***************************************************************************)
\* A step that leaves the score state and the journal alone, by a scorer that stays at
\* its delivery, or takes one up without another scorer being at the same print.
LEMMA SameBooks ==
  ASSUME PayInv, NEW s \in Scorers, NEW r, ScorerStep(s, r), journal' = journal, state' = state,
         again \subseteq again',
         r.pc \notin {"idle", "begin"}
            => /\ r.d = scorer[s].d
               /\ \/ Busy(s)
                  \/ \A t \in Scorers \ {s} : Busy(t) /\ Of(t).print = Of(s).print
                                               => Of(s).print \in again',
         scorer[s].pc \in {"journal", "ledger", "court"} => r.pc \in {"journal", "ledger", "court"},
         \A i \in DOMAIN journal :
            journal[i].print \notin again' /\ Of(s).print = journal[i].print
                => r.pc # "book" /\ (r.pc = "journal" => journal[i].agent \notin r.todo)
  PROVE  Lone' /\ Remembered' /\ Unpaid' /\ PaidOnce'
<1>1. ScorerRecord(r) BY DEF ScorerStep
<1>3. \A t \in Scorers : t # s => (Busy(t)' <=> Busy(t)) /\ (Of(t).print)' = Of(t).print
  BY DEF ScorerStep, Busy, Of
<1>4. Busy(s)' => (Of(s).print)' = Of(s).print /\ r.d = scorer[s].d BY DEF ScorerStep, Busy, Of
<1>5. Lone'
  <2> SUFFICES ASSUME NEW t \in Scorers, NEW u \in Scorers, t # u, Busy(t)', Busy(u)',
                      (Of(t).print)' = (Of(u).print)'
               PROVE  (Of(t).print)' \in again'
    BY DEF Lone
  <2>1. CASE t # s /\ u # s BY <1>3, <2>1 DEF PayInv, Lone
  <2>2. CASE t = s \/ u = s
    <3>1. PICK v \in Scorers \ {s} : v = t \/ v = u BY <2>2
    <3>2. Busy(v) /\ Of(v).print = Of(s).print /\ (Of(t).print)' = Of(s).print
      BY <1>3, <1>4, <2>2, <3>1
    <3>3. Busy(s) => Of(s).print \in again BY <3>2 DEF PayInv, Lone
    <3>4. r.pc \notin {"idle", "begin"} BY <2>2 DEF Busy, ScorerStep
    <3> QED BY <3>2, <3>3, <3>4
  <2> QED BY <2>1, <2>2
<1>6. Remembered'
  <2> SUFFICES ASSUME NEW i \in DOMAIN journal, journal[i].print \notin again'
               PROVE  \/ journal[i].print \in Prints(state)
                      \/ \E t \in Scorers : /\ scorer'[t].pc \in {"journal", "ledger", "court"}
                                            /\ DeliveryOf[scorer'[t].d].print = journal[i].print
    BY DEF Remembered, Of
  <2>1. CASE \E t \in Scorers : /\ scorer[t].pc \in {"journal", "ledger", "court"}
                                /\ Of(t).print = journal[i].print
    <3>1. PICK t \in Scorers : /\ scorer[t].pc \in {"journal", "ledger", "court"}
                               /\ Of(t).print = journal[i].print
      BY <2>1
    <3>2. scorer'[t].pc \in {"journal", "ledger", "court"} /\ scorer'[t].d = scorer[t].d
      BY <3>1 DEF ScorerStep
    <3> QED BY <3>1, <3>2 DEF Of
  <2> QED BY <2>1 DEF PayInv, Remembered
<1>7. Unpaid' BY <1>1, <1>3, <1>4 DEF PayInv, Unpaid, ScorerStep
<1>8. PaidOnce' BY DEF PayInv, PaidOnce
<1> QED BY <1>5, <1>6, <1>7, <1>8

LEMMA FinishPays == ASSUME PayInv, NEW s \in Scorers, Finish(s) PROVE PayInv'
<1>0. Scores /\ Scores' BY ScoresStay DEF PayInv, SsNext
<1>1. PICK r : /\ ScorerStep(s, r) /\ r.pc = "begin" /\ scorer[s].pc = "idle"
               /\ UNCHANGED <<state, journal, again>>
  BY <1>0, FinishStep
<1> QED BY <1>0, <1>1, SameBooks DEF PayInv

LEMMA BeginPays == ASSUME PayInv, NEW s \in Scorers, Begin(s) PROVE PayInv'
<1>0. Scores /\ Scores' BY ScoresStay DEF PayInv, SsNext
<1>1. PICK r, st : /\ ScorerStep(s, r) /\ scorer[s].pc = "begin"
                   /\ \/ r = Resting
                      \/ /\ r.pc \in {"repeat", "book"} /\ r.d = scorer[s].d
                         /\ r.pc = "book" => Of(s).print \notin Prints(st)
                   /\ UNCHANGED <<state, journal>>
                   /\ TakenUp(s, st)
  BY <1>0, BeginStep
<1>2. \A t \in Scorers \ {s} : Busy(t) /\ Of(t).print = Of(s).print => Of(s).print \in again'
  BY <1>1 DEF TakenUp
<1>3. Of(s).print \in Prints(state) /\ Of(s).print \notin Prints(st) => Of(s).print \in again'
  BY <1>1 DEF TakenUp
<1>4. ASSUME NEW i \in DOMAIN journal, journal[i].print \notin again', Of(s).print = journal[i].print
      PROVE  r.pc # "book" /\ r.pc # "journal"
  <2>1. ASSUME NEW t \in Scorers, scorer[t].pc \in {"journal", "ledger", "court"},
               Of(t).print = journal[i].print
        PROVE  FALSE
    BY <1>1, <1>2, <1>4, <2>1 DEF Busy
  <2>2. again \subseteq again' BY <1>1 DEF TakenUp
  <2>3. journal[i].print \in Prints(state) BY <1>4, <2>1, <2>2 DEF PayInv, Remembered
  <2> QED BY <1>1, <1>3, <1>4, <2>3, RestingShape
<1>5. again \subseteq again' BY <1>1 DEF TakenUp
<1> QED BY <1>0, <1>1, <1>2, <1>4, <1>5, RestingShape, SameBooks DEF PayInv

LEMMA BookPays == ASSUME PayInv, NEW s \in Scorers, Book(s) PROVE PayInv'
<1>0. Scores /\ Scores' BY ScoresStay DEF PayInv, SsNext
<1>1. PICK r : /\ ScorerStep(s, r) /\ scorer[s].pc = "book" /\ r.pc = "journal"
               /\ r.d = scorer[s].d /\ UNCHANGED <<state, journal, again>>
  BY <1>0, BookStep
<1>2. Busy(s) BY <1>1 DEF Busy
<1>3. \A i \in DOMAIN journal : journal[i].print \notin again => Of(s).print # journal[i].print
  BY <1>1, <1>2 DEF PayInv, Unpaid
<1> QED BY <1>0, <1>1, <1>2, <1>3, SameBooks DEF PayInv

LEMMA SaveLedgerPays == ASSUME PayInv, NEW s \in Scorers, SaveLedger(s) PROVE PayInv'
<1>0. Scores /\ Scores' BY ScoresStay DEF PayInv, SsNext
<1>1. PICK r : /\ ScorerStep(s, r) /\ scorer[s].pc = "ledger" /\ r.pc = "court" /\ r.d = scorer[s].d
               /\ UNCHANGED <<state, journal, again>>
  BY <1>0, SaveLedgerStep
<1>2. Busy(s) BY <1>1 DEF Busy
<1> QED BY <1>0, <1>1, <1>2, SameBooks DEF PayInv

LEMMA FilePays ==
  ASSUME PayInv, NEW s \in Scorers, NEW x \in scorer[s].charges, File(s, x) PROVE PayInv'
<1>0. Scores /\ Scores' BY ScoresStay DEF PayInv, SsNext
<1>1. PICK r : /\ ScorerStep(s, r) /\ scorer[s].pc = "court" /\ r.pc = "court" /\ r.d = scorer[s].d
               /\ UNCHANGED <<state, journal, again>>
  BY <1>0, FileStep
<1>2. Busy(s) BY <1>1 DEF Busy
<1> QED BY <1>0, <1>1, <1>2, SameBooks DEF PayInv

\* An agent is journaled for a print nobody has journaled it for.
LEMMA JournalPays ==
  ASSUME PayInv, NEW s \in Scorers, NEW a \in Agents, Journal(s, a) PROVE PayInv'
<1>0. Scores /\ Scores' BY ScoresStay DEF PayInv, SsNext
<1>1. PICK r, e : /\ ScorerStep(s, r) /\ scorer[s].pc = "journal" /\ a \in scorer[s].todo
                  /\ r.pc \in {"journal", "ledger"} /\ r.d = scorer[s].d /\ r.state = scorer[s].state
                  /\ r.todo = scorer[s].todo \ {a} /\ e.agent = a /\ e.print = Of(s).print
                  /\ journal' = Append(journal, e) /\ UNCHANGED <<state, again>>
  BY <1>0, JournalStep
<1>2. PICK n \in Nat : /\ DOMAIN journal = 1..n /\ DOMAIN journal' = 1..(n + 1)
                       /\ journal'[n + 1] = e /\ \A i \in 1..n : journal'[i] = journal[i]
  <2>1. Scores /\ journal' = Append(journal, e) BY <1>0, <1>1
  <2> QED BY <2>1, Appended
<1>3. \A i \in 1..(n + 1) : i \in 1..n \/ i = n + 1 BY <1>2
<1>4. Busy(s) BY <1>1 DEF Busy
<1>5. \A t \in Scorers : (Busy(t)' <=> Busy(t)) /\ (Of(t).print)' = Of(t).print
  BY <1>1 DEF ScorerStep, Busy, Of
<1>7. Lone' BY <1>1, <1>5 DEF PayInv, Lone
<1>8. Remembered'
  <2> SUFFICES ASSUME NEW i \in 1..(n + 1), journal'[i].print \notin again
               PROVE  \/ journal'[i].print \in Prints(state)
                      \/ \E t \in Scorers : /\ scorer'[t].pc \in {"journal", "ledger", "court"}
                                            /\ DeliveryOf[scorer'[t].d].print = journal'[i].print
    BY <1>1, <1>2 DEF Remembered, Of
  <2>1. CASE i = n + 1 BY <1>1, <1>2, <2>1 DEF ScorerStep, Of
  <2>2. CASE i \in 1..n
    <3>1. CASE \E t \in Scorers : /\ scorer[t].pc \in {"journal", "ledger", "court"}
                                  /\ Of(t).print = journal[i].print
      <4>1. PICK t \in Scorers : /\ scorer[t].pc \in {"journal", "ledger", "court"}
                                 /\ Of(t).print = journal[i].print
        BY <3>1
      <4>2. scorer'[t].pc \in {"journal", "ledger", "court"} /\ scorer'[t].d = scorer[t].d
        BY <1>1, <4>1 DEF ScorerStep
      <4> QED BY <1>2, <2>2, <4>1, <4>2 DEF Of
    <3> QED BY <1>2, <2>2, <3>1 DEF PayInv, Remembered
  <2> QED BY <1>3, <2>1, <2>2
<1>9. Unpaid'
  <2> SUFFICES ASSUME NEW t \in Scorers, NEW i \in 1..(n + 1), Busy(t)',
                      journal'[i].print \notin again, (Of(t).print)' = journal'[i].print
               PROVE  /\ scorer'[t].pc # "book"
                      /\ scorer'[t].pc = "journal" => journal'[i].agent \notin scorer'[t].todo
    BY <1>1, <1>2 DEF Unpaid
  <2>1. CASE i \in 1..n
    <3>1. /\ scorer[t].pc # "book"
          /\ scorer[t].pc = "journal" => journal[i].agent \notin scorer[t].todo
      BY <1>2, <1>5, <2>1 DEF PayInv, Unpaid
    <3> QED BY <1>1, <1>2, <2>1, <3>1 DEF ScorerStep
  <2>2. CASE i = n + 1 /\ t = s BY <1>1, <1>2, <2>2 DEF ScorerStep
  <2>3. CASE i = n + 1 /\ t # s BY <1>1, <1>2, <1>4, <1>5, <2>3 DEF PayInv, Lone
  <2> QED BY <1>3, <2>1, <2>2, <2>3
<1>10. PaidOnce'
  <2>1. \A i \in 1..n : journal[i].agent = a /\ journal[i].print = Of(s).print
                        => journal[i].print \in again
    BY <1>1, <1>2, <1>4 DEF PayInv, Unpaid
  <2> QED BY <1>1, <1>2, <1>3, <2>1 DEF PayInv, PaidOnce
<1> QED BY <1>0, <1>7, <1>8, <1>9, <1>10 DEF PayInv

\* A step that writes the score state: what it forgets is noted, and the scorer that ends
\* leaves its print there if it had journaled it.
LEMMA WrittenPays ==
  ASSUME PayInv, Scores', NEW s \in Scorers, ScorerStep(s, Resting), journal' = journal,
         again' = again \cup Forgotten,
         scorer[s].pc \in {"journal", "ledger", "court"} => Of(s).print \in Prints(state')
  PROVE  PayInv'
<1>1. \A t \in Scorers : t # s => (Busy(t)' <=> Busy(t)) /\ (Of(t).print)' = Of(t).print
  BY DEF ScorerStep, Busy, Of
<1>2. ~Busy(s)' /\ again \subseteq again' BY RestingShape DEF ScorerStep, Busy
<1>3. Lone' BY <1>1, <1>2 DEF PayInv, Lone
<1>4. Remembered'
  <2> SUFFICES ASSUME NEW i \in DOMAIN journal, journal[i].print \notin again'
               PROVE  \/ journal[i].print \in Prints(state')
                      \/ \E t \in Scorers : /\ scorer'[t].pc \in {"journal", "ledger", "court"}
                                            /\ DeliveryOf[scorer'[t].d].print = journal[i].print
    BY DEF Remembered, Of, Prints
  <2>1. CASE \E t \in Scorers : /\ scorer[t].pc \in {"journal", "ledger", "court"}
                                /\ Of(t).print = journal[i].print
    <3>1. PICK t \in Scorers : /\ scorer[t].pc \in {"journal", "ledger", "court"}
                               /\ Of(t).print = journal[i].print
      BY <2>1
    <3>2. t = s \/ scorer'[t] = scorer[t] BY DEF ScorerStep
    <3> QED BY <3>1, <3>2 DEF Of
  <2>2. CASE journal[i].print \in Prints(state) BY <2>2 DEF Forgotten
  <2> QED BY <1>2, <2>1, <2>2 DEF PayInv, Remembered
<1>5. Unpaid' BY <1>1, <1>2 DEF PayInv, Unpaid, ScorerStep
<1>6. PaidOnce' BY <1>2 DEF PayInv, PaidOnce
<1> QED BY <1>3, <1>4, <1>5, <1>6 DEF PayInv

LEMMA RepeatPays == ASSUME PayInv, NEW s \in Scorers, Repeat(s) PROVE PayInv'
<1>0. Scores /\ Scores' BY ScoresStay DEF PayInv, SsNext
<1>1. ScorerStep(s, Resting) /\ scorer[s].pc = "repeat" /\ again' = again \cup Forgotten
      /\ journal' = journal
  BY <1>0, RepeatStep
<1> QED BY <1>0, <1>1, WrittenPays

LEMMA ClosePays == ASSUME PayInv, NEW s \in Scorers, Close(s) PROVE PayInv'
<1>0. Scores /\ Scores' BY ScoresStay DEF PayInv, SsNext
<1>1. ScorerStep(s, Resting) /\ Of(s).print \in Prints(state') /\ again' = again \cup Forgotten
      /\ journal' = journal
  BY <1>0, CloseStep
<1> QED BY <1>0, <1>1, WrittenPays

LEMMA CrashPays == ASSUME PayInv, ScoreCrash PROVE PayInv'
<1>0. Scores /\ Scores' BY ScoresStay DEF PayInv, SsNext
<1>1. /\ \A s \in Scorers : scorer'[s] = Resting
      /\ again' = again \cup {Of(s).print : s \in {s \in Scorers : Busy(s)}} \cup Forgotten
      /\ UNCHANGED journal
  BY <1>0, ScoreCrashStep
<1>2. \A s \in Scorers : ~Busy(s)' BY <1>1, RestingShape DEF Busy
<1>3. \A p \in Prints(state) : p \in Prints(state') \/ p \in again' BY <1>1 DEF Forgotten
<1>4. \A s \in Scorers : scorer[s].pc \in {"journal", "ledger", "court"} => Of(s).print \in again'
  BY <1>1 DEF Busy
<1>5. Remembered'
  <2> SUFFICES ASSUME NEW i \in DOMAIN journal, journal[i].print \notin again'
               PROVE  journal[i].print \in Prints(state')
    BY <1>1 DEF Remembered, Prints
  <2>1. journal[i].print \notin again BY <1>1
  <2> QED BY <1>3, <1>4, <2>1 DEF PayInv, Remembered
<1>6. Lone' /\ Unpaid' /\ PaidOnce' BY <1>1, <1>2 DEF PayInv, Lone, Unpaid, PaidOnce
<1> QED BY <1>0, <1>5, <1>6 DEF PayInv

LEMMA PayInvHolds == SsSpec => []PayInv
<1>1. SsInit => PayInv
  <2> SUFFICES ASSUME SsInit PROVE PayInv OBVIOUS
  <2>1. journal = <<>> /\ \A s \in Scorers : scorer[s] = Resting BY DEF SsInit
  <2>2. \A s \in Scorers : ~Busy(s) BY <2>1, RestingShape DEF Busy
  <2>3. DOMAIN journal = {} BY <2>1
  <2> QED BY <2>1, <2>2, <2>3, ScoresAtFirst DEF PayInv, Lone, Remembered, Unpaid, PaidOnce
<1>2. PayInv /\ [SsNext]_ssvars => PayInv'
  <2> SUFFICES ASSUME PayInv, [SsNext]_ssvars PROVE PayInv' OBVIOUS
  <2>1. CASE SsNext
    BY <2>1, FinishPays, BeginPays, RepeatPays, BookPays, JournalPays, SaveLedgerPays, FilePays, ClosePays,
       CrashPays DEF SsNext
  <2>2. CASE UNCHANGED ssvars
    BY <2>2 DEF ssvars, PayInv, Scores, ScoreState, Register, Entry, Prints, Lone, Remembered, Unpaid,
                PaidOnce, Busy, Of
  <2> QED BY <2>1, <2>2
<1> QED BY <1>1, <1>2, PTL DEF SsSpec

\* For all scorers, agents and deliveries, and wherever the score state is cut: what says the
\* same is paid for once, unless two scorers took it up together, a stop broke one off, or
\* the score state forgot it (PaidOnce).
THEOREM DeliveriesPaidOnce == SsSpec => []PaidOnce
BY PayInvHolds, PTL DEF PayInv

---------------------------------------------------------------------------
(***************************************************************************)
(* Session scoring: the journal explains the ledger                        *)
(***************************************************************************)
\* The next entry of an agent is the first of the later ones.
LEMMA ExplainedSays ==
  ASSUME JournalInv
  PROVE  JournalExplains
<1> SUFFICES ASSUME NEW a \in Agents \ muddled, NEW i \in DOMAIN journal, journal[i].agent = a
             PROVE  LET later == {j \in DOMAIN journal : j > i /\ journal[j].agent = a}
                    IN /\ \A j \in later : (\A k \in later : j <= k)
                                           => journal[j].before = journal[i].after
                       /\ later = {} /\ Holders = {} => ledger[a].rep = journal[i].after
  BY DEF JournalExplains
<1> DEFINE later == {j \in DOMAIN journal : j > i /\ journal[j].agent = a}
<1>0. Explained(a) BY DEF JournalInv
<1>1. PICK n \in Nat : DOMAIN journal = 1..n BY JournalIndices DEF JournalInv
<1>2. ASSUME NEW j \in later, \A k \in later : j <= k PROVE journal[j].before = journal[i].after
  <2>1. \A k \in 1..n : i < k /\ k < j => journal[k].agent # a BY <1>1, <1>2
  <2> QED BY <1>0, <1>1, <1>2, <2>1 DEF Explained, Chained
<1>3. ASSUME later = {}, Holders = {} PROVE ledger[a].rep = journal[i].after
  <2>1. LastOf(a, i) BY <1>3 DEF LastOf
  <2> QED BY <1>0, <1>3, <2>1 DEF Explained
<1> QED BY <1>2, <1>3

\* A step that leaves the journal and the reputations alone, and who holds the ledger.
LEMMA SameHolders ==
  ASSUME JournalInv, Scores', NEW s \in Scorers, NEW r, ScorerStep(s, r), journal' = journal,
         \A a \in Agents : ledger'[a].rep = ledger[a].rep,
         muddled' = muddled \/ muddled' = Agents,
         scorer[s].pc \notin {"journal", "ledger"}, r.pc \notin {"journal", "ledger"}
  PROVE  JournalInv'
<1>1. \A t \in Scorers : /\ t \in Holders' <=> t \in Holders
                         /\ t \in Holders => scorer'[t] = scorer[t]
  BY DEF Holders, ScorerStep
<1>2. Holders' = Holders BY <1>1 DEF Holders
<1>3. ASSUME NEW a \in Agents \ muddled' PROVE Explained(a)'
  <2>1. Explained(a) BY <1>3 DEF JournalInv
  <2>2. \A t \in Holders : t \in Scorers BY DEF Holders
  <2> QED BY <1>1, <1>2, <2>1, <2>2 DEF Explained, LastOf, Chained
<1> QED BY <1>3 DEF JournalInv

LEMMA BookExplains == ASSUME JournalInv, NEW s \in Scorers, Book(s) PROVE JournalInv'
<1>0. Scores /\ Scores' BY ScoresStay DEF JournalInv, SsNext
<1>1. PICK r : /\ ScorerStep(s, r) /\ scorer[s].pc = "book" /\ r.pc = "journal"
               /\ r.book = ledger /\ UNCHANGED <<ledger, journal>>
               /\ muddled' = IF Holders = {} THEN muddled ELSE Agents
  BY <1>0, BookStep
<1>2. ASSUME NEW a \in Agents \ muddled' PROVE Explained(a)'
  <2>1. Explained(a) /\ Holders = {} BY <1>1, <1>2 DEF JournalInv
  <2>2. Holders' = {s} BY <1>1, <2>1 DEF Holders, ScorerStep
  <2> QED BY <1>1, <2>1, <2>2 DEF Explained, LastOf, Chained, ScorerStep
<1> QED BY <1>0, <1>2 DEF JournalInv

LEMMA JournalExplainsNext ==
  ASSUME JournalInv, NEW s \in Scorers, NEW a \in Agents, Journal(s, a) PROVE JournalInv'
<1>0. Scores /\ Scores' BY ScoresStay DEF JournalInv, SsNext
<1>1. PICK r, e : /\ ScorerStep(s, r) /\ scorer[s].pc = "journal"
                  /\ r.pc \in {"journal", "ledger"}
                  /\ \A b \in Agents : b # a => r.book[b] = scorer[s].book[b]
                  /\ e.agent = a /\ e.before = scorer[s].book[a].rep /\ e.after = r.book[a].rep
                  /\ journal' = Append(journal, e) /\ UNCHANGED <<ledger, muddled>>
  BY <1>0, JournalStep
<1>2. PICK n \in Nat : /\ DOMAIN journal = 1..n /\ DOMAIN journal' = 1..(n + 1)
                       /\ journal'[n + 1] = e /\ \A i \in 1..n : journal'[i] = journal[i]
  <2>1. Scores /\ journal' = Append(journal, e) BY <1>0, <1>1
  <2> QED BY <2>1, Appended
<1>3. (\A i \in 1..(n + 1) : i \in 1..n \/ i = n + 1) /\ (\A i \in 1..n : i < n + 1 /\ ~(n + 1 < i))
      /\ n + 1 \in 1..(n + 1) /\ (\A i \in 1..n : i \in 1..(n + 1)) /\ ~(n + 1 < n + 1)
  BY <1>2
<1>4. Holders' = Holders /\ s \in Holders BY <1>1 DEF Holders, ScorerStep
<1>5. ASSUME NEW b \in Agents \ muddled' PROVE Explained(b)'
  <2>1. Explained(b) /\ \A t \in Holders : t = s BY <1>1, <1>4, <1>5 DEF JournalInv, Explained
  <2>2. ASSUME NEW i \in 1..(n + 1), LastOf(b, i)' PROVE scorer'[s].book[b].rep = journal'[i].after
    <3>1. CASE i = n + 1 BY <1>1, <1>2, <2>2, <3>1 DEF LastOf, ScorerStep
    <3>2. CASE i \in 1..n
      <4>1. b # a BY <1>1, <1>2, <1>3, <2>2, <3>2 DEF LastOf
      <4>2. LastOf(b, i) BY <1>2, <1>3, <2>2, <3>2 DEF LastOf
      <4>3. scorer[s].book[b].rep = journal[i].after BY <1>2, <1>4, <2>1, <3>2, <4>2 DEF Explained
      <4> QED BY <1>1, <1>2, <3>2, <4>1, <4>3 DEF ScorerStep
    <3> QED BY <1>3, <3>1, <3>2
  <2>3. Chained(b)'
    <3> SUFFICES ASSUME NEW i \in 1..(n + 1), NEW j \in 1..(n + 1), i < j,
                        journal'[i].agent = b, journal'[j].agent = b,
                        \A k \in 1..(n + 1) : i < k /\ k < j => journal'[k].agent # b
                 PROVE  journal'[j].before = journal'[i].after
      BY <1>2 DEF Chained
    <3>1. i \in 1..n BY <1>2
    <3>2. CASE j \in 1..n BY <1>2, <1>3, <2>1, <3>1, <3>2 DEF Explained, Chained
    <3>3. CASE j = n + 1
      <4>1. \A k \in 1..n : k > i => journal[k].agent # b BY <1>2, <1>3, <3>3
      <4>2. LastOf(b, i) BY <1>2, <3>1, <4>1 DEF LastOf
      <4>3. scorer[s].book[b].rep = journal[i].after BY <1>2, <1>4, <2>1, <3>1, <4>2 DEF Explained
      <4>4. b = a BY <1>1, <1>2, <3>3
      <4> QED BY <1>1, <1>2, <3>1, <3>3, <4>3, <4>4
    <3> QED BY <1>3, <3>2, <3>3
  <2>4. \A i : LastOf(b, i)' => i \in 1..(n + 1) BY <1>2 DEF LastOf
  <2> QED BY <1>4, <2>1, <2>2, <2>3, <2>4 DEF Explained
<1> QED BY <1>0, <1>5 DEF JournalInv

LEMMA SaveLedgerExplains == ASSUME JournalInv, NEW s \in Scorers, SaveLedger(s) PROVE JournalInv'
<1>0. Scores /\ Scores' BY ScoresStay DEF JournalInv, SsNext
<1>1. PICK r : /\ ScorerStep(s, r) /\ scorer[s].pc = "ledger" /\ r.pc = "court"
               /\ ledger' = scorer[s].book /\ UNCHANGED <<journal, muddled>>
  BY <1>0, SaveLedgerStep
<1>2. s \in Holders BY <1>1 DEF Holders
<1>3. ASSUME NEW a \in Agents \ muddled' PROVE Explained(a)'
  <2>1. Explained(a) /\ \A t \in Holders : t = s BY <1>1, <1>2, <1>3 DEF JournalInv, Explained
  <2>2. Holders' = {} BY <1>1, <2>1 DEF Holders, ScorerStep
  <2> QED BY <1>1, <1>2, <2>1, <2>2 DEF Explained, LastOf, Chained
<1> QED BY <1>0, <1>3 DEF JournalInv

LEMMA CrashExplains == ASSUME JournalInv, ScoreCrash PROVE JournalInv'
<1>0. Scores /\ Scores' BY ScoresStay DEF JournalInv, SsNext
<1>1. /\ \A s \in Scorers : scorer'[s] = Resting
      /\ muddled' = (IF Holders = {} THEN muddled ELSE Agents) /\ UNCHANGED <<ledger, journal>>
  BY <1>0, ScoreCrashStep
<1>2. ASSUME NEW a \in Agents \ muddled' PROVE Explained(a)'
  <2>1. Explained(a) /\ Holders = {} BY <1>1, <1>2 DEF JournalInv
  <2>2. Holders' = {} BY <1>1, RestingShape DEF Holders
  <2> QED BY <1>1, <2>1, <2>2 DEF Explained, LastOf, Chained
<1> QED BY <1>0, <1>2 DEF JournalInv

LEMMA JournalInvHolds == SsSpec => []JournalInv
<1>1. SsInit => JournalInv
  <2> SUFFICES ASSUME SsInit PROVE JournalInv OBVIOUS
  <2>1. journal = <<>> /\ \A s \in Scorers : scorer[s] = Resting BY DEF SsInit
  <2>2. Holders = {} /\ DOMAIN journal = {} BY <2>1, RestingShape DEF Holders
  <2> QED BY <2>2, ScoresAtFirst DEF JournalInv, Explained, LastOf, Chained
<1>2. JournalInv /\ [SsNext]_ssvars => JournalInv'
  <2> SUFFICES ASSUME JournalInv, [SsNext]_ssvars PROVE JournalInv' OBVIOUS
  <2>0. Scores BY DEF JournalInv
  <2>1. ASSUME SsNext, NEW s \in Scorers, Finish(s) PROVE JournalInv'
    <3>1. PICK r : /\ ScorerStep(s, r) /\ r.pc = "begin" /\ scorer[s].pc = "idle"
                   /\ UNCHANGED <<ledger, journal, muddled>>
      BY <2>0, <2>1, FinishStep
    <3> QED BY <2>0, <2>1, <3>1, ScoresStay, SameHolders
  <2>2. ASSUME SsNext, NEW s \in Scorers, Begin(s) PROVE JournalInv'
    <3>1. PICK r : /\ ScorerStep(s, r) /\ scorer[s].pc = "begin"
                   /\ r = Resting \/ r.pc \in {"repeat", "book"}
                   /\ UNCHANGED <<ledger, journal, muddled>>
      BY <2>0, <2>2, BeginStep
    <3> QED BY <2>0, <2>2, <3>1, ScoresStay, SameHolders, RestingShape
  <2>3. ASSUME SsNext, NEW s \in Scorers, NEW x \in scorer[s].charges, File(s, x) PROVE JournalInv'
    <3>1. PICK r : /\ ScorerStep(s, r) /\ scorer[s].pc = "court" /\ r.pc = "court"
                   /\ \A a \in Agents : ledger'[a].rep = ledger[a].rep
                   /\ (muddled' = muddled \/ muddled' = Agents) /\ journal' = journal
      BY <2>0, <2>3, FileStep
    <3> QED BY <2>0, <2>3, <3>1, ScoresStay, SameHolders
  <2>4. ASSUME SsNext, NEW s \in Scorers, Close(s) PROVE JournalInv'
    <3>1. /\ ScorerStep(s, Resting) /\ scorer[s].pc = "court" /\ UNCHANGED <<ledger, journal, muddled>>
      BY <2>0, <2>4, CloseStep
    <3> QED BY <2>0, <2>4, <3>1, ScoresStay, SameHolders, RestingShape
  <2>7. ASSUME SsNext, NEW s \in Scorers, Repeat(s) PROVE JournalInv'
    <3>1. /\ ScorerStep(s, Resting) /\ scorer[s].pc = "repeat" /\ UNCHANGED <<ledger, journal, muddled>>
      BY <2>0, <2>7, RepeatStep
    <3> QED BY <2>0, <2>7, <3>1, ScoresStay, SameHolders, RestingShape
  <2>5. CASE SsNext
    BY <2>1, <2>2, <2>3, <2>4, <2>5, <2>7, BookExplains, JournalExplainsNext, SaveLedgerExplains,
       CrashExplains DEF SsNext
  <2>6. CASE UNCHANGED ssvars
    <3>1. Scores' BY <2>0, <2>6 DEF ssvars, Scores, ScoreState, Register, Entry
    <3>2. Holders' = Holders BY <2>6 DEF ssvars, Holders
    <3>3. \A a \in Agents \ muddled' : Explained(a)'
      BY <2>6, <3>2 DEF ssvars, JournalInv, Explained, LastOf, Chained
    <3> QED BY <3>1, <3>3 DEF JournalInv
  <2> QED BY <2>5, <2>6
<1> QED BY <1>1, <1>2, PTL DEF SsSpec

\* For all scorers, agents and deliveries: the journal explains the ledger, for every agent
\* whose entry two scorers never held at once and no crash tore (JournalExplains).
THEOREM LedgerIsExplained == SsSpec => []JournalExplains
BY JournalInvHolds, ExplainedSays, PTL

---------------------------------------------------------------------------
(***************************************************************************)
(* Trust review: the invariant                                             *)
(***************************************************************************)
Statuses == {"none", "approved", "draft", "stale", "revoked"}
States == {"approved", "draft", "open", "stale", "revoked", "unresolved"}
Gates == {"none", "blocked_revoked", "pending_approval", "ready_for_final_delivery"}
Marks == {"none", "pending", "cleared"} \cup Decisions
FileSet == [Evidence -> [status : Statuses, old : BOOLEAN]]
AnswerSet == [Questions -> [state : States, key : Evidence \cup {"none"}, required : BOOLEAN]]
PackSet == [answers : AnswerSet \cup {<<>>}, gate : Gates]
ItemSet == [status : Marks, state : States \cup {"none"}, required : BOOLEAN]
AssuranceSet == [packs : [Questionnaires -> PackSet], queue : [Items -> ItemSet]]
Places == {"idle", "packet", "packet_save", "support", "build", "build_save", "deliver", "remember",
           "remember_save", "mark_save", "review_read", "review_save", "queue_save"}
ThreadSet ==
    [pc : Places, job : {"none", "answers", "brief"}, q : Questionnaires \cup {"none"},
     e : Evidence \cup {"none"}, item : Items \cup {<<"none", "none">>},
     decision : Decisions \cup Gates \cup {"draft", "approved"}, ev : FileSet, as : AssuranceSet]

\* What a thread is at work on, by where it is.
AtWork(r) ==
    /\ r.pc \in {"packet", "packet_save", "support", "build", "build_save"}
        => r.e \in Evidence /\ (r.job = "answers" => r.q \in Questionnaires)
    /\ r.pc \in {"support", "build", "build_save"} => r.job = "answers"
    /\ r.pc \in {"deliver", "remember"} => r.e \in Evidence
    /\ r.pc = "remember" => r.decision \in {"draft", "approved"}
    /\ r.pc \in {"review_read", "review_save", "queue_save"}
        => /\ r.item \in Items /\ r.decision \in Decisions
           /\ r.as.packs[r.item[1]].gate # "none"

TrustTyped ==
    /\ evidence \in FileSet /\ assurance \in AssuranceSet /\ thread \in [Threads -> ThreadSet]
    /\ approvedOnce \subseteq Evidence
    /\ word \in [Items -> Decisions \cup {"none"}] /\ overlap \in BOOLEAN
    /\ \A t \in Threads : AtWork(thread[t])

\* The queue says what the questionnaire does, the gate is rolled up from it, and a
\* critical answer that is not approved is held.
Agrees(as) ==
    \A q \in Questionnaires :
        LET pack == as.packs[q]
        IN pack.gate # "none" =>
            /\ pack.answers \in AnswerSet /\ pack.gate = Rollup(pack.answers)
            /\ \A n \in Questions : /\ as.queue[<<q, n>>].state = pack.answers[n].state
                                    /\ as.queue[<<q, n>>].required = pack.answers[n].required
            /\ \A n \in Critical : pack.answers[n].state \in {"draft", "open", "stale", "revoked"}
                                   => pack.answers[n].required

Approved(ev) == {e \in Evidence : ev[e].status = "approved"}
\* The evidence an answer names is on file, and was on file as approved if the answer is.
Keyed(as, files) ==
    \A q \in Questionnaires, n \in Questions :
        as.packs[q].gate # "none" => as.packs[q].answers[n].key \in files \cup {"none"}
Sound(as, approved) ==
    \A q \in Questionnaires, n \in Questions :
        as.packs[q].gate # "none" /\ as.packs[q].answers[n].state = "approved"
            => as.packs[q].answers[n].key \in approved \cup {"none"}

AssurancePlaces == {"build_save", "review_read", "review_save", "queue_save"}
EvidencePlaces == {"packet_save", "remember_save", "mark_save", "review_save"}
Grounded(r, ev, once) ==
    /\ Keyed(r.as, OnFile(ev)) /\ Sound(r.as, once \cup Approved(r.ev))
    /\ r.pc \in EvidencePlaces => OnFile(ev) \subseteq OnFile(r.ev)
    /\ r.pc \in {"build", "build_save"} => OnFile(r.ev) \subseteq OnFile(ev) /\ Approved(r.ev) \subseteq once
    /\ r.pc \in {"review_read", "queue_save"} => Approved(r.ev) = {}
    /\ r.pc \notin AssurancePlaces => r.as = NoAssurance
EvidenceInv ==
    /\ Approved(evidence) \subseteq approvedOnce
    /\ ~overlap =>
        /\ \A t, u \in Threads : HoldsEvidence(t) /\ HoldsEvidence(u) => t = u
        /\ Keyed(assurance, OnFile(evidence)) /\ Sound(assurance, approvedOnce)
        /\ \A t \in Threads : Grounded(thread[t], evidence, approvedOnce)

\* What a thread that holds the questionnaires has made of the file.
StateOf(decision) == IF decision \in {"unresolved", "stale"} THEN decision ELSE MarkOf(decision)
Elsewhere(as, file, q) ==
    /\ \A p \in Questionnaires \ {q} : as.packs[p] = file.packs[p]
    /\ \A i \in Items : i[1] # q => as.queue[i] = file.queue[i]
Decided(r, file) ==
    LET q == r.item[1]
    IN /\ Elsewhere(r.as, file, q) /\ file.packs[q].gate # "none"
       /\ r.as.queue[r.item].status = r.decision
       /\ r.as.packs[q].answers[r.item[2]].state = StateOf(r.decision)
       /\ \A n \in Questions \ {r.item[2]} :
            /\ r.as.packs[q].answers[n] = file.packs[q].answers[n]
            /\ r.as.queue[<<q, n>>].status = IF file.packs[q].answers[n].required THEN "pending"
                                         ELSE IF file.queue[<<q, n>>].status = "none" THEN "cleared"
                                         ELSE file.queue[<<q, n>>].status
Derived(r, file) ==
    /\ r.pc = "build_save" => Elsewhere(r.as, file, r.q)
    /\ r.pc = "review_read" => r.as = file
    /\ r.pc \in {"review_save", "queue_save"} => Decided(r, file)

Obeyed(i) ==
    word[i] # "none" =>
        /\ assurance.packs[i[1]].gate # "none"
        /\ assurance.queue[i].status \in {word[i]} \cup
                 (IF assurance.queue[i].required THEN {"pending"} ELSE {})
        /\ assurance.packs[i[1]].answers[i[2]].state = StateOf(word[i])
ReviewInv ==
    ~overlap =>
        /\ \A t, u \in Threads : HoldsAssurance(t) /\ HoldsAssurance(u) => t = u
        /\ \A t \in Threads : Derived(thread[t], assurance)
        /\ \A i \in Items : Obeyed(i)

AgreeInv == Agrees(assurance) /\ \A t \in Threads : Agrees(thread[t].as)
TrustInv == TrustTyped /\ AgreeInv /\ EvidenceInv /\ ReviewInv

---------------------------------------------------------------------------
(***************************************************************************)
(* Trust review: the operators                                             *)
(***************************************************************************)
\* A finite set has an element of greatest value: the sets of what is worth more than an
\* element are finite, so one of them has no other below it.
LEMMA GreatestExists ==
  ASSUME NEW T, IsFiniteSet(T), T # {}, NEW F \in [T -> Int]
  PROVE  \E m \in T : \A k \in T : F[m] >= F[k]
<1> DEFINE Above(k) == {j \in T : F[j] > F[k]}
           C == {Above(k) : k \in T}
<1>1. IsWellFoundedOn(StrictSubsetOrdering(T), FiniteSubsetsOf(T))
  BY FS_StrictSubsetOrderingWellFounded
<1>2. C \subseteq FiniteSubsetsOf(T)
  <2> SUFFICES ASSUME NEW k \in T PROVE Above(k) \in FiniteSubsetsOf(T) OBVIOUS
  <2>1. Above(k) \in SUBSET T OBVIOUS
  <2> HIDE DEF Above
  <2>2. IsFiniteSet(Above(k)) BY <2>1, FS_Subset
  <2> QED BY <2>1, <2>2 DEF FiniteSubsetsOf
<1>3. C # {}
  <2>1. PICK k \in T : TRUE OBVIOUS
  <2>2. Above(k) \in C BY <2>1
  <2> HIDE DEF Above, C
  <2> QED BY <2>2
<1> DEFINE R == StrictSubsetOrdering(T)  S == FiniteSubsetsOf(T)
<1>4. \E x \in C : \A y \in C : ~(<<y, x>> \in R)
  <2>1. IsWellFoundedOn(R, S) /\ C \subseteq S /\ C # {} BY <1>1, <1>2, <1>3
  <2> HIDE DEF R, S, C
  <2> QED BY <2>1, WFMin
<1>5. PICK m \in T : \A y \in C : ~(<<y, Above(m)>> \in R) BY <1>4
<1>6. ASSUME NEW k \in T, F[k] > F[m] PROVE FALSE
  <2>1. F[k] \in Int /\ F[m] \in Int OBVIOUS
  <2>2. Above(k) \subseteq Above(m) BY <1>6, <2>1
  <2>3. k \in Above(m) /\ k \notin Above(k) BY <1>6, <2>1
  <2>4. <<Above(k), Above(m)>> \in R BY <2>2, <2>3 DEF StrictSubsetOrdering
  <2> QED BY <1>5, <2>4
<1> QED BY <1>6

\* The evidence on file has a status to be scored by.
LEMMA FitIsInt ==
  ASSUME NEW ev \in FileSet, NEW n \in Questions, NEW e \in OnFile(ev)
  PROVE  Fit(ev, n, e) \in Int /\ Effective(ev[e]) \in Statuses \ {"none"}
<1>1. e \in Evidence /\ ev[e].status \in Statuses \ {"none"} /\ ev[e].old \in BOOLEAN
  BY DEF OnFile, FileSet
<1>2. Effective(ev[e]) \in Statuses \ {"none"} BY <1>1 DEF Effective, Statuses
<1>3. StatusPoints(Effective(ev[e])) \in Int BY <1>2 DEF StatusPoints, Statuses
<1>4. Relevance[<<n, e>>] \in Int BY <1>1, TrustAssumption
<1> QED BY <1>2, <1>3, <1>4 DEF Fit

LEMMA BestIsOnFile ==
  ASSUME NEW ev \in FileSet, NEW n \in Questions, OnFile(ev) # {}
  PROVE  BestFor(ev, n) \in OnFile(ev)
<1> DEFINE F == [e \in OnFile(ev) |-> Fit(ev, n, e)]
<1>1. F \in [OnFile(ev) -> Int] BY FitIsInt
<1>2. IsFiniteSet(OnFile(ev))
  <2>1. OnFile(ev) \in SUBSET Evidence BY DEF OnFile
  <2> QED BY <2>1, TrustAssumption, FS_Subset
<1>3. \A e \in OnFile(ev) : F[e] = Fit(ev, n, e) OBVIOUS
<1> HIDE DEF F
<1>4. \E m \in OnFile(ev) : \A k \in OnFile(ev) : F[m] >= F[k] BY <1>1, <1>2, GreatestExists
<1>5. \E m \in OnFile(ev) : \A k \in OnFile(ev) : Fit(ev, n, m) >= Fit(ev, n, k)
  BY <1>3, <1>4
<1> QED BY <1>5 DEF BestFor

\* An answer from the evidence: it names evidence on file, approved if it is.
LEMMA SnapshotSays ==
  ASSUME NEW ev \in FileSet, NEW n \in Questions
  PROVE  LET a == Snapshot(ev, n)
         IN /\ a \in [state : States, key : Evidence \cup {"none"}, required : BOOLEAN]
            /\ a.key \in OnFile(ev) \cup {"none"}
            /\ a.state = "approved" => a.key \in Approved(ev) \cup {"none"}
            /\ n \in Critical /\ a.state \in {"draft", "open", "stale", "revoked"} => a.required
<1> DEFINE st == AnswerState(ev, n)
           key == IF OnFile(ev) = {} THEN "none" ELSE BestFor(ev, n)
           required == n \in Critical /\ st \in {"draft", "open", "stale", "revoked"}
<1>1. Snapshot(ev, n) = [state |-> st, key |-> key, required |-> required] BY DEF Snapshot
<1>2. key \in OnFile(ev) \cup {"none"} /\ OnFile(ev) \subseteq Evidence BY BestIsOnFile DEF OnFile
<1>3. st \in States BY DEF AnswerState, States
<1>4. st = "approved" => key \in Approved(ev)
  <2> SUFFICES ASSUME st = "approved" PROVE key \in Approved(ev) OBVIOUS
  <2>1. OnFile(ev) # {} /\ Effective(ev[BestFor(ev, n)]) = "approved" BY DEF AnswerState
  <2>2. BestFor(ev, n) \in OnFile(ev) BY <2>1, BestIsOnFile
  <2>3. ev[BestFor(ev, n)].status = "approved" BY <2>1 DEF Effective
  <2> QED BY <1>2, <2>1, <2>2, <2>3 DEF Approved
<1>5. required \in BOOLEAN OBVIOUS
<1>6. n \in Critical /\ st \in {"draft", "open", "stale", "revoked"} => required OBVIOUS
<1> HIDE DEF st, key, required
<1> QED BY <1>1, <1>2, <1>3, <1>4, <1>5, <1>6

\* What the questionnaires hold once one is answered anew.
LEMMA WithAnswersSays ==
  ASSUME NEW as \in AssuranceSet, NEW q \in Questionnaires, NEW answers \in AnswerSet
  PROVE  LET new == WithAnswers(as, q, answers)
         IN /\ new \in AssuranceSet
            /\ new.packs[q].answers = answers /\ new.packs[q].gate = Rollup(answers)
            /\ \A p \in Questionnaires \ {q} : new.packs[p] = as.packs[p]
            /\ \A i \in Items : i[1] # q => new.queue[i] = as.queue[i]
            /\ \A n \in Questions :
                  /\ new.queue[<<q, n>>].state = answers[n].state
                  /\ new.queue[<<q, n>>].required = answers[n].required
                  /\ new.queue[<<q, n>>].status = IF answers[n].required THEN "pending"
                                              ELSE IF as.queue[<<q, n>>].status = "none" THEN "cleared"
                                              ELSE as.queue[<<q, n>>].status
<1> DEFINE pack == [answers |-> answers, gate |-> Rollup(answers)]
           queue == Synced(as.queue, q, answers)
           new == WithAnswers(as, q, answers)
<1>1. pack \in PackSet /\ pack.answers = answers /\ pack.gate = Rollup(answers)
  BY DEF PackSet, Rollup, Gates
<1>2. as.packs \in [Questionnaires -> PackSet] /\ as.queue \in [Items -> ItemSet]
      /\ as = [packs |-> as.packs, queue |-> as.queue]
  BY DEF AssuranceSet
<1>3. ASSUME NEW i \in Items
      PROVE  /\ queue[i] \in ItemSet
             /\ i[1] # q => queue[i] = as.queue[i]
             /\ i[1] = q =>
                  /\ queue[i].state = answers[i[2]].state
                  /\ queue[i].required = answers[i[2]].required
                  /\ queue[i].status = IF answers[i[2]].required THEN "pending"
                                       ELSE IF as.queue[i].status = "none" THEN "cleared"
                                       ELSE as.queue[i].status
  <2> DEFINE st == answers[i[2]].state
             need == answers[i[2]].required
             s == IF need THEN "pending" ELSE IF as.queue[i].status = "none" THEN "cleared"
                  ELSE as.queue[i].status
             h == as.queue[i]
             k == [h EXCEPT !.state = st, !.required = need, !.status = s]
  <2>1. h \in ItemSet BY <1>2
  <2>2. i[2] \in Questions BY DEF Items
  <2>3. st \in States /\ need \in BOOLEAN BY <2>2 DEF AnswerSet
  <2>4. s \in Marks BY <2>1 DEF ItemSet, Marks
  <2>5. queue[i] = IF i[1] # q THEN h ELSE k BY DEF Synced
  <2> HIDE DEF st, need, s, h
  <2>6. /\ k \in ItemSet /\ k.state = st /\ k.required = need /\ k.status = s
    BY <2>1, <2>3, <2>4 DEF ItemSet
  <2> HIDE DEF k, queue
  <2>7. /\ queue[i] \in ItemSet /\ (i[1] # q => queue[i] = h)
        /\ (i[1] = q => queue[i].state = st /\ queue[i].required = need /\ queue[i].status = s)
    BY <2>1, <2>5, <2>6
  <2> QED BY <2>7 DEF h, st, need, s
<1>4. queue \in [Items -> ItemSet]
  <2>1. queue = [i \in Items |-> queue[i]] BY DEF Synced
  <2> HIDE DEF queue
  <2> QED BY <1>3, <2>1
<1>5. new = [as EXCEPT !.packs[q] = pack, !.queue = queue] BY DEF WithAnswers
<1> HIDE DEF pack, queue, new
<1>6. /\ new \in AssuranceSet /\ new.queue = queue
      /\ new.packs = [as.packs EXCEPT ![q] = pack]
  BY <1>1, <1>2, <1>4, <1>5 DEF AssuranceSet
<1>7. new.packs[q] = pack /\ \A p \in Questionnaires \ {q} : new.packs[p] = as.packs[p]
  BY <1>2, <1>6
<1>8. \A n \in Questions : <<q, n>> \in Items /\ <<q, n>>[1] = q /\ <<q, n>>[2] = n BY DEF Items
<1>9. \A n \in Questions :
          /\ new.queue[<<q, n>>].state = answers[n].state
          /\ new.queue[<<q, n>>].required = answers[n].required
          /\ new.queue[<<q, n>>].status = IF answers[n].required THEN "pending"
                                      ELSE IF as.queue[<<q, n>>].status = "none" THEN "cleared"
                                      ELSE as.queue[<<q, n>>].status
  BY <1>3, <1>6, <1>8
<1> QED BY <1>1, <1>3, <1>6, <1>7, <1>9 DEF new

---------------------------------------------------------------------------
(***************************************************************************)
(* Trust review: what each step does                                       *)
(***************************************************************************)
LEMMA NothingYet ==
  /\ NoEvidence \in FileSet /\ OnFile(NoEvidence) = {} /\ Approved(NoEvidence) = {}
  /\ NoAssurance \in AssuranceSet
  /\ \A q \in Questionnaires : NoAssurance.packs[q].gate = "none"
  /\ \A i \in Items : NoAssurance.queue[i] = NoItem
  /\ Calm \in ThreadSet /\ AtWork(Calm) /\ Calm.pc = "idle" /\ Calm.ev = NoEvidence
  /\ Calm.as = NoAssurance
<1>1. NoEvidence \in FileSet /\ OnFile(NoEvidence) = {} /\ Approved(NoEvidence) = {}
  BY DEF NoEvidence, NoEntry, FileSet, OnFile, Approved, Statuses
<1>2. NoPack \in PackSet /\ NoPack.gate = "none" BY DEF NoPack, PackSet, Gates
<1>3. NoItem \in ItemSet BY DEF NoItem, ItemSet, Marks
<1>4. /\ NoAssurance \in AssuranceSet
      /\ \A q \in Questionnaires : NoAssurance.packs[q].gate = "none"
      /\ \A i \in Items : NoAssurance.queue[i] = NoItem
  BY <1>2, <1>3 DEF NoAssurance, AssuranceSet
<1> HIDE DEF NoEvidence, NoAssurance
<1>5. Calm \in ThreadSet /\ Calm.pc = "idle" /\ Calm.ev = NoEvidence /\ Calm.as = NoAssurance
  BY <1>1, <1>4 DEF Calm, ThreadSet, Places, Gates
<1>6. AtWork(Calm) BY <1>5 DEF AtWork
<1> QED BY <1>1, <1>4, <1>5, <1>6

TrustStep(t, r) == r \in ThreadSet /\ AtWork(r) /\ thread' = [thread EXCEPT ![t] = r]
files == <<evidence, assurance, approvedOnce, word, overlap>>

\* What a thread reads of the evidence, and of the questionnaires: the file, or nothing
\* while another thread holds it.
LEMMA EvidenceReadIs ==
  ASSUME TrustTyped, NEW t \in Threads, NEW ev \in EvidenceRead(t)
  PROVE  /\ ev \in FileSet
         /\ ev = evidence \/ (ev = NoEvidence /\ \E u \in Threads \ {t} : HoldsEvidence(u))
BY NothingYet DEF EvidenceRead, EvidenceNow, TrustTyped, Others, HoldsEvidence
LEMMA AssuranceReadIs ==
  ASSUME TrustTyped, NEW t \in Threads, NEW as \in AssuranceRead(t)
  PROVE  /\ as \in AssuranceSet
         /\ as = assurance \/ (as = NoAssurance /\ \E u \in Threads \ {t} : HoldsAssurance(u))
BY NothingYet DEF AssuranceRead, AssuranceNow, TrustTyped, Others, HoldsAssurance

LEMMA AskStep ==
  ASSUME TrustTyped, NEW t \in Threads,
         (\E q \in Questionnaires : AskQuestions(t, q)) \/ (\E e \in Briefs : AskWatch(t, e))
  PROVE  \E r : /\ TrustStep(t, r) /\ thread[t].pc = "idle" /\ r.pc = "packet"
                /\ r.ev = NoEvidence /\ r.as = NoAssurance /\ UNCHANGED files
<1>1. CASE \E q \in Questionnaires : AskQuestions(t, q)
  <2>1. PICK q \in Questionnaires : AskQuestions(t, q) BY <1>1
  <2> DEFINE r == [Calm EXCEPT !.pc = "packet", !.job = "answers", !.q = q, !.e = PackOf[q]]
  <2>2. PackOf[q] \in Evidence BY DEF Evidence
  <2>3. /\ r \in ThreadSet /\ r.pc = "packet" /\ r.job = "answers" /\ r.q = q /\ r.e = PackOf[q]
        /\ r.ev = NoEvidence /\ r.as = NoAssurance
    <3> HIDE DEF Calm
    <3> QED BY <2>2, NothingYet DEF ThreadSet, Places
  <2>4. thread' = [thread EXCEPT ![t] = r] /\ thread[t].pc = "idle" /\ UNCHANGED files
    BY <2>1 DEF AskQuestions, Become, files
  <2> HIDE DEF r
  <2> QED BY <2>2, <2>3, <2>4 DEF TrustStep, AtWork
<1>2. CASE \E e \in Briefs : AskWatch(t, e)
  <2>1. PICK e \in Briefs : AskWatch(t, e) BY <1>2
  <2> DEFINE r == [Calm EXCEPT !.pc = "packet", !.job = "brief", !.e = e]
  <2>2. e \in Evidence BY DEF Evidence
  <2>3. /\ r \in ThreadSet /\ r.pc = "packet" /\ r.job = "brief" /\ r.e = e
        /\ r.ev = NoEvidence /\ r.as = NoAssurance
    <3> HIDE DEF Calm
    <3> QED BY <2>2, NothingYet DEF ThreadSet, Places
  <2>4. thread' = [thread EXCEPT ![t] = r] /\ thread[t].pc = "idle" /\ UNCHANGED files
    BY <2>1 DEF AskWatch, Become, files
  <2> HIDE DEF r
  <2> QED BY <2>2, <2>3, <2>4 DEF TrustStep, AtWork
<1> QED BY <1>1, <1>2

LEMMA PacketStep ==
  ASSUME TrustTyped, NEW t \in Threads, Packet(t)
  PROVE  \E ev \in EvidenceRead(t) : \E r :
            /\ TrustStep(t, r) /\ thread[t].pc = "packet" /\ r.pc \in {"packet_save", "support", "deliver"}
            /\ r.ev = ev /\ r.as = thread[t].as
            /\ overlap' = (overlap \/ \E u \in Others(t) : HoldsEvidence(u))
            /\ UNCHANGED <<evidence, assurance, approvedOnce, word>>
<1>1. PICK ev \in EvidenceRead(t) :
         thread' = [thread EXCEPT ![t].ev = ev, ![t].pc =
                       IF OnFile(ev) # {} THEN "packet_save"
                       ELSE IF thread[t].job = "answers" THEN "support" ELSE "deliver"]
  BY DEF Packet
<1> DEFINE pc == IF OnFile(ev) # {} THEN "packet_save"
                 ELSE IF thread[t].job = "answers" THEN "support" ELSE "deliver"
           h == thread[t]
           r == [h EXCEPT !.ev = ev, !.pc = pc]
<1>2. h \in ThreadSet /\ AtWork(h) /\ h.pc = "packet" BY DEF TrustTyped, Packet
<1>3. pc \in {"packet_save", "support", "deliver"} /\ (pc = "support" => h.job = "answers") OBVIOUS
<1>4. ev \in FileSet BY EvidenceReadIs
<1>5. thread' = [thread EXCEPT ![t] = r] BY <1>1 DEF TrustTyped
<1> HIDE DEF pc, h
<1>6. r \in ThreadSet /\ r.pc = pc /\ r.ev = ev /\ r.as = h.as /\ r.e = h.e /\ r.job = h.job /\ r.q = h.q
  BY <1>2, <1>3, <1>4 DEF ThreadSet, Places
<1> HIDE DEF r
<1>7. AtWork(r) BY <1>2, <1>3, <1>6 DEF AtWork
<1>8. TrustStep(t, r) BY <1>5, <1>6, <1>7 DEF TrustStep
<1>9. r.as = thread[t].as /\ thread[t].pc = "packet" BY <1>2, <1>6 DEF h
<1> QED BY <1>3, <1>6, <1>8, <1>9 DEF Packet, Taken

LEMMA PacketSaveStep ==
  ASSUME TrustTyped, NEW t \in Threads, PacketSave(t)
  PROVE  \E r : /\ TrustStep(t, r) /\ thread[t].pc = "packet_save" /\ r.pc \in {"support", "deliver"}
                /\ r.ev = NoEvidence /\ r.as = thread[t].as /\ SaveEvidence(thread[t].ev)
                /\ UNCHANGED <<assurance, word, overlap>>
<1> DEFINE pc == IF thread[t].job = "answers" THEN "support" ELSE "deliver"
           h == thread[t]
           r == [h EXCEPT !.pc = pc, !.ev = NoEvidence]
<1>1. h \in ThreadSet /\ AtWork(h) /\ h.pc = "packet_save" BY DEF TrustTyped, PacketSave
<1>2. pc \in {"support", "deliver"} /\ (pc = "support" => h.job = "answers") OBVIOUS
<1>3. thread' = [thread EXCEPT ![t] = r] BY DEF TrustTyped, PacketSave
<1> HIDE DEF pc, h
<1>4. /\ r \in ThreadSet /\ r.pc = pc /\ r.ev = NoEvidence /\ r.as = h.as /\ r.e = h.e
      /\ r.job = h.job /\ r.q = h.q
  BY <1>1, <1>2, NothingYet DEF ThreadSet, Places
<1> HIDE DEF r
<1>5. TrustStep(t, r) BY <1>1, <1>2, <1>3, <1>4 DEF TrustStep, AtWork
<1>6. r.as = thread[t].as /\ thread[t].pc = "packet_save" BY <1>1, <1>4 DEF h
<1> QED BY <1>2, <1>4, <1>5, <1>6 DEF PacketSave

LEMMA ReadSupportStep ==
  ASSUME TrustTyped, NEW t \in Threads, ReadSupport(t)
  PROVE  \E ev \in EvidenceRead(t) : \E r :
            /\ TrustStep(t, r) /\ thread[t].pc = "support" /\ r.pc = "build"
            /\ r.ev = ev /\ r.as = thread[t].as /\ UNCHANGED files
<1>1. PICK ev \in EvidenceRead(t) : thread' = [thread EXCEPT ![t].ev = ev, ![t].pc = "build"]
  BY DEF ReadSupport
<1> DEFINE h == thread[t]
           r == [h EXCEPT !.ev = ev, !.pc = "build"]
<1>2. h \in ThreadSet /\ AtWork(h) /\ h.pc = "support" BY DEF TrustTyped, ReadSupport
<1>3. ev \in FileSet BY EvidenceReadIs
<1>4. thread' = [thread EXCEPT ![t] = r] BY <1>1 DEF TrustTyped
<1> HIDE DEF h
<1>5. /\ r \in ThreadSet /\ r.pc = "build" /\ r.ev = ev /\ r.as = h.as /\ r.e = h.e /\ r.job = h.job
      /\ r.q = h.q
  BY <1>2, <1>3 DEF ThreadSet, Places
<1> HIDE DEF r
<1>6. TrustStep(t, r) BY <1>2, <1>4, <1>5 DEF TrustStep, AtWork
<1>7. r.as = thread[t].as /\ thread[t].pc = "support" BY <1>2, <1>5 DEF h
<1> QED BY <1>5, <1>6, <1>7 DEF ReadSupport, files

\* The questions answered from the evidence.
Answered(ev) == [n \in Questions |-> Snapshot(ev, n)]
LEMMA AnsweredSays ==
  ASSUME NEW ev \in FileSet
  PROVE  /\ Answered(ev) \in AnswerSet
         /\ \A n \in Questions :
              /\ Answered(ev)[n].key \in OnFile(ev) \cup {"none"}
              /\ Answered(ev)[n].state = "approved" => Answered(ev)[n].key \in Approved(ev) \cup {"none"}
              /\ n \in Critical /\ Answered(ev)[n].state \in {"draft", "open", "stale", "revoked"}
                   => Answered(ev)[n].required
BY SnapshotSays DEF Answered, AnswerSet

LEMMA BuildStep ==
  ASSUME TrustTyped, NEW t \in Threads, Build(t)
  PROVE  \E as \in AssuranceRead(t) : \E r :
            /\ TrustStep(t, r) /\ thread[t].pc = "build" /\ r.pc = "build_save"
            /\ r.ev = thread[t].ev /\ r.q = thread[t].q /\ r.q \in Questionnaires
            /\ r.as = WithAnswers(as, r.q, Answered(r.ev))
            /\ overlap' = (overlap \/ \E u \in Others(t) : HoldsAssurance(u))
            /\ UNCHANGED <<evidence, assurance, approvedOnce, word>>
<1> DEFINE h == thread[t]
<1>1. PICK as \in AssuranceRead(t) :
         thread' = [thread EXCEPT ![t].pc = "build_save",
                                  ![t].as = WithAnswers(as, thread[t].q, Answered(thread[t].ev))]
  BY DEF Build, Answered
<1>2. h \in ThreadSet /\ AtWork(h) /\ h.pc = "build" BY DEF TrustTyped, Build
<1> DEFINE new == WithAnswers(as, h.q, Answered(h.ev))
           r == [h EXCEPT !.pc = "build_save", !.as = new]
<1>3. thread' = [thread EXCEPT ![t] = r] BY <1>1 DEF TrustTyped
<1> HIDE DEF h
<1>4. as \in AssuranceSet BY AssuranceReadIs
<1>5. h.q \in Questionnaires /\ h.e \in Evidence /\ h.job = "answers" /\ h.ev \in FileSet
  BY <1>2 DEF AtWork, ThreadSet
<1>6. new \in AssuranceSet BY <1>4, <1>5, AnsweredSays, WithAnswersSays
<1> HIDE DEF new
<1>7. /\ r \in ThreadSet /\ r.pc = "build_save" /\ r.as = new /\ r.ev = h.ev /\ r.e = h.e
      /\ r.job = h.job /\ r.q = h.q
  BY <1>2, <1>6 DEF ThreadSet, Places
<1> HIDE DEF r
<1>8. TrustStep(t, r) BY <1>3, <1>5, <1>7 DEF TrustStep, AtWork
<1>9. r.as = WithAnswers(as, r.q, Answered(r.ev)) BY <1>7 DEF new
<1>10. thread[t].pc = "build" /\ r.ev = thread[t].ev /\ r.q = thread[t].q BY <1>2, <1>7 DEF h
<1> QED BY <1>5, <1>7, <1>8, <1>9, <1>10 DEF Build, Taken

LEMMA BuildSaveStep ==
  ASSUME TrustTyped, NEW t \in Threads, BuildSave(t)
  PROVE  \E r : /\ TrustStep(t, r) /\ thread[t].pc = "build_save" /\ r.pc = "deliver"
                /\ r.ev = NoEvidence /\ r.as = NoAssurance /\ assurance' = thread[t].as
                /\ thread[t].q \in Questionnaires
                /\ word' = [i \in Items |-> IF i[1] = thread[t].q THEN "none" ELSE word[i]]
                /\ UNCHANGED <<evidence, approvedOnce, overlap>>
<1> DEFINE h == thread[t]
           g == h.as.packs[h.q].gate
           e == h.e
           r == [Calm EXCEPT !.pc = "deliver", !.job = "answers", !.e = e, !.decision = g]
<1>1. h \in ThreadSet /\ AtWork(h) /\ h.pc = "build_save" BY DEF TrustTyped, BuildSave
<1>2. thread' = [thread EXCEPT ![t] = r] BY DEF BuildSave
<1>3. h.q \in Questionnaires /\ h.e \in Evidence BY <1>1 DEF AtWork
<1>4. g \in Gates
  <2>1. h.as.packs[h.q] \in PackSet BY <1>1, <1>3 DEF ThreadSet, AssuranceSet
  <2> QED BY <2>1 DEF PackSet
<1>5. e \in Evidence BY <1>3
<1>6. thread[t].pc = "build_save" /\ thread[t].q \in Questionnaires BY <1>1, <1>3
<1> HIDE DEF h, g, e
<1>7. /\ r \in ThreadSet /\ r.pc = "deliver" /\ r.ev = NoEvidence /\ r.as = NoAssurance /\ r.e = e
  <2> HIDE DEF Calm
  <2> QED BY <1>4, <1>5, NothingYet DEF ThreadSet, Places
<1> HIDE DEF r
<1>8. TrustStep(t, r) BY <1>2, <1>5, <1>7 DEF TrustStep, AtWork
<1> QED BY <1>6, <1>7, <1>8 DEF BuildSave

LEMMA JudgeStep ==
  ASSUME TrustTyped, NEW t \in Threads, Judge(t)
  PROVE  \E r : /\ TrustStep(t, r) /\ thread[t].pc = "deliver"
                /\ \/ r.pc = "idle" /\ r.ev = NoEvidence /\ r.as = NoAssurance
                   \/ r.pc = "remember" /\ r.ev = thread[t].ev /\ r.as = thread[t].as
                /\ UNCHANGED files
<1>1. thread[t].pc = "deliver" /\ UNCHANGED files BY DEF Judge, files
<1>2. CASE Become(t, Calm)
  <2>1. thread' = [thread EXCEPT ![t] = Calm] BY <1>2 DEF Become
  <2> QED BY <1>1, <2>1, NothingYet DEF TrustStep
<1>3. CASE \E found \in {"success", "partial"} :
             thread' = [thread EXCEPT ![t].pc = "remember", ![t].decision = Verdict(t, found)]
  <2>1. PICK found \in {"success", "partial"} :
             thread' = [thread EXCEPT ![t].pc = "remember", ![t].decision = Verdict(t, found)]
    BY <1>3
  <2> DEFINE v == Verdict(t, found)
             h == thread[t]
             r == [h EXCEPT !.pc = "remember", !.decision = v]
  <2>2. v \in {"draft", "approved"} BY DEF Verdict
  <2>3. h \in ThreadSet /\ AtWork(h) /\ h.pc = "deliver" BY <1>1 DEF TrustTyped
  <2>4. thread' = [thread EXCEPT ![t] = r] BY <2>1 DEF TrustTyped
  <2> HIDE DEF v, h
  <2>5. /\ r \in ThreadSet /\ r.pc = "remember" /\ r.ev = h.ev /\ r.as = h.as /\ r.e = h.e
        /\ r.decision = v
    BY <2>2, <2>3 DEF ThreadSet, Places
  <2> HIDE DEF r
  <2>6. TrustStep(t, r) BY <2>2, <2>3, <2>4, <2>5 DEF TrustStep, AtWork
  <2>7. r.ev = thread[t].ev /\ r.as = thread[t].as BY <2>5 DEF h
  <2> QED BY <1>1, <2>5, <2>6, <2>7
<1> QED BY <1>2, <1>3 DEF Judge

LEMMA CollectStep ==
  ASSUME TrustTyped, NEW t \in Threads, Collect(t)
  PROVE  \E ev \in EvidenceRead(t) : \E r :
            /\ TrustStep(t, r) /\ thread[t].pc = "remember" /\ r.pc = "remember_save"
            /\ r.ev \in FileSet /\ OnFile(ev) \subseteq OnFile(r.ev) /\ r.as = thread[t].as
            /\ overlap' = (overlap \/ \E u \in Others(t) : HoldsEvidence(u))
            /\ UNCHANGED <<evidence, assurance, approvedOnce, word>>
<1> DEFINE h == thread[t]
<1>1. PICK ev \in EvidenceRead(t) :
         thread' = [thread EXCEPT ![t].pc = "remember_save",
                      ![t].ev = [ev EXCEPT ![thread[t].e] = [status |-> thread[t].decision, old |-> FALSE]]]
  BY DEF Collect
<1> DEFINE entry == [status |-> h.decision, old |-> FALSE]
           new == [ev EXCEPT ![h.e] = entry]
           r == [h EXCEPT !.pc = "remember_save", !.ev = new]
<1>2. h \in ThreadSet /\ AtWork(h) /\ h.pc = "remember" BY DEF TrustTyped, Collect
<1>3. thread' = [thread EXCEPT ![t] = r] BY <1>1 DEF TrustTyped
<1>4. ev \in FileSet BY EvidenceReadIs
<1> HIDE DEF h
<1>5. h.e \in Evidence /\ h.decision \in {"draft", "approved"} BY <1>2 DEF AtWork
<1>6. entry \in [status : Statuses, old : BOOLEAN] /\ entry.status # "none" BY <1>5 DEF Statuses
<1> HIDE DEF entry
<1>7. new \in FileSet /\ OnFile(ev) \subseteq OnFile(new)
  BY <1>4, <1>5, <1>6 DEF FileSet, OnFile
<1> HIDE DEF new
<1>8. r \in ThreadSet /\ r.pc = "remember_save" /\ r.ev = new /\ r.as = h.as
  BY <1>2, <1>7 DEF ThreadSet, Places
<1> HIDE DEF r
<1>9. TrustStep(t, r) BY <1>3, <1>8 DEF TrustStep, AtWork
<1>10. r.as = thread[t].as /\ thread[t].pc = "remember" BY <1>2, <1>8 DEF h
<1> QED BY <1>7, <1>8, <1>9, <1>10 DEF Collect, Taken

LEMMA FileSaveStep ==
  ASSUME TrustTyped, NEW t \in Threads, CollectSave(t) \/ MarkSave(t)
  PROVE  /\ TrustStep(t, Calm) /\ thread[t].pc \in {"remember_save", "mark_save"}
         /\ SaveEvidence(thread[t].ev) /\ UNCHANGED <<assurance, word, overlap>>
BY NothingYet DEF CollectSave, MarkSave, Become, TrustStep

LEMMA MarkStep ==
  ASSUME TrustTyped, NEW t \in Threads, NEW e \in Evidence,
         NEW d \in {"approve", "stale", "revoke", "draft"}, Mark(t, e, d)
  PROVE  \E ev \in EvidenceRead(t) : \E r :
            /\ TrustStep(t, r) /\ thread[t].pc = "idle" /\ r.pc = "mark_save"
            /\ r.ev \in FileSet /\ OnFile(ev) \subseteq OnFile(r.ev) /\ r.as = NoAssurance
            /\ overlap' = (overlap \/ \E u \in Others(t) : HoldsEvidence(u))
            /\ UNCHANGED <<evidence, assurance, approvedOnce, word>>
<1>1. PICK ev \in EvidenceRead(t) :
         Become(t, [Calm EXCEPT !.pc = "mark_save", !.ev = [ev EXCEPT ![e].status = MarkOf(d)]])
  BY DEF Mark
<1> DEFINE m == MarkOf(d)
           new == [ev EXCEPT ![e].status = m]
           r == [Calm EXCEPT !.pc = "mark_save", !.ev = new]
<1>2. thread' = [thread EXCEPT ![t] = r] BY <1>1 DEF Become
<1>3. ev \in FileSet BY EvidenceReadIs
<1>4. m \in Statuses \ {"none"} BY DEF MarkOf, Statuses
<1> HIDE DEF m
<1>5. new \in FileSet /\ OnFile(ev) \subseteq OnFile(new) BY <1>3, <1>4 DEF FileSet, OnFile
<1> HIDE DEF new
<1>6. r \in ThreadSet /\ r.pc = "mark_save" /\ r.ev = new /\ r.as = NoAssurance
  <2> HIDE DEF Calm
  <2> QED BY <1>5, NothingYet DEF ThreadSet, Places
<1> HIDE DEF r
<1>7. TrustStep(t, r) BY <1>2, <1>6 DEF TrustStep, AtWork
<1> QED BY <1>5, <1>6, <1>7 DEF Mark, Taken

LEMMA ReviewStep ==
  ASSUME TrustTyped, NEW t \in Threads, NEW i \in Items, NEW d \in Decisions, Review(t, i, d)
  PROVE  \E as \in AssuranceRead(t) : \E r :
            /\ TrustStep(t, r) /\ thread[t].pc = "idle" /\ r.pc = "review_read"
            /\ r.ev = NoEvidence /\ r.as = as
            /\ overlap' = (overlap \/ \E u \in Others(t) : HoldsAssurance(u))
            /\ UNCHANGED <<evidence, assurance, approvedOnce, word>>
<1>1. PICK as \in AssuranceRead(t) :
         /\ as.packs[i[1]].gate # "none"
         /\ Become(t, [Calm EXCEPT !.pc = "review_read", !.item = i, !.decision = d, !.as = as])
  BY DEF Review
<1> DEFINE r == [Calm EXCEPT !.pc = "review_read", !.item = i, !.decision = d, !.as = as]
<1>2. thread' = [thread EXCEPT ![t] = r] BY <1>1 DEF Become
<1>3. as \in AssuranceSet BY AssuranceReadIs
<1>4. /\ r \in ThreadSet /\ r.pc = "review_read" /\ r.ev = NoEvidence /\ r.as = as /\ r.item = i
      /\ r.decision = d
  <2> HIDE DEF Calm
  <2> QED BY <1>3, NothingYet DEF ThreadSet, Places
<1> HIDE DEF r
<1>5. TrustStep(t, r) BY <1>1, <1>2, <1>4 DEF TrustStep, AtWork
<1> QED BY <1>4, <1>5 DEF Review, Taken

\* The answers of a questionnaire once one of them is decided.
LEMMA ReviewedSays ==
  ASSUME NEW as \in AssuranceSet, NEW i \in Items, NEW d \in Decisions,
         as.packs[i[1]].answers \in AnswerSet
  PROVE  LET old == as.packs[i[1]].answers
             new == Reviewed(as, i, d)
         IN /\ new \in AnswerSet /\ i[2] \in Questions
            /\ new[i[2]].state = StateOf(d) /\ new[i[2]].key = old[i[2]].key
            /\ new[i[2]].required = (d \in {"stale", "revoke"})
            /\ \A n \in Questions \ {i[2]} : new[n] = old[n]
<1> DEFINE old == as.packs[i[1]].answers
           st == StateOf(d)
           need == d \in {"stale", "revoke"}
           new == [old EXCEPT ![i[2]].state = st, ![i[2]].required = need]
<1>1. i[2] \in Questions BY DEF Items
<1>2. Reviewed(as, i, d) = new BY DEF Reviewed, StateOf
<1>3. st \in States BY DEF StateOf, MarkOf, States, Decisions
<1>4. need \in BOOLEAN OBVIOUS
<1>5. old \in AnswerSet OBVIOUS
<1> HIDE DEF st, need, old
<1>6. /\ new \in AnswerSet /\ new[i[2]].state = st /\ new[i[2]].key = old[i[2]].key
      /\ new[i[2]].required = need /\ \A n \in Questions \ {i[2]} : new[n] = old[n]
  BY <1>1, <1>3, <1>4, <1>5 DEF AnswerSet
<1> HIDE DEF new
<1> QED BY <1>1, <1>2, <1>6 DEF st, need, old

\* One item of the queue changed in its status.
OneItem(new, as, i) ==
    /\ new \in AssuranceSet /\ new.packs = as.packs
    /\ \A j \in Items \ {i} : new.queue[j] = as.queue[j]
    /\ new.queue[i].state = as.queue[i].state /\ new.queue[i].required = as.queue[i].required
LEMMA StatusSet ==
  ASSUME NEW as \in AssuranceSet, NEW i \in Items, NEW v \in Marks
  PROVE  LET new == [as EXCEPT !.queue[i].status = v]
         IN /\ OneItem(new, as, i) /\ new.queue[i].status = v
BY DEF AssuranceSet, ItemSet, OneItem

LEMMA ReviewReadStep ==
  ASSUME TrustTyped, NEW t \in Threads, ReviewRead(t), Agrees(thread[t].as)
  PROVE  \E ev \in EvidenceRead(t) : \E r :
           LET h == thread[t]
               i == h.item
               answers == Reviewed(h.as, i, h.decision)
               rolled == WithAnswers(h.as, i[1], answers)
           IN /\ TrustStep(t, r) /\ h.pc = "review_read" /\ i \in Items /\ h.decision \in Decisions
              /\ h.as.packs[i[1]].gate # "none"
              /\ r.pc = "review_save"
              /\ r.item = i /\ r.decision = h.decision
              /\ r.ev \in FileSet /\ OnFile(ev) \subseteq OnFile(r.ev)
              /\ (h.decision = "approve" /\ answers[i[2]].key \in OnFile(ev) \ {"none"}
                    => answers[i[2]].key \in Approved(r.ev))
              /\ OneItem(r.as, rolled, i) /\ r.as.queue[i].status = h.decision
              /\ overlap' = (overlap \/ \E u \in Others(t) : HoldsEvidence(u))
              /\ UNCHANGED <<evidence, assurance, approvedOnce, word>>
<1> DEFINE h == thread[t]
           i == h.item
           d == h.decision
           answers == Reviewed(h.as, i, d)
           key == answers[i[2]].key
           rolled == WithAnswers(h.as, i[1], answers)
           as == [rolled EXCEPT !.queue[i].status = d]
<1>1. h \in ThreadSet /\ AtWork(h) /\ h.pc = "review_read" BY DEF TrustTyped, ReviewRead
<1>2. i \in Items /\ d \in Decisions /\ h.as.packs[i[1]].gate # "none" BY <1>1 DEF AtWork
<1>3. i[1] \in Questionnaires /\ i[2] \in Questions /\ h.as \in AssuranceSet
  BY <1>1, <1>2 DEF Items, ThreadSet
<1>4. answers \in AnswerSet /\ h.as.packs[i[1]].answers \in AnswerSet
  <2>1. h.as.packs[i[1]].answers \in AnswerSet BY <1>2, <1>3 DEF Agrees
  <2> QED BY <1>2, <1>3, <2>1, ReviewedSays
<1>5. rolled \in AssuranceSet BY <1>3, <1>4, WithAnswersSays
<1>6. key \in Evidence \cup {"none"} BY <1>3, <1>4 DEF AnswerSet
<1>7. PICK ev \in EvidenceRead(t) :
         thread' = [thread EXCEPT ![t] = [h EXCEPT
            !.pc = "review_save",
            !.ev = IF d # "unresolved" /\ key # "none" /\ key \in OnFile(ev)
                   THEN [ev EXCEPT ![key].status = MarkOf(d)] ELSE ev,
            !.as = as]]
  BY DEF ReviewRead
<1> DEFINE m == MarkOf(d)
           marked == [ev EXCEPT ![key].status = m]
           new == IF d # "unresolved" /\ key # "none" /\ key \in OnFile(ev) THEN marked ELSE ev
           r == [h EXCEPT !.pc = "review_save", !.ev = new, !.as = as]
<1>8. thread' = [thread EXCEPT ![t] = r] BY <1>7
<1>9. ev \in FileSet BY EvidenceReadIs
<1>10. m \in Statuses \ {"none"} /\ (d = "approve" => m = "approved") BY DEF MarkOf, Statuses
<1>11. d \in Marks BY <1>2 DEF Marks
<1>12. OneItem(as, rolled, i) /\ as.queue[i].status = d
  <2> HIDE DEF rolled, i, d
  <2> QED BY <1>2, <1>5, <1>11, StatusSet
<1>14. /\ new \in FileSet /\ OnFile(ev) \subseteq OnFile(new)
       /\ d = "approve" /\ key \in OnFile(ev) \ {"none"} => key \in Approved(new)
  <2> HIDE DEF key, d, m
  <2>1. ASSUME key \in OnFile(ev)
        PROVE  /\ marked \in FileSet /\ OnFile(ev) \subseteq OnFile(marked)
               /\ m = "approved" => key \in Approved(marked)
    BY <1>9, <1>10, <2>1 DEF FileSet, OnFile, Approved
  <2> HIDE DEF marked
  <2> QED BY <1>9, <1>10, <2>1
<1> HIDE DEF new, as, rolled
<1>15. /\ r \in ThreadSet /\ r.pc = "review_save" /\ r.ev = new /\ r.as = as /\ r.item = i /\ r.decision = d
  <2> HIDE DEF h
  <2>1. as \in AssuranceSet BY <1>12 DEF OneItem
  <2> QED BY <1>1, <1>14, <2>1 DEF ThreadSet, Places
<1> HIDE DEF r
<1>16. as.packs[i[1]].gate # "none"
  <2>1. as.packs[i[1]].gate = Rollup(answers)
    BY <1>3, <1>4, <1>12, WithAnswersSays DEF OneItem, rolled
  <2> QED BY <2>1 DEF Rollup
<1>17. TrustStep(t, r) BY <1>2, <1>8, <1>15, <1>16 DEF TrustStep, AtWork
<1>18. /\ overlap' = (overlap \/ \E u \in Others(t) : HoldsEvidence(u))
       /\ UNCHANGED <<evidence, assurance, approvedOnce, word>>
  BY DEF ReviewRead, Taken
<1>19. OneItem(r.as, WithAnswers(h.as, i[1], answers), i) /\ r.as.queue[i].status = d
  BY <1>12, <1>15 DEF rolled
<1> QED BY <1>1, <1>2, <1>14, <1>15, <1>17, <1>18, <1>19

LEMMA ReviewSaveStep ==
  ASSUME TrustTyped, NEW t \in Threads, ReviewSave(t)
  PROVE  \E r : /\ TrustStep(t, r) /\ thread[t].pc = "review_save" /\ r.pc = "queue_save"
                /\ r.ev = NoEvidence /\ r.as = thread[t].as /\ r.item = thread[t].item
                /\ r.decision = thread[t].decision /\ SaveEvidence(thread[t].ev)
                /\ UNCHANGED <<assurance, word, overlap>>
<1> DEFINE h == thread[t]
           r == [h EXCEPT !.pc = "queue_save", !.ev = NoEvidence]
<1>1. h \in ThreadSet /\ AtWork(h) /\ h.pc = "review_save" BY DEF TrustTyped, ReviewSave
<1>2. thread' = [thread EXCEPT ![t] = r] BY DEF ReviewSave, TrustTyped
<1> HIDE DEF h
<1>3. /\ r \in ThreadSet /\ r.pc = "queue_save" /\ r.ev = NoEvidence /\ r.as = h.as
      /\ r.item = h.item /\ r.decision = h.decision
  BY <1>1, NothingYet DEF ThreadSet, Places
<1> HIDE DEF r
<1>4. TrustStep(t, r) BY <1>1, <1>2, <1>3 DEF TrustStep, AtWork
<1>5. /\ thread[t].pc = "review_save" /\ r.as = thread[t].as /\ r.item = thread[t].item
      /\ r.decision = thread[t].decision
  BY <1>1, <1>3 DEF h
<1> QED BY <1>3, <1>4, <1>5 DEF ReviewSave

LEMMA QueueSaveStep ==
  ASSUME TrustTyped, NEW t \in Threads, QueueSave(t)
  PROVE  /\ TrustStep(t, Calm) /\ thread[t].pc = "queue_save" /\ assurance' = thread[t].as
         /\ thread[t].item \in Items /\ thread[t].decision \in Decisions
         /\ word' = [word EXCEPT ![thread[t].item] = thread[t].decision]
         /\ UNCHANGED <<evidence, approvedOnce, overlap>>
<1>1. AtWork(thread[t]) BY DEF TrustTyped
<1> QED BY <1>1, NothingYet DEF QueueSave, Become, TrustStep, AtWork

LEMMA AgeStep ==
  ASSUME TrustTyped, NEW e \in Evidence, Age(e)
  PROVE  /\ evidence' \in FileSet /\ OnFile(evidence') = OnFile(evidence)
         /\ Approved(evidence') = Approved(evidence)
         /\ \A t \in Threads : ~HoldsEvidence(t)
         /\ UNCHANGED <<assurance, thread, approvedOnce, word, overlap>>
BY DEF TrustTyped, Age, FileSet, OnFile, Approved

LEMMA TrustCrashStep ==
  ASSUME TrustTyped, TrustCrash
  PROVE  /\ thread' \in [Threads -> ThreadSet] /\ \A t \in Threads : thread'[t] = Calm
         /\ evidence' \in {evidence, NoEvidence} /\ assurance' \in {assurance, NoAssurance}
         /\ overlap' \in BOOLEAN
         /\ ~overlap' => ~overlap /\ evidence' = evidence /\ assurance' = assurance
         /\ UNCHANGED <<approvedOnce, word>>
BY NothingYet DEF TrustTyped, TrustCrash, EvidenceNow, AssuranceNow

LEMMA SavedEvidence ==
  ASSUME NEW ev, SaveEvidence(ev)
  PROVE  evidence' = ev /\ approvedOnce' = approvedOnce \cup Approved(ev)
BY DEF SaveEvidence, Approved

---------------------------------------------------------------------------
(***************************************************************************)
(* Trust review: types, and the questionnaires agree with their queue      *)
(***************************************************************************)
LEMMA TypedAfter ==
  ASSUME TrustTyped, NEW t \in Threads, NEW r, TrustStep(t, r), evidence' \in FileSet,
         assurance' \in AssuranceSet, approvedOnce' \subseteq Evidence,
         word' \in [Items -> Decisions \cup {"none"}], overlap' \in BOOLEAN
  PROVE  TrustTyped'
BY DEF TrustTyped, TrustStep

LEMMA TrustTypedStays ==
  ASSUME TrustTyped, AgreeInv, TrNext
  PROVE  TrustTyped'
<1>0. /\ evidence \in FileSet /\ assurance \in AssuranceSet
      /\ approvedOnce \subseteq Evidence /\ word \in [Items -> Decisions \cup {"none"}]
      /\ overlap \in BOOLEAN
      /\ \A t \in Threads : thread[t].ev \in FileSet /\ thread[t].as \in AssuranceSet
  BY DEF TrustTyped, ThreadSet
<1>1. ASSUME NEW t \in Threads, SaveEvidence(thread[t].ev)
      PROVE  evidence' \in FileSet /\ approvedOnce' \subseteq Evidence
  BY <1>0, <1>1, SavedEvidence DEF Approved
<1>2. ASSUME NEW t \in Threads,
             (\E q \in Questionnaires : AskQuestions(t, q)) \/ (\E e \in Briefs : AskWatch(t, e))
      PROVE  TrustTyped'
  <2>1. PICK r : TrustStep(t, r) /\ UNCHANGED files BY <1>2, AskStep
  <2> QED BY <1>0, <2>1, TypedAfter DEF files
<1>3. ASSUME NEW t \in Threads, Packet(t) PROVE TrustTyped'
  <2>1. \E r : /\ TrustStep(t, r) /\ overlap' = (overlap \/ \E u \in Others(t) : HoldsEvidence(u))
               /\ UNCHANGED <<evidence, assurance, approvedOnce, word>>
    BY <1>3, PacketStep
  <2> QED BY <1>0, <2>1, TypedAfter
<1>4. ASSUME NEW t \in Threads, PacketSave(t) PROVE TrustTyped'
  <2>1. PICK r : /\ TrustStep(t, r) /\ SaveEvidence(thread[t].ev)
                 /\ UNCHANGED <<assurance, word, overlap>>
    BY <1>4, PacketSaveStep
  <2> QED BY <1>0, <1>1, <2>1, TypedAfter
<1>5. ASSUME NEW t \in Threads, ReadSupport(t) PROVE TrustTyped'
  <2>1. \E r : TrustStep(t, r) /\ UNCHANGED files BY <1>5, ReadSupportStep
  <2> QED BY <1>0, <2>1, TypedAfter DEF files
<1>6. ASSUME NEW t \in Threads, Build(t) PROVE TrustTyped'
  <2>1. \E r : /\ TrustStep(t, r) /\ overlap' = (overlap \/ \E u \in Others(t) : HoldsAssurance(u))
               /\ UNCHANGED <<evidence, assurance, approvedOnce, word>>
    BY <1>6, BuildStep
  <2> QED BY <1>0, <2>1, TypedAfter
<1>7. ASSUME NEW t \in Threads, BuildSave(t) PROVE TrustTyped'
  <2>1. PICK r : /\ TrustStep(t, r) /\ assurance' = thread[t].as
                 /\ word' = [i \in Items |-> IF i[1] = thread[t].q THEN "none" ELSE word[i]]
                 /\ UNCHANGED <<evidence, approvedOnce, overlap>>
    BY <1>7, BuildSaveStep
  <2>2. word' \in [Items -> Decisions \cup {"none"}] BY <1>0, <2>1
  <2> QED BY <1>0, <2>1, <2>2, TypedAfter
<1>8. ASSUME NEW t \in Threads, Judge(t) PROVE TrustTyped'
  <2>1. PICK r : TrustStep(t, r) /\ UNCHANGED files BY <1>8, JudgeStep
  <2> QED BY <1>0, <2>1, TypedAfter DEF files
<1>9. ASSUME NEW t \in Threads, Collect(t) PROVE TrustTyped'
  <2>1. \E r : /\ TrustStep(t, r) /\ overlap' = (overlap \/ \E u \in Others(t) : HoldsEvidence(u))
               /\ UNCHANGED <<evidence, assurance, approvedOnce, word>>
    BY <1>9, CollectStep
  <2> QED BY <1>0, <2>1, TypedAfter
<1>10. ASSUME NEW t \in Threads, CollectSave(t) \/ MarkSave(t) PROVE TrustTyped'
  <2>1. /\ TrustStep(t, Calm) /\ SaveEvidence(thread[t].ev)
        /\ UNCHANGED <<assurance, word, overlap>>
    BY <1>10, FileSaveStep
  <2> QED BY <1>0, <1>1, <2>1, TypedAfter
<1>11. ASSUME NEW t \in Threads, NEW e \in Evidence,
              NEW d \in {"approve", "stale", "revoke", "draft"}, Mark(t, e, d)
       PROVE  TrustTyped'
  <2>1. \E r : /\ TrustStep(t, r) /\ overlap' = (overlap \/ \E u \in Others(t) : HoldsEvidence(u))
               /\ UNCHANGED <<evidence, assurance, approvedOnce, word>>
    BY <1>11, MarkStep
  <2> QED BY <1>0, <2>1, TypedAfter
<1>12. ASSUME NEW t \in Threads, NEW i \in Items, NEW d \in Decisions, Review(t, i, d)
       PROVE  TrustTyped'
  <2>1. \E r : /\ TrustStep(t, r) /\ overlap' = (overlap \/ \E u \in Others(t) : HoldsAssurance(u))
               /\ UNCHANGED <<evidence, assurance, approvedOnce, word>>
    BY <1>12, ReviewStep
  <2> QED BY <1>0, <2>1, TypedAfter
<1>13. ASSUME NEW t \in Threads, ReviewRead(t) PROVE TrustTyped'
  <2>1. \E r : /\ TrustStep(t, r) /\ overlap' = (overlap \/ \E u \in Others(t) : HoldsEvidence(u))
               /\ UNCHANGED <<evidence, assurance, approvedOnce, word>>
    BY <1>13, ReviewReadStep DEF AgreeInv
  <2> QED BY <1>0, <2>1, TypedAfter
<1>15. ASSUME NEW t \in Threads, ReviewSave(t) PROVE TrustTyped'
  <2>1. PICK r : /\ TrustStep(t, r) /\ SaveEvidence(thread[t].ev)
                 /\ UNCHANGED <<assurance, word, overlap>>
    BY <1>15, ReviewSaveStep
  <2> QED BY <1>0, <1>1, <2>1, TypedAfter
<1>16. ASSUME NEW t \in Threads, QueueSave(t) PROVE TrustTyped'
  <2>1. /\ TrustStep(t, Calm) /\ assurance' = thread[t].as /\ thread[t].decision \in Decisions
        /\ word' = [word EXCEPT ![thread[t].item] = thread[t].decision]
        /\ UNCHANGED <<evidence, approvedOnce, overlap>>
    BY <1>16, QueueSaveStep
  <2>2. word' \in [Items -> Decisions \cup {"none"}] BY <1>0, <2>1
  <2> QED BY <1>0, <2>1, <2>2, TypedAfter
<1>17. ASSUME NEW e \in Evidence, Age(e) PROVE TrustTyped'
  BY <1>17, AgeStep DEF TrustTyped
<1>18. ASSUME TrustCrash PROVE TrustTyped'
  BY <1>18, TrustCrashStep, NothingYet DEF TrustTyped
<1> QED BY <1>2, <1>3, <1>4, <1>5, <1>6, <1>7, <1>8, <1>9, <1>10, <1>11, <1>12, <1>13, <1>15,
           <1>16, <1>17, <1>18 DEF TrNext

Held(answers) ==
    \A n \in Critical : answers[n].state \in {"draft", "open", "stale", "revoked"} => answers[n].required
LEMMA AgreesRolled ==
  ASSUME NEW as \in AssuranceSet, Agrees(as), NEW q \in Questionnaires, NEW answers \in AnswerSet,
         Held(answers)
  PROVE  Agrees(WithAnswers(as, q, answers))
<1> DEFINE new == WithAnswers(as, q, answers)
<1>1. /\ new.packs[q].answers = answers /\ new.packs[q].gate = Rollup(answers)
      /\ \A p \in Questionnaires \ {q} : new.packs[p] = as.packs[p]
      /\ \A i \in Items : i[1] # q => new.queue[i] = as.queue[i]
      /\ \A n \in Questions : /\ new.queue[<<q, n>>].state = answers[n].state
                              /\ new.queue[<<q, n>>].required = answers[n].required
  <2> HIDE DEF new
  <2>1. new = WithAnswers(as, q, answers) BY DEF new
  <2>2. new.packs[q].answers = answers /\ new.packs[q].gate = Rollup(answers)
    BY <2>1, WithAnswersSays
  <2>3. \A p \in Questionnaires \ {q} : new.packs[p] = as.packs[p]
    BY <2>1, WithAnswersSays
  <2>4. \A i \in Items : i[1] # q => new.queue[i] = as.queue[i]
    BY <2>1, WithAnswersSays
  <2>5. \A n \in Questions : /\ new.queue[<<q, n>>].state = answers[n].state
                             /\ new.queue[<<q, n>>].required = answers[n].required
    BY <2>1, WithAnswersSays
  <2> QED BY <2>2, <2>3, <2>4, <2>5
<1>2. \A p \in Questionnaires, n \in Questions : <<p, n>> \in Items /\ <<p, n>>[1] = p BY DEF Items
<1> HIDE DEF new
<1> SUFFICES Agrees(new) BY DEF new
<1>3. ASSUME NEW p \in Questionnaires \ {q}, NEW n \in Questions
      PROVE  new.queue[<<p, n>>] = as.queue[<<p, n>>]
  BY <1>1, <1>2
<1> SUFFICES ASSUME NEW p \in Questionnaires, new.packs[p].gate # "none"
             PROVE  /\ new.packs[p].answers \in AnswerSet
                    /\ new.packs[p].gate = Rollup(new.packs[p].answers)
                    /\ \A n \in Questions :
                         /\ new.queue[<<p, n>>].state = new.packs[p].answers[n].state
                         /\ new.queue[<<p, n>>].required = new.packs[p].answers[n].required
                    /\ Held(new.packs[p].answers)
  BY DEF Agrees, Held
<1>4. CASE p = q BY <1>1, <1>4
<1>5. CASE p # q
  <2>1. new.packs[p] = as.packs[p] BY <1>1, <1>5
  <2>2. /\ as.packs[p].answers \in AnswerSet
        /\ as.packs[p].gate = Rollup(as.packs[p].answers)
        /\ Held(as.packs[p].answers)
    BY <2>1 DEF Agrees, Held
  <2>3. \A n \in Questions :
           /\ as.queue[<<p, n>>].state = as.packs[p].answers[n].state
           /\ as.queue[<<p, n>>].required = as.packs[p].answers[n].required
    BY <2>1 DEF Agrees
  <2> QED BY <1>3, <1>5, <2>1, <2>2, <2>3
<1> QED BY <1>4, <1>5

LEMMA AgreesOneItem ==
  ASSUME NEW as \in AssuranceSet, Agrees(as), NEW i \in Items, NEW new, OneItem(new, as, i)
  PROVE  Agrees(new)
<1>1. \A j \in Items : new.queue[j].state = as.queue[j].state
                       /\ new.queue[j].required = as.queue[j].required
  BY DEF OneItem
<1>2. \A p \in Questionnaires, n \in Questions : <<p, n>> \in Items BY DEF Items
<1>3. new.packs = as.packs BY DEF OneItem
<1> QED BY <1>1, <1>2, <1>3 DEF Agrees

\* A decision leaves every critical answer that is not approved held.
LEMMA AgreesReviewed ==
  ASSUME NEW as \in AssuranceSet, Agrees(as), NEW i \in Items, NEW d \in Decisions,
         as.packs[i[1]].gate # "none"
  PROVE  /\ Reviewed(as, i, d) \in AnswerSet /\ Held(Reviewed(as, i, d))
         /\ Agrees(WithAnswers(as, i[1], Reviewed(as, i, d)))
<1>1. i[1] \in Questionnaires BY DEF Items
<1>2. as.packs[i[1]].answers \in AnswerSet /\ Held(as.packs[i[1]].answers)
  BY <1>1 DEF Agrees, Held
<1> DEFINE new == Reviewed(as, i, d)
<1>3. /\ new \in AnswerSet /\ i[2] \in Questions /\ new[i[2]].state = StateOf(d)
      /\ new[i[2]].required = (d \in {"stale", "revoke"})
      /\ \A n \in Questions \ {i[2]} : new[n] = as.packs[i[1]].answers[n]
  BY <1>2, ReviewedSays
<1> HIDE DEF new
<1>4. StateOf(d) \in {"draft", "open", "stale", "revoked"} => d \in {"stale", "revoke"}
  BY DEF StateOf, MarkOf, Decisions
<1>5. Held(new) BY <1>2, <1>3, <1>4, TrustAssumption DEF Held
<1>6. Agrees(WithAnswers(as, i[1], new)) BY <1>1, <1>3, <1>5, AgreesRolled
<1> QED BY <1>3, <1>5, <1>6 DEF new

LEMMA AgreeAfter ==
  ASSUME TrustTyped, AgreeInv, NEW t \in Threads, NEW r, TrustStep(t, r), Agrees(r.as),
         assurance' = assurance \/ assurance' = thread[t].as
  PROVE  AgreeInv'
<1>1. Agrees(assurance') BY DEF AgreeInv
<1>2. \A u \in Threads : thread'[u] = thread[u] \/ thread'[u] = r BY DEF TrustStep, TrustTyped
<1>3. \A u \in Threads : Agrees(thread'[u].as) BY <1>2 DEF AgreeInv
<1>4. AgreeInv' <=> Agrees(assurance') /\ \A u \in Threads : Agrees(thread'[u].as)
  BY DEF AgreeInv, Agrees
<1> QED BY <1>1, <1>3, <1>4

LEMMA AgreeStays ==
  ASSUME TrustTyped, AgreeInv, TrNext
  PROVE  AgreeInv'
<1>0. /\ Agrees(NoAssurance) /\ Agrees(assurance)
      /\ \A t \in Threads : Agrees(thread[t].as) /\ thread[t].as \in AssuranceSet
                            /\ thread[t].ev \in FileSet
  BY NothingYet DEF AgreeInv, Agrees, TrustTyped, ThreadSet
<1>1. ASSUME NEW t \in Threads, NEW as \in AssuranceRead(t) PROVE Agrees(as) /\ as \in AssuranceSet
  BY <1>0, AssuranceReadIs
<1>2. ASSUME NEW t \in Threads,
             (\E q \in Questionnaires : AskQuestions(t, q)) \/ (\E e \in Briefs : AskWatch(t, e))
      PROVE  AgreeInv'
  <2>1. PICK r : TrustStep(t, r) /\ r.as = NoAssurance /\ assurance' = assurance
    BY <1>2, AskStep DEF files
  <2> QED BY <1>0, <2>1, AgreeAfter
<1>3. ASSUME NEW t \in Threads, Packet(t) PROVE AgreeInv'
  <2>1. \E r : TrustStep(t, r) /\ r.as = thread[t].as /\ assurance' = assurance BY <1>3, PacketStep
  <2> QED BY <1>0, <2>1, AgreeAfter
<1>4. ASSUME NEW t \in Threads, PacketSave(t) PROVE AgreeInv'
  <2>1. \E r : TrustStep(t, r) /\ r.as = thread[t].as /\ assurance' = assurance
    BY <1>4, PacketSaveStep
  <2> QED BY <1>0, <2>1, AgreeAfter
<1>5. ASSUME NEW t \in Threads, ReadSupport(t) PROVE AgreeInv'
  <2>1. \E r : TrustStep(t, r) /\ r.as = thread[t].as /\ assurance' = assurance
    BY <1>5, ReadSupportStep DEF files
  <2> QED BY <1>0, <2>1, AgreeAfter
<1>6. ASSUME NEW t \in Threads, Build(t) PROVE AgreeInv'
  <2>1. \E as \in AssuranceRead(t) : \E r :
            /\ TrustStep(t, r) /\ r.ev = thread[t].ev /\ r.q \in Questionnaires
            /\ r.as = WithAnswers(as, r.q, Answered(r.ev)) /\ assurance' = assurance
    BY <1>6, BuildStep
  <2>2. PICK as \in AssuranceRead(t) : \E r :
            /\ TrustStep(t, r) /\ r.ev = thread[t].ev /\ r.q \in Questionnaires
            /\ r.as = WithAnswers(as, r.q, Answered(r.ev)) /\ assurance' = assurance
    BY <2>1
  <2>3. PICK r :
            /\ TrustStep(t, r) /\ r.ev = thread[t].ev /\ r.q \in Questionnaires
            /\ r.as = WithAnswers(as, r.q, Answered(r.ev)) /\ assurance' = assurance
    BY <2>2
  <2>4. r.ev \in FileSet BY <1>0, <2>3
  <2>5. Answered(r.ev) \in AnswerSet /\ Held(Answered(r.ev))
    BY <2>4, AnsweredSays, TrustAssumption DEF Held
  <2>6. Agrees(r.as) BY <1>1, <2>3, <2>5, AgreesRolled
  <2> QED BY <2>3, <2>6, AgreeAfter
<1>7. ASSUME NEW t \in Threads, BuildSave(t) PROVE AgreeInv'
  <2>1. \E r : TrustStep(t, r) /\ r.as = NoAssurance /\ assurance' = thread[t].as
    BY <1>7, BuildSaveStep
  <2> QED BY <1>0, <2>1, AgreeAfter
<1>8. ASSUME NEW t \in Threads, Judge(t) PROVE AgreeInv'
  <2>1. \E r : TrustStep(t, r) /\ r.as \in {NoAssurance, thread[t].as} /\ assurance' = assurance
    BY <1>8, JudgeStep DEF files
  <2> QED BY <1>0, <2>1, AgreeAfter
<1>9. ASSUME NEW t \in Threads, Collect(t) PROVE AgreeInv'
  <2>1. \E r : TrustStep(t, r) /\ r.as = thread[t].as /\ assurance' = assurance BY <1>9, CollectStep
  <2> QED BY <1>0, <2>1, AgreeAfter
<1>10. ASSUME NEW t \in Threads, CollectSave(t) \/ MarkSave(t) PROVE AgreeInv'
  <2>1. TrustStep(t, Calm) /\ assurance' = assurance BY <1>10, FileSaveStep
  <2>2. Agrees(Calm.as) BY <1>0, NothingYet
  <2> QED BY <2>1, <2>2, AgreeAfter
<1>11. ASSUME NEW t \in Threads, NEW e \in Evidence,
              NEW d \in {"approve", "stale", "revoke", "draft"}, Mark(t, e, d)
       PROVE  AgreeInv'
  <2>1. \E r : TrustStep(t, r) /\ r.as = NoAssurance /\ assurance' = assurance BY <1>11, MarkStep
  <2> QED BY <1>0, <2>1, AgreeAfter
<1>12. ASSUME NEW t \in Threads, NEW i \in Items, NEW d \in Decisions, Review(t, i, d)
       PROVE  AgreeInv'
  <2>1. \E as \in AssuranceRead(t) : \E r : TrustStep(t, r) /\ r.as = as /\ assurance' = assurance
    BY <1>12, ReviewStep
  <2> QED BY <1>1, <2>1, AgreeAfter
<1>13. ASSUME NEW t \in Threads, ReviewRead(t) PROVE AgreeInv'
  <2>1. \E r : LET h == thread[t]
                   i == h.item
               IN /\ TrustStep(t, r) /\ i \in Items /\ h.decision \in Decisions
                  /\ h.as.packs[i[1]].gate # "none"
                  /\ OneItem(r.as, WithAnswers(h.as, i[1], Reviewed(h.as, i, h.decision)), i)
                  /\ assurance' = assurance
    BY <1>0, <1>13, ReviewReadStep
  <2> DEFINE h == thread[t]
             i == h.item
             d == h.decision
             rolled == WithAnswers(h.as, i[1], Reviewed(h.as, i, d))
  <2>2. PICK r : /\ TrustStep(t, r) /\ i \in Items /\ d \in Decisions
                 /\ h.as.packs[i[1]].gate # "none" /\ OneItem(r.as, rolled, i)
                 /\ assurance' = assurance
    BY <2>1
  <2>3. /\ Reviewed(h.as, i, d) \in AnswerSet /\ Agrees(rolled)
    BY <1>0, <2>2, AgreesReviewed
  <2>4. rolled \in AssuranceSet
    <3>1. i[1] \in Questionnaires BY <2>2 DEF Items
    <3> QED BY <1>0, <2>3, <3>1, WithAnswersSays
  <2> HIDE DEF rolled, h, i
  <2>5. Agrees(r.as) BY <2>2, <2>3, <2>4, AgreesOneItem
  <2> QED BY <2>2, <2>5, AgreeAfter
<1>15. ASSUME NEW t \in Threads, ReviewSave(t) PROVE AgreeInv'
  <2>1. \E r : TrustStep(t, r) /\ r.as = thread[t].as /\ assurance' = assurance
    BY <1>15, ReviewSaveStep
  <2> QED BY <1>0, <2>1, AgreeAfter
<1>16. ASSUME NEW t \in Threads, QueueSave(t) PROVE AgreeInv'
  <2>1. TrustStep(t, Calm) /\ assurance' = thread[t].as BY <1>16, QueueSaveStep
  <2>2. Agrees(Calm.as) BY <1>0, NothingYet
  <2> QED BY <2>1, <2>2, AgreeAfter
<1>17. ASSUME NEW e \in Evidence, Age(e) PROVE AgreeInv'
  BY <1>17, AgeStep DEF AgreeInv, Agrees
<1>18. ASSUME TrustCrash PROVE AgreeInv'
  <2>1. assurance' \in {assurance, NoAssurance} /\ \A t \in Threads : thread'[t] = Calm
    BY <1>18, TrustCrashStep
  <2>2. Agrees(Calm.as) /\ Agrees(NoAssurance) BY <1>0, NothingYet
  <2>3. Agrees(assurance') BY <1>0, <2>1, <2>2 DEF AgreeInv
  <2>4. \A t \in Threads : Agrees(thread'[t].as) BY <2>1, <2>2
  <2> QED BY <2>3, <2>4 DEF AgreeInv, Agrees
<1> QED BY <1>2, <1>3, <1>4, <1>5, <1>6, <1>7, <1>8, <1>9, <1>10, <1>11, <1>12, <1>13, <1>15,
           <1>16, <1>17, <1>18 DEF TrNext

---------------------------------------------------------------------------
(***************************************************************************)
(* Trust review: an approved answer rests on evidence once approved        *)
(***************************************************************************)
LEMMA KeyedGrows ==
  ASSUME NEW as, NEW F, NEW G, F \subseteq G
  PROVE  (Keyed(as, F) => Keyed(as, G)) /\ (Sound(as, F) => Sound(as, G))
BY DEF Keyed, Sound
LEMMA KeyedNothing ==
  ASSUME NEW F
  PROVE  Keyed(NoAssurance, F) /\ Sound(NoAssurance, F)
BY NothingYet DEF Keyed, Sound

\* A questionnaire answered anew from evidence that is on file.
LEMMA RolledKeyed ==
  ASSUME NEW as \in AssuranceSet, NEW q \in Questionnaires, NEW answers \in AnswerSet,
         NEW new, new = WithAnswers(as, q, answers), NEW F, NEW G, Keyed(as, F), Sound(as, G),
         \A n \in Questions : answers[n].key \in F \cup {"none"},
         \A n \in Questions : answers[n].state = "approved" => answers[n].key \in G \cup {"none"}
  PROVE  Keyed(new, F) /\ Sound(new, G)
<1>1. new.packs[q].answers = answers BY WithAnswersSays
<1>2. \A p \in Questionnaires \ {q} : new.packs[p] = as.packs[p] BY WithAnswersSays
<1>3. Keyed(new, F) BY <1>1, <1>2 DEF Keyed
<1>4. Sound(new, G) BY <1>1, <1>2 DEF Sound
<1> QED BY <1>3, <1>4

LEMMA GroundedGrows ==
  ASSUME NEW r, NEW ev, NEW once, NEW new, NEW more, Grounded(r, ev, once),
         OnFile(ev) \subseteq OnFile(new), once \subseteq more,
         r.pc \notin EvidencePlaces \/ OnFile(new) \subseteq OnFile(ev)
  PROVE  Grounded(r, new, more)
<1>1. Keyed(r.as, OnFile(new)) BY KeyedGrows DEF Grounded
<1>2. Sound(r.as, more \cup Approved(r.ev))
  <2>1. once \cup Approved(r.ev) \subseteq more \cup Approved(r.ev) OBVIOUS
  <2> QED BY <2>1, KeyedGrows DEF Grounded
<1> QED BY <1>1, <1>2 DEF Grounded

LEMMA HoldersOf ==
  \A t \in Threads : /\ HoldsEvidence(t) <=> thread[t].pc \in EvidencePlaces
                     /\ HoldsAssurance(t) <=> thread[t].pc \in AssurancePlaces
BY DEF HoldsEvidence, HoldsAssurance, EvidencePlaces, AssurancePlaces

\* A thread that is grounded where it comes to, and alone if it holds the evidence.
LEMMA EvidenceAfter ==
  ASSUME TrustTyped, EvidenceInv, NEW t \in Threads, NEW r, TrustStep(t, r), overlap => overlap',
         \/ UNCHANGED <<evidence, approvedOnce>>
         \/ SaveEvidence(thread[t].ev) /\ thread[t].pc \in EvidencePlaces,
         \/ assurance' = assurance
         \/ /\ assurance' = thread[t].as
            /\ ~overlap => Approved(thread[t].ev) \subseteq approvedOnce,
         ~overlap' => Grounded(r, evidence', approvedOnce'),
         ~overlap' /\ r.pc \in EvidencePlaces =>
            thread[t].pc \in EvidencePlaces \/ \A u \in Threads \ {t} : ~HoldsEvidence(u)
  PROVE  EvidenceInv'
<1>1. Approved(evidence') \subseteq approvedOnce' /\ approvedOnce \subseteq approvedOnce'
  BY SavedEvidence DEF EvidenceInv
<1>2. ASSUME ~overlap'
      PROVE  /\ \A u, v \in Threads : HoldsEvidence(u)' /\ HoldsEvidence(v)' => u = v
             /\ Keyed(assurance', OnFile(evidence')) /\ Sound(assurance', approvedOnce')
             /\ \A u \in Threads : Grounded(thread'[u], evidence', approvedOnce')
  <2>0. /\ ~overlap /\ \A u, v \in Threads : HoldsEvidence(u) /\ HoldsEvidence(v) => u = v
        /\ Keyed(assurance, OnFile(evidence)) /\ Sound(assurance, approvedOnce)
        /\ \A u \in Threads : Grounded(thread[u], evidence, approvedOnce)
    BY <1>2 DEF EvidenceInv
  <2>1. OnFile(evidence) \subseteq OnFile(evidence')
    BY <2>0, SavedEvidence DEF Grounded
  <2>2. thread'[t] = r /\ \A u \in Threads \ {t} : thread'[u] = thread[u]
    BY DEF TrustStep, TrustTyped
  <2>3. \A u \in Threads : HoldsEvidence(u)' <=> thread'[u].pc \in EvidencePlaces
    BY DEF HoldsEvidence, EvidencePlaces
  <2>4. \A u, v \in Threads : HoldsEvidence(u)' /\ HoldsEvidence(v)' => u = v
    BY <1>2, <2>0, <2>2, <2>3, HoldersOf
  <2>5. ASSUME NEW u \in Threads PROVE Grounded(thread'[u], evidence', approvedOnce')
    <3>1. CASE u = t BY <1>2, <2>2, <3>1
    <3>2. CASE u # t
      <4>1. Grounded(thread[u], evidence, approvedOnce) /\ thread'[u] = thread[u] BY <2>0, <2>2, <3>2
      <4>2. thread[u].pc \notin EvidencePlaces \/ evidence' = evidence BY <2>0, <3>2, HoldersOf
      <4> QED BY <1>1, <2>1, <4>1, <4>2, GroundedGrows
    <3> QED BY <3>1, <3>2
  <2>6. Keyed(assurance', OnFile(evidence'))
    <3>1. Keyed(thread[t].as, OnFile(evidence)) BY <2>0 DEF Grounded
    <3>2. Keyed(assurance', OnFile(evidence)) BY <2>0, <3>1
    <3> QED BY <2>1, <3>2, KeyedGrows
  <2>7. Sound(assurance', approvedOnce')
    <3>1. CASE assurance' = assurance BY <1>1, <2>0, <3>1, KeyedGrows
    <3>2. CASE assurance' = thread[t].as /\ Approved(thread[t].ev) \subseteq approvedOnce
      <4>1. approvedOnce \cup Approved(thread[t].ev) \subseteq approvedOnce' BY <1>1, <3>2
      <4>2. Sound(thread[t].as, approvedOnce \cup Approved(thread[t].ev)) BY <2>0 DEF Grounded
      <4> QED BY <3>2, <4>1, <4>2, KeyedGrows
    <3> QED BY <2>0, <3>1, <3>2
  <2> QED BY <2>4, <2>5, <2>6, <2>7
<1> QED BY <1>1, <1>2 DEF EvidenceInv, Approved, OnFile, Keyed, Sound, Grounded

\* A thread with no questionnaires in hand, where evidence only has to be on file.
LEMMA GroundedIdle ==
  ASSUME NEW r, NEW ev, NEW once, r.as = NoAssurance, r.pc \notin AssurancePlaces,
         r.pc \in EvidencePlaces => OnFile(ev) \subseteq OnFile(r.ev),
         r.pc = "build" => OnFile(r.ev) \subseteq OnFile(ev) /\ Approved(r.ev) \subseteq once
  PROVE  Grounded(r, ev, once)
BY KeyedNothing DEF Grounded, AssurancePlaces

\* What is read while nobody holds the file is the file.
LEMMA ReadAlone ==
  ASSUME TrustTyped, NEW t \in Threads, NEW ev \in EvidenceRead(t),
         overlap' = (overlap \/ \E u \in Others(t) : HoldsEvidence(u)), ~overlap'
  PROVE  ev = evidence /\ ~overlap /\ \A u \in Threads \ {t} : ~HoldsEvidence(u)
BY EvidenceReadIs DEF Others
LEMMA ReadAloneToo ==
  ASSUME TrustTyped, NEW t \in Threads, NEW as \in AssuranceRead(t),
         overlap' = (overlap \/ \E u \in Others(t) : HoldsAssurance(u)), ~overlap'
  PROVE  as = assurance /\ ~overlap /\ \A u \in Threads \ {t} : ~HoldsAssurance(u)
BY AssuranceReadIs DEF Others

LEMMA ReviewReadGrounded ==
  ASSUME TrustTyped, AgreeInv, EvidenceInv, NEW t \in Threads, ReviewRead(t)
  PROVE  EvidenceInv'
<1> DEFINE h == thread[t]
           i == h.item
           answers == Reviewed(h.as, i, h.decision)
           rolled == WithAnswers(h.as, i[1], answers)
           key == answers[i[2]].key
<1>0. Agrees(h.as) /\ h.as \in AssuranceSet BY DEF AgreeInv, TrustTyped, ThreadSet
<1>1. PICK ev \in EvidenceRead(t) : \E r :
         /\ TrustStep(t, r) /\ h.pc = "review_read" /\ i \in Items /\ h.decision \in Decisions
         /\ h.as.packs[i[1]].gate # "none" /\ r.pc = "review_save"
         /\ OnFile(ev) \subseteq OnFile(r.ev)
         /\ (h.decision = "approve" /\ key \in OnFile(ev) \ {"none"} => key \in Approved(r.ev))
         /\ OneItem(r.as, rolled, i)
         /\ overlap' = (overlap \/ \E u \in Others(t) : HoldsEvidence(u))
         /\ UNCHANGED <<evidence, assurance, approvedOnce>>
  BY <1>0, ReviewReadStep
<1>2. PICK r :
         /\ TrustStep(t, r) /\ h.pc = "review_read" /\ i \in Items /\ h.decision \in Decisions
         /\ h.as.packs[i[1]].gate # "none" /\ r.pc = "review_save"
         /\ OnFile(ev) \subseteq OnFile(r.ev)
         /\ (h.decision = "approve" /\ key \in OnFile(ev) \ {"none"} => key \in Approved(r.ev))
         /\ OneItem(r.as, rolled, i)
         /\ overlap' = (overlap \/ \E u \in Others(t) : HoldsEvidence(u))
         /\ UNCHANGED <<evidence, assurance, approvedOnce>>
  BY <1>1
<1>3. overlap => overlap' BY <1>2
<1>4. ASSUME ~overlap'
      PROVE  Grounded(r, evidence, approvedOnce) /\ \A u \in Threads \ {t} : ~HoldsEvidence(u)
  <2>1. ev = evidence /\ ~overlap /\ \A u \in Threads \ {t} : ~HoldsEvidence(u)
    BY <1>2, <1>4, ReadAlone
  <2>2. Grounded(h, evidence, approvedOnce) BY <2>1 DEF EvidenceInv
  <2>3. i[1] \in Questionnaires /\ i[2] \in Questions /\ h.as.packs[i[1]].answers \in AnswerSet
    BY <1>0, <1>2 DEF Items, Agrees
  <2> DEFINE old == h.as.packs[i[1]].answers
  <2>4. /\ answers \in AnswerSet /\ answers[i[2]].state = StateOf(h.decision)
        /\ key = old[i[2]].key /\ \A n \in Questions \ {i[2]} : answers[n] = old[n]
    BY <1>0, <1>2, <2>3, ReviewedSays
  <2>6. r.as.packs = rolled.packs BY <1>2 DEF OneItem
  <2>7. /\ \A n \in Questions : old[n].key \in OnFile(evidence) \cup {"none"}
        /\ \A n \in Questions : old[n].state = "approved" => old[n].key \in approvedOnce \cup {"none"}
    BY <1>2, <2>2, <2>3 DEF Grounded, Keyed, Sound
  <2> DEFINE F == OnFile(evidence)  G == approvedOnce \cup Approved(r.ev)
  <2>8. \A n \in Questions : answers[n].key \in F \cup {"none"}
    BY <2>3, <2>4, <2>7
  <2>9. \A n \in Questions : answers[n].state = "approved"
                             => answers[n].key \in G \cup {"none"}
    <3>1. StateOf(h.decision) = "approved" => h.decision = "approve"
      BY <1>2 DEF StateOf, MarkOf, Decisions
    <3>2. answers[i[2]].state = "approved" => key \in Approved(r.ev) \cup {"none"}
      BY <1>2, <2>1, <2>3, <2>4, <2>8, <3>1
    <3> HIDE DEF answers, old
    <3>3. ASSUME NEW n \in Questions \ {i[2]}, answers[n].state = "approved"
          PROVE  answers[n].key \in approvedOnce \cup {"none"}
      BY <2>4, <2>7, <3>3
    <3> QED BY <3>2, <3>3
  <2>10. Keyed(rolled, F) /\ Sound(rolled, G)
    <3> DEFINE q == i[1]  as == h.as
    <3>1. rolled = WithAnswers(as, q, answers) OBVIOUS
    <3>2. as \in AssuranceSet /\ q \in Questionnaires /\ answers \in AnswerSet BY <1>0, <2>3, <2>4
    <3>3. Keyed(as, F)  BY <2>2 DEF Grounded
    <3>4. Sound(as, G)
      <4>1. Sound(h.as, approvedOnce) BY <1>2, <2>2 DEF Grounded, Sound
      <4>2. approvedOnce \subseteq G OBVIOUS
      <4> QED BY <4>1, <4>2, KeyedGrows
    <3> HIDE DEF h, i, answers, q, as, rolled, F, G
    <3> QED BY <2>8, <2>9, <3>1, <3>2, <3>3, <3>4, RolledKeyed
  <2>11. Keyed(r.as, F) /\ Sound(r.as, G) BY <2>6, <2>10 DEF Keyed, Sound
  <2> QED BY <1>2, <2>1, <2>10, <2>11 DEF Grounded, AssurancePlaces
<1> QED BY <1>2, <1>3, <1>4, EvidenceAfter

LEMMA BuildGrounded ==
  ASSUME TrustTyped, AgreeInv, EvidenceInv, NEW t \in Threads, Build(t)
  PROVE  EvidenceInv'
<1>1. PICK as \in AssuranceRead(t) : \E r :
         /\ TrustStep(t, r) /\ thread[t].pc = "build" /\ r.pc = "build_save"
         /\ r.ev = thread[t].ev /\ r.q \in Questionnaires
         /\ r.as = WithAnswers(as, r.q, Answered(r.ev))
         /\ overlap' = (overlap \/ \E u \in Others(t) : HoldsAssurance(u))
         /\ UNCHANGED <<evidence, assurance, approvedOnce>>
  BY BuildStep
<1>2. PICK r :
         /\ TrustStep(t, r) /\ thread[t].pc = "build" /\ r.pc = "build_save"
         /\ r.ev = thread[t].ev /\ r.q \in Questionnaires
         /\ r.as = WithAnswers(as, r.q, Answered(r.ev))
         /\ overlap' = (overlap \/ \E u \in Others(t) : HoldsAssurance(u))
         /\ UNCHANGED <<evidence, assurance, approvedOnce>>
  BY <1>1
<1>3. overlap => overlap' BY <1>2
<1>4. ASSUME ~overlap' PROVE Grounded(r, evidence, approvedOnce)
  <2>1. as = assurance /\ ~overlap BY <1>2, <1>4, ReadAloneToo
  <2>2. /\ Keyed(as, OnFile(evidence)) /\ Sound(as, approvedOnce)
        /\ Grounded(thread[t], evidence, approvedOnce)
    BY <2>1 DEF EvidenceInv
  <2>3. OnFile(r.ev) \subseteq OnFile(evidence) /\ Approved(r.ev) \subseteq approvedOnce
    BY <1>2, <2>2 DEF Grounded
  <2>4. r.ev \in FileSet /\ as \in AssuranceSet BY <1>2, AssuranceReadIs DEF TrustTyped, ThreadSet
  <2> DEFINE answers == Answered(r.ev)
  <2>5. /\ answers \in AnswerSet
        /\ \A n \in Questions : /\ answers[n].key \in OnFile(r.ev) \cup {"none"}
                                /\ answers[n].state = "approved"
                                     => answers[n].key \in Approved(r.ev) \cup {"none"}
    BY <2>4, AnsweredSays
  <2> HIDE DEF answers
  <2> DEFINE q == r.q  rolled == r.as  F == OnFile(evidence)  G == approvedOnce \cup Approved(r.ev)
  <2>8. Keyed(rolled, F) /\ Sound(rolled, G)
    <3>1. rolled = WithAnswers(as, q, answers) BY <1>2 DEF answers
    <3>2. q \in Questionnaires BY <1>2
    <3>3. Keyed(as, F) BY <2>2
    <3>4. Sound(as, G)
      <4>1. approvedOnce \subseteq G OBVIOUS
      <4> QED BY <2>2, <4>1, KeyedGrows
    <3>5. \A n \in Questions : answers[n].key \in F \cup {"none"} BY <2>3, <2>5
    <3>6. \A n \in Questions : answers[n].state = "approved" => answers[n].key \in G \cup {"none"}
      BY <2>3, <2>5
    <3> HIDE DEF q, rolled, F, G
    <3> QED BY <2>4, <2>5, <3>1, <3>2, <3>3, <3>4, <3>5, <3>6, RolledKeyed
  <2> QED BY <1>2, <2>3, <2>8 DEF Grounded, EvidencePlaces, AssurancePlaces
<1>5. r.pc \notin EvidencePlaces BY <1>2 DEF EvidencePlaces
<1> QED BY <1>2, <1>3, <1>4, <1>5, EvidenceAfter

LEMMA ReviewSaveGrounded ==
  ASSUME TrustTyped, EvidenceInv, NEW t \in Threads, ReviewSave(t)
  PROVE  EvidenceInv'
<1>1. PICK r : /\ TrustStep(t, r) /\ thread[t].pc = "review_save" /\ r.pc = "queue_save"
               /\ r.ev = NoEvidence /\ r.as = thread[t].as /\ SaveEvidence(thread[t].ev)
               /\ UNCHANGED <<assurance, overlap>>
  BY ReviewSaveStep
<1>2. evidence' = thread[t].ev /\ approvedOnce' = approvedOnce \cup Approved(thread[t].ev)
  BY <1>1, SavedEvidence
<1>3. thread[t].pc \in EvidencePlaces /\ r.pc \notin EvidencePlaces BY <1>1 DEF EvidencePlaces
<1>4. ASSUME ~overlap PROVE Grounded(r, evidence', approvedOnce')
  <2>1. Grounded(thread[t], evidence, approvedOnce) BY <1>4 DEF EvidenceInv
  <2>2. OnFile(evidence) \subseteq OnFile(evidence') BY <1>2, <1>3, <2>1 DEF Grounded
  <2>3. Keyed(r.as, OnFile(evidence')) BY <1>1, <2>1, <2>2, KeyedGrows DEF Grounded
  <2>4. Sound(r.as, approvedOnce' \cup Approved(r.ev))
    <3>1. Sound(r.as, approvedOnce') BY <1>1, <1>2, <2>1 DEF Grounded
    <3>2. approvedOnce' \subseteq approvedOnce' \cup Approved(r.ev) OBVIOUS
    <3> QED BY <3>1, <3>2, KeyedGrows
  <2> QED BY <1>1, <1>3, <2>3, <2>4, NothingYet DEF Grounded, AssurancePlaces
<1> QED BY <1>1, <1>3, <1>4, EvidenceAfter

LEMMA EvidenceStays ==
  ASSUME TrustTyped, AgreeInv, EvidenceInv, TrNext
  PROVE  EvidenceInv'
<1>1. ASSUME NEW t \in Threads,
             (\E q \in Questionnaires : AskQuestions(t, q)) \/ (\E e \in Briefs : AskWatch(t, e))
      PROVE  EvidenceInv'
  <2>1. PICK r : /\ TrustStep(t, r) /\ r.pc = "packet" /\ r.ev = NoEvidence /\ r.as = NoAssurance
                 /\ UNCHANGED <<evidence, assurance, approvedOnce, overlap>>
    BY <1>1, AskStep DEF files
  <2>2. r.pc \notin EvidencePlaces /\ r.pc \notin AssurancePlaces
    BY <2>1 DEF EvidencePlaces, AssurancePlaces
  <2> QED BY <2>1, <2>2, GroundedIdle, EvidenceAfter
<1>2. ASSUME NEW t \in Threads, Packet(t) PROVE EvidenceInv'
  <2>1. PICK ev \in EvidenceRead(t) : \E r :
            /\ TrustStep(t, r) /\ thread[t].pc = "packet" /\ r.pc \in {"packet_save", "support", "deliver"}
            /\ r.ev = ev /\ r.as = thread[t].as
            /\ overlap' = (overlap \/ \E u \in Others(t) : HoldsEvidence(u))
            /\ UNCHANGED <<evidence, assurance, approvedOnce>>
    BY <1>2, PacketStep
  <2>2. PICK r :
            /\ TrustStep(t, r) /\ thread[t].pc = "packet" /\ r.pc \in {"packet_save", "support", "deliver"}
            /\ r.ev = ev /\ r.as = thread[t].as
            /\ overlap' = (overlap \/ \E u \in Others(t) : HoldsEvidence(u))
            /\ UNCHANGED <<evidence, assurance, approvedOnce>>
    BY <2>1
  <2>3. overlap => overlap' BY <2>2
  <2>4. ASSUME ~overlap'
        PROVE  Grounded(r, evidence, approvedOnce) /\ \A u \in Threads \ {t} : ~HoldsEvidence(u)
    <3>1. ev = evidence /\ ~overlap /\ \A u \in Threads \ {t} : ~HoldsEvidence(u)
      BY <2>2, <2>4, ReadAlone
    <3>2. r.as = NoAssurance BY <2>2, <3>1 DEF EvidenceInv, Grounded, AssurancePlaces
    <3> QED BY <2>2, <3>1, <3>2, GroundedIdle DEF AssurancePlaces
  <2> QED BY <2>2, <2>3, <2>4, EvidenceAfter
<1>3. ASSUME NEW t \in Threads, PacketSave(t) PROVE EvidenceInv'
  <2>1. PICK r : /\ TrustStep(t, r) /\ thread[t].pc = "packet_save" /\ r.pc \in {"support", "deliver"}
                 /\ r.as = thread[t].as /\ SaveEvidence(thread[t].ev) /\ UNCHANGED <<assurance, overlap>>
    BY <1>3, PacketSaveStep
  <2>2. ASSUME ~overlap PROVE Grounded(r, evidence', approvedOnce')
    <3>1. r.as = NoAssurance BY <2>1, <2>2 DEF EvidenceInv, Grounded, AssurancePlaces
    <3> QED BY <2>1, <3>1, GroundedIdle DEF AssurancePlaces, EvidencePlaces
  <2>3. thread[t].pc \in EvidencePlaces BY <2>1 DEF EvidencePlaces
  <2> QED BY <2>1, <2>2, <2>3, EvidenceAfter
<1>4. ASSUME NEW t \in Threads, ReadSupport(t) PROVE EvidenceInv'
  <2>1. PICK ev \in EvidenceRead(t) : \E r :
            /\ TrustStep(t, r) /\ thread[t].pc = "support" /\ r.pc = "build"
            /\ r.ev = ev /\ r.as = thread[t].as
            /\ UNCHANGED <<evidence, assurance, approvedOnce, overlap>>
    BY <1>4, ReadSupportStep DEF files
  <2>2. PICK r :
            /\ TrustStep(t, r) /\ thread[t].pc = "support" /\ r.pc = "build"
            /\ r.ev = ev /\ r.as = thread[t].as
            /\ UNCHANGED <<evidence, assurance, approvedOnce, overlap>>
    BY <2>1
  <2>3. OnFile(ev) \subseteq OnFile(evidence) /\ Approved(ev) \subseteq approvedOnce
    BY EvidenceReadIs, NothingYet DEF EvidenceInv
  <2>4. r.pc \notin EvidencePlaces /\ r.pc \notin AssurancePlaces
    BY <2>2 DEF EvidencePlaces, AssurancePlaces
  <2>5. ASSUME ~overlap PROVE Grounded(r, evidence, approvedOnce)
    <3>1. r.as = NoAssurance BY <2>2, <2>5 DEF EvidenceInv, Grounded, AssurancePlaces
    <3> QED BY <2>2, <2>3, <2>4, <3>1, GroundedIdle
  <2> QED BY <2>2, <2>4, <2>5, EvidenceAfter
<1>5. ASSUME NEW t \in Threads, BuildSave(t) PROVE EvidenceInv'
  <2>1. PICK r : /\ TrustStep(t, r) /\ thread[t].pc = "build_save" /\ r.pc = "deliver"
                 /\ r.ev = NoEvidence /\ r.as = NoAssurance /\ assurance' = thread[t].as
                 /\ UNCHANGED <<evidence, approvedOnce, overlap>>
    BY <1>5, BuildSaveStep
  <2>2. ~overlap => Approved(thread[t].ev) \subseteq approvedOnce
    BY <2>1 DEF EvidenceInv, Grounded
  <2>3. r.pc \notin EvidencePlaces /\ r.pc \notin AssurancePlaces
    BY <2>1 DEF EvidencePlaces, AssurancePlaces
  <2> QED BY <2>1, <2>2, <2>3, GroundedIdle, EvidenceAfter
<1>6. ASSUME NEW t \in Threads, Judge(t) PROVE EvidenceInv'
  <2>1. PICK r : /\ TrustStep(t, r) /\ thread[t].pc = "deliver" /\ r.pc \in {"idle", "remember"}
                 /\ r.as \in {NoAssurance, thread[t].as}
                 /\ UNCHANGED <<evidence, assurance, approvedOnce, overlap>>
    BY <1>6, JudgeStep DEF files
  <2>2. r.pc \notin EvidencePlaces /\ r.pc \notin AssurancePlaces
    BY <2>1 DEF EvidencePlaces, AssurancePlaces
  <2>3. ASSUME ~overlap PROVE Grounded(r, evidence, approvedOnce)
    <3>1. r.as = NoAssurance BY <2>1, <2>3 DEF EvidenceInv, Grounded, AssurancePlaces
    <3> QED BY <2>1, <2>2, <3>1, GroundedIdle
  <2> QED BY <2>1, <2>2, <2>3, EvidenceAfter
<1>7. ASSUME NEW t \in Threads, Collect(t) PROVE EvidenceInv'
  <2>1. PICK ev \in EvidenceRead(t) : \E r :
            /\ TrustStep(t, r) /\ thread[t].pc = "remember" /\ r.pc = "remember_save"
            /\ OnFile(ev) \subseteq OnFile(r.ev) /\ r.as = thread[t].as
            /\ overlap' = (overlap \/ \E u \in Others(t) : HoldsEvidence(u))
            /\ UNCHANGED <<evidence, assurance, approvedOnce>>
    BY <1>7, CollectStep
  <2>2. PICK r :
            /\ TrustStep(t, r) /\ thread[t].pc = "remember" /\ r.pc = "remember_save"
            /\ OnFile(ev) \subseteq OnFile(r.ev) /\ r.as = thread[t].as
            /\ overlap' = (overlap \/ \E u \in Others(t) : HoldsEvidence(u))
            /\ UNCHANGED <<evidence, assurance, approvedOnce>>
    BY <2>1
  <2>3. overlap => overlap' BY <2>2
  <2>4. ASSUME ~overlap'
        PROVE  Grounded(r, evidence, approvedOnce) /\ \A u \in Threads \ {t} : ~HoldsEvidence(u)
    <3>1. ev = evidence /\ ~overlap /\ \A u \in Threads \ {t} : ~HoldsEvidence(u)
      BY <2>2, <2>4, ReadAlone
    <3>2. r.as = NoAssurance BY <2>2, <3>1 DEF EvidenceInv, Grounded, AssurancePlaces
    <3> QED BY <2>2, <3>1, <3>2, GroundedIdle DEF AssurancePlaces
  <2> QED BY <2>2, <2>3, <2>4, EvidenceAfter
<1>8. ASSUME NEW t \in Threads, CollectSave(t) \/ MarkSave(t) PROVE EvidenceInv'
  <2>1. /\ TrustStep(t, Calm) /\ thread[t].pc \in EvidencePlaces /\ SaveEvidence(thread[t].ev)
        /\ UNCHANGED <<assurance, overlap>>
    BY <1>8, FileSaveStep DEF EvidencePlaces
  <2>2. Calm.pc \notin EvidencePlaces /\ Calm.pc \notin AssurancePlaces /\ Calm.pc # "build"
        /\ Calm.as = NoAssurance
    BY NothingYet DEF EvidencePlaces, AssurancePlaces
  <2> HIDE DEF Calm
  <2> QED BY <2>1, <2>2, GroundedIdle, EvidenceAfter
<1>9. ASSUME NEW t \in Threads, NEW e \in Evidence,
              NEW d \in {"approve", "stale", "revoke", "draft"}, Mark(t, e, d)
      PROVE  EvidenceInv'
  <2>1. PICK ev \in EvidenceRead(t) : \E r :
            /\ TrustStep(t, r) /\ r.pc = "mark_save"
            /\ OnFile(ev) \subseteq OnFile(r.ev) /\ r.as = NoAssurance
            /\ overlap' = (overlap \/ \E u \in Others(t) : HoldsEvidence(u))
            /\ UNCHANGED <<evidence, assurance, approvedOnce>>
    BY <1>9, MarkStep
  <2>2. PICK r :
            /\ TrustStep(t, r) /\ r.pc = "mark_save"
            /\ OnFile(ev) \subseteq OnFile(r.ev) /\ r.as = NoAssurance
            /\ overlap' = (overlap \/ \E u \in Others(t) : HoldsEvidence(u))
            /\ UNCHANGED <<evidence, assurance, approvedOnce>>
    BY <2>1
  <2>3. overlap => overlap' BY <2>2
  <2>4. ASSUME ~overlap'
        PROVE  Grounded(r, evidence, approvedOnce) /\ \A u \in Threads \ {t} : ~HoldsEvidence(u)
    <3>1. ev = evidence /\ \A u \in Threads \ {t} : ~HoldsEvidence(u) BY <2>2, <2>4, ReadAlone
    <3> QED BY <2>2, <3>1, GroundedIdle DEF AssurancePlaces
  <2> QED BY <2>2, <2>3, <2>4, EvidenceAfter
<1>10. ASSUME NEW t \in Threads, NEW i \in Items, NEW d \in Decisions, Review(t, i, d)
       PROVE  EvidenceInv'
  <2>1. PICK as \in AssuranceRead(t) : \E r :
            /\ TrustStep(t, r) /\ r.pc = "review_read" /\ r.ev = NoEvidence /\ r.as = as
            /\ overlap' = (overlap \/ \E u \in Others(t) : HoldsAssurance(u))
            /\ UNCHANGED <<evidence, assurance, approvedOnce>>
    BY <1>10, ReviewStep
  <2>2. PICK r :
            /\ TrustStep(t, r) /\ r.pc = "review_read" /\ r.ev = NoEvidence /\ r.as = as
            /\ overlap' = (overlap \/ \E u \in Others(t) : HoldsAssurance(u))
            /\ UNCHANGED <<evidence, assurance, approvedOnce>>
    BY <2>1
  <2>3. overlap => overlap' BY <2>2
  <2>4. ASSUME ~overlap' PROVE Grounded(r, evidence, approvedOnce)
    <3>1. as = assurance /\ ~overlap BY <2>2, <2>4, ReadAloneToo
    <3>2. Keyed(r.as, OnFile(evidence)) /\ Sound(r.as, approvedOnce)
      BY <2>2, <3>1 DEF EvidenceInv
    <3>3. Sound(r.as, approvedOnce \cup Approved(r.ev))
      <4>1. approvedOnce \subseteq approvedOnce \cup Approved(r.ev) OBVIOUS
      <4> QED BY <3>2, <4>1, KeyedGrows
    <3> QED BY <2>2, <3>2, <3>3, NothingYet DEF Grounded, AssurancePlaces, EvidencePlaces
  <2>5. r.pc \notin EvidencePlaces BY <2>2 DEF EvidencePlaces
  <2> QED BY <2>2, <2>3, <2>4, <2>5, EvidenceAfter
<1>11. ASSUME NEW t \in Threads, QueueSave(t) PROVE EvidenceInv'
  <2>1. /\ TrustStep(t, Calm) /\ thread[t].pc = "queue_save" /\ assurance' = thread[t].as
        /\ UNCHANGED <<evidence, approvedOnce, overlap>>
    BY <1>11, QueueSaveStep
  <2>2. Calm.pc \notin EvidencePlaces /\ Calm.pc \notin AssurancePlaces /\ Calm.pc # "build"
        /\ Calm.as = NoAssurance
    BY NothingYet DEF EvidencePlaces, AssurancePlaces
  <2>3. ~overlap => Approved(thread[t].ev) \subseteq approvedOnce
    BY <2>1 DEF EvidenceInv, Grounded
  <2> HIDE DEF Calm
  <2> QED BY <2>1, <2>2, <2>3, GroundedIdle, EvidenceAfter
<1>12. ASSUME NEW e \in Evidence, Age(e) PROVE EvidenceInv'
  <2>1. /\ OnFile(evidence') = OnFile(evidence) /\ Approved(evidence') = Approved(evidence)
        /\ UNCHANGED <<assurance, thread, approvedOnce, overlap>>
    BY <1>12, AgeStep
  <2>2. \A t \in Threads : HoldsEvidence(t)' <=> HoldsEvidence(t) BY <2>1 DEF HoldsEvidence
  <2>3. \A t \in Threads : Grounded(thread[t], evidence, approvedOnce)
                           => Grounded(thread[t], evidence', approvedOnce)
    BY <2>1, GroundedGrows
  <2> QED BY <2>1, <2>2, <2>3 DEF EvidenceInv, Approved, OnFile, Keyed, Sound, Grounded
<1>13. ASSUME TrustCrash PROVE EvidenceInv'
  <2>1. /\ \A t \in Threads : thread'[t] = Calm
        /\ evidence' \in {evidence, NoEvidence} /\ approvedOnce' = approvedOnce
        /\ ~overlap' => ~overlap /\ evidence' = evidence /\ assurance' = assurance
    BY <1>13, TrustCrashStep
  <2>2. Calm.pc \notin EvidencePlaces /\ Calm.pc \notin AssurancePlaces /\ Calm.pc # "build"
        /\ Calm.as = NoAssurance
    BY NothingYet DEF EvidencePlaces, AssurancePlaces
  <2> HIDE DEF Calm
  <2>3. ~overlap' => Grounded(Calm, evidence', approvedOnce') BY <2>2, GroundedIdle
  <2>4. \A t \in Threads : ~HoldsEvidence(t)'
    BY <2>1, <2>2 DEF HoldsEvidence, EvidencePlaces
  <2>5. ~overlap' => \A t \in Threads : Grounded(thread'[t], evidence', approvedOnce') BY <2>1, <2>3
  <2>6. Approved(evidence') \subseteq approvedOnce' BY <2>1, NothingYet DEF EvidenceInv
  <2>7. ~overlap' => Keyed(assurance', OnFile(evidence')) /\ Sound(assurance', approvedOnce')
    BY <2>1 DEF EvidenceInv
  <2> HIDE DEF HoldsEvidence
  <2> QED BY <2>4, <2>5, <2>6, <2>7 DEF EvidenceInv, Approved, OnFile, Keyed, Sound, Grounded
<1> QED BY <1>1, <1>2, <1>3, <1>4, <1>5, <1>6, <1>7, <1>8, <1>9, <1>10, <1>11, <1>12, <1>13,
           BuildGrounded, ReviewReadGrounded, ReviewSaveGrounded DEF TrNext

\* What nothing happened to.
LEMMA TrustStutters ==
  ASSUME UNCHANGED trvars
  PROVE  /\ TrustTyped => TrustTyped'
         /\ AgreeInv => AgreeInv'
         /\ EvidenceInv => EvidenceInv'
<1>1. /\ evidence' = evidence /\ assurance' = assurance /\ thread' = thread
      /\ approvedOnce' = approvedOnce /\ word' = word /\ overlap' = overlap
  BY DEF trvars
<1>2. TrustTyped => TrustTyped' BY <1>1 DEF TrustTyped
<1>3. AgreeInv => AgreeInv' BY <1>1 DEF AgreeInv, Agrees, Held
<1>4. \A t \in Threads : HoldsEvidence(t)' <=> HoldsEvidence(t) BY <1>1 DEF HoldsEvidence
<1>5. EvidenceInv => EvidenceInv'
  BY <1>1, <1>4 DEF EvidenceInv, Approved, OnFile, Keyed, Sound, Grounded
<1> QED BY <1>2, <1>3, <1>5

LEMMA TrustAtFirst ==
  ASSUME TrInit
  PROVE  /\ TrustTyped /\ AgreeInv /\ EvidenceInv
         /\ \A t \in Threads : thread[t] = Calm
<1> DEFINE known == [e \in Evidence |-> IF e \in Briefs THEN [NoEntry EXCEPT !.status = "approved"]
                                        ELSE NoEntry]
<1>1. known \in FileSet /\ Approved(known) \subseteq OnFile(known)
  BY DEF NoEntry, FileSet, Statuses, Approved, OnFile
<1>2. /\ evidence \in FileSet /\ Approved(evidence) \subseteq approvedOnce
      /\ approvedOnce = OnFile(evidence)
  <2>1. evidence \in {NoEvidence, known} BY DEF TrInit
  <2>2. approvedOnce = OnFile(evidence) BY DEF TrInit
  <2> HIDE DEF known
  <2> QED BY <1>1, <2>1, <2>2, NothingYet
<1>3. assurance = NoAssurance /\ thread \in [Threads -> ThreadSet]
      /\ \A t \in Threads : thread[t] = Calm
  BY NothingYet DEF TrInit
<1>4. TrustTyped
  BY <1>2, <1>3, NothingYet DEF TrInit, TrustTyped, OnFile
<1>5. Agrees(NoAssurance) BY NothingYet DEF Agrees
<1>6. AgreeInv BY <1>3, <1>5, NothingYet DEF AgreeInv
<1>7. Calm.pc \notin EvidencePlaces /\ Calm.pc \notin AssurancePlaces /\ Calm.pc # "build"
      /\ Calm.as = NoAssurance
  BY NothingYet DEF EvidencePlaces, AssurancePlaces
<1>8. Grounded(Calm, evidence, approvedOnce) BY <1>7, GroundedIdle
<1>9. \A t \in Threads : ~HoldsEvidence(t) BY <1>3, <1>7, HoldersOf
<1>10. EvidenceInv BY <1>2, <1>3, <1>8, <1>9, KeyedNothing DEF EvidenceInv
<1> QED BY <1>3, <1>4, <1>6, <1>10

\* The state of an answer that does not hold its pack.
LEMMA ReadyMeans ==
  ASSUME NEW answers \in AnswerSet, Held(answers), Rollup(answers) = "ready_for_final_delivery",
         NEW n \in Critical
  PROVE  answers[n].state \in {"approved", "unresolved"} /\ ~answers[n].required
<1>1. n \in Questions /\ answers[n].state \in States BY TrustAssumption DEF AnswerSet
<1>2. answers[n].state # "revoked" /\ ~answers[n].required /\ answers[n].state # "stale"
  BY DEF Rollup
<1> QED BY <1>1, <1>2 DEF Held, States

LEMMA ReadyFollows ==
  ASSUME TrustTyped, AgreeInv, EvidenceInv
  PROVE  ReadyIsCleared
<1> SUFFICES ASSUME NEW q \in Questionnaires, assurance.packs[q].gate # "none"
             PROVE  LET pack == assurance.packs[q]
                    IN /\ \A n \in Questions :
                            /\ assurance.queue[<<q, n>>].state = pack.answers[n].state
                            /\ assurance.queue[<<q, n>>].required = pack.answers[n].required
                       /\ pack.gate = "ready_for_final_delivery" =>
                            \A n \in Critical : /\ pack.answers[n].state \in {"approved", "unresolved"}
                                                /\ ~assurance.queue[<<q, n>>].required
                       /\ ~overlap =>
                            \A n \in Critical :
                                pack.answers[n].state = "approved" /\ pack.answers[n].key # "none"
                                => pack.answers[n].key \in approvedOnce
  BY DEF ReadyIsCleared
<1> DEFINE pack == assurance.packs[q]
<1>1. /\ pack.answers \in AnswerSet /\ pack.gate = Rollup(pack.answers) /\ Held(pack.answers)
      /\ \A n \in Questions : /\ assurance.queue[<<q, n>>].state = pack.answers[n].state
                              /\ assurance.queue[<<q, n>>].required = pack.answers[n].required
  BY DEF AgreeInv, Agrees, Held
<1>2. ASSUME pack.gate = "ready_for_final_delivery", NEW n \in Critical
      PROVE  pack.answers[n].state \in {"approved", "unresolved"} /\ ~assurance.queue[<<q, n>>].required
  <2> DEFINE answers == pack.answers
  <2>1. answers \in AnswerSet /\ Held(answers) /\ Rollup(answers) = "ready_for_final_delivery"
    BY <1>1, <1>2
  <2>2. assurance.queue[<<q, n>>].required = answers[n].required BY <1>1, TrustAssumption
  <2> HIDE DEF answers
  <2>3. answers[n].state \in {"approved", "unresolved"} /\ ~answers[n].required BY <2>1, ReadyMeans
  <2> QED BY <2>2, <2>3 DEF answers
<1>3. ASSUME ~overlap, NEW n \in Critical, pack.answers[n].state = "approved",
             pack.answers[n].key # "none"
      PROVE  pack.answers[n].key \in approvedOnce
  BY <1>3, TrustAssumption DEF EvidenceInv, Sound
<1> QED BY <1>1, <1>2, <1>3

\* For all threads, questionnaires and evidence, however threads overlap and the gateway
\* stops: a pack that may ship has no critical answer that is revoked, stale or queued, the
\* queue says what the questionnaires do, and, unless two threads held one file, a critical
\* answer is approved only on evidence that was on file as approved (ReadyIsCleared).
THEOREM ReadyPacksAreCleared == TrSpec => []ReadyIsCleared
<1> DEFINE Inv == TrustTyped /\ AgreeInv /\ EvidenceInv
<1>1. TrInit => Inv BY TrustAtFirst
<1>2. Inv /\ [TrNext]_trvars => Inv'
  <2> SUFFICES ASSUME Inv, [TrNext]_trvars PROVE Inv' OBVIOUS
  <2>1. CASE TrNext BY <2>1, TrustTypedStays, AgreeStays, EvidenceStays
  <2>2. CASE UNCHANGED trvars BY <2>2, TrustStutters
  <2> QED BY <2>1, <2>2
<1>3. Inv => ReadyIsCleared BY ReadyFollows
<1> QED BY <1>1, <1>2, <1>3, PTL DEF TrSpec

---------------------------------------------------------------------------
(***************************************************************************)
(* Trust review: the last decision on an answer stands                     *)
(***************************************************************************)
LEMMA RolledElsewhere ==
  ASSUME NEW as \in AssuranceSet, NEW q \in Questionnaires, NEW answers \in AnswerSet,
         NEW new, new = WithAnswers(as, q, answers)
  PROVE  Elsewhere(new, as, q)
<1>1. \A p \in Questionnaires \ {q} : new.packs[p] = as.packs[p] BY WithAnswersSays
<1>2. \A i \in Items : i[1] # q => new.queue[i] = as.queue[i] BY WithAnswersSays
<1> QED BY <1>1, <1>2 DEF Elsewhere

\* The item of an answer, as answering anew leaves it.
Requeued(as, q, answers, n) ==
    IF answers[n].required THEN "pending"
    ELSE IF as.queue[<<q, n>>].status = "none" THEN "cleared" ELSE as.queue[<<q, n>>].status
Reanswered(new, as, q, answers) ==
    /\ new.packs[q].answers = answers
    /\ \A n \in Questions : new.queue[<<q, n>>].status = Requeued(as, q, answers, n)
LEMMA RolledHere ==
  ASSUME NEW as \in AssuranceSet, NEW q \in Questionnaires, NEW answers \in AnswerSet,
         NEW new, new = WithAnswers(as, q, answers)
  PROVE  Reanswered(new, as, q, answers)
<1>1. new.packs[q].answers = answers BY WithAnswersSays
<1>2. ASSUME NEW n \in Questions
      PROVE  new.queue[<<q, n>>].status = Requeued(as, q, answers, n)
  BY WithAnswersSays DEF Requeued
<1> QED BY <1>1, <1>2 DEF Reanswered

\* What the reviewer's copy says once the decision is in it.
LEMMA DecidedNow ==
  ASSUME NEW as \in AssuranceSet, NEW i \in Items, NEW d \in Decisions, NEW answers \in AnswerSet,
         as.packs[i[1]].answers \in AnswerSet, as.packs[i[1]].gate # "none",
         answers = Reviewed(as, i, d), NEW rolled, rolled = WithAnswers(as, i[1], answers),
         NEW r, r.item = i, r.decision = d, OneItem(r.as, rolled, i),
         r.as.queue[i].status = d
  PROVE  Decided(r, as)
<1> DEFINE q == i[1]  m == i[2]
<1>1. q \in Questionnaires /\ m \in Questions /\ i = <<q, m>> BY DEF Items
<1>2. \A n \in Questions \ {m} : <<q, n>> \in Items \ {i} BY <1>1 DEF Items
<1>3. /\ answers[m].state = StateOf(d)
      /\ \A n \in Questions \ {m} : answers[n] = as.packs[q].answers[n]
  BY ReviewedSays
<1>4. /\ r.as.packs = rolled.packs
      /\ \A j \in Items \ {i} : r.as.queue[j] = rolled.queue[j]
  BY DEF OneItem
<1> HIDE DEF q, m
<1>5. rolled = WithAnswers(as, q, answers) BY DEF q
<1>6. Reanswered(rolled, as, q, answers) BY <1>1, <1>5, RolledHere
<1>7. /\ rolled.packs[q].answers = answers
      /\ \A n \in Questions : rolled.queue[<<q, n>>].status = Requeued(as, q, answers, n)
  BY <1>6 DEF Reanswered
<1>8. Elsewhere(rolled, as, q) BY <1>1, <1>5, RolledElsewhere
<1>9. Elsewhere(r.as, as, q)
  <2>1. \A p \in Questionnaires \ {q} : r.as.packs[p] = as.packs[p] BY <1>4, <1>8 DEF Elsewhere
  <2>2. \A j \in Items : j[1] # q => r.as.queue[j] = as.queue[j]
    BY <1>4, <1>8 DEF Elsewhere, q
  <2> QED BY <2>1, <2>2 DEF Elsewhere
<1>10. r.as.packs[q].answers[m].state = StateOf(d) BY <1>3, <1>4, <1>7
<1>11. ASSUME NEW n \in Questions \ {m}
       PROVE  /\ r.as.packs[q].answers[n] = as.packs[q].answers[n]
              /\ r.as.queue[<<q, n>>].status = IF as.packs[q].answers[n].required THEN "pending"
                                           ELSE IF as.queue[<<q, n>>].status = "none" THEN "cleared"
                                           ELSE as.queue[<<q, n>>].status
  <2>1. answers[n] = as.packs[q].answers[n] BY <1>3
  <2>2. r.as.queue[<<q, n>>] = rolled.queue[<<q, n>>] BY <1>2, <1>4
  <2> QED BY <1>4, <1>7, <2>1, <2>2 DEF Requeued
<1>12. r.item[1] = q /\ r.item[2] = m /\ as.packs[q].gate # "none" BY DEF q, m
<1> QED BY <1>9, <1>10, <1>11, <1>12 DEF Decided

\* A step that leaves the file of questionnaires alone.
LEMMA ReviewAfter ==
  ASSUME TrustTyped, ReviewInv, NEW t \in Threads, NEW r, TrustStep(t, r), overlap => overlap',
         UNCHANGED <<assurance, word>>,
         ~overlap' => Derived(r, assurance),
         ~overlap' /\ r.pc \in AssurancePlaces =>
            thread[t].pc \in AssurancePlaces \/ \A u \in Threads \ {t} : ~HoldsAssurance(u)
  PROVE  ReviewInv'
<1>1. assurance' = assurance /\ word' = word OBVIOUS
<1>2. thread'[t] = r /\ \A u \in Threads \ {t} : thread'[u] = thread[u]
  BY DEF TrustStep, TrustTyped
<1>3. \A u \in Threads : HoldsAssurance(u)' <=> thread'[u].pc \in AssurancePlaces
  BY DEF HoldsAssurance, AssurancePlaces
<1> SUFFICES ASSUME ~overlap'
             PROVE  /\ \A u, v \in Threads : HoldsAssurance(u)' /\ HoldsAssurance(v)' => u = v
                    /\ \A u \in Threads : Derived(thread'[u], assurance')
                    /\ \A i \in Items : Obeyed(i)'
  BY DEF ReviewInv, Derived, Decided, Elsewhere
<1>4. /\ \A u, v \in Threads : HoldsAssurance(u) /\ HoldsAssurance(v) => u = v
      /\ \A u \in Threads : Derived(thread[u], assurance)
      /\ \A i \in Items : Obeyed(i)
  BY DEF ReviewInv
<1>5. \A u, v \in Threads : HoldsAssurance(u)' /\ HoldsAssurance(v)' => u = v
  BY <1>2, <1>3, <1>4, HoldersOf
<1>6. \A u \in Threads : Derived(thread'[u], assurance') BY <1>1, <1>2, <1>4
<1>7. \A i \in Items : Obeyed(i)' BY <1>1, <1>4 DEF Obeyed
<1> QED BY <1>5, <1>6, <1>7

\* A step of a thread that has nothing to do with the questionnaires.
LEMMA ReviewQuiet ==
  ASSUME TrustTyped, ReviewInv, NEW t \in Threads, NEW r, TrustStep(t, r), overlap => overlap',
         UNCHANGED <<assurance, word>>,
         thread[t].pc \notin AssurancePlaces, r.pc \notin AssurancePlaces
  PROVE  ReviewInv'
<1>1. Derived(r, assurance) BY DEF Derived, AssurancePlaces
<1> QED BY <1>1, ReviewAfter

LEMMA BuildReviewed ==
  ASSUME TrustTyped, ReviewInv, NEW t \in Threads, Build(t)
  PROVE  ReviewInv'
<1>1. PICK as \in AssuranceRead(t) : \E r :
         /\ TrustStep(t, r) /\ thread[t].pc = "build" /\ r.pc = "build_save" /\ r.ev = thread[t].ev
         /\ r.q \in Questionnaires /\ r.as = WithAnswers(as, r.q, Answered(r.ev))
         /\ overlap' = (overlap \/ \E u \in Others(t) : HoldsAssurance(u))
         /\ UNCHANGED <<assurance, word>>
  BY BuildStep
<1>2. PICK r :
         /\ TrustStep(t, r) /\ thread[t].pc = "build" /\ r.pc = "build_save" /\ r.ev = thread[t].ev
         /\ r.q \in Questionnaires /\ r.as = WithAnswers(as, r.q, Answered(r.ev))
         /\ overlap' = (overlap \/ \E u \in Others(t) : HoldsAssurance(u))
         /\ UNCHANGED <<assurance, word>>
  BY <1>1
<1>3. overlap => overlap' BY <1>2
<1>4. ASSUME ~overlap'
      PROVE  Derived(r, assurance) /\ \A u \in Threads \ {t} : ~HoldsAssurance(u)
  <2>1. as = assurance /\ \A u \in Threads \ {t} : ~HoldsAssurance(u) BY <1>2, <1>4, ReadAloneToo
  <2> DEFINE answers == Answered(r.ev)  q == r.q  new == r.as
  <2>2. new = WithAnswers(as, q, answers) BY <1>2
  <2>3. r.ev \in FileSet /\ as \in AssuranceSet BY <1>2, AssuranceReadIs DEF TrustTyped, ThreadSet
  <2>4. answers \in AnswerSet BY <2>3, AnsweredSays
  <2>5. q \in Questionnaires BY <1>2
  <2>6. Elsewhere(new, as, q)
    <3> HIDE DEF answers, q, new
    <3> QED BY <2>2, <2>3, <2>4, <2>5, RolledElsewhere
  <2> QED BY <1>2, <2>1, <2>6 DEF Derived
<1> QED BY <1>2, <1>3, <1>4, ReviewAfter

LEMMA ReviewBegins ==
  ASSUME TrustTyped, ReviewInv, NEW t \in Threads, NEW i \in Items, NEW d \in Decisions, Review(t, i, d)
  PROVE  ReviewInv'
<1>1. PICK as \in AssuranceRead(t) : \E r :
         /\ TrustStep(t, r) /\ thread[t].pc = "idle" /\ r.pc = "review_read" /\ r.as = as
         /\ overlap' = (overlap \/ \E u \in Others(t) : HoldsAssurance(u))
         /\ UNCHANGED <<assurance, word>>
  BY ReviewStep
<1>2. PICK r :
         /\ TrustStep(t, r) /\ thread[t].pc = "idle" /\ r.pc = "review_read" /\ r.as = as
         /\ overlap' = (overlap \/ \E u \in Others(t) : HoldsAssurance(u))
         /\ UNCHANGED <<assurance, word>>
  BY <1>1
<1>3. overlap => overlap' BY <1>2
<1>4. ASSUME ~overlap'
      PROVE  Derived(r, assurance) /\ \A u \in Threads \ {t} : ~HoldsAssurance(u)
  <2>1. as = assurance /\ \A u \in Threads \ {t} : ~HoldsAssurance(u) BY <1>2, <1>4, ReadAloneToo
  <2> QED BY <1>2, <2>1 DEF Derived
<1> QED BY <1>2, <1>3, <1>4, ReviewAfter

LEMMA ReadReviewed ==
  ASSUME TrustTyped, AgreeInv, ReviewInv, NEW t \in Threads, ReviewRead(t)
  PROVE  ReviewInv'
<1> DEFINE h == thread[t]
           i == h.item
           d == h.decision
           answers == Reviewed(h.as, i, d)
           rolled == WithAnswers(h.as, i[1], answers)
<1>0. Agrees(h.as) /\ h.as \in AssuranceSet BY DEF AgreeInv, TrustTyped, ThreadSet
<1>1. PICK ev \in EvidenceRead(t) : \E r :
         /\ TrustStep(t, r) /\ h.pc = "review_read" /\ i \in Items /\ d \in Decisions
         /\ h.as.packs[i[1]].gate # "none" /\ r.pc = "review_save" /\ r.item = i /\ r.decision = d
         /\ OneItem(r.as, rolled, i) /\ r.as.queue[i].status = d
         /\ overlap' = (overlap \/ \E u \in Others(t) : HoldsEvidence(u))
         /\ UNCHANGED <<assurance, word>>
  BY <1>0, ReviewReadStep
<1>2. PICK r :
         /\ TrustStep(t, r) /\ h.pc = "review_read" /\ i \in Items /\ d \in Decisions
         /\ h.as.packs[i[1]].gate # "none" /\ r.pc = "review_save" /\ r.item = i /\ r.decision = d
         /\ OneItem(r.as, rolled, i) /\ r.as.queue[i].status = d
         /\ overlap' = (overlap \/ \E u \in Others(t) : HoldsEvidence(u))
         /\ UNCHANGED <<assurance, word>>
  BY <1>1
<1>3. overlap => overlap' BY <1>2
<1>4. thread[t].pc \in AssurancePlaces BY <1>2 DEF AssurancePlaces
<1>5. ASSUME ~overlap' PROVE h.as = assurance
  BY <1>2, <1>3, <1>5 DEF ReviewInv, Derived
<1>6. Decided(r, h.as)
  <2> DEFINE as == h.as
  <2>1. as.packs[i[1]].answers \in AnswerSet BY <1>0, <1>2 DEF Agrees, Items
  <2>2. answers \in AnswerSet BY <1>0, <1>2, <2>1, ReviewedSays
  <2>3. answers = Reviewed(as, i, d) /\ rolled = WithAnswers(as, i[1], answers) OBVIOUS
  <2>4. as \in AssuranceSet /\ as.packs[i[1]].gate # "none" /\ i \in Items /\ d \in Decisions
    BY <1>0, <1>2
  <2>5. r.item = i /\ r.decision = d /\ OneItem(r.as, rolled, i) /\ r.as.queue[i].status = d
    BY <1>2
  <2> SUFFICES Decided(r, as) OBVIOUS
  <2> HIDE DEF as, h, i, d, answers, rolled
  <2> QED BY <2>1, <2>2, <2>3, <2>4, <2>5, DecidedNow
<1>7. ~overlap' => Derived(r, assurance) BY <1>2, <1>5, <1>6 DEF Derived
<1> HIDE DEF rolled, answers
<1> QED BY <1>2, <1>3, <1>4, <1>7, ReviewAfter

LEMMA SavedReviewed ==
  ASSUME TrustTyped, ReviewInv, NEW t \in Threads, ReviewSave(t)
  PROVE  ReviewInv'
<1>1. PICK r : /\ TrustStep(t, r) /\ thread[t].pc = "review_save" /\ r.pc = "queue_save"
               /\ r.as = thread[t].as /\ r.item = thread[t].item /\ r.decision = thread[t].decision
               /\ UNCHANGED <<assurance, word, overlap>>
  BY ReviewSaveStep
<1>2. ASSUME ~overlap PROVE Derived(r, assurance)
  <2>1. Decided(thread[t], assurance) BY <1>1, <1>2 DEF ReviewInv, Derived
  <2>2. Decided(r, assurance) BY <1>1, <2>1 DEF Decided
  <2> QED BY <1>1, <2>2 DEF Derived
<1>3. thread[t].pc \in AssurancePlaces BY <1>1 DEF AssurancePlaces
<1> QED BY <1>1, <1>2, <1>3, ReviewAfter

\* A step that writes the file of questionnaires: the thread lets go of what it held, alone.
LEMMA ReviewWritten ==
  ASSUME TrustTyped, ReviewInv, NEW t \in Threads, NEW r, TrustStep(t, r),
         thread[t].pc \in AssurancePlaces, r.pc \notin AssurancePlaces,
         assurance' = thread[t].as, UNCHANGED overlap,
         ~overlap => \A i \in Items : Obeyed(i)'
  PROVE  ReviewInv'
<1>1. thread'[t] = r /\ \A u \in Threads \ {t} : thread'[u] = thread[u]
  BY DEF TrustStep, TrustTyped
<1>2. \A u \in Threads : HoldsAssurance(u)' <=> thread'[u].pc \in AssurancePlaces
  BY DEF HoldsAssurance, AssurancePlaces
<1> SUFFICES ASSUME ~overlap'
             PROVE  /\ \A u, v \in Threads : HoldsAssurance(u)' /\ HoldsAssurance(v)' => u = v
                    /\ \A u \in Threads : Derived(thread'[u], assurance')
                    /\ \A i \in Items : Obeyed(i)'
  BY DEF ReviewInv, Derived, Decided, Elsewhere
<1>3. ~overlap /\ \A u, v \in Threads : HoldsAssurance(u) /\ HoldsAssurance(v) => u = v
  BY DEF ReviewInv
<1>4. \A u \in Threads \ {t} : thread[u].pc \notin AssurancePlaces BY <1>3, HoldersOf
<1>5. \A u \in Threads : thread'[u].pc \notin AssurancePlaces BY <1>1, <1>4
<1>6. \A u \in Threads : Derived(thread'[u], assurance') BY <1>5 DEF Derived, AssurancePlaces
<1>7. \A u, v \in Threads : HoldsAssurance(u)' /\ HoldsAssurance(v)' => u = v BY <1>2, <1>5
<1> QED BY <1>3, <1>6, <1>7

LEMMA BuildSaveReviewed ==
  ASSUME TrustTyped, ReviewInv, NEW t \in Threads, BuildSave(t)
  PROVE  ReviewInv'
<1> DEFINE q == thread[t].q
<1>1. PICK r : /\ TrustStep(t, r) /\ thread[t].pc = "build_save" /\ r.pc = "deliver"
               /\ assurance' = thread[t].as
               /\ word' = [i \in Items |-> IF i[1] = q THEN "none" ELSE word[i]]
               /\ UNCHANGED overlap
  BY BuildSaveStep
<1>2. thread[t].pc \in AssurancePlaces /\ r.pc \notin AssurancePlaces BY <1>1 DEF AssurancePlaces
<1>3. ASSUME ~overlap PROVE Elsewhere(assurance', assurance, q)
  BY <1>1, <1>3 DEF ReviewInv, Derived
<1>4. ASSUME ~overlap, NEW i \in Items PROVE Obeyed(i)'
  <2>1. CASE i[1] = q BY <1>1, <2>1 DEF Obeyed
  <2>2. CASE i[1] # q
    <3>1. i[1] \in Questionnaires BY DEF Items
    <3>2. /\ assurance'.packs[i[1]] = assurance.packs[i[1]]
          /\ assurance'.queue[i] = assurance.queue[i] /\ word'[i] = word[i]
      BY <1>1, <1>3, <1>4, <2>2, <3>1 DEF Elsewhere
    <3>3. Obeyed(i) BY <1>4 DEF ReviewInv
    <3> QED BY <3>2, <3>3 DEF Obeyed
  <2> QED BY <2>1, <2>2
<1> QED BY <1>1, <1>2, <1>4, ReviewWritten

LEMMA QueueSaveReviewed ==
  ASSUME TrustTyped, AgreeInv, ReviewInv, NEW t \in Threads, QueueSave(t)
  PROVE  ReviewInv'
<1> DEFINE h == thread[t]
           q == h.item[1]
           m == h.item[2]
<1>1. /\ TrustStep(t, Calm) /\ h.pc = "queue_save" /\ assurance' = h.as
      /\ h.item \in Items /\ h.decision \in Decisions
      /\ word' = [word EXCEPT ![h.item] = h.decision]
      /\ UNCHANGED overlap
  BY QueueSaveStep
<1>2. h.pc \in AssurancePlaces /\ Calm.pc \notin AssurancePlaces
  BY <1>1, NothingYet DEF AssurancePlaces
<1>3. ASSUME ~overlap PROVE Decided(h, assurance)
  BY <1>1, <1>3 DEF ReviewInv, Derived
<1>4. q \in Questionnaires /\ m \in Questions /\ h.item = <<q, m>> BY <1>1 DEF Items
<1>5. h.as.packs[q].gate # "none" /\ word \in [Items -> Decisions \cup {"none"}]
  BY <1>1 DEF TrustTyped, AtWork
<1>6. Agrees(h.as) /\ Agrees(assurance) BY DEF AgreeInv
<1>7. ASSUME ~overlap, NEW i \in Items PROVE Obeyed(i)'
  <2>0. Elsewhere(h.as, assurance, q) BY <1>3, <1>7 DEF Decided
  <2>1. CASE i[1] # q
    <3>1. i[1] \in Questionnaires BY DEF Items
    <3>2. h.as.packs[i[1]] = assurance.packs[i[1]] /\ h.as.queue[i] = assurance.queue[i]
      BY <2>0, <2>1, <3>1 DEF Elsewhere
    <3>3. word'[i] = word[i] BY <1>1, <1>5, <2>1
    <3>4. Obeyed(i) BY <1>7 DEF ReviewInv
    <3> QED BY <1>1, <3>2, <3>3, <3>4 DEF Obeyed
  <2>2. CASE i = h.item
    <3>1. word'[i] = h.decision BY <1>1, <1>5, <2>2
    <3>2. h.as.queue[i].status = h.decision /\ h.as.packs[q].answers[m].state = StateOf(h.decision)
      BY <1>3, <1>7, <2>2 DEF Decided
    <3> QED BY <1>1, <1>5, <2>2, <3>1, <3>2 DEF Obeyed
  <2>3. CASE i[1] = q /\ i # h.item
    <3> DEFINE n == i[2]
    <3>1. n \in Questions \ {m} /\ i = <<q, n>> BY <1>4, <2>3 DEF Items
    <3>2. word'[i] = word[i] BY <1>1, <1>5, <2>3
    <3> SUFFICES ASSUME word[i] # "none"
                 PROVE  /\ h.as.packs[q].gate # "none"
                        /\ h.as.queue[i].status \in {word[i]} \cup
                             (IF h.as.queue[i].required THEN {"pending"} ELSE {})
                        /\ h.as.packs[q].answers[n].state = StateOf(word[i])
      BY <1>1, <2>3, <3>2 DEF Obeyed
    <3>3. /\ assurance.packs[q].gate # "none"
          /\ assurance.queue[i].status \in {word[i]} \cup
               (IF assurance.queue[i].required THEN {"pending"} ELSE {})
          /\ assurance.packs[q].answers[n].state = StateOf(word[i])
      BY <1>7, <2>3 DEF ReviewInv, Obeyed
    <3>4. /\ h.as.packs[q].answers[n] = assurance.packs[q].answers[n]
          /\ h.as.queue[<<q, n>>].status
               = IF assurance.packs[q].answers[n].required THEN "pending"
                 ELSE IF assurance.queue[<<q, n>>].status = "none" THEN "cleared"
                 ELSE assurance.queue[<<q, n>>].status
      BY <1>3, <1>7, <3>1 DEF Decided
    <3>5. /\ h.as.queue[<<q, n>>].required = h.as.packs[q].answers[n].required
          /\ assurance.queue[<<q, n>>].required = assurance.packs[q].answers[n].required
      BY <1>4, <1>5, <1>6, <3>1, <3>3 DEF Agrees
    <3>6. h.as.packs[q].answers[n].state = StateOf(word[i]) BY <3>3, <3>4
    <3>7. h.as.queue[i].status \in {word[i]} \cup
             (IF h.as.queue[i].required THEN {"pending"} ELSE {})
      <4>1. CASE assurance.packs[q].answers[n].required BY <3>1, <3>4, <3>5, <4>1
      <4>2. CASE ~assurance.packs[q].answers[n].required
        <5>1. assurance.queue[i].status = word[i] BY <3>1, <3>3, <3>5, <4>2
        <5>2. h.as.queue[i].status = assurance.queue[i].status BY <3>1, <3>4, <4>2, <5>1
        <5> QED BY <5>1, <5>2
      <4> QED BY <4>1, <4>2
    <3> QED BY <1>5, <3>6, <3>7
  <2> QED BY <2>1, <2>2, <2>3
<1> QED BY <1>1, <1>2, <1>7, ReviewWritten

LEMMA CrashReviewed ==
  ASSUME TrustTyped, ReviewInv, TrustCrash
  PROVE  ReviewInv'
<1>1. /\ \A t \in Threads : thread'[t] = Calm
      /\ ~overlap' => ~overlap /\ assurance' = assurance
      /\ word' = word
  BY TrustCrashStep
<1>2. Calm.pc = "idle" BY NothingYet
<1> HIDE DEF Calm
<1>3. \A t \in Threads : ~HoldsAssurance(t)' BY <1>1, <1>2 DEF HoldsAssurance
<1>4. \A t \in Threads : Derived(thread'[t], assurance') BY <1>1, <1>2 DEF Derived
<1>5. ~overlap' => \A i \in Items : Obeyed(i)' BY <1>1 DEF ReviewInv, Obeyed
<1> HIDE DEF HoldsAssurance
<1> QED BY <1>3, <1>4, <1>5 DEF ReviewInv, Derived, Decided, Elsewhere

LEMMA ReviewKept ==
  ASSUME ReviewInv, UNCHANGED <<assurance, thread, word, overlap>>
  PROVE  ReviewInv'
<1>1. assurance' = assurance /\ thread' = thread /\ word' = word /\ overlap' = overlap
  OBVIOUS
<1>2. \A t \in Threads : HoldsAssurance(t)' <=> HoldsAssurance(t) BY <1>1 DEF HoldsAssurance
<1>3. \A i \in Items : Obeyed(i) => Obeyed(i)' BY <1>1 DEF Obeyed
<1>5. \A t \in Threads : Derived(thread[t], assurance) => Derived(thread'[t], assurance') BY <1>1
<1> SUFFICES ASSUME ~overlap'
             PROVE  /\ \A u, v \in Threads : HoldsAssurance(u)' /\ HoldsAssurance(v)' => u = v
                    /\ \A u \in Threads : Derived(thread'[u], assurance')
                    /\ \A i \in Items : Obeyed(i)'
  BY DEF ReviewInv, Derived, Decided, Elsewhere
<1>6. /\ \A u, v \in Threads : HoldsAssurance(u) /\ HoldsAssurance(v) => u = v
      /\ \A u \in Threads : Derived(thread[u], assurance)
      /\ \A i \in Items : Obeyed(i)
  BY <1>1 DEF ReviewInv
<1> QED BY <1>1, <1>2, <1>3, <1>5, <1>6

LEMMA ReviewInvStays ==
  ASSUME TrustTyped, AgreeInv, ReviewInv, TrNext
  PROVE  ReviewInv'
<1>1. ASSUME NEW t \in Threads,
             (\E q \in Questionnaires : AskQuestions(t, q)) \/ (\E e \in Briefs : AskWatch(t, e))
      PROVE  ReviewInv'
  <2>1. PICK r : /\ TrustStep(t, r) /\ thread[t].pc = "idle" /\ r.pc = "packet"
                 /\ UNCHANGED <<assurance, word, overlap>>
    BY <1>1, AskStep DEF files
  <2>2. thread[t].pc \notin AssurancePlaces /\ r.pc \notin AssurancePlaces
    BY <2>1 DEF AssurancePlaces
  <2> QED BY <2>1, <2>2, ReviewQuiet
<1>2. ASSUME NEW t \in Threads, Packet(t) PROVE ReviewInv'
  <2>1. \E r : /\ TrustStep(t, r) /\ thread[t].pc = "packet"
               /\ r.pc \in {"packet_save", "support", "deliver"} /\ (overlap => overlap')
               /\ UNCHANGED <<assurance, word>>
    BY <1>2, PacketStep
  <2>2. PICK r : /\ TrustStep(t, r) /\ thread[t].pc = "packet"
                 /\ r.pc \in {"packet_save", "support", "deliver"} /\ (overlap => overlap')
                 /\ UNCHANGED <<assurance, word>>
    BY <2>1
  <2>3. thread[t].pc \notin AssurancePlaces /\ r.pc \notin AssurancePlaces
    BY <2>2 DEF AssurancePlaces
  <2> QED BY <2>2, <2>3, ReviewQuiet
<1>3. ASSUME NEW t \in Threads, PacketSave(t) PROVE ReviewInv'
  <2>1. PICK r : /\ TrustStep(t, r) /\ thread[t].pc = "packet_save" /\ r.pc \in {"support", "deliver"}
                 /\ UNCHANGED <<assurance, word, overlap>>
    BY <1>3, PacketSaveStep
  <2>2. thread[t].pc \notin AssurancePlaces /\ r.pc \notin AssurancePlaces
    BY <2>1 DEF AssurancePlaces
  <2> QED BY <2>1, <2>2, ReviewQuiet
<1>4. ASSUME NEW t \in Threads, ReadSupport(t) PROVE ReviewInv'
  <2>1. \E r : /\ TrustStep(t, r) /\ thread[t].pc = "support" /\ r.pc = "build"
               /\ UNCHANGED <<assurance, word, overlap>>
    BY <1>4, ReadSupportStep DEF files
  <2>2. PICK r : /\ TrustStep(t, r) /\ thread[t].pc = "support" /\ r.pc = "build"
                 /\ UNCHANGED <<assurance, word, overlap>>
    BY <2>1
  <2>3. thread[t].pc \notin AssurancePlaces /\ r.pc \notin AssurancePlaces
    BY <2>2 DEF AssurancePlaces
  <2> QED BY <2>2, <2>3, ReviewQuiet
<1>5. ASSUME NEW t \in Threads, Judge(t) PROVE ReviewInv'
  <2>1. PICK r : /\ TrustStep(t, r) /\ thread[t].pc = "deliver" /\ r.pc \in {"idle", "remember"}
                 /\ UNCHANGED <<assurance, word, overlap>>
    BY <1>5, JudgeStep DEF files
  <2>2. thread[t].pc \notin AssurancePlaces /\ r.pc \notin AssurancePlaces
    BY <2>1 DEF AssurancePlaces
  <2> QED BY <2>1, <2>2, ReviewQuiet
<1>6. ASSUME NEW t \in Threads, Collect(t) PROVE ReviewInv'
  <2>1. \E r : /\ TrustStep(t, r) /\ thread[t].pc = "remember" /\ r.pc = "remember_save"
               /\ (overlap => overlap') /\ UNCHANGED <<assurance, word>>
    BY <1>6, CollectStep
  <2>2. PICK r : /\ TrustStep(t, r) /\ thread[t].pc = "remember" /\ r.pc = "remember_save"
                 /\ (overlap => overlap') /\ UNCHANGED <<assurance, word>>
    BY <2>1
  <2>3. thread[t].pc \notin AssurancePlaces /\ r.pc \notin AssurancePlaces
    BY <2>2 DEF AssurancePlaces
  <2> QED BY <2>2, <2>3, ReviewQuiet
<1>7. ASSUME NEW t \in Threads, CollectSave(t) \/ MarkSave(t) PROVE ReviewInv'
  <2>1. /\ TrustStep(t, Calm) /\ thread[t].pc \in {"remember_save", "mark_save"}
        /\ UNCHANGED <<assurance, word, overlap>>
    BY <1>7, FileSaveStep
  <2>2. thread[t].pc \notin AssurancePlaces /\ Calm.pc \notin AssurancePlaces
    BY <2>1, NothingYet DEF AssurancePlaces
  <2> QED BY <2>1, <2>2, ReviewQuiet
<1>8. ASSUME NEW t \in Threads, NEW e \in Evidence,
             NEW d \in {"approve", "stale", "revoke", "draft"}, Mark(t, e, d)
      PROVE  ReviewInv'
  <2>1. \E r : /\ TrustStep(t, r) /\ thread[t].pc = "idle" /\ r.pc = "mark_save"
               /\ (overlap => overlap') /\ UNCHANGED <<assurance, word>>
    BY <1>8, MarkStep
  <2>2. PICK r : /\ TrustStep(t, r) /\ thread[t].pc = "idle" /\ r.pc = "mark_save"
                 /\ (overlap => overlap') /\ UNCHANGED <<assurance, word>>
    BY <2>1
  <2>3. thread[t].pc \notin AssurancePlaces /\ r.pc \notin AssurancePlaces
    BY <2>2 DEF AssurancePlaces
  <2> QED BY <2>2, <2>3, ReviewQuiet
<1>9. ASSUME NEW e \in Evidence, Age(e) PROVE ReviewInv'
  <2>1. UNCHANGED <<assurance, thread, word, overlap>> BY <1>9, AgeStep
  <2> QED BY <2>1, ReviewKept
<1> QED BY <1>1, <1>2, <1>3, <1>4, <1>5, <1>6, <1>7, <1>8, <1>9, BuildReviewed, BuildSaveReviewed,
           ReviewBegins, ReadReviewed, SavedReviewed, QueueSaveReviewed,
           CrashReviewed DEF TrNext

LEMMA ReviewAtFirst ==
  ASSUME TrInit
  PROVE  ReviewInv
<1>1. \A t \in Threads : thread[t].pc = "idle" BY TrustAtFirst, NothingYet
<1>2. \A i \in Items : word[i] = "none" BY DEF TrInit
<1> QED BY <1>1, <1>2 DEF ReviewInv, HoldsAssurance, Derived, Obeyed

LEMMA ReviewFollows ==
  ASSUME TrustTyped, AgreeInv, ReviewInv
  PROVE  ReviewStands
<1> SUFFICES ASSUME ~overlap, NEW i \in Items, word[i] # "none"
             PROVE  /\ assurance.queue[i].status \in {word[i]} \cup
                         (IF assurance.queue[i].required THEN {"pending"} ELSE {})
                    /\ assurance.packs[i[1]].answers[i[2]].state =
                         IF word[i] \in {"stale", "unresolved"} THEN word[i] ELSE MarkOf(word[i])
                    /\ i[2] \in Critical /\ word[i] \in {"revoke", "stale"} =>
                         assurance.packs[i[1]].gate # "ready_for_final_delivery"
  BY DEF ReviewStands
<1>1. Obeyed(i) BY DEF ReviewInv
<1>3. StateOf(word[i]) = IF word[i] \in {"stale", "unresolved"} THEN word[i] ELSE MarkOf(word[i])
  BY DEF StateOf
<1>4. ASSUME i[2] \in Critical, word[i] \in {"revoke", "stale"}
      PROVE  assurance.packs[i[1]].gate # "ready_for_final_delivery"
  <2> DEFINE pack == assurance.packs[i[1]]
  <2>1. pack.gate # "none" /\ pack.answers[i[2]].state = StateOf(word[i])
    BY <1>1, <1>4 DEF Obeyed
  <2>2. i[1] \in Questionnaires BY DEF Items
  <2>3. pack.gate = Rollup(pack.answers) BY <2>1, <2>2 DEF AgreeInv, Agrees
  <2>4. StateOf(word[i]) \in {"revoked", "stale"} BY <1>4 DEF StateOf, MarkOf
  <2> HIDE DEF pack
  <2>5. pack.gate # "ready_for_final_delivery" BY <1>4, <2>1, <2>3, <2>4 DEF Rollup
  <2> QED BY <2>5 DEF pack
<1> QED BY <1>1, <1>3, <1>4 DEF Obeyed

\* For all threads, questionnaires and evidence: unless two threads held one file or a stop
\* left one empty, the operator's last decision on an answer stands until its questionnaire
\* is built again, and what was revoked or called stale does not ship (ReviewStands).
THEOREM ReviewsStand == TrSpec => []ReviewStands
<1>1. TrInit => TrustInv BY TrustAtFirst, ReviewAtFirst DEF TrustInv
<1>2. TrustInv /\ [TrNext]_trvars => TrustInv'
  <2> SUFFICES ASSUME TrustInv, [TrNext]_trvars PROVE TrustInv' OBVIOUS
  <2>1. CASE TrNext
    BY <2>1, TrustTypedStays, AgreeStays, EvidenceStays, ReviewInvStays DEF TrustInv
  <2>2. CASE UNCHANGED trvars
    <3>1. ReviewInv'
      BY <2>2, ReviewKept DEF TrustInv, trvars
    <3> QED BY <2>2, <3>1, TrustStutters DEF TrustInv
  <2> QED BY <2>1, <2>2
<1>3. TrustInv => ReviewStands BY ReviewFollows DEF TrustInv
<1> QED BY <1>1, <1>2, <1>3, PTL DEF TrSpec

---------------------------------------------------------------------------
(***************************************************************************)
(* Recursion over the events of a history                                  *)
(***************************************************************************)
\* Induction and recursion up to a number, over sets: the library's theorems take an operator.
LEMMA UpTo ==
  ASSUME NEW N \in Nat, NEW S, 0 \in S, \A n \in 0 .. N : n < N /\ n \in S => n + 1 \in S
  PROVE  0 .. N \subseteq S
<1> DEFINE R == OpToRel(<, Nat)  B == (0 .. N) \ S
<1>1. IsWellFoundedOn(R, Nat) BY NatLessThanWellFounded
<1>2. \A x, y \in Nat : <<y, x>> \in R <=> y < x BY DEF OpToRel
<1>3. B \subseteq Nat OBVIOUS
<1> HIDE DEF R
<1> SUFFICES ASSUME B # {} PROVE FALSE OBVIOUS
<1>4. PICK x \in B : \A y \in B : ~(<<y, x>> \in R)
  <2> HIDE DEF B
  <2> QED BY <1>1, <1>3, WFMin
<1>5. x \in 0 .. N /\ x # 0 OBVIOUS
<1>6. x - 1 \in 0 .. N /\ x - 1 < N /\ x - 1 < x /\ (x - 1) + 1 = x BY <1>5
<1>7. x - 1 \notin S BY <1>6
<1>8. x - 1 \in B BY <1>6, <1>7
<1> QED BY <1>2, <1>3, <1>4, <1>6, <1>8

Follows(f, b, N, G) == f[0] = b /\ \A n \in 1 .. N : f[n] = G[<<n, f[n - 1]>>]

LEMMA Recursion ==
  ASSUME NEW X, NEW b \in X, NEW N \in Nat, NEW G \in [(1 .. N) \X X -> X]
  PROVE  \E f \in [0 .. N -> X] : Follows(f, b, N, G)
<1> USE DEF Follows
<1> DEFINE Up(m, f) == Follows(f, b, m, G)
           S == {m \in 0 .. N : \E f \in [0 .. m -> X] : Up(m, f)}
<1>1. 0 \in S
  <2> DEFINE g == [i \in 0 .. 0 |-> b]
  <2>1. g \in [0 .. 0 -> X] /\ g[0] = b /\ 1 .. 0 = {} OBVIOUS
  <2> HIDE DEF g
  <2>2. Up(0, g) BY <2>1
  <2> QED BY <2>1, <2>2
<1>2. ASSUME NEW m \in 0 .. N, m < N, m \in S PROVE m + 1 \in S
  <2>1. PICK f \in [0 .. m -> X] : Up(m, f) BY <1>2
  <2> DEFINE g == [i \in 0 .. m + 1 |-> IF i = m + 1 THEN G[<<m + 1, f[m]>>] ELSE f[i]]
  <2>2. m + 1 \in 1 .. N /\ m \in 0 .. m /\ m \in Nat BY <1>2
  <2>3. G[<<m + 1, f[m]>>] \in X BY <2>2
  <2>4. \A i \in 0 .. m + 1 : i # m + 1 => i \in 0 .. m BY <2>2
  <2>5. g \in [0 .. m + 1 -> X] BY <2>3, <2>4
  <2>6. \A i \in 0 .. m : g[i] = f[i] /\ i # m + 1 BY <2>2
  <2>7. g[m + 1] = G[<<m + 1, f[m]>>] BY <2>2
  <2>8. g[0] = b BY <2>1, <2>2, <2>6
  <2>9. ASSUME NEW n \in 1 .. m + 1 PROVE g[n] = G[<<n, g[n - 1]>>]
    <3>1. CASE n = m + 1
      <4>1. n - 1 = m BY <2>2, <3>1
      <4> QED BY <2>2, <2>6, <2>7, <3>1, <4>1
    <3>2. CASE n # m + 1
      <4>1. n \in 1 .. m /\ n \in 0 .. m /\ n - 1 \in 0 .. m BY <2>2, <3>2
      <4> QED BY <2>1, <2>6, <4>1
    <3> QED BY <3>1, <3>2
  <2> HIDE DEF g
  <2> QED BY <2>2, <2>5, <2>8, <2>9
<1>3. 0 .. N \subseteq S
  <2> HIDE DEF S
  <2> QED BY <1>1, <1>2, UpTo
<1>4. N \in 0 .. N OBVIOUS
<1> QED BY <1>3, <1>4

---------------------------------------------------------------------------
(***************************************************************************)
(* The memory: what its entries claim was earned.                          *)
(***************************************************************************)
MemEntry == [known : BOOLEAN, accepted : Nat, failed : Nat, recalled : Nat, support : Seq(Outputs), days : Nat]
Distinct(q) == \A i, j \in DOMAIN q : q[i] = q[j] => i = j
\* An entry counts no delivery twice, and no more than its deliveries and its recalls while
\* the support goes back to all of them; nor does it count more recalls than there is room for.
Justified(entry) ==
    /\ Distinct(entry.support)
    /\ Len(entry.support) < SupportKept => entry.accepted <= Len(entry.support) + 2 * entry.recalled
Backed(entries, room) ==
    /\ entries \in [Keys -> MemEntry]
    /\ \A k \in Keys : Justified(entries[k]) /\ entries[k].recalled <= room[k]

LEMMA UnknownFine == Unknown \in MemEntry /\ Justified(Unknown) /\ Unknown.recalled = 0
BY DEF Unknown, MemEntry, Justified, Distinct

\* The end of a list is a list, all of it if it is shorter than what is kept.
LEMMA LatestSays ==
  ASSUME NEW X, NEW q \in Seq(X), NEW n \in Nat
  PROVE  /\ Latest(q, n) \in Seq(X)
         /\ Len(Latest(q, n)) < n => Latest(q, n) = q
         /\ Distinct(q) => Distinct(Latest(q, n))
<1> DEFINE d == IF Len(q) > n THEN Len(q) - n ELSE 0
           r == SubSeq(q, d + 1, Len(q))
<1>1. d \in Nat /\ d <= Len(q) /\ Len(q) \in Nat OBVIOUS
<1>2. Latest(q, n) = r BY DEF Latest
<1>3. CASE Len(q) > n
  <2>1. d = Len(q) - n BY <1>3
  <2> HIDE DEF d
  <2>2. r \in Seq(X) /\ Len(r) = n /\ \A i \in 1 .. n : r[i] = q[i + d] /\ i + d \in 1 .. Len(q)
    BY <1>1, <1>3, <2>1
  <2>3. DOMAIN r = 1 .. n /\ DOMAIN q = 1 .. Len(q) BY <2>2
  <2> HIDE DEF r
  <2>4. ASSUME Distinct(q) PROVE Distinct(r)
    <3> SUFFICES ASSUME NEW i \in 1 .. n, NEW j \in 1 .. n, r[i] = r[j] PROVE i = j
      BY <2>3 DEF Distinct
    <3>1. q[i + d] = q[j + d] /\ i + d \in DOMAIN q /\ j + d \in DOMAIN q BY <2>2, <2>3
    <3>2. i + d = j + d BY <2>4, <3>1 DEF Distinct
    <3> QED BY <1>1, <3>2
  <2> QED BY <1>2, <2>2, <2>4
<1>4. CASE ~(Len(q) > n)
  <2>1. d = 0 BY <1>4
  <2> HIDE DEF d
  <2>3. r \in Seq(X) /\ Len(r) = Len(q) /\ \A i \in 1 .. Len(q) : r[i] = q[i] BY <1>1, <2>1
  <2>4. r = [i \in 1 .. Len(r) |-> r[i]] /\ q = [i \in 1 .. Len(q) |-> q[i]] BY <2>3
  <2> HIDE DEF r
  <2>2. r = q BY <2>3, <2>4
  <2> QED BY <1>2, <2>2
<1> QED BY <1>3, <1>4

LEMMA WithoutBacked ==
  ASSUME NEW room \in [Keys -> Nat], NEW entries, Backed(entries, room), NEW gone
  PROVE  Backed(Without(entries, gone), room)
BY UnknownFine DEF Without, Backed

LEMMA PrunedBacked ==
  ASSUME NEW room \in [Keys -> Nat], NEW entries, Backed(entries, room)
  PROVE  /\ Backed(Normalized(entries), room)
         /\ \A e \in Pruned(Normalized(entries)) : Backed(e, room)
<1>1. Backed(Normalized(entries), room) BY WithoutBacked DEF Normalized
<1> DEFINE n == Normalized(entries)
<1> HIDE DEF n
<1>2. ASSUME NEW e \in Pruned(n) PROVE \E gone : e = Without(n, gone)
  <2>1. PICK f \in Surplus(n, UserFacts, FactLimit), o \in Surplus(n, Outputs, OutputLimit) :
            e = Without(n, f \cup o)
    BY DEF Pruned
  <2> QED BY <2>1
<1> QED BY <1>1, <1>2, WithoutBacked DEF n

LEMMA UpsertedBacked ==
  ASSUME SessionMemoryAssumption, NEW room \in [Keys -> Nat], NEW entries, Backed(entries, room), NEW k
  PROVE  Backed(Upserted(entries, k), room)
<1> DEFINE same == {l \in Known(entries, Outputs) \ {k} : SaidBy[l] = SaidBy[k]}
           place == IF k \in Outputs /\ same # {} THEN CHOOSE l \in same : TRUE ELSE k
           old == entries[place]
           new == k \in Outputs /\ ~In(old.support, k)
           e == [old EXCEPT !.known = TRUE, !.days = 0,
                    !.support = IF new THEN Latest(Append(@, k), SupportKept) ELSE @,
                    !.accepted = IF new THEN @ + 1 ELSE @]
<1>1. Upserted(entries, k) = [entries EXCEPT ![place] = e] BY DEF Upserted
<1>2. ASSUME place \in Keys PROVE e \in MemEntry /\ Justified(e) /\ e.recalled = old.recalled
  <2>1. old \in MemEntry /\ Justified(old) BY <1>2 DEF Backed
  <2> HIDE DEF old, place
  <2>2. old.support \in Seq(Outputs) /\ old.accepted \in Nat /\ old.recalled \in Nat
    BY <2>1 DEF MemEntry
  <2>3. CASE new
    <3> DEFINE p == Append(old.support, k)  s == Latest(p, SupportKept)
    <3>1. k \in Outputs /\ SupportKept \in Nat /\ \A i \in DOMAIN old.support : old.support[i] # k
      BY <2>3 DEF SessionMemoryAssumption, In
    <3>2. p \in Seq(Outputs) /\ Len(p) = Len(old.support) + 1 /\ Distinct(p)
      BY <2>1, <2>2, <3>1 DEF Justified, Distinct
    <3> HIDE DEF p
    <3>8. s \in Seq(Outputs) /\ Distinct(s) /\ (Len(s) < SupportKept => s = p)
      BY <3>1, <3>2, LatestSays
    <3>3. e = [old EXCEPT !.known = TRUE, !.days = 0, !.support = s, !.accepted = old.accepted + 1]
      BY <2>1, <2>3 DEF MemEntry, p
    <3> HIDE DEF s
    <3> HIDE DEF e, new
    <3>4. e = [known |-> TRUE, accepted |-> old.accepted + 1, failed |-> old.failed,
               recalled |-> old.recalled, support |-> s, days |-> 0]
      BY <2>1, <3>3 DEF MemEntry
    <3>5. old.accepted + 1 \in Nat /\ old.failed \in Nat /\ old.recalled \in Nat BY <2>1 DEF MemEntry
    <3>6. e \in MemEntry BY <3>8, <3>4, <3>5 DEF MemEntry
    <3>7. e.support = s /\ e.accepted = old.accepted + 1 /\ e.recalled = old.recalled BY <3>4
    <3>9. ASSUME Len(s) < SupportKept
          PROVE  old.accepted + 1 <= Len(s) + 2 * old.recalled
      <4>1. Len(s) = Len(old.support) + 1 /\ Len(old.support) \in Nat BY <2>2, <3>2, <3>8, <3>9
      <4>2. Len(old.support) < SupportKept BY <3>1, <3>9, <4>1
      <4>3. old.accepted <= Len(old.support) + 2 * old.recalled BY <2>1, <4>2 DEF Justified
      <4> QED BY <2>2, <4>1, <4>3
    <3> QED BY <3>6, <3>7, <3>8, <3>9 DEF Justified
  <2>4. CASE ~new
    <3>1. e = [old EXCEPT !.known = TRUE, !.days = 0] BY <2>1, <2>4 DEF MemEntry
    <3>2. e \in MemEntry /\ e.support = old.support /\ e.accepted = old.accepted /\ e.recalled = old.recalled
      BY <2>1, <3>1 DEF MemEntry
    <3> HIDE DEF e
    <3> QED BY <2>1, <3>2 DEF Justified
  <2> QED BY <2>3, <2>4
<1> HIDE DEF place, e
<1> QED BY <1>1, <1>2 DEF Backed, old

\* Reading the history adds no more to an entry than the deliveries that said it.
MemFile == [entries : [Keys -> MemEntry], seen : Seq(Outputs), at : Nat]
LEMMA FromHistoryBacked ==
  ASSUME SessionMemoryAssumption, NEW room \in [Keys -> Nat], NEW copy \in MemFile,
         Backed(copy.entries, room), history \in Seq(Outputs)
  PROVE  FromHistory(copy) \in MemFile /\ Backed(FromHistory(copy).entries, room)
<1> DEFINE N == Len(history)
           Next(e, n) == TakenIn(e, history[n])
           Is(f) == f = [n \in 0 .. N |-> IF n = 0 THEN copy ELSE TakenIn(f[n - 1], history[n])]
           taken == CHOOSE f : Is(f)
           X == {e \in MemFile : Backed(e.entries, room)}
           G == [p \in (1 .. N) \X X |-> Next(p[2], p[1])]
<1>1. N \in Nat OBVIOUS
<1>2. copy \in X OBVIOUS
<1>3. ASSUME NEW e \in X, NEW n \in 1 .. N PROVE Next(e, n) \in X
  <2> DEFINE o == history[n]  u == Upserted(e.entries, o)
  <2>1. o \in Outputs /\ e \in MemFile /\ Backed(e.entries, room) OBVIOUS
  <2>2. Backed(u, room) BY <2>1, UpsertedBacked
  <2> HIDE DEF o, u
  <2>3. CASE In(e.seen, o) BY <2>3 DEF TakenIn, o
  <2>4. CASE ~In(e.seen, o)
    <3> DEFINE t == [entries |-> u, seen |-> Append(e.seen, o), at |-> e.at]
    <3>1. TakenIn(e, o) = t BY <2>1, <2>4 DEF TakenIn, MemFile, u
    <3>2. u \in [Keys -> MemEntry] /\ Append(e.seen, o) \in Seq(Outputs) /\ e.at \in Nat
      BY <2>1, <2>2 DEF MemFile, Backed
    <3>3. t \in MemFile /\ t.entries = u BY <3>2 DEF MemFile
    <3> HIDE DEF t
    <3> QED BY <2>2, <3>1, <3>3 DEF o
  <2> QED BY <2>3, <2>4
<1>4. FromHistory(copy) = [taken[N] EXCEPT !.seen = Latest(@, SeenKept), !.at = N] BY Zenon DEF FromHistory
<1> HIDE DEF X, N
<1>5. \E f : Is(f)
  <2>1. G \in [(1 .. N) \X X -> X] BY <1>3
  <2>2. \A n \in 1 .. N, e \in X : G[<<n, e>>] = Next(e, n) OBVIOUS
  <2> HIDE DEF G, Next
  <2>3. PICK f \in [0 .. N -> X] : Follows(f, copy, N, G) BY <1>1, <1>2, <2>1, Recursion
  <2>4. ASSUME NEW n \in 0 .. N, n # 0 PROVE f[n] = Next(f[n - 1], n)
    <3>1. n \in 1 .. N /\ n - 1 \in 0 .. N BY <1>1, <2>4
    <3>2. f[n - 1] \in X BY <3>1
    <3>3. f[n] = G[<<n, f[n - 1]>>] BY <2>3, <3>1 DEF Follows
    <3> QED BY <2>2, <3>1, <3>2, <3>3
  <2>5. \A n \in 0 .. N : f[n] = IF n = 0 THEN copy ELSE TakenIn(f[n - 1], history[n])
    BY <2>3, <2>4 DEF Next, Follows
  <2>6. Is(f) BY <2>5
  <2> QED BY <2>6
<1> HIDE DEF Is
<1>6. Is(taken) BY <1>5, Zenon
<1> HIDE DEF taken
<1>7. \A n \in 0 .. N : taken[n] = IF n = 0 THEN copy ELSE Next(taken[n - 1], n) BY <1>6 DEF Is
<1> HIDE DEF Next
<1> DEFINE S == {n \in 0 .. N : taken[n] \in X}
<1>8. 0 \in S BY <1>1, <1>2, <1>7
<1>9. ASSUME NEW n \in 0 .. N, n < N, n \in S PROVE n + 1 \in S
  <2>1. n + 1 \in 0 .. N /\ n + 1 # 0 /\ (n + 1) - 1 = n /\ n + 1 \in 1 .. N BY <1>1, <1>9
  <2>2. taken[n + 1] = Next(taken[n], n + 1) BY <1>7, <2>1
  <2> QED BY <1>3, <1>9, <2>1, <2>2
<1>10. N \in 0 .. N BY <1>1
<1>11. taken[N] \in X
  <2> HIDE DEF S
  <2>1. 0 .. N \subseteq S BY <1>1, <1>8, <1>9, UpTo
  <2> QED BY <1>10, <2>1 DEF S
<1> DEFINE last == taken[N]
<1>12. last \in MemFile /\ Backed(last.entries, room) BY <1>11 DEF X
<1>13. FromHistory(copy) = [last EXCEPT !.seen = Latest(@, SeenKept), !.at = N] BY <1>4
<1> HIDE DEF last
<1>14. Latest(last.seen, SeenKept) \in Seq(Outputs)
  BY <1>12, LatestSays DEF MemFile, SessionMemoryAssumption
<1> QED BY <1>1, <1>12, <1>13, <1>14 DEF MemFile

---------------------------------------------------------------------------
\* What an entry may still claim of the packets that held it, when the requests of C have
\* not told yet how they turned out.
Room(C) == [k \in Keys |-> carried[k] - Cardinality({c \in C : k \in caller[c].packet})]
Phases == {"idle", "sync", "sync_save", "recall", "deliver", "remember", "remember_save", "outcome", "outcome_save"}
MemCaller == [pc : Phases, copy : MemFile, fact : UserFacts \cup {"none"}, packet : SUBSET Keys,
              out : Outputs \cup {"none"}, quality : {"none", "success", "partial", "failure"}]

MemTyped ==
    /\ memory \in MemFile /\ history \in Seq(Outputs)
    /\ caller \in [Callers -> MemCaller] /\ carried \in [Keys -> Nat] /\ day \in Nat
RoomLeft ==
    /\ \A c \in Callers : caller[c].pc \in {"idle", "sync", "sync_save", "recall"} => caller[c].packet = {}
    /\ \A k \in Keys : Cardinality({c \in Callers : k \in caller[c].packet}) <= carried[k]
FileEarned == Backed(memory.entries, Room(Callers))
CopiesEarned ==
    \A c \in Callers : Backed(caller[c].copy.entries,
                              Room(IF caller[c].pc = "outcome_save" THEN Callers \ {c} ELSE Callers))
MemInv == MemTyped /\ RoomLeft /\ FileEarned /\ CopiesEarned

LEMMA ResyncedBacked ==
  ASSUME SessionMemoryAssumption, NEW room \in [Keys -> Nat], NEW copy \in MemFile, Backed(copy.entries, room), history \in Seq(Outputs)
  PROVE  \A e \in Resynced(copy) : e \in MemFile /\ Backed(e.entries, room)
<1> DEFINE sections == [k \in Keys |-> IF k \in Sections THEN [copy.entries[k] EXCEPT !.known = TRUE, !.days = 0]
                                       ELSE Unknown]
           from == [copy EXCEPT !.entries = sections]
           read == {FromHistory(from)}
                   \cup (IF copy.at = Len(history) /\ copy.seen # <<>> THEN {from} ELSE {})
<1>1. Backed(sections, room)
  <2>1. ASSUME NEW k \in Keys
        PROVE  /\ sections[k] \in MemEntry
               /\ Justified(sections[k]) /\ sections[k].recalled <= room[k]
    <3>1. CASE k \in Sections
      <4> DEFINE old == copy.entries[k]  e == [old EXCEPT !.known = TRUE, !.days = 0]
      <4>1. old \in MemEntry /\ Justified(old) /\ old.recalled <= room[k] BY DEF Backed
      <4>2. sections[k] = e BY <3>1
      <4> HIDE DEF old, sections
      <4>3. e \in MemEntry /\ e.support = old.support /\ e.accepted = old.accepted /\ e.recalled = old.recalled
        BY <4>1 DEF MemEntry
      <4> HIDE DEF e
      <4> QED BY <4>1, <4>2, <4>3 DEF Justified
    <3>2. CASE k \notin Sections BY <3>2, UnknownFine
    <3> QED BY <3>1, <3>2
  <2>2. sections = [k \in Keys |-> sections[k]] OBVIOUS
  <2> HIDE DEF sections
  <2>3. sections \in [Keys -> MemEntry] BY <2>1, <2>2
  <2> QED BY <2>1, <2>3 DEF Backed
<1> HIDE DEF sections
<1>2. sections \in [Keys -> MemEntry] BY <1>1 DEF Backed
<1>3. from.entries = sections /\ from \in MemFile BY <1>2 DEF MemFile
<1>8. Resynced(copy)
        = UNION {{[taken EXCEPT !.entries = e] : e \in Pruned(Normalized(taken.entries))} : taken \in read}
  BY Zenon DEF Resynced, from, sections
<1> HIDE DEF from
<1>4. Backed(from.entries, room) BY <1>1, <1>3
<1>5. FromHistory(from) \in MemFile /\ Backed(FromHistory(from).entries, room)
  BY <1>3, <1>4, FromHistoryBacked
<1>6. \A taken \in read : taken \in MemFile /\ Backed(taken.entries, room) BY <1>3, <1>4, <1>5
<1> HIDE DEF read
<1>7. ASSUME NEW taken \in read, NEW e \in Pruned(Normalized(taken.entries))
      PROVE  /\ [taken EXCEPT !.entries = e] \in MemFile
             /\ Backed([taken EXCEPT !.entries = e].entries, room)
  <2>1. taken \in MemFile /\ Backed(e, room) BY <1>6, PrunedBacked
  <2>2. e \in [Keys -> MemEntry] BY <2>1 DEF Backed
  <2>3. [taken EXCEPT !.entries = e] \in MemFile /\ [taken EXCEPT !.entries = e].entries = e
    BY <2>1, <2>2 DEF MemFile
  <2> QED BY <2>1, <2>3
<1> TAKE c \in Resynced(copy)
<1>9. PICK taken \in read : c \in {[taken EXCEPT !.entries = e] : e \in Pruned(Normalized(taken.entries))}
  BY <1>8
<1>10. PICK e \in Pruned(Normalized(taken.entries)) : c = [taken EXCEPT !.entries = e] BY <1>9
<1> QED BY <1>7, <1>10

LEMMA MoreRoom ==
  ASSUME NEW room \in [Keys -> Nat], NEW more \in [Keys -> Nat], \A k \in Keys : room[k] <= more[k],
         NEW entries, Backed(entries, room)
  PROVE  Backed(entries, more)
<1>1. ASSUME NEW k \in Keys PROVE entries[k].recalled <= more[k]
  <2>1. entries[k] \in MemEntry /\ entries[k].recalled <= room[k] BY DEF Backed
  <2>2. entries[k].recalled \in Nat BY <2>1 DEF MemEntry
  <2> QED BY <2>1, <2>2
<1> QED BY <1>1 DEF Backed

Holding(C, f, k) == {d \in C : k \in f[d].packet}

\* What is left of the packets only grows: a packet that is taken is counted, one that is
\* given back stays counted.
LEMMA RoomGrows ==
  ASSUME NEW C, IsFiniteSet(C), NEW f, NEW g, NEW c, NEW k, NEW n \in Nat, NEW m \in Nat, n <= m,
         \A d \in C \ {c} : k \in g[d].packet => k \in f[d].packet,
         k \in g[c].packet /\ k \notin f[c].packet => m = n + 1
  PROVE  n - Cardinality(Holding(C, f, k)) <= m - Cardinality(Holding(C, g, k))
<1> USE DEF Holding
<1> DEFINE F == {d \in C : k \in f[d].packet}  G == {d \in C : k \in g[d].packet}
<1>1. IsFiniteSet(F) /\ IsFiniteSet(G) BY FS_Subset
<1>2. CASE k \in g[c].packet /\ k \notin f[c].packet
  <2> DEFINE H == F \cup {c}
  <2>1. G \subseteq H /\ c \notin F BY <1>2
  <2>2. IsFiniteSet(H) /\ Cardinality(H) = Cardinality(F) + 1 BY <1>1, <2>1, FS_AddElement
  <2> HIDE DEF F, G, H
  <2>3. Cardinality(G) <= Cardinality(H) BY <2>1, <2>2, FS_Subset
  <2>4. Cardinality(F) \in Nat /\ Cardinality(G) \in Nat /\ Cardinality(H) \in Nat BY <1>1, <2>2, FS_CardinalityType
  <2>5. m = n + 1 BY <1>2
  <2>6. n - Cardinality(F) <= m - Cardinality(G) BY <2>2, <2>3, <2>4, <2>5
  <2> QED BY <2>6 DEF F, G
<1>3. CASE ~(k \in g[c].packet /\ k \notin f[c].packet)
  <2>1. G \subseteq F BY <1>3
  <2> HIDE DEF F, G
  <2>2. Cardinality(G) <= Cardinality(F) BY <1>1, <2>1, FS_Subset
  <2>3. Cardinality(F) \in Nat /\ Cardinality(G) \in Nat BY <1>1, FS_CardinalityType
  <2>4. n - Cardinality(F) <= m - Cardinality(G) BY <2>2, <2>3
  <2> QED BY <2>4 DEF F, G
<1> QED BY <1>2, <1>3

LEMMA RoomType ==
  ASSUME SessionMemoryAssumption, MemTyped, RoomLeft, NEW C \in SUBSET Callers
  PROVE  Room(C) \in [Keys -> Nat]
<1>1. ASSUME NEW k \in Keys
      PROVE carried[k] - Cardinality({c \in C : k \in caller[c].packet}) \in Nat
  <2> DEFINE P == {c \in C : k \in caller[c].packet}  Q == {c \in Callers : k \in caller[c].packet}
  <2>1. IsFiniteSet(Q) /\ P \subseteq Q BY FS_Subset DEF SessionMemoryAssumption
  <2>2. Cardinality(Q) <= carried[k] BY DEF RoomLeft
  <2> HIDE DEF P, Q
  <2>3. IsFiniteSet(P) /\ Cardinality(P) <= Cardinality(Q) BY <2>1, FS_Subset
  <2>4. Cardinality(P) \in Nat /\ Cardinality(Q) \in Nat BY <2>1, <2>3, FS_CardinalityType
  <2>5. carried[k] \in Nat BY DEF MemTyped
  <2>6. carried[k] - Cardinality(P) \in Nat BY <2>2, <2>3, <2>4, <2>5
  <2> QED BY <2>6 DEF P
<1> QED BY <1>1 DEF Room

\* A caller's step leaves the others what room they had.
LEMMA StepRoom ==
  ASSUME SessionMemoryAssumption, MemInv, MemTyped', NEW c \in Callers,
         \A d \in Callers \ {c} : caller'[d] = caller[d],
         caller'[c].pc \in {"idle", "sync", "sync_save", "recall"} => caller'[c].packet = {},
         \A k \in Keys : carried[k] <= carried'[k],
         \A k \in Keys : k \in caller'[c].packet /\ k \notin caller[c].packet => carried'[k] = carried[k] + 1
  PROVE  /\ RoomLeft'
         /\ \A C \in SUBSET Callers :
              /\ Room(C) \in [Keys -> Nat] /\ Room(C)' \in [Keys -> Nat]
              /\ \A e : Backed(e, Room(C)) => Backed(e, Room(C)')
<1> USE DEF MemInv
<1>1. ASSUME NEW C \in SUBSET Callers, NEW k \in Keys
      PROVE  /\ Room(C)' = [l \in Keys |-> carried'[l] - Cardinality({d \in C : l \in caller'[d].packet})]
             /\ carried'[k] - Cardinality({d \in C : k \in caller'[d].packet}) \in Nat
             /\ Room(C)[k] <= carried'[k] - Cardinality({d \in C : k \in caller'[d].packet})
             /\ Cardinality({d \in C : k \in caller'[d].packet}) <= carried'[k]
  <2> DEFINE f == caller  g == caller'  n == carried[k]  m == carried'[k]
             F == {d \in C : k \in f[d].packet}  G == {d \in C : k \in g[d].packet}
  <2>1. IsFiniteSet(C) BY FS_Subset DEF SessionMemoryAssumption
  <2>2. n \in Nat /\ m \in Nat /\ n <= m BY DEF MemTyped
  <2>3. \A d \in C \ {c} : k \in g[d].packet => k \in f[d].packet OBVIOUS
  <2>4. k \in g[c].packet /\ k \notin f[c].packet => m = n + 1 OBVIOUS
  <2>5. Room(C) \in [Keys -> Nat] BY RoomType
  <2>6. Room(C)[k] = n - Cardinality(F) BY DEF Room
  <2>7. IsFiniteSet(G) /\ Cardinality(G) \in Nat BY <2>1, FS_Subset, FS_CardinalityType
  <2>8. n - Cardinality(Holding(C, f, k)) <= m - Cardinality(Holding(C, g, k))
    <3> HIDE DEF f, g, n, m, F, G
    <3> QED BY <2>1, <2>2, <2>3, <2>4, RoomGrows
  <2>9. n - Cardinality(F) <= m - Cardinality(G) BY <2>8 DEF Holding
  <2>10. Room(C)' = [l \in Keys |-> carried'[l] - Cardinality({d \in C : l \in caller'[d].packet})] BY DEF Room
  <2>11. Room(C)[k] \in Nat BY <2>5
  <2> HIDE DEF F, G, n, m
  <2>12. m - Cardinality(G) \in Nat /\ Cardinality(G) <= m /\ Room(C)[k] <= m - Cardinality(G)
    BY <2>2, <2>6, <2>7, <2>9, <2>11
  <2> QED BY <2>10, <2>12 DEF G, m
<1>2. ASSUME NEW C \in SUBSET Callers
      PROVE  /\ Room(C) \in [Keys -> Nat] /\ Room(C)' \in [Keys -> Nat]
             /\ \A k \in Keys : Room(C)[k] <= Room(C)'[k]
  <2>1. Room(C) \in [Keys -> Nat] BY RoomType
  <2>2. CASE Keys = {} BY <2>1, <2>2 DEF Room
  <2>3. CASE Keys # {}
    <3>1. Room(C)' = [l \in Keys |-> carried'[l] - Cardinality({d \in C : l \in caller'[d].packet})]
      BY <1>1, <2>3
    <3> QED BY <1>1, <2>1, <3>1
  <2> QED BY <2>2, <2>3
<1>3. ASSUME NEW C \in SUBSET Callers, NEW e, Backed(e, Room(C)) PROVE Backed(e, Room(C)')
  <2> DEFINE room == Room(C)  more == Room(C)'
  <2>1. room \in [Keys -> Nat] /\ more \in [Keys -> Nat] /\ \A k \in Keys : room[k] <= more[k] BY <1>2
  <2>2. Backed(e, room) BY <1>3
  <2> HIDE DEF room, more
  <2>3. Backed(e, more) BY <2>1, <2>2, MoreRoom
  <2> QED BY <2>3 DEF more
<1>4. RoomLeft'
  <2>1. \A d \in Callers : caller'[d].pc \in {"idle", "sync", "sync_save", "recall"} => caller'[d].packet = {}
    BY DEF RoomLeft
  <2>2. \A k \in Keys : Cardinality({d \in Callers : k \in caller'[d].packet}) <= carried'[k] BY <1>1
  <2> QED BY <2>1, <2>2 DEF RoomLeft
<1> QED BY <1>2, <1>3, <1>4

RoomOf(c) == Room(IF caller[c].pc = "outcome_save" THEN Callers \ {c} ELSE Callers)

LEMMA StepInv ==
  ASSUME SessionMemoryAssumption, MemInv, MemTyped', NEW c \in Callers,
         \A d \in Callers \ {c} : caller'[d] = caller[d],
         caller'[c].pc \in {"idle", "sync", "sync_save", "recall"} => caller'[c].packet = {},
         \A k \in Keys : carried[k] <= carried'[k],
         \A k \in Keys : k \in caller'[c].packet /\ k \notin caller[c].packet => carried'[k] = carried[k] + 1,
         Backed(memory'.entries, Room(Callers)) \/ Backed(memory'.entries, Room(Callers)'),
         Backed(caller'[c].copy.entries, RoomOf(c)')
  PROVE  MemInv'
<1>1. /\ RoomLeft'
      /\ \A C \in SUBSET Callers :
           /\ Room(C) \in [Keys -> Nat] /\ Room(C)' \in [Keys -> Nat]
           /\ \A e : Backed(e, Room(C)) => Backed(e, Room(C)')
  BY StepRoom
<1>2. FileEarned' BY <1>1 DEF FileEarned
<1>3. ASSUME NEW d \in Callers PROVE Backed(caller'[d].copy.entries, RoomOf(d)')
  <2>1. CASE d = c BY <2>1
  <2>2. CASE d # c
    <3>1. caller'[d] = caller[d] BY <2>2
    <3>2. Backed(caller[d].copy.entries, RoomOf(d)) BY DEF MemInv, CopiesEarned, RoomOf
    <3>3. CASE caller[d].pc = "outcome_save"
      <4>1. RoomOf(d) = Room(Callers \ {d}) /\ RoomOf(d)' = Room(Callers \ {d})' BY <3>1, <3>3 DEF RoomOf
      <4>2. Callers \ {d} \in SUBSET Callers OBVIOUS
      <4> QED BY <1>1, <3>1, <3>2, <4>1, <4>2
    <3>4. CASE caller[d].pc # "outcome_save"
      <4>1. RoomOf(d) = Room(Callers) /\ RoomOf(d)' = Room(Callers)' BY <3>1, <3>4 DEF RoomOf
      <4> QED BY <1>1, <3>1, <3>2, <4>1
    <3> QED BY <3>3, <3>4
  <2> QED BY <2>1, <2>2
<1>4. CopiesEarned' BY <1>3 DEF CopiesEarned, RoomOf
<1> QED BY <1>1, <1>2, <1>4 DEF MemInv

LEMMA MemInit == ASSUME SessionMemoryAssumption, SmInit PROVE MemInv
<1> USE DEF SmInit, Away, NoMemory
<1> DEFINE none == [k \in Keys |-> Unknown]
<1>1. \A room \in [Keys -> Nat] : Backed(none, room) BY UnknownFine DEF Backed
<1>2. none \in [Keys -> MemEntry] BY UnknownFine
<1>3. MemTyped BY <1>2 DEF MemTyped, MemFile, MemCaller, Phases, SessionMemoryAssumption
<1>4. RoomLeft
  <2>1. ASSUME NEW k \in Keys PROVE Cardinality({c \in Callers : k \in caller[c].packet}) <= carried[k]
    <3> DEFINE held == {c \in Callers : k \in caller[c].packet}
    <3>1. held = {} /\ carried[k] = 0 OBVIOUS
    <3> HIDE DEF held
    <3>2. Cardinality(held) <= carried[k] BY <3>1, FS_EmptySet
    <3> QED BY <3>2 DEF held
  <2> QED BY <2>1 DEF RoomLeft
<1>5. \A C \in SUBSET Callers : Room(C) \in [Keys -> Nat] BY <1>3, <1>4, RoomType
<1>6. memory.entries = none OBVIOUS
<1>7. \A c \in Callers : caller[c].pc = "idle" /\ caller[c].copy.entries = none OBVIOUS
<1> HIDE DEF none
<1>8. FileEarned BY <1>1, <1>5, <1>6 DEF FileEarned
<1>9. CopiesEarned BY <1>1, <1>5, <1>7 DEF CopiesEarned
<1> QED BY <1>3, <1>4, <1>8, <1>9 DEF MemInv

\* The room of a caller's copy, by where the caller is.
LEMMA RoomOfCaller ==
  ASSUME MemInv, NEW c \in Callers
  PROVE  /\ caller[c].pc # "outcome_save" => Backed(caller[c].copy.entries, Room(Callers))
         /\ caller[c].pc = "outcome_save" => Backed(caller[c].copy.entries, Room(Callers \ {c}))
BY DEF MemInv, CopiesEarned

LEMMA NoMemoryBacked == \A room \in [Keys -> Nat] : Backed(NoMemory.entries, room)
BY UnknownFine DEF NoMemory, Backed

LEMMA CallerFields ==
  ASSUME MemTyped, NEW c \in Callers
  PROVE  /\ caller[c] \in MemCaller /\ caller[c].copy \in MemFile /\ caller[c].packet \in SUBSET Keys
         /\ memory \in MemFile /\ memory.entries \in [Keys -> MemEntry]
BY DEF MemTyped, MemCaller, MemFile

LEMMA AwayTyped == Away \in MemCaller /\ NoMemory \in MemFile
BY UnknownFine DEF Away, NoMemory, MemCaller, MemFile, Phases

LEMMA StartKeeps ==
  ASSUME SessionMemoryAssumption, MemInv, NEW c \in Callers, NEW f \in UserFacts \cup {"none"}, Start(c, f)
  PROVE  MemInv'
<1> DEFINE now == [Away EXCEPT !.pc = "sync", !.fact = f]
<1>1. caller' = [caller EXCEPT ![c] = now] /\ UNCHANGED <<memory, history, day, carried>> BY DEF Start
<1>2. now \in MemCaller /\ now.pc = "sync" /\ now.packet = {} /\ now.copy = NoMemory
  BY AwayTyped DEF Away, MemCaller, Phases
<1> HIDE DEF now
<1>3. MemTyped' BY <1>1, <1>2 DEF MemInv, MemTyped
<1>4. caller'[c] = now /\ \A d \in Callers \ {c} : caller'[d] = caller[d] BY <1>1 DEF MemInv, MemTyped
<1>5. \A k \in Keys : carried[k] <= carried'[k] BY <1>1 DEF MemInv, MemTyped
<1>6. \A C \in SUBSET Callers : Room(C)' \in [Keys -> Nat]
  BY <1>2, <1>3, <1>4, <1>5, StepRoom
<1>7. Backed(caller'[c].copy.entries, RoomOf(c)')
  <2>1. RoomOf(c)' = Room(Callers)' BY <1>2, <1>4 DEF RoomOf
  <2> QED BY <1>2, <1>4, <1>6, <2>1, NoMemoryBacked
<1>8. Backed(memory'.entries, Room(Callers)) BY <1>1 DEF MemInv, FileEarned
<1> QED BY <1>2, <1>3, <1>4, <1>5, <1>7, <1>8, StepInv

\* A caller's step that leaves carried and the packets alone.
LEMMA PlainStep ==
  ASSUME SessionMemoryAssumption, MemInv, NEW c \in Callers, NEW now \in MemCaller,
         caller' = [caller EXCEPT ![c] = now], now.packet = caller[c].packet,
         now.pc \in {"idle", "sync", "sync_save", "recall"} => now.packet = {},
         memory' \in MemFile, history' \in Seq(Outputs), UNCHANGED <<day, carried>>,
         Backed(memory'.entries, Room(Callers)),
         IF now.pc = "outcome_save" THEN Backed(now.copy.entries, Room(Callers \ {c}))
         ELSE Backed(now.copy.entries, Room(Callers))
  PROVE  MemInv'
<1>1. MemTyped' BY DEF MemInv, MemTyped
<1>2. caller'[c] = now /\ \A d \in Callers \ {c} : caller'[d] = caller[d] BY DEF MemInv, MemTyped
<1>3. \A k \in Keys : carried[k] <= carried'[k] BY DEF MemInv, MemTyped
<1>4. \A C \in SUBSET Callers : \A e : Backed(e, Room(C)) => Backed(e, Room(C)')
  BY <1>1, <1>2, <1>3, StepRoom
<1>5. Backed(caller'[c].copy.entries, RoomOf(c)')
  <2>1. RoomOf(c)' = IF now.pc = "outcome_save" THEN Room(Callers \ {c})' ELSE Room(Callers)'
    BY <1>2 DEF RoomOf
  <2>2. Callers \ {c} \in SUBSET Callers /\ Callers \in SUBSET Callers OBVIOUS
  <2> QED BY <1>2, <1>4, <2>1, <2>2
<1> QED BY <1>1, <1>2, <1>3, <1>5, StepInv

\* What a caller reads is backed, be it the file or nothing.
LEMMA ReadBacked ==
  ASSUME SessionMemoryAssumption, MemInv, NEW c \in Callers, NEW file \in MemoryRead(c)
  PROVE  file \in MemFile /\ Backed(file.entries, Room(Callers))
<1>1. Room(Callers) \in [Keys -> Nat] BY RoomType DEF MemInv
<1>2. memory \in MemFile /\ Backed(memory.entries, Room(Callers)) BY DEF MemInv, MemTyped, FileEarned
<1>3. NoMemory \in MemFile /\ Backed(NoMemory.entries, Room(Callers)) BY <1>1, AwayTyped, NoMemoryBacked
<1> QED BY <1>2, <1>3 DEF MemoryRead

LEMMA SyncKeeps ==
  ASSUME SessionMemoryAssumption, MemInv, NEW c \in Callers, Sync(c)
  PROVE  MemInv'
<1>0. PICK file \in MemoryRead(c) : \E copy \in Resynced(file) :
         caller' = [caller EXCEPT ![c].copy = copy, ![c].pc = "sync_save"]
  BY DEF Sync
<1>1. PICK copy \in Resynced(file) : caller' = [caller EXCEPT ![c].copy = copy, ![c].pc = "sync_save"]
  BY <1>0
<1>11. file \in MemFile /\ Backed(file.entries, Room(Callers)) BY ReadBacked
<1> DEFINE now == [caller[c] EXCEPT !.copy = copy, !.pc = "sync_save"]
<1>2. Room(Callers) \in [Keys -> Nat] BY RoomType DEF MemInv
<1>3. memory \in MemFile /\ history \in Seq(Outputs) /\ caller[c] \in MemCaller /\ caller \in [Callers -> MemCaller]
  BY DEF MemInv, MemTyped
<1>4. Backed(memory.entries, Room(Callers)) BY DEF MemInv, FileEarned
<1>5. copy \in MemFile /\ Backed(copy.entries, Room(Callers)) BY <1>2, <1>3, <1>11, ResyncedBacked
<1>6. now \in MemCaller /\ now.pc = "sync_save" /\ now.copy = copy /\ now.packet = caller[c].packet
  BY <1>3, <1>5 DEF MemCaller, Phases
<1>7. caller' = [caller EXCEPT ![c] = now] BY <1>1, <1>3
<1>8. caller[c].packet = {} BY DEF Sync, MemInv, RoomLeft
<1>9. UNCHANGED <<memory, history, day, carried>> BY DEF Sync
<1>10. memory' \in MemFile /\ history' \in Seq(Outputs) /\ Backed(memory'.entries, Room(Callers)) BY <1>3, <1>4, <1>9
<1> HIDE DEF now
<1> QED BY <1>5, <1>6, <1>7, <1>8, <1>9, <1>10, PlainStep

LEMMA SyncSaveKeeps ==
  ASSUME SessionMemoryAssumption, MemInv, NEW c \in Callers, SyncSave(c)
  PROVE  MemInv'
<1> DEFINE now == [caller[c] EXCEPT !.pc = "recall"]
<1>1. caller[c].pc = "sync_save" /\ memory' = caller[c].copy /\ UNCHANGED <<history, day, carried>> BY DEF SyncSave
<1>2. history \in Seq(Outputs) /\ caller[c] \in MemCaller /\ caller \in [Callers -> MemCaller] BY DEF MemInv, MemTyped
<1>3. caller[c].copy \in MemFile BY <1>2 DEF MemCaller
<1>4. Backed(caller[c].copy.entries, Room(Callers)) BY <1>1, RoomOfCaller
<1>5. now \in MemCaller /\ now.pc = "recall" /\ now.copy = caller[c].copy /\ now.packet = caller[c].packet
  BY <1>2 DEF MemCaller, Phases
<1>6. caller' = [caller EXCEPT ![c] = now] BY <1>2 DEF SyncSave
<1>7. caller[c].packet = {} BY <1>1 DEF MemInv, RoomLeft
<1>8. memory' \in MemFile /\ history' \in Seq(Outputs) /\ Backed(memory'.entries, Room(Callers)) BY <1>1, <1>2, <1>3, <1>4
<1> HIDE DEF now
<1> QED BY <1>1, <1>4, <1>5, <1>6, <1>7, <1>8, PlainStep

LEMMA AnswerKeeps ==
  ASSUME SessionMemoryAssumption, MemInv, NEW c \in Callers, AnswerOut(c)
  PROVE  MemInv'
<1>1. caller[c].pc = "deliver" /\ UNCHANGED <<memory, day, carried>> BY DEF AnswerOut
<1>2. history \in Seq(Outputs) /\ caller[c] \in MemCaller /\ caller \in [Callers -> MemCaller] /\ memory \in MemFile
  BY DEF MemInv, MemTyped
<1>3. Backed(memory.entries, Room(Callers)) BY DEF MemInv, FileEarned
<1>4. Backed(caller[c].copy.entries, Room(Callers)) BY <1>1, RoomOfCaller
<1>5. memory' \in MemFile /\ Backed(memory'.entries, Room(Callers)) BY <1>1, <1>2, <1>3
<1>6. CASE \E o \in Outputs :
             /\ history' = Append(history, o)
             /\ caller' = [caller EXCEPT ![c].pc = "remember", ![c].out = o, ![c].quality = "success"]
  <2>1. PICK o \in Outputs :
             /\ history' = Append(history, o)
             /\ caller' = [caller EXCEPT ![c].pc = "remember", ![c].out = o, ![c].quality = "success"]
    BY <1>6
  <2> DEFINE now == [caller[c] EXCEPT !.pc = "remember", !.out = o, !.quality = "success"]
  <2>2. caller' = [caller EXCEPT ![c] = now] BY <1>2, <2>1
  <2>3. now \in MemCaller /\ now.pc = "remember" /\ now.copy = caller[c].copy /\ now.packet = caller[c].packet
    BY <1>2 DEF MemCaller, Phases
  <2>4. history' \in Seq(Outputs) BY <1>2, <2>1
  <2> HIDE DEF now
  <2> QED BY <1>1, <1>4, <1>5, <2>2, <2>3, <2>4, PlainStep
<1>7. CASE \E q \in {"partial", "failure"} :
             caller' = [caller EXCEPT ![c].pc = "outcome", ![c].quality = q] /\ UNCHANGED history
  <2>1. PICK q \in {"partial", "failure"} :
             caller' = [caller EXCEPT ![c].pc = "outcome", ![c].quality = q] /\ UNCHANGED history
    BY <1>7
  <2> DEFINE now == [caller[c] EXCEPT !.pc = "outcome", !.quality = q]
  <2>2. caller' = [caller EXCEPT ![c] = now] BY <1>2, <2>1
  <2>3. now \in MemCaller /\ now.pc = "outcome" /\ now.copy = caller[c].copy /\ now.packet = caller[c].packet
    BY <1>2, <2>1 DEF MemCaller, Phases
  <2>4. history' \in Seq(Outputs) BY <1>2, <2>1
  <2> HIDE DEF now
  <2> QED BY <1>1, <1>4, <1>5, <2>2, <2>3, <2>4, PlainStep
<1> QED BY <1>6, <1>7 DEF AnswerOut

LEMMA FileWith ==
  ASSUME NEW copy \in MemFile, NEW e \in [Keys -> MemEntry]
  PROVE  [copy EXCEPT !.entries = e] \in MemFile /\ [copy EXCEPT !.entries = e].entries = e
BY DEF MemFile

LEMMA KeepKeeps ==
  ASSUME SessionMemoryAssumption, MemInv, NEW c \in Callers, Keep(c)
  PROVE  MemInv'
<1>1. caller[c].pc = "remember" /\ UNCHANGED <<memory, history, day, carried>> BY DEF Keep
<1>2. history \in Seq(Outputs) /\ caller[c] \in MemCaller /\ caller \in [Callers -> MemCaller] /\ memory \in MemFile
  BY DEF MemInv, MemTyped
<1>3. Backed(memory.entries, Room(Callers)) BY DEF MemInv, FileEarned
<1>4. Room(Callers) \in [Keys -> Nat] BY RoomType DEF MemInv
<1>0. PICK file \in MemoryRead(c) : \E entries \in Pruned(Normalized(Upserted(file.entries, caller[c].out))) :
         caller' = [caller EXCEPT ![c].copy = [file EXCEPT !.entries = entries], ![c].pc = "remember_save"]
  BY DEF Keep
<1>5. PICK entries \in Pruned(Normalized(Upserted(file.entries, caller[c].out))) :
         caller' = [caller EXCEPT ![c].copy = [file EXCEPT !.entries = entries], ![c].pc = "remember_save"]
  BY <1>0
<1>13. file \in MemFile /\ Backed(file.entries, Room(Callers)) BY ReadBacked
<1> DEFINE u == Upserted(file.entries, caller[c].out)
           copy == [file EXCEPT !.entries = entries]
           now == [caller[c] EXCEPT !.copy = copy, !.pc = "remember_save"]
<1>6. Backed(u, Room(Callers)) BY <1>4, <1>13, UpsertedBacked
<1>7. entries \in Pruned(Normalized(u)) BY <1>5
<1> HIDE DEF u
<1>8. Backed(entries, Room(Callers)) BY <1>4, <1>6, <1>7, PrunedBacked
<1>9. copy \in MemFile /\ copy.entries = entries BY <1>8, <1>13, FileWith DEF Backed
<1>10. caller' = [caller EXCEPT ![c] = now] BY <1>2, <1>5
<1> HIDE DEF copy
<1>11. now \in MemCaller /\ now.pc = "remember_save" /\ now.copy = copy /\ now.packet = caller[c].packet
  BY <1>2, <1>9 DEF MemCaller, Phases
<1>12. memory' \in MemFile /\ history' \in Seq(Outputs) /\ Backed(memory'.entries, Room(Callers)) BY <1>1, <1>2, <1>3
<1> HIDE DEF now
<1> QED BY <1>1, <1>8, <1>9, <1>10, <1>11, <1>12, PlainStep

LEMMA KeepSaveKeeps ==
  ASSUME SessionMemoryAssumption, MemInv, NEW c \in Callers, KeepSave(c)
  PROVE  MemInv'
<1> DEFINE now == [caller[c] EXCEPT !.pc = "outcome", !.copy = NoMemory]
<1>1. caller[c].pc = "remember_save" /\ memory' = caller[c].copy /\ UNCHANGED <<history, day, carried>>
  BY DEF KeepSave
<1>2. history \in Seq(Outputs) /\ caller[c] \in MemCaller /\ caller \in [Callers -> MemCaller] BY DEF MemInv, MemTyped
<1>3. caller[c].copy \in MemFile /\ Room(Callers) \in [Keys -> Nat] BY <1>2, RoomType DEF MemCaller, MemInv
<1>4. Backed(caller[c].copy.entries, Room(Callers)) BY <1>1, RoomOfCaller
<1>5. now \in MemCaller /\ now.pc = "outcome" /\ now.copy = NoMemory /\ now.packet = caller[c].packet
  BY <1>2, AwayTyped DEF MemCaller, Phases
<1>6. caller' = [caller EXCEPT ![c] = now] BY <1>2 DEF KeepSave
<1>7. Backed(now.copy.entries, Room(Callers)) BY <1>3, <1>5, NoMemoryBacked
<1>8. memory' \in MemFile /\ history' \in Seq(Outputs) /\ Backed(memory'.entries, Room(Callers)) BY <1>1, <1>2, <1>3, <1>4
<1> HIDE DEF now
<1> QED BY <1>1, <1>5, <1>6, <1>7, <1>8, PlainStep

\* While its packet's outcome is being told, a caller's claim on its entries is set apart.
LEMMA RoomApart ==
  ASSUME SessionMemoryAssumption, MemInv, NEW c \in Callers, NEW k \in Keys
  PROVE  Room(Callers \ {c})[k] = Room(Callers)[k] + (IF k \in caller[c].packet THEN 1 ELSE 0)
<1> DEFINE P == {d \in Callers : k \in caller[d].packet}
           Q == {d \in Callers \ {c} : k \in caller[d].packet}
<1>1. IsFiniteSet(P) /\ IsFiniteSet(Q) BY FS_Subset DEF SessionMemoryAssumption
<1>2. Room(Callers)[k] = carried[k] - Cardinality(P) /\ Room(Callers \ {c})[k] = carried[k] - Cardinality(Q)
  BY DEF Room
<1>3. IF k \in caller[c].packet THEN P = Q \cup {c} ELSE P = Q OBVIOUS
<1>4. c \notin Q /\ carried[k] \in Nat BY DEF MemInv, MemTyped
<1> HIDE DEF P, Q
<1>5. Cardinality(Q \cup {c}) = Cardinality(Q) + 1 BY <1>1, <1>4, FS_AddElement
<1>6. Cardinality(P) \in Nat /\ Cardinality(Q) \in Nat BY <1>1, FS_CardinalityType
<1>7. CASE k \in caller[c].packet
  <2>1. P = Q \cup {c} BY <1>3, <1>7
  <2>2. Cardinality(P) = Cardinality(Q) + 1 BY <1>5, <2>1, Zenon
  <2>3. Room(Callers \ {c})[k] = Room(Callers)[k] + 1 BY <1>2, <1>4, <1>6, <2>2
  <2> QED BY <1>7, <2>3
<1>8. CASE k \notin caller[c].packet
  <2>1. P = Q BY <1>3, <1>8
  <2>2. Cardinality(P) = Cardinality(Q) BY <2>1, Zenon
  <2>3. Room(Callers \ {c})[k] = Room(Callers)[k] + 0 BY <1>2, <1>4, <1>6, <2>2
  <2> QED BY <1>8, <2>3
<1> QED BY <1>7, <1>8

LEMMA CreditedEarned ==
  ASSUME NEW entry \in MemEntry, Justified(entry), NEW verdict \in {"none", "success", "partial", "failure"}
  PROVE  /\ Credited(entry, verdict) \in MemEntry /\ Justified(Credited(entry, verdict))
         /\ Credited(entry, verdict).recalled = entry.recalled + 1
<1> DEFINE more == IF verdict = "success" THEN 2 ELSE IF verdict = "partial" THEN 1 ELSE 0
           less == IF verdict = "failure" THEN 2 ELSE 0
           now == [known |-> entry.known, accepted |-> entry.accepted + more, failed |-> entry.failed + less,
                   recalled |-> entry.recalled + 1, support |-> entry.support, days |-> 0]
<1>1. more \in Nat /\ more <= 2 /\ less \in Nat OBVIOUS
<1>2. Credited(entry, verdict)
        = [entry EXCEPT !.recalled = entry.recalled + 1, !.days = 0,
              !.accepted = entry.accepted + more, !.failed = entry.failed + less]
  BY DEF Credited, MemEntry
<1> HIDE DEF more, less
<1>7. Credited(entry, verdict) = now BY <1>2 DEF MemEntry
<1>3. entry.accepted \in Nat /\ entry.failed \in Nat /\ entry.recalled \in Nat /\ entry.support \in Seq(Outputs)
  BY DEF MemEntry
<1>4. Len(entry.support) \in Nat BY <1>3
<1>5. now \in MemEntry BY <1>1, <1>3 DEF MemEntry
<1>6. Len(now.support) < SupportKept => now.accepted <= Len(now.support) + 2 * now.recalled
  BY <1>1, <1>3, <1>4 DEF Justified
<1>8. Distinct(now.support) BY DEF Justified
<1> QED BY <1>7, <1>5, <1>6, <1>8 DEF Justified

LEMMA OutcomeKeeps ==
  ASSUME SessionMemoryAssumption, MemInv, NEW c \in Callers, Outcome(c)
  PROVE  MemInv'
<1>0. PICK file \in MemoryRead(c) :
         caller' = [caller EXCEPT ![c].pc = "outcome_save",
             ![c].copy = [file EXCEPT !.entries = Normalized([k \in Keys |->
                 IF k \in caller[c].packet /\ file.entries[k].known
                 THEN Credited(file.entries[k], caller[c].quality) ELSE file.entries[k]])]]
  BY DEF Outcome
<1>15. file \in MemFile /\ Backed(file.entries, Room(Callers)) BY ReadBacked
<1> DEFINE told == [k \in Keys |-> IF k \in caller[c].packet /\ file.entries[k].known
                                   THEN Credited(file.entries[k], caller[c].quality) ELSE file.entries[k]]
           copy == [file EXCEPT !.entries = Normalized(told)]
           now == [caller[c] EXCEPT !.pc = "outcome_save", !.copy = copy]
           room == Room(Callers \ {c})
<1>1. caller[c].pc = "outcome" /\ UNCHANGED <<memory, history, day, carried>> BY DEF Outcome
<1>2. history \in Seq(Outputs) /\ caller[c] \in MemCaller /\ caller \in [Callers -> MemCaller] /\ memory \in MemFile
  BY DEF MemInv, MemTyped
<1>3. Backed(memory.entries, Room(Callers)) BY DEF MemInv, FileEarned
<1>4. Room(Callers) \in [Keys -> Nat] /\ room \in [Keys -> Nat]
  <2>1. Callers \ {c} \in SUBSET Callers /\ Callers \in SUBSET Callers OBVIOUS
  <2> QED BY <2>1, RoomType DEF MemInv
<1>5. caller[c].quality \in {"none", "success", "partial", "failure"} BY <1>2 DEF MemCaller
<1>6. caller' = [caller EXCEPT ![c] = now] BY <1>0, <1>2
<1>7. ASSUME NEW k \in Keys
      PROVE  told[k] \in MemEntry /\ Justified(told[k]) /\ told[k].recalled <= room[k]
  <2>1. file.entries[k] \in MemEntry /\ Justified(file.entries[k]) /\ file.entries[k].recalled <= Room(Callers)[k]
    BY <1>15 DEF Backed
  <2>2. room[k] = Room(Callers)[k] + (IF k \in caller[c].packet THEN 1 ELSE 0) BY RoomApart
  <2>3. Room(Callers)[k] \in Nat /\ file.entries[k].recalled \in Nat BY <1>4, <2>1 DEF MemEntry
  <2> HIDE DEF room
  <2>4. CASE k \in caller[c].packet /\ file.entries[k].known
    <3>1. told[k] = Credited(file.entries[k], caller[c].quality) BY <2>4
    <3> HIDE DEF told
    <3>2. /\ told[k] \in MemEntry /\ Justified(told[k])
          /\ told[k].recalled = file.entries[k].recalled + 1
      BY <1>5, <2>1, <3>1, CreditedEarned
    <3> QED BY <2>1, <2>2, <2>3, <2>4, <3>2
  <2>5. CASE ~(k \in caller[c].packet /\ file.entries[k].known)
    <3>1. told[k] = file.entries[k] BY <2>5
    <3> HIDE DEF told
    <3>2. Room(Callers)[k] <= room[k] BY <2>2, <2>3
    <3>3. room[k] \in Nat BY <1>4
    <3> QED BY <2>1, <2>3, <3>1, <3>2, <3>3
  <2> QED BY <2>4, <2>5
<1>8. told \in [Keys -> MemEntry] BY <1>7
<1> HIDE DEF told
<1>9. Backed(told, room) BY <1>7, <1>8 DEF Backed
<1>10. Backed(Normalized(told), room)
  <2> HIDE DEF room
  <2> QED BY <1>4, <1>9, PrunedBacked
<1>11. copy \in MemFile /\ copy.entries = Normalized(told) BY <1>10, <1>15, FileWith DEF Backed
<1> HIDE DEF copy
<1>12. now \in MemCaller /\ now.pc = "outcome_save" /\ now.copy = copy /\ now.packet = caller[c].packet
  BY <1>2, <1>11 DEF MemCaller, Phases
<1>13. memory' \in MemFile /\ history' \in Seq(Outputs) /\ Backed(memory'.entries, Room(Callers)) BY <1>1, <1>2, <1>3
<1> HIDE DEF now
<1>14. Backed(now.copy.entries, Room(Callers \ {c})) BY <1>10, <1>11, <1>12
<1> QED BY <1>1, <1>6, <1>12, <1>13, <1>14, PlainStep

LEMMA OutcomeSaveKeeps ==
  ASSUME SessionMemoryAssumption, MemInv, NEW c \in Callers, OutcomeSave(c)
  PROVE  MemInv'
<1>1. caller[c].pc = "outcome_save" /\ memory' = caller[c].copy /\ UNCHANGED <<history, day, carried>>
  BY DEF OutcomeSave
<1>2. history \in Seq(Outputs) /\ caller[c] \in MemCaller /\ caller \in [Callers -> MemCaller] BY DEF MemInv, MemTyped
<1>3. caller' = [caller EXCEPT ![c] = Away] BY DEF OutcomeSave
<1>4. caller'[c] = Away /\ \A d \in Callers \ {c} : caller'[d] = caller[d] BY <1>2, <1>3
<1>5. Away.pc = "idle" /\ Away.packet = {} /\ Away.copy = NoMemory BY DEF Away
<1>6. caller[c].copy \in MemFile BY <1>2 DEF MemCaller
<1>7. MemTyped' BY <1>1, <1>2, <1>3, <1>6, AwayTyped DEF MemInv, MemTyped
<1>8. \A k \in Keys : carried[k] <= carried'[k] BY <1>1 DEF MemInv, MemTyped
<1>9. \A C \in SUBSET Callers : Room(C)' \in [Keys -> Nat] BY <1>4, <1>5, <1>7, <1>8, StepRoom
<1>10. Room(Callers)' = Room(Callers \ {c})
  <2>1. \A k \in Keys : {d \in Callers : k \in caller'[d].packet} = {d \in Callers \ {c} : k \in caller[d].packet}
    BY <1>4, <1>5
  <2> QED BY <1>1, <2>1 DEF Room
<1>11. Backed(memory'.entries, Room(Callers)') BY <1>1, <1>10, RoomOfCaller
<1>12. Backed(caller'[c].copy.entries, RoomOf(c)')
  <2>1. RoomOf(c)' = Room(Callers)' BY <1>4, <1>5 DEF RoomOf
  <2> QED BY <1>4, <1>5, <1>9, <2>1, NoMemoryBacked
<1> QED BY <1>4, <1>5, <1>7, <1>8, <1>11, <1>12, StepInv

LEMMA RecallKeeps ==
  ASSUME SessionMemoryAssumption, MemInv, NEW c \in Callers, Recall(c)
  PROVE  MemInv'
<1> DEFINE copy == caller[c].copy
           e == IF caller[c].fact = "none" THEN copy.entries ELSE Upserted(copy.entries, caller[c].fact)
<1>1. caller[c].pc = "recall" /\ UNCHANGED <<history, day>> BY DEF Recall
<1>2. /\ history \in Seq(Outputs) /\ caller[c] \in MemCaller /\ caller \in [Callers -> MemCaller]
      /\ carried \in [Keys -> Nat] /\ day \in Nat
  BY DEF MemInv, MemTyped
<1>3. copy \in MemFile /\ Room(Callers) \in [Keys -> Nat] BY <1>2, RoomType DEF MemCaller, MemInv
<1>4. Backed(copy.entries, Room(Callers)) BY <1>1, RoomOfCaller
<1>5. Backed(e, Room(Callers)) BY <1>3, <1>4, UpsertedBacked
<1>6. PICK entries \in Pruned(Normalized(e)) : \E packet \in SUBSET Known(entries, Keys) :
         /\ memory' = [copy EXCEPT !.entries = entries]
         /\ caller' = [caller EXCEPT ![c] = [Away EXCEPT !.pc = "deliver", !.packet = packet]]
         /\ carried' = [k \in Keys |-> IF k \in packet THEN carried[k] + 1 ELSE carried[k]]
  BY DEF Recall
<1> HIDE DEF e, copy
<1>7. PICK packet \in SUBSET Known(entries, Keys) :
         /\ memory' = [copy EXCEPT !.entries = entries]
         /\ caller' = [caller EXCEPT ![c] = [Away EXCEPT !.pc = "deliver", !.packet = packet]]
         /\ carried' = [k \in Keys |-> IF k \in packet THEN carried[k] + 1 ELSE carried[k]]
  BY <1>6
<1> DEFINE now == [Away EXCEPT !.pc = "deliver", !.packet = packet]
<1>8. Backed(entries, Room(Callers)) BY <1>3, <1>5, <1>6, PrunedBacked
<1>9. memory' \in MemFile /\ memory'.entries = entries BY <1>3, <1>7, <1>8, FileWith DEF Backed
<1>10. packet \in SUBSET Keys BY <1>7 DEF Known
<1>11. now \in MemCaller /\ now.pc = "deliver" /\ now.packet = packet /\ now.copy = NoMemory
  BY <1>10, AwayTyped DEF Away, MemCaller, Phases
<1>12. caller' = [caller EXCEPT ![c] = now] BY <1>7
<1> HIDE DEF now
<1>13. caller'[c] = now /\ \A d \in Callers \ {c} : caller'[d] = caller[d] BY <1>2, <1>12
<1>14. carried' \in [Keys -> Nat] /\ \A k \in Keys : carried[k] <= carried'[k] BY <1>2, <1>7
<1>15. MemTyped' BY <1>1, <1>2, <1>9, <1>11, <1>12, <1>14 DEF MemTyped
<1>16. \A k \in Keys : k \in caller'[c].packet /\ k \notin caller[c].packet => carried'[k] = carried[k] + 1
  BY <1>7, <1>11, <1>13
<1>17. \A C \in SUBSET Callers : Room(C)' \in [Keys -> Nat]
  BY <1>11, <1>13, <1>14, <1>15, <1>16, StepRoom
<1>18. Backed(caller'[c].copy.entries, RoomOf(c)')
  <2>1. RoomOf(c)' = Room(Callers)' BY <1>11, <1>13 DEF RoomOf
  <2> QED BY <1>11, <1>13, <1>17, <2>1, NoMemoryBacked
<1> QED BY <1>8, <1>9, <1>11, <1>13, <1>14, <1>15, <1>16, <1>18, StepInv

LEMMA DaysKeep ==
  ASSUME SessionMemoryAssumption, MemInv, NEW n \in DaysPass, Days(n)
  PROVE  MemInv'
<1>1. UNCHANGED <<history, caller, carried>> /\ day' = day + n BY DEF Days
<1> DEFINE later == [k \in Keys |-> LET entry == memory.entries[k]
                                    IN IF entry.known THEN [entry EXCEPT !.days = @ + n] ELSE entry]
<1>2. memory' = [memory EXCEPT !.entries = later] BY DEF Days
<1>3. memory \in MemFile /\ day \in Nat /\ n \in Nat BY DEF MemInv, MemTyped, SessionMemoryAssumption
<1>4. Backed(memory.entries, Room(Callers)) BY DEF MemInv, FileEarned
<1>5. ASSUME NEW k \in Keys
      PROVE  /\ later[k] \in MemEntry
             /\ Justified(later[k]) /\ later[k].recalled = memory.entries[k].recalled
  <2> DEFINE entry == memory.entries[k]
  <2>1. entry \in MemEntry /\ Justified(entry) BY <1>4 DEF Backed
  <2>2. later[k] = IF entry.known THEN [entry EXCEPT !.days = @ + n] ELSE entry OBVIOUS
  <2> HIDE DEF later, entry
  <2>3. CASE entry.known
    <3>1. later[k] = [entry EXCEPT !.days = entry.days + n] BY <2>1, <2>2, <2>3 DEF MemEntry
    <3>2. entry.days + n \in Nat BY <1>3, <2>1 DEF MemEntry
    <3>3. /\ later[k] \in MemEntry /\ later[k].accepted = entry.accepted
          /\ later[k].recalled = entry.recalled /\ later[k].support = entry.support
      BY <2>1, <3>1, <3>2 DEF MemEntry
    <3> QED BY <2>1, <3>3 DEF Justified, entry
  <2>4. CASE ~entry.known BY <2>1, <2>2, <2>4 DEF entry
  <2> QED BY <2>3, <2>4
<1>6. later \in [Keys -> MemEntry] BY <1>5
<1> HIDE DEF later
<1>7. Backed(later, Room(Callers)) BY <1>4, <1>5, <1>6 DEF Backed
<1>8. memory' \in MemFile /\ memory'.entries = later BY <1>2, <1>3, <1>6, FileWith
<1>9. \A C : Room(C)' = Room(C) BY <1>1 DEF Room
<1>10. MemTyped' BY <1>1, <1>3, <1>8 DEF MemInv, MemTyped
<1>11. RoomLeft' BY <1>1 DEF MemInv, RoomLeft
<1>12. FileEarned' BY <1>7, <1>8, <1>9 DEF FileEarned
<1>13. CopiesEarned' BY <1>1, <1>9 DEF MemInv, CopiesEarned
<1> QED BY <1>10, <1>11, <1>12, <1>13 DEF MemInv

LEMMA MemInvStays == ASSUME SessionMemoryAssumption, MemInv, [SmNext]_smvars PROVE MemInv'
<1>1. CASE UNCHANGED smvars
  <2>1. UNCHANGED <<memory, history, caller, day, carried>> BY <1>1 DEF smvars
  <2>2. \A C : Room(C)' = Room(C) BY <2>1 DEF Room
  <2> QED BY <2>1, <2>2 DEF MemInv, MemTyped, RoomLeft, FileEarned, CopiesEarned
<1>2. ASSUME NEW c \in Callers,
             \/ \E f \in UserFacts \cup {"none"} : Start(c, f)
             \/ Sync(c) \/ SyncSave(c) \/ Recall(c) \/ AnswerOut(c)
             \/ Keep(c) \/ KeepSave(c) \/ Outcome(c) \/ OutcomeSave(c)
      PROVE  MemInv'
  BY <1>2, StartKeeps, SyncKeeps, SyncSaveKeeps, RecallKeeps, AnswerKeeps, KeepKeeps, KeepSaveKeeps,
     OutcomeKeeps, OutcomeSaveKeeps
<1>3. ASSUME NEW n \in DaysPass, Days(n) PROVE MemInv' BY <1>3, DaysKeep
<1> QED BY <1>1, <1>2, <1>3 DEF SmNext

LEMMA WorthFollows == ASSUME SessionMemoryAssumption, MemInv PROVE WorthIsEarned
<1> SUFFICES ASSUME NEW k \in UserFacts \cup Outputs
             PROVE  LET entry == memory.entries[k]
                    IN /\ \A i, j \in DOMAIN entry.support : entry.support[i] = entry.support[j] => i = j
                       /\ Len(entry.support) < SupportKept =>
                            entry.accepted <= Len(entry.support) + 2 * entry.recalled
                       /\ entry.recalled <= carried[k]
  BY DEF WorthIsEarned
<1>1. k \in Keys BY DEF Keys
<1> DEFINE held == {c \in Callers : k \in caller[c].packet}
<1>2. memory.entries[k] \in MemEntry /\ Justified(memory.entries[k]) /\ memory.entries[k].recalled <= Room(Callers)[k]
  BY <1>1 DEF MemInv, FileEarned, Backed
<1>3. Room(Callers)[k] = carried[k] - Cardinality(held) BY <1>1 DEF Room
<1>4. IsFiniteSet(held) BY FS_Subset DEF SessionMemoryAssumption
<1> HIDE DEF held
<1>5. Cardinality(held) \in Nat /\ carried[k] \in Nat BY <1>1, <1>4, FS_CardinalityType DEF MemInv, MemTyped
<1>6. memory.entries[k].recalled \in Nat BY <1>2 DEF MemEntry
<1>7. memory.entries[k].recalled <= carried[k] BY <1>2, <1>3, <1>5, <1>6
<1> QED BY <1>2, <1>7 DEF Justified, Distinct

\* For all callers, facts and outputs, and whatever the limits: what an entry is worth was
\* earned, by its deliveries, each counted once while the support goes back to all of them,
\* and by the requests that recalled it (WorthIsEarned).
THEOREM WorthAlwaysEarned == SmSpec => []WorthIsEarned
<1>1. SmInit => MemInv BY SessionMemoryAssumption, MemInit
<1>2. MemInv /\ [SmNext]_smvars => MemInv' BY SessionMemoryAssumption, MemInvStays
<1>3. MemInv => WorthIsEarned BY SessionMemoryAssumption, WorthFollows
<1> QED BY <1>1, <1>2, <1>3, PTL DEF SmSpec

---------------------------------------------------------------------------
(***************************************************************************)
(* Team delivery.  The lists of agents are built by a recursive function,  *)
(* taken apart as above; the rest is one invariant of the pipeline.        *)
(***************************************************************************)
Texts == {"none", "good", "plain", "scope", "error", "pass", "fail"}
Warnings == {"info", "gap", "runtime", "blocker", "other"}
StepSet == [by : Roster, text : Texts, warns : SUBSET Warnings, error : BOOLEAN]
PlanSet == [mode : {"none", "team", "direct", "internal_status"},
            reason : {"none", "council", "internal", "operator", "positioning", "sure", "skill",
                      "fallback", "planner", "override"},
            workers : Seq(Roster)]
AnswerOf == [text : Texts \cup {"unable"}, step : Nat,
             how : {"none", "best", "starter", "gated", "manager", "worker", "repaired", "template"}]

TeamTyped ==
    /\ req \in Requests /\ plan \in PlanSet /\ steps \in Seq(StepSet) /\ answer \in AnswerOf
    /\ at \in {"route", "work", "answer", "repair", "assess", "done"}
    /\ at \in {"work", "repair", "assess"} => plan.mode = "team"
\* What an agent answers carries its name; the reason of a failure is told as one; only
\* the gate says that a text fails.
ReceiptOk(x, w) ==
    /\ x \in StepSet /\ x.by = w
    /\ x.text = "error" => x.error \/ x.warns \cap {"runtime", "blocker"} # {}
    /\ x.text = "fail" => w = "AEGIS"
\* The steps follow the plan.
AsPlanned ==
    /\ at = "route" => steps = <<>>
    /\ \A i \in DOMAIN steps : /\ i \in DOMAIN plan.workers /\ steps[i].by = plan.workers[i]
                               /\ ReceiptOk(steps[i], steps[i].by)
PlanFree ==
    \A i \in DOMAIN plan.workers :
        plan.workers[i] \in barred \ unread => plan.workers[i] = "QUILL" /\ plan.reason = "planner" /\ req.writer
Sectioned == plan.reason = "skill" /\ req.skill \in {"competitor", "web"}
GateLast(ws) == \A i \in DOMAIN ws : ws[i] = "AEGIS" => i = Len(ws)
\* Where the gate comes last, it was shown what stays the best text.
GateShown ==
    Sectioned => /\ GateLast(plan.workers)
                 /\ \A i \in DOMAIN steps : steps[i].by = "AEGIS" => steps[i] \in Gate /\ shown = Best(steps)
GateTook ==
    answer.how = "gated" =>
        /\ at \in {"repair", "assess", "done"} /\ GatePassed /\ answer.step = Best(steps)
        /\ req.skill \in {"competitor", "web"} /\ Fits(answer.text)
TextKnown ==
    at \in {"repair", "assess", "done"} /\ plan.mode = "team" =>
        \/ answer.text \in {"good", "plain"}
        \/ Best(steps) # 0 /\ answer.text = TextOf(Best(steps))
        \/ Best(steps) = 0 /\ answer.text = "unable"
Whole ==
    at \in {"assess", "done"} /\ plan.mode = "team" /\ Salvaged # "none" => answer.text = Salvaged
Judged == quality # "none" => at = "done" /\ plan.mode = "team" /\ quality = Assessed
TeamInv == TeamTyped /\ AsPlanned /\ PlanFree /\ GateShown /\ GateTook /\ TextKnown /\ Whole /\ Judged

\* Agents are listed one after the other, and none of the restricted ones is.
LEMMA WithFree ==
  ASSUME NEW q \in Seq(Roster \ FoundRestricted), NEW w \in Roster
  PROVE  With(q, w) \in Seq(Roster \ FoundRestricted)
BY DEF With
LEMMA StandsFree == \A w \in Roster : StandIn(w) \in Roster
BY DEF StandIn, Roster

\* The lists the choice goes through.
LEMMA ChooseUnrolls ==
  ASSUME NEW ws \in Seq(Roster)
  PROVE  \E q : /\ Choose(ws) = q[Len(ws)] /\ q[0] = <<>>
                /\ \A n \in 1 .. Len(ws) : q[n] = With(q[n - 1], StandIn(ws[n]))
                /\ q[Len(ws)] \in Seq(Roster \ FoundRestricted)
<1> DEFINE N == Len(ws)
           X == Seq(Roster \ FoundRestricted)
           Is(f) == f = [n \in 0 .. N |-> IF n = 0 THEN <<>> ELSE With(f[n - 1], StandIn(ws[n]))]
           taken == CHOOSE f : Is(f)
           G == [p \in (1 .. N) \X X |-> With(p[2], StandIn(ws[p[1]]))]
<1>1. N \in Nat /\ <<>> \in X OBVIOUS
<1>2. ASSUME NEW e \in X, NEW n \in 1 .. N PROVE With(e, StandIn(ws[n])) \in X
  <2>1. StandIn(ws[n]) \in Roster BY StandsFree
  <2>2. e \in Seq(Roster \ FoundRestricted) OBVIOUS
  <2> QED BY <2>1, <2>2, WithFree
<1>3. Choose(ws) = taken[N] BY Zenon DEF Choose
<1> HIDE DEF X, N
<1>4. G \in [(1 .. N) \X X -> X] BY <1>2
<1>5. \A n \in 1 .. N, e \in X : G[<<n, e>>] = With(e, StandIn(ws[n])) OBVIOUS
<1> DEFINE b == <<>>
<1> HIDE DEF G, b
<1>6. PICK f \in [0 .. N -> X] : Follows(f, b, N, G)
  <2>1. b \in X BY <1>1 DEF b
  <2> QED BY <1>1, <1>4, <2>1, Recursion
<1>7. ASSUME NEW n \in 0 .. N, n # 0 PROVE f[n] = With(f[n - 1], StandIn(ws[n]))
  <2>1. n \in 1 .. N /\ n - 1 \in 0 .. N BY <1>1, <1>7
  <2>2. f[n - 1] \in X BY <2>1
  <2>3. f[n] = G[<<n, f[n - 1]>>] BY <1>6, <2>1 DEF Follows
  <2> QED BY <1>5, <2>1, <2>2, <2>3
<1>8. \A n \in 0 .. N : f[n] = IF n = 0 THEN <<>> ELSE With(f[n - 1], StandIn(ws[n]))
  BY <1>6, <1>7 DEF b, Follows
<1>9. Is(f) BY <1>8
<1> HIDE DEF Is
<1>10. Is(taken) BY <1>9, Zenon
<1> HIDE DEF taken
<1>11. \A n \in 0 .. N : taken[n] = IF n = 0 THEN <<>> ELSE With(taken[n - 1], StandIn(ws[n])) BY <1>10 DEF Is
<1> DEFINE S == {n \in 0 .. N : taken[n] \in X}
<1>12. 0 \in S BY <1>1, <1>11
<1>13. ASSUME NEW n \in 0 .. N, n < N, n \in S PROVE n + 1 \in S
  <2>1. n + 1 \in 0 .. N /\ n + 1 # 0 /\ (n + 1) - 1 = n /\ n + 1 \in 1 .. N BY <1>1, <1>13
  <2>2. taken[n + 1] = With(taken[n], StandIn(ws[n + 1])) BY <1>11, <2>1
  <2> QED BY <1>2, <1>13, <2>1, <2>2
<1>14. taken[N] \in X
  <2> HIDE DEF S
  <2>1. 0 .. N \subseteq S BY <1>1, <1>12, <1>13, UpTo
  <2>2. N \in 0 .. N BY <1>1
  <2> QED BY <2>1, <2>2 DEF S
<1>15. /\ taken[0] = <<>>
       /\ \A n \in 1 .. N : taken[n] = With(taken[n - 1], StandIn(ws[n]))
  <2>1. 0 \in 0 .. N /\ \A n \in 1 .. N : n \in 0 .. N /\ n # 0 BY <1>1
  <2> QED BY <1>11, <2>1
<1> QED BY <1>3, <1>14, <1>15 DEF X, N

LEMMA ChooseFree ==
  ASSUME NEW ws \in Seq(Roster)
  PROVE  Choose(ws) \in Seq(Roster \ FoundRestricted)
BY ChooseUnrolls

\* Of two or three agents, none of them SENTINEL, the last stays last.
LEMMA LastStays ==
  ASSUME NEW ws \in Seq(Roster), Len(ws) \in 1 .. 3, GateLast(ws), \A i \in DOMAIN ws : ws[i] # "SENTINEL"
  PROVE  GateLast(Choose(ws))
<1>1. PICK q : /\ Choose(ws) = q[Len(ws)] /\ q[0] = <<>>
               /\ \A n \in 1 .. Len(ws) : q[n] = With(q[n - 1], StandIn(ws[n]))
  BY ChooseUnrolls
<1>2. \A n \in 1 .. Len(ws) : StandIn(ws[n]) = ws[n] BY DEF StandIn
<1>3. \A s \in Seq(Roster), w \in Roster : With(s, w) \in Seq(Roster) BY DEF With
<1> DEFINE NoGate(s) == s \in Seq(Roster) /\ \A i \in DOMAIN s : s[i] # "AEGIS"
<1>4. \A s : \A w \in Roster : NoGate(s) /\ w # "AEGIS" => NoGate(With(s, w)) BY DEF With
<1>5. \A s : \A w \in Roster : NoGate(s) => GateLast(With(s, w)) BY DEF With, GateLast
<1>6. NoGate(q[0]) BY <1>1
<1> HIDE DEF NoGate
<1>7. ASSUME NEW n \in 1 .. Len(ws), n < Len(ws), NoGate(q[n - 1]) PROVE NoGate(q[n])
  <2>1. ws[n] # "AEGIS" /\ ws[n] \in Roster BY <1>7 DEF GateLast
  <2>2. q[n] = With(q[n - 1], ws[n]) BY <1>1, <1>2
  <2> QED BY <1>4, <1>7, <2>1, <2>2
<1>8. NoGate(q[Len(ws) - 1])
  <2>1. ASSUME 1 < Len(ws) PROVE NoGate(q[1])
    <3>1. 1 \in 1 .. Len(ws) /\ 1 - 1 = 0 BY <2>1
    <3> QED BY <1>6, <1>7, <2>1, <3>1
  <2>2. ASSUME 2 < Len(ws) PROVE NoGate(q[2])
    <3>1. 2 \in 1 .. Len(ws) /\ 2 - 1 = 1 BY <2>2
    <3> QED BY <1>7, <2>1, <2>2, <3>1
  <2>3. CASE Len(ws) = 1
    <3>1. Len(ws) - 1 = 0 BY <2>3
    <3> QED BY <1>6, <3>1
  <2>4. CASE Len(ws) = 2
    <3>1. Len(ws) - 1 = 1 /\ 1 < Len(ws) BY <2>4
    <3> QED BY <2>1, <3>1
  <2>5. CASE Len(ws) = 3
    <3>1. Len(ws) - 1 = 2 /\ 2 < Len(ws) BY <2>5
    <3> QED BY <2>2, <3>1
  <2> QED BY <2>3, <2>4, <2>5
<1>9. q[Len(ws)] = With(q[Len(ws) - 1], ws[Len(ws)]) /\ ws[Len(ws)] \in Roster BY <1>1, <1>2
<1> QED BY <1>1, <1>5, <1>8, <1>9

LEMMA PositioningFree ==
  ASSUME NEW ws \in Seq(Roster \ FoundRestricted)
  PROVE  Positioning(ws) \in Seq(Roster \ FoundRestricted)
<1> DEFINE N == Len(ws)
           X == Seq(Roster \ FoundRestricted)
           Next(n, e) == IF ws[n] \in {"QUILL", "AEGIS", "PULSE"} THEN Append(e, ws[n]) ELSE e
           Is(f) == f = [n \in 0 .. N |-> IF n = 0 THEN <<>>
                                          ELSE IF ws[n] \in {"QUILL", "AEGIS", "PULSE"} THEN Append(f[n - 1], ws[n])
                                          ELSE f[n - 1]]
           kept == CHOOSE f : Is(f)
           G == [p \in (1 .. N) \X X |-> Next(p[1], p[2])]
<1>1. N \in Nat /\ <<>> \in X OBVIOUS
<1>2. ASSUME NEW e \in X, NEW n \in 1 .. N PROVE Next(n, e) \in X OBVIOUS
<1>3. Positioning(ws) = With(With(kept[N], "QUILL"), "AEGIS") BY Zenon DEF Positioning
<1> HIDE DEF X, N, Next
<1>4. G \in [(1 .. N) \X X -> X] BY <1>2
<1>5. \A n \in 1 .. N, e \in X : G[<<n, e>>] = Next(n, e) OBVIOUS
<1> DEFINE b == <<>>
<1> HIDE DEF G, b
<1>6. PICK f \in [0 .. N -> X] : Follows(f, b, N, G)
  <2>1. b \in X BY <1>1 DEF b
  <2> QED BY <1>1, <1>4, <2>1, Recursion
<1>7. ASSUME NEW n \in 0 .. N, n # 0 PROVE f[n] = Next(n, f[n - 1])
  <2>1. n \in 1 .. N /\ n - 1 \in 0 .. N BY <1>1, <1>7
  <2>2. f[n - 1] \in X BY <2>1
  <2>3. f[n] = G[<<n, f[n - 1]>>] BY <1>6, <2>1 DEF Follows
  <2> QED BY <1>5, <2>1, <2>2, <2>3
<1>8. \A n \in 0 .. N : f[n] = IF n = 0 THEN <<>>
                               ELSE IF ws[n] \in {"QUILL", "AEGIS", "PULSE"} THEN Append(f[n - 1], ws[n])
                               ELSE f[n - 1]
  BY <1>6, <1>7 DEF b, Follows, Next
<1>9. Is(f) BY <1>8
<1> HIDE DEF Is
<1>10. Is(kept) BY <1>9, Zenon
<1> HIDE DEF kept
<1>11. \A n \in 0 .. N : kept[n] = IF n = 0 THEN <<>> ELSE Next(n, kept[n - 1]) BY <1>10 DEF Is, Next
<1> DEFINE S == {n \in 0 .. N : kept[n] \in X}
<1>12. 0 \in S BY <1>1, <1>11
<1>13. ASSUME NEW n \in 0 .. N, n < N, n \in S PROVE n + 1 \in S
  <2>1. n + 1 \in 0 .. N /\ n + 1 # 0 /\ (n + 1) - 1 = n /\ n + 1 \in 1 .. N BY <1>1, <1>13
  <2>2. kept[n + 1] = Next(n + 1, kept[n]) BY <1>11, <2>1
  <2> QED BY <1>2, <1>13, <2>1, <2>2
<1>14. kept[N] \in X
  <2> HIDE DEF S
  <2>1. 0 .. N \subseteq S BY <1>1, <1>12, <1>13, UpTo
  <2>2. N \in 0 .. N BY <1>1
  <2> QED BY <2>1, <2>2 DEF S
<1>15. "QUILL" \in Roster /\ "AEGIS" \in Roster BY DEF Roster
<1>16. With(kept[N], "QUILL") \in Seq(Roster \ FoundRestricted) BY <1>14, <1>15, WithFree DEF X
<1> QED BY <1>3, <1>15, <1>16, WithFree

\* Every list of agents that is chosen leaves the restricted ones out.
LEMMA ListsFree ==
  ASSUME NEW r
  PROVE  /\ Fallback(r) \in Seq(Roster \ FoundRestricted)
         /\ Refine(r, Seed(r)) \in Seq(Roster \ FoundRestricted)
         /\ Positioning(Choose(<<"QUILL", "AEGIS">>)) \in Seq(Roster \ FoundRestricted)
         /\ \A ws \in {<<"ATLAS", "SENTINEL", "QUILL", "AEGIS", "FORGE", "PULSE">>, <<"FORGE", "QUILL", "AEGIS">>,
                       <<>>, <<"ATLAS", "QUILL">>, <<"SENTINEL", "PULSE">>, <<"AEGIS", "QUILL">>} :
              Choose(ws) \in Seq(Roster \ FoundRestricted)
<1>1. /\ {"ATLAS", "SENTINEL", "QUILL", "AEGIS", "FORGE", "PULSE"} \subseteq Roster
      /\ Seq(Roster \ FoundRestricted) \subseteq Seq(Roster)
  BY DEF Roster
<1>2. /\ <<"ATLAS", "SENTINEL", "QUILL", "AEGIS", "FORGE", "PULSE">> \in Seq(Roster)
      /\ <<"FORGE", "QUILL", "AEGIS">> \in Seq(Roster) /\ <<>> \in Seq(Roster) /\ <<"ATLAS", "QUILL">> \in Seq(Roster)
      /\ <<"SENTINEL", "PULSE">> \in Seq(Roster) /\ <<"AEGIS", "QUILL">> \in Seq(Roster)
      /\ <<"QUILL", "AEGIS">> \in Seq(Roster) /\ <<"ATLAS", "QUILL", "AEGIS">> \in Seq(Roster)
      /\ <<"ATLAS", "AEGIS">> \in Seq(Roster) /\ <<"ATLAS">> \in Seq(Roster) /\ <<"FORGE", "PULSE">> \in Seq(Roster)
      /\ <<"QUILL">> \in Seq(Roster)
  BY <1>1
<1>3. \A ws \in Seq(Roster) : Choose(ws) \in Seq(Roster \ FoundRestricted) BY ChooseFree
<1>4. Fallback(r) \in Seq(Roster \ FoundRestricted)
  <2>1. <<"ATLAS", "AEGIS">> \o (IF r.writer THEN <<"QUILL">> ELSE <<>>) \in Seq(Roster) BY <1>2
  <2> QED BY <1>3, <2>1 DEF Fallback
<1>5. Seed(r) \in Seq(Roster)
  <2>1. Fallback(r) \in Seq(Roster) BY <1>1, <1>4
  <2> QED BY <1>2, <2>1 DEF Seed
<1>6. Refine(r, Seed(r)) \in Seq(Roster \ FoundRestricted)
  <2> DEFINE ws == Seed(r)
  <2> HIDE DEF ws
  <2>1. Choose(ws) \in Seq(Roster \ FoundRestricted) BY <1>3, <1>5 DEF ws
  <2>2. /\ Choose(<<"QUILL", "AEGIS">>) \in Seq(Roster \ FoundRestricted)
        /\ Choose(<<"ATLAS", "QUILL", "AEGIS">>) \in Seq(Roster \ FoundRestricted)
        /\ Choose(<<"ATLAS", "AEGIS">>) \in Seq(Roster \ FoundRestricted)
        /\ Choose(<<"ATLAS">>) \in Seq(Roster \ FoundRestricted)
    BY <1>2, <1>3
  <2>3. Refine(r, ws) \in Seq(Roster \ FoundRestricted) BY <2>1, <2>2, Zenon DEF Refine
  <2> QED BY <2>3 DEF ws
<1>7. Positioning(Choose(<<"QUILL", "AEGIS">>)) \in Seq(Roster \ FoundRestricted)
  <2>1. Choose(<<"QUILL", "AEGIS">>) \in Seq(Roster \ FoundRestricted) BY <1>2, <1>3
  <2> QED BY <2>1, PositioningFree
<1>8. \A ws \in {<<"ATLAS", "SENTINEL", "QUILL", "AEGIS", "FORGE", "PULSE">>, <<"FORGE", "QUILL", "AEGIS">>,
                 <<>>, <<"ATLAS", "QUILL">>, <<"SENTINEL", "PULSE">>, <<"AEGIS", "QUILL">>} :
         ws \in Seq(Roster)
  BY <1>2
<1> QED BY <1>3, <1>4, <1>6, <1>7, <1>8

\* The gate comes last for a competitor scan and for web research.
LEMMA SectionedLast ==
  ASSUME NEW r, r.skill \in {"competitor", "web"}
  PROVE  GateLast(Refine(r, Seed(r)))
<1>1. /\ <<"ATLAS", "AEGIS">> \in Seq(Roster) /\ <<"ATLAS", "QUILL", "AEGIS">> \in Seq(Roster)
      /\ GateLast(<<"ATLAS", "AEGIS">>) /\ GateLast(<<"ATLAS", "QUILL", "AEGIS">>)
      /\ \A i \in DOMAIN <<"ATLAS", "AEGIS">> : <<"ATLAS", "AEGIS">>[i] # "SENTINEL"
      /\ \A i \in DOMAIN <<"ATLAS", "QUILL", "AEGIS">> : <<"ATLAS", "QUILL", "AEGIS">>[i] # "SENTINEL"
  BY DEF Roster, GateLast
<1>2. GateLast(Choose(<<"ATLAS", "AEGIS">>)) /\ GateLast(Choose(<<"ATLAS", "QUILL", "AEGIS">>))
  <2>1. Len(<<"ATLAS", "AEGIS">>) \in 1 .. 3 /\ Len(<<"ATLAS", "QUILL", "AEGIS">>) \in 1 .. 3 OBVIOUS
  <2> QED BY <1>1, <2>1, LastStays
<1>3. r.skill = "competitor" => Seed(r) = <<"ATLAS", "AEGIS">> BY DEF Seed
<1>4. Refine(r, Seed(r)) \in {Choose(<<"ATLAS", "AEGIS">>), Choose(<<"ATLAS", "QUILL", "AEGIS">>)}
  <2>1. CASE r.skill = "competitor"
    <3>1. Seed(r) = <<"ATLAS", "AEGIS">> BY <1>3, <2>1
    <3> QED BY <2>1, <3>1 DEF Refine
  <2>2. CASE r.skill = "web" BY <2>2 DEF Refine
  <2> QED BY <2>1, <2>2
<1> QED BY <1>2, <1>4

\* A plan has none of the restricted agents, but for the writer a planned team is given.
PlanOk(p, r) ==
    /\ p \in PlanSet
    /\ \A i \in DOMAIN p.workers :
         p.workers[i] \in FoundRestricted => p.workers[i] = "QUILL" /\ p.reason = "planner" /\ r.writer
    /\ p.reason = "skill" /\ r.skill \in {"competitor", "web"} => GateLast(p.workers)

LEMMA FreePlan ==
  ASSUME NEW r, NEW ws \in Seq(Roster \ FoundRestricted), NEW reason \in {"council", "operator", "positioning", "fallback"}
  PROVE  PlanOk(Team(reason, ws), r)
<1>1. ws \in Seq(Roster) /\ \A i \in DOMAIN ws : ws[i] \notin FoundRestricted OBVIOUS
<1> QED BY <1>1 DEF PlanOk, Team, PlanSet

LEMMA DirectPlan ==
  ASSUME NEW r, NEW reason \in {"internal", "sure", "fallback", "planner", "override"}
  PROVE  PlanOk(Direct(reason), r) /\ PlanOk([Direct("internal") EXCEPT !.mode = "internal_status"], r)
<1>1. <<>> \in Seq(Roster) /\ DOMAIN <<>> = {} OBVIOUS
<1>2. Direct(reason) = [mode |-> "direct", reason |-> reason, workers |-> <<>>] BY DEF Direct
<1>3. [Direct("internal") EXCEPT !.mode = "internal_status"]
        = [mode |-> "internal_status", reason |-> "internal", workers |-> <<>>]
  BY DEF Direct
<1>4. \A p : /\ p.workers = <<>> /\ p \in PlanSet /\ p.reason # "skill" => PlanOk(p, r)
  BY <1>1 DEF PlanOk
<1>5. [mode |-> "direct", reason |-> reason, workers |-> <<>>] \in PlanSet
  BY <1>1 DEF PlanSet
<1>6. [mode |-> "internal_status", reason |-> "internal", workers |-> <<>>] \in PlanSet
  BY <1>1 DEF PlanSet
<1>7. PlanOk(Direct(reason), r) BY <1>2, <1>4, <1>5
<1> QED BY <1>3, <1>4, <1>6, <1>7

LEMMA WriterPlan ==
  ASSUME NEW r, r.writer \in BOOLEAN, NEW ws \in Seq(Roster \ FoundRestricted)
  PROVE  PlanOk(Team("planner", WithWriter(r, ws)), r)
<1>1. ws \in Seq(Roster) /\ \A i \in DOMAIN ws : ws[i] \notin FoundRestricted OBVIOUS
<1>2. "QUILL" \in Roster BY DEF Roster
<1>3. WithWriter(r, ws) \in Seq(Roster) BY <1>1, <1>2 DEF WithWriter
<1>4. ASSUME NEW i \in DOMAIN WithWriter(r, ws), WithWriter(r, ws)[i] \in FoundRestricted
      PROVE  WithWriter(r, ws)[i] = "QUILL" /\ r.writer
  <2>1. CASE WithWriter(r, ws) = ws BY <1>1, <1>4, <2>1
  <2>2. CASE WithWriter(r, ws) = Append(ws, "QUILL") /\ r.writer
    <3>1. i \in DOMAIN ws => Append(ws, "QUILL")[i] = ws[i] BY <1>1
    <3>2. i \notin DOMAIN ws => Append(ws, "QUILL")[i] = "QUILL" BY <1>1, <1>4, <2>2
    <3> QED BY <1>1, <1>4, <2>2, <3>1, <3>2
  <2> QED BY <2>1, <2>2 DEF WithWriter
<1> HIDE DEF WithWriter
<1> QED BY <1>3, <1>4 DEF PlanOk, Team, PlanSet

LEMMA PlansOk ==
  ASSUME NEW r, r.lane \in Lanes, r.writer \in BOOLEAN, NEW p \in Plans(r)
  PROVE  PlanOk(p, r)
<1> DEFINE F == Seq(Roster \ FoundRestricted)
           ordered(ws) == IF Choose(ws) = <<>> THEN Fallback(r) ELSE Choose(ws)
           lists == {<<>>, <<"ATLAS", "QUILL">>, <<"SENTINEL", "PULSE">>, <<"AEGIS", "QUILL">>}
<1>1. CASE r.lane # "none"
  <2>1. p = LanePlan(r) BY <1>1 DEF Plans
  <2>2. CASE r.lane = "council" BY <2>1, <2>2, ListsFree, FreePlan DEF LanePlan
  <2>3. CASE r.lane = "internal" BY <2>1, <2>3, DirectPlan DEF LanePlan
  <2>4. CASE r.lane = "operator" BY <2>1, <2>4, ListsFree, FreePlan DEF LanePlan
  <2>5. CASE r.lane = "positioning" BY <2>1, <2>5, ListsFree, FreePlan DEF LanePlan
  <2> QED BY <1>1, <2>2, <2>3, <2>4, <2>5 DEF Lanes
<1>2. ASSUME p = SkillPlan(r) PROVE PlanOk(p, r)
  <2>1. CASE p = Direct("sure") BY <2>1, DirectPlan
  <2>2. CASE p = Team("skill", Refine(r, Seed(r)))
    <3> DEFINE ws == Refine(r, Seed(r))
    <3>1. ws \in F BY ListsFree
    <3>2. r.skill \in {"competitor", "web"} => GateLast(ws) BY SectionedLast
    <3> HIDE DEF ws
    <3>3. ws \in Seq(Roster) /\ \A i \in DOMAIN ws : ws[i] \notin FoundRestricted BY <3>1
    <3>4. p = Team("skill", ws) BY <2>2 DEF ws
    <3> QED BY <3>2, <3>3, <3>4 DEF PlanOk, Team, PlanSet
  <2> QED BY <1>2, <2>1, <2>2 DEF SkillPlan
<1>3. ASSUME p \in PlannerPlans(r) PROVE PlanOk(p, r)
  <2>1. CASE p = Team("fallback", Fallback(r)) BY <2>1, ListsFree, FreePlan
  <2>2. CASE p \in {Direct("fallback"), Direct("planner"), Direct("override")} BY <2>2, DirectPlan
  <2>3. CASE \E ws \in lists : p = Team("planner", WithWriter(r, ordered(ws)))
    <3>1. PICK ws \in lists : p = Team("planner", WithWriter(r, ordered(ws))) BY <2>3
    <3>2. Choose(ws) \in F /\ Fallback(r) \in F BY ListsFree
    <3>3. ordered(ws) \in F BY <3>2
    <3> HIDE DEF ordered
    <3> QED BY <3>1, <3>3, WriterPlan
  <2> QED BY <1>3, <2>1, <2>2, <2>3 DEF PlannerPlans
<1>4. CASE r.lane = "none"
  <2>1. p = SkillPlan(r) \/ p = Direct("sure") \/ p \in PlannerPlans(r) BY <1>4 DEF Plans
  <2> QED BY <1>2, <1>3, <2>1, DirectPlan
<1> QED BY <1>1, <1>4

---------------------------------------------------------------------------
LEMMA ReceiptsOk ==
  ASSUME NEW w \in Roster, NEW x \in Receipts(w)
  PROVE  ReceiptOk(x, w)
<1> USE DEF Texts, Warnings
<1>1. ASSUME NEW t \in Texts, NEW ws \in SUBSET Warnings
      PROVE  /\ Receipt(w, t, ws) \in StepSet
             /\ Receipt(w, t, ws).by = w /\ Receipt(w, t, ws).text = t /\ Receipt(w, t, ws).warns = ws
  BY DEF Receipt, StepSet
<1>2. CASE x \in Facts(w) BY <1>2, <1>1 DEF Facts, ReceiptOk
<1>3. CASE w = "ATLAS" /\ x \in WebFetch BY <1>3, <1>1 DEF WebFetch, ReceiptOk
<1>4. CASE w = "ATLAS" /\ x \in Research
  <2>1. PICK text \in {"good", "plain", "error", "none"} :
           x = IF Salvages(text, text = "error")
               THEN Receipt("ATLAS", "good", (IF text = "error" THEN {"runtime"} ELSE {}) \cup {"info"})
               ELSE Receipt("ATLAS", text, IF text = "error" THEN {"runtime"}
                                           ELSE IF text = "none" THEN {"gap"} ELSE {})
    BY <1>4 DEF Research
  <2> QED BY <1>4, <1>1, <2>1 DEF ReceiptOk
<1>5. CASE w = "AEGIS" /\ x \in Gate
  <2>1. CASE x = [Receipt("AEGIS", "error", {"runtime"}) EXCEPT !.error = TRUE]
    <3>1. x = [by |-> "AEGIS", text |-> "error", warns |-> {"runtime"}, error |-> TRUE] BY <2>1 DEF Receipt
    <3>2. x \in StepSet BY <3>1 DEF StepSet, Roster
    <3> QED BY <1>5, <3>1, <3>2 DEF ReceiptOk
  <2>2. CASE \/ x = Receipt("AEGIS", "pass", {}) \/ x = Receipt("AEGIS", "fail", {"gap"})
            \/ x = Receipt("AEGIS", "fail", {"other"})
    BY <1>5, <1>1, <2>2 DEF ReceiptOk
  <2> QED BY <1>5, <2>1, <2>2 DEF Gate
<1>6. ASSUME NEW y \in Loom(w)
      PROVE  y \in StepSet /\ ReceiptOk(y, w)
  BY <1>1 DEF Loom, ReceiptOk
<1>7. ASSUME NEW y \in Loom(w), NEW z \in Recovered(y) PROVE ReceiptOk(z, w)
  <2>1. CASE z = y BY <1>6, <2>1
  <2>2. CASE \E t \in {"plain", "good"} :
               z = [y EXCEPT !.text = t, !.warns = IF "blocker" \in @ THEN {"blocker"} ELSE {"other"}]
    <3>1. y \in StepSet /\ y.by = w BY <1>6 DEF ReceiptOk
    <3>2. PICK t \in {"plain", "good"} :
             z = [y EXCEPT !.text = t, !.warns = IF "blocker" \in y.warns THEN {"blocker"} ELSE {"other"}]
      BY <2>2, <3>1 DEF StepSet
    <3>3. z \in StepSet /\ z.by = w /\ z.text = t BY <3>1, <3>2 DEF StepSet
    <3> QED BY <3>3 DEF ReceiptOk
  <2> QED BY <2>1, <2>2 DEF Recovered
<1>8. ASSUME NEW y, ReceiptOk(y, w) PROVE ReceiptOk(Rewritten(y), w)
  <2>1. CASE Rewritten(y) = y BY <1>8, <2>1
  <2>2. CASE Rewritten(y) = [y EXCEPT !.text = "good", !.warns = @ \cup {"info"}]
    <3>1. y \in StepSet /\ y.by = w BY <1>8 DEF ReceiptOk
    <3>2. Rewritten(y) = [y EXCEPT !.text = "good", !.warns = y.warns \cup {"info"}] BY <2>2, <3>1 DEF StepSet
    <3>3. Rewritten(y) \in StepSet /\ Rewritten(y).by = w /\ Rewritten(y).text = "good" BY <3>1, <3>2 DEF StepSet
    <3> QED BY <3>3 DEF ReceiptOk
  <2> QED BY <2>1, <2>2 DEF Rewritten
<1>9. ASSUME NEW t \in {"plain", "good", "scope"} PROVE ReceiptOk(Receipt(w, t, {"info"}), w)
  BY <1>1 DEF ReceiptOk
<1>10. CASE x \in Generic(w)
  <2>1. PICK z : /\ x = Rewritten(z)
                 /\ \/ \E t \in {"plain", "good", "scope"} : z = Receipt(w, t, {"info"})
                    \/ \E y \in Loom(w) : z \in Recovered(y)
    BY <1>10 DEF Generic
  <2>2. ReceiptOk(z, w) BY <1>7, <1>9, <2>1
  <2> QED BY <1>8, <2>1, <2>2
<1> QED BY <1>2, <1>3, <1>4, <1>5, <1>10 DEF Receipts

---------------------------------------------------------------------------
LEMMA ScoreType ==
  ASSUME NEW step
  PROVE  FitScore(step) \in Int
<1>1. \A c, n \in Int : Points(c, n) \in Int BY DEF Points
<1> QED BY <1>1 DEF FitScore, Points

\* The gate's own word is never the best artifact of a competitor scan or of web research.
LEMMA GateScore ==
  ASSUME req.skill \in {"competitor", "web"}, NEW x \in Gate
  PROVE  FitScore(x) <= 0
<1>1. /\ x.by = "AEGIS" /\ x.text \in {"pass", "fail", "error"} /\ x.warns \subseteq {"gap", "other", "runtime"}
  BY DEF Gate, Receipt
<1>2. TaskKind(x.by) = "qa_gate" BY <1>1 DEF TaskKind
<1>3. ~Fits(x.text) /\ ~FinalUsable(x.text) BY <1>1 DEF Fits, FinalUsable, Shaped
<1>4. ~Protocol(req) /\ ~Customer(req) BY DEF Protocol, Customer
<1>5. (IF Status(x) = "ok" THEN 8 ELSE -30) <= 8 /\ (IF Status(x) = "ok" THEN 8 ELSE -30) \in Int OBVIOUS
<1> QED BY <1>1, <1>2, <1>3, <1>4, <1>5 DEF FitScore, Points

\* An artifact one can use scores above nothing where no sections are ordered for.
LEMMA UsableScore ==
  ASSUME ~Shaped(req), NEW step \in StepSet, StepUsable(step), step.warns \subseteq {"info"}
  PROVE  FitScore(step) > 0
<1>1. Status(step) = "ok" /\ step.text \in {"good", "plain"} BY DEF StepUsable
<1>2. Fits(step.text) BY <1>1 DEF Fits
<1>3. /\ "blocker" \notin step.warns /\ "runtime" \notin step.warns /\ "gap" \notin step.warns
      /\ "other" \notin step.warns
  OBVIOUS
<1>4. \A c : /\ Points(c, 3) \in 0 .. 3 /\ Points(c, 6) \in 0 .. 6 /\ Points(c, 8) \in 0 .. 8
             /\ Points(c, 12) \in 0 .. 12 /\ Points(c, 2) \in 0 .. 2
  BY DEF Points
<1>5. /\ Points(step.text = "scope", 40) = 0 /\ Points("blocker" \in step.warns, 50) = 0
      /\ Points("runtime" \in step.warns, 25) = 0 /\ Points("gap" \in step.warns, 5) = 0
      /\ Points("other" \in step.warns, 2) = 0
  BY <1>1, <1>3 DEF Points
<1> DEFINE kind == TaskKind(step.by)
           p1 == Points(kind = "write", 8)  p2 == Points(kind = "research", 3)
           p3 == Points(kind \in {"verify", "qa_gate"}, 8)
           p4 == IF Protocol(req) THEN Points(kind = "write", 12) + Points(step.by = "FORGE", 2) ELSE 0
           p5 == Points(Customer(req) /\ kind = "research", 12)
           p6 == Points(req.skill \in {"web", "competitor"} /\ kind = "research", 6)
<1>6. p1 \in 0 .. 8 /\ p2 \in 0 .. 3 /\ p3 \in 0 .. 8 /\ p4 \in 0 .. 14 /\ p5 \in 0 .. 12 /\ p6 \in 0 .. 6
  BY <1>4
<1>7. FitScore(step) = 8 + 40 - 0 + p1 + p2 - p3 + p4 + p5 + p6 - 0 - 0 - 0 - 0
  BY <1>1, <1>2, <1>5 DEF FitScore
<1> HIDE DEF p1, p2, p3, p4, p5, p6
<1> QED BY <1>6, <1>7

Top(ss) == {i \in DOMAIN ss : /\ FitScore(ss[i]) > 0
                              /\ \A j \in DOMAIN ss : FitScore(ss[j]) <= FitScore(ss[i])}

LEMMA BestSays ==
  ASSUME NEW ss \in Seq(StepSet)
  PROVE  /\ Best(ss) \in Nat /\ (Best(ss) # 0 => Best(ss) \in DOMAIN ss)
         /\ (\E i \in DOMAIN ss : FitScore(ss[i]) > 0) => Best(ss) # 0
<1>1. Best(ss) = IF Top(ss) = {} THEN 0 ELSE CHOOSE i \in Top(ss) : \A j \in Top(ss) : i <= j
  BY DEF Best, Top
<1>2. IsFiniteSet(DOMAIN ss) /\ DOMAIN ss \subseteq Nat \ {0}
  <2>1. DOMAIN ss = 1 .. Len(ss) /\ Len(ss) \in Nat OBVIOUS
  <2>2. IsFiniteSet(1 .. Len(ss)) BY <2>1, FS_Interval
  <2>3. 1 .. Len(ss) \subseteq Nat \ {0} BY <2>1
  <2> QED BY <2>1, <2>2, <2>3
<1>3. ASSUME Top(ss) # {}
      PROVE  Best(ss) \in DOMAIN ss
  <2> DEFINE T == Top(ss)  F == [i \in T |-> -i]
  <2>1. T \subseteq DOMAIN ss BY DEF Top
  <2>2. IsFiniteSet(T) /\ T \subseteq Nat BY <1>2, <2>1, FS_Subset
  <2>3. F \in [T -> Int] BY <2>2
  <2>4. \E m \in T : \A k \in T : F[m] >= F[k]
    <3> HIDE DEF T, F
    <3>1. T # {} BY <1>3 DEF T
    <3> QED BY <2>2, <2>3, <3>1, GreatestExists
  <2>5. \E m \in T : \A k \in T : m <= k BY <2>2, <2>4
  <2>6. Best(ss) \in T BY <1>1, <1>3, <2>5
  <2> QED BY <2>1, <2>6
<1>4. ASSUME NEW i \in DOMAIN ss, FitScore(ss[i]) > 0 PROVE Top(ss) # {}
  <2> DEFINE T == DOMAIN ss  F == [j \in T |-> FitScore(ss[j])]
  <2>1. F \in [T -> Int] BY ScoreType
  <2>2. \E m \in T : \A k \in T : F[m] >= F[k]
    <3>1. T # {} /\ IsFiniteSet(T) BY <1>2, <1>4
    <3> HIDE DEF T, F
    <3> QED BY <2>1, <3>1, GreatestExists
  <2>3. PICK m \in T : \A k \in T : F[m] >= F[k] BY <2>2
  <2>4. \A k \in DOMAIN ss : FitScore(ss[k]) <= FitScore(ss[m]) /\ FitScore(ss[k]) \in Int BY <2>3, ScoreType
  <2>5. FitScore(ss[m]) > 0 BY <1>4, <2>3, <2>4, ScoreType
  <2> QED BY <2>3, <2>4, <2>5 DEF Top
<1>5. CASE Top(ss) = {}
  <2>1. Best(ss) = 0 BY <1>1, <1>5
  <2> QED BY <1>4, <1>5, <2>1
<1>6. CASE Top(ss) # {}
  <2>1. Best(ss) \in DOMAIN ss BY <1>3, <1>6
  <2>2. Best(ss) \in Nat \ {0} BY <1>2, <2>1
  <2> QED BY <2>1, <2>2
<1> QED BY <1>5, <1>6

LEMMA BestStays ==
  ASSUME NEW ss \in Seq(StepSet), NEW x \in StepSet, FitScore(x) <= 0
  PROVE  Best(Append(ss, x)) = Best(ss)
<1> DEFINE tt == Append(ss, x)
<1>1. /\ DOMAIN tt = DOMAIN ss \cup {Len(ss) + 1} /\ tt[Len(ss) + 1] = x
      /\ \A i \in DOMAIN ss : tt[i] = ss[i] /\ i # Len(ss) + 1
  OBVIOUS
<1> HIDE DEF tt
<1>2. \A s : FitScore(s) \in Int BY ScoreType
<1>3. Top(tt) = Top(ss)
  <2>1. ASSUME NEW i \in Top(ss) PROVE i \in Top(tt)
    <3>1. i \in DOMAIN ss /\ FitScore(ss[i]) > 0 /\ \A j \in DOMAIN ss : FitScore(ss[j]) <= FitScore(ss[i])
      BY <2>1 DEF Top
    <3>2. FitScore(x) <= FitScore(ss[i]) BY <1>2, <3>1
    <3> QED BY <1>1, <3>1, <3>2 DEF Top
  <2>2. ASSUME NEW i \in Top(tt) PROVE i \in Top(ss)
    <3>1. i \in DOMAIN tt /\ FitScore(tt[i]) > 0 /\ \A j \in DOMAIN tt : FitScore(tt[j]) <= FitScore(tt[i])
      BY <2>2 DEF Top
    <3>2. i # Len(ss) + 1 BY <1>1, <1>2, <3>1
    <3> QED BY <1>1, <3>1, <3>2 DEF Top
  <2> QED BY <2>1, <2>2
<1> DEFINE First(T) == IF T = {} THEN 0 ELSE CHOOSE i \in T : \A j \in T : i <= j
<1>4. Best(tt) = First(Top(tt)) /\ Best(ss) = First(Top(ss)) BY DEF Best, Top
<1> HIDE DEF First
<1>5. Best(tt) = Best(ss) BY <1>3, <1>4
<1> QED BY <1>5 DEF tt

---------------------------------------------------------------------------
LEMMA SameRequest ==
  ASSUME UNCHANGED req
  PROVE  /\ \A ss : Best(ss)' = Best(ss)
         /\ \A t : Fits(t)' = Fits(t) /\ FinalUsable(t)' = FinalUsable(t)
         /\ Salvaged' = Salvaged
<1>1. \A t : Fits(t)' = Fits(t) BY DEF Fits, Shaped
<1>2. \A t : FinalUsable(t)' = FinalUsable(t) BY DEF FinalUsable, Shaped
<1>3. \A s : FitScore(s)' = FitScore(s) BY <1>1, <1>2 DEF FitScore
<1>4. \A ss : Best(ss)' = Best(ss)
  <2> SUFFICES ASSUME NEW ss PROVE Best(ss)' = Best(ss) OBVIOUS
  <2> DEFINE First(T) == IF T = {} THEN 0 ELSE CHOOSE i \in T : \A j \in T : i <= j
  <2>1. Top(ss)' = Top(ss) BY <1>3 DEF Top
  <2>2. Best(ss) = First(Top(ss)) BY DEF Best, Top
  <2>3. Best(ss)' = First(Top(ss)') BY DEF Best, Top
  <2> HIDE DEF First
  <2> QED BY <2>1, <2>2, <2>3
<1> QED BY <1>1, <1>2, <1>4 DEF Salvaged, Shaped

LEMMA TeamAtFirst == ASSUME RequestAssumption, TdInit PROVE TeamInv
<1> USE DEF TdInit, NoPlan, NoAnswer
<1>1. TeamTyped BY DEF TeamTyped, PlanSet, AnswerOf, Texts
<1>2. DOMAIN steps = {} /\ DOMAIN plan.workers = {} OBVIOUS
<1> QED BY <1>1, <1>2 DEF TeamInv, AsPlanned, PlanFree, GateShown, Sectioned, GateLast, GateTook, TextKnown, Whole, Judged

LEMMA RouteKeeps == ASSUME RequestAssumption, TeamInv, Route PROVE TeamInv'
<1>1. /\ at = "route" /\ plan' \in Plans(req) /\ barred' = restricted
      /\ at' \in {"work", "answer"} /\ UNCHANGED <<req, load, restricted, unread, steps, shown, answer, quality>>
      /\ at' = "work" => plan'.mode = "team"
  BY DEF Route
<1>2. req.lane \in Lanes /\ req.writer \in BOOLEAN BY DEF RequestAssumption, TeamInv, TeamTyped
<1>3. PlanOk(plan', req) BY <1>1, <1>2, PlansOk
<1>4. steps = <<>> /\ DOMAIN steps = {} BY <1>1 DEF TeamInv, AsPlanned
<1>5. TeamTyped' BY <1>1, <1>3 DEF TeamInv, TeamTyped, PlanOk
<1>6. AsPlanned' BY <1>1, <1>4 DEF AsPlanned
<1>7. PlanFree' BY <1>1, <1>3 DEF PlanFree, PlanOk, FoundRestricted
<1>8. GateShown' BY <1>1, <1>3, <1>4 DEF GateShown, Sectioned, PlanOk
<1>9. answer.how # "gated" BY <1>1 DEF TeamInv, GateTook
<1>10. GateTook' BY <1>1, <1>9 DEF GateTook
<1>11. TextKnown' /\ Whole' BY <1>1 DEF TextKnown, Whole
<1>12. Judged' BY <1>1 DEF TeamInv, Judged
<1> QED BY <1>5, <1>6, <1>7, <1>8, <1>10, <1>11, <1>12 DEF TeamInv

LEMMA GateReceipt ==
  ASSUME Sectioned, NEW x \in Receipts("AEGIS")
  PROVE  x \in Gate
BY DEF Sectioned, Receipts, FactsMode

LEMMA WorkKeeps == ASSUME RequestAssumption, TeamInv, Work PROVE TeamInv'
<1> DEFINE N == Len(steps)  w == plan.workers[N + 1]
<1>1. /\ at = "work" /\ N < Len(plan.workers)
      /\ UNCHANGED <<req, load, restricted, unread, plan, at, answer, quality, barred>>
      /\ shown' = IF w = "AEGIS" THEN Best(steps) ELSE shown
  BY DEF Work
<1>2. PICK x \in Receipts(w) : steps' = Append(steps, x) BY DEF Work
<1>3. steps \in Seq(StepSet) /\ plan \in PlanSet /\ plan.workers \in Seq(Roster) /\ N \in Nat
  BY DEF TeamInv, TeamTyped, PlanSet
<1>4. w \in Roster /\ N + 1 \in DOMAIN plan.workers BY <1>1, <1>3
<1>5. ReceiptOk(x, w) /\ x \in StepSet /\ x.by = w
  <2> HIDE DEF w
  <2>1. ReceiptOk(x, w) BY <1>2, <1>4, ReceiptsOk
  <2> QED BY <2>1 DEF ReceiptOk
<1>6. /\ DOMAIN steps = 1 .. N /\ DOMAIN steps' = 1 .. (N + 1) /\ steps'[N + 1] = x
      /\ \A i \in 1 .. N : steps'[i] = steps[i] /\ i # N + 1
      /\ \A i \in 1 .. (N + 1) : i \in 1 .. N \/ i = N + 1
  BY <1>2, <1>3
<1>7. TeamTyped' BY <1>1, <1>2, <1>3, <1>5 DEF TeamInv, TeamTyped
<1>8. AsPlanned'
  <2>1. ASSUME NEW i \in DOMAIN steps'
        PROVE  /\ i \in DOMAIN plan.workers /\ steps'[i].by = plan.workers[i]
               /\ ReceiptOk(steps'[i], steps'[i].by)
    <3>1. CASE i = N + 1 BY <1>4, <1>5, <1>6, <3>1
    <3>2. CASE i \in 1 .. N BY <1>6, <3>2 DEF TeamInv, AsPlanned
    <3> QED BY <1>6, <2>1, <3>1, <3>2
  <2>2. at' = "work" /\ plan' = plan BY <1>1
  <2>3. \A y, v : ReceiptOk(y, v)' = ReceiptOk(y, v) BY DEF ReceiptOk
  <2> QED BY <2>1, <2>2, <2>3 DEF AsPlanned
<1>9. PlanFree' BY <1>1 DEF TeamInv, PlanFree
<1>10. GateShown'
  <2> SUFFICES ASSUME Sectioned
               PROVE  \A i \in DOMAIN steps' : steps'[i].by = "AEGIS" => steps'[i] \in Gate /\ shown' = Best(steps')
    <3>1. Sectioned' = Sectioned /\ Gate' = Gate BY <1>1 DEF Sectioned, Gate, Receipt
    <3>2. GateLast(plan.workers)' = GateLast(plan.workers) BY <1>1 DEF GateLast
    <3>3. \A ss : Best(ss)' = Best(ss) BY <1>1, SameRequest
    <3>4. Sectioned => GateLast(plan.workers) BY DEF TeamInv, GateShown
    <3> QED BY <3>1, <3>2, <3>3, <3>4 DEF GateShown
  <2>1. GateLast(plan.workers) BY DEF TeamInv, GateShown
  <2>2. ASSUME NEW i \in 1 .. N, steps[i].by = "AEGIS" PROVE FALSE
    <3>1. i \in DOMAIN plan.workers /\ plan.workers[i] = "AEGIS" BY <1>6, <2>2 DEF TeamInv, AsPlanned
    <3>2. i = Len(plan.workers) BY <2>1, <3>1 DEF GateLast
    <3> QED BY <1>1, <1>3, <2>2, <3>2
  <2>3. CASE w = "AEGIS"
    <3>1. x \in Gate BY <1>2, <2>3, GateReceipt
    <3>2. req.skill \in {"competitor", "web"} BY DEF Sectioned
    <3>3. FitScore(x) <= 0 BY <3>1, <3>2, GateScore
    <3>4. Best(steps') = Best(steps) BY <1>2, <1>3, <1>5, <3>3, BestStays
    <3> QED BY <1>1, <1>6, <2>2, <2>3, <3>1, <3>4
  <2>4. CASE w # "AEGIS" BY <1>5, <1>6, <2>2, <2>4
  <2> QED BY <2>3, <2>4
<1>11. GateTook' BY <1>1 DEF TeamInv, GateTook
<1>12. TextKnown' /\ Whole' BY <1>1 DEF TextKnown, Whole
<1>13. Judged' BY <1>1 DEF TeamInv, Judged
<1> QED BY <1>7, <1>8, <1>9, <1>10, <1>11, <1>12, <1>13 DEF TeamInv

\* What is the same when neither the plan, the steps nor the request change.
LEMMA SamePlan ==
  ASSUME RequestAssumption, TeamInv, UNCHANGED <<req, unread, plan, steps, shown, barred>>, at' # "route",
         answer' \in AnswerOf, at' \in {"work", "answer", "repair", "assess", "done"},
         at' \in {"work", "repair", "assess"} => plan.mode = "team"
  PROVE  TeamTyped' /\ AsPlanned' /\ PlanFree' /\ GateShown'
<1>1. TeamTyped' BY DEF TeamInv, TeamTyped
<1>2. AsPlanned' BY DEF TeamInv, AsPlanned, ReceiptOk
<1>3. PlanFree' BY DEF TeamInv, PlanFree
<1>4. GateShown'
  <2>1. Sectioned' = Sectioned /\ Gate' = Gate BY DEF Sectioned, Gate, Receipt
  <2>2. GateLast(plan.workers)' = GateLast(plan.workers) BY DEF GateLast
  <2>3. \A ss : Best(ss)' = Best(ss) BY SameRequest
  <2>4. GateShown BY DEF TeamInv
  <2> QED BY <2>1, <2>2, <2>3, <2>4 DEF GateShown
<1> QED BY <1>1, <1>2, <1>3, <1>4

LEMMA BestText ==
  ASSUME TeamInv
  PROVE  /\ Best(steps) \in Nat /\ TextOf(Best(steps)) \in Texts
         /\ Best(steps) # 0 => Best(steps) \in DOMAIN steps /\ TextOf(Best(steps)) = steps[Best(steps)].text
<1>1. steps \in Seq(StepSet) BY DEF TeamInv, TeamTyped
<1>2. Best(steps) \in Nat /\ (Best(steps) # 0 => Best(steps) \in DOMAIN steps) BY <1>1, BestSays
<1>3. \A i \in DOMAIN steps : steps[i].text \in Texts
  <2>1. \A i \in DOMAIN steps : steps[i] \in StepSet BY <1>1
  <2> QED BY <2>1 DEF StepSet
<1> QED BY <1>2, <1>3 DEF TextOf, Texts

LEMMA SameAnswer ==
  ASSUME UNCHANGED <<req, steps>>
  PROVE  /\ Best(steps)' = Best(steps) /\ TextOf(Best(steps))' = TextOf(Best(steps))
         /\ (\A t : Fits(t)' = Fits(t)) /\ Salvaged' = Salvaged /\ GatePassed' = GatePassed
<1>1. Best(steps)' = Best(steps) BY SameRequest
<1>2. TextOf(Best(steps))' = TextOf(Best(steps)) BY <1>1 DEF TextOf
<1>3. GatePassed' = GatePassed BY DEF GatePassed, Status
<1> QED BY <1>1, <1>2, <1>3, SameRequest

LEMMA AnswerRecord ==
  ASSUME NEW t \in Texts \cup {"unable"}, NEW n \in Nat,
         NEW h \in {"none", "best", "starter", "gated", "manager", "worker", "repaired", "template"}
  PROVE  [text |-> t, step |-> n, how |-> h] \in AnswerOf
BY DEF AnswerOf

LEMMA FastPathSays ==
  ASSUME TeamInv, NEW a \in FastPath
  PROVE  /\ a \in AnswerOf
         /\ (a.text = "good") \/ (Best(steps) # 0 /\ a.text = TextOf(Best(steps)))
         /\ a.how = "gated" => /\ GatePassed /\ a.step = Best(steps) /\ Fits(a.text)
                               /\ req.skill \in {"competitor", "web"}
<1> DEFINE best == Best(steps)
           fits == best # 0 /\ Fits(TextOf(best))
           take(how) == [text |-> TextOf(best), step |-> best, how |-> how]
<1>1. best \in Nat /\ TextOf(best) \in Texts BY BestText
<1>2. CASE a = take("best") /\ fits BY <1>1, <1>2 DEF AnswerOf
<1>3. CASE a = [text |-> "good", step |-> 0, how |-> "starter"]
  <2>1. a \in AnswerOf BY <1>3, AnswerRecord DEF Texts
  <2>2. a.text = "good" /\ a.how = "starter" BY <1>3
  <2> QED BY <2>1, <2>2
<1>4. CASE a = take("gated") /\ fits /\ GatePassed /\ req.skill \in {"competitor", "web"}
  BY <1>1, <1>4 DEF AnswerOf
<1> QED BY <1>2, <1>3, <1>4 DEF FastPath

LEMMA SynthesisSays ==
  ASSUME TeamInv, NEW a \in Synthesis
  PROVE  /\ a \in AnswerOf /\ a.how # "gated"
         /\ \/ a.text \in {"good", "plain"}
            \/ Best(steps) # 0 /\ a.text = TextOf(Best(steps))
            \/ Best(steps) = 0 /\ a.text = "unable"
<1> DEFINE best == Best(steps)
<1>1. best \in Nat /\ TextOf(best) \in Texts BY BestText
<1>2. CASE \E t \in {"good", "plain"} : a = [text |-> t, step |-> 0, how |-> "manager"]
  <2>1. PICK t \in {"good", "plain"} : a = [text |-> t, step |-> 0, how |-> "manager"] BY <1>2
  <2>2. a \in AnswerOf BY <2>1, AnswerRecord DEF Texts
  <2>3. a.text = t /\ a.how = "manager" BY <2>1
  <2> QED BY <2>2, <2>3
<1>3. CASE best # 0 /\ a = [text |-> TextOf(best), step |-> best, how |-> "worker"]
  <2>1. a \in AnswerOf BY <1>1, <1>3, AnswerRecord
  <2>2. a.text = TextOf(best) /\ a.how = "worker" BY <1>3
  <2> QED BY <1>3, <2>1, <2>2
<1>4. CASE best = 0 /\ a = [text |-> "unable", step |-> 0, how |-> "manager"]
  <2>1. a \in AnswerOf BY <1>4, AnswerRecord
  <2>2. a.text = "unable" /\ a.how = "manager" BY <1>4
  <2> QED BY <1>4, <2>1, <2>2
<1> QED BY <1>2, <1>3, <1>4 DEF Synthesis

LEMMA ReplyKeeps == ASSUME RequestAssumption, TeamInv, Answer PROVE TeamInv'
<1>1. /\ at = "answer" /\ at' = IF plan.mode = "team" THEN "repair" ELSE "done"
      /\ UNCHANGED <<req, load, restricted, unread, plan, steps, shown, quality, barred>>
      /\ answer' \in IF plan.mode # "team" THEN Alone ELSE IF FastPath # {} THEN FastPath ELSE Synthesis
  BY DEF Answer
<1>2. /\ answer' \in AnswerOf
      /\ plan.mode = "team" => \/ answer'.text \in {"good", "plain"}
                               \/ Best(steps) # 0 /\ answer'.text = TextOf(Best(steps))
                               \/ Best(steps) = 0 /\ answer'.text = "unable"
      /\ answer'.how = "gated" => /\ GatePassed /\ answer'.step = Best(steps) /\ Fits(answer'.text)
                                  /\ req.skill \in {"competitor", "web"}
  <2>1. CASE plan.mode # "team"
    <3>1. answer' \in Alone BY <1>1, <2>1
    <3>2. \A a \in Alone : a \in AnswerOf /\ a.how = "manager" BY DEF Alone, AnswerOf, Texts
    <3> QED BY <2>1, <3>1, <3>2
  <2>2. CASE plan.mode = "team" /\ answer' \in FastPath BY <2>2, FastPathSays
  <2>3. CASE plan.mode = "team" /\ answer' \in Synthesis BY <2>3, SynthesisSays
  <2> QED BY <1>1, <2>1, <2>2, <2>3
<1>3. TeamTyped' /\ AsPlanned' /\ PlanFree' /\ GateShown' BY <1>1, <1>2, SamePlan
<1>4. /\ Best(steps)' = Best(steps) /\ TextOf(Best(steps))' = TextOf(Best(steps))
      /\ (\A t : Fits(t)' = Fits(t)) /\ GatePassed' = GatePassed
  BY <1>1, SameAnswer
<1>5. GateTook'
  <2>1. at' \in {"repair", "done"} /\ req' = req BY <1>1
  <2> QED BY <1>2, <1>4, <2>1 DEF GateTook
<1>6. TextKnown' BY <1>1, <1>2, <1>4 DEF TextKnown
<1>7. Whole' BY <1>1 DEF Whole
<1>8. Judged' BY <1>1 DEF TeamInv, Judged
<1> QED BY <1>3, <1>5, <1>6, <1>7, <1>8 DEF TeamInv

\* The repaired answer: the answer if it fits, or a text that does if there is one.
LEMMA RepairSays ==
  ASSUME RequestAssumption, TeamInv, at = "repair", plan.mode = "team"
  PROVE  /\ Repaired \in AnswerOf
         /\ \/ Repaired.text \in {"good", "plain"}
            \/ Best(steps) # 0 /\ Repaired.text = TextOf(Best(steps))
            \/ Best(steps) = 0 /\ Repaired.text = "unable"
         /\ Salvaged # "none" => Repaired.text = Salvaged
         /\ Repaired.how = "gated" => Repaired = answer
<1> DEFINE best == Best(steps)
           fixed == IF Fits(answer.text) THEN answer
                    ELSE IF best # 0 /\ Fits(TextOf(best))
                         THEN [text |-> TextOf(best), step |-> best, how |-> "repaired"]
                    ELSE IF Fits(Salvaged) THEN [text |-> Salvaged, step |-> 0, how |-> "template"]
                    ELSE answer
<1>1. Repaired = IF Questionnaire(req) THEN [fixed EXCEPT !.text = "good"] ELSE fixed BY DEF Repaired
<1>2. answer \in AnswerOf /\ best \in Nat /\ TextOf(best) \in Texts BY BestText DEF TeamInv, TeamTyped
<1>3. Salvaged \in {"good", "none"} /\ ~Fits("none") BY DEF Salvaged, Fits
<1>4. Salvaged = "good" => Shaped(req) /\ \A t : Fits(t) <=> t = "good"
  BY DEF Salvaged, Fits
<1>5. \/ answer.text \in {"good", "plain"}
      \/ Best(steps) # 0 /\ answer.text = TextOf(Best(steps))
      \/ Best(steps) = 0 /\ answer.text = "unable"
  <2>1. TextKnown BY DEF TeamInv
  <2> QED BY <2>1 DEF TextKnown
<1>6. /\ fixed \in AnswerOf
      /\ \/ fixed.text \in {"good", "plain"}
         \/ best # 0 /\ fixed.text = TextOf(best)
         \/ best = 0 /\ fixed.text = "unable"
      /\ Salvaged = "good" => fixed.text = "good"
      /\ fixed.how = "gated" => fixed = answer
  <2> HIDE DEF best
  <2>1. CASE fixed = answer /\ (Salvaged = "good" => answer.text = "good") BY <1>2, <1>5, <2>1 DEF best
  <2>2. CASE fixed = [text |-> TextOf(best), step |-> best, how |-> "repaired"] /\ best # 0 /\ Fits(TextOf(best))
    BY <1>2, <1>4, <2>2 DEF AnswerOf
  <2>3. CASE fixed = [text |-> Salvaged, step |-> 0, how |-> "template"] /\ Salvaged = "good"
    <3>1. fixed \in AnswerOf BY <2>3, AnswerRecord DEF Texts
    <3>2. fixed.text = "good" /\ fixed.how = "template" BY <2>3
    <3> QED BY <3>1, <3>2
  <2> QED BY <1>3, <1>4, <2>1, <2>2, <2>3
<1> HIDE DEF fixed
<1>7. CASE Questionnaire(req)
  <2>1. Repaired = [fixed EXCEPT !.text = "good"] BY <1>1, <1>7
  <2>2. Repaired \in AnswerOf /\ Repaired.text = "good" /\ Repaired.how = fixed.how
    BY <1>6, <2>1 DEF AnswerOf, Texts
  <2>3. fixed.how # "gated"
    <3>1. answer.how = "gated" => req.skill \in {"competitor", "web"} BY DEF TeamInv, GateTook
    <3> QED BY <1>6, <1>7, <3>1 DEF Questionnaire
  <2> QED BY <1>3, <2>2, <2>3
<1>8. CASE ~Questionnaire(req)
  <2>1. Repaired = fixed BY <1>1, <1>8
  <2> QED BY <1>3, <1>6, <2>1
<1> QED BY <1>7, <1>8

LEMMA RepairKeeps == ASSUME RequestAssumption, TeamInv, Repair PROVE TeamInv'
<1>1. /\ at = "repair" /\ at' = "assess" /\ answer' = Repaired
      /\ UNCHANGED <<req, load, restricted, unread, plan, steps, shown, quality, barred>>
      /\ plan.mode = "team"
  BY DEF Repair, TeamInv, TeamTyped
<1>2. /\ Repaired \in AnswerOf
      /\ \/ Repaired.text \in {"good", "plain"}
         \/ Best(steps) # 0 /\ Repaired.text = TextOf(Best(steps))
         \/ Best(steps) = 0 /\ Repaired.text = "unable"
      /\ Salvaged # "none" => Repaired.text = Salvaged
      /\ Repaired.how = "gated" => Repaired = answer
  BY <1>1, RepairSays
<1> HIDE DEF Repaired
<1>3. TeamTyped' /\ AsPlanned' /\ PlanFree' /\ GateShown' BY <1>1, <1>2, SamePlan
<1>4. /\ Best(steps)' = Best(steps) /\ TextOf(Best(steps))' = TextOf(Best(steps))
      /\ (\A t : Fits(t)' = Fits(t)) /\ GatePassed' = GatePassed /\ Salvaged' = Salvaged
  BY <1>1, SameAnswer
<1>5. GateTook' BY <1>1, <1>2, <1>4 DEF TeamInv, GateTook
<1>6. TextKnown' BY <1>1, <1>2, <1>4 DEF TextKnown
<1>7. Whole' BY <1>1, <1>2, <1>4 DEF Whole
<1>8. Judged' BY <1>1 DEF TeamInv, Judged
<1> QED BY <1>3, <1>5, <1>6, <1>7, <1>8 DEF TeamInv

LEMMA SameJudgement ==
  ASSUME UNCHANGED <<req, steps, answer>>
  PROVE  Assessed' = Assessed
<1>1. \A t : FinalUsable(t)' = FinalUsable(t) BY SameRequest
<1>2. Usable' = Usable BY <1>1 DEF Usable, StepUsable, Status
<1>3. \A x : Blocking(x)' = Blocking(x) /\ Gap(x)' = Gap(x) /\ Status(x)' = Status(x)
  BY <1>2 DEF Blocking, Gap, Status, Failed, FailRecoverable
<1>4. Warned' = Warned /\ PlaceholderOk' = PlaceholderOk BY DEF Warned, PlaceholderOk
<1> QED BY <1>2, <1>3, <1>4 DEF Assessed

\* What is the same while the answer, too, stays as it is.
LEMMA SameText ==
  ASSUME RequestAssumption, TeamInv, UNCHANGED <<req, unread, plan, steps, shown, barred, answer>>,
         \/ at' = at /\ at # "route"
         \/ at = "work" /\ at' = "answer"
         \/ at = "assess" /\ at' = "done"
  PROVE  TeamTyped' /\ AsPlanned' /\ PlanFree' /\ GateShown' /\ GateTook' /\ TextKnown' /\ Whole'
<1>1. /\ answer \in AnswerOf /\ at \in {"route", "work", "answer", "repair", "assess", "done"}
      /\ at \in {"work", "repair", "assess"} => plan.mode = "team"
  BY DEF TeamInv, TeamTyped
<1>2. TeamTyped' /\ AsPlanned' /\ PlanFree' /\ GateShown' BY <1>1, SamePlan
<1>3. /\ Best(steps)' = Best(steps) /\ TextOf(Best(steps))' = TextOf(Best(steps))
      /\ (\A t : Fits(t)' = Fits(t)) /\ GatePassed' = GatePassed /\ Salvaged' = Salvaged
  BY SameAnswer
<1>4. GateTook' BY <1>1, <1>3 DEF TeamInv, GateTook
<1>5. TextKnown' BY <1>1, <1>3 DEF TeamInv, TextKnown
<1>6. Whole' BY <1>1, <1>3 DEF TeamInv, Whole
<1> QED BY <1>2, <1>4, <1>5, <1>6

LEMMA TeamInvStays == ASSUME RequestAssumption, TeamInv, [TdNext]_tdvars PROVE TeamInv'
<1>1. CASE Route BY <1>1, RouteKeeps
<1>2. CASE Work BY <1>2, WorkKeeps
<1>3. CASE WorkDone
  <2>1. /\ at = "work" /\ at' = "answer"
        /\ UNCHANGED <<req, load, restricted, unread, plan, steps, shown, answer, quality, barred>>
    BY <1>3 DEF WorkDone
  <2>2. Judged' BY <2>1 DEF TeamInv, Judged
  <2> QED BY <2>1, <2>2, SameText DEF TeamInv
<1>4. CASE Answer BY <1>4, ReplyKeeps
<1>5. CASE Repair BY <1>5, RepairKeeps
<1>6. CASE Assess
  <2>1. /\ at = "assess" /\ at' = "done" /\ quality' = Assessed /\ plan.mode = "team"
        /\ UNCHANGED <<req, load, restricted, unread, plan, steps, shown, answer, barred>>
    BY <1>6 DEF Assess, TeamInv, TeamTyped
  <2>2. Assessed' = Assessed BY <2>1, SameJudgement
  <2>3. Judged' BY <2>1, <2>2 DEF Judged
  <2> QED BY <2>1, <2>3, SameText DEF TeamInv
<1>7. CASE \E w \in Roster : Bar(w)
  <2>1. /\ at \in {"work", "answer"} /\ UNCHANGED <<req, load, unread, plan, steps, shown, at, answer, quality, barred>>
    BY <1>7 DEF Bar
  <2>2. Judged' BY <2>1 DEF TeamInv, Judged
  <2> QED BY <2>1, <2>2, SameText DEF TeamInv
<1>8. CASE UNCHANGED tdvars
  <2>1. UNCHANGED <<req, load, restricted, unread, plan, steps, shown, at, answer, quality, barred>>
    BY <1>8 DEF tdvars
  <2>2. Assessed' = Assessed BY <2>1, SameJudgement
  <2>3. Judged' BY <2>1, <2>2 DEF TeamInv, Judged
  <2>4. CASE at # "route" BY <2>1, <2>3, <2>4, SameText DEF TeamInv
  <2>5. CASE at = "route"
    <3>1. TeamTyped' /\ AsPlanned' /\ PlanFree' BY <2>1 DEF TeamInv, TeamTyped, AsPlanned, PlanFree, ReceiptOk
    <3>2. DOMAIN steps = {} BY <2>5 DEF TeamInv, AsPlanned
    <3>3. GateShown' BY <2>1, <3>2 DEF TeamInv, GateShown, Sectioned, GateLast
    <3>4. GateTook' /\ TextKnown' /\ Whole' BY <2>1, <2>5 DEF TeamInv, GateTook, TextKnown, Whole
    <3> QED BY <2>3, <3>1, <3>3, <3>4 DEF TeamInv
  <2> QED BY <2>4, <2>5
<1> QED BY <1>1, <1>2, <1>3, <1>4, <1>5, <1>6, <1>7, <1>8 DEF TdNext

THEOREM TeamInvHolds == TdSpec => []TeamInv
<1>1. TdInit => TeamInv BY RequestAssumption, TeamAtFirst
<1>2. TeamInv /\ [TdNext]_tdvars => TeamInv' BY RequestAssumption, TeamInvStays
<1> QED BY <1>1, <1>2, PTL DEF TdSpec

\* A step is run only by an agent the court left free when the plan was made, but for the
\* writer a planned team is given and an agent whose entry the lookup failed to read
\* (_normalize_worker_selection, _team_route_plan, _worker_is_restricted).
THEOREM RestrictedKeptOut == TdSpec => []RestrictedStaysOut
<1>1. TeamInv => RestrictedStaysOut BY DEF TeamInv, AsPlanned, PlanFree, RestrictedStaysOut
<1> QED BY <1>1, TeamInvHolds, PTL

\* An answer taken for the gate's verdict is the text the gate was given, and passed
\* (_qa_gate_allows_manager_fastpath, _manager_fastpath_artifact).
THEOREM VerdictIsForTheAnswer == TdSpec => []VerifiedIsDelivered
<1>1. ASSUME TeamInv PROVE VerifiedIsDelivered
  <2> SUFFICES ASSUME answer.how = "gated", plan.reason = "skill"
               PROVE  answer.step = shown /\ \E i \in DOMAIN steps : steps[i].by = "AEGIS" /\ steps[i].text = "pass"
    BY DEF VerifiedIsDelivered
  <2>1. GatePassed /\ answer.step = Best(steps) /\ Sectioned
    BY <1>1 DEF TeamInv, GateTook, Sectioned
  <2>2. PICK i \in DOMAIN steps : steps[i].by = "AEGIS" /\ Status(steps[i]) = "ok" /\ steps[i].text # "fail"
    BY <2>1 DEF GatePassed
  <2>3. steps[i] \in Gate /\ shown = Best(steps) BY <1>1, <2>1, <2>2 DEF TeamInv, GateShown
  <2>4. \A x \in Gate : x.text = "pass" \/ x.text = "fail" \/ x.error BY DEF Gate, Receipt
  <2>5. ~steps[i].error BY <2>2 DEF Status
  <2>6. steps[i].text = "pass" BY <2>2, <2>3, <2>4, <2>5
  <2> QED BY <2>1, <2>2, <2>3, <2>6
<1> QED BY <1>1, TeamInvHolds, PTL

\* What a verdict of success says of every step.
LEMMA SuccessSays ==
  ASSUME TeamInv, Assessed = "success"
  PROVE  /\ \A i \in DOMAIN steps : ~Blocking(steps[i])
         /\ \/ PlaceholderOk
            \/ ~Usable
            \/ \A i \in DOMAIN steps : Status(steps[i]) = "ok" /\ ~Gap(steps[i]) /\ steps[i].warns \subseteq {"info"}
<1> DEFINE S == {steps[i] : i \in DOMAIN steps}
           down == {x \in S : Status(x) # "ok"}
           blockers == {x \in S : Blocking(x)}
<1>1. blockers = {} BY DEF Assessed
<1>2. \/ PlaceholderOk
      \/ ~Usable
      \/ down = {} /\ (\A x \in S : ~Gap(x)) /\ ~Warned
  BY <1>1 DEF Assessed
<1>3. \A i \in DOMAIN steps : steps[i] \in S OBVIOUS
<1>4. \A i \in DOMAIN steps : ~Blocking(steps[i]) BY <1>1, <1>3
<1>5. CASE down = {} /\ (\A x \in S : ~Gap(x)) /\ ~Warned
  <2>1. \A i \in DOMAIN steps : Status(steps[i]) = "ok" /\ ~Gap(steps[i]) BY <1>3, <1>5
  <2>2. \A i \in DOMAIN steps : steps[i].warns \subseteq {"info"} BY <1>5 DEF Warned
  <2> QED BY <1>4, <2>1, <2>2
<1> QED BY <1>2, <1>4, <1>5

\* A delivery judged a success gives the user something to use, and none of its steps was
\* denied (_assess_skill_quality_outcome, _repair_manager_answer).
THEOREM SuccessIsAlwaysAnswered == TdSpec => []SuccessIsAnswered
<1>1. ASSUME TeamInv PROVE SuccessIsAnswered
  <2> SUFFICES ASSUME at = "done", quality = "success", req.skill # "web"
               PROVE  /\ Salvaged # "none" => answer.text = Salvaged
                      /\ (\E i \in DOMAIN steps : StepUsable(steps[i])) => answer.text \notin {"unable", "error", "fail"}
                      /\ \A i \in DOMAIN steps : "blocker" \notin steps[i].warns
    BY DEF SuccessIsAnswered
  <2>1. plan.mode = "team" /\ Assessed = "success" BY <1>1 DEF TeamInv, Judged
  <2>2. Salvaged # "none" => answer.text = Salvaged BY <1>1, <2>1 DEF TeamInv, Whole
  <2>3. \A i \in DOMAIN steps : "blocker" \notin steps[i].warns
    BY <1>1, <2>1, SuccessSays DEF Blocking
  <2>4. ASSUME NEW i \in DOMAIN steps, StepUsable(steps[i])
        PROVE  answer.text \notin {"unable", "error", "fail"}
    <3>1. CASE Shaped(req)
      <4>1. Salvaged = "good" BY <3>1 DEF Salvaged
      <4> QED BY <2>2, <4>1
    <3>2. CASE ~Shaped(req)
      <4>1. ~PlaceholderOk /\ Usable BY <2>4, <3>2 DEF Shaped, PlaceholderOk, Usable
      <4>2. \A j \in DOMAIN steps : Status(steps[j]) = "ok" /\ ~Gap(steps[j]) /\ steps[j].warns \subseteq {"info"}
        BY <1>1, <2>1, <4>1, SuccessSays
      <4>3. steps \in Seq(StepSet) /\ steps[i] \in StepSet BY <1>1, <2>4 DEF TeamInv, TeamTyped
      <4>4. FitScore(steps[i]) > 0 BY <2>4, <3>2, <4>2, <4>3, UsableScore
      <4>5. Best(steps) # 0 BY <2>4, <4>3, <4>4, BestSays
      <4>6. Best(steps) \in DOMAIN steps /\ TextOf(Best(steps)) = steps[Best(steps)].text /\ TextOf(Best(steps)) \in Texts
        BY <1>1, <4>5, BestText
      <4>7. \A j \in DOMAIN steps : steps[j].text \notin {"error", "fail"}
        <5> SUFFICES ASSUME NEW j \in DOMAIN steps PROVE steps[j].text \notin {"error", "fail"} OBVIOUS
        <5>1. ReceiptOk(steps[j], steps[j].by) BY <1>1 DEF TeamInv, AsPlanned
        <5>2. ~steps[j].error /\ ~Failed(steps[j]) /\ steps[j].warns \subseteq {"info"}
          BY <4>2 DEF Status, Gap
        <5> QED BY <5>1, <5>2 DEF ReceiptOk, Failed
      <4>8. answer.text \in {"good", "plain"} \/ answer.text = TextOf(Best(steps))
        BY <1>1, <2>1, <4>5 DEF TeamInv, TextKnown
      <4> QED BY <4>6, <4>7, <4>8 DEF Texts
    <3> QED BY <3>1, <3>2
  <2> QED BY <2>2, <2>3, <2>4
<1> QED BY <1>1, TeamInvHolds, PTL
=============================================================================
