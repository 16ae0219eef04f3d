----------------------------- MODULE SessionMemory -----------------------------
(***************************************************************************)
(* What the gateway remembers between requests: the sections of MEMORY.md, *)
(* facts a user stated, and outputs that were delivered with success.  A   *)
(* request brings the file in line with MEMORY.md and the history of       *)
(* deliveries, recalls a few entries, and credits or blames them with how  *)
(* its delivery turned out.  The threads of the gateway read and write the *)
(* file whole, without a lock; a read that meets a write finds nothing.    *)
(*   memory   entries: [key -> known, accepted, failed, recalled,          *)
(*            support (the last deliveries that said it), days (since its  *)
(*            last signal)], seen (the last events taken from the          *)
(*            history), at (how far the history went then)                 *)
(* The history is that of one session: its deliveries in their order.      *)
(***************************************************************************)
EXTENDS Integers, Sequences, FiniteSets

CONSTANTS
    Callers,        \* the threads of the gateway
    Sections,       \* of MEMORY.md
    UserFacts,
    Outputs,        \* fingerprints of deliveries
    SaidBy,         \* [Outputs -> what the output says, by whom and with which skills]
    Earlier,        \* what the history may hold when the memory is new
    FactLimit, OutputLimit, RecallLimit,
    SupportKept,    \* deliveries an entry's support goes back to
    SeenKept,       \* events of the history that are known to be taken
    MaxDelivered, MaxDays, DaysPass, MaxAsked

ASSUME SessionMemoryAssumption ==
    /\ IsFiniteSet(Callers) /\ DaysPass \subseteq Nat /\ SupportKept \in Nat /\ SeenKept \in Nat
    /\ Earlier \subseteq Seq(Outputs)

Keys == Sections \cup UserFacts \cup Outputs
Unknown == [known |-> FALSE, accepted |-> 0, failed |-> 0, recalled |-> 0, support |-> <<>>, days |-> 0]
NoMemory == [entries |-> [k \in Keys |-> Unknown], seen |-> <<>>, at |-> 0]
Away == [pc |-> "idle", copy |-> NoMemory, fact |-> "none", packet |-> {}, out |-> "none", quality |-> "none"]

VARIABLES
    memory, history,    \* the deliveries in the history
    caller, day,
    carried,            \* [key -> packets of requests that held it] (history)
    asked

smvars == <<memory, history, caller, day, carried, asked>>

SmInit ==
    /\ memory = NoMemory /\ history \in Earlier /\ caller = [c \in Callers |-> Away] /\ day = 0
    /\ carried = [k \in Keys |-> 0] /\ asked = 0

---------------------------------------------------------------------------
(***************************************************************************)
(* Entries                                                                 *)
(***************************************************************************)
Known(entries, kind) == {k \in kind : entries[k].known}
DecayAfter(k) == IF k \in Outputs THEN 3 ELSE 21
\* _refresh_memory_value_score
Worth(k, entry) ==
    entry.accepted - entry.failed
        - (IF k \in Sections \/ entry.days < DecayAfter(k) THEN 0 ELSE entry.days \div DecayAfter(k))
\* _memory_entry_should_evict
ShouldEvict(k, entry) ==
    /\ k \notin Sections
    /\ \/ Worth(k, entry) <= -2
       \/ k \in Outputs /\ entry.days >= 21 /\ (entry.recalled = 0 \/ Worth(k, entry) <= 0)
       \/ k \in UserFacts /\ entry.days >= 120 /\ Worth(k, entry) < 0

Without(entries, gone) == [k \in Keys |-> IF k \in gone THEN Unknown ELSE entries[k]]
\* _normalize_memory_entries
Normalized(entries) == Without(entries, {k \in Keys : entries[k].known /\ ShouldEvict(k, entries[k])})

\* the entries that come last when the limit is passed: of less worth, or of an older signal
Behind(entries, kind, k) ==
    Cardinality({l \in Known(entries, kind) :
        \/ Worth(l, entries[l]) > Worth(k, entries[k])
        \/ Worth(l, entries[l]) = Worth(k, entries[k]) /\ entries[l].days < entries[k].days})
Surplus(entries, kind, limit) ==
    {gone \in SUBSET Known(entries, kind) :
        /\ Cardinality(gone) = IF Cardinality(Known(entries, kind)) > limit
                               THEN Cardinality(Known(entries, kind)) - limit ELSE 0
        /\ \A k \in gone, l \in Known(entries, kind) \ gone :
             Behind(entries, kind, k) >= Behind(entries, kind, l)}
\* _prune_memory_entries (a sort that keeps ties as they are: any of them may go)
Pruned(entries) ==
    {Without(entries, f \cup o) : f \in Surplus(entries, UserFacts, FactLimit),
                                  o \in Surplus(entries, Outputs, OutputLimit)}

In(q, x) == \E i \in DOMAIN q : q[i] = x
Latest(q, n) == SubSeq(q, (IF Len(q) > n THEN Len(q) - n ELSE 0) + 1, Len(q))

\* Mutant: a delivery counts each time it is met
Upserted_again(entries, k) ==
    LET same == {l \in Known(entries, Outputs) \ {k} : SaidBy[l] = SaidBy[k]}
        at == IF k \in Outputs /\ same # {} THEN CHOOSE l \in same : TRUE ELSE k
        old == entries[at]
        new == k \in Outputs /\ ~In(old.support, k)
    IN [entries EXCEPT ![at] = [old EXCEPT !.known = TRUE, !.days = 0,
            !.support = IF new THEN Latest(Append(@, k), SupportKept) ELSE @,
            !.accepted = IF k \in Outputs THEN @ + 1 ELSE @]]
\* _upsert_memory_entry: an output that says the same is merged into the one on file; a
\* delivery that fell out of the support counts as new when it is met again
Upserted(entries, k) ==
    LET same == {l \in Known(entries, Outputs) \ {k} : SaidBy[l] = SaidBy[k]}
        at == IF k \in Outputs /\ same # {} THEN CHOOSE l \in same : TRUE ELSE k
        old == entries[at]
        new == k \in Outputs /\ ~In(old.support, k)
    IN [entries EXCEPT ![at] = [old EXCEPT !.known = TRUE, !.days = 0,
            !.support = IF new THEN Latest(Append(@, k), SupportKept) ELSE @,
            !.accepted = IF new THEN @ + 1 ELSE @]]

\* _load_memory_recall_state: another thread's write_text may have emptied the file
MemoryRead(c) ==
    {memory} \cup
    (IF \E d \in Callers \ {c} :
            caller[d].pc \in {"sync_save", "recall", "remember_save", "outcome_save"}
     THEN {NoMemory} ELSE {})

---------------------------------------------------------------------------
(***************************************************************************)
(* A request                                                               *)
(***************************************************************************)
Start(c, f) ==
    /\ caller[c].pc = "idle" /\ asked < MaxAsked /\ asked' = asked + 1
    /\ caller' = [caller EXCEPT ![c] = [Away EXCEPT !.pc = "sync", !.fact = f]]
    /\ UNCHANGED <<memory, history, day, carried>>

\* _sync_successful_output_memory: events of the history that are not known to be taken
TakenIn(copy, o) ==
    IF In(copy.seen, o) THEN copy
    ELSE [copy EXCEPT !.entries = Upserted(copy.entries, o), !.seen = Append(copy.seen, o)]
FromHistory(copy) ==
    LET taken[n \in 0 .. Len(history)] ==
            IF n = 0 THEN copy ELSE TakenIn(taken[n - 1], history[n])
    IN [taken[Len(history)] EXCEPT !.seen = Latest(@, SeenKept), !.at = Len(history)]
\* _sync_memory_retrieval_index: what is not a section is dropped before the history is
\* read; that is left out if nothing was added to it (of any kind) since it last was
Resynced(copy) ==
    LET sections == [k \in Keys |-> IF k \in Sections THEN [copy.entries[k] EXCEPT !.known = TRUE, !.days = 0]
                                    ELSE Unknown]
        from == [copy EXCEPT !.entries = sections]
        read == {FromHistory(from)}
                \cup (IF copy.at = Len(history) /\ copy.seen # <<>> THEN {from} ELSE {})
    IN UNION {{[taken EXCEPT !.entries = e] : e \in Pruned(Normalized(taken.entries))} : taken \in read}

Sync(c) ==
    /\ caller[c].pc = "sync"
    /\ \E now \in MemoryRead(c) : \E copy \in Resynced(now) :
         caller' = [caller EXCEPT ![c].copy = copy, ![c].pc = "sync_save"]
    /\ UNCHANGED <<memory, history, day, carried, asked>>
SyncSave(c) ==
    /\ caller[c].pc = "sync_save" /\ memory' = caller[c].copy
    /\ caller' = [caller EXCEPT ![c].pc = "recall"]
    /\ UNCHANGED <<history, day, carried, asked>>

\* _build_memory_packet goes on with the copy it has and saves it again
Recall(c) ==
    /\ caller[c].pc = "recall"
    /\ \E entries \in Pruned(Normalized(IF caller[c].fact = "none" THEN caller[c].copy.entries
                                        ELSE Upserted(caller[c].copy.entries, caller[c].fact))) :
       \E packet \in SUBSET Known(entries, Keys) :
         /\ Cardinality(packet) <= RecallLimit /\ (Known(entries, Keys) # {} => packet # {})
         /\ memory' = [caller[c].copy EXCEPT !.entries = entries]
         /\ caller' = [caller EXCEPT ![c] = [Away EXCEPT !.pc = "deliver", !.packet = packet]]
         /\ carried' = [k \in Keys |-> IF k \in packet THEN carried[k] + 1 ELSE carried[k]]
    /\ UNCHANGED <<history, day, asked>>

\* the delivery is in the history before it is remembered
AnswerOut(c) ==
    /\ caller[c].pc = "deliver"
    /\ \/ /\ Len(history) < MaxDelivered
          /\ \E o \in Outputs \ {history[i] : i \in DOMAIN history} :
               /\ history' = Append(history, o)
               /\ caller' = [caller EXCEPT ![c].pc = "remember", ![c].out = o, ![c].quality = "success"]
       \/ \E q \in {"partial", "failure"} :
            caller' = [caller EXCEPT ![c].pc = "outcome", ![c].quality = q] /\ UNCHANGED history
    /\ UNCHANGED <<memory, day, carried, asked>>

\* _remember_successful_delivery_memory
Keep(c) ==
    /\ caller[c].pc = "remember"
    /\ \E now \in MemoryRead(c) : \E entries \in Pruned(Normalized(Upserted(now.entries, caller[c].out))) :
         caller' = [caller EXCEPT ![c].copy = [now EXCEPT !.entries = entries], ![c].pc = "remember_save"]
    /\ UNCHANGED <<memory, history, day, carried, asked>>
KeepSave(c) ==
    /\ caller[c].pc = "remember_save" /\ memory' = caller[c].copy
    /\ caller' = [caller EXCEPT ![c].pc = "outcome", ![c].copy = NoMemory]
    /\ UNCHANGED <<history, day, carried, asked>>

Credited(entry, quality) ==
    [entry EXCEPT !.recalled = @ + 1, !.days = 0,
        !.accepted = @ + (IF quality = "success" THEN 2 ELSE IF quality = "partial" THEN 1 ELSE 0),
        !.failed = @ + (IF quality = "failure" THEN 2 ELSE 0)]
\* _record_memory_recall_outcome
Outcome(c) ==
    /\ caller[c].pc = "outcome"
    /\ \E now \in MemoryRead(c) :
         caller' = [caller EXCEPT ![c].pc = "outcome_save",
             ![c].copy = [now EXCEPT !.entries = Normalized([k \in Keys |->
                 IF k \in caller[c].packet /\ now.entries[k].known
                 THEN Credited(now.entries[k], caller[c].quality) ELSE now.entries[k]])]]
    /\ UNCHANGED <<memory, history, day, carried, asked>>
OutcomeSave(c) ==
    /\ caller[c].pc = "outcome_save" /\ memory' = caller[c].copy
    /\ caller' = [caller EXCEPT ![c] = Away]
    /\ UNCHANGED <<history, day, carried, asked>>

\* days go by while nothing is asked
Days(n) ==
    /\ day + n <= MaxDays /\ \A c \in Callers : caller[c].pc = "idle"
    /\ day' = day + n
    /\ memory' = [memory EXCEPT !.entries = [k \in Keys |->
                     LET entry == memory.entries[k]
                     IN IF entry.known THEN [entry EXCEPT !.days = @ + n] ELSE entry]]
    /\ UNCHANGED <<history, caller, carried, asked>>

SmNext ==
    \/ \E c \in Callers :
        \/ \E f \in UserFacts \cup {"none"} : Start(c, f)
        \/ Sync(c) \/ SyncSave(c) \/ Recall(c) \/ AnswerOut(c)
        \/ Keep(c) \/ KeepSave(c) \/ Outcome(c) \/ OutcomeSave(c)
    \/ \E n \in DaysPass : Days(n)
SmSpec == SmInit /\ [][SmNext]_smvars

---------------------------------------------------------------------------
(***************************************************************************)
(* Properties                                                              *)
(***************************************************************************)
\* What an entry is worth was earned: an output counts each delivery that said it once,
\* whether it came from the delivery itself or from the history, and beyond that only the
\* outcomes of requests that recalled it; no write of a stale file adds to that.  (Once the
\* support is as long as it may get, a delivery that fell out of it can count again.)
WorthIsEarned ==
    \A k \in UserFacts \cup Outputs :
        LET entry == memory.entries[k]
        IN /\ \A i, j \in DOMAIN entry.support : entry.support[i] = entry.support[j] => i = j
           /\ Len(entry.support) < SupportKept =>
                entry.accepted <= Len(entry.support) + 2 * entry.recalled
           /\ entry.recalled <= carried[k]

\* What was remembered is on file until it has lost its worth or the limit is passed: a
\* fact or an output that leaves the file was to be evicted, or others of its kind are kept
\* in its place. (It is not so: a request drops whatever is not a section of MEMORY.md.)
RememberedIsKept ==
    [][\A k \in UserFacts \cup Outputs :
         memory.entries[k].known /\ ~memory'.entries[k].known =>
            \/ ShouldEvict(k, memory.entries[k])
            \/ Cardinality(Known(memory'.entries, IF k \in UserFacts THEN UserFacts ELSE Outputs))
                 = (IF k \in UserFacts THEN FactLimit ELSE OutputLimit)]_smvars
=============================================================================
