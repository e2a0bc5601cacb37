----------------------------- MODULE StateCache -----------------------------
(***************************************************************************)
(* state_cache.py and the historical states of mcp.py: per commit one      *)
(* object that tool calls share, in a least-recently-used cache bounded by *)
(* the bytes its callers declare.  A call that searches a state loads its  *)
(* bodies outside every lock, declares them, and then leaves them on the   *)
(* object it was given, which may have been evicted and replaced meanwhile.*)
(***************************************************************************)
EXTENDS SequencesExt

CONSTANTS
    Commit,         \* commits of the corpus
    Object,         \* identities of _SnapshotData objects
    Caller,         \* worker threads
    Overhead,       \* STATE_OVERHEAD_BYTES
    BodyBytes,      \* BodyBytes[c]: text_bytes of the bodies of commit c
    Budget,         \* budget_bytes
    NoObject

ASSUME StateCacheAssumption ==
    /\ Overhead \in Nat /\ Budget \in Nat /\ BodyBytes \in [Commit -> Nat]
    /\ NoObject \notin Object
    \* an object that nothing refers to is to be had
    /\ IsFiniteSet(Commit) /\ IsFiniteSet(Caller)
    /\ IsFiniteSet(Object) => Cardinality(Object) > Cardinality(Commit) + Cardinality(Caller)

VARIABLES
    entries,    \* the cache, least recently used first
    bodies,     \* the objects that keep their commit's bodies; one nobody refers to is gone
    call        \* what each caller is doing

stateVars == <<entries, bodies, call>>

NoCall == [pc |-> "idle", commit |-> NoObject, object |-> NoObject]
Full(c) == Overhead + BodyBytes[c]

Held(c) == {i \in DOMAIN entries : entries[i].commit = c}
Cost(es) ==
    LET sum[i \in 0..Len(es)] == IF i = 0 THEN 0 ELSE sum[i - 1] + es[i].cost
    IN  sum[Len(es)]
InUse == {entries[i].object : i \in DOMAIN entries} \cup {call[t].object : t \in Caller}

\* Mutant: one entry is dropped, whatever it frees.
EvictOne(es) == IF Cost(es) > Budget THEN Tail(es) ELSE es

\* _evict_to_budget: the longest end of the sequence that fits.
EvictToBudget(es) ==
    LET fits(i) == Cost(SubSeq(es, i, Len(es))) <= Budget
    IN  SubSeq(es, CHOOSE i \in 1..(Len(es) + 1) : fits(i) /\ \A j \in 1..(i - 1) : ~fits(j), Len(es))

\* The entry moved to the end with a cost, and the older ones evicted.
Charged(c, object, cost) ==
    LET others == IF Held(c) = {} THEN entries ELSE RemoveAt(entries, CHOOSE i \in Held(c) : TRUE)
    IN  EvictToBudget(Append(others, [commit |-> c, object |-> object, cost |-> cost]))

-----------------------------------------------------------------------------
\* _state_data: the object of the commit, made and admitted if the cache has none.
StateData(t, c) ==
    /\ call[t] = NoCall
    /\ \/ \E i \in Held(c) :
            /\ entries' = Append(RemoveAt(entries, i), entries[i])
            /\ call' = [call EXCEPT ![t] = [pc |-> "look", commit |-> c, object |-> entries[i].object]]
            /\ bodies' = bodies \cap InUse
       \/ /\ Held(c) = {}
          /\ LET new == CHOOSE o \in Object : o \notin InUse
             IN  /\ entries' = IF Overhead > Budget THEN entries ELSE Charged(c, new, Overhead)
                 /\ call' = [call EXCEPT ![t] = [pc |-> "look", commit |-> c, object |-> new]]
                 /\ bodies' = (bodies \cap InUse) \ {new}

\* get_section and the like touch no bodies of the whole state; search_body takes or loads them.
Answer(t) ==
    /\ call[t].pc = "look"
    /\ call' = [call EXCEPT ![t] = NoCall]
    /\ UNCHANGED <<entries, bodies>>

LoadBodies(t) ==
    /\ call[t].pc = "look" /\ call[t].object \notin bodies
    /\ call' = [call EXCEPT ![t].pc = "resize"]
    /\ UNCHANGED <<entries, bodies>>

\* Mutant: the bodies are kept whether the cache took their charge or not.
ResizeOrNot(t) ==
    LET c == call[t].commit
        fits == Held(c) # {} /\ Full(c) <= Budget
    IN  /\ call[t].pc = "resize"
        /\ call' = [call EXCEPT ![t].pc = "keep"]
        /\ entries' = IF fits THEN Charged(c, entries[CHOOSE i \in Held(c) : TRUE].object, Full(c)) ELSE entries
        /\ UNCHANGED bodies

\* resize goes by the commit: the entry it charges may hold a newer object than the caller's.
Resize(t) ==
    LET c == call[t].commit
        fits == Held(c) # {} /\ Full(c) <= Budget
    IN  /\ call[t].pc = "resize"
        /\ call' = [call EXCEPT ![t] = IF fits THEN [@ EXCEPT !.pc = "keep"] ELSE NoCall]
        /\ entries' = IF fits THEN Charged(c, entries[CHOOSE i \in Held(c) : TRUE].object, Full(c)) ELSE entries
        /\ UNCHANGED bodies

Keep(t) ==
    /\ call[t].pc = "keep"
    /\ bodies' = bodies \cup {call[t].object}
    /\ call' = [call EXCEPT ![t] = NoCall]
    /\ UNCHANGED entries

-----------------------------------------------------------------------------
StateInit == entries = <<>> /\ bodies = {} /\ call = [t \in Caller |-> NoCall]
Serve(t) ==
    (\E c \in Commit : StateData(t, c)) \/ Answer(t) \/ LoadBodies(t) \/ Resize(t) \/ Keep(t)
StateNext == \E t \in Caller : Serve(t)
StateSpec == StateInit /\ [][StateNext]_stateVars

-----------------------------------------------------------------------------
\* The declared bytes never exceed the budget, and no commit is charged twice.
WithinBudget ==
    /\ Cost(entries) <= Budget
    /\ \A i, j \in DOMAIN entries : entries[i].commit = entries[j].commit => i = j

\* What a cached state keeps in memory has been declared: no object that is reachable from the
\* cache holds bodies its entry is not charged for, although charge and keeping are two steps
\* and the entry may have changed hands between them.
ResidentIsCharged ==
    \A i \in DOMAIN entries :
        entries[i].object \in bodies => entries[i].cost = Full(entries[i].commit)

\* The memory of the historical states is bounded: ByteBudgetCache with its use in mcp.py.
MemoryIsAccounted == WithinBudget /\ ResidentIsCharged
=============================================================================
