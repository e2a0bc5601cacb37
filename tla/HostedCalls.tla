---------------------------- MODULE HostedCalls ----------------------------
(***************************************************************************)
(* A tool call of the hosted server, from its admission to its release:    *)
(* quota.py around hosted_calls.py around embeddings/query.py.  A call is  *)
(* guarded on the event loop and runs on a worker thread; its client may   *)
(* go away, which gives its slot back while the thread runs on.  Semantic  *)
(* searches of one query share one paid call: the first to claim the query *)
(* leads, is charged and asks the provider, the others wait for it.        *)
(***************************************************************************)
EXTENDS QuotaBrakes, SequencesExt

CONSTANTS
    Credential,
    Query,
    Worker,         \* worker threads of the pool
    LimitChoice,    \* the limits an operator may give: [daily, inFlight, paid]
    CacheEntries,   \* _cache_entries
    Days,           \* bound on days
    NoLimits,       \* what limits_for answers of a revoked credential
    NoQuery         \* a tool that embeds nothing

ASSUME CallsAssumption ==
    /\ IsFiniteSet(Credential) /\ IsFiniteSet(Worker) /\ NoQuery \notin Query /\ NoLimits \notin LimitChoice
    /\ \A l \in LimitChoice \cup {Ceiling} : l \in [daily : Nat, inFlight : Nat, paid : Nat]
    /\ CacheEntries \in Nat \ {0} /\ Days \in Nat \ {0} /\ Threshold \in Nat

VARIABLES
    limits,     \* what the credential store says of each credential
    quota,      \* the enforcer's counters
    answers,    \* the queries whose vectors are cached, least recently used first
    inflight,   \* query -> the worker that leads its call
    job,        \* the call each worker runs
    bills       \* provider calls made, by the credential and the day they were charged to

callVars == <<limits, quota, answers, inflight, job, bills>>

Free == [pc |-> "free", by |-> NoQuery, query |-> NoQuery, limits |-> NoLimits, slot |-> FALSE,
         day |-> 0, leader |-> NoQuery, vector |-> FALSE]
Cached == {answers[i] : i \in DOMAIN answers}
Leads(w, q) == q \in DOMAIN inflight /\ inflight[q] = w
Waiting(w, leader) == job[w].pc = "wait" /\ job[w].leader = leader

Is(w, pc) == job[w].pc = pc
Put(w, new) == job' = [job EXCEPT ![w] = new]
Goto(w, pc) == Put(w, [job[w] EXCEPT !.pc = pc])

\* The credentials not seen for the idle window, where c is about to be remembered.
IdleSets(c) == IF c \in Known(quota) THEN {{}} ELSE SUBSET Known(quota)

-----------------------------------------------------------------------------
\* limits_for is asked before the enforcer's lock is taken.
ToolCall(w, c, q) ==
    /\ Is(w, "free")
    /\ limits[c] # NoLimits
    /\ Put(w, [Free EXCEPT !.pc = "admit", !.by = c, !.query = q, !.limits = limits[c]])
    /\ UNCHANGED <<limits, quota, answers, inflight, bills>>

\* guard: the call is admitted and goes to a thread, or is refused by a brake or by the bucket.
Admit(w) ==
    /\ Is(w, "admit")
    /\ \E idle \in IdleSets(job[w].by) :
         LET q == WithState(quota, job[w].by, idle)
         IN  \/ /\ Room(q, job[w].by, job[w].limits)
                /\ quota' = Admitted(q, job[w].by)
                /\ Put(w, [job[w] EXCEPT !.pc = IF job[w].query = NoQuery THEN "run" ELSE "claim",
                                          !.slot = TRUE, !.limits = NoLimits])
             \/ quota' = q /\ Put(w, Free)
    /\ UNCHANGED <<limits, answers, inflight, bills>>

\* The await is cancelled: guard's finally runs, the thread is not stopped.
Cancel(w) ==
    /\ job[w].slot
    /\ quota' = Released(quota, job[w].by)
    /\ Put(w, [job[w] EXCEPT !.slot = FALSE])
    /\ UNCHANGED <<limits, answers, inflight, bills>>

\* Mutant: what was cancelled is released again at its end.
ReturnAndRelease(w) ==
    /\ Is(w, "run")
    /\ quota' = Released(quota, job[w].by)
    /\ Put(w, Free)
    /\ UNCHANGED <<limits, answers, inflight, bills>>

\* The tool returns or raises.
Return(w) ==
    /\ Is(w, "run")
    /\ quota' = IF job[w].slot THEN Released(quota, job[w].by) ELSE quota
    /\ Put(w, Free)
    /\ UNCHANGED <<limits, answers, inflight, bills>>

-----------------------------------------------------------------------------
\* move_to_end, or a new last entry
ToEnd(q) ==
    Append(IF q \in Cached THEN RemoveAt(answers, CHOOSE i \in DOMAIN answers : answers[i] = q)
           ELSE answers, q)

\* Mutant: the cache is all a claim looks at.
ClaimAlone(w) ==
    /\ Is(w, "claim")
    /\ IF job[w].query \in Cached
       THEN answers' = ToEnd(job[w].query) /\ Goto(w, "run") /\ UNCHANGED inflight
       ELSE /\ inflight' = [r \in DOMAIN inflight \cup {job[w].query} |->
                              IF r = job[w].query THEN w ELSE inflight[r]]
            /\ Put(w, [job[w] EXCEPT !.pc = "spend", !.limits = limits[job[w].by]])
            /\ UNCHANGED answers
    /\ UNCHANGED <<limits, quota, bills>>

\* _claim: an answer, a flight to join, or the lead of one; a leader asks for its limits.
Claim(w) ==
    /\ Is(w, "claim")
    /\ LET q == job[w].query
       IN  IF q \in Cached
           THEN answers' = ToEnd(q) /\ Goto(w, "run") /\ UNCHANGED inflight
           ELSE IF q \in DOMAIN inflight
           THEN /\ Put(w, [job[w] EXCEPT !.pc = "wait", !.leader = inflight[q], !.vector = FALSE])
                /\ UNCHANGED <<answers, inflight>>
           ELSE /\ inflight' = [r \in DOMAIN inflight \cup {q} |-> IF r = q THEN w ELSE inflight[r]]
                /\ Put(w, [job[w] EXCEPT !.pc = "spend", !.limits = limits[job[w].by], !.vector = FALSE])
                /\ UNCHANGED answers
    /\ UNCHANGED <<limits, quota, bills>>

\* Mutant: the leader's charge is made against the state the admission found.
SpendUnremembered(w) ==
    /\ Is(w, "spend")
    /\ IF job[w].limits # NoLimits /\ job[w].by \in Known(quota) /\ MayPay(quota, job[w].by, job[w].limits)
       THEN quota' = Paid(quota, job[w].by) /\ Put(w, [job[w] EXCEPT !.pc = "provider", !.day = quota.day])
       ELSE quota' = quota /\ Put(w, [job[w] EXCEPT !.pc = "provider", !.day = quota.day])
    /\ UNCHANGED <<limits, answers, inflight, bills>>

\* before_spend: charge_paid on the leader's own credential.
Spend(w) ==
    /\ Is(w, "spend")
    /\ \E idle \in IdleSets(job[w].by) :
         LET q == WithState(quota, job[w].by, idle)
         IN  IF job[w].limits # NoLimits /\ MayPay(q, job[w].by, job[w].limits)
             THEN quota' = Paid(q, job[w].by) /\ Put(w, [job[w] EXCEPT !.pc = "provider", !.day = q.day, !.limits = NoLimits])
             ELSE /\ quota' = IF job[w].limits = NoLimits THEN quota ELSE q
                  /\ Put(w, [job[w] EXCEPT !.pc = "pop", !.limits = NoLimits])
    /\ UNCHANGED <<limits, answers, inflight, bills>>

\* The provider is asked, and answers or fails.
Ask(w) ==
    /\ Is(w, "provider")
    /\ bills' = [bills EXCEPT ![job[w].by] = IF job[w].day = quota.day THEN @ + 1 ELSE @]
    /\ \E pc \in {"publish", "pop"} : Put(w, [job[w] EXCEPT !.pc = pc, !.day = 0])
    /\ UNCHANGED <<limits, quota, answers, inflight>>

\* The vector is cached, the oldest entries making room, and set on the flight.
Publish(w) ==
    /\ Is(w, "publish")
    /\ LET full == ToEnd(job[w].query)
       IN  answers' = SubSeq(full, (IF Len(full) > CacheEntries THEN Len(full) - CacheEntries ELSE 0) + 1, Len(full))
    /\ Put(w, [job[w] EXCEPT !.pc = "pop", !.vector = TRUE])
    /\ UNCHANGED <<limits, quota, inflight, bills>>

\* _lead's finally: the key leaves the map, ...
Pop(w) ==
    /\ Is(w, "pop")
    /\ inflight' = [r \in DOMAIN inflight \ {job[w].query} |-> inflight[r]]
    /\ Goto(w, "wake")
    /\ UNCHANGED <<limits, quota, answers, bills>>

\* Mutant: a leader that failed returns without waking anyone.
WakeOnSuccess(w) ==
    /\ Is(w, "wake")
    /\ job' = [u \in Worker |->
                 IF u = w THEN [job[w] EXCEPT !.pc = "run", !.vector = FALSE]
                 ELSE IF Waiting(u, w) /\ job[w].vector
                 THEN [job[u] EXCEPT !.pc = "run", !.leader = NoQuery]
                 ELSE job[u]]
    /\ UNCHANGED <<limits, quota, answers, inflight, bills>>

\* ... and the waiters wake: with the vector, or to claim the query themselves.
Wake(w) ==
    /\ Is(w, "wake")
    /\ job' = [u \in Worker |->
                 IF u = w THEN [job[w] EXCEPT !.pc = "run", !.vector = FALSE]
                 ELSE IF Waiting(u, w)
                 THEN [job[u] EXCEPT !.pc = IF job[w].vector THEN "run" ELSE "claim", !.leader = NoQuery]
                 ELSE job[u]]
    /\ UNCHANGED <<limits, quota, answers, inflight, bills>>

\* _JOIN_TIMEOUT_SECONDS have passed: the waiter's call fails.
JoinTimeout(w) ==
    /\ Is(w, "wait")
    /\ Put(w, [job[w] EXCEPT !.pc = "run", !.leader = NoQuery])
    /\ UNCHANGED <<limits, quota, answers, inflight, bills>>

-----------------------------------------------------------------------------
\* An operator edits the store; midnight, UTC.
Edit(c, l) ==
    /\ limits[c] # l
    /\ limits' = [limits EXCEPT ![c] = l]
    /\ UNCHANGED <<quota, answers, inflight, job, bills>>

Midnight ==
    /\ quota.day < Days
    /\ quota' = [quota EXCEPT !.day = @ + 1]
    /\ bills' = [c \in Credential |-> 0]
    /\ UNCHANGED <<limits, answers, inflight, job>>

CallsInit ==
    /\ limits \in [Credential -> LimitChoice]
    /\ quota = NewQuota(1)
    /\ answers = <<>> /\ inflight = [q \in {} |-> NoQuery]
    /\ job = [w \in Worker |-> Free]
    /\ bills = [c \in Credential |-> 0]

Run(w) ==
    Admit(w) \/ Return(w) \/ Claim(w) \/ Spend(w) \/ Ask(w) \/ Publish(w) \/ Pop(w) \/ Wake(w)
Environment ==
    \/ \E w \in Worker : \/ \E c \in Credential, q \in Query \cup {NoQuery} : ToolCall(w, c, q)
                         \/ Cancel(w) \/ JoinTimeout(w)
    \/ \E c \in Credential, l \in LimitChoice \cup {NoLimits} : Edit(c, l)
    \/ Midnight
CallsNext == Environment \/ \E w \in Worker : Run(w)
CallsSpec == CallsInit /\ [][CallsNext]_callVars

-----------------------------------------------------------------------------
Slots(c) == Cardinality({w \in Worker : job[w].slot /\ job[w].by = c})
Calling == {w \in Worker : Is(w, "provider") /\ job[w].day = quota.day}
Placing(c) == Cardinality({w \in Calling : job[w].by = c})
Total(f) ==
    LET sum[S \in SUBSET Credential] ==
          IF S = {} THEN 0 ELSE LET c == CHOOSE c \in S : TRUE IN f[c] + sum[S \ {c}]
    IN  sum[Credential]

\* The in-flight gauges count the calls that hold a slot: whoever is cancelled, refused, evicted or
\* fails, no slot is lost or given back twice, and the server is never above its ceiling.
SlotsAreCounted ==
    /\ \A c \in Credential : Slots(c) = (IF c \in Known(quota) THEN quota.states[c].inFlight ELSE 0)
    /\ quota.service.inFlight = Cardinality({w \in Worker : job[w].slot})
    /\ quota.service.inFlight <= Ceiling.inFlight

\* Each provider call of the day is on the bill of the credential whose search placed it, and on the
\* service's, and nothing else is: idle states are forgotten, limits lowered, credentials revoked
\* and days turned without a call forgiven.
BilledIsSpent ==
    /\ \A c \in Credential : PaidToday(quota, c) = bills[c] + Placing(c)
    /\ Used(quota, quota.service.paid) = Total(bills) + Cardinality(Calling)
    /\ Used(quota, quota.service.paid) <= Ceiling.paid

\* Both kinds of counters of the brakes are true.
CountersAreTrue == SlotsAreCounted /\ BilledIsSpent

\* No query is paid for twice at a time, nor again while its answer is cached.
OnePaidCall ==
    \A w \in Worker : job[w].pc \in {"spend", "provider", "publish"} =>
        Leads(w, job[w].query) /\ job[w].query \notin Cached

\* Who waits waits for somebody: the leader of the very flight joined is still to wake it, so no
\* waiter needs the join's timeout, whatever fails, is refused or is cancelled.
WaitersAreLed ==
    \A w \in Worker : Is(w, "wait") =>
        \E u \in Worker : /\ Waiting(w, u) /\ job[u].query = job[w].query
                         /\ job[u].pc \in {"spend", "provider", "publish", "pop", "wake"}
=============================================================================
