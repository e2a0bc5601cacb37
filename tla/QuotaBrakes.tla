---------------------------- MODULE QuotaBrakes ----------------------------
(***************************************************************************)
(* quota.py: the counters around a tool call, as functions of a quota q,   *)
(* which holds the counters of the credentials it remembers, those of the  *)
(* service, and the UTC day.  Each of them runs under the enforcer's lock. *)
(* The token bucket is left out but for its refusal, which comes last and  *)
(* changes no other brake.                                                 *)
(***************************************************************************)
EXTENDS Integers, FiniteSets

CONSTANTS
    Threshold,      \* _EVICTION_THRESHOLD
    Ceiling         \* ServiceLimits: [daily, inFlight, paid]

\* A counter of one day; what it says of another day is forgotten by roll.
Counter(q, used) == [day |-> q.day, used |-> used]
Used(q, counter) == IF counter.day = q.day THEN counter.used ELSE 0
Roll(q, counter) == Counter(q, Used(q, counter))
More(q, counter) == Counter(q, Used(q, counter) + 1)

NewState(q) == [inFlight |-> 0, daily |-> Counter(q, 0), paid |-> Counter(q, 0)]
NewQuota(day) ==
    LET q == [day |-> day]
    IN  [day |-> day, states |-> [c \in {} |-> NewState(q)], service |-> NewState(q)]

Known(q) == DOMAIN q.states
PaidToday(q, c) == IF c \in Known(q) THEN Used(q, q.states[c].paid) ELSE 0

\* Mutant: a day's paid searches do not keep a state.
ForgetIfFree(q, idle) ==
    {c \in Known(q) \cap idle : q.states[c].inFlight = 0 /\ Used(q, q.states[c].daily) = 0}

\* _evict_idle: idle are the credentials not seen for the idle window.
Forgotten(q, idle) ==
    {c \in Known(q) \cap idle :
        /\ q.states[c].inFlight = 0
        /\ Used(q, q.states[c].daily) = 0 /\ Used(q, q.states[c].paid) = 0}

\* _state_for_locked
WithState(q, c, idle) ==
    IF c \in Known(q) THEN q
    ELSE LET gone == IF Cardinality(Known(q)) >= Threshold THEN Forgotten(q, idle) ELSE {}
         IN  [q EXCEPT !.states = [d \in (Known(q) \ gone) \cup {c} |->
                                      IF d = c THEN NewState(q) ELSE q.states[d]]]

\* _admit and _admit_service: the caller's own brakes, then the service's.
Room(q, c, limits) ==
    /\ Used(q, q.states[c].daily) < limits.daily /\ q.states[c].inFlight < limits.inFlight
    /\ Used(q, q.service.daily) < Ceiling.daily /\ q.service.inFlight < Ceiling.inFlight

OneIn(q, s) == [s EXCEPT !.daily = More(q, s.daily), !.inFlight = s.inFlight + 1,
                         !.paid = Roll(q, s.paid)]
Admitted(q, c) == [q EXCEPT !.states[c] = OneIn(q, @), !.service = OneIn(q, @)]

\* The finally clause of guard, on the counters the call was admitted by.
Released(q, c) ==
    [q EXCEPT !.states = [d \in Known(q) |->
                            IF d = c THEN [q.states[d] EXCEPT !.inFlight = @ - 1] ELSE q.states[d]],
              !.service.inFlight = @ - 1]

\* _charge_paid_counters
MayPay(q, c, limits) ==
    PaidToday(q, c) < limits.paid /\ Used(q, q.service.paid) < Ceiling.paid
Paid(q, c) ==
    [q EXCEPT !.states[c].paid = More(q, @), !.service.paid = More(q, @)]
=============================================================================
