--------------------------- MODULE InnsynRequests ---------------------------
(***************************************************************************)
(* src/lovspor/innsyn/: waves of letters that ask authorities for local    *)
(* regulations, the run that mails them, and the ledger of what was asked  *)
(* and what became of it.                                                  *)
(*                                                                         *)
(* A letter is a pure function of its manifest entry, so an entry stands   *)
(* for the letter and for its SHA-256.  The ledger is what its lines fold  *)
(* to; transitions that neither waves nor sending read (receipts, case     *)
(* numbers, reminders, documents) are left out.  A request is identified   *)
(* by the authority and the moment its letter was accepted: here by the    *)
(* number of the acceptance.                                               *)
(***************************************************************************)
EXTENDS Naturals, FiniteSets, Sequences, SequencesExt

CONSTANTS
    Authority,   \* authority ids, numbers in their order
    Id,          \* LF and LTII ids
    Route,       \* records of a channel ("email" or a form) and an address
    NoRoute, NoCommand, NoOutcome,
    Starts,      \* the directories to start from, with the turns already spent
    WaveSize,    \* --wave-size
    Limit,       \* --limit of a send
    MaxTurns     \* bound: kills, refused deliveries, lost answers, bounces, outcomes, directory
                 \* records, edited letters, new links and texts, all told

ASSUME InnsynAssumption ==
    /\ Authority \subseteq Nat /\ IsFiniteSet(Authority) /\ IsFiniteSet(Id)
    /\ NoRoute \notin Route /\ NoOutcome \notin {"full", "partial"}
    /\ WaveSize \in Nat \ {0} /\ Limit \in Nat \ {0}

VARIABLES
    route,    \* the directory: the standing route of each authority of the population
    linked,   \* the ids each authority's pages link to
    texts,    \* the ids whose text is held
    waves,    \* the last two waves written, the older first
    mail,     \* the letters that went out, in the order they were accepted
    ledger,   \* what the lines of requests.jsonl fold to: each request by its number
    run,      \* the send in progress
    command,  \* a record command between its check of the ledger and its line
    owes,     \* a send stopped, and the owner has not compared Sent with the ledger yet
    turns

askVars == <<route, linked, texts, waves, mail, ledger, run, command, owes, turns>>

Idle == [at |-> "idle"]
Closing == {"full", "refused"}
Outcome == {"full", "partial"}

-----------------------------------------------------------------------------
(* The ledger. *)
SentLine(n) == [event |-> "sent", id |-> n, letter |-> mail[n]]
OutcomeLine(n, o) == [event |-> "outcome", id |-> n, outcome |-> o]
UndeliveredLine(n) == [event |-> "undelivered", id |-> n]

\* _step and _apply: a sent line begins a request, any other changes it.
Step(held, line) ==
    CASE line.event = "sent" ->
            [n \in DOMAIN held \cup {line.id} |->
                IF n = line.id
                THEN [letter |-> line.letter, delivered |-> TRUE, outcome |-> NoOutcome]
                ELSE held[n]]
      [] line.event = "outcome" -> [held EXCEPT ![line.id].outcome = line.outcome]
      [] line.event = "undelivered" -> [held EXCEPT ![line.id].delivered = FALSE]

\* Mutant: nothing is refused twice.
CheckKnown(held, line) == line.event = "sent" \/ line.id \in DOMAIN held

\* check: a request is sent once, known before anything else is said of it, undelivered once.
Check(held, line) ==
    CASE line.event = "sent" -> line.id \notin DOMAIN held
      [] line.event = "outcome" -> line.id \in DOMAIN held
      [] line.event = "undelivered" -> line.id \in DOMAIN held /\ held[line.id].delivered

\* Mutant: a letter that came back still holds its authority.
OpenOrBack(request) == request.outcome \notin Closing

IsOpen(request) == request.delivered /\ request.outcome \notin Closing
Of(held, a) == {held[n] : n \in {m \in DOMAIN held : held[m].letter.authority = a}}

-----------------------------------------------------------------------------
(* Waves. *)
\* known_ids: linked, neither held nor asked for by a letter that arrived.
Asked(held, a) == UNION {r.letter.ids : r \in {q \in Of(held, a) : q.delivered}}
KnownIds(held, a) == linked[a] \ (texts \cup Asked(held, a))

\* _usable: an address a letter came back from is not written to again.
Usable(held, a) ==
    /\ route[a] # NoRoute
    /\ \A r \in Of(held, a) : ~r.delivered => r.letter.address # route[a].address

\* _sort: an authority a letter reached is written to again for new ids alone.
Reached(held, a) == \E r \in Of(held, a) : r.delivered
Eligible(held) ==
    {a \in DOMAIN route : Usable(held, a) /\ (Reached(held, a) => KnownIds(held, a) # {})}

Letter(held, a) ==
    [authority |-> a, channel |-> route[a].channel, address |-> route[a].address,
     ids |-> KnownIds(held, a), general |-> ~Reached(held, a)]

\* plan and write_wave: those with ids to ask for come first.
Wave(held) ==
    LET Before(a, b) ==
            \/ KnownIds(held, a) # {} /\ KnownIds(held, b) = {}
            \/ (KnownIds(held, a) = {}) = (KnownIds(held, b) = {}) /\ a < b
        eligible == SetToSortSeq(Eligible(held), Before)
    IN  [letters |-> [k \in 1..(IF Len(eligible) < WaveSize THEN Len(eligible) ELSE WaveSize) |->
                        Letter(held, eligible[k])],
         edited |-> {}]

\* The letters command.  A send of the older wave goes on while its directory is one of two.
WriteWave ==
    /\ run # Idle => run.wave = Len(waves)
    /\ waves' = Append(IF waves = <<>> THEN <<>> ELSE <<Last(waves)>>, Wave(ledger))
    /\ run' = IF run = Idle THEN Idle ELSE [run EXCEPT !.wave = 1]
    /\ UNCHANGED <<route, linked, texts, mail, ledger, command, owes, turns>>

-----------------------------------------------------------------------------
(* Sending a wave. *)
\* Mutant: only an open request keeps its letter from going again.
JudgeByOpen(held, letter, edited) ==
    CASE \E r \in Of(held, letter.authority) : r.letter = letter /\ IsOpen(r) -> "skipped"
      [] letter.channel # "email" -> "by hand"
      [] OTHER -> IF letter.authority \in edited THEN "refused" ELSE "ready"

\* _judge, from the ledger, the directory and the letter file as they are.
Judge(held, letter, edited) ==
    LET a == letter.authority IN
    CASE \E r \in Of(held, a) : r.letter = letter -> "skipped"
      [] \E r \in Of(held, a) : IsOpen(r) -> "refused"
      [] letter.channel # "email" -> "by hand"
      [] \/ route[a] = NoRoute \/ route[a].channel # "email" \/ route[a].address # letter.address
         \/ a \in edited -> "refused"
      [] OTHER -> "ready"
JudgeIn(w, letter) == Judge(ledger, letter, waves[w].edited)

Continue(queue, sent) ==
    IF queue = <<>> \/ sent >= Limit THEN Idle ELSE [run EXCEPT !.at = "judge", !.queue = queue, !.sent = sent]
Stop == run' = Idle /\ owes' = TRUE
Turn == turns < MaxTurns /\ turns' = turns + 1
world == <<route, linked, texts, waves>>

\* prepare; the owner compared Sent with the ledger after a send that stopped.
Begin(w) ==
    LET ready == SelectSeq(waves[w].letters, LAMBDA l : JudgeIn(w, l) = "ready") IN
    /\ run = Idle /\ ~owes /\ command = NoCommand /\ ready # <<>>
    /\ run' = [at |-> "judge", wave |-> w, queue |-> ready, sent |-> 0, id |-> 0]
    /\ UNCHANGED <<world, mail, ledger, command, owes, turns>>

\* _rejudge
Rejudge ==
    /\ run # Idle /\ run.at = "judge"
    /\ run' = IF JudgeIn(run.wave, Head(run.queue)) = "ready" THEN [run EXCEPT !.at = "deliver"]
              ELSE Continue(Tail(run.queue), run.sent)
    /\ UNCHANGED <<world, mail, ledger, command, owes, turns>>

\* _send_one: deliver, then record_events, which checks the ledger and then appends.
Deliver ==
    /\ run # Idle /\ run.at = "deliver"
    /\ mail' = Append(mail, Head(run.queue))
    /\ run' = [run EXCEPT !.at = "check", !.id = Len(mail')]
    /\ UNCHANGED <<world, ledger, command, owes, turns>>
CheckSent ==
    /\ run # Idle /\ run.at = "check"
    /\ IF Check(ledger, SentLine(run.id)) THEN run' = [run EXCEPT !.at = "append"] /\ UNCHANGED owes
       ELSE Stop
    /\ UNCHANGED <<world, mail, ledger, command, turns>>
AppendSent ==
    /\ run # Idle /\ run.at = "append"
    /\ ledger' = Step(ledger, SentLine(run.id))
    /\ run' = Continue(Tail(run.queue), run.sent + 1)
    /\ UNCHANGED <<world, mail, command, owes, turns>>

\* The server refuses the letter, or takes it and the answer is lost: the run stops, nothing recorded.
Refused ==
    /\ run # Idle /\ run.at = "deliver" /\ Turn /\ Stop
    /\ mail' \in {mail, Append(mail, Head(run.queue))}
    /\ UNCHANGED <<world, ledger, command>>
\* The process dies, or the ledger or the directory cannot be read or written.
Die == run # Idle /\ Turn /\ Stop /\ UNCHANGED <<world, mail, ledger, command>>

-----------------------------------------------------------------------------
(* The owner.  A command checks its line against the ledger it read, and   *)
(* appends it under a lock it takes afterwards.                            *)
CheckCommand(line) ==
    /\ command = NoCommand /\ Check(ledger, line) /\ command' = line
    /\ UNCHANGED <<world, mail, ledger, run>>
AppendCommand ==
    /\ command # NoCommand
    /\ ledger' = Step(ledger, command) /\ command' = NoCommand
    /\ UNCHANGED <<world, mail, run, owes, turns>>

\* record-sent for a letter found in Sent after a send stopped, in the ledger or not, and
\* record-sent-manual for a form that was sent.
RecordSent(n) ==
    /\ mail[n].channel # "email" \/ (owes /\ run = Idle)
    /\ CheckCommand(SentLine(n)) /\ UNCHANGED <<owes, turns>>
\* Every letter in Sent has its line.
Looked ==
    /\ owes /\ run = Idle /\ command = NoCommand
    /\ \A n \in DOMAIN mail : mail[n].channel = "email" => n \in DOMAIN ledger
    /\ owes' = FALSE
    /\ UNCHANGED <<world, mail, ledger, run, command, turns>>

\* A letter send refused because it goes by a form; the owner sends it once.
SendByHand(w) ==
    \E l \in ToSet(waves[w].letters) :
        /\ JudgeIn(w, l) = "by hand" /\ l \notin ToSet(mail) /\ l.authority \notin waves[w].edited
        /\ mail' = Append(mail, l)
        /\ UNCHANGED <<world, ledger, run, command, owes, turns>>

RecordOutcome(n, o) == Turn /\ CheckCommand(OutcomeLine(n, o)) /\ UNCHANGED owes
RecordUndelivered(n) == Turn /\ CheckCommand(UndeliveredLine(n)) /\ UNCHANGED owes

\* set-recipient and set-channel.
SetRoute(a, r) ==
    /\ r # route[a] /\ Turn
    /\ route' = [route EXCEPT ![a] = r]
    /\ UNCHANGED <<linked, texts, waves, mail, ledger, run, command, owes>>
\* The owner edits a letter that has neither gone nor is on its way.
EditLetter(w) ==
    \E l \in ToSet(waves[w].letters) :
        /\ l \notin ToSet(mail) /\ (run # Idle => Head(run.queue) # l)
        /\ Turn /\ waves' = [waves EXCEPT ![w].edited = @ \cup {l.authority}]
        /\ UNCHANGED <<route, linked, texts, mail, ledger, run, command, owes>>
\* The observatory sees a link, or the corpus comes to hold a text.
Link(a, i) ==
    /\ i \notin linked[a] /\ Turn /\ linked' = [linked EXCEPT ![a] = @ \cup {i}]
    /\ UNCHANGED <<route, texts, waves, mail, ledger, run, command, owes>>
Hold(i) ==
    /\ i \notin texts /\ Turn /\ texts' = texts \cup {i}
    /\ UNCHANGED <<route, linked, waves, mail, ledger, run, command, owes>>

-----------------------------------------------------------------------------
AskInit ==
    /\ \E s \in Starts : route = s.route /\ turns = s.turns
    /\ linked = [a \in DOMAIN route |-> {}] /\ texts = {}
    /\ waves = <<>> /\ mail = <<>> /\ ledger = <<>>
    /\ run = Idle /\ command = NoCommand /\ owes = FALSE

Send == (\E w \in DOMAIN waves : Begin(w)) \/ Rejudge \/ Deliver \/ CheckSent \/ AppendSent \/ Refused \/ Die
Owner ==
    \/ WriteWave \/ AppendCommand \/ Looked
    \/ \E n \in DOMAIN mail :
        RecordSent(n) \/ RecordUndelivered(n) \/ \E o \in Outcome : RecordOutcome(n, o)
    \/ \E w \in DOMAIN waves : SendByHand(w) \/ EditLetter(w)
World == \E a \in DOMAIN route : (\E r \in Route : SetRoute(a, r)) \/ (\E i \in Id : Link(a, i) \/ Hold(i))
AskNext == Send \/ Owner \/ World
AskSpec == AskInit /\ [][AskNext]_askVars

\* The owner writes waves, sends the latest until nothing of it is ready, sends forms by hand,
\* compares Sent with the ledger after a send that stopped, and records what went.
AskFair ==
    /\ WF_askVars(WriteWave) /\ WF_askVars(Looked) /\ WF_askVars(AppendCommand)
    /\ SF_askVars(waves # <<>> /\ Begin(Len(waves)))
    /\ WF_askVars(Rejudge) /\ WF_askVars(Deliver) /\ WF_askVars(CheckSent) /\ WF_askVars(AppendSent)
    /\ SF_askVars(waves # <<>> /\ SendByHand(Len(waves)))
    /\ SF_askVars(\E n \in DOMAIN mail : n \notin DOMAIN ledger /\ RecordSent(n))

-----------------------------------------------------------------------------
\* No letter goes out twice, by mail or by hand, through sends that are killed or stopped at
\* any step, older manifests sent again, edited letters and new addresses: dispatch.py.
NoLetterTwice == IsInjective(mail)

\* What an authority answered is never undone by a later line of the ledger: record_events
\* with its check of a ledger that was read before the line is written.
AnswersStay ==
    [][\A n \in DOMAIN ledger :
        ledger[n].outcome # NoOutcome => ledger'[n].outcome # NoOutcome]_askVars

\* A letter comes to reach every authority that keeps a usable route, whatever befell earlier
\* ones: waves.py with dispatch.py.
EveryoneIsAsked ==
    \A a \in Authority : <>[](a \in DOMAIN route /\ Usable(ledger, a)) => <>[]Reached(ledger, a)
=============================================================================
