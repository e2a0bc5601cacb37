------------------------------ MODULE Promotion ------------------------------
(***************************************************************************)
(* src/lovspor/promotion/: the commands that put the observed versions of  *)
(* one local regulation into a checkout of the corpus, and take it out.    *)
(*                                                                         *)
(* The document is observed at one URL; a text stands for the blobs that   *)
(* hold it, and an instant is the number of observations made by then.     *)
(* The operator runs one command at a time, which may be killed between    *)
(* any two of its writes; commits are his own.  After a kill he runs the   *)
(* command again or restores the checkout, before any other command: where *)
(* the command ends well, having found nothing to do, he goes on.          *)
(***************************************************************************)
EXTENDS Naturals, FiniteSets, Sequences, SequencesExt

CONSTANTS
    Text,         \* the texts the URL serves
    Look,         \* Look[t][e]: what extractor e makes of the front matter of t
    None,         \* a file that is not there
    FileOrders,   \* the orders of a version's files by path; the page's place is its slug's
    Histories,    \* the observations and decisions to start from, with the events already spent
    MaxExtractor, \* bounds: extractor releases,
    MaxEvents     \* and observations, decisions, new extractors and kills, all told

\* What its files hold, where they are there.
PageFile == [text : Text, version : Nat, first : Nat, look : Nat]
AuditEntry == [text : Text, first : Nat, last : Nat, by : 1..MaxExtractor, decided : Nat,
               carried : BOOLEAN]
ObsFile == [versions : Seq(AuditEntry), withdrawn : BOOLEAN]
ManifestRecord == [status : {"current", "removed"}, text : Text, version : Nat \ {0},
                   extractor : 1..MaxExtractor]

ASSUME PromotionAssumption ==
    /\ FileOrders \subseteq {q \in Seq({"page", "evidence", "obs", "record"}) : Len(q) = 4}
    /\ \A q \in FileOrders : q[4] = "record" /\ IsInjective(q)
    /\ MaxExtractor \in Nat \ {0} /\ Look \in [Text -> [1..MaxExtractor -> Nat]]
    /\ None \notin PageFile /\ None \notin ObsFile /\ None \notin ManifestRecord

\* A decision is of a text observed by then, and later decisions are made later.
ASSUME HistoryAssumption ==
    \A h \in Histories :
        /\ h.seen \in Seq(Text) /\ h.log \in Seq(ToSet(h.log))
        /\ \A i \in DOMAIN h.log :
              /\ h.log[i].kind = "decision" /\ h.log[i].at \in 1..Len(h.seen)
              /\ \E j \in 1..h.log[i].at : h.seen[j] = h.log[i].text
              /\ \A j \in 1..(i - 1) : h.log[j].at <= h.log[i].at

VARIABLES
    seen,       \* the observations at the URL, oldest first
    extractor,  \* EXTRACTOR_VERSION of the engine
    log,        \* promotions.jsonl: decisions, carries and withdrawals
    tree,       \* the document's files in the checkout
    head,       \* ... and in its last commit
    pages,      \* the pages ever committed
    order,
    job,        \* the writes of the command that runs
    owed,       \* the kind of command that was killed
    passed,     \* history: what such a command, run again, took for done and was not: the
                \* version whose page stays, the extractor whose carries are not logged
    events

promotionVars == <<seen, extractor, log, tree, head, pages, order, job, owed, passed, events>>

NoFiles == [page |-> None, evidence |-> None, obs |-> None, record |-> None]
NoJob == [kind |-> "none", queue |-> <<>>, target |-> NoFiles, lines |-> <<>>]

-----------------------------------------------------------------------------
(* What the observation log says. *)

\* derive_versions: the runs of one text, as the instants they begin.
Begins(s) == {i \in DOMAIN s : i = 1 \/ s[i] # s[i - 1]}
Runs(s) ==
    [n \in 1..Cardinality(Begins(s)) |->
        CHOOSE i \in Begins(s) : Cardinality({j \in Begins(s) : j <= i}) = n]
\* The last observation of the run that began at i.
RunEnd(s, i) == CHOOSE j \in i..Len(s) :
    (\A k \in i..j : s[k] = s[i]) /\ (j = Len(s) \/ s[j + 1] # s[i])
History(s) ==
    LET runs == Runs(s)
    IN  [n \in DOMAIN runs |-> [text |-> s[runs[n]], first |-> runs[n], last |-> RunEnd(s, runs[n])]]

\* _own: every observation of these bytes, wherever another text came in between.
FirstOf(s, t) == CHOOSE i \in DOMAIN s : s[i] = t /\ \A j \in 1..(i - 1) : s[j] # t
LastOf(s, t) == CHOOSE i \in DOMAIN s : s[i] = t /\ \A j \in (i + 1)..Len(s) : s[j] # t

-----------------------------------------------------------------------------
(* The decision log. *)
Decisions(t) == {i \in DOMAIN log : log[i].kind = "decision" /\ log[i].text = t}
Carries(d) ==
    {i \in DOMAIN log : log[i].kind = "carried" /\ log[i].text = d.text
                          /\ log[i].at = d.at /\ log[i].by = d.by}
Withdrawn == \E i \in DOMAIN log : log[i].kind = "withdrawal"

\* latest_decision, when it is an approval
Approvals(t) ==
    {d \in {log[i] : i \in {j \in Decisions(t) : \A k \in Decisions(t) : k <= j}} : d.approves}

\* stands_at_running_extractor
StandsHere(d) == d.by = extractor \/ \E i \in Carries(d) : log[i].to = extractor

\* approval_carried: an approval given elsewhere stands by its carry.
IsCarried(d) == d.by # extractor

-----------------------------------------------------------------------------
(* The files of a version. *)
Page(t, n, first) == [text |-> t, version |-> n, first |-> first, look |-> Look[t][extractor]]
Entry(t, first, last, d) ==
    [text |-> t, first |-> first, last |-> last, by |-> extractor, decided |-> d.at,
     carried |-> IsCarried(d)]

\* write_set
Files(t, n, first, entries) ==
    [page |-> Page(t, n, first), evidence |-> [text |-> t, version |-> n],
     obs |-> [versions |-> entries, withdrawn |-> FALSE],
     record |-> [status |-> "current", text |-> t, version |-> n, extractor |-> extractor]]

Idling(kind) == job = NoJob /\ owed \in {"none", kind}
Run(kind, queue, target, lines) ==
    /\ job' = [kind |-> kind, queue |-> queue, target |-> target, lines |-> lines]
    /\ owed' = "none"
    /\ UNCHANGED <<seen, extractor, log, tree, head, pages, order, passed, events>>

\* _placement: a removed document is refused, and a text the manifest has is unchanged.
Placed(t) == tree.record # None => tree.record.status = "current" /\ tree.record.text # t
NextNumber == IF tree.record = None THEN 1 ELSE tree.record.version + 1

\* _earlier_versions: what the observations file lists before version n, or refuses to follow.
Follows(n, first) ==
    n > 1 => /\ tree.obs # None /\ Len(tree.obs.versions) = n - 1
             /\ Last(tree.obs.versions).first < first
Earlier(n) == IF n = 1 THEN <<>> ELSE tree.obs.versions

\* promote_one, for `promote local` and `promote batch`
Local(t) ==
    /\ Idling("local") /\ ~Withdrawn
    /\ \E d \in Approvals(t) :
        LET first == FirstOf(seen, t)
            last == LastOf(SubSeq(seen, 1, d.at), t)
            entries == Append(Earlier(NextNumber), Entry(t, first, last, d))
        IN  /\ StandsHere(d) /\ Placed(t) /\ Follows(NextNumber, first)
            /\ Run("local", order, Files(t, NextNumber, first, entries), <<>>)

\* reproduction: what the log has as this version is what was promoted.
Reproduced(entries, history) ==
    \A n \in DOMAIN entries :
        /\ n \in DOMAIN history
        /\ entries[n].text = history[n].text /\ entries[n].first = history[n].first

\* _fits
Fits(version) == {d \in Approvals(version.text) : StandsHere(d) /\ d.at >= version.first}

\* plan_backfill: the versions before the first that is held.
Planned(history) == {n \in DOMAIN history : \A m \in 1..n : Fits(history[m]) # {}}
Approval(version) == CHOOSE d \in Fits(version) : TRUE
Through(history) ==
    LET at == {Approval(history[n]).at : n \in Planned(history)}
    IN  CHOOSE x \in at : \A y \in at : y <= x

\* _in_corpus: the versions the checkout holds must be the log's, read by this extractor.
Agrees(history) ==
    tree.record # None =>
        /\ tree.obs # None /\ Len(tree.obs.versions) = tree.record.version
        /\ Reproduced(tree.obs.versions, history)
        /\ \A n \in DOMAIN tree.obs.versions : tree.obs.versions[n].by = extractor

\* with_intervals
Refreshed(entries, history) == [n \in DOMAIN entries |-> [entries[n] EXCEPT !.last = history[n].last]]

\* backfill_impl and next_version; it never asks whether the document is withdrawn.
Backfill ==
    /\ Idling("backfill")
    /\ LET all == History(seen)
           history == History(SubSeq(seen, 1, Through(all)))
           n == NextNumber
           v == history[n]
           entries == Append(Earlier(n), Entry(v.text, v.first, v.last, Approval(v)))
       IN  /\ Planned(all) # {} /\ Agrees(history) /\ n \in Planned(all)
           /\ Placed(v.text) /\ Follows(n, v.first)
           /\ Run("backfill", order, Files(v.text, n, v.first, Refreshed(entries, history)), <<>>)

\* observe_impl and _refresh
Observe ==
    /\ Idling("observe")
    /\ tree.record # None /\ tree.record.status = "current" /\ tree.obs # None
    /\ Reproduced(tree.obs.versions, History(seen))
    /\ \A n \in DOMAIN tree.obs.versions : tree.obs.versions[n].by = extractor
    /\ LET versions == Refreshed(tree.obs.versions, History(seen)) IN
        /\ versions # tree.obs.versions
        /\ Run("observe", <<"obs">>, [tree EXCEPT !.obs.versions = versions], <<>>)

\* Mutant: the log is written after the files.
WithdrawalQueueLate == <<"obs", "record", "page", "evidence", "log">>

\* withdraw_impl: the log first, then apply_withdrawal's files by path, then its deletions.
WithdrawalQueue == <<"log", "obs", "record", "page", "evidence">>

Withdraw ==
    /\ Idling("withdraw")
    /\ tree.record # None /\ tree.record.status = "current" /\ tree.obs # None
    /\ Run("withdraw", WithdrawalQueue,
           [page |-> None, evidence |-> None, obs |-> [tree.obs EXCEPT !.withdrawn = TRUE],
            record |-> [tree.record EXCEPT !.status = "removed"]],
           <<[kind |-> "withdrawal"]>>)

-----------------------------------------------------------------------------
(* After a new extractor. *)

\* _require_identical_bytes: the page a version was committed as, which the extractor makes
\* again; the current version's is the checkout's.
Identical(n) ==
    LET v == tree.obs.versions[n]
        then == IF n = tree.record.version THEN {tree.page} ELSE pages
    IN  \E p \in then : p.version = n /\ p.text = v.text /\ p.look = Look[v.text][extractor]

\* standing_approval: given here, or before and carried on identical bytes.
Migrates(n) ==
    {d \in Approvals(tree.obs.versions[n].text) :
        d.by = extractor \/ (d.by < extractor /\ Identical(n))}
Mover(n) == CHOOSE d \in Migrates(n) : TRUE

\* Mutant: a moved audit keeps its decision, as if that had been given here.
AuditUncarried(entry, d) == [entry EXCEPT !.by = extractor]

\* audit_at_running_extractor
AuditHere(entry, d) ==
    IF IsCarried(d) THEN [entry EXCEPT !.by = extractor, !.carried = TRUE]
    ELSE [entry EXCEPT !.by = extractor, !.decided = d.at, !.carried = FALSE]

CarryLine(d) == [kind |-> "carried", text |-> d.text, at |-> d.at, by |-> d.by, to |-> extractor]

IsCurrent ==
    /\ tree.record.extractor = extractor /\ tree.evidence # None
    /\ \A n \in DOMAIN tree.obs.versions : tree.obs.versions[n].by = extractor

\* published
IsPublished ==
    tree.record # None /\ tree.record.status = "current" /\ tree.obs # None /\ tree.page # None

\* migrate_impl, plan_migration and _write
Migrate ==
    /\ Idling("migrate") /\ ~Withdrawn /\ IsPublished
    /\ ~IsCurrent
    /\ LET n == tree.record.version
           entries == tree.obs.versions
           movers == [m \in DOMAIN entries |-> Mover(m)]
           lines == {CarryLine(movers[m]) : m \in {k \in DOMAIN entries : IsCarried(movers[k])}}
           fresh == SetToSeq(lines \ ToSet(log))
       IN  /\ Len(entries) = n /\ Reproduced(entries, History(seen))
           /\ tree.page.text = tree.record.text /\ Identical(n)
           /\ \A m \in DOMAIN entries : Migrates(m) # {}
           /\ Run("migrate",
                  (IF tree.evidence = None THEN <<"evidence">> ELSE <<>>) \o <<"obs", "record">>
                      \o [i \in DOMAIN fresh |-> "log"],
                  [tree EXCEPT !.evidence = [text |-> tree.record.text, version |-> n],
                               !.obs.versions = [m \in DOMAIN entries |->
                                                    AuditHere(entries[m], movers[m])],
                               !.record.extractor = extractor],
                  fresh)

\* refresh_all_impl: the page rendered anew, its text and its version the same.
Refresh ==
    /\ Idling("refresh") /\ ~Withdrawn /\ IsPublished
    /\ tree.page.text = tree.record.text /\ tree.page.version = tree.record.version
    /\ \E d \in Approvals(tree.page.text) : StandsHere(d)
    /\ tree.page.look # Look[tree.page.text][extractor]
    /\ Run("refresh", <<"page">>, [tree EXCEPT !.page.look = Look[tree.page.text][extractor]], <<>>)

-----------------------------------------------------------------------------
(* A killed command, run again, that finds nothing to do. *)
PassedOver(what) ==
    /\ job = NoJob
    /\ owed' = "none" /\ passed' = passed \cup {what}
    /\ UNCHANGED <<seen, extractor, log, tree, head, pages, order, job, events>>

\* withdraw_impl: "already withdrawn", by the manifest, whatever files are left to delete
WithdrawAgain ==
    /\ owed = "withdraw" /\ tree.record # None /\ tree.record.status = "removed"
    /\ PassedOver(<<"withdraw", tree.record.version>>)

\* _plan_all: "already at extractor", by the files, whatever lines are left to log.  A promotion
\* writes its record last, so that its repetition never finds its text there.
MigrateAgain ==
    /\ owed = "migrate" /\ IsPublished /\ IsCurrent
    /\ PassedOver(<<"migrate", extractor>>)

-----------------------------------------------------------------------------
\* A second withdrawal of the document says nothing the first has not.
Logged(line) == IF line \in ToSet(log) THEN log ELSE Append(log, line)

\* apply_files and the log's appends: one file is replaced, or one line appended.
Proceed ==
    /\ job # NoJob
    /\ IF Head(job.queue) = "log"
       THEN log' = Logged(Head(job.lines)) /\ UNCHANGED tree
       ELSE tree' = [tree EXCEPT ![Head(job.queue)] = job.target[Head(job.queue)]] /\ UNCHANGED log
    /\ IF Len(job.queue) = 1
       THEN job' = NoJob
       ELSE job' = [job EXCEPT !.queue = Tail(@),
                               !.lines = IF Head(job.queue) = "log" THEN Tail(@) ELSE @]
    /\ UNCHANGED <<seen, extractor, head, pages, order, owed, passed, events>>

Spend == events < MaxEvents /\ events' = events + 1

\* Killed before the one file they write, observe and refresh have done nothing.
Kill ==
    /\ job # NoJob /\ Spend
    /\ job' = NoJob
    /\ owed' = IF job.kind \in {"observe", "refresh"} THEN "none" ELSE job.kind
    /\ UNCHANGED <<seen, extractor, log, tree, head, pages, order, passed>>

\* The operator's git commit of the whole dataset, which a command has printed, of this document or
\* of another.
Commit ==
    /\ job = NoJob /\ owed = "none" /\ tree # head
    /\ head' = tree
    /\ pages' = pages \cup ({tree.page} \ {None})
    /\ UNCHANGED <<seen, extractor, log, tree, order, job, owed, passed, events>>

\* ... or git restore and git clean, in a checkout where something was killed or is not
\* committed: a fresh clone shows the same.
Restore ==
    /\ job = NoJob /\ (owed # "none" \/ tree # head)
    /\ tree' = head /\ owed' = "none"
    /\ UNCHANGED <<seen, extractor, log, head, pages, order, job, passed, events>>

\* approve_impl; reject stands for hold as well, which no command tells from it.
Decide ==
    /\ job = NoJob /\ Spend
    /\ \E t \in ToSet(seen), yes \in BOOLEAN :
        log' = Append(log, [kind |-> "decision", text |-> t, approves |-> yes,
                            at |-> Len(seen), by |-> extractor])
    /\ UNCHANGED <<seen, extractor, tree, head, pages, order, job, owed, passed>>

\* A command reads the observations once, so one made while it writes comes after it.
Capture ==
    /\ job = NoJob /\ Spend
    /\ \E t \in Text : seen' = Append(seen, t)
    /\ UNCHANGED <<extractor, log, tree, head, pages, order, job, owed, passed>>

\* A new engine, between commands.
Upgrade ==
    /\ extractor < MaxExtractor /\ job = NoJob /\ Spend
    /\ extractor' = extractor + 1
    /\ UNCHANGED <<seen, log, tree, head, pages, order, job, owed, passed>>

PromotionInit ==
    /\ \E s \in Histories : seen = s.seen /\ log = s.log /\ events = s.events
    /\ extractor = 1 /\ pages = {}
    /\ tree = NoFiles /\ head = NoFiles
    /\ order \in FileOrders
    /\ job = NoJob /\ owed = "none" /\ passed = {}

Command ==
    \/ \E t \in ToSet(seen) : Local(t)
    \/ Backfill \/ Observe \/ Withdraw \/ Migrate \/ Refresh
    \/ WithdrawAgain \/ MigrateAgain
PromotionNext == Command \/ Proceed \/ Kill \/ Commit \/ Restore \/ Decide \/ Capture \/ Upgrade
PromotionSpec == PromotionInit /\ [][PromotionNext]_promotionVars

-----------------------------------------------------------------------------
\* A version's audit names an approval of its text, given once the text was seen, at the
\* extractor the audit is under or carried to it by a line of the log.
IsApproved(v) ==
    \E i \in Decisions(v.text) :
        /\ log[i].approves /\ log[i].at = v.decided /\ v.first <= v.decided
        /\ IF v.carried
           THEN \/ \E line \in ToSet(log) :
                      line.kind = "carried" /\ line.text = v.text /\ line.to = v.by
                \/ <<"migrate", v.by>> \in passed
           ELSE log[i].by = v.by

\* The page and the evidence of the version that the record says is the last.
PageFits(files) ==
    LET n == files.record.version IN
    /\ files.page # None /\ files.page.version = n /\ files.page.text = files.record.text
    /\ files.page.first = files.obs.versions[n].first
EvidenceFits(files) ==
    files.evidence = [text |-> files.record.text, version |-> files.record.version]

\* The withdrawal of a version has deleted its files, or has left off where it was killed.
IsGone(files) ==
    \/ files.page = None /\ files.evidence = None
    \/ /\ <<"withdraw", files.record.version>> \in passed
       /\ files.page = None \/ PageFits(files)
       /\ EvidenceFits(files)

IsWhole(files) ==
    LET n == files.record.version IN
    /\ Len(files.obs.versions) = n /\ files.obs.versions[n].text = files.record.text
    /\ \A m \in 1..(n - 1) : files.obs.versions[m].first < files.obs.versions[m + 1].first
    /\ IF files.record.status = "removed"
       THEN files.obs.withdrawn /\ IsGone(files)
       ELSE ~files.obs.withdrawn /\ PageFits(files) /\ EvidenceFits(files)

\* What a commit publishes is one version of the document with all of its files, or its
\* withdrawal; the versions it lists are those that were published, in the order they were
\* seen, and each was approved: promotion, backfill, observe, migrate, refresh and withdraw
\* killed at any write and run again, under new extractors, verdicts and observations.  But a
\* migrate or a withdraw that, run again, takes for done what it was killed in leaves undone
\* what was still to do: the log then lacks the carries to that extractor, and the version that
\* is withdrawn is published with its page.  No commit lacks anything else.
CommittedIsTold ==
    head.record # None =>
        /\ IsWhole(head) /\ \A v \in ToSet(head.obs.versions) : IsApproved(v)
        /\ \A p \in pages : p.version <= head.record.version
                                /\ head.obs.versions[p.version].text = p.text

\* No command deletes the page before the log says that the document is withdrawn, and once it
\* does none writes the page again, in a fresh checkout or an old one, but a backfill where
\* the manifest does not show the withdrawal: withdraw_impl and refuse_withdrawn.
WithdrawnStaysOut ==
    [][ /\ tree.page # None /\ tree'.page = None => Withdrawn \/ tree' = head
        /\ Withdrawn /\ tree'.page \notin {None, tree.page} =>
              job.kind = "backfill" \/ tree' = head ]_promotionVars
=============================================================================
