# lovspor, specified

TLA+ specifications of [lovspor](../src/README.md): the engine that mirrors the
laws and regulations of Lovdata into a git corpus (`lovverk`), publishes a site
from it, serves it over MCP, and keeps the evidence around it. The
specifications model what is hard to test in it: runs that are killed between
two writes, commands that overlap, records of one fact that are kept in several
places, listings that change from night to night.

Contents: [what is here](#what-is-here), [inventory](#inventory-of-the-system),
[the modules](#the-modules), [the runs](#the-runs), [the proofs](#the-proofs),
[where code and text disagree](#where-code-and-text-disagree),
[what is not modelled](#what-is-not-modelled), [plan](#plan).

## What is here

| file | what it is |
|---|---|
| `ReleaseControl.tla` | the release transaction: commit, rollback, reconcile, prune, crashes, restarts |
| `LiveRelease.tla` | what it promises: one live release, switched at once |
| `FirstMigration.tla` | the one-off cutover of a host to the envelope, its ways back, and its retirement |
| `ReleaseControlProofs.tla` | TLAPS proofs about both |
| `CorpusTransaction.tla` | a change of the forarbeider dataset: staging, journal, recovery, withdrawal |
| `AtomicDataset.tla` | what it promises: one document at a time, and at once |
| `CorpusReader.tla` | a reader of that dataset, which takes no lock, beside its commands |
| `CorpusTransactionProofs.tla` | TLAPS proofs about both |
| `SlugOwnership.tla` | pure: which document owns which file name |
| `SlugResolution.tla` | that algorithm, asked again and again |
| `SyncCorpus.tla` | the nightly sync, its commits, attestation, audit and push; uses `SlugOwnership` |
| `SyncCorpusProofs.tla` | TLAPS proofs about it, about `SlugResolution` and about `EmbeddingSidecars` |
| `EmbeddingSidecars.tla` | the vectors beside the pages: keyed and keyless runs, repairs and migrations, and the index search builds; uses `SyncCorpus` |
| `GateEpoch.tla` | the record of when a parser version's gate began: runs, backfills, pushes, and what a server answers by it |
| `GateEpochProofs.tla` | TLAPS proofs about it |
| `LiveReader.tla` | the MCP server's reader: threads that fill caches while a pull moves the corpus |
| `LiveReaderProofs.tla` | TLAPS proofs about it and about `StateCache` |
| `StateCache.tla` | the byte-budgeted cache of historical states and the calls that share it |
| `QuotaBrakes.tla` | pure: the counters around a hosted call |
| `HostedCalls.tla` | calls, cancellations and the shared paid call of a query; uses `QuotaBrakes` |
| `CredentialStore.tla` | the credential file, rewritten in place under the server that reads it |
| `HostedProofs.tla` | TLAPS proofs about the calls and the store |
| `InnsynRequests.tla` | letters to authorities: waves, sending, the ledger of what was asked |
| `Promotion.tla` | observed local regulations into the corpus checkout, and out of it |
| `LocalRecordsProofs.tla` | TLAPS proofs about the letters and about promotion |
| `ObservationLog.tla` | the observatory's append-only log: captures, corrections, repair, and the index a sweep reads it by |
| `ObservationLogProofs.tla` | TLAPS proofs about it |
| `MCReleaseControl`, `MCCutover`, `MCOperators`, `MCCorpusTransaction`, `MCCorpusReader`, `MCSyncCorpus`, `MCSyncNames`, `MCSidecars`, `MCGateEpoch`, `MCHosted`, `MCInnsyn`, `MCRecords` | the instances TLC checks |
| `*.cfg` | one per run |
| `PROJECT.json` | components, runs, mutants, the map from definitions to source lines, hazards, theorems |

To check: `tlc -workers 2 -config release_crash.cfg MCCutover` (the module of each run
is in [the runs](#the-runs)), and `tlapm M.tla` for each of the eight `*Proofs` modules.

A definition that starts with a comment "Mutant:" is no part of the
specification. It is a plausible bug, an alternative body of the definition that
follows it or that `PROJECT.json` names; each property of each passing run is violated
when one of them takes its place.

## Inventory of the system

Each component with the state it keeps, its operations, what it talks to, what
is hard about it, and what makes it correct. *(M)* is modelled here.

**Corpus sync** *(M: SyncCorpus)* (`sync/orchestrator.py`, `sync/change_detector.py`,
`sync/git_commit.py`, `corpus_audit.py`, `.github/workflows/sync.yml`). State: the
corpus repository, which is a manifest (a record per document: slug, source hash,
renderer version, current or removed) and a tree of pages, three times over
(worktree, HEAD, origin), and the attestation notes of its commits. Operations:
list upstream, classify, refuse a mass removal, write and delete pages, commit per
document or in bulk, write the manifest, attest, audit, push notes, push main.
Interactions: the slugs come from slug ownership, the notes are what the temporal
gate of the MCP server reads. Hard: titles change and documents swap files, a
document fails to render after its file was taken over, a run dies anywhere, the
renderer's version moves under pages it made. Correct if the manifest and the pages
never contradict each other, nothing unattested is published, no file passes from
one document to another, no truncated listing wipes a dataset, and the published
corpus comes to show upstream.

**Slug ownership** *(M: SlugOwnership, SlugResolution)* (`rendering/slug.py`). No
state; a function of a listing and the prior manifest. Hard: collisions among
siblings depend on who else is listed, so numbers could wander; tombstones own
their slugs. Correct if it is injective, hands nothing over, keeps an owner's slug,
and settles.

**Release control plane** *(M: ReleaseControl)* (`release/control.py`, `reconcile.py`,
`envelope.py`, `continuity.py`, and `_place` of `build.py`). State: R, the configuration
Caddy runs; D, what the fragment on disk composes; M, the file `ACTIVE` with the
active and the previous release; `<fragment>.next` and `.previous`; a directory per
release; a flock. Operations: commit, rollback, reconcile (record, complete,
abandon), prune; the builder places releases without the lock. Hard: R, D and M are
written one after the other and each command may be killed in between; Caddy restarts
by itself and loads D; reloads fail; operators edit fragments; two commands overlap.
Correct if what R, D or M names is complete on disk, every leftover can be resolved
in one way that loses nothing, and URLs are lost by a rollback only.

**First migration** *(M: FirstMigration)* (`release/migrate.py`, and the rows of
`reconcile.py` that apply without a marker). State: Caddyfile, fragment, drop-in and
what systemd has loaded of it, the two backups, the admin endpoint on TCP or a
socket, the marker. Operations: migrate, complete, abandon, roll back, the offline way
back, retire. Hard: a dozen writes in an order that a restart of Caddy must
survive at every point; a refused load may move the endpoint all the same; the
ways back are killed too. Correct if the Caddyfile always loads, a host
that says it is migrated can go back until it is retired, a host that went back is
as it was, and none stays in between. `rehearsal.py` and `staged.py` run it in a copy of the
host, `admin_socket.py` is HTTP over the socket: not modelled.

**Release answers and checks** (`release/answers.py`, `check.py`, `warm.py`, `linking.py`,
`commands.py`). Probes and plumbing; no state that outlives a command.

**Forarbeider corpus transaction** *(M: CorpusTransaction)* (`forarbeider/corpus_transaction.py`,
`corpus_commands.py`, `corpus_plan.py`, `corpus_tree.py`, `corpus_leaves.py`,
`corpus_models.py`). State: the dataset's files, the staging directory, a journal, a
lock file, and the intents and receipts of withdrawals in the workspace. Operations:
`simulate` (release a planned document) and `sandbox-withdraw`. Hard: three files
change one after the other; the plan that allowed a change can lapse before its
recovery; a withdrawal must go through whatever was left lying about, and be recorded
once. Correct if the dataset is always whole or recoverable both ways, no lapsed plan
is completed, the audit trail is true, and a takedown happens.

**Forarbeider reader** *(M: CorpusReader)* (`corpus_reader.py`, `reader_cli.py`; `reader_views.py` computes
from memory). No state of its own. It looks for a lock and a journal and then reads the tree file by file, without a lock.
Hard: a change may begin, be applied and be rolled back meanwhile. Correct if what it serves
was, or was to be, the dataset at one moment.

**Forarbeider preparation** (`release_preflight.py`, `review_ledger.py`, `staging.py`, `edition.py`,
`release_store.py`, ...). State: a hash-chained ledger of review decisions, immutable editions, plans. Correct
if a plan holds only while its reviews do. A choice per run in CorpusTransaction.

**MCP server** *(M: LiveReader)* (`CorpusReader` of `mcp.py`; `mcp_local.py`, `tool_surface.py`,
`mcp_contract.py` are plumbing). State: the clone below it; caches of the manifest, the
slugs, the section ids, single bodies and a body index, under a stamp (the
manifest's modification time) and an epoch that moves with it. Operations: the tools'
reads, each a sequence of looks at the caches with and without the lock. Hard: a read
made outside the lock is stored after a pull; a pull is not one step. Correct if no
cache entry outlives the corpus it describes and no call shows another text than the corpus has.

**Manifest storage and state cache** *(M: StateCache)* (`state_cache.py` with its use in
`mcp.py`; `storage/manifest.py`, `snapshot.py` are reads). A byte-budgeted
least-recently-used cache of historical states, shared by threads. Hard: a state grows
after it was admitted, when its entry may be another's. Correct if what is kept in memory is declared
and within budget.

**Embeddings** *(M: HostedCalls, the query side; EmbeddingSidecars, the corpus side)*
(`embeddings/query.py`, `embeddings/store.py`, `sync/orchestrator.py`, `sync/reembed_guard.py`,
`sync/input_annotation.py`, `sync/lspe_cutover.py`). State of the query side: the queries
cached and the flights under way. Hard: the leader of a flight may be refused,
fail or be evicted before the others wake. Correct if one paid call answers all who ask at once, and nobody
waits for ever. State of the corpus side: a sidecar of vectors per page, and in its record the
hashes of the text and of the inputs it was made from and the embedding space it is in. Hard: many runs
have no key, or another one; texts, renderers, input pipelines and slugs move between them; two migrations
rewrite stamps or headers without embedding. Correct if search, which compares the space alone, still
ranks the text its page shows.

**Quota brakes** *(M: QuotaBrakes, HostedCalls)* (`quota.py`). State: per credential a token bucket, daily
and paid counters and calls in flight; the same for the service. Hard: cancellations,
midnight, eviction of idle credentials, lowered limits. Correct if the gauges count
the calls that hold a slot, the bills are the calls made, and an eviction forgives nothing.

**Hosted access** *(M: CredentialStore)* (`access.py`; `workos_auth.py` is an external service).
State: the credential file and its parsed copy, re-read when the file's time moves.
Hard: the file is emptied and filled within a tick of the clock. Correct if a revocation lands and a
broken file locks out instead of keeping the old copy.

**Usage metrics** (`usage_metrics.py`, `usage_report.py`). A counter per hour, emitted when
the hour turns; reports add up the lines.

**Temporal attestation** *(M: SyncCorpus, GateEpoch)* (`temporal*.py`). State: notes on commits, one epoch record per parser
version. Operations: a run records the epoch before its gate, an operator backfills it, a server answers by both.
Hard: notes refs are fetched over and pushed whole by writers that do not see each other, any of their steps may fail while
the run goes on, and a parser version is a gate of its own. Correct if no state that a gate has made is served as
`unattested`, and a record, once on origin, stands.

**Observatory** *(M: ObservationLog)* (`observatory/log.py`, `corrections.py`, `reattribution.py`, `log_commands.py`,
`freshness_index.py`, the sweep of `commands.py`; `exclusive_workload.py`). State: an append-only log of captures,
corrections in pairs of lines, a derived index of the log, the backup a repair leaves, the **workload lock** (a flock that
refuses or defers, also the benchmark's); blobs by hash, sweep runs. Operations: capture, sweep, reattribute, repair, verify.
Hard: every append can be cut anywhere and the next one glues to it; a correction changes what an older line means; the index
stands for a prefix of a file that repairs shorten and captures regrow. Correct if every crash
point leaves records that read as filed or as corrected, and the index never changes an answer.
**Atomic files** (`atomic_io.py`: temporary file and rename) are one step in the modules here.

**Promotion** *(M: Promotion)* (`promotion/`). State: the decision log (`promotions.jsonl`), the
local dataset in a checkout of the corpus (a page, an evidence file, an observations
file and a record of the manifest per document), and the observation log it reads.
Operations: approve and reject, local and batch, backfill, observe, withdraw, migrate, refresh. Hard:
each command is several writes and log lines; a new extractor reads the same bytes
another way; a text comes back after another; verdicts change. Correct if what
is committed is whole and was approved as it says, and a withdrawn regulation never comes back.

**Innsyn requests** *(M: InnsynRequests)* (`innsyn/`). State: the request ledger, the directory of
addresses, waves of letters, the mail that went out. Operations: write a wave, send it, record what was
sent by hand, bounced or answered. Hard: the mail server accepts a letter and the process dies before the
line; two commands check one ledger. Correct if no authority gets a letter twice, no answer is undone, and
everyone with an address is asked.

**Local corpus and fetch** (`local_corpus.py`, `corpus_fetch.py`), **history and time travel**
(`history.py`, `timetravel.py`, `observation_history.py`), **chronology and cross references**
(`legislative_chain.py`, `eli.py`, `slug_index.py`, ...), **source adapters and retries**
(`sources/`, `retry.py`, `stortinget_*.py`): reads of git or of external services, no state
of their own worth a module.

**Rendering, parsing, extraction**, **site**, **publication pages**, **legal-time replay**:
pure functions from text to text, tested by fixtures; what the models need of them
is a constant (`Rendering`, `Continues`).

**Crosswalk**, **LLHB benchmark**: batch programs with a cache, approvals or a resumable
result log; planned last. **Operations alerts**: formatting.

### How the parts meet

    Lovdata --listing--> corpus sync --push--> origin/lovverk --pull--> MCP server, site build
                            |  ^                    |
              slug ownership+  +--audit, gate       +--notes--> temporal gate
    site build --place--> releases/<id> --commit--> R, D, M --serves--> readers
    observatory --captures--> promotion --files--> lovverk/lokale-forskrifter
    innsyn letters --answers--> promotion
    review ledger --plans--> forarbeider corpus transaction --files--> forarbeider reader

These parts share files and never memory, and each reads the other's files as they
are, so each is a specification of its own, and its environment (upstream, Caddy,
pulls, operators, clients) is in it. Where one run checks two of them, or one under two bounds (`MCCutover`, `MCCorpusReader`,
`MCSyncNames`, `MCSidecars`, `MCOperators`, `MCHosted`, `MCRecords`), a variable `part` says whose behaviour it is,
and the other rests: a disjoint sum, which asks each its own questions.

## The modules

### ReleaseControl and LiveRelease

| variable | in the code |
|---|---|
| `running` (R) | the configuration read back from Caddy's admin endpoint |
| `disk` (D) | the configuration `caddy adapt` makes of the active fragment |
| `next`, `kept` | `<fragment>.next`, and `<fragment>.previous`, which is taken only while there is no marker |
| `marker` (M) | the file `ACTIVE`: active and previous |
| `store` | each id-named directory: absent, partial (a prune was killed in it), complete |
| `holder` | the process that has the flock of `transaction_lock` |
| `job` | where each command stands and the triple it read first |

A configuration is a release and whether its routes are the envelope's own or
edited: the pair of hashes the code compares differs exactly then. A command takes
the lock and reads R, D and M in its first step (`BeginCommit`, `BeginRollback`,
`BeginRecord`, `BeginComplete`, `BeginAbandon`, `BeginPrune`); each further step is one
write or one check of the code, in its order: judge continuity, copy aside, write
`.next`, validate, rename, reload, read back, write M; and on failure write the old
fragment, rename, reload. `Crash` closes the descriptor, and with it frees the
flock, and leaves the files. `Restart` makes R what D is. `ReloadRefused`,
`RereloadRefused` and `Invalid` are Caddy's refusals. `HandEdit` is an operator in
the active fragment. `Situation` is the code's crash table.

`LiveRelease` has four variables (served, marked, fallback, intact) and four actions:
an envelope appears, an unnamed one goes, another release is served, the marker
catches up. `AtomicSwitch` is ReleaseControl's claim to implement it, with R's release
for `served`, M for `marked` and `fallback`, and the complete envelopes for `intact`.

Restrictions. The host has been migrated (`FirstMigration` is that program).
The main Caddyfile does not change. Nobody edits the fragment between the read back
of R and the write of M, during a prune, or under any command before the first marker:
the code reads D before those steps and cannot see a later edit. URL continuity is a
relation on releases, a constant, and need not be transitive. `atomic_write_text` is
one step.

### FirstMigration

`host` is the files (`caddyfile`, `fragment`, `next`, `dropIn`, `socket`, `marker`, the backup of
the Caddyfile, and that of the drop-in: its `bytes` or the mark that it was `absent`; `site` is the
pre-envelope site) and the drop-in that systemd has `loaded`; `caddy` is what runs and where
its admin endpoint is; `command` is the command and its next write; `owned` the owner's own drop-in.
A command is a chain of steps, each one write (`Put`), one check that goes on or ends with
a refusal (`Require`), or one call of Caddy or systemd. A migration stages, records the drop-in's and
the Caddyfile's backups, installs fragment, Caddyfile and drop-in, validates, loads the new
configuration over TCP, verifies over the socket, writes the drop-in's pair and the marker
(`Migrate` ... `Mark`). `Complete`, `Abandon` and `Rollback` are the rows of
`reconcile` and `rollback_first_migration`, `Offline` the way back that dials nothing; all of them
restore through `Unmark` ... `ConsumeBytes`, the marker first and the backups last. `Retire`
deletes the old site and then the backups. `Kill` is between any two of these; `Refuses` is a load that
fails, with the endpoint moved or not; `CaddyRestart`, `CaddyRestartFails` and `PlainReload` come
from outside at any time, `EditDropIn` between commands.

Left out: symlinks, foreign files and identities (each a refusal before any write), the rehearsal, a
kill between the record of the drop-in and the Caddyfile's copy, which are one step, and
a kill inside `_consume_backups`' statements other than between its unlinks.
The migration and its ways back take no `transaction_lock`; one command at a time is an assumption.

### CorpusTransaction and AtomicDataset

| variable | in the code |
|---|---|
| `tree` | the files below `forarbeider/`: a page per document, the index, the manifest |
| `staged` | the bytes in the staging directory inside `.git`, old and new |
| `journal` | the journal: the decision, and what each file was and is to be |
| `lock` | the lock file: its process, free, or stale (its process died) |
| `intents`, `receipts` | withdrawals decided and withdrawals done, in the workspace |
| `job` | where each command stands, what it decided, what it found of the plan |

A file's bytes are a value, so its digest is that value too. `Layout` is the files a
manifest demands and `Sound` that the tree is exactly that. `BeginRelease` and
`Resume` are `simulate` without and with a journal; `BeginWithdraw` with `Answer`,
`Decide` and `NothingToWithdraw` is `sandbox-withdraw`, which first settles what it
finds. `StageLeaf`, `WriteJournal`, `Perform`, `Undo`, `Verified`, `Clear` and `Unstage` are
apply, finish and roll back. Whether a plan holds is a choice per run, since
reviews, revocations and expiry lie outside. `Crash` leaves the lock file stale; `Fail`
is an exception, which removes it; `RemoveLock` is the owner, who may do so only
when no command runs. Left out: permission and path checks, empty directories,
the commands that make a plan or create a sandbox.

`AtomicDataset` has one variable, each document's member, and two actions, Release
and Withdraw, which is final. CorpusTransaction implements it with `Committed`: what
the tree lists, or, under a journal, what it listed before. A change therefore
counts as made when its journal is removed, and as never made when it is rolled back.

### CorpusReader

One variable beside those of CorpusTransaction, `reader`: how far `open_shelf` is, the files its walk has listed, the
bytes it has read, and, which the code does not know, the datasets there were since it began. `LookForLock` and
`LookForJournal` are the two looks, in their order; `ListRoot`, `ListDocument` and `ReadFile` are the walk, which
lists a directory when it comes to it and opens each file after; `Serve` is the comparison with the manifest that was read. Every
command may take any of its steps in between (`Change`). Left out: the synthetic rendering that each
member must equal, which all manifests of the model pass, and the views.

### SlugOwnership and SlugResolution

`ResolveCollisions` is `resolve_collisions` with `_claim_slug` and its candidates: the bare
slug, then numbered ones for documents of one date, then year, date and id. A slug is
a sequence of what it is made of (a name, a number, a year), so that a title that
reads like a numbered slug is the same value. It is a fold over the documents in their
order. `SlugResolution` asks it for any listing of three documents against any
manifest, then publishes the answer and asks again. Both run as the `names` part of
`MCSyncNames`. Which characters make a slug,
the length cap and the dry-run report are left out.

### SyncCorpus

| variable | in the code |
|---|---|
| `upstream`, `engine` | what Lovdata lists; the installed release (renderer and parser version) |
| `origin` | the published corpus, and the parser versions its commit is attested under |
| `head`, `notes`, `sent`, `ahead` | the checkout's HEAD, its notes, those pushed, and whether HEAD is unpushed |
| `work` | the worktree: manifest and tree |
| `job` | the run: its step, its listing and slugs, the records and commits it is making |

`Begin` lists and claims slugs and withholds error notices; `Refuse` is the mass-removal
guard; `Write` makes every page change of a run and its plan of commits (`NextTree`,
`NextManifest`, `Commits`: the classification, the rename overlap, the carry of failed
and removed documents, each a definition named after the code's); then `CommitPaths`
for each document commit, `WriteManifest`, `CommitManifest`, `Attest` or `NotAttested`,
`AuditPasses` or `AuditFails`, `PushNotes`, `PushMain`. `Crash` is a kill or a failed git,
download or renderer. Page writes of one run are one step: nobody else reads the
worktree, and a kill among them leaves a dirty worktree, which the next run refuses
and `Reset` removes. `setup` is the installation, one of the constant `Setups`: with `kept` one
checkout lives on between runs (a development host), without it every run clones (the
workflow); with `single` a run makes one commit, without it a commit per document; and
`edits` and `engines` bound how often upstream and the engine change.

An upstream version stands for one XML file: its bytes, its hash, its title and what each
renderer makes of it. Left out: observation timestamps, the sidecars (the next module has them), the
history files and derived index views, `force_rerender`, migrations of manifests from
before slugs, a parser version that moves without an engine release, and the second
dataset (slugs, removals and ownership are per dataset).

### EmbeddingSidecars

| variable | in the code |
|---|---|
| `listing`, `tools` | what Lovdata lists; the engine, its input pipeline, and `lspe_writer_version` |
| `held` | manifest and tree of the corpus on origin |
| `bins` | the sidecars on origin, by slug: the inputs and space of their vectors, and a version 2 header's space; or one that does not parse |
| `stamps` | of each current record, `embedding_hash` (`of`), `embedding_space_id` (`space`), `embedding_input_hash` (`inputs`) |
| `vouched`, `last` | for the property: the documents whose input hash was stamped without embedding them; the space of the keyed run that just ended |

A nightly run is one step here, and only one that reaches origin: one that is killed or refused before its push
leaves origin alone, and what a run does step by step is SyncCorpus's, whose definitions it uses for the
classification, pages and records (`Written`, `NextTree`, `NextManifest`). `RunOn` chooses a key (a space) or
none, and `--allow-mass-reembed`; `Embed` applies both re-embed guards (the pages to write, and the sidecars to
repair, each sized alone, as in the code), repairs (`_run_sprint9_embeddings_migration`), embeds what is written,
deletes what is `Deserted`, and stamps; the audit's findings about sidecars refuse the push. Without a key every record
written loses its stamps and its old sidecar stays. `RepairEmbeddings`, `Annotate` and `Cutover` are the
operator's commands. `Indexed` is what search loads: a record in the embedder's space with a sidecar that
parses; it compares no hash.

What a page is embedded as (`Inputs`) is its text, its rendering, and the sections the pipeline finds in it; a
pipeline is a constant. Left out: adapters without an identity, `force_rerender`, the Sprint 8 migration, the vectors, and
the rollback of the writer to version 1. `Annotate` does not look at the vectors: its proof that
they are of the inputs is the operator's, given for one corpus and one engine. After an engine release that cuts
sections differently it would certify vectors of the old cut, and `KeyedRunRepairs` excepts what it
`vouched` for; `SearchIsOfThePage` does not. Whether a reader sees sidecar and manifest of one pull is
LiveReader's matter (`mcp_index`).

### GateEpoch

| variable | in the code |
|---|---|
| `remote` | origin: its branch, the proofs (attestations by version), and the history of the epoch ref |
| `night` | the sync job's clone: step, parser version, start, branch, proofs, epoch ref |
| `operator` | the operator's clone, which he keeps: its epoch ref, and whether a push is due |
| `parser`, `clock`, `made` | `TEMPORAL_PARSER_VERSION`; time in half seconds; how many states were made |
| `began` | for the property and the manual's backfill: the first run that reached a version's gate, and its HEAD |

A notes ref is a sequence of contents: `Fetched` replaces it by the remote's, unless that has none; `Pushable` is a plain
push. `RecordEpoch` and `PublishEpoch` are the step of sync.yml before the sync, which goes on whatever becomes of it;
`RunGate` attests HEAD, new or not, or fails the job; proofs are pushed before the branch; `StopRun` ends the job anywhere.
`Backfill` enters what the manual says to enter; a push that was rejected leaves its record in that clone. `Served` is
the order of answers of `served_reconciliation`. Left out: corrupt notes, the refspec test, and a server that is behind
with its epoch ref, which answers by an error (`broken`).

### LiveReader

`clone` is the corpus clone (pages, manifest, and the manifest's `stamp`, its modification time, 0 while
the file is away), `pull` what a pull under way still has to move, `cache` the
reader's caches with the stamp and the epoch they are of, `thread` where each worker's call stands and
what it holds. A pull unlinks and writes files one by one, in any order (`PullUnlink`, `PullWrite`,
`PullManifest`). What the code does under the reader's lock is one step; `Stat`, `Refresh`, `Check`,
`Take` and `Load` are one lookup of a cache, with the gaps the code leaves between them: the modification
time is read before the lock, the cache is looked at twice. `get_law` is `ReadLaw`;
`get_section` and `list_sections` are `Resolve`, `LookBody`, `ReadPage`, `RememberBody`, `RememberIds`;
the check of a cross-reference is a call within the call; `search_body` goes through slugs, body
index, manifest and slugs again. A text is the number of the pull that brought it. Left out: semantic
search, the sidecars, what a tool makes of a text.

### StateCache

`entries` is the cache in its order of use, each with its cost; `bodies` the objects that hold
their commit's bodies; `call` each caller's step. `StateData` admits or touches, `LoadBodies` reads
outside every lock, `Resize` declares the bytes to the entry of that commit, whoever's
object is in it by now, and `Keep` leaves the bodies on the caller's own object.

### QuotaBrakes and HostedCalls

`QuotaBrakes` has the enforcer's methods as functions of its counters (`WithState`, `Room`, `Admitted`,
`Released`, `MayPay`, `Paid`, `Forgotten`, and the turn of a day in `Roll`). In `HostedCalls` a
worker goes through `Admit`, `Claim` (of the query's flight: lead, join or take the cached answer),
`Spend`, `Ask`, `Publish`, `Pop`, `Wake` and `Return`; `Cancel` gives the slot
back on the event loop while the thread runs on; `JoinTimeout` ends a wait. `Edit` is an operator who
changes or revokes limits, `Midnight` the turn of the UTC day. `answers` is the cache of vectors in
order of use, `inflight` the flights, `bills` a count of provider calls that the code does not keep.
The token bucket is a refusal that changes nothing else.

### CredentialStore

`file` is its modification time and its text (torn between the emptying and the filling of
a rewrite: `Open`, `Write`, which may share a tick); `server` the parsed copy, its stamp and the reload
under way (`StatFile`, `Parse`). `Boot` parses first and stats afterwards, as the constructor does.

### InnsynRequests

`route` is the directory, `linked` and `texts` what the observatory and the corpus know, `waves` the last
two manifests written, `mail` the letters that went out, `ledger` what the lines of `requests.jsonl`
fold to, `run` the send in progress, `command` a record command between its check and
its line, `owes` whether the owner has still to compare the mailbox with the ledger. `WriteWave` plans
a wave; `Begin`, `Rejudge`, `Deliver`, `CheckSent`, `AppendSent` are a send, letter by letter; `Refused` a
delivery that is refused, `Die` a kill or a lost answer; `CheckCommand` and
`AppendCommand` the two halves of `record_events`, which reads the ledger, and locks it only to append. A letter is
its manifest entry, as the code makes the one of the other. By `operations.md` the owner compares Sent with the
ledger after a send that stopped, before the next one (`Looked`). Left out: receipts,
case numbers, follow-ups, due dates, received documents.

### Promotion

| variable | in the code |
|---|---|
| `seen` | the observations at the document's URL, in their order |
| `log` | `promotions.jsonl`: decisions, carries, withdrawals |
| `tree`, `head`, `pages` | the document's four files in the checkout; those of its last commit; every page ever committed |
| `order` | the order of the files by path, in which a version is written |
| `job` | the files and lines that the running command has still to write |
| `owed` | the command that was killed, until it ended, was restored, or found nothing to do |
| `passed` | history, not in the code: what a killed command, run again, took for done: the version whose page stays, the extractor whose carries are not logged |

A command plans in one step, of what it read (`Local`, `Backfill`, `Observe`, `Withdraw`,
`Migrate`, `Refresh`), then writes one file or line per step (`Proceed`), and may be killed before each
(`Kill`; before the one file that `observe` and `refresh` write, that is to have done nothing). `WithdrawAgain` and `MigrateAgain` are
a killed `withdraw` or `migrate` run again that finds nothing to do and exits 0: the one looks at the manifest's
status only (`commands.py:386`), the other at the files and not at the log (`is_current`, `migrate_commands.py:125`).
`Commit` and `Restore` are the operator's git. `Decide` is `approve`, `Capture` an
observation, `Upgrade` a new `EXTRACTOR_VERSION`; `Look` says what each extractor makes of each text's
front matter. `History` is `derive_versions`: a text that comes back is a version of its own.
After a kill the operator runs that command again or restores the checkout before he runs
another; a repetition that exits 0 settles the kill, whatever it found, and one that is refused, or held, does not.
Where nothing is owed he may commit what is in the checkout at any time: a command printed the commit, of this document or of another
(`staged_paths` names the whole local dataset).

Left out: the records of outcomes, which nothing reads but their own repetition (the log of decisions
takes a hold as a reject); received documents; the batch's selection, which ends in `promote_one`; the
derived history file; what extraction, identity and personal data hold back; a torn last line of the
log, which every reader refuses.

### ObservationLog

| variable | in the code |
|---|---|
| `log` | `observations.jsonl`: the texts that were appended, and whether each got its newline |
| `index` | `freshness-index.json`: how far it reaches, the bytes it was built from (their digest), the fold of them |
| `backup` | whether `observations.jsonl.bak` is there |
| `workload` | the flock of `exclusive_workload` |
| `sweep`, `command` | where the sweep and the operator's command stand, with what they read |
| `runs`, `cuts` | runs of reattribute, writes cut off: the bounds |

`Capture` is a fetch of `capture`, `discover` or a sweep, which append at any time. A sweep takes the lock,
proves or drops its index (`Prove`), folds the rest of the log and refuses a damaged one (`FoldTail`), writes the
next index, of the prefix as the file has it by then (`WriteIndex`), and captures. `reattribute` takes the lock,
plans of what it reads (`Plan`), compares (`Confirm`) and appends half by half (`AppendHalf`).
`repair` reads, copies and rewrites, with no lock. `Cut`, `HalfIsCut` and `RewriteIsCut` are writes that are killed or run out of disk:
what came to disk parses or does not, and has no newline. A line is what lies between two newlines (`Clean`), so that
what is appended after a cut text is one line with it.

Restrictions. One operator at one terminal, so `repair` and `reattribute` do not overlap; `RepairsApart` says that
he does not rewrite the log between a sweep's proof of its index and the next index (below, what happens if he does).
Artifacts and failures are not told apart, nor what a fold keeps of a record: its view has each
record at its place, as filed or as corrected. Blobs are left out with their tombstones, which nothing in `src/` writes, and so is the
correction of a correction, which the command does not make. The register, which must support the move, is the choice of the decision.

## The runs

Twelve runs; each answers one question of the system, or one of each of the parts that rest in turn.

| run | module | states | what it shows |
|---|---|---|---|
| `release_crash` | `MCCutover` | 37 000 | two commands, three releases, kills between any two steps, refused reloads and restarts: nothing named is torn, leftovers are rows of the crash table with their way back, only a rollback loses URLs, it implements LiveRelease, and it recovers. And a first migration, killed, refused and restarted up to three times: the Caddyfile loads, a migrated host can go back, a host that went back is as it was, none stays in between |
| `operator_commands` | `MCOperators` | 2 648 000 | one command, two releases, and hand edits too: `--complete` still judges what it records. And a log of three records, two of them misfiled: captures, sweeps, two runs of corrections and repairs, any two writes cut: corrections stand, and the index is the fold. Two threads, a pull at any step: no cache and no undisturbed answer holds an old text. And two callers of three historical states: memory is accounted for |
| `release_previous` | `MCReleaseControl` | (violation) | a marker can name one release as active and previous |
| `corpus_transaction` | `MCCorpusReader` | 566 000 | two commands, two documents (one in two renderings), two faults: whole or recoverable, no lapsed plan completed, true audit trail, AtomicDataset, takedowns happen. And a reader beside one command: it serves the dataset of one moment |
| `corpus_receipt` | `MCCorpusTransaction` | (violation) | a receipt can be lost for good |
| `sync_nightly` | `MCSidecars` | 963 000 | clones or one kept checkout, three starting corpora, two upstream changes, an engine release, kills: what is pushed is coherent, true, attested, hands nothing over, and is never a mass removal. And by themselves the sidecars, four starting corpora, keyed and keyless runs in two spaces, two pipelines, the operator's commands: search ranks the text of the page, and a keyed run leaves nothing out. And by themselves the epochs of two parser versions: no gated state is served as unattested, and a record stands |
| `gate_start` | `MCGateEpoch` | (violation) | the true start of a gate can be refused for good |
| `sync_converges` | `MCSyncNames` | 49 000 | once faults end and every text renders, origin comes to show upstream (bulk commits and an engine that derives other slugs, or a kept checkout that is killed and reset). And the naming of three documents, any listing, any manifest: no two share a file, none inherits one, none moves for another's sake, and it settles |
| `sync_residue` | `MCSyncCorpus` | (violation) | what a killed run leaves in a kept checkout does not always heal |
| `mcp_index` | `LiveReader` | (violation) | a body index of the old corpus's acts is kept under the new manifest |
| `hosted_calls` | `MCHosted` | 1 233 000 | three workers, two credentials, one query, two days: slots and bills are right, one paid call at a time, no waiter is forgotten. And a credential file rewritten under the server: revocations land |
| `local_records` | `MCRecords` | 801 000 | letters written, sent, killed, refused and recorded by hand: none twice, no answer undone, everyone is asked. And promotions and withdrawals, killed at any write and run again or restored, under new extractors and verdicts: each commit is whole and approved, but for what a repeated `migrate` or `withdraw` takes for done; a withdrawal is logged before it shows |

### The properties

*ReleaseControl.* `NamedIntact`: prune never tears what R, D, M's active or M's previous
names, wherever it or anyone else is killed. `CrashTable`: every
leftover of a host without hand edits is a row the code's table resolves, or D = M under
a Caddy that a restart had moved on; and when D is not what M names, the fragment an abandon would restore can be
read (`WayBack`). `UrlContinuity`: the marker moves only to a release
that answers every URL of the one before, or back to the one it replaced.
`CompleteIsJudged`: so does `reconcile --complete`, even of a hand-edited D.
`AtomicSwitch`: the refinement. `Recovers`: once faults stop, the host is reconciled again
and again.

*FirstMigration.* `HostCanGoOn`: at no point does the Caddyfile import a fragment that is not there, so
Caddy may restart at any time (`CaddyfileLoads`), and a marker implies that systemd reloads through the
socket and, until the retirement, that both backups are there (`MarkedCanGoBack`). `BackIsWhole`: when the Caddyfile's
backup is consumed, every file is what it was, a drop-in that was absent or that the owner edited
included. `ComesToRest`: a migration that stopped is completed or undone.

*CorpusTransaction.* `SettledIsSound`, `Recoverable`, `LapsedIsNotCompleted`, `Audited` (a
withdrawal that stands has an intent, a receipt is of a withdrawal that stands),
`OneChangeAtATime` (the refinement), `TakedownHappens`.

*CorpusReader.* `ServedAtOnce`: what is served is exactly a dataset that was committed, or that a change under
way led to, at some moment of the reading: never pages of one release with the manifest of
another, and no document whose withdrawal was done before the reading began. That a change under way may be
served, and then rolled back, is so: TLC shows it when only committed datasets are allowed.

*SlugResolution.* `FilesAreOwned`: the answer is injective, gives nobody a file that another document of the
prior manifest has, current or removed, and leaves a document that still prefers its file in it.
`Settles`.

*SyncCorpus.* `AuditFindsNothingNew`: before the attestation and the audit, every contradiction of manifest and pages
was on origin already, and a record with an old stamp is one whose text the
new renderer fails on. `PublishedPagesAreTrue`: each published page is its record's document,
text and rendering, which neither audit nor change detector compares.
`PushedIsAttested`; `PushesDoNoHarm`: no slug passes from one document to another, from a tombstone
neither (it fails too when tombstones are dropped), and no push is a mass removal; `Converges`.

*GateEpoch.* `UnattestedIsPreGate`: whatever proofs a clone has fetched, a server never answers "unattested" for a
state that a run with this version's gate has made (it fails when the epoch keeps the fraction of its second).
`RecordsStand`: no record on origin changes or goes, and no version has two (it fails when a push is forced, or a
note is written without the records that share its state).

*EmbeddingSidecars.* `SidecarsAreTrue`. `SearchIsOfThePage`: what search loads is of the text and the rendering that
the page shows, in the space of the query, and no header makes it refuse. It holds although search compares no
hash, because whoever rewrites a page without embedding it takes its space away (it fails when `_write_one` keeps the
old stamps). `KeyedRunRepairs`: after a keyed run every current document is found, by the inputs of the
installed pipeline, which needs the third stamp: neither text nor space moves when the pipeline does.

*LiveReader and StateCache.* `CachesAreCurrent`: once a pull is over and the caches bear the manifest's
stamp, everything in them is of that corpus, whatever late reader stored it. `NoOldText`: a call no pull
overlaps shows the text the corpus has. `MemoryIsAccounted`: declared bytes are within budget, and no
object reachable from the cache holds bodies that its entry is not charged for, although charging and
keeping are two steps and the entry may have changed hands in between.

*HostedCalls and CredentialStore.* `CountersAreTrue`: the gauges are the number of calls that hold a slot
(`SlotsAreCounted`), and the paid counters of the day are the provider calls of the day, per credential and in all
(`BilledIsSpent`). `OnePaidCall`: who pays for a query leads its flight, and its answer is not cached. `WaitersAreLed`: every
waiter's leader is still on its way to wake it. `RevocationApplies`: a store that takes the file for read
admits nobody the file revokes.

*InnsynRequests.* `NoLetterTwice`, `AnswersStay` (an outcome that closes a question is never reopened by a
later line), `EveryoneIsAsked`.

*Promotion.* `CommittedIsTold`: a commit has one version of the document in all of its files, or its
withdrawal; the versions it lists are those that were published, in the order they were seen; and each
names an approval of its text, given once the text was seen, at the extractor it is under or carried to it by
a line of the log. Two things may be missing, and no others, where a killed command was run again and found nothing to do (`passed`): the lines of the
carries to the extractor that a `migrate` was run again under, and the deletion of the page and its evidence of a version whose `withdraw` was run again. TLC shows that
both are missed: with either exception taken out of `IsApproved` or `IsGone`, it finds the commit (see [below](#where-code-and-text-disagree)). `WithdrawnStaysOut`: no page is deleted before the log has the withdrawal, and once it has, no command
but a backfill writes the page again (see [below](#where-code-and-text-disagree)).

*ObservationLog.* `CorrectionsStand`: while the log reads to its end, each record has one correction at most; its re-filed half
came before its tombstone, and they agree. So no crash point of several decisions, resumed and mixed with captures and
repairs, shows a record twice or not at all. `IndexIsTheFold`: of a log that reads to its end, a sweep gets from
its index and the rest of the log what a fold of the whole would give.

### The bounds and why they are enough

*Release.* Three releases are the live one, the previous one and a candidate; a fourth only
adds candidates that no step tells apart. Two operators give every overlap: the lock makes a
third wait like the second. With hand edits the fragment takes six values, so there the run has one operator and two
releases. No counter is bounded: the runs exhaust all numbers of commits, crashes and restarts.
The first migration is one host; `MaxFaults = 3` kills, refused loads and failed restarts allow a fault in a
migration, one in its way back and one in the repetition of that; restarts that succeed are not bounded.

*Corpus transaction.* A change touches one document, the index and the manifest, so
two documents show what a change leaves alone, and two renderings of one a replacement.
`MaxFaults = 2` allows a kill and a kill of its recovery. One moment of withdrawal, as
nothing compares moments. The proofs hold for all of these. The reader has beside it the commands of one process, as two
never overlap, and one fault at most; a change, a fault and a change that follows are the longest sequence.
These bounds can stop a command for good, so `TakedownHappens` says nothing of that part and is asked of the commands alone.

*Slugs.* Three documents, two of one date; three titles, one of which reads as the numbered form
of another; the owned slugs include year and id suffixes.

*Sync.* Two documents are the least that take over, swap or share a file; five texts: two of one
title, two of another (of the four, one changes under the second renderer, one fails
under it, one fails under the first) and a notice. The corpora to start from are empty,
healthy, and the fused one of the omregningsfaktorer case, in which a document was
published over a tombstone; the branches for overlapping and taken-over paths are
reachable from that one only. `GuardMin = 2` and `MaxRemoval = 50` put the guard's boundary
between one removal of two and two of two; elsewhere the code's own 20 documents and 10 per
cent keep the guard out. A setup's `edits` bounds upstream changes, of which any may fall
between any two steps of a run; the number of runs and of kills is not bounded.

*Epochs.* Two parser versions, a clock of five half seconds, three states, from a corpus that has met no gate and from one whose
gate is older than the epoch ref: enough for a record that is made up for after another version's, two records on one state,
a state of the very second of an epoch, and two writers. Runs and backfills are not bounded.

*Sidecars.* The same documents, texts and renderers; two spaces, two pipelines that differ on one title's texts;
`MaxEdits = 2` upstream changes (a text that goes and comes back, or a slug that moves twice). The guards, at more than half
of two documents and more than three sections, refuse some runs and let others
pass. The corpora to start from are empty, healthy without sidecars, with sidecars from before spaces were recorded, and with
one of an older text and one that does not parse. The number of runs and of commands is not bounded.

*Reader.* Two threads (a third would meet what a second leaves), one document that is listed and
one that a pull brings, one pull: an entry is stale by the first pull it survives. Calls are not bounded. Three
commits of unequal size against a budget that holds one whole state or two admitted ones, and more object
identities than can be referred to at once.

*Hosted.* Three workers are a leader, a waiter and one that comes late; two credentials, so that one's
call can pay for the other's answer; one query; two days, so that a call may begin on one and pay
on the other; a ceiling between one and two calls' worth of each credential; a memory threshold of one, so that
idle credentials are forgotten whenever another comes. Three credential commands: an issue, a revocation, and one more.

*Letters.* Two authorities, waves of two, three turns (a kill, a refusal, a bounce, an outcome, a new address,
an edit, a link or a text each count), from a directory with any route of the first, or from two mailboxes
with two turns spent. *Promotion.* Two texts and two extractors, of which the second reads one of the texts
another way; four events, from an empty archive, or from a, b, a with two approvals and one event spent: so that
three versions, a carry, and a withdrawal with a kill in it are reached. The page's file comes before or after
"observations", by its slug.

*Observation log.* Three records of which two are misfiled, so that one correction can be whole and another half-written, and
a record follows both; two decisions; two runs, as a run and its resumption or another decision's are two; two cut writes,
so that a repair of the first can be cut in turn. Sweeps, repairs and kills are not bounded.

Deadlock checking is on, except in `sync_converges`, where a naming ends when the answer no longer changes, and in
`local_records`, where letters and promotions end with the turns.

### Fairness, and why the code justifies it

*Release.* A command that started runs on unless it is killed (`WF Advance(p)`), and an operator
whose host is unreconciled runs `reconcile`, and, told to choose, abandons (`WF` of
record or abandon). Commits, rollbacks, prunes, `--complete` and all faults are
unfair. `Recovers` assumes that faults stop for good (`<>[][Work]_vars`).

*First migration.* A command that started runs on (`WF CutoverStep`); the operator takes the way back that the
code's messages name, whenever it is open again and again (`SF`, as restarts of Caddy open and close it):
`Abandon` or `Rollback`, and `Offline` only in the situations in which the code says to take that one. Migrating,
completing, retiring and all faults are unfair.

*Corpus transaction.* A command runs on; a stale lock is removed by the owner, as the error
message asks; an owner who wants a document down asks again, and is not shut out of the lock
for ever by other commands (`SF`, for the lock is free again and again and not
continuously). Releases are not fair; faults are bounded.

*Sync.* The schedule starts a run every night and the runner carries it on (`WF Run`). `Converges`
assumes that upstream, engine and kills stop changing things and that every listed text renders.
The naming needs none: `Settles` says that the answer stops changing.

*Letters.* The owner's procedure of `operations.md`: he writes the next wave, sends the latest until nothing of it is
ready, sends the forms by hand, compares Sent with the ledger after a send that stopped, and records what went
(`SF` where a route that changes can disable the step). `EveryoneIsAsked` is about authorities that keep a usable route.

The properties of the reader, the hosted calls, the credential store and of promotion are safety only.

## The proofs

TLAPS checks some 16000 obligations in eight modules, for every set of releases, documents, versions,
renderings, titles, histories, processes, workers, threads, credentials, queries, limits, every continuity relation, every
combination of faults, every size of the cache, any number of faults, pulls and runs. The only
assumptions are the named ones of the modules: that the special values (no release, no
file, no journal, ...) are not ordinary ones, that `Continues` is a relation on
releases, `Faults` are of the four kinds, `Rendering` pairs documents with texts, limits are
records of numbers, the bounds are natural numbers, listings, document sets, the misfiled records, workers, commits and callers are finite, an
object that nobody refers to is always to be had (`StateCacheAssumption`), slugs are
sequences (`SyncAssumption`, `SiblingAssumption`), a published corpus to start from is one whose records are true of its pages
(`PublishedAssumption`), the sidecars beside one are of the spaces its records name (`BeginningsAssumption`), a history to start from is one that runs can have made (`HistoriesAssumption`), and a decision of a promotion log
to start from is of a text seen by then and no earlier than the decisions before it (`HistoryAssumption`). Where a theorem needs more,
it says so between ASSUME and PROVE.

**ReleaseControlProofs.** `TypeCorrect`, `NothingNamedIsPruned` (`NamedIntact`), `CompletionsAreJudged` (`CompleteIsJudged`),
`ImplementsLiveRelease` (`AtomicSwitch`) and, where nobody edits by hand, `CrashesAreOnTheTable` (`CrashTable`) and `UrlsContinue`
(`UrlContinuity`). `NamedIntact` is not inductive by itself: from an
arbitrary state that satisfies it, a command may be about to rename a `.next` that names
a torn release, or a prune about to delete what R names. `IndInv` adds what a command may
rely on where it stands (`Standing(p)`):

- `Exclusive`: past its first step it holds the flock, and M is what it read;
- `TargetIntact`: the release it makes live, and the one it would put back, are complete, and
  `.next` is the target's own fragment while it is checked and renamed;
- `ServesTarget`: R is compared with the target's pair, and from then until M is written R = D;
- `BootstrapNamesNothing`, `KeptNamesNothing`: before the first marker nothing is live, so the copy
  kept aside names no release;
- `DoomedUnnamed`: what a prune deletes is named by none of R, D and M.

One lemma per action shows `IndInv` preserved; most rest on a lemma about a whole shape of
action (`GotoKeeps`, `BeginKeeps`, `ExitKeeps`), as most steps move one process and leave the
files alone. The refinement follows step by step: a reload or restart is a Switch, the
write of M a Record (since R = D = target there), tearing a Discard (`DoomedUnnamed`),
placing a Finalize, anything else a stutter.

`AllJudged` carries the verdict of the judge from where a completion reads it to where it writes the marker: the
lock keeps M, and the fragment it judged is the one that it then loads. `Ordered` is for hosts whose faults leave out the
hand edit: `World` is the crash table between commands, in which D is M's or one of the two mixtures a killed
transaction leaves, and `Rests(p)` what of it each command has moved by the step it is at. The hypothesis is needed: an operator's
edit of D is why the code judges again, and TLC shows both properties to fail under it.

**CorpusTransactionProofs.** `TypeCorrect`, `SettledIsWhole` (`SettledIsSound`),
`JournalIsRecoverable` (`Recoverable`), `LapsedIsRolledBack` (`LapsedIsNotCompleted`), `TrailIsTrue` (`Audited`),
`ImplementsAtomicDataset` (`OneChangeAtATime`) and, of the reader, `ReadersSeeOneDataset` (`ServedAtOnce`). `IndInv` is, with the types:

- `Held`: a command at work made the lock file, so at most one is;
- `Settled`: without a journal the tree is the layout of some manifest;
- `Journaled`: the journal's decision is valid, its old and new files are those of its base
  and target, every touched file is old or new, every other is the base's, and all bytes are staged;
- `Underway`: what each step of a command has to go on. While it stages nothing is journaled
  and the tree is the one its decision was made against; a replay has a journal whose
  decision the run may complete (a release only if it found the plan to hold); an undo has
  a journal; at the clearing of a journal the verified tree is one of the two ends; and a
  command that unstages or decides has none.

The argument rests on lemmas about layouts: `LayoutRead` (the manifest found in a layout is the
one it was made of) and `LayoutElsewhere` (a change of one document's member changes
no file but that document's, the index and the manifest), hence `ValidElsewhere`: outside
the touched files base and target agree, so a tree of touched files, all old or all
new, is a whole dataset. `Commits` then shows that removing the journal is one
step of AtomicDataset if the tree is the target and a stutter if it is the base, and
`Quiet` that every other step leaves `Committed` alone. `TrailIsTrue` has an invariant of its own beside `IndInv`: `Audit` says of the workspace that every
withdrawal that stands, or that a journal may complete, has its intent, and every receipt its withdrawal, and of each command what it has promised
to write by the step it is at (`Promised`).

The commands of ReaderSpec are those of Spec, so `IndInv` carries over to the reader. Two facts join it: a reading's list of datasets
has every one that may be shown now (`Watching`), and the manifest it has read is on that list (`ManifestShown`). `OnDisk`
supplies the latter: a manifest on disk is the committed one or that of the change under way, since the manifest is among the touched files. The rest is
what `Serve` compares, so the argument needs no order among the looks.

**ReleaseControlProofs, on FirstMigration.** `HostCanAlwaysGoOn` (`HostCanGoOn`) and `WayBackIsWhole` (`BackIsWhole`). `Safe` strengthens the first it by what lets a migration be taken up wherever it stopped: until the old
layout is retired, the new Caddyfile is in place only with both backups taken. `GoesOn` says what each
stretch of a command has to go on: no marker while files are installed, cut over or restored, the fragment and the
backups before the Caddyfile, the old Caddyfile before the fragment goes and the backups are consumed,
the old site gone before they are forgotten. Caddy's steps need one lemma (`CheckKeeps`): they change
no file but the socket's. What Caddy runs plays no part, so it holds whatever Caddy does.
`BackInv` is for the second: until both backups are taken, or once they are consumed, the files are the old ones (`Remembered`), and a way back
undoes in an order in which what it has not reached is still what the backups say (`Undone`).

**HostedProofs.** `OneCallPerQuery` (`OnePaidCall`), `NoWaiterIsLeft` (`WaitersAreLed`), `CountersStayTrue` (`CountersAreTrue`) and
`RevocationsApply` (`RevocationApplies`).
Each of the first two needs the other's ground: that a flight in the map is led by exactly the worker that is
between its claim and its pop, and by nobody else (`Flights`), which neither property
says of a leader that is about to pop. `IndInv` is both with `Flights` and the types of calls and cache. `MoveToEnd` and
`Trimmed` say what the cache holds after a hit and after a publication: nothing new but the
query published, so that no other paid call finds its query cached. The counters play no part:
the argument holds whatever the quota admits.

`CountersAreTrue` says that what a few functions add and take one by one agrees with what is counted over all calls. `CountInv`
adds what each step needs of the counters it meets: a counter of a day to come does not exist (`OfToday`), so that a day's first
call starts from none; and a call knows its credential and its day as long as it holds a slot or is billed (`JobsFit`), so that it gives
back what it took. `AdmittedIs`, `ReleasedIs` and `PaidIs` say what one call of the quota does to both counters whichever day they are of,
`SlotMoves` and `CallMoves` what that does to the sums. A sum over the credentials is a recursive function, and what it
adds up to when one credential's part grows (`TotalGrows`) is shown of the smallest set of which it would be false.

As for the last, the store may hold the stamp of the very file it
looks at and yet have read it before its last write, when two writes share a tick. `Caught` says why that
admits nobody: such a file was read between its emptying and its filling, and admits nobody read like that.

**LiveReaderProofs.** `CachesStayCurrent` (`CachesAreCurrent`), `AnswersAreNotOld` (`NoOldText`) and, of StateCache,
`MemoryStaysAccounted` (`MemoryIsAccounted`). The first two are not inductive:
a thread that read the stamp of an older manifest may put it back on the caches while others fill them, so "the caches are current" must
hold at more moments than those at which their stamp is the clone's. `Firm` names them: the clone is at rest and the caches bear its
stamp, or a call that no pull overlaps has refreshed the caches since it began (`Past`). `Cached` says that whenever it is firm
the caches are what the clone says and no call will remember anything else under the caches' epoch (`Brings`). Caches become firm
by a refresh alone, which empties them under a new epoch, so that what earlier calls hold is not remembered; while a pull
is under way nothing is firm, and the stamp it ends with is later than any a thread has seen (`Latest`). `Holds` says
what an undisturbed call has gathered. One lemma per step; `StepKeeps` and `LookKeeps` are the shape of all that calls do, `PullKeeps` of what
a pull does.

`MemoryIsAccounted` speaks of what is kept, and a call about to keep bodies decided so earlier, on an entry that may since have been
evicted, or replaced by another object of its commit. `StateInv` says of such a call that either the entry still
is its object's and is charged for them, or that object is in no entry (`KeptIsCharged`); that an object is of one commit,
whoever refers to it (`OneObject`); and a new object is referred to by nobody (`SpareObject`). That the entries fit the budget
rests on three lemmas about the list of entries: what is left without one of them (`Removed`), and what it costs with one moved to its end
(`MovedToEnd`), and charged anew, once the oldest have been evicted until it fits (`ChargedFits`).

**GateEpochProofs.** `NoGatedStateIsExcused` (`UnattestedIsPreGate`) and `RecordsAreKept` (`RecordsStand`), of `EpochSpec`. The first is a
statement about times of which no record speaks: `Chronicles` says that the record of a version, in whichever clone it was fetched to, is of
a moment no later than the first run that reached that version's gate, `Gated` that a state a gate has made is attested or still on its
way in the clone that made it, and `Underway` what the night has recorded by the step it is at. `Standing` is for the second: each clone's history of the
epoch ref is a beginning of what it may push, so a plain push adds and never replaces.

**SyncCorpusProofs.** Of the naming: `FilesStayOwned` (`FilesAreOwned`). `resolve_collisions` serves documents one after the other, and each is served by what
those before it got, so nothing can be said of it without induction over the listing. The library's induction theorems cannot be instantiated by the
installed provers, but one fact about finite sets can be cited instead: a family of subsets of a finite set has a least
one (`MinimalSubset`, from the well-foundedness of strict inclusion). `ServingExists` takes the least set of documents that cannot be
served and serves its last one; `FirstFreeIsFree` finds a free number within the bound by the pigeonhole principle, since each slug that is taken, claimed or
had rules out one number at most. `ResolvedIsOwned` is what the rest cites.

Of the nightly run, `PushesAreAttested` (`PushedIsAttested`) of every installation, and of those that clone for each run
(`\A s \in Setups : ~s.kept`, as the workflow does): `PagesAreTrue` (`PublishedPagesAreTrue`), `NothingNewIsFound` (`AuditFindsNothingNew`),
`NothingIsHandedOver` (the first half of `PushesDoNoHarm`) and, from a history in which no two records share a slug, `NoPushHarms` (`PushesDoNoHarm`).

- A corpus is `Tidy` if its records are true of its pages and no tombstone has a page of its own. `RunImproves` is the heart, and has no state in it: whatever
a tidy corpus is, and whatever is listed, fails or moves, the manifest and tree that a run decides on are tidy, contradict nothing that the old ones did not, and hand no
file over. It rests on `Records` (the new record of a document by what became of it), `KeptPages` and `OldFiles` (a page that stays is
that of a document that stays).
- `CommitsAreWhole`: the commits of a run hold every path that its documents touch, in every mode, so that HEAD is the worktree once the manifest is
committed. `AgreeBeside` is the invariant: between two commits HEAD and worktree differ on the paths that are still to be committed.
- `CloneInv` joins them: what each step of a run has, against the corpus on origin that it started from.

Both hypotheses are needed. In a kept checkout a killed run may leave a page ahead of its record, and an edit upstream that takes the text
back hides it from the change detector. In a history where a tombstone shares its slug with a current document, the removed document may
come back and take the file of one that fails to render that night, whose record then goes: no removal, so the guard does not count it.

Of the sidecars, `SearchStaysTrue` (`SidecarsAreTrue`), with no hypothesis beyond the assumptions. Search compares no hash, so what it loads is right only
because stamp and sidecar go together through every run; `SidecarInv` says how, for what is on origin:

- `Fits`: a sidecar that parses, of a record with a space stamped, is of that space, of the text and look of its page, and has a header
  of no other space. A record without a space may have any sidecar beside it: that is what a run without a key leaves of a page it rewrote;
- `Earned`: an input hash in a record is that of the sidecar, and stands beside a space, unless an operator vouched for it. So a keyed run that
  takes a sidecar for current by its input hash leaves a document search will find;
- `KeyedRunRepairs` itself, of the run that ended just now.

What a run does to the corpus is `NextIsTidy` and `KeptPages` again; `KeptApart` (a document that keeps its file shares it with none that is written, moves
or leaves) says that neither embedding nor the deletion of what is `Deserted` touches the sidecar of a document that stays, and `RunFiles` what each
sidecar is after a run. `None` and `Corrupt` are assumed to be no inputs and no sidecar (`TokenAssumption`), and `BeginningsAssumption`
asks of the corpus to start from what the code leaves beside any: records of spaces that its sidecars are of.

**LocalRecordsProofs.** Of the letters, `LettersGoOnce` (`NoLetterTwice`) and `AnswersAreKept` (`AnswersStay`). A letter is judged against the
ledger, not against the mail, so `AskInv` says where the two may differ: a letter of the mail is in the ledger, or is the one that the run
has delivered and not recorded, or its send was stopped and the owner has not compared Sent with the ledger yet (`MailIsFiled`), and while he has not no
run begins (`StoppedRests`). The letter that a run has judged new stays new until it is delivered (`LetterIsNew`). A record command checks
a ledger that others may extend before its line is written; `CheckedStands` says that what it found still makes its line right.

Of promotion, `CommitsAreTold` (`CommittedIsTold`) and `WithdrawalsStand` (`WithdrawnStaysOut`). A checkout may be anything between two versions
when a command is killed, so `PromotionInv` says what the command that runs, or the one that was killed and is owed, leaves of it (`TreeStands`):

- a promotion writes the record last, after the observations, so that the two disagree on the number of versions until it ends,
  which is what refuses the next promotion; where they agree, what is there is still the version before (`Promoting`);
- a withdrawal changes no list of versions, its line is in the log before it takes a file, and what it has not deleted is still
  of the version it withdraws (`Withdrawing`), which is what its repetition then leaves (`WithdrawAgainKeeps`);
- a migration may move audits whose carries are not in the log yet; its lines come after its files, and it leaves the page, by which
  it is judged again (`Migrating`). Each audit names an approval, and one that is not carried an approval under its own extractor (`Decided`),
  so that where all are under the running one, only carries can be missing (`MigrateAgainKeeps`).

`JobStands` adds that the files a command has left to write, with those it has written, are a story that the log bears out (`Told`, with the
lines it has yet to append), and `LogIsSound` that decisions are in the order of their instants: an approval that an audit is moved to
is no earlier than the one it had. One lemma per command shows that what it means to write is such a story, most of all `Promoted`, shared by `promote` and
`backfill`, and `Shorter`: the history a backfill reads up to its latest approval numbers the versions as the whole log does.
Both theorems hold of any orders of the files by path in which the manifest's is last, which is how `apply_files` is called.

**ObservationLogProofs.** `CorrectionsAlwaysStand` (`CorrectionsStand`) and, where `RepairsApart`, `IndexIsAlwaysTheFold` (`IndexIsTheFold`).
The first is not inductive: of a log that does not read it says nothing, and a repair may make that log read again. `StandInv` says it of every
beginning of the log that reads (`BeginningsStand`), which a cut write, a repair and a cut repair only shorten (`CutDownStands`). It also says that while nothing
is damaged, the log with all that reattribute has yet to append is good (`PlanStands`), so that each half is good where it comes to stand,
whatever is captured in between (`GoodAround`), and that what a repair is to write is a beginning of the log. `PlannedStands` shows it of a new plan, one
record after the other (`AdditionsStand`): no observation is in the log twice, and what is half-written is this decision's.

`FoldInv` is for the second. The view of an index is that of its prefix by itself, if that reads (`IndexShape`); a fold that starts from it starts behind
every correction of the log (`FoldStands`), and neither a capture nor, by the workload lock (`Locked`), a reattribution puts one there
before it. `ViewGoesOn` then puts the two parts together: behind the last correction, a beginning's own corrections are all there are.
The hypothesis is needed: without it TLC finds the folds [below](#where-code-and-text-disagree) that a repair undercuts.

**Checked by TLC only.** Liveness (`Recovers`, `ComesToRest`, `TakedownHappens`, `Settles`, `Converges`, `EveryoneIsAsked`),
which the prover does not do under fairness. Of ReleaseControl
`CrashTable` and `UrlContinuity` under hand edits, which are false there, and of SyncCorpus its properties beyond the hypotheses above,
kept checkouts without edits upstream among them. Of ObservationLog `IndexIsTheFold` where not `RepairsApart`, which is false as well.

## Where code and text disagree

Five runs are expected to end in a violation. Each checks one sentence of the repository.

- `release_previous` - `envelope.py` says the marker is the release made live last and the one it
  replaced. `reconcile --complete` writes `previous = M.active` also when D already names
  M.active. That state arises when a commit's reload fails or reads back wrong, D is put
  back, Caddy had restarted in between, and the second reload never ran. The marker then names one
  release twice, the next rollback has nothing to go to, and the next prune deletes what it would have gone to.
- `corpus_receipt` - `operations.md` says a withdrawal's missing receipt is written by the next run
  of the same command. It finds its intent by the manifest as it is now, so if any other change
  came in between, the receipt is never written and the command refuses.
- `sync_residue` - `git_commit.add`'s docstring says what a killed run leaves heals in later passes. In a kept
  checkout a page committed before the kill, of a document that then leaves upstream, is
  deleted by no pass; the audit refuses every push from then on.
- `mcp_index` - `CorpusReader` "drops every cache when manifest.json changes on disk so tools never serve the
  pre-pull corpus". `_load_body_index` takes the slugs before the lock and stores what it builds of them
  without asking whether the corpus was refreshed in between, so acts that a pull added
  are found by no search until the next pull.
- `gate_start` - `check_gate_epoch` refuses an epoch later than the earliest attested state, since "the gate cannot have
  attested a state before it began". What it compares is the author date of the state, and a first run with nothing
  to commit attests the HEAD it found, which is older than the run. If its epoch step failed (`continue-on-error`), no later
  run writes the record, because attestations exist, and the backfill of the true start is refused: every unattested
  state stays an error under that version, until somebody enters a start that is false.

The following were met while modelling and have no run of their own.

*Release.* `reconcile --complete` refuses a rollback killed after its rename, since it judges continuity and a
rollback loses URLs (`--abandon` resolves it).

*First migration.* A retirement killed between the site tree and the backups leaves an armed way back
that would serve the deleted site (`NoWayBackToNothing` in the module states `_require_backup`'s sentence; TLC
violates it). An offline way back killed after the backups and before the socket's file leaves a file
that the next preflight refuses. `abandon` asks R over TCP and then restores files: a restart of Caddy in between leaves the
envelope running with the backups consumed. Neither it nor the migration takes `transaction_lock`.

*Sync.* A quiet sync is not without commits, as `run_sync`'s docstring has it: a slug freed by the previous
run is claimed by the document that prefers it. A removed document that is listed again and does not render is
neither carried nor written, so its tombstone goes (`architecture.md`, "Tombstones"). A document that moves to a new title
releases its old slug to others, where `slug.py` says "permanently reserved" (`url-contract.md` says it is not). One
published document that no longer renders makes the attestation raise, so nothing is pushed that
night, where `_try_write_one` "must not abort the whole sync"; that is why `Converges` has `AllRender` for a premise.

*Server.* The unlocked fast path of a lookup may find the cache dropped and return nothing (the call then raises:
`Take` in `LiveReader`). A call whose client
went away gives its slot back while its thread runs on, so `max_in_flight`, which `_with_quota`'s docstring says protects the pool
of threads, does not count that thread. `query.py` calls a tripped join timeout a leadership defect "not a slow network"; a leader
whose embedder retries for longer than that trips it too. `CredentialStore.__init__`
parses and then stats, so a write in between, or a rewrite filled in the tick in which it was emptied,
goes unread until the next; two token commands at once lose one's update.

*Letters.* A letter goes twice if the process dies between the delivery and its line, or two sends overlap, and the owner
does not compare Sent with the ledger (`operations.md` asks him to). A manifest that is sent again after a newer wave's
request was closed repeats its general question. A letter with only new ids to an authority whose request is open is written
by `waves.py` and refused by the send, again and again.

*Promotion.* `backfill` never asks the decision log for a withdrawal, only the checkout's manifest (`_placement`). After
a logged withdrawal, in a fresh checkout or one restored before the commit, it writes the next approved version of the
withdrawn document: `withdraw.py:16` says "neither a later approval nor a fresh checkout brings the
document back". `WithdrawnStaysOut` excepts that one command; without the exception TLC shows the trace. A `local` or
`backfill` of a second version, killed after the observations file and before the manifest, refuses every
repetition until the checkout is restored. A `withdraw` killed after the manifest and before its deletions prints "Unchanged: ...
already withdrawn" when repeated and exits 0 (`commands.py:386-390`), with the page still there: the next commit, of whichever document, publishes
the record as removed with its page and evidence. A `migrate` killed after the manifest and before `record_carry` says "already at extractor"
and "Nothing to migrate" when repeated and exits 0 (`migrate_commands.py:86-88` and `125-127`), and the next commit publishes audits that say
`carried` with no such line in the log, where `operations.md` has it that "`promotions.jsonl` gets one `carried` record per
carried version". The model has both repetitions (`WithdrawAgain`, `MigrateAgain`), TLC reaches both commits, and `CommittedIsTold` excepts exactly
these two. No later run repairs either: `withdraw` goes by the status, and `migrate` by the files, until the next extractor.
A `backfill` killed after the page and before the observations, whose version is then rejected, says "Nothing to write: the corpus holds
every approved version" with the exit code of a hold; the model has the owner restore there. A carried approval keeps the audit's `decided_at` and takes `approved_at_extractor` from the latest
decision, which may be another than the one the audit quotes.

*Observatory.* `append` does not look at how the file ends. The damage verdict stops `capture` and the sweep before they fetch, but `discover`, or a
pass that is under way, appends a failed fetch after a torn line all the same (an artifact is refused there: the fold of tombstones
reads the tail first); the two share a line, which is then not the last, and `repair`
refuses it as corruption "which an interrupted append cannot produce" (`log_commands.py`; `log.py:62` and `operations.md`, "An interrupted append can only ever damage
the last line", say the same). A line cut just before its newline parses: `verify` finds nothing, and the next append damages it.
If a sweep wrote its index in between, the index ends inside that line, later sweeps start there and read
on, and never see the damage that a full read refuses; `_capture_state` says the index path returns "the identical
damage verdict" (so `IndexIsTheFold` is about logs that read to their end). `repair` takes no lock: a capture between its read and its rewrite
is lost (but for its blob). With `RepairsApart = FALSE`, TLC finds sweeps that answer from lines a repair has cut, or anchor their index to bytes it was not built from.

## What is not modelled

`PROJECT.json` lists every component with the reason. In short: pure text transformation
(rendering, site, publication pages, replay) has no states to explore and good fixtures;
readers of git and of external services keep no state; the rest is planned below. Within
the modelled components, what each module leaves out is said with the module above.

Every hazard `PROJECT.json` lists has a property. Three more of the release store are not listed there and have none: a prune run by hand deletes the
`.build-` directory of a build under way; a prune killed inside a tree leaves a partial directory under a release's
own name, at which every build of that content refuses until the next prune; a rollback is exempt from URL
continuity when it starts and not when its crash is completed.

## Plan

Done, in this order, by how much of the system depends on it: the release transaction with its
abstract specification and proofs; slugs, then the sync that uses them; the dataset
transaction with its abstract specification and proofs.

Then the first migration beside it; the MCP server's reader and state cache; the hosted calls with quota, query
flights and credentials; the letters; promotion; the reader of the dataset; the observation log; the sidecars; the epochs of the temporal gate.

Next: the crosswalk's cache and approvals, the benchmark's resumable log, the preparation of the forarbeider.

Theorems to add: for every safety property a passing run checks there is one. What those of SyncCorpus assume of an upstream that
is edited while a checkout is kept may be weakened.
