# A verification project for smolanalytics

smolanalytics is a self-hosted product-analytics server written in Go: one
process that ingests events, keeps them in its own storage engine, answers
questions about them over an HTTP API, an ask bar, SQL and an MCP server,
evaluates feature flags and experiments, investigates changes, and sends
alerts. This directory holds TLA+ modules that model its code, TLC
configurations that check them, and TLAPS proofs. Paths below are relative to
the repository root.

Two thirds of the code count events and one third keeps state. The first are
modelled as operators over a log of events and checked against reference
definitions and against one another, since what a user notices is two numbers
that disagree. The second are state machines with interleavings, failing writes,
crashes and restarts.

## 1. Inventory of the system

### Store interface (`internal/store/store.go`)
State: the set of stored events, identified by `Event.ID`. Operations: Ingest
(idempotent on the id), Range and Scan (events of `[from, to)`), Prune
(retention), DeleteUser (erasure of a distinct id), Clear, Names, Count, Close.
Correct when nothing leaves the set but by a removal that was asked for, and
nothing that was removed comes back.

### File store (`internal/store/file/file.go`)
The default backend, and the hot tier of the segment store. State: an append
log of JSON lines, the slice `evs` and the id set `seen` built from it, an
optional cap on the number of resident events. Ingest deduplicates, writes, syncs,
indexes and returns; Prune, DeleteUser and the cap share one compaction (temporary
file, sync, close, rename, directory sync, reopen); Open replays the log and
repairs its tail. One mutex. Hard: a write cut by a crash or a full disk, every
failing step of the compaction, a power cut around the rename, what memory and
log disagree on after each. Correct when an acknowledged event is durable and
served, an erased one gone, and a damaged line costs no more than its record.

### Segment store (`internal/store/segment/segment.go`, `codec.go`)
State: the hot log; immutable segments on a blob backend; the manifest, itself
a blob; in memory the manifest, the next sequence number, a cache of event
names, a count of running scans and a queue of retired keys. When the hot block
is full Ingest seals it: put the segment, put the manifest, clear the hot log.
Prune drops whole segments, DeleteUser rewrites them, Scan reads blobs without
the lock, Verify and Scrub compare manifest and backend, Open reconciles a seal
that a crash cut off. Hard: a crash between any two of the durable steps,
readers beside mutations, the second halves of Prune and DeleteUser that run
without the lock, partial failures, lost replies of an object store.

### Blob backends (`internal/store/blob`), memory store (`internal/store/memory`)
Put, Get, Delete, List over a directory or an S3 bucket: a local Put is a
temporary file and a rename, an S3 call can fail after it took effect. The memory
store is a slice behind one mutex, for demos and tests.

### Identity aliases (`internal/alias/alias.go`)
State: alias id -> canonical id, on a JSON file. Events are stored under the id
they came with and read under the canonical one. Resolution is one hop, and any id
may be joined to any other. An erasure deletes every id of a person, one after the
other, and forgets the aliases last. Correct when the erasure leaves nothing that is
shown as the person's, retried after a failure or not, and when joins build no chain,
which two of them can (section 4).

### Flags, experiments, guardrails (`internal/flag`, `internal/api/guardrail_eval.go`, `auto_revert.go`)
State: flag records with their experiment (a pointer) on one JSON file. Every
save reads the record under the lock, validates outside it and writes the whole
record back. The safety pass evaluates guardrails, saves the verdict and turns
off a flag whose breach persists. Correct when a running plan changes only as
the lock allows, a flag is pulled only for a persistent breach, once, and what
goes on hurting is pulled.

### Webhooks and alerts (`internal/webhook`, `internal/alert`, `internal/api/alert_eval.go`)
State: endpoints with a failure count, alerts with the time of their last firing.
Deliveries run in goroutines with three attempts and a back-off; consecutive
failures disable the endpoint. Correct when an alert does not repeat inside its
window, no late outcome undoes what the operator decided, what goes on being true
goes on being told, and a broken endpoint is paused.

### Vendor connector (`internal/connector`)
State: daily buckets and a watermark per source. A sync pulls chunks, saves after
each, re-reads an overlap. Correct when no day behind the watermark has a hole or
is counted twice. The investigation over these counts has to find what one over
the events finds.

### Sidecar stores (`internal/insights`, `goal`, `share`, `deploys`, `survey`, `acted`, `exportlink`, `defined`, `cohort`, `settings`)
One mutex and one JSON file each, opened by the server and by the process an
editor starts. Correct when what a call answered is what the file holds.

### Reports (`internal/funnel`, `cohort`, `retention`, `trends`, `session`, `paths`, `person`, `groups`, `formula`, `query`, `web`, ...)
Pure functions over the events of a window. Hard: half-open windows, ties of time,
orders of arrival, first touches; and that a dozen of them count the same people.

### Surfaces: HTTP API, MCP server, ask bar, SQL (`internal/api`, `internal/mcp`, `internal/sql`, `internal/web`)
Each reads the window, the filter and the limits its own way and hands on to the
reports; SQL has a parser and an executor of its own. Correct when one question
has one answer.

### The desk (`internal/desk`, `internal/investigate`, `internal/whatchanged`, `internal/deploys`)
A sweep finds the day a metric changed, its cause, its cost, whether it
recovered, whether tracking broke, and what each deploy moved; marks and receipts
form a ledger over it. Correct when each door names the same day and ship, when
what is closed or recovered asks nobody, and when a replay of the past tells what
was told.

### The verdict (`internal/insight`, `internal/fixbrief`, `internal/errortrack`, `internal/planhealth`, `internal/api/shared.go`)
The funnel a product is judged by, detected from its events; its worst drop, the
segment to blame, anomalies, the brief for each, the errors beside the funnel, a
proposed funnel, the health of the tracking plan. Correct when every figure is
the one the report beside it shows.

### Server process (`cmd/smolanalytics/main.go`)
Boot, the loops (prune, safety pass, alerts, sync), shutdown, and subcommands such
as `scrub` and `mcp` that open the same data directory.

### The rest
The demo generator, importers and instrumentation scans, the geo lookup, the pages,
and the Node test runner under `cli/`.

### Interactions
The API, the tools and the loops call one Store; the segment store calls the file
store (its hot tier) and a blob backend. Every read goes through the aliases. The
safety pass reads the store and writes flags and receipts, which the desk's ledger
reads back as events; the alerts evaluate reports and hand them to the endpoints;
two processes share the sidecar files. The hazards of all this, each at its line,
are in `PROJECT.json`.

## 2. Modules

| module | models | uses |
|---|---|---|
| `EventStore` | the promise of `store.go`: a set of events and the calls in progress that may take from it | |
| `HotLog` | `file.go`: the log line by line, memory, compaction, crashes and power cuts | refines `EventStore`; theorems in `HotLogProofs` |
| `SegmentStore` | `segment.go`: seal, prune, erase, clear, scan, verify, scrub, recovery, over a blob backend that fails | refines `EventStore`; theorems in `SegmentStoreProofs` |
| `Logs` | a log without some of its events | used by `HotLog`, `Aliases`; lemmas in `LogLemmas`, used by their proofs |
| `FlagControl` | flags, experiments, guardrail pass, auto-revert | theorems in `FlagControlProofs` |
| `Notify` | alerts, anomalies, webhook deliveries | theorems in `NotifyProofs` |
| `Connector` | the poller and its file | theorems in `ConnectorProofs` |
| `Sidecar` | ten JSON-file stores under two processes | theorems in `SidecarProofs` |
| `Reports` | the counting of the report packages | |
| `Surfaces` | windows and filters of the API, the tools and the ask bar | extends `Reports` |
| `Answers` | the ask bar's dispatch and own reports, numeric measures | extends `Surfaces` |
| `Tools` | the MCP tools and the handlers beside them, lists and rows | extends `Answers` |
| `Aliases` | `alias.go`: the alias map over the log, erasure and its failures | theorems in `AliasesProofs` |
| `Identity` | the reports over that log, against reference definitions | extends `Aliases`, `Answers` |
| `Parity` | what tools, handlers and ask bar must say beside one another | extends `Identity`, `Tools` |
| `Sql` | the SQL of `internal/sql`: parser and executor | |
| `Studies` | SQL queries beside the reports | extends `Identity`, instance of `Sql` |
| `Sweep` | detection, cause, recovery, revenue, ships | |
| `Investigate` | tracking breaks, dead ships, marks, replay | extends `Sweep` |
| `Aggregate` | the sweep over daily counts | extends `Investigate` |
| `Insight` | the verdict and what hangs on it | extends `Sweep`, instance of `Reports` |
| `Desk` | days of traffic with an operator; the doors that serve the desk and the verdict | extends `Aggregate`, `Insight` |
| `MC...` | small instances for TLC | |

### HotLog and the code
`file` is the log as a sequence of lines. A line is a whole record, a bare one
(complete, newline missing), a torn one, or junk: two writes on one line, which no
replay parses. `stable` is what a power cut is bound to leave: a sync makes
them equal, and `AfterPowerCut` gives the files a cut may leave in between (any
prefix of the append; after a rename the old or the new file). `evs` is
`Store.evs`, from which `seen` follows; `w` is the handle. `pc` names the next I/O
call of the mutex holder: `Ingest` (deduplicate) -> `Write` -> `Sync` (index,
acknowledge, check the cap) -> perhaps a compaction `Rename` -> `Swap`. Each
has its failing variant, enabled by `Faults`. `Close`, `Crash` (the process
dies, a write may be cut) and `PowerCut` end the process, `Open` replays and
repairs. `acked` and `erased` are bookkeeping: what a client was told; `failed`
says that a call failed or a write was cut. A failing directory sync, which the code
ignores, leaves the rename unsynced ("dirSync"). The reads and `SetMaxEvents` (which
runs once at boot, on a log replayed under the same cap) change no state. Records are
whole events: their JSON is not modelled.

### SegmentStore and the code
`pc` is `Store.mu`: "free" or the holder's next step; a read lock is the guard
`pc = "free"`. Every durable effect is a step: `SealPut`, `SealPersist`,
`SealClear`; `PrunePersist`, `PruneDrop`, then `PruneHot` and `PruneRebuild`
without the lock; `EraseLocked`, one `EraseSegment` per manifest entry in
order, `ErasePersist`, `EraseDrop`, then `EraseHot` without the lock;
`ClearDrop`, `ClearPersist`, `ClearHot`. A crash can fall before any of them.
`Scan` registers, takes its snapshot under the read lock and reads blob by blob
without it. `Verify` reads the manifest, the blobs, then the listing;
`ScrubSweep` deletes by that report. `Open` is Open with `recoverHotLocked`, and
`OfflineScrub` is the `scrub` command on a stopped instance.

Abstractions:
- a segment is the set of its events and its index entry; encoding and CRC are
  left out, the entry's count, bounds and names are computed as `encodeSegment` does;
- the manifest is a function from slots to entries. A slot is the sequence number of
  the first seal, so that a rewritten entry keeps its place as in the slice;
- `DeleteUser` edits `Store.manifest` in place and restores it on failure. Nobody
  can read it in between, so the edit is made in `next`;
- `sealLocked` reads the hot log in one step (the lock keeps writers out);
- the hot tier is its memory (`hot`) and its file (`wal`), each a set. An ingest may fail after
  indexing (`IngestUnsynced`), a compaction may fail and change nothing, a truncation may fail
  and leave the file; every other step leaves the two alike. Lines and syncs are `HotLog`'s subject;
- a crash of the whole module is a process crash; blobs and manifest are atomic
  objects (`blob.go` renames, S3 puts whole objects);
- `Held`, the events a query would be answered from (after a crash, those the next Open
  would find), and `want`, `sent`, `gone` are bookkeeping that no action's guard uses, but
  for `sent` in `MaySend`, which tells a retry from a first sending.

`Ops` says which operations the environment uses, `Faults` which calls may
fail: "get", "put", "manifest" (the manifest's Put), "delete", "lostReply" (a failed
Put may have been stored), and of the hot log "sync", "compact" and "truncate". `refused` are the
events of ingests that failed after indexing: they are served and no name was noted for them.
`Resend` allows a client to send again an event that has left the hot block.

### EventStore
`stored` and `leaving`: an event enters by Ingest and leaves only while a call
that is to remove it runs. The mapping of both stores is stated as `Promise` at
their ends: `leaving` is what the calls in progress are to remove. The
abstract store allows a call to take effect in steps and to fail half way, as the
interface does; it does not allow an event to vanish by a seal, a recovery, a
failing call or a crash, or one to appear that no client sent.

### FlagControl and the code
`items` is `Store.items`; a record is the switch and the address of its experiment in
`heap`, since every copy of a flag shares the object and the pass writes its verdict
and its mark through the pointer before it saves. `disk` is the file. `call` is every
caller's progress through `SaveWithExposure`: the read, `Check` (the
validation, under a read of its own), `Write` or `WriteFails`. `SetEnabled`, `Create`,
`CreateExperiment`, `ExperimentPlan`, `Delete` are the handlers and tools; `StartPass`,
`Evaluate`, `SkipUnread`, `Decide`, `Pull`, `Record`, `Receipt`, `EndPass` the safety
pass. An age is counted in units of which `Period` are a tick. `verdicts` and `receipts`
record what happened, `excused` the starts whose last verdict was overwritten by an older
save or lost in a restart, and those that a save put back on a flag that had lost them:
while they were off it the pass judged whatever the flag carried in their place
(`auto_revert.go:120` looks the experiment up again by its flag).

### Notify and the code
`StartPass` moves time; `EvaluateAnomaly`, `ListAlerts`, `Evaluate`, `SetChecked` are
`EvaluateAlerts`. `DeliverAll` starts a job per enabled endpoint, `Deliver` makes one
attempt and, after the last, applies `Outcome` to whatever the endpoint is by then. Each
store has its memory and its file; `unsaved` are the endpoints whose last change the file missed. Whether an alert's condition is met is left open:
`Insight.Met` computes it.

### Connector and the code
`BeginSync` takes the lock and the window, `ReadChunk` fetches, merges, trims, moves the
watermark and saves, `FetchFails` and a failing `Save` end the sync. The day may turn
(`NextDay`) and an event may arrive late (`Arrive`) between two chunks.

### Sidecar and the code
`store` says which of the ten a behaviour is of: they do not interact. `Change` applies a
call to a process's memory and `Saved` or `Fails` write the file; `RollsBack` are the
stores that undo a change whose write failed. `Stop` may leave the file torn for `defined`,
which writes in place. `told` is what the last call that returned said of each key,
`unsaved` the keys on which a failed write left a process ahead of the file, `stale` those
another process has written since this one last had the file, `lost` those whose last word
was overwritten for that reason.

### The counting modules and the code
`Reports`, `Surfaces`, `Answers`, `Tools`, `Sql`, `Sweep`, `Investigate`, `Aggregate` and
`Insight` have no variables: an operator is a function or a handler of the code, its
argument the events in storage order. `Aliases` supplies the log: `Ingest` (with
`RecordFrom`), `DeleteUser` and its failure; a scan reads the log through the aliases, and
`owed` remembers, for each erasure that failed, the ids it was to remove that the reports showed as
one person, until they are removed or joined to somebody else. An identity event (`Identify`) carries a
trait in its properties (`plan`), any event one in its $set bag (`set`). `Second` is the grain of a
visit's handle: times are finer than it. The properties of
`Identity`, `Parity` and `Studies` compare the operators over every log that can arise. `Desk` supplies the days: `NextNoon` takes the instance to the next sweep, between
two of which an operator deploys, now or by an earlier date (`Ship`, `Dated`), marks a finding (`Mark`), starts an experiment and
deletes its flag (`Start`, `Delete`), and the safety pass reverts it (`Revert`). `told` is
what sweeps have said, which the replay is compared with.

Properties of these modules, and some operators, are split into helpers with parameters, and
some intermediate results are sets of records where a function would be shorter. TLC evaluates
a function constructor again at each application and a definition without parameters again at
each use, but an argument once.

## 3. Runs

Each run asks one question; `PROJECT.json` says in a sentence what it shows.

| run | question | bounds | states |
|---|---|---|---|
| `SegMutate` | seals, prunes, erasures, Clear and scrubs interleave, manifest puts fail or lose their reply, hot compactions fail, one crash: is each event in one place, a cold erasure final, a sweep by an unchanged manifest safe? | 3 events, 3 keys, 1 crash | 4.6 M |
| `SegScan` | a query beside seals, flushes, erasures and Clear, with failing Gets and truncations: does it answer exactly its snapshot, does it meet a retired key? | 3 events, 2 windows, 1 reader, 3 keys | 6.1 M |
| `SegRestart` | a crash anywhere, failing I/O (the sync of an ingest and hot compactions too), a health check, an offline scrub: do references resolve, entries and names describe their segments, live segments stay unchanged, is the promise kept? | 3 events, 3 keys, 1 crash | 5.3 M |
| `HotCompact` | power cuts at every step of append and compaction, every step of the compaction fails: is what was acknowledged on disk once, do memory and file agree, does the erased stay erased, is the promise kept? | 3 events, 4 appends, 2 cuts | 19 k |
| `HotFaults` | every fault, a crash inside a write, Clear, a cap: does damage stay on its line, are the newest events the ones served? | cap 1, slack 1, 3 appends, 1 crash | 2.9 M |
| `FlagControl` | an operator's saves race the safety pass, a write fails or the process restarts: are pulls past the warm-up, justified and made once, does the lock hold, is what hurts pulled? | 1 flag, 2 arms, 2 plans, 1 operator, 2 calls, 1 fault or restart; tick 2, delay 1, gap 2, warm-up 4 | 471 k |
| `Notify` | passes, concurrent deliveries, the operator, failing files, a restart: does an alert cool down, does the operator decide, is it told again and again, is a broken endpoint paused? | 1 alert, 1 endpoint, 2 anomalies, 2 attempts, 2 failures, 2 changes, 1 fault, 1 crash | 446 k |
| `Connector` | fetches and saves fail, the process restarts, the day turns, events are late: are days exact, does the watermark catch up? | window 5, overlap 2, chunk 3, lateness 1, days 5 to 9, 1 fault, 1 crash | 54 k |
| `Sidecar` | each store under two processes, failing writes, stops and restarts: is what was said true, are boards sound? | 2 keys, 2 boards, 2 names, 2 texts, a SetActive in flight; calls unbounded | 541 k |
| `Identity` | every order of arrival of a person's events under three ids joined one to the other, with failing erasures: do funnels equal their definition, do reports, surfaces and SQL agree, does time decide, does an erasure complete? | 4 events at times 2, 3, 5, the first two in one second; 6 funnels; 1 failed erasure; reports compared on logs of 3 | 86 k |
| `Desk` | days of changing traffic with a deploy, marks, an experiment and its revert: does every door name the same day and ship, is nobody asked in vain, is the replay the history, do daily counts agree with events, is the verdict what the reports say? | 3 usual days and 4 more of five shapes, 4 visitors, 3 moves; a ship at the noon, half a day or 2 1/2 days before it | 16 k |
| `SegEraseRace` | violation: a seal carries a user's events past their erasure | | |

### Why the bounds are enough

*Storage.* Two events fill a hot block (`SealAt = 2`), so that three events of two users give
a segment with both users (rewritten by an erasure), a segment or hot block with one
(dropped, or emptied), a duplicate across tiers, and a segment whose events straddle the
cutoff. `Flush` adds segments of one event. Three keys give two live segments and a rewrite.
One reader is enough because readers only meet through the count of running scans. The
windows include one whose bounds fall on events. The
slack of the cap is 1000 events in the code and 1 here: both handlers compare with the same
number. A second power cut meets the state the first recovery left.

*Safety pass.* Two arms let a second arm fail while the first recovers, so that two failures
in a row need not be of one arm; two plans, one without a guardrail, are the re-aim an
overtaken validation allows. A gap of one tick and a delay of one unit let a pass come too
early by jitter alone. Two calls of an operator are a read-modify-write overtaken by another.

*Notify.* Two deliveries of one endpoint overlap with two attempts each, and two failures
disable it. *Connector.* Two chunks cover the window, so that a backfill can fail between them; the overlap is longer than the
lateness (without which `DaysExact` fails, section 4), and the last days run past one whole
window, so that days leave it.

*Sidecar.* Calls are not bounded: the state space is finite. Two keys give a key that is
written beside one that is not; two boards a name that is taken and a report that moves.
Deadlock is not checked in this run, because a torn `defined` file with everything down
really stops: the store cannot be opened.

*Identity.* A visitor identifies herself and buys, carrying two values of one trait; then she, or somebody
else, logs in as bob with her id as the one before. Three ids are the least with a chain, and in the other
order of arrival the least with a join that collapses. The times 2 and 3 are one second of one day, a list that
starts at 3 cuts a visit inside it; 5 is the next day and week, within the gap of 3 and not of 2, so that a
late arrival joins two visits. Windows begin and end on events. What bob does he does at one time
(`BobsTimes`), whenever it arrives. Four events walk three steps with one of them repeated, or come between
two. Reports, tools and SQL are compared on logs of three events, which every one of their mutants needs no
more than. Queries go over every expression tree of up to three operators of OR, AND, comparison, - and *.

*Desk.* The thresholds are scaled to the days (a side of 2 days where the code has 3, one ship
in place of several, a sample of 2 people in place of 20, ...): `Gate` and `Bar` name each with
the code's value. The shapes are the usual day, one without purchases, one without those of a
plan and with an error, a dead one and a burst with a new buyer, which is where the detected
journey first exists. Time counts half days, so that a sweep at noon sees half of today; the
last noon stops, therefore no deadlock check. Three moves are a change, a change back and an
act, or a change and two acts. The verdict, which reads the log alone, is evaluated where
nobody has acted and no plan is declared.

### What a run leaves out on purpose
Environment parameters leave something out where the property fails with it and the failure is
known (section 4). `SegMutate` has the action constraint `CalmBeforeCrash`: before the crash,
replies of the backend arrive, no hot half of a prune or an erasure runs inside a seal, and
Clear is not called; after it, anything happens. Recovery is known to miss the first two.
`SegRestart` has no lost reply and no online scrub; a truncation fails only in `SegScan`, which has no crash.
`SegmentsIntact` leaves out the names of `refused` events, `OperatorDecides` a switch whose own write
failed, `DetectExact` a ship exactly 48 hours away, and a trait is compared at the two doors where the last
word on it is an identity event's. `AckServed` speaks of a process in which no
call failed and no write was cut (`failed`). `ToldTrue` excepts `unsaved` and `lost` keys, that is,
the stores that keep a failed write and the second process.

Some properties have several conjuncts because they are one promise: `AckServed` includes that
the newest events are resident; `MemoryMatchesFile` that nothing is there twice; `ScanExact`
that every segment is found; `SegmentsIntact` that the name cache covers what is held;
`RevertJustified` that the experiment is past its warm-up and pulled once.

### Fairness
Safety properties assume none. The liveness properties assume:
- `FlagControl`: weak fairness of the safety pass (`SafetyStep`), a ticker's goroutine that runs
  for the life of the process, and of each step of a request an operator has begun. Operators
  need not call.
- `Notify`: weak fairness of the pass (`PassStep`, the ticker of `alertLoop`,
  `main.go:586-593`) and of every delivery's next step (`DeliveryStep`; a goroutine whose
  requests time out).
- `Connector`: weak fairness of beginning a sync (`Syncer.Run` loops for ever) and strong
  fairness of reading a chunk: the vendor may refuse again and again but not for ever. Weak
  fairness would say nothing, since a failing fetch ends the sync and disables the step.

Every property of a passing run has a mutant in `PROJECT.json`: a plausible bug in one modelled
definition with which the run must find the property violated.

## 4. Known divergences

`SegEraseRace` is a run of its own and a finding in `PROJECT.json`: DeleteUser unlocks between
its tiers (`segment.go:547`). A seal in that window moves the user's hot events into a segment
the call has passed; it returns nil with events of the user stored.

The others were met while modelling. Where a model shows one under wider parameters, the
constants to set and the property that fails are named; take a cfg of this directory.

### Segment store
- Scrub deletes by a report taken before it locks (`segment.go:641`): a segment sealed between
  the report's manifest snapshot and its listing is deleted although the manifest names it.
  (`Ops` with "scrub", `NoDanglingRef`.) `QuietScrubIsSafe` states when a sweep is safe.
- Clear deletes the segments before it persists the empty manifest (`segment.go:427`): a crash
  in between leaves the stored manifest dangling. (`Ops` with "clear", `MaxCrashes = 1`,
  `NoDanglingRef`.)
- A retry of an event whose block was sealed is stored again, since sealing clears the ids
  Ingest compares with (`segment.go:189`). (`Resend = TRUE`, `OneCopy`.)
- Erasing a user with hot events only leaves their names in the cache (`segment.go:545`).
- An ingest whose sync fails after indexing (`file.go:228`) returns before the names are noted
  (`segment.go:145-147`): the events are served and counted, and their names are in no list until the
  next rebuild or restart. A prune whose hot half fails returns before the rebuild (`segment.go:379`).
  (`Faults` with "sync", `SegmentsIntact` with `Held` in place of `Held \ refused`.)
- A seal's truncation of the hot log fails after its memory was emptied (`segment.go:189`,
  `file.go:286`): another ingest is appended to the old block, and after a restart the hot log is not
  the last segment, so that every event of the block is there twice, and those erased from the segment
  are back. (`Faults` with "truncate", `MaxCrashes = 1`, `OneCopy`, `ColdErasureFinal`.)
- Prune's hot half runs inside a seal; after a crash the count comparison of recovery fails and
  the duplicate stays (`segment.go:378`, `113`). (`SegMutate` without its constraint, `OneCopy`.)
- The reply of a manifest Put is lost, the key is used again and the object the stored manifest
  names is overwritten (`segment.go:184`). (`Faults` with "manifest" and "lostReply", `Immutable`.)
- Recovery returns nil when it cannot read the last segment (`segment.go:117`). (`Faults` with
  "get", `MaxCrashes = 1`, `OneCopy`.)

### Hot log
- A short write leaves a fragment that only Open repairs; the next append of the same process
  joins it, and an acknowledged event is in no record of the log (`file.go:222`). (`Faults` with
  "write", `MaxEvents = 0`, `AckServed` without `~failed`.) A batch cut after a whole record
  and retried is recorded twice. (`MemoryMatchesFile`.) Under a cap, what a failed short write left
  is newer than served events and a replay keeps it in their place.
- A sync fails after the events were indexed; the retry is deduplicated and acknowledged
  (`file.go:228`). (`Faults` with "sync", `AckDurable`; with process crashes, `ErasedGone`.)
- After a process crash between write and sync, Open serves and deduplicates against a record
  no sync has covered (`file.go:86`). (`Crashes` with "process" and "power", `AckDurable`.)
- After a failed reopen (`file.go:410`) an event the compaction removed is deduplicated and
  acknowledged although it is not in the file. (`Faults` with "reopen", `AckDurable`.)
- Under the cap, DeleteUser does not find what replay dropped from memory, and leaves it in the
  log (`file.go:463`). (`MaxEvents = 1`, process crashes, `ErasedGone`.) A compaction that fails
  lets the index exceed cap and slack.

### Process and sidecar files
- `serve` returns as soon as `srv.Shutdown` is called, because ListenAndServe returns at once
  (`main.go:509-512`), and main then exits: requests in flight are cut and the
  `closeStore` of the signal's goroutine (`main.go:488`) usually does not run, against `main.go:480` "Graceful shutdown so
  the event log is flushed and closed cleanly". Acknowledged events are safe in the hot log.
- `smolanalytics mcp` writes "the same sidecar files the server uses" (`main.go:636`) without a
  lock and without reading them again: each process overwrites what the other wrote (`lost`). The
  same holds of the event log: a compaction by one leaves the other appending to an unlinked file.
- goal, share, deploys, acted, defined, exportlink, and the tracking plan keep a failed write in
  memory (`unsaved`): a retried mark is acknowledged unsaved, a retried Delete answers "not found"
  and the item is back after a restart, which `settings.go:223` guards keys against.
  `exportlink.Redeem` ignores the error: a link is for single use within one process only.
- `survey.SetActive` reads, unlocks and saves whole (`survey/store.go:143-150`): it overwrites an
  edit in between. `defined.persistLocked` writes in place: a torn file disables the store at the
  next boot. No sidecar syncs before it renames.

### Flags and experiments
- The pass saves the record it read when it listed the flags (`guardrail_eval.go:74`): a switch or
  a deletion during the evaluation is undone, against `guardrail_eval.go:37` "a pure read plus a
  status write". (`FlagControl.cfg` with `PassOnlyWritesStatus`.)
- A validation overtaken by another write lets a running plan be re-aimed (`LockHolds` states
  exactly when). `experiment_plan` (`mcp/experiment_tools.go:135-249`) copies the whole experiment,
  so that a race overwrites a newer verdict or the RevertedAt mark.
- A crash between the disable and the receipt leaves no receipt; the mutation through the pointer
  survives a failed save; guardrails are silently off when the alerts store failed to open
  (`main.go:386-391`). No handler ever stops an experiment, so that the Stopped checks of the kill
  list (`killlist.go:40`) never apply.

### Alerts, connector, aliases
- LastFired is recorded after the hand-over: a crash in between fires again. An alert fires and
  cools down with no endpoint enabled. The anomaly cap is in memory only. Overlapping deliveries
  make Failures not strictly consecutive. A failed save of SetEnabled or of an automatic pause is
  not rolled back, and a restart undoes the switch (`webhook.go:433`, `458`; `OperatorDecides` says that
  nothing else does).
- The limiter is made anew at each call (`posthog.go:303-306`) and its bucket allows up to twice
  the limit in one period (`sync.go:259`). Merge never removes a bucket whose events vanished.
  `DaysExact` needs `Lateness < Overlap`.
- Add(a, u), then Add(u, v), as `$identify`, `$create_alias` and imports may send them, build a chain,
  against `alias.go:47-49` "one hop only" and `:58` "never build chains". (`Identity.cfg` with `OneHop`.)
  With a chain a -> u -> v the reports show a's events as u's and u's as v's. DeleteUser(v) takes what is
  shown as v's and leaves a's; DeleteUser(a) erases u, so that it takes events shown as v's; and where
  DeleteUser(u) failed before u was joined to v, its retry erases v's people and leaves a's events.
  `ErasureCompletes` goes by what the reports show and excuses an id joined elsewhere in between.
  Add(a, u), Add(u, a) leave a self-alias. RecordFrom runs per event before the batch is stored (`api.go:931`), so
  that a rejected batch leaves its edges; an alias added during DeleteUser is forgotten while its
  events stay.

### Reports and surfaces
- `cohort.matchSequence` sorts on time only (`cohort.go:122`), and so do the walk after an event,
  the split of visits, first touches and the first exposure of a measure: events of one instant
  are taken in the order of storage. `funnel` alone breaks the ties (`FunnelExact`).
- A visit's handle is a whole second (`session.go:143`, `174`), the cutoff of the list an instant
  (`session.go:66`). Where it falls between two events of one second, what the row opens has the earlier one
  too, against `session.go:111` "the detail's step count, duration and entry page match the row that
  opened it". (`Identity.cfg` with `RowIsDetail`.)
- A one-step unordered funnel with exclusions differs from the ordered one. A cell of the rolling
  retention grows after it is `Observable`. `ComputeBreakdownOpts` uses the value of the first
  step's event; every caller stamps first touches before it.
- The MCP tools rows_behind, errors and formula use rolling days (`mcp.go:1029`, `980`, `895`)
  where everything else uses calendar days, against `mcp.go:1640-1643`; `SurfacesAgree` states
  exactly what they add. The MCP funnel scopes to the window before it scopes the users, API and
  ask bar after. In the API a number of days wins over bounds, in the tools bounds win over days.
  The API does not reject an empty window, the tools do; the web overview of the tools has no cap
  of 365 days, their recent events none of 500; a bad limit of the people list is ignored by the API.
- The page of a person (`explore.go:221-226`, `mcp.go` `userProfile`) merges the properties of every
  event, the last one wins; the list of people (`person.go:70-75`) takes a trait from `$identify` and
  `$set` only: an ordinary event carrying plan=pro makes the page say pro and the list not. `ToolsAgree`
  compares the two where the last word on the trait is an identity event's.
- recent_events and user_activity read every environment on both surfaces. `userProfile` resolves
  ties by an unstable sort where `person.apply` keeps the first. The people behind a funnel's step
  ignore its exclusions and filters, and a window with an end only; "(none)" lists nobody.
- `web.go:170` says "a range that ends in the past has nobody live in it": one that ended less than
  five minutes ago has.
- `ask_scope.go:838` says that a visitor acquired last week is last week's; each period attributes
  within its own window. Weekly actives and stickiness of the ask bar are rolling, those of a trend
  are of calendar days. `applySegs` (`ask_scope.go:722-728`) depends on the order of the segments
  against `936-938` "narrows to the intersection": an event's property first and a visitor's
  attribute next answers zero. Retention with one event segment scopes users, with two it filters
  events. `answerPaths` answers before segments are looked at. Bounce rates are told without
  engagement events although `web.go:337` says never.
- Movements' evidence link counts calendar days and its row rolling ones; its correction for
  multiplicity is handed the significant metrics only (`investigate/movement.go:205`).

### SQL
- `NOT a AND b` parses as `NOT (a AND b)` (`parse.go:623`). `NOT IN` and `NOT (x = y)` count events
  without the property, although `eval.go` says that null compares to nothing; null matches
  `IN ('')`.
- Aggregates are keyed by `Expr.String()`, which drops the list of IN, NOT and quotes: `sum(name IN
  ('a'))` and `sum(name IN ('b'))` share an accumulator (`exec.go:97-105`). A group of null and one
  of '' are one. Rows of the MCP tool are objects keyed by alias, and equal aliases collapse. An
  aggregate under IN or IS NULL in HAVING is an error.
- The model counts an error of WHERE on an event past the limit of a projection, which the code
  never reaches.

### The desk
- A dead ship carries no fingerprint and can never be marked (`killlist.go`,
  `investigate.go:105-109`). A new day may move the split, and with it the fingerprint: the mark no
  longer applies ("same finding tomorrow").
- `dailyPoints` omits days without events (`cause.go`), so that a before-and-after skips them and a
  ship that stopped an event is not named, against `impact.go:48` "already zero-fills". The cause of
  a metric that stopped entirely reads "these events carry no properties".
- `/v1/backtest` and the tool ask without a tracking plan, so that a broken tracking is a
  regression in the replay, and a flag deleted since vanishes from it: `ReplayIsHistory` states
  exactly this. It holds for events that arrive when they happen and are not erased.
- `/v1/explain` lists ships strictly within 48 hours (`explain_api.go:76`), the sweep allows exactly 48
  (`cause.go:222`), explain_change takes days from 3 before to 4 after. A ship recorded by its date is at
  midnight, as a split is, so that the boundary is met: the run has such ships, and without its exception
  `DetectExact` fails.
- `/v1/backtest` answers from a memo for an hour (`backtest.go:76`): what arrived, shipped or was marked
  since is not in it. The model is the tool and the first call of an hour.
- The revenue window of a sweep over counts begins inside a day whose bucket Trim drops
  (`sync.go:236`): with purchases on it revenue is refused although `connector/investigate.go` says
  it is the same population. The run's lookback is longer than its history, and there
  `AggregatesAgree` holds. Made-up rows do not keep the windows of recovery and of the floor
  exactly, against the header of `synth.go`. A failed read of revenue silently gives none. Only the
  vendor's command line calls this investigation.

### The verdict
- The page passes `detectFunnel`'s steps, which fall back to the three busiest events where no
  journey is detected; whats_notable, the brief and the alerts then tell no drop-off at all, against
  `shared.go:54` "ONE JOURNEY DETECTOR". `VerdictIsTheReport` compares them where there is a journey.
- `errors_api.go` measures errors against `detectFunnel`, the MCP errors tool against
  `DetectJourney` (`mcp.go:991`): different funnels where the conventional names exist or no journey
  does.
- The brief of "We don't know what success looks like" has an empty transition, and its acceptance
  criterion is " →  conversion, 0%". A drop-off's title, by which a brief may be asked for, names
  its first step only.

## 5. Theorems

Proved with TLAPS, each for every value of the constants its assumptions allow. Every
inductive invariant was checked by TLC on small instances before it was proved. A hypothesis
is there because TLC finds the property violated without it (`Lateness < Overlap`, the warm-up,
and those that section 4 gives constants for), or because the invariant the proof rests on
fails without it: "clear" and "scrub" break `NoDanglingRef`, and the runs `SegMutate` and
`SegScan` go on checking the properties proved from it with Clear, and `SegMutate` with the scrub.

### Segment store
For every set of events, readers, windows and cutoffs, every seal threshold and every bound,
from `EventsAssumption` (events are finitely many, ids distinct, times natural numbers) and
`BoundsAssumption` (types of the other constants).

- `TypeCorrect == Spec => []TypeOK`. TypeOK alone is not inductive: `seq` stays a key only
  because a holder of the mutex made sure of the keys it needs. `TypeInv` adds `SeqRoom`:
  before a seal persists one key is left, while DeleteUser runs as many as it has slots to look at (an argument on
  the cardinality of a finite set), and no one holds the mutex of a process that is down.
  `MetaOf`'s bounds exist because a finite set of events has an earliest and a latest
  (`LeastNat`, `LatestEvent`, from the library's well-foundedness of the naturals).
- `ReferencesResolve`: without "clear" and "scrub" in `Ops`, `Spec => []NoDanglingRef`, with
  every fault, lost replies included, and any number of crashes. `RefInv` strengthens it:
  `SoundManifests` (the stored manifest, the one in memory and the one about to be persisted
  resolve and name each key once), `Retired` (no queued key is in any of the three),
  `HandedOut` (keys in memory are below `seq`, and a stopped process has none),
  `Holding` (what each step of a handler may rely on: the keys to retire are not in the
  manifest to persist, an edited slot keeps its key or has a new one). The distinctness of keys is what
  makes retiring one entry's key safe for the others; that new keys are above
  all old ones is what makes a queued deletion safe for later segments.
- `RetiredForGood`: `GarbageIsRetired`, from the same invariant.
- `SegmentsImmutable`: without lost replies, `Spec => Immutable`: a write only ever goes to a
  key the stored manifest does not name, and a deletion to retired or orphaned ones.
- `QuietScrubKeepsSegments`: `QuietScrubIsSafe`, with no hypothesis: Clear, lost replies and
  crashes included. The orphans of a check are apart from what its snapshot named
  (`OrphansApart`), and a sweep deletes no more than those and the queue.

The rest is proved without "clear" and "scrub" (which `NoDanglingRef` fails with) and, but for
`NoDoubles` and `ErasedForGood`, without lost replies (which `Immutable` fails with: an entry
then describes an object that was overwritten). Failing syncs and compactions are allowed throughout.

- `IntactSegments`: `SegmentsIntact`. `ContentInv` says that the entries of all three manifests
  are `MetaOf` their objects (`Described`), that memory and store have one manifest between
  the steps (`InStep`), and that the cached names cover hot log and segments, those about to
  be persisted included, but for what was `refused` (`NamesHeld`).
- `QueriesExact`: `ScanExact`. `ReaderSound`: what a running scan still has to read is on the
  backend and below `seq`, so that no seal and no rewrite goes to it, the count of scans keeps
  its retired keys queued, and what it wants is what it has plus what is still to be read.
- `NoFalseAlarm`: `VerifyFindsNoProblem`, also without failing Gets (an unreadable blob is what
  Verify is to report).
- `KeepsPromise`: `Spec => ImplementsEventStore`, the refinement of `EventStore`, also without failing truncations: initial states
  map to initial states and every step to a step of the promise or a stutter. `Editing` says what
  the prepared manifest is while a prune or an erasure builds it (slots in order, no more in
  any than before, those passed free of the user), `Keeping` that persisting it loses only
  what `leaving` has.
- `NoDoubles`: `OneCopy`, without retries of sealed events, and either without crashes or
  without removals, lost replies, failing Gets and failing truncations (`CrashSafe`): recovery tells that the hot log
  is the last segment by comparing counts, which a removal in between spoils. `CopyInv`: segments
  are disjoint, and the hot log is disjoint from them unless it is the last one, which is what an
  interrupted seal leaves.
- `ErasedForGood`: `ColdErasureFinal`, without crashes and retries: what an erasure has removed
  from segments is in no place an event can come from (`Places`), the half-made manifest of a
  seal included.

### Hot log (`HotLogProofs`)
For every set of events, batches and cutoffs and every bound on appends, crashes, cap and slack.
`Crashes` says whether the process may die ("process") or the machine ("power"), `Faults`
which calls may fail, `MayClear` whether Clear is called. A hypothesis below excludes what TLC
finds the property violated with.

- `TypeCorrect`: `TypeOK`, with no hypothesis, from `TypeInv`, whose `Control` says what each point of a call has
  prepared: `buf` is the new part of the batch before the write, the log without its target
  in a compaction.
- `DamageStaysLocal`: `DamageIsLocal`, with no hypothesis. `LocalInv`: what is served is on
  lines that no later append can join (whole ones, or junk that a whole record was joined to),
  and only the last line may want its newline.
- `AcknowledgedIsServed`: `AckServed`, without power cuts. `ServedInv` is about a process in which no
  call has failed yet: its log is clean and its records end with what it holds, so that the
  newest events are the resident ones, replayed or not.
- `AcknowledgedIsDurable`: `AckDurable`, without process crashes and failing writes, syncs,
  directory syncs and reopens; with power cuts anywhere, a cap and Clear. `DurableInv`: a prefix of the log
  is settled, that is, on stable storage or on the file the rename is to leave, and holds all that
  was acknowledged and all that is served. `LinesInv` makes a prefix of
  the log a prefix of the records: only the last line is not whole, and none while the process runs.
- `RestartServesTheSame`: `MemoryMatchesFile`, without a cap, Clear and failing writes and reopens.
  `MirrorInv`: the records of the log are what is served and what the append in progress has written,
  each on one line. With a cap the index is trimmed at other moments than a replay trims, a
  Clear whose truncation fails leaves the file, a short write leaves records that nobody was told of.
- `ErasedStaysGone`: `ErasedGone`, under the hypotheses of the last two. `ErasedInv`: what is
  served is the records of stable storage too, and shares nothing with what was erased; a
  rename that is not synced yet leaves the old log, so that it says this of both files.
- `KeepsPromise`: `ImplementsEventStore`, without a cap, Clear and failing writes and reopens, and
  either without power cuts or without process crashes and failing syncs. With a cap the log
  forgets what nobody asked it to; what no sync covered may be served and then lost.

The model folds over the log (`Records`, `Without`, `NotSeen`, `Indexed`). `FoldLeft` recurs on sets of
positions by CHOOSE, and the library's induction theorems cannot be instantiated here;
`LogLemmas` gets induction on numbers and sequences from the well-foundedness of the naturals,
for sets that are closed (`NumbersInduction`, `SequencesInduction`), and shows that the recursion has a
result (`FoldExists`), that it takes one element at a time (`FoldSteps`) and that it is the only one
(`FoldUnique`). Each fold then has a lemma for the empty log and one for Append.

### Aliases (`AliasesProofs`)
For every set of kinds and times, whatever ids they join, chains included, and any number of events
and failed erasures.

- `TypeCorrect`: the log holds events, the map joins ids that identity events carry to users they name.
- `ErasureTakesThePerson`: `ErasureCompletes`. `Person(id)` holds everyone shown as id is, chains or not
  (`PersonReaches`), and `OwedTogether`: the ids a failed erasure still owes resolve alike, so that the retry
  may be asked for under any of them. The mutant that forgets the aliases first breaks exactly this.
- `OnlyJoinsChain`: `HopsStayOne`. A join to an id that is joined collapses (`AddKeepsOneHop`), and an erasure
  forgets whole people (`ForgetKeepsOneHop`); what is left is a join of an id that others are joined to.
  (TLC finds it true in `Identity.cfg` too, and false of `AddChains`, the code without the collapse.)

### Flags and experiments (`FlagControlProofs`)
For every number of flags, arms, plans, requests in flight, calls and faults.
`AddressAssumption` says that there are addresses enough to load every flag at one of its own,
`NilAssumption` that nil is no value of the other types; TLC evaluates both.

- `MemoryAgrees`: `MemoryMatchesDisk`. The file may lag behind memory on one flag, that of the
  save the pass has in flight (`Unsaved`), since it writes through the pointer first. Two flags
  never share an experiment (`Apart`): the write through one would reach the other.
- `LockYieldsOnlyToRaces`: `LockHolds`. `ValidInv` says that what a caller is about to write was
  valid against the flag it looked at; a restart keeps plans and starts (`SamePlans`), even after
  failed writes.
- `RevertsAreJustified`: `RevertJustified`, if `Warmup > Period + MaxDelay` (15 minutes in the
  code, against a pass every 5). `RevertInv`: an experiment that is not excused carries its last
  verdict (`VerdictInv`); what a pass has listed or found to breach is still what the flag
  carries, or is too young to be pulled (`BreachInv`), so that an experiment put on a flag in the
  middle of a pass does not answer for the one before; a start that is still to be saved has no
  verdict (`PendingInv`); every copy of an experiment carries the age of its start (`SameAge`), and what the
  pass has found to breach is past its warm-up in all of them (`WarmInv`); marks and receipts go together (`PulledInv`, `MarkedInv`). With
  `Warmup = 3`, tick 2 and delay 1 TLC finds a violation: the pass pulls an experiment for the
  breach of one that a request replaced while it ran.

### Alerts and webhooks (`NotifyProofs`)
For every number of alerts, endpoints, attempts and deliveries in flight, with no hypothesis but
the module's. `AlertsCoolDown`: `CoolsDown`, since the stamp of an alert is never older than its
last hand-over unless a restart lost it (`Stamped`), and a pass in flight holds nothing about an
alert that is not there yet (`Unborn`). `OperatorHasLastWord`: `OperatorDecides`, since the
files may miss a stamp or a switch but never an addition or a deletion (`SameStatus`), and agree with
memory on every endpoint that is not `unsaved` (`FileFollows`).

### Vendor connector (`ConnectorProofs`)
`BehindWatermarkExact`: `DaysExact`, for every window, chunk, overlap and number of days, if
`Lateness < Overlap`. `ExactInv`: memory and file are exact up to their watermark less the
overlap, a running sync up to its next chunk or the days the overlap of the next will read again.

### Sidecar stores (`SidecarProofs`)
For every number of keys, boards, names and texts, with a process that runs never being `Down`
and a file that parses never `Torn` (`NilAssumption`).

- `SaidIsSaved`: `ToldTrue`. What a process holds is what the file holds, but for what it could not
  write and what the other wrote since (`MemFile`); what was said last is what a process holds, if it has
  seen the last word (`MemTrue`). These two are needed because a successful write carries along
  every other key of the process. `Mark` says "marked" without writing when it finds a mark, which is
  true because a mark, once there, is in the file unless overwritten (`Marks`).
- `ReportsHaveBoards`: `BoardsHold`. Every process holds good boards (`BoardsInv`); a file may be one
  from before there were boards, of which nothing has been said yet, until somebody writes it.

A call is looked at once (`Means`: what it says of its keys, the others as they were), and each
of the three ways it can end once (`SavedKeeps`, `FailsKeeps`, `EndsKeeps`).

### Only model-checked
The reports and the desk: `FunnelExact`, `ReportsAgree`, `TimeDecides` of `Identity`, `ToolsAgree`,
`SqlAgrees`, and the properties of `Desk`. They say what recursive definitions and folds compute
from every log, over operators that tlapm does not read (nested parameters in `Reports`, RECURSIVE
in `Sql`). `SegEraseRace` and `PassOnlyWritesStatus` are the violations and races the theorems
exclude. Type invariants but that of `SegmentStore` are proved and are in no run. Out of the prover's
reach: liveness under fairness and ENABLED (`HurtingIsPulled`, `KeepsTelling`, `BrokenIsPaused`,
`CatchesUp`).

## 6. Not modelled, and the plan

Not modelled: statistics in floating point (power, CUPED, intervals, percentiles of numbers),
hashing into variants and layers, recognising and wording questions, rendering, formats of imports
and webhooks, authentication and limits of requests, the demo generator, geo tables, S3 signing, the
test runner under `cli/`. They compute without state or word what was computed. They are the
larger part of the lines the map does not cover; the other is the wording inside functions whose
counting is modelled. `PROJECT.json` lists each part with its reason.

Left out inside modelled parts:
- `Surfaces`, `Answers`, `Tools`: defaults of days, the cohort parameter, refusals of unknown
  properties, nested formulas, averages, which rows are cut and how they are ordered, the custom
  fallback of the web answer, engagement, the split of referrers;
- `Reports`: bucket ids of a measure, step counts above one and first-time steps of a sequence;
  what the sampler writes is assumed dropped;
- `Insight`: the four detectors over the sampler's own events (readability, crawlers, visibility,
  citations), hosts of referrers, the wording of day 7, the pages of a brief, the order of impacts;
- `Desk`: the sentences, receipts of tracking repairs, alerts among the watches. Ties are judged
  exactly where the code compares floats;
- `Sidecar`: MoveAllInsights, which no handler calls, stores that are replaced whole, the audit log;
- `Connector`: the limiter and the vendor's query language.

Planned:
1. Proofs: the hot log behind a cap, with the index as a suffix of the records in place of all of
   them; the refinement of the file store by the segment store's hot tier, which is abstract there.
2. `Shutdown`: the drain of the HTTP server, the loops and the final seal over `SegmentStore`.
3. A second process on the event log, and the limiter (`sync.go:278`) as arithmetic on bounded time.
