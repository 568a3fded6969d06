# WatchMend: specifications, model checking and proofs

WatchMend (package `sentinel`, under `src/src/sentinel/`) watches services,
hosts and vendor status pages and tells its users about incidents through chat
and push channels.  It is one Python process with one asyncio event loop and one
SQLite file.  This directory holds TLA+ specifications of its core logic, the
TLC configurations that check them on small instances, and TLAPS proofs of the
properties that matter most.

Paths without `src/` are relative to `src/src/sentinel/`.

## 1. Inventory

### The process

`app.lifespan` opens the store, builds the jobs (`build_jobs`) and starts one
task per job.  `_job_loop` runs a tick, logs any exception, sleeps, and starts
over.  A task keeps the event loop from one `await` to the next, so two jobs
interleave only where they wait: HTTP calls and broadcasts.  The store is
synchronous; every method of it that writes ends in a commit, so a crash can
fall between any two of them.  What lives in the process and is gone after a
restart: failure counters (`scan_fails`, `PollState`), pending Codex hook
notifications, the last card time of a vendor.  Beside the process there are
clients (`codex_notify.py` on a workstation, `host/diag_orchestrator.py` under
cron), people who edit `llm.yaml`, and, for the reset monitor, perhaps another
process with the same store: it alone guards itself with a lease.

### Components

| component | code | state | operations | modelled in |
|---|---|---|---|---|
| patrol event engine | `engine.py`, `store.py` (events) | table `events`: open rows, cooldowns | `apply_findings` | `EventEngine`, `Incidents` |
| patrol ticks and scans | `app.py` ticks, `scan_*.py`, `probe*.py` | `scan_fails`, restart baselines, probe samples | one tick per job | `PatrolJobs`, `OomHandover`, `CrashLoop`, `ProbeRules`, `ErrorScan` |
| daily report, digest | `report.py`, `store.py` (digest) | `digest_items`, date gates, `probe_daily` | `run_daily_report`, `run_evening_digest` | `DigestReport` |
| vendor status poller | `poller.py`, `differ.py`, `status_editor.py` | table `snapshots`, `PollState` | `run_cycle`, `run_heartbeat` | `Differ`, `StatusPoller` |
| adapters of status pages | `adapters/`, `fetcher.py` | none | answer to snapshot | `StatusPages` |
| broadcaster and channels | `notify/`, `feishu/client.py` | throttle of a client | `Broadcaster.send` | `Channels` |
| Codex hooks | `codex_hooks.py`, `codex_notify.py`, `api.py` | pending candidates, receipts, events seen | `ingest`, `dispatch_due`, two routes | `CodexHooks`, `TurnDelivery` |
| Codex reset monitor | `codex_reset/` | its own tables: lease, evidence, events, deliveries, balances, answers of models, health of sources | `ResetMonitor.tick` | `ResetStore`, `ResetPosts`, `ResetMonitor`, `BankedBalance`, `ResetFallback`, `ModelCache` |
| diagnosis | `app.diag_tick`, `llm_config.py`, `api.post_diagnosis`, `host/diag_orchestrator.py` | `diagnosis_status`, the registry read from `llm.yaml` | two drivers | `LlmConfig`, `Diagnosis` |
| message builders, panel, data source clients, configuration, other host scripts | `notify/build.py`, `feishu/cards.py`, `panel/`, `docker_client.py`, `promql.py`, `logql.py`, `config.py`, `host/` | none of their own | rendering, single HTTP calls | not modelled (section 7) |

### How they interact

Every part that tells something does so through `Broadcaster.send`, waits, and
acts on the number that comes back: `Channels` says what the number means, and
in all other modules a broadcast is two steps, its start and its outcome.  The
patrol ticks share the event machine and, through it, `digest_items` with the
reports; diagnosis reads what the event machine wrote; metrics and docker patrol
share one flag.  The reset monitor, the vendor poller and the Codex hooks share
only the loop and the channels with the rest.

### What is hard, and what correctness means

* **Send, then commit.**  Alerts are broadcast first and stored after at least
  one channel took them.  Lost broadcasts, failing commits and crashes decide
  whether an incident is told once, twice or never (`EventEngine`,
  `StatusPoller`, `CodexHooks`, `TurnDelivery`, `ResetMonitor`, `DigestReport`).
* **State read before an await and used after it**: the open events of a cycle,
  its cooldowns and its `now_ts` (`EventEngine`); the outcome of the last metrics
  scan (`OomHandover`); digest items of a message under way (`DigestReport`); the
  list of due candidates (`CodexHooks`); the text a model is asked about
  (`ModelCache`); the time of the last request (`Channels`).
* **Not evaluated is not recovered.**  A failing source, a subject that is not
  visible, a check switched off, too few samples and a restart must not look like
  a recovery (`PatrolJobs`, `ProbeRules`), nor like a change of a counter
  (`CrashLoop`, `BankedBalance`).
* **Blindness is an incident too** (`PatrolJobs`); nobody in charge during a
  hand-over is blindness nobody reports (`OomHandover`).
* **Held, lost and suppressed cards.**  A vendor card may be held back, lost, or
  suppressed by a language model, while the page goes on changing (`StatusPoller`).
* **Evidence in any order, from sites that copy each other**, filed and moved by
  processes that outlive their lease and read a row some steps before they write
  it: a repeated post is no second witness, and stages must only advance (`ResetStore`, `ResetMonitor`).
* **Everything is retried**: clients, messages, diagnoses, sources.  A retry must
  neither double nor end too soon nor run away (`TurnDelivery`, `Diagnosis`,
  `ModelCache`, `ResetFallback`).

The full list of hazards, each with its line and its properties, is in
`PROJECT.json`.

## 2. Plan

The order is that of importance: first what every alert goes through, then what
feeds it, then the notifiers with a state of their own, then the detectors.

1. `EventEngine`, `Incidents`.  *Done.*
2. `PatrolJobs`, the ticks as callers of the event machine; `OomHandover`.  *Done.*
3. `DigestReport`.  *Done.*
4. `Differ`, `StatusPages`, `StatusPoller`.  *Done.*
5. `CodexHooks`, `TurnDelivery`.  *Done.*
6. The reset monitor: `ResetStore`, `ResetPosts`, `ResetMonitor`,
   `BankedBalance`, `ResetFallback`, `ModelCache`.  *Done.*
7. `LlmConfig`, `Diagnosis`; the detectors `CrashLoop`, `ProbeRules`,
   `ErrorScan`; `Channels`; `Parts`, which composes them.  *Done.*

8. Theorems: every safety invariant and action property a run checks.  *Done.*

Left to do:

* Instances: sources of the reset monitor that answer separately.
* Code: `run_heartbeat`, the limit of 20 due deliveries, the two identical
  readings the subprocess of the reference account demands.
* Theorems: what the notifiers have in common (a message is told once, but for a
  mark a kill has taken) as an abstract specification that the deliveries of
  `ResetMonitor`, `CodexHooks` and `TurnDelivery` implement.

## 3. Modules

### EventEngine and Incidents

`apply_findings` and the rows it works on.  `rows` is the set of open rows of
`events`; of the resolved ones only `MAX(cooldown_until)` per key matters, kept
as `due` relative to the clock, so that time needs no bound.  `digest` is the
unsent item of a key.  The locals of a call are functions of the job: `todo`
(the findings left), `snap` (`open_by_key`), `firing`, `held` (`hold`),
`admitted`, and `lag` (the clock minus `now_ts`).

`loop` holds the job that runs; it is `NoJob` while every job waits.  An action is
what the code does up to the next await or commit:

| action | code |
|---|---|
| `Begin`, `Cycle` | the call and line 40 |
| `Skip` | the early `continue`s of lines 47-56 |
| `SendAlert`, `AlertDelivered`, `AlertLost` | lines 57-62 |
| `Enqueue` | lines 63-64 |
| `Insert`, `InsertFails` | lines 66-82 |
| `FindingsDone`, `SendRecovery`, `RecoveryDelivered`, `RecoveryLost`, `DeferRecovery`, `Resolve`, `Done` | lines 95-107 |
| `Raise` | a store exception outside the `try`: it leaves `apply_findings` and ends in `_job_loop` |
| `Crash`, `Tick`, `DigestSent` | process, clock, report jobs |

`Cycle(j)` lets a job pass any findings of its own rules: that is the contract in
the docstring (scopes of rule families are disjoint, one serial loop each), and
`PatrolJobs` shows that the ticks keep to it.  Two history variables, `view` and
`torn`, say what recipients were last told and which keys had a recovery told
but not recorded.  `Incidents` is what the recipients are promised: announced
before open, recovery announced before closed.  `ImplementsIncidents` is the
refinement with `open <- keys of rows`.

### PatrolJobs

Extends `EventEngine` with the ticks: `ScanOk`, `ScanError` (metrics, logs,
docker: one counter each), `ScanBreaks` (docker: the store fails after the scan,
with the scope already set: in the crash-loop detection, the holds made, or where
the open events to hold are read, the holds lost), `ScanPieces` (hygiene: rule by
rule), `Restart` (counters gone, optional rules perhaps reconfigured).  `World` changes what the
scans look at: conditions (`bad`), data sources (`up`), subjects (`visible`).
The history variable `seen` records what the last successful scan of a key's rule
found: in order, violated, or "gone", a subject it did not list and does not hold.
`NotScannedIsNotRecovered` asks for such a word before an event closes; it does
not ask that a subject was listed, because the metrics and log ticks hold nothing
and a docker tick may lose its holds (section 6).  The run has docker, which holds,
with and without that failure, and hygiene; the theorem `ClosedByAScan` is for any
`Holding`, the empty one of the metrics and log ticks included.  Thresholds on
measured values are inside `bad`.

### DigestReport

`run_daily_report` and `run_evening_digest` as two jobs over `digest_items`, the
gates and `probe_daily`, with `Observe` for what the engine writes meanwhile.
`upto` is the last observation merged into an item; `told` holds the items of the
messages delivered, each with its id, so a second item of a subject is not taken
for told because a first one was.  Dates are used in turn, a new one taking the
place of the oldest.

### Differ, StatusPages and StatusPoller

`Differ` is `diff` as an operator on two snapshots: the unresolved incidents by
key, the components by key, the indicator.  An event is its type and whether
`_is_urgent` sees it as urgent.  `StatusPages` is what the two adapters make of an
answer: which words a status, phase, impact or indicator becomes, which components
are skipped, which update is the latest; the pages of the runs are built with it.
`StatusPoller` is `run_cycle` over the table `snapshots`: `FetchFails`,
`WarningDelivered` and `WarningLost` are the branch of a failed fetch; `Hold` is
the minimum gap; `Take` chooses between storing, asking the editor and sending;
`Answer` and `Suppress` are what the editor may say (any answer); `Put` and
`Raise` are the commit.  `page` and `up` are the world, and `told`, `muted` and
`torn` are history: the snapshot of the last card, whether news was suppressed
since, whether a card was sent whose snapshot was lost.

### CodexHooks and TurnDelivery

`CodexHooks`: each kind of hook event is an action of `Ingest` (it queues a
candidate, or cancels candidates of its turn or session), and `Dispatch` is
`dispatch_due`: `StartDispatch` reads the list of those due, then each is looked
at and skipped, or sent, and the outcome (`Delivered`, `Retried`) comes when the
channels have answered.  Hook events are handled at any of these waits.
`LookupFails` and `RecordFails` are the two store calls that may raise; `Restart`
forgets the candidates and the ids seen.  `overtaken`, `told` and `unrecorded`
are history.  The order within the list of due candidates is abstracted, and days
pass only while nothing waits.

`TurnDelivery` is the other route: a client that posts a finished turn and tries
again (`NotAnswered`), the handler of each attempt (`Accepted`, `Sent`,
`AllChannelsFail`, `Recorded`), which goes on when its client has given up, and
restarts of the server between a delivery and its receipt.  All attempts of a
turn are taken to fall within a day.

### The reset monitor

* `ResetPosts`: the parsers, from an entry of a source to an item of evidence; what
  a text says is a set of marks, one for an expression looked for (the mark
  "reset" stands for each parser's own).  The reading of the reference account, with
  the two readings it takes, is `AccountReading`.
* `ResetStore`: the pure decisions over the tables: `Targets` (the five queries that
  find the event an item belongs to), `Classify` (the stage the filed evidence
  supports), `Rows` (the merge of an event row), `CanAdvance`.
* `ResetMonitor`: `tick` in processes that share the store.  `Acquire` takes the
  lease, `Fetched` reads the sources; `Aim` finds the event of an item and
  `PutEvidence` files it; `Judge` reads what is filed under an event, `Look` its
  row, `Store` writes it, from what was read then (an UPDATE without a look at the
  stage there is now, or the INSERT), `Weigh` reads it again and `Queue` queues one
  message; `LookLate` and `MarkDelayed` are the two statements of `mark_delayed`;
  `ListDue`, `Delivered`, `AllFailed` and `Finish` follow the code to its end.
  What a tick has read and not used yet is in its `hand`.  Every commit is a step
  and so is every query a later statement rests on; `Kill` may come between any
  two, also between a message sent and its mark, and `Close` is a shutdown in
  order.  `Clash` is the INSERT of a row the other process made meanwhile: the
  exception ends the tick, its transaction stays open (`stuck`), every write of
  the other process then fails (`Fails`), and so does the `BEGIN` of the next tick
  of this one, until it is restarted.  A new process has a new owner name, as in
  the code.  Time runs from 1 and stays at `MaxTime`, each process ticks once
  between two steps of the clock, and a lease that runs out under its tick counts
  as a fault (`Lapses`).  `lapsed`, `filed`, `reached`, `torn`, `told`, `again` and
  `unmarked` are history; the last three are kept until a lease lapses.
* `BankedBalance`: `observe_banked_balance` for an account whose resets are granted,
  used and expire between readings; the increase is in the memory of the tick
  until it is filed.
* `ResetFallback`: the first half of `tick` for the page of last resort: whether it
  is asked, and the row of its health, which spaces the requests.
* `ModelCache`: the two tables with answers of a model and the waits after a failure.
  The text of a post is that fetched at the start of the tick, so two ticks that
  overlap may have different ones.

### LlmConfig and Diagnosis

`LlmConfig` is the registry: the file with its modification time, the last good
registry, the environment.  The file may be written, moved away and moved back any
number of times; `unread` is history, a file gone between the look at its time and
the reading.  `Diagnosis` extends it with the two drivers.
`driver` is "container" (`diag_tick`, registered when the process starts with a
model) or "host" (`diag_orchestrator`, under a lock file); the documentation has
either, not both (`.env.example:163`).  Each await is a step of `job` or of a run:
the registry is read again for the active and for the fallback profile, so a tick
may take one of each.  A diagnosis is the number of the call that made it.  A run
goes on right after its post, which covers the timeout of a post that succeeded.

### Detectors

* `CrashLoop`: `detect_crashloops` for one container whose count rises, falls (a new
  container) or is not listed; the baseline row with the age of its window.
* `ProbeRules`: the samples of an hour, the streak, the percentile against the
  baseline, and what is found and held.
* `ErrorScan`: fingerprints of critical lines and a crowd of others under the cap of
  a cycle, with a scan window that overlaps the last.  The query
  answers at most `QueryLimit` lines, the newest first, so `newer` counts what was
  logged on top of a critical line (`OtherLogged` is any other line the query
  matches), and `fate` says whether a scan dealt with the line or passed it over.
  The model assumes that a round of the job takes no longer than the window reaches
  back (`ErrorAssumption`).
* `OomHandover`: the clockwork of `metrics_tick` and `docker_tick` for one OOM kill,
  in half minutes: two intervals, two windows, two scans that take time, the outcome
  of the metrics scan set when it ends (`MetricsScan`), the flag `emit_oom` computed
  before the docker scan is awaited.  `HandoverAssumption` says how far the windows
  must reach; the shipped defaults meet it.

### Channels

Two tasks that send at a time, each with a leg for each channel: when the request
to feishu goes out (`_last_sent` is read before a sleep and written after it),
what is answered, what the channel takes that for, and the number that is
returned.  Shadow mode and the prefix of a title are left out.

### Parts

The modules of the last two sections, `TurnDelivery`, `BankedBalance`,
`ResetFallback` and `ModelCache` share no state with each other.  `Parts`
composes them: a behaviour follows one (`followed`) and the others rest.  This is
no statement about their interaction, of which there is none in the code; it lets
one run check each of them completely.

## 4. Runs

| run | instance | shows |
|---|---|---|
| `EngineJobs` | 2 jobs with a state rule each (one immediate, one of either urgency), 2 findings a cycle, repeated or not, cooldown 2, lag 1, crashes at any point | `AtMostOneOpen`, `NotMisled`, `CooldownRespected`, the refinement `ImplementsIncidents` |
| `PatrolSafety` | docker (counted, fragile, its container may be out of sight) beside hygiene (piecewise, one optional check), threshold 2, restarts at any point | `NotScannedIsNotRecovered` |
| `PatrolLiveness` | docker, no crashes, fairness | `OutageReported`, `RecoveryReported`, `BlindnessReported`; the ticks are legal calls of the engine (`UsesEngineAsSpecified`) |
| `Digest` | 2 keys, one critical with 2 observations, one that waits behind it, one item a message, 2 dates, crashes at any point, fairness | `SentIsTold`, `OncePerDate`, `BaselineComplete`, `ItemsAreSent` |
| `Poller` | 1 vendor with 9 pages (cosmetic indicators, a component that sinks and improves in steps, an incident of either impact), gate mode, gap 2, threshold 2, crashes | `ToldIsCurrent` |
| `PollerLiveness` | 2 vendors in a fixed order, one with two pages, the other of Google's form, both failing now and then, no crashes, fairness | `PageIsTold`, `FailureIsTold` |
| `Hooks` | one session: an approval, its answers, a stop, the end, repeated and in any order; grace, long turn and backoff of a tick; a restart or a failing store call; a day | `AnsweredIsNotSent`, `NotToldTwice`, `CandidateSettles` |
| `Reset` | two processes; an announcement, two sites that repeat one post about its arrival, a window of the reference account; a lease of 1, ticks of up to 1, two attempts, one kill or lease that runs out under its tick | `OnePostIsNotEnough`, `ToldOnce`, `StagesOnlyAdvance`, `StageIsSettled` |
| `Parts` | one of ten parts, with the bounds below | see the next table |

| part | instance | properties |
|---|---|---|
| crash loop | threshold 2, window of 2.5 intervals, baseline kept for 4, up to 7 restarts | `LoopIsReal`, `LoopIsReported` |
| banked balance | 2 confirmations, balance up to 2, 3 grants | `CreditedOnce`, `BalanceIsStored` |
| probe | an hour of 4 samples, streak 3, 2 needed, latencies on either side of the limit | `RecoveryIsSeen` |
| error scan | 2 critical fingerprints, a cap of 1, a crowd of 2, a query of 2 lines, window of two intervals | `NoLineSlips` |
| OOM hand-over | the defaults: metrics 15 min, docker 1 min; scans of up to 30 s, 1 restart | `KillIsReported` |
| diagnosis | 3 events, 2 a tick, 1 attempt, 2 runs of the host, any number of edits of the file, 1 fault | `CardIsStored`, `CallsAreBounded`, `EventsAreSettled` |
| finished turns | 2 turns, 1 retry, 1 kill, receipts kept for the day | `DeliveredOnce`, `AnswerIsTrue` |
| answers of models | 2 processes, 2 texts of a post and of a summary, 2 failures, a lease of 1, ticks up to 1 late | `AnswerIsOfText`, `AskedOnce` |
| last resort | 2 processes, interval 4, lease 1, ticks of up to 2 | `FallbackIsRare` |
| broadcaster | 2 sends at a time, no channel or two of four, gap 2 | `CountIsTrue`, `PostsAreSpaced` |

`HardAlert`, `DigestLost` and `EditorGate` expect a violation; they are the
findings of section 6.  Every module defines its type invariant; the proofs of
section 5 include it, or the part of it they use.

**Why these bounds are enough.**  Keys of different jobs meet only through `loop`
and row ids, so two jobs with a key each show every interleaving of two cycles;
two findings a cycle show a repeated key and a pair of distinct ones, which is
all the loop distinguishes; one unit of lag and a cooldown of two units show a
cooldown that ends during, before and after a cycle.  Two row ids let both keys
be open.  Crashes are not bounded where a run allows them (`MayCrash`); in `Hooks`,
`Reset` and `Parts` they are (`MaxFaults`, `MaxKills`), and one is enough where a
property excuses each separately.  The threshold of 2 stands for any: below, at,
above.  Two dates are enough for a gate that only asks whether the stored date is
today's.  Vendors share nothing but the order of the cycle, so one vendor shows
the safety of all, and two show that one cannot keep the other from its turn; the
nine pages contain, for each branch of `diff`, a pair that takes it and a pair
that does not.  Two processes are the least that can overlap, and a third would
meet the same tables.  In `Reset` the four posts are what it takes to reach each
stage, with the two ways a repeated post could pass for two (a copy by another
site, a move to another event); the sources asked first answer together or not at
all, because separate answers take the run beyond a million states.  A tick
there may take as long as its lease, so that the other process takes over under
it, at any step but in the last unit of time; one such lapse or one kill a
behaviour, as each of the properties excuses, or survives, each by itself.  In
`Digest` a message holds one item, so the item of the second key waits as soon as
the critical one is there, which comes back once.  In `ErrorScan` the crowd is
larger than the cap, so any order that does not put critical lines first drops
one, and two newer lines are enough to bury one.  One attempt at a diagnosis is
enough for `EventsAreSettled`, whose question is the file, and the bound of
`CallsAreBounded` is proved for any number.

**Fairness.**  `_job_loop` never ends and its sleeps are finite: weak fairness of
`Scan(j)` and of the steps of a cycle, and strong fairness of the clock (it runs
only while jobs wait).  That a broadcast or store call tried again and again
succeeds in the end (strong fairness of `AlertDelivered`, `Insert` and so on) is
an assumption on the channels and the disk, needed because the code retries for
ever and gives up nothing.  In `DigestReport` only the report is assumed to get
through; the digest need not.  Crashes are switched off in `PatrolLiveness` and
`PollerLiveness`: a process that crashes for ever reports nothing.  In
`StatusPoller` a warning, a card and a commit tried again and again for one
vendor succeed in the end.  `Hooks`, `Reset` and `Parts` assume no success: their
code gives up after a number of attempts, so weak fairness of the jobs
(`Dispatch`, `Work(p)`, the reading of the balance, the steps of `diag_tick` and
of the runs cron starts) and of the clock is enough.  A wait ends because every
HTTP call has a timeout.

Deadlock is checked in every run but `Parts`: there the clients of turns end, and
a part with a bounded number of faults and edits may be through.

## 5. Proofs

Eight modules hold theorems, for every value of the constants their assumptions
allow.  Between them they state every invariant and every action property the
passing runs check but `ToldIsCurrent`, and the refinement; TLC shows on a small
instance what they say of all.  What they are about:

| module | about | theorems that state a property of a run |
|---|---|---|
| `EventEngineProofs` | `EventEngine`, `PatrolJobs` | `OneOpenEvent`, `MisledOnlyWhenTorn`, `CooldownHolds`, `Refinement`, `TicksUseEngine`, `ClosedByAScan` |
| `DigestReportProofs` | `DigestReport` | `DatesAreToldOnce`, `BaselinesAreComplete`, `SentItemsAreTold` |
| `StatusPollerProofs` | `StatusPoller`, `Differ`, `StatusPages` | (`StoredIsKnown`, of any pages, where the run has `ToldIsCurrent`) |
| `CodexHooksProofs` | `CodexHooks` | `AnsweredAreNotSent`, `EventsAreToldOnce` |
| `ResetMonitorProofs` | `ResetMonitor`, `ResetStore`, `ResetPosts` | `StagesAdvance`, `ConfirmationsAreFounded`, `StagesAreToldOnce` |
| `DetectorProofs` | `CrashLoop`, `BankedBalance`, `ProbeRules`, `ErrorScan`, `OomHandover` | those of `PartsProofs` cite it |
| `ModelCallsProofs` | `ModelCache`, `Diagnosis` | those of `PartsProofs` cite it |
| `PartsProofs` | `Channels`, `ResetFallback`, `TurnDelivery`, `Parts` | `LoopsAreReal`, `LoopsAreReported`, `ResetsAreCreditedOnce`, `RecoveriesAreSeen`, `NoLinesSlip`, `OomKillsAreReported`, `CardsAreTrue`, `CallsStayBounded`, `TurnsAreDeliveredOnce`, `TurnAnswersAreTrue`, `CachedAnswersAreTrue`, `TextsAreAskedOnce`, `PageIsAskedRarely`, `CountsAreTrue`, `PostsKeepTheirGap` |

No theorem has a hypothesis beside the assumptions of its module.  Those on the
parameters that a configuration need not meet are two, of `Parts` and so of its
theorems: `ErrorAssumption` (the error window reaches over an interval and its
drift) and `HandoverAssumption` (the OOM windows reach over a round and what
restarts cost); the shipped defaults meet both.  What the code does not rule out
is in the properties instead, as a history the reader can see: `lapsed`, `handed`,
`fate`, `torn`, `unmarked`, `unread`.

### The event engine and its ticks

`TypeCorrect`, `OneOpenEvent`, `NoStaleRecovery`, `AlertsAreNew`,
`NothingOpenUntold`, `MisledOnlyWhenTorn`, `CooldownHolds` and `Refinement` are
about `Spec` of `EventEngine`.  None of them is inductive.  The argument runs
through four invariants:

* `TypeInv`: `TypeOK` and what the program counter implies for the locals (a job
  at "alerting" or "inserting" has a finding at hand, an idle one has none).
* `EngineInv`: at most one job holds the loop and the others stand at an await;
  snapshot rows, findings and held keys of a cycle belong to rules the job owns,
  so no other job touches them; every open row of a key in scope that is not in
  the snapshot has its key in `firing`.  This last part carries the absence of
  duplicates across the await: a key reaches "inserting" only if it was not open
  at the snapshot, and no one else can have opened it.
* `ToldInv`: what `view` says at each program counter, for rows and for findings
  between delivery and insert; `NotMisled` and `OpenIsTold` follow.
* `CoolInv`: between the cooldown check and the insert, `due + lag <= 0` for the
  finding at hand, because the clock moves `due` down and `lag` up together.

The refinement uses `AtMostOneOpen` (a `Resolve` closes the only row of its key)
and `ToldInv` (an `Insert` follows an announcement).

`TicksUseEngine` says that every step of `PatrolJobs` is a step of the engine: the
findings a tick passes are of its own rules, in its scope and no more than
`MaxFindings`.  So all of the above holds of the ticks.  `ClosedByAScan` is
proved with it: `Judged` ties the scope, the findings and the holds of a cycle
under way to what the history `seen` says of each key in scope, and `seen` of a key
can only be changed by the job that owns it, which is in that cycle.

### Digest and reports

`DigestInv` is mostly about how far the job of a date has come
(`SendingIsFirst`, `ToldIsGated`, `OldIsUngated`): what one commit promises must
still be true when the next is made, perhaps on the next day, or the date is in
`torn`.  `MarkedIsTold` is what `SentIsTold` needs: what a job is about to mark was
in the message it has delivered.  `SubjectsHaveOneItem` states `OneItemPerKey`, which is
inductive and part of `DigestInv`.

### The status poller

`ToldIsCurrent` compares the last card with the stored snapshot, which may be many
commits apart, while each commit only compares two neighbours; differences without
events compose if no component joins or leaves a page and no incident changes its
impact.  The code does not promise that of a page, so `ToldIsCurrent` stays with
TLC, for the pages of `MCStatusPoller`, where the assumption stands
(`SteadyPages`).  `StoredIsKnown` says what holds of any pages: from the last card
to the stored snapshot leads a chain of commits (`Chain`), each of which stored a
difference that is no news or, in gate mode, news that is not urgent and that the
editor suppressed (`Quiet`).  A chain is a function on 0..n, and the proof puts one
more commit at its end.  `ToldInv` is that, with what a turn
knows before its commit: `NewsAtHand` (a card is about some news) and
`NewsIsQuiet` (what is stored without a card is a quiet commit).  `PollerTypes`
gives the types.

`StatuspageIsSnapshot` and `GoogleIsSnapshot` discharge what this assumes of a
page: whatever words an answer holds, its snapshot is in `Snapshot`.
`GoogleUpdatesAreNoNews` says what nobody wrote down: an incident of Google is
always "investigating", so with the verbosity "phase" only its beginning and its
end are ever news.

### The Codex hooks

`HooksInv` has three parts.  `NamedSo`: a candidate carries a category its hook may
ask for, wherever it is kept, so a cancellation by category finds the same
candidates in `_pending`, `_inflight` and the list of the job.  `AnsweredStays`:
what was answered is not pending, nor both under way and in flight, so a failed
delivery does not queue it again.  `ReceiptsAgree`: a receipt has the age of the
delivery it is of, and what is under way has none.  `HooksAreTyped` is by itself.

### The reset monitor

* `MonitorIsTyped`: `TypeInv`, for processes that overlap as they like: what a tick
  has in hand is what its step expects, and no wait is longer than the longest.
* `StagesAdvance` and `StagesAreToldOnce` are about behaviours in which no lease has
  run out under its tick (`lapsed`); how long a tick takes is free.  Both rest on
  `LeaseInv`: until then whoever is in a tick owns the lease (`LeaseHeld`), so the
  row it has seen is the row there is (`SeenIsCurrent`), and a write can only
  advance its stage.  `MessageInv` adds `Listed` (what is on the list of a tick is
  pending) and `Marked` (what was told and is not excused is marked delivered).
* `ConfirmationsAreFounded` needs no lease: `Founded` says of each confirmed event
  that something filed under it, now or earlier, is enough, and `Worthy` the same
  of what a tick has judged and not stored yet.  They are inductive with `Backed`
  (what is on file was filed there) and `FiledFinite` (of an infinite set the
  cardinality of two sites means nothing).
* `SemanticsOnlyHint`: the reading of a model never changes what other evidence
  supports.  `ParsersMakeItems`: what each parser makes satisfies `IsItem`, which
  `MonitorAssumption` asks of the items.

### The parts

Each has an inductive invariant over its own initial states and steps; `PartsStep`
shows that a step of `Parts` is a step of the part or leaves it alone, and the
theorems about `Spec` of `Parts` follow.

* `CrashInv`: the window of a baseline began in the run of restarts at hand, which is
  not long by then, or is older and ends in it.
* `BankedInv`: what a candidate or a gain stands for has been granted and not
  credited yet (`GainIsGranted`).
* `ProbeInv`: a latency event is open only beside a baseline to judge it by.
  `RecoveryIsSeen` is then a property of the step, by `ClosedHasRecovered`.
* `ErrorInv`: a critical line that no scan dealt with or passed over was logged after
  the last scan (`NewIsRecent`): the critical fingerprints come before the crowd, so
  one in the answer of the query is told of, or the cap is full of them.
* `OomInv`: a kill neither reported nor handed over is younger than what either patrol
  still reaches, counted from where both clocks stand (`UnheardIsInTime`), and the
  flag is the outcome of the last metrics scan (`OutcomeIsKnown`).
* `DiagnosisInv`: an event in hand is pending, and in one pair of hands; the cards
  say what is stored; `Within` bounds the calls by the faults that hit the event and
  by where it stands, since a call is counted before its result is stored.
* `CacheInv`: `RowIsOfText` (a stored answer is about the stored text), `SettledIsKept`
  (a text answered undisturbed is answered still, or is not the text any more) and
  `TicksAreFresh` (a tick no other crossed knows the latest text).  No age and no
  wait enters: the lease may be as short as one likes.
* `FallbackInv`: the last request for the page is under way, or killed, or the row of
  the source is at most the length of a tick younger than it.  The lease is no part
  of the argument.
* `TurnInv`: each message of a turn that reached or may reach a channel is the first,
  one of an overlapping attempt, or one a restart kept from its receipt
  (`FitsNow`), which makes the counting in `DeliveredOnce` come out.
* `ChannelsInv`: a leg is "ok" exactly if its channel took the message and was heard
  (`LegIsTrue`), and none is at work when a number is returned (`NoLegIsLeft`).
  `SpacingInv`: a sleeping leg sleeps long enough for the gap, or was passed.

### What stays with TLC

`ToldIsCurrent`, and the liveness properties: `OutageReported`, `RecoveryReported`, `BlindnessReported`,
`ItemsAreSent`, `PageIsTold`, `FailureIsTold`, `CandidateSettles`, `StageIsSettled`,
`BalanceIsStored`, `EventsAreSettled`.  The latter rest on fairness and ENABLED, which are
out of the prover's reach.

The prover knows nothing of powers: that `2^n` is a number for the few `n` of a
retry delay is part of `MonitorAssumption` and `HooksAssumption`, where TLC
evaluates it.

## 6. Findings

| run | what the run shows |
|---|---|
| `HardAlert` | a deferred `container_restart` starts the cooldown that swallows the hard OOM alert of the same container for six hours, against `notification_policy.py:5` |
| `DigestLost` | an observation merged while the message holding its item is under way is marked sent unseen, against `store.py:461` |
| `EditorGate` | on a cold start the only event is the baseline, which is never urgent: in gate mode the editor may suppress it although the page lists a major incident, against src/README.en.md:13-14 |

More that the models make explicit, without a run of its own.

Where code and documentation differ:

* `routing.py:85`: `_classify_codex_reset` tests for the stage "forecast", as its
  docstring (`routing.py:78-82`) and src/tests/test_notify_routing.py:179-188 do, but the
  stages are hint, announced, delayed and confirmed (`codex_reset/models.py:7-11`):
  the announcement of a reset is rated P2 instead of P1.
* `metrics_tick` and `logs_tick` hold nothing: a container whose series is missing
  from a successful scan is reported recovered.  In `docker_tick` the scope is put
  (`app.py:433`) before the open events to hold are read (434); if that raises, the
  events of containers not listed are closed too.  src/README.md:244-245 has
  "not evaluated is not recovered" of sources that fail or are switched off, which
  `NotScannedIsNotRecovered` shows; of a subject that is not listed it does not hold
  (in `PatrolJobs`: the close of a key that was "gone").
* With the default intervals (900 s, 60 s) an OOM kill right after a good metrics
  scan is reported by neither patrol if Prometheus then stays down for the hour,
  against `app.py:419-420`: docker takes over when the next scan has failed, and its
  window does not reach back to the last one.  (In `OomHandover`: without `handed`
  in `KillIsReported` the run violates it.)
* `can_advance` (`codex_reset/models.py:107`) and src/README.md:261 say that stages only
  advance, src/docs/codex-reset-monitor.md:93 that one process is at work.  A tick whose lease has
  run out goes on: its UPDATE (`codex_reset/store.py:674`) puts the stage it has
  judged by the row it read over a later one, and its messages are sent beside
  those of the other.  (`StagesOnlyAdvance` and `ToldOnce` excuse `lapsed`.)
* `app.py:68` says a diagnosis can be reset by hand through the API; the API can
  only set done, failed or skipped.
* Rows of the day are written after the broadcast, and a report that no channel
  took is sent again, where src/README.md:100 says stored first and not sent again.
* src/docs/codex-reset-monitor.md:69-70 has the last resort asked at most once an
  hour; the row holds the start of the tick, so it is an hour less a tick
  (`FallbackIsRare` says so).  "Fewer than two sources" counts sources, though
  `radar_current` and `radar_rss` are one family.
* A crash between `observe_banked_balance` and the filing of the evidence loses the
  increase (src/docs/codex-reset-monitor.md:32); `forgotten` in `CreditedOnce`.

What a reader of the code should know:

* A component that leaves a vendor's page while it is down and returns
  operational, and an incident whose impact rises within its phase (the severity
  of a Google incident may), are stored without an event; `ToldIsCurrent` is checked
  for pages that do neither (`SteadyPages`).
* Two ticks that both found no row of an event and insert it (`codex_reset/store.py:653`):
  the second INSERT raises, nothing rolls its transaction back, and it keeps the
  write lock of the database, which the whole program shares, until that process
  is restarted (`Clash`, `Locked`).
* A critical log line under more than `sentinel_error_query_limit` newer ones in each
  scan of its window, or beyond a cap full of critical ones in each, is never told
  of; `NoLineSlips` names both.
* `get_pending_digest_items` lists critical items first and then the newest, so with
  more pending than its limit for as long as new ones come, an old one waits as
  long; `ItemsAreSent` is about observations that end (`MaxObs`).
* `llm.yaml` moved away between the look at its time and its reading, and moved back
  with that time, is not loaded until it is written again
  (`llm_config.py:136-148`); `EventsAreSettled` excuses `unread`.
* After a crash between a recovery message and its commit (`torn`) the row stays
  open, and a new outbreak of the same condition is not alerted.
* A store that keeps failing in `detect_crashloops` never reaches the docker
  failure threshold: each cycle resets the counter before it fails (`ScanBreaks`).
* A crash-loop burst within the last interval of a window that is no multiple of
  the scan interval is dropped with its window; `LoopIsReported` is about a
  container that keeps restarting.
* `codex_hooks.py:210`: the end of another tool cancels an approval that still
  waits, and a second request for the same command is dropped as seen.  When the
  lookup of a receipt raises, the candidate stays in `_inflight`.
* Sends to feishu that sleep together go out together (`client.py:67`), and a second
  client of the same channel knows nothing of the first; `PostsAreSpaced` excuses
  the first, the second is outside the model.
* A kill between the commit of a stage and `queue_delivery` loses its message for
  good (`torn` in `StageIsSettled`).
* When ticks overlap, a failed answer of one erases the answer the other stored;
  the next tick asks again.
* With both diagnosis drivers at once an event is diagnosed twice, and a later
  "failed" takes the place of "done".  The job in the container exists only if a
  model was configured when the process started.  A file read half written counts
  as no file.  `LlmConfig` takes it that each write has a modification time of its
  own.

## 7. Not modelled, and why

* **Message builders, cards, panel, translations**: rendering of the store per
  request; they keep nothing but cookies of the reader.
* **Data source clients, the fetcher's retries**: single HTTP calls, which enter as a
  source that answers or does not.
* **Configuration**: its values are constants.  Of `notify/routing.py` only the
  remark of section 6.
* **Measured values**: the threshold rules of metrics, logs and hygiene enter
  `PatrolJobs` as a condition that holds or not; percentiles of the report and the
  retention of samples are left out of `DigestReport`.
* **Vendor poller**: `run_heartbeat` and the stored analyses.
* **Reset monitor**: the health summary, the subprocess that asks the reference
  account, HTTP retries, the limit of 20 due deliveries a tick, the display.
  Addresses are modelled by what `canonical_from` makes of them.
* **Diagnosis**: the tool loop (a call of a model is one step that answers or fails),
  redaction, and the evidence handed to the model.
* **Host scripts** but `diag_orchestrator`: command line tools around the HTTP API
  that keep no state.
