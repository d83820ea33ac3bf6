# hermes-minefield, specified

TLA+ specifications, model checking and proofs for the `hermes_minefield`
package (`src/hermes_minefield`, about 6400 lines of Python): a Hermes plugin
that records what an agent does, explains what went wrong, and helps a human to
report it. Paths below are relative to `src/hermes_minefield` unless they start
with `docs/`.

To check a run: `tlc -config <run>.cfg <module>.tla`; to check the proofs:
`tlapm <module>Proofs.tla`. `PROJECT.json` maps each definition to the lines it
translates.

## 1. Inventory

### Parts, their state and their operations

| Part | Source | State | Operations | Status |
|---|---|---|---|---|
| Flight recorder | `recorder/store.py` | per process: deque of events, `_pending` rows, flusher thread, two events, `_io_lock`, current segments; shared: segment files per profile | `record`, `_start_flusher`, flusher loop, `_write_pending`, `cleanup_segments`, `freeze_detailed`, `stop` | modelled |
| Hooks | `recorder/hooks.py`, `recorder/events.py`, `plugin.py` | none | one mapper per Hermes hook, each calling `record` or `request_flush` | modelled, less the checking of rows read back |
| Incident store | `incident/store.py`, `paths.py` | `INC-*.json`, `index.jsonl` | `save_incident`, `_compact_index`, `update_incident_status`, `list_incidents`, `prune` | modelled |
| Contribution | `commands/contribute.py`, `contribute/`, `issues/` | `CAND-*.json`, `draft-*.json`; GitHub outside | resolve, candidate, draft, submit, link | modelled |
| `wtf` | `commands/wtf.py` | none | freeze, analyse, maybe save | modelled |
| Incident analysis | `incident/signals.py`, `rules.py`, `analyze.py`, `trap_match.py` | none (pure) | `compute_signals`, `classify`, `match_traps` | modelled, less trap matching and texts |
| Lite check and cache | `cache.py`, `auto_lite.py`, `commands/check.py`, `_probe.py`, `status.py`, `doctor.py`, `verdict.py` | `fingerprint_cache.json`, one flag per process | `run_check`, `put_entry`, `clear_cache`, `evaluate_run`, `maybe_start`, `run_status`, `run_doctor` | modelled |
| `issues` | `commands/issues.py` | none: it shows and saves nothing | list, `--refresh` | not modelled |
| `update` | `commands/update.py` | none of its own | git pull, pip/uv upgrade, stop at first failure | not modelled |
| Configuration, target, privacy, sanitizing | `config.py`, `target.py`, `privacy.py`, `issues/sanitize.py` | none | parsing, validation, redaction | inputs of the models |
| Dispatch and presentation | `commands/dispatch.py`, `cli.py`, `menu.py`, `guide.py`, `scan.py`, `render.py` | none | parsing and text | not modelled |

### How they interact

Hermes calls the hooks on its own threads; every hook ends in `record()`, which
touches memory only. A daemon thread per process writes rows to that process's
own segment files. `wtf`, in the same process (slash command) or in another one
(CLI), freezes memory and the files of all processes, classifies the window and
saves an incident. `contribute` turns an incident into a candidate, a draft and,
after human approval, a GitHub issue, and links the incident to it. `prune`
deletes old incidents, candidates and drafts. There is no lock between
processes: the recorder relies on one writer per file, the incident store on
atomic renames and appends.

### What is hard

- Three kinds of thread meet in one recorder (hooks, flusher, commands), with
  `stop()` arriving from a fourth; memory and file locks are separate.
- A row is in `_pending`, then only in a local variable of the writer, then in
  a file: a freeze or a stop in between must not miss it.
- Processes list, stat and delete each other's files while these grow.
- Read-decide-write sequences without a lock: index compaction, prune, status
  updates, the fingerprint cache.
- Processes die between two file operations; writes fail half-way; GitHub's
  answer gets lost after the issue was created.
- A diagnosis joins memory that is trimmed with files that lag behind, filters
  both by time and session, cuts twice, and then reads the clock again; ids may
  be missing or reused, and events enter memory later than their timestamps say.
- A draft outlives the allowlist, the body and the incident it was made from.

### What makes each part correct

- **Recorder**: no row is written twice or silently lost; rows are filed by
  profile and never shown to another one; a freeze misses nothing that
  is there, readable and within its limits; stop leaves nothing in memory; the flusher is never left asleep with a
  full batch and writes everything in the end; cleanup meets its budget and
  deletes only what it may.
- **Incident store**: the index names only saved incidents, keeps its last rows
  and stays bounded; prune never deletes a linked incident that it could read.
- **Contribution**: an issue is created only with human approval, from a
    permitted surface, for a repository that is listed or that the draft says the
  user named, with the body that was previewed; an incident is linked to its own
  issue and a link once written stays.
- **Lite check**: PASS is shown only while there is a complete and fresh run
  behind it that found something clean, nothing wrong and nothing unresolved, of
  the endpoint that was asked about; the cache is bounded; nobody's single slot is probed unasked.
- **Analysis**: a call is not taken for hung, and a session not for looping,
  unless it is so; PASS means that the calls of the window came back and that
  nothing was cut from it; a tool that keeps failing is found.

## 2. Plan

| | Modules | Contents |
|---|---|---|
| done | `EvidenceLog` | abstract specification: what a recorder promises |
| done | `FlightRecorder`, `MCFlightRecorder` | the recorder, refining `EvidenceLog` |
| done | `FlightRecorderProofs` | its inductive invariant, its safety, the refinement |
| done | `IncidentStore`, `MCIncidentStore` | files, index, prune |
| done | `IncidentStoreProofs` | the index: any number of processes, and what one process may rely on |
| done | `Contribution`, `MCContribution` | the workflow, composed with `IncidentStore` |
| done | `ContributionProofs` | approval, published bodies and links, for any number of processes |
| done | `LiteCheck`, `MCLiteCheck`, `LiteCheckProofs` | check, doctor, status, cache, TTL, auto-lite: `PASS` only from a clean, complete, fresh run |
| done | `Analysis`, `Diagnosis`, `MCDiagnosis` | hooks, timestamps, freeze, signals, rules and verdict of `wtf` |
| done | `DiagnosisProofs` | no false hang, and what PASS promises, for every cap, window and id |
| done | `FreezeProofs` | a freeze is complete, for any number of processes |
| done | `CleanupProofs` | what one cleaner leaves and what it may delete |
| done | `LoopProofs` | a tool loop is one, whatever the freeze cut |
| done | `Publication` | abstract specification: what `contribute` promises, implemented by `Contribution` |
| later | an abstract specification of what `LiteCheck` may show | a display follows from evidence that was current; implemented by `LiteCheck` |

## 3. The modules and the code

### `FlightRecorder`

One process is one `FlightRecorder` object. The state keeps the code's names:
`buf`, `pending`, `thr` (`_thread`), `wake`, `stopSet` (`_stop`), `io`
(`_io_lock` and the program counter of its holder in `_write_pending`), `batch`
(the local variable `pending` of `_write_pending`), `segs`, `seq`, `dirsSeen`,
`lastCleanup`, and the shared `files`. A segment is named by process, directory
and number; restarts continue the numbering, as pid, start time and a random
token do in the code.

| Actions | Code |
|---|---|
| `Record`, `RecordAstray`, `EnsureFlusher`, `StartThread` | `record`, when its profile can be resolved and when not, `_start_flusher` inside and outside the lock |
| `FlusherTop`, `FlusherWake` | `_flusher_loop` |
| `TakePending` | `_io_lock` acquired, `_take_pending` |
| `AppendOpen`, `AppendWrite`, `AppendFails`, `AppendTorn` | `_append_rows` for one directory: open, write and rollover, failure to open, write failing half-way |
| `CleanupStart`, `CleanupScan`, `DeleteExpired`, `DeleteOldest`, `CleanupDone` | `cleanup_segments`: the listing with its stats, then one delete per step; `Remove` is `_unlink`, which may fail unnoticed |
| `WriteEnd` | `_io_lock` released, back to the caller |
| `FreezeCall`, `FreezeMemory` | `freeze_detailed`: flush, copy of memory |
| `FreezeList`, `FreezeStat`, `FreezeTail`, `FreezeUnread` | `load_recent_persisted_events`: the listing, then for each file the stat that takes its share of the budget, and `_read_tail`, which stats again, seeks and reads; a file that cannot be read is passed over |
| `FreezeMerge`, `FreezeReturn` | the two caps, `merge_events`, the return |
| `StopCall`, `StopJoin` | `stop` |
| `Crash`, `Tick` | death, exit and restart of a process; the clock |

Abstractions: a row counts as one unit of size, for memory, files and budgets
alike. The size of a set of files (`SizeOf`) is the number of its units, pairs
of a file and a number up to its size, and so is the sum of the sizes that a
cleanup noted (`Total`): a cardinality, which the proofs can reason about, where
the code adds up. Events are numbered in the order they enter memory, so their timestamps
are in that order too and trimming keeps a newest part (timestamps are really
taken just before the lock: see the hazard at `recorder/events.py`). Every row
knows where it begins in its file (`start`), so that the seek of `_read_tail`
and the `readline` after it drop the rows the code drops, one that begins
exactly at the cut included. Two things stay atomic: the listing with the stats
that sort it, and the second stat of a file with the read that follows. `Homes`
holds the directories of the profiles and the working directory (`Cwd`), under
which `record` files a row when it cannot resolve its profile. Session filters and
`since_seconds`, which only narrow the result of a freeze, `stats()`, and the
single-file mode that only tests use are left out, and so is a flusher killed
by a recorder directory that cannot be resolved.

### `EvidenceLog`

Events are accepted, held, committed to the shelf of their profile, or gone for
good; one commit files rows of one profile. `FlightRecorder` implements it with
`held` the union of all `_pending` lists and batches and `shelf` what the
segments of a profile show. Threads, locks, files, cleanup and restarts
disappear.

### `IncidentStore`

`inc`, `drafts` and `index` are the files, `op[p]` the store call process `p`
is in with everything it has read so far. Each file operation is one step:
`SaveFile`, `SaveRow`, `CompactRead`, `ReplaceIndex` (`save_incident`);
`LoadForUpdate`, `WriteUpdate` (`update_incident_status`, which re-creates a
file that vanished in between); `PruneStart`, `PruneLook`, `PruneUnlink`,
`PruneOther`, `PruneIndex`, `ReplaceIndex` (`prune`). `PruneUnread` is an
incident that exists and whose stat, read or parsing raises: the code takes it
for `{}`, not linked, and deletes it. `PruneIndexUnread` is an index that cannot
be read: the code rewrites it empty. `Abort` is a process that
dies, or an `OSError` that leaves the call, between two steps. An incident's
content is reduced to the issue it is linked to: SUBMITTED is the only status
the program ever writes after the first, together with the link. Files are
replaced atomically (`paths.atomic_write_text`), so no reader sees half of one.
Dry runs change nothing and are left out; incident ids are unique. Rows of the
index are known by their number in `appended`, the sequence of every row ever
appended: the index and what a call has read of it are sets of such numbers.
That is enough because rows are only appended, and a rewrite keeps some of the
rows it has read in their order: `LastKeep` is `lines[-INDEX_KEEP:]`, `RowsLeft`
the filter of `prune`. A row appended between a rewrite's read and its replace
is lost, as in the code.

### `Contribution`

EXTENDS `IncidentStore` and adds the commands (`job[p]`), the issues on GitHub,
whether the recommended repository is in the allowlist, and the links reported
so far. A command moves through `Resolve`, `SaveCandidate`, `Draft` (or
`SubmitDraft`, for a saved one), `Decide` (every gate of `_submit` and
`submit_issue` at the moment it is evaluated), `Post` (with or without an
answer), `Link`, the store's `WriteUpdate`, and `Report`; `EndCommand` is every
way of ending without an issue. `ReportUnloaded` is the report when the incident
exists but could not be loaded: `update_incident_status` returns False, which
`_link_incident` ignores, so the command prints "Linked" and no file has the
link. `EditText`, `EditRouting`, `Unlist` and `Die` are the environment: the
digest of a draft covers its title and body (`EditText` makes `load_draft` refuse
it), not its repository, whether the user named it, or its incident
(`EditRouting`), which are believed as they are. Of the routing only its result is kept: the user's
repository, or the recommended one if allowed. Titles, bodies and their
sanitizing are two values, previewed and edited.

### `Publication`

What `contribute` promises, without commands, calls, drafts or rows: an incident
is saved once; a human approves the publication of a saved incident; an approval
is used up by one issue about that incident, or withdrawn; an incident is linked
only to an issue about it, which brings back a file that was removed meanwhile,
and no link is taken back. `Contribution` implements it (`Published`): an
approval is the time a command spends between the last gate and the answer
(`job[p].pc = "posting"`), `posts` the incidents of the issues in their order,
`link` what the incident files say, `kept` the files there are. `GiveUp` is the
return with an error: nothing posts again by itself.

### `LiteCheck`

A process has a thread for commands and one for `auto_lite`; `cmd[t]` is where a
thread is, with the endpoint it resolved, the entry it is about to put and its
changed copy of the cache. `cache` is the file. A run of probes is any `Result`
of the external core.

| Actions | Code |
|---|---|
| `CheckHit`, `CheckRuns`, `CheckDiscards`, `CheckEvaluates`, `Unresolved` | `run_check`, with `evaluate_run` at the return of the probes |
| `PutRead`, `PutWrite` | `put_entry`: load and change a copy, save it; then the result is shown |
| `CommandFails` | `dispatch._guard`, and the `except` of `auto_lite._run` |
| `Status`, `ClearCache` | `run_status`, `clear_cache` |
| `DoctorBlocked`, `DoctorRuns`, `DoctorReports` | `run_doctor` |
| `SessionStart`, `AutoLookup`, `AutoSlots` | `maybe_start`, `_run`; its `run_check` is the four check actions again |

`shown` is what the last step displayed. Findings are the set of levels that
occur, counts the set of those that are not zero, and structured counts agree
with the findings or are missing. A level is one of the three that are counted
or any other (SKIPPED, N/A, ERROR, none), which is counted nowhere. `of` and `evidence` of an entry, and `backed`
of a display, are history. Two commands in the foreground of one process are
left out (two processes are the same to the cache); so are the counts `status`
prints next to the verdict, and clocks that are set back.

### `Analysis` and `Diagnosis`

`Analysis` is `compute_signals`, the ten rules in their order with the fallback
behind them, and the verdict, as operators on a window of events. The thresholds
of the rules are constants. `Run` is the streak state of a session as a recursive
function of its executions; a percentile is the rank of the sample that decides
it (`Rank95`).

`Diagnosis` produces the windows. A session's hooks run one after the other
(`hook[s]`: the event that is stamped and not yet recorded, and those still to be
built), the hooks of several sessions at the same time.

| Actions | Code |
|---|---|
| `PostApiRequest`, `ApiRequestError`, `PreToolCall`, `PostToolCall`, `AgentLoopStopped`, `Note` | the hooks, up to the first event they build |
| `Stamp` | the next event of the same hook |
| `Record`, `RecordAstray` | `record()` under its lock; the row filed under the working directory, or `record()` failing |
| `WtfFreeze` | `freeze_detailed` up to its copy of memory |
| `WtfAnalyse` | its reading of the files, the merge, `compute_signals`, `classify` and the verdict |
| `Tick` | time in which nothing is called |

`call[c]` says what really happened to a tool call; hooks and commands do not
read it, and the properties compare their findings with it or with `log`, the
rows in the order they entered memory. What memory holds and what is on disk
follow from `log`: memory is the newest part that `_trim_locked` leaves
(`Memory`), disk is a beginning of the log, of which a reader finds at least what
an earlier one found (`Written`), less any `MaxLost` rows that were never
appended, were deleted, or did not reach the reader (`lost`): a dropped or torn
batch, a file that could not be read, the head of a file that grew between the
two stats, the row at the cut. `FlightRecorder` shows which rows those can be.
The report keeps the lost rows that memory did not make up for (`missed`) for
the properties; the program does not know them.

Abstractions: one profile, and one process records for it (rows of others are
disjoint sessions to the rules; memory's caps count the rows of this profile
only); every stamp advances the clock by one, so timestamps are distinct and
sorting leaves no ties; argument and result fingerprints are one key; an event
of another kind than the rules read is `other`; `dominant_tool`, severity,
confidence, `is_engineering_bug` and texts are left out, as are trap matching
and rows of release 0.1.x (`phase` `pre_tool_call`). Calls may be under way at
the start, as they are when older rows have expired. No hook follows a report,
since every property is about the step that reports.

## 4. Runs

| Run | Instance | Shows |
|---|---|---|
| `recorder_peers` | a recording gateway and a reading CLI, one profile, 3 events, one tick, 2 segments each, one fault (an I/O error, a file that cannot be read or deleted, a row whose profile cannot be resolved) | `TypeOK`, `WrittenOnce`, `FiledByProfile`, `FreezeComplete` while the owner appends and cleans between the steps of a freeze |
| `recorder_stop` | two hook threads, two profiles, freeze and stop in one process, no faults | `FiledByProfile`, `Accounted`, `FreezePrivate`, `StopWrites`, `NoLostWakeup`, `FreezeComplete` |
| `recorder_single` | one process, a fault (also a delete that fails), a restart, one tick, fair threads | `CleanedWithinBudget`, `EventuallyWritten`, `DeletesExpiredOrOver`, `ImplementsLog` |
| `recorder_stop_race` | one hook thread and `stop()` | **violation** of `StopAlwaysWrites` |
| `incidents_single` | one process, 3 incidents, a draft, compaction past 2 rows to 1, one call cut short or file that cannot be read | `StoreTypeOK`, `RowsHaveFiles`, `ListedExists`, `RecentListed`, `IndexBounded`, `PruneKeepsLinked` |
| `incidents_prune_race` | two processes, 2 incidents | **violation** of `PruneKeepsLinked` |
| `contribution` | a contributor and a pruner, 2 incidents, a draft, 2 issues, one fault (a death, a file that cannot be read, a draft readdressed) | `ContribTypeOK`, `OnlyApproved`, `PostedAsPreviewed`, `LinkedToItsIssue`, `LinkStays`, `ImplementsPublication` |
| `contribution_unlinked` | one process, one incident | **violation** of `SaidIsLinked` |
| `lite` | one process with both threads, two endpoints with a fingerprint each, a cache of one entry, two runs, a TTL of one day out of two | `LiteTypeOK`, `PassHasEvidence`, `CacheBounded`, `QuietServers` |
| `lite_host` | one process, two endpoints that differ in their host | **violation** of `TestedTarget` |
| `wtf` | two sessions, two calls that share an id, one other hook, pause or row astray, memory of three events, a reader of four rows that may miss one, a hang after one second, a window of three | `DiagnosisTypeOK`, `HangIsReal`, `PassMeansFinished`, `PassNotCut`, `LoopIsReal` |
| `wtf_storm` | one session, four calls of two tools | **violation** of `StormIsFound` |

Bounds. `NEvents`, `MaxTime`, `MaxSegs`, `MaxFaults`, `MaxCrashes`, `MaxIssue`
and the sets of ids end every behaviour, so the configurations switch the
deadlock check off. Three rows with a batch of two reach a full batch, a
rollover and a directory over budget; one tick with a retention of zero reaches
expiry; the working directory is a directory of its own (`cwd`); two segments per process reach a deletion beside the one being written.
Compaction needs one more incident than `CompactAt`. With `Age = 0` a tick is
longer than prune's cutoff, so one tick makes a file old. One
fault (`MaxFaults = 1`) is any one of those the table names, at any step;
`recorder_stop` has none, for the size of its two threads and two profiles. A cache of one
entry with two fingerprints evicts, and one day more than the TTL makes an entry
stale; two runs let a late copy meet another result. In `wtf`,
four stamps overflow memory and, with a window of three, leave it; one pause
makes a call old enough to hang; two calls with one id reach a reused id, and
with two sessions a result may be recorded behind the request that follows it;
one lost row is enough to part a result from its request or to shorten a full
window. (What `LoopIsReal` excepts for lost rows needs a third execution, which
the two calls of `wtf` do not have: there only the proof speaks.)
`VIEW Reported` merges the states after a report. `wtf_storm` has one failure as
its threshold, so that four calls are enough, and calls `wtf` only when all of
them have been through their hooks (`WtfLast`). The symmetric sets in
the `MC` modules are used only where no property tells their members apart.

Fairness (`FlightRecorder!Fairness`, used by `recorder_single`). Weak fairness
of a hook thread finishing `record()`, of the flusher (its wait has a timeout)
and of whoever holds `_io_lock`: all are running threads that wait for nothing
else. Strong fairness of the flusher's `TakePending`: `stop()` and commands may
take the lock in between, and `threading.Lock` does not starve a waiter for
ever. Nothing is assumed of hooks, commands, faults or the clock.

### What the violations show

- `recorder_stop_race`: `stop()` between the creation of the thread object and
  its `start()` makes `join()` raise, and the final flush never happens.
- `incidents_prune_race`: prune reads an incident, another process links it,
  prune unlinks it: a linked incident is pruned.
- `contribution_unlinked`: in a single process, prune deletes an incident and
  keeps its younger draft; submitting that draft says "Linked ..." although
  there is no file to hold the link.
- `lite_host`: the fingerprint has no host, so the `PASS` of a server is shown
  for another one with the same model name and path, never tested.
- `wtf_storm`: the rule looks at the tool with the most failures only. A tool
  that failed one call of three hides another that failed every call, and the
  verdict is `PASS` (with the real threshold: 6 of 20 hide 5 of 5).

### What the properties except, and what they do not say

The code has failure paths on which it loses something without a word. The
models contain them, and the properties except exactly what they take; TLC
finds the property violated when its exception is taken out (that of
`LoopIsReal` shows only beyond the bounds of its run).

| In the code | Taken | Excepted by |
|---|---|---|
| `record` cannot resolve its profile (`store.py:302`) | the row goes to the working directory, which no `wtf` of the profile reads | `FiledByProfile` (such a row is there and nowhere else), `FreezeComplete` (asks for rows filed under the profile) |
| the reader stats a file at `store.py:150`, again at `:100`, and the file grew | as many rows of its head as were appended | `FreezeComplete` (`CutOff`), the `wtf` properties (`missed`) |
| a file cannot be examined or read (`:91`, `:108`, `:149`) | its rows, for this freeze or cleanup | `FreezeComplete`, `CleanedWithinBudget` (`failed`), the `wtf` properties |
| `_unlink` fails, its size is subtracted all the same (`:404`, `:412`) | the budget | `CleanedWithinBudget` (`failed`) |
| a batch that cannot be appended, or is torn (`:372`) | rows in the middle of the log | `Accounted` (`gone`), the `wtf` properties (`missed`) |
| prune cannot read an incident (`incident/store.py:121`) | the incident, linked or not, old or not | `PruneKeepsLinked` (`Unread`) |
| prune cannot read the index (`incident/store.py:150`) | the index | `RecentListed` (`dropped`) |
| an incident exists and cannot be loaded (`incident/store.py:68`) | the link that "Linked" was printed for | `LinkStays` (links that were written), `SaidIsLinked` is false |
| a draft's repository or incident is edited (`issues/draft.py:155`) | the gate on the repository, if the draft says that the user named it | `OnlyApproved`, `LinkedToItsIssue` (the draft as it was sent) |
| a finding of a level other than the three (`render.py:33`) | PASS is given beside it, where `verdict.py:5` says that every finding is clean | `PassHasEvidence` (`NothingWrong`) |

`wtf` has no way to know of the rows it missed: a verdict of PASS or a tool hang
may rest on such a window.

Four more things were seen and are not runs: two cleaners that work from sizes
listed earlier delete more than the budget asks for (`DeletesExpiredOrOver` and
`CleanedWithinBudget` are about one); two overlapping `put_entry` may put an
older result back in the place of a newer one; calls queued behind a slow one are
counted as never dispatched; when more events arrive between the copy of memory
and the reading of the files than memory or the reader take, the window has a
gap in its middle that nothing reports, and calls on both sides of it count as
one streak (`LoopIsReal` excepts it by `KeptUp`).

## 5. Proofs

All theorems are checked by TLAPS for every value of the constants that meets
the named assumptions: `ActorsAssumption` and `BoundsAssumption` of
`FlightRecorder`, `LimitsAssumption`, `IndexAssumption`, `AgeAssumption` and
`IdAssumption` of `IncidentStore`, `CommandsAssumption` of `Contribution`, `TargetsAssumption`, `CacheAssumption` and
`LiteBoundsAssumption` of `LiteCheck`, `ThresholdAssumption` of `Analysis` and
`BoundAssumption` of `Diagnosis`. They only say that bounds are numbers,
that `INDEX_KEEP` is at most `INDEX_COMPACT_AT`, that no incident has the id
`none`, that the actors are processes, that every endpoint has a fingerprint and
that an eviction drops something; TLC evaluates them in every run.

### `FlightRecorderProofs`

| Theorem | States |
|---|---|
| `TypeCorrect` | `TypeOK` |
| `RowsWrittenOnce` | `WrittenOnce`: no event is in two places, in memory or on disk |
| `RowsFiledByProfile` | `FiledByProfile` |
| `RowsAccounted` | `Accounted`: a row is held, on disk, or gone for a counted reason |
| `StopLeavesNothing` | `StopWrites` |
| `NoWakeupIsLost` | `NoLostWakeup` |
| `FreezeKeepsPrivate` | `FreezePrivate` |
| `Refinement` | `ImplementsLog`: `FlightRecorder` implements `EvidenceLog` |

None of these is inductive. The invariant that is, `Inductive`, adds:

- `LockInv`: who holds `_io_lock` at which stage, and that the local batch is
  empty outside `append` and `opened`. Without it a second writer could take
  rows while the first still holds some.
- `NothingDead`: a deleted segment keeps no rows, so that deletion really moves
  rows to `gone`.
- `Placed`: every event is in exactly one of its possible places, and the place
  fits its process and directory. `WrittenOnce`, `FiledByProfile` and `Accounted`
  are three readings of it.
- `StopInv`: a recorder that is stopping queues nothing more; this is why the
  flush at the end of `stop()` leaves nothing.
- `WakeInv`: a full batch has set the event or is about to be taken by a flusher
  that is past its wait; at most one hook thread is about to start the flusher.
- `FreezeInv`, `ReadInv`, `ProfileAsked`: what a freeze has gathered so far is of
  its own profile, it reads finitely many files, all in the directory of that
  profile, and it was called under a profile, not the working directory.

Most actions change rows in no interesting way. The proof first shows
(`NextMoves`) that each step is one of six moves (a row is accepted, nothing
moves, a batch is taken, rows are committed, a segment is deleted, a process
dies), and then that each move keeps `Placed`; the same moves give the steps of
`EvidenceLog` in the refinement.

### `FreezeProofs`

| Theorem | States | For |
|---|---|---|
| `FreezeIsComplete` | `FreezeComplete` | any number of processes |

A command asks for everything its process and its profile's segments held at
the call. Between the call and the reading of the files the flusher, `stop()`,
other commands and the cleanups of all processes move these rows. `AskedInv`
says where they may be, stage by stage: still in the process's hands or safe
(on disk or gone) while it waits for the lock; in a batch or safe when the
command is the writer itself; safe after the flush, whoever did it. `MoveSafe`
shows for each of the six moves that a safe row stays safe and one in a
process's hands stays there or gets safe.

From the listing on, files are read one after the other while their owners
append and delete. `TrackInv` says of every row that was asked for and is not
gone: it has been read, or is excused for one of the reasons in the property
(`Excused`), or is in a file that was listed and whose turn is still to come or
has just come (`Ahead`, `BeingRead`); and that files are read newest first, so
that what lies behind a file is what was read of newer ones (`Behind`). An
excuse once given stays good while files grow, because a row stays where it is
in its file (`FileInv`, `CutOffStays`), and a file whose turn is over has given
the row or an excuse (`FileOver`, `TailTracked`, `UnreadTracked`). What the last
two cuts to `max_events` drop, they drop for as many younger rows
(`NewestOrFull`, `MergeReturns`).

### `CleanupProofs`

| Theorem | States | For |
|---|---|---|
| `CleanupFitsBudget` | `CleanedWithinBudget` | one process |
| `CleanupSparesRecent` | `DeletesExpiredOrOver` | one process |

A cleanup decides from sizes and times that its scan noted. With one process
these stay true until it deletes, because whoever could change the files would
need the lock that the cleaner holds: `Sweeping` says so (`ScanHolds`: the
directory, but for the files that could not be examined or deleted, is what is
to be deleted plus what is kept, with the sizes noted, and
what is to be deleted for its age is past retention row by row; `Tidy`: the
directories already done are within the budget or hold only the segment being
written). So the sum the loop works with is at least the size of the files that are left
(`TotalIsSize`); the comparison of sizes needs finitely many files
(`LiveFinite`: a step creates at most one) and that a set of files is at least
as large as its subsets (`SizeGrows`). `ClockInv` links the two clocks: a file's mtime is not earlier
than its rows, and the cleaner's `now` not later than now. With two cleaners the
sizes a scan noted may be stale, as the hazard at `recorder/store.py:404` says,
so neither theorem is claimed for more than one.

### `IncidentStoreProofs`

| Theorem | States | For |
|---|---|---|
| `StoreTypeCorrect` | `StoreTypeOK` | any number of processes |
| `RowsAreOfFiles` | `RowsHaveFiles` | any number of processes |
| `OnlyExistingListed` | `ListedExists` | one process |
| `NewestListed` | `RecentListed` | one process |
| `IndexStaysBounded` | `IndexBounded` | one process |
| `LinkedSurvive` | `PruneKeepsLinked` | one process |

`RowsAreOfFiles` needs `RowsSaved`: every row ever appended, in the index or
compacted away, is of an incident that was saved, and so is the one a save is
about to append. No file returns to the state before its first save, so neither
a rewrite with rows read long ago nor an update of a vanished file can break it.

The other four are false of several processes (what another
process changes between a call's read and its write is undone;
`incidents_prune_race` shows one case), so they are proved under the hypothesis that `Procs` has one element,
for every number of incidents, `INDEX_COMPACT_AT`, `INDEX_KEEP` and age. The
invariant `AloneInv` says that what a call has read is still true when it
writes: `Working` (the file it works on is there; what prune counts as removed is
deleted; what it is about to unlink is not linked, or
could not be read), `ListsLive`, `KeepsRecent`
and `Bounded` (the rows a rewrite is about to put in place are as good as the
property wants the index to be). `KeptFew` and `RecentKept` are about
`lines[-INDEX_KEEP:]`: it has at most `INDEX_KEEP` rows, and a row among the newest
`INDEX_KEEP` ever appended is one of them, whatever is missing between; rows of
an index that was rewritten unread are out of the claim (`dropped`).

### `ContributionProofs`

| Theorem | States |
|---|---|
| `ContribTypeCorrect` | `ContribTypeOK` |
| `PublishedAsPreviewed` | `PostedAsPreviewed` |
| `LinksItsOwnIssue` | `LinkedToItsIssue` |
| `LinksStay` | `LinkStays` |
| `ApprovedOnly` | `OnlyApproved` |
| `PublicationRefined` | `ImplementsPublication`: `Contribution` implements `Publication` |

The inductive invariant is `ContribInv == Typed /\ Safe`. `Safe` says of every
command (`JobSafe`) that its incident was saved once, that its body is the
previewed one, that what it posts has passed every gate, that the issue it
links is the one it posted, and that at stage `linking` either its update is
still to write or the link is there; of every pending update (`UpdateSafe`) that
its link is a good one; and of drafts and printed links that their incidents
were saved. "Was saved" is what keeps a later `wtf` from overwriting a link: a
save begins only a file that never existed. `Grows` collects what no step takes
back (a saved incident, an issue's incident, a link while the file exists), and
by it a process that takes no part in a step stays safe (`BystanderSafe`), so
each action is argued for the process that takes it only.

For the refinement, `FileInv` adds that a file never written has no link, and
that what a prune is about to look at or unlink was saved once: otherwise an
unlink could look like the first save of an incident. Each action is then one
step of `Publication` (`PublishedSave`, `PublishedApprove`, `PublishedPublish`,
`PublishedAttach`, `PublishedRemove`, `PublishedWithdraw`) or changes nothing it
knows of (`PublishedQuiet`, `PublishedAside`). `JobSafe` gives the guard of
`Approve`, `UpdateSafe` that an update which comes back after a prune still
attaches an issue about its own incident.

The theorems hold of `ContribSpec`, with any number of contributors and
pruners. The arguments about bodies and links need no types for the rows of the
index; `ContribTypeCorrect` takes those from the lemmas of `IncidentStoreProofs`
about the store's steps.

### `LiteCheckProofs`

| Theorem | States |
|---|---|
| `LiteTypeCorrect` | `LiteTypeOK` |
| `PassIsEvidence` | `PassHasEvidence` |
| `CacheStaysBounded` | `CacheBounded` |
| `ServersAreLeftAlone` | `QuietServers` |

The properties speak of the file and of the display; between them are threads
that hold entries and copies of the cache for any length of time. The invariant
`Inv` therefore says of every thread (`ThreadOK`) that its copy and its entry
are as good as the file must be (`CacheOK`: bounded, and `PASS` only with
evidence): a late write replaces a good cache by a good one, even when it
replaces a newer by an older. It also says where `auto_lite` asked for slots
before it checks. `PassOfRun` is the heart: the verdict that `evaluate_run`
computes from counts, or from findings when the counts are missing, is `PASS`
only for what the reference `Evidence` accepts. `WithEntryOK` is eviction, for
any bound and any set of fingerprints, finite or not.

### `DiagnosisProofs`

| Theorem | States |
|---|---|
| `DiagnosisTypeCorrect` | `DiagnosisTypeOK` |
| `HangsAreReal` | `HangIsReal` |
| `PassIsComplete` | `PassNotCut` |
| `PassIsPerCall` | `PassMeansFinished` |

The invariant is `DiagnosisInv`: the type; of every hook (`HookInv`) that the
event it holds is stamped no later than now, carries the id of its call and fits
what became of it; of the log (`LogInv`) that a call has one request and one
result, in that order and with rising timestamps; of a running freeze
(`FreezeInv`) that its copy holds the result of each call whose request it holds,
if that result was recorded by then.

- `HangsAreReal`: the request and the result of a call enter the log in that
  order and the result is younger. Everything a freeze drops is dropped by age,
  by position or by rank of timestamp, so a window that has the request has the
  result as well, unless the reader missed it (`NewestUpward`, `NearUpward`,
  `ResultFollows`), whatever the caps are.
- `PassIsComplete`: a window that is shorter than the cap was not cut by it
  (`NewestAll`, `NothingCut`), neither in the reader nor after the merge; a row
  behind which fewer rows lie than the byte budget takes was read or missed
  (`LastRowsAreNear`).
- `PassIsPerCall`: the rule compares totals; that these determine which calls
  came back is a counting argument (`AlignedCovers`): executions map one to one
  to requests, and calls in flight are requests without an execution.

`ClassifyTotal` shows that the rules always yield one of the documented results.

### `LoopProofs`

| Theorem | States |
|---|---|
| `LoopsAreReal` | `LoopIsReal` |

`tool_loop` is decided from runs counted in the window; the property is about
the log, with everything the freeze left out. The proof has three parts.

- The order of the executions of a session. Hooks of different sessions record
  out of the order of their stamps, but a session waits for its hook: `OrderInv`
  says that an execution is younger than all rows up to its session's previous
  one, and `CopyInv` which executions a freeze copied: exactly those its caps,
  its cutoff and its scope left at the time.
- A window has no holes (`NoHole`): between two executions of a session that the
  window holds, it holds every one that the reader did not miss,
  if the freeze kept up with the log (`KeptUp`). `NoHoleAfterCopied` and `NoHoleAfterRead` are its two cases; what
  is dropped is dropped for enough younger rows (`LeftOut`).
- What `Run` computes. `Run` is a recursive function over the window, and
  the equation that defines it says nothing until a function that satisfies it
  is shown to exist. `CountsExist` shows one for the executions before any time,
  by the least time for which there is none (`CountOneMore` extends a counting
  by the latest execution); `RunUnfolds` then gives the equation, and
  `RunIsStreak`, in the same way, that a run of n ends a streak of n alike
  executions of a session with none between them. `StreakIsReal` carries the
  streak from the window to the log.

### Only model-checked

`EventuallyWritten` is liveness under fairness, which is out of the prover's
reach, as `ENABLED` is. Every invariant and every action property of the passing
runs is stated by a theorem: six of them (two of the recorder, four of the
incident store) for one process, the others for any number. The five violations
are TLC's. No module declares a RECURSIVE operator, and no proof uses an
induction rule that takes an operator as parameter, which the provers cannot
instantiate: where an induction is needed (`Run`, the existence of a youngest
row), the proof takes the least counterexample.

## 6. Not modelled, and why

Configuration, target resolution, privacy and sanitizing are string handling
without state, whose results appear as constants or choices. Dispatch, menus,
rendering, guide and scan only parse, read and print. `issues` saves nothing:
`--refresh` shows a status and forgets it. `update` runs `git pull` and one
package installer in order, leaves the loop at the first failure, and keeps no
state; what it changes belongs to git and pip. Of the analysis, trap matching is
a lookup in the external core, and the texts, severities and confidences of a
result are functions of the rule that no other part reads.
