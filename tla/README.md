# A TLA+ model of rune-mcp

rune-mcp is an MCP server in Go. An agent calls its tools over stdio to capture
decisions into an encrypted index (enVector), to recall them, and to bring the server
and its dependencies up. This directory holds TLA+ modules translated from the source,
TLC configurations that check them on small instances, and proofs that TLAPS checks for
every instance. Every safety property of a passing run is a theorem; liveness and the
disagreements of section 6 are TLC's alone.

Run from this directory: `tlc -workers 2 -config MCCapture.cfg MCCaptureFlow`,
`tlapm CaptureFlowProofs.tla`. `PROJECT.json` lists runs, mutants, the map from
definitions to source lines, hazards and theorems.

## 1. The system

| part | state it keeps | operations | interacts with |
|---|---|---|---|
| boot life cycle (`lifecycle/boot.go`, `mcp/tools.go`) | state gate, boot error, injected clients, bundle | `RunBootLoop`, `Retrigger`, `InjectX`, `ApplyVaultBundle`, delayed close | all of the below |
| persisted configuration (`adapters/config`) | `~/.rune/config.json` | `Load`, `Save`, `MarkDormant`, `ClearDormant` | boot, tools, rune CLI |
| recovery (`recovery`, `service/recovery.go`) | - | the interceptor retriggers a boot on a failed RPC and returns the error; insert and score then wait and try once more | gate, clients |
| life cycle tools (`service/lifecycle.go`) | watcher flag | `configure`, `activate`, `reload_pipelines`, `diagnostics`, `vault_status`, `capture_history` | config, gate, runed, all clients, logs |
| runed start-up (`spawn`) | `spawn.lock`, socket | `EnsureDaemon` | other rune-mcp processes, runed |
| capture (`service/capture.go`) | agent id and key, index name | `Handle`, `Batch` | embedder, enVector, Vault, capture log |
| recall (`service/recall.go`, `policy`) | - | `Handle` | embedder, enVector, Vault |
| embedder client (`adapters/embedder`) | Info cache, cooldown, last uptime | `EmbedBatch` in chunks with retries, `Info`, `Health` | runed |
| enVector client (`adapters/envector`) | pointers to SDK, index and keys | `NewClient`, `OpenIndex`, `Insert`, `Score`, `GetMetadata`, `GetIndexList`, `Close` | enVector |
| Vault client (`adapters/vault`) | a connection | `GetAgentManifest`, decryption, `HealthCheck`, `Close` | Vault |
| boot diagnosis and log (`lifecycle/boot_classify.go`, `boot_log.go`) | last boot error, `logs/boot.log` and one kept generation | classify, append, rotate | boot, diagnostics, other processes |
| capture log (`adapters/logio`) | `capture_log.jsonl` | append under mutex and flock, tail | capture, capture_history, other processes |
| record building (`policy/record_builder.go`, `domain/extraction.go`) | - | parse an item, build and render its records | capture |
| server (`cmd`, `mcp`) | tool table | registration, gate check, shutdown | all tools |

What makes it hard: tool calls run concurrently with each other, with boot loops that
exchange the clients under them, with interceptors that start boots and with goroutines
that close replaced clients 30 s later, pointer by pointer. `config.json` and the boot
log are shared with other processes, and a CLI, without a lock; the capture log has one that
readers do not take. Several processes share one runed. RPCs are retried, and a lost reply does not
mean a lost request. A process may be killed in the middle of any of it.

What makes each part correct:

- *boot*: one boot decides at a time; an active gate has one complete generation of
  clients behind it; a transient gate has a boot that works on leaving it; no connection
  is lost, none in use is closed; boots end, shutdown ends them.
- *configuration*: credentials and dormancy are what the user last asked for, whatever
  else writes; a killed writer does not disable the server.
- *runed start-up*: at most one launch at a time leads to a daemon; callers reply; a
  watched bootstrap ends in a boot.
- *capture*: an item enters the index once or never, what the agent is told of it stays
  true, and it is sealed and sent with things of one generation.
- *recall*: a record is answered once and with its own score, group assembly loses
  nothing, the answer is the best of what was found, and it comes.
- *embedder client*: a batch is answered whole and in order or not at all; what runed said of
  itself before a noticed restart is not used after it; nobody keeps the cache's mutex.
- *enVector client*: what a service holds is usable; a call with a deadline within the delay
  of a close ends before that close.
- *logs*: they stay bounded and keep the newest lines, a write that was cut short
  costs one entry besides its own, nobody waits forever for a lock.
- *diagnosis*: an error is laid to the part it came from, and diagnostics are OK only of what
  they asked.
- *record building*: a record claims no more than it has evidence for, a group is complete
  and its members have ids of their own, nothing is stored that says nothing.

## 2. Modules

```
 ConfigFile <- BootLifecycle <- BootRefinement (-> BootGate) <- BootInvariants <- BootLifecycleProofs
                     ^                                               ^
                     +---------------- BootClaims <------------------+--- MCBootLifecycle
 RunedActivation <- RunedActivationProofs, MCRunedActivation
 CaptureFlow     <- CaptureRefinement (-> CapturePromise) <- CaptureFlowProofs, MCCaptureFlow
 EmbedderClient  <- EmbedderClientProofs, MCEmbedderClient
 EnvectorClient  <- EnvectorClientProofs, MCEnvectorClient
 RecordBuilder   <- RecordBuilderProofs, MCRecordBuilder
 RecallRanking   <- RecallPipeline <- RecallProofs, MCRecallPipeline
 CaptureLog      <--------------+
 BootDiagnosis   <- BootLog <- LocalLogs <- SelfReport <- SelfReportProofs, MCSelfReport
 Diagnostics     <---------------------------+
```
(an arrow points from the extending module to the extended one, `->` to one that is
instantiated; LocalLogs extends both CaptureLog and BootLog)

**ConfigFile** - a content of `config.json` is a record: does it parse, state, dormant
reason, credentials. Operators for what `Load`, `MarkDormant`, `ClearDormant`, `Configure`
and a boot's decision compute from it. Endpoint and token are one value.

**BootLifecycle** - the core. Each boot loop has a program counter, one action per step of
`RunBootLoop`/`bootOnce` and one per failure exit; a step ends where the code blocks or
changes what another goroutine can see. So `SetState(dormant)`, `SetBootError` and
`MarkDormant` are three actions, and writing the file is truncate then write, of which the second
may fail and leave an empty file behind. `deps`,
`bundle`, `open` and `doomed` are the injected clients, the bundle's generation, open
connections and pending closes. Tool calls `configure`, `activate`, `reload_pipelines`
have program counters of their own. `BackgroundRetrigger` is the interceptor or the watcher,
`Deactivate` the rune CLI.

**BootGate** - what the handlers rely on, in five lines of actions: a gate with one wiring
behind it that is complete when the gate opens and changes only while it is booting.
**BootRefinement** maps BootLifecycle to it (`ImplementsGate`). The models of
capture, recall, the enVector clients and diagnostics use only this view of the boot.

**BootInvariants**, **BootLifecycleProofs** - see section 5. **BootClaims** - what
comments say and the code does not do, see section 6.

**RunedActivation** - `activate` calls of several processes: probe, flock, second probe,
launch, polling; `probeBootstrap`; the watcher goroutine with its error counter, deadline and
the flag a deferred function clears. A probe may find nobody where runed is only slow. A Health
that fails retriggers a boot for three codes (`recovery/interceptor.go:41`) and does nothing
for the others; both count as an error of the watcher. Processes may be killed, which releases the lock. runed
itself (launched processes bind the socket or exit, loading ends, it dies) is external.

**CaptureFlow** - `capture` and `batch_capture` item by item while boots exchange
agent id, key and client one after the other; the log append is part of `InsertAnswers`. The
server holds requests in flight and commits each id at most once, at any time; a reply may be
lost. The server is one index in all generations: a boot reconnects to the same deployment.
**CapturePromise** is what an agent may rely on, in two actions: an item of the call enters the
index, if it is not there yet, while it is at hand or after it was reported as error; the call
reports on the item at hand, "captured" only if it is there, "near_duplicate" only if it is not
and its insight is. Requests, retries, boots and lost replies are gone.
**CaptureRefinement** reads the index off the rows.

**RecallRanking** - the pure part of recall: merge, grouping, the interleaving loop,
scores, filters, cut, as operators, beside reference definitions (`IsAssembly`, `IsBest`)
that say what they are to compute. Sets of results stand for Go's map iteration order. A stable
sort is the permutation `Order` of the places sorted; a filter that keeps the order is `Kept`, the
sort by a key that is the same everywhere. The merge loop is a function of what is left of its
two lists.
**RecallPipeline** - the searches: score, decrypt, metadata, resolve, each of which may fail;
expansions, the original query, up to two searches for missing group members. Clients, and
the indexes behind them, may change between two steps. `infoHeld` says that another call has the
mutex of the embedder's Info cache, at which a recall waits whatever its deadline.

**EmbedderClient** - calls of one client that share the Info cache: mutex, Info RPC under it,
cooldown after an error, the chunks of a batch with up to three attempts each, and
the deadline or cancellation of the caller, which is noticed during an RPC or a backoff and
not in front of the mutex. `Health` is four steps: answer, comparison of
the uptime, invalidation, store. A text is its position; a daemon is a number that grows at
each restart and has a batch limit of its own.

**EnvectorClient** - clients from `NewClient` over `OpenIndex` to the four steps of `Close`
(key handle, connection, SDK pointer, index pointer), and calls that read the injected client,
check its index and use it later, wait for a reboot once and try again on the client they have.
Nothing but time keeps the two apart, so there is a `Tick`: the delay of each doomed client and
what is left of each deadline count down together.

**CaptureLog** - `Append` from the mutex of its process over the flock to a write that may
take two system calls, be cut short or be the last thing the process does; the file is a
sequence of lines, each with the entries glued together in it. `History` is what `Tail` reads,
a function from each line to what was found from the end down to it.
**BootDiagnosis** - an error is what the classifiers look at (types in the wrap chain, codes,
phrases); `ErrorsOf` lists what the adapters return in each phase of a boot, `ClassifyBootError`
is the chain of classifiers. **BootLog** - `SetBootError` and the log: stat of the open file,
close, rename by path, reopen, write, as steps of several processes, each of which may fail;
files are inodes.
**LocalLogs** puts the two logs on one host whose processes may be killed.

**Diagnostics** - the two tools that look at a process whatever its gate says: they read client
after client, with RPCs between, while a boot injects them. A probe that finds a dependency
away claims a boot; the probe of enVector is a goroutine that may outlive its call; Info waits for
the mutex of the Info cache (`infoHeld` again), Health takes it when a restart is noticed.
**SelfReport** is the composition of LocalLogs and Diagnostics, which share nothing: a
behaviour is one of the logs or one of the tools.

**RecordBuilder** - an item from parser to records, in one step after `Init`: the states are
inputs and results, and the next-state relation says which of the three ends of `Handle` is
taken. The operators are the functions of the code. A text is a value of which the classes
the code distinguishes are known (blank, long enough for a title, with a quotation, ...).

Operators marked *Fault* are plausible bugs, each a changed copy of the definition after
it. No specification uses them; they are there to show that each property notices one.

## 3. What the runs check

| run | instance | shows | states |
|---|---|---|---|
| `boot_calls` | 2 loops, 1 tool call, configured host | `SingleDriver`, `GateMatchesDriver`, `ActiveMeansCoherent`, `ConnectionsAreKept`, `ImplementsGate` | 1.8M |
| `boot_liveness` | 1 loop, 4 attempts, any file at the start | `BootSettles`, `ShutdownStopsBoot` | 76k |
| `bootstrap` | 1 process, 2 calls, watcher of 3 ticks and 2 errors | `NoRedundantLaunch`, `ActivationEnds`, `WatchedBootstrapCompletes` | 143k |
| `capture` | a batch of two equal items, a single capture of the same, 1 reboot | `ImplementsPromise`, `ResultsMatchIndex`, `DuplicatesOverlapOrDegraded`, `QuietItemIsCoherent` | 2.2M |
| `recall` | 2 expansions + query, 2 groups, 5 rows, 1 capture, 1 exchange of the client, the Info mutex taken by others | `RecordsAnsweredOnce`, `ScoresAreGenuine`, `AssembliesAreSound`, `BestAreAnswered`, `RecallReplies` | 25k |
| `embedder` | a call of 3 texts, a timed one of 1, 2 Health calls, 2 daemons with limits 2 and 1 | `BatchIsComplete`, `OversizeMeansRestart`, `RegressionOutdatesInfo`, `EmbedderCallsEnd` | 434k |
| `records` | flat items, items of up to 3 phases of which 2 are read, 6 texts | `ClaimsAreBacked`, `GroupCanBeRecalled`, `StoredSaysSomething` | 37k |
| `envector` | an insert without a deadline, a score of 2 ticks, a warm-up of 4, 2 exchanges, close after 2 | `InjectedIsUsable`, `BriefCallsAreDrained`, `OnlyOverstayersPanic` | 3.1M |
| `self_report` | 2 processes, 3 captures at a time, logs of 2 lines, 7 files; 1 call of the tools, 3 Vault clients, the Info mutex taken by others | `CutsCostOneNeighbour`, `HistoryIsNewest`, `BootLogIsBounded`, `NewestLinesAreKept`, `DiagnosisFits`, `OkMeansChecked`, `SickVaultIsReplaced`, `CallsEnd` | 134k |
| `claim_*` | three runs | what a comment says is violated, section 6 | |

The runs of recall, embedder and records check a type invariant as well; those of all modules
are proved (section 5).

*Bounds.* Two loops are the most that can be alive in the modelled code: one that decides
and one in its tail; when both slots are taken `Retrigger` waits (a third loop would need
a third tail). Four attempt identities are what can be referred to at once: one wired, one
running, two waiting for their close; identities are reused when nothing refers to them;
`boot_calls` makes do with two, and the proofs hold for any number.
`Calm` (run `boot_calls`) stops exploring after a shutdown, a second pending close or a
garbled file; `boot_liveness` covers the shutdown and the file without tools. `OneDoomed` (run
`boot_liveness`) lets replaced clients close before the next replacement. `MaxGen = 2`
is one reboot during the captures, enough for one torn bundle and one closed client.
`MaxComing = 2` lets two launched runed compete for the socket; `MaxErrors` and
`MaxTicks` are 2 and 3 instead of 3 and 120 (30 min of 15 s). In `recall` top_k is 2 of 5
rows, so cuts, ties, role limits below and above top_k, an incomplete group and an unreadable
row occur; similarities include a negative one. Recalls and captures are made once per
call slot. In `embedder` the restart takes the limit from 2 to 1 while a batch of three has
chunks to go; one tick of uptime tells a restart from none, and a second restart would only
repeat the first. Two Health calls are what one can be overtaken by. In
`records` `MaxPhases` is 2 instead of 7 with up to three elements sent, objects or not, so that
phases are cut off and passed over; every function of the code looks at one item alone, and
at a field's class, of which each has a text. In `envector` a tick is 15 s: the delay of
30 s is 2, the score timeout 2, the warm-up 4; two exchanges let a call outlive the client it
reads and the one after. In `self_report` `Workloads` says how much is logged: four captures
alone, of which two glue to others; six boot failures, which rotate a log of two lines twice
with both processes in it; each failure of each phase once, for the classifiers; one of
each kind together. Seven inodes are never used up. Three Vault clients are the one a call
starts with, one that is exchanged under it and one after it has claimed a boot.
`ReloadPipelines` of Diagnostics happens only while a tool looks, or will: afterwards nobody
would see it.

*Deadlock* is not an error in these runs: after a shutdown, when all processes were
killed, when all calls were made, all lines are logged or the item is handled, nothing is left
to do.

*Fairness.* `BootLifecycle` assumes weak fairness of each boot loop, tool call and
delayed close (goroutines run, RPCs end) and, for `BootSettles`, strong fairness of the
successful outcome of each dependency: a step tried again and again succeeds some time.
The code's retry loop promises nothing without it. `OpenIndex` runs without a timeout,
so "RPCs end" is an assumption there. Nothing is assumed of tool calls beginning, the
user, retriggers or the shutdown. `RunedActivation` assumes calls and the watcher's ticker
go on; a Health that notices a restart is assumed not to wait for ever for the mutex of the
Info cache. `RecallPipeline` assumes that the steps of a recall end, by their deadlines, except
one: the mutex of the Info cache is waited for without a deadline (`adapters/embedder/cache.go:33`).
It is assumed fair, strongly (who waits at a `sync.Mutex` that is given back gets it in the end), and
nothing is assumed of the call that holds it. So `RecallReplies` speaks of the behaviours in which
the mutex is given back again and again. A runed that never answers its holder gives others: those
are `claim_embedder`'s. `ReportsEnd`, the part of `CallsEnd` about the tools, is
conditional in the same way.
`EmbedderClient` assumes that a call goes on, its RPCs ending unless runed hangs, and that the
deadline of a timed call comes; `EmbedderCallsEnd` speaks of behaviours in which runed
does not hang for ever, and nothing is assumed of its coming back. `SelfReport`
assumes that an append that can go on does (a lock held is let go by its holder's own steps, or
its death) and that the steps of a tool end, RPCs by their timeouts and the wait for the mutex
as in a recall; nothing is assumed of the
goroutine that probes enVector, which the call does not wait for.

## 4. Hazards

`PROJECT.json` lists them with their lines and the properties that watch them. Two are without
a property, as the code makes no promise to check: the lost updates of `config.json`
(`adapters/config/dormant.go:64`), and a recall that takes scores from one client and metadata from
the next (`service/recall.go:256`), see section 6. Several properties speak of a part of their hazard only; the notes there
say which part is left and section 6 tells what happens in it.

## 5. What is proved

All theorems hold for every value of the constants that satisfies the named assumptions of their
modules, for infinite sets too where these do not ask for finite ones.

| module | theorem | says |
|---|---|---|
| `BootLifecycleProofs` | `TypeCorrect` | `Spec => []TypeOK` |
| | `BootsNeverOverlap` | `Spec => []SingleDriver` |
| | `GateIsHonest` | `Spec => []GateMatchesDriver` |
| | `ActiveIsCoherent` | `Spec => []ActiveMeansCoherent` |
| | `ConnectionsAccounted` | `Spec => []ConnectionsAreKept` |
| | `ActiveNeverRewired` | `Spec => ActiveIsFrozen`, an action property |
| | `BootImplementsGate` | `Spec => ImplementsGate` |
| `RunedActivationProofs` | `ActivationTypeCorrect` | `Spec => []TypeOK` |
| | `LaunchIsNotRedundant` | `Spec => []NoRedundantLaunch` |
| `CaptureFlowProofs` | `CaptureTypeCorrect` | `Spec => []TypeOK` |
| | `ItemsStoredOnce` | `Spec => []StoredOnce` |
| | `ReportsStayTrue` | `Spec => []ResultsMatchIndex` |
| | `DuplicatesWereUnseen` | `Spec => []DuplicatesOverlapOrDegraded` |
| | `QuietItemsAreCoherent` | `Spec => []QuietItemIsCoherent` |
| | `CaptureImplementsPromise` | `Spec => ImplementsPromise` |
| `EnvectorClientProofs` | `ClientTypeCorrect` | `Spec => []TypeOK` |
| | `InjectedStaysUsable` | `Spec => []InjectedIsUsable` |
| | `DelayDrainsBriefCalls` | `Spec => []BriefCallsAreDrained` |
| | `PanicsAreOverstayers` | `Spec => []OnlyOverstayersPanic` |
| `RecallProofs` | `PipelineTypeCorrect` | `Spec => []TypeOK` |
| | `EachRecordOnce` | `Spec => []RecordsAnsweredOnce` |
| | `HitsOwnTheirScores` | `Spec => []ScoresAreGenuine` |
| | `BestOfAllFound` | `Spec => []BestAreAnswered` |
| | `MergeLoopIsSound` | `Spec => AssembliesAreSound`, an action property |
| `EmbedderClientProofs` | `ClientTypeCorrect` | `Spec => []TypeOK` |
| | `BatchesAreComplete` | `Spec => []BatchIsComplete` |
| | `OversizeIsRestart` | `Spec => []OversizeMeansRestart` |
| | `OutdatedInfoStaysAway` | `Spec => []RegressionOutdatesInfo` |
| `RecordBuilderProofs` | `RecordsTypeCorrect` | `Spec => []TypeOK` |
| | `ClaimsStayBacked` | `Spec => []ClaimsAreBacked` |
| | `GroupsCanBeRecalled` | `Spec => []GroupCanBeRecalled` |
| | `StoredCanBeFound` | `Spec => []StoredSaysSomething` |
| `SelfReportProofs` | `LogStaysBounded` | `ReportSpec => []BootLogIsBounded` |
| | `NewestLinesStay` | `ReportSpec => []NewestLinesAreKept` |
| | `DiagnosesFit` | `ReportSpec => []DiagnosisFits` |
| | `CutsAreCheap` | `ReportSpec => []CutsCostOneNeighbour` |
| | `HistoryStaysNewest` | `ReportSpec => []HistoryIsNewest` |
| | `ReportTypeCorrect` | `ReportSpec => []DiagnosticsTypeOK` |
| | `OkIsEarned` | `ReportSpec => []OkMeansChecked` |
| | `SickVaultGoes` | `ReportSpec => []SickVaultIsReplaced` |

*Boot.* None of the properties is inductive alone. That two boots never overlap
needs the gate: `Retrigger` spawns only from active or dormant, and then nobody may be
driving (`GateMatchesDriver`). That an active gate is coherent needs to know what a running
attempt has injected so far (`InjectedStays`), and that nobody else injects while it runs,
which is `SingleDriver` again. `GateInv` is the conjunction with typing and `OwnsAttempt`
(a loop has an attempt's identity exactly between its Vault dial and its return).
`ConnectionInv` adds `FreshAttempt`: what an attempt will still inject is neither in use
nor waiting for its close, so that a delayed close never hits it. Every step is
classified by a lemma `NextStepShape` (what it may change of gate, deps and bundle),
which the action property and the refinement cite.

*runed.* `NoRedundantLaunch` counts launches but does not say who may
launch next. The holder of the lock is in `EnsureDaemon` past the lock (`HolderIsPastLock`), only
the holder probes again and launches (`OnlyHolderLaunches`), and while nobody has walked away
from a launch, or taken a runed that answers slowly for dead (`abandoned`), a coming runed is awaited
by the holder, so that whoever takes the lock later
finds the socket (`LaunchIsAwaited`). `ErrorsAreCounted` is what typing needs of the
watcher's counter. The run has one process with two calls; several processes are what the
theorem adds.

*Capture.* The steps of a call have three shapes, which a lemma (`CallShapes`) finds: go on with
the item at hand, send its request, be done with it. The invariant about the index speaks of every
request that is on its way or was committed (`Sent`): it names its item and carries its insight,
and its item is at hand and waiting for a reply, or is over and was reported captured or
error (`RequestsAreOwned`). That is what a refusal as near duplicate needs: none of its requests
can be left. With rows distinct by request (`RowsAreDistinct`) and the rows of captured items
there (`CapturedIsStored`) it gives the item stored once, the truth of reports and each
step of the refinement: a commit that adds a row is `Store`, an item that is done is `Report`.
Duplicates need that a check's finding stays true of the rows it saw (`ChecksHold`), coherence
that a quiet item and the exchange of clients exclude each other (`BootOrder`, `Undisturbed`).

*enVector client.* Either a service still holds the client of a call, or the close of that client
is at least as far away as the end of the call's context. This is
what the countdown of delay and deadline preserves, for any delay and any deadline not
longer than it; typing needs that a call is repeated once.

*Embedder client.* The RPC for Info is made with the mutex held (`RpcHoldsMutex`), so whoever
invalidates finds nobody between an answer and its store, and what is stored is of a daemon at
least as new as the last restart that was noticed (`PlansAreSound`). No Info is of a daemon still to
come (`NobodyIsAhead`); a chunk cut by the limit of the present daemon is accepted by it, so one
that is rejected was cut for an earlier one, never for none. What a batch has so far is a
prefix of its answer (`GotIsPrefix`), which says of `got`, a function, more than typing does.

*Recall.* The lemmas about operators carry the weight. `Order` is a bijection that descends
by key and keeps the order of equal keys (`OrderFacts`): each place is the one with so many
before it, and a count over a finite set meets every number. Hence a sort keeps hits, ids and
their number; a filter is one, the ranking is a sort and a cut. The merge loop is a
recursive function, of which there is first to be shown that it exists (`LoopEnds`, `LoopIs`),
by induction on the turns left over a set, the form of induction that needs no
operator as a parameter. The same induction gives what it appends (`LoopAssembles`): exactly the
hits that are left, each once, phases of a group side by side, in descending order of standing,
for a turn takes what stands as high as all that is left after it (`GroupTurn`, `AloneTurn`). That
it never takes from an exhausted list needs scores above the -1.0 that stands for the end of one,
which the bound of similarities gives to entries and hits. `CallInv` is the invariant of one recall:
hits differ by id, searches under way are in `todo`, and while the gate stays open entries and
hits are of the index in use, whose rows only grow.

*Record building.* One step after `Init`, so the argument is about functions. What
`Consistent` leaves is `Backed` whatever it is given; `BuildPhase` and `BuildSingle` end with it. The
objects among the first elements are counted by a bijection (`Read`), so the records of a group have
as many positions as `total` says, and ids that end in the position differ. A field the guard takes
for content is shown by the record it goes into (`Shows`, `FieldsAreRendered`).

*Capture log.* The property compares two numbers; the invariant says where entries are. Whoever
writes holds the flock (`WritersHoldFlock`), so only a cut entry, or the one being written, can be
the last of a line without an end, and all before the last of a line were cut (`GluedAreCut`). An
entry logged without an error is the last of a whole line (`LoggedEndALine`): if it is lost
all the same, the one before it there was cut, and as no two lines share an entry
(`LinesAreApart`) this maps lost entries one to one into the cut ones. All theorems of
`SelfReportProofs` are of the composition, in which a kill strikes both logs: each of its steps is
one of the logs or of the tools (`ReportSteps`).

*History.* Entries are in one line each, so a readable entry has a place. By induction on the lines
visited, what was found from the last line down to line k is made of the matching entries from k
on, newest first, all of them or as many as wanted (`NewestFrom`).

*Boot log.* The bound exempts hosts whose system refused a rename or a stat (`hindered`), as
the code then writes to the full file. It says nothing of the lines still on their way: a file has room for
the lines of the processes that looked at its size already or will not look again. For the newest
lines: as long as processes do not overlap, at most one has the log open, the log holds all
lines after some number k and the kept file the last `MaxLines` up to k, in every step of
a rotation.

*Diagnosis.* A report is always the classification of an error that can occur in its phase
(`ReportsAreVerdicts`); that each of these fits is a case distinction over phases and what
adapters return in them. The property is exact in every phase. The kind belongs to the dependency of
the phase, or to the Vault for a status of `OpenIndex`; the advice is to act if and only if
configuration, credentials, request, certificate or manifest are at fault (`UserMustAct`),
except for a malformed endpoint, where it is to wait. What is wrong with these two is told in
section 6.

*Diagnostics.* Vault's client is there before the keys are said to be loaded and is never taken
away, so a call that found them loaded looks at Vault's health in the end. Between the claim of a
failed probe and the next client nothing opens the gate.

*Only model-checked*: liveness (`BootSettles`, `ShutdownStopsBoot`, `ActivationEnds`,
`WatchedBootstrapCompletes`, `RecallReplies`, `EmbedderCallsEnd`, `CallsEnd`), which is outside the
prover's reach, and the three claims of section 6, which are false.

*Assumptions.* They are named in the modules and evaluated by every run; most give shapes and
finite sets. Two say more. `PipelineAssumption` keeps similarities above -1.0: with a standalone
hit at -1.0 or less left after the last group the merge loop would take one group more and panic
(`service/recall.go:600`). `RecordAssumption` says what the classes of texts have to do with
each other: the empty text is blank, a blank one has no title, the text of a single capture is
not blank (`mcp/state.go:63`).

## 6. Where code and comments disagree

Three claims, each checked by one run that finds it violated:

1. `claim_credentials`: reload is to pick up new credentials (`service/lifecycle.go:927`).
   During a boot that read the old ones `Retrigger` is a no-op.
2. `claim_recovers`: a truncated file is to be survived (`config/dormant.go:16`). The next
   boot retries parsing forever.
3. `claim_embedder`: a hung dependency is to surface in seconds (`service/recall.go:55-58`). The
   Info cache holds its mutex during an RPC, for a capture without a deadline, and a recall with
   one waits in front of that mutex for as long as runed hangs. So do diagnostics.

Others, met while modelling and not run:

- *Boot and configuration.* Behind activate's pre-checks "the user's own deactivation is the only
  thing pinning the daemon dormant" (`service/lifecycle.go:691-695`). Credentials with an empty or
  unknown state, by hand or by a write between configure and activate, pin it too; activate does
  not clear that. `lifecycle/boot.go:187` says the boot error is nil while active; it is cleared
  one step after the gate opens. A `KeyDir` error (`lifecycle/boot.go:456`) would not close the
  Vault connection; `SaveEncKey` has computed the same directory just before. `SaveEncKey` leaves
  an empty EncKey to its caller (`adapters/keymanager/keys.go:29`) and `bootOnce` does not
  look: the boot goes on with an older key file, although keys are to come anew from the Vault
  (`docs/v04/spec/components/vault.md:314`), and diagnostics call the active process not OK.
  The gate changes before the boot error does, so a loop in its tail may overwrite what a new one says; diagnostics
  show that error until the next verdict. It is in the model, and no property speaks of it.
- *Activation.* "Activation will complete automatically" (`service/lifecycle.go:800`): not when
  the watcher flag is still set by a watcher that gives up (`service/lifecycle.go:818`): the call
  that finds it set starts no watcher, and the one that leaves watches no more. Nor after three
  errors of Health in a row none of which calls for a boot: the watcher ends without one
  (`service/lifecycle.go:859-865`). `WatchedBootstrapCompletes` speaks of neither.
  Configure's `VaultReachable` is true of a Vault that answers NOT_SERVING.
- *Delayed close.* The delay is to drain the calls in flight (`mcp/tools.go:100`). It does so for calls
  with a deadline of at most 30 s; an insert and the score of a novelty check have none, and the
  warm-up of reload takes up to 60 s: their client may be closed under them, and what they use is
  a pointer checked before.
- *Diagnosis.* `status.FromError` unwraps, so an enVector error at `OpenIndex` with a gRPC status
  gets a kind of the Vault (`lifecycle/boot_classify.go:261`). A malformed endpoint
  (`adapters/vault/endpoint.go:35`) is `vault_internal` by `lifecycle/boot_classify.go:228-230` and
  not `vault_bad_endpoint` (`domain/boot_error.go:33`), and so said to be worth a retry, although that
  is to be false when the user has to edit the configuration (`domain/boot_error.go:98-101`). A full
  disk or a missing key file (`key_save`, `envector_init`) are worth one too, by their kinds. A syntax
  error in `config.json` is `config_invalid` and not `config_parse` (`domain/boot_error.go:28`), a CA file
  that is no PEM is `vault_dial_opts` and not `vault_ca_file` (`domain/boot_error.go:34`).
- *Diagnostics.* Called a tool that only reads, but its probes retrigger boots. "Configured = a
  Vault gRPC client is wired (boot loop reached Active)" (`service/lifecycle.go:146`): the client is
  wired long before, and by boots that go on to fail.
- *Diagnostics, after an exchange.* The probe of the Vault is of the client read first, the keys are
  those of the moment of the verdict: OK may join the health of one Vault with the keys of the next.
- *Capture.* A reply of `Insert` with fewer ids than vectors is to be an error
  (`docs/v04/spec/flows/capture.md:600-604`); it is logged and the item counts as captured
  (`service/capture.go:157-160`). The model's server answers with all ids or fails.
- *Capture log.* `Tail` returns an error for a file that cannot be read, and for a line of more than
  256 KB (`adapters/logio/capture_log.go:97-103`, `:116-118`); `capture_history` then answers ok and
  empty (`service/lifecycle.go:413-417`). `HistoryIsNewest` is of histories that could be read.
- *Boot log.* "One generation kept" (`lifecycle/boot_log.go:131`): two processes that rotate one
  after the other rename a file just begun over the kept one. `BootLogger.Close`, `BootLog()`,
  `InflightTracker` and `GracefulShutdown` are not used by anything.
- *Embedder.* `docs/v04/spec/components/embedder.md:63` promises an error when the dimension of a
  vector is not the one of Info; the code compares no dimension. `Health` notices a restart by a
  lower uptime (`adapters/embedder/client.go:190`): a runed restarted since the last sample that has
  run longer than it by now is taken for the old one.
- *Items.* The schema shown to agents says that a batch item with one of title, decision, problem
  and rationale is enough (`service/capture.go:392`). The parser does not read "decision"
  (`domain/extraction.go:178`): alone it is rejected, beside others dropped, and so are "domain" and
  "status" (the parser wants "status_hint"). The decision of an item of one phase is not read
  (`domain/extraction.go:167`). `docs/v04/spec/types.md:531` and `:536` map `tier2.capture`,
  `tier2.domain` and `group_summary`; the parser reads none of them, the domain is always "general".
  `service/capture.go:86-88` calls a record without content "structurally impossible". An item of
  white space passes, and so does a second phase without fields beside one that has
  some: its record embeds boilerplate unless the group has an insight.
  `policy/record_builder.go:102`: a title is never to degrade to "General decision". It does
  when the first source at hand is short, whatever the others say. Ids of records of different items
  are equal when their titles begin with the same three words on one day; recall keeps one hit per id.
  `domain/extraction.go:51` speaks of at most 5 records in a bundle, which the parser does not see to.
- *Recall.* When the client is exchanged between score and metadata, positions of one index are
  looked up in the other (`service/recall.go:256`); `ScoresAreGenuine` is of recalls in
  which it was not. `service/recall.go:55` says that a hung dependency surfaces as an error; the searches
  swallow it and the recall answers ok with fewer or no hits. `docs/v04/spec/flows/recall.md:938`
  promises members of a group in the order of their phases; the ranking that follows sorts all
  hits by adjusted score once more. A year in a query means "last year" (`policy/query.go:75`),
  whichever it is. Only the first three expansions are searched, so the ones by entity never
  are when the query asks for a rationale.
- *Delete.* `delete_capture` (`service/lifecycle.go:459`) adds a reverted copy and leaves the
  accepted row, and `SearchByID` never decrypts, so it finds no sealed record. It is not
  registered as a tool, for that reason (`mcp/tools.go:180`), and not modelled.

## 7. Not modelled

Wording and layout: redaction patterns, truncation, the headings of a payload; the shape in
which lists and titles are cut; texts of hints and what `ClassifyEnvectorError` makes of a
probe's error. Query parsing; endpoint parsing; ciphers and FHE; key files, except that saving
may fail; MCP registration; the Vault client's HTTP fallback and `lifecycle/shutdown.go`, which
nothing calls. A runed started by hand, and `RUNE_STATE`, are outside the modelled deployments.
The unary interceptor is no process of its own: it retriggers a boot and returns the error. The
thresholds of novelty appear as "virtually identical or not".

## 8. Plan

1. (done) boot life cycle and its abstract gate; runed activation; capture and its promise; recall;
   embedder client; enVector clients; both logs; diagnosis and diagnostics; record building.
2. (done) proofs of the safety properties of all of them.
3. Proofs worth a look: action properties nobody states yet, as for the boot (`ActiveNeverRewired`):
   an answer that was given stays, the index a recall reads only grows; an abstract recall, which
   answers the best of some set of hits, that RecallPipeline implements.
4. Models worth a look: query parsing and expansion against a reference definition.
