# A TLA+ model of the browser agent MCP farm

The farm (`src/src/*.ts`) gives AI agents leased browser contexts, captures what
they see as hashed artifacts, and refuses a report whose claims are not grounded
in such artifacts. It is one Node process per `serve`, several of which may share
a machine and its browser profiles. This directory models the parts of it whose
correctness depends on the order of events, and the parts that decide (what to
capture next, what a verdict is), checks the models with TLC on small instances,
and proves with TLAPS, for every instance, each safety property that TLC checks of them.

Paths below are relative to `src/src/` unless they say otherwise.

## 1. Inventory

A method of a Node program runs to its first `await` without interruption, so the
unit of interleaving is the stretch between two awaits inside one process, and the
file system call between processes.

| Component | State it keeps | What is hard | What makes it correct | Module |
|---|---|---|---|---|
| Scheduler (`scheduler.ts`) | jobs, queue, abort controllers, `running` | the slot is returned one promise callback after the status is final; cancel races with settlement; retention runs inside other calls | no slot lost or doubled, first come first served, a cancelled job ends cancelled, no missed wake-up, bounded memory | `EvidenceRunScheduler`, `JobService` |
| HTTP job server (`http-server.ts`) | none of its own | any order of requests | is the scheduler's environment | same |
| Leases (`lease-manager.ts`) | status, terms, expiry and pages of each lease | expiry is noticed lazily, by whoever looks first | cap, page limits, fences; an expired lease never returns; abandoned capacity recovers | `LeaseManager` |
| Browser pool, farm service (`browser-pool.ts`, `farm-service.ts`) | contexts, pages, shared browser and its launch promise, profile locks | many awaits, each letting other calls in; failures midway; browser crash | one context per profile, no context or lock leaked, a returned page id is usable | `BrowserPool` |
| Profile lock (`profile-lock.ts`) | one file per profile on disk | several processes, no atomic create-with-content, process death | mutual exclusion, a dead process never blocks a profile | `ProfileLock` |
| Media capture (in `browser-pool.ts`) | captured bodies of a page, counters | bodies are awaited concurrently, limits are read before the await | byte limits hold, index and bytes agree | `MediaCapture` |
| Evidence workflow, abort (`evidence-runner.ts`, `abort.ts`) | the stage of a run, its lease, its rows | an abort settles the caller while work goes on; any stage may fail | lease, context and pool are given back on every path (a named profile's context may stay when its release fails); a cancelled run never completes | `EvidenceWorkflow` |
| Artifact ledger (`artifact-writer.ts`) | files and `artifacts.jsonl` | crash between rename and append, two writers of one id | every row names bytes with its hash | `EvidenceLedger` |
| Claim gate (`claim-gate.ts`, `source-independence.ts`, `grounded-extraction.ts`, `farm-service.ts`) | `claims.jsonl`, `citations.jsonl`, `judgments.jsonl` | four ledgers read one after the other while others append; what counts as independent | cite-or-fail: accepted means grounded; grounded is not refused for good | `EvidenceLedger`, `ClaimGate` |
| Evidence bundle (`evidence-bundle.ts`) | manifest, Merkle root, signature, archive | what a bundle proves after it has travelled | what verifies brings the bytes it was exported for | `EvidenceBundle` |
| Hash-chained logs (`decision-log.ts`, `timestamp-anchor.ts`) | a chained JSONL file each | unlocked read-then-append; torn lines | what verifies is complete, or vouches for all before its last honest entry | `HashChainLog` |
| Capture cache and retention (`capture-cache.ts`, `run-lifecycle.ts`) | cache entries; run directories, markers | an entry outlives the run it names; sweeps beside captures | a replay is what was captured and says how old it is; only the old is removed | `RunStore` |
| Critique queue (`critique-runner.ts`) | one JSON file | read, modify, rename by several processes | never stuck, empties | `CritiqueQueue` |
| Destination triage (`destination-triage.ts`) | none (pure) | two budgets filled in one pass, advice for a rerun | the best are selected, the advice leads somewhere | `DestinationTriage`, `DestinationDeepening` |
| Destination recovery (`destination-recovery-plan.ts`, `cli.ts`) | artifacts of a run | old, unreadable and synthesized advice; dedupe, filters | what was advised is handed over | `DestinationRecovery` |
| Search follow-ups (`search-*.ts`, `candidate-deepening-ledger.ts`) | artifacts of a run, child runs | overlapping calls that may die | limits, no page twice, true outcomes | `SearchFollowups` |
| Frame sampling (`frame-sampler.ts`) | frames of a video | rounds share a budget; the player changes its mind | the reported plan is what was done; the advice works | `FrameSampling` |
| Captures without a browser (`intent-profile.ts`, `http-tier0-capture.ts`, `public-gateway-capture.ts`, `acquisition-method-planner.ts`, `browser-obstructions.ts`) | bundles of a run | redirects, caps, several obstructions at once | no fence is left, no wall is walked round | `BrowserlessCapture` |
| Official APIs (`official-api.ts`) | rows of a run | one lookup of several fails | every lookup has its row | `OfficialApi` |
| Acquisition memory (`acquisition-method-memory-bridge.ts`) | the operator's notes | five files, one after the other; a rerun | the operator's text stays; LOG comes last | `MemoryVault` |
| Profiles and secrets, candidate extraction, source registry, extractors, platform adapters, interfaces | none, or opaque | | | not modelled (section 5) |

`PROJECT.json` lists every component with its sources and status, and every hazard
at its line.

How the modelled ones interact:

    HTTP client --> EvidenceRunScheduler --(executor)--> EvidenceWorkflow
                        EvidenceWorkflow --(stages)--> BrowserlessCapture, OfficialApi, RunStore (replay),
                                                       FrameSampling, MediaCapture, the farm service
    MCP client  --> FarmService --> BrowserPool --(permission)--> LeaseManager
                                    BrowserPool --(per profile)--> profile lock file <-- other farm processes
                    FarmService, captures --(append, read)--> files and ledgers of a run <-- other farm processes
    operator    --> commands on a finished run: bundle, triage, recovery, follow-ups, memory bridge,
                    critique queue, retention

`BrowserPool.tla` EXTENDS `LeaseManager.tla`: a pool action and the lease call it
makes are one step. The pool's view of the lock file is its owner; how a process
comes to be that owner is `ProfileLock.tla`. `DestinationRecovery` EXTENDS
`DestinationDeepening` EXTENDS `DestinationTriage`, as the code imports them. The
other modules share no variable; `MCSharedFiles` and `MCPlanning` put them side by
side, one part per behaviour, so that one run checks them.

## 2. What is modelled, and how it corresponds to the code

`PROJECT.json` ("map") gives the lines behind every definition.

**`EvidenceRunScheduler`** (all of `scheduler.ts`). The variables are the fields of
the class plus `task[j]`, the place where the promise chain of job j stands:
`executing` (awaiting the executor), one of the three settlements, `finishing`
(`runJob` has returned, its `.finally` has not run), `idle`. `Enqueue`,
`CancelQueued`, `CancelRunning`, `Delete` and `PruneRequest` are the methods;
`SettleExecutor`, `RunJobContinues` and `ReleaseSlot` are the three callbacks of
one job. Each includes the `pump` and `pruneTerminal` it calls. `pump` is
written without a loop: `Shifted` is the number of ids it takes off the queue,
the first at which its loop condition fails. The clock is coarse, so that
several jobs may end within one millisecond and the stable sort of retention
matters.

**`JobService`** is the abstract specification: a service with `Slots` servers and
one waiting line. `EvidenceRunScheduler` implements it through the mapping
`Service` (waiting line = queue, served = promise chains that hold a slot, outcome
= terminal status or "forgotten"). TLC checks the refinement on the instance of
`scheduler`, `ImplementsJobService` proves it for every instance.

**`LeaseManager`** (all of `lease-manager.ts`). The code compares `expiresAt` with
`now()` and nothing else, so the model keeps the difference `left[t]` and a `Tick`
that runs it down; 0 is "past". `Holding` are the leases that `activeContextCount`
counts and on which `assertActive` succeeds, `Overdue` those active on paper only.
The lazy expiry that a refused call performs is the action `LazyExpiry`. Calls of a
non-owner write nothing and are left out. A request is a record of what the guards
look at: ttl, read-write, allow-list or not (`fenced`), page limit, storage policy
and `key` (profile, state file or user-data directory). Whether a url is inside the
allow-list is a Boolean. `markCrashed` is public but has no caller; the action is
there because the method is.

**`BrowserPool`** (the stateful part of `browser-pool.ts`, as `farm-service.ts`
drives it). One `openPage` call is a process with a program counter:

    OpenPage            permission; map hit, or the profile lock taken     -> loading / opening
    StateLoaded         saved state read; browser present, awaited or launched -> launching / creating
    BrowserAwaited      the launch promise settled                         -> creating
    ContextCreated      contexts.set                                       -> opening
    EnsureFails         the catch block: locks returned                    -> done
    PageCreated         newPage succeeded, or failed outside the try block -> navigating / done
    Navigated           state.pages.set, registerPage, or failure          -> done

`closeContext` activations are named by their caller (`Releaser`, "reap",
"shutdown") and end in `CloseEnds` or `CloseFails` (hardening the directory throws
before the context is closed); both run the `finally` block. `shutdown` is cut at
its awaits (`ShutdownBegins`, `ShutdownNext`, `ShutdownClosesBrowser`,
`ShutdownEnds`), the reaper is `ReapBegins`, `ReapNext`. Playwright's contexts,
pages and browsers are `liveCtx`, `livePages` and `launchState`; `BrowserCrash`
takes all contexts of a browser with it. `ForeignLock` is another farm process that
takes and frees a lock file. A context is named by the call that created it, a page
by the call that opened it. The variable `mode`, fixed in the initial state, says
which of four unusual things a behaviour may contain: overlapping calls on one
lease, a browser crash, a shutdown, a directory that cannot be hardened.

Simplifications of this module: one `key` stands for profile name, state path and
user-data directory, so two spellings of one profile do not occur; for a lease
without saved state the code reaches `ensureBrowser` in the same turn, the model
allows a step in between; locks left by dead processes are `ProfileLock`'s matter,
here a foreign lock is simply held; captures and page actions (click, fill, frames)
are left out, they ask the lease and keep no pool state.

**`ProfileLock`** (all of `profile-lock.ts`). One file system call is one step and
another process may run, or this one die, before the next. A file is an inode, so
that a descriptor may outlive the path. `aged` files are past
`PROFILE_LOCK_TTL_MS`. The history variable `lapsed` marks holders who let their own
record age or failed to re-stamp it; the TTL takes the lock from them by design.
Reuse of a dead process's pid is left out.

**`EvidenceWorkflow`** (`captureBrowserEvidence` and its helpers in
`evidence-runner.ts`, with `abort.ts`). `todo` is the sequence of stages still to
run, as the options and what has been found so far make it (`Opening`, `Attempts`,
`Browsing`, `Sampling`, `Reading` ...). A stage begins (`Begin`; `StopsAtCheck` is
`throwIfAborted`), does its work and `StageEnds`, or is `Interrupted`: `withAbort`
settles for the caller and the work goes on as `late` (`LateWork`). Each kind of stage has its
own outcome: which rows it adds to the ledger, whether its failure is recorded and
the run goes on, or ends the run. `Finally` is the `finally` block, `Settle` the
promise of the run. The option `profile` says whether the run uses a named profile, and how:
`closeContext` saves the state of one first, and when its directory cannot be hardened
(browser-pool.ts:1113) it throws before it closes the context and still drops it from the map.
The workflow swallows that error (evidence-runner.ts:974) and does not try again, so
`Released` may leave such a context open (`ClosedUnlessUnsaved`). `Deaf` are the stages with a
wait that nothing ends: making and ending the OCR worker (ocr.ts:119, 220), which a model of
whole stages cannot tell from the recognitions between them, and reading the client state. A
lease may expire at any point. What a stage computes is in the
modules below; here it is the kind of row it yields.

**`EvidenceLedger`** is the run directory: files, `artifacts.jsonl`, `claims.jsonl`
and `citations.jsonl`, used by many calls of one process or several. One awaited file
operation is one step; a call that stops anywhere has died there.

    writeCaptureBundle  BeginBundle, WriteFile (twice), AppendRows
    addClaim            CheckEvidence, AppendClaim, AppendCitation, then a gate
    runClaimGate        ReadArtifacts, ReadClaims, ReadCitations, HashRow*, HashingEnds,
                        GroundClaim*, GateEnds                        (final mode)
    exportBundle        ReadArtifacts, HashRow*, HashingEnds

Bytes, hash and origin of a file are one value, the writer that wrote it. A bundle has
a metadata file and one body; a claim quotes either the bytes it cites or other bytes.
A reader keeps the number of lines it has read: the ledgers only grow, so that is its
snapshot. Left out here, because `ClaimGate` and `EvidenceBundle` have them: claim
types, corroboration, judgments, capture transcripts, the Merkle root and the signature.
Left out altogether: `manifest.jsonl` (no gate reads it), torn lines (an append is one
step), smoke mode (it only drops errors about placeholders).

**`ClaimGate`** is the verdict of a final gate as a function of the rows (`ClaimOk`,
`JudgmentOk`, `TranscriptConsistent`, `GateOk`), and the calls that append rows. A text is a sequence of words,
a source a record of what the verdict looks at. `IndependentSourceGroups` is the union-find of
`source-independence.ts` as the connected components of `Echo` (same registrable
domain, or shingles alike). `GroundExtractedClaims` makes
proposals, which `AddProposal` adds one by one, as the code does.

**`EvidenceBundle`**: `MerkleRoot` by levels, as in the code; `BuildBundleManifest`,
`ExportBundleArchive`, the command that exports (`ExportBundle`) and what `verify-bundle`
accepts (`Verifies`). `DirectoryChanges` and `BundleChanges` are what happens to files, rows,
root or signature under way, rows whose hashes are nodes of the tree (`Paired`) among
them. A hash is the value it hashes.

**`HashChainLog`**: both logs, as writers that read the tail, optionally ask a time-stamp
authority, and append. A read that fails finds no lines (`Reads`), for a writer as for the
verifier, which is `VerifyOk` of the lines that were read. A writer may die before it appends,
within its line, or after all of it with or without its newline; the next line then goes on
the same one. An editor alters an entry, forges one with a fresh hash that fits the entry before
it, takes its time-stamp token away (which the hash does not cover), removes or swaps entries,
as often as `MaxEdits` says and between any two steps. A hash is the entry without its hash.

**`RunStore`**: the runs root. A capture writes a directory; later the run stamps it with the
time that is then and the Playwright version that is installed then (or that it had read
before), and writes the identity and the entry (`WriteEngineIdentity`, `StoreCachedCapture`); a replay reads the identity, the entry, then
each file (`ReadEngineIdentity`, `LookupCachedCapture`, `LookForFile`, `ReadFile`, `Serve`);
a retention command measures and removes run by run (`PruneRuns`, `RunAge`, `RemoveAged`,
`PruneRunsByBudget`, `Measure`, `RemoveOldest`, `Purge`, `Strip`, `Mark`). Each call is
one step; playwright may be upgraded between any two. Two captures do not overlap in the model,
nor do two retention commands.

**`CritiqueQueue`**: `ReadQueue` (`getActiveTask`), `WriteQueue` (the rename),
`CommandDies`; a reviewer writes the outputs.

**`DestinationTriage`** and **`DestinationDeepening`** follow `destination-triage.ts`
rule table by rule table: a url or a text is the set of words and patterns that the
regular expressions look for; the tables (`KindRules`, `IntentRules`, `ProviderRules`) are
sequences of <<answer, condition>>, evaluated by `FirstRule`. Scores are the code's
numbers, with its rounding. `FollowAdvice` reruns a page with the budgets the summary
advises.

**`DestinationRecovery`**: which triage artifacts are read (ledger, else a walk), what is
synthesized for old versions, the plan, its check and filters, and the operator who
follows it (`SignIn`, `OpenRecovered`). `Selection` is what it, the follow-ups and the deepening filter
lists with: `Chosen` is the elements at some positions, in their order.

**`SearchFollowups`**: `PlanArms`, `PlanLedger`, `BuildPlan` are pure; `Plans`, `WritesPlan`,
`RunsChild`, `PassesOver`, `WritesOutcome` are the awaits of one call, `CallDies` its death.

**`FrameSampling`**: `TimestampPlan`, `DensePlan`, `SceneChanges` and `Advice` are pure; the
four rounds are the actions, with `LengthChanges` between them. A picture is the set of bits
of its perceptual hash.

**`MediaCapture`**: `Responds`, `BodyArrives`, `BodyUnavailable` for each response,
`CaptureBegins`, `Drained`, `BundleWritten` and `CaptureFails` for `capturePage`.

**`MemoryVault`**: a bridge reads two files, renders five, writes them in order; it may
die between two or within one. A text is whether the operator's part is there, and the runs that
have written to it.

**`BrowserlessCapture`**: from question to page. `InferShapes` to `RecommendedOptions` are
`intent-profile.ts`; `Request` is one GET under the fence of allowed hosts, and `Declines`
leaves the page to the browser; the text of the page, be it one that plain HTTP brought or the
browser's, shows a set of signals (`Classify`), of which `ClassifyBrowserObstructions` and
`ObservedFailure` make a plan (`PlanAcquisitionMethods`); gateways are asked one after the other (`TryGateway`).

**`OfficialApi`**: the readiness report, then the lookups, each of which is skipped by name,
called, failed or aborted.

`MCLeaseManager`, `MCBrowserPool`, `MCEvidenceLedger` and `MCEvidenceWorkflow` add requests and
symmetry for TLC. Three modules put parts that share nothing side by side, each behaviour being
of one of them: `MCServices` the scheduler and the leases, `MCSharedFiles` the lock, the runs
root, the chained log and the critique queue, `MCPlanning` the ten decision modules with the
values they work on.
Definitions named `X_Something` next to a definition `X` are mutants: the form a plausible
bug would give `X`. They are used by nothing; substituting one makes the property it is
listed with fail.

## 3. The runs

| Run | What it asks | Result |
|---|---|---|
| `scheduler` | 4 jobs, 2 slots, 1 retained result, clock 0..2: the books (`SlotAccounting`, `QueueMatchesStatus`), no missed wake-up (`WorkConserving`), `CancelHonoured`, `RetentionKeepsTheNewest`, and refinement of `JobService` | holds (75 255 states) |
| `services` | 3 jobs, 1 slot: queued jobs leave the queue, cancelled jobs end cancelled; or 3 leases of four kinds under a cap of 2: cap, no revival, abandoned capacity recovers | holds (45 319 states) |
| `ledger` | 2 captures, 2 authors, a gate or an export on one run directory: what is accepted is grounded (`OkMeansGrounded`), rows and citations are backed at every moment (`LedgersBacked`), an honest run is accepted (`HonestRunAccepted`) | holds (3 727 885 states) |
| `pool` | 2 leases, 2 calls; expiry, reap, release, a foreign process, and either crash and shutdown (calls awaited) or overlapping calls and failing directories: `ProfileExclusive`, `NothingOutOfReach` and `OrderlyReleaseCloses` for clients that await their calls, `LocksBacked` for all | holds (1 366 898 states) |
| `workflow` | a run with four sets of options; an abort, an error, an expiry anywhere, a named profile that cannot be saved: `NothingLeftOpen`, `OwnClaimsStand`, `AbortHonoured`, and `CancelSettles` (a cancelled run ends) | holds (147 972 states) |
| `shared_files` | the lock, the runs root, a chained log or the critique queue, one file system call a step, death anywhere: `HeldByOne`, `RefusedByHolderOnly`, `ReplayedHonestly`, `RetentionIsDue`, `VerifiedIsComplete`, `PointerNamesFirstOpen`, and `CritiqueQueueDrains` | holds (2 188 313 states) |
| `planning` | each decision against what it promises: one property per module | holds (539 301 states) |
| `pool_reap_leak` | does the reaper close every lease that ran out? | no, see below |
| `pool_release_race` | does releasing a lease always close its context? | no, see below |
| `profile_lock_race` | is the lock exclusive when two processes acquire it at once? | no, see below |
| `replay_prune_race` | is a vanished run only ever a cache miss? | no, see below |
| `log_cut_tail` | does a log that verifies have every verdict? | no, see below |

What the properties of `shared_files` and `planning` say, in a line each (the modules say it
in full):

* `HeldByOne`: two processes hold a profile only if one let its lock lapse, and the file names
  the holder. `RefusedByHolderOnly`: a lock left behind refuses nobody.
* `ReplayedHonestly`: page and screenshot of a replay were captured together, by the engine
  whose key was looked up, and stamped as long ago as the claim says; that engine was stamped
  with the version the replaying run finds. (That the stamp is right does not hold: "What the
  model shows beyond the runs".)
* `RetentionIsDue`: by the times at which the runs were really written, the budget sweep never
  removes a run and spares one written before it, except a run written again after the sweep
  had begun; by what it measured it removes no more than it must; and a screenshot is missing
  only where a marker says so or where the command that was to write it has died.
* `VerifiedIsComplete`: a log that verifies and that nobody has edited is every line that was
  written, in order, each by somebody who had read all before it. With any edits
  (`VouchesForPast`), where an entry stands in a log that verifies, what it was appended to
  stands before it, whole and unaltered; what came after the last honest entry nobody vouches for.
* `PointerNamesFirstOpen`: the queue is never stuck.
* `VerdictsStand`: echoes count once, what has enough independent sources is not refused, an
  unfit row stays unfit. `BundlesHold`: a bundle that verifies against an anchored or signed
  root brings the bytes it was exported for.
* `SelectsTheBest`: the single pass over two budgets equals its declarative definition.
  `NextStepsAccounted`: the advised rerun gets somewhere, and links of children are neither
  lost nor offered twice. `RecoveryHandedOver`: every advised link becomes a step.
* `FollowupsAccounted`: limits, no page twice, outcomes tell the children started.
  `SamplingKeepsPromises`: the reported plan was carried out, and the advised threshold does
  what is promised of it. `MediaWithinPage`, `VaultInOrder`, `ComesByItHonestly` (redirects stay
  within the fence, an access wall ends the search whichever way the page came, one gateway
  text at most),
  `ApiAsForetold` (each lookup has the row the readiness report foretold).

### Why the bounds are enough

* Scheduler: with two slots, a job needs to wait behind two others while a third
  waits behind it; four jobs are the least. Two values of one clock tick and a
  second tick make equal and unequal timestamps; one retained result with a prune
  to 0 and an age prune makes both halves of `pruneTerminal` bite. `MaxJobs` and
  `MaxClock` bound the counters.
* Leases: three leases for a cap of two; ttls 1 and 2, so that one lease is overdue
  while another lives; two pages against limits of 1 and 2.
* Pool: two leases over one saved session is the least that can conflict on a lock;
  two calls the least that can overlap. `MaxLaunches` = 2 lets a launch be
  followed by one more (after a crash and shutdown). A ttl of 1 makes expiry one
  tick away from anywhere.
* Ledger: two captures, so that a quote can come from the wrong one and a row can
  appear between two reads; two authors and a separate gate, so that a gate runs
  while one claim is whole and another half appended. Readers change nothing, so a
  gate and an export need not run in one behaviour: each inspection is one or the
  other. `Reuse` is FALSE: callers give each capture its own id, or the default.
* Workflow: four sets of options (`MCOptions`), between them every branch of the plan: tier 0,
  cache, a pool of its own or shared, waits, frames, dense rounds, OCR, APIs, gate, an
  intent that overrides the options, and named profiles of both kinds: a persistent one in the
  run's own pool, one of saved state in a shared pool.
* Profile lock: a holder, a reaper and a bystander; `MaxFiles` lets the path name a new file
  after each of them has gone. Runs root: two directories, so that one is removed while the
  other is spared, and two captures, so that a directory is reused; a clock of 0..2 with a ttl,
  an age and a bucket around 1; a budget of 2 that one run fits into without its screenshot and
  exceeds with it, and two never do with theirs. It is looked at in two scenes: "runs" has all
  commands of `Retention` and one engine, "cache" has two engines, upgraded at any time, and of
  the commands only the purge, which can take any run at any time. Log: two writers, three lines,
  two edits: an edit before and one after an append, or two that must fit each other; each entry
  comes with a token (`Tokens`), on which nothing depends but what an editor may take away. Queue: two commands, four
  tasks, so that an undone completion is followed by one that must not be.
* Planning: pages of five links over three hosts with every budget that binds (0, 1, 2, over
  the ceiling); children of every verdict; ledgers that are unreadable, repeated or point
  outside; two follow-up calls on two reports; films of a few frames with a length that is
  told, not told, or changes; media of which any two fit and three do not; two bridges of
  two runs of one day (a rerun of one run is in the theorem only); sources in one, two and three groups with a chain of echoes;
  runs of 0 to 4 artifacts, so that Merkle levels are even and odd; redirects of every
  length up to the cap and one over it.

### Fairness

The fairness of the scheduler: promise callbacks run, because Node runs its microtask
queue; executors settle, because their awaits carry timeouts. Clients owe nothing.
That of the leases: time passes. `PoolFairSpec`: Playwright's promises settle (they
carry timeouts) and time passes. `ReapedSpec` adds a caller that keeps calling
`farm_reap_expired`; it is used for the one run that shows that even this is not
enough.

`FairSpec` of the workflow: the run goes on by itself, an abort interrupts what is raced
against it, except in the stages of `Deaf` (OCR with its worker, the client state), and the
stages of `Prompt`, which do not watch the signal (file operations, the farm's own calls), come
back. Every other stage may take for ever, and `CancelSettles` exempts a run that hangs in a
`Deaf` one. (docs/DEVELOPMENT_HISTORY.md:356 promises that OCR loops and waits of recognition
observe the signal, which they do.) `FilesSpec`: a reviewer writes outputs, commands are given again, and not every
one is killed between its read and its rename (strong fairness of `WriteQueue`). `ServicesSpec`
and `FilesSpec` state the fairness of a part where it is that part's behaviour.

### Disagreements between code and documentation

* **The reaper skips leases others saw first** (`pool_reap_leak`). `reapExpired`
  closes the contexts of the leases it marks itself. A lease that
  `farm_list_leases`, or its owner's own refused call, marked first is never among
  them: its context and profile lock stay until shutdown. `mcp-server.ts:73`
  promises to "Reap expired leases and close their contexts."
* **Release during openPage** (`pool_release_race`). `releaseContext` finds no
  context while `ensureContext` awaits the browser, and returns. The context then
  enters the map of a released lease; nobody is closing it. `mcp-server.ts:71`
  promises that release frees the profile lock and resources.
* **The lock file is empty for a moment** (`profile_lock_race`). `openSync("wx")` and
  the write are two calls. A process that gets EEXIST in between reads an empty
  file, calls it stale and unlinks it; both processes hold the profile.
  `profile-lock.ts:76` says they cannot.
* **A replay may throw** (`replay_prune_race`). `tryReplayCachedCapture` asks `existsSync` and
  then reads the file (evidence-runner.ts:1074); when retention removes the run in between,
  the read throws, the capture is recorded as failed, and the browser is not tried.
  evidence-runner.ts:1044 says it "Returns undefined (a MISS) whenever anything is not
  perfectly safe to serve", "a missing source run dir" included.
* **A cut log verifies** (`log_cut_tail`). The chain ties an entry to those before it; whoever
  removes the last ones, or the file, leaves a log that verifies. decision-log.ts:3 says that
  "altering or removing any historical verdict breaks the chain and is detectable", and
  timestamp-anchor.ts:2 says so of anchored bundles.

### What the model shows beyond the runs

Most of these are the exceptions the properties have to make.

*Pool and ledger* (change one constant of `pool.cfg` or `ledger.cfg`):

* `Modes` with "overlap" for `NothingOutOfReach`: two `openPage` calls of one lease both find
  no context, both create one, and the later `contexts.set` (browser-pool.ts:1219) hides the
  earlier, with its page.
* "dir_fails": when `ensureHardenedDir` throws (browser-pool.ts:1113) the `finally` block
  frees the lock and drops the map entry of a context that is still open.
* `Reuse = TRUE` in `ledger.cfg` (two captures given one `captureId`, which the tools
  accept): the properties fail, because the second capture replaces the files of the first
  (artifact-writer.ts:92) and the row of the first stays; the gate hashes a file and opens
  it again for the quote (claim-gate.ts:113 and 398), and it may be replaced in between.
* An author that dies between its two appends (farm-service.ts:400) leaves a claim
  without a citation, and every later gate refuses the run. `HonestRunAccepted`
  therefore asks that no claim is half appended.
* `browserLaunch` keeps a rejected launch, or one whose browser has crashed, until
  shutdown, so every later lease without a persistent profile fails.

*Workflow*: a tier-0 capture that fails half-way leaves rows under which the browser then
writes files of the same names (the exception in `OwnRunAccepted`). A lease whose ttl ends
during OCR drops the page capture that follows. A named profile whose directory cannot be
hardened leaves its context open in a shared pool (or, persistent, in any) when the run ends, and the
pool has forgotten it. A run that hangs while the OCR worker is made or ended, or while the client
state is read, cannot be cancelled.

*Files*: four promises about the runs root are refuted when the definition of `RunStore` that
states them is added to the invariants of `shared_files.cfg`.

* `ReplayedByInstalled`. `storeCaptureInCache` reads the Playwright version after the capture
  (evidence-runner.ts:1139), and the browser may have been started by an older one. The stamp then
  vouches for the new package with the old browser's version, and a run of the new package replays
  the old browser's page; so does one that is upgraded between its own two reads.
  capture-cache.ts:126: the stamp "closes the "stale persisted engine" hole cheaply and safely".
* `ReplayedInTime`. `capturedAtMs` is `Date.now()` in `storeCaptureInCache` (evidence-runner.ts:1143,
  1155), after the page and the run's metadata were got and written. By the time the store came
  late, a replay may be older than the hour of the repository's README.md:198, and its label says
  it is younger.
* `NewestIsKept`. When the newest run alone exceeds the budget, the sweep removes it after all
  others (run-lifecycle.ts:178). run-lifecycle.ts:152: "The newest runs are always kept".
* `StrippedSaysWhy`. `archiveRun` removes the bytes and then writes the marker
  (run-lifecycle.ts:224). After a death in between there is none, and archiving once more finds
  nothing to strip and writes none. run-lifecycle.ts:206 promises the marker, so that missing
  bytes do not look like tampering.

A run that is captured into again after the budget sweep measured it is removed as the old
one it was. The marker of an archived run (run-lifecycle.ts:229) is read by nobody. An interrupted
removal leaves a directory that no later sweep recognises as a run. Taking the time-stamp token
from an anchored entry is not noticed, as the hash does not cover it, nor is an edit of the last
entry with a fresh hash. A verifier that cannot read the file says ok of an empty log, and an append
after such a read starts a second chain, which the next verification refuses.

*Claim gate*: one unfit claim or judgment makes every later gate of the run not ok, for
every author, and `groundExtractedClaims` on a kind that cannot be quoted appends such
claims. A further supporting source can lower the number of independent groups (it joins
two). A source without a usable host but with text counts as a group of its own, while
schemas.ts:462 speaks of distinct registrable domains. Self-asserted structured data is
refused in strict mode only.

*Bundles*: an archive is accepted although files are missing, whatever the reason
(cli.ts:121 speaks of the size cap), so `unaccountedMissing` never fires. A manifest whose
signature was dropped verifies, with `signatureValid` undefined. [a,b,c] and [a,b,c,c] have
one root, and ids, paths, claim count and engine are not under it.

*Planning*: following the retry advice once may try nothing new (twice always does), and
may drop a child that was useful. The candidate ledger takes the top K before it drops
results without a url. A follow-up marks arms beyond its limit as seen. Near-miss advice
may recommend the threshold in use. The limit on the number of media is not asked again
when a body arrives, so bodies on their way pass it. A recovery url with an apostrophe
fails the plan's own check (destination-recovery-plan.ts:474), so `--only-check-ok` drops
it; two blocked children that lead to one link share one sign-in; `--only-check-ok
--check-profiles` drops the very step that would create a missing profile. The memory
bridge writes in place: a bridge that dies inside a write can lose the operator's text,
and two that overlap lose an entry of LOG. `fetch` pages are capped in characters, pinned
https pages in bytes; redirects beyond the limit are reported as "http 302".
`buildDestinationTriage` has no caller in `src` besides the tests, nor does `src` have what fills
the evidence of a child. Its notes (docs/DEVELOPMENT_HISTORY.md:2331) and the tests know the
warning `no_query_overlap` only beside a query, so `TriageInit` takes only such children (`Asked`).

## 4. The proofs

Eight modules hold proofs: `EvidenceRunScheduler_proofs`, `BrowserPool_proofs` (which has the
leases as well), `SharedFiles_proofs` (with the ledger), `ClaimGate_proofs`,
`EvidenceWorkflow_proofs`, `Planning_proofs` and `Choices_proofs`, and `ListsAndSums`, whose
lemmas on sums, finite sets, lists and loops the others use. They hold for every number of jobs, slots, leases, calls, captures, authors, processes, files, media,
bridges, edits, links, films, options, artifacts, claims and judgments. They rest on the named
assumptions of the modules (the constants have their types; at least one slot; no key is the
null key; a queue has a task; the credential of a lookup is absent, unset or set; what marks a
missing note is no text; what is recorded of an artifact is a hash, ids can be compared and no
file is without a name; a budget is a number, the one per domain may be absent; the length of a
film is a natural number or unknown; a file holds one piece of advice at most, and advice for
one link names one profile; a child of which nothing was recorded shows only its error, and its
links are a list; a text is a sequence, and rows that somebody else wrote have the
fields of rows and cite what they cite) and on two conditions that stand in the theorems themselves and
in the configurations of the runs as well: `Reuse = FALSE` for the ledger (each capture has an
id of its own) and `Overlap = FALSE` for the profile lock (the file system calls of one
`acquire`, `release` or `refresh` are not cut in two by another process, which may still die
between any two of its own). Without the first
the properties are false, as section 3 tells; without the second `profile_lock_race` has the
counterexample. `ProfileExclusive`, `NothingOutOfReach` and `OrderlyReleaseCloses` carry their
condition `Orderly` in the property. None of this is about liveness: every theorem is about
`Spec`, without fairness.

*Scheduler.* The invariant `IInv` is the conjunction of `TypeOK`, `SlotAccounting`,
`QueueMatchesStatus`, `WorkConserving`, `ControllerWhileRunning` and two facts that no
run lists: `TaskMatchesStatus` (a job is running exactly from its executor call to
its continuation, and has a promise chain only if it was started) and `QueueSorted`
(the queue is ascending in the order of creation). Apart from `TypeOK`, none of the parts is inductive
alone: that `ReleaseSlot` starts exactly one job needs the queue to hold queued jobs
only (`QueueMatchesStatus`) and the counter to be at its limit whenever somebody
waits (`WorkConserving`); that the counter is right after `pump` needs the started
job to have held no slot (`TaskMatchesStatus`). The argument rests on what `pump`
does: `PumpIdle` (nothing to shift) and `PumpStartsHead` (exactly the head starts),
from which `EnqueueEffect` and `ReleaseSlotEffect` give each action its simple form.
`CancelIsFinal` needs no more than `IInv`; `NoJobLost` and `StartsInOrder` are action
properties shown step by step, the latter from `QueueSorted`.

*Refinement.* `ImplementsJobService` is the run property `RefinesJobService` for every
instance. Each method or callback of the scheduler is one action of the service:
`EnqueueSubmits`, `CancelQueuedWithdraws`, `ContinuationConcludes`, `ReleaseVacates`,
`RemovalIsForget`; the others stutter. `IInv` supplies the guards: `Submit` decides by the
number of slots taken, `pump` by its counter (`SlotAccounting`); a new job that may start
finds the line empty (`WorkConserving`); a finishing chain belongs to a job that has its
outcome (`TaskMatchesStatus`). Retention is absorbed by `RemovalForgets`: whatever
`pruneTerminal` removes was finished.

*Retention.* `NewestAreKept` is `RetentionKeepsTheNewest` for every `MaxTerminalJobs`, limit and
set of ages. `BeyondLimit` discards a result when more than `limit` results are not older
than it. That the others are at most `limit` needs an oldest among them (`OldestOf`, from
the well-foundedness of `<` on `Nat`): the set of those not older than it contains all of
them, and its count is at most the limit (`WithinLimit`). That those discarded are the
oldest is `PrunesTheOldest`: of two results, the results not older than the younger are
among those not older than the other. `PruningStep` carries both to a step that prunes;
the bound itself, `ResultsBounded`, is inductive with `IInv`.

*Leases.* `LeaseTypeCorrect` first; then `HoldingStep` says that no step makes a
lease hold capacity except `Acquire`, which asks for room: from it follow
`CapacityRespected` and `NothingRevived`. `PagesBounded` is inductive over types.
`FencesRespected` strengthens `FencesHold` to `FencesInv`: to keep an external-bridge
lease short through a heartbeat, its granted ttl must be known to be short.

*Pool.* `ImplementsLeases` is a refinement: every step of the pool is a step of
`LeaseManager` on the same leases or leaves them alone, so that the four promises of
`LeaseManager` hold through the pool (`PoolKeepsLeasePromises`). `PoolInv` is what its own
properties need. `LocksBacked` needs only that the calls under way know their lease and that
each lock names one; it holds whatever overlaps or fails. The rest, `Discipline`, is under
`Orderly`: a lease has one call under way at most (`OneCallEach`), and while that call is
getting its context nobody else drives or closes the lease (`EnsuringAlone`); hence each live
context is the one in the map (`InMap`), with its locks (`LocksHeld`); a closer works on the
context it found there (`ClosersKnow`); a released lease has no call that could create another
(`ReleasedIdle`); and each page listed is in the state of that context (`PagesKnown`). The
parts need one another: which context a call or a closer has in hand after an await depends
on who else may have replaced it meanwhile.

*Ledger.* `LedgerInv` says of each half-written bundle what is on disk and in the ledger
(`BundlesStand`), of each author between its check and its two appends what it has seen
(`AuthorsKnown`), and of each gate or export that what it has read so far is still so
(`ReadSoFar`), because rows are only appended and files are never replaced once each capture
has its own id. `VerdictsKnown` ties each error a reader may report to its reason. From these
follow `OkIsGrounded` (an ok is right) and `HonestRunsAccepted` (a refusal is right).

*Shared files.* Lock: `LockInv` says who is inside an operation, what it knows, and that the
file names either a holder or somebody dead. The queue's invariant is one line, that the open
tasks are an interval in the file and in every copy a command has in hand, so a lost update
puts back an earlier interval and never a gap. Log: whatever is edited, the
entry of a writer follows the lines that it has read (`Follows`), and while nobody has edited a
readable log, it is what was written, each entry by someone who had read a beginning of it
(`Unedited`); in a log that verifies the entry's number says how much of it, so it was all. That an
entry vouches for its past after any edit is an argument about hashes, from the back: its hash is
in the log, hence the same entry, which names the hash of the one before it, and so on down (the
least line that differs would have a hash that does not). It treats SHA-256 as injective, as the
model does. Cache: every entry, the one a replay has in hand too, tells of a capture that was stamped
under its key (`TrueEntry`), the identity file of an engine stamped with that version, and a file is
served only if its hash is the entry's; so neither what a directory holds by the time it is read nor
which version is installed by then matters. Retention: what the budget sweep has measured tells the
time of writing of what is there, unless it was written again since (`MeasuresTell`), so the order of
the measured ages is the order of the times (`OldestFirst`).
That it removes no more than it must (`RemovesNoMore`) needs to
know what a sum over a set of runs is, which `ListsAndSums` says.

*Sums.* The community modules define `SumFunctionOnSet` by a recursion over the subsets of a
set. `ListsAndSums` shows that the function it recurs by exists (`Recurs`) and is the only one
(`Agrees`), by taking the least number for which the contrary would hold (`LeastOf`, from the
well-foundedness of `<`; `Counting`). From there a sum is any of its terms and the sum of the
rest (`SumTakesOut`), grows by what is put in (`SumPutsIn`) and with the set (`SumOfFewer`).
`Total` in `RunStore` and `Bytes` in `MediaCapture` are such sums.

*Workflow.* The plan is a sequence that errors cut and replace, so the invariant gives each
stage a rank (`Rank`) and says that the stages left are in the order of their ranks, that a
stage of the capture has its `finally` after it and every stage before the report has the
report (`Ordered`, `Covered`). `WholePlan` shows it of the plan a run starts with for all
options, from parts put together in order (`PartsInOrder`); `Passing`, `Skipping`, `Throwing`,
`Finishing` and `Failing` show it of each way a step may change the plan, so that the lemma of an
action has only its own effect to argue. On it rest `LeaseInv` (nothing is open
before the capture or after its `finally`, except the context of a named profile whose release
failed: `Clean`, `Closed`), `AbortInv` (an abort before the report leaves the
report or an error still to come, and late writers exist only in such runs), `EvidenceInv`
(what is held is in the ledger, and says how its page was got) and `ClaimsInv`. The proof
corrected the model twice. An error of a stage before the capture leaves
`runEvidenceWorkflow` at once (evidence-runner.ts:987 is the catch block of
`captureBrowserEvidence` only), whereas `InCapture` took it for a failed capture; no property
had told the difference. And a page capture given up by an abort may still append its rows
(browser-pool.ts:319), which `LateWork` now does.

*Ways to a page.* `AcquisitionInv` says that what was asked for lies behind the fence and was
asked for no picture's sake (`AskedBehindFence`), that what is kept is the last answer
(`KeptIsLast`), that a gateway is asked for public pages behind no wall only, by the plan made of
the obstructions met (`PlanIsFollowed`), and which gateways were asked at each step
(`GatewaysInOrder`); about the plan itself it needs that its steps come out in the order of
their ranks. `ApiInv` says that the rows and the lookups left make up the platform's list.
`MediaInv` ties the running total to what was captured, and what a capture waits for to the
responses before it: the check after the await is what keeps the total within the limit.
`VaultInv` is about calls that neither overlap nor die in a file (`Smooth`): at most one is
active; the two files it has read are as it read them until it writes them, so rewriting them
loses nothing, and the log, the last of its notes, is still to come for as long as its entry
has not been written.

*Bundles.* A bundle that verifies has the root that was signed or anchored, so what has to be
shown is that rows with the same root record the same hashes (`SameHashes`). This is not
plain: the tree hashes leaves and nodes alike and an odd node with itself, so that several
lists of rows have one root: `a, b, c` and `a, b, c, c`, for two. A level tells what the level below it
holds (`Below`: each node is the hash of two below, and all of them occur), and equal levels
are equally high above their leaves, because a leaf is the hash of one hash and a node of two
(`NoNode`). A list of rows shorter by a level, each with two hashes for its own
(`Paired`, one of the alterations), does have the same root; but a row must have the hash of
its bytes to pass, and two hashes are no hash. The argument treats SHA-256 as injective, as the
model does. `Unrolls` justifies the recursive function `Levels`, and `Arranging` the order of
the rows, whatever ids they have. `BundleInv` adds what no alteration touches: the signature is
that of the export or none, and the log has no other root.

*Claim gate.* What has to be shown of the sources is that the union-find of the code counts what the
property means: there are at least n groups exactly if the sources can be dealt out to n places
so that echoes share a place and each place has a source that counts (`Separable`). One half says
that sources which echo each other end in one group, however many unions follow (`ComparingJoins`,
`GroupsAreWhole`); the other that a dealing which respects echoes never divides a group (`Whole`),
since a union puts whole groups together. `CanBeDealt` and `DealtOut` count groups by them, and
`GroupsAreSeparable` joins the halves. It holds for any list of the sources, those cited twice
included. Of the window, `Fits` is the invariant of its loop: the best window so far covers the
tokens, and no token left of its edge is needed; so an unwarned claim has its tokens within that
many characters (`TokensAreClose`). A quote found in a text is found in its lower case too
(`QuotesOfText`), which is why extraction proposes nothing that the gate refuses
(`ProposalsQuote`). `GateInv` says that a row which a call appended cites what is registered; its fitness depends on
nothing else of the registry, and so it stays (`FitsForGood`).

*Destinations.* `SelectWithinBudgets` walks the candidates from the best to the worst and keeps
two sets, the selected and those their domain had no room for. `OneIsConsidered` says that after
any part of the walk these are the sets that the two budgets, taken by themselves, allow of that part
(`Decided`): a domain has room for whom fewer than its budget come before (`DomainRoom`),
and the page for whom fewer than its budget with room in their domain come before
(`TopKRoom`). The step holds since of a finite ordered set the first K members are K
(`TheFirstFew`), so the walk stops at the member at which the declarative budget is spent.
`BudgetsAreSpent` gives the recursive function its value. The order needs every score to be a number
(`ScoresAreNumbers`, term by term) and rank to break ties (`BeforeIsAnOrder`); that the retry
advice is a budget again (`AdvisedBudgets`) makes the invariant `TriageInv` inductive.

*Next steps.* `NextStepsAccounted` needs `DeepInv`: `TriageInv`, what is known of the children,
and `AdviceInv`, which says what a series of advised runs has done. Whoever was tried had room in
its domain under the present budgets, and a run that brought nothing new leaves nobody whom more
room would let in; `FirstRunKeeps` and `AdviceKeeps` are its two steps, and with `NothingMissed` the
series stops only where the ceiling, the children or a spent domain stop it. The rest is about the
lists that the page hands on. Verdict and reasons of a child say the same (`ReasonsAgree`), the
links taken from a child are distinct (`DeeperOf`), what a loop joins is as long as its parts
together (`JoinedLength`, `RecoveryIsCounted`), no link is proposed twice (`ProposedOnce`), and
the summary's status follows from its counts (`StatusOfSummary`). `RecoveryCandidates`,
`DeepeningCandidates` and `Proposals` are recursive functions on positions, or `Chosen`, so
that all this can be said of every list.

*Recovery.* `PlanIsComplete` shows that dropping all but the first item of each command
leaves one for every link, because two items for one link name one profile; `IssuesOf` finds
what the check says of each item, and `FilterKeeps` that the filter keeps those of which
it says nothing, and that renumbering them leaves nothing to say. What is printed is of the run
directory, which nobody writes meanwhile (`RecoveryInv`).

*Follow-ups.* `PlansFit` says what a plan is, whatever the reports it was made of: no more items
than the limit, with ids of their own, no two that run one page, and none behind a suspected
wall that would be run. It goes through the steps of the code, each of which extracts some of a
list (`Extracted`): filter, mark as seen, cut, join. `FollowupInv` adds what a call has done so
far: its outcomes are of the first items of its plan, and the children it started are as many as
the outcomes that say so (`Tally`), each in the directory of one item. Two calls cannot
meet in a directory, for it has the nonce of the call in its name.

*Frames.* Each round adds the moments its plan asked for that are not there yet; `DenserKeeps` shows
for all three denser rounds at once that this keeps the cap of each round and lets only cues
repeat a moment of the base round. `EarliestAreFew` and `MostOf` say that cutting a plan to its
earliest moments leaves no more than the cap. `AdviceHolds` is about pure functions on finite sets of
pairs: a threshold above the highest omitted distance, when that is below the lowest hit, leaves
the hits alone, and when it is not, no threshold does.

`Selection` is written for these proofs: it says which elements of a list a filter keeps by
their positions (`Ranked`), where the community modules' `SelectSeq` recurs.

These proofs corrected the model as well. A result suspected of a wall is told by its rank, not by
its url: another result may have the same url and be above suspicion, and then the code opens it.
A decision that is not selected has the next action the code gives it, not always none. A
moment that a film does not have cannot be sought, so its frame is a partial one. And a child can
miss the words of a query only where there is a query, and shows nothing but its error when nothing
of it was recorded; combinations without these had a reason and no verdict to go with it.

`PoolInvariant`, `LedgerInvariant`, `LockInvariant` and `WorkflowInvariant` state the inductive
invariants themselves. TLC checked each on the instance of its run before it was proved.
`TypeCorrect`, `ControllerPresent`, `NoJobLost`, `StartsInOrder`, `LeaseTypeCorrect`,
`PagesBounded` and `FencesRespected` state properties that no run lists any more: what is
proved for every instance need not be checked on one. TLC evaluates every assumption.

**Only model-checked:** liveness (`QueuedLeavesQueue`, `CancelTakesEffect`,
`AbandonedLeaseFreesCapacity`, `CancelSettles`, `CritiqueQueueDrains`), which needs fairness and
ENABLED and so is outside TLAPS. Every invariant and action property of a passing run is a theorem.

## 5. Not modelled

* **Profiles and secrets** (`profile-store.ts`, `secret-*.ts`): their effect on the pool is
  there (loading takes time, hardening may fail); encryption and scanning are opaque.
* **Candidate extraction, extractors, analyses, adapters** (`search-result-candidates.ts`,
  `structured-extractor.ts`, `typed-facts.ts`, `platform-adapters/` ...): stateless work on
  strings. A model would be the regular expressions again; what is done with their results is
  modelled.
* **Source strategy and registry** (`source-strategy.ts`, `source-registry.ts`, `lens.ts`):
  tables and lookups in them.
* **OCR**: an external worker; its stage, its rows, its failure and where it may hang are in
  `EvidenceWorkflow`.
* **Interfaces** (`mcp-server.ts`, `cli.ts`, `schemas.ts`, `registration.ts`,
  `browser-install.ts`): argument parsing and registration. Commands with a protocol of their
  own are in their component's module.
* **Page actions of the pool** (click, fill, frames, overlays) keep no pool state.
* **Two spellings of one profile** (browser-pool.ts:2186): `LockKey` models the keys, not
  the files behind them, and so the hazard has no property.
* **Crashed launches** (browser-pool.ts:1234): the model has them; no document promises a
  relaunch, so nothing is stated.

## 6. Running it

    tlc -workers 2 -config scheduler.cfg EvidenceRunScheduler.tla
    tlc -workers 2 -config pool.cfg MCBrowserPool.tla
    tlc -workers 2 -config shared_files.cfg MCSharedFiles.tla
    tlc -workers 2 -config services.cfg MCServices.tla
    tlapm EvidenceRunScheduler_proofs.tla
    tlapm BrowserPool_proofs.tla
    tlapm ClaimGate_proofs.tla
    tlapm SharedFiles_proofs.tla
    tlapm EvidenceWorkflow_proofs.tla
    tlapm Planning_proofs.tla
    tlapm Choices_proofs.tla
    tlapm ListsAndSums.tla

`PROJECT.json` names the module of each run. The longest runs (`planning`
and `ledger`) take up to five minutes with two workers, `Choices_proofs` about ten.
