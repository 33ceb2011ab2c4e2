------------------------------ MODULE RunStore ------------------------------
(***************************************************************************)
(* The runs root on disk: run directories, the capture cache in it          *)
(* (src/capture-cache.ts with the replay and store of                       *)
(* src/evidence-runner.ts), and retention (src/run-lifecycle.ts).  One run  *)
(* replays, others capture and retention commands are given one after the   *)
(* other, each a process of its own; a file system call is a step.  Bytes are *)
(* contents; equal contents have equal SHA-256, others do not.              *)
(***************************************************************************)
EXTENDS Naturals, FiniteSets, FiniteSetsExt, TLC

CONSTANTS
    Runs,      \* directories under the root
    Contents,  \* what a page may hold
    Engines,   \* Playwright versions, each with its browser
    MaxTime,   \* bound: the clock stops here
    MaxTaken,  \* bound: captures made
    Bucket,    \* width of the key's time bucket
    Ttl,       \* how long an entry is fresh
    MaxAge,    \* the age sweep's limit
    MaxBytes,  \* the budget sweep's limit
    Retention, \* bound: the retention commands that are given
    None

ASSUME RunStoreAssumption ==
    /\ {MaxTime, MaxTaken, Bucket, Ttl, MaxAge, MaxBytes} \subseteq Nat /\ Bucket > 0
    /\ None \notin Contents \cup Engines \cup Nat

VARIABLES
    dir,       \* the run directories: None, or page, shot, time of writing, marker
    identity,  \* the engine-identity file
    entries,   \* the cache's entry files
    storing,   \* the capture about to be stored, or None
    replay,    \* the run that tries to replay
    sweep,     \* the retention command under way
    installed, \* the Playwright version that a process finds when it starts
    now,
    taken,     \* history: captures made
    stamped,   \* history: captures stamped for the cache
    served,    \* history: captures replayed
    torn       \* history: the runs whose archiving died before its marker

storeVars == <<dir, identity, entries, storing, replay, sweep, installed, now, taken, stamped, served, torn>>

Key(engine, t) == <<engine, t \div Bucket>>
Fresh(e, t) == e.at <= t /\ t - e.at <= Ttl
Idle == [pc |-> "idle"]
Existing == {r \in Runs : dir[r] # None}
Shot(r) == IF dir[r] = None THEN None ELSE dir[r].shot
Page(r) == IF dir[r] = None THEN None ELSE dir[r].page
FileOf(r, kind) == IF kind = "page" THEN Page(r) ELSE Shot(r)
Bytes(d) == IF d.shot = None THEN 1 ELSE 3

StoreInit ==
    /\ dir = [r \in Runs |-> None] /\ identity = None /\ entries = {}
    /\ storing = None /\ replay = Idle /\ sweep = Idle
    /\ installed = (CHOOSE e \in Engines : TRUE) /\ now = 0
    /\ taken = {} /\ stamped = {} /\ served = {} /\ torn = {}

-----------------------------------------------------------------------------
\* A run captures its page, with the browser of the version that it started with.
Capture(r, page) ==
    LET shot == Cardinality(taken) + 1   \* two screenshots are never the same
        made == [page |-> page, shot |-> shot, engine |-> installed, at |-> now]
    IN /\ storing = None /\ Cardinality(taken) < MaxTaken
       /\ dir' = [dir EXCEPT ![r] = [page |-> page, shot |-> shot, at |-> now,
                                     marked |-> IF dir[r] = None THEN FALSE ELSE dir[r].marked]]
       /\ storing' = [pc |-> "identity", run |-> r, made |-> made]
       /\ taken' = taken \cup {made}
       /\ torn' = torn \ {r}
    /\ UNCHANGED <<identity, entries, replay, sweep, installed, now, stamped, served>>

\* Then it stores it (storeCaptureInCache): it stamps it with the time that is now
\* and with the installed version, unless it had read one before, and writes the
\* engine's identity,
WriteEngineIdentity ==
    /\ storing # None /\ storing.pc = "identity"
    /\ \E package \in {storing.made.engine, installed} :
        /\ identity' = [browser |-> storing.made.engine, package |-> package]
        /\ stamped' = stamped \cup {[made |-> storing.made, at |-> now, package |-> package]}
    /\ storing' = [pc |-> "entry", run |-> storing.run, made |-> storing.made, at |-> now]
    /\ UNCHANGED <<dir, entries, replay, sweep, installed, now, taken, served, torn>>

\* and then the entry.
StoreCachedCapture ==
    /\ storing # None /\ storing.pc = "entry"
    /\ LET made == storing.made
           key == Key(made.engine, storing.at)
       IN entries' = {e \in entries : e.key # key} \cup
              {[key |-> key, at |-> storing.at, run |-> storing.run, page |-> made.page, shot |-> made.shot]}
    /\ storing' = None
    /\ UNCHANGED <<dir, identity, replay, sweep, installed, now, taken, stamped, served, torn>>

\* Storing is best-effort: it fails, or its process dies.
StoreFails ==
    /\ storing # None
    /\ storing' = None
    /\ UNCHANGED <<dir, identity, entries, replay, sweep, installed, now, taken, stamped, served, torn>>

-----------------------------------------------------------------------------
\* tryReplayCachedCapture.
Missed == replay' = [pc |-> "missed"]
unchangedByReplay == <<dir, identity, entries, storing, sweep, installed, now, taken, stamped, torn>>

ReadEngineIdentity ==
    /\ replay.pc = "idle"
    /\ IF identity = None THEN Missed
       ELSE IF identity.package # installed THEN Missed
       ELSE replay' = [pc |-> "lookup", key |-> Key(identity.browser, now), at |-> now,
                       engine |-> identity.browser, package |-> installed]
    /\ UNCHANGED <<unchangedByReplay, served>>

LookupCachedCapture ==
    /\ replay.pc = "lookup"
    /\ LET hits == {e \in entries : e.key = replay.key /\ Fresh(e, replay.at)}
       IN IF hits = {} THEN Missed
          ELSE \E e \in hits :
                   replay' = [pc |-> "look", kind |-> "page", entry |-> e, read |-> <<>>,
                              at |-> replay.at, engine |-> replay.engine, package |-> replay.package]
    /\ UNCHANGED <<unchangedByReplay, served>>

\* existsSync, then readFile: the file may go in between.
LookForFile ==
    /\ replay.pc = "look"
    /\ IF FileOf(replay.entry.run, replay.kind) = None THEN Missed
       ELSE replay' = [replay EXCEPT !.pc = "read"]
    /\ UNCHANGED <<unchangedByReplay, served>>

\* Mutant: what was read is not hashed again.
ReadFile_Unhashed ==
    /\ replay.pc = "read"
    /\ LET bytes == FileOf(replay.entry.run, replay.kind)
       IN CASE bytes = None -> replay' = [pc |-> "failed"]
            [] replay.kind = "page" -> replay' = [replay EXCEPT !.pc = "look", !.kind = "shot", !.read = bytes]
            [] OTHER -> replay' = [replay EXCEPT !.pc = "serve", !.read = <<replay.read, bytes>>]
    /\ UNCHANGED <<unchangedByReplay, served>>

ReadFile ==
    /\ replay.pc = "read"
    /\ LET bytes == FileOf(replay.entry.run, replay.kind)
       IN CASE bytes = None -> replay' = [pc |-> "failed"]
            [] bytes \notin {None, replay.entry[replay.kind]} -> Missed
            [] replay.kind = "page" /\ bytes = replay.entry.page ->
                   replay' = [replay EXCEPT !.pc = "look", !.kind = "shot", !.read = bytes]
            [] OTHER -> replay' = [replay EXCEPT !.pc = "serve", !.read = <<replay.read, bytes>>]
    /\ UNCHANGED <<unchangedByReplay, served>>

\* The bytes are registered in the replaying run, with their age.
Serve ==
    /\ replay.pc = "serve"
    /\ served' = served \cup {[page |-> replay.read[1], shot |-> replay.read[2],
                               engine |-> replay.engine, package |-> replay.package,
                               at |-> replay.at, staleness |-> replay.at - replay.entry.at]}
    /\ replay' = [pc |-> "hit"]
    /\ UNCHANGED unchangedByReplay

-----------------------------------------------------------------------------
\* Retention.  A directory without a ledger is not a run and is left alone.
unchangedBySweep == <<identity, entries, storing, replay, installed, now, taken, stamped, served>>

Removes(r) == dir' = [dir EXCEPT ![r] = None] /\ torn' = torn \ {r}

\* pruneRuns fixes its clock, then takes directory after directory: it reads
\* the age of one, and then removes it.
PruneRuns ==
    /\ "age" \in Retention /\ sweep.pc = "idle" /\ Existing # {}
    /\ sweep' = [pc |-> "age", left |-> Existing, now |-> now, old |-> None]
    /\ UNCHANGED <<unchangedBySweep, dir, torn>>

Age(r) == IF dir[r] = None THEN 0 ELSE IF dir[r].at > sweep.now THEN 0 ELSE sweep.now - dir[r].at

RunAge(r) ==
    /\ sweep.pc = "age" /\ sweep.old = None /\ r \in sweep.left
    /\ sweep' = [sweep EXCEPT !.left = @ \ {r}, !.old = IF Age(r) > MaxAge THEN r ELSE None]
    /\ UNCHANGED <<unchangedBySweep, dir, torn>>

RemoveAged ==
    /\ sweep.pc = "age" /\ sweep.old # None
    /\ Removes(sweep.old)
    /\ sweep' = [sweep EXCEPT !.old = None]
    /\ UNCHANGED unchangedBySweep

\* pruneRunsByBudget measures every run, one after the other,
PruneRunsByBudget ==
    /\ "budget" \in Retention /\ sweep.pc = "idle" /\ Existing # {}
    /\ sweep' = [pc |-> "measure", left |-> Existing, now |-> now, seen |-> {}]
    /\ UNCHANGED <<unchangedBySweep, dir, torn>>

Measure(r) ==
    /\ sweep.pc = "measure" /\ r \in sweep.left
    /\ sweep' = [sweep EXCEPT !.left = @ \ {r}, !.seen = IF dir[r] = None THEN @
                     ELSE @ \cup {[run |-> r, age |-> Age(r), bytes |-> Bytes(dir[r])]}]
    /\ UNCHANGED <<unchangedBySweep, dir, torn>>

Total(seen) == SumFunctionOnSet([m \in seen |-> m.bytes], seen)

Measured ==
    /\ sweep.pc = "measure" /\ sweep.left = {}
    /\ sweep' = [pc |-> "budget", now |-> sweep.now, kept |-> sweep.seen, gone |-> {}, written |-> {}]
    /\ UNCHANGED <<unchangedBySweep, dir, torn>>

\* The run of m is removed; written (history) has when it was last written.
RemovesMeasured(m) ==
    /\ Removes(m.run)
    /\ sweep' = [sweep EXCEPT !.kept = @ \ {m}, !.gone = @ \cup {m},
                  !.written = IF dir[m.run] = None THEN @ ELSE @ \cup {[of |-> m, at |-> dir[m.run].at]}]

\* Mutant: the newest goes first.
RemoveOldest_Newest ==
    /\ sweep.pc = "budget" /\ Total(sweep.kept) > MaxBytes
    /\ \E m \in sweep.kept : (\A other \in sweep.kept : other.age >= m.age) /\ RemovesMeasured(m)
    /\ UNCHANGED unchangedBySweep

\* and removes the oldest while what it has measured exceeds the budget.
RemoveOldest ==
    /\ sweep.pc = "budget" /\ Total(sweep.kept) > MaxBytes
    /\ \E m \in sweep.kept : (\A other \in sweep.kept : other.age <= m.age) /\ RemovesMeasured(m)
    /\ UNCHANGED unchangedBySweep

\* purgeRun.
Purge(r) ==
    /\ "purge" \in Retention /\ sweep.pc = "idle" /\ dir[r] # None
    /\ Removes(r)
    /\ UNCHANGED <<unchangedBySweep, sweep>>

\* archiveRun: the bulky bytes first, then the marker that says so.
Strip(r) ==
    /\ "archive" \in Retention /\ sweep.pc = "idle" /\ Shot(r) # None
    /\ dir' = [dir EXCEPT ![r].shot = None]
    /\ sweep' = [pc |-> "mark", run |-> r]
    /\ UNCHANGED <<unchangedBySweep, torn>>

Mark ==
    /\ sweep.pc = "mark"
    /\ dir' = IF dir[sweep.run] = None THEN dir ELSE [dir EXCEPT ![sweep.run].marked = TRUE]
    /\ sweep' = Idle
    /\ UNCHANGED <<unchangedBySweep, torn>>

SweepEnds ==
    /\ \/ sweep.pc = "age" /\ sweep.left = {} /\ sweep.old = None
       \/ sweep.pc = "budget" /\ Total(sweep.kept) <= MaxBytes
    /\ sweep' = Idle
    /\ UNCHANGED <<unchangedBySweep, dir, torn>>

SweepDies ==
    /\ sweep.pc # "idle"
    /\ sweep' = Idle
    /\ torn' = IF sweep.pc = "mark" THEN torn \cup {sweep.run} ELSE torn
    /\ UNCHANGED <<unchangedBySweep, dir>>

-----------------------------------------------------------------------------
Tick ==
    /\ now < MaxTime
    /\ now' = now + 1
    /\ UNCHANGED <<dir, identity, entries, storing, replay, sweep, installed, taken, stamped, served, torn>>

\* The package is updated, while runs are under way or not.
Upgrade ==
    /\ installed' \in Engines \ {installed}
    /\ UNCHANGED <<dir, identity, entries, storing, replay, sweep, now, taken, stamped, served, torn>>

Replaying ==
    \/ ReadEngineIdentity \/ LookupCachedCapture \/ LookForFile \/ ReadFile \/ Serve

Sweeping ==
    \/ PruneRuns \/ (\E r \in Runs : RunAge(r)) \/ RemoveAged
    \/ PruneRunsByBudget \/ (\E r \in Runs : Measure(r)) \/ Measured \/ RemoveOldest
    \/ (\E r \in Runs : Purge(r) \/ Strip(r)) \/ Mark
    \/ SweepEnds \/ SweepDies

StoreNext ==
    \/ \E r \in Runs, page \in Contents : Capture(r, page)
    \/ WriteEngineIdentity \/ StoreCachedCapture \/ StoreFails
    \/ Replaying
    \/ Sweeping
    \/ Tick
    \/ Upgrade

StoreSpec == StoreInit /\ [][StoreNext]_storeVars

-----------------------------------------------------------------------------
\* What is replayed is a capture: its page and screenshot were captured together
\* by the engine whose key was looked up, and were stamped as long ago as the claim
\* says, at most the ttl ago (the capture may be older still).  That engine was
\* stamped with the version that the replaying run finds.  Neither a run that reuses
\* the directory, nor retention, nor an upgrade between any two reads and writes
\* can change it. (src/evidence-runner.ts:1044-1156)
ReplayedHonestly ==
    \A s \in served :
        /\ s.staleness \in 0..Ttl
        /\ \E c \in stamped :
              /\ c.made.page = s.page /\ c.made.shot = s.shot /\ c.made.engine = s.engine
              /\ c.at = s.at - s.staleness /\ c.made.at <= c.at
        /\ \E c \in stamped : c.made.engine = s.engine /\ c.package = s.package

\* "A later run trusts that persisted browserVersion to compute the key ONLY when
\* the Playwright version still matches; ... This closes the "stale persisted
\* engine" hole" (src/capture-cache.ts:124): what is replayed was captured by the
\* browser of the version that the replaying run finds.  Refuted: the upgrade comes
\* between two reads of a run, or of a replay.
ReplayedByInstalled == \A s \in served : s.engine = s.package

\* "replay a <=1h prior capture by content hash, labelled `cached_capture` with
\* staleness age" (README.md:198): it was captured at most the ttl ago.  Refuted:
\* the age counts from the storing.
ReplayedInTime ==
    \A s \in served :
        \E c \in taken : c.page = s.page /\ c.shot = s.shot /\ s.at - c.at <= Ttl

\* The budget sweep never removes a run while it spares one last written before it,
\* by the times they really have: unless the one it removes was written again after
\* the sweep had begun.
SparesTheYoung ==
    sweep.pc = "budget" =>
        \A gone \in sweep.written, kept \in sweep.kept :
            dir[kept.run] # None => gone.at <= dir[kept.run].at \/ gone.at >= sweep.now

\* It removes none that it did not have to: by what it has measured, those that
\* stay, with the ones no older than it, exceed the budget.
RemovesNoMore ==
    sweep.pc = "budget" =>
        \A gone \in sweep.gone : Total(sweep.kept \cup {m \in sweep.gone : m.age <= gone.age}) > MaxBytes

\* Screenshots are only missing where a marker says why, or where the command that
\* was to write it is under way or has died since.
StrippedIsMarked ==
    \A r \in Existing :
        dir[r].shot = None => dir[r].marked \/ (sweep.pc = "mark" /\ sweep.run = r) \/ r \in torn

\* What retention takes was due, and it tells. (src/run-lifecycle.ts:60-232)
RetentionIsDue == SparesTheYoung /\ RemovesNoMore /\ StrippedIsMarked

\* "The newest runs are always kept" (src/run-lifecycle.ts:152): when the budget
\* sweep has removed some, one that is at least as new is there.  Refuted: one run
\* over the budget goes, and so does one written again since it was measured.
NewestIsKept ==
    sweep.pc = "budget" =>
        \A gone \in sweep.written : \E r \in Existing : dir[r].at >= gone.at

\* "Writes a `.retention.json` marker recording what was stripped, so a later
\* re-verify of a stripped VISUAL artifact reports an honest "archived" provenance
\* rather than looking like tampering" (src/run-lifecycle.ts:206): a run that is not
\* being archived lacks no screenshot without a marker.  Refuted: the command dies
\* before the marker.
StrippedSaysWhy ==
    \A r \in Existing :
        dir[r].shot = None => dir[r].marked \/ (sweep.pc = "mark" /\ sweep.run = r)

\* "Returns undefined (a MISS) whenever anything is not perfectly safe to serve:
\* ... a missing source run dir" (src/evidence-runner.ts:1044): a replay never
\* fails because the run it replays has been removed.
MissIsNoFailure == replay.pc # "failed"

=============================================================================
