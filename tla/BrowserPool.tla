---------------------------- MODULE BrowserPool ----------------------------
(***************************************************************************)
(* BrowserPool of src/browser-pool.ts over LeaseManager, as FarmService    *)
(* drives them: contexts and pages of leases, the shared browser, the      *)
(* profile locks, release, reap and shutdown.  An openPage call is cut at  *)
(* its awaits, because other calls run there; between two awaits nothing   *)
(* interleaves.  A call names the page it opens and the context it makes.  *)
(***************************************************************************)
EXTENDS LeaseManager

CONSTANTS
    Call,       \* openPage calls, each made once
    NoCall,
    NoToken,
    Releaser,   \* closeContext activations that releaseContext may have open
    MaxLaunches, \* bound: launches of the shared browser
    Foreign,    \* another farm process, as the owner of a lock file
    Modes       \* what else may happen: each a set of Happenings

\* Clients overlap calls on one lease instead of awaiting each one; the shared
\* browser dies; shutdown() is called, once; ensureHardenedDir fails while a
\* context is closed.
Happenings == {"overlap", "crash", "shutdown", "dir_fails"}

ASSUME PoolAssumption ==
    /\ IsFiniteSet(Call) /\ NoCall \notin Call /\ Call \subseteq Page
    /\ NoToken \notin Token /\ Foreign \notin Token \cup {NoToken}
    /\ {"reap", "shutdown"} \cap Releaser = {}
    /\ MaxLaunches \in Nat
    /\ Modes \subseteq SUBSET Happenings

VARIABLES
    mode,          \* which of Happenings this behaviour may meet
    callPc,        \* where each openPage call stands
    callToken,     \* the lease it is made on
    callCtx,       \* the ContextState it works with, named by its creator
    callLaunch,    \* the launch promise it awaits, 0 when none
    contexts,      \* this.contexts
    liveCtx,       \* Playwright contexts that are open
    livePages,     \* Playwright pages that are open
    statePages,    \* state.pages of each ContextState
    profileHolder, \* this.activeProfileLeases
    lockFile,      \* owner in the lock file on disk
    launchState,   \* each launch: "unborn", "pending", "up", "down", "rejected"
    browserLaunch, \* this.browserLaunch, 0 when undefined
    browser,       \* this.browser, 0 when undefined
    closing,       \* the ContextState each closeContext activation closes
    reapList,      \* expired leases the reaper has yet to close
    shutPhase,     \* "no", "closing" contexts, "leaving" the browser, "done"
    shutList       \* leases whose contexts shutdown has yet to close

callVars == <<callPc, callToken, callCtx, callLaunch>>
browserVars == <<launchState, browserLaunch, browser>>
lockVars == <<profileHolder, lockFile>>
closeVars == <<closing, reapList, shutPhase, shutList>>
poolVars == <<contexts, liveCtx, livePages, statePages>>
runVars == <<leaseVars, callVars, browserVars, lockVars, closeVars, poolVars>>
vars == <<mode, runVars>>

Closers == Releaser \cup {"reap", "shutdown"}
LockKeys == Key \cup Token
Launches == 1..MaxLaunches

\* resolveProfileLockKey: a persistent profile without a name has a directory
\* of its own, named after the token; {} when the lease needs no lock.
LockKey(t) ==
    IF terms[t].key # NoKey THEN {terms[t].key}
    ELSE IF terms[t].policy = "persistent-profile" THEN {t} ELSE {}

Persistent(t) == terms[t].policy = "persistent-profile"

\* ensureContext is under way: from its first await to its last.
Ensuring == {"loading", "launching", "creating"}
CallsOn(t) == {c \in Call : callToken[c] = t /\ callPc[c] \notin {"idle", "done"}}

\* releaseProfileLock deletes the file only when it still names this lease.
Unlock(t) ==
    /\ profileHolder' = [k \in LockKeys |->
           IF k \in LockKey(t) /\ profileHolder[k] = t THEN NoToken ELSE profileHolder[k]]
    /\ lockFile' = [k \in LockKeys |->
           IF k \in LockKey(t) /\ lockFile[k] = t THEN NoToken ELSE lockFile[k]]

-----------------------------------------------------------------------------
PoolInit ==
    /\ LeaseInit
    /\ mode \in Modes
    /\ callPc = [c \in Call |-> "idle"]
    /\ callToken = [c \in Call |-> NoToken]
    /\ callCtx = [c \in Call |-> NoCall]
    /\ callLaunch = [c \in Call |-> 0]
    /\ contexts = [t \in Token |-> NoCall]
    /\ liveCtx = {} /\ livePages = {}
    /\ statePages = [c \in Call |-> {}]
    /\ profileHolder = [k \in LockKeys |-> NoToken]
    /\ lockFile = [k \in LockKeys |-> NoToken]
    /\ launchState = [n \in Launches |-> "unborn"]
    /\ browserLaunch = 0 /\ browser = 0
    /\ closing = [x \in Closers |-> NoCall]
    /\ reapList = {} /\ shutPhase = "no" /\ shutList = {}

\* Lease operations that touch nothing of the pool (acquireContext, heartbeat,
\* listLeases, and any page operation that finds the lease overdue).
LeaseOnly ==
    /\ \/ \E t \in Token :
            \/ \E asked \in Asked : Acquire(t, asked)
            \/ Heartbeat(t)
            \/ LazyExpiry(t)
       \/ ListLeases
       \/ Tick
    /\ UNCHANGED <<callVars, browserVars, lockVars, closeVars, poolVars>>

\* Mutant: the in-process map and the lock file are not consulted.
TakeLock_Unchecked(t) ==
    /\ profileHolder' = [k \in LockKeys |-> IF k \in LockKey(t) THEN t ELSE profileHolder[k]]
    /\ lockFile' = [k \in LockKeys |-> IF k \in LockKey(t) THEN t ELSE lockFile[k]]

\* ensureContext's lock: the map, then the lock file (ProfileLock); both are
\* taken without an await.  A lease that already owns the file fails as well.
TakeLock(t) ==
    /\ \A k \in LockKey(t) : profileHolder[k] \in {NoToken, t} /\ lockFile[k] = NoToken
    /\ profileHolder' = [k \in LockKeys |-> IF k \in LockKey(t) THEN t ELSE profileHolder[k]]
    /\ lockFile' = [k \in LockKeys |-> IF k \in LockKey(t) THEN t ELSE lockFile[k]]

\* Mutant: ensureContext does not look for the lease's context first.
OpenPage_AlwaysEnsures(c, t) ==
    /\ callPc[c] = "idle"
    /\ "overlap" \in mode \/ CallsOn(t) = {}
    /\ CanOpen(t, TRUE)
    /\ callToken' = [callToken EXCEPT ![c] = t]
    /\ TakeLock(t)
    /\ callPc' = [callPc EXCEPT ![c] = "loading"]
    /\ UNCHANGED <<leaseVars, callCtx, callLaunch, browserVars, closeVars, poolVars>>

\* openPage up to its first await: permission, then the context in the map or
\* the profile lock for a new one.
OpenPage(c, t) ==
    /\ callPc[c] = "idle"
    /\ "overlap" \in mode \/ CallsOn(t) = {}
    /\ CanOpen(t, TRUE)
    /\ callToken' = [callToken EXCEPT ![c] = t]
    /\ \/ /\ contexts[t] # NoCall
          /\ callCtx' = [callCtx EXCEPT ![c] = contexts[t]]
          /\ callPc' = [callPc EXCEPT ![c] = "opening"]
          /\ UNCHANGED lockVars
       \/ /\ contexts[t] = NoCall
          /\ TakeLock(t)
          /\ callPc' = [callPc EXCEPT ![c] = "loading"]
          /\ UNCHANGED callCtx
    /\ UNCHANGED <<leaseVars, callLaunch, browserVars, closeVars, poolVars>>

\* this.browser?.isConnected()
Connected == IF browser = 0 THEN FALSE ELSE launchState[browser] = "up"

\* The saved state is loaded (without one the code gets here in the same turn);
\* a persistent context launches a browser of its own, the others go through
\* ensureBrowser.
StateLoaded(c) ==
    /\ callPc[c] = "loading"
    /\ \/ /\ Persistent(callToken[c])
          /\ callPc' = [callPc EXCEPT ![c] = "creating"]
          /\ UNCHANGED <<callLaunch, launchState, browserLaunch>>
       \/ /\ ~Persistent(callToken[c])
          /\ Connected
          /\ callPc' = [callPc EXCEPT ![c] = "creating"]
          /\ callLaunch' = [callLaunch EXCEPT ![c] = browser]
          /\ UNCHANGED <<launchState, browserLaunch>>
       \/ /\ ~Persistent(callToken[c])
          /\ ~Connected
          /\ callPc' = [callPc EXCEPT ![c] = "launching"]
          /\ IF browserLaunch # 0
             THEN /\ callLaunch' = [callLaunch EXCEPT ![c] = browserLaunch]
                  /\ UNCHANGED <<launchState, browserLaunch>>
             ELSE \E n \in Launches :
                    /\ launchState[n] = "unborn"
                    /\ \A m \in Launches : m < n => launchState[m] # "unborn"
                    /\ launchState' = [launchState EXCEPT ![n] = "pending"]
                    /\ browserLaunch' = n
                    /\ callLaunch' = [callLaunch EXCEPT ![c] = n]
    /\ UNCHANGED <<leaseVars, callToken, callCtx, browser, lockVars, closeVars, poolVars>>

\* The launch promise settles; its callback sets this.browser.
LaunchSettles(n) ==
    /\ launchState[n] = "pending"
    /\ \/ launchState' = [launchState EXCEPT ![n] = "up"] /\ browser' = n
       \/ launchState' = [launchState EXCEPT ![n] = "rejected"] /\ UNCHANGED browser
    /\ UNCHANGED <<leaseVars, callVars, browserLaunch, lockVars, closeVars, poolVars>>

\* The catch of ensureContext: the lock is given back.
\* Mutant: only the in-memory map is cleaned.
EnsureFails_KeepsFile(c) ==
    /\ callPc[c] \in {"launching", "creating"}
    /\ callPc[c] = "launching" => launchState[callLaunch[c]] = "rejected"
    /\ callPc' = [callPc EXCEPT ![c] = "done"]
    /\ profileHolder' = [k \in LockKeys |->
           IF k \in LockKey(callToken[c]) THEN NoToken ELSE profileHolder[k]]
    /\ UNCHANGED <<leaseVars, callToken, callCtx, callLaunch, browserVars, lockFile, closeVars, poolVars>>

EnsureFails(c) ==
    /\ callPc[c] \in {"launching", "creating"}
    /\ callPc[c] = "launching" => launchState[callLaunch[c]] = "rejected"
    /\ callPc' = [callPc EXCEPT ![c] = "done"]
    /\ Unlock(callToken[c])
    /\ UNCHANGED <<leaseVars, callToken, callCtx, callLaunch, browserVars, closeVars, poolVars>>

BrowserAwaited(c) ==
    /\ callPc[c] = "launching"
    /\ launchState[callLaunch[c]] \in {"up", "down"}
    /\ callPc' = [callPc EXCEPT ![c] = "creating"]
    /\ UNCHANGED <<leaseVars, callToken, callCtx, callLaunch, browserVars, lockVars, closeVars, poolVars>>

\* The context exists and enters the map, over whatever is there; the lease is
\* not asked again.
ContextCreated(c) ==
    /\ callPc[c] = "creating"
    /\ ~Persistent(callToken[c]) => launchState[callLaunch[c]] = "up"
    /\ liveCtx' = liveCtx \cup {c}
    /\ contexts' = [contexts EXCEPT ![callToken[c]] = c]
    /\ callCtx' = [callCtx EXCEPT ![c] = c]
    /\ callPc' = [callPc EXCEPT ![c] = "opening"]
    /\ UNCHANGED <<leaseVars, callToken, callLaunch, browserVars, lockVars, closeVars, livePages, statePages>>

\* context.newPage(), outside the try block: a failure cleans up nothing.
PageCreated(c) ==
    /\ callPc[c] = "opening"
    /\ \/ /\ callCtx[c] \in liveCtx
          /\ livePages' = livePages \cup {c}
          /\ callPc' = [callPc EXCEPT ![c] = "navigating"]
       \/ /\ callPc' = [callPc EXCEPT ![c] = "done"]
          /\ UNCHANGED livePages
    /\ UNCHANGED <<leaseVars, callToken, callCtx, callLaunch, browserVars, lockVars, closeVars,
                   contexts, liveCtx, statePages>>

Registers(c, t) == RegisterPage(t, c, TRUE)

\* goto has settled.  On success the page enters state.pages and registerPage
\* asks the lease again; a refusal closes the page but leaves it in state.pages.
Navigated(c) ==
    LET t == callToken[c] IN
    /\ callPc[c] = "navigating"
    /\ callPc' = [callPc EXCEPT ![c] = "done"]
    /\ \/ /\ c \in livePages
          /\ statePages' = [statePages EXCEPT ![callCtx[c]] = @ \cup {c}]
          /\ \/ /\ Registers(c, t)
                /\ UNCHANGED livePages
             \/ /\ ~CanOpen(t, TRUE)
                /\ Retire({t} \cap Overdue, "expired")
                /\ livePages' = livePages \ {c}
       \/ /\ livePages' = livePages \ {c}
          /\ UNCHANGED <<statePages, leaseVars>>
    /\ UNCHANGED <<callToken, callCtx, callLaunch, browserVars, lockVars, closeVars, contexts, liveCtx>>

\* closePage: the page closes first; the lease is told afterwards and may
\* answer that it has expired.
ClosePoolPage(c) ==
    LET t == callToken[c] IN
    /\ callCtx[c] # NoCall /\ c \in statePages[callCtx[c]]
    /\ contexts[t] = callCtx[c]
    /\ livePages' = livePages \ {c}
    /\ statePages' = [statePages EXCEPT ![callCtx[c]] = @ \ {c}]
    /\ \/ ClosePage(t, c)
       \/ t \notin Holding /\ Retire({t} \cap Overdue, "expired")
    /\ UNCHANGED <<callVars, browserVars, lockVars, closeVars, contexts, liveCtx>>

-----------------------------------------------------------------------------
\* releaseContext: the lease is released and closeContext starts, in one go;
\* without a context in the map closeContext returns at once.
ReleaseContext(x, t) ==
    /\ closing[x] = NoCall
    /\ "overlap" \in mode \/ CallsOn(t) = {}
    /\ leaseStatus[t] # "absent"
    /\ t \in Active \/ contexts[t] # NoCall
    /\ Retire({t} \cap Active, "released")
    /\ closing' = [closing EXCEPT ![x] = contexts[t]]
    /\ UNCHANGED <<callVars, browserVars, lockVars, reapList, shutPhase, shutList, poolVars>>

\* reapExpired of FarmService: only the leases marked by this call are closed.
ReapBegins ==
    /\ reapList = {} /\ closing["reap"] = NoCall
    /\ ReapExpired
    /\ reapList' = Overdue
    /\ UNCHANGED <<callVars, browserVars, lockVars, closing, shutPhase, shutList, poolVars>>

ReapNext(t) ==
    /\ t \in reapList /\ closing["reap"] = NoCall
    /\ reapList' = reapList \ {t}
    /\ closing' = [closing EXCEPT !["reap"] = contexts[t]]
    /\ UNCHANGED <<leaseVars, callVars, browserVars, lockVars, shutPhase, shutList, poolVars>>

\* shutdown: the contexts of the moment one by one, then the browser.
ShutdownBegins ==
    /\ "shutdown" \in mode /\ shutPhase = "no"
    /\ shutPhase' = "closing"
    /\ shutList' = {t \in Token : contexts[t] # NoCall}
    /\ UNCHANGED <<leaseVars, callVars, browserVars, lockVars, closing, reapList, poolVars>>

ShutdownNext(t) ==
    /\ t \in shutList /\ closing["shutdown"] = NoCall
    /\ shutList' = shutList \ {t}
    /\ closing' = [closing EXCEPT !["shutdown"] = contexts[t]]
    /\ UNCHANGED <<leaseVars, callVars, browserVars, lockVars, reapList, shutPhase, poolVars>>

\* The browser n is gone, and with it the contexts and pages it carried.
BrowserGone(n) ==
    LET dead == {c \in liveCtx : callLaunch[c] = n /\ ~Persistent(callToken[c])}
    IN  /\ launchState' = [launchState EXCEPT ![n] = "down"]
        /\ liveCtx' = liveCtx \ dead
        /\ livePages' = {p \in livePages : callCtx[p] \notin dead}

\* The contexts are closed; browser.close() ends the browser of the moment ...
ShutdownClosesBrowser ==
    /\ shutPhase = "closing" /\ shutList = {} /\ closing["shutdown"] = NoCall
    /\ shutPhase' = "leaving"
    /\ IF browser # 0 THEN BrowserGone(browser) ELSE UNCHANGED <<launchState, liveCtx, livePages>>
    /\ UNCHANGED <<leaseVars, callVars, browserLaunch, browser, lockVars, closing, reapList,
                   shutList, contexts, statePages>>

\* ... and after that await both fields are cleared, whatever they name by now.
ShutdownEnds ==
    /\ shutPhase = "leaving"
    /\ shutPhase' = "done"
    /\ browser' = 0 /\ browserLaunch' = 0
    /\ UNCHANGED <<leaseVars, callVars, launchState, lockVars, closing, reapList, shutList, poolVars>>

BrowserCrash(n) ==
    /\ "crash" \in mode /\ launchState[n] = "up"
    /\ BrowserGone(n)
    /\ UNCHANGED <<leaseVars, callVars, browserLaunch, browser, lockVars, closeVars, contexts, statePages>>

\* Mutant: the finally block forgets the map entry.
Finally_KeepsEntry(x, t) ==
    /\ Unlock(t)
    /\ closing' = [closing EXCEPT ![x] = NoCall]
    /\ UNCHANGED contexts

\* The finally block of closeContext.
Finally(x, t) ==
    /\ Unlock(t)
    /\ contexts' = [contexts EXCEPT ![t] = NoCall]
    /\ closing' = [closing EXCEPT ![x] = NoCall]

\* closeContext after its awaits: the context is closed, its pages with it.
CloseEnds(x) ==
    LET c == closing[x] IN
    /\ c # NoCall
    /\ liveCtx' = liveCtx \ {c}
    /\ livePages' = {p \in livePages : callCtx[p] # c}
    /\ Finally(x, callToken[c])
    /\ UNCHANGED <<leaseVars, callVars, browserVars, reapList, shutPhase, shutList, statePages>>

\* ensureHardenedDir throws before the context is closed: the finally block
\* still runs, the context stays open, and the caller's loop is abandoned.
CloseFails(x) ==
    LET c == closing[x] IN
    /\ "dir_fails" \in mode /\ c # NoCall
    /\ terms[callToken[c]].key # NoKey /\ terms[callToken[c]].policy # "ephemeral"
    /\ Finally(x, callToken[c])
    /\ reapList' = IF x = "reap" THEN {} ELSE reapList
    /\ shutPhase' = IF x = "shutdown" THEN "done" ELSE shutPhase
    /\ shutList' = IF x = "shutdown" THEN {} ELSE shutList
    /\ UNCHANGED <<leaseVars, callVars, browserVars, liveCtx, livePages, statePages>>

\* Another farm process takes and frees the profile's lock file.
ForeignLock(k) ==
    /\ \/ lockFile[k] = NoToken /\ lockFile' = [lockFile EXCEPT ![k] = Foreign]
       \/ lockFile[k] = Foreign /\ lockFile' = [lockFile EXCEPT ![k] = NoToken]
    /\ UNCHANGED <<leaseVars, callVars, browserVars, profileHolder, closeVars, poolVars>>

CallStep(c) ==
    \/ StateLoaded(c)
    \/ EnsureFails(c)
    \/ BrowserAwaited(c)
    \/ ContextCreated(c)
    \/ PageCreated(c)
    \/ Navigated(c)

PoolStep ==
    \/ LeaseOnly
    \/ \E c \in Call :
        \/ \E t \in Token : OpenPage(c, t)
        \/ CallStep(c)
        \/ ClosePoolPage(c)
    \/ \E n \in Launches : LaunchSettles(n) \/ BrowserCrash(n)
    \/ \E t \in Token :
        \/ \E x \in Releaser : ReleaseContext(x, t)
        \/ ReapNext(t)
        \/ ShutdownNext(t)
    \/ ReapBegins
    \/ ShutdownBegins
    \/ ShutdownClosesBrowser
    \/ ShutdownEnds
    \/ \E x \in Closers : CloseEnds(x) \/ CloseFails(x)
    \/ \E k \in Key : ForeignLock(k)

PoolNext == PoolStep /\ UNCHANGED mode

PoolSpec == PoolInit /\ [][PoolNext]_vars

\* Playwright's promises settle (they carry timeouts) and time passes.
Settling ==
    /\ \A c \in Call : WF_runVars(CallStep(c))
    /\ \A n \in Launches : WF_runVars(LaunchSettles(n))
    /\ \A x \in Closers : WF_runVars(CloseEnds(x) \/ CloseFails(x))
    /\ \A t \in Token : WF_runVars(ReapNext(t)) /\ WF_runVars(ShutdownNext(t))
    /\ WF_runVars(ShutdownClosesBrowser) /\ WF_runVars(ShutdownEnds)
    /\ WF_runVars(Tick /\ UNCHANGED <<callVars, browserVars, lockVars, closeVars, poolVars>>)

PoolFairSpec == PoolSpec /\ Settling

\* Somebody keeps calling farm_reap_expired.
ReapedSpec == PoolFairSpec /\ WF_runVars(ReapBegins)

-----------------------------------------------------------------------------
\* Each client awaits its calls on a lease, as runs and the tools of one
\* session do, and directories can be hardened.
Orderly == {"overlap", "dir_fails"} \cap mode = {}

\* A profile is driven by one context at a time: whoever has it open holds
\* its lock, in memory and on disk, until the context is really closed.
ProfileExclusive ==
    Orderly => \A c \in liveCtx : \A k \in LockKey(callToken[c]) :
        /\ profileHolder[k] = callToken[c] /\ lockFile[k] = callToken[c]
        /\ \A d \in liveCtx : k \in LockKey(callToken[d]) => d = c

\* No lock without a reason: a held lock belongs to a context in the map or to
\* one being created, and memory and disk agree about the holder.
LocksBacked ==
    \A k \in LockKeys :
        /\ profileHolder[k] # NoToken =>
               \/ contexts[profileHolder[k]] # NoCall
               \/ \E c \in CallsOn(profileHolder[k]) : callPc[c] \in Ensuring
        /\ lockFile[k] # Foreign => lockFile[k] = profileHolder[k]

\* Nothing that is open is out of reach: every open context is in the map, the
\* only place release, reap and shutdown look for one, and a page that openPage
\* returned is found through the map for as long as its lease lists it, unless
\* shutdown has closed the context.
NothingOutOfReach ==
    Orderly =>
        /\ \A c \in liveCtx : contexts[callToken[c]] = c
        /\ \A t \in Active : \A p \in pages[t] :
              \/ contexts[t] = callCtx[p] /\ p \in statePages[callCtx[p]]
              \/ shutPhase # "no"

\* farm_release_context: once the lease is released its context is closed or
\* about to be, so what it drove is free again when the close has ended.
ReleaseCloses ==
    \A t \in Token : leaseStatus[t] = "released" /\ contexts[t] # NoCall =>
        \E x \in Closers : closing[x] = contexts[t]

\* ... which clients that await their calls can rely on.
OrderlyReleaseCloses == Orderly => ReleaseCloses

\* farm_reap_expired: a lease that runs out while its context is open and no
\* call is under way gets its context closed.
ReapCloses ==
    \A t \in Token :
        t \in Overdue /\ contexts[t] # NoCall /\ CallsOn(t) = {} ~> contexts[t] = NoCall

=============================================================================
