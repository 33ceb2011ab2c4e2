------------------------- MODULE BrowserPool_proofs -------------------------
(***************************************************************************)
(* What LeaseManager guarantees for every set of tokens, every cap and     *)
(* every set of requests, and what BrowserPool does for every number of    *)
(* leases, calls, launches and profiles: its leases are those of           *)
(* LeaseManager; a profile has one driver, who holds its lock; nothing     *)
(* that is open is out of reach; and a released lease gets its context     *)
(* closed.                                                                 *)
(***************************************************************************)
EXTENDS BrowserPool, FiniteSetTheorems, TLAPS

-----------------------------------------------------------------------------
(* The leases.                                                             *)

\* Listing one page more makes the list longer by one at most.
LEMMA AddOne ==
    ASSUME NEW S, IsFiniteSet(S), NEW x
    PROVE  /\ Cardinality(S) \in Nat /\ Cardinality(S \cup {x}) \in Nat
           /\ Cardinality(S \cup {x}) <= Cardinality(S) + 1
<1>1. Cardinality(S) \in Nat
  BY FS_CardinalityType
<1>2. Cardinality(S \cup {x}) = IF x \in S THEN Cardinality(S) ELSE Cardinality(S) + 1
  BY FS_AddElement
<1> QED
  BY <1>1, <1>2

\* What acquire grants is well formed and keeps what was asked for, except in
\* the external-bridge tier.
LEMMA GrantedInTerms ==
    ASSUME LeaseAssumption, NEW asked \in Asked
    PROVE  /\ Granted(asked) \in Terms
           /\ Granted(asked).policy = asked.policy
           /\ Granted(asked).fenced = asked.fenced
           /\ Granted(asked).key = asked.key
           /\ Granted(asked).ttl \in Nat
           /\ asked.policy = "external-bridge" =>
                  Granted(asked).ttl <= BridgeTtl /\ Granted(asked).readWrite = FALSE
<1>1. asked \in Terms
  BY DEF LeaseAssumption
<1>2. CASE asked.policy = "external-bridge"
  <2> DEFINE t == IF asked.ttl > BridgeTtl THEN BridgeTtl ELSE asked.ttl
  <2>1. Granted(asked) = [asked EXCEPT !.readWrite = FALSE, !.ttl = t]
    BY <1>2 DEF Granted
  <2>2. asked.ttl \in Ttls \cup {BridgeTtl} /\ asked.ttl \in Nat /\ BridgeTtl \in Nat
    BY <1>1 DEF Terms, LeaseAssumption
  <2>3. t \in Ttls \cup {BridgeTtl} /\ t \in Nat /\ t <= BridgeTtl
    BY <2>2
  <2> HIDE DEF t
  <2> QED
    BY <1>1, <1>2, <2>1, <2>3 DEF Terms
<1>3. CASE asked.policy # "external-bridge"
  BY <1>1, <1>3 DEF Granted, Terms, LeaseAssumption
<1> QED
  BY <1>2, <1>3

\* Every call keeps the types of the manager's records.
LEMMA LeaseTypeStep ==
    ASSUME LeaseTypeOK, [LeaseNext]_leaseVars
    PROVE  LeaseTypeOK'
<1> USE LeaseAssumption
<1> USE DEF LeaseTypeOK
<1>1. ASSUME NEW t \in Token, NEW asked \in Asked, Acquire(t, asked) PROVE LeaseTypeOK'
  BY <1>1, GrantedInTerms DEF Acquire
<1>2. ASSUME NEW t \in Token, Heartbeat(t) PROVE LeaseTypeOK'
  <2>1. terms[t].ttl \in Nat
    BY DEF Terms, LeaseAssumption
  <2> QED
    BY <1>2, <2>1 DEF Heartbeat
<1>3. ASSUME NEW S, NEW st \in {"released", "expired", "crashed"}, Retire(S, st)
      PROVE LeaseTypeOK'
  BY <1>3 DEF Retire
<1>4. ASSUME NEW t \in Token, NEW p \in Page, NEW inside \in BOOLEAN, RegisterPage(t, p, inside)
      PROVE LeaseTypeOK'
  BY <1>4 DEF RegisterPage
<1>5. ASSUME NEW t \in Token, NEW p \in Page, ClosePage(t, p) PROVE LeaseTypeOK'
  BY <1>5 DEF ClosePage
<1>6. ASSUME Tick PROVE LeaseTypeOK'
  BY <1>6 DEF Tick
<1>7. CASE UNCHANGED leaseVars
  BY <1>7 DEF leaseVars
<1> QED
  BY <1>1, <1>2, <1>3, <1>4, <1>5, <1>6, <1>7
     DEF LeaseNext, Release, LazyExpiry, ListLeases, ReapExpired, MarkCrashed

\* The manager's records keep their types in every reachable state.
THEOREM LeaseTypeCorrect == LeaseSpec => []LeaseTypeOK
<1>1. LeaseInit => LeaseTypeOK
  BY LeaseAssumption DEF LeaseInit, LeaseTypeOK, LeaseAssumption
<1>2. LeaseTypeOK /\ [LeaseNext]_leaseVars => LeaseTypeOK'
  BY LeaseTypeStep
<1> QED
  BY <1>1, <1>2, PTL DEF LeaseSpec

-----------------------------------------------------------------------------
\* What a step may do to the set of leases that hold capacity: acquire adds
\* the one lease it creates, every other step only takes leases away.
LEMMA HoldingStep ==
    ASSUME LeaseAssumption, LeaseTypeOK, [LeaseNext]_leaseVars
    PROVE  \/ Holding' \subseteq Holding
           \/ HasCapacity /\ \E t \in Token :
                  leaseStatus[t] = "absent" /\ Holding' \subseteq Holding \cup {t}
<1> USE DEF Holding, Active, LeaseTypeOK
<1>1. ASSUME NEW t \in Token, NEW asked \in Asked, Acquire(t, asked)
      PROVE  /\ HasCapacity /\ leaseStatus[t] = "absent"
             /\ Holding' \subseteq Holding \cup {t}
  BY <1>1 DEF Acquire
<1>2. ASSUME NEW t \in Token, Heartbeat(t) PROVE Holding' \subseteq Holding
  BY <1>2 DEF Heartbeat
<1>3. ASSUME NEW S, NEW st \in {"released", "expired", "crashed"}, Retire(S, st)
      PROVE  Holding' \subseteq Holding
  BY <1>3 DEF Retire
<1>4. ASSUME NEW t \in Token, NEW p \in Page, NEW inside \in BOOLEAN, RegisterPage(t, p, inside)
      PROVE Holding' \subseteq Holding
  BY <1>4 DEF RegisterPage
<1>5. ASSUME NEW t \in Token, NEW p \in Page, ClosePage(t, p) PROVE Holding' \subseteq Holding
  BY <1>5 DEF ClosePage
<1>6. ASSUME Tick PROVE Holding' \subseteq Holding
  BY <1>6 DEF Tick
<1>7. CASE UNCHANGED leaseVars
  BY <1>7 DEF leaseVars
<1> HIDE DEF Holding, Active, LeaseTypeOK
<1> QED
  BY <1>1, <1>2, <1>3, <1>4, <1>5, <1>6, <1>7
     DEF LeaseNext, Release, LazyExpiry, ListLeases, ReapExpired, MarkCrashed

\* The cap that acquire tests (FARM_MAX_CONTEXTS) holds in every state.
THEOREM CapacityRespected == LeaseSpec => []CapacityBound
<1> USE LeaseAssumption
<1>1. LeaseInit => CapacityBound
  <2> SUFFICES ASSUME LeaseInit PROVE CapacityBound
    OBVIOUS
  <2>1. Holding = {}
    BY DEF LeaseInit, Holding, Active
  <2> QED
    BY <2>1, FS_EmptySet DEF CapacityBound, LeaseAssumption
<1>2. CapacityBound /\ LeaseTypeOK /\ [LeaseNext]_leaseVars => CapacityBound'
  <2> SUFFICES ASSUME CapacityBound, LeaseTypeOK, [LeaseNext]_leaseVars,
                      NEW cap \in MaxContexts
               PROVE  Cardinality(Holding') <= cap
    BY DEF CapacityBound
  <2>1. cap \in Nat /\ Cardinality(Holding) <= cap
    BY DEF CapacityBound, LeaseAssumption
  <2>2. IsFiniteSet(Holding) /\ IsFiniteSet(Holding') /\ Cardinality(Holding) \in Nat
    <3>1. Holding \subseteq Token /\ Holding' \subseteq Token
      BY DEF Holding, Active
    <3> QED
      BY <3>1, FS_Subset, FS_CardinalityType DEF LeaseAssumption
  <2>3. CASE Holding' \subseteq Holding
    <3>1. Cardinality(Holding') <= Cardinality(Holding) /\ Cardinality(Holding') \in Nat
      BY <2>2, <2>3, FS_Subset, FS_CardinalityType
    <3> QED
      BY <2>1, <2>2, <3>1
  <2>4. ASSUME HasCapacity, NEW t \in Token, leaseStatus[t] = "absent",
               Holding' \subseteq Holding \cup {t}
        PROVE  Cardinality(Holding') <= cap
    <3>1. t \notin Holding
      BY <2>4 DEF Holding, Active
    <3>2. IsFiniteSet(Holding \cup {t}) /\ Cardinality(Holding \cup {t}) = Cardinality(Holding) + 1
      BY <2>2, <3>1, FS_AddElement
    <3>3. Cardinality(Holding') <= Cardinality(Holding \cup {t}) /\ Cardinality(Holding') \in Nat
      BY <2>2, <2>4, <3>2, FS_Subset, FS_CardinalityType
    <3>4. Cardinality(Holding) < cap
      BY <2>4 DEF HasCapacity
    <3> QED
      BY <2>1, <2>2, <3>2, <3>3, <3>4
  <2> QED
    BY <2>3, <2>4, HoldingStep
<1> QED
  BY <1>1, <1>2, LeaseTypeCorrect, PTL DEF LeaseSpec

\* No call brings a lease back that stopped holding capacity, noticed or not.
THEOREM NothingRevived == LeaseSpec => NoRevival
<1> USE LeaseAssumption
<1>1. LeaseTypeOK /\ [LeaseNext]_leaseVars =>
          [\A t \in Token : leaseStatus[t] # "absent" /\ t \notin Holding
                                => t \notin Holding']_leaseVars
  BY HoldingStep
<1> QED
  BY <1>1, LeaseTypeCorrect, PTL DEF LeaseSpec, NoRevival

-----------------------------------------------------------------------------
\* Only active leases list pages, and never more than they were granted.
THEOREM PagesBounded == LeaseSpec => []PagesWithinLease
<1> USE LeaseAssumption
<1>1. LeaseInit => PagesWithinLease
  BY DEF LeaseInit, PagesWithinLease
<1>2. PagesWithinLease /\ LeaseTypeOK /\ [LeaseNext]_leaseVars => PagesWithinLease'
  <2> SUFFICES ASSUME PagesWithinLease, LeaseTypeOK, [LeaseNext]_leaseVars
               PROVE  PagesWithinLease'
    OBVIOUS
  <2> USE DEF PagesWithinLease, Active, LeaseTypeOK
  <2>1. ASSUME NEW t \in Token, NEW asked \in Asked, Acquire(t, asked) PROVE PagesWithinLease'
    <3>1. pages[t] = {}
      BY <2>1 DEF Acquire
    <3>2. \A u \in Token : u # t => /\ leaseStatus'[u] = leaseStatus[u]
                                   /\ terms'[u] = terms[u]
      BY <2>1 DEF Acquire
    <3> QED
      BY <2>1, <3>1, <3>2 DEF Acquire
  <2>2. ASSUME NEW t \in Token, Heartbeat(t) PROVE PagesWithinLease'
    BY <2>2 DEF Heartbeat
  <2>3. ASSUME NEW S, NEW st \in {"released", "expired", "crashed"}, Retire(S, st)
        PROVE  PagesWithinLease'
    BY <2>3 DEF Retire
  <2>4. ASSUME NEW t \in Token, NEW p \in Page, NEW inside \in BOOLEAN, RegisterPage(t, p, inside)
        PROVE  PagesWithinLease'
    <3>1. /\ t \in Active /\ Cardinality(pages[t]) < terms[t].maxPages
          /\ terms[t].maxPages \in Nat
      BY <2>4 DEF RegisterPage, CanOpen, Holding, Terms, LeaseAssumption
    <3>2. IsFiniteSet(pages[t])
      BY FS_Subset DEF LeaseAssumption
    <3>3. Cardinality(pages[t] \cup {p}) <= Cardinality(pages[t]) + 1
          /\ Cardinality(pages[t]) \in Nat /\ Cardinality(pages[t] \cup {p}) \in Nat
      BY <3>2, AddOne
    <3>4. Cardinality(pages[t] \cup {p}) <= terms[t].maxPages
      BY <3>1, <3>3
    <3> QED
      BY <2>4, <3>1, <3>4 DEF RegisterPage
  <2>5. ASSUME NEW t \in Token, NEW p \in Page, ClosePage(t, p) PROVE PagesWithinLease'
    <3>1. IsFiniteSet(pages[t]) /\ pages[t] \ {p} \subseteq pages[t]
      BY FS_Subset DEF LeaseAssumption
    <3>2. Cardinality(pages[t] \ {p}) <= Cardinality(pages[t])
          /\ Cardinality(pages[t]) \in Nat /\ Cardinality(pages[t] \ {p}) \in Nat
      BY <3>1, FS_Subset, FS_CardinalityType
    <3>3. terms[t].maxPages \in Nat
      BY DEF Terms, LeaseAssumption
    <3>4. pages[t] # {} => Cardinality(pages[t] \ {p}) <= terms[t].maxPages
      BY <3>2, <3>3
    <3> QED
      BY <2>5, <3>4 DEF ClosePage
  <2>6. ASSUME Tick PROVE PagesWithinLease'
    BY <2>6 DEF Tick
  <2>7. CASE UNCHANGED leaseVars
    BY <2>7 DEF leaseVars
  <2> HIDE DEF PagesWithinLease, Active, LeaseTypeOK
  <2> QED
    BY <2>1, <2>2, <2>3, <2>4, <2>5, <2>6, <2>7
       DEF LeaseNext, Release, LazyExpiry, ListLeases, ReapExpired, MarkCrashed
<1> QED
  BY <1>1, <1>2, LeaseTypeCorrect, PTL DEF LeaseSpec

-----------------------------------------------------------------------------
\* FencesHold is not inductive: a heartbeat sets left to the granted ttl, so
\* the clamp must be known of the terms; and a lease without pages must have
\* been refused each of them, so absent leases must have none.
FencesInv ==
    /\ FencesHold
    /\ \A t \in Token :
          /\ leaseStatus[t] # "absent" /\ terms[t].policy = "external-bridge"
                 => terms[t].ttl <= BridgeTtl
          /\ leaseStatus[t] = "absent" => pages[t] = {}

\* The external-bridge tier stays read-only, fenced, anonymous and short, and a
\* credentialed lease without an allow-list never lists a page.
THEOREM FencesRespected == LeaseSpec => []FencesHold
<1> USE LeaseAssumption
<1>1. LeaseInit => FencesInv
  BY DEF LeaseInit, FencesInv, FencesHold
<1>2. FencesInv /\ LeaseTypeOK /\ [LeaseNext]_leaseVars => FencesInv'
  <2> SUFFICES ASSUME FencesInv, LeaseTypeOK, [LeaseNext]_leaseVars
               PROVE  FencesInv'
    OBVIOUS
  <2> USE DEF FencesInv, FencesHold, LeaseTypeOK
  <2>1. ASSUME NEW t \in Token, NEW asked \in Asked, Acquire(t, asked) PROVE FencesInv'
    <3>1. /\ leaseStatus' = [leaseStatus EXCEPT ![t] = "active"]
          /\ terms' = [terms EXCEPT ![t] = Granted(asked)]
          /\ left' = [left EXCEPT ![t] = Granted(asked).ttl]
          /\ pages' = pages /\ pages[t] = {}
      BY <2>1 DEF Acquire
    <3>2. Granted(asked).policy = "external-bridge" =>
              /\ BridgeEnabled /\ Granted(asked).fenced /\ ~Granted(asked).readWrite
              /\ Granted(asked).key = NoKey /\ Granted(asked).ttl <= BridgeTtl
      BY <2>1, GrantedInTerms DEF Acquire, Admissible
    <3> QED
      BY <3>1, <3>2
  <2>2. ASSUME NEW t \in Token, Heartbeat(t) PROVE FencesInv'
    BY <2>2 DEF Heartbeat
  <2>3. ASSUME NEW S \in SUBSET Token, NEW st \in {"released", "expired", "crashed"}, Retire(S, st),
               \A t \in S : leaseStatus[t] # "absent"
        PROVE  FencesInv'
    BY <2>3 DEF Retire
  <2>4. ASSUME NEW t \in Token, NEW p \in Page, NEW inside \in BOOLEAN, RegisterPage(t, p, inside)
        PROVE  FencesInv'
    <3>1. leaseStatus[t] = "active" /\ (terms[t].policy \in Credentialed => terms[t].fenced)
      BY <2>4 DEF RegisterPage, CanOpen, Holding, Active, DomainAllowed, Terms
    <3> QED
      BY <2>4, <3>1 DEF RegisterPage
  <2>5. ASSUME NEW t \in Token, NEW p \in Page, ClosePage(t, p) PROVE FencesInv'
    BY <2>5 DEF ClosePage
  <2>6. ASSUME Tick PROVE FencesInv'
    <3>1. \A t \in Token : left'[t] <= left[t] /\ left'[t] \in Nat
      BY <2>6 DEF Tick
    <3>2. UNCHANGED <<leaseStatus, terms, pages>>
      BY <2>6 DEF Tick
    <3>3. BridgeTtl \in Nat
      BY DEF LeaseAssumption
    <3> QED
      BY <3>1, <3>2, <3>3
  <2>7. CASE UNCHANGED leaseVars
    BY <2>7 DEF leaseVars
  <2> HIDE DEF FencesInv, FencesHold, LeaseTypeOK
  <2>8. ASSUME NEW t \in Token, Release(t) \/ LazyExpiry(t) \/ MarkCrashed(t) PROVE FencesInv'
    BY <2>3, <2>8 DEF Release, LazyExpiry, MarkCrashed, Overdue, Active
  <2>9. ASSUME ListLeases \/ ReapExpired PROVE FencesInv'
    <3>1. Overdue \in SUBSET Token /\ \A t \in Overdue : leaseStatus[t] # "absent"
      BY DEF Overdue, Active
    <3> QED
      BY <2>3, <2>9, <3>1 DEF ListLeases, ReapExpired
  <2> QED
    BY <2>1, <2>2, <2>4, <2>5, <2>6, <2>7, <2>8, <2>9 DEF LeaseNext
<1>3. FencesInv => FencesHold
  BY DEF FencesInv
<1> QED
  BY <1>1, <1>2, <1>3, LeaseTypeCorrect, PTL DEF LeaseSpec

-----------------------------------------------------------------------------
(* The pool.                                                               *)

\* The inductive invariant.  First what holds whatever clients do.

\* Leases that were granted, whatever has become of them.
Leased == {t \in Token : leaseStatus[t] # "absent"}

PoolTypes ==
    /\ mode \in Modes
    /\ callPc \in [Call -> {"idle", "opening", "navigating", "done"} \cup Ensuring]
    /\ callToken \in [Call -> Token \cup {NoToken}]
    /\ callCtx \in [Call -> Call \cup {NoCall}]
    /\ contexts \in [Token -> Call \cup {NoCall}]
    /\ liveCtx \subseteq Call
    /\ statePages \in [Call -> SUBSET Call]
    /\ profileHolder \in [LockKeys -> Token \cup {NoToken}]
    /\ lockFile \in [LockKeys -> Token \cup {NoToken, Foreign}]
    /\ closing \in [Closers -> Call \cup {NoCall}]
    /\ reapList \subseteq Token

\* A call that has begun is made on a granted lease; contexts, in the map or
\* not, and those being closed, were made by such calls, the map's under the
\* lease of their maker.
CallsNamed ==
    /\ \A c \in Call : callPc[c] # "idle" => callToken[c] \in Leased
    /\ \A t \in Token : contexts[t] # NoCall =>
           callToken[contexts[t]] = t /\ callPc[contexts[t]] # "idle"
    /\ \A c \in liveCtx : callPc[c] # "idle"
    /\ \A x \in Closers : closing[x] # NoCall => callPc[closing[x]] # "idle"

\* A lock is held under a key of its holder's; while another process has the
\* file, nobody here has the lock.
LocksNamed ==
    \A k \in LockKeys :
        /\ profileHolder[k] # NoToken =>
               profileHolder[k] \in Leased /\ k \in LockKey(profileHolder[k])
        /\ lockFile[k] = Foreign => profileHolder[k] = NoToken

\* The reaper is after expired leases only; shutdown closes nothing before it
\* has begun.
ListsKnown ==
    /\ \A t \in reapList : t \in Leased /\ t \notin Active
    /\ closing["shutdown"] # NoCall \/ shutList # {} => shutPhase # "no"

\* Then what holds while clients await their calls.

\* The calls of a lease that are creating its context.
Under(t) == {c \in Call : callToken[c] = t /\ callPc[c] \in Ensuring}

OneCallEach ==
    \A c, d \in Call :
        callToken[c] = callToken[d] /\ {callPc[c], callPc[d]} \cap {"idle", "done"} = {} => c = d

\* A context is created only where there is none.
EnsuringAlone == \A c \in Call : callPc[c] \in Ensuring => contexts[callToken[c]] = NoCall

InMap == \A c \in liveCtx : contexts[callToken[c]] = c

LocksHeld ==
    \A t \in Token : contexts[t] # NoCall \/ Under(t) # {} =>
        \A k \in LockKey(t) : profileHolder[k] = t /\ lockFile[k] = t

\* Only shutdown closes the context of an active lease, so a second activation
\* that closes the same context finds the lease dead, and nothing in the map
\* but that context.
ClosersKnow ==
    \A x \in Closers : closing[x] # NoCall =>
        LET t == callToken[closing[x]] IN
        /\ x # "shutdown" => t \notin Active
        /\ contexts[t] # closing[x] => contexts[t] = NoCall /\ t \notin Active /\ Under(t) = {}

ReleasedIdle == \A t \in Token : leaseStatus[t] = "released" => CallsOn(t) = {}

\* The pages a lease lists were opened on it; before shutdown they are pages
\* of the context in the map, and so are those about to be listed.
PagesKnown ==
    /\ \A t \in Token : \A p \in pages[t] : p \in Call /\ callToken[p] = t /\ callPc[p] = "done"
    /\ \A t \in Active : shutPhase = "no" =>
         /\ \A p \in pages[t] :
               contexts[t] = callCtx[p] /\ callCtx[p] # NoCall /\ p \in statePages[callCtx[p]]
         /\ \A c \in CallsOn(t) : callPc[c] \notin Ensuring =>
               contexts[t] = callCtx[c] /\ callCtx[c] # NoCall

Discipline ==
    /\ OneCallEach /\ EnsuringAlone /\ InMap /\ LocksHeld
    /\ ClosersKnow /\ ReleasedIdle /\ PagesKnown /\ ReleaseCloses

PoolInv ==
    /\ LeaseTypeOK /\ PoolTypes /\ CallsNamed /\ LocksNamed /\ ListsKnown /\ LocksBacked
    /\ Orderly => Discipline


-----------------------------------------------------------------------------
\* The pool's leases.

\* Retiring nobody changes nothing.
LEMMA RetireNobody ==
    ASSUME LeaseTypeOK, NEW st, Retire({}, st)
    PROVE  UNCHANGED leaseVars
BY DEF Retire, LeaseTypeOK, leaseVars

\* What the pool does to its leases, LeaseManager does.
LEMMA PoolStepsOnLeases ==
    ASSUME PoolAssumption, LeaseTypeOK, [PoolNext]_vars
    PROVE  [LeaseNext]_leaseVars
<1>1. CASE LeaseOnly
  BY <1>1 DEF LeaseOnly, LeaseNext
<1>2. ASSUME NEW c \in Call, Navigated(c), NEW t \in Token, callToken[c] = t
      PROVE  [LeaseNext]_leaseVars
  <2>1. CASE Registers(c, t)
    BY <2>1 DEF Registers, LeaseNext, PoolAssumption
  <2>2. CASE Retire({t} \cap Overdue, "expired")
    <3>1. CASE t \in Overdue
      BY <2>2, <3>1 DEF LeaseNext, LazyExpiry
    <3>2. CASE t \notin Overdue
      BY <2>2, <3>2, RetireNobody
    <3> QED
      BY <3>1, <3>2
  <2>3. CASE UNCHANGED leaseVars
    BY <2>3
  <2> QED
    BY <1>2, <2>1, <2>2, <2>3 DEF Navigated
<1>3. ASSUME NEW c \in Call, Navigated(c), callToken[c] \notin Token
      PROVE  [LeaseNext]_leaseVars
  <2>1. callToken[c] \notin Overdue /\ ~CanOpen(callToken[c], TRUE)
    BY <1>3 DEF Overdue, CanOpen, Holding, Active
  <2>2. CASE Retire({callToken[c]} \cap Overdue, "expired")
    BY <2>1, <2>2, RetireNobody
  <2> QED
    BY <1>3, <2>1, <2>2 DEF Navigated, Registers, RegisterPage
<1>4. ASSUME NEW c \in Call, ClosePoolPage(c), NEW t, callToken[c] = t
      PROVE  [LeaseNext]_leaseVars
  <2>1. CASE ClosePage(t, c)
    BY <2>1 DEF ClosePage, LeaseNext, PoolAssumption, Holding, Active
  <2>2. CASE Retire({t} \cap Overdue, "expired")
    <3>1. CASE t \in Overdue
      <4>1. t \in Token
        BY <3>1 DEF Overdue, Active
      <4> QED
        BY <2>2, <3>1, <4>1 DEF LeaseNext, LazyExpiry
    <3>2. CASE t \notin Overdue
      BY <2>2, <3>2, RetireNobody
    <3> QED
      BY <3>1, <3>2
  <2> QED
    BY <1>4, <2>1, <2>2 DEF ClosePoolPage
<1>5. ASSUME NEW x \in Releaser, NEW t \in Token, ReleaseContext(x, t)
      PROVE  [LeaseNext]_leaseVars
  <2>1. CASE t \in Active
    BY <1>5, <2>1 DEF ReleaseContext, LeaseNext, Release
  <2>2. CASE t \notin Active
    BY <1>5, <2>2, RetireNobody DEF ReleaseContext
  <2> QED
    BY <2>1, <2>2
<1>6. CASE ReapBegins
  BY <1>6 DEF ReapBegins, LeaseNext
<1>7. CASE UNCHANGED leaseVars
  BY <1>7
<1>8. CASE UNCHANGED vars
  BY <1>7, <1>8 DEF vars, runVars
<1> QED
  BY <1>1, <1>2, <1>3, <1>4, <1>5, <1>6, <1>7, <1>8
     DEF PoolNext, PoolStep, CallStep, OpenPage, StateLoaded, EnsureFails, BrowserAwaited,
         ContextCreated, PageCreated, LaunchSettles, BrowserCrash, ReapNext, ShutdownNext,
         ShutdownBegins, ShutdownClosesBrowser, ShutdownEnds, CloseEnds, CloseFails, ForeignLock

\* Through the pool a lease goes through nothing that LeaseManager alone would
\* not let it go through, so all that is proved of leases holds in the pool.
THEOREM ImplementsLeases == PoolSpec => LeaseSpec
<1>1. PoolInit => LeaseInit
  BY DEF PoolInit
<1>2. LeaseTypeOK /\ [PoolNext]_vars => [LeaseNext]_leaseVars
  BY PoolStepsOnLeases, PoolAssumption
<1>3. LeaseInit => LeaseTypeOK
  BY LeaseAssumption DEF LeaseInit, LeaseTypeOK, LeaseAssumption
<1>4. LeaseTypeOK /\ [LeaseNext]_leaseVars => LeaseTypeOK'
  BY LeaseTypeStep
<1> QED
  BY <1>1, <1>2, <1>3, <1>4, PTL DEF PoolSpec, LeaseSpec

\* A granted lease stays granted on its terms, and what is not active any
\* more does not become active again.
LEMMA LeasesAge ==
    ASSUME LeaseTypeOK, [LeaseNext]_leaseVars, NEW t \in Leased
    PROVE  t \in Leased' /\ terms'[t] = terms[t] /\ (t \in Active' => t \in Active)
BY DEF LeaseNext, Acquire, Heartbeat, Release, LazyExpiry, MarkCrashed, RegisterPage, ClosePage,
       ListLeases, ReapExpired, Tick, Retire, Leased, Active, Holding, Overdue, CanOpen,
       LeaseTypeOK, leaseVars


-----------------------------------------------------------------------------
\* Steps that move calls on, lose contexts or bring shutdown forward, and leave
\* maps, locks and leases alone.
LEMMA CallsMoveOn ==
    ASSUME PoolAssumption, PoolInv,
           UNCHANGED <<mode, leaseVars, callToken, callCtx, contexts, statePages, lockVars,
                       closing, reapList>>,
           liveCtx' \subseteq liveCtx,
           callPc' \in [Call -> {"idle", "opening", "navigating", "done"} \cup Ensuring],
           \A c \in Call :
               \/ callPc'[c] = callPc[c]
               \/ callPc[c] \in Ensuring /\ callPc'[c] \in Ensuring
               \/ callPc[c] \in {"opening", "navigating"} /\ callPc'[c] \in {"navigating", "done"},
           shutPhase' = "no" => shutPhase = "no" /\ shutList' = shutList
    PROVE  PoolInv'
<1> USE DEF PoolInv, PoolTypes, leaseVars, lockVars
<1>1. LeaseTypeOK' /\ PoolTypes'
  BY DEF LeaseTypeOK
<1>2. CallsNamed' /\ LocksNamed' /\ ListsKnown'
  BY DEF CallsNamed, LocksNamed, ListsKnown, Leased, Active, LockKey, Ensuring, PoolAssumption
<1>3. LocksBacked'
  BY DEF LocksBacked, CallsOn, Ensuring, LocksNamed, Leased
<1>4. ASSUME Orderly PROVE Discipline'
  <2> USE <1>4 DEF Discipline
  <2>1. OneCallEach' /\ EnsuringAlone' /\ InMap'
    BY DEF OneCallEach, EnsuringAlone, InMap, Ensuring
  <2>2. \A t \in Token : Under(t)' = Under(t)
    BY DEF Under, Ensuring
  <2>3. LocksHeld'
    BY <2>2 DEF LocksHeld, LockKey
  <2>6. ClosersKnow'
    <3>1. \A x \in Closers : closing[x] # NoCall => callToken[closing[x]] \in Token
      BY DEF CallsNamed, Leased
    <3> QED
      BY <2>2, <3>1 DEF ClosersKnow, Active
  <2>4. ReleasedIdle' /\ ReleaseCloses'
    BY DEF ReleasedIdle, CallsOn, Ensuring, ReleaseCloses
  <2>5. PagesKnown'
    BY DEF PagesKnown, CallsOn, Ensuring, Active
  <2> QED
    BY <2>1, <2>3, <2>4, <2>5, <2>6
<1> QED
  BY <1>1, <1>2, <1>3, <1>4 DEF Orderly

\* Steps that are the lease manager's alone: leases are granted, run out or
\* are found overdue.
LEMMA LeasesMoveOn ==
    ASSUME PoolAssumption, PoolInv, [LeaseNext]_leaseVars, LeaseTypeOK',
           UNCHANGED <<mode, callVars, lockVars, closing, shutPhase, shutList, poolVars>>,
           \A t \in Token : leaseStatus'[t] = "released" => leaseStatus[t] = "released",
           \A t \in Token : pages'[t] \subseteq pages[t],
           \A t \in reapList' : t \in Leased' /\ t \notin Active'
    PROVE  PoolInv'
<1> USE DEF PoolInv, PoolTypes, callVars, lockVars, poolVars
<1>1. \A t \in Leased : t \in Leased' /\ terms'[t] = terms[t] /\ (t \in Active' => t \in Active)
  BY LeasesAge
<1>2. PoolTypes'
  BY DEF Leased
<1>3. CallsNamed' /\ ListsKnown'
  BY <1>1 DEF CallsNamed, ListsKnown
<1>4. LocksNamed'
  BY <1>1 DEF LocksNamed, LockKey
<1>5. LocksBacked'
  BY DEF LocksBacked, CallsOn
<1>6. ASSUME Orderly PROVE Discipline'
  <2> USE <1>6 DEF Discipline
  <2>1. OneCallEach' /\ EnsuringAlone' /\ InMap'
    BY DEF OneCallEach, EnsuringAlone, InMap
  <2>2. LocksHeld'
    <3>1. \A t \in Token : contexts[t] # NoCall \/ Under(t) # {} => t \in Leased
      BY DEF CallsNamed, Under, Ensuring
    <3> QED
      BY <1>1, <3>1 DEF LocksHeld, LockKey, Under
  <2>3. ClosersKnow'
    <3>1. \A x \in Closers : closing[x] # NoCall => callToken[closing[x]] \in Leased
      BY DEF CallsNamed
    <3> QED
      BY <1>1, <3>1 DEF ClosersKnow, Under
  <2>4. ReleasedIdle' /\ ReleaseCloses'
    BY DEF ReleasedIdle, CallsOn, ReleaseCloses
  <2>5. PagesKnown'
    <3>1. \A t \in Token : t \notin Leased => CallsOn(t) = {} /\ pages[t] = {}
      BY DEF CallsNamed, CallsOn, PagesKnown
    <3>2. \A t \in Token : CallsOn(t)' = CallsOn(t)
      BY DEF CallsOn
    <3>3. ASSUME NEW t \in Active' PROVE t \in Active \/ (CallsOn(t) = {} /\ pages[t] = {})
      <4>1. t \in Token
        BY DEF Active
      <4>2. CASE t \in Leased
        BY <1>1, <3>3, <4>2
      <4>3. CASE t \notin Leased
        BY <3>1, <4>1, <4>3
      <4> QED
        BY <4>2, <4>3
    <3>4. ASSUME NEW t \in Active', shutPhase = "no"
          PROVE  /\ \A p \in pages'[t] : contexts[t] = callCtx[p] /\ callCtx[p] # NoCall
                                            /\ p \in statePages[callCtx[p]]
                 /\ \A c \in CallsOn(t) : callPc[c] \notin Ensuring =>
                        contexts[t] = callCtx[c] /\ callCtx[c] # NoCall
      <4>1. t \in Token
        BY DEF Active
      <4> QED
        BY <3>3, <3>4, <4>1 DEF PagesKnown
    <3>5. \A t \in Token : \A p \in pages'[t] : p \in Call /\ callToken[p] = t /\ callPc[p] = "done"
      BY DEF PagesKnown
    <3>6. Active' \subseteq Token
      BY DEF Active
    <3>7. \A t \in Active' : CallsOn(t)' = CallsOn(t)
      BY <3>2, <3>6
    <3> HIDE DEF Discipline
    <3> QED
      BY <3>4, <3>5, <3>7 DEF PagesKnown
  <2> QED
    BY <2>1, <2>2, <2>3, <2>4, <2>5
<1> QED
  BY <1>2, <1>3, <1>4, <1>5, <1>6 DEF Orderly


-----------------------------------------------------------------------------
\* The other steps, one lemma each.

\* The keys of a lease are lock keys.
LEMMA KeysOfLease ==
    ASSUME LeaseTypeOK, NEW t \in Token
    PROVE  LockKey(t) \in SUBSET LockKeys
<1>1. terms[t].key \in Key \cup {NoKey}
  BY DEF LeaseTypeOK, Terms
<1> QED
  BY <1>1 DEF LockKey, LockKeys

\* The locks of the contexts in the map and of those being created are held
\* after a step that changes no key and keeps each of these locks.
LEMMA StillHeld ==
    ASSUME \A t \in Token : LockKey(t)' = LockKey(t),
           ASSUME NEW t \in Token, contexts'[t] # NoCall \/ Under(t)' # {}, NEW k \in LockKey(t)
           PROVE  profileHolder'[k] = t /\ lockFile'[k] = t
    PROVE  LocksHeld'
BY DEF LocksHeld

-----------------------------------------------------------------------------

\* openPage takes the lock of a context it is going to create, and of no other.
LEMMA OpenPageStep ==
    ASSUME PoolAssumption, PoolInv, mode' = mode, LeaseTypeOK',
           [LeaseNext]_leaseVars, NEW c \in Call, NEW t \in Token, OpenPage(c, t)
    PROVE  PoolInv'
<1> USE DEF PoolInv, PoolTypes, OpenPage, leaseVars, lockVars, poolVars, closeVars
<1>10. PoolTypes'
  BY DEF TakeLock, Ensuring
<1>11. CallsNamed' /\ ListsKnown'
  BY DEF CallsNamed, ListsKnown, Leased, Active, Holding, CanOpen, PoolAssumption
<1>12. LocksNamed'
  BY DEF LocksNamed, LockKey, TakeLock, Leased, CanOpen, Holding, Active, PoolAssumption
<1>13. LocksBacked'
  BY DEF LocksBacked, CallsOn, Ensuring, TakeLock, LocksNamed, CallsNamed, Leased, PoolAssumption
<1>14. ASSUME Orderly PROVE Discipline'
  <2> USE <1>14 DEF Discipline
  <2>10. OneCallEach'
    BY DEF OneCallEach, CallsOn, Orderly, PoolAssumption
  <2>11. EnsuringAlone' /\ InMap'
    BY DEF EnsuringAlone, InMap, CallsNamed, Ensuring
  <2>12. LocksHeld'
    <3>1. \A u \in Token : LockKey(u)' = LockKey(u) /\ LockKey(u) \in SUBSET LockKeys
      BY KeysOfLease DEF LockKey
    <3>2. \A u \in Token : u # t => Under(u)' = Under(u)
      BY DEF Under, CallsNamed, Ensuring, PoolAssumption
    <3>3. CASE contexts[t] # NoCall
      <4>1. Under(t)' = Under(t)
        BY <3>3 DEF Under, Ensuring
      <4> QED
        BY <3>1, <3>2, <3>3, <4>1 DEF LocksHeld
    <3>4. CASE TakeLock(t) /\ UNCHANGED contexts
      <4> SUFFICES ASSUME NEW u \in Token, contexts[u] # NoCall \/ Under(u)' # {},
                          NEW k \in LockKey(u)
                   PROVE  profileHolder'[k] = u /\ lockFile'[k] = u
        BY <3>1, <3>4 DEF LocksHeld
      <4>1. k \in LockKeys
        BY <3>1
      <4>2. CASE u = t
        BY <3>4, <4>1, <4>2 DEF TakeLock
      <4>3. CASE u # t
        <5>1. profileHolder[k] = u /\ lockFile[k] = u
          BY <3>2, <4>3 DEF LocksHeld
        <5>2. k \notin LockKey(t)
          BY <3>4, <4>3, <5>1 DEF TakeLock, PoolAssumption
        <5> QED
          BY <3>4, <4>1, <5>1, <5>2 DEF TakeLock
      <4> QED
        BY <4>2, <4>3
    <3> QED
      BY <3>3, <3>4
  <2>13. ClosersKnow'
    BY DEF ClosersKnow, Under, CanOpen, Holding, CallsNamed, Ensuring, Active
  <2>14. ReleasedIdle' /\ ReleaseCloses'
    BY DEF ReleasedIdle, ReleaseCloses, CallsOn, CanOpen, Holding, Active
  <2>15. PagesKnown'
    BY DEF PagesKnown, CallsOn, Ensuring, Active, CallsNamed, Leased
  <2> QED
    BY <2>10, <2>11, <2>12, <2>13, <2>14, <2>15
<1> QED
  BY <1>10, <1>11, <1>12, <1>13, <1>14 DEF Orderly

\* A failed openPage gives back the lock of the context that never was.
LEMMA EnsureFailsStep ==
    ASSUME PoolAssumption, PoolInv, mode' = mode, LeaseTypeOK',
           [LeaseNext]_leaseVars, NEW c \in Call, EnsureFails(c)
    PROVE  PoolInv'
<1> USE DEF PoolInv, PoolTypes, EnsureFails, Unlock, leaseVars, lockVars, poolVars, closeVars
<1>10. PoolTypes'
  BY DEF Ensuring
<1>11. CallsNamed' /\ ListsKnown'
  BY DEF CallsNamed, ListsKnown, Leased, Active
<1>12. LocksNamed'
  BY DEF LocksNamed, LockKey, Leased, PoolAssumption
<1>13. LocksBacked'
  BY DEF LocksBacked, CallsOn, Ensuring, LocksNamed, CallsNamed, Leased, PoolAssumption
<1>14. ASSUME Orderly PROVE Discipline'
  <2> USE <1>14 DEF Discipline
  <2>10. OneCallEach'
    BY DEF OneCallEach
  <2>11. EnsuringAlone' /\ InMap'
    BY DEF EnsuringAlone, InMap, Ensuring
  <2>12. LocksHeld'
    <3>1. \A u \in Token : LockKey(u)' = LockKey(u) /\ LockKey(u) \in SUBSET LockKeys
      BY KeysOfLease DEF LockKey
    <3>2. contexts[callToken[c]] = NoCall /\ Under(callToken[c])' = {}
      BY DEF EnsuringAlone, OneCallEach, Under, Ensuring
    <3>3. \A u \in Token : Under(u)' \subseteq Under(u)
      BY DEF Under, Ensuring
    <3>4. ASSUME NEW u \in Token, contexts'[u] # NoCall \/ Under(u)' # {}, NEW k \in LockKey(u)
          PROVE  profileHolder'[k] = u /\ lockFile'[k] = u
      <4>1. u # callToken[c] /\ (contexts[u] # NoCall \/ Under(u) # {})
        BY <3>2, <3>3, <3>4
      <4>2. profileHolder[k] = u /\ lockFile[k] = u /\ k \in LockKeys
        BY <3>1, <3>4, <4>1 DEF LocksHeld
      <4> QED
        BY <4>1, <4>2
    <3> QED
      BY <3>1, <3>4, StillHeld
  <2>13. ClosersKnow'
    BY DEF ClosersKnow, Under, CallsNamed, Ensuring, Active
  <2>14. ReleasedIdle' /\ ReleaseCloses'
    BY DEF ReleasedIdle, ReleaseCloses, CallsOn
  <2>15. PagesKnown'
    BY DEF PagesKnown, CallsOn, Ensuring, Active
  <2> QED
    BY <2>10, <2>11, <2>12, <2>13, <2>14, <2>15
<1> QED
  BY <1>10, <1>11, <1>12, <1>13, <1>14 DEF Orderly

\* The context a call has created enters the map, where there was none.
LEMMA ContextCreatedStep ==
    ASSUME PoolAssumption, PoolInv, mode' = mode, LeaseTypeOK',
           [LeaseNext]_leaseVars, NEW c \in Call, ContextCreated(c)
    PROVE  PoolInv'
<1> USE DEF PoolInv, PoolTypes, ContextCreated, leaseVars, lockVars, closeVars
<1>10. PoolTypes'
  BY DEF Ensuring
<1>11. CallsNamed' /\ ListsKnown'
  BY DEF CallsNamed, ListsKnown, Leased, Active, PoolAssumption
<1>12. LocksNamed'
  BY DEF LocksNamed, LockKey, Leased
<1>13. LocksBacked'
  BY DEF LocksBacked, CallsOn, Ensuring, CallsNamed, Leased, PoolAssumption
<1>14. ASSUME Orderly PROVE Discipline'
  <2> USE <1>14 DEF Discipline
  <2>10. OneCallEach'
    BY DEF OneCallEach
  <2>11. EnsuringAlone' /\ InMap'
    BY DEF EnsuringAlone, InMap, Ensuring, OneCallEach, CallsNamed, Leased, PoolAssumption
  <2>12. LocksHeld'
    BY DEF LocksHeld, LockKey, Under, Ensuring, CallsNamed, Leased
  <2>13. ClosersKnow'
    BY DEF ClosersKnow, Under, CallsNamed, Ensuring, Active, EnsuringAlone, Leased, OneCallEach
  <2>14. ReleasedIdle' /\ ReleaseCloses'
    BY DEF ReleasedIdle, ReleaseCloses, CallsOn, Ensuring
  <2>15. PagesKnown'
    BY DEF PagesKnown, CallsOn, Ensuring, Active, CallsNamed, Leased, EnsuringAlone, OneCallEach, PoolAssumption
  <2> QED
    BY <2>10, <2>11, <2>12, <2>13, <2>14, <2>15
<1> QED
  BY <1>10, <1>11, <1>12, <1>13, <1>14 DEF Orderly

\* closePage takes the page from the lease, or leaves a lease that is over.
LEMMA ClosePoolPageStep ==
    ASSUME PoolAssumption, PoolInv, mode' = mode, LeaseTypeOK',
           [LeaseNext]_leaseVars, NEW c \in Call, ClosePoolPage(c)
    PROVE  PoolInv'
<1> USE DEF PoolInv, PoolTypes, ClosePoolPage, ClosePage, Retire, leaseVars, lockVars, closeVars, callVars
<1>10. PoolTypes'
  OBVIOUS
<1>11. CallsNamed' /\ ListsKnown'
  BY LeasesAge DEF CallsNamed, ListsKnown
<1>12. LocksNamed'
  BY LeasesAge DEF LocksNamed, LockKey
<1>13. LocksBacked'
  BY DEF LocksBacked, CallsOn
<1>14. ASSUME Orderly PROVE Discipline'
  <2> USE <1>14 DEF Discipline
  <2>10. OneCallEach' /\ EnsuringAlone' /\ InMap'
    BY DEF OneCallEach, EnsuringAlone, InMap
  <2>11. LocksHeld'
    BY LeasesAge DEF LocksHeld, LockKey, Under, Ensuring, CallsNamed
  <2>12. ClosersKnow'
    BY LeasesAge DEF ClosersKnow, Under, CallsNamed
  <2>13. ReleasedIdle' /\ ReleaseCloses'
    BY DEF ReleasedIdle, ReleaseCloses, CallsOn
  <2>14. PagesKnown'
    BY DEF PagesKnown, CallsOn, Active, Holding, Overdue, LeaseTypeOK
  <2> QED
    BY <2>10, <2>11, <2>12, <2>13, <2>14
<1> QED
  BY <1>10, <1>11, <1>12, <1>13, <1>14 DEF Orderly

\* releaseContext leaves no call behind, and a close under way.
LEMMA ReleaseContextStep ==
    ASSUME PoolAssumption, PoolInv, mode' = mode, LeaseTypeOK',
           [LeaseNext]_leaseVars, NEW x \in Releaser, NEW t \in Token, ReleaseContext(x, t)
    PROVE  PoolInv'
<1> USE DEF PoolInv, PoolTypes, ReleaseContext, Retire, lockVars, callVars, poolVars
<1>10. PoolTypes'
  BY DEF Closers
<1>11. CallsNamed' /\ ListsKnown'
  BY LeasesAge DEF CallsNamed, ListsKnown, Closers, PoolAssumption
<1>12. LocksNamed'
  BY LeasesAge DEF LocksNamed, LockKey
<1>13. LocksBacked'
  BY DEF LocksBacked, CallsOn
<1>14. ASSUME Orderly PROVE Discipline'
  <2> USE <1>14 DEF Discipline
  <2>10. OneCallEach' /\ EnsuringAlone' /\ InMap'
    BY DEF OneCallEach, EnsuringAlone, InMap
  <2>11. LocksHeld'
    BY LeasesAge DEF LocksHeld, LockKey, Under, Ensuring, CallsNamed
  <2>12. ClosersKnow'
    BY LeasesAge DEF ClosersKnow, Under, CallsNamed, Active, Closers, PoolAssumption
  <2>13. ReleasedIdle'
    BY DEF ReleasedIdle, CallsOn, Orderly, Active
  <2>14. ReleaseCloses'
    BY DEF ReleaseCloses, Active, Closers, LeaseTypeOK
  <2>15. PagesKnown'
    BY DEF PagesKnown, CallsOn, Active, LeaseTypeOK
  <2> QED
    BY <2>10, <2>11, <2>12, <2>13, <2>14, <2>15
<1> QED
  BY <1>10, <1>11, <1>12, <1>13, <1>14 DEF Orderly

\* When a close has ended, its lease has no context, no lock and no call that
\* would create one.
LEMMA CloseEndsStep ==
    ASSUME PoolAssumption, PoolInv, mode' = mode, LeaseTypeOK',
           [LeaseNext]_leaseVars, NEW x \in Closers, CloseEnds(x)
    PROVE  PoolInv'
<1> USE DEF PoolInv, PoolTypes, CloseEnds, Finally, Unlock, leaseVars, callVars
<1>10. PoolTypes'
  OBVIOUS
<1>11. CallsNamed' /\ ListsKnown'
  BY DEF CallsNamed, ListsKnown, Leased, Active, PoolAssumption
<1>12. LocksNamed'
  BY DEF LocksNamed, LockKey, Leased, PoolAssumption
<1>13. LocksBacked'
  BY DEF LocksBacked, CallsOn, Ensuring, CallsNamed, LocksNamed, Leased, PoolAssumption
<1>14. ASSUME Orderly PROVE Discipline'
  <2> USE <1>14 DEF Discipline
  <2>10. OneCallEach' /\ EnsuringAlone'
    BY DEF OneCallEach, EnsuringAlone, CallsNamed, Leased
  <2>11. InMap'
    BY DEF InMap, ClosersKnow, CallsNamed, Leased
  <2>12. LocksHeld'
    <3>1. \A u \in Token : LockKey(u)' = LockKey(u) /\ LockKey(u) \in SUBSET LockKeys
      BY KeysOfLease DEF LockKey
    <3> DEFINE t == callToken[closing[x]]
    <3>2. contexts'[t] = NoCall /\ Under(t) = {}
      BY DEF EnsuringAlone, ClosersKnow, Under, CallsNamed, Leased, PoolAssumption
    <3>3. \A u \in Token : Under(u)' = Under(u) /\ (contexts'[u] # NoCall => contexts[u] # NoCall)
      BY DEF Under
    <3>4. ASSUME NEW u \in Token, contexts'[u] # NoCall \/ Under(u)' # {}, NEW k \in LockKey(u)
          PROVE  profileHolder'[k] = u /\ lockFile'[k] = u
      <4>1. u # t /\ (contexts[u] # NoCall \/ Under(u) # {})
        BY <3>2, <3>3, <3>4
      <4>2. profileHolder[k] = u /\ lockFile[k] = u /\ k \in LockKeys
        BY <3>1, <3>4, <4>1 DEF LocksHeld
      <4> QED
        BY <4>1, <4>2
    <3> QED
      BY <3>1, <3>4, StillHeld
  <2>13. ClosersKnow'
    BY DEF ClosersKnow, Under, CallsNamed, Active, EnsuringAlone, Ensuring, Leased, PoolAssumption
  <2>14. ReleasedIdle' /\ ReleaseCloses'
    BY DEF ReleasedIdle, ReleaseCloses, CallsOn, CallsNamed, Leased
  <2>15. PagesKnown'
    BY DEF PagesKnown, CallsOn, Active, ClosersKnow, ListsKnown, CallsNamed, Leased
  <2> QED
    BY <2>10, <2>11, <2>12, <2>13, <2>14, <2>15
<1> QED
  BY <1>10, <1>11, <1>12, <1>13, <1>14 DEF Orderly

\* When the close fails, the map and the locks are tidied all the same.
LEMMA CloseFailsStep ==
    ASSUME PoolAssumption, PoolInv, mode' = mode, LeaseTypeOK',
           [LeaseNext]_leaseVars, NEW x \in Closers, CloseFails(x)
    PROVE  PoolInv'
<1> USE DEF PoolInv, PoolTypes, CloseFails, Finally, Unlock, leaseVars, callVars
<1>10. PoolTypes'
  OBVIOUS
<1>11. CallsNamed' /\ ListsKnown'
  BY DEF CallsNamed, ListsKnown, Leased, Active, PoolAssumption
<1>12. LocksNamed'
  BY DEF LocksNamed, LockKey, Leased, PoolAssumption
<1>13. LocksBacked'
  BY DEF LocksBacked, CallsOn, Ensuring, CallsNamed, LocksNamed, Leased, PoolAssumption
<1>14. ASSUME Orderly PROVE Discipline'
  <2> USE <1>14 DEF Discipline
  <2>10. FALSE
    BY DEF Orderly
  <2> QED
    BY <2>10
<1> QED
  BY <1>10, <1>11, <1>12, <1>13, <1>14 DEF Orderly

\* A close begins on the context in the map.
LEMMA ReapNextStep ==
    ASSUME PoolAssumption, PoolInv, mode' = mode, LeaseTypeOK',
           [LeaseNext]_leaseVars, NEW t \in Token, ReapNext(t)
    PROVE  PoolInv'
<1> USE DEF PoolInv, PoolTypes, ReapNext, leaseVars, lockVars, callVars, poolVars
<1>10. PoolTypes'
  BY DEF Closers
<1>11. CallsNamed' /\ ListsKnown'
  BY DEF CallsNamed, ListsKnown, Leased, Active, Closers, PoolAssumption
<1>12. LocksNamed'
  BY DEF LocksNamed, LockKey, Leased
<1>13. LocksBacked'
  BY DEF LocksBacked, CallsOn
<1>14. ASSUME Orderly PROVE Discipline'
  <2> USE <1>14 DEF Discipline
  <2>10. OneCallEach' /\ EnsuringAlone' /\ InMap'
    BY DEF OneCallEach, EnsuringAlone, InMap
  <2>11. LocksHeld'
    BY DEF LocksHeld, LockKey, Under
  <2>12. ClosersKnow'
    BY DEF ClosersKnow, Under, CallsNamed, Active, Closers, ListsKnown
  <2>13. ReleasedIdle' /\ ReleaseCloses'
    BY DEF ReleasedIdle, ReleaseCloses, CallsOn, Closers
  <2>14. PagesKnown'
    BY DEF PagesKnown, CallsOn, Active
  <2> QED
    BY <2>10, <2>11, <2>12, <2>13, <2>14
<1> QED
  BY <1>10, <1>11, <1>12, <1>13, <1>14 DEF Orderly

\* A close begins on the context in the map.
LEMMA ShutdownNextStep ==
    ASSUME PoolAssumption, PoolInv, mode' = mode, LeaseTypeOK',
           [LeaseNext]_leaseVars, NEW t \in Token, ShutdownNext(t)
    PROVE  PoolInv'
<1> USE DEF PoolInv, PoolTypes, ShutdownNext, leaseVars, lockVars, callVars, poolVars
<1>10. PoolTypes'
  BY DEF Closers
<1>11. CallsNamed' /\ ListsKnown'
  BY DEF CallsNamed, ListsKnown, Leased, Active, Closers, PoolAssumption
<1>12. LocksNamed'
  BY DEF LocksNamed, LockKey, Leased
<1>13. LocksBacked'
  BY DEF LocksBacked, CallsOn
<1>14. ASSUME Orderly PROVE Discipline'
  <2> USE <1>14 DEF Discipline
  <2>10. OneCallEach' /\ EnsuringAlone' /\ InMap'
    BY DEF OneCallEach, EnsuringAlone, InMap
  <2>11. LocksHeld'
    BY DEF LocksHeld, LockKey, Under
  <2>12. ClosersKnow'
    BY DEF ClosersKnow, Under, CallsNamed, Active, Closers, ListsKnown
  <2>13. ReleasedIdle' /\ ReleaseCloses'
    BY DEF ReleasedIdle, ReleaseCloses, CallsOn, Closers
  <2>14. PagesKnown'
    BY DEF PagesKnown, CallsOn, Active
  <2> QED
    BY <2>10, <2>11, <2>12, <2>13, <2>14
<1> QED
  BY <1>10, <1>11, <1>12, <1>13, <1>14 DEF Orderly

\* Another process takes a lock file only if nobody here has the lock.
LEMMA ForeignLockStep ==
    ASSUME PoolAssumption, PoolInv, mode' = mode, LeaseTypeOK',
           [LeaseNext]_leaseVars, NEW k \in Key, ForeignLock(k)
    PROVE  PoolInv'
<1> USE DEF PoolInv, PoolTypes, ForeignLock, leaseVars, callVars, poolVars, closeVars
<1>10. PoolTypes'
  BY DEF LockKeys
<1>11. CallsNamed' /\ ListsKnown'
  BY DEF CallsNamed, ListsKnown, Leased, Active
<1>12. LocksNamed'
  BY DEF LocksNamed, LockKey, Leased, LockKeys, LocksBacked, PoolAssumption
<1>13. LocksBacked'
  BY DEF LocksBacked, LocksNamed, CallsOn, LockKeys, PoolAssumption
<1>14. ASSUME Orderly PROVE Discipline'
  <2> USE <1>14 DEF Discipline
  <2>10. OneCallEach' /\ EnsuringAlone' /\ InMap'
    BY DEF OneCallEach, EnsuringAlone, InMap
  <2>11. LocksHeld'
    <3>1. \A u \in Token : LockKey(u)' = LockKey(u) /\ LockKey(u) \in SUBSET LockKeys
      BY KeysOfLease DEF LockKey
    <3>2. \A u \in Token : Under(u)' = Under(u)
      BY DEF Under
    <3>3. \A u \in Token, j \in LockKeys : lockFile[j] = u => lockFile'[j] = u
      BY DEF PoolAssumption
    <3> QED
      BY <3>1, <3>2, <3>3 DEF LocksHeld
  <2>12. ClosersKnow'
    BY DEF ClosersKnow, Under, Active, CallsNamed
  <2>13. ReleasedIdle' /\ ReleaseCloses'
    BY DEF ReleasedIdle, ReleaseCloses, CallsOn
  <2>14. PagesKnown'
    BY DEF PagesKnown, CallsOn, Active
  <2> QED
    BY <2>10, <2>11, <2>12, <2>13, <2>14
<1> QED
  BY <1>10, <1>11, <1>12, <1>13, <1>14 DEF Orderly

\* A page that cannot be registered is closed; one that can belongs to the lease.
LEMMA NavigatedStep ==
    ASSUME PoolAssumption, PoolInv, mode' = mode, LeaseTypeOK',
           [LeaseNext]_leaseVars, NEW c \in Call, Navigated(c)
    PROVE  PoolInv'
<1> USE DEF PoolInv, PoolTypes, Navigated, lockVars, closeVars
<1>1. callToken[c] \in Leased
  BY DEF CallsNamed
<1>2. \/ Registers(c, callToken[c])
      \/ Retire({callToken[c]} \cap Overdue, "expired")
      \/ UNCHANGED <<leaseVars, statePages>>
  OBVIOUS
<1>3. \A t \in Token : leaseStatus'[t] = "released" => leaseStatus[t] = "released"
  <2>1. CASE Registers(c, callToken[c])
    BY <2>1 DEF Registers, RegisterPage
  <2>2. CASE Retire({callToken[c]} \cap Overdue, "expired")
    BY <2>2 DEF Retire
  <2>3. CASE UNCHANGED leaseVars
    BY <2>3 DEF leaseVars
  <2> QED
    BY <1>2, <2>1, <2>2, <2>3
<1>10. PoolTypes'
  <2>1. statePages' \in [Call -> SUBSET Call]
    <3>1. \/ statePages' = [statePages EXCEPT ![callCtx[c]] = @ \cup {c}]
          \/ statePages' = statePages
      BY <1>2
    <3> QED
      BY <3>1
  <2>2. callPc' \in [Call -> {"idle", "opening", "navigating", "done"} \cup Ensuring]
    OBVIOUS
  <2> QED
    BY <2>1, <2>2
<1>11. CallsNamed' /\ ListsKnown'
  BY LeasesAge DEF CallsNamed, ListsKnown, Ensuring
<1>12. LocksNamed'
  BY LeasesAge DEF LocksNamed, LockKey
<1>13. LocksBacked'
  BY DEF LocksBacked, CallsOn, Ensuring
<1>14. ASSUME Orderly PROVE Discipline'
  <2> USE <1>14 DEF Discipline
  <2>10. OneCallEach' /\ EnsuringAlone' /\ InMap'
    BY DEF OneCallEach, EnsuringAlone, InMap, Ensuring
  <2>11. \A u \in Token : Under(u)' = Under(u)
    BY DEF Under, Ensuring
  <2>12. LocksHeld'
    BY LeasesAge, <2>11 DEF LocksHeld, LockKey, Under, Ensuring, CallsNamed
  <2>13. ClosersKnow'
    <3>1. \A x \in Closers : closing[x] # NoCall => callToken[closing[x]] \in Leased
      BY DEF CallsNamed
    <3>2. \A t \in Leased : t \in Token /\ (t \notin Active => t \notin Active')
      BY LeasesAge DEF Leased
    <3> QED
      BY <2>11, <3>1, <3>2 DEF ClosersKnow
  <2>14. ReleasedIdle' /\ ReleaseCloses'
    BY <1>3 DEF ReleasedIdle, ReleaseCloses, CallsOn
  <2>15. PagesKnown'
    <3>1. PICK t \in Token : t = callToken[c]
      BY <1>1 DEF Leased
    <3>2. \/ UNCHANGED <<leaseVars, statePages>>
          \/ /\ statePages' = [statePages EXCEPT ![callCtx[c]] = @ \cup {c}]
             /\ Registers(c, t) \/ Retire({t} \cap Overdue, "expired")
      BY <3>1
    <3>3. /\ \A u \in Token :
                \/ pages'[u] = pages[u]
                \/ pages'[u] = {}
                \/ /\ u = t /\ pages'[u] = pages[u] \cup {c}
                   /\ statePages' = [statePages EXCEPT ![callCtx[c]] = @ \cup {c}]
          /\ leaseStatus' = leaseStatus \/ leaseStatus' = [u \in Token |->
                 IF u \in {t} \cap Overdue THEN "expired" ELSE leaseStatus[u]]
      <4>1. CASE UNCHANGED leaseVars
        BY <4>1 DEF leaseVars
      <4>2. CASE /\ statePages' = [statePages EXCEPT ![callCtx[c]] = @ \cup {c}]
                 /\ Registers(c, t)
        BY <4>2 DEF Registers, RegisterPage, LeaseTypeOK
      <4>3. CASE Retire({t} \cap Overdue, "expired")
        BY <4>3 DEF Retire
      <4> QED
        BY <3>2, <4>1, <4>2, <4>3
    <3>4. \A u \in Active' : u \in Token /\ u \in Active
      BY <3>3 DEF LeaseTypeOK, Active
    <3>5. \A d \in Call : statePages[d] \subseteq statePages'[d]
      BY <3>2
    <3>6. c \in CallsOn(t) /\ callPc[c] \notin Ensuring
      BY <3>1 DEF CallsOn, Ensuring
    <3>7. \A u \in Token : \A p \in pages'[u] : p \in Call /\ callToken[p] = u /\ callPc'[p] = "done"
      BY <3>1, <3>3 DEF PagesKnown
    <3>8. ASSUME NEW u \in Active', shutPhase = "no", NEW p \in pages'[u]
          PROVE  contexts[u] = callCtx[p] /\ callCtx[p] # NoCall /\ p \in statePages'[callCtx[p]]
      <4>1. CASE p \in pages[u]
        <5>1. /\ p \in Call /\ contexts[u] = callCtx[p] /\ callCtx[p] # NoCall
              /\ p \in statePages[callCtx[p]]
          BY <3>4, <3>8, <4>1 DEF PagesKnown
        <5> QED
          BY <3>5, <5>1
      <4>2. CASE p \notin pages[u]
        <5>1. /\ u = t /\ p = c
              /\ statePages' = [statePages EXCEPT ![callCtx[c]] = @ \cup {c}]
          BY <3>3, <3>4, <3>8, <4>2
        <5>2. contexts[t] = callCtx[c] /\ callCtx[c] # NoCall
          BY <3>4, <3>6, <3>8, <5>1 DEF PagesKnown
        <5> QED
          BY <5>1, <5>2
      <4> QED
        BY <4>1, <4>2
    <3>9. ASSUME NEW u \in Active', shutPhase = "no", NEW d \in CallsOn(u)', callPc'[d] \notin Ensuring
          PROVE  contexts[u] = callCtx[d] /\ callCtx[d] # NoCall
      <4>1. d \in CallsOn(u) /\ callPc[d] \notin Ensuring
        BY <3>9 DEF CallsOn, Ensuring
      <4> QED
        BY <3>4, <3>9, <4>1 DEF PagesKnown
    <3> QED
      BY <3>7, <3>8, <3>9 DEF PagesKnown
  <2> QED
    BY <2>10, <2>11, <2>12, <2>13, <2>14, <2>15
<1> QED
  BY <1>10, <1>11, <1>12, <1>13, <1>14 DEF Orderly

-----------------------------------------------------------------------------
\* Initially nothing is open, locked or listed.
LEMMA PoolInitInv == PoolAssumption /\ PoolInit => PoolInv
<1> SUFFICES ASSUME PoolAssumption, PoolInit PROVE PoolInv
  OBVIOUS
<1> USE DEF PoolInit, LeaseInit
<1>1. LeaseTypeOK
  BY LeaseAssumption DEF LeaseTypeOK, LeaseAssumption
<1>2. PoolTypes
  BY DEF PoolTypes
<1>3. CallsNamed /\ LocksNamed /\ ListsKnown /\ LocksBacked
  BY DEF CallsNamed, LocksNamed, ListsKnown, LocksBacked, PoolAssumption, Closers
<1>4. OneCallEach /\ EnsuringAlone /\ InMap /\ LocksHeld
  BY DEF OneCallEach, EnsuringAlone, InMap, LocksHeld, Under, Ensuring
<1>5. ClosersKnow /\ ReleasedIdle /\ PagesKnown /\ ReleaseCloses
  BY DEF ClosersKnow, ReleasedIdle, PagesKnown, ReleaseCloses, CallsOn, Active
<1> QED
  BY <1>1, <1>2, <1>3, <1>4, <1>5 DEF PoolInv, Discipline

\* Acquiring, heartbeats, the clock and what is found overdue are the lease
\* manager's alone.
LEMMA LeaseOnlyStep ==
    ASSUME PoolAssumption, PoolInv, mode' = mode, LeaseTypeOK', [LeaseNext]_leaseVars,
           LeaseOnly \/ ReapBegins
    PROVE  PoolInv'
<1>1. LeaseTypeOK
  BY DEF PoolInv
<1>2. \A t \in Token : leaseStatus'[t] = "released" => leaseStatus[t] = "released"
  BY <1>1 DEF LeaseOnly, ReapBegins, Acquire, Heartbeat, LazyExpiry, ListLeases, ReapExpired, Tick,
         Retire, LeaseTypeOK
<1>3. \A t \in Token : pages'[t] \subseteq pages[t]
  BY <1>1 DEF LeaseOnly, ReapBegins, Acquire, Heartbeat, LazyExpiry, ListLeases, ReapExpired, Tick,
         Retire, LeaseTypeOK
<1>4. \A t \in reapList' : t \in Leased' /\ t \notin Active'
  <2>1. CASE LeaseOnly
    BY <1>1, <2>1, LeasesAge DEF LeaseOnly, closeVars, PoolInv, ListsKnown
  <2>2. CASE ReapBegins
    BY <1>1, <2>2 DEF ReapBegins, ReapExpired, Retire, Overdue, Active, Leased, LeaseTypeOK
  <2> QED
    BY <2>1, <2>2
<1>5. UNCHANGED <<mode, callVars, lockVars, closing, shutPhase, shutList, poolVars>>
  BY DEF LeaseOnly, ReapBegins, closeVars
<1> QED
  BY <1>2, <1>3, <1>4, <1>5, LeasesMoveOn

\* What loading, launching, page creation, a dying browser and shutdown do to
\* calls, contexts and the browser.
LEMMA CallsOnlyStep ==
    ASSUME PoolAssumption, PoolInv, mode' = mode,
           \/ \E c \in Call : StateLoaded(c) \/ BrowserAwaited(c) \/ PageCreated(c)
           \/ \E n \in Launches : LaunchSettles(n) \/ BrowserCrash(n)
           \/ ShutdownBegins \/ ShutdownClosesBrowser \/ ShutdownEnds
    PROVE  PoolInv'
<1>1. callPc \in [Call -> {"idle", "opening", "navigating", "done"} \cup Ensuring]
  BY DEF PoolInv, PoolTypes
<1> USE DEF callVars, lockVars, closeVars, poolVars
<1>2. ASSUME NEW c \in Call, StateLoaded(c) \/ BrowserAwaited(c)
      PROVE  PoolInv'
  <2>1. \E pc \in Ensuring : callPc' = [callPc EXCEPT ![c] = pc]
    BY <1>2 DEF StateLoaded, BrowserAwaited, Ensuring
  <2>2. callPc[c] \in Ensuring
    BY <1>2 DEF StateLoaded, BrowserAwaited, Ensuring
  <2>3. UNCHANGED <<mode, leaseVars, callToken, callCtx, contexts, statePages, lockVars,
                    closing, reapList, liveCtx, shutPhase, shutList>>
    BY <1>2 DEF StateLoaded, BrowserAwaited
  <2> QED
    BY <1>1, <2>1, <2>2, <2>3, CallsMoveOn
<1>3. ASSUME NEW c \in Call, PageCreated(c)
      PROVE  PoolInv'
  BY <1>1, <1>3, CallsMoveOn DEF PageCreated
<1>4. ASSUME NEW n \in Launches, LaunchSettles(n) \/ BrowserCrash(n)
      PROVE  PoolInv'
  <2>1. UNCHANGED <<mode, leaseVars, callToken, callCtx, contexts, statePages, lockVars,
                    closing, reapList, callPc, shutPhase, shutList>>
    BY <1>4 DEF LaunchSettles, BrowserCrash
  <2>2. liveCtx' \subseteq liveCtx
    BY <1>4 DEF LaunchSettles, BrowserCrash, BrowserGone
  <2> QED
    BY <1>1, <2>1, <2>2, CallsMoveOn
<1>5. CASE ShutdownBegins \/ ShutdownClosesBrowser \/ ShutdownEnds
  <2>1. UNCHANGED <<mode, leaseVars, callToken, callCtx, contexts, statePages, lockVars,
                    closing, reapList, callPc>>
    BY <1>5 DEF ShutdownBegins, ShutdownClosesBrowser, ShutdownEnds
  <2>2. liveCtx' \subseteq liveCtx /\ shutPhase' # "no"
    BY <1>5 DEF ShutdownBegins, ShutdownClosesBrowser, ShutdownEnds, BrowserGone
  <2> QED
    BY <1>1, <2>1, <2>2, CallsMoveOn
<1> QED
  BY <1>2, <1>3, <1>4, <1>5

\* Every step of the pool preserves the invariant.
LEMMA PoolStepInv ==
    ASSUME PoolAssumption, PoolInv, [PoolNext]_vars
    PROVE  PoolInv'
<1>1. [LeaseNext]_leaseVars
  BY PoolStepsOnLeases DEF PoolInv
<1>2. LeaseTypeOK'
  BY <1>1, LeaseTypeStep DEF PoolInv
<1>3. CASE UNCHANGED vars
  BY <1>3, CallsMoveOn DEF vars, runVars, callVars, lockVars, closeVars, poolVars, PoolInv, PoolTypes
<1>4. CASE PoolNext
  <2>1. mode' = mode
    BY <1>4 DEF PoolNext
  <2>2. CASE LeaseOnly \/ ReapBegins
    BY <1>1, <1>2, <2>1, <2>2, LeaseOnlyStep
  <2>3. ASSUME NEW c \in Call, NEW t \in Token, OpenPage(c, t) PROVE PoolInv'
    BY <1>1, <1>2, <2>1, <2>3, OpenPageStep
  <2>4. ASSUME NEW c \in Call, CallStep(c) PROVE PoolInv'
    BY <1>1, <1>2, <2>1, <2>4, CallsOnlyStep, EnsureFailsStep, ContextCreatedStep, NavigatedStep
       DEF CallStep
  <2>5. ASSUME NEW c \in Call, ClosePoolPage(c) PROVE PoolInv'
    BY <1>1, <1>2, <2>1, <2>5, ClosePoolPageStep
  <2>6. ASSUME NEW n \in Launches, LaunchSettles(n) \/ BrowserCrash(n) PROVE PoolInv'
    BY <2>1, <2>6, CallsOnlyStep
  <2>7. ASSUME NEW t \in Token, NEW x \in Releaser, ReleaseContext(x, t) PROVE PoolInv'
    BY <1>1, <1>2, <2>1, <2>7, ReleaseContextStep
  <2>8. ASSUME NEW t \in Token, ReapNext(t) \/ ShutdownNext(t) PROVE PoolInv'
    BY <1>1, <1>2, <2>1, <2>8, ReapNextStep, ShutdownNextStep
  <2>9. CASE ShutdownBegins \/ ShutdownClosesBrowser \/ ShutdownEnds
    BY <2>1, <2>9, CallsOnlyStep
  <2>10. ASSUME NEW x \in Closers, CloseEnds(x) \/ CloseFails(x) PROVE PoolInv'
    BY <1>1, <1>2, <2>1, <2>10, CloseEndsStep, CloseFailsStep
  <2>11. ASSUME NEW k \in Key, ForeignLock(k) PROVE PoolInv'
    BY <1>1, <1>2, <2>1, <2>11, ForeignLockStep
  <2> QED
    BY <1>4, <2>2, <2>3, <2>4, <2>5, <2>6, <2>7, <2>8, <2>9, <2>10, <2>11 DEF PoolNext, PoolStep
<1> QED
  BY <1>3, <1>4

\* In every reachable state calls, contexts, locks and pages are in the
\* relations that PoolInv lists.
THEOREM PoolInvariant == PoolSpec => []PoolInv
<1>1. PoolInit => PoolInv
  BY PoolInitInv, PoolAssumption
<1>2. PoolInv /\ [PoolNext]_vars => PoolInv'
  BY PoolStepInv, PoolAssumption
<1> QED
  BY <1>1, <1>2, PTL DEF PoolSpec

\* No profile lock is held without a context that needs it, and memory and
\* disk agree about its holder, whatever the clients do (ensureContext and
\* closeContext, through every failure).
THEOREM LocksAreBacked == PoolSpec => []LocksBacked
<1>1. PoolInv => LocksBacked
  BY DEF PoolInv
<1> QED
  BY <1>1, PoolInvariant, PTL

\* A profile is open in one context at a time, and the lease that has it open
\* holds its lock in memory and on disk, while clients await their calls.
THEOREM ProfilesExclusive == PoolSpec => []ProfileExclusive
<1>1. PoolInv => ProfileExclusive
  <2> SUFFICES ASSUME PoolInv, Orderly, NEW c \in liveCtx, NEW k \in LockKey(callToken[c])
               PROVE  /\ profileHolder[k] = callToken[c] /\ lockFile[k] = callToken[c]
                      /\ \A d \in liveCtx : k \in LockKey(callToken[d]) => d = c
    BY DEF ProfileExclusive
  <2>1. \A d \in liveCtx : /\ d \in Call /\ d # NoCall
                           /\ callToken[d] \in Token /\ contexts[callToken[d]] = d
    BY PoolAssumption DEF PoolInv, PoolTypes, CallsNamed, Leased, Discipline, InMap, PoolAssumption
  <2>2. \A d \in liveCtx : \A j \in LockKey(callToken[d]) :
            profileHolder[j] = callToken[d] /\ lockFile[j] = callToken[d]
    BY <2>1 DEF PoolInv, Discipline, LocksHeld
  <2> QED
    BY <2>1, <2>2
<1> QED
  BY <1>1, PoolInvariant, PTL

\* Every open context is in the map, and every page a lease lists is found
\* through it, until shutdown begins.
THEOREM NothingIsOutOfReach == PoolSpec => []NothingOutOfReach
<1>1. PoolInv => NothingOutOfReach
  <2> SUFFICES ASSUME PoolInv, Orderly PROVE
          /\ \A c \in liveCtx : contexts[callToken[c]] = c
          /\ \A t \in Active : \A p \in pages[t] :
                \/ contexts[t] = callCtx[p] /\ p \in statePages[callCtx[p]]
                \/ shutPhase # "no"
    BY DEF NothingOutOfReach
  <2> QED
    BY DEF PoolInv, Discipline, InMap, PagesKnown
<1> QED
  BY <1>1, PoolInvariant, PTL

\* The context of a released lease is closed, or some activation of
\* closeContext is closing it, while clients await their calls.
THEOREM ReleaseClosesInOrder == PoolSpec => []OrderlyReleaseCloses
<1>1. PoolInv => OrderlyReleaseCloses
  BY DEF PoolInv, Discipline, OrderlyReleaseCloses
<1> QED
  BY <1>1, PoolInvariant, PTL

\* What LeaseManager promises of its leases, it promises through the pool.
THEOREM PoolKeepsLeasePromises ==
    PoolSpec => []CapacityBound /\ NoRevival /\ []PagesWithinLease /\ []FencesHold
BY ImplementsLeases, CapacityRespected, NothingRevived, PagesBounded, FencesRespected, PTL

=============================================================================
