--------------------------- MODULE LeaseManager ---------------------------
(***************************************************************************)
(* LeaseManager of src/lease-manager.ts: the bookkeeping of browser leases *)
(* that every pool operation asks for permission.  Each method is          *)
(* synchronous, hence one action.  Calls are those of the lease's owner:   *)
(* assertOwned refuses any other before anything is written.  Instants are *)
(* kept relative to now: the code only compares expiresAt with now(), so   *)
(* left[t] is expiresAt - now() (0 once past) and Tick runs it down.       *)
(***************************************************************************)
EXTENDS Naturals, FiniteSets

CONSTANTS
    Token,         \* context tokens; each is acquired once (random UUIDs)
    Page,          \* page ids
    Key,           \* profiles, storage-state files and user-data dirs
    NoKey,         \* a request that names none of them
    Ttls,          \* ttlMs values of the requests
    BridgeTtl,     \* the 300 000 ms clamp of the external-bridge tier
    PageLimits,    \* maxPages values of the requests
    MaxContexts,   \* {} when the cap is undefined, else its singleton
    BridgeEnabled, \* FARM_ENABLE_EXTERNAL_BRIDGE is "1"
    Asked          \* the requests callers make

Policies == {"ephemeral", "storage-state", "persistent-profile", "external-bridge"}
Credentialed == {"storage-state", "persistent-profile"}

\* fenced: the allow-list is not empty; key: the identity the lease carries.
Terms == [ttl : Ttls \cup {BridgeTtl}, readWrite : BOOLEAN, fenced : BOOLEAN,
          maxPages : PageLimits, policy : Policies, key : Key \cup {NoKey}]

ASSUME LeaseAssumption ==
    /\ IsFiniteSet(Token) /\ IsFiniteSet(Page)
    /\ NoKey \notin Key
    /\ Ttls \subseteq Nat \ {0} /\ BridgeTtl \in Nat \ {0}
    /\ PageLimits \subseteq Nat
    /\ MaxContexts \subseteq Nat
    /\ BridgeEnabled \in BOOLEAN
    /\ Asked \subseteq Terms /\ Asked # {}

VARIABLES
    leaseStatus,  \* lease.status; "absent" before acquire
    terms,        \* the terms of an acquired lease
    left,         \* expiresAt - now
    pages         \* lease.pages

leaseVars == <<leaseStatus, terms, left, pages>>

Active == {t \in Token : leaseStatus[t] = "active"}

\* Active and not past the expiry: what activeContextCount counts, and the
\* leases on which assertActive succeeds.
Holding == {t \in Active : left[t] > 0}

\* Active on paper only: the next call that looks will mark them expired.
Overdue == Active \ Holding

\* assertDomainAllowed; inside says whether the url is under the allow-list.
DomainAllowed(t, inside) ==
    IF terms[t].fenced THEN inside ELSE terms[t].policy \notin Credentialed

CanOpen(t, inside) ==
    t \in Holding /\ Cardinality(pages[t]) < terms[t].maxPages /\ DomainAllowed(t, inside)

\* The leases of S take the status st and drop their pages.
Retire(S, st) ==
    /\ leaseStatus' = [t \in Token |-> IF t \in S THEN st ELSE leaseStatus[t]]
    /\ pages' = [t \in Token |-> IF t \in S THEN {} ELSE pages[t]]
    /\ UNCHANGED <<terms, left>>

-----------------------------------------------------------------------------
LeaseInit ==
    /\ leaseStatus = [t \in Token |-> "absent"]
    /\ terms = [t \in Token |-> CHOOSE asked \in Asked : TRUE]
    /\ left = [t \in Token |-> 0]
    /\ pages = [t \in Token |-> {}]

\* Mutant: > instead of >= .
HasCapacity_OffByOne == \A cap \in MaxContexts : Cardinality(Holding) <= cap

HasCapacity == \A cap \in MaxContexts : Cardinality(Holding) < cap

\* An external-bridge lease must be enabled, fenced and without identity ...
Admissible(asked) ==
    asked.policy = "external-bridge" => BridgeEnabled /\ asked.fenced /\ asked.key = NoKey

\* ... and is read-only and short, whatever was asked for.
Granted(asked) ==
    IF asked.policy = "external-bridge"
    THEN [asked EXCEPT !.readWrite = FALSE, !.ttl = IF @ > BridgeTtl THEN BridgeTtl ELSE @]
    ELSE asked

Acquire(t, asked) ==
    /\ leaseStatus[t] = "absent"
    /\ HasCapacity
    /\ Admissible(asked)
    /\ leaseStatus' = [leaseStatus EXCEPT ![t] = "active"]
    /\ terms' = [terms EXCEPT ![t] = Granted(asked)]
    /\ left' = [left EXCEPT ![t] = Granted(asked).ttl]
    /\ UNCHANGED pages

\* Mutant: heartbeat looks at the status only.
Heartbeat_RevivesOverdue(t) ==
    /\ t \in Active
    /\ left' = [left EXCEPT ![t] = terms[t].ttl]
    /\ UNCHANGED <<leaseStatus, terms, pages>>

Heartbeat(t) ==
    /\ t \in Holding
    /\ left' = [left EXCEPT ![t] = terms[t].ttl]
    /\ UNCHANGED <<leaseStatus, terms, pages>>

\* release does not look at the expiry; on a lease that is not active it
\* returns the lease unchanged.
Release(t) == t \in Active /\ Retire({t}, "released")

\* assertActive fails on an overdue lease and marks it expired in failing;
\* every owner's call that asserts (heartbeat, open, capture, click ...) does so.
LazyExpiry(t) == t \in Overdue /\ Retire({t}, "expired")

\* list() marks every overdue lease, too.
ListLeases == Overdue # {} /\ Retire(Overdue, "expired")

\* reapExpired() marks the overdue leases and returns them: only these.
ReapExpired == Overdue # {} /\ Retire(Overdue, "expired")

\* markCrashed() overwrites any status.
MarkCrashed(t) == leaseStatus[t] # "absent" /\ Retire({t}, "crashed")

\* Mutant: opening a page counts as a sign of life.
RegisterPage_Extends(t, p, inside) ==
    /\ CanOpen(t, inside)
    /\ pages' = [pages EXCEPT ![t] = @ \cup {p}]
    /\ left' = [left EXCEPT ![t] = terms[t].ttl]
    /\ UNCHANGED <<leaseStatus, terms>>

RegisterPage(t, p, inside) ==
    /\ CanOpen(t, inside)
    /\ pages' = [pages EXCEPT ![t] = @ \cup {p}]
    /\ UNCHANGED <<leaseStatus, terms, left>>

ClosePage(t, p) ==
    /\ t \in Holding
    /\ pages' = [pages EXCEPT ![t] = @ \ {p}]
    /\ UNCHANGED <<leaseStatus, terms, left>>

Tick ==
    /\ \E t \in Token : left[t] > 0
    /\ left' = [t \in Token |-> IF left[t] > 0 THEN left[t] - 1 ELSE 0]
    /\ UNCHANGED <<leaseStatus, terms, pages>>

LeaseNext ==
    \/ \E t \in Token :
        \/ \E asked \in Asked : Acquire(t, asked)
        \/ Heartbeat(t)
        \/ Release(t)
        \/ LazyExpiry(t)
        \/ MarkCrashed(t)
        \/ \E p \in Page, inside \in BOOLEAN : RegisterPage(t, p, inside)
        \/ \E p \in Page : ClosePage(t, p)
    \/ ListLeases
    \/ ReapExpired
    \/ Tick

LeaseSpec == LeaseInit /\ [][LeaseNext]_leaseVars

\* Time passes; nobody is obliged to call.
LeaseFairSpec == LeaseSpec /\ WF_leaseVars(Tick)

-----------------------------------------------------------------------------
LeaseTypeOK ==
    /\ leaseStatus \in [Token -> {"absent", "active", "released", "expired", "crashed"}]
    /\ terms \in [Token -> Terms]
    /\ left \in [Token -> Nat]
    /\ pages \in [Token -> SUBSET Page]

\* The cap that acquire tests holds in every state: no later call (a
\* heartbeat in particular) brings a lease back that stopped counting.
CapacityBound == \A cap \in MaxContexts : Cardinality(Holding) <= cap

\* A lease that stopped holding capacity never holds it again, whether its
\* end was noticed (a status) or not yet (overdue).
NoRevival ==
    [][\A t \in Token : leaseStatus[t] # "absent" /\ t \notin Holding => t \notin Holding']_leaseVars

\* Only active leases list pages, and never more than they were granted.
PagesWithinLease ==
    \A t \in Token : pages[t] # {} =>
        t \in Active /\ Cardinality(pages[t]) <= terms[t].maxPages

\* The caged tier stays caged, and a credentialed lease without allow-list
\* never reaches a page, through any sequence of calls.
FencesHold ==
    \A t \in Token : leaseStatus[t] # "absent" =>
        /\ terms[t].policy = "external-bridge" =>
               /\ BridgeEnabled /\ terms[t].fenced /\ ~terms[t].readWrite
               /\ terms[t].key = NoKey /\ left[t] <= BridgeTtl
        /\ terms[t].policy \in Credentialed /\ ~terms[t].fenced => pages[t] = {}

\* Capacity recovers without anybody's help: a lease whose owner stops
\* heartbeating stops holding capacity.
AbandonedLeaseFreesCapacity ==
    \A t \in Token : <>[][~Heartbeat(t)]_leaseVars => []<>(t \notin Holding)

=============================================================================
