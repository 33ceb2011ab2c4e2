---------------------------- MODULE ProfileLock ----------------------------
(***************************************************************************)
(* The on-disk lock of one browser profile, src/profile-lock.ts, as several *)
(* farm processes use it.  One file system call is one step: a process is   *)
(* single-threaded, but other processes run between its calls and it may    *)
(* die there.  A file is an inode, so that a write through a descriptor may *)
(* reach a file that has been unlinked.  A process holds one lease of the   *)
(* profile at a time (BrowserPool's map sees to that), so the pid stands    *)
(* for pid and owner.                                                       *)
(***************************************************************************)
EXTENDS Naturals, FiniteSets

CONSTANTS
    Process,
    Empty,      \* content of a file created or truncated but not written
    MaxFiles,   \* bound: lock files ever created
    Overlap     \* operations of different processes overlap

ASSUME ProfileLockAssumption ==
    /\ IsFiniteSet(Process) /\ Empty \notin Process
    /\ MaxFiles \in Nat
    /\ Overlap \in BOOLEAN

LockFile == 1..MaxFiles

VARIABLES
    path,     \* the file the lock path names, 0 when there is none
    content,  \* the record in each file: its pid, or Empty
    aged,     \* files whose acquiredAt is older than PROFILE_LOCK_TTL_MS
    created,  \* files created so far
    pc,       \* the file system call each process is about to make
    fd,       \* the descriptor a process writes through, 0 when none
    attempt,  \* the loop counter of acquireProfileLock
    lapsed    \* history: holders that let the TTL pass or failed to re-stamp

lockVars == <<path, content, aged, created, pc, fd, attempt, lapsed>>

Acquiring == {"open", "write", "read", "reap"}
Refreshing == {"truncate", "restamp"}
Resting == {"idle", "held", "dead"}

\* acquireProfileLock has returned a handle, and it is not released yet.
Holders == {p \in Process : pc[p] \in {"held", "unlink"} \cup Refreshing}

\* An operation may start.
Free(p) == Overlap \/ \A q \in Process \ {p} : pc[q] \in Resting

\* readLockRecord(...) names the process p.
Names(p) == IF path = 0 THEN FALSE ELSE content[path] = p

\* Mutant: an unreadable file counts as held by somebody.
Stale_ReadableOnly ==
    IF path = 0 THEN TRUE
    ELSE content[path] # Empty /\ (pc[content[path]] = "dead" \/ path \in aged)

\* isStale: missing, unreadable, its process dead, or past the TTL.
Stale ==
    IF path = 0 THEN TRUE
    ELSE IF content[path] = Empty THEN TRUE
    ELSE pc[content[path]] = "dead" \/ path \in aged

-----------------------------------------------------------------------------
LockInit ==
    /\ path = 0 /\ created = 0 /\ aged = {} /\ lapsed = {}
    /\ content = [f \in LockFile |-> Empty]
    /\ pc = [p \in Process |-> "idle"]
    /\ fd = [p \in Process |-> 0]
    /\ attempt = [p \in Process |-> 0]

\* acquireProfileLock is called.
AcquireBegins(p) ==
    /\ pc[p] = "idle" /\ Free(p)
    /\ pc' = [pc EXCEPT ![p] = "open"]
    /\ attempt' = [attempt EXCEPT ![p] = 0]
    /\ UNCHANGED <<path, content, aged, created, fd, lapsed>>

\* open(..., O_CREAT) of a path that names nothing.
NewFile(p) ==
    /\ created < MaxFiles
    /\ created' = created + 1
    /\ path' = created + 1
    /\ fd' = [fd EXCEPT ![p] = created + 1]

\* openSync(lockPath, "wx"): exclusive creation, else EEXIST.
Open(p) ==
    /\ pc[p] = "open"
    /\ IF path = 0
       THEN NewFile(p) /\ pc' = [pc EXCEPT ![p] = "write"]
       ELSE pc' = [pc EXCEPT ![p] = "read"] /\ UNCHANGED <<path, created, fd>>
    /\ UNCHANGED <<content, aged, attempt, lapsed>>

\* The record is written through the descriptor; a failing write throws and
\* leaves the empty file behind.
Write(p) ==
    /\ pc[p] = "write"
    /\ \/ /\ content' = [content EXCEPT ![fd[p]] = p]
          /\ pc' = [pc EXCEPT ![p] = "held"]
       \/ /\ pc' = [pc EXCEPT ![p] = "idle"]
          /\ UNCHANGED content
    /\ fd' = [fd EXCEPT ![p] = 0]
    /\ lapsed' = lapsed \ {p}
    /\ UNCHANGED <<path, aged, created, attempt>>

Refused(p) ==
    /\ pc[p] = "read" /\ ~Stale
    /\ pc' = [pc EXCEPT ![p] = "idle"]
    /\ UNCHANGED <<path, content, aged, created, fd, attempt, lapsed>>

FoundStale(p) ==
    /\ pc[p] = "read" /\ Stale
    /\ pc' = [pc EXCEPT ![p] = "reap"]
    /\ UNCHANGED <<path, content, aged, created, fd, attempt, lapsed>>

\* unlinkSync removes whatever the path names by now; one retry is left.
Reap(p) ==
    /\ pc[p] = "reap"
    /\ path' = 0
    /\ attempt' = [attempt EXCEPT ![p] = @ + 1]
    /\ pc' = [pc EXCEPT ![p] = IF attempt[p] = 0 THEN "open" ELSE "idle"]
    /\ UNCHANGED <<content, aged, created, fd, lapsed>>

\* Mutant: the lock is released whoever owns it.
ReleaseBegins_Unchecked(p) ==
    /\ pc[p] = "held" /\ Free(p)
    /\ pc' = [pc EXCEPT ![p] = "unlink"]
    /\ UNCHANGED <<path, content, aged, created, fd, attempt, lapsed>>

\* releaseProfileLock: the file is read, and unlinked if it is ours.
ReleaseBegins(p) ==
    /\ pc[p] = "held" /\ Free(p)
    /\ pc' = [pc EXCEPT ![p] = IF Names(p) THEN "unlink" ELSE "idle"]
    /\ UNCHANGED <<path, content, aged, created, fd, attempt, lapsed>>

ReleaseUnlinks(p) ==
    /\ pc[p] = "unlink"
    /\ path' = 0
    /\ pc' = [pc EXCEPT ![p] = "idle"]
    /\ UNCHANGED <<content, aged, created, fd, attempt, lapsed>>

\* refreshProfileLock: the file is read, and rewritten by path if it is ours.
RefreshBegins(p) ==
    /\ pc[p] = "held" /\ Free(p) /\ Names(p)
    /\ pc' = [pc EXCEPT ![p] = "truncate"]
    /\ UNCHANGED <<path, content, aged, created, fd, attempt, lapsed>>

\* writeFileSync(lockPath) opens with O_CREAT | O_TRUNC ...
RefreshTruncates(p) ==
    /\ pc[p] = "truncate"
    /\ IF path = 0
       THEN NewFile(p) /\ UNCHANGED <<content, aged>>
       ELSE /\ content' = [content EXCEPT ![path] = Empty]
            /\ aged' = aged \ {path}
            /\ fd' = [fd EXCEPT ![p] = path]
            /\ UNCHANGED <<path, created>>
    /\ pc' = [pc EXCEPT ![p] = "restamp"]
    /\ UNCHANGED <<attempt, lapsed>>

\* ... and writes; a failure is reported as false, which nobody looks at.
RefreshWrites(p) ==
    /\ pc[p] = "restamp"
    /\ \/ content' = [content EXCEPT ![fd[p]] = p] /\ lapsed' = lapsed \ {p}
       \/ lapsed' = lapsed \cup {p} /\ UNCHANGED content
    /\ pc' = [pc EXCEPT ![p] = "held"]
    /\ fd' = [fd EXCEPT ![p] = 0]
    /\ UNCHANGED <<path, aged, created, attempt>>

\* An hour passes without a heartbeat.
LockAges(p) ==
    /\ pc[p] = "held" /\ Names(p)
    /\ aged' = aged \cup {path}
    /\ lapsed' = lapsed \cup {p}
    /\ UNCHANGED <<path, content, created, pc, fd, attempt>>

\* The process dies, wherever it is.
Die(p) ==
    /\ pc[p] # "dead"
    /\ pc' = [pc EXCEPT ![p] = "dead"]
    /\ fd' = [fd EXCEPT ![p] = 0]
    /\ UNCHANGED <<path, content, aged, created, attempt, lapsed>>

LockNext ==
    \E p \in Process :
        \/ AcquireBegins(p)
        \/ Open(p)
        \/ Write(p)
        \/ Refused(p)
        \/ FoundStale(p)
        \/ Reap(p)
        \/ ReleaseBegins(p)
        \/ ReleaseUnlinks(p)
        \/ RefreshBegins(p)
        \/ RefreshTruncates(p)
        \/ RefreshWrites(p)
        \/ LockAges(p)
        \/ Die(p)

LockSpec == LockInit /\ [][LockNext]_lockVars

-----------------------------------------------------------------------------
\* Two separate farm processes never drive the profile at once: only a process
\* that let its lock lapse can find another one beside it.
Exclusive == \A p, q \in Holders \ lapsed : p = q

\* The file names its holder as long as the holder keeps it fresh, except
\* inside the holder's own write: nobody else reaps, releases or re-stamps it.
HolderOnFile ==
    \A p \in Holders \ lapsed : Names(p) \/ (pc[p] = "restamp" /\ fd[p] = path)

\* Both hold when operations do not overlap.
HeldByOne == Exclusive /\ HolderOnFile

\* Locks left behind do not block: an acquire that ends without the lock met a
\* live holder within its TTL, or its own write failed.
RefusedByHolderOnly ==
    [][\A p \in Process :
        pc[p] \in {"read", "reap"} /\ pc'[p] = "idle" => \E q \in Holders \ lapsed : q # p]_lockVars

=============================================================================
