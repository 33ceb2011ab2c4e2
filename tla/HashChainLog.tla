---------------------------- MODULE HashChainLog ----------------------------
(***************************************************************************)
(* An append-only log chained by hashes: the gate's decision log            *)
(* (src/decision-log.ts) and, with a time-stamp request between the read and *)
(* the append, the anchor log (src/timestamp-anchor.ts).  The hash of an     *)
(* entry is the entry without its hash: no two entries share one.  Anybody   *)
(* may edit the file in between, and recompute hashes while at it.           *)
(***************************************************************************)
EXTENDS Naturals, Sequences, SequencesExt

CONSTANTS
    Writers,    \* processes that append
    Tokens,     \* whether an entry may come with a time-stamp token: FALSE, TRUE
    MaxEntries, \* bound: whole lines ever written, and lines in the file
    MaxEdits    \* bound: edits by hand

VARIABLES
    log,      \* the lines of the file: entries, or Torn
    ended,    \* a newline ends the file
    writing,  \* per writer: <<>>, or the entry it is about to append and the lines it has read
    appended, \* history: the same for each line that was written to its end, in order
    edits     \* history: edits made

chainVars == <<log, ended, writing, appended, edits>>

Torn == [seq |-> 0]
Genesis == <<>>

Readable(lines) == \A i \in DOMAIN lines : lines[i] # Torn

\* readEntries: a file that is missing or cannot be read has no lines; a torn
\* line throws.
Reads == {lines \in {log, <<>>} : Readable(lines)}

\* hashEntry over everything but the time-stamp token.
Hashed(e) == <<e.seq, e.prev, e.body>>

LinkBefore(lines, i) == IF i = 1 THEN Genesis ELSE lines[i - 1].hash

\* Mutant: the entries are hashed, the links not followed.
VerifyOk_Unlinked(lines) ==
    Readable(lines) /\ \A i \in DOMAIN lines : lines[i].hash = Hashed(lines[i])

\* verifyDecisionLog, verifyTimestampLog of the lines they read.
VerifyOk(lines) ==
    Readable(lines) /\ \A i \in DOMAIN lines :
        /\ lines[i].seq = i
        /\ lines[i].prev = LinkBefore(lines, i)
        /\ lines[i].hash = Hashed(lines[i])

ChainInit ==
    /\ log = <<>> /\ ended = TRUE /\ appended = <<>> /\ edits = 0
    /\ writing = [w \in Writers |-> <<>>]

Chained(seq, prev, body, token) ==
    [seq |-> seq, prev |-> prev, body |-> body, hash |-> <<seq, prev, body>>, tsa |-> token]

NextEntry(lines, body, token) ==
    IF lines = <<>> THEN Chained(1, Genesis, body, token)
    ELSE Chained(Last(lines).seq + 1, Last(lines).hash, body, token)

\* readEntries, and the time-stamp authority's answer, if one is asked and
\* answers.
ReadTail(w) ==
    /\ writing[w] = <<>> /\ Len(appended) < MaxEntries
    /\ \E lines \in Reads, token \in Tokens :
        writing' = [writing EXCEPT ![w] = [entry |-> NextEntry(lines, w, token), on |-> lines]]
    /\ UNCHANGED <<log, ended, appended, edits>>

\* What is written goes on the last line until a newline ends it.
AppendLine(line) ==
    IF ended THEN log' = Append(log, line)
    ELSE log' = [log EXCEPT ![Len(log)] = Torn]

Written(w) ==
    /\ AppendLine(writing[w].entry)
    /\ appended' = Append(appended, writing[w])

Room == Len(log) < MaxEntries /\ Len(appended) < MaxEntries

AppendEntry(w) ==
    /\ writing[w] # <<>> /\ Room
    /\ Written(w) /\ ended' = TRUE
    /\ writing' = [writing EXCEPT ![w] = <<>>]
    /\ UNCHANGED edits

\* The writer dies before it appends, in the middle of the line, or with the
\* whole line written, but for its newline or not.
WriterDies(w) ==
    /\ writing[w] # <<>> /\ Room
    /\ \/ UNCHANGED <<log, ended, appended>>
       \/ AppendLine(Torn) /\ ended' = FALSE /\ UNCHANGED appended
       \/ Written(w) /\ ended' \in BOOLEAN
    /\ writing' = [writing EXCEPT ![w] = <<>>]
    /\ UNCHANGED edits

\* The file is edited by hand: an entry altered, or one forged that fits the entry before it,
\* or stripped of its token, or removed, or two swapped.
Edit ==
    /\ edits < MaxEdits
    /\ \E i \in DOMAIN log :
        \/ log[i] # Torn /\ log' = [log EXCEPT ![i] = [@ EXCEPT !.body = "altered"]]
        \/ /\ log[i] # Torn /\ (i > 1 => log[i - 1] # Torn)
           /\ \E body \in {log[i].body, "altered"} :
                 log' = [log EXCEPT ![i] = Chained(i, LinkBefore(log, i), body, log[i].tsa)]
        \/ log[i] # Torn /\ log' = [log EXCEPT ![i] = [@ EXCEPT !.tsa = FALSE]]
        \/ log' = RemoveAt(log, i)
        \/ \E j \in DOMAIN log : i < j /\ log' = [log EXCEPT ![i] = log[j], ![j] = log[i]]
    /\ ended' = TRUE /\ edits' = edits + 1
    /\ UNCHANGED <<writing, appended>>

ChainNext ==
    \/ \E w \in Writers : ReadTail(w) \/ AppendEntry(w) \/ WriterDies(w)
    \/ Edit

ChainSpec == ChainInit /\ [][ChainNext]_chainVars

\* Each verdict is there in the order written, and whoever wrote it had read all
\* those before it.
Complete ==
    /\ Len(log) = Len(appended)
    /\ \A m \in DOMAIN appended :
          log[m] = appended[m].entry /\ appended[m].on = SubSeq(log, 1, m - 1)

\* An entry vouches for its past, whatever was edited how often, before or after
\* it: where it stands in a log that verifies, all the verdicts that it was
\* appended to, if they verified then, stand before it unaltered, and no others.
\* What comes after the last honest entry is not vouched for.
VouchesForPast ==
    \A m \in DOMAIN appended, n \in DOMAIN log :
        LET then == appended[m].on
        IN  log[n].hash = appended[m].entry.hash /\ VerifyOk(then) =>
              /\ Len(then) = n - 1
              /\ \A i \in DOMAIN then : Hashed(log[i]) = Hashed(then[i])

\* A log that verifies and that nobody has edited is the history of the verdicts:
\* two appends from the same tail, one after a read that failed, and a line torn by
\* a death are all noticed.  With any edits, its entries vouch for their past.
\* (src/decision-log.ts:65-78, 83-104)
VerifiedIsComplete ==
    VerifyOk(log) => (edits = 0 => Complete) /\ VouchesForPast


=============================================================================
