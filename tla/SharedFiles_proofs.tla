------------------------- MODULE SharedFiles_proofs -------------------------
(***************************************************************************)
(* What holds of the files that processes share, for every number of       *)
(* processes, files, entries and tasks: the lock of a profile, the runs    *)
(* root with its capture cache, a hash-chained log, the critique queue; and*)
(* the ledgers of a run directory, for every number of writers, authors and*)
(* inspectors, as long as no two bundles share a capture id.               *)
(***************************************************************************)
EXTENDS ProfileLock, RunStore, HashChainLog, CritiqueQueue, EvidenceLedger, ListsAndSums

-----------------------------------------------------------------------------
\* The critique queue.

\* The open tasks are the last ones of the file.
QueueFrom(n) == [open |-> n..MaxTasks, next |-> IF n > MaxTasks THEN NoTask ELSE n]

\* ... in the file, and in what each command is about to write over it, which
\* completes the first of the open tasks it has read.
QueueInv ==
    /\ \E n \in 1..(MaxTasks + 1) : queue = QueueFrom(n)
    /\ \A c \in Commands :
          reading[c] = <<>> \/ \E n \in 1..MaxTasks : reading[c] = <<QueueFrom(n), n>>

\* The least number of an interval.
LEMMA MinOfInterval ==
    ASSUME NEW a \in Nat, NEW b \in Nat, a <= b
    PROVE  Min(a..b) = a
<1>1. a \in a..b /\ \A y \in a..b : a <= y
  OBVIOUS
<1>2. ASSUME NEW x \in a..b, \A y \in a..b : x <= y PROVE x = a
  BY <1>1, <1>2
<1> QED
  BY <1>1, <1>2 DEF Min

\* Completing the first open task leaves the others.
LEMMA WithoutFirst ==
    ASSUME NEW n \in 1..MaxTasks
    PROVE  WithoutTask(QueueFrom(n), n) = QueueFrom(n + 1)
<1> USE CritiqueQueueAssumption DEF CritiqueQueueAssumption
<1>1. QueueFrom(n).open = n..MaxTasks
  BY DEF QueueFrom
<1>2. (n..MaxTasks) \ {n} = (n + 1)..MaxTasks
  OBVIOUS
<1>3. {u \in (n + 1)..MaxTasks : u > n} = (n + 1)..MaxTasks
  OBVIOUS
<1>4. After(n, (n + 1)..MaxTasks) = IF n + 1 > MaxTasks THEN NoTask ELSE n + 1
  <2>1. CASE n + 1 > MaxTasks
    <3>1. (n + 1)..MaxTasks = {}
      BY <2>1
    <3> QED
      BY <1>3, <2>1, <3>1 DEF After
  <2>2. CASE n + 1 <= MaxTasks
    <3>1. n + 1 \in (n + 1)..MaxTasks
      BY <2>2
    <3>2. Min((n + 1)..MaxTasks) = n + 1
      BY <2>2, MinOfInterval
    <3> DEFINE S == (n + 1)..MaxTasks
    <3>3. S # {} /\ {u \in S : u > n} = S /\ Min(S) = n + 1
      BY <1>3, <3>1, <3>2
    <3> HIDE DEF S
    <3>4. After(n, S) = n + 1
      BY <3>3 DEF After
    <3> QED
      BY <2>2, <3>4 DEF S
  <2> QED
    BY <2>1, <2>2
<1> QED
  BY <1>1, <1>2, <1>4 DEF WithoutTask, QueueFrom

\* A command reads the queue or renames its copy over it, or a reviewer writes.
LEMMA QueueStep ==
    ASSUME QueueInv, [QueueNext]_queueVars
    PROVE  QueueInv'
<1> USE CritiqueQueueAssumption DEF CritiqueQueueAssumption
<1>1. CASE UNCHANGED <<queue, reading>>
  BY <1>1 DEF QueueInv
<1>2. ASSUME NEW c \in Commands, ReadQueue(c) PROVE QueueInv'
  <2>1. PICK n \in 1..(MaxTasks + 1) : queue = QueueFrom(n)
    BY DEF QueueInv
  <2>2. queue.next = (IF n > MaxTasks THEN NoTask ELSE n) /\ queue.open = n..MaxTasks
    BY <2>1 DEF QueueFrom
  <2>3. n \in 1..MaxTasks /\ queue.next = n
    BY <1>2, <2>2 DEF ReadQueue, NoTask
  <2>4. \A d \in Commands : reading'[d] = reading[d] \/ reading'[d] = <<QueueFrom(n), n>>
    BY <1>2, <2>1, <2>3 DEF ReadQueue
  <2> QED
    BY <1>2, <2>3, <2>4 DEF QueueInv, ReadQueue
<1>3. ASSUME NEW c \in Commands, WriteQueue(c) PROVE QueueInv'
  <2>1. PICK n \in 1..MaxTasks : reading[c] = <<QueueFrom(n), n>>
    BY <1>3 DEF QueueInv, WriteQueue
  <2>2. queue' = QueueFrom(n + 1) /\ n + 1 \in 1..(MaxTasks + 1)
    BY <1>3, <2>1, WithoutFirst DEF WriteQueue
  <2>3. \A d \in Commands : reading'[d] = reading[d] \/ reading'[d] = <<>>
    BY <1>3 DEF WriteQueue
  <2> QED
    BY <2>2, <2>3 DEF QueueInv
<1>4. ASSUME NEW c \in Commands, CommandDies(c) PROVE QueueInv'
  <2>1. \A d \in Commands : reading'[d] = reading[d] \/ reading'[d] = <<>>
    BY <1>4 DEF CommandDies
  <2> QED
    BY <1>4, <2>1 DEF QueueInv, CommandDies
<1> QED
  BY <1>1, <1>2, <1>3, <1>4 DEF QueueNext, WriteOutput, queueVars

\* The queue's pointer names the first open task, however commands overlap and
\* die: what they rename over each other's work is a consistent queue.
THEOREM PointerIsFirstOpen == QueueSpec => []PointerNamesFirstOpen
<1> USE CritiqueQueueAssumption DEF CritiqueQueueAssumption
<1>1. QueueInit => QueueInv
  <2> SUFFICES ASSUME QueueInit PROVE QueueInv
    OBVIOUS
  <2>1. queue = QueueFrom(1) /\ 1 \in 1..(MaxTasks + 1)
    BY DEF QueueInit, QueueFrom, Tasks
  <2> QED
    BY <2>1 DEF QueueInit, QueueInv
<1>2. QueueInv /\ [QueueNext]_queueVars => QueueInv'
  BY QueueStep
<1>3. QueueInv => PointerNamesFirstOpen
  <2> SUFFICES ASSUME NEW n \in 1..(MaxTasks + 1), queue = QueueFrom(n)
               PROVE  PointerNamesFirstOpen
    BY DEF QueueInv
  <2>1. queue.open = n..MaxTasks /\ queue.next = IF n > MaxTasks THEN NoTask ELSE n
    BY DEF QueueFrom
  <2>2. CASE n > MaxTasks
    BY <2>1, <2>2 DEF PointerNamesFirstOpen
  <2>3. CASE n <= MaxTasks
    <3>1. n \in n..MaxTasks
      BY <2>3
    <3>2. Min(n..MaxTasks) = n
      BY <2>3, MinOfInterval
    <3> QED
      BY <2>1, <2>3, <3>1, <3>2 DEF PointerNamesFirstOpen
  <2> QED
    BY <2>2, <2>3
<1> QED
  BY <1>1, <1>2, <1>3, PTL DEF QueueSpec

-----------------------------------------------------------------------------
\* The hash-chained log.

\* What is written, or about to be: an entry that follows the lines read.
Follows(a) ==
    /\ Sequential(a.on)
    /\ a.entry.hash = Hashed(a.entry)
    /\ a.entry.seq = IF a.on = <<>> THEN 1 ELSE Last(a.on).seq + 1
    /\ a.entry.prev = IF a.on = <<>> THEN Genesis ELSE Last(a.on).hash

\* The lines are the first ones of the others.
Begins(lines, all) ==
    Len(lines) \in 0..Len(all) /\ \A k \in 1..Len(lines) : lines[k] = all[k]

\* Until somebody edits it, a log that can be read holds what was written, each
\* entry by someone who had read a part of it.
Unedited ==
    /\ Len(log) = Len(appended)
    /\ \A m \in 1..Len(appended) : log[m] = appended[m].entry /\ Begins(appended[m].on, log)
    /\ \A w \in Writers : writing[w] # <<>> => Begins(writing[w].on, log)

ChainInv ==
    /\ Sequential(log) /\ Sequential(appended)
    /\ ended \/ log # <<>>
    /\ \A m \in 1..Len(appended) : Follows(appended[m])
    /\ \A w \in Writers : writing[w] # <<>> => Follows(writing[w])
    /\ edits \in Nat
    /\ edits = 0 /\ Readable(log) => Unedited

\* What is appended follows what was read.
LEMMA NextEntryFollows ==
    ASSUME NEW lines, Sequential(lines), NEW body, NEW token
    PROVE  Follows([entry |-> NextEntry(lines, body, token), on |-> lines])
BY DEF Follows, NextEntry, Chained, Hashed

\* A line is appended, or runs into the last one.
LEMMA AppendedLine ==
    ASSUME Sequential(log), ended \/ log # <<>>, NEW line, AppendLine(line)
    PROVE  /\ Sequential(log') /\ log' # <<>>
           /\ Readable(log)' =>
                /\ Readable(log) /\ line # Torn
                /\ Len(log') = Len(log) + 1 /\ log'[Len(log) + 1] = line
                /\ \A i \in 1..Len(log) : log'[i] = log[i]
<1>1. PICK S : log \in Seq(S)
  BY DEF Sequential
<1>2. CASE ended
  <2>1. log' = Append(log, line) /\ log' \in Seq(S \cup {line})
    BY <1>1, <1>2 DEF AppendLine
  <2>2. /\ Len(log') = Len(log) + 1 /\ log'[Len(log) + 1] = line
        /\ \A i \in 1..Len(log) : log'[i] = log[i]
    BY <1>1, <2>1
  <2>3. Sequential(log') /\ log' # <<>>
    BY <1>1, <2>1, <2>2 DEF Sequential
  <2>4. DOMAIN log = 1..Len(log) /\ DOMAIN log' = 1..(Len(log) + 1) /\ Len(log) \in Nat
    BY <1>1, <2>1, <2>2
  <2>5. Readable(log)' => Readable(log) /\ line # Torn
    BY <2>2, <2>4 DEF Readable
  <2> QED
    BY <2>2, <2>3, <2>5
<1>3. CASE ~ended
  <2>1. log # <<>> /\ Len(log) \in 1..Len(log)
    BY <1>1, <1>3
  <2>2. log' = [log EXCEPT ![Len(log)] = Torn]
    BY <1>3 DEF AppendLine
  <2>3. log' \in Seq(S \cup {Torn}) /\ Len(log') = Len(log) /\ log'[Len(log)] = Torn
    BY <1>1, <2>1, <2>2
  <2>4. ~Readable(log)' /\ log' # <<>>
    BY <2>1, <2>3 DEF Readable
  <2> QED
    BY <2>3, <2>4 DEF Sequential
<1> QED
  BY <1>2, <1>3

\* An edit leaves lines.
LEMMA EditedLines ==
    ASSUME Sequential(log), Edit
    PROVE  Sequential(log')
<1>1. PICK S : log \in Seq(S)
  BY DEF Sequential
<1>2. ASSUME NEW i \in DOMAIN log, NEW e, log' = [log EXCEPT ![i] = e]
      PROVE  Sequential(log')
  <2>1. log' \in Seq(S \cup {e})
    BY <1>1, <1>2
  <2> QED
    BY <2>1 DEF Sequential
<1>3. ASSUME NEW i \in DOMAIN log, log' = RemoveAt(log, i)
      PROVE  Sequential(log')
  <2>1. i \in 1..Len(log)
    BY <1>1
  <2>2. SubSeq(log, 1, i - 1) \in Seq(S) /\ SubSeq(log, i + 1, Len(log)) \in Seq(S)
    BY <1>1, <2>1
  <2>3. log' \in Seq(S)
    BY <1>3, <2>2 DEF RemoveAt
  <2> QED
    BY <2>3 DEF Sequential
<1>4. ASSUME NEW i \in DOMAIN log, NEW j \in DOMAIN log, log' = [log EXCEPT ![i] = log[j], ![j] = log[i]]
      PROVE  Sequential(log')
  <2>1. log' \in Seq(S)
    BY <1>1, <1>4
  <2> QED
    BY <2>1 DEF Sequential
<1>5. PICK i \in DOMAIN log :
         \/ log' = [log EXCEPT ![i] = [@ EXCEPT !.body = "altered"]]
         \/ \E body \in {log[i].body, "altered"} :
               log' = [log EXCEPT ![i] = Chained(i, LinkBefore(log, i), body, log[i].tsa)]
         \/ log' = [log EXCEPT ![i] = [@ EXCEPT !.tsa = FALSE]]
         \/ log' = RemoveAt(log, i)
         \/ \E j \in DOMAIN log : log' = [log EXCEPT ![i] = log[j], ![j] = log[i]]
  BY DEF Edit
<1> QED
  BY <1>2, <1>3, <1>4, <1>5

\* The whole line of a writer is written.
LEMMA WholeLineWritten ==
    ASSUME ChainInv, NEW w \in Writers, writing[w] # <<>>, Written(w),
           writing' = [writing EXCEPT ![w] = <<>>], UNCHANGED edits
    PROVE  ChainInv'
<1> DEFINE a == writing[w]
<1>1. /\ Sequential(log') /\ log' # <<>>
      /\ Readable(log)' =>
           /\ Readable(log)
           /\ Len(log') = Len(log) + 1 /\ log'[Len(log) + 1] = a.entry
           /\ \A i \in 1..Len(log) : log'[i] = log[i]
  BY AppendedLine DEF Written, ChainInv
<1>2. PICK S : appended \in Seq(S)
  BY DEF ChainInv, Sequential
<1>3. appended' = Append(appended, a)
  BY DEF Written
<1>4. Follows(a)
  BY DEF ChainInv
<1> HIDE DEF a
<1>5. /\ appended' \in Seq(S \cup {a}) /\ Len(appended') = Len(appended) + 1 /\ Len(appended) \in Nat
      /\ appended'[Len(appended) + 1] = a
      /\ \A m \in 1..Len(appended) : appended'[m] = appended[m]
  BY <1>2, <1>3
<1>6. Sequential(appended')
  BY <1>5 DEF Sequential
<1>7. \A m \in 1..Len(appended') : Follows(appended'[m])
  <2> SUFFICES ASSUME NEW m \in 1..Len(appended')
               PROVE  Follows(appended'[m])
    OBVIOUS
  <2>1. m \in 1..Len(appended) \/ m = Len(appended) + 1
    BY <1>5
  <2> QED
    BY <1>4, <1>5, <2>1 DEF ChainInv
<1>8. \A v \in Writers : writing'[v] # <<>> => writing'[v] = writing[v] /\ writing[v] # <<>>
  BY DEF ChainInv
<1>9. \A v \in Writers : writing'[v] # <<>> => Follows(writing'[v])
  BY <1>8 DEF ChainInv
<1>10. ASSUME edits = 0, Readable(log)' PROVE Unedited'
  <2>1. Unedited /\ Begins(a.on, log)
    BY <1>1, <1>10 DEF ChainInv, Unedited, a
  <2>2. \A lines : Begins(lines, log) => Begins(lines, log')
    <3>1. Len(log) \in Nat
      BY <1>5, <2>1 DEF Unedited
    <3> QED
      BY <1>1, <1>10, <3>1 DEF Begins
  <2>3. Len(log') = Len(appended')
    BY <1>1, <1>5, <1>10, <2>1 DEF Unedited
  <2>4. ASSUME NEW m \in 1..Len(appended')
        PROVE  log'[m] = appended'[m].entry /\ Begins(appended'[m].on, log')
    <3>1. CASE m \in 1..Len(appended)
      <4>1. log'[m] = log[m] /\ appended'[m] = appended[m]
        BY <1>1, <1>5, <1>10, <2>1, <3>1 DEF Unedited
      <4>2. log[m] = appended[m].entry /\ Begins(appended[m].on, log)
        BY <2>1, <3>1 DEF Unedited
      <4> QED
        BY <2>2, <4>1, <4>2
    <3>2. CASE m = Len(appended) + 1
      <4>1. log'[m] = a.entry /\ appended'[m] = a
        BY <1>1, <1>5, <1>10, <2>1, <3>2 DEF Unedited
      <4> QED
        BY <2>1, <2>2, <4>1
    <3> QED
      BY <1>5, <3>1, <3>2
  <2>5. \A v \in Writers : writing'[v] # <<>> => Begins(writing'[v].on, log')
    BY <1>8, <2>1, <2>2 DEF Unedited
  <2> QED
    BY <2>3, <2>4, <2>5 DEF Unedited
<1> QED
  BY <1>1, <1>6, <1>7, <1>9, <1>10 DEF ChainInv

\* Reading, appending, dying and editing.
LEMMA ChainStep ==
    ASSUME ChainInv, [ChainNext]_chainVars
    PROVE  ChainInv'
<1>1. CASE UNCHANGED chainVars
  BY <1>1 DEF chainVars, ChainInv, Readable, Unedited
<1>2. ASSUME NEW w \in Writers, ReadTail(w) PROVE ChainInv'
  <2>1. PICK lines \in Reads, token \in Tokens :
           writing' = [writing EXCEPT ![w] = [entry |-> NextEntry(lines, w, token), on |-> lines]]
    BY <1>2 DEF ReadTail
  <2> DEFINE a == [entry |-> NextEntry(lines, w, token), on |-> lines]
  <2>2. lines = log \/ lines = <<>>
    BY DEF Reads
  <2>3. Sequential(lines)
    <3>1. <<>> \in Seq({})
      OBVIOUS
    <3> QED
      BY <2>2, <3>1 DEF ChainInv, Sequential
  <2>4. Follows(a)
    BY <2>3, NextEntryFollows
  <2>5. a.on = lines
    OBVIOUS
  <2> HIDE DEF a
  <2>6. \A v \in Writers : writing'[v] = writing[v] \/ writing'[v] = a
    BY <2>1 DEF a
  <2>7. Begins(lines, log)
    <3>1. PICK S : log \in Seq(S)
      BY DEF ChainInv, Sequential
    <3>2. Len(log) \in Nat
      BY <3>1
    <3> QED
      BY <2>2, <3>2 DEF Begins
  <2>8. \A v \in Writers : writing'[v] # <<>> => Follows(writing'[v])
    BY <2>4, <2>6 DEF ChainInv
  <2>9. UNCHANGED <<log, ended, appended, edits>>
    BY <1>2 DEF ReadTail
  <2>10. edits = 0 /\ Readable(log) => Unedited'
    BY <2>5, <2>6, <2>7, <2>9 DEF ChainInv, Unedited
  <2> QED
    BY <2>8, <2>9, <2>10 DEF ChainInv, Readable
<1>3. ASSUME NEW w \in Writers, AppendEntry(w) PROVE ChainInv'
  BY <1>3, WholeLineWritten DEF AppendEntry
<1>4. ASSUME NEW w \in Writers, WriterDies(w) PROVE ChainInv'
  <2>1. /\ UNCHANGED edits /\ writing[w] # <<>>
        /\ writing' = [writing EXCEPT ![w] = <<>>]
    BY <1>4 DEF WriterDies
  <2>2. \A v \in Writers : writing'[v] # <<>> => writing'[v] = writing[v] /\ writing[v] # <<>>
    BY <2>1
  <2>3. CASE UNCHANGED <<log, ended, appended>>
    <3>1. Unedited => Unedited'
      BY <2>2, <2>3 DEF Unedited
    <3> QED
      BY <2>1, <2>2, <2>3, <3>1 DEF ChainInv, Readable
  <2>4. CASE AppendLine(Torn) /\ UNCHANGED appended
    <3>1. Sequential(log') /\ log' # <<>> /\ ~Readable(log)'
      BY <2>4, AppendedLine DEF ChainInv
    <3> QED
      BY <2>1, <2>2, <2>4, <3>1 DEF ChainInv
  <2>5. CASE Written(w)
    BY <2>1, <2>5, WholeLineWritten
  <2> QED
    BY <1>4, <2>3, <2>4, <2>5 DEF WriterDies
<1>5. CASE Edit
  <2>1. /\ ended' /\ edits' = edits + 1 /\ UNCHANGED <<writing, appended>>
        /\ edits \in Nat
    BY <1>5 DEF Edit, ChainInv
  <2>2. Sequential(log')
    BY <1>5, EditedLines DEF ChainInv
  <2>3. edits' \in Nat /\ edits' # 0
    BY <2>1
  <2> QED
    BY <2>1, <2>2, <2>3 DEF ChainInv
<1> QED
  BY <1>1, <1>2, <1>3, <1>4, <1>5 DEF ChainNext

LEMMA ChainHolds == ChainSpec => []ChainInv
<1>1. ChainInit => ChainInv
  <2> SUFFICES ASSUME ChainInit PROVE ChainInv
    OBVIOUS
  <2>1. log \in Seq({}) /\ Len(log) = 0
    BY DEF ChainInit
  <2> QED
    BY <2>1 DEF ChainInit, ChainInv, Sequential, Unedited
<1>2. ChainInv /\ [ChainNext]_chainVars => ChainInv'
  BY ChainStep
<1> QED
  BY <1>1, <1>2, PTL DEF ChainSpec

\* A log that verifies and that nobody has edited holds every entry written, in
\* order, each written by someone who had read all those before it.
LEMMA UneditedIsComplete ==
    ASSUME ChainInv, edits = 0, VerifyOk(log)
    PROVE  Complete
<1> SUFFICES ASSUME NEW m \in DOMAIN appended
             PROVE  /\ Len(log) = Len(appended)
                    /\ log[m] = appended[m].entry /\ appended[m].on = SubSeq(log, 1, m - 1)
  <2>1. Len(log) = Len(appended)
    BY DEF ChainInv, VerifyOk, Unedited
  <2> QED
    BY <2>1 DEF Complete
<1>1. Unedited
  BY DEF ChainInv, VerifyOk
<1>2. PICK S : log \in Seq(S)
  BY DEF ChainInv, Sequential
<1>3. PICK R : appended \in Seq(R)
  BY DEF ChainInv, Sequential
<1>4. m \in 1..Len(appended) /\ m \in 1..Len(log) /\ DOMAIN log = 1..Len(log) /\ Len(log) \in Nat
  BY <1>1, <1>2, <1>3 DEF Unedited
<1> DEFINE on == appended[m].on
           entry == appended[m].entry
<1>5. log[m] = entry /\ Begins(on, log)
  BY <1>1, <1>4 DEF Unedited
<1>6. Sequential(on) /\ entry.seq = IF on = <<>> THEN 1 ELSE Last(on).seq + 1
  BY <1>4 DEF ChainInv, Follows
<1>7. entry.seq = m
  BY <1>4, <1>5 DEF VerifyOk
<1> HIDE DEF on, entry
<1>8. PICK T : on \in Seq(T)
  BY <1>6 DEF Sequential
<1>9. Len(on) = m - 1
  <2>1. CASE on = <<>>
    BY <1>4, <1>6, <1>7, <2>1
  <2>2. CASE on # <<>>
    <3>1. Len(on) \in 1..Len(on) /\ Last(on) = on[Len(on)] /\ Len(on) \in 1..Len(log)
      BY <1>4, <1>5, <1>8, <2>2 DEF Last, Begins
    <3>2. Last(on) = log[Len(on)] /\ log[Len(on)].seq = Len(on)
      BY <1>4, <1>5, <3>1 DEF Begins, VerifyOk
    <3> QED
      BY <1>4, <1>6, <1>7, <2>2, <3>1, <3>2
  <2> QED
    BY <2>1, <2>2
<1>10. SubSeq(log, 1, m - 1) \in Seq(S) /\ Len(SubSeq(log, 1, m - 1)) = m - 1
       /\ \A k \in 1..(m - 1) : SubSeq(log, 1, m - 1)[k] = log[k]
  BY <1>2, <1>4
<1>11. on = SubSeq(log, 1, m - 1)
  <2> DEFINE s == SubSeq(log, 1, m - 1)
  <2>1. s \in Seq(S) /\ Len(s) = Len(on) /\ \A k \in 1..Len(on) : s[k] = on[k]
    BY <1>5, <1>9, <1>10 DEF Begins
  <2> HIDE DEF s
  <2>2. s \in Seq(S \cup T) /\ on \in Seq(S \cup T)
    BY <1>8, <2>1
  <2>3. s = on
    BY <2>1, <2>2, SeqEqual
  <2> QED
    BY <2>3 DEF s
<1> QED
  BY <1>1, <1>5, <1>11 DEF Unedited, on, entry

\* Wherever an entry stands in a log that verifies, what it was appended to
\* stands before it, unaltered and complete, whatever has been edited since.
LEMMA EntriesVouch ==
    ASSUME ChainInv, VerifyOk(log)
    PROVE  VouchesForPast
<1> SUFFICES ASSUME NEW m \in DOMAIN appended, NEW n \in DOMAIN log,
                    log[n].hash = appended[m].entry.hash, VerifyOk(appended[m].on)
             PROVE  /\ Len(appended[m].on) = n - 1
                    /\ \A i \in DOMAIN appended[m].on : Hashed(log[i]) = Hashed(appended[m].on[i])
  BY DEF VouchesForPast
<1> DEFINE then == appended[m].on
           entry == appended[m].entry
<1>1. PICK S : log \in Seq(S)
  BY DEF ChainInv, Sequential
<1>2. m \in 1..Len(appended)
  BY DEF ChainInv, Sequential
<1>3. Follows(appended[m])
  BY <1>2 DEF ChainInv
<1>4. /\ Sequential(then) /\ entry.hash = Hashed(entry)
      /\ entry.seq = IF then = <<>> THEN 1 ELSE Last(then).seq + 1
      /\ entry.prev = IF then = <<>> THEN Genesis ELSE Last(then).hash
  BY <1>3 DEF Follows
<1>5. VerifyOk(then) /\ log[n].hash = entry.hash
  OBVIOUS
<1> HIDE DEF then, entry
<1>6. PICK T : then \in Seq(T)
  BY <1>4 DEF Sequential
<1>7. DOMAIN log = 1..Len(log) /\ Len(log) \in Nat /\ DOMAIN then = 1..Len(then) /\ Len(then) \in Nat
      /\ n \in 1..Len(log)
  BY <1>1, <1>6
<1>8. \A i \in 1..Len(log) :
         log[i].seq = i /\ log[i].prev = LinkBefore(log, i) /\ log[i].hash = Hashed(log[i])
  BY <1>7 DEF VerifyOk
<1>9. \A i \in 1..Len(then) :
         then[i].seq = i /\ then[i].prev = LinkBefore(then, i) /\ then[i].hash = Hashed(then[i])
  BY <1>5, <1>7 DEF VerifyOk
<1>10. entry.seq = n /\ entry.prev = LinkBefore(log, n)
  <2>1. log[n].seq = n /\ log[n].prev = LinkBefore(log, n) /\ Hashed(log[n]) = Hashed(entry)
    BY <1>4, <1>5, <1>7, <1>8
  <2> QED
    BY <2>1 DEF Hashed
<1>11. Len(then) = n - 1 /\ (then # <<>> => then[n - 1].hash = log[n - 1].hash)
  <2>1. CASE then = <<>>
    BY <1>4, <1>7, <1>10, <2>1
  <2>2. CASE then # <<>>
    <3>1. Len(then) \in 1..Len(then) /\ Last(then) = then[Len(then)]
      BY <1>6, <2>2 DEF Last
    <3>2. Last(then).seq = Len(then)
      BY <1>9, <3>1
    <3>3. Len(then) + 1 = n /\ n # 1
      BY <1>4, <1>7, <1>10, <2>2, <3>1, <3>2
    <3>4. Last(then).hash = log[n - 1].hash
      BY <1>4, <1>10, <2>2, <3>3 DEF LinkBefore
    <3> QED
      BY <1>7, <3>1, <3>3, <3>4
  <2> QED
    BY <2>1, <2>2
<1> DEFINE Parted == {d \in Nat : d < n - 1 /\ then[n - 1 - d].hash # log[n - 1 - d].hash}
<1>12. Parted = {}
  <2> SUFFICES ASSUME Parted # {} PROVE FALSE
    OBVIOUS
  <2>1. Parted \in SUBSET Nat
    OBVIOUS
  <2>2. PICK d \in Parted : \A k \in Parted : d <= k
    <3> HIDE DEF Parted
    <3> QED
      BY <2>1, LeastOf
  <2>3. d \in Nat /\ d < n - 1 /\ then[n - 1 - d].hash # log[n - 1 - d].hash
    OBVIOUS
  <2>4. then # <<>>
    BY <1>6, <1>7, <1>11, <2>3
  <2>5. d # 0
    BY <1>7, <1>11, <2>3, <2>4
  <2>6. d - 1 \in Nat /\ d - 1 < n - 1 /\ ~(d <= d - 1) /\ n - 1 - (d - 1) = n - d
    <3>1. d \in Nat /\ d < n - 1 /\ d # 0 /\ n \in Nat
      BY <1>7, <2>3, <2>5
    <3> HIDE DEF Parted
    <3> QED
      BY <3>1
  <2>7. d - 1 \notin Parted
    <3> HIDE DEF Parted
    <3> QED
      BY <2>2, <2>6
  <2>8. then[n - d].hash = log[n - d].hash
    BY <2>6, <2>7
  <2>9. n - d \in 1..Len(then) /\ n - d \in 1..Len(log) /\ n - d # 1 /\ n - d - 1 = n - 1 - d
    <3>1. d \in Nat /\ d < n - 1 /\ d # 0 /\ n \in 1..Len(log) /\ Len(log) \in Nat /\ Len(then) = n - 1
      BY <1>7, <1>11, <2>3, <2>5
    <3> HIDE DEF Parted
    <3> QED
      BY <3>1
  <2>10. Hashed(then[n - d]) = Hashed(log[n - d])
    BY <1>8, <1>9, <2>8, <2>9
  <2>11. then[n - d].prev = log[n - d].prev
    BY <2>10 DEF Hashed
  <2>12. LinkBefore(then, n - d) = LinkBefore(log, n - d)
    BY <1>8, <1>9, <2>9, <2>11
  <2>13. then[n - d - 1].hash = log[n - d - 1].hash
    BY <2>9, <2>12 DEF LinkBefore
  <2> QED
    BY <2>3, <2>9, <2>13
<1>13. ASSUME NEW i \in 1..Len(then) PROVE Hashed(log[i]) = Hashed(then[i])
  <2>1. /\ n - 1 - i \in Nat /\ n - 1 - i < n - 1 /\ n - 1 - (n - 1 - i) = i
        /\ i \in 1..Len(log)
    BY <1>7, <1>11
  <2>2. then[i].hash = log[i].hash
    BY <1>12, <2>1
  <2> QED
    BY <1>8, <1>9, <2>1, <2>2
<1> QED
  BY <1>7, <1>11, <1>13 DEF then

\* A log that verifies holds every entry written, if nobody has edited it: appends
\* from one tail, failed reads and torn lines are noticed.  However often it has
\* been edited, its entries vouch for their past.
THEOREM VerifiedLogIsComplete == ChainSpec => []VerifiedIsComplete
<1>1. ChainInv => VerifiedIsComplete
  BY UneditedIsComplete, EntriesVouch DEF VerifiedIsComplete
<1> QED
  BY <1>1, ChainHolds, PTL

-----------------------------------------------------------------------------
\* The lock of a profile, when operations do not overlap.

LockTypeOK ==
    /\ created \in 0..MaxFiles /\ path \in 0..created
    /\ content \in [LockFile -> Process \cup {Empty}]
    /\ aged \subseteq 1..created
    /\ pc \in [Process -> Acquiring \cup Refreshing \cup Resting \cup {"unlink"}]
    /\ fd \in [Process -> 0..MaxFiles]
    /\ attempt \in [Process -> Nat]
    /\ lapsed \subseteq Process

\* One process at a time is in the middle of an operation.
OneBusy == \A p, q \in Process : pc[p] \notin Resting /\ pc[q] \notin Resting => p = q

\* Where it stands fits the file: what it is about to write is the file of the
\* path, empty and new; what it is about to reap is stale; what it is about to
\* unlink or re-stamp is its own; its second attempt finds no file.
BusyKnows ==
    \A p \in Process :
        /\ pc[p] \in {"write", "restamp"} =>
               path # 0 /\ fd[p] = path /\ content[path] = Empty /\ path \notin aged
        /\ pc[p] = "reap" => Stale
        /\ pc[p] \in {"unlink", "truncate"} => Names(p)
        /\ pc[p] = "open" /\ attempt[p] # 0 => path = 0
        /\ pc[p] \in {"read", "reap"} => attempt[p] = 0

\* The file names a holder or the dead; it is aged exactly if the holder it
\* names let it lapse.  A new file is empty.
FileKnown ==
    /\ \A p \in Process : Names(p) => p \in Holders \/ pc[p] = "dead"
    /\ \A p \in Holders : Names(p) => (p \in lapsed <=> path \in aged)
    /\ \A f \in LockFile : f > created => content[f] = Empty

LockInv == LockTypeOK /\ OneBusy /\ BusyKnows /\ FileKnown /\ HolderOnFile

-----------------------------------------------------------------------------
\* Initially there is no lock file and every process is idle.
LEMMA LockInitInv == LockInit => LockInv
  BY ProfileLockAssumption
  DEF LockInit, LockInv, LockTypeOK, OneBusy, BusyKnows, FileKnown, HolderOnFile, Holders, Names, LockFile,
      Acquiring, Refreshing, Resting

\* Every file system call of a process keeps the invariant, as long as
\* operations of different processes do not overlap.
LEMMA LockStep ==
    ASSUME Overlap = FALSE, LockInv, NEW p \in Process,
           \/ AcquireBegins(p) \/ Open(p) \/ Write(p) \/ Refused(p) \/ FoundStale(p) \/ Reap(p)
           \/ ReleaseBegins(p) \/ ReleaseUnlinks(p) \/ RefreshBegins(p) \/ RefreshTruncates(p)
           \/ RefreshWrites(p) \/ LockAges(p) \/ Die(p)
    PROVE  LockInv'
<1> USE ProfileLockAssumption DEF LockInv, LockTypeOK, LockFile, Acquiring, Refreshing, Resting, Free
<1>1. ASSUME AcquireBegins(p) PROVE LockInv'
  <2> USE <1>1 DEF AcquireBegins
  <2>1. LockTypeOK'
    BY DEF Names
  <2>2. OneBusy'
    BY DEF OneBusy, Names
  <2>3. BusyKnows'
    BY DEF OneBusy, BusyKnows, FileKnown, HolderOnFile, Names, Stale, Holders
  <2>4. FileKnown'
    BY DEF OneBusy, BusyKnows, FileKnown, HolderOnFile, Names, Stale, Holders
  <2>5. HolderOnFile'
    BY DEF OneBusy, BusyKnows, FileKnown, HolderOnFile, Names, Stale, Holders
  <2> QED
    BY <2>1, <2>2, <2>3, <2>4, <2>5
<1>2. ASSUME Open(p) PROVE LockInv'
  <2> USE <1>2 DEF NewFile, Open
  <2>1. LockTypeOK'
    <3>1. created' \in 0..MaxFiles /\ path' \in 0..created' /\ aged' \subseteq 1..created'
      OBVIOUS
    <3>2. content' \in [LockFile -> Process \cup {Empty}]
      OBVIOUS
    <3>3. pc' \in [Process -> Acquiring \cup Refreshing \cup Resting \cup {"unlink"}]
      OBVIOUS
    <3>4. fd' \in [Process -> 0..MaxFiles]
      OBVIOUS
    <3>5. attempt' \in [Process -> Nat] /\ lapsed' \subseteq Process
      OBVIOUS
    <3> QED
      BY <3>1, <3>2, <3>3, <3>4, <3>5
  <2>2. OneBusy'
    BY DEF OneBusy, Names
  <2>3. BusyKnows'
    <3>1. \A q \in Process \ {p} : pc[q] \in Resting /\ pc'[q] = pc[q]
      BY DEF OneBusy
    <3>2. CASE path = 0
      <4>1. created + 1 \in LockFile /\ created + 1 > created /\ created + 1 # 0
        BY <3>2
      <4>2. content[created + 1] = Empty /\ created + 1 \notin aged
        BY <4>1 DEF FileKnown
      <4>3. pc'[p] = "write" /\ fd'[p] = created + 1 /\ path' = created + 1
        BY <3>2
      <4> QED
        BY <3>1, <4>1, <4>2, <4>3 DEF BusyKnows
    <3>3. CASE path # 0
      <4>1. pc'[p] = "read" /\ attempt[p] = 0
        BY <3>3 DEF BusyKnows
      <4> QED
        BY <3>1, <4>1 DEF BusyKnows
    <3> QED
      BY <3>2, <3>3
  <2>4. FileKnown'
    BY DEF OneBusy, BusyKnows, FileKnown, HolderOnFile, Names, Stale, Holders
  <2>5. HolderOnFile'
    BY DEF OneBusy, BusyKnows, FileKnown, HolderOnFile, Names, Stale, Holders
  <2> QED
    BY <2>1, <2>2, <2>3, <2>4, <2>5
<1>3. ASSUME Write(p) PROVE LockInv'
  <2> USE <1>3 DEF Write
  <2>1. LockTypeOK'
    <3>1. created' \in 0..MaxFiles /\ path' \in 0..created' /\ aged' \subseteq 1..created'
      OBVIOUS
    <3>2. content' \in [LockFile -> Process \cup {Empty}]
      OBVIOUS
    <3>3. pc' \in [Process -> Acquiring \cup Refreshing \cup Resting \cup {"unlink"}]
      OBVIOUS
    <3>4. fd' \in [Process -> 0..MaxFiles]
      OBVIOUS
    <3>5. attempt' \in [Process -> Nat] /\ lapsed' \subseteq Process
      OBVIOUS
    <3> QED
      BY <3>1, <3>2, <3>3, <3>4, <3>5
  <2>2. OneBusy'
    BY DEF OneBusy, Names
  <2>3. BusyKnows'
    <3>1. \A q \in Process \ {p} : pc[q] \in Resting /\ pc'[q] = pc[q]
      BY DEF OneBusy
    <3>2. pc'[p] \in Resting
      OBVIOUS
    <3> QED
      BY <3>1, <3>2 DEF BusyKnows
  <2>4. FileKnown'
    BY DEF OneBusy, BusyKnows, FileKnown, HolderOnFile, Names, Stale, Holders
  <2>5. HolderOnFile'
    BY DEF OneBusy, BusyKnows, FileKnown, HolderOnFile, Names, Stale, Holders
  <2> QED
    BY <2>1, <2>2, <2>3, <2>4, <2>5
<1>4. ASSUME Refused(p) PROVE LockInv'
  <2> USE <1>4 DEF Refused
  <2>1. LockTypeOK'
    BY DEF Names
  <2>2. OneBusy'
    BY DEF OneBusy, Names
  <2>3. BusyKnows'
    BY DEF OneBusy, BusyKnows, FileKnown, HolderOnFile, Names, Stale, Holders
  <2>4. FileKnown'
    BY DEF OneBusy, BusyKnows, FileKnown, HolderOnFile, Names, Stale, Holders
  <2>5. HolderOnFile'
    BY DEF OneBusy, BusyKnows, FileKnown, HolderOnFile, Names, Stale, Holders
  <2> QED
    BY <2>1, <2>2, <2>3, <2>4, <2>5
<1>5. ASSUME FoundStale(p) PROVE LockInv'
  <2> USE <1>5 DEF FoundStale
  <2>1. LockTypeOK'
    BY DEF Names
  <2>2. OneBusy'
    BY DEF OneBusy, Names
  <2>3. BusyKnows'
    BY DEF OneBusy, BusyKnows, FileKnown, HolderOnFile, Names, Stale, Holders
  <2>4. FileKnown'
    BY DEF OneBusy, BusyKnows, FileKnown, HolderOnFile, Names, Stale, Holders
  <2>5. HolderOnFile'
    BY DEF OneBusy, BusyKnows, FileKnown, HolderOnFile, Names, Stale, Holders
  <2> QED
    BY <2>1, <2>2, <2>3, <2>4, <2>5
<1>6. ASSUME Reap(p) PROVE LockInv'
  <2> USE <1>6 DEF Reap
  <2>1. LockTypeOK'
    BY DEF Names
  <2>2. OneBusy'
    BY DEF OneBusy, Names
  <2>3. BusyKnows'
    BY DEF OneBusy, BusyKnows, FileKnown, HolderOnFile, Names, Stale, Holders
  <2>4. FileKnown'
    BY DEF OneBusy, BusyKnows, FileKnown, HolderOnFile, Names, Stale, Holders
  <2>5. HolderOnFile'
    <3>1. \A q \in Process \ {p} : pc[q] \in Resting /\ pc'[q] = pc[q]
      BY DEF OneBusy
    <3>2. SUFFICES ASSUME NEW q \in (Holders \ lapsed)' PROVE FALSE
      BY DEF HolderOnFile
    <3>3. q \in Process /\ q # p /\ pc[q] = "held" /\ q \notin lapsed
      BY <3>1 DEF Holders
    <3>4. q \in Holders \ lapsed
      BY <3>3 DEF Holders
    <3>5. Names(q)
      BY <3>3, <3>4 DEF HolderOnFile
    <3>6. path # 0 /\ content[path] = q
      BY <3>5 DEF Names
    <3>7. path \notin aged
      BY <3>4, <3>5 DEF FileKnown
    <3>8. Stale
      BY DEF BusyKnows
    <3> QED
      BY <3>3, <3>6, <3>7, <3>8 DEF Stale
  <2> QED
    BY <2>1, <2>2, <2>3, <2>4, <2>5
<1>7. ASSUME ReleaseBegins(p) PROVE LockInv'
  <2> USE <1>7 DEF ReleaseBegins
  <2>1. LockTypeOK'
    BY DEF Names
  <2>2. OneBusy'
    BY DEF OneBusy, Names
  <2>3. BusyKnows'
    BY DEF OneBusy, BusyKnows, FileKnown, HolderOnFile, Names, Stale, Holders
  <2>4. FileKnown'
    BY DEF OneBusy, BusyKnows, FileKnown, HolderOnFile, Names, Stale, Holders
  <2>5. HolderOnFile'
    BY DEF OneBusy, BusyKnows, FileKnown, HolderOnFile, Names, Stale, Holders
  <2> QED
    BY <2>1, <2>2, <2>3, <2>4, <2>5
<1>8. ASSUME ReleaseUnlinks(p) PROVE LockInv'
  <2> USE <1>8 DEF ReleaseUnlinks
  <2>1. LockTypeOK'
    BY DEF Names
  <2>2. OneBusy'
    BY DEF OneBusy, Names
  <2>3. BusyKnows'
    BY DEF OneBusy, BusyKnows, FileKnown, HolderOnFile, Names, Stale, Holders
  <2>4. FileKnown'
    BY DEF OneBusy, BusyKnows, FileKnown, HolderOnFile, Names, Stale, Holders
  <2>5. HolderOnFile'
    BY DEF OneBusy, BusyKnows, FileKnown, HolderOnFile, Names, Stale, Holders
  <2> QED
    BY <2>1, <2>2, <2>3, <2>4, <2>5
<1>9. ASSUME RefreshBegins(p) PROVE LockInv'
  <2> USE <1>9 DEF RefreshBegins
  <2>1. LockTypeOK'
    BY DEF Names
  <2>2. OneBusy'
    BY DEF OneBusy, Names
  <2>3. BusyKnows'
    BY DEF OneBusy, BusyKnows, FileKnown, HolderOnFile, Names, Stale, Holders
  <2>4. FileKnown'
    BY DEF OneBusy, BusyKnows, FileKnown, HolderOnFile, Names, Stale, Holders
  <2>5. HolderOnFile'
    BY DEF OneBusy, BusyKnows, FileKnown, HolderOnFile, Names, Stale, Holders
  <2> QED
    BY <2>1, <2>2, <2>3, <2>4, <2>5
<1>10. ASSUME RefreshTruncates(p) PROVE LockInv'
  <2> USE <1>10 DEF NewFile, RefreshTruncates
  <2>1. LockTypeOK'
    <3>1. path \in LockFile /\ content' = [content EXCEPT ![path] = Empty] /\ aged' = aged \ {path}
          /\ fd' = [fd EXCEPT ![p] = path] /\ path' = path /\ created' = created
      BY DEF BusyKnows, Names
    <3>2. pc' \in [Process -> Acquiring \cup Refreshing \cup Resting \cup {"unlink"}]
      OBVIOUS
    <3>3. fd' \in [Process -> 0..MaxFiles]
      BY <3>1
    <3>4. content' \in [LockFile -> Process \cup {Empty}]
      BY <3>1
    <3> QED
      BY <3>1, <3>2, <3>3, <3>4
  <2>2. OneBusy'
    BY DEF OneBusy, Names
  <2>3. BusyKnows'
    BY DEF OneBusy, BusyKnows, FileKnown, HolderOnFile, Names, Stale, Holders
  <2>4. FileKnown'
    BY DEF OneBusy, BusyKnows, FileKnown, HolderOnFile, Names, Stale, Holders
  <2>5. HolderOnFile'
    BY DEF OneBusy, BusyKnows, FileKnown, HolderOnFile, Names, Stale, Holders
  <2> QED
    BY <2>1, <2>2, <2>3, <2>4, <2>5
<1>11. ASSUME RefreshWrites(p) PROVE LockInv'
  <2> USE <1>11 DEF RefreshWrites
  <2>1. LockTypeOK'
    BY DEF Names
  <2>2. OneBusy'
    BY DEF OneBusy, Names
  <2>3. BusyKnows'
    BY DEF OneBusy, BusyKnows, FileKnown, HolderOnFile, Names, Stale, Holders
  <2>4. FileKnown'
    BY DEF OneBusy, BusyKnows, FileKnown, HolderOnFile, Names, Stale, Holders
  <2>5. HolderOnFile'
    BY DEF OneBusy, BusyKnows, FileKnown, HolderOnFile, Names, Stale, Holders
  <2> QED
    BY <2>1, <2>2, <2>3, <2>4, <2>5
<1>12. ASSUME LockAges(p) PROVE LockInv'
  <2> USE <1>12 DEF LockAges
  <2>1. LockTypeOK'
    BY DEF Names
  <2>2. OneBusy'
    BY DEF OneBusy, Names
  <2>3. BusyKnows'
    BY DEF OneBusy, BusyKnows, FileKnown, HolderOnFile, Names, Stale, Holders
  <2>4. FileKnown'
    BY DEF OneBusy, BusyKnows, FileKnown, HolderOnFile, Names, Stale, Holders
  <2>5. HolderOnFile'
    BY DEF OneBusy, BusyKnows, FileKnown, HolderOnFile, Names, Stale, Holders
  <2> QED
    BY <2>1, <2>2, <2>3, <2>4, <2>5
<1>13. ASSUME Die(p) PROVE LockInv'
  <2> USE <1>13 DEF Die
  <2>1. LockTypeOK'
    BY DEF Names
  <2>2. OneBusy'
    BY DEF OneBusy, Names
  <2>3. BusyKnows'
    BY DEF OneBusy, BusyKnows, FileKnown, HolderOnFile, Names, Stale, Holders
  <2>4. FileKnown'
    BY DEF OneBusy, BusyKnows, FileKnown, HolderOnFile, Names, Stale, Holders
  <2>5. HolderOnFile'
    BY DEF OneBusy, BusyKnows, FileKnown, HolderOnFile, Names, Stale, Holders
  <2> QED
    BY <2>1, <2>2, <2>3, <2>4, <2>5
<1> QED
  BY <1>1, <1>2, <1>3, <1>4, <1>5, <1>6, <1>7, <1>8, <1>9, <1>10, <1>11, <1>12, <1>13

\* The invariant holds of every run in which operations do not overlap.
THEOREM LockInvariant ==
    ASSUME Overlap = FALSE
    PROVE  LockSpec => []LockInv
<1>1. LockInv /\ [LockNext]_lockVars => LockInv'
  <2> SUFFICES ASSUME LockInv, [LockNext]_lockVars PROVE LockInv'
    OBVIOUS
  <2>1. CASE LockNext
    BY <2>1, LockStep DEF LockNext
  <2>2. CASE UNCHANGED lockVars
    BY <2>2 DEF lockVars, LockInv, LockTypeOK, OneBusy, BusyKnows, FileKnown, HolderOnFile, Holders, Names, Stale
  <2> QED
    BY <2>1, <2>2
<1> QED
  BY <1>1, LockInitInv, PTL DEF LockSpec

\* Two processes never hold the profile at once and the file names the holder,
\* unless one let its lock lapse.  (profile-lock.ts:63-140)
THEOREM ProfileHeldByOne ==
    ASSUME Overlap = FALSE
    PROVE  LockSpec => []HeldByOne
<1>1. LockInv => HeldByOne
  <2> SUFFICES ASSUME LockInv PROVE Exclusive
    BY DEF HeldByOne, LockInv
  <2>1. ASSUME NEW p \in Holders \ lapsed PROVE path # 0 /\ (content[path] = p \/ pc[p] = "restamp")
    <3>1. CASE Names(p)
      BY <3>1, <2>1 DEF Names
    <3>2. CASE pc[p] = "restamp"
      BY <3>2, <2>1 DEF LockInv, BusyKnows, Holders
    <3> QED
      BY <2>1, <3>1, <3>2 DEF LockInv, HolderOnFile
  <2>2. ASSUME NEW p \in Holders \ lapsed, NEW q \in Holders \ lapsed PROVE p = q
    <3>1. CASE pc[p] = "restamp" /\ pc[q] = "restamp"
      BY <3>1, <2>2 DEF LockInv, OneBusy, Holders, Resting
    <3>2. CASE pc[p] = "restamp" /\ pc[q] # "restamp"
      BY <3>2, <2>1, <2>2, ProfileLockAssumption DEF LockInv, BusyKnows, Holders
    <3>3. CASE pc[p] # "restamp" /\ pc[q] = "restamp"
      BY <3>3, <2>1, <2>2, ProfileLockAssumption DEF LockInv, BusyKnows, Holders
    <3>4. CASE pc[p] # "restamp" /\ pc[q] # "restamp"
      BY <3>4, <2>1, <2>2
    <3> QED
      BY <3>1, <3>2, <3>3, <3>4
  <2> QED
    BY <2>2 DEF Exclusive
<1>2. LockSpec => []LockInv
  BY LockInvariant
<1> QED
  BY <1>1, <1>2, PTL

\* An acquire that ends without the lock met a live holder within its TTL:
\* locks left behind do not block.  (profile-lock.ts:63-99)
THEOREM LeftoversDoNotBlock ==
    ASSUME Overlap = FALSE
    PROVE  LockSpec => RefusedByHolderOnly
<1> DEFINE A == \A p \in Process :
                    pc[p] \in {"read", "reap"} /\ pc'[p] = "idle" => \E q \in Holders \ lapsed : q # p
<1>1. LockInv /\ [LockNext]_lockVars => [A]_lockVars
  <2> SUFFICES ASSUME LockInv, LockNext, NEW p \in Process, pc[p] \in {"read", "reap"}, pc'[p] = "idle"
               PROVE  \E q \in Holders \ lapsed : q # p
    OBVIOUS
  <2>1. PICK s \in Process :
          \/ AcquireBegins(s) \/ Open(s) \/ Write(s) \/ Refused(s) \/ FoundStale(s) \/ Reap(s)
          \/ ReleaseBegins(s) \/ ReleaseUnlinks(s) \/ RefreshBegins(s) \/ RefreshTruncates(s)
          \/ RefreshWrites(s) \/ LockAges(s) \/ Die(s)
    BY DEF LockNext
  <2>2. attempt[p] = 0
    BY DEF LockInv, BusyKnows
  <2>3. s = p /\ Refused(p)
    BY <2>1, <2>2 DEF LockInv, LockTypeOK, AcquireBegins, Open, Write, Refused, FoundStale, Reap, ReleaseBegins,
       ReleaseUnlinks, RefreshBegins, RefreshTruncates, RefreshWrites, LockAges, Die
  <2>4. path # 0 /\ content[path] # Empty /\ pc[content[path]] # "dead" /\ path \notin aged /\ pc[p] = "read"
    BY <2>3 DEF Refused, Stale
  <2>5. content[path] \in Process
    BY <2>4, ProfileLockAssumption DEF LockInv, LockTypeOK, LockFile
  <2>6. Names(content[path])
    BY <2>4 DEF Names
  <2>7. content[path] \in Holders
    BY <2>4, <2>5, <2>6 DEF LockInv, FileKnown
  <2>8. content[path] \notin lapsed
    BY <2>4, <2>6, <2>7 DEF LockInv, FileKnown
  <2>9. content[path] # p
    BY <2>4, <2>7 DEF Holders, Refreshing
  <2> QED
    BY <2>7, <2>8, <2>9
<1>2. LockSpec => []LockInv
  BY LockInvariant
<1> QED
  BY <1>1, <1>2, PTL DEF LockSpec, RefusedByHolderOnly

-----------------------------------------------------------------------------
\* The runs root: its capture cache and retention.

\* A capture of this page and screenshot by this engine was stamped then, ...
Stamped(page, shot, engine, at, stamps) ==
    \E c \in stamps :
        /\ c.made.page = page /\ c.made.shot = shot /\ c.made.engine = engine
        /\ c.at = at /\ c.made.at <= c.at

\* ... and one by this engine with this version of the package.
Paired(engine, package, stamps) == \E c \in stamps : c.made.engine = engine /\ c.package = package

\* An entry tells of a capture that was stamped, under that capture's key.
TrueEntry(e, stamps) ==
    /\ e.at \in Nat
    /\ e.key = Key(e.key[1], e.at)
    /\ Stamped(e.page, e.shot, e.key[1], e.at, stamps)

\* The capture being stored was made, and then stamped.
StoringTrue ==
    storing # None =>
        /\ storing.made.at \in Nat /\ storing.made.at <= now
        /\ storing.pc = "entry" =>
              /\ storing.at \in Nat
              /\ Stamped(storing.made.page, storing.made.shot, storing.made.engine, storing.at, stamped)

\* A replay looks up the key of an engine that was stamped with its version; it
\* holds a fresh entry of that engine; what it has read is that entry's.
ReplayTrue ==
    /\ replay.pc = "lookup" =>
           /\ replay.at \in Nat /\ replay.key = Key(replay.engine, replay.at)
           /\ Paired(replay.engine, replay.package, stamped)
    /\ replay.pc \in {"look", "read", "serve"} =>
        /\ replay = [pc |-> replay.pc, kind |-> replay.kind, entry |-> replay.entry, read |-> replay.read,
                     at |-> replay.at, engine |-> replay.engine, package |-> replay.package]
        /\ replay.at \in Nat /\ replay.kind \in {"page", "shot"}
        /\ TrueEntry(replay.entry, stamped) /\ replay.entry.key[1] = replay.engine
        /\ Paired(replay.engine, replay.package, stamped)
        /\ Fresh(replay.entry, replay.at)
        /\ replay.pc # "serve" /\ replay.kind = "shot" => replay.read = replay.entry.page
        /\ replay.pc = "serve" => replay.read = <<replay.entry.page, replay.entry.shot>>

CacheInv ==
    /\ now \in Nat
    /\ identity # None => Paired(identity.browser, identity.package, stamped)
    /\ \A e \in entries : TrueEntry(e, stamped)
    /\ StoringTrue /\ ReplayTrue /\ ReplayedHonestly

\* No capture yet, no entry, no replay.
LEMMA CacheInit == StoreInit => CacheInv
  BY DEF StoreInit, CacheInv, StoringTrue, ReplayTrue, ReplayedHonestly, Idle

\* More stamps leave true what was true of fewer.
LEMMA StampsStay ==
    ASSUME NEW few, NEW more, few \subseteq more
    PROVE  /\ \A page, shot, engine, at : Stamped(page, shot, engine, at, few) => Stamped(page, shot, engine, at, more)
           /\ \A engine, package : Paired(engine, package, few) => Paired(engine, package, more)
           /\ \A e : TrueEntry(e, few) => TrueEntry(e, more)
<1>1. \A page, shot, engine, at : Stamped(page, shot, engine, at, few) => Stamped(page, shot, engine, at, more)
  BY DEF Stamped
<1>2. \A engine, package : Paired(engine, package, few) => Paired(engine, package, more)
  BY DEF Paired
<1> QED
  BY <1>1, <1>2 DEF TrueEntry

\* What was served honestly stays so.
LEMMA ServedStays ==
    ASSUME ReplayedHonestly, stamped \subseteq stamped', served' = served
    PROVE  ReplayedHonestly'
  BY DEF ReplayedHonestly

\* A step of another part leaves the cache's invariant.
LEMMA TrueStaysTrue ==
    ASSUME CacheInv, UNCHANGED <<now, identity, entries, storing, replay, served, stamped>>
    PROVE  CacheInv'
  BY DEF CacheInv, StoringTrue, ReplayTrue, ReplayedHonestly

\* Every step of a capture, a replay, retention, the clock or an upgrade keeps
\* the cache's invariant.
LEMMA CacheStep == CacheInv /\ [StoreNext]_storeVars => CacheInv'
<1> SUFFICES ASSUME CacheInv, [StoreNext]_storeVars PROVE CacheInv'
  OBVIOUS
<1>1. ASSUME NEW r \in Runs, NEW page \in Contents, Capture(r, page) PROVE CacheInv'
  <2> DEFINE shot == Cardinality(taken) + 1
  <2>1. storing' = [pc |-> "identity", run |-> r, made |-> [page |-> page, shot |-> shot, engine |-> installed, at |-> now]]
        /\ UNCHANGED <<now, identity, entries, replay, served, stamped>>
    BY <1>1 DEF Capture
  <2> HIDE DEF shot
  <2>2. StoringTrue'
    BY <2>1 DEF StoringTrue, CacheInv
  <2> QED
    BY <2>1, <2>2 DEF CacheInv, ReplayTrue, ReplayedHonestly
<1>2. ASSUME WriteEngineIdentity PROVE CacheInv'
  <2>1. PICK package \in {storing.made.engine, installed} :
           /\ identity' = [browser |-> storing.made.engine, package |-> package]
           /\ stamped' = stamped \cup {[made |-> storing.made, at |-> now, package |-> package]}
    BY <1>2 DEF WriteEngineIdentity
  <2>2. /\ storing # None
        /\ storing' = [pc |-> "entry", run |-> storing.run, made |-> storing.made, at |-> now]
        /\ UNCHANGED <<now, entries, replay, served>>
    BY <1>2 DEF WriteEngineIdentity
  <2> DEFINE stamp == [made |-> storing.made, at |-> now, package |-> package]
  <2>3. stamp \in stamped' /\ stamped \subseteq stamped'
    BY <2>1
  <2>4. stamp.made = storing.made /\ stamp.at = now /\ stamp.package = package
    OBVIOUS
  <2> HIDE DEF stamp
  <2>5. storing.made.at \in Nat /\ storing.made.at <= now /\ now \in Nat
    BY <2>2 DEF CacheInv, StoringTrue
  <2>6. Paired(storing.made.engine, package, stamped')
    BY <2>3, <2>4 DEF Paired
  <2>7. Stamped(storing.made.page, storing.made.shot, storing.made.engine, now, stamped')
    BY <2>3, <2>4, <2>5 DEF Stamped
  <2>8. (identity # None => Paired(identity.browser, identity.package, stamped))'
    BY <2>1, <2>6
  <2>9. StoringTrue'
    BY <2>2, <2>5, <2>7 DEF StoringTrue
  <2>10. \A e \in entries' : TrueEntry(e, stamped')
    BY <2>2, <2>3, StampsStay DEF CacheInv
  <2>11. ReplayTrue'
    BY <2>2, <2>3, StampsStay DEF CacheInv, ReplayTrue
  <2>12. ReplayedHonestly'
    BY <2>2, <2>3, ServedStays DEF CacheInv
  <2> QED
    BY <2>2, <2>5, <2>8, <2>9, <2>10, <2>11, <2>12 DEF CacheInv
<1>3. ASSUME StoreCachedCapture PROVE CacheInv'
  <2> DEFINE made == storing.made
             new == [key |-> Key(made.engine, storing.at), at |-> storing.at, run |-> storing.run,
                     page |-> made.page, shot |-> made.shot]
  <2>1. storing # None /\ storing.pc = "entry" /\ storing' = None /\ entries' \subseteq entries \cup {new}
        /\ UNCHANGED <<now, identity, replay, served, stamped>>
    BY <1>3 DEF StoreCachedCapture
  <2>2. TrueEntry(new, stamped)
    BY <2>1 DEF CacheInv, StoringTrue, TrueEntry, Key
  <2> HIDE DEF new
  <2>3. \A e \in entries' : TrueEntry(e, stamped')
    BY <2>1, <2>2 DEF CacheInv
  <2> QED
    BY <2>1, <2>3 DEF CacheInv, StoringTrue, ReplayTrue, ReplayedHonestly
<1>4. ASSUME StoreFails PROVE CacheInv'
  BY <1>4 DEF StoreFails, CacheInv, StoringTrue, ReplayTrue, ReplayedHonestly
<1>5. ASSUME ReadEngineIdentity PROVE CacheInv'
  <2>1. UNCHANGED <<now, identity, entries, storing, served, stamped>>
    BY <1>5 DEF ReadEngineIdentity, unchangedByReplay
  <2>2. ReplayTrue'
    <3>1. CASE Missed
      BY <3>1 DEF Missed, ReplayTrue
    <3>2. CASE ~Missed
      <4>1. /\ identity # None /\ identity.package = installed
            /\ replay' = [pc |-> "lookup", key |-> Key(identity.browser, now), at |-> now,
                          engine |-> identity.browser, package |-> installed]
        BY <1>5, <3>2 DEF ReadEngineIdentity
      <4> QED
        BY <2>1, <4>1 DEF CacheInv, ReplayTrue
    <3> QED
      BY <3>1, <3>2
  <2> QED
    BY <2>1, <2>2 DEF CacheInv, StoringTrue, ReplayedHonestly
<1>6. ASSUME LookupCachedCapture PROVE CacheInv'
  <2>1. UNCHANGED <<now, identity, entries, storing, served, stamped>> /\ replay.pc = "lookup"
    BY <1>6 DEF LookupCachedCapture, unchangedByReplay
  <2>2. ReplayTrue'
    <3>1. CASE Missed
      BY <3>1 DEF Missed, ReplayTrue
    <3>2. CASE ~Missed
      <4>1. PICK e \in entries :
              /\ e.key = replay.key /\ Fresh(e, replay.at)
              /\ replay' = [pc |-> "look", kind |-> "page", entry |-> e, read |-> <<>>,
                            at |-> replay.at, engine |-> replay.engine, package |-> replay.package]
        BY <1>6, <3>2 DEF LookupCachedCapture
      <4>2. /\ replay.at \in Nat /\ replay.key = Key(replay.engine, replay.at)
            /\ Paired(replay.engine, replay.package, stamped)
        BY <2>1 DEF CacheInv, ReplayTrue
      <4>3. TrueEntry(e, stamped') /\ e.key[1] = replay.engine
        BY <2>1, <4>1, <4>2 DEF CacheInv, Key
      <4> QED
        BY <2>1, <4>1, <4>2, <4>3 DEF ReplayTrue
    <3> QED
      BY <3>1, <3>2
  <2> QED
    BY <2>1, <2>2 DEF CacheInv, StoringTrue, ReplayedHonestly
<1>7. ASSUME LookForFile PROVE CacheInv'
  <2>1. UNCHANGED <<now, identity, entries, storing, served, stamped>> /\ replay.pc = "look"
        /\ (Missed \/ replay' = [replay EXCEPT !.pc = "read"])
    BY <1>7 DEF LookForFile, unchangedByReplay
  <2>2. ReplayTrue'
    BY <2>1 DEF CacheInv, ReplayTrue, Missed
  <2> QED
    BY <2>1, <2>2 DEF CacheInv, StoringTrue, ReplayedHonestly
<1>8. ASSUME ReadFile PROVE CacheInv'
  <2> DEFINE bytes == FileOf(replay.entry.run, replay.kind)
  <2>1. UNCHANGED <<now, identity, entries, storing, served, stamped>> /\ replay.pc = "read"
    BY <1>8 DEF ReadFile, unchangedByReplay
  <2>2. \/ replay' = [pc |-> "failed"]
        \/ Missed
        \/ /\ replay.kind = "page" /\ bytes = replay.entry.page
           /\ replay' = [replay EXCEPT !.pc = "look", !.kind = "shot", !.read = bytes]
        \/ /\ replay.kind = "shot" /\ bytes = replay.entry.shot
           /\ replay' = [replay EXCEPT !.pc = "serve", !.read = <<replay.read, bytes>>]
    BY <1>8, <2>1 DEF ReadFile, CacheInv, ReplayTrue
  <2> HIDE DEF bytes
  <2>3. ReplayTrue /\ replay = [pc |-> "read", kind |-> replay.kind, entry |-> replay.entry, read |-> replay.read,
                               at |-> replay.at, engine |-> replay.engine, package |-> replay.package]
    BY <2>1 DEF CacheInv, ReplayTrue
  <2>4. ReplayTrue'
    <3>1. CASE replay' = [pc |-> "failed"] \/ Missed
      BY <3>1 DEF ReplayTrue, Missed
    <3>2. CASE /\ bytes = replay.entry.page
               /\ replay' = [replay EXCEPT !.pc = "look", !.kind = "shot", !.read = bytes]
      <4>1. replay' = [pc |-> "look", kind |-> "shot", entry |-> replay.entry, read |-> replay.entry.page,
                       at |-> replay.at, engine |-> replay.engine, package |-> replay.package]
        BY <2>3, <3>2
      <4> QED
        BY <2>1, <2>3, <4>1 DEF ReplayTrue
    <3>3. CASE /\ replay.kind = "shot" /\ bytes = replay.entry.shot
               /\ replay' = [replay EXCEPT !.pc = "serve", !.read = <<replay.read, bytes>>]
      <4>1. replay' = [pc |-> "serve", kind |-> "shot", entry |-> replay.entry, read |-> <<replay.read, replay.entry.shot>>,
                       at |-> replay.at, engine |-> replay.engine, package |-> replay.package]
        BY <2>3, <3>3
      <4>2. replay.read = replay.entry.page
        BY <2>1, <2>3, <3>3 DEF ReplayTrue
      <4> QED
        BY <2>1, <2>3, <4>1, <4>2 DEF ReplayTrue
    <3> QED
      BY <2>2, <3>1, <3>2, <3>3
  <2> QED
    BY <2>1, <2>4 DEF CacheInv, StoringTrue, ReplayedHonestly
<1>9. ASSUME Serve PROVE CacheInv'
  <2> DEFINE s == [page |-> replay.read[1], shot |-> replay.read[2],
                   engine |-> replay.engine, package |-> replay.package,
                   at |-> replay.at, staleness |-> replay.at - replay.entry.at]
  <2>1. UNCHANGED <<now, identity, entries, storing, stamped>> /\ replay.pc = "serve" /\ served' = served \cup {s}
        /\ replay' = [pc |-> "hit"]
    BY <1>9 DEF Serve, unchangedByReplay
  <2>2. /\ replay.at \in Nat /\ replay.entry.at \in Nat /\ Fresh(replay.entry, replay.at)
        /\ replay.read = <<replay.entry.page, replay.entry.shot>>
        /\ Stamped(replay.entry.page, replay.entry.shot, replay.engine, replay.entry.at, stamped)
        /\ Paired(replay.engine, replay.package, stamped)
    BY <2>1 DEF CacheInv, ReplayTrue, TrueEntry
  <2>3. s.staleness \in 0..Ttl /\ s.at - s.staleness = replay.entry.at
    BY <2>2, RunStoreAssumption DEF Fresh, RunStoreAssumption
  <2>4. Stamped(s.page, s.shot, s.engine, s.at - s.staleness, stamped) /\ Paired(s.engine, s.package, stamped)
    BY <2>2, <2>3
  <2> HIDE DEF s
  <2>5. ReplayedHonestly'
    BY <2>1, <2>3, <2>4 DEF CacheInv, ReplayedHonestly, Stamped, Paired
  <2> QED
    BY <2>1, <2>5 DEF CacheInv, StoringTrue, ReplayTrue
<1>10. ASSUME Sweeping PROVE CacheInv'
  <2>1. UNCHANGED <<now, identity, entries, storing, replay, served, stamped>>
    BY <1>10, Zenon DEF Sweeping, unchangedBySweep, PruneRuns, RunAge, RemoveAged, PruneRunsByBudget, Measure, Measured,
       RemoveOldest, Purge, Strip, Mark, SweepEnds, SweepDies
  <2> QED
    BY <2>1, TrueStaysTrue
<1>11. CASE Tick
  <2>1. now' = now + 1 /\ UNCHANGED <<identity, entries, storing, replay, served, stamped>>
    BY <1>11 DEF Tick
  <2>2. StoringTrue'
    BY <2>1 DEF CacheInv, StoringTrue
  <2> QED
    BY <2>1, <2>2 DEF CacheInv, ReplayTrue, ReplayedHonestly
<1>12. CASE Upgrade \/ UNCHANGED storeVars
  BY <1>12, TrueStaysTrue DEF Upgrade, storeVars
<1> QED
  BY <1>1, <1>2, <1>3, <1>4, <1>5, <1>6, <1>7, <1>8, <1>9, <1>10, <1>11, <1>12 DEF StoreNext, Replaying

\* What is replayed is one capture, by the engine whose key was looked up, stamped
\* as long ago as it says, and that engine was stamped with the replaying run's
\* version: whenever a package is upgraded, a directory reused or removed.
\* (evidence-runner.ts:1044-1156)
THEOREM ReplaysAreHonest == StoreSpec => []ReplayedHonestly
<1>1. CacheInv => ReplayedHonestly
  BY DEF CacheInv
<1> QED
  BY <1>1, CacheInit, CacheStep, PTL DEF StoreSpec

\* What retention works on: every directory is none or a run's, the sweep under
\* way is one of these.
RetentionTypeOK ==
    /\ IsFiniteSet(taken)
    /\ dir = [r \in Runs |-> dir[r]]
    /\ \A r \in Existing :
           /\ dir[r] = [page |-> dir[r].page, shot |-> dir[r].shot, at |-> dir[r].at, marked |-> dir[r].marked]
           /\ dir[r].at \in Nat /\ dir[r].marked \in BOOLEAN
    /\ now \in Nat
    /\ sweep.pc = "age" =>
           /\ sweep = [pc |-> "age", left |-> sweep.left, now |-> sweep.now, old |-> sweep.old]
           /\ sweep.now \in Nat
    /\ sweep.pc = "measure" =>
           /\ sweep = [pc |-> "measure", left |-> sweep.left, now |-> sweep.now, seen |-> sweep.seen]
           /\ sweep.now \in Nat /\ sweep.now <= now
           /\ IsFiniteSet(sweep.seen) /\ \A m \in sweep.seen : m.age \in Nat /\ m.bytes \in Nat
    /\ sweep.pc = "budget" =>
           /\ sweep = [pc |-> "budget", now |-> sweep.now, kept |-> sweep.kept, gone |-> sweep.gone, written |-> sweep.written]
           /\ sweep.now \in Nat /\ sweep.now <= now
           /\ IsFiniteSet(sweep.kept \cup sweep.gone)
           /\ \A m \in sweep.kept \cup sweep.gone : m.age \in Nat /\ m.bytes \in Nat
    /\ sweep.pc = "mark" => sweep = [pc |-> "mark", run |-> sweep.run]

\* A time of writing and an age measured against a clock belong together, unless
\* it was written again since.
Tells(at, age, clock) == at \in Nat /\ (at < clock => age = clock - at)

\* What has been measured tells the age of what is there,
MeasuresTell ==
    /\ sweep.pc = "measure" =>
           \A m \in sweep.seen : dir[m.run] # None => Tells(dir[m.run].at, m.age, sweep.now)
    /\ sweep.pc = "budget" =>
           /\ \A m \in sweep.kept : dir[m.run] # None => Tells(dir[m.run].at, m.age, sweep.now)
           /\ \A m \in sweep.written : m.of \in sweep.gone /\ Tells(m.at, m.of.age, sweep.now)

\* and by it the budget sweep removes the oldest first.
OldestFirst ==
    sweep.pc = "budget" => \A gone \in sweep.gone, kept \in sweep.kept : kept.age <= gone.age

\* The invariant of retention.
RetentionInv == RetentionTypeOK /\ MeasuresTell /\ OldestFirst /\ RemovesNoMore /\ StrippedIsMarked

\* What is measured is a number, and more of it is not less.
LEMMA TotalGrows ==
    ASSUME NEW all, IsFiniteSet(all), \A m \in all : m.bytes \in Nat, NEW some \in SUBSET all
    PROVE  Total(some) \in Nat /\ Total(all) \in Nat /\ Total(some) <= Total(all)
<1> DEFINE f == [m \in all |-> m.bytes]
           e == [m \in some |-> m.bytes]
<1>1. IsFiniteSet(some)
  BY FS_Subset
<1>2. \A m \in all : f[m] \in Nat
  OBVIOUS
<1>3. \A m \in some : e[m] = f[m]
  OBVIOUS
<1>4. Total(all) = SumFunctionOnSet(f, all) /\ Total(some) = SumFunctionOnSet(e, some)
  BY DEF Total
<1> HIDE DEF e, f
<1>5. Total(some) = SumFunctionOnSet(f, some)
  BY <1>1, <1>3, <1>4, SumOfSame
<1>6. all \in SUBSET all
  OBVIOUS
<1> QED
  BY <1>2, <1>4, <1>5, <1>6, SumOfFewer

\* No run, no sweep.
LEMMA RetentionInit == StoreInit => RetentionInv
<1> SUFFICES ASSUME StoreInit PROVE RetentionInv
  OBVIOUS
<1>1. IsFiniteSet(taken)
  BY FS_EmptySet DEF StoreInit
<1> QED
  BY <1>1 DEF StoreInit, RetentionInv, RetentionTypeOK, MeasuresTell, OldestFirst, RemovesNoMore, StrippedIsMarked, Existing, Idle

\* A run is removed: what is left tells what it told.
LEMMA RemovedRun ==
    ASSUME RetentionInv, NEW r, Removes(r), UNCHANGED <<taken, now>>
    PROVE  /\ dir' = [q \in Runs |-> dir'[q]]
           /\ \A q \in Runs : dir'[q] # None => dir'[q] = dir[q] /\ dir[q] # None /\ (q \in torn => q \in torn')
           /\ \A q : dir'[q] # None => q \in Runs \/ dir'[q] = dir[q]
  BY DEF RetentionInv, RetentionTypeOK, Removes

\* Every step of retention, and of the runs beside it, keeps the invariant.
LEMMA RetentionStep == RetentionInv /\ [StoreNext]_storeVars => RetentionInv'
<1> SUFFICES ASSUME RetentionInv, [StoreNext]_storeVars PROVE RetentionInv'
  OBVIOUS
<1> USE RunStoreAssumption DEF RunStoreAssumption
<1>1. ASSUME NEW r \in Runs, NEW page \in Contents, Capture(r, page) PROVE RetentionInv'
  <2> DEFINE shot == Cardinality(taken) + 1
             new == [page |-> page, shot |-> shot, at |-> now, marked |-> IF dir[r] = None THEN FALSE ELSE dir[r].marked]
  <2>1. PICK made : taken' = taken \cup {made} /\ dir' = [dir EXCEPT ![r] = new] /\ torn' = torn \ {r} /\ UNCHANGED <<sweep, now>>
    BY <1>1 DEF Capture
  <2>2. IsFiniteSet(taken')
    BY <2>1, FS_AddElement DEF RetentionInv, RetentionTypeOK
  <2>3. shot # None
    BY FS_CardinalityType DEF RetentionInv, RetentionTypeOK
  <2> HIDE DEF shot
  <2>4. new.shot # None /\ new.at = now /\ now \in Nat /\ new.marked \in BOOLEAN
        /\ new = [page |-> new.page, shot |-> new.shot, at |-> new.at, marked |-> new.marked]
    BY <2>3, Zenon DEF RetentionInv, RetentionTypeOK, Existing
  <2> HIDE DEF new
  <2>5. /\ dir' = [q \in Runs |-> dir'[q]] /\ dir'[r] = new
        /\ \A q : q # r => dir'[q] = dir[q]
    BY <2>1 DEF RetentionInv, RetentionTypeOK
  <2>6. StrippedIsMarked'
    BY <2>1, <2>4, <2>5 DEF RetentionInv, StrippedIsMarked, Existing
  <2>7. OldestFirst' /\ RemovesNoMore'
    BY <2>1 DEF RetentionInv, OldestFirst, RemovesNoMore
  <2>8. RetentionTypeOK'
    BY <2>1, <2>2, <2>4, <2>5 DEF RetentionInv, RetentionTypeOK, Existing
  <2>9. MeasuresTell'
    <3>1. \A age : sweep.pc \in {"measure", "budget"} => Tells(now, age, sweep.now)
      BY DEF RetentionInv, RetentionTypeOK, Tells
    <3> QED
      BY <2>1, <2>4, <2>5, <3>1 DEF RetentionInv, MeasuresTell
  <2> QED
    BY <2>6, <2>7, <2>8, <2>9 DEF RetentionInv
<1>2. CASE WriteEngineIdentity \/ StoreCachedCapture \/ StoreFails \/ Replaying \/ Upgrade \/ UNCHANGED storeVars
  <2>1. UNCHANGED <<dir, sweep, now, taken, torn>>
    BY <1>2 DEF WriteEngineIdentity, StoreCachedCapture, StoreFails, Replaying, ReadEngineIdentity, LookupCachedCapture,
       LookForFile, ReadFile, Serve, unchangedByReplay, Upgrade, storeVars
  <2> QED
    BY <2>1 DEF RetentionInv, RetentionTypeOK, MeasuresTell, OldestFirst, RemovesNoMore, StrippedIsMarked, Existing
<1>3. CASE Tick
  <2>1. now' = now + 1 /\ UNCHANGED <<dir, sweep, taken, torn>>
    BY <1>3 DEF Tick
  <2>2. RetentionTypeOK'
    BY <2>1 DEF RetentionInv, RetentionTypeOK, Existing
  <2> QED
    BY <2>1, <2>2 DEF RetentionInv, MeasuresTell, OldestFirst, RemovesNoMore, StrippedIsMarked, Existing
<1>4. CASE PruneRuns \/ PruneRunsByBudget
  <2>1. /\ UNCHANGED <<dir, taken, now, torn>> /\ sweep.pc = "idle"
        /\ \/ sweep' = [pc |-> "age", left |-> Existing, now |-> now, old |-> None]
           \/ sweep' = [pc |-> "measure", left |-> Existing, now |-> now, seen |-> {}]
    BY <1>4 DEF PruneRuns, PruneRunsByBudget, unchangedBySweep
  <2>2. IsFiniteSet({})
    BY FS_EmptySet
  <2>3. RetentionTypeOK'
    <3>1. now \in Nat
      BY DEF RetentionInv, RetentionTypeOK
    <3>2. CASE sweep' = [pc |-> "age", left |-> Existing, now |-> now, old |-> None]
      BY <2>1, <3>1, <3>2 DEF RetentionInv, RetentionTypeOK, Existing
    <3>3. CASE sweep' = [pc |-> "measure", left |-> Existing, now |-> now, seen |-> {}]
      <4>1. /\ sweep'.pc = "measure" /\ sweep'.left = Existing /\ sweep'.now = now /\ sweep'.seen = {}
            /\ sweep' = [pc |-> "measure", left |-> sweep'.left, now |-> sweep'.now, seen |-> sweep'.seen]
        BY <3>3
      <4> QED
        BY <2>1, <2>2, <3>1, <4>1 DEF RetentionInv, RetentionTypeOK, Existing
    <3> QED
      BY <2>1, <3>2, <3>3
  <2>4. MeasuresTell' /\ OldestFirst' /\ RemovesNoMore'
    BY <2>1 DEF MeasuresTell, OldestFirst, RemovesNoMore
  <2>5. StrippedIsMarked'
    BY <2>1 DEF RetentionInv, StrippedIsMarked, Existing
  <2> QED
    BY <2>3, <2>4, <2>5 DEF RetentionInv
<1>5. ASSUME NEW r \in Runs, RunAge(r) PROVE RetentionInv'
  BY <1>5 DEF RunAge, unchangedBySweep, RetentionInv, RetentionTypeOK, MeasuresTell, OldestFirst, RemovesNoMore, StrippedIsMarked, Existing
<1>6. CASE RemoveAged
  <2>1. /\ sweep.pc = "age" /\ Removes(sweep.old) /\ sweep' = [sweep EXCEPT !.old = None]
        /\ UNCHANGED <<taken, now>>
    BY <1>6 DEF RemoveAged, unchangedBySweep
  <2>2. sweep' = [pc |-> "age", left |-> sweep.left, now |-> sweep.now, old |-> None]
    BY <2>1 DEF RetentionInv, RetentionTypeOK
  <2>3. RetentionTypeOK'
    BY <2>1, <2>2, RemovedRun DEF RetentionInv, RetentionTypeOK, Existing
  <2>4. StrippedIsMarked'
    BY <2>1, <2>2, RemovedRun DEF RetentionInv, StrippedIsMarked, Existing
  <2> QED
    BY <2>2, <2>3, <2>4 DEF RetentionInv, MeasuresTell, OldestFirst, RemovesNoMore
<1>7. ASSUME NEW r \in Runs, Measure(r) PROVE RetentionInv'
  <2>0. sweep.pc = "measure" /\ UNCHANGED <<dir, taken, now, torn>>
    BY <1>7 DEF Measure, unchangedBySweep
  <2>1. dir[r] # None => Age(r) \in Nat /\ Tells(dir[r].at, Age(r), sweep.now)
    BY <2>0 DEF Age, Tells, RetentionInv, RetentionTypeOK, Existing
  <2> DEFINE new  == [run |-> r, age |-> Age(r), bytes |-> Bytes(dir[r])]
             seen == IF dir[r] = None THEN sweep.seen ELSE sweep.seen \cup {new}
  <2>2. /\ sweep' = [sweep EXCEPT !.left = @ \ {r}, !.seen = seen]
        /\ \A m \in seen : m \in sweep.seen \/ (dir[r] # None /\ m.run = r /\ m.age = Age(r))
    BY <1>7 DEF Measure
  <2>3. IsFiniteSet(seen)
    <3>1. IsFiniteSet(sweep.seen)
      BY <2>0 DEF RetentionInv, RetentionTypeOK
    <3> QED
      BY <3>1, FS_AddElement
  <2>4. \A m \in seen : m \in sweep.seen \/ m.bytes \in Nat
    BY DEF Bytes
  <2> HIDE DEF seen
  <2>6. sweep' = [pc |-> "measure", left |-> sweep.left \ {r}, now |-> sweep.now, seen |-> seen]
    BY <2>0, <2>2 DEF RetentionInv, RetentionTypeOK
  <2>7. \A m \in seen : m.age \in Nat /\ m.bytes \in Nat
    BY <2>0, <2>1, <2>2, <2>4 DEF RetentionInv, RetentionTypeOK
  <2>8. MeasuresTell'
    BY <2>0, <2>1, <2>2, <2>6 DEF RetentionInv, MeasuresTell
  <2>9. RetentionTypeOK'
    BY <2>0, <2>3, <2>6, <2>7 DEF RetentionInv, RetentionTypeOK, Existing
  <2>10. StrippedIsMarked'
    BY <2>0, <2>6 DEF RetentionInv, StrippedIsMarked, Existing
  <2> QED
    BY <2>6, <2>8, <2>9, <2>10 DEF RetentionInv, OldestFirst, RemovesNoMore
<1>8. CASE Measured
  <2>1. /\ sweep.pc = "measure" /\ UNCHANGED <<dir, taken, now, torn>>
        /\ sweep' = [pc |-> "budget", now |-> sweep.now, kept |-> sweep.seen, gone |-> {}, written |-> {}]
    BY <1>8 DEF Measured, unchangedBySweep
  <2>2. sweep.seen \cup {} = sweep.seen
    OBVIOUS
  <2>3. RetentionTypeOK'
    BY <2>1, <2>2 DEF RetentionInv, RetentionTypeOK, Existing
  <2>4. MeasuresTell' /\ OldestFirst' /\ RemovesNoMore'
    BY <2>1 DEF RetentionInv, MeasuresTell, OldestFirst, RemovesNoMore
  <2>5. StrippedIsMarked'
    BY <2>1 DEF RetentionInv, StrippedIsMarked, Existing
  <2> QED
    BY <2>3, <2>4, <2>5 DEF RetentionInv
<1>9. CASE RemoveOldest
  <2>1. PICK m \in sweep.kept :
          /\ \A other \in sweep.kept : other.age <= m.age
          /\ RemovesMeasured(m)
    BY <1>9 DEF RemoveOldest
  <2>2. sweep.pc = "budget" /\ UNCHANGED <<taken, now>> /\ Total(sweep.kept) > MaxBytes
    BY <1>9 DEF RemoveOldest, unchangedBySweep
  <2> DEFINE last == [of |-> m, at |-> dir[m.run].at]
             written == IF dir[m.run] = None THEN sweep.written ELSE sweep.written \cup {last}
  <2>3. /\ Removes(m.run)
        /\ sweep' = [pc |-> "budget", now |-> sweep.now, kept |-> sweep.kept \ {m}, gone |-> sweep.gone \cup {m},
                      written |-> written]
    BY <2>1, <2>2 DEF RemovesMeasured, RetentionInv, RetentionTypeOK
  <2>4. \A w \in written : w \in sweep.written \/ (w.of = m /\ Tells(w.at, m.age, sweep.now))
    BY <2>2 DEF RetentionInv, MeasuresTell
  <2> HIDE DEF written, last
  <2>5. OldestFirst'
    BY <2>1, <2>2, <2>3 DEF RetentionInv, OldestFirst
  <2>6. StrippedIsMarked'
    BY <2>2, <2>3, RemovedRun DEF RetentionInv, StrippedIsMarked, Existing
  <2>7. MeasuresTell'
    <3>1. \A q : dir'[q] # None => dir'[q] = dir[q]
      BY <2>2, <2>3, RemovedRun
    <3> QED
      BY <2>2, <2>3, <2>4, <3>1 DEF RetentionInv, MeasuresTell
  <2>8. RetentionTypeOK'
    <3>1. sweep.kept \cup sweep.gone = sweep'.kept \cup sweep'.gone
      BY <2>1, <2>3
    <3> QED
      BY <2>2, <2>3, <3>1, RemovedRun DEF RetentionInv, RetentionTypeOK, Existing
  <2>9. ASSUME NEW gone \in sweep'.gone
        PROVE  Total(sweep'.kept \cup {k \in sweep'.gone : k.age <= gone.age}) > MaxBytes
    <3> DEFINE before == sweep.kept \cup {k \in sweep.gone : k.age <= gone.age}
               after == sweep'.kept \cup {k \in sweep'.gone : k.age <= gone.age}
    <3>1. sweep'.kept = sweep.kept \ {m} /\ sweep'.gone = sweep.gone \cup {m}
      BY <2>3
    <3>2. m.age <= gone.age
      BY <2>1, <2>2, <3>1 DEF RetentionInv, RetentionTypeOK, OldestFirst
    <3>3. after = before
      BY <2>1, <3>1, <3>2
    <3>4. CASE gone \in sweep.gone
      BY <2>2, <3>3, <3>4 DEF RetentionInv, RemovesNoMore
    <3>5. CASE gone = m
      <4>1. /\ IsFiniteSet(sweep.kept \cup sweep.gone)
            /\ \A k \in sweep.kept \cup sweep.gone : k.bytes \in Nat
        BY <2>2 DEF RetentionInv, RetentionTypeOK
      <4>2. before \in SUBSET (sweep.kept \cup sweep.gone) /\ sweep.kept \in SUBSET before
        OBVIOUS
      <4> HIDE DEF before
      <4>3. IsFiniteSet(before) /\ \A k \in before : k.bytes \in Nat
        BY <4>1, <4>2, FS_Subset
      <4>4. Total(sweep.kept) \in Nat /\ Total(before) \in Nat /\ Total(sweep.kept) <= Total(before)
        BY <4>2, <4>3, TotalGrows
      <4>6. Total(before) > MaxBytes
        BY <2>2, <4>4
      <4> QED
        BY <3>3, <4>6
    <3> QED
      BY <3>1, <3>4, <3>5
  <2>10. RemovesNoMore'
    BY <2>9 DEF RemovesNoMore
  <2> QED
    BY <2>5, <2>6, <2>7, <2>8, <2>10 DEF RetentionInv
<1>10. ASSUME NEW r \in Runs, Purge(r) PROVE RetentionInv'
  <2>1. sweep.pc = "idle" /\ Removes(r) /\ UNCHANGED <<sweep, taken, now>>
    BY <1>10 DEF Purge, unchangedBySweep
  <2>2. RetentionTypeOK'
    BY <2>1, RemovedRun DEF RetentionInv, RetentionTypeOK, Existing
  <2>3. StrippedIsMarked'
    BY <2>1, RemovedRun DEF RetentionInv, StrippedIsMarked, Existing
  <2> QED
    BY <2>1, <2>2, <2>3 DEF RetentionInv, MeasuresTell, OldestFirst, RemovesNoMore
<1>11. ASSUME NEW r \in Runs, Strip(r) PROVE RetentionInv'
  BY <1>11 DEF Strip, Shot, unchangedBySweep, RetentionInv, RetentionTypeOK, MeasuresTell, OldestFirst, RemovesNoMore, StrippedIsMarked, Existing
<1>12. CASE Mark
  <2>1. sweep.pc = "mark" /\ sweep' = Idle /\ UNCHANGED <<taken, now, torn>>
        /\ dir' = IF dir[sweep.run] = None THEN dir ELSE [dir EXCEPT ![sweep.run].marked = TRUE]
    BY <1>12 DEF Mark, unchangedBySweep
  <2>2. ASSUME NEW r \in Runs, dir'[r] # None
        PROVE  /\ dir[r] # None
               /\ dir'[r] = IF r = sweep.run THEN [dir[r] EXCEPT !.marked = TRUE] ELSE dir[r]
    BY <2>1, <2>2 DEF RetentionInv, RetentionTypeOK
  <2>3. ASSUME NEW r \in Runs, dir'[r] # None
        PROVE  /\ dir'[r] = [page |-> dir'[r].page, shot |-> dir'[r].shot, at |-> dir'[r].at, marked |-> dir'[r].marked]
               /\ dir'[r].shot = dir[r].shot /\ dir'[r].at = dir[r].at /\ dir[r].at \in Nat
               /\ r = sweep.run => dir'[r].marked = TRUE
               /\ r # sweep.run => dir'[r].marked = dir[r].marked
    BY <2>2, <2>3 DEF RetentionInv, RetentionTypeOK, Existing
  <2>4. StrippedIsMarked'
    <3> SUFFICES ASSUME NEW r \in Runs, dir'[r] # None, dir'[r].shot = None, r \notin torn PROVE dir'[r].marked = TRUE
      BY <2>1, Zenon DEF StrippedIsMarked, Existing
    <3>1. dir[r] # None /\ dir[r].shot = None
      BY <2>2, <2>3
    <3>2. CASE r = sweep.run
      BY <2>3, <3>2
    <3>3. CASE r # sweep.run
      <4>1. dir[r].marked = TRUE
        BY <2>1, <3>1, <3>3 DEF RetentionInv, RetentionTypeOK, StrippedIsMarked, Existing
      <4>2. dir'[r].marked = dir[r].marked
        BY <2>3, <3>3
      <4> QED
        BY <4>1, <4>2
    <3> QED
      BY <3>2, <3>3
  <2>5. dir' = [r \in Runs |-> dir'[r]]
    BY <2>1 DEF RetentionInv, RetentionTypeOK
  <2>6. \A r \in Existing' :
          /\ dir'[r] = [page |-> dir'[r].page, shot |-> dir'[r].shot, at |-> dir'[r].at, marked |-> dir'[r].marked]
          /\ dir'[r].at \in Nat /\ dir'[r].marked \in BOOLEAN
    <3> SUFFICES ASSUME NEW r \in Runs, dir'[r] # None
                 PROVE  /\ dir'[r] = [page |-> dir'[r].page, shot |-> dir'[r].shot, at |-> dir'[r].at, marked |-> dir'[r].marked]
                        /\ dir'[r].at \in Nat /\ dir'[r].marked \in BOOLEAN
      BY DEF Existing
    <3>1. dir'[r].marked \in BOOLEAN
      <4>1. CASE r = sweep.run
        <5>1. dir'[r].marked = TRUE
          BY <2>3, <4>1
        <5> QED
          BY <5>1, Zenon
      <4>2. CASE r # sweep.run
        <5>1. dir'[r].marked = dir[r].marked
          BY <2>3, <4>2
        <5>2. dir[r].marked \in BOOLEAN
          BY <2>2 DEF RetentionInv, RetentionTypeOK, Existing
        <5> QED
          BY <5>1, <5>2, Zenon
      <4> QED
        BY <4>1, <4>2
    <3> QED
      BY <2>3, <3>1
  <2>7. IsFiniteSet(taken') /\ now' \in Nat /\ sweep'.pc = "idle"
    BY <2>1 DEF Idle, RetentionInv, RetentionTypeOK
  <2>8. RetentionTypeOK'
    BY <2>5, <2>6, <2>7 DEF RetentionTypeOK
  <2>9. OldestFirst'
    BY <2>7 DEF OldestFirst
  <2>10. RemovesNoMore'
    BY <2>7 DEF RemovesNoMore
  <2>11. MeasuresTell'
    BY <2>7 DEF MeasuresTell
  <2> QED
    BY <2>4, <2>8, <2>9, <2>10, <2>11 DEF RetentionInv
<1>13. CASE SweepEnds
  BY <1>13 DEF SweepEnds, Idle, unchangedBySweep, RetentionInv, RetentionTypeOK, MeasuresTell, OldestFirst, RemovesNoMore, StrippedIsMarked, Existing
<1>14. CASE SweepDies
  BY <1>14 DEF SweepDies, Idle, unchangedBySweep, RetentionInv, RetentionTypeOK, MeasuresTell, OldestFirst, RemovesNoMore, StrippedIsMarked, Existing
<1> QED
  BY <1>1, <1>2, <1>3, <1>4, <1>5, <1>6, <1>7, <1>8, <1>9, <1>10, <1>11, <1>12, <1>13, <1>14 DEF StoreNext, Sweeping

\* The budget sweep never removes a run while it spares one last written before it,
\* but for one written again after the sweep had begun; it removes none while those
\* that stay, with the ones no older than it, fit; and a screenshot is only missing
\* where a marker says why, or where the command that was to write it has died.
\* (run-lifecycle.ts:60-232)
THEOREM RetentionTakesWhatIsDue == StoreSpec => []RetentionIsDue
<1>1. ASSUME RetentionInv PROVE SparesTheYoung
  <2> SUFFICES ASSUME sweep.pc = "budget", NEW gone \in sweep.written, NEW kept \in sweep.kept,
                      dir[kept.run] # None, ~(gone.at >= sweep.now)
               PROVE  gone.at <= dir[kept.run].at
    BY DEF SparesTheYoung
  <2>1. /\ gone.of \in sweep.gone /\ Tells(gone.at, gone.of.age, sweep.now)
        /\ Tells(dir[kept.run].at, kept.age, sweep.now)
        /\ sweep.now \in Nat
    BY <1>1 DEF RetentionInv, RetentionTypeOK, MeasuresTell
  <2>2. kept.age <= gone.of.age
    BY <1>1, <2>1 DEF RetentionInv, OldestFirst
  <2> QED
    BY <2>1, <2>2 DEF Tells
<1>2. RetentionInv => RetentionIsDue
  BY <1>1 DEF RetentionInv, RetentionIsDue
<1> QED
  BY <1>2, RetentionInit, RetentionStep, PTL DEF StoreSpec

-----------------------------------------------------------------------------
\* The inductive invariant.

LedgerTypeOK ==
    /\ wpc \in [Writer -> {"idle", "metadata", "body", "rows", "done"}]
    /\ captureId \in [Writer -> CaptureId \cup {NoId}]
    /\ disk \in [File -> Writer \cup {NoWriter}]
    /\ artifacts \in Seq(Writer) /\ claims \in Seq(Author) /\ citations \in Seq(Author)
    /\ evidence \in [Author -> Writer \cup {NoWriter}]
    /\ quote \in [Author -> Writer \cup {NoWriter}]
    /\ exports \subseteq Inspector
    /\ rpc \in [Reader -> {"idle", "claiming", "citing", "artifacts", "claims", "citations",
                           "hashing", "grounding", "done"}]
    /\ artifactsSeen \in [Reader -> Nat]
    /\ claimsSeen \in [Reader -> Nat]
    /\ citationsSeen \in [Reader -> Nat]
    /\ todo \in [Reader -> SUBSET Nat]
    /\ errors \subseteq Reader

\* A bundle has its file base for itself, and its files are written in order;
\* its rows come last.
BundlesStand ==
    /\ \A w \in Writer :
        /\ wpc[w] # "idle" => captureId[w] # NoId
        /\ \A v \in Writer : captureId[v] = captureId[w] /\ captureId[w] # NoId => v = w
        /\ wpc[w] \in {"body", "rows", "done"} => disk[<<captureId[w], "metadata">>] = w
        /\ wpc[w] \in {"rows", "done"} => disk[<<captureId[w], "body">>] = w
    /\ \A i \in 1..Len(artifacts) : wpc[artifacts[i]] = "done"

\* An author cites a registered artifact, and appends one claim and one
\* citation, in this order.
AuthorsKnown ==
    /\ \A a \in Author : rpc[a] # "idle" => evidence[a] \in Registered(Len(artifacts))
    /\ \A i \in 1..Len(claims) : rpc[claims[i]] \notin {"idle", "claiming"}
    /\ \A i \in 1..Len(citations) : rpc[citations[i]] \notin {"idle", "claiming", "citing"}
    /\ \A a \in Author : rpc[a] \notin {"idle", "claiming"} => \E i \in 1..Len(claims) : claims[i] = a
    /\ \A i, j \in 1..Len(claims) : claims[i] = claims[j] => i = j
    /\ \A i, j \in 1..Len(citations) : citations[i] = citations[j] => i = j

\* A reader has read a part of each ledger, an author its own claim with it.
SeenBy(r) ==
    /\ artifactsSeen[r] <= Len(artifacts)
    /\ claimsSeen[r] <= Len(claims)
    /\ citationsSeen[r] <= Len(citations)
    /\ rpc[r] = "hashing" => todo[r] \subseteq 1..(2 * artifactsSeen[r])
    /\ rpc[r] = "grounding" => todo[r] \subseteq 1..claimsSeen[r]
    /\ rpc[r] = "done" => todo[r] = {}
    /\ r \in Author /\ rpc[r] \in {"citations", "hashing", "grounding", "done"} =>
           \E i \in 1..claimsSeen[r] : claims[i] = r
    /\ r \in exports => rpc[r] \in {"artifacts", "hashing", "done"}

ReadSoFar == \A r \in Reader : SeenBy(r)

Misquoted == \E i \in 1..Len(claims) : quote[claims[i]] # evidence[claims[i]]

\* A gate finds an error only for a reason, and passes over no claim.
VerdictOf(r) ==
    /\ r \in exports => r \notin errors
    /\ r \in errors => /\ rpc[r] \in {"grounding", "done"}
                       /\ ~LedgersMatch(r) \/ TooFewClaims(r) \/ Misquoted
    /\ rpc[r] \in {"grounding", "done"} /\ r \notin exports \cup errors =>
           \A i \in 1..claimsSeen[r] : i \in todo[r] \/ quote[claims[i]] = evidence[claims[i]]

VerdictsKnown == \A r \in Reader : VerdictOf(r)

LedgerInv == LedgerTypeOK /\ BundlesStand /\ AuthorsKnown /\ ReadSoFar /\ VerdictsKnown

-----------------------------------------------------------------------------
\* The k-th row belongs to a bundle that is in the ledger.
LEMMA RowsOfBundles ==
    ASSUME NEW n \in Nat, NEW k \in 1..(2 * n)
    PROVE  (k + 1) \div 2 \in 1..n
OBVIOUS

\* One file operation of one call.
BundleStep(w) == (\E id \in CaptureId : BeginBundle(w, id)) \/ WriteFile(w) \/ AppendRows(w)
AuthorStep(a) ==
    (\E w, q \in Writer : CheckEvidence(a, w, q)) \/ AppendClaim(a) \/ AppendCitation(a)
ReaderStep(r) ==
    \/ ReadArtifacts(r) \/ ReadClaims(r) \/ ReadCitations(r)
    \/ \E k \in todo[r] : HashRow(r, k) \/ GroundClaim(r, k)
    \/ HashingEnds(r) \/ GateEnds(r)

\* A step is one caller's.
LEMMA StepsOfCallers ==
    Next <=> \/ \E w \in Writer : BundleStep(w)
             \/ \E a \in Author : AuthorStep(a)
             \/ \E r \in Reader : ReaderStep(r)
BY DEF Next, BundleStep, AuthorStep, ReaderStep

\* Every file operation keeps the types.
LEMMA LedgerTypeStep ==
    ASSUME LedgerTypeOK, [Next]_vars
    PROVE  LedgerTypeOK'
<1> USE DEF LedgerTypeOK
<1>1. CASE UNCHANGED vars
  BY <1>1 DEF vars, writeVars, authorVars, readVars
<1>2. ASSUME NEW w \in Writer, BundleStep(w) PROVE LedgerTypeOK'
  <2>1. CASE \E id \in CaptureId : BeginBundle(w, id)
    BY <2>1 DEF BeginBundle, authorVars, readVars
  <2>2. CASE WriteFile(w)
    <3>1. disk' \in [File -> Writer \cup {NoWriter}]
      BY <2>2 DEF WriteFile
    <3> QED
      BY <2>2, <3>1 DEF WriteFile, authorVars, readVars
  <2>3. CASE AppendRows(w)
    BY <2>3 DEF AppendRows, authorVars, readVars
  <2> QED
    BY <1>2, <2>1, <2>2, <2>3 DEF BundleStep
<1>3. ASSUME NEW a \in Author, AuthorStep(a) PROVE LedgerTypeOK'
  <2>1. CASE \E w, q \in Writer : CheckEvidence(a, w, q)
    BY <2>1 DEF CheckEvidence, writeVars, Reader
  <2>2. CASE AppendClaim(a)
    BY <2>2 DEF AppendClaim, writeVars, Reader
  <2>3. CASE AppendCitation(a)
    BY <2>3 DEF AppendCitation, writeVars, Reader
  <2> QED
    BY <1>3, <2>1, <2>2, <2>3 DEF AuthorStep
<1>4. ASSUME NEW r \in Reader, ReaderStep(r) PROVE LedgerTypeOK'
  <2> USE DEF writeVars, authorVars
  <2>1. CASE ReadArtifacts(r)
    <3>1. Len(artifacts) \in Nat /\ 1..(2 * Len(artifacts)) \in SUBSET Nat
      OBVIOUS
    <3>2. artifactsSeen' \in [Reader -> Nat] /\ todo' \in [Reader -> SUBSET Nat]
      BY <2>1, <3>1 DEF ReadArtifacts
    <3>3. UNCHANGED <<writeVars, authorVars, exports, claimsSeen, citationsSeen, errors>>
      BY <2>1 DEF ReadArtifacts
    <3>4. rpc' = [rpc EXCEPT ![r] = "hashing"] \/ rpc' = [rpc EXCEPT ![r] = "claims"]
      BY <2>1 DEF ReadArtifacts
    <3> QED
      BY <3>2, <3>3, <3>4
  <2>2. CASE ReadClaims(r)
    BY <2>2 DEF ReadClaims
  <2>3. CASE ReadCitations(r)
    BY <2>3 DEF ReadCitations
  <2>4. ASSUME NEW k \in todo[r], HashRow(r, k) \/ GroundClaim(r, k) PROVE LedgerTypeOK'
    BY <2>4 DEF HashRow, GroundClaim
  <2>5. CASE HashingEnds(r)
    <3>1. {i \in 1..claimsSeen[r] : evidence[claims[i]] \in Registered(artifactsSeen[r])} \in SUBSET Nat
      OBVIOUS
    <3>2. todo' \in [Reader -> SUBSET Nat] /\ errors' \subseteq Reader
      <4>1. \E S \in SUBSET Nat : todo' = todo \/ todo' = [todo EXCEPT ![r] = S]
        BY <2>5, <3>1 DEF HashingEnds
      <4>2. errors' = errors \/ errors' = errors \cup {r}
        BY <2>5 DEF HashingEnds
      <4> QED
        BY <4>1, <4>2
    <3>3. UNCHANGED <<writeVars, authorVars, exports, artifactsSeen, claimsSeen, citationsSeen>>
      BY <2>5 DEF HashingEnds
    <3>4. rpc' = [rpc EXCEPT ![r] = "done"] \/ rpc' = [rpc EXCEPT ![r] = "grounding"]
      BY <2>5 DEF HashingEnds
    <3> QED
      BY <3>2, <3>3, <3>4
  <2>6. CASE GateEnds(r)
    BY <2>6 DEF GateEnds
  <2> QED
    BY <1>4, <2>1, <2>2, <2>3, <2>4, <2>5, <2>6 DEF ReaderStep
<1> QED
  BY <1>1, <1>2, <1>3, <1>4, StepsOfCallers

\* An append keeps what is there.
LEMMA AppendKeeps ==
    ASSUME NEW S, NEW s \in Seq(S), NEW x \in S, NEW t, t = s \/ t = Append(s, x)
    PROVE  Len(s) <= Len(t) /\ \A i \in 1..Len(s) : t[i] = s[i]
OBVIOUS

\* The ledgers only grow, an author does not change its mind, and a caller's
\* steps leave the others' state alone.
LEMMA RunGrows ==
    ASSUME LedgerTypeOK, [Next]_vars
    PROVE  /\ Len(artifacts) <= Len(artifacts') /\ Len(claims) <= Len(claims')
           /\ Len(citations) <= Len(citations')
           /\ \A i \in 1..Len(artifacts) : artifacts'[i] = artifacts[i]
           /\ \A i \in 1..Len(claims) : claims'[i] = claims[i]
           /\ \A i \in 1..Len(citations) : citations'[i] = citations[i]
           /\ \A a \in Author : rpc[a] # "idle" =>
                  evidence'[a] = evidence[a] /\ quote'[a] = quote[a] /\ rpc'[a] # "idle"
           /\ exports' = exports
<1> USE DEF LedgerTypeOK
<1>1. CASE UNCHANGED vars
  BY <1>1 DEF vars, writeVars, authorVars, readVars
<1>2. ASSUME NEW w \in Writer, BundleStep(w)
      PROVE  /\ UNCHANGED <<authorVars, readVars>>
             /\ artifacts' = artifacts \/ artifacts' = Append(artifacts, w)
  BY <1>2 DEF BundleStep, BeginBundle, WriteFile, AppendRows
<1>3. ASSUME NEW a \in Author, AuthorStep(a)
      PROVE  /\ artifacts' = artifacts /\ exports' = exports
             /\ claims' = claims \/ claims' = Append(claims, a)
             /\ citations' = citations \/ citations' = Append(citations, a)
             /\ \A b \in Author : rpc[b] # "idle" =>
                    evidence'[b] = evidence[b] /\ quote'[b] = quote[b] /\ rpc'[b] # "idle"
  BY <1>3 DEF AuthorStep, CheckEvidence, AppendClaim, AppendCitation, writeVars, Reader
<1>4. ASSUME NEW r \in Reader, ReaderStep(r)
      PROVE  /\ UNCHANGED <<artifacts, authorVars, exports>>
             /\ \A b \in Author : rpc[b] # "idle" => rpc'[b] # "idle"
  BY <1>4 DEF ReaderStep, ReadArtifacts, ReadClaims, ReadCitations, HashRow, GroundClaim,
              HashingEnds, GateEnds, writeVars, Reader
<1>5. CASE \E w \in Writer : BundleStep(w)
  BY <1>2, <1>5, AppendKeeps DEF authorVars, readVars
<1>6. CASE \E a \in Author : AuthorStep(a)
  <2>1. PICK a \in Author : AuthorStep(a)
    BY <1>6
  <2>2. Len(claims) <= Len(claims') /\ \A i \in 1..Len(claims) : claims'[i] = claims[i]
    <3>1. claims' = claims \/ claims' = Append(claims, a)
      BY <1>3, <2>1
    <3> QED
      BY <3>1, AppendKeeps
  <2>3. Len(citations) <= Len(citations') /\ \A i \in 1..Len(citations) : citations'[i] = citations[i]
    BY <1>3, <2>1, AppendKeeps
  <2> QED
    BY <1>3, <2>1, <2>2, <2>3
<1>7. CASE \E r \in Reader : ReaderStep(r)
  BY <1>4, <1>7 DEF authorVars
<1> QED
  BY <1>1, <1>5, <1>6, <1>7, StepsOfCallers

-----------------------------------------------------------------------------
\* Bundles.

\* Once its rows are there, a bundle's files are its own.
LEMMA BundlesStandStep ==
    ASSUME Reuse = FALSE, LedgerAssumption, LedgerTypeOK, BundlesStand, [Next]_vars
    PROVE  BundlesStand'
<1> USE DEF LedgerTypeOK, BundlesStand
<1>1. CASE UNCHANGED writeVars
  BY <1>1 DEF writeVars
<1>2. ASSUME NEW w \in Writer, NEW id \in CaptureId, BeginBundle(w, id) PROVE BundlesStand'
  BY <1>2 DEF BeginBundle, LedgerAssumption
<1>3. ASSUME NEW w \in Writer, WriteFile(w) PROVE BundlesStand'
  <2>1. captureId[w] \in CaptureId /\ UNCHANGED <<captureId, artifacts>>
    <3>1. wpc[w] # "idle"
      BY <1>3 DEF WriteFile
    <3>2. UNCHANGED <<captureId, artifacts>>
      BY <1>3 DEF WriteFile
    <3>3. captureId[w] # NoId
      BY <3>1
    <3>4. captureId[w] \in CaptureId \cup {NoId}
      OBVIOUS
    <3> QED
      BY <3>2, <3>3, <3>4
  <2>2. \A v \in Writer : v # w =>
            /\ wpc'[v] = wpc[v]
            /\ captureId[v] # NoId =>
                   /\ disk'[<<captureId[v], "metadata">>] = disk[<<captureId[v], "metadata">>]
                   /\ disk'[<<captureId[v], "body">>] = disk[<<captureId[v], "body">>]
    BY <1>3, <2>1 DEF WriteFile, File
  <2>3. wpc[w] = "metadata" => wpc'[w] = "body" /\ disk'[<<captureId[w], "metadata">>] = w
    BY <1>3, <2>1 DEF WriteFile, File
  <2>4. wpc[w] = "body" => /\ wpc'[w] = "rows" /\ disk'[<<captureId[w], "body">>] = w
                           /\ disk'[<<captureId[w], "metadata">>] = w
    BY <1>3, <2>1 DEF WriteFile, File
  <2>5. wpc[w] \in {"metadata", "body"}
    BY <1>3 DEF WriteFile
  <2>6. \A v \in Writer :
            /\ wpc'[v] # "idle" => captureId[v] # NoId
            /\ wpc'[v] \in {"body", "rows", "done"} => disk'[<<captureId[v], "metadata">>] = v
            /\ wpc'[v] \in {"rows", "done"} => disk'[<<captureId[v], "body">>] = v
    BY <2>1, <2>2, <2>3, <2>4, <2>5
  <2>7. \A i \in 1..Len(artifacts) : wpc'[artifacts[i]] = "done"
    <3>1. \A i \in 1..Len(artifacts) : artifacts[i] \in Writer /\ artifacts[i] # w
      BY <2>5
    <3> QED
      BY <2>2, <3>1
  <2>8. \A u, v \in Writer : captureId[v] = captureId[u] /\ captureId[u] # NoId => v = u
    OBVIOUS
  <2> QED
    BY <2>1, <2>6, <2>7, <2>8
<1>4. ASSUME NEW w \in Writer, AppendRows(w) PROVE BundlesStand'
  <2>1. \A i \in 1..Len(artifacts') : wpc'[artifacts'[i]] = "done"
    BY <1>4 DEF AppendRows
  <2> QED
    BY <1>4, <2>1 DEF AppendRows
<1>5. ASSUME NEW a \in Author, AuthorStep(a) PROVE UNCHANGED writeVars
  BY <1>5 DEF AuthorStep, CheckEvidence, AppendClaim, AppendCitation
<1>6. ASSUME NEW r \in Reader, ReaderStep(r) PROVE UNCHANGED writeVars
  BY <1>6 DEF ReaderStep, ReadArtifacts, ReadClaims, ReadCitations, HashRow, GroundClaim,
              HashingEnds, GateEnds
<1> QED
  BY <1>1, <1>2, <1>3, <1>4, <1>5, <1>6, StepsOfCallers DEF BundleStep, vars

\* Every registered row has its file, with the bytes on record.
LEMMA RowsIntact ==
    ASSUME LedgerTypeOK, BundlesStand, NEW k \in 1..(2 * Len(artifacts))
    PROVE  Intact(k)
<1>1. Len(artifacts) \in Nat
  BY DEF LedgerTypeOK
<1>2. (k + 1) \div 2 \in 1..Len(artifacts)
  BY <1>1, RowsOfBundles
<1>3. RowWriter(k) \in Writer /\ wpc[RowWriter(k)] = "done"
  BY <1>2 DEF LedgerTypeOK, BundlesStand, RowWriter
<1> QED
  BY <1>3 DEF Intact, RowFile, BundlesStand

\* A registered body has the bytes on record.
LEMMA BodiesStand ==
    ASSUME LedgerTypeOK, BundlesStand, NEW w \in Registered(Len(artifacts))
    PROVE  w \in Writer /\ disk[<<captureId[w], "body">>] = w
<1>1. PICK i \in 1..Len(artifacts) : w = artifacts[i]
  BY DEF Registered
<1>2. w \in Writer
  BY <1>1 DEF LedgerTypeOK
<1>3. wpc[w] = "done"
  BY <1>1 DEF BundlesStand
<1> QED
  BY <1>2, <1>3 DEF BundlesStand

\* What is registered stays registered.
LEMMA RegisteredGrows ==
    ASSUME LedgerTypeOK, [Next]_vars, NEW n \in 0..Len(artifacts)
    PROVE  Registered(n)' = Registered(n) /\ Registered(n) \subseteq Registered(Len(artifacts))'
<1>1. Len(artifacts) <= Len(artifacts') /\ \A i \in 1..Len(artifacts) : artifacts'[i] = artifacts[i]
  BY RunGrows
<1>2. Len(artifacts) \in Nat /\ Len(artifacts') \in Nat
  BY LedgerTypeStep DEF LedgerTypeOK
<1> QED
  BY <1>1, <1>2 DEF Registered

-----------------------------------------------------------------------------
\* Authors.

\* Claims cite what is registered; nobody claims or cites twice.
LEMMA AuthorsKnownStep ==
    ASSUME LedgerAssumption, LedgerTypeOK, AuthorsKnown, [Next]_vars
    PROVE  AuthorsKnown'
<1> USE DEF LedgerTypeOK
<1>1. Len(artifacts) \in Nat /\ Len(claims) \in Nat /\ Len(citations) \in Nat
  OBVIOUS
<1>2. Registered(Len(artifacts)) \subseteq Registered(Len(artifacts))'
  <2>1. Len(artifacts) \in 0..Len(artifacts)
    BY <1>1
  <2> QED
    BY <2>1, RegisteredGrows
<1>3. CASE UNCHANGED <<authorVars, rpc>>
  BY <1>2, <1>3 DEF AuthorsKnown, authorVars, Registered
<1>4. ASSUME NEW w \in Writer, BundleStep(w) PROVE UNCHANGED <<authorVars, rpc>>
  BY <1>4 DEF BundleStep, BeginBundle, WriteFile, AppendRows, readVars
<1>5. ASSUME NEW a \in Author, NEW w \in Writer, NEW q \in Writer, CheckEvidence(a, w, q)
      PROVE  AuthorsKnown'
  <2>1. /\ rpc[a] = "idle" /\ rpc' = [rpc EXCEPT ![a] = "claiming"]
        /\ evidence' = [evidence EXCEPT ![a] = w] /\ w \in Registered(Len(artifacts))
        /\ UNCHANGED <<artifacts, claims, citations>>
    BY <1>5 DEF CheckEvidence, writeVars
  <2>2. \A b \in Author : rpc'[b] # "idle" => evidence'[b] \in Registered(Len(artifacts))
    BY <2>1 DEF AuthorsKnown, Reader
  <2>3. /\ \A i \in 1..Len(claims) : claims[i] \in Author /\ claims[i] # a
        /\ \A i \in 1..Len(citations) : citations[i] \in Author /\ citations[i] # a
    BY <2>1 DEF AuthorsKnown
  <2> QED
    <3>1. Registered(Len(artifacts))' = Registered(Len(artifacts))
      BY <2>1 DEF Registered
    <3>2. \A b \in Author : b # a => rpc'[b] = rpc[b]
      BY <2>1 DEF Reader
    <3>3. rpc'[a] = "claiming"
      BY <2>1 DEF Reader
    <3>4. \A i \in 1..Len(claims) : rpc'[claims[i]] \notin {"idle", "claiming"}
      BY <2>3, <3>2 DEF AuthorsKnown
    <3>5. \A i \in 1..Len(citations) : rpc'[citations[i]] \notin {"idle", "claiming", "citing"}
      BY <2>3, <3>2 DEF AuthorsKnown
    <3>6. \A b \in Author : rpc'[b] \notin {"idle", "claiming"} => \E i \in 1..Len(claims) : claims[i] = b
      BY <3>2, <3>3 DEF AuthorsKnown
    <3> QED
      BY <2>1, <2>2, <3>1, <3>4, <3>5, <3>6 DEF AuthorsKnown
<1>6. ASSUME NEW a \in Author, AppendClaim(a) PROVE AuthorsKnown'
  <2>1. \A i \in 1..Len(claims) : claims[i] # a
    BY <1>6 DEF AuthorsKnown, AppendClaim
  <2>2. /\ Len(claims') = Len(claims) + 1 /\ claims'[Len(claims) + 1] = a
        /\ \A i \in 1..Len(claims) : claims'[i] = claims[i] /\ claims[i] \in Author
        /\ \A i \in 1..Len(claims') : i \in 1..Len(claims) \/ i = Len(claims) + 1
    BY <1>6 DEF AppendClaim
  <2>3. /\ rpc[a] = "claiming" /\ rpc' = [rpc EXCEPT ![a] = "citing"]
        /\ UNCHANGED <<artifacts, citations, evidence>>
    BY <1>6 DEF AppendClaim, writeVars
  <2>4. \A b \in Author : rpc'[b] # "idle" => evidence'[b] \in Registered(Len(artifacts))'
    BY <2>3 DEF AuthorsKnown, Registered, Reader
  <2>5. \A i \in 1..Len(claims') : rpc'[claims'[i]] \notin {"idle", "claiming"}
    BY <1>1, <2>2, <2>3 DEF AuthorsKnown, Reader
  <2>6. \A i \in 1..Len(citations) : rpc'[citations[i]] \notin {"idle", "claiming", "citing"}
    BY <2>3 DEF AuthorsKnown, Reader
  <2>7. \A b \in Author : rpc'[b] \notin {"idle", "claiming"} => \E i \in 1..Len(claims') : claims'[i] = b
    <3> SUFFICES ASSUME NEW b \in Author, rpc'[b] \notin {"idle", "claiming"}
                 PROVE  \E i \in 1..Len(claims') : claims'[i] = b
      OBVIOUS
    <3>1. CASE b = a
      <4>1. Len(claims) + 1 \in 1..Len(claims')
        BY <1>1, <2>2
      <4> QED
        BY <2>2, <3>1, <4>1
    <3>2. CASE b # a
      <4>1. PICK i \in 1..Len(claims) : claims[i] = b
        BY <2>3, <3>2 DEF AuthorsKnown, Reader
      <4> QED
        BY <1>1, <2>2, <4>1
    <3> QED
      BY <3>1, <3>2
  <2>8. \A i, j \in 1..Len(claims') : claims'[i] = claims'[j] => i = j
    <3>1. \A i, j \in 1..Len(claims) : claims[i] = claims[j] => i = j
      BY DEF AuthorsKnown
    <3> HIDE DEF LedgerTypeOK
    <3> QED
      BY <2>1, <2>2, <3>1
  <2> QED
    BY <2>3, <2>4, <2>5, <2>6, <2>7, <2>8 DEF AuthorsKnown
<1>7. ASSUME NEW a \in Author, AppendCitation(a) PROVE AuthorsKnown'
  <2>1. \A i \in 1..Len(citations) : citations[i] # a
    BY <1>7 DEF AuthorsKnown, AppendCitation
  <2>2. /\ Len(citations') = Len(citations) + 1 /\ citations'[Len(citations) + 1] = a
        /\ \A i \in 1..Len(citations) : citations'[i] = citations[i] /\ citations[i] \in Author
        /\ \A i \in 1..Len(citations') : i \in 1..Len(citations) \/ i = Len(citations) + 1
    BY <1>7 DEF AppendCitation
  <2>3. /\ rpc[a] = "citing" /\ rpc' = [rpc EXCEPT ![a] = "artifacts"]
        /\ UNCHANGED <<artifacts, claims, evidence>>
    BY <1>7 DEF AppendCitation, writeVars
  <2>4. \A b \in Author : rpc'[b] # "idle" => evidence'[b] \in Registered(Len(artifacts))'
    BY <2>3 DEF AuthorsKnown, Registered, Reader
  <2>5. \A i \in 1..Len(citations') : rpc'[citations'[i]] \notin {"idle", "claiming", "citing"}
    BY <1>1, <2>2, <2>3 DEF AuthorsKnown, Reader
  <2>6. \A i \in 1..Len(claims) : rpc'[claims[i]] \notin {"idle", "claiming"}
    BY <2>3 DEF AuthorsKnown, Reader
  <2>7. \A b \in Author : rpc'[b] \notin {"idle", "claiming"} => \E i \in 1..Len(claims) : claims[i] = b
    BY <2>3 DEF AuthorsKnown, Reader
  <2>8. \A i, j \in 1..Len(citations') : citations'[i] = citations'[j] => i = j
    <3>1. \A i, j \in 1..Len(citations) : citations[i] = citations[j] => i = j
      BY DEF AuthorsKnown
    <3> HIDE DEF LedgerTypeOK
    <3> QED
      BY <2>1, <2>2, <3>1
  <2> QED
    BY <2>3, <2>4, <2>5, <2>6, <2>7, <2>8 DEF AuthorsKnown
<1>8. ASSUME NEW r \in Reader, ReaderStep(r) PROVE AuthorsKnown'
  <2>1. /\ UNCHANGED <<artifacts, authorVars>>
        /\ \A b \in Reader : rpc'[b] = rpc[b] \/
               {rpc[b], rpc'[b]} \cap {"idle", "claiming", "citing"} = {}
    BY <1>8 DEF ReaderStep, ReadArtifacts, ReadClaims, ReadCitations, HashRow, GroundClaim,
                HashingEnds, GateEnds, writeVars
  <2>2. \A i \in 1..Len(claims) : claims[i] \in Reader
    BY DEF Reader
  <2>3. \A i \in 1..Len(citations) : citations[i] \in Reader
    BY DEF Reader
  <2>4. Registered(Len(artifacts))' = Registered(Len(artifacts))
    BY <2>1 DEF Registered
  <2>5. UNCHANGED <<claims, citations, evidence>>
    BY <2>1 DEF authorVars
  <2> QED
    <3>1. \A b \in Author : /\ rpc'[b] # "idle" => rpc[b] # "idle"
                            /\ rpc'[b] \notin {"idle", "claiming"} => rpc[b] \notin {"idle", "claiming"}
      BY <2>1 DEF Reader
    <3>2. \A i \in 1..Len(claims) : rpc'[claims[i]] \notin {"idle", "claiming"}
      BY <2>1, <2>2 DEF AuthorsKnown
    <3>3. \A i \in 1..Len(citations) : rpc'[citations[i]] \notin {"idle", "claiming", "citing"}
      BY <2>1, <2>3 DEF AuthorsKnown
    <3> HIDE DEF LedgerTypeOK
    <3>4. \A b \in Author : rpc'[b] # "idle" => evidence'[b] \in Registered(Len(artifacts))'
      <4>1. \A b \in Author : rpc[b] # "idle" => evidence[b] \in Registered(Len(artifacts))
        BY DEF AuthorsKnown
      <4> QED
        BY <2>4, <2>5, <3>1, <4>1
    <3>5. \A b \in Author : rpc'[b] \notin {"idle", "claiming"} => \E i \in 1..Len(claims) : claims[i] = b
      <4>1. \A b \in Author : rpc[b] \notin {"idle", "claiming"} => \E i \in 1..Len(claims) : claims[i] = b
        BY DEF AuthorsKnown
      <4> QED
        BY <3>1, <4>1
    <3>6. /\ \A i, j \in 1..Len(claims) : claims[i] = claims[j] => i = j
          /\ \A i, j \in 1..Len(citations) : citations[i] = citations[j] => i = j
      BY DEF AuthorsKnown
    <3> QED
      BY <2>5, <3>2, <3>3, <3>4, <3>5, <3>6 DEF AuthorsKnown
<1>9. CASE UNCHANGED vars
  BY <1>3, <1>9 DEF vars, readVars
<1> QED
  BY <1>3, <1>4, <1>5, <1>6, <1>7, <1>8, <1>9, StepsOfCallers DEF AuthorStep

-----------------------------------------------------------------------------
\* Readers.

\* What a reader has read stays as it was read.
LEMMA ReadStays ==
    ASSUME LedgerTypeOK, AuthorsKnown, ReadSoFar, [Next]_vars, NEW r \in Reader,
           artifactsSeen'[r] = artifactsSeen[r], claimsSeen'[r] = claimsSeen[r],
           citationsSeen'[r] = citationsSeen[r]
    PROVE  /\ LedgersMatch(r)' = LedgersMatch(r)
           /\ TooFewClaims(r)' = TooFewClaims(r)
           /\ \A i \in 1..claimsSeen[r] :
                  /\ claims'[i] = claims[i] /\ quote'[claims[i]] = quote[claims[i]]
                  /\ evidence'[claims[i]] = evidence[claims[i]]
<1>1. /\ Len(artifacts) \in Nat /\ Len(claims) \in Nat /\ Len(citations) \in Nat
      /\ artifactsSeen[r] \in 0..Len(artifacts)
      /\ claimsSeen[r] \in 0..Len(claims) /\ citationsSeen[r] \in 0..Len(citations)
  BY DEF LedgerTypeOK, ReadSoFar, SeenBy
<1>2. \A i \in 1..claimsSeen[r] :
          /\ claims'[i] = claims[i] /\ quote'[claims[i]] = quote[claims[i]]
          /\ evidence'[claims[i]] = evidence[claims[i]]
  <2> SUFFICES ASSUME NEW i \in 1..claimsSeen[r]
               PROVE  /\ claims'[i] = claims[i] /\ quote'[claims[i]] = quote[claims[i]]
                      /\ evidence'[claims[i]] = evidence[claims[i]]
    OBVIOUS
  <2>1. i \in 1..Len(claims)
    BY <1>1
  <2>2. claims[i] \in Author /\ rpc[claims[i]] # "idle"
    BY <2>1 DEF LedgerTypeOK, AuthorsKnown
  <2> QED
    BY <2>1, <2>2, RunGrows
<1>3. \A i \in 1..citationsSeen[r] :
          citations'[i] = citations[i] /\ evidence'[citations[i]] = evidence[citations[i]]
  <2> SUFFICES ASSUME NEW i \in 1..citationsSeen[r]
               PROVE  citations'[i] = citations[i] /\ evidence'[citations[i]] = evidence[citations[i]]
    OBVIOUS
  <2>1. i \in 1..Len(citations)
    BY <1>1
  <2>2. citations[i] \in Author /\ rpc[citations[i]] # "idle"
    BY <2>1 DEF LedgerTypeOK, AuthorsKnown
  <2> QED
    BY <2>1, <2>2, RunGrows
<1>4. PICK n \in 0..Len(artifacts) : n = artifactsSeen[r]
  BY <1>1
<1>5. Registered(artifactsSeen[r])' = Registered(artifactsSeen[r])
  BY <1>4, RegisteredGrows DEF Registered
<1>6. Cited(citationsSeen[r])' = Cited(citationsSeen[r])
  BY <1>3 DEF Cited
<1>7. \A a \in Cited(citationsSeen[r]) : evidence'[a] = evidence[a]
  BY <1>3 DEF Cited
<1>8. LedgersMatch(r)' = LedgersMatch(r)
  BY <1>2, <1>5, <1>6, <1>7 DEF LedgersMatch
<1> QED
  BY <1>2, <1>8 DEF TooFewClaims

\* The steps of others, as a reader sees them.
LEMMA OthersSteps ==
    ASSUME LedgerTypeOK, [Next]_vars, NEW r \in Reader
    PROVE  \/ ReaderStep(r)
           \/ r \in Author /\ AuthorStep(r)
           \/ /\ rpc'[r] = rpc[r] /\ todo'[r] = todo[r]
              /\ artifactsSeen'[r] = artifactsSeen[r] /\ claimsSeen'[r] = claimsSeen[r]
              /\ citationsSeen'[r] = citationsSeen[r] /\ (r \in errors' <=> r \in errors)
<1> USE DEF LedgerTypeOK
<1>1. CASE UNCHANGED vars
  BY <1>1 DEF vars, readVars
<1>2. ASSUME NEW w \in Writer, BundleStep(w) PROVE UNCHANGED readVars
  BY <1>2 DEF BundleStep, BeginBundle, WriteFile, AppendRows
<1>3. ASSUME NEW a \in Author, AuthorStep(a), a # r
      PROVE  /\ rpc'[r] = rpc[r]
             /\ UNCHANGED <<todo, artifactsSeen, claimsSeen, citationsSeen, errors>>
  BY <1>3 DEF AuthorStep, CheckEvidence, AppendClaim, AppendCitation, Reader
<1>4. ASSUME NEW s \in Reader, ReaderStep(s), s # r
      PROVE  /\ rpc'[r] = rpc[r] /\ todo'[r] = todo[r]
             /\ artifactsSeen'[r] = artifactsSeen[r] /\ claimsSeen'[r] = claimsSeen[r]
             /\ citationsSeen'[r] = citationsSeen[r] /\ (r \in errors' <=> r \in errors)
  BY <1>4 DEF ReaderStep, ReadArtifacts, ReadClaims, ReadCitations, HashRow, GroundClaim,
              HashingEnds, GateEnds
<1> QED
  BY <1>1, <1>2, <1>3, <1>4, StepsOfCallers DEF readVars

\* A reader's steps, one at a time.
LEMMA ReadSoFarStep ==
    ASSUME LedgerAssumption, LedgerTypeOK, AuthorsKnown, ReadSoFar, [Next]_vars
    PROVE  ReadSoFar'
<1> SUFFICES ASSUME NEW r \in Reader PROVE SeenBy(r)'
  BY DEF ReadSoFar
<1>1. /\ Len(artifacts) \in Nat /\ Len(claims) \in Nat /\ Len(citations) \in Nat
      /\ Len(artifacts') \in Nat /\ Len(claims') \in Nat /\ Len(citations') \in Nat
      /\ artifactsSeen[r] \in Nat /\ claimsSeen[r] \in Nat /\ citationsSeen[r] \in Nat
  BY LedgerTypeStep DEF LedgerTypeOK
<1>2. /\ Len(artifacts) <= Len(artifacts') /\ Len(claims) <= Len(claims')
      /\ Len(citations) <= Len(citations') /\ exports' = exports
      /\ \A i \in 1..Len(claims) : claims'[i] = claims[i]
  BY RunGrows
<1>3. SeenBy(r)
  BY DEF ReadSoFar
<1>4. \A i \in 1..claimsSeen[r] : i \in 1..Len(claims) /\ claims'[i] = claims[i]
  BY <1>1, <1>2, <1>3 DEF SeenBy
<1>5. CASE /\ rpc'[r] = rpc[r] /\ todo'[r] = todo[r]
           /\ artifactsSeen'[r] = artifactsSeen[r] /\ claimsSeen'[r] = claimsSeen[r]
           /\ citationsSeen'[r] = citationsSeen[r]
  BY <1>1, <1>2, <1>3, <1>4, <1>5 DEF SeenBy
<1>6. CASE r \in Author /\ AuthorStep(r)
  <2>1. /\ UNCHANGED <<todo, artifactsSeen, claimsSeen, citationsSeen>>
        /\ rpc'[r] \in {"claiming", "citing", "artifacts"}
    BY <1>6 DEF AuthorStep, CheckEvidence, AppendClaim, AppendCitation, LedgerTypeOK
  <2>2. r \notin exports
    BY <1>6 DEF LedgerTypeOK, LedgerAssumption
  <2> QED
    BY <1>1, <1>2, <1>3, <2>1, <2>2 DEF SeenBy
<1>7. CASE ReaderStep(r)
  <2>1. UNCHANGED <<artifacts, claims, citations>>
    BY <1>7 DEF ReaderStep, ReadArtifacts, ReadClaims, ReadCitations, HashRow, GroundClaim,
                HashingEnds, GateEnds, writeVars, authorVars
  <2> USE DEF LedgerTypeOK
  <2>2. CASE ReadArtifacts(r)
    <3>1. artifactsSeen'[r] = Len(artifacts) /\ UNCHANGED <<claimsSeen, citationsSeen>>
      BY <2>2 DEF ReadArtifacts
    <3>2. r \in exports => r \notin Author
      BY DEF LedgerAssumption
    <3>3. \/ r \in exports /\ rpc'[r] = "hashing" /\ todo'[r] = 1..(2 * Len(artifacts))
          \/ r \notin exports /\ rpc'[r] = "claims"
      BY <2>2 DEF ReadArtifacts
    <3> QED
      BY <1>1, <1>2, <1>3, <2>1, <3>1, <3>2, <3>3 DEF SeenBy
  <2>3. CASE ReadClaims(r)
    <3>1. /\ rpc[r] = "claims" /\ rpc'[r] = "citations" /\ claimsSeen'[r] = Len(claims)
          /\ UNCHANGED <<artifactsSeen, citationsSeen, todo>>
      BY <2>3 DEF ReadClaims
    <3>2. r \in Author => \E i \in 1..Len(claims) : claims[i] = r
      BY <3>1 DEF AuthorsKnown
    <3> QED
      BY <1>1, <1>2, <1>3, <2>1, <3>1, <3>2 DEF SeenBy
  <2>4. CASE ReadCitations(r)
    <3>1. /\ rpc[r] = "citations" /\ rpc'[r] = "hashing" /\ citationsSeen'[r] = Len(citations)
          /\ UNCHANGED <<artifactsSeen, claimsSeen>> /\ todo'[r] = 1..(2 * artifactsSeen[r])
      BY <2>4 DEF ReadCitations
    <3> QED
      BY <1>1, <1>2, <1>3, <2>1, <3>1 DEF SeenBy
  <2>5. ASSUME NEW k \in todo[r], HashRow(r, k) \/ GroundClaim(r, k) PROVE SeenBy(r)'
    <3>1. /\ rpc[r] \in {"hashing", "grounding"} /\ todo'[r] \subseteq todo[r]
          /\ UNCHANGED <<rpc, artifactsSeen, claimsSeen, citationsSeen>>
      BY <2>5 DEF HashRow, GroundClaim
    <3> QED
      BY <1>1, <1>2, <1>3, <2>1, <3>1 DEF SeenBy
  <2>6. CASE HashingEnds(r)
    <3>1. UNCHANGED <<artifactsSeen, claimsSeen, citationsSeen>> /\ rpc[r] = "hashing"
      BY <2>6 DEF HashingEnds
    <3>2. CASE r \in exports
      BY <1>1, <1>2, <1>3, <2>1, <2>6, <3>1, <3>2 DEF SeenBy, HashingEnds
    <3>3. CASE r \notin exports
      <4>1. rpc'[r] = "grounding" /\ todo'[r] \subseteq 1..claimsSeen[r]
        BY <2>6, <3>3 DEF HashingEnds
      <4> QED
        BY <1>1, <1>2, <1>3, <2>1, <3>1, <3>3, <4>1 DEF SeenBy
    <3> QED
      BY <3>2, <3>3
  <2>7. CASE GateEnds(r)
    <3>1. /\ UNCHANGED <<artifactsSeen, claimsSeen, citationsSeen, todo>> /\ todo[r] = {}
          /\ rpc[r] = "grounding" /\ rpc'[r] = "done"
      BY <2>7 DEF GateEnds
    <3> QED
      BY <1>1, <1>2, <1>3, <2>1, <3>1 DEF SeenBy
  <2> QED
    BY <1>7, <2>2, <2>3, <2>4, <2>5, <2>6, <2>7 DEF ReaderStep
<1> QED
  BY <1>5, <1>6, <1>7, OthersSteps

\* A misquotation stays in the ledger.
LEMMA MisquotedStays ==
    ASSUME LedgerTypeOK, AuthorsKnown, [Next]_vars, Misquoted
    PROVE  Misquoted'
<1>1. PICK i \in 1..Len(claims) : quote[claims[i]] # evidence[claims[i]]
  BY DEF Misquoted
<1>2. claims[i] \in Author /\ rpc[claims[i]] # "idle"
  BY DEF LedgerTypeOK, AuthorsKnown
<1>3. claims'[i] = claims[i] /\ quote'[claims[i]] = quote[claims[i]]
      /\ evidence'[claims[i]] = evidence[claims[i]] /\ Len(claims) <= Len(claims')
  BY <1>2, RunGrows
<1>4. i \in 1..Len(claims')
  BY <1>3, LedgerTypeStep DEF LedgerTypeOK
<1> QED
  BY <1>1, <1>3, <1>4 DEF Misquoted

\* A gate's checks, one at a time.
LEMMA VerdictsKnownStep ==
    ASSUME LedgerAssumption, LedgerTypeOK, BundlesStand, AuthorsKnown, ReadSoFar, VerdictsKnown,
           [Next]_vars
    PROVE  VerdictsKnown'
<1> SUFFICES ASSUME NEW r \in Reader PROVE VerdictOf(r)'
  BY DEF VerdictsKnown
<1>1. VerdictOf(r) /\ SeenBy(r) /\ exports' = exports
  BY RunGrows DEF VerdictsKnown, ReadSoFar
<1>2. Misquoted => Misquoted'
  BY MisquotedStays
<1>3. ASSUME artifactsSeen'[r] = artifactsSeen[r], claimsSeen'[r] = claimsSeen[r],
             citationsSeen'[r] = citationsSeen[r]
      PROVE  /\ LedgersMatch(r)' = LedgersMatch(r) /\ TooFewClaims(r)' = TooFewClaims(r)
             /\ \A i \in 1..claimsSeen[r] :
                    /\ claims'[i] = claims[i] /\ quote'[claims[i]] = quote[claims[i]]
                    /\ evidence'[claims[i]] = evidence[claims[i]]
  BY <1>3, ReadStays
<1>4. CASE /\ rpc'[r] = rpc[r] /\ todo'[r] = todo[r]
           /\ artifactsSeen'[r] = artifactsSeen[r] /\ claimsSeen'[r] = claimsSeen[r]
           /\ citationsSeen'[r] = citationsSeen[r] /\ (r \in errors' <=> r \in errors)
  BY <1>1, <1>2, <1>3, <1>4 DEF VerdictOf
<1>5. CASE r \in Author /\ AuthorStep(r)
  <2>1. /\ UNCHANGED errors /\ rpc[r] \in {"idle", "claiming", "citing"}
        /\ rpc'[r] \in {"claiming", "citing", "artifacts"}
    BY <1>5 DEF AuthorStep, CheckEvidence, AppendClaim, AppendCitation, LedgerTypeOK
  <2> QED
    BY <1>1, <2>1 DEF VerdictOf
<1>6. CASE ReadArtifacts(r) \/ ReadClaims(r) \/ ReadCitations(r)
  <2>1. /\ UNCHANGED errors /\ rpc[r] \in {"artifacts", "claims", "citations"}
        /\ rpc'[r] \in {"claims", "citations", "hashing"}
    BY <1>6 DEF ReadArtifacts, ReadClaims, ReadCitations, LedgerTypeOK
  <2> QED
    BY <1>1, <2>1 DEF VerdictOf
<1>7. ASSUME NEW k \in todo[r], HashRow(r, k) PROVE VerdictOf(r)'
  <2>1. rpc[r] = "hashing" /\ rpc' = rpc /\ errors' = IF Intact(k) THEN errors ELSE errors \cup {r}
    BY <1>7 DEF HashRow
  <2>2. k \in 1..(2 * Len(artifacts))
    BY <1>1, <2>1 DEF SeenBy, LedgerTypeOK
  <2>3. errors' = errors
    BY <2>1, <2>2, RowsIntact
  <2> QED
    BY <1>1, <2>1, <2>3 DEF VerdictOf
<1>8. ASSUME NEW k \in todo[r], GroundClaim(r, k) PROVE VerdictOf(r)'
  <2>1. /\ rpc[r] = "grounding" /\ rpc' = rpc
        /\ todo'[r] = todo[r] \ {k}
        /\ errors' = IF Grounded(claims[k]) THEN errors ELSE errors \cup {r}
        /\ UNCHANGED <<claims, quote, evidence, artifactsSeen, claimsSeen, citationsSeen>>
    BY <1>8 DEF GroundClaim, authorVars, LedgerTypeOK
  <2>2. k \in 1..claimsSeen[r] /\ k \in 1..Len(claims) /\ r \notin exports
    BY <1>1, <2>1 DEF SeenBy, LedgerTypeOK
  <2>3. claims[k] \in Author /\ evidence[claims[k]] \in Registered(Len(artifacts))
    <3>1. claims[k] \in Author
      BY <2>2 DEF LedgerTypeOK
    <3>2. rpc[claims[k]] # "idle"
      BY <2>2 DEF AuthorsKnown
    <3> QED
      BY <3>1, <3>2 DEF AuthorsKnown
  <2>4. Grounded(claims[k]) <=> quote[claims[k]] = evidence[claims[k]]
    BY <2>3, BodiesStand DEF Grounded
  <2>5. CASE Grounded(claims[k])
    BY <1>1, <1>2, <1>3, <2>1, <2>2, <2>4, <2>5 DEF VerdictOf
  <2>6. CASE ~Grounded(claims[k])
    <3>1. Misquoted
      BY <2>2, <2>4, <2>6 DEF Misquoted
    <3> QED
      BY <1>2, <2>1, <2>2, <2>6, <3>1, <1>1 DEF VerdictOf
  <2> QED
    BY <2>5, <2>6
<1>9. CASE HashingEnds(r)
  <2>1. /\ rpc[r] = "hashing" /\ UNCHANGED <<claims, quote, evidence, artifactsSeen, claimsSeen, citationsSeen>>
        /\ r \notin errors
    BY <1>1, <1>9 DEF HashingEnds, authorVars, VerdictOf
  <2>2. CASE r \in exports
    BY <1>1, <1>9, <2>1, <2>2 DEF HashingEnds, VerdictOf
  <2>3. CASE r \notin exports
    <3>1. /\ rpc'[r] = "grounding"
          /\ errors' = IF LedgersMatch(r) /\ ~TooFewClaims(r) THEN errors ELSE errors \cup {r}
          /\ todo'[r] = {i \in 1..claimsSeen[r] : evidence[claims[i]] \in Registered(artifactsSeen[r])}
      BY <1>9, <2>3 DEF HashingEnds, LedgerTypeOK
    <3>2. LedgersMatch(r) => todo'[r] = 1..claimsSeen[r]
      BY <3>1 DEF LedgersMatch
    <3>3. LedgersMatch(r)' = LedgersMatch(r) /\ TooFewClaims(r)' = TooFewClaims(r)
      BY <1>3, <2>1
    <3>4. CASE LedgersMatch(r) /\ ~TooFewClaims(r)
      BY <1>1, <2>1, <2>3, <3>1, <3>2, <3>4 DEF VerdictOf
    <3>5. CASE ~(LedgersMatch(r) /\ ~TooFewClaims(r))
      <4>1. r \in errors' /\ (~LedgersMatch(r)' \/ TooFewClaims(r)')
        BY <3>1, <3>3, <3>5
      <4> QED
        BY <1>1, <2>3, <3>1, <4>1 DEF VerdictOf
    <3> QED
      BY <3>4, <3>5
  <2> QED
    BY <2>2, <2>3
<1>10. CASE GateEnds(r)
  <2>1. /\ rpc[r] = "grounding" /\ rpc'[r] = "done"
        /\ UNCHANGED <<claims, quote, evidence, artifactsSeen, claimsSeen, citationsSeen, todo, errors>>
    BY <1>10 DEF GateEnds, authorVars, LedgerTypeOK
  <2> QED
    BY <1>1, <1>2, <1>3, <2>1 DEF VerdictOf
<1> QED
  BY <1>4, <1>5, <1>6, <1>7, <1>8, <1>9, <1>10, OthersSteps DEF ReaderStep

-----------------------------------------------------------------------------
\* What holds of every run directory.

\* An empty run directory.
LEMMA LedgerInitInv ==
    ASSUME LedgerAssumption, Init
    PROVE  LedgerInv
<1> USE DEF Init
<1>1. LedgerTypeOK
  BY DEF LedgerTypeOK, Reader
<1>2. Len(artifacts) = 0 /\ Len(claims) = 0 /\ Len(citations) = 0
  OBVIOUS
<1>3. BundlesStand /\ AuthorsKnown
  BY <1>2 DEF BundlesStand, AuthorsKnown, Reader
<1>4. ReadSoFar
  BY <1>2 DEF ReadSoFar, SeenBy, Reader, LedgerAssumption
<1>5. VerdictsKnown
  BY DEF VerdictsKnown, VerdictOf, Reader
<1> QED
  BY <1>1, <1>3, <1>4, <1>5 DEF LedgerInv

\* Without shared capture ids the run directory is always in order.
THEOREM LedgerInvariant ==
    ASSUME Reuse = FALSE
    PROVE  Spec => []LedgerInv
<1>1. Init => LedgerInv
  BY LedgerInitInv, LedgerAssumption
<1>2. LedgerInv /\ [Next]_vars => LedgerInv'
  BY LedgerTypeStep, BundlesStandStep, AuthorsKnownStep, ReadSoFarStep, VerdictsKnownStep,
     LedgerAssumption DEF LedgerInv
<1> QED
  BY <1>1, <1>2, PTL DEF Spec

\* Every registered file is there with the hash on record, no citation is
\* without its claim and no claim without its artifact, at every moment, and
\* a bundle that is exported meanwhile verifies.
THEOREM LedgersAreBacked ==
    ASSUME Reuse = FALSE
    PROVE  Spec => []LedgersBacked
<1>1. LedgerInv => LedgersBacked
  <2> SUFFICES ASSUME LedgerInv PROVE LedgersBacked
    OBVIOUS
  <2> USE DEF LedgerInv
  <2>1. \A k \in 1..(2 * Len(artifacts)) : Intact(k)
    BY RowsIntact
  <2>2. ASSUME NEW i \in 1..Len(citations)
        PROVE  citations[i] \in {claims[j] : j \in 1..Len(claims)}
    <3>1. citations[i] \in Author
      BY DEF LedgerTypeOK
    <3>2. rpc[citations[i]] \notin {"idle", "claiming"}
      BY DEF AuthorsKnown
    <3>3. \E j \in 1..Len(claims) : claims[j] = citations[i]
      BY <3>1, <3>2 DEF AuthorsKnown
    <3> QED
      BY <3>3
  <2>3. ASSUME NEW i \in 1..Len(claims)
        PROVE  evidence[claims[i]] \in Registered(Len(artifacts))
    <3>1. claims[i] \in Author
      BY DEF LedgerTypeOK
    <3>2. rpc[claims[i]] # "idle"
      BY DEF AuthorsKnown
    <3> QED
      BY <3>1, <3>2 DEF AuthorsKnown
  <2>4. \A r \in exports : rpc[r] = "done" => SaysOk(r)
    BY DEF LedgerTypeOK, VerdictsKnown, VerdictOf, SaysOk, Reader
  <2> QED
    BY <2>1, <2>2, <2>3, <2>4 DEF LedgersBacked, Cited
<1>2. Spec => []LedgerInv
  BY LedgerInvariant
<1> QED
  BY <1>1, <1>2, PTL

\* When a gate answers ok, every claim it has judged quotes the bytes on
\* record, and an author's gate has judged the author's claim.
THEOREM OkIsGrounded ==
    ASSUME Reuse = FALSE
    PROVE  Spec => []OkMeansGrounded
<1>1. LedgerInv => OkMeansGrounded
  <2> SUFFICES ASSUME LedgerInv, NEW r \in Reader \ exports, SaysOk(r)
               PROVE  /\ \A i \in 1..claimsSeen[r] : quote[claims[i]] = evidence[claims[i]]
                      /\ r \in Author => \E i \in 1..claimsSeen[r] : claims[i] = r
    BY DEF OkMeansGrounded
  <2>1. rpc[r] = "done" /\ r \notin errors
    BY DEF SaysOk
  <2>2. SeenBy(r) /\ VerdictOf(r)
    BY DEF LedgerInv, ReadSoFar, VerdictsKnown
  <2> QED
    BY <2>1, <2>2 DEF SeenBy, VerdictOf
<1>2. Spec => []LedgerInv
  BY LedgerInvariant
<1> QED
  BY <1>1, <1>2, PTL

\* With as many citations as claims, each claim has one: nobody claims or
\* cites twice.
LEMMA AllCited ==
    ASSUME LedgerInv, Len(citations) = Len(claims), NEW i \in 1..Len(claims)
    PROVE  claims[i] \in Cited(Len(citations))
<1> DEFINE n == Len(claims)
           Place(j) == CHOOSE k \in 1..n : claims[k] = citations[j]
           f == [j \in 1..n |-> Place(j)]
<1>1. n \in Nat
  BY DEF LedgerInv, LedgerTypeOK
<1>2. ASSUME NEW j \in 1..n PROVE Place(j) \in 1..n /\ claims[Place(j)] = citations[j]
  <2>1. citations[j] \in Author
    BY DEF LedgerInv, LedgerTypeOK
  <2>2. rpc[citations[j]] \notin {"idle", "claiming"}
    BY DEF LedgerInv, AuthorsKnown
  <2>3. \E k \in 1..n : claims[k] = citations[j]
    BY <2>1, <2>2 DEF LedgerInv, AuthorsKnown
  <2> QED
    BY <2>3
<1>3. \A j, k \in 1..n : citations[j] = citations[k] => j = k
  BY DEF LedgerInv, AuthorsKnown
<1>4. f \in Injection(1..n, 1..n)
  <2>1. f \in [1..n -> 1..n]
    BY <1>2
  <2>2. ASSUME NEW j \in 1..n, NEW k \in 1..n, f[j] = f[k] PROVE j = k
    <3>1. Place(j) = Place(k)
      BY <2>2
    <3>2. citations[j] = citations[k]
      BY <1>2, <3>1
    <3> QED
      BY <1>3, <3>2
  <2> HIDE DEF f
  <2> QED
    BY <2>1, <2>2 DEF Injection, IsInjective
<1>5. IsFiniteSet(1..n)
  BY <1>1, FS_Interval
<1>6. f \in Surjection(1..n, 1..n)
  BY <1>4, <1>5, FS_Injection
<1>7. PICK j \in 1..n : f[j] = i
  BY <1>6 DEF Surjection
<1>8. claims[i] = citations[j]
  BY <1>2, <1>7
<1> QED
  BY <1>8 DEF Cited

\* A gate that saw everything, with no claim half appended, refuses only for
\* a claim that misquotes its artifact or for want of claims.
THEOREM HonestRunsAccepted ==
    ASSUME Reuse = FALSE
    PROVE  Spec => []HonestRunAccepted
<1>1. LedgerInv => HonestRunAccepted
  <2> SUFFICES ASSUME LedgerInv, NEW r \in Reader \ exports,
                      rpc[r] = "done",
                      artifactsSeen[r] = Len(artifacts), claimsSeen[r] = Len(claims),
                      citationsSeen[r] = Len(citations), Len(citations) = Len(claims),
                      \A i \in 1..Len(claims) : quote[claims[i]] = evidence[claims[i]],
                      r \in Inspector => Len(claims) > 0
               PROVE  r \notin errors
    BY DEF HonestRunAccepted, SaysOk
  <2>1. \A i \in 1..Len(claims) : /\ claims[i] \in Cited(Len(citations))
                                  /\ evidence[claims[i]] \in Registered(Len(artifacts))
    <3> SUFFICES ASSUME NEW i \in 1..Len(claims)
                 PROVE  /\ claims[i] \in Cited(Len(citations))
                        /\ evidence[claims[i]] \in Registered(Len(artifacts))
      OBVIOUS
    <3>1. claims[i] \in Author
      BY DEF LedgerInv, LedgerTypeOK
    <3>2. rpc[claims[i]] # "idle"
      BY DEF LedgerInv, AuthorsKnown
    <3> QED
      BY <3>1, <3>2, AllCited DEF LedgerInv, AuthorsKnown
  <2>2. \A a \in Cited(Len(citations)) : evidence[a] \in Registered(Len(artifacts))
    <3> SUFFICES ASSUME NEW i \in 1..Len(citations)
                 PROVE  evidence[citations[i]] \in Registered(Len(artifacts))
      BY DEF Cited
    <3>1. citations[i] \in Author
      BY DEF LedgerInv, LedgerTypeOK
    <3>2. rpc[citations[i]] # "idle"
      BY DEF LedgerInv, AuthorsKnown
    <3> QED
      BY <3>1, <3>2 DEF LedgerInv, AuthorsKnown
  <2>3. LedgersMatch(r)
    BY <2>1, <2>2 DEF LedgersMatch
  <2>4. ~TooFewClaims(r) /\ ~Misquoted
    BY DEF TooFewClaims, Misquoted, LedgerInv, LedgerTypeOK
  <2> QED
    BY <2>3, <2>4 DEF LedgerInv, VerdictsKnown, VerdictOf
<1>2. Spec => []LedgerInv
  BY LedgerInvariant
<1> QED
  BY <1>1, <1>2, PTL

=============================================================================
