----------------------------- MODULE MemoryVault -----------------------------
(***************************************************************************)
(* Bridging the lessons of a run into the operator's vault of notes        *)
(* (acquisition-method-memory-bridge.ts).  A bridge reads the vault,       *)
(* renders five files from what it has read, and writes them one after the *)
(* other: the row in SYSTEM_DNA, the recipe, the frontier ledger, the      *)
(* bridge note, and the entry in LOG last.  Bridges may overlap and die.   *)
(***************************************************************************)
EXTENDS Naturals, Sequences, Functions

CONSTANTS
    Bridges,     \* calls of writeAcquisitionMethodMemoryBridge: [id, run, method, day]
    Missing

VARIABLES
    files,       \* the vault: own is the operator's text, by the runs that wrote
    bridge,      \* each call: pc, what it has read, the notes it still has to write
    logged,      \* calls whose entry was written
    rough        \* two calls overlapped, or one died in the middle of a file

vaultVars == <<files, bridge, logged, rough>>

Dna == <<"system_dna">>
Log == <<"operation_log">>
Recipe(b) == <<"method_recipe", b.method>>
Frontier(b) == <<"frontier_ledger", b.day>>
Note(b) == <<"bridge_note", b.day>>

\* The order of the notes.
NotesOf(b) == <<Dna, Recipe(b), Frontier(b), Note(b), Log>>
Paths == UNION {Range(NotesOf(b)) : b \in Bridges}

\* What marks a missing file is no text.
ASSUME VaultAssumption == Missing \notin [own : BOOLEAN, by : Seq({b.run : b \in Bridges})]

\* An empty file is read as an empty text, not as a missing one.
Empty == [own |-> FALSE, by |-> <<>>]
Fresh == [own |-> TRUE, by |-> <<>>]
OrDefault(text) == IF text = Missing THEN Fresh ELSE text

VaultInit ==
    /\ \E present \in SUBSET {Dna, Log} :
        files = [p \in Paths |-> IF p \in present THEN Fresh ELSE Missing]
    /\ bridge = [b \in Bridges |-> [pc |-> "idle", dna |-> Missing, log |-> Missing, left |-> {}]]
    /\ logged = {}
    /\ rough = FALSE

Active == {b \in Bridges : bridge[b].pc \notin {"idle", "done", "dead"}}

\* Mutant: the row is inserted whether it is there or not.
UpsertRow_Again(text, run) == [text EXCEPT !.by = Append(@, run)]

\* upsertSystemDnaRow
UpsertRow(text, run) == IF text.by # <<>> THEN text ELSE [text EXCEPT !.by = Append(@, run)]

\* appendOperationLog
AppendEntry(text, run) == [text EXCEPT !.by = Append(@, run)]

\* What is written to each of the files.
Rendered(b, path) ==
    CASE path = Dna -> UpsertRow(OrDefault(bridge[b].dna), b.run)
      [] path = Log -> AppendEntry(OrDefault(bridge[b].log), b.run)
      [] OTHER -> [own |-> TRUE, by |-> <<b.run>>]

\* The first of the notes that are left.
NextNote(b) == NotesOf(b)[CHOOSE i \in bridge[b].left : \A k \in bridge[b].left : i <= k]

-----------------------------------------------------------------------------
\* The operator gives the command: SYSTEM_DNA is read first,
ReadDna(b) ==
    /\ bridge[b].pc = "idle"
    /\ bridge' = [bridge EXCEPT ![b].pc = "read_log", ![b].dna = files[Dna]]
    /\ rough' = (rough \/ Active # {})
    /\ UNCHANGED <<files, logged>>

\* then LOG, from which its new text is made,
ReadLog(b) ==
    /\ bridge[b].pc = "read_log"
    /\ bridge' = [bridge EXCEPT ![b].pc = "read_notes", ![b].log = files[Log]]
    /\ UNCHANGED <<files, logged, rough>>

\* then the rest, to see which files change; nothing else is written.
ReadNotes(b) ==
    LET changed(path) == (IF path = Dna THEN bridge[b].dna ELSE files[path]) # Rendered(b, path)
    IN  /\ bridge[b].pc = "read_notes"
        /\ bridge' = [bridge EXCEPT ![b].pc = "write", ![b].left = {i \in 1..5 : changed(NotesOf(b)[i])}]
        /\ UNCHANGED <<files, logged, rough>>

\* writeFile opens the file, which empties it, and then writes the text.
Truncate(b) ==
    /\ bridge[b].pc = "write" /\ bridge[b].left # {}
    /\ files' = [files EXCEPT ![NextNote(b)] = Empty]
    /\ bridge' = [bridge EXCEPT ![b].pc = "fill"]
    /\ UNCHANGED <<logged, rough>>

Fill(b) ==
    LET path == NextNote(b)
    IN  /\ bridge[b].pc = "fill"
        /\ files' = [files EXCEPT ![path] = Rendered(b, path)]
        /\ bridge' = [bridge EXCEPT ![b].pc = "write", ![b].left = {i \in @ : NotesOf(b)[i] # path}]
        /\ logged' = IF path = Log THEN logged \cup {b} ELSE logged
        /\ UNCHANGED rough

BridgeEnds(b) ==
    /\ bridge[b].pc = "write" /\ bridge[b].left = {}
    /\ bridge' = [bridge EXCEPT ![b].pc = "done"]
    /\ UNCHANGED <<files, logged, rough>>

BridgeDies(b) ==
    /\ b \in Active
    /\ rough' = (rough \/ bridge[b].pc = "fill")
    /\ bridge' = [bridge EXCEPT ![b].pc = "dead"]
    /\ UNCHANGED <<files, logged>>

VaultNext ==
    \E b \in Bridges :
        ReadDna(b) \/ ReadLog(b) \/ ReadNotes(b) \/ Truncate(b) \/ Fill(b) \/ BridgeEnds(b) \/ BridgeDies(b)

-----------------------------------------------------------------------------
\* Bridges that follow one another, even if some die between two files and are
\* given again, keep the vault in order: the operator's texts stay, SYSTEM_DNA
\* has the row at most once, no entry of LOG is lost, and whoever reads an entry
\* finds the row, the recipe and the day's notes in place (that is why LOG is
\* written last).
VaultInOrder ==
    rough \/ \A p \in Paths : \/ \E b \in Active : bridge[b].pc = "fill" /\ NextNote(b) = p
                              \/ /\ files[p] # Missing => files[p].own
                                 /\ p = Dna /\ files[p] # Missing => Len(files[p].by) <= 1
                                 /\ p = Log => {b.run : b \in logged} = IF files[p] = Missing THEN {} ELSE Range(files[p].by)
                                 /\ \A b \in logged : p \in Range(NotesOf(b))
                                      => files[p] # Missing /\ files[p].by # <<>>

=============================================================================
