----------------------- MODULE DestinationRecovery ------------------------
(***************************************************************************)
(* destination-recovery-plan.ts and its command in cli.ts: the advice that *)
(* triages left in a run directory is collected into a plan, checked, and  *)
(* printed as commands, which the operator runs: one signs a browser       *)
(* profile in, the other opens the recovered link with that profile.       *)
(***************************************************************************)
EXTENDS DestinationDeepening, Selection

CONSTANTS
    Ledgers,     \* artifacts.jsonl: {} when unreadable, else {rows}; a row is
                 \* [valid, triage, inside, text, path]
    Walks,       \* the triage files a walk of raw/ and structured/ finds, in order
    Contents,    \* what a file may hold: [state, advice, samples, count]
    TriagePath,  \* paths of triage artifacts
    Apostrophed  \* urls with an apostrophe in them

LedgerRow == [valid : BOOLEAN, triage : BOOLEAN, inside : BOOLEAN, text : BOOLEAN, path : TriagePath]

ASSUME RecoveryAssumption ==
    /\ \A l \in Ledgers : Cardinality(l) <= 1 /\ l \subseteq Seq(LedgerRow)
    /\ Walks \subseteq Seq(LedgerRow)

VARIABLES
    ledger, walk, content,  \* the run directory
    profiles,               \* saved browser profiles
    flags,                  \* --only-check-ok and --check-profiles, when given
    recovery,               \* the items last printed, {} before that, else {items}
    opened                  \* links opened with a signed in profile

recoveryVars == <<ledger, walk, content, profiles, flags, recovery, opened>>

-----------------------------------------------------------------------------
(* Reading the run directory                                               *)

\* The text artifacts if there are any, else the others, each path once.
Preferred(rows) ==
    LET texts == {n \in DOMAIN rows : rows[n].text}
        preferred == IF texts = {} THEN DOMAIN rows ELSE texts
        first(n) == \A k \in preferred : rows[k].path = rows[n].path => n <= k
        kept == Chosen(rows, {n \in preferred : first(n)})
    IN  [n \in DOMAIN kept |-> kept[n].path]

\* The walk is taken when the ledger yields nothing.
TriageArtifacts ==
    LET rows == IF ledger = {} THEN <<>> ELSE CHOOSE rows \in ledger : TRUE
        listed == {n \in DOMAIN rows : rows[n].valid /\ rows[n].triage /\ rows[n].inside}
    IN  Preferred(IF listed = {} THEN walk ELSE Chosen(rows, listed))

\* Triages written before the advice was part of the summary are advised now.
Synthesized(summary) ==
    RecoveryAdvice(summary.samples, IF summary.count > 0 THEN summary.count ELSE Len(summary.samples))

AdviceOf(file) ==
    CASE file.state # "ok" -> {}
      [] file.state = "ok" /\ file.advice # {} -> file.advice
      [] OTHER -> Synthesized(file)

\* A profile is named after the host of the link it is for.
ASSUME AdviceAssumption ==
    \A c, d \in Contents : \A a \in AdviceOf(c), b \in AdviceOf(d) :
        /\ AdviceOf(c) = {a}
        /\ a.recovery = b.recovery => a.profile = b.profile

AdviceIn(path) == AdviceOf(content[path])

-----------------------------------------------------------------------------
(* The plan and its check                                                  *)

Numbered(items) == [n \in DOMAIN items |-> [items[n] EXCEPT !.order = n]]

Advising(paths) == {n \in DOMAIN paths : AdviceIn(paths[n]) # {}}
AdviceFor(path) == CHOOSE a \in AdviceIn(path) : TRUE

PlanItem(a) == [order |-> 0, profile |-> a.profile, setup |-> a.setup, recovery |-> a.recovery]

\* Mutant: items are told apart by what they sign in to.
RecoveryPlan_BySetup(paths) ==
    LET first(n) == \A k \in Advising(paths) : AdviceFor(paths[k]).setup = AdviceFor(paths[n]).setup => n <= k
        kept == Chosen(paths, {n \in Advising(paths) : first(n)})
    IN  Numbered([n \in DOMAIN kept |-> PlanItem(AdviceFor(kept[n]))])

\* The command that opens a link names the profile as well.
SameCommand(a, b) == a.recovery = b.recovery /\ a.profile = b.profile

\* One item for each command that opens a link, in the order of the artifacts.
RecoveryPlan(paths) ==
    LET first(n) == \A k \in Advising(paths) : SameCommand(AdviceFor(paths[k]), AdviceFor(paths[n])) => n <= k
        kept == Chosen(paths, {n \in Advising(paths) : first(n)})
    IN  Numbered([n \in DOMAIN kept |-> PlanItem(AdviceFor(kept[n]))])

\* The url is quoted for the shell, which doubles its apostrophes, and is then
\* not found in the command.
Issues(items, n, known) ==
    Those({<<"order_mismatch", items[n].order # n>>,
           <<"profile_missing", known # {} /\ items[n].profile \notin UNION known>>,
           <<"setup_command_missing_setup_url", items[n].setup \in Apostrophed>>,
           <<"retry_command_missing_recovery_url", items[n].recovery \in Apostrophed>>})

CheckOk(items, known) == \A n \in DOMAIN items : Issues(items, n, known) = {}

Filtered(items, known) ==
    LET failing == {items[n].order : n \in {k \in DOMAIN items : Issues(items, k, known) # {}}}
    IN  Numbered(Chosen(items, {n \in DOMAIN items : items[n].order \notin failing}))

KnownProfiles == IF "check-profiles" \in flags THEN {profiles} ELSE {}

-----------------------------------------------------------------------------
RecoveryInit ==
    /\ ledger \in Ledgers /\ walk \in Walks
    /\ content \in [TriagePath -> Contents]
    /\ profiles = {} /\ opened = {} /\ recovery = {}
    /\ flags \in SUBSET {"only-check-ok", "check-profiles"}

PrintPlan ==
    LET items == RecoveryPlan(TriageArtifacts)
    IN  /\ recovery' = {IF "only-check-ok" \in flags THEN Filtered(items, KnownProfiles) ELSE items}
        /\ UNCHANGED <<ledger, walk, content, profiles, flags, opened>>

\* The operator runs the commands, and may drop the flags for the next plan.
SignIn(item) ==
    /\ profiles' = profiles \cup {item.profile}
    /\ UNCHANGED <<ledger, walk, content, flags, recovery, opened>>

OpenRecovered(item) ==
    /\ item.profile \in profiles
    /\ opened' = opened \cup {item.recovery}
    /\ UNCHANGED <<ledger, walk, content, profiles, flags, recovery>>

DropFlags ==
    /\ flags # {}
    /\ flags' = {}
    /\ UNCHANGED <<ledger, walk, content, profiles, recovery, opened>>

RecoveryNext ==
    \/ PrintPlan
    \/ \E items \in recovery : \E n \in DOMAIN items : SignIn(items[n]) \/ OpenRecovered(items[n])
    \/ DropFlags

-----------------------------------------------------------------------------
\* Whatever is advised in the triages that are read is handed over: the full
\* plan has one item per advised link and stands its own check unless a url
\* has an apostrophe, filtering renumbers what is left and leaves nothing
\* that the check objects to or that the check would have let pass, and a
\* link is only opened if it was advised.
RecoveryHandedOver ==
    LET full == RecoveryPlan(TriageArtifacts)
        advised == UNION {AdviceIn(path) : path \in ToSet(TriageArtifacts)}
        sound == {n \in DOMAIN full :
                     /\ {full[n].setup, full[n].recovery} \cap Apostrophed = {}
                     /\ KnownProfiles = {} \/ full[n].profile \in profiles}
        kept == Filtered(full, KnownProfiles)
    IN  /\ {full[n].recovery : n \in DOMAIN full} = {a.recovery : a \in advised}
        /\ Cardinality({full[n].recovery : n \in DOMAIN full}) = Len(full)
        /\ CheckOk(full, KnownProfiles) <=> sound = DOMAIN full
        /\ CheckOk(kept, KnownProfiles)
        /\ {kept[n].recovery : n \in DOMAIN kept} = {full[n].recovery : n \in sound}
        /\ opened \subseteq {a.recovery : a \in advised}

=============================================================================
