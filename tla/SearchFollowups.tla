-------------------------- MODULE SearchFollowups --------------------------
(***************************************************************************)
(* What follows a run on a search page: the arms the strategy proposes     *)
(* (search-strategy-planner.ts), the results worth opening                 *)
(* (candidate-deepening-ledger.ts), and the bounded queue that follow-ups  *)
(* make of the two artifacts and may execute (search-followups.ts).  A     *)
(* follow-up call writes its plan, runs its children one by one, writes    *)
(* what came of them, and may die in between; calls overlap.               *)
(***************************************************************************)
EXTENDS Integers, Sequences, FiniteSets, SequencesExt, Selection

CONSTANTS
    Calls,        \* calls of runSearchFollowups on one parent run
    Intents,      \* what the parent's questions ask for
    Pages,        \* the lists of results a search page shows
    Limits,       \* [arms, candidates, total] as the callers give them
    MaxArtifacts, \* bound: reports the parent run writes
    None

ASSUME FollowupsAssumption ==
    /\ MaxArtifacts \in Nat
    /\ \A page \in Pages : page \in Seq(ToSet(page))
    /\ Limits \subseteq [arms : Nat, candidates : Nat, total : Nat]

-----------------------------------------------------------------------------
(* planSearchStrategy.  An intent is a set of wishes with the words that   *)
(* the base query has already; a url is an engine with the words added.    *)

Arm(id, wanted, status, engine, added) ==
    [id |-> id, wanted |-> wanted, status |-> status, engine |-> engine, added |-> added]

ArmTable(intent) ==
    LET korean == "korean" \in intent.wants
        review == "review" \in intent.wants
        either(here, there) == IF korean THEN here ELSE there
    IN << Arm("current_surface", TRUE, "try", "current", {}),
          Arm("naver_view_review", korean, "try", "naver_view",
              {"review"} \cup (IF review THEN {"own_money", "opinion"} ELSE {})),
          Arm("naver_image_visual", korean /\ "visual" \in intent.wants, "try", "naver_image", {"photo"}),
          Arm("google_cross_check", TRUE, "try", "google", {}),
          Arm("official_source_probe", "structured" \in intent.wants, "try",
              either("naver_web", "google"), {"official"}),
          Arm(either("korean_community_review", "community_review"), review, either("defer", "try"),
              either("naver_cafe", "google"), {"review", "complaint"}),
          Arm("youtube_video", "video" \in intent.wants, "try", "youtube", {}),
          Arm("tiktok_public_lead", "video" \in intent.wants, "defer", "google", {"site_tiktok"}),
          Arm("x_threads_public_lead", "video" \in intent.wants, "defer", "google", {"site_x"}),
          Arm("dissent_probe", TRUE, "try", either("naver_view", "google"), {"problem", "complaint"}) >>

\* enrichQuery: words the query has already are not added again.
PlanArms(intent) ==
    LET table == ArmTable(intent)
        arms == Chosen(table, {i \in DOMAIN table : table[i].wanted})
    IN  [i \in DOMAIN arms |-> [id |-> arms[i].id, status |-> arms[i].status,
                                url |-> <<arms[i].engine, arms[i].added \ intent.words>>]]

-----------------------------------------------------------------------------
(* planCandidateDeepeningLedger.  A result has a url or None, and shows    *)
(* some of the marks that score.                                           *)

Points == [terms |-> 3, review |-> 4, detail |-> 3, visible |-> 3, blog |-> 2, wall |-> -1, ad |-> -2]

ResultScore(page, i) ==
    LET marks == FoldFunctionOnSet(+, 0, Points, page[i].marks \cap DOMAIN Points)
        score == marks + (IF page[i].url # None THEN 1 ELSE -4) + (IF i = 1 THEN 1 ELSE 0)
    IN  IF score < 0 THEN 0 ELSE score

\* The places are given to the best; one given to a result without a url, or
\* of no score, is lost.
SelectedResults(page, maxSelected) ==
    LET better(i, k) == LET s == ResultScore(page, i) r == ResultScore(page, k)
                        IN s > r \/ (s = r /\ i < k)
        placed(i) == Cardinality({k \in DOMAIN page : better(k, i)}) < maxSelected
    IN  {i \in DOMAIN page : placed(i) /\ ResultScore(page, i) > 0 /\ page[i].url # None}

\* chooseNextAction: a wall that shows in the url is left to a person.
NextAction(page, i, selected) ==
    CASE page[i].url = None \/ (~selected /\ ResultScore(page, i) = 0) -> "no_candidate"
      [] page[i].url # None /\ selected /\ {"wall", "login_url"} \subseteq page[i].marks -> "manual_profile_or_byo"
      [] OTHER -> "open_destination_capture"

PlanLedger(page, maxSelected) ==
    LET chosen == SelectedResults(page, maxSelected)
        decisions == [i \in DOMAIN page |->
            [rank |-> i, url |-> page[i].url, selected |-> i \in chosen,
             walled |-> "wall" \in page[i].marks,
             next |-> NextAction(page, i, i \in chosen)]]
    IN  [status |-> IF page = <<>> THEN "empty" ELSE "ok", decisions |-> decisions]

-----------------------------------------------------------------------------
(* buildSearchFollowupPlan                                                 *)

\* readLatestArtifactReport: the newest that can be read.
Latest(artifacts, kind) ==
    LET readable == {n \in DOMAIN artifacts : artifacts[n].kind = kind /\ artifacts[n].report # None}
        newest == CHOOSE n \in readable : \A k \in readable : k <= n
    IN  IF readable = {} THEN None ELSE artifacts[newest].report

\* filter(markUrlSeen): the first mention of each url that was not seen before.
Unseen(list, seen) ==
    LET first(i) == list[i].url \notin seen /\ \A k \in 1..(i - 1) : list[k].url # list[i].url
    IN  Chosen(list, {i \in DOMAIN list : first(i)})

Take(list, n) == SubSeq(list, 1, IF n < Len(list) THEN n ELSE Len(list))

Runnable(strategy) ==
    IF strategy = None THEN <<>>
    ELSE Chosen(strategy, {i \in DOMAIN strategy : strategy[i].id # "current_surface" /\ strategy[i].status = "try"})

Openable(ledger) ==
    IF ledger = None \/ (ledger # None /\ ledger.status # "ok") THEN <<>>
    ELSE Chosen(ledger.decisions, {i \in DOMAIN ledger.decisions : ledger.decisions[i].selected})

CandidateId(d) == <<"candidate", d.rank>>

ArmItem(arm) == [id |-> <<"arm", arm.id>>, url |-> arm.url, action |-> "run_evidence"]

\* Mutant: only a wall that shows in the url is left to a person.
CandidateItem_UrlOnly(d) ==
    [id |-> CandidateId(d), url |-> d.url,
     action |-> IF d.next = "manual_profile_or_byo" THEN d.next ELSE "run_evidence"]

\* candidateDecisionToItem: any suspicion of a wall leaves it to a person.
CandidateItem(d) ==
    [id |-> CandidateId(d), url |-> d.url,
     action |-> CASE d.next = "manual_profile_or_byo" \/ d.walled -> "manual_profile_or_byo"
                  [] d.next = "open_destination_capture" /\ ~d.walled -> "run_evidence"
                  [] OTHER -> "skip"]

\* An arm beyond the limit has marked its url as seen all the same.
BuildPlan(artifacts, limits) ==
    LET strategy == Latest(artifacts, "strategy")
        ledger == Latest(artifacts, "ledger")
        arms == IF limits.arms = 0 THEN <<>> ELSE Unseen(Runnable(strategy), {})
        opened == Unseen(Openable(ledger), {arms[i].url : i \in DOMAIN arms})
        items == [i \in DOMAIN Take(arms, limits.arms) |-> ArmItem(arms[i])]
                 \o [i \in DOMAIN Take(opened, limits.candidates) |-> CandidateItem(opened[i])]
    IN  [status |-> CASE strategy = None /\ ledger = None -> "missing_artifacts"
                      [] ~(strategy = None /\ ledger = None) /\ Take(items, limits.total) = <<>> -> "empty"
                      [] OTHER -> "ready",
         items |-> Take(items, limits.total),
         walls |-> IF ledger = None THEN {}
                   ELSE {CandidateId(ledger.decisions[i]) :
                            i \in {k \in DOMAIN ledger.decisions : ledger.decisions[k].walled}}]

-----------------------------------------------------------------------------
VARIABLES
    artifacts,   \* the parent run's reports, oldest first; None cannot be read
    call         \* each call: pc, its plan, its outcomes so far, its children

followupVars == <<artifacts, call>>

NotCalled == [pc |-> "idle", execute |-> FALSE, total |-> 0, plan |-> None, outcomes |-> <<>>,
              children |-> <<>>, ledger |-> None]

FollowupInit == artifacts = <<>> /\ call = [c \in Calls |-> NotCalled]

\* The parent run (or a second one in its directory) reports on a page.
Reports ==
    {[kind |-> "strategy", report |-> PlanArms(i)] : i \in Intents}
    \cup {[kind |-> "ledger", report |-> PlanLedger(p, 3)] : p \in Pages}
    \cup {[kind |-> "ledger", report |-> None]}

ParentReports ==
    /\ Len(artifacts) < MaxArtifacts
    /\ \E a \in Reports : artifacts' = Append(artifacts, a)
    /\ UNCHANGED call

\* runSearchFollowups reads the artifacts and plans,
Plans(c, limits, execute) ==
    /\ call[c].pc = "idle"
    /\ call' = [call EXCEPT ![c].pc = "write_plan", ![c].execute = execute, ![c].total = limits.total,
                            ![c].plan = BuildPlan(artifacts, limits)]
    /\ UNCHANGED artifacts

\* writes the plan,
WritesPlan(c) ==
    /\ call[c].pc = "write_plan"
    /\ call' = [call EXCEPT ![c].pc = "execute"]
    /\ UNCHANGED artifacts

\* The item at hand.
AtWork(c) == call[c].pc = "execute" /\ Len(call[c].outcomes) < Len(call[c].plan.items)
Item(c) == call[c].plan.items[Len(call[c].outcomes) + 1]
Notes(c, status) == Append(call[c].outcomes, [id |-> Item(c).id, status |-> status])

\* records every item as planned if nobody asked to execute it, skips what is
\* not to be run unattended,
PassesOver(c) ==
    /\ AtWork(c) /\ (~call[c].execute \/ Item(c).action # "run_evidence")
    /\ call' = [call EXCEPT ![c].outcomes = Notes(c, IF call[c].execute THEN "skipped" ELSE "planned")]
    /\ UNCHANGED artifacts

\* The directory of a child is named after the item and the call's own nonce.
ChildDir(c) == <<c, Item(c).id>>

\* and runs the others one after the other; a child that fails or throws is an
\* outcome like any other.
RunsChild(c) ==
    /\ AtWork(c) /\ call[c].execute /\ Item(c).action = "run_evidence"
    /\ \E status \in {"executed", "failed"} :
        call' = [call EXCEPT ![c].outcomes = Notes(c, status),
                             ![c].children = Append(@, [dir |-> ChildDir(c), url |-> Item(c).url])]
    /\ UNCHANGED artifacts

Count(c, statuses) == Cardinality({n \in DOMAIN call[c].outcomes : call[c].outcomes[n].status \in statuses})

OutcomeLedger(c) ==
    LET failed == Count(c, {"failed"})
        executed == Count(c, {"executed"})
    IN  [status |-> CASE call[c].plan.status # "ready" -> "empty"
                      [] call[c].plan.status = "ready" /\ ~call[c].execute -> "planned"
                      [] OTHER -> IF failed = 0 THEN "ok" ELSE IF executed > 0 THEN "partial" ELSE "empty",
         executed |-> executed, failed |-> failed, skipped |-> Count(c, {"skipped", "planned"}),
         outcomes |-> call[c].outcomes]

Finished(c) == call[c].pc = "execute" /\ ~AtWork(c)

\* The outcomes are written last.
WritesOutcome(c) ==
    /\ Finished(c)
    /\ call' = [call EXCEPT ![c].pc = "done", ![c].ledger = OutcomeLedger(c)]
    /\ UNCHANGED artifacts

CallDies(c) ==
    /\ call[c].pc \notin {"idle", "done", "dead"}
    /\ call' = [call EXCEPT ![c].pc = "dead"]
    /\ UNCHANGED artifacts

CallStep(c) ==
    \/ \E limits \in Limits, execute \in BOOLEAN : Plans(c, limits, execute)
    \/ WritesPlan(c) \/ PassesOver(c) \/ RunsChild(c) \/ WritesOutcome(c) \/ CallDies(c)

FollowupNext == ParentReports \/ \E c \in Calls : CallStep(c)

-----------------------------------------------------------------------------
\* Whatever the parent's artifacts, and however calls overlap and die: a call
\* runs at most the items its limits allow, no page twice, never a result that
\* the ledger suspects behind a wall (executePlanItems, "manual/BYO items are
\* evidence of refusal boundary"), and never into the directory of another
\* child; its outcome ledger has one outcome for each item of its plan, and
\* tells exactly how many children it has started.
FollowupsAccounted ==
    /\ \A c \in Calls :
        LET made == call[c]
        IN  /\ Len(made.children) <= made.total
            /\ \A i, k \in DOMAIN made.children : i # k =>
                   made.children[i].url # made.children[k].url /\ made.children[i].dir # made.children[k].dir
            /\ made.plan # None =>
                 \A i \in DOMAIN made.children : made.children[i].dir[2] \notin made.plan.walls
            /\ made.ledger # None =>
                 /\ [i \in DOMAIN made.plan.items |-> made.plan.items[i].id]
                      = [i \in DOMAIN made.ledger.outcomes |-> made.ledger.outcomes[i].id]
                 /\ made.ledger.executed + made.ledger.failed = Len(made.children)
                 /\ made.ledger.executed + made.ledger.failed + made.ledger.skipped = Len(made.plan.items)
                 /\ made.ledger.status = "ok" => made.execute /\ made.ledger.failed = 0
    /\ \A c, d \in Calls : c # d =>
        \A i \in DOMAIN call[c].children, k \in DOMAIN call[d].children :
            call[c].children[i].dir # call[d].children[k].dir

=============================================================================
