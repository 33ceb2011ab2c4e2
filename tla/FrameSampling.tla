--------------------------- MODULE FrameSampling ---------------------------
(***************************************************************************)
(* How a video is sampled (frame-sampler.ts, sampleFrames of the pool, and *)
(* the dense rounds of captureBrowserEvidence): a base plan of timestamps, *)
(* then denser rounds around the cues, the scene changes and the texts     *)
(* that were hit, each within its own cap; and the advice the scene        *)
(* analysis gives about its threshold.  Times are whole numbers, a picture *)
(* is the set of the bits of its fingerprint.                              *)
(***************************************************************************)
EXTENDS Integers, FiniteSets

CONSTANTS
    Videos,        \* [film, length, cues, text, broken]: what there is to see
    Samplings,     \* the options of a run
    MaxDistance    \* two fingerprints differ in at most so many bits, 64 in the code

ASSUME SamplingAssumption ==
    /\ MaxDistance \in Nat \ {0}
    /\ \A v \in Videos :
        /\ \A t \in DOMAIN v.film : IsFiniteSet(v.film[t])
        /\ v.length = {} \/ \E n \in v.length : n \in Nat /\ v.length = {n}
        /\ IsFiniteSet(v.cues) /\ \A c \in v.cues : c[1] \in Nat
    /\ \A s \in Samplings :
        /\ IsFiniteSet(s.times) /\ s.times \subseteq Nat
        /\ {s.stride, s.step, s.window, s.maxFrames, s.maxDense, s.maxHits} \subseteq Nat \ {0}
        /\ s.threshold \in 1..MaxDistance

\* Lengths are {} when the player does not tell, else {n}.
Within(times, length) == {t \in times : \A n \in length : t <= n}

Earliest(times, n) == {t \in times : Cardinality({u \in times : u < t}) < n}

BaseTimestamps == {0, 10, 30}

DefaultTimestamps(length, stride) ==
    Within(BaseTimestamps, length) \cup UNION {{0, n} \cup {stride * k : k \in 1..(n \div stride)} : n \in length}

\* buildTimestampPlan
TimestampPlan(times, length, stride, maxFrames) ==
    LET bounded == Within(IF times = {} THEN DefaultTimestamps(length, stride) ELSE times, length)
        planned == Earliest(bounded, maxFrames)
    IN  [times |-> planned, length |-> length, omitted |-> Cardinality(bounded) - Cardinality(planned)]

\* buildDenseTimestampPlan: every step of the window around a hit; a window that
\* begins before the video begins at 0.
DensePlan(plan, hits, o) ==
    LET steps == {k * o.step : k \in 0..((2 * o.window) \div o.step)}
        around == {h - o.window + s : h \in hits, s \in steps}
        dense == Within({IF t < 0 THEN 0 ELSE t : t \in around}, plan.length)
        kept == Earliest(dense, o.maxDense)
    IN  [dense |-> kept, omitted |-> Cardinality(dense) - Cardinality(kept)]

-----------------------------------------------------------------------------
(* analyzeSceneChanges                                                     *)

Distance(p, q) == Cardinality((p \ q) \cup (q \ p))

\* Adjacent frames that were captured well.  Two frames of one time keep the
\* order of their rounds.
Pairs(frames) ==
    LET fine == {f \in frames : f.ok}
        before(f, g) == f.at < g.at \/ (f.at = g.at /\ f.round < g.round)
        adjacent == {fg \in fine \X fine : /\ before(fg[1], fg[2])
                                         /\ ~\E h \in fine : before(fg[1], h) /\ before(h, fg[2])}
    IN  {[from |-> fg[1].at, to |-> fg[2].at, mid |-> (fg[1].at + fg[2].at + 1) \div 2,
          d |-> Distance(fg[1].picture, fg[2].picture)] : fg \in adjacent}

Stronger(p, q) == p.d > q.d \/ (p.d = q.d /\ (p.mid < q.mid \/ (p.mid = q.mid /\ p.from < q.from)))

SceneChanges(pairs, threshold, maxHits) ==
    LET candidates == {p \in pairs : p.d >= threshold}
        hits == {p \in candidates : Cardinality({q \in candidates : Stronger(q, p)}) < maxHits}
    IN  [pairs |-> pairs, candidates |-> candidates, hits |-> hits]

Clamped(d) == IF d < 1 THEN 1 ELSE IF d > MaxDistance THEN MaxDistance ELSE d
Highest(pairs) == CHOOSE d \in {p.d : p \in pairs} : \A p \in pairs : p.d <= d
Lowest(pairs) == CHOOSE d \in {p.d : p \in pairs} : \A p \in pairs : p.d >= d

\* Mutant: the threshold is raised to the omitted pair, not above it.
Raised_NotAbove(omitted) == Clamped(Highest(omitted))
Raised(omitted) == Clamped(Highest(omitted) + 1)

\* recommendSceneChangeThreshold
Advice(scenes, threshold) ==
    LET omitted == scenes.candidates \ scenes.hits
        below == {p \in scenes.pairs : p.d < threshold}
        crowded == omitted # {} /\ Highest(omitted) < MaxDistance
        near == below # {} /\ threshold - Highest(below) <= 2
    IN  CASE scenes.pairs = {} \/ \A p \in scenes.pairs : p.d = 0 -> [kind |-> "none"]
          [] \E p \in scenes.pairs : p.d > 0 ->
              CASE scenes.hits = {} -> [kind |-> "lower", to |-> Clamped(Highest(scenes.pairs))]
                [] scenes.hits # {} /\ crowded ->
                     IF Highest(omitted) >= Lowest(scenes.hits) THEN [kind |-> "keep", to |-> Clamped(threshold)]
                     ELSE [kind |-> "raise", to |-> Raised(omitted)]
                [] scenes.hits # {} /\ ~crowded ->
                     IF near THEN [kind |-> "near_miss", to |-> Clamped(Highest(below))]
                     ELSE [kind |-> "keep", to |-> Clamped(threshold)]

-----------------------------------------------------------------------------
VARIABLES
    video,    \* what there is to see
    o,        \* the options of the run
    length,   \* what the player says of the video's length now
    round,    \* "base", "cues", "scenes", "text" or "done"
    plan,     \* the merged plan
    frames    \* the frames sampled, each with its round

samplingVars == <<video, o, length, round, plan, frames>>

SamplingInit ==
    /\ video \in Videos /\ o \in Samplings
    /\ length = video.length
    /\ round = "base" /\ frames = {}
    /\ plan = [times |-> {}, length |-> {}, omitted |-> 0]

Round(r) == CASE r = "base" -> 1 [] r = "cues" -> 2 [] r = "scenes" -> 3 [] OTHER -> 4

\* A time that the film does not have cannot be sought.
Frame(t) ==
    [at |-> t, round |-> Round(round), ok |-> t \in DOMAIN video.film \ video.broken,
     picture |-> IF t \in DOMAIN video.film THEN video.film[t] ELSE {}]

\* sampleFrames: the page seeks to each time that the player still has; a seek
\* or a screenshot that fails leaves a partial frame.
Sampled(times, maxFrames) == {Frame(t) : t \in TimestampPlan(times, length, o.stride, maxFrames).times}

BaseRound ==
    /\ round = "base"
    /\ plan' = TimestampPlan(o.times, length, o.stride, o.maxFrames)
    /\ frames' = Sampled(o.times, o.maxFrames)
    /\ round' = IF o.dense THEN "cues" ELSE "done"
    /\ UNCHANGED <<video, o, length>>

\* uncapturedDenseTimestamps: the times it leaves out.
Captured == {f.at : f \in frames}

\* mergeFrameSampleResults: what was planned joins the plan, what was sampled
\* joins the frames.  A round without anything to sample does not happen.
Denser(hits, taken, next) ==
    LET dense == DensePlan(plan, hits, o)
        asked == dense.dense \ taken
    IN  /\ IF asked = {} THEN UNCHANGED <<plan, frames>>
           ELSE /\ frames' = frames \cup Sampled(asked, o.maxDense)
                /\ plan' = [plan EXCEPT !.times = @ \cup dense.dense, !.omitted = @ + dense.omitted]
        /\ round' = next

\* collectDenseHitTimestamps: the beginnings of the cues that frames have seen.
\* This round does not leave out what has been sampled before.
CueRound ==
    LET seen == {c \in video.cues : \E f \in frames : c[1] <= f.at /\ f.at <= c[2]}
    IN  /\ round = "cues"
        /\ Denser({c[1] : c \in seen}, {}, "scenes")
        /\ UNCHANGED <<video, o, length>>

SceneRound ==
    /\ round = "scenes"
    /\ Denser({p.mid : p \in SceneChanges(Pairs(frames), o.threshold, o.maxHits).hits}, Captured, "text")
    /\ UNCHANGED <<video, o, length>>

\* collectOcrHitTimestamps: the frames in which the query could be read.
TextRound ==
    LET hits == {f.at : f \in {g \in frames : g.ok}} \cap video.text
    IN  /\ round = "text"
        /\ Denser(hits, Captured, "done")
        /\ UNCHANGED <<video, o, length>>

\* The player changes its mind about the length: a live stream, an advertisement.
LengthChanges ==
    /\ round \in {"cues", "scenes", "text"} /\ length = video.length
    /\ length' = IF length \in {{}, {0}} THEN {5} ELSE {n - 1 : n \in length}
    /\ UNCHANGED <<video, o, round, plan, frames>>

SamplingNext == BaseRound \/ CueRound \/ SceneRound \/ TextRound \/ LengthChanges

-----------------------------------------------------------------------------
\* The plan that is reported is the plan that was carried out: every frame was
\* planned and lies within the length the plan knew, no time is missing unless
\* the player changed the length meanwhile, each round keeps its cap, and only
\* the cue round samples a time again that has a frame (uncapturedDenseTimestamps).
FramesAsPlanned ==
    /\ \A f \in frames : f.at \in plan.times /\ \A n \in plan.length : f.at <= n
    /\ length = video.length => {f.at : f \in frames} = plan.times
    /\ \A r \in 1..4 : Cardinality({f \in frames : f.round = r}) <= IF r = 1 THEN o.maxFrames ELSE o.maxDense
    /\ \A f, g \in frames : f.at = g.at => f.round = g.round \/ {f.round, g.round} = {1, 2}

\* Whoever takes the advice about the threshold gets what it promises: a lower
\* one finds a scene change, a higher one keeps exactly the hits and omits none,
\* the near miss becomes a candidate (unless it is a pair of equal frames, which
\* no threshold admits), and when it says to keep the threshold although
\* candidates are omitted, no threshold would separate them.
ThresholdAdviceWorks ==
    LET pairs == Pairs(frames)
        then(t) == SceneChanges(pairs, t, o.maxHits)
        now == then(o.threshold)
        advice == Advice(now, o.threshold)
    IN  CASE advice.kind = "lower" -> then(advice.to).hits # {}
          [] advice.kind = "raise" -> /\ then(advice.to).hits = now.hits
                                      /\ then(advice.to).candidates = now.hits
          [] advice.kind = "near_miss" -> \/ then(advice.to).candidates \ now.candidates # {}
                                          \/ \A p \in now.pairs : p.d < o.threshold => p.d = 0
          [] advice.kind = "keep" -> now.candidates = now.hits \/
                 \A t \in 1..MaxDistance : ~(then(t).hits = now.hits /\ then(t).candidates = now.hits)
          [] OTHER -> TRUE

\* What sampling reports can be relied on, in all rounds and whatever is made of
\* its advice.
SamplingKeepsPromises == FramesAsPlanned /\ ThresholdAdviceWorks

=============================================================================
