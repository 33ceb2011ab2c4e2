--------------------------- MODULE Planning_proofs ---------------------------
(***************************************************************************)
(* How a run comes by pages without a browser, through gateways and through *)
(* official APIs, by the media of a page, what it leaves in the operator's   *)
(* vault, and what its bundle proves: what holds for every question, site,  *)
(* answer, limit and journey.                                               *)
(***************************************************************************)
EXTENDS BrowserlessCapture, OfficialApi, MediaCapture, MemoryVault, EvidenceBundle, ListsAndSums

-----------------------------------------------------------------------------
\* The question.

\* Pictures to be read are never left to a plain GET.
LEMMA PicturesNeedBrowser ==
    ASSUME NEW t, RecommendedOptions(t).ocr
    PROVE  ~TriesTier0(t)
<1>1. RecommendedOptions(t).ocr = (InferShapes(t) \cap {"ocr_image_text", "map_place_state"} # {})
  BY DEF RecommendedOptions
<1>2. InferShapes(t) \cap {"ocr_image_text", "map_place_state"} # {}
  BY <1>1
<1>3. InferShapes(t) \cap {"ui_screenshot", "ocr_image_text", "map_place_state"} # {}
  BY <1>2
<1> QED
  BY <1>3 DEF TriesTier0

-----------------------------------------------------------------------------
\* The obstructions and the plan.

Walls == {"bot_block", "login_wall", "age_gate", "region_gate"}
Kinds == Walls \cup {"app_interstitial", "media_unavailable"}

\* What is classified is of the kinds that the code knows.
LEMMA KnownKinds ==
    ASSUME NEW shows, NEW social
    PROVE  ClassifyBrowserObstructions(shows, social) \subseteq Kinds
<1>1. DOMAIN Signals = Kinds
  BY DEF Signals, Kinds, Walls
<1> QED
  BY <1>1 DEF ClassifyBrowserObstructions

\* A wall, alone or with others, is what has failed.
LEMMA WallsObserved ==
    ASSUME NEW kinds \in SUBSET Kinds, kinds # {}
    PROVE  /\ ObservedFailure(kinds) # "none"
           /\ ObservedFailure(kinds) \in Terminal <=> kinds \cap Walls # {}
  BY DEF ObservedFailure, Terminal, Kinds, Walls

\* Methods of phases from low to high, in that order.
Ladder(s, low, high) ==
    /\ Sequential(s)
    /\ \A i \in DOMAIN s : s[i].phase \in low..high
    /\ \A i, k \in DOMAIN s : i < k => s[i].phase <= s[k].phase

\* One ladder on top of another.
LEMMA Climbing ==
    ASSUME NEW s, NEW t, NEW a \in Nat, NEW b \in Nat, NEW c \in Nat, a <= b, b <= c,
           Ladder(s, a, b), Ladder(t, b, c)
    PROVE  Ladder(s \o t, a, c) /\ ToSet(s \o t) = ToSet(s) \cup ToSet(t)
<1>1. PICK S : s \in Seq(S)
  BY DEF Ladder, Sequential
<1>2. PICK T : t \in Seq(T)
  BY DEF Ladder, Sequential
<1>3. s \in Seq(S \cup T) /\ t \in Seq(S \cup T)
  BY <1>1, <1>2, SeqMonotonic
<1> DEFINE u == s \o t  m == Len(s)  n == Len(t)
<1>4. m \in Nat /\ n \in Nat /\ DOMAIN s = 1..m /\ DOMAIN t = 1..n
  BY <1>3, LenProperties
<1>5. /\ u \in Seq(S \cup T) /\ Len(u) = m + n
      /\ \A i \in 1..(m + n) : u[i] = IF i <= m THEN s[i] ELSE t[i - m]
  BY <1>3, ConcatProperties
<1>6. DOMAIN u = 1..(m + n)
  BY <1>5, LenProperties
<1> HIDE DEF u, m, n
<1>7. /\ \A i \in 1..(m + n) : i <= m => i \in 1..m /\ u[i] = s[i]
      /\ \A i \in 1..(m + n) : i > m => i - m \in 1..n /\ u[i] = t[i - m]
      /\ \A i \in 1..m : i \in 1..(m + n) /\ u[i] = s[i]
      /\ \A i \in 1..n : i + m \in 1..(m + n) /\ u[i + m] = t[i]
  BY <1>4, <1>5
<1>8. ASSUME NEW i \in DOMAIN u
      PROVE  u[i].phase \in a..c /\ (i <= m => u[i].phase \in a..b) /\ (i > m => u[i].phase \in b..c)
  <2>1. CASE i <= m
    BY <1>4, <1>6, <1>7, <2>1 DEF Ladder
  <2>2. CASE i > m
    BY <1>4, <1>6, <1>7, <2>2 DEF Ladder
  <2> QED
    BY <1>4, <1>6, <2>1, <2>2
<1>9. ASSUME NEW i \in DOMAIN u, NEW k \in DOMAIN u, i < k
      PROVE  u[i].phase <= u[k].phase
  <2>1. CASE k <= m
    BY <1>4, <1>6, <1>7, <1>9, <2>1 DEF Ladder
  <2>2. CASE i <= m /\ k > m
    BY <1>8, <2>2
  <2>3. CASE i > m
    <3>1. i \in 1..(m + n) /\ k \in 1..(m + n) /\ k > m
      BY <1>4, <1>6, <1>9, <2>3
    <3>2. i - m \in 1..n /\ k - m \in 1..n /\ u[i] = t[i - m] /\ u[k] = t[k - m]
      BY <1>7, <2>3, <3>1
    <3>3. i - m < k - m
      BY <1>4, <1>9, <3>1
    <3> QED
      BY <1>4, <3>2, <3>3 DEF Ladder
  <2> QED
    BY <1>4, <1>6, <2>1, <2>2, <2>3
<1>10. Sequential(u)
  BY <1>5 DEF Sequential
<1>11. ToSet(u) = ToSet(s) \cup ToSet(t)
  <2>1. ASSUME NEW i \in 1..(m + n)
        PROVE  u[i] \in ToSet(s) \cup ToSet(t)
    <3>1. CASE i <= m
      BY <1>4, <1>7, <3>1 DEF ToSet
    <3>2. CASE i > m
      <4>1. i - m \in DOMAIN t /\ u[i] = t[i - m]
        BY <1>4, <1>7, <3>2
      <4> QED
        BY <4>1 DEF ToSet
    <3> QED
      BY <1>4, <3>1, <3>2
  <2>2. \A i \in 1..m : s[i] \in ToSet(u)
    BY <1>6, <1>7 DEF ToSet
  <2>3. \A i \in 1..n : t[i] \in ToSet(u)
    BY <1>6, <1>7 DEF ToSet
  <2> QED
    BY <1>4, <1>6, <2>1, <2>2, <2>3 DEF ToSet
<1> QED
  BY <1>8, <1>9, <1>10, <1>11 DEF Ladder, u

\* The methods of a plan: their phases ascend, the last resort is consent, and
\* only where a wall was met.
LEMMA PlanOfMethods ==
    ASSUME NEW t, NEW failure
    PROVE  LET plan == PlanAcquisitionMethods(t, failure)
               terminal == {m \in ToSet(plan.methods) : m.status = "terminal"}
           IN  /\ plan.failure = failure
               /\ (failure \in Terminal) => terminal # {} /\ ~plan.escalates
               /\ (failure \notin Terminal) => terminal = {} /\ plan.escalates
               /\ \E m \in ToSet(plan.methods) : m.tier = "feed" /\ m.status = "try"
               /\ \A i, k \in DOMAIN plan.methods : i < k => plan.methods[i].phase <= plan.methods[k].phase
<1> DEFINE public == Method("public_endpoint", 0, t.endpoint, "try")
           endpoint == IF t.endpoint = "none" THEN <<>> ELSE <<public>>
           feed == Method("discovery", 1, "feed", "try")
           tier0 == Method("tier0", 1, "http_fetch", "try")
           extract == Method("extract", 1, "model_extract", "conditional")
           headed == Method("browser", 2, "headed", "try")
           direct == <<feed, tier0, extract, headed>>
           consent == Method("consented_profile", 3, "profile", "terminal")
           consented == IF failure \in Terminal THEN <<consent>> ELSE <<>>
           byo == Method("byo", 4, "byo_capture", "conditional")
           methods == endpoint \o direct \o consented \o <<byo>>
           plan == PlanAcquisitionMethods(t, failure)
<1>1. plan = [failure |-> failure, methods |-> methods, escalates |-> failure \notin Terminal]
  BY DEF PlanAcquisitionMethods
<1>2. plan.failure = failure /\ plan.methods = methods /\ plan.escalates = (failure \notin Terminal)
  BY <1>1
<1>3. /\ public.phase = 0 /\ feed.phase = 1 /\ tier0.phase = 1 /\ extract.phase = 1 /\ headed.phase = 2
      /\ consent.phase = 3 /\ byo.phase = 4
      /\ public.status = "try" /\ feed.status = "try" /\ tier0.status = "try" /\ extract.status = "conditional"
      /\ headed.status = "try" /\ consent.status = "terminal" /\ byo.status = "conditional"
      /\ feed.tier = "feed"
  BY DEF Method
<1> HIDE DEF public, feed, tier0, extract, headed, consent, byo, plan
<1>4. Ladder(endpoint, 0, 1) /\ \A m \in ToSet(endpoint) : m.status # "terminal"
  <2>1. CASE t.endpoint = "none"
    BY <2>1 DEF Ladder, Sequential, ToSet
  <2>2. CASE t.endpoint # "none"
    <3>1. endpoint = <<public>> /\ endpoint \in Seq({public})
      BY <2>2
    <3>2. DOMAIN endpoint = {1} /\ endpoint[1] = public
      BY <3>1
    <3> QED
      BY <1>3, <3>1, <3>2 DEF Ladder, Sequential, ToSet
  <2> QED
    BY <2>1, <2>2
<1>5. /\ Ladder(direct, 1, 2) /\ feed \in ToSet(direct)
      /\ \A m \in ToSet(direct) : m.status # "terminal"
  <2>1. direct \in Seq({feed, tier0, extract, headed})
    OBVIOUS
  <2>2. /\ DOMAIN direct = 1..4 /\ direct[1] = feed /\ direct[2] = tier0
        /\ direct[3] = extract /\ direct[4] = headed
    OBVIOUS
  <2>3. \A i \in 1..4 : i = 1 \/ i = 2 \/ i = 3 \/ i = 4
    OBVIOUS
  <2> HIDE DEF direct
  <2> QED
    BY <1>3, <2>1, <2>2, <2>3 DEF Ladder, Sequential, ToSet
<1>6. /\ Ladder(consented, 2, 3)
      /\ failure \in Terminal => consent \in ToSet(consented)
      /\ failure \notin Terminal => ToSet(consented) = {}
  <2>1. CASE failure \in Terminal
    <3>1. consented = <<consent>> /\ consented \in Seq({consent})
      BY <2>1
    <3>2. DOMAIN consented = {1} /\ consented[1] = consent
      BY <3>1
    <3>3. ToSet(consented) = {consent}
      BY <3>2 DEF ToSet
    <3>4. Sequential(consented)
      BY <3>1 DEF Sequential
    <3>5. Ladder(consented, 2, 3)
      BY <1>3, <3>2, <3>4 DEF Ladder
    <3> QED
      BY <2>1, <3>3, <3>5
  <2>2. CASE failure \notin Terminal
    BY <2>2 DEF Ladder, Sequential, ToSet
  <2> QED
    BY <2>1, <2>2
<1>7. Ladder(<<byo>>, 3, 4) /\ ToSet(<<byo>>) = {byo}
  <2>1. <<byo>> \in Seq({byo}) /\ DOMAIN <<byo>> = {1} /\ <<byo>>[1] = byo
    OBVIOUS
  <2>2. ToSet(<<byo>>) = {byo}
    BY <2>1 DEF ToSet
  <2>3. Sequential(<<byo>>)
    BY <2>1 DEF Sequential
  <2> QED
    BY <1>3, <2>1, <2>2, <2>3 DEF Ladder
<1> HIDE DEF endpoint, direct, consented
<1>8. Ladder(endpoint \o direct, 0, 2) /\ ToSet(endpoint \o direct) = ToSet(endpoint) \cup ToSet(direct)
  BY <1>4, <1>5, Climbing
<1>9. /\ Ladder(endpoint \o direct \o consented, 0, 3)
      /\ ToSet(endpoint \o direct \o consented) = ToSet(endpoint) \cup ToSet(direct) \cup ToSet(consented)
  BY <1>6, <1>8, Climbing
<1>10. /\ Ladder(methods, 0, 4)
       /\ ToSet(methods) = ToSet(endpoint) \cup ToSet(direct) \cup ToSet(consented) \cup {byo}
  BY <1>7, <1>9, Climbing
<1> HIDE DEF methods
<1>11. /\ failure \in Terminal => {m \in ToSet(methods) : m.status = "terminal"} # {}
       /\ failure \notin Terminal => {m \in ToSet(methods) : m.status = "terminal"} = {}
  BY <1>3, <1>4, <1>5, <1>6, <1>10
<1>12. \E m \in ToSet(methods) : m.tier = "feed" /\ m.status = "try"
  BY <1>3, <1>5, <1>10
<1>13. \A i, k \in DOMAIN methods : i < k => methods[i].phase <= methods[k].phase
  BY <1>10 DEF Ladder
<1> QED
  BY <1>2, <1>11, <1>12, <1>13 DEF plan

-----------------------------------------------------------------------------
\* A capture that begins without a browser.

\* The steps of a capture without a browser, and the gateways asked after it.
Direct == {"request", "page", "transcript", "structured"}
Gateways == {"jina_reader", "wayback_latest"}
Unserved == {"declined", "error"}
FromGateways == By("jina_reader") \cup By("wayback_latest")
GatewayPage(key) == [kind |-> "page", by |-> key, url |-> task.url]

\* What was asked for stays behind the fence, and was asked for no picture's sake.
AskedBehindFence ==
    /\ MaxRedirects \in Nat
    /\ Sequential(asked) /\ Len(asked) <= MaxRedirects + 1
    /\ \A i \in DOMAIN asked : Site[asked[i]].http /\ DomainAllowed(asked[i])
    /\ step \in Direct \/ asked # <<>> => TriesTier0(task)

\* What is kept of it is the last answer, once that was acquired.
KeptIsLast ==
    /\ step = "request" => By("http") = {}
    /\ step \in Direct \ {"request"} => asked # <<>> /\ Acquired(Last(asked))
    /\ \A p \in By("http") : asked # <<>> /\ p.url = Last(asked) /\ Acquired(p.url)

\* The plan is that of the obstructions, and a gateway is asked, in the end always,
\* for a public page behind no wall.
PlanIsFollowed ==
    LET open == met # {} /\ met \cap Walls = {}
        public == IsPublicHttpUrl(task.url)
    IN  /\ met \subseteq Kinds
        /\ step \in Direct \cup {"browser", "classify"} => met = {}
        /\ replan = IF met = {} THEN {} ELSE {PlanAcquisitionMethods(task, ObservedFailure(met))}
        /\ step \in {"reader", "archive", "snapshot"} \/ attempts # <<>> => open /\ public
        /\ step = "done" /\ open /\ public => attempts # <<>>

\* The gateways that were asked, by the step that follows.
GatewaysInOrder ==
    \/ attempts = <<>> /\ FromGateways = {} /\ step \notin {"archive", "snapshot"}
    \/ \E first \in Unserved :
          /\ attempts = <<<<"jina_reader", first>>>> /\ FromGateways = {}
          /\ step \in {"archive", "snapshot"}
    \/ /\ attempts = <<<<"jina_reader", "ok">>>>
       /\ By("jina_reader") = {GatewayPage("jina_reader")} /\ By("wayback_latest") = {}
       /\ step = "done"
    \/ \E first, second \in Unserved :
          /\ attempts = <<<<"jina_reader", first>>, <<"wayback_latest", second>>>> /\ FromGateways = {}
          /\ step = "done"
    \/ \E first \in Unserved :
          /\ attempts = <<<<"jina_reader", first>>, <<"wayback_latest", "ok">>>>
          /\ By("jina_reader") = {} /\ By("wayback_latest") = {GatewayPage("wayback_latest")}
          /\ step = "done"

AcquisitionInv == AskedBehindFence /\ KeptIsLast /\ PlanIsFollowed /\ GatewaysInOrder

\* One attempt, and another after it.
LEMMA TwoAttempts ==
    ASSUME NEW x, NEW y
    PROVE  Append(<<>>, x) = <<x>> /\ Append(<<x>>, y) = <<x, y>> /\ <<x>> # <<>> /\ <<x, y>> # <<>>
<1>1. <<>> \in Seq({x, y}) /\ <<x>> \in Seq({x, y}) /\ <<x, y>> \in Seq({x, y})
  OBVIOUS
<1>2. Len(<<>>) = 0 /\ Len(<<x>>) = 1 /\ Len(<<x, y>>) = 2
  OBVIOUS
<1>3. /\ Append(<<>>, x) \in Seq({x, y}) /\ Len(Append(<<>>, x)) = 1 /\ Append(<<>>, x)[1] = x
      /\ Append(<<x>>, y) \in Seq({x, y}) /\ Len(Append(<<x>>, y)) = 2
      /\ Append(<<x>>, y)[1] = x /\ Append(<<x>>, y)[2] = y
  <2>1. x \in {x, y} /\ y \in {x, y}
    OBVIOUS
  <2> QED
    BY <1>1, <1>2, <2>1, AppendProperties
<1>4. Append(<<>>, x) = <<x>>
  BY <1>1, <1>2, <1>3, SeqEqual
<1>5. Append(<<x>>, y) = <<x, y>>
  <2>1. \A i \in 1..2 : i = 1 \/ i = 2
    OBVIOUS
  <2>2. \A i \in 1..2 : Append(<<x>>, y)[i] = <<x, y>>[i]
    BY <1>3, <2>1
  <2> QED
    BY <1>1, <1>2, <1>3, <2>2, SeqEqual
<1> QED
  BY <1>2, <1>4, <1>5

\* The invariant holds at first.
LEMMA AcquisitionBegins == BrowserlessInit => AcquisitionInv
<1> SUFFICES ASSUME BrowserlessInit
             PROVE  AcquisitionInv
  OBVIOUS
<1> USE DEF BrowserlessInit
<1>1. AskedBehindFence
  BY BrowserlessAssumption DEF AskedBehindFence, Sequential, Direct
<1>2. KeptIsLast
  BY DEF KeptIsLast, By, Direct
<1>3. PlanIsFollowed
  BY DEF PlanIsFollowed, Direct
<1>4. GatewaysInOrder
  BY DEF GatewaysInOrder, FromGateways, By
<1> QED
  BY <1>1, <1>2, <1>3, <1>4 DEF AcquisitionInv

\* A hop is asked for.
LEMMA RequestKeeps == AcquisitionInv /\ Request => AcquisitionInv'
<1> SUFFICES ASSUME AcquisitionInv, Request
             PROVE  AcquisitionInv'
  OBVIOUS
<1> USE DEF AcquisitionInv, Direct
<1>1. step = "request" /\ step' \in {"request", "page", "browser"} /\ asked' = Append(asked, hop)
  BY DEF Request
<1>2. /\ task' = task /\ got' = got /\ met' = met /\ replan' = replan /\ attempts' = attempts
      /\ Len(asked) <= MaxRedirects /\ Site[hop].http /\ DomainAllowed(hop)
      /\ step' = "page" => Acquired(hop)
  BY DEF Request
<1>3. /\ Sequential(asked') /\ Len(asked) \in Nat /\ Len(asked') = Len(asked) + 1
      /\ DOMAIN asked = 1..Len(asked) /\ DOMAIN asked' = 1..Len(asked')
      /\ asked'[Len(asked) + 1] = hop /\ Last(asked') = hop
      /\ \A i \in 1..Len(asked) : asked'[i] = asked[i]
  BY <1>1, Appending DEF AskedBehindFence
<1>4. asked' # <<>>
  BY <1>3
<1>5. \A i \in DOMAIN asked' : Site[asked'[i]].http /\ DomainAllowed(asked'[i])
  BY <1>2, <1>3 DEF AskedBehindFence
<1>6. TriesTier0(task)
  BY <1>1 DEF AskedBehindFence
<1>7. By("http") = {} /\ By("http")' = {}
  BY <1>1, <1>2 DEF KeptIsLast, By
<1>8. AskedBehindFence'
  BY <1>2, <1>3, <1>5, <1>6 DEF AskedBehindFence, DomainAllowed, TriesTier0
<1>9. KeptIsLast'
  BY <1>1, <1>2, <1>3, <1>4, <1>7 DEF KeptIsLast, Acquired, WithinCap
<1>10. PlanIsFollowed'
  BY <1>1, <1>2 DEF PlanIsFollowed
<1>11. GatewaysInOrder'
  BY <1>1, <1>2 DEF GatewaysInOrder, FromGateways, By, GatewayPage
<1> QED
  BY <1>8, <1>9, <1>10, <1>11

\* The page and what is derived from it are kept.
LEMMA DeriveKeeps == AcquisitionInv /\ DeriveNext => AcquisitionInv'
<1> SUFFICES ASSUME AcquisitionInv, DeriveNext
             PROVE  AcquisitionInv'
  OBVIOUS
<1> USE DEF AcquisitionInv, Direct
<1>1. /\ step \in {"page", "transcript", "structured"} /\ step' \in {"transcript", "structured", "classify"}
      /\ UNCHANGED <<task, hop, asked, met, replan, attempts>>
  BY DEF DeriveNext, Derive
<1>2. got' = got \/ \E kind : got' = got \cup {[kind |-> kind, by |-> "http", url |-> Last(asked)]}
  BY DEF DeriveNext, Derive, Keep
<1>3. asked # <<>> /\ Acquired(Last(asked))
  BY <1>1 DEF KeptIsLast
<1>4. \A p \in By("http")' : p \in By("http") \/ p.url = Last(asked)
  BY <1>2 DEF By
<1>5. By("jina_reader")' = By("jina_reader") /\ By("wayback_latest")' = By("wayback_latest")
  BY <1>2 DEF By
<1>6. AskedBehindFence'
  BY <1>1 DEF AskedBehindFence, DomainAllowed, TriesTier0
<1>7. KeptIsLast'
  BY <1>1, <1>3, <1>4 DEF KeptIsLast, Acquired, WithinCap
<1>8. met = {} /\ attempts = <<>>
  <2>1. attempts = <<>>
    BY <1>1, TwoAttempts DEF GatewaysInOrder
  <2> QED
    BY <1>1, <2>1 DEF PlanIsFollowed
<1>9. PlanIsFollowed'
  BY <1>1, <1>8 DEF PlanIsFollowed
<1>10. GatewaysInOrder'
  BY <1>1, <1>5, <1>8 DEF GatewaysInOrder, FromGateways
<1> QED
  BY <1>6, <1>7, <1>9, <1>10

\* The browser takes over.
LEMMA DeclinesKeeps == AcquisitionInv /\ Declines => AcquisitionInv'
<1> SUFFICES ASSUME AcquisitionInv, Declines
             PROVE  AcquisitionInv'
  OBVIOUS
<1> USE DEF AcquisitionInv, Direct
<1>1. step \in Direct /\ step' = "browser" /\ UNCHANGED <<task, hop, asked, got, met, replan, attempts>>
  BY DEF Declines
<1>2. AskedBehindFence'
  BY <1>1 DEF AskedBehindFence, DomainAllowed, TriesTier0
<1>3. KeptIsLast'
  BY <1>1 DEF KeptIsLast, By, Acquired, WithinCap
<1>4. PlanIsFollowed'
  BY <1>1 DEF PlanIsFollowed
<1>5. GatewaysInOrder'
  BY <1>1 DEF GatewaysInOrder, FromGateways, By, GatewayPage
<1> QED
  BY <1>2, <1>3, <1>4, <1>5

\* The page is read, whoever brought it, and a plan is made of its obstructions.
LEMMA ClassifyKeeps == AcquisitionInv /\ Classify => AcquisitionInv'
<1> SUFFICES ASSUME AcquisitionInv, Classify
             PROVE  AcquisitionInv'
  OBVIOUS
<1> USE DEF AcquisitionInv, Direct
<1>1. step \in {"browser", "classify"} /\ UNCHANGED <<task, hop, asked, got, attempts>>
  BY DEF Classify
<1>2. PICK shows \in Screens :
        LET kinds == ClassifyBrowserObstructions(shows, task.social)
            plan == PlanAcquisitionMethods(task, ObservedFailure(kinds))
        IN  /\ met' = kinds
            /\ replan' = IF kinds = {} THEN {} ELSE {plan}
            /\ step' = IF kinds # {} /\ ShouldAttemptPublicGateway(plan) /\ IsPublicHttpUrl(task.url)
                       THEN "reader" ELSE "done"
  BY DEF Classify
<1> DEFINE plan == PlanAcquisitionMethods(task, ObservedFailure(met'))
<1>3. /\ met' \subseteq Kinds
      /\ replan' = IF met' = {} THEN {} ELSE {plan}
      /\ step' = IF met' # {} /\ ShouldAttemptPublicGateway(plan) /\ IsPublicHttpUrl(task.url)
                 THEN "reader" ELSE "done"
  BY <1>2, KnownKinds
<1>4. ASSUME met' # {}
      PROVE  ShouldAttemptPublicGateway(plan) <=> met' \cap Walls = {}
  <2>1. /\ plan.failure = ObservedFailure(met')
        /\ \E m \in ToSet(plan.methods) : m.tier = "feed" /\ m.status = "try"
    BY PlanOfMethods
  <2>2. ObservedFailure(met') # "none" /\ (ObservedFailure(met') \in Terminal <=> met' \cap Walls # {})
    BY <1>3, <1>4, WallsObserved
  <2> QED
    BY <2>1, <2>2 DEF ShouldAttemptPublicGateway
<1> HIDE DEF plan
<1>5. attempts = <<>> /\ FromGateways = {} /\ FromGateways' = {}
  <2>1. attempts = <<>> /\ FromGateways = {}
    BY <1>1 DEF GatewaysInOrder
  <2> QED
    BY <1>1, <2>1 DEF FromGateways, By
<1>6. AskedBehindFence'
  BY <1>1, <1>3 DEF AskedBehindFence, DomainAllowed, TriesTier0
<1>7. KeptIsLast'
  BY <1>1, <1>3 DEF KeptIsLast, By, Acquired, WithinCap
<1>8. PlanIsFollowed'
  <2>1. plan = PlanAcquisitionMethods(task, ObservedFailure(met))'
    BY <1>1 DEF plan, PlanAcquisitionMethods
  <2>2. IsPublicHttpUrl(task.url)' <=> IsPublicHttpUrl(task.url)
    BY <1>1 DEF IsPublicHttpUrl
  <2>3. attempts' = <<>> /\ step' \in {"reader", "done"}
    BY <1>1, <1>3, <1>5
  <2>4. step' = "reader" <=> met' # {} /\ met' \cap Walls = {} /\ IsPublicHttpUrl(task.url)
    BY <1>3, <1>4
  <2> QED
    BY <1>3, <2>1, <2>2, <2>3, <2>4 DEF PlanIsFollowed
<1>9. GatewaysInOrder'
  BY <1>1, <1>3, <1>5 DEF GatewaysInOrder
<1> QED
  BY <1>6, <1>7, <1>8, <1>9

\* What a gateway may leave alone: everything but its attempt, its page and the step.
LEMMA GatewaySteps ==
    ASSUME AcquisitionInv, UNCHANGED <<task, hop, asked, met, replan>>, By("http")' = By("http"),
           step' \in {"archive", "snapshot", "done"}, step \in {"reader", "archive", "snapshot"},
           step' = "done" => attempts' # <<>>, GatewaysInOrder'
    PROVE  AcquisitionInv'
<1> USE DEF AcquisitionInv, Direct
<1>1. AskedBehindFence'
  BY DEF AskedBehindFence, DomainAllowed, TriesTier0
<1>2. KeptIsLast'
  BY DEF KeptIsLast, Acquired, WithinCap
<1>3. PlanIsFollowed'
  BY DEF PlanIsFollowed
<1> QED
  BY <1>1, <1>2, <1>3

\* The reader's text is asked for.
LEMMA ReaderKeeps == AcquisitionInv /\ TryGateway("jina_reader", "reader", "archive") => AcquisitionInv'
<1> SUFFICES ASSUME AcquisitionInv, TryGateway("jina_reader", "reader", "archive")
             PROVE  AcquisitionInv'
  OBVIOUS
<1> USE DEF AcquisitionInv
<1>1. step = "reader" /\ UNCHANGED <<task, hop, asked, met, replan>>
  BY DEF TryGateway
<1>2. attempts = <<>> /\ FromGateways = {}
  BY <1>1 DEF GatewaysInOrder
<1>3. \/ /\ got' = got \cup {GatewayPage("jina_reader")} /\ step' = "done"
         /\ attempts' = Append(attempts, <<"jina_reader", "ok">>)
      \/ /\ got' = got /\ step' = "archive"
         /\ \E first \in Unserved : attempts' = Append(attempts, <<"jina_reader", first>>)
  BY DEF TryGateway, Attempted, GatewayPage, Unserved
<1>4. GatewayPage("jina_reader").by = "jina_reader" /\ GatewayPage("jina_reader")' = GatewayPage("jina_reader")
  BY <1>1 DEF GatewayPage
<1>5. By("http")' = By("http") /\ By("wayback_latest")' = {}
  BY <1>2, <1>3, <1>4 DEF By, FromGateways
<1>6. CASE /\ got' = got \cup {GatewayPage("jina_reader")} /\ step' = "done"
           /\ attempts' = Append(attempts, <<"jina_reader", "ok">>)
  <2>1. By("jina_reader")' = {GatewayPage("jina_reader")}
    BY <1>2, <1>4, <1>6 DEF By, FromGateways
  <2>2. attempts' = <<<<"jina_reader", "ok">>>> /\ attempts' # <<>>
    BY <1>2, <1>6, TwoAttempts
  <2>3. GatewaysInOrder'
    BY <1>4, <1>5, <1>6, <2>1, <2>2 DEF GatewaysInOrder
  <2> QED
    BY <1>1, <1>5, <1>6, <2>2, <2>3, GatewaySteps
<1>7. CASE /\ got' = got /\ step' = "archive"
           /\ \E first \in Unserved : attempts' = Append(attempts, <<"jina_reader", first>>)
  <2>1. \E first \in Unserved : attempts' = <<<<"jina_reader", first>>>>
    BY <1>2, <1>7, TwoAttempts
  <2>2. FromGateways' = {}
    BY <1>2, <1>7 DEF By, FromGateways
  <2>3. GatewaysInOrder'
    BY <1>7, <2>1, <2>2 DEF GatewaysInOrder
  <2> QED
    BY <1>1, <1>5, <1>7, <2>3, GatewaySteps
<1> QED
  BY <1>3, <1>6, <1>7

\* The archive is asked for its latest snapshot.
LEMMA AvailabilityKeeps == AcquisitionInv /\ AskAvailability => AcquisitionInv'
<1> SUFFICES ASSUME AcquisitionInv, AskAvailability
             PROVE  AcquisitionInv'
  OBVIOUS
<1> USE DEF AcquisitionInv
<1>1. step = "archive" /\ UNCHANGED <<task, hop, asked, got, met, replan>>
  BY DEF AskAvailability
<1>2. FromGateways = {} /\ \E first \in Unserved : attempts = <<<<"jina_reader", first>>>>
  BY <1>1 DEF GatewaysInOrder
<1>3. \/ step' = "snapshot" /\ attempts' = attempts
      \/ /\ step' = "done"
         /\ \E second \in Unserved : attempts' = Append(attempts, <<"wayback_latest", second>>)
  BY DEF AskAvailability, Attempted, Unserved
<1>4. FromGateways' = {} /\ By("http")' = By("http")
  BY <1>1, <1>2 DEF FromGateways, By
<1>5. CASE step' = "snapshot" /\ attempts' = attempts
  <2>1. GatewaysInOrder'
    BY <1>2, <1>4, <1>5 DEF GatewaysInOrder
  <2> QED
    BY <1>1, <1>4, <1>5, <2>1, GatewaySteps
<1>6. CASE /\ step' = "done"
           /\ \E second \in Unserved : attempts' = Append(attempts, <<"wayback_latest", second>>)
  <2>1. \E first, second \in Unserved : attempts' = <<<<"jina_reader", first>>, <<"wayback_latest", second>>>>
    BY <1>2, <1>6, TwoAttempts
  <2>2. GatewaysInOrder' /\ attempts' # <<>>
    BY <1>4, <1>6, <2>1, TwoAttempts DEF GatewaysInOrder
  <2> QED
    BY <1>1, <1>4, <1>6, <2>2, GatewaySteps
<1> QED
  BY <1>3, <1>5, <1>6

\* The snapshot is asked for.
LEMMA SnapshotKeeps == AcquisitionInv /\ TryGateway("wayback_latest", "snapshot", "done") => AcquisitionInv'
<1> SUFFICES ASSUME AcquisitionInv, TryGateway("wayback_latest", "snapshot", "done")
             PROVE  AcquisitionInv'
  OBVIOUS
<1> USE DEF AcquisitionInv
<1>1. step = "snapshot" /\ step' = "done" /\ UNCHANGED <<task, hop, asked, met, replan>>
  BY DEF TryGateway
<1>2. FromGateways = {} /\ \E first \in Unserved : attempts = <<<<"jina_reader", first>>>>
  BY <1>1 DEF GatewaysInOrder
<1>3. \/ /\ got' = got \cup {GatewayPage("wayback_latest")}
         /\ attempts' = Append(attempts, <<"wayback_latest", "ok">>)
      \/ /\ got' = got
         /\ \E second \in Unserved : attempts' = Append(attempts, <<"wayback_latest", second>>)
  BY DEF TryGateway, Attempted, GatewayPage, Unserved
<1>4. /\ GatewayPage("wayback_latest").by = "wayback_latest"
      /\ GatewayPage("wayback_latest")' = GatewayPage("wayback_latest")
  BY <1>1 DEF GatewayPage
<1>5. By("http")' = By("http") /\ By("jina_reader")' = {}
  BY <1>2, <1>3, <1>4 DEF By, FromGateways
<1>6. CASE /\ got' = got \cup {GatewayPage("wayback_latest")}
           /\ attempts' = Append(attempts, <<"wayback_latest", "ok">>)
  <2>1. By("wayback_latest")' = {GatewayPage("wayback_latest")}
    BY <1>2, <1>4, <1>6 DEF By, FromGateways
  <2>2. \E first \in Unserved : attempts' = <<<<"jina_reader", first>>, <<"wayback_latest", "ok">>>>
    BY <1>2, <1>6, TwoAttempts
  <2>3. GatewaysInOrder' /\ attempts' # <<>>
    BY <1>1, <1>4, <1>5, <2>1, <2>2, TwoAttempts DEF GatewaysInOrder
  <2> QED
    BY <1>1, <1>5, <2>3, GatewaySteps
<1>7. CASE /\ got' = got
           /\ \E second \in Unserved : attempts' = Append(attempts, <<"wayback_latest", second>>)
  <2>1. \E first, second \in Unserved : attempts' = <<<<"jina_reader", first>>, <<"wayback_latest", second>>>>
    BY <1>2, <1>7, TwoAttempts
  <2>2. FromGateways' = {}
    BY <1>2, <1>7 DEF By, FromGateways
  <2>3. GatewaysInOrder' /\ attempts' # <<>>
    BY <1>1, <2>1, <2>2, TwoAttempts DEF GatewaysInOrder
  <2> QED
    BY <1>1, <1>5, <2>3, GatewaySteps
<1> QED
  BY <1>3, <1>6, <1>7

-----------------------------------------------------------------------------
\* What the invariant says of the run.

\* It says that the fence holds.
LEMMA FenceHolds == AcquisitionInv => StaysWithinFence
  BY DEF AcquisitionInv, AskedBehindFence, KeptIsLast, StaysWithinFence

\* It says that walls end it, and other obstructions do not.
LEMMA WallsDoEndIt == AcquisitionInv => WallsEndIt
<1> SUFFICES ASSUME AcquisitionInv
             PROVE  WallsEndIt
  OBVIOUS
<1> USE DEF AcquisitionInv
<1> DEFINE plan == CHOOSE p \in replan : TRUE
           made == PlanAcquisitionMethods(task, ObservedFailure(met))
           terminal == {m \in ToSet(plan.methods) : m.status = "terminal"}
           wall == met \cap {"bot_block", "login_wall", "age_gate", "region_gate"} # {}
<1>1. /\ met = {} <=> replan = {}
      /\ met # {} => replan = {made}
      /\ met \subseteq Kinds
      /\ wall <=> met \cap Walls # {}
  BY DEF PlanIsFollowed, Walls
<1>2. met # {} => plan = made
  BY <1>1
<1>3. wall => met # {}
  OBVIOUS
<1>4. met # {} => (ObservedFailure(met) \in Terminal <=> wall)
  BY <1>1, WallsObserved
<1>5. LET own == {m \in ToSet(made.methods) : m.status = "terminal"}
      IN  /\ (ObservedFailure(met) \in Terminal) => own # {} /\ ~made.escalates
          /\ (ObservedFailure(met) \notin Terminal) => own = {} /\ made.escalates
          /\ \A i, k \in DOMAIN made.methods : i < k => made.methods[i].phase <= made.methods[k].phase
  BY PlanOfMethods
<1> HIDE DEF plan, made
<1>6. met # {} => /\ wall => terminal # {} /\ ~plan.escalates
                  /\ ~wall => terminal = {} /\ plan.escalates
                  /\ \A i, k \in DOMAIN plan.methods : i < k => plan.methods[i].phase <= plan.methods[k].phase
  BY <1>2, <1>4, <1>5
<1>7. wall => attempts = <<>>
  BY <1>1 DEF PlanIsFollowed
<1>8. step = "done" /\ met # {} /\ ~wall => (attempts # <<>> <=> IsPublicHttpUrl(task.url))
  BY <1>1 DEF PlanIsFollowed
<1> HIDE DEF wall, terminal
<1>9. /\ met = {} <=> replan = {}
      /\ wall => attempts = <<>> /\ terminal # {} /\ ~plan.escalates
      /\ met # {} /\ ~wall => terminal = {} /\ plan.escalates
      /\ step = "done" /\ met # {} /\ ~wall => (attempts # <<>> <=> IsPublicHttpUrl(task.url))
      /\ met # {} => \A i, k \in DOMAIN plan.methods : i < k => plan.methods[i].phase <= plan.methods[k].phase
  <2>1. wall => met # {}
    BY <1>3 DEF wall
  <2> QED
    BY <1>1, <1>6, <1>7, <1>8, <2>1
<1> QED
  BY <1>9 DEF WallsEndIt, wall, terminal, plan

\* It says that one gateway serves at most, the last to be asked.
LEMMA OneServes == AcquisitionInv => OneGateway
<1> SUFFICES ASSUME AcquisitionInv
             PROVE  OneGateway
  OBVIOUS
<1> DEFINE served == {i \in DOMAIN attempts : attempts[i][2] = "ok"}
           keys == {attempts[i][1] : i \in DOMAIN attempts}
<1>1. \A x : Cardinality({x}) = 1
  BY FS_Singleton
<1>2. Cardinality({}) = 0
  BY FS_EmptySet
<1>3. Cardinality(Gateways) = 2
  <2>1. /\ Cardinality({"jina_reader"} \cup {"wayback_latest"}) = Cardinality({"jina_reader"}) + 1
    BY FS_Singleton, FS_AddElement
  <2>2. Gateways = {"jina_reader"} \cup {"wayback_latest"}
    BY DEF Gateways
  <2> QED
    BY <1>1, <2>1, <2>2
<1>4. "ok" \notin Unserved
  BY DEF Unserved
<1>5. \A i \in 1..2 : i = 1 \/ i = 2
  OBVIOUS
<1> SUFFICES /\ \A i \in DOMAIN attempts : attempts[i][2] = "ok" => i = Len(attempts) /\ By(attempts[i][1]) # {}
             /\ Cardinality(FromGateways) = Cardinality(served)
             /\ Cardinality(keys) = Len(attempts)
  BY DEF OneGateway, FromGateways
<1>6. CASE attempts = <<>> /\ FromGateways = {}
  <2>1. DOMAIN attempts = {} /\ Len(attempts) = 0
    BY <1>6
  <2>2. served = {} /\ keys = {}
    BY <2>1
  <2> QED
    BY <1>2, <1>6, <2>1, <2>2
<1>7. ASSUME NEW first \in Unserved, attempts = <<<<"jina_reader", first>>>>, FromGateways = {}
      PROVE  OneGateway
  <2>1. DOMAIN attempts = {1} /\ Len(attempts) = 1 /\ attempts[1][1] = "jina_reader" /\ attempts[1][2] = first
    BY <1>7
  <2>2. served = {} /\ keys = {"jina_reader"}
    BY <1>4, <2>1
  <2> QED
    BY <1>1, <1>2, <1>4, <1>7, <2>1, <2>2 DEF OneGateway, FromGateways
<1>8. CASE /\ attempts = <<<<"jina_reader", "ok">>>>
           /\ By("jina_reader") = {GatewayPage("jina_reader")} /\ By("wayback_latest") = {}
  <2>1. DOMAIN attempts = {1} /\ Len(attempts) = 1 /\ attempts[1][1] = "jina_reader" /\ attempts[1][2] = "ok"
    BY <1>8
  <2>2. served = {1} /\ keys = {"jina_reader"} /\ FromGateways = {GatewayPage("jina_reader")}
    BY <1>8, <2>1 DEF FromGateways
  <2> QED
    BY <1>1, <1>8, <2>1, <2>2
<1>9. ASSUME NEW first \in Unserved, NEW second \in Unserved, FromGateways = {},
             attempts = <<<<"jina_reader", first>>, <<"wayback_latest", second>>>>
      PROVE  OneGateway
  <2>1. /\ DOMAIN attempts = 1..2 /\ Len(attempts) = 2
        /\ attempts[1][1] = "jina_reader" /\ attempts[1][2] = first
        /\ attempts[2][1] = "wayback_latest" /\ attempts[2][2] = second
    BY <1>9
  <2>2. served = {} /\ keys = Gateways
    BY <1>4, <1>5, <2>1 DEF Gateways
  <2> QED
    BY <1>2, <1>3, <1>4, <1>5, <1>9, <2>1, <2>2 DEF OneGateway, FromGateways
<1>10. ASSUME NEW first \in Unserved,
              attempts = <<<<"jina_reader", first>>, <<"wayback_latest", "ok">>>>,
              By("jina_reader") = {}, By("wayback_latest") = {GatewayPage("wayback_latest")}
       PROVE  OneGateway
  <2>1. /\ DOMAIN attempts = 1..2 /\ Len(attempts) = 2
        /\ attempts[1][1] = "jina_reader" /\ attempts[1][2] = first
        /\ attempts[2][1] = "wayback_latest" /\ attempts[2][2] = "ok"
    BY <1>10
  <2>2. served = {2} /\ keys = Gateways /\ FromGateways = {GatewayPage("wayback_latest")}
    BY <1>4, <1>5, <1>10, <2>1 DEF Gateways, FromGateways
  <2>3. ASSUME NEW i \in DOMAIN attempts, attempts[i][2] = "ok"
        PROVE  i = Len(attempts) /\ By(attempts[i][1]) # {}
    <3>1. i = 2
      BY <1>4, <1>5, <2>1, <2>3
    <3> QED
      BY <1>10, <2>1, <3>1
  <2>4. Cardinality(FromGateways) = Cardinality(served) /\ Cardinality(keys) = Len(attempts)
    BY <1>1, <1>3, <2>1, <2>2
  <2> QED
    BY <2>3, <2>4 DEF OneGateway, FromGateways
<1> QED
  BY <1>6, <1>7, <1>8, <1>9, <1>10 DEF AcquisitionInv, GatewaysInOrder, OneGateway, FromGateways

\* It says that pictures are seen.
LEMMA PicturesDoGetSeen == AcquisitionInv => PicturesAreSeen
<1> SUFFICES ASSUME AcquisitionInv, RecommendedOptions(task).ocr
             PROVE  asked = <<>> /\ By("http") = {}
  BY DEF PicturesAreSeen
<1>1. ~TriesTier0(task)
  BY PicturesNeedBrowser
<1>2. asked = <<>>
  BY <1>1 DEF AcquisitionInv, AskedBehindFence
<1> QED
  BY <1>2 DEF AcquisitionInv, KeptIsLast

\* A run that begins without a browser, and may stop anywhere.
BrowserlessSpec == BrowserlessInit /\ [][BrowserlessNext]_browserlessVars

\* However a site answers and redirects, and whatever its page shows, be it a
\* browser's or one that plain HTTP brought: the run stays behind its fence, ends at
\* a wall, takes one gateway's text at most and leaves pictures to a browser.  (http-tier0-capture.ts, evidence-runner.ts)
THEOREM AcquiredHonestly == BrowserlessSpec => []ComesByItHonestly
<1>1. BrowserlessInit => AcquisitionInv
  BY AcquisitionBegins
<1>2. AcquisitionInv /\ [BrowserlessNext]_browserlessVars => AcquisitionInv'
  <2> SUFFICES ASSUME AcquisitionInv, [BrowserlessNext]_browserlessVars
               PROVE  AcquisitionInv'
    OBVIOUS
  <2>1. CASE Request
    BY <2>1, RequestKeeps
  <2>2. CASE DeriveNext
    BY <2>2, DeriveKeeps
  <2>3. CASE Declines
    BY <2>3, DeclinesKeeps
  <2>4. CASE Classify
    BY <2>4, ClassifyKeeps
  <2>5. CASE TryGateway("jina_reader", "reader", "archive")
    BY <2>5, ReaderKeeps
  <2>6. CASE AskAvailability
    BY <2>6, AvailabilityKeeps
  <2>7. CASE TryGateway("wayback_latest", "snapshot", "done")
    BY <2>7, SnapshotKeeps
  <2>8. CASE UNCHANGED browserlessVars
    <3> USE <2>8 DEF browserlessVars
    <3>1. AskedBehindFence'
      BY DEF AcquisitionInv, AskedBehindFence, DomainAllowed, TriesTier0
    <3>2. KeptIsLast'
      BY DEF AcquisitionInv, KeptIsLast, By, Acquired, WithinCap
    <3>3. PlanIsFollowed'
      BY DEF AcquisitionInv, PlanIsFollowed
    <3>4. GatewaysInOrder'
      BY DEF AcquisitionInv, GatewaysInOrder, FromGateways, By, GatewayPage
    <3> QED
      BY <3>1, <3>2, <3>3, <3>4 DEF AcquisitionInv
  <2> QED
    BY <2>1, <2>2, <2>3, <2>4, <2>5, <2>6, <2>7, <2>8 DEF BrowserlessNext
<1>3. AcquisitionInv => ComesByItHonestly
  BY FenceHolds, WallsDoEndIt, OneServes, PicturesDoGetSeen DEF ComesByItHonestly
<1> QED
  BY <1>1, <1>2, <1>3, PTL DEF BrowserlessSpec

-----------------------------------------------------------------------------
\* The official APIs.

Templates == LookupTemplates(api.platform)
Called(key) == api.media /\ api.credential[key] = "set"

\* A row that is what the readiness report foretold of the lookup.
Accounted(i) ==
    /\ apiRows[i].key = Templates[i]
    /\ apiRows[i].called \in BOOLEAN /\ (apiRows[i].called <=> Called(Templates[i]))
    /\ apiRows[i].status = "missing_media_id" <=> ~api.media

\* The rows and what is left of the lookups make up the list of the platform's.
ApiInv ==
    /\ api \in ApiTasks
    /\ Sequential(apiRows) /\ Sequential(lookups)
    /\ apiStep \in {"start", "calls", "done", "aborted"}
    /\ apiStep = "start" \/ ~api.enabled => apiRows = <<>> /\ lookups = <<>>
    /\ apiStep \in {"calls", "aborted"} => api.enabled
    /\ Len(apiRows) + Len(lookups) <= Len(Templates)
    /\ apiStep # "start" /\ api.enabled => Len(apiRows) + Len(lookups) = Len(Templates)
    /\ \A i \in 1..Len(lookups) : lookups[i] = Templates[Len(apiRows) + i]
    /\ lookups # <<>> => api.media
    /\ \A i \in DOMAIN apiRows : Accounted(i)
    /\ apiStep = "done" /\ api.enabled => lookups = <<>> /\ apiCache # {}
    /\ apiStep = "aborted" => lookups # <<>>
    /\ apiStep # "done" => apiCache = {}

\* Each platform has a list of lookups.
LEMMA TemplatesAreLists == ASSUME NEW platform PROVE Sequential(LookupTemplates(platform))
<1>1. /\ <<"youtube-videos", "youtube-captions">> \in Seq({"youtube-videos", "youtube-captions"})
      /\ <<"instagram-media">> \in Seq({"instagram-media"})
      /\ <<"tiktok-video-query", "tiktok-research-video-query">> \in
             Seq({"tiktok-video-query", "tiktok-research-video-query"})
      /\ <<>> \in Seq({})
  OBVIOUS
<1>2. \/ LookupTemplates(platform) = <<"youtube-videos", "youtube-captions">>
      \/ LookupTemplates(platform) = <<"instagram-media">>
      \/ LookupTemplates(platform) = <<"tiktok-video-query", "tiktok-research-video-query">>
      \/ LookupTemplates(platform) = <<>>
  BY DEF LookupTemplates
<1> HIDE DEF LookupTemplates
<1> QED
  BY <1>1, <1>2 DEF Sequential

\* A platform's lookup has a credential, in some state.
LEMMA CredentialsKnown ==
    ASSUME api \in ApiTasks, NEW i \in DOMAIN Templates
    PROVE  api.credential[Templates[i]] \in {"absent", "unset", "set"}
<1>1. Templates[i] \in ToSet(LookupTemplates(api.platform))
  BY DEF ToSet, Templates
<1> QED
  BY <1>1, ApiAssumption

\* Each row is of a lookup, before those that are left.
LEMMA ApiBegins == ApiInit => ApiInv
<1> SUFFICES ASSUME ApiInit
             PROVE  ApiInv
  OBVIOUS
<1>1. Len(Templates) \in Nat
  BY TemplatesAreLists, Lengths DEF Templates
<1>2. Sequential(<<>>) /\ Len(<<>>) = 0 /\ DOMAIN <<>> = {}
  BY DEF Sequential
<1> QED
  BY <1>1, <1>2 DEF ApiInit, ApiInv

\* The lookups are listed, or said to lack a medium.
LEMMA BeginKeeps == ApiInv /\ BeginCalls => ApiInv'
<1> SUFFICES ASSUME ApiInv, BeginCalls
             PROVE  ApiInv'
  OBVIOUS
<1> USE DEF ApiInv
<1>1. /\ apiStep = "start" /\ api.enabled /\ lookups' = BuildLookups(api) /\ apiStep' = "calls"
      /\ UNCHANGED <<api, apiCache>>
      /\ apiRows' = IF api.media THEN <<>>
                    ELSE [i \in DOMAIN Templates |-> ApiRow(Templates[i], "missing_media_id", FALSE)]
  BY DEF BeginCalls, Templates
<1>2. /\ Len(Templates) \in Nat /\ DOMAIN Templates = 1..Len(Templates)
      /\ Templates' = Templates /\ Sequential(Templates)
  BY <1>1, TemplatesAreLists, Lengths DEF Templates
<1>3. Sequential(<<>>) /\ Len(<<>>) = 0 /\ DOMAIN <<>> = {}
  BY DEF Sequential
<1>4. CASE api.media
  <2>1. lookups' = Templates /\ apiRows' = <<>>
    BY <1>1, <1>4 DEF BuildLookups, Templates
  <2> QED
    BY <1>1, <1>2, <1>3, <1>4, <2>1
<1>5. CASE ~api.media
  <2> DEFINE row(i) == ApiRow(Templates[i], "missing_media_id", FALSE)
             S == {row(i) : i \in DOMAIN Templates}
  <2>1. lookups' = <<>> /\ apiRows' = [i \in 1..Len(Templates) |-> row(i)]
    BY <1>1, <1>2, <1>5 DEF BuildLookups
  <2>2. apiRows' \in [1..Len(Templates) -> S] /\ DOMAIN apiRows' = 1..Len(Templates)
    BY <1>2, <2>1
  <2>3. apiRows' \in Seq(S)
    BY <1>2, <2>2, SeqDef
  <2>4. Len(apiRows') = Len(Templates)
    <3>1. Len(apiRows') \in Nat /\ DOMAIN apiRows' = 1..Len(apiRows')
      BY <2>3, LenProperties
    <3>2. 1..Len(apiRows') = 1..Len(Templates)
      BY <2>2, <3>1
    <3> QED
      BY <1>2, <3>1, <3>2, SameLength
  <2>5. ASSUME NEW i \in DOMAIN apiRows'
        PROVE  Accounted(i)'
    <3>1. apiRows'[i] = [key |-> Templates[i], status |-> "missing_media_id", called |-> FALSE]
      BY <2>1, <2>2, <2>5 DEF ApiRow
    <3> QED
      <4>1. Templates'[i] = Templates[i] /\ api' = api
        BY <1>1, <1>2
      <4>2. /\ apiRows'[i].key = Templates[i] /\ apiRows'[i].status = "missing_media_id"
            /\ apiRows'[i].called = FALSE
        BY <3>1
      <4> QED
        BY <1>5, <4>1, <4>2 DEF Accounted, Called
  <2>6. Sequential(apiRows')
    BY <2>3 DEF Sequential
  <2>7. \A i \in 1..Len(lookups') : lookups'[i] = Templates'[Len(apiRows') + i]
    BY <1>3, <2>1
  <2>8. lookups' = <<>> /\ Len(lookups') = 0 /\ Sequential(lookups')
    BY <1>3, <2>1
  <2>9. apiCache' = {} /\ api' \in ApiTasks /\ api'.enabled /\ apiStep' = "calls"
    BY <1>1
  <2>10. Len(apiRows') + Len(lookups') = Len(Templates') /\ Len(Templates') \in Nat
    <3>1. Len(Templates') = Len(Templates) /\ Len(Templates) \in Nat
      BY <1>2
    <3>2. \A m \in Nat : m + 0 = m
      OBVIOUS
    <3>3. Len(apiRows') + Len(lookups') = Len(Templates) + 0
      BY Zenon, <2>4, <2>8
    <3> QED
      BY <3>1, <3>2, <3>3
  <2>11. \A i \in DOMAIN apiRows' : Accounted(i)'
    BY <2>5
  <2> HIDE DEF S, row
  <2> QED
    BY <2>6, <2>7, <2>8, <2>9, <2>10, <2>11
<1> QED
  BY <1>4, <1>5

\* One lookup after the other comes to a row.
LEMMA LookupKeeps == ApiInv /\ Lookup => ApiInv'
<1> SUFFICES ASSUME ApiInv, Lookup
             PROVE  ApiInv'
  OBVIOUS
<1> USE DEF ApiInv
<1> DEFINE key == Head(lookups)
<1>1. /\ apiStep = "calls" /\ lookups # <<>> /\ lookups' = Tail(lookups)
      /\ UNCHANGED <<api, apiCache, apiStep>>
  BY DEF Lookup
<1>2. PICK row : /\ apiRows' = Append(apiRows, row)
                 /\ row.key = key /\ row.called \in BOOLEAN /\ (row.called <=> api.credential[key] = "set")
                 /\ row.status \in {"credential-required", "ok", "error"}
  <2>1. CASE api.credential[key] # "set"
    <3>1. apiRows' = Append(apiRows, ApiRow(key, "credential-required", FALSE))
      BY <2>1 DEF Lookup
    <3> DEFINE row == ApiRow(key, "credential-required", FALSE)
    <3>2. row.key = key /\ row.called = FALSE /\ row.status = "credential-required"
      BY DEF ApiRow
    <3> HIDE DEF row
    <3> WITNESS row
    <3> QED
      BY <2>1, <3>1, <3>2 DEF row
  <2>2. CASE api.credential[key] = "set"
    <3>1. PICK status \in {"ok", "error"} : apiRows' = Append(apiRows, ApiRow(key, status, TRUE))
      BY <2>2 DEF Lookup
    <3> DEFINE row == ApiRow(key, status, TRUE)
    <3>2. row.key = key /\ row.called = TRUE /\ row.status = status
      BY DEF ApiRow
    <3> HIDE DEF row
    <3> WITNESS row
    <3> QED
      BY <2>2, <3>1, <3>2 DEF row
  <2> QED
    BY <2>1, <2>2
<1>3. /\ Len(Templates) \in Nat /\ DOMAIN Templates = 1..Len(Templates) /\ Templates' = Templates
  BY <1>1, TemplatesAreLists, Lengths DEF Templates
<1>4. /\ Len(lookups) \in Nat \ {0} /\ key = lookups[1]
      /\ Sequential(lookups') /\ Len(lookups') = Len(lookups) - 1
      /\ \A i \in 1..Len(lookups') : lookups'[i] = lookups[i + 1]
  BY <1>1, Heading
<1>5. /\ Sequential(apiRows') /\ Len(apiRows) \in Nat /\ DOMAIN apiRows = 1..Len(apiRows)
      /\ DOMAIN apiRows' = 1..Len(apiRows') /\ Len(apiRows') = Len(apiRows) + 1
      /\ apiRows'[Len(apiRows) + 1] = row
      /\ \A i \in 1..Len(apiRows) : apiRows'[i] = apiRows[i]
  BY <1>2, Appending
<1> HIDE DEF key
<1>6. key = Templates[Len(apiRows) + 1] /\ api.media
  BY <1>1, <1>4, <1>5
<1>7. ASSUME NEW i \in DOMAIN apiRows'
      PROVE  Accounted(i)'
  <2>1. CASE i = Len(apiRows) + 1
    BY <1>1, <1>2, <1>3, <1>5, <1>6, <2>1 DEF Accounted, Called
  <2>2. CASE i \in DOMAIN apiRows
    BY <1>1, <1>3, <1>5, <2>2 DEF Accounted, Called
  <2> QED
    BY <1>5, <2>1, <2>2
<1>8. ASSUME NEW i \in 1..Len(lookups')
      PROVE  lookups'[i] = Templates'[Len(apiRows') + i]
  <2>1. i + 1 \in 1..Len(lookups) /\ lookups'[i] = lookups[i + 1]
    BY <1>4
  <2>2. lookups[i + 1] = Templates[Len(apiRows) + (i + 1)]
    BY <2>1
  <2>3. Len(apiRows) + (i + 1) = Len(apiRows') + i
    BY <1>5
  <2> QED
    BY <1>3, <2>1, <2>2, <2>3
<1>9. Len(apiRows') + Len(lookups') = Len(apiRows) + Len(lookups)
  BY <1>4, <1>5
<1> QED
  BY <1>1, <1>3, <1>4, <1>5, <1>6, <1>7, <1>8, <1>9

\* The calls end, or are left.
LEMMA EndKeeps == ApiInv /\ (Disabled \/ AbortCalls \/ ListCalls \/ UNCHANGED apiVars) => ApiInv'
<1> SUFFICES ASSUME ApiInv, Disabled \/ AbortCalls \/ ListCalls \/ UNCHANGED apiVars
             PROVE  ApiInv'
  OBVIOUS
<1>1. UNCHANGED <<api, lookups, apiRows>>
  BY DEF Disabled, AbortCalls, ListCalls, apiVars
<1>2. Templates' = Templates /\ \A i : Accounted(i)' <=> Accounted(i)
  BY <1>1 DEF Templates, Accounted, Called
<1>3. CASE Disabled
  BY <1>1, <1>2, <1>3 DEF ApiInv, Disabled
<1>4. CASE AbortCalls
  BY <1>1, <1>2, <1>4 DEF ApiInv, AbortCalls
<1>5. CASE ListCalls
  <2>1. apiCache' # {} /\ lookups = <<>> /\ apiStep = "calls" /\ apiStep' = "done"
    BY <1>5 DEF ListCalls
  <2> QED
    BY <1>1, <1>2, <2>1 DEF ApiInv
<1>6. CASE UNCHANGED apiVars
  BY <1>1, <1>2, <1>6 DEF ApiInv, apiVars
<1> QED
  BY <1>3, <1>4, <1>5, <1>6

-----------------------------------------------------------------------------
\* What was foretold.

\* Some of a list's places are all of them if they are as many.
LEMMA AllPlaces ==
    ASSUME NEW n \in Nat, NEW S \in SUBSET (1..n)
    PROVE  Cardinality(S) \in Nat /\ (Cardinality(S) = n <=> S = 1..n)
<1>1. IsFiniteSet(1..n) /\ Cardinality(1..n) = n
  BY FS_Interval
<1>2. IsFiniteSet(S) /\ Cardinality(S) <= n /\ (Cardinality(S) = Cardinality(1..n) => S = 1..n)
  BY <1>1, FS_Subset
<1>3. Cardinality(S) \in Nat
  BY <1>2, FS_CardinalityType
<1> QED
  BY <1>1, <1>2, <1>3

\* The report has an item for each lookup, in the lookups' order.
LEMMA Reported ==
    ASSUME api \in ApiTasks
    PROVE  LET items == ReadinessItems(api)
           IN  /\ Len(items) = Len(Templates) /\ DOMAIN items = 1..Len(Templates) /\ Len(Templates) \in Nat
               /\ \A i \in 1..Len(Templates) :
                     /\ items[i].key = Templates[i]
                     /\ items[i].status = "ready" <=> Called(Templates[i])
                     /\ items[i].status = "missing_media_id" <=> ~api.media
<1> DEFINE items == ReadinessItems(api)
           n == Len(Templates)
           status(key) == IF api.media THEN CredentialState[api.credential[key]] ELSE "missing_media_id"
           item(i) == [key |-> Templates[i], status |-> status(Templates[i])]
           S == {item(i) : i \in 1..n}
<1>1. n \in Nat /\ DOMAIN Templates = 1..n
  BY TemplatesAreLists, Lengths DEF Templates
<1>2. items = [i \in 1..n |-> item(i)]
  BY <1>1 DEF ReadinessItems, Templates
<1>3. DOMAIN items = 1..n /\ items \in [1..n -> S]
  BY <1>2
<1>4. items \in Seq(S)
  BY <1>1, <1>3, SeqDef
<1>5. Len(items) = n
  <2>1. Len(items) \in Nat /\ 1..Len(items) = 1..n
    BY <1>3, <1>4, LenProperties
  <2> QED
    BY <1>1, <2>1, SameLength
<1>6. ASSUME NEW i \in 1..n
      PROVE  /\ items[i].key = Templates[i]
             /\ items[i].status = "ready" <=> Called(Templates[i])
             /\ items[i].status = "missing_media_id" <=> ~api.media
  <2>1. items[i].key = Templates[i] /\ items[i].status = status(Templates[i])
    BY <1>2
  <2>2. CASE ~api.media
    <3>1. status(Templates[i]) = "missing_media_id"
      BY <2>2
    <3> QED
      BY <2>1, <2>2, <3>1 DEF Called
  <2>3. CASE api.media
    <3>1. status(Templates[i]) = CredentialState[api.credential[Templates[i]]]
      BY <2>3
    <3>2. api.credential[Templates[i]] \in {"absent", "unset", "set"}
      BY <1>1, CredentialsKnown
    <3>3. /\ CredentialState["absent"] = "missing_reference" /\ CredentialState["unset"] = "missing_env"
          /\ CredentialState["set"] = "ready"
      BY DEF CredentialState
    <3> HIDE DEF status
    <3> QED
      BY <2>1, <2>3, <3>1, <3>2, <3>3 DEF Called
  <2> QED
    BY <2>2, <2>3
<1> HIDE DEF items
<1> QED
  BY <1>1, <1>3, <1>5, <1>6 DEF items

\* What the report counts.
LEMMA Counted ==
    ASSUME api \in ApiTasks
    PROVE  /\ ~api.media => CountOf(api, "ready") = 0
           /\ api.media => CountOf(api, "missing_media_id") = 0
           /\ CountOf(api, "ready") = Len(Templates)
                 <=> \A i \in 1..Len(Templates) : Called(Templates[i])
<1> DEFINE items == ReadinessItems(api)
           n == Len(Templates)
           of(status) == {i \in DOMAIN items : items[i].status = status}
<1>1. \A status : CountOf(api, status) = Cardinality(of(status))
  BY DEF CountOf
<1>2. /\ n \in Nat /\ DOMAIN items = 1..n
      /\ \A i \in 1..n : /\ items[i].status = "ready" <=> Called(Templates[i])
                         /\ items[i].status = "missing_media_id" <=> ~api.media
  BY Reported
<1> HIDE DEF items, n
<1>3. of("ready") = {i \in 1..n : Called(Templates[i])}
  BY <1>2
<1>4. ~api.media => of("ready") = {}
  BY <1>3 DEF Called
<1>5. api.media => of("missing_media_id") = {}
  BY <1>2
<1>6. of("ready") \in SUBSET (1..n) /\ (of("ready") = 1..n <=> \A i \in 1..n : Called(Templates[i]))
  BY <1>3
<1> HIDE DEF of
<1>7. Cardinality(of("ready")) = n <=> \A i \in 1..n : Called(Templates[i])
  BY <1>2, <1>6, AllPlaces
<1>8. Cardinality({}) = 0
  BY FS_EmptySet
<1> QED
  BY <1>1, <1>4, <1>5, <1>7, <1>8 DEF n

\* The invariant says that the report foretold the rows.
LEMMA RowsForetold == ApiInv => ApiAsForetold
<1> SUFFICES ASSUME ApiInv
             PROVE  ApiAsForetold
  OBVIOUS
<1> DEFINE items == ReadinessItems(api)
           n == Len(Templates)
           ready == CountOf(api, "ready")
           missing == CountOf(api, "missing_media_id")
           list == BuildLookups(api)
           allCalled == \A i \in DOMAIN apiRows : apiRows[i].called
<1>1. /\ Len(items) = n /\ DOMAIN items = 1..n /\ n \in Nat
      /\ \A i \in 1..n : /\ items[i].key = Templates[i]
                         /\ items[i].status = "ready" <=> Called(Templates[i])
                         /\ items[i].status = "missing_media_id" <=> ~api.media
  BY Reported DEF ApiInv
<1>2. /\ ~api.media => ready = 0
      /\ api.media => missing = 0
      /\ ready = n <=> \A i \in 1..n : Called(Templates[i])
  BY Counted DEF ApiInv
<1>3. /\ Len(apiRows) \in Nat /\ DOMAIN apiRows = 1..Len(apiRows) /\ (apiRows = <<>> <=> Len(apiRows) = 0)
      /\ Len(lookups) \in Nat /\ (lookups = <<>> <=> Len(lookups) = 0)
      /\ Len(apiRows) <= n
      /\ apiStep = "done" /\ api.enabled => Len(apiRows) = n
  <2>1. Sequential(apiRows) /\ Sequential(lookups)
    BY DEF ApiInv
  <2>2. /\ Len(apiRows) \in Nat /\ DOMAIN apiRows = 1..Len(apiRows) /\ (apiRows = <<>> <=> Len(apiRows) = 0)
        /\ Len(lookups) \in Nat /\ (lookups = <<>> <=> Len(lookups) = 0)
    BY <2>1, Lengths
  <2>3. /\ Len(apiRows) + Len(lookups) <= n
        /\ apiStep = "done" /\ api.enabled => Len(apiRows) + Len(lookups) = n /\ lookups = <<>>
    BY DEF ApiInv
  <2>4. n \in Nat
    BY <1>1
  <2>5. \A a, b, m \in Nat : (a + b <= m => a <= m) /\ (a + b = m /\ b = 0 => a = m)
    OBVIOUS
  <2>6. Len(apiRows) <= n /\ (apiStep = "done" /\ api.enabled => Len(apiRows) = n)
    <3> HIDE DEF n
    <3> QED
      BY <2>2, <2>3, <2>4, <2>5
  <2> QED
    BY <2>2, <2>6
<1>4. /\ api.media => list = Templates
      /\ ~api.media => list = <<>>
      /\ Templates # <<>> <=> n # 0
  BY TemplatesAreLists, Lengths DEF BuildLookups, Templates
<1>5. \A i \in DOMAIN apiRows : Accounted(i)
  BY DEF ApiInv
<1>6. Readiness(api).ok <=> list # <<>> /\ ready = Len(list)
  BY DEF Readiness
<1>7. Readiness(api).ready = ready /\ Readiness(api).missingMediaId = missing
  BY DEF Readiness
<1> HIDE DEF items, n, ready, missing, list
<1>8. \A i \in DOMAIN apiRows : /\ apiRows[i].key = items[i].key
                                /\ apiRows[i].called <=> items[i].status = "ready"
                                /\ apiRows[i].status = "missing_media_id"
                                      <=> items[i].status = "missing_media_id"
  <2> TAKE i \in DOMAIN apiRows
  <2>1. i \in 1..n
    <3>1. \A m, k \in Nat : m <= k => 1..m \subseteq 1..k
      OBVIOUS
    <3>2. 1..Len(apiRows) \subseteq 1..n
      BY <1>1, <1>3, <3>1
    <3> QED
      BY <1>3, <3>2
  <2>2. Accounted(i)
    BY <1>5
  <2> QED
    BY <1>1, <2>1, <2>2 DEF Accounted
<1>9. ASSUME apiStep = "done", api.enabled
      PROVE  /\ Len(apiRows) = Len(items) /\ apiCache # {}
             /\ Readiness(api).ok <=> apiRows # <<>> /\ allCalled
             /\ Readiness(api).missingMediaId > 0 => Readiness(api).ready = 0
  <2>1. allCalled <=> \A i \in 1..n : Called(Templates[i])
    BY <1>3, <1>5, <1>9 DEF Accounted
  <2>2. apiRows # <<>> <=> n # 0
    BY <1>3, <1>9
  <2>3. CASE api.media
    <3>1. Readiness(api).ok <=> n # 0 /\ ready = n
      BY <1>4, <1>6, <2>3 DEF n
    <3> QED
      BY <1>1, <1>2, <1>3, <1>7, <1>9, <2>1, <2>2, <2>3, <3>1 DEF ApiInv
  <2>4. CASE ~api.media
    <3>1. ~Readiness(api).ok
      BY <1>4, <1>6, <2>4
    <3>2. apiRows # <<>> => ~allCalled
      <4>1. n # 0 => 1 \in 1..n
        BY <1>1
      <4> QED
        BY <2>1, <2>2, <2>4, <4>1 DEF Called
    <3> QED
      BY <1>1, <1>2, <1>3, <1>7, <1>9, <2>4, <3>1, <3>2 DEF ApiInv
  <2> QED
    BY <2>3, <2>4
<1>10. apiStep = "aborted" => apiCache = {} /\ Readiness(api).missingMediaId = 0
  BY <1>2, <1>7 DEF ApiInv
<1>11. Len(apiRows) <= Len(items)
  BY <1>1, <1>3
<1> QED
  BY <1>8, <1>9, <1>10, <1>11 DEF ApiAsForetold, items

\* The lookups of a run, which an abort may end.
ApiSpec == ApiInit /\ [][ApiNext]_apiVars

\* Whatever the platform, the credentials and the answers: the rows are those that the
\* report foretold, a failure takes no other lookup with it, and an abort leaves no
\* list.  (official-api.ts:62-231, 270-307)
THEOREM CallsForetold == ApiSpec => []ApiAsForetold
<1>1. ApiInv /\ [ApiNext]_apiVars => ApiInv'
  BY BeginKeeps, LookupKeeps, EndKeeps DEF ApiNext
<1> QED
  BY <1>1, ApiBegins, RowsForetold, PTL DEF ApiSpec

-----------------------------------------------------------------------------
\* The media of a page.

\* A response that was there when the capture began is not new, and waits for its
\* body only if the capture waits for it, which it does not once it has waited.
CaptureKnown ==
    capture # NoCapture =>
        /\ capture = [stage |-> capture.stage, pending |-> capture.pending,
                      before |-> capture.before, waited |-> capture.waited]
        /\ capture.before \subseteq Media /\ capture.before \cap In("none") = {}
        /\ capture.before \cap In("awaited") \subseteq capture.pending
        /\ capture.waited = TRUE => capture.before \cap In("awaited") = {}

MediaInv ==
    /\ event \in [Media -> {"none", "awaited", "captured", "skipped"}]
    /\ IsFiniteSet(In("captured"))
    /\ CaptureKnown
    /\ MediaWithinPage

\* One more medium.
LEMMA BytesOfOneMore ==
    ASSUME NEW some \in SUBSET Media, IsFiniteSet(some), NEW m \in Media \ some
    PROVE  /\ Bytes(some) \in Nat /\ m.size \in Nat
           /\ Bytes(some \cup {m}) = Bytes(some) + m.size
<1> DEFINE more == some \cup {m}
           f == [k \in more |-> k.size]
           e == [k \in some |-> k.size]
<1>1. \A k \in Media : k.size \in Nat
  BY MediaAssumption
<1>2. /\ \A k \in more : f[k] \in Nat
      /\ \A k \in some : e[k] \in Nat /\ e[k] = f[k]
      /\ f[m] = m.size
  BY <1>1
<1>3. Bytes(more) = SumFunctionOnSet(f, more) /\ Bytes(some) = SumFunctionOnSet(e, some)
  BY DEF Bytes
<1> HIDE DEF e, f
<1>4. Bytes(some) = SumFunctionOnSet(f, some)
  BY <1>2, <1>3, SumOfSame
<1>5. SumFunctionOnSet(f, more) = SumFunctionOnSet(f, some) + f[m]
  BY <1>2, SumPutsIn
<1>6. Bytes(some) \in Nat
  BY <1>2, <1>3, SumTakesOut
<1> QED
  BY <1>1, <1>2, <1>3, <1>4, <1>5, <1>6

\* A page without responses.
LEMMA MediaBegins == MediaInit => MediaInv
<1> SUFFICES ASSUME MediaInit
             PROVE  MediaInv
  OBVIOUS
<1>1. In("captured") = {} /\ event \in [Media -> {"none"}] /\ capture = NoCapture
      /\ total = 0 /\ bundles = {}
  BY DEF MediaInit, In
<1>2. Bytes({}) = 0
  BY SumOfNone DEF Bytes
<1>3. IsFiniteSet(In("captured"))
  BY <1>1, FS_EmptySet
<1>4. MediaWithinPage
  <2>1. MaxTotal \in Nat
    BY MediaAssumption
  <2>2. total = Bytes(In("captured")) /\ total <= MaxTotal
    BY <1>1, <1>2, <2>1
  <2> QED
    BY <1>1, <2>2 DEF MediaWithinPage
<1> QED
  BY <1>1, <1>3, <1>4 DEF MediaInv, CaptureKnown

\* What happens to one response.
LEMMA ResponseStep ==
    ASSUME MediaInv, NEW m \in Media, NEW state \in {"awaited", "captured", "skipped"},
           event[m] \in {"none", "awaited"}, event[m] = "awaited" => state # "awaited",
           event' = [event EXCEPT ![m] = state],
           state = "captured" => m.size <= MaxSingle /\ total + m.size <= MaxTotal,
           total' = IF state = "captured" THEN total + m.size ELSE total,
           UNCHANGED <<capture, bundles>>
    PROVE  MediaInv'
<1> USE DEF MediaInv
<1>1. /\ event' \in [Media -> {"none", "awaited", "captured", "skipped"}]
      /\ event'[m] = state
      /\ \A k \in Media \ {m} : event'[k] = event[k]
  OBVIOUS
<1>2. In("captured")' = IF state = "captured" THEN In("captured") \cup {m} ELSE In("captured")
  BY <1>1 DEF In
<1>3. m \notin In("captured") /\ In("captured") \in SUBSET Media
  BY DEF In
<1>4. IsFiniteSet(In("captured"))'
  BY <1>2, FS_AddElement
<1>5. total = Bytes(In("captured")) /\ total <= MaxTotal
  BY DEF MediaWithinPage
<1>6. total' = Bytes(In("captured")') /\ total' <= MaxTotal
  <2>1. CASE state = "captured"
    BY <1>2, <1>3, <1>5, <2>1, BytesOfOneMore
  <2>2. CASE state # "captured"
    BY <1>2, <1>5, <2>2
  <2> QED
    BY <2>1, <2>2
<1>7. \A k \in In("captured")' : k.size <= MaxSingle
  BY <1>2 DEF MediaWithinPage
<1>8. MediaWithinPage'
  BY <1>6, <1>7 DEF MediaWithinPage, Bytes
<1>9. CaptureKnown'
  <2>1. /\ \A k \in In("none")' : k \in In("none")
        /\ \A k \in In("awaited")' : k \in In("awaited") \/ (k = m /\ m \in In("none"))
    BY <1>1 DEF In
  <2> QED
    BY <2>1 DEF CaptureKnown
<1> QED
  BY <1>1, <1>4, <1>8, <1>9

\* Every step keeps the page within its limits.
LEMMA MediaStep == MediaInv /\ [MediaNext]_mediaVars => MediaInv'
<1> SUFFICES ASSUME MediaInv, [MediaNext]_mediaVars
             PROVE  MediaInv'
  OBVIOUS
<1>1. ASSUME NEW m \in Media, Responds(m)
      PROVE  MediaInv'
  <2>1. PICK state \in {"awaited", "skipped"} : event' = [event EXCEPT ![m] = state]
    BY <1>1 DEF Responds
  <2>2. event[m] = "none" /\ UNCHANGED <<total, capture, bundles>>
    BY <1>1 DEF Responds
  <2> QED
    BY <2>1, <2>2, ResponseStep
<1>2. ASSUME NEW m \in Media, BodyArrives(m)
      PROVE  MediaInv'
  <2> DEFINE state == IF Fits(m) THEN "captured" ELSE "skipped"
  <2>1. /\ event[m] = "awaited" /\ event' = [event EXCEPT ![m] = state] /\ UNCHANGED <<capture, bundles>>
        /\ state = "captured" <=> Fits(m)
        /\ total' = IF state = "captured" THEN total + m.size ELSE total
        /\ state \in {"awaited", "captured", "skipped"} /\ state # "awaited"
    BY <1>2 DEF BodyArrives
  <2> HIDE DEF state
  <2>2. state = "captured" => m.size <= MaxSingle /\ total + m.size <= MaxTotal
    BY <2>1 DEF Fits
  <2> QED
    BY <2>1, <2>2, ResponseStep
<1>3. ASSUME NEW m \in Media, BodyUnavailable(m)
      PROVE  MediaInv'
  <2>1. /\ event[m] = "awaited" /\ event' = [event EXCEPT ![m] = "skipped"]
        /\ UNCHANGED <<total, capture, bundles>>
    BY <1>3 DEF BodyUnavailable
  <2> QED
    BY <2>1, ResponseStep
<1> USE DEF MediaInv
<1>4. CASE CaptureBegins
  <2>1. /\ capture' = [stage |-> "drain", pending |-> In("awaited"), before |-> Media \ In("none"), waited |-> FALSE]
        /\ UNCHANGED <<event, total, bundles>>
    BY <1>4 DEF CaptureBegins
  <2>2. CaptureKnown'
    BY <2>1 DEF CaptureKnown, In
  <2>3. MediaWithinPage'
    BY <2>1 DEF MediaWithinPage, In, Bytes
  <2> QED
    BY <2>1, <2>2, <2>3 DEF In
<1>5. CASE Drained
  <2>1. capture # NoCapture /\ UNCHANGED <<event, total, bundles>>
    BY <1>5 DEF Drained
  <2>2. \/ /\ capture.pending \cap In("awaited") = {}
           /\ capture' = [stage |-> "read", pending |-> capture.pending, before |-> capture.before, waited |-> TRUE]
        \/ capture' = [stage |-> "read", pending |-> capture.pending, before |-> capture.before,
                       waited |-> capture.waited]
    BY <1>5 DEF Drained, CaptureKnown
  <2>3. CaptureKnown'
    BY <2>1, <2>2 DEF CaptureKnown, In
  <2>4. MediaWithinPage'
    BY <2>1 DEF MediaWithinPage, In, Bytes
  <2> QED
    BY <2>1, <2>3, <2>4 DEF In
<1>6. CASE BundleWritten
  <2> DEFINE b == [index |-> event, artifacts |-> In("captured"), before |-> capture.before, waited |-> capture.waited]
  <2>1. capture # NoCapture /\ bundles' = bundles \cup {b} /\ capture' = NoCapture /\ UNCHANGED <<event, total>>
    BY <1>6 DEF BundleWritten
  <2>2. /\ b.artifacts = In("captured") /\ b.index = event /\ b.before = capture.before
        /\ b.waited = capture.waited
    OBVIOUS
  <2> HIDE DEF b
  <2>3. /\ b.artifacts = {m \in Media : b.index[m] = "captured"}
        /\ Bytes(b.artifacts) <= MaxTotal
    BY <2>2 DEF MediaWithinPage, In
  <2>4. b.waited = TRUE => \A m \in b.before : b.index[m] \in {"captured", "skipped"}
    BY <2>1, <2>2 DEF CaptureKnown, In
  <2>5. MediaWithinPage'
    BY <2>1, <2>3, <2>4 DEF MediaWithinPage, In, Bytes
  <2> QED
    BY <2>1, <2>5 DEF CaptureKnown, In
<1>7. CASE CaptureFails \/ UNCHANGED mediaVars
  <2>1. UNCHANGED <<event, total, bundles>> /\ (capture' = capture \/ capture' = NoCapture)
    BY <1>7 DEF CaptureFails, mediaVars
  <2>2. MediaWithinPage'
    BY <2>1 DEF MediaWithinPage, In, Bytes
  <2> QED
    BY <2>1, <2>2 DEF CaptureKnown, In
<1> QED
  BY <1>1, <1>2, <1>3, <1>4, <1>5, <1>6, <1>7 DEF MediaNext

\* The media of a page, whatever is loaded and however long a capture waits.
MediaSpec == MediaInit /\ [][MediaNext]_mediaVars

\* However many bodies are awaited at once, the page keeps within its byte limits,
\* and a capture has the media that its index calls captured.  (browser-pool.ts)
THEOREM MediaStayWithinPage == MediaSpec => []MediaWithinPage
<1>1. MediaInv => MediaWithinPage
  BY DEF MediaInv
<1> QED
  BY <1>1, MediaBegins, MediaStep, PTL DEF MediaSpec

-----------------------------------------------------------------------------
(* The operator's vault.  Unless calls overlap or one dies in the middle of  *)
(* a file, one call is under way at most; what it has read is still so, and  *)
(* the notes it does not write, or has written, are as it renders them       *)
(* (Writes).  So they are all there when LOG tells of it.                    *)

VaultSpec == VaultInit /\ [][VaultNext]_vaultVars

\* The types.
Texts == [own : BOOLEAN, by : Seq({b.run : b \in Bridges})] \cup {Missing}
Bridging == [pc : {"idle", "read_log", "read_notes", "write", "fill", "done", "dead"},
             dna : Texts, log : Texts, left : SUBSET (1..5)]

VaultTypes ==
    /\ files \in [Paths -> Texts]
    /\ bridge \in [Bridges -> Bridging]
    /\ logged \in SUBSET Bridges

\* What VaultInOrder says of a file that nobody is writing.
Filling(p) == \E b \in Active : bridge[b].pc = "fill" /\ NextNote(b) = p
RunsOf(text) == IF text = Missing THEN {} ELSE Range(text.by)
Kept(p, text, entries) ==
    /\ text # Missing => text.own
    /\ p = Dna /\ text # Missing => Len(text.by) <= 1
    /\ p = Log => {b.run : b \in entries} = RunsOf(text)
    /\ \A b \in entries : p \in Range(NotesOf(b)) => text # Missing /\ text.by # <<>>

\* Which of its notes a call writes.
NextLeft(b) == CHOOSE i \in bridge[b].left : \A k \in bridge[b].left : i <= k

\* What a call has read is still so until it has written it, and the notes that
\* it does not write, or has written, are as it renders them.
Reads(b) ==
    /\ bridge[b].pc \in {"read_log", "read_notes"} => bridge[b].dna = files[Dna]
    /\ bridge[b].pc = "read_notes" => bridge[b].log = files[Log]
Writes(b) ==
    bridge[b].pc \in {"write", "fill"} =>
        /\ bridge[b].dna # Missing => bridge[b].dna.own /\ Len(bridge[b].dna.by) <= 1
        /\ bridge[b].log # Missing => bridge[b].log.own
        /\ 5 \in bridge[b].left => RunsOf(bridge[b].log) = {c.run : c \in logged}
        /\ \A i \in (1..5) \ bridge[b].left : files[NotesOf(b)[i]] = Rendered(b, NotesOf(b)[i])
        /\ bridge[b].pc = "fill" => bridge[b].left # {}

Smooth ==
    /\ VaultTypes
    /\ \A b, c \in Active : b = c
    /\ \A p \in Paths : Filling(p) \/ Kept(p, files[p], logged)
    /\ \A b \in Active : Reads(b) /\ Writes(b)

VaultInv == rough \/ Smooth

\* The notes of a call are five.
LEMMA FiveNotes ==
    ASSUME NEW b \in Bridges
    PROVE  /\ DOMAIN NotesOf(b) = 1..5
           /\ \A i \in 1..5 : NotesOf(b)[i] \in Paths /\ NotesOf(b)[i] \in Range(NotesOf(b))
           /\ \A i, k \in 1..5 : NotesOf(b)[i] = NotesOf(b)[k] => i = k
           /\ \A i \in 1..5 : (NotesOf(b)[i] = Dna <=> i = 1) /\ (NotesOf(b)[i] = Log <=> i = 5)
           /\ \A p \in Range(NotesOf(b)) : \E i \in 1..5 : p = NotesOf(b)[i]
           /\ Dna \in Paths /\ Log \in Paths /\ Dna # Log
<1> DEFINE n == NotesOf(b)
<1>1. n[1] = Dna /\ n[2] = Recipe(b) /\ n[3] = Frontier(b) /\ n[4] = Note(b) /\ n[5] = Log /\ DOMAIN n = 1..5
  BY DEF NotesOf
<1>2. /\ Dna # Recipe(b) /\ Dna # Frontier(b) /\ Dna # Note(b) /\ Dna # Log
      /\ Recipe(b) # Frontier(b) /\ Recipe(b) # Note(b) /\ Recipe(b) # Log
      /\ Frontier(b) # Note(b) /\ Frontier(b) # Log /\ Note(b) # Log
  BY DEF Dna, Log, Recipe, Frontier, Note
<1>3. \A i \in 1..5 : i = 1 \/ i = 2 \/ i = 3 \/ i = 4 \/ i = 5
  OBVIOUS
<1> HIDE DEF n
<1>4. \A i \in 1..5 : n[i] \in Range(n)
  BY <1>1 DEF Range
<1>5. Range(n) \subseteq Paths
  BY DEF Paths, n
<1>6. \A i, k \in 1..5 : n[i] = n[k] => i = k
  BY <1>1, <1>2, <1>3
<1>7. \A i \in 1..5 : (n[i] = Dna <=> i = 1) /\ (n[i] = Log <=> i = 5)
  BY <1>1, <1>2, <1>3
<1>8. \A p \in Range(n) : \E i \in 1..5 : p = n[i]
  BY <1>1 DEF Range
<1>9. Dna \in Paths /\ Log \in Paths
  BY <1>1, <1>4, <1>5
<1> QED
  BY <1>1, <1>2, <1>4, <1>5, <1>6, <1>7, <1>8, <1>9 DEF n

\* The next of them is the first that is left.
LEMMA NextNoteIs ==
    ASSUME NEW b \in Bridges, bridge[b].left \in SUBSET (1..5), bridge[b].left # {}
    PROVE  /\ NextNote(b) = NotesOf(b)[NextLeft(b)]
           /\ NextLeft(b) \in bridge[b].left /\ NextLeft(b) \in 1..5
           /\ \A k \in bridge[b].left : NextLeft(b) <= k
<1>1. \E i \in bridge[b].left : \A k \in bridge[b].left : i <= k
  BY LeastOf
<1> QED
  BY <1>1 DEF NextNote, NextLeft

\* What is rendered of texts in order is in order.
LEMMA RenderedIs ==
    ASSUME VaultAssumption, NEW b \in Bridges, bridge[b] \in Bridging, NEW i \in 1..5,
           bridge[b].dna # Missing => bridge[b].dna.own /\ Len(bridge[b].dna.by) <= 1,
           bridge[b].log # Missing => bridge[b].log.own
    PROVE  LET text == Rendered(b, NotesOf(b)[i])
           IN  /\ text \in Texts \ {Missing} /\ text.own /\ text.by # <<>>
               /\ i = 1 => Len(text.by) <= 1
               /\ i = 5 => Range(text.by) = RunsOf(bridge[b].log) \cup {b.run}
<1> DEFINE Some == [own : BOOLEAN, by : Seq({c.run : c \in Bridges})]
           dna == OrDefault(bridge[b].dna)
           log == OrDefault(bridge[b].log)
<1>1. Texts = Some \cup {Missing} /\ Missing \notin Some
  BY DEF Texts, VaultAssumption
<1>2. b.run \in {c.run : c \in Bridges}
  OBVIOUS
<1>3. <<b.run>> \in Seq({c.run : c \in Bridges}) /\ <<>> \in Seq({c.run : c \in Bridges})
  BY <1>2
<1>4. dna \in Some /\ dna.own /\ Len(dna.by) <= 1 /\ log \in Some /\ log.own
  BY <1>1, <1>3 DEF OrDefault, Fresh, Bridging
<1>5. RunsOf(bridge[b].log) = Range(log.by)
  BY <1>3 DEF OrDefault, Fresh, RunsOf, Range
<1>6. CASE i = 1
  <2>1. Rendered(b, NotesOf(b)[i]) = UpsertRow(dna, b.run)
    BY <1>6, FiveNotes DEF Rendered
  <2>2. UpsertRow(dna, b.run) \in Some /\ UpsertRow(dna, b.run).own
    BY <1>2, <1>4 DEF UpsertRow
  <2>3. UpsertRow(dna, b.run).by # <<>> /\ Len(UpsertRow(dna, b.run).by) <= 1
    <3>1. CASE dna.by = <<>>
      <4>1. UpsertRow(dna, b.run).by = Append(<<>>, b.run)
        BY <1>4, <3>1 DEF UpsertRow
      <4> QED
        BY <4>1
    <3>2. CASE dna.by # <<>>
      BY <1>4, <3>2 DEF UpsertRow
    <3> QED
      BY <3>1, <3>2
  <2> QED
    BY <1>1, <1>6, <2>1, <2>2, <2>3
<1>7. CASE i = 5
  <2>1. Rendered(b, NotesOf(b)[i]) = AppendEntry(log, b.run)
    BY <1>7, FiveNotes DEF Rendered
  <2>8. Append(log.by, b.run) \in Seq({c.run : c \in Bridges})
    BY <1>2, <1>4, AppendProperties
  <2>2. AppendEntry(log, b.run) \in Some /\ AppendEntry(log, b.run).own
    <3>1. AppendEntry(log, b.run) = [log EXCEPT !.by = Append(log.by, b.run)]
      BY DEF AppendEntry
    <3> HIDE DEF log
    <3> QED
      BY <1>4, <2>8, <3>1
  <2>3. AppendEntry(log, b.run).by = Append(log.by, b.run)
    BY <1>4 DEF AppendEntry
  <2>4. log.by \in Seq({c.run : c \in Bridges})
    BY <1>4
  <2>5. /\ Len(Append(log.by, b.run)) = Len(log.by) + 1 /\ Len(log.by) \in Nat
        /\ DOMAIN Append(log.by, b.run) = 1..(Len(log.by) + 1) /\ DOMAIN log.by = 1..Len(log.by)
        /\ Append(log.by, b.run)[Len(log.by) + 1] = b.run
        /\ \A k \in 1..Len(log.by) : Append(log.by, b.run)[k] = log.by[k]
    BY <1>2, <2>4, AppendProperties
  <2>6. Append(log.by, b.run) # <<>>
    BY <2>5
  <2>7. Range(Append(log.by, b.run)) = Range(log.by) \cup {b.run}
    <3>1. 1..(Len(log.by) + 1) = 1..Len(log.by) \cup {Len(log.by) + 1}
      BY <2>5
    <3> QED
      BY <2>5, <3>1 DEF Range
  <2> QED
    BY <1>1, <1>5, <1>7, <2>1, <2>2, <2>3, <2>6, <2>7
<1>8. CASE i # 1 /\ i # 5
  <2>1. Rendered(b, NotesOf(b)[i]) = [own |-> TRUE, by |-> <<b.run>>]
    BY <1>8, FiveNotes DEF Rendered
  <2> DEFINE text == [own |-> TRUE, by |-> <<b.run>>]
  <2>2. text \in Some /\ text.own /\ text.by = <<b.run>>
    BY <1>3
  <2>3. <<b.run>> # <<>>
    OBVIOUS
  <2> HIDE DEF text
  <2> QED
    BY <1>1, <1>8, <2>1, <2>2, <2>3 DEF text
<1> QED
  BY <1>6, <1>7, <1>8

\* No call is under way at first.
LEMMA VaultStarts == VaultInit => VaultInv
<1> SUFFICES ASSUME VaultInit
             PROVE  Smooth
  BY DEF VaultInv
<1> DEFINE Runs == {b.run : b \in Bridges}
<1>1. <<>> \in Seq(Runs) /\ Range(<<>>) = {}
  BY DEF Range
<1>2. Fresh \in Texts /\ Missing \in Texts
  BY <1>1 DEF Fresh, Texts
<1>3. \A p \in Paths : files[p] \in {Fresh, Missing}
  BY DEF VaultInit
<1>4. VaultTypes
  BY <1>2 DEF VaultInit, VaultTypes, Bridging
<1>5. Active = {}
  BY DEF VaultInit, Active
<1>6. \A p \in Paths : Kept(p, files[p], logged)
  <2> SUFFICES ASSUME NEW p \in Paths
               PROVE  Kept(p, files[p], {})
    BY DEF VaultInit
  <2>1. files[p] # Missing => files[p].own /\ files[p].by = <<>>
    BY <1>3 DEF Fresh
  <2>2. Len(<<>>) = 0
    OBVIOUS
  <2>3. RunsOf(files[p]) = {}
    BY <1>1, <2>1 DEF RunsOf
  <2> QED
    BY <2>1, <2>2, <2>3 DEF Kept
<1> QED
  BY <1>4, <1>5, <1>6 DEF Smooth

\* While no calls overlap, one that is under way is the only one; and only a
\* call that fills a file keeps it out of order.
LEMMA OnlyOne ==
    ASSUME Smooth, NEW b \in Active
    PROVE  /\ Active = {b} /\ b \in Bridges /\ bridge[b] \in Bridging
           /\ Reads(b) /\ Writes(b)
           /\ bridge[b].pc # "fill" => \A p \in Paths : Kept(p, files[p], logged)
           /\ \A p \in Paths \ {NextNote(b)} : Kept(p, files[p], logged)
<1>1. Active = {b} /\ b \in Bridges
  BY DEF Smooth, Active
<1>2. \A p \in Paths : Filling(p) => bridge[b].pc = "fill" /\ NextNote(b) = p
  BY <1>1 DEF Filling
<1> QED
  BY <1>1, <1>2 DEF Smooth, VaultTypes

\* A step that brings a call to another stage and leaves the vault as it is.
LEMMA CallGoesOn ==
    ASSUME Smooth, NEW b \in Bridges, Active \subseteq {b},
           \A p \in Paths : Kept(p, files[p], logged),
           UNCHANGED <<files, logged>>, bridge' \in [Bridges -> Bridging],
           \A c \in Bridges \ {b} : bridge'[c] = bridge[c],
           b \in Active' => Reads(b)' /\ Writes(b)'
    PROVE  Smooth'
<1>1. Active' \subseteq {b}
  BY DEF Active
<1>2. VaultTypes'
  BY DEF Smooth, VaultTypes
<1>3. \A p \in Paths : Kept(p, files'[p], logged')
  OBVIOUS
<1> QED
  BY <1>1, <1>2, <1>3 DEF Smooth

\* Reading the first note keeps it,
LEMMA ReadDnaKeeps ==
    ASSUME Smooth, NEW b \in Bridges, ReadDna(b), ~rough'
    PROVE  Smooth'
<1>1. Active = {}
  BY DEF ReadDna
<1>2. \A p \in Paths : Kept(p, files[p], logged)
  BY <1>1 DEF Smooth, Filling
<1>3. /\ bridge' = [bridge EXCEPT ![b].pc = "read_log", ![b].dna = files[Dna]]
      /\ UNCHANGED <<files, logged>> /\ bridge \in [Bridges -> Bridging] /\ files[Dna] \in Texts
  BY FiveNotes DEF ReadDna, Smooth, VaultTypes
<1>4. bridge' \in [Bridges -> Bridging]
  BY <1>3 DEF Bridging
<1>5. bridge'[b].pc = "read_log" /\ bridge'[b].dna = files[Dna]
  BY <1>3 DEF Bridging
<1>6. Reads(b)' /\ Writes(b)'
  BY <1>3, <1>5 DEF Reads, Writes
<1>7. \A c \in Bridges \ {b} : bridge'[c] = bridge[c]
  BY <1>3
<1> QED
  BY <1>1, <1>2, <1>3, <1>4, <1>6, <1>7, CallGoesOn

\* so does reading the log,
LEMMA ReadLogKeeps ==
    ASSUME Smooth, NEW b \in Bridges, ReadLog(b)
    PROVE  Smooth'
<1>1. b \in Active /\ bridge[b].pc = "read_log"
  BY DEF ReadLog, Active
<1>2. Active = {b} /\ Reads(b) /\ \A p \in Paths : Kept(p, files[p], logged)
  BY <1>1, OnlyOne
<1>3. /\ bridge' = [bridge EXCEPT ![b].pc = "read_notes", ![b].log = files[Log]]
      /\ UNCHANGED <<files, logged>> /\ bridge \in [Bridges -> Bridging] /\ files[Log] \in Texts
  BY FiveNotes DEF ReadLog, Smooth, VaultTypes
<1>4. bridge' \in [Bridges -> Bridging]
  BY <1>3 DEF Bridging
<1>5. /\ bridge'[b].pc = "read_notes" /\ bridge'[b].log = files[Log]
      /\ bridge'[b].dna = bridge[b].dna
  BY <1>3 DEF Bridging
<1>6. Reads(b)' /\ Writes(b)'
  BY <1>1, <1>2, <1>3, <1>5 DEF Reads, Writes
<1>7. \A c \in Bridges \ {b} : bridge'[c] = bridge[c]
  BY <1>3
<1> QED
  BY <1>2, <1>3, <1>4, <1>6, <1>7, CallGoesOn

\* The notes that do not change are as the call would render them.
LEMMA ReadNotesKeeps ==
    ASSUME Smooth, NEW b \in Bridges, ReadNotes(b)
    PROVE  Smooth'
<1> DEFINE n == NotesOf(b)
           left == {i \in 1..5 : (IF n[i] = Dna THEN bridge[b].dna ELSE files[n[i]]) # Rendered(b, n[i])}
<1>1. b \in Active /\ bridge[b].pc = "read_notes"
  BY DEF ReadNotes, Active
<1>2. Active = {b} /\ Reads(b) /\ \A p \in Paths : Kept(p, files[p], logged)
  BY <1>1, OnlyOne
<1>3. /\ bridge' = [bridge EXCEPT ![b].pc = "write", ![b].left = left]
      /\ UNCHANGED <<files, logged>> /\ bridge \in [Bridges -> Bridging]
  BY DEF ReadNotes, Smooth, VaultTypes
<1>4. \A i \in (1..5) \ left : files[n[i]] = Rendered(b, n[i])
  BY <1>1, <1>2 DEF Reads
<1>5. left \in SUBSET (1..5)
  OBVIOUS
<1> HIDE DEF left, n
<1>6. bridge' \in [Bridges -> Bridging]
  BY <1>3, <1>5 DEF Bridging
<1>7. /\ bridge'[b].pc = "write" /\ bridge'[b].left = left
      /\ bridge'[b].dna = bridge[b].dna /\ bridge'[b].log = bridge[b].log
  BY <1>3 DEF Bridging
<1>8. Dna \in Paths /\ Log \in Paths
  BY FiveNotes
<1>9. \A i \in 1..5 : Rendered(b, n[i])' = Rendered(b, n[i])
  BY <1>7 DEF Rendered, n
<1>10. /\ bridge[b].dna # Missing => bridge[b].dna.own /\ Len(bridge[b].dna.by) <= 1
       /\ bridge[b].log # Missing => bridge[b].log.own
       /\ RunsOf(bridge[b].log) = {c.run : c \in logged}
  BY <1>1, <1>2, <1>8 DEF Reads, Kept
<1>11. Reads(b)' /\ Writes(b)'
  <2>1. Reads(b)'
    BY <1>7 DEF Reads
  <2>2. \A i \in (1..5) \ left : files'[n[i]] = Rendered(b, n[i])'
    BY <1>3, <1>4, <1>9
  <2>3. Writes(b)'
    BY <1>3, <1>7, <1>10, <2>2 DEF Writes, n
  <2> QED
    BY <2>1, <2>3
<1>12. \A c \in Bridges \ {b} : bridge'[c] = bridge[c]
  BY <1>3
<1> QED
  BY <1>2, <1>3, <1>6, <1>11, <1>12, CallGoesOn

\* and the end of a bridge.
LEMMA EndsKeep ==
    ASSUME Smooth, NEW b \in Bridges, BridgeEnds(b) \/ BridgeDies(b), ~rough'
    PROVE  Smooth'
<1>1. b \in Active /\ bridge[b].pc # "fill"
  BY DEF BridgeEnds, BridgeDies, Active
<1>2. Active = {b} /\ \A p \in Paths : Kept(p, files[p], logged)
  BY <1>1, OnlyOne
<1>3. PICK pc \in {"done", "dead"} : bridge' = [bridge EXCEPT ![b].pc = pc]
  BY DEF BridgeEnds, BridgeDies
<1>4. UNCHANGED <<files, logged>> /\ bridge \in [Bridges -> Bridging]
  BY DEF BridgeEnds, BridgeDies, Smooth, VaultTypes
<1>5. bridge' \in [Bridges -> Bridging]
  BY <1>3, <1>4 DEF Bridging
<1>6. bridge'[b].pc \in {"done", "dead"}
  BY <1>3, <1>4 DEF Bridging
<1>7. b \notin Active'
  BY <1>6 DEF Active
<1>8. \A c \in Bridges \ {b} : bridge'[c] = bridge[c]
  BY <1>3, <1>4
<1> QED
  BY <1>2, <1>4, <1>5, <1>7, <1>8, CallGoesOn

\* The file that is emptied is out of order while it is filled, and no other.
LEMMA TruncateKeeps ==
    ASSUME Smooth, NEW b \in Bridges, Truncate(b)
    PROVE  Smooth'
<1> DEFINE n == NotesOf(b)
           next == NextNote(b)
<1>1. b \in Active /\ bridge[b].pc = "write"
  BY DEF Truncate, Active
<1>2. /\ Active = {b} /\ Writes(b) /\ bridge[b] \in Bridging
      /\ \A p \in Paths : Kept(p, files[p], logged)
  BY <1>1, OnlyOne
<1>3. /\ files' = [files EXCEPT ![next] = Empty]
      /\ bridge' = [bridge EXCEPT ![b].pc = "fill"] /\ logged' = logged
      /\ bridge \in [Bridges -> Bridging] /\ files \in [Paths -> Texts] /\ logged \in SUBSET Bridges
  BY DEF Truncate, Smooth, VaultTypes
<1>4. bridge[b].left \in SUBSET (1..5) /\ bridge[b].left # {}
  BY <1>2 DEF Truncate, Bridging
<1>5. next = n[NextLeft(b)] /\ NextLeft(b) \in bridge[b].left /\ NextLeft(b) \in 1..5
  BY <1>4, NextNoteIs
<1>6. /\ bridge'[b].pc = "fill" /\ bridge'[b].left = bridge[b].left
      /\ bridge'[b].dna = bridge[b].dna /\ bridge'[b].log = bridge[b].log
  BY <1>3 DEF Bridging
<1>7. VaultTypes'
  <2>1. Empty \in Texts
    <3>1. <<>> \in Seq({c.run : c \in Bridges})
      OBVIOUS
    <3> QED
      BY <3>1 DEF Empty, Texts
  <2>2. files' \in [Paths -> Texts]
    BY <1>3, <2>1
  <2>3. bridge' \in [Bridges -> Bridging]
    BY <1>3 DEF Bridging
  <2> QED
    BY <1>3, <2>2, <2>3 DEF VaultTypes
<1>8. Active' = {b}
  BY <1>2, <1>3, <1>6 DEF Active
<1>9. NextNote(b)' = next
  BY <1>6 DEF NextNote
<1>10. \A p \in Paths : Filling(p)' \/ Kept(p, files'[p], logged')
  <2>1. ASSUME NEW p \in Paths, p # next
        PROVE  Kept(p, files'[p], logged')
    BY <1>2, <1>3, <2>1
  <2>2. ASSUME NEW p \in Paths, p = next
        PROVE  Filling(p)'
    BY <1>6, <1>8, <1>9, <2>2 DEF Filling
  <2> QED
    BY <2>1, <2>2
<1>11. Reads(b)'
  BY <1>6 DEF Reads
<1>12. Writes(b)'
  <2>1. \A i \in (1..5) \ bridge[b].left : files'[n[i]] = files[n[i]] /\ n[i] \in Paths
    BY <1>3, <1>5, FiveNotes
  <2>2. \A i \in 1..5 : Rendered(b, n[i])' = Rendered(b, n[i])
    BY <1>6 DEF Rendered
  <2>3. \A i \in (1..5) \ bridge[b].left : files[n[i]] = Rendered(b, n[i])
    BY <1>1, <1>2 DEF Writes
  <2>4. \A i \in (1..5) \ bridge[b].left : files'[n[i]] = Rendered(b, n[i])'
    BY <2>1, <2>2, <2>3
  <2> HIDE DEF n, next
  <2>5. /\ bridge[b].dna # Missing => bridge[b].dna.own /\ Len(bridge[b].dna.by) <= 1
        /\ bridge[b].log # Missing => bridge[b].log.own
        /\ 5 \in bridge[b].left => RunsOf(bridge[b].log) = {c.run : c \in logged}
    BY <1>1, <1>2 DEF Writes
  <2> QED
    BY <1>3, <1>4, <1>6, <2>4, <2>5 DEF Writes, n
<1> QED
  BY <1>7, <1>8, <1>10, <1>11, <1>12 DEF Smooth

\* What fills a file is in order, the entry of LOG after all the other notes.
LEMMA FillKeeps ==
    ASSUME VaultAssumption, Smooth, NEW b \in Bridges, Fill(b)
    PROVE  Smooth'
<1> DEFINE n == NotesOf(b)
           i == NextLeft(b)
           next == NextNote(b)
           text == Rendered(b, next)
           left == {k \in bridge[b].left : n[k] # next}
<1>1. b \in Active /\ bridge[b].pc = "fill"
  BY DEF Fill, Active
<1>2. /\ Active = {b} /\ Writes(b) /\ bridge[b] \in Bridging
      /\ \A p \in Paths \ {next} : Kept(p, files[p], logged)
  BY <1>1, OnlyOne
<1>3. /\ files' = [files EXCEPT ![next] = text]
      /\ bridge' = [bridge EXCEPT ![b].pc = "write", ![b].left = left]
      /\ logged' = IF next = Log THEN logged \cup {b} ELSE logged
      /\ bridge \in [Bridges -> Bridging] /\ files \in [Paths -> Texts] /\ logged \in SUBSET Bridges
  BY DEF Fill, Smooth, VaultTypes
<1>4. bridge[b].left \in SUBSET (1..5) /\ bridge[b].left # {}
  BY <1>1, <1>2 DEF Bridging, Writes
<1>5. next = n[i] /\ i \in bridge[b].left /\ i \in 1..5 /\ \A k \in bridge[b].left : i <= k
  BY <1>4, NextNoteIs
<1>6. left = bridge[b].left \ {i}
  BY <1>4, <1>5, FiveNotes
<1>7. /\ bridge[b].dna # Missing => bridge[b].dna.own /\ Len(bridge[b].dna.by) <= 1
      /\ bridge[b].log # Missing => bridge[b].log.own
      /\ 5 \in bridge[b].left => RunsOf(bridge[b].log) = {c.run : c \in logged}
  BY <1>1, <1>2 DEF Writes
<1>8. \A k \in (1..5) \ bridge[b].left : files[n[k]] = Rendered(b, n[k])
  BY <1>1, <1>2 DEF Writes
<1>9. /\ text \in Texts \ {Missing} /\ text.own /\ text.by # <<>>
      /\ i = 1 => Len(text.by) <= 1
      /\ i = 5 => Range(text.by) = RunsOf(bridge[b].log) \cup {b.run}
  BY <1>2, <1>5, <1>7, RenderedIs
<1>10. (next = Dna <=> i = 1) /\ (next = Log <=> i = 5) /\ next \in Paths
  BY <1>5, FiveNotes
<1> HIDE DEF left, text, i, next
<1>11. /\ bridge'[b].pc = "write" /\ bridge'[b].left = bridge[b].left \ {i}
       /\ bridge'[b].dna = bridge[b].dna /\ bridge'[b].log = bridge[b].log
  BY <1>3, <1>6 DEF Bridging
<1>12. VaultTypes'
  <2>1. files' \in [Paths -> Texts]
    BY <1>3, <1>9
  <2>2. bridge' \in [Bridges -> Bridging]
    BY <1>3, <1>4, <1>6 DEF Bridging
  <2> QED
    BY <1>3, <2>1, <2>2 DEF VaultTypes
<1>13. Active' = {b}
  BY <1>2, <1>3, <1>11 DEF Active
<1>14. ASSUME NEW p \in Paths, p # next
       PROVE  files'[p] = files[p] /\ Kept(p, files[p], logged')
  <2>1. files'[p] = files[p] /\ Kept(p, files[p], logged)
    BY <1>2, <1>3, <1>14
  <2>2. CASE next # Log
    BY <1>3, <2>1, <2>2
  <2>3. CASE next = Log
    <3>1. p # Log /\ i = 5 /\ bridge[b].left = {5} /\ logged' = logged \cup {b}
      BY <1>3, <1>4, <1>5, <1>10, <1>14, <2>3
    <3>2. ASSUME p \in Range(n)
          PROVE  files[p] # Missing /\ files[p].by # <<>>
      <4>1. PICK k \in 1..5 : p = n[k]
        BY <3>2, FiveNotes
      <4>2. k # 5
        BY <3>1, <4>1, FiveNotes
      <4>3. files[p] = Rendered(b, n[k])
        BY <1>8, <3>1, <4>1, <4>2
      <4> QED
        BY <1>2, <1>7, <4>3, RenderedIs
    <3> QED
      BY <2>1, <3>1, <3>2 DEF Kept
  <2> QED
    BY <2>1, <2>2, <2>3
<1>15. files'[next] = text /\ Kept(next, text, logged')
  <2>1. files'[next] = text
    BY <1>3, <1>10
  <2>2. next = Log => {c.run : c \in logged'} = RunsOf(text)
    <3> SUFFICES ASSUME next = Log
                 PROVE  {c.run : c \in logged'} = RunsOf(text)
      OBVIOUS
    <3>1. RunsOf(text) = {c.run : c \in logged} \cup {b.run}
      BY <1>5, <1>7, <1>9, <1>10 DEF RunsOf
    <3>2. logged' = logged \cup {b}
      BY <1>3
    <3> QED
      BY <3>1, <3>2
  <2> QED
    BY <1>9, <1>10, <2>1, <2>2 DEF Kept
<1>16. \A p \in Paths : Kept(p, files'[p], logged')
  BY <1>14, <1>15
<1>17. Reads(b)'
  BY <1>11 DEF Reads
<1>18. Writes(b)'
  <2>1. \A k \in 1..5 : Rendered(b, n[k])' = Rendered(b, n[k])
    BY <1>11 DEF Rendered
  <2>2. ASSUME NEW k \in 1..5, k \notin bridge[b].left \ {i}
        PROVE  files'[n[k]] = Rendered(b, n[k])'
    <3>1. CASE k = i
      BY <1>5, <1>15, <2>1, <3>1 DEF text, next
    <3>2. CASE k # i
      <4>1. n[k] # next /\ n[k] \in Paths
        BY <1>5, <3>2, FiveNotes
      <4> QED
        BY <1>8, <1>14, <2>1, <2>2, <3>2, <4>1
    <3> QED
      BY <3>1, <3>2
  <2>3. 5 \in bridge[b].left \ {i} => logged' = logged
    BY <1>3, <1>10
  <2> HIDE DEF n
  <2>4. \A k \in (1..5) \ bridge'[b].left : files'[n[k]] = Rendered(b, n[k])'
    BY <1>11, <2>2
  <2> QED
    BY <1>7, <1>11, <2>3, <2>4 DEF Writes, n
<1> QED
  BY <1>12, <1>13, <1>16, <1>17, <1>18 DEF Smooth

\* Bridges that follow one another keep the vault in order, for every number of
\* bridges, runs, methods and days: the operator's texts stay, SYSTEM_DNA has the
\* row at most once, LOG the entries that were written, and each entry has its
\* notes. (acquisition-method-memory-bridge.ts)
THEOREM VaultStaysInOrder == VaultSpec => []VaultInOrder
<1>1. VaultInv /\ [VaultNext]_vaultVars => VaultInv'
  <2> SUFFICES ASSUME VaultInv, [VaultNext]_vaultVars, ~rough'
               PROVE  Smooth'
    BY DEF VaultInv
  <2>1. ~rough
    BY DEF VaultNext, vaultVars, ReadDna, ReadLog, ReadNotes, Truncate, Fill, BridgeEnds, BridgeDies
  <2>2. Smooth
    BY <2>1 DEF VaultInv
  <2>3. CASE UNCHANGED vaultVars
    <3>1. /\ files' = files /\ bridge' = bridge /\ logged' = logged /\ Active' = Active
      BY <2>3 DEF vaultVars, Active
    <3>2. /\ VaultTypes' /\ \A b, c \in Active' : b = c
      BY <2>2, <3>1 DEF Smooth, VaultTypes
    <3>3. \A p \in Paths : Filling(p)' \/ Kept(p, files'[p], logged')
      BY <2>2, <3>1 DEF Smooth, Filling, NextNote
    <3>4. ASSUME NEW b \in Active
          PROVE  Reads(b)' /\ Writes(b)'
      <4>1. Reads(b) /\ Writes(b)
        BY <2>2, OnlyOne
      <4>2. \A path : Rendered(b, path)' = Rendered(b, path)
        BY <3>1 DEF Rendered
      <4>3. Reads(b)'
        BY <3>1, <4>1 DEF Reads
      <4>4. Writes(b)'
        BY <3>1, <4>1, <4>2 DEF Writes
      <4> QED
        BY <4>3, <4>4
    <3> QED
      BY <3>1, <3>2, <3>3, <3>4 DEF Smooth
  <2>4. CASE VaultNext
    <3>1. PICK b \in Bridges : ReadDna(b) \/ ReadLog(b) \/ ReadNotes(b) \/ Truncate(b) \/ Fill(b)
                              \/ BridgeEnds(b) \/ BridgeDies(b)
      BY <2>4 DEF VaultNext
    <3>2. CASE ReadDna(b)
      BY <2>2, <3>2, ReadDnaKeeps
    <3>3. CASE ReadLog(b)
      BY <2>2, <3>3, ReadLogKeeps
    <3>4. CASE ReadNotes(b)
      BY <2>2, <3>4, ReadNotesKeeps
    <3>5. CASE Truncate(b)
      BY <2>2, <3>5, TruncateKeeps
    <3>6. CASE Fill(b)
      BY <2>2, <3>6, VaultAssumption, FillKeeps
    <3>7. CASE BridgeEnds(b) \/ BridgeDies(b)
      BY <2>2, <3>7, EndsKeep
    <3> QED
      BY <3>1, <3>2, <3>3, <3>4, <3>5, <3>6, <3>7
  <2> QED
    BY <2>3, <2>4
<1>2. VaultInv => VaultInOrder
  BY DEF VaultInv, Smooth, VaultInOrder, Filling, Kept, RunsOf
<1> QED
  BY <1>1, <1>2, VaultStarts, PTL DEF VaultSpec





-----------------------------------------------------------------------------
(* Bundles.  Rows with the root of others have the hashes of the others,     *)
(* although leaves and nodes are hashed alike and an odd node is hashed with *)
(* itself: a level tells what the level below it holds (Below), and hashes   *)
(* are never as long as two of them (SameHeight).                            *)

\* The levels are what a function that is its own unrolling has.
Unrolled(leaves, g) == [n \in Nat |-> IF n = 0 THEN leaves ELSE Halved(g[n - 1])]

\* There is such a function.
LEMMA Unrolls == ASSUME NEW leaves PROVE \E g : g = Unrolled(leaves, g)
<1> DEFINE Right(g, n) == g[0] = leaves /\ \A m \in Nat : m < n => g[m + 1] = Halved(g[m])
           G(n) == CHOOSE g : Right(g, n)
           h == [n \in Nat |-> G(n)[n]]
<1>1. \A n \in Nat : \E g : Right(g, n)
  <2> DEFINE P == {n \in Nat : \E g : Right(g, n)}
  <2>1. 0 \in P
    <3> DEFINE g == [n \in Nat |-> leaves]
    <3>1. Right(g, 0)
      OBVIOUS
    <3> HIDE DEF g
    <3> QED
      BY <3>1
  <2>2. ASSUME NEW n \in P
        PROVE  n + 1 \in P
    <3>1. PICK g : Right(g, n)
      OBVIOUS
    <3> DEFINE k == [m \in Nat |-> IF m = n + 1 THEN Halved(g[n]) ELSE g[m]]
    <3>2. k[0] = leaves
      BY <3>1
    <3>3. ASSUME NEW m \in Nat, m < n + 1
          PROVE  k[m + 1] = Halved(k[m])
      <4>1. k[m] = g[m]
        BY <3>3
      <4>2. CASE m = n
        BY <4>1, <4>2
      <4>3. CASE m # n
        <5>1. m < n /\ m + 1 # n + 1 /\ m + 1 \in Nat
          BY <3>3, <4>3
        <5> QED
          BY <3>1, <4>1, <5>1
      <4> QED
        BY <4>2, <4>3
    <3> HIDE DEF k
    <3>4. Right(k, n + 1)
      BY <3>2, <3>3
    <3> HIDE DEF Right
    <3> QED
      BY <3>4
  <2> HIDE DEF P
  <2>3. P = Nat
    <3>1. P \in SUBSET Nat
      BY DEF P
    <3> QED
      BY <2>1, <2>2, <3>1, Counting
  <2> QED
    BY <2>3 DEF P
<1>2. \A n \in Nat : Right(G(n), n)
  <2> HIDE DEF Right
  <2> QED
    BY <1>1
<1>3. ASSUME NEW n \in Nat
      PROVE  G(n + 1)[n] = G(n)[n]
  <2> DEFINE P == {m \in Nat : m <= n => G(n + 1)[m] = G(n)[m]}
  <2>1. Right(G(n), n) /\ Right(G(n + 1), n + 1)
    BY <1>2
  <2> HIDE DEF G
  <2>2. 0 \in P
    BY <2>1
  <2>3. ASSUME NEW m \in P
        PROVE  m + 1 \in P
    BY <2>1
  <2> HIDE DEF P
  <2>4. P = Nat
    <3>1. P \in SUBSET Nat
      BY DEF P
    <3> QED
      BY <2>2, <2>3, <3>1, Counting
  <2>5. n \in P
    BY <2>4
  <2> QED
    BY <2>5 DEF P
<1>4. h[0] = leaves
  BY <1>2
<1>5. ASSUME NEW n \in Nat
      PROVE  h[n + 1] = Halved(h[n])
  <2>1. Right(G(n + 1), n + 1) /\ G(n + 1)[n] = G(n)[n]
    BY <1>2, <1>3
  <2> HIDE DEF G
  <2> QED
    BY <2>1
<1> HIDE DEF h
<1>6. \A n \in Nat : h[n] = Unrolled(leaves, h)[n]
  <2> SUFFICES ASSUME NEW n \in Nat
               PROVE  h[n] = IF n = 0 THEN leaves ELSE Halved(h[n - 1])
    BY DEF Unrolled
  <2>1. CASE n = 0
    BY <1>4, <2>1
  <2>2. CASE n # 0
    <3>1. n - 1 \in Nat /\ (n - 1) + 1 = n
      BY <2>2
    <3> QED
      BY <1>5, <2>2, <3>1
  <2> QED
    BY <2>1, <2>2
<1>7. h = [n \in Nat |-> h[n]]
  BY DEF h
<1>8. h = Unrolled(leaves, h)
  BY <1>6, <1>7 DEF Unrolled
<1> QED
  BY <1>8

\* What the levels are.
LEMMA LevelByLevel ==
    ASSUME NEW leaves
    PROVE  /\ Levels(leaves)[0] = leaves
           /\ \A n \in Nat : Levels(leaves)[n + 1] = Halved(Levels(leaves)[n])
<1> DEFINE g == Levels(leaves)
<1>1. g = CHOOSE k : k = Unrolled(leaves, k)
  BY DEF Levels, Unrolled
<1>2. g = Unrolled(leaves, g)
  BY <1>1, Unrolls
<1> HIDE DEF g
<1>3. g[0] = leaves
  BY <1>2 DEF Unrolled
<1>4. ASSUME NEW n \in Nat
      PROVE  g[n + 1] = Halved(g[n])
  <2>1. n + 1 \in Nat /\ n + 1 # 0 /\ (n + 1) - 1 = n
    OBVIOUS
  <2>2. Unrolled(leaves, g)[n + 1] = Halved(g[(n + 1) - 1])
    BY <2>1 DEF Unrolled
  <2> QED
    BY <1>2, <2>1, <2>2
<1> QED
  BY <1>3, <1>4 DEF g

\* A level of the tree: at least one node, each of them a hash, of its content.
IsHash(h) == h = <<h[1]>>
IsLevel(l) == Sequential(l) /\ Len(l) >= 1 /\ \A i \in 1..Len(l) : IsHash(l[i])
Contents(l) == {l[i][1] : i \in 1..Len(l)}

\* Two hashes one after the other.
LEMMA TwoHashes ==
    ASSUME NEW x, NEW y
    PROVE  <<x>> \o <<y>> = <<x, y>> /\ <<x, y>>[1] = x /\ <<x, y>>[2] = y
<1> DEFINE s == <<x>>
           t == <<y>>
           u == <<x, y>>
<1>1. /\ s \in Seq({x, y}) /\ t \in Seq({x, y}) /\ u \in Seq({x, y})
      /\ Len(s) = 1 /\ Len(t) = 1 /\ Len(u) = 2
      /\ s[1] = x /\ t[1] = y /\ u[1] = x /\ u[2] = y
  OBVIOUS
<1> HIDE DEF s, t, u
<1>2. /\ s \o t \in Seq({x, y}) /\ Len(s \o t) = 2
      /\ \A i \in 1..2 : (s \o t)[i] = IF i <= 1 THEN s[i] ELSE t[i - 1]
  BY <1>1, ConcatProperties
<1>3. \A i \in 1..2 : (s \o t)[i] = u[i]
  <2>1. (s \o t)[1] = s[1] /\ (s \o t)[2] = t[1]
    BY <1>2
  <2>2. \A i \in 1..2 : i = 1 \/ i = 2
    OBVIOUS
  <2> QED
    BY <1>1, <2>1, <2>2
<1>4. s \o t = u
  BY <1>1, <1>2, <1>3, SeqEqual
<1> QED
  BY <1>1, <1>4 DEF s, t, u

\* A function on the first numbers is a sequence.
LEMMA Listing ==
    ASSUME NEW n \in Nat, NEW f, f = [i \in 1..n |-> f[i]]
    PROVE  Sequential(f) /\ Len(f) = n /\ DOMAIN f = 1..n
<1> DEFINE S == {f[i] : i \in 1..n}
<1>1. f \in [1..n -> S] /\ DOMAIN f = 1..n
  OBVIOUS
<1> HIDE DEF S
<1>2. f \in Seq(S)
  BY <1>1, SeqDef
<1>3. Len(f) \in Nat /\ DOMAIN f = 1..Len(f)
  BY <1>2, LenProperties
<1>4. 1..n = 1..Len(f)
  BY <1>1, <1>3
<1> QED
  BY <1>1, <1>2, <1>3, <1>4, SameLength DEF Sequential

\* The nodes above a level are the hashes of its pairs.
LEMMA Above ==
    ASSUME NEW l, IsLevel(l), Len(l) > 1
    PROVE  LET u == NextLevel(l)
           IN  /\ IsLevel(u) /\ Len(u) < Len(l)
               /\ \A i \in 1..Len(u) : \E a, b \in 1..Len(l) : u[i][1] = <<l[a][1], l[b][1]>>
               /\ \A a \in 1..Len(l) : \E i \in 1..Len(u) : \E b \in 1..Len(l) :
                      u[i][1] \in {<<l[a][1], l[b][1]>>, <<l[b][1], l[a][1]>>}
<1> DEFINE n == Len(l)
           m == (n + 1) \div 2
           second(i) == IF 2 * i <= n THEN 2 * i ELSE 2 * i - 1
           u == NextLevel(l)
<1>1. n \in Nat /\ n > 1 /\ DOMAIN l = 1..n
  BY LenProperties DEF IsLevel, Sequential
<1> HIDE DEF n
<1>2. m \in Nat /\ m >= 1 /\ m < n /\ 2 * m >= n /\ 2 * m <= n + 1
  BY <1>1
<1> HIDE DEF m
<1>3. \A i \in 1..m : 2 * i - 1 \in 1..n /\ second(i) \in 1..n
  BY <1>1, <1>2
<1>4. u = [i \in 1..m |-> <<l[2 * i - 1] \o l[second(i)]>>]
  BY DEF NextLevel, Sha256, n, m
<1>5. ASSUME NEW i \in 1..m
      PROVE  u[i] = <<u[i][1]>> /\ u[i][1] = <<l[2 * i - 1][1], l[second(i)][1]>>
  <2> DEFINE a == 2 * i - 1
             b == second(i)
  <2>1. a \in 1..n /\ b \in 1..n
    BY <1>3
  <2> HIDE DEF a, b
  <2>2. l[a] = <<l[a][1]>> /\ l[b] = <<l[b][1]>>
    BY <2>1 DEF IsLevel, IsHash, n
  <2>3. l[a] \o l[b] = <<l[a][1], l[b][1]>>
    <3> DEFINE x == l[a][1]
               y == l[b][1]
    <3>1. l[a] = <<x>> /\ l[b] = <<y>>
      BY <2>2
    <3> HIDE DEF x, y
    <3>2. l[a] \o l[b] = <<x, y>>
      BY <3>1, TwoHashes
    <3> QED
      BY <3>2 DEF x, y
  <2>4. u[i] = <<l[a] \o l[b]>>
    BY <1>4 DEF a, b
  <2> QED
    BY <2>3, <2>4 DEF a, b
<1> HIDE DEF second, u
<1>6. Sequential(u) /\ Len(u) = m
  <2>1. u = [i \in 1..m |-> u[i]]
    BY <1>4
  <2> QED
    BY <1>2, <2>1, Listing
<1>7. IsLevel(u)
  BY <1>2, <1>5, <1>6 DEF IsLevel, IsHash
<1>8. ASSUME NEW a \in 1..n
      PROVE  \E i \in 1..m : \E b \in 1..n : u[i][1] \in {<<l[a][1], l[b][1]>>, <<l[b][1], l[a][1]>>}
  <2>1. PICK i \in 1..m : a = 2 * i - 1 \/ a = 2 * i
    <3> DEFINE i == (a + 1) \div 2
    <3>1. i \in Nat /\ i >= 1 /\ i <= m /\ (a = 2 * i - 1 \/ a = 2 * i)
      BY <1>1, <1>2
    <3> HIDE DEF i
    <3> QED
      BY <3>1
  <2>2. u[i][1] = <<l[2 * i - 1][1], l[second(i)][1]>>
    BY <1>5
  <2>3. CASE a = 2 * i - 1
    BY <1>3, <2>2, <2>3
  <2>4. CASE a = 2 * i
    <3>1. second(i) = a
      BY <1>1, <2>4 DEF second
    <3> QED
      BY <1>3, <2>2, <3>1
  <2> QED
    BY <2>1, <2>3, <2>4
<1>9. \A i \in 1..m : \E a, b \in 1..n : u[i][1] = <<l[a][1], l[b][1]>>
  BY <1>3, <1>5
<1> QED
  BY <1>2, <1>6, <1>7, <1>8, <1>9 DEF n, u

\* A level tells what the level below it holds.
LEMMA Below ==
    ASSUME NEW l, IsLevel(l), Len(l) > 1
    PROVE  LET U == Contents(NextLevel(l)) IN Contents(l) = {p[1] : p \in U} \cup {p[2] : p \in U}
<1> DEFINE u == NextLevel(l)
           U == Contents(u)
<1>1. /\ \A i \in 1..Len(u) : \E a, b \in 1..Len(l) : u[i][1] = <<l[a][1], l[b][1]>>
      /\ \A a \in 1..Len(l) : \E i \in 1..Len(u) : \E b \in 1..Len(l) :
             u[i][1] \in {<<l[a][1], l[b][1]>>, <<l[b][1], l[a][1]>>}
  BY Above
<1> HIDE DEF u
<1>2. ASSUME NEW p \in U
      PROVE  p[1] \in Contents(l) /\ p[2] \in Contents(l)
  <2>1. PICK i \in 1..Len(u) : p = u[i][1]
    BY DEF Contents
  <2>2. PICK a \in 1..Len(l), b \in 1..Len(l) : p = <<l[a][1], l[b][1]>>
    BY <1>1, <2>1
  <2>3. p[1] = l[a][1] /\ p[2] = l[b][1]
    BY <2>2
  <2> QED
    BY <2>3 DEF Contents
<1>3. ASSUME NEW c \in Contents(l)
      PROVE  \E p \in U : c = p[1] \/ c = p[2]
  <2>1. PICK a \in 1..Len(l) : c = l[a][1]
    BY DEF Contents
  <2>2. PICK i \in 1..Len(u), b \in 1..Len(l) : u[i][1] \in {<<l[a][1], l[b][1]>>, <<l[b][1], l[a][1]>>}
    BY <1>1
  <2>3. u[i][1] \in U
    BY DEF Contents
  <2>4. u[i][1][1] = c \/ u[i][1][2] = c
    BY <2>1, <2>2
  <2> QED
    BY <2>3, <2>4
<1> HIDE DEF U
<1>4. Contents(l) = {p[1] : p \in U} \cup {p[2] : p \in U}
  BY <1>2, <1>3
<1> QED
  BY <1>4 DEF U, u

\* The tree has a root: the first level that is one node, at which it stays.
LEMMA Height ==
    ASSUME NEW leaves, IsLevel(leaves)
    PROVE  LET L == Levels(leaves)
           IN  \E d \in Nat : /\ \A n \in Nat : IsLevel(L[n])
                             /\ Len(L[d]) = 1 /\ L[Len(leaves)] = L[d]
                             /\ \A n \in Nat : n < d => Len(L[n]) > 1 /\ L[n + 1] = NextLevel(L[n])
<1> DEFINE L == Levels(leaves)
           N == Len(leaves)
<1>1. L[0] = leaves /\ \A n \in Nat : L[n + 1] = Halved(L[n])
  BY LevelByLevel
<1>2. N \in Nat /\ N >= 1
  BY LenProperties DEF IsLevel, Sequential
<1> HIDE DEF L, N
<1>3. ASSUME NEW l, IsLevel(l)
      PROVE  /\ IsLevel(Halved(l)) /\ Len(l) \in Nat /\ Len(l) >= 1 /\ Len(Halved(l)) \in Nat
             /\ Len(l) = 1 => Halved(l) = l
             /\ Len(l) # 1 => Len(l) > 1 /\ Halved(l) = NextLevel(l) /\ Len(Halved(l)) < Len(l)
  <2>1. Len(l) \in Nat /\ Len(l) >= 1
    BY <1>3, LenProperties DEF IsLevel, Sequential
  <2>2. CASE Len(l) = 1
    BY <1>3, <2>1, <2>2 DEF Halved
  <2>3. CASE Len(l) > 1
    <3>1. Halved(l) = NextLevel(l)
      BY <2>3 DEF Halved
    <3>2. IsLevel(NextLevel(l)) /\ Len(NextLevel(l)) < Len(l)
      BY <1>3, <2>3, Above
    <3>3. Len(NextLevel(l)) \in Nat
      BY <3>2, LenProperties DEF IsLevel, Sequential
    <3>4. IsLevel(Halved(l)) /\ Len(Halved(l)) \in Nat /\ Len(Halved(l)) < Len(l)
      BY <3>1, <3>2, <3>3
    <3>5. Len(l) # 1
      BY <2>3
    <3> QED
      BY <2>1, <2>3, <3>1, <3>4, <3>5, Zenon
  <2> QED
    BY <2>1, <2>2, <2>3
<1> DEFINE Shrinks(n) == IsLevel(L[n]) /\ (Len(L[n]) = 1 \/ Len(L[n]) + n <= N)
           P == {n \in Nat : Shrinks(n)}
<1>4. P = Nat
  <2>1. 0 \in P
    BY <1>1, <1>2 DEF N
  <2>2. ASSUME NEW n \in P
        PROVE  n + 1 \in P
    <3>1. L[n + 1] = Halved(L[n]) /\ Shrinks(n)
      BY <1>1
    <3>2. Shrinks(n + 1)
      BY <1>2, <1>3, <3>1
    <3> HIDE DEF Shrinks
    <3> QED
      BY <3>2
  <2> HIDE DEF P
  <2>3. P \in SUBSET Nat
    BY DEF P
  <2> QED
    BY <2>1, <2>2, <2>3, Counting
<1>5. \A n \in Nat : Shrinks(n)
  BY <1>4
<1> DEFINE T == {n \in Nat : Len(L[n]) = 1}
<1>6. N \in T
  BY <1>2, <1>3, <1>5
<1>7. PICK d \in T : \A n \in T : d <= n
  <2> HIDE DEF T
  <2>1. T \in SUBSET Nat
    BY DEF T
  <2> QED
    BY <1>6, <2>1, LeastOf
<1>8. ASSUME NEW n \in Nat, n < d
      PROVE  Len(L[n]) > 1 /\ L[n + 1] = NextLevel(L[n])
  <2>1. IsLevel(L[n]) /\ L[n + 1] = Halved(L[n])
    BY <1>1, <1>5
  <2>2. Len(L[n]) # 1
    BY <1>7, <1>8
  <2> QED
    BY <1>3, <2>1, <2>2
<1> DEFINE Q == {n \in Nat : d <= n => L[n] = L[d]}
<1>9. Q = Nat
  <2>1. 0 \in Q
    BY <1>7
  <2>2. ASSUME NEW n \in Q
        PROVE  n + 1 \in Q
    <3>1. CASE d <= n
      <4>1. L[n] = L[d] /\ L[n + 1] = Halved(L[n]) /\ IsLevel(L[d]) /\ Len(L[d]) = 1
        BY <1>1, <1>5, <1>7, <3>1
      <4> QED
        BY <1>3, <4>1
    <3>2. CASE ~(d <= n)
      BY <1>7, <3>2
    <3> QED
      BY <3>1, <3>2
  <2> HIDE DEF Q
  <2>3. Q \in SUBSET Nat
    BY DEF Q
  <2> QED
    BY <2>1, <2>2, <2>3, Counting
<1>10. d <= N /\ N \in Q
  BY <1>2, <1>6, <1>7, <1>9
<1>11. L[N] = L[d] /\ Len(L[d]) = 1 /\ d \in Nat
  BY <1>7, <1>10
<1> QED
  BY <1>5, <1>8, <1>11 DEF L, N

\* What is recorded is a hash itself, and never two of them.
IsRecord(l) == IsLevel(l) /\ \A i \in 1..Len(l) : IsHash(l[i][1])

\* No leaf is a node: a hash is one and not two.
LEMMA NoNode ==
    ASSUME NEW x, IsRecord(x), NEW l, IsLevel(l), Len(l) > 1
    PROVE  Contents(x) # Contents(NextLevel(l))
<1> DEFINE u == NextLevel(l)
<1>1. x[1][1] \in Contents(x) /\ IsHash(x[1][1])
  <2>1. 1 \in 1..Len(x)
    BY LenProperties DEF IsRecord, IsLevel, Sequential
  <2> QED
    BY <2>1 DEF Contents, IsRecord
<1>2. \A i \in 1..Len(u) : \E a, b \in 1..Len(l) : u[i][1] = <<l[a][1], l[b][1]>>
  BY Above
<1> HIDE DEF u
<1>3. ASSUME NEW c \in Contents(u)
      PROVE  ~IsHash(c)
  <2>1. PICK i \in 1..Len(u) : c = u[i][1]
    BY DEF Contents
  <2>2. PICK a \in 1..Len(l), b \in 1..Len(l) : c = <<l[a][1], l[b][1]>>
    BY <1>2, <2>1
  <2>3. \A z : c # <<z>>
    BY <2>2
  <2> QED
    BY <2>3 DEF IsHash
<1> QED
  BY <1>1, <1>3 DEF u

\* From the same root down the levels hold the same, and no leaf is a node.
LEMMA SameRoot ==
    ASSUME NEW x, IsRecord(x), NEW y, IsRecord(y),
           Levels(x)[Len(x)][1] = Levels(y)[Len(y)][1]
    PROVE  Contents(x) = Contents(y)
<1> DEFINE L == Levels(x)
           K == Levels(y)
<1>1. PICK d \in Nat : /\ \A n \in Nat : IsLevel(L[n])
                       /\ Len(L[d]) = 1 /\ L[Len(x)] = L[d]
                       /\ \A n \in Nat : n < d => Len(L[n]) > 1 /\ L[n + 1] = NextLevel(L[n])
  BY Height DEF IsRecord
<1>2. PICK e \in Nat : /\ \A n \in Nat : IsLevel(K[n])
                       /\ Len(K[e]) = 1 /\ K[Len(y)] = K[e]
                       /\ \A n \in Nat : n < e => Len(K[n]) > 1 /\ K[n + 1] = NextLevel(K[n])
  BY Height DEF IsRecord
<1>3. L[0] = x /\ K[0] = y /\ L[d][1] = K[e][1]
  BY <1>1, <1>2, LevelByLevel
<1> HIDE DEF L, K
<1> DEFINE P == {j \in Nat : j <= d /\ j <= e => Contents(L[d - j]) = Contents(K[e - j])}
<1>4. P = Nat
  <2>1. 0 \in P
    <3>1. Contents(L[d]) = {L[d][1][1]} /\ Contents(K[e]) = {K[e][1][1]}
      BY <1>1, <1>2 DEF Contents
    <3>2. d - 0 = d /\ e - 0 = e
      OBVIOUS
    <3> QED
      BY <1>3, <3>1, <3>2
  <2>2. ASSUME NEW j \in P
        PROVE  j + 1 \in P
    <3> SUFFICES ASSUME j + 1 <= d, j + 1 <= e
                 PROVE  Contents(L[d - (j + 1)]) = Contents(K[e - (j + 1)])
      OBVIOUS
    <3> DEFINE m == d - (j + 1)
               n == e - (j + 1)
    <3>1. /\ m \in Nat /\ n \in Nat /\ m < d /\ n < e /\ m + 1 = d - j /\ n + 1 = e - j
          /\ Contents(L[d - j]) = Contents(K[e - j])
      OBVIOUS
    <3> HIDE DEF m, n
    <3>2. Contents(L[m + 1]) = Contents(K[n + 1])
      BY <3>1
    <3>3. IsLevel(L[m]) /\ Len(L[m]) > 1 /\ L[m + 1] = NextLevel(L[m])
      BY <1>1, <3>1
    <3>4. IsLevel(K[n]) /\ Len(K[n]) > 1 /\ K[n + 1] = NextLevel(K[n])
      BY <1>2, <3>1
    <3>5. Contents(L[m]) = {p[1] : p \in Contents(L[m + 1])} \cup {p[2] : p \in Contents(L[m + 1])}
      BY <3>3, Below
    <3>6. Contents(K[n]) = {p[1] : p \in Contents(K[n + 1])} \cup {p[2] : p \in Contents(K[n + 1])}
      BY <3>4, Below
    <3> QED
      BY <3>2, <3>5, <3>6 DEF m, n
  <2> HIDE DEF P
  <2>3. P \in SUBSET Nat
    BY DEF P
  <2> QED
    BY <2>1, <2>2, <2>3, Counting
<1>5. /\ d <= e => Contents(L[0]) = Contents(K[e - d])
      /\ e <= d => Contents(L[d - e]) = Contents(K[0])
  <2>1. d \in P /\ e \in P
    BY <1>4
  <2>2. d - d = 0 /\ e - e = 0
    OBVIOUS
  <2> QED
    BY <2>1, <2>2
<1>6. ~(d < e)
  <2> SUFFICES ASSUME d < e
               PROVE  FALSE
    OBVIOUS
  <2> DEFINE n == e - d - 1
  <2>1. n \in Nat /\ n < e /\ n + 1 = e - d
    OBVIOUS
  <2> HIDE DEF n
  <2>2. Contents(x) = Contents(NextLevel(K[n])) /\ IsLevel(K[n]) /\ Len(K[n]) > 1
    BY <1>2, <1>3, <1>5, <2>1
  <2> QED
    BY <2>2, NoNode
<1>7. ~(e < d)
  <2> SUFFICES ASSUME e < d
               PROVE  FALSE
    OBVIOUS
  <2> DEFINE n == d - e - 1
  <2>1. n \in Nat /\ n < d /\ n + 1 = d - e
    OBVIOUS
  <2> HIDE DEF n
  <2>2. Contents(y) = Contents(NextLevel(L[n])) /\ IsLevel(L[n]) /\ Len(L[n]) > 1
    BY <1>1, <1>3, <1>5, <2>1
  <2> QED
    BY <2>2, NoNode
<1>8. d = e
  BY <1>6, <1>7
<1> QED
  BY <1>3, <1>5, <1>8

\* The leaves over some hashes.
LEMMA Leaves ==
    ASSUME NEW h, Sequential(h), h # <<>>, \A i \in 1..Len(h) : IsHash(h[i])
    PROVE  LET x == [i \in DOMAIN h |-> Sha256(h[i])]
           IN  IsRecord(x) /\ Len(x) = Len(h) /\ Contents(x) = {h[i] : i \in 1..Len(h)}
<1> DEFINE x == [i \in DOMAIN h |-> Sha256(h[i])]
<1>1. Len(h) \in Nat /\ Len(h) >= 1 /\ DOMAIN h = 1..Len(h)
  BY LenProperties, EmptySeq DEF Sequential
<1>2. x = [i \in 1..Len(h) |-> x[i]]
  BY <1>1
<1>3. \A i \in 1..Len(h) : x[i] = <<h[i]>> /\ x[i][1] = h[i]
  BY <1>1 DEF Sha256
<1> HIDE DEF x
<1>4. Sequential(x) /\ Len(x) = Len(h)
  BY <1>1, <1>2, Listing
<1>5. IsRecord(x)
  BY <1>1, <1>3, <1>4 DEF IsRecord, IsLevel, IsHash
<1>6. Contents(x) = {h[i] : i \in 1..Len(h)}
  BY <1>3, <1>4 DEF Contents
<1> QED
  BY <1>4, <1>5, <1>6 DEF x

\* No rows have the root of none.
LEMMA NotEmptyRoot ==
    ASSUME NEW h, Sequential(h), h # <<>>, \A i \in 1..Len(h) : IsHash(h[i])
    PROVE  MerkleRoot(h) # MerkleRoot(<<>>)
<1> DEFINE x == [i \in DOMAIN h |-> Sha256(h[i])]
           L == Levels(x)
<1>1. IsRecord(x) /\ Len(x) = Len(h)
  BY Leaves
<1>2. MerkleRoot(h) = L[Len(x)][1] /\ MerkleRoot(<<>>) = <<<<>>>>
  BY <1>1 DEF MerkleRoot, Sha256
<1>3. L[0] = x
  BY LevelByLevel
<1> HIDE DEF x
<1>4. PICK d \in Nat : /\ \A n \in Nat : IsLevel(L[n])
                       /\ Len(L[d]) = 1 /\ L[Len(x)] = L[d]
                       /\ \A n \in Nat : n < d => Len(L[n]) > 1 /\ L[n + 1] = NextLevel(L[n])
  BY <1>1, Height DEF IsRecord
<1> HIDE DEF L
<1>5. CASE d = 0
  <2>1. L[Len(x)][1][1] = x[1][1] /\ 1 \in 1..Len(x)
    BY <1>3, <1>4, <1>5
  <2>2. L[Len(x)][1][1] = <<L[Len(x)][1][1][1]>>
    BY <1>1, <2>1 DEF IsRecord, IsHash
  <2> QED
    BY <1>2, <2>2
<1>6. CASE d # 0
  <2> DEFINE l == L[d - 1]
             u == NextLevel(l)
  <2>1. d - 1 \in Nat /\ d - 1 < d /\ (d - 1) + 1 = d
    BY <1>6
  <2>2. IsLevel(l) /\ Len(l) > 1 /\ L[d] = u
    BY <1>4, <2>1
  <2>3. \A i \in 1..Len(u) : \E a, b \in 1..Len(l) : u[i][1] = <<l[a][1], l[b][1]>>
    BY <2>2, Above
  <2> HIDE DEF l, u
  <2>4. 1 \in 1..Len(u)
    BY <1>4, <2>2
  <2>5. PICK a \in 1..Len(l), b \in 1..Len(l) : u[1][1] = <<l[a][1], l[b][1]>>
    BY <2>3, <2>4
  <2>6. L[Len(x)][1][1] # <<>>
    BY <1>4, <2>2, <2>5
  <2> QED
    BY <1>2, <2>6
<1> QED
  BY <1>5, <1>6

HashList(h) == Sequential(h) /\ \A i \in 1..Len(h) : IsHash(h[i])
Hashes(h) == {h[i] : i \in 1..Len(h)}

\* Rows with the same root record the same hashes.
LEMMA SameHashes ==
    ASSUME NEW h, HashList(h), NEW k, HashList(k), MerkleRoot(h) = MerkleRoot(k)
    PROVE  Hashes(h) = Hashes(k)
<1>1. CASE h = <<>>
  <2>1. CASE k = <<>>
    BY <1>1, <2>1
  <2>2. CASE k # <<>>
    BY <1>1, <2>2, NotEmptyRoot DEF HashList
  <2> QED
    BY <2>1, <2>2
<1>2. CASE h # <<>> /\ k = <<>>
  BY <1>2, NotEmptyRoot DEF HashList
<1>3. CASE h # <<>> /\ k # <<>>
  <2> DEFINE x == [i \in DOMAIN h |-> Sha256(h[i])]
             y == [i \in DOMAIN k |-> Sha256(k[i])]
  <2>1. IsRecord(x) /\ Len(x) = Len(h) /\ Contents(x) = Hashes(h)
    BY <1>3, Leaves DEF HashList, Hashes
  <2>2. IsRecord(y) /\ Len(y) = Len(k) /\ Contents(y) = Hashes(k)
    BY <1>3, Leaves DEF HashList, Hashes
  <2>3. MerkleRoot(h) = Levels(x)[Len(h)][1] /\ MerkleRoot(k) = Levels(y)[Len(k)][1]
    BY <1>3 DEF MerkleRoot
  <2> HIDE DEF x, y
  <2>4. Levels(x)[Len(x)][1] = Levels(y)[Len(y)][1]
    BY <2>1, <2>2, <2>3
  <2>5. Contents(x) = Contents(y)
    BY <2>1, <2>2, <2>4, SameRoot
  <2> QED
    BY <2>1, <2>2, <2>5
<1> QED
  BY <1>1, <1>2, <1>3

\* Rows can be put in the order of their ids.
LEMMA Arranging ==
    ASSUME NEW rows, NEW named \in SUBSET Nat, IsFiniteSet(named), \A i \in named : rows[i].id \in Nat
    PROVE  \E s \in [1..Cardinality(named) -> named] :
               \A m, n \in DOMAIN s : m < n =>
                   rows[s[m]].id < rows[s[n]].id \/ (rows[s[m]].id = rows[s[n]].id /\ s[m] < s[n])
<1> DEFINE Before(i, k) == rows[i].id < rows[k].id \/ (rows[i].id = rows[k].id /\ i < k)
           Orders(K, n, s) == s \in [1..n -> K] /\ \A i, k \in 1..n : i < k => Before(s[i], s[k])
           P == {n \in Nat : \A K \in SUBSET named : Cardinality(K) = n => \E s : Orders(K, n, s)}
<1>1. /\ \A i, k \in named : i # k => Before(i, k) \/ Before(k, i)
      /\ \A i, j, k \in named : Before(i, j) /\ Before(j, k) => Before(i, k)
  OBVIOUS
<1> HIDE DEF Before
<1>2. 0 \in P
  <2>1. ASSUME NEW K
        PROVE  Orders(K, 0, [i \in 1..0 |-> 0])
    OBVIOUS
  <2> HIDE DEF Orders
  <2> QED
    BY <2>1
<1>3. ASSUME NEW n \in P
      PROVE  n + 1 \in P
  <2>1. ASSUME NEW K \in SUBSET named, Cardinality(K) = n + 1
        PROVE  \E s : Orders(K, n + 1, s)
    <3>1. IsFiniteSet(K) /\ K # {}
      <4>1. IsFiniteSet(K)
        BY FS_Subset
      <4> QED
        BY <2>1, <4>1, FS_EmptySet
    <3>2. PICK x \in K : TRUE
      BY <3>1
    <3>3. Cardinality(K \ {x}) = n /\ K \ {x} \in SUBSET named
      <4>1. Cardinality(K \ {x}) = Cardinality(K) - 1
        BY <3>1, FS_RemoveElement
      <4> QED
        BY <2>1, <4>1
    <3>4. PICK s : Orders(K \ {x}, n, s)
      <4> HIDE DEF Orders
      <4> QED
        BY <3>3
    <3> DEFINE later == {j \in 1..n : Before(x, s[j])} \cup {n + 1}
    <3>5. PICK j \in later : \A k \in later : j <= k
      <4>1. later \in SUBSET Nat /\ later # {}
        OBVIOUS
      <4> HIDE DEF later
      <4> QED
        BY <4>1, LeastOf
    <3>6. j \in 1..(n + 1) /\ \A i \in 1..n : s[i] \in K /\ s[i] \in named /\ s[i] # x
      <4>1. j \in 1..(n + 1)
        BY <3>5
      <4>2. s \in [1..n -> K \ {x}]
        BY <3>4
      <4>3. \A i \in 1..n : s[i] \in K \ {x}
        BY <4>2
      <4> HIDE DEF later
      <4> QED
        BY <2>1, <4>1, <4>3
    <3>7. ASSUME NEW i \in 1..n, i < j
          PROVE  Before(s[i], x)
      <4>1. i \notin later
        BY <3>5, <3>7
      <4>2. ~Before(x, s[i])
        BY <4>1
      <4> QED
        BY <1>1, <3>2, <3>6, <4>2
    <3>8. ASSUME NEW i \in 1..n, j <= i
          PROVE  Before(x, s[i])
      <4>1. j \in 1..n /\ Before(x, s[j])
        BY <3>5, <3>8
      <4>2. CASE i = j
        BY <4>1, <4>2
      <4>3. CASE i # j
        <5>1. Before(s[j], s[i])
          BY <3>4, <3>6, <3>8, <4>1, <4>3
        <5> QED
          BY <1>1, <3>2, <3>6, <4>1, <5>1
      <4> QED
        BY <4>2, <4>3
    <3> DEFINE t == [i \in 1..(n + 1) |-> IF i < j THEN s[i] ELSE IF i = j THEN x ELSE s[i - 1]]
    <3> HIDE DEF later
    <3>9. t \in [1..(n + 1) -> K]
      BY <3>2, <3>6
    <3>10. ASSUME NEW i \in 1..(n + 1), NEW k \in 1..(n + 1), i < k
           PROVE  Before(t[i], t[k])
      <4>1. CASE k < j
        <5>1. i \in 1..n /\ k \in 1..n /\ t[i] = s[i] /\ t[k] = s[k]
          BY <3>6, <3>10, <4>1
        <5> QED
          BY <3>4, <3>10, <5>1
      <4>2. CASE k = j
        <5>1. i \in 1..n /\ i < j /\ t[i] = s[i] /\ t[k] = x
          BY <3>6, <3>10, <4>2
        <5> QED
          BY <3>7, <5>1
      <4>3. CASE j < k /\ i < j
        <5>1. i \in 1..n /\ k - 1 \in 1..n /\ j <= k - 1 /\ t[i] = s[i] /\ t[k] = s[k - 1]
          BY <3>6, <3>10, <4>3
        <5>2. Before(s[i], x) /\ Before(x, s[k - 1])
          BY <3>7, <3>8, <4>3, <5>1
        <5>3. s[i] \in named /\ s[k - 1] \in named /\ x \in named
          BY <3>2, <3>6, <5>1
        <5>4. ASSUME NEW u \in named, NEW v \in named, Before(u, x), Before(x, v)
              PROVE  Before(u, v)
          BY <1>1, <5>3, <5>4
        <5>5. Before(s[i], s[k - 1])
          BY <5>2, <5>3, <5>4
        <5> QED
          BY <5>1, <5>5
      <4>4. CASE j < k /\ i = j
        <5>1. k - 1 \in 1..n /\ j <= k - 1 /\ t[i] = x /\ t[k] = s[k - 1]
          BY <3>6, <3>10, <4>4
        <5> QED
          BY <3>8, <5>1
      <4>5. CASE j < k /\ j < i
        <5>1. i - 1 \in 1..n /\ k - 1 \in 1..n /\ i - 1 < k - 1 /\ t[i] = s[i - 1] /\ t[k] = s[k - 1]
          BY <3>6, <3>10, <4>5
        <5> QED
          BY <3>4, <5>1
      <4> QED
        BY <3>6, <3>10, <4>1, <4>2, <4>3, <4>4, <4>5
    <3> HIDE DEF t
    <3>11. Orders(K, n + 1, t)
      BY <3>9, <3>10
    <3> HIDE DEF Orders
    <3> QED
      BY <3>11
  <2> HIDE DEF Orders
  <2> QED
    BY <2>1
<1>4. P = Nat
  <2> HIDE DEF P
  <2>1. P \in SUBSET Nat
    BY DEF P
  <2> QED
    BY <1>2, <1>3, <2>1, Counting
<1>5. Cardinality(named) \in P
  BY <1>4, FS_CardinalityType
<1>6. PICK s : Orders(named, Cardinality(named), s)
  <2> HIDE DEF Orders
  <2> QED
    BY <1>5
<1>7. s \in [1..Cardinality(named) -> named] /\ DOMAIN s = 1..Cardinality(named)
  BY <1>6
<1>8. \A m, n \in DOMAIN s : m < n => Before(s[m], s[n])
  BY <1>6, <1>7
<1> QED
  BY <1>7, <1>8 DEF Before

\* What a bundle names is a list of recorded hashes.
Recorded(artifacts) == Sequential(artifacts) /\ \A i \in 1..Len(artifacts) : IsHash(artifacts[i].sha)

\* The places of a list.
LEMMA FirstNumbers == \A n \in Nat : 1..n \subseteq Nat /\ IsFiniteSet(1..n)
<1> SUFFICES ASSUME NEW n \in Nat
             PROVE  1..n \subseteq Nat /\ IsFiniteSet(1..n)
  OBVIOUS
<1> QED
  BY FS_Interval

\* Files that are exported are on record.
LEMMA ArtifactsAreRecorded ==
    ASSUME BundleAssumption, NEW dir \in RunDirs
    PROVE  Recorded(Artifacts(dir.rows))
<1> DEFINE rows == dir.rows
           named == {i \in DOMAIN rows : rows[i].named}
           Ordered(s) == \A m, n \in DOMAIN s : m < n =>
                             rows[s[m]].id < rows[s[n]].id \/ (rows[s[m]].id = rows[s[n]].id /\ s[m] < s[n])
           order == CHOOSE s \in [1..Cardinality(named) -> named] : Ordered(s)
<1>1. /\ rows \in Seq(ToSet(rows))
      /\ \A r \in ToSet(rows) : r.named => r.id \in Nat /\ IsHash(r.sha)
  BY DEF BundleAssumption, IsHash
<1> HIDE DEF rows
<1>2. Len(rows) \in Nat /\ DOMAIN rows = 1..Len(rows)
  BY <1>1, LenProperties
<1>3. \A i \in named : rows[i].id \in Nat /\ IsHash(rows[i].sha)
  BY <1>1 DEF ToSet
<1>4. named \in SUBSET Nat /\ IsFiniteSet(named)
  <2>2. named \subseteq 1..Len(rows)
    BY <1>2
  <2> HIDE DEF named
  <2>3. 1..Len(rows) \subseteq Nat /\ IsFiniteSet(1..Len(rows))
    BY <1>2, FirstNumbers
  <2> QED
    BY <2>2, <2>3, FS_Subset
<1>5. Artifacts(rows) = [n \in DOMAIN order |-> rows[order[n]]]
  BY DEF Artifacts
<1> HIDE DEF named
<1>6. order \in [1..Cardinality(named) -> named]
  <2>1. \E s \in [1..Cardinality(named) -> named] : Ordered(s)
    BY <1>3, <1>4, Arranging
  <2> HIDE DEF Ordered
  <2> QED
    BY <2>1
<1> HIDE DEF order
<1>7. Cardinality(named) \in Nat /\ DOMAIN order = 1..Cardinality(named)
  BY <1>4, <1>6, FS_CardinalityType
<1> DEFINE a == Artifacts(rows)
<1>8. /\ a = [n \in 1..Cardinality(named) |-> a[n]]
      /\ \A n \in 1..Cardinality(named) : IsHash(a[n].sha)
  <2>1. a = [n \in 1..Cardinality(named) |-> rows[order[n]]]
    BY <1>5, <1>7
  <2> HIDE DEF a
  <2>2. a = [n \in 1..Cardinality(named) |-> a[n]]
    BY <2>1
  <2>3. ASSUME NEW n \in 1..Cardinality(named)
        PROVE  IsHash(a[n].sha)
    <3>1. a[n] = rows[order[n]] /\ order[n] \in named
      BY <1>6, <2>1
    <3> QED
      BY <1>3, <3>1
  <2> QED
    BY <2>2, <2>3
<1> HIDE DEF a
<1>9. Sequential(a) /\ Len(a) = Cardinality(named)
  BY <1>7, <1>8, Listing
<1> QED
  BY <1>8, <1>9 DEF Recorded, a, rows

-----------------------------------------------------------------------------
\* What stays of a bundle under way: of its rows only that they are a list, of
\* its signature that it is the one of the export or none.  It is untouched as
\* long as nothing was edited.

BundleFields == {"kind", "artifacts", "root", "signature", "engine", "files", "omitted"}

AsExported(b) ==
    /\ sealed = b.artifacts /\ exported = <<ExportAccepts(b)>>
    /\ \E signed \in BOOLEAN : b \in {BuildBundleManifest(runDir, signed), ExportBundleArchive(runDir, signed)}

Travelling(b) ==
    /\ DOMAIN b = BundleFields /\ Sequential(b.artifacts) /\ Recorded(sealed)
    /\ anchored \subseteq {MerkleRoot(Shas(sealed))}
    /\ b.signature \in {<<>>, <<MerkleRoot(Shas(sealed))>>}
    /\ edits = 0 => AsExported(b)

BundleInv ==
    /\ edits \in Nat
    /\ DOMAIN runDir = {"rows", "disk", "meta"} /\ \E dir \in RunDirs : runDir.rows = dir.rows
    /\ edits = 0 => runDir \in RunDirs
    /\ bundle # <<>> => Travelling(bundle[1])

\* What the export makes of a directory.
LEMMA ManifestOf ==
    ASSUME NEW dir, NEW signed \in BOOLEAN
    PROVE  LET b == BuildBundleManifest(dir, signed)
           IN  /\ DOMAIN b = BundleFields /\ b.kind = "manifest" /\ b.artifacts = Artifacts(dir.rows)
               /\ b.root = MerkleRoot(Shas(b.artifacts)) /\ b.signature \in {<<>>, <<b.root>>}
               /\ b.files = <<>> /\ b.omitted = {}
<1> DEFINE artifacts == Artifacts(dir.rows)
           root == MerkleRoot(Shas(artifacts))
           signature == IF signed THEN <<root>> ELSE <<>>
           engine == EngineProvenance(dir.meta)
           b == BuildBundleManifest(dir, signed)
<1>1. b = [kind |-> "manifest", artifacts |-> artifacts, root |-> root, signature |-> signature,
           engine |-> engine, files |-> <<>>, omitted |-> {}]
  BY DEF BuildBundleManifest
<1>2. signature \in {<<>>, <<root>>}
  OBVIOUS
<1> HIDE DEF artifacts, root, signature, engine, b
<1>3. /\ DOMAIN b = BundleFields /\ b.kind = "manifest" /\ b.artifacts = artifacts /\ b.root = root
      /\ b.signature = signature /\ b.files = <<>> /\ b.omitted = {}
  BY <1>1 DEF BundleFields
<1> QED
  BY <1>2, <1>3 DEF artifacts, root, b

\* What an archive holds of each file of the bundle.
LEMMA ArchiveOf ==
    ASSUME NEW dir, NEW signed \in BOOLEAN
    PROVE  LET b == ExportBundleArchive(dir, signed)
           IN  /\ DOMAIN b = BundleFields /\ b.kind = "archive" /\ b.artifacts = Artifacts(dir.rows)
               /\ b.root = MerkleRoot(Shas(b.artifacts)) /\ b.signature \in {<<>>, <<b.root>>}
               /\ DOMAIN b.files \subseteq NamedPaths(b.artifacts)
               /\ b.omitted = NamedPaths(b.artifacts) \ DOMAIN b.files
<1> DEFINE m == BuildBundleManifest(dir, signed)
           embedded == {p \in NamedPaths(m.artifacts) \cap DOMAIN dir.disk : dir.disk[p] \notin TooLarge}
           bytes == [p \in embedded |-> dir.disk[p]]
           omitted == NamedPaths(m.artifacts) \ embedded
           b == ExportBundleArchive(dir, signed)
<1>1. b = [m EXCEPT !.kind = "archive", !.files = bytes, !.omitted = omitted]
  BY DEF ExportBundleArchive
<1>2. /\ DOMAIN m = BundleFields /\ m.artifacts = Artifacts(dir.rows)
      /\ m.root = MerkleRoot(Shas(m.artifacts)) /\ m.signature \in {<<>>, <<m.root>>}
  BY ManifestOf
<1>3. /\ DOMAIN bytes = embedded /\ embedded \subseteq NamedPaths(m.artifacts)
      /\ omitted = NamedPaths(m.artifacts) \ embedded
  OBVIOUS
<1> HIDE DEF m, embedded, bytes, omitted, b
<1>4. /\ DOMAIN b = BundleFields /\ b.kind = "archive" /\ b.artifacts = m.artifacts /\ b.root = m.root
      /\ b.signature = m.signature /\ b.files = bytes /\ b.omitted = omitted
  BY <1>1, <1>2 DEF BundleFields
<1> QED
  BY <1>2, <1>3, <1>4 DEF b

\* Other rows are a list as well.
LEMMA OtherRowsAreLists ==
    ASSUME NEW a, Sequential(a), NEW rows \in OtherRows(a)
    PROVE  Sequential(rows)
<1> DEFINE n == Len(a)
<1>1. PICK S : a \in Seq(S)
  BY DEF Sequential
<1>2. n \in Nat /\ DOMAIN a = 1..n
  BY <1>1, LenProperties
<1>3. \/ \E i \in 1..n, v \in FileBytes : rows = [a EXCEPT ![i].sha = Sha256(v)]
      \/ \E i \in 1..n : rows = RemoveAt(a, i)
      \/ \E i \in 1..n : rows = Append(a, a[i])
      \/ rows = Paired(a)
  BY DEF OtherRows
<1> HIDE DEF n
<1>4. ASSUME NEW i \in 1..n, NEW v, rows = [a EXCEPT ![i].sha = Sha256(v)]
      PROVE  Sequential(rows)
  <2>1. rows = [k \in 1..n |-> rows[k]]
    BY <1>2, <1>4
  <2> QED
    BY <1>2, <2>1, Listing
<1>5. ASSUME NEW i \in 1..n, rows = RemoveAt(a, i)
      PROVE  Sequential(rows)
  <2>1. i - 1 \in Int /\ i + 1 \in Int /\ n \in Int /\ 1 \in Int
    BY <1>2
  <2>2. \A k \in 1..n : a[k] \in S
    BY <1>1, <1>2, ElementOfSeq
  <2>3. (\A k \in 1..(i - 1) : a[k] \in S) /\ (\A k \in (i + 1)..n : a[k] \in S)
    BY <1>2, <2>2
  <2>4. SubSeq(a, 1, i - 1) \in Seq(S) /\ SubSeq(a, i + 1, n) \in Seq(S)
    BY <2>1, <2>3, SubSeqProperties
  <2>5. SubSeq(a, 1, i - 1) \o SubSeq(a, i + 1, n) \in Seq(S)
    BY <2>4, ConcatProperties
  <2> QED
    BY <1>5, <2>5 DEF RemoveAt, Sequential, n
<1>6. ASSUME rows = Paired(a)
      PROVE  Sequential(rows)
  <2> DEFINE m == (n + 1) \div 2
  <2>1. m \in Nat
    BY <1>2
  <2>2. rows = [i \in 1..m |-> rows[i]]
    BY <1>6 DEF Paired, n
  <2> HIDE DEF m
  <2> QED
    BY <2>1, <2>2, Listing
<1>7. ASSUME NEW i \in 1..n, rows = Append(a, a[i])
      PROVE  Sequential(rows)
  BY <1>7, Appending
<1> QED
  BY <1>3, <1>4, <1>5, <1>6, <1>7

\* What bundles may come to look like stays within what is known of them.
LEMMA AlteredKeeps ==
    ASSUME NEW b, DOMAIN b = BundleFields, Sequential(b.artifacts), NEW c \in Altered(b)
    PROVE  DOMAIN c = BundleFields /\ Sequential(c.artifacts) /\ c.signature \in {<<>>, b.signature}
<1>1. ASSUME NEW value, NEW field \in {"files", "root", "signature", "engine"},
             c = [b EXCEPT ![field] = value], field = "signature" => value = <<>>
      PROVE  DOMAIN c = BundleFields /\ Sequential(c.artifacts) /\ c.signature \in {<<>>, b.signature}
  <2>1. DOMAIN c = BundleFields /\ c.artifacts = b.artifacts
    BY <1>1 DEF BundleFields
  <2>2. c.signature = IF field = "signature" THEN <<>> ELSE b.signature
    BY <1>1 DEF BundleFields
  <2> QED
    BY <2>1, <2>2
<1>2. CASE \E f \in OtherFiles(b.files) : c = [b EXCEPT !.files = f]
  BY <1>1, <1>2
<1>3. CASE \E rows \in OtherRows(b.artifacts) : c = [b EXCEPT !.artifacts = rows]
  <2>1. PICK rows : Sequential(rows) /\ c = [b EXCEPT !.artifacts = rows]
    BY <1>3, OtherRowsAreLists
  <2> QED
    BY <2>1 DEF BundleFields
<1>4. CASE \/ c = [b EXCEPT !.root = MerkleRoot(Shas(b.artifacts))]
           \/ c = [b EXCEPT !.signature = <<>>]
           \/ c = [b EXCEPT !.engine = {"other"}]
  BY <1>1, <1>4
<1> QED
  BY <1>2, <1>3, <1>4 DEF Altered

\* The invariant holds before anything is exported.
LEMMA BundleBegins == BundleAssumption /\ BundleInit => BundleInv
<1> SUFFICES ASSUME BundleAssumption, BundleInit
             PROVE  BundleInv
  OBVIOUS
<1>1. runDir \in RunDirs /\ bundle = <<>> /\ edits = 0
  BY DEF BundleInit
<1>2. DOMAIN runDir = {"rows", "disk", "meta"}
  BY <1>1 DEF BundleAssumption
<1> QED
  BY <1>1, <1>2 DEF BundleInv

\* An export keeps it,
LEMMA ExportKeeps ==
    ASSUME BundleAssumption, BundleInv,
           NEW kind \in {"manifest", "archive"}, NEW signed \in BOOLEAN, NEW log \in BOOLEAN,
           ExportBundle(kind, signed, log)
    PROVE  BundleInv'
<1> DEFINE manifest == BuildBundleManifest(runDir, signed)
           archive == ExportBundleArchive(runDir, signed)
<1>1. PICK b : /\ b \in {manifest, archive}
               /\ bundle' = <<b>> /\ sealed' = b.artifacts /\ exported' = <<ExportAccepts(b)>>
               /\ anchored' = IF ExportAccepts(b) /\ log THEN {b.root} ELSE {}
               /\ runDir' = runDir /\ edits' = edits
  BY DEF ExportBundle
<1>2. /\ DOMAIN b = BundleFields /\ b.artifacts = Artifacts(runDir.rows)
      /\ b.root = MerkleRoot(Shas(b.artifacts)) /\ b.signature \in {<<>>, <<b.root>>}
  <2>1. CASE b = manifest
    BY <2>1, ManifestOf
  <2>2. CASE b = archive
    BY <2>2, ArchiveOf
  <2> QED
    BY <1>1, <2>1, <2>2
<1>3. Recorded(b.artifacts)
  <2>1. PICK dir \in RunDirs : runDir.rows = dir.rows
    BY DEF BundleInv
  <2> QED
    BY <1>2, <2>1, ArtifactsAreRecorded
<1>4. AsExported(b)'
  <2>1. ExportAccepts(b)' = ExportAccepts(b)
    BY <1>1 DEF ExportAccepts, BytesFor
  <2>2. exported' = <<ExportAccepts(b)'>>
    BY <1>1, <2>1
  <2>3. b \in {BuildBundleManifest(runDir', signed), ExportBundleArchive(runDir', signed)}
    BY <1>1
  <2> QED
    BY <1>1, <2>2, <2>3 DEF AsExported
<1>5. Travelling(b)'
  BY <1>1, <1>2, <1>3, <1>4 DEF Travelling, Recorded
<1>6. bundle'[1] = b
  BY <1>1
<1>7. Travelling(bundle[1])'
  BY <1>5, <1>6 DEF Travelling, AsExported
<1> QED
  BY <1>1, <1>7 DEF BundleInv

\* a change of the run directory does,
LEMMA DirectoryKeeps == BundleInv /\ DirectoryChanges => BundleInv'
<1> SUFFICES ASSUME BundleInv, DirectoryChanges
             PROVE  BundleInv'
  OBVIOUS
<1>1. /\ edits \in Nat /\ edits' = edits + 1
      /\ bundle' = bundle /\ sealed' = sealed /\ anchored' = anchored
  BY DEF BundleInv, DirectoryChanges, Edited
<1>2. PICK disk : runDir' = [runDir EXCEPT !.disk = disk]
  BY DEF DirectoryChanges
<1>3. DOMAIN runDir' = {"rows", "disk", "meta"} /\ runDir'.rows = runDir.rows
  BY <1>2 DEF BundleInv
<1>4. bundle # <<>> => Travelling(bundle[1])'
  BY <1>1 DEF BundleInv, Travelling, Recorded
<1> QED
  BY <1>1, <1>3, <1>4 DEF BundleInv

\* and one on the way.
LEMMA JourneyKeeps == BundleInv /\ BundleChanges => BundleInv'
<1> SUFFICES ASSUME BundleInv, BundleChanges
             PROVE  BundleInv'
  OBVIOUS
<1>1. /\ edits \in Nat /\ edits' = edits + 1 /\ runDir' = runDir
      /\ sealed' = sealed /\ anchored' = anchored /\ Travelling(bundle[1])
  BY DEF BundleInv, BundleChanges, Edited
<1>2. PICK c \in Altered(bundle[1]) : bundle' = <<c>>
  BY DEF BundleChanges
<1>3. DOMAIN c = BundleFields /\ Sequential(c.artifacts) /\ c.signature \in {<<>>, bundle[1].signature}
  BY <1>1, AlteredKeeps DEF Travelling
<1>4. Travelling(c)'
  BY <1>1, <1>3 DEF Travelling, Recorded
<1>5. bundle'[1] = c /\ edits' # 0
  BY <1>1, <1>2
<1>6. Travelling(bundle[1])'
  BY <1>4, <1>5 DEF Travelling
<1> QED
  BY <1>1, <1>5, <1>6 DEF BundleInv

-----------------------------------------------------------------------------

\* A bundle brings the bytes that it names,
LEMMA BytesBrought == BundleInv /\ bundle # <<>> => BringsItsBytes(bundle[1])
<1> DEFINE b == bundle[1]
           bytes == BytesFor(b)
           R == MerkleRoot(Shas(sealed))
           h == Shas(b.artifacts)
           k == Shas(sealed)
<1> SUFFICES ASSUME BundleInv, bundle # <<>>, b.signature # <<>> \/ b.root \in anchored, Verifies(b, bytes)
             PROVE  Hashed(b, bytes) = {a.sha : a \in ToSet(sealed)}
  BY DEF BringsItsBytes
<1>1. /\ Sequential(b.artifacts) /\ Recorded(sealed) /\ anchored \subseteq {R}
      /\ b.signature \in {<<>>, <<R>>}
  BY DEF BundleInv, Travelling
<1> HIDE DEF b, R
<1>2. b.root = R
  <2>1. CASE b.root \in anchored
    BY <1>1, <2>1
  <2>2. CASE b.signature # <<>>
    <3>1. b.signature = <<R>> /\ b.signature = <<b.root>>
      BY <1>1, <2>2 DEF Verifies, SignatureRefused
    <3>2. <<R>>[1] = <<b.root>>[1]
      BY <3>1
    <3> QED
      BY <3>2
  <2> QED
    BY <2>1, <2>2
<1>3. MerkleRoot(h) = MerkleRoot(k)
  BY <1>2 DEF Verifies, MerkleMatches, R
<1>4. \A a \in ToSet(b.artifacts) : Sha256(bytes[a.path]) = a.sha
  BY DEF Verifies, TamperedArtifacts
<1> HIDE DEF bytes
<1>5. ASSUME NEW s, Sequential(s)
      PROVE  LET t == Shas(s)
             IN  /\ Sequential(t) /\ Len(t) = Len(s) /\ \A i \in 1..Len(s) : t[i] = s[i].sha /\ s[i] \in ToSet(s)
                 /\ {t[i] : i \in 1..Len(t)} = {a.sha : a \in ToSet(s)}
  <2> DEFINE n == Len(s)
             t == Shas(s)
  <2>1. n \in Nat /\ DOMAIN s = 1..n
    BY <1>5, LenProperties DEF Sequential
  <2>2. t = [i \in 1..n |-> s[i].sha]
    BY <2>1 DEF Shas
  <2> HIDE DEF n, t
  <2>3. t = [i \in 1..n |-> t[i]] /\ \A i \in 1..n : t[i] = s[i].sha
    BY <2>2
  <2>4. Sequential(t) /\ Len(t) = n
    BY <2>1, <2>3, Listing
  <2>5. ToSet(s) = {s[i] : i \in 1..n}
    BY <2>1 DEF ToSet
  <2>6. {t[i] : i \in 1..n} = {a.sha : a \in ToSet(s)}
    BY <2>3, <2>5
  <2> QED
    BY <2>3, <2>4, <2>5, <2>6 DEF n, t
<1>6. /\ Sequential(h) /\ Hashes(h) = {a.sha : a \in ToSet(b.artifacts)}
      /\ \A i \in 1..Len(h) : \E a \in ToSet(b.artifacts) : h[i] = a.sha
  BY <1>1, <1>5 DEF Hashes
<1>7. /\ Sequential(k) /\ Hashes(k) = {a.sha : a \in ToSet(sealed)}
      /\ Len(k) = Len(sealed) /\ \A i \in 1..Len(k) : k[i] = sealed[i].sha
  BY <1>1, <1>5 DEF Recorded, Hashes
<1> HIDE DEF h, k
<1>8. HashList(h)
  BY <1>4, <1>6 DEF HashList, IsHash, Sha256
<1>9. HashList(k)
  BY <1>1, <1>7 DEF HashList, Recorded
<1>10. {a.sha : a \in ToSet(b.artifacts)} = {a.sha : a \in ToSet(sealed)}
  <2>1. Hashes(h) = Hashes(k)
    BY <1>3, <1>8, <1>9, SameHashes
  <2> QED
    BY <1>6, <1>7, <2>1
<1>11. Hashed(b, bytes) = {a.sha : a \in ToSet(b.artifacts)}
  BY <1>4 DEF Hashed
<1> QED
  BY <1>10, <1>11

\* and verifies as long as nobody touches it.
LEMMA UntouchedVerifies == BundleAssumption /\ BundleInv /\ bundle # <<>> => VerifiesUntouched(bundle[1])
<1> DEFINE b == bundle[1]
<1> SUFFICES ASSUME BundleAssumption, BundleInv, bundle # <<>>, exported = <<TRUE>>, edits = 0
             PROVE  Verifies(b, BytesFor(b)) <=> b.omitted = {} /\ \A a \in ToSet(sealed) : a.path # ""
  BY DEF VerifiesUntouched
<1>1. AsExported(b) /\ runDir \in RunDirs
  BY DEF BundleInv, Travelling
<1> HIDE DEF b
<1>2. sealed = b.artifacts /\ ExportAccepts(b)
  <2>1. sealed = b.artifacts /\ <<ExportAccepts(b)>>[1] = <<TRUE>>[1]
    BY <1>1 DEF AsExported
  <2> QED
    BY <2>1
<1>3. PICK signed \in BOOLEAN : b \in {BuildBundleManifest(runDir, signed), ExportBundleArchive(runDir, signed)}
  BY <1>1 DEF AsExported
<1>4. CASE b = BuildBundleManifest(runDir, signed)
  <2>1. b.kind = "manifest" /\ b.omitted = {}
    BY <1>4, ManifestOf
  <2>2. Verifies(b, BytesFor(b))
    BY <1>2, <2>1 DEF ExportAccepts
  <2>3. "" \notin DOMAIN BytesFor(b)
    BY <1>1, <2>1 DEF BytesFor, BundleAssumption
  <2>4. \A a \in ToSet(b.artifacts) : a.path \in DOMAIN BytesFor(b)
    BY <2>2 DEF Verifies, MissingArtifacts
  <2> QED
    BY <1>2, <2>1, <2>2, <2>3, <2>4
<1>5. CASE b = ExportBundleArchive(runDir, signed)
  <2>1. /\ b.kind = "archive" /\ b.signature \in {<<>>, <<b.root>>}
        /\ DOMAIN b.files \subseteq NamedPaths(b.artifacts)
        /\ b.omitted = NamedPaths(b.artifacts) \ DOMAIN b.files
    BY <1>5, ArchiveOf
  <2>2. TamperedArtifacts(b, b.files) = {} /\ MerkleMatches(b) /\ ~SignatureRefused(b)
    BY <1>2, <2>1 DEF ExportAccepts, SignatureRefused
  <2>3. Verifies(b, BytesFor(b)) <=> MissingArtifacts(b, b.files) = {}
    BY <2>1, <2>2 DEF Verifies, BytesFor
  <2>4. MissingArtifacts(b, b.files) = {} <=> \A a \in ToSet(b.artifacts) : a.path \in DOMAIN b.files
    BY DEF MissingArtifacts
  <2>5. \A p : p \in NamedPaths(b.artifacts) <=> p # "" /\ \E a \in ToSet(b.artifacts) : a.path = p
    BY DEF NamedPaths
  <2>6. (\A a \in ToSet(b.artifacts) : a.path \in DOMAIN b.files)
           <=> b.omitted = {} /\ \A a \in ToSet(b.artifacts) : a.path # ""
    <3>1. ASSUME \A a \in ToSet(b.artifacts) : a.path \in DOMAIN b.files
          PROVE  b.omitted = {} /\ \A a \in ToSet(b.artifacts) : a.path # ""
      <4>1. ASSUME NEW p \in NamedPaths(b.artifacts)
            PROVE  p \in DOMAIN b.files
        <5>1. PICK a \in ToSet(b.artifacts) : a.path = p
          BY <2>5
        <5>2. a.path \in DOMAIN b.files
          BY <3>1
        <5> QED
          BY <5>1, <5>2
      <4>2. DOMAIN b.files \subseteq NamedPaths(b.artifacts)
        BY <2>1
      <4>3. \A a \in ToSet(b.artifacts) : a.path # ""
        <5> SUFFICES ASSUME NEW a \in ToSet(b.artifacts)
                     PROVE  a.path # ""
          OBVIOUS
        <5>1. a.path \in NamedPaths(b.artifacts)
          BY <3>1, <4>2
        <5> QED
          BY <2>5, <5>1
      <4> QED
        BY <2>1, <4>1, <4>3
    <3>2. ASSUME b.omitted = {}, NEW a \in ToSet(b.artifacts), a.path # ""
          PROVE  a.path \in DOMAIN b.files
      <4>1. a.path \in NamedPaths(b.artifacts)
        BY <2>5, <3>2
      <4> QED
        BY <2>1, <3>2, <4>1
    <3> QED
      BY <3>1, <3>2
  <2> QED
    BY <1>2, <2>3, <2>4, <2>6
<1> QED
  BY <1>3, <1>4, <1>5

\* The bundles.
BundleSpec == BundleInit /\ [][BundleNext]_bundleVars

\* For every run directory and any number of edits: a bundle that verifies and
\* is vouched for brings the bytes that it was exported for, and one that
\* nothing happened to verifies.  (evidence-bundle.ts:69-84, 196-276)
THEOREM BundlesAlwaysHold == BundleSpec => []BundlesHold
<1>1. BundleInv /\ [BundleNext]_bundleVars => BundleInv'
  <2> SUFFICES ASSUME BundleInv, [BundleNext]_bundleVars
               PROVE  BundleInv'
    OBVIOUS
  <2>1. CASE BundleNext
    BY <2>1, BundleAssumption, ExportKeeps, DirectoryKeeps, JourneyKeeps DEF BundleNext
  <2>2. CASE UNCHANGED bundleVars
    <3>1. /\ runDir' = runDir /\ bundle' = bundle /\ sealed' = sealed /\ anchored' = anchored
          /\ exported' = exported /\ edits' = edits
      BY <2>2 DEF bundleVars
    <3>2. ASSUME NEW b
          PROVE  Travelling(b) => Travelling(b)'
      BY <3>1 DEF Travelling, Recorded, AsExported, ExportAccepts, BytesFor
    <3> QED
      BY <3>1, <3>2 DEF BundleInv
  <2> QED
    BY <2>1, <2>2
<1>2. BundleInv => BundlesHold
  BY BundleAssumption, BytesBrought, UntouchedVerifies DEF BundlesHold
<1>3. BundleInit => BundleInv
  BY BundleAssumption, BundleBegins
<1> QED
  BY <1>1, <1>2, <1>3, PTL DEF BundleSpec
=============================================================================
