---------------------------- MODULE HandlersProofs ----------------------------
(***************************************************************************)
(* Proofs about the handlers that compute their answer from the request    *)
(* (Requests), for whatever can be sent to them, and about the calls that  *)
(* change the members of a project (ProjectMembers), for any set of        *)
(* subjects and calls.  The former need induction over a fold: a fold is   *)
(* the value of a recursive function on the set of all places, that        *)
(* function takes one step for each place, and what holds of nothing and   *)
(* is kept by a step holds of the whole.                                   *)
(***************************************************************************)
EXTENDS ProjectMembers, Requests, FiniteSetTheorems, SequenceTheorems,
        WellFoundedInduction, TLAPS

-----------------------------------------------------------------------------
(* Numbers, folds and sequences.                                           *)

LEMMA Induction ==
    ASSUME NEW S, 0 \in S, \A n \in Nat : n \in S => n + 1 \in S
    PROVE  Nat \subseteq S
  <1> DEFINE R == OpToRel(<, Nat)
  <1>1. IsWellFoundedOn(R, Nat)
    BY NatLessThanWellFounded
  <1>2. \A m, n \in Nat : m < n => <<m, n>> \in R
    BY DEF OpToRel
  <1> HIDE DEF R
  <1>3. SUFFICES ASSUME Nat \ S # {} PROVE FALSE
    OBVIOUS
  <1>4. PICK x \in Nat \ S : \A y \in Nat \ S : <<y, x>> \notin R
    BY <1>1, <1>3, WFMin
  <1>5. x # 0 /\ x - 1 \in Nat
    BY <1>4
  <1>6. x - 1 \in S => (x - 1) + 1 \in S
    BY <1>5
  <1>7. x - 1 \in Nat \ S
    BY <1>4, <1>5, <1>6
  <1>8. <<x - 1, x>> \in R
    BY <1>2, <1>4, <1>5
  <1> QED
    BY <1>4, <1>7, <1>8

\* The greatest and the least of some places.
LEMMA Greatest ==
    ASSUME NEW n \in Nat, NEW s \in SUBSET (1..n), s # {}
    PROVE  Max(s) \in s /\ \A i \in s : i <= Max(s)
  <1> DEFINE M == {k \in Nat : \A t \in SUBSET (1..k) : t # {} =>
                                  \E m \in t : \A i \in t : m >= i}
  <1>1. 0 \in M
    <2>1. 1..0 = {}
      OBVIOUS
    <2> QED
      BY <2>1
  <1>2. ASSUME NEW k \in Nat, k \in M PROVE k + 1 \in M
    <2> SUFFICES ASSUME NEW t \in SUBSET (1..(k + 1)), t # {}
                 PROVE  \E m \in t : \A i \in t : m >= i
      OBVIOUS
    <2>1. CASE k + 1 \in t
      <3>1. \A i \in t : k + 1 >= i
        OBVIOUS
      <3> QED
        BY <2>1, <3>1
    <2>2. CASE k + 1 \notin t
      <3>1. t \in SUBSET (1..k)
        BY <2>2
      <3> QED
        BY <1>2, <3>1
    <2> QED
      BY <2>1, <2>2
  <1>3. n \in M
    <2> HIDE DEF M
    <2> QED
      BY <1>1, <1>2, Induction
  <1>4. \E m \in s : \A i \in s : m >= i
    BY <1>3
  <1>5. Max(s) \in s /\ \A i \in s : Max(s) >= i
    BY <1>4 DEF Max
  <1> QED
    BY <1>5

LEMMA Least ==
    ASSUME NEW n \in Nat, NEW s \in SUBSET (1..n), s # {}
    PROVE  Min(s) \in s /\ \A i \in s : Min(s) <= i
  <1> DEFINE t == {n + 1 - i : i \in s}
  <1>1. t \in SUBSET (1..n) /\ t # {}
    <2>1. \A i \in 1..n : n + 1 - i \in 1..n
      OBVIOUS
    <2> QED
      BY <2>1
  <1>2. Max(t) \in t /\ \A j \in t : j <= Max(t)
    BY <1>1, Greatest
  <1>3. PICK m \in s : Max(t) = n + 1 - m
    BY <1>2
  <1>4. \A i \in s : n + 1 - i <= n + 1 - m
    BY <1>2, <1>3
  <1>5. \A i \in s : m =< i
    BY <1>4
  <1> QED
    BY <1>5 DEF Min

\* The places up to one place.
LEMMA Prefix ==
    ASSUME NEW n \in Nat, NEW k \in 1..n
    PROVE  /\ 1..k \in SUBSET (1..n) /\ 1..k # {}
           /\ Max(1..k) = k /\ (1..k) \ {Max(1..k)} = 1..(k - 1)
  <1>1. 1..k \in SUBSET (1..n) /\ k \in 1..k
    OBVIOUS
  <1>2. Max(1..k) \in 1..k /\ k <= Max(1..k)
    BY <1>1, Greatest
  <1>3. \A m \in 1..k : k <= m => m = k
    OBVIOUS
  <1>4. Max(1..k) = k
    BY <1>2, <1>3
  <1> QED
    BY <1>1, <1>4

\* A function on the sets of places that takes one step for each place, the
\* last one last.
TakesSteps(f, n, V, base, Step) ==
    /\ f \in [SUBSET (1..n) -> V]
    /\ \A s \in SUBSET (1..n) :
          f[s] = IF s = {} THEN base ELSE Step[Max(s)][f[s \ {Max(s)}]]

\* There is such a function, whatever the steps.
LEMMA FoldExists ==
    ASSUME NEW n \in Nat, NEW V, NEW base \in V, NEW Step \in [1..n -> [V -> V]]
    PROVE  \E f : TakesSteps(f, n, V, base, Step)
  <1> DEFINE Goes(f, s) == f[s] = IF s = {} THEN base ELSE Step[Max(s)][f[s \ {Max(s)}]]
             Exists(k) == \E f \in [SUBSET (1..k) -> V] : \A s \in SUBSET (1..k) : Goes(f, s)
             E == {k \in Nat : k <= n => Exists(k)}
  <1>1. 0 \in E
    <2>1. 1..0 = {}
      OBVIOUS
    <2> DEFINE f == [s \in SUBSET (1..0) |-> base]
    <2>2. f \in [SUBSET (1..0) -> V] /\ \A s \in SUBSET (1..0) : Goes(f, s)
      BY <2>1
    <2> QED
      BY <2>2
  <1>2. ASSUME NEW k \in Nat, k \in E PROVE k + 1 \in E
    <2> SUFFICES ASSUME k + 1 <= n PROVE Exists(k + 1)
      <3> HIDE DEF Exists
      <3> QED
        OBVIOUS
    <2>0. Exists(k)
      <3> HIDE DEF Exists
      <3> QED
        BY <1>2
    <2>1. PICK f \in [SUBSET (1..k) -> V] : \A s \in SUBSET (1..k) : Goes(f, s)
      BY <2>0
    <2> DEFINE g == [s \in SUBSET (1..(k + 1)) |->
                        IF k + 1 \in s THEN Step[k + 1][f[s \ {k + 1}]] ELSE f[s]]
    <2>2. \A s \in SUBSET (1..(k + 1)) :
             /\ s \ {k + 1} \in SUBSET (1..k) /\ s \ {k + 1} \in SUBSET (1..(k + 1))
             /\ k + 1 \notin s => s \in SUBSET (1..k)
      OBVIOUS
    <2>3. k + 1 \in 1..n /\ k + 1 \in Nat
      OBVIOUS
    <2>4. g \in [SUBSET (1..(k + 1)) -> V]
      <3> SUFFICES ASSUME NEW s \in SUBSET (1..(k + 1))
                   PROVE  (IF k + 1 \in s THEN Step[k + 1][f[s \ {k + 1}]] ELSE f[s]) \in V
        OBVIOUS
      <3>1. f[s \ {k + 1}] \in V /\ (k + 1 \notin s => f[s] \in V)
        BY <2>1, <2>2
      <3> QED
        BY <2>3, <3>1
    <2>5. ASSUME NEW s \in SUBSET (1..(k + 1)) PROVE Goes(g, s)
      <3>1. CASE s = {}
        <4>1. f[s] = base
          BY <2>1, <3>1
        <4> QED
          BY <3>1, <4>1
      <3>2. CASE k + 1 \in s
        <4>1. Max(s) \in s /\ k + 1 <= Max(s)
          BY <2>3, <3>2, Greatest
        <4>2. Max(s) = k + 1
          <5>1. \A m \in 1..(k + 1) : k + 1 <= m => m = k + 1
            OBVIOUS
          <5> QED
            BY <4>1, <5>1
        <4>3. g[s \ {k + 1}] = f[s \ {k + 1}]
          BY <2>2
        <4>4. g[s] = Step[k + 1][f[s \ {k + 1}]]
          BY <3>2
        <4> HIDE DEF g
        <4> QED
          BY <3>2, <4>2, <4>3, <4>4
      <3>3. CASE s # {} /\ k + 1 \notin s
        <4>1. s \in SUBSET (1..k) /\ s \ {Max(s)} \in SUBSET (1..k)
          BY <2>2, <3>3
        <4>2. s \ {Max(s)} \in SUBSET (1..(k + 1)) /\ k + 1 \notin s \ {Max(s)}
          BY <3>3
        <4>3. g[s \ {Max(s)}] = f[s \ {Max(s)}] /\ g[s] = f[s]
          BY <3>3, <4>2
        <4>4. f[s] = Step[Max(s)][f[s \ {Max(s)}]]
          BY <2>1, <3>3, <4>1
        <4> HIDE DEF g
        <4> QED
          BY <3>3, <4>3, <4>4
      <3> QED
        BY <3>1, <3>2, <3>3
    <2> HIDE DEF g, Goes
    <2> QED
      BY <2>4, <2>5
  <1>3. n \in E
    <2> HIDE DEF E
    <2> QED
      BY <1>1, <1>2, Induction
  <1>4. Exists(n)
    <2> HIDE DEF Exists
    <2> QED
      BY <1>3
  <1> QED
    BY <1>4 DEF TakesSteps

-----------------------------------------------------------------------------
(* The release gate of a quality run.                                      *)

LEMMA SumIsNumber ==
    ASSUME NEW cases \in Seq(Case), NEW part \in {"good", "checks"}, NEW m \in Metrics
    PROVE  Sum(cases, part, m) \in Nat
  <1> DEFINE n == Len(cases)
             Add == [i \in 1..n |-> [k \in Nat |-> k + cases[i][part][m]]]
             Adds(f) == f = [s \in SUBSET DOMAIN cases |->
                               IF s = {} THEN 0 ELSE f[s \ {Max(s)}] + cases[Max(s)][part][m]]
  <1>1. n \in Nat /\ DOMAIN cases = 1..n
    OBVIOUS
  <1>2. \A i \in 1..n : cases[i][part][m] \in Nat
    <2>1. \A i \in 1..n : cases[i] \in Case
      BY <1>1
    <2>2. \A c \in Case : c.good[m] \in Nat /\ c.checks[m] \in Nat
      BY DEF Case, Measurement
    <2>3. CASE part = "good"
      BY <2>1, <2>2, <2>3
    <2>4. CASE part = "checks"
      BY <2>1, <2>2, <2>4
    <2> QED
      BY <2>3, <2>4
  <1>3. \E f : Adds(f)
    <2>1. Add \in [1..n -> [Nat -> Nat]]
      BY <1>2
    <2>2. PICK f : TakesSteps(f, n, Nat, 0, Add)
      <3> HIDE DEF Add, n
      <3> QED
        BY <1>1, <2>1, FoldExists
    <2>3. \A s \in SUBSET (1..n) : s # {} => Max(s) \in 1..n /\ f[s \ {Max(s)}] \in Nat
      BY <1>1, <2>2, Greatest DEF TakesSteps
    <2>4. \A s \in SUBSET (1..n) : s # {} =>
             Add[Max(s)][f[s \ {Max(s)}]] = f[s \ {Max(s)}] + cases[Max(s)][part][m]
      BY <2>3
    <2> HIDE DEF Add
    <2>5. f = [s \in SUBSET (1..n) |->
                  IF s = {} THEN 0 ELSE f[s \ {Max(s)}] + cases[Max(s)][part][m]]
      BY <2>2, <2>4 DEF TakesSteps
    <2> QED
      BY <1>1, <2>5
  <1>4. PICK f : Adds(f) /\ Sum(cases, part, m) = f[DOMAIN cases]
    BY <1>3 DEF Sum, FoldLeft, MapThenFoldSet
  <1>5. \A k \in 1..n : f[1..k] = f[1..(k - 1)] + cases[k][part][m]
    BY <1>1, <1>4, Prefix
  <1>6. f[{}] = 0
    BY <1>4
  <1> DEFINE P == {k \in Nat : k <= n => f[1..k] \in Nat}
  <1>7. 0 \in P
    <2>1. 1..0 = {}
      OBVIOUS
    <2> QED
      BY <1>6, <2>1
  <1>8. ASSUME NEW k \in Nat, k \in P PROVE k + 1 \in P
    <2> SUFFICES ASSUME k + 1 <= n PROVE f[1..(k + 1)] \in Nat
      OBVIOUS
    <2>1. k + 1 \in 1..n /\ (k + 1) - 1 = k /\ f[1..k] \in Nat
      BY <1>8
    <2> QED
      BY <1>2, <1>5, <2>1
  <1>9. n \in P
    <2> HIDE DEF P
    <2> QED
      BY <1>1, <1>7, <1>8, Induction
  <1> QED
    BY <1>1, <1>4, <1>9

LEMMA GateHolds ==
    ASSUME NEW cases \in Seq(Case), NEW given \in [Metrics -> Nat] \cup {NoMinima},
           NEW baseline, request.cases = cases, request.minima = given,
           answer = RecordQualityRun(cases, given, baseline)
    PROVE  GateSound
  <1> DEFINE minima == IF given = NoMinima THEN DefaultThresholds ELSE given
             run == [cases |-> cases, minima |-> minima]
  <1>1. minima \in [Metrics -> Nat]
    BY DEF DefaultThresholds
  <1>2. answer = Evaluate(run, baseline)
    BY DEF RecordQualityRun
  <1> DEFINE Failed == {m \in Metrics : minima[m] = 0 \/ ~Reached(Totals(cases)[m], minima[m])}
  <1> HIDE DEF minima
  <1> SUFFICES ASSUME Answered("quality", "recorded") PROVE GateSound
    BY DEF GateSound
  <1>3. /\ answer.passed <=> Failed = {}
        /\ Len(cases) >= 10
        /\ RequiredCategories \subseteq {cases[i].category : i \in DOMAIN cases}
    <2> DEFINE Recorded == [outcome |-> "recorded", totals |-> Totals(cases),
                            passed |-> Failed = {}, failures |-> Failed,
                            exceptions |-> {i \in DOMAIN cases : cases[i].exception},
                            compared |-> baseline # "none"]
               Refused == \/ Len(cases) < 10
                          \/ \E i \in DOMAIN cases : ~ValidCase(cases[i])
                          \/ ~(RequiredCategories \subseteq
                                  {cases[i].category : i \in DOMAIN cases})
    <2>1. run.cases = cases /\ run.minima = minima
      OBVIOUS
    <2>2. answer = IF baseline = "missing" THEN [outcome |-> "not found"]
                   ELSE IF Refused THEN [outcome |-> "invalid"] ELSE Recorded
      BY <1>2, <2>1, ZenonT(30) DEF Evaluate
    <2>3. answer.outcome = "recorded"
      BY DEF Answered
    <2>4. [outcome |-> "not found"].outcome # "recorded"
          /\ [outcome |-> "invalid"].outcome # "recorded"
      OBVIOUS
    <2>5. Recorded.passed <=> Failed = {}
      OBVIOUS
    <2> HIDE DEF Recorded, Refused
    <2>6. answer = Recorded /\ ~Refused
      BY <2>2, <2>3, <2>4
    <2>7. answer.passed <=> Failed = {}
      BY <2>5, <2>6
    <2> QED
      BY <2>6, <2>7 DEF Refused
  <1>4. \A m \in Metrics :
           /\ Totals(cases)[m].good = Sum(cases, "good", m)
           /\ Totals(cases)[m].checks = Sum(cases, "checks", m)
    BY DEF Totals
  <1>5. \A m \in Metrics : /\ Sum(cases, "good", m) \in Nat /\ Sum(cases, "checks", m) \in Nat
                           /\ minima[m] \in Nat
    BY <1>1, SumIsNumber
  <1>6. \A m \in Metrics :
           ~(minima[m] = 0 \/ ~Reached(Totals(cases)[m], minima[m]))
             <=> /\ minima[m] > 0 /\ Sum(cases, "checks", m) > 0
                 /\ 100 * Sum(cases, "good", m) >= minima[m] * Sum(cases, "checks", m)
    <2> TAKE m \in Metrics
    <2> DEFINE good == Sum(cases, "good", m)
               checks == Sum(cases, "checks", m)
    <2>1. good \in Nat /\ checks \in Nat /\ minima[m] \in Nat
      BY <1>5
    <2>2. Totals(cases)[m].good = good /\ Totals(cases)[m].checks = checks
      BY <1>4
    <2>3. Reached(Totals(cases)[m], minima[m])
             <=> IF checks = 0 THEN minima[m] = 0 ELSE 100 * good >= minima[m] * checks
      BY <2>2 DEF Reached
    <2> HIDE DEF good, checks
    <2>4. ~(minima[m] = 0 \/ ~Reached(Totals(cases)[m], minima[m]))
             <=> minima[m] > 0 /\ checks > 0 /\ 100 * good >= minima[m] * checks
      BY <2>1, <2>3
    <2> QED
      BY <2>4 DEF good, checks
  <1>7. answer.passed <=> \A m \in Metrics :
                 /\ minima[m] > 0 /\ Sum(cases, "checks", m) > 0
                 /\ 100 * Sum(cases, "good", m) >= minima[m] * Sum(cases, "checks", m)
    BY <1>3, <1>6
  <1>8. \A k \in RequiredCategories : \E i \in DOMAIN cases : cases[i].category = k
    BY <1>3
  <1> QED
    BY <1>3, <1>7, <1>8 DEF GateSound, minima, Sum

-----------------------------------------------------------------------------
(* Findings and validation plans.                                          *)

\* The image of a finite set is finite.
LEMMA FiniteImage ==
    ASSUME NEW S, IsFiniteSet(S), NEW f, DOMAIN f = S
    PROVE  IsFiniteSet({f[x] : x \in S})
  <1> DEFINE T == {f[x] : x \in S}
             g == [x \in S |-> f[x]]
  <1>1. g \in Surjection(S, T)
    BY DEF Surjection
  <1> QED
    BY <1>1, FS_Surjection

LEMMA CitesMany ==
    ASSUME NEW cites, NEW n \in Nat, n >= 2, DOMAIN cites = 1..n, IsInjective(cites)
    PROVE  Cardinality(ToSet(cites)) > 1
  <1>1. ToSet(cites) = {cites[i] : i \in 1..n}
    BY DEF ToSet
  <1>2. IsFiniteSet(ToSet(cites)) /\ Cardinality(ToSet(cites)) \in Nat
    <2>1. IsFiniteSet(1..n)
      BY FS_Interval
    <2>2. IsFiniteSet(ToSet(cites))
      BY <1>1, <2>1, FiniteImage
    <2> QED
      BY <2>2, FS_CardinalityType
  <1>3. {cites[1], cites[2]} \subseteq ToSet(cites) /\ cites[1] # cites[2]
    BY <1>1 DEF IsInjective
  <1>4. IsFiniteSet({cites[1]}) /\ Cardinality({cites[1]}) = 1
    BY FS_Singleton
  <1>5. cites[2] \notin {cites[1]}
    BY <1>3
  <1>6. Cardinality({cites[1]} \cup {cites[2]}) = 2
    BY <1>4, <1>5, FS_AddElement
  <1>7. {cites[1]} \cup {cites[2]} = {cites[1], cites[2]}
    OBVIOUS
  <1>8. Cardinality({cites[1], cites[2]}) <= Cardinality(ToSet(cites))
    BY <1>2, <1>3, FS_Subset
  <1> QED
    BY <1>2, <1>6, <1>7, <1>8

\* Findings can be traced whatever the language model answers.
LEMMA FindingsHold ==
    ASSUME NEW kind \in {"alignment", "contradiction", "gap", "quality"},
           NEW given \in Seq(Finding),
           request.handler = "findings", request.kind = kind, request.given = given,
           answer = Accept(kind, given, Blocks)
    PROVE  FindingsTraceable
  <1> DEFINE traced(f) == /\ ToSet(f.cites) \subseteq Blocks
                          /\ IF kind = "alignment" THEN f.absence <=> f.cites = <<>>
                             ELSE f.cites # <<>> /\ (f.absence <=> kind = "gap")
             same(f, g) == f = [g EXCEPT !.absence = f.absence]
             open(f) == kind = "alignment" /\ f.severity \notin {"high", "blocking"}
             Refuses == [outcome |-> "internal"]
  <1>1. ASSUME NEW i \in DOMAIN given
        PROVE  /\ given[i] \in Finding
               /\ given[i].cites \in Seq(Nat) /\ given[i].absence \in BOOLEAN
    <2>1. given[i] \in Finding
      OBVIOUS
    <2> QED
      BY <2>1 DEF Finding
  <1>2. CASE kind = "alignment"
    <2> DEFINE kept == [i \in DOMAIN given |->
                          IF validAlignmentFinding(given[i], Blocks) THEN given[i]
                          ELSE unverifiableAlignmentFinding]
    <2>1. answer = [outcome |-> "kept", findings |-> kept]
      BY <1>2 DEF Accept, Stored
    <2>2. DOMAIN kept = DOMAIN given /\ answer.findings = kept /\ answer.outcome = "kept"
      BY <2>1
    <2>3. ASSUME NEW i \in DOMAIN given
          PROVE  traced(kept[i]) /\ (same(kept[i], given[i]) \/ open(kept[i]))
      <3>1. CASE validAlignmentFinding(given[i], Blocks)
        <4>1. kept[i] = given[i] /\ traced(given[i])
          BY <3>1, <1>1, <1>2 DEF validAlignmentFinding, ToSet
        <4>2. same(given[i], given[i])
          BY <1>1 DEF Finding
        <4> QED
          BY <4>1, <4>2
      <3>2. CASE ~validAlignmentFinding(given[i], Blocks)
        BY <3>2, <1>2 DEF unverifiableAlignmentFinding, ToSet
      <3> QED
        BY <3>1, <3>2
    <2>4. ASSUME \A i \in DOMAIN given : traced(given[i]) /\ WellFormed("alignment", given[i])
          PROVE  kept = given
      <3>1. \A i \in DOMAIN given : validAlignmentFinding(given[i], Blocks)
        BY <1>2, <2>4 DEF validAlignmentFinding
      <3>2. given = [i \in DOMAIN given |-> given[i]]
        OBVIOUS
      <3> QED
        BY <3>1, <3>2
    <2> HIDE DEF kept
    <2> QED
      BY <1>2, <2>2, <2>3, <2>4 DEF FindingsTraceable
  <1>3. CASE kind # "alignment"
    <2> DEFINE kept == [i \in DOMAIN given |-> Stored(kind, given[i])]
               Keeps == [outcome |-> "kept", findings |-> kept]
    <2>1. /\ answer \in {Keeps, Refuses}
          /\ answer = Keeps => \A i \in DOMAIN given :
               /\ ToSet(given[i].cites) \subseteq Blocks /\ given[i].cites # <<>>
               /\ kind = "contradiction" =>
                     Len(given[i].cites) >= 2 /\ IsInjective(given[i].cites)
      <3>1. CASE kind = "contradiction"
        <4>1. answer = IF \A i \in DOMAIN given : validContradiction(given[i], Blocks)
                       THEN Keeps ELSE Refuses
          BY <3>1 DEF Accept
        <4>2. \A i \in DOMAIN given : validContradiction(given[i], Blocks) =>
                 /\ ToSet(given[i].cites) \subseteq Blocks /\ given[i].cites # <<>>
                 /\ Len(given[i].cites) >= 2 /\ IsInjective(given[i].cites)
          BY <1>1 DEF validContradiction, CitesOnce
        <4> QED
          BY <4>1, <4>2
      <3>2. CASE kind = "gap"
        <4>1. answer = IF \A i \in DOMAIN given : validRequirementGap(given[i], Blocks)
                       THEN Keeps ELSE Refuses
          BY <3>2 DEF Accept
        <4>2. \A i \in DOMAIN given : validRequirementGap(given[i], Blocks) =>
                 ToSet(given[i].cites) \subseteq Blocks /\ given[i].cites # <<>>
          BY DEF validRequirementGap, CitesOnce
        <4> QED
          BY <3>2, <4>1, <4>2
      <3>3. CASE kind = "quality"
        <4>1. answer = IF validWorkQuality(given, Blocks) THEN Keeps ELSE Refuses
          BY <3>3 DEF Accept
        <4>2. validWorkQuality(given, Blocks) => \A i \in DOMAIN given :
                 ToSet(given[i].cites) \subseteq Blocks /\ given[i].cites # <<>>
          BY DEF validWorkQuality, CitesOnce
        <4> QED
          BY <3>3, <4>1, <4>2
      <3> QED
        BY <1>3, <3>1, <3>2, <3>3
    <2>2. ASSUME NEW i \in DOMAIN given
          PROVE  /\ kept[i].cites = given[i].cites
                 /\ kept[i].absence <=> kind = "gap"
                 /\ same(kept[i], given[i])
      <3>1. kept[i] = [given[i] EXCEPT !.absence = kind = "gap"]
        BY <1>3 DEF Stored
      <3> QED
        BY <3>1, <1>1 DEF Finding
    <2>3. ASSUME answer = Keeps, NEW i \in DOMAIN given
          PROVE  /\ traced(kept[i])
                 /\ kind = "contradiction" => Cardinality(ToSet(kept[i].cites)) > 1
      <3> HIDE DEF kept
      <3>1. traced(kept[i])
        BY <1>3, <2>1, <2>2, <2>3
      <3>2. kind = "contradiction" => Cardinality(ToSet(given[i].cites)) > 1
        <4> DEFINE n == Len(given[i].cites)
        <4>1. n \in Nat /\ DOMAIN given[i].cites = 1..n
          BY <1>1
        <4> QED
          BY <2>1, <2>3, <4>1, CitesMany
      <3> QED
        BY <2>2, <3>1, <3>2
    <2>4. DOMAIN kept = DOMAIN given
      OBVIOUS
    <2>5. CASE answer = Keeps
      <3>1. answer.outcome = "kept" /\ answer.findings = kept
        BY <2>5
      <3> HIDE DEF kept
      <3> QED
        BY <1>3, <2>2, <2>3, <2>4, <2>5, <3>1 DEF FindingsTraceable
    <2>6. CASE answer = Refuses
      BY <1>3, <2>6 DEF FindingsTraceable
    <2> QED
      BY <2>1, <2>5, <2>6
  <1> QED
    BY <1>2, <1>3

-----------------------------------------------------------------------------
\* Only known drivers are left.
LEMMA KnownDrivers ==
    ASSUME NEW ids \in Seq(STRING), NEW drivers
    PROVE  /\ knownDrivers(ids, drivers) \in Seq(STRING)
           /\ ToSet(knownDrivers(ids, drivers)) \subseteq drivers
  <1> DEFINE n == Len(ids)
             V == Seq(STRING \cap drivers)
             Kept(out, d) == IF d \in drivers /\ d \notin ToSet(out) THEN Append(out, d) ELSE out
             Keep == [i \in 1..n |-> [out \in V |-> Kept(out, ids[i])]]
             Keeps(f) == f = [s \in SUBSET DOMAIN ids |->
                                IF s = {} THEN <<>> ELSE Kept(f[s \ {Max(s)}], ids[Max(s)])]
  <1>1. n \in Nat /\ DOMAIN ids = 1..n /\ <<>> \in V
    OBVIOUS
  <1>2. \A i \in 1..n, out \in V : Kept(out, ids[i]) \in V
    BY <1>1
  <1>3. \E f : Keeps(f)
    <2>1. Keep \in [1..n -> [V -> V]]
      BY <1>2
    <2>2. PICK f : TakesSteps(f, n, V, <<>>, Keep)
      <3> HIDE DEF Keep, n, V
      <3> QED
        BY <1>1, <2>1, FoldExists
    <2>3. \A s \in SUBSET (1..n) : s # {} => Max(s) \in 1..n /\ f[s \ {Max(s)}] \in V
      BY <1>1, <2>2, Greatest DEF TakesSteps
    <2> HIDE DEF V, Kept
    <2>4. \A s \in SUBSET (1..n) : s # {} =>
             Keep[Max(s)][f[s \ {Max(s)}]] = Kept(f[s \ {Max(s)}], ids[Max(s)])
      BY <2>3
    <2> HIDE DEF Keep
    <2>5. f = [s \in SUBSET (1..n) |->
                  IF s = {} THEN <<>> ELSE Kept(f[s \ {Max(s)}], ids[Max(s)])]
      BY <2>2, <2>4 DEF TakesSteps
    <2> QED
      BY <1>1, <2>5 DEF V
  <1>4. PICK f : Keeps(f) /\ knownDrivers(ids, drivers) = f[DOMAIN ids]
    BY <1>3 DEF knownDrivers, FoldLeft, MapThenFoldSet
  <1> HIDE DEF V, Kept
  <1>5. \A k \in 1..n : f[1..k] = Kept(f[1..(k - 1)], ids[k])
    BY <1>1, <1>4, Prefix
  <1>6. f[{}] = <<>>
    BY <1>4
  <1> DEFINE P == {k \in Nat : k <= n => f[1..k] \in V}
  <1>7. 0 \in P
    <2>1. 1..0 = {}
      OBVIOUS
    <2> QED
      BY <1>1, <1>6, <2>1
  <1>8. ASSUME NEW k \in Nat, k \in P PROVE k + 1 \in P
    <2> SUFFICES ASSUME k + 1 <= n PROVE f[1..(k + 1)] \in V
      OBVIOUS
    <2>1. k + 1 \in 1..n /\ (k + 1) - 1 = k /\ f[1..k] \in V
      BY <1>8
    <2> QED
      BY <1>2, <1>5, <2>1
  <1>9. n \in P
    <2> HIDE DEF P
    <2> QED
      BY <1>1, <1>7, <1>8, Induction
  <1>10. knownDrivers(ids, drivers) \in V
    BY <1>1, <1>4, <1>9
  <1>11. \A out \in V : out \in Seq(STRING) /\ ToSet(out) \subseteq drivers
    BY DEF V, ToSet
  <1> QED
    BY <1>10, <1>11

\* A finite set as a sequence.
LEMMA SetAsSeq ==
    ASSUME NEW S, IsFiniteSet(S)
    PROVE  SetToSeq(S) \in Seq(S) /\ ToSet(SetToSeq(S)) = S
  <1> DEFINE n == Cardinality(S)
  <1>1. n \in Nat /\ ExistsBijection(1..n, S)
    BY FS_CardinalityType
  <1>2. \E f \in [1..n -> S] : IsInjective(f)
    <2>1. PICK f \in Bijection(1..n, S) : TRUE
      BY <1>1 DEF ExistsBijection
    <2> QED
      BY <2>1 DEF Bijection, Injection, Surjection, IsInjective
  <1>3. SetToSeq(S) \in [1..n -> S] /\ IsInjective(SetToSeq(S))
    BY <1>2 DEF SetToSeq
  <1>4. SetToSeq(S) \in Injection(1..n, S)
    BY <1>3 DEF Injection
  <1>5. Cardinality(1..n) = n
    BY <1>1, FS_Interval
  <1>6. SetToSeq(S) \in Surjection(1..n, S)
    BY <1>4, <1>5, FS_Injection
  <1>7. {SetToSeq(S)[i] : i \in 1..n} = S
    BY <1>3, <1>6 DEF Surjection
  <1> QED
    BY <1>1, <1>3, <1>7 DEF ToSet

\* The entries of two sequences one after the other.
LEMMA JoinedEntries ==
    ASSUME NEW S, NEW a \in Seq(S), NEW b \in Seq(S)
    PROVE  a \o b \in Seq(S) /\ ToSet(a \o b) = ToSet(a) \cup ToSet(b)
  <1>1. a \o b \in Seq(S) /\ DOMAIN (a \o b) = 1..(Len(a) + Len(b))
    OBVIOUS
  <1>2. \A i \in 1..Len(a) : (a \o b)[i] = a[i] /\ i \in 1..(Len(a) + Len(b))
    OBVIOUS
  <1>3. \A i \in 1..Len(b) : (a \o b)[Len(a) + i] = b[i] /\ Len(a) + i \in 1..(Len(a) + Len(b))
    OBVIOUS
  <1>4. \A i \in 1..(Len(a) + Len(b)) :
          i \in 1..Len(a) \/ (i - Len(a) \in 1..Len(b) /\ (a \o b)[i] = b[i - Len(a)])
    OBVIOUS
  <1>5. DOMAIN a = 1..Len(a) /\ DOMAIN b = 1..Len(b)
    OBVIOUS
  <1>6. ASSUME NEW x \in ToSet(a \o b) PROVE x \in ToSet(a) \cup ToSet(b)
    <2>1. PICK i \in 1..(Len(a) + Len(b)) : x = (a \o b)[i]
      BY <1>1, <1>6 DEF ToSet
    <2> QED
      BY <1>2, <1>4, <1>5, <2>1 DEF ToSet
  <1>7. ASSUME NEW x \in ToSet(a) PROVE x \in ToSet(a \o b)
    BY <1>1, <1>2, <1>5, <1>7 DEF ToSet
  <1>8. ASSUME NEW x \in ToSet(b) PROVE x \in ToSet(a \o b)
    BY <1>1, <1>3, <1>5, <1>8 DEF ToSet
  <1> QED
    BY <1>1, <1>6, <1>7, <1>8

\* An item whose fields change is still an item.
LEMMA ItemChanged ==
    ASSUME NEW item \in PlanItem, NEW d \in Seq(STRING), NEW s \in BOOLEAN, NEW p \in Depths \cup STRING,
           NEW b \in BOOLEAN
    PROVE  /\ [item EXCEPT !.drivers = d, !.reason = b] \in PlanItem
           /\ [item EXCEPT !.selected = s, !.depth = p, !.reason = b] \in PlanItem
           /\ [item EXCEPT !.drivers = d, !.selected = s, !.depth = p, !.reason = b] \in PlanItem
  BY DEF PlanItem

\* An item that is looked at after all.
Chosen(item, d, p) ==
    [item EXCEPT !.drivers = d, !.selected = TRUE, !.depth = p, !.reason = TRUE]

LEMMA ItemChosen ==
    ASSUME NEW item \in PlanItem, NEW d \in Seq(STRING), NEW p \in Depths \cup STRING
    PROVE  /\ Chosen(item, d, p) \in PlanItem
           /\ Chosen(item, d, p).area = item.area /\ Chosen(item, d, p).drivers = d
           /\ Chosen(item, d, p).selected /\ Chosen(item, d, p).depth = p
           /\ Chosen(item, d, p).reason
  <1> DEFINE yes == TRUE
             c == [item EXCEPT !.drivers = d, !.selected = yes, !.depth = p, !.reason = yes]
  <1>1. yes \in BOOLEAN
    OBVIOUS
  <1> HIDE DEF yes
  <1>2. c \in PlanItem
    BY <1>1, ItemChanged
  <1>3. c.area = item.area /\ c.drivers = d /\ c.selected = yes /\ c.depth = p /\ c.reason = yes
    BY DEF PlanItem
  <1>4. Chosen(item, d, p) = c
    BY DEF Chosen, yes
  <1> HIDE DEF c
  <1> QED
    BY <1>2, <1>3, <1>4 DEF yes

\* An item with its known drivers.
Normal(item, drivers) ==
    [item EXCEPT !.drivers = knownDrivers(@, drivers),
                 !.reason = @ \/ ~(ToSet(item.drivers) \subseteq drivers)]

\* What a plan may have for an item, and what the language model may.
Reasoned(item) ==
    item.reason /\ IF item.selected THEN item.depth \in Depths ELSE item.depth = "none"
Completed(item, drivers, areas) ==
    /\ item \in PlanItem /\ Reasoned(item) /\ ToSet(item.drivers) \subseteq drivers
    /\ item.area \in areas => item.selected

LEMMA ItemCompleted ==
    ASSUME NEW item \in PlanItem, Reasoned(item), NEW drivers, NEW areas
    PROVE  /\ Completed(RequireArea(Normal(item, drivers), areas), drivers, areas)
           /\ RequireArea(Normal(item, drivers), areas).area = item.area
           /\ RequireArea(Normal(item, drivers), areas).drivers = Normal(item, drivers).drivers
  <1>1. /\ item.area \in STRING /\ item.selected \in BOOLEAN /\ item.depth \in Depths \cup STRING
        /\ item.drivers \in Seq(STRING) /\ item.reason \in BOOLEAN
    BY DEF PlanItem
  <1>2. /\ knownDrivers(item.drivers, drivers) \in Seq(STRING)
        /\ ToSet(knownDrivers(item.drivers, drivers)) \subseteq drivers
    BY <1>1, KnownDrivers
  <1> DEFINE n == Normal(item, drivers)
             c == RequireArea(n, areas)
             known == knownDrivers(item.drivers, drivers)
             reasoned == item.reason \/ ~(ToSet(item.drivers) \subseteq drivers)
  <1>3. n = [item EXCEPT !.drivers = known, !.reason = reasoned]
    BY DEF Normal
  <1>4. reasoned \in BOOLEAN /\ reasoned
    BY <1>1 DEF Reasoned
  <1>5. /\ n \in PlanItem /\ n.area = item.area /\ n.selected = item.selected
        /\ n.depth = item.depth /\ n.reason /\ n.drivers = known
    <2> HIDE DEF n, known, reasoned
    <2>1. n \in PlanItem
      BY <1>1, <1>2, <1>3, <1>4, ItemChanged DEF known
    <2>2. n.area = item.area /\ n.selected = item.selected /\ n.depth = item.depth
          /\ n.reason = reasoned /\ n.drivers = known
      BY <1>3 DEF PlanItem
    <2> QED
      BY <1>4, <2>1, <2>2
  <1> HIDE DEF n
  <1>6. CASE n.area \in areas /\ ~n.selected
    <2>1. c = [n EXCEPT !.selected = TRUE, !.depth = "standard", !.reason = TRUE]
      BY <1>6 DEF RequireArea
    <2>2. [n EXCEPT !.selected = TRUE, !.depth = "standard", !.reason = TRUE]
             = Chosen(n, n.drivers, "standard")
      BY <1>5 DEF Chosen, PlanItem
    <2> HIDE DEF c
    <2>4. "standard" \in Depths \cup STRING /\ n.drivers \in Seq(STRING)
      BY <1>2, <1>5 DEF Depths
    <2>5. /\ c \in PlanItem /\ c.area = n.area /\ c.reason /\ c.drivers = n.drivers
          /\ c.selected /\ c.depth = "standard"
      BY <1>5, <2>1, <2>2, <2>4, ItemChosen
    <2>3. Completed(c, drivers, areas)
      BY <1>2, <1>5, <2>5 DEF Depths, Completed, Reasoned
    <2> QED
      BY <1>5, <2>5, <2>3 DEF c, n
  <1>7. CASE ~(n.area \in areas /\ ~n.selected)
    <2>1. c = n
      BY <1>7 DEF RequireArea
    <2>2. Completed(n, drivers, areas)
      BY <1>2, <1>5, <1>7 DEF Completed, Reasoned
    <2> QED
      BY <1>5, <2>1, <2>2 DEF n
  <1> QED
    BY <1>6, <1>7

\* The policy completes every well-formed plan.
LEMMA PolicyCompletes ==
    ASSUME NEW given \in Seq(PlanItem), WellFormedPlan(given),
           NEW drivers, NEW required \in SUBSET (drivers \cap STRING), IsFiniteSet(required),
           NEW areas
    PROVE  validatePlan(applyRequiredPlanPolicy(normalizePlanDrivers(given, drivers),
                                                required, areas),
                        drivers, required, areas)
  <1> DEFINE n == Len(given)
             normal == normalizePlanDrivers(given, drivers)
             result == [i \in DOMAIN normal |-> RequireArea(normal[i], areas)]
             used == UNION {ToSet(normal[i].drivers) : i \in DOMAIN normal}
             last == SelectLastInSeq(result, LAMBDA x : x.area = "verifiability")
             added == result[last].drivers \o SetToSeq(required \ used)
             items == applyRequiredPlanPolicy(normal, required, areas)
             Sound(item) == Completed(item, drivers, areas)
  <1>1. n \in Nat /\ DOMAIN given = 1..n /\ n = Cardinality(Areas)
        /\ {given[i].area : i \in 1..n} = Areas
    BY DEF WellFormedPlan
  <1>2. DOMAIN normal = 1..n /\ DOMAIN result = 1..n
    BY <1>1 DEF normalizePlanDrivers
  <1>3. ASSUME NEW i \in 1..n
        PROVE  /\ Sound(result[i]) /\ result[i].area = given[i].area
               /\ result[i].drivers = normal[i].drivers
    <2>1. given[i] \in PlanItem /\ Reasoned(given[i])
      BY <1>1 DEF WellFormedPlan, Reasoned
    <2>2. normal[i] = Normal(given[i], drivers)
      BY <1>1 DEF normalizePlanDrivers, Normal
    <2>3. result[i] = RequireArea(normal[i], areas)
      BY <1>2
    <2> HIDE DEF normal, result
    <2> QED
      BY <2>1, <2>2, <2>3, ItemCompleted
  <1> HIDE DEF normal, result, Sound
  <1>4. last \in 1..n /\ result[last].area = "verifiability"
    <2> DEFINE I == {i \in 1..n : result[i].area = "verifiability"}
    <2>1. Len(result) = n
      BY <1>1, <1>2
    <2>2. "verifiability" \in Areas
      BY AreasAssumption
    <2>3. PICK i \in 1..n : given[i].area = "verifiability"
      BY <1>1, <2>2
    <2>4. i \in I
      BY <1>3, <2>3
    <2>5. Max(I) \in I
      BY <1>1, <2>4, Greatest
    <2>6. last = Max(I)
      BY <2>1, <2>4 DEF SelectLastInSeq
    <2> QED
      BY <2>5, <2>6
  <1> HIDE DEF last
  <1>5. items = IF added = <<>> THEN result
                ELSE [result EXCEPT ![last] = [@ EXCEPT !.drivers = added, !.selected = TRUE,
                                                        !.depth = "deep", !.reason = TRUE]]
    BY <1>1, <1>4 DEF applyRequiredPlanPolicy, result, last
  <1>6. /\ SetToSeq(required \ used) \in Seq(STRING)
        /\ ToSet(SetToSeq(required \ used)) = required \ used
    <2>1. IsFiniteSet(required \ used)
      BY FS_Difference
    <2>2. required \ used \subseteq STRING
      OBVIOUS
    <2>3. SetToSeq(required \ used) \in Seq(required \ used)
      BY <2>1, SetAsSeq
    <2> HIDE DEF used
    <2>4. SetToSeq(required \ used) \in Seq(STRING)
      BY <2>2, <2>3
    <2> QED
      BY <2>1, <2>4, SetAsSeq
  <1>7. /\ result[last] \in PlanItem /\ result[last].drivers \in Seq(STRING)
        /\ ToSet(result[last].drivers) \subseteq drivers
    BY <1>3, <1>4 DEF Sound, Completed, PlanItem
  <1>8. /\ added \in Seq(STRING)
        /\ ToSet(added) = ToSet(result[last].drivers) \cup (required \ used)
    <2> DEFINE a == result[last].drivers
               b == SetToSeq(required \ used)
    <2> HIDE DEF a, b
    <2>1. a \in Seq(STRING) /\ b \in Seq(STRING)
      BY <1>6, <1>7 DEF a, b
    <2>2. a \o b \in Seq(STRING) /\ ToSet(a \o b) = ToSet(a) \cup ToSet(b)
      BY <2>1, JoinedEntries
    <2> QED
      BY <1>6, <2>2 DEF a, b
  <1> HIDE DEF added
  <1>9. /\ DOMAIN items = 1..n /\ Len(items) = n
        /\ \A i \in 1..n : /\ Sound(items[i]) /\ items[i].area = given[i].area
                           /\ ToSet(normal[i].drivers) \subseteq ToSet(items[i].drivers)
        /\ required \ used \subseteq ToSet(items[last].drivers)
    <2>1. CASE added = <<>>
      <3>1. ToSet(added) = {}
        BY <2>1 DEF ToSet
      <3>2. items = result
        BY <1>5, <2>1
      <3>3. Len(items) = n
        BY <1>1, <1>2, <3>2
      <3> QED
        BY <1>2, <1>3, <1>8, <3>1, <3>2, <3>3
    <2>2. CASE added # <<>>
      <3> DEFINE deep == [result[last] EXCEPT !.drivers = added, !.selected = TRUE,
                                              !.depth = "deep", !.reason = TRUE]
      <3>1. items = [result EXCEPT ![last] = deep]
        BY <1>5, <2>2
      <3>0. deep = Chosen(result[last], added, "deep")
        BY DEF Chosen
      <3>9. "deep" \in Depths \cup STRING
        BY DEF Depths
      <3> HIDE DEF deep
      <3>2. /\ deep \in PlanItem /\ deep.area = result[last].area /\ deep.drivers = added
            /\ deep.selected /\ deep.depth = "deep" /\ deep.reason
        BY <1>7, <1>8, <3>0, <3>9, ItemChosen
      <3>3. Sound(deep)
        BY <1>7, <1>8, <3>2 DEF Sound, Completed, Reasoned, Depths
      <3> HIDE DEF items
      <3>4. DOMAIN items = 1..n /\ items[last] = deep
            /\ \A i \in (1..n) \ {last} : items[i] = result[i]
        BY <1>2, <1>4, <3>1
      <3>5. Len(items) = n
        BY <1>1, <1>2, <3>1
      <3>6. ToSet(normal[last].drivers) \subseteq ToSet(added)
        BY <1>3, <1>4, <1>8
      <3>7. ASSUME NEW i \in 1..n
            PROVE  /\ Sound(items[i]) /\ items[i].area = given[i].area
                   /\ ToSet(normal[i].drivers) \subseteq ToSet(items[i].drivers)
        <4>1. CASE i = last
          BY <1>3, <3>2, <3>3, <3>4, <3>6, <4>1
        <4>2. CASE i # last
          BY <1>3, <3>4, <4>2
        <4> QED
          BY <4>1, <4>2
      <3> QED
        BY <1>8, <3>2, <3>4, <3>5, <3>7
    <2> QED
      BY <2>1, <2>2
  <1> HIDE DEF items
  <1>10. {items[i].area : i \in DOMAIN items} = Areas
    BY <1>1, <1>9
  <1>11. required \subseteq UNION {ToSet(items[i].drivers) : i \in DOMAIN items}
    <2> SUFFICES ASSUME NEW d \in required PROVE \E i \in DOMAIN items : d \in ToSet(items[i].drivers)
      OBVIOUS
    <2>1. CASE d \in used
      <3>1. PICK i \in 1..n : d \in ToSet(normal[i].drivers)
        BY <1>2, <2>1
      <3> QED
        BY <1>9, <3>1
    <2>2. CASE d \notin used
      BY <1>4, <1>9, <2>2
    <2> QED
      BY <2>1, <2>2
  <1>12. validatePlan(items, drivers, required, areas)
    BY <1>1, <1>9, <1>10, <1>11 DEF validatePlan, Sound, Completed, Reasoned
  <1> QED
    BY <1>12 DEF items, normal

LEMMA PlanHolds ==
    ASSUME NEW r, IsFiniteSet(r.drivers), \A d \in r.drivers : d.id \in STRING,
           NEW given \in Seq(PlanItem),
           request.plan = r, request.given = given, answer = CreateValidationPlan(r, given)
    PROVE  PolicySufficient
  <1> DEFINE drivers == Drivers(r)
             required == RequiredDrivers(r)
             areas == RequiredAreas(r)
             items == applyRequiredPlanPolicy(normalizePlanDrivers(given, drivers), required, areas)
  <1>1. required \in SUBSET (drivers \cap STRING)
    BY DEF RequiredDrivers, Drivers
  <1>2. IsFiniteSet(required)
    <2> DEFINE S == {d \in r.drivers : Serious(d)}
               f == [d \in S |-> d.id]
    <2>1. IsFiniteSet(S)
      BY FS_Subset
    <2>2. required = {f[d] : d \in S}
      BY DEF RequiredDrivers
    <2>3. DOMAIN f = S
      OBVIOUS
    <2> HIDE DEF required, f, S
    <2> QED
      BY <2>1, <2>2, <2>3, FiniteImage
  <1>3. answer = IF ~r.purposeGiven THEN [outcome |-> "invalid"]
                 ELSE IF ~validatePlan(items, drivers, required, areas)
                      THEN [outcome |-> "internal"]
                      ELSE [outcome |-> "planned", items |-> items]
    BY DEF CreateValidationPlan
  <1> HIDE DEF items, drivers, required, areas
  <1>4. WellFormedPlan(given) => validatePlan(items, drivers, required, areas)
    BY <1>1, <1>2, PolicyCompletes DEF items
  <1>5. r.purposeGiven /\ WellFormedPlan(given) => answer.outcome = "planned"
    BY <1>3, <1>4
  <1>6. answer.outcome = "planned" =>
          answer.items = items /\ validatePlan(items, drivers, required, areas)
    BY <1>3
  <1>7. validatePlan(items, drivers, required, areas) =>
          /\ WellFormedPlan(items)
          /\ \A i \in DOMAIN items : items[i].area \in areas => items[i].selected
          /\ required \subseteq UNION {ToSet(items[i].drivers) : i \in DOMAIN items}
          /\ UNION {ToSet(items[i].drivers) : i \in DOMAIN items} \subseteq drivers
    BY DEF validatePlan, WellFormedPlan
  <1> QED
    BY <1>5, <1>6, <1>7 DEF PolicySufficient, drivers, required, areas

-----------------------------------------------------------------------------
(* Stable sorting, and the plan of a research.                             *)

\* A sequence without repetitions is as long as its entries are many.
LEMMA EntriesCounted ==
    ASSUME NEW S, NEW s \in Seq(S), IsInjective(s)
    PROVE  IsFiniteSet(ToSet(s)) /\ Cardinality(ToSet(s)) = Len(s)
  <1>1. Len(s) \in Nat /\ DOMAIN s = 1..Len(s) /\ ToSet(s) = {s[i] : i \in 1..Len(s)}
    BY DEF ToSet
  <1>2. s \in Bijection(1..Len(s), ToSet(s))
    <2>1. s \in [1..Len(s) -> ToSet(s)]
      BY <1>1
    <2>2. \A i, j \in 1..Len(s) : s[i] = s[j] => i = j
      BY <1>1 DEF IsInjective
    <2> QED
      BY <1>1, <2>1, <2>2 DEF Bijection, Injection, Surjection, IsInjective
  <1>3. IsFiniteSet(1..Len(s)) /\ Cardinality(1..Len(s)) = Len(s)
    BY <1>1, FS_Interval
  <1> QED
    BY <1>2, <1>3, FS_Bijection DEF ExistsBijection

\* The kinds that are named, each once, or "general".
Named(kinds) == ToSet(kinds) \ {""}

LEMMA KindsCounted ==
    ASSUME NEW S, NEW kinds \in Seq(S)
    PROVE  /\ Len(unique(kinds)) \in Nat /\ DOMAIN unique(kinds) = 1..Len(unique(kinds))
           /\ Len(unique(kinds)) = IF Named(kinds) = {} THEN 1 ELSE Cardinality(Named(kinds))
  <1> DEFINE n == Len(kinds)
             V == Seq(S)
             blank == ""
             Kept(out, d) == IF d = blank \/ d \in ToSet(out) THEN out ELSE Append(out, d)
             Keep == [i \in 1..n |-> [out \in V |-> Kept(out, kinds[i])]]
             Keeps(f) == f = [s \in SUBSET DOMAIN kinds |->
                                IF s = {} THEN <<>> ELSE Kept(f[s \ {Max(s)}], kinds[Max(s)])]
  <1> HIDE DEF blank
  <1>1. /\ n \in Nat /\ DOMAIN kinds = 1..n /\ <<>> \in V
        /\ \A i \in 1..n : kinds[i] \in S
    OBVIOUS
  <1>2. \A i \in 1..n, out \in V : Kept(out, kinds[i]) \in V
    BY <1>1
  <1>3. \E f : Keeps(f)
    <2>1. Keep \in [1..n -> [V -> V]]
      BY <1>2
    <2>2. PICK f : TakesSteps(f, n, V, <<>>, Keep)
      <3> HIDE DEF Keep, n, V
      <3> QED
        BY <1>1, <2>1, FoldExists
    <2>3. \A s \in SUBSET (1..n) : s # {} => Max(s) \in 1..n /\ f[s \ {Max(s)}] \in V
      BY <1>1, <2>2, Greatest DEF TakesSteps
    <2> HIDE DEF V, Kept
    <2>4. \A s \in SUBSET (1..n) : s # {} =>
             Keep[Max(s)][f[s \ {Max(s)}]] = Kept(f[s \ {Max(s)}], kinds[Max(s)])
      BY <2>3
    <2> HIDE DEF Keep
    <2>5. f = [s \in SUBSET (1..n) |->
                  IF s = {} THEN <<>> ELSE Kept(f[s \ {Max(s)}], kinds[Max(s)])]
      BY <2>2, <2>4 DEF TakesSteps
    <2> QED
      BY <1>1, <2>5 DEF V
  <1>4. PICK f : Keeps(f) /\ named(kinds) = f[DOMAIN kinds]
    BY <1>3 DEF named, FoldLeft, MapThenFoldSet, blank
  <1> HIDE DEF Kept
  <1>5. \A k \in 1..n : f[1..k] = Kept(f[1..(k - 1)], kinds[k])
    BY <1>1, <1>4, Prefix
  <1>6. f[{}] = <<>>
    BY <1>4
  <1> DEFINE Upto(k) == {kinds[i] : i \in 1..k} \ {blank}
             Good(k, out) == out \in V /\ IsInjective(out) /\ ToSet(out) = Upto(k)
             P == {k \in Nat : k <= n => Good(k, f[1..k])}
  <1>7. 0 \in P
    <2>1. 1..0 = {}
      OBVIOUS
    <2>2. IsInjective(<<>>) /\ ToSet(<<>>) = {} /\ Upto(0) = {}
      BY DEF IsInjective, ToSet
    <2> QED
      BY <1>1, <1>6, <2>1, <2>2
  <1>8. ASSUME NEW k \in Nat, k \in P PROVE k + 1 \in P
    <2> SUFFICES ASSUME k + 1 <= n PROVE Good(k + 1, f[1..(k + 1)])
      <3> HIDE DEF Good
      <3> QED
        OBVIOUS
    <2> DEFINE out == f[1..k]
               new == f[1..(k + 1)]
               d == kinds[k + 1]
    <2>1. k + 1 \in 1..n /\ (k + 1) - 1 = k /\ Good(k, out)
      <3> HIDE DEF Good
      <3> QED
        BY <1>8
    <2>2. new = Kept(out, d)
      BY <1>5, <2>1
    <2>3. Upto(k + 1) = Upto(k) \cup ({d} \ {blank})
      <3>1. 1..(k + 1) = (1..k) \cup {k + 1}
        OBVIOUS
      <3> HIDE DEF d
      <3> QED
        BY <3>1 DEF d
    <2>4. d \in S
      BY <1>1, <2>1
    <2> HIDE DEF out, new, d, Upto
    <2>5. CASE d = blank \/ d \in ToSet(out)
      BY <2>1, <2>2, <2>3, <2>5 DEF Kept, new
    <2>6. CASE ~(d = blank \/ d \in ToSet(out))
      <3>1. new = Append(out, d)
        BY <2>2, <2>6 DEF Kept
      <3>2. out \in Seq(S) /\ IsInjective(out) /\ ToSet(out) = Upto(k)
        BY <2>1
      <3>3. /\ new \in Seq(S) /\ Len(new) = Len(out) + 1 /\ Len(out) \in Nat
            /\ \A i \in 1..Len(out) : new[i] = out[i]
            /\ new[Len(out) + 1] = d
            /\ DOMAIN new = 1..(Len(out) + 1) /\ DOMAIN out = 1..Len(out)
        BY <2>4, <3>1, <3>2
      <3>4. \A i \in 1..Len(out) : out[i] # d
        BY <2>6, <3>3 DEF ToSet
      <3>5. IsInjective(new)
        BY <3>2, <3>3, <3>4 DEF IsInjective
      <3>6. ToSet(new) = ToSet(out) \cup {d}
        <4>1. 1..(Len(out) + 1) = (1..Len(out)) \cup {Len(out) + 1}
          BY <3>3
        <4> QED
          BY <3>3, <4>1 DEF ToSet
      <3> QED
        BY <2>3, <2>6, <3>2, <3>3, <3>5, <3>6 DEF new
    <2> QED
      BY <2>5, <2>6
  <1>9. n \in P
    <2> HIDE DEF P
    <2> QED
      BY <1>1, <1>7, <1>8, Induction
  <1> DEFINE once == f[1..n]
  <1>10. once \in Seq(S) /\ IsInjective(once) /\ ToSet(once) = Named(kinds)
    <2>1. Upto(n) = Named(kinds)
      BY <1>1 DEF Named, ToSet, blank
    <2> HIDE DEF Upto
    <2> QED
      BY <1>1, <1>9, <2>1
  <1>11. named(kinds) = once
    BY <1>1, <1>4
  <1> HIDE DEF once
  <1>12. Len(once) = Cardinality(Named(kinds))
    BY <1>10, EntriesCounted
  <1>13. unique(kinds) = IF once = <<>> THEN <<"general">> ELSE once
    BY <1>11 DEF unique
  <1>14. once = <<>> <=> Named(kinds) = {}
    <2>1. once = <<>> => ToSet(once) = {}
      BY DEF ToSet
    <2>2. once # <<>> => once[1] \in ToSet(once)
      BY <1>10 DEF ToSet
    <2> QED
      BY <1>10, <2>1, <2>2
  <1>15. Len(<<"general">>) = 1 /\ DOMAIN <<"general">> = 1..1
    OBVIOUS
  <1>16. /\ Len(once) \in Nat /\ DOMAIN once = 1..Len(once)
    BY <1>10
  <1>17. CASE once = <<>>
    <2>1. unique(kinds) = <<"general">>
      BY <1>13, <1>17
    <2> QED
      BY <1>14, <1>15, <1>17, <2>1
  <1>18. CASE once # <<>>
    <2>1. unique(kinds) = once
      BY <1>13, <1>18
    <2> QED
      BY <1>12, <1>14, <1>16, <1>18, <2>1
  <1> QED
    BY <1>17, <1>18

\* The order of a stable sort is total, so the ranks are a permutation.
Sorts(p, n, s, key) ==
    /\ Sorted(s, key) = [k \in 1..n |-> s[p[k]]]
    /\ \A i, j \in 1..n : i < j => Ahead(key, p[i], p[j])

LEMMA SortPermutes ==
    ASSUME NEW n \in Nat, NEW s, DOMAIN s = 1..n, NEW key \in [1..n -> Nat]
    PROVE  \E p \in Bijection(1..n, 1..n) : Sorts(p, n, s, key)
  <1> DEFINE Firsts(i) == {j \in 1..n : Ahead(key, j, i)}
             r == [i \in 1..n |-> Rank(key, i)]
  <1>1. IsFiniteSet(1..n) /\ Cardinality(1..n) = n
    BY FS_Interval
  <1>2. \A i \in 1..n : /\ IsFiniteSet(Firsts(i)) /\ Cardinality(Firsts(i)) \in Nat
                        /\ r[i] = Cardinality(Firsts(i)) + 1
    BY <1>1, FS_Subset, FS_CardinalityType DEF Rank
  <1>3. \A i, j \in 1..n : i # j => Ahead(key, i, j) \/ Ahead(key, j, i)
    BY DEF Ahead
  <1>4. ASSUME NEW i \in 1..n, NEW j \in 1..n, Ahead(key, i, j) PROVE r[i] < r[j]
    <2>1. Firsts(i) \subseteq Firsts(j)
      BY <1>4 DEF Ahead
    <2>2. i \in Firsts(j) /\ i \notin Firsts(i)
      BY <1>4 DEF Ahead
    <2> HIDE DEF Firsts, r
    <2>3. Firsts(i) \in SUBSET Firsts(j) /\ Firsts(i) # Firsts(j)
      BY <2>1, <2>2
    <2>4. Cardinality(Firsts(i)) < Cardinality(Firsts(j))
      BY <1>2, <2>3, FS_Subset
    <2> QED
      BY <1>2, <2>4
  <1>5. \A i \in 1..n : r[i] \in 1..n
    <2> SUFFICES ASSUME NEW i \in 1..n PROVE r[i] \in 1..n
      OBVIOUS
    <2>1. Firsts(i) \subseteq 1..n /\ i \in 1..n /\ i \notin Firsts(i)
      BY DEF Ahead
    <2> HIDE DEF Firsts, r
    <2>2. Firsts(i) \in SUBSET (1..n) /\ Firsts(i) # 1..n
      BY <2>1
    <2>3. Cardinality(Firsts(i)) <= n /\ Cardinality(Firsts(i)) # n
      BY <1>1, <2>2, FS_Subset
    <2> QED
      BY <1>2, <2>3
  <1> HIDE DEF Firsts
  <1>6. \A i, j \in 1..n : r[i] = r[j] => i = j
    <2> HIDE DEF r
    <2>1. \A i, j \in 1..n : i # j => r[i] < r[j] \/ r[j] < r[i]
      BY <1>3, <1>4
    <2>2. \A i \in 1..n : r[i] \in 1..n
      BY <1>5
    <2> QED
      BY <2>1, <2>2
  <1>7. r \in Injection(1..n, 1..n)
    <2>1. r \in [1..n -> 1..n]
      BY <1>5
    <2> QED
      BY <1>6, <2>1 DEF Injection, IsInjective
  <1>8. r \in Surjection(1..n, 1..n)
    <2> HIDE DEF r
    <2> QED
      BY <1>1, <1>7, FS_Injection
  <1> DEFINE p == [k \in 1..n |-> CHOOSE i \in 1..n : Rank(key, i) = k]
  <1>9. \A k \in 1..n : p[k] \in 1..n /\ r[p[k]] = k
    <2> SUFFICES ASSUME NEW k \in 1..n PROVE p[k] \in 1..n /\ Rank(key, p[k]) = k
      OBVIOUS
    <2>1. \E i \in 1..n : r[i] = k
      BY <1>8 DEF Surjection
    <2>2. \E i \in 1..n : Rank(key, i) = k
      BY <2>1
    <2> QED
      BY <2>2
  <1>10. p \in Bijection(1..n, 1..n)
    <2>1. p \in [1..n -> 1..n] /\ \A i, j \in 1..n : p[i] = p[j] => i = j
      <3> HIDE DEF r
      <3>1. \A i, j \in 1..n : p[i] = p[j] => i = j
        BY <1>9
      <3>2. p \in [1..n -> 1..n]
        BY <1>9
      <3> QED
        BY <3>1, <3>2
    <2>2. \A i \in 1..n : p[r[i]] = i
      <3> HIDE DEF r, p
      <3> QED
        BY <1>5, <1>6, <1>9
    <2> HIDE DEF r, p
    <2> QED
      BY <1>5, <2>1, <2>2 DEF Bijection, Injection, Surjection, IsInjective
  <1>11. Sorted(s, key) = [k \in 1..n |-> s[p[k]]]
    BY DEF Sorted
  <1>12. ASSUME NEW i \in 1..n, NEW j \in 1..n, i < j PROVE Ahead(key, p[i], p[j])
    <2> HIDE DEF r, p
    <2>1. p[i] \in 1..n /\ p[j] \in 1..n /\ r[p[i]] = i /\ r[p[j]] = j
      BY <1>9
    <2>2. ~Ahead(key, p[j], p[i])
      BY <1>4, <1>12, <2>1
    <2> QED
      BY <1>3, <1>12, <2>1, <2>2
  <1> HIDE DEF p
  <1>13. Sorts(p, n, s, key)
    BY <1>11, <1>12 DEF Sorts
  <1> QED
    BY <1>10, <1>13

\* A task that is made of an assumption.
Of(task, a) ==
    /\ task.assumption = a.id /\ task.priority = a.likelihood
    /\ (task.depth = "deep") <=> a.likelihood >= 700

LEMMA TasksMade ==
    ASSUME NEW S, NEW a, a.kinds \in Seq(S)
    PROVE  /\ TasksOf(a) \in Seq(ToSet(TasksOf(a)))
           /\ Len(TasksOf(a)) = Len(unique(a.kinds))
           /\ \A i \in 1..Len(TasksOf(a)) : Of(TasksOf(a)[i], a)
  <1> DEFINE kinds == unique(a.kinds)
             m == Len(kinds)
             depth == IF a.likelihood >= 700 THEN "deep" ELSE "standard"
             task(i) == [assumption |-> a.id, sources |-> sourceTypes(kinds[i]),
                         priority |-> a.likelihood, depth |-> depth,
                         kind |-> normalized(kinds[i]),
                         queries |-> queries(a.id, normalized(kinds[i]))]
  <1>1. m \in Nat /\ DOMAIN kinds = 1..m
    BY KindsCounted
  <1>2. TasksOf(a) = [i \in 1..m |-> task(i)]
    BY <1>1 DEF TasksOf
  <1>3. (depth = "deep") <=> a.likelihood >= 700
    OBVIOUS
  <1> HIDE DEF depth
  <1>4. ASSUME NEW i \in 1..m PROVE Of(TasksOf(a)[i], a)
    <2>1. TasksOf(a)[i] = task(i)
      BY <1>2
    <2>2. task(i).assumption = a.id /\ task(i).priority = a.likelihood /\ task(i).depth = depth
      OBVIOUS
    <2> HIDE DEF task
    <2> QED
      BY <1>3, <2>1, <2>2 DEF Of
  <1> HIDE DEF task, m, kinds
  <1>5. DOMAIN TasksOf(a) = 1..m
    BY <1>2
  <1>6. TasksOf(a) \in Seq(ToSet(TasksOf(a))) /\ Len(TasksOf(a)) = m
    <2>1. ToSet(TasksOf(a)) = {TasksOf(a)[i] : i \in 1..m}
      BY <1>5 DEF ToSet
    <2>2. TasksOf(a) \in [1..m -> ToSet(TasksOf(a))]
      BY <1>2, <2>1
    <2> QED
      BY <1>1, <2>2
  <1> QED
    BY <1>4, <1>6 DEF m, kinds

\* The tasks of the first k assumptions.
Collected(given, k, T) ==
    /\ Len(T) \in Nat /\ DOMAIN T = 1..Len(T)
    /\ \A i \in 1..Len(T) : \E a \in 1..k : Of(T[i], given[a])
    /\ \A i, j \in 1..Len(T), a, b \in 1..k :
          i < j /\ T[i].assumption = given[a].id /\ T[j].assumption = given[b].id => a <= b
    /\ \A a \in 1..k : Cardinality({i \in 1..Len(T) : T[i].assumption = given[a].id})
                           = Len(unique(given[a].kinds))

LEMMA OneMore ==
    ASSUME NEW given, NEW n \in Nat, NEW k \in Nat, k + 1 <= n,
           \A a, b \in 1..n : given[a].id = given[b].id => a = b,
           NEW V, NEW T \in Seq(V), Collected(given, k, T),
           NEW B \in Seq(V), Len(B) = Len(unique(given[k + 1].kinds)),
           \A i \in 1..Len(B) : Of(B[i], given[k + 1])
    PROVE  Collected(given, k + 1, T \o B)
  <1> DEFINE l == Len(T)
             m == Len(B)
             TB == T \o B
             Mine(U, a) == {i \in 1..Len(U) : U[i].assumption = given[a].id}
  <1>1. /\ l \in Nat /\ m \in Nat /\ Len(TB) = l + m /\ DOMAIN TB = 1..(l + m)
        /\ \A i \in 1..l : TB[i] = T[i]
        /\ \A i \in 1..m : TB[l + i] = B[i]
    <2>1. l \in Nat /\ m \in Nat
      OBVIOUS
    <2>2. Len(TB) = l + m /\ DOMAIN TB = 1..(l + m)
      <3>1. TB \in Seq(V) /\ Len(TB) = l + m
        BY ConcatProperties
      <3> QED
        BY <3>1
    <2>3. \A i \in 1..(l + m) : TB[i] = IF i <= l THEN T[i] ELSE B[i - l]
      OBVIOUS
    <2>4. \A i \in 1..l : i \in 1..(l + m) /\ i <= l
      BY <2>1
    <2>5. \A i \in 1..m : l + i \in 1..(l + m) /\ ~(l + i <= l) /\ (l + i) - l = i
      BY <2>1
    <2> HIDE DEF TB, l, m
    <2>6. \A i \in 1..l : TB[i] = T[i]
      BY <2>3, <2>4
    <2>7. \A i \in 1..m : TB[l + i] = B[i]
      BY <2>3, <2>5
    <2> QED
      BY <2>1, <2>2, <2>6, <2>7
  <1>2. ASSUME NEW i \in (l + 1)..(l + m) PROVE Of(TB[i], given[k + 1])
    <2>1. i - l \in 1..m /\ l + (i - l) = i
      BY <1>1
    <2>2. TB[i] = B[i - l]
      BY <1>1, <2>1
    <2> HIDE DEF TB
    <2> QED
      BY <2>1, <2>2
  <1>3. /\ k + 1 \in 1..n /\ 1..k \subseteq 1..n /\ 1..(k + 1) = (1..k) \cup {k + 1}
    OBVIOUS
  <1>4. 1..(l + m) = (1..l) \cup ((l + 1)..(l + m))
    BY <1>1
  <1> HIDE DEF TB, l, m
  <1>5. \A i \in 1..l : \E a \in 1..k : Of(TB[i], given[a])
    BY <1>1 DEF Collected, l
  <1>6. \A i \in 1..(l + m) : \E a \in 1..(k + 1) : Of(TB[i], given[a])
    BY <1>2, <1>3, <1>4, <1>5
  <1>7. \A i \in 1..l : TB[i].assumption # given[k + 1].id
    <2> SUFFICES ASSUME NEW i \in 1..l, TB[i].assumption = given[k + 1].id PROVE FALSE
      OBVIOUS
    <2>1. PICK a \in 1..k : Of(TB[i], given[a])
      BY <1>5
    <2>2. given[a].id = given[k + 1].id
      BY <2>1 DEF Of
    <2> QED
      BY <1>3, <2>2
  <1>8. \A i \in (l + 1)..(l + m), a \in 1..k : TB[i].assumption # given[a].id
    <2> SUFFICES ASSUME NEW i \in (l + 1)..(l + m), NEW a \in 1..k,
                        TB[i].assumption = given[a].id
                 PROVE  FALSE
      OBVIOUS
    <2>1. given[a].id = given[k + 1].id
      BY <1>2 DEF Of
    <2> QED
      BY <1>3, <2>1
  <1>9. ASSUME NEW i \in 1..(l + m), NEW j \in 1..(l + m), NEW a \in 1..(k + 1),
               NEW b \in 1..(k + 1), i < j, TB[i].assumption = given[a].id,
               TB[j].assumption = given[b].id
        PROVE  a <= b
    <2>1. CASE b = k + 1
      BY <2>1
    <2>2. CASE b # k + 1
      <3>1. b \in 1..k /\ j \in 1..l
        BY <1>3, <1>4, <1>8, <1>9, <2>2
      <3>2. i \in 1..l
        BY <1>1, <1>9, <3>1
      <3>3. a \in 1..k
        BY <1>3, <1>7, <1>9, <3>2
      <3> QED
        BY <1>1, <1>9, <3>1, <3>2, <3>3 DEF Collected, l
    <2> QED
      BY <2>1, <2>2
  <1>10. ASSUME NEW a \in 1..(k + 1)
         PROVE  Cardinality(Mine(TB, a)) = Len(unique(given[a].kinds))
    <2>1. CASE a = k + 1
      <3>1. \A i \in (l + 1)..(l + m) : TB[i].assumption = given[a].id
        BY <1>2, <2>1 DEF Of
      <3>2. Mine(TB, a) = (l + 1)..(l + m)
        BY <1>1, <1>4, <1>7, <2>1, <3>1
      <3>3. Cardinality((l + 1)..(l + m)) = m
        <4>1. l + 1 \in Int /\ l + m \in Int
          BY <1>1
        <4>2. Cardinality((l + 1)..(l + m))
                  = IF l + 1 > l + m THEN 0 ELSE (l + m) - (l + 1) + 1
          BY <4>1, FS_Interval
        <4> QED
          BY <1>1, <4>2
      <3> QED
        BY <2>1, <3>2, <3>3 DEF m
    <2>2. CASE a # k + 1
      <3>1. a \in 1..k
        BY <2>2
      <3>2. Mine(TB, a) = Mine(T, a)
        <4>1. 1..l \subseteq 1..(l + m)
          BY <1>1
        <4> QED
          BY <1>1, <1>4, <1>8, <3>1, <4>1 DEF l
      <3> QED
        BY <3>1, <3>2 DEF Collected
    <2> QED
      BY <2>1, <2>2
  <1>11. Len(TB) \in Nat /\ DOMAIN TB = 1..Len(TB)
    BY <1>1
  <1>12. Collected(given, k + 1, TB)
    BY <1>1, <1>6, <1>9, <1>10, <1>11 DEF Collected
  <1> QED
    BY <1>12 DEF TB

\* The tasks of all assumptions.
LEMMA TasksCollected ==
    ASSUME NEW S, NEW n \in Nat, NEW given, DOMAIN given = 1..n,
           \A a \in 1..n : given[a].kinds \in Seq(S),
           \A a, b \in 1..n : given[a].id = given[b].id => a = b
    PROVE  Collected(given, n, Listed(given))
  <1> DEFINE All == UNION {ToSet(TasksOf(given[i])) : i \in 1..n}
             V == Seq(All)
             Join(out, a) == out \o TasksOf(a)
             Step == [i \in 1..n |-> [out \in V |-> Join(out, given[i])]]
             Joins(f) == f = [s \in SUBSET DOMAIN given |->
                                IF s = {} THEN <<>> ELSE Join(f[s \ {Max(s)}], given[Max(s)])]
  <1>1. <<>> \in V
    OBVIOUS
  <1>2. ASSUME NEW i \in 1..n
        PROVE  /\ TasksOf(given[i]) \in V
               /\ Len(TasksOf(given[i])) = Len(unique(given[i].kinds))
               /\ \A j \in 1..Len(TasksOf(given[i])) : Of(TasksOf(given[i])[j], given[i])
    <2> DEFINE tasks == TasksOf(given[i])
    <2>1. /\ tasks \in Seq(ToSet(tasks)) /\ Len(tasks) = Len(unique(given[i].kinds))
          /\ \A j \in 1..Len(tasks) : Of(tasks[j], given[i])
      BY TasksMade
    <2>2. ToSet(tasks) \subseteq All
      OBVIOUS
    <2> HIDE DEF tasks, All
    <2>3. tasks \in Seq(All)
      BY <2>1, <2>2
    <2> QED
      BY <2>1, <2>3 DEF tasks
  <1>3. \A i \in 1..n, out \in V : Join(out, given[i]) \in V
    <2> HIDE DEF All
    <2> QED
      BY <1>2, ConcatProperties
  <1>4. \E f : Joins(f)
    <2>1. Step \in [1..n -> [V -> V]]
      <3> HIDE DEF V, Join
      <3> QED
        BY <1>3
    <2>2. PICK f : TakesSteps(f, n, V, <<>>, Step)
      <3> HIDE DEF Step, V
      <3> QED
        BY <1>1, <2>1, FoldExists
    <2>3. \A s \in SUBSET (1..n) : s # {} => Max(s) \in 1..n /\ f[s \ {Max(s)}] \in V
      <3> HIDE DEF Step, V
      <3> QED
        BY <2>2, Greatest DEF TakesSteps
    <2> HIDE DEF V, Join
    <2>4. \A s \in SUBSET (1..n) : s # {} =>
             Step[Max(s)][f[s \ {Max(s)}]] = Join(f[s \ {Max(s)}], given[Max(s)])
      BY <2>3
    <2> HIDE DEF Step
    <2>5. f = [s \in SUBSET (1..n) |->
                  IF s = {} THEN <<>> ELSE Join(f[s \ {Max(s)}], given[Max(s)])]
      BY <2>2, <2>4 DEF TakesSteps
    <2>6. Joins(f)
      BY <2>5
    <2> HIDE DEF Joins
    <2> QED
      BY <2>6
  <1>5. PICK f : Joins(f) /\ Listed(given) = f[DOMAIN given]
    BY <1>4 DEF Listed, FoldLeft, MapThenFoldSet
  <1> HIDE DEF All, Join, Step
  <1>6. \A k \in 1..n : f[1..k] = Join(f[1..(k - 1)], given[k])
    BY <1>5, Prefix
  <1>7. f[{}] = <<>>
    BY <1>5
  <1> DEFINE Good(k, out) == out \in V /\ Collected(given, k, out)
             P == {k \in Nat : k <= n => Good(k, f[1..k])}
  <1>8. 0 \in P
    <2>1. 1..0 = {} /\ f[1..0] = <<>>
      BY <1>7
    <2>2. Len(<<>>) = 0 /\ DOMAIN <<>> = 1..0
      OBVIOUS
    <2>3. Collected(given, 0, <<>>)
      BY <2>1, <2>2 DEF Collected
    <2> QED
      BY <1>1, <2>1, <2>3
  <1>9. ASSUME NEW k \in Nat, k \in P PROVE k + 1 \in P
    <2> SUFFICES ASSUME k + 1 <= n PROVE Good(k + 1, f[1..(k + 1)])
      <3> HIDE DEF Good
      <3> QED
        OBVIOUS
    <2>1. k + 1 \in 1..n /\ (k + 1) - 1 = k /\ Good(k, f[1..k])
      <3> HIDE DEF Good
      <3> QED
        BY <1>9
    <2> DEFINE out == f[1..k]
               more == TasksOf(given[k + 1])
    <2>2. f[1..(k + 1)] = out \o more
      BY <1>6, <2>1 DEF Join
    <2>3. out \in V /\ Collected(given, k, out)
      BY <2>1
    <2>4. /\ more \in V /\ Len(more) = Len(unique(given[k + 1].kinds))
          /\ \A j \in 1..Len(more) : Of(more[j], given[k + 1])
      BY <1>2, <2>1
    <2> HIDE DEF out, more
    <2>5. out \o more \in V
      BY <2>3, <2>4, ConcatProperties
    <2>6. Collected(given, k + 1, out \o more)
      BY <2>3, <2>4, OneMore
    <2> QED
      BY <2>2, <2>5, <2>6
  <1>10. n \in P
    <2> HIDE DEF P
    <2> QED
      BY <1>8, <1>9, Induction
  <1>11. Listed(given) = f[1..n]
    BY <1>5
  <1> HIDE DEF V
  <1> QED
    BY <1>10, <1>11

LEMMA ResearchHolds ==
    ASSUME NEW S, NEW given, NEW n \in Nat, DOMAIN given = 1..n,
           \A a \in 1..n : given[a].kinds \in Seq(S) /\ given[a].likelihood \in Nat,
           \A a, b \in 1..n : given[a].id = given[b].id => a = b,
           NEW limit \in [DOMAIN Defaults -> Nat],
           request.given = given, answer = BuildPlan(given, limit)
    PROVE  ResearchPlanned
  <1> DEFINE T == Listed(given)
             m == Len(T)
             key == [i \in DOMAIN T |-> T[i].priority]
             tasks == Sorted(T, key)
             lim == WithDefaults(limit)
             place(id) == CHOOSE i \in DOMAIN given : given[i].id = id
  <1> SUFFICES ASSUME answer.outcome = "planned" PROVE ResearchPlanned
    BY DEF ResearchPlanned, Answered
  <1>1. Collected(given, n, T)
    BY TasksCollected
  <1>2. answer.tasks = tasks /\ answer.limit = lim
    <2> DEFINE refused == \/ given = <<>>
                          \/ \E i \in DOMAIN given : \/ given[i].id = "" \/ ~given[i].stated
                                                    \/ given[i].likelihood > 1000
    <2>1. answer = IF refused THEN [outcome |-> "invalid"]
                   ELSE [outcome |-> "planned", tasks |-> tasks, limit |-> lim]
      BY DEF BuildPlan, ByPriority
    <2> HIDE DEF refused, tasks, lim
    <2> QED
      BY <2>1
  <1> HIDE DEF T
  <1>3. m \in Nat /\ DOMAIN T = 1..m
    BY <1>1 DEF Collected
  <1>4. \A i \in 1..m : \E a \in 1..n : Of(T[i], given[a])
    BY <1>1 DEF Collected
  <1>5. \A i \in 1..m : T[i].priority \in Nat
    BY <1>4 DEF Of
  <1>6. PICK p \in Bijection(1..m, 1..m) :
           /\ tasks = [k \in 1..m |-> T[p[k]]]
           /\ \A i, j \in 1..m : i < j => Ahead(key, p[i], p[j])
    <2>1. key \in [1..m -> Nat]
      BY <1>3, <1>5
    <2> HIDE DEF m, key, tasks
    <2>2. PICK p \in Bijection(1..m, 1..m) : Sorts(p, m, T, key)
      BY <1>3, <2>1, SortPermutes
    <2> QED
      BY <2>2 DEF tasks, Sorts
  <1> HIDE DEF m, tasks, lim
  <1>7. /\ DOMAIN tasks = 1..m
        /\ \A k \in 1..m : p[k] \in 1..m /\ tasks[k] = T[p[k]]
    BY <1>6 DEF Bijection, Injection
  <1>8. \A a \in 1..n : place(given[a].id) = a
    OBVIOUS
  <1> HIDE DEF place
  <1>9. \A f \in DOMAIN lim : lim[f] > 0
    BY DEF lim, WithDefaults, Defaults
  <1>10. ASSUME NEW a \in 1..n
         PROVE  Cardinality({i \in 1..m : tasks[i].assumption = given[a].id})
                    = IF Named(given[a].kinds) = {} THEN 1 ELSE Cardinality(Named(given[a].kinds))
    <2> DEFINE A == {i \in 1..m : tasks[i].assumption = given[a].id}
               B == {i \in 1..m : T[i].assumption = given[a].id}
               q == [i \in A |-> p[i]]
    <2>1. q \in Bijection(A, B)
      <3>1. q \in [A -> B]
        BY <1>7
      <3>2. \A i, j \in A : q[i] = q[j] => i = j
        BY <1>6 DEF Bijection, Injection, IsInjective
      <3>3. ASSUME NEW j \in B PROVE \E i \in A : q[i] = j
        <4>1. PICK i \in 1..m : p[i] = j
          BY <1>6 DEF Bijection, Surjection
        <4> QED
          BY <1>7, <4>1
      <3> HIDE DEF A, B, q
      <3> QED
        BY <3>1, <3>2, <3>3 DEF Bijection, Injection, Surjection, IsInjective
    <2>2. IsFiniteSet(A)
      <3>1. IsFiniteSet(1..m)
        BY <1>3, FS_Interval
      <3> QED
        BY <3>1, FS_Subset
    <2>3. Cardinality(B) = Cardinality(A)
      BY <2>1, <2>2, FS_Bijection DEF ExistsBijection
    <2>4. Cardinality(B) = Len(unique(given[a].kinds))
      BY <1>1 DEF Collected, m
    <2> HIDE DEF A, B
    <2>5. Cardinality(A) = Len(unique(given[a].kinds))
      BY <2>3, <2>4
    <2> QED
      BY <2>5, KindsCounted DEF A
  <1>11. ASSUME NEW i \in 1..m, NEW j \in 1..m, i < j
         PROVE  \/ tasks[i].priority > tasks[j].priority
                \/ /\ tasks[i].priority = tasks[j].priority
                   /\ place(tasks[i].assumption) <= place(tasks[j].assumption)
    <2>1. p[i] \in 1..m /\ p[j] \in 1..m /\ tasks[i] = T[p[i]] /\ tasks[j] = T[p[j]]
      BY <1>7
    <2>2. Ahead(key, p[i], p[j]) /\ key[p[i]] = T[p[i]].priority /\ key[p[j]] = T[p[j]].priority
      BY <1>3, <1>6, <1>11, <2>1
    <2>3. PICK a \in 1..n : Of(T[p[i]], given[a])
      BY <1>4, <2>1
    <2>4. PICK b \in 1..n : Of(T[p[j]], given[b])
      BY <1>4, <2>1
    <2>5. T[p[i]].assumption = given[a].id /\ T[p[j]].assumption = given[b].id
      BY <2>3, <2>4 DEF Of
    <2>6. p[i] < p[j] => a <= b
      BY <1>1, <2>1, <2>5 DEF Collected, m
    <2>7. place(tasks[i].assumption) = a /\ place(tasks[j].assumption) = b
      <3>1. tasks[i].assumption = given[a].id /\ tasks[j].assumption = given[b].id
        BY <2>1, <2>5
      <3>2. place(given[a].id) = a /\ place(given[b].id) = b
        BY <1>8
      <3> QED
        BY <3>1, <3>2
    <2> QED
      BY <2>1, <2>2, <2>6, <2>7 DEF Ahead
  <1>12. ASSUME NEW i \in 1..m
         PROVE  (tasks[i].depth = "deep")
                    <=> given[place(tasks[i].assumption)].likelihood >= 700
    <2>1. p[i] \in 1..m /\ tasks[i] = T[p[i]]
      BY <1>7
    <2>2. PICK a \in 1..n : Of(T[p[i]], given[a])
      BY <1>4, <2>1
    <2>3. place(tasks[i].assumption) = a
      BY <1>8, <2>1, <2>2 DEF Of
    <2> QED
      BY <2>1, <2>2, <2>3 DEF Of
  <1>13. ToSet(given) = {given[a] : a \in 1..n}
    BY DEF ToSet
  <1>14. \A a \in ToSet(given) : \E i \in 1..n : a = given[i]
    BY <1>13
  <1>15. ASSUME NEW a \in ToSet(given)
         PROVE  Cardinality({i \in DOMAIN tasks : tasks[i].assumption = a.id})
                    = IF ToSet(a.kinds) \ {""} = {} THEN 1 ELSE Cardinality(ToSet(a.kinds) \ {""})
    <2>1. PICK b \in 1..n : a = given[b]
      BY <1>14
    <2>2. Cardinality({i \in 1..m : tasks[i].assumption = a.id})
              = IF Named(a.kinds) = {} THEN 1 ELSE Cardinality(Named(a.kinds))
      BY <1>10, <2>1
    <2>3. DOMAIN tasks = 1..m
      BY <1>7
    <2> QED
      BY <2>2, <2>3, Zenon DEF Named
  <1>16. \A i, j \in DOMAIN tasks : i < j =>
            \/ tasks[i].priority > tasks[j].priority
            \/ /\ tasks[i].priority = tasks[j].priority
               /\ place(tasks[i].assumption) <= place(tasks[j].assumption)
    BY <1>7, <1>11
  <1>17. \A i \in DOMAIN tasks :
            (tasks[i].depth = "deep")
                <=> given[place(tasks[i].assumption)].likelihood >= 700
    BY <1>7, <1>12
  <1> QED
    <2> HIDE DEF tasks, lim
    <2>1. Planned(given, tasks, lim)
      BY <1>9, <1>15, <1>16, <1>17, Zenon DEF Planned, place
    <2>2. Planned(request.given, answer.tasks, answer.limit)
      BY <1>2, <2>1
    <2> QED
      BY <2>2 DEF ResearchPlanned

-----------------------------------------------------------------------------
(* The improvement of a plan.                                              *)

\* A section is found for every task, and a claim if there is one.
LEMMA PlaceFound ==
    ASSUME NEW p \in Nat \ {0}, NEW sections, Len(sections) = p, NEW task
    PROVE  sectionForTask(sections, task) \in 1..p
  <1> DEFINE I == {i \in 1..Len(sections) : sections[i].title \in task.mentions}
             first == IF I # {} THEN Min(I) ELSE 0
  <1>1. sectionForTask(sections, task) = IF first = 0 THEN 1 ELSE first
    BY DEF sectionForTask, SelectInSeq
  <1>2. I # {} => Min(I) \in I
    BY Least
  <1>3. I \subseteq 1..p
    OBVIOUS
  <1>4. 1 \in 1..p /\ \A i \in 1..p : i # 0
    OBVIOUS
  <1> HIDE DEF I
  <1>5. first = 0 \/ first \in 1..p
    BY <1>2, <1>3
  <1> HIDE DEF first
  <1> QED
    BY <1>1, <1>4, <1>5

Grounded(claims, task) == \E c \in ToSet(claims) : Grounds(c, task)

LEMMA ClaimFound ==
    ASSUME NEW n \in Nat, NEW claims, Len(claims) = n, DOMAIN claims = 1..n, NEW task
    PROVE  /\ claimFor(claims, task) = 0 \/ claimFor(claims, task) \in 1..n
           /\ claimFor(claims, task) # 0 <=> Grounded(claims, task)
  <1> DEFINE I == {i \in 1..Len(claims) : Grounds(claims[i], task)}
  <1>1. claimFor(claims, task) = IF I # {} THEN Min(I) ELSE 0
    BY DEF claimFor, SelectInSeq
  <1>2. I # {} => Min(I) \in I
    BY Least
  <1>3. I \subseteq 1..n
    OBVIOUS
  <1>4. I # {} <=> Grounded(claims, task)
    BY DEF Grounded, ToSet
  <1>5. \A i \in 1..n : i # 0
    OBVIOUS
  <1> HIDE DEF I
  <1>6. CASE I = {}
    BY <1>1, <1>4, <1>6
  <1>7. CASE I # {}
    <2>1. Min(I) \in 1..n
      BY <1>2, <1>3, <1>7
    <2> QED
      BY <1>1, <1>4, <1>5, <1>7, <2>1
  <1> QED
    BY <1>6, <1>7

\* What an improvement has so far.
Sections(S) == [title : S, content : Seq(S), findings : SUBSET S, evidence : SUBSET S]
Changes(S, p) == [section : 1..p, finding : S, before : Seq(S), after : Seq(S)]
Progress(S, p) ==
    [outcome : {"improved"}, sections : [1..p -> Sections(S)], changes : Seq(Changes(S, p)),
     unresolved : Seq(S)]

\* One change to a section, or none.
Changed(p, acc, new, task, place, change) ==
    /\ new.changes = Append(acc.changes, change) /\ new.unresolved = acc.unresolved
    /\ change.section = place /\ change.finding = task.finding
    /\ change.before = acc.sections[place].content
    /\ change.after = new.sections[place].content
    /\ new.sections[place].findings = acc.sections[place].findings \cup {task.finding}
    /\ \A s \in (1..p) \ {place} : new.sections[s] = acc.sections[s]
Left(acc, new, task) ==
    /\ new.sections = acc.sections /\ new.changes = acc.changes
    /\ new.unresolved = Append(acc.unresolved, task.finding)

Stepped(S, p, claims, acc, new, task) ==
    IF Grounded(claims, task)
    THEN \E place \in 1..p, change \in Changes(S, p) : Changed(p, acc, new, task, place, change)
    ELSE Left(acc, new, task)

LEMMA ApplyStep ==
    ASSUME NEW S, NEW p \in Nat \ {0}, NEW original, NEW n \in Nat, NEW claims,
           Len(claims) = n, DOMAIN claims = 1..n,
           \A i \in 1..n : claims[i].id \in S /\ claims[i].evidence \in SUBSET S,
           NEW acc \in Progress(S, p), NEW task, task.finding \in S,
           NEW new, new = Apply(original, claims, acc, task)
    PROVE  new \in Progress(S, p) /\ Stepped(S, p, claims, acc, new, task)
  <1> DEFINE claim  == claimFor(claims, task)
             place  == sectionForTask(acc.sections, task)
             before == acc.sections[place].content
             text   == Append(before, claims[claim].id)
             findings == acc.sections[place].findings \cup {task.finding}
             evidence == acc.sections[place].evidence \cup claims[claim].evidence
             section == [acc.sections[place] EXCEPT !.content = text, !.findings = findings,
                                                    !.evidence = evidence]
             sections == [acc.sections EXCEPT ![place] = section]
             change == [section |-> place, finding |-> task.finding, before |-> before,
                        after |-> text]
             unresolved == Append(acc.unresolved, task.finding)
             changes == Append(acc.changes, change)
  <1>1. /\ acc.sections \in [1..p -> Sections(S)] /\ acc.changes \in Seq(Changes(S, p))
        /\ acc.unresolved \in Seq(S) /\ acc.outcome = "improved"
    BY DEF Progress
  <1>2. place \in 1..p
    <2>1. Len(acc.sections) = p
      BY <1>1
    <2> QED
      BY <2>1, PlaceFound
  <1>3. claim = 0 \/ claim \in 1..n
    BY ClaimFound
  <1>4. claim # 0 <=> Grounded(claims, task)
    BY ClaimFound
  <1>5. new = IF claim = 0 THEN [acc EXCEPT !.unresolved = unresolved]
              ELSE [acc EXCEPT !.sections = sections, !.changes = changes]
    BY DEF Apply
  <1> HIDE DEF claim, place
  <1>6. CASE claim = 0
    <2>1. unresolved \in Seq(S)
      BY <1>1, AppendProperties
    <2> HIDE DEF unresolved
    <2>2. /\ new.sections = acc.sections /\ new.changes = acc.changes
          /\ new.unresolved = unresolved /\ new \in Progress(S, p)
      BY <1>5, <1>6, <2>1 DEF Progress
    <2> QED
      BY <1>4, <1>6, <2>2 DEF Left, Stepped, unresolved
  <1>7. CASE claim # 0
    <2>1. /\ acc.sections[place] \in Sections(S) /\ claims[claim].id \in S
          /\ claims[claim].evidence \in SUBSET S
      BY <1>1, <1>2, <1>3, <1>7
    <2>2. /\ before \in Seq(S) /\ text \in Seq(S)
          /\ findings \in SUBSET S /\ evidence \in SUBSET S
      <3>1. /\ before \in Seq(S) /\ acc.sections[place].findings \in SUBSET S
            /\ acc.sections[place].evidence \in SUBSET S
        BY <2>1 DEF Sections
      <3>2. text \in Seq(S)
        BY <2>1, <3>1, AppendProperties
      <3> QED
        BY <2>1, <3>1, <3>2
    <2> HIDE DEF before, text, findings, evidence
    <2>3. section \in Sections(S) /\ section.content = text /\ section.findings = findings
      BY <2>1, <2>2 DEF Sections
    <2> HIDE DEF section
    <2>4. /\ sections \in [1..p -> Sections(S)] /\ sections[place] = section
          /\ \A s \in (1..p) \ {place} : sections[s] = acc.sections[s]
      BY <1>1, <1>2, <2>3
    <2>5. /\ change \in Changes(S, p) /\ change.section = place
          /\ change.finding = task.finding /\ change.before = before /\ change.after = text
      BY <1>2, <2>2 DEF Changes
    <2> HIDE DEF sections, change
    <2>6. changes \in Seq(Changes(S, p))
      BY <1>1, <2>5, AppendProperties
    <2> HIDE DEF changes
    <2>7. /\ new.sections = sections /\ new.changes = changes
          /\ new.unresolved = acc.unresolved /\ new \in Progress(S, p)
      BY <1>5, <1>7, <2>4, <2>6 DEF Progress
    <2>8. Changed(p, acc, new, task, place, change)
      BY <2>3, <2>4, <2>5, <2>7 DEF Changed, changes, before, findings
    <2> QED
      BY <1>2, <1>4, <1>7, <2>5, <2>7, <2>8 DEF Stepped
  <1> QED
    BY <1>6, <1>7

-----------------------------------------------------------------------------
\* A new change is behind those that were there.
LEMMA TextKept ==
    ASSUME NEW original, NEW V, NEW changes \in Seq(V), NEW c \in V, NEW s,
           NEW i \in 1..(Len(changes) + 1)
    PROVE  TextBefore(original, Append(changes, c), s, i) = TextBefore(original, changes, s, i)
  <1> DEFINE l == Len(changes)
             more == Append(changes, c)
             Earlier(ch) == {j \in DOMAIN ch : j < i /\ ch[j].section = s}
             E == Earlier(changes)
  <1>1. /\ l \in Nat /\ DOMAIN changes = 1..l /\ DOMAIN more = 1..(l + 1)
        /\ \A j \in 1..l : more[j] = changes[j]
    <2>1. more \in Seq(V) /\ Len(more) = l + 1
      BY AppendProperties
    <2> QED
      BY <2>1, AppendProperties
  <1> HIDE DEF more, l
  <1>2. Earlier(more) = E
    BY <1>1 DEF l
  <1>3. E # {} => Max(E) \in 1..l
    <2>1. E \in SUBSET (1..l)
      BY <1>1
    <2> HIDE DEF E
    <2> QED
      BY <1>1, <2>1, Greatest
  <1>4. /\ TextBefore(original, changes, s, i)
             = IF E = {} THEN original[s].content ELSE changes[Max(E)].after
        /\ TextBefore(original, more, s, i)
             = IF Earlier(more) = {} THEN original[s].content ELSE more[Max(Earlier(more))].after
    BY DEF TextBefore
  <1>5. CASE E = {}
    BY <1>2, <1>4, <1>5 DEF more
  <1>6. CASE E # {}
    <2>1. more[Max(E)] = changes[Max(E)]
      BY <1>1, <1>3, <1>6
    <2> HIDE DEF E, Earlier
    <2> QED
      BY <1>2, <1>4, <1>6, <2>1 DEF more
  <1> QED
    BY <1>5, <1>6

\* It is what the next change of its section finds.
LEMMA TextAdded ==
    ASSUME NEW original, NEW V, NEW changes \in Seq(V), NEW c \in V, NEW s
    PROVE  TextBefore(original, Append(changes, c), s, Len(changes) + 2)
               = IF c.section = s THEN c.after
                 ELSE TextBefore(original, changes, s, Len(changes) + 1)
  <1> DEFINE l == Len(changes)
             more == Append(changes, c)
             E == {j \in DOMAIN more : j < l + 2 /\ more[j].section = s}
             D == {j \in DOMAIN changes : j < l + 1 /\ changes[j].section = s}
  <1>1. /\ l \in Nat /\ DOMAIN changes = 1..l /\ DOMAIN more = 1..(l + 1)
        /\ \A j \in 1..l : more[j] = changes[j]
        /\ more[l + 1] = c
    <2>1. more \in Seq(V) /\ Len(more) = l + 1
      BY AppendProperties
    <2>2. l \in Nat /\ DOMAIN changes = 1..l /\ DOMAIN more = 1..(l + 1)
      BY <2>1
    <2>3. (\A j \in 1..l : more[j] = changes[j]) /\ more[l + 1] = c
      BY AppendProperties
    <2> QED
      BY <2>2, <2>3
  <1> HIDE DEF more, l
  <1>2. E = {j \in 1..(l + 1) : more[j].section = s} /\ D = {j \in 1..l : changes[j].section = s}
    BY <1>1
  <1>3. TextBefore(original, more, s, l + 2)
            = IF E = {} THEN original[s].content ELSE more[Max(E)].after
    BY DEF TextBefore
  <1>4. TextBefore(original, changes, s, l + 1)
            = IF D = {} THEN original[s].content ELSE changes[Max(D)].after
    BY DEF TextBefore
  <1> HIDE DEF E, D
  <1>5. CASE c.section = s
    <2>1. l + 1 \in E /\ E \in SUBSET (1..(l + 1)) /\ l + 1 \in Nat
      BY <1>1, <1>2, <1>5
    <2>2. Max(E) \in E /\ l + 1 <= Max(E)
      BY <2>1, Greatest
    <2>3. \A m \in 1..(l + 1) : l + 1 <= m => m = l + 1
      BY <1>1
    <2>4. Max(E) = l + 1
      BY <2>1, <2>2, <2>3
    <2> QED
      BY <1>1, <1>3, <1>5, <2>1, <2>4 DEF more, l
  <1>6. CASE c.section # s
    <2>1. E = D
      BY <1>1, <1>2, <1>6
    <2>2. D # {} => Max(D) \in 1..l
      <3>1. D \in SUBSET (1..l)
        BY <1>2
      <3> QED
        BY <1>1, <3>1, Greatest
    <2> QED
      BY <1>1, <1>3, <1>4, <1>6, <2>1, <2>2 DEF more, l
  <1> QED
    BY <1>5, <1>6

\* What has become of the first k tasks.
Resolved(tasks, claims, k, acc) ==
    /\ Len(acc.changes) + Len(acc.unresolved) = k
    /\ \A i \in 1..Len(acc.changes) : \E a \in 1..k :
          acc.changes[i].finding = tasks[a].finding /\ Grounded(claims, tasks[a])
    /\ \A i \in 1..Len(acc.unresolved) : \E a \in 1..k :
          acc.unresolved[i] = tasks[a].finding /\ ~Grounded(claims, tasks[a])
    /\ \A a \in 1..k : Grounded(claims, tasks[a]) =>
          \E i \in 1..Len(acc.changes) : acc.changes[i].finding = tasks[a].finding
    /\ \A a \in 1..k : ~Grounded(claims, tasks[a]) =>
          \E i \in 1..Len(acc.unresolved) : acc.unresolved[i] = tasks[a].finding
    /\ \A i, j \in 1..Len(acc.changes), a, b \in 1..k :
          /\ i < j
          /\ acc.changes[i].finding = tasks[a].finding
          /\ acc.changes[j].finding = tasks[b].finding
          => a < b

\* How the changes of a section follow on one another.
Chained(original, p, acc) ==
    /\ \A i \in 1..Len(acc.changes) :
          /\ acc.changes[i].section \in 1..p
          /\ acc.changes[i].before
                = TextBefore(original, acc.changes, acc.changes[i].section, i)
          /\ acc.changes[i].finding \in acc.sections[acc.changes[i].section].findings
    /\ \A s \in 1..p :
          /\ acc.sections[s].content
                = TextBefore(original, acc.changes, s, Len(acc.changes) + 1)
          /\ (\A i \in 1..Len(acc.changes) : acc.changes[i].section # s)
                => acc.sections[s] = original[s]

\* A longer sequence.
LEMMA Longer ==
    ASSUME NEW V, NEW s \in Seq(V), NEW v \in V, NEW t, t = Append(s, v)
    PROVE  /\ t \in Seq(V) /\ Len(s) \in Nat /\ Len(t) = Len(s) + 1
           /\ DOMAIN s = 1..Len(s) /\ DOMAIN t = 1..(Len(s) + 1)
           /\ \A i \in 1..Len(s) : t[i] = s[i]
           /\ t[Len(s) + 1] = v
           /\ 1..(Len(s) + 1) = (1..Len(s)) \cup {Len(s) + 1}
  <1>1. t \in Seq(V) /\ Len(t) = Len(s) + 1
    BY AppendProperties
  <1>2. Len(s) \in Nat /\ DOMAIN s = 1..Len(s)
    OBVIOUS
  <1>3. (\A i \in 1..Len(s) : t[i] = s[i]) /\ t[Len(s) + 1] = v
    BY AppendProperties
  <1>4. DOMAIN t = 1..Len(t)
    BY <1>1
  <1>5. 1..(Len(s) + 1) = (1..Len(s)) \cup {Len(s) + 1}
    BY <1>2
  <1> QED
    BY <1>1, <1>2, <1>3, <1>4, <1>5

LEMMA ResolvedStep ==
    ASSUME NEW S, NEW p \in Nat \ {0}, NEW n \in Nat, NEW tasks, NEW claims,
           \A a, b \in 1..n : tasks[a].finding = tasks[b].finding => a = b,
           NEW k \in Nat, k + 1 <= n, tasks[k + 1].finding \in S,
           NEW acc \in Progress(S, p), NEW new, Resolved(tasks, claims, k, acc),
           Stepped(S, p, claims, acc, new, tasks[k + 1])
    PROVE  Resolved(tasks, claims, k + 1, new)
  <1> DEFINE C == acc.changes
             U == acc.unresolved
             D == new.changes
             W == new.unresolved
             l == Len(C)
             m == Len(U)
             f == tasks[k + 1].finding
  <1>1. C \in Seq(Changes(S, p)) /\ U \in Seq(S)
    BY DEF Progress
  <1>2. l \in Nat /\ m \in Nat /\ l + m = k
    <2>1. l \in Nat /\ m \in Nat
      BY <1>1
    <2>2. l + m = k
      BY DEF Resolved
    <2> QED
      BY <2>1, <2>2
  <1>3. /\ 1..(k + 1) = (1..k) \cup {k + 1} /\ k + 1 \in 1..n /\ 1..k \subseteq 1..n
        /\ \A a \in 1..k : a < k + 1
    OBVIOUS
  <1>4. \A a \in 1..k : tasks[a].finding # f
    BY <1>3
  <1>5. CASE Grounded(claims, tasks[k + 1])
    <2>1. PICK place \in 1..p, change \in Changes(S, p) :
             Changed(p, acc, new, tasks[k + 1], place, change)
      BY <1>5 DEF Stepped
    <2>2. D = Append(C, change) /\ W = U /\ change.finding = f
      BY <2>1 DEF Changed
    <2>3. /\ Len(D) = l + 1 /\ (\A i \in 1..l : D[i] = C[i]) /\ D[l + 1] = change
          /\ 1..(l + 1) = (1..l) \cup {l + 1}
      BY <1>1, <2>2, Longer
    <2> HIDE DEF C, U, D, W, l, m, f
    <2>4. Len(D) + Len(W) = k + 1
      <3>1. Len(W) = m
        BY <2>2 DEF m
      <3> QED
        BY <1>2, <2>3, <3>1
    <2>5. \A i \in 1..(l + 1) : \E a \in 1..(k + 1) :
             D[i].finding = tasks[a].finding /\ Grounded(claims, tasks[a])
      <3>1. \A i \in 1..l : \E a \in 1..k :
               C[i].finding = tasks[a].finding /\ Grounded(claims, tasks[a])
        BY DEF Resolved, C, l
      <3>2. D[l + 1].finding = tasks[k + 1].finding
        BY <2>2, <2>3 DEF f
      <3> QED
        BY <1>3, <1>5, <2>3, <3>1, <3>2
    <2>6. \A i \in 1..m : \E a \in 1..(k + 1) :
             W[i] = tasks[a].finding /\ ~Grounded(claims, tasks[a])
      <3>1. \A i \in 1..m : \E a \in 1..k :
               U[i] = tasks[a].finding /\ ~Grounded(claims, tasks[a])
        BY DEF Resolved, U, m
      <3> QED
        BY <1>3, <2>2, <3>1
    <2>7. \A a \in 1..(k + 1) : Grounded(claims, tasks[a]) =>
             \E i \in 1..(l + 1) : D[i].finding = tasks[a].finding
      <3>1. \A a \in 1..k : Grounded(claims, tasks[a]) =>
               \E i \in 1..l : C[i].finding = tasks[a].finding
        BY DEF Resolved, C, l
      <3>2. D[l + 1].finding = tasks[k + 1].finding
        BY <2>2, <2>3 DEF f
      <3> QED
        BY <1>3, <2>3, <3>1, <3>2
    <2>8. \A a \in 1..(k + 1) : ~Grounded(claims, tasks[a]) =>
             \E i \in 1..m : W[i] = tasks[a].finding
      <3>1. \A a \in 1..k : ~Grounded(claims, tasks[a]) =>
               \E i \in 1..m : U[i] = tasks[a].finding
        BY DEF Resolved, U, m
      <3> QED
        BY <1>3, <1>5, <2>2, <3>1
    <2>9. ASSUME NEW i \in 1..(l + 1), NEW j \in 1..(l + 1), NEW a \in 1..(k + 1),
                 NEW b \in 1..(k + 1), i < j, D[i].finding = tasks[a].finding,
                 D[j].finding = tasks[b].finding
          PROVE  a < b
      <3>1. i \in 1..l /\ D[i] = C[i]
        BY <1>2, <2>3, <2>9
      <3>2. PICK x \in 1..k : C[i].finding = tasks[x].finding
        BY <3>1 DEF Resolved, C, l
      <3>3. a = x
        BY <1>3, <2>9, <3>1, <3>2
      <3>4. CASE j = l + 1
        <4>1. b = k + 1
          BY <1>3, <1>4, <2>2, <2>3, <2>9, <3>4 DEF f
        <4> QED
          BY <1>3, <3>3, <4>1
      <3>5. CASE j # l + 1
        <4>1. j \in 1..l /\ D[j] = C[j]
          BY <2>3, <3>5
        <4>2. PICK y \in 1..k : C[j].finding = tasks[y].finding
          BY <4>1 DEF Resolved, C, l
        <4>3. b = y
          BY <1>3, <2>9, <4>1, <4>2
        <4>4. x < y
          BY <2>9, <3>1, <3>2, <4>1, <4>2 DEF Resolved, C, l
        <4> QED
          BY <3>3, <4>3, <4>4
      <3> QED
        BY <3>4, <3>5
    <2>10. Len(D) = l + 1 /\ Len(W) = m
      BY <2>2, <2>3 DEF m
    <2> QED
      BY <2>4, <2>5, <2>6, <2>7, <2>8, <2>9, <2>10 DEF Resolved, D, W
  <1>6. CASE ~Grounded(claims, tasks[k + 1])
    <2>1. D = C /\ W = Append(U, f)
      BY <1>6 DEF Left, Stepped
    <2>2. f \in S
      OBVIOUS
    <2>3. /\ Len(W) = m + 1 /\ (\A i \in 1..m : W[i] = U[i]) /\ W[m + 1] = f
          /\ 1..(m + 1) = (1..m) \cup {m + 1}
      <3> HIDE DEF f
      <3> QED
        BY <1>1, <2>1, <2>2, Longer
    <2> HIDE DEF C, U, D, W, l, m, f
    <2>4. Len(D) + Len(W) = k + 1
      <3>1. Len(D) = l
        BY <2>1 DEF l
      <3> QED
        BY <1>2, <2>3, <3>1
    <2>5. \A i \in 1..l : \E a \in 1..(k + 1) :
             D[i].finding = tasks[a].finding /\ Grounded(claims, tasks[a])
      <3>1. \A i \in 1..l : \E a \in 1..k :
               C[i].finding = tasks[a].finding /\ Grounded(claims, tasks[a])
        BY DEF Resolved, C, l
      <3> QED
        BY <1>3, <2>1, <3>1
    <2>6. \A i \in 1..(m + 1) : \E a \in 1..(k + 1) :
             W[i] = tasks[a].finding /\ ~Grounded(claims, tasks[a])
      <3>1. \A i \in 1..m : \E a \in 1..k :
               U[i] = tasks[a].finding /\ ~Grounded(claims, tasks[a])
        BY DEF Resolved, U, m
      <3>2. W[m + 1] = tasks[k + 1].finding
        BY <2>3 DEF f
      <3> QED
        BY <1>3, <1>6, <2>3, <3>1, <3>2
    <2>7. \A a \in 1..(k + 1) : Grounded(claims, tasks[a]) =>
             \E i \in 1..l : D[i].finding = tasks[a].finding
      <3>1. \A a \in 1..k : Grounded(claims, tasks[a]) =>
               \E i \in 1..l : C[i].finding = tasks[a].finding
        BY DEF Resolved, C, l
      <3> QED
        BY <1>3, <1>6, <2>1, <3>1
    <2>8. \A a \in 1..(k + 1) : ~Grounded(claims, tasks[a]) =>
             \E i \in 1..(m + 1) : W[i] = tasks[a].finding
      <3>1. \A a \in 1..k : ~Grounded(claims, tasks[a]) =>
               \E i \in 1..m : U[i] = tasks[a].finding
        BY DEF Resolved, U, m
      <3>2. W[m + 1] = tasks[k + 1].finding
        BY <2>3 DEF f
      <3> QED
        BY <1>3, <2>3, <3>1, <3>2
    <2>9. ASSUME NEW i \in 1..l, NEW j \in 1..l, NEW a \in 1..(k + 1),
                 NEW b \in 1..(k + 1), i < j, D[i].finding = tasks[a].finding,
                 D[j].finding = tasks[b].finding
          PROVE  a < b
      <3>1. PICK x \in 1..k : C[i].finding = tasks[x].finding
        BY DEF Resolved, C, l
      <3>2. PICK y \in 1..k : C[j].finding = tasks[y].finding
        BY DEF Resolved, C, l
      <3>3. a = x /\ b = y
        BY <1>3, <2>1, <2>9, <3>1, <3>2
      <3>4. x < y
        BY <2>9, <3>1, <3>2 DEF Resolved, C, l
      <3> QED
        BY <3>3, <3>4
    <2>10. Len(D) = l /\ Len(W) = m + 1
      BY <2>1, <2>3 DEF l
    <2> QED
      BY <2>4, <2>5, <2>6, <2>7, <2>8, <2>9, <2>10 DEF Resolved, D, W
  <1> QED
    BY <1>5, <1>6

LEMMA ChainedStep ==
    ASSUME NEW S, NEW p \in Nat \ {0}, NEW original, NEW claims, NEW task,
           NEW acc \in Progress(S, p), NEW new, Chained(original, p, acc),
           Stepped(S, p, claims, acc, new, task)
    PROVE  Chained(original, p, new)
  <1> DEFINE C == acc.changes
             D == new.changes
             l == Len(C)
  <1>1. C \in Seq(Changes(S, p))
    BY DEF Progress
  <1>2. l \in Nat
    BY <1>1
  <1>3. CASE Left(acc, new, task)
    BY <1>3 DEF Left, Chained
  <1>4. CASE \E place \in 1..p, change \in Changes(S, p) :
                Changed(p, acc, new, task, place, change)
    <2>1. PICK place \in 1..p, change \in Changes(S, p) :
             Changed(p, acc, new, task, place, change)
      BY <1>4
    <2>2. /\ D = Append(C, change) /\ change.section = place
          /\ change.finding = task.finding
          /\ change.before = acc.sections[place].content
          /\ change.after = new.sections[place].content
          /\ new.sections[place].findings = acc.sections[place].findings \cup {task.finding}
          /\ \A s \in (1..p) \ {place} : new.sections[s] = acc.sections[s]
      BY <2>1 DEF Changed
    <2>3. /\ Len(D) = l + 1 /\ (\A i \in 1..l : D[i] = C[i]) /\ D[l + 1] = change
          /\ 1..(l + 1) = (1..l) \cup {l + 1} /\ l + 1 \in 1..(l + 1)
          /\ 1..l \subseteq 1..(l + 1)
      BY <1>1, <1>2, <2>2, Longer
    <2>4. \A s \in 1..p, i \in 1..(l + 1) :
             TextBefore(original, D, s, i) = TextBefore(original, C, s, i)
      BY <1>1, <2>2, TextKept
    <2>5. \A s \in 1..p : TextBefore(original, D, s, l + 2)
             = IF change.section = s THEN change.after ELSE TextBefore(original, C, s, l + 1)
      BY <1>1, <2>2, TextAdded
    <2> HIDE DEF C, D, l
    <2>6. /\ \A i \in 1..l : /\ C[i].section \in 1..p
                             /\ C[i].before = TextBefore(original, C, C[i].section, i)
                             /\ C[i].finding \in acc.sections[C[i].section].findings
          /\ \A s \in 1..p :
                /\ acc.sections[s].content = TextBefore(original, C, s, l + 1)
                /\ (\A i \in 1..l : C[i].section # s) => acc.sections[s] = original[s]
      BY DEF Chained, C, l
    <2>7. \A s \in 1..p : acc.sections[s].findings \subseteq new.sections[s].findings
      <3> SUFFICES ASSUME NEW s \in 1..p
                   PROVE  acc.sections[s].findings \subseteq new.sections[s].findings
        OBVIOUS
      <3>1. CASE s = place
        BY <2>2, <3>1
      <3>2. CASE s # place
        BY <2>2, <3>2
      <3> QED
        BY <3>1, <3>2
    <2>8. ASSUME NEW i \in 1..(l + 1)
          PROVE  /\ D[i].section \in 1..p
                 /\ D[i].before = TextBefore(original, D, D[i].section, i)
                 /\ D[i].finding \in new.sections[D[i].section].findings
      <3>1. CASE i = l + 1
        BY <2>2, <2>3, <2>4, <2>6, <3>1
      <3>2. CASE i # l + 1
        <4>1. i \in 1..l /\ D[i] = C[i]
          BY <2>3, <3>2
        <4> QED
          BY <2>4, <2>6, <2>7, <4>1
      <3> QED
        BY <3>1, <3>2
    <2>9. ASSUME NEW s \in 1..p
          PROVE  /\ new.sections[s].content = TextBefore(original, D, s, l + 2)
                 /\ (\A i \in 1..(l + 1) : D[i].section # s) => new.sections[s] = original[s]
      <3>1. CASE s = place
        BY <2>2, <2>3, <2>5, <3>1
      <3>2. CASE s # place
        <4>1. new.sections[s] = acc.sections[s]
          BY <2>2, <3>2
        <4>2. (\A i \in 1..(l + 1) : D[i].section # s) => \A i \in 1..l : C[i].section # s
          BY <2>3
        <4> QED
          BY <2>2, <2>5, <2>6, <3>2, <4>1, <4>2
      <3> QED
        BY <3>1, <3>2
    <2>10. Len(D) = l + 1 /\ Len(D) + 1 = l + 2
      BY <1>2, <2>3
    <2> QED
      BY <2>8, <2>9, <2>10 DEF Chained, D
  <1> QED
    BY <1>3, <1>4 DEF Stepped

\* What Improve gives for tasks with findings of their own.
LEMMA AllTasksDone ==
    ASSUME NEW S, NEW p \in Nat \ {0}, NEW original \in [1..p -> Sections(S)],
           NEW n \in Nat \ {0}, NEW tasks, DOMAIN tasks = 1..n,
           \A a \in 1..n : tasks[a].finding \in S,
           \A a, b \in 1..n : tasks[a].finding = tasks[b].finding => a = b,
           NEW m \in Nat, NEW claims, Len(claims) = m, DOMAIN claims = 1..m,
           \A i \in 1..m : claims[i].id \in S /\ claims[i].evidence \in SUBSET S
    PROVE  LET acc == Improve(original, tasks, claims)
           IN  /\ acc \in Progress(S, p)
               /\ Resolved(tasks, claims, n, acc) /\ Chained(original, p, acc)
  <1> DEFINE V == Progress(S, p)
             start == [outcome |-> "improved", sections |-> original, changes |-> <<>>,
                       unresolved |-> <<>>]
             Do(acc, t) == Apply(original, claims, acc, t)
             Step == [i \in 1..n |-> [acc \in V |-> Do(acc, tasks[i])]]
             Does(f) == f = [s \in SUBSET DOMAIN tasks |->
                               IF s = {} THEN start ELSE Do(f[s \ {Max(s)}], tasks[Max(s)])]
  <1>1. /\ start \in V /\ start.changes = <<>> /\ start.unresolved = <<>>
        /\ start.sections = original
    BY DEF Progress
  <1>2. ASSUME NEW i \in 1..n, NEW acc \in V
        PROVE  /\ Do(acc, tasks[i]) \in V
               /\ Stepped(S, p, claims, acc, Do(acc, tasks[i]), tasks[i])
    <2> DEFINE new == Do(acc, tasks[i])
               task == tasks[i]
    <2>1. task.finding \in S /\ new = Apply(original, claims, acc, task)
      OBVIOUS
    <2> HIDE DEF new, task
    <2>2. new \in V /\ Stepped(S, p, claims, acc, new, task)
      BY <2>1, ApplyStep
    <2> QED
      BY <2>2 DEF new, task
  <1>3. \E f : Does(f)
    <2> HIDE DEF V, start, Do
    <2>1. Step \in [1..n -> [V -> V]]
      BY <1>2
    <2>2. PICK f : TakesSteps(f, n, V, start, Step)
      <3> HIDE DEF Step
      <3> QED
        BY <1>1, <2>1, FoldExists
    <2>3. \A s \in SUBSET (1..n) : s # {} => Max(s) \in 1..n /\ f[s \ {Max(s)}] \in V
      <3> HIDE DEF Step
      <3> QED
        BY <2>2, Greatest DEF TakesSteps
    <2>4. \A s \in SUBSET (1..n) : s # {} =>
             Step[Max(s)][f[s \ {Max(s)}]] = Do(f[s \ {Max(s)}], tasks[Max(s)])
      BY <2>3
    <2> HIDE DEF Step
    <2>5. f = [s \in SUBSET (1..n) |->
                  IF s = {} THEN start ELSE Do(f[s \ {Max(s)}], tasks[Max(s)])]
      BY <2>2, <2>4, SMTT(30) DEF TakesSteps
    <2>6. Does(f)
      BY <2>5
    <2> HIDE DEF Does
    <2> QED
      BY <2>6
  <1>4. original # <<>> /\ tasks # <<>>
    OBVIOUS
  <1>5. PICK f : Does(f) /\ Improve(original, tasks, claims) = f[DOMAIN tasks]
    BY <1>3, <1>4 DEF Improve, FoldLeft, MapThenFoldSet
  <1> HIDE DEF V, start, Do
  <1>6. \A k \in 1..n : f[1..k] = Do(f[1..(k - 1)], tasks[k])
    BY <1>5, Prefix, ZenonT(30)
  <1>7. f[{}] = start
    BY <1>5
  <1> DEFINE Good(k, acc) == acc \in V /\ Resolved(tasks, claims, k, acc) /\ Chained(original, p, acc)
             P == {k \in Nat : k <= n => Good(k, f[1..k])}
  <1>8. 0 \in P
    <2>1. 1..0 = {} /\ f[1..0] = start
      BY <1>7
    <2>2. Len(start.changes) = 0 /\ Len(start.unresolved) = 0
      BY <1>1
    <2>3. Resolved(tasks, claims, 0, start)
      BY <2>1, <2>2 DEF Resolved
    <2>4. \A s \in 1..p : start.sections[s].content = TextBefore(original, start.changes, s, 1)
      <3>1. \A s : {j \in DOMAIN start.changes : j < 1 /\ start.changes[j].section = s} = {}
        BY <1>1
      <3> QED
        BY <1>1, <3>1 DEF TextBefore
    <2>5. Chained(original, p, start)
      BY <1>1, <2>1, <2>2, <2>4 DEF Chained
    <2> QED
      BY <1>1, <2>1, <2>3, <2>5
  <1>9. ASSUME NEW k \in Nat, k \in P PROVE k + 1 \in P
    <2> SUFFICES ASSUME k + 1 <= n PROVE Good(k + 1, f[1..(k + 1)])
      <3> HIDE DEF Good
      <3> QED
        OBVIOUS
    <2>1. k + 1 \in 1..n /\ (k + 1) - 1 = k /\ Good(k, f[1..k])
      <3> HIDE DEF Good
      <3> QED
        BY <1>9
    <2> DEFINE acc == f[1..k]
               new == f[1..(k + 1)]
    <2>2. new = Do(acc, tasks[k + 1])
      BY <1>6, <2>1
    <2>3. acc \in V /\ Resolved(tasks, claims, k, acc) /\ Chained(original, p, acc)
      BY <2>1
    <2> HIDE DEF acc, new
    <2>4. new \in V /\ Stepped(S, p, claims, acc, new, tasks[k + 1])
      BY <1>2, <2>1, <2>2, <2>3
    <2>5. Resolved(tasks, claims, k + 1, new)
      BY <2>1, <2>3, <2>4, ResolvedStep DEF V
    <2>6. Chained(original, p, new)
      BY <2>3, <2>4, ChainedStep DEF V
    <2> QED
      BY <2>4, <2>5, <2>6 DEF new
  <1>10. n \in P
    <2> HIDE DEF P
    <2> QED
      BY <1>8, <1>9, Induction
  <1>11. Improve(original, tasks, claims) = f[1..n]
    BY <1>5
  <1> QED
    BY <1>10, <1>11 DEF V

LEMMA ImprovementHolds ==
    ASSUME NEW S, NEW original \in Seq(Sections(S)), NEW n \in Nat, NEW given,
           Len(given) = n, DOMAIN given = 1..n, \A i \in 1..n : given[i].id \in S,
           NEW m \in Nat, NEW claims, Len(claims) = m, DOMAIN claims = 1..m,
           \A i \in 1..m : claims[i].id \in S /\ claims[i].evidence \in SUBSET S,
           request.given = given, request.original = original, request.claims = claims,
           answer = improveExistingPlan(given, original, claims)
    PROVE  ImprovementSound
  <1> DEFINE ids == [i \in DOMAIN given |-> given[i].id]
             raw == [i \in DOMAIN given |-> Task(given[i])]
             key == [i \in DOMAIN raw |-> IF raw[i].blocking THEN 1 ELSE 0]
             tasks == BlockingFirst(raw)
             p == Len(original)
             C == answer.changes
             U == answer.unresolved
             l == Len(C)
             u == Len(U)
             Id(i) == given[i].id
  <1> SUFFICES ASSUME answer.outcome = "improved" PROVE ImprovementSound
    BY DEF ImprovementSound, Answered
  <1>1. /\ given # <<>> /\ IsInjective(ids)
        /\ answer = Improve(original, tasks, claims)
    <2> DEFINE refused == given = <<>> \/ ~IsInjective(ids)
    <2>1. BuildImprovementPlan(given) = IF refused THEN [outcome |-> "invalid"]
                                        ELSE [outcome |-> "planned", tasks |-> tasks]
      BY DEF BuildImprovementPlan
    <2> HIDE DEF refused, tasks
    <2>2. CASE refused
      <3>1. BuildImprovementPlan(given) = [outcome |-> "invalid"]
        BY <2>1, <2>2
      <3>2. answer = [outcome |-> "invalid"]
        BY <3>1 DEF improveExistingPlan
      <3> QED
        BY <3>2
    <2>3. CASE ~refused
      <3>1. BuildImprovementPlan(given) = [outcome |-> "planned", tasks |-> tasks]
        BY <2>1, <2>3
      <3>2. answer = Improve(original, tasks, claims)
        BY <3>1 DEF improveExistingPlan
      <3> QED
        BY <2>3, <3>2 DEF refused
    <2> QED
      BY <2>2, <2>3
  <1>2. n \in Nat \ {0} /\ DOMAIN raw = 1..n /\ DOMAIN key = 1..n
    BY <1>1
  <1>3. \A i, j \in 1..n : Id(i) = Id(j) => i = j
    BY <1>1 DEF IsInjective
  <1>4. \A i \in 1..n : raw[i].finding = Id(i) /\ (raw[i].blocking <=> given[i].severity = "blocking")
    BY DEF Task
  <1>5. key \in [1..n -> Nat]
    BY <1>2
  <1>6. \A i \in 1..n : /\ key[i] = 1 \/ key[i] = 0
                        /\ key[i] = 1 <=> given[i].severity = "blocking"
    BY <1>2, <1>4
  <1> HIDE DEF key, raw
  <1>7. PICK q \in Bijection(1..n, 1..n) : Sorts(q, n, raw, key)
    BY <1>2, <1>5, SortPermutes
  <1>8. tasks = Sorted(raw, key)
    BY DEF BlockingFirst, key
  <1>9. /\ DOMAIN tasks = 1..n
        /\ \A k \in 1..n : q[k] \in 1..n /\ tasks[k] = raw[q[k]]
        /\ \A i, j \in 1..n : i < j => Ahead(key, q[i], q[j])
    <2> HIDE DEF tasks
    <2>1. q \in [1..n -> 1..n]
      BY <1>7 DEF Bijection, Injection
    <2>2. tasks = [k \in 1..n |-> raw[q[k]]]
      BY <1>7, <1>8 DEF Sorts
    <2>3. \A i, j \in 1..n : i < j => Ahead(key, q[i], q[j])
      BY <1>7 DEF Sorts
    <2> QED
      BY <2>1, <2>2, <2>3
  <1>10. /\ \A i, j \in 1..n : q[i] = q[j] => i = j
         /\ \A j \in 1..n : \E i \in 1..n : q[i] = j
    <2>1. IsInjective(q) /\ DOMAIN q = 1..n
      BY <1>7 DEF Bijection, Injection
    <2>2. \A j \in 1..n : \E i \in 1..n : q[i] = j
      BY <1>7 DEF Bijection, Surjection
    <2> QED
      BY <2>1, <2>2 DEF IsInjective
  <1> HIDE DEF tasks
  <1>11. \A k \in 1..n : tasks[k].finding = Id(q[k]) /\ tasks[k].finding \in S
    BY <1>4, <1>9
  <1>12. ASSUME NEW a \in 1..n, NEW b \in 1..n, tasks[a].finding = tasks[b].finding
         PROVE  a = b
    <2>1. q[a] \in 1..n /\ q[b] \in 1..n
      BY <1>9
    <2>2. Id(q[a]) = Id(q[b])
      BY <1>11, <1>12
    <2>3. q[a] = q[b]
      BY <1>3, <2>1, <2>2
    <2> QED
      BY <1>10, <2>3
  <1>13. p \in Nat \ {0} /\ original \in [1..p -> Sections(S)]
    <2>1. original # <<>>
      <3>1. tasks # <<>>
        BY <1>2, <1>9
      <3>2. original = <<>> => answer = [outcome |-> "invalid"]
        BY <1>1 DEF Improve
      <3> QED
        BY <3>2
    <2> QED
      BY <2>1
  <1>14. /\ answer \in Progress(S, p)
         /\ Resolved(tasks, claims, n, answer) /\ Chained(original, p, answer)
    <2> HIDE DEF p
    <2>1. LET acc == Improve(original, tasks, claims)
          IN  /\ acc \in Progress(S, p)
              /\ Resolved(tasks, claims, n, acc) /\ Chained(original, p, acc)
      BY <1>2, <1>9, <1>11, <1>12, <1>13, AllTasksDone, ZenonT(30)
    <2> QED
      BY <1>1, <2>1
  <1>15. DOMAIN C = 1..l /\ DOMAIN U = 1..u /\ l \in Nat /\ u \in Nat
    BY <1>14 DEF Progress
  <1> HIDE DEF C, U, l, u, p
  <1>16. l + u = Cardinality({f.id : f \in ToSet(given)})
    <2>1. ids \in Seq(S)
      BY <1>2
    <2>2. Len(ids) = n
      BY <1>2
    <2>3. ToSet(ids) = {f.id : f \in ToSet(given)}
      BY DEF ToSet
    <2> HIDE DEF ids
    <2>4. Cardinality(ToSet(ids)) = n
      BY <1>1, <2>1, <2>2, EntriesCounted
    <2>5. l + u = n
      BY <1>14 DEF Resolved, C, U, l, u
    <2> QED
      BY <2>3, <2>4, <2>5
  <1>17. \A f \in ToSet(given) : \E a \in 1..n : f = given[q[a]] /\ f.id = tasks[a].finding
    <2> SUFFICES ASSUME NEW f \in ToSet(given)
                 PROVE  \E a \in 1..n : f = given[q[a]] /\ f.id = tasks[a].finding
      OBVIOUS
    <2>1. PICK x \in 1..n : f = given[x]
      BY DEF ToSet
    <2>2. PICK a \in 1..n : q[a] = x
      BY <1>10
    <2> QED
      BY <1>11, <2>1, <2>2
  <1>18. ASSUME NEW a \in 1..n
         PROVE  Grounded(claims, tasks[a])
                    <=> \E c \in ToSet(claims) : /\ c.verified /\ c.evidence # {} /\ c.text
                                                 /\ tasks[a].finding \in c.findings
    BY DEF Grounded, Grounds
  <1>19. ASSUME NEW a \in 1..n
         PROVE  /\ Grounded(claims, tasks[a])
                       <=> \E i \in 1..l : C[i].finding = tasks[a].finding
                /\ ~Grounded(claims, tasks[a])
                       <=> \E i \in 1..u : U[i] = tasks[a].finding
    <2>1. /\ \A i \in 1..l : \E b \in 1..n :
                C[i].finding = tasks[b].finding /\ Grounded(claims, tasks[b])
          /\ \A i \in 1..u : \E b \in 1..n :
                U[i] = tasks[b].finding /\ ~Grounded(claims, tasks[b])
          /\ Grounded(claims, tasks[a]) => \E i \in 1..l : C[i].finding = tasks[a].finding
          /\ ~Grounded(claims, tasks[a]) => \E i \in 1..u : U[i] = tasks[a].finding
      BY <1>14 DEF Resolved, C, U, l, u
    <2>2. (\E i \in 1..l : C[i].finding = tasks[a].finding) => Grounded(claims, tasks[a])
      BY <1>12, <2>1
    <2>3. (\E i \in 1..u : U[i] = tasks[a].finding) => ~Grounded(claims, tasks[a])
      BY <1>12, <2>1
    <2> QED
      BY <2>1, <2>2, <2>3
  <1> DEFINE severe(id) == \E f \in ToSet(given) : f.id = id /\ f.severity = "blocking"
  <1>20. ASSUME NEW id \in {f.id : f \in ToSet(given)}
         PROVE  /\ (\E c \in ToSet(claims) :
                      c.verified /\ c.evidence # {} /\ c.text /\ id \in c.findings)
                     <=> \E i \in DOMAIN C : C[i].finding = id
                /\ id \in ToSet(U) <=> \A i \in DOMAIN C : C[i].finding # id
    <2>1. PICK a \in 1..n : id = tasks[a].finding
      BY <1>17
    <2>2. id \in ToSet(U) <=> \E i \in 1..u : U[i] = tasks[a].finding
      BY <1>15, <2>1 DEF ToSet
    <2> QED
      BY <1>15, <1>18, <1>19, <2>1, <2>2
  <1>21. ASSUME NEW a \in 1..n
         PROVE  severe(tasks[a].finding) <=> key[q[a]] = 1
    <2>1. given[q[a]] \in ToSet(given) /\ given[q[a]].id = tasks[a].finding
      BY <1>9, <1>11 DEF ToSet
    <2>2. \A f \in ToSet(given) : f.id = tasks[a].finding => f = given[q[a]]
      BY <1>12, <1>17
    <2> QED
      BY <1>6, <1>9, <2>1, <2>2
  <1>22. ASSUME NEW i \in 1..l, NEW j \in 1..l, i < j, severe(C[j].finding)
         PROVE  severe(C[i].finding)
    <2>1. PICK a \in 1..n : C[i].finding = tasks[a].finding
      BY <1>14 DEF Resolved, C, l
    <2>2. PICK b \in 1..n : C[j].finding = tasks[b].finding
      BY <1>14 DEF Resolved, C, l
    <2>3. a < b
      BY <1>14, <1>22, <2>1, <2>2 DEF Resolved, C, l
    <2>4. severe(tasks[b].finding)
      BY <1>22, <2>2
    <2> HIDE DEF severe
    <2>5. key[q[b]] = 1
      BY <1>21, <2>4
    <2>6. Ahead(key, q[a], q[b])
      BY <1>9, <2>3
    <2>7. key[q[a]] = 1
      BY <1>6, <1>9, <2>5, <2>6 DEF Ahead
    <2> QED
      BY <1>21, <2>1, <2>7
  <1>23. /\ \A i \in DOMAIN C :
               /\ C[i].before = TextBefore(original, C, C[i].section, i)
               /\ C[i].finding \in answer.sections[C[i].section].findings
         /\ \A s \in DOMAIN original :
               /\ answer.sections[s].content = TextBefore(original, C, s, l + 1)
               /\ (\A i \in DOMAIN C : C[i].section # s) => answer.sections[s] = original[s]
    <2>1. DOMAIN original = 1..p
      BY <1>13
    <2>2. /\ \A i \in 1..l : /\ C[i].before = TextBefore(original, C, C[i].section, i)
                            /\ C[i].finding \in answer.sections[C[i].section].findings
          /\ \A s \in 1..p :
                /\ answer.sections[s].content = TextBefore(original, C, s, l + 1)
                /\ (\A i \in 1..l : C[i].section # s) => answer.sections[s] = original[s]
      <3>1. Chained(original, p, answer)
        BY <1>14
      <3>2. \A i \in 1..l : /\ C[i].before = TextBefore(original, C, C[i].section, i)
                            /\ C[i].finding \in answer.sections[C[i].section].findings
        BY <3>1 DEF Chained, C, l
      <3>3. \A s \in 1..p :
                /\ answer.sections[s].content = TextBefore(original, C, s, l + 1)
                /\ (\A i \in 1..l : C[i].section # s) => answer.sections[s] = original[s]
        BY <3>1 DEF Chained, C, l
      <3> QED
        BY <3>2, <3>3
    <2> QED
      BY <1>15, <2>1, <2>2, Zenon
  <1>24. Improved(given, original, claims, answer)
    <2> DEFINE shown == {f.id : f \in ToSet(given)}
    <2>1. \A i, j \in DOMAIN C : i < j /\ severe(C[j].finding) => severe(C[i].finding)
      BY <1>15, <1>22
    <2>2. \A id \in shown :
             /\ (\E c \in ToSet(claims) :
                    c.verified /\ c.evidence # {} /\ c.text /\ id \in c.findings)
                   <=> \E i \in DOMAIN C : C[i].finding = id
             /\ id \in ToSet(U) <=> \A i \in DOMAIN C : C[i].finding # id
      BY <1>20
    <2>3. Len(C) + Len(U) = Cardinality(shown)
      BY <1>16 DEF l, u
    <2>4. \A i \in DOMAIN C :
             /\ C[i].before = TextBefore(original, C, C[i].section, i)
             /\ C[i].finding \in answer.sections[C[i].section].findings
      BY <1>23
    <2>5. \A s \in DOMAIN original :
             /\ answer.sections[s].content = TextBefore(original, C, s, Len(C) + 1)
             /\ (\A i \in DOMAIN C : C[i].section # s) => answer.sections[s] = original[s]
      BY <1>23 DEF l
    <2> QED
      BY <2>1, <2>2, <2>3, <2>4, <2>5, Zenon DEF Improved, C, U
  <1> QED
    BY <1>24 DEF ImprovementSound

-----------------------------------------------------------------------------
(* The comparison of two versions: which earlier item each later one       *)
(* continues, and that no two continue the same.                           *)

\* What is kept of a sequence.
LEMMA AmongEntries ==
    ASSUME NEW S, NEW s \in Seq(S), NEW T
    PROVE  /\ Among(s, T) \in Seq(S) /\ ToSet(Among(s, T)) = ToSet(s) \cap T
           /\ IsInjective(s) => IsInjective(Among(s, T))
  <1> DEFINE n == Len(s)
             V == Seq(S)
             Take(out, x) == IF x \in T THEN Append(out, x) ELSE out
             Step == [i \in 1..n |-> [out \in V |-> Take(out, s[i])]]
             Takes(f) == f = [t \in SUBSET DOMAIN s |->
                                IF t = {} THEN <<>> ELSE Take(f[t \ {Max(t)}], s[Max(t)])]
  <1>1. n \in Nat /\ DOMAIN s = 1..n /\ <<>> \in V /\ \A i \in 1..n : s[i] \in S
    OBVIOUS
  <1>2. \A i \in 1..n, out \in V : Take(out, s[i]) \in V
    BY <1>1
  <1>3. \E f : Takes(f)
    <2>1. Step \in [1..n -> [V -> V]]
      BY <1>2
    <2>2. PICK f : TakesSteps(f, n, V, <<>>, Step)
      <3> HIDE DEF Step, n, V
      <3> QED
        BY <1>1, <2>1, FoldExists
    <2>3. \A t \in SUBSET (1..n) : t # {} => Max(t) \in 1..n /\ f[t \ {Max(t)}] \in V
      BY <1>1, <2>2, Greatest DEF TakesSteps
    <2> HIDE DEF V, Take
    <2>4. \A t \in SUBSET (1..n) : t # {} =>
             Step[Max(t)][f[t \ {Max(t)}]] = Take(f[t \ {Max(t)}], s[Max(t)])
      BY <2>3
    <2> HIDE DEF Step
    <2>5. f = [t \in SUBSET (1..n) |->
                  IF t = {} THEN <<>> ELSE Take(f[t \ {Max(t)}], s[Max(t)])]
      BY <2>2, <2>4 DEF TakesSteps
    <2>6. Takes(f)
      BY <1>1, <2>5
    <2> HIDE DEF Takes
    <2> QED
      BY <2>6
  <1>4. PICK f : Takes(f) /\ Among(s, T) = f[DOMAIN s]
    BY <1>3 DEF Among, FoldLeft, MapThenFoldSet
  <1> HIDE DEF Take
  <1>5. \A k \in 1..n : f[1..k] = Take(f[1..(k - 1)], s[k])
    BY <1>1, <1>4, Prefix
  <1>6. f[{}] = <<>>
    BY <1>4
  <1> DEFINE Upto(k) == {s[i] : i \in 1..k} \cap T
             Good(k, out) == /\ out \in V /\ ToSet(out) = Upto(k)
                             /\ IsInjective(s) => IsInjective(out)
             P == {k \in Nat : k <= n => Good(k, f[1..k])}
  <1>7. 0 \in P
    <2>1. 1..0 = {}
      OBVIOUS
    <2>2. IsInjective(<<>>) /\ ToSet(<<>>) = {} /\ Upto(0) = {}
      BY DEF IsInjective, ToSet
    <2> QED
      BY <1>1, <1>6, <2>1, <2>2
  <1>8. ASSUME NEW k \in Nat, k \in P PROVE k + 1 \in P
    <2> SUFFICES ASSUME k + 1 <= n PROVE Good(k + 1, f[1..(k + 1)])
      <3> HIDE DEF Good
      <3> QED
        OBVIOUS
    <2> DEFINE out == f[1..k]
               new == f[1..(k + 1)]
               x == s[k + 1]
    <2>1. k + 1 \in 1..n /\ (k + 1) - 1 = k /\ Good(k, out)
      <3> HIDE DEF Good
      <3> QED
        BY <1>8
    <2>2. new = Take(out, x)
      BY <1>5, <2>1
    <2>3. Upto(k + 1) = Upto(k) \cup ({x} \cap T)
      <3>1. 1..(k + 1) = (1..k) \cup {k + 1}
        OBVIOUS
      <3> HIDE DEF x
      <3> QED
        BY <3>1 DEF x
    <2>4. x \in S
      BY <1>1, <2>1
    <2>5. IsInjective(s) => x \notin Upto(k)
      <3>1. k + 1 \in DOMAIN s /\ \A i \in 1..k : i \in DOMAIN s /\ i # k + 1
        BY <1>1, <2>1
      <3> QED
        BY <3>1 DEF IsInjective
    <2> HIDE DEF out, new, x, Upto
    <2>6. CASE x \notin T
      BY <2>1, <2>2, <2>3, <2>6 DEF Take, new
    <2>7. CASE x \in T
      <3>1. new = Append(out, x)
        BY <2>2, <2>7 DEF Take
      <3>2. out \in Seq(S) /\ ToSet(out) = Upto(k) /\ (IsInjective(s) => IsInjective(out))
        BY <2>1
      <3>3. /\ new \in Seq(S) /\ Len(new) = Len(out) + 1 /\ Len(out) \in Nat
            /\ \A i \in 1..Len(out) : new[i] = out[i]
            /\ new[Len(out) + 1] = x
            /\ DOMAIN new = 1..(Len(out) + 1) /\ DOMAIN out = 1..Len(out)
        BY <2>4, <3>1, <3>2
      <3>4. ASSUME IsInjective(s) PROVE IsInjective(new)
        <4>1. \A i \in 1..Len(out) : out[i] # x
          BY <2>5, <3>2, <3>3, <3>4 DEF ToSet
        <4> QED
          BY <3>2, <3>3, <3>4, <4>1 DEF IsInjective
      <3>5. ToSet(new) = ToSet(out) \cup {x}
        <4>1. 1..(Len(out) + 1) = (1..Len(out)) \cup {Len(out) + 1}
          BY <3>3
        <4> QED
          BY <3>3, <4>1 DEF ToSet
      <3> QED
        BY <2>3, <2>7, <3>2, <3>3, <3>4, <3>5 DEF new
    <2> QED
      BY <2>6, <2>7
  <1>9. n \in P
    <2> HIDE DEF P
    <2> QED
      BY <1>1, <1>7, <1>8, Induction
  <1>10. Among(s, T) = f[1..n]
    BY <1>1, <1>4
  <1>11. Upto(n) = ToSet(s) \cap T
    BY <1>1 DEF ToSet
  <1> HIDE DEF Upto
  <1> QED
    BY <1>1, <1>9, <1>10, <1>11

\* The share of common words: all of them exactly if the words are the same.
LEMMA SimilarityShare ==
    ASSUME NEW W, NEW a, NEW b, a.words \in Seq(W), b.words \in Seq(W),
           NEW s, s = similarity(a, b)
    PROVE  /\ s \in [of : Nat, all : Nat \ {0}] /\ s.of <= s.all
           /\ s.of = s.all <=> ToSet(a.words) = ToSet(b.words)
  <1> DEFINE A == ToSet(a.words)
             B == ToSet(b.words)
  <1>1. IsFiniteSet(A) /\ IsFiniteSet(B)
    <2>1. DOMAIN a.words = 1..Len(a.words) /\ DOMAIN b.words = 1..Len(b.words)
      OBVIOUS
    <2>2. IsFiniteSet(1..Len(a.words)) /\ IsFiniteSet(1..Len(b.words))
      BY FS_Interval
    <2> QED
      BY <2>1, <2>2, FiniteImage DEF ToSet
  <1> HIDE DEF A, B
  <1>2. IsFiniteSet(A \cup B) /\ Cardinality(A \cup B) \in Nat
    BY <1>1, FS_Union, FS_CardinalityType
  <1>3. /\ IsFiniteSet(A \cap B) /\ Cardinality(A \cap B) \in Nat
        /\ Cardinality(A \cap B) <= Cardinality(A \cup B)
        /\ Cardinality(A \cup B) = Cardinality(A \cap B) => A \cup B = A \cap B
    <2>1. A \cap B \in SUBSET (A \cup B)
      OBVIOUS
    <2> QED
      BY <1>2, <2>1, FS_Subset, FS_CardinalityType
  <1>4. similarity(a, b) = IF A \cup B = {} THEN [of |-> 1, all |-> 1]
                           ELSE [of |-> Cardinality(A \cap B), all |-> Cardinality(A \cup B)]
    BY DEF similarity, Share, A, B
  <1>5. CASE A \cup B = {}
    BY <1>4, <1>5 DEF A, B
  <1>6. CASE A \cup B # {}
    <2>1. Cardinality(A \cup B) # 0
      BY <1>2, <1>6, FS_EmptySet
    <2>2. Cardinality(A \cap B) = Cardinality(A \cup B) <=> A = B
      BY <1>3
    <2>3. similarity(a, b) = [of |-> Cardinality(A \cap B), all |-> Cardinality(A \cup B)]
      BY <1>4, <1>6
    <2> QED
      BY <1>2, <1>3, <2>1, <2>2, <2>3 DEF A, B
  <1> QED
    BY <1>5, <1>6

SameWords(x, y) == ToSet(x.content.words) = ToSet(y.content.words)

\* Items have texts of words, and are not what stands for no item.
Worded(S, W) == NoItem \notin S /\ \A x \in S : x.content.words \in Seq(W)

\* The closest item, if there is one: it is free, and if a free one has the
\* same words, so has the closest.
LEMMA ClosestFound ==
    ASSUME NEW W, NEW S, Worded(S, W), NEW items \in Seq(S), NEW item \in S, NEW used
    PROVE  LET best == closest(item, items, used)
               free(c) == c.id \notin used /\ c.kind = item.kind
           IN  /\ best = NoItem \/ (best \in ToSet(items) /\ free(best))
               /\ (\E c \in ToSet(items) : free(c) /\ SameWords(c, item))
                     => best # NoItem /\ SameWords(best, item)
  <1> DEFINE n == Len(items)
             free(c) == c.id \notin used /\ c.kind = item.kind
             sim(c) == similarity(c.content, item.content)
             V == [item : S \cup {NoItem}, score : [of : Nat, all : Nat \ {0}]]
             start == [item |-> NoItem, score |-> [of |-> 0, all |-> 1]]
             Better(b, c) == IF free(c) /\ More(sim(c), b.score)
                             THEN [item |-> c, score |-> sim(c)] ELSE b
             Step == [i \in 1..n |-> [b \in V |-> Better(b, items[i])]]
             Steps(f) == f = [s \in SUBSET DOMAIN items |->
                                IF s = {} THEN start ELSE Better(f[s \ {Max(s)}], items[Max(s)])]
  <1>1. /\ n \in Nat /\ DOMAIN items = 1..n /\ start \in V /\ \A i \in 1..n : items[i] \in S
        /\ NoItem \notin S
    BY DEF Worded
  <1>2. ASSUME NEW c \in S
        PROVE  /\ sim(c) \in [of : Nat, all : Nat \ {0}] /\ sim(c).of <= sim(c).all
               /\ sim(c).of = sim(c).all <=> SameWords(c, item)
    <2>1. c.content.words \in Seq(W) /\ item.content.words \in Seq(W)
      BY DEF Worded
    <2> DEFINE x == c.content
               y == item.content
    <2> HIDE DEF x, y
    <2>2. /\ similarity(x, y) \in [of : Nat, all : Nat \ {0}]
          /\ similarity(x, y).of <= similarity(x, y).all
          /\ similarity(x, y).of = similarity(x, y).all <=> ToSet(x.words) = ToSet(y.words)
      <3>1. x.words \in Seq(W) /\ y.words \in Seq(W)
        BY <2>1 DEF x, y
      <3> QED
        BY <3>1, SimilarityShare, ZenonT(30)
    <2> QED
      BY <2>2 DEF SameWords, x, y
  <1> HIDE DEF sim
  <1>3. ASSUME NEW i \in 1..n, NEW b \in V PROVE Better(b, items[i]) \in V
    <2>1. items[i] \in S /\ sim(items[i]) \in [of : Nat, all : Nat \ {0}]
      BY <1>1, <1>2
    <2>2. [item |-> items[i], score |-> sim(items[i])] \in V
      BY <2>1
    <2> HIDE DEF V
    <2> QED
      BY <2>2
  <1>4. \E f : Steps(f)
    <2>1. Step \in [1..n -> [V -> V]]
      BY <1>3
    <2>2. PICK f : TakesSteps(f, n, V, start, Step)
      <3> HIDE DEF Step, n, V, start
      <3> QED
        BY <1>1, <2>1, FoldExists
    <2> HIDE DEF start
    <2>3. \A t \in SUBSET (1..n) : t # {} => Max(t) \in 1..n /\ f[t \ {Max(t)}] \in V
      BY <1>1, <2>2, Greatest DEF TakesSteps
    <2> HIDE DEF V, Better
    <2>4. \A t \in SUBSET (1..n) : t # {} =>
             Step[Max(t)][f[t \ {Max(t)}]] = Better(f[t \ {Max(t)}], items[Max(t)])
      BY <2>3
    <2> HIDE DEF Step
    <2>5. f = [t \in SUBSET (1..n) |->
                  IF t = {} THEN start ELSE Better(f[t \ {Max(t)}], items[Max(t)])]
      BY <2>2, <2>4 DEF TakesSteps
    <2>6. Steps(f)
      BY <1>1, <2>5
    <2> HIDE DEF Steps
    <2> QED
      BY <2>6
  <1> DEFINE result(b) == IF AtLeast(b.score, 45) THEN b.item ELSE NoItem
  <1>5. PICK f : Steps(f) /\ closest(item, items, used) = result(f[DOMAIN items])
    BY <1>4 DEF closest, FoldLeft, MapThenFoldSet, sim, Share
  <1> HIDE DEF Better, start
  <1>6. \A k \in 1..n : f[1..k] = Better(f[1..(k - 1)], items[k])
    BY <1>1, <1>5, Prefix
  <1>7. f[{}] = start
    BY <1>5
  <1> DEFINE Good(k, b) ==
                 /\ b \in V
                 /\ b = start \/ \E i \in 1..k : b = [item |-> items[i], score |-> sim(items[i])]
                                                 /\ free(items[i])
                 /\ (\E i \in 1..k : free(items[i]) /\ SameWords(items[i], item))
                       => b.score.of = b.score.all
             P == {k \in Nat : k <= n => Good(k, f[1..k])}
  <1>8. 0 \in P
    <2>1. 1..0 = {}
      OBVIOUS
    <2> QED
      BY <1>1, <1>7, <2>1
  <1>9. ASSUME NEW k \in Nat, k \in P PROVE k + 1 \in P
    <2> SUFFICES ASSUME k + 1 <= n PROVE Good(k + 1, f[1..(k + 1)])
      <3> HIDE DEF Good
      <3> QED
        OBVIOUS
    <2> DEFINE b == f[1..k]
               new == f[1..(k + 1)]
               c == items[k + 1]
    <2>1. k + 1 \in 1..n /\ (k + 1) - 1 = k /\ Good(k, b) /\ 1..(k + 1) = (1..k) \cup {k + 1}
      <3> HIDE DEF Good
      <3> QED
        BY <1>9
    <2>2. new = Better(b, c)
      BY <1>6, <2>1
    <2>3. /\ c \in S /\ sim(c) \in [of : Nat, all : Nat \ {0}] /\ sim(c).of <= sim(c).all
          /\ sim(c).of = sim(c).all <=> SameWords(c, item)
      BY <1>1, <1>2, <2>1
    <2>4. b \in V /\ b.score.of \in Nat /\ b.score.all \in Nat \ {0}
      BY <2>1
    <2>5. new \in V
      BY <1>3, <2>1, <2>2, <2>4
    <2> DEFINE p == sim(c).of
               q == sim(c).all
               u == b.score.of
               v == b.score.all
    <2>6. More(sim(c), b.score) <=> p * v > u * q
      BY DEF More
    <2>7. p \in Nat /\ q \in Nat \ {0} /\ p <= q /\ u \in Nat /\ v \in Nat \ {0}
      BY <2>3, <2>4
    <2> HIDE DEF p, q, u, v
    <2>8. u = v => ~(p * v > u * q)
      BY <2>7
    <2>9. u <= v
      <3>1. ASSUME NEW i \in 1..k PROVE sim(items[i]).of <= sim(items[i]).all
        BY <1>1, <1>2, <2>1
      <3>2. start.score.of <= start.score.all
        BY DEF start
      <3>3. CASE b = start
        BY <3>2, <3>3 DEF u, v
      <3>4. CASE b # start
        <4>1. PICK i \in 1..k : b = [item |-> items[i], score |-> sim(items[i])]
          BY <2>1, <3>4
        <4>2. b.score = sim(items[i])
          BY <4>1
        <4> QED
          BY <3>1, <4>2 DEF u, v
      <3> QED
        BY <3>3, <3>4
    <2>10. p = q /\ ~(p * v > u * q) => u = v
      BY <2>7, <2>9
    <2>11. CASE free(c) /\ p * v > u * q
      <3>1. new = [item |-> c, score |-> sim(c)]
        BY <2>2, <2>6, <2>11 DEF Better
      <3>2. u # v
        BY <2>8, <2>11
      <3>3. ASSUME NEW i \in 1..(k + 1), free(items[i]), SameWords(items[i], item)
            PROVE  new.score.of = new.score.all
        <4>1. i = k + 1
          BY <2>1, <3>2, <3>3 DEF u, v
        <4> QED
          BY <2>3, <3>1, <3>3, <4>1
      <3> HIDE DEF new, free
      <3> QED
        BY <2>1, <2>5, <2>11, <3>1, <3>3 DEF new
    <2>12. CASE ~(free(c) /\ p * v > u * q)
      <3>1. new = b
        BY <2>2, <2>6, <2>12 DEF Better
      <3>2. ASSUME NEW i \in 1..(k + 1), free(items[i]), SameWords(items[i], item)
            PROVE  b.score.of = b.score.all
        <4>1. CASE i \in 1..k
          BY <2>1, <3>2, <4>1
        <4>2. CASE i = k + 1
          BY <2>3, <2>10, <2>12, <3>2, <4>2 DEF p, q, u, v
        <4> QED
          BY <2>1, <4>1, <4>2
      <3>3. b = start \/ \E i \in 1..(k + 1) : b = [item |-> items[i], score |-> sim(items[i])]
                                                /\ free(items[i])
        BY <2>1
      <3> HIDE DEF new, b, free
      <3> QED
        BY <2>5, <3>1, <3>2, <3>3 DEF new
    <2> QED
      BY <2>11, <2>12
  <1>10. n \in P
    <2> HIDE DEF P
    <2> QED
      BY <1>1, <1>8, <1>9, Induction
  <1> DEFINE b == f[1..n]
             best == closest(item, items, used)
  <1>11. Good(n, b) /\ best = result(b)
    <2> HIDE DEF Good
    <2> QED
      BY <1>1, <1>5, <1>10
  <1> HIDE DEF b, best
  <1>12. best = NoItem \/ (best \in ToSet(items) /\ free(best))
    <2>1. start.item = NoItem
      BY DEF start
    <2>2. \A i \in 1..n : items[i] \in ToSet(items)
      BY <1>1 DEF ToSet
    <2> QED
      BY <1>11, <2>1, <2>2
  <1>13. ASSUME NEW c \in ToSet(items), free(c), SameWords(c, item)
         PROVE  best # NoItem /\ SameWords(best, item)
    <2>1. PICK i \in 1..n : c = items[i]
      BY <1>1 DEF ToSet
    <2>2. b.score.of = b.score.all
      BY <1>11, <1>13, <2>1
    <2>3. b # start
      BY <2>2 DEF start
    <2>4. PICK j \in 1..n : b = [item |-> items[j], score |-> sim(items[j])]
      BY <1>11, <2>3
    <2>5. sim(items[j]) \in [of : Nat, all : Nat \ {0}] /\ SameWords(items[j], item)
      BY <1>1, <1>2, <2>2, <2>4
    <2>6. AtLeast(b.score, 45)
      BY <2>2, <2>4, <2>5 DEF AtLeast
    <2>7. best = items[j]
      BY <1>11, <2>4, <2>6
    <2> QED
      BY <1>1, <2>5, <2>7
  <1> QED
    BY <1>12, <1>13 DEF best

\* Items have ids of their own.
OwnIds(items) == \A p, q \in ToSet(items) : p.id = q.id => p = q
Known(S, Ids) == \A x \in S : x.id \in Ids

\* The former item of a later one: of its own id, or else the closest.
LEMMA PriorFound ==
    ASSUME NEW W, NEW S, Worded(S, W),
           NEW previous \in Seq(S), NEW item \in S, NEW used,
           OwnIds(previous)
    PROVE  LET prior == Prior(item, previous, used)
           IN  /\ prior \in S \cup {NoItem}
               /\ prior # NoItem => prior \in ToSet(previous)
               /\ \A p \in ToSet(previous) : p.id = item.id => prior = p
               /\ (\A p \in ToSet(previous) : p.id # item.id)
                     => prior = closest(item, previous, used)
  <1> DEFINE n == Len(previous)
             I == {i \in 1..Len(previous) : previous[i].id = item.id}
             own == IF I # {} THEN Max(I) ELSE 0
             prior == Prior(item, previous, used)
             near == closest(item, previous, used)
  <1>1. n \in Nat /\ DOMAIN previous = 1..n /\ ToSet(previous) = {previous[i] : i \in 1..n}
        /\ ToSet(previous) \subseteq S
    BY DEF ToSet
  <1>2. prior = IF own > 0 THEN previous[own] ELSE near
    BY DEF Prior, SelectLastInSeq
  <1>3. near = NoItem \/ near \in ToSet(previous)
    BY ClosestFound
  <1> HIDE DEF near, prior
  <1>4. CASE I = {}
    <2>1. own = 0 /\ prior = near
      BY <1>2, <1>4
    <2>2. \A p \in ToSet(previous) : p.id # item.id
      BY <1>1, <1>4
    <2> QED
      BY <1>1, <1>3, <2>1, <2>2 DEF near, prior
  <1>5. CASE I # {}
    <2>1. I \in SUBSET (1..n)
      OBVIOUS
    <2>2. own = Max(I) /\ Max(I) \in I
      <3> HIDE DEF I, n
      <3> QED
        BY <1>1, <1>5, <2>1, Greatest
    <2>3. own > 0 /\ prior = previous[own] /\ previous[own].id = item.id
          /\ previous[own] \in ToSet(previous)
      <3>1. own \in 1..n /\ previous[own].id = item.id
        BY <2>2
      <3> HIDE DEF own
      <3> QED
        BY <1>1, <1>2, <3>1
    <2> HIDE DEF own, I
    <2>4. prior \in ToSet(previous) /\ prior.id = item.id
      BY <2>3
    <2>5. \A p \in ToSet(previous) : p.id = item.id => prior = p
      BY <2>4 DEF OwnIds
    <2> QED
      BY <1>1, <2>4, <2>5 DEF prior
  <1> QED
    BY <1>4, <1>5

\* The change of a later item, with its former one or none.
Made(prior, item, links) ==
    IF prior = NoItem THEN Change(item.id, item.kind, "added", NoItem, item, links)
    ELSE Change(prior.id, item.kind, classify(prior.content, item.content), prior, item, links)

Makes(S, links, Z) == \A p \in S \cup {NoItem}, c \in S : Made(p, c, links) \in Z

LEMMA MadeSides ==
    ASSUME NEW prior, NEW item, NEW links
    PROVE  /\ Made(prior, item, links).previous = prior
           /\ Made(prior, item, links).current = item
  BY DEF Made, Change

\* The ids of the former items of the changes before one.
Used(C, i) == {C[j].previous.id : j \in {k \in 1..(i - 1) : C[k].previous # NoItem}}

\* How far the later items have got theirs.
Paired(previous, current, links, k, acc) ==
    /\ Len(acc.changes) = k
    /\ \A i \in 1..k :
          acc.changes[i]
              = Made(Prior(current[i], previous, Used(acc.changes, i)), current[i], links)
    /\ acc.used = Used(acc.changes, k + 1)

LEMMA OnePaired ==
    ASSUME NEW W, NEW S, Worded(S, W),
           NEW previous \in Seq(S), NEW current, NEW links, NEW k \in Nat, current[k + 1] \in S,
           OwnIds(previous),
           NEW Z, Makes(S, links, Z),
           NEW Ids, Known(S, Ids),
           NEW acc \in [used : SUBSET Ids, changes : Seq(Z)],
           Paired(previous, current, links, k, acc),
           NEW new, new = CompareItem(previous, links, acc, current[k + 1])
    PROVE  new \in [used : SUBSET Ids, changes : Seq(Z)]
           /\ Paired(previous, current, links, k + 1, new)
  <1> DEFINE item == current[k + 1]
             prior == Prior(item, previous, acc.used)
             made == Made(prior, item, links)
             C == acc.changes
             D == new.changes
  <1>1. prior \in S \cup {NoItem}
    BY PriorFound
  <1> HIDE DEF prior
  <1>2. /\ new.used = acc.used \cup (IF prior = NoItem THEN {} ELSE {prior.id})
        /\ new.changes = Append(acc.changes, made)
        /\ new = [used |-> new.used, changes |-> new.changes]
    <2>1. CASE prior = NoItem
      <3>1. made = Change(item.id, item.kind, "added", NoItem, item, links)
        BY <2>1 DEF Made
      <3>2. new = [acc EXCEPT !.changes = Append(@, made)]
        BY <2>1, <3>1 DEF CompareItem, prior
      <3> HIDE DEF made
      <3>3. new.used = acc.used /\ new.changes = Append(acc.changes, made)
            /\ new = [used |-> acc.used, changes |-> Append(acc.changes, made)]
        BY <3>2
      <3> QED
        BY <2>1, <3>3
    <2>2. CASE prior # NoItem
      <3>1. made = Change(prior.id, item.kind, classify(prior.content, item.content),
                          prior, item, links)
        BY <2>2 DEF Made
      <3>2. new = [used |-> acc.used \cup {prior.id}, changes |-> Append(acc.changes, made)]
        BY <2>2, <3>1 DEF CompareItem, prior
      <3> HIDE DEF made
      <3> QED
        BY <2>2, <3>2
    <2> QED
      BY <2>1, <2>2
  <1>3. made \in Z /\ made.previous = prior
    <2>1. item \in S
      OBVIOUS
    <2> HIDE DEF item
    <2>2. made \in Z
      BY <1>1, <2>1 DEF Makes
    <2> QED
      BY <2>2, MadeSides
  <1> HIDE DEF made
  <1>4. /\ D \in Seq(Z) /\ Len(D) = k + 1
        /\ \A i \in 1..k : D[i] = C[i]
        /\ D[k + 1] = made
    <2>1. C \in Seq(Z) /\ Len(C) = k
      BY DEF Paired
    <2> HIDE DEF C, D
    <2> QED
      BY <1>2, <1>3, <2>1 DEF C, D
  <1>5. ASSUME NEW i \in 1..(k + 1) PROVE Used(D, i) = Used(C, i)
    <2>1. \A j \in 1..(i - 1) : j \in 1..k /\ D[j] = C[j]
      BY <1>4
    <2> HIDE DEF C, D
    <2> QED
      BY <2>1 DEF Used
  <1>6. acc.used = Used(C, k + 1)
    BY DEF Paired
  <1>7. \A i \in 1..(k + 1) :
           D[i] = Made(Prior(current[i], previous, Used(D, i)), current[i], links)
    <2>1. \A i \in 1..k :
             C[i] = Made(Prior(current[i], previous, Used(C, i)), current[i], links)
      BY DEF Paired
    <2>2. D[k + 1] = Made(Prior(current[k + 1], previous, Used(C, k + 1)), current[k + 1], links)
      BY <1>4, <1>6 DEF made, prior
    <2>3. \A i \in 1..(k + 1) : i \in 1..k \/ i = k + 1
      OBVIOUS
    <2> HIDE DEF C, D
    <2> QED
      BY <1>4, <1>5, <2>1, <2>2, <2>3
  <1>8. new.used = Used(D, k + 2)
    <2>1. 1..((k + 2) - 1) = (1..((k + 1) - 1)) \cup {k + 1}
      OBVIOUS
    <2>2. \A j \in 1..((k + 1) - 1) : D[j] = C[j]
      BY <1>4
    <2>3. D[k + 1].previous = prior
      BY <1>3, <1>4
    <2> HIDE DEF C, D
    <2>4. CASE prior = NoItem
      <3>1. {j \in 1..((k + 2) - 1) : D[j].previous # NoItem}
                = {j \in 1..((k + 1) - 1) : C[j].previous # NoItem}
        BY <2>1, <2>2, <2>3, <2>4
      <3>2. Used(D, k + 2) = Used(C, k + 1)
        BY <2>2, <3>1 DEF Used
      <3> QED
        BY <1>2, <1>6, <2>4, <3>2
    <2>5. CASE prior # NoItem
      <3>1. {j \in 1..((k + 2) - 1) : D[j].previous # NoItem}
                = {j \in 1..((k + 1) - 1) : C[j].previous # NoItem} \cup {k + 1}
        BY <2>1, <2>2, <2>3, <2>5
      <3>2. Used(D, k + 2) = Used(C, k + 1) \cup {prior.id}
        BY <2>2, <2>3, <3>1 DEF Used
      <3> QED
        BY <1>2, <1>6, <2>5, <3>2
    <2> QED
      BY <2>4, <2>5
  <1>9. new.used \in SUBSET Ids
    BY <1>1, <1>2 DEF Known
  <1>10. new \in [used : SUBSET Ids, changes : Seq(Z)]
    BY <1>2, <1>4, <1>9
  <1>11. Paired(previous, current, links, k + 1, new)
    <2>1. (k + 1) + 1 = k + 2
      OBVIOUS
    <2> QED
      BY <1>4, <1>7, <1>8, <2>1 DEF Paired
  <1> QED
    BY <1>10, <1>11

LEMMA AllPaired ==
    ASSUME NEW W, NEW S, Worded(S, W),
           NEW previous \in Seq(S), NEW current \in Seq(S), NEW links,
           OwnIds(previous),
           NEW Z, Makes(S, links, Z),
           NEW Ids, Known(S, Ids)
    PROVE  /\ CompareItems(previous, current, links).changes \in Seq(Z)
           /\ Paired(previous, current, links, Len(current),
                     CompareItems(previous, current, links))
  <1> DEFINE n == Len(current)
             V == [used : SUBSET Ids, changes : Seq(Z)]
             start == [used |-> {}, changes |-> <<>>]
             Join(a, item) == CompareItem(previous, links, a, item)
             acc == CompareItems(previous, current, links)
             Step == [i \in 1..n |-> [a \in V |-> Join(a, current[i])]]
             Steps(f) == f = [s \in SUBSET DOMAIN current |->
                                IF s = {} THEN start ELSE Join(f[s \ {Max(s)}], current[Max(s)])]
  <1>1. n \in Nat /\ DOMAIN current = 1..n /\ start \in V /\ \A i \in 1..n : current[i] \in S
    OBVIOUS
  <1>3. ASSUME NEW i \in 1..n, NEW a \in V PROVE Join(a, current[i]) \in V
    <2> DEFINE item == current[i]
               prior == Prior(item, previous, a.used)
               new == CompareItem(previous, links, a, item)
    <2>0. item \in S
      BY <1>1
    <2>1. prior \in S \cup {NoItem}
      <3> HIDE DEF item
      <3> QED
        BY <2>0, PriorFound
    <2>2. Made(prior, item, links) \in Z
      BY <2>0, <2>1 DEF Makes
    <2>3. a.changes \in Seq(Z) /\ a.used \in SUBSET Ids
      OBVIOUS
    <2> HIDE DEF prior
    <2>4. CASE prior = NoItem
      <3>1. new = [a EXCEPT !.changes = Append(@, Made(prior, item, links))]
        BY <2>4 DEF CompareItem, Made, prior
      <3> HIDE DEF new, item
      <3>2. new = [used |-> a.used, changes |-> Append(a.changes, Made(prior, item, links))]
        BY <3>1
      <3> QED
        BY <2>2, <2>3, <3>2 DEF new, item
    <2>5. CASE prior # NoItem
      <3>1. new = [used |-> a.used \cup {prior.id},
                   changes |-> Append(a.changes, Made(prior, item, links))]
        BY <2>5 DEF CompareItem, Made, prior
      <3>2. prior.id \in Ids
        BY <2>1, <2>5 DEF Known
      <3> HIDE DEF new, item
      <3> QED
        BY <2>2, <2>3, <3>1, <3>2 DEF new, item
    <2> QED
      BY <2>4, <2>5
  <1>4. \E f : Steps(f)
    <2>1. Step \in [1..n -> [V -> V]]
      <3> HIDE DEF V, Join
      <3> QED
        BY <1>3
    <2>2. PICK f : TakesSteps(f, n, V, start, Step)
      <3> HIDE DEF Step, n, V, start
      <3> QED
        BY <1>1, <2>1, FoldExists
    <2> HIDE DEF start
    <2>3. \A t \in SUBSET (1..n) : t # {} => Max(t) \in 1..n /\ f[t \ {Max(t)}] \in V
      <3> HIDE DEF V
      <3> QED
        BY <1>1, <2>2, Greatest DEF TakesSteps
    <2> HIDE DEF V, Join
    <2>4. \A t \in SUBSET (1..n) : t # {} =>
             Step[Max(t)][f[t \ {Max(t)}]] = Join(f[t \ {Max(t)}], current[Max(t)])
      BY <2>3
    <2> HIDE DEF Step
    <2>5. f = [t \in SUBSET (1..n) |->
                  IF t = {} THEN start ELSE Join(f[t \ {Max(t)}], current[Max(t)])]
      BY <2>2, <2>4 DEF TakesSteps
    <2>6. Steps(f)
      BY <1>1, <2>5
    <2> HIDE DEF Steps
    <2> QED
      BY <2>6
  <1>5. PICK f : Steps(f) /\ acc = f[DOMAIN current]
    BY <1>4 DEF CompareItems, FoldLeft, MapThenFoldSet
  <1> HIDE DEF start, acc
  <1>6. \A k \in 1..n : f[1..k] = Join(f[1..(k - 1)], current[k])
    <2> HIDE DEF Join
    <2> QED
      BY <1>1, <1>5, Prefix, ZenonT(30)
  <1>7. f[{}] = start
    BY <1>5
  <1> DEFINE Good(k, a) == a \in V /\ Paired(previous, current, links, k, a)
             P == {k \in Nat : k <= n => Good(k, f[1..k])}
  <1>8. 0 \in P
    <2>1. 1..0 = {} /\ 1..((0 + 1) - 1) = {}
      OBVIOUS
    <2>2. start.changes = <<>> /\ start.used = {} /\ Len(<<>>) = 0
      BY DEF start
    <2>3. Used(start.changes, 0 + 1) = {}
      BY <2>1 DEF Used
    <2>4. Paired(previous, current, links, 0, start)
      BY <2>1, <2>2, <2>3 DEF Paired
    <2> QED
      BY <1>1, <1>7, <2>1, <2>4
  <1>9. ASSUME NEW k \in Nat, k \in P PROVE k + 1 \in P
    <2> SUFFICES ASSUME k + 1 <= n PROVE Good(k + 1, f[1..(k + 1)])
      <3> HIDE DEF Good
      <3> QED
        OBVIOUS
    <2>1. k + 1 \in 1..n /\ (k + 1) - 1 = k /\ Good(k, f[1..k])
      <3> HIDE DEF Good
      <3> QED
        BY <1>9
    <2>2. f[1..(k + 1)] = CompareItem(previous, links, f[1..k], current[k + 1])
      BY <1>6, <2>1
    <2> DEFINE a == f[1..k]
               b == f[1..(k + 1)]
    <2>3. current[k + 1] \in S /\ a \in V /\ Paired(previous, current, links, k, a)
      BY <1>1, <2>1
    <2>4. b = CompareItem(previous, links, a, current[k + 1])
      BY <2>2
    <2> HIDE DEF a, b
    <2>5. b \in V /\ Paired(previous, current, links, k + 1, b)
      BY <2>3, <2>4, OnePaired
    <2> QED
      BY <2>5 DEF b
  <1>10. n \in P
    <2> HIDE DEF P
    <2> QED
      BY <1>1, <1>8, <1>9, Induction
  <1>11. Good(n, acc)
    <2> HIDE DEF Good
    <2> QED
      BY <1>1, <1>5, <1>10
  <1>12. acc.changes \in Seq(Z) /\ Paired(previous, current, links, n, acc)
    BY <1>11
  <1> QED
    BY <1>12 DEF acc

\* No two items of a version have one id.
Separate(items) == \A i, j \in DOMAIN items : items[i].id = items[j].id => i = j

\* The former item of a later one is of no kind an item before that one has.
NoneTaken(previous, current) ==
    \A i, j \in DOMAIN current, p \in ToSet(previous) :
        i < j /\ p.id = current[j].id => p.kind # current[i].kind

\* Every later item has its change, and no two the same former item.
Matched(previous, current, links, C) ==
    /\ Len(C) = Len(current)
    /\ \A i \in 1..Len(current) :
          /\ C[i] = Made(C[i].previous, current[i], links)
          /\ C[i].previous \in ToSet(previous) \cup {NoItem}
          /\ \A p \in ToSet(previous) : p.id = current[i].id => C[i].previous = p
          /\ \A j \in 1..Len(current) :
                C[i].previous = C[j].previous /\ C[i].previous # NoItem => i = j

LEMMA SeparateIds == ASSUME NEW items, Separate(items) PROVE OwnIds(items)
  BY DEF Separate, OwnIds, ToSet

\* Where the former item of a later one comes from.
LEMMA FormerFound ==
    ASSUME NEW W, NEW S, Worded(S, W),
           NEW previous \in Seq(S), NEW item \in S, NEW used, OwnIds(previous),
           NEW prior, prior = Prior(item, previous, used), prior # NoItem
    PROVE  /\ prior \in ToSet(previous)
           /\ prior.id = item.id \/ (prior.id \notin used /\ prior.kind = item.kind)
  <1>1. prior \in ToSet(previous)
    BY PriorFound
  <1>2. CASE \E p \in ToSet(previous) : p.id = item.id
    <2>1. PICK p \in ToSet(previous) : p.id = item.id
      BY <1>2
    <2>2. prior = p
      BY <2>1, PriorFound
    <2> QED
      BY <1>1, <2>1, <2>2
  <1>3. CASE \A p \in ToSet(previous) : p.id # item.id
    <2>1. prior = closest(item, previous, used)
      BY <1>3, PriorFound
    <2>2. prior.id \notin used /\ prior.kind = item.kind
      BY <2>1, ClosestFound
    <2> QED
      BY <1>1, <2>2
  <1> QED
    BY <1>2, <1>3

LEMMA FormersMatch ==
    ASSUME NEW W, NEW S, Worded(S, W),
           NEW previous \in Seq(S), NEW current \in Seq(S), NEW links, NEW acc,
           Separate(previous), Separate(current), NoneTaken(previous, current),
           Paired(previous, current, links, Len(current), acc)
    PROVE  Matched(previous, current, links, acc.changes)
  <1> DEFINE m == Len(current)
             C == acc.changes
             P(i) == Prior(current[i], previous, Used(C, i))
  <1>1. /\ m \in Nat /\ DOMAIN current = 1..m /\ \A i \in 1..m : current[i] \in S
        /\ OwnIds(previous)
    BY SeparateIds
  <1>2. Len(C) = m /\ \A i \in 1..m : C[i] = Made(P(i), current[i], links)
    BY DEF Paired
  <1> HIDE DEF C
  <1>3. \A i \in 1..m : C[i].previous = P(i)
    <2> HIDE DEF P
    <2> QED
      BY <1>2, MadeSides
  <1>4. ASSUME NEW i \in 1..m
        PROVE  /\ P(i) \in ToSet(previous) \cup {NoItem}
               /\ \A p \in ToSet(previous) : p.id = current[i].id => P(i) = p
    <2>1. current[i] \in S
      BY <1>1
    <2> DEFINE item == current[i]
               used == Used(C, i)
    <2> HIDE DEF item, used
    <2>2. LET prior == Prior(item, previous, used)
          IN  /\ prior # NoItem => prior \in ToSet(previous)
              /\ \A p \in ToSet(previous) : p.id = item.id => prior = p
      BY <1>1, <2>1, PriorFound DEF item
    <2> QED
      BY <2>2 DEF item, used
  <1>5. ASSUME NEW i \in 1..m, NEW j \in 1..m, i < j, P(i) = P(j), P(i) # NoItem PROVE FALSE
    <2>1. current[i] \in S /\ current[j] \in S
      BY <1>1
    <2>2. /\ P(i) \in ToSet(previous)
          /\ P(i).id = current[i].id \/ P(i).kind = current[i].kind
      BY <1>1, <1>5, <2>1, FormerFound
    <2>3. P(j).id = current[j].id \/ P(j).id \notin Used(C, j)
      BY <1>1, <1>5, <2>1, FormerFound
    <2>4. P(i).id \in Used(C, j)
      <3>1. i \in 1..(j - 1) /\ C[i].previous = P(i)
        BY <1>3, <1>5
      <3> HIDE DEF P
      <3> QED
        BY <1>5, <3>1 DEF Used
    <2> HIDE DEF P
    <2>5. P(i).id = current[j].id
      BY <1>5, <2>3, <2>4
    <2>6. P(i).kind # current[i].kind
      BY <1>1, <1>5, <2>2, <2>5 DEF NoneTaken
    <2>7. current[i].id = current[j].id
      BY <2>2, <2>5, <2>6
    <2> QED
      BY <1>1, <1>5, <2>7 DEF Separate
  <1> HIDE DEF P
  <1>6. \A i, j \in 1..m : C[i].previous = C[j].previous /\ C[i].previous # NoItem => i = j
    <2> SUFFICES ASSUME NEW i \in 1..m, NEW j \in 1..m, C[i].previous = C[j].previous,
                        C[i].previous # NoItem
                 PROVE  i = j
      OBVIOUS
    <2>1. P(i) = P(j) /\ P(i) # NoItem /\ P(j) # NoItem
      BY <1>3
    <2>2. ~(i < j) /\ ~(j < i)
      BY <1>5, <2>1
    <2> QED
      BY <2>2
  <1>7. \A i \in 1..m : /\ C[i] = Made(C[i].previous, current[i], links)
                        /\ C[i].previous \in ToSet(previous) \cup {NoItem}
                        /\ \A p \in ToSet(previous) : p.id = current[i].id => C[i].previous = p
    BY <1>2, <1>3, <1>4
  <1> QED
    BY <1>2, <1>6, <1>7 DEF Matched, C

\* The earlier items that nothing continues are removed, each once.
Gone(previous, current, C) ==
    {p \in ToSet(previous) : \A i \in 1..Len(current) : C[i].previous # p}

LEMMA GoneRemoved ==
    ASSUME NEW W, NEW S, Worded(S, W),
           NEW previous \in Seq(S), NEW current \in Seq(S), NEW links, NEW C,
           Separate(previous), Matched(previous, current, links, C),
           NEW used, used = Used(C, Len(current) + 1),
           NEW R, R = Removed(previous, current, used, links)
    PROVE  /\ IsInjective(R) /\ Len(R) \in Nat /\ DOMAIN R = 1..Len(R) /\ R \in Seq(ToSet(R))
           /\ \A k \in 1..Len(R) :
                 /\ R[k].previous \in Gone(previous, current, C) /\ R[k].current = NoItem
                 /\ R[k].kind = "removed" /\ R[k].findings = links[R[k].previous.id]
                 /\ \A l \in 1..Len(R) : R[k].previous = R[l].previous => k = l
           /\ \A p \in Gone(previous, current, C) : \E k \in 1..Len(R) : R[k].previous = p
  <1> DEFINE m == Len(current)
             T == {p \in ToSet(previous) : /\ p.id \notin used
                                           /\ \A c \in ToSet(current) : c.id # p.id}
             gone == Among(previous, T)
             G == Gone(previous, current, C)
  <1>1. /\ m \in Nat /\ DOMAIN current = 1..m /\ \A i \in 1..m : current[i] \in S
        /\ ToSet(previous) \subseteq S /\ NoItem \notin S
    BY DEF Worded, ToSet
  <1>2. \A p, q \in ToSet(previous) : p.id = q.id => p = q
    BY SeparateIds DEF OwnIds
  <1>3. T = G
    <2>1. ASSUME NEW p \in T PROVE p \in G
      <3> SUFFICES ASSUME NEW i \in 1..m, C[i].previous = p PROVE FALSE
        BY DEF Gone
      <3>1. i \in 1..((m + 1) - 1) /\ p # NoItem
        BY <1>1
      <3>2. p.id \in Used(C, m + 1)
        BY <3>1 DEF Used
      <3> QED
        BY <3>2
    <2>2. ASSUME NEW p \in G PROVE p \in T
      <3>1. p \in ToSet(previous) /\ \A i \in 1..m : C[i].previous # p
        BY DEF Gone
      <3>2. p.id \notin used
        <4> SUFFICES ASSUME p.id \in Used(C, m + 1) PROVE FALSE
          OBVIOUS
        <4>1. PICK i \in 1..((m + 1) - 1) : C[i].previous # NoItem /\ p.id = C[i].previous.id
          BY DEF Used
        <4>2. i \in 1..m
          BY <1>1
        <4>3. C[i].previous \in ToSet(previous)
          BY <4>1, <4>2 DEF Matched
        <4> QED
          BY <1>2, <3>1, <4>1, <4>2, <4>3
      <3>3. ASSUME NEW c \in ToSet(current), c.id = p.id PROVE FALSE
        <4>1. PICK i \in 1..m : c = current[i]
          BY <1>1 DEF ToSet
        <4>2. C[i].previous = p
          BY <3>1, <3>3, <4>1 DEF Matched
        <4> QED
          BY <3>1, <4>2
      <3> QED
        BY <3>1, <3>2, <3>3
    <2> QED
      BY <2>1, <2>2
  <1>4. IsInjective(previous)
    BY DEF Separate, IsInjective
  <1> HIDE DEF T, G
  <1>5. /\ gone \in Seq(S) /\ ToSet(gone) = G /\ IsInjective(gone)
    <2>1. ToSet(gone) = ToSet(previous) \cap T /\ gone \in Seq(S) /\ IsInjective(gone)
      BY <1>4, AmongEntries
    <2>2. G \subseteq ToSet(previous)
      BY DEF G, Gone
    <2> QED
      BY <1>3, <2>1, <2>2
  <1>6. R = [k \in DOMAIN gone |->
                 Change(gone[k].id, gone[k].kind, "removed", gone[k], NoItem, links)]
    BY DEF Removed, T
  <1> HIDE DEF gone
  <1> DEFINE g == Len(gone)
  <1>7. g \in Nat /\ DOMAIN gone = 1..g /\ Len(R) = g /\ DOMAIN R = 1..g /\ R \in Seq(ToSet(R))
    <2>1. g \in Nat /\ DOMAIN gone = 1..g
      BY <1>5
    <2> HIDE DEF g
    <2>2. DOMAIN R = 1..g /\ R = [k \in 1..g |-> R[k]]
      BY <1>6, <2>1
    <2>3. \A k \in 1..g : R[k] \in ToSet(R)
      BY <2>2 DEF ToSet
    <2>4. R \in [1..g -> ToSet(R)]
      BY <2>2, <2>3
    <2>5. R \in Seq(ToSet(R))
      BY <2>1, <2>4
    <2>6. Len(R) = g
      BY <2>1, <2>2, <2>5
    <2> QED
      BY <2>1, <2>2, <2>5, <2>6 DEF g
  <1> HIDE DEF g
  <1>8. ASSUME NEW k \in 1..g
        PROVE  /\ R[k].previous = gone[k] /\ gone[k] \in G /\ R[k].current = NoItem
               /\ R[k].kind = "removed" /\ R[k].findings = links[gone[k].id]
    <2>1. R[k] = Change(gone[k].id, gone[k].kind, "removed", gone[k], NoItem, links)
      BY <1>6, <1>7
    <2>2. gone[k] \in G
      BY <1>5, <1>7 DEF ToSet
    <2> QED
      BY <2>1, <2>2 DEF Change, Preserved
  <1>9. \A k, l \in 1..g : gone[k] = gone[l] => k = l
    BY <1>5, <1>7 DEF IsInjective
  <1>10. \A p \in G : \E k \in 1..g : gone[k] = p
    BY <1>5, <1>7 DEF ToSet
  <1>11. IsInjective(R)
    BY <1>7, <1>8, <1>9 DEF IsInjective
  <1> QED
    BY <1>7, <1>8, <1>9, <1>10, <1>11 DEF G

\* The entries of a sequence and of the one that is appended to it.
LEMMA JoinedParts ==
    ASSUME NEW S, NEW a \in Seq(S), NEW b \in Seq(S)
    PROVE  /\ a \o b \in Seq(S) /\ DOMAIN (a \o b) = 1..(Len(a) + Len(b))
           /\ \A i \in 1..Len(a) : (a \o b)[i] = a[i]
           /\ \A i \in 1..Len(b) : (a \o b)[Len(a) + i] = b[i]
  <1>1. a \o b \in Seq(S) /\ DOMAIN (a \o b) = 1..(Len(a) + Len(b))
    OBVIOUS
  <1>2. \A i \in 1..Len(a) : (a \o b)[i] = a[i]
    OBVIOUS
  <1>3. \A i \in 1..Len(b) : (a \o b)[Len(a) + i] = b[i]
    OBVIOUS
  <1> QED
    BY <1>1, <1>2, <1>3

\* The changes of two versions, all of them.
LEMMA AllMatched ==
    ASSUME NEW W, NEW S, Worded(S, W),
           NEW previous \in Seq(S), NEW current \in Seq(S), NEW links,
           Separate(previous), Separate(current), NoneTaken(previous, current),
           NEW acc, acc = CompareItems(previous, current, links)
    PROVE  /\ \E Z : acc.changes \in Seq(Z)
           /\ Matched(previous, current, links, acc.changes)
           /\ acc.used = Used(acc.changes, Len(current) + 1)
           /\ Paired(previous, current, links, Len(current), acc)
  <1> DEFINE Z == {Made(p, c, links) : p \in S \cup {NoItem}, c \in S}
             Ids == {x.id : x \in S}
  <1>1. Makes(S, links, Z) /\ Known(S, Ids) /\ OwnIds(previous)
    <2>1. Makes(S, links, Z)
      BY DEF Makes
    <2>2. Known(S, Ids)
      BY DEF Known
    <2> QED
      BY <2>1, <2>2, SeparateIds
  <1> HIDE DEF Z, Ids
  <1>2. acc.changes \in Seq(Z) /\ Paired(previous, current, links, Len(current), acc)
    BY <1>1, AllPaired
  <1>3. Matched(previous, current, links, acc.changes)
    BY <1>2, FormersMatch
  <1>4. acc.used = Used(acc.changes, Len(current) + 1)
    BY <1>2 DEF Paired
  <1> QED
    BY <1>2, <1>3, <1>4

\* The findings that go with an id hold those of each item that has it.
LEMMA LinksHold ==
    ASSUME NEW S, NEW previous \in Seq(S), NEW current \in Seq(S), NEW p \in ToSet(previous)
    PROVE  p.related \subseteq Links(previous, current)[p.id]
  <1> DEFINE items == ToSet(previous) \cup ToSet(current)
             Held(id) == UNION {x.related : x \in {y \in items : y.id = id}}
  <1>1. p \in items /\ p.id \in {x.id : x \in items}
    OBVIOUS
  <1>2. Links(previous, current) = [id \in {x.id : x \in items} |-> Held(id)]
    BY DEF Links
  <1> HIDE DEF items
  <1>3. p.related \subseteq Held(p.id)
    BY <1>1
  <1> HIDE DEF Held
  <1> QED
    BY <1>1, <1>2, <1>3

LEMMA MadeFindings ==
    ASSUME NEW prior, NEW item, NEW links, prior # NoItem
    PROVE  \/ Made(prior, item, links).kind \in Preserved
           \/ Made(prior, item, links).findings = links[prior.id]
  <1> DEFINE kind == classify(prior.content, item.content)
  <1> HIDE DEF kind
  <1>1. Made(prior, item, links) = Change(prior.id, item.kind, kind, prior, item, links)
    BY DEF Made, kind
  <1> QED
    BY <1>1 DEF Change

\* An earlier item has one change, which is the one of its id, and has its
\* findings if it is no change of words only.
Followed(p, current, changes) ==
    \E i \in DOMAIN changes :
        /\ {j \in DOMAIN changes : changes[j].previous = p} = {i}
        /\ \A c \in ToSet(current) : c.id = p.id => changes[i].current = c
        /\ p.related \subseteq changes[i].findings \/ changes[i].kind \in Preserved

\* Every later item has its change, in its order, and every earlier one too.
Continued(previous, current, changes) ==
    /\ DOMAIN current \subseteq DOMAIN changes
    /\ \A i \in DOMAIN changes :
          changes[i].current = IF i \in DOMAIN current THEN current[i] ELSE NoItem
    /\ \A p \in ToSet(previous) : Followed(p, current, changes)

LEMMA ItemsFollowed ==
    ASSUME NEW W, NEW S, Worded(S, W),
           NEW previous \in Seq(S), NEW current \in Seq(S),
           Separate(previous), Separate(current), NoneTaken(previous, current),
           NEW links, links = Links(previous, current),
           NEW paired, paired = CompareItems(previous, current, links),
           NEW R, R = Removed(previous, current, paired.used, links),
           NEW changes, changes = paired.changes \o R
    PROVE  Continued(previous, current, changes)
  <1> DEFINE m == Len(current)
             C == paired.changes
             g == Len(R)
             G == Gone(previous, current, C)
  <1>1. m \in Nat /\ DOMAIN current = 1..m /\ ToSet(current) = {current[i] : i \in 1..m}
    BY DEF ToSet
  <1>2. PICK Z : C \in Seq(Z)
    BY AllMatched
  <1>3. Matched(previous, current, links, C) /\ paired.used = Used(C, m + 1)
    BY AllMatched
  <1>4. /\ g \in Nat /\ DOMAIN R = 1..g /\ R \in Seq(ToSet(R))
        /\ \A k \in 1..g :
              /\ R[k].previous \in G /\ R[k].current = NoItem
              /\ R[k].kind = "removed" /\ R[k].findings = links[R[k].previous.id]
              /\ \A l \in 1..g : R[k].previous = R[l].previous => k = l
        /\ \A p \in G : \E k \in 1..g : R[k].previous = p
    BY <1>3, GoneRemoved
  <1>5. /\ Len(C) = m
        /\ \A i \in 1..m :
              /\ C[i] = Made(C[i].previous, current[i], links)
              /\ C[i].previous \in ToSet(previous) \cup {NoItem}
              /\ \A p \in ToSet(previous) : p.id = current[i].id => C[i].previous = p
              /\ \A j \in 1..m : C[i].previous = C[j].previous /\ C[i].previous # NoItem => i = j
    BY <1>3 DEF Matched
  <1>6. NoItem \notin ToSet(previous)
    BY DEF Worded, ToSet
  <1>7. \A i \in 1..m : C[i].current = current[i]
    BY <1>5, MadeSides
  <1> HIDE DEF m, g, C
  <1>8. /\ DOMAIN changes = 1..(m + g)
        /\ \A i \in 1..m : changes[i] = C[i]
        /\ \A k \in 1..g : changes[m + k] = R[k]
    <2>1. C \in Seq(Z \cup ToSet(R)) /\ R \in Seq(Z \cup ToSet(R)) /\ Len(R) = g
      BY <1>2, <1>4 DEF g
    <2>2. changes = C \o R
      BY DEF C
    <2> DEFINE Y == Z \cup ToSet(R)
    <2> HIDE DEF Y
    <2>3. C \in Seq(Y) /\ R \in Seq(Y)
      BY <2>1 DEF Y
    <2>4. /\ DOMAIN (C \o R) = 1..(Len(C) + Len(R))
          /\ \A i \in 1..Len(C) : (C \o R)[i] = C[i]
          /\ \A i \in 1..Len(R) : (C \o R)[Len(C) + i] = R[i]
      BY <2>3, JoinedParts
    <2>5. Len(C) = m /\ Len(R) = g
      BY <1>5, <2>1
    <2> QED
      BY <2>2, <2>4, <2>5
  <1>9. \A i \in 1..(m + g) : i \in 1..m \/ \E k \in 1..g : i = m + k
    <2> SUFFICES ASSUME NEW i \in 1..(m + g), i \notin 1..m PROVE \E k \in 1..g : i = m + k
      OBVIOUS
    <2>1. i - m \in 1..g /\ i = m + (i - m)
      BY <1>1, <1>4
    <2> QED
      BY <2>1
  <1>10. 1..m \subseteq 1..(m + g) /\ \A k \in 1..g : m + k \in 1..(m + g) /\ m + k \notin 1..m
    BY <1>1, <1>4
  <1>11. ASSUME NEW i \in DOMAIN changes
         PROVE  changes[i].current = IF i \in DOMAIN current THEN current[i] ELSE NoItem
    <2>1. CASE i \in 1..m
      BY <1>1, <1>7, <1>8, <2>1
    <2>2. CASE \E k \in 1..g : i = m + k
      <3>1. PICK k \in 1..g : i = m + k
        BY <2>2
      <3>2. i \notin 1..m /\ changes[i] = R[k]
        BY <1>8, <1>10, <3>1
      <3> QED
        BY <1>1, <1>4, <3>2
    <2> QED
      BY <1>8, <1>9, <2>1, <2>2
  <1>12. ASSUME NEW p \in ToSet(previous) PROVE Followed(p, current, changes)
    <2>1. p.related \subseteq links[p.id]
      BY LinksHold
    <2>2. p # NoItem
      BY <1>6
    <2>3. CASE p \in G
      <3>1. PICK k \in 1..g : R[k].previous = p
        BY <1>4, <2>3
      <3>2. \A i \in 1..m : C[i].previous # p
        BY <2>3 DEF Gone, m
      <3> DEFINE i == m + k
      <3>3. i \in DOMAIN changes /\ changes[i] = R[k]
        BY <1>8, <1>10
      <3>4. ASSUME NEW j \in DOMAIN changes, changes[j].previous = p PROVE j = i
        <4>1. CASE j \in 1..m
          BY <1>8, <3>2, <3>4, <4>1
        <4>2. CASE \E l \in 1..g : j = m + l
          <5>1. PICK l \in 1..g : j = m + l
            BY <4>2
          <5>2. R[l].previous = p
            BY <1>8, <3>4, <5>1
          <5>3. k = l
            BY <1>4, <3>1, <5>2
          <5> QED
            BY <5>1, <5>3
        <4> QED
          BY <1>8, <1>9, <4>1, <4>2
      <3>5. \A c \in ToSet(current) : c.id # p.id
        BY <1>1, <1>5, <3>2
      <3>6. p.related \subseteq changes[i].findings /\ changes[i].previous = p
        BY <1>4, <2>1, <3>1, <3>3
      <3> HIDE DEF i
      <3>7. {j \in DOMAIN changes : changes[j].previous = p} = {i}
        BY <3>3, <3>4, <3>6, ZenonT(30)
      <3> QED
        BY <3>3, <3>5, <3>6, <3>7, ZenonT(30) DEF Followed
    <2>4. CASE p \notin G
      <3>1. PICK i \in 1..m : C[i].previous = p
        BY <2>4 DEF Gone, m
      <3>2. i \in DOMAIN changes /\ changes[i] = C[i]
        BY <1>8, <1>10
      <3>3. ASSUME NEW j \in DOMAIN changes, changes[j].previous = p PROVE j = i
        <4>1. CASE j \in 1..m
          BY <1>5, <1>8, <2>2, <3>1, <3>3, <4>1, ZenonT(30)
        <4>2. CASE \E l \in 1..g : j = m + l
          <5>1. PICK l \in 1..g : j = m + l
            BY <4>2
          <5>2. R[l].previous = p
            BY <1>8, <3>3, <5>1
          <5> QED
            BY <1>4, <2>4, <5>2
        <4> QED
          BY <1>8, <1>9, <4>1, <4>2
      <3>4. ASSUME NEW c \in ToSet(current), c.id = p.id PROVE changes[i].current = c
        <4>1. PICK j \in 1..m : c = current[j]
          BY <1>1
        <4>2. C[j].previous = p
          BY <1>5, <3>4, <4>1
        <4>3. j = i
          BY <1>5, <2>2, <3>1, <4>2
        <4> QED
          BY <1>7, <3>2, <4>1, <4>3
      <3>5. p.related \subseteq changes[i].findings \/ changes[i].kind \in Preserved
        <4>1. C[i] = Made(p, current[i], links)
          BY <1>5, <3>1
        <4>2. C[i].kind \in Preserved \/ C[i].findings = links[p.id]
          BY <2>2, <4>1, MadeFindings
        <4> QED
          BY <2>1, <3>2, <4>2
      <3>6. {j \in DOMAIN changes : changes[j].previous = p} = {i}
        BY <3>1, <3>2, <3>3
      <3> QED
        BY <3>2, <3>4, <3>5, <3>6 DEF Followed
    <2> QED
      BY <2>3, <2>4
  <1>13. DOMAIN current \subseteq DOMAIN changes
    BY <1>1, <1>8, <1>10
  <1> QED
    BY <1>11, <1>12, <1>13 DEF Continued

\* A place among the first h + i - 1 that is past the first h.
LEMMA ShiftedIndex ==
    ASSUME NEW h \in Nat, NEW i \in Nat, NEW j \in Int, h < j, j <= (h + i) - 1
    PROVE  (j - h) \in 1..(i - 1) /\ h + (j - h) = j /\ j - h < i
  OBVIOUS

\* An item that says what another one does, about the same.
Alike(x, y) == x.kind = y.kind /\ SameWords(x, y)

\* Two versions that say the same: items with the ids of the earlier version,
\* and then as many others without.
SaySame(previous, g, current, h, n) ==
    /\ Len(previous) = g + n /\ Len(current) = h + n
    /\ \A k \in 1..g : \E i \in 1..h : current[i].id = previous[k].id
    /\ \A i \in 1..h : \E k \in 1..g : /\ previous[k].id = current[i].id
                                       /\ previous[k].content = current[i].content
    /\ \A l \in 1..n :
          /\ previous[g + l].kind = current[h + l].kind
          /\ previous[g + l].content = current[h + l].content
          /\ \A p \in ToSet(previous) : p.id # current[h + l].id

\* No function takes a finite set into a smaller one without taking two to one.
LEMMA NotInto ==
    ASSUME NEW K, IsFiniteSet(K), NEW T, T \subseteq K, T # K, NEW f \in [K -> T]
    PROVE  \E k, l \in K : k # l /\ f[k] = f[l]
  <1>1. /\ IsFiniteSet(T) /\ Cardinality(T) \in Nat /\ Cardinality(K) \in Nat
        /\ Cardinality(T) < Cardinality(K)
    <2>1. T \in SUBSET K
      OBVIOUS
    <2>2. /\ IsFiniteSet(T) /\ Cardinality(T) <= Cardinality(K)
          /\ (Cardinality(K) = Cardinality(T) => K = T)
      BY <2>1, FS_Subset
    <2>3. Cardinality(T) \in Nat /\ Cardinality(K) \in Nat
      BY <2>2, FS_CardinalityType
    <2> QED
      BY <2>2, <2>3
  <1> QED
    BY <1>1, FS_PigeonHole

\* The earlier items of the ids of later ones are theirs.
Took(previous, g, current, h, C) ==
    /\ \A i \in 1..h : \E k \in 1..g : /\ C[i].previous = previous[k]
                                       /\ previous[k].content = current[i].content
    /\ \A k \in 1..g : \E i \in 1..h : C[i].previous = previous[k]

LEMMA OwnTaken ==
    ASSUME NEW S, NEW previous \in Seq(S), NEW current, NEW links, NEW C,
           Separate(previous), Matched(previous, current, links, C),
           NEW g \in Nat, NEW h \in Nat, NEW n \in Nat,
           SaySame(previous, g, current, h, n)
    PROVE  Took(previous, g, current, h, C)
  <1>1. /\ Len(previous) = g + n /\ Len(current) = h + n
        /\ \A k \in 1..g : \E i \in 1..h : current[i].id = previous[k].id
        /\ \A i \in 1..h : \E k \in 1..g : /\ previous[k].id = current[i].id
                                           /\ previous[k].content = current[i].content
    BY DEF SaySame
  <1>2. /\ \A i \in 1..h : i \in 1..(h + n)
        /\ \A k \in 1..g : k \in 1..(g + n)
    OBVIOUS
  <1>3. \A k \in 1..g : previous[k] \in ToSet(previous)
    <2>1. DOMAIN previous = 1..(g + n)
      BY <1>1
    <2> QED
      BY <1>2, <2>1 DEF ToSet
  <1>4. \A i \in 1..(h + n) : \A p \in ToSet(previous) :
           p.id = current[i].id => C[i].previous = p
    BY <1>1 DEF Matched
  <1>5. ASSUME NEW i \in 1..h
        PROVE  \E k \in 1..g : C[i].previous = previous[k]
                               /\ previous[k].content = current[i].content
    BY <1>1, <1>2, <1>3, <1>4
  <1>6. ASSUME NEW k \in 1..g PROVE \E i \in 1..h : C[i].previous = previous[k]
    <2>1. PICK i \in 1..h : current[i].id = previous[k].id
      BY <1>1
    <2>2. i \in 1..(h + n) /\ previous[k] \in ToSet(previous)
      BY <1>2, <1>3
    <2> QED
      BY <1>4, <2>1, <2>2
  <1> QED
    BY <1>5, <1>6 DEF Took

\* The others continue one that says the same.
LEMMA OthersAlike ==
    ASSUME NEW W, NEW S, Worded(S, W),
           NEW previous \in Seq(S), NEW current \in Seq(S), NEW links, NEW acc,
           Separate(previous),
           Paired(previous, current, links, Len(current), acc),
           NEW C, C = acc.changes, Matched(previous, current, links, C),
           NEW g \in Nat, NEW h \in Nat, NEW n \in Nat,
           SaySame(previous, g, current, h, n)
    PROVE  \A i \in 1..n : C[h + i].previous # NoItem
                           /\ Alike(C[h + i].previous, current[h + i])
  <1> DEFINE m == h + n
  <1>1. /\ Len(previous) = g + n /\ Len(current) = m
        /\ DOMAIN previous = 1..(g + n) /\ DOMAIN current = 1..m /\ m \in Nat
        /\ \A k \in 1..(g + n) : previous[k] \in ToSet(previous)
        /\ ToSet(previous) \subseteq S /\ NoItem \notin S
        /\ \A i \in 1..m : current[i] \in S
    BY SMTT(30) DEF SaySame, ToSet, Worded
  <1>2. /\ \A l \in 1..n : g + l \in 1..(g + n) /\ h + l \in 1..m
        /\ \A k \in 1..g : k \in 1..(g + n)
        /\ \A i \in 1..h : i \in 1..m
    OBVIOUS
  <1>3. \A l \in 1..n :
          /\ previous[g + l].kind = current[h + l].kind
          /\ previous[g + l].content = current[h + l].content
          /\ \A p \in ToSet(previous) : p.id # current[h + l].id
    BY DEF SaySame
  <1>4. \A i \in 1..m : C[i].previous = Prior(current[i], previous, Used(C, i))
    <2>1. \A i \in 1..m : C[i] = Made(Prior(current[i], previous, Used(C, i)), current[i], links)
      BY <1>1 DEF Paired
    <2> QED
      BY <2>1, MadeSides
  <1>5. OwnIds(previous)
    BY SeparateIds
  <1>6. \A i \in 1..h : \E k \in 1..g : C[i].previous = previous[k]
    <2>1. Took(previous, g, current, h, C)
      BY OwnTaken
    <2> QED
      BY <2>1 DEF Took
  <1> DEFINE Good(i) == C[h + i].previous # NoItem /\ Alike(C[h + i].previous, current[h + i])
             P == {k \in Nat : \A i \in 1..n : i <= k => Good(i)}
  <1>7. 0 \in P
    OBVIOUS
  <1>8. ASSUME NEW k \in Nat, k \in P PROVE k + 1 \in P
    <2> DEFINE i == k + 1
    <2> SUFFICES ASSUME i \in 1..n PROVE Good(i)
      <3>1. \A j \in 1..n : j <= k + 1 => j <= k \/ j = k + 1
        OBVIOUS
      <3> HIDE DEF Good
      <3> QED
        BY <1>8, <3>1
    <2>1. i \in Nat /\ i \in 1..n /\ \A j \in 1..(i - 1) : j \in 1..n /\ Good(j)
      <3>1. \A j \in 1..(i - 1) : j \in 1..n /\ j <= k
        OBVIOUS
      <3> HIDE DEF Good
      <3> QED
        BY <1>8, <3>1
    <2> HIDE DEF i
    <2> DEFINE x == current[h + i]
               used == Used(C, h + i)
    <2>2. x \in S /\ h + i \in 1..m
      BY <1>1, <1>2, <2>1
    <2>3. C[h + i].previous = closest(x, previous, used)
      <3>1. \A p \in ToSet(previous) : p.id # x.id
        BY <1>3, <2>1
      <3>2. C[h + i].previous = Prior(x, previous, used)
        BY <1>4, <2>2
      <3> HIDE DEF x, used
      <3> QED
        BY <1>5, <2>2, <3>1, <3>2, PriorFound
    <2> SUFFICES \E c \in ToSet(previous) : c.id \notin used /\ c.kind = x.kind /\ SameWords(c, x)
      <3> DEFINE best == closest(x, previous, used)
      <3> HIDE DEF x, used
      <3>1. best # NoItem /\ SameWords(best, x)
        BY <2>2, ClosestFound
      <3>2. best.kind = x.kind
        BY <2>2, <3>1, ClosestFound
      <3> HIDE DEF best
      <3>3. C[h + i].previous = best
        BY <2>3 DEF best
      <3> QED
        BY <3>1, <3>2, <3>3 DEF Alike, x
    <2> SUFFICES ASSUME \A c \in ToSet(previous) : Alike(c, x) => c.id \in used
                 PROVE  FALSE
      BY DEF Alike
    <2> DEFINE K == {l \in 1..n : Alike(previous[g + l], x)}
               T == {l \in K : l < i}
               Takes(l, j) == C[h + j].previous = previous[g + l]
    <2>4. IsFiniteSet(K)
      <3>1. IsFiniteSet(1..n)
        BY FS_Interval
      <3>2. K \in SUBSET (1..n)
        OBVIOUS
      <3> QED
        BY <3>1, <3>2, FS_Subset
    <2>5. i \in K /\ i \notin T
      BY <1>3, <2>1 DEF Alike, SameWords
    <2>6. ASSUME NEW l \in K PROVE \E j \in T : Takes(l, j)
      <3>1. l \in 1..n /\ previous[g + l] \in ToSet(previous) /\ Alike(previous[g + l], x)
        BY <1>1, <1>2
      <3>2. PICK j \in 1..((h + i) - 1) : C[j].previous # NoItem
                                        /\ previous[g + l].id = C[j].previous.id
        BY <3>1 DEF Used
      <3>3. j \in 1..m
        BY <2>1
      <3>4. C[j].previous = previous[g + l]
        <4>1. C[j].previous \in ToSet(previous)
          BY <1>1, <3>2, <3>3 DEF Matched
        <4> QED
          BY <1>5, <3>1, <3>2, <4>1 DEF OwnIds
      <3>5. j \notin 1..h
        <4> SUFFICES ASSUME j \in 1..h PROVE FALSE
          OBVIOUS
        <4>1. PICK q \in 1..g : C[j].previous = previous[q]
          BY <1>6
        <4>2. q = g + l
          BY <1>1, <1>2, <3>1, <3>4, <4>1 DEF Separate
        <4> QED
          BY <3>1, <4>2
      <3> DEFINE r == j - h
      <3>6. r \in 1..(i - 1) /\ h + r = j /\ r < i
        <4>1. j \in Int /\ i \in Nat /\ h < j /\ j <= (h + i) - 1
          BY <2>1, <3>5
        <4> QED
          BY <4>1, ShiftedIndex, ZenonT(30)
      <3>7. r \in 1..n /\ Good(r)
        BY <2>1, <3>6
      <3> HIDE DEF r
      <3>8. Alike(previous[g + l], current[h + r])
        BY <3>4, <3>6, <3>7
      <3>9. Alike(previous[g + r], x)
        BY <1>3, <3>1, <3>7, <3>8 DEF Alike, SameWords
      <3> QED
        BY <3>4, <3>6, <3>7, <3>9
    <2> DEFINE f == [l \in K |-> CHOOSE j \in T : Takes(l, j)]
    <2>7. f \in [K -> T] /\ \A l \in K : Takes(l, f[l])
      <3> HIDE DEF K, T, Takes
      <3> QED
        BY <2>6
    <2>8. T \subseteq K /\ T # K
      BY <2>5
    <2> HIDE DEF f
    <2>9. PICK l, q \in K : l # q /\ f[l] = f[q]
      <3> HIDE DEF K, T, Takes
      <3> QED
        BY <2>4, <2>7, <2>8, NotInto
    <2>10. l \in 1..n /\ q \in 1..n /\ previous[g + l] = previous[g + q]
      BY <2>7, <2>9
    <2>11. g + l = g + q
      BY <1>1, <1>2, <2>10 DEF Separate
    <2> QED
      BY <2>9, <2>10, <2>11
  <1>9. n \in P
    <2> HIDE DEF P
    <2> QED
      BY <1>7, <1>8, Induction
  <1>10. \A i \in 1..n : Good(i)
    <2> HIDE DEF Good
    <2> QED
      BY <1>9
  <1> QED
    BY <1>10

\* What has the same words has kept its meaning.
LEMMA WordsPreserve ==
    ASSUME NEW W, NEW a, NEW b, a.words \in Seq(W), b.words \in Seq(W),
           a = b \/ ToSet(a.words) = ToSet(b.words)
    PROVE  classify(a, b) \in Preserved
  <1> DEFINE s == similarity(a, b)
  <1>1. s \in [of : Nat, all : Nat \ {0}] /\ (ToSet(a.words) = ToSet(b.words) => s.of = s.all)
    <2> HIDE DEF s
    <2> QED
      BY SimilarityShare DEF s
  <1>2. ToSet(a.words) = ToSet(b.words) => AtLeast(s, 82)
    <2> HIDE DEF s
    <2> QED
      BY <1>1 DEF AtLeast
  <1> HIDE DEF s
  <1> QED
    BY <1>2 DEF classify, Preserved, s

LEMMA SameKept ==
    ASSUME NEW W, NEW S, Worded(S, W),
           NEW previous \in Seq(S), NEW current \in Seq(S), NEW links, NEW acc,
           Separate(previous),
           Paired(previous, current, links, Len(current), acc),
           NEW C, C = acc.changes, Matched(previous, current, links, C),
           NEW g \in Nat, NEW h \in Nat, NEW n \in Nat,
           SaySame(previous, g, current, h, n)
    PROVE  /\ \A i \in 1..Len(current) : C[i].kind \in Preserved
           /\ Gone(previous, current, C) = {}
  <1> DEFINE m == h + n
  <1>1. /\ Len(previous) = g + n /\ Len(current) = m
        /\ DOMAIN previous = 1..(g + n) /\ DOMAIN current = 1..m /\ m \in Nat
        /\ ToSet(previous) = {previous[k] : k \in 1..(g + n)}
        /\ \A k \in 1..(g + n) : previous[k] \in S
        /\ ToSet(previous) \subseteq S /\ NoItem \notin S
        /\ \A i \in 1..m : current[i] \in S
    <2>1. Len(previous) = g + n /\ Len(current) = m /\ m \in Nat
      BY DEF SaySame
    <2>2. DOMAIN previous = 1..(g + n) /\ DOMAIN current = 1..m
      BY <2>1
    <2> HIDE DEF m
    <2>3. ToSet(previous) = {previous[k] : k \in 1..(g + n)}
      BY <2>2 DEF ToSet
    <2>4. /\ \A k \in 1..(g + n) : previous[k] \in S
          /\ \A i \in 1..m : current[i] \in S
      BY <2>1
    <2> QED
      BY <2>1, <2>2, <2>3, <2>4 DEF Worded
  <1>2. /\ \A l \in 1..n : g + l \in 1..(g + n) /\ h + l \in 1..m
        /\ \A k \in 1..g : k \in 1..(g + n)
        /\ \A i \in 1..h : i \in 1..m
    OBVIOUS
  <1>3. /\ \A i \in 1..m : i \in 1..h \/ \E l \in 1..n : i = h + l
        /\ \A k \in 1..(g + n) : k \in 1..g \/ \E l \in 1..n : k = g + l
    <2>1. ASSUME NEW a \in Nat, NEW i \in 1..(a + n), i \notin 1..a
          PROVE  \E l \in 1..n : i = a + l
      <3>1. i - a \in 1..n /\ i = a + (i - a)
        BY <2>1
      <3> QED
        BY <3>1
    <2> QED
      BY <2>1
  <1>4. /\ \A i \in 1..m : C[i] = Made(C[i].previous, current[i], links)
        /\ \A i \in 1..m : C[i].previous \in ToSet(previous) \cup {NoItem}
        /\ \A i, j \in 1..m : C[i].previous = C[j].previous /\ C[i].previous # NoItem => i = j
    BY <1>1 DEF Matched
  <1>5. Took(previous, g, current, h, C)
    BY OwnTaken
  <1>6. \A i \in 1..n : C[h + i].previous # NoItem /\ Alike(C[h + i].previous, current[h + i])
    BY OthersAlike
  <1>7. ASSUME NEW i \in 1..m
        PROVE  C[i].previous \in S
               /\ (C[i].previous.content = current[i].content
                     \/ SameWords(C[i].previous, current[i]))
    <2>1. CASE i \in 1..h
      <3>1. PICK k \in 1..g : /\ C[i].previous = previous[k]
                              /\ previous[k].content = current[i].content
        BY <1>5, <2>1 DEF Took
      <3> QED
        BY <1>1, <1>2, <3>1
    <2>2. CASE \E l \in 1..n : i = h + l
      BY <1>1, <1>4, <1>6, <2>2 DEF Alike
    <2> QED
      BY <1>3, <2>1, <2>2
  <1>8. ASSUME NEW i \in 1..m PROVE C[i].kind \in Preserved
    <2> DEFINE p == C[i].previous
               x == current[i]
    <2>1. p \in S /\ p # NoItem /\ x \in S /\ (p.content = x.content \/ SameWords(p, x))
      BY <1>1, <1>7
    <2>2. C[i] = Made(p, x, links)
      BY <1>4
    <2> HIDE DEF p, x
    <2>3. p.content.words \in Seq(W) /\ x.content.words \in Seq(W)
      BY <2>1 DEF Worded
    <2> DEFINE a == p.content
               b == x.content
    <2>4. a = b \/ ToSet(a.words) = ToSet(b.words)
      BY <2>1 DEF SameWords
    <2>5. classify(a, b) \in Preserved
      <3> HIDE DEF a, b
      <3> QED
        BY <2>3, <2>4, WordsPreserve DEF a, b
    <2> DEFINE kind == classify(a, b)
    <2> HIDE DEF kind
    <2>6. Made(p, x, links) = Change(p.id, x.kind, kind, p, x, links)
      BY <2>1 DEF Made, kind
    <2> QED
      BY <2>2, <2>5, <2>6 DEF Change, kind
  <1>9. ASSUME NEW l \in 1..n PROVE \E i \in 1..n : C[h + i].previous = previous[g + l]
    <2> SUFFICES ASSUME \A i \in 1..n : C[h + i].previous # previous[g + l] PROVE FALSE
      OBVIOUS
    <2> DEFINE K == 1..n
               T == (1..n) \ {l}
               Takes(i, q) == C[h + i].previous = previous[g + q]
    <2>1. ASSUME NEW i \in K PROVE \E q \in T : Takes(i, q)
      <3>1. C[h + i].previous \in ToSet(previous)
        BY <1>2, <1>4, <1>6
      <3>2. PICK k \in 1..(g + n) : C[h + i].previous = previous[k]
        BY <1>1, <3>1
      <3>3. k \notin 1..g
        <4> SUFFICES ASSUME k \in 1..g PROVE FALSE
          OBVIOUS
        <4>1. PICK j \in 1..h : C[j].previous = previous[k]
          BY <1>5 DEF Took
        <4>2. j = h + i
          BY <1>2, <1>4, <1>6, <3>2, <4>1
        <4> QED
          BY <4>2
      <3>4. PICK q \in 1..n : k = g + q
        BY <1>3, <3>3
      <3> QED
        BY <3>2, <3>4
    <2> DEFINE f == [i \in K |-> CHOOSE q \in T : Takes(i, q)]
    <2>2. f \in [K -> T] /\ \A i \in K : Takes(i, f[i])
      <3> HIDE DEF K, T, Takes
      <3> QED
        BY <2>1
    <2>3. IsFiniteSet(K) /\ T \subseteq K /\ T # K
      <3>1. IsFiniteSet(K)
        BY FS_Interval
      <3> QED
        BY <3>1
    <2> HIDE DEF f
    <2>4. PICK i, j \in K : i # j /\ f[i] = f[j]
      <3> HIDE DEF K, T, Takes
      <3> QED
        BY <2>2, <2>3, NotInto
    <2>5. C[h + i].previous = C[h + j].previous
      BY <2>2, <2>4
    <2>6. h + i = h + j
      BY <1>2, <1>4, <1>6, <2>5
    <2> QED
      BY <2>4, <2>6
  <1>10. ASSUME NEW p \in Gone(previous, current, C) PROVE FALSE
    <2>1. p \in ToSet(previous) /\ \A i \in 1..m : C[i].previous # p
      BY <1>1 DEF Gone
    <2>2. PICK k \in 1..(g + n) : p = previous[k]
      BY <1>1, <2>1
    <2>3. CASE k \in 1..g
      BY <1>2, <1>5, <2>1, <2>2, <2>3 DEF Took
    <2>4. CASE \E l \in 1..n : k = g + l
      BY <1>2, <1>9, <2>1, <2>2, <2>4
    <2> QED
      BY <1>3, <2>3, <2>4
  <1> QED
    BY <1>1, <1>8, <1>10

\* The ids of the parts of a summary and of the findings of a version.
SummaryId(k) == <<"summary", k>>
FindingId(version, i, finding) == <<version, i, finding>>

LEMMA IdsDiffer ==
    /\ \A k, l : SummaryId(k) = SummaryId(l) => k = l
    /\ \A k, v, i, f : SummaryId(k) # FindingId(v, i, f)
    /\ \A v, i, f, w, j, e : FindingId(v, i, f) = FindingId(w, j, e) => v = w /\ i = j
  <1>1. \A k, l : SummaryId(k) = SummaryId(l) => k = l
    BY DEF SummaryId
  <1>2. ASSUME NEW k, NEW v, NEW i, NEW f PROVE SummaryId(k) # FindingId(v, i, f)
    <2>1. Len(SummaryId(k)) = 2 /\ Len(FindingId(v, i, f)) = 3
      BY DEF SummaryId, FindingId
    <2> QED
      BY <2>1
  <1>3. \A v, i, f, w, j, e : FindingId(v, i, f) = FindingId(w, j, e) => v = w /\ i = j
    BY DEF FindingId
  <1> QED
    BY <1>1, <1>2, <1>3

SummaryItem(report, k) ==
    [id |-> SummaryId(k), kind |-> k, content |-> report.summary[k], related |-> {}]
FindingItem(report, version, i) ==
    [id |-> FindingId(version, i, report.findings[i]), kind |-> report.findings[i].area,
     content |-> report.findings[i].content,
     related |-> {FindingId(version, i, report.findings[i])}]

\* A report that can be compared, and an order in which its summary is walked.
Readable(report, n) ==
    /\ report.findings \in Seq(ToSet(report.findings)) /\ n = Len(report.findings)
    /\ \A i \in DOMAIN report.findings : report.findings[i].content.words \in Seq(Nat)
    /\ \A k \in DOMAIN report.summary : report.summary[k].words \in Seq(Nat)
Walks(order, report) ==
    /\ order \in Seq(ToSet(order)) /\ IsInjective(order)
    /\ DOMAIN report.summary \subseteq ToSet(order)

\* The items of a report: its summary in an order, and its findings.
Lists(items, report, version, given, g, n) ==
    /\ items \in Seq(ToSet(items)) /\ Len(items) = g + n
    /\ given \in [1..g -> DOMAIN report.summary]
    /\ \A i, j \in 1..g : given[i] = given[j] => i = j
    /\ \A k \in DOMAIN report.summary : \E i \in 1..g : given[i] = k
    /\ \A i \in 1..g : items[i] = SummaryItem(report, given[i])
    /\ \A l \in 1..n : items[g + l] = FindingItem(report, version, l)

LEMMA ItemsListed ==
    ASSUME NEW report, NEW version, NEW order, NEW n, Readable(report, n), Walks(order, report),
           NEW items, items = reportVersionItems(report, version, order)
    PROVE  n \in Nat /\ \E given, g : g \in Nat /\ Lists(items, report, version, given, g, n)
  <1> DEFINE given == Among(order, DOMAIN report.summary)
             g == Len(given)
             D == DOMAIN report.summary
             A == SummaryItems(report, order)
             B == FindingItems(report, version)
             Y == {SummaryItem(report, k) : k \in D} \cup {FindingItem(report, version, l) : l \in 1..n}
  <1>1. n \in Nat /\ n = Len(report.findings) /\ DOMAIN report.findings = 1..n
    BY DEF Readable
  <1>2. given \in Seq(ToSet(order)) /\ ToSet(given) = D /\ IsInjective(given)
    <2>1. order \in Seq(ToSet(order)) /\ IsInjective(order) /\ D \subseteq ToSet(order)
      BY DEF Walks
    <2>2. /\ given \in Seq(ToSet(order)) /\ ToSet(given) = ToSet(order) \cap D
          /\ IsInjective(given)
      <3> DEFINE S == ToSet(order)
      <3> HIDE DEF S, D
      <3> QED
        BY <2>1, AmongEntries DEF S, D
    <2> QED
      BY <2>1, <2>2
  <1>3. A = [i \in DOMAIN given |-> SummaryItem(report, given[i])]
    BY DEF SummaryItems, SummaryItem, SummaryId
  <1>4. B = [l \in 1..n |-> FindingItem(report, version, l)]
    BY <1>1 DEF FindingItems, FindingItem, FindingId
  <1>5. items = A \o B
    BY DEF reportVersionItems
  <1> HIDE DEF given, A, B
  <1>6. /\ g \in Nat /\ DOMAIN given = 1..g /\ \A i \in 1..g : given[i] \in D
        /\ \A k \in D : \E i \in 1..g : given[i] = k
        /\ given = [i \in 1..g |-> given[i]]
        /\ \A i, j \in 1..g : given[i] = given[j] => i = j
    <2>1. g \in Nat /\ DOMAIN given = 1..g /\ given = [i \in 1..g |-> given[i]]
      BY <1>2
    <2> HIDE DEF g
    <2> QED
      BY <1>2, <2>1 DEF ToSet, IsInjective
  <1> HIDE DEF g
  <1>7. /\ A \in Seq(Y) /\ Len(A) = g /\ \A i \in 1..g : A[i] = SummaryItem(report, given[i])
        /\ B \in Seq(Y) /\ Len(B) = n /\ \A l \in 1..n : B[l] = FindingItem(report, version, l)
    <2>1. \A i \in 1..g : SummaryItem(report, given[i]) \in Y
      BY <1>6
    <2>2. \A l \in 1..n : FindingItem(report, version, l) \in Y
      OBVIOUS
    <2> HIDE DEF Y
    <2> QED
      BY <1>1, <1>3, <1>4, <1>6, <2>1, <2>2
  <1> HIDE DEF Y
  <1>8. /\ items \in Seq(Y) /\ DOMAIN items = 1..(g + n)
        /\ \A i \in 1..g : items[i] = A[i]
        /\ \A l \in 1..n : items[g + l] = B[l]
    <2>1. /\ A \o B \in Seq(Y) /\ DOMAIN (A \o B) = 1..(Len(A) + Len(B))
          /\ \A i \in 1..Len(A) : (A \o B)[i] = A[i]
          /\ \A l \in 1..Len(B) : (A \o B)[Len(A) + l] = B[l]
      <3>1. A \in Seq(Y) /\ B \in Seq(Y)
        BY <1>7
      <3> QED
        BY <3>1, JoinedParts
    <2> QED
      BY <1>5, <1>7, <2>1
  <1>9. items \in Seq(ToSet(items)) /\ Len(items) = g + n
    <2>1. g + n \in Nat /\ Len(items) = g + n
      BY <1>1, <1>6, <1>8
    <2>2. \A i \in 1..(g + n) : items[i] \in ToSet(items)
      BY <1>8 DEF ToSet
    <2>3. items = [i \in 1..(g + n) |-> items[i]]
      BY <1>8, <2>1
    <2> DEFINE X == ToSet(items)
               N == g + n
    <2>4. N \in Nat /\ items = [i \in 1..N |-> items[i]] /\ \A i \in 1..N : items[i] \in X
      BY <2>1, <2>2, <2>3
    <2> HIDE DEF X, N
    <2>5. items \in [1..N -> X]
      BY <2>4
    <2>6. items \in Seq(X)
      BY <2>4, <2>5
    <2> QED
      BY <2>1, <2>6 DEF X
  <1>10. Lists(items, report, version, given, g, n)
    <2>1. given \in [1..g -> DOMAIN report.summary]
      BY <1>6
    <2> QED
      BY <1>6, <1>7, <1>8, <1>9, <2>1 DEF Lists
  <1> QED
    BY <1>1, <1>6, <1>10

\* A place among the first of a sequence, or among the others.
LEMMA TwoParts ==
    ASSUME NEW g \in Nat, NEW n \in Nat
    PROVE  /\ \A i \in 1..(g + n) : i \in 1..g \/ \E l \in 1..n : i = g + l
           /\ \A i \in 1..g : i \in 1..(g + n)
           /\ \A l \in 1..n : g + l \in 1..(g + n)
  <1>1. ASSUME NEW i \in 1..(g + n), i \notin 1..g PROVE \E l \in 1..n : i = g + l
    <2>1. i - g \in 1..n /\ i = g + (i - g)
      BY <1>1
    <2> QED
      BY <2>1
  <1>2. \A i \in 1..g : i \in 1..(g + n)
    OBVIOUS
  <1>3. \A l \in 1..n : g + l \in 1..(g + n)
    OBVIOUS
  <1> QED
    BY <1>1, <1>2, <1>3

LEMMA ItemParts ==
    /\ \A r, k : LET x == SummaryItem(r, k)
                 IN  x.id = SummaryId(k) /\ x.kind = k /\ x.content = r.summary[k]
    /\ \A r, v, l : LET x == FindingItem(r, v, l)
                    IN  /\ x.id = FindingId(v, l, r.findings[l])
                        /\ x.kind = r.findings[l].area /\ x.content = r.findings[l].content
  BY DEF SummaryItem, FindingItem

\* The items of a report have ids of their own and texts of words.
LEMMA ItemsSeparate ==
    ASSUME NEW report, NEW version, NEW given, NEW g \in Nat, NEW n \in Nat, NEW items,
           Readable(report, n), Lists(items, report, version, given, g, n)
    PROVE  /\ Separate(items)
           /\ \A x \in ToSet(items) : x.content.words \in Seq(Nat)
           /\ DOMAIN items = 1..(g + n) /\ ToSet(items) = {items[i] : i \in 1..(g + n)}
  <1>1. /\ DOMAIN items = 1..(g + n)
        /\ \A i \in 1..g : given[i] \in DOMAIN report.summary
        /\ \A i, j \in 1..g : given[i] = given[j] => i = j
        /\ \A i \in 1..g : items[i] = SummaryItem(report, given[i])
        /\ \A l \in 1..n : items[g + l] = FindingItem(report, version, l)
    BY DEF Lists
  <1>2. DOMAIN report.findings = 1..n
    BY DEF Readable
  <1>3. ASSUME NEW i \in 1..(g + n)
        PROVE  /\ items[i].content.words \in Seq(Nat)
               /\ \A j \in 1..(g + n) : items[i].id = items[j].id => i = j
    <2>1. CASE i \in 1..g
      <3>1. items[i].id = SummaryId(given[i]) /\ items[i].content = report.summary[given[i]]
        BY <1>1, <2>1, ItemParts
      <3>2. items[i].content.words \in Seq(Nat)
        BY <1>1, <2>1, <3>1 DEF Readable
      <3>3. ASSUME NEW j \in 1..(g + n), items[i].id = items[j].id PROVE i = j
        <4>1. CASE j \in 1..g
          <5>1. items[j].id = SummaryId(given[j])
            BY <1>1, <4>1, ItemParts
          <5> QED
            BY <1>1, <2>1, <3>1, <3>3, <4>1, <5>1, IdsDiffer
        <4>2. CASE \E l \in 1..n : j = g + l
          <5>1. PICK l \in 1..n : j = g + l
            BY <4>2
          <5>2. items[j].id = FindingId(version, l, report.findings[l])
            BY <1>1, <5>1, ItemParts
          <5>3. SummaryId(given[i]) = FindingId(version, l, report.findings[l])
            BY <3>1, <3>3, <5>2
          <5> QED
            BY <5>3, IdsDiffer
        <4> QED
          BY <4>1, <4>2, TwoParts
      <3> QED
        BY <3>2, <3>3
    <2>2. CASE \E l \in 1..n : i = g + l
      <3> PICK l \in 1..n : i = g + l
        BY <2>2
      <3>1. /\ items[i].id = FindingId(version, l, report.findings[l])
            /\ items[i].content = report.findings[l].content
        BY <1>1, ItemParts
      <3>2. items[i].content.words \in Seq(Nat)
        BY <1>2, <3>1 DEF Readable
      <3>3. ASSUME NEW j \in 1..(g + n), items[i].id = items[j].id PROVE i = j
        <4>1. CASE j \in 1..g
          <5>1. items[j].id = SummaryId(given[j])
            BY <1>1, <4>1, ItemParts
          <5>2. SummaryId(given[j]) = FindingId(version, l, report.findings[l])
            BY <3>1, <3>3, <5>1
          <5> QED
            BY <5>2, IdsDiffer
        <4>2. CASE \E q \in 1..n : j = g + q
          <5>1. PICK q \in 1..n : j = g + q
            BY <4>2
          <5>2. items[j].id = FindingId(version, q, report.findings[q])
            BY <1>1, <5>1, ItemParts
          <5>3. FindingId(version, l, report.findings[l])
                    = FindingId(version, q, report.findings[q])
            BY <3>1, <3>3, <5>2
          <5>4. l = q
            BY <5>3, IdsDiffer
          <5> QED
            BY <5>1, <5>4
        <4> QED
          BY <4>1, <4>2, TwoParts
      <3> QED
        BY <3>2, <3>3
    <2> QED
      BY <2>1, <2>2, TwoParts
  <1>4. Separate(items)
    BY <1>1, <1>3 DEF Separate
  <1>5. ToSet(items) = {items[i] : i \in 1..(g + n)}
    BY <1>1 DEF ToSet
  <1> QED
    BY <1>1, <1>3, <1>4, <1>5

\* The items of two versions, as they are compared.
LEMMA ItemsSuit ==
    ASSUME NEW former, NEW later, NEW v, NEW w, v # w,
           NEW m \in Nat, Readable(former, m), NEW n \in Nat, Readable(later, n),
           NEW past, NEW g \in Nat, NEW previous, Lists(previous, former, v, past, g, m),
           NEW present, NEW h \in Nat, NEW current, Lists(current, later, w, present, h, n)
    PROVE  /\ NoneTaken(previous, current)
           /\ former = later => SaySame(previous, g, current, h, n)
  <1>1. /\ Len(previous) = g + m
        /\ \A i \in 1..g : past[i] \in DOMAIN former.summary
        /\ \A k \in DOMAIN former.summary : \E i \in 1..g : past[i] = k
        /\ \A i \in 1..g : previous[i] = SummaryItem(former, past[i])
        /\ \A l \in 1..m : previous[g + l] = FindingItem(former, v, l)
    BY DEF Lists
  <1>2. /\ Len(current) = h + n
        /\ \A i \in 1..h : present[i] \in DOMAIN later.summary
        /\ \A i, j \in 1..h : present[i] = present[j] => i = j
        /\ \A k \in DOMAIN later.summary : \E i \in 1..h : present[i] = k
        /\ \A i \in 1..h : current[i] = SummaryItem(later, present[i])
        /\ \A l \in 1..n : current[h + l] = FindingItem(later, w, l)
    BY DEF Lists
  <1>3. /\ DOMAIN previous = 1..(g + m) /\ DOMAIN current = 1..(h + n)
        /\ ToSet(previous) = {previous[i] : i \in 1..(g + m)}
    <2>1. DOMAIN previous = 1..(g + m) /\ DOMAIN current = 1..(h + n)
      BY DEF Lists
    <2> QED
      BY <2>1 DEF ToSet
  <1>4. ASSUME NEW p \in ToSet(previous)
        PROVE  \/ \E k : p.id = SummaryId(k) /\ p.kind = k
               \/ \E l, f : p.id = FindingId(v, l, f)
    <2>1. PICK i \in 1..(g + m) : p = previous[i]
      BY <1>3
    <2>2. CASE i \in 1..g
      <3>1. p.id = SummaryId(past[i]) /\ p.kind = past[i]
        BY <1>1, <2>1, <2>2, ItemParts
      <3> QED
        BY <3>1
    <2>3. CASE \E l \in 1..m : i = g + l
      <3>1. PICK l \in 1..m : i = g + l
        BY <2>3
      <3>2. p.id = FindingId(v, l, former.findings[l])
        BY <1>1, <2>1, <3>1, ItemParts
      <3> QED
        BY <3>2
    <2> QED
      BY <2>2, <2>3, TwoParts
  <1>5. ASSUME NEW l \in 1..n, NEW p \in ToSet(previous) PROVE p.id # current[h + l].id
    <2>1. current[h + l].id = FindingId(w, l, later.findings[l])
      BY <1>2, ItemParts
    <2>2. CASE \E k : p.id = SummaryId(k)
      BY <2>1, <2>2, IdsDiffer
    <2>3. CASE \E q, f : p.id = FindingId(v, q, f)
      BY <2>1, <2>3, IdsDiffer
    <2> QED
      BY <1>4, <2>2, <2>3
  <1>6. ASSUME NEW i \in 1..(h + n), NEW j \in 1..(h + n), NEW p \in ToSet(previous),
               i < j, p.id = current[j].id
        PROVE  p.kind # current[i].kind
    <2>1. j \in 1..h
      <3>1. ~ \E l \in 1..n : j = h + l
        BY <1>5, <1>6
      <3> QED
        BY <3>1, TwoParts
    <2>2. i \in 1..h
      BY <1>6, <2>1
    <2>3. /\ current[j].id = SummaryId(present[j])
          /\ current[i].kind = present[i]
      BY <1>2, <2>1, <2>2, ItemParts
    <2>4. p.kind = present[j]
      <3>1. CASE \E k : p.id = SummaryId(k) /\ p.kind = k
        BY <1>6, <2>3, <3>1, IdsDiffer
      <3>2. CASE \E l, f : p.id = FindingId(v, l, f)
        BY <1>6, <2>3, <3>2, IdsDiffer
      <3> QED
        BY <1>4, <3>1, <3>2
    <2> QED
      BY <1>2, <1>6, <2>1, <2>2, <2>3, <2>4
  <1>7. NoneTaken(previous, current)
    BY <1>3, <1>6 DEF NoneTaken
  <1>8. ASSUME former = later PROVE SaySame(previous, g, current, h, n)
    <2>1. m = n
      BY <1>8 DEF Readable
    <2>2. ASSUME NEW k \in 1..g PROVE \E i \in 1..h : current[i].id = previous[k].id
      <3>1. PICK i \in 1..h : present[i] = past[k]
        BY <1>1, <1>2, <1>8
      <3>2. previous[k].id = SummaryId(past[k]) /\ current[i].id = SummaryId(present[i])
        BY <1>1, <1>2, ItemParts
      <3> QED
        BY <3>1, <3>2
    <2>3. ASSUME NEW i \in 1..h
          PROVE  \E k \in 1..g : previous[k].id = current[i].id
                                 /\ previous[k].content = current[i].content
      <3>1. PICK k \in 1..g : past[k] = present[i]
        BY <1>1, <1>2, <1>8
      <3>2. /\ previous[k].id = SummaryId(past[k]) /\ current[i].id = SummaryId(present[i])
            /\ previous[k].content = former.summary[past[k]]
            /\ current[i].content = later.summary[present[i]]
        <4>1. /\ previous[k] = SummaryItem(former, past[k])
              /\ current[i] = SummaryItem(later, present[i])
          BY <1>1, <1>2
        <4>2. /\ SummaryItem(former, past[k]).id = SummaryId(past[k])
              /\ SummaryItem(former, past[k]).content = former.summary[past[k]]
          BY DEF SummaryItem
        <4>3. /\ SummaryItem(later, present[i]).id = SummaryId(present[i])
              /\ SummaryItem(later, present[i]).content = later.summary[present[i]]
          BY DEF SummaryItem
        <4> QED
          BY <4>1, <4>2, <4>3
      <3> QED
        BY <1>8, <3>1, <3>2
    <2>4. ASSUME NEW l \in 1..n
          PROVE  /\ previous[g + l].kind = current[h + l].kind
                 /\ previous[g + l].content = current[h + l].content
      <3>1. /\ previous[g + l] = FindingItem(former, v, l)
            /\ current[h + l] = FindingItem(later, w, l)
        BY <1>1, <1>2, <2>1
      <3> QED
        BY <1>8, <3>1 DEF FindingItem
    <2> QED
      BY <1>1, <1>2, <1>5, <2>1, <2>2, <2>3, <2>4 DEF SaySame
  <1> QED
    BY <1>7, <1>8

\* What is affected by some changes.
Meaning(changes) == {c \in ToSet(changes) : c.kind \notin Preserved}

Tells(result, changes) ==
    /\ result.changes = changes
    /\ result.affectedAreas = UNION {c.areas : c \in Meaning(changes)}
    /\ result.affectedFindings = UNION {c.findings : c \in Meaning(changes)}
    /\ result.researchFirst = {c.stableId : c \in {d \in Meaning(changes) : d.research}}

LEMMA ComparedResult ==
    ASSUME NEW v, NEW w, NEW previous, NEW current,
           NEW result, result = Compare(v, w, previous, current), result.outcome = "compared",
           NEW links, links = Links(previous, current),
           NEW paired, paired = CompareItems(previous, current, links),
           NEW R, R = Removed(previous, current, paired.used, links),
           NEW changes, changes = paired.changes \o R
    PROVE  /\ v # 0 /\ ~(w <= v)
           /\ Tells(result, changes)
  <1> DEFINE refused == \/ v = 0 \/ w <= v
                        \/ \E x \in ToSet(previous) \cup ToSet(current) : x.kind = ""
             all == paired.changes \o R
             areas == UNION {c.areas : c \in Meaning(all)}
             found == UNION {c.findings : c \in Meaning(all)}
             first == {c.stableId : c \in {d \in Meaning(all) : d.research}}
  <1>1. result = IF refused THEN [outcome |-> "invalid"]
                 ELSE [outcome |-> "compared", changes |-> all, affectedAreas |-> areas,
                       affectedFindings |-> found, researchFirst |-> first]
    BY DEF Compare, Meaning
  <1>2. v = 0 \/ w <= v => refused
    OBVIOUS
  <1> HIDE DEF refused, all, areas, found, first
  <1>3. ~refused
    BY <1>1
  <1>4. /\ result.changes = all /\ result.affectedAreas = areas
        /\ result.affectedFindings = found /\ result.researchFirst = first
    BY <1>1, <1>3
  <1> QED
    BY <1>2, <1>3, <1>4 DEF all, areas, found, first, Tells

LEMMA ComparisonHolds ==
    ASSUME NEW former, NEW later, NEW v \in Nat, NEW w \in Nat, NEW m, NEW n,
           Readable(former, m), Readable(later, n),
           NEW old, NEW new, Walks(old, former), Walks(new, later),
           NEW previous, previous = reportVersionItems(former, v, old),
           NEW current, current = reportVersionItems(later, w, new),
           NoItem \notin ToSet(previous), NoItem \notin ToSet(current),
           NEW result, result = Compare(v, w, previous, current), result.outcome = "compared"
    PROVE  Compared(<<former, later>>, previous, current, result)
  <1> DEFINE links == Links(previous, current)
             paired == CompareItems(previous, current, links)
             R == Removed(previous, current, paired.used, links)
             changes == paired.changes \o R
             S == ToSet(previous) \cup ToSet(current)
             C == paired.changes
  <1>0. /\ links = Links(previous, current) /\ paired = CompareItems(previous, current, links)
        /\ R = Removed(previous, current, paired.used, links)
        /\ changes = paired.changes \o R
    OBVIOUS
  <1> HIDE DEF links, paired, R, changes
  <1>1. /\ v # 0 /\ ~(w <= v)
        /\ result.changes = changes
        /\ result.affectedAreas = UNION {c.areas : c \in Meaning(changes)}
        /\ result.affectedFindings = UNION {c.findings : c \in Meaning(changes)}
        /\ result.researchFirst = {c.stableId : c \in {d \in Meaning(changes) : d.research}}
    <2>1. v # 0 /\ ~(w <= v) /\ Tells(result, changes)
      BY <1>0, ComparedResult
    <2> QED
      BY <2>1 DEF Tells
  <1>2. /\ m \in Nat
        /\ \E past, g : g \in Nat /\ Lists(previous, former, v, past, g, m)
    BY ItemsListed
  <1>3. PICK past, g : g \in Nat /\ Lists(previous, former, v, past, g, m)
    BY <1>2
  <1>4. /\ n \in Nat
        /\ \E present, h : h \in Nat /\ Lists(current, later, w, present, h, n)
    BY ItemsListed
  <1>5. PICK present, h : h \in Nat /\ Lists(current, later, w, present, h, n)
    BY <1>4
  <1>6. v # w
    BY <1>1
  <1>7. /\ NoneTaken(previous, current)
        /\ former = later => SaySame(previous, g, current, h, n)
    BY <1>2, <1>3, <1>4, <1>5, <1>6, ItemsSuit
  <1>8. Separate(previous) /\ \A x \in ToSet(previous) : x.content.words \in Seq(Nat)
    BY <1>2, <1>3, ItemsSeparate
  <1>9. Separate(current) /\ \A x \in ToSet(current) : x.content.words \in Seq(Nat)
    BY <1>4, <1>5, ItemsSeparate
  <1>10. Worded(S, Nat)
    BY <1>8, <1>9 DEF Worded
  <1>11. previous \in Seq(S) /\ current \in Seq(S)
    <2>1. previous \in Seq(ToSet(previous)) /\ current \in Seq(ToSet(current))
      BY <1>3, <1>5 DEF Lists
    <2>2. ToSet(previous) \subseteq S /\ ToSet(current) \subseteq S
      OBVIOUS
    <2> HIDE DEF S
    <2> QED
      BY <2>1, <2>2
  <1> HIDE DEF S
  <1>12. /\ DOMAIN current \subseteq DOMAIN changes
         /\ \A i \in DOMAIN changes :
               changes[i].current = IF i \in DOMAIN current THEN current[i] ELSE NoItem
         /\ \A p \in ToSet(previous) : Followed(p, current, changes)
    <2>1. Continued(previous, current, changes)
      BY <1>0, <1>7, <1>8, <1>9, <1>10, <1>11, ItemsFollowed
    <2> QED
      BY <2>1 DEF Continued
  <1> DEFINE States(p) == {i \in DOMAIN changes : changes[i].previous = p}
             Kept(p) == /\ Cardinality(States(p)) = 1
                        /\ \A c \in ToSet(current) :
                              c.id = p.id => \E i \in States(p) : changes[i].current = c
                        /\ \/ p.related \subseteq result.affectedFindings
                           \/ \E i \in States(p) : changes[i].kind \in Preserved
  <1>13. ASSUME NEW p \in ToSet(previous) PROVE Kept(p)
    <2> DEFINE of == States(p)
    <2>1. Followed(p, current, changes)
      BY <1>12
    <2>2. PICK i \in DOMAIN changes :
              /\ of = {i}
              /\ \A c \in ToSet(current) : c.id = p.id => changes[i].current = c
              /\ p.related \subseteq changes[i].findings \/ changes[i].kind \in Preserved
      BY <2>1 DEF Followed
    <2> HIDE DEF of
    <2>3. Cardinality(of) = 1
      BY <2>2, FS_Singleton
    <2>4. changes[i].kind \notin Preserved => p.related \subseteq result.affectedFindings
      <3>1. changes[i].kind \notin Preserved => changes[i] \in Meaning(changes)
        BY DEF Meaning, ToSet
      <3> QED
        BY <1>1, <2>2, <3>1
    <2> QED
      BY <2>2, <2>3, <2>4 DEF of
  <1>14. ASSUME former = later
         PROVE  result.affectedAreas = {} /\ result.researchFirst = {}
    <2>1. /\ \E Z : C \in Seq(Z)
          /\ Matched(previous, current, links, C)
          /\ paired.used = Used(C, Len(current) + 1)
          /\ Paired(previous, current, links, Len(current), paired)
      BY <1>7, <1>8, <1>9, <1>10, <1>11, AllMatched DEF links, paired
    <2>2. /\ \A i \in 1..Len(current) : C[i].kind \in Preserved
          /\ Gone(previous, current, C) = {}
      <3>1. SaySame(previous, g, current, h, n)
        BY <1>7, <1>14
      <3> QED
        BY <1>3, <1>4, <1>5, <1>8, <1>10, <1>11, <2>1, <3>1, SameKept
    <2>3. /\ Len(R) \in Nat /\ R \in Seq(ToSet(R))
          /\ \A k \in 1..Len(R) : R[k].previous \in Gone(previous, current, C)
      <3> DEFINE used == paired.used
      <3>1. used = Used(C, Len(current) + 1)
        BY <2>1
      <3> HIDE DEF used, C
      <3>2. R = Removed(previous, current, used, links)
        BY DEF R, used
      <3> QED
        BY <1>8, <1>10, <1>11, <2>1, <3>1, <3>2, GoneRemoved
    <2>4. Len(R) = 0
      <3>1. \A k \in 1..Len(R) : FALSE
        BY <2>2, <2>3
      <3> QED
        BY <2>3, <3>1
    <2>5. PICK Z : C \in Seq(Z)
      BY <2>1
    <2>6. /\ DOMAIN changes = 1..Len(C) /\ Len(C) = Len(current)
          /\ \A i \in 1..Len(C) : changes[i] = C[i]
      <3> DEFINE Y == Z \cup ToSet(R)
      <3>1. C \in Seq(Y) /\ R \in Seq(Y)
        BY <2>3, <2>5
      <3> HIDE DEF Y, C
      <3>2. /\ DOMAIN (C \o R) = 1..(Len(C) + Len(R))
            /\ \A i \in 1..Len(C) : (C \o R)[i] = C[i]
        BY <3>1, JoinedParts
      <3>3. Len(C) + Len(R) = Len(C)
        BY <2>4, <3>1
      <3>4. changes = C \o R
        BY DEF changes, C
      <3>5. Len(C) = Len(current)
        BY <2>1 DEF Matched
      <3> QED
        BY <3>2, <3>3, <3>4, <3>5
    <2>7. Meaning(changes) = {}
      BY <2>2, <2>6 DEF Meaning, ToSet
    <2> QED
      BY <1>1, <2>7
  <1>15. <<former, later>>[1] = former /\ <<former, later>>[2] = later
    OBVIOUS
  <1> DEFINE reports == <<former, later>>
  <1>16. reports[1] = reports[2] =>
            result.affectedAreas = {} /\ result.researchFirst = {}
    BY <1>14, <1>15
  <1>17. /\ DOMAIN current \subseteq DOMAIN result.changes
         /\ \A i \in DOMAIN result.changes :
               result.changes[i].current = IF i \in DOMAIN current THEN current[i] ELSE NoItem
    BY <1>1, <1>12
  <1> DEFINE of(p) == {i \in DOMAIN result.changes : result.changes[i].previous = p}
  <1>18. ASSUME NEW p \in ToSet(previous)
         PROVE  /\ Cardinality(of(p)) = 1
                /\ \A c \in ToSet(current) :
                      c.id = p.id => \E i \in of(p) : result.changes[i].current = c
                /\ \/ p.related \subseteq result.affectedFindings
                   \/ \E i \in of(p) : result.changes[i].kind \in Preserved
    <2>1. Kept(p) /\ of(p) = States(p)
      BY <1>1, <1>13
    <2> HIDE DEF of, States
    <2> QED
      BY <1>1, <2>1
  <1> HIDE DEF reports
  <1>19. Compared(reports, previous, current, result)
    BY <1>16, <1>17, <1>18, Zenon DEF Compared
  <1> QED
    BY <1>19 DEF reports

-----------------------------------------------------------------------------
(* The properties of Requests.                                             *)

\* The request that is being answered, and its answer.
Answers(r, a) == request = r /\ answer = a

AnswersCompare ==
    \E p, c \in Reports, v \in Versions, order \in Orders :
        LET previous == reportVersionItems(p, v[1], order[1])
            current  == reportVersionItems(c, v[2], order[2])
        IN  Answers([handler |-> "compare", reports |-> <<p, c>>, previous |-> previous,
                     current |-> current],
                    Compare(v[1], v[2], previous, current))
AnswersPlan ==
    \E r \in PlanRequests, a \in PlanAnswers :
        Answers([handler |-> "plan", plan |-> r, given |-> a], CreateValidationPlan(r, a))
AnswersFindings ==
    \E kind \in DOMAIN Findings : \E f \in Findings[kind] :
        Answers([handler |-> "findings", kind |-> kind, given |-> f], Accept(kind, f, Blocks))
AnswersImprove ==
    \E d \in Defects, p \in Plans, c \in Claims :
        Answers([handler |-> "improve", given |-> d, original |-> p, claims |-> c],
                improveExistingPlan(d, p, c))
AnswersQuality ==
    \E cases \in CaseLists, m \in Minima, b \in {"none", "missing", "stored"} :
        Answers([handler |-> "quality", cases |-> cases, minima |-> m],
                RecordQualityRun(cases, m, b))
AnswersResearch ==
    \E a \in Assumptions, l \in Limits :
        Answers([handler |-> "research", given |-> a, limit |-> l], BuildPlan(a, l))

\* The inductive invariant: what is answered is what a handler makes of one of
\* the inputs, or nothing.
Served ==
    \/ Free \/ AnswersCompare
    \/ AnswersPlan \/ AnswersFindings \/ AnswersImprove \/ AnswersQuality \/ AnswersResearch

LEMMA ServedStays == Served /\ [Serve]_exchange => Served'
  <1> SUFFICES ASSUME Served, [Serve]_exchange PROVE Served'
    OBVIOUS
  <1>1. CASE CompareVersions
    <2>1. AnswersCompare'
      BY <1>1 DEF CompareVersions, Handle, AnswersCompare, Answers
    <2> QED
      BY <2>1 DEF Served
  <1>2. CASE PlanValidation
    <2>1. AnswersPlan'
      BY <1>2 DEF PlanValidation, Handle, AnswersPlan, Answers
    <2> QED
      BY <2>1 DEF Served
  <1>3. CASE KeepFindings
    <2>1. AnswersFindings'
      BY <1>3 DEF KeepFindings, Handle, AnswersFindings, Answers
    <2> QED
      BY <2>1 DEF Served
  <1>4. CASE ImproveExistingPlan
    <2>1. AnswersImprove'
      BY <1>4 DEF ImproveExistingPlan, Handle, AnswersImprove, Answers
    <2> QED
      BY <2>1 DEF Served
  <1>5. CASE RecordQuality
    <2>1. AnswersQuality'
      BY <1>5 DEF RecordQuality, Handle, AnswersQuality, Answers
    <2> QED
      BY <2>1 DEF Served
  <1>6. CASE PlanResearch
    <2>1. AnswersResearch'
      BY <1>6 DEF PlanResearch, Handle, AnswersResearch, Answers
    <2> QED
      BY <2>1 DEF Served
  <1>7. CASE Leave
    BY <1>7 DEF Leave, Served, Free
  <1>8. CASE UNCHANGED exchange
    BY <1>8 DEF exchange, Served, Free, AnswersCompare, AnswersPlan, AnswersFindings, AnswersImprove,
                AnswersQuality, AnswersResearch, Answers
  <1> QED
    BY <1>1, <1>2, <1>3, <1>4, <1>5, <1>6, <1>7, <1>8 DEF Serve

LEMMA AlwaysServed == Service => []Served
  <1>1. Free => Served
    BY DEF Served
  <1> QED
    BY <1>1, ServedStays, PTL DEF Service

\* The handler of each answer.
LEMMA HandlerKnown ==
    ASSUME Served
    PROVE  /\ request.handler = "compare" => AnswersCompare
           /\ request.handler = "plan" => AnswersPlan
           /\ request.handler = "findings" => AnswersFindings
           /\ request.handler = "improve" => AnswersImprove
           /\ request.handler = "quality" => AnswersQuality
           /\ request.handler = "research" => AnswersResearch
  <1>1. Free => request.handler = "none"
    BY DEF Free, Idle
  <1>2. AnswersPlan => request.handler = "plan"
    BY DEF AnswersPlan, Answers
  <1>3. AnswersFindings => request.handler = "findings"
    BY DEF AnswersFindings, Answers
  <1>4. AnswersImprove => request.handler = "improve"
    BY DEF AnswersImprove, Answers
  <1>5. AnswersQuality => request.handler = "quality"
    BY DEF AnswersQuality, Answers
  <1>6. AnswersResearch => request.handler = "research"
    BY DEF AnswersResearch, Answers
  <1>7. AnswersCompare => request.handler = "compare"
    BY DEF AnswersCompare, Answers
  <1> QED
    BY <1>1, <1>2, <1>3, <1>4, <1>5, <1>6, <1>7 DEF Served

(* The gate of a quality run opens only if every metric was measured and   *)
(* reaches a minimum above zero, over ten cases or more of all required    *)
(* categories, for any cases, minima and baseline.                         *)
THEOREM GateIsSound == Service => []GateSound
  <1>1. Served => GateSound
    <2> SUFFICES ASSUME Served PROVE GateSound
      OBVIOUS
    <2>1. CASE AnswersQuality
      <3>1. PICK cases \in CaseLists, m \in Minima, b \in {"none", "missing", "stored"} :
                 Answers([handler |-> "quality", cases |-> cases, minima |-> m],
                         RecordQualityRun(cases, m, b))
        BY <2>1 DEF AnswersQuality
      <3>2. cases \in Seq(Case) /\ m \in [Metrics -> Nat] \cup {NoMinima}
        BY Inputs
      <3>3. request.cases = cases /\ request.minima = m /\ answer = RecordQualityRun(cases, m, b)
        BY <3>1 DEF Answers
      <3> QED
        BY <3>2, <3>3, GateHolds
    <2>2. CASE request.handler # "quality"
      BY <2>2 DEF GateSound, Answered
    <2> QED
      BY <2>1, <2>2, HandlerKnown
  <1> QED
    BY <1>1, AlwaysServed, PTL

(* Whatever the language model answers, a validation plan that reaches the *)
(* client is complete, a well-formed answer is never refused, and findings *)
(* are kept only if they can be traced to the document.                    *)
THEOREM ValidationIsSound == Service => []ValidationSound
  <1>1. Served => PolicySufficient
    <2> SUFFICES ASSUME Served PROVE PolicySufficient
      OBVIOUS
    <2>1. CASE AnswersPlan
      <3>1. PICK r \in PlanRequests, a \in PlanAnswers :
                 Answers([handler |-> "plan", plan |-> r, given |-> a],
                         CreateValidationPlan(r, a))
        BY <2>1 DEF AnswersPlan
      <3>2. /\ IsFiniteSet(r.drivers) /\ \A d \in r.drivers : d.id \in STRING
            /\ a \in Seq(PlanItem)
        BY Inputs
      <3>3. request.plan = r /\ request.given = a /\ answer = CreateValidationPlan(r, a)
        BY <3>1 DEF Answers
      <3> QED
        BY <3>2, <3>3, PlanHolds
    <2>2. CASE request.handler # "plan"
      BY <2>2 DEF PolicySufficient
    <2> QED
      BY <2>1, <2>2, HandlerKnown
  <1>2. Served => FindingsTraceable
    <2> SUFFICES ASSUME Served PROVE FindingsTraceable
      OBVIOUS
    <2>1. CASE AnswersFindings
      <3>1. PICK kind \in DOMAIN Findings : \E f \in Findings[kind] :
                 Answers([handler |-> "findings", kind |-> kind, given |-> f],
                         Accept(kind, f, Blocks))
        BY <2>1 DEF AnswersFindings
      <3>2. PICK f \in Findings[kind] :
                 Answers([handler |-> "findings", kind |-> kind, given |-> f],
                         Accept(kind, f, Blocks))
        BY <3>1
      <3>3. kind \in {"alignment", "contradiction", "gap", "quality"} /\ f \in Seq(Finding)
        BY Inputs
      <3>4. /\ request.handler = "findings" /\ request.kind = kind /\ request.given = f
            /\ answer = Accept(kind, f, Blocks)
        BY <3>2 DEF Answers
      <3> QED
        BY <3>3, <3>4, FindingsHold
    <2>2. CASE request.handler # "findings"
      BY <2>2 DEF FindingsTraceable
    <2> QED
      BY <2>1, <2>2, HandlerKnown
  <1> QED
    BY <1>1, <1>2, AlwaysServed, PTL DEF ValidationSound

(* Every kind of dependency of every assumption has its task in the plan   *)
(* of a research, in the order of priority and then of the assumptions,    *)
(* for any number of assumptions.                                          *)
THEOREM ResearchIsPlanned == Service => []ResearchPlanned
  <1>1. Served => ResearchPlanned
    <2> SUFFICES ASSUME Served PROVE ResearchPlanned
      OBVIOUS
    <2>1. CASE AnswersResearch
      <3>1. PICK a \in Assumptions, l \in Limits :
                 Answers([handler |-> "research", given |-> a, limit |-> l], BuildPlan(a, l))
        BY <2>1 DEF AnswersResearch
      <3>2. /\ a \in Seq(ToSet(a))
            /\ \A i \in DOMAIN a : a[i].kinds \in Seq(STRING) /\ a[i].likelihood \in Nat
            /\ \A i, j \in DOMAIN a : a[i].id = a[j].id => i = j
            /\ l \in [DOMAIN Defaults -> Nat]
        BY Inputs
      <3> DEFINE n == Len(a)
      <3>3. n \in Nat /\ DOMAIN a = 1..n
        BY <3>2
      <3>4. request.given = a /\ answer = BuildPlan(a, l)
        BY <3>1 DEF Answers
      <3> HIDE DEF n
      <3> QED
        BY <3>2, <3>3, <3>4, ResearchHolds
    <2>2. CASE request.handler # "research"
      BY <2>2 DEF ResearchPlanned, Answered
    <2> QED
      BY <2>1, <2>2, HandlerKnown
  <1> QED
    BY <1>1, AlwaysServed, PTL

(* An improved plan resolves every finding a verified claim with evidence  *)
(* is about and no other, by one change each, blocking ones first, and the *)
(* changes of a section follow on one another, for any plan, findings and  *)
(* claims.                                                                 *)
THEOREM ImprovementIsSound == Service => []ImprovementSound
  <1>1. Served => ImprovementSound
    <2> SUFFICES ASSUME Served PROVE ImprovementSound
      OBVIOUS
    <2>1. CASE AnswersImprove
      <3>1. PICK d \in Defects, p \in Plans, c \in Claims :
                 Answers([handler |-> "improve", given |-> d, original |-> p, claims |-> c],
                         improveExistingPlan(d, p, c))
        BY <2>1 DEF AnswersImprove
      <3>2. /\ d \in Seq(ToSet(d)) /\ \A i \in DOMAIN d : d[i].id \in STRING
            /\ p \in Seq(Sections(STRING))
            /\ c \in Seq(ToSet(c))
            /\ \A i \in DOMAIN c : c[i].id \in STRING /\ c[i].evidence \in SUBSET STRING
        BY Inputs DEF Section, Sections
      <3> DEFINE n == Len(d)
                 m == Len(c)
      <3>3. n \in Nat /\ DOMAIN d = 1..n /\ m \in Nat /\ DOMAIN c = 1..m
        BY <3>2
      <3>4. /\ request.given = d /\ request.original = p /\ request.claims = c
            /\ answer = improveExistingPlan(d, p, c)
        BY <3>1 DEF Answers
      <3>5. n = Len(d) /\ m = Len(c)
        OBVIOUS
      <3> HIDE DEF n, m
      <3> QED
        BY <3>2, <3>3, <3>4, <3>5, ImprovementHolds
    <2>2. CASE request.handler # "improve"
      BY <2>2 DEF ImprovementSound, Answered
    <2> QED
      BY <2>1, <2>2, HandlerKnown
  <1> QED
    BY <1>1, AlwaysServed, PTL

(* Whatever two reports say and however a map is walked, every item of the *)
(* later version has its change and every item of the earlier one is the   *)
(* former state of exactly one; what is evaluated again holds every        *)
(* earlier finding that does not go on with its meaning, and a report that *)
(* says the same affects nothing.                                          *)
THEOREM ComparisonIsSound == Service => []ComparisonSound
  <1>1. Served => ComparisonSound
    <2> SUFFICES ASSUME Served PROVE ComparisonSound
      OBVIOUS
    <2>1. CASE AnswersCompare
      <3>1. PICK former \in Reports, later \in Reports, v \in Versions, order \in Orders :
                 LET previous == reportVersionItems(former, v[1], order[1])
                     current  == reportVersionItems(later, v[2], order[2])
                 IN  Answers([handler |-> "compare", reports |-> <<former, later>>,
                              previous |-> previous, current |-> current],
                             Compare(v[1], v[2], previous, current))
        BY <2>1 DEF AnswersCompare
      <3> DEFINE previous == reportVersionItems(former, v[1], order[1])
                 current  == reportVersionItems(later, v[2], order[2])
                 m == Len(former.findings)
                 n == Len(later.findings)
      <3>2. v[1] \in Nat /\ v[2] \in Nat
        BY Inputs
      <3>3. Readable(former, m) /\ Readable(later, n)
        BY Inputs DEF Readable
      <3>4. Walks(order[1], former) /\ Walks(order[2], later)
        BY Inputs DEF Walks
      <3>5. NoItem \notin ToSet(previous) /\ NoItem \notin ToSet(current)
        BY Inputs
      <3>6. /\ request.reports = <<former, later>>
            /\ request.previous = previous /\ request.current = current
            /\ answer = Compare(v[1], v[2], previous, current)
        BY <3>1 DEF Answers
      <3>7. ASSUME answer.outcome = "compared"
            PROVE  Compared(<<former, later>>, previous, current, answer)
        <4> DEFINE a == v[1]
                   b == v[2]
                   old == order[1]
                   new == order[2]
                   past == previous
                   present == current
        <4>1. /\ past = reportVersionItems(former, a, old)
              /\ present = reportVersionItems(later, b, new)
          OBVIOUS
        <4> HIDE DEF a, b, old, new, past, present, m, n
        <4>2. a \in Nat /\ b \in Nat /\ Walks(old, former) /\ Walks(new, later)
          BY <3>2, <3>4 DEF a, b, old, new
        <4>3. /\ NoItem \notin ToSet(past) /\ NoItem \notin ToSet(present)
              /\ answer = Compare(a, b, past, present)
          BY <3>5, <3>6 DEF a, b, past, present
        <4>4. Compared(<<former, later>>, past, present, answer)
          BY <3>3, <3>7, <4>1, <4>2, <4>3, ComparisonHolds
        <4> QED
          BY <4>4 DEF past, present
      <3> QED
        BY <3>6, <3>7 DEF ComparisonSound, Answered
    <2>2. CASE request.handler # "compare"
      BY <2>2 DEF ComparisonSound, Answered
    <2> QED
      BY <2>1, <2>2, HandlerKnown
  <1> QED
    BY <1>1, AlwaysServed, PTL

-----------------------------------------------------------------------------
(* The members of a project.  The inductive invariant adds to the checked  *)
(* invariants which rows a transaction has locked, that two owners in the  *)
(* middle of stepping down have set overlap, and that one alone has seen a *)
(* second owner.                                                           *)


Managing(c) == pc[c] \in {"count", "upsert", "commit"}
Leaving(c) == pc[c] \in {"upsert", "commit"} /\ StepsDown(c)

RoleChecked == \A c \in Call :
    pc[c] = "select" \/ Managing(c) => args[c].role \in Role
RowsLocked == \A c \in Call :
    /\ Managing(c) => lock[args[c].actor] = c
    /\ pc[c] = "commit" => lock[args[c].subject] = c
RacesNoted == \A c, d \in Call : Leaving(c) /\ Leaving(d) /\ c # d => overlap
AnotherOwner == \A c \in Call :
    Leaving(c) /\ ~overlap => \E s \in Owners : s # args[c].actor

IInv ==
    /\ TypeOK /\ RoleChecked /\ RowsLocked /\ AuthorityHeld
    /\ RacesNoted /\ AnotherOwner /\ OwnerRetained

USE DEF Role, Args, Pc, Outcome, CanManageMembers, Valid, CanEdit, StepsDown

-----------------------------------------------------------------------------
LEMMA NoArgsType == NoArgs \in Args
  <1>1. PICK s \in Subject : TRUE
    BY Constants
  <1>2. [actor |-> s, subject |-> s, role |-> "owner"] \in Args
    OBVIOUS
  <1>3. \E a \in Args : TRUE
    BY <1>2
  <1> HIDE DEF Args
  <1> QED
    BY <1>3 DEF NoArgs

LEMMA InitIInv == Init => IInv
  <1> SUFFICES ASSUME Init PROVE IInv
    OBVIOUS
  <1>1. TypeOK
    BY NoArgsType DEF Init, TypeOK
  <1>2. \A c \in Call : pc[c] = "new"
    BY DEF Init
  <1>3. RoleChecked /\ RowsLocked /\ AuthorityHeld /\ RacesNoted /\ AnotherOwner
    BY <1>2 DEF RoleChecked, RowsLocked, AuthorityHeld, RacesNoted, AnotherOwner,
       Managing, Leaving
  <1>4. OwnerRetained
    BY DEF Init, OwnerRetained
  <1> QED
    BY <1>1, <1>3, <1>4 DEF IInv

\* Whatever ends a call without changing a role keeps the invariant.
LEMMA FinishIInv ==
  ASSUME IInv, NEW c \in Call, NEW outcome \in Outcome, Finish(c, outcome),
         UNCHANGED <<created, role, overlap>>, name' \in Call \cup {None}
  PROVE  IInv'
  <1> USE NoArgsType, Constants DEF IInv, Finish, TypeOK
  <1>1. TypeOK'
    OBVIOUS
  <1>2. \A d \in Call : (Managing(d)' \/ pc'[d] = "select") =>
            d # c /\ pc'[d] = pc[d] /\ args'[d] = args[d]
    BY DEF Managing
  <1>3. Owners' = Owners
    BY DEF Owners
  <1>4. RoleChecked'
    BY <1>2 DEF RoleChecked, Managing
  <1>5. RowsLocked'
    BY <1>2 DEF RowsLocked, Managing
  <1>6. AuthorityHeld'
    BY <1>2 DEF AuthorityHeld, Managing
  <1>7. RacesNoted'
    BY <1>2 DEF RacesNoted, Leaving, Managing
  <1>8. AnotherOwner'
    BY <1>2, <1>3 DEF AnotherOwner, Leaving, Managing
  <1>9. OwnerRetained'
    BY <1>3 DEF OwnerRetained
  <1> QED
    BY <1>1, <1>4, <1>5, <1>6, <1>7, <1>8, <1>9

LEMMA CreateIInv ==
  ASSUME IInv, NEW s \in Subject, Create(s)
  PROVE  IInv'
  <1> USE DEF IInv, Create, TypeOK
  <1>1. s \in Owners' /\ Owners \subseteq Owners'
    BY DEF Owners
  <1>2. TypeOK' /\ RoleChecked' /\ RowsLocked' /\ RacesNoted'
    BY DEF RoleChecked, RowsLocked, RacesNoted, Leaving, Managing
  <1>3. AuthorityHeld'
    BY DEF AuthorityHeld
  <1>4. AnotherOwner' /\ OwnerRetained'
    BY <1>1 DEF AnotherOwner, OwnerRetained, Leaving
  <1> QED
    BY <1>2, <1>3, <1>4

\* A call that begins is neither managing nor leaving.
LEMMA BeginIInv ==
  ASSUME IInv, NEW c \in Call, NEW a \in Args, NEW first \in {"select", "readRole"},
         first = "select" => a.role \in Role,
         args' = [args EXCEPT ![c] = a], pc' = [pc EXCEPT ![c] = first],
         UNCHANGED <<created, role, name, lock, overlap>>
  PROVE  IInv'
  <1> USE DEF IInv, TypeOK
  <1>1. TypeOK'
    OBVIOUS
  <1>2. \A d \in Call : Managing(d)' =>
            d # c /\ pc'[d] = pc[d] /\ args'[d] = args[d]
    BY DEF Managing
  <1>3. RoleChecked' /\ RowsLocked' /\ AuthorityHeld'
    BY <1>2 DEF RoleChecked, RowsLocked, AuthorityHeld, Managing
  <1>4. RacesNoted' /\ AnotherOwner' /\ OwnerRetained'
    BY <1>2 DEF RacesNoted, AnotherOwner, OwnerRetained, Leaving, Managing, Owners
  <1> QED
    BY <1>1, <1>3, <1>4

LEMMA SelectActorIInv ==
  ASSUME IInv, NEW c \in Call, SelectActor(c)
  PROVE  IInv'
  <1> DEFINE a == args[c].actor
  <1>1. CASE Finish(c, "forbidden")
    BY <1>1, FinishIInv DEF SelectActor, IInv, TypeOK
  <1>2. CASE /\ Available(c, a) /\ role[a] = "owner"
             /\ lock' = [lock EXCEPT ![a] = c]
             /\ pc' = [pc EXCEPT ![c] = IF StepsDown(c) THEN "count" ELSE "upsert"]
             /\ UNCHANGED args
    <2> USE <1>2, Constants DEF IInv, TypeOK, SelectActor, Available
    <2>1. TypeOK' /\ pc[c] = "select"
      OBVIOUS
    <2>2. \A d \in Call \ {c} : pc'[d] = pc[d]
      OBVIOUS
    <2>3. RoleChecked'
      BY <2>1, <2>2 DEF RoleChecked, Managing
    <2>4. RowsLocked'
      BY <2>1, <2>2 DEF RowsLocked, Managing
    <2>5. AuthorityHeld'
      BY <2>1, <2>2 DEF AuthorityHeld
    <2>6. \A d \in Call : Leaving(d)' => Leaving(d)
      BY <2>1, <2>2 DEF Leaving
    <2>7. RacesNoted' /\ AnotherOwner' /\ OwnerRetained'
      BY <2>6 DEF RacesNoted, AnotherOwner, OwnerRetained, Owners
    <2> QED
      BY <2>1, <2>3, <2>4, <2>5, <2>7
  <1> QED
    BY <1>1, <1>2 DEF SelectActor

\* An owner who does not count exactly one owner is not the only one.
LEMMA CountOwnersIInv ==
  ASSUME IInv, NEW c \in Call, CountOwners(c)
  PROVE  IInv'
  <1>1. CASE Cardinality(Owners) = 1
    BY <1>1, FinishIInv DEF CountOwners, IInv, TypeOK
  <1>2. CASE Cardinality(Owners) # 1
    <2> USE <1>2 DEF IInv, TypeOK, CountOwners
    <2>1. TypeOK' /\ pc[c] = "count" /\ Owners' = Owners
      BY DEF Owners
    <2>2. \A d \in Call \ {c} : pc'[d] = pc[d]
      OBVIOUS
    <2>3. RoleChecked' /\ RowsLocked' /\ AuthorityHeld'
      BY <2>1, <2>2 DEF RoleChecked, RowsLocked, AuthorityHeld, Managing
    <2>4. args[c].actor \in Owners
      BY <2>1 DEF AuthorityHeld, Owners
    <2>5. PICK s \in Owners : s # args[c].actor
      <3>1. Cardinality({args[c].actor}) = 1
        BY FS_Singleton
      <3> QED
        BY <3>1, <2>4, ZenonT(30)
    <2>6. \A d \in Call \ {c} : Leaving(d)' = Leaving(d)
      BY <2>2 DEF Leaving
    <2>7. \A d \in Call \ {c} : Leaving(d) => overlap'
      BY DEF Leaving
    <2>8. RacesNoted'
      BY <2>6, <2>7 DEF RacesNoted
    <2>9. AnotherOwner' /\ OwnerRetained'
      BY <2>1, <2>5, <2>6, <2>7 DEF AnotherOwner, OwnerRetained
    <2> QED
      BY <2>1, <2>3, <2>8, <2>9
  <1> QED
    BY <1>1, <1>2

LEMMA UpsertIInv ==
  ASSUME IInv, NEW c \in Call, Upsert(c)
  PROVE  IInv'
  <1> USE Constants DEF IInv, TypeOK, Upsert, Available
  <1>1. TypeOK'
    OBVIOUS
  <1>2. \A d \in Call : Leaving(d)' = Leaving(d) /\ Managing(d)' = Managing(d)
    BY DEF Leaving, Managing
  <1>3. RoleChecked' /\ AuthorityHeld' /\ RacesNoted' /\ AnotherOwner' /\ OwnerRetained'
    BY <1>2 DEF RoleChecked, AuthorityHeld, RacesNoted, AnotherOwner,
       OwnerRetained, Owners, Managing
  <1>4. RowsLocked'
    BY <1>2 DEF RowsLocked, Managing
  <1> QED
    BY <1>1, <1>3, <1>4

\* The row locks make the other owner seen by a leaving one outlast any other
\* commit, unless that commit is of a second one leaving.
LEMMA CommitIInv ==
  ASSUME IInv, NEW c \in Call, Commit(c)
  PROVE  IInv'
  <1> USE NoArgsType, Constants DEF IInv, TypeOK, Commit, Finish
  <1> DEFINE a == args[c].actor
             t == args[c].subject
             r == args[c].role
  <1>1. r \in Role /\ lock[a] = c /\ lock[t] = c /\ role[a] = "owner"
    BY DEF RoleChecked, RowsLocked, AuthorityHeld, Managing
  <1>2. TypeOK'
    BY <1>1
  <1>3. \A d \in Call : (Managing(d)' \/ pc'[d] = "select") =>
            d # c /\ pc'[d] = pc[d] /\ args'[d] = args[d]
    BY DEF Managing
  <1>4. \A d \in Call : Managing(d)' => args[d].actor \notin {a, t}
    BY <1>1, <1>3 DEF RowsLocked, Managing
  <1>5. RoleChecked' /\ RowsLocked'
    BY <1>3 DEF RoleChecked, RowsLocked, Managing
  <1>6. AuthorityHeld'
    BY <1>3, <1>4 DEF AuthorityHeld, Managing
  <1>7. RacesNoted'
    BY <1>3 DEF RacesNoted, Leaving, Managing
  <1>8. CASE a = t /\ r # "owner"
    <2>1. Leaving(c)
      BY <1>8 DEF Leaving
    <2>2. \A d \in Call : Leaving(d)' => overlap'
      BY <2>1, <1>3 DEF RacesNoted, Leaving, Managing
    <2>3. ~overlap => \E s \in Owners' : TRUE
      BY <2>1, <1>8 DEF AnotherOwner, Owners
    <2>4. AnotherOwner' /\ OwnerRetained'
      BY <2>2, <2>3 DEF AnotherOwner, OwnerRetained
    <2> QED
      BY <2>4, <1>2, <1>5, <1>6, <1>7
  <1>9. CASE ~(a = t /\ r # "owner")
    <2>1. a \in Owners'
      BY <1>1, <1>9 DEF Owners
    <2>2. AnotherOwner'
      BY <2>1, <1>4 DEF AnotherOwner, Leaving, Managing
    <2>3. OwnerRetained'
      BY <2>1 DEF OwnerRetained
    <2> QED
      BY <2>2, <2>3, <1>2, <1>5, <1>6, <1>7
  <1> QED
    BY <1>8, <1>9

LEMMA ReadRoleIInv ==
  ASSUME IInv, NEW c \in Call, ReadRole(c)
  PROVE  IInv'
  <1>1. CASE Finish(c, "forbidden")
    BY <1>1, FinishIInv DEF ReadRole, IInv, TypeOK
  <1>2. CASE pc' = [pc EXCEPT ![c] = "update"] /\ UNCHANGED <<lock, args>>
    <2> USE <1>2 DEF IInv, TypeOK, ReadRole
    <2>1. TypeOK' /\ Owners' = Owners
      BY DEF Owners
    <2>2. \A d \in Call : Managing(d)' = Managing(d) /\ Leaving(d)' = Leaving(d)
                          /\ (pc'[d] = "select" => pc[d] = "select")
                          /\ (pc'[d] = "commit" => pc[d] = "commit")
      BY DEF Managing, Leaving
    <2>3. RoleChecked' /\ RowsLocked' /\ AuthorityHeld'
      BY <2>2 DEF RoleChecked, RowsLocked, AuthorityHeld, Managing
    <2>4. RacesNoted' /\ AnotherOwner' /\ OwnerRetained'
      BY <2>1, <2>2 DEF RacesNoted, AnotherOwner, OwnerRetained
    <2> QED
      BY <2>1, <2>3, <2>4
  <1> QED
    BY <1>1, <1>2 DEF ReadRole

LEMMA StepIInv == IInv /\ [Next]_vars => IInv'
  <1> SUFFICES ASSUME IInv, [Next]_vars PROVE IInv'
    OBVIOUS
  <1>1. ASSUME NEW s \in Subject, Create(s) PROVE IInv'
    BY <1>1, CreateIInv
  <1>2. ASSUME NEW c \in Call, NEW a \in Args, BeginSetMemberRole(c, a) PROVE IInv'
    <2>1. CASE Valid(a.role)
      BY <1>2, <2>1, BeginIInv DEF BeginSetMemberRole
    <2>2. CASE ~Valid(a.role)
      BY <1>2, <2>2, FinishIInv DEF BeginSetMemberRole, IInv, TypeOK
    <2> QED
      BY <2>1, <2>2
  <1>3. ASSUME NEW c \in Call, NEW s \in Subject, BeginUpdate(c, s) PROVE IInv'
    <2>1. [NoArgs EXCEPT !.actor = s] \in Args
      BY NoArgsType
    <2> QED
      BY <1>3, <2>1, BeginIInv DEF BeginUpdate
  <1>4. ASSUME NEW c \in Call, Statement(c) PROVE IInv'
    <2>1. ASSUME UpdateProject(c) PROVE IInv'
      BY <2>1, FinishIInv DEF UpdateProject
    <2> QED
      BY <1>4, <2>1, SelectActorIInv, CountOwnersIInv, UpsertIInv, CommitIInv,
         ReadRoleIInv DEF Statement
  <1>5. ASSUME NEW c \in Call, Abort(c) \/ DeadlockVictim(c) PROVE IInv'
    BY <1>5, FinishIInv DEF Abort, DeadlockVictim, IInv, TypeOK
  <1>6. CASE UNCHANGED vars
    <2>1. UNCHANGED <<created, role, name, lock, pc, args, overlap>>
      BY <1>6 DEF vars
    <2> QED
      BY <2>1 DEF IInv, TypeOK, RoleChecked, RowsLocked, AuthorityHeld, RacesNoted,
         AnotherOwner, OwnerRetained, Managing, Leaving, Owners
  <1> QED
    BY <1>1, <1>2, <1>3, <1>4, <1>5, <1>6 DEF Next

LEMMA Inductive == Spec => []IInv
  BY InitIInv, StepIInv, PTL DEF Spec

-----------------------------------------------------------------------------
\* The state of the members store keeps its types (repository.go).
THEOREM MembersTyped == Spec => []TypeOK
  <1>1. IInv => TypeOK
    BY DEF IInv
  <1> QED
    BY <1>1, Inductive, PTL

\* SetMemberRole: its actor is an owner from the check to the commit.
THEOREM AuthorityIsHeld == Spec => []AuthorityHeld
  <1>1. IInv => AuthorityHeld
    BY DEF IInv
  <1> QED
    BY <1>1, Inductive, PTL

\* SetMemberRole keeps an owner unless two owners step down together.
THEOREM OwnerIsRetained == Spec => []OwnerRetained
  <1>1. IInv => OwnerRetained
    BY DEF IInv
  <1> QED
    BY <1>1, Inductive, PTL

\* A project without owners stays without owners.
THEOREM OwnerlessIsForever == Spec => OwnerlessForever
  <1>1. IInv /\ [Next]_vars => [created /\ Owners = {} => Owners' = {}]_vars
    <2> SUFFICES ASSUME IInv, Next, created, Owners = {} PROVE Owners' = {}
      OBVIOUS
    <2>1. \A c \in Call : ~Commit(c)
      BY DEF IInv, AuthorityHeld, TypeOK, Commit, Owners
    <2>2. \A s \in Subject : ~Create(s)
      BY DEF Create
    <2>3. role' = role
      BY <2>1, <2>2 DEF Next, BeginSetMemberRole, BeginUpdate, Statement, SelectActor,
         CountOwners, Upsert, ReadRole, UpdateProject, Abort, DeadlockVictim
    <2> QED
      BY <2>3 DEF Owners
  <1> QED
    BY <1>1, Inductive, PTL DEF Spec, OwnerlessForever
===============================================================================
