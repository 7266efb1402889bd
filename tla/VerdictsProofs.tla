--------------------------- MODULE VerdictsProofs ---------------------------
(***************************************************************************)
(* Proofs about Verdicts for any problems, dimensions and detections, any  *)
(* number of versions and any number of objections and revisions that      *)
(* interleave and break off.                                               *)
(***************************************************************************)
EXTENDS Verdicts, SequenceTheorems, TLAPS

-----------------------------------------------------------------------------
(* The verdict rules.                                                      *)

IsReport(r) ==
    /\ IsFindings(r.findings)
    /\ r.unverified \in BOOLEAN
    /\ r = Assemble(r.findings, r.unverified)

LEMMA FindingTyped ==
  ASSUME NEW d \in Detection
  PROVE  FindingInput(d) \in Finding
  <1>1. d.area \in Area
    BY Constants
  <1>2. AreaString(d.area) \in {AreaString(a) : a \in Area}
    BY <1>1
  <1>3. severity(d) \in Severity
    BY DEF severity, Severity
  <1>4. FindingStatus(d) \in {"open", "unverified"}
    BY DEF FindingStatus
  <1>5. (d.severity = "blocking" /\ d.area # "work_quality") \in BOOLEAN
    OBVIOUS
  <1> QED
    BY <1>2, <1>3, <1>4, <1>5 DEF FindingInput, Finding

\* Whatever an evaluation finds, the report service receives well-formed
\* findings with the ids of the version or of their dimension.
LEMMA FindingsTyped ==
  ASSUME NEW v \in Version, NEW D \in Evaluation
  PROVE  IsFindings(findingInputs(v, D))
  <1>1. PICK S \in SUBSET (Problem \cup Dimension) : D \in [S -> Detection]
    BY DEF Evaluation
  <1> DEFINE F == findingInputs(v, D)
  <1>2. DOMAIN F = {identifier(v, p) : p \in S}
    BY <1>1 DEF findingInputs
  <1>3. ASSUME NEW p \in S
        PROVE  identifier(v, p) \in FindingId /\ identifier(v, p)[2] = p
    BY Constants DEF identifier, FindingId, Version
  <1>4. \A i \in DOMAIN F : i \in FindingId /\ F[i] \in Finding
    <2> SUFFICES ASSUME NEW i \in DOMAIN F
                 PROVE  i \in FindingId /\ F[i] \in Finding
      OBVIOUS
    <2>1. PICK p \in S : i = identifier(v, p)
      BY <1>2
    <2>2. F[i] = FindingInput(D[p])
      BY <2>1, <1>2, <1>3 DEF findingInputs
    <2>3. D[p] \in Detection
      BY <1>1
    <2> QED
      BY <2>1, <2>2, <2>3, <1>3, FindingTyped
  <1>5. F = [i \in DOMAIN F |-> F[i]]
    BY DEF findingInputs
  <1> QED
    BY <1>4, <1>5 DEF IsFindings

\* No finding is settled when it is reported, so both rules see all of them.
LEMMA AllLive ==
  ASSUME NEW F, IsFindings(F)
  PROVE  {i \in DOMAIN F : F[i].status \notin {"withdrawn", "resolved"}} = DOMAIN F
  BY DEF IsFindings, Finding

LEMMA AssembledTyped ==
  ASSUME NEW F, NEW u \in BOOLEAN, IsFindings(F)
  PROVE  IsReport(Assemble(F, u)) /\ Assemble(F, u).verdict \in Verdict
  BY DEF IsReport, Assemble, AssembledVerdict, Verdict

LEMMA DerivedTyped ==
  ASSUME NEW F
  PROVE  deriveVerdict(F) \in Verdict
  BY DEF deriveVerdict, Verdict

TwoBroad(F) ==
    \E i, j \in HighIn(F) :
        i # j /\ F[i].area \in BroadAreas /\ F[j].area \in BroadAreas

LEMMA Assembled ==
  ASSUME NEW F, NEW u
  PROVE  AssembledVerdict(F, u) =
           IF \E i \in DOMAIN F : F[i].severity = "blocking" THEN "not_executable"
           ELSE IF TwoBroad(F) THEN "rewrite_required"
           ELSE IF HighIn(F) # {} \/ CriticalUnverified(F, u)
                THEN "conditionally_executable"
           ELSE "executable"
  <1> DEFINE B == {i \in HighIn(F) : F[i].area \in BroadAreas}
  <1>1. (\E i, j \in B : i # j) <=> TwoBroad(F)
    BY DEF TwoBroad
  <1> QED
    BY <1>1 DEF AssembledVerdict

LEMMA Derived ==
  ASSUME NEW F, IsFindings(F)
  PROVE  deriveVerdict(F) =
           IF \E i \in DOMAIN F : F[i].severity = "blocking" THEN "not_executable"
           ELSE IF TwoBroad(F) THEN "rewrite_required"
           ELSE IF HighIn(F) # {} THEN "conditionally_executable"
           ELSE "executable"
  <1> DEFINE L == {i \in DOMAIN F : F[i].status \notin {"withdrawn", "resolved"}}
  <1>1. L = DOMAIN F
    BY AllLive
  <1>2. L \cap HighIn(F) = HighIn(F)
    BY <1>1 DEF HighIn
  <1>3. (\E i, j \in L \cap HighIn(F) :
            i # j /\ {F[i].area, F[j].area} \subseteq BroadAreas) <=> TwoBroad(F)
    BY <1>2 DEF TwoBroad
  <1>4. deriveVerdict(F) =
          IF \E i \in L : F[i].severity = "blocking" THEN "not_executable"
          ELSE IF \E i, j \in L \cap HighIn(F) :
                     i # j /\ {F[i].area, F[j].area} \subseteq BroadAreas
               THEN "rewrite_required"
          ELSE IF L \cap HighIn(F) # {} THEN "conditionally_executable"
          ELSE "executable"
    BY DEF deriveVerdict
  <1> HIDE DEF L
  <1> QED
    BY <1>1, <1>2, <1>3, <1>4

\* The two services judge the same findings alike, except that unverified
\* assumptions make executable conditional.
LEMMA SameRule ==
  ASSUME NEW r, IsFindings(r.findings)
  PROVE  AssembledVerdict(r.findings, r.unverified) =
            Guarded(r, deriveVerdict(r.findings))
  BY Assembled, Derived DEF Guarded

\* Taking findings away never makes the verdict worse.
LEMMA FewerFindings ==
  ASSUME NEW F, NEW u, NEW S \in SUBSET DOMAIN F, IsFindings(F)
  PROVE  verdictRank[deriveVerdict([i \in S |-> F[i]])]
           <= verdictRank[AssembledVerdict(F, u)]
  <1> DEFINE G == [i \in S |-> F[i]]
  <1>1. IsFindings(G)
    BY DEF IsFindings
  <1>2. \A i \in DOMAIN G : i \in DOMAIN F /\ G[i] = F[i]
    OBVIOUS
  <1>3. HighIn(G) \subseteq HighIn(F)
    BY DEF HighIn
  <1>4. TwoBroad(G) => TwoBroad(F)
    <2> SUFFICES ASSUME NEW i \in HighIn(G), NEW j \in HighIn(G), i # j,
                        G[i].area \in BroadAreas, G[j].area \in BroadAreas
                 PROVE  TwoBroad(F)
      BY DEF TwoBroad
    <2>1. i \in DOMAIN G /\ j \in DOMAIN G
      BY DEF HighIn
    <2> QED
      BY <2>1, <1>2, <1>3 DEF TwoBroad
  <1>5. (\E i \in DOMAIN G : G[i].severity = "blocking")
            => \E i \in DOMAIN F : F[i].severity = "blocking"
    BY <1>2
  <1> HIDE DEF G
  <1>6. verdictRank["executable"] = 1 /\ verdictRank["conditionally_executable"] = 2
        /\ verdictRank["rewrite_required"] = 3 /\ verdictRank["not_executable"] = 4
    BY DEF verdictRank
  <1>7. verdictRank[deriveVerdict(G)] <= verdictRank[AssembledVerdict(F, u)]
    <2>1. CASE \E i \in DOMAIN F : F[i].severity = "blocking"
      <3>1. AssembledVerdict(F, u) = "not_executable"
        BY <2>1, Assembled
      <3>2. deriveVerdict(G) \in Verdict
        BY DerivedTyped
      <3> QED
        BY <3>1, <3>2, <1>6 DEF Verdict
    <2>2. CASE /\ ~\E i \in DOMAIN F : F[i].severity = "blocking"
               /\ TwoBroad(F)
      <3>1. AssembledVerdict(F, u) = "rewrite_required"
        BY <2>2, Assembled
      <3>2. deriveVerdict(G) \in {"executable", "conditionally_executable",
                                  "rewrite_required"}
        BY <2>2, <1>1, <1>5, Derived
      <3> QED
        BY <3>1, <3>2, <1>6
    <2>3. CASE /\ ~\E i \in DOMAIN F : F[i].severity = "blocking"
               /\ ~TwoBroad(F) /\ HighIn(F) # {}
      <3>1. AssembledVerdict(F, u) = "conditionally_executable"
        BY <2>3, Assembled
      <3>2. deriveVerdict(G) \in {"executable", "conditionally_executable"}
        BY <2>3, <1>1, <1>4, <1>5, Derived
      <3> QED
        BY <3>1, <3>2, <1>6
    <2>4. CASE /\ ~\E i \in DOMAIN F : F[i].severity = "blocking"
               /\ ~TwoBroad(F) /\ HighIn(F) = {}
      <3>1. AssembledVerdict(F, u) \in {"conditionally_executable", "executable"}
        BY <2>4, Assembled
      <3>2. deriveVerdict(G) = "executable"
        BY <2>4, <1>1, <1>3, <1>4, <1>5, Derived
      <3> QED
        BY <3>1, <3>2, <1>6
    <2> QED
      BY <2>1, <2>2, <2>3, <2>4
  <1> QED
    BY <1>7 DEF G

-----------------------------------------------------------------------------
(* The inductive invariant of the requests: a request that is under way    *)
(* reads a version with a report, and a revision has a version of its own  *)
(* that has no report until it has made one.                               *)

Row == [call : Call, from : Version, to : Version,
        previous : Verdict, current : Verdict,
        changes : UNION {[S -> Changes] : S \in SUBSET FindingId}]

Arguments == [version : Version, finding : FindingId \cup {<<>>}, review : Review]

Typed ==
    /\ versions \in Version
    /\ reports = [v \in Version |-> reports[v]]
    /\ \A v \in Version : reports[v] = NoReport \/ IsReport(reports[v])
    /\ comparisons \subseteq Version \X Version
    /\ objections \in [Objector -> {"none", "pending_reevaluation", "reevaluated"}]
    /\ history \in Seq(Row)
    /\ pc \in [Call -> Pc]
    /\ args \in [Call -> Arguments]
    /\ made \in [Reviser -> Version]

Reads == \A c \in Call : pc[c] # "new" => Exists(args[c].version)

OwnVersion ==
    /\ \A v \in Version : v > versions => ~Exists(v)
    /\ \A c \in Reviser : made[c] <= versions
    /\ \A c, d \in Reviser : c # d /\ made[c] = made[d] => made[c] = 1
    /\ \A c \in Reviser :
          /\ pc[c] \in {"new", "version"} => made[c] = 1
          /\ pc[c] = "report" => made[c] # 1 /\ ~Exists(made[c])
          /\ pc[c] \in {"compare", "reevaluate"} => made[c] # 1 /\ Exists(made[c])

Requests == Typed /\ Reads /\ OwnVersion

LEMMA ReportExists ==
  ASSUME NEW r, IsReport(r)
  PROVE  r.verdict \in Verdict /\ r.verdict # "none"
  <1>1. Assemble(r.findings, r.unverified).verdict \in Verdict
    BY AssembledTyped DEF IsReport
  <1>2. "none" \notin Verdict
    BY DEF Verdict
  <1>3. r = Assemble(r.findings, r.unverified)
    BY DEF IsReport
  <1> QED
    BY <1>1, <1>2, <1>3

\* A version has a report exactly when what is kept for it is one.
LEMMA ExistsIsReport ==
  ASSUME Typed, NEW v \in Version
  PROVE  Exists(v) <=> IsReport(reports[v])
  <1>1. CASE reports[v] = NoReport
    <2>1. ~Exists(v)
      BY <1>1 DEF Exists, NoReport
    <2> QED
      BY <2>1, ReportExists DEF Exists
  <1>2. CASE IsReport(reports[v])
    BY <1>2, ReportExists DEF Exists
  <1> QED
    BY <1>1, <1>2 DEF Typed

LEMMA InitRequests == Init => Requests
  <1> SUFFICES ASSUME Init
               PROVE  Requests
    OBVIOUS
  <1>1. 1 \in Version
    BY Constants DEF Version
  <1>2. PICK D \in Evaluation, u \in BOOLEAN :
          reports = [v \in Version |-> IF v = 1 THEN Assemble(findingInputs(1, D), u)
                                       ELSE NoReport]
    BY DEF Init, SentUnverified
  <1>3. IsReport(reports[1])
    BY <1>1, <1>2, FindingsTyped, AssembledTyped
  <1>4. \A v \in Version : v # 1 => reports[v] = NoReport
    BY <1>2
  <1>5. Typed
    <2>1. NoArgs \in Arguments
      BY <1>1 DEF NoArgs, Arguments, Review
    <2>2. history \in Seq(Row)
      BY EmptySeq DEF Init
    <2>3. reports = [v \in Version |-> reports[v]]
      BY <1>2
    <2> QED
      BY <1>1, <1>3, <1>4, <2>1, <2>2, <2>3 DEF Init, Typed, Pc
  <1>6. Reads
    BY DEF Reads, Init, Call
  <1>7. OwnVersion
    <2>1. \A v \in Version : v > 1 => ~Exists(v)
      BY <1>4 DEF Exists, NoReport, Version
    <2>2. Reviser \subseteq Call
      BY DEF Call
    <2> QED
      BY <2>1, <2>2 DEF OwnVersion, Init
  <1> QED
    BY <1>5, <1>6, <1>7 DEF Requests

\* What is saved of a re-evaluation is well formed.
LEMMA RowTyped ==
  ASSUME Typed, NEW c \in Call, NEW from \in Version, NEW to \in Version,
         Exists(from), NEW F, IsFindings(F), NEW W
  PROVE  Reevaluate(c, from, to, F, W) \in Row
  <1> DEFINE P == reports[from].findings
             ch == [i \in DOMAIN P \cup DOMAIN F |-> FindingChange(P, F, i, W)]
  <1>1. IsReport(reports[from])
    BY ExistsIsReport
  <1>2. IsFindings(P) /\ reports[from].verdict \in Verdict
    BY <1>1, ReportExists DEF IsReport
  <1>3. DOMAIN P \cup DOMAIN F \in SUBSET FindingId
    BY <1>2 DEF IsFindings
  <1>4. \A i : FindingChange(P, F, i, W) \in Changes
    BY DEF FindingChange, Changes
  <1>5. ch \in UNION {[S -> Changes] : S \in SUBSET FindingId}
    <2>1. ch \in [DOMAIN P \cup DOMAIN F -> Changes]
      BY <1>4
    <2> QED
      BY <2>1, <1>3
  <1>6. deriveVerdict(F) \in Verdict
    BY DerivedTyped
  <1> QED
    BY <1>2, <1>5, <1>6 DEF Reevaluate, Row

\* An objection leaves some of the findings of its report.
LEMMA CurrentFindings ==
  ASSUME Typed, NEW c \in Call, Exists(args[c].version)
  PROVE  \E S \in SUBSET DOMAIN reports[args[c].version].findings :
            /\ currentFindings(c) = [i \in S |-> reports[args[c].version].findings[i]]
            /\ IsFindings(currentFindings(c))
            /\ ~Upheld(args[c].review) => S = DOMAIN reports[args[c].version].findings
  <1> DEFINE F == reports[args[c].version].findings
             S == DOMAIN F \ (IF Upheld(args[c].review) THEN {args[c].finding} ELSE {})
  <1>1. args[c].version \in Version
    BY DEF Typed, Arguments
  <1>2. IsFindings(F)
    BY <1>1, ExistsIsReport DEF IsReport
  <1>3. currentFindings(c) = [i \in S |-> F[i]]
    BY DEF currentFindings
  <1>4. IsFindings([i \in S |-> F[i]])
    BY <1>2 DEF IsFindings
  <1>5. ~Upheld(args[c].review) => S = DOMAIN F
    OBVIOUS
  <1> QED
    BY <1>3, <1>4, <1>5

LEMMA NextRequests == Requests /\ [Next]_vars => Requests'
  <1> SUFFICES ASSUME Requests, [Next]_vars
               PROVE  Requests'
    OBVIOUS
  <1> USE DEF Requests
  <1>c. Objector \subseteq Call /\ Reviser \subseteq Call /\ Objector \cap Reviser = {}
    BY Constants DEF Call
  <1>1. ASSUME NEW c \in Objector, NEW v \in Version, NEW review \in Review,
               NEW i \in DOMAIN reports[v].findings, ReviewObjection(c, v, i, review)
        PROVE  Requests'
    <2>1. i \in FindingId
      BY <1>1, ExistsIsReport DEF ReviewObjection, IsReport, IsFindings
    <2>2. [version |-> v, finding |-> i, review |-> review] \in Arguments
      BY <2>1, <1>1 DEF Arguments
    <2>3. Typed'
      BY <1>1, <1>c, <2>2 DEF Typed, ReviewObjection, Pc, IsReport, Assemble
    <2>4. Reads'
      BY <1>1, <1>c DEF Reads, ReviewObjection, Exists, Typed
    <2>5. OwnVersion'
      BY <1>1, <1>c DEF OwnVersion, ReviewObjection, Exists, Typed
    <2> QED
      BY <2>3, <2>4, <2>5
  <1>2. ASSUME NEW c \in Objector, SubmitObjection(c)
        PROVE  Requests'
    <2>1. Typed'
      BY <1>2, <1>c DEF Typed, SubmitObjection, Pc, IsReport
    <2>2. Reads'
      BY <1>2, <1>c DEF Reads, SubmitObjection, Exists, Typed
    <2>3. OwnVersion'
      BY <1>2, <1>c DEF OwnVersion, SubmitObjection, Exists, Typed
    <2> QED
      BY <2>1, <2>2, <2>3
  <1>3. ASSUME NEW c \in Objector, ReevaluateObjection(c)
        PROVE  Requests'
    <2> DEFINE v == args[c].version
               W == IF args[c].review.cites THEN {args[c].finding} ELSE {}
               row == Reevaluate(c, v, v, currentFindings(c), W)
    <2>1. v \in Version /\ Exists(v)
      BY <1>3, <1>c DEF Typed, Arguments, Reads, ReevaluateObjection
    <2>2. row \in Row
      BY <2>1, <1>c, CurrentFindings, RowTyped
    <2>3. history' = Append(history, row)
      BY <1>3 DEF ReevaluateObjection
    <2>4. history' \in Seq(Row)
      BY <2>2, <2>3, AppendProperties DEF Typed
    <2>5. Typed'
      BY <1>3, <1>c, <2>4 DEF Typed, ReevaluateObjection, Pc, IsReport
    <2>6. Reads'
      BY <1>3, <1>c DEF Reads, ReevaluateObjection, Exists, Typed
    <2>7. OwnVersion'
      BY <1>3, <1>c DEF OwnVersion, ReevaluateObjection, Exists, Typed
    <2> QED
      BY <2>5, <2>6, <2>7
  <1>4. ASSUME NEW c \in Objector, MarkObjection(c)
        PROVE  Requests'
    <2>1. Typed'
      BY <1>4, <1>c DEF Typed, MarkObjection, Pc, IsReport
    <2>2. Reads'
      BY <1>4, <1>c DEF Reads, MarkObjection, Exists, Typed
    <2>3. OwnVersion'
      BY <1>4, <1>c DEF OwnVersion, MarkObjection, Exists, Typed
    <2> QED
      BY <2>1, <2>2, <2>3
  <1>5. ASSUME NEW c \in Reviser, NEW v \in Version, ReviseReport(c, v)
        PROVE  Requests'
    <2>1. args' \in [Call -> Arguments] /\ args'[c].version = v
          /\ \A d \in Call : d # c => args'[d] = args[d]
      BY <1>5, <1>c DEF Typed, ReviseReport, Arguments
    <2>2. Typed'
      BY <1>5, <1>c, <2>1 DEF Typed, ReviseReport, Pc, IsReport
    <2>3. Reads'
      BY <1>5, <1>c, <2>1 DEF Reads, ReviseReport, Exists, Typed
    <2>4. OwnVersion'
      BY <1>5, <1>c DEF OwnVersion, ReviseReport, Exists, Typed
    <2> QED
      BY <2>2, <2>3, <2>4
  <1>6. ASSUME NEW c \in Reviser, AddVersion(c)
        PROVE  Requests'
    <2>1. versions + 1 \in Version /\ versions + 1 # 1 /\ versions < versions + 1
      BY <1>6, Constants DEF Typed, Version, AddVersion
    <2>2. Typed'
      BY <1>6, <1>c, <2>1 DEF Typed, AddVersion, Pc, IsReport
    <2>3. Reads'
      BY <1>6, <1>c DEF Reads, AddVersion, Exists, Typed
    <2>4. OwnVersion'
      <3> USE <1>6, <1>c, <2>1 DEF Typed, AddVersion, Version, Exists
      <3>1. \A v \in Version : v > versions' => ~Exists(v)'
        BY DEF OwnVersion
      <3>2. \A d \in Reviser : made[d] <= versions /\ made[d] # versions + 1
        BY DEF OwnVersion
      <3>3. \A d \in Reviser : made'[d] = IF d = c THEN versions + 1 ELSE made[d]
        OBVIOUS
      <3>4. \A d \in Reviser : made'[d] <= versions'
        BY <3>2, <3>3
      <3>5. \A d, e \in Reviser : d # e /\ made'[d] = made'[e] => made'[d] = 1
        BY <3>2, <3>3 DEF OwnVersion
      <3>6. ~Exists(versions + 1)
        BY DEF OwnVersion
      <3>7. \A d \in Reviser :
              /\ pc'[d] \in {"new", "version"} => made'[d] = 1
              /\ pc'[d] = "report" => made'[d] # 1 /\ ~Exists(made[d])'
              /\ pc'[d] \in {"compare", "reevaluate"} => made'[d] # 1 /\ Exists(made[d])'
        BY <3>3, <3>6 DEF OwnVersion
      <3> QED
        BY <3>1, <3>4, <3>5, <3>7 DEF OwnVersion
    <2> QED
      BY <2>2, <2>3, <2>4
  <1>7. ASSUME NEW c \in Reviser, NEW D \in Evaluation, NEW u \in SentUnverified,
               CreateReport(c, D, u)
        PROVE  Requests'
    <2> USE <1>7 DEF SentUnverified
    <2> DEFINE r == Assemble(findingInputs(made[c], D), u)
    <2>1. made[c] \in Version
      BY DEF Typed
    <2>2. IsReport(r) /\ r.verdict # "none"
      BY <2>1, FindingsTyped, AssembledTyped, ReportExists
    <2> HIDE DEF r
    <2>3. CASE Acceptable(D)
      <3>1. /\ reports' = [reports EXCEPT ![made[c]] = r]
            /\ pc' = [pc EXCEPT ![c] = "compare"]
            /\ UNCHANGED <<versions, comparisons, objections, history, args, made>>
        BY <1>7, <2>3 DEF CreateReport, r
      <3>2. \A v \in Version : reports'[v] = IF v = made[c] THEN r ELSE reports[v]
        BY <3>1 DEF Typed
      <3>3. reports' = [v \in Version |-> reports'[v]]
        BY <3>1 DEF Typed
      <3>4. Typed'
        BY <1>c, <2>2, <3>1, <3>2, <3>3 DEF Typed, Pc
      <3>5. \A v \in Version : Exists(v)' <=> (v = made[c] \/ Exists(v))
        BY <2>2, <3>2 DEF Exists
      <3>6. Reads'
        BY <1>7, <1>c, <3>1, <3>5 DEF Reads, Typed, Arguments, CreateReport
      <3>7. OwnVersion'
        <4>1. pc[c] = "report" /\ made[c] # 1 /\ made[c] <= versions
          BY <1>7 DEF CreateReport, OwnVersion
        <4>2. \A d \in Reviser : d # c => made[d] # made[c]
          BY <4>1 DEF OwnVersion
        <4>3. \A d \in Reviser : pc'[d] = IF d = c THEN "compare" ELSE pc[d]
          BY <3>1, <1>c DEF Typed
        <4>4. \A d \in Reviser : made[d] \in Version /\ made'[d] = made[d]
          BY <3>1 DEF Typed
        <4>5. \A v \in Version : v > versions => ~Exists(v)'
          BY <3>5, <4>1 DEF OwnVersion, Typed, Version
        <4>6. \A d \in Reviser :
                /\ pc'[d] \in {"new", "version"} => made[d] = 1
                /\ pc'[d] = "report" => made[d] # 1 /\ ~Exists(made[d])'
                /\ pc'[d] \in {"compare", "reevaluate"} => made[d] # 1 /\ Exists(made[d])'
          <5> TAKE d \in Reviser
          <5>1. CASE d = c
            BY <5>1, <4>1, <4>3, <4>4, <3>1, <3>5
          <5>2. CASE d # c
            BY <5>2, <4>2, <4>3, <4>4, <3>1, <3>5 DEF OwnVersion
          <5> QED
            BY <5>1, <5>2
        <4> QED
          BY <4>5, <4>6, <3>1 DEF OwnVersion
      <3> QED
        BY <3>4, <3>6, <3>7
    <2>4. CASE ~Acceptable(D)
      <3>1. Typed'
        BY <1>7, <1>c, <2>4 DEF Typed, CreateReport, Pc, IsReport
      <3>2. Reads'
        BY <1>7, <1>c, <2>4 DEF Reads, CreateReport, Exists, Typed
      <3>3. OwnVersion'
        BY <1>7, <1>c, <2>4 DEF OwnVersion, CreateReport, Exists, Typed
      <3> QED
        BY <3>1, <3>2, <3>3
    <2> QED
      BY <2>3, <2>4
  <1>8. ASSUME NEW c \in Reviser, CompareVersions(c)
        PROVE  Requests'
    <2>1. Typed'
      BY <1>8, <1>c DEF Typed, CompareVersions, Pc, IsReport, Arguments
    <2>2. Reads'
      BY <1>8, <1>c DEF Reads, CompareVersions, Exists, Typed
    <2>3. OwnVersion'
      BY <1>8, <1>c DEF OwnVersion, CompareVersions, Exists, Typed
    <2> QED
      BY <2>1, <2>2, <2>3
  <1>9. ASSUME NEW c \in Reviser, ReevaluateRevision(c)
        PROVE  Requests'
    <2> DEFINE row == Reevaluate(c, args[c].version, made[c], reports[made[c]].findings, {})
    <2>1. args[c].version \in Version /\ Exists(args[c].version)
      BY <1>9, <1>c DEF Typed, Arguments, Reads, ReevaluateRevision
    <2>2. made[c] \in Version /\ Exists(made[c])
      BY <1>9 DEF Typed, OwnVersion, ReevaluateRevision
    <2>3. IsFindings(reports[made[c]].findings)
      BY <2>2, ExistsIsReport DEF IsReport
    <2>4. row \in Row
      BY <2>1, <2>2, <2>3, <1>c, RowTyped
    <2>5. history' = Append(history, row)
      BY <1>9 DEF ReevaluateRevision
    <2>6. history' \in Seq(Row)
      BY <2>4, <2>5, AppendProperties DEF Typed
    <2>7. Typed'
      BY <1>9, <1>c, <2>6 DEF Typed, ReevaluateRevision, Pc, IsReport
    <2>8. Reads'
      BY <1>9, <1>c DEF Reads, ReevaluateRevision, Exists, Typed
    <2>9. OwnVersion'
      BY <1>9, <1>c DEF OwnVersion, ReevaluateRevision, Exists, Typed
    <2> QED
      BY <2>7, <2>8, <2>9
  <1>10. ASSUME NEW c \in Call, Fail(c)
         PROVE  Requests'
    <2>1. Typed'
      BY <1>10, <1>c DEF Typed, Fail, Pc, IsReport
    <2>2. Reads'
      BY <1>10, <1>c DEF Reads, Fail, Exists, Typed
    <2>3. OwnVersion'
      BY <1>10, <1>c DEF OwnVersion, Fail, Exists, Typed
    <2> QED
      BY <2>1, <2>2, <2>3
  <1>11. CASE UNCHANGED vars
    BY <1>11 DEF vars, Typed, Reads, OwnVersion, Exists, IsReport
  <1> QED
    BY <1>1, <1>2, <1>3, <1>4, <1>5, <1>6, <1>7, <1>8, <1>9, <1>10, <1>11
       DEF Next, Objection, Revision

THEOREM RequestsInvariant == Spec => []Requests
  BY InitRequests, NextRequests, PTL DEF Spec

-----------------------------------------------------------------------------
(* What the requests leave alone, and what one of them adds to history.    *)

\* Reports that exist, comparisons that are saved, the subject of a request
\* and the version of a revision never change.
LEMMA Kept ==
  ASSUME Requests, [Next]_vars
  PROVE  /\ \A v \in Version : Exists(v) => reports'[v] = reports[v]
         /\ \A c \in Call : pc[c] # "new" => pc'[c] # "new" /\ args'[c] = args[c]
         /\ \A c \in Reviser : made[c] # 1 => made'[c] = made[c]
         /\ comparisons \subseteq comparisons'
  <1>c. Objector \subseteq Call /\ Reviser \subseteq Call
    BY DEF Call
  <1> USE <1>c DEF Requests, Typed
  <1>1. ASSUME NEW c \in Objector, Objection(c)
        PROVE  /\ UNCHANGED <<reports, made, comparisons>>
               /\ \A d \in Call : pc[d] # "new" => pc'[d] # "new" /\ args'[d] = args[d]
    BY <1>1 DEF Objection, ReviewObjection, SubmitObjection, ReevaluateObjection,
                MarkObjection
  <1>2. ASSUME NEW c \in Reviser, NEW v \in Version, ReviseReport(c, v)
        PROVE  /\ UNCHANGED <<reports, made, comparisons>>
               /\ \A d \in Call : pc[d] # "new" => pc'[d] # "new" /\ args'[d] = args[d]
    <2>1. \A d \in Call : d # c => args'[d] = args[d] /\ pc'[d] = pc[d]
      BY <1>2 DEF ReviseReport
    <2>2. pc[c] = "new"
      BY <1>2 DEF ReviseReport
    <2> QED
      BY <1>2, <2>1, <2>2 DEF ReviseReport
  <1>3. ASSUME NEW c \in Reviser, AddVersion(c)
        PROVE  /\ UNCHANGED <<reports, comparisons>>
               /\ \A d \in Reviser : made[d] # 1 => made'[d] = made[d]
               /\ \A d \in Call : pc[d] # "new" => pc'[d] # "new" /\ args'[d] = args[d]
    BY <1>3 DEF AddVersion, OwnVersion
  <1>4. ASSUME NEW c \in Reviser, NEW D \in Evaluation, NEW u \in SentUnverified,
               CreateReport(c, D, u)
        PROVE  /\ UNCHANGED <<made, comparisons>>
               /\ \A v \in Version : Exists(v) => reports'[v] = reports[v]
               /\ \A d \in Call : pc[d] # "new" => pc'[d] # "new" /\ args'[d] = args[d]
    <2>1. ~Exists(made[c])
      BY <1>4 DEF CreateReport, OwnVersion
    <2>2. \A v \in Version : v # made[c] => reports'[v] = reports[v]
      BY <1>4 DEF CreateReport
    <2>3. \A d \in Call : pc[d] # "new" => pc'[d] # "new" /\ args'[d] = args[d]
      BY <1>4 DEF CreateReport
    <2> QED
      BY <1>4, <2>1, <2>2, <2>3 DEF CreateReport
  <1>5. ASSUME NEW c \in Reviser, CompareVersions(c) \/ ReevaluateRevision(c)
        PROVE  /\ UNCHANGED <<reports, made>> /\ comparisons \subseteq comparisons'
               /\ \A d \in Call : pc[d] # "new" => pc'[d] # "new" /\ args'[d] = args[d]
    BY <1>5 DEF CompareVersions, ReevaluateRevision
  <1>6. ASSUME NEW c \in Call, Fail(c)
        PROVE  /\ UNCHANGED <<reports, made, comparisons>>
               /\ \A d \in Call : pc[d] # "new" => pc'[d] # "new" /\ args'[d] = args[d]
    BY <1>6 DEF Fail
  <1>7. CASE UNCHANGED vars
    BY <1>7 DEF vars
  <1> QED
    BY <1>1, <1>2, <1>3, <1>4, <1>5, <1>6, <1>7 DEF Next, Revision

\* A step that changes the history adds one row to it.
LEMMA HistoryGrows ==
  ASSUME Requests, [Next]_vars
  PROVE  \/ history' = history
         \/ \E c \in Objector : ReevaluateObjection(c)
         \/ \E c \in Reviser : ReevaluateRevision(c)
  BY DEF Next, vars, Objection, Revision, ReviewObjection, SubmitObjection, MarkObjection,
         ReviseReport, AddVersion, CreateReport, CompareVersions, Fail

LEMMA Appended ==
  ASSUME Requests, NEW row, history' = Append(history, row)
  PROVE  /\ Len(history) \in Nat
         /\ DOMAIN history = 1..Len(history)
         /\ DOMAIN history' = 1..(Len(history) + 1)
         /\ \A n \in DOMAIN history : history'[n] = history[n]
         /\ history'[Len(history) + 1] = row
  <1>1. history \in Seq(Row)
    BY DEF Requests, Typed
  <1> QED
    BY <1>1, LenProperties, AppendProperties

-----------------------------------------------------------------------------
(* Theorems about reports.                                                 *)

LEMMA NoReportTyped ==
  /\ IsFindings(NoReport.findings)
  /\ NoReport.unverified \in BOOLEAN
  /\ NoReport.verdict = "none"
  BY DEF NoReport, IsFindings

\* The state of every document is well typed, for any number of requests
\* (state of the services report and revision).
THEOREM VerdictsTyped == Spec => []TypeOK
  <1>1. ASSUME Requests
        PROVE  TypeOK
    <2> USE <1>1 DEF Requests
    <2>1. ASSUME NEW v \in Version
          PROVE  /\ IsFindings(reports[v].findings)
                 /\ reports[v].unverified \in BOOLEAN
                 /\ reports[v].verdict \in Verdict \cup {"none"}
      BY NoReportTyped, ReportExists DEF Typed, IsReport
    <2>2. ASSUME NEW n \in DOMAIN history
          PROVE  /\ history[n].call \in Call
                 /\ history[n].from \in Version /\ history[n].to \in Version
                 /\ history[n].previous \in Verdict /\ history[n].current \in Verdict
                 /\ \A i \in DOMAIN history[n].changes : history[n].changes[i] \in Changes
      <3>1. history[n] \in Row
        BY ElementOfSeq DEF Typed
      <3>2. PICK S \in SUBSET FindingId : history[n].changes \in [S -> Changes]
        BY <3>1 DEF Row
      <3> QED
        BY <3>1, <3>2 DEF Row
    <2> QED
      BY <2>1, <2>2 DEF TypeOK, Typed
  <1> QED
    BY <1>1, RequestsInvariant, PTL

\* Both services judge every report of every document alike, up to the
\* assumptions, which only Assemble looks at (Assemble and deriveVerdict).
THEOREM ServicesAgree == Spec => []RulesAgree
  <1>1. ASSUME Requests
        PROVE  RulesAgree
    <2> SUFFICES ASSUME NEW v \in Version, Exists(v)
                 PROVE  reports[v].verdict =
                          Guarded(reports[v], deriveVerdict(reports[v].findings))
      BY DEF RulesAgree
    <2> DEFINE F == reports[v].findings
               u == reports[v].unverified
    <2>1. IsReport(reports[v])
      BY <1>1, ExistsIsReport DEF Requests
    <2>2. reports[v].verdict = AssembledVerdict(F, u)
      BY <2>1 DEF IsReport, Assemble
    <2> QED
      BY <2>1, <2>2, SameRule DEF IsReport
  <1> QED
    BY <1>1, RequestsInvariant, PTL

\* No step of any objection or revision changes a report that exists
\* (generation, domains/report; reviseReport).
THEOREM ReportsAreFinal == Spec => ReportsPreserved
  <1>1. ASSUME Requests, [Next]_vars
        PROVE  [\A v \in Version : Exists(v) => reports'[v] = reports[v]]_vars
    BY <1>1, Kept
  <1> QED
    BY <1>1, RequestsInvariant, PTL DEF Spec, ReportsPreserved

-----------------------------------------------------------------------------
(* The inductive invariant of the history: a request leaves at most one    *)
(* row, only when it is done or about to be, and the row keeps describing  *)
(* the request and the reports it was made from.                           *)

Unrecorded == {"new", "submit", "version", "report", "compare", "reevaluate"}

RowsCounted ==
    /\ \A c \in Call : pc[c] \in Unrecorded => RowsOf(c) = {}
    /\ \A c \in Call : pc[c] = "mark" => RowsOf(c) # {}
    /\ \A c \in Call : \A m, n \in RowsOf(c) : m = n
    /\ \A c \in Objector : objections[c] = "reevaluated" => RowsOf(c) # {}

Compared ==
    \A c \in Reviser : pc[c] = "reevaluate" => <<args[c].version, made[c]>> \in comparisons

RevisionRow(row) ==
    /\ row.to = made[row.call] /\ made[row.call] # 1
    /\ <<row.from, row.to>> \in comparisons

Rejected(review) == review.status # "contradicts_finding" \/ ~review.confident

ObjectionRow(row) ==
    /\ Exists(row.to)
    /\ verdictRank[row.current] <= verdictRank[row.previous]
    /\ Rejected(args[row.call].review) =>
          /\ \A i \in DOMAIN row.changes : row.changes[i] = "unresolved"
          /\ row.previous = Guarded(reports[row.to], row.current)

RowsRight ==
    \A n \in DOMAIN history :
        /\ history[n].call \in Reviser => RevisionRow(history[n])
        /\ history[n].call \in Objector => ObjectionRow(history[n])

Recorded == RowsCounted /\ Compared /\ RowsRight

\* The row of an objection: at worst the verdict stays, and a rejected
\* objection changes nothing.
LEMMA ObjectionRowRight ==
  ASSUME Requests, NEW c \in Objector, NEW W, Exists(args[c].version)
  PROVE  LET v == args[c].version
         IN ObjectionRow(Reevaluate(c, v, v, currentFindings(c), W))
  <1> DEFINE v == args[c].version
             F == reports[v].findings
             u == reports[v].unverified
             G == currentFindings(c)
             row == Reevaluate(c, v, v, G, W)
  <1>1. c \in Call /\ v \in Version
    BY DEF Call, Requests, Typed, Arguments
  <1>2. IsReport(reports[v])
    BY <1>1, ExistsIsReport DEF Requests
  <1>3. IsFindings(F) /\ reports[v].verdict = AssembledVerdict(F, u)
    BY <1>2 DEF IsReport, Assemble
  <1>4. PICK S \in SUBSET DOMAIN F :
           /\ G = [i \in S |-> F[i]]
           /\ ~Upheld(args[c].review) => S = DOMAIN F
    BY <1>1, CurrentFindings DEF Requests
  <1>5. /\ row.call = c /\ row.to = v
        /\ row.previous = AssembledVerdict(F, u) /\ row.current = deriveVerdict(G)
        /\ row.changes = [i \in DOMAIN F \cup DOMAIN G |-> FindingChange(F, G, i, W)]
    BY <1>3 DEF Reevaluate
  <1> HIDE DEF row, G
  <1>6. verdictRank[row.current] <= verdictRank[row.previous]
    BY <1>3, <1>4, <1>5, FewerFindings
  <1>7. ASSUME Rejected(args[c].review)
        PROVE  /\ \A i \in DOMAIN row.changes : row.changes[i] = "unresolved"
               /\ row.previous = Guarded(reports[v], row.current)
    <2>1. ~Upheld(args[c].review)
      BY <1>7 DEF Rejected, Upheld
    <2>2. G = F
      BY <1>3, <1>4, <2>1 DEF IsFindings
    <2>3. ASSUME NEW i \in DOMAIN F
          PROVE  FindingChange(F, F, i, W) = "unresolved"
      <3>1. F[i].severity \in Severity
        BY <1>3 DEF IsFindings, Finding
      <3>2. severityRank(F[i].severity) \in Nat
        BY <3>1 DEF severityRank, Severity
      <3>3. F[i].status # "partially_resolved"
        BY <1>3 DEF IsFindings, Finding
      <3> QED
        BY <3>2, <3>3 DEF FindingChange
    <2>4. \A i \in DOMAIN row.changes : row.changes[i] = "unresolved"
      BY <1>5, <2>2, <2>3
    <2>5. AssembledVerdict(F, u) = Guarded(reports[v], deriveVerdict(F))
      BY <1>3, SameRule
    <2> QED
      BY <1>5, <2>2, <2>4, <2>5
  <1>8. ObjectionRow(row)
    BY <1>1, <1>2, <1>5, <1>6, <1>7 DEF ObjectionRow
  <1> QED
    BY <1>8 DEF row, G

LEMMA RowsStayRight ==
  ASSUME Requests, Recorded, [Next]_vars, NEW n \in DOMAIN history
  PROVE  /\ history[n].call \in Reviser => RevisionRow(history[n])'
         /\ history[n].call \in Objector => ObjectionRow(history[n])'
  <1> DEFINE row == history[n]
  <1>1. row \in Row
    BY ElementOfSeq DEF Requests, Typed
  <1>2. row.call \in Call /\ row.to \in Version
    BY <1>1 DEF Row
  <1>3. n \in RowsOf(row.call)
    BY DEF RowsOf
  <1>4. pc[row.call] # "new"
    BY <1>2, <1>3 DEF Recorded, RowsCounted, Unrecorded
  <1>5. args'[row.call] = args[row.call]
    BY <1>2, <1>4, Kept
  <1> HIDE DEF row
  <1>6. ASSUME row.call \in Reviser, RevisionRow(row)
        PROVE  /\ row.to = made'[row.call] /\ made'[row.call] # 1
               /\ <<row.from, row.to>> \in comparisons'
    BY <1>6, Kept DEF RevisionRow
  <1>7. ASSUME row.call \in Objector, ObjectionRow(row)
        PROVE  reports'[row.to] = reports[row.to]
    BY <1>7, <1>2, Kept DEF ObjectionRow
  <1>8. history[n].call \in Reviser => RevisionRow(history[n])'
    <2> SUFFICES ASSUME row.call \in Reviser
                 PROVE  RevisionRow(history[n])'
      BY DEF row
    <2>1. RevisionRow(row)
      BY DEF Recorded, RowsRight, row
    <2>2. history'[n] = row
      <3>1. CASE history' = history
        BY <3>1 DEF row
      <3>2. CASE \E r : history' = Append(history, r)
        BY <3>2, Appended DEF row
      <3> QED
        BY <3>1, <3>2, HistoryGrows DEF ReevaluateObjection, ReevaluateRevision
    <2> QED
      BY <2>1, <2>2, <1>6 DEF RevisionRow
  <1>9. history[n].call \in Objector => ObjectionRow(history[n])'
    <2> SUFFICES ASSUME row.call \in Objector
                 PROVE  ObjectionRow(history[n])'
      BY DEF row
    <2>1. ObjectionRow(row)
      BY DEF Recorded, RowsRight, row
    <2>2. history'[n] = row
      <3>1. CASE history' = history
        BY <3>1 DEF row
      <3>2. CASE \E r : history' = Append(history, r)
        BY <3>2, Appended DEF row
      <3> QED
        BY <3>1, <3>2, HistoryGrows DEF ReevaluateObjection, ReevaluateRevision
    <2> QED
      BY <2>1, <2>2, <1>5, <1>7 DEF ObjectionRow, Exists
  <1> QED
    BY <1>8, <1>9

LEMMA InitRecorded == Init => Recorded
  <1> SUFFICES ASSUME Init
               PROVE  Recorded
    OBVIOUS
  <1>1. DOMAIN history = {}
    BY DEF Init
  <1>2. \A c : RowsOf(c) = {}
    BY <1>1 DEF RowsOf
  <1> QED
    BY <1>1, <1>2 DEF Init, Recorded, RowsCounted, Compared, RowsRight, Call

\* What a step that adds no row has to keep.
LEMMA NoRowAdded ==
  ASSUME Requests, Recorded, [Next]_vars, history' = history,
         \A c \in Call : pc'[c] \in Unrecorded => pc[c] \in Unrecorded,
         \A c \in Call : pc'[c] = "mark" => pc[c] = "mark",
         \A c \in Objector : objections'[c] = "reevaluated" =>
             objections[c] = "reevaluated" \/ pc[c] = "mark"
  PROVE  RowsCounted' /\ RowsRight'
  <1>1. \A c : RowsOf(c)' = RowsOf(c)
    BY DEF RowsOf
  <1>2. RowsCounted'
    BY <1>1 DEF Recorded, RowsCounted, Call
  <1>3. RowsRight'
    BY RowsStayRight DEF RowsRight
  <1> QED
    BY <1>2, <1>3

\* What a step that adds the row of one request has to keep.
LEMMA OneRowAdded ==
  ASSUME Requests, Recorded, [Next]_vars, NEW c \in Call, NEW row,
         row.call = c, history' = Append(history, row), pc[c] \in Unrecorded,
         pc'[c] \notin Unrecorded, \A d \in Call : d # c => pc'[d] = pc[d],
         objections' = objections,
         c \in Reviser => RevisionRow(row)', c \in Objector => ObjectionRow(row)'
  PROVE  RowsCounted' /\ RowsRight'
  <1> DEFINE L == Len(history) + 1
  <1>1. /\ L \notin DOMAIN history /\ DOMAIN history' = DOMAIN history \cup {L}
        /\ history'[L] = row /\ \A n \in DOMAIN history : history'[n] = history[n]
    BY Appended
  <1> HIDE DEF L
  <1>2. \A d : d # c => RowsOf(d)' = RowsOf(d)
    BY <1>1 DEF RowsOf
  <1>3. RowsOf(c) = {}
    BY DEF Recorded, RowsCounted
  <1>4. RowsOf(c)' = {L}
    BY <1>1, <1>3 DEF RowsOf
  <1>5. RowsCounted'
    <2>1. ASSUME NEW d \in Call
          PROVE  /\ pc'[d] \in Unrecorded => RowsOf(d)' = {}
                 /\ pc'[d] = "mark" => RowsOf(d)' # {}
                 /\ \A m, n \in RowsOf(d)' : m = n
      <3>1. CASE d = c
        BY <3>1, <1>4
      <3>2. CASE d # c
        BY <3>2, <1>2 DEF Recorded, RowsCounted
      <3> QED
        BY <3>1, <3>2
    <2>2. ASSUME NEW d \in Objector, objections'[d] = "reevaluated"
          PROVE  RowsOf(d)' # {}
      <3>1. CASE d = c
        BY <3>1, <1>4
      <3>2. CASE d # c
        BY <2>2, <3>2, <1>2 DEF Recorded, RowsCounted
      <3> QED
        BY <3>1, <3>2
    <2> QED
      BY <2>1, <2>2 DEF RowsCounted
  <1>6. RowsRight'
    <2> SUFFICES ASSUME NEW n \in DOMAIN history'
                 PROVE  /\ history'[n].call \in Reviser => RevisionRow(history[n])'
                        /\ history'[n].call \in Objector => ObjectionRow(history[n])'
      BY DEF RowsRight
    <2>1. CASE n = L
      <3>1. history'[n] = row
        BY <2>1, <1>1
      <3> QED
        BY <3>1 DEF RevisionRow, ObjectionRow, Exists
    <2>2. CASE n \in DOMAIN history
      BY <2>2, <1>1, RowsStayRight
    <2> QED
      BY <2>1, <2>2, <1>1
  <1> QED
    BY <1>5, <1>6

LEMMA NextRecorded == Requests /\ Recorded /\ [Next]_vars => Recorded'
  <1> SUFFICES ASSUME Requests, Recorded, [Next]_vars
               PROVE  Recorded'
    OBVIOUS
  <1>c. Objector \subseteq Call /\ Reviser \subseteq Call /\ Objector \cap Reviser = {}
    BY Constants DEF Call
  <1>p. pc \in [Call -> Pc] /\ objections \in [Objector -> {"none", "pending_reevaluation", "reevaluated"}]
    BY DEF Requests, Typed
  <1>1. ASSUME NEW c \in Objector, NEW v \in Version, NEW review \in Review,
               NEW i \in DOMAIN reports[v].findings, ReviewObjection(c, v, i, review)
        PROVE  RowsCounted' /\ RowsRight'
    BY <1>1, <1>c, <1>p, NoRowAdded DEF ReviewObjection, Unrecorded
  <1>2. ASSUME NEW c \in Objector, SubmitObjection(c)
        PROVE  RowsCounted' /\ RowsRight'
    BY <1>2, <1>c, <1>p, NoRowAdded DEF SubmitObjection, Unrecorded
  <1>3. ASSUME NEW c \in Objector, ReevaluateObjection(c)
        PROVE  RowsCounted' /\ RowsRight'
    <2> DEFINE v == args[c].version
               W == IF args[c].review.cites THEN {args[c].finding} ELSE {}
    <2>0. PICK row : row = Reevaluate(c, v, v, currentFindings(c), W)
      OBVIOUS
    <2>1. c \in Call /\ v \in Version /\ Exists(v)
      BY <1>3, <1>c DEF Requests, Typed, Arguments, Reads, ReevaluateObjection
    <2>2. ObjectionRow(row)
      BY <2>0, <2>1, ObjectionRowRight
    <2>3. row.call = c
      BY <2>0 DEF Reevaluate
    <2>4. history' = Append(history, row) /\ pc[c] = "reevaluate" /\ pc'[c] = "mark"
          /\ (\A d \in Call : d # c => pc'[d] = pc[d])
          /\ objections' = objections /\ args' = args /\ reports' = reports
      BY <1>3, <1>p, <2>0, <2>1 DEF ReevaluateObjection
    <2>5. ObjectionRow(row)'
      BY <2>2, <2>4 DEF ObjectionRow, Exists
    <2> QED
      BY <2>1, <2>3, <2>4, <2>5, <1>c, OneRowAdded DEF Unrecorded
  <1>4. ASSUME NEW c \in Objector, MarkObjection(c)
        PROVE  RowsCounted' /\ RowsRight'
    BY <1>4, <1>c, <1>p, NoRowAdded DEF MarkObjection, Unrecorded
  <1>5. ASSUME NEW c \in Reviser, NEW v \in Version, ReviseReport(c, v)
        PROVE  RowsCounted' /\ RowsRight'
    BY <1>5, <1>c, <1>p, NoRowAdded DEF ReviseReport, Unrecorded
  <1>6. ASSUME NEW c \in Reviser, AddVersion(c)
        PROVE  RowsCounted' /\ RowsRight'
    BY <1>6, <1>c, <1>p, NoRowAdded DEF AddVersion, Unrecorded
  <1>7. ASSUME NEW c \in Reviser, NEW D \in Evaluation, NEW u \in SentUnverified,
               CreateReport(c, D, u)
        PROVE  RowsCounted' /\ RowsRight'
    BY <1>7, <1>c, <1>p, NoRowAdded DEF CreateReport, Unrecorded
  <1>8. ASSUME NEW c \in Reviser, CompareVersions(c)
        PROVE  RowsCounted' /\ RowsRight'
    BY <1>8, <1>c, <1>p, NoRowAdded DEF CompareVersions, Unrecorded
  <1>9. ASSUME NEW c \in Reviser, ReevaluateRevision(c)
        PROVE  RowsCounted' /\ RowsRight'
    <2>0. PICK row : row = Reevaluate(c, args[c].version, made[c],
                                      reports[made[c]].findings, {})
      OBVIOUS
    <2>1. c \in Call /\ c \notin Objector
      BY <1>c
    <2>2. made[c] # 1 /\ <<args[c].version, made[c]>> \in comparisons
      BY <1>9 DEF ReevaluateRevision, Requests, OwnVersion, Recorded, Compared
    <2>3. row.call = c /\ row.from = args[c].version /\ row.to = made[c]
      BY <2>0 DEF Reevaluate
    <2>4. history' = Append(history, row) /\ pc[c] = "reevaluate" /\ pc'[c] = "done"
          /\ (\A d \in Call : d # c => pc'[d] = pc[d])
          /\ objections' = objections /\ made' = made /\ comparisons' = comparisons
      BY <1>9, <1>p, <2>0, <2>1 DEF ReevaluateRevision
    <2>5. RevisionRow(row)'
      BY <2>2, <2>3, <2>4 DEF RevisionRow
    <2> QED
      BY <2>1, <2>3, <2>4, <2>5, OneRowAdded DEF Unrecorded
  <1>10. ASSUME NEW c \in Call, Fail(c)
         PROVE  RowsCounted' /\ RowsRight'
    BY <1>10, <1>c, <1>p, NoRowAdded DEF Fail, Unrecorded
  <1>11. ASSUME UNCHANGED vars
         PROVE  RowsCounted' /\ RowsRight'
    BY <1>11, <1>p, NoRowAdded DEF vars
  <1>12. RowsCounted' /\ RowsRight'
    BY <1>1, <1>2, <1>3, <1>4, <1>5, <1>6, <1>7, <1>8, <1>9, <1>10, <1>11
       DEF Next, Objection, Revision
  <1>13. Compared'
    <2> SUFFICES ASSUME NEW c \in Reviser, pc'[c] = "reevaluate"
                 PROVE  <<args'[c].version, made'[c]>> \in comparisons'
      BY DEF Compared
    <2>1. CASE pc[c] = "reevaluate"
      <3>1. made[c] # 1
        BY <2>1 DEF Requests, OwnVersion
      <3> QED
        BY <2>1, <3>1, <1>c, Kept DEF Recorded, Compared
    <2>2. CASE pc[c] # "reevaluate"
      <3>1. CompareVersions(c)
        BY <2>2, <1>c, <1>p DEF Next, vars, Objection, Revision, ReviewObjection,
           SubmitObjection, ReevaluateObjection, MarkObjection, ReviseReport, AddVersion,
           CreateReport, CompareVersions, ReevaluateRevision, Fail
      <3> QED
        BY <3>1 DEF CompareVersions
    <2> QED
      BY <2>1, <2>2
  <1> QED
    BY <1>12, <1>13 DEF Recorded

THEOREM HistoryInvariant == Spec => [](Requests /\ Recorded)
  BY InitRequests, NextRequests, InitRecorded, NextRecorded, PTL DEF Spec

-----------------------------------------------------------------------------
(* Theorems about the history of verdicts.                                 *)

\* For any detections, objections and interleavings: no objection is recorded
\* to have made a verdict worse (submitObjection, Reevaluate).
THEOREM ObjectionsAreHarmless == Spec => []ObjectionsNeverHarm
  <1>1. Recorded => ObjectionsNeverHarm
    BY DEF Recorded, RowsRight, ObjectionRow, ObjectionsNeverHarm
  <1> QED
    BY <1>1, HistoryInvariant, PTL

\* A rejected objection leaves every finding unresolved and the verdict as it
\* was, up to the assumptions that a re-evaluation is not given.
THEOREM RejectionsChangeNothing == Spec => []RejectedObjectionsChangeNothing
  <1>1. Recorded => RejectedObjectionsChangeNothing
    BY DEF Recorded, RowsRight, ObjectionRow, Rejected, RejectedObjectionsChangeNothing
  <1> QED
    BY <1>1, HistoryInvariant, PTL

\* An objection is marked re-evaluated only when exactly one re-evaluation of
\* it is saved, wherever requests break off (SaveReevaluation).
THEOREM MarkedHaveRows == Spec => []ReevaluatedHasRow
  <1>1. Recorded => ReevaluatedHasRow
    BY DEF Recorded, RowsCounted, ReevaluatedHasRow, Call
  <1> QED
    BY <1>1, HistoryInvariant, PTL

\* Objections never make a verdict worse, rejected ones change nothing, and a
\* mark has its row, wherever a request breaks off (submitObjection).
THEOREM ObjectionsAreSound == Spec => []ObjectionsSound
  <1>1. ObjectionsNeverHarm /\ RejectedObjectionsChangeNothing /\ ReevaluatedHasRow
            => ObjectionsSound
    BY DEF ObjectionsSound
  <1> QED
    BY <1>1, ObjectionsAreHarmless, RejectionsChangeNothing, MarkedHaveRows, PTL

\* However many revisions of a document are under way, each is recorded for a
\* version of its own, after the comparison is saved (reviseReport).
THEOREM RevisionsAreCompared == Spec => []RevisionsCompared
  <1>1. ASSUME Requests, Recorded
        PROVE  RevisionsCompared
    <2> SUFFICES ASSUME NEW n \in DOMAIN history, history[n].call \in Reviser
                 PROVE  /\ <<history[n].from, history[n].to>> \in comparisons
                        /\ \A m \in DOMAIN history :
                              history[m].call \in Reviser /\ history[m].to = history[n].to
                                 => m = n
      BY DEF RevisionsCompared
    <2>1. RevisionRow(history[n])
      BY <1>1 DEF Recorded, RowsRight
    <2>2. ASSUME NEW m \in DOMAIN history, history[m].call \in Reviser,
                 history[m].to = history[n].to
          PROVE  m = n
      <3>1. RevisionRow(history[m])
        BY <1>1, <2>2 DEF Recorded, RowsRight
      <3>2. history[m].call = history[n].call
        BY <1>1, <2>1, <2>2, <3>1 DEF RevisionRow, Requests, OwnVersion
      <3>3. m \in RowsOf(history[n].call) /\ n \in RowsOf(history[n].call)
        BY <3>2 DEF RowsOf
      <3> QED
        BY <1>1, <3>3 DEF Recorded, RowsCounted, Call
    <2> QED
      BY <2>1, <2>2 DEF RevisionRow
  <1> QED
    BY <1>1, HistoryInvariant, PTL
=============================================================================
