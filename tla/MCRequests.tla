------------------------------ MODULE MCRequests ------------------------------
(* Inputs of Requests for TLC. *)
EXTENDS Requests

\* Texts of which two have the same words, one is another wording, and two
\* long ones differ in a letter: eighteen hundredths of their words, ten of
\* their letters.
Text(words, wording) == [words |-> words, wording |-> wording]
Long == [i \in 1..10 |-> i]
A == Text(<<1, 2>>, 0)
Texts == {A, Text(<<1, 2>>, 1), Text(<<1, 3>>, 0)}
Findings1 == [area : {"problem", "data"}, content : Texts]
FindingLists == BoundedSeq(Findings1, 1)
    \cup {<<[area |-> "problem", content |-> a], [area |-> "problem", content |-> b]>> :
             a, b \in Texts}
    \cup {<<[area |-> "api", content |-> Text(l, 0)]>> :
             l \in {Long, [Long EXCEPT ![4] = 11], [Long EXCEPT ![4] = 11, ![5] = 12]}}
Summaries == {[k \in {} |-> A], [problem |-> A], [problem |-> Text(<<1, 3>>, 0), goal |-> A]}
SomeReports == [summary : Summaries, findings : FindingLists]
SomeVersions == {<<1, 2>>, <<2, 2>>}
SomeOrders == {<<<<"problem", "goal">>, <<"problem", "goal">>>>,
               <<<<"problem", "goal">>, <<"goal", "problem">>>>}

SomeAreas == {"context", "data", "verifiability"}
Premise == [id |-> "p1", sort |-> "assumption", critical |-> TRUE]
Doubt == [id |-> "p2", sort |-> "assumption", critical |-> FALSE]
Danger == [id |-> "r1", sort |-> "risk", impact |-> 70, likelihood |-> 10]
Source == [id |-> "d1", sort |-> "dependency", type |-> "data"]
SomePlanRequests ==
    [drivers : {{}, {Doubt}, {Premise, Danger}, {Premise, Source}},
     located : BOOLEAN, purposeGiven : {TRUE}]
    \cup [drivers : {{Premise}}, located : {TRUE}, purposeGiven : {FALSE}]
Items(area) ==
    {i \in [area : {area}, selected : BOOLEAN, depth : {"none", "basic", "deep"},
            drivers : {<<>>, <<"p1">>, <<"r1", "zz", "r1">>}, reason : BOOLEAN] :
        i.reason \/ i.drivers = <<>>}
SomePlanAnswers ==
    {<<c, d, v>> : c \in {i \in Items("context") : i.drivers = <<>>}, d \in Items("data"),
                   v \in Items("verifiability")}
    \cup {<<>>} \cup {<<c, c, v>> : c \in Items("context"), v \in Items("verifiability")}

Found(sorts, severities) ==
    [sort : sorts, severity : severities, scored : {TRUE}, texts : {TRUE},
     cites : {<<>>, <<1>>, <<1, 2>>, <<1, 1>>, <<1, 3>>}, absence : BOOLEAN]
Plain(f) == [f EXCEPT !.absence = FALSE]
Pairs(S) == {<<>>} \cup {<<f>> : f \in S} \cup (S \X S)
SomeFindings ==
    [alignment |-> Pairs(Found({"missing", "other"}, {"low", "blocking"})),
     contradiction |-> Pairs({Plain(f) : f \in Found({"claim"}, {"high", "odd"})}),
     gap |-> Pairs({Plain(f) : f \in Found({"state"}, {"high"})}),
     quality |-> LET of(s) == {Plain(f) : f \in Found({s}, {"satisfied"})}
                 IN  (of("research") \X of("validation") \X (of("logic") \cup of("research")))
                     \cup {<<f>> : f \in of("logic")}]

Defect(id, severity, mentions) ==
    [id |-> id, severity |-> severity, mentions |-> mentions, investigate |-> FALSE]
SomeDefects ==
    {<<>>, <<Defect("f1", "high", {}), Defect("f1", "high", {})>>}
    \cup {<<Defect("f1", "high", {m}), Defect("f2", s, {n}), Defect("f3", t, {n})>> :
            m, n \in {"goal", "data"}, s, t \in {"blocking", "low"}}
Written(title, text) == [title |-> title, content |-> text, findings |-> {}, evidence |-> {}]
SomePlans == {<<>>, <<Written("scope", <<"s">>), Written("data", <<>>)>>}
ClaimsFor(n) == [id : {n}, verified : BOOLEAN, text : {TRUE}, evidence : {{}, {"e"}},
                 findings : {{"f1"}, {"f1", "f2"}, {"f3"}}]
SomeClaims == {<<>>} \cup (ClaimsFor("c1") \X ClaimsFor("c2"))

\* Ten cases, the first of which carries all checks.
Golden(category, good, checks, exception) ==
    [category |-> category, good |-> good, checks |-> checks, exception |-> exception]
None == [m \in Metrics |-> 0]
Rest == <<Golden("partial", None, None, FALSE), Golden("not_executable", None, None, FALSE),
          Golden("before", None, None, FALSE), Golden("after", None, None, TRUE)>>
Fill == [i \in 1..5 |-> Golden("normal", None, None, FALSE)]
Recalls == {<<0, 0>>, <<8, 10>>, <<9, 10>>, <<19, 20>>, <<1, 0>>}
Measured(recall, precision) ==
    LET pair(m) == CASE m = "blocking_recall" -> recall
                     [] m = "finding_precision" -> precision
                     [] OTHER -> <<20, 20>>
    IN  Golden("normal", [m \in Metrics |-> pair(m)[1]], [m \in Metrics |-> pair(m)[2]], FALSE)
SomeCaseLists ==
    {<<Measured(r, p)>> \o Rest \o Fill : r \in Recalls, p \in Recalls \ {<<1, 0>>}}
    \cup {<<Measured(<<9, 10>>, <<9, 10>>)>> \o Rest \o SubSeq(Fill, 1, 4),
          Fill \o Fill}
SomeMinima == {NoMinima, None, [m \in Metrics |-> 50]}

SomeLimits ==
    {[queries |-> 0, sources |-> 0, seconds |-> 0, saturation |-> 0],
     [queries |-> 12, sources |-> 20, seconds |-> 180, saturation |-> 3]}
Assumption(id, stated, likelihood, kinds) ==
    [id |-> id, stated |-> stated, likelihood |-> likelihood, kinds |-> kinds]
SomeKinds == {<<>>, <<"api", "", "api">>, <<"api", "benchmark">>}
SomeAssumptions ==
    {<<>>, <<Assumption("a", FALSE, 500, <<>>)>>, <<Assumption("a", TRUE, 1001, <<>>)>>}
    \cup {<<Assumption("a", TRUE, l, k), Assumption("b", TRUE, 700, j),
            Assumption("c", TRUE, m, <<"paper">>)>> :
            l, m \in {699, 700, 1000}, k, j \in SomeKinds}
=============================================================================
