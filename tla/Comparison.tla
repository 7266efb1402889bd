----------------------------- MODULE Comparison -----------------------------
(***************************************************************************)
(* How two versions of a document are compared: the items of a report,     *)
(* which item of the later version continues which of the earlier one, and *)
(* what has to be evaluated again because of it.  A text is a sequence of  *)
(* words of one letter, and its wording: the case and the punctuation.     *)
(* Two texts can have the same words in another order or another wording.  *)
(***************************************************************************)
EXTENDS Naturals, Sequences, FiniteSets, SequencesExt

CONSTANT NoItem      \* the side of a change that is not there

\* A share of a whole, compared with a number of hundredths.
AtLeast(share, hundredths) == 100 * share.of >= hundredths * share.all
More(a, b) == a.of * b.all > b.of * a.all
Share(of, all) == [of |-> of, all |-> all]

\* The words two texts have in common.
similarity(a, b) ==
    LET union == ToSet(a.words) \cup ToSet(b.words)
    IN  IF union = {} THEN Share(1, 1)
        ELSE Share(Cardinality(ToSet(a.words) \cap ToSet(b.words)), Cardinality(union))

\* One row of the table of edit distances, for the letter l of the left text: a
\* cell is reached from the row above, straight or by a letter of the right text,
\* and from there by insertions along the row.
NextRow(row, l, right) ==
    LET straight(j) == {row[k] + 1 + (j - k) : k \in 1..j}
        across(j)   == {row[k] + (IF l = right[k] THEN 0 ELSE 1) + (j - 1 - k) : k \in 1..(j - 1)}
        least(S)    == CHOOSE n \in S : \A k \in S : n <= k
    IN  <<>> \o [j \in 1..(Len(right) + 1) |-> least(straight(j) \cup across(j))]

\* The part of two texts that no edit touches, letter by letter.
characterSimilarity(left, right) ==
    LET longest  == IF Len(left) >= Len(right) THEN Len(left) ELSE Len(right)
        first    == [j \in 1..(Len(right) + 1) |-> j - 1]
        distance == Last(FoldLeft(LAMBDA row, l : NextRow(row, l, right), first, left))
    IN  IF longest = 0 THEN Share(1, 1) ELSE Share(longest - distance, longest)

canonical(text) == text.words

classify(a, b) ==
    IF a = b THEN "unchanged"
    ELSE IF \/ canonical(a) = canonical(b)
            \/ AtLeast(similarity(a, b), 82)
            \/ AtLeast(characterSimilarity(canonical(a), canonical(b)), 90)
         THEN "expression_only"
         ELSE "meaning_changed"

closest_Again(item, items, used) ==
    LET best == FoldLeft(LAMBDA b, c :
                    IF c.kind = item.kind /\ More(similarity(c.content, item.content), b.score)
                    THEN [item |-> c, score |-> similarity(c.content, item.content)] ELSE b,
                    [item |-> NoItem, score |-> Share(0, 1)], items)
    IN  IF AtLeast(best.score, 45) THEN best.item ELSE NoItem

\* The first item of its kind, among those no other item continues, that has
\* most in common with it.
closest(item, items, used) ==
    LET free(c) == c.id \notin used /\ c.kind = item.kind
        best == FoldLeft(LAMBDA b, c :
                    IF free(c) /\ More(similarity(c.content, item.content), b.score)
                    THEN [item |-> c, score |-> similarity(c.content, item.content)] ELSE b,
                    [item |-> NoItem, score |-> Share(0, 1)], items)
    IN  IF AtLeast(best.score, 45) THEN best.item ELSE NoItem

\* What a change of an item of this kind touches.
AreasOf(kind) ==
    CASE kind \in {"purpose", "goal", "problem"} -> {"purpose", "problem", "context"}
      [] kind \in {"assumption", "claim", "evidence"} -> {"evidence", "context"}
      [] kind \in {"requirement", "policy", "state", "exception"} ->
             {"completeness", "consistency", "operations"}
      [] kind = "data" -> {"data", "evidence"}
      [] kind = "api" -> {"api", "technology"}
      [] OTHER -> {"consistency"}
Researched == {"assumption", "claim", "evidence", "data", "api"}
Preserved == {"expression_only", "unchanged"}

\* links: the findings that go with the id of an item.
Change(stable, itemKind, kind, prior, item, links) ==
    [stableId |-> stable, kind |-> kind, previous |-> prior, current |-> item,
     areas |-> IF kind \in Preserved THEN {} ELSE AreasOf(itemKind),
     findings |-> IF kind \in Preserved THEN {} ELSE links[stable],
     research |-> kind \notin Preserved /\ itemKind \in Researched]

-----------------------------------------------------------------------------
Links(previous, current) ==
    LET items == ToSet(previous) \cup ToSet(current)
    IN  [id \in {x.id : x \in items} |-> UNION {x.related : x \in {y \in items : y.id = id}}]

\* The item of the earlier version that this one continues: of its own id, or
\* the closest one that is left.
Prior(item, previous, used) ==
    LET own == SelectLastInSeq(previous, LAMBDA p : p.id = item.id)
    IN  IF own > 0 THEN previous[own] ELSE closest(item, previous, used)

CompareItem(previous, links, acc, item) ==
    LET prior == Prior(item, previous, acc.used)
    IN  IF prior = NoItem
        THEN [acc EXCEPT !.changes =
                 Append(@, Change(item.id, item.kind, "added", NoItem, item, links))]
        ELSE [used |-> acc.used \cup {prior.id},
              changes |-> Append(acc.changes,
                  Change(prior.id, item.kind, classify(prior.content, item.content),
                         prior, item, links))]

CompareItems(previous, current, links) ==
    FoldLeft(LAMBDA acc, item : CompareItem(previous, links, acc, item),
             [used |-> {}, changes |-> <<>>], current)

\* What of a sequence is in a set, in its order.
Among(s, T) ==
    FoldLeft(LAMBDA out, x : IF x \in T THEN Append(out, x) ELSE out, <<>>, s)

\* Items of the earlier version that nothing continues.
Removed(previous, current, used, links) ==
    LET gone == Among(previous, {p \in ToSet(previous) : /\ p.id \notin used
                                                        /\ \A c \in ToSet(current) : c.id # p.id})
    IN  [i \in DOMAIN gone |->
            Change(gone[i].id, gone[i].kind, "removed", gone[i], NoItem, links)]

\* The answer to CompareDocumentVersions, or "invalid".
Compare(previousVersion, currentVersion, previous, current) ==
    LET links    == Links(previous, current)
        paired   == CompareItems(previous, current, links)
        changes  == paired.changes \o Removed(previous, current, paired.used, links)
        meaning  == {c \in ToSet(changes) : c.kind \notin Preserved}
    IN  IF \/ previousVersion = 0 \/ currentVersion <= previousVersion
           \/ \E x \in ToSet(previous) \cup ToSet(current) : x.kind = ""
        THEN [outcome |-> "invalid"]
        ELSE [outcome |-> "compared", changes |-> changes,
              affectedAreas |-> UNION {c.areas : c \in meaning},
              affectedFindings |-> UNION {c.findings : c \in meaning},
              researchFirst |-> {c.stableId : c \in {d \in meaning : d.research}}]

-----------------------------------------------------------------------------
(* The items the gateway makes of a report.                                *)

SummaryItems(report, order) ==
    LET given == Among(order, DOMAIN report.summary)
    IN  [i \in DOMAIN given |->
            [id |-> <<"summary", given[i]>>, kind |-> given[i],
             content |-> report.summary[given[i]], related |-> {}]]

\* The id of a finding is made of its version, its place and its text.
FindingItems(report, version) ==
    [i \in DOMAIN report.findings |->
        LET id == <<version, i, report.findings[i]>>
        IN  [id |-> id, kind |-> report.findings[i].area,
             content |-> report.findings[i].content, related |-> {id}]]

reportVersionItems_FindingsFirst(report, version, order) ==
    FindingItems(report, version) \o SummaryItems(report, order)

\* The summary first, in the order in which a map is walked.
reportVersionItems(report, version, order) ==
    SummaryItems(report, order) \o FindingItems(report, version)
=============================================================================
