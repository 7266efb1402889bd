-------------------------- MODULE EvaluationsProofs --------------------------
(***************************************************************************)
(* Proofs about Evaluations, for any runs, documents, files, areas and     *)
(* answers, whatever runs are under way, fail or break off: first about    *)
(* the document service, its numbers, locks, versions, rows and originals, *)
(* then about the reports of the runs, then about their summaries.         *)
(***************************************************************************)
EXTENDS Evaluations, WellFoundedInduction, TLAPS

Version == [original : Original, by : Run \cup {None}]

\* Where a run is when its version was inserted.
Past == {"elements", "requirements", "identify", "plan", "evaluating", "plan_research",
         "research", "record", "report", "done"}
Stored(r) == pc[r] \in Past \/ report[r] # None

HasVersion(r) ==
    /\ number[r] \in DOMAIN versions[DocumentOf(r)]
    /\ versions[DocumentOf(r)][number[r]] = [original |-> call[r].original, by |-> r]

DocTyped ==
    /\ call \in [Run -> Calls]
    /\ pc \in [Run -> Chain \cup Outcome]
    /\ number \in [Run -> Nat]
    /\ blobs \subseteq Original
    /\ versions \in [DocumentId -> Seq(Version)]
    /\ locked \in [Document -> Run \cup {None}]
    /\ elements \subseteq [version : DocumentId \X Nat, by : Run, item : ElementType]
    /\ requirements \subseteq [version : DocumentId \X Nat, by : Run, item : {"requirement"}]

\* A run that has computed the number of a version of an existing document
\* holds the row of the document.
LocksHeld == \A r \in Run :
    pc[r] = "insert" /\ call[r].document # None => locked[call[r].document] = r
OriginalsPut == \A r \in Run : pc[r] \in {"number", "insert"} => call[r].original \in blobs
Finished == \A r \in Run : report[r] # None => pc[r] \in Outcome
VersionsOwn == \A r \in Run : Stored(r) => HasVersion(r)

DInv == /\ DocTyped /\ LocksHeld /\ OriginalsPut /\ Finished /\ VersionsOwn
        /\ NumbersFree /\ RowsUnlocked /\ OwnRows /\ VersionsReadable

-----------------------------------------------------------------------------
(* The documents.                                                          *)

\* The document of a call is an existing one, or the run's own.
LEMMA Documents ==
    ASSUME DocTyped, NEW r \in Run
    PROVE  /\ DocumentOf(r) \in DocumentId /\ DocumentOf(r) # None
           /\ call[r].original \in Original
           /\ call[r].document = None => DocumentOf(r) = r
           /\ call[r].document # None => /\ DocumentOf(r) = call[r].document
                                         /\ call[r].document \in Document
           /\ DocumentOf(r) \in Run => DocumentOf(r) = r
  BY Constants DEF DocTyped, DocumentOf, DocumentId

LEMMA InitDInv == Init => DInv
  <1> SUFFICES ASSUME Init PROVE DInv
    OBVIOUS
  <1>1. DocTyped
    <2>1. \A d \in DocumentId : versions[d] \in Seq(Version)
      <3>1. [original |-> First, by |-> None] \in Version
        BY Constants DEF Version
      <3>2. <<[original |-> First, by |-> None]>> \in Seq(Version) /\ <<>> \in Seq(Version)
        BY <3>1
      <3> QED
        BY <3>2 DEF Init
    <2>2. versions \in [DocumentId -> Seq(Version)]
      BY <2>1 DEF Init
    <2>3. pc \in [Run -> Chain \cup Outcome] /\ locked \in [Document -> Run \cup {None}]
      BY DEF Init, Chain
    <2> QED
      BY <2>2, <2>3, Constants DEF Init, DocTyped
  <1>2. \A r \in Run : pc[r] \in {"project", "original"} /\ report[r] = None
    BY DEF Init
  <1>3. LocksHeld /\ OriginalsPut /\ Finished /\ VersionsOwn /\ NumbersFree
    BY <1>2 DEF LocksHeld, Finished, OriginalsPut, VersionsOwn, NumbersFree, Stored, Past
  <1>4. RowsUnlocked /\ OwnRows /\ VersionsReadable
    BY DEF Init, RowsUnlocked, OwnRows, VersionsReadable
  <1> QED
    BY <1>1, <1>3, <1>4 DEF DInv

\* A run that is at another call, or at its end.
Moves(r, l) ==
    /\ l \in Chain \cup Outcome /\ pc' = [pc EXCEPT ![r] = l] /\ Running(r)
    /\ UNCHANGED <<call, number, versions>> /\ blobs \subseteq blobs'
    /\ locked' = Unlocked(r) \/ (locked' = locked /\ pc[r] # "insert")
    /\ l # "insert"
    /\ l = "number" => call[r].original \in blobs'
    /\ l \in Past => pc[r] \in Past
    /\ \A s \in Run : report'[s] # None =>
           report[s] # None \/ (s = r /\ pc[r] \in Past /\ l \in Outcome)

LEMMA MoveDInv ==
    ASSUME DInv, NEW r \in Run, NEW l, Moves(r, l), DocTyped', OwnRows'
    PROVE  DInv'
  <1> USE DEF DInv, Moves
  <1>1. pc'[r] = l /\ \A s \in Run \ {r} : pc'[s] = pc[s]
    BY DEF DocTyped
  <1>2. \A s \in Run : /\ DocumentOf(s)' = DocumentOf(s)
                       /\ NextNumber(DocumentOf(s))' = NextNumber(DocumentOf(s))
    BY DEF DocumentOf, NextNumber
  <1>3. LocksHeld'
    <2> SUFFICES ASSUME NEW s \in Run, pc'[s] = "insert", call[s].document # None
                 PROVE  locked'[call[s].document] = s
      BY DEF LocksHeld
    <2>1. s # r /\ locked[call[s].document] = s /\ call[s].document \in Document
      BY <1>1, Documents DEF LocksHeld
    <2> QED
      BY <2>1 DEF Unlocked
  <1>4. OriginalsPut'
    BY <1>1 DEF OriginalsPut
  <1>5. VersionsOwn'
    <2> SUFFICES ASSUME NEW s \in Run, Stored(s)' PROVE HasVersion(s)'
      BY DEF VersionsOwn
    <2>1. Stored(s)
      BY <1>1 DEF Stored
    <2> QED
      BY <1>2, <2>1 DEF VersionsOwn, HasVersion
  <1>6. NumbersFree'
    BY <1>1, <1>2 DEF NumbersFree
  <1>7. RowsUnlocked'
    <2> SUFFICES ASSUME NEW d \in Document, locked'[d] # None
                 PROVE  pc'[locked'[d]] = "insert" /\ call[locked'[d]].document = d
      BY DEF RowsUnlocked
    <2>1. locked'[d] = locked[d] /\ locked[d] \in Run /\ pc[locked[d]] = "insert"
          /\ call[locked[d]].document = d
      BY DEF DocTyped, Unlocked, RowsUnlocked
    <2>2. locked[d] # r
      BY <2>1 DEF Unlocked
    <2> QED
      BY <1>1, <2>1, <2>2
  <1>8. VersionsReadable'
    BY DEF VersionsReadable
  <1>9. Finished'
    BY <1>1 DEF Finished, Running, Chain, Outcome
  <1> QED
    BY <1>3, <1>4, <1>5, <1>6, <1>7, <1>8, <1>9

LEMMA NumberDInv ==
    ASSUME DInv, NEW r \in Run, NumberVersion(r)
    PROVE  DInv'
  <1> USE DEF DInv
  <1>1. /\ pc[r] = "number" /\ (call[r].document # None => locked[call[r].document] = None)
        /\ locked' = [d \in Document |-> IF d = call[r].document THEN r ELSE locked[d]]
        /\ number' = [number EXCEPT ![r] = NextNumber(DocumentOf(r))]
        /\ pc' = [pc EXCEPT ![r] = "insert"]
        /\ UNCHANGED <<call, blobs, versions, elements, requirements, report>>
    BY DEF NumberVersion, results
  <1>2. /\ pc'[r] = "insert" /\ \A s \in Run \ {r} : pc'[s] = pc[s] /\ number'[s] = number[s]
        /\ number'[r] = NextNumber(DocumentOf(r))
    BY <1>1 DEF DocTyped
  <1>3. \A s \in Run : DocumentOf(s)' = DocumentOf(s)
    BY <1>1 DEF DocumentOf
  <1>4. DocTyped'
    <2>1. NextNumber(DocumentOf(r)) \in Nat
      BY Documents DEF NextNumber, DocTyped
    <2>2. number' \in [Run -> Nat]
      BY <1>1, <2>1 DEF DocTyped
    <2>3. pc' \in [Run -> Chain \cup Outcome] /\ locked' \in [Document -> Run \cup {None}]
      BY <1>1 DEF DocTyped, Chain
    <2> QED
      BY <1>1, <2>2, <2>3 DEF DocTyped
  <1>5. LocksHeld'
    <2> SUFFICES ASSUME NEW s \in Run, pc'[s] = "insert", call[s].document # None
                 PROVE  locked'[call[s].document] = s
      BY <1>1 DEF LocksHeld
    <2>1. call[s].document \in Document
      BY Documents
    <2>2. CASE s = r
      BY <1>1, <2>1, <2>2
    <2>3. CASE s # r
      <3>1. locked[call[s].document] = s /\ s # None
        BY <1>2, <2>3, Constants DEF LocksHeld
      <3> QED
        BY <1>1, <2>1, <3>1
    <2> QED
      BY <2>2, <2>3
  <1>6. OriginalsPut'
    BY <1>1, <1>2 DEF OriginalsPut
  <1>7. VersionsOwn'
    <2> SUFFICES ASSUME NEW s \in Run, Stored(s)' PROVE HasVersion(s)'
      BY DEF VersionsOwn
    <2>1. CASE s # r
      BY <1>1, <1>2, <1>3, <2>1 DEF VersionsOwn, Stored, HasVersion
    <2>2. CASE s = r
      BY <1>1, <1>2, <2>2 DEF Stored, Past, Finished, Outcome
    <2> QED
      BY <2>1, <2>2
  <1>8. NumbersFree' /\ OwnRows' /\ VersionsReadable'
    BY <1>1, <1>2, <1>3 DEF NumbersFree, NextNumber, OwnRows, VersionsReadable
  <1>9. RowsUnlocked'
    BY <1>1, <1>2, Documents DEF RowsUnlocked, DocTyped
  <1>10. Finished'
    BY <1>1, <1>2 DEF Finished, Outcome
  <1> QED
    BY <1>4, <1>5, <1>6, <1>7, <1>8, <1>9, <1>10
LEMMA InsertDInv ==
    ASSUME DInv, NEW r \in Run, InsertVersion(r)
    PROVE  DInv'
  <1> USE DEF DInv
  <1> DEFINE d == DocumentOf(r)
             v == [original |-> call[r].original, by |-> r]
  <1>1. PICK l \in {"elements", "error"} : pc' = [pc EXCEPT ![r] = l]
    BY DEF InsertVersion, Answered
  <1>2. /\ pc[r] = "insert" /\ number[r] = Len(versions[d]) + 1
        /\ versions' = [versions EXCEPT ![d] = Append(versions[d], v)]
        /\ locked' = Unlocked(r)
        /\ UNCHANGED <<call, number, blobs, elements, requirements, report>>
    BY DEF InsertVersion, NextNumber, results
  <1>3. pc'[r] = l /\ \A s \in Run \ {r} : pc'[s] = pc[s]
    BY <1>1 DEF DocTyped
  <1>4. \A s \in Run : DocumentOf(s)' = DocumentOf(s)
    BY <1>2 DEF DocumentOf
  <1>5. d \in DocumentId /\ v \in Version /\ versions[d] \in Seq(Version)
    BY Documents DEF DocTyped, Version
  <1> HIDE DEF d, v
  <1>6. /\ Len(versions[d]) \in Nat /\ versions'[d] \in Seq(Version)
        /\ Len(versions'[d]) = Len(versions[d]) + 1
        /\ versions'[d][Len(versions[d]) + 1] = v
        /\ \A k \in DOMAIN versions[d] : k \in DOMAIN versions'[d]
                                      /\ versions'[d][k] = versions[d][k]
        /\ DOMAIN versions'[d] = DOMAIN versions[d] \cup {Len(versions[d]) + 1}
    <2>1. versions'[d] = Append(versions[d], v)
      BY <1>2, <1>5 DEF DocTyped
    <2>2. /\ Append(versions[d], v) \in Seq(Version)
          /\ Len(Append(versions[d], v)) = Len(versions[d]) + 1
          /\ Append(versions[d], v)[Len(versions[d]) + 1] = v
          /\ \A k \in 1..Len(versions[d]) : Append(versions[d], v)[k] = versions[d][k]
      BY <1>5
    <2>3. /\ Len(versions[d]) \in Nat /\ DOMAIN versions[d] = 1..Len(versions[d])
          /\ DOMAIN Append(versions[d], v) = 1..(Len(versions[d]) + 1)
      BY <1>5
    <2> QED
      BY <2>1, <2>2, <2>3
  <1>7. \A e \in DocumentId \ {d} : versions'[e] = versions[e]
    BY <1>2 DEF DocTyped
  <1>8. \A e \in DocumentId : \A k \in DOMAIN versions[e] :
            k \in DOMAIN versions'[e] /\ versions'[e][k] = versions[e][k]
    BY <1>6, <1>7
  \* Another run that is to insert a version has another document.
  <1>9. ASSUME NEW s \in Run \ {r}, pc[s] = "insert" PROVE DocumentOf(s) # d
    <2>1. CASE call[r].document = None
      BY <2>1, Documents DEF d
    <2>2. CASE call[r].document # None
      <3>1. locked[d] = r /\ d \in Document
        BY <1>2, <2>2, Documents DEF LocksHeld, d
      <3>2. CASE call[s].document = None
        BY <3>1, <3>2, Documents, Constants
      <3>3. CASE call[s].document # None
        BY <1>9, <3>1, <3>3, Documents DEF LocksHeld
      <3> QED
        BY <3>2, <3>3
    <2> QED
      BY <2>1, <2>2
  <1>10. DocTyped'
    <2>1. versions' \in [DocumentId -> Seq(Version)]
      BY <1>2, <1>5, <1>6, <1>7 DEF DocTyped
    <2>2. pc' \in [Run -> Chain \cup Outcome] /\ locked' \in [Document -> Run \cup {None}]
      BY <1>1, <1>2 DEF DocTyped, Chain, Outcome, Unlocked
    <2> QED
      BY <1>2, <2>1, <2>2 DEF DocTyped
  <1>11. LocksHeld'
    <2> SUFFICES ASSUME NEW s \in Run, pc'[s] = "insert", call[s].document # None
                 PROVE  locked'[call[s].document] = s
      BY <1>2 DEF LocksHeld
    <2>1. s # r /\ locked[call[s].document] = s /\ call[s].document \in Document
      BY <1>3, Documents DEF LocksHeld
    <2> QED
      BY <1>2, <2>1 DEF Unlocked
  <1>12. OriginalsPut' /\ Finished'
    BY <1>2, <1>3 DEF OriginalsPut, Finished, Outcome
  <1>13. VersionsOwn'
    <2> SUFFICES ASSUME NEW s \in Run, Stored(s)' PROVE HasVersion(s)'
      BY DEF VersionsOwn
    <2>1. CASE s = r
      BY <1>2, <1>4, <1>6, <2>1 DEF HasVersion, d, v
    <2>2. CASE s # r
      <3>1. HasVersion(s) /\ DocumentOf(s) \in DocumentId
        BY <1>2, <1>3, <2>2, Documents DEF VersionsOwn, Stored
      <3> QED
        BY <1>2, <1>4, <1>8, <3>1 DEF HasVersion
    <2> QED
      BY <2>1, <2>2
  <1>14. NumbersFree'
    <2> SUFFICES ASSUME NEW s \in Run, pc'[s] = "insert"
                 PROVE  number[s] = Len(versions'[DocumentOf(s)]) + 1
      BY <1>2, <1>4 DEF NumbersFree, NextNumber
    <2>1. s # r /\ pc[s] = "insert" /\ number[s] = Len(versions[DocumentOf(s)]) + 1
      BY <1>3 DEF NumbersFree, NextNumber
    <2>2. DocumentOf(s) # d /\ DocumentOf(s) \in DocumentId
      BY <1>9, <2>1, Documents
    <2> QED
      BY <1>7, <2>1, <2>2
  <1>15. RowsUnlocked'
    <2> SUFFICES ASSUME NEW e \in Document, locked'[e] # None
                 PROVE  pc'[locked'[e]] = "insert" /\ call[locked'[e]].document = e
      BY <1>2 DEF RowsUnlocked
    <2>1. /\ locked'[e] = locked[e] /\ locked[e] # r /\ locked[e] \in Run
          /\ pc[locked[e]] = "insert" /\ call[locked[e]].document = e
      BY <1>2 DEF DocTyped, Unlocked, RowsUnlocked
    <2> QED
      BY <1>3, <2>1
  <1>16. OwnRows'
    <2> SUFFICES ASSUME NEW row \in elements \cup requirements
                 PROVE  /\ row.version[2] \in DOMAIN versions'[row.version[1]]
                        /\ versions'[row.version[1]][row.version[2]].by = row.by
      BY <1>2 DEF OwnRows
    <2>1. row.version[1] \in DocumentId
      BY DEF DocTyped
    <2> QED
      BY <1>8, <2>1 DEF OwnRows
  <1>17. VersionsReadable'
    <2> SUFFICES ASSUME NEW e \in DocumentId, NEW k \in DOMAIN versions'[e]
                 PROVE  versions'[e][k].original \in blobs
      BY <1>2 DEF VersionsReadable
    <2>1. CASE k \in DOMAIN versions[e]
      BY <1>8, <2>1 DEF VersionsReadable
    <2>2. CASE k \notin DOMAIN versions[e]
      <3>1. e = d /\ k = Len(versions[d]) + 1
        BY <1>6, <1>7, <2>2
      <3>2. call[r].original \in blobs
        BY <1>2 DEF OriginalsPut
      <3> QED
        BY <1>6, <3>1, <3>2 DEF v
    <2> QED
      BY <2>1, <2>2
  <1> QED
    BY <1>10, <1>11, <1>12, <1>13, <1>14, <1>15, <1>16, <1>17

\* A run that has its version replaces rows by rows of that version.
LEMMA ReplacedRows ==
    ASSUME DInv, NEW r \in Run, pc[r] \in Past, NEW found, NEW table,
           \A row \in table : row \in elements \cup requirements
    PROVE  /\ VersionOf(r) \in DocumentId \X Nat
           /\ \A row \in Replace(table, r, found) :
                  /\ row.version[2] \in DOMAIN versions[row.version[1]]
                  /\ versions[row.version[1]][row.version[2]].by = row.by
  <1>1. HasVersion(r) /\ DocumentOf(r) \in DocumentId /\ number[r] \in Nat
    BY Documents DEF DInv, VersionsOwn, Stored, DocTyped
  <1>2. /\ VersionOf(r) \in DocumentId \X Nat
        /\ VersionOf(r)[1] = DocumentOf(r) /\ VersionOf(r)[2] = number[r]
    BY <1>1 DEF VersionOf
  <1> SUFFICES ASSUME NEW row \in Replace(table, r, found)
               PROVE  /\ row.version[2] \in DOMAIN versions[row.version[1]]
                      /\ versions[row.version[1]][row.version[2]].by = row.by
    BY <1>2
  <1>3. CASE row \in table
    BY <1>3 DEF DInv, OwnRows
  <1>4. CASE row \notin table
    <2>1. row.version = VersionOf(r) /\ row.by = r
      BY <1>4 DEF Replace
    <2> QED
      BY <1>1, <1>2, <2>1 DEF HasVersion
  <1> QED
    BY <1>3, <1>4

LEMMA AnalyzeDInv ==
    ASSUME DInv, NEW r \in Run, AnalyzeDocumentVersion(r) \/ AnalyzeRequirements(r)
    PROVE  DInv'
  <1>1. pc[r] \in Past /\ Running(r) /\ pc[r] # "insert"
        /\ UNCHANGED <<call, number, versions, blobs, locked, report>>
    BY DEF AnalyzeDocumentVersion, AnalyzeRequirements, Past, Running, Chain, results
  <1>2. PICK l \in {"requirements", "identify", "error"} : pc' = [pc EXCEPT ![r] = l]
    BY DEF AnalyzeDocumentVersion, AnalyzeRequirements, Answered
  <1>3. /\ elements' \subseteq [version : DocumentId \X Nat, by : Run, item : ElementType]
        /\ requirements' \subseteq [version : DocumentId \X Nat, by : Run, item : {"requirement"}]
        /\ \A row \in elements' \cup requirements' :
                  /\ row.version[2] \in DOMAIN versions[row.version[1]]
                  /\ versions[row.version[1]][row.version[2]].by = row.by
    <2>1. CASE AnalyzeDocumentVersion(r)
      <3>1. PICK found \in Analyses : elements' = Replace(elements, r, found)
        BY <2>1 DEF AnalyzeDocumentVersion
      <3>2. found \subseteq ElementType /\ requirements' = requirements
        BY <2>1, Constants DEF AnalyzeDocumentVersion
      <3>3. /\ VersionOf(r) \in DocumentId \X Nat
            /\ \A row \in elements' :
                  /\ row.version[2] \in DOMAIN versions[row.version[1]]
                  /\ versions[row.version[1]][row.version[2]].by = row.by
        BY <1>1, <3>1, ReplacedRows
      <3>4. elements' \subseteq [version : DocumentId \X Nat, by : Run, item : ElementType]
        BY <3>1, <3>2, <3>3 DEF Replace, DInv, DocTyped
      <3>5. requirements' \subseteq [version : DocumentId \X Nat, by : Run, item : {"requirement"}]
        BY <3>2 DEF DInv, DocTyped
      <3>6. \A row \in requirements' :
                  /\ row.version[2] \in DOMAIN versions[row.version[1]]
                  /\ versions[row.version[1]][row.version[2]].by = row.by
        BY <3>2 DEF DInv, OwnRows
      <3> QED
        BY <3>3, <3>4, <3>5, <3>6
    <2>2. CASE AnalyzeRequirements(r)
      <3>1. PICK found \in SUBSET {"requirement"} : requirements' = Replace(requirements, r, found)
        BY <2>2 DEF AnalyzeRequirements
      <3>2. found \subseteq {"requirement"} /\ elements' = elements
        BY <2>2, Constants DEF AnalyzeRequirements
      <3>3. /\ VersionOf(r) \in DocumentId \X Nat
            /\ \A row \in requirements' :
                  /\ row.version[2] \in DOMAIN versions[row.version[1]]
                  /\ versions[row.version[1]][row.version[2]].by = row.by
        BY <1>1, <3>1, ReplacedRows
      <3>4. requirements' \subseteq [version : DocumentId \X Nat, by : Run, item : {"requirement"}]
        BY <3>1, <3>2, <3>3 DEF Replace, DInv, DocTyped
      <3>5. elements' \subseteq [version : DocumentId \X Nat, by : Run, item : ElementType]
        BY <3>2 DEF DInv, DocTyped
      <3>6. \A row \in elements' :
                  /\ row.version[2] \in DOMAIN versions[row.version[1]]
                  /\ versions[row.version[1]][row.version[2]].by = row.by
        BY <3>2 DEF DInv, OwnRows
      <3> QED
        BY <3>3, <3>4, <3>5, <3>6
    <2> QED
      BY <2>1, <2>2
  <1>4. OwnRows'
    BY <1>1, <1>3 DEF OwnRows
  <1>5. DocTyped'
    <2>1. pc' \in [Run -> Chain \cup Outcome]
      BY <1>2 DEF DInv, DocTyped, Chain, Outcome
    <2> QED
      BY <1>1, <1>3, <2>1 DEF DInv, DocTyped
  <1>6. l \in Chain \cup Outcome /\ l # "insert" /\ l # "number"
    BY DEF Chain, Outcome
  <1>7. \A s \in Run : report'[s] # None => report[s] # None
    BY <1>1
  <1>8. Moves(r, l)
    BY <1>1, <1>2, <1>6, <1>7 DEF Moves
  <1> QED
    BY <1>4, <1>5, <1>8, MoveDInv

LEMMA NextDInv == DInv /\ [Next]_vars => DInv'
  <1> SUFFICES ASSUME DInv, [Next]_vars PROVE DInv'
    OBVIOUS
  <1> USE DEF documentStore, results
  <1>1. ASSUME UNCHANGED <<call, pc, number, documentStore, report>> PROVE DInv'
    BY <1>1 DEF DInv, DocTyped, LocksHeld, OriginalsPut, Finished, VersionsOwn, Stored, HasVersion,
       NumbersFree, NextNumber, RowsUnlocked, OwnRows, VersionsReadable, DocumentOf
  <1>2. CASE UNCHANGED vars
    BY <1>1, <1>2 DEF vars
  <1>3. ASSUME NEW r \in Run, NEW p \in Part, Evaluate(r, p) \/ EvaluationFails(r, p)
        PROVE  DInv'
    BY <1>1, <1>3 DEF Evaluate, EvaluationFails
  <1>4. ASSUME NEW r \in Run, CreateProject(r) \/ PutOriginal(r) PROVE DInv'
    <2>1. PICK l \in {"original", "number", "error"} :
              /\ pc' = [pc EXCEPT ![r] = l]
              /\ l = "number" => call[r].original \in blobs'
      BY <1>4 DEF CreateProject, PutOriginal, Answered
    <2>2. /\ Running(r) /\ pc[r] # "insert" /\ blobs \subseteq blobs'
          /\ UNCHANGED <<call, number, versions, locked, elements, requirements, report>>
      BY <1>4 DEF CreateProject, PutOriginal, Running, Chain
    <2>3. blobs' \subseteq Original
      BY <1>4, Documents DEF CreateProject, PutOriginal, DInv, DocTyped
    <2>4. DocTyped' /\ OwnRows'
      <3>1. pc' \in [Run -> Chain \cup Outcome]
        BY <2>1 DEF DInv, DocTyped, Chain, Outcome
      <3> QED
        BY <2>2, <2>3, <3>1 DEF DInv, DocTyped, OwnRows
    <2>5. l \in Chain \cup Outcome /\ l # "insert" /\ l \notin Past
      BY DEF Chain, Outcome, Past
    <2>6. Moves(r, l)
      BY <2>1, <2>2, <2>5 DEF Moves
    <2> QED
      BY <2>4, <2>6, MoveDInv
  <1>5. ASSUME NEW r \in Run, Fail(r) PROVE DInv'
    <2>1. /\ Running(r) /\ pc' = [pc EXCEPT ![r] = "error"] /\ locked' = Unlocked(r)
          /\ UNCHANGED <<call, number, versions, blobs, elements, requirements, report>>
      BY <1>5 DEF Fail
    <2>2. DocTyped' /\ OwnRows'
      <3>1. pc' \in [Run -> Chain \cup Outcome]
        BY <2>1 DEF DInv, DocTyped, Outcome
      <3>2. locked' \in [Document -> Run \cup {None}]
        BY <2>1 DEF DInv, DocTyped, Unlocked
      <3> QED
        BY <2>1, <3>1, <3>2 DEF DInv, DocTyped, OwnRows
    <2>3. "error" \in Chain \cup Outcome /\ "error" \notin Past
      BY DEF Outcome, Past
    <2>4. Moves(r, "error")
      BY <2>1, <2>3 DEF Moves
    <2> QED
      BY <2>2, <2>4, MoveDInv
  <1>6. ASSUME NEW r \in Run, \/ IdentifyAssumptionsAndRisks(r) \/ CreateValidationPlan(r)
                             \/ Join(r) \/ PlanResearch(r) \/ ExecuteResearch(r)
                             \/ RecordValidationResults(r) \/ CreateReport(r)
        PROVE  DInv'
    <2>1. /\ pc[r] \in Past /\ Running(r) /\ pc[r] # "insert"
          /\ UNCHANGED <<call, number, versions, blobs, locked, elements, requirements>>
      BY <1>6 DEF IdentifyAssumptionsAndRisks, CreateValidationPlan, Join, PlanResearch,
         ExecuteResearch, RecordValidationResults, CreateReport, Past, Running, Chain
    <2>2. PICK l \in Chain \cup Outcome :
              /\ pc' = [pc EXCEPT ![r] = l] /\ l # "insert" /\ l # "number"
              /\ \A s \in Run : report'[s] # None =>
                     report[s] # None \/ (s = r /\ pc[r] \in Past /\ l \in Outcome)
      <3>1. CASE CreateReport(r)
        <4>1. PICK l \in Outcome : pc' = [pc EXCEPT ![r] = l]
          BY <3>1 DEF CreateReport, Answered, Outcome
        <4>2. \A s \in Run : report'[s] # None => report[s] # None \/ s = r
          BY <3>1 DEF CreateReport
        <4> QED
          BY <2>1, <4>1, <4>2 DEF Outcome
      <3>2. CASE ~CreateReport(r)
        <4>1. UNCHANGED report
          BY <1>6, <3>2 DEF IdentifyAssumptionsAndRisks, CreateValidationPlan, Join,
             PlanResearch, ExecuteResearch, RecordValidationResults
        <4>2. PICK l \in {"plan", "evaluating", "plan_research", "research", "record",
                          "report", "error"} : pc' = [pc EXCEPT ![r] = l]
          BY <1>6, <3>2 DEF IdentifyAssumptionsAndRisks, CreateValidationPlan, Join,
             PlanResearch, ExecuteResearch, RecordValidationResults, Answered
        <4> QED
          <5>1. l \in Chain \cup Outcome /\ l # "insert" /\ l # "number"
            BY DEF Chain, Outcome
          <5>2. \A s \in Run : report'[s] # None => report[s] # None
            BY <4>1
          <5>3. /\ pc' = [pc EXCEPT ![r] = l] /\ l # "insert" /\ l # "number"
                /\ \A s \in Run : report'[s] # None =>
                      report[s] # None \/ (s = r /\ pc[r] \in Past /\ l \in Outcome)
            BY <4>2, <5>1, <5>2
          <5> QED
            BY <5>1, <5>3
      <3> QED
        BY <3>1, <3>2
    <2>3. DocTyped' /\ OwnRows'
      BY <2>1, <2>2 DEF DInv, DocTyped, OwnRows
    <2>4. Moves(r, l)
      BY <2>1, <2>2 DEF Moves
    <2> QED
      BY <2>3, <2>4, MoveDInv
  <1> QED
    BY <1>2, <1>3, <1>4, <1>5, <1>6, NumberDInv, InsertDInv, AnalyzeDInv DEF Next

LEMMA DocumentsKept == Spec => []DInv
  BY InitDInv, NextDInv, PTL DEF Spec

\* However many revisions of a document are under way, overlap, fail or break
\* off, its versions and what was read out of them are in order (AddVersion,
\* ReplaceElements, ReplaceRequirements).
THEOREM VersionsAreSound == Spec => []VersionsSound
  <1>1. DInv => VersionsSound
    BY DEF DInv, VersionsSound
  <1> QED
    BY <1>1, DocumentsKept, PTL

-----------------------------------------------------------------------------
(***************************************************************************)
(* The reports, for any runs, documents, files, areas and answers: what a  *)
(* run has stored at each call of its chain, so when it makes its report;  *)
(* that this stays; and that the runs implement the abstract handler.      *)
(***************************************************************************)

Found == Seq(Severity) \cup {None}

Replies == [elements : SUBSET ElementType, requirements : BOOLEAN, assumptions : BOOLEAN,
            selected : Selections \cup {{}}, failed : BOOLEAN]

RunTyped ==
    /\ replies \in [Run -> Replies]
    /\ inFlight \in [Run -> SUBSET Part]
    /\ projects \subseteq Run
    /\ rows \subseteq Table \X Run
    /\ evaluated \in [Run -> [Part -> Found]]
    /\ \A r \in Run, p \in Part : evaluated[r][p] \in Answers[p] \cup {None}
    /\ summary \in [Run -> Summary \cup {None}]
    /\ report \in [Run -> Report \cup {None}]

\* The calls after each call.
Reporting == {"report", "done"}
Recording == {"record"} \cup Reporting
Researching == {"research"} \cup Recording
Joined == {"plan_research"} \cup Researching
Planned == {"evaluating"} \cup Joined
Identified == {"plan"} \cup Planned
Required == {"identify"} \cup Identified
Analyzed == {"requirements"} \cup Required

Reached(r, calls) == pc[r] \in calls \/ report[r] # None

Items(table, r) == {row.item : row \in {t \in table : t.version = VersionOf(r)}}

\* What a run has read out of its version.
ReadOut(r) ==
    /\ Reached(r, Analyzed) => Items(elements, r) = replies[r].elements
    /\ Reached(r, Required) => (replies[r].requirements <=> Items(requirements, r) # {})

\* What it has stored of its own.
OwnStored(r) ==
    /\ Reached(r, Identified) => <<"analysis", r>> \in rows
    /\ Reached(r, Planned) => <<"plan", r>> \in rows /\ "purpose" \in replies[r].elements
    /\ Reached(r, Researching) => <<"research_plan", r>> \in rows /\ replies[r].assumptions
    /\ Reached(r, Recording) => <<"research_report", r>> \in rows

\* Its four evaluations; one that is answered for a run that waits for it has
\* been stored, or it has failed.
EvaluationsBack(r) ==
    /\ inFlight[r] # {} => pc[r] \in {"evaluating", "error"} /\ report[r] = None
    /\ evaluated[r]["completeness"] # None =>
           replies[r].requirements /\ pc[r] \in Planned \cup {"error"}
    /\ pc[r] = "evaluating" =>
           \A p \in Part \ inFlight[r] : evaluated[r][p] # None \/ replies[r].failed
    /\ Reached(r, Joined) => \A p \in Part : evaluated[r][p] # None

\* Its summary and its report.
Reports(r) ==
    /\ Reached(r, Reporting) => /\ summary[r] \in Summary
                                /\ summary[r].results = AreaStatuses(r)
                                /\ AreaStatuses(r) \in [Area -> Status]
    /\ report[r] # None => report[r] = [version |-> VersionOf(r), areas |-> AreaStatuses(r),
                                        findings |-> evaluated[r]]

RunInv(r) == ReadOut(r) /\ OwnStored(r) /\ EvaluationsBack(r) /\ Reports(r)

RInv == RunTyped /\ \A r \in Run : RunInv(r)

-----------------------------------------------------------------------------
LEMMA InitRInv == Init => RInv
  <1> SUFFICES ASSUME Init PROVE RInv
    OBVIOUS
  <1>1. RunTyped
    <2>1. NotEvaluated \in [Part -> Found] /\ NoReplies \in Replies
      BY DEF NotEvaluated, NoReplies, Found, Replies
    <2>2. \A r \in Run, p \in Part : evaluated[r][p] = None
      BY DEF Init, NotEvaluated
    <2> QED
      BY <2>1, <2>2 DEF Init, RunTyped
  <1>2. \A r \in Run : /\ pc[r] \in {"project", "original"} /\ report[r] = None
                       /\ inFlight[r] = {} /\ evaluated[r] = NotEvaluated
    BY DEF Init
  <1>3. \A r \in Run : RunInv(r)
    BY <1>2 DEF RunInv, ReadOut, OwnStored, EvaluationsBack, Reports, Reached, NotEvaluated,
       Part, Reporting, Recording, Researching, Joined, Planned, Identified, Required, Analyzed
  <1> QED
    BY <1>1, <1>3 DEF RInv

\* No two runs have one version.
LEMMA VersionsDiffer ==
    ASSUME DInv, NEW r \in Run, NEW s \in Run \ {r}, Stored(r), Stored(s)
    PROVE  VersionOf(r) # VersionOf(s)
  <1>1. HasVersion(r) /\ HasVersion(s)
    BY DEF DInv, VersionsOwn
  <1> SUFFICES ASSUME VersionOf(r) = VersionOf(s) PROVE FALSE
    OBVIOUS
  <1>2. DocumentOf(r) = DocumentOf(s) /\ number[r] = number[s]
    BY DEF VersionOf
  <1>3. [original |-> call[r].original, by |-> r] = [original |-> call[s].original, by |-> s]
    BY <1>1, <1>2 DEF HasVersion
  <1> QED
    BY <1>3

\* The calls at which a run has its version.
LEMMA CallsNested ==
    /\ Reporting \subseteq Recording /\ Recording \subseteq Researching
    /\ Researching \subseteq Joined /\ Joined \subseteq Planned
    /\ Planned \subseteq Identified /\ Identified \subseteq Required
    /\ Required \subseteq Analyzed /\ Analyzed \subseteq Past
    /\ "error" \notin Past
  BY DEF Reporting, Recording, Researching, Joined, Planned, Identified, Required, Analyzed, Past

\* A step of another run leaves what a run has as it is.
Kept(r) ==
    /\ UNCHANGED <<pc[r], number[r], replies[r], inFlight[r], evaluated[r], summary[r],
                   report[r], call>>
    /\ rows \subseteq rows'
    /\ Stored(r) => /\ Items(elements, r)' = Items(elements, r)
                    /\ Items(requirements, r)' = Items(requirements, r)

LEMMA KeptRunInv ==
    ASSUME NEW r \in Run, RunInv(r), Kept(r)
    PROVE  RunInv(r)'
  <1>1. VersionOf(r)' = VersionOf(r) /\ AreaStatuses(r)' = AreaStatuses(r)
    BY DEF Kept, VersionOf, DocumentOf, AreaStatuses, AreaStatus
  <1>2. \A calls : Reached(r, calls)' <=> Reached(r, calls)
    BY DEF Kept, Reached
  <1>3. ReadOut(r)'
    BY <1>2, CallsNested DEF Kept, RunInv, ReadOut, Reached, Stored
  <1>4. OwnStored(r)'
    BY <1>2 DEF Kept, RunInv, OwnStored
  <1>5. EvaluationsBack(r)'
    BY <1>2 DEF Kept, RunInv, EvaluationsBack
  <1>6. Reports(r)'
    BY <1>1, <1>2 DEF Kept, RunInv, Reports
  <1> QED
    BY <1>3, <1>4, <1>5, <1>6 DEF RunInv

Acts(r) ==
    \/ CreateProject(r) \/ PutOriginal(r) \/ NumberVersion(r) \/ InsertVersion(r)
    \/ AnalyzeDocumentVersion(r) \/ AnalyzeRequirements(r)
    \/ IdentifyAssumptionsAndRisks(r) \/ CreateValidationPlan(r)
    \/ \E p \in Part : Evaluate(r, p) \/ EvaluationFails(r, p)
    \/ Join(r) \/ PlanResearch(r) \/ ExecuteResearch(r)
    \/ RecordValidationResults(r) \/ CreateReport(r) \/ Fail(r)

LEMMA ItemsKept ==
    ASSUME DInv, NEW r \in Run, NEW s \in Run \ {r}, Stored(r), Stored(s),
           NEW before, NEW after,
           \A row : row.version # VersionOf(r) => (row \in before <=> row \in after)
    PROVE  Items(before, s) = Items(after, s)
  <1>1. VersionOf(s) # VersionOf(r)
    BY VersionsDiffer
  <1>2. {t \in before : t.version = VersionOf(s)} = {t \in after : t.version = VersionOf(s)}
    BY <1>1
  <1> QED
    BY <1>2 DEF Items

LEMMA ReplacedItems ==
    ASSUME NEW r \in Run, NEW table, NEW found
    PROVE  /\ \A row : row.version # VersionOf(r) =>
                  (row \in table <=> row \in Replace(table, r, found))
           /\ Items(Replace(table, r, found), r) = found
  <1> DEFINE New == {[version |-> VersionOf(r), by |-> r, item |-> i] : i \in found}
  <1>1. Replace(table, r, found) = {row \in table : row.version # VersionOf(r)} \cup New
    BY DEF Replace
  <1>2. \A row \in New : row.version = VersionOf(r) /\ row.item \in found
    OBVIOUS
  <1>3. \A i \in found : \E row \in New : row.version = VersionOf(r) /\ row.item = i
    <2> TAKE i \in found
    <2> WITNESS [version |-> VersionOf(r), by |-> r, item |-> i] \in New
    <2> QED
      OBVIOUS
  <1> HIDE DEF New
  <1>4. {t \in Replace(table, r, found) : t.version = VersionOf(r)} = New
    BY <1>1, <1>2
  <1>5. {row.item : row \in New} = found
    BY <1>2, <1>3
  <1> QED
    BY <1>1, <1>2, <1>4, <1>5 DEF Items

\* An analysis changes the rows of the run's version only.
LEMMA AnalysesReplace ==
    ASSUME NEW r \in Run, AnalyzeDocumentVersion(r) \/ AnalyzeRequirements(r)
    PROVE  /\ \A row : row.version # VersionOf(r) => (row \in elements <=> row \in elements')
           /\ \A row : row.version # VersionOf(r) =>
                  (row \in requirements <=> row \in requirements')
  <1>1. CASE AnalyzeDocumentVersion(r)
    <2>1. requirements' = requirements /\ \E found : elements' = Replace(elements, r, found)
      BY <1>1 DEF AnalyzeDocumentVersion
    <2> QED
      BY <2>1, ReplacedItems
  <1>2. CASE AnalyzeRequirements(r)
    <2>1. elements' = elements /\ \E found : requirements' = Replace(requirements, r, found)
      BY <1>2 DEF AnalyzeRequirements
    <2> QED
      BY <2>1, ReplacedItems
  <1> QED
    BY <1>1, <1>2

LEMMA OthersKept ==
    ASSUME DInv, RInv, NEW r \in Run, Acts(r), NEW s \in Run \ {r}
    PROVE  Kept(s)
  <1> USE DEF documentStore, results
  <1>1. /\ UNCHANGED <<pc[s], number[s], replies[s], inFlight[s], evaluated[s], summary[s],
                       report[s], call>>
        /\ rows \subseteq rows'
    <2>1. /\ pc \in [Run -> Chain \cup Outcome] /\ number \in [Run -> Nat]
          /\ replies \in [Run -> Replies]
          /\ inFlight \in [Run -> SUBSET Part] /\ evaluated \in [Run -> [Part -> Found]]
          /\ summary \in [Run -> Summary \cup {None}] /\ report \in [Run -> Report \cup {None}]
      BY DEF DInv, DocTyped, RInv, RunTyped
    <2>2. CASE CreateProject(r) \/ PutOriginal(r) \/ NumberVersion(r) \/ InsertVersion(r)
      BY <2>1, <2>2 DEF CreateProject, PutOriginal, NumberVersion, InsertVersion, Answered
    <2>3. CASE AnalyzeDocumentVersion(r) \/ AnalyzeRequirements(r)
      BY <2>1, <2>3 DEF AnalyzeDocumentVersion, AnalyzeRequirements, Answered
    <2>4. CASE IdentifyAssumptionsAndRisks(r) \/ CreateValidationPlan(r)
      BY <2>1, <2>4 DEF IdentifyAssumptionsAndRisks, CreateValidationPlan, Answered, Insert
    <2>5. CASE \E p \in Part : Evaluate(r, p) \/ EvaluationFails(r, p)
      BY <2>1, <2>5 DEF Evaluate, EvaluationFails
    <2>6. CASE Join(r) \/ PlanResearch(r) \/ ExecuteResearch(r) \/ Fail(r)
      BY <2>1, <2>6 DEF Join, PlanResearch, ExecuteResearch, Fail, Answered, Insert
    <2>7. CASE RecordValidationResults(r) \/ CreateReport(r)
      BY <2>1, <2>7 DEF RecordValidationResults, CreateReport, Answered
    <2> QED
      BY <2>2, <2>3, <2>4, <2>5, <2>6, <2>7 DEF Acts
  <1>2. ASSUME Stored(s)
        PROVE  /\ Items(elements, s)' = Items(elements, s)
               /\ Items(requirements, s)' = Items(requirements, s)
    <2>1. VersionOf(s)' = VersionOf(s)
      BY <1>1 DEF VersionOf, DocumentOf
    <2>2. CASE AnalyzeDocumentVersion(r) \/ AnalyzeRequirements(r)
      <3>1. Stored(r)
        BY <2>2 DEF Stored, Past, AnalyzeDocumentVersion, AnalyzeRequirements
      <3>2. /\ Items(elements, s) = Items(elements', s)
            /\ Items(requirements, s) = Items(requirements', s)
        BY <1>2, <2>2, <3>1, AnalysesReplace, ItemsKept
      <3> QED
        BY <2>1, <3>2 DEF Items
    <2>3. CASE ~(AnalyzeDocumentVersion(r) \/ AnalyzeRequirements(r))
      <3>1. UNCHANGED <<elements, requirements>>
        BY <2>3 DEF Acts, CreateProject, PutOriginal, NumberVersion, InsertVersion,
           IdentifyAssumptionsAndRisks, CreateValidationPlan, Evaluate, EvaluationFails, Join,
           PlanResearch, ExecuteResearch, RecordValidationResults, CreateReport, Fail
      <3> QED
        BY <2>1, <3>1 DEF Items
    <2> QED
      BY <2>2, <2>3
  <1> QED
    BY <1>1, <1>2 DEF Kept

\* A report is made of what the run has.
LEMMA ReportIsTyped ==
    ASSUME DInv, RInv, NEW r \in Run, CreateReport(r)
    PROVE  [version |-> VersionOf(r), areas |-> AreaStatuses(r), findings |-> evaluated[r]]
             \in Report
  <1>1. VersionOf(r) \in (Document \cup Run) \X Nat
    BY Documents DEF DInv, DocTyped, VersionOf, DocumentId
  <1>2. pc[r] \in Reporting /\ RunInv(r)
    BY DEF CreateReport, Reporting, RInv
  <1>3. AreaStatuses(r) \in [Area -> Status] /\ \A p \in Part : evaluated[r][p] # None
    BY <1>2, CallsNested DEF RunInv, Reports, EvaluationsBack, Reached
  <1>4. evaluated[r] \in [Part -> Seq(Severity)]
    BY <1>3 DEF RInv, RunTyped, Found
  <1> QED
    BY <1>1, <1>3, <1>4 DEF Report

LEMMA RepliesChange ==
    ASSUME NEW reply \in Replies
    PROVE  /\ \A found \in SUBSET ElementType : [reply EXCEPT !.elements = found] \in Replies
           /\ \A found \in BOOLEAN : [reply EXCEPT !.requirements = found] \in Replies
           /\ \A found \in BOOLEAN : [reply EXCEPT !.assumptions = found] \in Replies
           /\ \A chosen \in Selections : [reply EXCEPT !.selected = chosen] \in Replies
           /\ [reply EXCEPT !.failed = TRUE] \in Replies
  BY DEF Replies

LEMMA StepTyped ==
    ASSUME DInv, RInv, NEW r \in Run, Acts(r)
    PROVE  RunTyped'
  <1> USE DEF documentStore, results
  <1>1. RunTyped
    BY DEF RInv
  <1>2. CASE CreateProject(r) \/ PutOriginal(r) \/ NumberVersion(r) \/ InsertVersion(r) \/ Fail(r)
             \/ Join(r)
    BY <1>1, <1>2 DEF CreateProject, PutOriginal, NumberVersion, InsertVersion, Fail, Join, RunTyped
  <1>3. CASE AnalyzeDocumentVersion(r)
    <2>1. PICK found \in Analyses : replies' = [replies EXCEPT ![r].elements = found]
      BY <1>3 DEF AnalyzeDocumentVersion
    <2>2. found \in SUBSET ElementType
      BY Constants
    <2>3. UNCHANGED <<inFlight, projects, rows, evaluated, summary, report>>
      BY <1>3 DEF AnalyzeDocumentVersion
    <2>4. [replies[r] EXCEPT !.elements = found] \in Replies /\ replies \in [Run -> Replies]
      BY <1>1, <2>2, RepliesChange DEF RunTyped
    <2>5. replies' \in [Run -> Replies]
      BY <2>1, <2>4
    <2> QED
      BY <1>1, <2>3, <2>5 DEF RunTyped
  <1>4. CASE AnalyzeRequirements(r)
    <2>1. PICK found \in BOOLEAN : replies' = [replies EXCEPT ![r].requirements = found]
      BY <1>4 DEF AnalyzeRequirements
    <2>2. UNCHANGED <<inFlight, projects, rows, evaluated, summary, report>>
      BY <1>4 DEF AnalyzeRequirements
    <2>3. [replies[r] EXCEPT !.requirements = found] \in Replies /\ replies \in [Run -> Replies]
      BY <1>1, RepliesChange DEF RunTyped
    <2>4. replies' \in [Run -> Replies]
      BY <2>1, <2>3
    <2> QED
      BY <1>1, <2>2, <2>4 DEF RunTyped
  <1>5. CASE IdentifyAssumptionsAndRisks(r)
    <2>1. PICK found \in BOOLEAN : replies' = [replies EXCEPT ![r].assumptions = found]
      BY <1>5 DEF IdentifyAssumptionsAndRisks
    <2>2. /\ UNCHANGED <<inFlight, projects, evaluated, summary, report>>
          /\ rows' = rows \cup {<<"analysis", r>>}
      BY <1>5 DEF IdentifyAssumptionsAndRisks, Insert
    <2>3. [replies[r] EXCEPT !.assumptions = found] \in Replies /\ replies \in [Run -> Replies]
      BY <1>1, RepliesChange DEF RunTyped
    <2>4. replies' \in [Run -> Replies]
      BY <2>1, <2>3
    <2> QED
      BY <1>1, <2>2, <2>4 DEF RunTyped, Table
  <1>6. CASE CreateValidationPlan(r)
    <2>1. PICK selected \in Selections : replies' = [replies EXCEPT ![r].selected = selected]
      BY <1>6 DEF CreateValidationPlan
    <2>2. PICK waits \in SUBSET Part : inFlight' = [inFlight EXCEPT ![r] = waits]
      BY <1>6 DEF CreateValidationPlan
    <2>3. /\ UNCHANGED <<projects, evaluated, summary, report>>
          /\ rows' = rows \cup {<<"plan", r>>}
      BY <1>6 DEF CreateValidationPlan, Insert
    <2>4. [replies[r] EXCEPT !.selected = selected] \in Replies /\ replies \in [Run -> Replies]
      BY <1>1, RepliesChange DEF RunTyped
    <2>5. replies' \in [Run -> Replies]
      BY <2>1, <2>4
    <2>6. inFlight' \in [Run -> SUBSET Part]
      BY <1>1, <2>2 DEF RunTyped
    <2> QED
      BY <1>1, <2>3, <2>5, <2>6 DEF RunTyped, Table
  <1>7. ASSUME NEW p \in Part, Evaluate(r, p) \/ EvaluationFails(r, p) PROVE RunTyped'
    <2>1. /\ UNCHANGED <<projects, rows, summary, report>>
          /\ inFlight' = [inFlight EXCEPT ![r] = @ \ {p}]
          /\ replies' = replies \/ replies' = [replies EXCEPT ![r].failed = TRUE]
      BY <1>7 DEF Evaluate, EvaluationFails
    <2>2. evaluated' = evaluated
             \/ \E found \in Answers[p] : evaluated' = [evaluated EXCEPT ![r][p] = found]
      BY <1>7 DEF Evaluate, EvaluationFails
    <2>3. Answers[p] \subseteq Found
      BY Constants DEF Found
    <2>4. /\ evaluated' \in [Run -> [Part -> Found]]
          /\ \A s \in Run, q \in Part : evaluated'[s][q] \in Answers[q] \cup {None}
      <3>1. evaluated \in [Run -> [Part -> Found]]
            /\ \A s \in Run, q \in Part : evaluated[s][q] \in Answers[q] \cup {None}
        BY <1>1 DEF RunTyped
      <3>2. CASE evaluated' = evaluated
        BY <3>1, <3>2
      <3>3. ASSUME NEW found \in Answers[p], evaluated' = [evaluated EXCEPT ![r][p] = found]
            PROVE  <2>4!:
        <4>1. [evaluated[r] EXCEPT ![p] = found] \in [Part -> Found]
          BY <2>3, <3>1
        <4>2. evaluated' = [evaluated EXCEPT ![r] = [evaluated[r] EXCEPT ![p] = found]]
          BY <3>3
        <4>3. evaluated' \in [Run -> [Part -> Found]]
          BY <3>1, <4>1, <4>2
        <4>4. \A s \in Run, q \in Part :
                 evaluated'[s][q] = IF s = r /\ q = p THEN found ELSE evaluated[s][q]
          BY <3>1, <4>2
        <4> QED
          BY <3>1, <4>3, <4>4
      <3> QED
        BY <2>2, <3>2, <3>3
    <2>5. replies' \in [Run -> Replies]
      <3>1. [replies[r] EXCEPT !.failed = TRUE] \in Replies /\ replies \in [Run -> Replies]
        BY <1>1, RepliesChange DEF RunTyped
      <3> QED
        BY <2>1, <3>1
    <2> QED
      BY <1>1, <2>1, <2>4, <2>5 DEF RunTyped
  <1>8. CASE PlanResearch(r) \/ ExecuteResearch(r)
    BY <1>1, <1>8 DEF PlanResearch, ExecuteResearch, Insert, RunTyped, Table
  <1>9. CASE RecordValidationResults(r)
    <2>1. /\ UNCHANGED <<replies, inFlight, projects, rows, evaluated, report>>
          /\ summary' = [summary EXCEPT ![r] = Summarize(AreaStatuses(r))]
          /\ \A a \in Area : AreaStatus(r, a) \in Status
      BY <1>9 DEF RecordValidationResults
    <2>2. AreaStatuses(r) \in [Area -> Status]
      BY <2>1 DEF AreaStatuses
    <2>3. Summarize(AreaStatuses(r)) \in Summary
      BY <2>2 DEF Summarize, Summary, With
    <2> QED
      BY <1>1, <2>1, <2>3 DEF RunTyped
  <1>10. CASE CreateReport(r)
    <2>1. /\ UNCHANGED <<replies, inFlight, projects, rows, evaluated, summary>>
          /\ report' = [report EXCEPT ![r] = [version |-> VersionOf(r), areas |-> AreaStatuses(r),
                                              findings |-> evaluated[r]]]
      BY <1>10 DEF CreateReport
    <2>2. report' \in [Run -> Report \cup {None}]
      BY <1>1, <1>10, <2>1, ReportIsTyped DEF RunTyped
    <2> QED
      BY <1>1, <2>1, <2>2 DEF RunTyped
  <1> QED
    BY <1>2, <1>3, <1>4, <1>5, <1>6, <1>7, <1>8, <1>9, <1>10 DEF Acts

-----------------------------------------------------------------------------
(* The run that acts.  It has no report before its step.                   *)

LEMMA NoReportYet ==
    ASSUME DInv, RInv, NEW r \in Run, Acts(r)
    PROVE  /\ report[r] = None
           /\ VersionOf(r)' = <<DocumentOf(r), number'[r]>>
           /\ call' = call
           /\ ~CreateReport(r) => UNCHANGED report
  <1> USE DEF documentStore, results
  <1>1. CASE \E p \in Part : Evaluate(r, p) \/ EvaluationFails(r, p)
    BY <1>1 DEF Evaluate, EvaluationFails, RInv, RunInv, EvaluationsBack, VersionOf, DocumentOf
  <1>2. CASE ~\E p \in Part : Evaluate(r, p) \/ EvaluationFails(r, p)
    <2>1. pc[r] \in Chain
      BY <1>2 DEF Acts, CreateProject, PutOriginal, NumberVersion, InsertVersion,
         AnalyzeDocumentVersion, AnalyzeRequirements, IdentifyAssumptionsAndRisks,
         CreateValidationPlan, Join, PlanResearch, ExecuteResearch, RecordValidationResults,
         CreateReport, Fail, Running, Chain
    <2>2. report[r] = None
      BY <2>1 DEF DInv, Finished, Chain, Outcome
    <2>3. call' = call /\ (~CreateReport(r) => UNCHANGED report)
      BY <1>2 DEF Acts, CreateProject, PutOriginal, NumberVersion, InsertVersion,
         AnalyzeDocumentVersion, AnalyzeRequirements, IdentifyAssumptionsAndRisks,
         CreateValidationPlan, Join, PlanResearch, ExecuteResearch, RecordValidationResults,
         CreateReport, Fail
    <2> QED
      BY <2>2, <2>3 DEF VersionOf, DocumentOf
  <1> QED
    BY <1>1, <1>2

\* The calls up to the version, and a failure: nothing of the run changes but
\* where it is.
LEMMA StartRunInv ==
    ASSUME DInv, RInv, NEW r \in Run,
           \/ CreateProject(r) \/ PutOriginal(r) \/ NumberVersion(r) \/ InsertVersion(r)
           \/ Fail(r)
    PROVE  RunInv(r)'
  <1> USE DEF documentStore, results
  <1>1. report[r] = None /\ report'[r] = None
    <2>1. Acts(r) /\ UNCHANGED report
      BY DEF Acts, CreateProject, PutOriginal, NumberVersion, InsertVersion, Fail
    <2> QED
      BY <2>1, NoReportYet
  <1>2. /\ UNCHANGED <<rows, replies, inFlight, evaluated, summary>>
        /\ pc'[r] \notin Analyzed /\ pc'[r] # "evaluating"
        /\ inFlight[r] # {} => pc'[r] \in {"evaluating", "error"}
        /\ evaluated[r]["completeness"] # None =>
               replies[r].requirements /\ pc'[r] \in Planned \cup {"error"}
    <2>1. pc \in [Run -> Chain \cup Outcome]
      BY DEF DInv, DocTyped
    <2>2. EvaluationsBack(r)
      BY DEF RInv, RunInv
    <2>3. CASE CreateProject(r) \/ PutOriginal(r) \/ NumberVersion(r) \/ InsertVersion(r)
      <3>1. /\ UNCHANGED <<rows, replies, inFlight, evaluated, summary>>
            /\ pc[r] \in {"project", "original", "number", "insert"}
            /\ pc'[r] \in {"original", "number", "insert", "elements", "error"}
        BY <2>1, <2>3 DEF CreateProject, PutOriginal, NumberVersion, InsertVersion, Answered
      <3> QED
        BY <2>2, <3>1 DEF EvaluationsBack, Reporting, Recording, Researching, Joined, Planned,
           Identified, Required, Analyzed
    <2>4. CASE Fail(r)
      <3>1. UNCHANGED <<rows, replies, inFlight, evaluated, summary>> /\ pc'[r] = "error"
        BY <2>1, <2>4 DEF Fail
      <3> QED
        BY <2>2, <3>1, CallsNested DEF EvaluationsBack
    <2> QED
      BY <2>3, <2>4
  <1>3. ReadOut(r)' /\ OwnStored(r)' /\ Reports(r)'
    BY <1>1, <1>2, CallsNested DEF ReadOut, OwnStored, Reports, Reached
  <1>4. EvaluationsBack(r)'
    BY <1>1, <1>2, CallsNested DEF EvaluationsBack, Reached
  <1> QED
    BY <1>3, <1>4 DEF RunInv

LEMMA AnalyzeRunInv ==
    ASSUME DInv, RInv, NEW r \in Run, AnalyzeDocumentVersion(r) \/ AnalyzeRequirements(r)
    PROVE  RunInv(r)'
  <1> USE DEF documentStore, results
  <1>1. report[r] = None /\ report'[r] = None /\ VersionOf(r)' = VersionOf(r)
    <2>1. Acts(r) /\ ~CreateReport(r) /\ UNCHANGED number
      BY DEF Acts, AnalyzeDocumentVersion, AnalyzeRequirements, CreateReport
    <2> QED
      BY <2>1, NoReportYet DEF VersionOf
  <1>2. /\ pc \in [Run -> Chain \cup Outcome] /\ replies \in [Run -> Replies]
        /\ RunInv(r) /\ pc[r] \notin Planned \cup {"evaluating", "error"}
    BY DEF RInv, RunTyped, DInv, DocTyped, AnalyzeDocumentVersion, AnalyzeRequirements,
       Reporting, Recording, Researching, Joined, Planned
  <1>3. /\ UNCHANGED <<rows, inFlight, evaluated, summary>>
        /\ pc'[r] \in {"requirements", "identify", "error"}
        /\ inFlight[r] = {} /\ evaluated[r]["completeness"] = None
    BY <1>2 DEF AnalyzeDocumentVersion, AnalyzeRequirements, Answered, RunInv, EvaluationsBack
  <1>4. pc'[r] \notin Identified /\ pc'[r] # "evaluating"
    BY <1>3 DEF Reporting, Recording, Researching, Joined, Planned, Identified
  <1>5. ReadOut(r)'
    <2>1. CASE AnalyzeDocumentVersion(r)
      <3>1. PICK found \in Analyses : /\ elements' = Replace(elements, r, found)
                                      /\ replies' = [replies EXCEPT ![r].elements = found]
        BY <2>1 DEF AnalyzeDocumentVersion
      <3>2. replies'[r].elements = found
        BY <1>2, <3>1 DEF Replies
      <3>3. Items(elements', r) = found
        BY <3>1, ReplacedItems
      <3>4. Items(elements, r)' = replies'[r].elements
        BY <1>1, <3>2, <3>3 DEF Items
      <3>5. pc'[r] \notin Required
        <4>1. pc'[r] \in {"requirements", "error"}
          BY <1>2, <2>1 DEF AnalyzeDocumentVersion, Answered
        <4> QED
          BY <4>1 DEF Reporting, Recording, Researching, Joined, Planned, Identified, Required
      <3> QED
        BY <1>1, <3>4, <3>5 DEF ReadOut, Reached
    <2>2. CASE AnalyzeRequirements(r)
      <3>1. PICK found \in SUBSET {"requirement"} :
                /\ requirements' = Replace(requirements, r, found)
                /\ replies' = [replies EXCEPT ![r].requirements = found # {}]
        BY <2>2 DEF AnalyzeRequirements
      <3>2. replies'[r].requirements = (found # {}) /\ replies'[r].elements = replies[r].elements
        BY <1>2, <3>1 DEF Replies
      <3>3. Items(requirements', r) = found
        BY <3>1, ReplacedItems
      <3>4. Items(requirements, r)' = found
        BY <1>1, <3>3 DEF Items
      <3>5. elements' = elements /\ pc[r] \in Analyzed
        BY <2>2 DEF AnalyzeRequirements, Analyzed
      <3>6. Items(elements, r)' = replies'[r].elements
        BY <1>1, <1>2, <3>2, <3>5 DEF Items, RunInv, ReadOut, Reached
      <3> QED
        BY <3>2, <3>4, <3>6 DEF ReadOut
    <2> QED
      BY <2>1, <2>2
  <1>6. OwnStored(r)' /\ Reports(r)'
    BY <1>1, <1>4, CallsNested DEF OwnStored, Reports, Reached
  <1>7. EvaluationsBack(r)'
    BY <1>1, <1>3, <1>4, CallsNested DEF EvaluationsBack, Reached
  <1> QED
    BY <1>5, <1>6, <1>7 DEF RunInv

LEMMA PlanRunInv ==
    ASSUME DInv, RInv, NEW r \in Run, IdentifyAssumptionsAndRisks(r) \/ CreateValidationPlan(r)
    PROVE  RunInv(r)'
  <1> USE DEF documentStore, results
  <1>1. report[r] = None /\ report'[r] = None /\ VersionOf(r)' = VersionOf(r)
    <2>1. Acts(r) /\ UNCHANGED <<number, report>>
      BY DEF Acts, IdentifyAssumptionsAndRisks, CreateValidationPlan
    <2> QED
      BY <2>1, NoReportYet DEF VersionOf
  <1>2. /\ pc \in [Run -> Chain \cup Outcome] /\ replies \in [Run -> Replies]
        /\ inFlight \in [Run -> SUBSET Part] /\ RunInv(r)
        /\ pc[r] \notin Planned \cup {"evaluating", "error"} /\ pc[r] \in Required
    BY DEF RInv, RunTyped, DInv, DocTyped, IdentifyAssumptionsAndRisks, CreateValidationPlan,
       Reporting, Recording, Researching, Joined, Planned, Identified, Required
  <1>3. /\ replies'[r].elements = replies[r].elements
        /\ replies'[r].requirements = replies[r].requirements
        /\ UNCHANGED <<elements, requirements, evaluated, summary>>
        /\ pc'[r] \in {"plan", "evaluating", "error"} /\ rows \subseteq rows'
        /\ inFlight[r] = {} /\ evaluated[r]["completeness"] = None
    BY <1>2 DEF IdentifyAssumptionsAndRisks, CreateValidationPlan, Answered, Insert, RunInv,
       EvaluationsBack, Replies
  <1>4. pc'[r] \notin Joined
    BY <1>3 DEF Reporting, Recording, Researching, Joined
  <1>5. ReadOut(r)'
    BY <1>1, <1>2, <1>3, CallsNested DEF ReadOut, Reached, RunInv, Items
  <1>6. OwnStored(r)'
    <2>1. CASE IdentifyAssumptionsAndRisks(r)
      <3>1. pc'[r] \in {"plan", "error"} /\ <<"analysis", r>> \in rows'
        BY <1>2, <2>1 DEF IdentifyAssumptionsAndRisks, Answered, Insert
      <3>2. pc'[r] \notin Planned
        BY <3>1 DEF Reporting, Recording, Researching, Joined, Planned
      <3> QED
        BY <1>1, <3>1, <3>2, CallsNested DEF OwnStored, Reached
    <2>2. CASE CreateValidationPlan(r)
      <3>1. /\ <<"plan", r>> \in rows' /\ "purpose" \in replies[r].elements
            /\ pc[r] \in Identified
        BY <2>2 DEF CreateValidationPlan, Insert, Identified
      <3>2. <<"analysis", r>> \in rows'
        BY <1>2, <1>3, <3>1 DEF RunInv, OwnStored, Reached
      <3> QED
        BY <1>1, <1>3, <1>4, <3>1, <3>2, CallsNested DEF OwnStored, Reached
    <2> QED
      BY <2>1, <2>2
  <1>7. EvaluationsBack(r)'
    <2>1. /\ inFlight'[r] # {} => pc'[r] = "evaluating"
          /\ pc'[r] = "evaluating" => inFlight'[r] = Part
      <3>1. CASE IdentifyAssumptionsAndRisks(r)
        BY <1>2, <1>3, <3>1 DEF IdentifyAssumptionsAndRisks, Answered
      <3>2. CASE CreateValidationPlan(r)
        BY <1>2, <3>2 DEF CreateValidationPlan
      <3> QED
        BY <3>1, <3>2
    <2> QED
      BY <1>1, <1>3, <1>4, <2>1 DEF EvaluationsBack, Reached
  <1>8. Reports(r)'
    BY <1>1, <1>4, CallsNested DEF Reports, Reached
  <1> QED
    BY <1>5, <1>6, <1>7, <1>8 DEF RunInv

\* A step after which the run's version, its rows and its replies are the same.
LEMMA ReadOutKept ==
    ASSUME NEW r \in Run, ReadOut(r), pc[r] \in Required,
           UNCHANGED <<elements, requirements, call, number, replies>>
    PROVE  ReadOut(r)'
  BY CallsNested DEF ReadOut, Reached, Items, VersionOf, DocumentOf

LEMMA EvaluateRunInv ==
    ASSUME DInv, RInv, NEW r \in Run, NEW p \in Part, Evaluate(r, p) \/ EvaluationFails(r, p)
    PROVE  RunInv(r)'
  <1> USE DEF documentStore, results
  <1>1. report[r] = None /\ report'[r] = None /\ VersionOf(r)' = VersionOf(r)
    <2>1. Acts(r) /\ UNCHANGED <<number, report>>
      BY DEF Acts, Evaluate, EvaluationFails
    <2> QED
      BY <2>1, NoReportYet DEF VersionOf
  <1>2. /\ replies \in [Run -> Replies] /\ evaluated \in [Run -> [Part -> Found]]
        /\ inFlight \in [Run -> SUBSET Part] /\ RunInv(r)
        /\ pc[r] \in {"evaluating", "error"} /\ pc' = pc
    BY DEF RInv, RunTyped, RunInv, EvaluationsBack, Evaluate, EvaluationFails
  <1>3. /\ UNCHANGED <<elements, requirements, rows, summary>>
        /\ inFlight'[r] = inFlight[r] \ {p}
    BY <1>2 DEF Evaluate, EvaluationFails
  <1>4. /\ replies'[r].elements = replies[r].elements
        /\ replies'[r].requirements = replies[r].requirements
        /\ replies'[r].assumptions = replies[r].assumptions
        /\ replies[r].failed => replies'[r].failed
    <2>1. replies' = replies \/ replies' = [replies EXCEPT ![r].failed = TRUE]
      BY DEF Evaluate, EvaluationFails
    <2> QED
      BY <1>2, <2>1 DEF Replies
  <1>5. ReadOut(r)' /\ OwnStored(r)'
    BY <1>1, <1>2, <1>3, <1>4 DEF ReadOut, OwnStored, Reached, RunInv, Items
  <1>6. pc'[r] \notin Joined
    BY <1>2 DEF Reporting, Recording, Researching, Joined
  <1>7. Reports(r)'
    BY <1>1, <1>6, CallsNested DEF Reports, Reached
  <1>8. EvaluationsBack(r)'
    <2>1. CASE Evaluate(r, p)
      <3>1. PICK found \in Answers[p] : evaluated' = [evaluated EXCEPT ![r][p] = found]
        BY <2>1 DEF Evaluate
      <3>2. found # None
        BY Constants
      <3>3. \A q \in Part : evaluated'[r][q] = IF q = p THEN found ELSE evaluated[r][q]
        BY <1>2, <3>1
      <3>4. p = "completeness" => replies[r].requirements
        BY <2>1 DEF Evaluate, Evaluable
      <3>5. evaluated'[r]["completeness"] # None => replies'[r].requirements
        BY <1>2, <1>4, <3>3, <3>4 DEF RunInv, EvaluationsBack, Part
      <3>6. pc'[r] = "evaluating" =>
               \A q \in Part \ inFlight'[r] : evaluated'[r][q] # None \/ replies'[r].failed
        BY <1>2, <1>3, <1>4, <3>2, <3>3 DEF RunInv, EvaluationsBack
      <3> QED
        BY <1>1, <1>2, <1>6, <3>5, <3>6 DEF EvaluationsBack, Reached, Planned
    <2>2. CASE EvaluationFails(r, p)
      <3>1. evaluated' = evaluated /\ replies' = [replies EXCEPT ![r].failed = TRUE]
        BY <2>2 DEF EvaluationFails
      <3>2. replies'[r].failed
        BY <1>2, <3>1 DEF Replies
      <3> QED
        BY <1>1, <1>2, <1>4, <1>6, <3>1, <3>2 DEF RunInv, EvaluationsBack, Reached, Planned
    <2> QED
      BY <2>1, <2>2
  <1> QED
    BY <1>5, <1>7, <1>8 DEF RunInv

\* The four evaluations are back, and none has failed.
LEMMA JoinRunInv ==
    ASSUME DInv, RInv, NEW r \in Run, Join(r)
    PROVE  RunInv(r)'
  <1> USE DEF documentStore, results
  <1>1. /\ report[r] = None /\ report'[r] = None
        /\ UNCHANGED <<elements, requirements, call, number, replies, rows, inFlight, evaluated,
                       summary>>
    <2>1. Acts(r) /\ UNCHANGED <<elements, requirements, call, number, replies, rows, inFlight,
                                 evaluated, summary, report>>
      BY DEF Acts, Join
    <2> QED
      BY <2>1, NoReportYet
  <1>2. /\ RunInv(r) /\ pc[r] = "evaluating" /\ inFlight[r] = {}
        /\ pc'[r] = IF replies[r].failed THEN "error" ELSE "plan_research"
    BY DEF RInv, DInv, DocTyped, Join
  <1>3. pc[r] \in Planned /\ pc'[r] \notin Researching
    BY <1>2 DEF Planned, Reporting, Recording, Researching
  <1>4. ReadOut(r)'
    BY <1>1, <1>2, <1>3, ReadOutKept, CallsNested DEF RunInv
  <1>5. OwnStored(r)'
    BY <1>1, <1>2, <1>3, CallsNested DEF OwnStored, Reached, RunInv
  <1>6. EvaluationsBack(r)'
    <2>1. pc'[r] \in Planned \cup {"error"} /\ pc'[r] # "evaluating"
      BY <1>2 DEF Planned, Joined
    <2>2. pc'[r] \in Joined => \A p \in Part : evaluated[r][p] # None
      BY <1>2, CallsNested DEF RunInv, EvaluationsBack
    <2> QED
      BY <1>1, <1>2, <2>1, <2>2 DEF RunInv, EvaluationsBack, Reached
  <1>7. Reports(r)'
    BY <1>1, <1>3, CallsNested DEF Reports, Reached
  <1> QED
    BY <1>4, <1>5, <1>6, <1>7 DEF RunInv

LEMMA ResearchRunInv ==
    ASSUME DInv, RInv, NEW r \in Run, PlanResearch(r) \/ ExecuteResearch(r)
    PROVE  RunInv(r)'
  <1> USE DEF documentStore, results
  <1>1. /\ report[r] = None /\ report'[r] = None /\ rows \subseteq rows'
        /\ UNCHANGED <<elements, requirements, call, number, replies, inFlight, evaluated, summary>>
    <2>1. /\ Acts(r) /\ rows \subseteq rows'
          /\ UNCHANGED <<elements, requirements, call, number, replies, inFlight, evaluated,
                         summary, report>>
      BY DEF Acts, PlanResearch, ExecuteResearch, Insert
    <2> QED
      BY <2>1, NoReportYet
  <1>2. RunInv(r) /\ pc \in [Run -> Chain \cup Outcome]
    BY DEF RInv, DInv, DocTyped
  <1>3. /\ pc[r] \in Joined /\ pc[r] \notin {"evaluating", "error"}
        /\ pc'[r] \in {"research", "record", "error"}
    BY <1>2 DEF PlanResearch, ExecuteResearch, Answered, Joined, Researching
  <1>4. pc'[r] \notin Reporting /\ pc'[r] \in Planned \cup {"error"} /\ pc'[r] # "evaluating"
    BY <1>3 DEF Planned, Joined, Researching, Recording, Reporting
  <1>5. ReadOut(r)'
    BY <1>1, <1>2, <1>3, ReadOutKept, CallsNested DEF RunInv
  <1>6. OwnStored(r)'
    <2>1. <<"analysis", r>> \in rows' /\ <<"plan", r>> \in rows' /\ "purpose" \in replies'[r].elements
      BY <1>1, <1>2, <1>3, CallsNested DEF RunInv, OwnStored, Reached
    <2>2. CASE PlanResearch(r)
      <3>1. <<"research_plan", r>> \in rows' /\ replies'[r].assumptions
        BY <1>1, <2>2 DEF PlanResearch, Insert
      <3>2. pc'[r] \notin Recording
        <4>1. pc'[r] \in {"research", "error"}
          BY <1>2, <2>2 DEF PlanResearch, Answered
        <4> QED
          BY <4>1 DEF Recording, Reporting
      <3> QED
        BY <1>1, <2>1, <3>1, <3>2 DEF OwnStored, Reached
    <2>3. CASE ExecuteResearch(r)
      <3>1. <<"research_report", r>> \in rows' /\ pc[r] \in Researching
        BY <2>3 DEF ExecuteResearch, Insert, Researching
      <3>2. <<"research_plan", r>> \in rows' /\ replies'[r].assumptions
        BY <1>1, <1>2, <3>1 DEF RunInv, OwnStored, Reached
      <3> QED
        BY <2>1, <3>1, <3>2 DEF OwnStored
    <2> QED
      BY <2>2, <2>3
  <1>7. EvaluationsBack(r)'
    BY <1>1, <1>2, <1>3, <1>4 DEF RunInv, EvaluationsBack, Reached
  <1>8. Reports(r)'
    BY <1>1, <1>4 DEF Reports, Reached
  <1> QED
    BY <1>5, <1>6, <1>7, <1>8 DEF RunInv

\* The summary has the statuses the report will have.
LEMMA RecordRunInv ==
    ASSUME DInv, RInv, NEW r \in Run, RecordValidationResults(r)
    PROVE  RunInv(r)'
  <1> USE DEF documentStore, results
  <1>1. /\ report[r] = None /\ report'[r] = None
        /\ UNCHANGED <<elements, requirements, call, number, replies, rows, inFlight, evaluated>>
    <2>1. Acts(r) /\ UNCHANGED <<elements, requirements, call, number, replies, rows, inFlight,
                                 evaluated, report>>
      BY DEF Acts, RecordValidationResults
    <2> QED
      BY <2>1, NoReportYet
  <1>2. /\ RunInv(r) /\ pc[r] = "record" /\ pc'[r] \in {"report", "error"}
        /\ summary \in [Run -> Summary \cup {None}]
        /\ summary' = [summary EXCEPT ![r] = Summarize(AreaStatuses(r))]
        /\ \A a \in Area : AreaStatus(r, a) \in Status
    BY DEF RInv, RunTyped, DInv, DocTyped, RecordValidationResults, Answered
  <1>3. pc[r] \in Recording /\ pc'[r] \in Planned \cup {"error"} /\ pc'[r] # "evaluating"
    BY <1>2 DEF Planned, Joined, Researching, Recording, Reporting
  <1>4. ReadOut(r)'
    BY <1>1, <1>2, <1>3, ReadOutKept, CallsNested DEF RunInv
  <1>5. OwnStored(r)'
    BY <1>1, <1>2, <1>3, CallsNested DEF RunInv, OwnStored, Reached
  <1>6. EvaluationsBack(r)'
    BY <1>1, <1>2, <1>3, CallsNested DEF RunInv, EvaluationsBack, Reached
  <1>7. Reports(r)'
    <2>1. AreaStatuses(r) \in [Area -> Status]
      BY <1>2 DEF AreaStatuses
    <2>2. AreaStatuses(r)' = AreaStatuses(r)
      BY <1>1 DEF AreaStatuses, AreaStatus
    <2>3. Summarize(AreaStatuses(r)) \in Summary
      BY <2>1 DEF Summarize, Summary, With
    <2>4. Summarize(AreaStatuses(r)).results = AreaStatuses(r)
      BY DEF Summarize
    <2> QED
      BY <1>1, <1>2, <2>1, <2>2, <2>3, <2>4 DEF Reports
  <1> QED
    BY <1>4, <1>5, <1>6, <1>7 DEF RunInv

LEMMA ReportRunInv ==
    ASSUME DInv, RInv, NEW r \in Run, CreateReport(r)
    PROVE  RunInv(r)'
  <1> USE DEF documentStore, results
  <1>1. /\ UNCHANGED <<elements, requirements, call, number, replies, rows, inFlight, evaluated,
                       summary>>
        /\ report'[r] = [version |-> VersionOf(r), areas |-> AreaStatuses(r),
                         findings |-> evaluated[r]]
    BY DEF RInv, RunTyped, CreateReport
  <1>2. RunInv(r) /\ pc[r] = "report" /\ pc'[r] \in {"done", "error"}
    BY DEF RInv, DInv, DocTyped, CreateReport, Answered
  <1>3. pc[r] \in Reporting /\ pc'[r] \in Planned \cup {"error"} /\ pc'[r] # "evaluating"
    BY <1>2 DEF Planned, Joined, Researching, Recording, Reporting
  <1>4. AreaStatuses(r)' = AreaStatuses(r) /\ VersionOf(r)' = VersionOf(r)
    BY <1>1 DEF AreaStatuses, AreaStatus, VersionOf, DocumentOf
  <1>5. ReadOut(r)'
    BY <1>1, <1>2, <1>3, ReadOutKept, CallsNested DEF RunInv
  <1>6. OwnStored(r)'
    BY <1>1, <1>2, <1>3, CallsNested DEF RunInv, OwnStored, Reached
  <1>7. EvaluationsBack(r)'
    BY <1>1, <1>2, <1>3, CallsNested DEF RunInv, EvaluationsBack, Reached
  <1>8. Reports(r)'
    BY <1>1, <1>2, <1>3, <1>4 DEF RunInv, Reports, Reached
  <1> QED
    BY <1>5, <1>6, <1>7, <1>8 DEF RunInv

LEMMA NextRInv == DInv /\ RInv /\ [Next]_vars => RInv'
  <1> SUFFICES ASSUME DInv, RInv, [Next]_vars PROVE RInv'
    OBVIOUS
  <1>1. CASE UNCHANGED vars
    <2>1. UNCHANGED <<call, pc, number, replies, inFlight, projects, elements, requirements, rows,
                      evaluated, summary, report>>
      BY <1>1 DEF vars, documentStore, results
    <2>2. RunTyped'
      BY <2>1 DEF RInv, RunTyped
    <2>3. \A r \in Run : Kept(r)
      BY <2>1 DEF Kept, Items, VersionOf, DocumentOf
    <2> QED
      BY <2>2, <2>3, KeptRunInv DEF RInv
  <1>2. ASSUME NEW r \in Run, Acts(r) PROVE RInv'
    <2>1. RunTyped'
      BY <1>2, StepTyped
    <2>2. \A s \in Run \ {r} : RunInv(s)'
      BY <1>2, OthersKept, KeptRunInv DEF RInv
    <2>3. RunInv(r)'
      BY <1>2, StartRunInv, AnalyzeRunInv, PlanRunInv, EvaluateRunInv, JoinRunInv,
         ResearchRunInv, RecordRunInv, ReportRunInv DEF Acts
    <2> QED
      BY <2>1, <2>2, <2>3 DEF RInv
  <1> QED
    BY <1>1, <1>2 DEF Next, Acts

LEMMA RunsKept == Spec => [](DInv /\ RInv)
  BY InitDInv, NextDInv, InitRInv, NextRInv, PTL DEF Spec

-----------------------------------------------------------------------------
(* The theorems.                                                           *)

\* For any runs, documents, answers and failures every row, reply, summary and
\* report is well typed: a report has a status for every area, all findings of
\* all four evaluations, and a version (evaluate, Summarize, CreateReport).
THEOREM EvaluationsTyped == Spec => []TypeOK
  <1>1. DInv /\ RInv => TypeOK
    <2> SUFFICES ASSUME DInv, RInv PROVE TypeOK
      OBVIOUS
    <2>1. RunTyped /\ DocTyped
      BY DEF RInv, DInv
    <2>2. DOMAIN versions = DocumentId /\ \A d \in DocumentId : versions[d] \in Seq(Version)
      BY <2>1 DEF DocTyped
    <2> QED
      BY <2>1, <2>2 DEF TypeOK, RunTyped, DocTyped, Version, Replies
  <1> QED
    BY <1>1, RunsKept, PTL

\* Whatever runs overlap, fail or break off after a call has stored its rows,
\* a report is about a version with the run's own file, what was read out of
\* that version, all its evaluations, a research and the same results as its
\* summary (evaluate of the gateway).
THEOREM ReportsAreComplete == Spec => []ReportsComplete
  <1>1. DInv /\ RInv => ReportsComplete
    <2> SUFFICES ASSUME DInv, RInv, NEW r \in Run, report[r] # None
                 PROVE  LET version == report[r].version
                            Of(table) == {row.item : row \in {t \in table : t.version = version}} IN
                        /\ versions[version[1]][version[2]]
                              = [original |-> call[r].original, by |-> r]
                        /\ "purpose" \in Of(elements) /\ Of(requirements) # {}
                        /\ Table \X {r} \subseteq rows /\ replies[r].assumptions
                        /\ \A p \in Part : report[r].findings[p] # None
                        /\ summary[r] # None /\ summary[r].results = report[r].areas
      BY DEF ReportsComplete
    <2>1. RunInv(r) /\ \A calls : Reached(r, calls)
      BY DEF RInv, Reached
    <2>2. report[r] = [version |-> VersionOf(r), areas |-> AreaStatuses(r),
                       findings |-> evaluated[r]]
      BY <2>1 DEF RunInv, Reports
    <2>3. report[r].version = VersionOf(r) /\ report[r].areas = AreaStatuses(r)
          /\ report[r].findings = evaluated[r]
      BY <2>2
    <2>4. versions[VersionOf(r)[1]][VersionOf(r)[2]] = [original |-> call[r].original, by |-> r]
      BY DEF DInv, VersionsOwn, Stored, HasVersion, VersionOf
    <2>5. \A p \in Part : evaluated[r][p] # None
      BY <2>1 DEF RunInv, EvaluationsBack
    <2>6. "purpose" \in Items(elements, r) /\ Items(requirements, r) # {}
      <3>1. replies[r].requirements
        BY <2>1, <2>5 DEF RunInv, EvaluationsBack, Part
      <3> QED
        BY <2>1, <3>1 DEF RunInv, ReadOut, OwnStored
    <2>7. Table \X {r} \subseteq rows /\ replies[r].assumptions
      BY <2>1 DEF RunInv, OwnStored, Table
    <2>8. summary[r] # None /\ summary[r].results = AreaStatuses(r)
      BY <2>1, Constants DEF RunInv, Reports
    <2> QED
      BY <2>3, <2>4, <2>5, <2>6, <2>7, <2>8 DEF Items
  <1> QED
    BY <1>1, RunsKept, PTL

\* No later run, late answer or failure changes what a report rests on: its
\* evaluations, its summary and what was read out of its version.
THEOREM FoundationsAreFixed == Spec => FoundationsFixed
  <1> DEFINE Fixed ==
        \A r \in Run : report[r] # None =>
          /\ evaluated'[r] = evaluated[r] /\ summary'[r] = summary[r]
          /\ \A row \in (elements \cup requirements \cup elements' \cup requirements') :
                row.version = report[r].version =>
                    /\ row \in elements <=> row \in elements'
                    /\ row \in requirements <=> row \in requirements'
  <1>1. ASSUME DInv, RInv, [Next]_vars PROVE Fixed
    <2>1. CASE UNCHANGED vars
      BY <2>1 DEF vars, documentStore, results
    <2>2. ASSUME NEW q \in Run, Acts(q), NEW r \in Run, report[r] # None
          PROVE  /\ evaluated'[r] = evaluated[r] /\ summary'[r] = summary[r]
                 /\ \A row : row.version = report[r].version =>
                      /\ row \in elements <=> row \in elements'
                      /\ row \in requirements <=> row \in requirements'
      <3>1. r # q
        BY <1>1, <2>2, NoReportYet
      <3>2. evaluated'[r] = evaluated[r] /\ summary'[r] = summary[r]
        BY <1>1, <2>2, <3>1, OthersKept DEF Kept
      <3>3. CASE AnalyzeDocumentVersion(q) \/ AnalyzeRequirements(q)
        <4>1. Stored(q) /\ Stored(r)
          BY <2>2, <3>3 DEF Stored, Past, AnalyzeDocumentVersion, AnalyzeRequirements
        <4>2. VersionOf(r) # VersionOf(q)
          BY <1>1, <3>1, <4>1, VersionsDiffer
        <4>3. report[r].version = VersionOf(r)
          <5>1. Reports(r)
            BY <1>1 DEF RInv, RunInv
          <5> QED
            BY <2>2, <5>1 DEF Reports
        <4> QED
          BY <3>2, <3>3, <4>2, <4>3, AnalysesReplace
      <3>4. CASE ~(AnalyzeDocumentVersion(q) \/ AnalyzeRequirements(q))
        <4>1. UNCHANGED <<elements, requirements>>
          BY <2>2, <3>4 DEF Acts, CreateProject, PutOriginal, NumberVersion, InsertVersion,
             IdentifyAssumptionsAndRisks, CreateValidationPlan, Evaluate, EvaluationFails, Join,
             PlanResearch, ExecuteResearch, RecordValidationResults, CreateReport, Fail,
             documentStore, results
        <4> QED
          BY <3>2, <4>1
      <3> QED
        BY <3>3, <3>4
    <2> QED
      BY <1>1, <2>1, <2>2 DEF Next, Acts
  <1>2. DInv /\ RInv /\ [Next]_vars => [Fixed]_vars
    BY <1>1
  <1> QED
    BY <1>2, RunsKept, PTL DEF Spec, FoundationsFixed

\* A run of the chain of calls is a run of the abstract handler: it stores one
\* report at most, answers with it once it is stored, and takes nothing back.
THEOREM RunsImplementHandler == Spec => ImplementsHandler
  <1> DEFINE stored == {r \in Run : report[r] # None}
             answer == [r \in Run |-> IF pc[r] = "done" THEN "report"
                                      ELSE IF pc[r] = "error" THEN "error" ELSE "none"]
  <1>1. Init => Handler!Init
    <2> SUFFICES ASSUME Init PROVE Handler!Init
      OBVIOUS
    <2>1. \A r \in Run : report[r] = None /\ pc[r] \in {"project", "original"}
      BY DEF Init
    <2> QED
      BY <2>1 DEF Handler!Init
  <1>2. DInv /\ RInv /\ [Next]_vars => [Handler!Next]_<<stored, answer>>
    <2> SUFFICES ASSUME DInv, RInv, [Next]_vars PROVE [Handler!Next]_<<stored, answer>>
      OBVIOUS
    <2>1. CASE UNCHANGED vars
      BY <2>1 DEF vars, results
    <2>2. ASSUME NEW r \in Run, Acts(r) PROVE [Handler!Next]_<<stored, answer>>
      <3>1. /\ report[r] = None /\ pc \in [Run -> Chain \cup Outcome]
            /\ report \in [Run -> Report \cup {None}] /\ (~CreateReport(r) => UNCHANGED report)
        BY <2>2, NoReportYet DEF DInv, DocTyped, RInv, RunTyped
      <3>2. CASE CreateReport(r)
        <4>1. PICK l \in {"done", "error"} : pc' = [pc EXCEPT ![r] = l]
          BY <3>2 DEF CreateReport, Answered
        <4>2. pc[r] = "report"
          BY <3>2 DEF CreateReport
        <4>3. report'[r] # None
          <5>1. report'[r] = [version |-> VersionOf(r), areas |-> AreaStatuses(r),
                              findings |-> evaluated[r]]
            BY <3>1, <3>2 DEF CreateReport
          <5>2. report'[r] \in Report
            BY <3>2, <5>1, ReportIsTyped
          <5> QED
            BY <5>2, Constants
        <4>4. \A s \in Run \ {r} : report'[s] = report[s]
          BY <3>1, <3>2 DEF CreateReport
        <4>5. stored' = stored \cup {r} /\ r \notin stored
          BY <3>1, <4>3, <4>4
        <4>6. answer' = [answer EXCEPT ![r] = IF l = "done" THEN "report" ELSE "error"]
          BY <3>1, <4>1
        <4>7. answer[r] = "none"
          BY <4>2
        <4> HIDE DEF stored, answer
        <4>8. \E reply \in {"report", "error"} : Handler!Store(r, reply)
          BY <4>5, <4>6, <4>7 DEF Handler!Store, stored, answer
        <4> QED
          BY <4>8 DEF Handler!Next
      <3>3. CASE ~CreateReport(r)
        <4>1. stored' = stored
          BY <3>1, <3>3
        <4>2. CASE pc' = pc
          BY <4>1, <4>2
        <4>3. CASE pc' # pc
          <5>1. PICK l \in (Chain \cup {"error"}) : pc' = [pc EXCEPT ![r] = l] /\ pc[r] \in Chain
            BY <2>2, <3>3, <4>3 DEF Acts, CreateProject, PutOriginal, NumberVersion, InsertVersion,
               AnalyzeDocumentVersion, AnalyzeRequirements, IdentifyAssumptionsAndRisks,
               CreateValidationPlan, Evaluate, EvaluationFails, Join, PlanResearch,
               ExecuteResearch, RecordValidationResults, Fail, Running, Answered, Chain
          <5>2. answer[r] = "none"
            BY <5>1 DEF Chain
          <5>3. CASE l = "error"
            <6>1. answer' = [answer EXCEPT ![r] = "error"]
              BY <3>1, <5>1, <5>3
            <6>2. Handler!GiveUp(r)
              BY <4>1, <5>2, <6>1 DEF Handler!GiveUp
            <6> QED
              BY <6>2 DEF Handler!Next
          <5>4. CASE l \in Chain
            <6>1. answer' = answer
              BY <3>1, <5>1, <5>4 DEF Chain
            <6> QED
              BY <4>1, <6>1
          <5> QED
            BY <5>3, <5>4
        <4> QED
          BY <4>2, <4>3
      <3> QED
        BY <3>2, <3>3
    <2> QED
      BY <2>1, <2>2 DEF Next, Acts
  <1> QED
    BY <1>1, <1>2, RunsKept, PTL DEF Spec, ImplementsHandler, Handler!Spec

-----------------------------------------------------------------------------
(* What the evaluations found, in whatever order.                          *)

\* What holds of 0 and of the successor of a number it holds of, holds of all.
LEMMA Induction ==
    ASSUME NEW S, 0 \in S, \A n \in Nat : n \in S => n + 1 \in S
    PROVE  Nat \subseteq S
  <1> DEFINE R == OpToRel(<, Nat)
  <1>1. IsWellFoundedOn(R, Nat)
    BY NatLessThanWellFounded
  <1>2. \A m, n \in Nat : m < n => <<m, n>> \in R
    BY DEF OpToRel
  <1> HIDE DEF R
  <1>3. SUFFICES ASSUME Nat \ S # {} PROVE FALSE
    OBVIOUS
  <1>4. PICK x \in Nat \ S : \A y \in Nat \ S : <<y, x>> \notin R
    BY <1>1, <1>3, WFMin
  <1>5. x # 0 /\ x - 1 \in Nat
    BY <1>4
  <1>6. x - 1 \in S => (x - 1) + 1 \in S
    BY <1>5
  <1>7. x - 1 \in Nat \ S
    BY <1>4, <1>5, <1>6
  <1>8. <<x - 1, x>> \in R
    BY <1>2, <1>4, <1>5
  <1> QED
    BY <1>4, <1>7, <1>8

\* The greatest of some places.
LEMMA Greatest ==
    ASSUME NEW n \in Nat, NEW s \in SUBSET (1..n), s # {}
    PROVE  Max(s) \in s /\ \A i \in s : i <= Max(s)
  <1> DEFINE M == {k \in Nat : \A t \in SUBSET (1..k) : t # {} =>
                                  \E m \in t : \A i \in t : m >= i}
  <1>1. 0 \in M
    <2>1. 1..0 = {}
      OBVIOUS
    <2> QED
      BY <2>1
  <1>2. ASSUME NEW k \in Nat, k \in M PROVE k + 1 \in M
    <2> SUFFICES ASSUME NEW t \in SUBSET (1..(k + 1)), t # {}
                 PROVE  \E m \in t : \A i \in t : m >= i
      OBVIOUS
    <2>1. CASE k + 1 \in t
      <3>1. \A i \in t : k + 1 >= i
        OBVIOUS
      <3> QED
        BY <2>1, <3>1
    <2>2. CASE k + 1 \notin t
      <3>1. t \in SUBSET (1..k)
        BY <2>2
      <3> QED
        BY <1>2, <3>1
    <2> QED
      BY <2>1, <2>2
  <1>3. n \in M
    <2> HIDE DEF M
    <2> QED
      BY <1>1, <1>2, Induction
  <1>4. \E m \in s : \A i \in s : m >= i
    BY <1>3
  <1>5. Max(s) \in s /\ \A i \in s : Max(s) >= i
    BY <1>4 DEF Max
  <1> QED
    BY <1>5

\* The status of an evaluation, whatever the order of what it found.
LEMMA StatusOfFound ==
    ASSUME NEW found \in Seq(Severity), found # None
    PROVE  StatusOf(found) = IF found = <<>> THEN "satisfied"
                             ELSE IF IsDefect(found) THEN "not_satisfied"
                             ELSE "partially_satisfied"
  <1> DEFINE n == Len(found)
             Status1(s) == IF s = {} THEN "satisfied"
                           ELSE IF \E i \in s : found[i] \in {"high", "blocking"}
                           THEN "not_satisfied" ELSE "partially_satisfied"
             Defines(f) == f = [s \in SUBSET DOMAIN found |->
                                  IF s = {} THEN "satisfied"
                                  ELSE AfterFinding(f[s \ {Max(s)}], found[Max(s)])]
             f0 == [s \in SUBSET DOMAIN found |-> Status1(s)]
  <1>1. n \in Nat /\ DOMAIN found = 1..n
    OBVIOUS
  <1>2. Defines(f0)
    <2>1. ASSUME NEW s \in SUBSET DOMAIN found, s # {}
          PROVE  Status1(s) = AfterFinding(Status1(s \ {Max(s)}), found[Max(s)])
      <3>1. Max(s) \in s
        BY <1>1, <2>1, Greatest
      <3>2. CASE found[Max(s)] \in {"high", "blocking"}
        BY <3>1, <3>2 DEF AfterFinding
      <3>3. CASE found[Max(s)] \notin {"high", "blocking"} /\ s \ {Max(s)} = {}
        <4>1. s = {Max(s)}
          BY <3>1, <3>3
        <4> QED
          BY <3>3, <4>1 DEF AfterFinding
      <3>4. CASE found[Max(s)] \notin {"high", "blocking"} /\ s \ {Max(s)} # {}
        <4>1. (\E i \in s : found[i] \in {"high", "blocking"})
                 <=> \E i \in s \ {Max(s)} : found[i] \in {"high", "blocking"}
          BY <3>1, <3>4
        <4> QED
          BY <3>4, <4>1 DEF AfterFinding
      <3> QED
        BY <3>2, <3>3, <3>4
    <2>2. \A s \in SUBSET DOMAIN found :
              Status1(s) = IF s = {} THEN "satisfied"
                           ELSE AfterFinding(Status1(s \ {Max(s)}), found[Max(s)])
      BY <2>1
    <2> QED
      BY <2>2
  <1>3. \E g : Defines(g) /\ FoldLeft(AfterFinding, "satisfied", found) = g[DOMAIN found]
    BY <1>2 DEF FoldLeft, MapThenFoldSet
  <1>4. PICK g : Defines(g) /\ FoldLeft(AfterFinding, "satisfied", found) = g[DOMAIN found]
    BY <1>3
  <1>5. \A s \in SUBSET DOMAIN found : s # {} =>
          /\ g[s] = AfterFinding(g[s \ {Max(s)}], found[Max(s)])
          /\ Status1(s) = AfterFinding(Status1(s \ {Max(s)}), found[Max(s)])
    BY <1>2, <1>4
  <1>6. g[{}] = "satisfied"
    BY <1>4
  <1> HIDE DEF Status1, Defines
  <1> DEFINE P == {k \in Nat : k <= n => g[1..k] = Status1(1..k)}
  <1>7. 0 \in P
    <2>1. 1..0 = {} /\ Status1({}) = "satisfied"
      BY DEF Status1
    <2> QED
      BY <1>6, <2>1
  <1>8. ASSUME NEW k \in Nat, k \in P PROVE k + 1 \in P
    <2> SUFFICES ASSUME k + 1 <= n PROVE g[1..(k + 1)] = Status1(1..(k + 1))
      OBVIOUS
    <2> DEFINE s == 1..(k + 1)
    <2>1. k + 1 \in s /\ \A i \in s : i <= k + 1
      OBVIOUS
    <2>2. s \in SUBSET (1..n) /\ s \in SUBSET DOMAIN found
      BY <1>1
    <2>3. Max(s) \in s /\ k + 1 <= Max(s)
      BY <2>1, <2>2, <1>1, Greatest
    <2>4. Max(s) = k + 1
      <3>1. \A m \in 1..(k + 1) : k + 1 <= m => m = k + 1
        OBVIOUS
      <3> QED
        BY <2>3, <3>1
    <2>5. s \ {Max(s)} = 1..k
      BY <2>4
    <2>6. g[1..k] = Status1(1..k)
      BY <1>8
    <2> HIDE DEF s
    <2> QED
      BY <1>5, <2>1, <2>2, <2>5, <2>6 DEF s
  <1>9. n \in P
    <2> HIDE DEF P
    <2> QED
      BY <1>1, <1>7, <1>8, Induction
  <1>10. StatusOf(found) = Status1(DOMAIN found)
    BY <1>1, <1>4, <1>9 DEF StatusOf
  <1> QED
    BY <1>1, <1>10 DEF IsDefect, Status1

-----------------------------------------------------------------------------
(* Summaries.                                                              *)

\* A run that has a summary has one of the statuses it would find now: its
\* evaluations are all back and none can come any more.
Summed(r) == summary[r] # None =>
    /\ pc[r] \in Reporting \cup {"error"} /\ inFlight[r] = {}
    /\ summary[r] = Summarize(AreaStatuses(r))
    /\ AreaStatuses(r) \in [Area -> Status]

SInv == \A r \in Run : Summed(r)

LEMMA NextSInv == DInv /\ RInv /\ SInv /\ [Next]_vars => SInv'
  <1> SUFFICES ASSUME DInv, RInv, SInv, [Next]_vars, NEW r \in Run PROVE Summed(r)'
    BY DEF SInv
  <1> USE DEF documentStore, results
  <1>1. Summed(r) /\ EvaluationsBack(r)
    BY DEF SInv, RInv, RunInv
  <1>2. ASSUME UNCHANGED <<replies[r], evaluated[r]>>
        PROVE  AreaStatuses(r)' = AreaStatuses(r)
    BY <1>2 DEF AreaStatuses, AreaStatus
  <1>3. /\ pc \in [Run -> Chain \cup Outcome]
        /\ inFlight \in [Run -> SUBSET Part]
        /\ summary \in [Run -> Summary \cup {None}]
    BY DEF DInv, DocTyped, RInv, RunTyped
  <1>4. CASE UNCHANGED vars
    BY <1>1, <1>2, <1>4 DEF vars, Summed
  <1>5. ASSUME NEW q \in Run \ {r}, Acts(q) PROVE Summed(r)'
    <2>1. UNCHANGED <<pc[r], replies[r], inFlight[r], evaluated[r], summary[r]>>
      BY <1>5, OthersKept DEF Kept
    <2> QED
      BY <1>1, <1>2, <2>1 DEF Summed
  <1>6. CASE RecordValidationResults(r)
    <2>1. UNCHANGED <<replies[r], inFlight[r], evaluated[r]>> /\ pc[r] = "record"
      BY <1>6 DEF RecordValidationResults
    <2>2. AreaStatuses(r)' = AreaStatuses(r) /\ AreaStatuses(r) \in [Area -> Status]
      BY <1>2, <1>6, <2>1 DEF RecordValidationResults, AreaStatuses
    <2>3. inFlight'[r] = {}
      BY <1>1, <2>1 DEF EvaluationsBack
    <2>4. pc'[r] \in Reporting \cup {"error"}
      BY <1>3, <1>6 DEF RecordValidationResults, Answered, Reporting
    <2>5. summary'[r] = Summarize(AreaStatuses(r))
      BY <1>3, <1>6 DEF RecordValidationResults
    <2>6. Summarize(AreaStatuses(r))' = Summarize(AreaStatuses(r))
      BY <2>2 DEF Summarize, With
    <2> QED
      BY <2>2, <2>3, <2>4, <2>5, <2>6 DEF Summed
  <1>7. CASE CreateReport(r) \/ Fail(r)
    <2>1. UNCHANGED <<replies[r], inFlight[r], evaluated[r], summary[r]>>
      BY <1>7 DEF CreateReport, Fail
    <2>2. pc'[r] \in Reporting \cup {"error"}
      BY <1>3, <1>7 DEF CreateReport, Fail, Answered, Reporting
    <2> QED
      BY <1>1, <1>2, <2>1, <2>2 DEF Summed
  <1>8. CASE \/ CreateProject(r) \/ PutOriginal(r) \/ NumberVersion(r) \/ InsertVersion(r)
             \/ AnalyzeDocumentVersion(r) \/ AnalyzeRequirements(r)
             \/ IdentifyAssumptionsAndRisks(r) \/ CreateValidationPlan(r)
             \/ Join(r) \/ PlanResearch(r) \/ ExecuteResearch(r)
    <2>1. pc[r] \notin Reporting \cup {"error"} /\ summary' = summary
      BY <1>8 DEF CreateProject, PutOriginal, NumberVersion, InsertVersion,
         AnalyzeDocumentVersion, AnalyzeRequirements, IdentifyAssumptionsAndRisks,
         CreateValidationPlan, Join, PlanResearch, ExecuteResearch, Reporting
    <2> QED
      BY <1>1, <2>1 DEF Summed
  <1>9. CASE \E p \in Part : Evaluate(r, p) \/ EvaluationFails(r, p)
    <2>1. inFlight[r] # {} /\ summary' = summary
      BY <1>9 DEF Evaluate, EvaluationFails
    <2> QED
      BY <1>1, <2>1 DEF Summed
  <1> QED
    BY <1>4, <1>5, <1>6, <1>7, <1>8, <1>9 DEF Next, Acts

\* The areas of a run with a summary: three have an evaluation, the others
\* have not been looked at.
LEMMA SummedAreas ==
    ASSUME RInv, NEW r \in Run, AreaStatuses(r) \in [Area -> Status]
    PROVE  /\ \A a \in Core :
                /\ AreaStatus(r, a) = IF evaluated[r][a] = <<>> THEN "satisfied"
                                      ELSE IF IsDefect(evaluated[r][a]) THEN "not_satisfied"
                                      ELSE "partially_satisfied"
                /\ evaluated[r][a] = <<>> => ~IsDefect(evaluated[r][a])
           /\ \A a \in OtherArea :
                AreaStatus(r, a) = IF a \in replies[r].selected THEN "unverified"
                                   ELSE "not_applicable"
  <1>1. ASSUME NEW a \in Core
        PROVE  evaluated[r][a] \in Seq(Severity) /\ evaluated[r][a] # None
    <2>1. AreaStatus(r, a) \in Status
      BY DEF AreaStatuses, Area
    <2>2. AreaStatus(r, a) = StatusOf(evaluated[r][a])
      BY DEF AreaStatus
    <2>3. evaluated[r][a] # None
      BY <2>1, <2>2 DEF StatusOf, Status
    <2>4. a \in Part /\ evaluated[r][a] \in Answers[a] \cup {None}
      BY DEF Core, Part, RInv, RunTyped
    <2> QED
      BY <2>3, <2>4, Constants
  <1>2. ASSUME NEW a \in Core
        PROVE  AreaStatus(r, a) = IF evaluated[r][a] = <<>> THEN "satisfied"
                                  ELSE IF IsDefect(evaluated[r][a]) THEN "not_satisfied"
                                  ELSE "partially_satisfied"
    BY <1>1, StatusOfFound DEF AreaStatus
  <1>3. ASSUME NEW a \in Core, evaluated[r][a] = <<>>
        PROVE  ~IsDefect(evaluated[r][a])
    BY <1>3 DEF IsDefect
  <1>4. \A a \in OtherArea : a \notin Core
    BY Constants
  <1> QED
    BY <1>2, <1>3, <1>4 DEF AreaStatus

\* Whatever was found and in whatever order, a summary counts an area as a
\* defect exactly if its evaluation found something, as not satisfied exactly
\* if something high or blocking was found, and leaves out no area but those
\* the plan left out (Summarize and evaluationStatus of RecordValidationResults).
THEOREM DefectsAreCounted == Spec => []DefectsCounted
  <1>1. Init => SInv
    BY DEF Init, SInv, Summed
  <1>2. RInv /\ SInv => DefectsCounted
    <2> SUFFICES ASSUME RInv, SInv, NEW r \in Run, summary[r] # None
                 PROVE  /\ summary[r].defects = {a \in Core : evaluated[r][a] # <<>>}
                        /\ \A a \in Core : summary[r].results[a] = "not_satisfied"
                                              <=> IsDefect(evaluated[r][a])
                        /\ summary[r].excluded = Area \ summary[r].scored
                        /\ summary[r].excluded = OtherArea \ replies[r].selected
      BY DEF DefectsCounted
    <2> DEFINE status == AreaStatuses(r)
    <2>1. summary[r] = Summarize(status) /\ status \in [Area -> Status]
      BY DEF SInv, Summed
    <2>2. \A a \in Area : status[a] = AreaStatus(r, a) /\ status[a] \in Status
      BY <2>1 DEF AreaStatuses
    <2>3. Area = Core \cup OtherArea /\ Core \cap OtherArea = {}
      BY Constants DEF Area
    <2>4. \A a \in Core :
            /\ status[a] = IF evaluated[r][a] = <<>> THEN "satisfied"
                           ELSE IF IsDefect(evaluated[r][a]) THEN "not_satisfied"
                           ELSE "partially_satisfied"
            /\ evaluated[r][a] = <<>> => ~IsDefect(evaluated[r][a])
      BY <2>1, <2>2, <2>3, SummedAreas
    <2>5. \A a \in OtherArea :
            status[a] = IF a \in replies[r].selected THEN "unverified" ELSE "not_applicable"
      BY <2>1, <2>2, <2>3, SummedAreas
    <2>6. DOMAIN status = Area
      BY DEF AreaStatuses
    <2> HIDE DEF status
    <2>7. /\ summary[r].results = status
          /\ summary[r].defects = {a \in Area : status[a] \in {"partially_satisfied", "not_satisfied"}}
          /\ summary[r].scored = {a \in Area : status[a] \in {"satisfied", "partially_satisfied",
                                                             "not_satisfied", "unverified"}}
          /\ summary[r].excluded = {a \in Area : status[a] = "not_applicable"}
      BY <2>1, <2>6 DEF Summarize, With
    <2>8. summary[r].defects = {a \in Core : evaluated[r][a] # <<>>}
      BY <2>3, <2>4, <2>5, <2>7
    <2>9. \A a \in Core : summary[r].results[a] = "not_satisfied" <=> IsDefect(evaluated[r][a])
      BY <2>4, <2>7
    <2>10. summary[r].excluded = Area \ summary[r].scored
      BY <2>2, <2>7 DEF Status
    <2>11. summary[r].excluded = OtherArea \ replies[r].selected
      BY <2>3, <2>4, <2>5, <2>7
    <2> QED
      BY <2>8, <2>9, <2>10, <2>11
  <1> QED
    BY <1>1, <1>2, NextSInv, RunsKept, PTL DEF Spec
=============================================================================
