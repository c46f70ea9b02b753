----------------------------- MODULE PagesProofs -----------------------------
(***************************************************************************)
(* Proofs about the pages that show jobs (JobPages), for every table of    *)
(* jobs, and about the page that submits them (SubmitPage).                *)
(***************************************************************************)
EXTENDS JobPages, SubmitPage, FiniteSetTheorems, TLAPS

-----------------------------------------------------------------------------
(* What a click hits.                                                      *)

(* No run of the script over the same list moves the choice.               *)
LEMMA StillRun ==
  ASSUME Rerun(filter, selected), list' = list
  PROVE  selected' = selected
<1>1. filter' = filter
  BY DEF Rerun
<1> QED BY <1>1 DEF Rerun

LEMMA ClickOfMine ==
  ASSUME StillClickHitsShown, NEW verb \in {"cancel", "retry"}, Click(verb)
  PROVE  StillClickHitsShown'
<1>1. CASE sent' = sent
  BY <1>1 DEF StillClickHitsShown
<1>2. CASE sent' = [ verb |-> verb, shown |-> selected, job |-> selected',
                     list |-> IF list' = list THEN "still" ELSE "moved" ]
  <2>1. sent'.shown = selected /\ sent'.job = selected'
    BY <1>2
  <2>2. sent'.list = "still" => list' = list
    BY <1>2
  <2>3. sent'.list = "still" => sent'.shown = sent'.job
    BY <2>1, <2>2, StillRun DEF Click
  <2> QED BY <2>3 DEF StillClickHitsShown
<1> QED BY <1>1, <1>2 DEF Click

LEMMA ClickNext ==
  StillClickHitsShown /\ [PagesNext]_pagesVars => StillClickHitsShown'
<1> SUFFICES ASSUME StillClickHitsShown, [PagesNext]_pagesVars
             PROVE  StillClickHitsShown'
  OBVIOUS
<1>1. CASE sent' \in {sent, NoRequest}
  BY <1>1 DEF StillClickHitsShown
<1>2. ASSUME NEW verb \in {"cancel", "retry"}, Click(verb) PROVE StillClickHitsShown'
  BY <1>2, ClickOfMine
<1>3. CASE ClickRequeue
  BY <1>3 DEF ClickRequeue, StillClickHitsShown
<1>4. \/ sent' \in {sent, NoRequest}
      \/ Click("cancel") \/ Click("retry") \/ ClickRequeue
  BY DEF PagesNext, Browse, OpenMine, ChooseFilter, Pick, Refresh, Succeed,
         Refused, OpenDlq, OpenDashboard, OpenOverview, CountRows,
         DrawOverview, Close, pagesVars, pageVars, widgetVars
<1> QED BY <1>1, <1>2, <1>3, <1>4

(* A click on Cancel or Retry takes the job shown unless the list changed  *)
(* (Rerun: every widget is the same one over the same list).               *)
THEOREM StillClickIsExact == PagesSpec => []StillClickHitsShown
<1>1. PagesInit => StillClickHitsShown
  BY DEF PagesInit, StillClickHitsShown
<1> QED BY <1>1, ClickNext, PTL DEF PagesSpec

-----------------------------------------------------------------------------
(* Counts and lists that are read one after the other.                     *)

(* Rows never go, and the counts of GET /metrics were of fewer.            *)
TrailInv ==
  /\ counted \in 0..6 /\ counts \subseteq Nat
  /\ page # "overview" => \A count \in counts : count <= Cardinality(Table!Listed)
  /\ OverviewTrailsList

LEMMA ListedGrows ==
  ASSUME IsFiniteSet(Jobs), status \in [ Jobs -> Shown ],
         Table!TableNext \/ status' = status
  PROVE  /\ status' \in [ Jobs -> Shown ]
         /\ IsFiniteSet(Table!Listed)
         /\ Cardinality(Table!Listed) \in Nat /\ Cardinality(Table!Listed') \in Nat
         /\ Cardinality(Table!Listed) <= Cardinality(Table!Listed')
<1> USE DEF Table!Listed
<1>1. status' \in [ Jobs -> Shown ]
  BY DEF Table!TableNext, Table!Appear, Table!Change, Table!Bury, Table!Exhume,
         Shown, Table!Stored
<1>2. Table!Listed \subseteq Table!Listed'
  BY DEF Table!TableNext, Table!Appear, Table!Change, Table!Bury, Table!Exhume,
         Shown, Table!Stored
<1>3. IsFiniteSet(Table!Listed) /\ IsFiniteSet(Table!Listed')
  BY FS_Subset
<1> QED BY <1>1, <1>2, <1>3, FS_Subset, FS_CardinalityType

LEMMA CountedAreListed ==
  ASSUME IsFiniteSet(Jobs), NEW n \in 1..6, NEW rows \in Counted[n]
  PROVE  /\ Cardinality(rows) \in Nat
         /\ Cardinality(rows) <= Cardinality(Table!Listed)
<1>1. \A s \in {"RUNNING", "COMPLETED", "FAILED"} : HavingStatus(s) \subseteq Table!Listed
  BY DEF HavingStatus, Table!Listed
<1>2. n = 1 \/ n = 2 \/ n = 3 \/ n = 4 \/ n = 5 \/ n = 6
  OBVIOUS
<1>3. rows \subseteq Table!Listed
  BY <1>1, <1>2 DEF Counted
<1>4. IsFiniteSet(Table!Listed)
  BY FS_Subset DEF Table!Listed
<1> QED BY <1>3, <1>4, FS_Subset, FS_CardinalityType

TableShown == status \in [ Jobs -> Shown ]

LEMMA TrailNext ==
  ASSUME IsFiniteSet(Jobs), TableShown, TrailInv, [PagesNext]_pagesVars
  PROVE  TableShown' /\ TrailInv'
<1> USE DEF TrailInv, OverviewTrailsList
<1> DEFINE listed == Cardinality(Table!Listed)
<1>1. Table!TableNext \/ status' = status
  BY DEF PagesNext, pagesVars
<1>2. TableShown' /\ listed \in Nat /\ listed' \in Nat /\ listed <= listed'
  BY <1>1, ListedGrows DEF TableShown
<1>3. CASE UNCHANGED << page, list, countVars >>
  BY <1>2, <1>3 DEF countVars, Rows
<1>4. CASE CountRows
  <2>1. counted' \in 1..6 /\ counted \in 0..6 /\ page' # "overview"
    BY <1>4 DEF CountRows
  <2>2. PICK rows \in Counted[counted'] : counts' = counts \cup {Cardinality(rows)}
    BY <1>4 DEF CountRows
  <2>3. Cardinality(rows) \in Nat /\ Cardinality(rows) <= listed
    BY <2>1, CountedAreListed
  <2>4. counts' \subseteq Nat /\ \A count \in counts' : count <= listed
    BY <1>4, <2>2, <2>3 DEF CountRows
  <2> HIDE DEF listed
  <2> QED BY <1>2, <2>1, <2>4 DEF listed
<1>5. CASE DrawOverview /\ UNCHANGED status
  BY <1>2, <1>5 DEF DrawOverview, countVars, Rows, Table!Listed
<1>6. CASE Close
  BY <1>2, <1>6 DEF Close
<1>7. CASE page' # "overview" /\ page # "overview" /\ UNCHANGED countVars
  BY <1>2, <1>7 DEF countVars
<1>8. \/ UNCHANGED << page, list, countVars >>
      \/ CountRows \/ (DrawOverview /\ UNCHANGED status) \/ Close
      \/ page' # "overview" /\ page # "overview" /\ UNCHANGED countVars
  BY DEF PagesNext, Browse, OpenMine, ChooseFilter, Pick, Refresh, Click, Succeed,
         Refused, OpenDlq, ClickRequeue, OpenDashboard, OpenOverview, pagesVars,
         pageVars, widgetVars, countVars
<1> QED BY <1>2, <1>3, <1>4, <1>5, <1>6, <1>7, <1>8

(* No count of the Overview is more than the rows of the list under them,  *)
(* whatever is created or changes between the SELECTs (GET /metrics reads  *)
(* before GET /admin/jobs, and no handler deletes a row).                  *)
THEOREM CountsTrail ==
  ASSUME IsFiniteSet(Jobs)
  PROVE  PagesSpec => []OverviewTrailsList
<1>1. PagesInit => TableShown /\ TrailInv
  <2> SUFFICES ASSUME PagesInit PROVE TableShown /\ TrailInv
    OBVIOUS
  <2>1. TableShown /\ page # "overview" /\ counted = 0 /\ counts = {}
    BY DEF PagesInit, Table!TableInit, TableShown, Shown
  <2> QED BY <2>1 DEF TrailInv, OverviewTrailsList
<1>2. TableShown /\ TrailInv /\ [PagesNext]_pagesVars => TableShown' /\ TrailInv'
  BY TrailNext
<1>3. TrailInv => OverviewTrailsList
  BY DEF TrailInv
<1> QED BY <1>1, <1>2, <1>3, PTL DEF PagesSpec

-----------------------------------------------------------------------------
(* The cards.                                                              *)

LEMMA DisjointUnion ==
  ASSUME NEW A, NEW B, IsFiniteSet(A), IsFiniteSet(B), A \cap B = {}
  PROVE  /\ Cardinality(A) \in Nat /\ Cardinality(B) \in Nat
         /\ Cardinality(A \cup B) = Cardinality(A) + Cardinality(B)
<1>1. Cardinality(A \cup B)
        = Cardinality(A) + Cardinality(B) - Cardinality(A \cap B)
  BY FS_Union
<1>2. Cardinality(A \cap B) = 0
  BY FS_EmptySet
<1>3. Cardinality(A) \in Nat /\ Cardinality(B) \in Nat
  BY FS_CardinalityType
<1> QED BY <1>1, <1>2, <1>3

LEMMA CountSum ==
  ASSUME IsFiniteSet(Jobs), NEW S, NEW T, S \cap T = {}
  PROVE  /\ Count(S) \in Nat /\ Count(T) \in Nat
         /\ Count(S \cup T) = Count(S) + Count(T)
<1> DEFINE s == { j \in Jobs : list[j] \in S }
           t == { j \in Jobs : list[j] \in T }
           u == { j \in Jobs : list[j] \in S \cup T }
<1>1. IsFiniteSet(s) /\ IsFiniteSet(t)
  BY FS_Subset
<1>2. s \cap t = {} /\ u = s \cup t
  OBVIOUS
<1>3. /\ Count(S) = Cardinality(s) /\ Count(T) = Cardinality(t)
      /\ Count(S \cup T) = Cardinality(u)
  BY Zenon DEF Count
<1> HIDE DEF s, t, u
<1> QED BY <1>1, <1>2, <1>3, DisjointUnion

LEMMA CardsOfTable ==
  ASSUME IsFiniteSet(Jobs), list \in [ Jobs -> Shown ]
  PROVE  CardsAddUp
<1> DEFINE A == {"COMPLETED"}
           Q == {"QUEUED"}
           X == {"CANCELLED"}
           B == A \cup Active
           C == B \cup Q
           D == C \cup NeedsAttention
           E == D \cup X
<1>1. /\ A \cap Active = {} /\ B \cap Q = {} /\ C \cap NeedsAttention = {}
      /\ D \cap X = {}
  BY DEF Active, NeedsAttention
<1>2. Rows(list) = { j \in Jobs : list[j] \in E }
  BY DEF Rows, Shown, Table!Stored, Active, NeedsAttention
<1>3. Cardinality(Rows(list)) = Count(E)
  BY <1>2 DEF Count
<1>4. /\ Count(B) = Count(A) + Count(Active)
      /\ Count(A) \in Nat /\ Count(Active) \in Nat
  <2> HIDE DEF A
  <2> QED BY <1>1, CountSum
<1>5. Count(C) = Count(B) + Count(Q) /\ Count(Q) \in Nat
  <2> HIDE DEF B, Q
  <2> QED BY <1>1, CountSum
<1>6. Count(D) = Count(C) + Count(NeedsAttention) /\ Count(NeedsAttention) \in Nat
  <2> HIDE DEF C
  <2> QED BY <1>1, CountSum
<1>7. Count(E) = Count(D) + Count(X) /\ Count(X) \in Nat
  <2> HIDE DEF D, X
  <2> QED BY <1>1, CountSum
<1> HIDE DEF A, B, C, D, E, Q, X
<1>8. Cardinality(Rows(list)) =
        Count(A) + Count(Active) + Count(Q) + Count(NeedsAttention) + Count(X)
  BY <1>3, <1>4, <1>5, <1>6, <1>7
<1> QED BY <1>8 DEF CardsAddUp, A, Q, X

LEMMA ListNext ==
  ASSUME IsFiniteSet(Jobs), TableShown, list \in [ Jobs -> Shown ],
         [PagesNext]_pagesVars
  PROVE  TableShown' /\ list' \in [ Jobs -> Shown ]
<1>1. Table!TableNext \/ status' = status
  BY DEF PagesNext, pagesVars
<1>2. TableShown'
  BY <1>1, ListedGrows DEF TableShown
<1>3. list' = list \/ list' = status \/ list' = [ j \in Jobs |-> "ABSENT" ]
  BY DEF PagesNext, Browse, OpenMine, ChooseFilter, Pick, Refresh, Click, Rerun,
         Succeed, Refused, OpenDlq, ClickRequeue, OpenDashboard, OpenOverview,
         CountRows, DrawOverview, Close, pagesVars, pageVars, widgetVars
<1>4. "ABSENT" \in Shown
  BY DEF Shown
<1> QED BY <1>2, <1>3, <1>4 DEF TableShown

(* The cards of the user's Dashboard and the cancelled jobs are all jobs:  *)
(* no status that is ever stored falls between Active, NeedsAttention and  *)
(* the other cards.                                                        *)
THEOREM CardsAreComplete ==
  ASSUME IsFiniteSet(Jobs)
  PROVE  PagesSpec => []CardsAddUp
<1>1. PagesInit => TableShown /\ list \in [ Jobs -> Shown ]
  BY DEF PagesInit, Table!TableInit, TableShown, Shown
<1>2. TableShown /\ list \in [ Jobs -> Shown ] /\ [PagesNext]_pagesVars
        => TableShown' /\ (list \in [ Jobs -> Shown ])'
  BY ListNext
<1>3. list \in [ Jobs -> Shown ] => CardsAddUp
  BY CardsOfTable
<1> QED BY <1>1, <1>2, <1>3, PTL DEF PagesSpec

-----------------------------------------------------------------------------
(* The form.                                                               *)

(* A text that was written for another type stands over an empty form.     *)
WrittenInv ==
  /\ text # AsBuilt /\ writtenFor # type => Built(type, fields) = {}
  /\ HandWrittenIsForTheForm

LEMMA EmptyForm == \A t \in Types : Built(t, {}) = {}
<1>1. Built("resume_analysis", {}) = {}
  BY Zenon DEF Built
<1>2. Built("pdf_summary", {}) = {}
  BY Zenon DEF Built
<1>3. Built("email_send", {}) = {}
  <2>1. Fields("email_send") = {"to", "subject", "body"}
    BY Zenon DEF Fields
  <2>2. {} # {"to", "subject", "body"}
    OBVIOUS
  <2> QED BY <2>1, <2>2, Zenon DEF Built
<1> QED BY <1>1, <1>2, <1>3 DEF Types

(* A run of the script drops the text unless the form builds what it did;  *)
(* a form that builds what it did stands over the text as before, and a    *)
(* form of another type is empty.                                          *)
LEMMA RedrawKeeps ==
  ASSUME WrittenInv, request' = request,
         NEW t, NEW filled, Redraw(t, filled),
         t = type \/ Built(t, filled) = {}
  PROVE  WrittenInv'
<1> USE DEF WrittenInv, HandWrittenIsForTheForm, Redraw
<1>1. CASE Built(t, filled) = Built(type, fields)
  BY <1>1
<1>2. CASE Built(t, filled) # Built(type, fields)
  BY <1>2
<1> QED BY <1>1, <1>2

LEMMA WrittenNext == WrittenInv /\ [SubmitNext]_submitVars => WrittenInv'
<1> SUFFICES ASSUME WrittenInv, [SubmitNext]_submitVars PROVE WrittenInv'
  OBVIOUS
<1>1. CASE ChooseType
  BY <1>1, EmptyForm, RedrawKeeps DEF ChooseType
<1>2. CASE FillIn
  BY <1>2, RedrawKeeps DEF FillIn
<1>3. CASE Write
  BY <1>3 DEF Write, WrittenInv, HandWrittenIsForTheForm
<1>4. CASE Submit
  BY <1>4 DEF Submit, Payload, NoPost, WrittenInv,
              HandWrittenIsForTheForm
<1>5. CASE UNCHANGED submitVars
  BY <1>5 DEF submitVars, WrittenInv, HandWrittenIsForTheForm
<1> QED BY <1>1, <1>2, <1>3, <1>4, <1>5 DEF SubmitNext

(* The raw JSON of "Submit Job" takes the place of no form of another type *)
(* than it was written for, but an empty one, whatever is written there.   *)
THEOREM TextFollowsForm ==
  SubmitInit /\ [][SubmitNext]_submitVars
    => []HandWrittenIsForTheForm
<1>1. SubmitInit => WrittenInv
  BY DEF SubmitInit, WrittenInv, HandWrittenIsForTheForm
<1>2. WrittenInv => HandWrittenIsForTheForm
  BY DEF WrittenInv
<1> QED BY <1>1, <1>2, WrittenNext, PTL

=============================================================================
