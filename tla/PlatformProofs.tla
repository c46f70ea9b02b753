--------------------------- MODULE PlatformProofs ---------------------------
(***************************************************************************)
(* Proofs about ResumeScore, for every vocabulary, about JobRun, for every *)
(* number of retries, and about Platform, of which these, Accounts and     *)
(* JobPages are the parts.                                                 *)
(***************************************************************************)
EXTENDS Platform, AccountsProofs, PagesProofs, SequenceTheorems, WellFoundedInduction

-----------------------------------------------------------------------------
(* Numbers.  The induction theorems of the library have an operator for a  *)
(* parameter; a set and its least element serve as well.                   *)

Less == { p \in Nat \X Nat : p[1] < p[2] }

LEMMA LeastNatural ==
  ASSUME NEW T \in SUBSET Nat, T # {}
  PROVE  \E n \in T : \A m \in T : n <= m
<1>1. Less = OpToRel(<, Nat)
  BY DEF Less, OpToRel
<1>2. IsWellFoundedOn(Less, Nat)
  BY <1>1, NatLessThanWellFounded
<1>3. PICK n \in T : \A m \in T : << m, n >> \notin Less
  BY <1>2, WFMin
<1>4. ASSUME NEW m \in T PROVE n <= m
  <2>1. m \in Nat /\ n \in Nat
    OBVIOUS
  <2>2. m < n => << m, n >> \in Less
    BY <2>1 DEF Less
  <2> QED BY <1>3, <2>1, <2>2
<1> QED BY <1>4

LEMMA GreatestNatural ==
  ASSUME NEW T \in SUBSET Nat, T # {}, NEW b \in Nat, \A m \in T : m <= b
  PROVE  \E n \in T : \A m \in T : m <= n
<1> DEFINE bounds == { n \in Nat : \A m \in T : m <= n }
<1>1. bounds \in SUBSET Nat /\ bounds # {}
  OBVIOUS
<1>2. PICK n \in bounds : \A k \in bounds : n <= k
  <2> HIDE DEF bounds
  <2> QED BY <1>1, LeastNatural
<1>3. n \in T
  <2> SUFFICES ASSUME n \notin T PROVE FALSE
    OBVIOUS
  <2>1. \A m \in T : m < n
    BY <1>2
  <2>2. n - 1 \in bounds
    <3>1. PICK m \in T : TRUE
      OBVIOUS
    <3>2. n \in Nat /\ m \in Nat /\ m < n
      BY <1>2, <2>1, <3>1
    <3>3. \A k \in T : k <= n - 1
      BY <2>1, <3>2
    <3> QED BY <3>2, <3>3
  <2> QED BY <1>2, <2>2
<1> QED BY <1>2, <1>3

(* Max of the community modules, where there is one.                       *)
LEMMA MaxIsGreatest ==
  ASSUME NEW T \in SUBSET Nat, T # {}, NEW b \in Nat, \A m \in T : m <= b
  PROVE  Max(T) \in T /\ \A m \in T : m <= Max(T)
<1>1. \E n \in T : \A m \in T : n >= m
  BY GreatestNatural
<1> QED BY <1>1 DEF Max

(* A power of two counts subsets: of those of 0..n half have n.            *)
LEMMA Doubling == \A n \in Nat : 2^n \in Nat \ {0} /\ 2^(n + 1) = 2 * 2^n
<1> TAKE n \in Nat
<1> DEFINE S == 1..n
           T == 1..(n + 1)
           with == { U \in SUBSET T : n + 1 \in U }
           f == [ U \in SUBSET S |-> U \cup {n + 1} ]
<1>1. IsFiniteSet(S) /\ Cardinality(S) = n /\ IsFiniteSet(T) /\ Cardinality(T) = n + 1
  BY FS_Interval
<1>2. /\ IsFiniteSet(SUBSET S) /\ Cardinality(SUBSET S) = 2^n
      /\ IsFiniteSet(SUBSET T) /\ Cardinality(SUBSET T) = 2^(n + 1)
  BY <1>1, FS_SUBSET
<1>3. f \in Bijection(SUBSET S, with)
  <2>1. f \in [ SUBSET S -> with ]
    OBVIOUS
  <2>2. \A U, V \in SUBSET S : f[U] = f[V] => U = V
    <3> SUFFICES ASSUME NEW U \in SUBSET S, NEW V \in SUBSET S,
                        U \cup {n + 1} = V \cup {n + 1}
                 PROVE  U = V
      OBVIOUS
    <3>1. n + 1 \notin U /\ n + 1 \notin V
      OBVIOUS
    <3> QED BY <3>1
  <2>3. \A W \in with : \E U \in SUBSET S : f[U] = W
    <3> TAKE W \in with
    <3>1. W \ {n + 1} \in SUBSET S
      OBVIOUS
    <3>2. f[W \ {n + 1}] = W
      BY <3>1
    <3> QED BY <3>1, <3>2
  <2> QED BY <2>1, <2>2, <2>3 DEF Bijection, Injection, IsInjective, Surjection
<1>4. IsFiniteSet(with) /\ Cardinality(with) = 2^n
  <2> HIDE DEF f, with, S
  <2> QED BY <1>2, <1>3, FS_Bijection DEF ExistsBijection
<1>5. SUBSET T = (SUBSET S) \cup with /\ (SUBSET S) \cap with = {}
  <2>1. \A U \in SUBSET T : n + 1 \notin U => U \in SUBSET S
    OBVIOUS
  <2>2. SUBSET S \subseteq SUBSET T /\ \A U \in SUBSET S : n + 1 \notin U
    OBVIOUS
  <2> QED BY <2>1, <2>2
<1>6. 2^(n + 1) = 2^n + 2^n /\ 2^n \in Nat
  <2> HIDE DEF S, T, with
  <2>1. /\ Cardinality(SUBSET S) \in Nat
        /\ Cardinality((SUBSET S) \cup with)
             = Cardinality(SUBSET S) + Cardinality(with)
    BY <1>2, <1>4, <1>5, DisjointUnion
  <2> QED BY <1>2, <1>4, <1>5, <2>1
<1>7. 2^n # 0
  <2>1. {} \in SUBSET S
    OBVIOUS
  <2> HIDE DEF S
  <2> QED BY <1>2, <2>1, FS_EmptySet
<1> QED BY <1>6, <1>7

-----------------------------------------------------------------------------
(* The score of a resume.                                                  *)

LEMMA ResumeTypeNext == ResumeTypeOK /\ [Extend]_resume => ResumeTypeOK'
BY DEF ResumeTypeOK, Extend

(* The largest number of years exists, however large the claims, since two *)
(* digits of a claim are read.                                             *)
LEMMA YearsAreGreatest ==
  ASSUME NEW r, r.claims \subseteq Nat
  PROVE  /\ ExperienceYears(r) \in {0} \cup { Read(n) : n \in r.claims }
         /\ ExperienceYears(r) \in Nat
         /\ \A n \in r.claims : Read(n) <= ExperienceYears(r)
<1> DEFINE years == {0} \cup { Read(n) : n \in r.claims }
<1>1. \A n \in r.claims : Read(n) \in 0..99
  BY DEF Read
<1>2. years \in SUBSET Nat /\ years # {} /\ \A m \in years : m <= 99
  BY <1>1
<1>3. Max(years) \in years /\ \A m \in years : m <= Max(years)
  <2> HIDE DEF years
  <2> QED BY <1>2, MaxIsGreatest
<1> QED BY <1>2, <1>3 DEF ExperienceYears

LEMMA YearsGrow ==
  ASSUME NEW r, NEW s, s.claims \subseteq Nat, r.claims \subseteq s.claims
  PROVE  ExperienceYears(r) <= ExperienceYears(s)
<1>1. /\ ExperienceYears(r) \in {0} \cup { Read(n) : n \in r.claims }
      /\ ExperienceYears(r) \in Nat
  BY YearsAreGreatest
<1>2. /\ ExperienceYears(s) \in Nat
      /\ \A n \in s.claims : Read(n) <= ExperienceYears(s)
  BY YearsAreGreatest
<1> QED BY <1>1, <1>2

LEMMA CountGrows ==
  ASSUME NEW T, NEW S \in SUBSET T, IsFiniteSet(T)
  PROVE  /\ Cardinality(S) \in Nat /\ Cardinality(T) \in Nat
         /\ Cardinality(S) <= Cardinality(T)
BY FS_Subset, FS_CardinalityType

(* The cut at 100.                                                         *)
LEMMA CutGrows ==
  ASSUME NEW m \in Nat, NEW n \in Nat, m <= n
  PROVE  Min({ 100, m }) <= Min({ 100, n })
<1>1. ASSUME NEW k \in Nat PROVE Min({ 100, k }) = IF k <= 100 THEN k ELSE 100
  <2>1. \E x \in { 100, k } : \A y \in { 100, k } : x <= y
    OBVIOUS
  <2>2. /\ Min({ 100, k }) \in { 100, k }
        /\ \A y \in { 100, k } : Min({ 100, k }) <= y
    BY <2>1 DEF Min
  <2> QED BY <2>2
<1> QED BY <1>1

LEMMA ScoreGrows ==
  ASSUME IsFiniteSet(Keywords), IsFiniteSet(Degrees),
         NEW r, NEW s, s.claims \subseteq Nat, s.degrees \subseteq Degrees,
         r.words \subseteq s.words, r.claims \subseteq s.claims,
         r.degrees \subseteq s.degrees
  PROVE  Score(r) <= Score(s)
<1>1. Skills(r) \subseteq Skills(s) /\ Skills(s) \subseteq Keywords
  BY DEF Skills
<1>2. IsFiniteSet(Skills(s)) /\ IsFiniteSet(s.degrees)
  BY <1>1, FS_Subset
<1>3. /\ Cardinality(Skills(r)) \in Nat /\ Cardinality(Skills(s)) \in Nat
      /\ Cardinality(Skills(r)) <= Cardinality(Skills(s))
  BY <1>1, <1>2, CountGrows
<1>4. /\ Cardinality(r.degrees) \in Nat /\ Cardinality(s.degrees) \in Nat
      /\ Cardinality(r.degrees) <= Cardinality(s.degrees)
  BY <1>2, CountGrows
<1>5. /\ ExperienceYears(r) \in Nat /\ ExperienceYears(s) \in Nat
      /\ ExperienceYears(r) <= ExperienceYears(s)
  BY YearsAreGreatest, YearsGrow
<1> DEFINE points(t) == 5 * Cardinality(Skills(t)) + 4 * ExperienceYears(t)
                          + 3 * Cardinality(t.degrees)
<1>6. points(r) \in Nat /\ points(s) \in Nat /\ points(r) <= points(s)
  BY <1>3, <1>4, <1>5
<1>7. Min({ 100, points(r) }) <= Min({ 100, points(s) })
  <2> HIDE DEF points
  <2> QED BY <1>6, CutGrows
<1> QED BY <1>7 DEF Score

(* No word, claim or degree that is added to a resume lowers its score,    *)
(* for any finite list of skills and degrees (ResumeAnalysisExecutor).     *)
THEOREM ScoreIsMonotonic ==
  ASSUME IsFiniteSet(Keywords), IsFiniteSet(Degrees)
  PROVE  ResumeSpec => MoreScoresNoLess
<1>1. ResumeInit => ResumeTypeOK
  BY DEF ResumeInit, ResumeTypeOK
<1>2. ResumeTypeOK /\ [Extend]_resume =>
        [ Score(resume) <= Score(resume') ]_resume
  <2> SUFFICES ASSUME ResumeTypeOK, Extend PROVE Score(resume) <= Score(resume')
    OBVIOUS
  <2>1. ResumeTypeOK'
    BY ResumeTypeNext
  <2>2. /\ resume.words \subseteq resume'.words
        /\ resume.claims \subseteq resume'.claims
        /\ resume.degrees \subseteq resume'.degrees
    BY DEF ResumeTypeOK, Extend
  <2>3. resume'.claims \subseteq Nat /\ resume'.degrees \subseteq Degrees
    BY <2>1, ResumeAssumption DEF ResumeTypeOK
  <2> QED BY <2>2, <2>3, ScoreGrows
<1> QED BY <1>1, <1>2, ResumeTypeNext, PTL DEF ResumeSpec, MoreScoresNoLess

-----------------------------------------------------------------------------
(* The form that is posted.                                                *)

(* The fields that are filled in are of the form, and what is posted is in *)
(* type; what the form built is what its executor asks for.                *)
FormInv ==
  /\ SubmitTypeOK
  /\ fields \subseteq Fields(type)
  /\ FormsMeetRequirements

LEMMA FieldsOfForms ==
  /\ Fields("resume_analysis") = {"text", "file_path"}
  /\ Fields("pdf_summary") = {"file_path"}
  /\ Fields("email_send") = {"to", "subject", "body"}
<1>1. Fields("resume_analysis") = {"text", "file_path"}
  BY Zenon DEF Fields
<1>2. Fields("pdf_summary") = {"file_path"}
  BY Zenon DEF Fields
<1>3. Fields("email_send") = {"to", "subject", "body"}
  BY Zenon DEF Fields
<1> QED BY <1>1, <1>2, <1>3

LEMMA BuiltByForms ==
  ASSUME NEW filled
  PROVE  /\ Built("resume_analysis", filled) = filled
         /\ Built("pdf_summary", filled) =
              IF filled = {} THEN {} ELSE filled \cup {"max_length"}
         /\ Built("email_send", filled) =
              IF filled = Fields("email_send") THEN filled ELSE {}
<1>1. Built("resume_analysis", filled) = filled
  BY Zenon DEF Built
<1>2. Built("pdf_summary", filled) =
        IF filled = {} THEN {} ELSE filled \cup {"max_length"}
  BY Zenon DEF Built
<1>3. Built("email_send", filled) =
        IF filled = Fields("email_send") THEN filled ELSE {}
  BY Zenon DEF Built
<1> QED BY <1>1, <1>2, <1>3

LEMMA RequirementsOfExecutors ==
  ASSUME NEW payload
  PROVE  /\ Complete("resume_analysis", payload) <=>
              payload \cap {"text", "file_path"} # {}
         /\ Complete("pdf_summary", payload) <=> "file_path" \in payload
         /\ Complete("email_send", payload) <=>
              {"to", "subject", "body"} \subseteq payload
<1>1. Complete("resume_analysis", payload) <=>
        payload \cap {"text", "file_path"} # {}
  BY Zenon DEF Complete
<1>2. Complete("pdf_summary", payload) <=> "file_path" \in payload
  BY Zenon DEF Complete
<1>3. Complete("email_send", payload) <=>
        {"to", "subject", "body"} \subseteq payload
  BY Zenon DEF Complete
<1> QED BY <1>1, <1>2, <1>3

(* The payload builder and the executors agree on what is needed.          *)
LEMMA BuiltIsComplete ==
  ASSUME NEW t \in Types, NEW filled \in SUBSET Fields(t)
  PROVE  /\ Fields(t) \subseteq Keys
         /\ Built(t, filled) \subseteq Keys
         /\ Built(t, filled) # {} => Complete(t, Built(t, filled))
<1>1. CASE t = "resume_analysis"
  BY <1>1, FieldsOfForms, BuiltByForms, RequirementsOfExecutors DEF Keys
<1>2. CASE t = "pdf_summary"
  BY <1>2, FieldsOfForms, BuiltByForms, RequirementsOfExecutors DEF Keys
<1>3. CASE t = "email_send"
  BY <1>3, FieldsOfForms, BuiltByForms, RequirementsOfExecutors DEF Keys
<1> QED BY <1>1, <1>2, <1>3 DEF Types

LEMMA FormStart == SubmitInit => FormInv
BY DEF SubmitInit, FormInv, SubmitTypeOK, FormsMeetRequirements, Types

LEMMA FormNext == FormInv /\ [SubmitNext]_submitVars => FormInv'
<1> SUFFICES ASSUME FormInv, [SubmitNext]_submitVars PROVE FormInv'
  OBVIOUS
<1> USE DEF FormInv, FormsMeetRequirements, SubmitTypeOK
<1>1. ASSUME NEW t \in Types, NEW filled \in SUBSET Fields(t), Redraw(t, filled),
             request = NoPost, request' = request
      PROVE  FormInv'
  BY <1>1, BuiltIsComplete DEF Redraw
<1>2. CASE ChooseType /\ request = NoPost
  BY <1>1, <1>2 DEF ChooseType
<1>3. CASE FillIn /\ request = NoPost
  BY <1>1, <1>3 DEF FillIn
<1>4. CASE Write /\ request = NoPost
  BY <1>4, PlatformAssumption DEF Write
<1>5. CASE Submit /\ request = NoPost
  <2>1. /\ Built(type, fields) \subseteq Keys
        /\ Built(type, fields) # {} => Complete(type, Built(type, fields))
    BY BuiltIsComplete
  <2>2. Payload \subseteq Keys /\ Payload # {}
    BY <1>5, <2>1 DEF Payload, Submit
  <2>3. request' \in Post
    BY <1>5, <2>1, <2>2 DEF Submit, Post
  <2>4. request'.by = "form" => Complete(request'.type, request'.payload)
    BY <1>5, <2>1, <2>2 DEF Submit, Payload
  <2> QED BY <1>5, <2>3, <2>4 DEF Submit
<1>6. CASE UNCHANGED submitVars
  BY <1>6 DEF submitVars
<1> QED BY <1>2, <1>3, <1>4, <1>5, <1>6 DEF SubmitNext

LEMMA FormLeft == FormInv /\ Leave => FormInv'
BY DEF Leave, FormInv, SubmitTypeOK, FormsMeetRequirements, Types

LEMMA FormCorrect == JobRunSpec => []FormInv
<1>1. RunInit => FormInv
  BY FormStart DEF RunInit
<1>2. [JobRunNext]_jobRunVars => [SubmitNext]_submitVars \/ Leave
  BY DEF JobRunNext, jobRunVars, Create, Cancel, Retry, Requeue, QueueAgain, Work,
         Skip, Assign, StartRun, Send, Mailed, Delivered, Returned, Finish, Fail,
         DieInFailure, Crash, submitVars
<1>3. FormInv /\ [JobRunNext]_jobRunVars => FormInv'
  BY <1>2, FormNext, FormLeft
<1> QED BY <1>1, <1>3, PTL DEF JobRunSpec

(* What a form builds meets the test its executor begins with, for every   *)
(* text people may write: no filled form is buried for its payload.        *)
THEOREM FormsAreComplete == JobRunSpec => []FormsMeetRequirements
<1>1. FormInv => FormsMeetRequirements
  BY DEF FormInv
<1> QED BY <1>1, FormCorrect, PTL

-----------------------------------------------------------------------------
(* The row, the worker and what failed.                                    *)

RowOfJob ==
  [ status : {"ABSENT", "QUEUED", "ASSIGNED", "RUNNING", "COMPLETED", "RETRYING",
              "DEAD", "CANCELLED"},
    retry_count : Nat, result : Result, smtp : {"on", "off"} ]

(* The failures that n calls grant.                                        *)
Rounds(n) == n * (MaxRetries + 1)

(* The executions that can still fail once the job starts with this count. *)
Left(count) == IF count <= MaxRetries THEN MaxRetries + 1 - count ELSE 1

Busy == step # "idle"

(* Types, and where the worker is not.                                     *)
PlaceInv ==
  /\ job \in RowOfJob
  /\ step \in {"idle", "assigned", "running", "accepted"}
  /\ queued \in BOOLEAN /\ overtaken \in BOOLEAN
  /\ loaded \in Nat /\ failures \in Nat
  /\ unhandled \in 0..Deaths
  /\ retries \in 0..ManualRetries /\ requeues \in 0..Requeues
  /\ job.status = "ABSENT" => ~Busy /\ ~queued /\ job.retry_count = 0 /\ ~overtaken
  /\ request # NoPost => job.status = "ABSENT"
  /\ job.status = "DEAD" => ~Busy /\ job.retry_count > MaxRetries

(* No count runs ahead of the failures since the last retry by hand ...    *)
FloorInv ==
  /\ failures >= Rounds(retries) + job.retry_count
  /\ Busy => failures >= Rounds(retries) + loaded

(* ... and no entry, nor the worker, may fail more often than was granted: *)
(* a requeue while the worker has the job grants for two.                  *)
CeilingInv ==
  /\ failures <= Rounds(retries + requeues + 1)
  /\ Busy \/ queued \/ job.status = "ABSENT" =>
       failures + Left(job.retry_count) <= Rounds(retries + requeues + 1)
  /\ Busy => failures + Left(loaded) <= Rounds(retries + requeues + 1)
  /\ Busy /\ queued => failures + 2 <= Rounds(retries + requeues + 1)

CountInv == PlaceInv /\ FloorInv /\ CeilingInv

LEMMA Limits ==
  MaxRetries \in Nat /\ ManualRetries \in Nat /\ Requeues \in Nat /\ Deaths \in Nat
BY PlatformAssumption

LEMMA RoundsGrow ==
  /\ Rounds(0) = 0
  /\ \A n \in Nat : /\ Rounds(n) \in Nat
                    /\ Rounds(n + 1) = Rounds(n) + MaxRetries + 1
BY Limits DEF Rounds

LEMMA LeftOver ==
  ASSUME NEW n \in Nat
  PROVE  Left(n) \in 1..(MaxRetries + 1) /\ Left(0) = MaxRetries + 1
BY Limits DEF Left

LEMMA PlaceStart == RunInit => PlaceInv
<1> SUFFICES ASSUME RunInit PROVE PlaceInv
  OBVIOUS
<1>1. job = [ status |-> "ABSENT", retry_count |-> 0, result |-> "none",
              smtp |-> "off" ]
  BY DEF RunInit
<1>2. job \in RowOfJob
  BY <1>1 DEF RowOfJob, Result
<1>3. job.status = "ABSENT" /\ job.retry_count = 0
  BY <1>1
<1>4. /\ request = NoPost /\ step = "idle" /\ queued = FALSE /\ overtaken = FALSE
      /\ loaded = 0 /\ failures = 0 /\ unhandled = 0 /\ retries = 0 /\ requeues = 0
  BY DEF RunInit, SubmitInit
<1>5. /\ loaded \in Nat /\ failures \in Nat /\ unhandled \in 0..Deaths
      /\ retries \in 0..ManualRetries /\ requeues \in 0..Requeues
  BY <1>4, Limits
<1>6. ~Busy
  BY <1>4 DEF Busy
<1>7. step \in {"idle", "assigned", "running", "accepted"}
  BY <1>4
<1> QED BY <1>2, <1>3, <1>4, <1>5, <1>6, <1>7, Zenon DEF PlaceInv

LEMMA PlaceNext == PlaceInv /\ [JobRunNext]_jobRunVars => PlaceInv'
<1> SUFFICES ASSUME PlaceInv, [JobRunNext]_jobRunVars PROVE PlaceInv'
  OBVIOUS
<1> USE Limits DEF PlaceInv, RowOfJob, Busy
<1>1. CASE Create
  BY <1>1 DEF Create, Leave, historyVars, callVars
<1>2. CASE Cancel
  BY <1>2 DEF Cancel, submitVars, historyVars, callVars
<1>3. CASE Retry \/ Requeue
  <2>1. /\ job' = [ job EXCEPT !.status = "QUEUED", !.retry_count = 0 ]
        /\ queued' = TRUE /\ overtaken' = (step # "idle")
        /\ UNCHANGED << request, step, loaded, failures, unhandled >>
        /\ job.status # "ABSENT"
    BY <1>3 DEF Retry, Requeue, QueueAgain, submitVars
  <2>2. /\ job' \in RowOfJob /\ job'.status = "QUEUED" /\ job'.retry_count = 0
        /\ overtaken' \in BOOLEAN
    BY <2>1
  <2>3. retries' \in 0..ManualRetries /\ requeues' \in 0..Requeues
    BY <1>3 DEF Retry, Requeue
  <2> QED BY <2>1, <2>2, <2>3
<1>4. CASE Skip
  BY <1>4 DEF Skip, submitVars, historyVars, callVars
<1>5. CASE Assign
  BY <1>5 DEF Assign, submitVars, historyVars, callVars
<1>6. CASE StartRun
  BY <1>6 DEF StartRun, submitVars, historyVars, callVars
<1>7. CASE Send
  BY <1>7 DEF Send, Mailed, submitVars, callVars
<1>8. CASE Delivered \/ Returned
  BY <1>8 DEF Delivered, Returned, Finish, Result, submitVars, historyVars, callVars
<1>9. CASE Fail
  <2>1. /\ step' = "idle" /\ failures' = failures + 1
        /\ UNCHANGED << request, loaded, unhandled, retries, requeues, overtaken >>
        /\ Busy
    BY <1>9 DEF Fail, submitVars, callVars
  <2>2. PICK outcome \in {"RETRYING", "DEAD"} :
          /\ job' = [ job EXCEPT !.status = outcome, !.retry_count = loaded + 1 ]
          /\ outcome = "DEAD" => loaded + 1 > MaxRetries
    BY <1>9 DEF Fail, MayRetry
  <2>3. /\ job' \in RowOfJob /\ job'.status \in {"RETRYING", "DEAD"}
        /\ job'.status = "DEAD" => job'.retry_count > MaxRetries
    <3>1. loaded + 1 \in Nat /\ job \in RowOfJob
      OBVIOUS
    <3>2. job'.status = outcome /\ job'.retry_count = loaded + 1
      BY <2>2, <3>1
    <3>3. job' \in RowOfJob
      BY <2>2, <3>1
    <3> QED BY <2>2, <3>2, <3>3
  <2>4. queued' \in BOOLEAN
    BY <1>9 DEF Fail
  <2> QED BY <2>1, <2>3, <2>4
<1>10. CASE DieInFailure
  BY <1>10 DEF DieInFailure, submitVars, callVars
<1>11. CASE Crash
  BY <1>11 DEF Crash, submitVars, historyVars, callVars
<1>12. CASE SubmitNext /\ job.status = "ABSENT" /\ UNCHANGED runVars
  BY <1>12 DEF runVars, historyVars, callVars
<1>13. CASE UNCHANGED jobRunVars
  BY <1>13 DEF jobRunVars, runVars, submitVars, historyVars, callVars
<1> QED BY <1>1, <1>2, <1>3, <1>4, <1>5, <1>6, <1>7, <1>8, <1>9, <1>10, <1>11,
           <1>12, <1>13 DEF JobRunNext, Work

(* What the steps do to the count and the failures; most do nothing.       *)
LEMMA CountMoves ==
  ASSUME PlaceInv, [JobRunNext]_jobRunVars
  PROVE  \/ /\ Retry \/ Requeue
            /\ job'.retry_count = 0 /\ queued' = TRUE
            /\ UNCHANGED << step, loaded, failures >>
            /\ \/ /\ job.status = "DEAD"
                  /\ retries' = retries + 1 /\ requeues' = requeues
               \/ requeues' = requeues + 1 /\ retries' = retries
         \/ /\ Fail
            /\ Busy /\ step' = "idle"
            /\ job'.retry_count = loaded + 1 /\ failures' = failures + 1
            /\ loaded + 1 <= MaxRetries \/ queued' = queued
            /\ UNCHANGED << retries, requeues >>
            /\ job'.status \in {"RETRYING", "DEAD"}
         \/ /\ Assign /\ queued
            /\ loaded' = job.retry_count /\ queued' = FALSE
            /\ job'.retry_count = job.retry_count /\ job'.status = "ASSIGNED"
            /\ UNCHANGED << failures, retries, requeues >>
         \/ /\ ~Retry /\ ~Requeue /\ ~Fail /\ ~Assign
            /\ job'.retry_count = job.retry_count
            /\ Busy' => Busy /\ loaded' = loaded
            /\ queued' => queued \/ job.status = "ABSENT" \/ (Busy /\ ~Busy')
            /\ job'.status = "ABSENT" => job.status = "ABSENT"
            /\ UNCHANGED << failures, retries, requeues >>
<1> USE DEF PlaceInv, RowOfJob, Busy
<1>1. CASE Retry
  BY <1>1 DEF Retry, QueueAgain
<1>2. CASE Requeue
  BY <1>2 DEF Requeue, QueueAgain
<1>3. CASE Fail
  <2>1. CASE MayRetry(loaded + 1)
    BY <1>3, <2>1 DEF Fail, MayRetry, callVars
  <2>2. CASE ~MayRetry(loaded + 1)
    BY <1>3, <2>2 DEF Fail, MayRetry, callVars
  <2> QED BY <2>1, <2>2
<1>4. CASE Assign
  BY <1>4 DEF Assign, historyVars, callVars
<1>5. ASSUME ~Retry, ~Requeue, ~Fail, ~Assign
      PROVE  /\ job'.retry_count = job.retry_count
             /\ Busy' => Busy /\ loaded' = loaded
             /\ queued' => queued \/ job.status = "ABSENT" \/ (Busy /\ ~Busy')
             /\ job'.status = "ABSENT" => job.status = "ABSENT"
             /\ UNCHANGED << failures, retries, requeues >>
  <2>1. CASE Create
    BY <2>1 DEF Create, historyVars, callVars
  <2>2. CASE Cancel
    BY <2>2 DEF Cancel, historyVars, callVars
  <2>3. CASE Skip
    BY <2>3 DEF Skip, historyVars, callVars
  <2>4. CASE StartRun
    BY <2>4 DEF StartRun, historyVars, callVars
  <2>5. CASE Send
    BY <2>5 DEF Send, Mailed, callVars
  <2>6. CASE Delivered \/ Returned
    BY <2>6 DEF Delivered, Returned, Finish, historyVars, callVars
  <2>7. CASE DieInFailure
    BY <2>7 DEF DieInFailure, callVars
  <2>8. CASE Crash
    BY <2>8 DEF Crash, historyVars, callVars
  <2>9. CASE UNCHANGED runVars
    BY <2>9 DEF runVars, historyVars, callVars
  <2> QED BY <1>5, <2>1, <2>2, <2>3, <2>4, <2>5, <2>6, <2>7, <2>8, <2>9
          DEF JobRunNext, Work, jobRunVars
<1> QED BY <1>1, <1>2, <1>3, <1>4, <1>5

LEMMA FloorNext == PlaceInv /\ FloorInv /\ [JobRunNext]_jobRunVars => FloorInv'
<1> SUFFICES ASSUME PlaceInv, FloorInv, [JobRunNext]_jobRunVars PROVE FloorInv'
  OBVIOUS
<1>1. /\ retries \in Nat /\ Rounds(retries) \in Nat /\ loaded \in Nat /\ failures \in Nat
      /\ job.retry_count \in Nat
      /\ Rounds(retries + 1) = Rounds(retries) + MaxRetries + 1
  BY RoundsGrow DEF PlaceInv, RowOfJob
<1>2. job.status = "DEAD" => ~Busy /\ job.retry_count > MaxRetries
  BY DEF PlaceInv
<1>3. /\ failures >= Rounds(retries) + job.retry_count
      /\ Busy => failures >= Rounds(retries) + loaded
  BY DEF FloorInv
<1>4. CASE /\ job'.retry_count = 0
           /\ UNCHANGED << step, loaded, failures >>
           /\ \/ /\ job.status = "DEAD"
                 /\ retries' = retries + 1 /\ requeues' = requeues
              \/ requeues' = requeues + 1 /\ retries' = retries
  <2>1. CASE job.status = "DEAD" /\ retries' = retries + 1
    BY <1>1, <1>2, <1>3, <1>4, <2>1, Limits DEF FloorInv, Busy
  <2>2. CASE retries' = retries
    <3>1. Rounds(retries') = Rounds(retries) /\ (Busy' <=> Busy)
      BY <1>4, <2>2 DEF Busy
    <3> QED BY <1>1, <1>3, <1>4, <3>1 DEF FloorInv
  <2> QED BY <1>4, <2>1, <2>2
<1>5. CASE /\ Busy /\ step' = "idle"
           /\ job'.retry_count = loaded + 1 /\ failures' = failures + 1
           /\ retries' = retries
  BY <1>1, <1>3, <1>5 DEF FloorInv, Busy
<1>6. CASE /\ loaded' = job.retry_count /\ job'.retry_count = job.retry_count
           /\ UNCHANGED << failures, retries >>
  BY <1>1, <1>3, <1>6 DEF FloorInv
<1>7. CASE /\ job'.retry_count = job.retry_count
           /\ Busy' => Busy /\ loaded' = loaded
           /\ UNCHANGED << failures, retries >>
  BY <1>1, <1>3, <1>7 DEF FloorInv
<1> QED BY <1>4, <1>5, <1>6, <1>7, CountMoves

LEMMA CeilingNext == PlaceInv /\ CeilingInv /\ [JobRunNext]_jobRunVars => CeilingInv'
<1> SUFFICES ASSUME PlaceInv, CeilingInv, [JobRunNext]_jobRunVars PROVE CeilingInv'
  OBVIOUS
<1> DEFINE calls == retries + requeues + 1
<1>1. /\ retries \in Nat /\ requeues \in Nat /\ calls \in Nat
      /\ Rounds(calls) \in Nat /\ Rounds(calls + 1) = Rounds(calls) + MaxRetries + 1
      /\ loaded \in Nat /\ failures \in Nat /\ job.retry_count \in Nat
  BY RoundsGrow DEF PlaceInv, RowOfJob
<1>2. /\ Left(loaded) \in 1..(MaxRetries + 1)
      /\ Left(job.retry_count) \in 1..(MaxRetries + 1)
      /\ Left(0) = MaxRetries + 1
  BY <1>1, LeftOver
<1>3. /\ failures <= Rounds(calls)
      /\ Busy \/ queued \/ job.status = "ABSENT" =>
           failures + Left(job.retry_count) <= Rounds(calls)
      /\ Busy => failures + Left(loaded) <= Rounds(calls)
      /\ Busy /\ queued => failures + 2 <= Rounds(calls)
  BY DEF CeilingInv
<1>4. job.status = "DEAD" => ~Busy
  BY DEF PlaceInv
<1>5. CASE \/ /\ Retry \/ Requeue
              /\ job'.retry_count = 0 /\ queued' = TRUE
              /\ UNCHANGED << step, loaded, failures >>
              /\ \/ /\ job.status = "DEAD"
                    /\ retries' = retries + 1 /\ requeues' = requeues
                 \/ requeues' = requeues + 1 /\ retries' = retries
  <2>1. calls' = calls + 1
    BY <1>1, <1>5
  <2>2. Rounds(calls') = Rounds(calls) + MaxRetries + 1
    BY <1>1, <2>1
  <2>3. failures' + Left(job'.retry_count) <= Rounds(calls')
    BY <1>1, <1>2, <1>3, <1>5, <2>2, Limits
  <2>4. Busy' => failures' + Left(loaded') <= Rounds(calls')
    BY <1>1, <1>2, <1>3, <1>5, <2>2, Limits DEF Busy
  <2>5. Busy' => failures' + 2 <= Rounds(calls')
    BY <1>1, <1>2, <1>3, <1>5, <2>2, Limits DEF Busy
  <2>6. failures' <= Rounds(calls')
    BY <1>1, <1>3, <1>5, <2>2, Limits
  <2> QED BY <2>3, <2>4, <2>5, <2>6 DEF CeilingInv
<1>6. CASE /\ Fail
           /\ Busy /\ step' = "idle"
           /\ job'.retry_count = loaded + 1 /\ failures' = failures + 1
           /\ loaded + 1 <= MaxRetries \/ queued' = queued
           /\ UNCHANGED << retries, requeues >>
           /\ job'.status \in {"RETRYING", "DEAD"}
  <2>1. calls' = calls /\ ~Busy'
    BY <1>6 DEF Busy
  <2>2. failures' <= Rounds(calls)
    BY <1>1, <1>2, <1>3, <1>6
  <2>3. CASE loaded + 1 <= MaxRetries
    <3>1. Left(loaded + 1) + 1 = Left(loaded)
      BY <1>1, <2>3, Limits DEF Left
    <3>2. failures' + Left(job'.retry_count) <= Rounds(calls)
      BY <1>1, <1>2, <1>3, <1>6, <3>1, Limits DEF Left
    <3> QED BY <2>1, <2>2, <3>2 DEF CeilingInv
  <2>4. CASE ~(loaded + 1 <= MaxRetries)
    <3>1. Left(job'.retry_count) = 1 /\ queued' = queued /\ job'.status # "ABSENT"
      BY <1>6, <2>4 DEF Left
    <3>2. queued' => failures' + Left(job'.retry_count) <= Rounds(calls)
      BY <1>1, <1>3, <1>6, <3>1
    <3> QED BY <2>1, <2>2, <3>1, <3>2 DEF CeilingInv
  <2> QED BY <2>3, <2>4
<1>7. CASE /\ Assign /\ queued
           /\ loaded' = job.retry_count /\ queued' = FALSE
           /\ job'.retry_count = job.retry_count /\ job'.status = "ASSIGNED"
           /\ UNCHANGED << failures, retries, requeues >>
  BY <1>3, <1>7 DEF CeilingInv
<1>8. CASE /\ ~Retry /\ ~Requeue /\ ~Fail /\ ~Assign
           /\ job'.retry_count = job.retry_count
           /\ Busy' => Busy /\ loaded' = loaded
           /\ queued' => queued \/ job.status = "ABSENT" \/ (Busy /\ ~Busy')
           /\ job'.status = "ABSENT" => job.status = "ABSENT"
           /\ UNCHANGED << failures, retries, requeues >>
  <2>1. calls' = calls /\ Left(job'.retry_count) = Left(job.retry_count)
    BY <1>8
  <2>2. Busy' /\ queued' => Busy /\ (queued \/ job.status = "ABSENT")
    BY <1>8
  <2>3. job.status = "ABSENT" => ~Busy
    BY DEF PlaceInv
  <2> QED BY <1>3, <1>8, <2>1, <2>2, <2>3 DEF CeilingInv
<1> QED
  <2> HIDE DEF calls
  <2> QED BY <1>5, <1>6, <1>7, <1>8, CountMoves

LEMMA CountCorrect == JobRunSpec => []CountInv
<1>1. RunInit => CountInv
  <2> SUFFICES ASSUME RunInit PROVE CountInv
    OBVIOUS
  <2>1. /\ retries = 0 /\ requeues = 0 /\ failures = 0 /\ ~Busy /\ queued = FALSE
        /\ job.retry_count = 0
    BY DEF RunInit, Busy
  <2>2. Rounds(0) = 0 /\ Rounds(0 + 0 + 1) = MaxRetries + 1 /\ Left(0) = MaxRetries + 1
    BY RoundsGrow, LeftOver, Limits
  <2> QED BY <2>1, <2>2, PlaceStart, Limits DEF CountInv, FloorInv, CeilingInv
<1>2. CountInv /\ [JobRunNext]_jobRunVars => CountInv'
  BY PlaceNext, FloorNext, CeilingNext DEF CountInv
<1> QED BY <1>1, <1>2, PTL DEF JobRunSpec

(* A job is DEAD after as many failures as its retries and one, and again  *)
(* so many for every retry by hand; a requeue, which may come at any time, *)
(* adds as many at most.  For every max_retries.                           *)
THEOREM BuriedAsPromised == JobRunSpec => []BuriedOnTime
<1>1. CountInv => BuriedOnTime
  <2> SUFFICES ASSUME CountInv, job.status = "DEAD" 
               PROVE  /\ failures >= Rounds(retries + 1)
                      /\ failures <= Rounds(retries + requeues + 1)
    BY DEF BuriedOnTime, Rounds
  <2>1. /\ retries \in Nat /\ job.retry_count \in Nat /\ job.retry_count > MaxRetries
        /\ failures \in Nat
    BY DEF CountInv, PlaceInv, RowOfJob
  <2>2. /\ Rounds(retries) \in Nat
        /\ Rounds(retries + 1) = Rounds(retries) + MaxRetries + 1
    BY <2>1, RoundsGrow
  <2>3. failures >= Rounds(retries) + job.retry_count
    BY DEF CountInv, FloorInv
  <2>4. failures <= Rounds(retries + requeues + 1)
    BY DEF CountInv, CeilingInv
  <2> QED BY <2>1, <2>2, <2>3, <2>4, Limits
<1> QED BY <1>1, CountCorrect, PTL

-----------------------------------------------------------------------------
(* The mails.                                                              *)

Waiting == IF queued THEN 1 ELSE 0

Sending == IF step \in {"assigned", "running"} THEN 1 ELSE 0

(* An entry, and a worker that has not sent yet, may send one mail each:   *)
(* there was a failure or a call for each but the first.  A job that is    *)
(* DEAD may be retried without one.                                        *)
MailInv ==
  /\ mails \in Nat
  /\ mails + Waiting + Sending <= failures + unhandled + requeues + 1
  /\ job.status \in {"ABSENT", "DEAD"} => mails + 1 <= failures + unhandled + requeues + 1
  /\ step = "accepted" => mails > 0
  /\ job.status = "ABSENT" => mails = 0
  /\ job.smtp = "off" => mails = 0
  /\ job.result = "sent" => mails > 0

LEMMA MailStart == RunInit => MailInv
BY DEF RunInit, MailInv, Waiting, Sending

LEMMA MailNext == PlaceInv /\ MailInv /\ [JobRunNext]_jobRunVars => MailInv'
<1> SUFFICES ASSUME PlaceInv, MailInv, [JobRunNext]_jobRunVars PROVE MailInv'
  OBVIOUS
<1>1. /\ failures \in Nat /\ unhandled \in Nat /\ requeues \in Nat
      /\ step \in {"idle", "assigned", "running", "accepted"} /\ queued \in BOOLEAN
      /\ job \in RowOfJob
      /\ job.status = "ABSENT" => step = "idle" /\ ~queued
      /\ job.status = "DEAD" => step = "idle"
      /\ request # NoPost => job.status = "ABSENT"
  BY DEF PlaceInv, Busy
<1> USE DEF MailInv, RowOfJob, Waiting, Sending
<1>2. CASE Create
  <2>1. /\ job.status = "ABSENT" /\ queued' = TRUE /\ step' = step
        /\ UNCHANGED << mails, failures, unhandled, requeues >>
    BY <1>1, <1>2 DEF Create, historyVars, callVars
  <2>2. job'.status = "QUEUED" /\ job'.result = job.result
    BY <1>1, <1>2 DEF Create
  <2> QED BY <1>1, <2>1, <2>2
<1>3. CASE Cancel
  BY <1>1, <1>3 DEF Cancel, historyVars, callVars
<1>4. CASE Retry
  BY <1>1, <1>4 DEF Retry, QueueAgain
<1>5. CASE Requeue
  BY <1>1, <1>5 DEF Requeue, QueueAgain
<1>6. CASE Skip
  BY <1>1, <1>6 DEF Skip, historyVars, callVars
<1>7. CASE Assign
  BY <1>1, <1>7 DEF Assign, historyVars, callVars
<1>8. CASE StartRun
  BY <1>1, <1>8 DEF StartRun, historyVars, callVars
<1>9. CASE Send
  BY <1>1, <1>9 DEF Send, Mailed, Mailing, callVars
<1>10. CASE Delivered
  BY <1>1, <1>10 DEF Delivered, Finish, historyVars, callVars
<1>11. CASE Returned
  BY <1>1, <1>11 DEF Returned, Finish, historyVars, callVars
<1>12. CASE Fail
  <2>1. /\ step' = "idle" /\ failures' = failures + 1 /\ mails' = mails
        /\ unhandled' = unhandled /\ requeues' = requeues
        /\ step \in {"running", "accepted"}
    BY <1>12 DEF Fail, callVars
  <2>2. /\ job'.status \in {"RETRYING", "DEAD"}
        /\ job'.smtp = job.smtp /\ job'.result = job.result
        /\ job'.status = "RETRYING" \/ queued' = queued
        /\ queued' \in BOOLEAN
    BY <1>1, <1>12 DEF Fail
  <2> QED BY <1>1, <2>1, <2>2
<1>13. CASE DieInFailure
  BY <1>1, <1>13 DEF DieInFailure, callVars
<1>14. CASE Crash
  BY <1>1, <1>14 DEF Crash, historyVars, callVars
<1>15. CASE UNCHANGED runVars
  BY <1>1, <1>15 DEF runVars, historyVars, callVars
<1> QED BY <1>2, <1>3, <1>4, <1>5, <1>6, <1>7, <1>8, <1>9, <1>10, <1>11, <1>12, <1>13,
           <1>14, <1>15 DEF JobRunNext, Work, jobRunVars

LEMMA MailCorrect == JobRunSpec => []MailInv
<1>1. CountInv => PlaceInv
  BY DEF CountInv
<1> QED BY <1>1, CountCorrect, MailStart, MailNext, PTL DEF JobRunSpec

(* A mail goes out again only for an execution that failed or a requeue:   *)
(* where a worker dies and another goes on, a call comes while the job is  *)
(* executed, or the mail was taken and its result is not stored.  None     *)
(* goes out in a dry run, and none is said to be sent that was not.        *)
THEOREM MailsAreCounted == JobRunSpec => []MailsAreAccounted
<1>1. CountInv /\ MailInv => MailsAreAccounted
  BY DEF MailInv, MailsAreAccounted, CountInv, PlaceInv, Waiting, Sending
<1> QED BY <1>1, CountCorrect, MailCorrect, PTL

-----------------------------------------------------------------------------
(* The delays.                                                             *)

(* What the jitter leaves of a delay.                                      *)
LEMMA DelayRange ==
  ASSUME NEW k \in Nat \ {0}, NEW d \in Delay(k)
  PROVE  d \in Nat /\ 8 * 2^(k - 1) <= d /\ d <= 12 * 2^(k - 1)
<1>1. k - 1 \in Nat /\ 2^(k - 1) \in Nat
  BY Doubling
<1>2. PICK jitter \in 8..12 : d = jitter * 2^(k - 1)
  BY DEF Delay, Jitter
<1>3. ASSUME NEW p \in Nat
      PROVE  jitter * p \in Nat /\ 8 * p <= jitter * p /\ jitter * p <= 12 * p
  <2>1. jitter = 8 \/ jitter = 9 \/ jitter = 10 \/ jitter = 11 \/ jitter = 12
    OBVIOUS
  <2> QED BY <2>1
<1> QED BY <1>1, <1>2, <1>3

(* The shortest delay of an attempt is longer than the longest of the one  *)
(* before: 8 * 2 > 12.                                                     *)
LEMMA DelayGrows ==
  ASSUME NEW k \in Nat \ {0}, NEW d \in Delay(k), NEW e \in Delay(k + 1)
  PROVE  d < e
<1> DEFINE p == 2^(k - 1)
<1>1. k - 1 \in Nat /\ (k - 1) + 1 = k
  OBVIOUS
<1>2. p \in Nat \ {0} /\ 2^k = 2 * p
  BY <1>1, Doubling
<1>3. d \in Nat /\ d <= 12 * p
  BY DelayRange
<1>4. k + 1 \in Nat \ {0} /\ (k + 1) - 1 = k
  OBVIOUS
<1>5. e \in Nat /\ 8 * 2^k <= e
  BY <1>4, DelayRange
<1> QED
  <2> HIDE DEF p
  <2> QED BY <1>2, <1>3, <1>5

(* The last delay is the one of the retries counted, in the row and in the *)
(* worker's object.                                                        *)
DelayInv ==
  /\ delay \in Nat
  /\ delay # 0 =>
       /\ job.retry_count # 0
       /\ job.retry_count <= MaxRetries => delay \in Delay(job.retry_count)
       /\ Busy => loaded # 0 /\ (loaded <= MaxRetries => delay \in Delay(loaded))

LEMMA DelayOfFail ==
  ASSUME PlaceInv, DelayInv, Fail
  PROVE  DelayInv' /\ (delay' # delay => delay' > delay)
<1> DEFINE count == loaded + 1
<1>1. loaded \in Nat /\ count \in Nat \ {0} /\ MaxRetries \in Nat /\ Busy
  BY Limits DEF PlaceInv, Fail, Busy
<1>2. CASE count <= MaxRetries
  <2>1. /\ job'.retry_count = count /\ delay' \in Delay(count) /\ step' = "idle"
    BY <1>2 DEF Fail, MayRetry, PlaceInv, RowOfJob
  <2>2. delay' \in Nat /\ 8 * 2^(count - 1) <= delay'
    BY <1>1, <2>1, DelayRange
  <2>3. delay' # 0
    <3>1. 2^(count - 1) \in Nat \ {0}
      BY <1>1, Doubling
    <3> QED BY <2>2, <3>1
  <2>4. delay' > delay
    <3>1. CASE delay = 0
      BY <2>2, <2>3, <3>1
    <3>2. CASE delay # 0
      <4>1. loaded \in Nat \ {0} /\ loaded <= MaxRetries /\ delay \in Delay(loaded)
        BY <1>1, <1>2, <3>2 DEF DelayInv
      <4> QED BY <2>1, <2>2, <4>1, DelayGrows DEF DelayInv
    <3> QED BY <3>1, <3>2
  <2> QED BY <1>1, <2>1, <2>2, <2>4 DEF DelayInv, Busy
<1>3. CASE ~(count <= MaxRetries)
  <2>1. job'.retry_count = count /\ delay' = delay /\ step' = "idle"
    BY <1>3 DEF Fail, MayRetry, PlaceInv, RowOfJob
  <2> QED BY <1>1, <1>3, <2>1 DEF DelayInv, Busy
<1> QED BY <1>2, <1>3

LEMMA DelayNext ==
  ASSUME PlaceInv, DelayInv, [JobRunNext]_jobRunVars
  PROVE  DelayInv' /\ [delay' # 0 => delay' > delay]_delay
<1>1. CASE Retry \/ Requeue
  BY <1>1 DEF Retry, Requeue, QueueAgain, DelayInv
<1>2. CASE Fail
  BY <1>2, DelayOfFail
<1>3. CASE Assign
  <2>1. /\ delay' = delay /\ loaded' = job.retry_count
        /\ job'.retry_count = job.retry_count
    BY <1>3 DEF Assign, PlaceInv, RowOfJob
  <2> QED BY <2>1 DEF DelayInv
<1>4. CASE ~Retry /\ ~Requeue /\ ~Fail /\ ~Assign
  <2>1. delay' = delay
    BY <1>4 DEF JobRunNext, jobRunVars, runVars, Work, Create, Cancel, Skip, StartRun, Send,
                Mailed, Delivered, Returned, Finish, DieInFailure, Crash
  <2>2. job'.retry_count = job.retry_count /\ (Busy' => Busy /\ loaded' = loaded)
    BY <1>4, CountMoves
  <2> QED BY <2>1, <2>2 DEF DelayInv
<1> QED BY <1>1, <1>2, <1>3, <1>4

LEMMA DelayCorrect ==
  JobRunSpec => []DelayInv /\ [][delay' # 0 => delay' > delay]_delay
<1>1. RunInit => DelayInv
  BY DEF RunInit, DelayInv
<1>2. CountInv => PlaceInv
  BY DEF CountInv
<1> QED BY <1>1, <1>2, CountCorrect, DelayNext, PTL DEF JobRunSpec

(* Each time a longer delay is asked of the queue, whatever the jitter and *)
(* for every max_retries (calculate_delay), also by a worker that goes on  *)
(* with the count it loaded before a requeue.                              *)
THEOREM DelaysAskedAreLonger == JobRunSpec => DelaysAskedGrow
BY DelayCorrect DEF DelaysAskedGrow

-----------------------------------------------------------------------------
(* The log.                                                                *)

Event ==
  { "JOB_CREATED", "JOB_QUEUED", "JOB_CANCELLED", "JOB_MANUAL_RETRY", "DLQ_REQUEUED",
    "JOB_RETRYING", "JOB_DEAD", "WORKER_ASSIGNED", "EXECUTION_STARTED", "EXECUTION_COMPLETED",
    "EXECUTION_FAILED" }

(* LastCall and the failures after it, of any log.                         *)
CallAt(l) ==
  LET places == { i \in DOMAIN l : l[i] \in Calls }
  IN  IF places = {} THEN 0 ELSE Max(places)

FailsSince(l) == { i \in DOMAIN l : i > CallAt(l) /\ l[i] = "EXECUTION_FAILED" }

StatusAfter(last) ==
  CASE last = "none" -> "ABSENT"
    [] last \in {"JOB_QUEUED"} \cup Calls -> "QUEUED"
    [] last = "WORKER_ASSIGNED" -> "ASSIGNED"
    [] last = "EXECUTION_STARTED" -> "RUNNING"
    [] last = "EXECUTION_COMPLETED" -> "COMPLETED"
    [] last = "JOB_RETRYING" -> "RETRYING"
    [] last = "JOB_DEAD" -> "DEAD"
    [] last = "JOB_CANCELLED" -> "CANCELLED"

LastOf(l) == IF l = << >> THEN "none" ELSE Last(l)

LEMMA StatusOfEvents ==
  /\ StatusAfter("none") = "ABSENT"
  /\ StatusAfter("JOB_QUEUED") = "QUEUED"
  /\ StatusAfter("JOB_MANUAL_RETRY") = "QUEUED"
  /\ StatusAfter("DLQ_REQUEUED") = "QUEUED"
  /\ StatusAfter("WORKER_ASSIGNED") = "ASSIGNED"
  /\ StatusAfter("EXECUTION_STARTED") = "RUNNING"
  /\ StatusAfter("EXECUTION_COMPLETED") = "COMPLETED"
  /\ StatusAfter("JOB_RETRYING") = "RETRYING"
  /\ StatusAfter("JOB_DEAD") = "DEAD"
  /\ StatusAfter("JOB_CANCELLED") = "CANCELLED"
<1>1. StatusAfter("none") = "ABSENT"
  BY Zenon DEF StatusAfter, Calls
<1>2. StatusAfter("JOB_QUEUED") = "QUEUED"
  BY Zenon DEF StatusAfter, Calls
<1>3. StatusAfter("JOB_MANUAL_RETRY") = "QUEUED"
  BY Zenon DEF StatusAfter, Calls
<1>4. StatusAfter("DLQ_REQUEUED") = "QUEUED"
  BY Zenon DEF StatusAfter, Calls
<1>5. StatusAfter("WORKER_ASSIGNED") = "ASSIGNED"
  BY Zenon DEF StatusAfter, Calls
<1>6. StatusAfter("EXECUTION_STARTED") = "RUNNING"
  BY Zenon DEF StatusAfter, Calls
<1>7. StatusAfter("EXECUTION_COMPLETED") = "COMPLETED"
  BY Zenon DEF StatusAfter, Calls
<1>8. StatusAfter("JOB_RETRYING") = "RETRYING"
  BY Zenon DEF StatusAfter, Calls
<1>9. StatusAfter("JOB_DEAD") = "DEAD"
  BY Zenon DEF StatusAfter, Calls
<1>10. StatusAfter("JOB_CANCELLED") = "CANCELLED"
  BY Zenon DEF StatusAfter, Calls
<1> QED BY <1>1, <1>2, <1>3, <1>4, <1>5, <1>6, <1>7, <1>8, <1>9, <1>10

LEMMA CallInLog ==
  ASSUME NEW l \in Seq(Event)
  PROVE  /\ CallAt(l) \in 0..Len(l)
         /\ \A i \in DOMAIN l : l[i] \in Calls => i <= CallAt(l)
         /\ CallAt(l) # 0 => l[CallAt(l)] \in Calls
<1> DEFINE places == { i \in DOMAIN l : l[i] \in Calls }
<1>1. DOMAIN l = 1..Len(l) /\ Len(l) \in Nat
  OBVIOUS
<1>2. CallAt(l) = IF places = {} THEN 0 ELSE Max(places)
  BY DEF CallAt
<1>3. CASE places = {}
  BY <1>1, <1>2, <1>3
<1>4. CASE places # {}
  <2>1. places \in SUBSET Nat /\ \A m \in places : m <= Len(l)
    BY <1>1
  <2>2. Max(places) \in places /\ \A m \in places : m <= Max(places)
    <3> HIDE DEF places
    <3> QED BY <1>1, <1>4, <2>1, MaxIsGreatest
  <2> QED BY <1>1, <1>2, <1>4, <2>2
<1> QED BY <1>3, <1>4

(* What one more event changes.                                            *)
LEMMA CallAfter ==
  ASSUME NEW l \in Seq(Event), NEW e \in Event
  PROVE  CallAt(Append(l, e)) = IF e \in Calls THEN Len(l) + 1 ELSE CallAt(l)
<1> DEFINE m == Append(l, e)
<1>1. /\ m \in Seq(Event) /\ Len(m) = Len(l) + 1 /\ Len(l) \in Nat
      /\ \A i \in 1..Len(l) : m[i] = l[i]
      /\ m[Len(l) + 1] = e
      /\ DOMAIN m = 1..(Len(l) + 1) /\ DOMAIN l = 1..Len(l)
  OBVIOUS
<1>2. /\ CallAt(m) \in 0..Len(m)
      /\ \A i \in DOMAIN m : m[i] \in Calls => i <= CallAt(m)
      /\ CallAt(m) # 0 => m[CallAt(m)] \in Calls
  BY <1>1, CallInLog
<1>3. /\ CallAt(l) \in 0..Len(l)
      /\ \A i \in DOMAIN l : l[i] \in Calls => i <= CallAt(l)
      /\ CallAt(l) # 0 => l[CallAt(l)] \in Calls
  BY CallInLog
<1> HIDE DEF m
<1>4. CASE e \in Calls
  <2>1. Len(l) + 1 <= CallAt(m)
    BY <1>1, <1>2, <1>4
  <2>2. CallAt(m) = Len(l) + 1
    BY <1>1, <1>2, <2>1
  <2> QED BY <1>4, <2>2 DEF m
<1>5. CASE e \notin Calls
  <2>1. CallAt(m) # Len(l) + 1
    BY <1>1, <1>2, <1>5
  <2>2. CallAt(m) \in 0..Len(l)
    BY <1>1, <1>2, <2>1
  <2>3. CallAt(m) # 0 => CallAt(m) <= CallAt(l)
    BY <1>1, <1>2, <1>3, <2>2
  <2>4. CallAt(l) # 0 => CallAt(l) <= CallAt(m)
    BY <1>1, <1>2, <1>3
  <2>5. CallAt(m) = CallAt(l)
    BY <1>1, <1>3, <2>2, <2>3, <2>4
  <2> QED BY <1>5, <2>5 DEF m
<1> QED BY <1>4, <1>5

LEMMA FailsAfter ==
  ASSUME NEW l \in Seq(Event), NEW e \in Event
  PROVE  /\ e \in Calls => FailsSince(Append(l, e)) = {}
         /\ e = "EXECUTION_FAILED" =>
              FailsSince(Append(l, e)) = FailsSince(l) \cup {Len(l) + 1}
         /\ e \notin Calls \cup {"EXECUTION_FAILED"} =>
              FailsSince(Append(l, e)) = FailsSince(l)
<1> DEFINE m == Append(l, e)
<1>1. /\ Len(l) \in Nat
      /\ \A i \in 1..Len(l) : m[i] = l[i]
      /\ m[Len(l) + 1] = e
      /\ DOMAIN m = 1..(Len(l) + 1) /\ DOMAIN l = 1..Len(l)
  OBVIOUS
<1>2. CallAt(m) = IF e \in Calls THEN Len(l) + 1 ELSE CallAt(l)
  BY CallAfter
<1>3. CallAt(l) \in 0..Len(l)
  BY CallInLog
<1> HIDE DEF m
<1>4. CASE e \in Calls
  <2>1. \A i \in DOMAIN m : ~(i > CallAt(m))
    BY <1>1, <1>2, <1>4
  <2>2. FailsSince(m) = {}
    BY <2>1 DEF FailsSince
  <2> QED BY <1>4, <2>2 DEF m, Calls
<1>5. CASE e = "EXECUTION_FAILED"
  <2>1. CallAt(m) = CallAt(l) /\ Len(l) + 1 > CallAt(m)
    BY <1>1, <1>2, <1>3, <1>5 DEF Calls
  <2>2. \A i : i \in FailsSince(m) <=> i \in FailsSince(l) \cup {Len(l) + 1}
    BY <1>1, <1>5, <2>1 DEF FailsSince
  <2>3. FailsSince(m) = FailsSince(l) \cup {Len(l) + 1}
    BY <2>2
  <2> QED BY <1>5, <2>3 DEF m, Calls
<1>6. CASE e \notin Calls \cup {"EXECUTION_FAILED"}
  <2>1. CallAt(m) = CallAt(l)
    BY <1>2, <1>6
  <2>2. \A i : i \in FailsSince(m) <=> i \in FailsSince(l)
    BY <1>1, <1>6, <2>1 DEF FailsSince
  <2>3. FailsSince(m) = FailsSince(l)
    BY <2>2
  <2> QED BY <1>6, <2>3 DEF m
<1> QED BY <1>4, <1>5, <1>6

FailCount(l) == Cardinality(FailsSince(l))

LEMMA CountAfter ==
  ASSUME NEW l \in Seq(Event), NEW e \in Event
  PROVE  /\ Append(l, e) \in Seq(Event)
         /\ LastOf(Append(l, e)) = e
         /\ FailCount(l) \in Nat
         /\ e \in Calls => FailCount(Append(l, e)) = 0
         /\ e = "EXECUTION_FAILED" => FailCount(Append(l, e)) = FailCount(l) + 1
         /\ e \notin Calls \cup {"EXECUTION_FAILED"} =>
              FailCount(Append(l, e)) = FailCount(l)
<1>1. Append(l, e) \in Seq(Event) /\ LastOf(Append(l, e)) = e
  BY DEF LastOf, Last
<1>2. FailsSince(l) \subseteq 1..Len(l) /\ Len(l) \in Nat
  BY DEF FailsSince
<1>3. IsFiniteSet(FailsSince(l)) /\ FailCount(l) \in Nat
  <2>1. IsFiniteSet(1..Len(l))
    BY <1>2, FS_Interval
  <2>2. IsFiniteSet(FailsSince(l))
    BY <1>2, <2>1, FS_Subset
  <2> QED BY <2>2, FS_CardinalityType DEF FailCount
<1>4. Len(l) + 1 \notin FailsSince(l)
  BY <1>2
<1>5. CASE e \in Calls
  <2>1. FailCount(Append(l, e)) = 0
    BY <1>5, FailsAfter, FS_EmptySet DEF FailCount
  <2> QED BY <1>1, <1>3, <1>5, <2>1 DEF Calls
<1>6. CASE e = "EXECUTION_FAILED"
  <2>1. FailsSince(Append(l, e)) = FailsSince(l) \cup {Len(l) + 1}
    BY <1>6, FailsAfter
  <2>2. FailCount(Append(l, e)) = FailCount(l) + 1
    BY <1>3, <1>4, <2>1, FS_AddElement DEF FailCount
  <2> QED BY <1>1, <1>3, <1>6, <2>2 DEF Calls
<1>7. CASE e \notin Calls \cup {"EXECUTION_FAILED"}
  BY <1>1, <1>3, <1>7, FailsAfter DEF FailCount
<1> QED BY <1>5, <1>6, <1>7

LEMMA TwoEvents ==
  ASSUME NEW l \in Seq(Event), NEW a \in Event, NEW b \in Event
  PROVE  /\ l \o << a >> = Append(l, a)
         /\ l \o << a, b >> = Append(Append(l, a), b)
<1>1. l \o << a >> = Append(l, a)
  BY AppendIsConcat
<1>2. Append(l, a) \in Seq(Event) /\ << a >> \in Seq(Event) /\ << b >> \in Seq(Event)
  OBVIOUS
<1>3. Append(Append(l, a), b) = (l \o << a >>) \o << b >>
  BY <1>1, <1>2, AppendIsConcat
<1>4. (l \o << a >>) \o << b >> = l \o (<< a >> \o << b >>)
  BY <1>2, ConcatAssociative
<1>5. << a >> \o << b >> = << a, b >>
  <2>1. /\ << a >> \o << b >> \in Seq(Event) /\ << a, b >> \in Seq(Event)
        /\ Len(<< a >> \o << b >>) = 2 /\ Len(<< a, b >>) = 2
    OBVIOUS
  <2>2. \A i \in 1..2 : (<< a >> \o << b >>)[i] = << a, b >>[i]
    OBVIOUS
  <2> QED BY <2>1, <2>2, SeqEqual
<1> QED BY <1>1, <1>3, <1>4, <1>5

(* The row is what the log says, and so is the worker's object; a requeue  *)
(* that came meanwhile leaves them ahead of it.                            *)
LogInv ==
  /\ log \in Seq(Event)
  /\ job.status = StatusAfter(LastOf(log))
  /\ FailCount(log) <= job.retry_count
  /\ ~overtaken => job.retry_count = FailCount(log)
  /\ Busy => FailCount(log) <= loaded
  /\ Busy /\ ~overtaken => loaded = FailCount(log)

LEMMA LogTells == PlaceInv /\ LogInv => LogTellsStory
<1> SUFFICES ASSUME PlaceInv, LogInv PROVE LogTellsStory
  OBVIOUS
<1>1. FailCount(log) = LoggedFailures
  BY DEF FailCount, FailsSince, LoggedFailures, LastCall, CallAt
<1>2. FailCount(log) \in Nat /\ job.retry_count \in Nat
  BY CountAfter DEF LogInv, PlaceInv, RowOfJob, Event
<1>3. IF overtaken THEN job.retry_count >= LoggedFailures
                   ELSE job.retry_count = LoggedFailures
  BY <1>1, <1>2 DEF LogInv
<1> QED BY <1>3, Zenon DEF LogInv, LogTellsStory, StatusAfter, LastOf

(* Of each handler: what the events it adds make of the log.               *)
LEMMA OneEvent ==
  ASSUME log \in Seq(Event), NEW e \in Event, Log(<< e >>), e # "EXECUTION_FAILED"
  PROVE  /\ log' \in Seq(Event) /\ LastOf(log') = e
         /\ FailCount(log) \in Nat
         /\ FailCount(log') = IF e \in Calls THEN 0 ELSE FailCount(log)
<1>1. log' = Append(log, e)
  BY TwoEvents DEF Log
<1> QED BY <1>1, CountAfter

LEMMA MoreEvents ==
  ASSUME log \in Seq(Event), NEW d \in Event \ Calls, NEW e \in Event \ Calls,
         e # "EXECUTION_FAILED", Log(<< d, e >>)
  PROVE  /\ log' \in Seq(Event) /\ LastOf(log') = e
         /\ FailCount(log) \in Nat
         /\ FailCount(log') =
              IF d = "EXECUTION_FAILED" THEN FailCount(log) + 1 ELSE FailCount(log)
<1> DEFINE l == Append(log, d)
<1>1. log' = Append(l, e)
  BY TwoEvents DEF Log
<1>2. /\ l \in Seq(Event) /\ FailCount(log) \in Nat
      /\ FailCount(l) =
           IF d = "EXECUTION_FAILED" THEN FailCount(log) + 1 ELSE FailCount(log)
  BY CountAfter
<1> HIDE DEF l
<1>3. /\ Append(l, e) \in Seq(Event) /\ LastOf(Append(l, e)) = e
      /\ FailCount(Append(l, e)) = FailCount(l)
  BY <1>2, CountAfter
<1> QED BY <1>1, <1>2, <1>3

(* A step of the worker with one event, and no failure.                    *)
LEMMA WorkEvent ==
  ASSUME LogInv, NEW e \in Event \ Calls, e # "EXECUTION_FAILED", Log(<< e >>),
         job'.status = StatusAfter(e), job'.retry_count = job.retry_count,
         overtaken' = overtaken,
         Busy' => \/ Busy /\ loaded' = loaded
                  \/ loaded' = job.retry_count
  PROVE  LogInv'
<1>1. /\ log' \in Seq(Event) /\ LastOf(log') = e /\ FailCount(log') = FailCount(log)
  BY OneEvent DEF LogInv
<1> QED BY <1>1 DEF LogInv

LEMMA LogNext == PlaceInv /\ LogInv /\ [JobRunNext]_jobRunVars => LogInv'
<1> SUFFICES ASSUME PlaceInv, LogInv, [JobRunNext]_jobRunVars PROVE LogInv'
  OBVIOUS
<1>0. /\ log \in Seq(Event) /\ job \in RowOfJob /\ loaded \in Nat
      /\ FailCount(log) \in Nat
  <2>1. log \in Seq(Event) /\ "JOB_DEAD" \in Event
    BY DEF LogInv, Event
  <2> QED BY <2>1, CountAfter DEF PlaceInv
<1>1. CASE Create
  <2>1. /\ Log(<< "JOB_CREATED", "JOB_QUEUED" >>)
        /\ job'.status = "QUEUED" /\ job'.retry_count = job.retry_count
        /\ UNCHANGED << step, loaded, overtaken >>
    BY <1>0, <1>1 DEF Create, RowOfJob, historyVars, callVars
  <2>2. "JOB_CREATED" \in Event \ Calls /\ "JOB_QUEUED" \in Event \ Calls
    BY DEF Event, Calls
  <2>3. /\ log' \in Seq(Event) /\ LastOf(log') = "JOB_QUEUED"
        /\ FailCount(log') = FailCount(log)
    BY <1>0, <2>1, <2>2, MoreEvents
  <2>4. Busy' <=> Busy
    BY <2>1 DEF Busy
  <2>5. job'.status = StatusAfter(LastOf(log'))
    BY <2>1, <2>3, StatusOfEvents
  <2> QED BY <2>1, <2>3, <2>4, <2>5 DEF LogInv
<1>2. CASE Cancel
  <2>1. /\ Log(<< "JOB_CANCELLED" >>) /\ UNCHANGED << step, loaded, overtaken >>
        /\ job'.status = "CANCELLED" /\ job'.retry_count = job.retry_count
    BY <1>0, <1>2 DEF Cancel, RowOfJob, historyVars, callVars
  <2> QED BY <2>1, WorkEvent, StatusOfEvents DEF Event, Calls, Busy
<1>3. ASSUME NEW e \in Calls, QueueAgain(e) PROVE LogInv'
  <2>1. /\ Log(<< e >>) /\ loaded' = loaded /\ step' = step
        /\ job'.status = "QUEUED" /\ job'.retry_count = 0
        /\ overtaken' = Busy
    BY <1>0, <1>3 DEF QueueAgain, RowOfJob, Busy
  <2>2. e \in Event /\ e # "EXECUTION_FAILED" /\ StatusAfter(e) = "QUEUED"
    BY StatusOfEvents DEF Event, Calls
  <2>3. log' \in Seq(Event) /\ LastOf(log') = e /\ FailCount(log') = 0
    BY <1>0, <2>1, <2>2, OneEvent
  <2>4. Busy' <=> Busy
    BY <2>1 DEF Busy
  <2> QED BY <1>0, <2>1, <2>2, <2>3, <2>4 DEF LogInv
<1>4. CASE Retry \/ Requeue
  BY <1>3, <1>4 DEF Retry, Requeue, Calls
<1>5. CASE Assign
  <2>1. /\ Log(<< "WORKER_ASSIGNED" >>) /\ overtaken' = overtaken
        /\ job'.status = "ASSIGNED" /\ job'.retry_count = job.retry_count
        /\ loaded' = job.retry_count
    BY <1>0, <1>5 DEF Assign, RowOfJob, historyVars, callVars
  <2> QED BY <2>1, WorkEvent, StatusOfEvents DEF Event, Calls
<1>6. CASE StartRun
  <2>1. /\ Log(<< "EXECUTION_STARTED" >>) /\ UNCHANGED << loaded, overtaken >> /\ Busy
        /\ job'.status = "RUNNING" /\ job'.retry_count = job.retry_count
    BY <1>0, <1>6 DEF StartRun, RowOfJob, historyVars, callVars, Busy
  <2> QED BY <2>1, WorkEvent, StatusOfEvents DEF Event, Calls
<1>7. CASE Delivered \/ Returned
  <2>1. /\ Log(<< "EXECUTION_COMPLETED" >>) /\ overtaken' = overtaken /\ ~Busy'
        /\ job'.status = "COMPLETED" /\ job'.retry_count = job.retry_count
    BY <1>0, <1>7 DEF Delivered, Returned, Finish, RowOfJob, historyVars, callVars, Busy
  <2> QED BY <2>1, WorkEvent, StatusOfEvents DEF Event, Calls
<1>8. CASE Fail
  <2>1. /\ job'.retry_count = loaded + 1 /\ overtaken' = overtaken /\ Busy /\ ~Busy'
    BY <1>0, <1>8 DEF Fail, RowOfJob, callVars, Busy
  <2>2. PICK e \in {"JOB_RETRYING", "JOB_DEAD"} :
           Log(<< "EXECUTION_FAILED", e >>) /\ job'.status = StatusAfter(e)
    BY <1>0, <1>8, StatusOfEvents DEF Fail, RowOfJob
  <2>3. /\ log' \in Seq(Event) /\ LastOf(log') = e /\ FailCount(log') = FailCount(log) + 1
    BY <1>0, <2>2, MoreEvents DEF Event, Calls
  <2> QED BY <1>0, <2>1, <2>2, <2>3 DEF LogInv
<1>9. CASE Skip \/ Send \/ DieInFailure \/ Crash \/ UNCHANGED runVars
  <2>1. UNCHANGED << log, job, overtaken, loaded >> /\ (Busy' => Busy)
    BY <1>9 DEF Skip, Send, Mailed, DieInFailure, Crash, runVars, historyVars, callVars,
                Busy
  <2> QED BY <2>1 DEF LogInv
<1> QED BY <1>1, <1>2, <1>4, <1>5, <1>6, <1>7, <1>8, <1>9
        DEF JobRunNext, Work, jobRunVars

LEMMA LogCorrect == JobRunSpec => []LogInv
<1>1. RunInit => LogInv
  <2> SUFFICES ASSUME RunInit PROVE LogInv
    OBVIOUS
  <2>1. log = << >> /\ job.status = "ABSENT" /\ job.retry_count = 0 /\ ~Busy
    BY DEF RunInit, Busy
  <2>2. FailsSince(log) = {} /\ LastOf(log) = "none" /\ log \in Seq(Event)
    BY <2>1 DEF FailsSince, LastOf
  <2>3. FailCount(log) = 0 /\ job.status = StatusAfter(LastOf(log))
    BY <2>1, <2>2, FS_EmptySet, StatusOfEvents DEF FailCount
  <2> QED BY <2>1, <2>2, <2>3 DEF LogInv
<1>2. CountInv => PlaceInv
  BY DEF CountInv
<1> QED BY <1>1, <1>2, CountCorrect, LogNext, PTL DEF JobRunSpec

(* The log of a job is enough to tell its status and, unless a requeue     *)
(* overtakes an execution, its retries (add_job_log in the transaction of  *)
(* every change).                                                          *)
THEOREM LogIsComplete == JobRunSpec => []LogTellsStory
<1>1. CountInv => PlaceInv
  BY DEF CountInv
<1> QED BY <1>1, CountCorrect, LogTells, LogCorrect, PTL

-----------------------------------------------------------------------------
(* Types.                                                                  *)

(* The bound of the failures: each retry by hand grants as many again.     *)
LEMMA RoundsBound ==
  ASSUME NEW m \in Nat, NEW n \in 0..m
  PROVE  Rounds(n) <= Rounds(m)
<1>1. ASSUME NEW a \in Nat, NEW b \in Nat, NEW x \in Nat
      PROVE  /\ a * x \in Nat /\ b * x \in Nat
             /\ (a + b) * x = a * x + b * x
  OBVIOUS
<1>2. n \in Nat /\ m - n \in Nat /\ n + (m - n) = m /\ MaxRetries + 1 \in Nat
  BY Limits
<1>3. Rounds(m) = Rounds(n) + Rounds(m - n)
  <2> DEFINE d == m - n
             x == MaxRetries + 1
  <2>1. d \in Nat /\ x \in Nat /\ n + d = m
    BY <1>2
  <2>2. Rounds(m) = m * x /\ Rounds(n) = n * x /\ Rounds(m - n) = d * x
    BY DEF Rounds
  <2> HIDE DEF d, x
  <2>3. (n + d) * x = n * x + d * x
    BY <1>1, <1>2, <2>1
  <2> QED BY <2>1, <2>2, <2>3
<1>4. Rounds(n) \in Nat /\ Rounds(m - n) \in Nat
  BY <1>2, RoundsGrow
<1> QED BY <1>3, <1>4

(* What is stored of a request.                                            *)
TaskInv == task \in [ type : Types, payload : SUBSET Keys ] \cup {NoPost}

LEMMA TaskCorrect == JobRunSpec => []TaskInv
<1>1. RunInit => TaskInv
  BY DEF RunInit, TaskInv
<1>2. FormInv /\ TaskInv /\ [JobRunNext]_jobRunVars => TaskInv'
  <2> SUFFICES ASSUME FormInv, TaskInv, [JobRunNext]_jobRunVars PROVE TaskInv'
    OBVIOUS
  <2>1. CASE Create
    <3>1. request \in Post
      BY <2>1 DEF Create, FormInv, SubmitTypeOK
    <3> QED BY <2>1, <3>1 DEF Create, Post, TaskInv
  <2>2. CASE task' = task
    BY <2>2 DEF TaskInv
  <2>3. Create \/ task' = task
    BY DEF JobRunNext, jobRunVars, runVars, Cancel, Retry, Requeue, QueueAgain, Work, Skip,
           Assign, StartRun, Send, Mailed, Delivered, Returned, Finish, Fail,
           DieInFailure, Crash
  <2> QED BY <2>1, <2>2, <2>3
<1> QED BY <1>1, <1>2, FormCorrect, PTL DEF JobRunSpec

LEMMA RunTypes == CountInv /\ MailInv /\ DelayInv /\ TaskInv => RunTypeOK
<1> SUFFICES ASSUME CountInv, MailInv, DelayInv, TaskInv PROVE RunTypeOK
  OBVIOUS
<1> DEFINE calls == retries + requeues + 1
           most == ManualRetries + Requeues + 1
<1>1. /\ retries \in 0..ManualRetries /\ requeues \in 0..Requeues
      /\ failures \in Nat /\ failures <= Rounds(calls)
  BY DEF CountInv, PlaceInv, CeilingInv
<1>2. most \in Nat /\ calls \in 0..most
  BY <1>1, Limits
<1>3. Rounds(calls) <= Rounds(most) /\ Rounds(most) \in Nat /\ Rounds(calls) \in Nat
  <2> HIDE DEF calls, most
  <2>1. calls \in Nat
    BY <1>2
  <2> QED BY <1>2, <2>1, RoundsBound, RoundsGrow
<1>4. failures \in 0..Rounds(most)
  <2> HIDE DEF calls, most
  <2> QED BY <1>1, <1>3
<1>5. failures \in 0..((ManualRetries + Requeues + 1) * (MaxRetries + 1))
  BY <1>4 DEF Rounds
<1> HIDE DEF calls, most
<1> QED BY <1>5 DEF RunTypeOK, CountInv, PlaceInv, RowOfJob, MailInv, DelayInv, TaskInv

(* A finite set of job numbers has a newest: the one with the fewest after *)
(* it.                                                                     *)
LEMMA NewestExists ==
  ASSUME NEW T \in SUBSET Nat, IsFiniteSet(T), T # {}
  PROVE  Newest(T) \in T
<1> DEFINE after(j) == { k \in T : k > j }
           sizes == { Cardinality(after(j)) : j \in T }
<1>1. \A j \in T : IsFiniteSet(after(j)) /\ Cardinality(after(j)) \in Nat
  BY FS_Subset, FS_CardinalityType
<1>2. sizes \in SUBSET Nat /\ sizes # {}
  BY <1>1
<1>3. PICK n \in sizes : \A m \in sizes : n <= m
  <2> HIDE DEF sizes
  <2> QED BY <1>2, LeastNatural
<1>4. PICK j \in T : n = Cardinality(after(j))
  OBVIOUS
<1>5. \A k \in T : k <= j
  <2> SUFFICES ASSUME NEW k \in T, k > j PROVE FALSE
    OBVIOUS
  <2>1. after(k) \in SUBSET after(j) /\ k \in after(j) /\ k \notin after(k)
    <3>1. j \in Nat /\ k \in Nat /\ k > j /\ ~(k > k)
      OBVIOUS
    <3>2. \A i \in T : i > k => i > j
      BY <3>1
    <3> QED BY <3>1, <3>2
  <2>2. Cardinality(after(j)) <= Cardinality(after(k))
    BY <1>3, <1>4
  <2>3. /\ IsFiniteSet(after(j)) /\ Cardinality(after(j)) \in Nat
        /\ Cardinality(after(k)) \in Nat
    BY <1>1
  <2> HIDE DEF after
  <2>4. Cardinality(after(j)) = Cardinality(after(k))
    BY <2>1, <2>2, <2>3, FS_Subset
  <2> QED BY <2>1, <2>3, <2>4, FS_Subset
<1> QED BY <1>5 DEF Newest

(* The choice of My Jobs is among the options that are shown, and there    *)
(* are some: rows never go.                                                *)
ChoiceInv ==
  /\ page \notin {"mine", "acting"} => filter = {}
  /\ page \in {"mine", "acting"} =>
       selected \in Options(list, filter) /\ Table!Listed # {}

PageInv == PagesTypeOK /\ ChoiceInv

LEMMA OptionsAreRows ==
  ASSUME NEW l, NEW f
  PROVE  /\ Options(l, f) \subseteq { j \in Jobs : l[j] # "ABSENT" }
         /\ { j \in Jobs : l[j] # "ABSENT" } # {} => Options(l, f) # {}
BY DEF Options

(* One run of the script keeps the widgets as they should be.              *)
LEMMA RerunTypes ==
  ASSUME IsFiniteSet(Jobs), PageInv, Table!Listed # {},
         NEW chosen \in SUBSET Present(list), NEW picked \in Options(list, filter),
         Rerun(chosen, picked)
  PROVE  /\ list' \in [ Jobs -> Shown ] /\ filter' \subseteq Present(list')
         /\ selected' \in Options(list', filter')
<1>1. list' = status /\ list' \in [ Jobs -> Shown ]
  BY DEF Rerun, PageInv, PagesTypeOK
<1>2. filter' \subseteq Present(list')
  BY DEF Rerun
<1>3. /\ Options(list', filter') # {} /\ Options(list', filter') \in SUBSET Jobs
  BY <1>1, OptionsAreRows DEF Table!Listed
<1>4. Newest(Options(list', filter')) \in Options(list', filter')
  <2>1. IsFiniteSet(Options(list', filter')) /\ Options(list', filter') \in SUBSET Nat
    BY <1>3, FS_Subset, PlatformAssumption
  <2> QED BY <1>3, <2>1, NewestExists
<1> QED BY <1>1, <1>2, <1>4 DEF Rerun

LEMMA PageStart == IsFiniteSet(Jobs) /\ PagesInit => PageInv
<1> SUFFICES ASSUME IsFiniteSet(Jobs), PagesInit PROVE PageInv
  OBVIOUS
<1>1. Cardinality(Jobs) \in Nat
  BY FS_CardinalityType
<1> QED BY <1>1 DEF PagesInit, Table!TableInit, PageInv, PagesTypeOK, ChoiceInv,
             Shown, NoRequest

LEMMA TablesTypes ==
  ASSUME IsFiniteSet(Jobs), PageInv, Table!TableNext, UNCHANGED pageVars
  PROVE  PageInv'
<1>1. status' \in [ Jobs -> Shown ]
  BY ListedGrows DEF PageInv, PagesTypeOK
<1>2. dead' \subseteq Jobs
  BY DEF PageInv, PagesTypeOK, Table!TableNext, Table!Appear, Table!Change,
         Table!Bury, Table!Exhume, Table!Listed
<1>3. Table!Listed \subseteq Table!Listed'
  BY DEF PageInv, PagesTypeOK, Table!TableNext, Table!Appear, Table!Change,
         Table!Bury, Table!Exhume, Table!Listed, Table!Stored, Shown
<1> QED BY <1>1, <1>2, <1>3
        DEF PageInv, PagesTypeOK, ChoiceInv, pageVars, widgetVars, countVars

(* The pages that list jobs and act on them.                               *)
LEMMA MineTypes ==
  ASSUME IsFiniteSet(Jobs), PageInv, UNCHANGED << status, dead >>,
         \/ OpenMine \/ ChooseFilter \/ Pick \/ Refresh
         \/ Click("cancel") \/ Click("retry") \/ Succeed \/ Refused
  PROVE  PageInv'
<1>1. /\ status \in [ Jobs -> Shown ] /\ dead \subseteq Jobs
      /\ status' = status /\ dead' = dead /\ Table!Listed' = Table!Listed
  BY DEF PageInv, PagesTypeOK, Table!Listed
<1>2. ASSUME page' \in {"mine", "acting"}, Table!Listed # {},
             list' \in [ Jobs -> Shown ], filter' \subseteq Present(list'),
             selected' \in Options(list', filter'),
             sent' \in Request \cup {NoRequest}, UNCHANGED << entries, countVars >>
      PROVE  PageInv'
  <2>1. selected' \in Jobs /\ list'[selected'] # "ABSENT"
    BY <1>2, OptionsAreRows
  <2> QED BY <1>1, <1>2, <2>1
          DEF PageInv, PagesTypeOK, ChoiceInv, Present, countVars
<1>3. sent \in Request \cup {NoRequest}
  BY DEF PageInv, PagesTypeOK
<1>4. ASSUME page \in {"mine", "acting"}
      PROVE  /\ Table!Listed # {} /\ selected \in Options(list, filter)
             /\ filter \in SUBSET Present(list) /\ selected \in Jobs
             /\ list \in [ Jobs -> Shown ]
  BY <1>4 DEF PageInv, PagesTypeOK, ChoiceInv, Present
<1>5. CASE OpenMine
  <2>1. /\ Table!Listed # {} /\ page' = "mine" /\ list' = status /\ filter' = {}
        /\ selected' = Newest(Table!Listed) /\ sent' = sent
        /\ UNCHANGED << entries, countVars >>
    BY <1>5 DEF OpenMine
  <2>2. Options(list', filter') = Table!Listed
    BY <2>1 DEF Options, Table!Listed
  <2>3. Table!Listed \in SUBSET Nat /\ IsFiniteSet(Table!Listed)
    BY FS_Subset, PlatformAssumption DEF Table!Listed
  <2>4. selected' \in Table!Listed
    BY <2>1, <2>3, NewestExists
  <2> QED BY <1>1, <1>2, <1>3, <2>1, <2>2, <2>4
<1>6. ASSUME page \in {"mine", "acting"}, page' \in {"mine", "acting"},
             NEW chosen \in SUBSET Present(list), NEW picked \in Options(list, filter),
             Rerun(chosen, picked), sent' \in Request \cup {NoRequest},
             UNCHANGED << entries, countVars >>
      PROVE  PageInv'
  <2>1. /\ list' \in [ Jobs -> Shown ] /\ filter' \subseteq Present(list')
        /\ selected' \in Options(list', filter') /\ Table!Listed # {}
    BY <1>4, <1>6, RerunTypes
  <2> QED BY <1>2, <1>6, <2>1
<1>7. CASE ChooseFilter
  <2>1. PICK chosen \in SUBSET Present(list) : Rerun(chosen, selected)
    BY <1>7 DEF ChooseFilter
  <2> QED BY <1>3, <1>4, <1>6, <1>7, <2>1 DEF ChooseFilter
<1>8. CASE Pick
  <2>1. PICK picked \in Options(list, filter) : Rerun(filter, picked)
    BY <1>8 DEF Pick
  <2> QED BY <1>3, <1>4, <1>6, <1>8, <2>1 DEF Pick
<1>9. CASE Refresh
  BY <1>3, <1>4, <1>6, <1>9 DEF Refresh
<1>10. ASSUME NEW verb \in {"cancel", "retry"}, Click(verb) PROVE PageInv'
  <2>1. /\ page = "mine" /\ Rerun(filter, selected) /\ page' \in {"mine", "acting"}
        /\ UNCHANGED << entries, countVars >>
    BY <1>10 DEF Click
  <2>2. selected' \in Jobs
    <3>1. selected' \in Options(list', filter')
      BY <1>4, <2>1, RerunTypes
    <3> QED BY <3>1, OptionsAreRows
  <2>3. sent' \in Request \cup {NoRequest}
    BY <1>3, <1>4, <1>10, <2>1, <2>2 DEF Click, Request
  <2> QED BY <1>4, <1>6, <2>1, <2>3
<1>11. CASE Succeed
  BY <1>4, <1>6, <1>11 DEF Succeed
<1>12. CASE Refused
  BY <1>2, <1>4, <1>12 DEF Refused
<1> QED BY <1>5, <1>7, <1>8, <1>9, <1>10, <1>11, <1>12

(* The others.                                                             *)
LEMMA OtherTypes ==
  ASSUME IsFiniteSet(Jobs), PageInv, UNCHANGED << status, dead >>,
         \/ OpenDlq \/ ClickRequeue \/ OpenDashboard
         \/ OpenOverview \/ CountRows \/ DrawOverview \/ Close
  PROVE  PageInv'
<1> USE DEF PageInv, PagesTypeOK, ChoiceInv
<1>1. CASE OpenDlq
  BY <1>1 DEF OpenDlq, countVars
<1>2. CASE ClickRequeue
  <2>1. /\ page' = "dlq" /\ entries' \subseteq Jobs
        /\ UNCHANGED << list, filter, selected, countVars >> /\ filter = {}
    BY <1>2 DEF ClickRequeue
  <2>2. sent' \in Request \cup {NoRequest}
    BY <1>2 DEF ClickRequeue, Request
  <2> QED BY <2>1, <2>2 DEF countVars
<1>3. CASE OpenDashboard
  BY <1>3 DEF OpenDashboard, countVars
<1>4. ASSUME NEW T \in SUBSET Jobs PROVE Cardinality(T) \in 0..Cardinality(Jobs)
  <2>1. /\ Cardinality(T) \in Nat /\ Cardinality(Jobs) \in Nat
        /\ Cardinality(T) <= Cardinality(Jobs)
    BY FS_Subset, FS_CardinalityType
  <2> QED BY <2>1
<1>5. CASE OpenOverview
  BY <1>5 DEF OpenOverview, widgetVars, countVars
<1>6. CASE CountRows
  <2>1. counted' \in 1..6 /\ counted' \in 0..6
    BY <1>6 DEF CountRows
  <2>2. PICK rows \in Counted[counted'] : counts' = counts \cup {Cardinality(rows)}
    BY <1>6 DEF CountRows
  <2>3. Cardinality(rows) \in 0..Cardinality(Jobs)
    <3>1. Table!Listed \in SUBSET Jobs
      BY DEF Table!Listed
    <3>2. /\ Cardinality(rows) \in Nat /\ Cardinality(Table!Listed) \in 0..Cardinality(Jobs)
          /\ Cardinality(rows) <= Cardinality(Table!Listed)
      BY <1>4, <2>1, <3>1, CountedAreListed
    <3>3. Cardinality(Jobs) \in Nat
      BY FS_CardinalityType
    <3> QED BY <3>2, <3>3
  <2>4. counts' \subseteq 0..Cardinality(Jobs)
    BY <2>2, <2>3
  <2> QED BY <1>6, <2>1, <2>4 DEF CountRows, widgetVars
<1>7. CASE DrawOverview
  BY <1>7 DEF DrawOverview, countVars
<1>8. CASE Close
  <2>1. Cardinality(Jobs) \in Nat
    BY FS_CardinalityType
  <2> QED BY <1>8, <2>1 DEF Close, Shown
<1> QED BY <1>1, <1>2, <1>3, <1>5, <1>6, <1>7, <1>8

LEMMA PageNext == IsFiniteSet(Jobs) /\ PageInv /\ [PagesNext]_pagesVars => PageInv'
<1> SUFFICES ASSUME IsFiniteSet(Jobs), PageInv, [PagesNext]_pagesVars PROVE PageInv'
  OBVIOUS
<1>1. CASE UNCHANGED pagesVars
  BY <1>1 DEF pagesVars, pageVars, widgetVars, countVars, PageInv, PagesTypeOK,
              ChoiceInv, Table!Listed
<1> QED BY <1>1, MineTypes, OtherTypes, TablesTypes DEF PagesNext, Browse

-----------------------------------------------------------------------------
(* The parts together.                                                     *)

LEMMA Parts == Spec => AccountsSpec /\ PagesSpec /\ JobRunSpec /\ ResumeSpec
<1>1. Init => AccountsInit /\ PagesInit /\ RunInit /\ ResumeInit
  BY DEF Init
<1>2. [Next]_vars =>
        /\ [AccountsNext]_accountsVars /\ [PagesNext]_pagesVars
        /\ [JobRunNext]_jobRunVars /\ [Extend]_resume
  BY DEF Next, vars
<1> QED BY <1>1, <1>2, PTL DEF Spec, AccountsSpec, PagesSpec, JobRunSpec, ResumeSpec

(* Every variable of every part has its type: the failures of a job never  *)
(* exceed what its retries allow, a job that is selected is in the list of *)
(* the page, and no count of the pages exceeds the jobs.                   *)
THEOREM TypeCorrect ==
  ASSUME IsFiniteSet(Jobs)
  PROVE  Spec => []TypeOK
<1>1. JobRunSpec => []RunTypeOK
  BY RunTypes, CountCorrect, MailCorrect, DelayCorrect, TaskCorrect, PTL
<1>2. JobRunSpec => []SubmitTypeOK
  <2>1. FormInv => SubmitTypeOK
    BY DEF FormInv
  <2> QED BY <2>1, FormCorrect, PTL
<1>3. ResumeSpec => []ResumeTypeOK
  <2>1. ResumeInit => ResumeTypeOK
    BY DEF ResumeInit, ResumeTypeOK
  <2> QED BY <2>1, ResumeTypeNext, PTL DEF ResumeSpec
<1>4. PagesSpec => []PagesTypeOK
  <2>1. PagesInit => PageInv
    BY PageStart
  <2>2. PageInv /\ [PagesNext]_pagesVars => PageInv'
    BY PageNext
  <2>3. PageInv => PagesTypeOK
    BY DEF PageInv
  <2> QED BY <2>1, <2>2, <2>3, PTL DEF PagesSpec
<1>5. AccountsTypeOK /\ ResumeTypeOK /\ PagesTypeOK /\ SubmitTypeOK /\ RunTypeOK
        => TypeOK
  BY DEF TypeOK
<1> QED BY <1>1, <1>2, <1>3, <1>4, <1>5, Parts, AccountsTypeCorrect, PTL

=============================================================================
