---------------------------- MODULE ResumeScore -----------------------------
(***************************************************************************)
(* What ResumeAnalysisExecutor computes (app/executor/resume_analysis.py). *)
(* A resume is the words, the claims "<n> years" and the degrees in it;    *)
(* the patterns that find them are left out, but for two of their effects: *)
(* a keyword is found inside a longer word, and only the last two digits   *)
(* of a number are read.                                                   *)
(***************************************************************************)
EXTENDS Naturals, FiniteSets, FiniteSetsExt

CONSTANTS
  Words,      (* Words of resumes.                                         *)
  Keywords,   (* SKILL_KEYWORDS.                                           *)
  Inside,     (* The pairs << keyword, word >> with "keyword in word".     *)
  Claims,     (* Numbers of years people claim.                            *)
  Degrees     (* What EDUCATION_PATTERNS match.                            *)

ASSUME ResumeAssumption ==
  /\ Inside \subseteq Keywords \X Words
  /\ Claims \subseteq Nat

VARIABLE resume  (* The text of the job's payload.                          *)

ResumeTypeOK ==
  resume \in [ words : SUBSET Words, claims : SUBSET Claims,
                degrees : SUBSET Degrees ]

Skills(r) ==
  { k \in Keywords : \E w \in r.words : << k, w >> \in Inside }

(* (\d{1,2})\+?\s*(?:years|yrs), with findall.                             *)
Read(claim) == claim % 100

(* Fault: the first match for the largest.                                 *)
AnyYears(r) == IF r.claims = {} THEN 0 ELSE Read(Max(r.claims))

ExperienceYears(r) == Max({0} \cup { Read(n) : n \in r.claims })

Score(r) ==
  Min({ 100, 5 * Cardinality(Skills(r)) + 4 * ExperienceYears(r)
               + 3 * Cardinality(r.degrees) })

-----------------------------------------------------------------------------
(* An applicant adds to the resume and submits it again.                   *)

ResumeInit == resume = [ words |-> {}, claims |-> {}, degrees |-> {} ]

Extend ==
  \/ \E w \in Words : resume' = [ resume EXCEPT !.words = @ \cup {w} ]
  \/ \E n \in Claims : resume' = [ resume EXCEPT !.claims = @ \cup {n} ]
  \/ \E d \in Degrees : resume' = [ resume EXCEPT !.degrees = @ \cup {d} ]

ResumeSpec == ResumeInit /\ [][Extend]_resume

(* A resume that says more scores no less: in words, although one word may *)
(* hold several keywords and several words the same, in years, although    *)
(* large numbers are cut, and at the limit of 100.                         *)
MoreScoresNoLess == [][ Score(resume) <= Score(resume') ]_resume

=============================================================================
