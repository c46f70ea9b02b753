------------------------------ MODULE JobPages ------------------------------
(***************************************************************************)
(* The pages of the two dashboards that show jobs (dashboard/user_app.py,  *)
(* dashboard/admin_app.py) over the jobs table and the DLQ, which change   *)
(* while a page is looked at: JobTable says how.                           *)
(*                                                                         *)
(* A page is a script.  Streamlit runs it from the top when it is opened   *)
(* and at every click; each run fetches the list anew and draws the        *)
(* widgets.  A widget's value belongs to an id made of the widget's        *)
(* arguments: when the options of a select box or the help of a button     *)
(* are others than in the run before, it is another widget, with its       *)
(* default value, and a click on the old one is lost.  "disabled" is not   *)
(* part of the id.                                                         *)
(*                                                                         *)
(*   none       no page of these                                           *)
(*   mine       My Jobs of the user dashboard                              *)
(*   acting     My Jobs, with a DELETE or a POST under way                 *)
(*   dlq        Dead Letter Queue of the admin dashboard                   *)
(*   cards      Dashboard of the user dashboard                            *)
(*   counting   Overview, in GET /metrics                                  *)
(*   overview   ... and the page is drawn, with a list of its own          *)
(*                                                                         *)
(* Job ids are numbered by created_at; all jobs are the user's.  The       *)
(* filter by type works as the filter by status, and is left out.          *)
(***************************************************************************)
EXTENDS Naturals, FiniteSets

CONSTANTS
  Jobs,   (* 1 .. the number of jobs.                                      *)
  None

VARIABLES
  status, dead,  (* Of JobTable.                                           *)
  page,
  list,          (* GET /jobs, as the page has it.                         *)
  filter,        (* "Filter by status".                                    *)
  selected,      (* "Select a job".                                        *)
  entries,       (* GET /dlq, as the page has it.                          *)
  sent,          (* History: the request of the last click, if any.        *)
  counted,       (* How many SELECTs of GET /metrics have been executed.   *)
  counts         (* What they counted, as a set.                           *)

Table == INSTANCE JobTable

widgetVars == << list, filter, selected, entries, sent >>
countVars == << counted, counts >>
pageVars == << page, widgetVars, countVars >>
pagesVars == << status, dead, pageVars >>

Shown == Table!Stored \cup {"ABSENT"}

(* A click on a button that stood beside one job, and the job the request  *)
(* names; "still" if the two runs of the script fetched the same list.     *)
Request == [ verb : {"cancel", "retry", "requeue"}, shown : Jobs, job : Jobs,
             list : {"still", "moved"} ]

NoRequest == [ verb |-> "none" ]

PagesTypeOK ==
  /\ status \in [ Jobs -> Shown ]
  /\ dead \subseteq Jobs
  /\ page \in {"none", "mine", "acting", "dlq", "cards", "counting", "overview"}
  /\ list \in [ Jobs -> Shown ]
  /\ filter \subseteq { list[j] : j \in Jobs } \ {"ABSENT"}
  /\ selected \in Jobs \cup {None}
  /\ page \in {"mine", "acting"} => selected \in Jobs /\ list[selected] # "ABSENT"
  /\ entries \subseteq Jobs
  /\ sent \in Request \cup {NoRequest}
  /\ counted \in 0..6
  /\ counts \subseteq 0..Cardinality(Jobs)

PagesInit ==
  /\ Table!TableInit
  /\ page = "none"
  /\ list = status
  /\ filter = {}
  /\ selected = None
  /\ entries = {}
  /\ sent = NoRequest
  /\ counted = 0 /\ counts = {}

-----------------------------------------------------------------------------
(* My Jobs.                                                                *)

(* The options of the filter: the statuses in the list.                    *)
Present(l) == { l[j] : j \in Jobs } \ {"ABSENT"}

(* The options of the select box: the jobs that pass the filter, newest    *)
(* first, or all of them if none does.                                     *)
Options(l, f) ==
  LET rows == { j \in Jobs : l[j] # "ABSENT" }
      passing == { j \in rows : f = {} \/ l[j] \in f }
  IN  IF passing = {} THEN rows ELSE passing

Newest(options) == CHOOSE j \in options : \A k \in options : k <= j

(* Fault: a choice lasts for one run.                                      *)
RerunForgetful(chosen, picked) ==
  /\ list' = status
  /\ filter' = IF Present(list') = Present(list) THEN chosen ELSE {}
  /\ selected' = IF /\ Options(list', filter') = Options(list, filter)
                    /\ picked # selected
                 THEN picked ELSE Newest(Options(list', filter'))

(* Fault: the filter is kept by a key, and no longer fits its options.     *)
RerunStale(chosen, picked) ==
  /\ list' = status
  /\ filter' = chosen
  /\ selected' = IF Options(list', filter') = Options(list, filter)
                 THEN picked ELSE Newest(Options(list', filter'))

(* One run of the script, after the user chose a filter or picked a job.   *)
Rerun(chosen, picked) ==
  /\ list' = status
  /\ filter' = IF Present(list') = Present(list) THEN chosen ELSE {}
  /\ selected' = IF Options(list', filter') = Options(list, filter)
                 THEN picked ELSE Newest(Options(list', filter'))

(* The first run; without a job there is nothing to click.                 *)
OpenMine ==
  /\ page = "none"
  /\ Table!Listed # {}
  /\ page' = "mine"
  /\ list' = status
  /\ filter' = {}
  /\ selected' = Newest(Table!Listed)
  /\ UNCHANGED << entries, sent, countVars >>

ChooseFilter ==
  /\ page = "mine"
  /\ \E chosen \in SUBSET Present(list) : Rerun(chosen, selected)
  /\ UNCHANGED << page, entries, sent, countVars >>

Pick ==
  /\ page = "mine"
  /\ \E picked \in Options(list, filter) : Rerun(filter, picked)
  /\ UNCHANGED << page, entries, sent, countVars >>

Refresh ==
  /\ page = "mine"
  /\ Rerun(filter, selected)
  /\ UNCHANGED << page, entries, sent, countVars >>

(* The buttons' "disabled", and their help with it.                        *)
Can(verb, s) == CASE verb = "cancel" -> s = "QUEUED"
                  [] verb = "retry" -> s \in {"FAILED", "DEAD"}

(* The click runs the script; the button is the same if it has the same    *)
(* help, and acts on the job that is selected by then.                     *)
Click(verb) ==
  /\ page = "mine"
  /\ Can(verb, list[selected])
  /\ Rerun(filter, selected)
  /\ IF Can(verb, list'[selected'])
     THEN /\ page' = "acting"
          /\ sent' = [ verb |-> verb, shown |-> selected, job |-> selected',
                       list |-> IF list' = list THEN "still" ELSE "moved" ]
     ELSE UNCHANGED << page, sent >>
  /\ UNCHANGED << entries, countVars >>

(* st.rerun after a success.                                               *)
Succeed ==
  /\ page = "acting"
  /\ page' = "mine"
  /\ Rerun(filter, selected)
  /\ sent' = NoRequest
  /\ UNCHANGED << entries, countVars >>

(* An error is shown under the list of this run.                           *)
Refused ==
  /\ page = "acting"
  /\ page' = "mine"
  /\ sent' = NoRequest
  /\ UNCHANGED << list, filter, selected, entries, countVars >>

-----------------------------------------------------------------------------
(* Dead Letter Queue: a button per entry, with the job id as its key.      *)

OpenDlq ==
  /\ page \in {"none", "dlq"}
  /\ page' = "dlq"
  /\ entries' = dead
  /\ sent' = NoRequest
  /\ UNCHANGED << list, filter, selected, countVars >>

(* The click is lost if the list, fetched anew, no longer has the entry.   *)
ClickRequeue ==
  /\ page = "dlq"
  /\ entries' = dead
  /\ \E j \in entries :
       sent' = IF j \in entries'
               THEN [ verb |-> "requeue", shown |-> j, job |-> j,
                      list |-> IF entries' = entries THEN "still" ELSE "moved" ]
               ELSE NoRequest
  /\ UNCHANGED << page, list, filter, selected, countVars >>

-----------------------------------------------------------------------------
(* Dashboard: one list, and the cards over it.                             *)

OpenDashboard ==
  /\ page \in {"none", "cards"}
  /\ page' = "cards"
  /\ list' = status
  /\ UNCHANGED << filter, selected, entries, sent, countVars >>

(* Fault: a job that waits for its retry is in no card.                    *)
ActiveNow == {"RUNNING", "ASSIGNED"}

Active == {"RUNNING", "ASSIGNED", "RETRYING"}

NeedsAttention == {"FAILED", "DEAD"}

(* Overview.                                                               *)

OpenOverview ==
  /\ page = "none"
  /\ page' = "counting"
  /\ UNCHANGED << widgetVars, countVars >>

HavingStatus(s) == { j \in Jobs : status[j] = s }

(* The rows that GET /metrics counts: total, running, completed, failed,   *)
(* retried, and those of the last minute.  retry_count and created_at are  *)
(* not in JobTable: any rows may be of the last two.                       *)
Counted ==
  << {Table!Listed}, {HavingStatus("RUNNING")}, {HavingStatus("COMPLETED")},
     {HavingStatus("FAILED")}, SUBSET Table!Listed, SUBSET Table!Listed >>

(* Each count is a SELECT of its own; they have no snapshot in common.     *)
CountRows ==
  /\ page = "counting" /\ counted < 6
  /\ counted' = counted + 1
  /\ \E rows \in Counted[counted'] : counts' = counts \cup {Cardinality(rows)}
  /\ UNCHANGED << page, widgetVars >>

(* Fault: the list the page had before (st.cache_data).                    *)
DrawCached ==
  /\ page = "counting" /\ counted = 6
  /\ page' = "overview"
  /\ UNCHANGED << widgetVars, countVars >>

(* GET /admin/jobs, for the chart and the table under the cards.           *)
DrawOverview ==
  /\ page = "counting" /\ counted = 6
  /\ page' = "overview"
  /\ list' = status
  /\ UNCHANGED << filter, selected, entries, sent, countVars >>

(* Another page, or an error of the API, which stops the script.           *)
Close ==
  /\ page # "none"
  /\ page' = "none"
  /\ list' = [ j \in Jobs |-> "ABSENT" ]
  /\ filter' = {} /\ selected' = None /\ entries' = {} /\ sent' = NoRequest
  /\ counted' = 0 /\ counts' = {}

Browse ==
  \/ OpenMine \/ ChooseFilter \/ Pick \/ Refresh
  \/ Click("cancel") \/ Click("retry") \/ Succeed \/ Refused
  \/ OpenDlq \/ ClickRequeue
  \/ OpenDashboard
  \/ OpenOverview \/ CountRows \/ DrawOverview
  \/ Close

PagesNext ==
  \/ Browse /\ UNCHANGED << status, dead >>
  \/ Table!TableNext /\ UNCHANGED pageVars

PagesSpec == PagesInit /\ [][PagesNext]_pagesVars

-----------------------------------------------------------------------------
Count(statuses) == Cardinality({ j \in Jobs : list[j] \in statuses })

Rows(l) == { j \in Jobs : l[j] # "ABSENT" }

(* A click on Cancel or Retry takes the job shown, if the list has not     *)
(* changed since: no run of the script loses the choice by itself.         *)
StillClickHitsShown ==
  sent # NoRequest => (sent.list = "still" => sent.shown = sent.job)

(* The cards of the user's Dashboard add up to its total, but for the      *)
(* cancelled jobs: every other status a session commits is in one card.    *)
CardsAddUp ==
  page = "cards" =>
    Cardinality(Rows(list)) =
      Count({"COMPLETED"}) + Count(Active) + Count({"QUEUED"})
        + Count(NeedsAttention) + Count({"CANCELLED"})

(* The counts of the Overview are of different times, and bound each other *)
(* in no way: a job may be counted as running and as completed, and more   *)
(* as completed or retried than there were in the total (a rate above      *)
(* 100%).  None of them is more than the rows of the list under them, as   *)
(* that is read later and no row goes.                                     *)
OverviewTrailsList ==
  page = "overview" => \A count \in counts : count <= Cardinality(Rows(list))

-----------------------------------------------------------------------------
(* dashboard/user_app.py:780 offers "Cancel this job" beside the job that  *)
(* is selected.  The click runs the script again: when a job was created   *)
(* or the statuses in the list have changed since, the select box starts   *)
(* anew at the newest job, and that one is cancelled if it is QUEUED too.  *)
CancelHitsShown == sent.verb = "cancel" => sent.shown = sent.job

=============================================================================
