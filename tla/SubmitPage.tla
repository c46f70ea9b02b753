----------------------------- MODULE SubmitPage -----------------------------
(***************************************************************************)
(* The page "Submit Job" of the user dashboard (dashboard/user_app.py): a  *)
(* form per job type builds the payload, and a text area holds it as JSON, *)
(* to be edited.  As in JobPages, a widget is another one, with its        *)
(* default value, when its arguments have changed: the text area's default *)
(* is the payload built, so a form that builds another payload resets it,  *)
(* and an edited text stays as long as the form builds the same one.       *)
(*                                                                         *)
(* A payload is the set of its keys with a value that is not empty.        *)
(***************************************************************************)
EXTENDS Naturals, FiniteSets

CONSTANTS
  Edits,     (* Bound: the objects people write into the text area.         *)
  AsBuilt    (* The text area holds the payload as the form builds it.      *)

Types == { "resume_analysis", "pdf_summary", "email_send" }

Keys == { "text", "file_path", "max_length", "to", "subject", "body" }

VARIABLES
  type,      (* "Job type".                                                *)
  fields,    (* The fields of its form that are filled in.                 *)
  text,      (* The text area: AsBuilt, or an object written there.         *)
  writtenFor,(* History: the type selected when it was written.            *)
  request    (* POST /jobs of the last click on Submit, or NoPost.         *)

submitVars == << type, fields, text, writtenFor, request >>

Post ==
  [ type : Types, payload : SUBSET Keys, by : {"form", "hand"}, built : SUBSET Keys,
    writtenFor : Types ]

NoPost == [ type |-> "none" ]

SubmitTypeOK ==
  /\ type \in Types
  /\ fields \subseteq Keys
  /\ text \in {AsBuilt} \cup SUBSET Keys
  /\ writtenFor \in Types
  /\ request \in Post \cup {NoPost}

SubmitInit ==
  /\ type = "resume_analysis"
  /\ fields = {}
  /\ text = AsBuilt
  /\ writtenFor = type
  /\ request = NoPost

-----------------------------------------------------------------------------
(* The fields of each form; of a resume either the text or a path.         *)
Fields(t) ==
  CASE t = "resume_analysis" -> {"text", "file_path"}
    [] t = "pdf_summary" -> {"file_path"}
    [] t = "email_send" -> {"to", "subject", "body"}

(* Fault: one field of the e-mail is enough.                               *)
BuiltOfAny(t, filled) ==
  CASE t = "pdf_summary" /\ filled # {} -> filled \cup {"max_length"}
    [] OTHER -> filled

(* {} while something is missing.                                          *)
Built(t, filled) ==
  CASE t = "resume_analysis" -> filled
    [] t = "pdf_summary" -> IF filled = {} THEN {} ELSE filled \cup {"max_length"}
    [] t = "email_send" -> IF filled = Fields(t) THEN filled ELSE {}

(* Fault: the text area is the same widget whatever the form builds.       *)
RedrawKept(t, filled) ==
  /\ type' = t
  /\ fields' = filled
  /\ UNCHANGED << text, writtenFor >>

(* A run of the script with this form: the text stays for the same default.*)
Redraw(t, filled) ==
  /\ type' = t
  /\ fields' = filled
  /\ IF Built(t, filled) = Built(type, fields)
     THEN UNCHANGED << text, writtenFor >>
     ELSE text' = AsBuilt /\ writtenFor' = t

(* Another form: its fields are new widgets, and empty.                    *)
ChooseType ==
  /\ \E t \in Types \ {type} : Redraw(t, {})
  /\ UNCHANGED request

(* "Input mode" shows one field of a resume at a time.                     *)
FillIn ==
  /\ \E filled \in SUBSET Fields(type) :
       /\ type = "resume_analysis" => Cardinality(filled) <= 1
       /\ Redraw(type, filled)
  /\ UNCHANGED request

Write ==
  /\ \E edit \in Edits : text' = edit
  /\ writtenFor' = type
  /\ UNCHANGED << type, fields, request >>

(* What json.loads reads in the text area.                                 *)
Payload == IF text = AsBuilt THEN Built(type, fields) ELSE text

(* The button is disabled for an empty object.                             *)
Submit ==
  /\ Payload # {}
  /\ request' = [ type |-> type, payload |-> Payload,
                  by |-> IF text = AsBuilt THEN "form" ELSE "hand",
                  built |-> Built(type, fields), writtenFor |-> writtenFor ]
  /\ UNCHANGED << type, fields, text, writtenFor >>

(* The request is made, and the page left.                                 *)
Leave ==
  /\ type' = "resume_analysis" /\ writtenFor' = "resume_analysis"
  /\ fields' = {} /\ text' = AsBuilt
  /\ request' = NoPost

SubmitNext ==
  /\ request = NoPost
  /\ ChooseType \/ FillIn \/ Write \/ Submit

-----------------------------------------------------------------------------
(* An object written by hand for one job type is sent with another only    *)
(* over an empty form: never in place of what a form of another type       *)
(* builds.  (In place of its own it is, which is what the text is for.)    *)
HandWrittenIsForTheForm ==
  request # NoPost =>
    (request.by = "hand" /\ request.writtenFor # request.type => request.built = {})

=============================================================================
