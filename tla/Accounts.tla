------------------------------ MODULE Accounts ------------------------------
(***************************************************************************)
(* From "docker compose up" to a signed-in browser: each API process       *)
(* migrates the database (alembic/), then creates the configured admin     *)
(* (app/core/bootstrap.py), then serves; browsers register and sign in at  *)
(* one of the two dashboards (app/api/auth.py, dashboard/).                *)
(*                                                                         *)
(* An API process is                                                       *)
(*   down           not started                                            *)
(*   migrating      alembic has read the revision of the database          *)
(*   bootstrapping  alembic is done, uvicorn runs the lifespan             *)
(*   inserting      ensure_admin_user found no account of the admin        *)
(*   serving        up                                                     *)
(*   failed         alembic or the lifespan raised: the container ends     *)
(*                                                                         *)
(* A browser session is                                                    *)
(*   out            without a token                                        *)
(*   registering    register found no account of the e-mail typed          *)
(*   signing        it has a token, and GET /auth/me is under way          *)
(*   in             past the login page                                    *)
(*                                                                         *)
(* A form the page or the schema refuses and a call that answers 401 or    *)
(* 409 change nothing and have no step; passwords are left out with them.  *)
(* A token's age is left out: the pages keep a token that has expired.     *)
(***************************************************************************)
EXTENDS FiniteSets

CONSTANTS
  Processes,   (* API processes.                                           *)
  Sessions,    (* Browser sessions.                                        *)
  App,         (* The dashboard of each session: "user" or "admin".        *)
  Emails,      (* Addresses people type.                                   *)
  AdminEmail,  (* settings.admin_email, or Nobody.                         *)
  Ids,         (* uuid4. Bound: as many accounts as there are ids.         *)
  Nobody       (* No account, the empty string of session_state.           *)

ASSUME AccountsAssumption ==
  /\ App \in [ Sessions -> {"user", "admin"} ]
  /\ AdminEmail \in Emails \cup {Nobody}
  /\ Nobody \notin Emails /\ Nobody \notin Ids

VARIABLES
  schema,   (* What the database has: its revision, users.is_admin.        *)
  read,     (* The revision alembic read in each process.                  *)
  phase,    (* Where each API process is.                                  *)
  users,    (* The table users.                                            *)
  place,    (* Where each browser session is.                              *)
  typed,    (* The e-mail in its form.                                     *)
  held,     (* The account its answer of POST /auth/login has a token for. *)
  token,    (* session_state: user_token or admin_token, by its account.   *)
  email     (* session_state: user_email or admin_email.                   *)

serverVars == << schema, read, phase >>
sessionVars == << place, typed, held, token, email >>
accountsVars == << serverVars, users, sessionVars >>

Revisions == {"none", "0001", "0002"}

Schema == [ revision : Revisions, is_admin : {"yes", "no"} ]

User == [ id : Ids, email : Emails, is_admin : {"yes", "no"},
          is_active : {"yes", "no"} ]

AccountsTypeOK ==
  /\ schema \in Schema
  /\ read \in [ Processes -> Revisions ]
  /\ phase \in [ Processes -> {"down", "migrating", "bootstrapping", "inserting",
                               "serving", "failed"} ]
  /\ users \subseteq User
  /\ place \in [ Sessions -> {"out", "registering", "signing", "in"} ]
  /\ typed \in [ Sessions -> Emails \cup {Nobody} ]
  /\ held \in [ Sessions -> Ids \cup {Nobody} ]
  /\ token \in [ Sessions -> Ids \cup {Nobody} ]
  /\ email \in [ Sessions -> Emails \cup {Nobody} ]

Fresh == [ revision |-> "none", is_admin |-> "no" ]

(* The database 0002 was written for: "is_admin was missing".              *)
Legacy == [ revision |-> "0001", is_admin |-> "no" ]

Member(id, address) ==
  [ id |-> id, email |-> address, is_admin |-> "no", is_active |-> "yes" ]

(* A new database, or one in use since before is_admin, with an account or *)
(* without.                                                                *)
AccountsInit ==
  /\ schema \in {Fresh, Legacy}
  /\ \/ users = {}
     \/ schema = Legacy /\ \E id \in Ids, e \in Emails : users = { Member(id, e) }
  /\ read = [ p \in Processes |-> "none" ]
  /\ phase = [ p \in Processes |-> "down" ]
  /\ place = [ s \in Sessions |-> "out" ]
  /\ typed = [ s \in Sessions |-> Nobody ]
  /\ held = [ s \in Sessions |-> Nobody ]
  /\ token = [ s \in Sessions |-> Nobody ]
  /\ email = [ s \in Sessions |-> Nobody ]

-----------------------------------------------------------------------------
(* Migrations: the schemas an upgrade can end in, none if a statement of   *)
(* it raises.                                                              *)

(* Fault: 0001 as it was before is_admin.                                  *)
Revision0001Legacy(s) == IF s.revision = "none" THEN {Legacy} ELSE {}

(* CREATE TABLE, of users with the column is_admin.                        *)
Revision0001(s) ==
  IF s.revision = "none" THEN {[ revision |-> "0001", is_admin |-> "yes" ]} ELSE {}

(* ADD COLUMN is_admin.                                                    *)
Revision0002(s) ==
  IF s.is_admin = "no" THEN {[ revision |-> "0002", is_admin |-> "yes" ]} ELSE {}

(* Every revision after the one that was read.                             *)
ToHead(from, s) ==
  CASE from = "0002" -> {s}
    [] from = "0001" -> Revision0002(s)
    [] from = "none" -> UNION { Revision0002(t) : t \in Revision0001(s) }

Enter(p, step) == phase' = [ phase EXCEPT ![p] = step ]

ReadRevision(p) ==
  /\ phase[p] = "down"
  /\ read' = [ read EXCEPT ![p] = schema.revision ]
  /\ Enter(p, "migrating")
  /\ UNCHANGED << schema, users, sessionVars >>

(* Fault: ";" for "&&", the server starts whatever alembic answered.       *)
UpgradeAnyway(p) ==
  /\ phase[p] = "migrating"
  /\ schema' \in IF ToHead(read[p], schema) = {} THEN {schema}
                                                 ELSE ToHead(read[p], schema)
  /\ Enter(p, "bootstrapping")
  /\ UNCHANGED << read, users, sessionVars >>

(* One transaction for all revisions; a second process waits for its locks.*)
Upgrade(p) ==
  /\ phase[p] = "migrating"
  /\ schema' \in ToHead(read[p], schema)
  /\ Enter(p, "bootstrapping")
  /\ UNCHANGED << read, users, sessionVars >>

UpgradeFails(p) ==
  /\ phase[p] = "migrating"
  /\ ToHead(read[p], schema) = {}
  /\ Enter(p, "failed")
  /\ UNCHANGED << schema, read, users, sessionVars >>

-----------------------------------------------------------------------------
(* ensure_admin_user.                                                      *)

AccountsOf(address) == { u \in users : u.email = address }

(* Fault: an account that is there is left as it is.                       *)
PromoteNobody(address) == UNCHANGED users

Promote(address) ==
  users' = { IF u.email = address THEN [ u EXCEPT !.is_admin = "yes" ] ELSE u
             : u \in users }

BootstrapFinds(p) ==
  /\ phase[p] = "bootstrapping"
  /\ AccountsOf(AdminEmail) # {} \/ AdminEmail = Nobody
  /\ Promote(AdminEmail)
  /\ Enter(p, "serving")
  /\ UNCHANGED << schema, read, sessionVars >>

BootstrapMisses(p) ==
  /\ phase[p] = "bootstrapping"
  /\ AccountsOf(AdminEmail) = {} /\ AdminEmail # Nobody
  /\ Enter(p, "inserting")
  /\ UNCHANGED << schema, read, users, sessionVars >>

(* Fault: users.email is not unique.                                       *)
AcceptsAny(address) == TRUE

(* The unique index of users.email.                                        *)
Accepts(address) == AccountsOf(address) = {}

Insert(address, is_admin) ==
  /\ Accepts(address)
  /\ \E id \in Ids \ { u.id : u \in users } :
       users' = users \cup {[ Member(id, address) EXCEPT !.is_admin = is_admin ]}

BootstrapInsert(p) ==
  /\ phase[p] = "inserting"
  /\ Insert(AdminEmail, "yes")
  /\ Enter(p, "serving")
  /\ UNCHANGED << schema, read, sessionVars >>

BootstrapConflict(p) ==
  /\ phase[p] = "inserting"
  /\ ~Accepts(AdminEmail)
  /\ Enter(p, "failed")
  /\ UNCHANGED << schema, read, users, sessionVars >>

(* The container is started again.                                         *)
Restart(p) ==
  /\ phase[p] \in {"serving", "failed"}
  /\ Enter(p, "down")
  /\ UNCHANGED << schema, read, users, sessionVars >>

-----------------------------------------------------------------------------
(* The sessions.                                                           *)

Up == \E p \in Processes : phase[p] = "serving"

Move(s, to) == place' = [ place EXCEPT ![s] = to ]

(* register, its look-up: 409 if there is an account.                      *)
CreateAccount(s) ==
  /\ Up /\ App[s] = "user" /\ place[s] = "out"
  /\ \E e \in Emails :
       /\ AccountsOf(e) = {}
       /\ typed' = [ typed EXCEPT ![s] = e ]
  /\ Move(s, "registering")
  /\ UNCHANGED << serverVars, users, held, token, email >>

RegisterInsert(s) ==
  /\ place[s] = "registering"
  /\ Insert(typed[s], "no")
  /\ Move(s, "out")
  /\ UNCHANGED << serverVars, typed, held, token, email >>

(* The commit raises (500), or the process is gone.                        *)
RegisterFails(s) ==
  /\ place[s] = "registering"
  /\ ~Accepts(typed[s]) \/ ~Up
  /\ Move(s, "out")
  /\ UNCHANGED << serverVars, users, typed, held, token, email >>

(* POST /auth/login with the right password.                               *)
Login(s) ==
  /\ Up /\ place[s] = "out"
  /\ \E u \in users :
       /\ u.is_active = "yes"
       /\ typed' = [ typed EXCEPT ![s] = u.email ]
       /\ held' = [ held EXCEPT ![s] = u.id ]
       /\ token' = IF App[s] = "user" THEN [ token EXCEPT ![s] = u.id ] ELSE token
  /\ Move(s, "signing")
  /\ UNCHANGED << serverVars, users, email >>

(* get_current_user: the active account of a token.                        *)
CurrentUser(id) == { u \in users : u.id = id /\ u.is_active = "yes" }

(* login_user takes the e-mail of any JSON answer, an error's too, and     *)
(* falls back to the one typed.                                            *)
UserSignedIn(s) ==
  /\ App[s] = "user" /\ place[s] = "signing" /\ Up
  /\ email' = [ email EXCEPT ![s] =
       IF CurrentUser(held[s]) = {} THEN typed[s]
       ELSE (CHOOSE u \in CurrentUser(held[s]) : TRUE).email ]
  /\ Move(s, "in")
  /\ UNCHANGED << serverVars, users, typed, held, token >>

(* GET /auth/me raises: the script ends, the token is in session_state.    *)
UserHalfSignedIn(s) ==
  /\ App[s] = "user" /\ place[s] = "signing"
  /\ Move(s, "in")
  /\ UNCHANGED << serverVars, users, typed, held, token, email >>

(* get_current_admin.                                                      *)
CurrentAdmin(id) == { u \in CurrentUser(id) : u.is_admin = "yes" }

(* Fault: any account of the API may pass.                                 *)
Anybody(id) == CurrentUser(id)

(* login_admin: is_admin in the answer of GET /auth/me.                    *)
SaysAdmin(id) == { u \in CurrentUser(id) : u.is_admin = "yes" }

AdminSignedIn(s) ==
  /\ App[s] = "admin" /\ place[s] = "signing" /\ Up
  /\ \E u \in SaysAdmin(held[s]) :
       /\ token' = [ token EXCEPT ![s] = u.id ]
       /\ email' = [ email EXCEPT ![s] = u.email ]
  /\ Move(s, "in")
  /\ UNCHANGED << serverVars, users, typed, held >>

(* Not an admin, or GET /auth/me raises: nothing is stored.                *)
AdminRefused(s) ==
  /\ App[s] = "admin" /\ place[s] = "signing"
  /\ Move(s, "out")
  /\ UNCHANGED << serverVars, users, typed, held, token, email >>

(* Fault: the e-mail stays in session_state.                               *)
SignOutKeepingEmail(s) ==
  /\ place[s] = "in"
  /\ token' = [ token EXCEPT ![s] = Nobody ]
  /\ Move(s, "out")
  /\ UNCHANGED << serverVars, users, typed, held, email >>

SignOut(s) ==
  /\ place[s] = "in"
  /\ token' = [ token EXCEPT ![s] = Nobody ]
  /\ email' = [ email EXCEPT ![s] = Nobody ]
  /\ Move(s, "out")
  /\ UNCHANGED << serverVars, users, typed, held >>

(* By an operator, in the database: no handler does it.                    *)
Deactivate ==
  /\ \E u \in users :
       users' = (users \ {u}) \cup {[ u EXCEPT !.is_active = "no" ]}
  /\ UNCHANGED << serverVars, sessionVars >>

StartUp(p) ==
  \/ ReadRevision(p) \/ Upgrade(p) \/ UpgradeFails(p)
  \/ BootstrapFinds(p) \/ BootstrapMisses(p)
  \/ BootstrapInsert(p) \/ BootstrapConflict(p)
  \/ Restart(p)

Session(s) ==
  \/ CreateAccount(s) \/ RegisterInsert(s) \/ RegisterFails(s)
  \/ Login(s) \/ UserSignedIn(s) \/ UserHalfSignedIn(s)
  \/ AdminSignedIn(s) \/ AdminRefused(s) \/ SignOut(s)

AccountsNext ==
  \/ \E p \in Processes : StartUp(p)
  \/ \E s \in Sessions : Session(s)
  \/ Deactivate

AccountsSpec == AccountsInit /\ [][AccountsNext]_accountsVars

-----------------------------------------------------------------------------
In(s) == place[s] = "in"

(* However register and the starting processes race, each between its own  *)
(* look-up and its insert, no two accounts share an e-mail, or an id.      *)
OneAccountPerEmail ==
  \A u, v \in users : u.email = v.email \/ u.id = v.id => u = v

(* A process serves only when the configured admin exists and is one, also *)
(* when several start at once, one of which fails on the unique index, and *)
(* when the address was registered before it was configured.               *)
ServingHasAdmin ==
  AdminEmail # Nobody /\ Up =>
    \E u \in users : u.email = AdminEmail /\ u.is_admin = "yes"

(* A process serves only at the head revision, with the column the model   *)
(* of User has: also of two that migrate a legacy database at once.        *)
ServingIsMigrated == Up => schema = [ revision |-> "0002", is_admin |-> "yes" ]

(* The user dashboard never says "Signed in as" with somebody else's       *)
(* e-mail: when GET /auth/me answers with an error or not at all, it has   *)
(* the address typed for this token or none, and none of a session before. *)
ShownEmailIsOwn ==
  \A s \in Sessions :
    token[s] # Nobody /\ email[s] # Nobody =>
      \E u \in users : u.id = token[s] /\ u.email = email[s]

(* An account that has passed the admin login page is never told "Admin    *)
(* access required" by the API, which looks it up again at every call.     *)
AdminStaysAdmin ==
  \A s \in Sessions :
    App[s] = "admin" /\ In(s) /\ CurrentUser(token[s]) # {} =>
      CurrentAdmin(token[s]) # {}

(* A new database never gets its tables: 0001 creates users with is_admin, *)
(* 0002 adds the column once more, and the transaction of both is undone.  *)
FreshStaysEmpty == [][ schema = Fresh => schema' = Fresh ]_accountsVars

=============================================================================
