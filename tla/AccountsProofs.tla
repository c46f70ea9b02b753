--------------------------- MODULE AccountsProofs ---------------------------
(***************************************************************************)
(* Proofs about Accounts for every set of API processes, browser sessions, *)
(* addresses and ids.                                                      *)
(***************************************************************************)
EXTENDS Accounts, TLAPS

-----------------------------------------------------------------------------
(* The table users.                                                        *)

UsersInv == users \subseteq User /\ OneAccountPerEmail

(* Accounts stay, with their id and e-mail, and admins stay admins.        *)
Kept ==
  \A u \in users : \E v \in users' :
    v.id = u.id /\ v.email = u.email /\ (u.is_admin = "yes" => v.is_admin = "yes")

LEMMA PromoteKeeps ==
  ASSUME UsersInv, NEW address, Promote(address)
  PROVE  /\ UsersInv' /\ Kept
         /\ \A u \in users : u.email = address =>
              \E v \in users' : v.email = address /\ v.is_admin = "yes"
<1> DEFINE up(u) == IF u.email = address THEN [ u EXCEPT !.is_admin = "yes" ] ELSE u
<1>1. users' = { up(u) : u \in users }
  BY DEF Promote
<1>2. \A u \in users :
        /\ up(u) \in User /\ up(u).id = u.id /\ up(u).email = u.email
        /\ u.is_admin = "yes" => up(u).is_admin = "yes"
        /\ u.email = address => up(u).is_admin = "yes"
  BY DEF UsersInv, User
<1> HIDE DEF up
<1>3. users' \subseteq User
  BY <1>1, <1>2
<1>4. OneAccountPerEmail'
  <2> SUFFICES ASSUME NEW u \in users', NEW v \in users',
                      u.email = v.email \/ u.id = v.id
               PROVE  u = v
    BY DEF OneAccountPerEmail
  <2>1. PICK a \in users : u = up(a)
    BY <1>1
  <2>2. PICK b \in users : v = up(b)
    BY <1>1
  <2>3. a = b
    BY <1>2, <2>1, <2>2 DEF UsersInv, OneAccountPerEmail
  <2> QED BY <2>1, <2>2, <2>3
<1> QED BY <1>1, <1>2, <1>3, <1>4 DEF UsersInv, Kept

LEMMA InsertKeeps ==
  ASSUME UsersInv, NEW address \in Emails, NEW is_admin \in {"yes", "no"},
         Insert(address, is_admin)
  PROVE  /\ UsersInv' /\ Kept
         /\ \E v \in users' : v.email = address /\ v.is_admin = is_admin
<1>1. PICK id \in Ids \ { u.id : u \in users } :
        users' = users \cup {[ Member(id, address) EXCEPT !.is_admin = is_admin ]}
  BY DEF Insert
<1> DEFINE new == [ Member(id, address) EXCEPT !.is_admin = is_admin ]
<1>2. /\ new \in User /\ new.id = id /\ new.email = address
      /\ new.is_admin = is_admin
  BY DEF Member, User
<1>3. users' = users \cup {new}
  BY <1>1
<1> HIDE DEF new
<1>4. \A u \in users : u.email # address /\ u.id # id
  BY DEF Insert, Accepts, AccountsOf
<1>5. OneAccountPerEmail'
  BY <1>2, <1>3, <1>4 DEF UsersInv, OneAccountPerEmail
<1> QED BY <1>2, <1>3, <1>5 DEF UsersInv, Kept

LEMMA DeactivateKeeps ==
  ASSUME UsersInv, Deactivate
  PROVE  UsersInv' /\ Kept
<1>1. PICK u \in users : users' = (users \ {u}) \cup {[ u EXCEPT !.is_active = "no" ]}
  BY DEF Deactivate
<1> DEFINE off == [ u EXCEPT !.is_active = "no" ]
<1>2. /\ off \in User /\ off.id = u.id /\ off.email = u.email
      /\ off.is_admin = u.is_admin
  BY DEF UsersInv, User
<1>3. users' = (users \ {u}) \cup {off}
  BY <1>1
<1> HIDE DEF off
<1>4. OneAccountPerEmail'
  BY <1>2, <1>3 DEF UsersInv, OneAccountPerEmail
<1> QED BY <1>2, <1>3, <1>4 DEF UsersInv, Kept

-----------------------------------------------------------------------------
(* Where the processes and the sessions are.                               *)

AtHead == [ revision |-> "0002", is_admin |-> "yes" ]

HasAdmin == \E u \in users : u.email = AdminEmail /\ u.is_admin = "yes"

TypeInv == AccountsTypeOK /\ UsersInv

(* A process that is past the upgrade is at the head, and one that serves  *)
(* has seen the admin; neither is ever undone.                             *)
StartInv ==
  /\ schema \in {Fresh, Legacy, AtHead}
  /\ \A p \in Processes :
       /\ schema = Fresh => read[p] = "none"
       /\ read[p] = "0002" => schema = AtHead
       /\ phase[p] \in {"bootstrapping", "inserting", "serving"} => schema = AtHead
       /\ phase[p] = "inserting" => AdminEmail # Nobody
       /\ phase[p] = "serving" /\ AdminEmail # Nobody => HasAdmin

(* What one session knows of its account.                                  *)
Owns(s) ==
  /\ place[s] = "registering" => typed[s] \in Emails
  /\ place[s] # "in" => email[s] = Nobody
  /\ place[s] \in {"out", "registering"} => token[s] = Nobody
  /\ place[s] = "signing" =>
       /\ token[s] = IF App[s] = "user" THEN held[s] ELSE Nobody
       /\ \E u \in users : u.id = held[s] /\ u.email = typed[s]
  /\ token[s] # Nobody /\ email[s] # Nobody =>
       \E u \in users : u.id = token[s] /\ u.email = email[s]
  /\ App[s] = "admin" /\ place[s] = "in" =>
       \E u \in users : u.id = token[s] /\ u.is_admin = "yes"

SessionInv == \A s \in Sessions : Owns(s)

AccountsInv == TypeInv /\ StartInv /\ SessionInv

LEMMA AccountsStart == AccountsInit => AccountsInv
<1> SUFFICES ASSUME AccountsInit PROVE AccountsInv
  OBVIOUS
<1>1. users \subseteq User
  BY DEF AccountsInit, Member, User
<1>2. OneAccountPerEmail
  BY DEF AccountsInit, OneAccountPerEmail
<1>3. schema \in Schema
  BY DEF AccountsInit, Fresh, Legacy, Schema, Revisions
<1>4. AccountsTypeOK
  BY <1>1, <1>3 DEF AccountsInit, AccountsTypeOK, Revisions
<1>5. StartInv
  BY DEF AccountsInit, StartInv
<1>6. SessionInv
  BY DEF AccountsInit, SessionInv, Owns
<1> QED BY <1>1, <1>2, <1>4, <1>5, <1>6 DEF AccountsInv, TypeInv, UsersInv

-----------------------------------------------------------------------------
(* Steps of a process.                                                     *)

LEMMA HeadIsReached ==
  ASSUME NEW from \in Revisions, schema \in {Fresh, Legacy, AtHead},
         from = "0002" => schema = AtHead, NEW s \in ToHead(from, schema)
  PROVE  s = AtHead
<1> USE DEF ToHead, Revision0001, Revision0002, Fresh, Legacy, AtHead
<1>1. CASE from = "none"
  BY <1>1
<1>2. CASE from = "0001"
  BY <1>2
<1>3. CASE from = "0002"
  BY <1>3
<1> QED BY <1>1, <1>2, <1>3 DEF Revisions

(* A step of another kind leaves the start-up as it is, but for new users. *)
LEMMA StartStays ==
  ASSUME StartInv, UNCHANGED serverVars, Kept
  PROVE  StartInv'
BY DEF StartInv, serverVars, HasAdmin, Kept

LEMMA OwnsStays ==
  ASSUME NEW s \in Sessions, Owns(s), Kept,
         place'[s] = place[s], typed'[s] = typed[s], held'[s] = held[s],
         token'[s] = token[s], email'[s] = email[s]
  PROVE  Owns(s)'
BY DEF Owns, Kept

LEMMA StartStep ==
  ASSUME AccountsInv, NEW p \in Processes, StartUp(p)
  PROVE  AccountsInv'
<1>1. /\ AccountsTypeOK /\ UsersInv /\ StartInv /\ SessionInv
  BY DEF AccountsInv, TypeInv
<1>2. /\ phase \in [ Processes -> {"down", "migrating", "bootstrapping", "inserting",
                                    "serving", "failed"} ]
      /\ read \in [ Processes -> Revisions ] /\ schema \in Schema
  BY <1>1 DEF AccountsTypeOK
<1>3. AdminEmail # Nobody => AdminEmail \in Emails
  BY AccountsAssumption
(* What is left when the users, the schema and the phases are settled.     *)
<1>4. ASSUME UsersInv', Kept, UNCHANGED sessionVars, StartInv',
             schema' \in Schema, read' \in [ Processes -> Revisions ],
             phase' \in [ Processes -> {"down", "migrating", "bootstrapping",
                                        "inserting", "serving", "failed"} ]
      PROVE  AccountsInv'
  <2>1. SessionInv'
    BY <1>1, <1>4, OwnsStays DEF SessionInv, sessionVars
  <2>2. AccountsTypeOK'
    BY <1>1, <1>4 DEF AccountsTypeOK, UsersInv, sessionVars
  <2> QED BY <1>4, <2>1, <2>2 DEF AccountsInv, TypeInv
<1>5. UNCHANGED users => UsersInv' /\ Kept
  BY <1>1 DEF UsersInv, OneAccountPerEmail, Kept
<1>6. CASE ReadRevision(p)
  <2>1. schema.revision \in Revisions /\ (schema.revision = "0002" => schema = AtHead)
        /\ (schema = Fresh => schema.revision = "none")
    BY <1>1, <1>2 DEF StartInv, Schema, Fresh, Legacy, AtHead
  <2>2. StartInv'
    BY <1>1, <1>2, <1>6, <2>1 DEF ReadRevision, Enter, StartInv, HasAdmin
  <2> QED BY <1>2, <1>4, <1>5, <1>6, <2>1, <2>2 DEF ReadRevision, Enter
<1>7. CASE Upgrade(p)
  <2>1. schema' = AtHead
    BY <1>1, <1>2, <1>7, HeadIsReached DEF Upgrade, StartInv
  <2>2. AtHead \in Schema /\ AtHead # Fresh
    BY DEF AtHead, Fresh, Schema, Revisions
  <2>3. StartInv'
    BY <1>1, <1>2, <1>7, <2>1, <2>2 DEF Upgrade, Enter, StartInv, HasAdmin
  <2> QED BY <1>2, <1>4, <1>5, <1>7, <2>1, <2>2, <2>3 DEF Upgrade, Enter
<1>8. CASE UpgradeFails(p) \/ Restart(p)
  <2>1. /\ UNCHANGED << schema, read, users, sessionVars >>
        /\ Enter(p, "failed") \/ Enter(p, "down")
    BY <1>8 DEF UpgradeFails, Restart
  <2>2. StartInv'
    BY <1>1, <1>2, <2>1 DEF Enter, StartInv, HasAdmin
  <2> QED BY <1>2, <1>4, <1>5, <2>1, <2>2 DEF Enter
<1>9. CASE BootstrapFinds(p)
  <2>1. UsersInv' /\ Kept /\ (AdminEmail # Nobody => HasAdmin')
    BY <1>1, <1>9, PromoteKeeps DEF BootstrapFinds, AccountsOf, HasAdmin
  <2>2. HasAdmin => HasAdmin'
    BY <2>1 DEF Kept, HasAdmin
  <2>3. /\ UNCHANGED << schema, read, sessionVars >> /\ Enter(p, "serving")
        /\ phase[p] = "bootstrapping"
    BY <1>9 DEF BootstrapFinds
  <2>4. StartInv'
    BY <1>1, <1>2, <2>1, <2>2, <2>3 DEF Enter, StartInv
  <2> QED BY <1>2, <1>4, <2>1, <2>3, <2>4 DEF Enter
<1>10. CASE BootstrapMisses(p) \/ BootstrapConflict(p)
  <2>1. /\ UNCHANGED << schema, read, users, sessionVars >>
        /\ \/ phase[p] = "bootstrapping" /\ Enter(p, "inserting")
              /\ AdminEmail # Nobody
           \/ Enter(p, "failed")
    BY <1>10 DEF BootstrapMisses, BootstrapConflict
  <2>2. StartInv'
    BY <1>1, <1>2, <2>1 DEF Enter, StartInv, HasAdmin
  <2> QED BY <1>2, <1>4, <1>5, <2>1, <2>2 DEF Enter
<1>11. CASE BootstrapInsert(p)
  <2>1. phase[p] = "inserting" /\ AdminEmail \in Emails
    BY <1>1, <1>3, <1>11 DEF BootstrapInsert, StartInv
  <2>2. UsersInv' /\ Kept /\ HasAdmin'
    BY <1>1, <1>11, <2>1, InsertKeeps DEF BootstrapInsert, HasAdmin
  <2>3. UNCHANGED << schema, read, sessionVars >> /\ Enter(p, "serving")
    BY <1>11 DEF BootstrapInsert
  <2>4. StartInv'
    BY <1>1, <1>2, <2>1, <2>2, <2>3 DEF Enter, StartInv
  <2> QED BY <1>2, <1>4, <2>2, <2>3, <2>4 DEF Enter
<1> QED BY <1>6, <1>7, <1>8, <1>9, <1>10, <1>11 DEF StartUp

-----------------------------------------------------------------------------
(* Steps of a session.                                                     *)

LEMMA SessionStep ==
  ASSUME AccountsInv, NEW s \in Sessions, Session(s)
  PROVE  AccountsInv'
<1>1. /\ AccountsTypeOK /\ UsersInv /\ StartInv /\ SessionInv /\ Owns(s)
      /\ users \subseteq User
  BY DEF AccountsInv, TypeInv, SessionInv, UsersInv
<1>2. /\ place \in [ Sessions -> {"out", "registering", "signing", "in"} ]
      /\ typed \in [ Sessions -> Emails \cup {Nobody} ]
      /\ held \in [ Sessions -> Ids \cup {Nobody} ]
      /\ token \in [ Sessions -> Ids \cup {Nobody} ]
      /\ email \in [ Sessions -> Emails \cup {Nobody} ]
  BY <1>1 DEF AccountsTypeOK
<1> DEFINE SessionType ==
      /\ place' \in [ Sessions -> {"out", "registering", "signing", "in"} ]
      /\ typed' \in [ Sessions -> Emails \cup {Nobody} ]
      /\ held' \in [ Sessions -> Ids \cup {Nobody} ]
      /\ token' \in [ Sessions -> Ids \cup {Nobody} ]
      /\ email' \in [ Sessions -> Emails \cup {Nobody} ]
    Others ==
      \A r \in Sessions \ {s} :
        /\ place'[r] = place[r] /\ typed'[r] = typed[r] /\ held'[r] = held[r]
        /\ token'[r] = token[r] /\ email'[r] = email[r]
<1>3. ASSUME UNCHANGED serverVars, UsersInv', Kept, Owns(s)', SessionType, Others
      PROVE  AccountsInv'
  <2>1. SessionInv'
    BY <1>1, <1>3, OwnsStays DEF SessionInv
  <2>2. StartInv'
    BY <1>1, <1>3, StartStays
  <2>3. AccountsTypeOK'
    BY <1>1, <1>3 DEF AccountsTypeOK, UsersInv, serverVars
  <2> QED BY <1>3, <2>1, <2>2, <2>3 DEF AccountsInv, TypeInv
<1> USE <1>2 DEF Move
<1>4. UNCHANGED users => UsersInv' /\ Kept
  BY <1>1 DEF UsersInv, OneAccountPerEmail, Kept
<1>5. \A u \in users : u.id \in Ids /\ u.email \in Emails
  BY <1>1 DEF User
<1>6. Nobody \notin Ids /\ Nobody \notin Emails
  BY AccountsAssumption
<1>7. CASE CreateAccount(s)
  <2>1. SessionType /\ Others /\ UNCHANGED serverVars /\ UNCHANGED users
    BY <1>7 DEF CreateAccount
  <2>2. Owns(s)'
    BY <1>1, <1>7 DEF CreateAccount, Owns
  <2> QED BY <1>3, <1>4, <2>1, <2>2
<1>8. CASE RegisterInsert(s)
  <2>1. SessionType /\ Others /\ UNCHANGED serverVars
    BY <1>8 DEF RegisterInsert
  <2>2. UsersInv' /\ Kept
    BY <1>1, <1>8, InsertKeeps DEF RegisterInsert, Owns
  <2>3. Owns(s)'
    BY <1>1, <1>8, <2>2 DEF RegisterInsert, Owns, Kept
  <2> QED BY <1>3, <2>1, <2>2, <2>3
<1>9. CASE RegisterFails(s)
  <2>1. SessionType /\ Others /\ UNCHANGED serverVars /\ UNCHANGED users
    BY <1>9 DEF RegisterFails
  <2>2. Owns(s)'
    BY <1>1, <1>9 DEF RegisterFails, Owns
  <2> QED BY <1>3, <1>4, <2>1, <2>2
<1>10. CASE Login(s)
  <2> PICK u \in users :
        /\ typed' = [ typed EXCEPT ![s] = u.email ]
        /\ held' = [ held EXCEPT ![s] = u.id ]
        /\ token' = IF App[s] = "user" THEN [ token EXCEPT ![s] = u.id ] ELSE token
    BY <1>10 DEF Login
  <2>1. SessionType /\ Others /\ UNCHANGED serverVars /\ UNCHANGED users
    BY <1>5, <1>10 DEF Login
  <2>2. Owns(s)'
    BY <1>1, <1>10 DEF Login, Owns
  <2> QED BY <1>3, <1>4, <2>1, <2>2
<1>11. CASE UserSignedIn(s)
  <2> DEFINE shown == IF CurrentUser(held[s]) = {} THEN typed[s]
                      ELSE (CHOOSE u \in CurrentUser(held[s]) : TRUE).email
  <2>1. \E u \in users : u.id = held[s] /\ u.email = shown
    <3>1. CASE CurrentUser(held[s]) = {}
      BY <1>1, <1>11, <3>1 DEF UserSignedIn, Owns
    <3>2. CASE CurrentUser(held[s]) # {}
      <4>1. (CHOOSE u \in CurrentUser(held[s]) : TRUE) \in CurrentUser(held[s])
        BY <3>2
      <4> QED BY <3>2, <4>1 DEF CurrentUser
    <3> QED BY <3>1, <3>2
  <2>2. shown \in Emails
    BY <1>5, <2>1
  <2>3. /\ email' = [ email EXCEPT ![s] = shown ]
        /\ App[s] = "user" /\ place[s] = "signing"
        /\ place' = [ place EXCEPT ![s] = "in" ]
        /\ UNCHANGED << serverVars, users, typed, held, token >>
    BY <1>11 DEF UserSignedIn
  <2> HIDE DEF shown
  <2>4. SessionType /\ Others
    BY <2>2, <2>3
  <2>5. Owns(s)'
    BY <1>1, <2>1, <2>3 DEF Owns
  <2> QED BY <1>3, <1>4, <2>3, <2>4, <2>5
<1>12. CASE UserHalfSignedIn(s)
  <2>1. SessionType /\ Others /\ UNCHANGED serverVars /\ UNCHANGED users
    BY <1>12 DEF UserHalfSignedIn
  <2>2. Owns(s)'
    BY <1>1, <1>12 DEF UserHalfSignedIn, Owns
  <2> QED BY <1>3, <1>4, <2>1, <2>2
<1>13. CASE AdminSignedIn(s)
  <2> PICK u \in SaysAdmin(held[s]) :
        /\ token' = [ token EXCEPT ![s] = u.id ]
        /\ email' = [ email EXCEPT ![s] = u.email ]
    BY <1>13 DEF AdminSignedIn
  <2>1. u \in users /\ u.is_admin = "yes"
    BY DEF SaysAdmin, CurrentUser
  <2>2. SessionType /\ Others /\ UNCHANGED serverVars /\ UNCHANGED users
    BY <1>5, <1>13, <2>1 DEF AdminSignedIn
  <2>3. Owns(s)'
    BY <1>1, <1>13, <2>1 DEF AdminSignedIn, Owns
  <2> QED BY <1>3, <1>4, <2>2, <2>3
<1>14. CASE AdminRefused(s)
  <2>1. SessionType /\ Others /\ UNCHANGED serverVars /\ UNCHANGED users
    BY <1>14 DEF AdminRefused
  <2>2. Owns(s)'
    BY <1>1, <1>14 DEF AdminRefused, Owns
  <2> QED BY <1>3, <1>4, <2>1, <2>2
<1>15. CASE SignOut(s)
  <2>1. SessionType /\ Others /\ UNCHANGED serverVars /\ UNCHANGED users
    BY <1>15 DEF SignOut
  <2>2. Owns(s)'
    BY <1>1, <1>15 DEF SignOut, Owns
  <2> QED BY <1>3, <1>4, <2>1, <2>2
<1> QED BY <1>7, <1>8, <1>9, <1>10, <1>11, <1>12, <1>13, <1>14, <1>15 DEF Session

LEMMA AccountsStep == AccountsInv /\ [AccountsNext]_accountsVars => AccountsInv'
<1> SUFFICES ASSUME AccountsInv, [AccountsNext]_accountsVars PROVE AccountsInv'
  OBVIOUS
<1>1. ASSUME UsersInv', Kept, UNCHANGED << serverVars, sessionVars >>
      PROVE  AccountsInv'
  <2>1. SessionInv'
    BY <1>1, OwnsStays DEF AccountsInv, SessionInv, sessionVars
  <2>2. StartInv'
    BY <1>1, StartStays DEF AccountsInv
  <2>3. AccountsTypeOK'
    BY <1>1 DEF AccountsInv, TypeInv, AccountsTypeOK, UsersInv, serverVars, sessionVars
  <2> QED BY <1>1, <2>1, <2>2, <2>3 DEF AccountsInv, TypeInv
<1>2. CASE Deactivate
  BY <1>1, <1>2, DeactivateKeeps DEF AccountsInv, TypeInv, Deactivate
<1>3. CASE UNCHANGED accountsVars
  BY <1>1, <1>3
     DEF AccountsInv, TypeInv, UsersInv, OneAccountPerEmail, Kept, accountsVars
<1> QED BY <1>2, <1>3, StartStep, SessionStep DEF AccountsNext

LEMMA AccountsCorrect == AccountsSpec => []AccountsInv
<1> QED BY AccountsStart, AccountsStep, PTL DEF AccountsSpec

-----------------------------------------------------------------------------
(* Database, processes and sessions stay in type.                          *)
THEOREM AccountsTypeCorrect == AccountsSpec => []AccountsTypeOK
<1>1. AccountsInv => AccountsTypeOK
  BY DEF AccountsInv, TypeInv
<1> QED BY AccountsCorrect, <1>1, PTL

(* No race of register and of starting processes makes two accounts of one *)
(* e-mail.                                                                 *)
THEOREM UniqueAccounts == AccountsSpec => []OneAccountPerEmail
<1>1. AccountsInv => OneAccountPerEmail
  BY DEF AccountsInv, TypeInv, UsersInv
<1> QED BY AccountsCorrect, <1>1, PTL

(* Whoever is served by an API process finds the configured admin.         *)
THEOREM AdminIsThere == AccountsSpec => []ServingHasAdmin
<1>1. AccountsInv => ServingHasAdmin
  BY DEF AccountsInv, StartInv, ServingHasAdmin, Up, HasAdmin
<1> QED BY AccountsCorrect, <1>1, PTL

(* No process serves a database short of the last revision.                *)
THEOREM Migrated == AccountsSpec => []ServingIsMigrated
<1>1. AccountsInv => ServingIsMigrated
  BY DEF AccountsInv, StartInv, ServingIsMigrated, Up, AtHead
<1> QED BY AccountsCorrect, <1>1, PTL

(* The user dashboard shows the e-mail of its token's account, or none.    *)
THEOREM OwnEmailIsShown == AccountsSpec => []ShownEmailIsOwn
<1>1. AccountsInv => ShownEmailIsOwn
  BY DEF AccountsInv, SessionInv, Owns, ShownEmailIsOwn
<1> QED BY AccountsCorrect, <1>1, PTL

(* Who is past the admin login page is an admin to the API.                *)
THEOREM AdminsAreAdmins == AccountsSpec => []AdminStaysAdmin
<1>1. AccountsInv => AdminStaysAdmin
  BY DEF AccountsInv, TypeInv, UsersInv, OneAccountPerEmail, SessionInv, Owns,
         AdminStaysAdmin, In, CurrentAdmin, CurrentUser
<1> QED BY AccountsCorrect, <1>1, PTL

(* The migrations never bring up a database that is new.                   *)
THEOREM NewDatabaseStaysEmpty == AccountsSpec => FreshStaysEmpty
<1>1. AccountsInv /\ [AccountsNext]_accountsVars
        => [ schema = Fresh => schema' = Fresh ]_accountsVars
  <2> SUFFICES ASSUME StartInv, [AccountsNext]_accountsVars, schema = Fresh
               PROVE  schema' = Fresh
    BY DEF AccountsInv
  <2>1. ASSUME NEW p \in Processes, Upgrade(p)
        PROVE  FALSE
    <3>1. schema' \in ToHead("none", Fresh)
      BY <2>1 DEF Upgrade, StartInv
    <3> QED BY <3>1 DEF ToHead, Revision0001, Revision0002, Fresh
  <2>2. ASSUME NEW p \in Processes, StartUp(p)
        PROVE  UNCHANGED schema
    BY <2>1, <2>2
       DEF StartUp, ReadRevision, UpgradeFails, BootstrapFinds, BootstrapMisses,
           BootstrapInsert, BootstrapConflict, Restart
  <2>3. ASSUME NEW s \in Sessions, Session(s)
        PROVE  UNCHANGED schema
    BY <2>3
       DEF Session, CreateAccount, RegisterInsert, RegisterFails, Login, UserSignedIn,
           UserHalfSignedIn, AdminSignedIn, AdminRefused, SignOut, serverVars
  <2>4. CASE Deactivate \/ UNCHANGED accountsVars
    BY <2>4 DEF Deactivate, accountsVars, serverVars
  <2> QED BY <2>2, <2>3, <2>4 DEF AccountsNext
<1> QED BY AccountsCorrect, <1>1, PTL DEF AccountsSpec, FreshStaysEmpty

=============================================================================
