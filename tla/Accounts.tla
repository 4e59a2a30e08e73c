------------------------------- MODULE Accounts -------------------------------
(***************************************************************************)
(* Accounts, tokens and what users own (server/auth.py; server/app.py         *)
(* 776-1043, 1783-1847, 5718-5866; the users, projects and sessions tables     *)
(* of server/db.py).  Requests run in threads of their own; each statement is   *)
(* a transaction, and each read or write of the file with the signing secret     *)
(* a step of its own.                                                               *)
(***************************************************************************)
EXTENDS Integers, FiniteSets

CONSTANTS
  Emails, Root,   \* Root is OJAS_ROOT_EMAIL
  MaxCalls,       \* requests
  MaxOpen,        \* requests at one time
  SignupAllowed

ASSUME AccountsAssumption == MaxCalls \in Nat \ {0} /\ MaxOpen \in Nat /\ Root \in Emails /\ SignupAllowed \in BOOLEAN

VARIABLES
  secret,    \* the signing secret in auth.json, 0 when the file is missing or half written
  user,      \* users: id and password, id 0 for none
  tokens,    \* auth_tokens, with secret and password they were issued with
  projects,  \* projects: owner, and the number in "Ojas", "Ojas 1", ...
  sessions,  \* sessions: project and who created it
  folders,   \* working directories of sessions
  kept,      \* history: those that could not be removed
  call,      \* requests under way or answered
  calls,     \* requests so far, root's first login included
  forged     \* history: requests that wrote a secret at a time when another one did

accountVars == <<secret, user, tokens, projects, sessions, folders, kept, call, calls, forged>>
rowVars     == <<user, tokens, projects, sessions, folders, kept>>

\* Users, passwords and sessions are named after the request that made them, but for the
\* password OJAS_ROOT_PASSWORD, which no request chooses.
Ids     == 1 .. MaxCalls
Environ == MaxCalls + 1
NoUser  == [id |-> 0, pw |-> 0]
NoCall  == [op |-> "none", at |-> "none", email |-> Root, id |-> 0, pw |-> 0, key |-> 0,
            of |-> 0, raced |-> FALSE]
Known(id) == \E e \in Emails : user[e].id = id /\ id # 0

\* The role of a row: that of root when a login of root's made it, that of a user when a
\* signup did, whatever its e-mail.
IsRoot(id) == id \in Ids /\ (id = 1 \/ call[id].op = "login")

\* A server nobody has used, or one whose root has logged in: request 1.
AccountsInit ==
  /\ \/ secret = 0 /\ user = [e \in Emails |-> NoUser] /\ tokens = {}
     \/ /\ secret = 1 /\ user = [e \in Emails |-> IF e = Root THEN [id |-> 1, pw |-> Environ] ELSE NoUser]
        /\ tokens = {[id |-> 1, pw |-> Environ, key |-> 1, by |-> 1]}
  /\ forged = FALSE /\ calls = 1
  /\ projects = {} /\ sessions = {} /\ folders = {} /\ kept = {}
  /\ call = [i \in Ids |-> NoCall]

Open == {i \in Ids : call[i].at \notin {"none", "done"}}

\* A request comes in.  History: those for the same account or secret overlap.
Accept(op, step, e, of) ==
  /\ calls < MaxCalls /\ Cardinality(Open) < MaxOpen /\ calls' = calls + 1
  /\ call' = [i \in Ids |->
       IF i = calls + 1 THEN [NoCall EXCEPT !.op = op, !.at = step, !.email = e, !.of = of, !.raced = Open # {}]
       ELSE IF i \in Open THEN [call[i] EXCEPT !.raced = TRUE] ELSE call[i]]
  /\ UNCHANGED <<secret, rowVars, forged>>

At(i, step)    == call[i].at = step
Goes(i, step)  == call' = [call EXCEPT ![i] =
  IF step = "done" THEN [@ EXCEPT !.at = step, !.id = 0, !.pw = 0, !.key = 0] ELSE [@ EXCEPT !.at = step]]
Answered(i)    == Goes(i, "done")

AskSignup(e)   == Accept("signup", "gate", e, 0)
AskLogin(e)    == Accept("login", "verify", e, 0)
AskDefault(e)  == Accept("default", "secret", e, 0)
AskSession(e)  == \E p \in projects : Accept("session", "secret", e, p.id)
AskReset(e)    == Accept("reset", "secret", Root, user[e].id)
AskDelete(e)   == Accept("delete", "secret", Root, user[e].id)

----------------------------------------------------------------------------
\* auth.signup: the gate lets the first user in; then the row, unless it is taken.
Gate(i) ==
  /\ At(i, "gate")
  /\ IF SignupAllowed \/ \A e \in Emails : user[e] = NoUser THEN Goes(i, "insert") ELSE Answered(i)
  /\ UNCHANGED <<secret, rowVars, calls, forged>>

Insert(i) ==
  LET pw == IF call[i].op = "login" THEN Environ ELSE i IN
  /\ At(i, "insert")
  /\ IF user[call[i].email] = NoUser
     THEN /\ user' = [user EXCEPT ![call[i].email] = [id |-> i, pw |-> pw]]
          /\ call' = [call EXCEPT ![i].at = IF call[i].op = "login" THEN "secret" ELSE "projects",
                                  ![i].id = i, ![i].pw = pw]
     ELSE Answered(i) /\ UNCHANGED user
  /\ UNCHANGED <<secret, tokens, projects, sessions, folders, kept, calls, forged>>

\* auth.login: the password is that of the row; or, for root's e-mail, that of the
\* environment, whatever the row says, which is made when there is none.
Verify(i) ==
  LET e   == call[i].email
      env == call[i].op = "login" /\ e = Root
      own == user[e] # NoUser /\ (call[i].op = "signup" => user[e].pw = i)
  IN
  /\ At(i, "verify")
  /\ \/ \E pw \in (IF own THEN {user[e].pw} ELSE {}) \cup (IF env THEN {Environ} ELSE {}) :
          /\ user[e] # NoUser
          /\ call' = [call EXCEPT ![i].at = "secret", ![i].id = user[e].id, ![i].pw = pw]
     \/ env /\ user[e] = NoUser /\ Goes(i, "insert")
     \/ ~own /\ ~env /\ Answered(i)
  /\ UNCHANGED <<secret, rowVars, calls, forged>>

\* _load_or_create_secret: a file that is missing or does not parse is written anew,
\* truncated first.
LoadSecret(i) ==
  /\ At(i, "secret")
  /\ call' = IF secret # 0
             THEN [call EXCEPT ![i].key = secret, ![i].at = IF call[i].pw # 0 THEN "store" ELSE "authenticate"]
             ELSE [call EXCEPT ![i].at = "truncate"]
  /\ UNCHANGED <<secret, rowVars, calls, forged>>

TruncateSecret(i) ==
  /\ At(i, "truncate") /\ secret' = 0 /\ Goes(i, "write")
  /\ forged' = (forged \/ secret # 0 \/ \E j \in Ids \ {i} : At(j, "write"))
  /\ UNCHANGED <<rowVars, calls>>

WriteSecret(i) ==
  /\ At(i, "write") /\ secret' = i
  /\ call' = [call EXCEPT ![i].key = i, ![i].at = IF call[i].pw # 0 THEN "store" ELSE "authenticate"]
  /\ UNCHANGED <<rowVars, calls, forged>>

\* _issue_token: a row that points at a user.
StoreToken(i) ==
  /\ At(i, "store") /\ Answered(i)
  /\ tokens' = IF Known(call[i].id)
               THEN tokens \cup {[id |-> call[i].id, pw |-> call[i].pw, key |-> call[i].key, by |-> i]}
               ELSE tokens
  /\ UNCHANGED <<secret, user, projects, sessions, folders, kept, calls, forged>>

\* require_user, and require_root of the admin endpoints; what comes after works with the
\* row that was found.
Authenticate(i) ==
  LET u == user[call[i].email] IN
  /\ At(i, "authenticate")
  /\ IF /\ \E t \in tokens : t.id = u.id /\ t.key = call[i].key
        /\ call[i].op \in {"reset", "delete"} => IsRoot(u.id)
     THEN call' = [call EXCEPT ![i].id = u.id,
                     ![i].at = CASE call[i].op = "default" -> "projects" [] call[i].op = "session" -> "row"
                                 [] call[i].op = "reset" -> "password" [] OTHER -> "purge"]
     ELSE Answered(i)
  /\ UNCHANGED <<secret, rowVars, calls, forged>>

----------------------------------------------------------------------------
\* _bootstrap_default_project and GET /projects/default: look, make the folder, insert
\* under the first free name.
Afterwards(i) == IF call[i].op = "signup" THEN "verify" ELSE "done"

LookForProject(i) ==
  /\ At(i, "projects")
  /\ Goes(i, IF \E p \in projects : p.owner = call[i].id THEN Afterwards(i) ELSE "project")
  /\ UNCHANGED <<secret, rowVars, calls, forged>>

\* A folder that cannot be made fails the request, but not a signup.
CreateProject(i) ==
  LET mine == {p \in projects : p.owner = call[i].id} IN
  /\ At(i, "project")
  /\ \/ UNCHANGED projects
     \/ /\ Known(call[i].id)
        /\ projects' = projects \cup {[id |-> i, owner |-> call[i].id, name |-> Cardinality(mine)]}
  /\ Goes(i, Afterwards(i))
  /\ UNCHANGED <<secret, user, tokens, sessions, folders, kept, calls, forged>>

\* POST /projects/{id}/sessions: access, the row, its directory; without that no row.
InsertSession(i) ==
  LET may == {p \in projects : p.id = call[i].of /\ (IsRoot(call[i].id) \/ p.owner = call[i].id)} IN
  /\ At(i, "row")
  /\ IF may # {} /\ Known(call[i].id)
     THEN sessions' = sessions \cup {[id |-> i, project |-> call[i].of, by |-> call[i].id]} /\ Goes(i, "folder")
     ELSE Answered(i) /\ UNCHANGED sessions
  /\ UNCHANGED <<secret, user, tokens, projects, folders, kept, calls, forged>>

\* Mutant: the row stays when the directory cannot be made.
KeepsRow(i) ==
  /\ At(i, "folder") /\ Answered(i)
  /\ UNCHANGED sessions /\ \E made \in SUBSET {i} : folders' = folders \cup made
  /\ UNCHANGED <<secret, user, tokens, projects, kept, calls, forged>>

MakeFolder(i) ==
  /\ At(i, "folder") /\ Answered(i)
  /\ \/ folders' = folders \cup {i} /\ UNCHANGED sessions
     \/ sessions' = {s \in sessions : s.id # i} /\ UNCHANGED folders
  /\ UNCHANGED <<secret, user, tokens, projects, kept, calls, forged>>

----------------------------------------------------------------------------
\* POST /admin/users/{id}/password: the password, then the tokens.
SetPassword(i) ==
  LET of == {e \in Emails : user[e].id = call[i].of /\ call[i].of # 0} IN
  /\ At(i, "password")
  /\ user' = [e \in Emails |-> IF e \in of THEN [user[e] EXCEPT !.pw = i] ELSE user[e]]
  /\ Goes(i, IF of # {} THEN "revoke" ELSE "done")
  /\ UNCHANGED <<secret, tokens, projects, sessions, folders, kept, calls, forged>>

\* DELETE /admin/users/{id}, refused for the last root: the sessions the user created, then
\* the tokens, then the row with all that hangs on it, whatever of the first could not be
\* removed.
Purge(i) ==
  LET gone == folders \cap {s.id : s \in {x \in sessions : x.by = call[i].of}} IN
  /\ At(i, "purge")
  /\ IF Known(call[i].of) /\ ~IsRoot(call[i].of)
     THEN \E left \in SUBSET gone :
            folders' = (folders \ gone) \cup left /\ kept' = kept \cup left /\ Goes(i, "revoke")
     ELSE Answered(i) /\ UNCHANGED <<folders, kept>>
  /\ UNCHANGED <<secret, user, tokens, projects, sessions, calls, forged>>

\* Mutant: tokens outlive the password.
RevokeNone(i) ==
  /\ At(i, "revoke") /\ Goes(i, IF call[i].op = "reset" THEN "done" ELSE "cascade")
  /\ UNCHANGED <<secret, rowVars, calls, forged>>

RevokeTokens(i) ==
  /\ At(i, "revoke") /\ Goes(i, IF call[i].op = "reset" THEN "done" ELSE "cascade")
  /\ tokens' = {t \in tokens : t.id # call[i].of}
  /\ UNCHANGED <<secret, user, projects, sessions, folders, kept, calls, forged>>

\* Mutant: foreign keys are not enforced.
CascadeNothing(i) ==
  /\ At(i, "cascade") /\ Answered(i)
  /\ user' = [e \in Emails |-> IF user[e].id = call[i].of THEN NoUser ELSE user[e]]
  /\ UNCHANGED <<secret, tokens, projects, sessions, folders, kept, calls, forged>>

Cascade(i) ==
  LET lost == {p.id : p \in {x \in projects : x.owner = call[i].of}} IN
  /\ At(i, "cascade") /\ Answered(i)
  /\ user' = [e \in Emails |-> IF user[e].id = call[i].of THEN NoUser ELSE user[e]]
  /\ tokens' = {t \in tokens : t.id # call[i].of}
  /\ projects' = {p \in projects : p.id \notin lost}
  /\ sessions' = {s \in sessions : s.project \notin lost /\ s.by # call[i].of}
  /\ UNCHANGED <<secret, folders, kept, calls, forged>>

AccountsNext ==
  \/ \E e \in Emails :
       AskSignup(e) \/ AskLogin(e) \/ AskDefault(e) \/ AskSession(e) \/ AskReset(e) \/ AskDelete(e)
  \/ \E i \in Ids :
       \/ Gate(i) \/ Insert(i) \/ Verify(i) \/ LoadSecret(i) \/ TruncateSecret(i) \/ WriteSecret(i)
       \/ StoreToken(i) \/ Authenticate(i) \/ LookForProject(i) \/ CreateProject(i)
       \/ InsertSession(i) \/ MakeFolder(i)
       \/ SetPassword(i) \/ Purge(i) \/ RevokeTokens(i) \/ Cascade(i)

AccountsSpec == AccountsInit /\ [][AccountsNext]_accountVars
----------------------------------------------------------------------------
\* Types of the tables and requests.
AccountsTypeOK ==
  /\ secret \in 0 .. MaxCalls /\ forged \in BOOLEAN
  /\ \A e \in Emails : user[e].id \in 0 .. MaxCalls /\ user[e].pw \in 0 .. Environ
  /\ \A t \in tokens : Known(t.id)
  /\ \A p \in projects : Known(p.owner)
  /\ \A s \in sessions : Known(s.by) /\ \E p \in projects : p.id = s.project

\* A token that was handed out is one that the next request accepts ("Each protected
\* request ... verify the signature, look up the token's user_id", auth.py 18), unless two
\* requests made a secret at once; and it was issued for the password in force ("they have
\* to log in again with the new password", auth.py 205), unless a request ran beside the
\* reset, or the password is the environment's, which no reset of root's changes (234).
TokensHold ==
  \A t \in tokens :
    /\ t.key = secret \/ forged
    /\ \A e \in Emails : user[e].id = t.id =>
         \/ t.pw = user[e].pw
         \/ e = Root /\ t.pw = Environ
         \/ \E i \in Ids : call[i].op = "reset" /\ call[i].of = t.id /\ (i \in Open \/ call[i].raced)

\* Requests that did not overlap leave one default project per user ("Idempotent", app.py
\* 875), and every session's directory with a row ("Roll back the session row so we don't
\* leave a dangling record", app.py 1823), but for sessions that root made for somebody, and
\* directories that could not be removed.
OwnedApart ==
  /\ \A p, q \in projects : p.owner = q.owner /\ p # q => call[p.id].raced /\ call[q.id].raced
  /\ \A s \in sessions : s.id \in folders \cup Open \/ \E i \in Open : call[i].op = "delete"
  /\ \A f \in folders : \/ \E s \in sessions : s.id = f
                        \/ call[f].email = Root \/ call[f].raced \/ f \in kept
                        \/ \E i \in Open : call[i].op = "delete"

\* A user who is deleted leaves no directory behind but those that could not be removed
\* ("removes per-session workspace subdirs under each project", app.py 5732).
DirectoriesGo ==
  Open = {} /\ (\A i \in Ids : ~call[i].raced) =>
    \A f \in folders \ kept : \E s \in sessions : s.id = f
=============================================================================
