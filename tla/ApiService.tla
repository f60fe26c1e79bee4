----------------------------- MODULE ApiService -----------------------------
(***************************************************************************)
(* The request threads of one API pod: who is asking (get_current_user,    *)
(* get_or_create_user), may he (verify_project_access and the checks of    *)
(* the handlers), and what the handlers of members, roles and environment  *)
(* variables then do.  Every SQL statement is a step: PostgreSQL runs them *)
(* at READ COMMITTED, and between two of them anything may change.         *)
(*                                                                         *)
(* at[t] is the next step of thread t's request:                           *)
(*   select, count, insert               get_or_create_user                *)
(*   access                              verify_project_access             *)
(*   create                              create_project                    *)
(*   owner                               the check of the member handlers  *)
(*   find, addmember                     add_project_member                *)
(*   target, removemember                remove_project_member             *)
(*   setrole                             update_user_role                  *)
(*   getsecret, putsecret, createsecret  put_env_var and delete_env_var    *)
(*   audit                               log_audit_event                   *)
(*   idle                                no request                        *)
(***************************************************************************)
EXTENDS ConnPool, EnvSecret

CONSTANTS Ops,           \* the requests that are made
          MaxRequests    \* bound on their number

ASSUME RequestAssumption == MaxRequests \in Nat

Request == [op : Ops \cap {"create"}, user : Users, on : {"none"}]
      \cup [op : Ops \cap {"add", "remove", "promote", "demote"}, user : Users, on : Users]
      \cup [op : Ops \cap {"put", "del"}, user : Users, on : Keys]

VARIABLES begun,         \* requests begun so far
          at,
          job            \* the request, current_user.role (before that,
                         \* what count makes of it), and secret_dict

VARIABLES entitled,      \* at some time since its request began the user
                         \* was entitled to it (history)
          founders,      \* who had a request under way when the first user
                         \* was inserted (history)
          promoted,      \* users once promoted (history)
          demoted,       \* whether an admin was demoted (history)
          alone,         \* no other request on the variables has been under
                         \* way during this one (history)
          kept           \* what such a request left in a variable no
                         \* request has been for since, or any (history)

requestVars == <<begun, at, job>>
history == <<entitled, founders, promoted, demoted, alone, kept>>
vars == <<infraVars, poolVars, accountVars, secretVars, requestVars, history>>

WithConn == {"select", "count", "insert", "access", "create", "owner", "find", "addmember",
             "target", "removemember", "setrole", "audit"}
Steps == WithConn \cup {"idle", "getsecret", "putsecret", "createsecret"}

NoJob == [ask |-> [op |-> "none", user |-> "none", on |-> "none"],
          role |-> "user", read |-> Empty]

TypeOK ==
    /\ InfraTypeOK /\ PoolTypeOK /\ AccountsTypeOK /\ SecretTypeOK
    /\ begun \in 0..MaxRequests
    /\ at \in [Threads -> Steps]
    /\ job \in [Threads -> [ask : Request, role : {"user", "admin"}, read : Dicts] \cup {NoJob}]
    /\ \A t \in Threads : /\ at[t] = "idle" <=> job[t] = NoJob
                          /\ use[t] = "in" => at[t] \in WithConn /\ conn[t].back # 0

Init ==
    /\ InfraInit /\ PoolInit /\ AccountsInit /\ SecretInit
    /\ begun = 0 /\ at = [t \in Threads |-> "idle"] /\ job = [t \in Threads |-> NoJob]
    /\ entitled = [t \in Threads |-> FALSE] /\ alone = [t \in Threads |-> TRUE]
    /\ founders = {} /\ promoted = {} /\ demoted = FALSE
    /\ kept = [k \in Keys |-> "any"]

-----------------------------------------------------------------------------
Ask(t) == job[t].ask
User(t) == Ask(t).user

(* The next step of the request; idle ends it.  *)
Goto(t, step) == /\ at' = [at EXCEPT ![t] = step]
                 /\ job' = IF step = "idle" THEN [job EXCEPT ![t] = NoJob] ELSE job
                 /\ UNCHANGED begun

SameConn == UNCHANGED poolVars

Needed(step) == IF step \in WithConn THEN Asking ELSE "out"

(* From a step without a connection.  *)
Enter(t, step) == /\ Goto(t, step)
                  /\ Moves(t, Needed(step))
                  /\ UNCHANGED <<pool, lent, conn>>

(* From a step with one, which is given back; when that raises the request *)
(* ends, and in log_audit_event it ends anyway.                            *)
Leave(t, step) == LET next == IF PutRaises(t) THEN "idle" ELSE step IN
                  /\ Goto(t, next)
                  /\ PutConn(t, Needed(next))

At(t, step) == at[t] = step /\ (step \in WithConn => use[t] = "in")

(* A committed write of a handler; its answer may be lost all the same.    *)
Answered(t, next) == \/ NoFault /\ Leave(t, next)
                     \/ Fault /\ Leave(t, "idle")

-----------------------------------------------------------------------------
(* get_current_user: whether the token is in _token_cache is not followed. *)
(* It is, or GitHub answers for it; or the entry expires between the look  *)
(* and the read (KeyError), or GitHub does not answer, and nothing else    *)
(* comes of the request.                                                   *)
Start(t, r) ==
    /\ at[t] = "idle" /\ use[t] = "out"
    /\ begun < MaxRequests /\ begun' = begun + 1
    /\ r.op = "create" => ~live /\ \A u \in Threads : Ask(u).op # "create"
    /\ at' = [at EXCEPT ![t] = "select"]
    /\ job' = [job EXCEPT ![t] = [ask |-> r, role |-> "user", read |-> Empty]]
    /\ Moves(t, Asking)
    /\ NoFault /\ UNCHANGED <<pool, lent, conn, accountVars, secretVars>>

(* Where a request goes on for a user of role r.  *)
Admitted(t, r) == IF Ask(t).op = "create" THEN "create"
                  ELSE IF Ask(t).op \notin {"promote", "demote"} THEN "access"
                  ELSE IF r = "admin" THEN "setrole" ELSE "idle"

(* current_user is known, and the connection given back.  *)
BecomesUser(t, r) ==
    LET step == IF PutRaises(t) THEN "idle" ELSE Admitted(t, r) IN
    /\ at' = [at EXCEPT ![t] = step]
    /\ job' = [job EXCEPT ![t] = IF step = "idle" THEN NoJob ELSE [@ EXCEPT !.role = r]]
    /\ PutConn(t, Needed(step))
    /\ UNCHANGED begun

SelectUser(t) ==
    /\ At(t, "select")
    /\ \/ users[User(t)] # "none" /\ BecomesUser(t, users[User(t)])
       \/ users[User(t)] = "none" /\ Goto(t, "count") /\ SameConn
    /\ NoFault /\ UNCHANGED <<accountVars, secretVars>>

(* Mutant: whoever finds no admin becomes one.                             *)
CountAdmins(t) ==
    /\ At(t, "count")
    /\ at' = [at EXCEPT ![t] = "insert"]
    /\ job' = [job EXCEPT ![t].role =
                   IF \E u \in Users : users[u] = "admin" THEN "user" ELSE "admin"]
    /\ SameConn /\ UNCHANGED begun
    /\ NoFault /\ UNCHANGED <<accountVars, secretVars>>

CountUsers(t) ==
    /\ At(t, "count")
    /\ at' = [at EXCEPT ![t] = "insert"]
    /\ job' = [job EXCEPT ![t].role = IF NoUsers THEN "admin" ELSE "user"]
    /\ SameConn /\ UNCHANGED begun
    /\ NoFault /\ UNCHANGED <<accountVars, secretVars>>

(* Another request of the user may have inserted him: UniqueViolation, and *)
(* his row is read.                                                        *)
InsertNewUser(t) ==
    /\ At(t, "insert")
    /\ InsertUser(User(t), job[t].role)
    /\ \/ NoFault /\ BecomesUser(t, users'[User(t)])
       \/ Fault /\ Leave(t, "idle")
    /\ UNCHANGED secretVars

-----------------------------------------------------------------------------
MaySee(t) == live /\ (job[t].role = "admin" \/ members[User(t)] # "none")

(* verify_project_access; remove_project_member then refuses to remove the *)
(* caller himself.                                                         *)
CheckAccess(t) ==
    /\ At(t, "access")
    /\ Leave(t, IF ~MaySee(t) THEN "idle"
                ELSE IF Ask(t).op \in {"put", "del"} THEN "getsecret"
                ELSE IF Ask(t).op = "remove" /\ Ask(t).on = User(t) THEN "idle"
                ELSE "owner")
    /\ NoFault /\ UNCHANGED <<accountVars, secretVars>>

(* Mutant: every member may manage members.                                *)
CheckMember(t) ==
    /\ At(t, "owner")
    /\ Goto(t, IF Ask(t).op = "add" THEN "find" ELSE "target")
    /\ SameConn
    /\ NoFault /\ UNCHANGED <<accountVars, secretVars>>

CheckOwner(t) ==
    /\ At(t, "owner")
    /\ \/ /\ job[t].role = "admin" \/ members[User(t)] = "owner"
          /\ Goto(t, IF Ask(t).op = "add" THEN "find" ELSE "target")
          /\ SameConn
       \/ /\ job[t].role # "admin" /\ members[User(t)] # "owner"
          /\ Leave(t, "idle")
    /\ NoFault /\ UNCHANGED <<accountVars, secretVars>>

FindUser(t) ==
    /\ At(t, "find")
    /\ \/ users[Ask(t).on] # "none" /\ Goto(t, "addmember") /\ SameConn
       \/ users[Ask(t).on] = "none" /\ Leave(t, "idle")
    /\ NoFault /\ UNCHANGED <<accountVars, secretVars>>

(* RETURNING role, created_at: without the column the statement raises.    *)
AddMember(t) == /\ At(t, "addmember")
                /\ \/ dated /\ InsertMember(Ask(t).on) /\ Answered(t, "idle")
                   \/ ~dated /\ NoFault /\ Leave(t, "idle") /\ UNCHANGED accountVars
                /\ UNCHANGED secretVars

(* Mutant: any member can be removed.                                      *)
FindMember(t) ==
    /\ At(t, "target")
    /\ \/ members[Ask(t).on] # "none" /\ Goto(t, "removemember") /\ SameConn
       \/ members[Ask(t).on] = "none" /\ Leave(t, "idle")
    /\ NoFault /\ UNCHANGED <<accountVars, secretVars>>

FindTarget(t) ==
    /\ At(t, "target")
    /\ \/ members[Ask(t).on] = "editor" /\ Goto(t, "removemember") /\ SameConn
       \/ members[Ask(t).on] # "editor" /\ Leave(t, "idle")
    /\ NoFault /\ UNCHANGED <<accountVars, secretVars>>

RemoveMember(t) == /\ At(t, "removemember")
                   /\ DeleteMember(Ask(t).on)
                   /\ Answered(t, "idle")
                   /\ UNCHANGED secretVars

CreateProject(t) == /\ At(t, "create")
                    /\ InsertProject(User(t))
                    /\ Answered(t, "audit")
                    /\ UNCHANGED secretVars

UpdateRole(t) ==
    /\ At(t, "setrole")
    /\ SetRole(Ask(t).on, IF Ask(t).op = "promote" THEN "admin" ELSE "user")
    /\ Answered(t, IF users[Ask(t).on] = "none" THEN "idle" ELSE "audit")
    /\ UNCHANGED secretVars

(* INSERT INTO audit_logs; what it raises is swallowed.  No other step     *)
(* reads the table, which is not kept here.                                *)
LogAudit(t) == /\ At(t, "audit")
               /\ Answered(t, "idle")
               /\ UNCHANGED <<accountVars, secretVars>>

(* Mutant: the connection is not given back when a statement raises.       *)
StatementFailsHolding(t) ==
    /\ use[t] = "in"
    /\ Fault
    /\ Goto(t, "idle")
    /\ Moves(t, "out") /\ conn' = [conn EXCEPT ![t] = NoConn] /\ UNCHANGED <<pool, lent>>
    /\ UNCHANGED <<accountVars, secretVars>>

(* A statement raises without effect.  *)
StatementFails(t) == /\ use[t] = "in"
                     /\ Fault
                     /\ Leave(t, "idle")
                     /\ UNCHANGED <<accountVars, secretVars>>

-----------------------------------------------------------------------------
(* delete_env_var is done when the variable is not there.                  *)
Reading(t, d) ==
    \/ /\ Ask(t).op = "put" \/ d[Ask(t).on] # "none"
       /\ at' = [at EXCEPT ![t] = "putsecret"]
       /\ job' = [job EXCEPT ![t].read = d]
       /\ SameConn /\ UNCHANGED begun
    \/ /\ Ask(t).op = "del" /\ d[Ask(t).on] = "none"
       /\ Enter(t, "idle")

(* Mutant: a secret that cannot be read is taken for an empty one.         *)
GetSecretOrEmpty(t) ==
    /\ At(t, "getsecret")
    /\ \/ NoFault /\ Reading(t, secret)
       \/ Fault /\ Reading(t, Empty)
    /\ UNCHANGED <<accountVars, secretVars>>

(* get_secret_value; a secret that was never created counts as empty.      *)
GetSecret(t) == /\ At(t, "getsecret")
                /\ \/ NoFault /\ Reading(t, secret)
                   \/ Fault /\ Enter(t, "idle")
                /\ UNCHANGED <<accountVars, secretVars>>

(* secret_dict with the one change.  *)
Changed(t) == [job[t].read EXCEPT ![Ask(t).on] = IF Ask(t).op = "put" THEN User(t) ELSE "none"]

PutSecret(t) ==
    /\ At(t, "putsecret")
    /\ \/ NoFault /\ UpdateSecret(Changed(t)) /\ Enter(t, "audit")
       \/ NoFault /\ ~made /\ Goto(t, "createsecret") /\ SameConn /\ UNCHANGED secretVars
       \/ Fault /\ (UpdateSecret(Changed(t)) \/ UNCHANGED secretVars) /\ Enter(t, "idle")
    /\ UNCHANGED accountVars

(* Somebody else may have created it: ResourceExistsException.  *)
PutNewSecret(t) ==
    /\ At(t, "createsecret")
    /\ \/ NoFault /\ CreateSecret(Changed(t)) /\ Enter(t, "audit")
       \/ NoFault /\ made /\ Enter(t, "idle") /\ UNCHANGED secretVars
       \/ Fault /\ (CreateSecret(Changed(t)) \/ UNCHANGED secretVars) /\ Enter(t, "idle")
    /\ UNCHANGED accountVars

-----------------------------------------------------------------------------
(* No pool, no connection of the pool left, or none to be had: PoolError   *)
(* or OperationalError.                                                    *)
NoConnection(t) == /\ \/ use[t] = "get" /\ ~HasRoom /\ NoFault
                      \/ use[t] \in {"get", "make"} /\ Fault
                   /\ Enter(t, "idle")
                   /\ UNCHANGED <<accountVars, secretVars>>

Connect(t) == /\ CheckPool(t) \/ MakePool(t) \/ GetConn(t) \/ Wrap(t)
              /\ NoFault /\ UNCHANGED <<accountVars, secretVars, requestVars>>

Step(t) == \/ SelectUser(t) \/ CountUsers(t) \/ InsertNewUser(t) \/ CheckAccess(t)
           \/ CreateProject(t) \/ UpdateRole(t) \/ CheckOwner(t) \/ FindUser(t) \/ AddMember(t)
           \/ FindTarget(t) \/ RemoveMember(t)
           \/ GetSecret(t) \/ PutSecret(t) \/ PutNewSecret(t) \/ LogAudit(t)
           \/ Connect(t) \/ NoConnection(t) \/ StatementFails(t)

-----------------------------------------------------------------------------
(* What a request needs.  *)
Entitled(t) ==
    LET op == Ask(t).op  u == User(t) IN
    /\ at[t] # "idle"
    /\ \/ op = "create" \/ users[u] = "admin"
       \/ op \in {"add", "remove"} /\ members[u] = "owner"
       \/ op \in {"put", "del"} /\ members[u] # "none"

OnVariables(t) == Ask(t).op \in {"put", "del"}

HasWritten(t) == at[t] \in {"putsecret", "createsecret"} /\ at'[t] = "audit"

(* The history variables, after each step of the program.                  *)
Record ==
    /\ entitled' = [t \in Threads |-> at'[t] # "idle" /\ (entitled[t] \/ Entitled(t)')]
    /\ founders' = IF NoUsers /\ ~NoUsers' THEN {User(t) : t \in {x \in Threads : at[x] # "idle"}}
                                           ELSE founders
    /\ promoted' = promoted \cup {u \in Users : users[u] = "user" /\ users'[u] = "admin"}
    /\ demoted' = (demoted \/ \E u \in Users : users[u] = "admin" /\ users'[u] = "user")
    /\ alone' = [t \in Threads |->
                    OnVariables(t)' => alone[t] /\ \A u \in Threads \ {t} : ~OnVariables(u)']
    /\ kept' = [k \in Keys |->
                    IF \E t \in Threads : at[t] = "idle" /\ OnVariables(t)' /\ Ask(t)'.on = k
                    THEN "any"
                    ELSE IF \E t \in Threads : HasWritten(t) /\ alone[t] /\ Ask(t).on = k
                    THEN secret'[k]
                    ELSE kept[k]]

Next == /\ \E t \in Threads : Step(t) \/ \E r \in Request : Start(t, r)
        /\ Record

Spec == Init /\ [][Next]_vars

-----------------------------------------------------------------------------

(* Once somebody is a user there is an admin, unless one was demoted; and  *)
(* nobody becomes one without being promoted whose first request began     *)
(* when the first user was already there.                                  *)
Founded == /\ ~NoUsers /\ ~demoted => \E u \in Users : users[u] = "admin"
           /\ {u \in Users : users[u] = "admin"} \subseteq founders \cup promoted

(* A request changes members, roles or variables only for a user who had   *)
(* the right to at some time since it began: what a user was refused, lost *)
(* or was removed from before stays out of reach, whatever is cached.      *)
ActsEntitled ==
    \A t \in Threads : at[t] \in {"setrole", "addmember", "removemember", "getsecret",
                                  "putsecret", "createsecret"} => entitled[t]

(* A project keeps its owner.                                              *)
OwnerStays == live => \E u \in Users : members[u] = "owner"

(* The variables are read and written back as one: what a request has left *)
(* in a variable while it was the only one stays there until a request for *)
(* that variable, whatever those for others do meanwhile.                  *)
VariablesKept == \A k \in Keys : kept[k] # "any" => secret[k] = kept[k]
=============================================================================
