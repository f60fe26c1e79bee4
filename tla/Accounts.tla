------------------------------ MODULE Accounts ------------------------------
(***************************************************************************)
(* The users table and the members of one project.  The roles editor and   *)
(* viewer are one here: the code tells only owners from other members.     *)
(***************************************************************************)
EXTENDS Naturals

CONSTANT Users

VARIABLES users,         \* role in the users table, or none
          members,       \* role in project_members, or none
          live,          \* the project has been created
          dated          \* project_members has the column created_at, which
                         \* migrations/01_project_members.sql gives it and
                         \* schema.sql, all that init_db runs, does not

accountVars == <<users, members, live, dated>>

AccountsTypeOK == /\ users \in [Users -> {"none", "user", "admin"}]
                  /\ members \in [Users -> {"none", "editor", "owner"}]
                  /\ live \in BOOLEAN /\ dated \in BOOLEAN

AccountsInit == /\ users = [u \in Users |-> "none"]
                /\ members = [u \in Users |-> "none"]
                /\ live = FALSE /\ dated \in BOOLEAN

NoUsers == \A u \in Users : users[u] = "none"

(* INSERT INTO users, unless the user is there: PRIMARY KEY.  *)
InsertUser(u, role) ==
    /\ users' = IF users[u] = "none" THEN [users EXCEPT ![u] = role] ELSE users
    /\ UNCHANGED <<members, live, dated>>

SetRole(u, role) ==
    /\ users' = IF users[u] = "none" THEN users ELSE [users EXCEPT ![u] = role]
    /\ UNCHANGED <<members, live, dated>>

(* The project and its first member, in one transaction.  *)
InsertProject(u) == /\ live' = TRUE
                    /\ members' = [members EXCEPT ![u] = "owner"]
                    /\ UNCHANGED <<users, dated>>

(* INSERT INTO project_members: PRIMARY KEY (project_id, user_id).  *)
InsertMember(u) ==
    /\ members' = IF members[u] = "none" THEN [members EXCEPT ![u] = "editor"] ELSE members
    /\ UNCHANGED <<users, live, dated>>

DeleteMember(u) == /\ members' = [members EXCEPT ![u] = "none"]
                   /\ UNCHANGED <<users, live, dated>>
=============================================================================
