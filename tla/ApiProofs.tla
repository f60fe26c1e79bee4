----------------------------- MODULE ApiProofs ------------------------------
(***************************************************************************)
(* What the request threads may rely on, for all sets of threads, users,   *)
(* variables and requests and every bound on them.                         *)
(*                                                                         *)
(* Each step is first reduced to what it does to the requests, the         *)
(* accounts and the secret (Effect) and to the pool (ConnEffect); the      *)
(* invariants are then proved of the effects:                              *)
(*   Typed, InOrder     types, and which steps belong to which request     *)
(*   PoolInv, PoolUse   the pool counts what the threads hold              *)
(*   Rights             who has passed a check was entitled since Start    *)
(*   Ownership          who is to be removed is not the owner              *)
(*   Founding           who is to be inserted as an admin saw no user      *)
(*   Variables          what is to be written back is what is in the       *)
(*                      secret, but for the one variable                   *)
(***************************************************************************)
EXTENDS ApiService, FiniteSetTheorems, SequenceTheorems, TLAPS

(***************************************************************************)
(* The pool counts right: what it has lent are the connections the threads *)
(* hold, for every number of threads and of connections.  A connection can *)
(* only be given back to a pool made after the one it is from, and then it *)
(* is one of a pool nobody takes connections from any more.                *)
(***************************************************************************)
Holders(n) == {t \in Threads : conn[t].from = n}

PoolInv ==
    /\ lent \in Seq(0..MaxConn) /\ pool = Len(lent)
    /\ use \in [Threads -> Uses]
    /\ conn \in [Threads -> [from : 0..pool, back : 0..pool]]
    /\ \A t \in Threads : use[t] \notin {"wrap", "in"} => conn[t] = NoConn
    /\ \A t \in Threads : use[t] \in {"wrap", "in"} => conn[t].from # 0
    /\ \A t \in Threads : use[t] = "in" => conn[t].back >= conn[t].from
    /\ \A n \in 1..pool : lent[n] >= Cardinality(Holders(n))
    /\ pool # 0 => lent[pool] = Cardinality(Holders(pool))

LEMMA LentTypes ==
    ASSUME PoolInv
    PROVE  /\ pool \in Nat /\ pool = Len(lent)
           /\ \A n \in 1..pool : lent[n] \in 0..MaxConn /\ lent[n] \in Nat
<1>1. pool \in Nat /\ pool = Len(lent) /\ \A n \in 1..pool : lent[n] \in 0..MaxConn
  BY LenProperties, ElementOfSeq DEF PoolInv
<1>2. \A m \in 0..MaxConn : m \in Nat
  BY PoolAssumption
<1> QED BY <1>1, <1>2

LEMMA PoolInvImplies == PoolInv => PoolTypeOK /\ NoConnLost
<1> SUFFICES ASSUME PoolInv PROVE PoolTypeOK /\ NoConnLost
  OBVIOUS
<1>1. PoolTypeOK
  BY LentTypes DEF PoolInv, PoolTypeOK
<1> QED BY <1>1 DEF PoolInv, NoConnLost, Holders

LEMMA HoldersFinite == ASSUME NEW n PROVE IsFiniteSet(Holders(n)) /\ Cardinality(Holders(n)) \in Nat
<1>1. IsFiniteSet(Holders(n))
  BY PoolAssumption, FS_Subset DEF Holders
<1> QED BY <1>1, FS_CardinalityType

LEMMA InitPool == PoolInit => PoolInv
<1> SUFFICES ASSUME PoolInit PROVE PoolInv
  OBVIOUS
<1>1. lent \in Seq(0..MaxConn) /\ pool = Len(lent) /\ use \in [Threads -> Uses]
  <2>1. <<>> \in Seq(0..MaxConn) /\ <<0>> \in Seq(0..MaxConn)
    BY PoolAssumption
  <2> QED BY <2>1 DEF PoolInit, Uses
<1>2. \A t \in Threads : conn[t] = NoConn /\ use[t] = "out"
  BY DEF PoolInit
<1>3. conn \in [Threads -> [from : 0..pool, back : 0..pool]]
  <2>1. NoConn \in [from : 0..pool, back : 0..pool]
    BY <1>1 DEF NoConn
  <2> QED BY <2>1 DEF PoolInit
<1>4. ASSUME NEW n \in 1..pool PROVE lent[n] = 0 /\ Cardinality(Holders(n)) = 0
  <2>1. lent[n] = 0
    BY DEF PoolInit
  <2>2. Holders(n) = {}
    BY <1>2 DEF Holders, NoConn
  <2> QED BY <2>1, <2>2, FS_EmptySet
<1> QED BY <1>1, <1>2, <1>3, <1>4 DEF PoolInv

(* A thread that holds no connection changes what it is about to do.       *)
LEMMA PoolMoves ==
    ASSUME PoolInv, NEW t \in Threads, NEW u \in {"out", "check", "make", "get"},
           use[t] \notin {"wrap", "in"}, Moves(t, u), UNCHANGED <<pool, lent, conn>>
    PROVE  PoolInv'
<1>1. use' \in [Threads -> Uses] /\ use'[t] = u /\ \A v \in Threads \ {t} : use'[v] = use[v]
  BY DEF PoolInv, Moves, Uses
<1>2. \A n : Holders(n)' = Holders(n)
  BY DEF Holders
<1>3. \A v \in Threads : /\ use'[v] \notin {"wrap", "in"} => conn[v] = NoConn
                         /\ use'[v] \in {"wrap", "in"} => use'[v] = use[v]
  BY <1>1 DEF PoolInv
<1> QED BY <1>1, <1>2, <1>3 DEF PoolInv

LEMMA PoolMade == ASSUME PoolInv, NEW t \in Threads, MakePool(t) PROVE PoolInv'
<1>1. /\ lent' = Append(lent, 0) /\ pool' = pool + 1 /\ conn' = conn
      /\ use[t] = "make" /\ use' = [use EXCEPT ![t] = "get"]
  BY DEF MakePool, Moves
<1>2. /\ lent' \in Seq(0..MaxConn) /\ pool' = Len(lent') /\ lent'[pool'] = 0
      /\ \A n \in 1..pool : lent'[n] = lent[n]
      /\ pool \in Nat
  BY <1>1, PoolAssumption DEF PoolInv
<1>3. conn \in [Threads -> [from : 0..pool', back : 0..pool']]
  BY <1>1, <1>2 DEF PoolInv
<1>4. \A n : Holders(n)' = Holders(n)
  BY <1>1 DEF Holders
<1>5. Cardinality(Holders(pool')) = 0
  <2>1. Holders(pool') = {}
    BY <1>1, <1>2 DEF PoolInv, Holders
  <2> QED BY <2>1, FS_EmptySet
<1>6. use' \in [Threads -> Uses] /\ use'[t] = "get" /\ \A v \in Threads \ {t} : use'[v] = use[v]
  BY <1>1 DEF PoolInv, Uses
<1>7. \A n \in 1..pool' : lent'[n] >= Cardinality(Holders(n))
  BY <1>1, <1>2, <1>5 DEF PoolInv
<1> QED BY <1>1, <1>2, <1>3, <1>4, <1>5, <1>6, <1>7 DEF PoolInv

LEMMA PoolLends == ASSUME PoolInv, NEW t \in Threads, GetConn(t) PROVE PoolInv'
<1>1. PICK back \in {0, pool}, u \in {"wrap", "in"} :
          /\ conn' = [conn EXCEPT ![t] = [from |-> pool, back |-> back]]
          /\ use' = [use EXCEPT ![t] = u]
          /\ u = "in" => back = pool
  BY DEF GetConn, Moves
<1>2. /\ use[t] = "get" /\ pool # 0 /\ lent[pool] < MaxConn /\ pool' = pool
      /\ lent' = [lent EXCEPT ![pool] = @ + 1] /\ conn[t] = NoConn
  BY DEF GetConn, HasRoom, PoolInv
<1>3. pool \in Nat /\ pool \in 1..Len(lent) /\ lent[pool] \in Nat
  BY <1>2, LentTypes
<1>4. /\ lent' \in Seq(0..MaxConn) /\ Len(lent') = Len(lent) /\ lent'[pool] = lent[pool] + 1
      /\ \A n \in 1..pool : n # pool => lent'[n] = lent[n]
  <2>1. lent[pool] + 1 \in 0..MaxConn
    BY <1>2, <1>3, PoolAssumption
  <2> QED BY <1>2, <1>3, <2>1, LentTypes, ExceptSeq DEF PoolInv
<1>5. use' \in [Threads -> Uses] /\ use'[t] = u /\ \A v \in Threads \ {t} : use'[v] = use[v]
  BY <1>1 DEF PoolInv, Uses
<1>6. /\ conn' \in [Threads -> [from : 0..pool, back : 0..pool]]
      /\ conn'[t] = [from |-> pool, back |-> back]
      /\ \A v \in Threads \ {t} : conn'[v] = conn[v]
  BY <1>1, <1>3 DEF PoolInv
<1>7. Cardinality(Holders(pool)') = Cardinality(Holders(pool)) + 1
  <2>1. Holders(pool)' = Holders(pool) \cup {t} /\ t \notin Holders(pool)
    BY <1>2, <1>6 DEF Holders, NoConn
  <2> QED BY <2>1, HoldersFinite, FS_AddElement
<1>8. \A n \in 1..pool : n # pool => Holders(n)' = Holders(n)
  BY <1>2, <1>6 DEF Holders, NoConn
<1>9. lent'[pool] = Cardinality(Holders(pool)')
  BY <1>2, <1>4, <1>7 DEF PoolInv
<1>10. \A n \in 1..pool : lent'[n] >= Cardinality(Holders(n)')
  <2>1. ASSUME NEW n \in 1..pool, n # pool PROVE lent'[n] >= Cardinality(Holders(n)')
    BY <1>4, <1>8, <2>1 DEF PoolInv
  <2>2. lent'[pool] \in Nat
    BY <1>3, <1>4
  <2> QED BY <1>2, <1>9, <2>1, <2>2
<1>11. \A v \in Threads : /\ use'[v] \notin {"wrap", "in"} => conn'[v] = NoConn
                          /\ use'[v] \in {"wrap", "in"} => conn'[v].from # 0
                          /\ use'[v] = "in" => conn'[v].back >= conn'[v].from
  BY <1>1, <1>2, <1>3, <1>5, <1>6 DEF PoolInv
<1> QED BY <1>2, <1>4, <1>5, <1>6, <1>9, <1>10, <1>11 DEF PoolInv, Holders

LEMMA PoolWraps == ASSUME PoolInv, NEW t \in Threads, Wrap(t) PROVE PoolInv'
<1>1. /\ use[t] = "wrap" /\ conn' = [conn EXCEPT ![t].back = pool]
      /\ use' = [use EXCEPT ![t] = "in"] /\ UNCHANGED <<pool, lent>>
  BY DEF Wrap, Moves
<1>2. pool \in Nat
  BY DEF PoolInv
<1>3. use' \in [Threads -> Uses] /\ use'[t] = "in" /\ \A v \in Threads \ {t} : use'[v] = use[v]
  BY <1>1 DEF PoolInv, Uses
<1>4. /\ conn' \in [Threads -> [from : 0..pool, back : 0..pool]]
      /\ conn'[t].from = conn[t].from /\ conn'[t].back = pool
      /\ \A v \in Threads \ {t} : conn'[v] = conn[v]
  BY <1>1, <1>2 DEF PoolInv
<1>5. \A n : Holders(n)' = Holders(n)
  BY <1>4 DEF Holders
<1>6. \A v \in Threads : /\ use'[v] \notin {"wrap", "in"} => conn'[v] = NoConn
                         /\ use'[v] \in {"wrap", "in"} => conn'[v].from # 0
                         /\ use'[v] = "in" => conn'[v].back >= conn'[v].from
  BY <1>1, <1>2, <1>3, <1>4 DEF PoolInv
<1> QED BY <1>1, <1>3, <1>4, <1>5, <1>6 DEF PoolInv

(* When giving it back raises, the connection stays lent in a pool that is *)
(* no longer db_pool.                                                      *)
LEMMA PoolTakesBack ==
    ASSUME PoolInv, NEW t \in Threads, NEW u \in {"out", "check", "get"}, PutConn(t, u)
    PROVE  PoolInv'
<1>0. PICK n \in 0..pool : n = conn[t].from
  BY DEF PoolInv
<1>1. /\ use[t] = "in" /\ use' = [use EXCEPT ![t] = u] /\ conn' = [conn EXCEPT ![t] = NoConn]
      /\ pool' = pool
      /\ lent' = IF n # conn[t].back THEN lent ELSE [lent EXCEPT ![n] = @ - 1]
  BY <1>0 DEF PutConn, Moves, PutRaises
<1>2. pool \in Nat /\ n \in 1..pool /\ conn[t].back \in n..pool
  BY <1>0, <1>1 DEF PoolInv
<1>3. use' \in [Threads -> Uses] /\ use'[t] = u /\ \A v \in Threads \ {t} : use'[v] = use[v]
  BY <1>1 DEF PoolInv, Uses
<1>4. /\ conn' \in [Threads -> [from : 0..pool, back : 0..pool]]
      /\ conn'[t] = NoConn /\ \A v \in Threads \ {t} : conn'[v] = conn[v]
  BY <1>1, <1>2 DEF PoolInv, NoConn
<1>5. /\ Cardinality(Holders(n)') = Cardinality(Holders(n)) - 1
      /\ Cardinality(Holders(n)) \in Nat /\ Cardinality(Holders(n)') \in Nat
  <2>1. Holders(n)' = Holders(n) \ {t} /\ t \in Holders(n)
    BY <1>0, <1>2, <1>4 DEF Holders, NoConn
  <2>2. IsFiniteSet(Holders(n)) /\ Cardinality(Holders(n)) \in Nat
    BY HoldersFinite
  <2>3. IsFiniteSet(Holders(n)') /\ Cardinality(Holders(n)') \in Nat
    BY <2>1, <2>2, FS_RemoveElement, FS_CardinalityType
  <2> QED BY <2>1, <2>2, <2>3, FS_RemoveElement
<1>6. \A m \in 1..pool : m # n => Holders(m)' = Holders(m)
  BY <1>0, <1>2, <1>4 DEF Holders, NoConn
<1>7. lent[n] \in 0..MaxConn /\ lent[n] >= Cardinality(Holders(n)) /\ n \in 1..Len(lent)
  BY <1>2, LentTypes DEF PoolInv
<1>8. /\ lent' \in Seq(0..MaxConn) /\ Len(lent') = Len(lent)
      /\ \A m \in 1..pool : lent'[m] >= Cardinality(Holders(m)')
      /\ lent'[pool] = Cardinality(Holders(pool)')
  <2>1. CASE n # conn[t].back
    <3>1. n # pool /\ pool \in 1..pool /\ lent' = lent
      BY <1>1, <1>2, <2>1
    <3>2. lent[pool] = Cardinality(Holders(pool)')
      BY <1>1, <1>2, <1>6, <3>1 DEF PoolInv
    <3>3. ASSUME NEW m \in 1..pool PROVE lent[m] >= Cardinality(Holders(m)')
      <4>1. CASE m = n
        BY <1>5, <1>7, <4>1
      <4> QED BY <1>6, <4>1 DEF PoolInv
    <3> QED BY <3>1, <3>2, <3>3 DEF PoolInv
  <2>2. CASE n = conn[t].back
    <3>1. lent' = [lent EXCEPT ![n] = lent[n] - 1]
      BY <1>1, <2>2
    <3>2. lent[n] - 1 \in 0..MaxConn
      BY <1>5, <1>7, PoolAssumption
    <3>3. /\ lent' \in Seq(0..MaxConn) /\ Len(lent') = Len(lent)
          /\ lent'[n] = lent[n] - 1 /\ \A m \in 1..pool : m # n => lent'[m] = lent[m]
      BY <1>7, <3>1, <3>2, LentTypes, ExceptSeq DEF PoolInv
    <3>4. ASSUME NEW m \in 1..pool PROVE lent'[m] >= Cardinality(Holders(m)')
      <4>1. CASE m = n
        BY <1>5, <1>7, <3>3, <4>1
      <4> QED BY <1>6, <3>3, <4>1 DEF PoolInv
    <3>5. lent'[pool] = Cardinality(Holders(pool)')
      <4>1. pool \in 1..pool /\ pool # 0
        BY <1>2
      <4>2. CASE pool = n
        BY <1>1, <1>5, <3>3, <4>1, <4>2 DEF PoolInv
      <4>3. CASE pool # n
        BY <1>1, <1>6, <3>3, <4>1, <4>3 DEF PoolInv
      <4> QED BY <4>2, <4>3
    <3> QED BY <3>3, <3>4, <3>5
  <2> QED BY <2>1, <2>2
<1>9. \A v \in Threads : /\ use'[v] \notin {"wrap", "in"} => conn'[v] = NoConn
                         /\ use'[v] \in {"wrap", "in"} => conn'[v].from # 0
                         /\ use'[v] = "in" => conn'[v].back >= conn'[v].from
  BY <1>3, <1>4 DEF PoolInv
<1> QED BY <1>1, <1>3, <1>4, <1>8, <1>9 DEF PoolInv, Holders

(***************************************************************************)
(* The requests.                                                           *)
(***************************************************************************)
Early == {"select", "count", "insert"}
OnMembers == {"owner", "find", "addmember", "target", "removemember"}
OnSecret == {"getsecret", "putsecret", "createsecret"}

Jobs == [ask : Request, role : {"user", "admin"}, read : Dicts]

(* Types, and which steps belong to which request.                         *)
Typed ==
    /\ AccountsTypeOK /\ SecretTypeOK
    /\ at \in [Threads -> Steps]
    /\ job \in [Threads -> Jobs \cup {NoJob}]
    /\ \A t \in Threads : at[t] = "idle" <=> job[t] = NoJob
    /\ \A t \in Threads : at[t] # "idle" => job[t] \in Jobs

InOrderOf(t) ==
    /\ at[t] = "create" => Ask(t).op = "create"
    /\ at[t] = "access" => Ask(t).op \in {"add", "remove", "put", "del"}
    /\ at[t] \in OnMembers => Ask(t).op \in {"add", "remove"}
    /\ at[t] \in OnSecret => Ask(t).op \in {"put", "del"}

InOrder == \A t \in Threads : InOrderOf(t)

-----------------------------------------------------------------------------
(* The thread goes to a step, with what it then knows.                     *)
Becomes(t, step, j) == at' = [at EXCEPT ![t] = step] /\ job' = [job EXCEPT ![t] = j]

Ends(t) == Becomes(t, "idle", NoJob)

SameData == UNCHANGED <<accountVars, secretVars>>

Begins(t, r) == /\ at[t] = "idle"
                /\ r.op = "create" => ~live /\ \A u \in Threads : Ask(u).op # "create"
                /\ Becomes(t, "select", [ask |-> r, role |-> "user", read |-> Empty])
                /\ SameData

Known(t, r) == /\ Admitted(t, r) # "idle"
               /\ Becomes(t, Admitted(t, r), [job[t] EXCEPT !.role = r])

Quiet(t) == SameData /\ (UNCHANGED <<at, job>> \/ Ends(t))

Selects(t) == /\ at[t] = "select" /\ SameData
              /\ \/ users[User(t)] # "none" /\ Known(t, users[User(t)])
                 \/ Becomes(t, "count", job[t])

Counts(t) == /\ at[t] = "count" /\ SameData
             /\ Becomes(t, "insert", [job[t] EXCEPT !.role = IF NoUsers THEN "admin" ELSE "user"])

Inserts(t) == /\ at[t] = "insert" /\ InsertUser(User(t), job[t].role) /\ UNCHANGED secretVars
              /\ Known(t, users'[User(t)]) \/ Ends(t)

Passes(t) == /\ at[t] = "access" /\ MaySee(t) /\ SameData
             /\ \/ Ask(t).op \in {"put", "del"} /\ Becomes(t, "getsecret", job[t])
                \/ Ask(t).op \notin {"put", "del"} /\ Becomes(t, "owner", job[t])

Owns(t) == /\ at[t] = "owner" /\ SameData
           /\ job[t].role = "admin" \/ members[User(t)] = "owner"
           /\ Becomes(t, IF Ask(t).op = "add" THEN "find" ELSE "target", job[t])

Finds(t) == /\ SameData
            /\ \/ at[t] = "find" /\ Becomes(t, "addmember", job[t])
               \/ /\ at[t] = "target" /\ members[Ask(t).on] = "editor"
                  /\ Becomes(t, "removemember", job[t])

Enrols(t) == /\ UNCHANGED secretVars /\ Ends(t)
             /\ \/ at[t] = "addmember" /\ InsertMember(Ask(t).on)
                \/ at[t] = "removemember" /\ DeleteMember(Ask(t).on)

Administers(t) ==
    /\ UNCHANGED secretVars /\ (Ends(t) \/ Becomes(t, "audit", job[t]))
    /\ \/ at[t] = "create" /\ InsertProject(User(t))
       \/ /\ at[t] = "setrole"
          /\ SetRole(Ask(t).on, IF Ask(t).op = "promote" THEN "admin" ELSE "user")

Reads(t) == /\ at[t] = "getsecret" /\ SameData
            /\ Becomes(t, "putsecret", [job[t] EXCEPT !.read = secret])

Defers(t) == at[t] = "putsecret" /\ SameData /\ Becomes(t, "createsecret", job[t])

Puts(t) == /\ at[t] \in {"putsecret", "createsecret"} /\ UNCHANGED accountVars
           /\ made' \in BOOLEAN /\ secret' = Changed(t)
           /\ Ends(t) \/ Becomes(t, "audit", job[t])

Effect(t) == \/ Quiet(t) \/ Selects(t) \/ Counts(t) \/ Inserts(t) \/ Passes(t) \/ Owns(t)
             \/ Finds(t) \/ Enrols(t) \/ Administers(t) \/ Reads(t) \/ Defers(t) \/ Puts(t)

-----------------------------------------------------------------------------
LEMMA GotoEffect ==
    ASSUME Typed, NEW t \in Threads, NEW step, Goto(t, step)
    PROVE  (step = "idle" /\ Ends(t)) \/ (step # "idle" /\ Becomes(t, step, job[t]))
<1>1. job = [job EXCEPT ![t] = job[t]]
  BY DEF Typed
<1>2. CASE step = "idle"
  BY <1>2 DEF Goto, Ends, Becomes
<1>3. CASE step # "idle"
  BY <1>1, <1>3 DEF Goto, Becomes
<1> QED BY <1>2, <1>3

LEMMA LeaveEffect ==
    ASSUME Typed, NEW t \in Threads, NEW step, Leave(t, step)
    PROVE  Ends(t) \/ (step # "idle" /\ Becomes(t, step, job[t]))
<1> DEFINE next == IF PutRaises(t) THEN "idle" ELSE step
<1>1. Goto(t, next)
  BY DEF Leave
<1>2. next = "idle" \/ next = step
  OBVIOUS
<1> HIDE DEF next
<1> QED BY <1>1, <1>2, GotoEffect

LEMMA KnownEffect ==
    ASSUME NEW t \in Threads, NEW r, BecomesUser(t, r)
    PROVE  Ends(t) \/ Known(t, r)
<1>1. CASE PutRaises(t) \/ Admitted(t, r) = "idle"
  BY <1>1 DEF BecomesUser, Ends, Becomes
<1>2. CASE ~PutRaises(t) /\ Admitted(t, r) # "idle"
  BY <1>2 DEF BecomesUser, Known, Becomes
<1> QED BY <1>1, <1>2

LEMMA UserEffect ==
    ASSUME Typed, NEW t \in Threads, SelectUser(t) \/ CountUsers(t) \/ InsertNewUser(t)
    PROVE  Effect(t)
<1>1. CASE SelectUser(t)
  <2>1. at[t] = "select" /\ SameData
    BY <1>1 DEF SelectUser, At, SameData
  <2>2. CASE users[User(t)] # "none" /\ BecomesUser(t, users[User(t)])
    BY <2>1, <2>2, KnownEffect DEF Effect, Selects, Quiet
  <2>3. CASE Goto(t, "count")
    BY <2>1, <2>3, GotoEffect DEF Effect, Selects
  <2> QED BY <1>1, <2>2, <2>3 DEF SelectUser
<1>2. CASE CountUsers(t)
  BY <1>2 DEF CountUsers, At, Effect, Counts, Becomes, SameData
<1>3. CASE InsertNewUser(t)
  <2>1. at[t] = "insert" /\ InsertUser(User(t), job[t].role) /\ UNCHANGED secretVars
    BY <1>3 DEF InsertNewUser, At
  <2>2. Ends(t) \/ Known(t, users'[User(t)])
    BY <1>3, KnownEffect, LeaveEffect DEF InsertNewUser
  <2> QED BY <2>1, <2>2 DEF Effect, Inserts
<1> QED BY <1>1, <1>2, <1>3

LEMMA CheckEffect ==
    ASSUME Typed, NEW t \in Threads,
           CheckAccess(t) \/ CheckOwner(t) \/ FindUser(t) \/ FindTarget(t)
    PROVE  Effect(t)
<1>0. SameData
  BY DEF CheckAccess, CheckOwner, FindUser, FindTarget, SameData
<1>1. CASE CheckAccess(t)
  <2>1. at[t] = "access"
    BY <1>1 DEF CheckAccess, At
  <2>2. \/ Leave(t, "idle")
        \/ MaySee(t) /\ Ask(t).op \in {"put", "del"} /\ Leave(t, "getsecret")
        \/ MaySee(t) /\ Ask(t).op \notin {"put", "del"} /\ Leave(t, "owner")
    BY <1>1 DEF CheckAccess
  <2> QED BY <1>0, <2>1, <2>2, LeaveEffect DEF Effect, Passes, Quiet
<1>2. CASE CheckOwner(t)
  <2>1. at[t] = "owner"
    BY <1>2 DEF CheckOwner, At
  <2>2. CASE Leave(t, "idle")
    BY <1>0, <2>2, LeaveEffect DEF Effect, Quiet
  <2>3. CASE /\ job[t].role = "admin" \/ members[User(t)] = "owner"
             /\ Goto(t, IF Ask(t).op = "add" THEN "find" ELSE "target")
    BY <1>0, <2>1, <2>3, GotoEffect DEF Effect, Owns
  <2> QED BY <1>2, <2>2, <2>3 DEF CheckOwner
<1>3. CASE FindUser(t)
  <2>1. at[t] = "find" /\ (Goto(t, "addmember") \/ Leave(t, "idle"))
    BY <1>3 DEF FindUser, At
  <2> QED BY <1>0, <2>1, GotoEffect, LeaveEffect DEF Effect, Finds, Quiet
<1>4. CASE FindTarget(t)
  <2>1. /\ at[t] = "target"
        /\ \/ members[Ask(t).on] = "editor" /\ Goto(t, "removemember")
           \/ Leave(t, "idle")
    BY <1>4 DEF FindTarget, At
  <2> QED BY <1>0, <2>1, GotoEffect, LeaveEffect DEF Effect, Finds, Quiet
<1> QED BY <1>1, <1>2, <1>3, <1>4

LEMMA WriteEffect ==
    ASSUME Typed, NEW t \in Threads,
           \/ AddMember(t) \/ RemoveMember(t) \/ CreateProject(t) \/ UpdateRole(t)
           \/ LogAudit(t) \/ StatementFails(t)
    PROVE  Effect(t)
<1>1. ASSUME NEW step, Answered(t, step)
      PROVE  Ends(t) \/ (step # "idle" /\ Becomes(t, step, job[t]))
  BY <1>1, LeaveEffect DEF Answered
<1>2. CASE AddMember(t)
  <2>1. at[t] = "addmember" /\ UNCHANGED secretVars
    BY <1>2 DEF AddMember, At
  <2>2. CASE InsertMember(Ask(t).on) /\ Answered(t, "idle")
    BY <1>1, <2>1, <2>2 DEF Effect, Enrols
  <2>3. CASE Leave(t, "idle") /\ UNCHANGED accountVars
    <3>1. SameData
      BY <2>1, <2>3 DEF SameData
    <3> QED BY <2>3, <3>1, LeaveEffect DEF Effect, Quiet
  <2> QED BY <1>2, <2>2, <2>3 DEF AddMember
<1>3. CASE RemoveMember(t)
  BY <1>1, <1>3 DEF RemoveMember, At, Effect, Enrols
<1>4. CASE CreateProject(t)
  BY <1>1, <1>4 DEF CreateProject, At, Effect, Administers
<1>5. CASE UpdateRole(t)
  <2>1. at[t] = "setrole" /\ UNCHANGED secretVars
        /\ SetRole(Ask(t).on, IF Ask(t).op = "promote" THEN "admin" ELSE "user")
        /\ (Answered(t, "idle") \/ Answered(t, "audit"))
    BY <1>5 DEF UpdateRole, At
  <2> QED BY <1>1, <2>1 DEF Effect, Administers
<1>6. CASE LogAudit(t)
  BY <1>1, <1>6 DEF LogAudit, Effect, Quiet, SameData
<1>7. CASE StatementFails(t)
  BY <1>7, LeaveEffect DEF StatementFails, Effect, Quiet, SameData
<1> QED BY <1>2, <1>3, <1>4, <1>5, <1>6, <1>7

LEMMA SecretEffect ==
    ASSUME Typed, NEW t \in Threads, GetSecret(t) \/ PutSecret(t) \/ PutNewSecret(t)
    PROVE  Effect(t)
<1>1. ASSUME NEW step, Enter(t, step)
      PROVE  (step = "idle" /\ Ends(t)) \/ (step # "idle" /\ Becomes(t, step, job[t]))
  BY <1>1, GotoEffect DEF Enter
<1>2. CASE GetSecret(t)
  <2>1. at[t] = "getsecret" /\ SameData /\ (Reading(t, secret) \/ Enter(t, "idle"))
    BY <1>2 DEF GetSecret, At, SameData
  <2>2. CASE Reading(t, secret)
    <3>1. CASE /\ at' = [at EXCEPT ![t] = "putsecret"]
               /\ job' = [job EXCEPT ![t].read = secret]
      BY <2>1, <3>1 DEF Effect, Reads, Becomes
    <3>2. CASE Enter(t, "idle")
      BY <1>1, <2>1, <3>2 DEF Effect, Quiet
    <3> QED BY <2>2, <3>1, <3>2 DEF Reading
  <2> QED BY <1>1, <2>1, <2>2 DEF Effect, Quiet
<1>3. CASE PutSecret(t)
  <2>1. at[t] = "putsecret" /\ UNCHANGED accountVars
    BY <1>3 DEF PutSecret, At
  <2>2. CASE UpdateSecret(Changed(t)) /\ (Enter(t, "audit") \/ Enter(t, "idle"))
    BY <1>1, <2>1, <2>2 DEF UpdateSecret, Effect, Puts, Typed, SecretTypeOK
  <2>3. CASE UNCHANGED secretVars /\ (Goto(t, "createsecret") \/ Enter(t, "idle"))
    BY <1>1, <2>1, <2>3, GotoEffect DEF Effect, Defers, Quiet, SameData
  <2> QED BY <1>3, <2>2, <2>3 DEF PutSecret
<1>4. CASE PutNewSecret(t)
  <2>1. at[t] = "createsecret" /\ UNCHANGED accountVars
    BY <1>4 DEF PutNewSecret, At
  <2>2. CASE CreateSecret(Changed(t)) /\ (Enter(t, "audit") \/ Enter(t, "idle"))
    BY <1>1, <2>1, <2>2 DEF CreateSecret, Effect, Puts
  <2>3. CASE UNCHANGED secretVars /\ Enter(t, "idle")
    BY <1>1, <2>1, <2>3 DEF Effect, Quiet, SameData
  <2> QED BY <1>4, <2>2, <2>3 DEF PutNewSecret
<1> QED BY <1>2, <1>3, <1>4

LEMMA StepEffect == ASSUME Typed, NEW t \in Threads, Step(t) PROVE Effect(t)
<1>1. CASE Connect(t)
  BY <1>1 DEF Connect, requestVars, Effect, Quiet, SameData
<1>2. CASE NoConnection(t)
  BY <1>2, GotoEffect DEF NoConnection, Enter, Effect, Quiet, SameData
<1> QED BY <1>1, <1>2, UserEffect, CheckEffect, WriteEffect, SecretEffect DEF Step

LEMMA StartEffect == ASSUME NEW t \in Threads, NEW r \in Request, Start(t, r) PROVE Begins(t, r)
BY DEF Start, Begins, Becomes, SameData

-----------------------------------------------------------------------------
LEMMA JobFacts ==
    ASSUME Typed, NEW t \in Threads, at[t] # "idle"
    PROVE  /\ job[t] \in Jobs /\ Ask(t) \in Request /\ User(t) \in Users
           /\ job[t].role \in {"user", "admin"} /\ job[t].read \in Dicts
           /\ \A r \in {"user", "admin"} :
                  /\ [job[t] EXCEPT !.role = r] \in Jobs
                  /\ [job[t] EXCEPT !.role = r].role = r
                  /\ [job[t] EXCEPT !.role = r].ask = Ask(t)
           /\ \A d \in Dicts : /\ [job[t] EXCEPT !.read = d] \in Jobs
                               /\ [job[t] EXCEPT !.read = d].read = d
                               /\ [job[t] EXCEPT !.read = d].role = job[t].role
                               /\ [job[t] EXCEPT !.read = d].ask = Ask(t)
<1>1. job[t] \in Jobs
  BY DEF Typed
<1>2. Ask(t) \in Request /\ job[t].role \in {"user", "admin"} /\ job[t].read \in Dicts
  BY <1>1 DEF Jobs, Ask
<1>3. User(t) \in Users
  BY <1>2 DEF Request, User
<1> QED BY <1>1, <1>2, <1>3 DEF Jobs, Ask

LEMMA JobsHaveOp == /\ \A r \in Request : r.op # "none"
                    /\ NoJob \notin Jobs /\ NoJob.ask.op = "none"
BY DEF Request, NoJob, Jobs

LEMMA BecomesTyped ==
    ASSUME Typed, NEW t \in Threads, NEW step \in Steps, NEW j, Becomes(t, step, j),
           (step = "idle" /\ j = NoJob) \/ (step # "idle" /\ j \in Jobs),
           AccountsTypeOK', SecretTypeOK'
    PROVE  /\ Typed' /\ at'[t] = step /\ job'[t] = j
           /\ \A u \in Threads \ {t} : at'[u] = at[u] /\ job'[u] = job[u]
<1>1. /\ at' \in [Threads -> Steps] /\ at'[t] = step
      /\ \A u \in Threads \ {t} : at'[u] = at[u]
  BY DEF Typed, Becomes
<1>2. /\ job' \in [Threads -> Jobs \cup {NoJob}] /\ job'[t] = j
      /\ \A u \in Threads \ {t} : job'[u] = job[u]
  BY DEF Typed, Becomes
<1>3. \A u \in Threads : (at'[u] = "idle" <=> job'[u] = NoJob) /\ (at'[u] # "idle" => job'[u] \in Jobs)
  BY <1>1, <1>2, JobsHaveOp DEF Typed
<1> QED BY <1>1, <1>2, <1>3 DEF Typed

(* What every effect has in common: the thread ends its request, or stays  *)
(* with the request it has.                                                *)
Moved(t) ==
    /\ \A u \in Threads \ {t} : at'[u] = at[u] /\ job'[u] = job[u]
    /\ at'[t] # "idle" => Ask(t)' = Ask(t) /\ at[t] # "idle"

LEMMA SameDataTyped == ASSUME Typed, SameData PROVE AccountsTypeOK' /\ SecretTypeOK'
BY DEF Typed, SameData, accountVars, secretVars, AccountsTypeOK, SecretTypeOK

LEMMA EndsMoved ==
    ASSUME Typed, NEW t \in Threads, AccountsTypeOK', SecretTypeOK', Ends(t)
    PROVE  Typed' /\ Moved(t) /\ at'[t] = "idle" /\ job'[t] = NoJob
<1>1. "idle" \in Steps
  BY DEF Steps
<1> QED BY <1>1, BecomesTyped DEF Ends, Moved

LEMMA GoesMoved ==
    ASSUME Typed, NEW t \in Threads, NEW step \in Steps \ {"idle"}, at[t] # "idle",
           AccountsTypeOK', SecretTypeOK', Becomes(t, step, job[t])
    PROVE  Typed' /\ Moved(t) /\ at'[t] = step /\ job'[t] = job[t]
<1>1. Typed' /\ at'[t] = step /\ job'[t] = job[t]
      /\ \A u \in Threads \ {t} : at'[u] = at[u] /\ job'[u] = job[u]
  BY JobFacts, BecomesTyped
<1> QED BY <1>1 DEF Moved, Ask

LEMMA KnownMoved ==
    ASSUME Typed, NEW t \in Threads, NEW r \in {"user", "admin"}, at[t] # "idle",
           AccountsTypeOK', SecretTypeOK', Known(t, r)
    PROVE  /\ Typed' /\ Moved(t) /\ at'[t] = Admitted(t, r) /\ job'[t].role = r
           /\ at'[t] \in {"create", "access", "setrole"}
<1>1. Admitted(t, r) \in {"create", "access", "setrole"}
  BY DEF Known, Admitted
<1>2. Admitted(t, r) \in Steps /\ Admitted(t, r) # "idle"
  BY <1>1 DEF Steps, WithConn
<1>3. [job[t] EXCEPT !.role = r] \in Jobs /\ [job[t] EXCEPT !.role = r].role = r
      /\ [job[t] EXCEPT !.role = r].ask = Ask(t)
  BY JobFacts
<1>4. /\ Typed' /\ at'[t] = Admitted(t, r) /\ job'[t] = [job[t] EXCEPT !.role = r]
      /\ \A u \in Threads \ {t} : at'[u] = at[u] /\ job'[u] = job[u]
  BY <1>2, <1>3, BecomesTyped DEF Known
<1> QED BY <1>1, <1>3, <1>4 DEF Moved, Ask

(* The steps a thread may go to, and what it then knows.                   *)
LEMMA QuietMoved ==
    ASSUME Typed, NEW t \in Threads, Quiet(t)
    PROVE  Typed' /\ Moved(t) /\ (at'[t] = "idle" \/ (at'[t] = at[t] /\ job'[t] = job[t]))
<1>1. CASE Ends(t)
  BY <1>1, SameDataTyped, EndsMoved DEF Quiet
<1>2. CASE UNCHANGED <<at, job>>
  BY <1>2, SameDataTyped DEF Quiet, Typed, Moved, Ask
<1> QED BY <1>1, <1>2 DEF Quiet

LEMMA SelectsMoved ==
    ASSUME Typed, NEW t \in Threads, Selects(t)
    PROVE  /\ Typed' /\ Moved(t)
           /\ \/ at'[t] = "count"
              \/ /\ at'[t] = Admitted(t, users[User(t)]) /\ job'[t].role = users[User(t)]
                 /\ at'[t] \in {"create", "access", "setrole"}
<1>1. AccountsTypeOK' /\ SecretTypeOK' /\ at[t] # "idle"
  BY SameDataTyped DEF Selects
<1>2. CASE Becomes(t, "count", job[t])
  BY <1>1, <1>2, GoesMoved DEF Steps, WithConn
<1>3. CASE users[User(t)] # "none" /\ Known(t, users[User(t)])
  <2>1. User(t) \in Users
    BY <1>1, JobFacts
  <2>2. users[User(t)] \in {"user", "admin"}
    BY <1>3, <2>1 DEF Typed, AccountsTypeOK
  <2> QED BY <1>1, <1>3, <2>2, KnownMoved
<1> QED BY <1>2, <1>3 DEF Selects

LEMMA CountsMoved ==
    ASSUME Typed, NEW t \in Threads, Counts(t)
    PROVE  /\ Typed' /\ Moved(t) /\ at'[t] = "insert"
           /\ job'[t].role = IF NoUsers THEN "admin" ELSE "user"
<1> DEFINE r == IF NoUsers THEN "admin" ELSE "user"
<1>1. AccountsTypeOK' /\ SecretTypeOK' /\ at[t] # "idle"
      /\ Becomes(t, "insert", [job[t] EXCEPT !.role = r])
  BY SameDataTyped DEF Counts
<1>2. r \in {"user", "admin"} /\ "insert" \in Steps
  BY DEF Steps, WithConn
<1> HIDE DEF r
<1>3. [job[t] EXCEPT !.role = r] \in Jobs /\ [job[t] EXCEPT !.role = r].role = r
      /\ [job[t] EXCEPT !.role = r].ask = Ask(t)
  BY <1>1, <1>2, JobFacts
<1>4. /\ Typed' /\ at'[t] = "insert" /\ job'[t] = [job[t] EXCEPT !.role = r]
      /\ \A u \in Threads \ {t} : at'[u] = at[u] /\ job'[u] = job[u]
  BY <1>1, <1>2, <1>3, BecomesTyped
<1> QED BY <1>1, <1>3, <1>4 DEF Moved, Ask, r

LEMMA InsertsMoved ==
    ASSUME Typed, NEW t \in Threads, Inserts(t)
    PROVE  /\ Typed' /\ Moved(t)
           /\ \/ at'[t] = "idle"
              \/ /\ at'[t] = Admitted(t, users'[User(t)]) /\ job'[t].role = users'[User(t)]
                 /\ at'[t] \in {"create", "access", "setrole"}
<1>1. /\ at[t] # "idle" /\ User(t) \in Users /\ job[t].role \in {"user", "admin"}
      /\ InsertUser(User(t), job[t].role)
  BY JobFacts DEF Inserts
<1>2. AccountsTypeOK' /\ SecretTypeOK' /\ users'[User(t)] \in {"user", "admin"}
  BY <1>1 DEF Inserts, InsertUser, Typed, AccountsTypeOK, SecretTypeOK, secretVars
<1> QED BY <1>1, <1>2, EndsMoved, KnownMoved DEF Inserts

LEMMA ChecksMoved ==
    ASSUME Typed, NEW t \in Threads, Passes(t) \/ Owns(t) \/ Finds(t) \/ Defers(t)
    PROVE  /\ Typed' /\ Moved(t) /\ job'[t] = job[t] /\ at[t] # "idle"
           /\ at'[t] \in {"getsecret", "owner", "find", "target", "addmember", "removemember",
                          "createsecret"}
           /\ Becomes(t, at'[t], job[t])
<1>1. PICK step \in {"getsecret", "owner", "find", "target", "addmember", "removemember",
                     "createsecret"} : Becomes(t, step, job[t])
  BY DEF Passes, Owns, Finds, Defers
<1>2. AccountsTypeOK' /\ SecretTypeOK' /\ at[t] # "idle"
  BY SameDataTyped DEF Passes, Owns, Finds, Defers
<1>3. step \in Steps \ {"idle"}
  BY DEF Steps, WithConn
<1> QED BY <1>1, <1>2, <1>3, GoesMoved

LEMMA EnrolsMoved ==
    ASSUME Typed, NEW t \in Threads, Enrols(t)
    PROVE  Typed' /\ Moved(t) /\ at'[t] = "idle" /\ job'[t] = NoJob
<1>1. AccountsTypeOK' /\ SecretTypeOK'
  BY DEF Enrols, InsertMember, DeleteMember, Typed, AccountsTypeOK, SecretTypeOK, secretVars
<1> QED BY <1>1, EndsMoved DEF Enrols

LEMMA AdministersMoved ==
    ASSUME Typed, NEW t \in Threads, Administers(t)
    PROVE  /\ Typed' /\ Moved(t)
           /\ \/ at'[t] = "idle" /\ job'[t] = NoJob
              \/ at'[t] = "audit" /\ job'[t] = job[t]
<1>1. AccountsTypeOK' /\ SecretTypeOK' /\ at[t] # "idle"
  BY DEF Administers, InsertProject, SetRole, Typed, AccountsTypeOK, SecretTypeOK, secretVars
<1> QED BY <1>1, EndsMoved, GoesMoved DEF Administers, Steps, WithConn

LEMMA ReadsMoved ==
    ASSUME Typed, NEW t \in Threads, Reads(t)
    PROVE  /\ Typed' /\ Moved(t) /\ at'[t] = "putsecret"
           /\ job'[t].read = secret /\ job'[t].role = job[t].role
<1>1. AccountsTypeOK' /\ SecretTypeOK' /\ at[t] # "idle" /\ secret \in Dicts
      /\ Becomes(t, "putsecret", [job[t] EXCEPT !.read = secret])
  BY SameDataTyped DEF Reads, Typed, SecretTypeOK
<1>2. /\ [job[t] EXCEPT !.read = secret] \in Jobs
      /\ [job[t] EXCEPT !.read = secret].read = secret
      /\ [job[t] EXCEPT !.read = secret].role = job[t].role
      /\ [job[t] EXCEPT !.read = secret].ask = Ask(t)
  BY <1>1, JobFacts
<1>3. /\ Typed' /\ at'[t] = "putsecret" /\ job'[t] = [job[t] EXCEPT !.read = secret]
      /\ \A u \in Threads \ {t} : at'[u] = at[u] /\ job'[u] = job[u]
  BY <1>1, <1>2, BecomesTyped DEF Steps
<1> QED BY <1>1, <1>2, <1>3 DEF Moved, Ask

LEMMA PutsMoved ==
    ASSUME Typed, NEW t \in Threads, Puts(t)
    PROVE  /\ Typed' /\ Moved(t)
           /\ \/ at'[t] = "idle" /\ job'[t] = NoJob
              \/ at'[t] = "audit" /\ job'[t] = job[t]
<1>1. at[t] # "idle" /\ Changed(t) \in Dicts
  <2>1. at[t] # "idle"
    BY DEF Puts
  <2>2. job[t].read \in [Keys -> Users \cup {"none"}] /\ User(t) \in Users
    BY <2>1, JobFacts DEF Dicts
  <2> QED BY <2>1, <2>2 DEF Changed, Dicts
<1>2. AccountsTypeOK' /\ SecretTypeOK'
  BY <1>1 DEF Puts, Typed, AccountsTypeOK, SecretTypeOK, accountVars
<1> QED BY <1>1, <1>2, EndsMoved, GoesMoved DEF Puts, Steps, WithConn

LEMMA BeginsMoved ==
    ASSUME Typed, NEW t \in Threads, NEW r \in Request, Begins(t, r)
    PROVE  /\ Typed' /\ at'[t] = "select" /\ Ask(t)' = r
           /\ \A u \in Threads \ {t} : at'[u] = at[u] /\ job'[u] = job[u]
<1> DEFINE j == [ask |-> r, role |-> "user", read |-> Empty]
<1>1. j \in Jobs /\ j.ask = r
  BY DEF Jobs, Empty, Dicts
<1>2. Becomes(t, "select", j) /\ AccountsTypeOK' /\ SecretTypeOK' /\ "select" \in Steps
  BY SameDataTyped DEF Begins, Steps, WithConn
<1> HIDE DEF j
<1>3. /\ Typed' /\ at'[t] = "select" /\ job'[t] = j
      /\ \A u \in Threads \ {t} : at'[u] = at[u] /\ job'[u] = job[u]
  BY <1>1, <1>2, BecomesTyped
<1> QED BY <1>1, <1>3 DEF Ask

LEMMA InitTyped == Init => Typed
<1> SUFFICES ASSUME Init PROVE Typed
  OBVIOUS
<1>1. AccountsTypeOK /\ SecretTypeOK
  BY DEF Init, AccountsInit, SecretInit, AccountsTypeOK, SecretTypeOK, Empty, Dicts
<1>2. /\ at \in [Threads -> Steps] /\ job \in [Threads -> Jobs \cup {NoJob}]
      /\ \A t \in Threads : at[t] = "idle" /\ job[t] = NoJob
  BY DEF Init, Steps
<1> QED BY <1>1, <1>2 DEF Typed

LEMMA EffectMoved ==
    ASSUME Typed, NEW t \in Threads, Effect(t)
    PROVE  Typed' /\ Moved(t)
BY QuietMoved, SelectsMoved, CountsMoved, InsertsMoved, ChecksMoved, EnrolsMoved,
   AdministersMoved, ReadsMoved, PutsMoved DEF Effect

(* Every step is an effect of some thread or the beginning of a request.   *)
LEMMA NextEffect ==
    ASSUME Typed, Next
    PROVE  Record /\ \E t \in Threads : Effect(t) \/ \E r \in Request : Begins(t, r)
BY StepEffect, StartEffect DEF Next

LEMMA TypedStep == ASSUME Typed, [Next]_vars PROVE Typed'
<1>1. CASE Next
  BY <1>1, NextEffect, EffectMoved, BeginsMoved
<1>2. CASE UNCHANGED vars
  BY <1>2 DEF vars, accountVars, secretVars, requestVars, Typed, AccountsTypeOK, SecretTypeOK
<1> QED BY <1>1, <1>2

-----------------------------------------------------------------------------
(* Who has no use for a connection has none and asks for none.             *)
PoolUse == \A t \in Threads : at[t] \notin WithConn => use[t] = "out"

Hands(t, u) == /\ at'[t] \notin WithConn => u = "out"
               /\ \/ u \in {"out", "check", "get"} /\ PutConn(t, u)
                  \/ /\ u \in {"out", "check", "make", "get"} /\ use[t] \notin {"wrap", "in"}
                     /\ Moves(t, u) /\ UNCHANGED <<pool, lent, conn>>

Holds(t) == at'[t] \notin WithConn => use[t] = "out"

ConnEffect(t) == \/ \E u \in Uses : Hands(t, u)
                 \/ Holds(t) /\ (SameConn \/ MakePool(t) \/ GetConn(t) \/ Wrap(t))

LEMMA NeededUse == \A step : /\ Needed(step) \in {"out", "check", "get"}
                             /\ step \notin WithConn => Needed(step) = "out"
BY DEF Needed, Asking

LEMMA GotoConn ==
    ASSUME Typed, NEW t \in Threads, NEW step, Goto(t, step)
    PROVE  at'[t] = step
BY DEF Goto, Typed

LEMMA LeaveConn ==
    ASSUME Typed, NEW t \in Threads, NEW step, Leave(t, step)
    PROVE  \E u \in Uses : Hands(t, u)
<1>1. PICK next : Goto(t, next) /\ PutConn(t, Needed(next))
  BY DEF Leave
<1>2. at'[t] = next
  BY <1>1, GotoConn
<1>3. Hands(t, Needed(next)) /\ Needed(next) \in Uses
  BY <1>1, <1>2, NeededUse DEF Hands, Uses
<1> QED BY <1>3

LEMMA EnterConn ==
    ASSUME Typed, NEW t \in Threads, NEW step, Enter(t, step), use[t] \notin {"wrap", "in"}
    PROVE  \E u \in Uses : Hands(t, u)
<1>1. at'[t] = step
  BY GotoConn DEF Enter
<1>2. Hands(t, Needed(step)) /\ Needed(step) \in Uses
  BY <1>1, NeededUse DEF Enter, Hands, Uses
<1> QED BY <1>2

LEMMA KnownConn ==
    ASSUME Typed, NEW t \in Threads, NEW r, BecomesUser(t, r)
    PROVE  \E u \in Uses : Hands(t, u)
<1> DEFINE step == IF PutRaises(t) THEN "idle" ELSE Admitted(t, r)
<1>1. at'[t] = step /\ PutConn(t, Needed(step))
  BY DEF BecomesUser, Typed
<1> HIDE DEF step
<1>2. Hands(t, Needed(step)) /\ Needed(step) \in Uses
  BY <1>1, NeededUse DEF Hands, Uses
<1> QED BY <1>2

LEMMA StepConn == ASSUME Typed, PoolUse, NEW t \in Threads, Step(t) PROVE ConnEffect(t)
<1>1. CASE SelectUser(t) \/ InsertNewUser(t) \/ CheckAccess(t)
  <2>1. CASE \/ \E r : BecomesUser(t, r)
             \/ \E step : Leave(t, step)
    BY <2>1, KnownConn, LeaveConn DEF ConnEffect
  <2>2. CASE Goto(t, "count") /\ SameConn
    BY <2>2, GotoConn DEF ConnEffect, Holds, WithConn
  <2> QED BY <1>1, <2>1, <2>2 DEF SelectUser, InsertNewUser, CheckAccess
<1>2. CASE CountUsers(t)
  BY <1>2 DEF CountUsers, Typed, ConnEffect, Holds, WithConn
<1>3. CASE CheckOwner(t) \/ FindUser(t) \/ FindTarget(t)
  <2>1. CASE \E step \in {"find", "target", "addmember", "removemember"} :
                 Goto(t, step) /\ SameConn
    BY <2>1, GotoConn DEF ConnEffect, Holds, WithConn
  <2>2. CASE Leave(t, "idle")
    BY <2>2, LeaveConn DEF ConnEffect
  <2> QED BY <1>3, <2>1, <2>2 DEF CheckOwner, FindUser, FindTarget
<1>4. CASE \/ AddMember(t) \/ RemoveMember(t) \/ CreateProject(t) \/ UpdateRole(t)
           \/ LogAudit(t) \/ StatementFails(t)
  <2>1. \E step : Leave(t, step)
    BY <1>4 DEF AddMember, RemoveMember, CreateProject, UpdateRole, LogAudit, StatementFails,
                Answered
  <2> QED BY <2>1, LeaveConn DEF ConnEffect
<1>5. CASE GetSecret(t) \/ PutSecret(t) \/ PutNewSecret(t)
  <2>1. use[t] = "out"
    BY <1>5 DEF GetSecret, PutSecret, PutNewSecret, At, PoolUse, WithConn
  <2>2. (\E step : Enter(t, step)) \/ SameConn
    BY <1>5 DEF GetSecret, PutSecret, PutNewSecret, Reading
  <2> QED BY <2>1, <2>2, EnterConn DEF ConnEffect, Holds
<1>6. CASE Connect(t)
  <2>1. use[t] # "out" /\ at' = at
    BY <1>6 DEF Connect, CheckPool, MakePool, GetConn, Wrap, requestVars
  <2>2. Holds(t)
    BY <2>1 DEF Holds, PoolUse
  <2>3. CASE CheckPool(t)
    BY <2>1, <2>2, <2>3 DEF CheckPool, ConnEffect, Hands, Holds, Uses
  <2> QED BY <1>6, <2>2, <2>3 DEF Connect, ConnEffect
<1>7. CASE NoConnection(t)
  BY <1>7, EnterConn DEF NoConnection, ConnEffect
<1> QED BY <1>1, <1>2, <1>3, <1>4, <1>5, <1>6, <1>7 DEF Step

LEMMA ConnStep ==
    ASSUME Typed, PoolInv, PoolUse, NEW t \in Threads, ConnEffect(t),
           \A u \in Threads \ {t} : at'[u] = at[u]
    PROVE  PoolInv' /\ PoolUse'
<1>1. use \in [Threads -> Uses]
  BY DEF PoolInv
<1>2. CASE \E u \in Uses : Hands(t, u)
  <2>1. PICK u \in Uses : Hands(t, u)
    BY <1>2
  <2>2. use' = [use EXCEPT ![t] = u]
    BY <2>1 DEF Hands, PutConn, Moves
  <2>3. PoolInv'
    BY <2>1, PoolMoves, PoolTakesBack DEF Hands
  <2> QED BY <1>1, <2>1, <2>2, <2>3 DEF PoolUse, Hands
<1>3. CASE Holds(t) /\ SameConn
  <2>1. PoolInv'
    BY <1>3 DEF poolVars, SameConn, PoolInv, Holders
  <2> QED BY <1>3, <2>1 DEF poolVars, SameConn, PoolUse, Holds
<1>4. CASE Holds(t) /\ (MakePool(t) \/ GetConn(t) \/ Wrap(t))
  <2>1. PoolInv'
    BY <1>4, PoolMade, PoolLends, PoolWraps
  <2>2. PICK u \in Uses : use' = [use EXCEPT ![t] = u]
    BY <1>4 DEF MakePool, GetConn, Wrap, Moves, Uses
  <2>3. use[t] # "out"
    BY <1>4 DEF MakePool, GetConn, Wrap
  <2> QED BY <1>1, <1>4, <2>1, <2>2, <2>3 DEF PoolUse, Holds
<1> QED BY <1>2, <1>3, <1>4 DEF ConnEffect

LEMMA StartConn ==
    ASSUME Typed, PoolInv, PoolUse, NEW t \in Threads, NEW r \in Request, Start(t, r)
    PROVE  PoolInv' /\ PoolUse'
<1>1. /\ use[t] = "out" /\ Moves(t, Asking) /\ UNCHANGED <<pool, lent, conn>>
      /\ Asking \in {"check", "get"}
  BY DEF Start, Asking
<1>2. PoolInv'
  BY <1>1, PoolMoves
<1>3. at'[t] = "select" /\ \A u \in Threads \ {t} : at'[u] = at[u]
  BY StartEffect, BeginsMoved
<1>4. \A u \in Threads \ {t} : use'[u] = use[u]
  BY <1>1 DEF Moves, PoolInv
<1> QED BY <1>2, <1>3, <1>4 DEF PoolUse, WithConn

-----------------------------------------------------------------------------
Bounded == InfraTypeOK /\ begun \in 0..MaxRequests

LEMMA FaultBounded ==
    ASSUME InfraTypeOK, NoFault \/ Fault
    PROVE  InfraTypeOK'
BY BudgetAssumption DEF InfraTypeOK, NoFault, Fault, infraVars

LEMMA StepBounded ==
    ASSUME Bounded, NEW t \in Threads, Step(t) \/ \E r \in Request : Start(t, r)
    PROVE  Bounded'
<1>1. ASSUME NEW step, Goto(t, step) \/ Leave(t, step) \/ Enter(t, step) \/ Answered(t, step)
      PROVE  UNCHANGED begun
  BY <1>1 DEF Answered, Leave, Enter, Goto
<1>2. ASSUME NEW r, BecomesUser(t, r) PROVE UNCHANGED begun
  BY <1>2 DEF BecomesUser
<1>3. CASE SelectUser(t) \/ CountUsers(t) \/ InsertNewUser(t) \/ CheckAccess(t)
  <2>1. UNCHANGED begun /\ (NoFault \/ Fault)
    BY <1>1, <1>2, <1>3 DEF SelectUser, CountUsers, InsertNewUser, CheckAccess
  <2> QED BY <2>1, FaultBounded DEF Bounded
<1>4. CASE \/ CreateProject(t) \/ UpdateRole(t) \/ AddMember(t) \/ RemoveMember(t)
           \/ LogAudit(t)
  <2>1. PICK step : Answered(t, step) \/ (NoFault /\ Leave(t, step))
    BY <1>4 DEF CreateProject, UpdateRole, AddMember, RemoveMember, LogAudit
  <2>2. NoFault \/ Fault
    BY <2>1 DEF Answered
  <2> QED BY <1>1, <2>1, <2>2, FaultBounded DEF Bounded
<1>5. CASE CheckOwner(t) \/ FindUser(t) \/ FindTarget(t) \/ StatementFails(t)
  <2>1. UNCHANGED begun /\ (NoFault \/ Fault)
    BY <1>1, <1>5 DEF CheckOwner, FindUser, FindTarget, StatementFails
  <2> QED BY <2>1, FaultBounded DEF Bounded
<1>6. CASE GetSecret(t) \/ PutSecret(t) \/ PutNewSecret(t)
  <2>1. UNCHANGED begun /\ (NoFault \/ Fault)
    BY <1>1, <1>6 DEF GetSecret, Reading, PutSecret, PutNewSecret
  <2> QED BY <2>1, FaultBounded DEF Bounded
<1>7. CASE Connect(t) \/ NoConnection(t)
  <2>1. UNCHANGED begun /\ (NoFault \/ Fault)
    BY <1>1, <1>7 DEF Connect, NoConnection, requestVars
  <2> QED BY <2>1, FaultBounded DEF Bounded
<1>8. CASE \E r \in Request : Start(t, r)
  <2>1. begun < MaxRequests /\ begun' = begun + 1 /\ NoFault
    BY <1>8 DEF Start
  <2>2. begun' \in 0..MaxRequests
    BY <2>1, RequestAssumption DEF Bounded
  <2> QED BY <2>1, <2>2, FaultBounded DEF Bounded
<1> QED BY <1>3, <1>4, <1>5, <1>6, <1>7, <1>8 DEF Step

ConnInv == Typed /\ PoolInv /\ PoolUse /\ Bounded

LEMMA InitConnInv == Init => ConnInv
<1> SUFFICES ASSUME Init PROVE ConnInv
  OBVIOUS
<1>1. Typed /\ PoolInv
  BY InitTyped, InitPool DEF Init
<1>2. PoolUse
  BY DEF Init, PoolInit, PoolUse
<1>3. Bounded
  BY BudgetAssumption, RequestAssumption DEF Init, InfraInit, Bounded, InfraTypeOK
<1> QED BY <1>1, <1>2, <1>3 DEF ConnInv

LEMMA NextConnInv == ConnInv /\ [Next]_vars => ConnInv'
<1> SUFFICES ASSUME ConnInv, [Next]_vars PROVE ConnInv'
  OBVIOUS
<1>1. CASE UNCHANGED vars
  <2>1. PoolInv' /\ PoolUse' /\ Bounded'
    BY <1>1 DEF ConnInv, vars, infraVars, poolVars, requestVars, PoolInv, Holders, PoolUse,
                Bounded, InfraTypeOK
  <2> QED BY <2>1, TypedStep DEF ConnInv
<1>2. CASE Next
  <2>1. PICK t \in Threads : Step(t) \/ \E r \in Request : Start(t, r)
    BY <1>2 DEF Next
  <2>2. CASE Step(t)
    <3>1. ConnEffect(t) /\ \A u \in Threads \ {t} : at'[u] = at[u]
      BY <2>2, StepConn, StepEffect, EffectMoved DEF ConnInv, Moved
    <3> QED BY <2>1, <3>1, ConnStep, TypedStep, StepBounded DEF ConnInv
  <2>3. CASE \E r \in Request : Start(t, r)
    BY <2>1, <2>3, StartConn, TypedStep, StepBounded DEF ConnInv
  <2> QED BY <2>1, <2>2, <2>3
<1> QED BY <1>1, <1>2

LEMMA ConnInvImplies == ConnInv => TypeOK
<1> SUFFICES ASSUME ConnInv PROVE TypeOK
  OBVIOUS
<1>1. PoolTypeOK
  BY PoolInvImplies DEF ConnInv
<1>2. ASSUME NEW t \in Threads, use[t] = "in"
      PROVE  at[t] \in WithConn /\ conn[t].back # 0
  <2>1. at[t] \in WithConn
    BY <1>2 DEF ConnInv, PoolUse
  <2>2. PICK f \in 0..pool, b \in 0..pool : conn[t] = [from |-> f, back |-> b]
    BY DEF ConnInv, PoolInv
  <2>3. f # 0 /\ b >= f
    BY <1>2, <2>2 DEF ConnInv, PoolInv
  <2>4. b # 0
    BY <2>3, <2>2
  <2> QED BY <2>1, <2>2, <2>4
<1> QED BY <1>1, <1>2 DEF ConnInv, Bounded, Typed, Jobs, TypeOK

(* The request threads of api/main.py and the pool of database.py keep     *)
(* their types: a connection is held only by a step that uses one.         *)
THEOREM ServiceTypes == Spec => []TypeOK
<1> QED BY InitConnInv, NextConnInv, ConnInvImplies, PTL DEF Spec

(* get_connection: what the pool in use counts as lent is what the         *)
(* requests hold.  No statement that raises, and no interleaving of two    *)
(* threads that both make a pool, loses a connection of it.                *)
THEOREM PoolLosesNothing == Spec => []NoConnLost
<1>1. ConnInv => NoConnLost
  BY PoolInvImplies DEF ConnInv
<1> QED BY <1>1, InitConnInv, NextConnInv, PTL DEF Spec

-----------------------------------------------------------------------------
LEMMA AdmittedSteps ==
    ASSUME Typed, NEW t \in Threads, at[t] # "idle", NEW r
    PROVE  /\ Admitted(t, r) = "create" => Ask(t).op = "create"
           /\ Admitted(t, r) = "access" => Ask(t).op \in {"add", "remove", "put", "del"}
           /\ Admitted(t, r) = "setrole" => r = "admin" /\ Ask(t).op \in {"promote", "demote"}
<1>1. Ask(t).op \in {"create", "add", "remove", "promote", "demote", "put", "del"}
  BY JobFacts DEF Request
<1> QED BY <1>1 DEF Admitted

LEMMA OrderKept ==
    ASSUME Typed, InOrder, NEW t \in Threads, Effect(t)
    PROVE  InOrderOf(t)'
<1>0. Moved(t) /\ InOrderOf(t)
  BY EffectMoved DEF InOrder
<1>1. CASE at'[t] \in {"idle", "audit", "select", "count", "insert", "setrole"}
  BY <1>1 DEF InOrderOf, OnMembers, OnSecret
<1>2. CASE at'[t] = at[t] /\ at[t] # "idle"
  BY <1>0, <1>2 DEF InOrderOf, Moved
<1>3. CASE Selects(t) \/ Inserts(t)
  <2>1. PICK r : \/ at'[t] = Admitted(t, r) /\ at'[t] \in {"create", "access", "setrole"}
                 \/ at'[t] \in {"count", "idle"}
    BY <1>3, SelectsMoved, InsertsMoved
  <2>2. CASE at'[t] = Admitted(t, r) /\ at'[t] \in {"create", "access", "setrole"}
    <3>1. at[t] # "idle" /\ Ask(t)' = Ask(t)
      BY <1>0, <2>2 DEF Moved
    <3>2. at'[t] = "create" => Ask(t).op = "create"
      BY <2>2, <3>1, AdmittedSteps
    <3>3. at'[t] = "access" => Ask(t).op \in {"add", "remove", "put", "del"}
      BY <2>2, <3>1, AdmittedSteps
    <3> QED BY <2>2, <3>1, <3>2, <3>3 DEF InOrderOf, OnMembers, OnSecret
  <2> QED BY <1>1, <2>1, <2>2
<1>4. CASE Passes(t)
  <2>1. /\ at[t] = "access" /\ Ask(t)' = Ask(t)
        /\ \/ at'[t] = "getsecret" /\ Ask(t).op \in {"put", "del"}
           \/ at'[t] = "owner" /\ Ask(t).op \notin {"put", "del"}
    BY <1>0, <1>4, ChecksMoved DEF Passes, Becomes, Moved, Typed
  <2> QED BY <1>0, <2>1 DEF InOrderOf, OnMembers, OnSecret
<1>5. CASE Owns(t) \/ Finds(t) \/ Reads(t) \/ Defers(t)
  <2>1. /\ Ask(t)' = Ask(t)
        /\ \/ at[t] \in OnMembers /\ at'[t] \in OnMembers
           \/ at[t] \in OnSecret /\ at'[t] \in OnSecret
    BY <1>0, <1>5 DEF Owns, Finds, Reads, Defers, Becomes, Moved, Typed, OnMembers, OnSecret
  <2> QED BY <1>0, <2>1 DEF InOrderOf, OnMembers, OnSecret
<1>6. CASE Quiet(t) \/ Counts(t) \/ Enrols(t) \/ Administers(t) \/ Puts(t)
  BY <1>1, <1>2, <1>6, QuietMoved, CountsMoved, EnrolsMoved, AdministersMoved, PutsMoved
<1> QED BY <1>3, <1>4, <1>5, <1>6 DEF Effect

LEMMA OrderStep ==
    ASSUME Typed, InOrder, [Next]_vars
    PROVE  InOrder'
<1>1. ASSUME NEW t \in Threads, InOrderOf(t)',
             \A u \in Threads \ {t} : at'[u] = at[u] /\ job'[u] = job[u]
      PROVE  InOrder'
  BY <1>1 DEF InOrder, InOrderOf, Ask
<1>2. CASE \E t \in Threads : Effect(t)
  BY <1>1, <1>2, OrderKept, EffectMoved DEF Moved
<1>3. CASE \E t \in Threads : \E r \in Request : Begins(t, r)
  <2>1. PICK t \in Threads : \E r \in Request : Begins(t, r)
    BY <1>3
  <2>2. at'[t] = "select" /\ \A u \in Threads \ {t} : at'[u] = at[u] /\ job'[u] = job[u]
    BY <2>1, BeginsMoved
  <2> QED BY <1>1, <2>2 DEF InOrderOf, OnMembers, OnSecret
<1>4. CASE UNCHANGED vars
  BY <1>4 DEF vars, requestVars, InOrder, InOrderOf, Ask
<1> QED BY <1>2, <1>3, <1>4, NextEffect

-----------------------------------------------------------------------------
(* Who may: an admin was entitled from the moment he was known, the others *)
(* when they were looked up.                                               *)
RightsOf(t) ==
    /\ at[t] \notin {"idle"} \cup Early /\ job[t].role = "admin" => entitled[t]
    /\ at[t] \in {"setrole", "find", "addmember", "target", "removemember"} \cup OnSecret
           => entitled[t]

Rights == \A t \in Threads : RightsOf(t)

LEMMA Entitling ==
    ASSUME Typed, Record, NEW t \in Threads
    PROVE  /\ entitled[t] /\ at'[t] # "idle" => entitled'[t]
           /\ Entitled(t)' => entitled'[t]
<1>1. entitled' = [x \in Threads |-> at'[x] # "idle" /\ (entitled[x] \/ Entitled(x)')]
  BY DEF Record
<1>2. Entitled(t)' => at'[t] # "idle"
  BY DEF Entitled
<1> QED BY <1>1, <1>2

LEMMA KnownEntitles ==
    ASSUME Typed, Record, NEW t \in Threads, NEW r, Moved(t), at[t] # "idle",
           at'[t] = Admitted(t, r), job'[t].role = r, users'[User(t)] = r,
           at'[t] \in {"create", "access", "setrole"}
    PROVE  RightsOf(t)'
<1>1. Ask(t)' = Ask(t) /\ User(t)' = User(t)
  BY DEF Moved, User
<1>2. r = "admin" => entitled'[t]
  BY <1>1, Entitling DEF Entitled
<1>3. at'[t] = "setrole" => r = "admin"
  BY AdmittedSteps
<1> QED BY <1>2, <1>3 DEF RightsOf, OnSecret

LEMMA RightsKept ==
    ASSUME Typed, InOrder, Rights, Record, NEW t \in Threads, Effect(t)
    PROVE  RightsOf(t)'
<1>0. Moved(t) /\ RightsOf(t)
  BY EffectMoved DEF Rights
<1>1. CASE at'[t] \in {"idle"} \cup Early
  BY <1>1 DEF RightsOf, Early, OnSecret
<1>2. CASE at'[t] = at[t] /\ job'[t] = job[t]
  BY <1>0, <1>1, <1>2, Entitling DEF RightsOf
<1>3. CASE at'[t] = "audit" /\ job'[t] = job[t] /\ at[t] \notin {"idle"} \cup Early
  BY <1>0, <1>3, Entitling DEF RightsOf, OnSecret
<1>4. CASE Selects(t)
  <2>1. CASE at'[t] # "count"
    <3>1. at[t] # "idle" /\ users' = users
      BY <1>4 DEF Selects, SameData, accountVars
    <3> QED BY <1>0, <1>4, <2>1, <3>1, SelectsMoved, KnownEntitles
  <2> QED BY <1>1, <2>1 DEF Early
<1>5. CASE Inserts(t)
  <2>1. at[t] # "idle"
    BY <1>5 DEF Inserts
  <2> QED BY <1>0, <1>1, <1>5, <2>1, InsertsMoved, KnownEntitles
<1>6. CASE Passes(t)
  <2>1. /\ at[t] = "access" /\ job'[t] = job[t] /\ Ask(t)' = Ask(t) /\ User(t)' = User(t)
        /\ members' = members /\ at'[t] \in {"getsecret", "owner"}
        /\ at'[t] = "getsecret" => Ask(t).op \in {"put", "del"}
    BY <1>0, <1>6, ChecksMoved
       DEF Passes, Becomes, Moved, Typed, User, SameData, accountVars
  <2>2. job[t].role = "admin" => entitled'[t]
    BY <1>0, <2>1, Entitling DEF RightsOf, Early
  <2>3. at'[t] = "getsecret" /\ members[User(t)] # "none" => entitled'[t]
    BY <2>1, Entitling DEF Entitled
  <2>4. job[t].role = "admin" \/ members[User(t)] # "none"
    BY <1>6 DEF Passes, MaySee
  <2> QED BY <2>1, <2>2, <2>3, <2>4 DEF RightsOf, OnSecret
<1>7. CASE Owns(t)
  <2>1. /\ at[t] = "owner" /\ job'[t] = job[t] /\ Ask(t)' = Ask(t) /\ User(t)' = User(t)
        /\ members' = members /\ at'[t] # "idle"
    BY <1>0, <1>7, ChecksMoved DEF Owns, Moved, User, SameData, accountVars
  <2>2. job[t].role = "admin" => entitled'[t]
    BY <1>0, <2>1, Entitling DEF RightsOf, Early
  <2>3. members[User(t)] = "owner" => entitled'[t]
    BY <2>1, Entitling DEF Entitled, InOrder, InOrderOf, OnMembers
  <2> QED BY <1>7, <2>2, <2>3 DEF Owns, RightsOf
<1>8. CASE Finds(t) \/ Reads(t) \/ Defers(t)
  <2>1. /\ at[t] \in {"find", "target"} \cup OnSecret /\ at'[t] # "idle"
    BY <1>8, ChecksMoved, ReadsMoved DEF Finds, Reads, Defers, OnSecret
  <2> QED BY <1>0, <2>1, Entitling DEF RightsOf
<1>9. CASE Quiet(t) \/ Counts(t) \/ Enrols(t)
  BY <1>1, <1>2, <1>9, QuietMoved, CountsMoved, EnrolsMoved DEF Early
<1>10. CASE Administers(t) \/ Puts(t)
  <2>1. at[t] \notin {"idle"} \cup Early
    BY <1>10 DEF Administers, Puts, Early
  <2> QED BY <1>1, <1>3, <1>10, <2>1, AdministersMoved, PutsMoved
<1> QED BY <1>4, <1>5, <1>6, <1>7, <1>8, <1>9, <1>10 DEF Effect

LEMMA RightsStep ==
    ASSUME Typed, InOrder, Rights, [Next]_vars
    PROVE  Rights'
<1>1. ASSUME NEW t \in Threads, RightsOf(t)', Record,
             \A u \in Threads \ {t} : at'[u] = at[u] /\ job'[u] = job[u]
      PROVE  Rights'
  <2>1. \A u \in Threads \ {t} : RightsOf(u)'
    BY <1>1, Entitling DEF Rights, RightsOf, OnSecret
  <2> QED BY <1>1, <2>1 DEF Rights
<1>2. CASE \E t \in Threads : Effect(t) /\ Record
  BY <1>1, <1>2, RightsKept, EffectMoved DEF Moved
<1>3. CASE \E t \in Threads : (\E r \in Request : Begins(t, r)) /\ Record
  <2>1. PICK t \in Threads : (\E r \in Request : Begins(t, r)) /\ Record
    BY <1>3
  <2>2. at'[t] = "select" /\ \A u \in Threads \ {t} : at'[u] = at[u] /\ job'[u] = job[u]
    BY <2>1, BeginsMoved
  <2> QED BY <1>1, <2>1, <2>2 DEF RightsOf, Early, OnSecret
<1>4. CASE UNCHANGED vars
  BY <1>4 DEF vars, requestVars, history, Rights, RightsOf
<1> QED BY <1>2, <1>3, <1>4, NextEffect

-----------------------------------------------------------------------------
(* The project is created once, before anybody has anything to do with its *)
(* members, and who is about to be removed is not its owner.               *)
OwnershipOf(t) ==
    /\ at[t] \in OnMembers => live
    /\ at[t] = "removemember" => members[Ask(t).on] # "owner"
    /\ Ask(t).op = "create" /\ at[t] \in Early \cup {"create"} => ~live

Ownership ==
    /\ OwnerStays
    /\ \A t \in Threads : OwnershipOf(t)
    /\ \A t, u \in Threads : Ask(t).op = "create" /\ Ask(u).op = "create" => t = u

Creates(t) == /\ at[t] = "create" /\ InsertProject(User(t)) /\ User(t) \in Users
              /\ at'[t] \in {"idle", "audit"}

(* What a step has to do with the members.                                 *)
LEMMA MemberEffect ==
    ASSUME Typed, NEW t \in Threads, Effect(t)
    PROVE  \/ UNCHANGED <<members, live>>
           \/ Enrols(t) /\ at'[t] = "idle"
           \/ Creates(t)
<1>1. CASE Inserts(t)
  BY <1>1 DEF Inserts, InsertUser
<1>2. CASE Enrols(t)
  BY <1>2, EnrolsMoved
<1>3. CASE Administers(t)
  <2>1. at'[t] \in {"idle", "audit"} /\ User(t) \in Users
    BY <1>3, AdministersMoved, JobFacts DEF Administers
  <2> QED BY <1>3, <2>1 DEF Administers, SetRole, Creates
<1>4. CASE Puts(t)
  BY <1>4 DEF Puts, accountVars
<1> QED BY <1>1, <1>2, <1>3, <1>4
        DEF Effect, Quiet, Selects, Counts, Passes, Owns, Finds, Reads, Defers, SameData,
            accountVars

LEMMA MemberOrder ==
    ASSUME Typed, NEW t \in Threads, Effect(t)
    PROVE  /\ at'[t] \in OnMembers => at[t] \in OnMembers \/ live
           /\ at'[t] = "removemember" => at[t] = "removemember" \/ members[Ask(t).on] = "editor"
           /\ at'[t] \in Early \cup {"create"} => at[t] \in Early \cup {"create"}
<1>1. CASE Passes(t)
  BY <1>1, ChecksMoved DEF Passes, MaySee, Early, Becomes, Typed
<1>2. CASE Owns(t)
  BY <1>2, ChecksMoved DEF Owns, OnMembers, Early, Becomes, Typed
<1>3. CASE Finds(t)
  <2>1. \/ at[t] = "find" /\ at'[t] = "addmember"
        \/ at[t] = "target" /\ members[Ask(t).on] = "editor" /\ at'[t] = "removemember"
    BY <1>3 DEF Finds, Becomes, Typed
  <2> QED BY <2>1 DEF OnMembers, Early
<1>4. CASE Selects(t) \/ Counts(t) \/ Inserts(t)
  <2>1. at[t] \in Early /\ at'[t] \notin OnMembers
    BY <1>4, SelectsMoved, CountsMoved, InsertsMoved
       DEF Selects, Counts, Inserts, Early, OnMembers
  <2> QED BY <2>1 DEF OnMembers
<1>5. CASE Reads(t) \/ Defers(t)
  <2>1. at'[t] \in OnSecret
    BY <1>5, ReadsMoved DEF Defers, Becomes, Typed, OnSecret
  <2> QED BY <2>1 DEF OnSecret, OnMembers, Early
<1>6. CASE at'[t] \in {"idle", "audit"} \/ at'[t] = at[t]
  BY <1>6 DEF OnMembers, Early
<1> QED BY <1>1, <1>2, <1>3, <1>4, <1>5, <1>6, QuietMoved, EnrolsMoved, AdministersMoved,
           PutsMoved DEF Effect

LEMMA OwnershipKept ==
    ASSUME Typed, InOrder, Ownership, NEW t \in Threads, Effect(t)
    PROVE  Ownership'
<1>0. Moved(t) /\ Typed'
  BY EffectMoved
<1>1. \A u \in Threads : Ask(u)' = Ask(u) \/ (at'[u] = "idle" /\ Ask(u)'.op = "none")
  BY <1>0, JobsHaveOp DEF Moved, Ask, Typed
<1>2. (\A v, u \in Threads : Ask(v).op = "create" /\ Ask(u).op = "create" => v = u)'
  BY <1>1 DEF Ownership
<1>3. CASE UNCHANGED <<members, live>>
  <2>1. OwnerStays'
    BY <1>3 DEF Ownership, OwnerStays
  <2>2. OwnershipOf(t)'
    BY <1>0, <1>3, MemberOrder DEF Moved, Ownership, OwnershipOf, OnMembers, Early
  <2>3. \A u \in Threads \ {t} : OwnershipOf(u)'
    BY <1>0, <1>3 DEF Moved, Ask, Ownership, OwnershipOf
  <2> QED BY <1>2, <2>1, <2>2, <2>3 DEF Ownership
<1>4. CASE Enrols(t) /\ at'[t] = "idle"
  <2>1. /\ live' = live
        /\ \A u \in Users : members'[u] = "owner" <=> members[u] = "owner"
    <3>1. CASE at[t] = "addmember" /\ InsertMember(Ask(t).on)
      BY <3>1 DEF InsertMember, Typed, AccountsTypeOK
    <3>2. CASE at[t] = "removemember" /\ DeleteMember(Ask(t).on)
      BY <3>2 DEF DeleteMember, Typed, AccountsTypeOK, Ownership, OwnershipOf
    <3> QED BY <1>4, <3>1, <3>2 DEF Enrols
  <2>2. OwnerStays'
    BY <2>1 DEF Ownership, OwnerStays
  <2>3. OwnershipOf(t)'
    BY <1>0, <1>4, EnrolsMoved, JobsHaveOp DEF OwnershipOf, OnMembers, Ask
  <2>4. ASSUME NEW u \in Threads \ {t} PROVE OwnershipOf(u)'
    <3>1. at'[u] = at[u] /\ Ask(u)' = Ask(u) /\ OwnershipOf(u) /\ InOrderOf(u)
      BY <1>0 DEF Moved, Ask, Ownership, InOrder
    <3>2. at[u] = "removemember" => Ask(u).on \in Users
      BY <3>1, JobFacts DEF InOrderOf, OnMembers, Request
    <3> QED BY <2>1, <3>1, <3>2 DEF OwnershipOf
  <2> QED BY <1>2, <2>2, <2>3, <2>4 DEF Ownership
<1>5. CASE Creates(t)
  <2>1. members'[User(t)] = "owner" /\ live'
    BY <1>5 DEF Creates, InsertProject, Typed, AccountsTypeOK
  <2>2. Ask(t).op = "create" /\ ~live
    BY <1>5 DEF Creates, InOrder, InOrderOf, Ownership, OwnershipOf
  <2>3. OwnerStays'
    BY <1>5, <2>1 DEF Creates, OwnerStays
  <2>4. OwnershipOf(t)'
    BY <1>5 DEF Creates, OwnershipOf, OnMembers, Early
  <2>5. ASSUME NEW u \in Threads \ {t} PROVE OwnershipOf(u)'
    <3>1. at'[u] = at[u] /\ Ask(u)' = Ask(u) /\ OwnershipOf(u)
      BY <1>0 DEF Moved, Ask, Ownership
    <3>2. at[u] \notin OnMembers /\ Ask(u).op # "create"
      BY <2>2, <3>1 DEF OwnershipOf, Ownership
    <3> QED BY <3>1, <3>2 DEF OwnershipOf, OnMembers
  <2> QED BY <1>2, <2>3, <2>4, <2>5 DEF Ownership
<1> QED BY <1>3, <1>4, <1>5, MemberEffect

LEMMA OwnershipStep ==
    ASSUME Typed, InOrder, Ownership, [Next]_vars
    PROVE  Ownership'
<1>1. CASE \E t \in Threads : \E r \in Request : Begins(t, r)
  <2>1. PICK t \in Threads, r \in Request : Begins(t, r)
    BY <1>1
  <2>2. /\ at'[t] = "select" /\ Ask(t)' = r /\ UNCHANGED <<members, live>>
        /\ \A u \in Threads \ {t} : at'[u] = at[u] /\ Ask(u)' = Ask(u)
        /\ r.op = "create" => ~live /\ \A u \in Threads : Ask(u).op # "create"
    BY <2>1, BeginsMoved DEF Begins, SameData, accountVars, Ask
  <2>3. OwnershipOf(t)'
    BY <2>2 DEF OwnershipOf, OnMembers, Early
  <2>4. \A u \in Threads \ {t} : OwnershipOf(u)'
    BY <2>2 DEF OwnershipOf, Ownership
  <2>5. OwnerStays'
    BY <2>2 DEF OwnerStays, Ownership
  <2>6. (\A v, u \in Threads : Ask(v).op = "create" /\ Ask(u).op = "create" => v = u)'
    BY <2>2 DEF Ownership
  <2> QED BY <2>3, <2>4, <2>5, <2>6 DEF Ownership
<1>2. CASE UNCHANGED vars
  BY <1>2 DEF vars, requestVars, accountVars, Ownership, OwnerStays, OwnershipOf, Ask
<1> QED BY <1>1, <1>2, OwnershipKept, NextEffect

-----------------------------------------------------------------------------
(* The first users: who is about to be inserted as an admin saw no user,   *)
(* and so asked before there was one.                                      *)
FoundingOf(t) ==
    at[t] = "insert" => /\ job[t].role = "user" => ~NoUsers
                        /\ job[t].role = "admin" /\ ~NoUsers => User(t) \in founders

Founding == Founded /\ \A t \in Threads : FoundingOf(t)

SetsRole(t) == /\ \E u \in Users, r \in {"user", "admin"} : SetRole(u, r)
               /\ at'[t] \in {"idle", "audit"}

LEMMA UsersEffect ==
    ASSUME Typed, NEW t \in Threads, Effect(t)
    PROVE  users' = users \/ Inserts(t) \/ SetsRole(t)
<1>1. CASE Enrols(t)
  BY <1>1 DEF Enrols, InsertMember, DeleteMember
<1>2. CASE Administers(t)
  <2>1. CASE InsertProject(User(t))
    BY <2>1 DEF InsertProject
  <2>2. CASE SetRole(Ask(t).on, IF Ask(t).op = "promote" THEN "admin" ELSE "user")
    <3>1. CASE Ask(t).on \in Users
      BY <1>2, <2>2, <3>1, AdministersMoved DEF SetsRole
    <3>2. CASE Ask(t).on \notin Users
      BY <2>2, <3>2 DEF SetRole, Typed, AccountsTypeOK
    <3> QED BY <3>1, <3>2
  <2> QED BY <1>2, <2>1, <2>2 DEF Administers
<1>3. CASE Puts(t)
  BY <1>3 DEF Puts, accountVars
<1> QED BY <1>1, <1>2, <1>3
        DEF Effect, Quiet, Selects, Counts, Passes, Owns, Finds, Reads, Defers, SameData,
            accountVars

LEMMA InsertOrder ==
    ASSUME Typed, NEW t \in Threads, Effect(t), at'[t] = "insert"
    PROVE  \/ at[t] = "insert" /\ job'[t] = job[t]
           \/ Counts(t) /\ job'[t].role = IF NoUsers THEN "admin" ELSE "user"
<1>1. ~Passes(t) /\ ~Owns(t) /\ ~Finds(t) /\ ~Defers(t)
  BY ChecksMoved
<1>2. ~Selects(t) /\ ~Inserts(t) /\ ~Enrols(t) /\ ~Administers(t) /\ ~Reads(t) /\ ~Puts(t)
  BY SelectsMoved, InsertsMoved, EnrolsMoved, AdministersMoved, ReadsMoved, PutsMoved
<1> QED BY <1>1, <1>2, QuietMoved, CountsMoved DEF Effect

LEMMA FoundingHistory ==
    ASSUME Record
    PROVE  /\ ~NoUsers => founders' = founders
           /\ NoUsers /\ ~NoUsers' => \A t \in Threads : at[t] # "idle" => User(t) \in founders'
           /\ promoted \subseteq promoted'
           /\ \A u \in Users : users[u] = "user" /\ users'[u] = "admin" => u \in promoted'
           /\ demoted => demoted'
           /\ \A u \in Users : users[u] = "admin" /\ users'[u] = "user" => demoted'
<1>1. founders' = IF NoUsers /\ ~NoUsers' THEN {User(t) : t \in {x \in Threads : at[x] # "idle"}}
                                           ELSE founders
  BY DEF Record
<1>2. promoted' = promoted \cup {u \in Users : users[u] = "user" /\ users'[u] = "admin"}
  BY DEF Record
<1>3. demoted' = (demoted \/ \E u \in Users : users[u] = "admin" /\ users'[u] = "user")
  BY DEF Record
<1>4. NoUsers /\ ~NoUsers' => \A t \in Threads : at[t] # "idle" => User(t) \in founders'
  BY <1>1
<1> QED BY <1>1, <1>2, <1>3, <1>4

(* The users are as they were, or one was inserted or has another role.    *)
LEMMA FoundedKept ==
    ASSUME Typed, Founding, Record, NEW t \in Threads, Effect(t)
    PROVE  Founded' /\ (~NoUsers => ~NoUsers')
<1>0. users \in [Users -> {"none", "user", "admin"}]
  BY DEF Typed, AccountsTypeOK
<1>1. CASE users' = users
  <2>1. founders' = founders \/ NoUsers
    BY FoundingHistory
  <2>2. NoUsers' = NoUsers
    BY <1>1 DEF NoUsers
  <2>3. ASSUME NoUsers PROVE {u \in Users : users[u] = "admin"} = {}
    BY <2>3 DEF NoUsers
  <2> QED BY <1>1, <2>1, <2>2, <2>3, FoundingHistory DEF Founding, Founded
<1>2. CASE Inserts(t)
  <2>1. /\ at[t] = "insert" /\ User(t) \in Users /\ job[t].role \in {"user", "admin"}
        /\ InsertUser(User(t), job[t].role)
    BY <1>2, JobFacts DEF Inserts
  <2>2. CASE users[User(t)] # "none"
    BY <1>1, <2>1, <2>2 DEF InsertUser
  <2>3. CASE users[User(t)] = "none"
    <3>1. /\ users'[User(t)] = job[t].role
          /\ \A u \in Users : u # User(t) => users'[u] = users[u]
      BY <1>0, <2>1, <2>3 DEF InsertUser
    <3>2. ~NoUsers'
      BY <2>1, <3>1 DEF NoUsers
    <3>3. job[t].role = "admin" => User(t) \in founders'
      BY <2>1, <3>2, FoundingHistory DEF Founding, FoundingOf
    <3>4. {u \in Users : users'[u] = "admin"} \subseteq founders' \cup promoted'
      <4>1. ASSUME NEW u \in Users, users'[u] = "admin" PROVE u \in founders' \cup promoted'
        <5>1. CASE u = User(t)
          BY <3>1, <3>3, <4>1, <5>1
        <5>2. CASE u # User(t)
          <6>1. users[u] = "admin" /\ ~NoUsers
            BY <3>1, <4>1, <5>2 DEF NoUsers
          <6> QED BY <6>1, FoundingHistory DEF Founding, Founded
        <5> QED BY <5>1, <5>2
      <4> QED BY <4>1
    <3>5. ~demoted' => \E u \in Users : users'[u] = "admin"
      <4>1. CASE NoUsers
        <5>1. job[t].role = "admin"
          BY <2>1, <4>1 DEF Founding, FoundingOf
        <5> QED BY <2>1, <3>1, <5>1
      <4>2. CASE ~NoUsers /\ ~demoted'
        <5>1. PICK u \in Users : users[u] = "admin"
          BY <4>2, FoundingHistory DEF Founding, Founded
        <5> QED BY <2>3, <3>1, <5>1
      <4> QED BY <4>1, <4>2
    <3> QED BY <3>2, <3>4, <3>5 DEF Founded
  <2> QED BY <2>2, <2>3
<1>3. CASE SetsRole(t)
  <2>1. PICK v \in Users, r \in {"user", "admin"} : SetRole(v, r)
    BY <1>3 DEF SetsRole
  <2>2. CASE users[v] = "none"
    BY <1>1, <2>1, <2>2 DEF SetRole
  <2>3. CASE users[v] # "none"
    <3>1. users'[v] = r /\ \A u \in Users : u # v => users'[u] = users[u]
      BY <1>0, <2>1, <2>3 DEF SetRole
    <3>2. ~NoUsers /\ ~NoUsers'
      BY <2>3, <3>1 DEF NoUsers
    <3>3. {u \in Users : users'[u] = "admin"} \subseteq founders' \cup promoted'
      <4>1. ASSUME NEW u \in Users, users'[u] = "admin" PROVE u \in founders' \cup promoted'
        <5>1. CASE users[u] = "admin"
          BY <3>2, <5>1, FoundingHistory DEF Founding, Founded
        <5>2. CASE users[u] = "user"
          BY <4>1, <5>2, FoundingHistory
        <5>3. users[u] # "none"
          BY <2>3, <3>1, <4>1
        <5> QED BY <1>0, <5>1, <5>2, <5>3
      <4> QED BY <4>1
    <3>4. ~demoted' => \E u \in Users : users'[u] = "admin"
      <4>1. SUFFICES ASSUME ~demoted' PROVE \E u \in Users : users'[u] = "admin"
        OBVIOUS
      <4>2. PICK u \in Users : users[u] = "admin"
        BY <3>2, <4>1, FoundingHistory DEF Founding, Founded
      <4>3. users'[u] # "user"
        BY <4>1, <4>2, FoundingHistory
      <4> QED BY <3>1, <4>2, <4>3
    <3> QED BY <3>2, <3>3, <3>4 DEF Founded
  <2> QED BY <2>2, <2>3
<1> QED BY <1>1, <1>2, <1>3, UsersEffect

LEMMA FoundingOfKept ==
    ASSUME Typed, Founding, Record, NEW t \in Threads, Effect(t), NEW u \in Threads
    PROVE  FoundingOf(u)'
<1>0. Moved(t) /\ Typed' /\ (~NoUsers => ~NoUsers')
  BY EffectMoved, FoundedKept
<1>1. SUFFICES ASSUME at'[u] = "insert" PROVE FoundingOf(u)'
  BY DEF FoundingOf
<1>2. at[u] # "idle" /\ User(u)' = User(u)
  BY <1>0, <1>1 DEF Moved, User, Ask
<1>3. NoUsers /\ ~NoUsers' => User(u) \in founders'
  BY <1>2, FoundingHistory
<1>4. CASE at[u] = "insert" /\ job'[u] = job[u]
  <2>1. /\ job[u].role = "user" => ~NoUsers
        /\ job[u].role = "admin" /\ ~NoUsers => User(u) \in founders
    BY <1>4 DEF Founding, FoundingOf
  <2> QED BY <1>0, <1>2, <1>3, <1>4, <2>1, FoundingHistory DEF FoundingOf
<1>5. CASE u = t /\ Counts(t) /\ job'[t].role = IF NoUsers THEN "admin" ELSE "user"
  <2>1. users' = users
    BY <1>5 DEF Counts, SameData, accountVars
  <2>2. NoUsers' = NoUsers
    BY <2>1 DEF NoUsers
  <2> QED BY <1>5, <2>2 DEF FoundingOf
<1>6. u # t => at[u] = "insert" /\ job'[u] = job[u]
  BY <1>0, <1>1 DEF Moved
<1> QED BY <1>1, <1>4, <1>5, <1>6, InsertOrder

LEMMA FoundingStep ==
    ASSUME Typed, Founding, [Next]_vars
    PROVE  Founding'
<1>1. CASE \E t \in Threads : Effect(t) /\ Record
  BY <1>1, FoundedKept, FoundingOfKept DEF Founding
<1>2. CASE \E t \in Threads : (\E r \in Request : Begins(t, r)) /\ Record
  <2>1. PICK t \in Threads, r \in Request : Begins(t, r) /\ Record
    BY <1>2
  <2>2. /\ at'[t] = "select" /\ users' = users
        /\ \A u \in Threads \ {t} : at'[u] = at[u] /\ job'[u] = job[u]
    BY <2>1, BeginsMoved DEF Begins, SameData, accountVars
  <2>3. NoUsers' = NoUsers
    BY <2>2 DEF NoUsers
  <2>4. ~NoUsers => founders' = founders
    BY <2>1, FoundingHistory
  <2>5. Founded'
    <3>1. NoUsers => {u \in Users : users[u] = "admin"} = {}
      BY DEF NoUsers
    <3> QED BY <2>1, <2>2, <2>3, <2>4, <3>1, FoundingHistory DEF Founding, Founded
  <2>6. ASSUME NEW u \in Threads PROVE FoundingOf(u)'
    BY <2>2, <2>3, <2>4 DEF Founding, FoundingOf, User, Ask
  <2> QED BY <2>5, <2>6 DEF Founding
<1>3. CASE UNCHANGED vars
  BY <1>3 DEF vars, requestVars, accountVars, history, Founding, Founded, FoundingOf, NoUsers,
              User, Ask
<1> QED BY <1>1, <1>2, <1>3, NextEffect

-----------------------------------------------------------------------------
(* The variables: what a request alone is about to write back differs from *)
(* the secret in its own variable only, and what it left is in every later *)
(* reading of the secret.                                                  *)
Putting == {"putsecret", "createsecret"}

AloneOf(t) ==
    /\ alone[t] /\ OnVariables(t) => \A u \in Threads \ {t} : ~OnVariables(u)
    /\ alone[t] /\ at[t] \in Putting => job[t].read = secret

KeptOf(k) ==
    kept[k] # "any" =>
        /\ secret[k] = kept[k]
        /\ \A t \in Threads : OnVariables(t) /\ Ask(t).on = k => at[t] = "audit"
        /\ \A t \in Threads : at[t] \in Putting => job[t].read[k] = kept[k]

Variables == (\A t \in Threads : AloneOf(t)) /\ \A k \in Keys : KeptOf(k)

LEMMA PutOrder ==
    ASSUME Typed, NEW t \in Threads, Effect(t)
    PROVE  /\ secret' = secret \/ Puts(t)
           /\ HasWritten(t) => Puts(t)
           /\ at'[t] \in Putting => /\ secret' = secret
                                   /\ \/ at[t] \in Putting /\ job'[t] = job[t]
                                      \/ job'[t].read = secret
           /\ at[t] = "audit" => at'[t] \in {"audit", "idle"}
<1>1. CASE Quiet(t)
  BY <1>1, QuietMoved DEF Quiet, SameData, secretVars, HasWritten, Putting
<1>2. CASE Selects(t) \/ Counts(t) \/ Inserts(t)
  <2>1. at[t] \in Early /\ at'[t] \notin Putting /\ secret' = secret
    BY <1>2, SelectsMoved, CountsMoved, InsertsMoved
       DEF Selects, Counts, Inserts, SameData, secretVars, Early, Putting
  <2> QED BY <2>1 DEF HasWritten, Early
<1>3. CASE Passes(t) \/ Owns(t) \/ Finds(t)
  <2>1. at[t] \in {"access"} \cup OnMembers /\ at'[t] \notin Putting /\ secret' = secret
    BY <1>3 DEF Passes, Owns, Finds, Becomes, Typed, SameData, secretVars, OnMembers, Putting
  <2> QED BY <2>1 DEF HasWritten, OnMembers
<1>4. CASE Enrols(t) \/ Administers(t)
  <2>1. at[t] \notin Putting /\ at[t] # "audit" /\ at'[t] \notin Putting /\ secret' = secret
    BY <1>4, EnrolsMoved, AdministersMoved DEF Enrols, Administers, secretVars, Putting
  <2> QED BY <2>1 DEF HasWritten, Putting
<1>5. CASE Reads(t)
  BY <1>5, ReadsMoved DEF Reads, SameData, secretVars, HasWritten
<1>6. CASE Defers(t)
  BY <1>6, ChecksMoved DEF Defers, SameData, secretVars, HasWritten, Becomes, Typed, Putting
<1>7. CASE Puts(t)
  BY <1>7, PutsMoved DEF Puts, Putting
<1> QED BY <1>1, <1>2, <1>3, <1>4, <1>5, <1>6, <1>7 DEF Effect

LEMMA AloneHistory ==
    ASSUME Record, NEW t \in Threads
    PROVE  alone'[t] /\ OnVariables(t)' =>
               alone[t] /\ \A u \in Threads \ {t} : ~OnVariables(u)'
<1>1. alone' = [x \in Threads |->
                   OnVariables(x)' => alone[x] /\ \A u \in Threads \ {x} : ~OnVariables(u)']
  BY DEF Record
<1> QED BY <1>1

LEMMA KeptHistory ==
    ASSUME Record, NEW k \in Keys, kept'[k] # "any"
    PROVE  /\ \A t \in Threads : at[t] = "idle" /\ OnVariables(t)' => Ask(t)'.on # k
           /\ \/ kept'[k] = kept[k]
              \/ /\ kept'[k] = secret'[k]
                 /\ \E t \in Threads : HasWritten(t) /\ alone[t] /\ Ask(t).on = k
<1>1. kept' = [x \in Keys |->
                  IF \E t \in Threads : at[t] = "idle" /\ OnVariables(t)' /\ Ask(t)'.on = x
                  THEN "any"
                  ELSE IF \E t \in Threads : HasWritten(t) /\ alone[t] /\ Ask(t).on = x
                  THEN secret'[x]
                  ELSE kept[x]]
  BY DEF Record
<1> QED BY <1>1

LEMMA PuttingIsOnVariables ==
    ASSUME InOrder, NEW t \in Threads, at[t] \in Putting
    PROVE  OnVariables(t)
BY DEF InOrder, InOrderOf, OnSecret, Putting, OnVariables

LEMMA StillOnVariables ==
    ASSUME Typed, NEW t \in Threads, Moved(t), NEW u \in Threads, OnVariables(u)', Typed'
    PROVE  at'[u] # "idle" /\ at[u] # "idle" /\ OnVariables(u) /\ Ask(u)' = Ask(u)
<1>1. at'[u] # "idle"
  BY JobsHaveOp DEF Typed, OnVariables, Ask
<1>2. Ask(u)' = Ask(u) /\ at[u] # "idle"
  BY <1>1 DEF Moved, Ask
<1> QED BY <1>1, <1>2 DEF OnVariables

LEMMA AloneKept ==
    ASSUME Typed, InOrder, InOrder', Variables, Record, NEW t \in Threads, Effect(t),
           NEW u \in Threads
    PROVE  AloneOf(u)'
<1>0. Moved(t) /\ Typed' /\ AloneOf(u)
  BY EffectMoved DEF Variables
<1>1. alone'[u] /\ OnVariables(u)' => \A v \in Threads \ {u} : ~OnVariables(v)'
  BY AloneHistory
<1>2. ASSUME alone'[u], at'[u] \in Putting PROVE job'[u].read = secret'
  <2>1. OnVariables(u)'
    BY <1>2 DEF InOrder, InOrderOf, OnSecret, Putting, OnVariables
  <2>2. alone[u] /\ OnVariables(u)
    BY <1>0, <1>2, <2>1, AloneHistory, StillOnVariables
  <2>3. CASE u = t
    BY <1>0, <1>2, <2>2, <2>3, PutOrder DEF AloneOf
  <2>4. CASE u # t
    <3>1. at[u] \in Putting /\ job'[u] = job[u] /\ job[u].read = secret
      BY <1>0, <1>2, <2>2, <2>4 DEF Moved, AloneOf
    <3>2. ~OnVariables(t)
      BY <1>0, <2>2, <2>4 DEF AloneOf
    <3>3. ~Puts(t)
      BY <3>2, PuttingIsOnVariables DEF Puts, Putting
    <3> QED BY <3>1, <3>3, PutOrder
  <2> QED BY <2>3, <2>4
<1> QED BY <1>1, <1>2 DEF AloneOf

LEMMA KeptKept ==
    ASSUME Typed, InOrder, InOrder', Variables, Record, NEW t \in Threads, Effect(t),
           NEW k \in Keys
    PROVE  KeptOf(k)'
<1>0. Moved(t) /\ Typed' /\ AloneOf(t) /\ KeptOf(k)
  BY EffectMoved DEF Variables
<1>1. SUFFICES ASSUME kept'[k] # "any"
               PROVE  /\ secret'[k] = kept'[k]
                      /\ \A u \in Threads : OnVariables(u)' /\ Ask(u)'.on = k => at'[u] = "audit"
                      /\ \A u \in Threads : at'[u] \in Putting => job'[u].read[k] = kept'[k]
  BY DEF KeptOf
<1>2. ASSUME NEW u \in Threads, at'[u] \in Putting PROVE OnVariables(u)'
  BY <1>2 DEF InOrder, InOrderOf, OnSecret, Putting, OnVariables
<1>3. CASE /\ kept'[k] = secret'[k]
           /\ \E u \in Threads : HasWritten(u) /\ alone[u] /\ Ask(u).on = k
  <2>1. HasWritten(t) /\ alone[t]
    BY <1>0, <1>3 DEF HasWritten, Moved
  <2>2. at'[t] = "audit" /\ OnVariables(t)
    BY <2>1, PuttingIsOnVariables DEF HasWritten, Putting
  <2>3. \A u \in Threads \ {t} : ~OnVariables(u)
    BY <1>0, <2>1, <2>2 DEF AloneOf
  <2>4. \A u \in Threads \ {t} : ~OnVariables(u)'
    BY <1>0, <2>3, StillOnVariables
  <2>5. "audit" \notin Putting
    BY DEF Putting
  <2> QED BY <1>2, <1>3, <2>2, <2>4, <2>5
<1>4. CASE kept'[k] = kept[k]
  <2>0. /\ secret[k] = kept[k]
        /\ \A u \in Threads : OnVariables(u) /\ Ask(u).on = k => at[u] = "audit"
        /\ \A u \in Threads : at[u] \in Putting => job[u].read[k] = kept[k]
    BY <1>0, <1>1, <1>4 DEF KeptOf
  <2>1. secret'[k] = kept'[k]
    <3>1. CASE Puts(t)
      <4>1. at[t] \in Putting /\ at[t] # "audit" /\ secret' = Changed(t)
        BY <3>1 DEF Puts, Putting
      <4>2. Ask(t).on # k /\ job[t].read[k] = kept[k]
        BY <2>0, <4>1, PuttingIsOnVariables
      <4>3. job[t].read \in [Keys -> Users \cup {"none"}]
        BY <3>1, JobFacts DEF Puts, Dicts
      <4>4. Changed(t)[k] = job[t].read[k]
        BY <4>2, <4>3 DEF Changed
      <4> QED BY <1>4, <4>1, <4>2, <4>4
    <3> QED BY <1>4, <2>0, <3>1, PutOrder
  <2>2. ASSUME NEW u \in Threads, OnVariables(u)', Ask(u)'.on = k PROVE at'[u] = "audit"
    <3>1. at'[u] # "idle" /\ OnVariables(u) /\ Ask(u)' = Ask(u)
      BY <1>0, <2>2, StillOnVariables
    <3>2. at[u] = "audit"
      BY <2>0, <2>2, <3>1
    <3> QED BY <1>0, <3>1, <3>2, PutOrder DEF Moved
  <2>3. ASSUME NEW u \in Threads, at'[u] \in Putting PROVE job'[u].read[k] = kept'[k]
    <3>1. CASE u = t
      BY <1>4, <2>0, <2>3, <3>1, PutOrder
    <3>2. CASE u # t
      BY <1>0, <1>4, <2>0, <2>3, <3>2 DEF Moved
    <3> QED BY <3>1, <3>2
  <2> QED BY <2>1, <2>2, <2>3
<1> QED BY <1>1, <1>3, <1>4, KeptHistory

LEMMA VariablesBegin ==
    ASSUME Typed, InOrder, Variables, Record, NEW t \in Threads, NEW r \in Request, Begins(t, r)
    PROVE  Variables'
<1>1. /\ Typed' /\ at'[t] = "select" /\ at[t] = "idle" /\ Ask(t)' = r /\ secret' = secret
      /\ \A u \in Threads \ {t} : /\ at'[u] = at[u] /\ job'[u] = job[u] /\ Ask(u)' = Ask(u)
                                 /\ OnVariables(u)' = OnVariables(u)
  BY BeginsMoved DEF Begins, SameData, secretVars, OnVariables, Ask
<1>2. ASSUME NEW u \in Threads PROVE AloneOf(u)'
  <2>1. alone'[u] /\ OnVariables(u)' => \A v \in Threads \ {u} : ~OnVariables(v)'
    BY AloneHistory
  <2>2. ASSUME alone'[u], at'[u] \in Putting PROVE job'[u].read = secret'
    <3>1. u # t
      BY <1>1, <2>2 DEF Putting
    <3>2. OnVariables(u)'
      BY <1>1, <2>2, <3>1, PuttingIsOnVariables
    <3> QED BY <1>1, <2>2, <3>1, <3>2, AloneHistory DEF Variables, AloneOf
  <2> QED BY <2>1, <2>2 DEF AloneOf
<1>3. ASSUME NEW k \in Keys, kept'[k] # "any" PROVE KeptOf(k)'
  <2>1. \A u \in Threads : ~HasWritten(u)
    BY <1>1 DEF HasWritten
  <2>2. kept'[k] = kept[k] /\ (OnVariables(t)' => Ask(t)'.on # k)
    BY <1>1, <1>3, <2>1, KeptHistory
  <2>3. KeptOf(k)
    BY DEF Variables
  <2> QED BY <1>1, <1>3, <2>2, <2>3 DEF KeptOf, Putting
<1> QED BY <1>2, <1>3 DEF Variables, KeptOf

LEMMA VariablesStep ==
    ASSUME Typed, InOrder, Variables, [Next]_vars
    PROVE  Variables'
<1>1. CASE \E t \in Threads : Effect(t) /\ Record
  BY <1>1, OrderStep, AloneKept, KeptKept DEF Variables
<1>2. CASE UNCHANGED vars
  BY <1>2 DEF vars, requestVars, secretVars, history, Variables, AloneOf, KeptOf, OnVariables, Ask
<1> QED BY <1>1, <1>2, VariablesBegin, NextEffect

-----------------------------------------------------------------------------
ServiceInv == Typed /\ InOrder /\ Rights /\ Ownership /\ Founding /\ Variables

LEMMA InitServiceInv == Init => ServiceInv
<1> SUFFICES ASSUME Init PROVE ServiceInv
  OBVIOUS
<1>0. Typed
  BY InitTyped
<1>1. \A t \in Threads : at[t] = "idle" /\ Ask(t).op = "none"
  BY JobsHaveOp DEF Init, Ask
<1>2. InOrder
  BY <1>1 DEF InOrder, InOrderOf, OnMembers, OnSecret
<1>3. Rights
  BY <1>1 DEF Rights, RightsOf, OnSecret
<1>4. Ownership
  BY <1>1 DEF Init, AccountsInit, Ownership, OwnerStays, OwnershipOf, OnMembers, Early
<1>5. Founding
  BY <1>1 DEF Init, AccountsInit, Founding, Founded, FoundingOf, NoUsers
<1>6. Variables
  BY <1>1 DEF Init, Variables, AloneOf, KeptOf, OnVariables, Putting
<1> QED BY <1>0, <1>2, <1>3, <1>4, <1>5, <1>6 DEF ServiceInv

LEMMA NextServiceInv == ServiceInv /\ [Next]_vars => ServiceInv'
BY TypedStep, OrderStep, RightsStep, OwnershipStep, FoundingStep, VariablesStep DEF ServiceInv

(* verify_project_access and the checks of the handlers: members, roles    *)
(* and variables are only changed, and variables only read, for a user who *)
(* was entitled to it at some time since his request began.                *)
THEOREM RequestsAreEntitled == Spec => []ActsEntitled
<1>1. ServiceInv => ActsEntitled
  BY DEF ServiceInv, Rights, RightsOf, OnSecret, ActsEntitled
<1> QED BY <1>1, InitServiceInv, NextServiceInv, PTL DEF Spec

(* remove_project_member reads the target's role and deletes the row in    *)
(* two statements: the project still has an owner from its creation on.    *)
THEOREM OwnerIsKept == Spec => []OwnerStays
<1>1. ServiceInv => OwnerStays
  BY DEF ServiceInv, Ownership
<1> QED BY <1>1, InitServiceInv, NextServiceInv, PTL DEF Spec

(* get_or_create_user counts the users before it inserts one: whoever      *)
(* became an admin so asked before there was any user, and there is one    *)
(* unless an admin was demoted.                                            *)
THEOREM FirstUsersFound == Spec => []Founded
<1>1. ServiceInv => Founded
  BY DEF ServiceInv, Founding
<1> QED BY <1>1, InitServiceInv, NextServiceInv, PTL DEF Spec

(* put_env_var and delete_env_var write the whole secret back: what a      *)
(* request left in a variable while it was the only one on the variables   *)
(* stays there until a request for that variable.                          *)
THEOREM VariablesAreKept == Spec => []VariablesKept
<1>1. ServiceInv => VariablesKept
  BY DEF ServiceInv, Variables, KeptOf, VariablesKept
<1> QED BY <1>1, InitServiceInv, NextServiceInv, PTL DEF Spec
=============================================================================
