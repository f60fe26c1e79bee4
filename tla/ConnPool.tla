------------------------------ MODULE ConnPool ------------------------------
(***************************************************************************)
(* database.get_connection: the pool of database connections the requests  *)
(* of one API pod share.  It is made at startup by init_db or, when that   *)
(* failed (init_db swallows it), by whichever request finds none, without  *)
(* a lock.  db_pool is read three times on the way to a connection.        *)
(*                                                                         *)
(* use[t] is where thread t stands with its one connection:                *)
(*   out    it has none                                                    *)
(*   check  it is about to look whether there is a pool                    *)
(*   make   it saw none                                                    *)
(*   get    db_pool.getconn()                                              *)
(*   wrap   it has one and has still to say to which pool it goes back     *)
(*   in     it has one                                                     *)
(***************************************************************************)
EXTENDS Faults, FiniteSets, Sequences

CONSTANTS Threads,       \* FastAPI's worker threads
          MaxConn        \* connections of a pool (20)

ASSUME PoolAssumption == IsFiniteSet(Threads) /\ MaxConn \in Nat \ {0}

VARIABLES pool,          \* db_pool: 0 is None, n the n-th pool made
          lent,          \* lent[n]: connections pool n counts as in use
          use,
          conn           \* the pool the connection is from, and goes to

poolVars == <<pool, lent, use, conn>>

NoConn == [from |-> 0, back |-> 0]

Uses == {"out", "check", "make", "get", "wrap", "in"}

PoolTypeOK ==
    /\ pool = Len(lent)
    /\ \A n \in 1..Len(lent) : lent[n] \in 0..MaxConn
    /\ use \in [Threads -> Uses]
    /\ conn \in [Threads -> [from : 0..pool, back : 0..pool]]

(* Startup made the pool, or it failed.  *)
PoolInit == /\ lent \in {<<>>, <<0>>} /\ pool = Len(lent)
            /\ use = [t \in Threads |-> "out"]
            /\ conn = [t \in Threads |-> NoConn]

(* A thread asks for a connection; once there is a pool there always is.   *)
Asking == IF pool = 0 THEN "check" ELSE "get"

Moves(t, u) == use' = [use EXCEPT ![t] = u]

CheckPool(t) == /\ use[t] = "check"
                /\ Moves(t, IF pool = 0 THEN "make" ELSE "get")
                /\ UNCHANGED <<pool, lent, conn>>

(* Two threads that saw none both make one; the last one made is db_pool.  *)
MakePool(t) == /\ use[t] = "make"
               /\ lent' = Append(lent, 0) /\ pool' = pool + 1
               /\ Moves(t, "get")
               /\ UNCHANGED conn

(* Mutant: the pool has no limit.                                         *)
HasPool == pool # 0

HasRoom == pool # 0 /\ lent[pool] < MaxConn

(* While somebody may still make another pool, db_pool can change between  *)
(* getconn() and the wrapper; otherwise the two are one step.              *)
GetConn(t) ==
    /\ use[t] = "get" /\ HasRoom
    /\ lent' = [lent EXCEPT ![pool] = @ + 1]
    /\ \/ /\ \E u \in Threads : use[u] = "make"
          /\ conn' = [conn EXCEPT ![t] = [from |-> pool, back |-> 0]] /\ Moves(t, "wrap")
       \/ /\ \A u \in Threads : use[u] # "make"
          /\ conn' = [conn EXCEPT ![t] = [from |-> pool, back |-> pool]] /\ Moves(t, "in")
    /\ UNCHANGED pool

Wrap(t) == /\ use[t] = "wrap"
           /\ conn' = [conn EXCEPT ![t].back = pool]
           /\ Moves(t, "in")
           /\ UNCHANGED <<pool, lent>>

(* putconn() raises when the connection is not one of that pool's.         *)
PutRaises(t) == conn[t].from # conn[t].back

(* It is given back in the step that used it last: only a thread that asks *)
(* for one in between could tell, and it may as well ask before that step. *)
PutConn(t, next) ==
    /\ use[t] = "in"
    /\ lent' = IF PutRaises(t) THEN lent ELSE [lent EXCEPT ![conn[t].from] = @ - 1]
    /\ conn' = [conn EXCEPT ![t] = NoConn]
    /\ Moves(t, next)
    /\ UNCHANGED pool

-----------------------------------------------------------------------------
(* No connection is lost: what the pool counts as lent is in the hands of  *)
(* a request, whichever statement of it raised, however pools were made.   *)
NoConnLost ==
    pool # 0 => lent[pool] = Cardinality({t \in Threads : conn[t].from = pool})
=============================================================================
