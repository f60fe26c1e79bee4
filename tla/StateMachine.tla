---------------------------- MODULE StateMachine ----------------------------
(***************************************************************************)
(* StateMachine.update_state and get_deployment as the threads of one      *)
(* worker pod call them.  They share one StateMachine and its one          *)
(* connection attribute, conn: 0 is None, n is the n-th connection made.   *)
(* A connection is open until it is closed by this program or lost by the  *)
(* server, which the client only learns by using it (psycopg2 then marks   *)
(* the connection closed).                                                 *)
(*                                                                         *)
(* A new connection is stored before autocommit is set on it.  Whatever    *)
(* another thread executes on it in between opens a transaction that       *)
(* nothing commits: autocommit cannot be set any more, and every later     *)
(* UPDATE on that connection is part of the transaction and lost with it.  *)
(* (That an UPDATE of another connection then waits for its row lock only  *)
(* leaves steps out, and is left out.)                                     *)
(*                                                                         *)
(* call[t].phase is the next step of thread t:                             *)
(*   idle     between two calls                                            *)
(*   check    _get_conn: is there a connection?                            *)
(*   ping     _get_conn: SELECT 1                                          *)
(*   close    _get_conn: it failed, close the stored connection            *)
(*   connect  _get_conn: open one and store it                             *)
(*   setauto  _get_conn: self._conn.autocommit = True                      *)
(*   return   _get_conn: return self._conn                                 *)
(*   execute  the UPDATE or SELECT                                         *)
(*   reset    OperationalError in the first attempt: drop the connection   *)
(*   publish  the PUBLISH                                                  *)
(***************************************************************************)
EXTENDS StatusChannel

CONSTANTS Threads, Scripts     \* as in StatusWriters

ASSUME ScriptAssumption == Scripts \subseteq [Threads -> Seq(States \cup {"read"})]

VARIABLES conn, made,    \* self._conn; connections made so far
          lost, closed,  \* of those: lost by the server; closed here
          auto, begun,   \* autocommit is set; in a transaction
          call, todo     \* todo: the calls a thread has still to make

connVars == <<conn, made, lost, closed, auto, begun>>
vars == <<infraVars, channelVars, connVars, call, todo>>

Phases == {"idle", "check", "ping", "close", "connect", "setauto", "return", "execute",
           "reset", "publish"}

Calls == [phase : Phases, attempt : 1..2, handle : Nat]

TypeOK ==
    /\ InfraTypeOK /\ ChannelTypeOK
    /\ made \in Nat /\ conn \in Nat
    /\ lost \subseteq Nat /\ closed \subseteq Nat
    /\ auto \subseteq Nat /\ begun \subseteq Nat
    /\ call \in [Threads -> Calls]
    /\ todo \in [Threads -> Seq(States \cup {"read"})]
    /\ \A t \in Threads : call[t].phase # "idle" => todo[t] # <<>>

Idle == [phase |-> "idle", attempt |-> 1, handle |-> 0]

(* Mutant: the monitors start without the main thread's get_deployment.    *)
InitUnconnected == /\ InfraInit /\ ChannelInit
                   /\ conn = 0 /\ made = 0 /\ auto = {}
                   /\ lost = {} /\ closed = {} /\ begun = {}
                   /\ call = [t \in Threads |-> Idle]
                   /\ todo \in Scripts

(* The main thread has made the connection: process_message reads the row  *)
(* before it starts the first monitor.                                     *)
Init == /\ InfraInit /\ ChannelInit
        /\ conn = 1 /\ made = 1 /\ auto = {1}
        /\ lost = {} /\ closed = {} /\ begun = {}
        /\ call = [t \in Threads |-> Idle]
        /\ todo \in Scripts

At(t, phase) == call[t].phase = phase
Goto(t, phase) == call' = [call EXCEPT ![t].phase = phase] /\ UNCHANGED todo

Return(t) == /\ call' = [call EXCEPT ![t] = Idle]
             /\ todo' = [todo EXCEPT ![t] = Tail(@)]

(* The exception leaves the call; the thread makes no other.               *)
Raise(t) == /\ call' = [call EXCEPT ![t] = Idle]
            /\ todo' = [todo EXCEPT ![t] = <<>>]

(* An OperationalError: one more attempt, then it is raised.  *)
OperationalError(t) == IF call[t].attempt = 1 THEN Goto(t, "reset") ELSE Raise(t)

-----------------------------------------------------------------------------

Call(t) == /\ At(t, "idle") /\ todo[t] # <<>>
           /\ Goto(t, "check")
           /\ NoFault /\ UNCHANGED <<connVars, channelVars>>

CheckConn(t) == /\ At(t, "check")
                /\ Goto(t, IF conn = 0 \/ conn \in closed THEN "connect" ELSE "ping")
                /\ NoFault /\ UNCHANGED <<connVars, channelVars>>

Alive(c) == c \in 1..made \ (lost \cup closed)

(* A statement is executed on c: without autocommit, in a transaction.     *)
Execute(c) == begun' = begun \cup ({c} \ auto)

(* self._conn is read again: another thread may have set it to None, and   *)
(* the AttributeError is no psycopg2.Error.                                *)
Ping(t) ==
    /\ At(t, "ping")
    /\ \/ conn = 0 /\ Raise(t) /\ UNCHANGED <<closed, begun>>
       \/ Alive(conn) /\ Execute(conn) /\ Goto(t, "return") /\ UNCHANGED closed
       \/ /\ conn \in lost \cup closed /\ closed' = closed \cup {conn}
          /\ Goto(t, "close") /\ UNCHANGED begun
    /\ NoFault /\ UNCHANGED <<conn, made, lost, auto, channelVars>>

(* What is closed is the connection stored now, another thread's perhaps.  *)
CloseStale(t) == /\ At(t, "close")
                 /\ closed' = closed \cup ({conn} \ {0})
                 /\ Goto(t, "connect")
                 /\ NoFault /\ UNCHANGED <<conn, made, lost, auto, begun, channelVars>>

(* psycopg2.connect; it raises OperationalError when the server is away.   *)
OpenConn(t) == /\ At(t, "connect")
               /\ \/ /\ made' = made + 1 /\ conn' = made + 1
                     /\ Goto(t, "setauto") /\ NoFault
                  \/ Fault /\ OperationalError(t) /\ UNCHANGED <<made, conn>>
               /\ UNCHANGED <<lost, closed, auto, begun, channelVars>>

(* Again of the connection stored now.  The setter asks the client only:   *)
(* it raises AttributeError (None), InterfaceError (closed) or             *)
(* ProgrammingError (in a transaction), none of them an OperationalError.  *)
SetAutocommit(t) ==
    /\ At(t, "setauto")
    /\ IF conn = 0 \/ conn \in closed \cup begun
       THEN Raise(t) /\ UNCHANGED auto
       ELSE Goto(t, "return") /\ auto' = auto \cup {conn}
    /\ NoFault /\ UNCHANGED <<conn, made, lost, closed, begun, channelVars>>

(* return self._conn, which may be another thread's by now, or None.       *)
ReturnConn(t) == /\ At(t, "return")
                 /\ \/ /\ conn # 0
                       /\ call' = [call EXCEPT ![t].phase = "execute", ![t].handle = conn]
                       /\ UNCHANGED todo
                    \/ conn = 0 /\ Raise(t)
                 /\ NoFault /\ UNCHANGED <<connVars, channelVars>>

(* The server goes away before it answers the statement of thread t.       *)
Unanswered(t) == /\ Fault /\ OperationalError(t)
                 /\ lost' = 1..made /\ closed' = closed \cup {call[t].handle}

(* The UPDATE: in a transaction it changes nothing that others see.  *)
ExecuteUpdate(t) ==
    LET c == call[t].handle IN
    /\ At(t, "execute") /\ Alive(c) /\ Head(todo[t]) # "read"
    /\ \/ c \in auto /\ Write(Head(todo[t]))
       \/ c \notin auto /\ LoseWrite
    /\ Execute(c)
    /\ \/ Goto(t, "publish") /\ NoFault /\ UNCHANGED <<lost, closed>>
       \/ Unanswered(t)
    /\ UNCHANGED <<conn, made, auto>>

ExecuteSelect(t) ==
    /\ At(t, "execute") /\ Alive(call[t].handle) /\ Head(todo[t]) = "read"
    /\ Execute(call[t].handle)
    /\ \/ Return(t) /\ NoFault /\ UNCHANGED <<lost, closed>>
       \/ Unanswered(t)
    /\ UNCHANGED <<conn, made, auto, channelVars>>

(* A connection found lost raises OperationalError; one that was closed    *)
(* before, InterfaceError, which is not retried.                           *)
ExecuteRaises(t) ==
    LET c == call[t].handle IN
    /\ At(t, "execute") /\ ~Alive(c)
    /\ IF c \in closed THEN Raise(t) ELSE OperationalError(t)
    /\ closed' = closed \cup {c}
    /\ NoFault /\ UNCHANGED <<conn, made, lost, auto, begun, channelVars>>

(* The connection that is dropped is the one stored now, whether or not it *)
(* is the one that failed.                                                 *)
Reset(t) == /\ At(t, "reset")
            /\ conn' = 0
            /\ closed' = closed \cup ({conn} \ {0})
            /\ call' = [call EXCEPT ![t] = [phase |-> "check", attempt |-> 2, handle |-> 0]]
            /\ NoFault /\ UNCHANGED <<made, lost, auto, begun, todo, channelVars>>

PublishState(t) == /\ At(t, "publish")
                   /\ TryPublish(Head(todo[t]))
                   /\ Return(t)
                   /\ UNCHANGED connVars

(* The server restarts, or drops idle connections.  *)
ServerDrops == /\ Fault
               /\ lost' = 1..made
               /\ UNCHANGED <<conn, made, closed, auto, begun, call, todo, channelVars>>

ThreadStep(t) == \/ CheckConn(t) \/ Ping(t) \/ CloseStale(t)
                 \/ OpenConn(t) \/ SetAutocommit(t) \/ ReturnConn(t)
                 \/ ExecuteUpdate(t) \/ ExecuteSelect(t) \/ ExecuteRaises(t)
                 \/ Reset(t) \/ PublishState(t)

Next == ServerDrops \/ \E t \in Threads : Call(t) \/ ThreadStep(t)

Spec == Init /\ [][Next]_vars

-----------------------------------------------------------------------------

(* Until the database, Redis or the network has failed some call, the      *)
(* shared connection does not show: the threads behave as if each call     *)
(* were on its own.  No interleaving of calls that check, close, drop,     *)
(* replace and configure the connection under each other makes one raise,  *)
(* lose its write or write twice, unless some call failed before; and      *)
(* also then a call that ends without raising has published its state.     *)
Writers == INSTANCE StatusWriters WITH publishing <- {t \in Threads : At(t, "publish")}

ImplementsWriters == Writers!WritersSpec

(* update_state: "PostgreSQL is" authoritative (state_machine.py:64-67).   *)
(* docs/production-readiness-review.md:4: it "acts as the strict source of *)
(* truth for all Deployments".  Then a state that is published is one the  *)
(* row has had; after a reconnect it is not so.                            *)
PublishedIsWritten ==
    \A t \in Threads : At(t, "publish") => \E i \in 1..Len(rows) : rows[i] = Head(todo[t])
=============================================================================
