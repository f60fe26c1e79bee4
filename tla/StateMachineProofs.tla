------------------------- MODULE StateMachineProofs -------------------------
(***************************************************************************)
(* StateMachine implements StatusWriters.  What the shared connection      *)
(* could add to a call is an exception of another thread's making, or an   *)
(* UPDATE in a transaction nobody commits, and the invariant says why      *)
(* there is none at first: until the environment fails some call, the      *)
(* connection the main thread made is the only one and no thread touches   *)
(* it but to use it.                                                       *)
(***************************************************************************)
EXTENDS StateMachine, TLAPS

Sound == lost = {} /\ closed = {} /\ begun = {} /\ conn \in auto

SoundCall(t) == /\ call[t].phase \notin {"close", "connect", "setauto", "reset"}
                /\ call[t].attempt = 1
                /\ At(t, "execute") => call[t].handle \in auto

FaultInv ==
    /\ conn \in 0..made
    /\ auto \subseteq 1..made
    /\ faults > 0 \/ (Sound /\ \A t \in Threads : SoundCall(t))
    /\ \A t \in Threads : At(t, "publish") => Head(todo[t]) # "read"

Inv == TypeOK /\ FaultInv

LEMMA InitInv == Init => Inv
<1> SUFFICES ASSUME Init PROVE Inv
  OBVIOUS
<1>1. InfraTypeOK
  BY BudgetAssumption DEF Init, InfraInit, InfraTypeOK
<1>2. ChannelTypeOK
  <2>1. "Queued" \in States
    BY DEF States
  <2>2. /\ rows = <<"Queued">> /\ had = {"Queued"} /\ subscribed \in BOOLEAN /\ inbox = << >>
        /\ revived \in BOOLEAN /\ repeated \in BOOLEAN /\ uncommitted \in BOOLEAN
    BY DEF Init, ChannelInit
  <2>3. rows \in Seq(States) /\ rows # << >> /\ inbox \in Seq(States)
    BY <2>1, <2>2
  <2> QED BY <2>1, <2>2, <2>3 DEF ChannelTypeOK
<1>3. call \in [Threads -> Calls] /\ todo \in [Threads -> Seq(States \cup {"read"})]
  BY ScriptAssumption DEF Init, Idle, Calls, Phases
<1>4. \A t \in Threads : call[t].phase = "idle" /\ call[t].attempt = 1
  BY DEF Init, Idle
<1> QED BY <1>1, <1>2, <1>3, <1>4 DEF Init, Inv, TypeOK, FaultInv, At, Sound, SoundCall

(* What the steps of a thread do to its own record and to the others'.     *)
LEMMA GotoType ==
    ASSUME call \in [Threads -> Calls], NEW t \in Threads, NEW p \in Phases, Goto(t, p)
    PROVE  /\ call' \in [Threads -> Calls] /\ todo' = todo
           /\ call'[t].phase = p /\ call'[t].attempt = call[t].attempt
           /\ \A u \in Threads \ {t} : call'[u] = call[u]
  BY DEF Goto, Calls

LEMMA ReturnType ==
    ASSUME call \in [Threads -> Calls], NEW t \in Threads, Return(t) \/ Raise(t),
           todo \in [Threads -> Seq(States \cup {"read"})], todo[t] # <<>>
    PROVE  /\ call' \in [Threads -> Calls]
           /\ todo' \in [Threads -> Seq(States \cup {"read"})]
           /\ call'[t].phase = "idle" /\ call'[t].attempt = 1
           /\ \A u \in Threads \ {t} : call'[u] = call[u] /\ todo'[u] = todo[u]
<1>1. call' = [call EXCEPT ![t] = Idle]
  BY DEF Return, Raise
<1>2. Idle \in Calls /\ Idle.phase = "idle" /\ Idle.attempt = 1
  BY DEF Idle, Calls, Phases
<1>3. CASE Return(t)
  <2>1. Tail(todo[t]) \in Seq(States \cup {"read"})
    OBVIOUS
  <2> QED BY <1>1, <1>2, <1>3, <2>1 DEF Return
<1>4. CASE Raise(t)
  BY <1>1, <1>2, <1>4 DEF Raise
<1> QED BY <1>3, <1>4

LEMMA ErrorType ==
    ASSUME call \in [Threads -> Calls], NEW t \in Threads, OperationalError(t),
           todo \in [Threads -> Seq(States \cup {"read"})], todo[t] # <<>>
    PROVE  /\ call' \in [Threads -> Calls]
           /\ todo' \in [Threads -> Seq(States \cup {"read"})]
           /\ call'[t].phase \in {"idle", "reset"}
           /\ call'[t].phase = "reset" => todo'[t] = todo[t]
           /\ \A u \in Threads \ {t} : call'[u] = call[u] /\ todo'[u] = todo[u]
<1>1. CASE call[t].attempt = 1
  <2>1. Goto(t, "reset") /\ "reset" \in Phases
    BY <1>1 DEF OperationalError, Phases
  <2> QED BY <2>1, GotoType
<1>2. CASE call[t].attempt # 1
  BY <1>2, ReturnType DEF OperationalError
<1> QED BY <1>1, <1>2

(* What a step of thread t has to show for the invariant.                  *)
LEMMA FrameInv ==
    ASSUME Inv, NEW t \in Threads,
           call' \in [Threads -> Calls], todo' \in [Threads -> Seq(States \cup {"read"})],
           \A u \in Threads \ {t} : call'[u] = call[u] /\ todo'[u] = todo[u],
           InfraTypeOK', ChannelTypeOK', faults' >= faults,
           made' \in Nat, conn' \in 0..made', auto' \subseteq 1..made',
           lost' \subseteq Nat, closed' \subseteq Nat, begun' \subseteq Nat,
           call'[t].phase # "idle" => todo'[t] # <<>>,
           call'[t].phase = "publish" => Head(todo'[t]) # "read",
           faults' > 0 \/ (UNCHANGED connVars /\ SoundCall(t)')
    PROVE  Inv'
<1>0. faults \in Nat /\ faults' \in Nat
  BY BudgetAssumption DEF Inv, TypeOK, InfraTypeOK
<1>1. TypeOK'
  <2>1. ASSUME NEW u \in Threads, call'[u].phase # "idle" PROVE todo'[u] # <<>>
    BY <2>1 DEF Inv, TypeOK
  <2>2. conn' \in Nat /\ auto' \subseteq Nat
    OBVIOUS
  <2> QED BY <2>1, <2>2 DEF TypeOK
<1>2. ASSUME NEW u \in Threads, call'[u].phase = "publish" PROVE Head(todo'[u]) # "read"
  BY <1>2 DEF Inv, FaultInv, At
<1>3. ASSUME ~(faults' > 0) PROVE Sound' /\ \A u \in Threads : SoundCall(u)'
  <2>1. UNCHANGED connVars /\ SoundCall(t)' /\ ~(faults > 0)
    BY <1>0, <1>3
  <2>2. Sound' /\ auto' = auto
    BY <2>1 DEF Inv, FaultInv, Sound, connVars
  <2>3. ASSUME NEW u \in Threads \ {t} PROVE SoundCall(u)'
    <3>1. SoundCall(u) /\ call'[u] = call[u]
      BY <2>1 DEF Inv, FaultInv
    <3> QED BY <2>2, <3>1 DEF SoundCall, At
  <2> QED BY <2>1, <2>2, <2>3
<1> QED BY <1>1, <1>2, <1>3 DEF Inv, FaultInv, At

LEMMA FaultType ==
    ASSUME Inv, NoFault \/ Fault
    PROVE  /\ InfraTypeOK' /\ faults \in Nat /\ faults' \in Nat /\ faults' >= faults
           /\ Fault => faults' > 0
           /\ NoFault => faults' = faults
  BY BudgetAssumption DEF Inv, TypeOK, InfraTypeOK, NoFault, Fault, infraVars

LEMMA ChannelType ==
    ASSUME ChannelTypeOK, NEW s \in States
    PROVE  /\ Write(s) => ChannelTypeOK'
           /\ LoseWrite => ChannelTypeOK'
           /\ Publish(s) => ChannelTypeOK'
           /\ UNCHANGED channelVars => ChannelTypeOK'
<1>1. ASSUME Write(s) PROVE ChannelTypeOK'
  <2>1. rows' \in Seq(States) /\ rows' # << >>
    BY <1>1 DEF Write, ChannelTypeOK
  <2>2. revived' \in BOOLEAN /\ repeated' \in BOOLEAN /\ had' \subseteq States
    BY <1>1 DEF Write, ChannelTypeOK
  <2> QED BY <1>1, <2>1, <2>2 DEF Write, ChannelTypeOK
<1>2. ASSUME Publish(s) PROVE ChannelTypeOK'
  <2>1. inbox' \in Seq(States)
    BY <1>2 DEF Publish, ChannelTypeOK
  <2> QED BY <1>2, <2>1 DEF Publish, ChannelTypeOK, pastVars
<1>3. ASSUME UNCHANGED channelVars PROVE ChannelTypeOK'
  BY <1>3 DEF channelVars, pastVars, ChannelTypeOK
<1>4. ASSUME LoseWrite PROVE ChannelTypeOK'
  BY <1>4 DEF LoseWrite, ChannelTypeOK
<1> QED BY <1>1, <1>2, <1>3, <1>4

-----------------------------------------------------------------------------

(* Each step of the program, from a state of the invariant: the invariant  *)
(* again, and a step of StatusWriters or none.                             *)

WriterVars == <<infraVars, channelVars, todo, {t \in Threads : At(t, "publish")}>>

Simulates == Inv' /\ (UNCHANGED WriterVars \/ Writers!Failure
                       \/ \E t \in Threads : Writers!WriterStep(t))

LEMMA Silent ==
    ASSUME Inv, NEW t \in Threads,
           ~At(t, "publish"), call'[t].phase # "publish",
           \A u \in Threads \ {t} : call'[u] = call[u]
    PROVE  {u \in Threads : At(u, "publish")}' = {u \in Threads : At(u, "publish")}
  BY DEF At

(* A step that makes no connection.                                        *)
LEMMA ConnFrame ==
    ASSUME Inv, UNCHANGED <<conn, made, auto>>
    PROVE  /\ made' \in Nat /\ conn' \in 0..made' /\ auto' \subseteq 1..made'
           /\ lost \subseteq Nat /\ closed \subseteq Nat /\ begun \subseteq Nat
           /\ conn \in Nat /\ 1..made \subseteq Nat
  BY DEF Inv, TypeOK, FaultInv

(* A step of _get_conn that only moves the thread on.                      *)
LEMMA QuietSim ==
    ASSUME Inv, NEW t \in Threads, NEW p \in Phases \ {"idle", "publish", "execute"},
           ~At(t, "publish"), todo[t] # <<>>, Goto(t, p),
           NoFault, UNCHANGED channelVars,
           made' \in Nat, conn' \in 0..made', auto' \subseteq 1..made',
           lost' \subseteq Nat, closed' \subseteq Nat, begun' \subseteq Nat,
           faults > 0 \/ (UNCHANGED connVars /\ p \in {"check", "ping", "return"})
    PROVE  Simulates
<1>1. call' \in [Threads -> Calls] /\ todo' = todo /\ call'[t].phase = p
      /\ call'[t].attempt = call[t].attempt /\ \A u \in Threads \ {t} : call'[u] = call[u]
  BY GotoType DEF Inv, TypeOK
<1>2. InfraTypeOK' /\ faults \in Nat /\ faults' = faults /\ ChannelTypeOK'
  BY FaultType, ChannelType DEF Inv, TypeOK, States
<1>3. faults' > 0 \/ (UNCHANGED connVars /\ SoundCall(t)')
  <2>1. CASE faults > 0
    BY <1>2, <2>1
  <2>2. CASE ~(faults > 0)
    <3>1. call[t].attempt = 1
      BY <2>2 DEF Inv, FaultInv, SoundCall
    <3> QED BY <1>1, <2>2, <3>1 DEF SoundCall, At
  <2> QED BY <2>1, <2>2
<1>4. todo' \in [Threads -> Seq(States \cup {"read"})] /\ faults' >= faults
      /\ call'[t].phase # "publish"
  BY <1>1, <1>2 DEF Inv, TypeOK
<1>5. Inv'
  BY <1>1, <1>2, <1>3, <1>4, FrameInv
<1>6. UNCHANGED WriterVars
  BY <1>1, <1>4, Silent DEF WriterVars, NoFault
<1> QED BY <1>5, <1>6 DEF Simulates

(* An exception leaves the call, and some call has failed.                 *)
LEMMA RaiseSim ==
    ASSUME Inv, NEW t \in Threads, ~At(t, "publish"), todo[t] # <<>>, Raise(t),
           Fault \/ (faults > 0 /\ NoFault), UNCHANGED <<conn, made, auto, channelVars>>,
           lost' \subseteq Nat, closed' \subseteq Nat, begun' \subseteq Nat
    PROVE  Simulates
<1>1. /\ call' \in [Threads -> Calls] /\ todo' \in [Threads -> Seq(States \cup {"read"})]
      /\ call'[t].phase = "idle" /\ call'[t].attempt = 1
      /\ \A u \in Threads \ {t} : call'[u] = call[u] /\ todo'[u] = todo[u]
  BY ReturnType DEF Inv, TypeOK
<1>2. InfraTypeOK' /\ ChannelTypeOK' /\ faults' > 0 /\ faults' >= faults
  BY FaultType, ChannelType DEF Inv, TypeOK, States
<1>4. Inv'
  BY <1>1, <1>2, ConnFrame, FrameInv
<1>5. Writers!Raise(t)
  BY <1>1, Silent DEF Writers!Raise, Writers!Abandon, Writers!Fault, Writers!NoFault,
                      Fault, NoFault, Raise, At, infraVars, channelVars,
                      Writers!infraVars, Writers!channelVars, pastVars, Writers!pastVars
<1> QED BY <1>4, <1>5 DEF Simulates, Writers!WriterStep

(* Without a failure a thread is only at the steps that use the connection *)
(* and the connection is the first.                                        *)
LEMMA AfterFailure ==
    ASSUME Inv, NEW t \in Threads,
           \/ call[t].phase \in {"close", "connect", "setauto", "reset"}
           \/ conn = 0 \/ conn \in lost \cup closed \/ conn \notin auto
           \/ At(t, "execute") /\ call[t].handle \notin auto
           \/ At(t, "execute") /\ ~Alive(call[t].handle)
    PROVE  faults > 0
<1> SUFFICES ASSUME ~(faults > 0) PROVE FALSE
  OBVIOUS
<1>1. Sound /\ SoundCall(t) /\ made \in Nat /\ auto \subseteq 1..made
  BY DEF Inv, TypeOK, FaultInv
<1>0. 0 \notin 1..made
  BY <1>1
<1>2. conn # 0 /\ (At(t, "execute") => Alive(call[t].handle))
  <2>1. conn \in 1..made /\ conn # 0
    BY <1>0, <1>1 DEF Sound
  <2>2. ASSUME At(t, "execute") PROVE Alive(call[t].handle)
    <3>1. call[t].handle \in 1..made
      BY <1>1, <2>2 DEF SoundCall
    <3> QED BY <1>1, <3>1 DEF Sound, Alive
  <2> QED BY <2>1, <2>2
<1> QED BY <1>1, <1>2 DEF Sound, SoundCall

LEMMA CallSim == ASSUME Inv, NEW t \in Threads, Call(t) PROVE Simulates
<1>1. "check" \in Phases \ {"idle", "publish", "execute"} /\ Goto(t, "check")
  BY DEF Call, Phases
<1>2. ~At(t, "publish") /\ todo[t] # << >> /\ NoFault /\ UNCHANGED <<connVars, channelVars>>
  BY DEF Call, At
<1> QED BY <1>1, <1>2, QuietSim, ConnFrame DEF connVars

LEMMA CheckConnSim == ASSUME Inv, NEW t \in Threads, CheckConn(t) PROVE Simulates
<1>1. PICK p \in {"connect", "ping"} : Goto(t, p) /\ (p = "connect" => conn = 0 \/ conn \in closed)
  BY DEF CheckConn
<1>2. ~At(t, "publish") /\ todo[t] # << >> /\ NoFault /\ UNCHANGED <<connVars, channelVars>>
  BY DEF CheckConn, At, Inv, TypeOK
<1>3. p \in Phases \ {"idle", "publish", "execute"} /\ (p = "connect" => faults > 0)
  BY <1>1, AfterFailure DEF Phases
<1> QED BY <1>1, <1>2, <1>3, QuietSim, ConnFrame DEF connVars

LEMMA PingSim == ASSUME Inv, NEW t \in Threads, Ping(t) PROVE Simulates
<1>1. ~At(t, "publish") /\ todo[t] # << >> /\ NoFault
      /\ UNCHANGED <<conn, made, lost, auto, channelVars>>
  BY DEF Ping, At, Inv, TypeOK
<1>2. "return" \in Phases \ {"idle", "publish", "execute"}
      /\ "close" \in Phases \ {"idle", "publish", "execute"}
  BY DEF Phases
<1>3. CASE conn = 0 /\ Raise(t) /\ UNCHANGED <<closed, begun>>
  BY <1>1, <1>3, RaiseSim, ConnFrame, AfterFailure
<1>4. CASE Alive(conn) /\ Execute(conn) /\ Goto(t, "return") /\ UNCHANGED closed
  <2>1. begun' \subseteq Nat
    BY <1>1, <1>4, ConnFrame DEF Execute
  <2>2. faults > 0 \/ UNCHANGED connVars
    <3>1. conn \in auto => begun' = begun
      BY <1>4 DEF Execute
    <3> QED BY <1>1, <1>4, <3>1, AfterFailure DEF connVars
  <2> QED BY <1>1, <1>2, <1>4, <2>1, <2>2, QuietSim, ConnFrame
<1>5. CASE /\ conn \in lost \cup closed /\ closed' = closed \cup {conn}
           /\ Goto(t, "close") /\ UNCHANGED begun
  <2>1. faults > 0 /\ closed' \subseteq Nat
    BY <1>1, <1>5, AfterFailure, ConnFrame
  <2> QED BY <1>1, <1>2, <1>5, <2>1, QuietSim, ConnFrame
<1> QED BY <1>3, <1>4, <1>5 DEF Ping

LEMMA CloseStaleSim == ASSUME Inv, NEW t \in Threads, CloseStale(t) PROVE Simulates
<1>1. ~At(t, "publish") /\ todo[t] # << >> /\ NoFault /\ Goto(t, "connect")
      /\ UNCHANGED <<conn, made, lost, auto, begun, channelVars>>
  BY DEF CloseStale, At, Inv, TypeOK
<1>2. faults > 0
  BY AfterFailure DEF CloseStale, At
<1>3. closed' \subseteq Nat
  BY <1>1, ConnFrame DEF CloseStale
<1>4. "connect" \in Phases \ {"idle", "publish", "execute"}
  BY DEF Phases
<1> QED BY <1>1, <1>2, <1>3, <1>4, QuietSim, ConnFrame

(* An OperationalError: either it is raised, or the call starts over, and  *)
(* then the abstract call does nothing but to suffer the failure.          *)
LEMMA ErrorSim ==
    ASSUME Inv, NEW t \in Threads, ~At(t, "idle"), ~At(t, "publish"), OperationalError(t),
           Fault \/ (faults > 0 /\ NoFault), UNCHANGED <<conn, made, auto, channelVars>>,
           lost' \subseteq Nat, closed' \subseteq Nat, begun' \subseteq Nat
    PROVE  Simulates
<1>1. todo[t] # << >>
  BY DEF Inv, TypeOK, At
<1>2. CASE call[t].attempt # 1
  BY <1>1, <1>2, RaiseSim DEF OperationalError
<1>3. CASE call[t].attempt = 1
  <2>1. Goto(t, "reset") /\ "reset" \in Phases
    BY <1>3 DEF OperationalError, Phases
  <2>2. /\ call' \in [Threads -> Calls] /\ todo' = todo
        /\ call'[t].phase = "reset" /\ call'[t].attempt = call[t].attempt
        /\ \A u \in Threads \ {t} : call'[u] = call[u]
    BY <2>1, GotoType DEF Inv, TypeOK
  <2>3. InfraTypeOK' /\ ChannelTypeOK' /\ faults' > 0 /\ faults' >= faults
    BY FaultType, ChannelType DEF Inv, TypeOK, States
  <2>4. todo' \in [Threads -> Seq(States \cup {"read"})]
    BY <2>2 DEF Inv, TypeOK
  <2>5. Inv'
    BY <1>1, <2>2, <2>3, <2>4, ConnFrame, FrameInv
  <2>6. {u \in Threads : At(u, "publish")}' = {u \in Threads : At(u, "publish")}
    BY <2>2, Silent
  <2>7. ASSUME Fault PROVE Writers!Failure
    BY <2>2, <2>6, <2>7 DEF Fault, Writers!Failure, Writers!Fault, Writers!channelVars,
                            Writers!pastVars, Writers!writerVars, channelVars, pastVars
  <2>8. ASSUME NoFault PROVE UNCHANGED WriterVars
    BY <2>2, <2>6, <2>8 DEF WriterVars, NoFault
  <2>9. Writers!Failure \/ UNCHANGED WriterVars
    BY <2>7, <2>8
  <2> QED BY <2>5, <2>9 DEF Simulates
<1> QED BY <1>2, <1>3

LEMMA OpenConnSim == ASSUME Inv, NEW t \in Threads, OpenConn(t) PROVE Simulates
<1>1. ~At(t, "publish") /\ ~At(t, "idle") /\ todo[t] # << >> /\ faults > 0
      /\ UNCHANGED <<lost, closed, auto, begun, channelVars>>
  BY AfterFailure DEF OpenConn, At, Inv, TypeOK
<1>2. lost' \subseteq Nat /\ closed' \subseteq Nat /\ begun' \subseteq Nat
  BY <1>1 DEF Inv, TypeOK
<1>3. CASE made' = made + 1 /\ conn' = made + 1 /\ Goto(t, "setauto") /\ NoFault
  <2>1. made' \in Nat /\ conn' \in 0..made' /\ auto' \subseteq 1..made'
    BY <1>1, <1>3 DEF Inv, TypeOK, FaultInv
  <2>2. "setauto" \in Phases \ {"idle", "publish", "execute"}
    BY DEF Phases
  <2> QED BY <1>1, <1>2, <1>3, <2>1, <2>2, QuietSim
<1>4. CASE Fault /\ OperationalError(t) /\ UNCHANGED <<made, conn>>
  BY <1>1, <1>2, <1>4, ErrorSim
<1> QED BY <1>3, <1>4 DEF OpenConn

LEMMA SetAutocommitSim == ASSUME Inv, NEW t \in Threads, SetAutocommit(t) PROVE Simulates
<1>1. ~At(t, "publish") /\ todo[t] # << >> /\ faults > 0 /\ NoFault
      /\ UNCHANGED <<conn, made, lost, closed, begun, channelVars>>
  BY AfterFailure DEF SetAutocommit, At, Inv, TypeOK
<1>2. lost' \subseteq Nat /\ closed' \subseteq Nat /\ begun' \subseteq Nat
  BY <1>1 DEF Inv, TypeOK
<1>3. CASE Raise(t) /\ UNCHANGED auto
  BY <1>1, <1>2, <1>3, RaiseSim
<1>4. CASE Goto(t, "return") /\ auto' = auto \cup {conn} /\ conn # 0
  <2>1. made' \in Nat /\ conn' \in 0..made' /\ auto' \subseteq 1..made'
    BY <1>1, <1>4 DEF Inv, TypeOK, FaultInv
  <2>2. "return" \in Phases \ {"idle", "publish", "execute"}
    BY DEF Phases
  <2> QED BY <1>1, <1>2, <1>4, <2>1, <2>2, QuietSim
<1> QED BY <1>3, <1>4 DEF SetAutocommit

LEMMA ReturnConnSim == ASSUME Inv, NEW t \in Threads, ReturnConn(t) PROVE Simulates
<1>1. ~At(t, "publish") /\ todo[t] # << >> /\ NoFault /\ UNCHANGED <<connVars, channelVars>>
  BY DEF ReturnConn, At, Inv, TypeOK
<1>2. CASE conn = 0 /\ Raise(t)
  BY <1>1, <1>2, RaiseSim, ConnFrame, AfterFailure DEF connVars
<1>3. CASE call' = [call EXCEPT ![t].phase = "execute", ![t].handle = conn] /\ UNCHANGED todo
  <2>1. /\ call' \in [Threads -> Calls] /\ todo' = todo
        /\ call'[t].phase = "execute" /\ call'[t].attempt = call[t].attempt
        /\ call'[t].handle = conn
        /\ \A u \in Threads \ {t} : call'[u] = call[u]
    BY <1>3 DEF Inv, TypeOK, Calls, Phases
  <2>2. InfraTypeOK' /\ faults \in Nat /\ faults' = faults /\ ChannelTypeOK'
    BY <1>1, FaultType, ChannelType DEF Inv, TypeOK, States
  <2>3. faults' > 0 \/ SoundCall(t)'
    BY <1>1, <2>1, <2>2 DEF Inv, FaultInv, Sound, SoundCall, At, connVars
  <2>4. Inv'
    <3>1. todo' \in [Threads -> Seq(States \cup {"read"})] /\ UNCHANGED <<conn, made, auto>>
      BY <1>1, <2>1 DEF Inv, TypeOK, connVars
    <3>2. lost' = lost /\ closed' = closed /\ begun' = begun
      BY <1>1 DEF connVars
    <3> QED BY <1>1, <2>1, <2>2, <2>3, <3>1, <3>2, FrameInv, ConnFrame
  <2>5. UNCHANGED WriterVars
    BY <1>1, <2>1, Silent DEF WriterVars, NoFault, At
  <2> QED BY <2>4, <2>5 DEF Simulates
<1> QED BY <1>2, <1>3 DEF ReturnConn

(* What executing a statement does to the connections.                     *)
LEMMA ExecuteType ==
    ASSUME Inv, NEW t \in Threads, At(t, "execute"), Execute(call[t].handle)
    PROVE  /\ begun' \subseteq Nat
           /\ faults > 0 \/ begun' = begun
           /\ call[t].handle \in Nat
<1>1. call[t].handle \in Nat
  BY DEF Inv, TypeOK, Calls
<1>2. call[t].handle \in auto => begun' = begun
  BY DEF Execute
<1> QED BY <1>1, <1>2, AfterFailure DEF Execute, Inv, TypeOK

LEMMA ExecuteUpdateSim == ASSUME Inv, NEW t \in Threads, ExecuteUpdate(t) PROVE Simulates
<1> DEFINE s == Head(todo[t])
           c == call[t].handle
<1>1. ~At(t, "publish") /\ ~At(t, "idle") /\ todo[t] # << >> /\ UNCHANGED <<conn, made, auto>>
  BY DEF ExecuteUpdate, At, Inv, TypeOK
<1>2. s \in States /\ s # "read" /\ todo[t] \in Seq(States \cup {"read"}) /\ "read" \notin States
  BY <1>1 DEF ExecuteUpdate, Inv, TypeOK, States
<1>3. At(t, "execute") /\ Execute(c) /\ (Write(s) \/ (c \notin auto /\ LoseWrite))
  BY DEF ExecuteUpdate
<1>4. ChannelTypeOK' /\ begun' \subseteq Nat /\ c \in Nat /\ (faults > 0 \/ begun' = begun)
  BY <1>2, <1>3, ChannelType, ExecuteType DEF Inv, TypeOK
<1>5. Writers!Calls(t, s)
  BY <1>1, <1>2 DEF Writers!Calls, At
<1>6. Writers!Write(s) \/ (faults > 0 /\ Writers!LoseWrite)
  BY <1>3, AfterFailure DEF Writers!Write, Write, Writers!Row, Row, Writers!Final, Final,
     Writers!Passing, Passing, Writers!States, States, LoseWrite, Writers!LoseWrite
<1>7. CASE Goto(t, "publish") /\ NoFault /\ UNCHANGED <<lost, closed>>
  <2>1. /\ call' \in [Threads -> Calls] /\ todo' = todo
        /\ call'[t].phase = "publish" /\ call'[t].attempt = call[t].attempt
        /\ \A u \in Threads \ {t} : call'[u] = call[u]
    BY <1>7, GotoType DEF Inv, TypeOK, Phases
  <2>2. InfraTypeOK' /\ faults' = faults /\ faults \in Nat
    BY <1>7, FaultType
  <2>3. todo' \in [Threads -> Seq(States \cup {"read"})] /\ lost' \subseteq Nat /\ closed' \subseteq Nat
    BY <1>7, <2>1 DEF Inv, TypeOK
  <2>4. faults' > 0 \/ (UNCHANGED connVars /\ SoundCall(t)')
    BY <1>1, <1>4, <1>7, <2>1, <2>2 DEF Inv, FaultInv, SoundCall, At, connVars
  <2>5. Inv'
    BY <1>1, <1>2, <1>4, <2>1, <2>2, <2>3, <2>4, FrameInv, ConnFrame
  <2>6. {u \in Threads : At(u, "publish")}' = {u \in Threads : At(u, "publish")} \cup {t}
    BY <2>1 DEF At
  <2>7. Writers!Update(t, s)
    BY <1>5, <1>6, <1>7, <2>1, <2>6 DEF Writers!Update, NoFault, Writers!NoFault, infraVars,
                                        Writers!infraVars
  <2>8. Writers!WriterStep(t)
    BY <1>2, <2>7 DEF Writers!WriterStep, Writers!States, States
  <2> QED BY <2>5, <2>8 DEF Simulates
<1>8. CASE Unanswered(t)
  <2>1. /\ call' \in [Threads -> Calls] /\ todo' \in [Threads -> Seq(States \cup {"read"})]
        /\ call'[t].phase \in {"idle", "reset"}
        /\ call'[t].phase = "reset" => todo'[t] = todo[t]
        /\ \A u \in Threads \ {t} : call'[u] = call[u] /\ todo'[u] = todo[u]
    BY <1>1, <1>8, ErrorType DEF Unanswered, Inv, TypeOK
  <2>2. InfraTypeOK' /\ faults' > 0 /\ faults' >= faults
    BY <1>8, FaultType DEF Unanswered
  <2>3. lost' \subseteq Nat /\ closed' \subseteq Nat
    BY <1>1, <1>4, <1>8, ConnFrame DEF Unanswered
  <2>4. Inv'
    BY <1>1, <1>4, <2>1, <2>2, <2>3, ConnFrame, FrameInv
  <2>5. {u \in Threads : At(u, "publish")}' = {u \in Threads : At(u, "publish")}
    BY <1>1, <2>1, Silent
  <2>6. Writers!Abandon(t) \/ UNCHANGED todo
    BY <1>8 DEF Unanswered, OperationalError, Raise, Goto, Writers!Abandon
  <2>7. Writers!UpdateUnanswered(t, s)
    BY <1>5, <1>6, <1>8, <2>5, <2>6 DEF Writers!UpdateUnanswered, Unanswered, Fault, Writers!Fault
  <2>8. Writers!WriterStep(t)
    BY <1>2, <2>7 DEF Writers!WriterStep, Writers!States, States
  <2> QED BY <2>4, <2>8 DEF Simulates
<1> QED BY <1>7, <1>8 DEF ExecuteUpdate

LEMMA ExecuteSelectSim == ASSUME Inv, NEW t \in Threads, ExecuteSelect(t) PROVE Simulates
<1>1. ~At(t, "publish") /\ ~At(t, "idle") /\ todo[t] # << >> /\ Head(todo[t]) = "read"
      /\ UNCHANGED <<conn, made, auto, channelVars>>
  BY DEF ExecuteSelect, At, Inv, TypeOK
<1>2. begun' \subseteq Nat /\ call[t].handle \in Nat /\ (faults > 0 \/ begun' = begun)
  BY ExecuteType DEF ExecuteSelect
<1>3. CASE Return(t) /\ NoFault /\ UNCHANGED <<lost, closed>>
  <2>1. /\ call' \in [Threads -> Calls] /\ todo' \in [Threads -> Seq(States \cup {"read"})]
        /\ call'[t].phase = "idle" /\ call'[t].attempt = 1
        /\ \A u \in Threads \ {t} : call'[u] = call[u] /\ todo'[u] = todo[u]
    BY <1>1, <1>3, ReturnType DEF Inv, TypeOK
  <2>2. InfraTypeOK' /\ faults' = faults /\ faults \in Nat /\ ChannelTypeOK'
    BY <1>1, <1>3, FaultType, ChannelType DEF Inv, TypeOK, States
  <2>3. faults' > 0 \/ (UNCHANGED connVars /\ SoundCall(t)')
    BY <1>1, <1>2, <1>3, <2>1, <2>2 DEF connVars, SoundCall, At
  <2>4. Inv'
    BY <1>1, <1>2, <1>3, <2>1, <2>2, <2>3, FrameInv, ConnFrame
  <2>5. {u \in Threads : At(u, "publish")}' = {u \in Threads : At(u, "publish")}
    BY <1>1, <2>1, Silent
  <2>6. Writers!Read(t)
    BY <1>1, <1>3, <2>5 DEF Writers!Read, Writers!Calls, Writers!Finish, Return, At, NoFault,
        Writers!NoFault, infraVars, Writers!infraVars, channelVars, pastVars,
        Writers!channelVars, Writers!pastVars
  <2> QED BY <2>4, <2>6 DEF Simulates, Writers!WriterStep
<1>4. CASE Unanswered(t)
  <2>1. lost' \subseteq Nat /\ closed' \subseteq Nat
    BY <1>1, <1>2, <1>4, ConnFrame DEF Unanswered
  <2> QED BY <1>1, <1>2, <1>4, <2>1, ErrorSim DEF Unanswered
<1> QED BY <1>3, <1>4 DEF ExecuteSelect

LEMMA ExecuteRaisesSim == ASSUME Inv, NEW t \in Threads, ExecuteRaises(t) PROVE Simulates
<1>1. ~At(t, "publish") /\ ~At(t, "idle") /\ todo[t] # << >> /\ NoFault
      /\ UNCHANGED <<conn, made, lost, auto, begun, channelVars>>
      /\ closed' = closed \cup {call[t].handle}
  BY DEF ExecuteRaises, At, Inv, TypeOK
<1>2. faults > 0
  BY AfterFailure DEF ExecuteRaises
<1>3. lost' \subseteq Nat /\ closed' \subseteq Nat /\ begun' \subseteq Nat
  <2>1. call[t].handle \in Nat
    BY DEF Inv, TypeOK, Calls
  <2> QED BY <1>1, <2>1, ConnFrame
<1>4. Raise(t) \/ OperationalError(t)
  BY DEF ExecuteRaises
<1> QED BY <1>1, <1>2, <1>3, <1>4, RaiseSim, ErrorSim

LEMMA ResetSim == ASSUME Inv, NEW t \in Threads, Reset(t) PROVE Simulates
<1>1. ~At(t, "publish") /\ todo[t] # << >> /\ NoFault
      /\ UNCHANGED <<made, lost, auto, begun, todo, channelVars>>
  BY DEF Reset, At, Inv, TypeOK
<1>2. faults > 0
  BY AfterFailure DEF Reset, At
<1>3. InfraTypeOK' /\ faults' = faults /\ faults \in Nat /\ ChannelTypeOK'
  BY <1>1, FaultType, ChannelType DEF Inv, TypeOK, States
<1>4. /\ call' \in [Threads -> Calls] /\ call'[t].phase = "check"
      /\ \A u \in Threads \ {t} : call'[u] = call[u]
  BY DEF Reset, Inv, TypeOK, Calls, Phases
<1>5. /\ made' \in Nat /\ conn' \in 0..made' /\ auto' \subseteq 1..made'
      /\ lost' \subseteq Nat /\ closed' \subseteq Nat /\ begun' \subseteq Nat
      /\ todo' \in [Threads -> Seq(States \cup {"read"})]
  BY <1>1 DEF Reset, Inv, TypeOK, FaultInv
<1>6. Inv'
  BY <1>1, <1>2, <1>3, <1>4, <1>5, FrameInv
<1>7. UNCHANGED WriterVars
  BY <1>1, <1>4, Silent DEF WriterVars, NoFault, At
<1> QED BY <1>6, <1>7 DEF Simulates

LEMMA PublishSim == ASSUME Inv, NEW t \in Threads, PublishState(t) PROVE Simulates
<1>1. At(t, "publish") /\ todo[t] # << >> /\ UNCHANGED connVars /\ Return(t)
  BY DEF PublishState, At, Inv, TypeOK
<1> DEFINE s == Head(todo[t])
<1>2. s \in States /\ TryPublish(s)
  BY <1>1 DEF PublishState, Inv, TypeOK, FaultInv
<1>3. (NoFault \/ Fault) /\ ChannelTypeOK'
  BY <1>2, ChannelType DEF TryPublish, Inv, TypeOK
<1>4. /\ call' \in [Threads -> Calls] /\ todo' \in [Threads -> Seq(States \cup {"read"})]
      /\ call'[t].phase = "idle" /\ call'[t].attempt = 1
      /\ \A u \in Threads \ {t} : call'[u] = call[u] /\ todo'[u] = todo[u]
  BY <1>1, ReturnType DEF Inv, TypeOK
<1>5. InfraTypeOK' /\ faults' >= faults /\ faults \in Nat /\ faults' \in Nat
  BY <1>3, FaultType
<1>6. Inv'
  <2>1. UNCHANGED <<conn, made, auto>> /\ lost' = lost /\ closed' = closed /\ begun' = begun
        /\ SoundCall(t)'
    BY <1>1, <1>4 DEF connVars, SoundCall, At
  <2> QED BY <1>1, <1>3, <1>4, <1>5, <2>1, FrameInv, ConnFrame
<1>7. {u \in Threads : At(u, "publish")}' = {u \in Threads : At(u, "publish")} \ {t}
  BY <1>4 DEF At
<1>8. Writers!TryPublish(s)
  BY <1>2 DEF TryPublish, Writers!TryPublish, Publish, Writers!Publish, Fault, Writers!Fault,
              NoFault, Writers!NoFault, infraVars, Writers!infraVars, channelVars,
              Writers!channelVars, pastVars, Writers!pastVars
<1>9. Writers!PublishState(t)
  BY <1>1, <1>7, <1>8 DEF Writers!PublishState, Writers!Finish, Return
<1> QED BY <1>6, <1>9 DEF Simulates, Writers!WriterStep

LEMMA ServerSim == ASSUME Inv, ServerDrops PROVE Simulates
<1>1. Fault /\ lost' = 1..made
      /\ UNCHANGED <<conn, made, closed, auto, begun, call, todo, channelVars>>
  BY DEF ServerDrops
<1>2. InfraTypeOK' /\ faults' > 0 /\ ChannelTypeOK'
  BY <1>1, FaultType, ChannelType DEF Inv, TypeOK, States
<1>3. TypeOK' /\ FaultInv'
  <2>1. lost' \subseteq Nat
    BY <1>1 DEF Inv, TypeOK
  <2>2. TypeOK'
    BY <1>1, <1>2, <2>1 DEF Inv, TypeOK
  <2>3. FaultInv'
    BY <1>1, <1>2 DEF Inv, FaultInv, At
  <2> QED BY <2>2, <2>3
<1>4. Writers!Failure
  BY <1>1 DEF Writers!Failure, Fault, Writers!Fault, Writers!channelVars, Writers!pastVars,
              channelVars, pastVars,
              Writers!writerVars, At
<1> QED BY <1>3, <1>4 DEF Simulates, Inv

-----------------------------------------------------------------------------

LEMMA NextSim == ASSUME Inv, [Next]_vars PROVE Simulates
<1>1. CASE UNCHANGED vars
  <2>1. Inv'
    BY <1>1 DEF vars, connVars, infraVars, channelVars, pastVars, Inv, TypeOK, FaultInv, InfraTypeOK,
                ChannelTypeOK, At, Sound, SoundCall
  <2>2. UNCHANGED WriterVars
    BY <1>1 DEF vars, WriterVars, At
  <2> QED BY <2>1, <2>2 DEF Simulates
<1>2. CASE ServerDrops
  BY <1>2, ServerSim
<1>3. ASSUME NEW t \in Threads, Call(t) \/ ThreadStep(t) PROVE Simulates
  BY <1>3, CallSim, CheckConnSim, PingSim, CloseStaleSim, OpenConnSim,
     SetAutocommitSim, ReturnConnSim, ExecuteUpdateSim, ExecuteSelectSim, ExecuteRaisesSim, ResetSim, PublishSim DEF ThreadStep
<1> QED BY <1>1, <1>2, <1>3 DEF Next

(* Whatever the threads, their calls and the number of failures: only a    *)
(* failure of the database, Redis or the network makes a call of           *)
(* update_state or get_deployment raise, lose its write or write twice,    *)
(* and every call that does not raise publishes what it was called with    *)
(* (state_machine.py:22-126).                                              *)
THEOREM StateMachineImplements == Spec => ImplementsWriters
<1>1. Init => /\ Writers!InfraInit /\ Writers!ChannelInit /\ Writers!WritersInit
  BY DEF Init, Idle, At, InfraInit, ChannelInit, Writers!InfraInit, Writers!ChannelInit,
         Writers!WritersInit
<1>2. Inv /\ [Next]_vars => Inv'
  BY NextSim DEF Simulates
<1>3. Inv /\ [Next]_vars =>
        [Writers!Failure \/ \E t \in Threads : Writers!WriterStep(t)]_<<
            Writers!infraVars, Writers!channelVars, Writers!writerVars>>
  BY NextSim DEF Simulates, WriterVars, infraVars, channelVars, Writers!infraVars,
                 Writers!channelVars, pastVars, Writers!pastVars, Writers!writerVars
<1> QED BY <1>1, <1>2, <1>3, InitInv, PTL DEF Spec, ImplementsWriters, Writers!WritersSpec
=============================================================================
