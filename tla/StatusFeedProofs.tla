-------------------------- MODULE StatusFeedProofs --------------------------
(***************************************************************************)
(* What a page may rely on, for any number of writers.  It never goes      *)
(* back: every step of the feed writes the row, renders an answer, or      *)
(* touches neither, and an answer is one of the values the row has had     *)
(* since the last one.  And it misses nothing: while no call has raised,   *)
(* a row the page does not show is wanted, read, under way to the session  *)
(* or still to be published.                                               *)
(***************************************************************************)
EXTENDS StatusFeed, SequenceTheorems, TLAPS

(***************************************************************************)
(* Types.                                                                  *)
(***************************************************************************)
LEMMA RestOfRows ==
    ASSUME NEW s \in Seq(States), NEW i \in 1..Len(s)
    PROVE  LET u == SubSeq(s, i, Len(s))
           IN  /\ u \in Seq(States) /\ u # <<>> /\ Len(u) = Len(s) - i + 1
               /\ \A j \in 1..Len(u) : u[j] = s[j + i - 1] /\ j + i - 1 \in 1..Len(s)
               /\ u[Len(u)] = s[Len(s)]
<1>1. i \in Int /\ Len(s) \in Int /\ i <= Len(s) /\ \A j \in i..Len(s) : s[j] \in States
  OBVIOUS
<1> DEFINE u == SubSeq(s, i, Len(s))
<1>2. /\ u \in Seq(States) /\ Len(u) = Len(s) - i + 1
      /\ \A j \in 1..(Len(s) - i + 1) : u[j] = s[i + j - 1]
  BY <1>1, SubSeqProperties
<1> HIDE DEF u
<1>3. u # <<>>
  BY <1>1, <1>2
<1>4. \A j \in 1..Len(u) : u[j] = s[j + i - 1] /\ j + i - 1 \in 1..Len(s)
  BY <1>1, <1>2
<1>5. u[Len(u)] = s[Len(s)]
  BY <1>1, <1>2, <1>4
<1> QED BY <1>2, <1>3, <1>4, <1>5 DEF u

LEMMA FaultTyped == ASSUME InfraTypeOK, Fault \/ NoFault PROVE InfraTypeOK'
  BY BudgetAssumption DEF InfraTypeOK, Fault, NoFault, infraVars

LEMMA WriteTyped ==
    ASSUME ChannelTypeOK, NEW s \in States, Write(s)
    PROVE  /\ ChannelTypeOK' /\ UNCHANGED <<subscribed, inbox>>
           /\ Len(rows) \in Nat /\ Len(rows') = Len(rows) + 1
<1>1. rows' = Append(rows, s) /\ rows \in Seq(States)
  BY DEF Write, ChannelTypeOK
<1>2. rows' \in Seq(States) /\ rows' # <<>> /\ Len(rows') = Len(rows) + 1 /\ Len(rows) \in Nat
  BY <1>1, AppendProperties, LenProperties
<1>3. revived' \in BOOLEAN /\ repeated' \in BOOLEAN /\ had' \subseteq States
  BY DEF Write, ChannelTypeOK
<1> QED BY <1>2, <1>3 DEF Write, ChannelTypeOK

LEMMA LoseTyped ==
    ASSUME ChannelTypeOK, LoseWrite
    PROVE  ChannelTypeOK' /\ UNCHANGED <<rows, subscribed>>
  BY DEF LoseWrite, ChannelTypeOK

LEMMA PublishTyped ==
    ASSUME ChannelTypeOK, NEW s \in States, TryPublish(s) \/ Publish(s)
    PROVE  ChannelTypeOK' /\ UNCHANGED <<rows, subscribed>>
  BY DEF TryPublish, Publish, channelVars, pastVars, ChannelTypeOK

LEMMA SameChannel == ASSUME ChannelTypeOK, UNCHANGED channelVars PROVE ChannelTypeOK'
  BY DEF channelVars, pastVars, ChannelTypeOK

(* The page does not mind the row growing.                                 *)
LEMMA SamePage ==
    ASSUME PageTypeOK, UNCHANGED <<pageVars, linkVars, subscribed>>,
           Len(rows) \in Nat, Len(rows') \in Nat, Len(rows) <= Len(rows')
    PROVE  PageTypeOK'
<1>1. answer' \in 0..Len(rows')
  BY DEF PageTypeOK, pageVars
<1> QED BY <1>1 DEF PageTypeOK, pageVars, linkVars

LEMMA SameWriters == ASSUME WritersTypeOK, UNCHANGED writerVars PROVE WritersTypeOK'
  BY DEF WritersTypeOK, writerVars

LEMMA WriterMoves ==
    ASSUME WritersTypeOK, NEW t \in Threads,
           todo' = todo \/ (todo[t] # <<>> /\ Finish(t)) \/ Abandon(t),
           publishing' \subseteq publishing \cup {t},
           t \in publishing' => todo' = todo /\ todo[t] # <<>> /\ Head(todo[t]) # "read"
    PROVE  WritersTypeOK'
<1>1. todo \in [Threads -> Seq(States \cup {"read"})] /\ todo[t] \in Seq(States \cup {"read"})
  BY DEF WritersTypeOK
<1>2. /\ todo' \in [Threads -> Seq(States \cup {"read"})]
      /\ \A u \in Threads \ {t} : todo'[u] = todo[u]
  <2>1. CASE todo' = todo
    BY <1>1, <2>1
  <2>2. CASE todo[t] # <<>> /\ Finish(t)
    <3>1. Tail(todo[t]) \in Seq(States \cup {"read"})
      BY <1>1, <2>2, HeadTailProperties
    <3> QED BY <1>1, <2>2, <3>1 DEF Finish
  <2>3. CASE Abandon(t)
    <3>1. <<>> \in Seq(States \cup {"read"})
      OBVIOUS
    <3> QED BY <1>1, <2>3, <3>1 DEF Abandon
  <2> QED BY <2>1, <2>2, <2>3
<1>3. ASSUME NEW u \in publishing' PROVE u \in Threads /\ todo'[u] # <<>> /\ Head(todo'[u]) # "read"
  <2>1. CASE u = t
    BY <1>3, <2>1
  <2>2. CASE u # t
    BY <1>2, <1>3, <2>2 DEF WritersTypeOK
  <2> QED BY <2>1, <2>2
<1> QED BY <1>2, <1>3 DEF WritersTypeOK

LEMMA InitTypes == Init => TypeOK
<1> SUFFICES ASSUME Init PROVE TypeOK
  OBVIOUS
<1>1. InfraTypeOK /\ enqueue \in {"ok", "raised"} /\ verdict \in Verdicts
  BY BudgetAssumption DEF Init, InfraInit, InfraTypeOK, Verdicts
<1>2. ChannelTypeOK
  <2>1. "Queued" \in States
    BY DEF States
  <2>2. <<"Queued">> \in Seq(States) /\ <<"Queued">> # <<>> /\ <<>> \in Seq(States)
    BY <2>1
  <2> QED BY <2>1, <2>2 DEF Init, ChannelInit, ChannelTypeOK
<1>3. WritersTypeOK
  BY ScriptAssumption DEF Init, WritersInit, WritersTypeOK
<1>4. PageTypeOK
  <2>1. Len(rows) \in Nat
    BY <1>2 DEF ChannelTypeOK
  <2>2. answer \in 0..Len(rows)
    BY <2>1 DEF Init, PageInit
  <2> QED BY <2>2 DEF Init, PageInit, PageTypeOK, PageStates, LinkStates
<1>5. pending \in 0..MaxPending
  BY PendingAssumption DEF Init
<1> QED BY <1>1, <1>2, <1>3, <1>4, <1>5 DEF TypeOK

LEMMA ThreadTyped == ASSUME TypeOK, NEW t \in Threads, Thread(t) PROVE TypeOK'
<1>1. WriterStep(t) /\ UNCHANGED <<pageVars, linkVars, feedVars>>
  BY DEF Thread
<1>2. /\ InfraTypeOK /\ ChannelTypeOK /\ WritersTypeOK /\ PageTypeOK
      /\ verdict' \in Verdicts /\ enqueue' \in {"ok", "raised", "marked"}
      /\ pending' \in 0..MaxPending
  BY <1>1 DEF TypeOK, feedVars
<1>3. Len(rows) \in Nat
  BY <1>2, LenProperties DEF ChannelTypeOK
<1>4. CASE Read(t)
  <2>1. todo[t] # <<>> /\ Finish(t) /\ UNCHANGED <<publishing, channelVars>> /\ NoFault
        /\ t \notin publishing
    BY <1>4 DEF Read, Calls
  <2>2. ChannelTypeOK' /\ PageTypeOK'
    BY <1>1, <1>2, <1>3, <2>1, SameChannel, SamePage DEF channelVars
  <2> QED BY <1>2, <2>1, <2>2, WriterMoves, FaultTyped DEF TypeOK
<1>5. CASE Raise(t)
  <2>1. Abandon(t) /\ UNCHANGED <<publishing, channelVars>> /\ t \notin publishing
        /\ (Fault \/ NoFault)
    BY <1>5 DEF Raise
  <2>2. ChannelTypeOK' /\ PageTypeOK'
    BY <1>1, <1>2, <1>3, <2>1, SameChannel, SamePage DEF channelVars
  <2> QED BY <1>2, <2>1, <2>2, WriterMoves, FaultTyped DEF TypeOK
<1>6. CASE PublishState(t)
  <2>1. t \in publishing /\ TryPublish(Head(todo[t])) /\ Finish(t) /\ publishing' = publishing \ {t}
    BY <1>6 DEF PublishState
  <2>2. todo[t] # <<>> /\ Head(todo[t]) \in States
    BY <1>2, <2>1, HeadTailProperties DEF WritersTypeOK
  <2>3. ChannelTypeOK' /\ UNCHANGED <<rows, subscribed>> /\ InfraTypeOK'
    BY <1>2, <2>1, <2>2, PublishTyped, FaultTyped DEF TryPublish
  <2>4. PageTypeOK'
    BY <1>1, <1>2, <1>3, <2>3, SamePage
  <2> QED BY <1>2, <2>1, <2>2, <2>3, <2>4, WriterMoves DEF TypeOK
<1>7. ASSUME NEW s \in States, Update(t, s) \/ UpdateUnanswered(t, s) PROVE TypeOK'
  <2>1. /\ Write(s) \/ LoseWrite
        /\ Calls(t, s) /\ (Fault \/ NoFault) /\ (todo' = todo \/ Abandon(t))
        /\ publishing' \subseteq publishing \cup {t} /\ (t \in publishing' => todo' = todo)
    BY <1>7 DEF Update, UpdateUnanswered, Calls
  <2>2. Head(todo[t]) # "read" /\ todo[t] # <<>>
    BY <2>1 DEF Calls, States
  <2>3. ChannelTypeOK' /\ PageTypeOK'
    BY <1>1, <1>2, <1>3, <2>1, WriteTyped, LoseTyped, SamePage
  <2> QED BY <1>2, <2>1, <2>2, <2>3, WriterMoves, FaultTyped DEF TypeOK
<1> QED BY <1>1, <1>4, <1>5, <1>6, <1>7 DEF WriterStep

LEMMA ServerTyped ==
    ASSUME TypeOK,
           \/ \E t \in Threads : PodPending(t)
           \/ ControllerDecides \/ ControllerWrites \/ ControllerPublishes \/ ApiMarksFailed
    PROVE  TypeOK'
<1>1. /\ InfraTypeOK /\ ChannelTypeOK /\ WritersTypeOK /\ PageTypeOK
      /\ verdict \in Verdicts /\ enqueue \in {"ok", "raised", "marked"} /\ pending \in 0..MaxPending
  BY DEF TypeOK
<1>2. Len(rows) \in Nat
  BY <1>1, LenProperties DEF ChannelTypeOK
<1>3. UNCHANGED <<writerVars, pageVars, linkVars>> /\ (Fault \/ NoFault)
  BY DEF PodPending, ControllerDecides, ControllerWrites, ControllerPublishes, ApiMarksFailed,
         TryPublish
<1>4. ChannelTypeOK' /\ subscribed' = subscribed /\ Len(rows') \in Nat /\ Len(rows) <= Len(rows')
  <2>1. CASE ControllerDecides
    BY <1>1, <1>2, <2>1, SameChannel DEF ControllerDecides, channelVars
  <2>2. CASE ControllerWrites
    <3>1. verdict[2] \in States /\ Write(verdict[2])
      BY <1>1, <2>2 DEF ControllerWrites, Verdicts, Final, States
    <3> QED BY <1>1, <3>1, WriteTyped
  <2>3. CASE ControllerPublishes
    <3>1. verdict[2] \in States /\ TryPublish(verdict[2])
      BY <1>1, <2>3 DEF ControllerPublishes, Verdicts, Final, States
    <3> QED BY <1>1, <1>2, <3>1, PublishTyped
  <2>4. CASE ApiMarksFailed
    <3>1. "Failed" \in States /\ Write("Failed")
      BY <2>4 DEF ApiMarksFailed, States
    <3> QED BY <1>1, <3>1, WriteTyped
  <2>5. ASSUME NEW t \in Threads, PodPending(t)
        PROVE  /\ ChannelTypeOK' /\ subscribed' = subscribed
               /\ Len(rows') \in Nat /\ Len(rows) <= Len(rows')
    <3>1. "Queued" \in States /\ Publish("Queued")
      BY <2>5 DEF PodPending, States
    <3> QED BY <1>1, <1>2, <3>1, PublishTyped
  <2> QED BY <2>1, <2>2, <2>3, <2>4, <2>5
<1>5. PageTypeOK'
  BY <1>1, <1>2, <1>3, <1>4, SamePage
<1>6. verdict' \in Verdicts /\ enqueue' \in {"ok", "raised", "marked"} /\ pending' \in 0..MaxPending
  <2>1. CASE ControllerDecides
    BY <1>1, <2>1 DEF ControllerDecides, Verdicts, Final
  <2>2. CASE ControllerWrites
    BY <1>1, <2>2 DEF ControllerWrites, Verdicts, Final
  <2>3. CASE ControllerPublishes
    BY <1>1, <2>3 DEF ControllerPublishes, Verdicts
  <2>4. CASE ApiMarksFailed
    BY <1>1, <2>4 DEF ApiMarksFailed
  <2>5. ASSUME NEW t \in Threads, PodPending(t)
        PROVE  /\ verdict' \in Verdicts /\ enqueue' \in {"ok", "raised", "marked"}
               /\ pending' \in 0..MaxPending
    BY <1>1, <2>5, PendingAssumption DEF PodPending
  <2> QED BY <2>1, <2>2, <2>3, <2>4, <2>5
<1> QED BY <1>1, <1>3, <1>4, <1>5, <1>6, SameWriters, FaultTyped DEF TypeOK

LEMMA ViewerTyped == ASSUME TypeOK, Viewer PROVE TypeOK'
<1>1. /\ InfraTypeOK /\ ChannelTypeOK /\ WritersTypeOK' /\ PageTypeOK
      /\ verdict' \in Verdicts /\ enqueue' \in {"ok", "raised", "marked"}
      /\ pending' \in 0..MaxPending
  BY SameWriters DEF TypeOK, Viewer, feedVars
<1>2. /\ rows \in Seq(States) /\ rows # <<>> /\ Len(rows) \in Nat /\ Row \in States
      /\ inbox \in Seq(States) /\ <<>> \in Seq(States)
  <2>1. rows \in Seq(States) /\ rows # <<>>
    BY <1>1 DEF ChannelTypeOK
  <2>2. Len(rows) \in 1..Len(rows)
    BY <2>1
  <2> QED BY <1>1, <2>1, <2>2 DEF ChannelTypeOK, Row
<1>3. InfraTypeOK'
  BY <1>1, FaultTyped DEF Viewer, OpenPage, PageStep, ReadRow, Render, Connect, SessionStep,
     FetchInitial, SendInitial, Forward, ReadFails, IdleDrop, SessionBreaks
<1> SUFFICES ChannelTypeOK' /\ PageTypeOK'
  BY <1>1, <1>3 DEF TypeOK
<1>4. CASE OpenPage \/ ReadRow
  <2>1. UNCHANGED <<link, initial, rows, pastVars, subscribed, inbox, shown, lastState, done>>
    BY <1>4 DEF OpenPage, ReadRow, StayLinked, linkVars, channelVars
  <2>2. wanted' \in BOOLEAN /\ answer' \in 0..Len(rows) /\ page' \in PageStates
        /\ (page = "live" => page' = "live")
    <3>1. wanted' = TRUE \/ wanted' = FALSE
      BY <1>4 DEF OpenPage, ReadRow
    <3>2. answer' = answer \/ answer' = Len(rows)
      BY <1>4 DEF OpenPage, ReadRow
    <3>3. page' = page \/ (page = "closed" /\ page' = "loading")
      BY <1>4 DEF OpenPage, ReadRow
    <3>4. answer \in 0..Len(rows) /\ page \in PageStates
      BY <1>1 DEF PageTypeOK
    <3>5. answer' \in 0..Len(rows)
      BY <1>2, <3>2, <3>4
    <3> QED BY <3>1, <3>3, <3>4, <3>5 DEF PageStates
  <2>3. ChannelTypeOK'
    BY <1>1, <2>1 DEF ChannelTypeOK, pastVars
  <2> QED BY <1>1, <2>1, <2>2, <2>3 DEF PageTypeOK
<1>5. CASE Render
  <2>1. /\ answer \in 1..Len(rows) /\ shown' = rows[answer] /\ answer' = 0
        /\ rows' = SubSeq(rows, answer, Len(rows)) /\ UNCHANGED <<pastVars, wanted>>
        /\ \/ page' = "live" /\ rows[answer] \notin Final /\ Follow
           \/ page' = "still" /\ CloseSocket
        /\ Fresh
    <3>1. answer \in 1..Len(rows)
      <4>1. answer # 0
        BY <1>5 DEF Render
      <4>2. answer \in 0..Len(rows)
        BY <1>1 DEF PageTypeOK
      <4> QED BY <1>2, <4>1, <4>2
    <3> QED BY <1>5, <3>1 DEF Render
  <2>2. rows' \in Seq(States) /\ rows' # <<>> /\ Len(rows') \in Nat /\ shown' \in States
    BY <1>2, <2>1, RestOfRows
  <2>3. ChannelTypeOK'
    BY <1>2, <2>1, <2>2, <1>1 DEF ChannelTypeOK, pastVars, Follow, CloseSocket
  <2>4. /\ answer' \in 0..Len(rows') /\ page' \in PageStates /\ wanted' \in BOOLEAN
        /\ done' \in BOOLEAN /\ lastState' \in States \cup {"none"}
    <3>1. done' \in BOOLEAN /\ lastState' \in States \cup {"none"}
      BY <1>1, <2>1 DEF PageTypeOK, Fresh
    <3>2. wanted' \in BOOLEAN
      BY <1>1, <2>1 DEF PageTypeOK
    <3>3. page' \in PageStates /\ answer' \in 0..Len(rows')
      BY <2>1, <2>2 DEF PageStates
    <3> QED BY <3>1, <3>2, <3>3
  <2>5. /\ link' \in LinkStates /\ initial' \in States \cup {"none"}
        /\ link' # "off" => page' = "live" /\ ~done'
        /\ subscribed' <=> link' \in {"subscribed", "fetched", "listen"}
    BY <1>1, <2>1 DEF PageTypeOK, Follow, CloseSocket, Fresh, linkVars, LinkStates
  <2> QED BY <2>2, <2>3, <2>4, <2>5 DEF PageTypeOK
<1>6. CASE Connect
  BY <1>1, <1>2, <1>6 DEF Connect, Subscribe, ChannelTypeOK, pastVars, PageTypeOK,
     pageVars, LinkStates
<1>7. CASE FetchInitial
  BY <1>1, <1>2, <1>7 DEF FetchInitial, ChannelTypeOK, PageTypeOK, pageVars, channelVars, pastVars,
     LinkStates
<1>8. CASE SendInitial
  <2>1. initial \in States \/ initial \notin Final
    BY <1>1 DEF PageTypeOK, Final, States
  <2>2. /\ link = "fetched" /\ lastState' \in States \cup {"none"}
        /\ wanted' \in BOOLEAN /\ done' \in BOOLEAN
        /\ (done' <=> done \/ (initial # lastState /\ initial \in Final))
        /\ UNCHANGED <<page, shown, answer, rows, pastVars>>
        /\ \/ initial \in Final /\ CloseSocket
           \/ /\ initial \notin Final /\ link' = "listen" /\ initial' = "none"
              /\ UNCHANGED <<subscribed, inbox>>
    BY <1>1, <1>8 DEF SendInitial, Receive, HangUp, PageTypeOK, channelVars
  <2>3. ChannelTypeOK'
    BY <1>2, <1>1, <2>2 DEF ChannelTypeOK, pastVars, CloseSocket
  <2>4. /\ link' \in LinkStates /\ initial' \in States \cup {"none"}
        /\ link' # "off" => page' = "live" /\ ~done'
        /\ subscribed' <=> link' \in {"subscribed", "fetched", "listen"}
    <3>1. page = "live" /\ ~done /\ initial \in States \cup {"none"} /\ subscribed
      BY <1>1, <2>2 DEF PageTypeOK
    <3>2. CASE CloseSocket
      BY <3>2 DEF CloseSocket, LinkStates
    <3>3. CASE ~CloseSocket
      BY <2>2, <3>1, <3>3 DEF LinkStates
    <3> QED BY <3>2, <3>3
  <2> QED BY <1>1, <2>2, <2>3, <2>4 DEF PageTypeOK
<1>9. CASE Forward
  <2>1. Head(inbox) \in States /\ Tail(inbox) \in Seq(States)
    BY <1>2, <1>9, HeadTailProperties DEF Forward
  <2>2. /\ link = "listen" /\ lastState' \in States /\ wanted' \in BOOLEAN
        /\ (done' <=> done \/ (Head(inbox) # lastState /\ Head(inbox) \in Final))
        /\ done' \in BOOLEAN /\ UNCHANGED <<page, shown, answer, rows, pastVars>>
        /\ \/ Head(inbox) \in Final /\ CloseSocket
           \/ /\ Head(inbox) \notin Final /\ inbox' = Tail(inbox)
              /\ UNCHANGED <<link, initial, subscribed>>
    BY <1>1, <1>9, <2>1 DEF Forward, Receive, HangUp, PageTypeOK, linkVars
  <2>3. ChannelTypeOK'
    BY <1>2, <1>1, <2>1, <2>2 DEF ChannelTypeOK, pastVars, CloseSocket
  <2>4. /\ link' \in LinkStates /\ initial' \in States \cup {"none"}
        /\ link' # "off" => page' = "live" /\ ~done'
        /\ subscribed' <=> link' \in {"subscribed", "fetched", "listen"}
    <3>1. page = "live" /\ ~done /\ initial \in States \cup {"none"} /\ subscribed
      BY <1>1, <2>2 DEF PageTypeOK
    <3>2. CASE CloseSocket
      BY <3>2 DEF CloseSocket, LinkStates
    <3>3. CASE ~CloseSocket
      BY <2>2, <3>1, <3>3 DEF LinkStates
    <3> QED BY <3>2, <3>3
  <2> QED BY <1>1, <2>1, <2>2, <2>3, <2>4 DEF PageTypeOK
<1>10. CASE ReadFails \/ IdleDrop \/ SessionBreaks
  BY <1>1, <1>2, <1>10 DEF ReadFails, IdleDrop, SessionBreaks, HangUp, CloseSocket, ChannelTypeOK,
     pastVars,
     PageTypeOK, pageVars, LinkStates, PageStates
<1> QED BY <1>4, <1>5, <1>6, <1>7, <1>8, <1>9, <1>10 DEF Viewer, PageStep, SessionStep

(* Rows, messages, scripts and the page have their types, an answer is of  *)
(* a row that was there, and a session is subscribed exactly while it runs *)
(* (StateMachine.update_state, AutoRefresh.tsx, main.py:1266-1345).        *)
THEOREM FeedTypes == Spec => []TypeOK
<1>1. TypeOK /\ [Next]_vars => TypeOK'
  <2> SUFFICES ASSUME TypeOK, [Next]_vars PROVE TypeOK'
    OBVIOUS
  <2>1. CASE UNCHANGED vars
    BY <2>1 DEF vars, TypeOK, InfraTypeOK, infraVars, ChannelTypeOK, channelVars, pastVars,
       WritersTypeOK,
       writerVars, PageTypeOK, pageVars, linkVars
  <2>2. CASE Next
    BY <2>2, ThreadTyped, ServerTyped, ViewerTyped DEF Next
  <2> QED BY <2>1, <2>2
<1> QED BY <1>1, InitTypes, PTL DEF Spec

(***************************************************************************)
(* The page never goes back.                                               *)
(***************************************************************************)
ViewInv == /\ rows \in Seq(States) /\ rows # <<>>
           /\ answer \in 0..Len(rows)
           /\ verdict \in Verdicts

Looks == /\ answer # 0 /\ answer' = 0
         /\ rows' = SubSeq(rows, answer, Len(rows)) /\ shown' = rows[answer]
         /\ verdict' = verdict

Writes == /\ \E s \in States : rows' = Append(rows, s)
          /\ UNCHANGED <<shown, answer>> /\ verdict' \in Verdicts

Rests == /\ UNCHANGED <<rows, shown>>
         /\ answer' \in {answer, Len(rows)} /\ verdict' \in Verdicts

LEMMA ViewInvStep == ASSUME ViewInv, Looks \/ Writes \/ Rests PROVE ViewInv'
<1>1. CASE Looks
  BY <1>1, RestOfRows DEF ViewInv, Looks
<1>2. CASE Writes
  BY <1>2 DEF ViewInv, Writes
<1>3. CASE Rests
  BY <1>3 DEF ViewInv, Rests
<1> QED BY <1>1, <1>2, <1>3

LEMMA ThreadRests == ASSUME ViewInv, NEW t \in Threads, Thread(t) PROVE Writes \/ Rests
<1>1. UNCHANGED <<shown, answer, verdict>> /\ WriterStep(t) /\ verdict' \in Verdicts
  BY DEF Thread, pageVars, feedVars, ViewInv
<1>2. CASE Read(t) \/ Raise(t) \/ PublishState(t)
  BY <1>1, <1>2 DEF Read, Raise, PublishState, TryPublish, Publish, Rests, channelVars
<1>3. ASSUME NEW s \in States, Update(t, s) \/ UpdateUnanswered(t, s) PROVE Writes \/ Rests
  BY <1>1, <1>3 DEF Update, UpdateUnanswered, Write, LoseWrite, Writes, Rests
<1> QED BY <1>1, <1>2, <1>3 DEF WriterStep

LEMMA PendingRests == ASSUME ViewInv, NEW t \in Threads, PodPending(t) PROVE Rests
  BY DEF PodPending, Publish, pageVars, Rests, ViewInv

LEMMA ControllerWritesOrRests ==
    ASSUME ViewInv, ControllerDecides \/ ControllerWrites \/ ControllerPublishes \/ ApiMarksFailed
    PROVE  Writes \/ Rests
<1>1. CASE ControllerDecides
  BY <1>1 DEF ControllerDecides, Verdicts, Final, channelVars, pageVars, Rests, ViewInv
<1>2. CASE ControllerWrites
  BY <1>2 DEF ControllerWrites, Write, pageVars, Writes, ViewInv, Verdicts, Final, States
<1>3. CASE ControllerPublishes
  BY <1>3 DEF ControllerPublishes, TryPublish, Publish, channelVars, pageVars, Rests, ViewInv,
              Verdicts
<1>4. CASE ApiMarksFailed
  BY <1>4 DEF ApiMarksFailed, Write, pageVars, Writes, ViewInv, States
<1> QED BY <1>1, <1>2, <1>3, <1>4

LEMMA ViewerLooksOrRests == ASSUME ViewInv, Viewer PROVE Looks \/ Rests
<1>1. verdict' = verdict /\ verdict' \in Verdicts
  BY DEF Viewer, feedVars, ViewInv
<1>2. CASE OpenPage \/ ReadRow \/ ReadFails
  BY <1>1, <1>2 DEF OpenPage, ReadRow, ReadFails, StayLinked, HangUp, channelVars, Rests
<1>3. CASE Render
  BY <1>1, <1>3 DEF Render, Looks
<1>4. CASE Connect \/ FetchInitial
  BY <1>1, <1>4 DEF Connect, FetchInitial, Subscribe, pageVars, channelVars, Rests
<1>5. CASE SendInitial \/ Forward
  BY <1>1, <1>5 DEF SendInitial, Forward, Receive, HangUp, channelVars, Rests
<1>6. CASE IdleDrop \/ SessionBreaks
  BY <1>1, <1>6 DEF IdleDrop, SessionBreaks, HangUp, pageVars, Rests
<1> QED BY <1>2, <1>3, <1>4, <1>5, <1>6 DEF Viewer, PageStep, SessionStep

LEMMA NextLooksOrWrites == ASSUME ViewInv, [Next]_vars PROVE Looks \/ Writes \/ Rests
<1>1. CASE UNCHANGED vars
  BY <1>1 DEF vars, channelVars, pageVars, Rests, ViewInv
<1>2. CASE Next
  BY <1>2, ThreadRests, PendingRests, ControllerWritesOrRests, ViewerLooksOrRests DEF Next
<1> QED BY <1>1, <1>2

(* The page implements the lagging view (StatusPage.Render): whoever       *)
(* writes and publishes in whatever order, it shows a value of the row no  *)
(* older than the one it showed before (page.tsx:68-98, AutoRefresh.tsx).  *)
THEOREM PageNeverGoesBack == Spec => NeverGoesBack
<1>1. Init => View!Init /\ ViewInv
  <2> SUFFICES ASSUME Init PROVE View!Init /\ ViewInv
    OBVIOUS
  <2>1. rows = <<"Queued">> /\ shown = "none" /\ answer = 0 /\ verdict = <<"none", "none">>
    BY DEF Init, ChannelInit, PageInit
  <2>2. "Queued" \in States /\ "none" \notin States
    BY DEF States
  <2>3. View!Init
    BY <2>1, <2>2 DEF View!Init
  <2>4. rows \in Seq(States) /\ rows # <<>> /\ answer \in 0..Len(rows)
    BY <2>1, <2>2
  <2> QED BY <2>1, <2>3, <2>4 DEF ViewInv, Verdicts
<1>2. ViewInv /\ [Next]_vars => ViewInv'
  BY NextLooksOrWrites, ViewInvStep
<1>3. ViewInv /\ [Next]_vars => [View!Write \/ View!Look]_<<rows, shown>>
  BY NextLooksOrWrites DEF ViewInv, Looks, Writes, Rests, View!Write, View!Look
<1> QED BY <1>1, <1>2, <1>3, PTL DEF Spec, NeverGoesBack, View!Spec

(***************************************************************************)
(* The page misses nothing.                                                *)
(***************************************************************************)
(* What has been seen of the row is a state it has had.                    *)
SeenInv == /\ had \subseteq States /\ "Queued" \in had
           /\ \A i \in 1..Len(rows) : rows[i] \in had
           /\ \A i \in 1..Len(inbox) : inbox[i] \in had
           /\ lastState \in had \cup {"none"} /\ initial \in had \cup {"none"}
           /\ \A t \in publishing : Head(todo[t]) \in had
           /\ verdict[1] = "written" => verdict[2] \in had

(* The row passes through a passing state once.                            *)
PassingInv == \A i, j \in 1..Len(rows) : rows[i] = rows[j] /\ rows[i] \in Passing => i = j

(* A page that is live shows the first of rows, which is no final state.   *)
ShownInv == page = "live" => shown = rows[1] /\ shown \in Passing

(* The page shows the row, or has a reason to read it, or is reading it.   *)
Caught == shown = Row \/ wanted \/ answer = Len(rows)

(* Who wrote the row has still to say so.                                  *)
Unsaid == \/ \E t \in publishing : Head(todo[t]) = Row
          \/ verdict = <<"written", Row>>

(* The row is on its way to the session.                                   *)
OnTheWay == Unsaid \/ \E i \in 1..Len(inbox) : inbox[i] = Row

NoticedInv ==
    /\ page = "live" /\ Row \in Passing /\ lastState = Row => Caught
    /\ link = "listen" => Caught \/ OnTheWay
    /\ link = "fetched" => initial = Row \/ OnTheWay

QuietInv == SeenInv /\ PassingInv /\ ShownInv /\ NoticedInv

(* No call has raised, the request has enqueued the deployment, and the    *)
(* row has not come back to a passing state.                               *)
Quiet == faults = 0 /\ enqueue = "ok" /\ ~repeated

FeedInv == Quiet => QuietInv

LEMMA RowFacts ==
    ASSUME TypeOK
    PROVE  /\ rows \in Seq(States) /\ Len(rows) \in Nat \ {0} /\ Len(rows) \in 1..Len(rows)
           /\ Row \in States /\ Row = rows[Len(rows)]
           /\ inbox \in Seq(States) /\ Len(inbox) \in Nat
<1>1. rows \in Seq(States) /\ rows # <<>> /\ inbox \in Seq(States)
  BY DEF TypeOK, ChannelTypeOK
<1>2. Len(rows) \in Nat \ {0} /\ Len(inbox) \in Nat
  BY <1>1
<1> QED BY <1>1, <1>2 DEF Row

LEMMA TodoFacts ==
    ASSUME TypeOK, NEW t \in Threads
    PROVE  /\ todo[t] \in Seq(States \cup {"read"}) /\ Len(todo[t]) \in Nat
           /\ todo[t] # <<>> => /\ 1 \in 1..Len(todo[t]) /\ Head(todo[t]) = todo[t][1]
                                /\ Len(Tail(todo[t])) = Len(todo[t]) - 1
                                /\ \A i \in 1..Len(Tail(todo[t])) :
                                       /\ Tail(todo[t])[i] = todo[t][i + 1]
                                       /\ i + 1 \in 1..Len(todo[t])
           /\ t \in publishing => todo[t] # <<>> /\ Head(todo[t]) \in States
<1>1. todo[t] \in Seq(States \cup {"read"}) /\ Len(todo[t]) \in Nat
  BY LenProperties DEF TypeOK, WritersTypeOK
<1>2. ASSUME todo[t] # <<>>
      PROVE  /\ 1 \in 1..Len(todo[t]) /\ Head(todo[t]) = todo[t][1]
             /\ Len(Tail(todo[t])) = Len(todo[t]) - 1
             /\ \A i \in 1..Len(Tail(todo[t])) : Tail(todo[t])[i] = todo[t][i + 1]
             /\ Head(todo[t]) \in States \cup {"read"}
  <2>1. Len(todo[t]) \in Nat \ {0}
    BY <1>1, <1>2, EmptySeq
  <2> QED BY <1>1, <1>2, <2>1, HeadTailProperties
<1>3. t \in publishing => todo[t] # <<>> /\ Head(todo[t]) # "read"
  BY DEF TypeOK, WritersTypeOK
<1> QED BY <1>1, <1>2, <1>3

(* A state is written that, if it passes, is new to the row; its writer    *)
(* has still to say so.                                                    *)
LEMMA WriteQuiet ==
    ASSUME TypeOK, QuietInv, NEW s \in States, Write(s), ~repeated',
           UNCHANGED <<pageVars, linkVars>>,
           \A t \in publishing' : Head(todo'[t]) \in had \cup {s},
           verdict'[1] = "written" => verdict'[2] \in had \cup {s},
           Unsaid'
    PROVE  QuietInv'
<1>1. /\ rows \in Seq(States) /\ Len(rows) \in Nat \ {0} /\ Len(rows') = Len(rows) + 1
      /\ \A i \in 1..Len(rows) : rows'[i] = rows[i]
      /\ rows'[Len(rows) + 1] = s /\ inbox' = inbox /\ had' = had \cup {s}
  <2>1. rows' = Append(rows, s) /\ inbox' = inbox /\ had' = had \cup {s}
    BY DEF Write
  <2> QED BY <2>1, RowFacts, AppendProperties
<1>2. \A i \in 1..Len(rows') : IF i \in 1..Len(rows) THEN rows'[i] = rows[i]
                                                    ELSE i = Len(rows) + 1 /\ rows'[i] = s
  BY <1>1
<1>3. UNCHANGED <<page, shown, lastState, link, initial>>
  BY DEF pageVars, linkVars
<1>4. SeenInv'
  BY <1>1, <1>2, <1>3 DEF QuietInv, SeenInv
<1>5. s \in Passing => (\A i \in 1..Len(rows) : rows[i] # s) /\ lastState # s
  <2>1. s \in Passing => s \notin had
    BY DEF Write
  <2>2. s # "none"
    BY DEF States
  <2> QED BY <2>1, <2>2 DEF QuietInv, SeenInv
<1>6. PassingInv'
  <2>1. ASSUME NEW i \in 1..Len(rows'), NEW j \in 1..Len(rows'), rows'[i] = rows'[j],
               rows'[i] \in Passing
        PROVE  i = j
    <3>1. CASE i \in 1..Len(rows) /\ j \in 1..Len(rows)
      BY <1>1, <2>1, <3>1 DEF QuietInv, PassingInv
    <3>2. CASE ~(i \in 1..Len(rows) /\ j \in 1..Len(rows))
      BY <1>2, <1>5, <2>1, <3>2
    <3> QED BY <3>1, <3>2
  <2> QED BY <2>1 DEF PassingInv
<1>7. ShownInv'
  BY <1>1, <1>3 DEF QuietInv, ShownInv
<1>8. Row' = s
  BY <1>1 DEF Row
<1>9. NoticedInv'
  <2>1. ~(Row' \in Passing /\ lastState' = Row')
    BY <1>3, <1>5, <1>8
  <2>2. OnTheWay'
    BY DEF OnTheWay
  <2> QED BY <2>1, <2>2 DEF NoticedInv
<1> QED BY <1>4, <1>6, <1>7, <1>9 DEF QuietInv

(* Rows and page stay, and a message is perhaps added: what is no longer   *)
(* unsaid has just been said.                                              *)
LEMMA SayQuiet ==
    ASSUME TypeOK, QuietInv, UNCHANGED <<pageVars, linkVars, rows, had>>,
           NEW m \in had,
           inbox' = inbox \/ (subscribed /\ inbox' = Append(inbox, m)),
           \A t \in publishing' : t \in publishing /\ todo'[t] = todo[t],
           verdict'[1] = "written" => verdict' = verdict,
           Unsaid => Unsaid' \/ (m = Row /\ (subscribed => inbox' = Append(inbox, m)))
    PROVE  QuietInv'
<1>1. UNCHANGED <<page, shown, answer, wanted, lastState, link, initial, rows>> /\ Row' = Row
  BY DEF pageVars, linkVars, Row
<1>2. inbox \in Seq(States) /\ Len(inbox) \in Nat
  BY RowFacts
<1>3. /\ \A i \in 1..Len(inbox) : i \in 1..Len(inbox') /\ inbox'[i] = inbox[i]
      /\ \A i \in 1..Len(inbox') : \/ i \in 1..Len(inbox) /\ inbox'[i] = inbox[i]
                                   \/ inbox'[i] = m
      /\ inbox' = Append(inbox, m) => \E i \in 1..Len(inbox') : inbox'[i] = m
  <2>1. CASE inbox' = Append(inbox, m)
    <3>1. /\ Len(inbox') = Len(inbox) + 1 /\ inbox'[Len(inbox) + 1] = m
          /\ \A i \in 1..Len(inbox) : inbox'[i] = inbox[i]
      BY <1>2, <2>1, AppendProperties
    <3>2. inbox' # inbox
      BY <1>2, <3>1
    <3>3. Len(inbox) + 1 \in 1..Len(inbox')
      BY <1>2, <3>1
    <3> QED BY <1>2, <3>1, <3>2, <3>3
  <2>2. CASE inbox' = inbox
    <3>1. Append(inbox, m) # inbox
      <4>1. Len(Append(inbox, m)) = Len(inbox) + 1
        BY <1>2, AppendProperties
      <4> QED BY <1>2, <4>1
    <3> QED BY <2>2, <3>1
  <2> QED BY <2>1, <2>2
<1>4. SeenInv'
  BY <1>1, <1>3 DEF QuietInv, SeenInv
<1>5. PassingInv' /\ ShownInv'
  BY <1>1 DEF QuietInv, PassingInv, ShownInv
<1>6. Caught => Caught'
  BY <1>1 DEF Caught
<1>7. link \in {"listen", "fetched"} /\ OnTheWay => OnTheWay'
  <2>1. link \in {"listen", "fetched"} => subscribed
    BY DEF TypeOK, PageTypeOK
  <2>2. CASE Unsaid
    BY <1>1, <1>3, <2>1, <2>2 DEF OnTheWay
  <2>3. CASE \E i \in 1..Len(inbox) : inbox[i] = Row
    BY <1>1, <1>3, <2>3 DEF OnTheWay
  <2> QED BY <2>2, <2>3 DEF OnTheWay
<1>8. NoticedInv'
  <2>1. page' = "live" /\ Row' \in Passing /\ lastState' = Row' => Caught'
    BY <1>1, <1>6 DEF QuietInv, NoticedInv
  <2>2. link' = "listen" => Caught' \/ OnTheWay'
    BY <1>1, <1>6, <1>7 DEF QuietInv, NoticedInv
  <2>3. link' = "fetched" => initial' = Row' \/ OnTheWay'
    BY <1>1, <1>7 DEF QuietInv, NoticedInv
  <2> QED BY <2>1, <2>2, <2>3 DEF NoticedInv
<1> QED BY <1>4, <1>5, <1>8 DEF QuietInv

LEMMA UpdateQuiet ==
    ASSUME TypeOK, QuietInv, NEW t \in Threads, NEW s \in States, Update(t, s),
           faults = 0, ~repeated', UNCHANGED <<pageVars, linkVars, verdict>>
    PROVE  QuietInv'
<1>1. /\ Write(s) /\ todo' = todo /\ publishing' = publishing \cup {t}
      /\ t \notin publishing /\ todo[t] # <<>> /\ Head(todo[t]) = s
  BY DEF Update, Calls
<1>2. Unsaid'
  <2>1. Row' = s
    <3>1. rows' = Append(rows, s)
      BY <1>1 DEF Write
    <3> QED BY <3>1, RowFacts DEF Row
  <2> QED BY <1>1, <2>1 DEF Unsaid
<1>3. /\ \A u \in publishing' : Head(todo'[u]) \in had \cup {s}
      /\ verdict'[1] = "written" => verdict'[2] \in had \cup {s}
  BY <1>1 DEF QuietInv, SeenInv
<1> QED BY <1>1, <1>2, <1>3, WriteQuiet

LEMMA ControllerWritesQuiet ==
    ASSUME TypeOK, QuietInv, ControllerWrites, ~repeated'
    PROVE  QuietInv'
<1>1. /\ Write(verdict[2]) /\ verdict' = <<"written", verdict[2]>>
      /\ UNCHANGED <<writerVars, pageVars, linkVars>>
  BY DEF ControllerWrites
<1>2. verdict[2] \in Final /\ verdict[2] \in States
  BY DEF ControllerWrites, TypeOK, Verdicts, Final, States
<1>3. Unsaid'
  <2>1. Row' = verdict[2]
    <3>1. rows' = Append(rows, verdict[2])
      BY <1>1 DEF Write
    <3> QED BY <1>2, <3>1, RowFacts DEF Row
  <2> QED BY <1>1, <2>1 DEF Unsaid
<1>4. /\ \A u \in publishing' : Head(todo'[u]) \in had \cup {verdict[2]}
      /\ verdict'[2] \in had \cup {verdict[2]}
  BY <1>1 DEF QuietInv, SeenInv, writerVars
<1> QED BY <1>1, <1>2, <1>3, <1>4, WriteQuiet

(* A thread finishes the call at its head: who else publishes goes on.     *)
LEMMA FinishKeeps ==
    ASSUME TypeOK, NEW t \in Threads, Finish(t), publishing' = publishing \ {t}
    PROVE  \A u \in publishing' : u \in publishing /\ u # t /\ todo'[u] = todo[u]
  BY DEF Finish, TypeOK, WritersTypeOK

LEMMA PublishQuiet ==
    ASSUME TypeOK, QuietInv, NEW t \in Threads, PublishState(t), NoFault,
           UNCHANGED <<pageVars, linkVars, verdict>>
    PROVE  QuietInv'
<1>0. PICK m \in had : m = Head(todo[t])
  BY DEF PublishState, QuietInv, SeenInv
<1>1. t \in publishing /\ Finish(t) /\ publishing' = publishing \ {t} /\ TryPublish(m)
  BY <1>0 DEF PublishState
<1>2. Publish(m)
  BY <1>1 DEF TryPublish, NoFault, Fault, infraVars, TypeOK, InfraTypeOK
<1>3. \A u \in publishing' : u \in publishing /\ u # t /\ todo'[u] = todo[u]
  BY <1>1, FinishKeeps
<1>4. inbox' = inbox \/ (subscribed /\ inbox' = Append(inbox, m))
  BY <1>2 DEF Publish
<1>5. UNCHANGED <<rows, had>> /\ Row' = Row
  BY <1>2 DEF Publish, pastVars, Row
<1>6. Unsaid => Unsaid' \/ (m = Row /\ (subscribed => inbox' = Append(inbox, m)))
  <2>1. CASE verdict = <<"written", Row>>
    BY <1>5, <2>1 DEF Unsaid
  <2>2. ASSUME NEW u \in publishing, Head(todo[u]) = Row, u # t PROVE Unsaid'
    BY <1>1, <1>3, <1>5, <2>2 DEF Unsaid
  <2>3. CASE m = Row
    BY <1>2, <2>3 DEF Publish
  <2> QED BY <1>0, <2>1, <2>2, <2>3 DEF Unsaid
<1> QED BY <1>3, <1>4, <1>5, <1>6, SayQuiet

LEMMA ControllerPublishesQuiet ==
    ASSUME TypeOK, QuietInv, ControllerPublishes, NoFault
    PROVE  QuietInv'
<1>0. PICK m \in had : m = verdict[2]
  BY DEF ControllerPublishes, QuietInv, SeenInv
<1>1. /\ verdict[1] = "written" /\ TryPublish(m) /\ verdict' = <<"none", "none">>
      /\ UNCHANGED <<writerVars, pageVars, linkVars>>
  BY <1>0 DEF ControllerPublishes
<1>2. Publish(m)
  BY <1>1 DEF TryPublish, NoFault, Fault, infraVars, TypeOK, InfraTypeOK
<1>3. verdict = <<"written", m>>
  BY <1>0, <1>1 DEF TypeOK, Verdicts
<1>4. UNCHANGED <<rows, had>> /\ Row' = Row
      /\ inbox' = IF subscribed THEN Append(inbox, m) ELSE inbox
  BY <1>2 DEF Publish, pastVars, Row
<1>5. Unsaid => Unsaid' \/ (m = Row /\ (subscribed => inbox' = Append(inbox, m)))
  BY <1>1, <1>3, <1>4 DEF Unsaid, writerVars
<1>6. \A t \in publishing' : t \in publishing /\ todo'[t] = todo[t]
  BY <1>1 DEF writerVars
<1> QED BY <1>1, <1>4, <1>5, <1>6, SayQuiet

LEMMA PendingQuiet ==
    ASSUME TypeOK, QuietInv, NEW t \in Threads, PodPending(t)
    PROVE  QuietInv'
<1>1. Publish("Queued") /\ UNCHANGED <<writerVars, pageVars, linkVars, verdict>>
  BY DEF PodPending
<1>2. "Queued" \in had
  BY DEF QuietInv, SeenInv
<1>3. UNCHANGED <<rows, had>> /\ Row' = Row
      /\ inbox' = IF subscribed THEN Append(inbox, "Queued") ELSE inbox
  BY <1>1 DEF Publish, pastVars, Row
<1>4. Unsaid => Unsaid'
  BY <1>1, <1>3 DEF Unsaid, writerVars
<1>5. \A u \in publishing' : u \in publishing /\ todo'[u] = todo[u]
  BY <1>1 DEF writerVars
<1> QED BY <1>1, <1>2, <1>3, <1>4, <1>5, SayQuiet

LEMMA ReadQuiet ==
    ASSUME TypeOK, QuietInv, NEW t \in Threads, Read(t), UNCHANGED <<pageVars, linkVars, verdict>>
    PROVE  QuietInv'
<1>1. /\ t \notin publishing /\ Finish(t) /\ publishing' = publishing
      /\ UNCHANGED <<rows, inbox, had>>
  BY DEF Read, Calls, channelVars, pastVars
<1>2. \A u \in publishing' : u \in publishing /\ todo'[u] = todo[u]
  BY <1>1, FinishKeeps
<1>3. Row' = Row /\ "Queued" \in had
  BY <1>1 DEF Row, QuietInv, SeenInv
<1>4. Unsaid => Unsaid'
  BY <1>1, <1>2, <1>3 DEF Unsaid
<1> QED BY <1>1, <1>2, <1>3, <1>4, SayQuiet

LEMMA DecidesQuiet ==
    ASSUME TypeOK, QuietInv, ControllerDecides
    PROVE  QuietInv'
<1>1. verdict = <<"none", "none">> /\ UNCHANGED <<channelVars, writerVars, pageVars, linkVars>>
  BY DEF ControllerDecides
<1>2. UNCHANGED <<rows, inbox, had>> /\ Row' = Row /\ "Queued" \in had
  BY <1>1 DEF channelVars, pastVars, Row, QuietInv, SeenInv
<1>3. verdict'[1] # "written"
  BY DEF ControllerDecides
<1>4. Unsaid => Unsaid'
  BY <1>1, <1>2 DEF Unsaid, writerVars
<1>5. \A u \in publishing' : u \in publishing /\ todo'[u] = todo[u]
  BY <1>1 DEF writerVars
<1> QED BY <1>1, <1>2, <1>3, <1>4, <1>5, SayQuiet

LEMMA RenderQuiet ==
    ASSUME TypeOK, QuietInv, Render, UNCHANGED <<writerVars, feedVars>>
    PROVE  QuietInv'
<1> DEFINE n == Len(rows)
<1>1. PICK a \in 1..n : a = answer
  <2>1. answer # 0
    BY DEF Render
  <2>2. answer \in 0..n
    BY DEF TypeOK, PageTypeOK
  <2>3. n \in Nat
    BY RowFacts
  <2> QED BY <2>1, <2>2, <2>3
<1>2. /\ rows' = SubSeq(rows, a, n) /\ shown' = rows[a] /\ wanted' = wanted
      /\ \/ rows[a] \notin Final /\ page' = "live" /\ Follow
         \/ page' = "still" /\ CloseSocket
      /\ Fresh
  BY <1>1 DEF Render
<1>3. /\ rows \in Seq(States) /\ n \in Nat \ {0} /\ Row \in States /\ Row = rows[n]
      /\ "none" \notin States /\ rows[a] \in States
  BY RowFacts, <1>1 DEF States
<1>4. /\ Len(rows') = n - a + 1 /\ Len(rows') \in Nat
      /\ \A j \in 1..Len(rows') : rows'[j] = rows[j + a - 1] /\ j + a - 1 \in 1..n
      /\ rows'[Len(rows')] = rows[n]
  BY <1>1, <1>2, <1>3, RestOfRows
<1>5. Row' = Row /\ rows'[1] = rows[a]
  BY <1>3, <1>4 DEF Row
<1>6. UNCHANGED <<had, publishing, todo, verdict>>
  BY DEF Render, pastVars, writerVars, feedVars
<1>7. /\ lastState' \in {lastState, "none"} /\ initial' \in {initial, "none"}
      /\ inbox' \in {inbox, <<>>}
  <2>1. lastState' \in {lastState, "none"}
    BY <1>2 DEF Fresh
  <2>2. initial' \in {initial, "none"} /\ inbox' \in {inbox, <<>>}
    BY <1>2 DEF Follow, CloseSocket, linkVars
  <2> QED BY <2>1, <2>2
<1>8. SeenInv'
  <2>1. \A i \in 1..Len(inbox') : inbox'[i] \in had
    BY <1>7, EmptySeq DEF QuietInv, SeenInv
  <2> QED BY <1>3, <1>4, <1>6, <1>7, <2>1 DEF QuietInv, SeenInv
<1>9. PassingInv'
  <2>1. ASSUME NEW i \in 1..Len(rows'), NEW j \in 1..Len(rows'), rows'[i] = rows'[j],
               rows'[i] \in Passing
        PROVE  i = j
    <3>1. i + a - 1 = j + a - 1
      BY <1>4, <2>1 DEF QuietInv, PassingInv
    <3> QED BY <1>3, <1>4, <3>1
  <2> QED BY <2>1 DEF PassingInv
<1>10. ShownInv'
  BY <1>2, <1>3, <1>5 DEF ShownInv, Passing
<1>11. page = "live" /\ Caught => Caught'
  <2>1. CASE page = "live" /\ shown = Row
    <3>1. rows[1] = rows[n] /\ rows[1] \in Passing /\ 1 \in 1..n /\ n \in 1..n
      BY <1>3, <2>1 DEF QuietInv, ShownInv
    <3>2. n = 1
      BY <3>1 DEF QuietInv, PassingInv
    <3> QED BY <1>2, <1>3, <1>5, <3>2 DEF Caught
  <2>2. CASE wanted
    BY <1>2, <2>2 DEF Caught
  <2>3. CASE answer = Len(rows)
    BY <1>1, <1>2, <1>3, <1>5, <2>3 DEF Caught
  <2> QED BY <2>1, <2>2, <2>3 DEF Caught
<1>12. Unsaid => Unsaid'
  BY <1>5 DEF Unsaid, writerVars, feedVars
<1>13. link' # "off" => /\ page = "live" /\ UNCHANGED <<link, initial, inbox>>
  BY <1>2 DEF CloseSocket, Follow, linkVars, TypeOK, PageTypeOK
<1>14. NoticedInv'
  <2>1. ASSUME page' = "live", Row' \in Passing, lastState' = Row' PROVE Caught'
    <3>1. lastState' # "none"
      BY <1>3, <1>5, <2>1
    <3>2. page = "live" /\ lastState = Row /\ Row \in Passing
      BY <1>2, <1>5, <2>1, <3>1 DEF Fresh
    <3> QED BY <1>11, <3>2 DEF QuietInv, NoticedInv
  <2>2. ASSUME link' = "listen" PROVE Caught' \/ OnTheWay'
    <3>1. page = "live" /\ link = "listen" /\ inbox' = inbox
      BY <1>13, <2>2
    <3>2. CASE Caught
      BY <1>11, <3>1, <3>2
    <3>3. CASE OnTheWay
      BY <1>5, <1>12, <3>1, <3>3 DEF OnTheWay
    <3> QED BY <3>1, <3>2, <3>3 DEF QuietInv, NoticedInv
  <2>3. ASSUME link' = "fetched" PROVE initial' = Row' \/ OnTheWay'
    <3>1. link = "fetched" /\ inbox' = inbox /\ initial' = initial
      BY <1>13, <2>3
    <3>2. CASE initial = Row
      BY <1>5, <3>1, <3>2
    <3>3. CASE OnTheWay
      BY <1>5, <1>12, <3>1, <3>3 DEF OnTheWay
    <3> QED BY <3>1, <3>2, <3>3 DEF QuietInv, NoticedInv
  <2> QED BY <2>1, <2>2, <2>3 DEF NoticedInv
<1> QED BY <1>8, <1>9, <1>10, <1>14 DEF QuietInv

(* Whatever a message says, the page notices if it says what the row is.   *)
LEMMA ReceiveNotices ==
    ASSUME TypeOK, QuietInv, NEW m, Receive(m), rows' = rows
    PROVE  /\ page' = page /\ shown' = shown /\ lastState' = m /\ Row' = Row
           /\ Caught => Caught'
           /\ page = "live" /\ Row \in Passing /\ m = Row => Caught'
<1>1. /\ UNCHANGED <<page, shown, answer>> /\ lastState' = m /\ Row' = Row
      /\ wanted' = (wanted \/ m # lastState)
  BY DEF Receive, Row
<1>2. Caught => Caught'
  BY <1>1 DEF Caught
<1>3. ASSUME page = "live", Row \in Passing, m = Row PROVE Caught'
  <2>1. CASE m = lastState
    BY <1>2, <1>3, <2>1 DEF QuietInv, NoticedInv
  <2>2. CASE m # lastState
    BY <1>1, <2>2 DEF Caught
  <2> QED BY <2>1, <2>2
<1> QED BY <1>1, <1>2, <1>3

LEMMA SendInitialQuiet ==
    ASSUME TypeOK, QuietInv, SendInitial, UNCHANGED <<writerVars, feedVars>>
    PROVE  QuietInv'
<1>1. PICK m : m = initial
  OBVIOUS
<1>2. /\ link = "fetched" /\ Receive(m) /\ rows' = rows
      /\ \/ m \in Final /\ CloseSocket
         \/ m \notin Final /\ link' = "listen" /\ initial' = "none" /\ inbox' = inbox
  BY <1>1 DEF SendInitial, HangUp, channelVars
<1>3. page = "live"
  BY <1>2 DEF TypeOK, PageTypeOK
<1>4. /\ page' = page /\ shown' = shown /\ lastState' = m /\ Row' = Row
      /\ Caught => Caught'
      /\ Row \in Passing /\ m = Row => Caught'
  BY <1>2, <1>3, ReceiveNotices
<1>5. UNCHANGED <<had, publishing, todo, verdict>>
  BY DEF SendInitial, Forward, HangUp, channelVars, pastVars, writerVars, feedVars
<1>6. Row \in States /\ "none" \notin States /\ Len(<<>>) = 0
  BY RowFacts, EmptySeq DEF States
<1>7. initial' = "none" /\ (inbox' = inbox \/ inbox' = <<>>)
  BY <1>2 DEF CloseSocket
<1>8. SeenInv'
  BY <1>1, <1>2, <1>4, <1>5, <1>6, <1>7 DEF QuietInv, SeenInv
<1>9. PassingInv' /\ ShownInv'
  BY <1>2, <1>4 DEF QuietInv, PassingInv, ShownInv
<1>10. Unsaid => Unsaid'
  BY <1>4 DEF Unsaid, writerVars, feedVars
<1>11. NoticedInv'
  <2>1. page' = "live" /\ Row' \in Passing /\ lastState' = Row' => Caught'
    BY <1>4
  <2>2. ASSUME link' = "listen" PROVE Caught' \/ OnTheWay'
    <3>1. m \notin Final /\ inbox' = inbox
      BY <1>2, <2>2 DEF CloseSocket
    <3>2. CASE m = Row
      BY <1>4, <1>6, <3>1, <3>2 DEF Passing
    <3>3. CASE OnTheWay
      BY <1>4, <1>10, <3>1, <3>3 DEF OnTheWay
    <3> QED BY <1>1, <1>2, <3>2, <3>3 DEF QuietInv, NoticedInv
  <2>3. link' # "fetched"
    BY <1>2 DEF CloseSocket
  <2> QED BY <2>1, <2>2, <2>3 DEF NoticedInv
<1> QED BY <1>8, <1>9, <1>11 DEF QuietInv

LEMMA ForwardQuiet ==
    ASSUME TypeOK, QuietInv, Forward, UNCHANGED <<writerVars, feedVars>>
    PROVE  QuietInv'
<1>1. PICK m : m = Head(inbox)
  OBVIOUS
<1>2. /\ link = "listen" /\ Receive(m) /\ rows' = rows /\ inbox # <<>>
      /\ \/ m \in Final /\ CloseSocket
         \/ m \notin Final /\ UNCHANGED <<link, initial>> /\ inbox' = Tail(inbox)
  BY <1>1 DEF Forward, HangUp, linkVars
<1>3. page = "live"
  BY <1>2 DEF TypeOK, PageTypeOK
<1>4. /\ page' = page /\ shown' = shown /\ lastState' = m /\ Row' = Row
      /\ Caught => Caught'
      /\ Row \in Passing /\ m = Row => Caught'
  BY <1>2, <1>3, ReceiveNotices
<1>5. UNCHANGED <<had, publishing, todo, verdict>>
  BY DEF SendInitial, Forward, HangUp, channelVars, pastVars, writerVars, feedVars
<1>6. Row \in States /\ "none" \notin States /\ Len(<<>>) = 0
  BY RowFacts, EmptySeq DEF States
<1>7. /\ Len(inbox) \in Nat \ {0} /\ m = inbox[1] /\ 1 \in 1..Len(inbox)
      /\ Len(Tail(inbox)) = Len(inbox) - 1
      /\ \A i \in 1..Len(Tail(inbox)) : Tail(inbox)[i] = inbox[i + 1] /\ i + 1 \in 1..Len(inbox)
  <2>1. inbox \in Seq(States) /\ Len(inbox) \in Nat
    BY RowFacts
  <2>2. Len(inbox) \in Nat \ {0}
    BY <1>2, <2>1, EmptySeq
  <2> QED BY <1>1, <1>2, <2>1, <2>2, HeadTailProperties
<1>8. SeenInv'
  <2>1. initial' \in had \cup {"none"} /\ \A i \in 1..Len(inbox') : inbox'[i] \in had
    <3>1. CASE CloseSocket
      BY <1>6, <3>1 DEF CloseSocket
    <3>2. CASE ~CloseSocket
      BY <1>2, <1>7, <3>2 DEF QuietInv, SeenInv
    <3> QED BY <3>1, <3>2
  <2>2. m \in had
    BY <1>7 DEF QuietInv, SeenInv
  <2> QED BY <1>2, <1>4, <1>5, <2>1, <2>2 DEF QuietInv, SeenInv
<1>9. PassingInv' /\ ShownInv'
  BY <1>2, <1>4 DEF QuietInv, PassingInv, ShownInv
<1>10. Unsaid => Unsaid'
  BY <1>4 DEF Unsaid, writerVars, feedVars
<1>11. NoticedInv'
  <2>1. page' = "live" /\ Row' \in Passing /\ lastState' = Row' => Caught'
    BY <1>4
  <2>2. ASSUME link' = "listen" PROVE Caught' \/ OnTheWay'
    <3>1. m \notin Final /\ inbox' = Tail(inbox)
      BY <1>2, <2>2 DEF CloseSocket
    <3>2. CASE Caught
      BY <1>4, <3>2
    <3>3. CASE Unsaid
      BY <1>10, <3>3 DEF OnTheWay
    <3>4. ASSUME NEW i \in 1..Len(inbox), inbox[i] = Row PROVE Caught' \/ OnTheWay'
      <4>1. CASE i = 1
        BY <1>4, <1>6, <1>7, <3>1, <3>4, <4>1 DEF Passing
      <4>2. CASE i # 1
        <5>1. i - 1 \in 1..Len(inbox') /\ inbox'[i - 1] = Row
          <6>1. i - 1 \in 1..Len(Tail(inbox)) /\ (i - 1) + 1 = i
            BY <1>7, <4>2
          <6>2. Tail(inbox)[i - 1] = inbox[(i - 1) + 1]
            BY <1>7, <6>1
          <6> QED BY <3>1, <3>4, <6>1, <6>2
        <5> QED BY <1>4, <5>1 DEF OnTheWay
      <4> QED BY <4>1, <4>2
    <3> QED BY <1>2, <3>2, <3>3, <3>4 DEF QuietInv, NoticedInv, OnTheWay
  <2>3. link' # "fetched"
    BY <1>2 DEF CloseSocket
  <2> QED BY <2>1, <2>2, <2>3 DEF NoticedInv
<1> QED BY <1>8, <1>9, <1>11 DEF QuietInv

(* The other steps of page and session.                                    *)
LEMMA VisitQuiet ==
    ASSUME TypeOK, QuietInv, OpenPage \/ ReadRow \/ Connect \/ FetchInitial \/ IdleDrop,
           UNCHANGED <<writerVars, feedVars>>
    PROVE  QuietInv'
<1>1. rows' = rows /\ Row' = Row /\ shown' = shown /\ lastState' = lastState
  BY DEF OpenPage, ReadRow, Connect, Subscribe, FetchInitial, IdleDrop, HangUp, StayLinked,
     channelVars, pageVars, Row
<1>2. UNCHANGED <<had, publishing, todo, verdict>>
  BY DEF OpenPage, ReadRow, Connect, Subscribe, FetchInitial, IdleDrop, HangUp, StayLinked,
     channelVars, pastVars, writerVars, feedVars
<1>3. Row \in States /\ Row = rows[Len(rows)] /\ Len(rows) \in 1..Len(rows)
      /\ "none" \notin States /\ Len(<<>>) = 0
  BY RowFacts, EmptySeq DEF States
<1>4. initial' \in {initial, "none", Row} /\ inbox' \in {inbox, <<>>}
  BY DEF OpenPage, ReadRow, Connect, Subscribe, FetchInitial, IdleDrop, HangUp, CloseSocket,
     StayLinked, channelVars, linkVars
<1>5. SeenInv'
  <2>1. \A i \in 1..Len(inbox') : inbox'[i] \in had
    BY <1>3, <1>4 DEF QuietInv, SeenInv
  <2> QED BY <1>1, <1>2, <1>3, <1>4, <2>1 DEF QuietInv, SeenInv
<1>6. page' = "live" => page = "live"
  BY DEF OpenPage, ReadRow, Connect, FetchInitial, IdleDrop, pageVars
<1>7. PassingInv' /\ ShownInv'
  BY <1>1, <1>6 DEF QuietInv, PassingInv, ShownInv
<1>8. page = "live" /\ Caught => Caught'
  <2>1. CASE ReadRow
    BY <1>1, <2>1 DEF ReadRow, Caught
  <2>2. CASE OpenPage
    BY <2>2 DEF OpenPage
  <2>3. CASE Connect \/ FetchInitial \/ IdleDrop
    BY <1>1, <2>3 DEF Connect, FetchInitial, IdleDrop, pageVars, Caught
  <2> QED BY <2>1, <2>2, <2>3
<1>9. Unsaid => Unsaid'
  BY <1>1 DEF Unsaid, writerVars, feedVars
<1>10. NoticedInv'
  <2>1. page' = "live" /\ Row' \in Passing /\ lastState' = Row' => Caught'
    BY <1>1, <1>6, <1>8 DEF QuietInv, NoticedInv
  <2>2. CASE OpenPage
    <3>1. link' = "off"
      BY <2>2 DEF OpenPage, StayLinked, linkVars, TypeOK, PageTypeOK
    <3> QED BY <2>1, <3>1 DEF NoticedInv
  <2>3. CASE ReadRow
    <3>1. Caught' /\ UNCHANGED <<link, initial, inbox>>
      BY <1>1, <2>3 DEF ReadRow, Caught, StayLinked, linkVars, channelVars
    <3>2. link = "fetched" => initial = Row \/ OnTheWay
      BY DEF QuietInv, NoticedInv
    <3> QED BY <1>1, <1>9, <2>1, <3>1, <3>2 DEF NoticedInv, OnTheWay
  <2>4. CASE FetchInitial
    <3>1. link' = "fetched" /\ initial' = Row'
      BY <1>1, <2>4 DEF FetchInitial
    <3> QED BY <2>1, <3>1 DEF NoticedInv
  <2>5. CASE Connect \/ IdleDrop
    <3>1. link' \notin {"fetched", "listen"}
      BY <2>5 DEF Connect, IdleDrop, HangUp, CloseSocket
    <3> QED BY <2>1, <3>1 DEF NoticedInv
  <2> QED BY <2>2, <2>3, <2>4, <2>5
<1> QED BY <1>5, <1>7, <1>10 DEF QuietInv

LEMMA InitFeed == Init => FeedInv
<1> SUFFICES ASSUME Init PROVE QuietInv
  BY DEF FeedInv
<1>1. /\ rows = <<"Queued">> /\ Len(rows) = 1 /\ rows[1] = "Queued" /\ Len(inbox) = 0
      /\ page = "closed" /\ lastState = "none" /\ link = "off" /\ initial = "none"
      /\ had = {"Queued"} /\ publishing = {} /\ verdict = <<"none", "none">>
  BY DEF Init, ChannelInit, PageInit, WritersInit
<1>2. SeenInv
  BY <1>1 DEF SeenInv, States
<1>3. PassingInv /\ ShownInv /\ NoticedInv
  BY <1>1 DEF PassingInv, ShownInv, NoticedInv
<1> QED BY <1>2, <1>3 DEF QuietInv

LEMMA RepeatedStays == ASSUME TypeOK, [Next]_vars, repeated PROVE repeated'
<1>1. ASSUME NEW t \in Threads, Thread(t) PROVE repeated'
  <2>1. CASE Read(t) \/ Raise(t)
    BY <2>1 DEF Read, Raise, channelVars, pastVars
  <2>2. CASE PublishState(t)
    BY <2>2 DEF PublishState, TryPublish, Publish, channelVars, pastVars
  <2>3. CASE \E s \in States : Update(t, s) \/ UpdateUnanswered(t, s)
    BY <2>3 DEF Update, UpdateUnanswered, Write, LoseWrite
  <2> QED BY <1>1, <2>1, <2>2, <2>3 DEF Thread, WriterStep
<1>2. CASE (\E t \in Threads : PodPending(t)) \/ ControllerDecides \/ ControllerPublishes
  BY <1>2 DEF PodPending, ControllerDecides, ControllerPublishes, TryPublish, Publish,
     channelVars, pastVars
<1>3. CASE ControllerWrites \/ ApiMarksFailed
  BY <1>3 DEF ControllerWrites, ApiMarksFailed, Write
<1>4. CASE Viewer
  BY <1>4 DEF Viewer, OpenPage, PageStep, ReadRow, Render, Connect, Subscribe, SessionStep,
     FetchInitial, SendInitial, Forward, ReadFails, IdleDrop, SessionBreaks, HangUp, StayLinked,
     channelVars, pastVars
<1>5. CASE UNCHANGED vars
  BY <1>5 DEF vars, channelVars, pastVars
<1> QED BY <1>1, <1>2, <1>3, <1>4, <1>5 DEF Next

LEMMA NextFeed == TypeOK /\ FeedInv /\ [Next]_vars => FeedInv'
<1> SUFFICES ASSUME TypeOK, Quiet => QuietInv, [Next]_vars, Quiet'
             PROVE  QuietInv'
  BY DEF FeedInv
<1>1. faults \in Nat /\ faults' = 0 /\ enqueue' = "ok" /\ ~repeated' /\ ~repeated
  BY BudgetAssumption, RepeatedStays DEF TypeOK, InfraTypeOK, Quiet
<1>2. ~Fault
  BY <1>1 DEF Fault
<1>3. ASSUME NoFault, enqueue' = enqueue PROVE QuietInv /\ faults = 0
  BY <1>1, <1>3 DEF NoFault, infraVars, Quiet
<1>4. CASE UNCHANGED vars
  <2>1. /\ UNCHANGED <<pageVars, linkVars, rows, inbox, had, writerVars, verdict>>
        /\ NoFault /\ enqueue' = enqueue /\ Row' = Row
    BY <1>4 DEF vars, NoFault, channelVars, pastVars, feedVars, Row
  <2>2. QuietInv /\ "Queued" \in had
    BY <1>3, <2>1 DEF QuietInv, SeenInv
  <2>3. \A u \in publishing' : u \in publishing /\ todo'[u] = todo[u]
    BY <2>1 DEF writerVars
  <2>4. Unsaid => Unsaid'
    BY <2>1 DEF Unsaid, writerVars
  <2> QED BY <2>1, <2>2, <2>3, <2>4, SayQuiet
<1>5. ASSUME NEW t \in Threads, Thread(t) PROVE QuietInv'
  <2>1. WriterStep(t) /\ UNCHANGED <<pageVars, linkVars, verdict, enqueue>>
    BY <1>5 DEF Thread, feedVars
  <2>2. CASE Raise(t)
    BY <1>1, <1>2, <2>2 DEF Raise, NoFault, infraVars
  <2>3. CASE Read(t)
    <3>1. QuietInv
      BY <1>3, <2>1, <2>3 DEF Read
    <3> QED BY <2>1, <2>3, <3>1, ReadQuiet
  <2>4. CASE PublishState(t)
    <3>1. NoFault
      BY <1>2, <2>4 DEF PublishState, TryPublish
    <3>2. QuietInv
      BY <1>3, <2>1, <3>1
    <3> QED BY <2>1, <2>4, <3>1, <3>2, PublishQuiet
  <2>5. ASSUME NEW s \in States, Update(t, s) \/ UpdateUnanswered(t, s) PROVE QuietInv'
    <3>1. Update(t, s) /\ NoFault
      BY <1>2, <2>5 DEF Update, UpdateUnanswered
    <3>2. QuietInv /\ faults = 0
      BY <1>3, <2>1, <3>1
    <3> QED BY <1>1, <2>1, <3>1, <3>2, UpdateQuiet
  <2> QED BY <2>1, <2>2, <2>3, <2>4, <2>5 DEF WriterStep
<1>6. ASSUME NEW t \in Threads, PodPending(t) PROVE QuietInv'
  BY <1>3, <1>6, PendingQuiet DEF PodPending
<1>7. CASE ControllerDecides
  BY <1>3, <1>7, DecidesQuiet DEF ControllerDecides
<1>8. CASE ControllerWrites
  BY <1>1, <1>3, <1>8, ControllerWritesQuiet DEF ControllerWrites
<1>9. CASE ControllerPublishes
  <2>1. NoFault /\ enqueue' = enqueue
    BY <1>2, <1>9 DEF ControllerPublishes, TryPublish
  <2> QED BY <1>3, <1>9, <2>1, ControllerPublishesQuiet
<1>10. ~ApiMarksFailed
  BY <1>1 DEF ApiMarksFailed
<1>11. CASE Viewer
  <2>1. UNCHANGED <<writerVars, feedVars>>
    BY <1>11 DEF Viewer
  <2>2. ~ReadFails /\ ~SessionBreaks
    BY <1>2 DEF ReadFails, SessionBreaks
  <2>3. NoFault
    BY <1>11, <2>2 DEF Viewer, OpenPage, PageStep, ReadRow, Render, Connect, SessionStep,
       FetchInitial, SendInitial, Forward, IdleDrop
  <2>4. QuietInv
    BY <1>3, <2>1, <2>3 DEF feedVars
  <2>5. \/ Render \/ SendInitial \/ Forward
        \/ OpenPage \/ ReadRow \/ Connect \/ FetchInitial \/ IdleDrop
    BY <1>11, <2>2 DEF Viewer, PageStep, SessionStep
  <2> QED BY <2>1, <2>4, <2>5, RenderQuiet, SendInitialQuiet, ForwardQuiet, VisitQuiet
<1> QED BY <1>4, <1>5, <1>6, <1>7, <1>8, <1>9, <1>10, <1>11 DEF Next

LEMMA FeedMissesNothing == TypeOK /\ FeedInv => NothingMissed
<1> SUFFICES ASSUME TypeOK, FeedInv, AllPublished, ~repeated, Settled, link = "listen"
             PROVE  shown = Row
  BY DEF NothingMissed
<1>1. Caught \/ OnTheWay
  BY DEF FeedInv, Quiet, AllPublished, QuietInv, NoticedInv
<1>2. ~Unsaid
  BY DEF AllPublished, Unsaid
<1>3. Len(inbox) = 0
  BY EmptySeq DEF Settled
<1>4. Caught
  BY <1>1, <1>2, <1>3 DEF OnTheWay
<1>5. answer # Len(rows)
  BY RowFacts DEF Settled
<1> QED BY <1>4, <1>5 DEF Caught, Settled

(* A page that listens has the row as it is when all is published and all  *)
(* messages are handled, for any number of writers and whatever they       *)
(* write, until a redelivered build brings the row back to a passing state *)
(* (state_machine.py:78-112, main.py:663-733, AutoRefresh.tsx).            *)
THEOREM PageMissesNothing == Spec => []NothingMissed
  BY InitFeed, FeedTypes, NextFeed, FeedMissesNothing, PTL DEF Spec
=============================================================================
