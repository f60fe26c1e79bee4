----------------------------- MODULE StatusPage -----------------------------
(***************************************************************************)
(* A deployment page in a browser (page.tsx, AutoRefresh.tsx) and the      *)
(* WebSocket session of the API that feeds it                              *)
(* (websocket_deployment_status).  The page never shows what a message     *)
(* says: a message only makes it read the row again through the API, and   *)
(* the row decides whether it goes on listening.                           *)
(*                                                                         *)
(* page     closed, loading, live (AutoRefresh is mounted), still (the row *)
(*          was final when it was read), notfound (a read failed)          *)
(* link     where the session stands: off, subscribed, fetched (the row    *)
(*          is read and not yet sent), listen                              *)
(*                                                                         *)
(* A socket delivers in order, so what the session sends and the browser   *)
(* handles is one step: the messages under way are those in inbox.         *)
(***************************************************************************)
EXTENDS StatusChannel

VARIABLES page,
          shown,         \* the state the page shows, or "none"
          answer,        \* which of rows a read in flight brings, or 0
          wanted,        \* router.refresh() was called and not begun
          lastState,     \* lastState.current, or "none"
          done,          \* a final state was received: no reconnect
          link,
          initial        \* what fetch_initial read, or "none"

pageVars == <<page, shown, answer, wanted, lastState, done>>
linkVars == <<link, initial>>

PageStates == {"closed", "loading", "live", "still", "notfound"}
LinkStates == {"off", "subscribed", "fetched", "listen"}

PageTypeOK ==
    /\ page \in PageStates
    /\ shown \in States \cup {"none"}
    /\ answer \in 0..Len(rows)
    /\ wanted \in BOOLEAN /\ done \in BOOLEAN
    /\ lastState \in States \cup {"none"}
    /\ link \in LinkStates
    /\ initial \in States \cup {"none"}
    /\ link # "off" => page = "live" /\ ~done
    /\ subscribed <=> link \in {"subscribed", "fetched", "listen"}

PageInit == /\ subscribed = FALSE
            /\ page = "closed" /\ shown = "none" /\ answer = 0
            /\ wanted = FALSE /\ lastState = "none" /\ done = FALSE
            /\ link = "off" /\ initial = "none"

(* Mutant: the session ends without its finally block.                     *)
CloseSubscribed == link' = "off" /\ initial' = "none" /\ inbox' = <<>> /\ UNCHANGED subscribed

(* The socket is gone on both sides; what was on its way is not handled.   *)
(* (A session whose client has gone unsubscribes only when it next has     *)
(* something to send: it has no other effect.)                             *)
CloseSocket == /\ link' = "off" /\ initial' = "none"
               /\ subscribed' = FALSE /\ inbox' = <<>>

HangUp == CloseSocket /\ UNCHANGED <<rows, pastVars>>

StayLinked == UNCHANGED <<linkVars, channelVars>>

-----------------------------------------------------------------------------

OpenPage == /\ page = "closed"
            /\ page' = "loading" /\ wanted' = TRUE
            /\ UNCHANGED <<shown, answer, lastState, done>>
            /\ NoFault /\ StayLinked

(* api.deployments.get, one refresh at a time.  *)
ReadRow == /\ wanted /\ answer = 0
           /\ answer' = Len(rows) /\ wanted' = FALSE
           /\ UNCHANGED <<page, shown, lastState, done>>
           /\ NoFault /\ StayLinked

(* Whatever is wrong with the answer, the page becomes notFound().  *)
ReadFails == /\ wanted /\ answer = 0
             /\ page' = "notfound" /\ wanted' = FALSE
             /\ UNCHANGED <<shown, answer, lastState, done>>
             /\ Fault /\ HangUp

Follow == UNCHANGED <<linkVars, subscribed, inbox>>

Fresh == IF page = "live" THEN UNCHANGED <<lastState, done>>
                          ELSE lastState' = "none" /\ done' = FALSE

(* Mutant: the page shows what the last message said.                      *)
RenderMessage ==
    LET s == IF page = "live" /\ lastState # "none" THEN lastState ELSE rows[answer] IN
    /\ answer # 0
    /\ shown' = s /\ answer' = 0
    /\ rows' = SubSeq(rows, answer, Len(rows))
    /\ \/ s \notin Final /\ page' = "live" /\ Follow
       \/ s \in Final /\ page' = "still" /\ CloseSocket
    /\ Fresh
    /\ NoFault /\ UNCHANGED <<pastVars, wanted>>

(* The page is rendered from the row, which also decides whether it goes   *)
(* on: AutoRefresh is mounted anew, stays as it is, or is unmounted, which *)
(* closes its socket.                                                      *)
Render ==
    /\ answer # 0
    /\ shown' = rows[answer] /\ answer' = 0
    /\ rows' = SubSeq(rows, answer, Len(rows))
    /\ \/ rows[answer] \notin Final /\ page' = "live" /\ Follow
       \/ rows[answer] \in Final /\ page' = "still" /\ CloseSocket
    /\ Fresh
    /\ NoFault /\ UNCHANGED <<pastVars, wanted>>

(* connect(), at once or three seconds after the socket was closed.  The   *)
(* session checks the token, accepts, and subscribes before it reads.      *)
Connect == /\ page = "live" /\ ~done /\ link = "off"
           /\ link' = "subscribed"
           /\ Subscribe
           /\ NoFault /\ UNCHANGED <<pageVars, initial>>

(* fetch_initial, in a thread of its own.  *)
FetchInitial == /\ link = "subscribed"
                /\ initial' = Row
                /\ link' = "fetched"
                /\ NoFault /\ UNCHANGED <<pageVars, channelVars>>

(* ws.onmessage: a state that differs from the last one received makes the *)
(* page read the row again, and if it is final, not connect again; another *)
(* is ignored.  (After a final one the session hangs up in any case.)      *)
Receive(s) ==
    /\ lastState' = s
    /\ wanted' = (wanted \/ s # lastState)
    /\ done' = (done \/ (s # lastState /\ s \in Final))
    /\ UNCHANGED <<page, shown, answer>>

(* Mutant: the session subscribes when it has sent what it read.           *)
SendInitialDeaf == /\ link = "fetched"
                   /\ Receive(initial)
                   /\ IF initial \in Final THEN HangUp
                      ELSE /\ link' = "listen" /\ initial' = "none"
                           /\ inbox' = <<>> /\ UNCHANGED <<rows, pastVars, subscribed>>
                   /\ NoFault

(* Mutant: what was read is not sent.                                      *)
SendNothing == /\ link = "fetched"
               /\ link' = "listen" /\ initial' = "none"
               /\ NoFault /\ UNCHANGED <<pageVars, channelVars>>

SendInitial == /\ link = "fetched"
               /\ Receive(initial)
               /\ IF initial \in Final THEN HangUp
                  ELSE link' = "listen" /\ initial' = "none" /\ UNCHANGED channelVars
               /\ NoFault

(* pubsub.listen(): the session ends after a final message.                *)
Forward == /\ link = "listen" /\ inbox # <<>>
           /\ Receive(Head(inbox))
           /\ IF Head(inbox) \in Final THEN HangUp
              ELSE inbox' = Tail(inbox) /\ UNCHANGED <<linkVars, rows, pastVars, subscribed>>
           /\ NoFault

(* The proxy closes a socket that is idle for 100 seconds.  *)
IdleDrop == /\ link = "listen" /\ inbox = <<>>
            /\ HangUp
            /\ NoFault /\ UNCHANGED pageVars

(* The network, the API pod or Redis breaks the session anywhere; the      *)
(* token check is refused.                                                 *)
SessionBreaks == /\ link # "off"
                 /\ HangUp
                 /\ Fault /\ UNCHANGED pageVars

SessionStep == FetchInitial \/ SendInitial \/ Forward
PageStep == ReadRow \/ Render \/ Connect
=============================================================================
