--------------------------- MODULE StatusChannel ---------------------------
(***************************************************************************)
(* The row of one deployment and its Redis channel shipzen:status:<id>.    *)
(* Redis keeps nothing of what is published: a message goes to whoever is  *)
(* subscribed at that moment, here to the WebSocket session of one client. *)
(***************************************************************************)
EXTENDS Faults, Sequences

VARIABLES rows,          \* the values the state column has had since the
                         \* one the page last read, that one first; the
                         \* row is the last
          revived,       \* a final state has been overwritten (history)
          had,           \* the states the row has had (history)
          repeated,      \* it has come back to a passing one (history)
          uncommitted,   \* an UPDATE was executed and never committed
                         \* (history)
          subscribed,    \* the session's Pub/Sub object is subscribed
          inbox          \* messages it holds that were not forwarded yet

pastVars == <<revived, had, repeated, uncommitted>>

channelVars == <<rows, pastVars, subscribed, inbox>>

States == {"Queued", "Building", "Deploying", "Running", "Failed"}

(* The states after which the page stops following (DLQ is never written). *)
Final == {"Running", "Failed"}
Passing == States \ Final

Row == rows[Len(rows)]

ChannelTypeOK == /\ rows \in Seq(States) /\ rows # <<>>
                 /\ revived \in BOOLEAN /\ repeated \in BOOLEAN /\ uncommitted \in BOOLEAN
                 /\ had \subseteq States
                 /\ subscribed \in BOOLEAN
                 /\ inbox \in Seq(States)

ChannelInit == /\ rows = <<"Queued">> /\ had = {"Queued"}
               /\ revived = FALSE /\ repeated = FALSE /\ uncommitted = FALSE
               /\ subscribed \in BOOLEAN /\ inbox = <<>>

(* UPDATE deployments SET state = s: whatever the row is.  *)
Write(s) == /\ rows' = Append(rows, s)
            /\ revived' = (revived \/ Row \in Final)
            /\ had' = had \cup {s}
            /\ repeated' = (repeated \/ s \in Passing \cap had)
            /\ UNCHANGED <<uncommitted, subscribed, inbox>>

(* An UPDATE in a transaction that is never committed.  *)
LoseWrite == /\ uncommitted' = TRUE
             /\ UNCHANGED <<rows, revived, had, repeated, subscribed, inbox>>

Publish(s) == /\ inbox' = IF subscribed THEN Append(inbox, s) ELSE inbox
              /\ UNCHANGED <<rows, pastVars, subscribed>>

(* A PUBLISH that raises is logged and swallowed; it may have reached the  *)
(* subscriber.                                                             *)
TryPublish(s) == \/ Publish(s) /\ NoFault
                 \/ Fault /\ (Publish(s) \/ UNCHANGED channelVars)

Subscribe == subscribed' = TRUE /\ inbox' = <<>> /\ UNCHANGED <<rows, pastVars>>
=============================================================================
