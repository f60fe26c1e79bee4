---------------------------- MODULE DeployStream ----------------------------
(***************************************************************************)
(* The Redis stream deploy_stream with its consumer group worker_group, as *)
(* QueueClient uses it.  The group is created at id 0, so it delivers      *)
(* every entry.  The stream is never trimmed: an entry is pending from its *)
(* first delivery until it is acknowledged, whichever consumer got it.     *)
(* The idle time of a pending entry is abstracted to whether it exceeds    *)
(* PENDING_MESSAGE_TIMEOUT_MS (five minutes): nothing bounds how long a    *)
(* worker takes over its batch, so any pending entry may become idle.      *)
(***************************************************************************)
EXTENDS Infra, Sequences

CONSTANT BatchSize       \* count argument of XREADGROUP (main reads 5)

ASSUME BatchAssumption == BatchSize \in Nat \ {0}

VARIABLES log,           \* entries of the stream, in id order
          lastRead,      \* entries up to here have been delivered
          pel,           \* pending entries list of the group
          idle,          \* pending entries idle longer than the timeout
          redelivered,   \* entries XAUTOCLAIM has ever moved (history)
          dlq            \* entries of deploy_stream_dlq

streamVars == <<log, lastRead, pel, idle, redelivered, dlq>>

StreamTypeOK == /\ log \in Seq(Deployments)
                /\ lastRead \in 0..Len(log)
                /\ pel \subseteq Deployments
                /\ idle \subseteq pel
                /\ redelivered \subseteq Deployments
                /\ dlq \subseteq Deployments

StreamInit == /\ log = <<>>
              /\ lastRead = 0
              /\ pel = {} /\ idle = {} /\ redelivered = {} /\ dlq = {}

Entries(from, to) == {log[i] : i \in from..to}
Enqueued == Entries(1, Len(log))
Delivered == Entries(1, lastRead)
Settled == Delivered \ pel

(* d's entry has a smaller id than every other of S.  *)
IsOldest(d, S) ==
    \E i \in 1..Len(log) : /\ log[i] = d
                           /\ \A j \in 1..(i - 1) : log[j] \notin S

XAdd(d) == /\ log' = Append(log, d)
           /\ UNCHANGED <<lastRead, pel, idle, redelivered, dlq>>

(* XREADGROUP ... STREAMS deploy_stream >: the oldest undelivered entries. *)
LastOfBatch == IF lastRead + BatchSize < Len(log) THEN lastRead + BatchSize
                                                  ELSE Len(log)
(* Mutant: only the first entry of the answer is taken.  *)
NextBatchFirst == IF lastRead < Len(log) THEN {log[lastRead + 1]} ELSE {}
NextBatch == Entries(lastRead + 1, LastOfBatch)

(* Mutant: reads from the start of the history instead of ">".  *)
XReadGroupAgain == /\ pel' = pel \cup NextBatch
                   /\ UNCHANGED <<log, lastRead, idle, redelivered, dlq>>

XReadGroup == /\ lastRead' = LastOfBatch
              /\ pel' = pel \cup NextBatch
              /\ UNCHANGED <<log, idle, redelivered, dlq>>

(* XAUTOCLAIM, repeated until its cursor is back at 0-0: every entry that  *)
(* has been idle too long, of any consumer, the caller included.           *)
XAutoClaim == /\ idle' = {}
              /\ redelivered' = redelivered \cup idle
              /\ UNCHANGED <<log, lastRead, pel, dlq>>

(* Mutant: the idle time of an acknowledged entry is kept.  *)
XAckKeepsIdle(d) == /\ pel' = pel \ {d}
                    /\ UNCHANGED <<log, lastRead, idle, redelivered, dlq>>

XAck(d) == /\ pel' = pel \ {d}
           /\ idle' = idle \ {d}
           /\ UNCHANGED <<log, lastRead, redelivered, dlq>>

XAddDlq(d) == /\ dlq' = dlq \cup {d}
              /\ UNCHANGED <<log, lastRead, pel, idle, redelivered>>

(* Five minutes pass since d was last delivered or claimed.  *)
Age(d) == /\ d \in pel \ idle
          /\ idle' = idle \cup {d}
          /\ UNCHANGED <<log, lastRead, pel, redelivered, dlq>>
=============================================================================
