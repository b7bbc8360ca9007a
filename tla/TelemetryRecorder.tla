-------------------------- MODULE TelemetryRecorder --------------------------
(***************************************************************************)
(* The recorder of one server: a bounded queue of rows between the         *)
(* handlers, which never wait for it, and one writer thread, which ends at *)
(* the stop marker close() puts behind the rows.  The database is          *)
(* external: a write succeeds, fails, or does not come back.               *)
(***************************************************************************)
EXTENDS Sequences, Integers, FiniteSets

CONSTANTS Requests,
          MaxQueue,   \* max_queue_size
          Stop        \* _STOP

ASSUME RecorderAssumption == MaxQueue \in Nat \ {0} /\ Stop \notin Requests

VARIABLES rows,     \* _queue
          writer,   \* where _writer_loop stands: "get", "commit", "hung", "stopped"
          item,     \* the row it commits
          fate      \* what became of the row of each request

recorderVars == <<rows, writer, item, fate>>

Fate == {"none", "queued", "dropped", "written", "failed", "not_recorded"}

RecorderInit ==
  /\ rows = << >> /\ writer = "none" /\ item = Stop
  /\ fate = [r \in Requests |-> "none"]

Full == Len(rows) >= MaxQueue

\* Slip: the handler waits until the rows ahead of its own are taken.
EnqueueInTurn(r) ==
  /\ rows = << >>
  /\ rows' = Append(rows, r)
  /\ fate' = [fate EXCEPT ![r] = "queued"]
  /\ UNCHANGED <<writer, item>>

\* _enqueue: put_nowait, the row is dropped when the queue is full.
Enqueue(r) ==
  /\ rows' = IF Full THEN rows ELSE Append(rows, r)
  /\ fate' = [fate EXCEPT ![r] = IF Full THEN "dropped" ELSE "queued"]
  /\ UNCHANGED <<writer, item>>

\* Slip: the stop marker overtakes the rows.
PutStopFirst ==
  /\ ~Full
  /\ rows' = <<Stop>> \o rows
  /\ UNCHANGED <<writer, item, fate>>

\* close(): a put that waits for room; the time limit is that of the join after it.
PutStop ==
  /\ ~Full
  /\ rows' = Append(rows, Stop)
  /\ UNCHANGED <<writer, item, fate>>

WriterGet ==
  /\ writer = "get"
  /\ rows # << >>
  /\ item' = Head(rows)
  /\ rows' = Tail(rows)
  /\ writer' = IF Head(rows) = Stop THEN "stopped" ELSE "commit"
  /\ UNCHANGED fate

\* A failed write is logged and the loop goes on.
WriterCommit ==
  /\ writer = "commit"
  /\ \E how \in {"written", "failed"} : fate' = [fate EXCEPT ![item] = how]
  /\ writer' = "get"
  /\ UNCHANGED <<rows, item>>

DatabaseHangs ==
  /\ writer = "commit"
  /\ writer' = "hung"
  /\ UNCHANGED <<rows, item, fate>>

WriterStep == WriterGet \/ WriterCommit
==============================================================================
