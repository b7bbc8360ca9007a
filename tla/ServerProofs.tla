---------------------------- MODULE ServerProofs ----------------------------
(***************************************************************************)
(* For every number of requests and every bound of the queue: when the     *)
(* writer of the recorder has stopped, no row it was given is left.        *)
(***************************************************************************)
EXTENDS Server, SequenceTheorems, TLAPS

\* The lifespan is past the last handler.
Past == {"drain", "join", "end_run", "put_stop", "join_writer", "stopped"}

Types ==
  /\ rows \in Seq(Requests \cup {Stop})
  /\ fate \in [Requests -> Fate]
  /\ handler \in [Requests -> {"none", "waiting", "closed"}]

\* A queued row is in the queue or in the hands of the writer.
Placed ==
  \A r \in Requests : fate[r] = "queued" =>
    (writer \in {"commit", "hung"} /\ item = r) \/ \E i \in 1..Len(rows) : rows[i] = r

\* Nobody records once the stop marker may come.
Settled == main \in Past => \A r \in Requests : handler[r] # "waiting"

\* Nothing is behind the stop marker.
StopIsLast ==
  \A i \in 1..Len(rows) : rows[i] = Stop => i = Len(rows) /\ main \in {"join_writer", "stopped"}

WriterStates ==
  /\ main \in {"load", "engine", "recorder"} => writer = "none"
  /\ writer = "stopped" => rows = << >> /\ main \in {"join_writer", "stopped"}

IInv == Types /\ Placed /\ Settled /\ StopIsLast /\ WriterStates

------------------------------------------------------------------------------
\* A server that has not started satisfies the invariant: nothing is queued.
LEMMA InitHolds == Init => IInv
BY DEF Init, RecorderInit, IInv, Types, Placed, Settled, StopIsLast, WriterStates, Past, Fate

\* _record_request_telemetry keeps the invariant: a handler records before its response is
\* over, when the stop marker has not been put, so its row is not behind the marker.
LEMMA RecordKeeps ==
  ASSUME IInv, NEW r \in Requests, handler[r] = "waiting", Record(r), main' = main,
         handler' = [handler EXCEPT ![r] = "closed"]
  PROVE  IInv'
<1>1. main \notin Past /\ writer # "stopped"
  BY DEF IInv, Settled, WriterStates, Past
<1>2. \A i \in 1..Len(rows) : rows[i] # Stop
  BY <1>1 DEF IInv, StopIsLast, Past
<1>3. CASE recorder = "up" /\ ~Full
  <2>1. /\ rows' = Append(rows, r) /\ fate' = [fate EXCEPT ![r] = "queued"]
        /\ writer' = writer /\ item' = item
    BY <1>3 DEF Record, Enqueue
  <2>2. /\ rows' \in Seq(Requests \cup {Stop}) /\ Len(rows') = Len(rows) + 1 /\ Len(rows) \in Nat
        /\ \A i \in 1..Len(rows) : rows'[i] = rows[i]
        /\ rows'[Len(rows) + 1] = r
    BY <2>1 DEF IInv, Types
  <2>3. Types'
    BY <2>1, <2>2 DEF IInv, Types, Fate
  <2>4. Placed'
    BY <2>1, <2>2 DEF IInv, Placed, Types
  <2>5. StopIsLast'
    BY <1>2, <2>2, RecorderAssumption DEF StopIsLast
  <2>6. WriterStates' /\ Settled'
    BY <1>1, <2>1 DEF IInv, WriterStates, Settled
  <2> QED BY <2>3, <2>4, <2>5, <2>6 DEF IInv
<1>4. CASE ~(recorder = "up" /\ ~Full)
  <2>1. /\ rows' = rows /\ writer' = writer /\ item' = item
        /\ fate' = [fate EXCEPT ![r] = "dropped"] \/ fate' = [fate EXCEPT ![r] = "not_recorded"]
    BY <1>4 DEF Record, Enqueue
  <2>2. Types'
    BY <2>1 DEF IInv, Types, Fate
  <2>3. Placed'
    BY <2>1 DEF IInv, Placed, Types
  <2>4. StopIsLast' /\ WriterStates' /\ Settled'
    BY <1>1, <2>1 DEF IInv, StopIsLast, WriterStates, Settled
  <2> QED BY <2>2, <2>3, <2>4 DEF IInv
<1> QED BY <1>3, <1>4

\* _queue.get() keeps the invariant: the row it takes is in the hands of the writer, and
\* the stop marker is taken only when nothing is left behind it.
LEMMA WriterGetKeeps ==
  ASSUME IInv, WriterGet, UNCHANGED <<main, handler>>
  PROVE  IInv'
<1>1. /\ writer = "get" /\ rows # << >> /\ item' = Head(rows) /\ rows' = Tail(rows)
      /\ writer' = IF Head(rows) = Stop THEN "stopped" ELSE "commit"
      /\ fate' = fate
  BY DEF WriterGet
<1>2. /\ rows' \in Seq(Requests \cup {Stop}) /\ Len(rows') = Len(rows) - 1 /\ Len(rows) \in Nat \ {0}
      /\ item' = rows[1]
      /\ \A i \in 1..Len(rows') : rows'[i] = rows[i + 1]
  BY <1>1 DEF IInv, Types
<1>3. Types'
  BY <1>1, <1>2 DEF IInv, Types
<1>4. Placed'
  <2> SUFFICES ASSUME NEW r \in Requests, fate[r] = "queued"
               PROVE  (writer' \in {"commit", "hung"} /\ item' = r)
                        \/ \E i \in 1..Len(rows') : rows'[i] = r
    BY <1>1 DEF Placed
  <2>1. PICK i \in 1..Len(rows) : rows[i] = r
    BY <1>1 DEF IInv, Placed
  <2>2. CASE i = 1
    BY <1>1, <1>2, <2>1, <2>2, RecorderAssumption
  <2>3. CASE i # 1
    <3>1. i - 1 \in 1..Len(rows') /\ rows'[i - 1] = r
      BY <1>2, <2>1, <2>3
    <3> QED BY <3>1
  <2> QED BY <2>2, <2>3
<1>5. StopIsLast'
  <2> SUFFICES ASSUME NEW i \in 1..Len(rows'), rows'[i] = Stop
               PROVE  i = Len(rows') /\ main \in {"join_writer", "stopped"}
    BY DEF StopIsLast
  <2>1. i + 1 \in 1..Len(rows) /\ rows[i + 1] = Stop
    BY <1>2
  <2>2. i + 1 = Len(rows) /\ main \in {"join_writer", "stopped"}
    BY <2>1 DEF IInv, StopIsLast
  <2> QED BY <1>2, <2>2
<1>6. WriterStates'
  <2>1. main \notin {"load", "engine", "recorder"}
    BY <1>1 DEF IInv, WriterStates
  <2>2. CASE rows[1] = Stop
    <3>1. Len(rows) = 1 /\ main \in {"join_writer", "stopped"}
      BY <1>2, <2>2 DEF IInv, StopIsLast
    <3>2. rows' = << >>
      BY <1>2, <3>1
    <3> QED BY <2>1, <3>1, <3>2 DEF WriterStates
  <2>3. CASE rows[1] # Stop
    BY <1>1, <1>2, <2>1, <2>3 DEF WriterStates
  <2> QED BY <2>2, <2>3
<1>7. Settled'
  BY DEF IInv, Settled
<1> QED BY <1>3, <1>4, <1>5, <1>6, <1>7 DEF IInv

\* A write that succeeds or fails keeps the invariant: its row is no longer queued.
LEMMA WriterCommitKeeps ==
  ASSUME IInv, WriterCommit, UNCHANGED <<main, handler>>
  PROVE  IInv'
<1>1. PICK how \in {"written", "failed"} : fate' = [fate EXCEPT ![item] = how]
  BY DEF WriterCommit
<1>2. writer = "commit" /\ writer' = "get" /\ rows' = rows /\ item' = item
  BY DEF WriterCommit
<1>3. Types'
  BY <1>1, <1>2 DEF IInv, Types, Fate
<1>4. Placed'
  BY <1>1, <1>2 DEF IInv, Placed, Types
<1>5. StopIsLast' /\ WriterStates' /\ Settled'
  BY <1>2 DEF IInv, StopIsLast, WriterStates, Settled
<1> QED BY <1>3, <1>4, <1>5 DEF IInv

\* The put of the stop marker by close() keeps the invariant: it is the last entry, and
\* no handler is left to put another one.
LEMMA CloseRecorderKeeps ==
  ASSUME IInv, CloseRecorder
  PROVE  IInv'
<1>1. /\ main = "put_stop" /\ main' = "join_writer" /\ rows' = Append(rows, Stop)
      /\ writer' = writer /\ item' = item /\ fate' = fate /\ handler' = handler
  BY DEF CloseRecorder, PutStop
<1>2. /\ rows' \in Seq(Requests \cup {Stop}) /\ Len(rows') = Len(rows) + 1 /\ Len(rows) \in Nat
      /\ \A i \in 1..Len(rows) : rows'[i] = rows[i]
  BY <1>1 DEF IInv, Types
<1>3. (\A i \in 1..Len(rows) : rows[i] # Stop) /\ writer # "stopped"
  BY <1>1 DEF IInv, StopIsLast, WriterStates
<1>4. Types'
  BY <1>1, <1>2 DEF IInv, Types
<1>5. Placed'
  BY <1>1, <1>2 DEF IInv, Placed
<1>6. StopIsLast'
  BY <1>1, <1>2, <1>3 DEF StopIsLast
<1>7. WriterStates' /\ Settled'
  BY <1>1, <1>3 DEF IInv, WriterStates, Settled, Past
<1> QED BY <1>4, <1>5, <1>6, <1>7 DEF IInv

------------------------------------------------------------------------------
\* The inductive invariant holds in every reachable state of the server: a queued row is in
\* the queue or with the writer, and the stop marker comes after the last handler is done.
THEOREM ServerInvariant == Spec => []IInv
<1>1. IInv /\ [Next]_vars => IInv'
  <2> SUFFICES ASSUME IInv, [Next]_vars PROVE IInv'
    OBVIOUS
  <2> USE DEF IInv, Types, Placed, Settled, StopIsLast, WriterStates, Past, recorderVars, lifeVars, engineVars
  <2>1. CASE Load
    BY <2>1 DEF Load
  <2>2. CASE StartEngine
    BY <2>2 DEF StartEngine
  <2>3. CASE StartRecorder
    BY <2>3 DEF StartRecorder
  <2>4. CASE MarkReady
    BY <2>4 DEF MarkReady
  <2>5. CASE Signal
    BY <2>5 DEF Signal
  <2>6. CASE BeginDrain
    BY <2>6 DEF BeginDrain
  <2>7. CASE DrainEnds
    BY <2>7 DEF DrainEnds
  <2>8. CASE JoinEngine
    BY <2>8 DEF JoinEngine
  <2>9. CASE EndRun
    BY <2>9 DEF EndRun
  <2>10. CASE CloseRecorder
    BY <2>10, CloseRecorderKeeps
  <2>11. CASE JoinWriter
    BY <2>11 DEF JoinWriter
  <2>12. ASSUME NEW r \in Requests, Accept(r) PROVE IInv'
    BY <2>12 DEF Accept
  <2>13. ASSUME NEW r \in Requests, Answer(r) \/ Leave(r) \/ TimesOut(r) PROVE IInv'
    BY <2>13, RecordKeeps DEF Answer, Leave, TimesOut, Close
  <2>14. ASSUME NEW r \in Requests, EngineStep(r) PROVE IInv'
    BY <2>14 DEF EngineStep, Take, EndRequest
  <2>15. CASE EngineStops \/ EngineDies \/ EngineSticks
    BY <2>15 DEF EngineStops, EngineDies, EngineSticks
  <2>16. CASE WriterGet /\ Quiet
    BY <2>16, WriterGetKeeps DEF Quiet
  <2>17. CASE WriterCommit /\ Quiet
    BY <2>17, WriterCommitKeeps DEF Quiet
  <2>18. CASE DatabaseHangs /\ Quiet
    BY <2>18 DEF DatabaseHangs, Quiet
  <2>19. CASE UNCHANGED vars
    BY <2>19 DEF vars
  <2> QED BY <2>1, <2>2, <2>3, <2>4, <2>5, <2>6, <2>7, <2>8, <2>9, <2>10, <2>11, <2>12, <2>13,
             <2>14, <2>15, <2>16, <2>17, <2>18, <2>19 DEF Next, Startup, Shutdown, WriterStep
<1> QED BY <1>1, InitHolds, PTL DEF Spec

\* close() flushes: when the writer thread of the recorder has ended at the stop marker, no
\* row that a handler put in the queue is left unwritten, for every number of requests.
THEOREM FlushedWhenStopped == Spec => []FlushIsComplete
<1>1. IInv => FlushIsComplete
  BY DEF IInv, Placed, WriterStates, FlushIsComplete
<1> QED BY <1>1, ServerInvariant, PTL
==============================================================================
