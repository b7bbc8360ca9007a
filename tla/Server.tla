------------------------------- MODULE Server -------------------------------
(***************************************************************************)
(* The server around an engine: the lifespan of the application, which     *)
(* starts the engine thread and the recorder and stops them again, the     *)
(* health state the probes read, and the end of each request.  The engine  *)
(* thread is as coarse as the lifespan sees it: it takes requests, ends    *)
(* them, stops when it is told to, and may die of an exception or stand    *)
(* for ever in a put on the channel of a client that left.  The HTTP       *)
(* server is external: it serves after the start-up, and on a signal takes *)
(* no more requests and lets those in flight finish.                       *)
(***************************************************************************)
EXTENDS TelemetryRecorder

CONSTANT Streaming   \* the requests answered by _sse_stream, the others by _collect_tokens

ASSUME ServerAssumption == Streaming \subseteq Requests

VARIABLES main,       \* where the lifespan stands, named for its next step
          phase,      \* _health_state.phase
          alive,      \* _health_state.engine_alive
          thread,     \* the engine thread: "none", "runs", "stuck", "dead" or "over"
          told,       \* _shutdown_requested
          submitted,  \* the requests in the submission queue
          running,    \* the requests the engine holds
          ended,      \* the requests whose sentinel was put
          handler,    \* the handler of each request
          recorder    \* app.state.telemetry and its run id

lifeVars == <<main, phase, alive>>
engineVars == <<thread, told, submitted, running, ended>>
vars == <<recorderVars, lifeVars, engineVars, handler, recorder>>

Init ==
  /\ RecorderInit
  /\ main = "load" /\ phase = "STARTING" /\ alive = FALSE
  /\ thread = "none" /\ told = FALSE
  /\ submitted = {} /\ running = {} /\ ended = {}
  /\ handler = [r \in Requests |-> "none"]
  /\ recorder = "absent"

------------------------------------------------------------------------------
(* Start-up. *)

\* The model is loaded and everything else is built, or an exception ends it all.
Load ==
  /\ main = "load"
  /\ main' \in {"engine", "failed"}
  /\ UNCHANGED <<recorderVars, phase, alive, engineVars, handler, recorder>>

StartEngine ==
  /\ main = "engine"
  /\ thread' = "runs"
  /\ main' = "recorder"
  /\ UNCHANGED <<recorderVars, phase, alive, told, submitted, running, ended, handler, recorder>>

\* An exception leaves the server without a recorder, or with one without a run:
\* its writer thread runs, and nothing will be given to it.
StartRecorder ==
  /\ main = "recorder"
  /\ recorder' \in {"absent", "no_run", "up"}
  /\ writer' = IF recorder' = "absent" THEN "none" ELSE "get"
  /\ main' = "ready"
  /\ UNCHANGED <<rows, item, fate, phase, alive, engineVars, handler>>

MarkReady ==
  /\ main = "ready"
  /\ phase' = "READY" /\ alive' = TRUE
  /\ main' = "serving"
  /\ UNCHANGED <<recorderVars, engineVars, handler, recorder>>

------------------------------------------------------------------------------
(* Requests, the engine thread, and the signal. *)

Accept(r) ==
  /\ main = "serving"
  /\ handler[r] = "none"
  /\ handler' = [handler EXCEPT ![r] = "waiting"]
  /\ submitted' = submitted \cup {r}
  /\ UNCHANGED <<recorderVars, lifeVars, thread, told, running, ended, recorder>>

\* The finally block of the handler: the row goes to the recorder if it has a run.
Record(r) ==
  IF recorder = "up" THEN Enqueue(r)
  ELSE fate' = [fate EXCEPT ![r] = "not_recorded"] /\ UNCHANGED <<rows, writer, item>>

Close(r) ==
  /\ handler[r] = "waiting"
  /\ Record(r)
  /\ handler' = [handler EXCEPT ![r] = "closed"]
  /\ UNCHANGED <<lifeVars, engineVars, recorder>>

\* The handler got the sentinel.
Answer(r) == r \in ended /\ Close(r)

\* The client of a stream left.
Leave(r) == r \in Streaming \ ended /\ Close(r)

\* The wait for the next token of an answer that is not streamed is over: 504.
TimesOut(r) == r \notin Streaming \cup ended /\ Close(r)

Take(r) ==
  /\ thread = "runs" /\ ~told
  /\ r \in submitted
  /\ submitted' = submitted \ {r}
  /\ running' = running \cup {r}
  /\ UNCHANGED <<recorderVars, lifeVars, thread, told, ended, handler, recorder>>

EndRequest(r) ==
  /\ thread = "runs"
  /\ r \in running
  /\ ended' = ended \cup {r}
  /\ running' = running \ {r}
  /\ UNCHANGED <<recorderVars, lifeVars, thread, told, submitted, handler, recorder>>

\* The loop is left: what runs is cancelled, what is submitted stays there.
EngineStops ==
  /\ thread = "runs" /\ told
  /\ thread' = "over"
  /\ ended' = ended \cup running
  /\ running' = {}
  /\ UNCHANGED <<recorderVars, lifeVars, told, submitted, handler, recorder>>

\* An exception leaves run(): there is nobody to notice.
EngineDies ==
  /\ thread = "runs"
  /\ running # {}
  /\ thread' = "dead"
  /\ UNCHANGED <<recorderVars, lifeVars, told, submitted, running, ended, handler, recorder>>

EngineSticks ==
  /\ thread = "runs"
  /\ \E r \in running : handler[r] = "closed"
  /\ thread' = "stuck"
  /\ UNCHANGED <<recorderVars, lifeVars, told, submitted, running, ended, handler, recorder>>

Signal ==
  /\ main = "serving"
  /\ main' = "closing"
  /\ UNCHANGED <<recorderVars, phase, alive, engineVars, handler, recorder>>

------------------------------------------------------------------------------
(* Shutdown. *)

\* The lifespan goes on when the last handler is done; engine.shutdown() sets the
\* flag before its first await.
BeginDrain ==
  /\ main = "closing"
  /\ \A r \in Requests : handler[r] # "waiting"
  /\ phase' = "DRAINING" /\ alive' = FALSE
  /\ told' = TRUE
  /\ main' = "drain"
  /\ UNCHANGED <<recorderVars, thread, submitted, running, ended, handler, recorder>>

\* shutdown() polls until nothing runs or its time is over.
DrainEnds ==
  /\ main = "drain"
  /\ main' = "join"
  /\ UNCHANGED <<recorderVars, phase, alive, engineVars, handler, recorder>>

\* Slip: the thread is joined without a time limit.
JoinEngineForever ==
  /\ main = "join"
  /\ thread \in {"dead", "over"}
  /\ main' = "end_run"
  /\ UNCHANGED <<recorderVars, phase, alive, engineVars, handler, recorder>>

\* join(timeout=5): the thread is over, or the time is.  The submission queue is
\* closed, which no handler is left to notice, and the metrics server stopped.
JoinEngine ==
  /\ main = "join"
  /\ main' = "end_run"
  /\ UNCHANGED <<recorderVars, phase, alive, engineVars, handler, recorder>>

EndRun ==
  /\ main = "end_run"
  /\ main' = IF recorder = "up" THEN "put_stop" ELSE "stopped"
  /\ phase' = IF recorder = "up" THEN phase ELSE "STOPPED"
  /\ UNCHANGED <<recorderVars, alive, engineVars, handler, recorder>>

CloseRecorder ==
  /\ main = "put_stop"
  /\ PutStop
  /\ main' = "join_writer"
  /\ UNCHANGED <<phase, alive, engineVars, handler, recorder>>

\* The writer is over, or the time of its join is.
JoinWriter ==
  /\ main = "join_writer"
  /\ main' = "stopped" /\ phase' = "STOPPED"
  /\ UNCHANGED <<recorderVars, alive, engineVars, handler, recorder>>

------------------------------------------------------------------------------
Startup == Load \/ StartEngine \/ StartRecorder \/ MarkReady
Shutdown == BeginDrain \/ DrainEnds \/ JoinEngine \/ EndRun \/ CloseRecorder \/ JoinWriter
EngineStep(r) == Take(r) \/ EndRequest(r)
Quiet == UNCHANGED <<lifeVars, engineVars, handler, recorder>>

Next ==
  \/ Startup \/ Signal \/ Shutdown
  \/ \E r \in Requests : Accept(r) \/ Answer(r) \/ Leave(r) \/ TimesOut(r) \/ EngineStep(r)
  \/ EngineStops \/ EngineDies \/ EngineSticks
  \/ (WriterStep \/ DatabaseHangs) /\ Quiet

Spec == Init /\ [][Next]_vars

\* The event loop, the engine thread and the writer run as long as nothing blocks
\* them, and time limits come to an end: that of a token when none can come any more.
FairSpec ==
  /\ Spec
  /\ WF_vars(Shutdown)
  /\ WF_vars(EngineStops)
  /\ \A r \in Requests :
       WF_vars(EngineStep(r)) /\ WF_vars(Answer(r)) /\ WF_vars(thread # "runs" /\ TimesOut(r))
  /\ WF_vars(WriterStep /\ Quiet)

------------------------------------------------------------------------------
\* "Flush the write queue and join": when the writer stopped, no row it was given
\* is left behind the stop marker, although handlers record until the very end.
FlushIsComplete ==
  writer = "stopped" => \A r \in Requests : fate[r] # "queued"

\* "Drops on overflow to avoid back-pressure": a handler whose answer is complete
\* is done, whatever state the database and its queue are in.
AnswersAreClosed ==
  \A r \in Requests : (handler[r] = "waiting" /\ r \in ended) ~> handler[r] = "closed"

\* The handler of a stream, whose wait has no limit, waits for an engine that is gone
\* or stands before a full channel.
Deserted == thread \in {"dead", "stuck"} /\ \E r \in Streaming : handler[r] = "waiting"

\* close() waits for room in a queue that nobody reads any more.
Wedged == main = "put_stop" /\ Full /\ writer = "hung"

\* From a signal on the server comes to its end, whatever the engine thread does,
\* except in two situations no time limit of the code covers.  Handlers that collect
\* their answer hold it up no longer than the limit of one token.
SignalEndsServer == main = "closing" ~> (phase = "STOPPED" \/ Deserted \/ Wedged)
==============================================================================
