---------------------------- MODULE BrokerSession ----------------------------
(* One connection between the backend and the broker (broker/client.rs,      *)
(* broker/server.rs): the request is authenticated and validated, then run   *)
(* as a unary exec or as a stream whose frames carry the child's stdin and   *)
(* stdout. Connections share nothing, so one at a time is modelled; a        *)
(* session that ends leaves the module ready for the next.  What is counted  *)
(* of a stream is not of a console, which may go on for ever.                *)
EXTENDS BrokerPolicy

CONSTANTS Chunks,      \* chunks in a stream, so many that a failure can strike midway, and
                       \* on the way of a console in each direction
          MaxSessions  \* bound on the number of connections

VARIABLES
  req,      \* the request on the wire: [mode, cmd], mode "none" between sessions
  cli,      \* the client task: idle, reading, or its answer ok, missing, error
  pump,     \* the client's stdin pump: none, feeding, done
  fed,      \* chunks the pump has read from its source
  up,       \* frames on the way to the broker
  srv,      \* the broker task: none, check, run, join, gone
  feeder,   \* the broker's stdin task: none, feeding, done
  child,    \* [st |-> none, running, ok, failed, killed, eaten |-> chunks read, out |-> chunks written]
  pipe,     \* chunks of the child's stdout the broker has not read
  down,     \* frames on the way to the client
  sink,     \* chunks the client has written to its sink
  sessions

brvars == <<req, cli, pump, fed, up, srv, feeder, child, pipe, down, sink, sessions>>
brtask == <<srv, feeder, child, pipe>>
brcli  == <<cli, pump, fed, sink>>

NoChild == [st |-> "none", eaten |-> 0, out |-> 0]
NoRequest == [mode |-> "none", cmd |-> "none"]

BrInit ==
  /\ req = NoRequest /\ cli = "idle" /\ pump = "none" /\ fed = 0 /\ up = <<>>
  /\ srv = "none" /\ feeder = "none" /\ child = NoChild /\ pipe = 0 /\ down = <<>>
  /\ sink = 0 /\ sessions = 0

-----------------------------------------------------------------------------
(* The client.                                                                *)

\* The stream modes are the two zfs commands command.rs streams; a console is opened by its pty.
ModeOf(c) == CASE c.args[1] = "send" -> "send"
               [] c.args[1] = "receive" -> "receive"
               [] OTHER -> "unary"

Connect(c) ==
  /\ cli = "idle" /\ sessions < MaxSessions
  /\ req' = [mode |-> ModeOf(c), cmd |-> c]
  /\ cli' = "reading" /\ srv' = "check" /\ sessions' = sessions + 1
  /\ pump' = IF ModeOf(c) = "receive" THEN "feeding" ELSE "none"
  /\ UNCHANGED <<fed, up, feeder, child, pipe, down, sink>>

AttachConsole ==
  /\ cli = "idle" /\ sessions < MaxSessions
  /\ req' = [mode |-> "console", cmd |-> "pty"]
  /\ cli' = "reading" /\ srv' = "check" /\ pump' = "feeding" /\ sessions' = sessions + 1
  /\ UNCHANGED <<fed, up, feeder, child, pipe, down, sink>>

\* The socket cannot be connected: the operation fails, it is never run directly instead.
BrokerDown ==
  /\ cli = "idle" /\ sessions < MaxSessions
  /\ cli' = "error" /\ srv' = "gone" /\ sessions' = sessions + 1
  /\ UNCHANGED <<req, pump, fed, up, feeder, child, pipe, down, sink>>

\* The pump reads its source to the end, or to an error, which it takes for the end.
PumpChunk ==
  /\ pump = "feeding"
  /\ \/ req.mode = "receive" /\ fed < Chunks /\ fed' = fed + 1
     \/ req.mode = "console" /\ Len(up) < Chunks /\ UNCHANGED fed
  /\ up' = Append(up, "stdin")
  /\ UNCHANGED <<req, cli, pump, brtask, down, sink, sessions>>

PumpEnd ==
  /\ pump = "feeding"
  /\ pump' = "done" /\ up' = Append(up, "eof")
  /\ UNCHANGED <<req, cli, fed, brtask, down, sink, sessions>>

\* The reply of a unary request, or a frame of a stream.
ReadFrame ==
  /\ cli = "reading" /\ down # <<>>
  /\ down' = Tail(down)
  /\ IF Head(down) = "stdout"
       THEN /\ sink' = IF req.mode = "console" THEN sink ELSE sink + 1
            /\ UNCHANGED <<cli, pump>>
       ELSE /\ cli' = CASE Head(down) \in {"ok", "exit ok"} -> "ok"
                        [] Head(down) = "not found" -> "missing"
                        [] OTHER -> "error"
            /\ pump' = IF pump = "feeding" THEN "done" ELSE pump
            /\ UNCHANGED sink
  /\ UNCHANGED <<req, fed, up, brtask, sessions>>

\* The broker closed the connection without a terminal frame.
ReadLost ==
  /\ cli = "reading" /\ down = <<>> /\ srv = "gone"
  /\ cli' = "error" /\ pump' = IF pump = "feeding" THEN "done" ELSE pump
  /\ UNCHANGED <<req, fed, up, brtask, down, sink, sessions>>

\* The backend gives up: a unary deadline, a sink that cannot be written, the end of the process.
GiveUp ==
  /\ cli = "reading"
  /\ cli' = "error" /\ pump' = IF pump = "feeding" THEN "done" ELSE pump
  /\ UNCHANGED <<req, fed, up, brtask, down, sink, sessions>>

\* Both ends are finished, and so are their tasks: the connection is forgotten.
Closed ==
  /\ cli \in {"ok", "missing", "error"} /\ srv = "gone" /\ pump # "feeding" /\ feeder # "feeding"
  /\ req' = NoRequest /\ cli' = "idle" /\ pump' = "none" /\ fed' = 0
  /\ up' = <<>> /\ srv' = "none" /\ feeder' = "none" /\ child' = NoChild
  /\ pipe' = 0 /\ down' = <<>> /\ sink' = 0
  /\ UNCHANGED sessions

-----------------------------------------------------------------------------
(* The broker.                                                                *)

ClientGone == cli \in {"ok", "missing", "error"}

\* One frame to the client; writing to a closed connection fails and ends the task.
Send(f, to) == IF ClientGone THEN srv' = "gone" /\ UNCHANGED down
                             ELSE srv' = to /\ down' = Append(down, f)

\* A console request is checked by its /dev/pts path, which the backend has checked as well.
Accepted == IF req.mode = "console" THEN TRUE ELSE Accepts(req.cmd)

Validate ==
  /\ srv = "check" /\ ~Accepted
  /\ Send("refused", "gone")
  /\ UNCHANGED <<req, brcli, up, feeder, child, pipe, sessions>>

Spawn ==
  /\ srv = "check" /\ Accepted
  /\ srv' = "run" /\ child' = [NoChild EXCEPT !.st = "running"]
  /\ feeder' = IF req.mode \in {"receive", "console"} THEN "feeding" ELSE "none"
  /\ UNCHANGED <<req, brcli, up, pipe, down, sessions>>

SpawnFails(missing) ==
  /\ srv = "check" /\ Accepted
  /\ Send(CASE req.mode # "unary" -> "exit bad" [] missing -> "not found" [] OTHER -> "failed", "gone")
  /\ UNCHANGED <<req, brcli, up, feeder, child, pipe, sessions>>

\* feed_stdin, feed_console: a frame for the child, which may leave it waiting, or the end of
\* its input (eof, or the client gone) or of the child.
FeedChunk ==
  /\ feeder = "feeding" /\ up # <<>> /\ Head(up) = "stdin" /\ child.st = "running"
  /\ up' = Tail(up) /\ child' = IF req.mode = "console" THEN child ELSE [child EXCEPT !.eaten = @ + 1]
  /\ UNCHANGED <<req, brcli, srv, feeder, pipe, down, sessions>>

FeedEnds ==
  /\ feeder = "feeding"
  /\ \/ up # <<>> /\ (Head(up) = "eof" \/ child.st # "running")
     \/ up = <<>> /\ ClientGone
  /\ feeder' = "done"
  /\ UNCHANGED <<req, brcli, up, srv, child, pipe, down, sessions>>

\* stdin_task.abort() of a console
AbortFeeder == feeder' = IF req.mode = "console" /\ feeder = "feeding" THEN "done" ELSE feeder

ReadStdout ==
  /\ srv = "run" /\ req.mode # "unary" /\ pipe > 0
  /\ pipe' = pipe - 1
  /\ Send("stdout", "run")
  /\ child' = IF ClientGone /\ child.st = "running" THEN [child EXCEPT !.st = "killed"] ELSE child
  /\ IF ClientGone THEN AbortFeeder ELSE UNCHANGED feeder
  /\ UNCHANGED <<req, brcli, up, sessions>>

\* The child's stdout is at its end: wait for the status and send the terminal frame. A
\* console session aborts its stdin task, a streamed exec joins it; when the frame cannot be
\* written the task is left to find the client gone.
Finished_Early(to) ==
  /\ srv = "run" /\ child.st \in {"ok", "failed", "killed"}
  /\ Send(IF req.mode = "unary" THEN IF child.st = "ok" THEN "ok" ELSE "failed"
          ELSE IF child.st = "ok" \/ req.mode = "console" THEN "exit ok" ELSE "exit bad", to)
  /\ IF ClientGone THEN UNCHANGED feeder ELSE AbortFeeder
  /\ UNCHANGED <<req, brcli, up, child, pipe, sessions>>

Finished(to) ==
  /\ srv = "run" /\ child.st \in {"ok", "failed", "killed"} /\ pipe = 0
  /\ Send(IF req.mode = "unary" THEN IF child.st = "ok" THEN "ok" ELSE "failed"
          ELSE IF child.st = "ok" \/ req.mode = "console" THEN "exit ok" ELSE "exit bad", to)
  /\ IF ClientGone THEN UNCHANGED feeder ELSE AbortFeeder
  /\ UNCHANGED <<req, brcli, up, child, pipe, sessions>>

\* The deadline of the exec, whatever the child writes; or the idle window of a console, which
\* begins anew with each output.
TimeOut_Disarmed(to) ==
  /\ srv = "run" /\ child.st = "running" /\ req.mode = "unary"
  /\ child' = [child EXCEPT !.st = "killed"]
  /\ Send("failed", to)
  /\ IF ClientGone THEN UNCHANGED feeder ELSE AbortFeeder
  /\ UNCHANGED <<req, brcli, up, pipe, sessions>>

TimeOut(to) ==
  /\ srv = "run" /\ child.st = "running"
  /\ req.mode = "console" => pipe = 0
  /\ child' = [child EXCEPT !.st = "killed"]
  /\ Send(CASE req.mode = "unary" -> "failed" [] req.mode = "console" -> "exit ok"
            [] OTHER -> "exit bad", to)
  /\ IF ClientGone THEN UNCHANGED feeder ELSE AbortFeeder
  /\ UNCHANGED <<req, brcli, up, pipe, sessions>>

\* The broker process ends: its connections are dropped as they are.
BrokerDies ==
  /\ srv \in {"check", "run", "join"}
  /\ srv' = "gone" /\ feeder' = IF feeder = "feeding" THEN "done" ELSE feeder
  /\ UNCHANGED <<req, brcli, up, child, pipe, down, sessions>>

AfterLoop == IF req.mode = "receive" THEN "join" ELSE "gone"

JoinFeeder ==
  /\ srv = "join" /\ feeder = "done"
  /\ srv' = "gone"
  /\ UNCHANGED <<req, brcli, up, feeder, child, pipe, down, sessions>>

-----------------------------------------------------------------------------
(* The child (outside the repository). zfs send writes a stream and may fail *)
(* at any point; zfs receive succeeds on a whole stream only; a console      *)
(* ends when the guest goes away. A child closes its stdout by exiting only.  *)

ChildWrites ==
  /\ child.st = "running"
  /\ \/ req.mode = "send" /\ child.out < Chunks /\ child' = [child EXCEPT !.out = @ + 1]
     \/ req.mode = "console" /\ pipe + Len(down) < Chunks /\ UNCHANGED child
  /\ pipe' = pipe + 1
  /\ UNCHANGED <<req, brcli, up, srv, feeder, down, sessions>>

ChildEnds(st) ==
  /\ child.st = "running" /\ st \in {"ok", "failed"}
  /\ st = "ok" => CASE req.mode = "send" -> child.out = Chunks
                    [] req.mode = "receive" -> feeder = "done" /\ child.eaten = Chunks
                    [] OTHER -> TRUE
  /\ child' = [child EXCEPT !.st = st]
  /\ UNCHANGED <<req, brcli, up, srv, feeder, pipe, down, sessions>>

BrNext ==
  \/ \E c \in Surface : Connect(c)
  \/ AttachConsole \/ BrokerDown
  \/ PumpChunk \/ PumpEnd \/ ReadFrame \/ ReadLost \/ GiveUp \/ Closed
  \/ Validate \/ Spawn \/ SpawnFails(TRUE) \/ SpawnFails(FALSE)
  \/ FeedChunk \/ FeedEnds \/ ReadStdout \/ Finished(AfterLoop) \/ TimeOut(AfterLoop) \/ JoinFeeder
  \/ BrokerDies \/ ChildWrites \/ ChildEnds("ok") \/ ChildEnds("failed")

\* The tasks of both processes run on, and a timer that is due fires: that of a console only if
\* there is no output for ever. The source of a pump, the child, which need not take what the
\* feeder has for it, and the backend's patience are nobody's obligation.
BrSpec ==
  /\ BrInit /\ [][BrNext]_brvars
  /\ WF_brvars(Validate \/ Spawn) /\ WF_brvars(FeedEnds)
  /\ WF_brvars(ReadStdout \/ Finished(AfterLoop))
  /\ WF_brvars(TimeOut(AfterLoop)) /\ WF_brvars(JoinFeeder)
  /\ WF_brvars(ReadFrame \/ ReadLost) /\ WF_brvars(Closed)

-----------------------------------------------------------------------------

\* A streamed command that reports success has moved the whole stream: zfs send exited with 0
\* and everything it wrote reached the file; zfs receive took every chunk of it.
StreamOkIsWhole ==
  cli = "ok" => /\ req.mode = "send"    => child.st = "ok" /\ sink = Chunks
                /\ req.mode = "receive" => child.st = "ok" /\ child.eaten = Chunks

\* A session always comes to an end on both sides, even when the child hangs, the source of
\* the pump never delivers, or the backend goes away, and no task of the broker is left waiting;
\* a console that goes on for ever is one that has output again and again (server.rs
\* stream_exec, stream_console, stream_lxc_console: "an actively-used console must not be
\* dropped mid-session, but one with no output for the whole window is reclaimed").
SessionEnds ==
  /\ req.mode \notin {"none", "console"} ~> req.mode = "none"
  /\ []<>(req.mode # "console") \/ []<><<ReadStdout>>_brvars
=============================================================================
