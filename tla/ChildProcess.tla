---------------------------- MODULE ChildProcess ----------------------------
(***************************************************************************)
(* com.cauldronjs.process.ChildProcess: a child of the operating system,   *)
(* the watcher thread that reads its two pipes, and the thread that called *)
(* spawnSync() - which joins the watcher - or spawn().                     *)
(*                                                                         *)
(* Lines are numbered per stream, so a sequence of lines shows what was    *)
(* lost.  The child and its pipes are the operating system's.              *)
(***************************************************************************)
EXTENDS Integers, Sequences, SequencesExt

CONSTANTS Capacity,  \* lines a pipe holds
          MaxOut,    \* bound: lines the child writes to stdout
          MaxErr     \* bound: lines it writes to stderr

\* A child that writes more to stderr than the pipe holds while its stdout is
\* open is never read again: the watcher waits for stdout.
ASSUME PipeAssumption ==
  /\ Capacity \in Nat \ {0} /\ MaxOut \in Nat /\ MaxErr \in 0..Capacity

VARIABLES mode,       \* "sync" for spawnSync(), "async" for spawn()
          piped,      \* the streams that are pipes; the others are inherited
          plan,       \* how many lines the child is going to write
          alive,      \* the child runs
          reaped,     \* Java knows that it exited: isAlive(), exitValue()
          open,       \* the pipes the child has not closed
          pipe,       \* the lines in each pipe
          written,    \* how many lines the child has written
          watcher,    \* where the watcher thread is
          line,       \* what it read: [from, n]
          caller,     \* where the calling thread is
          listening,  \* the stream events that have a handler
          got,        \* the lines the handlers were given
          sawDead,    \* history: the watcher left its loop because of isAlive()
          killed      \* history: kill() was called

osVars == <<plan, alive, reaped, open, pipe, written>>
processVars == <<mode, piped, osVars, watcher, line, caller, listening, got, sawDead, killed>>

Streams == {"out", "err"}
NoLine  == [from |-> "out", n |-> 0]

ProcessInit ==
  /\ mode \in {"sync", "async"}
  /\ piped \in {Streams, {}}
  /\ plan \in {p \in [Streams -> 0..(MaxOut + MaxErr)] : p["out"] <= MaxOut /\ p["err"] <= MaxErr}
  /\ alive = TRUE /\ reaped = FALSE
  /\ open = piped
  /\ pipe = [s \in Streams |-> << >>]
  /\ written = [s \in Streams |-> 0]
  /\ watcher = "new"
  /\ line = NoLine
  /\ caller = "spawn"
  /\ listening = {}
  /\ got = [s \in Streams |-> << >>]
  /\ sawDead = FALSE
  /\ killed = FALSE

-----------------------------------------------------------------------------
(* The child process *)

\* Lines to an inherited stream go elsewhere.  Once the watcher has closed its
\* readers a write fails.
ChildWrite(s) ==
  /\ alive
  /\ written[s] < plan[s]
  /\ s \in open
  /\ watcher # "ended" => Len(pipe[s]) < Capacity
  /\ written' = [written EXCEPT ![s] = @ + 1]
  /\ pipe' = IF watcher = "ended" THEN pipe ELSE [pipe EXCEPT ![s] = Append(@, written'[s])]
  /\ UNCHANGED <<mode, piped, plan, alive, reaped, open, watcher, line, caller,
                 listening, got, sawDead, killed>>

Through(s) == s \notin open \/ written[s] = plan[s]

ChildClose(s) ==
  /\ alive /\ s \in open /\ Through(s)
  /\ open' = open \ {s}
  /\ UNCHANGED <<mode, piped, plan, alive, reaped, pipe, written, watcher, line, caller,
                 listening, got, sawDead, killed>>

ChildExit ==
  /\ alive
  /\ \A s \in Streams : Through(s)
  /\ alive' = FALSE
  /\ open' = {}
  /\ UNCHANGED <<mode, piped, plan, reaped, pipe, written, watcher, line, caller,
                 listening, got, sawDead, killed>>

\* The thread of the JVM that waits for the process.
Reap ==
  /\ ~alive /\ ~reaped
  /\ reaped' = TRUE
  /\ UNCHANGED <<mode, piped, plan, alive, open, pipe, written, watcher, line, caller,
                 listening, got, sawDead, killed>>

-----------------------------------------------------------------------------
(* The watcher thread: pipeStreams() *)

\* isAlive(), the first condition of the loop
WatcherCheck ==
  /\ watcher = "check"
  /\ watcher' = IF reaped THEN "close" ELSE "readOut"
  /\ sawDead' = (sawDead \/ reaped)
  /\ UNCHANGED <<mode, piped, osVars, line, caller, listening, got, killed>>

\* Fault: the end of a pipe is waited for like the next line.
WatcherReadEndless(s, here, next) ==
  /\ watcher = here
  /\ pipe[s] # << >>
  /\ line' = [from |-> s, n |-> Head(pipe[s])]
  /\ pipe' = [pipe EXCEPT ![s] = Tail(@)]
  /\ watcher' = "emit"
  /\ UNCHANGED <<mode, piped, plan, alive, reaped, open, written, caller, listening, got,
                 sawDead, killed>>

\* readLine() blocks while the pipe is empty and open.  The second reader is
\* only tried when the first is at its end; two ends end the loop.  The test
\* for --EOF-- never does: it wants it on both streams in one turn, and a turn
\* that has a line of stdout reads none of stderr.
WatcherRead(s, here, next) ==
  /\ watcher = here
  /\ \/ /\ pipe[s] # << >>
        /\ line' = [from |-> s, n |-> Head(pipe[s])]
        /\ pipe' = [pipe EXCEPT ![s] = Tail(@)]
        /\ watcher' = "emit"
     \/ /\ pipe[s] = << >> /\ s \notin open
        /\ watcher' = next
        /\ UNCHANGED <<line, pipe>>
  /\ UNCHANGED <<mode, piped, plan, alive, reaped, open, written, caller, listening, got,
                 sawDead, killed>>

\* Fault: the loop ends with stdout (&& where the code has ||).
WatcherReadOutOnly == WatcherRead("out", "readOut", "close")

WatcherReadOut == WatcherRead("out", "readOut", "readErr")
WatcherReadErr == WatcherRead("err", "readErr", "close")

\* Fault: the line is forgotten before it is handed over.
WatcherEmitForgotten ==
  /\ watcher = "emit"
  /\ line' = NoLine
  /\ got' = IF line.from \in listening
            THEN [got EXCEPT ![line.from] = Append(@, line'.n)]
            ELSE got
  /\ watcher' = "check"
  /\ UNCHANGED <<mode, piped, osVars, caller, listening, sawDead, killed>>

\* emit(): a line nobody listens for is lost.
WatcherEmit ==
  /\ watcher = "emit"
  /\ got' = IF line.from \in listening
            THEN [got EXCEPT ![line.from] = Append(@, line.n)]
            ELSE got
  /\ line' = NoLine
  /\ watcher' = "check"
  /\ UNCHANGED <<mode, piped, osVars, caller, listening, sawDead, killed>>

WatcherClose ==
  /\ watcher = "close"
  /\ watcher' = "ended"
  /\ UNCHANGED <<mode, piped, osVars, line, caller, listening, got, sawDead, killed>>

-----------------------------------------------------------------------------
(* The calling thread *)

\* spawnSync() has both handlers in place before it starts the watcher;
\* spawn() starts it and leaves the handlers to its caller.
Spawn ==
  /\ caller = "spawn"
  /\ watcher' = "check"
  /\ IF mode = "sync"
     THEN caller' = "join" /\ listening' = Streams
     ELSE caller' = "free" /\ listening' = listening
  /\ UNCHANGED <<mode, piped, osVars, line, got, sawDead, killed>>

Listen(s) ==
  /\ caller = "free"
  /\ s \notin listening
  /\ listening' = listening \cup {s}
  /\ UNCHANGED <<mode, piped, osVars, watcher, line, caller, got, sawDead, killed>>

Join ==
  /\ caller = "join"
  /\ watcher = "ended"
  /\ caller' = "exitValue"
  /\ UNCHANGED <<mode, piped, osVars, watcher, line, listening, got, sawDead, killed>>

\* exitValue() throws when the process is not known to have exited.
ExitValue ==
  /\ caller = "exitValue"
  /\ caller' = IF reaped THEN "returned" ELSE "threw"
  /\ UNCHANGED <<mode, piped, osVars, watcher, line, listening, got, sawDead, killed>>

\* kill(): destroyForcibly(), then waitFor().
Kill ==
  /\ caller = "free" /\ ~killed
  /\ killed' = TRUE
  /\ alive' = FALSE
  /\ open' = {}
  /\ caller' = "waitFor"
  /\ UNCHANGED <<mode, piped, plan, reaped, pipe, written, watcher, line, listening, got,
                 sawDead>>

Waited ==
  /\ caller = "waitFor" /\ reaped
  /\ caller' = "free"
  /\ UNCHANGED <<mode, piped, osVars, watcher, line, listening, got, sawDead, killed>>

Child   == (\E s \in Streams : ChildWrite(s) \/ ChildClose(s)) \/ ChildExit
Watcher == WatcherCheck \/ WatcherReadOut \/ WatcherReadErr \/ WatcherEmit \/ WatcherClose
Caller  == Spawn \/ Join \/ ExitValue \/ Waited

ProcessNext ==
  \/ Child
  \/ Reap
  \/ Watcher
  \/ Caller
  \/ \E s \in Streams : Listen(s)
  \/ Kill

ProcessSpec == ProcessInit /\ [][ProcessNext]_processVars

\* The child writes what it has to and exits, when it is not blocked; it may
\* leave its streams open until then.
ChildGoesOn == (\E s \in Streams : ChildWrite(s)) \/ ChildExit

FairSpec ==
  /\ ProcessSpec
  /\ WF_processVars(ChildGoesOn) /\ WF_processVars(Reap) /\ WF_processVars(Watcher) /\ WF_processVars(Caller)

-----------------------------------------------------------------------------
(* Properties *)

Lines == 1..(MaxOut + MaxErr)

ProcessTypeOK ==
  /\ mode \in {"sync", "async"}
  /\ piped \subseteq Streams /\ open \subseteq piped
  /\ plan \in [Streams -> Nat] /\ written \in [Streams -> Nat]
  /\ {alive, reaped, sawDead, killed} \subseteq BOOLEAN
  /\ pipe \in [Streams -> Seq(Lines)] /\ got \in [Streams -> Seq(Lines)]
  /\ watcher \in {"new", "check", "readOut", "readErr", "emit", "close", "ended"}
  /\ line \in [from : Streams, n : {0} \cup Lines]
  /\ caller \in {"spawn", "join", "exitValue", "returned", "threw", "free", "waitFor"}
  /\ listening \subseteq Streams

\* What the handlers have is a stretch of what the child wrote, in order and without gaps,
\* for spawnSync() from its first line on; a line of stderr is there only when stdout was
\* read to its end; and unless the watcher saw the process dead first, nothing is missing.
OutputArrives ==
  /\ \A s \in Streams :
       /\ \A i \in DOMAIN got[s] : got[s][i] = got[s][1] + i - 1
       /\ (mode = "sync" /\ got[s] # << >>) => got[s][1] = 1
  /\ (mode = "sync" /\ got["err"] # << >>) => Len(got["out"]) = written["out"]
  /\ (caller = "returned" /\ ~sawDead /\ piped = Streams) =>
       \A s \in Streams : Len(got[s]) = plan[s]

\* The result of spawnSync() is only built of a process that has exited, and nothing reaches
\* the handlers afterwards.
ResultIsFinal ==
  [][(caller \in {"returned", "threw"}) => ((caller = "returned" => reaped) /\ got' = got)]_processVars

\* spawnSync() comes to an end, whether it returns or exitValue() throws, and its result is
\* final; kill() comes back, and the watcher of a killed child ends.
CallsEnd ==
  /\ ResultIsFinal
  /\ (mode = "sync") ~> (caller \in {"returned", "threw"})
  /\ (caller = "waitFor") ~> (caller = "free" /\ watcher = "ended")
=============================================================================
