--------------------------- MODULE PollingServer ---------------------------
(***************************************************************************)
(* The HTTP server of require('http2'): internal/http/server.js on         *)
(* internal/net/server.js, its sockets, and the AsyncStreams that read     *)
(* them.  Repeating tasks of the scheduler drive it: one accepts, one per  *)
(* stream polls for bytes, and one, the watcher, takes requests from the   *)
(* queue, calls the program's "connect" listener, and commits what it      *)
(* wrote.  The program ends a response in that listener or from a task of  *)
(* its own, and adds and removes listeners on the server.                  *)
(*                                                                         *)
(* Bytes are counted, not named.  A request is "good" when its first line  *)
(* can be parsed and "bad" when parseRequestData() throws; text that was   *)
(* cut can be either.  NetServer is not in the repository: accept() gives  *)
(* a connected socket or an error, which changes nothing.                  *)
(***************************************************************************)
EXTENDS Integers, Sequences, Functions

CONSTANTS Sockets,      \* connections the clients may open
          MaxBytes,     \* maxBytes of an AsyncStream (1024)
          TickRequests, \* MAX_REQUESTS_HANDLED of one run of the watcher (20)
          MaxSent,      \* bound: bytes the clients send in all
          MaxStreams,   \* bound: streams opened on one socket
          HeardEvents   \* bound: the events the program listens to

VARIABLES
  listening, \* listen() was called
  ticking,   \* the watcher is scheduled
  heard,     \* listeners of each event of the server
  accepted,  \* sockets accept() returned
  wired,     \* sockets the server's own "data" listener is on
  active,    \* keys of _activeConnections
  open,      \* sockets whose output is not shut down
  sent,      \* history: bytes the clients have sent
  avail,     \* bytes in the input of each socket
  streams,   \* _bytesRead of every AsyncStream on each socket
  reqs,      \* every ClientRequest, in order of arrival, with its response
  queue,     \* _clientRequests, as indices of reqs
  loop       \* the watcher: where it is, requests taken, the one in hand

vars == <<listening, ticking, heard, accepted, wired, active, open, sent, avail,
          streams, reqs, queue, loop>>
sockVars   == <<accepted, wired, active, open, sent, avail, streams>>
serverVars == <<listening, ticking, heard>>

Events  == {"connection", "disconnected", "close", "connect"}
ReqIds  == 1..MaxSent \* a request has a byte at least
Pushed  == 1..Len(reqs)
Idle    == [at |-> "idle", i |-> 0, cur |-> 0]

PollingAssumption ==
  /\ MaxBytes \in Nat \ {0} /\ TickRequests \in Nat \ {0}
  /\ MaxSent \in Nat /\ MaxStreams \in Nat /\ HeardEvents \subseteq Events
ASSUME PollingAssumption

\* emit() calls a lone listener and none of an array, so the listener the server
\* registered itself runs only while it is the only one.
Calls(ev) == heard[ev] = 1

\* new ClientRequest(...) as an entry of the queue; turns, answers and fate are history.
NewRequest(s, kind) ==
  [sock |-> s, kind |-> kind,
   response  |-> FALSE,   \* _process() has run and the entry has a ServerResponse
   committed |-> FALSE,   \* commit() has run: _writeBuffer is gone
   ended     |-> FALSE,   \* writableEnded
   turns     |-> 0,       \* times "connect" was emitted with it
   answers   |-> 0,       \* times it was written to its socket
   fate      |-> "alive"] \* or "closed" or "dropped", when it left the queue

Init ==
  /\ listening = FALSE
  /\ ticking = TRUE
  /\ heard = [ev \in Events |-> IF ev = "connect" THEN 0 ELSE 1]
  /\ accepted = {} /\ wired = {} /\ active = {} /\ open = {}
  /\ sent = 0
  /\ avail = [s \in Sockets |-> 0]
  /\ streams = [s \in Sockets |-> << >>]
  /\ reqs = << >> /\ queue = << >>
  /\ loop = Idle

-----------------------------------------------------------------------------
(* Queue.                                                                  *)

\* Fault: the last in is the first out.
LastPop(q) == [record |-> q[Len(q)], rest |-> SubSeq(q, 1, Len(q) - 1)]

\* pop() shifts, push() appends.
QueuePop(q) == [record |-> Head(q), rest |-> Tail(q)]

-----------------------------------------------------------------------------
(* Connections and bytes.                                                  *)

Listen ==
  /\ ~listening
  /\ listening' = TRUE
  /\ UNCHANGED <<ticking, heard, sockVars, reqs, queue, loop>>

\* One run of the accepting task that finds a connection: a Socket that starts to
\* read, and "connection", whose listener puts the Socket on record.
Accept(s) ==
  /\ listening /\ loop.at = "idle" /\ s \notin accepted
  /\ accepted' = accepted \cup {s}
  /\ open' = open \cup {s}
  /\ streams' = [streams EXCEPT ![s] = <<0>>]
  /\ wired' = IF Calls("connection") THEN wired \cup {s} ELSE wired
  /\ active' = IF Calls("connection") THEN active \cup {s} ELSE active
  /\ UNCHANGED <<serverVars, sent, avail, reqs, queue, loop>>

\* External: the client sends n bytes.
Send(s, n) ==
  /\ sent + n <= MaxSent
  /\ sent' = sent + n
  /\ avail' = [avail EXCEPT ![s] = @ + n]
  /\ UNCHANGED <<serverVars, accepted, wired, active, open, streams, reqs, queue, loop>>

BytesToProcess(s) == IF avail[s] > MaxBytes THEN MaxBytes ELSE avail[s]

\* The array has the size of this read, and the offset into it is _bytesRead: a read
\* after the first is out of bounds.
Readable(s, k) == avail[s] > 0 /\ streams[s][k] = 0

\* One run of the task of a stream whose read() does not throw.  More bytes may have come
\* when the "data" listener of the socket asks canRead(); the chunk waits in the socket
\* until the input is empty, and what text it makes with those before it is left open.
\* The Java socket stays isConnected() after it is closed: the task is never skipped.
Poll(s, k, late, kind) ==
  /\ loop.at = "idle" /\ Readable(s, k)
  /\ sent + late <= MaxSent
  /\ sent' = sent + late
  /\ avail' = [avail EXCEPT ![s] = @ - BytesToProcess(s) + late]
  /\ streams' = [streams EXCEPT ![s][k] = BytesToProcess(s)]
  /\ IF avail'[s] = 0 /\ s \in wired
       THEN /\ reqs' = Append(reqs, NewRequest(s, kind))
            /\ queue' = Append(queue, Len(reqs) + 1)
       ELSE UNCHANGED <<reqs, queue>>
  /\ UNCHANGED <<serverVars, accepted, wired, active, open, loop>>

\* close() of a Socket whose output is open: "close" reaches the server's listener,
\* which emits "disconnected", whose listener forgets the socket.
Closes(s) ==
  /\ open' = open \ {s}
  /\ active' = IF Calls("disconnected") THEN active \ {s} ELSE active
  /\ UNCHANGED <<accepted, wired, sent, avail, streams>>

-----------------------------------------------------------------------------
(* The watcher.                                                            *)

Tick ==
  /\ ticking /\ loop.at = "idle" /\ queue # << >>
  /\ loop' = [Idle EXCEPT !.at = "loop"]
  /\ UNCHANGED <<serverVars, sockVars, reqs, queue>>

LoopEnds ==
  /\ loop.at = "loop"
  /\ loop.i = TickRequests \/ queue = << >>
  /\ loop' = Idle
  /\ UNCHANGED <<serverVars, sockVars, reqs, queue>>

\* An exception leaves the loop and the run of the task; the request is in no queue.
Drops(r) ==
  /\ reqs' = [reqs EXCEPT ![r].fate = "dropped"]
  /\ loop' = Idle

\* Fault: a request that cannot be parsed keeps its place until it can.
ProcessRequestInPlace ==
  /\ loop.at = "loop" /\ loop.i < TickRequests /\ queue # << >>
  /\ ~reqs[queue[1]].response
  /\ IF reqs[queue[1]].kind = "good"
       THEN /\ reqs' = [reqs EXCEPT ![queue[1]].response = TRUE]
            /\ queue' = Append(Tail(queue), queue[1])
            /\ loop' = [loop EXCEPT !.i = @ + 1]
       ELSE /\ loop' = Idle
            /\ UNCHANGED <<reqs, queue>>
  /\ UNCHANGED <<serverVars, sockVars>>

\* A request that was not processed yet goes round the queue, with a response.
ProcessRequest ==
  /\ loop.at = "loop" /\ loop.i < TickRequests /\ queue # << >>
  /\ LET r == QueuePop(queue).record rest == QueuePop(queue).rest
     IN  /\ ~reqs[r].response
         /\ IF reqs[r].kind = "good"
              THEN /\ reqs' = [reqs EXCEPT ![r].response = TRUE]
                   /\ queue' = Append(rest, r)
                   /\ loop' = [loop EXCEPT !.i = @ + 1]
              ELSE /\ queue' = rest
                   /\ Drops(r)
  /\ UNCHANGED <<serverVars, sockVars>>

\* Fault: one request too many in a run.
EmitConnectUnbounded ==
  /\ loop.at = "loop" /\ queue # << >>
  /\ reqs[queue[1]].response
  /\ reqs' = [reqs EXCEPT ![queue[1]].turns = @ + 1]
  /\ loop' = [at |-> IF Calls("connect") THEN "listener" ELSE "commit",
              i |-> loop.i + 1, cur |-> queue[1]]
  /\ queue' = Tail(queue)
  /\ UNCHANGED <<serverVars, sockVars>>

\* One that was: "connect" is emitted.
EmitConnect ==
  /\ loop.at = "loop" /\ loop.i < TickRequests /\ queue # << >>
  /\ LET r == QueuePop(queue).record
     IN  /\ reqs[r].response
         /\ reqs' = [reqs EXCEPT ![r].turns = @ + 1]
         /\ loop' = [at |-> IF Calls("connect") THEN "listener" ELSE "commit",
                     i |-> loop.i + 1, cur |-> r]
  /\ queue' = QueuePop(queue).rest
  /\ UNCHANGED <<serverVars, sockVars>>

ListenerReturns ==
  /\ loop.at = "listener"
  /\ loop' = [loop EXCEPT !.at = "commit"]
  /\ UNCHANGED <<serverVars, sockVars, reqs, queue>>

ListenerThrows ==
  /\ loop.at = "listener"
  /\ Drops(loop.cur)
  /\ UNCHANGED <<serverVars, sockVars, queue>>

\* commit() joins _writeBuffer, which it deletes: a second one throws.
CommitThrows ==
  /\ loop.at = "commit" /\ reqs[loop.cur].committed
  /\ Drops(loop.cur)
  /\ UNCHANGED <<serverVars, sockVars, queue>>

\* socket.write() throws when the output is shut down, or the connection has failed.
WriteThrows ==
  /\ loop.at = "commit" /\ ~reqs[loop.cur].committed
  /\ reqs' = [reqs EXCEPT ![loop.cur].committed = TRUE, ![loop.cur].fate = "dropped"]
  /\ loop' = Idle
  /\ UNCHANGED <<serverVars, sockVars, queue>>

\* Fault: commit() leaves the buffer where it is.
CommitKeepingBuffer ==
  LET r == loop.cur
      written == [reqs[r] EXCEPT !.answers = @ + 1]
  IN  /\ loop.at = "commit" /\ reqs[r].sock \in open
      /\ IF reqs[r].ended
           THEN /\ reqs' = [reqs EXCEPT ![r] = [written EXCEPT !.fate = "closed"]]
                /\ Closes(reqs[r].sock)
                /\ UNCHANGED queue
           ELSE /\ reqs' = [reqs EXCEPT ![r] = written]
                /\ queue' = Append(queue, r)
                /\ UNCHANGED sockVars
      /\ loop' = [loop EXCEPT !.at = "loop", !.cur = 0]
      /\ UNCHANGED serverVars

\* The response is written.  One that has not ended goes round the queue again.
Commit ==
  LET r == loop.cur
      written == [reqs[r] EXCEPT !.committed = TRUE, !.answers = @ + 1]
  IN  /\ loop.at = "commit" /\ ~reqs[r].committed /\ reqs[r].sock \in open
      /\ IF reqs[r].ended
           THEN /\ reqs' = [reqs EXCEPT ![r] = [written EXCEPT !.fate = "closed"]]
                /\ Closes(reqs[r].sock)
                /\ UNCHANGED queue
           ELSE /\ reqs' = [reqs EXCEPT ![r] = written]
                /\ queue' = Append(queue, r)
                /\ UNCHANGED sockVars
      /\ loop' = [loop EXCEPT !.at = "loop", !.cur = 0]
      /\ UNCHANGED serverVars

-----------------------------------------------------------------------------
(* The program: in its "connect" listener, or in a task of its own.        *)

ProgramRuns == loop.at \in {"idle", "listener"}

\* The requests the program got: those a "connect" listener was called with.
Known == {r \in Pushed : reqs[r].turns > 0}

\* Fault: end() that only sets the flag.
EndWithoutWrite(r) ==
  /\ ProgramRuns /\ r \in Known
  /\ ~reqs[r].ended
  /\ reqs' = [reqs EXCEPT ![r].ended = TRUE]
  /\ UNCHANGED <<serverVars, sockVars, queue, loop>>

\* response.end() writes into _writeBuffer first, and throws when there is none.
End(r) ==
  /\ ProgramRuns /\ r \in Known
  /\ ~reqs[r].committed /\ ~reqs[r].ended
  /\ reqs' = [reqs EXCEPT ![r].ended = TRUE]
  /\ UNCHANGED <<serverVars, sockVars, queue, loop>>

\* request.socket.close(), or response.close().
CloseSocket(s) ==
  /\ ProgramRuns /\ s \in open /\ \E r \in Known : reqs[r].sock = s
  /\ Closes(s)
  /\ UNCHANGED <<serverVars, reqs, queue, loop>>

\* request.socket.resume() begins a stream of its own.
Resume(s) ==
  /\ ProgramRuns /\ \E r \in Known : reqs[r].sock = s
  /\ Len(streams[s]) < MaxStreams
  /\ streams' = [streams EXCEPT ![s] = Append(@, 0)]
  /\ UNCHANGED <<serverVars, accepted, wired, active, open, sent, avail, reqs, queue, loop>>

\* server.close() emits "close", whose listener cancels the watcher; a run of the
\* watcher in progress goes on, and so does the accepting task.
CloseServer ==
  /\ ProgramRuns /\ ticking /\ Calls("close")
  /\ ticking' = FALSE
  /\ UNCHANGED <<listening, heard, sockVars, reqs, queue, loop>>

\* server.on(ev, f) and server.off(ev, f) with one function of the program.
Own(ev) == IF ev = "connect" THEN 0 ELSE 1

Hear(ev) ==
  /\ ProgramRuns /\ ev \in HeardEvents
  /\ heard[ev] = Own(ev)
  /\ heard' = [heard EXCEPT ![ev] = @ + 1]
  /\ UNCHANGED <<listening, ticking, sockVars, reqs, queue, loop>>

Unhear(ev) ==
  /\ ProgramRuns /\ ev \in HeardEvents
  /\ heard[ev] > Own(ev)
  /\ heard' = [heard EXCEPT ![ev] = @ - 1]
  /\ UNCHANGED <<listening, ticking, sockVars, reqs, queue, loop>>

-----------------------------------------------------------------------------
Watcher ==
  \/ Tick \/ LoopEnds \/ ProcessRequest \/ EmitConnect
  \/ ListenerReturns \/ ListenerThrows
  \/ CommitThrows \/ WriteThrows \/ Commit

Program ==
  \/ \E r \in Pushed : End(r)
  \/ \E s \in Sockets : CloseSocket(s) \/ Resume(s)
  \/ CloseServer
  \/ \E ev \in Events : Hear(ev) \/ Unhear(ev)

Network ==
  \/ Listen
  \/ \E s \in Sockets : Accept(s)
  \/ \E s \in Sockets, n \in 1..MaxSent : Send(s, n)
  \/ \E s \in Sockets, late \in 0..MaxSent, kind \in {"good", "bad"} :
       \E k \in DOMAIN streams[s] : Poll(s, k, late, kind)

Next == Watcher \/ Program \/ Network

Spec == Init /\ [][Next]_vars

\* The scheduler runs a repeating task again and again, and a listener of the program
\* comes to an end.
FairSpec == Spec /\ WF_vars(Watcher)
-----------------------------------------------------------------------------
(* Properties.                                                             *)

Request == [sock : Sockets, kind : {"good", "bad"}, response : BOOLEAN,
            committed : BOOLEAN, ended : BOOLEAN, turns : 0..2, answers : 0..2,
            fate : {"alive", "closed", "dropped"}]

\* Shape of the state of server, sockets and watcher.
TypeOK ==
  /\ listening \in BOOLEAN /\ ticking \in BOOLEAN
  /\ heard \in [Events -> 0..2]
  /\ accepted \subseteq Sockets /\ wired \subseteq accepted
  /\ active \subseteq wired /\ open \subseteq accepted
  /\ sent \in 0..MaxSent /\ avail \in [Sockets -> 0..sent]
  /\ streams \in [Sockets -> Seq(0..MaxBytes)]
  /\ reqs \in Seq(Request) /\ queue \in Seq(Pushed)
  /\ loop \in [at : {"idle", "loop", "listener", "commit"}, i : 0..TickRequests,
               cur : Pushed \cup {0}]

\* http/server.js:50-66: a request is written to its socket at most once, although one
\* that has not ended is served again.
AnsweredOnce == \A r \in Pushed : reqs[r].answers <= 1

\* http/server.js:40-47: the listener gets the requests in the order in which they
\* arrived, although each of them goes round the queue before.
HandledInOrder ==
  \A r \in Pushed, q \in Pushed :
    r < q /\ reqs[q].turns > 0 => ~(r \in Range(queue) /\ reqs[r].turns = 0)

\* http/server.js:36-67: whatever is thrown where, a request is in the queue (once), in
\* hand, answered and closed, or dropped, and never two of these; and a response that
\* was ended is not waiting for another turn.
Accounted ==
  /\ IsInjective(queue)
  /\ loop.cur \notin Range(queue)
  /\ \A r \in Pushed :
       reqs[r].fate = "alive" <=> r \in Range(queue) \cup {loop.cur}
  /\ \A r \in Range(queue) : ~reqs[r].ended

\* http/server.js:33-71: while the watcher is scheduled, every request leaves the queue,
\* or gets to the listener, whatever the requests before it do.
Waiting(r) == r \in Range(queue) /\ reqs[r].turns = 0
Served == \A r \in ReqIds : Waiting(r) ~> (~Waiting(r) \/ ~ticking)
=============================================================================
