--------------------------- MODULE CommandExecution ---------------------------
(***************************************************************************)
(* A registered command being executed                                     *)
(* (lib/internal/cauldron/platform/spigot/command.js): who may run it, the *)
(* state a sender keeps between commands (useState) and the wait for a     *)
(* player's next chat message (nextInput), which is a once() listener of   *)
(* "playerchat" (events.js). CommandPath has which subcommand it is.       *)
(* An execution may be asynchronous: its hooks are used at any later time. *)
(***************************************************************************)
EXTENDS Integers, Sequences, FiniteSets, SequencesExt

CONSTANTS Players, Others,  \* senders: players; consoles, command blocks, ...
          Keys, Values,     \* what a state holds, and no value
          Absent,
          MaxRuns, MaxWaiting  \* bounds: executions, nextInput calls

Senders == Players \cup Others
States == [Keys -> Values \cup {Absent}]
NoState == [k \in Keys |-> Absent]

ASSUME CommandsAssumption ==
  /\ Absent \notin Values
  /\ Players \cap Others = {} /\ "console" \notin Players
  /\ MaxRuns \in Nat /\ MaxWaiting \in Nat

VARIABLES restriction,   \* of the top command
          commandState,  \* by sender id
          runs,          \* the executions: whose, and the state they began with
          listening,     \* callbacks["playerchat"]: waiting calls, 0 a script's listener
          array,         \* that array exists
          promises,      \* the nextInput calls: of which run, and what became of them
          stale,         \* history: ids whose state was set from an old copy
          stored         \* history: what the sets since the last clear add up to

conversation == <<listening, array, promises>>
states == <<commandState, stale, stored>>
vars == <<restriction, runs, conversation, states>>

\* A player's uuid; all other senders are one.
Console == "console"
getSenderId(sender) == IF sender \in Players THEN sender ELSE Console
Ids == Players \cup {Console}

Init ==
  /\ restriction \in {"none", "console", "player"}
  /\ commandState = [i \in Ids |-> NoState]
  /\ stored = [i \in Ids |-> NoState] /\ stale = {}
  /\ runs = << >> /\ promises = << >>
  /\ listening = << >> /\ array = FALSE

-----------------------------------------------------------------------------
\* The restriction and the permission asked are those of the top command.
Allowed(sender, permitted) ==
  /\ restriction = "player" => sender \in Players
  /\ restriction = "console" => sender \in Others
  /\ permitted

\* execute() of the command the words name begins, with the hooks of this execution.
Execute(sender, permitted) ==
  /\ Len(runs) < MaxRuns /\ Allowed(sender, permitted)
  /\ runs' = Append(runs, [sender |-> sender, fresh |-> TRUE, state |-> commandState[getSenderId(sender)]])
  /\ UNCHANGED <<restriction, conversation, states>>

-----------------------------------------------------------------------------
(* useState.                                                               *)

IdOf(r) == getSenderId(runs[r].sender)
Spread(state, k, v) == [state EXCEPT ![k] = v]
Replaced(state, k, v) == [NoState EXCEPT ![k] = v]
NowStale(id) == [r \in DOMAIN runs |-> IF IdOf(r) = id THEN [runs[r] EXCEPT !.fresh = FALSE] ELSE runs[r]]

\* The partial state is spread over the state the execution began with.
NextStateOnly(r, k, v) == Replaced(runs[r].state, k, v)
NextState(r, k, v) == Spread(runs[r].state, k, v)
setState(r, k, v) ==
  /\ commandState' = [commandState EXCEPT ![IdOf(r)] = NextState(r, k, v)]
  /\ stored' = [stored EXCEPT ![IdOf(r)] = Spread(@, k, v)]
  /\ stale' = IF runs[r].fresh THEN stale ELSE stale \cup {IdOf(r)}
  /\ runs' = NowStale(IdOf(r))
  /\ UNCHANGED <<restriction, conversation>>
clearState(r) ==
  /\ commandState' = [commandState EXCEPT ![IdOf(r)] = NoState]
  /\ stored' = [stored EXCEPT ![IdOf(r)] = NoState]
  /\ stale' = stale \ {IdOf(r)}
  /\ runs' = NowStale(IdOf(r))
  /\ UNCHANGED <<restriction, conversation>>

-----------------------------------------------------------------------------
(* nextInput.                                                              *)

WaitsTwice(w) == listening \o <<w, w>>
Waits(w) == Append(listening, w)

\* once() makes the array when there is none and then throws: the promise is rejected.
nextInput(r) ==
  LET promise == [run |-> r, status |-> IF array THEN "pending" ELSE "rejected",
                  ahead |-> Len(listening), missed |-> 0, heard |-> {}]
  IN /\ Len(promises) < MaxWaiting
     /\ promises' = Append(promises, promise)
     /\ listening' = IF array THEN Waits(Len(promises')) ELSE listening
     /\ array' = TRUE
     /\ UNCHANGED <<restriction, runs, states>>

\* A script's own listener, which stays; it may be cancelled.
Listen ==
  /\ 0 \notin ToSet(listening)
  /\ listening' = Append(listening, 0) /\ array' = TRUE
  /\ UNCHANGED <<restriction, runs, promises, states>>
Unlisten ==
  /\ \E i \in DOMAIN listening : listening[i] = 0 /\ listening' = RemoveAt(listening, i)
  /\ UNCHANGED <<restriction, runs, array, promises, states>>

\* invoke(): forEach over the array, from which a waiting call takes itself out when it
\* is called: the one that moves up into its place is passed over.
Turn(list, i) == IF i > Len(list) \/ list[i] = 0 THEN list ELSE RemoveAt(list, i)
Remaining(list) ==
  LET after[i \in 0..Len(list)] == IF i = 0 THEN list ELSE Turn(after[i - 1], i)
  IN  after[Len(list)]
Called == ToSet(listening) \ ToSet(Remaining(listening))
EndsWith(p, w, player) ==
  IF w \in Called /\ getSenderId(runs[p.run].sender) = player THEN "resolved" ELSE p.status
EndsForAnyone(p, w, player) == IF w \in Called THEN "resolved" ELSE p.status
Ends(p, w, player) == EndsWith(p, w, player)
Chat(player) ==
  /\ listening # << >>
  /\ listening' = Remaining(listening)
  /\ promises' = [w \in DOMAIN promises |->
       LET p == promises[w]
       IN IF w \notin ToSet(listening) THEN p
          ELSE [p EXCEPT !.status = Ends(p, w, player), !.heard = @ \cup {player},
                         !.missed = @ + 1]]
  /\ UNCHANGED <<restriction, runs, array, states>>

-----------------------------------------------------------------------------
Next ==
  \/ \E s \in Senders, permitted \in BOOLEAN : Execute(s, permitted)
  \/ \E r \in DOMAIN runs : \/ \E k \in Keys, v \in Values : setState(r, k, v)
                            \/ clearState(r) \/ nextInput(r)
  \/ Listen \/ Unlisten
  \/ \E p \in Players : Chat(p)
Spec == Init /\ [][Next]_vars

-----------------------------------------------------------------------------
Promises == [run : 1..MaxRuns, status : {"pending", "resolved", "rejected"},
             ahead : 0..MaxWaiting, missed : Nat, heard : SUBSET Players]
TypeOK ==
  /\ restriction \in {"none", "console", "player"}
  /\ commandState \in [Ids -> States] /\ stored \in [Ids -> States] /\ stale \subseteq Ids
  /\ \A r \in DOMAIN runs : runs[r].sender \in Senders /\ runs[r].state \in States
  /\ ToSet(promises) \subseteq Promises
  /\ IsInjective(listening) /\ ToSet(listening) \subseteq 0..Len(promises)

\* useState (command.js:272): a sender's state is all that was set since it was cleared,
\* unless an execution set it that had begun before another set or clear.
StateLostOnlyIfStale == \A id \in Ids : id \notin stale => commandState[id] = stored[id]

\* nextInput (command.js:281): a call is answered only after its own player spoke; one that
\* waits is in the array, or somebody else's message took it out; and a call is passed over
\* less often than there were listeners before it.
WaitersAccounted ==
  \A w \in DOMAIN promises :
    LET p == promises[w]
        own == {getSenderId(runs[p.run].sender)}
    IN /\ p.status = "resolved" => own \subseteq p.heard
       /\ p.status # "pending" => w \notin ToSet(listening)
       /\ (p.status = "pending" /\ w \notin ToSet(listening)) => p.heard \ own # {}
       /\ w \in ToSet(listening) => p.missed <= p.ahead
=============================================================================
