---------------------------- MODULE ReadyBarrier ----------------------------
(***************************************************************************)
(* The barrier before a network game: waitUntilReady of the server and of  *)
(* its clients.  The server visits its slots one after the other, again    *)
(* and again, until it has seen every connected slot ready; then it sends  *)
(* Ready to all.  It may give up (99 seconds) or be cancelled by its user, *)
(* its clients may give up, be cut off or not have the server's data.      *)
(*                                                                         *)
(* A game that can be joined in progress keeps its free slots open in the  *)
(* meantime: the threads of the unconnected slots go on accepting clients. *)
(* The messages of such a newcomer may be read by its slot's thread or by  *)
(* the barrier.                                                            *)
(*                                                                         *)
(* Abstractions.                                                           *)
(*   - Clocks are not modelled: a party may give up whenever its code      *)
(*     looks at the clock.                                                 *)
(*   - Of the messages of the lobby only a newcomer's introduction is      *)
(*     modelled; the barrier drops the others as it drops that one.        *)
(*   - A client sends no message that the server does not expect, so the   *)
(*     server's answer to one (it gives up, as after its time) is left out.*)
(*   - A newcomer is a new player (see ConnectionSlot::update, nmtIntro,   *)
(*     for one who had a slot before).                                     *)
(***************************************************************************)
EXTENDS Naturals, Sequences

CONSTANTS N,            \* the number of slots
          Member,       \* the slots whose client was there at the launch
          AllowInGame,  \* allowInGameConnections
          Clocks,       \* whether anybody's patience may come to its end
          MayCancel,    \* EnableGameServerLoadCancel
          MaxJoin,      \* bound: connections of newcomers
          MaxStatus     \* bound: status messages

Slot == 1 .. N

ASSUME NAssumption == N \in Nat
ASSUME MemberAssumption == Member \subseteq Slot

VARIABLES
    socket,      \* a slot's socket
    ready,       \* ConnectionSlot::ready
    gotIntro,    \* ConnectionSlot::gotIntro
    joining,     \* joinGameInProgress
    started,     \* ConnectionSlotThread::gameStarted
    toServer,    \* messages under way to a slot
    toClient,    \* messages under way to its client
    stage,       \* where the client of a slot is
    granted,     \* ClientInterface::readyForInGameJoin of a newcomer
    phase,       \* where the server is
    next,        \* the slot the server visits next
    allReady,    \* the server's allReady
    cancel,      \* Logger::cancelLoading
    released,    \* the server has begun to send Ready
    budget,      \* what is left of the bounds
    sameData,    \* whether a member's data are the server's
    checks       \* NetworkConsistencyChecks of a member

slots   == <<socket, ready, gotIntro, joining, started>>
clients == <<stage, granted, sameData, checks>>
server  == <<phase, next, allReady, cancel, released>>
vars    == <<slots, clients, server, toServer, toClient, budget>>

Up(s) == socket[s] = "up"

Init ==
    /\ socket = [s \in Slot |-> IF s \in Member THEN "up" ELSE "none"]
    /\ ready = [s \in Slot |-> FALSE]
    /\ gotIntro = [s \in Slot |-> s \in Member]
    /\ joining = [s \in Slot |-> FALSE]
    /\ started = [s \in Slot |-> FALSE]
    /\ toServer = [s \in Slot |-> <<>>]
    /\ toClient = [s \in Slot |-> <<>>]
    /\ stage = [s \in Slot |-> IF s \in Member THEN "loading" ELSE "gone"]
    /\ granted = [s \in Slot |-> FALSE]
    /\ sameData \in [Member -> BOOLEAN]
    /\ checks \in [Member -> BOOLEAN]
    /\ phase = "loading"
    /\ next = 1
    /\ allReady = FALSE
    /\ cancel = FALSE
    /\ released = FALSE
    /\ budget = [join |-> MaxJoin, status |-> MaxStatus]

-----------------------------------------------------------------------------
(***************************************************************************)
(* The server: ServerInterface::waitUntilReady.                            *)
(***************************************************************************)

\* A message to all connected slots.
Broadcast(msg) ==
    toClient' = [s \in Slot |-> IF Up(s) THEN Append(toClient[s], msg) ELSE toClient[s]]

\* The world is loaded: gameHasBeenInitiated becomes true and the wait begins.
BeginWait ==
    /\ phase = "loading"
    /\ phase' = "scanning"
    /\ next' = 1
    /\ allReady' = TRUE
    /\ UNCHANGED <<slots, clients, toServer, toClient, cancel, released, budget>>

\* Mutant of VisitSlot: a slot that has nothing to say is not waited for.
VisitSlotTakesSilence ==
    /\ phase = "scanning"
    /\ next \in Slot
    /\ next' = next + 1
    /\ IF Up(next) /\ ~ready[next] /\ toServer[next] # <<>>
          THEN /\ allReady' = FALSE
               /\ toServer' = [toServer EXCEPT ![next] = Tail(@)]
               /\ IF Head(toServer[next]) = "ready"
                     THEN /\ ready' = [ready EXCEPT ![next] = TRUE]
                          /\ started' = [started EXCEPT ![next] = TRUE]
                          /\ joining' = [joining EXCEPT ![next] = FALSE]
                     ELSE UNCHANGED <<ready, started, joining>>
          ELSE UNCHANGED <<allReady, toServer, ready, started, joining>>
    /\ UNCHANGED <<socket, gotIntro, clients, phase, cancel, released, toClient, budget>>

\* Mutant of VisitSlot: any message of the lobby makes the slot ready.
VisitSlotTakesAny ==
    /\ phase = "scanning"
    /\ next \in Slot
    /\ next' = next + 1
    /\ IF Up(next) /\ ~ready[next]
          THEN /\ allReady' = FALSE
               /\ IF toServer[next] # <<>>
                     THEN /\ toServer' = [toServer EXCEPT ![next] = Tail(@)]
                          /\ ready' = [ready EXCEPT ![next] = TRUE]
                          /\ started' = [started EXCEPT ![next] = TRUE]
                          /\ joining' = [joining EXCEPT ![next] = FALSE]
                     ELSE UNCHANGED <<toServer, ready, started, joining>>
          ELSE UNCHANGED <<allReady, toServer, ready, started, joining>>
    /\ UNCHANGED <<socket, gotIntro, clients, phase, cancel, released, toClient, budget>>

\* One slot of a pass, under its mutex.  A connected slot that is not ready may
\* have a Ready message, which makes it ready for the next pass, or another
\* one, which is dropped.
VisitSlot ==
    /\ phase = "scanning"
    /\ next \in Slot
    /\ next' = next + 1
    /\ IF Up(next) /\ ~ready[next]
          THEN /\ allReady' = FALSE
               /\ \/ /\ toServer[next] = <<>>
                     /\ UNCHANGED <<toServer, ready, started, joining>>
                  \/ /\ toServer[next] # <<>>
                     /\ toServer' = [toServer EXCEPT ![next] = Tail(@)]
                     /\ IF Head(toServer[next]) = "ready"
                           THEN /\ ready' = [ready EXCEPT ![next] = TRUE]
                                /\ started' = [started EXCEPT ![next] = TRUE]
                                /\ joining' = [joining EXCEPT ![next] = FALSE]
                           ELSE UNCHANGED <<ready, started, joining>>
          ELSE UNCHANGED <<allReady, toServer, ready, started, joining>>
    /\ UNCHANGED <<socket, gotIntro, clients, phase, cancel, released, toClient, budget>>

\* Mutant of NextPass: the pass goes on behind the last slot.
NextPassRunsOn ==
    /\ phase = "scanning"
    /\ next = N + 1
    /\ ~allReady
    /\ ~cancel
    /\ next' = next + 1
    /\ allReady' = TRUE
    /\ UNCHANGED <<slots, clients, phase, cancel, released, toServer, toClient, budget>>

\* The end of a pass that has not found every slot ready: the next one begins,
\* with or without a status message to the clients.
NextPass ==
    /\ phase = "scanning"
    /\ next = N + 1
    /\ ~allReady
    /\ ~cancel
    /\ next' = 1
    /\ allReady' = TRUE
    /\ \/ UNCHANGED <<toClient, budget>>
       \/ /\ budget.status > 0
          /\ budget' = [budget EXCEPT !.status = @ - 1]
          /\ Broadcast("status")
    /\ UNCHANGED <<slots, clients, phase, cancel, released, toServer>>

\* The time is over: the function returns, and the server plays.
GiveUp ==
    /\ Clocks
    /\ phase = "scanning"
    /\ next = N + 1
    /\ ~allReady
    /\ phase' = "playing"
    /\ UNCHANGED <<slots, clients, next, allReady, cancel, released, toServer,
                   toClient, budget>>

\* The user of the server cancels the wait: the loop ends with the pass, and
\* the clients are told to quit.
Cancel ==
    /\ MayCancel
    /\ phase = "scanning"
    /\ cancel' = TRUE
    /\ UNCHANGED <<slots, clients, phase, next, allReady, released, toServer,
                   toClient, budget>>

QuitGame ==
    /\ phase = "scanning"
    /\ next = N + 1
    /\ cancel
    /\ phase' = "playing"
    /\ Broadcast("quit")
    /\ UNCHANGED <<slots, clients, next, allReady, cancel, released, toServer, budget>>

\* Every slot that was visited in the pass is ready or not connected.
BeginRelease ==
    /\ phase = "scanning"
    /\ next = N + 1
    /\ allReady
    /\ ~cancel
    /\ phase' = "releasing"
    /\ next' = 1
    /\ released' = TRUE
    /\ UNCHANGED <<slots, clients, allReady, cancel, toServer, toClient, budget>>

\* Ready goes to each connected slot.
Release ==
    /\ phase = "releasing"
    /\ next \in Slot
    /\ next' = next + 1
    /\ IF Up(next)
          THEN /\ toClient' = [toClient EXCEPT ![next] = Append(@, "ready")]
               /\ started' = [started EXCEPT ![next] = TRUE]
          ELSE UNCHANGED <<toClient, started>>
    /\ UNCHANGED <<socket, ready, gotIntro, joining, clients, phase, allReady,
                   cancel, released, toServer, budget>>

\* The server's game begins.
BeginGame ==
    /\ phase = "releasing"
    /\ next = N + 1
    /\ phase' = "playing"
    /\ UNCHANGED <<slots, clients, next, allReady, cancel, released, toServer,
                   toClient, budget>>

-----------------------------------------------------------------------------
(***************************************************************************)
(* The members: ClientInterface::waitUntilReady.                           *)
(***************************************************************************)

\* The world of a client is loaded, and it tells the server.
FinishLoading(s) ==
    /\ stage[s] = "loading"
    /\ stage' = [stage EXCEPT ![s] = "waiting"]
    /\ toServer' = [toServer EXCEPT ![s] = Append(@, "ready")]
    /\ UNCHANGED <<slots, granted, sameData, checks, server, toClient, budget>>

\* A client closes its connection, or the connection breaks.
HangUp(s) ==
    /\ stage' = [stage EXCEPT ![s] = "gone"]
    /\ socket' = [socket EXCEPT ![s] = "down"]
    /\ toServer' = [toServer EXCEPT ![s] = <<>>]

\* A waiting client reads a message.  Ready ends the wait; a client that does
\* not have the server's data and is to check them quits.
Receive(s) ==
    /\ stage[s] = "waiting"
    /\ toClient[s] # <<>>
    /\ toClient' = [toClient EXCEPT ![s] = Tail(@)]
    /\ \/ /\ Head(toClient[s]) = "status"
          /\ UNCHANGED <<stage, socket, toServer>>
       \/ /\ Head(toClient[s]) = "ready"
          /\ sameData[s] \/ ~checks[s]
          /\ stage' = [stage EXCEPT ![s] = "playing"]
          /\ UNCHANGED <<socket, toServer>>
       \/ /\ \/ Head(toClient[s]) = "quit"
             \/ Head(toClient[s]) = "ready" /\ ~sameData[s] /\ checks[s]
          /\ HangUp(s)
    /\ UNCHANGED <<ready, gotIntro, joining, started, granted, sameData, checks,
                   server, budget>>

\* Mutant of ClientGivesUp: only a server that is gone is given up.
ClientGivesUpNever(s) ==
    /\ Clocks
    /\ stage[s] = "waiting"
    /\ toClient[s] = <<>>
    /\ ~Up(s)
    /\ HangUp(s)
    /\ UNCHANGED <<ready, gotIntro, joining, started, granted, sameData, checks,
                   server, toClient, budget>>

\* Nothing to read, and the time is over.
ClientGivesUp(s) ==
    /\ Clocks
    /\ stage[s] = "waiting"
    /\ toClient[s] = <<>>
    /\ HangUp(s)
    /\ UNCHANGED <<ready, gotIntro, joining, started, granted, sameData, checks,
                   server, toClient, budget>>

\* A client leaves or its connection breaks; a waiting client that finds its
\* connection gone quits.
Leave(s) ==
    /\ stage[s] # "gone"
    /\ HangUp(s)
    /\ UNCHANGED <<ready, gotIntro, joining, started, granted, sameData, checks,
                   server, toClient, budget>>

-----------------------------------------------------------------------------
(***************************************************************************)
(* The threads of the slots, in a game that can be joined, and newcomers.  *)
(***************************************************************************)

\* A thread finds its connection broken: ConnectionSlot::close.
CloseSlot(s) ==
    /\ AllowInGame \/ started[s]
    /\ socket[s] = "down"
    /\ socket' = [socket EXCEPT ![s] = "none"]
    /\ ready' = [ready EXCEPT ![s] = FALSE]
    /\ gotIntro' = [gotIntro EXCEPT ![s] = FALSE]
    /\ joining' = [joining EXCEPT ![s] = FALSE]
    /\ UNCHANGED <<started, clients, server, toServer, toClient, budget>>

\* ConnectionSlot::update takes a connection from the listening socket.  The
\* newcomer answers the server's introduction with its own.
Accept(s) ==
    /\ AllowInGame
    /\ phase # "playing"
    /\ socket[s] = "none"
    /\ budget.join > 0
    /\ budget' = [budget EXCEPT !.join = @ - 1]
    /\ socket' = [socket EXCEPT ![s] = "up"]
    /\ ready' = [ready EXCEPT ![s] = FALSE]
    /\ gotIntro' = [gotIntro EXCEPT ![s] = FALSE]
    /\ started' = [started EXCEPT ![s] = @ \/ phase # "loading"]
    /\ stage' = [stage EXCEPT ![s] = "lobby"]
    /\ granted' = [granted EXCEPT ![s] = FALSE]
    /\ toServer' = [toServer EXCEPT ![s] = <<"intro">>]
    /\ toClient' = [toClient EXCEPT ![s] = <<>>]
    /\ UNCHANGED <<joining, sameData, checks, server>>

\* The slot's thread reads the introduction before the barrier does: the client
\* joins the game in progress.
SlotIntro(s) ==
    /\ Up(s)
    /\ started[s]
    /\ toServer[s] # <<>>
    /\ Head(toServer[s]) = "intro"
    /\ toServer' = [toServer EXCEPT ![s] = Tail(@)]
    /\ gotIntro' = [gotIntro EXCEPT ![s] = TRUE]
    /\ joining' = [joining EXCEPT ![s] = phase # "loading"]
    /\ ready' = [ready EXCEPT ![s] = FALSE]
    /\ UNCHANGED <<socket, started, clients, server, toClient, budget>>

\* validateConnection, after another message of a newcomer whose introduction
\* has been dropped and whose ten seconds are over.
CloseStranger(s) ==
    /\ Clocks
    /\ Up(s)
    /\ started[s]
    /\ ~gotIntro[s]
    /\ toServer[s] = <<>>
    /\ socket' = [socket EXCEPT ![s] = "none"]
    /\ ready' = [ready EXCEPT ![s] = FALSE]
    /\ stage' = [stage EXCEPT ![s] = "gone"]
    /\ joining' = [joining EXCEPT ![s] = FALSE]
    /\ UNCHANGED <<gotIntro, started, granted, sameData, checks, server, toServer,
                   toClient, budget>>

\* ClientInterface::updateLobby: to a newcomer Ready means that it can fetch the
\* saved game.
LobbyReceive(s) ==
    /\ stage[s] = "lobby"
    /\ toClient[s] # <<>>
    /\ toClient' = [toClient EXCEPT ![s] = Tail(@)]
    /\ \/ /\ Head(toClient[s]) = "status"
          /\ UNCHANGED <<stage, socket, toServer, granted>>
       \/ /\ Head(toClient[s]) = "ready"
          /\ granted' = [granted EXCEPT ![s] = TRUE]
          /\ UNCHANGED <<stage, socket, toServer>>
       \/ /\ Head(toClient[s]) = "quit"
          /\ HangUp(s)
          /\ UNCHANGED granted
    /\ UNCHANGED <<ready, gotIntro, joining, started, sameData, checks, server, budget>>

-----------------------------------------------------------------------------
ServerStep == \/ BeginWait
              \/ VisitSlot
              \/ NextPass
              \/ GiveUp
              \/ QuitGame
              \/ BeginRelease
              \/ Release
              \/ BeginGame

Wait(s) == \/ Receive(s)
           \/ ClientGivesUp(s)

Thread(s) == \/ CloseSlot(s)
             \/ SlotIntro(s)
             \/ CloseStranger(s)
             \/ LobbyReceive(s)

Next == \/ ServerStep
        \/ Cancel
        \/ \E s \in Slot : \/ FinishLoading(s)
                           \/ Wait(s)
                           \/ Thread(s)
                           \/ Accept(s)
                           \/ Leave(s)

Spec == Init /\ [][Next]_vars

\* Every program goes on loading and waiting.  Nobody has to cancel, connect or
\* leave.
FairSpec == /\ Spec
            /\ WF_vars(ServerStep)
            /\ \A s \in Slot : /\ WF_vars(FinishLoading(s))
                               /\ WF_vars(Wait(s))
                               /\ WF_vars(Thread(s))

-----------------------------------------------------------------------------
\* Every variable has the type its declaration in the code gives it.
TypeOK ==
    /\ socket \in [Slot -> {"none", "up", "down"}]
    /\ \A f \in {ready, gotIntro, joining, started, granted} : f \in [Slot -> BOOLEAN]
    /\ toServer \in [Slot -> Seq({"ready", "intro"})]
    /\ toClient \in [Slot -> Seq({"status", "quit", "ready"})]
    /\ stage \in [Slot -> {"loading", "waiting", "playing", "lobby", "gone"}]
    /\ phase \in {"loading", "scanning", "releasing", "playing"}
    /\ next \in 1 .. N + 1
    /\ allReady \in BOOLEAN
    /\ cancel \in BOOLEAN
    /\ released \in BOOLEAN
    /\ sameData \in [Member -> BOOLEAN]
    /\ checks \in [Member -> BOOLEAN]

\* Where a member is, as the abstract barrier sees it; the client that is at a
\* member's slot after the member has left is no member.
Where == [m \in Member |-> CASE stage[m] = "loading" -> "coming"
                             [] stage[m] = "waiting" -> "arrived"
                             [] stage[m] = "playing" -> "passed"
                             [] OTHER                -> "left"]

Gate == INSTANCE Barrier WITH where <- Where, open <- released

\* waitUntilReady is a barrier: "send ready message after, so clients start
\* delayed" - no client plays before every client of the game has loaded its
\* world or is gone.
ImplementsBarrier == Gate!Spec

\* A slot that counts as ready has a client that has said so: accepting a
\* client in the place of one that has left resets what the slot knows.
ReadyMeansLoaded ==
    \A s \in Slot : Up(s) /\ ready[s] => stage[s] \in {"waiting", "playing"}

\* Nobody waits for ever: a client that has loaded its world gets to play or
\* gives up, whatever the server and other clients do.
NobodyWaitsForEver == \A m \in Member : stage[m] = "waiting" ~> stage[m] \in {"playing", "gone"}
=============================================================================
