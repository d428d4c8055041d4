----------------------------- MODULE InGameJoin -----------------------------
(***************************************************************************)
(* Joining a network game that is under way.  A client that connects to an *)
(* open slot sees the lobby of the running game and asks to be launched;   *)
(* the server then pauses the game for all (a join pause), saves it, tells *)
(* the client that the saved game can be fetched, lets it catch up through *)
(* two Ready messages and resumes the game.                                *)
(*                                                                         *)
(* Abstractions.                                                           *)
(*   - A frame of this module is a keyframe of Lockstep: worlds move only  *)
(*     from one to the next, and the server broadcasts one list at each.   *)
(*   - A world is its frame and the lists given to it.                     *)
(*   - While the game is paused the server broadcasts for the same frame   *)
(*     again and again; the empty ones of these change nothing and are     *)
(*     left out.                                                           *)
(*   - A client that is not in the game reads command lists and drops them *)
(*     (updateLobby, waitUntilReady), and it is in the game with the Ready *)
(*     that makes its slot ready, so a list is put into the channel of a   *)
(*     ready slot only.                                                    *)
(*   - The automatic pause of LagControl, the only reason why a frame may    *)
(*     have no list (Lockstep's SkipFrame), is left out: a client waits for  *)
(*     the list of every frame.                                              *)
(*   - A player is as good as its UUID, and there are as many as slots.     *)
(*   - Slots as the index of other variables are positions in `slots'; the   *)
(*     objects that switchSlot exchanges take their fields, their connection *)
(*     and their client with them.                                           *)
(***************************************************************************)
EXTENDS Naturals, Sequences, SequencesExt, Lists

CONSTANTS Slot,       \* the slots clients can connect to
          Veteran,    \* slots whose client is in the game from its start
          MaxIdle,    \* bound: frames without a command
          MaxLists,   \* bound: lists the server broadcasts
          MaxConnect, \* bound: connections made after the start
          MaxHostOrder,   \* bound: orders given by the host
          MaxClientOrder, \* bound: orders given on the clients
          MaxToggle   \* bound: uses of the host's pause menu

ASSUME SlotAssumption == Slot \subseteq Nat \ {0}
ASSUME VeteranAssumption == Veteran \subseteq Slot

\* An order of the host and one of a client differ in who gives them.
Orders == {"order", "clientOrder"}
Cmd == Orders \cup {"pause", "resume", "joinPause", "joinResume"}

VARIABLES
    connected,  \* ConnectionSlot::isConnected
    ready,      \* ConnectionSlot::ready
    joining,    \* joinGameInProgress
    launch,     \* startInGameConnectionLaunch
    setup,      \* pauseForInGameConnection
    unPause,    \* unPauseForInGameConnection
    sentSave,   \* sentSavedGameInfo
    uuid,       \* playerUUID, which outlives the connection; None: empty
    moveTo,     \* the slot found by findSlotForUUID and not yet switched to
    toServer,   \* messages under way from a client to its slot
    toClient,   \* Ready messages and command lists under way to a client
    stage,      \* where a client is on its way into the game
    granted,    \* ClientInterface::readyForInGameJoin
    world,      \* the game of every client that is in it
    game,       \* the server's game
    at,         \* where the server is in Game::update
    requested,  \* the server's requestedCommands
    log,        \* the command lists broadcast so far
    saved,      \* the saved game clients fetch
    budget      \* what is left of the bounds

flags == <<connected, ready, joining, launch, setup, unPause, sentSave>>
wires == <<toServer, toClient>>
peers == <<stage, granted, world>>
host  == <<game, at, requested, log, saved>>
who   == <<uuid, moveTo>>
vars  == <<flags, who, wires, peers, host, budget>>

\* No player, or no slot.
None == 0

Stage == {"out", "connecting", "lobby", "launched", "barrier", "playing"}

NoGame == [frame |-> 0, given |-> <<>>, cached |-> <<>>, passed |-> FALSE,
           paused |-> FALSE, forJoin |-> FALSE]

Init ==
    /\ connected = [s \in Slot |-> s \in Veteran]
    /\ ready     = [s \in Slot |-> s \in Veteran]
    /\ joining   = [s \in Slot |-> FALSE]
    /\ launch    = [s \in Slot |-> FALSE]
    /\ setup     = [s \in Slot |-> FALSE]
    /\ unPause   = [s \in Slot |-> FALSE]
    /\ sentSave  = [s \in Slot |-> FALSE]
    /\ uuid      = [s \in Slot |-> IF s \in Veteran THEN s ELSE None]
    /\ moveTo    = [s \in Slot |-> None]
    /\ toServer  = [s \in Slot |-> <<>>]
    /\ toClient  = [s \in Slot |-> <<>>]
    /\ stage     = [s \in Slot |-> IF s \in Veteran THEN "playing" ELSE "out"]
    /\ granted   = [s \in Slot |-> FALSE]
    /\ world     = [s \in Slot |-> [NoGame EXCEPT !.passed = s \in Veteran]]
    /\ game = [frame |-> 0, paused |-> FALSE, forJoin |-> FALSE, before |-> FALSE,
               pauseSent |-> FALSE, resumeSent |-> FALSE]
    /\ at = "update"
    /\ requested = <<>>
    /\ log = <<>>
    /\ saved = [frame |-> 0, given |-> 0]
    /\ budget = [connect |-> MaxConnect, toggle |-> MaxToggle, idle |-> MaxIdle,
                 hostOrder |-> MaxHostOrder, clientOrder |-> MaxClientOrder]

-----------------------------------------------------------------------------
(***************************************************************************)
(* Game::setPaused, as nctPauseResume calls it.                            *)
(***************************************************************************)
IsJoin(cmd)   == cmd \in {"joinPause", "joinResume"}
IsPause(cmd)  == cmd \in {"pause", "joinPause"}

\* On the server a pause or resume is ignored during a join pause while a
\* client is connected and not ready.
Refused(g, cmd) == /\ g.forJoin
                   /\ ~IsJoin(cmd)
                   /\ \E s \in Slot : connected[s] /\ ~ready[s]

ServerPaused(g, cmd) ==
    IF cmd \in Orders \/ Refused(g, cmd) THEN g
    ELSE IF IsPause(cmd)
    THEN [g EXCEPT !.before = IF IsJoin(cmd) THEN g.paused ELSE @,
                   !.paused = TRUE, !.forJoin = IsJoin(cmd), !.pauseSent = FALSE]
    ELSE [g EXCEPT !.paused = FALSE, !.forJoin = FALSE, !.before = FALSE]

\* Mutant of ClientPaused: a resume takes the join pause away only.
ClientPausedStill(g, cmd) ==
    IF cmd \in Orders THEN g
    ELSE IF IsPause(cmd) THEN [g EXCEPT !.paused = TRUE, !.forJoin = IsJoin(cmd)]
    ELSE [g EXCEPT !.forJoin = FALSE]

\* Clients obey in any case.
ClientPaused(g, cmd) ==
    IF cmd \in Orders THEN g
    ELSE IF IsPause(cmd) THEN [g EXCEPT !.paused = TRUE, !.forJoin = IsJoin(cmd)]
    ELSE [g EXCEPT !.paused = FALSE, !.forJoin = FALSE]

-----------------------------------------------------------------------------
(***************************************************************************)
(* The threads of the slots and the clients that are not in the game.      *)
(***************************************************************************)

\* ConnectionSlot::update takes a connection from the listening socket.
Accept(s) ==
    /\ ~connected[s]
    /\ moveTo[s] = None
    /\ budget.connect > 0
    /\ budget' = [budget EXCEPT !.connect = @ - 1]
    /\ connected' = [connected EXCEPT ![s] = TRUE]
    /\ ready' = [ready EXCEPT ![s] = FALSE]
    /\ uuid' = [uuid EXCEPT ![s] = None]
    /\ stage' = [stage EXCEPT ![s] = "connecting"]
    /\ UNCHANGED <<joining, launch, setup, unPause, sentSave, moveTo, wires, granted,
                   world, host>>

\* findSlotForUUID: of the slots without a connection the first that had the player.
SlotsLeftBy(p) == {t \in Slot : ~connected[t] /\ uuid[t] = p}
FindSlotForUUID(p) == IF SlotsLeftBy(p) = {} THEN None ELSE Min(SlotsLeftBy(p))

\* Case nmtIntro: the game has been initiated, so the client is joining it.  The flags
\* of the join are those of the slot the player had before, if there is one.
SlotIntro(s) ==
    \E p \in Slot :
        LET old  == FindSlotForUUID(p)
            slot == IF old = None THEN s ELSE old
        IN  /\ stage[s] = "connecting"
            /\ \A t \in Slot \ {s} : connected[t] => uuid[t] # p
            /\ stage' = [stage EXCEPT ![s] = "lobby"]
            /\ uuid' = [uuid EXCEPT ![s] = p]
            /\ moveTo' = [moveTo EXCEPT ![s] = old]
            /\ joining' = [joining EXCEPT ![slot] = TRUE]
            /\ ready' = [ready EXCEPT ![slot] = FALSE]
            /\ sentSave' = [sentSave EXCEPT ![slot] = FALSE]
            /\ setup' = [setup EXCEPT ![slot] = TRUE]
            /\ UNCHANGED <<connected, launch, unPause, wires, granted, world, host, budget>>

\* Mutant of SwitchSlot: whether somebody has connected meanwhile is not looked at.
SwitchSlotBlindly(s) ==
    LET t == moveTo[s]
        Other(x)   == IF x = s THEN t ELSE IF x = t THEN s ELSE x
        Swapped(f) == [x \in Slot |-> f[Other(x)]]
    IN  /\ t # None
        /\ moveTo' = [x \in Slot |-> IF x = t THEN None ELSE Other(moveTo[Other(x)])]
        /\ connected' = Swapped(connected)
        /\ ready' = Swapped(ready)
        /\ joining' = Swapped(joining)
        /\ launch' = Swapped(launch)
        /\ setup' = Swapped(setup)
        /\ unPause' = Swapped(unPause)
        /\ sentSave' = Swapped(sentSave)
        /\ uuid' = Swapped(uuid)
        /\ toServer' = Swapped(toServer)
        /\ toClient' = Swapped(toClient)
        /\ stage' = Swapped(stage)
        /\ granted' = Swapped(granted)
        /\ world' = Swapped(world)
        /\ UNCHANGED <<host, budget>>

\* switchSlot: the two ConnectionSlots change places, if nobody has connected to the
\* other meanwhile.
SwitchSlot(s) ==
    LET t == moveTo[s]
        Other(x)   == IF x = s THEN t ELSE IF x = t THEN s ELSE x
        Swapped(f) == [x \in Slot |-> f[Other(x)]]
    IN  /\ t # None
        /\ IF connected[t]
              THEN /\ moveTo' = [moveTo EXCEPT ![s] = None]
                   /\ UNCHANGED <<flags, uuid, wires, peers>>
              ELSE /\ moveTo' = [x \in Slot |-> IF x = t THEN None
                                               ELSE Other(moveTo[Other(x)])]
                   /\ connected' = Swapped(connected)
                   /\ ready' = Swapped(ready)
                   /\ joining' = Swapped(joining)
                   /\ launch' = Swapped(launch)
                   /\ setup' = Swapped(setup)
                   /\ unPause' = Swapped(unPause)
                   /\ sentSave' = Swapped(sentSave)
                   /\ uuid' = Swapped(uuid)
                   /\ toServer' = Swapped(toServer)
                   /\ toClient' = Swapped(toClient)
                   /\ stage' = Swapped(stage)
                   /\ granted' = Swapped(granted)
                   /\ world' = Swapped(world)
        /\ UNCHANGED <<host, budget>>

\* ConnectionSlot::close, after which nothing is left of the client but its UUID.
Close(s) ==
    /\ connected' = [connected EXCEPT ![s] = FALSE]
    /\ ready' = [ready EXCEPT ![s] = FALSE]
    /\ joining' = [joining EXCEPT ![s] = FALSE]
    /\ setup' = [setup EXCEPT ![s] = FALSE]
    /\ unPause' = [unPause EXCEPT ![s] = FALSE]
    /\ sentSave' = [sentSave EXCEPT ![s] = FALSE]
    /\ toServer' = [toServer EXCEPT ![s] = <<>>]
    /\ toClient' = [toClient EXCEPT ![s] = <<>>]
    /\ stage' = [stage EXCEPT ![s] = "out"]
    /\ granted' = [granted EXCEPT ![s] = FALSE]
    /\ world' = [world EXCEPT ![s] = NoGame]
    /\ UNCHANGED <<launch, who>>

\* The connection of a client breaks, or the client leaves.
Disconnect(s) ==
    /\ connected[s]
    /\ Close(s)
    /\ UNCHANGED <<host, budget>>

\* The player wants to play: ClientInterface::broadcastGameStart.
Launch(s) ==
    /\ stage[s] = "lobby"
    /\ stage' = [stage EXCEPT ![s] = "launched"]
    /\ toServer' = [toServer EXCEPT ![s] = Append(@, "launch")]
    /\ UNCHANGED <<flags, who, toClient, granted, world, host, budget>>

\* ConnectionSlot::update, cases nmtLaunch, nmtReady and nmtCommandList; a
\* command goes on to requestedCommands with the next Game::update.
SlotReceive(s) ==
    /\ connected[s]
    /\ moveTo[s] = None
    /\ toServer[s] # <<>>
    /\ toServer' = [toServer EXCEPT ![s] = Tail(@)]
    /\ \/ /\ Head(toServer[s]) = "launch"
          /\ joining[s]
          /\ launch' = [launch EXCEPT ![s] = TRUE]
          /\ UNCHANGED <<connected, ready, joining, setup, unPause, sentSave,
                         toClient, requested>>
       \/ /\ Head(toServer[s]) = "ready"
          /\ joining[s]
          /\ toClient' = [toClient EXCEPT ![s] = Append(@, 0)]
          /\ ready' = [ready EXCEPT ![s] = TRUE]
          /\ joining' = [joining EXCEPT ![s] = FALSE]
          /\ sentSave' = [sentSave EXCEPT ![s] = FALSE]
          /\ UNCHANGED <<connected, launch, setup, unPause, requested>>
       \/ /\ Head(toServer[s]) = "ready"
          /\ ~joining[s]
          /\ unPause' = [unPause EXCEPT ![s] = TRUE]
          /\ UNCHANGED <<connected, ready, joining, launch, setup, sentSave,
                         toClient, requested>>
       \/ /\ Head(toServer[s]) \in Cmd
          /\ requested' = Append(requested, Head(toServer[s]))
          /\ UNCHANGED <<flags, toClient>>
    /\ UNCHANGED <<who, peers, game, at, log, saved, budget>>

\* Case nmtLaunch on a slot that is not marked as joining: "Client has invalid admin
\* sessionid", and the connection is closed.
RefuseLaunch(s) ==
    /\ connected[s]
    /\ moveTo[s] = None
    /\ toServer[s] # <<>>
    /\ Head(toServer[s]) = "launch"
    /\ ~joining[s]
    /\ Close(s)
    /\ UNCHANGED <<host, budget>>

\* ClientInterface::updateLobby, case nmtReady: the saved game can be fetched.
LobbyReady(s) ==
    /\ stage[s] \in {"lobby", "launched"}
    /\ toClient[s] # <<>>
    /\ toClient' = [toClient EXCEPT ![s] = Tail(@)]
    /\ granted' = [granted EXCEPT ![s] = TRUE]
    /\ UNCHANGED <<flags, who, toServer, stage, world, host, budget>>

\* MenuStateConnectedGame::update and Game::loadGame; ClientInterface::
\* waitUntilReady tells the server.
Load(s) ==
    /\ stage[s] = "launched"
    /\ granted[s]
    /\ stage' = [stage EXCEPT ![s] = "barrier"]
    /\ granted' = [granted EXCEPT ![s] = FALSE]
    /\ world' = [world EXCEPT ![s] = [NoGame EXCEPT !.frame = saved.frame,
                    !.given = [i \in 1 .. saved.given |-> i], !.paused = TRUE]]
    /\ toServer' = [toServer EXCEPT ![s] = Append(@, "ready")]
    /\ UNCHANGED <<flags, who, toClient, host, budget>>

\* ClientInterface::waitUntilReady gets its answer, and Game::init ends with
\* sendResumeGameMessage.
StartPlaying(s) ==
    /\ stage[s] = "barrier"
    /\ toClient[s] # <<>>
    /\ stage' = [stage EXCEPT ![s] = "playing"]
    /\ toClient' = [toClient EXCEPT ![s] = Tail(@)]
    /\ toServer' = [toServer EXCEPT ![s] = Append(@, "ready")]
    /\ UNCHANGED <<flags, who, granted, world, host, budget>>

-----------------------------------------------------------------------------
(***************************************************************************)
(* The clients in the game.                                                *)
(***************************************************************************)

\* ClientInterface::updateFrame, case nmtCommandList.
ReceiveList(s) ==
    /\ stage[s] = "playing"
    /\ toClient[s] # <<>>
    /\ Head(toClient[s]) # 0
    /\ toClient' = [toClient EXCEPT ![s] = Tail(@)]
    /\ world' = [world EXCEPT ![s].cached = Append(@, Head(toClient[s]))]
    /\ UNCHANGED <<flags, who, toServer, stage, granted, host, budget>>

\* Any other case: "Unexpected message in client interface", and the client quits.
QuitOnReady(s) ==
    /\ stage[s] = "playing"
    /\ toClient[s] # <<>>
    /\ Head(toClient[s]) = 0
    /\ Close(s)
    /\ UNCHANGED <<host, budget>>

\* getNetworkCommand finds lists for the frame, and they are given.
Give(s) ==
    LET w     == world[s]
        due   == {n \in DOMAIN log : log[n].frame = w.frame}
        batch == Among(w.cached, due)
        cmds  == FlattenSeq([i \in DOMAIN batch |-> log[batch[i]].cmds])
    IN  /\ stage[s] = "playing"
        /\ batch # <<>>
        /\ world' = [world EXCEPT ![s] =
               [FoldLeft(ClientPaused, w, cmds) EXCEPT
                    !.given = @ \o batch,
                    !.cached = Among(@, DOMAIN log \ due),
                    !.passed = TRUE]]
        /\ UNCHANGED <<flags, who, wires, stage, granted, host, budget>>

\* Mutant of Move: the frame's commands are not waited for.
MoveAhead(s) ==
    /\ stage[s] = "playing"
    /\ ~world[s].paused
    /\ world' = [world EXCEPT ![s].frame = @ + 1, ![s].passed = FALSE]
    /\ UNCHANGED <<flags, who, wires, stage, granted, host, budget>>

\* World::update.
Move(s) ==
    /\ stage[s] = "playing"
    /\ world[s].passed
    /\ ~world[s].paused
    /\ world' = [world EXCEPT ![s].frame = @ + 1, ![s].passed = FALSE]
    /\ UNCHANGED <<flags, who, wires, stage, granted, host, budget>>

\* A player on a client gives an order: Commander::tryGiveCommand does nothing
\* while network commands are paused (pauseNetworkCommands).
ClientOrder(s) ==
    /\ stage[s] = "playing"
    /\ budget.clientOrder > 0
    /\ ~world[s].forJoin
    /\ budget' = [budget EXCEPT !.clientOrder = @ - 1]
    /\ toServer' = [toServer EXCEPT ![s] = Append(@, "clientOrder")]
    /\ UNCHANGED <<flags, who, toClient, peers, host>>

-----------------------------------------------------------------------------
(***************************************************************************)
(* The server's game thread.                                               *)
(***************************************************************************)

\* Mutant of HostOrder: orders are taken during a join pause, too.
HostOrderWhileJoining ==
    /\ budget.hostOrder > 0
    /\ budget' = [budget EXCEPT !.hostOrder = @ - 1]
    /\ requested' = Append(requested, "order")
    /\ UNCHANGED <<flags, who, wires, peers, game, at, log, saved>>

\* The host gives an order, through the same tryGiveCommand.
HostOrder ==
    /\ budget.hostOrder > 0
    /\ ~game.forJoin
    /\ budget' = [budget EXCEPT !.hostOrder = @ - 1]
    /\ requested' = Append(requested, "order")
    /\ UNCHANGED <<flags, who, wires, peers, game, at, log, saved>>

\* The host's menu: tryPauseGame(false,false) or tryResumeGame(false,false).
HostToggle ==
    /\ budget.toggle > 0
    /\ budget' = [budget EXCEPT !.toggle = @ - 1]
    /\ requested' = Append(requested, IF game.paused THEN "resume" ELSE "pause")
    /\ UNCHANGED <<flags, who, wires, peers, game, at, log, saved>>

\* Game::update at a keyframe, to which the world moves unless the game is
\* paused: the server broadcasts its requested commands and gives them.
ServerFrame ==
    LET cmds == Reverse(requested)
        f    == IF game.paused THEN game.frame ELSE game.frame + 1
        g    == FoldLeft(ServerPaused, [game EXCEPT !.frame = f], cmds)
    IN  /\ at = "update"
        /\ at' = "join"
        /\ game' = g
        /\ requested' = <<>>
        /\ IF game.paused /\ cmds = <<>>
              THEN UNCHANGED <<log, toClient>>
              ELSE /\ Len(log) < MaxLists
                   /\ log' = Append(log, [frame |-> f, cmds |-> cmds, paused |-> g.paused,
                                           forJoin |-> g.forJoin])
                   /\ toClient' = [s \in Slot |->
                          IF ready[s] THEN Append(toClient[s], Len(log) + 1)
                                      ELSE toClient[s]]
        /\ IF cmds = <<>> /\ ~game.paused
              THEN budget.idle > 0 /\ budget' = [budget EXCEPT !.idle = @ - 1]
              ELSE UNCHANGED budget
        /\ UNCHANGED <<flags, who, toServer, peers, saved>>

\* Game::update between two keyframes.
UpdateBetweenFrames ==
    /\ at = "update"
    /\ ~game.paused
    /\ at' = "join"
    /\ UNCHANGED <<flags, who, wires, peers, game, requested, log, saved, budget>>

\* ServerInterface::getUnPauseForInGameConnection.
GetUnPauseForInGameConnection ==
    /\ \E s \in Slot : connected[s]
    /\ \A s \in Slot : connected[s] => ready[s] /\ unPause[s]

\* Mutant of AfterFlags: the launch flag is not taken away when the game is saved.
AfterFlagsKept ==
    /\ IF ~game.forJoin
          THEN at' = "update" /\ game' = [game EXCEPT !.resumeSent = FALSE]
          ELSE /\ at' = IF GetUnPauseForInGameConnection THEN "unpausing"
                        ELSE IF \E s \in Slot : joining[s] /\ launch[s] /\ ~sentSave[s]
                        THEN "saving" ELSE "update"
               /\ UNCHANGED game
    /\ UNCHANGED launch

\* What comes after the handling of the flags: the answer to a client that
\* waits for the saved game, or the end of the join pause.
AfterFlags ==
    IF ~game.forJoin
    THEN /\ at' = "update"
         /\ game' = [game EXCEPT !.resumeSent = FALSE]
         /\ UNCHANGED launch
    ELSE \/ /\ GetUnPauseForInGameConnection
            /\ at' = "unpausing"
            /\ UNCHANGED <<game, launch>>
         \/ /\ ~GetUnPauseForInGameConnection
            /\ LET waiting == {s \in Slot : joining[s] /\ launch[s] /\ ~sentSave[s]}
               IN  IF waiting = {}
                   THEN at' = "update" /\ UNCHANGED launch
                   ELSE /\ at' = "saving"
                        /\ \E s \in waiting : launch' = [launch EXCEPT ![s] = FALSE]
            /\ UNCHANGED game

\* Mutant of JoinUpdate: the launch is answered without a pause.
JoinUpdateWithoutPause ==
    /\ at = "join"
    /\ at' = IF \E s \in Slot : launch[s] THEN "saving" ELSE "update"
    /\ launch' = [s \in Slot |-> FALSE]
    /\ UNCHANGED <<connected, ready, joining, setup, unPause, sentSave, who, wires,
                   peers, game, requested, log, saved, budget>>

\* Game::update, the handling of games joined in progress.
JoinUpdate ==
    /\ at = "join"
    /\ \/ /\ \E s \in Slot : setup[s]
          /\ setup' = [s \in Slot |-> FALSE]
          /\ AfterFlags
          /\ UNCHANGED requested
       \/ /\ \A s \in Slot : ~setup[s]
          /\ \E s \in Slot : launch[s]
          /\ ~game.forJoin
          /\ ~game.pauseSent
          /\ requested' = Append(requested, "joinPause")
          /\ game' = [game EXCEPT !.pauseSent = TRUE]
          /\ at' = "update"
          /\ UNCHANGED <<setup, launch>>
       \/ /\ \A s \in Slot : ~setup[s]
          /\ (\E s \in Slot : launch[s]) => game.forJoin \/ game.pauseSent
          /\ AfterFlags
          /\ UNCHANGED <<setup, requested>>
    /\ UNCHANGED <<connected, ready, joining, unPause, sentSave, who, wires, peers,
                   log, saved, budget>>

\* The end of the join pause is requested, unless the game was paused before.
RequestResume ==
    /\ at = "unpausing"
    /\ at' = "update"
    /\ unPause' = [s \in Slot |-> FALSE]
    /\ IF ~game.before /\ ~game.resumeSent
          THEN /\ requested' = Append(requested, "joinResume")
               /\ game' = [game EXCEPT !.resumeSent = TRUE]
          ELSE UNCHANGED <<requested, game>>
    /\ UNCHANGED <<connected, ready, joining, launch, setup, sentSave, who, wires,
                   peers, log, saved, budget>>

\* Mutant of SaveGame: the game is saved for the next broadcast.
SaveGameAhead ==
    /\ at = "saving"
    /\ at' = "sending"
    /\ saved' = [frame |-> game.frame, given |-> Len(log) + 1]
    /\ UNCHANGED <<flags, who, wires, peers, game, requested, log, budget>>

\* Game::saveGame.
SaveGame ==
    /\ at = "saving"
    /\ at' = "sending"
    /\ saved' = [frame |-> game.frame, given |-> Len(log)]
    /\ UNCHANGED <<flags, who, wires, peers, game, requested, log, budget>>

\* Every joining client that has not been told so is told to fetch it.
SendSave ==
    LET told == {s \in Slot : joining[s] /\ ~sentSave[s]}
    IN  /\ at = "sending"
        /\ at' = "update"
        /\ toClient' = [s \in Slot |-> IF s \in told /\ connected[s] THEN Append(toClient[s], 0)
                                                    ELSE toClient[s]]
        /\ sentSave' = [s \in Slot |-> sentSave[s] \/ s \in told]
        /\ UNCHANGED <<connected, ready, joining, launch, setup, unPause, who, toServer,
                       peers, game, requested, log, saved, budget>>

-----------------------------------------------------------------------------
Newcomer(s) == \/ SlotIntro(s)
               \/ SwitchSlot(s)
               \/ RefuseLaunch(s)
               \/ SlotReceive(s)
               \/ LobbyReady(s)
               \/ Load(s)
               \/ StartPlaying(s)

Play(s) == \/ ReceiveList(s)
           \/ QuitOnReady(s)
           \/ Give(s)
           \/ Move(s)

HostStep == \/ ServerFrame
            \/ UpdateBetweenFrames
            \/ JoinUpdate
            \/ RequestResume
            \/ SaveGame
            \/ SendSave

Next == \/ HostStep
        \/ HostOrder
        \/ HostToggle
        \/ \E s \in Slot : \/ Accept(s)
                           \/ Launch(s)
                           \/ Newcomer(s)
                           \/ Play(s)
                           \/ ClientOrder(s)
                           \/ Disconnect(s)

Spec == Init /\ [][Next]_vars

\* The server's main loop comes to the next keyframe, and the slots' threads
\* and the clients go on.  Nobody has to connect, launch, leave, order or use a
\* menu.
FairSpec == /\ Spec
            /\ WF_vars(HostStep) /\ SF_vars(ServerFrame)
            /\ \A s \in Slot : WF_vars(Newcomer(s)) /\ WF_vars(Play(s))

-----------------------------------------------------------------------------
\* Every variable has the type its declaration in the code gives it.
TypeOK ==
    /\ \A f \in {connected, ready, joining, launch, setup, unPause, sentSave, granted} :
           f \in [Slot -> BOOLEAN]
    /\ uuid \in [Slot -> Slot \cup {None}]
    /\ moveTo \in [Slot -> Slot \cup {None}]
    /\ toServer \in [Slot -> Seq(Cmd \cup {"launch", "ready"})]
    /\ toClient \in [Slot -> Seq(0 .. Len(log))]
    /\ stage \in [Slot -> Stage]
    /\ game \in [frame : Nat, paused : BOOLEAN, forJoin : BOOLEAN, before : BOOLEAN,
                pauseSent : BOOLEAN, resumeSent : BOOLEAN]
    /\ \A s \in Slot : /\ world[s].frame \in Nat
                       /\ world[s].given \in Seq(DOMAIN log)
                       /\ world[s].cached \in Seq(DOMAIN log)
                       /\ world[s].paused \in BOOLEAN
    /\ at \in {"update", "join", "unpausing", "saving", "sending"}
    /\ requested \in Seq(Cmd)
    /\ saved.given \in 0 .. Len(log)

HasOrder(n) == "order" \in Range(log[n].cmds)
Ordering == {n \in DOMAIN log : HasOrder(n)}

\* The worlds agree: a client in the game, from its start or joined, has been
\* given the host's orders that the server has given to its world, in the same
\* order and each once, whether through the saved game or through command lists:
\* before an order come those that came before it on the server, and no other.
WorldsAgree ==
    \A s \in Slot : stage[s] = "playing" =>
        LET given == world[s].given
        IN  \A i \in DOMAIN given : HasOrder(given[i]) =>
                {given[j] : j \in 1 .. i - 1} \cap Ordering
                    = (1 .. given[i] - 1) \cap Ordering

\* No world leaves a frame without the orders the host gave at that frame.
NothingLeftBehind ==
    \A s \in Slot : stage[s] = "playing" =>
        \A n \in Ordering :
            log[n].frame < world[s].frame => n \in Range(world[s].given)

\* While a client has the saved game and is not yet in the game, the server's
\* world does not move on.
StandsStillForNewcomer ==
    [][(\E s \in Slot : stage[s] = "barrier" /\ ~ready[s])
           => game'.frame = game.frame]_vars

\* Who is on the way into the game or in it keeps its slot until it leaves: a player that
\* returns takes its old slot only if nobody has come to it since it was found.
KeepsItsSlot ==
    [][\A s \in Slot : stage[s] \in {"barrier", "playing"}
           => stage'[s] = "out" \/ uuid'[s] = uuid[s]]_vars

\* The only client of a game has the same answer as the server to whether the game is
\* paused after the same list: "Cannot change pause state while client is joining in
\* progress game", says Game::setPaused.  Clients that play while another one joins obey
\* what the server ignores.
PauseAgrees ==
    \A s \in Slot :
        Slot = {s} /\ stage[s] = "playing" /\ world[s].given # <<>> =>
            world[s].paused = log[Last(world[s].given)].paused

\* Somebody who had the slot before launched and left: `close' keeps the flag, and once a
\* client plays nothing takes it away.
StaleLaunch(s) == launch[s] /\ budget.connect + 1 < MaxConnect

\* The only client of a game, when it joins, gets to play, unless it leaves.  And from some
\* moment on the join does not hold a game it plays: if the join pause is still there, the
\* host's own pause was there before it, or the flag of an earlier client brings it back
\* after every resume; and the client is paused exactly if the server is.  The pause waits
\* for flags that only a client that joins sets: with others in the game it lasts.
JoinCompletes ==
    \A s \in Slot : Slot = {s} =>
        /\ stage[s] = "launched" ~> stage[s] \in {"out", "playing"}
        /\ <>[](stage[s] = "playing" =>
                  /\ launch[s] => StaleLaunch(s)
                  /\ game.forJoin => game.before \/ StaleLaunch(s)
                  /\ world[s].paused = game.paused)
=============================================================================
