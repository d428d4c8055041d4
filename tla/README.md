# MegaGlest in TLA+

MegaGlest is a real-time strategy game. In a network game every computer runs
the whole simulation; what travels over the network are the orders of the
players, and everything depends on every world being given the same orders at
the same frames. This directory models that machinery and the parts of the
program around it whose correctness depends on order, threads, failure or long
sequences of steps.

## Inventory

Paths are relative to `src/source/glest_game/` unless they start with `src/`.

| Component | State | Operations | Interacts with | Hard behaviour | What makes it correct |
|---|---|---|---|---|---|
| Lockstep command distribution (`network/client_interface.cpp`, `network/server_interface.cpp`, `network/network_interface.cpp`, `game/commander.cpp`, `game/game.cpp`) | `requestedCommands`, `pendingCommands`, a slot's `vctPendingNetworkCommandList`, `cachedPendingCommands`, `cachedLastPendingFrameCount`, `World::frameCount`, `Game::paused`, faction CRCs | request, send, receive, collect, broadcast at a keyframe, look up, give, skip, pause, resume | sockets, the world, the lag control | two threads on the client, one per slot and the game loop on the server; frames without a broadcast; several broadcasts for the frame of a paused game | worlds agree; nothing is skipped; checksums match; no command is lost; clients never wait for ever |
| Ready barrier (`ServerInterface::waitUntilReady`, `ClientInterface::waitUntilReady`) | `ready` of each slot, timeouts | ready, wait, release, quit | slots, menus | timeouts, resent messages, a client that leaves | nobody starts before everybody is ready or gone |
| Lag control (`clientLagCheck`, `checkForLaggingClients`, auto pause and resume) | lag counts and times of each slot, `clientsAutoPausedDueToLag` | check, warn, disconnect, pause, resume | slots, lockstep | timers racing answers | a pause caused by lag ends |
| In-game join (`game/game.cpp` 2350-2598, `connection_slot.cpp`, `server_interface.cpp`) | the slot's join flags, `pausedForJoinGame` | connect, pause, save, send, ready, resume | lockstep, slots | a handshake over many updates with a client that may vanish | the game resumes; the newcomer starts from the paused frame |
| Lobby and slots (`connection_slot.cpp`, `server_interface.cpp`, `client_interface.cpp`) | slots, session keys, `gotIntro`, names, UUIDs | open, introduce, switch slot, synchronise data, launch, close | slot threads | slot threads switch slots themselves | one client per slot; no launch without agreement |
| Slot threads (`ConnectionSlotThread`, `ServerInterface::update`) | event lists, the slots' mutexes, `serverSynchAccessor` | signal, execute, complete, purge | everything on the server | lock order, purge while running | every event is done once; no deadlock |
| Team votes (`Commander::giveNetworkCommand`, `game/game.cpp`) | votes of each faction | request, vote, count | lockstep | members who leave, votes noted before they are given | a majority of the team decides, on every machine alike |
| File transfer (`network_interface.cpp`) | block counter, socket | ask, send, acknowledge | platform | retries | the copy equals the file |
| Threads (`src/source/shared_lib/sources/platform/common/base_thread.cpp`, `simple_threads.cpp`) | `running`, `quit`, `deleteSelfOnExecutionDone` | start, quit, shut down, delete | all threads | who deletes | deleted once, after it has ended |
| Units, commands, factions (`type_instances/`) | command queues, resources, upgrades, loads | give, cancel, finish, kill | world | long sequences of orders | resources and counts stay in balance |
| World, map, path finding (`world/`, `ai/path_finder.cpp`) | cells, units, paths | move, place, remove, update, search | units | many units and one cell | a cell has one unit per field; units are where their cells say |
| Computer players, scripts (`ai/`, `game/script_manager.cpp`) | plans, triggers | rules, Lua | world, lockstep | worker threads | they only request commands |
| Interface, menus, rendering, sound, tools | - | - | - | - | not part of the simulation |

## How the modelled parts interact

A player's order is never given to the player's own world. `Commander` puts it
into `requestedCommands`; a client sends the list to its `ConnectionSlot`, whose
thread collects it; the server's game loop gathers the lists of all slots and,
at every keyframe (`networkFramePeriod`), broadcasts what it has under the number
of the frame. All worlds, the server's included, are given the broadcast of
their frame. Everything else hangs on this channel: a pause is a command like an
order, a join in progress is a pause with a save in the middle, and the barrier
before the game makes sure that every world is there before the first frame.

| Module | Models | Extends or uses |
|---|---|---|
| `CommandLog` | what lockstep promises | - |
| `Lockstep` | command distribution and the keyframe loop | instance of `CommandLog` (`ImplementsLog`) |
| `LockstepProofs` | theorems about `Lockstep`: its log, what is left behind, where commands are, its checksums | `Lockstep` |
| `InGameJoin` | joining a game in progress | `Lists` |
| `InGameJoinProofs` | theorems about `InGameJoin` | `InGameJoin`, `ListLemmas` |
| `Barrier` | what the barrier before a game promises | - |
| `ReadyBarrier` | both `waitUntilReady` loops, newcomers | instance of `Barrier` (`ImplementsBarrier`) |
| `ReadyBarrierProofs` | theorems about `ReadyBarrier` | `ReadyBarrier` |
| `SlotThreads` | the server's main thread and the threads of its slots | `Lists` |
| `SlotThreadsProofs` | theorems about `SlotThreads` | `SlotThreads`, `ListLemmas` |
| `TeamVote` | requests to change the team and the votes about them | - |
| `TeamVoteProofs` | theorems about `TeamVote` | `TeamVote` |
| `UpgradeBook` | what the record of upgrades promises | - |
| `UpgradeManager` | the list of upgrades and its lookup | - |
| `FactionUnits` | units with their queues of commands, resources, store, limits, upgrades | instances of `UpgradeManager` and `UpgradeBook` (`ImplementsBook`) |
| `FactionUnitsProofs` | theorems about `FactionUnits` | `FactionUnits`, `ListLemmas` |
| `Board` | what the cells of the map promise | - |
| `UnitCells` | the cells of the map and the units that stand on them | instance of `Board` (`ImplementsBoard`) |
| `UnitCellsProofs` | theorems about `UnitCells` | `UnitCells` |
| `Lists` | the elements of a list that are in a set | - |
| `ListLemmas` | lemmas about lists, folds, sums over lists and least numbers | `Lists` |
| `MCLockstep`, `MCInGameJoin`, `MCReadyBarrier`, `MCSlotThreads`, `MCTeamVote`, `MCFactionUnits`, `MCUnitCells` | instances for TLC | the module of that name |

The modules meet in what they hand to each other. `SlotThreads` shows how an order
that a slot has received gets into the list that `Lockstep` broadcasts from, and how a
slot comes by the client that `InGameJoin` and `ReadyBarrier` take for granted.
`TeamVote` takes the log of `Lockstep` and the pause of `InGameJoin` and asks what two
worlds make of the same commands. `FactionUnits` and `UnitCells` are what goes on in
one world; `UnitCells` asks as well whether a client that loads the save of a join gets
the map of the others.

A definition whose comment begins with "Mutant of" is no part of the model: it
is the definition it names with a plausible mistake, and the property that
catches the mistake is listed beside it in `PROJECT.json` ("mutants").

## Lockstep

State. `requested` is `requestedCommands` of every participant (index 0 is the
server), `toServer` the messages under way to a slot, `slotPending` the slot's
`vctPendingNetworkCommandList`, `stream` everything `updateKeyframe` has
broadcast. Per client: `received`, how many broadcasts the receiver thread has
taken from its socket; `cached`, `cachedPendingCommands`; `given`, what its world
has been given; `frame`, `paused` and `crc` (`World::frameCount`, `Game::paused`,
the faction checksum, which is taken before a world moves); `pc` and `loops`,
where the game thread is in `Game::update`.

| Action | Code |
|---|---|
| `RequestCommand` | `Commander::pushNetworkCommand`; a pause needs the menu of an administrator |
| `ClientSend` | `ClientInterface::update`: takes the list from its end |
| `SlotReceive` | `ConnectionSlot::update`, `nmtCommandList`, on the slot's thread |
| `ExecuteNetworkCommandsFromClients` | the server's visit of one slot under its mutex |
| `ServerUpdate`, `ServerPausedUpdate` | `Game::update` of the server: world, then `updateKeyframe`; while paused the same frame again |
| `ToggleAutoPaused` | the flag of the lag control, with which an empty list is not broadcast |
| `ReceiveCommandList` | `ClientInterface::updateFrame`, on the receiver thread |
| `BeginUpdate`, `NextLoop`, `BeginUpdateWithoutLoops` | `Game::update` of a client: `getUpdateLoops`, the loop, a pause or a slow-down |
| `GiveCommands`, `SkipFrame` | the two ways out of `getNetworkCommand` |
| `Disconnect` | `close` at either end |

What is abstract: a world is the frame it is at and the broadcasts given to it,
so "the simulation is deterministic" is assumed and not shown; a command is its
player, number and kind; TCP loses nothing while the connection stands.

## InGameJoin

The frames of this module are the keyframes of `Lockstep`, and a world is again
its frame and the lists given to it. `connected`, `ready`, `joining`, `launch`,
`setup`, `unPause` and `sentSave` are the flags of a `ConnectionSlot`; `stage`
follows the client through its menus into the game; `game` has the server's
`paused`, `pausedForJoinGame`, `pausedBeforeJoinGame`, `pauseRequestSent` and
`resumeRequestSent`; `at` is the position inside the long block of `Game::update`
that handles joins (`game.cpp` 2350-2598), because slots change while it runs. A list
in `log` has its frame and commands, and what the server's `paused` and
`pausedForJoinGame` were after them. The host's orders (`order`) and those of clients
(`clientOrder`) are told apart: the join pause stops the host's
(`Commander::tryGiveCommand`), but one of a client may be under way (see the
divergences below); so `WorldsAgree` and `NothingLeftBehind` are about the
host's.

| Action | Code |
|---|---|
| `Accept`, `SlotIntro`, `SlotReceive`, `RefuseLaunch`, `Disconnect` | `ConnectionSlot::update` on the slot's thread, `ConnectionSlot::close` |
| `SwitchSlot` | the end of the case `nmtIntro`: `switchSlot`, to the slot `findSlotForUUID` has found |
| `Launch`, `LobbyReady`, `Load`, `StartPlaying` | the client: `broadcastGameStart`, `updateLobby`, `Game::loadGame` and `waitUntilReady`, `sendResumeGameMessage` |
| `ReceiveList`, `QuitOnReady`, `Give`, `Move`, `ClientOrder` | a client in the game, as in `Lockstep` |
| `HostOrder`, `HostToggle` | the host's orders and pause menu |
| `ServerFrame`, `UpdateBetweenFrames` | the keyframe and the updates between two |
| `JoinUpdate`, `RequestResume`, `SaveGame`, `SendSave` | the block of `Game::update`, step by step |

`close` leaves `startInGameConnectionLaunch` as it was, and so does `Disconnect`:
the model has the join pause that is made for a client that has already left.
A returning player is known by its UUID (`uuid`), which `close` keeps. If its old slot
has no connection, the flags of the join are set on that slot and then the two
`ConnectionSlot` objects change places. Finding the slot and changing places are two
actions (`SlotIntro`, `SwitchSlot`), with any other step between them; setting the flags
goes with the finding, from which no lock separates it. Variables are indexed by the
position in `slots`, and `SwitchSlot` exchanges whatever belongs to an object, its
connection and client included.

Left out are the automatic pause of the lag control, the download of the save, the
change of a faction from computer player to client, and the administrator of a headless
server, whose session key lets a launch pass that `RefuseLaunch` refuses.

## ReadyBarrier

The server's `waitUntilReady` is modelled slot by slot (`VisitSlot`, under the
slot's mutex), because slots change between two visits of a pass: `next` is the
loop's index, `allReady` its local variable. `NextPass` may send the status text;
`GiveUp` (99 seconds), `Cancel` and `QuitGame` are its other ways out, and
`BeginRelease`, `Release`, `BeginGame` the good one. Of a client there are
`FinishLoading`, `Receive`, `ClientGivesUp` and `Leave`. In a game that can be
joined the slots' threads go on meanwhile: `Accept`, `SlotIntro`, `CloseSlot`,
`CloseStranger`; `LobbyReceive` is the newcomer's lobby.

Clocks are not modelled: with `Clocks` a party may give up whenever its code
looks at the clock, without it nobody does. The server's answer to a message it
does not expect is left out (its clients send none), as are the other messages
of the lobby, which the barrier drops as it drops an introduction, and players
who return to an old slot.

## SlotThreads

Of the server there are the main thread and one `ConnectionSlotThread` per slot.
`events`, `sem` and `started` are the thread's `eventList`, `semTaskSignalled` and
`gameStarted`; `pc` and `task` where its loop is; `link`, `intro`, `ready`, `chat` and
`pending` the slot's socket, `gotIntro`, `ready`, `chatTextList` and
`vctPendingNetworkCommandList`. `main`, `at`, `todo` and `awaited` are where
`ServerInterface::update` is. `inbox` and `backlog` are the operating system's.

| Action | Code |
|---|---|
| `Top`, `Turn`, `Select`, `Wake`, `TaskDone` | `ConnectionSlotThread::execute` |
| `NothingToUpdate`, `Accept`, `NobodyToAccept`, `CloseSlot`, `BeginRead`, `Read`, `Refuse`, `EndRead` | `ConnectionSlot::updateSlot` and `update` on that thread |
| `SignalClients`, `SeeCompleted`, `AllCompleted`, `WaitTooLong` | steps 1 and 2 of `ServerInterface::update`: signal, wait, at most 1500 ms |
| `ExecuteNetworkCommands` | step 4, in the game |
| `TakeTexts`, `ClearTexts`, `NoTexts`, `UpdateDone` | step 5, `dispatchPendingChatMessages` |
| `HangUp` | `validateConnectedClients`, `clientLagCheck` |
| `LaunchGame`, `GameInitiated`, `ReceiveWhileLoading`, `StartGame` | `launchGame`, `waitUntilReady` on the main thread |
| `Knock`, `SendIntro`, `SendText`, `SendReady`, `SendCommand`, `PeerGone` | clients |

One mutex shows in the state: the slot's while its texts are relayed (`at`). The others
are held within one action. Their order is not modelled: the main thread takes
`serverSynchAccessor` while it holds a slot's mutex (`server_interface.cpp` 1273, 2450)
and a slot's thread takes slots' mutexes while it holds `serverSynchAccessor` (562-625).

## TeamVote

Each machine has `team`, `vote` (`Faction::switchTeamVotes` by member and asker) and
`mute` (`Commander::pauseNetworkCommands`); `log` is what lockstep distributes and
`done` how far each machine has come in it. `given` in a vote tells whether its command
has been given to this machine; the code does not know it, and `ahead` collects the
machines that have counted a vote without.

| Action | Code |
|---|---|
| `TrySwitchTeam` | the player's menu, `Commander::trySwitchTeam` |
| `AnswerSwitchTeamVote` | `Game::mouseDownLeft` 3981-3992 and `Ai::update` 347-394: the vote is noted, then `trySwitchTeamVote` |
| `GiveSwitchTeam`, `GiveSwitchTeamVote`, `ThrowVoteIsNull`, `GivePauseResume` | the cases of `Commander::giveNetworkCommand` |
| `PauseForJoin`, `LoadGame`, `ResumeAfterJoin` | a join, in short |

## FactionUnits

`units` has the type, skill, life and commands of each unit and what it builds;
`gold` and `store` are a resource with a limit, `food` one with static costs;
`upgrades` is the `UpgradeManager`, a list and the lookup into it. A step may undo
several commands and pay for another, so the account is a record that is handed on
through `UndoCommand` and `ApplyCommand` as in the code.

| Action | Code |
|---|---|
| `GiveCommand`, `CancelCommand` | `Unit::giveCommand` with its priorities and queues, `Unit::cancelCommand` |
| `BeginTask` | the first update of a command that needs time |
| `FinishProduction`, `NoPlaceForProduct` | `UnitUpdater::updateProduce` |
| `FinishUpgrade` | `UnitUpdater::updateUpgrade` |
| `FinishMorph`, `NoRoomToMorph` | `UnitUpdater::updateMorph`, `Unit::morph` |
| `BeginBuilding`, `NoPlaceToBuild`, `Distracted`, `NothingToBuild`, `FinishBuilding`, `Repair` | `UnitUpdater::updateBuild`, `Unit::repair`, `Unit::born` |
| `Harvest`, `DecHp`, `Kill`, `Undertake` | `Faction::incResourceAmount`, `Unit::decHp`, `Unit::kill`, `Unit::undertake` |

## UnitCells

`cells` is `Cell::units`; of each unit there are its type, place and skill, the type it
morphs into (`goal`), `morphFieldsBlocked` (`blocked`) and whether it is alive. All
writing goes through `Put` and `Clear`, the two private functions of `Map`.

| Action | Code |
|---|---|
| `Create`, `PlaceUnit`, `Build`, `Born` | `Unit::create`, `World::placeUnit`, `UnitUpdater::updateBuild`, `Unit::born` |
| `Move`, `Stop` | `World::moveUnitCells` on a way that `Map::canMove` allows |
| `GiveMorph`, `CancelMorph` | `Unit::giveCommand`, `Unit::cancelCommand` with `undoCommand` |
| `BeginMorph`, `NoRoomToMorph`, `FinishMorph`, `FailMorph`, `OutOfEnergy` | `UnitUpdater::updateMorph`, `Unit::morph`, `UnitUpdater::updateUnit` |
| `DecHp`, `Kill`, `Putrefy` | `Unit::decHp`, `Unit::kill`, `Unit::update` |
| `LoadGame` | the map `Unit::loadGame` makes of a save |

Two kinds of types break the board and are left out by the assumption `Tidy` of the
properties: types that morph into a smaller one whose cells are not all their own
(`clearUnitCells` goes by sizes, `map.cpp` 1471), and morphs that cost energy (a unit
without energy is stopped before its command is cancelled, `unit_updater.cpp` 263, so
that what was blocked is not given back).

## Model checking

A property of a passing run has a mutant that breaks it under the same
configuration. Bounds named `Max...` appear in guards only.

| Run | Shows |
|---|---|
| `lockstep_one` | One client, two keyframes of period 2, four broadcasts, a server and a client that may both pause (a headless server's administrator is a client), one command each. `NothingLeftBehind`: no frame is left without everything the server gave at it, the commands of a paused game included. `NoDesync`: a checksum never differs, so that the quit of `getNetworkCommand` cannot be the protocol's doing. `ImplementsLog`: refinement of `CommandLog`. `BroadcastsAreGiven`: no client spins in `getNetworkCommand` for ever. |
| `lockstep_two` | Two clients with two world updates in one loop. `Agreement`: same lists, same order, no gap, no repetition. `Conservation`: a command is in exactly one place of one of the lists of four threads, so none is lost or doubled. |
| `join_one` | One slot, two connections, so that a client may leave at any step and another come; a host who uses the pause menu. `PauseAgrees`, and under fairness `JoinCompletes`: a client that launches gets to play or leaves, and from some moment on the join pause does not hold the game it plays (`<>[]`: a resume that is taken back is not enough), but for a pause the host had made before and for the launch flag an earlier client has left (`StaleLaunch`, among the divergences below). |
| `join_two` | A client in the game from its start and newcomers, three connections, two orders of the host. Clients leave at any step and come back, to their own slot or to the other, from which they are switched. `WorldsAgree`, `NothingLeftBehind`: the host's orders reach every world once and in one order, through the save or through a list: where a world has been given one, it has been given exactly those before it. `StandsStillForNewcomer`: the server's world waits for whoever has the save and is not in the game. `KeepsItsSlot`: a returning player takes no slot that another has come to since it was found. |
| `barrier_two` | Two members, one newcomer who may take the place of a member that left, a status message, giving up and cancelling. `ReadyMeansLoaded`, `ImplementsBarrier` (refinement of `Barrier`), and under fairness `NobodyWaitsForEver`. |
| `slots_one` | One slot, two clients one after the other, two commands each, which the thread may read before the main thread takes any or between two takings, and up to two updates of the lobby waiting for the thread. `CommandsAreGivenInOrder`: none lost, doubled or out of order between thread and main thread. `EventsAreSignalled`: a sleeping thread has a signal for every event. Under fairness `KnockIsAnswered` and `GameIsRead`. |
| `slots_two` | Two slots, whose threads run at once, and one client with two texts: one thread reads it while the other looks for a client, and the main thread visits both. `TextsAreRelayed`: as long as the main thread has waited to the end, no text is cleared in the lobby before it is relayed. |
| `votes_three` | Three factions, a server, a client and a newcomer, five commands. `OnlyWhoAsks`: nobody is moved who has not asked. `TeamsAgreeInStep` and `VotesAreFound`: machines that count no vote before its command have the same teams after the same commands, and never meet a vote nobody asked for. |
| `faction_two` | A worker and a castle, four units, four orders, two upgrades. `StoreIsTheUnits`, `FoodIsConserved`, `UpgradeInHand`, `CountWithinLimit`, `ImplementsBook` (refinement of `UpgradeBook`), and under fairness `QueuesDrain`. |
| `cells_two` | Two units of five types on a row of four cells. `UnitsHoldTheirCells`, `NothingLeftBehind`, `NeverThrown`, `SavedMapAgrees`, `ImplementsBoard` (refinement of `Board`). |

Two runs find that the code does not do what it says.

| Run | Finds |
|---|---|
| `votes_early` | `TeamsAgree`: a member's answer is in its own machine's world before it is given to the others. If another member's vote is given in between, one machine has a majority and the others have not. |
| `upgrades_three` | `LookupFindsType`: with three upgrades, cancelling one that is not the last leaves the lookup of another pointing to a third (`upgrade.cpp` 124-140). A client that joins builds the lookup anew from the save and answers differently. This is why `UpgradeInHand` and `ImplementsBook` are checked with two. |

Why the bounds are enough. In `Lockstep` the cases that matter need one keyframe
with several broadcasts (a pause), one without any (the automatic pause), and a
later frame to skip on: two keyframes and four broadcasts have all three, at
every distance between the client and the server. The theorems below hold without
the bounds. In `InGameJoin` two connections are the shortest way to a slot with a
past, and the third in `join_two` is the client that comes to a slot somebody has been
switched from; `MaxLists` is large enough never to be reached. `MaxIdle` lets the game
move on before, between and after the joins in `join_one`; in `join_two`, where it is
0, the host's orders and the commands of the pauses do. In `ReadyBarrier` two
slots give every order of a visit, a Ready, a departure and an arrival; more
slots are covered by proof. In `SlotThreads` two events let a late one meet a new one
and two clients give a slot a past; texts need two slots, because the wait ends with
the last of them, and two texts, so that one can come while another is relayed. A second
client in `slots_two` is too much for TLC; `TextsAreRelayedHolds` is for any number. Two
commands are the least that can be taken in the wrong order, or one of them lost before the
other. In `TeamVote` three factions are a team of two and one who asks, and five commands
are a request, its votes and a join, or two requests. In `FactionUnits` four orders are a
queue with something to replace and something to cancel. In `UnitCells` two units are
all that can be in each other's way in one step, and four cells have room for the
widest body and a neighbour; more of both is covered by proof.

Deadlock is checked in the runs of `Lockstep` and `InGameJoin`. In those of
`ReadyBarrier` it is not: the barrier is over when the server plays and the
clients play or are gone. Nor is it in the others: a game that every client has left
has nothing to serve (`SlotThreads`), a log at its bound nothing to give (`TeamVote`),
and a faction or a map may come to rest.

Fairness. A thread's loop goes on: `WF` of a client's receiver and game thread, of
the server's loop, of a newcomer's menus. `SF_vars(BeginUpdate(c))` in `Lockstep`:
a client may slow down, but `framesToSlowDownAsClient` is finite and refilled only
by frames that pass. `SF_vars(ServerFrame)` in `InGameJoin`: between two keyframes
there are finitely many updates. Nobody has to connect, launch, order, cancel,
use a menu or leave, and nothing is assumed of the lag control; in `Lockstep` nothing is
assumed of the server either. In `ReadyBarrier`'s `FairSpec` the server, every
loading or waiting client and the slots' threads go on; with `Clocks` that
includes giving up, as the code's timeouts do. In `SlotThreads` the main loop and every
slot's thread go on, and a client that has connected introduces itself and gets ready
unless it is lost; nobody has to connect, write, order or start the game. In
`FactionUnits` the world updates every unit (`WF` of `Update(i)`); orders, harvest and
fights may stop at any time.

## Proofs

The theorems hold for every value of the constants that satisfies the assumptions
named in the modules (a period of at least one, no more catch-up loops than the
period has frames, administrators, members, owners and types that exist, a server
with finitely many slots, costs, stores and limits that are numbers, orders for
things of their kind, and a game that begins with no more gold than its store holds).

Lockstep. `TypeCorrect`, `AgreementHolds`, `ClientBehindServerHolds`, and, for
clients with one world update at a time (`MaxLoops = 1`), `NothingLeftBehindHolds`
and `LockstepImplementsLog`. `Agreement` is not inductive: that the next list is
the right one depends on what is in the cache. The invariant says of the stream
(`StreamInv`) that broadcasts are for keyframes in order and that a frame has a
second one only if the commands before it paused the game; of the cache
(`CacheInv`) that an entry exists for exactly the frames received and holds the
broadcasts not yet given, without a gap; and of a client (`ClientInv`) that its
pause is what its prefix of the stream says, that it has passed no keyframe of
the server, and that what it has not been given is for its frame or a later
one. The last part is why a client may skip a frame once it has seen a later
number. It fails with two updates in a loop, and there the invariant carries the
exception `Lost`: a client that was paused inside the loop (see the divergences
below); with one loop `Lost` cannot be reached. With any number of loops,
`OnlyLostLeaveSomethingHolds`: a client that has left commands behind is lost; and
`LostForEver`: a lost client stays so and its world is given nothing any more, the end of
the pause included. `LogUnlessLost`: in every behaviour without a lost client `CommandLog`
is implemented with any number of loops, as a pass that runs on a paused client loses it
(`LoopLoses`). So a client with several loops is in step, or it is one that was paused
inside the loop.

Commands on their way. `ConservationHolds`, with any number of clients and any
`MaxLoops`. A command passes through five lists that belong to four threads: that of its
player's interface, the messages to the slot, the slot's, the server's, the broadcasts.
The invariant (`PlaceInv`): of every command a player has numbered there is one place in
one of these lists (`InOnePlace`), no list holds a command that has not been numbered
(`Nowhere`), and the lists of a client hold only its own. Every action moves whole lists,
so a proof by action comes down to what moving a list does to `Once`; the order within
a list, which the client turns round (see the divergences), does not matter. Clients
that have quit keep their commands in this: what has not been collected stays where it is.

Checksums. `NoDesyncHolds`, with any number of clients and any `MaxLoops`. A checksum is
taken when a world leaves its frame and compared when the commands of the next keyframe
are given, on the server and on each client at another time, after another number of
broadcasts; in a paused game many broadcasts carry the checksum of one frame. The
invariant (`CrcInv`, on top of those above): the checksum of a broadcast, of
the server and of every client that is not `Lost` is that of a world about to begin its
frame which has been given every broadcast before that frame and no other (`IsDigest`);
two such are equal (`SameDigest`). It stays true because a broadcast never is for a
frame the server has left (`MoreBroadcasts`), and because a client is given nothing
ahead of its frame (`GivenSoFar`). A `Lost` client reaches no keyframe again, so it
compares nothing.

Ready barrier. `TypeCorrect`, `ReadyMeansLoadedHolds` and `BarrierImplemented`:
every behaviour of the wait, whoever leaves, connects, gives up or cancels, is one
of `Barrier`. The hard step is the opening: the server has looked at the slots one
after the other, at different times. The invariant: a client that is there has its
connection (`Connected`); a Ready under way, or noted in a slot, comes from a
client that has loaded (`ReadyIsTrue`, `ReadyMeansLoaded`); no member that the pass
has visited without an objection is loading (`PassIsTrue`), which stays true
because nobody begins to load (`NoNewLoading`); and a Ready under way to a client
means that the release has begun, with nobody loading (`ReleaseIsTrue`).

Joining. `TypeCorrect`, `WorldsAgreeHolds`, `NothingLeftBehindHolds`,
`StandsStillHolds` and `KeepsItsSlotHolds`, for any slots and any number of connections,
and `PauseAgreesHolds` for a server with one slot.
The action property and the agreement of the worlds hang on the same fact, that the
server's pause lasts as long as somebody has the saved game. The invariant says of the
pause that a slot that has been told of a save and is not ready (`HasSave`) means a game
paused for a join, with no `joinResume` requested and the block of `Game::update` not
past the look at the flags (only a `joinResume` is not refused then); and that a game
paused for a join has no order of the host waiting. It says of the log that a frame may
have several lists, but that an order is in one of them only if all those before it left
the server paused by a player and not for a join (`Held`), and that the first list of a
frame resumes nothing. So an order never follows a save at the frame of the save. It says
of a client that what it has not been given is in its cache or under way, in order; that
it is paused if the last list of its frame it has been given is `Held`, so that it does
not move past an order that is still to come; and that it is ahead of the server by a
frame at most, and then the server is not paused by a player.

The pause of the only client needs an invariant of its own (`Alone`, on top of the
first), since a client that joins is not sent the lists of the time when it was not
ready. What it has not been given is in three parts (`Split`): lists it is never sent,
all of them for a paused game; those in its cache; those under way. Each list of the last
two says of the pause what its own commands say (`Settles`: the last of them that is no
order decides), because while the only client is ready the server refuses nothing; and a
frame has a second list only if the first left the game paused, so a client gives all
lists of a frame before it can move on. With a second client the server refuses what the
first one obeys, and the theorem would be false.

Slot threads. `TypeCorrect`, `EventsAreSignalledHolds`, `TextsAreRelayedHolds` and
`CommandsAreGivenInOrderHolds`, for any number of slots, clients, texts and commands.
Events (`EventInv`): their numbers are distinct and never 0, and those that are to be
done, without the one the thread is at, are no more than the signals it has; purging is
safe because what is at work is found by its number. Texts (`TextInv`, `RelayInv`): as
long as the main thread has always waited, a thread of a connected slot reads only while
the main thread waits for just that event, and a text not relayed yet means that the main
thread waits or has its slot still to visit; so neither the main thread nor the slot's
clears it before. Commands (`OrderInv`, `GivenInv`): for each slot there is an `m` such
that the server has been given the commands 1 to `m` of its client, the slot's list
holds the next ones and the socket the rest, in order; clients of different slots
differ, and a client that has not knocked yet has given nothing. The list that
`executeNetworkCommandsFromClients` appends for all slots at once is an induction over
the slots, the only place where their number being finite is used.

Unit cells. `TypeCorrect`, `UnitsHoldTheirCellsHolds`, `NeverThrownHolds`,
`NothingLeftBehindHolds`, `SavedMapAgreesHolds` and `BoardImplemented`, for any number of
units, any types and any map. The last needs no assumption on the types: `Put` and
`Clear` leave alone what is another unit's (`PutUntouched`, `ClearUntouched`), so a step
changes what one unit holds. For the others it is left to show that this unit ends up
with its own seats and no more. Holding all of one's cells and leaving nothing behind
need each other: what a unit takes as free because a dead one's body decays there is
free only since no dead unit holds a cell.

Team votes. `TypeCorrect`, `OnlyWhoAsksHolds`, `TeamsAgreeInStepHolds` and
`VotesAreFoundHolds`. For the second, every vote a world keeps is about a request that
this world has been given (`VotesAreAskedFor`). A vote that comes early, twice or for an
older request still names that faction and that team; and a newcomer, which has no
votes, has the teams of the server. The others compare worlds that have come to different
places in the log. Their invariant (`HistoryInv`) is that one history, a function of
the log alone (`History`: the teams, who has been asked for what, which votes have been
given), holds for every machine that has counted no vote before its command: at its place
in the log it has the history's teams and requests, and a vote is given there exactly if
it is in the history, with the same answer (`Matches`). Its own early notes are the
difference, and they count only on machines in `ahead`. `VotesAreFoundHolds` assumes that every faction
is played on a machine that is there from the start: a newcomer has no older votes, so
it may ask for what the others have counted already, and the run, too, has a newcomer
that only watches.

Factions. What a faction owns is a sum, over its units and the commands in their queues,
of what each of them holds. One step may take several commands from a queue, undo each in
turn (`UndoCommands` is a fold that hands the account on) and append another, so the proofs
say of every operation what it adds to such a sum and takes from it: `Weight(h, q)` is the
sum of `h` along the list `q`, and `ListLemmas` has what appending to a list, replacing in
it and removing from it do to the weight of any `h`. The first invariant (`Sane`) says
what may be in a queue, that units that are being built, dying or deleted have no commands, and
that the gold fits into the store. A command is one that the unit's type may be ordered,
which a morph to another type only leaves true because it is the last of its queue; and
only the build command at the head of a queue has a building site, where its unit works.
`TypeCorrect` follows.

- `StoreIsTheUnitsHolds`: with `StoreOK`, the store is the weight of what born and
  living units can hold.
- `FoodIsConservedHolds` needs no more: `Balance` is the food plus the weight of
  `Held`, what a unit in its state and each of its commands have bound, and each of the
  actions moves food between the two or is one of the exceptions of the property.
- `CountWithinLimitHolds` assumes that the game begins within the limits
  (`StartsWithin`). A unit ordered to be built is counted with the command until it
  stands and as a unit afterwards. The invariant (`Within`) has therefore to know of the
  unit that a command has begun to build: it was made as what the command says, and is
  dead if its builder has turned away (`BuildOK`). The proof found that a limit is
  also passed when a building is repaired to its end by another unit, becomes one of
  another type and is killed while its builder is still at it: the exception of the
  property now names it.
- The research. `UpgradeManager` has a list and a lookup from upgrades to their places,
  and `cancelUpgrade` does not mend the lookup (`upgrades_three`). `LookupHolds`: with at most two upgrades
  (`FewUpgrades`) the lookup finds the right one all the same: one that is left stood
  either before the cancelled one or at the end, which the code does correct. With any number
  of upgrades, `UpgradeInHandHolds` and `BookImplemented` hold of all behaviours in which
  the lookup finds the right upgrades, so nothing but the lookup can bring the research to
  grief; `ResearchOfTwo` joins them. The invariant (`Hand`): the lookup and
  the list are inverse to each other, and the weight of the orders for an upgrade, over
  all queues, is one if the upgrade is being researched and zero if not. A dying unit
  cancels its orders one by one, between which the lookup may be wrong for a while.
  Whatever is removed meanwhile, as many upgrades stay in the list as the lookup has
  places for (`Remains`); so when at the end the lookup finds the right types, it gives
  each a place of its own, and the list holds exactly those that were not cancelled
  (`RemainsFound`).

Lists. What the proofs need of `FoldLeft`, `Among` and `FlattenSeq` is in `ListLemmas`,
by induction over the set of the lengths for which a fact holds (`Induction`, stated for
a set because the library's form takes an operator): the prover can then unfold the
recursion of the community modules one step at a time.

Only model-checked: the liveness properties, because TLAPS does neither `ENABLED` nor
fairness here (`BroadcastsAreGiven`, `JoinCompletes`, `NobodyWaitsForEver`,
`KnockIsAnswered`, `GameIsRead`, `QueuesDrain`). Every other property of a passing run is a
theorem; the hypotheses of some are given with them above (`MaxLoops = 1`, one slot,
owners that are there from the start, limits kept at the start, a lookup that finds the
right upgrades).

## Known divergences

Besides the two runs above, these came up while modelling. The modules have them, so
that TLC reaches them when the property in question is stated.

- Two messages of one client that reach the server in one keyframe period are given
  latest first: lists are taken from their end on the client (`client_interface.cpp`
  449) and again on the server, against "proper order" (`server_interface.cpp` 1553).
- The catch-up loop of a client does not look at `paused` again (`game.cpp` 2027): a
  client paused by its first pass runs the second one and is then paused at a frame
  that is no keyframe, where it never sees the resume ("if game is paused don't try to
  catch up", `game.cpp` 1963).
- `getUnPauseForInGameConnection` (`server_interface.cpp` 3207) wants a flag of every
  slot that only newcomers set: with another client in the game the join pause lasts
  until the host ends it by hand. This is why `JoinCompletes` is about a client that is
  alone. If a client leaves after the save and nobody else is connected, the pause lasts
  until then, too.
- `close` (`connection_slot.cpp` 1487-1494) keeps `startInGameConnectionLaunch`. When a
  client launches and leaves before the game is saved for it, the server pauses with
  nobody joining, and pauses again (`game.cpp` 2468-2475) whenever the host resumes,
  because only the save for a joining client takes the flag away (2512-2515). When another
  client comes to the slot, the flag passes for its launch: it is cleared, the game is
  saved and the client told. The client's own launch then sets the flag once more, and as
  the save has been sent nothing clears it. The client plays, its second Ready is to
  "unpause the game" (`connection_slot.cpp` 1343), the game resumes, and at the next update
  the server pauses it for the flag. Now the slots' unpause flags are gone and nobody is
  joining: the game is paused for ever, and the host's menu does not help. This is
  `StaleLaunch`, which `JoinCompletes` leaves out; without it TLC finds this behaviour.
- A resume that the server refuses during a join (`game.cpp` 6271) has been broadcast,
  and other clients obey it. This is why `PauseAgrees` is about the only client.
- The join pause does not stop orders that are under way from a client: one that
  arrives after the save is in neither the save nor a list of the newcomer
  (`client_interface.cpp` 1013).
- The flags of a join are set on the slot that a returning player had before, and then
  the slots are exchanged (`connection_slot.cpp` 952-955; `server_interface.cpp` 606 has
  lines that would repair this, commented out). So the player sits at its old slot without
  `joinGameInProgress`, and its launch is refused for an "invalid admin sessionid"
  (`RefuseLaunch`); the flags stay with the empty slot. A client that connects to that
  one is told of a save before it has introduced itself, and told again when it has
  launched: the second Ready may reach it in the game, where it is "Unexpected message
  in client interface" and the client quits (`QuitOnReady`). `WorldsAgree` and the others
  hold all the same; no run is about it, because no text promises that a player returns.
- A client that connects to a free slot while the others load keeps the barrier shut
  (`server_interface.cpp` 1957): it is in its lobby and sends no Ready.
- A server whose user cancels the loading plays the game alone (`server_interface.cpp`
  2130).
- A slot's thread that found its client connected before the game waits for a signal;
  when that client is lost or disconnected before the game starts nobody signals it any
  more (`server_interface.cpp` 2142, `connection_slot.cpp` 280), and the slot of a game
  that may be joined stays shut. When the main thread closes a connection between the
  thread's look at `isClientConnected` and its look at the socket the thread ends
  (`connection_slot.cpp` 242). `KnockIsAnswered` leaves these threads out (`Abandoned`).
- A slot's thread that is late (more than 1500 ms) may read a client's Ready for the
  barrier, which then waits in vain: `GameIsRead` leaves this out (`late`).
- A morph ordered in place of one under way is neither checked for space nor given it
  (`unit_updater.cpp` 2500). `SavedMapAgrees` assumes that it is.
- Votes are not saved: a newcomer that is given a vote about an older request ends with
  "vote == NULL" (`commander.cpp` 662). A vote answered while a join holds commands back
  is noted and never sent (`commander.cpp` 388). A late answer counts for a later
  request of the same player.
- `CountWithinLimit` leaves out what happens when a building is destroyed while it is
  built, or after it has become another, and its builder starts over. `FoodIsConserved` leaves out products without a
  place, which are deleted with what was paid for them (`unit_updater.cpp` 2372), and
  builders whose skill and commands disagree (`unit.cpp` 4015).
- `morphFieldsBlocked` goes into the checksum of a unit (`unit.cpp` 5693) but not into a
  save.

## Plan

1. `CommandLog`, `Lockstep`, `LockstepProofs`, `Lists`, `ListLemmas`, `InGameJoin`,
   `InGameJoinProofs`, `Barrier`, `ReadyBarrier`, `ReadyBarrierProofs`, `SlotThreads`,
   `SlotThreadsProofs`, `TeamVote`, `TeamVoteProofs`, `UpgradeBook`, `UpgradeManager`,
   `FactionUnits`, `FactionUnitsProofs`, `Board`, `UnitCells`, `UnitCellsProofs`: done.
2. Worth proving next: what the gold of a faction is, which the store cuts off; that the
   abstract specifications imply the invariants stated beside them.
3. Worth modelling next: the order of the server's mutexes; the lag control with its
   clocks; who deletes a thread (`BaseThread`); harvesting and resources shared in a team;
   the path finder.

## Not modelled

Rendering, sound, menus and tools do not touch the simulation. Message layouts,
sockets and the master server are input and output: the models take a connection
to be a reliable stream that may break. Computer players and scripts act through the
same requests as players, but for the votes of computer players, which `TeamVote` has.

The lag control (`clientLagCheck`) compares clocks and frame numbers; `Lockstep` has its
flag. Read without a model: a client beyond the limit is told the game is paused for it
(`server_interface.cpp` 775), although only a warning pauses it (1193); the automatic
resume resumes whatever paused the game, a player's own pause too (`game.cpp` 2331);
and the count of pauses of a slot is never reset, so that the next client inherits it.
The lobby's menus, session keys and data synchronisation, file transfer and the
platform's threads are left out: what the other modules need of them is in those.
`PROJECT.json` lists each part with its reason, and the hazards that no property
covers with theirs. In the modelled parts, left out are: attacks, repair and harvest as
commands, energy, levels, consumables, spawned units, resources shared in a team,
scripts that set positions, slots that are removed, the thread manager, and
players who are defeated or become observers.
