------------------------------ MODULE Lockstep ------------------------------
(***************************************************************************)
(* The lockstep simulation of a network game.  One server and its clients  *)
(* run the same deterministic world; a unit order is never given to a      *)
(* world directly but requested from the server, which at every keyframe   *)
(* broadcasts the orders of that frame (ServerInterface::updateKeyframe).  *)
(* A client may leave a keyframe only with the server's list for it        *)
(* (ClientInterface::getNetworkCommand).                                   *)
(*                                                                         *)
(* Abstractions.                                                           *)
(*   - The TCP stream from the server to a client is the sequence `stream' *)
(*     of all broadcasts together with the number `received[c]' of them    *)
(*     that the receiver thread of c has taken from its socket.            *)
(*   - The map cachedPendingCommands of a client holds, per frame, the     *)
(*     numbers of the broadcasts whose commands are in it.                 *)
(*   - A world is the frame it has reached and the broadcasts given to it; *)
(*     a faction checksum is a digest of those two.                        *)
(*   - A command is who requested it, its number among that player's       *)
(*     requests, and whether it is an order or pauses or resumes the game. *)
(***************************************************************************)
EXTENDS Naturals, Sequences, SequencesExt

CONSTANTS NumClients,   \* the connection slots in use are 1 .. NumClients
          Period,       \* GameSettings::networkFramePeriod
          MaxLoops,     \* most world updates in one Game::update of a client
          Admins,       \* players whose pause menu works (tryPauseToggle)
          MaxFrame,     \* bound: the server's world stops here
          MaxBroadcast, \* bound: broadcasts the server makes
          MaxRequest    \* bound: commands one player requests

ASSUME NumClientsAssumption == NumClients \in Nat
ASSUME PeriodAssumption     == Period \in Nat \ {0}
ASSUME MaxLoopsAssumption   == MaxLoops \in 1 .. Period
ASSUME BoundsAssumption     == /\ MaxFrame \in Nat
                               /\ MaxBroadcast \in Nat
                               /\ MaxRequest \in Nat

Server == 0
Client == 1 .. NumClients
Player == Client \cup {Server}

ASSUME AdminsAssumption == Admins \subseteq Player

Kind    == {"order", "pause", "resume"}
Command == [player : Player, number : Nat, kind : Kind]

IsKeyframe(f) == f % Period = 0

(***************************************************************************)
(* Giving command lists to the game one after the other: the last pause or *)
(* resume command among them decides whether the game is paused after it.  *)
(***************************************************************************)
Quiet(cmds)  == \A i \in DOMAIN cmds : cmds[i].kind = "order"
Pauses(cmds) == \E i \in DOMAIN cmds :
                    /\ cmds[i].kind = "pause"
                    /\ \A j \in DOMAIN cmds : j > i => cmds[j].kind = "order"

PauseAfter(p, lists) ==
    \/ p /\ \A i \in DOMAIN lists : Quiet(lists[i])
    \/ \E i \in DOMAIN lists : /\ Pauses(lists[i])
                               /\ \A j \in DOMAIN lists : j > i => Quiet(lists[j])

VARIABLES
    requested,    \* requestedCommands of every player's GameNetworkInterface
    numbered,     \* how many commands each player has requested
    toServer,     \* command lists under way from a client to its slot
    slotPending,  \* ConnectionSlot::vctPendingNetworkCommandList
    stream,       \* every command list the server has broadcast
    received,     \* broadcasts taken from the socket by the receiver thread
    cached,       \* ClientInterface::cachedPendingCommands
    given,        \* the broadcasts a client has given to its world
    frame,        \* World::frameCount
    paused,       \* Game::paused
    crc,          \* networkPlayerFactionCRC
    pc,           \* where the game thread of a client is
    loops,        \* world updates left in this Game::update of a client
    autoPaused,   \* ServerInterface::clientsAutoPausedDueToLag
    desync,       \* a client found a checksum that is not its own
    connected     \* the socket of a client is open and it has not quit

netVars    == <<requested, numbered, toServer, slotPending>>
clientVars == <<received, cached, given, pc, loops, desync, connected>>
worldVars  == <<frame, paused, crc>>
vars == <<netVars, clientVars, worldVars, stream, autoPaused>>

Digest(n, gave)   == [frame |-> frame[n], given |-> gave]
ServerGave        == [i \in 1 .. Len(stream) |-> i]
CachedLast(c)     == IF received[c] = 0 THEN 0 ELSE stream[received[c]].frame

Init ==
    /\ requested = [p \in Player |-> <<>>]
    /\ numbered = [p \in Player |-> 0]
    /\ toServer = [c \in Client |-> <<>>]
    /\ slotPending = [c \in Client |-> <<>>]
    /\ stream = <<>>
    /\ received = [c \in Client |-> 0]
    /\ cached = [c \in Client |-> <<>>]
    /\ given = [c \in Client |-> <<>>]
    /\ frame = [p \in Player |-> 0]
    /\ paused = [p \in Player |-> FALSE]
    /\ crc = [p \in Player |-> [frame |-> 0, given |-> <<>>]]
    /\ pc = [c \in Client |-> "idle"]
    /\ loops = [c \in Client |-> 0]
    /\ autoPaused = FALSE
    /\ desync = [c \in Client |-> FALSE]
    /\ connected = [c \in Client |-> TRUE]

-----------------------------------------------------------------------------
(***************************************************************************)
(* Commands on their way to the server.                                    *)
(***************************************************************************)

\* Commander::pushNetworkCommand -> GameNetworkInterface::requestCommand.
RequestCommand(p, kind) ==
    /\ numbered[p] < MaxRequest
    /\ p \in Client => connected[p]
    /\ kind # "order" => p \in Admins
    /\ numbered' = [numbered EXCEPT ![p] = @ + 1]
    /\ requested' = [requested EXCEPT ![p] = Append(@,
            [player |-> p, number |-> numbered[p] + 1, kind |-> kind])]
    /\ UNCHANGED <<toServer, slotPending, clientVars, worldVars, stream, autoPaused>>

\* ClientInterface::update: the list is taken from its end, so the message
\* carries the commands in reverse order.
ClientSend(c) ==
    /\ connected[c]
    /\ pc[c] = "idle"
    /\ requested[c] # <<>>
    /\ toServer' = [toServer EXCEPT ![c] = Append(@, Reverse(requested[c]))]
    /\ requested' = [requested EXCEPT ![c] = <<>>]
    /\ UNCHANGED <<numbered, slotPending, clientVars, worldVars, stream, autoPaused>>

\* The slot's thread: ConnectionSlot::update, case nmtCommandList.
SlotReceive(c) ==
    /\ connected[c]
    /\ toServer[c] # <<>>
    /\ slotPending' = [slotPending EXCEPT ![c] = @ \o Head(toServer[c])]
    /\ toServer' = [toServer EXCEPT ![c] = Tail(@)]
    /\ UNCHANGED <<requested, numbered, clientVars, worldVars, stream, autoPaused>>

\* ServerInterface::executeNetworkCommandsFromClients: the visit of one slot.
\* It holds the mutex of that slot only, and the slot threads run on, so a
\* list that comes after the visit waits for the next call.
ExecuteNetworkCommandsFromClients(c) ==
    /\ connected[c]
    /\ slotPending[c] # <<>>
    /\ requested' = [requested EXCEPT ![Server] = @ \o slotPending[c]]
    /\ slotPending' = [slotPending EXCEPT ![c] = <<>>]
    /\ UNCHANGED <<numbered, toServer, clientVars, worldVars, stream, autoPaused>>

-----------------------------------------------------------------------------
(***************************************************************************)
(* The server's game thread.                                               *)
(***************************************************************************)

\* Mutant of ServerKeyframe: an automatic pause holds back every broadcast.
ServerKeyframeHoldsBack(f) ==
    LET cmds == Reverse(requested[Server])
    IN  /\ requested' = [requested EXCEPT ![Server] = <<>>]
        /\ paused' = [paused EXCEPT ![Server] = PauseAfter(@, <<cmds>>)]
        /\ \/ stream' = Append(stream,
                    [frame |-> f, cmds |-> cmds, crc |-> crc'[Server]])
           \/ autoPaused /\ stream' = stream

\* ServerInterface::updateKeyframe and the giving of the commands in
\* Commander::updateNetwork, at frame f.
ServerKeyframe(f) ==
    LET cmds == Reverse(requested[Server])
    IN  /\ requested' = [requested EXCEPT ![Server] = <<>>]
        /\ paused' = [paused EXCEPT ![Server] = PauseAfter(@, <<cmds>>)]
        /\ \/ stream' = Append(stream,
                    [frame |-> f, cmds |-> cmds, crc |-> crc'[Server]])
           \/ cmds = <<>> /\ autoPaused /\ stream' = stream

\* Game::update on the server while the game is not paused: one world update,
\* then the keyframe if there is one.
ServerUpdate ==
    /\ ~paused[Server]
    /\ frame[Server] < MaxFrame
    /\ Len(stream) < MaxBroadcast
    /\ frame' = [frame EXCEPT ![Server] = @ + 1]
    /\ crc' = [crc EXCEPT ![Server] = Digest(Server, ServerGave)]
    /\ IF IsKeyframe(frame[Server] + 1)
          THEN ServerKeyframe(frame[Server] + 1)
          ELSE UNCHANGED <<requested, paused, stream>>
    /\ UNCHANGED <<numbered, toServer, slotPending, clientVars, autoPaused>>

\* Game::update on the server while the game is paused: the same frame again.
ServerPausedUpdate ==
    /\ paused[Server]
    /\ IsKeyframe(frame[Server])
    /\ Len(stream) < MaxBroadcast
    /\ UNCHANGED <<frame, crc>>
    /\ ServerKeyframe(frame[Server])
    /\ UNCHANGED <<numbered, toServer, slotPending, clientVars, autoPaused>>

\* The lag checks set and clear clientsAutoPausedDueToLag at any time.
ToggleAutoPaused ==
    /\ autoPaused' = ~autoPaused
    /\ UNCHANGED <<netVars, clientVars, worldVars, stream>>

-----------------------------------------------------------------------------
(***************************************************************************)
(* A client: its receiver thread (ClientInterface::updateFrame) and its    *)
(* game thread (Game::update).                                             *)
(***************************************************************************)

\* Mutant of ReceiveCommandList: a second list for a frame replaces the first.
ReceiveReplaces(c) ==
    LET n == received[c] + 1
        f == stream[n].frame
    IN  /\ connected[c]
        /\ n <= Len(stream)
        /\ received' = [received EXCEPT ![c] = n]
        /\ cached' = [cached EXCEPT ![c] =
                [g \in DOMAIN @ \cup {f} |-> IF g = f THEN <<n>> ELSE @[g]]]
        /\ UNCHANGED <<netVars, given, pc, loops, desync, connected, worldVars,
                       stream, autoPaused>>

\* A command list arrives: cachedLastPendingFrameCount and the entry of its
\* frame, which is made even when the list is empty.
ReceiveCommandList(c) ==
    LET n == received[c] + 1
        f == stream[n].frame
    IN  /\ connected[c]
        /\ n <= Len(stream)
        /\ received' = [received EXCEPT ![c] = n]
        /\ cached' = [cached EXCEPT ![c] =
                [g \in DOMAIN @ \cup {f} |->
                    IF g = f THEN IF f \in DOMAIN @ THEN Append(@[f], n) ELSE <<n>>
                             ELSE @[g]]]
        /\ UNCHANGED <<netVars, given, pc, loops, desync, connected, worldVars,
                       stream, autoPaused>>

\* Mutant of WorldUpdate: the checksum is taken after the world has moved on.
WorldUpdateThenChecksum(c, left) ==
    LET f == frame[c] + 1
    IN  /\ frame' = [frame EXCEPT ![c] = f]
        /\ crc' = [crc EXCEPT ![c] = [frame |-> f, given |-> given[c]]]
        /\ loops' = [loops EXCEPT ![c] = left]
        /\ pc' = [pc EXCEPT ![c] = IF IsKeyframe(f) THEN "keyframe"
                                   ELSE IF left > 0 THEN "loop" ELSE "idle"]
        /\ UNCHANGED <<netVars, received, cached, given, desync, connected,
                       paused, stream, autoPaused>>

\* World::update of one pass of the loop over updateLoops; the checksum is the
\* one of the world before it.
WorldUpdate(c, left) ==
    LET f == frame[c] + 1
    IN  /\ frame' = [frame EXCEPT ![c] = f]
        /\ crc' = [crc EXCEPT ![c] = Digest(c, given[c])]
        /\ loops' = [loops EXCEPT ![c] = left]
        /\ pc' = [pc EXCEPT ![c] = IF IsKeyframe(f) THEN "keyframe"
                                   ELSE IF left > 0 THEN "loop" ELSE "idle"]
        /\ UNCHANGED <<netVars, received, cached, given, desync, connected,
                       paused, stream, autoPaused>>

\* Game::update of a client starts: getUpdateLoops, and the catching up.
BeginUpdate(c) ==
    /\ connected[c]
    /\ pc[c] = "idle"
    /\ ~paused[c]
    /\ \E n \in 1 .. MaxLoops : WorldUpdate(c, n - 1)

\* The next pass of that loop: it does not look at Game::paused again.
NextLoop(c) ==
    /\ connected[c]
    /\ pc[c] = "loop"
    /\ WorldUpdate(c, loops[c] - 1)

\* Mutant of BeginUpdateWithoutLoops: a paused client does not run its commander.
UpdateWithoutLoopsUnpaused(c) ==
    /\ connected[c]
    /\ ~paused[c]
    /\ pc[c] = "idle"
    /\ IsKeyframe(frame[c])
    /\ pc' = [pc EXCEPT ![c] = "keyframe"]
    /\ UNCHANGED <<netVars, received, cached, given, loops, desync, connected,
                   worldVars, stream, autoPaused>>

\* Game::update of a client that is paused or slowing down: updateLoops is 0
\* and only the commander runs, at the frame the world is at.
BeginUpdateWithoutLoops(c) ==
    /\ connected[c]
    /\ pc[c] = "idle"
    /\ IsKeyframe(frame[c])
    /\ pc' = [pc EXCEPT ![c] = "keyframe"]
    /\ UNCHANGED <<netVars, received, cached, given, loops, desync, connected,
                   worldVars, stream, autoPaused>>

\* Mutant of AfterKeyframe: the loop does not count its passes.
AfterKeyframeLoops(c) == "loop"

AfterKeyframe(c) == IF loops[c] > 0 THEN "loop" ELSE "idle"

\* The checksum that came with the first commands of the frame, empty lists have
\* none, is not the one of this world.
CrcDiffers(c) ==
    LET batch == cached[c][frame[c]]
    IN  \E i \in DOMAIN batch : /\ stream[batch[i]].cmds # <<>>
                                /\ \A j \in 1 .. i - 1 : stream[batch[j]].cmds = <<>>
                                /\ stream[batch[i]].crc # crc[c]

\* Mutant of GiveCommands: the list of the frame is not cleared.
GiveCommandsKeepsList(c) ==
    LET f      == frame[c]
        batch  == cached[c][f]
        lists  == [i \in DOMAIN batch |-> stream[batch[i]].cmds]
    IN  /\ connected[c]
        /\ pc[c] = "keyframe"
        /\ f \in DOMAIN cached[c]
        /\ given' = [given EXCEPT ![c] = @ \o batch]
        /\ paused' = [paused EXCEPT ![c] = PauseAfter(@, lists)]
        /\ desync' = [desync EXCEPT ![c] = @ \/ CrcDiffers(c)]
        /\ connected' = [connected EXCEPT ![c] = ~CrcDiffers(c)]
        /\ pc' = [pc EXCEPT ![c] = AfterKeyframe(c)]
        /\ UNCHANGED <<netVars, received, cached, loops, frame, crc, stream,
                       autoPaused>>

\* getNetworkCommand finds the entry of its frame: all of it is given to the
\* world, and the checksum that came with the first commands is compared.
GiveCommands(c) ==
    LET f      == frame[c]
        batch  == cached[c][f]
        lists  == [i \in DOMAIN batch |-> stream[batch[i]].cmds]
    IN  /\ connected[c]
        /\ pc[c] = "keyframe"
        /\ f \in DOMAIN cached[c]
        /\ given' = [given EXCEPT ![c] = @ \o batch]
        /\ cached' = [cached EXCEPT ![c][f] = <<>>]
        /\ paused' = [paused EXCEPT ![c] = PauseAfter(@, lists)]
        /\ desync' = [desync EXCEPT ![c] = @ \/ CrcDiffers(c)]
        /\ connected' = [connected EXCEPT ![c] = ~CrcDiffers(c)]
        /\ pc' = [pc EXCEPT ![c] = AfterKeyframe(c)]
        /\ UNCHANGED <<netVars, received, loops, frame, crc, stream, autoPaused>>

\* Mutant of SkipFrame: the client does not wait for its frame.
SkipFrameUnseen(c) ==
    /\ connected[c]
    /\ pc[c] = "keyframe"
    /\ frame[c] \notin DOMAIN cached[c]
    /\ pc' = [pc EXCEPT ![c] = AfterKeyframe(c)]
    /\ UNCHANGED <<netVars, received, cached, given, loops, desync, connected,
                   worldVars, stream, autoPaused>>

\* getNetworkCommand finds no entry but has seen a later frame: nothing was
\* sent for this one.
SkipFrame(c) ==
    /\ connected[c]
    /\ pc[c] = "keyframe"
    /\ frame[c] \notin DOMAIN cached[c]
    /\ CachedLast(c) > frame[c]
    /\ pc' = [pc EXCEPT ![c] = AfterKeyframe(c)]
    /\ UNCHANGED <<netVars, received, cached, given, loops, desync, connected,
                   worldVars, stream, autoPaused>>

\* The connection breaks: ClientInterface::close on one end, and
\* ConnectionSlot::close on the other.
Disconnect(c) ==
    /\ connected[c]
    /\ connected' = [connected EXCEPT ![c] = FALSE]
    /\ UNCHANGED <<netVars, received, cached, given, pc, loops, desync,
                   worldVars, stream, autoPaused>>

-----------------------------------------------------------------------------
ServerStep == \/ ServerUpdate
              \/ ServerPausedUpdate

GameThread(c) == \/ BeginUpdate(c)
                 \/ NextLoop(c)
                 \/ BeginUpdateWithoutLoops(c)
                 \/ GiveCommands(c)
                 \/ SkipFrame(c)

Next == \/ \E p \in Player, k \in Kind : RequestCommand(p, k)
        \/ ServerStep
        \/ ToggleAutoPaused
        \/ \E c \in Client : \/ ClientSend(c)
                             \/ SlotReceive(c)
                             \/ ExecuteNetworkCommandsFromClients(c)
                             \/ ReceiveCommandList(c)
                             \/ GameThread(c)
                             \/ Disconnect(c)

Spec == Init /\ [][Next]_vars

(***************************************************************************)
(* Fairness: the main loop of a client runs Game::update over and over,    *)
(* its receiver thread loops until it quits, and the counter that slows a  *)
(* client down (framesToSlowDownAsClient) is finite and only refilled by   *)
(* frames that pass, so a client that is not paused updates its world      *)
(* again and again.  Nothing is assumed of the server or of the players.   *)
(***************************************************************************)
FairSpec == /\ Spec
            /\ \A c \in Client : /\ WF_vars(ReceiveCommandList(c))
                                 /\ WF_vars(GameThread(c))
                                 /\ SF_vars(BeginUpdate(c))

-----------------------------------------------------------------------------
(***************************************************************************)
(* Properties.                                                             *)
(***************************************************************************)

\* Every variable has the type its declaration in the code gives it.
TypeOK ==
    /\ requested \in [Player -> Seq(Command)]
    /\ numbered \in [Player -> Nat]
    /\ toServer \in [Client -> Seq(Seq(Command))]
    /\ slotPending \in [Client -> Seq(Command)]
    /\ stream \in Seq([frame : Nat, cmds : Seq(Command),
                       crc : [frame : Nat, given : Seq(Nat)]])
    /\ received \in [Client -> Nat]
    /\ DOMAIN cached = Client
    /\ \A c \in Client : /\ cached[c] \in [DOMAIN cached[c] -> Seq(Nat)]
                         /\ DOMAIN cached[c] \subseteq Nat
    /\ given \in [Client -> Seq(Nat)]
    /\ frame \in [Player -> Nat]
    /\ paused \in [Player -> BOOLEAN]
    /\ crc \in [Player -> [frame : Nat, given : Seq(Nat)]]
    /\ pc \in [Client -> {"idle", "loop", "keyframe"}]
    /\ loops \in [Client -> Nat]
    /\ autoPaused \in BOOLEAN
    /\ desync \in [Client -> BOOLEAN]
    /\ connected \in [Client -> BOOLEAN]

\* The worlds agree: what a client has given to its world is what the server
\* has given to its own, in the same order, without a gap or a repetition.
\* cachedPendingCommands is filled by one thread and emptied by another, and
\* it is looked up by frame, so none of this is visible in one function.
Agreement ==
    \A c \in Client : /\ Len(given[c]) <= Len(stream)
                      /\ \A i \in 1 .. Len(given[c]) : given[c][i] = i

\* A client's world leaves a frame only with everything the server has given
\* to its own world at that frame, the commands of a paused game included.
NothingLeftBehind ==
    \A c \in Client : \A i \in 1 .. Len(stream) :
        stream[i].frame < frame[c] => i <= Len(given[c])

\* A client never passes a keyframe that the server has not broadcast or passed.
ClientBehindServer ==
    \A c \in Client : \A f \in 1 .. MaxFrame + Period :
        f < frame[c] /\ IsKeyframe(f) => f <= frame[Server]

\* The checksum a client finds with a command list is always its own: the quit
\* of getNetworkCommand cannot be caused by the protocol itself.
NoDesync == \A c \in Client : ~desync[c]

\* The lists a command of player p may be in: those of its own interface, of
\* the way to its slot and of the slot, the server's, and the broadcasts.
OwnList(p)   == IF p = Server THEN <<>> ELSE requested[p]
SlotList(p)  == IF p = Server THEN <<>> ELSE slotPending[p]
WayLists(p)  == IF p = Server THEN <<>> ELSE toServer[p]
SentLists    == [i \in DOMAIN stream |-> stream[i].cmds]
HeldLists(p) == WayLists(p) \o <<OwnList(p), SlotList(p), requested[Server]>>
                    \o SentLists

\* While a client is connected none of its commands is lost or doubled: it is
\* in one place of one of those lists.
Conservation ==
    \A p \in Player : (p \in Client => connected[p]) =>
        \A k \in 1 .. numbered[p] :
            LET lists == HeldLists(p)
                Is(x) == x.player = p /\ x.number = k
            IN  \E n \in DOMAIN lists : \E i \in DOMAIN lists[n] :
                    /\ Is(lists[n][i])
                    /\ \A m \in DOMAIN lists : \A j \in DOMAIN lists[m] :
                           Is(lists[m][j]) => m = n /\ j = i

\* The command lists a client has given to its world.
World == [c \in Client |-> [i \in DOMAIN given[c] |-> stream[given[c][i]]]]

Log == INSTANCE CommandLog WITH log <- stream, world <- World, at <- frame

\* Lockstep implements the log: what is given, when, and who waits for whom.
ImplementsLog == Log!Spec

\* Every broadcast is eventually given to the world of every client that stays
\* connected: getNetworkCommand cannot spin for ever on a list that was sent.
BroadcastsAreGiven ==
    \A c \in Client : \A i \in 1 .. MaxBroadcast :
        (i <= Len(stream)) ~> (~connected[c] \/ i <= Len(given[c]))
=============================================================================
