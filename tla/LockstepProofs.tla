--------------------------- MODULE LockstepProofs ---------------------------
(***************************************************************************)
(* Theorems about Lockstep, for every number of clients, every keyframe    *)
(* period and every number of catch-up loops up to that period.            *)
(***************************************************************************)
EXTENDS Lockstep, Integers, TLAPS

-----------------------------------------------------------------------------
(***************************************************************************)
(* The inductive invariant.                                                *)
(***************************************************************************)

\* What the commands of the first n of the broadcasts s say of the pause.
PausedBy(s, n) == \E i \in 1 .. n : /\ Pauses(s[i].cmds)
                                    /\ \A j \in i + 1 .. n : Quiet(s[j].cmds)

\* Broadcasts are made at keyframes, in the order of frames; a frame has a
\* second one only if the game was paused then.
StreamInv ==
    /\ \A i \in 1 .. Len(stream) : /\ 0 < stream[i].frame
                                   /\ stream[i].frame <= frame[Server]
                                   /\ IsKeyframe(stream[i].frame)
    /\ \A i, j \in 1 .. Len(stream) : i <= j => stream[i].frame <= stream[j].frame
    /\ \A i, j \in 1 .. Len(stream) :
           i < j /\ stream[i].frame = stream[j].frame => PausedBy(stream, j - 1)
    /\ paused[Server] = PausedBy(stream, Len(stream))

\* A client has given the first broadcasts to its world; cachedPendingCommands
\* has the other ones it has received, a frame's in one gapless run.
Seen(c) == Len(given[c])

CacheInv(c) ==
    /\ Seen(c) <= received[c]
    /\ received[c] <= Len(stream)
    /\ \A i \in 1 .. Seen(c) : given[c][i] = i
    /\ \A F \in Nat : F \in DOMAIN cached[c]
                        <=> \E i \in 1 .. received[c] : stream[i].frame = F
    /\ \A F \in DOMAIN cached[c] : \A k \in 1 .. Len(cached[c][F]) :
           /\ cached[c][F][k] \in Seen(c) + 1 .. received[c]
           /\ stream[cached[c][F][k]].frame = F
           /\ cached[c][F][k] = cached[c][F][1] + k - 1
    /\ \A i \in Seen(c) + 1 .. received[c] :
           \E k \in 1 .. Len(cached[c][stream[i].frame]) :
               cached[c][stream[i].frame][k] = i

\* The client was paused inside the catch-up loop and has left its keyframe.
Lost(c) == /\ paused[c]
           /\ pc[c] # "keyframe"
           /\ \A d \in 0 .. loops[c] : ~IsKeyframe(frame[c] + d)

ClientInv(c) ==
    /\ paused[c] = PausedBy(stream, Seen(c))
    /\ paused[c] => Lost(c) \/ (Seen(c) > 0 /\ stream[Seen(c)].frame = frame[c])
    /\ \A K \in Nat :
           IsKeyframe(K) /\ (K < frame[c] \/ (K = frame[c] /\ pc[c] # "keyframe"))
               => K <= frame[Server]
    /\ ~Lost(c) => \A i \in Seen(c) + 1 .. Len(stream) : frame[c] <= stream[i].frame
    /\ pc[c] # "keyframe" /\ ~paused[c] /\ IsKeyframe(frame[c])
           => \A i \in Seen(c) + 1 .. Len(stream) : frame[c] < stream[i].frame
    /\ loops[c] < Period
    /\ pc[c] = "idle" => loops[c] = 0
    /\ pc[c] = "keyframe" => IsKeyframe(frame[c])

\* TypeOK is not inductive by itself: a loop that counts down has to be known
\* not to have ended.
LoopType == \A c \in Client : pc[c] = "loop" => loops[c] > 0

Inv == /\ TypeOK
       /\ LoopType
       /\ StreamInv
       /\ \A c \in Client : CacheInv(c) /\ ClientInv(c)

-----------------------------------------------------------------------------
(***************************************************************************)
(* Type correctness.                                                       *)
(***************************************************************************)

\* Reversing a list keeps its elements.
LEMMA ReverseType ==
    ASSUME NEW S, NEW s \in Seq(S)
    PROVE  Reverse(s) \in Seq(S)
  BY DEF Reverse

\* The empty list is a list.
LEMMA EmptyType == ASSUME NEW S PROVE <<>> \in Seq(S)
  OBVIOUS

USE NumClientsAssumption, PeriodAssumption, MaxLoopsAssumption, BoundsAssumption,
    AdminsAssumption

Broadcast == [frame : Nat, cmds : Seq(Command), crc : [frame : Nat, given : Seq(Nat)]]

\* What a broadcast consists of.
LEMMA BroadcastType ==
    ASSUME TypeOK, NEW i \in 1 .. Len(stream)
    PROVE  stream[i] \in Broadcast /\ stream[i].frame \in Nat
<1>1. stream \in Seq(Broadcast)
  BY DEF TypeOK, Broadcast
<1>2. stream[i] \in Broadcast
  BY <1>1
<1> QED
  BY <1>2 DEF Broadcast

\* The number of the next broadcast a client receives, and its frame.
LEMMA NextBroadcast ==
    ASSUME TypeOK, NEW c \in Client, ReceiveCommandList(c)
    PROVE  /\ received[c] + 1 \in 1 .. Len(stream)
           /\ stream[received[c] + 1] \in Broadcast
           /\ stream[received[c] + 1].frame \in Nat
<1> DEFINE n == received[c] + 1
<1>1. stream \in Seq(Broadcast)
  BY DEF TypeOK, Broadcast
<1>2. n \in 1 .. Len(stream)
  <2>1. received[c] \in Nat
    BY DEF TypeOK
  <2>2. n <= Len(stream)
    BY DEF ReceiveCommandList
  <2> QED
    BY <1>1, <2>1, <2>2
<1>3. stream[n] \in Broadcast
  BY <1>1, <1>2
<1> QED
  BY <1>2, <1>3 DEF Broadcast

\* Requests and their way to the server keep the types.
LEMMA RequestTypes ==
    ASSUME TypeOK, LoopType
    PROVE  /\ \A p \in Player, k \in Kind :
                  RequestCommand(p, k) => TypeOK' /\ LoopType'
           /\ \A c \in Client : ClientSend(c) => TypeOK' /\ LoopType'
           /\ \A c \in Client : SlotReceive(c) => TypeOK' /\ LoopType'
           /\ \A c \in Client :
                  ExecuteNetworkCommandsFromClients(c) => TypeOK' /\ LoopType'
<1>1. ASSUME NEW p \in Player, NEW k \in Kind, RequestCommand(p, k)
      PROVE  TypeOK' /\ LoopType'
  <2>1. numbered[p] + 1 \in Nat
    BY DEF TypeOK
  <2>2. [player |-> p, number |-> numbered[p] + 1, kind |-> k] \in Command
    BY <2>1 DEF Command
  <2>3. Append(requested[p], [player |-> p, number |-> numbered[p] + 1, kind |-> k])
            \in Seq(Command)
    BY <2>2 DEF TypeOK
  <2>4. requested' \in [Player -> Seq(Command)] /\ numbered' \in [Player -> Nat]
    BY <1>1, <2>1, <2>3 DEF TypeOK, RequestCommand
  <2> QED
    BY <1>1, <2>4 DEF TypeOK, LoopType, RequestCommand, clientVars, worldVars
<1>2. ASSUME NEW c \in Client, ClientSend(c) PROVE TypeOK' /\ LoopType'
  <2>1. Reverse(requested[c]) \in Seq(Command)
    BY ReverseType DEF TypeOK, Player
  <2>2. Append(toServer[c], Reverse(requested[c])) \in Seq(Seq(Command))
    BY <2>1 DEF TypeOK
  <2>3. toServer' \in [Client -> Seq(Seq(Command))]
    BY <1>2, <2>2 DEF TypeOK, ClientSend
  <2>4. requested' \in [Player -> Seq(Command)]
    BY <1>2, EmptyType DEF TypeOK, ClientSend
  <2> QED
    BY <1>2, <2>3, <2>4 DEF TypeOK, LoopType, ClientSend, clientVars, worldVars
<1>3. ASSUME NEW c \in Client, SlotReceive(c) PROVE TypeOK' /\ LoopType'
  <2>1. toServer[c] \in Seq(Seq(Command)) /\ toServer[c] # <<>>
    BY <1>3 DEF TypeOK, SlotReceive
  <2>2. Head(toServer[c]) \in Seq(Command) /\ Tail(toServer[c]) \in Seq(Seq(Command))
    BY <2>1
  <2>3. slotPending[c] \o Head(toServer[c]) \in Seq(Command)
    BY <2>2 DEF TypeOK
  <2>4. /\ slotPending' \in [Client -> Seq(Command)]
        /\ toServer' \in [Client -> Seq(Seq(Command))]
    BY <1>3, <2>2, <2>3 DEF TypeOK, SlotReceive
  <2> QED
    BY <1>3, <2>4 DEF TypeOK, LoopType, SlotReceive, clientVars, worldVars
<1>4. ASSUME NEW c \in Client, ExecuteNetworkCommandsFromClients(c)
      PROVE  TypeOK' /\ LoopType'
  <2>1. requested[Server] \o slotPending[c] \in Seq(Command)
    BY DEF TypeOK, Player
  <2>2. /\ requested' \in [Player -> Seq(Command)]
        /\ slotPending' \in [Client -> Seq(Command)]
    BY <1>4, <2>1, EmptyType DEF TypeOK, ExecuteNetworkCommandsFromClients
  <2> QED
    BY <1>4, <2>2 DEF TypeOK, LoopType, ExecuteNetworkCommandsFromClients,
                      clientVars, worldVars
<1> QED
  BY <1>1, <1>2, <1>3, <1>4

\* The server's game thread keeps the types.
LEMMA ServerTypes ==
    ASSUME TypeOK, LoopType, ServerStep
    PROVE  TypeOK' /\ LoopType'
<1>1. Server \in Player
  BY DEF Player
<1>2. ASSUME NEW f \in Nat, ServerKeyframe(f),
             crc' \in [Player -> [frame : Nat, given : Seq(Nat)]]
      PROVE  /\ requested' \in [Player -> Seq(Command)]
             /\ paused' \in [Player -> BOOLEAN]
             /\ stream' \in Seq(Broadcast)
  <2> DEFINE cmds == Reverse(requested[Server])
             b == [frame |-> f, cmds |-> cmds, crc |-> crc'[Server]]
  <2>1. cmds \in Seq(Command)
    BY <1>1, ReverseType DEF TypeOK
  <2>2. b \in Broadcast
    BY <1>1, <1>2, <2>1 DEF Broadcast
  <2>3. stream \in Seq(Broadcast)
    BY DEF TypeOK, Broadcast
  <2>4. requested' \in [Player -> Seq(Command)]
    BY <1>2, EmptyType DEF TypeOK, ServerKeyframe
  <2>5. paused' \in [Player -> BOOLEAN]
    BY <1>2 DEF TypeOK, ServerKeyframe, PauseAfter
  <2>6. stream' = Append(stream, b) \/ stream' = stream
    BY <1>2 DEF ServerKeyframe
  <2> HIDE DEF b
  <2>7. Append(stream, b) \in Seq(Broadcast)
    BY <2>2, <2>3
  <2>8. stream' \in Seq(Broadcast)
    BY <2>3, <2>6, <2>7
  <2> QED
    BY <2>4, <2>5, <2>8
<1>3. CASE ServerUpdate
  <2>1. frame' \in [Player -> Nat] /\ frame[Server] + 1 \in Nat
    BY <1>1, <1>3 DEF TypeOK, ServerUpdate
  <2>2. ServerGave \in Seq(Nat)
    BY DEF TypeOK, ServerGave
  <2>3. crc' \in [Player -> [frame : Nat, given : Seq(Nat)]]
    BY <1>1, <1>3, <2>2 DEF TypeOK, ServerUpdate, Digest
  <2>4. /\ requested' \in [Player -> Seq(Command)]
        /\ paused' \in [Player -> BOOLEAN]
        /\ stream' \in Seq(Broadcast)
    <3>1. CASE IsKeyframe(frame[Server] + 1)
      BY <1>2, <1>3, <2>1, <2>3, <3>1 DEF ServerUpdate
    <3>2. CASE ~IsKeyframe(frame[Server] + 1)
      BY <1>3, <3>2 DEF TypeOK, ServerUpdate, Broadcast
    <3> QED
      BY <3>1, <3>2
  <2> QED
    BY <1>3, <2>1, <2>3, <2>4 DEF TypeOK, LoopType, ServerUpdate, clientVars, Broadcast
<1>4. CASE ServerPausedUpdate
  <2>1. frame[Server] \in Nat /\ crc' \in [Player -> [frame : Nat, given : Seq(Nat)]]
    BY <1>1, <1>4 DEF TypeOK, ServerPausedUpdate
  <2>2. /\ requested' \in [Player -> Seq(Command)]
        /\ paused' \in [Player -> BOOLEAN]
        /\ stream' \in Seq(Broadcast)
    BY <1>2, <1>4, <2>1 DEF ServerPausedUpdate
  <2> QED
    BY <1>4, <2>1, <2>2 DEF TypeOK, LoopType, ServerPausedUpdate, clientVars, Broadcast
<1> QED
  BY <1>3, <1>4 DEF ServerStep

\* A world update of one pass of the loop keeps the types.
LEMMA WorldUpdateType ==
    ASSUME TypeOK, LoopType, NEW c \in Client, NEW left \in Nat, WorldUpdate(c, left)
    PROVE  TypeOK' /\ LoopType'
<1>1. c \in Player /\ frame[c] \in Nat /\ frame[c] + 1 \in Nat
  BY DEF TypeOK, Player
<1>2. frame' \in [Player -> Nat] /\ loops' \in [Client -> Nat]
  BY <1>1 DEF TypeOK, WorldUpdate
<1>3. crc' \in [Player -> [frame : Nat, given : Seq(Nat)]]
  BY <1>1 DEF TypeOK, WorldUpdate, Digest
<1>4. pc' \in [Client -> {"idle", "loop", "keyframe"}]
  BY DEF TypeOK, WorldUpdate
<1>5. LoopType'
  BY DEF TypeOK, LoopType, WorldUpdate
<1> QED
  BY <1>2, <1>3, <1>4, <1>5 DEF TypeOK, WorldUpdate, netVars

\* The receiver thread and the game thread of a client keep the types.
LEMMA ClientTypes ==
    ASSUME TypeOK, LoopType, NEW c \in Client
    PROVE  /\ ReceiveCommandList(c) => TypeOK' /\ LoopType'
           /\ GameThread(c) => TypeOK' /\ LoopType'
           /\ Disconnect(c) => TypeOK' /\ LoopType'
<1>1. ASSUME ReceiveCommandList(c) PROVE TypeOK' /\ LoopType'
  <2> DEFINE n == received[c] + 1
             f == stream[n].frame
  <2>1. n \in Nat /\ f \in Nat
    BY <1>1, NextBroadcast
  <2>2. cached'[c] = [g \in DOMAIN cached[c] \cup {f} |->
                        IF g = f THEN IF f \in DOMAIN cached[c]
                                      THEN Append(cached[c][f], n) ELSE <<n>>
                                 ELSE cached[c][g]]
    BY <1>1 DEF TypeOK, ReceiveCommandList
  <2>3. received' \in [Client -> Nat]
    BY <1>1, <2>1 DEF TypeOK, ReceiveCommandList
  <2>4. DOMAIN cached' = Client /\ \A d \in Client : d # c => cached'[d] = cached[d]
    BY <1>1 DEF TypeOK, ReceiveCommandList
  <2>5. DOMAIN cached[c] \subseteq Nat /\ \A g \in DOMAIN cached[c] : cached[c][g] \in Seq(Nat)
    BY DEF TypeOK
  <2> HIDE DEF n, f
  <2>6. /\ cached'[c] \in [DOMAIN cached'[c] -> Seq(Nat)]
        /\ DOMAIN cached'[c] \subseteq Nat
    BY <2>1, <2>2, <2>5
  <2>7. \A d \in Client : /\ cached'[d] \in [DOMAIN cached'[d] -> Seq(Nat)]
                          /\ DOMAIN cached'[d] \subseteq Nat
    BY <2>4, <2>6 DEF TypeOK
  <2> QED
    BY <1>1, <2>3, <2>4, <2>7 DEF TypeOK, LoopType, ReceiveCommandList, netVars, worldVars
<1>2. ASSUME BeginUpdate(c) PROVE TypeOK' /\ LoopType'
  <2>1. PICK n \in 1 .. MaxLoops : WorldUpdate(c, n - 1)
    BY <1>2 DEF BeginUpdate
  <2> QED
    BY <2>1, WorldUpdateType
<1>3. ASSUME NextLoop(c) PROVE TypeOK' /\ LoopType'
  <2>1. loops[c] - 1 \in Nat
    BY <1>3 DEF TypeOK, LoopType, NextLoop
  <2> QED
    BY <1>3, <2>1, WorldUpdateType DEF NextLoop
<1>4. ASSUME BeginUpdateWithoutLoops(c) PROVE TypeOK' /\ LoopType'
  BY <1>4 DEF TypeOK, LoopType, BeginUpdateWithoutLoops, netVars, worldVars
<1>5. ASSUME GiveCommands(c) PROVE TypeOK' /\ LoopType'
  <2>1. /\ frame[c] \in DOMAIN cached[c]
        /\ cached[c][frame[c]] \in Seq(Nat)
    BY <1>5 DEF TypeOK, GiveCommands
  <2>2. given' \in [Client -> Seq(Nat)]
    <3>1. given' = [given EXCEPT ![c] = given[c] \o cached[c][frame[c]]]
      BY <1>5 DEF GiveCommands
    <3>2. given \in [Client -> Seq(Nat)]
      BY DEF TypeOK
    <3>3. given[c] \o cached[c][frame[c]] \in Seq(Nat)
      BY <2>1, <3>2
    <3> QED
      BY <3>1, <3>2, <3>3
  <2>3. /\ DOMAIN cached' = Client
        /\ \A d \in Client : d # c => cached'[d] = cached[d]
        /\ cached'[c] = [cached[c] EXCEPT ![frame[c]] = <<>>]
    BY <1>5 DEF TypeOK, GiveCommands
  <2>4. /\ cached'[c] \in [DOMAIN cached'[c] -> Seq(Nat)]
        /\ DOMAIN cached'[c] \subseteq Nat
    <3>1. cached[c] \in [DOMAIN cached[c] -> Seq(Nat)] /\ DOMAIN cached[c] \subseteq Nat
      BY DEF TypeOK
    <3>2. [cached[c] EXCEPT ![frame[c]] = <<>>] \in [DOMAIN cached[c] -> Seq(Nat)]
      BY <2>1, <3>1, EmptyType
    <3> QED
      BY <2>3, <3>1, <3>2
  <2>5. \A d \in Client : /\ cached'[d] \in [DOMAIN cached'[d] -> Seq(Nat)]
                          /\ DOMAIN cached'[d] \subseteq Nat
    BY <2>3, <2>4 DEF TypeOK
  <2>6. paused' \in [Player -> BOOLEAN]
    BY <1>5 DEF TypeOK, GiveCommands, PauseAfter
  <2>7. /\ desync' \in [Client -> BOOLEAN]
        /\ connected' \in [Client -> BOOLEAN]
    BY <1>5 DEF TypeOK, GiveCommands
  <2>8. pc' \in [Client -> {"idle", "loop", "keyframe"}] /\ LoopType'
    BY <1>5 DEF TypeOK, LoopType, GiveCommands, AfterKeyframe
  <2> QED
    BY <1>5, <2>2, <2>3, <2>5, <2>6, <2>7, <2>8 DEF TypeOK, GiveCommands, netVars
<1>6. ASSUME SkipFrame(c) PROVE TypeOK' /\ LoopType'
  BY <1>6 DEF TypeOK, LoopType, SkipFrame, netVars, worldVars, AfterKeyframe
<1>7. ASSUME Disconnect(c) PROVE TypeOK' /\ LoopType'
  BY <1>7 DEF TypeOK, LoopType, Disconnect, netVars, worldVars
<1> QED
  BY <1>1, <1>2, <1>3, <1>4, <1>5, <1>6, <1>7 DEF GameThread

\* Every step keeps the types.
LEMMA TypeStep == TypeOK /\ LoopType /\ [Next]_vars => TypeOK' /\ LoopType'
<1> SUFFICES ASSUME TypeOK, LoopType, [Next]_vars PROVE TypeOK' /\ LoopType'
  OBVIOUS
<1>1. CASE ToggleAutoPaused
  BY <1>1 DEF TypeOK, LoopType, ToggleAutoPaused, netVars, clientVars, worldVars
<1>2. CASE UNCHANGED vars
  BY <1>2 DEF TypeOK, LoopType, vars, netVars, clientVars, worldVars
<1> QED
  BY <1>1, <1>2, RequestTypes, ServerTypes, ClientTypes DEF Next

\* The initial values have their types.
LEMMA InitTypes == Init => TypeOK /\ LoopType
<1> SUFFICES ASSUME Init PROVE TypeOK /\ LoopType
  OBVIOUS
<1>1. \A c \in Client : /\ cached[c] \in [DOMAIN cached[c] -> Seq(Nat)]
                        /\ DOMAIN cached[c] \subseteq Nat
  BY DEF Init
<1>2. crc \in [Player -> [frame : Nat, given : Seq(Nat)]]
  BY EmptyType DEF Init
<1>3. /\ requested \in [Player -> Seq(Command)]
      /\ toServer \in [Client -> Seq(Seq(Command))]
      /\ slotPending \in [Client -> Seq(Command)]
      /\ stream \in Seq(Broadcast)
      /\ given \in [Client -> Seq(Nat)]
  BY EmptyType DEF Init
<1>4. pc \in [Client -> {"idle", "loop", "keyframe"}] /\ LoopType
  BY DEF Init, LoopType
<1> QED
  BY <1>1, <1>2, <1>3, <1>4 DEF Init, TypeOK, Broadcast

\* Every variable keeps the type of its declaration in the code.
THEOREM TypeCorrect == Spec => []TypeOK
  BY InitTypes, TypeStep, PTL DEF Spec

-----------------------------------------------------------------------------
(***************************************************************************)
(* Lemmas on keyframes and on what command lists say of the pause.         *)
(***************************************************************************)

\* Less than a period after a keyframe there is no other.
LEMMA KeyframeGap ==
    ASSUME NEW f \in Nat, NEW d \in 1 .. Period - 1, IsKeyframe(f)
    PROVE  ~IsKeyframe(f + d)
<1> DEFINE k == f \div Period
           l == (f + d) \div Period
<1>1. k \in Int /\ l \in Int
  OBVIOUS
<1>2. f = Period * k
  BY DEF IsKeyframe
<1> SUFFICES ASSUME IsKeyframe(f + d) PROVE FALSE
  OBVIOUS
<1>3. f + d = Period * l
  BY DEF IsKeyframe
<1> HIDE DEF k, l
<1>4. d = (l - k) * Period
  BY <1>1, <1>2, <1>3
<1>5. l - k >= 1
  BY <1>1, <1>4
<1>6. (l - k) * Period >= Period
  BY <1>1, <1>5
<1> QED
  BY <1>4, <1>6

\* Only the broadcasts counted matter.
LEMMA PausedByAgree ==
    ASSUME NEW s, NEW t, NEW n \in Nat, \A i \in 1 .. n : s[i] = t[i]
    PROVE  PausedBy(s, n) = PausedBy(t, n)
  BY DEF PausedBy

\* Giving the command lists after the first g, up to number h, carries the
\* pause over them.
LEMMA PausedByMore ==
    ASSUME NEW s, NEW g \in Nat, NEW h \in Nat, g <= h, NEW lists,
           DOMAIN lists = 1 .. h - g,
           \A k \in 1 .. h - g : lists[k] = s[g + k].cmds
    PROVE  PauseAfter(PausedBy(s, g), lists) = PausedBy(s, h)
<1> DEFINE m == h - g
<1>0. m \in Nat /\ g + m = h
  OBVIOUS
<1> HIDE DEF m
<1> SUFFICES ASSUME DOMAIN lists = 1 .. m, \A k \in 1 .. m : lists[k] = s[g + k].cmds
             PROVE  PauseAfter(PausedBy(s, g), lists) = PausedBy(s, g + m)
  BY <1>0 DEF m
<1> USE <1>0
<1>1. ASSUME PauseAfter(PausedBy(s, g), lists) PROVE PausedBy(s, g + m)
  <2>1. CASE PausedBy(s, g) /\ \A i \in 1 .. m : Quiet(s[g + i].cmds)
    <3>1. PICK i \in 1 .. g : /\ Pauses(s[i].cmds)
                              /\ \A j \in i + 1 .. g : Quiet(s[j].cmds)
      BY <2>1 DEF PausedBy
    <3>2. \A j \in i + 1 .. g + m : Quiet(s[j].cmds)
      <4> TAKE j \in i + 1 .. g + m
      <4>1. CASE j <= g
        BY <3>1, <4>1
      <4>2. CASE j > g
        <5>1. j - g \in 1 .. m /\ g + (j - g) = j
          BY <4>2
        <5> QED
          BY <2>1, <5>1
      <4> QED
        BY <4>1, <4>2
    <3> QED
      BY <3>1, <3>2 DEF PausedBy
  <2>2. CASE \E i \in 1 .. m : /\ Pauses(s[g + i].cmds)
                               /\ \A j \in 1 .. m : j > i => Quiet(s[g + j].cmds)
    <3>1. PICK i \in 1 .. m : /\ Pauses(s[g + i].cmds)
                              /\ \A j \in 1 .. m : j > i => Quiet(s[g + j].cmds)
      BY <2>2
    <3>2. ASSUME NEW j \in g + i + 1 .. g + m PROVE Quiet(s[j].cmds)
      <4>1. j - g \in 1 .. m /\ j - g > i /\ g + (j - g) = j
        OBVIOUS
      <4> QED
        BY <3>1, <4>1
    <3> QED
      BY <3>1, <3>2 DEF PausedBy
  <2> QED
    BY <1>1, <2>1, <2>2 DEF PauseAfter
<1>2. ASSUME PausedBy(s, g + m) PROVE PauseAfter(PausedBy(s, g), lists)
  <2>1. PICK i \in 1 .. g + m : /\ Pauses(s[i].cmds)
                                /\ \A j \in i + 1 .. g + m : Quiet(s[j].cmds)
    BY <1>2 DEF PausedBy
  <2>2. CASE i <= g
    <3>1. PausedBy(s, g)
      BY <2>1, <2>2 DEF PausedBy
    <3>2. \A k \in 1 .. m : Quiet(s[g + k].cmds)
      BY <2>1, <2>2
    <3> QED
      BY <3>1, <3>2 DEF PauseAfter
  <2>3. CASE i > g
    <3> DEFINE k == i - g
    <3>1. k \in 1 .. m /\ g + k = i
      BY <2>3
    <3>2. \A j \in 1 .. m : j > k => Quiet(s[g + j].cmds)
      BY <2>1, <3>1
    <3> QED
      BY <2>1, <3>1, <3>2 DEF PauseAfter
  <2> QED
    BY <2>2, <2>3
<1>3. /\ PauseAfter(PausedBy(s, g), lists) \in BOOLEAN
      /\ PausedBy(s, g + m) \in BOOLEAN
  BY DEF PauseAfter, PausedBy
<1> QED
  BY <1>1, <1>2, <1>3

\* Giving one more command list.
LEMMA PausedByNext ==
    ASSUME NEW s, NEW n \in Nat, NEW cmds, s[n + 1].cmds = cmds
    PROVE  PauseAfter(PausedBy(s, n), <<cmds>>) = PausedBy(s, n + 1)
<1> DEFINE lists == <<cmds>>
           h     == n + 1
<1>1. h \in Nat /\ n <= h /\ h - n = 1
  OBVIOUS
<1>2. DOMAIN lists = 1 .. 1 /\ lists[1] = cmds
  OBVIOUS
<1> HIDE DEF lists, h
<1>3. DOMAIN lists = 1 .. h - n
  BY <1>1, <1>2
<1>4. \A k \in 1 .. h - n : lists[k] = s[n + k].cmds
  BY <1>1, <1>2
<1>5. PauseAfter(PausedBy(s, n), lists) = PausedBy(s, h)
  BY <1>1, <1>3, <1>4, PausedByMore, ZenonT(30)
<1> QED
  BY <1>5 DEF lists, h

-----------------------------------------------------------------------------
(***************************************************************************)
(* The server's steps keep the invariant.                                  *)
(***************************************************************************)

\* What a step of the server's game thread comes down to.
LEMMA ServerShape ==
    ASSUME TypeOK, ServerStep
    PROVE  /\ UNCHANGED clientVars
           /\ \A c \in Client : frame'[c] = frame[c] /\ paused'[c] = paused[c]
           /\ \/ frame'[Server] = frame[Server] + 1 /\ ~paused[Server]
              \/ frame'[Server] = frame[Server] /\ paused[Server]
           /\ \/ stream' = stream /\ paused'[Server] = paused[Server]
              \/ \E b \in Broadcast :
                     /\ stream' = Append(stream, b)
                     /\ b.frame = frame'[Server]
                     /\ IsKeyframe(b.frame)
                     /\ paused'[Server] = PauseAfter(paused[Server], <<b.cmds>>)
<1>1. /\ Server \in Player
      /\ frame[Server] \in Nat
      /\ \A c \in Client : c \in Player /\ c # Server
      /\ paused[Server] \in BOOLEAN
  BY DEF TypeOK, Player, Client, Server
<1>2. ASSUME NEW f \in Nat, ServerKeyframe(f), IsKeyframe(f),
             crc' \in [Player -> [frame : Nat, given : Seq(Nat)]]
      PROVE  /\ \A c \in Client : paused'[c] = paused[c]
             /\ \/ stream' = stream /\ paused'[Server] = paused[Server]
                \/ \E b \in Broadcast :
                      /\ stream' = Append(stream, b)
                      /\ b.frame = f
                      /\ IsKeyframe(b.frame)
                      /\ paused'[Server] = PauseAfter(paused[Server], <<b.cmds>>)
  <2> DEFINE cmds == Reverse(requested[Server])
             b == [frame |-> f, cmds |-> cmds, crc |-> crc'[Server]]
  <2>1. cmds \in Seq(Command)
    BY <1>1, ReverseType DEF TypeOK
  <2>2. b \in Broadcast /\ b.frame = f /\ b.cmds = cmds
    BY <1>1, <1>2, <2>1 DEF Broadcast
  <2>3. /\ \A c \in Client : paused'[c] = paused[c]
        /\ paused'[Server] = PauseAfter(paused[Server], <<cmds>>)
    BY <1>1, <1>2 DEF TypeOK, ServerKeyframe
  <2>4. \/ stream' = Append(stream, b)
        \/ cmds = <<>> /\ stream' = stream
    BY <1>2 DEF ServerKeyframe
  <2>5. ASSUME cmds = <<>> PROVE PauseAfter(paused[Server], <<cmds>>) = paused[Server]
    <3>1. Quiet(cmds) /\ ~Pauses(cmds)
      BY <2>5 DEF Quiet, Pauses
    <3> HIDE DEF cmds
    <3>2. DOMAIN <<cmds>> = {1} /\ <<cmds>>[1] = cmds
      OBVIOUS
    <3>3. PauseAfter(paused[Server], <<cmds>>) <=> paused[Server]
      BY <3>1, <3>2 DEF PauseAfter
    <3>4. PauseAfter(paused[Server], <<cmds>>) \in BOOLEAN
      BY DEF PauseAfter
    <3> QED
      BY <1>1, <3>3, <3>4
  <2> HIDE DEF b
  <2> QED
    BY <1>2, <2>2, <2>3, <2>4, <2>5
<1>3. CASE ServerUpdate
  <2>1. /\ frame'[Server] = frame[Server] + 1
        /\ \A c \in Client : frame'[c] = frame[c]
        /\ ~paused[Server]
        /\ UNCHANGED clientVars
    BY <1>1, <1>3 DEF TypeOK, ServerUpdate
  <2>2. ServerGave \in Seq(Nat)
    BY DEF TypeOK, ServerGave
  <2>3. crc' \in [Player -> [frame : Nat, given : Seq(Nat)]]
    BY <1>1, <1>3, <2>2 DEF TypeOK, ServerUpdate, Digest
  <2>4. CASE IsKeyframe(frame[Server] + 1)
    <3>1. ServerKeyframe(frame[Server] + 1) /\ frame[Server] + 1 \in Nat
      BY <1>1, <1>3, <2>4 DEF ServerUpdate
    <3> HIDE DEF ServerStep
    <3> QED
      BY <1>2, <2>1, <2>3, <2>4, <3>1
  <2>5. CASE ~IsKeyframe(frame[Server] + 1)
    BY <1>3, <2>1, <2>5 DEF ServerUpdate
  <2> QED
    BY <2>4, <2>5
<1>4. CASE ServerPausedUpdate
  BY <1>1, <1>2, <1>4 DEF TypeOK, ServerPausedUpdate
<1> QED
  BY <1>3, <1>4 DEF ServerStep

\* A new broadcast, and the frame it is made at, keep the order of the stream.
LEMMA ServerStream ==
    ASSUME TypeOK, StreamInv, ServerStep
    PROVE  StreamInv'
<1>1. frame[Server] \in Nat /\ stream \in Seq(Broadcast)
  BY DEF TypeOK, Player, Broadcast
<1>2. CASE stream' = stream /\ paused'[Server] = paused[Server]
  <2>1. frame[Server] <= frame'[Server]
    BY <1>1, ServerShape
  <2>2. \A i \in 1 .. Len(stream) : stream[i].frame \in Nat
    BY BroadcastType
  <2>3. frame'[Server] \in Nat
    BY <1>1, ServerShape
  <2>4. \A i \in 1 .. Len(stream) : stream[i].frame <= frame'[Server]
    BY <1>1, <2>1, <2>2, <2>3 DEF StreamInv
  <2> QED
    BY <1>2, <2>4 DEF StreamInv
<1>3. ASSUME NEW b \in Broadcast,
             stream' = Append(stream, b),
             b.frame = frame'[Server],
             IsKeyframe(b.frame),
             paused'[Server] = PauseAfter(paused[Server], <<b.cmds>>)
      PROVE  StreamInv'
  <2> DEFINE n == Len(stream)
  <2>1. /\ n \in Nat
        /\ Len(stream') = n + 1
        /\ \A i \in 1 .. n : stream'[i] = stream[i] /\ stream[i] \in Broadcast
        /\ stream'[n + 1] = b
    BY <1>1, <1>3
  <2>2. \A i \in 1 .. n : stream[i].frame \in Nat
    BY <2>1 DEF Broadcast
  <2>3. \/ frame'[Server] = frame[Server] + 1
        \/ frame'[Server] = frame[Server] /\ PausedBy(stream, n)
    BY ServerShape DEF StreamInv
  <2> HIDE DEF n
  <2>4. /\ 0 < b.frame
        /\ frame'[Server] \in Nat
        /\ frame[Server] <= frame'[Server]
    <3>1. CASE frame'[Server] = frame[Server] + 1
      BY <1>1, <1>3, <3>1
    <3>2. CASE frame'[Server] = frame[Server] /\ PausedBy(stream, n)
      <4>1. PICK i \in 1 .. n : TRUE
        BY <2>1, <3>2 DEF PausedBy
      <4>2. 0 < stream[i].frame /\ stream[i].frame <= frame[Server]
        BY <4>1 DEF StreamInv, n
      <4> QED
        BY <1>1, <1>3, <2>2, <3>2, <4>2
    <3> QED
      BY <2>3, <3>1, <3>2
  <2>5. \A i \in 1 .. n : 0 < stream[i].frame /\ stream[i].frame <= frame[Server]
                           /\ IsKeyframe(stream[i].frame)
    BY DEF StreamInv, n
  <2>6. \A i \in 1 .. n + 1 : /\ 0 < stream'[i].frame
                               /\ stream'[i].frame <= frame'[Server]
                               /\ IsKeyframe(stream'[i].frame)
    <3> TAKE i \in 1 .. n + 1
    <3>1. CASE i \in 1 .. n
      BY <1>1, <2>1, <2>2, <2>4, <2>5, <3>1
    <3>2. CASE i = n + 1
      BY <1>3, <2>1, <2>4, <3>2
    <3> QED
      BY <2>1, <3>1, <3>2
  <2>7. \A i, j \in 1 .. n + 1 : i <= j => stream'[i].frame <= stream'[j].frame
    <3> SUFFICES ASSUME NEW i \in 1 .. n + 1, NEW j \in 1 .. n + 1, i <= j
                 PROVE  stream'[i].frame <= stream'[j].frame
      OBVIOUS
    <3>1. CASE j \in 1 .. n
      BY <2>1, <3>1 DEF StreamInv, n
    <3>2. CASE j = n + 1
      BY <1>3, <2>1, <2>6, <3>2
    <3> QED
      BY <2>1, <3>1, <3>2
  <2>8. \A m \in 0 .. n : PausedBy(stream', m) = PausedBy(stream, m)
    <3> TAKE m \in 0 .. n
    <3> QED
      BY <2>1, PausedByAgree
  <2>9. \A i, j \in 1 .. n + 1 : i < j /\ stream'[i].frame = stream'[j].frame
            => PausedBy(stream', j - 1)
    <3> SUFFICES ASSUME NEW i \in 1 .. n + 1, NEW j \in 1 .. n + 1, i < j,
                        stream'[i].frame = stream'[j].frame
                 PROVE  PausedBy(stream', j - 1)
      OBVIOUS
    <3>1. CASE j \in 1 .. n
      <4>1. PausedBy(stream, j - 1)
        BY <2>1, <3>1 DEF StreamInv, n
      <4> QED
        BY <2>1, <2>8, <3>1, <4>1
    <3>2. CASE j = n + 1
      <4>1. i \in 1 .. n /\ stream[i].frame = frame'[Server]
        BY <1>3, <2>1, <3>2
      <4>2. stream[i].frame <= frame[Server]
        BY <2>5, <4>1
      <4>3. PausedBy(stream, n)
        BY <1>1, <2>2, <2>3, <4>1, <4>2
      <4> QED
        BY <2>1, <2>8, <3>2, <4>3
    <3> QED
      BY <2>1, <3>1, <3>2
  <2>10. paused'[Server] = PausedBy(stream', n + 1)
    <3>1. paused[Server] = PausedBy(stream', n)
      BY <2>1, <2>8 DEF StreamInv, n
    <3>2. stream'[n + 1].cmds = b.cmds
      BY <2>1
    <3>3. PauseAfter(PausedBy(stream', n), <<b.cmds>>) = PausedBy(stream', n + 1)
      <4>1. n \in Nat
        BY <2>1
      <4> QED
        BY <3>2, <4>1, PausedByNext
    <3> QED
      BY <1>3, <3>1, <3>3
  <2> QED
    BY <2>1, <2>6, <2>7, <2>9, <2>10 DEF StreamInv
<1> QED
  BY <1>2, <1>3, ServerShape

\* What the server does is ahead of every client that can still follow it.
LEMMA ServerClient ==
    ASSUME Inv, ServerStep, NEW c \in Client
    PROVE  CacheInv(c)' /\ ClientInv(c)'
<1>1. /\ TypeOK
      /\ StreamInv
      /\ CacheInv(c)
      /\ ClientInv(c)
  BY DEF Inv
<1>2. /\ frame[Server] \in Nat
      /\ frame[c] \in Nat
      /\ received[c] \in Nat
      /\ given[c] \in Seq(Nat)
      /\ stream \in Seq(Broadcast)
      /\ Seen(c) \in Nat
  BY <1>1 DEF TypeOK, Player, Broadcast, Seen
<1>3. /\ UNCHANGED clientVars
      /\ frame'[c] = frame[c]
      /\ paused'[c] = paused[c]
      /\ Seen(c)' = Seen(c)
      /\ Lost(c)' = Lost(c)
  <2>1. UNCHANGED clientVars /\ frame'[c] = frame[c] /\ paused'[c] = paused[c]
    BY <1>1, ServerShape
  <2> QED
    BY <2>1 DEF clientVars, Seen, Lost
<1>4. /\ frame'[Server] \in Nat
      /\ frame[Server] <= frame'[Server]
  BY <1>1, <1>2, ServerShape
<1>5. CASE stream' = stream
  <2>1. CacheInv(c)'
    <3>1. received' = received /\ cached' = cached /\ given' = given
      BY <1>3 DEF clientVars
    <3>2. Seen(c)' = Seen(c)
      BY <1>3
    <3> QED
      BY <1>1, <1>5, <3>1, <3>2 DEF CacheInv
  <2>2. \A K \in Nat :
            IsKeyframe(K) /\ (K < frame[c] \/ (K = frame[c] /\ pc[c] # "keyframe"))
                => K <= frame'[Server]
    BY <1>1, <1>2, <1>4 DEF ClientInv
  <2>3. pc' = pc /\ loops' = loops
    BY <1>3 DEF clientVars
  <2>4. ClientInv(c)'
    BY <1>1, <1>3, <1>5, <2>2, <2>3 DEF ClientInv
  <2> QED
    BY <2>1, <2>4
<1>6. ASSUME NEW b \in Broadcast,
             stream' = Append(stream, b),
             b.frame = frame'[Server],
             IsKeyframe(b.frame)
      PROVE  CacheInv(c)' /\ ClientInv(c)'
  <2> DEFINE n == Len(stream)
  <2>1. /\ n \in Nat
        /\ Len(stream') = n + 1
        /\ \A i \in 1 .. n : stream'[i] = stream[i]
        /\ stream'[n + 1] = b
    BY <1>2, <1>6
  <2>2. \A i \in 1 .. n : stream[i].frame \in Nat /\ stream[i].frame <= frame[Server]
    BY <1>1, BroadcastType DEF StreamInv
  <2>3. Seen(c) <= received[c] /\ received[c] <= n
    BY <1>1 DEF CacheInv
  <2> HIDE DEF n
  <2>4. CacheInv(c)'
    <3>1. \A i \in 1 .. received[c] : stream'[i] = stream[i]
      BY <1>2, <2>1, <2>3
    <3>3. \A i \in Seen(c) + 1 .. received[c] : stream'[i] = stream[i]
      BY <1>2, <3>1
    <3>4. received[c] <= Len(stream')
      BY <1>2, <2>1, <2>3
    <3>5. given' = given /\ received' = received /\ cached' = cached
      BY <1>3 DEF clientVars
    <3>6. \A F \in Nat : F \in DOMAIN cached[c]
                           <=> \E i \in 1 .. received[c] : stream'[i].frame = F
      BY <1>1, <3>1 DEF CacheInv
    <3>7. \A F \in DOMAIN cached[c] : \A k \in 1 .. Len(cached[c][F]) :
             /\ cached[c][F][k] \in Seen(c) + 1 .. received[c]
             /\ stream'[cached[c][F][k]].frame = F
             /\ cached[c][F][k] = cached[c][F][1] + k - 1
      BY <1>1, <3>3 DEF CacheInv
    <3>8. \A i \in Seen(c) + 1 .. received[c] :
             \E k \in 1 .. Len(cached[c][stream'[i].frame]) :
                 cached[c][stream'[i].frame][k] = i
      BY <1>1, <3>3 DEF CacheInv
    <3> QED
      BY <1>1, <1>3, <3>4, <3>5, <3>6, <3>7, <3>8 DEF CacheInv
  <2>5. PausedBy(stream', Seen(c)) = PausedBy(stream, Seen(c))
    <3>1. \A i \in 1 .. Seen(c) : stream'[i] = stream[i]
      BY <1>2, <2>1, <2>3
    <3> QED
      BY <1>2, <3>1, PausedByAgree
  <2>6. Seen(c) > 0 => stream'[Seen(c)] = stream[Seen(c)]
    BY <1>2, <2>1, <2>3
  \* The new broadcast is at the client's frame or later.
  <2>7. ASSUME ~Lost(c) PROVE frame[c] <= b.frame
    <3>1. CASE frame'[Server] = frame[Server] + 1
      <4> SUFFICES ASSUME b.frame < frame[c] PROVE FALSE
        BY <1>2, <1>4, <1>6
      <4>1. b.frame <= frame[Server]
        BY <1>1, <1>4, <1>6 DEF ClientInv
      <4> QED
        BY <1>2, <1>6, <3>1, <4>1
    <3>2. CASE frame'[Server] = frame[Server] /\ paused[Server]
      <4>1. PausedBy(stream, n)
        BY <1>1, <3>2 DEF StreamInv, n
      <4>2. CASE Seen(c) = n
        <5>1. paused[c]
          BY <1>1, <4>1, <4>2 DEF ClientInv
        <5>2. n > 0 /\ stream[n].frame = frame[c]
          BY <1>1, <2>7, <4>2, <5>1 DEF ClientInv
        <5> QED
          BY <1>2, <1>6, <2>1, <2>2, <3>2, <5>2
      <4>3. CASE Seen(c) < n
        <5>1. frame[c] <= stream[n].frame
          BY <1>1, <1>2, <2>1, <2>7, <4>3 DEF ClientInv, n
        <5> QED
          BY <1>2, <1>6, <2>1, <2>2, <3>2, <4>3, <5>1
      <4> QED
        BY <1>2, <2>1, <2>3, <4>2, <4>3
    <3> QED
      BY <1>1, <3>1, <3>2, ServerShape
  \* A client that has done its frame and is not paused is behind it.
  <2>8. ASSUME pc[c] # "keyframe", ~paused[c], IsKeyframe(frame[c])
        PROVE  frame[c] < b.frame
    <3>1. CASE frame'[Server] = frame[Server] + 1
      <4>1. frame[c] <= frame[Server]
        BY <1>1, <1>2, <2>8 DEF ClientInv
      <4> QED
        BY <1>2, <1>6, <3>1, <4>1
    <3>2. CASE frame'[Server] = frame[Server] /\ paused[Server]
      <4>1. PausedBy(stream, n)
        BY <1>1, <3>2 DEF StreamInv, n
      <4>2. Seen(c) # n
        BY <1>1, <2>8, <4>1 DEF ClientInv
      <4>3. n \in Seen(c) + 1 .. n
        BY <1>2, <2>1, <2>3, <4>2
      <4>4. frame[c] < stream[n].frame
        BY <1>1, <2>8, <4>3 DEF ClientInv, n
      <4> QED
        BY <1>2, <1>6, <2>1, <2>2, <3>2, <4>3, <4>4
    <3> QED
      BY <1>1, <3>1, <3>2, ServerShape
  <2>9. ~Lost(c)' => \A i \in Seen(c) + 1 .. n + 1 : frame[c] <= stream'[i].frame
    <3> SUFFICES ASSUME ~Lost(c), NEW i \in Seen(c) + 1 .. n + 1
                 PROVE  frame[c] <= stream'[i].frame
      BY <1>3
    <3>1. CASE i = n + 1
      BY <2>1, <2>7, <3>1
    <3>2. CASE i <= n
      <4>1. i \in Seen(c) + 1 .. n /\ i \in 1 .. n
        BY <1>2, <2>1, <3>2
      <4> QED
        BY <1>1, <2>1, <4>1 DEF ClientInv, n
    <3> QED
      BY <1>2, <2>1, <3>1, <3>2
  <2>10. pc[c] # "keyframe" /\ ~paused[c] /\ IsKeyframe(frame[c])
            => \A i \in Seen(c) + 1 .. n + 1 : frame[c] < stream'[i].frame
    <3> SUFFICES ASSUME pc[c] # "keyframe", ~paused[c], IsKeyframe(frame[c]),
                        NEW i \in Seen(c) + 1 .. n + 1
                 PROVE  frame[c] < stream'[i].frame
      OBVIOUS
    <3>1. CASE i = n + 1
      BY <2>1, <2>8, <3>1
    <3>2. CASE i <= n
      <4>1. i \in Seen(c) + 1 .. n /\ i \in 1 .. n
        BY <1>2, <2>1, <3>2
      <4> QED
        BY <1>1, <2>1, <4>1 DEF ClientInv, n
    <3> QED
      BY <1>2, <2>1, <3>1, <3>2
  <2>11. \A K \in Nat :
            IsKeyframe(K) /\ (K < frame[c] \/ (K = frame[c] /\ pc[c] # "keyframe"))
                => K <= frame'[Server]
    BY <1>1, <1>2, <1>4 DEF ClientInv
  <2>12. ClientInv(c)'
    <3>1. paused'[c] = PausedBy(stream', Seen(c)')
      BY <1>1, <1>3, <2>5 DEF ClientInv
    <3>2. paused'[c] => Lost(c)' \/ (Seen(c)' > 0 /\ stream'[Seen(c)'].frame = frame'[c])
      BY <1>1, <1>3, <2>6 DEF ClientInv
    <3>3. pc' = pc /\ loops' = loops
      BY <1>3 DEF clientVars
    <3> QED
      BY <1>1, <1>3, <2>1, <2>9, <2>10, <2>11, <3>1, <3>2, <3>3 DEF ClientInv
  <2> QED
    BY <2>4, <2>12
<1> QED
  BY <1>1, <1>5, <1>6, ServerShape

-----------------------------------------------------------------------------
(***************************************************************************)
(* The clients' steps keep the invariant.                                  *)
(***************************************************************************)

\* The invariant of a client is about a few variables only.
LEMMA SameClient ==
    ASSUME NEW d \in Client, CacheInv(d), ClientInv(d),
           stream' = stream,
           frame'[Server] = frame[Server],
           frame'[d] = frame[d], paused'[d] = paused[d], received'[d] = received[d],
           given'[d] = given[d], cached'[d] = cached[d], pc'[d] = pc[d],
           loops'[d] = loops[d]
    PROVE  CacheInv(d)' /\ ClientInv(d)'
<1>1. Seen(d)' = Seen(d)
  BY DEF Seen
<1>2. Lost(d)' = Lost(d)
  BY DEF Lost
<1>3. CacheInv(d)'
  BY <1>1 DEF CacheInv
<1>4. ClientInv(d)'
  BY <1>1, <1>2 DEF ClientInv
<1> QED
  BY <1>3, <1>4

\* So is that of the stream.
LEMMA SameStream ==
    ASSUME StreamInv, stream' = stream, frame'[Server] = frame[Server],
           paused'[Server] = paused[Server]
    PROVE  StreamInv'
  BY DEF StreamInv

\* A client's step is its own.
LEMMA OthersUntouched ==
    ASSUME Inv, NEW c \in Client, ReceiveCommandList(c) \/ GameThread(c)
    PROVE  /\ StreamInv'
           /\ stream' = stream
           /\ frame'[Server] = frame[Server]
           /\ \A d \in Client \ {c} : CacheInv(d)' /\ ClientInv(d)'
<1>1. TypeOK
  BY DEF Inv
<1>2. /\ Server \in Player
      /\ Server # c
      /\ c \in Player
      /\ Client \subseteq Player
  BY DEF Player, Client, Server
<1>3. /\ stream' = stream
      /\ frame'[Server] = frame[Server]
      /\ paused'[Server] = paused[Server]
      /\ \A d \in Client \ {c} :
            /\ frame'[d] = frame[d] /\ paused'[d] = paused[d]
            /\ received'[d] = received[d] /\ given'[d] = given[d]
            /\ cached'[d] = cached[d] /\ pc'[d] = pc[d] /\ loops'[d] = loops[d]
  <2>1. CASE ReceiveCommandList(c)
    BY <1>1, <1>2, <2>1 DEF TypeOK, ReceiveCommandList, worldVars
  <2>2. CASE BeginUpdate(c)
    BY <1>1, <1>2, <2>2 DEF TypeOK, BeginUpdate, WorldUpdate
  <2>3. CASE NextLoop(c)
    BY <1>1, <1>2, <2>3 DEF TypeOK, NextLoop, WorldUpdate
  <2>4. CASE BeginUpdateWithoutLoops(c)
    BY <1>1, <1>2, <2>4 DEF TypeOK, BeginUpdateWithoutLoops, worldVars
  <2>5. CASE GiveCommands(c)
    BY <1>1, <1>2, <2>5 DEF TypeOK, GiveCommands
  <2>6. CASE SkipFrame(c)
    BY <1>1, <1>2, <2>6 DEF TypeOK, SkipFrame, worldVars
  <2> QED
    BY <2>1, <2>2, <2>3, <2>4, <2>5, <2>6 DEF GameThread
<1>4. StreamInv'
  BY <1>3, SameStream DEF Inv
<1>5. \A d \in Client \ {c} : CacheInv(d)' /\ ClientInv(d)'
  <2> TAKE d \in Client \ {c}
  <2>1. CacheInv(d) /\ ClientInv(d)
    BY DEF Inv
  <2> QED
    BY <1>3, <2>1, SameClient
<1> QED
  BY <1>3, <1>4, <1>5

\* A received list goes behind those of its frame.
LEMMA ReceiveClient ==
    ASSUME Inv, NEW c \in Client, ReceiveCommandList(c)
    PROVE  CacheInv(c)' /\ ClientInv(c)'
<1> DEFINE n == received[c] + 1
           f == stream[n].frame
<1>1. /\ TypeOK
      /\ StreamInv
      /\ CacheInv(c)
      /\ ClientInv(c)
  BY DEF Inv
<1>2. n \in 1 .. Len(stream) /\ f \in Nat /\ received[c] \in Nat /\ Len(stream) \in Nat
  <2>1. received[c] \in Nat /\ Len(stream) \in Nat
    BY <1>1 DEF TypeOK
  <2> QED
    BY <1>1, <2>1, NextBroadcast
<1>3. /\ stream' = stream /\ frame' = frame /\ paused' = paused /\ given' = given
      /\ pc' = pc /\ loops' = loops
  BY DEF ReceiveCommandList, worldVars
<1>4. Seen(c)' = Seen(c) /\ Lost(c)' = Lost(c)
  BY <1>3 DEF Seen, Lost
<1>5. ClientInv(c)'
  BY <1>1, <1>3, <1>4 DEF ClientInv
<1>6. received'[c] = n
  BY <1>1 DEF TypeOK, ReceiveCommandList
<1>7. /\ DOMAIN cached'[c] = DOMAIN cached[c] \cup {f}
      /\ \A g \in DOMAIN cached[c] : g # f => cached'[c][g] = cached[c][g]
      /\ f \in DOMAIN cached[c] => cached'[c][f] = Append(cached[c][f], n)
      /\ f \notin DOMAIN cached[c] => cached'[c][f] = <<n>>
  BY <1>1 DEF TypeOK, ReceiveCommandList
<1>8. Seen(c) \in Nat /\ Seen(c) <= received[c] /\ received[c] <= Len(stream)
  BY <1>1 DEF CacheInv, TypeOK, Seen
<1>9. \A g \in DOMAIN cached[c] : cached[c][g] \in Seq(Nat) /\ g \in Nat
  BY <1>1 DEF TypeOK
<1>10. \A i \in 1 .. Len(stream) : stream[i].frame \in Nat
  BY <1>1, BroadcastType
<1> HIDE DEF n, f
<1>11. n = received[c] + 1 /\ f = stream[n].frame
  BY DEF n, f
\* The run of the frame in the new cache.
<1>12. /\ cached'[c][f] \in Seq(Nat)
       /\ Len(cached'[c][f]) \in Nat \ {0}
       /\ cached'[c][f][Len(cached'[c][f])] = n
       /\ \A k \in 1 .. Len(cached'[c][f]) - 1 :
             f \in DOMAIN cached[c] /\ k \in 1 .. Len(cached[c][f])
                /\ cached'[c][f][k] = cached[c][f][k]
       /\ \A k \in 1 .. Len(cached[c][f]) :
             f \in DOMAIN cached[c] =>
                k \in 1 .. Len(cached'[c][f]) /\ cached'[c][f][k] = cached[c][f][k]
  <2>1. CASE f \in DOMAIN cached[c]
    <3>1. cached'[c][f] = Append(cached[c][f], n) /\ cached[c][f] \in Seq(Nat) /\ n \in Nat
      BY <1>2, <1>7, <1>9, <2>1
    <3> QED
      BY <2>1, <3>1
  <2>2. CASE f \notin DOMAIN cached[c]
    <3>1. cached'[c][f] = <<n>> /\ n \in Nat
      BY <1>2, <1>7, <2>2
    <3> QED
      BY <2>2, <3>1
  <2> QED
    BY <2>1, <2>2
\* The broadcasts of the frame that wait in the cache end where the new one begins.
<1>13. \A k \in 1 .. Len(cached'[c][f]) : cached'[c][f][k] = cached'[c][f][1] + k - 1
  <2>1. CASE Len(cached'[c][f]) = 1
    BY <1>2, <1>12, <2>1
  <2>2. CASE Len(cached'[c][f]) > 1
    <3> DEFINE m == Len(cached'[c][f]) - 1
    <3>1. /\ f \in DOMAIN cached[c]
          /\ m \in 1 .. Len(cached[c][f])
          /\ 1 \in 1 .. Len(cached[c][f])
          /\ \A k \in 1 .. m : cached'[c][f][k] = cached[c][f][k]
      BY <1>12, <2>2
    <3>2. /\ \A k \in 1 .. Len(cached[c][f]) :
                /\ cached[c][f][k] \in Seen(c) + 1 .. received[c]
                /\ stream[cached[c][f][k]].frame = f
                /\ cached[c][f][k] = cached[c][f][1] + k - 1
      BY <1>1, <3>1 DEF CacheInv
    <3>3. cached[c][f][m] = n - 1
      <4>1. PICK i \in Seen(c) + 1 .. received[c] : i = cached[c][f][m]
        BY <3>1, <3>2
      <4>2. received[c] \in Seen(c) + 1 .. received[c] /\ i <= received[c]
            /\ i \in 1 .. Len(stream) /\ received[c] \in 1 .. Len(stream)
        BY <1>2, <1>8, <4>1
      <4>3. stream[received[c]].frame = f
        <5>1. stream[i].frame <= stream[received[c]].frame
          BY <1>1, <4>2 DEF StreamInv
        <5>2. stream[received[c]].frame <= stream[n].frame
          BY <1>1, <1>2, <1>11, <4>2 DEF StreamInv
        <5>3. stream[i].frame = f
          BY <3>1, <3>2, <4>1
        <5> QED
          BY <1>2, <1>10, <1>11, <4>2, <5>1, <5>2, <5>3
      <4>4. PICK k \in 1 .. Len(cached[c][f]) : cached[c][f][k] = received[c]
        BY <1>1, <4>2, <4>3 DEF CacheInv
      <4>5. k <= m
        <5>1. cached'[c][f] = Append(cached[c][f], n) /\ cached[c][f] \in Seq(Nat)
          BY <1>7, <1>9, <3>1
        <5> QED
          BY <5>1
      <4>6. /\ cached[c][f][1] \in Seen(c) + 1 .. received[c]
            /\ cached[c][f][m] \in Seen(c) + 1 .. received[c]
        BY <3>1, <3>2
      <4>7. /\ received[c] = cached[c][f][1] + k - 1
            /\ cached[c][f][m] = cached[c][f][1] + m - 1
        BY <3>1, <3>2, <4>4
      <4>8. k \in Nat /\ m \in Nat
        BY <1>12, <4>4
      <4>9. cached[c][f][m] = received[c]
        <5>1. Seen(c) \in Nat /\ received[c] \in Nat
          BY <1>2, <1>8
        <5> DEFINE first == cached[c][f][1]
                   last  == cached[c][f][m]
        <5>2. first \in Seen(c) + 1 .. received[c] /\ last \in Seen(c) + 1 .. received[c]
          BY <4>6
        <5>3. received[c] = first + k - 1 /\ last = first + m - 1
          BY <4>7
        <5> HIDE DEF m, first, last
        <5>4. last = received[c]
          BY <4>5, <4>8, <5>1, <5>2, <5>3
        <5> QED
          BY <5>4 DEF last
      <4> QED
        BY <1>2, <1>11, <4>9
    <3>4. cached[c][f][m] = cached[c][f][1] + m - 1
      BY <3>1, <3>2
    <3>7. Len(cached'[c][f]) = m + 1
      BY <1>12
    <3> HIDE DEF m
    <3> SUFFICES ASSUME NEW k \in 1 .. m + 1
                 PROVE  cached'[c][f][k] = cached'[c][f][1] + k - 1
      BY <3>7
    <3>5. CASE k \in 1 .. m
      <4>1. k \in 1 .. Len(cached[c][f]) /\ 1 \in 1 .. m
        BY <3>1, <3>5
      <4> QED
        BY <3>1, <3>2, <3>5, <4>1
    <3>6. CASE k = m + 1
      <4>1. cached'[c][f][k] = n
        BY <1>12, <3>6, <3>7
      <4>2. cached'[c][f][1] = cached[c][f][1] /\ cached[c][f][1] \in Nat
        <5>1. cached[c][f][1] \in Seen(c) + 1 .. received[c]
          BY <3>1, <3>2
        <5> QED
          BY <1>8, <3>1, <5>1
      <4>3. m \in Nat
        BY <3>1
      <4> DEFINE a == cached[c][f][1]
      <4>4. a \in Nat /\ cached'[c][f][1] = a /\ cached[c][f][m] = a + m - 1
        BY <3>4, <4>2
      <4> HIDE DEF a
      <4>5. n = a + m
        BY <1>2, <3>3, <4>3, <4>4
      <4> QED
        BY <3>6, <4>1, <4>3, <4>4, <4>5
    <3> QED
      BY <3>1, <3>5, <3>6
  <2> QED
    BY <1>12, <2>1, <2>2
<1>14. \A F \in DOMAIN cached'[c] : \A k \in 1 .. Len(cached'[c][F]) :
           /\ cached'[c][F][k] \in Seen(c) + 1 .. n
           /\ stream[cached'[c][F][k]].frame = F
           /\ cached'[c][F][k] = cached'[c][F][1] + k - 1
  <2> SUFFICES ASSUME NEW F \in DOMAIN cached'[c], NEW k \in 1 .. Len(cached'[c][F])
               PROVE  /\ cached'[c][F][k] \in Seen(c) + 1 .. n
                      /\ stream[cached'[c][F][k]].frame = F
                      /\ cached'[c][F][k] = cached'[c][F][1] + k - 1
    OBVIOUS
  <2>1. CASE F # f
    <3>1. F \in DOMAIN cached[c] /\ cached'[c][F] = cached[c][F]
      BY <1>7, <2>1
    <3>2. /\ cached[c][F][k] \in Seen(c) + 1 .. received[c]
          /\ stream[cached[c][F][k]].frame = F
          /\ cached[c][F][k] = cached[c][F][1] + k - 1
      BY <1>1, <3>1 DEF CacheInv
    <3> QED
      BY <1>2, <1>8, <1>11, <3>1, <3>2
  <2>2. CASE F = f /\ k = Len(cached'[c][f])
    <3>1. cached'[c][F][k] = n
      BY <1>12, <2>2
    <3>2. n \in Seen(c) + 1 .. n
      BY <1>2, <1>8, <1>11
    <3> QED
      BY <1>11, <1>13, <2>2, <3>1, <3>2
  <2>3. CASE F = f /\ k # Len(cached'[c][f])
    <3>1. k \in 1 .. Len(cached'[c][f]) - 1
      BY <1>12, <2>3
    <3>2. f \in DOMAIN cached[c] /\ k \in 1 .. Len(cached[c][f])
                /\ cached'[c][f][k] = cached[c][f][k]
      BY <1>12, <3>1
    <3>3. /\ cached[c][f][k] \in Seen(c) + 1 .. received[c]
          /\ stream[cached[c][f][k]].frame = f
      BY <1>1, <3>2 DEF CacheInv
    <3>4. cached'[c][f][k] \in Seen(c) + 1 .. n
      <4>1. received[c] <= n
        BY <1>2, <1>11
      <4>2. cached'[c][f][k] \in Seen(c) + 1 .. received[c]
        BY <3>2, <3>3
      <4> QED
        BY <1>2, <1>8, <4>1, <4>2
    <3> QED
      BY <1>13, <2>3, <3>2, <3>3, <3>4
  <2> QED
    BY <2>1, <2>2, <2>3
<1>15. \A i \in Seen(c) + 1 .. n :
           \E k \in 1 .. Len(cached'[c][stream[i].frame]) :
               cached'[c][stream[i].frame][k] = i
  <2> TAKE i \in Seen(c) + 1 .. n
  <2>1. CASE i = n
    <3>1. Len(cached'[c][f]) \in 1 .. Len(cached'[c][f])
      BY <1>12
    <3> QED
      BY <1>11, <1>12, <2>1, <3>1
  <2>2. CASE i # n
    <3>1. i \in Seen(c) + 1 .. received[c] /\ i \in 1 .. received[c] /\ i \in 1 .. Len(stream)
      BY <1>2, <1>8, <1>11, <2>2
    <3>2. PICK k \in 1 .. Len(cached[c][stream[i].frame]) :
                  cached[c][stream[i].frame][k] = i
      BY <1>1, <3>1 DEF CacheInv
    <3>3. stream[i].frame \in DOMAIN cached[c]
      BY <1>1, <1>10, <3>1 DEF CacheInv
    <3>4. CASE stream[i].frame = f
      BY <1>12, <3>2, <3>3, <3>4
    <3>5. CASE stream[i].frame # f
      BY <1>7, <3>2, <3>3, <3>5
    <3> QED
      BY <3>4, <3>5
  <2> QED
    BY <2>1, <2>2
<1>16. \A F \in Nat : F \in DOMAIN cached'[c]
                         <=> \E i \in 1 .. n : stream[i].frame = F
  <2> TAKE F \in Nat
  <2>1. CASE F = f
    <3>1. F \in DOMAIN cached'[c]
      BY <1>7, <2>1
    <3>2. n \in 1 .. n
      BY <1>2
    <3>3. stream[n].frame = F
      BY <1>11, <2>1
    <3> QED
      BY <3>1, <3>2, <3>3
  <2>2. CASE F # f
    <3>1. F \in DOMAIN cached'[c] <=> F \in DOMAIN cached[c]
      BY <1>7, <2>2
    <3>2. (\E i \in 1 .. n : stream[i].frame = F)
              <=> \E i \in 1 .. received[c] : stream[i].frame = F
      BY <1>2, <1>11, <2>2
    <3> QED
      BY <1>1, <3>1, <3>2 DEF CacheInv
  <2> QED
    BY <2>1, <2>2
<1>17. CacheInv(c)'
  <2>1. \A i \in 1 .. Seen(c) : given[c][i] = i
    BY <1>1 DEF CacheInv
  <2>2. Seen(c) <= n /\ n <= Len(stream)
    BY <1>2, <1>8, <1>11
  <2> QED
    BY <1>3, <1>4, <1>6, <1>14, <1>15, <1>16, <2>1, <2>2 DEF CacheInv
<1> QED
  BY <1>5, <1>17

\* A pass of the loop that runs although the client is paused loses it.
LEMMA LoopLoses ==
    ASSUME Inv, NEW c \in Client, NEW left \in Nat, WorldUpdate(c, left), paused[c],
           loops[c] > 0, left = loops[c] - 1
    PROVE  Lost(c)'
<1> DEFINE f == frame[c]
<1>1. /\ StreamInv /\ ClientInv(c) /\ f \in Nat /\ loops[c] \in Nat /\ loops[c] < Period
      /\ Seen(c) \in Nat /\ Len(stream) \in Nat /\ Seen(c) <= Len(stream)
  <2>1. TypeOK /\ StreamInv /\ ClientInv(c) /\ CacheInv(c)
    BY DEF Inv
  <2>2. f \in Nat /\ loops[c] \in Nat
    BY <2>1 DEF TypeOK, Player
  <2>3. loops[c] < Period
    BY <2>1 DEF ClientInv
  <2>4. Seen(c) \in Nat /\ received[c] \in Nat /\ Len(stream) \in Nat
    BY <2>1 DEF TypeOK, Seen
  <2>5. Seen(c) <= Len(stream)
    BY <2>1, <2>4 DEF CacheInv
  <2> QED
    BY <2>1, <2>2, <2>3, <2>4, <2>5
<1>2. /\ frame'[c] = f + 1 /\ loops'[c] = left /\ paused' = paused
      /\ pc'[c] = IF IsKeyframe(f + 1) THEN "keyframe"
                  ELSE IF left > 0 THEN "loop" ELSE "idle"
  <2>1. TypeOK
    BY DEF Inv
  <2> QED
    BY <2>1 DEF TypeOK, WorldUpdate, Player, Client, Server
<1>3. \A d \in 1 .. loops[c] : ~IsKeyframe(f + d)
  <2>1. CASE Lost(c)
    BY <1>1, <2>1 DEF Lost
  <2>2. CASE Seen(c) > 0 /\ stream[Seen(c)].frame = f
    <3>1. IsKeyframe(f)
      BY <1>1, <2>2 DEF StreamInv
    <3> TAKE d \in 1 .. loops[c]
    <3>2. d \in 1 .. Period - 1
      BY <1>1
    <3> QED
      BY <1>1, <3>1, <3>2, KeyframeGap
  <2> QED
    BY <1>1, <2>1, <2>2 DEF ClientInv
<1>4. ~IsKeyframe(f + 1)
  BY <1>1, <1>3
<1>5. \A d \in 0 .. left : ~IsKeyframe((f + 1) + d)
  <2> TAKE d \in 0 .. left
  <2>1. d + 1 \in 1 .. loops[c] /\ (f + 1) + d = f + (d + 1)
    <3>1. f \in Nat /\ loops[c] \in Nat /\ left = loops[c] - 1
      BY <1>1
    <3> HIDE DEF f
    <3> QED
      BY <3>1
  <2> QED
    BY <1>3, <2>1
<1>6. pc'[c] # "keyframe" /\ paused'[c]
  BY <1>2, <1>4
<1> HIDE DEF f
<1> QED
  BY <1>2, <1>5, <1>6 DEF Lost

\* A world update leaves a frame that is done, or loses a client that was
\* paused in the middle of its loop.
LEMMA WorldUpdateClient ==
    ASSUME Inv, NEW c \in Client, NEW left \in Nat, left < Period, WorldUpdate(c, left),
           pc[c] # "keyframe",
           ~paused[c] \/ (loops[c] > 0 /\ left = loops[c] - 1)
    PROVE  CacheInv(c)' /\ ClientInv(c)'
<1> DEFINE f == frame[c]
<1>1. /\ TypeOK
      /\ StreamInv
      /\ CacheInv(c)
      /\ ClientInv(c)
  BY DEF Inv
<1>2. /\ f \in Nat
      /\ frame[Server] \in Nat
      /\ loops[c] \in Nat
      /\ Seen(c) \in Nat
      /\ Len(stream) \in Nat
      /\ Seen(c) <= Len(stream)
  BY <1>1 DEF TypeOK, Player, Seen, CacheInv
<1>3. /\ stream' = stream /\ paused' = paused /\ given' = given
      /\ received' = received /\ cached' = cached
      /\ frame'[c] = f + 1
      /\ frame'[Server] = frame[Server]
      /\ loops'[c] = left
      /\ pc'[c] = IF IsKeyframe(f + 1) THEN "keyframe"
                  ELSE IF left > 0 THEN "loop" ELSE "idle"
  BY <1>1 DEF TypeOK, WorldUpdate, Player, Client, Server
<1>4. Seen(c)' = Seen(c)
  BY <1>3 DEF Seen
<1>5. CacheInv(c)'
  BY <1>1, <1>3, <1>4 DEF CacheInv
<1>6. ASSUME paused[c] PROVE Lost(c)'
  BY <1>1, <1>6, LoopLoses
<1>7. ASSUME NEW K \in Nat, IsKeyframe(K),
             K < f + 1 \/ (K = f + 1 /\ pc'[c] # "keyframe")
      PROVE  K <= frame[Server]
  <2>1. K <= f
    BY <1>2, <1>3, <1>7
  <2>2. K < f \/ (K = f /\ pc[c] # "keyframe")
    BY <1>2, <2>1
  <2> QED
    BY <1>1, <1>7, <2>2 DEF ClientInv
<1>8. ASSUME ~Lost(c)', NEW i \in Seen(c) + 1 .. Len(stream)
      PROVE  f + 1 <= stream[i].frame
  <2>1. ~paused[c]
    BY <1>6, <1>8
  <2>2. f <= stream[i].frame
    BY <1>1, <2>1 DEF ClientInv, Lost
  <2>3. /\ i \in 1 .. Len(stream)
        /\ IsKeyframe(stream[i].frame)
        /\ stream[i].frame \in Nat
    <3>1. i \in 1 .. Len(stream)
      BY <1>2
    <3> QED
      BY <1>1, <3>1, BroadcastType DEF StreamInv
  <2>4. f # stream[i].frame
    BY <1>1, <1>2, <2>1, <2>3 DEF ClientInv
  <2> QED
    BY <1>2, <2>2, <2>3, <2>4
<1>9. /\ paused'[c] = PausedBy(stream', Seen(c)')
      /\ loops'[c] < Period
      /\ pc'[c] = "idle" => loops'[c] = 0
      /\ pc'[c] = "keyframe" => IsKeyframe(f + 1)
      /\ IsKeyframe(f + 1) => pc'[c] = "keyframe"
  BY <1>1, <1>3, <1>4 DEF ClientInv
<1> HIDE DEF f
<1>10. ClientInv(c)'
  BY <1>3, <1>4, <1>6, <1>7, <1>8, <1>9 DEF ClientInv
<1> QED
  BY <1>5, <1>10

\* A game thread that runs only its commander stays at its keyframe.
LEMMA WithoutLoopsClient ==
    ASSUME Inv, NEW c \in Client, BeginUpdateWithoutLoops(c)
    PROVE  CacheInv(c)' /\ ClientInv(c)'
<1>1. /\ TypeOK
      /\ CacheInv(c)
      /\ ClientInv(c)
  BY DEF Inv
<1>2. /\ stream' = stream /\ paused' = paused /\ given' = given /\ frame' = frame
      /\ received' = received /\ cached' = cached /\ loops' = loops
      /\ pc[c] = "idle" /\ pc'[c] = "keyframe" /\ IsKeyframe(frame[c])
      /\ loops[c] \in Nat /\ frame[c] \in Nat
  BY <1>1 DEF TypeOK, BeginUpdateWithoutLoops, worldVars, Player
<1>3. Seen(c)' = Seen(c)
  BY <1>2 DEF Seen
<1>4. ~Lost(c)
  BY <1>2 DEF Lost
<1>5. CacheInv(c)'
  BY <1>1, <1>2, <1>3 DEF CacheInv
<1>6. ClientInv(c)'
  BY <1>1, <1>2, <1>3, <1>4 DEF ClientInv
<1> QED
  BY <1>5, <1>6

\* A frame the server has passed without a broadcast is done.
LEMMA SkipClient ==
    ASSUME Inv, NEW c \in Client, SkipFrame(c)
    PROVE  CacheInv(c)' /\ ClientInv(c)'
<1> DEFINE f == frame[c]
           r == received[c]
<1>1. /\ TypeOK
      /\ StreamInv
      /\ CacheInv(c)
      /\ ClientInv(c)
  BY DEF Inv
<1>2. /\ stream' = stream /\ paused' = paused /\ given' = given /\ frame' = frame
      /\ received' = received /\ cached' = cached /\ loops' = loops
      /\ pc[c] = "keyframe" /\ pc'[c] = IF loops[c] > 0 THEN "loop" ELSE "idle"
      /\ f \notin DOMAIN cached[c]
  BY <1>1 DEF TypeOK, SkipFrame, worldVars, AfterKeyframe
<1>3. /\ f \in Nat /\ r \in Nat /\ Seen(c) \in Nat /\ loops[c] \in Nat
      /\ frame[Server] \in Nat
      /\ Seen(c) <= r /\ r <= Len(stream) /\ Len(stream) \in Nat
  BY <1>1 DEF TypeOK, Player, Seen, CacheInv
<1>4. r > 0 /\ r \in 1 .. Len(stream) /\ stream[r].frame > f
  BY <1>3 DEF SkipFrame, CachedLast
<1>5. \A i \in 1 .. Len(stream) : stream[i].frame \in Nat
  BY <1>1, BroadcastType
<1>6. f < frame[Server]
  BY <1>1, <1>3, <1>4, <1>5 DEF StreamInv
<1>7. ~Lost(c)
  BY <1>2 DEF Lost
<1>8. ASSUME NEW i \in Seen(c) + 1 .. Len(stream)
      PROVE  f < stream[i].frame
  <2>1. i \in 1 .. Len(stream)
    BY <1>3
  <2>2. CASE i <= r
    <3>1. f <= stream[i].frame
      BY <1>1, <1>7 DEF ClientInv
    <3>2. f # stream[i].frame
      BY <1>1, <1>2, <1>3, <2>1, <2>2 DEF CacheInv
    <3> QED
      BY <1>3, <1>5, <2>1, <3>1, <3>2
  <2>3. CASE i > r
    <3>1. stream[r].frame <= stream[i].frame
      BY <1>1, <1>3, <1>4, <2>1, <2>3 DEF StreamInv
    <3> QED
      BY <1>3, <1>4, <1>5, <2>1, <3>1
  <2> QED
    BY <1>3, <2>1, <2>2, <2>3
<1>9. Seen(c)' = Seen(c)
  BY <1>2 DEF Seen
<1>10. CacheInv(c)'
  BY <1>1, <1>2, <1>9 DEF CacheInv
<1>11. ClientInv(c)'
  <2>1. paused[c] => Seen(c) > 0 /\ stream[Seen(c)].frame = f
    BY <1>1, <1>7 DEF ClientInv
  <2>2. ASSUME NEW K \in Nat, K <= f PROVE K <= frame[Server]
    BY <1>3, <1>6, <2>2
  <2>3. \A i \in Seen(c) + 1 .. Len(stream) : f <= stream[i].frame
    BY <1>1, <1>7 DEF ClientInv
  <2>4. paused[c] = PausedBy(stream, Seen(c)) /\ loops[c] < Period
    BY <1>1 DEF ClientInv
  <2>5. /\ pc'[c] = "idle" => loops[c] = 0
        /\ pc'[c] # "keyframe"
    BY <1>2, <1>3
  <2>6. \A K \in Nat : K < f \/ K = f => K <= frame[Server]
    BY <1>3, <2>2
  <2> QED
    BY <1>2, <1>8, <1>9, <2>1, <2>3, <2>4, <2>5, <2>6 DEF ClientInv
<1> QED
  BY <1>10, <1>11

\* The lists of a frame are the next broadcasts of the stream, all of them made
\* at this frame.
LEMMA BatchIsNext ==
    ASSUME Inv, NEW c \in Client, GiveCommands(c)
    PROVE  LET f     == frame[c]
               g     == Seen(c)
               batch == cached[c][f]
               m     == Len(batch)
           IN  /\ batch \in Seq(Nat) /\ m \in Nat /\ DOMAIN batch = 1 .. m
               /\ \A k \in 1 .. m : batch[k] = g + k
               /\ g + m <= received[c]
               /\ \A i \in g + 1 .. g + m : stream[i].frame = f
<1> DEFINE f == frame[c]
           r == received[c]
           g == Seen(c)
           n == Len(stream)
           batch == cached[c][f]
           m == Len(batch)
<1>1. /\ TypeOK
      /\ StreamInv
      /\ CacheInv(c)
      /\ ClientInv(c)
  BY DEF Inv
<1>2. pc[c] = "keyframe" /\ f \in DOMAIN cached[c]
  BY DEF GiveCommands
<1>3. /\ f \in Nat /\ r \in Nat /\ g \in Nat /\ n \in Nat
      /\ g <= r /\ r <= n
  BY <1>1 DEF TypeOK, Player, Seen, CacheInv
<1>4. batch \in Seq(Nat) /\ m \in Nat /\ DOMAIN batch = 1 .. m
  BY <1>1, <1>2 DEF TypeOK
<1>5. \A i \in 1 .. n : stream[i].frame \in Nat
  BY <1>1, BroadcastType
<1>6. ~Lost(c)
  BY <1>2 DEF Lost
<1>7. \A k \in 1 .. m : /\ batch[k] \in g + 1 .. r
                        /\ stream[batch[k]].frame = f
                        /\ batch[k] = batch[1] + k - 1
  BY <1>1, <1>2 DEF CacheInv
<1>8. \A i \in g + 1 .. n : f <= stream[i].frame
  BY <1>1, <1>6 DEF ClientInv
<1>9. \A i, j \in 1 .. n : i <= j => stream[i].frame <= stream[j].frame
  BY <1>1 DEF StreamInv
<1>10. \A i \in g + 1 .. r : stream[i].frame = f => \E k \in 1 .. m : batch[k] = i
  BY <1>1 DEF CacheInv
<1> HIDE DEF f, r, g, n, batch, m
<1>15. \A k \in 1 .. m : batch[k] = g + k
  <2> SUFFICES ASSUME NEW k \in 1 .. m PROVE batch[k] = g + k
    OBVIOUS
  <2>1. 1 \in 1 .. m
    BY <1>4
  <2>2. batch[1] \in g + 1 .. r /\ stream[batch[1]].frame = f
    BY <1>7, <2>1
  <2>3. g + 1 \in g + 1 .. r /\ g + 1 \in 1 .. n /\ batch[1] \in 1 .. n /\ g + 1 \in g + 1 .. n
    BY <1>3, <2>2
  <2>4. stream[g + 1].frame = f
    <3>1. g + 1 <= batch[1]
      BY <1>3, <2>2
    <3>2. stream[g + 1].frame <= f
      BY <1>9, <2>2, <2>3, <3>1
    <3>3. f <= stream[g + 1].frame
      BY <1>8, <2>3
    <3> QED
      BY <1>3, <1>5, <2>3, <3>2, <3>3
  <2>5. PICK l \in 1 .. m : batch[l] = g + 1
    BY <1>10, <2>3, <2>4
  <2>6. batch[l] = batch[1] + l - 1
    BY <1>7
  <2>7. batch[1] = g + 1
    BY <1>3, <1>4, <2>2, <2>5, <2>6
  <2>8. batch[k] = batch[1] + k - 1
    BY <1>7
  <2> QED
    BY <1>3, <1>4, <2>7, <2>8
<1>16. g + m <= r
  <2>1. CASE m = 0
    BY <1>3, <2>1
  <2>2. CASE m # 0
    <3>1. m \in 1 .. m
      BY <1>4, <2>2
    <3> QED
      BY <1>3, <1>4, <1>7, <1>15, <3>1
  <2> QED
    BY <2>1, <2>2
<1>17. \A i \in g + 1 .. g + m : stream[i].frame = f
  <2> TAKE i \in g + 1 .. g + m
  <2>1. i - g \in 1 .. m /\ g + (i - g) = i
    BY <1>3, <1>4
  <2> QED
    BY <1>7, <1>15, <2>1
<1> QED
  BY <1>4, <1>15, <1>16, <1>17 DEF f, r, g, batch, m

\* Giving the lists of a frame gives the next broadcasts of the stream, all of
\* this frame that there are unless the game is paused after them.
LEMMA GiveClient ==
    ASSUME Inv, NEW c \in Client, GiveCommands(c)
    PROVE  CacheInv(c)' /\ ClientInv(c)'
<1> DEFINE f == frame[c]
           r == received[c]
           g == Seen(c)
           n == Len(stream)
           batch == cached[c][f]
           m == Len(batch)
           lists == [i \in DOMAIN batch |-> stream[batch[i]].cmds]
<1>1. /\ TypeOK
      /\ StreamInv
      /\ CacheInv(c)
      /\ ClientInv(c)
  BY DEF Inv
<1>2. /\ stream' = stream /\ frame' = frame /\ received' = received /\ loops' = loops
      /\ pc[c] = "keyframe" /\ pc'[c] = IF loops[c] > 0 THEN "loop" ELSE "idle"
      /\ f \in DOMAIN cached[c]
      /\ given'[c] = given[c] \o batch
      /\ paused'[c] = PauseAfter(paused[c], lists)
      /\ cached'[c] = [cached[c] EXCEPT ![f] = <<>>]
  BY <1>1 DEF TypeOK, GiveCommands, AfterKeyframe, Player
<1>3. /\ f \in Nat /\ r \in Nat /\ g \in Nat /\ n \in Nat /\ loops[c] \in Nat
      /\ frame[Server] \in Nat
      /\ g <= r /\ r <= n
      /\ given[c] \in Seq(Nat) /\ g = Len(given[c])
  BY <1>1 DEF TypeOK, Player, Seen, CacheInv
<1>4. batch \in Seq(Nat) /\ m \in Nat /\ DOMAIN batch = 1 .. m
  BY <1>1, <1>2 DEF TypeOK
<1>5. \A i \in 1 .. n : stream[i].frame \in Nat
  BY <1>1, BroadcastType
<1>6. ~Lost(c)
  BY <1>2 DEF Lost
<1>8. \A i \in g + 1 .. n : f <= stream[i].frame
  BY <1>1, <1>6 DEF ClientInv
<1>9. \A i, j \in 1 .. n : i <= j => stream[i].frame <= stream[j].frame
  BY <1>1 DEF StreamInv
<1>10. \A i \in g + 1 .. r : stream[i].frame = f => \E k \in 1 .. m : batch[k] = i
  BY <1>1 DEF CacheInv
<1>11. paused[c] = PausedBy(stream, g)
  BY <1>1 DEF ClientInv
<1>12. paused[c] => g > 0 /\ stream[g].frame = f
  BY <1>1, <1>6 DEF ClientInv
<1>13. PICK e \in 1 .. r : stream[e].frame = f
  BY <1>1, <1>2, <1>3 DEF CacheInv
<1>14. Lost(c)' => pc'[c] # "keyframe"
  BY DEF Lost
<1> HIDE DEF f, r, g, n, batch, m, lists
<1>15. \A k \in 1 .. m : batch[k] = g + k
  BY BatchIsNext DEF f, g, batch, m
<1>16. g + m <= r
  BY BatchIsNext DEF f, g, r, batch, m
<1>17. \A i \in g + 1 .. g + m : stream[i].frame = f
  BY BatchIsNext DEF f, g, batch, m
<1>18. ASSUME NEW i \in g + m + 1 .. r PROVE f < stream[i].frame
  <2>1. i \in g + 1 .. r /\ i \in g + 1 .. n /\ i \in 1 .. n
    BY <1>3, <1>4
  <2>2. stream[i].frame # f
    <3> SUFFICES ASSUME stream[i].frame = f PROVE FALSE
      OBVIOUS
    <3>1. PICK k \in 1 .. m : batch[k] = i
      BY <1>10, <2>1
    <3> QED
      BY <1>3, <1>4, <1>15, <3>1
  <2> QED
    BY <1>3, <1>5, <1>8, <2>1, <2>2
<1>19. /\ Seen(c)' = g + m
       /\ \A i \in 1 .. g + m : given'[c][i] = i
  <2>1. Len(given'[c]) = g + m
    BY <1>2, <1>3, <1>4 DEF m
  <2>2. ASSUME NEW i \in 1 .. g + m PROVE given'[c][i] = i
    <3>1. CASE i <= g
      <4>1. given'[c][i] = given[c][i] /\ i \in 1 .. g
        BY <1>2, <1>3, <1>4, <3>1
      <4> QED
        BY <1>1, <4>1 DEF CacheInv, g
    <3>2. CASE i > g
      <4>1. given'[c][i] = batch[i - g]
        BY <1>2, <1>3, <1>4, <3>2 DEF m
      <4>2. i - g \in 1 .. m /\ g + (i - g) = i
        BY <1>3, <1>4, <3>2
      <4> QED
        BY <1>15, <4>1, <4>2
    <3> QED
      BY <1>3, <3>1, <3>2
  <2> QED
    BY <2>1, <2>2 DEF Seen
<1>20. paused'[c] = PausedBy(stream, g + m)
  <2>1. /\ DOMAIN lists = 1 .. (g + m) - g
        /\ \A k \in 1 .. (g + m) - g : lists[k] = stream[g + k].cmds
    <3>1. (g + m) - g = m
      BY <1>3, <1>4
    <3>2. DOMAIN lists = 1 .. m /\ \A k \in 1 .. m : lists[k] = stream[batch[k]].cmds
      BY <1>4 DEF lists
    <3> QED
      BY <1>15, <3>1, <3>2
  <2>2. g + m \in Nat /\ g <= g + m
    BY <1>3, <1>4
  <2>3. PauseAfter(PausedBy(stream, g), lists) = PausedBy(stream, g + m)
    <3>1. g \in Nat
      BY <1>3
    <3> QED
      BY <2>1, <2>2, <3>1, PausedByMore
  <2> QED
    BY <1>2, <1>11, <2>3
<1>21. paused'[c] => g + m > 0 /\ stream[g + m].frame = f
  <2> SUFFICES ASSUME paused'[c] PROVE g + m > 0 /\ stream[g + m].frame = f
    OBVIOUS
  <2>1. CASE m = 0
    <3>1. g + m = g
      BY <1>3, <2>1
    <3>2. paused[c]
      BY <1>11, <1>20, <3>1
    <3> QED
      BY <1>12, <3>1, <3>2
  <2>2. CASE m # 0
    <3>1. g + m \in g + 1 .. g + m
      BY <1>3, <1>4, <2>2
    <3>2. stream[g + m].frame = f
      BY <1>17, <3>1
    <3> QED
      BY <1>3, <3>1, <3>2
  <2> QED
    BY <2>1, <2>2
<1>22. \A K \in Nat : K < f \/ K = f => K <= frame[Server]
  <2>1. e \in 1 .. n
    BY <1>3
  <2>2. f <= frame[Server]
    BY <1>1, <1>13, <2>1 DEF StreamInv, n
  <2> QED
    BY <1>3, <2>2
<1>23. \A i \in g + m + 1 .. n : f <= stream[i].frame
  <2> TAKE i \in g + m + 1 .. n
  <2>1. i \in g + 1 .. n
    BY <1>3, <1>4
  <2> QED
    BY <1>8, <2>1
<1>24. ASSUME ~paused'[c], NEW i \in g + m + 1 .. n
       PROVE  f < stream[i].frame
  <2>1. CASE i <= r
    <3>1. i \in g + m + 1 .. r
      BY <1>3, <1>4, <2>1
    <3> QED
      BY <1>18, <3>1
  <2>2. CASE i > r
    <3> SUFFICES ASSUME stream[i].frame = f PROVE FALSE
      <4>1. i \in 1 .. n
        BY <1>3, <1>4
      <4> QED
        BY <1>3, <1>5, <1>23, <4>1
    <3>1. r \in 1 .. n /\ r + 1 \in 1 .. n /\ e \in 1 .. n /\ i \in 1 .. n
          /\ e <= r + 1 /\ r + 1 <= i /\ r <= i /\ e < r + 1 /\ (r + 1) - 1 = r
      BY <1>3, <1>4, <2>2
    <3>2. g + m = r
      <4> SUFFICES ASSUME g + m # r PROVE FALSE
        OBVIOUS
      <4>1. r \in g + m + 1 .. r
        <5>1. g + m \in Nat /\ r \in Nat /\ g + m <= r /\ g + m # r
          BY <1>3, <1>4, <1>16
        <5> QED
          BY <5>1
      <4>2. f < stream[r].frame
        BY <1>18, <4>1
      <4>3. stream[r].frame <= f
        BY <1>9, <3>1
      <4> QED
        BY <1>3, <1>5, <3>1, <4>2, <4>3
    <3>3. stream[r + 1].frame = f
      <4>1. f <= stream[r + 1].frame
        BY <1>9, <1>13, <3>1
      <4>2. stream[r + 1].frame <= f
        BY <1>9, <3>1
      <4> QED
        BY <1>3, <1>5, <3>1, <4>1, <4>2
    <3>4. PausedBy(stream, (r + 1) - 1)
      BY <1>1, <1>13, <3>1, <3>3 DEF StreamInv, n
    <3> QED
      BY <1>20, <1>24, <3>1, <3>2, <3>4
  <2> QED
    BY <1>3, <1>4, <2>1, <2>2
<1>25. CacheInv(c)'
  <2>1. /\ DOMAIN cached'[c] = DOMAIN cached[c]
        /\ cached'[c][f] = <<>>
        /\ \A F \in DOMAIN cached[c] : F # f => cached'[c][F] = cached[c][F]
    BY <1>2
  <2>2. \A F \in Nat : F \in DOMAIN cached'[c]
                         <=> \E i \in 1 .. r : stream[i].frame = F
    BY <1>1, <2>1 DEF CacheInv, r
  <2>3. ASSUME NEW F \in DOMAIN cached'[c], NEW k \in 1 .. Len(cached'[c][F])
        PROVE  /\ cached'[c][F][k] \in g + m + 1 .. r
               /\ stream[cached'[c][F][k]].frame = F
               /\ cached'[c][F][k] = cached'[c][F][1] + k - 1
    <3>1. F # f
      BY <2>1
    <3>2. F \in DOMAIN cached[c] /\ cached'[c][F] = cached[c][F]
      BY <2>1, <3>1
    <3>3. /\ cached[c][F][k] \in g + 1 .. r
          /\ stream[cached[c][F][k]].frame = F
          /\ cached[c][F][k] = cached[c][F][1] + k - 1
      BY <1>1, <3>2 DEF CacheInv, g, r
    <3>4. cached[c][F][k] \notin g + 1 .. g + m
      BY <1>17, <3>1, <3>3
    <3>5. cached[c][F][k] \in g + m + 1 .. r
      BY <1>3, <1>4, <3>3, <3>4
    <3> QED
      BY <3>2, <3>3, <3>5
  <2>4. ASSUME NEW i \in g + m + 1 .. r
        PROVE  \E k \in 1 .. Len(cached'[c][stream[i].frame]) :
                   cached'[c][stream[i].frame][k] = i
    <3>1. i \in g + 1 .. r /\ i \in 1 .. n /\ i \in 1 .. r
      BY <1>3, <1>4
    <3>2. stream[i].frame # f /\ stream[i].frame \in Nat
      BY <1>3, <1>5, <1>18, <3>1
    <3>3. stream[i].frame \in DOMAIN cached[c]
      BY <1>1, <3>1, <3>2 DEF CacheInv, r
    <3>4. cached'[c][stream[i].frame] = cached[c][stream[i].frame]
      BY <2>1, <3>2, <3>3
    <3>5. \E k \in 1 .. Len(cached[c][stream[i].frame]) : cached[c][stream[i].frame][k] = i
      BY <1>1, <3>1 DEF CacheInv, g, r
    <3> QED
      BY <3>4, <3>5
  <2>5. /\ Seen(c)' <= received'[c]
        /\ received'[c] <= Len(stream')
        /\ \A i \in 1 .. Seen(c)' : given'[c][i] = i
    BY <1>2, <1>3, <1>16, <1>19 DEF r, n
  <2>6. received'[c] = r /\ stream' = stream /\ Seen(c)' = g + m
    BY <1>2, <1>19 DEF r
  <2> HIDE DEF r, g, m
  <2> QED
    BY <2>2, <2>3, <2>4, <2>5, <2>6 DEF CacheInv
<1>26. ClientInv(c)'
  <2>1. loops[c] < Period
    BY <1>1 DEF ClientInv
  <2>2. /\ pc'[c] = "idle" => loops[c] = 0
        /\ pc'[c] # "keyframe"
    BY <1>2, <1>3
  <2> QED
    BY <1>2, <1>19, <1>20, <1>21, <1>22, <1>23, <1>24, <2>1, <2>2 DEF ClientInv, f, n
<1> QED
  BY <1>25, <1>26

-----------------------------------------------------------------------------
(***************************************************************************)
(* The invariant.                                                          *)
(***************************************************************************)

\* What the invariant is about does not change in the other steps.
LEMMA OtherSteps ==
    ASSUME Inv, stream' = stream, worldVars' = worldVars, received' = received,
           cached' = cached, given' = given, pc' = pc, loops' = loops
    PROVE  StreamInv' /\ \A c \in Client : CacheInv(c)' /\ ClientInv(c)'
<1>1. frame' = frame /\ paused' = paused
  BY DEF worldVars
<1>2. StreamInv'
  BY <1>1, SameStream DEF Inv
<1>3. \A c \in Client : CacheInv(c)' /\ ClientInv(c)'
  <2> TAKE c \in Client
  <2>1. CacheInv(c) /\ ClientInv(c)
    BY DEF Inv
  <2> QED
    BY <1>1, <2>1, SameClient
<1> QED
  BY <1>2, <1>3

\* One step of a client.
LEMMA ClientStep ==
    ASSUME Inv, NEW c \in Client, ReceiveCommandList(c) \/ GameThread(c)
    PROVE  StreamInv' /\ \A d \in Client : CacheInv(d)' /\ ClientInv(d)'
<1>1. TypeOK /\ LoopType /\ ClientInv(c)
  BY DEF Inv
<1>2. CacheInv(c)' /\ ClientInv(c)'
  <2>1. CASE ReceiveCommandList(c)
    BY <2>1, ReceiveClient
  <2>2. CASE BeginUpdate(c)
    <3>1. PICK k \in 1 .. MaxLoops : WorldUpdate(c, k - 1)
      BY <2>2 DEF BeginUpdate
    <3>2. k - 1 \in Nat /\ k - 1 < Period
      OBVIOUS
    <3>3. ~paused[c] /\ pc[c] # "keyframe"
      BY <2>2 DEF BeginUpdate
    <3> QED
      BY <3>1, <3>2, <3>3, WorldUpdateClient
  <2>3. CASE NextLoop(c)
    <3>1. /\ WorldUpdate(c, loops[c] - 1)
          /\ pc[c] # "keyframe"
          /\ loops[c] > 0
      BY <1>1, <2>3 DEF NextLoop, LoopType
    <3>2. loops[c] - 1 \in Nat /\ loops[c] - 1 < Period
      <4>1. loops[c] \in Nat /\ loops[c] < Period
        BY <1>1 DEF TypeOK, ClientInv
      <4> QED
        BY <3>1, <4>1
    <3> QED
      BY <3>1, <3>2, WorldUpdateClient
  <2>4. CASE BeginUpdateWithoutLoops(c)
    BY <2>4, WithoutLoopsClient
  <2>5. CASE GiveCommands(c)
    BY <2>5, GiveClient
  <2>6. CASE SkipFrame(c)
    BY <2>6, SkipClient
  <2> QED
    BY <2>1, <2>2, <2>3, <2>4, <2>5, <2>6 DEF GameThread
<1>3. StreamInv' /\ \A d \in Client \ {c} : CacheInv(d)' /\ ClientInv(d)'
  BY OthersUntouched
<1> QED
  BY <1>2, <1>3

\* At the beginning nothing has been broadcast.
LEMMA InvInit == Init => Inv
<1> SUFFICES ASSUME Init PROVE Inv
  OBVIOUS
<1>1. TypeOK /\ LoopType
  BY InitTypes
<1>2. /\ Len(stream) = 0 /\ stream = <<>>
      /\ Server \in Player /\ Client \subseteq Player
  BY DEF Init, Player
<1>3. PausedBy(stream, 0) = FALSE
  BY DEF PausedBy
<1>4. StreamInv
  <2>1. paused[Server] = FALSE
    BY <1>2 DEF Init
  <2>2. \A i \in 1 .. Len(stream) : FALSE
    BY <1>2
  <2> QED
    BY <1>2, <1>3, <2>1, <2>2 DEF StreamInv
<1>5. ASSUME NEW c \in Client PROVE CacheInv(c) /\ ClientInv(c)
  <2>1. /\ Seen(c) = 0 /\ received[c] = 0 /\ cached[c] = <<>> /\ pc[c] = "idle"
        /\ loops[c] = 0 /\ ~paused[c] /\ frame[c] = 0 /\ frame[Server] = 0
    BY <1>2 DEF Init, Seen
  <2>2. CacheInv(c)
    BY <1>2, <2>1 DEF CacheInv
  <2>3. ClientInv(c)
    <3>1. paused[c] = PausedBy(stream, Seen(c))
      BY <1>2, <1>3, <2>1 DEF Init
    <3>2. \A i \in Seen(c) + 1 .. Len(stream) : FALSE
      BY <1>2, <2>1
    <3>3. \A K \in Nat : K < 0 \/ K = 0 => K <= 0
      OBVIOUS
    <3> QED
      BY <2>1, <3>1, <3>2, <3>3 DEF ClientInv
  <2> QED
    BY <2>2, <2>3
<1> QED
  BY <1>1, <1>4, <1>5 DEF Inv

\* Every step keeps the invariant.
LEMMA InvStep == Inv /\ [Next]_vars => Inv'
<1> SUFFICES ASSUME Inv, [Next]_vars PROVE Inv'
  OBVIOUS
<1>1. TypeOK' /\ LoopType'
  BY TypeStep DEF Inv
<1>2. StreamInv' /\ \A c \in Client : CacheInv(c)' /\ ClientInv(c)'
  <2>1. ASSUME NEW p \in Player, NEW k \in Kind, RequestCommand(p, k)
        PROVE  StreamInv' /\ \A c \in Client : CacheInv(c)' /\ ClientInv(c)'
    BY <2>1, OtherSteps DEF RequestCommand, clientVars
  <2>2. CASE ServerStep
    <3>1. StreamInv'
      BY <2>2, ServerStream DEF Inv
    <3> QED
      BY <2>2, <3>1, ServerClient
  <2>3. CASE ToggleAutoPaused
    BY <2>3, OtherSteps DEF ToggleAutoPaused, clientVars
  <2>4. ASSUME NEW c \in Client,
               \/ ClientSend(c)
               \/ SlotReceive(c)
               \/ ExecuteNetworkCommandsFromClients(c)
               \/ Disconnect(c)
        PROVE  StreamInv' /\ \A d \in Client : CacheInv(d)' /\ ClientInv(d)'
    BY <2>4, OtherSteps DEF ClientSend, SlotReceive, ExecuteNetworkCommandsFromClients,
                            Disconnect, clientVars
  <2>5. ASSUME NEW c \in Client, ReceiveCommandList(c) \/ GameThread(c)
        PROVE  StreamInv' /\ \A d \in Client : CacheInv(d)' /\ ClientInv(d)'
    BY <2>5, ClientStep
  <2>6. CASE UNCHANGED vars
    BY <2>6, OtherSteps DEF vars, clientVars
  <2> QED
    BY <2>1, <2>2, <2>3, <2>4, <2>5, <2>6 DEF Next
<1> QED
  BY <1>1, <1>2 DEF Inv

\* The invariant holds in every reachable state.
THEOREM Invariant == Spec => []Inv
  BY InvInit, InvStep, PTL DEF Spec

\* The worlds agree: every client has given a prefix of the server's broadcasts
\* to its world, in the server's order.
THEOREM AgreementHolds == Spec => []Agreement
<1>1. Inv => Agreement
  <2> SUFFICES ASSUME Inv, NEW c \in Client
               PROVE  /\ Len(given[c]) <= Len(stream)
                      /\ \A i \in 1 .. Len(given[c]) : given[c][i] = i
    BY DEF Agreement
  <2>1. TypeOK /\ CacheInv(c)
    BY DEF Inv
  <2>2. received[c] \in Nat /\ Len(given[c]) \in Nat /\ Len(stream) \in Nat
    BY <2>1 DEF TypeOK
  <2> QED
    BY <2>1, <2>2 DEF CacheInv, Seen
<1> QED
  BY <1>1, Invariant, PTL

\* No client passes a keyframe that the server has not reached.
THEOREM ClientBehindServerHolds == Spec => []ClientBehindServer
<1>1. Inv => ClientBehindServer
  <2> SUFFICES ASSUME Inv, NEW c \in Client, NEW f \in 1 .. MaxFrame + Period,
                      f < frame[c], IsKeyframe(f)
               PROVE  f <= frame[Server]
    BY DEF ClientBehindServer
  <2>1. ClientInv(c)
    BY DEF Inv
  <2> QED
    BY <2>1 DEF ClientInv
<1> QED
  BY <1>1, Invariant, PTL

-----------------------------------------------------------------------------
(***************************************************************************)
(* No command is lost or doubled.  Every command of a player is in one     *)
(* place of one of five: the list of its own interface, the lists on the   *)
(* way, the list of its slot, the server's list and the broadcasts.        *)
(***************************************************************************)

\* A list has an element of S; it has one and only in one place.
In(s, S)   == \E i \in DOMAIN s : s[i] \in S
Once(s, S) == \E i \in DOMAIN s : /\ s[i] \in S
                                  /\ \A j \in DOMAIN s : s[j] \in S => j = i

\* The same of the lists of a list.
InOne(l, S)     == \E n \in DOMAIN l : In(l[n], S)
OnceInOne(l, S) == \E n \in DOMAIN l : /\ Once(l[n], S)
                                       /\ \A m \in DOMAIN l : In(l[m], S) => m = n

\* The commands of player p with the number k.
Numbered(p, k) == {x \in Command : x.player = p /\ x.number = k}

\* In none of the five places, and in one of them.
Nowhere(own, way, slot, server, sent, S) ==
    ~In(own, S) /\ ~InOne(way, S) /\ ~In(slot, S) /\ ~In(server, S) /\ ~InOne(sent, S)

InOnePlace(own, way, slot, server, sent, S) ==
    \/ Once(own, S) /\ ~InOne(way, S) /\ ~In(slot, S) /\ ~In(server, S) /\ ~InOne(sent, S)
    \/ ~In(own, S) /\ OnceInOne(way, S) /\ ~In(slot, S) /\ ~In(server, S) /\ ~InOne(sent, S)
    \/ ~In(own, S) /\ ~InOne(way, S) /\ Once(slot, S) /\ ~In(server, S) /\ ~InOne(sent, S)
    \/ ~In(own, S) /\ ~InOne(way, S) /\ ~In(slot, S) /\ Once(server, S) /\ ~InOne(sent, S)
    \/ ~In(own, S) /\ ~InOne(way, S) /\ ~In(slot, S) /\ ~In(server, S) /\ OnceInOne(sent, S)

\* A command that has been requested is in one place, any other is nowhere.
Kept(p, k) ==
    LET S == Numbered(p, k)
    IN  IF k \in 1 .. numbered[p]
           THEN InOnePlace(OwnList(p), WayLists(p), SlotList(p), requested[Server],
                           SentLists, S)
           ELSE Nowhere(OwnList(p), WayLists(p), SlotList(p), requested[Server],
                        SentLists, S)

\* The lists of a client have nothing but its own commands.
OwnCommands(c) ==
    /\ \A i \in DOMAIN requested[c] : requested[c][i].player = c
    /\ \A i \in DOMAIN slotPending[c] : slotPending[c][i].player = c
    /\ \A n \in DOMAIN toServer[c] :
           \A i \in DOMAIN toServer[c][n] : toServer[c][n][i].player = c

PlaceInv == /\ \A p \in Player, k \in Nat : Kept(p, k)
            /\ \A c \in Client : OwnCommands(c)

\* The empty list has nothing.
LEMMA InEmpty ==
    ASSUME NEW S
    PROVE  ~In(<<>>, S) /\ ~InOne(<<>>, S)
  BY DEF In, InOne

\* What is in a list once is in it.
LEMMA OnceIsIn ==
    ASSUME NEW s, NEW S
    PROVE  (Once(s, S) => In(s, S)) /\ (OnceInOne(s, S) => InOne(s, S))
  BY DEF Once, In, OnceInOne, InOne

\* A reversed list has what the list has, as often.
LEMMA InReverse ==
    ASSUME NEW D, NEW s \in Seq(D), NEW S
    PROVE  /\ In(Reverse(s), S) <=> In(s, S)
           /\ Once(s, S) => Once(Reverse(s), S)
<1> DEFINE r == Reverse(s)
<1>1. DOMAIN r = 1 .. Len(s) /\ DOMAIN s = 1 .. Len(s) /\ Len(s) \in Nat
  BY DEF Reverse
<1>2. \A i \in 1 .. Len(s) : r[i] = s[(Len(s) - i) + 1]
  BY DEF Reverse
<1> HIDE DEF r
<1>3. \A i \in 1 .. Len(s) : (Len(s) - i) + 1 \in 1 .. Len(s)
  BY <1>1
<1>4. \A i \in 1 .. Len(s) : s[i] = r[(Len(s) - i) + 1]
  <2> TAKE i \in 1 .. Len(s)
  <2>1. (Len(s) - ((Len(s) - i) + 1)) + 1 = i
    BY <1>1
  <2> QED
    BY <1>2, <1>3, <2>1
<1>5. In(r, S) <=> In(s, S)
  <2>1. ASSUME In(r, S) PROVE In(s, S)
    BY <1>1, <1>2, <1>3, <2>1 DEF In
  <2>2. ASSUME In(s, S) PROVE In(r, S)
    BY <1>1, <1>3, <1>4, <2>2 DEF In
  <2> QED
    BY <2>1, <2>2
<1>6. ASSUME Once(s, S) PROVE Once(r, S)
  <2>1. PICK i \in 1 .. Len(s) : s[i] \in S /\ \A j \in 1 .. Len(s) : s[j] \in S => j = i
    BY <1>1, <1>6 DEF Once
  <2> DEFINE h == (Len(s) - i) + 1
  <2>2. h \in 1 .. Len(s) /\ r[h] \in S
    BY <1>3, <1>4, <2>1
  <2>3. ASSUME NEW j \in 1 .. Len(s), r[j] \in S PROVE j = h
    <3>1. (Len(s) - j) + 1 = i
      BY <1>2, <1>3, <2>1, <2>3
    <3> QED
      BY <1>1, <3>1
  <2> HIDE DEF h
  <2> QED
    BY <1>1, <2>2, <2>3 DEF Once
<1> QED
  BY <1>5, <1>6 DEF r

\* The elements of two lists one after the other.
LEMMA ConcatParts ==
    ASSUME NEW D, NEW s \in Seq(D), NEW t \in Seq(D)
    PROVE  /\ s \o t \in Seq(D) /\ Len(s) \in Nat /\ Len(t) \in Nat
           /\ DOMAIN s = 1 .. Len(s) /\ DOMAIN t = 1 .. Len(t)
           /\ DOMAIN (s \o t) = 1 .. Len(s) + Len(t)
           /\ \A i \in 1 .. Len(s) : i \in 1 .. Len(s) + Len(t) /\ (s \o t)[i] = s[i]
           /\ \A i \in 1 .. Len(t) : /\ Len(s) + i \in 1 .. Len(s) + Len(t)
                                     /\ (s \o t)[Len(s) + i] = t[i]
           /\ \A i \in 1 .. Len(s) + Len(t) :
                  i \in 1 .. Len(s) \/ \E j \in 1 .. Len(t) : i = Len(s) + j
<1>1. Len(s) \in Nat /\ Len(t) \in Nat /\ DOMAIN s = 1 .. Len(s) /\ DOMAIN t = 1 .. Len(t)
  OBVIOUS
<1>2. /\ s \o t \in Seq(D) /\ DOMAIN (s \o t) = 1 .. Len(s) + Len(t)
      /\ \A i \in 1 .. Len(s) : (s \o t)[i] = s[i]
      /\ \A i \in 1 .. Len(t) : (s \o t)[Len(s) + i] = t[i]
  OBVIOUS
<1>3. ASSUME NEW i \in 1 .. Len(s) + Len(t), i \notin 1 .. Len(s)
      PROVE  \E j \in 1 .. Len(t) : i = Len(s) + j
  <2>1. i - Len(s) \in 1 .. Len(t) /\ i = Len(s) + (i - Len(s))
    BY <1>1, <1>3
  <2> QED
    BY <2>1
<1>4. /\ \A i \in 1 .. Len(s) : i \in 1 .. Len(s) + Len(t)
      /\ \A i \in 1 .. Len(t) : Len(s) + i \in 1 .. Len(s) + Len(t)
  BY <1>1
<1> QED
  BY <1>1, <1>2, <1>3, <1>4

\* What is in two lists one after the other is in one of them; what is in one
\* of them once, and not in the other, is in both together once.
LEMMA InConcat ==
    ASSUME NEW D, NEW s \in Seq(D), NEW t \in Seq(D), NEW S
    PROVE  /\ In(s \o t, S) <=> In(s, S) \/ In(t, S)
           /\ Once(s, S) /\ ~In(t, S) => Once(s \o t, S)
           /\ ~In(s, S) /\ Once(t, S) => Once(s \o t, S)
<1> DEFINE u == s \o t
<1> USE ConcatParts
<1>1. /\ Len(s) \in Nat /\ Len(t) \in Nat
      /\ DOMAIN s = 1 .. Len(s) /\ DOMAIN t = 1 .. Len(t)
      /\ DOMAIN u = 1 .. Len(s) + Len(t)
      /\ \A i \in 1 .. Len(s) : i \in 1 .. Len(s) + Len(t) /\ u[i] = s[i]
      /\ \A i \in 1 .. Len(t) : Len(s) + i \in 1 .. Len(s) + Len(t) /\ u[Len(s) + i] = t[i]
      /\ \A i \in 1 .. Len(s) + Len(t) :
             i \in 1 .. Len(s) \/ \E j \in 1 .. Len(t) : i = Len(s) + j
  OBVIOUS
<1> HIDE DEF u
<1>2. ASSUME In(u, S) PROVE In(s, S) \/ In(t, S)
  <2>1. PICK i \in 1 .. Len(s) + Len(t) : u[i] \in S
    BY <1>1, <1>2 DEF In
  <2>2. CASE i \in 1 .. Len(s)
    <3>1. s[i] \in S
      BY <1>1, <2>1, <2>2
    <3> QED
      BY <1>1, <2>2, <3>1 DEF In
  <2>3. ASSUME NEW j \in 1 .. Len(t), i = Len(s) + j
        PROVE  In(t, S)
    <3>1. t[j] \in S
      BY <1>1, <2>1, <2>3
    <3> QED
      BY <1>1, <3>1 DEF In
  <2> QED
    BY <1>1, <2>2, <2>3
<1>3. ASSUME In(s, S) \/ In(t, S) PROVE In(u, S)
  BY <1>1, <1>3 DEF In
<1>4. ASSUME Once(s, S), ~In(t, S) PROVE Once(u, S)
  <2>1. PICK i \in 1 .. Len(s) :
            s[i] \in S /\ \A j \in 1 .. Len(s) : s[j] \in S => j = i
    BY <1>1, <1>4 DEF Once
  <2>2. i \in 1 .. Len(s) + Len(t) /\ u[i] \in S
    BY <1>1, <2>1
  <2>3. \A j \in 1 .. Len(t) : ~(t[j] \in S)
    BY <1>1, <1>4 DEF In
  <2>4. ASSUME NEW j \in 1 .. Len(s) + Len(t), u[j] \in S PROVE j = i
    <3>1. ASSUME NEW h \in 1 .. Len(t), j = Len(s) + h PROVE FALSE
      BY <1>1, <2>3, <2>4, <3>1
    <3>2. j \in 1 .. Len(s)
      BY <1>1, <3>1
    <3> QED
      BY <1>1, <2>1, <2>4, <3>2
  <2> QED
    BY <1>1, <2>2, <2>4 DEF Once
<1>5. ASSUME ~In(s, S), Once(t, S) PROVE Once(u, S)
  <2>1. PICK i \in 1 .. Len(t) :
            t[i] \in S /\ \A j \in 1 .. Len(t) : t[j] \in S => j = i
    BY <1>1, <1>5 DEF Once
  <2>2. Len(s) + i \in 1 .. Len(s) + Len(t) /\ u[Len(s) + i] \in S
    BY <1>1, <2>1
  <2>3. \A j \in 1 .. Len(s) : ~(s[j] \in S)
    BY <1>1, <1>5 DEF In
  <2>4. ASSUME NEW j \in 1 .. Len(s) + Len(t), u[j] \in S PROVE j = Len(s) + i
    <3>1. j \notin 1 .. Len(s)
      BY <1>1, <2>3, <2>4
    <3>2. PICK h \in 1 .. Len(t) : j = Len(s) + h
      BY <1>1, <3>1
    <3>3. t[h] \in S
      BY <1>1, <2>4, <3>2
    <3> QED
      BY <2>1, <3>2, <3>3
  <2> QED
    BY <1>1, <2>2, <2>4 DEF Once
<1> QED
  BY <1>2, <1>3, <1>4, <1>5 DEF u

\* The same of two lists of lists.
LEMMA InOneConcat ==
    ASSUME NEW D, NEW k \in Seq(Seq(D)), NEW l \in Seq(Seq(D)), NEW S
    PROVE  /\ InOne(k \o l, S) <=> InOne(k, S) \/ InOne(l, S)
           /\ OnceInOne(k, S) /\ ~InOne(l, S) => OnceInOne(k \o l, S)
           /\ ~InOne(k, S) /\ OnceInOne(l, S) => OnceInOne(k \o l, S)
<1> DEFINE E == Seq(D)
           u == k \o l
<1>1. /\ Len(k) \in Nat /\ Len(l) \in Nat
      /\ DOMAIN k = 1 .. Len(k) /\ DOMAIN l = 1 .. Len(l)
      /\ DOMAIN u = 1 .. Len(k) + Len(l)
      /\ \A i \in 1 .. Len(k) : i \in 1 .. Len(k) + Len(l) /\ u[i] = k[i]
      /\ \A i \in 1 .. Len(l) : Len(k) + i \in 1 .. Len(k) + Len(l) /\ u[Len(k) + i] = l[i]
      /\ \A i \in 1 .. Len(k) + Len(l) :
             i \in 1 .. Len(k) \/ \E j \in 1 .. Len(l) : i = Len(k) + j
  <2>1. k \in Seq(E) /\ l \in Seq(E)
    OBVIOUS
  <2> HIDE DEF E
  <2> QED
    BY <2>1, ConcatParts
<1> HIDE DEF u
<1>2. ASSUME InOne(u, S) PROVE InOne(k, S) \/ InOne(l, S)
  <2>1. PICK i \in 1 .. Len(k) + Len(l) : In(u[i], S)
    BY <1>1, <1>2 DEF InOne
  <2>2. CASE i \in 1 .. Len(k)
    <3>1. In(k[i], S)
      BY <1>1, <2>1, <2>2
    <3> QED
      BY <1>1, <2>2, <3>1 DEF InOne
  <2>3. ASSUME NEW j \in 1 .. Len(l), i = Len(k) + j
        PROVE  InOne(l, S)
    <3>1. In(l[j], S)
      BY <1>1, <2>1, <2>3
    <3> QED
      BY <1>1, <3>1 DEF InOne
  <2> QED
    BY <1>1, <2>2, <2>3
<1>3. ASSUME InOne(k, S) \/ InOne(l, S) PROVE InOne(u, S)
  BY <1>1, <1>3 DEF InOne
<1>4. ASSUME OnceInOne(k, S), ~InOne(l, S) PROVE OnceInOne(u, S)
  <2>1. PICK i \in 1 .. Len(k) :
            Once(k[i], S) /\ \A j \in 1 .. Len(k) : In(k[j], S) => j = i
    BY <1>1, <1>4 DEF OnceInOne
  <2>2. i \in 1 .. Len(k) + Len(l) /\ Once(u[i], S)
    BY <1>1, <2>1
  <2>3. \A j \in 1 .. Len(l) : ~(In(l[j], S))
    BY <1>1, <1>4 DEF InOne
  <2>4. ASSUME NEW j \in 1 .. Len(k) + Len(l), In(u[j], S) PROVE j = i
    <3>1. ASSUME NEW h \in 1 .. Len(l), j = Len(k) + h PROVE FALSE
      BY <1>1, <2>3, <2>4, <3>1
    <3>2. j \in 1 .. Len(k)
      BY <1>1, <3>1
    <3> QED
      BY <1>1, <2>1, <2>4, <3>2
  <2> QED
    BY <1>1, <2>2, <2>4 DEF OnceInOne
<1>5. ASSUME ~InOne(k, S), OnceInOne(l, S) PROVE OnceInOne(u, S)
  <2>1. PICK i \in 1 .. Len(l) :
            Once(l[i], S) /\ \A j \in 1 .. Len(l) : In(l[j], S) => j = i
    BY <1>1, <1>5 DEF OnceInOne
  <2>2. Len(k) + i \in 1 .. Len(k) + Len(l) /\ Once(u[Len(k) + i], S)
    BY <1>1, <2>1
  <2>3. \A j \in 1 .. Len(k) : ~(In(k[j], S))
    BY <1>1, <1>5 DEF InOne
  <2>4. ASSUME NEW j \in 1 .. Len(k) + Len(l), In(u[j], S) PROVE j = Len(k) + i
    <3>1. j \notin 1 .. Len(k)
      BY <1>1, <2>3, <2>4
    <3>2. PICK h \in 1 .. Len(l) : j = Len(k) + h
      BY <1>1, <3>1
    <3>3. In(l[h], S)
      BY <1>1, <2>4, <3>2
    <3> QED
      BY <2>1, <3>2, <3>3
  <2> QED
    BY <1>1, <2>2, <2>4 DEF OnceInOne
<1> QED
  BY <1>2, <1>3, <1>4, <1>5 DEF u

\* One list by itself.
LEMMA InSingle ==
    ASSUME NEW s, NEW S
    PROVE  (InOne(<<s>>, S) <=> In(s, S)) /\ (Once(s, S) => OnceInOne(<<s>>, S))
<1>1. DOMAIN <<s>> = {1} /\ <<s>>[1] = s
  OBVIOUS
<1> QED
  BY <1>1 DEF InOne, OnceInOne

\* The first element of a list, taken off: nothing is lost, and nothing is
\* left that was there only once.
LEMMA InRest ==
    ASSUME NEW D, NEW l \in Seq(Seq(D)), l # <<>>, NEW S
    PROVE  /\ InOne(l, S) <=> In(Head(l), S) \/ InOne(Tail(l), S)
           /\ OnceInOne(l, S) => \/ Once(Head(l), S) /\ ~InOne(Tail(l), S)
                                 \/ ~In(Head(l), S) /\ OnceInOne(Tail(l), S)
<1> DEFINE h == Head(l)
           t == Tail(l)
           n == Len(t)
<1>1. /\ n \in Nat /\ DOMAIN t = 1 .. n /\ DOMAIN l = 1 .. n + 1
      /\ l[1] = h /\ \A i \in 1 .. n : t[i] = l[i + 1]
  OBVIOUS
<1>2. /\ 1 \in 1 .. n + 1
      /\ \A i \in 1 .. n : i + 1 \in 1 .. n + 1 /\ i + 1 # 1
      /\ \A i \in 1 .. n + 1 : i # 1 => i - 1 \in 1 .. n /\ (i - 1) + 1 = i
      /\ \A i, j \in 1 .. n : i + 1 = j + 1 => i = j
  BY <1>1
<1>3. \A i \in 1 .. n + 1 : i # 1 => \E j \in 1 .. n : i = j + 1 /\ l[i] = t[j]
  BY <1>1, <1>2
<1> HIDE DEF h, t, n
<1>4. InOne(l, S) <=> In(h, S) \/ InOne(t, S)
  <2>1. ASSUME InOne(l, S) PROVE In(h, S) \/ InOne(t, S)
    BY <1>1, <1>3, <2>1 DEF InOne
  <2>2. ASSUME In(h, S) \/ InOne(t, S) PROVE InOne(l, S)
    BY <1>1, <1>2, <2>2 DEF InOne
  <2> QED
    BY <2>1, <2>2
<1>5. ASSUME OnceInOne(l, S)
      PROVE  \/ Once(h, S) /\ ~InOne(t, S)
             \/ ~In(h, S) /\ OnceInOne(t, S)
  <2>1. PICK m \in 1 .. n + 1 : /\ Once(l[m], S)
                                /\ \A i \in 1 .. n + 1 : In(l[i], S) => i = m
    BY <1>1, <1>5 DEF OnceInOne
  <2>2. CASE m = 1
    <3>1. Once(h, S)
      BY <1>1, <2>1, <2>2
    <3>2. ~InOne(t, S)
      BY <1>1, <1>2, <2>1, <2>2 DEF InOne
    <3> QED
      BY <3>1, <3>2
  <2>3. CASE m # 1
    <3>1. PICK j \in 1 .. n : m = j + 1 /\ l[m] = t[j]
      BY <1>3, <2>3
    <3>2. ~In(h, S)
      BY <1>1, <1>2, <2>1, <2>3
    <3>3. \A i \in 1 .. n : In(t[i], S) => i = j
      BY <1>1, <1>2, <2>1, <3>1
    <3>4. OnceInOne(t, S)
      BY <1>1, <2>1, <3>1, <3>3 DEF OnceInOne
    <3> QED
      BY <3>2, <3>4
  <2> QED
    BY <2>2, <2>3
<1> QED
  BY <1>4, <1>5 DEF h, t

\* The moves of a command list keep a command where it is, or move it.
Moves(own, way, slot, server, sent, own2, way2, slot2, server2, sent2, S) ==
    /\ Nowhere(own, way, slot, server, sent, S)
           => Nowhere(own2, way2, slot2, server2, sent2, S)
    /\ InOnePlace(own, way, slot, server, sent, S)
           => InOnePlace(own2, way2, slot2, server2, sent2, S)

\* ClientSend moves a client's own list to the lists on the way.
LEMMA OwnIsSent ==
    ASSUME NEW own \in Seq(Command), NEW way \in Seq(Seq(Command)),
           NEW slot, NEW server, NEW sent, NEW S
    PROVE  Moves(own, way, slot, server, sent,
                 <<>>, Append(way, Reverse(own)), slot, server, sent, S)
<1> DEFINE r == Reverse(own)
<1>1. r \in Seq(Command) /\ (In(r, S) <=> In(own, S)) /\ (Once(own, S) => Once(r, S))
  BY ReverseType, InReverse
<1> HIDE DEF r
<1>2. <<r>> \in Seq(Seq(Command)) /\ Append(way, r) = way \o <<r>>
  BY <1>1
<1>3. /\ InOne(Append(way, r), S) <=> InOne(way, S) \/ In(r, S)
      /\ OnceInOne(way, S) /\ ~In(r, S) => OnceInOne(Append(way, r), S)
      /\ ~InOne(way, S) /\ Once(r, S) => OnceInOne(Append(way, r), S)
  <2> DEFINE l == <<r>>
  <2>1. (InOne(l, S) <=> In(r, S)) /\ (Once(r, S) => OnceInOne(l, S))
    BY InSingle
  <2>2. l \in Seq(Seq(Command)) /\ Append(way, r) = way \o l
    BY <1>2
  <2> HIDE DEF l
  <2>3. /\ InOne(way \o l, S) <=> InOne(way, S) \/ InOne(l, S)
        /\ OnceInOne(way, S) /\ ~InOne(l, S) => OnceInOne(way \o l, S)
        /\ ~InOne(way, S) /\ OnceInOne(l, S) => OnceInOne(way \o l, S)
    BY <2>2, InOneConcat
  <2> QED
    BY <2>1, <2>2, <2>3
<1>4. (Once(r, S) => In(r, S)) /\ (Once(own, S) => In(own, S))
  BY OnceIsIn
<1> HIDE DEF Command
<1> QED
  BY <1>1, <1>3, <1>4, InEmpty DEF Moves, Nowhere, InOnePlace, r

\* SlotReceive moves the first of the lists on the way to the slot's list.
LEMMA WayIsReceived ==
    ASSUME NEW way \in Seq(Seq(Command)), way # <<>>, NEW slot \in Seq(Command),
           NEW own, NEW server, NEW sent, NEW S
    PROVE  Moves(own, way, slot, server, sent,
                 own, Tail(way), slot \o Head(way), server, sent, S)
<1> DEFINE h == Head(way)
           t == Tail(way)
<1>1. h \in Seq(Command)
  OBVIOUS
<1>2. /\ InOne(way, S) <=> In(h, S) \/ InOne(t, S)
      /\ OnceInOne(way, S) => \/ Once(h, S) /\ ~InOne(t, S)
                              \/ ~In(h, S) /\ OnceInOne(t, S)
  BY InRest
<1> HIDE DEF h, t
<1>3. /\ In(slot \o h, S) <=> In(slot, S) \/ In(h, S)
      /\ Once(slot, S) /\ ~In(h, S) => Once(slot \o h, S)
      /\ ~In(slot, S) /\ Once(h, S) => Once(slot \o h, S)
  BY <1>1, InConcat
<1>4. OnceInOne(way, S) => InOne(way, S)
  BY OnceIsIn
<1> QED
  BY <1>2, <1>3, <1>4 DEF Moves, Nowhere, InOnePlace, h, t

\* ExecuteNetworkCommandsFromClients moves the slot's list to the server's.
LEMMA SlotIsVisited ==
    ASSUME NEW slot \in Seq(Command), NEW server \in Seq(Command),
           NEW own, NEW way, NEW sent, NEW S
    PROVE  Moves(own, way, slot, server, sent,
                 own, way, <<>>, server \o slot, sent, S)
<1>1. /\ In(server \o slot, S) <=> In(server, S) \/ In(slot, S)
      /\ Once(server, S) /\ ~In(slot, S) => Once(server \o slot, S)
      /\ ~In(server, S) /\ Once(slot, S) => Once(server \o slot, S)
  BY InConcat
<1>2. Once(slot, S) => In(slot, S)
  BY OnceIsIn
<1> QED
  BY <1>1, <1>2, InEmpty DEF Moves, Nowhere, InOnePlace

\* The visit of another player's slot changes the server's list only.
LEMMA OtherIsVisited ==
    ASSUME NEW add \in Seq(Command), NEW server \in Seq(Command),
           NEW own, NEW way, NEW slot, NEW sent, NEW S, ~In(add, S)
    PROVE  Moves(own, way, slot, server, sent,
                 own, way, slot, server \o add, sent, S)
<1>1. /\ In(server \o add, S) <=> In(server, S)
      /\ Once(server, S) => Once(server \o add, S)
  BY InConcat
<1> QED
  BY <1>1 DEF Moves, Nowhere, InOnePlace

\* A broadcast moves the server's list to the broadcasts.
LEMMA ServerListIsSent ==
    ASSUME NEW server \in Seq(Command), NEW sent \in Seq(Seq(Command)),
           NEW own, NEW way, NEW slot, NEW S
    PROVE  Moves(own, way, slot, server, sent,
                 own, way, slot, <<>>, Append(sent, Reverse(server)), S)
<1> DEFINE r == Reverse(server)
<1>1. r \in Seq(Command) /\ (In(r, S) <=> In(server, S)) /\ (Once(server, S) => Once(r, S))
  BY ReverseType, InReverse
<1> HIDE DEF r
<1>2. <<r>> \in Seq(Seq(Command)) /\ Append(sent, r) = sent \o <<r>>
  BY <1>1
<1>3. /\ InOne(Append(sent, r), S) <=> InOne(sent, S) \/ In(r, S)
      /\ OnceInOne(sent, S) /\ ~In(r, S) => OnceInOne(Append(sent, r), S)
      /\ ~InOne(sent, S) /\ Once(r, S) => OnceInOne(Append(sent, r), S)
  <2> DEFINE l == <<r>>
  <2>1. (InOne(l, S) <=> In(r, S)) /\ (Once(r, S) => OnceInOne(l, S))
    BY InSingle
  <2>2. l \in Seq(Seq(Command)) /\ Append(sent, r) = sent \o l
    BY <1>2
  <2> HIDE DEF l
  <2>3. /\ InOne(sent \o l, S) <=> InOne(sent, S) \/ InOne(l, S)
        /\ OnceInOne(sent, S) /\ ~InOne(l, S) => OnceInOne(sent \o l, S)
        /\ ~InOne(sent, S) /\ OnceInOne(l, S) => OnceInOne(sent \o l, S)
    BY <2>2, InOneConcat
  <2> QED
    BY <2>1, <2>2, <2>3
<1>4. (Once(r, S) => In(r, S)) /\ (Once(server, S) => In(server, S))
  BY OnceIsIn
<1> QED
  BY <1>1, <1>3, <1>4, InEmpty DEF Moves, Nowhere, InOnePlace, r

\* A command put at the end of a list.
LEMMA InAppended ==
    ASSUME NEW s \in Seq(Command), NEW x \in Command, NEW S
    PROVE  /\ Append(s, x) \in Seq(Command)
           /\ x \notin S => /\ In(Append(s, x), S) <=> In(s, S)
                            /\ Once(s, S) => Once(Append(s, x), S)
           /\ x \in S /\ ~In(s, S) => Once(Append(s, x), S)
<1> DEFINE l == <<x>>
<1>1. DOMAIN l = {1} /\ l[1] = x
  OBVIOUS
<1>2. l \in Seq(Command) /\ Append(s, x) = s \o l /\ Append(s, x) \in Seq(Command)
  OBVIOUS
<1> HIDE DEF l
<1>3. (In(l, S) <=> x \in S) /\ (x \in S => Once(l, S))
  BY <1>1 DEF In, Once
<1>4. /\ In(s \o l, S) <=> In(s, S) \/ In(l, S)
      /\ Once(s, S) /\ ~In(l, S) => Once(s \o l, S)
      /\ ~In(s, S) /\ Once(l, S) => Once(s \o l, S)
  BY <1>2, InConcat
<1> QED
  BY <1>2, <1>3, <1>4

\* The lists have the types the moves need.
LEMMA ListTypes ==
    ASSUME TypeOK
    PROVE  /\ Server \in Player /\ \A c \in Client : c \in Player /\ c # Server
           /\ \A p \in Player : /\ requested[p] \in Seq(Command)
                                /\ numbered[p] \in Nat
           /\ \A c \in Client : /\ slotPending[c] \in Seq(Command)
                                /\ toServer[c] \in Seq(Seq(Command))
           /\ stream \in Seq(Broadcast)
           /\ SentLists \in Seq(Seq(Command))
<1>1. Server \in Player /\ \A c \in Client : c \in Player /\ c # Server
  BY DEF Player, Client, Server
<1>2. /\ \A p \in Player : requested[p] \in Seq(Command) /\ numbered[p] \in Nat
      /\ \A c \in Client : /\ slotPending[c] \in Seq(Command)
                           /\ toServer[c] \in Seq(Seq(Command))
      /\ stream \in Seq(Broadcast)
  BY DEF TypeOK, Broadcast
<1>3. \A i \in 1 .. Len(stream) : stream[i].cmds \in Seq(Command)
  BY BroadcastType DEF Broadcast
<1>4. SentLists \in Seq(Seq(Command))
  <2>1. DOMAIN stream = 1 .. Len(stream) /\ Len(stream) \in Nat
    BY <1>2
  <2> QED
    BY <1>3, <2>1 DEF SentLists
<1> QED
  BY <1>1, <1>2, <1>4

\* A list of other players' commands has none of this one.
LEMMA NotInOwn ==
    ASSUME NEW s, NEW c, NEW p, NEW k, p # c, \A i \in DOMAIN s : s[i].player = c
    PROVE  ~In(s, Numbered(p, k))
  BY DEF In, Numbered

\* A move keeps a command, if its player's numbers are the same.
LEMMA KeptByMove ==
    ASSUME NEW p, NEW k, Kept(p, k), numbered'[p] = numbered[p],
           Moves(OwnList(p), WayLists(p), SlotList(p), requested[Server], SentLists,
                 OwnList(p)', WayLists(p)', SlotList(p)', requested'[Server], SentLists',
                 Numbered(p, k))
    PROVE  Kept(p, k)'
  BY DEF Kept, Moves, Numbered

\* Where nothing moves, everything is kept.
LEMMA KeptInPlace ==
    ASSUME NEW p, NEW k, Kept(p, k), numbered'[p] = numbered[p],
           OwnList(p)' = OwnList(p), WayLists(p)' = WayLists(p),
           SlotList(p)' = SlotList(p), requested'[Server] = requested[Server],
           SentLists' = SentLists
    PROVE  Kept(p, k)'
  BY DEF Kept, Numbered

\* A request puts one new command, with the next number of its player, into
\* that player's list, and keeps the other ones.
LEMMA RequestKeeps ==
    ASSUME TypeOK, PlaceInv, NEW p \in Player, NEW kind \in Kind, RequestCommand(p, kind)
    PROVE  PlaceInv'
<1> DEFINE x == [player |-> p, number |-> numbered[p] + 1, kind |-> kind]
<1>1. x \in Command /\ x.player = p /\ x.number = numbered[p] + 1
  BY ListTypes DEF Command
<1> HIDE DEF x
<1>2. /\ requested' = [requested EXCEPT ![p] = Append(requested[p], x)]
      /\ numbered' = [numbered EXCEPT ![p] = numbered[p] + 1]
      /\ UNCHANGED <<toServer, slotPending, stream>>
  BY DEF RequestCommand, x
<1>3. /\ requested'[p] = Append(requested[p], x)
      /\ numbered'[p] = numbered[p] + 1
      /\ \A q \in Player : q # p => requested'[q] = requested[q] /\ numbered'[q] = numbered[q]
  BY <1>2 DEF TypeOK
<1>4. SentLists' = SentLists
  BY <1>2 DEF SentLists
<1>5. ASSUME NEW q \in Player, NEW k \in Nat PROVE Kept(q, k)'
  <2> DEFINE S == Numbered(q, k)
  <2>1. Kept(q, k)
    BY DEF PlaceInv
  <2>2. WayLists(q)' = WayLists(q) /\ SlotList(q)' = SlotList(q)
    BY <1>2 DEF WayLists, SlotList
  <2>3. x \in S <=> q = p /\ k = numbered[p] + 1
    BY <1>1 DEF Numbered
  <2>4. S' = S
    BY DEF Numbered
  <2> HIDE DEF S
  <2>5. /\ Append(requested[p], x) \in Seq(Command)
        /\ x \notin S => /\ In(Append(requested[p], x), S) <=> In(requested[p], S)
                         /\ Once(requested[p], S) => Once(Append(requested[p], x), S)
        /\ x \in S /\ ~In(requested[p], S) => Once(Append(requested[p], x), S)
    BY <1>1, ListTypes, InAppended
  <2>6. CASE q = p /\ k = numbered[p] + 1
    <3>1. k \notin 1 .. numbered[q] /\ k \in 1 .. numbered'[q]
      BY <1>3, <2>6, ListTypes
    <3>2. Nowhere(OwnList(q), WayLists(q), SlotList(q), requested[Server], SentLists, S)
      BY <2>1, <3>1 DEF Kept, S
    <3>3. CASE p = Server
      <4>1. OwnList(q)' = OwnList(q) /\ requested'[Server] = Append(requested[p], x)
        BY <1>3, <2>6, <3>3 DEF OwnList
      <4>2. Once(requested'[Server], S)
        BY <2>3, <2>5, <2>6, <3>2, <3>3, <4>1 DEF Nowhere
      <4>3. InOnePlace(OwnList(q)', WayLists(q)', SlotList(q)', requested'[Server],
                       SentLists', S)
        BY <1>4, <2>2, <3>2, <4>1, <4>2 DEF Nowhere, InOnePlace
      <4> QED
        BY <2>4, <3>1, <4>3 DEF Kept, S
    <3>4. CASE p # Server
      <4>1. /\ OwnList(q) = requested[p] /\ OwnList(q)' = Append(requested[p], x)
            /\ requested'[Server] = requested[Server]
        BY <1>3, <2>6, <3>4, ListTypes DEF OwnList
      <4>2. Once(OwnList(q)', S)
        BY <2>3, <2>5, <2>6, <3>2, <4>1 DEF Nowhere
      <4>3. InOnePlace(OwnList(q)', WayLists(q)', SlotList(q)', requested'[Server],
                       SentLists', S)
        BY <1>4, <2>2, <3>2, <4>1, <4>2 DEF Nowhere, InOnePlace
      <4> QED
        BY <2>4, <3>1, <4>3 DEF Kept, S
    <3> QED
      BY <3>3, <3>4
  <2>7. CASE ~(q = p /\ k = numbered[p] + 1)
    <3>1. k \in 1 .. numbered'[q] <=> k \in 1 .. numbered[q]
      BY <1>3, <2>7, ListTypes
    <3>2. /\ \/ OwnList(q)' = OwnList(q)
             \/ OwnList(q) = requested[p] /\ OwnList(q)' = Append(requested[p], x)
          /\ \/ requested'[Server] = requested[Server]
             \/ requested[Server] = requested[p] /\ requested'[Server] = Append(requested[p], x)
      BY <1>3, ListTypes DEF OwnList
    <3>3. Moves(OwnList(q), WayLists(q), SlotList(q), requested[Server], SentLists,
                OwnList(q)', WayLists(q)', SlotList(q)', requested'[Server], SentLists', S)
      BY <1>4, <2>2, <2>3, <2>5, <2>7, <3>2 DEF Moves, Nowhere, InOnePlace
    <3> QED
      BY <2>1, <2>4, <3>1, <3>3 DEF Kept, Moves, S
  <2> QED
    BY <2>6, <2>7
<1>6. ASSUME NEW c \in Client PROVE OwnCommands(c)'
  <2>1. OwnCommands(c) /\ c \in Player
    BY ListTypes DEF PlaceInv
  <2>2. \A i \in DOMAIN requested'[c] : requested'[c][i].player = c
    <3>1. CASE c = p
      <4>1. requested[c] \in Seq(Command)
        BY <2>1, ListTypes
      <4>2. \A i \in DOMAIN Append(requested[c], x) :
                \/ i \in DOMAIN requested[c] /\ Append(requested[c], x)[i] = requested[c][i]
                \/ Append(requested[c], x)[i] = x
        BY <4>1
      <4> QED
        BY <1>1, <1>3, <2>1, <3>1, <4>2 DEF OwnCommands
    <3>2. CASE c # p
      BY <1>3, <2>1, <3>2 DEF OwnCommands
    <3> QED
      BY <3>1, <3>2
  <2> QED
    BY <1>2, <2>1, <2>2 DEF OwnCommands
<1> QED
  BY <1>5, <1>6 DEF PlaceInv

\* What a client sends is its own list, and the way has no other than its own.
LEMMA SendKeeps ==
    ASSUME TypeOK, PlaceInv, NEW c \in Client, ClientSend(c)
    PROVE  PlaceInv'
<1> DEFINE r == Reverse(requested[c])
<1>1. /\ c \in Player /\ c # Server /\ Server \in Player
      /\ requested[c] \in Seq(Command) /\ toServer[c] \in Seq(Seq(Command))
  BY ListTypes
<1>2. /\ requested' = [requested EXCEPT ![c] = <<>>]
      /\ toServer' = [toServer EXCEPT ![c] = Append(toServer[c], r)]
      /\ UNCHANGED <<numbered, slotPending, stream>>
  BY DEF ClientSend
<1>3. /\ requested'[c] = <<>> /\ toServer'[c] = Append(toServer[c], r)
      /\ requested'[Server] = requested[Server]
      /\ \A q \in Player : q # c => requested'[q] = requested[q]
      /\ \A q \in Client : q # c => toServer'[q] = toServer[q]
  BY <1>1, <1>2 DEF TypeOK
<1>4. SentLists' = SentLists
  BY <1>2 DEF SentLists
<1>5. /\ r \in Seq(Command) /\ DOMAIN r = 1 .. Len(requested[c])
      /\ \A i \in DOMAIN r : r[i] = requested[c][(Len(requested[c]) - i) + 1]
  BY <1>1, ReverseType DEF Reverse
<1>6. ASSUME NEW q \in Player, NEW k \in Nat PROVE Kept(q, k)'
  <2>1. Kept(q, k) /\ numbered'[q] = numbered[q] /\ SlotList(q)' = SlotList(q)
    BY <1>2 DEF PlaceInv, SlotList
  <2>2. CASE q = c
    <3>1. /\ OwnList(q) = requested[c] /\ OwnList(q)' = <<>>
          /\ WayLists(q) = toServer[c] /\ WayLists(q)' = Append(toServer[c], r)
      BY <1>1, <1>3, <2>2 DEF OwnList, WayLists
    <3>2. Moves(requested[c], toServer[c], SlotList(q), requested[Server], SentLists,
                <<>>, Append(toServer[c], r), SlotList(q), requested[Server], SentLists,
                Numbered(q, k))
      BY <1>1, OwnIsSent
    <3> HIDE DEF r
    <3> QED
      BY <1>3, <1>4, <2>1, <3>1, <3>2, KeptByMove
  <2>3. CASE q # c
    <3>1. OwnList(q)' = OwnList(q) /\ WayLists(q)' = WayLists(q)
      BY <1>3, <2>3 DEF OwnList, WayLists, Player
    <3> QED
      BY <1>3, <1>4, <2>1, <3>1, KeptInPlace
  <2> QED
    BY <2>2, <2>3
<1>7. ASSUME NEW d \in Client PROVE OwnCommands(d)'
  <2>1. OwnCommands(d) /\ d \in Player
    BY ListTypes DEF PlaceInv
  <2>2. CASE d = c
    <3>1. \A i \in DOMAIN r : r[i].player = c
      <4> TAKE i \in DOMAIN r
      <4>1. (Len(requested[c]) - i) + 1 \in DOMAIN requested[c]
        BY <1>1, <1>5
      <4> QED
        BY <1>5, <2>1, <2>2, <4>1 DEF OwnCommands
    <3> HIDE DEF r
    <3>2. \A n \in DOMAIN Append(toServer[c], r) :
              \/ n \in DOMAIN toServer[c] /\ Append(toServer[c], r)[n] = toServer[c][n]
              \/ Append(toServer[c], r)[n] = r
      BY <1>1, <1>5
    <3>3. \A n \in DOMAIN toServer'[c] :
              \A i \in DOMAIN toServer'[c][n] : toServer'[c][n][i].player = c
      BY <1>3, <2>1, <2>2, <3>1, <3>2 DEF OwnCommands
    <3>4. DOMAIN requested'[c] = {}
      BY <1>3
    <3> QED
      BY <1>2, <2>1, <2>2, <3>3, <3>4 DEF OwnCommands
  <2>3. CASE d # c
    BY <1>2, <1>3, <2>1, <2>3 DEF OwnCommands
  <2> QED
    BY <2>2, <2>3
<1> QED
  BY <1>6, <1>7 DEF PlaceInv

\* What a slot receives is the first list on the way.
LEMMA SlotKeeps ==
    ASSUME TypeOK, PlaceInv, NEW c \in Client, SlotReceive(c)
    PROVE  PlaceInv'
<1>1. /\ c \in Player /\ c # Server /\ toServer[c] # <<>>
      /\ slotPending[c] \in Seq(Command) /\ toServer[c] \in Seq(Seq(Command))
  BY ListTypes DEF SlotReceive
<1>2. /\ slotPending' = [slotPending EXCEPT ![c] = slotPending[c] \o Head(toServer[c])]
      /\ toServer' = [toServer EXCEPT ![c] = Tail(toServer[c])]
      /\ UNCHANGED <<numbered, requested, stream>>
  BY DEF SlotReceive
<1>3. /\ slotPending'[c] = slotPending[c] \o Head(toServer[c])
      /\ toServer'[c] = Tail(toServer[c])
      /\ \A q \in Client : q # c => /\ toServer'[q] = toServer[q]
                                    /\ slotPending'[q] = slotPending[q]
  BY <1>2 DEF TypeOK
<1>4. SentLists' = SentLists /\ requested'[Server] = requested[Server]
  BY <1>2 DEF SentLists
<1>5. ASSUME NEW q \in Player, NEW k \in Nat PROVE Kept(q, k)'
  <2>1. Kept(q, k) /\ numbered'[q] = numbered[q] /\ OwnList(q)' = OwnList(q)
    BY <1>2 DEF PlaceInv, OwnList
  <2>2. CASE q = c
    <3>1. /\ SlotList(q) = slotPending[c]
          /\ SlotList(q)' = slotPending[c] \o Head(toServer[c])
          /\ WayLists(q) = toServer[c] /\ WayLists(q)' = Tail(toServer[c])
      BY <1>1, <1>3, <2>2 DEF SlotList, WayLists
    <3>2. Moves(OwnList(q), toServer[c], slotPending[c], requested[Server], SentLists,
                OwnList(q), Tail(toServer[c]), slotPending[c] \o Head(toServer[c]),
                requested[Server], SentLists, Numbered(q, k))
      BY <1>1, WayIsReceived
    <3> QED
      BY <1>4, <2>1, <3>1, <3>2, KeptByMove
  <2>3. CASE q # c
    <3>1. SlotList(q)' = SlotList(q) /\ WayLists(q)' = WayLists(q)
      BY <1>3, <2>3 DEF SlotList, WayLists, Player
    <3> QED
      BY <1>4, <2>1, <3>1, KeptInPlace
  <2> QED
    BY <2>2, <2>3
<1>6. ASSUME NEW d \in Client PROVE OwnCommands(d)'
  <2>1. OwnCommands(d)
    BY DEF PlaceInv
  <2>2. CASE d = c
    <3> DEFINE h == Head(toServer[c])
               t == Tail(toServer[c])
    <3>1. /\ h \in Seq(Command) /\ 1 \in DOMAIN toServer[c] /\ h = toServer[c][1]
          /\ \A n \in DOMAIN t : n + 1 \in DOMAIN toServer[c] /\ t[n] = toServer[c][n + 1]
      BY <1>1
    <3> HIDE DEF h, t
    <3>2. /\ \A i \in DOMAIN h : h[i].player = c
          /\ \A n \in DOMAIN t : \A i \in DOMAIN t[n] : t[n][i].player = c
      BY <2>1, <2>2, <3>1 DEF OwnCommands
    <3>3. \A i \in DOMAIN (slotPending[c] \o h) : (slotPending[c] \o h)[i].player = c
      <4>1. \A i \in DOMAIN (slotPending[c] \o h) :
                \/ /\ i \in DOMAIN slotPending[c]
                   /\ (slotPending[c] \o h)[i] = slotPending[c][i]
                \/ \E j \in DOMAIN h : (slotPending[c] \o h)[i] = h[j]
        <5> DEFINE s == slotPending[c]
        <5>1. s \in Seq(Command)
          BY <1>1
        <5> HIDE DEF s
        <5>2. /\ DOMAIN (s \o h) = 1 .. Len(s) + Len(h)
              /\ DOMAIN s = 1 .. Len(s) /\ DOMAIN h = 1 .. Len(h)
              /\ \A i \in 1 .. Len(s) : (s \o h)[i] = s[i]
              /\ \A i \in 1 .. Len(h) : (s \o h)[Len(s) + i] = h[i]
              /\ \A i \in 1 .. Len(s) + Len(h) :
                     i \in 1 .. Len(s) \/ \E j \in 1 .. Len(h) : i = Len(s) + j
          BY <3>1, <5>1, ConcatParts
        <5>3. \A i \in DOMAIN (s \o h) : \/ i \in DOMAIN s /\ (s \o h)[i] = s[i]
                                         \/ \E j \in DOMAIN h : (s \o h)[i] = h[j]
          <6> TAKE i \in DOMAIN (s \o h)
          <6>1. CASE i \in 1 .. Len(s)
            BY <5>2, <6>1
          <6>2. ASSUME NEW j \in 1 .. Len(h), i = Len(s) + j
                PROVE  j \in DOMAIN h /\ (s \o h)[i] = h[j]
            BY <5>2, <6>2
          <6> QED
            BY <5>2, <6>1, <6>2
        <5> QED
          BY <5>3 DEF s
      <4> QED
        BY <2>1, <2>2, <3>2, <4>1 DEF OwnCommands
    <3>4. slotPending'[c] = slotPending[c] \o h /\ toServer'[c] = t
      BY <1>3 DEF h, t
    <3>5. \A i \in DOMAIN slotPending'[c] : slotPending'[c][i].player = c
      BY <3>3, <3>4
    <3>6. \A n \in DOMAIN toServer'[c] :
              \A i \in DOMAIN toServer'[c][n] : toServer'[c][n][i].player = c
      BY <3>2, <3>4
    <3> QED
      BY <1>2, <2>1, <2>2, <3>5, <3>6 DEF OwnCommands
  <2>3. CASE d # c
    BY <1>2, <1>3, <2>1, <2>3 DEF OwnCommands
  <2> QED
    BY <2>2, <2>3
<1> QED
  BY <1>5, <1>6 DEF PlaceInv

\* What the visit of a slot takes is that slot's list, of its player only.
LEMMA VisitKeeps ==
    ASSUME TypeOK, PlaceInv, NEW c \in Client, ExecuteNetworkCommandsFromClients(c)
    PROVE  PlaceInv'
<1>1. /\ c \in Player /\ c # Server /\ Server \in Player
      /\ slotPending[c] \in Seq(Command) /\ requested[Server] \in Seq(Command)
  BY ListTypes
<1>2. /\ slotPending' = [slotPending EXCEPT ![c] = <<>>]
      /\ requested' = [requested EXCEPT ![Server] = requested[Server] \o slotPending[c]]
      /\ UNCHANGED <<numbered, toServer, stream>>
  BY DEF ExecuteNetworkCommandsFromClients
<1>3. /\ slotPending'[c] = <<>>
      /\ requested'[Server] = requested[Server] \o slotPending[c]
      /\ \A q \in Client : q # c => slotPending'[q] = slotPending[q]
      /\ \A q \in Client : requested'[q] = requested[q]
  BY <1>1, <1>2, ListTypes DEF TypeOK
<1>4. SentLists' = SentLists
  BY <1>2 DEF SentLists
<1>5. ASSUME NEW q \in Player, NEW k \in Nat PROVE Kept(q, k)'
  <2>1. Kept(q, k) /\ numbered'[q] = numbered[q] /\ WayLists(q)' = WayLists(q)
    BY <1>2 DEF PlaceInv, WayLists
  <2>2. OwnList(q)' = OwnList(q)
    BY <1>3 DEF OwnList, Player
  <2>3. CASE q = c
    <3>1. SlotList(q) = slotPending[c] /\ SlotList(q)' = <<>>
      BY <1>1, <1>3, <2>3 DEF SlotList
    <3>2. Moves(OwnList(q), WayLists(q), slotPending[c], requested[Server], SentLists,
                OwnList(q), WayLists(q), <<>>, requested[Server] \o slotPending[c],
                SentLists, Numbered(q, k))
      BY <1>1, SlotIsVisited
    <3> QED
      BY <1>3, <1>4, <2>1, <2>2, <3>1, <3>2, KeptByMove
  <2>4. CASE q # c
    <3>1. SlotList(q)' = SlotList(q)
      BY <1>3, <2>4 DEF SlotList, Player
    <3>2. ~In(slotPending[c], Numbered(q, k))
      BY <2>4, NotInOwn DEF PlaceInv, OwnCommands
    <3>3. Moves(OwnList(q), WayLists(q), SlotList(q), requested[Server], SentLists,
                OwnList(q), WayLists(q), SlotList(q), requested[Server] \o slotPending[c],
                SentLists, Numbered(q, k))
      BY <1>1, <3>2, OtherIsVisited
    <3> QED
      BY <1>3, <1>4, <2>1, <2>2, <3>1, <3>3, KeptByMove
  <2> QED
    BY <2>3, <2>4
<1>6. ASSUME NEW d \in Client PROVE OwnCommands(d)'
  <2>1. OwnCommands(d) /\ requested'[d] = requested[d]
    BY <1>3 DEF PlaceInv
  <2>2. DOMAIN slotPending'[c] = {}
    BY <1>3
  <2> QED
    BY <1>2, <1>3, <2>1, <2>2 DEF OwnCommands
<1> QED
  BY <1>5, <1>6 DEF PlaceInv

\* A step of the server broadcasts all of its list or keeps all of it.
LEMMA ServerKeeps ==
    ASSUME TypeOK, PlaceInv, ServerStep
    PROVE  PlaceInv'
<1> DEFINE r == Reverse(requested[Server])
<1>1. /\ Server \in Player /\ requested[Server] \in Seq(Command)
      /\ stream \in Seq(Broadcast) /\ SentLists \in Seq(Seq(Command))
  BY ListTypes
<1>2. UNCHANGED <<numbered, toServer, slotPending>>
  BY DEF ServerStep, ServerUpdate, ServerPausedUpdate
<1>3. r \in Seq(Command) /\ (r = <<>> => requested[Server] = <<>>)
  <2>1. r \in Seq(Command) /\ DOMAIN r = 1 .. Len(requested[Server])
    BY <1>1, ReverseType DEF Reverse
  <2>2. r = <<>> => DOMAIN r = {}
    OBVIOUS
  <2>3. 1 .. Len(requested[Server]) = {} => requested[Server] = <<>>
    <3>1. Len(requested[Server]) \in Nat
      BY <1>1
    <3>2. 1 .. Len(requested[Server]) = {} => Len(requested[Server]) = 0
      BY <3>1
    <3> QED
      BY <1>1, <3>2
  <2> QED
    BY <2>1, <2>2, <2>3
<1>4. ASSUME NEW f, ServerKeyframe(f)
      PROVE  /\ requested' = [requested EXCEPT ![Server] = <<>>]
             /\ \/ stream' = stream /\ requested[Server] = <<>>
                \/ \E b : stream' = Append(stream, b) /\ b.cmds = r
  <2>1. \/ stream' = Append(stream, [frame |-> f, cmds |-> r, crc |-> crc'[Server]])
        \/ r = <<>> /\ stream' = stream
    BY <1>4 DEF ServerKeyframe
  <2> QED
    BY <1>3, <1>4, <2>1 DEF ServerKeyframe
<1>5. \/ requested' = requested /\ stream' = stream
      \/ /\ requested' = [requested EXCEPT ![Server] = <<>>]
         /\ \/ stream' = stream /\ requested[Server] = <<>>
            \/ \E b : stream' = Append(stream, b) /\ b.cmds = r
  BY <1>4 DEF ServerStep, ServerUpdate, ServerPausedUpdate
<1>6. /\ \A c \in Client : requested'[c] = requested[c]
      /\ \/ requested'[Server] = requested[Server] /\ SentLists' = SentLists
         \/ requested'[Server] = <<>> /\ SentLists' = Append(SentLists, r)
  <2>1. CASE requested' = requested /\ stream' = stream
    BY <2>1 DEF SentLists
  <2>2. CASE requested' = [requested EXCEPT ![Server] = <<>>]
    <3>1. requested'[Server] = <<>> /\ \A c \in Client : requested'[c] = requested[c]
      BY <1>1, <2>2, ListTypes DEF TypeOK
    <3>2. CASE stream' = stream /\ requested[Server] = <<>>
      BY <3>1, <3>2 DEF SentLists
    <3>3. ASSUME NEW b, stream' = Append(stream, b), b.cmds = r
          PROVE  SentLists' = Append(SentLists, r)
      <4> DEFINE n == Len(stream)
      <4>1. /\ n \in Nat /\ DOMAIN stream = 1 .. n
            /\ DOMAIN stream' = 1 .. n + 1 /\ stream'[n + 1] = b
            /\ \A i \in 1 .. n : stream'[i] = stream[i]
        BY <1>1, <3>3
      <4>2. DOMAIN SentLists = 1 .. n /\ Len(SentLists) = n
        BY <1>1, <4>1 DEF SentLists
      <4>3. Append(SentLists, r)
              = [i \in 1 .. n + 1 |-> IF i = n + 1 THEN r ELSE SentLists[i]]
        BY <1>1, <1>3, <4>2
      <4>4. \A i \in 1 .. n + 1 :
                stream'[i].cmds = IF i = n + 1 THEN r ELSE SentLists[i]
        <5> TAKE i \in 1 .. n + 1
        <5>1. CASE i = n + 1
          BY <3>3, <4>1, <5>1
        <5>2. CASE i # n + 1
          <6>1. i \in 1 .. n
            BY <4>1, <5>2
          <6> QED
            BY <4>1, <5>2, <6>1 DEF SentLists
        <5> QED
          BY <5>1, <5>2
      <4>5. SentLists' = [i \in 1 .. n + 1 |-> stream'[i].cmds]
        BY <4>1 DEF SentLists
      <4> QED
        BY <4>3, <4>4, <4>5
    <3> QED
      BY <1>5, <3>1, <3>2, <3>3
  <2> QED
    BY <1>5, <2>1, <2>2
<1>7. ASSUME NEW q \in Player, NEW k \in Nat PROVE Kept(q, k)'
  <2>1. /\ Kept(q, k) /\ numbered'[q] = numbered[q] /\ WayLists(q)' = WayLists(q)
        /\ SlotList(q)' = SlotList(q) /\ OwnList(q)' = OwnList(q)
    BY <1>2, <1>6 DEF PlaceInv, WayLists, SlotList, OwnList, Player
  <2>2. CASE requested'[Server] = requested[Server] /\ SentLists' = SentLists
    BY <2>1, <2>2, KeptInPlace
  <2>3. CASE requested'[Server] = <<>> /\ SentLists' = Append(SentLists, r)
    <3>1. Moves(OwnList(q), WayLists(q), SlotList(q), requested[Server], SentLists,
                OwnList(q), WayLists(q), SlotList(q), <<>>, Append(SentLists, r),
                Numbered(q, k))
      BY <1>1, ServerListIsSent
    <3> HIDE DEF r
    <3> QED
      BY <2>1, <2>3, <3>1, KeptByMove
  <2> QED
    BY <1>6, <2>2, <2>3
<1>8. ASSUME NEW d \in Client PROVE OwnCommands(d)'
  BY <1>2, <1>6 DEF PlaceInv, OwnCommands
<1> QED
  BY <1>7, <1>8 DEF PlaceInv

\* Every step keeps every command.
LEMMA PlaceStep == TypeOK /\ PlaceInv /\ [Next]_vars => PlaceInv'
<1> SUFFICES ASSUME TypeOK, PlaceInv, [Next]_vars PROVE PlaceInv'
  OBVIOUS
<1>1. ASSUME UNCHANGED <<netVars, stream>> PROVE PlaceInv'
  <2>1. UNCHANGED <<requested, numbered, toServer, slotPending, stream>>
    BY <1>1 DEF netVars
  <2>2. ASSUME NEW q \in Player, NEW k \in Nat PROVE Kept(q, k)'
    BY <2>1, KeptInPlace DEF PlaceInv, OwnList, WayLists, SlotList, SentLists
  <2>3. ASSUME NEW d \in Client PROVE OwnCommands(d)'
    BY <2>1 DEF PlaceInv, OwnCommands
  <2> QED
    BY <2>2, <2>3 DEF PlaceInv
<1>2. ASSUME NEW c \in Client, \/ ReceiveCommandList(c)
                               \/ GameThread(c)
                               \/ Disconnect(c)
      PROVE  PlaceInv'
  <2>1. UNCHANGED <<netVars, stream>>
    BY <1>2 DEF ReceiveCommandList, GameThread, BeginUpdate, NextLoop, WorldUpdate,
                BeginUpdateWithoutLoops, GiveCommands, SkipFrame, Disconnect, worldVars
  <2> QED
    BY <1>1, <2>1
<1>3. CASE ToggleAutoPaused \/ UNCHANGED vars
  BY <1>1, <1>3 DEF ToggleAutoPaused, vars
<1> QED
  BY <1>2, <1>3, RequestKeeps, SendKeeps, SlotKeeps, VisitKeeps, ServerKeeps DEF Next

\* At first there is no command.
LEMMA PlaceInit == Init => PlaceInv
<1> SUFFICES ASSUME Init PROVE PlaceInv
  OBVIOUS
<1>1. ASSUME NEW p \in Player, NEW k \in Nat PROVE Kept(p, k)
  <2>1. /\ OwnList(p) = <<>> /\ WayLists(p) = <<>> /\ SlotList(p) = <<>>
        /\ requested[Server] = <<>> /\ numbered[p] = 0
    BY DEF Init, OwnList, WayLists, SlotList, Player
  <2>2. SentLists = <<>>
    BY DEF Init, SentLists
  <2>3. k \notin 1 .. numbered[p]
    BY <2>1
  <2> QED
    BY <2>1, <2>2, <2>3, InEmpty DEF Kept, Nowhere
<1>2. ASSUME NEW c \in Client PROVE OwnCommands(c)
  BY DEF Init, OwnCommands, Player
<1> QED
  BY <1>1, <1>2 DEF PlaceInv

\* Three lists by themselves.
LEMMA InThree ==
    ASSUME NEW a, NEW b, NEW c, NEW S
    PROVE  /\ InOne(<<a, b, c>>, S) <=> In(a, S) \/ In(b, S) \/ In(c, S)
           /\ Once(a, S) /\ ~In(b, S) /\ ~In(c, S) => OnceInOne(<<a, b, c>>, S)
           /\ ~In(a, S) /\ Once(b, S) /\ ~In(c, S) => OnceInOne(<<a, b, c>>, S)
           /\ ~In(a, S) /\ ~In(b, S) /\ Once(c, S) => OnceInOne(<<a, b, c>>, S)
<1>1. /\ DOMAIN <<a, b, c>> = {1, 2, 3}
      /\ <<a, b, c>>[1] = a /\ <<a, b, c>>[2] = b /\ <<a, b, c>>[3] = c
  OBVIOUS
<1> DEFINE l == <<a, b, c>>
<1>2. DOMAIN l = {1, 2, 3} /\ l[1] = a /\ l[2] = b /\ l[3] = c
  BY <1>1
<1> HIDE DEF l
<1>3. InOne(l, S) <=> In(a, S) \/ In(b, S) \/ In(c, S)
  BY <1>2 DEF InOne
<1>4. Once(a, S) /\ ~In(b, S) /\ ~In(c, S) => OnceInOne(l, S)
  BY <1>2 DEF OnceInOne
<1>5. ~In(a, S) /\ Once(b, S) /\ ~In(c, S) => OnceInOne(l, S)
  BY <1>2 DEF OnceInOne
<1>6. ~In(a, S) /\ ~In(b, S) /\ Once(c, S) => OnceInOne(l, S)
  BY <1>2 DEF OnceInOne
<1> QED
  BY <1>3, <1>4, <1>5, <1>6 DEF l

\* No command is lost or doubled between a player's interface, its slot, the
\* server's list and the broadcasts: a command that was requested is in one
\* place of one of these lists, whatever the threads have done since.  It holds
\* for a client that has quit, too: its commands stay where they are.
THEOREM ConservationHolds == Spec => []Conservation
<1>1. TypeOK /\ PlaceInv => Conservation
  <2> SUFFICES ASSUME TypeOK, PlaceInv, NEW p \in Player, NEW k \in 1 .. numbered[p]
               PROVE  LET lists == HeldLists(p)
                          Is(x) == x.player = p /\ x.number = k
                      IN  \E n \in DOMAIN lists : \E i \in DOMAIN lists[n] :
                              /\ Is(lists[n][i])
                              /\ \A m \in DOMAIN lists : \A j \in DOMAIN lists[m] :
                                     Is(lists[m][j]) => m = n /\ j = i
    BY DEF Conservation
  <2> DEFINE S == Numbered(p, k)
             own == OwnList(p)
             way == WayLists(p)
             slot == SlotList(p)
             server == requested[Server]
             sent == SentLists
             mid == <<own, slot, server>>
             lists == HeldLists(p)
  <2>1. /\ own \in Seq(Command) /\ way \in Seq(Seq(Command)) /\ slot \in Seq(Command)
        /\ server \in Seq(Command) /\ sent \in Seq(Seq(Command))
    BY ListTypes, EmptyType DEF OwnList, WayLists, SlotList, Player
  <2>2. InOnePlace(own, way, slot, server, sent, S)
    <3>1. k \in Nat /\ Kept(p, k)
      BY DEF PlaceInv
    <3> QED
      BY <3>1 DEF Kept
  <2>3. lists = (way \o mid) \o sent
    BY DEF HeldLists
  <2> HIDE DEF S, own, way, slot, server, sent, lists
  <2>4. /\ InOne(mid, S) <=> In(own, S) \/ In(slot, S) \/ In(server, S)
        /\ Once(own, S) /\ ~In(slot, S) /\ ~In(server, S) => OnceInOne(mid, S)
        /\ ~In(own, S) /\ Once(slot, S) /\ ~In(server, S) => OnceInOne(mid, S)
        /\ ~In(own, S) /\ ~In(slot, S) /\ Once(server, S) => OnceInOne(mid, S)
    BY InThree
  <2>5. mid \in Seq(Seq(Command))
    BY <2>1
  <2> HIDE DEF mid
  <2>6. /\ way \o mid \in Seq(Seq(Command))
        /\ InOne(way \o mid, S) <=> InOne(way, S) \/ InOne(mid, S)
        /\ OnceInOne(way, S) /\ ~InOne(mid, S) => OnceInOne(way \o mid, S)
        /\ ~InOne(way, S) /\ OnceInOne(mid, S) => OnceInOne(way \o mid, S)
    BY <2>1, <2>5, InOneConcat
  <2>7. /\ lists \in Seq(Seq(Command))
        /\ OnceInOne(way \o mid, S) /\ ~InOne(sent, S) => OnceInOne(lists, S)
        /\ ~InOne(way \o mid, S) /\ OnceInOne(sent, S) => OnceInOne(lists, S)
    <3> DEFINE u == way \o mid
    <3>1. u \in Seq(Seq(Command)) /\ lists = u \o sent
      BY <2>3, <2>6
    <3> HIDE DEF u
    <3>2. u \o sent \in Seq(Seq(Command))
      BY <2>1, <3>1
    <3>3. /\ OnceInOne(u, S) /\ ~InOne(sent, S) => OnceInOne(u \o sent, S)
          /\ ~InOne(u, S) /\ OnceInOne(sent, S) => OnceInOne(u \o sent, S)
      BY <2>1, <3>1, InOneConcat
    <3> QED
      BY <3>1, <3>2, <3>3 DEF u
  <2>8. OnceInOne(lists, S)
    BY <2>2, <2>4, <2>6, <2>7 DEF InOnePlace
  <2>9. PICK n \in DOMAIN lists : /\ Once(lists[n], S)
                                  /\ \A m \in DOMAIN lists : In(lists[m], S) => m = n
    BY <2>8 DEF OnceInOne
  <2>10. PICK i \in DOMAIN lists[n] :
             /\ lists[n][i] \in S
             /\ \A j \in DOMAIN lists[n] : lists[n][j] \in S => j = i
    BY <2>9 DEF Once
  <2>11. \A m \in DOMAIN lists : \A j \in DOMAIN lists[m] :
             lists[m][j] \in S <=> lists[m][j].player = p /\ lists[m][j].number = k
    <3> TAKE m \in DOMAIN lists
    <3> TAKE j \in DOMAIN lists[m]
    <3>1. lists[m] \in Seq(Command)
      BY <2>7
    <3>2. lists[m][j] \in Command
      BY <3>1
    <3> QED
      BY <3>2 DEF S, Numbered
  <2>12. \A m \in DOMAIN lists : \A j \in DOMAIN lists[m] :
             lists[m][j] \in S => m = n /\ j = i
    BY <2>9, <2>10 DEF In
  <2>13. /\ n \in DOMAIN lists /\ i \in DOMAIN lists[n]
         /\ lists[n][i].player = p /\ lists[n][i].number = k
         /\ \A m \in DOMAIN lists : \A j \in DOMAIN lists[m] :
                lists[m][j].player = p /\ lists[m][j].number = k => m = n /\ j = i
    BY <2>10, <2>11, <2>12
  <2> QED
    BY <2>13 DEF lists
<1>2. Inv => TypeOK
  BY DEF Inv
<1> QED
  BY <1>1, <1>2, PlaceInit, PlaceStep, Invariant, PTL DEF Spec

-----------------------------------------------------------------------------
(***************************************************************************)
(* Clients that catch up (any MaxLoops).  What becomes of a client that a  *)
(* pass of the catch-up loop has paused while more passes were to come.    *)
(***************************************************************************)

\* A client whose world has left a frame without what was given there.
LeftSomething(c) == \E i \in 1 .. Len(stream) : stream[i].frame < frame[c] /\ i > Len(given[c])

OnlyLostLeaveSomething == \A c \in Client : LeftSomething(c) => Lost(c)

\* With any number of passes of the catch-up loop (Game::update, updateLoops): the
\* only clients that ever leave commands behind are those which a pass has paused and
\* the next pass, which does not look at the pause again, has taken away from the
\* keyframe.
THEOREM OnlyLostLeaveSomethingHolds == Spec => []OnlyLostLeaveSomething
<1>1. Inv => OnlyLostLeaveSomething
  <2> SUFFICES ASSUME Inv, NEW c \in Client, ~Lost(c), NEW i \in 1 .. Len(stream),
                      stream[i].frame < frame[c]
               PROVE  i <= Len(given[c])
    <3>1. \A c \in Client : Len(given[c]) \in Nat
      BY DEF Inv, TypeOK
    <3> QED
      BY <3>1 DEF OnlyLostLeaveSomething, LeftSomething
  <2>1. TypeOK /\ ClientInv(c)
    BY DEF Inv
  <2>2. stream[i].frame \in Nat /\ Len(stream) \in Nat
    <3>1. stream[i].frame \in Nat
      BY <2>1, BroadcastType
    <3>2. Len(stream) \in Nat
      BY <2>1 DEF TypeOK
    <3> QED
      BY <3>1, <3>2
  <2>3. frame[c] \in Nat /\ Seen(c) \in Nat /\ Seen(c) = Len(given[c])
    BY <2>1 DEF TypeOK, Player, Seen
  <2>4. i \notin Seen(c) + 1 .. Len(stream)
    BY <2>1, <2>2, <2>3 DEF ClientInv
  <2> QED
    BY <2>2, <2>3, <2>4
<1> QED
  BY <1>1, Invariant, PTL

LEMMA LostStays ==
    ASSUME Inv, [Next]_vars, NEW c \in Client, Lost(c)
    PROVE  Lost(c)' /\ given'[c] = given[c]
<1>1. TypeOK /\ LoopType
  BY DEF Inv
<1>2. /\ c \in Player /\ c # Server /\ frame[c] \in Nat /\ loops[c] \in Nat
      /\ paused[c] /\ pc[c] # "keyframe" /\ \A d \in 0 .. loops[c] : ~IsKeyframe(frame[c] + d)
  BY <1>1 DEF TypeOK, Player, Client, Server, Lost
<1>3. ~IsKeyframe(frame[c])
  BY <1>2
<1>4. ASSUME frame'[c] = frame[c], paused'[c] = paused[c], pc'[c] = pc[c],
             loops'[c] = loops[c], given'[c] = given[c]
      PROVE  Lost(c)' /\ given'[c] = given[c]
  BY <1>4 DEF Lost
<1>5. CASE ServerStep
  <2>1. UNCHANGED clientVars /\ frame'[c] = frame[c] /\ paused'[c] = paused[c]
    BY <1>1, <1>5, ServerShape
  <2> QED
    BY <1>4, <2>1 DEF clientVars
<1>6. CASE GameThread(c)
  <2>1. ~BeginUpdate(c) /\ ~BeginUpdateWithoutLoops(c) /\ ~GiveCommands(c) /\ ~SkipFrame(c)
    BY <1>2, <1>3 DEF BeginUpdate, BeginUpdateWithoutLoops, GiveCommands, SkipFrame
  <2>2. NextLoop(c)
    BY <1>6, <2>1 DEF GameThread
  <2>3. loops[c] > 0
    BY <1>1, <2>2 DEF LoopType, NextLoop
  <2>4. /\ frame'[c] = frame[c] + 1 /\ loops'[c] = loops[c] - 1
        /\ given'[c] = given[c] /\ paused'[c] = paused[c]
        /\ pc'[c] = IF IsKeyframe(frame[c] + 1) THEN "keyframe"
                    ELSE IF loops[c] - 1 > 0 THEN "loop" ELSE "idle"
    BY <1>1, <1>2, <2>2 DEF TypeOK, NextLoop, WorldUpdate
  <2>5. ASSUME NEW d \in 0 .. loops[c] - 1
        PROVE  ~IsKeyframe((frame[c] + 1) + d)
    <3>1. d + 1 \in 0 .. loops[c] /\ (frame[c] + 1) + d = frame[c] + (d + 1)
      BY <1>2, <2>3
    <3> QED
      BY <1>2, <3>1
  <2>6. ~IsKeyframe(frame[c] + 1)
    BY <1>2, <2>3
  <2> QED
    BY <1>2, <2>4, <2>5, <2>6 DEF Lost
<1>7. ASSUME NEW d \in Client, d # c, GameThread(d)
      PROVE  Lost(c)' /\ given'[c] = given[c]
  <2>1. CASE BeginUpdate(d)
    BY <1>1, <1>2, <1>4, <1>7, <2>1 DEF TypeOK, BeginUpdate, WorldUpdate
  <2>2. CASE NextLoop(d)
    BY <1>1, <1>2, <1>4, <1>7, <2>2 DEF TypeOK, NextLoop, WorldUpdate
  <2>3. CASE BeginUpdateWithoutLoops(d)
    BY <1>1, <1>4, <1>7, <2>3 DEF TypeOK, BeginUpdateWithoutLoops, worldVars
  <2>4. CASE GiveCommands(d)
    BY <1>1, <1>2, <1>4, <1>7, <2>4 DEF TypeOK, GiveCommands
  <2>5. CASE SkipFrame(d)
    BY <1>1, <1>4, <1>7, <2>5 DEF TypeOK, SkipFrame, worldVars
  <2> QED
    BY <1>7, <2>1, <2>2, <2>3, <2>4, <2>5 DEF GameThread
<1>8. ASSUME worldVars' = worldVars, pc' = pc, loops' = loops, given' = given
      PROVE  Lost(c)' /\ given'[c] = given[c]
  BY <1>4, <1>8 DEF worldVars
<1>9. CASE \/ \E p \in Player, k \in Kind : RequestCommand(p, k)
           \/ ToggleAutoPaused
           \/ \E d \in Client : \/ ClientSend(d)
                                \/ SlotReceive(d)
                                \/ ExecuteNetworkCommandsFromClients(d)
                                \/ ReceiveCommandList(d)
                                \/ Disconnect(d)
           \/ UNCHANGED vars
  BY <1>8, <1>9 DEF RequestCommand, ToggleAutoPaused, ClientSend, SlotReceive,
       ExecuteNetworkCommandsFromClients, ReceiveCommandList, Disconnect, clientVars, vars
<1> QED
  BY <1>5, <1>6, <1>7, <1>9 DEF Next

\* Such a client never comes back: whatever the server broadcasts afterwards, the end
\* of the pause with it, is not given to its world any more ("if game is paused don't
\* try to catch up", game.cpp 1963, and the command list is only looked for at a
\* keyframe).
THEOREM LostForEver ==
    Spec => [][\A c \in Client : Lost(c) => Lost(c)' /\ given'[c] = given[c]]_vars
<1>1. Inv /\ [Next]_vars => \A c \in Client : Lost(c) => Lost(c)' /\ given'[c] = given[c]
  BY LostStays
<1> QED
  BY <1>1, Invariant, PTL DEF Spec

-----------------------------------------------------------------------------
(***************************************************************************)
(* Clients that do not catch up (MaxLoops = 1).  A client that runs one    *)
(* world update at a time is never paused away from a keyframe, leaves     *)
(* nothing behind, and the whole implements the command log.               *)
(***************************************************************************)

Single == \A c \in Client : loops[c] = 0 /\ ~Lost(c)

\* A client that runs one update at a time is never lost.
LEMMA SingleStep ==
    ASSUME MaxLoops = 1, Inv, Single, [Next]_vars
    PROVE  Single'
<1> USE DEF Single
<1>1. TypeOK /\ LoopType
  BY DEF Inv
<1>2. SUFFICES ASSUME NEW c \in Client PROVE loops'[c] = 0 /\ ~Lost(c)'
  OBVIOUS
<1>3. ASSUME frame'[c] = frame[c], paused'[c] = paused[c], pc'[c] = pc[c],
             loops'[c] = loops[c]
      PROVE  loops'[c] = 0 /\ ~Lost(c)'
  BY <1>3 DEF Lost
<1>4. c \in Player /\ c # Server /\ frame[c] \in Nat
  BY <1>1 DEF TypeOK, Player, Client, Server
<1>5. ASSUME loops'[c] = 0, frame'[c] = frame[c], IsKeyframe(frame[c])
      PROVE  loops'[c] = 0 /\ ~Lost(c)'
  BY <1>4, <1>5 DEF Lost
<1>6. pc[c] = "keyframe" => IsKeyframe(frame[c])
  BY DEF Inv, ClientInv
<1>7. CASE ServerStep
  <2>1. UNCHANGED clientVars /\ frame'[c] = frame[c] /\ paused'[c] = paused[c]
    BY <1>1, <1>7, ServerShape
  <2> QED
    BY <1>3, <2>1 DEF clientVars
<1>8. CASE GameThread(c)
  <2>1. CASE BeginUpdate(c)
    <3>1. PICK k \in 1 .. MaxLoops : WorldUpdate(c, k - 1)
      BY <2>1 DEF BeginUpdate
    <3>2. k - 1 = 0 /\ ~paused[c]
      BY <2>1 DEF BeginUpdate
    <3>3. loops'[c] = 0 /\ ~paused'[c]
      BY <1>1, <3>1, <3>2 DEF TypeOK, WorldUpdate
    <3> QED
      BY <3>3 DEF Lost
  <2>2. CASE NextLoop(c)
    BY <1>1, <2>2 DEF LoopType, NextLoop
  <2>3. CASE BeginUpdateWithoutLoops(c)
    BY <1>5, <2>3 DEF BeginUpdateWithoutLoops, worldVars
  <2>4. CASE GiveCommands(c)
    BY <1>5, <1>6, <2>4 DEF GiveCommands
  <2>5. CASE SkipFrame(c)
    BY <1>5, <1>6, <2>5 DEF SkipFrame, worldVars
  <2> QED
    BY <1>8, <2>1, <2>2, <2>3, <2>4, <2>5 DEF GameThread
<1>9. ASSUME NEW d \in Client, d # c, GameThread(d)
      PROVE  loops'[c] = 0 /\ ~Lost(c)'
  <2>1. /\ frame'[c] = frame[c] /\ paused'[c] = paused[c]
        /\ pc'[c] = pc[c] /\ loops'[c] = loops[c]
    <3>1. CASE BeginUpdate(d)
      BY <1>1, <1>4, <1>9, <3>1 DEF TypeOK, BeginUpdate, WorldUpdate
    <3>2. CASE NextLoop(d)
      BY <1>1, <1>4, <1>9, <3>2 DEF TypeOK, NextLoop, WorldUpdate
    <3>3. CASE BeginUpdateWithoutLoops(d)
      BY <1>1, <1>9, <3>3 DEF TypeOK, BeginUpdateWithoutLoops, worldVars
    <3>4. CASE GiveCommands(d)
      BY <1>1, <1>4, <1>9, <3>4 DEF TypeOK, GiveCommands
    <3>5. CASE SkipFrame(d)
      BY <1>1, <1>9, <3>5 DEF TypeOK, SkipFrame, worldVars
    <3> QED
      BY <1>9, <3>1, <3>2, <3>3, <3>4, <3>5 DEF GameThread
  <2> QED
    BY <1>3, <2>1
<1>10. ASSUME worldVars' = worldVars, pc' = pc, loops' = loops
       PROVE  loops'[c] = 0 /\ ~Lost(c)'
  BY <1>3, <1>10 DEF worldVars
<1>11. CASE \/ \E p \in Player, k \in Kind : RequestCommand(p, k)
            \/ ToggleAutoPaused
            \/ \E d \in Client : \/ ClientSend(d)
                                 \/ SlotReceive(d)
                                 \/ ExecuteNetworkCommandsFromClients(d)
                                 \/ ReceiveCommandList(d)
                                 \/ Disconnect(d)
            \/ UNCHANGED vars
  BY <1>10, <1>11 DEF RequestCommand, ToggleAutoPaused, ClientSend, SlotReceive,
       ExecuteNetworkCommandsFromClients, ReceiveCommandList, Disconnect, clientVars, vars
<1> QED
  BY <1>7, <1>8, <1>9, <1>11 DEF Next

\* At the beginning no client is lost.
LEMMA SingleInit == Init => Single
  BY DEF Init, Single, Lost, Player

\* A client that runs one world update at a time leaves a frame only with all
\* that the server has given to its own world at that frame.
THEOREM NothingLeftBehindHolds ==
    ASSUME MaxLoops = 1
    PROVE  Spec => []NothingLeftBehind
<1>1. Inv /\ Single => NothingLeftBehind
  <2> SUFFICES ASSUME Inv, Single, NEW c \in Client, NEW i \in 1 .. Len(stream),
                      stream[i].frame < frame[c]
               PROVE  i <= Len(given[c])
    BY DEF NothingLeftBehind
  <2>1. TypeOK /\ ClientInv(c) /\ ~Lost(c)
    BY DEF Inv, Single
  <2>2. frame[c] \in Nat /\ stream[i].frame \in Nat /\ Seen(c) \in Nat /\ Len(stream) \in Nat
    <3>1. stream[i].frame \in Nat
      BY <2>1, BroadcastType
    <3>2. frame[c] \in Nat
      BY <2>1 DEF TypeOK, Player
    <3>3. given[c] \in Seq(Nat)
      BY <2>1 DEF TypeOK
    <3>4. Seen(c) \in Nat
      BY <3>3 DEF Seen
    <3>5. stream \in Seq(Broadcast)
      BY <2>1 DEF TypeOK, Broadcast
    <3>6. Len(stream) \in Nat
      BY <3>5
    <3> QED
      BY <3>1, <3>2, <3>4, <3>6
  <2>3. i \notin Seen(c) + 1 .. Len(stream)
    BY <2>1, <2>2 DEF ClientInv
  <2> QED
    BY <2>2, <2>3 DEF Seen
<1>2. Inv /\ Single /\ [Next]_vars => Inv' /\ Single'
  BY InvStep, SingleStep
<1> QED
  BY <1>1, <1>2, InvInit, SingleInit, PTL DEF Spec

\* The world of a client in the abstract specification.
WorldIsPrefix(c) ==
    /\ World[c] \in Seq(Broadcast)
    /\ Len(World[c]) = Seen(c)
    /\ DOMAIN World[c] = 1 .. Seen(c)
    /\ \A i \in 1 .. Seen(c) : World[c][i] = stream[i]
    /\ Seen(c) \in Nat
    /\ Seen(c) <= Len(stream)

\* What a client's world has been given is a prefix of the server's broadcasts.
LEMMA WorldType == Inv => \A c \in Client : WorldIsPrefix(c)
<1> SUFFICES ASSUME Inv, NEW c \in Client PROVE WorldIsPrefix(c)
  OBVIOUS
<1>1. TypeOK /\ CacheInv(c)
  BY DEF Inv
<1>2. /\ given[c] \in Seq(Nat) /\ Seen(c) \in Nat /\ Len(stream) \in Nat
      /\ stream \in Seq(Broadcast)
      /\ DOMAIN given[c] = 1 .. Seen(c)
  BY <1>1 DEF TypeOK, Seen, Broadcast
<1>3. Seen(c) <= Len(stream) /\ \A i \in 1 .. Seen(c) : given[c][i] = i
  <2>1. received[c] \in Nat
    BY <1>1 DEF TypeOK
  <2> QED
    BY <1>1, <1>2, <2>1 DEF CacheInv
<1>4. /\ World[c] = [i \in 1 .. Seen(c) |-> stream[given[c][i]]]
      /\ \A i \in 1 .. Seen(c) : stream[given[c][i]] = stream[i] /\ stream[i] \in Broadcast
  <2>1. World[c] = [i \in DOMAIN given[c] |-> stream[given[c][i]]]
    BY DEF World
  <2> QED
    BY <1>2, <1>3, <2>1
<1>5. World[c] \in Seq(Broadcast) /\ Len(World[c]) = Seen(c)
  <2> DEFINE w == World[c]
  <2>1. w \in [1 .. Seen(c) -> Broadcast]
    BY <1>4
  <2> HIDE DEF w
  <2>2. w \in Seq(Broadcast) /\ Len(w) = Seen(c)
    BY <1>2, <2>1
  <2> QED
    BY <2>2 DEF w
<1> QED
  BY <1>2, <1>3, <1>4, <1>5 DEF WorldIsPrefix

\* The same of the next state.
LEMMA WorldTypeNext == Inv' => (\A c \in Client : WorldIsPrefix(c))'
  BY WorldType, PTL

\* Worlds that have been given the same broadcasts are the same.
LEMMA SameWorld ==
    ASSUME Inv, Inv', NEW c \in Client, Seen(c)' = Seen(c),
           \A i \in 1 .. Len(stream) : stream'[i] = stream[i]
    PROVE  World'[c] = World[c]
<1> DEFINE V == World'[c]
           W == World[c]
<1>1. /\ DOMAIN W = 1 .. Seen(c) /\ \A i \in 1 .. Seen(c) : W[i] = stream[i]
      /\ W \in Seq(Broadcast)
      /\ Seen(c) \in Nat /\ Seen(c) <= Len(stream)
  BY WorldType DEF WorldIsPrefix
<1>2. /\ DOMAIN V = 1 .. Seen(c)' /\ \A i \in 1 .. Seen(c)' : V[i] = stream'[i]
      /\ V \in Seq(Broadcast)
  BY WorldTypeNext DEF WorldIsPrefix
<1>3. Len(stream) \in Nat
  BY DEF Inv, TypeOK
<1> HIDE DEF V, W
<1>4. \A i \in 1 .. Seen(c) : V[i] = W[i]
  BY <1>1, <1>2, <1>3
<1>5. V = W
  BY <1>1, <1>2, <1>4
<1> QED
  BY <1>5 DEF V, W

\* Nothing that the log speaks of changes.
LEMMA LogStutters ==
    ASSUME Inv, Inv', stream' = stream, given' = given, frame' = frame
    PROVE  UNCHANGED <<stream, World, frame>>
<1>1. World' = World
  BY DEF World
<1> QED
  BY <1>1

\* A step of the server leads.
LEMMA ServerLeads ==
    ASSUME Inv, Inv', ServerStep
    PROVE  Log!Lead
<1>1. TypeOK
  BY DEF Inv
<1>2. /\ given' = given
      /\ \A c \in Client : frame'[c] = frame[c]
      /\ frame'[Server] = frame[Server] + 1 \/ frame'[Server] = frame[Server]
      /\ \/ stream' = stream
         \/ \E b \in Broadcast : stream' = Append(stream, b) /\ b.frame = frame'[Server]
  <2>1. UNCHANGED clientVars
    BY <1>1, ServerShape
  <2> QED
    BY <1>1, <2>1, ServerShape DEF clientVars
<1>3. frame' \in {frame, [frame EXCEPT ![Server] = @ + 1]}
  <2>1. frame' \in [Player -> Nat] /\ frame \in [Player -> Nat]
    BY <1>1 DEF Inv, TypeOK
  <2>2. CASE frame'[Server] = frame[Server] + 1
    <3>1. \A p \in Player : frame'[p] = [frame EXCEPT ![Server] = @ + 1][p]
      BY <1>2, <2>1, <2>2 DEF Player
    <3> QED
      BY <2>1, <3>1
  <2>3. CASE frame'[Server] = frame[Server]
    <3>1. \A p \in Player : frame'[p] = frame[p]
      BY <1>2, <2>3 DEF Player
    <3> QED
      BY <2>1, <3>1
  <2> QED
    BY <1>2, <2>2, <2>3
<1>4. /\ \/ stream' = stream
         \/ /\ Len(stream') = Len(stream) + 1
            /\ \A i \in 1 .. Len(stream) : stream'[i] = stream[i]
            /\ stream'[Len(stream')].frame = frame'[Server]
      /\ \A i \in 1 .. Len(stream) : stream'[i] = stream[i]
  <2>1. stream \in Seq(Broadcast)
    BY <1>1 DEF TypeOK, Broadcast
  <2> QED
    BY <1>2, <2>1
<1>5. World' = World
  <2>1. \A c \in Client : World'[c] = World[c]
    <3> TAKE c \in Client
    <3>1. Seen(c)' = Seen(c)
      BY <1>2 DEF Seen
    <3> QED
      BY <1>4, <3>1, SameWorld
  <2>2. World = [c \in Client |-> World[c]] /\ World' = [c \in Client |-> World'[c]]
    BY DEF World
  <2> QED
    BY <2>1, <2>2
<1> QED
  BY <1>3, <1>4, <1>5 DEF Log!Lead

\* A world update moves a client that is up to date.
LEMMA UpdateMoves ==
    ASSUME Inv, NEW c \in Client, ~Lost(c), NEW left, WorldUpdate(c, left),
           pc[c] # "keyframe", ~paused[c]
    PROVE  Log!Move(c)
<1>1. /\ TypeOK
      /\ StreamInv
      /\ ClientInv(c)
  BY DEF Inv
<1>3. /\ stream' = stream
      /\ given' = given
      /\ frame' = [frame EXCEPT ![c] = frame[c] + 1]
  BY DEF WorldUpdate
<1>4. World' = World
  BY <1>3 DEF World
<1>5. ASSUME NEW i \in 1 .. Len(stream), stream[i].frame <= frame[c]
      PROVE  i <= Len(World[c])
  <2>1. frame[c] \in Nat /\ stream[i].frame \in Nat /\ Len(stream) \in Nat
    <3>1. stream[i].frame \in Nat
      BY <1>1, BroadcastType
    <3>2. frame[c] \in Nat
      BY <1>1 DEF TypeOK, Player
    <3>3. Len(stream) \in Nat
      BY <1>1 DEF TypeOK
    <3> QED
      BY <3>1, <3>2, <3>3
  <2>2. Len(World[c]) = Seen(c) /\ Seen(c) \in Nat
    BY WorldType DEF WorldIsPrefix
  <2>3. ASSUME i \in Seen(c) + 1 .. Len(stream) PROVE FALSE
    <3>1. frame[c] <= stream[i].frame
      BY <1>1, <2>3 DEF ClientInv
    <3>2. stream[i].frame = frame[c]
      BY <1>5, <2>1, <3>1
    <3>3. IsKeyframe(frame[c])
      BY <1>1, <3>2 DEF StreamInv
    <3>5. frame[c] < stream[i].frame
      BY <1>1, <2>3, <3>3 DEF ClientInv
    <3> QED
      BY <2>1, <3>2, <3>5
  <2> QED
    BY <2>1, <2>2, <2>3
<1> QED
  BY <1>3, <1>4, <1>5 DEF Log!Move, Log!UpToDate

\* Giving the lists of a frame gives the next of the log.
LEMMA GiveGives ==
    ASSUME Inv, Inv', NEW c \in Client, GiveCommands(c)
    PROVE  Log!Give(c)
<1> DEFINE g == Seen(c)
           m == Len(cached[c][frame[c]])
           W == [i \in 1 .. g + m |-> stream[i]]
<1>1. TypeOK /\ CacheInv(c)
  BY DEF Inv
<1>2. /\ m \in Nat
      /\ g + m <= received[c]
      /\ \A i \in g + 1 .. g + m : stream[i].frame = frame[c]
      /\ cached[c][frame[c]] \in Seq(Nat)
  BY BatchIsNext
<1>3. /\ g \in Nat /\ received[c] \in Nat /\ received[c] <= Len(stream) /\ Len(stream) \in Nat
      /\ stream \in Seq(Broadcast)
      /\ given[c] \in Seq(Nat)
  BY <1>1 DEF TypeOK, Seen, CacheInv, Broadcast
<1>4. /\ stream' = stream /\ frame' = frame
      /\ given'[c] = given[c] \o cached[c][frame[c]]
      /\ \A d \in Client : d # c => given'[d] = given[d]
  BY <1>1 DEF TypeOK, GiveCommands
<1>5. Seen(c)' = g + m
  BY <1>2, <1>3, <1>4 DEF Seen
<1>6. World'[c] = W
  <2>1. /\ DOMAIN World'[c] = 1 .. Seen(c)'
        /\ \A i \in 1 .. Seen(c)' : World'[c][i] = stream'[i]
        /\ World'[c] \in Seq(Broadcast)
    BY WorldTypeNext DEF WorldIsPrefix
  <2>2. World'[c] = [i \in 1 .. Seen(c)' |-> World'[c][i]]
    <3> DEFINE V == World'[c]
               n == Seen(c)'
    <3>1. V \in Seq(Broadcast) /\ DOMAIN V = 1 .. n
      BY <2>1
    <3> HIDE DEF V, n
    <3>2. V = [i \in DOMAIN V |-> V[i]]
      BY <3>1
    <3>3. V = [i \in 1 .. n |-> V[i]]
      BY <3>1, <3>2, Zenon
    <3> QED
      BY <3>3, Zenon DEF V, n
  <2> QED
    BY <1>4, <1>5, <2>1, <2>2
<1>7. \A d \in Client : d # c => World'[d] = World[d]
  <2> SUFFICES ASSUME NEW d \in Client, d # c PROVE World'[d] = World[d]
    OBVIOUS
  <2>1. Seen(d)' = Seen(d)
    BY <1>4 DEF Seen
  <2> QED
    BY <1>4, <2>1, SameWorld
<1>8. World' = [World EXCEPT ![c] = W]
  <2>1. DOMAIN World = Client /\ World' = [d \in Client |-> World'[d]]
        /\ World = [d \in Client |-> World[d]]
    BY DEF World
  <2> HIDE DEF W
  <2> QED
    BY <1>6, <1>7, <2>1
<1>9. Len(World[c]) = g
  BY WorldType DEF WorldIsPrefix
<1> HIDE DEF g, m
<1>10. g + m \in g .. Len(stream)
  <2>1. m \in Nat /\ g + m <= received[c]
    BY <1>2
  <2>2. g \in Nat /\ received[c] \in Nat /\ received[c] <= Len(stream) /\ Len(stream) \in Nat
    BY <1>3
  <2> QED
    BY <2>1, <2>2
<1> QED
  BY <1>2, <1>4, <1>8, <1>9, <1>10 DEF Log!Give

\* At the beginning the log and the worlds are empty.
LEMMA LogInit == Init => Log!Init
<1> SUFFICES ASSUME Init PROVE Log!Init
  OBVIOUS
<1>1. World = [c \in Client |-> <<>>]
  <2>1. \A c \in Client : World[c] = <<>>
    BY DEF Init, World
  <2>2. World = [c \in Client |-> World[c]]
    BY DEF World
  <2> QED
    BY <2>1, <2>2
<1> QED
  BY <1>1 DEF Init, Log!Init, Player

NoneLost == \A c \in Client : ~Lost(c)

\* A step by which no client is lost is one of the log, or none.
LEMMA LogStep ==
    ASSUME Inv, Inv', NoneLost, NoneLost', [Next]_vars
    PROVE  [Log!Next]_<<stream, World, frame>>
<1>1. CASE ServerStep
  BY <1>1, ServerLeads DEF Log!Next
<1>2. ASSUME NEW c \in Client, GameThread(c)
      PROVE  [Log!Next]_<<stream, World, frame>>
  <2>1. ~Lost(c) /\ ~Lost(c)' /\ LoopType /\ loops[c] \in Nat
    BY DEF NoneLost, Inv, TypeOK
  <2>2. CASE BeginUpdate(c)
    <3>1. PICK k \in 1 .. MaxLoops : WorldUpdate(c, k - 1)
      BY <2>2 DEF BeginUpdate
    <3>2. pc[c] # "keyframe" /\ ~paused[c]
      BY <2>2 DEF BeginUpdate
    <3>3. Log!Move(c)
      BY <2>1, <3>1, <3>2, UpdateMoves
    <3> QED
      BY <3>3 DEF Log!Next
  <2>3. CASE NextLoop(c)
    <3>1. WorldUpdate(c, loops[c] - 1) /\ pc[c] # "keyframe"
      BY <2>3 DEF NextLoop
    <3>2. loops[c] > 0 /\ loops[c] - 1 \in Nat
      BY <2>1, <2>3 DEF NextLoop, LoopType
    <3>3. ~paused[c]
      BY <2>1, <3>1, <3>2, LoopLoses
    <3>4. Log!Move(c)
      BY <2>1, <3>1, <3>3, UpdateMoves
    <3> QED
      BY <3>4 DEF Log!Next
  <2>4. CASE BeginUpdateWithoutLoops(c) \/ SkipFrame(c)
    BY <2>4, LogStutters DEF BeginUpdateWithoutLoops, SkipFrame, worldVars
  <2>5. CASE GiveCommands(c)
    BY <2>5, GiveGives DEF Log!Next
  <2> QED
    BY <1>2, <2>2, <2>3, <2>4, <2>5 DEF GameThread
<1>3. CASE \/ \E p \in Player, k \in Kind : RequestCommand(p, k)
           \/ ToggleAutoPaused
           \/ \E d \in Client : \/ ClientSend(d)
                                \/ SlotReceive(d)
                                \/ ExecuteNetworkCommandsFromClients(d)
                                \/ ReceiveCommandList(d)
                                \/ Disconnect(d)
           \/ UNCHANGED vars
  <2>1. stream' = stream /\ given' = given /\ frame' = frame
    BY <1>3 DEF RequestCommand, ToggleAutoPaused, ClientSend, SlotReceive,
         ExecuteNetworkCommandsFromClients, ReceiveCommandList, Disconnect,
         clientVars, worldVars, vars
  <2> QED
    BY <2>1, LogStutters
<1> QED
  BY <1>1, <1>2, <1>3 DEF Next

\* Clients that catch up implement the command log, too, with any number of passes of
\* the loop, in every behaviour in which no pass runs that should have seen a pause.
THEOREM LogUnlessLost == Spec /\ []NoneLost => ImplementsLog
<1>1. Inv /\ Inv' /\ NoneLost /\ NoneLost' /\ [Next]_vars
        => [Log!Next]_<<stream, World, frame>>
  BY LogStep
<1> QED
  BY <1>1, LogInit, Invariant, PTL DEF Spec, ImplementsLog, Log!Spec

\* Clients that run one world update at a time implement the command log.
THEOREM LockstepImplementsLog ==
    ASSUME MaxLoops = 1
    PROVE  Spec => ImplementsLog
<1>1. Inv /\ Single /\ [Next]_vars => Inv' /\ Single'
  BY InvStep, SingleStep
<1>2. Single => NoneLost
  BY DEF Single, NoneLost
<1> QED
  BY <1>1, <1>2, InvInit, SingleInit, LogUnlessLost, PTL DEF Spec

-----------------------------------------------------------------------------
(* Lockstep compares the checksum that came with the commands of a frame     *)
(* with that of the client's own world.  They are taken at different times   *)
(* by different machines, and a frame of a paused game has many lists with   *)
(* the checksum of one; still they are always the same.                      *)

Crc == [frame : Nat, given : Seq(Nat)]

\* The numbers g are those of the broadcasts s for the frames before F.
Before(s, g, F) ==
    /\ Len(g) <= Len(s)
    /\ \A j \in 1 .. Len(g) : g[j] = j
    /\ \A j \in 1 .. Len(s) : j <= Len(g) <=> s[j].frame < F

\* The checksum d is that of a world which is about to begin frame F and has been
\* given every broadcast before it.
IsDigest(s, d, F) == d.frame + 1 = F /\ Before(s, d.given, F)

\* A world is given the broadcasts of its frame or of earlier ones.
GivenSoFar(c) == \A i \in 1 .. Seen(c) : stream[i].frame <= frame[c]

ClientCrc(c) == ~Lost(c) /\ frame[c] > 0 => IsDigest(stream, crc[c], frame[c])

CrcInv ==
    /\ \A i \in 1 .. Len(stream) : IsDigest(stream, stream[i].crc, stream[i].frame)
    /\ frame[Server] > 0 => IsDigest(stream, crc[Server], frame[Server])
    /\ \A c \in Client : GivenSoFar(c) /\ ClientCrc(c)
    /\ NoDesync

-----------------------------------------------------------------------------
\* Lists of the same length with the same elements are the same.
LEMMA SameList ==
    ASSUME NEW g \in Seq(Nat), NEW h \in Seq(Nat), Len(g) = Len(h),
           \A j \in 1 .. Len(g) : g[j] = h[j]
    PROVE  g = h
  OBVIOUS

\* Two checksums for one frame are the same.
LEMMA SameDigest ==
    ASSUME NEW s \in Seq(Broadcast), NEW F \in Nat, NEW d \in Crc, NEW e \in Crc,
           IsDigest(s, d, F), IsDigest(s, e, F)
    PROVE  d = e
<1>1. /\ d.frame \in Nat /\ e.frame \in Nat /\ d.given \in Seq(Nat) /\ e.given \in Seq(Nat)
      /\ Len(s) \in Nat
  BY DEF Crc
<1>2. Len(d.given) \in Nat /\ Len(e.given) \in Nat
  BY <1>1
<1>3. d.frame = e.frame
  BY <1>1 DEF IsDigest
<1>4. \A j \in 1 .. Len(s) : j <= Len(d.given) <=> j <= Len(e.given)
  BY DEF IsDigest, Before
<1>5. Len(d.given) <= Len(s) /\ Len(e.given) <= Len(s)
  BY DEF IsDigest, Before
<1>6. Len(d.given) = Len(e.given)
  BY <1>2, <1>4, <1>5
<1>7. \A j \in 1 .. Len(d.given) : d.given[j] = e.given[j]
  BY <1>6 DEF IsDigest, Before
<1>8. d.given = e.given
  BY <1>1, <1>6, <1>7, SameList
<1> QED
  BY <1>3, <1>8 DEF Crc

\* A broadcast for this frame or a later one changes nothing about the frame.
LEMMA MoreBroadcasts ==
    ASSUME NEW s \in Seq(Broadcast), NEW b \in Broadcast, NEW F \in Nat, NEW d \in Crc,
           IsDigest(s, d, F), F <= b.frame
    PROVE  IsDigest(Append(s, b), d, F)
<1> DEFINE t == Append(s, b)
<1>1. /\ Len(s) \in Nat /\ Len(t) = Len(s) + 1 /\ t[Len(s) + 1] = b
      /\ \A j \in 1 .. Len(s) : t[j] = s[j]
  OBVIOUS
<1>2. b.frame \in Nat /\ d.given \in Seq(Nat)
  BY DEF Broadcast, Crc
<1>3. Len(d.given) \in Nat /\ Len(d.given) <= Len(s)
  BY <1>2 DEF IsDigest, Before
<1> HIDE DEF t
<1>4. ASSUME NEW j \in 1 .. Len(t) PROVE j <= Len(d.given) <=> t[j].frame < F
  <2>1. CASE j \in 1 .. Len(s)
    BY <1>1, <2>1 DEF IsDigest, Before
  <2>2. CASE j = Len(s) + 1
    BY <1>1, <1>2, <1>3, <2>2
  <2> QED
    BY <1>1, <2>1, <2>2
<1>5. IsDigest(t, d, F)
  BY <1>1, <1>3, <1>4 DEF IsDigest, Before
<1> QED
  BY <1>5 DEF t

-----------------------------------------------------------------------------
\* What a step of the server does to checksums.
LEMMA ServerCrc ==
    ASSUME Inv, ServerStep
    PROVE  /\ UNCHANGED clientVars
           /\ \A c \in Client : /\ crc'[c] = crc[c]
                                /\ frame'[c] = frame[c]
                                /\ paused'[c] = paused[c]
           /\ \/ /\ frame'[Server] = frame[Server] + 1
                 /\ crc'[Server] = [frame |-> frame[Server], given |-> ServerGave]
              \/ frame'[Server] = frame[Server] /\ crc'[Server] = crc[Server]
           /\ \/ stream' = stream
              \/ \E b \in Broadcast : /\ stream' = Append(stream, b)
                                      /\ b.frame = frame'[Server]
                                      /\ b.crc = crc'[Server]
<1>1. /\ TypeOK /\ TypeOK'
      /\ Server \in Player
      /\ \A c \in Client : c \in Player /\ c # Server
  BY ServerTypes DEF Inv, Player, Client, Server
<1>2. /\ UNCHANGED clientVars
      /\ \A c \in Client : frame'[c] = frame[c] /\ paused'[c] = paused[c]
  BY <1>1, ServerShape
<1>3. ASSUME NEW f \in Nat, ServerKeyframe(f), frame'[Server] = f
      PROVE  \/ stream' = stream
             \/ \E b \in Broadcast : /\ stream' = Append(stream, b)
                                     /\ b.frame = frame'[Server]
                                     /\ b.crc = crc'[Server]
  <2> DEFINE cmds == Reverse(requested[Server])
             b == [frame |-> f, cmds |-> cmds, crc |-> crc'[Server]]
  <2>1. cmds \in Seq(Command)
    BY <1>1, ReverseType DEF TypeOK
  <2>2. crc'[Server] \in [frame : Nat, given : Seq(Nat)]
    BY <1>1 DEF TypeOK
  <2>3. b \in Broadcast /\ b.frame = frame'[Server] /\ b.crc = crc'[Server]
    BY <1>3, <2>1, <2>2 DEF Broadcast
  <2>4. stream' = Append(stream, b) \/ stream' = stream
    BY <1>3 DEF ServerKeyframe
  <2> HIDE DEF b
  <2> QED
    BY <2>3, <2>4
<1>4. CASE ServerUpdate
  <2>1. /\ frame'[Server] = frame[Server] + 1
        /\ crc'[Server] = [frame |-> frame[Server], given |-> ServerGave]
        /\ \A c \in Client : crc'[c] = crc[c]
        /\ frame[Server] + 1 \in Nat
    BY <1>1, <1>4 DEF TypeOK, ServerUpdate, Digest
  <2>2. ServerKeyframe(frame[Server] + 1) \/ stream' = stream
    BY <1>4 DEF ServerUpdate
  <2> QED
    BY <1>2, <1>3, <2>1, <2>2
<1>5. CASE ServerPausedUpdate
  <2>1. crc' = crc /\ frame' = frame /\ frame[Server] \in Nat /\ ServerKeyframe(frame[Server])
    BY <1>1, <1>5 DEF TypeOK, ServerPausedUpdate
  <2> QED
    BY <1>2, <1>3, <2>1
<1> QED
  BY <1>4, <1>5 DEF ServerStep
\* The server's checksum, and those it has broadcast, are of their frames.
LEMMA ServerKeepsCrc ==
    ASSUME Inv, Inv', CrcInv, ServerStep
    PROVE  CrcInv'
<1>1. /\ TypeOK /\ TypeOK' /\ StreamInv /\ StreamInv'
      /\ stream \in Seq(Broadcast) /\ stream' \in Seq(Broadcast)
  BY DEF Inv, TypeOK, Broadcast
<1>2. /\ frame[Server] \in Nat /\ frame'[Server] \in Nat
      /\ Len(stream) \in Nat /\ Len(stream') \in Nat
      /\ \A i \in 1 .. Len(stream) :
            /\ stream[i] \in Broadcast /\ stream[i].frame \in Nat /\ stream[i].crc \in Crc
            /\ stream[i].frame <= frame[Server]
  <2>1. \A i \in 1 .. Len(stream) : stream[i] \in Broadcast
    BY <1>1
  <2>2. \A i \in 1 .. Len(stream) : stream[i].frame <= frame[Server]
    BY <1>1 DEF StreamInv
  <2>3. frame[Server] \in Nat /\ frame'[Server] \in Nat
    BY <1>1 DEF TypeOK, Player
  <2>4. \A b \in Broadcast : b.frame \in Nat /\ b.crc \in Crc
    BY DEF Broadcast, Crc
  <2>5. Len(stream) \in Nat /\ Len(stream') \in Nat
    BY <1>1
  <2> QED
    BY <2>1, <2>2, <2>3, <2>4, <2>5
<1>3. /\ crc[Server] \in Crc /\ crc'[Server] \in Crc
      /\ \A c \in Client : crc[c] \in Crc /\ frame[c] \in Nat
  BY <1>1 DEF TypeOK, Player, Crc
<1>4. frame'[Server] > 0 => IsDigest(stream, crc'[Server], frame'[Server])
  <2>1. CASE /\ frame'[Server] = frame[Server] + 1
             /\ crc'[Server] = [frame |-> frame[Server], given |-> ServerGave]
    <3>1. Len(ServerGave) = Len(stream) /\ \A j \in 1 .. Len(stream) : ServerGave[j] = j
      BY <1>2 DEF ServerGave
    <3>2. Before(stream, ServerGave, frame[Server] + 1)
      BY <1>2, <3>1 DEF Before
    <3> QED
      BY <1>2, <2>1, <3>2 DEF IsDigest
  <2>2. CASE frame'[Server] = frame[Server] /\ crc'[Server] = crc[Server]
    BY <2>2 DEF CrcInv
  <2> QED
    BY <2>1, <2>2, ServerCrc
<1>5. \A c \in Client : /\ crc'[c] = crc[c] /\ frame'[c] = frame[c]
                        /\ Seen(c)' = Seen(c) /\ Lost(c)' = Lost(c)
                        /\ desync'[c] = desync[c]
  BY ServerCrc DEF clientVars, Seen, Lost
<1>6. CASE stream' = stream
  BY <1>4, <1>5, <1>6 DEF CrcInv, GivenSoFar, ClientCrc, NoDesync
<1>7. ASSUME NEW b \in Broadcast, stream' = Append(stream, b), b.frame = frame'[Server],
             b.crc = crc'[Server]
      PROVE  CrcInv'
  <2>1. /\ Len(stream') = Len(stream) + 1 /\ stream'[Len(stream) + 1] = b
        /\ \A i \in 1 .. Len(stream) : stream'[i] = stream[i]
    BY <1>1, <1>7
  <2>2. /\ b.frame \in Nat /\ b.frame > 0
        /\ \A i \in 1 .. Len(stream) : stream[i].frame <= b.frame
    <3>1. \A i \in 1 .. Len(stream') : 0 < stream'[i].frame
      BY <1>1 DEF StreamInv
    <3>2. frame[Server] <= frame'[Server]
      BY <1>2, ServerCrc
    <3>3. b.frame > 0
      BY <1>2, <2>1, <3>1
    <3>4. \A i \in 1 .. Len(stream) : stream[i].frame <= b.frame
      BY <1>2, <1>7, <3>2
    <3> QED
      BY <1>2, <1>7, <3>3, <3>4
  <2>3. IsDigest(stream', crc'[Server], frame'[Server])
    BY <1>1, <1>3, <1>4, <1>7, <2>2, MoreBroadcasts
  <2>4. \A i \in 1 .. Len(stream') : IsDigest(stream', stream'[i].crc, stream'[i].frame)
    <3> SUFFICES ASSUME NEW i \in 1 .. Len(stream')
                 PROVE  IsDigest(stream', stream'[i].crc, stream'[i].frame)
      OBVIOUS
    <3>1. CASE i = Len(stream) + 1
      BY <1>7, <2>1, <2>3, <3>1
    <3>2. CASE i \in 1 .. Len(stream)
      <4>1. IsDigest(stream, stream[i].crc, stream[i].frame)
        BY <3>2 DEF CrcInv
      <4>2. IsDigest(Append(stream, b), stream[i].crc, stream[i].frame)
        BY <1>1, <1>2, <2>2, <3>2, <4>1, MoreBroadcasts
      <4> QED
        BY <1>7, <2>1, <3>2, <4>2
    <3> QED
      BY <1>2, <2>1, <3>1, <3>2
  <2>5. ASSUME NEW c \in Client PROVE GivenSoFar(c)' /\ ClientCrc(c)'
    <3>1. CacheInv(c) /\ ClientInv(c)' /\ CacheInv(c)'
      BY DEF Inv
    <3>2. Seen(c) \in Nat /\ Seen(c) <= Len(stream)
      <4>1. received[c] \in Nat /\ Seen(c) \in Nat
        BY <1>1 DEF TypeOK, Seen
      <4> QED
        BY <1>2, <3>1, <4>1 DEF CacheInv
    <3>3. GivenSoFar(c)'
      BY <1>2, <1>5, <2>1, <3>2 DEF CrcInv, GivenSoFar
    <3>4. ASSUME ~Lost(c)', frame'[c] > 0
          PROVE  IsDigest(stream', crc'[c], frame'[c])
      <4>1. IsDigest(stream, crc[c], frame[c])
        BY <1>5, <3>4 DEF CrcInv, ClientCrc
      <4>2. Len(stream) + 1 \in Seen(c)' + 1 .. Len(stream')
        BY <1>2, <1>5, <2>1, <3>2
      <4>3. frame'[c] <= stream'[Len(stream) + 1].frame
        BY <3>1, <3>4, <4>2 DEF ClientInv
      <4>4. frame[c] <= b.frame
        BY <1>5, <2>1, <4>3
      <4> QED
        BY <1>1, <1>3, <1>5, <1>7, <4>1, <4>4, MoreBroadcasts
    <3> QED
      BY <3>3, <3>4 DEF ClientCrc
  <2> QED
    BY <1>5, <2>3, <2>4, <2>5 DEF CrcInv, NoDesync
<1> QED
  BY <1>6, <1>7, ServerCrc

-----------------------------------------------------------------------------
\* What a client's checksum depends on.
LEMMA SameClientCrc ==
    ASSUME NEW c \in Client, GivenSoFar(c), ClientCrc(c), stream' = stream,
           crc'[c] = crc[c], frame'[c] = frame[c], given'[c] = given[c],
           ~Lost(c)' => ~Lost(c)
    PROVE  GivenSoFar(c)' /\ ClientCrc(c)'
  BY DEF GivenSoFar, ClientCrc, Seen

\* A world that moves to its next frame has been given what came before it.
LEMMA UpdateKeepsCrc ==
    ASSUME Inv, Inv', CrcInv, NEW c \in Client, NEW left \in Nat, WorldUpdate(c, left)
    PROVE  GivenSoFar(c)' /\ ClientCrc(c)'
<1>1. TypeOK /\ TypeOK' /\ CacheInv(c) /\ ClientInv(c)' /\ c \in Player
  BY DEF Inv, Player
<1>2. /\ stream' = stream /\ given' = given /\ Seen(c)' = Seen(c)
      /\ frame'[c] = frame[c] + 1
      /\ crc'[c] = [frame |-> frame[c], given |-> given[c]]
  BY <1>1 DEF TypeOK, WorldUpdate, Digest, Seen
<1>3. /\ frame[c] \in Nat /\ Len(stream) \in Nat /\ received[c] \in Nat /\ Seen(c) \in Nat
      /\ \A i \in 1 .. Len(stream) : stream[i].frame \in Nat
  <2>1. /\ frame[c] \in Nat /\ stream \in Seq(Broadcast) /\ received[c] \in Nat
        /\ given[c] \in Seq(Nat)
    BY <1>1 DEF TypeOK, Broadcast
  <2>2. \A i \in 1 .. Len(stream) : stream[i].frame \in Nat
    BY <1>1, BroadcastType
  <2> QED
    BY <2>1, <2>2 DEF Seen
<1>4. Seen(c) <= Len(stream)
  BY <1>1, <1>3 DEF CacheInv
<1>5. \A i \in 1 .. Seen(c) : stream[i].frame <= frame[c]
  BY DEF CrcInv, GivenSoFar
<1>6. GivenSoFar(c)'
  BY <1>2, <1>3, <1>4, <1>5 DEF GivenSoFar
<1>7. ASSUME ~Lost(c)'
      PROVE  Before(stream, given[c], frame[c] + 1)
  <2>1. \A i \in Seen(c) + 1 .. Len(stream) : frame[c] + 1 <= stream[i].frame
    BY <1>1, <1>2, <1>7 DEF ClientInv
  <2>2. \A j \in 1 .. Len(stream) : j <= Seen(c) <=> stream[j].frame < frame[c] + 1
    BY <1>3, <1>4, <1>5, <2>1
  <2>3. \A j \in 1 .. Seen(c) : given[c][j] = j
    BY <1>1 DEF CacheInv
  <2> QED
    BY <1>4, <2>2, <2>3 DEF Before, Seen
<1>8. ClientCrc(c)'
  BY <1>2, <1>3, <1>7 DEF ClientCrc, IsDigest
<1> QED
  BY <1>6, <1>8

\* The lists of a frame come with the checksum of that frame.
LEMMA GiveKeepsCrc ==
    ASSUME Inv, Inv', CrcInv, NEW c \in Client, GiveCommands(c)
    PROVE  GivenSoFar(c)' /\ ClientCrc(c)' /\ desync' = desync
<1> DEFINE f == frame[c]
           batch == cached[c][f]
<1>1. /\ TypeOK /\ StreamInv /\ CacheInv(c) /\ ClientInv(c) /\ CacheInv(c)'
      /\ c \in Player
  BY DEF Inv, Player
<1>2. /\ stream' = stream /\ frame' = frame /\ crc' = crc
      /\ pc[c] = "keyframe"
      /\ f \in DOMAIN cached[c]
      /\ given'[c] = given[c] \o batch
  BY <1>1 DEF TypeOK, GiveCommands
<1>3. /\ f \in Nat /\ Seen(c) \in Nat /\ Len(stream) \in Nat /\ received[c] \in Nat
      /\ batch \in Seq(Nat) /\ given[c] \in Seq(Nat) /\ crc[c] \in Crc
      /\ stream \in Seq(Broadcast)
  BY <1>1, <1>2 DEF TypeOK, Seen, Crc, Broadcast
<1>4. Len(batch) \in Nat /\ Seen(c)' = Seen(c) + Len(batch)
  BY <1>2, <1>3 DEF Seen
<1>5. \A k \in 1 .. Len(batch) : /\ batch[k] \in 1 .. Len(stream)
                                 /\ stream[batch[k]].frame = f
  <2>1. \A k \in 1 .. Len(batch) : /\ batch[k] \in Seen(c) + 1 .. received[c]
                                   /\ stream[batch[k]].frame = f
    BY <1>1, <1>2 DEF CacheInv
  <2>2. received[c] <= Len(stream)
    BY <1>1 DEF CacheInv
  <2> HIDE DEF batch
  <2>3. Seen(c) + 1 .. received[c] \subseteq 1 .. Len(stream)
    BY <1>3, <2>2
  <2> QED
    BY <2>1, <2>3
<1>6. ~Lost(c)
  BY <1>2 DEF Lost
<1>7. GivenSoFar(c)'
  <2> SUFFICES ASSUME NEW i \in 1 .. Seen(c)' PROVE stream[i].frame <= f
    BY <1>2 DEF GivenSoFar
  <2>1. CASE i <= Seen(c)
    BY <1>3, <2>1 DEF CrcInv, GivenSoFar
  <2>2. CASE i > Seen(c)
    <3>1. i - Seen(c) \in 1 .. Len(batch)
      BY <1>3, <1>4, <2>2
    <3>2. given'[c][i] = i
      BY <1>1 DEF CacheInv
    <3>3. (given[c] \o batch)[i] = batch[i - Seen(c)]
      <4>1. Len(given[c]) = Seen(c)
        BY DEF Seen
      <4>2. i \in 1 .. Len(given[c]) + Len(batch) /\ i > Len(given[c])
        BY <1>4, <2>2, <4>1
      <4> HIDE DEF batch
      <4>3. given[c] \in Seq(Nat) /\ batch \in Seq(Nat)
        BY <1>3
      <4> QED
        BY <4>1, <4>2, <4>3
    <3>4. stream[i].frame = f
      BY <1>2, <1>5, <3>1, <3>2, <3>3
    <3> QED
      BY <1>3, <3>4
  <2> QED
    BY <1>3, <1>4, <2>1, <2>2
<1>8. ClientCrc(c)'
  BY <1>2, <1>6 DEF CrcInv, ClientCrc
<1>9. \A k \in 1 .. Len(batch) : stream[batch[k]].crc = crc[c]
  <2> SUFFICES ASSUME NEW k \in 1 .. Len(batch) PROVE stream[batch[k]].crc = crc[c]
    OBVIOUS
  <2> DEFINE b == stream[batch[k]]
  <2>1. b \in Broadcast /\ b.frame = f /\ batch[k] \in 1 .. Len(stream)
    <3>1. batch[k] \in 1 .. Len(stream) /\ b.frame = f
      BY <1>5
    <3>2. \A i \in 1 .. Len(stream) : stream[i] \in Broadcast
      BY <1>3
    <3> QED
      BY <3>1, <3>2
  <2>2. b.crc \in Crc
    BY <2>1 DEF Broadcast, Crc
  <2>3. IsDigest(stream, b.crc, f)
    BY <2>1 DEF CrcInv
  <2>4. f > 0
    BY <1>1, <2>1 DEF StreamInv
  <2>5. IsDigest(stream, crc[c], f)
    BY <1>6, <2>4 DEF CrcInv, ClientCrc
  <2> HIDE DEF b, f
  <2>6. b.crc = crc[c]
    BY <1>3, <2>2, <2>3, <2>5, SameDigest
  <2> QED
    BY <2>6 DEF b
<1>10. desync' = desync
  <2>1. CrcDiffers(c) = FALSE
    <3>1. \A k \in DOMAIN batch : stream[batch[k]].crc = crc[c]
      <4>1. DOMAIN batch = 1 .. Len(batch)
        BY <1>3
      <4> QED
        BY <1>9, <4>1
    <3>2. ~CrcDiffers(c)
      <4> SUFFICES ASSUME CrcDiffers(c) PROVE FALSE
        OBVIOUS
      <4>1. PICK k \in DOMAIN batch : stream[batch[k]].crc # crc[c]
        BY DEF CrcDiffers
      <4> QED
        BY <3>1, <4>1
    <3>3. CrcDiffers(c) \in BOOLEAN
      BY DEF CrcDiffers
    <3> QED
      BY <3>2, <3>3
  <2>2. desync' = [desync EXCEPT ![c] = desync[c] \/ CrcDiffers(c)]
    BY DEF GiveCommands
  <2>3. desync' = [desync EXCEPT ![c] = desync[c]]
    BY <1>1, <2>1, <2>2 DEF TypeOK
  <2> QED
    BY <1>1, <2>3 DEF TypeOK
<1> QED
  BY <1>7, <1>8, <1>10

-----------------------------------------------------------------------------
\* A step of a client leaves the checksums of the others alone.
LEMMA OthersCrc ==
    ASSUME Inv, NEW c \in Client, GameThread(c)
    PROVE  /\ stream' = stream
           /\ crc'[Server] = crc[Server] /\ frame'[Server] = frame[Server]
           /\ \A d \in Client \ {c} :
                  /\ crc'[d] = crc[d] /\ frame'[d] = frame[d] /\ given'[d] = given[d]
                  /\ paused'[d] = paused[d] /\ pc'[d] = pc[d] /\ loops'[d] = loops[d]
<1>1. TypeOK /\ Server \in Player /\ Server # c /\ c \in Player /\ Client \subseteq Player
  BY DEF Inv, Player, Client, Server
<1>2. CASE BeginUpdate(c)
  BY <1>1, <1>2 DEF TypeOK, BeginUpdate, WorldUpdate
<1>3. CASE NextLoop(c)
  BY <1>1, <1>3 DEF TypeOK, NextLoop, WorldUpdate
<1>4. CASE BeginUpdateWithoutLoops(c)
  BY <1>1, <1>4 DEF TypeOK, BeginUpdateWithoutLoops, worldVars
<1>5. CASE GiveCommands(c)
  BY <1>1, <1>5 DEF TypeOK, GiveCommands
<1>6. CASE SkipFrame(c)
  BY <1>1, <1>6 DEF TypeOK, SkipFrame, worldVars
<1> QED
  BY <1>2, <1>3, <1>4, <1>5, <1>6 DEF GameThread

\* A step of a client's game thread keeps its checksum that of its frame.
LEMMA ClientKeepsCrc ==
    ASSUME Inv, Inv', CrcInv, NEW c \in Client, GameThread(c)
    PROVE  CrcInv'
<1>1. TypeOK /\ ClientInv(c) /\ LoopType /\ GivenSoFar(c) /\ ClientCrc(c)
  BY DEF Inv, CrcInv
<1>2. frame[c] \in Nat /\ loops[c] \in Nat
  BY <1>1 DEF TypeOK, Player
<1>3. GivenSoFar(c)' /\ ClientCrc(c)' /\ desync' = desync
  <2>1. CASE BeginUpdate(c)
    <3>1. PICK k \in 1 .. MaxLoops : WorldUpdate(c, k - 1)
      BY <2>1 DEF BeginUpdate
    <3>2. k - 1 \in Nat /\ desync' = desync
      BY <3>1 DEF WorldUpdate
    <3> QED
      BY <3>1, <3>2, UpdateKeepsCrc
  <2>2. CASE NextLoop(c)
    <3>1. WorldUpdate(c, loops[c] - 1) /\ loops[c] - 1 \in Nat
      BY <1>1, <1>2, <2>2 DEF NextLoop, LoopType
    <3>2. desync' = desync
      BY <3>1 DEF WorldUpdate
    <3> QED
      BY <3>1, <3>2, UpdateKeepsCrc
  <2>3. CASE BeginUpdateWithoutLoops(c)
    <3>1. 0 \in 0 .. loops[c] /\ IsKeyframe(frame[c] + 0)
      BY <1>2, <2>3 DEF BeginUpdateWithoutLoops
    <3>2. ~Lost(c)
      BY <3>1 DEF Lost
    <3> QED
      BY <1>1, <2>3, <3>2, SameClientCrc DEF BeginUpdateWithoutLoops, worldVars
  <2>4. CASE GiveCommands(c)
    BY <2>4, GiveKeepsCrc
  <2>5. CASE SkipFrame(c)
    <3>1. ~Lost(c)
      BY <2>5 DEF SkipFrame, Lost
    <3> QED
      BY <1>1, <2>5, <3>1, SameClientCrc DEF SkipFrame, worldVars
  <2> QED
    BY <2>1, <2>2, <2>3, <2>4, <2>5 DEF GameThread
<1>4. ASSUME NEW d \in Client, d # c PROVE GivenSoFar(d)' /\ ClientCrc(d)'
  <2>1. /\ stream' = stream
        /\ crc'[d] = crc[d] /\ frame'[d] = frame[d] /\ given'[d] = given[d]
        /\ Lost(d)' = Lost(d)
    BY <1>4, OthersCrc DEF Lost
  <2> QED
    BY <2>1, SameClientCrc DEF CrcInv
<1>5. /\ stream' = stream /\ crc'[Server] = crc[Server] /\ frame'[Server] = frame[Server]
  BY OthersCrc
<1> QED
  BY <1>3, <1>4, <1>5 DEF CrcInv, NoDesync

\* The other steps change nothing that checksums are about.
LEMMA OtherStepsCrc ==
    ASSUME CrcInv, stream' = stream, worldVars' = worldVars, given' = given, pc' = pc,
           loops' = loops, desync' = desync
    PROVE  CrcInv'
<1>1. frame' = frame /\ paused' = paused /\ crc' = crc
  BY DEF worldVars
<1>2. \A c \in Client : GivenSoFar(c)' /\ ClientCrc(c)'
  <2> SUFFICES ASSUME NEW c \in Client PROVE GivenSoFar(c)' /\ ClientCrc(c)'
    OBVIOUS
  <2>1. GivenSoFar(c) /\ ClientCrc(c) /\ Lost(c)' = Lost(c)
    BY <1>1 DEF CrcInv, Lost
  <2> QED
    BY <1>1, <2>1, SameClientCrc
<1> QED
  BY <1>1, <1>2 DEF CrcInv, NoDesync

\* Every step keeps the checksums right.
LEMMA CrcStep == Inv /\ Inv' /\ CrcInv /\ [Next]_vars => CrcInv'
<1> SUFFICES ASSUME Inv, Inv', CrcInv, [Next]_vars PROVE CrcInv'
  OBVIOUS
<1>1. ASSUME NEW p \in Player, NEW k \in Kind, RequestCommand(p, k) PROVE CrcInv'
  BY <1>1, OtherStepsCrc DEF RequestCommand, clientVars
<1>2. CASE ServerStep
  BY <1>2, ServerKeepsCrc
<1>3. CASE ToggleAutoPaused
  BY <1>3, OtherStepsCrc DEF ToggleAutoPaused, clientVars
<1>4. ASSUME NEW c \in Client,
             \/ ClientSend(c)
             \/ SlotReceive(c)
             \/ ExecuteNetworkCommandsFromClients(c)
             \/ ReceiveCommandList(c)
             \/ Disconnect(c)
      PROVE  CrcInv'
  BY <1>4, OtherStepsCrc DEF ClientSend, SlotReceive, ExecuteNetworkCommandsFromClients,
                             ReceiveCommandList, Disconnect, clientVars
<1>5. ASSUME NEW c \in Client, GameThread(c) PROVE CrcInv'
  BY <1>5, ClientKeepsCrc
<1>6. CASE UNCHANGED vars
  BY <1>6, OtherStepsCrc DEF vars, clientVars
<1> QED
  BY <1>1, <1>2, <1>3, <1>4, <1>5, <1>6 DEF Next

\* At the beginning there are no broadcasts, and no world has moved.
LEMMA CrcInit == Init => CrcInv
<1> SUFFICES ASSUME Init PROVE CrcInv
  OBVIOUS
<1>1. /\ stream = <<>> /\ Server \in Player /\ Client \subseteq Player
      /\ frame[Server] = 0
      /\ \A c \in Client : given[c] = <<>> /\ frame[c] = 0 /\ ~desync[c]
  BY DEF Init, Player
<1>2. \A c \in Client : GivenSoFar(c) /\ ClientCrc(c)
  BY <1>1 DEF GivenSoFar, ClientCrc, Seen
<1> QED
  BY <1>1, <1>2 DEF CrcInv, NoDesync

\* The checksum a client finds with the commands of a frame is its own, however many
\* updates it makes to catch up: the quit of getNetworkCommand cannot be caused by
\* the protocol.
THEOREM NoDesyncHolds == Spec => []NoDesync
<1>1. CrcInv => NoDesync
  BY DEF CrcInv
<1>2. Inv /\ CrcInv /\ [Next]_vars => Inv' /\ CrcInv'
  BY InvStep, CrcStep
<1> QED
  BY <1>1, <1>2, InvInit, CrcInit, PTL DEF Spec
=============================================================================
