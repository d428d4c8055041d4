------------------------- MODULE ReadyBarrierProofs -------------------------
(***************************************************************************)
(* Theorems about ReadyBarrier, for every number of slots, every set of    *)
(* members and every choice of the other constants.                        *)
(***************************************************************************)
EXTENDS ReadyBarrier, TLAPS

-----------------------------------------------------------------------------
(***************************************************************************)
(* The inductive invariant.                                                *)
(***************************************************************************)

\* A client that is not gone has its connection.
Connected == \A s \in Slot : stage[s] # "gone" => Up(s)

\* A Ready under way to the server comes from a client that has loaded.
ReadyIsTrue ==
    \A s \in Slot : \A i \in 1 .. Len(toServer[s]) :
        toServer[s][i] = "ready" => stage[s] \in {"waiting", "playing"}

\* What the pass under way has visited without an objection is not loading.
PassIsTrue ==
    phase = "scanning" /\ allReady
        => \A m \in Member : m < next => stage[m] # "loading"

\* Ready is sent to clients in the release only, and then nobody is loading.
ReleaseIsTrue ==
    /\ phase = "releasing" => released
    /\ released => \A m \in Member : stage[m] # "loading"
    /\ \A s \in Slot : \A i \in 1 .. Len(toClient[s]) :
           toClient[s][i] = "ready" => released

Inv == /\ TypeOK
       /\ Connected
       /\ ReadyIsTrue
       /\ ReadyMeansLoaded
       /\ PassIsTrue
       /\ ReleaseIsTrue

USE NAssumption, MemberAssumption

-----------------------------------------------------------------------------
(***************************************************************************)
(* Type correctness.                                                       *)
(***************************************************************************)

ServerMessage == {"ready", "intro"}
ClientMessage == {"status", "quit", "ready"}

\* A channel stays a channel when a message is taken from it or put into it.
LEMMA ChannelType ==
    ASSUME NEW M, NEW ch \in [Slot -> Seq(M)], NEW s \in Slot
    PROVE  /\ \A m \in M : [ch EXCEPT ![s] = Append(@, m)] \in [Slot -> Seq(M)]
           /\ ch[s] # <<>> => [ch EXCEPT ![s] = Tail(@)] \in [Slot -> Seq(M)]
           /\ [ch EXCEPT ![s] = <<>>] \in [Slot -> Seq(M)]
           /\ \A m \in M : [ch EXCEPT ![s] = <<m>>] \in [Slot -> Seq(M)]
<1>1. ch[s] \in Seq(M)
  OBVIOUS
<1>2. \A m \in M : Append(ch[s], m) \in Seq(M) /\ <<m>> \in Seq(M)
  BY <1>1
<1>3. ch[s] # <<>> => Tail(ch[s]) \in Seq(M)
  BY <1>1
<1>4. <<>> \in Seq(M)
  OBVIOUS
<1> QED
  BY <1>2, <1>3, <1>4

\* A broadcast keeps the channels' type.
LEMMA BroadcastType ==
    ASSUME TypeOK, NEW msg \in ClientMessage, Broadcast(msg)
    PROVE  toClient' \in [Slot -> Seq(ClientMessage)]
<1>1. \A s \in Slot : toClient[s] \in Seq(ClientMessage)
  BY DEF TypeOK, ClientMessage
<1>2. \A s \in Slot : Append(toClient[s], msg) \in Seq(ClientMessage)
  BY <1>1
<1> QED
  BY <1>1, <1>2 DEF Broadcast

\* The steps of the server keep the types.
LEMMA ServerType == ASSUME TypeOK, ServerStep \/ Cancel PROVE TypeOK'
<1> USE DEF Slot
<1>1. toServer \in [Slot -> Seq(ServerMessage)] /\ toClient \in [Slot -> Seq(ClientMessage)]
  BY DEF TypeOK, ServerMessage, ClientMessage
<1>2. CASE VisitSlot
  <2>1. next \in Slot /\ next + 1 \in 1 .. N + 1
    BY <1>2 DEF VisitSlot
  <2>2. toServer' \in [Slot -> Seq(ServerMessage)]
    <3>1. \/ toServer' = toServer
          \/ /\ toServer[next] # <<>>
             /\ toServer' = [toServer EXCEPT ![next] = Tail(@)]
      BY <1>2 DEF VisitSlot
    <3>2. toServer[next] # <<>>
              => [toServer EXCEPT ![next] = Tail(@)] \in [Slot -> Seq(ServerMessage)]
      BY <1>1, <2>1, ChannelType
    <3> QED
      BY <1>1, <3>1, <3>2
  <2>3. ready' \in [Slot -> BOOLEAN] /\ started' \in [Slot -> BOOLEAN] /\ joining' \in [Slot -> BOOLEAN]
    BY <1>2 DEF VisitSlot, TypeOK
  <2>4. next' \in 1 .. N + 1 /\ allReady' \in BOOLEAN
    BY <1>2, <2>1 DEF VisitSlot, TypeOK
  <2> QED
    BY <1>2, <2>2, <2>3, <2>4 DEF VisitSlot, TypeOK, clients, ServerMessage
<1>3. CASE NextPass
  <2>1. toClient' \in [Slot -> Seq(ClientMessage)]
    BY <1>1, <1>3, BroadcastType DEF NextPass, ClientMessage
  <2> QED
    BY <1>3, <2>1 DEF NextPass, TypeOK, slots, clients, ClientMessage
<1>4. CASE QuitGame
  <2>1. toClient' \in [Slot -> Seq(ClientMessage)]
    BY <1>4, BroadcastType DEF QuitGame, ClientMessage
  <2> QED
    BY <1>4, <2>1 DEF QuitGame, TypeOK, slots, clients, ClientMessage
<1>5. CASE Release
  <2>1. next \in Slot /\ next + 1 \in 1 .. N + 1
    BY <1>5 DEF Release
  <2>2. toClient' \in [Slot -> Seq(ClientMessage)]
    <3>1. \/ toClient' = toClient
          \/ toClient' = [toClient EXCEPT ![next] = Append(@, "ready")]
      BY <1>5 DEF Release
    <3>2. "ready" \in ClientMessage
      BY DEF ClientMessage
    <3>3. [toClient EXCEPT ![next] = Append(@, "ready")] \in [Slot -> Seq(ClientMessage)]
      BY <1>1, <2>1, <3>2, ChannelType
    <3> QED
      BY <1>1, <3>1, <3>3
  <2>3. started' \in [Slot -> BOOLEAN]
    BY <1>5 DEF Release, TypeOK
  <2> QED
    BY <1>5, <2>1, <2>2, <2>3 DEF Release, TypeOK, clients, ClientMessage
<1>6. CASE BeginWait \/ BeginRelease
  <2>1. 1 \in 1 .. N + 1
    OBVIOUS
  <2> QED
    BY <1>6, <2>1 DEF BeginWait, BeginRelease, TypeOK, slots, clients
<1>7. CASE GiveUp \/ Cancel \/ BeginGame
  BY <1>7 DEF GiveUp, Cancel, BeginGame, TypeOK, slots, clients
<1> QED
  BY <1>2, <1>3, <1>4, <1>5, <1>6, <1>7 DEF ServerStep

\* A connection that is given up keeps the types.
LEMMA HangUpType ==
    ASSUME TypeOK, NEW s \in Slot, HangUp(s)
    PROVE  /\ stage' \in [Slot -> {"loading", "waiting", "playing", "lobby", "gone"}]
           /\ socket' \in [Slot -> {"none", "up", "down"}]
           /\ toServer' \in [Slot -> Seq({"ready", "intro"})]
  BY ChannelType DEF HangUp, TypeOK

\* The steps of the clients and of the slots' threads keep the types.
LEMMA SlotType ==
    ASSUME TypeOK, NEW s \in Slot,
           FinishLoading(s) \/ Wait(s) \/ Thread(s) \/ Accept(s) \/ Leave(s)
    PROVE  TypeOK'
<1>1. toServer \in [Slot -> Seq(ServerMessage)] /\ toClient \in [Slot -> Seq(ClientMessage)]
  BY DEF TypeOK, ServerMessage, ClientMessage
<1>2. CASE FinishLoading(s)
  <2>1. toServer' \in [Slot -> Seq(ServerMessage)]
    BY <1>1, <1>2, ChannelType DEF FinishLoading, ServerMessage
  <2> QED
    BY <1>2, <2>1 DEF FinishLoading, TypeOK, slots, server, ServerMessage
<1>3. CASE Receive(s)
  <2>1. toClient' \in [Slot -> Seq(ClientMessage)]
    BY <1>1, <1>3, ChannelType DEF Receive
  <2>2. /\ stage' \in [Slot -> {"loading", "waiting", "playing", "lobby", "gone"}]
        /\ socket' \in [Slot -> {"none", "up", "down"}]
        /\ toServer' \in [Slot -> Seq({"ready", "intro"})]
    BY <1>3, HangUpType DEF Receive, TypeOK
  <2> QED
    BY <1>3, <2>1, <2>2 DEF Receive, TypeOK, server, ClientMessage
<1>4. CASE ClientGivesUp(s) \/ Leave(s)
  BY <1>4, HangUpType DEF ClientGivesUp, Leave, TypeOK, server
<1>5. CASE CloseSlot(s)
  BY <1>5 DEF CloseSlot, TypeOK, clients, server
<1>6. CASE SlotIntro(s)
  <2>1. toServer' \in [Slot -> Seq(ServerMessage)]
    BY <1>1, <1>6, ChannelType DEF SlotIntro
  <2> QED
    BY <1>6, <2>1 DEF SlotIntro, TypeOK, clients, server, ServerMessage
<1>7. CASE CloseStranger(s)
  BY <1>7 DEF CloseStranger, TypeOK, server
<1>8. CASE LobbyReceive(s)
  <2>1. toClient' \in [Slot -> Seq(ClientMessage)]
    BY <1>1, <1>8, ChannelType DEF LobbyReceive
  <2>2. /\ stage' \in [Slot -> {"loading", "waiting", "playing", "lobby", "gone"}]
        /\ socket' \in [Slot -> {"none", "up", "down"}]
        /\ toServer' \in [Slot -> Seq({"ready", "intro"})]
        /\ granted' \in [Slot -> BOOLEAN]
    BY <1>8, HangUpType DEF LobbyReceive, TypeOK
  <2> QED
    BY <1>8, <2>1, <2>2 DEF LobbyReceive, TypeOK, server, ClientMessage
<1>9. CASE Accept(s)
  <2>1. toServer' \in [Slot -> Seq(ServerMessage)] /\ toClient' \in [Slot -> Seq(ClientMessage)]
    BY <1>1, <1>9, ChannelType DEF Accept, ServerMessage
  <2>2. started' \in [Slot -> BOOLEAN]
    BY <1>9 DEF Accept, TypeOK
  <2> QED
    BY <1>9, <2>1, <2>2 DEF Accept, TypeOK, server, ServerMessage, ClientMessage
<1> QED
  BY <1>2, <1>3, <1>4, <1>5, <1>6, <1>7, <1>8, <1>9 DEF Wait, Thread

\* The types hold initially and are kept.
LEMMA InitType == Init => TypeOK
<1> SUFFICES ASSUME Init PROVE TypeOK
  OBVIOUS
<1>1. /\ toServer \in [Slot -> Seq({"ready", "intro"})]
      /\ toClient \in [Slot -> Seq({"status", "quit", "ready"})]
  BY DEF Init
<1>2. next \in 1 .. N + 1
  BY DEF Init
<1>3. \A f \in {ready, gotIntro, joining, started, granted} : f \in [Slot -> BOOLEAN]
  <2>1. gotIntro \in [Slot -> BOOLEAN]
    BY DEF Init
  <2>2. /\ ready \in [Slot -> BOOLEAN] /\ joining \in [Slot -> BOOLEAN]
        /\ started \in [Slot -> BOOLEAN] /\ granted \in [Slot -> BOOLEAN]
    BY DEF Init
  <2> QED
    BY <2>1, <2>2
<1>4. socket \in [Slot -> {"none", "up", "down"}]
  BY DEF Init
<1>5. stage \in [Slot -> {"loading", "waiting", "playing", "lobby", "gone"}]
  BY DEF Init
<1>6. /\ phase \in {"loading", "scanning", "releasing", "playing"}
      /\ allReady \in BOOLEAN /\ cancel \in BOOLEAN /\ released \in BOOLEAN
      /\ sameData \in [Member -> BOOLEAN] /\ checks \in [Member -> BOOLEAN]
  BY DEF Init
<1> QED
  BY <1>1, <1>2, <1>3, <1>4, <1>5, <1>6 DEF TypeOK

LEMMA TypeStep == TypeOK /\ [Next]_vars => TypeOK'
<1> SUFFICES ASSUME TypeOK, [Next]_vars PROVE TypeOK'
  OBVIOUS
<1>1. CASE UNCHANGED vars
  BY <1>1 DEF vars, slots, clients, server, TypeOK
<1> QED
  BY <1>1, ServerType, SlotType DEF Next

\* Every variable keeps its type.
THEOREM TypeCorrect == Spec => []TypeOK
  BY InitType, TypeStep, PTL DEF Spec

-----------------------------------------------------------------------------
(***************************************************************************)
(* The invariant is inductive.                                             *)
(***************************************************************************)

LEMMA InvInit == Init => Inv
<1> SUFFICES ASSUME Init PROVE Inv
  OBVIOUS
<1>1. \A s \in Slot : Len(toServer[s]) = 0 /\ Len(toClient[s]) = 0
  BY DEF Init
<1> QED
  BY <1>1, InitType DEF Init, Inv, Connected, ReadyIsTrue, ReadyMeansLoaded, PassIsTrue,
     ReleaseIsTrue, Up

\* The messages of a channel from which one is taken, or to which one is added.
LEMMA Taken ==
    ASSUME NEW M, NEW ch \in [Slot -> Seq(M)], NEW s \in Slot, ch[s] # <<>>,
           NEW t \in Slot, NEW i \in 1 .. Len([ch EXCEPT ![s] = Tail(@)][t])
    PROVE  \E j \in 1 .. Len(ch[t]) : [ch EXCEPT ![s] = Tail(@)][t][i] = ch[t][j]
<1>1. CASE t = s
  <2>1. Len(Tail(ch[s])) = Len(ch[s]) - 1 /\ i \in 1 .. Len(ch[s]) - 1
    BY <1>1
  <2>2. Tail(ch[s])[i] = ch[s][i + 1] /\ i + 1 \in 1 .. Len(ch[s])
    BY <1>1, <2>1
  <2> QED
    BY <1>1, <2>2
<1>2. CASE t # s
  BY <1>2
<1> QED
  BY <1>1, <1>2

LEMMA Added ==
    ASSUME NEW M, NEW ch \in [Slot -> Seq(M)], NEW s \in Slot, NEW m \in M,
           NEW t \in Slot, NEW i \in 1 .. Len([ch EXCEPT ![s] = Append(@, m)][t])
    PROVE  \/ t = s /\ [ch EXCEPT ![s] = Append(@, m)][t][i] = m
           \/ \E j \in 1 .. Len(ch[t]) : [ch EXCEPT ![s] = Append(@, m)][t][i] = ch[t][j]
<1>1. CASE t = s
  <2>1. Len(Append(ch[s], m)) = Len(ch[s]) + 1
    OBVIOUS
  <2>2. i \in 1 .. Len(ch[s]) \/ i = Len(ch[s]) + 1
    BY <1>1, <2>1
  <2>3. CASE i \in 1 .. Len(ch[s])
    BY <1>1, <2>3
  <2>4. CASE i = Len(ch[s]) + 1
    BY <1>1, <2>4
  <2> QED
    BY <2>2, <2>3, <2>4
<1>2. CASE t # s
  BY <1>2
<1> QED
  BY <1>1, <1>2

-----------------------------------------------------------------------------
\* A step of one slot's client or thread.
SlotStep(s) == FinishLoading(s) \/ Wait(s) \/ Thread(s) \/ Accept(s) \/ Leave(s)

\* Nobody begins to load: a member that has loaded or has left stays so.
LEMMA NoNewLoading ==
    ASSUME TypeOK, Next
    PROVE  \A s \in Slot : stage'[s] = "loading" => stage[s] = "loading"
<1>1. CASE ServerStep \/ Cancel
  BY <1>1 DEF ServerStep, Cancel, BeginWait, VisitSlot, NextPass, GiveUp, QuitGame,
     BeginRelease, Release, BeginGame, clients
<1>2. ASSUME NEW s \in Slot, SlotStep(s)
      PROVE  \A t \in Slot : stage'[t] = "loading" => stage[t] = "loading"
  BY <1>2 DEF SlotStep, FinishLoading, Wait, Receive, ClientGivesUp, Thread, CloseSlot,
     SlotIntro, CloseStranger, LobbyReceive, Accept, Leave, HangUp, clients, TypeOK
<1> QED
  BY <1>1, <1>2 DEF Next, SlotStep

LEMMA ConnectedStep == ASSUME TypeOK, Connected, Next PROVE Connected'
<1>1. CASE ServerStep \/ Cancel
  BY <1>1 DEF ServerStep, Cancel, BeginWait, VisitSlot, NextPass, GiveUp, QuitGame,
     BeginRelease, Release, BeginGame, clients, slots, Connected, Up
<1>2. ASSUME NEW s \in Slot, SlotStep(s)
      PROVE  Connected'
  <2>1. CASE CloseSlot(s)
    BY <2>1 DEF CloseSlot, Connected, Up, TypeOK, clients
  <2>2. CASE FinishLoading(s) \/ SlotIntro(s)
    BY <2>2 DEF FinishLoading, SlotIntro, Connected, Up, TypeOK, slots, clients
  <2>3. CASE Receive(s) \/ LobbyReceive(s)
    BY <2>3 DEF Receive, LobbyReceive, HangUp, Connected, Up, TypeOK
  <2>4. CASE ClientGivesUp(s) \/ Leave(s)
    <3>1. /\ socket' = [socket EXCEPT ![s] = "down"]
          /\ stage' = [stage EXCEPT ![s] = "gone"]
      BY <2>4 DEF ClientGivesUp, Leave, HangUp
    <3> QED
      BY <3>1 DEF Connected, Up, TypeOK
  <2>5. CASE CloseStranger(s) \/ Accept(s)
    <3>1. \/ socket' = [socket EXCEPT ![s] = "up"]
          \/ socket' = [socket EXCEPT ![s] = "none"] /\ stage' = [stage EXCEPT ![s] = "gone"]
      BY <2>5 DEF CloseStranger, Accept
    <3>2. \A t \in Slot : t # s => socket'[t] = socket[t] /\ stage'[t] = stage[t]
      BY <2>5 DEF CloseStranger, Accept, TypeOK
    <3>3. stage'[s] # "gone" => socket'[s] = "up"
      BY <3>1 DEF TypeOK
    <3> QED
      BY <3>2, <3>3 DEF Connected, Up
  <2> QED
    BY <1>2, <2>1, <2>2, <2>3, <2>4, <2>5 DEF SlotStep, Wait, Thread
<1> QED
  BY <1>1, <1>2 DEF Next, SlotStep

\* The Readys under way to the server: only FinishLoading adds one.
LEMMA ReadyIsTrueStep == ASSUME TypeOK, ReadyIsTrue, Next PROVE ReadyIsTrue'
<1> DEFINE Loaded == {"waiting", "playing"}
<1>a. toServer \in [Slot -> Seq(ServerMessage)]
  BY DEF TypeOK, ServerMessage
<1>1. CASE VisitSlot
  <2> SUFFICES ASSUME NEW t \in Slot, NEW i \in 1 .. Len(toServer'[t]), toServer'[t][i] = "ready"
               PROVE  stage'[t] \in Loaded
    BY DEF ReadyIsTrue
  <2>1. stage' = stage /\ next \in Slot
    BY <1>1 DEF VisitSlot, clients
  <2>2. \E j \in 1 .. Len(toServer[t]) : toServer'[t][i] = toServer[t][j]
    <3>1. CASE toServer' = toServer
      BY <3>1
    <3>2. CASE toServer[next] # <<>> /\ toServer' = [toServer EXCEPT ![next] = Tail(@)]
      BY <1>a, <2>1, <3>2, Taken
    <3> QED
      BY <1>1, <3>1, <3>2 DEF VisitSlot
  <2> QED
    BY <2>1, <2>2 DEF ReadyIsTrue
<1>2. CASE (ServerStep /\ ~VisitSlot) \/ Cancel
  BY <1>2 DEF ServerStep, Cancel, BeginWait, NextPass, GiveUp, QuitGame,
     BeginRelease, Release, BeginGame, clients, ReadyIsTrue
<1>3. ASSUME NEW s \in Slot, SlotStep(s)
      PROVE  ReadyIsTrue'
  <2> SUFFICES ASSUME NEW t \in Slot, NEW i \in 1 .. Len(toServer'[t]), toServer'[t][i] = "ready"
               PROVE  stage'[t] \in Loaded
    BY DEF ReadyIsTrue
  <2>1. CASE FinishLoading(s)
    <3>1. toServer' = [toServer EXCEPT ![s] = Append(@, "ready")] /\ "ready" \in ServerMessage
      BY <2>1 DEF FinishLoading, ServerMessage
    <3>2. t = s \/ \E j \in 1 .. Len(toServer[t]) : toServer'[t][i] = toServer[t][j]
      BY <1>a, <3>1, Added
    <3> QED
      BY <2>1, <3>2 DEF FinishLoading, ReadyIsTrue, TypeOK
  <2>2. CASE SlotIntro(s)
    <3>1. /\ toServer' = [toServer EXCEPT ![s] = Tail(@)] /\ toServer[s] # <<>>
          /\ stage' = stage
      BY <2>2 DEF SlotIntro, clients
    <3>2. \E j \in 1 .. Len(toServer[t]) : toServer'[t][i] = toServer[t][j]
      BY <1>a, <3>1, Taken
    <3> QED
      BY <3>1, <3>2 DEF ReadyIsTrue
  <2>3. CASE t # s
    <3>1. CASE FinishLoading(s) \/ SlotIntro(s)
      BY <2>1, <2>2, <3>1
    <3>2. CASE ~(FinishLoading(s) \/ SlotIntro(s))
      <4>1. toServer'[t] = toServer[t] /\ stage'[t] = stage[t]
        BY <1>3, <2>3, <3>2 DEF SlotStep, Wait, Receive, ClientGivesUp, Thread, CloseSlot,
           CloseStranger, LobbyReceive, Accept, Leave, HangUp, clients, TypeOK
      <4> QED
        BY <4>1 DEF ReadyIsTrue
    <3> QED
      BY <3>1, <3>2
  <2>4. CASE HangUp(s) \/ Accept(s) \/ CloseStranger(s)
    <3>1. toServer'[s] = <<>> \/ toServer'[s] = <<"intro">>
      BY <2>4 DEF HangUp, Accept, CloseStranger, TypeOK
    <3>2. t # s
      BY <3>1
    <3> QED
      BY <2>3, <3>2
  <2>5. CASE CloseSlot(s)
    BY <2>5 DEF CloseSlot, clients, ReadyIsTrue
  <2>6. CASE (Receive(s) \/ LobbyReceive(s)) /\ ~HangUp(s)
    <3>1. toServer' = toServer /\ (stage' = stage \/ stage' = [stage EXCEPT ![s] = "playing"])
      BY <2>6 DEF Receive, LobbyReceive
    <3> QED
      BY <3>1 DEF ReadyIsTrue, TypeOK
  <2> QED
    BY <1>3, <2>1, <2>2, <2>4, <2>5, <2>6 DEF SlotStep, Wait, Thread, ClientGivesUp, Leave
<1> QED
  BY <1>1, <1>2, <1>3 DEF Next, SlotStep

\* A slot becomes ready with a Ready, and is reset with its connection.
LEMMA ReadyMeansLoadedStep ==
    ASSUME TypeOK, ReadyIsTrue, ReadyMeansLoaded, Next
    PROVE  ReadyMeansLoaded'
<1>1. CASE VisitSlot
  <2>1. next \in Slot /\ socket' = socket /\ stage' = stage
    BY <1>1 DEF VisitSlot, clients
  <2>2. CASE ready' = ready
    BY <2>1, <2>2 DEF ReadyMeansLoaded, Up
  <2>3. CASE ready' # ready
    <3>1. /\ toServer[next] # <<>> /\ Head(toServer[next]) = "ready"
          /\ ready' = [ready EXCEPT ![next] = TRUE]
      BY <1>1, <2>3 DEF VisitSlot
    <3>2. 1 \in 1 .. Len(toServer[next]) /\ toServer[next][1] = "ready"
      BY <2>1, <3>1 DEF TypeOK
    <3>3. stage[next] \in {"waiting", "playing"}
      BY <2>1, <3>2 DEF ReadyIsTrue
    <3> QED
      BY <2>1, <3>1, <3>3 DEF ReadyMeansLoaded, Up, TypeOK
  <2> QED
    BY <2>2, <2>3
<1>2. CASE (ServerStep /\ ~VisitSlot) \/ Cancel
  BY <1>2 DEF ServerStep, Cancel, BeginWait, NextPass, GiveUp, QuitGame,
     BeginRelease, Release, BeginGame, clients, slots, ReadyMeansLoaded, Up
<1>3. ASSUME NEW s \in Slot, SlotStep(s)
      PROVE  ReadyMeansLoaded'
  <2>1. CASE FinishLoading(s) \/ Accept(s) \/ CloseStranger(s)
    BY <2>1 DEF FinishLoading, Accept, CloseStranger, slots, ReadyMeansLoaded, Up, TypeOK
  <2>2. CASE SlotIntro(s) \/ CloseSlot(s)
    BY <2>2 DEF SlotIntro, CloseSlot, clients, ReadyMeansLoaded, Up, TypeOK
  <2>3. CASE Receive(s) \/ LobbyReceive(s)
    BY <2>3 DEF Receive, LobbyReceive, HangUp, ReadyMeansLoaded, Up, TypeOK
  <2>4. CASE ClientGivesUp(s) \/ Leave(s)
    <3>1. /\ socket' = [socket EXCEPT ![s] = "down"] /\ ready' = ready
          /\ stage' = [stage EXCEPT ![s] = "gone"]
      BY <2>4 DEF ClientGivesUp, Leave, HangUp
    <3> QED
      BY <3>1 DEF ReadyMeansLoaded, Up, TypeOK
  <2> QED
    BY <1>3, <2>1, <2>2, <2>3, <2>4 DEF SlotStep, Wait, Thread
<1> QED
  BY <1>1, <1>2, <1>3 DEF Next, SlotStep

\* A slot that is visited without an objection has no client that loads: it is
\* not connected, or it is ready.
LEMMA PassIsTrueStep ==
    ASSUME TypeOK, Connected, ReadyMeansLoaded, PassIsTrue, Next
    PROVE  PassIsTrue'
<1> SUFFICES ASSUME phase' = "scanning", allReady', NEW m \in Member, m < next'
             PROVE  stage'[m] # "loading"
  BY DEF PassIsTrue
<1>a. m \in Slot /\ m \in 1 .. N
  BY DEF Slot
<1>1. CASE VisitSlot
  <2>1. phase = "scanning" /\ next \in Slot /\ next' = next + 1 /\ stage' = stage
    BY <1>1 DEF VisitSlot, clients
  <2>2. ~(Up(next) /\ ~ready[next]) /\ allReady
    BY <1>1 DEF VisitSlot
  <2>3. CASE m < next
    BY <2>1, <2>2, <2>3 DEF PassIsTrue
  <2>4. CASE m = next
    BY <1>a, <2>1, <2>2, <2>4 DEF Connected, ReadyMeansLoaded
  <2> QED
    BY <1>a, <2>1, <2>3, <2>4 DEF Slot
<1>2. CASE BeginWait \/ NextPass
  <2>1. next' = 1
    BY <1>2 DEF BeginWait, NextPass
  <2> QED
    BY <1>a, <2>1
<1>3. CASE GiveUp \/ QuitGame \/ BeginRelease \/ Release \/ BeginGame
  BY <1>3 DEF GiveUp, QuitGame, BeginRelease, Release, BeginGame
<1>4. ASSUME phase' = phase, allReady' = allReady, next' = next
      PROVE  stage'[m] # "loading"
  BY <1>a, <1>4, NoNewLoading DEF PassIsTrue
<1>5. CASE Cancel
  BY <1>4, <1>5 DEF Cancel
<1>6. ASSUME NEW s \in Slot, SlotStep(s)
      PROVE  stage'[m] # "loading"
  BY <1>4, <1>6 DEF SlotStep, FinishLoading, Wait, Receive, ClientGivesUp, Thread,
     CloseSlot, SlotIntro, CloseStranger, LobbyReceive, Accept, Leave, server
<1> QED
  BY <1>1, <1>2, <1>3, <1>5, <1>6 DEF Next, ServerStep, SlotStep

\* The release begins when a pass has ended without an objection.
LEMMA ReleaseIsTrueStep ==
    ASSUME TypeOK, PassIsTrue, ReleaseIsTrue, Next
    PROVE  ReleaseIsTrue'
<1>a. toClient \in [Slot -> Seq(ClientMessage)]
  BY DEF TypeOK, ClientMessage
<1>b. released => released'
  BY DEF Next, ServerStep, Cancel, BeginWait, VisitSlot, NextPass, GiveUp, QuitGame,
     BeginRelease, Release, BeginGame, FinishLoading, Wait, Receive, ClientGivesUp, Thread,
     CloseSlot, SlotIntro, CloseStranger, LobbyReceive, Accept, Leave, server
<1>1. phase' = "releasing" => released'
  <2>1. CASE ServerStep \/ Cancel
    BY <2>1, <1>b DEF ServerStep, Cancel, BeginWait, VisitSlot, NextPass, GiveUp, QuitGame,
       BeginRelease, Release, BeginGame, ReleaseIsTrue
  <2>2. ASSUME NEW s \in Slot, SlotStep(s)
        PROVE  phase' = phase
    BY <2>2 DEF SlotStep, FinishLoading, Wait, Receive, ClientGivesUp, Thread,
       CloseSlot, SlotIntro, CloseStranger, LobbyReceive, Accept, Leave, server
  <2> QED
    BY <1>b, <2>1, <2>2 DEF Next, SlotStep, ReleaseIsTrue
<1>2. released' => \A m \in Member : stage'[m] # "loading"
  <2> SUFFICES ASSUME released', NEW m \in Member
               PROVE  stage'[m] # "loading"
    OBVIOUS
  <2>1. m \in Slot
    OBVIOUS
  <2>2. CASE released
    BY <2>1, <2>2, NoNewLoading DEF ReleaseIsTrue
  <2>3. CASE ~released
    <3>1. BeginRelease
      BY <2>3 DEF Next, ServerStep, Cancel, BeginWait, VisitSlot, NextPass, GiveUp, QuitGame,
         BeginRelease, Release, BeginGame, FinishLoading, Wait, Receive, ClientGivesUp, Thread,
         CloseSlot, SlotIntro, CloseStranger, LobbyReceive, Accept, Leave, server
    <3>2. m < next
      BY <2>1, <3>1 DEF BeginRelease, Slot
    <3>3. stage[m] # "loading"
      BY <3>1, <3>2 DEF BeginRelease, PassIsTrue
    <3> QED
      BY <2>1, <3>3, NoNewLoading
  <2> QED
    BY <2>2, <2>3
<1>3. ASSUME NEW t \in Slot, NEW i \in 1 .. Len(toClient'[t]), toClient'[t][i] = "ready"
      PROVE  released'
  <2>1. CASE NextPass \/ QuitGame
    <3>1. PICK msg \in {"status", "quit"} :
              \/ toClient' = toClient
              \/ toClient'[t] = toClient[t]
              \/ toClient'[t] = Append(toClient[t], msg)
      BY <2>1 DEF NextPass, QuitGame, Broadcast
    <3>2. toClient[t] \in Seq(ClientMessage) /\ msg \in ClientMessage
      BY <1>a DEF ClientMessage
    <3>3. i \in 1 .. Len(toClient[t]) /\ toClient'[t][i] = toClient[t][i]
      <4>1. CASE toClient'[t] = toClient[t]
        BY <1>3, <4>1
      <4>2. CASE toClient'[t] = Append(toClient[t], msg)
        <5>1. /\ Len(toClient'[t]) = Len(toClient[t]) + 1
              /\ toClient'[t][Len(toClient[t]) + 1] = msg
          BY <3>2, <4>2
        <5>2. i # Len(toClient[t]) + 1
          BY <1>3, <5>1
        <5>3. i \in 1 .. Len(toClient[t])
          BY <3>2, <5>1, <5>2
        <5> QED
          BY <3>2, <4>2, <5>3
      <4> QED
        BY <3>1, <4>1, <4>2
    <3> QED
      BY <1>b, <1>3, <3>3 DEF ReleaseIsTrue
  <2>2. CASE Release
    BY <1>b, <2>2 DEF Release, ReleaseIsTrue
  <2>3. CASE UNCHANGED toClient
    BY <1>b, <1>3, <2>3 DEF ReleaseIsTrue
  <2>4. ASSUME NEW s \in Slot, SlotStep(s), toClient' # toClient
        PROVE  released'
    <3>1. \/ toClient[s] # <<>> /\ toClient' = [toClient EXCEPT ![s] = Tail(@)]
          \/ toClient' = [toClient EXCEPT ![s] = <<>>]
      BY <2>4 DEF SlotStep, FinishLoading, Wait, Receive, ClientGivesUp, Thread,
         CloseSlot, SlotIntro, CloseStranger, LobbyReceive, Accept, Leave
    <3>2. \E j \in 1 .. Len(toClient[t]) : toClient'[t][i] = toClient[t][j]
      <4>1. CASE toClient[s] # <<>> /\ toClient' = [toClient EXCEPT ![s] = Tail(@)]
        BY <1>a, <4>1, Taken
      <4>2. CASE toClient' = [toClient EXCEPT ![s] = <<>>]
        <5>1. CASE t = s
          BY <1>a, <4>2, <5>1
        <5>2. CASE t # s
          BY <1>a, <4>2, <5>2
        <5> QED
          BY <5>1, <5>2
      <4> QED
        BY <3>1, <4>1, <4>2
    <3> QED
      BY <1>b, <1>3, <3>2 DEF ReleaseIsTrue
  <2>5. CASE ServerStep \/ Cancel
    BY <2>1, <2>2, <2>3, <2>5 DEF ServerStep, Cancel, BeginWait, VisitSlot, GiveUp,
       BeginRelease, BeginGame
  <2> QED
    BY <2>3, <2>4, <2>5 DEF Next, SlotStep
<1> QED
  BY <1>1, <1>2, <1>3 DEF ReleaseIsTrue

LEMMA InvStep == Inv /\ [Next]_vars => Inv'
<1> SUFFICES ASSUME Inv, [Next]_vars PROVE Inv'
  OBVIOUS
<1>1. CASE Next
  BY <1>1, TypeStep, ConnectedStep, ReadyIsTrueStep, ReadyMeansLoadedStep,
     PassIsTrueStep, ReleaseIsTrueStep DEF Inv
<1>2. CASE UNCHANGED vars
  BY <1>2, TypeStep DEF vars, slots, clients, server, Inv, Connected, ReadyIsTrue,
     ReadyMeansLoaded, PassIsTrue, ReleaseIsTrue, Up
<1> QED
  BY <1>1, <1>2

\* The inductive invariant holds in every state of waitUntilReady.
THEOREM InvHolds == Spec => []Inv
  BY InvInit, InvStep, PTL DEF Spec

\* A slot counts as ready only when the client at its other end has said that
\* its world is loaded, whoever had the slot before.
THEOREM ReadyMeansLoadedHolds == Spec => []ReadyMeansLoaded
<1>1. Inv => ReadyMeansLoaded
  BY DEF Inv
<1> QED
  BY <1>1, InvHolds, PTL

-----------------------------------------------------------------------------
(***************************************************************************)
(* The wait implements the abstract barrier.                               *)
(***************************************************************************)

\* The place of a member whose client is at stage x.
PlaceOf(x) == CASE x = "loading" -> "coming"
                [] x = "waiting" -> "arrived"
                [] x = "playing" -> "passed"
                [] OTHER         -> "left"

LEMMA PlaceOfNobody == PlaceOf("gone") = "left" /\ PlaceOf("lobby") = "left"
  BY DEF PlaceOf

LEMMA GateInit == Init => Gate!Init
<1> SUFFICES ASSUME Init PROVE Gate!Init
  OBVIOUS
<1>1. \A m \in Member : stage[m] = "loading"
  BY DEF Init
<1>2. Where = [m \in Member |-> "coming"]
  BY <1>1 DEF Where
<1> QED
  BY <1>2 DEF Init, Gate!Init

\* What the abstract barrier sees when the client of one slot goes on.
LEMMA WhereStep ==
    ASSUME TypeOK, NEW s \in Slot, NEW x, stage' = [stage EXCEPT ![s] = x]
    PROVE  /\ s \in Member => Where' = [Where EXCEPT ![s] = PlaceOf(x)]
           /\ s \notin Member => Where' = Where
<1>1. ASSUME NEW m \in Member PROVE m # s => stage'[m] = stage[m]
  BY DEF TypeOK
<1>2. stage'[s] = x
  BY DEF TypeOK
<1>3. CASE s \in Member
  BY <1>1, <1>2, <1>3 DEF Where, PlaceOf
<1>4. CASE s \notin Member
  BY <1>1, <1>4 DEF Where
<1> QED
  BY <1>3, <1>4

LEMMA GateServer ==
    ASSUME Inv, ServerStep \/ Cancel
    PROVE  [Gate!Next]_(Gate!vars)
<1>1. stage' = stage
  BY DEF ServerStep, Cancel, BeginWait, VisitSlot, NextPass, GiveUp, QuitGame,
     BeginRelease, Release, BeginGame, clients
<1>2. Where' = Where
  BY <1>1 DEF Where
<1>3. CASE BeginRelease
  <2>1. \A m \in Member : stage[m] # "loading"
    <3> SUFFICES ASSUME NEW m \in Member PROVE stage[m] # "loading"
      OBVIOUS
    <3>1. m < next
      BY <1>3 DEF BeginRelease, Slot
    <3> QED
      BY <1>3, <3>1 DEF BeginRelease, Inv, PassIsTrue
  <2>2. \A m \in Member : Where[m] # "coming"
    BY <2>1 DEF Where
  <2> QED
    BY <1>2, <1>3, <2>2 DEF BeginRelease, Gate!Next, Gate!Open
<1>4. CASE ~BeginRelease
  <2>1. released' = released
    BY <1>4 DEF ServerStep, Cancel, BeginWait, VisitSlot, NextPass, GiveUp, QuitGame,
       Release, BeginGame
  <2> QED
    BY <1>2, <2>1 DEF Gate!vars
<1> QED
  BY <1>3, <1>4

LEMMA GateSlot ==
    ASSUME Inv, NEW s \in Slot, SlotStep(s)
    PROVE  [Gate!Next]_(Gate!vars)
<1>a. TypeOK
  BY DEF Inv
<1>b. released' = released
  BY DEF SlotStep, FinishLoading, Wait, Receive, ClientGivesUp, Thread, CloseSlot,
     SlotIntro, CloseStranger, LobbyReceive, Accept, Leave, server
<1>1. CASE stage' = stage
  BY <1>b, <1>1 DEF Where, Gate!vars
<1>2. CASE stage' = [stage EXCEPT ![s] = "gone"]
  <2>1. CASE s \in Member
    <3>1. Where' = [Where EXCEPT ![s] = "left"]
      <4>1. Where' = [Where EXCEPT ![s] = PlaceOf("gone")]
        BY <1>a, <1>2, <2>1, WhereStep
      <4> QED
        BY <4>1, PlaceOfNobody
    <3> QED
      BY <1>b, <2>1, <3>1 DEF Gate!Next, Gate!Leave
  <2>2. CASE s \notin Member
    BY <1>a, <1>b, <1>2, <2>2, WhereStep DEF Gate!vars
  <2> QED
    BY <2>1, <2>2
<1>3. CASE FinishLoading(s)
  <2>1. stage[s] = "loading" /\ stage' = [stage EXCEPT ![s] = "waiting"]
    BY <1>3 DEF FinishLoading
  <2>2. CASE s \in Member
    <3>1. Where[s] = "coming" /\ Where' = [Where EXCEPT ![s] = "arrived"]
      BY <1>a, <2>1, <2>2, WhereStep DEF Where, PlaceOf
    <3> QED
      BY <1>b, <2>2, <3>1 DEF Gate!Next, Gate!Arrive
  <2>3. CASE s \notin Member
    BY <1>a, <1>b, <2>1, <2>3, WhereStep DEF Gate!vars
  <2> QED
    BY <2>2, <2>3
<1>4. CASE Receive(s) /\ Head(toClient[s]) = "ready" /\ stage' = [stage EXCEPT ![s] = "playing"]
  <2>1. stage[s] = "waiting" /\ toClient[s] # <<>>
    BY <1>4 DEF Receive
  <2>2. 1 \in 1 .. Len(toClient[s]) /\ toClient[s][1] = "ready"
    BY <1>a, <1>4, <2>1 DEF TypeOK
  <2>3. released
    BY <2>2 DEF Inv, ReleaseIsTrue
  <2>4. CASE s \in Member
    <3>1. Where[s] = "arrived" /\ Where' = [Where EXCEPT ![s] = "passed"]
      BY <1>a, <1>4, <2>1, <2>4, WhereStep DEF Where, PlaceOf
    <3> QED
      BY <1>b, <2>3, <2>4, <3>1 DEF Gate!Next, Gate!Pass
  <2>5. CASE s \notin Member
    BY <1>a, <1>b, <1>4, <2>5, WhereStep DEF Gate!vars
  <2> QED
    BY <2>4, <2>5
<1>5. CASE Accept(s)
  <2>1. stage[s] = "gone" /\ stage' = [stage EXCEPT ![s] = "lobby"]
    BY <1>5 DEF Accept, Inv, Connected, Up
  <2>2. CASE s \in Member
    <3>1. Where' = [Where EXCEPT ![s] = "left"]
      <4>1. Where' = [Where EXCEPT ![s] = PlaceOf("lobby")]
        BY <1>a, <2>1, <2>2, WhereStep
      <4> QED
        BY <4>1, PlaceOfNobody
    <3> QED
      BY <1>b, <2>2, <3>1 DEF Gate!Next, Gate!Leave
  <2>3. CASE s \notin Member
    BY <1>a, <1>b, <2>1, <2>3, WhereStep DEF Gate!vars
  <2> QED
    BY <2>2, <2>3
<1> QED
  BY <1>1, <1>2, <1>3, <1>4, <1>5 DEF SlotStep, Wait, Receive, ClientGivesUp, Thread,
     CloseSlot, SlotIntro, CloseStranger, LobbyReceive, Leave, HangUp, clients

\* "send ready message after, so clients start delayed": with any number of
\* slots, members that leave, newcomers that take their places, a server that
\* gives up or is cancelled, no member plays before every member has loaded its
\* world or is gone.
THEOREM BarrierImplemented == Spec => ImplementsBarrier
<1>1. Inv /\ [Next]_vars => [Gate!Next]_(Gate!vars)
  <2> SUFFICES ASSUME Inv, [Next]_vars PROVE [Gate!Next]_(Gate!vars)
    OBVIOUS
  <2>1. CASE UNCHANGED vars
    BY <2>1 DEF vars, clients, server, Where, Gate!vars
  <2> QED
    BY <2>1, GateServer, GateSlot DEF Next, SlotStep
<1> QED
  BY <1>1, GateInit, InvHolds, PTL DEF Spec, ImplementsBarrier, Gate!Spec
=============================================================================
