---------------------------- MODULE SlotThreads ----------------------------
(***************************************************************************)
(* The server's main thread and the threads of its connection slots.  In   *)
(* the lobby the main thread signals a slot's thread when there is         *)
(* something to read, waits for it, but not for ever, and then relays what *)
(* the clients have written.  While the game loads it reads the sockets    *)
(* itself, to hear that the clients are ready; once it has started each    *)
(* slot's thread reads on its own.  A slot that may be joined in the game  *)
(* is served by its thread alone.                                          *)
(*                                                                         *)
(* Abstractions.                                                           *)
(*   - A client sends its introduction, texts, its ready and commands; the *)
(*     rest of the handshake is InGameJoin's and the lobby's.  Cell marks  *)
(*     go the way of texts.                                                *)
(*   - Completed events that nothing refers to any more are forgotten and  *)
(*     their numbers used again.                                           *)
(*   - The main thread visits the slots in any order.                      *)
(*   - A slot is not removed or switched while it is looked at; the way    *)
(*     with the thread manager (EnableNewThreadManager) is not modelled.   *)
(*   - The game is not ended, nor the wait for the clients given up.       *)
(***************************************************************************)
EXTENDS Naturals, Sequences, SequencesExt, FiniteSets, Lists

CONSTANTS Slot,
          MaxKnocks,  \* bound on the clients that connect
          MaxTexts,   \* bound on the texts a client sends
          MaxCommands,\* bound on its commands
          MaxEvents,  \* bound on the events in a slot's list
          None

ASSUME BoundsAssumption ==
    /\ {MaxKnocks, MaxTexts, MaxCommands, MaxEvents} \subseteq Nat
    /\ MaxEvents > 0
    /\ None \notin Slot

ASSUME SlotAssumption == IsFiniteSet(Slot)

VARIABLES
    allow,    \* allowInGameConnections
    phase,    \* how far the game has come
    backlog,  \* clients waiting at the server's socket
    knocks,   \* clients that have connected so far
    link,     \* of each slot: no socket, a connected one or one that is not
    who,      \* the client that has it
    said,     \* what that client has sent: its introduction, its ready
    sent,     \* how many texts and commands
    inbox,    \* what it has sent and nobody has read
    intro,    \* gotIntro, and joinGameInProgress
    ready,    \* the client has loaded the game
    chat,     \* chatTextList
    pending,  \* vctPendingNetworkCommandList
    events,   \* eventList of the slot's thread
    sem,      \* semTaskSignalled
    started,  \* gameStarted of the thread
    pc,       \* where the thread is
    task,     \* the event it is at
    main,     \* where the main thread is
    at,       \* the slot whose mutex it holds while it relays texts
    todo,     \* the slots it has not relayed yet
    awaited,  \* the event it waits for, by slot
    given,    \* the commands requested, in order
    late,     \* it has once not waited to the end
    lost,     \* a text of a connected client was cleared before it was relayed
    hungUp    \* the slots whose connection the main thread has closed in the game

clients == <<allow, knocks, who, said, sent>>
lists   == <<chat, pending, given, lost>>
server  == <<phase, main, at, todo, awaited, late>>
thread  == <<pc, task>>
vars == <<allow, phase, backlog, knocks, link, who, said, sent, inbox, intro, ready, chat, pending,
          events, sem, started, pc, task, main, at, todo, awaited, given, late, lost, hungUp>>

NoTask == [id |-> 0, trig |-> FALSE]

Text == [kind : {"text"}, from : 1 .. MaxKnocks, n : 1 .. MaxTexts]
Order == [kind : {"command"}, from : 1 .. MaxKnocks, n : 1 .. MaxCommands]
Sign == [kind : {"intro", "ready"}, from : 1 .. MaxKnocks, n : {0}]
Message == Text \cup Order \cup Sign

Event == [id : Nat, trig : BOOLEAN, done : BOOLEAN]

\* gameHasBeenInitiated
Initiated == phase \in {"loading", "game"}

-----------------------------------------------------------------------------
(* The list of events of a slot's thread. *)

ToDo == {e \in Event : ~e.done}

Waiting(s) == Among(events[s], ToDo)

NewId(s) ==
    LET used == {task[s].id, awaited[s]} \cup {e.id : e \in Range(events[s])}
    IN  CHOOSE i \in 1 .. MaxEvents + 3 :
           i \notin used /\ \A j \in 1 .. i - 1 : j \in used

SetTaskCompleted(es, id) == [i \in DOMAIN es |-> IF es[i].id = id
                                                    THEN [es[i] EXCEPT !.done = TRUE]
                                                    ELSE es[i]]

SetAllEventsCompleted(es) == [i \in DOMAIN es |-> [es[i] EXCEPT !.done = TRUE]]

PurgeCompletedEvents(es) == Among(es, ToDo)

IsSignalCompleted(s) == \E e \in Range(events[s]) : e.id = awaited[s] /\ e.done

\* Mutant of SetGameStarted: the thread is not woken.
SetGameStartedAsleep(S) ==
    /\ started' = [s \in Slot |-> started[s] \/ s \in S]
    /\ sem' = sem

SetGameStarted(S) ==
    /\ started' = [s \in Slot |-> started[s] \/ s \in S]
    /\ sem' = [s \in Slot |-> IF s \in S /\ ~started[s] THEN sem[s] + 1 ELSE sem[s]]

-----------------------------------------------------------------------------
Init ==
    /\ allow \in BOOLEAN
    /\ phase = "lobby"
    /\ backlog = 0
    /\ knocks = 0
    /\ link = [s \in Slot |-> "none"]
    /\ who = [s \in Slot |-> 0]
    /\ said = [s \in Slot |-> "nothing"]
    /\ sent = [s \in Slot |-> [text |-> 0, command |-> 0]]
    /\ inbox = [s \in Slot |-> << >>]
    /\ intro = [s \in Slot |-> "no"]
    /\ ready = [s \in Slot |-> FALSE]
    /\ chat = [s \in Slot |-> << >>]
    /\ pending = [s \in Slot |-> << >>]
    /\ events = [s \in Slot |-> << >>]
    /\ sem = [s \in Slot |-> 0]
    /\ started = [s \in Slot |-> FALSE]
    /\ pc = [s \in Slot |-> "top"]
    /\ task = [s \in Slot |-> NoTask]
    /\ main = "idle"
    /\ at = None
    /\ todo = {}
    /\ awaited = [s \in Slot |-> 0]
    /\ given = << >>
    /\ late = FALSE
    /\ lost = FALSE
    /\ hungUp = {}

-----------------------------------------------------------------------------
(* Clients. *)

Knock ==
    /\ knocks < MaxKnocks
    /\ knocks' = knocks + 1
    /\ backlog' = backlog + 1
    /\ UNCHANGED <<allow, phase, link, who, said, sent, inbox, intro, ready, events, sem, started,
                   hungUp, lists, main, at, todo, awaited, late, thread>>

Send(s, m) ==
    /\ link[s] = "up"
    /\ inbox' = [inbox EXCEPT ![s] = Append(@, m)]
    /\ UNCHANGED <<allow, backlog, knocks, link, who, intro, ready, events, sem, started, hungUp,
                   lists, server, thread>>

SendIntro(s) ==
    /\ said[s] = "nothing"
    /\ said' = [said EXCEPT ![s] = "intro"]
    /\ Send(s, [kind |-> "intro", from |-> who[s], n |-> 0])
    /\ UNCHANGED sent

SendText(s) ==
    /\ said[s] # "nothing"
    /\ sent[s].text < MaxTexts
    /\ sent' = [sent EXCEPT ![s].text = @ + 1]
    /\ Send(s, [kind |-> "text", from |-> who[s], n |-> sent'[s].text])
    /\ UNCHANGED said

\* It has been told to launch the game and has loaded it; or, while the game is on, it
\* has loaded the save.
SendReady(s) ==
    /\ said[s] = "intro"
    /\ phase # "lobby"
    /\ said' = [said EXCEPT ![s] = "ready"]
    /\ Send(s, [kind |-> "ready", from |-> who[s], n |-> 0])
    /\ UNCHANGED sent

SendCommand(s) ==
    /\ said[s] = "ready"
    /\ phase = "game"
    /\ sent[s].command < MaxCommands
    /\ sent' = [sent EXCEPT ![s].command = @ + 1]
    /\ Send(s, [kind |-> "command", from |-> who[s], n |-> sent'[s].command])
    /\ UNCHANGED said

\* The client's connection breaks: what was not read is lost.
PeerGone(s) ==
    /\ link[s] = "up"
    /\ link' = [link EXCEPT ![s] = "down"]
    /\ inbox' = [inbox EXCEPT ![s] = << >>]
    /\ UNCHANGED <<clients, backlog, intro, ready, events, sem, started, hungUp, lists, server,
                   thread>>

-----------------------------------------------------------------------------
(* The thread of a slot. *)

Goto(s, l) == pc' = [pc EXCEPT ![s] = l]

\* Nobody else holds the mutex of the slot.
Unlocked(s) == at # s

IsConnected(s) == link[s] = "up"

\* Nobody has the slot and the game may be joined: it looks for a client by itself.
\* Otherwise it takes its turn in the game, or waits for a signal before.
Top(s) ==
    /\ pc[s] = "top"
    /\ Unlocked(s)
    /\ task' = [task EXCEPT ![s] = NoTask]
    /\ Goto(s, IF allow /\ ~IsConnected(s) THEN "task"
               ELSE IF started[s] THEN "turn" ELSE "wait")
    /\ UNCHANGED <<clients, backlog, link, inbox, intro, ready, events, sem, started, hungUp, lists,
                   server>>

\* In the game: without a socket the thread ends.
Turn(s) ==
    /\ pc[s] = "turn"
    /\ Unlocked(s)
    /\ Goto(s, IF link[s] = "none" THEN "exit" ELSE "select")
    /\ UNCHANGED <<clients, backlog, link, inbox, intro, ready, events, sem, started, hungUp, lists,
                   server, task>>

\* It waits for data, or an end of data, but not for ever.
Select(s) ==
    /\ pc[s] = "select"
    /\ Unlocked(s)
    /\ task' = [task EXCEPT ![s] = [id |-> 0, trig |-> link[s] = "down" \/ inbox[s] # << >>]]
    /\ Goto(s, "task")
    /\ UNCHANGED <<clients, backlog, link, inbox, intro, ready, events, sem, started, hungUp, lists,
                   server>>

\* Before the game: it has been signalled and takes the first event that is not done.
Wake(s) ==
    /\ pc[s] = "wait"
    /\ sem[s] > 0
    /\ sem' = [sem EXCEPT ![s] = @ - 1]
    /\ IF started[s] \/ Waiting(s) = << >>
          THEN Goto(s, "top") /\ task' = task
          ELSE /\ Goto(s, "task")
               /\ task' = [task EXCEPT ![s] = [id |-> Waiting(s)[1].id,
                                               trig |-> Waiting(s)[1].trig]]
    /\ UNCHANGED <<clients, backlog, link, inbox, intro, ready, events, started, hungUp, lists,
                   server>>

\* Mutant of CheckForNewClients: nobody is let in once the game has been initiated.
CheckForNewClientsInLobby == ~Initiated

CheckForNewClients == ~Initiated \/ allow

\* updateSlot: there is data, or nobody has the slot and it may be taken.
MustUpdate(s) == task[s].trig \/ (CheckForNewClients /\ ~IsConnected(s))

NothingToUpdate(s) ==
    /\ pc[s] = "task"
    /\ ~MustUpdate(s)
    /\ Goto(s, "done")
    /\ UNCHANGED <<clients, backlog, link, inbox, intro, ready, events, sem, started, hungUp, lists,
                   server, task>>

\* Mutant of Accept: it does not look whether a client waits.
AcceptAnyway(s) ==
    /\ pc[s] = "task"
    /\ MustUpdate(s)
    /\ link[s] = "none"
    /\ CheckForNewClients
    /\ backlog' = backlog - 1
    /\ link' = [link EXCEPT ![s] = "up"]
    /\ who' = [who EXCEPT ![s] = knocks]
    /\ said' = [said EXCEPT ![s] = "nothing"]
    /\ sent' = [sent EXCEPT ![s] = [text |-> 0, command |-> 0]]
    /\ intro' = [intro EXCEPT ![s] = "no"]
    /\ ready' = [ready EXCEPT ![s] = FALSE]
    /\ chat' = [chat EXCEPT ![s] = << >>]
    /\ pending' = [pending EXCEPT ![s] = << >>]
    /\ events' = [events EXCEPT ![s] = PurgeCompletedEvents(@)]
    /\ SetGameStarted(IF Initiated THEN {s} ELSE {})
    /\ Goto(s, "done")
    /\ UNCHANGED <<allow, knocks, inbox, hungUp, given, lost, server, task>>

\* A client waits at the server's socket: it is this slot's from now on.
Accept(s) ==
    /\ pc[s] = "task"
    /\ MustUpdate(s)
    /\ link[s] = "none"
    /\ CheckForNewClients
    /\ backlog > 0
    /\ backlog' = backlog - 1
    /\ link' = [link EXCEPT ![s] = "up"]
    /\ who' = [who EXCEPT ![s] = knocks - backlog + 1]
    /\ said' = [said EXCEPT ![s] = "nothing"]
    /\ sent' = [sent EXCEPT ![s] = [text |-> 0, command |-> 0]]
    /\ intro' = [intro EXCEPT ![s] = "no"]
    /\ ready' = [ready EXCEPT ![s] = FALSE]
    /\ chat' = [chat EXCEPT ![s] = << >>]
    /\ pending' = [pending EXCEPT ![s] = << >>]
    /\ events' = [events EXCEPT ![s] = PurgeCompletedEvents(@)]
    /\ SetGameStarted(IF Initiated THEN {s} ELSE {})
    /\ Goto(s, "done")
    /\ UNCHANGED <<allow, knocks, inbox, hungUp, given, lost, server, task>>

NobodyToAccept(s) ==
    /\ pc[s] = "task"
    /\ MustUpdate(s)
    /\ link[s] = "none"
    /\ ~CheckForNewClients \/ backlog = 0
    /\ events' = [events EXCEPT ![s] = PurgeCompletedEvents(@)]
    /\ Goto(s, "done")
    /\ UNCHANGED <<clients, backlog, link, inbox, intro, ready, sem, started, hungUp, lists, server,
                   task>>

\* close, with es the slot's events
Close(s, es) ==
    /\ link' = [link EXCEPT ![s] = "none"]
    /\ inbox' = [inbox EXCEPT ![s] = << >>]
    /\ intro' = [intro EXCEPT ![s] = "no"]
    /\ ready' = [ready EXCEPT ![s] = FALSE]
    /\ events' = [events EXCEPT ![s] = SetAllEventsCompleted(es)]

\* The client has gone: the slot is closed.
CloseSlot(s) ==
    /\ pc[s] = "task"
    /\ MustUpdate(s)
    /\ link[s] = "down"
    /\ Close(s, PurgeCompletedEvents(events[s]))
    /\ Goto(s, "done")
    /\ UNCHANGED <<clients, backlog, sem, started, hungUp, lists, server, task>>

\* The client is there: what is left of its texts is cleared, then its socket is read.
BeginRead(s) ==
    /\ pc[s] = "task"
    /\ MustUpdate(s)
    /\ IsConnected(s)
    /\ events' = [events EXCEPT ![s] = PurgeCompletedEvents(@)]
    /\ lost' = (lost \/ chat[s] # << >>)
    /\ chat' = [chat EXCEPT ![s] = << >>]
    /\ Goto(s, "read")
    /\ UNCHANGED <<clients, backlog, link, inbox, intro, ready, sem, started, hungUp, pending, given,
                   server, task>>

\* Messages are read until there are none or one is no text.
Read(s) ==
    LET m == Head(inbox[s])
    IN  /\ pc[s] = "read"
        /\ IsConnected(s)
        /\ inbox[s] # << >>
        /\ m.kind \in {"text", "command"} => intro[s] # "no"
        /\ inbox' = [inbox EXCEPT ![s] = Tail(@)]
        /\ chat' = [chat EXCEPT ![s] = IF m.kind = "text" THEN Append(@, m) ELSE @]
        /\ pending' = [pending EXCEPT ![s] = IF m.kind = "command" THEN Append(@, m) ELSE @]
        /\ CASE m.kind = "intro" ->
                  /\ intro' = [intro EXCEPT ![s] = IF Initiated THEN "join" ELSE "yes"]
                  /\ ready' = [ready EXCEPT ![s] = @ /\ ~Initiated]
                  /\ SetGameStarted({})
             [] m.kind = "ready" /\ intro[s] = "join" ->
                  /\ intro' = [intro EXCEPT ![s] = "yes"]
                  /\ ready' = [ready EXCEPT ![s] = TRUE]
                  /\ SetGameStarted({s})
             [] OTHER ->
                  /\ intro' = intro
                  /\ ready' = ready
                  /\ SetGameStarted({})
        /\ Goto(s, IF m.kind = "text" THEN "read" ELSE "done")
        /\ UNCHANGED <<clients, backlog, link, events, hungUp, given, lost, server, task>>

\* The introduction is not accepted, or is missing.
Refuse(s) ==
    /\ pc[s] = "read"
    /\ IsConnected(s)
    /\ inbox[s] # << >>
    /\ \/ Head(inbox[s]).kind = "intro"
       \/ Head(inbox[s]).kind \in {"text", "command"} /\ intro[s] = "no"
    /\ Close(s, events[s])
    /\ Goto(s, "done")
    /\ UNCHANGED <<clients, backlog, sem, started, hungUp, lists, server, task>>

EndRead(s) ==
    /\ pc[s] = "read"
    /\ ~IsConnected(s) \/ inbox[s] = << >>
    /\ Goto(s, "done")
    /\ UNCHANGED <<clients, backlog, link, inbox, intro, ready, events, sem, started, hungUp, lists,
                   server, task>>

TaskDone(s) ==
    /\ pc[s] = "done"
    /\ events' = [events EXCEPT ![s] =
                    IF task[s].id > 0 THEN SetTaskCompleted(@, task[s].id) ELSE @]
    /\ task' = [task EXCEPT ![s] = NoTask]
    /\ Goto(s, "top")
    /\ UNCHANGED <<clients, backlog, link, inbox, intro, ready, sem, started, hungUp, lists, server>>

Thread(s) ==
    \/ Top(s)
    \/ Turn(s)
    \/ Select(s)
    \/ Wake(s)
    \/ NothingToUpdate(s)
    \/ Accept(s)
    \/ NobodyToAccept(s)
    \/ CloseSlot(s)
    \/ BeginRead(s)
    \/ Read(s)
    \/ Refuse(s)
    \/ EndRead(s)
    \/ TaskDone(s)

-----------------------------------------------------------------------------
(* The main thread. *)

\* A client that does not introduce itself, or lags too far behind in the game, is
\* disconnected.
HangUp(s) ==
    /\ main = "idle"
    /\ IsConnected(s)
    /\ phase = "game" \/ (phase = "lobby" /\ intro[s] = "no")
    /\ Close(s, events[s])
    /\ hungUp' = IF phase = "game" THEN hungUp \cup {s} ELSE hungUp
    /\ UNCHANGED <<clients, backlog, sem, started, lists, server, thread>>

HasData(s) == IsConnected(s) /\ inbox[s] # << >>

\* A slot is signalled when there is data for it, or nobody has it.
Signalled == {s \in Slot : (HasData(s) \/ ~IsConnected(s)) /\ Len(Waiting(s)) < MaxEvents}

\* Mutant of SignalClients: a thread is not signalled while it has an event to do.
SignalClientsOnce ==
    /\ main = "idle"
    /\ phase = "lobby"
    /\ events' = [s \in Slot |->
                     IF s \in Signalled
                        THEN Append(Waiting(s), [id |-> NewId(s), trig |-> HasData(s),
                                                 done |-> FALSE])
                        ELSE Waiting(s)]
    /\ sem' = [s \in Slot |-> IF s \in Signalled /\ Waiting(s) = << >>
                                 THEN sem[s] + 1 ELSE sem[s]]
    /\ awaited' = [s \in Slot |-> IF s \in Signalled /\ HasData(s) THEN NewId(s) ELSE 0]
    /\ main' = "wait"
    /\ UNCHANGED <<clients, phase, backlog, link, inbox, intro, ready, started, hungUp, lists, at,
                   todo, late, thread>>

\* Step 1 of an update: tell the threads to receive.
SignalClients ==
    /\ main = "idle"
    /\ phase = "lobby"
    /\ events' = [s \in Slot |->
                     IF s \in Signalled
                        THEN Append(Waiting(s), [id |-> NewId(s), trig |-> HasData(s),
                                                 done |-> FALSE])
                        ELSE Waiting(s)]
    /\ sem' = [s \in Slot |-> IF s \in Signalled THEN sem[s] + 1 ELSE sem[s]]
    /\ awaited' = [s \in Slot |-> IF s \in Signalled /\ HasData(s) THEN NewId(s) ELSE 0]
    /\ main' = "wait"
    /\ UNCHANGED <<clients, phase, backlog, link, inbox, intro, ready, started, hungUp, lists, at,
                   todo, late, thread>>

\* The slots the main thread waits for.
Outstanding == {s \in Slot : IsConnected(s) /\ awaited[s] # 0 /\ ~IsSignalCompleted(s)}

\* Step 2: a thread is done.
SeeCompleted(s) ==
    /\ main = "wait"
    /\ awaited[s] # 0
    /\ IsConnected(s)
    /\ IsSignalCompleted(s)
    /\ awaited' = [awaited EXCEPT ![s] = 0]
    /\ UNCHANGED <<clients, phase, backlog, link, inbox, intro, ready, events, sem, started, hungUp,
                   lists, main, at, todo, late, thread>>

EndWait ==
    /\ awaited' = [s \in Slot |-> 0]
    /\ main' = "chat"
    /\ todo' = Slot
    /\ UNCHANGED <<clients, phase, backlog, link, inbox, intro, ready, events, sem, started, hungUp,
                   lists, at, thread>>

\* Mutant of AllCompleted: it does not wait.
AllCompletedAtOnce == main = "wait" /\ late' = late /\ EndWait

AllCompleted == main = "wait" /\ Outstanding = {} /\ late' = late /\ EndWait

\* MAX_SLOT_THREAD_WAIT_TIME_MILLISECONDS have passed.
WaitTooLong ==
    /\ main = "wait"
    /\ Outstanding # {}
    /\ late' = TRUE
    /\ EndWait

\* Mutant of ExecuteNetworkCommands: the lists are taken from their end, as a client takes
\* its own.
ExecuteNetworkCommandsFromTheEnd ==
    LET order == SetToSeq(Slot)
        Taken(s) == IF IsConnected(s) THEN Reverse(pending[s]) ELSE << >>
    IN  /\ main = "idle"
        /\ phase = "game"
        /\ \E s \in Slot : link[s] # "none"
        /\ given' = given \o FlattenSeq([i \in 1 .. Len(order) |-> Taken(order[i])])
        /\ pending' = [s \in Slot |-> IF IsConnected(s) THEN << >> ELSE pending[s]]
        /\ main' = "chat"
        /\ todo' = Slot
        /\ UNCHANGED <<clients, phase, backlog, link, inbox, intro, ready, chat, events, sem, started,
                       hungUp, lost, at, awaited, late, thread>>

\* Step 4, in the game: the commands the threads have read are requested.
ExecuteNetworkCommands ==
    LET order == SetToSeq(Slot)
        Taken(s) == IF IsConnected(s) THEN pending[s] ELSE << >>
    IN  /\ main = "idle"
        /\ phase = "game"
        /\ \E s \in Slot : link[s] # "none"
        /\ given' = given \o FlattenSeq([i \in 1 .. Len(order) |-> Taken(order[i])])
        /\ pending' = [s \in Slot |-> IF IsConnected(s) THEN << >> ELSE pending[s]]
        /\ main' = "chat"
        /\ todo' = Slot
        /\ UNCHANGED <<clients, phase, backlog, link, inbox, intro, ready, chat, events, sem, started,
                       hungUp, lost, at, awaited, late, thread>>

\* Step 5: a slot has texts; they are taken and sent to everybody while its mutex is
\* held, ...
TakeTexts(s) ==
    /\ main = "chat"
    /\ s \in todo
    /\ chat[s] # << >>
    /\ chat' = [chat EXCEPT ![s] = << >>]
    /\ todo' = todo \ {s}
    /\ at' = s
    /\ main' = "relay"
    /\ UNCHANGED <<clients, phase, backlog, link, inbox, intro, ready, events, sem, started, hungUp,
                   pending, given, lost, awaited, late, thread>>

\* ... and what has come in the meantime is cleared.
ClearTexts(s) ==
    /\ main = "relay"
    /\ at = s
    /\ lost' = (lost \/ (chat[s] # << >> /\ IsConnected(s)))
    /\ chat' = [chat EXCEPT ![s] = << >>]
    /\ at' = None
    /\ main' = "chat"
    /\ UNCHANGED <<clients, phase, backlog, link, inbox, intro, ready, events, sem, started, hungUp,
                   pending, given, todo, awaited, late, thread>>

NoTexts(s) ==
    /\ main = "chat"
    /\ s \in todo
    /\ chat[s] = << >>
    /\ todo' = todo \ {s}
    /\ UNCHANGED <<clients, phase, backlog, link, inbox, intro, ready, events, sem, started, hungUp,
                   lists, main, at, awaited, late, thread>>

UpdateDone ==
    /\ main = "chat"
    /\ todo = {}
    /\ main' = "idle"
    /\ UNCHANGED <<clients, phase, backlog, link, inbox, intro, ready, events, sem, started, hungUp,
                   lists, at, todo, awaited, late, thread>>

\* The player starts the game: it is loaded, and then the clients are waited for.
LaunchGame ==
    /\ main = "idle"
    /\ phase = "lobby"
    /\ phase' = "launched"
    /\ UNCHANGED <<clients, backlog, link, inbox, intro, ready, events, sem, started, hungUp, lists,
                   main, at, todo, awaited, late, thread>>

GameInitiated ==
    /\ phase = "launched"
    /\ phase' = "loading"
    /\ UNCHANGED <<clients, backlog, link, inbox, intro, ready, events, sem, started, hungUp, lists,
                   main, at, todo, awaited, late, thread>>

\* waitUntilReady reads a slot's socket: texts are relayed, the rest is thrown away until
\* the client is ready.
ReceiveWhileLoading(s) ==
    LET m == Head(inbox[s])
    IN  /\ phase = "loading"
        /\ ~ready[s]
        /\ HasData(s)
        /\ inbox' = [inbox EXCEPT ![s] = Tail(@)]
        /\ ready' = [ready EXCEPT ![s] = @ \/ m.kind = "ready"]
        /\ SetGameStarted(IF m.kind = "ready" THEN {s} ELSE {})
        /\ UNCHANGED <<clients, backlog, link, intro, events, hungUp, lists, server, thread>>

\* All that are connected are ready.
StartGame ==
    /\ phase = "loading"
    /\ \A s \in Slot : IsConnected(s) => ready[s]
    /\ phase' = "game"
    /\ SetGameStarted({s \in Slot : IsConnected(s)})
    /\ UNCHANGED <<clients, backlog, link, inbox, intro, ready, events, hungUp, lists, main, at, todo,
                   awaited, late, thread>>

Server ==
    \/ SignalClients
    \/ \E s \in Slot : SeeCompleted(s)
    \/ AllCompleted
    \/ WaitTooLong
    \/ ExecuteNetworkCommands
    \/ \E s \in Slot : TakeTexts(s)
    \/ \E s \in Slot : ClearTexts(s)
    \/ \E s \in Slot : NoTexts(s)
    \/ UpdateDone
    \/ GameInitiated
    \/ \E s \in Slot : ReceiveWhileLoading(s)
    \/ StartGame

Client(s) ==
    \/ SendIntro(s)
    \/ SendText(s)
    \/ SendReady(s)
    \/ SendCommand(s)
    \/ PeerGone(s)

Next ==
    \/ \E s \in Slot : Thread(s)
    \/ \E s \in Slot : Client(s)
    \/ \E s \in Slot : HangUp(s)
    \/ Knock
    \/ LaunchGame
    \/ Server

Spec == Init /\ [][Next]_vars

\* The operating system lets every thread run and the main loop comes round again; what
\* is waited for too long is not waited for any more.  A client introduces itself and
\* gets ready, unless it is lost.
FairSpec ==
    /\ Spec
    /\ WF_vars(Server)
    /\ \A s \in Slot : WF_vars(Thread(s))
    /\ \A s \in Slot : WF_vars(SendIntro(s) \/ SendReady(s))

-----------------------------------------------------------------------------
(* Properties. *)

TypeOK ==
    /\ allow \in BOOLEAN
    /\ phase \in {"lobby", "launched", "loading", "game"}
    /\ backlog \in 0 .. knocks
    /\ knocks \in 0 .. MaxKnocks
    /\ link \in [Slot -> {"none", "up", "down"}]
    /\ who \in [Slot -> 0 .. MaxKnocks]
    /\ said \in [Slot -> {"nothing", "intro", "ready"}]
    /\ sent \in [Slot -> [text : 0 .. MaxTexts, command : 0 .. MaxCommands]]
    /\ inbox \in [Slot -> Seq(Message)]
    /\ intro \in [Slot -> {"no", "join", "yes"}]
    /\ ready \in [Slot -> BOOLEAN]
    /\ chat \in [Slot -> Seq(Text)]
    /\ pending \in [Slot -> Seq(Order)]
    /\ \A s \in Slot : events[s] \in Seq(Event) /\ Len(events[s]) <= MaxEvents
    /\ sem \in [Slot -> Nat]
    /\ started \in [Slot -> BOOLEAN]
    /\ pc \in [Slot -> {"top", "wait", "turn", "select", "task", "read", "done", "exit"}]
    /\ task \in [Slot -> [id : Nat, trig : BOOLEAN]]
    /\ main \in {"idle", "wait", "chat", "relay"}
    /\ at \in Slot \cup {None}
    /\ todo \subseteq Slot
    /\ awaited \in [Slot -> Nat]
    /\ given \in Seq(Order)
    /\ late \in BOOLEAN
    /\ lost \in BOOLEAN
    /\ hungUp \subseteq Slot

\* The commands of a client are requested in the order in which it gave them, none twice
\* and none left out, however its slot's thread and the main thread interleave.
CommandsAreGivenInOrder ==
    \A i \in DOMAIN given :
        LET before == {j \in 1 .. i - 1 : given[j].from = given[i].from}
        IN  {given[j].n : j \in before} = 1 .. given[i].n - 1

\* In the lobby a text that a thread has read from a client that is still there is
\* relayed before it is cleared, if the main thread has waited for the threads.
TextsAreRelayed == lost => late \/ Initiated

\* Before the game a thread that waits is signalled for every event that is not done.
EventsAreSignalled ==
    \A s \in Slot :
        pc[s] = "wait" /\ ~started[s] => Len(Waiting(s)) <= sem[s]

Open(s) == ~IsConnected(s) /\ (allow \/ ~Initiated)

\* The thread waits for a signal when there are no more, or has ended because the server
\* itself has closed the connection.
Abandoned(s) ==
    \/ pc[s] = "exit" /\ s \in hungUp
    \/ pc[s] = "wait" /\ Initiated /\ sem[s] = 0

\* A client that knocks is let in, in the lobby and in a game that may be joined, while
\* there is a slot open whose thread has not been left asleep or without a connection.
KnockIsAnswered ==
    \A s \in Slot : (backlog > 0 /\ Open(s)) ~> (backlog = 0 \/ ~Open(s) \/ Abandoned(s))

\* In a game nobody may join the wait for the clients ends, unless a thread still had an
\* event of the lobby to do when it began; and what a client sends in a game is read.
GameIsRead ==
    /\ (phase = "loading" /\ ~late /\ ~allow) ~> (phase = "game")
    /\ \A s \in Slot : (phase = "game" /\ HasData(s)) ~> (inbox[s] = << >>)
=============================================================================
