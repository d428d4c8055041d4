------------------------- MODULE SlotThreadsProofs -------------------------
(***************************************************************************)
(* Proofs about SlotThreads, for any finite set of slots and any number of *)
(* clients, texts and commands: types, signals of the events, texts and    *)
(* commands, each with an invariant of its own on top of the types.        *)
(***************************************************************************)
EXTENDS SlotThreads, ListLemmas, FiniteSetTheorems

Pc == {"top", "wait", "turn", "select", "task", "read", "done", "exit"}

\* The types of the variables; a slot with a client knows which one it is.
Types ==
    /\ allow \in BOOLEAN
    /\ phase \in {"lobby", "launched", "loading", "game"}
    /\ knocks \in 0 .. MaxKnocks
    /\ backlog \in 0 .. knocks
    /\ link \in [Slot -> {"none", "up", "down"}]
    /\ who \in [Slot -> 0 .. MaxKnocks]
    /\ said \in [Slot -> {"nothing", "intro", "ready"}]
    /\ sent \in [Slot -> [text : 0 .. MaxTexts, command : 0 .. MaxCommands]]
    /\ inbox \in [Slot -> Seq(Message)]
    /\ intro \in [Slot -> {"no", "join", "yes"}]
    /\ ready \in [Slot -> BOOLEAN]
    /\ chat \in [Slot -> Seq(Text)]
    /\ pending \in [Slot -> Seq(Order)]
    /\ events \in [Slot -> Seq(Event)]
    /\ \A s \in Slot : Len(events[s]) <= MaxEvents
    /\ sem \in [Slot -> Nat]
    /\ started \in [Slot -> BOOLEAN]
    /\ pc \in [Slot -> Pc]
    /\ task \in [Slot -> [id : Nat, trig : BOOLEAN]]
    /\ main \in {"idle", "wait", "chat", "relay"}
    /\ at \in Slot \cup {None}
    /\ todo \subseteq Slot
    /\ awaited \in [Slot -> Nat]
    /\ given \in Seq(Order)
    /\ late \in BOOLEAN
    /\ lost \in BOOLEAN
    /\ hungUp \subseteq Slot
    /\ \A s \in Slot : link[s] = "up" => who[s] # 0

-----------------------------------------------------------------------------
(* The list of events of a slot's thread. *)

\* Events are removed, never added or doubled, by a purge.
LEMMA PurgeFacts ==
    ASSUME NEW es \in Seq(Event)
    PROVE  LET p == PurgeCompletedEvents(es)
           IN  /\ p \in Seq(Event)
               /\ Len(p) <= Len(es)
               /\ Range(p) = {e \in Range(es) : ~e.done}
               /\ (\A i, j \in DOMAIN es : es[i].id = es[j].id => i = j)
                      => \A i, j \in DOMAIN p : p[i].id = p[j].id => i = j
<1> DEFINE p == Among(es, ToDo)
<1>1. PICK g : p \in Seq(Event) /\ Keeps(g, p, es, ToDo)
  BY AmongKeeps
<1>2. Range(p) = Range(es) \cap ToDo
  BY AmongRange
<1> HIDE DEF p
<1>3. /\ DOMAIN p = 1 .. Len(p) /\ Len(p) \in Nat
      /\ DOMAIN es = 1 .. Len(es) /\ Len(es) \in Nat
      /\ \A i \in DOMAIN es : es[i] \in Event
  BY <1>1
<1>4. /\ g \in [DOMAIN p -> DOMAIN es]
      /\ \A i \in DOMAIN p : p[i] = es[g[i]]
      /\ \A i, j \in DOMAIN p : i < j => g[i] < g[j]
  BY <1>1 DEF Keeps
<1>5. ASSUME NEW i \in DOMAIN p, NEW j \in DOMAIN p, g[i] = g[j] PROVE i = j
  <2>1. g[i] \in Nat /\ g[j] \in Nat
    BY <1>3, <1>4
  <2>2. ~ (i < j) /\ ~ (j < i)
    BY <1>4, <1>5, <2>1
  <2> QED
    BY <1>3, <2>2
<1>6. Len(p) <= Len(es)
  <2>1. g \in Injection(1 .. Len(p), 1 .. Len(es))
    BY <1>3, <1>4, <1>5 DEF Injection, IsInjective
  <2>2. \A n \in Nat : IsFiniteSet(1 .. n) /\ Cardinality(1 .. n) = n
    <3> TAKE n \in Nat
    <3> QED
      BY FS_Interval
  <2>3. Cardinality(1 .. Len(p)) <= Cardinality(1 .. Len(es))
    BY <1>3, <2>1, <2>2, FS_Injection
  <2> QED
    BY <1>3, <2>2, <2>3
<1>7. Range(p) = {e \in Range(es) : ~e.done}
  <2>1. \A e \in Range(es) : e \in Event
    BY <1>3 DEF Range
  <2> QED
    BY <1>2, <2>1 DEF ToDo
<1>8. ASSUME \A i, j \in DOMAIN es : es[i].id = es[j].id => i = j
      PROVE  \A i, j \in DOMAIN p : p[i].id = p[j].id => i = j
  BY <1>4, <1>5, <1>8
<1> QED
  BY <1>1, <1>6, <1>7, <1>8 DEF p, PurgeCompletedEvents

\* What completing events leaves.
LEMMA CompleteFacts ==
    ASSUME NEW es \in Seq(Event), NEW id
    PROVE  /\ SetTaskCompleted(es, id) \in Seq(Event)
           /\ SetAllEventsCompleted(es) \in Seq(Event)
           /\ Len(SetTaskCompleted(es, id)) = Len(es)
           /\ Len(SetAllEventsCompleted(es)) = Len(es)
           /\ DOMAIN SetTaskCompleted(es, id) = DOMAIN es
           /\ DOMAIN SetAllEventsCompleted(es) = DOMAIN es
           /\ \A i \in DOMAIN es :
                  /\ SetAllEventsCompleted(es)[i].id = es[i].id
                  /\ SetAllEventsCompleted(es)[i].done
                  /\ SetTaskCompleted(es, id)[i].id = es[i].id
                  /\ SetTaskCompleted(es, id)[i].trig = es[i].trig
                  /\ SetTaskCompleted(es, id)[i].done <=> es[i].done \/ es[i].id = id
<1>1. /\ DOMAIN es = 1 .. Len(es) /\ Len(es) \in Nat
      /\ \A i \in DOMAIN es : es[i] \in Event
  OBVIOUS
<1>2. \A e \in Event : LET d == [e EXCEPT !.done = TRUE]
                       IN  d \in Event /\ d.id = e.id /\ d.trig = e.trig /\ d.done
  BY DEF Event
<1> DEFINE a == SetAllEventsCompleted(es)
           c == SetTaskCompleted(es, id)
<1>3. /\ DOMAIN a = DOMAIN es /\ DOMAIN c = DOMAIN es
      /\ a \in [1 .. Len(es) -> Event] /\ c \in [1 .. Len(es) -> Event]
  BY <1>1, <1>2 DEF SetAllEventsCompleted, SetTaskCompleted
<1>4. \A i \in DOMAIN es :
          /\ a[i].id = es[i].id /\ a[i].done /\ c[i].id = es[i].id /\ c[i].trig = es[i].trig
          /\ c[i].done <=> es[i].done \/ es[i].id = id
  BY <1>1, <1>2 DEF SetAllEventsCompleted, SetTaskCompleted
<1> HIDE DEF a, c
<1>5. \A q : q \in [1 .. Len(es) -> Event] => q \in Seq(Event) /\ Len(q) = Len(es)
  BY <1>1
<1> QED
  BY <1>3, <1>4, <1>5 DEF a, c

\* There is always a number for a new event.
LEMMA NewIdFacts ==
    ASSUME Types, NEW s \in Slot
    PROVE  /\ NewId(s) \in Nat \ {0}
           /\ NewId(s) # task[s].id /\ NewId(s) # awaited[s]
           /\ \A e \in Range(events[s]) : NewId(s) # e.id
<1> DEFINE ids == {e.id : e \in Range(events[s])}
           used == {task[s].id, awaited[s]} \cup ids
           N == MaxEvents + 3
<1>1. /\ events[s] \in Seq(Event) /\ Len(events[s]) <= MaxEvents /\ MaxEvents \in Nat
      /\ DOMAIN events[s] = 1 .. Len(events[s]) /\ Len(events[s]) \in Nat
  BY BoundsAssumption DEF Types
<1>2. IsFiniteSet(ids) /\ Cardinality(ids) <= MaxEvents /\ Cardinality(ids) \in Nat
  <2> DEFINE n == Len(events[s])
             f == [i \in 1 .. n |-> events[s][i].id]
  <2>1. f \in Surjection(1 .. n, ids)
    BY <1>1 DEF Surjection, Range
  <2>2. IsFiniteSet(1 .. n) /\ Cardinality(1 .. n) = n
    BY <1>1, FS_Interval
  <2> HIDE DEF f, ids, n
  <2>3. IsFiniteSet(ids) /\ Cardinality(ids) <= n
    BY <2>1, <2>2, FS_Surjection
  <2>4. Cardinality(ids) \in Nat
    BY <2>3, FS_CardinalityType
  <2> QED
    BY <1>1, <2>3, <2>4 DEF n
<1> HIDE DEF ids
<1>3. IsFiniteSet(used) /\ Cardinality(used) <= MaxEvents + 2 /\ Cardinality(used) \in Nat
  <2>1. used = (ids \cup {task[s].id}) \cup {awaited[s]}
    OBVIOUS
  <2>2. /\ IsFiniteSet(ids \cup {task[s].id})
        /\ Cardinality(ids \cup {task[s].id}) <= MaxEvents + 1
        /\ Cardinality(ids \cup {task[s].id}) \in Nat
    <3>1. /\ IsFiniteSet(ids \cup {task[s].id})
          /\ \/ Cardinality(ids \cup {task[s].id}) = Cardinality(ids)
             \/ Cardinality(ids \cup {task[s].id}) = Cardinality(ids) + 1
      BY <1>2, FS_AddElement
    <3> QED
      BY <1>1, <1>2, <3>1
  <2>3. /\ IsFiniteSet(used)
        /\ \/ Cardinality(used) = Cardinality(ids \cup {task[s].id})
           \/ Cardinality(used) = Cardinality(ids \cup {task[s].id}) + 1
    BY <2>1, <2>2, FS_AddElement
  <2> HIDE DEF used
  <2> QED
    BY <1>1, <2>2, <2>3
<1> HIDE DEF used
<1> DEFINE Unused == {i \in 1 .. N : i \notin used}
<1>4. Unused # {}
  <2> SUFFICES ASSUME 1 .. N \subseteq used PROVE FALSE
    OBVIOUS
  <2>1. Cardinality(1 .. N) = N
    BY <1>1, FS_Interval
  <2>2. Cardinality(1 .. N) <= Cardinality(used)
    BY <1>3, FS_Subset
  <2> QED
    BY <1>1, <1>3, <2>1, <2>2
<1>5. PICK k \in Unused : \A j \in Unused : k <= j
  <2>1. Unused \in SUBSET Nat
    OBVIOUS
  <2> QED
    BY <1>4, <2>1, LeastNumber
<1>6. \E i \in 1 .. N : i \notin used /\ \A j \in 1 .. i - 1 : j \in used
  <2>1. k \in 1 .. N /\ k \notin used
    OBVIOUS
  <2>2. \A j \in 1 .. k - 1 : j \in 1 .. N /\ j < k
    BY <1>1
  <2> QED
    BY <1>5, <2>1, <2>2
<1>7. NewId(s) = CHOOSE i \in 1 .. N : i \notin used /\ \A j \in 1 .. i - 1 : j \in used
  BY DEF NewId, used, ids
<1>8. NewId(s) \in 1 .. N /\ NewId(s) \notin used
  BY <1>6, <1>7
<1> QED
  BY <1>1, <1>8 DEF used, ids

-----------------------------------------------------------------------------
(* The types. *)

\* The messages a client sends.
LEMMA MessageFacts ==
    ASSUME NEW f \in 1 .. MaxKnocks
    PROVE  /\ [kind |-> "intro", from |-> f, n |-> 0] \in Message
           /\ [kind |-> "ready", from |-> f, n |-> 0] \in Message
           /\ \A n \in 1 .. MaxTexts : [kind |-> "text", from |-> f, n |-> n] \in Message
           /\ \A n \in 1 .. MaxCommands : [kind |-> "command", from |-> f, n |-> n] \in Message
BY DEF Message, Text, Order, Sign

LEMMA MessageKinds ==
    ASSUME NEW m \in Message
    PROVE  /\ m.kind = "text" => m \in Text
           /\ m.kind = "command" => m \in Order
BY DEF Message, Text, Order, Sign

LEMMA SetGameStartedTypes ==
    ASSUME Types, NEW S, SetGameStarted(S)
    PROVE  started' \in [Slot -> BOOLEAN] /\ sem' \in [Slot -> Nat]
<1>1. ASSUME NEW s \in Slot PROVE (started[s] \/ s \in S) \in BOOLEAN
  OBVIOUS
<1>2. started' = [s \in Slot |-> started[s] \/ s \in S]
  BY DEF SetGameStarted
<1>3. started' \in [Slot -> BOOLEAN]
  BY <1>1, <1>2, Zenon
<1>4. \A s \in Slot : sem[s] \in Nat
  BY DEF Types
<1>5. sem' \in [Slot -> Nat]
  BY <1>4 DEF SetGameStarted
<1> QED
  BY <1>3, <1>5

\* A send, with the message and what the client has sent.
LEMMA SendTypes ==
    ASSUME Types, NEW s \in Slot, NEW m \in Message, Send(s, m),
           said' \in [Slot -> {"nothing", "intro", "ready"}],
           sent' \in [Slot -> [text : 0 .. MaxTexts, command : 0 .. MaxCommands]]
    PROVE  Types'
<1>1. inbox' \in [Slot -> Seq(Message)]
  <2>1. Append(inbox[s], m) \in Seq(Message)
    BY AppendFacts DEF Types
  <2> QED
    BY <2>1 DEF Types, Send
<1> QED
  BY <1>1 DEF Types, Send, lists, server, thread

LEMMA ClientTypes ==
    ASSUME Types, NEW s \in Slot, Client(s)
    PROVE  Types'
<1> DEFINE f == who[s]
<1>1. link[s] = "up" => f \in 1 .. MaxKnocks
  <2>1. f \in 0 .. MaxKnocks /\ (link[s] = "up" => f # 0)
    BY DEF Types
  <2> QED
    BY <2>1, BoundsAssumption
<1>2. sent[s].text \in 0 .. MaxTexts /\ sent[s].command \in 0 .. MaxCommands
  BY DEF Types
<1>3. \A x \in [text : 0 .. MaxTexts, command : 0 .. MaxCommands] :
          /\ x.text < MaxTexts =>
                 LET y == [x EXCEPT !.text = @ + 1]
                 IN  y \in [text : 0 .. MaxTexts, command : 0 .. MaxCommands]
                     /\ y.text \in 1 .. MaxTexts
          /\ x.command < MaxCommands =>
                 LET y == [x EXCEPT !.command = @ + 1]
                 IN  y \in [text : 0 .. MaxTexts, command : 0 .. MaxCommands]
                     /\ y.command \in 1 .. MaxCommands
  BY BoundsAssumption
<1>4. sent[s] \in [text : 0 .. MaxTexts, command : 0 .. MaxCommands]
  BY DEF Types
<1> HIDE DEF f
<1>5. CASE SendIntro(s)
  <2>1. Send(s, [kind |-> "intro", from |-> f, n |-> 0])
    BY <1>5 DEF SendIntro, f
  <2>2. f \in 1 .. MaxKnocks
    BY <1>1, <2>1 DEF Send
  <2>3. /\ said' \in [Slot -> {"nothing", "intro", "ready"}]
        /\ sent' \in [Slot -> [text : 0 .. MaxTexts, command : 0 .. MaxCommands]]
    BY <1>5 DEF SendIntro, Types
  <2> QED
    BY <2>1, <2>2, <2>3, MessageFacts, SendTypes
<1>6. CASE SendReady(s)
  <2>1. Send(s, [kind |-> "ready", from |-> f, n |-> 0])
    BY <1>6 DEF SendReady, f
  <2>2. f \in 1 .. MaxKnocks
    BY <1>1, <2>1 DEF Send
  <2>3. /\ said' \in [Slot -> {"nothing", "intro", "ready"}]
        /\ sent' \in [Slot -> [text : 0 .. MaxTexts, command : 0 .. MaxCommands]]
    BY <1>6 DEF SendReady, Types
  <2> QED
    BY <2>1, <2>2, <2>3, MessageFacts, SendTypes
<1>7. CASE SendText(s)
  <2>1. /\ sent' = [sent EXCEPT ![s] = [sent[s] EXCEPT !.text = @ + 1]]
        /\ sent[s].text < MaxTexts /\ said' = said
    BY <1>7 DEF SendText, Types
  <2>2. sent'[s] = [sent[s] EXCEPT !.text = @ + 1]
    BY <2>1 DEF Types
  <2>3. sent'[s].text \in 1 .. MaxTexts
    BY <1>3, <1>4, <2>1, <2>2
  <2>4. /\ said' \in [Slot -> {"nothing", "intro", "ready"}]
        /\ sent' \in [Slot -> [text : 0 .. MaxTexts, command : 0 .. MaxCommands]]
    BY <1>3, <1>4, <2>1 DEF Types
  <2>5. Send(s, [kind |-> "text", from |-> f, n |-> sent'[s].text])
    BY <1>7 DEF SendText, f
  <2>6. f \in 1 .. MaxKnocks
    BY <1>1, <2>5 DEF Send
  <2>7. [kind |-> "text", from |-> f, n |-> sent'[s].text] \in Message
    BY <2>3, <2>6, MessageFacts
  <2> QED
    BY <2>4, <2>5, <2>7, SendTypes
<1>8. CASE SendCommand(s)
  <2>1. /\ sent' = [sent EXCEPT ![s] = [sent[s] EXCEPT !.command = @ + 1]]
        /\ sent[s].command < MaxCommands /\ said' = said
    BY <1>8 DEF SendCommand, Types
  <2>2. sent'[s] = [sent[s] EXCEPT !.command = @ + 1]
    BY <2>1 DEF Types
  <2>3. sent'[s].command \in 1 .. MaxCommands
    BY <1>3, <1>4, <2>1, <2>2
  <2>4. /\ said' \in [Slot -> {"nothing", "intro", "ready"}]
        /\ sent' \in [Slot -> [text : 0 .. MaxTexts, command : 0 .. MaxCommands]]
    BY <1>3, <1>4, <2>1 DEF Types
  <2>5. Send(s, [kind |-> "command", from |-> f, n |-> sent'[s].command])
    BY <1>8 DEF SendCommand, f
  <2>6. f \in 1 .. MaxKnocks
    BY <1>1, <2>5 DEF Send
  <2>7. [kind |-> "command", from |-> f, n |-> sent'[s].command] \in Message
    BY <2>3, <2>6, MessageFacts
  <2> QED
    BY <2>4, <2>5, <2>7, SendTypes
<1>9. CASE PeerGone(s)
  <2>1. /\ link' = [link EXCEPT ![s] = "down"] /\ inbox' = [inbox EXCEPT ![s] = << >>]
        /\ link \in [Slot -> {"none", "up", "down"}] /\ inbox \in [Slot -> Seq(Message)]
    BY <1>9 DEF PeerGone, Types
  <2>2. /\ link' \in [Slot -> {"none", "up", "down"}]
        /\ \A x \in Slot : link'[x] = "up" => link[x] = "up"
    BY <2>1
  <2>3. inbox' \in [Slot -> Seq(Message)]
    <3>1. << >> \in Seq(Message)
      OBVIOUS
    <3> QED
      BY <2>1, <3>1
  <2> QED
    BY <1>9, <2>2, <2>3 DEF PeerGone, Types, clients, lists, server, thread
<1> QED
  BY <1>5, <1>6, <1>7, <1>8, <1>9 DEF Client

\* The end of a connection.
LEMMA CloseTypes ==
    ASSUME Types, NEW s \in Slot, NEW es \in Seq(Event), Len(es) <= MaxEvents, Close(s, es)
    PROVE  /\ link' \in [Slot -> {"none", "up", "down"}]
           /\ \A x \in Slot : link'[x] = "up" => link[x] = "up"
           /\ inbox' \in [Slot -> Seq(Message)]
           /\ intro' \in [Slot -> {"no", "join", "yes"}]
           /\ ready' \in [Slot -> BOOLEAN]
           /\ events' \in [Slot -> Seq(Event)]
           /\ \A x \in Slot : Len(events'[x]) <= MaxEvents
<1>1. /\ SetAllEventsCompleted(es) \in Seq(Event)
      /\ Len(SetAllEventsCompleted(es)) <= MaxEvents
  BY CompleteFacts
<1>2. events' \in [Slot -> Seq(Event)] /\ \A x \in Slot : Len(events'[x]) <= MaxEvents
  <2> DEFINE q == SetAllEventsCompleted(es)
  <2>1. /\ events' = [events EXCEPT ![s] = q] /\ events \in [Slot -> Seq(Event)]
        /\ \A x \in Slot : Len(events[x]) <= MaxEvents
    BY DEF Types, Close
  <2> HIDE DEF q
  <2>2. \A x \in Slot : events'[x] = IF x = s THEN q ELSE events[x]
    BY <2>1
  <2>3. q \in Seq(Event) /\ Len(q) <= MaxEvents
    BY <1>1 DEF q
  <2> QED
    BY <2>1, <2>2, <2>3
<1>3. inbox' \in [Slot -> Seq(Message)]
  <2>1. << >> \in Seq(Message)
    OBVIOUS
  <2> QED
    BY <2>1 DEF Types, Close
<1>4. /\ link' \in [Slot -> {"none", "up", "down"}]
      /\ \A x \in Slot : link'[x] = "up" => link[x] = "up"
  <2>1. link' = [link EXCEPT ![s] = "none"] /\ link \in [Slot -> {"none", "up", "down"}]
    BY DEF Types, Close
  <2> QED
    BY <2>1
<1>5. intro' \in [Slot -> {"no", "join", "yes"}] /\ ready' \in [Slot -> BOOLEAN]
  BY DEF Types, Close
<1> QED
  BY <1>2, <1>3, <1>4, <1>5

\* A purge of a slot's events.
LEMMA PurgeTypes ==
    ASSUME Types, NEW s \in Slot,
           events' = [events EXCEPT ![s] = PurgeCompletedEvents(events[s])]
    PROVE  /\ events' \in [Slot -> Seq(Event)]
           /\ \A x \in Slot : Len(events'[x]) <= MaxEvents
<1>1. events[s] \in Seq(Event) /\ Len(events[s]) <= MaxEvents /\ MaxEvents \in Nat
  BY BoundsAssumption DEF Types
<1>2. /\ PurgeCompletedEvents(events[s]) \in Seq(Event)
      /\ Len(PurgeCompletedEvents(events[s])) <= Len(events[s])
  BY <1>1, PurgeFacts
<1>3. Len(PurgeCompletedEvents(events[s])) <= MaxEvents
  BY <1>1, <1>2
<1> QED
  BY <1>2, <1>3 DEF Types

\* Steps that change where a thread is and what it is at.
LEMMA GotoTypes ==
    ASSUME Types, NEW s \in Slot, NEW l \in Pc, Goto(s, l),
           task' \in [Slot -> [id : Nat, trig : BOOLEAN]], sem' \in [Slot -> Nat],
           UNCHANGED <<clients, backlog, link, inbox, intro, ready, events, started, hungUp,
                       lists, server>>
    PROVE  Types'
BY DEF Goto, Types, clients, lists, server

LEMMA WaitingFacts ==
    ASSUME Types, NEW s \in Slot
    PROVE  /\ Waiting(s) \in Seq(Event) /\ Len(Waiting(s)) <= Len(events[s])
           /\ Waiting(s) = PurgeCompletedEvents(events[s])
           /\ Waiting(s) # <<>> => /\ Waiting(s)[1] \in Event
                                   /\ Waiting(s)[1] \in Range(events[s])
                                   /\ ~Waiting(s)[1].done
<1>1. events[s] \in Seq(Event)
  BY DEF Types
<1>2. Waiting(s) = PurgeCompletedEvents(events[s])
  BY DEF Waiting, PurgeCompletedEvents
<1>3. /\ Waiting(s) \in Seq(Event) /\ Len(Waiting(s)) <= Len(events[s])
      /\ Range(Waiting(s)) = {e \in Range(events[s]) : ~e.done}
  BY <1>1, <1>2, PurgeFacts
<1>4. Waiting(s) # <<>> => Waiting(s)[1] \in Event /\ Waiting(s)[1] \in Range(Waiting(s))
  <2>1. \A q \in Seq(Event) : q # <<>> => q[1] \in Event /\ 1 \in DOMAIN q
    OBVIOUS
  <2> QED
    BY <1>3, <2>1 DEF Range
<1> QED
  BY <1>2, <1>3, <1>4

LEMMA ThreadTypes ==
    ASSUME Types, NEW s \in Slot, Thread(s)
    PROVE  Types'
<1> DEFINE Task == [id : Nat, trig : BOOLEAN]
<1>1. task \in [Slot -> Task] /\ sem \in [Slot -> Nat] /\ NoTask \in Task
  BY DEF Types, NoTask
<1>2. CASE Top(s)
  <2>1. task' \in [Slot -> Task]
    BY <1>1, <1>2 DEF Top
  <2>2. \E l \in Pc : Goto(s, l)
    BY <1>2 DEF Top, Pc
  <2> QED
    BY <1>1, <1>2, <2>1, <2>2, GotoTypes DEF Top
<1>3. CASE Turn(s)
  <2>1. \E l \in Pc : Goto(s, l)
    BY <1>3 DEF Turn, Pc
  <2> QED
    BY <1>1, <1>3, <2>1, GotoTypes DEF Turn
<1>4. CASE Select(s)
  <2>1. [id |-> 0, trig |-> link[s] = "down" \/ inbox[s] # << >>] \in Task
    OBVIOUS
  <2>2. task' \in [Slot -> Task]
    BY <1>1, <1>4, <2>1 DEF Select
  <2>3. \E l \in Pc : Goto(s, l)
    BY <1>4 DEF Select, Pc
  <2> QED
    BY <1>1, <1>4, <2>2, <2>3, GotoTypes DEF Select
<1>5. CASE Wake(s)
  <2>1. sem' \in [Slot -> Nat]
    BY <1>1, <1>5 DEF Wake
  <2>2. Waiting(s) # <<>> => [id |-> Waiting(s)[1].id, trig |-> Waiting(s)[1].trig] \in Task
    BY WaitingFacts DEF Event
  <2>3. task' \in [Slot -> Task]
    BY <1>1, <1>5, <2>2 DEF Wake
  <2>4. \E l \in Pc : Goto(s, l)
    BY <1>5 DEF Wake, Pc
  <2> QED
    BY <1>5, <2>1, <2>3, <2>4, GotoTypes DEF Wake
<1>6. CASE NothingToUpdate(s) \/ EndRead(s)
  <2>1. "done" \in Pc /\ Goto(s, "done")
    BY <1>6 DEF NothingToUpdate, EndRead, Pc
  <2> QED
    BY <1>1, <1>6, <2>1, GotoTypes DEF NothingToUpdate, EndRead
<1>7. CASE Accept(s)
  <2>1. /\ started' \in [Slot -> BOOLEAN] /\ sem' \in [Slot -> Nat]
    BY <1>7, SetGameStartedTypes DEF Accept
  <2>2. /\ events' \in [Slot -> Seq(Event)]
        /\ \A x \in Slot : Len(events'[x]) <= MaxEvents
    BY <1>7, PurgeTypes DEF Accept
  <2>3. knocks - backlog + 1 \in 1 .. MaxKnocks /\ backlog - 1 \in 0 .. knocks
    BY <1>7, BoundsAssumption DEF Accept, Types
  <2>4. [text |-> 0, command |-> 0] \in [text : 0 .. MaxTexts, command : 0 .. MaxCommands]
    BY BoundsAssumption
  <2>5. /\ who' = [who EXCEPT ![s] = knocks - backlog + 1] /\ link' = [link EXCEPT ![s] = "up"]
        /\ sent' = [sent EXCEPT ![s] = [text |-> 0, command |-> 0]]
        /\ backlog' = backlog - 1
    BY <1>7 DEF Accept
  <2>6. who' \in [Slot -> 0 .. MaxKnocks] /\ \A x \in Slot : link'[x] = "up" => who'[x] # 0
    <3> DEFINE k == knocks - backlog + 1
    <3>1. k \in 0 .. MaxKnocks /\ k # 0
      BY <2>3, BoundsAssumption
    <3>2. /\ who \in [Slot -> 0 .. MaxKnocks] /\ link \in [Slot -> {"none", "up", "down"}]
          /\ \A x \in Slot : link[x] = "up" => who[x] # 0
      BY DEF Types
    <3>3. who' = [who EXCEPT ![s] = k]
      BY <2>5
    <3> HIDE DEF k
    <3> QED
      BY <2>5, <3>1, <3>2, <3>3
  <2>7. sent' \in [Slot -> [text : 0 .. MaxTexts, command : 0 .. MaxCommands]]
    BY <2>4, <2>5 DEF Types
  <2>8. /\ said' \in [Slot -> {"nothing", "intro", "ready"}]
        /\ link' \in [Slot -> {"none", "up", "down"}]
        /\ intro' \in [Slot -> {"no", "join", "yes"}]
        /\ ready' \in [Slot -> BOOLEAN] /\ pc' \in [Slot -> Pc]
    BY <1>7 DEF Accept, Types, Goto, Pc
  <2>9. chat' \in [Slot -> Seq(Text)] /\ pending' \in [Slot -> Seq(Order)]
    <3>1. << >> \in Seq(Text) /\ << >> \in Seq(Order)
      OBVIOUS
    <3> QED
      BY <1>7, <3>1 DEF Accept, Types
  <2>10. UNCHANGED <<allow, phase, knocks, inbox, hungUp, given, lost, main, at, todo, awaited,
                     late, task>>
    BY <1>7 DEF Accept, server
  <2> QED
    BY <2>1, <2>2, <2>3, <2>5, <2>6, <2>7, <2>8, <2>9, <2>10 DEF Types
<1>8. CASE NobodyToAccept(s)
  <2>1. /\ events' \in [Slot -> Seq(Event)]
        /\ \A x \in Slot : Len(events'[x]) <= MaxEvents
    BY <1>8, PurgeTypes DEF NobodyToAccept
  <2>2. pc' \in [Slot -> Pc]
    BY <1>8 DEF NobodyToAccept, Types, Goto, Pc
  <2> QED
    BY <1>8, <2>1, <2>2 DEF NobodyToAccept, Types, clients, lists, server
<1>9. CASE CloseSlot(s) \/ Refuse(s)
  <2>1. \E es \in Seq(Event) : Len(es) <= MaxEvents /\ Close(s, es)
    <3>1. events[s] \in Seq(Event) /\ Len(events[s]) <= MaxEvents /\ MaxEvents \in Nat
      BY BoundsAssumption DEF Types
    <3>2. /\ PurgeCompletedEvents(events[s]) \in Seq(Event)
          /\ Len(PurgeCompletedEvents(events[s])) <= Len(events[s])
      BY <3>1, PurgeFacts
    <3>3. Len(PurgeCompletedEvents(events[s])) <= MaxEvents
      BY <3>1, <3>2
    <3> QED
      BY <1>9, <3>1, <3>2, <3>3 DEF CloseSlot, Refuse
  <2>2. pc' \in [Slot -> Pc]
    BY <1>9 DEF CloseSlot, Refuse, Types, Goto, Pc
  <2>3. UNCHANGED <<clients, backlog, sem, started, hungUp, lists, server, task>>
    BY <1>9 DEF CloseSlot, Refuse
  <2>4. /\ link' \in [Slot -> {"none", "up", "down"}]
        /\ \A x \in Slot : link'[x] = "up" => link[x] = "up"
        /\ inbox' \in [Slot -> Seq(Message)]
        /\ intro' \in [Slot -> {"no", "join", "yes"}]
        /\ ready' \in [Slot -> BOOLEAN]
        /\ events' \in [Slot -> Seq(Event)]
        /\ \A x \in Slot : Len(events'[x]) <= MaxEvents
    BY <2>1, CloseTypes
  <2> QED
    BY <2>2, <2>3, <2>4 DEF Types, clients, lists, server
<1>10. CASE BeginRead(s)
  <2>1. /\ events' \in [Slot -> Seq(Event)]
        /\ \A x \in Slot : Len(events'[x]) <= MaxEvents
    BY <1>10, PurgeTypes DEF BeginRead
  <2>2. pc' \in [Slot -> Pc] /\ chat' \in [Slot -> Seq(Text)] /\ lost' \in BOOLEAN
    <3>1. << >> \in Seq(Text)
      OBVIOUS
    <3>2. pc' \in [Slot -> Pc]
      BY <1>10 DEF BeginRead, Types, Goto, Pc
    <3>3. chat' \in [Slot -> Seq(Text)]
      BY <1>10, <3>1 DEF BeginRead, Types
    <3>4. lost' \in BOOLEAN
      BY <1>10 DEF BeginRead, Types
    <3> QED
      BY <3>2, <3>3, <3>4
  <2> QED
    BY <1>10, <2>1, <2>2 DEF BeginRead, Types, clients, server
<1>11. CASE Read(s)
  <2> DEFINE m == Head(inbox[s])
  <2>1. m \in Message /\ Tail(inbox[s]) \in Seq(Message)
    BY <1>11, TailFacts DEF Read, Types
  <2>2. /\ m.kind = "text" => Append(chat[s], m) \in Seq(Text)
        /\ m.kind = "command" => Append(pending[s], m) \in Seq(Order)
    <3>1. chat[s] \in Seq(Text) /\ pending[s] \in Seq(Order)
      BY DEF Types
    <3> HIDE DEF m
    <3> QED
      BY <2>1, <3>1, MessageKinds, AppendFacts
  <2>3. inbox' \in [Slot -> Seq(Message)]
    BY <1>11, <2>1 DEF Read, Types
  <2>4. chat' \in [Slot -> Seq(Text)] /\ pending' \in [Slot -> Seq(Order)]
    <3>1. /\ chat' = [chat EXCEPT ![s] = IF m.kind = "text" THEN Append(@, m) ELSE @]
          /\ pending' = [pending EXCEPT ![s] = IF m.kind = "command" THEN Append(@, m) ELSE @]
      BY <1>11 DEF Read
    <3> HIDE DEF m
    <3> QED
      BY <2>2, <3>1 DEF Types
  <2>5. /\ intro' \in [Slot -> {"no", "join", "yes"}] /\ ready' \in [Slot -> BOOLEAN]
        /\ \E S \in {{}, {s}} : SetGameStarted(S)
    BY <1>11 DEF Read, Types
  <2>6. started' \in [Slot -> BOOLEAN] /\ sem' \in [Slot -> Nat]
    BY <2>5, SetGameStartedTypes
  <2>7. pc' \in [Slot -> Pc]
    BY <1>11 DEF Read, Types, Goto, Pc
  <2>8. UNCHANGED <<clients, backlog, link, events, hungUp, given, lost, server, task>>
    BY <1>11 DEF Read
  <2> QED
    BY <2>3, <2>4, <2>5, <2>6, <2>7, <2>8 DEF Types, clients, server
<1>12. CASE TaskDone(s)
  <2>1. /\ events' \in [Slot -> Seq(Event)]
        /\ \A x \in Slot : Len(events'[x]) <= MaxEvents
    <3>1. /\ SetTaskCompleted(events[s], task[s].id) \in Seq(Event)
          /\ Len(SetTaskCompleted(events[s], task[s].id)) <= MaxEvents
      <4>1. events[s] \in Seq(Event) /\ Len(events[s]) <= MaxEvents
        BY DEF Types
      <4> QED
        BY <4>1, CompleteFacts
    <3>2. \A x \in Slot : \/ events'[x] = events[x]
                          \/ x = s /\ events'[x] = SetTaskCompleted(events[s], task[s].id)
      BY <1>12 DEF TaskDone, Types
    <3>3. events' = [x \in Slot |-> events'[x]]
      BY <1>12 DEF TaskDone, Types
    <3>4. \A x \in Slot : events[x] \in Seq(Event) /\ Len(events[x]) <= MaxEvents
      BY DEF Types
    <3> QED
      BY <3>1, <3>2, <3>3, <3>4
  <2>2. pc' \in [Slot -> Pc] /\ task' \in [Slot -> Task]
    BY <1>1, <1>12 DEF TaskDone, Types, Goto, Pc
  <2> QED
    BY <1>12, <2>1, <2>2 DEF TaskDone, Types, clients, lists, server
<1> QED
  BY <1>2, <1>3, <1>4, <1>5, <1>6, <1>7, <1>8, <1>9, <1>10, <1>11, <1>12 DEF Thread

\* The slots, each once, in the order in which the commands are taken.
LEMMA SlotOrder ==
    LET order == SetToSeq(Slot)
        n     == Cardinality(Slot)
    IN  /\ n \in Nat /\ order \in [1 .. n -> Slot] /\ Len(order) = n
        /\ \A i, j \in 1 .. n : order[i] = order[j] => i = j
        /\ \A s \in Slot : \E i \in 1 .. n : order[i] = s
<1> DEFINE order == SetToSeq(Slot)
           n     == Cardinality(Slot)
<1>1. n \in Nat /\ Bijection(1 .. n, Slot) # {}
  BY SlotAssumption, FS_CardinalityType DEF ExistsBijection
<1>2. \E f \in [1 .. n -> Slot] : IsInjective(f)
  BY <1>1 DEF Bijection, Injection
<1>3. order \in [1 .. n -> Slot] /\ IsInjective(order)
  BY <1>2 DEF SetToSeq
<1> HIDE DEF order
<1>4. order \in Injection(1 .. n, Slot)
  BY <1>3 DEF Injection
<1>5. Cardinality(1 .. n) = n
  BY <1>1, FS_Interval
<1> HIDE DEF n
<1>6. order \in Surjection(1 .. n, Slot)
  BY <1>4, <1>5, SlotAssumption, FS_Injection DEF n
<1>7. \A i, j \in 1 .. n : order[i] = order[j] => i = j
  BY <1>3 DEF IsInjective
<1>8. \A s \in Slot : \E i \in 1 .. n : order[i] = s
  BY <1>6 DEF Surjection
<1>9. Len(order) = n
  BY <1>1, <1>3 DEF n
<1> QED
  BY <1>1, <1>3, <1>7, <1>8, <1>9 DEF order, n

\* What is taken from the slots.
Taken(s) == IF IsConnected(s) THEN pending[s] ELSE << >>
Block    == FlattenSeq([i \in 1 .. Cardinality(Slot) |-> Taken(SetToSeq(Slot)[i])])

LEMMA TakenTypes ==
    ASSUME Types
    PROVE  /\ \A s \in Slot : Taken(s) \in Seq(Order)
           /\ [i \in 1 .. Cardinality(Slot) |-> Taken(SetToSeq(Slot)[i])] \in Seq(Seq(Order))
           /\ Block \in Seq(Order)
<1> DEFINE n  == Cardinality(Slot)
           ss == [i \in 1 .. n |-> Taken(SetToSeq(Slot)[i])]
<1>1. \A s \in Slot : Taken(s) \in Seq(Order)
  BY DEF Types, Taken
<1>2. n \in Nat /\ \A i \in 1 .. n : SetToSeq(Slot)[i] \in Slot
  BY SlotOrder
<1>3. ss \in Seq(Seq(Order))
  BY <1>1, <1>2
<1> HIDE DEF ss
<1>4. FlattenSeq(ss) \in Seq(Order)
  BY <1>3, FlattenRange
<1> QED
  BY <1>1, <1>3, <1>4 DEF Block, ss

LEMMA ServerTypes ==
    ASSUME Types, Server
    PROVE  Types'
<1>1. CASE SignalClients
  <2>1. ASSUME NEW s \in Slot
        PROVE  /\ events'[s] \in Seq(Event) /\ Len(events'[s]) <= MaxEvents
               /\ awaited'[s] \in Nat /\ sem'[s] \in Nat
    <3> DEFINE e == [id |-> NewId(s), trig |-> HasData(s), done |-> FALSE]
               q == Waiting(s)
    <3>1. NewId(s) \in Nat
      BY NewIdFacts
    <3>2. e \in Event
      BY <3>1 DEF Event, HasData
    <3>3. q \in Seq(Event) /\ Len(q) <= Len(events[s]) /\ Len(events[s]) <= MaxEvents
      BY WaitingFacts DEF Types
    <3>4. /\ events'[s] = IF s \in Signalled THEN Append(q, e) ELSE q
          /\ awaited'[s] = IF s \in Signalled /\ HasData(s) THEN NewId(s) ELSE 0
          /\ sem'[s] = IF s \in Signalled THEN sem[s] + 1 ELSE sem[s]
      BY <1>1 DEF SignalClients
    <3>5. s \in Signalled => Len(q) < MaxEvents
      BY DEF Signalled
    <3>6. MaxEvents \in Nat /\ Len(events[s]) \in Nat /\ sem[s] \in Nat
      BY BoundsAssumption DEF Types
    <3> HIDE DEF e, q
    <3>7. Append(q, e) \in Seq(Event) /\ Len(Append(q, e)) = Len(q) + 1 /\ Len(q) \in Nat
      BY <3>2, <3>3, AppendFacts
    <3> QED
      BY <3>1, <3>3, <3>4, <3>5, <3>6, <3>7
  <2>2. events' \in [Slot -> Seq(Event)] /\ awaited' \in [Slot -> Nat] /\ sem' \in [Slot -> Nat]
    <3>1. /\ DOMAIN events' = Slot /\ events' = [s \in Slot |-> events'[s]]
          /\ awaited' = [s \in Slot |-> awaited'[s]] /\ sem' = [s \in Slot |-> sem'[s]]
      BY <1>1 DEF SignalClients
    <3> QED
      BY <2>1, <3>1
  <2> QED
    BY <1>1, <2>1, <2>2 DEF SignalClients, Types, clients, lists, thread
<1>2. CASE \E s \in Slot : SeeCompleted(s)
  <2>1. awaited' \in [Slot -> Nat]
    BY <1>2 DEF SeeCompleted, Types
  <2>2. UNCHANGED <<clients, phase, backlog, link, inbox, intro, ready, events, sem, started, hungUp,
                    lists, main, at, todo, late, thread>>
    BY <1>2 DEF SeeCompleted
  <2> QED
    BY <2>1, <2>2 DEF Types, clients, lists, thread
<1>3. CASE AllCompleted \/ WaitTooLong
  <2>1. EndWait /\ late' \in BOOLEAN
    BY <1>3 DEF AllCompleted, WaitTooLong, Types
  <2> QED
    BY <2>1 DEF EndWait, Types, clients, lists, thread
<1>4. CASE ExecuteNetworkCommands
  <2>1. given' = given \o Block
    BY <1>4, SlotOrder DEF ExecuteNetworkCommands, Block, Taken
  <2>2. Block \in Seq(Order) /\ given \in Seq(Order)
    BY TakenTypes DEF Types
  <2>3. given' \in Seq(Order)
    BY <2>1, <2>2
  <2>4. pending' \in [Slot -> Seq(Order)]
    BY <1>4 DEF ExecuteNetworkCommands, Types
  <2> QED
    BY <1>4, <2>3, <2>4 DEF ExecuteNetworkCommands, Types, clients, thread
<1>5. CASE \E s \in Slot : TakeTexts(s) \/ ClearTexts(s) \/ NoTexts(s)
  <2>1. PICK s \in Slot : TakeTexts(s) \/ ClearTexts(s) \/ NoTexts(s)
    BY <1>5
  <2>2. /\ chat' \in [Slot -> Seq(Text)] /\ todo' \subseteq Slot /\ at' \in Slot \cup {None}
        /\ main' \in {"idle", "wait", "chat", "relay"} /\ lost' \in BOOLEAN
    <3>1. << >> \in Seq(Text)
      OBVIOUS
    <3>2. chat' \in [Slot -> Seq(Text)]
      BY <2>1, <3>1 DEF TakeTexts, ClearTexts, NoTexts, Types, lists
    <3>3. todo' \subseteq Slot /\ at' \in Slot \cup {None}
      BY <2>1 DEF TakeTexts, ClearTexts, NoTexts, Types
    <3>4. main' \in {"idle", "wait", "chat", "relay"}
      BY <2>1 DEF TakeTexts, ClearTexts, NoTexts, Types
    <3>5. lost' \in BOOLEAN
      BY <2>1 DEF TakeTexts, ClearTexts, NoTexts, Types, lists
    <3> QED
      BY <3>2, <3>3, <3>4, <3>5
  <2> QED
    BY <2>1, <2>2 DEF TakeTexts, ClearTexts, NoTexts, Types, clients, lists, thread
<1>6. CASE UpdateDone \/ GameInitiated
  BY <1>6 DEF UpdateDone, GameInitiated, Types, clients, lists, thread
<1>7. CASE \E s \in Slot : ReceiveWhileLoading(s)
  <2>1. PICK s \in Slot : ReceiveWhileLoading(s)
    BY <1>7
  <2>2. Tail(inbox[s]) \in Seq(Message)
    BY <2>1, TailFacts DEF ReceiveWhileLoading, HasData, Types
  <2>3. inbox' \in [Slot -> Seq(Message)] /\ ready' \in [Slot -> BOOLEAN]
    BY <2>1, <2>2 DEF ReceiveWhileLoading, Types
  <2>4. started' \in [Slot -> BOOLEAN] /\ sem' \in [Slot -> Nat]
    BY <2>1, SetGameStartedTypes DEF ReceiveWhileLoading
  <2> QED
    BY <2>1, <2>3, <2>4 DEF ReceiveWhileLoading, Types, clients, lists, server, thread
<1>8. CASE StartGame
  <2>1. started' \in [Slot -> BOOLEAN] /\ sem' \in [Slot -> Nat]
    BY <1>8, SetGameStartedTypes DEF StartGame
  <2> QED
    BY <1>8, <2>1 DEF StartGame, Types, clients, lists, thread
<1> QED
  BY <1>1, <1>2, <1>3, <1>4, <1>5, <1>6, <1>7, <1>8 DEF Server

LEMMA InitTypes ==
    ASSUME Init
    PROVE  Types
<1>1. sent \in [Slot -> [text : 0 .. MaxTexts, command : 0 .. MaxCommands]]
  BY BoundsAssumption DEF Init
<1>2. /\ knocks \in 0 .. MaxKnocks /\ backlog \in 0 .. knocks /\ who \in [Slot -> 0 .. MaxKnocks]
  BY BoundsAssumption DEF Init
<1>3. events \in [Slot -> Seq(Event)] /\ \A s \in Slot : Len(events[s]) <= MaxEvents
  BY BoundsAssumption DEF Init
<1>4. /\ inbox \in [Slot -> Seq(Message)] /\ chat \in [Slot -> Seq(Text)]
      /\ pending \in [Slot -> Seq(Order)] /\ given \in Seq(Order)
  BY DEF Init
<1>5. pc \in [Slot -> Pc] /\ task \in [Slot -> [id : Nat, trig : BOOLEAN]]
  BY DEF Init, Pc, NoTask
<1> QED
  BY <1>1, <1>2, <1>3, <1>4, <1>5 DEF Init, Types

LEMMA NextTypes ==
    ASSUME Types, [Next]_vars
    PROVE  Types'
<1>1. ASSUME NEW s \in Slot, HangUp(s) PROVE Types'
  <2>1. events[s] \in Seq(Event) /\ Len(events[s]) <= MaxEvents /\ Close(s, events[s])
    BY <1>1 DEF HangUp, Types
  <2>2. hungUp' \subseteq Slot
    BY <1>1 DEF HangUp, Types
  <2> QED
    BY <1>1, <2>1, <2>2, CloseTypes DEF HangUp, Types, clients, lists, server, thread
<1>2. CASE Knock
  <2>1. knocks' \in 0 .. MaxKnocks /\ backlog' \in 0 .. knocks'
    BY <1>2, BoundsAssumption DEF Knock, Types
  <2> QED
    BY <1>2, <2>1 DEF Knock, Types, lists, thread
<1>3. CASE LaunchGame
  BY <1>3 DEF LaunchGame, Types, clients, lists, thread
<1>4. CASE UNCHANGED vars
  BY <1>4 DEF vars, Types
<1> QED
  BY <1>1, <1>2, <1>3, <1>4, ThreadTypes, ClientTypes, ServerTypes DEF Next

\* The variables keep their types, whatever the threads and the clients do (TypeOK).
THEOREM TypeCorrect == Spec => []TypeOK
<1>1. Init => Types
  BY InitTypes
<1>2. Types /\ [Next]_vars => Types'
  BY NextTypes
<1>3. Types => TypeOK
  BY DEF Types, TypeOK, Pc
<1> QED
  BY <1>1, <1>2, <1>3, PTL DEF Spec

-----------------------------------------------------------------------------
(* The events and their signals. *)

Distinct(es) == \A i, j \in DOMAIN es : es[i].id = es[j].id => i = j

\* The numbers of the events that are not done, and of those the thread is not at.
OpenIds(s) == {e.id : e \in {d \in Range(events[s]) : ~d.done}}
Left(s)    == OpenIds(s) \ {task[s].id}

EventInv(s) ==
    /\ Distinct(events[s])
    /\ \A e \in Range(events[s]) : e.id # 0
    /\ link[s] = "none" => \A e \in Range(events[s]) : ~e.done => ~e.trig
    /\ pc[s] \notin {"task", "read", "done"} => task[s].id = 0
    /\ ~started[s] => Cardinality(Left(s)) <= sem[s]

\* No event is new, and none that is not done is another one than before.
Fewer(ds, es) ==
    /\ Distinct(es) => Distinct(ds)
    /\ \A d \in Range(ds) : \E e \in Range(es) :
           d.id = e.id /\ (~d.done => ~e.done /\ d.trig = e.trig)

LEMMA FewerFacts ==
    ASSUME NEW es \in Seq(Event), NEW id
    PROVE  /\ Fewer(es, es)
           /\ Fewer(PurgeCompletedEvents(es), es)
           /\ Fewer(SetTaskCompleted(es, id), es)
           /\ Fewer(SetAllEventsCompleted(es), es)
           /\ Fewer(SetAllEventsCompleted(PurgeCompletedEvents(es)), es)
           /\ \A d \in Range(SetAllEventsCompleted(es)) : d.done
           /\ \A d \in Range(SetAllEventsCompleted(PurgeCompletedEvents(es))) : d.done
           /\ \A d \in Range(SetTaskCompleted(es, id)) : d.id = id => d.done
<1> DEFINE p == PurgeCompletedEvents(es)
<1>1. p \in Seq(Event) /\ Fewer(p, es)
  BY PurgeFacts DEF Fewer, Distinct
<1>2. Fewer(es, es)
  BY DEF Fewer
<1> HIDE DEF p
<1>3. ASSUME NEW q \in Seq(Event)
      PROVE  /\ Fewer(SetAllEventsCompleted(q), q) /\ Fewer(SetTaskCompleted(q, id), q)
             /\ \A d \in Range(SetAllEventsCompleted(q)) : d.done
             /\ \A d \in Range(SetTaskCompleted(q, id)) : d.id = id => d.done
  <2>1. PICK a, c :
            /\ a = SetAllEventsCompleted(q) /\ c = SetTaskCompleted(q, id)
            /\ DOMAIN a = DOMAIN q /\ DOMAIN c = DOMAIN q
            /\ \A i \in DOMAIN q : a[i].id = q[i].id /\ a[i].done
            /\ \A i \in DOMAIN q : c[i].id = q[i].id /\ c[i].trig = q[i].trig
            /\ \A i \in DOMAIN q : c[i].done <=> q[i].done \/ q[i].id = id
    BY CompleteFacts
  <2>2. (Distinct(q) => Distinct(a)) /\ (Distinct(q) => Distinct(c))
    BY <2>1 DEF Distinct
  <2>3. \A i \in DOMAIN q : q[i] \in Range(q)
    BY DEF Range
  <2>4. ASSUME NEW d \in Range(a)
        PROVE  d.done /\ \E e \in Range(q) : d.id = e.id
    <3>1. PICK i \in DOMAIN q : d = a[i]
      BY <2>1, <2>4 DEF Range
    <3> QED
      BY <2>1, <2>3, <3>1
  <2>5. ASSUME NEW d \in Range(c)
        PROVE  \E e \in Range(q) :
                   d.id = e.id /\ d.trig = e.trig /\ (d.done <=> e.done \/ e.id = id)
    <3>1. PICK i \in DOMAIN q : d = c[i]
      BY <2>1, <2>5 DEF Range
    <3>2. d.id = q[i].id /\ d.trig = q[i].trig /\ (d.done <=> q[i].done \/ q[i].id = id)
      BY <2>1, <3>1
    <3> QED
      BY <2>3, <3>2
  <2>6. Fewer(a, q) /\ \A d \in Range(a) : d.done
    BY <2>2, <2>4 DEF Fewer
  <2>7. Fewer(c, q) /\ \A d \in Range(c) : d.id = id => d.done
    BY <2>2, <2>5 DEF Fewer
  <2> QED
    BY <2>1, <2>6, <2>7
<1>4. Fewer(SetAllEventsCompleted(p), es)
  <2>1. Fewer(SetAllEventsCompleted(p), p)
    BY <1>1, <1>3
  <2> QED
    BY <1>1, <2>1 DEF Fewer
<1> QED
  BY <1>1, <1>2, <1>3, <1>4 DEF p

LEMMA LeftFinite ==
    ASSUME NEW s, events[s] \in Seq(Event)
    PROVE  IsFiniteSet(OpenIds(s)) /\ IsFiniteSet(Left(s)) /\ Cardinality(Left(s)) \in Nat
<1> DEFINE n  == Len(events[s])
           I  == {i \in 1 .. n : ~events[s][i].done}
           f  == [i \in I |-> events[s][i].id]
<1>1. n \in Nat /\ DOMAIN events[s] = 1 .. n
  OBVIOUS
<1>2. f \in Surjection(I, OpenIds(s))
  BY <1>1 DEF Surjection, OpenIds, Range
<1>3. IsFiniteSet(I)
  <2>1. IsFiniteSet(1 .. n)
    BY <1>1, FS_Interval
  <2>2. I \in SUBSET (1 .. n)
    OBVIOUS
  <2> HIDE DEF I
  <2> QED
    BY <2>1, <2>2, FS_Subset
<1> HIDE DEF f, I
<1>4. IsFiniteSet(OpenIds(s))
  BY <1>2, <1>3, FS_Surjection
<1>5. IsFiniteSet(Left(s))
  BY <1>4, FS_Subset DEF Left
<1> QED
  BY <1>4, <1>5, FS_CardinalityType

\* Steps that add no event and take no signal.
LEMMA EventStep ==
    ASSUME Types, Types', NEW x \in Slot, EventInv(x),
           Fewer(events'[x], events[x]),
           started[x] => started'[x], sem[x] <= sem'[x],
           link'[x] = "none" => link[x] = "none" \/ \A e \in Range(events'[x]) : e.done,
           pc'[x] \notin {"task", "read", "done"} => task'[x].id = 0,
           task'[x].id = task[x].id \/ task[x].id \notin OpenIds(x)'
    PROVE  EventInv(x)'
<1>1. events[x] \in Seq(Event) /\ events'[x] \in Seq(Event) /\ sem[x] \in Nat /\ sem'[x] \in Nat
  BY DEF Types
<1>2. Distinct(events'[x])
  BY DEF EventInv, Fewer
<1>3. \A e \in Range(events'[x]) : e.id # 0
  BY DEF EventInv, Fewer
<1>4. link'[x] = "none" => \A e \in Range(events'[x]) : ~e.done => ~e.trig
  BY DEF EventInv, Fewer
<1>5. OpenIds(x)' \subseteq OpenIds(x)
  BY DEF OpenIds, Fewer
<1>6. Left(x)' \subseteq Left(x)
  BY <1>5 DEF Left
<1>7. ~started'[x] => Cardinality(Left(x)') <= sem'[x]
  <2>1. Cardinality(Left(x)') <= Cardinality(Left(x))
    BY <1>1, <1>6, LeftFinite, FS_Subset
  <2>2. Cardinality(Left(x)) \in Nat
    BY <1>1, LeftFinite
  <2>3. Cardinality(Left(x)') \in Nat
    BY <1>1, <1>6, LeftFinite, FS_Subset, FS_CardinalityType
  <2> QED
    BY <1>1, <2>1, <2>2, <2>3 DEF EventInv
<1> QED
  BY <1>2, <1>3, <1>4, <1>7 DEF EventInv

LEMMA SetGameStartedFacts ==
    ASSUME Types, NEW S, SetGameStarted(S), NEW x \in Slot
    PROVE  /\ started[x] => started'[x]
           /\ sem[x] <= sem'[x]
           /\ x \notin S => sem'[x] = sem[x] /\ started'[x] = started[x]
<1>1. sem[x] \in Nat /\ started[x] \in BOOLEAN
  BY DEF Types
<1>2. /\ sem'[x] = IF x \in S /\ ~started[x] THEN sem[x] + 1 ELSE sem[x]
      /\ started'[x] = (started[x] \/ x \in S)
  BY DEF SetGameStarted
<1>3. sem[x] <= sem'[x] /\ (x \notin S => sem'[x] = sem[x])
  BY <1>1, <1>2
<1>4. (started[x] => started'[x]) /\ (x \notin S => started'[x] = started[x])
  BY <1>1, <1>2
<1> QED
  BY <1>3, <1>4

\* A thread leaves the other slots alone.
LEMMA ThreadElsewhere ==
    ASSUME Types, NEW s \in Slot, Thread(s), NEW x \in Slot \ {s}
    PROVE  /\ events'[x] = events[x] /\ task'[x] = task[x] /\ pc'[x] = pc[x]
           /\ link'[x] = link[x] /\ chat'[x] = chat[x] /\ intro'[x] = intro[x]
           /\ inbox'[x] = inbox[x] /\ pending'[x] = pending[x] /\ who'[x] = who[x]
           /\ sent'[x] = sent[x] /\ started'[x] = started[x] /\ sem'[x] = sem[x]
           /\ UNCHANGED server
<1>1. CASE Top(s) \/ Turn(s) \/ Select(s) \/ Wake(s) \/ NothingToUpdate(s) \/ EndRead(s)
  <2>1. pc'[x] = pc[x]
    <3>1. pc \in [Slot -> Pc]
      BY DEF Types
    <3>2. CASE Top(s) \/ Turn(s) \/ Select(s)
      BY <3>1, <3>2 DEF Top, Turn, Select, Goto
    <3>3. CASE Wake(s) \/ NothingToUpdate(s) \/ EndRead(s)
      BY <3>1, <3>3 DEF Wake, NothingToUpdate, EndRead, Goto
    <3> QED
      BY <1>1, <3>2, <3>3
  <2>2. task'[x] = task[x]
    BY <1>1 DEF Top, Turn, Select, Wake, NothingToUpdate, EndRead, Types
  <2>3. sem'[x] = sem[x]
    BY <1>1 DEF Top, Turn, Select, Wake, NothingToUpdate, EndRead, Types
  <2>4. UNCHANGED <<clients, link, inbox, intro, events, started, lists, server>>
    BY <1>1 DEF Top, Turn, Select, Wake, NothingToUpdate, EndRead
  <2> QED
    BY <2>1, <2>2, <2>3, <2>4 DEF clients, lists
<1>2. CASE Accept(s)
  <2>1. sem'[x] = sem[x] /\ started'[x] = started[x]
    BY <1>2, SetGameStartedFacts DEF Accept
  <2>2. events'[x] = events[x] /\ pc'[x] = pc[x] /\ link'[x] = link[x] /\ chat'[x] = chat[x]
    BY <1>2 DEF Accept, Goto, Types
  <2>3. /\ intro'[x] = intro[x] /\ pending'[x] = pending[x] /\ who'[x] = who[x]
        /\ sent'[x] = sent[x]
    BY <1>2 DEF Accept, Types
  <2>4. UNCHANGED <<task, inbox, server>>
    BY <1>2 DEF Accept
  <2> QED
    BY <2>1, <2>2, <2>3, <2>4
<1>3. CASE NobodyToAccept(s) \/ BeginRead(s) \/ TaskDone(s)
  <2>1. CASE NobodyToAccept(s)
    BY <2>1 DEF NobodyToAccept, Goto, Types, lists, clients
  <2>2. CASE BeginRead(s)
    BY <2>2 DEF BeginRead, Goto, Types, lists, clients
  <2>3. CASE TaskDone(s)
    BY <2>3 DEF TaskDone, Goto, Types, lists, clients
  <2> QED
    BY <1>3, <2>1, <2>2, <2>3
<1>4. CASE CloseSlot(s) \/ Refuse(s)
  <2>1. CASE CloseSlot(s)
    BY <2>1 DEF CloseSlot, Close, Goto, Types, clients, lists
  <2>2. CASE Refuse(s)
    BY <2>2 DEF Refuse, Close, Goto, Types, clients, lists
  <2> QED
    BY <1>4, <2>1, <2>2
<1>5. CASE Read(s)
  <2>1. \E S \in {{}, {s}} : SetGameStarted(S)
    BY <1>5 DEF Read
  <2>2. sem'[x] = sem[x] /\ started'[x] = started[x]
    BY <2>1, SetGameStartedFacts
  <2>3. intro'[x] = intro[x]
    BY <1>5 DEF Read, Types
  <2>4. UNCHANGED <<clients, backlog, link, events, hungUp, given, lost, server, task>>
        /\ inbox'[x] = inbox[x] /\ chat'[x] = chat[x] /\ pending'[x] = pending[x]
        /\ pc'[x] = pc[x]
    BY <1>5 DEF Read, Goto, Types
  <2> QED
    BY <2>2, <2>3, <2>4 DEF clients
<1> QED
  BY <1>1, <1>2, <1>3, <1>4, <1>5 DEF Thread

\* Nothing that the invariant of the events is about changes at a slot.
LEMMA EventsStill ==
    ASSUME Types, Types', NEW x \in Slot, EventInv(x),
           events'[x] = events[x], task'[x] = task[x], pc'[x] = pc[x],
           link'[x] = "none" => link[x] = "none",
           started[x] => started'[x], sem[x] <= sem'[x]
    PROVE  EventInv(x)'
<1>1. events[x] \in Seq(Event)
  BY DEF Types
<1>2. Fewer(events'[x], events[x])
  BY <1>1, FewerFacts
<1> QED
  BY <1>2, EventStep DEF EventInv

LEMMA ThreadEvents ==
    ASSUME Types, Types', NEW s \in Slot, EventInv(s), Thread(s)
    PROVE  EventInv(s)'
<1>1. /\ events[s] \in Seq(Event) /\ sem[s] \in Nat
      /\ events \in [Slot -> Seq(Event)] /\ pc \in [Slot -> Pc]
      /\ task \in [Slot -> [id : Nat, trig : BOOLEAN]] /\ link \in [Slot -> {"none", "up", "down"}]
      /\ sem \in [Slot -> Nat] /\ started \in [Slot -> BOOLEAN]
  BY DEF Types
<1>2. CASE Top(s) \/ Turn(s) \/ Select(s)
  <2>1. task'[s].id = task[s].id /\ task'[s].id = 0
    BY <1>1, <1>2 DEF Top, Turn, Select, EventInv, NoTask
  <2>2. events' = events /\ link' = link /\ sem' = sem /\ started' = started
    BY <1>2 DEF Top, Turn, Select
  <2>3. Fewer(events'[s], events[s])
    BY <1>1, <2>2, FewerFacts
  <2>4. sem[s] <= sem'[s]
    BY <1>1, <2>2
  <2> QED
    BY <2>1, <2>2, <2>3, <2>4, EventStep
<1>3. CASE Wake(s)
  <2>1. /\ sem'[s] = sem[s] - 1 /\ sem[s] > 0 /\ events' = events /\ link' = link
        /\ started' = started /\ task[s].id = 0
    BY <1>1, <1>3 DEF Wake, EventInv
  <2>2. CASE started[s]
    <3>1. task' = task /\ pc'[s] = "top"
      BY <1>1, <1>3, <2>2 DEF Wake, Goto
    <3> QED
      BY <2>1, <2>2, <3>1 DEF EventInv
  <2>3. CASE ~started[s] /\ Waiting(s) = <<>>
    <3>1. task' = task /\ pc'[s] = "top"
      BY <1>1, <1>3, <2>3 DEF Wake, Goto
    <3>2. Range(Waiting(s)) = {e \in Range(events[s]) : ~e.done}
      BY <1>1, WaitingFacts, PurgeFacts
    <3>3. Range(Waiting(s)) = {}
      BY <2>3 DEF Range
    <3>4. OpenIds(s)' = {} /\ Left(s)' = {}
      BY <2>1, <3>2, <3>3 DEF OpenIds, Left
    <3>5. Cardinality(Left(s)') = 0
      BY <3>4, FS_EmptySet
    <3> QED
      BY <1>1, <2>1, <3>1, <3>5 DEF EventInv
  <2>4. CASE ~started[s] /\ Waiting(s) # <<>>
    <3> DEFINE e == Waiting(s)[1]
    <3>1. /\ e \in Event /\ e \in Range(events[s]) /\ ~e.done
      BY <2>4, WaitingFacts
    <3>2. task'[s].id = e.id /\ pc'[s] = "task"
      BY <1>1, <1>3, <2>4 DEF Wake, Goto
    <3> HIDE DEF e
    <3>3. e.id \in OpenIds(s) /\ e.id # 0
      BY <3>1 DEF OpenIds, EventInv
    <3>4. e.id \in Left(s) /\ Left(s)' = Left(s) \ {e.id}
      <4>1. 0 \notin OpenIds(s)
        BY DEF OpenIds, EventInv
      <4>2. OpenIds(s)' = OpenIds(s)
        BY <2>1 DEF OpenIds
      <4>3. Left(s) = OpenIds(s)
        BY <2>1, <4>1 DEF Left
      <4> QED
        BY <3>2, <3>3, <4>2, <4>3 DEF Left
    <3>5. Cardinality(Left(s)') = Cardinality(Left(s)) - 1 /\ Cardinality(Left(s)) \in Nat
      <4>1. IsFiniteSet(Left(s)) /\ Cardinality(Left(s)) \in Nat
        BY <1>1, LeftFinite
      <4>2. Cardinality(Left(s) \ {e.id}) = Cardinality(Left(s)) - 1
        BY <3>4, <4>1, FS_RemoveElement
      <4> QED
        BY <3>4, <4>1, <4>2
    <3>6. Cardinality(Left(s)') <= sem'[s]
      BY <1>1, <2>1, <2>4, <3>5 DEF EventInv
    <3> QED
      BY <2>1, <3>2, <3>6 DEF EventInv
  <2> QED
    BY <2>2, <2>3, <2>4
<1>4. CASE NothingToUpdate(s) \/ EndRead(s)
  <2>1. /\ events' = events /\ link' = link /\ sem' = sem /\ started' = started /\ task' = task
        /\ pc'[s] = "done"
    BY <1>1, <1>4 DEF NothingToUpdate, EndRead, Goto
  <2>2. Fewer(events'[s], events[s])
    BY <1>1, <2>1, FewerFacts
  <2>3. sem[s] <= sem'[s]
    BY <1>1, <2>1
  <2> QED
    BY <2>1, <2>2, <2>3, EventStep
<1>5. CASE Accept(s) \/ NobodyToAccept(s) \/ BeginRead(s)
  <2>1. /\ events'[s] = PurgeCompletedEvents(events[s]) /\ task' = task
        /\ pc'[s] \in {"read", "done"}
        /\ link'[s] = "none" => link[s] = "none"
    BY <1>1, <1>5 DEF Accept, NobodyToAccept, BeginRead, Goto, server
  <2>2. started[s] => started'[s]
    BY <1>5, SetGameStartedFacts DEF Accept, NobodyToAccept, BeginRead
  <2>3. sem[s] <= sem'[s]
    BY <1>1, <1>5, SetGameStartedFacts DEF Accept, NobodyToAccept, BeginRead
  <2>4. Fewer(events'[s], events[s])
    BY <1>1, <2>1, FewerFacts
  <2> QED
    BY <2>1, <2>2, <2>3, <2>4, EventStep
<1>6. CASE CloseSlot(s) \/ Refuse(s)
  <2>1. /\ events'[s] \in {SetAllEventsCompleted(events[s]),
                          SetAllEventsCompleted(PurgeCompletedEvents(events[s]))}
        /\ task' = task /\ sem' = sem /\ started' = started /\ pc'[s] = "done"
    BY <1>1, <1>6 DEF CloseSlot, Refuse, Close, Goto
  <2>2. Fewer(events'[s], events[s]) /\ \A e \in Range(events'[s]) : e.done
    BY <1>1, <2>1, FewerFacts
  <2> QED
    BY <1>1, <2>1, <2>2, EventStep
<1>7. CASE Read(s)
  <2>1. /\ events' = events /\ link' = link /\ task' = task /\ pc'[s] \in {"read", "done"}
        /\ \E S \in {{}, {s}} : SetGameStarted(S)
    BY <1>1, <1>7 DEF Read, Goto
  <2>2. (started[s] => started'[s]) /\ sem[s] <= sem'[s]
    BY <2>1, SetGameStartedFacts
  <2>3. Fewer(events'[s], events[s])
    BY <1>1, <2>1, FewerFacts
  <2> QED
    BY <2>1, <2>2, <2>3, EventStep
<1>8. CASE TaskDone(s)
  <2>1. /\ events'[s] = IF task[s].id > 0 THEN SetTaskCompleted(events[s], task[s].id) ELSE events[s]
        /\ task'[s].id = 0 /\ link' = link /\ sem' = sem /\ started' = started /\ pc'[s] = "top"
    BY <1>1, <1>8 DEF TaskDone, Goto, NoTask
  <2>2. Fewer(events'[s], events[s])
    BY <1>1, <2>1, FewerFacts
  <2>3. task[s].id > 0 => task[s].id \notin OpenIds(s)'
    <3> SUFFICES ASSUME task[s].id > 0,
                        NEW d \in Range(events'[s]), ~d.done, d.id = task[s].id
                 PROVE  FALSE
      BY DEF OpenIds
    <3> QED
      BY <1>1, <2>1, FewerFacts
  <2>4. task[s].id \in Nat
    BY <1>1
  <2> QED
    BY <1>1, <2>1, <2>2, <2>3, <2>4, EventStep
<1> QED
  BY <1>2, <1>3, <1>4, <1>5, <1>6, <1>7, <1>8 DEF Thread

\* The update of the lobby adds an event and a signal.
LEMMA SignalEvents ==
    ASSUME Types, Types', NEW x \in Slot, EventInv(x), SignalClients
    PROVE  EventInv(x)'
<1> DEFINE q == Waiting(x)
           e == [id |-> NewId(x), trig |-> HasData(x), done |-> FALSE]
<1>1. /\ events'[x] = IF x \in Signalled THEN Append(q, e) ELSE q
      /\ sem'[x] = IF x \in Signalled THEN sem[x] + 1 ELSE sem[x]
      /\ task' = task /\ pc' = pc /\ link' = link /\ started' = started
  BY DEF SignalClients, thread
<1>2. events[x] \in Seq(Event) /\ events'[x] \in Seq(Event) /\ sem[x] \in Nat
  BY DEF Types
<1>3. /\ NewId(x) \in Nat \ {0} /\ NewId(x) # task[x].id
      /\ \A d \in Range(events[x]) : NewId(x) # d.id
  BY NewIdFacts
<1>4. /\ q \in Seq(Event) /\ Fewer(q, events[x]) /\ Distinct(q)
      /\ Range(q) = {d \in Range(events[x]) : ~d.done}
  <2>1. q = PurgeCompletedEvents(events[x])
    BY WaitingFacts
  <2> HIDE DEF q
  <2> QED
    BY <1>2, <2>1, FewerFacts, PurgeFacts DEF EventInv, Fewer
<1>5. e \in Event
  BY <1>3 DEF Event, HasData
<1>6. e.id = NewId(x) /\ ~e.done /\ e.trig = HasData(x)
  OBVIOUS
<1> HIDE DEF q, e
<1>7. CASE x \notin Signalled
  BY <1>1, <1>2, <1>4, <1>7, EventStep DEF EventInv
<1>8. CASE x \in Signalled
  <2> DEFINE r == Append(q, e)
  <2>1. /\ DOMAIN q = 1 .. Len(q) /\ Len(q) \in Nat /\ DOMAIN r = 1 .. Len(q) + 1
        /\ \A i \in DOMAIN q : r[i] = q[i] /\ q[i] \in Range(q)
        /\ r[Len(q) + 1] = e
    BY <1>4, <1>5, AppendFacts DEF Range
  <2>2. events'[x] = r /\ sem'[x] = sem[x] + 1
    BY <1>1, <1>8
  <2> HIDE DEF r
  <2>3. Range(r) = Range(q) \cup {e}
    <3>1. \A i \in DOMAIN r : r[i] \in Range(q) \cup {e}
      BY <2>1
    <3>2. \A i \in DOMAIN q : q[i] \in Range(r)
      BY <2>1 DEF Range
    <3>3. e \in Range(r)
      BY <2>1 DEF Range
    <3> QED
      BY <3>1, <3>2, <3>3 DEF Range
  <2>4. Distinct(r)
    <3>1. \A i \in DOMAIN q : q[i].id # e.id
      BY <1>3, <1>4, <1>6, <2>1
    <3>2. \A i \in DOMAIN r : i \in DOMAIN q \/ i = Len(q) + 1
      BY <2>1
    <3> QED
      BY <1>4, <2>1, <3>1, <3>2 DEF Distinct
  <2>5. \A d \in Range(r) : d.id # 0
    BY <1>3, <1>4, <1>6, <2>3 DEF EventInv
  <2>6. link[x] = "none" => \A d \in Range(r) : ~d.done => ~d.trig
    BY <1>4, <1>6, <2>3 DEF EventInv, HasData, IsConnected
  <2>7. OpenIds(x)' = OpenIds(x) \cup {e.id}
    BY <1>4, <1>6, <2>2, <2>3 DEF OpenIds
  <2>8. Left(x)' = Left(x) \cup {e.id} /\ e.id \notin Left(x)
    <3>1. e.id \notin OpenIds(x)
      BY <1>3, <1>6 DEF OpenIds
    <3> QED
      BY <1>1, <1>3, <1>6, <2>7, <3>1 DEF Left
  <2>9. Cardinality(Left(x)') = Cardinality(Left(x)) + 1 /\ Cardinality(Left(x)) \in Nat
    BY <1>2, <2>8, LeftFinite, FS_AddElement
  <2>10. ~started[x] => Cardinality(Left(x)') <= sem'[x]
    BY <1>2, <2>2, <2>9 DEF EventInv
  <2> QED
    BY <1>1, <2>2, <2>4, <2>5, <2>6, <2>10 DEF EventInv
<1> QED
  BY <1>7, <1>8

LEMMA NextEvents ==
    ASSUME Types, Types', \A s \in Slot : EventInv(s), [Next]_vars, NEW x \in Slot
    PROVE  EventInv(x)'
<1>1. EventInv(x) /\ sem[x] \in Nat
  BY DEF Types
<1>2. ASSUME NEW s \in Slot, Thread(s) PROVE EventInv(x)'
  <2>1. CASE x = s
    BY <1>2, <2>1, ThreadEvents
  <2>2. CASE x # s
    BY <1>1, <1>2, <2>2, ThreadElsewhere, EventsStill
  <2> QED
    BY <2>1, <2>2
<1>3. ASSUME UNCHANGED <<events, task, pc, started, sem>>, link'[x] = "none" => link[x] = "none"
      PROVE  EventInv(x)'
  BY <1>1, <1>3, EventsStill
<1>4. ASSUME NEW s \in Slot, Client(s) PROVE EventInv(x)'
  <2>1. UNCHANGED <<events, task, pc, started, sem>>
    BY <1>4 DEF Client, SendIntro, SendText, SendReady, SendCommand, Send, PeerGone, thread
  <2>2. link' = link \/ link' = [link EXCEPT ![s] = "down"]
    BY <1>4 DEF Client, SendIntro, SendText, SendReady, SendCommand, Send, PeerGone
  <2>3. link'[x] = "none" => link[x] = "none"
    BY <2>2 DEF Types
  <2> QED
    BY <1>3, <2>1, <2>3
<1>5. ASSUME NEW s \in Slot, HangUp(s) PROVE EventInv(x)'
  <2>1. /\ events'[x] = IF x = s THEN SetAllEventsCompleted(events[s]) ELSE events[x]
        /\ task' = task /\ pc' = pc /\ started' = started /\ sem' = sem
        /\ x # s => link'[x] = link[x]
    BY <1>5 DEF HangUp, Close, Types, thread
  <2>2. events[x] \in Seq(Event)
    BY DEF Types
  <2>3. Fewer(events'[x], events[x]) /\ (x = s => \A e \in Range(events'[x]) : e.done)
    BY <2>1, <2>2, FewerFacts
  <2> QED
    BY <1>1, <2>1, <2>3, EventStep DEF EventInv
<1>6. CASE SignalClients
  BY <1>1, <1>6, SignalEvents
<1>7. CASE (\E s \in Slot : ReceiveWhileLoading(s)) \/ StartGame
  <2>1. /\ UNCHANGED <<events, task, pc, link>>
        /\ \E S : SetGameStarted(S)
    BY <1>7 DEF ReceiveWhileLoading, StartGame, thread
  <2>2. (started[x] => started'[x]) /\ sem[x] <= sem'[x]
    BY <2>1, SetGameStartedFacts
  <2> QED
    BY <1>1, <2>1, <2>2, EventsStill
<1>8. CASE \/ Knock \/ LaunchGame \/ GameInitiated \/ (\E s \in Slot : SeeCompleted(s))
           \/ AllCompleted \/ WaitTooLong \/ ExecuteNetworkCommands \/ UpdateDone
           \/ (\E s \in Slot : TakeTexts(s) \/ ClearTexts(s) \/ NoTexts(s)) \/ UNCHANGED vars
  <2>1. UNCHANGED <<events, task, pc, started, sem, link>>
    BY <1>8 DEF Knock, LaunchGame, GameInitiated, SeeCompleted, AllCompleted, WaitTooLong, EndWait,
       ExecuteNetworkCommands, UpdateDone, TakeTexts, ClearTexts, NoTexts, vars, thread
  <2> QED
    BY <1>3, <2>1
<1> QED
  BY <1>2, <1>4, <1>5, <1>6, <1>7, <1>8 DEF Next, Server

LEMMA InitEvents ==
    ASSUME Init, NEW x \in Slot
    PROVE  EventInv(x)
<1>1. events[x] = <<>> /\ task[x] = NoTask /\ sem[x] = 0
  BY DEF Init
<1>2. Left(x) = {} /\ Range(events[x]) = {}
  BY <1>1 DEF Left, OpenIds, Range
<1>3. Cardinality(Left(x)) = 0
  BY <1>2, FS_EmptySet
<1> QED
  BY <1>1, <1>2, <1>3 DEF EventInv, Distinct, NoTask

\* A thread that sleeps before the game has a signal for every event that is not done,
\* however the main thread and it interleave (EventsAreSignalled).
THEOREM EventsAreSignalledHolds == Spec => []EventsAreSignalled
<1> DEFINE Inv == Types /\ \A s \in Slot : EventInv(s)
<1>1. Init => Inv
  BY InitTypes, InitEvents
<1>2. Inv /\ [Next]_vars => Inv'
  BY NextTypes, NextEvents
<1>3. ASSUME Inv PROVE EventsAreSignalled
  <2> SUFFICES ASSUME NEW s \in Slot, pc[s] = "wait", ~started[s]
               PROVE  Len(Waiting(s)) <= sem[s]
    BY DEF EventsAreSignalled
  <2> DEFINE q == Waiting(s)
             f == [i \in 1 .. Len(q) |-> q[i].id]
  <2>1. events[s] \in Seq(Event) /\ EventInv(s)
    BY <1>3 DEF Types
  <2>2. /\ q \in Seq(Event) /\ Distinct(q)
        /\ Range(q) = {e \in Range(events[s]) : ~e.done}
    <3>1. q = PurgeCompletedEvents(events[s])
      BY <1>3, WaitingFacts
    <3> HIDE DEF q
    <3> QED
      BY <2>1, <3>1, PurgeFacts DEF EventInv, Distinct
  <2> HIDE DEF q
  <2>3. Len(q) \in Nat /\ DOMAIN q = 1 .. Len(q)
    BY <2>2
  <2>4. OpenIds(s) = {q[i].id : i \in 1 .. Len(q)}
    BY <2>2, <2>3 DEF OpenIds, Range
  <2>5. f \in Injection(1 .. Len(q), OpenIds(s))
    BY <2>2, <2>3, <2>4 DEF Injection, IsInjective, Distinct
  <2> HIDE DEF f
  <2>6. Cardinality(1 .. Len(q)) = Len(q)
    <3>1. 1 \in Int /\ Len(q) \in Int /\ Len(q) >= 0
      BY <2>3
    <3>2. Cardinality(1 .. Len(q)) = IF 1 > Len(q) THEN 0 ELSE Len(q) - 1 + 1
      BY <3>1, FS_Interval
    <3> QED
      BY <3>1, <3>2
  <2>7. Len(q) <= Cardinality(OpenIds(s))
    BY <2>1, <2>5, <2>6, LeftFinite, FS_Injection
  <2>8. Left(s) = OpenIds(s)
    BY <2>1 DEF EventInv, Left, OpenIds
  <2>9. Cardinality(Left(s)) <= sem[s] /\ sem[s] \in Nat /\ Cardinality(Left(s)) \in Nat
    BY <1>3, <2>1, LeftFinite DEF EventInv, Types
  <2> QED
    BY <2>3, <2>7, <2>8, <2>9 DEF q
<1> HIDE DEF Inv
<1>4. Inv => EventsAreSignalled
  BY <1>3
<1> QED
  BY <1>1, <1>2, <1>4, PTL DEF Spec

-----------------------------------------------------------------------------
(* The texts. *)

\* The thread reads what its client has sent, or is about to.
Reading(s) == pc[s] = "read" \/ (pc[s] = "task" /\ task[s].trig)

\* The events that tell it to and are not done.
ToRead(s) == {e \in Range(events[s]) : ~e.done /\ e.trig}

\* A connected slot in the lobby, as long as the main thread has always waited: it does
\* not read but while the main thread waits for it, and then there is nothing left to relay.
Attended(s) ==
    /\ Reading(s) => /\ main = "wait" /\ awaited[s] = task[s].id /\ task[s].id # 0
                     /\ ~IsSignalCompleted(s)
    /\ \A e \in ToRead(s) : main = "wait" /\ e.id = awaited[s]
    /\ chat[s] # << >> =>
           /\ main = "wait" \/ (main \in {"chat", "relay"} /\ s \in todo)
           /\ ~(pc[s] = "task" /\ task[s].trig)
           /\ \A e \in ToRead(s) : pc[s] \in {"read", "done"} /\ e.id = task[s].id

Quiet(s) ==
    /\ ~started[s]
    /\ pc[s] \notin {"turn", "select"}
    /\ link[s] = "up" => Attended(s)

TextInv(s) ==
    /\ late \/ Initiated \/ Quiet(s)
    /\ intro[s] = "join" => Initiated

RelayInv ==
    /\ main = "relay" => at \notin todo
    /\ lost => late \/ Initiated

\* Nothing that the invariant of the texts is about changes at a slot.
LEMMA TextsStill ==
    ASSUME NEW x, TextInv(x),
           events'[x] = events[x], task'[x] = task[x], pc'[x] = pc[x], link'[x] = link[x],
           chat'[x] = chat[x], intro'[x] = intro[x], started'[x] = started[x],
           awaited'[x] = awaited[x], UNCHANGED <<main, todo, late, phase>>
    PROVE  TextInv(x)'
BY DEF TextInv, Quiet, Attended, Reading, ToRead, Initiated, IsSignalCompleted

\* The slot has no connected client, or will have none.
LEMMA TextsOff ==
    ASSUME NEW x, TextInv(x), started'[x] = started[x],
           pc'[x] = pc[x] \/ pc'[x] \notin {"turn", "select"},
           link'[x] # "up", intro'[x] \in {"no", intro[x]}, UNCHANGED <<late, phase>>
    PROVE  TextInv(x)'
BY DEF TextInv, Quiet, Initiated

\* The connected client is not read for the moment and no event is added.
LEMMA TextsPass ==
    ASSUME Types, NEW x \in Slot, TextInv(x),
           Fewer(events'[x], events[x]), link'[x] = link[x], chat'[x] = chat[x],
           intro'[x] = intro[x], started'[x] = started[x], awaited'[x] = awaited[x],
           UNCHANGED <<main, todo, late, phase>>,
           pc'[x] \notin {"turn", "select"}, ~Reading(x)',
           chat[x] = << >> \/ ToRead(x)' = {} \/ (pc'[x] = "done" /\ task' = task)
    PROVE  TextInv(x)'
<1>1. \A d \in ToRead(x)' : \E e \in ToRead(x) : d.id = e.id
  <2> SUFFICES ASSUME NEW d \in ToRead(x)' PROVE \E e \in ToRead(x) : d.id = e.id
    OBVIOUS
  <2>1. d \in Range(events'[x]) /\ ~d.done /\ d.trig
    BY DEF ToRead
  <2>2. PICK e \in Range(events[x]) : d.id = e.id /\ (~d.done => ~e.done /\ d.trig = e.trig)
    BY <2>1 DEF Fewer
  <2>3. e \in ToRead(x)
    BY <2>1, <2>2 DEF ToRead
  <2> QED
    BY <2>2, <2>3
<1>2. (intro'[x] = "join" => Initiated') /\ (Initiated' <=> Initiated) /\ (late' <=> late)
  BY DEF TextInv, Initiated
<1>3. ASSUME ~late, ~Initiated PROVE Quiet(x)'
  <2>1. Quiet(x)
    BY <1>3 DEF TextInv
  <2>2. ASSUME link[x] = "up" PROVE Attended(x)'
    <3>1. Attended(x)
      BY <2>1, <2>2 DEF Quiet
    <3>2. \A d \in ToRead(x)' : main' = "wait" /\ d.id = awaited'[x]
      BY <1>1, <3>1 DEF Attended
    <3>3. ASSUME chat'[x] # << >>
          PROVE  /\ main' = "wait" \/ (main' \in {"chat", "relay"} /\ x \in todo')
                 /\ ~(pc'[x] = "task" /\ task'[x].trig)
                 /\ \A e \in ToRead(x)' : pc'[x] \in {"read", "done"} /\ e.id = task'[x].id
      <4>1. /\ main = "wait" \/ (main \in {"chat", "relay"} /\ x \in todo)
            /\ \A e \in ToRead(x) : e.id = task[x].id
        BY <3>1, <3>3 DEF Attended
      <4>2. \A e \in ToRead(x)' : pc'[x] = "done" /\ task' = task /\ e.id = task[x].id
        BY <1>1, <3>3, <4>1
      <4>3. ~(pc'[x] = "task" /\ task'[x].trig)
        BY DEF Reading
      <4> QED
        BY <4>1, <4>2, <4>3
    <3>4. Reading(x)' => /\ main' = "wait" /\ awaited'[x] = task'[x].id /\ task'[x].id # 0
                         /\ ~IsSignalCompleted(x)'
      OBVIOUS
    <3> QED
      BY <3>2, <3>3, <3>4 DEF Attended
  <2>3. ~started'[x]
    BY <2>1 DEF Quiet
  <2> QED
    BY <2>2, <2>3 DEF Quiet
<1> QED
  BY <1>2, <1>3 DEF TextInv

LEMMA ThreadTexts ==
    ASSUME Types, NEW s \in Slot, EventInv(s), TextInv(s), RelayInv, Thread(s)
    PROVE  TextInv(s)' /\ RelayInv'
<1>1. /\ events[s] \in Seq(Event)
      /\ events \in [Slot -> Seq(Event)] /\ pc \in [Slot -> Pc]
      /\ task \in [Slot -> [id : Nat, trig : BOOLEAN]] /\ link \in [Slot -> {"none", "up", "down"}]
      /\ chat \in [Slot -> Seq(Text)] /\ intro \in [Slot -> {"no", "join", "yes"}]
      /\ late \in BOOLEAN /\ lost \in BOOLEAN
  BY DEF Types
<1>2. UNCHANGED server /\ Initiated' = Initiated
  BY DEF Thread, Top, Turn, Select, Wake, NothingToUpdate, Accept, NobodyToAccept, CloseSlot,
     BeginRead, Read, Refuse, EndRead, TaskDone, server, Initiated
<1>3. UNCHANGED <<main, todo, late, phase, at, awaited>>
  BY <1>2 DEF server
<1>4. ASSUME lost' = lost PROVE RelayInv'
  BY <1>2, <1>3, <1>4 DEF RelayInv
<1>5. Initiated \/ late => TextInv(s)' \/ intro'[s] = "join"
  BY <1>2, <1>3 DEF TextInv
<1>6. CASE Top(s)
  <2>1. /\ task'[s] = NoTask /\ pc'[s] \in {"task", "turn", "wait"}
        /\ pc'[s] = "turn" => started[s]
        /\ UNCHANGED <<events, link, chat, intro, started, lost>>
    BY <1>1, <1>6 DEF Top, Goto, lists
  <2>2. ~Reading(s)'
    BY <2>1 DEF Reading, NoTask
  <2>3. CASE late \/ Initiated
    BY <1>2, <1>3, <1>4, <2>1, <2>3 DEF TextInv
  <2>4. CASE ~late /\ ~Initiated /\ link[s] = "up"
    <3>1. Quiet(s) /\ Attended(s)
      BY <2>4 DEF TextInv, Quiet
    <3>2. chat[s] # << >> => ToRead(s) = {}
      BY <1>6, <3>1 DEF Attended, Top
    <3>3. ToRead(s)' = ToRead(s) /\ Fewer(events'[s], events[s])
      BY <1>1, <2>1, FewerFacts DEF ToRead
    <3>4. pc'[s] \notin {"turn", "select"}
      BY <2>1, <3>1 DEF Quiet
    <3> QED
      BY <1>3, <1>4, <2>1, <2>2, <3>2, <3>3, <3>4, TextsPass
  <2>5. CASE ~late /\ ~Initiated /\ link[s] # "up"
    <3>1. pc'[s] \notin {"turn", "select"}
      BY <2>1, <2>5 DEF TextInv, Quiet
    <3> QED
      BY <1>3, <1>4, <2>1, <2>5, <3>1, TextsOff
  <2> QED
    BY <2>3, <2>4, <2>5
<1>7. CASE Turn(s) \/ Select(s)
  <2>1. late \/ Initiated
    BY <1>7 DEF TextInv, Quiet, Turn, Select
  <2> QED
    BY <1>2, <1>3, <1>4, <1>7, <2>1 DEF Turn, Select, TextInv, lists
<1>8. CASE Wake(s)
  <2>1. UNCHANGED <<events, link, chat, intro, started, lost>>
    BY <1>8 DEF Wake, lists
  <2>2. CASE late \/ Initiated
    BY <1>2, <1>3, <1>4, <2>1, <2>2 DEF TextInv
  <2>3. CASE ~late /\ ~Initiated /\ link[s] # "up"
    <3>1. pc'[s] \notin {"turn", "select"}
      BY <1>1, <1>8 DEF Wake, Goto
    <3> QED
      BY <1>3, <1>4, <2>1, <2>3, <3>1, TextsOff
  <2>4. CASE ~late /\ ~Initiated /\ link[s] = "up"
    <3>1. Quiet(s) /\ Attended(s) /\ pc[s] = "wait" /\ ~started[s]
      BY <1>8, <2>4 DEF TextInv, Quiet, Wake
    <3>2. chat[s] # << >> => ToRead(s) = {}
      BY <3>1 DEF Attended
    <3>3. ToRead(s)' = ToRead(s) /\ Fewer(events'[s], events[s])
      BY <1>1, <2>1, FewerFacts DEF ToRead
    <3>4. CASE Waiting(s) = << >>
      <4>1. pc'[s] = "top"
        BY <1>1, <1>8, <3>4 DEF Wake, Goto
      <4> QED
        BY <1>3, <1>4, <2>1, <3>2, <3>3, <4>1, TextsPass DEF Reading
    <3>5. CASE Waiting(s) # << >>
      <4> DEFINE e == Waiting(s)[1]
      <4>1. e \in Event /\ e \in Range(events[s]) /\ ~e.done
        BY <3>5, WaitingFacts
      <4>2. pc'[s] = "task" /\ task'[s].id = e.id /\ task'[s].trig = e.trig
        BY <1>1, <1>8, <3>1, <3>5 DEF Wake, Goto
      <4> HIDE DEF e
      <4>3. CASE ~e.trig
        BY <1>3, <1>4, <2>1, <3>2, <3>3, <4>2, <4>3, TextsPass DEF Reading
      <4>4. CASE e.trig
        <5>1. e \in ToRead(s)
          BY <4>1, <4>4 DEF ToRead
        <5>2. main = "wait" /\ e.id = awaited[s] /\ chat[s] = << >> /\ e.id # 0
          BY <3>1, <3>2, <4>1, <5>1 DEF Attended, EventInv
        <5>3. ~IsSignalCompleted(s)'
          <6> SUFFICES ASSUME NEW d \in Range(events[s]), d.id = e.id, d.done PROVE FALSE
            BY <1>3, <2>1, <5>2 DEF IsSignalCompleted
          <6>1. d = e
            BY <4>1 DEF EventInv, Distinct, Range
          <6> QED
            BY <4>1, <6>1
        <5>4. Attended(s)'
          BY <1>3, <2>1, <3>1, <3>3, <4>2, <5>2, <5>3 DEF Attended
        <5>5. Quiet(s)'
          BY <2>1, <3>1, <4>2, <5>4 DEF Quiet
        <5> QED
          BY <1>2, <1>4, <2>1, <5>5 DEF TextInv
      <4> QED
        BY <4>3, <4>4
    <3> QED
      BY <3>4, <3>5
  <2> QED
    BY <2>2, <2>3, <2>4
<1>9. CASE NothingToUpdate(s) \/ EndRead(s)
  <2>1. /\ UNCHANGED <<events, link, chat, intro, started, lost, task>> /\ pc'[s] = "done"
    BY <1>1, <1>9 DEF NothingToUpdate, EndRead, Goto, lists
  <2>2. Fewer(events'[s], events[s])
    BY <1>1, <2>1, FewerFacts
  <2> QED
    BY <1>3, <1>4, <2>1, <2>2, TextsPass DEF Reading
<1>10. CASE NobodyToAccept(s)
  <2>1. /\ UNCHANGED <<link, intro, started, lost>> /\ pc'[s] = "done" /\ link[s] = "none"
    BY <1>1, <1>10 DEF NobodyToAccept, Goto, lists
  <2> QED
    BY <1>3, <1>4, <2>1, TextsOff
<1>11. CASE CloseSlot(s) \/ Refuse(s)
  <2>1. /\ UNCHANGED <<started, lost>> /\ pc'[s] = "done" /\ link'[s] = "none"
        /\ intro'[s] = "no"
    BY <1>1, <1>11 DEF CloseSlot, Refuse, Close, Goto, lists
  <2> QED
    BY <1>3, <1>4, <2>1, TextsOff
<1>12. CASE Accept(s)
  <2>1. /\ pc'[s] = "done" /\ intro'[s] = "no" /\ lost' = lost /\ link[s] = "none"
        /\ chat'[s] = << >> /\ events'[s] = PurgeCompletedEvents(events[s])
    BY <1>1, <1>12 DEF Accept, Goto
  <2>2. CASE late \/ Initiated
    BY <1>2, <1>3, <1>4, <2>1, <2>2 DEF TextInv
  <2>3. CASE ~late /\ ~Initiated
    <3>1. SetGameStarted({}) /\ Quiet(s)
      BY <1>12, <2>3 DEF Accept, TextInv
    <3>2. ~started'[s]
      BY <3>1, SetGameStartedFacts DEF Quiet
    <3>3. ToRead(s)' = {}
      <4>1. Range(events'[s]) = {e \in Range(events[s]) : ~e.done}
        BY <1>1, <2>1, PurgeFacts
      <4> QED
        BY <2>1, <4>1 DEF ToRead, EventInv
    <3>4. ~Reading(s)'
      BY <2>1 DEF Reading
    <3>5. Attended(s)'
      BY <2>1, <3>3, <3>4 DEF Attended
    <3> QED
      BY <1>4, <2>1, <3>2, <3>5 DEF TextInv, Quiet
  <2> QED
    BY <2>2, <2>3
<1>13. CASE BeginRead(s)
  <2>1. /\ UNCHANGED <<link, intro, started, task>> /\ pc'[s] = "read" /\ pc[s] = "task"
        /\ events'[s] = PurgeCompletedEvents(events[s]) /\ link[s] = "up" /\ chat'[s] = << >>
        /\ lost' = (lost \/ chat[s] # << >>) /\ task[s].trig
    <3>1. task[s].trig
      BY <1>13 DEF BeginRead, MustUpdate
    <3>2. /\ UNCHANGED <<link, intro, started, task>> /\ pc'[s] = "read" /\ pc[s] = "task"
          /\ events'[s] = PurgeCompletedEvents(events[s]) /\ link[s] = "up" /\ chat'[s] = << >>
          /\ lost' = (lost \/ chat[s] # << >>)
      BY <1>1, <1>13 DEF BeginRead, IsConnected, Goto
    <3> QED
      BY <3>1, <3>2
  <2>2. CASE late \/ Initiated
    BY <1>2, <1>3, <2>1, <2>2 DEF TextInv, RelayInv
  <2>3. CASE ~late /\ ~Initiated
    <3>1. Quiet(s) /\ Attended(s)
      BY <2>1, <2>3 DEF TextInv, Quiet
    <3>2. /\ main = "wait" /\ awaited[s] = task[s].id /\ task[s].id # 0 /\ ~IsSignalCompleted(s)
          /\ chat[s] = << >>
      BY <2>1, <3>1 DEF Attended, Reading
    <3>3. Range(events'[s]) = {e \in Range(events[s]) : ~e.done}
      BY <1>1, <2>1, PurgeFacts
    <3>4. ~IsSignalCompleted(s)' /\ ToRead(s)' \subseteq ToRead(s)
      BY <3>3 DEF IsSignalCompleted, ToRead
    <3>5. Attended(s)'
      BY <1>3, <2>1, <3>1, <3>2, <3>4 DEF Attended
    <3>6. TextInv(s)'
      BY <1>2, <2>1, <3>1, <3>5 DEF TextInv, Quiet
    <3>7. ~lost'
      BY <2>1, <2>3, <3>2 DEF RelayInv
    <3> QED
      BY <1>3, <3>6, <3>7 DEF RelayInv
  <2> QED
    BY <2>2, <2>3
<1>14. CASE Read(s)
  <2>1. /\ UNCHANGED <<link, events, task, lost>> /\ pc[s] = "read" /\ link[s] = "up"
        /\ pc'[s] \in {"read", "done"}
    BY <1>1, <1>14 DEF Read, Goto, IsConnected
  <2>2. CASE late \/ Initiated
    <3>1. intro'[s] = "join" => Initiated
      BY <1>1, <1>14 DEF Read, TextInv
    <3> QED
      BY <1>2, <1>3, <1>4, <2>1, <2>2, <3>1 DEF TextInv
  <2>3. CASE ~late /\ ~Initiated
    <3>1. Quiet(s) /\ Attended(s) /\ intro[s] # "join"
      BY <2>1, <2>3 DEF TextInv, Quiet
    <3>2. intro'[s] # "join" /\ SetGameStarted({})
      BY <1>1, <1>14, <2>3, <3>1 DEF Read
    <3>3. ~started'[s]
      BY <3>1, <3>2, SetGameStartedFacts DEF Quiet
    <3>4. /\ main = "wait" /\ awaited[s] = task[s].id /\ task[s].id # 0 /\ ~IsSignalCompleted(s)
      BY <2>1, <3>1 DEF Attended, Reading
    <3>5. ToRead(s)' = ToRead(s) /\ ~IsSignalCompleted(s)'
      BY <1>3, <2>1, <3>4 DEF ToRead, IsSignalCompleted
    <3>6. \A e \in ToRead(s) : e.id = awaited[s]
      BY <3>1 DEF Attended
    <3>7. Attended(s)'
      BY <1>3, <2>1, <3>4, <3>5, <3>6 DEF Attended
    <3> QED
      BY <1>4, <2>1, <3>2, <3>3, <3>7 DEF TextInv, Quiet
  <2> QED
    BY <2>2, <2>3
<1>15. CASE TaskDone(s)
  <2>1. /\ UNCHANGED <<link, chat, intro, started, lost>> /\ pc'[s] = "top" /\ pc[s] = "done"
        /\ events'[s] = IF task[s].id > 0 THEN SetTaskCompleted(events[s], task[s].id)
                                          ELSE events[s]
    BY <1>1, <1>15 DEF TaskDone, Goto, lists
  <2>2. CASE late \/ Initiated
    BY <1>2, <1>3, <1>4, <2>1, <2>2 DEF TextInv
  <2>3. CASE ~late /\ ~Initiated /\ link[s] # "up"
    BY <1>3, <1>4, <2>1, <2>3, TextsOff
  <2>4. CASE ~late /\ ~Initiated /\ link[s] = "up"
    <3>1. Attended(s)
      BY <2>4 DEF TextInv, Quiet
    <3>2. Fewer(events'[s], events[s])
      BY <1>1, <2>1, FewerFacts
    <3>3. ASSUME chat[s] # << >>, NEW d \in ToRead(s)' PROVE FALSE
      <4>1. \A e \in ToRead(s) : e.id = task[s].id /\ e.id # 0
        BY <3>1, <3>3 DEF Attended, ToRead, EventInv
      <4>2. d \in Range(events'[s]) /\ ~d.done /\ d.trig
        BY <3>3 DEF ToRead
      <4>3. PICK e \in Range(events[s]) : d.id = e.id /\ ~e.done /\ e.trig
        BY <3>2, <4>2 DEF Fewer
      <4>4. e \in ToRead(s)
        BY <4>3 DEF ToRead
      <4>5. d.id = task[s].id /\ task[s].id # 0 /\ task[s].id \in Nat
        BY <1>1, <4>1, <4>3, <4>4
      <4>6. events'[s] = SetTaskCompleted(events[s], task[s].id)
        BY <2>1, <4>5
      <4> QED
        BY <1>1, <4>2, <4>5, <4>6, FewerFacts
    <3>4. ~Reading(s)'
      BY <2>1 DEF Reading
    <3> QED
      BY <1>3, <1>4, <2>1, <3>2, <3>3, <3>4, TextsPass
  <2> QED
    BY <2>2, <2>3, <2>4
<1> QED
  BY <1>6, <1>7, <1>8, <1>9, <1>10, <1>11, <1>12, <1>13, <1>14, <1>15 DEF Thread

\* The main thread has nothing to read from a slot when it does not wait.
LEMMA NotWaiting ==
    ASSUME NEW x, TextInv(x), ~late, ~Initiated, link[x] = "up", main # "wait"
    PROVE  ~Reading(x) /\ ToRead(x) = {}
BY DEF TextInv, Quiet, Attended

\* What a step of the main thread must see to when it does not touch the threads.
LEMMA TextsMain ==
    ASSUME Types, NEW x \in Slot, TextInv(x),
           UNCHANGED <<pc, task, link, intro, started>>,
           Initiated => Initiated',
           late => late',
           ~late' /\ ~Initiated' /\ link[x] = "up" =>
               /\ ~Reading(x)
               /\ ToRead(x)' = {}
               /\ chat'[x] # << >> => main' \in {"chat", "relay"} /\ x \in todo'
    PROVE  TextInv(x)'
<1>1. intro'[x] = "join" => Initiated'
  BY DEF TextInv
<1>2. ASSUME ~late', ~Initiated' PROVE Quiet(x)'
  <2>1. Quiet(x)
    BY <1>2 DEF TextInv
  <2>2. Reading(x)' = Reading(x)
    BY DEF Reading
  <2>3. link[x] = "up" => Attended(x)'
    BY <1>2, <2>2 DEF Attended, Reading
  <2> QED
    BY <2>1, <2>3 DEF Quiet
<1> QED
  BY <1>1, <1>2 DEF TextInv

LEMMA SignalTexts ==
    ASSUME Types, Types', \A s \in Slot : EventInv(s), NEW x \in Slot, TextInv(x), SignalClients
    PROVE  TextInv(x)'
<1> DEFINE q == Waiting(x)
           e == [id |-> NewId(x), trig |-> HasData(x), done |-> FALSE]
<1>1. /\ events'[x] = IF x \in Signalled THEN Append(q, e) ELSE q
      /\ awaited'[x] = IF x \in Signalled /\ HasData(x) THEN NewId(x) ELSE 0
      /\ UNCHANGED <<pc, task, link, intro, started, chat, phase, late>>
      /\ main' = "wait" /\ main = "idle"
  BY DEF SignalClients, thread, lists
<1>2. /\ q \in Seq(Event) /\ Range(q) = {d \in Range(events[x]) : ~d.done}
  <2>1. q = PurgeCompletedEvents(events[x]) /\ events[x] \in Seq(Event)
    BY WaitingFacts DEF Types
  <2> HIDE DEF q
  <2> QED
    BY <2>1, PurgeFacts
<1>3. e \in Event
  BY NewIdFacts DEF Event, HasData
<1>4. e.id = NewId(x) /\ ~e.done /\ e.trig = HasData(x)
  OBVIOUS
<1> HIDE DEF q, e
<1>5. Range(events'[x]) \subseteq Range(q) \cup {e} /\ (e \in Range(events'[x]) => x \in Signalled \/ e \in Range(q))
  <2>1. Range(Append(q, e)) \subseteq Range(q) \cup {e}
    BY <1>2, <1>3, AppendFacts DEF Range
  <2> QED
    BY <1>1, <2>1
<1>6. ASSUME ~late, ~Initiated, link[x] = "up" PROVE Attended(x)'
  <2>1. ~Reading(x) /\ ToRead(x) = {} /\ Attended(x)
    BY <1>1, <1>6, NotWaiting DEF TextInv, Quiet
  <2>2. chat[x] = << >>
    BY <1>1, <2>1 DEF Attended
  <2>3. ASSUME NEW d \in ToRead(x)' PROVE d.id = awaited'[x]
    <3>1. d \in Range(events'[x]) /\ ~d.done /\ d.trig
      BY <2>3 DEF ToRead
    <3>2. d \notin Range(q)
      BY <1>2, <2>1, <3>1 DEF ToRead
    <3>3. d = e /\ x \in Signalled
      BY <1>5, <3>1, <3>2
    <3> QED
      BY <1>1, <1>4, <3>1, <3>3
  <2>4. ~Reading(x)'
    BY <1>1, <2>1 DEF Reading
  <2> QED
    BY <1>1, <2>2, <2>3, <2>4 DEF Attended
<1>7. Initiated' = Initiated
  BY <1>1 DEF Initiated
<1> QED
  BY <1>1, <1>6, <1>7 DEF TextInv, Quiet

\* An event that the main thread has seen completed is not one to read.
LEMMA CompletedIsRead ==
    ASSUME Types, NEW x \in Slot, EventInv(x), TextInv(x), ~late, ~Initiated, link[x] = "up",
           awaited[x] = 0 \/ IsSignalCompleted(x)
    PROVE  ~Reading(x) /\ ToRead(x) = {}
<1>1. Attended(x)
  BY DEF TextInv, Quiet
<1>2. ~Reading(x)
  BY <1>1 DEF Attended
<1>3. ASSUME NEW d \in ToRead(x) PROVE FALSE
  <2>1. d \in Range(events[x]) /\ ~d.done /\ d.id = awaited[x] /\ d.id # 0
    BY <1>1, <1>3 DEF Attended, ToRead, EventInv
  <2>2. PICK c \in Range(events[x]) : c.id = awaited[x] /\ c.done
    BY <2>1 DEF IsSignalCompleted
  <2>3. c = d
    BY <2>1, <2>2 DEF EventInv, Distinct, Range
  <2> QED
    BY <2>1, <2>2, <2>3
<1> QED
  BY <1>2, <1>3

LEMMA MainTexts ==
    ASSUME Types, Types', \A s \in Slot : EventInv(s), \A s \in Slot : TextInv(s), RelayInv,
           Server, NEW x \in Slot
    PROVE  TextInv(x)' /\ RelayInv'
<1>1. TextInv(x) /\ EventInv(x) /\ late \in BOOLEAN /\ lost \in BOOLEAN
  BY DEF Types
<1>2. CASE SignalClients
  <2>1. UNCHANGED <<lost, late, phase>> /\ main' = "wait"
    BY <1>2 DEF SignalClients, lists
  <2>2. RelayInv'
    BY <2>1 DEF RelayInv, Initiated
  <2> QED
    BY <1>1, <1>2, <2>2, SignalTexts
<1>3. CASE \E s \in Slot : SeeCompleted(s)
  <2>1. PICK s \in Slot : SeeCompleted(s)
    BY <1>3
  <2>2. /\ UNCHANGED <<events, task, pc, link, chat, intro, started, main, todo, late, phase, lost,
                       at>>
        /\ awaited' = [awaited EXCEPT ![s] = 0] /\ link[s] = "up" /\ IsSignalCompleted(s)
    BY <2>1 DEF SeeCompleted, lists, thread, IsConnected
  <2>3. RelayInv'
    BY <2>2 DEF RelayInv, Initiated
  <2>4. CASE x # s
    <3>1. awaited'[x] = awaited[x]
      BY <2>2, <2>4 DEF Types
    <3> QED
      BY <1>1, <2>2, <2>3, <3>1, TextsStill
  <2>5. CASE x = s /\ ~late /\ ~Initiated
    <3>1. ~Reading(s) /\ ToRead(s) = {}
      BY <1>1, <2>2, <2>5, CompletedIsRead
    <3>2. Attended(s)
      BY <1>1, <2>2, <2>5 DEF TextInv, Quiet
    <3>3. Reading(s)' = Reading(s) /\ ToRead(s)' = ToRead(s)
      BY <2>2 DEF Reading, ToRead
    <3>4. Attended(s)'
      BY <2>2, <3>1, <3>2, <3>3 DEF Attended
    <3> QED
      BY <1>1, <2>2, <2>3, <2>5, <3>4 DEF TextInv, Quiet, Initiated
  <2>6. CASE x = s /\ (late \/ Initiated)
    BY <1>1, <2>2, <2>3, <2>6 DEF TextInv, Initiated
  <2> QED
    BY <2>4, <2>5, <2>6
<1>4. CASE AllCompleted
  <2>1. /\ UNCHANGED <<events, task, pc, link, chat, intro, started, late, phase, lost, at>>
        /\ main' = "chat" /\ todo' = Slot /\ Outstanding = {}
    BY <1>4 DEF AllCompleted, EndWait, lists, thread
  <2>2. ~late /\ ~Initiated /\ link[x] = "up" => ~Reading(x) /\ ToRead(x) = {}
    <3>1. link[x] = "up" => awaited[x] = 0 \/ IsSignalCompleted(x)
      BY <2>1 DEF Outstanding, IsConnected
    <3> QED
      BY <1>1, <3>1, CompletedIsRead
  <2>3. ToRead(x)' = ToRead(x) /\ Initiated' = Initiated
    BY <2>1 DEF ToRead, Initiated
  <2>4. RelayInv'
    BY <2>1, <2>3 DEF RelayInv
  <2> QED
    BY <1>1, <2>1, <2>2, <2>3, <2>4, TextsMain
<1>5. CASE WaitTooLong
  <2>1. /\ UNCHANGED <<events, task, pc, link, intro, started, phase>> /\ late' /\ main' = "chat"
    BY <1>5 DEF WaitTooLong, EndWait, thread
  <2>2. Initiated' = Initiated
    BY <2>1 DEF Initiated
  <2>3. RelayInv'
    BY <2>1 DEF RelayInv
  <2> QED
    BY <1>1, <2>1, <2>2, <2>3, TextsMain
<1>6. CASE ExecuteNetworkCommands
  <2>1. /\ UNCHANGED <<task, pc, link, intro, started, phase, late>> /\ Initiated /\ main' = "chat"
    BY <1>6 DEF ExecuteNetworkCommands, thread, Initiated
  <2>2. Initiated'
    BY <2>1 DEF Initiated
  <2>3. RelayInv'
    BY <2>1, <2>2 DEF RelayInv
  <2> QED
    BY <1>1, <2>1, <2>2, <2>3, TextsMain
<1>7. CASE \E s \in Slot : TakeTexts(s) \/ ClearTexts(s) \/ NoTexts(s)
  <2>1. PICK s \in Slot : TakeTexts(s) \/ ClearTexts(s) \/ NoTexts(s)
    BY <1>7
  <2>2. /\ UNCHANGED <<events, task, pc, link, intro, started, late, phase>>
        /\ main \in {"chat", "relay"} /\ main' \in {"chat", "relay"}
        /\ Initiated' = Initiated
    BY <2>1 DEF TakeTexts, ClearTexts, NoTexts, thread, Initiated
  <2>3. /\ chat'[x] # << >> => x # s /\ chat'[x] = chat[x]
        /\ x # s /\ x \in todo => x \in todo'
    BY <2>1 DEF TakeTexts, ClearTexts, NoTexts, lists, Types
  <2>4. ~late /\ ~Initiated /\ link[x] = "up" =>
            /\ ~Reading(x) /\ ToRead(x) = {}
            /\ chat[x] # << >> => x \in todo
    BY <1>1, <2>2, NotWaiting DEF TextInv, Quiet, Attended
  <2>5. ToRead(x)' = ToRead(x)
    BY <2>2 DEF ToRead
  <2>6. TextInv(x)'
    BY <1>1, <2>2, <2>3, <2>4, <2>5, TextsMain
  <2>7. RelayInv'
    <3>1. main' = "relay" => at' \notin todo'
      BY <2>1 DEF TakeTexts, ClearTexts, NoTexts, RelayInv
    <3>2. CASE lost' = lost
      BY <2>2, <3>1, <3>2 DEF RelayInv
    <3>3. CASE ClearTexts(s) /\ lost' # lost
      <4>1. chat[s] # << >> /\ link[s] = "up" /\ main = "relay" /\ at = s
        BY <1>1, <3>3 DEF ClearTexts, IsConnected
      <4>2. s \notin todo
        BY <4>1 DEF RelayInv
      <4>3. TextInv(s)
        OBVIOUS
      <4>4. late \/ Initiated
        BY <4>1, <4>2, <4>3 DEF TextInv, Quiet, Attended
      <4> QED
        BY <2>2, <3>1, <4>4 DEF RelayInv
    <3> QED
      BY <2>1, <3>2, <3>3 DEF TakeTexts, NoTexts, lists
  <2> QED
    BY <2>6, <2>7
<1>8. CASE UpdateDone
  <2>1. /\ UNCHANGED <<events, task, pc, link, chat, intro, started, late, phase, lost>>
        /\ main = "chat" /\ main' = "idle" /\ todo = {} /\ Initiated' = Initiated
    BY <1>8 DEF UpdateDone, lists, thread, Initiated
  <2>2. ~late /\ ~Initiated /\ link[x] = "up" =>
            ~Reading(x) /\ ToRead(x) = {} /\ chat[x] = << >>
    BY <1>1, <2>1, NotWaiting DEF TextInv, Quiet, Attended
  <2>3. ToRead(x)' = ToRead(x)
    BY <2>1 DEF ToRead
  <2>4. RelayInv'
    BY <2>1 DEF RelayInv
  <2> QED
    BY <1>1, <2>1, <2>2, <2>3, <2>4, TextsMain
<1>9. CASE GameInitiated
  <2>1. UNCHANGED <<pc, task, link, intro, started, late, main, at, todo>> /\ Initiated'
    BY <1>9 DEF GameInitiated, thread, Initiated
  <2>2. RelayInv'
    BY <2>1 DEF RelayInv
  <2> QED
    BY <1>1, <2>1, <2>2, TextsMain
<1>10. CASE (\E s \in Slot : ReceiveWhileLoading(s)) \/ StartGame
  <2>1. UNCHANGED <<late, main, at, todo, intro>> /\ Initiated'
    BY <1>10 DEF ReceiveWhileLoading, StartGame, Initiated, server
  <2> QED
    BY <1>1, <2>1 DEF RelayInv, TextInv
<1> QED
  BY <1>2, <1>3, <1>4, <1>5, <1>6, <1>7, <1>8, <1>9, <1>10 DEF Server

LEMMA NextTexts ==
    ASSUME Types, Types', \A s \in Slot : EventInv(s), \A s \in Slot : TextInv(s), RelayInv,
           [Next]_vars, NEW x \in Slot
    PROVE  TextInv(x)' /\ RelayInv'
<1>1. TextInv(x) /\ EventInv(x)
  OBVIOUS
<1>2. ASSUME NEW s \in Slot, Thread(s) PROVE TextInv(x)' /\ RelayInv'
  <2>1. CASE x = s
    BY <1>1, <1>2, <2>1, ThreadTexts
  <2>2. CASE x # s
    <3>1. RelayInv'
      BY <1>2, ThreadTexts
    <3>2. /\ events'[x] = events[x] /\ task'[x] = task[x] /\ pc'[x] = pc[x]
          /\ link'[x] = link[x] /\ chat'[x] = chat[x] /\ intro'[x] = intro[x]
          /\ started'[x] = started[x] /\ UNCHANGED server
      BY <1>2, <2>2, ThreadElsewhere
    <3>3. UNCHANGED <<main, todo, late, phase, awaited>>
      BY <3>2 DEF server
    <3> QED
      BY <1>1, <3>1, <3>2, <3>3, TextsStill
  <2> QED
    BY <2>1, <2>2
<1>3. ASSUME NEW s \in Slot, Client(s) PROVE TextInv(x)' /\ RelayInv'
  <2>1. UNCHANGED <<events, task, pc, started, intro, chat, lost, main, at, todo, awaited, late,
                    phase>>
    BY <1>3 DEF Client, SendIntro, SendText, SendReady, SendCommand, Send, PeerGone, thread,
       lists, server
  <2>2. link' = link \/ link' = [link EXCEPT ![s] = "down"]
    BY <1>3 DEF Client, SendIntro, SendText, SendReady, SendCommand, Send, PeerGone
  <2>3. link'[x] = link[x] \/ link'[x] # "up"
    BY <2>2 DEF Types
  <2>4. RelayInv'
    BY <2>1 DEF RelayInv, Initiated
  <2> QED
    BY <1>1, <2>1, <2>3, <2>4, TextsStill, TextsOff
<1>4. ASSUME NEW s \in Slot, HangUp(s) PROVE TextInv(x)' /\ RelayInv'
  <2>1. UNCHANGED <<task, pc, started, chat, lost, main, at, todo, awaited, late, phase>>
    BY <1>4 DEF HangUp, thread, lists, server
  <2>2. /\ x = s => link'[x] = "none" /\ intro'[x] = "no"
        /\ x # s => link'[x] = link[x] /\ intro'[x] = intro[x] /\ events'[x] = events[x]
    BY <1>4 DEF HangUp, Close, Types
  <2>3. RelayInv'
    BY <2>1 DEF RelayInv, Initiated
  <2>4. CASE x = s
    BY <1>1, <2>1, <2>2, <2>3, <2>4, TextsOff
  <2>5. CASE x # s
    BY <1>1, <2>1, <2>2, <2>3, <2>5, TextsStill
  <2> QED
    BY <2>4, <2>5
<1>5. CASE Knock \/ UNCHANGED vars
  <2>1. UNCHANGED <<events, task, pc, link, chat, intro, started, awaited, main, todo, late, phase,
                    at, lost>>
    BY <1>5 DEF Knock, vars, lists, thread
  <2>2. RelayInv'
    BY <2>1 DEF RelayInv, Initiated
  <2> QED
    BY <1>1, <2>1, <2>2, TextsStill
<1>6. CASE LaunchGame
  <2>1. /\ UNCHANGED <<events, task, pc, link, chat, intro, started, awaited, main, todo, late,
                       at, lost>>
        /\ Initiated' = Initiated
    BY <1>6 DEF LaunchGame, thread, lists, Initiated
  <2>2. RelayInv'
    BY <2>1 DEF RelayInv
  <2>3. Quiet(x)' = Quiet(x)
    BY <2>1 DEF Quiet, Attended, Reading, ToRead, IsSignalCompleted
  <2> QED
    BY <1>1, <2>1, <2>2, <2>3 DEF TextInv
<1>7. CASE Server
  BY <1>7, MainTexts
<1> QED
  BY <1>2, <1>3, <1>4, <1>5, <1>6, <1>7 DEF Next

LEMMA InitTexts ==
    ASSUME Init
    PROVE  RelayInv /\ \A x \in Slot : TextInv(x)
<1>1. \A x \in Slot : ~Reading(x) /\ ToRead(x) = {}
  BY DEF Init, Reading, ToRead, Range
<1>2. \A x \in Slot : Attended(x) /\ Quiet(x)
  BY <1>1 DEF Init, Attended, Quiet
<1> QED
  BY <1>2 DEF Init, RelayInv, TextInv

\* In the lobby no text of a connected client is cleared before it has been relayed, if
\* the main thread has always waited for the threads (TextsAreRelayed).
THEOREM TextsAreRelayedHolds == Spec => []TextsAreRelayed
<1> DEFINE Inv == Types /\ (\A s \in Slot : EventInv(s)) /\ (\A s \in Slot : TextInv(s)) /\ RelayInv
<1>1. Init => Inv
  BY InitTypes, InitEvents, InitTexts
<1>2. Inv /\ [Next]_vars => Inv'
  <2> SUFFICES ASSUME Inv, [Next]_vars PROVE Inv'
    OBVIOUS
  <2>1. Types'
    BY NextTypes
  <2>2. \A x \in Slot : EventInv(x)' /\ TextInv(x)' /\ RelayInv'
    BY <2>1, NextEvents, NextTexts
  <2>3. CASE Slot # {}
    BY <2>1, <2>2, <2>3
  <2>4. CASE Slot = {}
    <3>1. lost' = lost /\ (late => late') /\ (Initiated => Initiated')
      BY <2>4 DEF Next, Server, Knock, LaunchGame, SignalClients, AllCompleted, WaitTooLong, EndWait,
         ExecuteNetworkCommands, UpdateDone, GameInitiated, StartGame, Initiated, lists, vars
    <3>2. todo' = {}
      BY <2>1, <2>4 DEF Types
    <3>3. RelayInv'
      BY <3>1, <3>2 DEF RelayInv
    <3> QED
      BY <2>1, <2>4, <3>3
  <2> QED
    BY <2>3, <2>4
<1>3. Inv => TextsAreRelayed
  BY DEF RelayInv, TextsAreRelayed
<1> QED
  BY <1>1, <1>2, <1>3, PTL DEF Spec

-----------------------------------------------------------------------------
(* The commands. *)

\* The numbers of the commands of client k in L, and where a list of messages has commands.
Numbers(L, k) == {L[i].n : i \in {j \in DOMAIN L : L[j].from = k}}
Commands(q)   == {i \in DOMAIN q : q[i].kind = "command"}

\* CommandsAreGivenInOrder, of any list.
InOrder(L) ==
    \A i \in DOMAIN L :
        LET before == {j \in 1 .. i - 1 : L[j].from = L[i].from}
        IN  {L[j].n : j \in before} = 1 .. L[i].n - 1

\* Among the messages q are the commands after the p-th up to the c-th, in order.
Coming(q, p, c) ==
    /\ p <= c
    /\ \A i, j \in Commands(q) : i < j => q[i].n < q[j].n
    /\ {q[i].n : i \in Commands(q)} = p + 1 .. c

\* Of the commands of slot s's client m have been requested; the thread has read the next
\* ones, and the rest of those sent is under way.
InHand(s, m) ==
    /\ Numbers(given, who[s]) = 1 .. m
    /\ \A i \in DOMAIN pending[s] : pending[s][i].from = who[s] /\ pending[s][i].n = m + i
    /\ link[s] = "up" => Coming(inbox[s], m + Len(pending[s]), sent[s].command)

OrderInv(s) ==
    /\ who[s] <= knocks - backlog
    /\ \A i \in DOMAIN inbox[s] : inbox[s][i].from = who[s]
    /\ link[s] # "up" => inbox[s] = << >>
    /\ phase # "game" => Commands(inbox[s]) = {}
    /\ \E m \in Nat : InHand(s, m)

GivenInv ==
    /\ InOrder(given)
    /\ \A i \in DOMAIN given : given[i].from <= knocks - backlog
    /\ \A s, t \in Slot : who[s] = who[t] => s = t \/ who[s] = 0

LEMMA ComingAppend ==
    ASSUME NEW q \in Seq(Message), NEW m \in Message, NEW p \in Nat, NEW c \in Nat, Coming(q, p, c)
    PROVE  /\ m.kind # "command" => /\ Coming(Append(q, m), p, c)
                                    /\ Commands(Append(q, m)) = Commands(q)
           /\ m.kind = "command" /\ m.n = c + 1 => Coming(Append(q, m), p, c + 1)
<1> DEFINE r == Append(q, m)
           l == Len(q) + 1
<1>1. /\ DOMAIN q = 1 .. Len(q) /\ Len(q) \in Nat /\ DOMAIN r = 1 .. l /\ r[l] = m
      /\ \A i \in DOMAIN q : r[i] = q[i] /\ i < l /\ i \in DOMAIN r /\ i \in Nat
      /\ \A i \in DOMAIN r : i \in DOMAIN q \/ i = l
      /\ l \in Nat /\ l \notin DOMAIN q /\ l \in DOMAIN r
  BY AppendFacts
<1> HIDE DEF r, l
<1>2. CASE m.kind # "command"
  <2>1. Commands(r) = Commands(q)
    BY <1>1, <1>2 DEF Commands
  <2>2. \A i \in Commands(q) : r[i] = q[i]
    BY <1>1 DEF Commands
  <2>3. Coming(r, p, c)
    BY <2>1, <2>2 DEF Coming
  <2> QED
    BY <1>2, <2>1, <2>3 DEF r
<1>3. CASE m.kind = "command" /\ m.n = c + 1
  <2>1. Commands(r) = Commands(q) \cup {l}
    BY <1>1, <1>3 DEF Commands
  <2>2. \A i \in Commands(q) : r[i] = q[i] /\ i < l /\ i \in Nat /\ q[i].n \in p + 1 .. c
    BY <1>1 DEF Commands, Coming
  <2>3. {r[i].n : i \in Commands(r)} = {q[i].n : i \in Commands(q)} \cup {c + 1}
    BY <1>1, <1>3, <2>1, <2>2
  <2>4. p <= c /\ p <= c + 1 /\ (p + 1 .. c) \cup {c + 1} = p + 1 .. c + 1
    BY DEF Coming
  <2>5. \A i, j \in Commands(r) : i < j => r[i].n < r[j].n
    <3> SUFFICES ASSUME NEW i \in Commands(r), NEW j \in Commands(r), i < j
                 PROVE  r[i].n < r[j].n
      OBVIOUS
    <3>1. CASE j = l
      <4>1. i \in Commands(q)
        BY <1>1, <2>1, <3>1
      <4>2. r[i].n \in p + 1 .. c
        BY <2>2, <4>1
      <4>3. r[j].n = c + 1
        BY <1>1, <1>3, <3>1
      <4> QED
        BY <4>2, <4>3
    <3>2. CASE j # l
      <4>1. j \in Commands(q) /\ i # l
        BY <1>1, <2>1, <2>2, <3>2
      <4> QED
        BY <2>1, <2>2, <4>1 DEF Coming
    <3> QED
      BY <3>1, <3>2
  <2>6. Coming(r, p, c + 1)
    <3>1. {r[i].n : i \in Commands(r)} = (p + 1 .. c) \cup {c + 1}
      BY <2>3 DEF Coming
    <3> QED
      BY <2>4, <2>5, <3>1 DEF Coming
  <2> QED
    BY <1>3, <2>6 DEF r
<1> QED
  BY <1>2, <1>3 DEF r

LEMMA ComingTail ==
    ASSUME NEW q \in Seq(Message), q # << >>, NEW p \in Nat, NEW c \in Nat, Coming(q, p, c)
    PROVE  /\ Head(q).kind # "command" => Coming(Tail(q), p, c)
           /\ Head(q).kind = "command" => Head(q).n = p + 1 /\ Coming(Tail(q), p + 1, c)
           /\ Commands(q) = {} => Commands(Tail(q)) = {}
<1> DEFINE r == Tail(q)
           h == Head(q)
<1>1. /\ DOMAIN q = 1 .. Len(q) /\ Len(q) \in Nat \ {0} /\ h = q[1] /\ h \in Message
      /\ DOMAIN r = 1 .. Len(q) - 1
      /\ \A i \in DOMAIN r : r[i] = q[i + 1] /\ i + 1 \in DOMAIN q
  BY TailFacts
<1> HIDE DEF r, h
<1>2. /\ \A i \in Commands(r) : i + 1 \in Commands(q) /\ r[i] = q[i + 1] /\ i \in Nat \ {0}
      /\ \A i \in Commands(q) : i \in Nat /\ (i # 1 => i - 1 \in Commands(r))
  BY <1>1 DEF Commands
<1>3. \A i \in Commands(q) : q[i].n \in p + 1 .. c
  BY DEF Coming
<1>4. \A i, j \in Commands(r) : i < j => r[i].n < r[j].n
  BY <1>2 DEF Coming
<1>5. \A i \in Commands(q) : i # 1 => q[i].n \in {r[j].n : j \in Commands(r)}
  <2> TAKE i \in Commands(q)
  <2> HAVE i # 1
  <2>1. i - 1 \in Commands(r) /\ (i - 1) + 1 = i
    BY <1>2
  <2>2. r[i - 1] = q[i]
    BY <1>2, <2>1
  <2> QED
    BY <2>1, <2>2
<1>6. \A i \in Commands(r) : r[i].n \in {q[j].n : j \in Commands(q)}
  BY <1>2
<1>7. CASE h.kind # "command"
  <2>1. 1 \notin Commands(q)
    BY <1>1, <1>7 DEF Commands
  <2>2. {r[i].n : i \in Commands(r)} = {q[i].n : i \in Commands(q)}
    BY <1>5, <1>6, <2>1
  <2>3. Coming(r, p, c)
    BY <1>4, <2>2 DEF Coming
  <2> QED
    BY <1>2, <1>7, <2>3 DEF r, h
<1>8. CASE h.kind = "command"
  <2>1. 1 \in Commands(q) /\ h = q[1]
    BY <1>1, <1>8 DEF Commands
  <2>2. h.n \in p + 1 .. c
    BY <1>3, <2>1
  <2>3. \A i \in Commands(q) : i # 1 => h.n < q[i].n
    <3> TAKE i \in Commands(q)
    <3> HAVE i # 1
    <3>1. 1 < i
      BY <1>1 DEF Commands
    <3> QED
      BY <2>1, <3>1 DEF Coming
  <2>4. PICK k \in Commands(q) : q[k].n = p + 1
    <3>1. p + 1 \in p + 1 .. c
      BY <2>2
    <3> QED
      BY <3>1 DEF Coming
  <2>5. h.n = p + 1
    BY <2>1, <2>2, <2>3, <2>4
  <2>6. {r[i].n : i \in Commands(r)} = {q[i].n : i \in Commands(q)} \ {p + 1}
    <3>1. \A i \in Commands(r) : r[i].n # p + 1
      <4> TAKE i \in Commands(r)
      <4>1. i + 1 \in Commands(q) /\ i + 1 # 1 /\ r[i] = q[i + 1]
        BY <1>2
      <4>2. p + 1 < q[i + 1].n /\ q[i + 1].n \in p + 1 .. c
        BY <1>3, <2>3, <2>5, <4>1
      <4> QED
        BY <4>1, <4>2
    <3>2. \A i \in Commands(q) : q[i].n # p + 1 => i # 1
      BY <2>1, <2>5
    <3> QED
      BY <1>5, <1>6, <3>1, <3>2
  <2>7. (p + 1 .. c) \ {p + 1} = (p + 1) + 1 .. c /\ p + 1 <= c
    BY <2>2
  <2>8. Coming(r, p + 1, c)
    BY <1>4, <2>6, <2>7 DEF Coming
  <2> QED
    BY <1>8, <2>1, <2>5, <2>8 DEF r, h
<1> QED
  BY <1>7, <1>8 DEF r, h

\* A client's next commands, one after the other.
LEMMA AppendBlock ==
    ASSUME NEW L \in Seq(Order), NEW B \in Seq(Order), NEW k, NEW m \in Nat,
           InOrder(L), Numbers(L, k) = 1 .. m,
           \A i \in DOMAIN B : B[i].from = k /\ B[i].n = m + i
    PROVE  /\ InOrder(L \o B)
           /\ Numbers(L \o B, k) = 1 .. m + Len(B)
           /\ \A x : x # k => Numbers(L \o B, x) = Numbers(L, x)
<1> DEFINE C == L \o B
           l == Len(L)
           b == Len(B)
<1>1. /\ l \in Nat /\ b \in Nat
      /\ DOMAIN L = 1 .. l /\ DOMAIN B = 1 .. b /\ DOMAIN C = 1 .. l + b
      /\ \A i \in 1 .. l : C[i] = L[i]
      /\ \A i \in 1 .. b : C[l + i] = B[i]
  OBVIOUS
<1>2. \A i \in 1 .. l : L[i].n \in Nat
  <2>1. \A x \in Order : x.n \in Nat
    BY BoundsAssumption DEF Order
  <2> QED
    BY <2>1
<1> HIDE DEF C, l, b
<1>3. \A i \in 1 .. l + b : i \in 1 .. l \/ \E j \in 1 .. b : i = l + j
  <2> TAKE i \in 1 .. l + b
  <2>1. i \in 1 .. l \/ (i - l \in 1 .. b /\ i = l + (i - l))
    BY <1>1
  <2> QED
    BY <2>1
<1>4. \A j \in 1 .. b : C[l + j].from = k /\ C[l + j].n = m + j /\ l + j \in 1 .. l + b
  <2> TAKE j \in 1 .. b
  <2>1. C[l + j] = B[j] /\ j \in DOMAIN B
    BY <1>1
  <2>2. l + j \in 1 .. l + b
    BY <1>1
  <2> QED
    BY <2>1, <2>2
\* What the commands of k are before a place in the block.
<1>5. ASSUME NEW d \in 0 .. b
      PROVE  {C[j].n : j \in {j \in 1 .. l + d : C[j].from = k}} = 1 .. m + d
  <2> DEFINE S == {C[j].n : j \in {j \in 1 .. l + d : C[j].from = k}}
  <2>1. ASSUME NEW j \in 1 .. l + d, C[j].from = k PROVE C[j].n \in 1 .. m + d
    <3>1. CASE j \in 1 .. l
      <4>1. C[j].n \in Numbers(L, k)
        BY <1>1, <2>1, <3>1 DEF Numbers
      <4> QED
        BY <4>1
    <3>2. CASE j \notin 1 .. l
      <4>1. j - l \in 1 .. d /\ j - l \in 1 .. b /\ j = l + (j - l)
        BY <1>1, <3>2
      <4>2. C[j].n = m + (j - l)
        BY <1>4, <4>1
      <4> QED
        BY <4>1, <4>2
    <3> QED
      BY <3>1, <3>2
  <2>2. ASSUME NEW v \in 1 .. m + d PROVE v \in S
    <3>1. CASE v <= m
      <4>1. PICK j \in DOMAIN L : L[j].from = k /\ L[j].n = v
        <5>1. v \in Numbers(L, k)
          BY <3>1
        <5> QED
          BY <5>1 DEF Numbers
      <4>2. j \in 1 .. l + d /\ C[j] = L[j]
        BY <1>1, <4>1
      <4> QED
        BY <4>1, <4>2
    <3>2. CASE ~ (v <= m)
      <4>1. v - m \in 1 .. b /\ l + (v - m) \in 1 .. l + d /\ m + (v - m) = v
        BY <1>1, <3>2
      <4>2. C[l + (v - m)].from = k /\ C[l + (v - m)].n = v
        BY <1>4, <4>1
      <4> QED
        BY <4>1, <4>2
    <3> QED
      BY <3>1, <3>2
  <2> QED
    BY <2>1, <2>2
<1>6. Numbers(C, k) = 1 .. m + b
  <2>1. b \in 0 .. b
    BY <1>1
  <2>2. {C[j].n : j \in {j \in 1 .. l + b : C[j].from = k}} = 1 .. m + b
    BY <1>5, <2>1
  <2> QED
    BY <1>1, <2>2 DEF Numbers
<1>7. ASSUME NEW x, x # k PROVE Numbers(C, x) = Numbers(L, x)
  <2>1. \A i \in 1 .. l + b : C[i].from = x => i \in 1 .. l
    BY <1>3, <1>4, <1>7
  <2>2. {j \in DOMAIN C : C[j].from = x} = {j \in DOMAIN L : L[j].from = x}
    BY <1>1, <2>1
  <2>3. \A j \in {j \in DOMAIN L : L[j].from = x} : C[j] = L[j]
    BY <1>1
  <2> QED
    BY <2>2, <2>3 DEF Numbers
<1>8. ASSUME NEW i \in 1 .. l + b
      PROVE  {C[j].n : j \in {j \in 1 .. i - 1 : C[j].from = C[i].from}} = 1 .. C[i].n - 1
  <2>1. CASE i \in 1 .. l
    <3>1. C[i] = L[i] /\ \A j \in 1 .. i - 1 : C[j] = L[j]
      BY <1>1, <2>1
    <3>2. {j \in 1 .. i - 1 : C[j].from = C[i].from} = {j \in 1 .. i - 1 : L[j].from = L[i].from}
      BY <3>1
    <3> DEFINE J == {j \in 1 .. i - 1 : L[j].from = L[i].from}
    <3>3. {L[j].n : j \in J} = 1 .. L[i].n - 1
      BY <1>1, <2>1 DEF InOrder
    <3>4. \A j \in J : C[j] = L[j]
      BY <3>1
    <3> HIDE DEF J
    <3>5. {C[j].n : j \in J} = {L[j].n : j \in J}
      BY <3>4
    <3> QED
      BY <3>1, <3>2, <3>3, <3>5 DEF J
  <2>2. CASE i \notin 1 .. l
    <3>1. PICK e \in 1 .. b : i = l + e
      BY <1>3, <2>2
    <3>2. e - 1 \in 0 .. b /\ i - 1 = l + (e - 1) /\ C[i].from = k /\ C[i].n - 1 = m + (e - 1)
      BY <1>1, <1>4, <3>1
    <3> QED
      BY <1>5, <3>2
  <2> QED
    BY <2>1, <2>2
<1>9. InOrder(C)
  BY <1>1, <1>8 DEF InOrder
<1> QED
  BY <1>6, <1>7, <1>9 DEF C, b

\* What the invariant of the commands is about is left alone at a slot.
LEMMA OrderStill ==
    ASSUME NEW x, OrderInv(x), who'[x] = who[x], inbox'[x] = inbox[x], link'[x] = link[x],
           pending'[x] = pending[x], sent'[x] = sent[x], given' = given,
           who[x] <= knocks' - backlog',
           phase' = phase \/ phase' = "game"
    PROVE  OrderInv(x)'
<1>1. \A m \in Nat : InHand(x, m) => InHand(x, m)'
  BY DEF InHand, Numbers, Coming, Commands
<1> QED
  BY <1>1 DEF OrderInv, Commands

\* Neither is it by the launch of the game.
LEMMA OrderOn ==
    ASSUME NEW x, OrderInv(x), phase # "game", who'[x] = who[x], inbox'[x] = inbox[x],
           link'[x] = link[x], pending'[x] = pending[x], sent'[x] = sent[x], given' = given,
           who[x] <= knocks' - backlog'
    PROVE  OrderInv(x)'
<1>1. \A m \in Nat : InHand(x, m) => InHand(x, m)'
  BY DEF InHand, Numbers, Coming, Commands
<1> QED
  BY <1>1 DEF OrderInv, Commands

\* The connection ends: what the thread has read stays, the rest is lost.
LEMMA OrderClosed ==
    ASSUME NEW x, OrderInv(x), who'[x] = who[x], inbox'[x] = << >>, link'[x] # "up",
           pending'[x] = pending[x], given' = given, who[x] <= knocks' - backlog'
    PROVE  OrderInv(x)'
<1>1. \A m \in Nat : InHand(x, m) => InHand(x, m)'
  BY DEF InHand, Numbers
<1> QED
  BY <1>1 DEF OrderInv, Commands

LEMMA CountTypes ==
    ASSUME Types
    PROVE  /\ MaxKnocks \in Nat /\ knocks \in Nat /\ backlog \in Nat /\ knocks - backlog \in Nat
           /\ \A s \in Slot : who[s] \in Nat /\ sent[s].command \in Nat
<1>1. MaxKnocks \in Nat /\ MaxCommands \in Nat
  BY BoundsAssumption
<1>2. knocks \in 0 .. MaxKnocks /\ backlog \in 0 .. knocks
  BY DEF Types
<1>3. \A s \in Slot : who[s] \in 0 .. MaxKnocks /\ sent[s].command \in 0 .. MaxCommands
  BY DEF Types
<1> QED
  BY <1>1, <1>2, <1>3

LEMMA SendOrders ==
    ASSUME Types, Types', \A x \in Slot : OrderInv(x), NEW s \in Slot, NEW m \in Message,
           Send(s, m), m.from = who[s],
           \/ m.kind # "command" /\ sent'[s].command = sent[s].command
           \/ /\ m.kind = "command" /\ m.n = sent[s].command + 1 /\ phase = "game"
              /\ sent'[s].command = sent[s].command + 1,
           NEW x \in Slot, x # s => sent'[x] = sent[x]
    PROVE  OrderInv(x)'
<1>1. /\ UNCHANGED <<who, link, pending, given, knocks, backlog, phase>> /\ link[s] = "up"
      /\ inbox' = [inbox EXCEPT ![s] = Append(inbox[s], m)]
      /\ OrderInv(x) /\ OrderInv(s)
  BY DEF Send, lists, server
<1>2. /\ inbox \in [Slot -> Seq(Message)] /\ inbox[s] \in Seq(Message)
      /\ pending[s] \in Seq(Order) /\ sent[s].command \in Nat /\ knocks \in Nat /\ backlog \in Nat
  BY CountTypes DEF Types
<1>3. who[x] <= knocks' - backlog'
  BY <1>1 DEF OrderInv
<1>4. CASE x # s
  <2>1. inbox'[x] = inbox[x]
    BY <1>1, <1>2, <1>4
  <2> QED
    BY <1>1, <1>3, <1>4, <2>1, OrderStill
<1>5. CASE x = s
  <2> DEFINE q == inbox[s]
             r == Append(q, m)
  <2>1. inbox'[s] = r
    BY <1>1, <1>2
  <2>2. PICK n \in Nat : InHand(s, n)
    BY <1>1 DEF OrderInv
  <2>3. n + Len(pending[s]) \in Nat /\ Coming(q, n + Len(pending[s]), sent[s].command)
    BY <1>1, <1>2, <2>2 DEF InHand
  <2>4. /\ Coming(r, n + Len(pending[s]), sent'[s].command)
        /\ phase # "game" => Commands(r) = {}
    <3> HIDE DEF q, r
    <3>1. q \in Seq(Message)
      BY <1>2 DEF q
    <3>2. phase # "game" => Commands(q) = {}
      BY <1>1 DEF OrderInv, q
    <3> QED
      BY <1>2, <2>3, <3>1, <3>2, ComingAppend DEF r
  <2>5. \A i \in DOMAIN r : r[i].from = who[s]
    <3>1. \A i \in DOMAIN q : q[i].from = who[s]
      BY <1>1 DEF OrderInv
    <3>2. \A i \in DOMAIN r : r[i] = m \/ (i \in DOMAIN q /\ r[i] = q[i])
      BY <1>2, AppendFacts
    <3> QED
      BY <3>1, <3>2
  <2> HIDE DEF q, r
  <2>6. InHand(s, n)'
    BY <1>1, <2>1, <2>2, <2>4 DEF InHand, Numbers
  <2> QED
    BY <1>1, <1>3, <1>5, <2>1, <2>4, <2>5, <2>6 DEF OrderInv
<1> QED
  BY <1>4, <1>5

LEMMA ClientOrders ==
    ASSUME Types, Types', \A x \in Slot : OrderInv(x), GivenInv, NEW s \in Slot, Client(s),
           NEW x \in Slot
    PROVE  OrderInv(x)' /\ GivenInv'
<1>1. /\ who[s] \in 0 .. MaxKnocks /\ sent \in [Slot -> [text : 0 .. MaxTexts, command : 0 .. MaxCommands]]
      /\ link[s] = "up" /\ who[s] # 0
  <2>1. link[s] = "up"
    BY DEF Client, SendIntro, SendText, SendReady, SendCommand, Send, PeerGone
  <2> QED
    BY <2>1 DEF Types
<1>2. who[s] \in 1 .. MaxKnocks
  BY <1>1, BoundsAssumption
<1>3. UNCHANGED <<given, who, knocks, backlog>>
  BY DEF Client, SendIntro, SendText, SendReady, SendCommand, Send, PeerGone, clients, lists
<1>4. GivenInv'
  BY <1>3 DEF GivenInv
<1> DEFINE intro_m == [kind |-> "intro", from |-> who[s], n |-> 0]
           ready_m == [kind |-> "ready", from |-> who[s], n |-> 0]
<1>5. CASE SendIntro(s) \/ SendReady(s)
  <2>1. \E m \in Message : m.from = who[s] /\ m.kind # "command" /\ Send(s, m)
    BY <1>2, <1>5, MessageFacts DEF SendIntro, SendReady
  <2>2. sent' = sent
    BY <1>5 DEF SendIntro, SendReady
  <2> QED
    BY <1>4, <2>1, <2>2, SendOrders
<1>6. CASE SendText(s)
  <2> DEFINE m == [kind |-> "text", from |-> who[s], n |-> sent'[s].text]
  <2>1. /\ Send(s, m) /\ sent' = [sent EXCEPT ![s].text = @ + 1] /\ sent[s].text < MaxTexts
    BY <1>6 DEF SendText
  <2>2. /\ sent'[s].command = sent[s].command /\ sent'[s].text = sent[s].text + 1
        /\ \A y \in Slot : y # s => sent'[y] = sent[y]
    BY <1>1, <2>1
  <2>3. sent'[s].text \in 1 .. MaxTexts
    <3>1. sent[s].text \in 0 .. MaxTexts
      BY <1>1
    <3> QED
      BY <2>1, <2>2, <3>1, BoundsAssumption
  <2>4. m \in Message /\ m.from = who[s] /\ m.kind # "command"
    BY <1>2, <2>3, MessageFacts
  <2> HIDE DEF m
  <2> QED
    BY <1>4, <2>1, <2>2, <2>4, SendOrders
<1>7. CASE SendCommand(s)
  <2> DEFINE m == [kind |-> "command", from |-> who[s], n |-> sent'[s].command]
  <2>1. /\ Send(s, m) /\ sent' = [sent EXCEPT ![s].command = @ + 1]
        /\ sent[s].command < MaxCommands /\ phase = "game"
    BY <1>7 DEF SendCommand
  <2>2. /\ sent'[s].command = sent[s].command + 1
        /\ \A y \in Slot : y # s => sent'[y] = sent[y]
    BY <1>1, <2>1
  <2>3. sent'[s].command \in 1 .. MaxCommands
    <3>1. sent[s].command \in 0 .. MaxCommands
      BY <1>1
    <3> QED
      BY <2>1, <2>2, <3>1, BoundsAssumption
  <2>4. m \in Message /\ m.from = who[s] /\ m.kind = "command" /\ m.n = sent[s].command + 1
    BY <1>2, <2>2, <2>3, MessageFacts
  <2> HIDE DEF m
  <2> QED
    BY <1>4, <2>1, <2>2, <2>4, SendOrders
<1>8. CASE PeerGone(s)
  <2>1. /\ UNCHANGED <<pending, sent, phase>>
        /\ link' = [link EXCEPT ![s] = "down"] /\ inbox' = [inbox EXCEPT ![s] = << >>]
    BY <1>8 DEF PeerGone, clients, lists, server
  <2>2. /\ x = s => link'[x] = "down" /\ inbox'[x] = << >>
        /\ x # s => link'[x] = link[x] /\ inbox'[x] = inbox[x]
    BY <2>1 DEF Types
  <2>3. who[x] <= knocks' - backlog' /\ OrderInv(x)
    BY <1>3 DEF OrderInv
  <2> QED
    BY <1>3, <1>4, <2>1, <2>2, <2>3, OrderStill, OrderClosed
<1> QED
  BY <1>5, <1>6, <1>7, <1>8 DEF Client

LEMMA ReadOrders ==
    ASSUME Types, Types', NEW s \in Slot, OrderInv(s), Read(s)
    PROVE  OrderInv(s)'
<1> DEFINE q == inbox[s]
           m == Head(q)
           p == pending[s]
<1>1. /\ UNCHANGED <<who, sent, link, given, knocks, backlog, phase>> /\ link[s] = "up"
      /\ q # << >>
      /\ inbox' = [inbox EXCEPT ![s] = Tail(@)]
      /\ pending' = [pending EXCEPT ![s] = IF m.kind = "command" THEN Append(@, m) ELSE @]
  BY DEF Read, clients, server, IsConnected
<1>2. /\ q \in Seq(Message) /\ p \in Seq(Order) /\ sent[s].command \in Nat
      /\ inbox \in [Slot -> Seq(Message)] /\ pending \in [Slot -> Seq(Order)]
  BY CountTypes DEF Types, q, p
<1>3. inbox'[s] = Tail(q) /\ pending'[s] = IF m.kind = "command" THEN Append(p, m) ELSE p
  BY <1>1, <1>2
<1> HIDE DEF q, p
<1>4. m \in Message /\ m.from = who[s] /\ (m.kind = "command" => m \in Order)
      /\ \A i \in DOMAIN Tail(q) : Tail(q)[i].from = who[s]
  <2>1. \A i \in DOMAIN q : q[i].from = who[s]
    BY DEF OrderInv, q
  <2>2. /\ m \in Message /\ m = q[1] /\ 1 \in DOMAIN q
        /\ \A i \in DOMAIN Tail(q) : Tail(q)[i] = q[i + 1] /\ i + 1 \in DOMAIN q
    BY <1>1, <1>2, TailFacts
  <2> QED
    BY <2>1, <2>2, MessageKinds
<1>5. PICK n \in Nat : InHand(s, n)
  BY DEF OrderInv
<1>6. /\ Len(p) \in Nat /\ n + Len(p) \in Nat /\ DOMAIN p = 1 .. Len(p)
      /\ Coming(q, n + Len(p), sent[s].command)
      /\ \A i \in DOMAIN p : p[i].from = who[s] /\ p[i].n = n + i
  BY <1>1, <1>2, <1>5 DEF InHand, q, p
<1>7. /\ m.kind # "command" => Coming(Tail(q), n + Len(p), sent[s].command)
      /\ m.kind = "command" => /\ m.n = (n + Len(p)) + 1
                               /\ Coming(Tail(q), (n + Len(p)) + 1, sent[s].command)
      /\ phase # "game" => Commands(Tail(q)) = {}
  <2>1. phase # "game" => Commands(q) = {}
    BY DEF OrderInv, q
  <2> QED
    BY <1>1, <1>2, <1>6, <2>1, ComingTail
<1> HIDE DEF m
<1>8. /\ \A i \in DOMAIN pending'[s] : pending'[s][i].from = who[s] /\ pending'[s][i].n = n + i
      /\ Coming(Tail(q), n + Len(pending'[s]), sent[s].command)
  <2>1. CASE m.kind # "command"
    BY <1>3, <1>6, <1>7, <2>1
  <2>2. CASE m.kind = "command"
    <3>1. /\ pending'[s] = Append(p, m) /\ Len(Append(p, m)) = Len(p) + 1
          /\ DOMAIN Append(p, m) = 1 .. Len(p) + 1
          /\ \A i \in DOMAIN p : Append(p, m)[i] = p[i]
          /\ Append(p, m)[Len(p) + 1] = m
      BY <1>2, <1>3, <1>4, <2>2, AppendFacts
    <3>2. ASSUME NEW i \in 1 .. Len(p) + 1
          PROVE  Append(p, m)[i].from = who[s] /\ Append(p, m)[i].n = n + i
      <4>1. CASE i = Len(p) + 1
        BY <1>4, <1>6, <1>7, <2>2, <3>1, <4>1
      <4>2. CASE i # Len(p) + 1
        BY <1>6, <3>1, <4>2
      <4> QED
        BY <4>1, <4>2
    <3>3. n + (Len(p) + 1) = (n + Len(p)) + 1
      BY <1>6
    <3> QED
      BY <1>7, <2>2, <3>1, <3>2, <3>3
  <2> QED
    BY <2>1, <2>2
<1>9. InHand(s, n)'
  BY <1>1, <1>3, <1>5, <1>8 DEF InHand, Numbers
<1> QED
  BY <1>1, <1>3, <1>4, <1>7, <1>9 DEF OrderInv

LEMMA ThreadOrders ==
    ASSUME Types, Types', \A x \in Slot : OrderInv(x), GivenInv, NEW s \in Slot, Thread(s),
           NEW x \in Slot
    PROVE  OrderInv(x)' /\ GivenInv'
<1>1. /\ knocks \in Nat /\ backlog \in Nat /\ who \in [Slot -> 0 .. MaxKnocks] /\ MaxKnocks \in Nat
      /\ link \in [Slot -> {"none", "up", "down"}] /\ inbox \in [Slot -> Seq(Message)]
      /\ pending \in [Slot -> Seq(Order)] /\ sent \in [Slot -> [text : 0 .. MaxTexts, command : 0 .. MaxCommands]]
      /\ given \in Seq(Order) /\ OrderInv(x) /\ OrderInv(s)
  BY CountTypes DEF Types
<1>2. \A y \in Slot : who[y] \in Nat /\ who[y] <= knocks - backlog
  BY <1>1 DEF OrderInv
<1>3. given' = given /\ phase' = phase /\ knocks' = knocks
  BY DEF Thread, Top, Turn, Select, Wake, NothingToUpdate, Accept, NobodyToAccept, CloseSlot,
     BeginRead, Read, Refuse, EndRead, TaskDone, server, lists, clients
<1>4. CASE Accept(s)
  <2> DEFINE k == knocks - backlog + 1
  <2>1. /\ who' = [who EXCEPT ![s] = k] /\ backlog' = backlog - 1 /\ link[s] = "none"
        /\ inbox' = inbox /\ pending'[s] = << >> /\ sent'[s].command = 0
    <3>1. sent' = [sent EXCEPT ![s] = [text |-> 0, command |-> 0]]
      BY <1>4 DEF Accept
    <3>2. sent'[s].command = 0
      BY <1>1, <3>1
    <3>3. pending' = [pending EXCEPT ![s] = << >>]
      BY <1>4 DEF Accept
    <3>4. pending'[s] = << >>
      BY <1>1, <3>3
    <3>5. /\ who' = [who EXCEPT ![s] = k] /\ backlog' = backlog - 1
          /\ link[s] = "none" /\ inbox' = inbox
      BY <1>4 DEF Accept
    <3> HIDE DEF k
    <3> QED
      BY <3>2, <3>4, <3>5
  <2>2. /\ who'[s] = k /\ \A y \in Slot : y # s => who'[y] = who[y]
    BY <1>1, <2>1
  <2>3. k \in Nat /\ knocks' - backlog' = k /\ k = (knocks - backlog) + 1
        /\ \A y \in Slot : who[y] <= k /\ who[y] # k
    <3>1. \A w \in Nat : w <= knocks - backlog => k \in Nat /\ w <= k /\ w # k
      BY <1>1
    <3>2. knocks' - backlog' = k
      BY <1>1, <1>3, <2>1
    <3> HIDE DEF k
    <3>3. k \in Nat /\ \A y \in Slot : who[y] <= k /\ who[y] # k
      BY <1>2, <3>1
    <3> QED
      BY <3>2, <3>3 DEF k
  <2> HIDE DEF k
  <2>4. \A i \in DOMAIN given : given[i].from <= k /\ given[i].from # k
    <3> TAKE i \in DOMAIN given
    <3>1. given[i].from <= knocks - backlog
      BY DEF GivenInv
    <3>2. given[i].from \in Nat
      <4>1. given[i] \in Order
        BY <1>1
      <4>2. \A o \in Order : o.from \in 1 .. MaxKnocks
        BY DEF Order
      <4> QED
        BY <1>1, <4>1, <4>2
    <3>3. knocks - backlog \in Int
      BY <1>1
    <3> HIDE DEF GivenInv
    <3> QED
      BY <2>3, <3>1, <3>2, <3>3
  <2>5. GivenInv'
    <3>1. \A y, t \in Slot : who'[y] = who'[t] => y = t \/ who'[y] = 0
      BY <2>2, <2>3 DEF GivenInv
    <3> QED
      BY <1>3, <2>3, <2>4, <3>1 DEF GivenInv
  <2>6. CASE x = s
    <3>1. inbox'[s] = << >>
      BY <1>1, <2>1 DEF OrderInv
    <3>2. Numbers(given', who'[s]) = 1 .. 0
      BY <1>3, <2>2, <2>4 DEF Numbers
    <3>3. Commands(inbox'[s]) = {}
      BY <3>1 DEF Commands
    <3>4. Coming(inbox'[s], 0, 0)
      BY <3>3 DEF Coming
    <3>5. InHand(s, 0)'
      BY <2>1, <3>2, <3>4 DEF InHand
    <3>6. who'[s] <= knocks' - backlog'
      BY <2>2, <2>3
    <3> QED
      BY <2>5, <2>6, <3>1, <3>3, <3>5, <3>6 DEF OrderInv
  <2>7. CASE x # s
    <3>1. /\ who'[x] = who[x] /\ inbox'[x] = inbox[x] /\ link'[x] = link[x]
          /\ pending'[x] = pending[x] /\ sent'[x] = sent[x]
      BY <2>7, ThreadElsewhere
    <3> QED
      BY <1>1, <1>3, <2>3, <2>5, <3>1, OrderStill
  <2> QED
    BY <2>6, <2>7
<1>5. ASSUME ~Accept(s) PROVE /\ who' = who /\ backlog' = backlog /\ sent' = sent
                              /\ knocks' - backlog' = knocks - backlog /\ GivenInv'
  <2>1. who' = who /\ backlog' = backlog /\ sent' = sent
    BY <1>5 DEF Thread, Top, Turn, Select, Wake, NothingToUpdate, NobodyToAccept, CloseSlot,
       BeginRead, Read, Refuse, EndRead, TaskDone, clients
  <2> QED
    BY <1>3, <2>1 DEF GivenInv
<1>6. CASE ~Accept(s) /\ x # s
  <2>1. /\ who'[x] = who[x] /\ inbox'[x] = inbox[x] /\ link'[x] = link[x]
        /\ pending'[x] = pending[x] /\ sent'[x] = sent[x]
    BY <1>6, ThreadElsewhere
  <2> QED
    BY <1>1, <1>2, <1>3, <1>5, <1>6, <2>1, OrderStill
<1>7. CASE CloseSlot(s) \/ Refuse(s)
  <2>1. link'[s] = "none" /\ inbox'[s] = << >> /\ pending' = pending /\ ~Accept(s)
    BY <1>1, <1>7 DEF CloseSlot, Refuse, Close, lists, Accept
  <2> QED
    BY <1>1, <1>2, <1>3, <1>5, <1>6, <2>1, OrderClosed
<1>8. CASE Read(s)
  <2>1. OrderInv(s)' /\ ~Accept(s)
    BY <1>8, ReadOrders DEF Read, Accept
  <2> QED
    BY <1>5, <1>6, <2>1
<1>9. CASE Top(s) \/ Turn(s) \/ Select(s) \/ Wake(s) \/ NothingToUpdate(s) \/ NobodyToAccept(s)
           \/ BeginRead(s) \/ EndRead(s) \/ TaskDone(s)
  <2>1. UNCHANGED <<who, inbox, link, pending, sent, backlog, knocks>>
    BY <1>9 DEF Top, Turn, Select, Wake, NothingToUpdate, NobodyToAccept, BeginRead, EndRead,
       TaskDone, clients, lists
  <2>2. GivenInv'
    BY <1>3, <2>1 DEF GivenInv
  <2> QED
    BY <1>1, <1>2, <1>3, <2>1, <2>2, OrderStill
<1> QED
  BY <1>4, <1>7, <1>8, <1>9 DEF Thread

\* The slots are taken one after the other: after each the list is in order, and has all
\* that was in hand of the slots that have been taken.
LEMMA GivenOrders ==
    ASSUME Types, Types', \A x \in Slot : OrderInv(x), GivenInv, ExecuteNetworkCommands
    PROVE  (\A x \in Slot : OrderInv(x)') /\ GivenInv'
<1> DEFINE n     == Cardinality(Slot)
           order == SetToSeq(Slot)
           ss    == [i \in 1 .. n |-> Taken(order[i])]
           had   == [s \in Slot |-> CHOOSE k \in Nat : InHand(s, k)]
<1>1. /\ n \in Nat /\ order \in [1 .. n -> Slot]
      /\ \A i, j \in 1 .. n : order[i] = order[j] => i = j
      /\ \A s \in Slot : \E i \in 1 .. n : order[i] = s
  BY SlotOrder
<1>2. /\ ss \in Seq(Seq(Order)) /\ Len(ss) = n
      /\ \A i \in 1 .. n : ss[i] = Taken(order[i])
  BY <1>1, TakenTypes
<1>3. had \in [Slot -> Nat] /\ \A s \in Slot : InHand(s, had[s])
  <2>1. \A s \in Slot : \E k \in Nat : InHand(s, k)
    BY DEF OrderInv
  <2> QED
    BY <2>1
<1>4. given' = given \o FlattenSeq(ss)
  BY SlotOrder DEF ExecuteNetworkCommands, Taken
<1> HIDE DEF n, order, ss, had
<1>5. PICK f : FlattenSteps(f, ss, Order) /\ f[n] = FlattenSeq(ss)
  BY <1>2, FlattenTrace
<1>6. /\ f \in [0 .. n -> Seq(Order)] /\ f[0] = << >>
      /\ \A i \in 1 .. n : f[i] = f[i - 1] \o ss[i]
  BY <1>2, <1>5 DEF FlattenSteps
<1>7. /\ given \in Seq(Order) /\ knocks - backlog \in Nat
      /\ \A s \in Slot : pending[s] \in Seq(Order) /\ Taken(s) \in Seq(Order) /\ Len(Taken(s)) \in Nat
      /\ \A s \in Slot : had[s] \in Nat /\ who[s] \in Nat /\ who[s] <= knocks - backlog
  <2>1. given \in Seq(Order) /\ \A s \in Slot : pending[s] \in Seq(Order)
    BY DEF Types
  <2>2. \A s \in Slot : Taken(s) \in Seq(Order)
    BY TakenTypes
  <2>3. \A s \in Slot : Len(Taken(s)) \in Nat
    BY <2>2
  <2>4. \A s \in Slot : who[s] <= knocks - backlog
    BY DEF OrderInv
  <2> QED
    BY <1>3, <2>1, <2>2, <2>3, <2>4, CountTypes
<1>8. ASSUME NEW s \in Slot
      PROVE  /\ \A j \in DOMAIN Taken(s) : Taken(s)[j].from = who[s] /\ Taken(s)[j].n = had[s] + j
             /\ who[s] = 0 => Taken(s) = << >>
  <2>1. \A j \in DOMAIN Taken(s) : Taken(s)[j].from = who[s] /\ Taken(s)[j].n = had[s] + j
    BY <1>3 DEF InHand, Taken
  <2>2. \A o \in Order : o.from # 0
    BY BoundsAssumption DEF Order
  <2>3. \A q \in Seq(Order) : q # << >> => 1 \in DOMAIN q /\ q[1] \in Order
    OBVIOUS
  <2> QED
    BY <1>7, <2>1, <2>2, <2>3
<1> DEFINE Took(s, i) == \E j \in 1 .. i : order[j] = s
           Has(s, i) == IF Took(s, i) THEN had[s] + Len(Taken(s)) ELSE had[s]
           Good(L, i) == /\ L \in Seq(Order) /\ InOrder(L)
                         /\ \A e \in DOMAIN L : L[e].from <= knocks - backlog
                         /\ \A s \in Slot : Numbers(L, who[s]) = 1 .. Has(s, i)
           T == {i \in Nat : i <= n => Good(given \o f[i], i)}
<1>9. 0 \in T
  <2>1. given \o f[0] = given
    BY <1>6, <1>7
  <2>2. \A s \in Slot : ~Took(s, 0)
    OBVIOUS
  <2>3. \A s \in Slot : Numbers(given, who[s]) = 1 .. had[s]
    BY <1>3 DEF InHand
  <2>4. Good(given, 0)
    BY <1>7, <2>2, <2>3 DEF GivenInv
  <2> HIDE DEF Good
  <2> QED
    BY <2>1, <2>4
<1>10. ASSUME NEW i \in Nat, i \in T PROVE i + 1 \in T
  <2> SUFFICES ASSUME i + 1 <= n PROVE Good(given \o f[i + 1], i + 1)
    OBVIOUS
  <2> DEFINE L == given \o f[i]
             t == order[i + 1]
             B == Taken(t)
             M == L \o B
  <2>1. i \in 0 .. n /\ i + 1 \in 1 .. n /\ (i + 1) - 1 = i /\ t \in Slot
    BY <1>1
  <2>2. Good(L, i)
    BY <1>10, <2>1
  <2>3. given \o f[i + 1] = M
    <3>1. f[i + 1] = f[i] \o B /\ f[i] \in Seq(Order)
      BY <1>2, <1>6, <2>1
    <3>2. B \in Seq(Order) /\ given \in Seq(Order)
      BY <1>7, <2>1
    <3> HIDE DEF B
    <3>3. \A q, r, u \in Seq(Order) : q \o (r \o u) = (q \o r) \o u
      BY ConcatAssociates
    <3>4. given \o (f[i] \o B) = (given \o f[i]) \o B
      BY <3>1, <3>2, <3>3
    <3> QED
      BY <3>1, <3>4
  <2>4. ~Took(t, i) /\ Took(t, i + 1) /\ \A s \in Slot : s # t => (Took(s, i + 1) <=> Took(s, i))
    <3>1. \A j \in 1 .. i : j \in 1 .. n /\ j # i + 1 /\ j \in 1 .. i + 1
      BY <1>1, <2>1
    <3>2. \A j \in 1 .. i + 1 : j \in 1 .. i \/ j = i + 1
      OBVIOUS
    <3>3. i + 1 \in 1 .. i + 1
      OBVIOUS
    <3> QED
      BY <1>1, <2>1, <3>1, <3>2, <3>3
  <2> HIDE DEF Took
  <2>5. L \in Seq(Order) /\ InOrder(L) /\ Numbers(L, who[t]) = 1 .. had[t]
    BY <2>1, <2>2, <2>4
  <2>6. \A s \in Slot : Numbers(L, who[s]) = 1 .. Has(s, i)
    BY <2>2
  <2>7. \A e \in DOMAIN L : L[e].from <= knocks - backlog
    BY <2>2
  <2> HIDE DEF L, t, Good
  <2>8. /\ M \in Seq(Order) /\ InOrder(M) /\ Numbers(M, who[t]) = 1 .. had[t] + Len(B)
        /\ \A x : x # who[t] => Numbers(M, x) = Numbers(L, x)
    <3>1. /\ B \in Seq(Order) /\ had[t] \in Nat
          /\ \A j \in DOMAIN B : B[j].from = who[t] /\ B[j].n = had[t] + j
      BY <1>7, <1>8, <2>1
    <3> HIDE DEF B
    <3>2. L \o B \in Seq(Order)
      BY <2>5, <3>1
    <3> QED
      BY <2>5, <3>1, <3>2, AppendBlock
  <2>9. \A e \in DOMAIN M : M[e].from <= knocks - backlog
    <3>1. B \in Seq(Order) /\ \A j \in DOMAIN B : B[j].from <= knocks - backlog
      BY <1>7, <1>8, <2>1
    <3> HIDE DEF B
    <3>2. \A e \in DOMAIN M : M[e] \in Range(L) \cup Range(B)
      BY <2>5, <3>1, RangeOfConcat DEF Range
    <3> QED
      BY <2>7, <3>1, <3>2 DEF Range
  <2>10. ASSUME NEW s \in Slot PROVE Numbers(M, who[s]) = 1 .. Has(s, i + 1)
    <3>1. CASE s = t
      BY <2>4, <2>8, <3>1
    <3>2. CASE s # t /\ who[s] # who[t]
      BY <2>4, <2>6, <2>8, <3>2
    <3>3. CASE s # t /\ who[s] = who[t]
      <4>1. who[t] = 0
        BY <2>1, <3>3 DEF GivenInv
      <4>2. M = L
        BY <1>8, <2>1, <2>5, <4>1
      <4> QED
        BY <2>4, <2>6, <3>3, <4>2
    <3> QED
      BY <3>1, <3>2, <3>3
  <2> HIDE DEF M
  <2> QED
    BY <2>3, <2>8, <2>9, <2>10 DEF Good
<1> HIDE DEF T
<1>11. n \in T
  BY <1>1, <1>9, <1>10, Induction
<1>12. Good(given', n)
  BY <1>1, <1>4, <1>5, <1>11 DEF T
<1>13. \A s \in Slot : Took(s, n)
  BY <1>1
<1>14. UNCHANGED <<who, sent, link, inbox, knocks, backlog, phase>>
  BY DEF ExecuteNetworkCommands, clients
<1>15. GivenInv'
  BY <1>12, <1>14 DEF GivenInv
<1>16. ASSUME NEW s \in Slot PROVE OrderInv(s)'
  <2>0. PICK m \in Nat : m = had[s] + Len(Taken(s))
    BY <1>7
  <2>1. Numbers(given', who[s]) = 1 .. m
    BY <1>12, <1>13, <2>0
  <2>2. pending'[s] = IF link[s] = "up" THEN << >> ELSE pending[s]
    BY DEF ExecuteNetworkCommands, IsConnected
  <2>3. InHand(s, had[s])
    BY <1>3
  <2>4. m \in Nat /\ (link[s] # "up" => m = had[s])
        /\ (link[s] = "up" => m = had[s] + Len(pending[s]) /\ m + Len(<< >>) = m)
    BY <1>7, <2>0 DEF Taken, IsConnected
  <2>5. \A j \in DOMAIN pending'[s] : pending'[s][j].from = who[s] /\ pending'[s][j].n = m + j
    BY <2>2, <2>3, <2>4 DEF InHand
  <2>6. link[s] = "up" => Coming(inbox[s], m + Len(pending'[s]), sent[s].command)
    BY <2>2, <2>3, <2>4 DEF InHand
  <2>7. InHand(s, m)'
    BY <1>14, <2>1, <2>5, <2>6 DEF InHand
  <2> QED
    BY <1>14, <2>4, <2>7 DEF OrderInv
<1> QED
  BY <1>15, <1>16

LEMMA MainOrders ==
    ASSUME Types, Types', \A x \in Slot : OrderInv(x), GivenInv, Server, NEW x \in Slot
    PROVE  OrderInv(x)' /\ GivenInv'
<1>1. OrderInv(x) /\ who[x] <= knocks - backlog
  BY DEF OrderInv
<1>2. CASE ExecuteNetworkCommands
  BY <1>2, GivenOrders
<1>3. CASE \E s \in Slot : ReceiveWhileLoading(s)
  <2>1. PICK s \in Slot : ReceiveWhileLoading(s)
    BY <1>3
  <2>2. /\ UNCHANGED <<who, sent, link, pending, given, knocks, backlog, phase>>
        /\ inbox' = [inbox EXCEPT ![s] = Tail(@)] /\ inbox[s] # << >> /\ phase = "loading"
    BY <2>1 DEF ReceiveWhileLoading, HasData, clients, lists, server
  <2>3. GivenInv'
    BY <2>2 DEF GivenInv
  <2>4. inbox \in [Slot -> Seq(Message)] /\ inbox[s] \in Seq(Message)
    BY DEF Types
  <2>5. CASE x # s
    BY <1>1, <2>2, <2>3, <2>4, <2>5, OrderStill
  <2>6. CASE x = s
    <3> DEFINE q == inbox[s]
    <3>1. inbox'[s] = Tail(q)
      BY <2>2, <2>4
    <3>2. /\ \A i \in DOMAIN q : q[i].from = who[s]
          /\ Commands(q) = {}
          /\ link[s] # "up" => q = << >>
      BY <1>1, <2>2, <2>6 DEF OrderInv
    <3>3. PICK m \in Nat : InHand(s, m)
      BY <1>1, <2>6 DEF OrderInv
    <3>4. m + Len(pending[s]) \in Nat /\ sent[s].command \in Nat
      <4>1. pending[s] \in Seq(Order)
        BY DEF Types
      <4>2. Len(pending[s]) \in Nat
        BY <4>1
      <4> QED
        BY <4>2, CountTypes
    <3>5. link[s] = "up" => Coming(q, m + Len(pending[s]), sent[s].command)
      BY <3>3 DEF InHand
    <3> HIDE DEF q
    <3>6. q \in Seq(Message) /\ q # << >>
      BY <2>2, <2>4 DEF q
    <3>7. Head(q).kind # "command" /\ \A i \in DOMAIN Tail(q) : Tail(q)[i].from = who[s]
      <4>1. Head(q) = q[1] /\ 1 \in DOMAIN q
        BY <3>6, TailFacts
      <4>2. \A i \in DOMAIN Tail(q) : Tail(q)[i] = q[i + 1] /\ i + 1 \in DOMAIN q
        BY <3>6, TailFacts
      <4> QED
        BY <3>2, <4>1, <4>2 DEF Commands
    <3>8. link[s] = "up" => /\ Coming(Tail(q), m + Len(pending[s]), sent[s].command)
                            /\ Commands(Tail(q)) = {}
      BY <3>2, <3>4, <3>5, <3>6, <3>7, ComingTail
    <3>9. link[s] = "up"
      BY <3>2, <3>6
    <3>10. InHand(s, m)'
      BY <2>2, <3>1, <3>3, <3>8 DEF InHand
    <3> QED
      BY <1>1, <2>2, <2>3, <2>6, <3>1, <3>7, <3>8, <3>9, <3>10 DEF OrderInv
  <2> QED
    BY <2>5, <2>6
<1>4. CASE ~ExecuteNetworkCommands /\ ~(\E s \in Slot : ReceiveWhileLoading(s))
  <2>1. UNCHANGED <<who, sent, inbox, link, pending, given, knocks, backlog>>
    BY <1>4 DEF Server, SignalClients, SeeCompleted, AllCompleted, WaitTooLong, EndWait, TakeTexts,
       ClearTexts, NoTexts, UpdateDone, GameInitiated, StartGame, clients, lists
  <2>2. phase' = phase \/ phase' = "game" \/ (phase = "launched" /\ phase' = "loading")
    BY <1>4 DEF Server, SignalClients, SeeCompleted, AllCompleted, WaitTooLong, EndWait, TakeTexts,
       ClearTexts, NoTexts, UpdateDone, GameInitiated, StartGame
  <2>3. GivenInv'
    BY <2>1 DEF GivenInv
  <2>4. CASE phase' = phase \/ phase' = "game"
    BY <1>1, <2>1, <2>3, <2>4, OrderStill
  <2>5. CASE phase = "launched" /\ phase' = "loading"
    BY <1>1, <2>1, <2>3, <2>5, OrderOn
  <2> QED
    BY <2>2, <2>4, <2>5
<1> QED
  BY <1>2, <1>3, <1>4

LEMMA NextOrders ==
    ASSUME Types, Types', \A x \in Slot : OrderInv(x), GivenInv, [Next]_vars
    PROVE  (\A x \in Slot : OrderInv(x)') /\ (Slot # {} => GivenInv')
<1> SUFFICES ASSUME NEW x \in Slot PROVE OrderInv(x)' /\ GivenInv'
  OBVIOUS
<1>1. OrderInv(x) /\ who[x] <= knocks - backlog
  BY DEF OrderInv
<1>2. ASSUME NEW s \in Slot, HangUp(s) PROVE OrderInv(x)' /\ GivenInv'
  <2>1. UNCHANGED <<who, sent, pending, given, knocks, backlog, phase>>
    BY <1>2 DEF HangUp, clients, lists, server
  <2>2. /\ x = s => link'[x] = "none" /\ inbox'[x] = << >>
        /\ x # s => link'[x] = link[x] /\ inbox'[x] = inbox[x]
    BY <1>2 DEF HangUp, Close, Types
  <2>3. GivenInv'
    BY <2>1 DEF GivenInv
  <2> QED
    BY <1>1, <2>1, <2>2, <2>3, OrderStill, OrderClosed
<1>3. CASE Knock \/ UNCHANGED vars
  <2>1. /\ UNCHANGED <<who, sent, inbox, link, pending, given, phase>>
        /\ knocks' - backlog' = knocks - backlog
    <3>1. knocks \in Nat /\ backlog \in Nat
      BY CountTypes
    <3> QED
      BY <1>3, <3>1 DEF Knock, vars, lists
  <2>2. GivenInv'
    BY <2>1 DEF GivenInv
  <2> QED
    BY <1>1, <2>1, <2>2, OrderStill
<1>4. CASE LaunchGame
  <2>1. /\ UNCHANGED <<who, sent, inbox, link, pending, given, knocks, backlog>>
        /\ phase # "game"
    BY <1>4 DEF LaunchGame, clients, lists
  <2>2. GivenInv'
    BY <2>1 DEF GivenInv
  <2> QED
    BY <1>1, <2>1, <2>2, OrderOn
<1>5. CASE Server
  BY <1>5, MainOrders
<1>6. ASSUME NEW s \in Slot, Client(s) PROVE OrderInv(x)' /\ GivenInv'
  BY <1>6, ClientOrders
<1>7. ASSUME NEW s \in Slot, Thread(s) PROVE OrderInv(x)' /\ GivenInv'
  BY <1>7, ThreadOrders
<1> QED
  BY <1>2, <1>3, <1>4, <1>5, <1>6, <1>7 DEF Next

LEMMA InitOrders ==
    ASSUME Init
    PROVE  GivenInv /\ \A x \in Slot : OrderInv(x)
<1>1. ASSUME NEW x \in Slot PROVE OrderInv(x)
  <2>1. Commands(inbox[x]) = {}
    BY DEF Init, Commands
  <2>2. Numbers(given, who[x]) = 1 .. 0
    BY DEF Init, Numbers
  <2>3. Coming(inbox[x], 0, 0)
    BY <2>1 DEF Coming
  <2>4. InHand(x, 0)
    BY <2>2, <2>3 DEF Init, InHand
  <2>5. who[x] = 0 /\ knocks = 0 /\ backlog = 0 /\ inbox[x] = << >>
    BY DEF Init
  <2> QED
    BY <2>1, <2>4, <2>5 DEF OrderInv
<1>2. GivenInv
  BY DEF Init, GivenInv, InOrder
<1> QED
  BY <1>1, <1>2

\* The commands of every client are requested in the order in which it gave them, none
\* twice and none left out (CommandsAreGivenInOrder).
THEOREM CommandsAreGivenInOrderHolds == Spec => []CommandsAreGivenInOrder
<1> DEFINE Inv == Types /\ (\A s \in Slot : OrderInv(s)) /\ (Slot # {} => GivenInv)
                  /\ (Slot = {} => given = << >>)
<1>1. Init => Inv
  BY InitTypes, InitOrders DEF Init
<1>2. Inv /\ [Next]_vars => Inv'
  <2> SUFFICES ASSUME Inv, [Next]_vars PROVE Inv'
    OBVIOUS
  <2>1. Types'
    BY NextTypes
  <2>2. CASE Slot # {}
    BY <2>1, <2>2, NextOrders
  <2>3. CASE Slot = {}
    <3>1. given' = given
      BY <2>3 DEF Next, Server, Knock, LaunchGame, SignalClients, AllCompleted, WaitTooLong, EndWait,
         ExecuteNetworkCommands, UpdateDone, GameInitiated, StartGame, lists, vars
    <3> QED
      BY <2>1, <2>3, <3>1
  <2> QED
    BY <2>2, <2>3
<1>3. Inv => CommandsAreGivenInOrder
  <2>1. GivenInv => CommandsAreGivenInOrder
    BY DEF GivenInv, InOrder, CommandsAreGivenInOrder
  <2>2. given = << >> => CommandsAreGivenInOrder
    BY DEF CommandsAreGivenInOrder
  <2> QED
    BY <2>1, <2>2
<1> HIDE DEF Inv
<1> QED
  BY <1>1, <1>2, <1>3, PTL DEF Spec
=============================================================================
