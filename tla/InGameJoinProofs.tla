-------------------------- MODULE InGameJoinProofs --------------------------
(***************************************************************************)
(* Proofs about InGameJoin, for any slots, connections, orders and uses of *)
(* the host's menu.  One invariant (IInv) carries most of them: the        *)
(* server's world stands still while somebody has the save, and every      *)
(* order is given, in a client's cache or on its way, in the server's      *)
(* order.  The pause of the only client needs a second one (Alone).        *)
(***************************************************************************)
EXTENDS InGameJoin, ListLemmas

World == [frame : Nat, given : Seq(Nat), cached : Seq(Nat), passed : BOOLEAN,
          paused : BOOLEAN, forJoin : BOOLEAN]
Entry == [frame : Nat \ {0}, cmds : Seq(Cmd), paused : BOOLEAN, forJoin : BOOLEAN]
Game  == [frame : Nat, paused : BOOLEAN, forJoin : BOOLEAN, before : BOOLEAN,
          pauseSent : BOOLEAN, resumeSent : BOOLEAN]

\* The types of the variables.
Types ==
    /\ connected \in [Slot -> BOOLEAN]
    /\ ready \in [Slot -> BOOLEAN]
    /\ joining \in [Slot -> BOOLEAN]
    /\ launch \in [Slot -> BOOLEAN]
    /\ setup \in [Slot -> BOOLEAN]
    /\ unPause \in [Slot -> BOOLEAN]
    /\ sentSave \in [Slot -> BOOLEAN]
    /\ granted \in [Slot -> BOOLEAN]
    /\ uuid \in [Slot -> Slot \cup {None}]
    /\ moveTo \in [Slot -> Slot \cup {None}]
    /\ toServer \in [Slot -> Seq(Cmd \cup {"launch", "ready"})]
    /\ toClient \in [Slot -> Seq(Nat)]
    /\ stage \in [Slot -> Stage]
    /\ world \in [Slot -> World]
    /\ game \in Game
    /\ at \in {"update", "join", "unpausing", "saving", "sending"}
    /\ requested \in Seq(Cmd)
    /\ log \in Seq(Entry)
    /\ saved \in [frame : Nat, given : Nat]

\* The flags of a slot and the place of its client.
SlotInv(s) ==
    /\ connected[s] <=> stage[s] # "out"
    /\ ~connected[s] => ~ready[s] /\ toServer[s] = <<>> /\ toClient[s] = <<>>
    /\ granted[s] => stage[s] \in {"lobby", "launched"}
    /\ joining[s] => ~ready[s]
    /\ ready[s] => stage[s] \in {"barrier", "playing"}
    /\ \A i \in DOMAIN toServer[s] :
           toServer[s][i] = "ready" => stage[s] \in {"barrier", "playing"}
    /\ \A i \in DOMAIN toServer[s] : toServer[s][i] \in {"launch", "ready", "clientOrder"}
    /\ ~ready[s] => \A i \in DOMAIN toClient[s] : toClient[s][i] = 0
    /\ stage[s] = "barrier" => /\ ready[s] => toClient[s] # <<>>
                               /\ toClient[s] # <<>> => toClient[s][1] = 0
    /\ stage[s] \notin {"barrier", "playing"} => world[s] = NoGame

\* A client that is not in the game has the saved game, or has been told of it.
Loaded(s)  == stage[s] \in {"barrier", "playing"}
Told(s)    == connected[s] /\ ~ready[s] /\ (granted[s] \/ toClient[s] # <<>>)
HasSave(s) == ~ready[s] /\ (Loaded(s) \/ Told(s))

\* What is requested fits the pause at which it was requested.
RequestInv ==
    \A i \in DOMAIN requested :
        /\ requested[i] = "pause" => ~game.paused
        /\ requested[i] = "resume" => game.paused
        /\ requested[i] = "joinPause" => ~game.forJoin
        /\ requested[i] = "joinResume" => game.forJoin /\ at = "update"
        /\ requested[i] = "order" => ~game.forJoin

HostInv ==
    /\ saved.given <= Len(log)
    /\ game.forJoin => game.paused
    /\ at \in {"unpausing", "saving", "sending"} => game.forJoin
    /\ at = "sending" => saved = [frame |-> game.frame, given |-> Len(log)]
    /\ (\E s \in Slot : HasSave(s)) =>
           /\ game.forJoin
           /\ at # "unpausing"
           /\ \A i \in DOMAIN requested : requested[i] # "joinResume"

\* After list n the server is paused and takes orders.
Held(n) == log[n].paused /\ ~log[n].forJoin
Before(m, n) == m < n /\ log[m].frame = log[n].frame

LogInv ==
    /\ \A n \in DOMAIN log : log[n].frame <= game.frame
    /\ \A m, n \in DOMAIN log : m < n => log[m].frame <= log[n].frame
    /\ log = <<>> => game.frame = 0 /\ ~game.paused
    /\ log # <<>> => /\ log[Len(log)].frame = game.frame
                     /\ log[Len(log)].paused = game.paused
                     /\ log[Len(log)].forJoin = game.forJoin
    /\ \A m, n \in DOMAIN log :
           Before(m, n) /\ (HasOrder(n) \/ Held(n)) => Held(m)
    /\ \A m, n \in DOMAIN log :
           Before(m, n) /\ Held(n) => Range(log[n].cmds) \subseteq Orders
    /\ \A n \in DOMAIN log :
           \/ \E m \in DOMAIN log : Before(m, n)
           \/ /\ \A c \in Range(log[n].cmds) : c \in Orders \/ IsPause(c)
              /\ log[n].paused => \E c \in Range(log[n].cmds) : IsPause(c)

SaveInv(s) ==
    Told(s) => /\ saved.frame = game.frame
               /\ saved.given > 0
               /\ log[saved.given].frame = game.frame
               /\ log[saved.given].forJoin
               /\ \A n \in Ordering : n <= saved.given

LoadedInv(s) ==
    LET w == world[s]
        k == Len(w.given)
    IN  Loaded(s) /\ ~ready[s] =>
            /\ w.frame = game.frame /\ w.paused /\ ~w.passed /\ w.cached = <<>>
            /\ k > 0 /\ k <= Len(log)
            /\ w.given = [i \in 1 .. k |-> i]
            /\ log[k].frame = game.frame /\ log[k].forJoin
            /\ \A n \in Ordering : n <= k

Under(s)   == {n \in Range(toClient[s]) : n # 0}
Pending(s) == Range(world[s].cached) \cup Under(s)

\* The lists a client has been given, has in its cache, and has under way to it.
ListInv(s) ==
    LET w == world[s]
    IN  Loaded(s) =>
        /\ Range(w.given) \cup Pending(s) \subseteq DOMAIN log
        /\ \A i, j \in DOMAIN w.given : i < j => w.given[i] < w.given[j]
        /\ \A i, j \in DOMAIN w.cached : i < j => w.cached[i] < w.cached[j]
        /\ \A i, j \in DOMAIN toClient[s] :
               i < j /\ toClient[s][i] # 0 /\ toClient[s][j] # 0 => toClient[s][i] < toClient[s][j]
        /\ \A m \in Range(w.cached) \cup Range(w.given), n \in Under(s) : m < n
        /\ \A m \in Range(w.given), n \in Range(w.cached) :
               log[n].frame >= w.frame => m < n

\* Where a client is in the log.
ClientInv(s) ==
    LET w == world[s]
        G == Range(w.given)
    IN  Loaded(s) =>
        /\ Ordering \subseteq G \cup Pending(s)
        /\ \A n \in Ordering : log[n].frame < w.frame => n \in G
        /\ \A m \in G, n \in Ordering : n < m => n \in G
        /\ \A n \in G : log[n].frame <= w.frame
        /\ w.passed => w.frame = 0 \/ \E n \in G : log[n].frame = w.frame
        /\ w.frame <= game.frame \/ (w.frame = game.frame + 1 /\ ~(game.paused /\ ~game.forJoin))
        /\ \A n \in DOMAIN log : log[n].frame > w.frame => n \in Pending(s)
        /\ \/ \E n \in G : log[n].frame = w.frame
           \/ \A n \in DOMAIN log : log[n].frame = w.frame => n \in Pending(s)
        /\ \A n \in G : log[n].frame = w.frame /\ (\A m \in G : m <= n) /\ Held(n) => w.paused

PerSlot(s) == /\ SlotInv(s)
              /\ SaveInv(s)
              /\ LoadedInv(s)
              /\ ListInv(s)
              /\ ClientInv(s)

IInv == /\ Types
        /\ RequestInv
        /\ HostInv
        /\ LogInv
        /\ \A s \in Slot : PerSlot(s)

-----------------------------------------------------------------------------
(* The pauses of a command list. *)

LEMMA ServerPausedType ==
    ASSUME NEW x \in Game, NEW c \in Cmd
    PROVE  ServerPaused(x, c) \in Game
<1>1. IsJoin(c) \in BOOLEAN /\ x.paused \in BOOLEAN
  BY DEF IsJoin, Game
<1>2. CASE c \in Orders \/ Refused(x, c)
  BY <1>2 DEF ServerPaused
<1>3. CASE ~ (c \in Orders \/ Refused(x, c))
  <2> DEFINE b == IF IsJoin(c) THEN x.paused ELSE x.before
             p == [x EXCEPT !.before = b, !.paused = TRUE, !.forJoin = IsJoin(c),
                            !.pauseSent = FALSE]
             r == [x EXCEPT !.paused = FALSE, !.forJoin = FALSE, !.before = FALSE]
  <2>1. b \in BOOLEAN
    BY <1>1 DEF Game
  <2> HIDE DEF b
  <2>2. p \in Game
    BY <1>1, <2>1 DEF Game
  <2>3. r \in Game
    BY DEF Game
  <2>4. ServerPaused(x, c) = IF IsPause(c) THEN p ELSE r
    BY <1>3 DEF ServerPaused, b
  <2> HIDE DEF p, r
  <2> QED
    BY <2>2, <2>3, <2>4
<1> QED
  BY <1>2, <1>3

LEMMA ClientPausedType ==
    ASSUME NEW x \in World, NEW c \in Cmd
    PROVE  ClientPaused(x, c) \in World
<1>1. IsJoin(c) \in BOOLEAN
  BY DEF IsJoin
<1>2. [x EXCEPT !.paused = TRUE, !.forJoin = IsJoin(c)] \in World
  BY <1>1 DEF World
<1>3. [x EXCEPT !.paused = FALSE, !.forJoin = FALSE] \in World
  BY DEF World
<1> QED
  BY <1>2, <1>3 DEF ClientPaused

\* What one command does.
LEMMA ServerStep ==
    ASSUME NEW x \in Game, NEW c \in Cmd
    PROVE  LET y == ServerPaused(x, c)
           IN  /\ y.frame = x.frame
               /\ \/ y = x /\ (c \in Orders \/ Refused(x, c))
                  \/ /\ c \notin Orders /\ ~Refused(x, c) /\ IsPause(c)
                     /\ y.paused /\ y.forJoin = IsJoin(c)
                  \/ /\ c \notin Orders /\ ~Refused(x, c) /\ ~IsPause(c)
                     /\ ~y.paused /\ ~y.forJoin
<1>1. CASE c \in Orders \/ Refused(x, c)
  BY <1>1 DEF ServerPaused
<1>2. CASE ~ (c \in Orders \/ Refused(x, c)) /\ IsPause(c)
  <2> DEFINE b == IF IsJoin(c) THEN x.paused ELSE x.before
             y == [x EXCEPT !.before = b, !.paused = TRUE, !.forJoin = IsJoin(c),
                            !.pauseSent = FALSE]
  <2>1. ServerPaused(x, c) = y
    BY <1>2 DEF ServerPaused
  <2> HIDE DEF b
  <2>2. y.frame = x.frame /\ y.paused /\ y.forJoin = IsJoin(c)
    BY DEF Game
  <2> HIDE DEF y
  <2> QED
    BY <1>2, <2>1, <2>2
<1>3. CASE ~ (c \in Orders \/ Refused(x, c)) /\ ~IsPause(c)
  <2> DEFINE y == [x EXCEPT !.paused = FALSE, !.forJoin = FALSE, !.before = FALSE]
  <2>1. ServerPaused(x, c) = y
    BY <1>3 DEF ServerPaused
  <2>2. y.frame = x.frame /\ ~y.paused /\ ~y.forJoin
    BY DEF Game
  <2> HIDE DEF y
  <2> QED
    BY <1>3, <2>1, <2>2
<1> QED
  BY <1>1, <1>2, <1>3

LEMMA ClientStep ==
    ASSUME NEW x \in World, NEW c \in Cmd
    PROVE  LET y == ClientPaused(x, c)
           IN  /\ y.frame = x.frame /\ y.given = x.given /\ y.cached = x.cached
               /\ y.passed = x.passed
               /\ \/ y = x /\ c \in Orders
                  \/ c \notin Orders /\ IsPause(c) /\ y.paused
                  \/ c \notin Orders /\ ~IsPause(c) /\ ~y.paused
<1>1. CASE c \in Orders
  BY <1>1 DEF ClientPaused
<1>2. CASE c \notin Orders /\ IsPause(c)
  <2> DEFINE y == [x EXCEPT !.paused = TRUE, !.forJoin = IsJoin(c)]
  <2>1. ClientPaused(x, c) = y
    BY <1>2 DEF ClientPaused
  <2>2. /\ y.frame = x.frame /\ y.given = x.given /\ y.cached = x.cached
        /\ y.passed = x.passed /\ y.paused
    BY DEF World
  <2> HIDE DEF y
  <2> QED
    BY <1>2, <2>1, <2>2
<1>3. CASE c \notin Orders /\ ~IsPause(c)
  <2> DEFINE y == [x EXCEPT !.paused = FALSE, !.forJoin = FALSE]
  <2>1. ClientPaused(x, c) = y
    BY <1>3 DEF ClientPaused
  <2>2. /\ y.frame = x.frame /\ y.given = x.given /\ y.cached = x.cached
        /\ y.passed = x.passed /\ ~y.paused
    BY DEF World
  <2> HIDE DEF y
  <2> QED
    BY <1>3, <2>1, <2>2
<1> QED
  BY <1>1, <1>2, <1>3

\* FoldLeft with ServerPaused, step by step: a list given on the server.
LEMMA ServerSteps ==
    ASSUME NEW g \in Game, NEW q \in Seq(Cmd)
    PROVE  \E f : /\ Steps(f, Len(q), Game, g,
                           [i \in 1 .. Len(q) |-> [x \in Game |-> ServerPaused(x, q[i])]])
                  /\ f[Len(q)] = FoldLeft(ServerPaused, g, q)
<1> DEFINE n == Len(q)
           H == [i \in 1 .. n |-> [x \in Game |-> ServerPaused(x, q[i])]]
           P(it) == it = [s \in SUBSET (1 .. n) |->
                      IF s = {} THEN g ELSE ServerPaused(it[s \ {Max(s)}], q[Max(s)])]
           it0 == CHOOSE it : P(it)
<1>1. n \in Nat /\ DOMAIN q = 1 .. n
  OBVIOUS
<1>2. \A x \in Game, c \in Cmd : ServerPaused(x, c) \in Game
  BY ServerPausedType
<1>3. \A i \in 1 .. n : q[i] \in Cmd
  OBVIOUS
<1>4. FoldLeft(ServerPaused, g, q) = it0[1 .. n]
  BY <1>1 DEF FoldLeft, MapThenFoldSet
<1> HIDE DEF n
<1>5. H \in [1 .. n -> [Game -> Game]]
  BY <1>2, <1>3
<1>6. \A s \in SUBSET (1 .. n) : s # {} => Max(s) \in 1 .. n
  BY <1>1, MaxOf
<1>7. \E it : P(it)
  <2> HIDE DEF H
  <2>1. PICK it : Folds(it, n, Game, g, H)
    BY <1>1, <1>5, FoldExists
  <2>2. P(it)
    BY <2>1, <1>6 DEF H, Folds
  <2> QED
    BY <2>2
<1>8. P(it0)
  <2> HIDE DEF P
  <2> QED
    BY <1>7
<1> HIDE DEF it0
<1>9. FoldsIn(it0, n, Game, g, H)
  BY <1>8, <1>6 DEF FoldsIn
<1>10. \E f : Steps(f, n, Game, g, H) /\ f[n] = it0[1 .. n]
  <2> HIDE DEF H, P
  <2> QED
    BY <1>1, <1>5, <1>9, FoldTrace
<1> QED
  BY <1>4, <1>10 DEF n

\* It stays in what every step stays in.
LEMMA ServerStays ==
    ASSUME NEW g, NEW q \in Seq(Cmd), NEW Q \in [0 .. Len(q) -> SUBSET Game], g \in Q[0],
           \A i \in 1 .. Len(q) : \A x \in Q[i - 1] : ServerPaused(x, q[i]) \in Q[i]
    PROVE  FoldLeft(ServerPaused, g, q) \in Q[Len(q)]
<1> DEFINE n == Len(q)
           H == [i \in 1 .. n |-> [x \in Game |-> ServerPaused(x, q[i])]]
<1>1. n \in Nat
  OBVIOUS
<1>2. g \in Game
  <2>1. 0 \in 0 .. n
    BY <1>1
  <2> QED
    BY <2>1
<1>3. PICK f : Steps(f, n, Game, g, H) /\ f[n] = FoldLeft(ServerPaused, g, q)
  BY <1>2, ServerSteps
<1>4. \A i \in 1 .. n : \A x \in Q[i - 1] : H[i][x] \in Q[i]
  <2> TAKE i \in 1 .. n
  <2> TAKE x \in Q[i - 1]
  <2>1. x \in Game
    <3>1. i - 1 \in 0 .. n
      BY <1>1
    <3> QED
      BY <3>1
  <2>2. H[i][x] = ServerPaused(x, q[i])
    BY <2>1
  <2> QED
    BY <2>2
<1> HIDE DEF n, H
<1>5. f[n] \in Q[n]
  BY <1>1, <1>3, <1>4, StepsStay DEF n
<1> QED
  BY <1>3, <1>5 DEF n

\* FoldLeft with ClientPaused, step by step: a list given on a client.
LEMMA ClientSteps ==
    ASSUME NEW g \in World, NEW q \in Seq(Cmd)
    PROVE  \E f : /\ Steps(f, Len(q), World, g,
                           [i \in 1 .. Len(q) |-> [x \in World |-> ClientPaused(x, q[i])]])
                  /\ f[Len(q)] = FoldLeft(ClientPaused, g, q)
<1> DEFINE n == Len(q)
           H == [i \in 1 .. n |-> [x \in World |-> ClientPaused(x, q[i])]]
           P(it) == it = [s \in SUBSET (1 .. n) |->
                      IF s = {} THEN g ELSE ClientPaused(it[s \ {Max(s)}], q[Max(s)])]
           it0 == CHOOSE it : P(it)
<1>1. n \in Nat /\ DOMAIN q = 1 .. n
  OBVIOUS
<1>2. \A x \in World, c \in Cmd : ClientPaused(x, c) \in World
  BY ClientPausedType
<1>3. \A i \in 1 .. n : q[i] \in Cmd
  OBVIOUS
<1>4. FoldLeft(ClientPaused, g, q) = it0[1 .. n]
  BY <1>1 DEF FoldLeft, MapThenFoldSet
<1> HIDE DEF n
<1>5. H \in [1 .. n -> [World -> World]]
  BY <1>2, <1>3
<1>6. \A s \in SUBSET (1 .. n) : s # {} => Max(s) \in 1 .. n
  BY <1>1, MaxOf
<1>7. \E it : P(it)
  <2> HIDE DEF H
  <2>1. PICK it : Folds(it, n, World, g, H)
    BY <1>1, <1>5, FoldExists
  <2>2. P(it)
    BY <2>1, <1>6 DEF H, Folds
  <2> QED
    BY <2>2
<1>8. P(it0)
  <2> HIDE DEF P
  <2> QED
    BY <1>7
<1> HIDE DEF it0
<1>9. FoldsIn(it0, n, World, g, H)
  BY <1>8, <1>6 DEF FoldsIn
<1>10. \E f : Steps(f, n, World, g, H) /\ f[n] = it0[1 .. n]
  <2> HIDE DEF H, P
  <2> QED
    BY <1>1, <1>5, <1>9, FoldTrace
<1> QED
  BY <1>4, <1>10 DEF n

\* It stays in what every step stays in.
LEMMA ClientStays ==
    ASSUME NEW g, NEW q \in Seq(Cmd), NEW Q \in [0 .. Len(q) -> SUBSET World], g \in Q[0],
           \A i \in 1 .. Len(q) : \A x \in Q[i - 1] : ClientPaused(x, q[i]) \in Q[i]
    PROVE  FoldLeft(ClientPaused, g, q) \in Q[Len(q)]
<1> DEFINE n == Len(q)
           H == [i \in 1 .. n |-> [x \in World |-> ClientPaused(x, q[i])]]
<1>1. n \in Nat
  OBVIOUS
<1>2. g \in World
  <2>1. 0 \in 0 .. n
    BY <1>1
  <2> QED
    BY <2>1
<1>3. PICK f : Steps(f, n, World, g, H) /\ f[n] = FoldLeft(ClientPaused, g, q)
  BY <1>2, ClientSteps
<1>4. \A i \in 1 .. n : \A x \in Q[i - 1] : H[i][x] \in Q[i]
  <2> TAKE i \in 1 .. n
  <2> TAKE x \in Q[i - 1]
  <2>1. x \in World
    <3>1. i - 1 \in 0 .. n
      BY <1>1
    <3> QED
      BY <3>1
  <2>2. H[i][x] = ClientPaused(x, q[i])
    BY <2>1
  <2> QED
    BY <2>2
<1> HIDE DEF n, H
<1>5. f[n] \in Q[n]
  BY <1>1, <1>3, <1>4, StepsStay DEF n
<1> QED
  BY <1>3, <1>5 DEF n

\* Commands do not move the server's world, and a join pause is a pause.
LEMMA ServerSame ==
    ASSUME NEW g \in Game, NEW q \in Seq(Cmd), g.forJoin => g.paused
    PROVE  LET h == FoldLeft(ServerPaused, g, q)
           IN  h \in Game /\ h.frame = g.frame /\ (h.forJoin => h.paused)
<1> DEFINE n == Len(q)
           Q == [i \in 0 .. n |-> {x \in Game : x.frame = g.frame /\ (x.forJoin => x.paused)}]
<1>1. n \in Nat /\ \A i \in 1 .. n : q[i] \in Cmd
  OBVIOUS
<1>2. Q \in [0 .. n -> SUBSET Game]
  OBVIOUS
<1>3. g \in Q[0]
  BY <1>1
<1>4. ASSUME NEW i \in 1 .. n, NEW x \in Q[i - 1]
      PROVE  ServerPaused(x, q[i]) \in Q[i]
  <2>1. x \in Game /\ q[i] \in Cmd /\ x.frame = g.frame /\ (x.forJoin => x.paused)
    BY <1>1
  <2>2. ServerPaused(x, q[i]) \in Game
    BY <2>1, ServerPausedType
  <2> QED
    BY <2>1, <2>2, <1>1, ServerStep DEF Orders, IsJoin, IsPause
<1> HIDE DEF Q
<1>5. FoldLeft(ServerPaused, g, q) \in Q[n]
  BY <1>2, <1>3, <1>4, ServerStays
<1> QED
  BY <1>1, <1>5 DEF Q

\* While somebody is on the way into the game only joinResume ends a join pause.
LEMMA ServerStands ==
    ASSUME NEW g \in Game, NEW q \in Seq(Cmd),
           g.forJoin, g.paused, \A i \in DOMAIN q : q[i] # "joinResume",
           \E s \in Slot : connected[s] /\ ~ready[s]
    PROVE  LET h == FoldLeft(ServerPaused, g, q)
           IN  h.forJoin /\ h.paused
<1> DEFINE n == Len(q)
           Q == [i \in 0 .. n |-> {x \in Game : x.forJoin /\ x.paused}]
<1>1. n \in Nat /\ \A i \in 1 .. n : q[i] \in Cmd
  OBVIOUS
<1>2. Q \in [0 .. n -> SUBSET Game]
  OBVIOUS
<1>3. g \in Q[0]
  BY <1>1
<1>4. ASSUME NEW i \in 1 .. n, NEW x \in Q[i - 1]
      PROVE  ServerPaused(x, q[i]) \in Q[i]
  <2>1. x \in Game /\ q[i] \in Cmd /\ x.forJoin /\ x.paused /\ q[i] # "joinResume"
    BY <1>1
  <2>2. ServerPaused(x, q[i]) \in Game
    BY <2>1, ServerPausedType
  <2>3. ~IsJoin(q[i]) => Refused(x, q[i])
    BY <2>1 DEF Refused
  <2>4. q[i] \in Orders \/ ~IsJoin(q[i]) \/ (IsPause(q[i]) /\ IsJoin(q[i]))
    BY <2>1 DEF IsJoin, IsPause, Cmd
  <2>5. ServerPaused(x, q[i]).forJoin /\ ServerPaused(x, q[i]).paused
    BY <2>1, <2>3, <2>4, ServerStep
  <2> QED
    BY <2>2, <2>5
<1> HIDE DEF Q
<1>5. FoldLeft(ServerPaused, g, q) \in Q[n]
  BY <1>2, <1>3, <1>4, ServerStays
<1> QED
  BY <1>1, <1>5 DEF Q

\* A game is paused by a pause.
LEMMA ServerRuns ==
    ASSUME NEW g \in Game, NEW q \in Seq(Cmd),
           ~g.paused, \A i \in DOMAIN q : ~IsPause(q[i])
    PROVE  ~FoldLeft(ServerPaused, g, q).paused
<1> DEFINE n == Len(q)
           Q == [i \in 0 .. n |-> {x \in Game : ~x.paused}]
<1>1. n \in Nat /\ \A i \in 1 .. n : q[i] \in Cmd
  OBVIOUS
<1>2. Q \in [0 .. n -> SUBSET Game]
  OBVIOUS
<1>3. g \in Q[0]
  BY <1>1
<1>4. ASSUME NEW i \in 1 .. n, NEW x \in Q[i - 1]
      PROVE  ServerPaused(x, q[i]) \in Q[i]
  <2>1. x \in Game /\ q[i] \in Cmd /\ ~x.paused /\ ~IsPause(q[i])
    BY <1>1
  <2>2. ServerPaused(x, q[i]) \in Game
    BY <2>1, ServerPausedType
  <2> QED
    BY <2>1, <2>2, <1>1, ServerStep DEF Orders, IsJoin, IsPause
<1> HIDE DEF Q
<1>5. FoldLeft(ServerPaused, g, q) \in Q[n]
  BY <1>2, <1>3, <1>4, ServerStays
<1> QED
  BY <1>1, <1>5 DEF Q

\* A join pause ends with the game running.
LEMMA ServerEndsJoin ==
    ASSUME NEW g \in Game, NEW q \in Seq(Cmd),
           g.forJoin,
           \A i \in DOMAIN q : q[i] \in Orders \cup {"resume", "joinResume"}
    PROVE  LET h == FoldLeft(ServerPaused, g, q)
           IN  ~ (h.paused /\ ~h.forJoin)
<1> DEFINE n == Len(q)
           Q == [i \in 0 .. n |-> {x \in Game : ~ (x.paused /\ ~x.forJoin)}]
<1>1. n \in Nat /\ \A i \in 1 .. n : q[i] \in Cmd
  OBVIOUS
<1>2. Q \in [0 .. n -> SUBSET Game]
  OBVIOUS
<1>3. g \in Q[0]
  BY <1>1
<1>4. ASSUME NEW i \in 1 .. n, NEW x \in Q[i - 1]
      PROVE  ServerPaused(x, q[i]) \in Q[i]
  <2>1. x \in Game /\ q[i] \in Cmd /\ ~ (x.paused /\ ~x.forJoin) /\ q[i] \in Orders \cup {"resume", "joinResume"}
    BY <1>1
  <2>2. ServerPaused(x, q[i]) \in Game
    BY <2>1, ServerPausedType
  <2> QED
    BY <2>1, <2>2, <1>1, ServerStep DEF Orders, IsJoin, IsPause
<1> HIDE DEF Q
<1>5. FoldLeft(ServerPaused, g, q) \in Q[n]
  BY <1>2, <1>3, <1>4, ServerStays
<1> QED
  BY <1>1, <1>5 DEF Q

\* A resume or a join pause ends the pause of the host.
LEMMA ServerEndsHeld ==
    ASSUME NEW g \in Game, NEW q \in Seq(Cmd),
           \A i \in DOMAIN q : q[i] \in Orders \cup {"resume", "joinPause"},
           NEW k \in DOMAIN q, q[k] \notin Orders
    PROVE  LET h == FoldLeft(ServerPaused, g, q)
           IN  ~ (h.paused /\ ~h.forJoin)
<1> DEFINE n == Len(q)
           Q == [i \in 0 .. n |-> IF i < k THEN Game ELSE {x \in Game : ~ (x.paused /\ ~x.forJoin)}]
<1>1. n \in Nat /\ \A i \in 1 .. n : q[i] \in Cmd
  OBVIOUS
<1>2. Q \in [0 .. n -> SUBSET Game]
  OBVIOUS
<1>3. g \in Q[0]
  BY <1>1
<1>4. ASSUME NEW i \in 1 .. n, NEW x \in Q[i - 1]
      PROVE  ServerPaused(x, q[i]) \in Q[i]
  <2> DEFINE y == ServerPaused(x, q[i])
  <2>1. x \in Game /\ q[i] \in Cmd /\ q[i] \in Orders \cup {"resume", "joinPause"}
    BY <1>1
  <2>2. y \in Game
    BY <2>1, ServerPausedType
  <2>3. k \in 1 .. n /\ i \in 0 .. n /\ i - 1 \in 0 .. n
    BY <1>1
  <2>0. q[i] \notin Orders /\ IsPause(q[i]) => IsJoin(q[i])
    BY <2>1 DEF IsPause, IsJoin
  <2>9. \/ y = x /\ (q[i] \in Orders \/ Refused(x, q[i]))
        \/ q[i] \notin Orders /\ IsPause(q[i]) /\ y.paused /\ y.forJoin = IsJoin(q[i])
        \/ q[i] \notin Orders /\ ~IsPause(q[i]) /\ ~y.paused /\ ~y.forJoin
    BY <2>1, ServerStep
  <2> HIDE DEF y
  <2>4. CASE i < k
    BY <2>2, <2>3, <2>4 DEF y
  <2>5. CASE i = k
    <3>1. q[i] \notin Orders
      BY <2>5
    <3>2. Refused(x, q[i]) => x.forJoin
      BY DEF Refused
    <3>3. ~ (y.paused /\ ~y.forJoin)
      BY <2>0, <2>9, <3>1, <3>2
    <3> QED
      BY <2>2, <2>3, <2>5, <3>3 DEF y
  <2>6. CASE i > k
    <3>1. ~ (x.paused /\ ~x.forJoin)
      BY <2>3, <2>6
    <3>2. ~ (y.paused /\ ~y.forJoin)
      BY <2>0, <2>9, <3>1
    <3> QED
      BY <2>2, <2>3, <2>6, <3>2 DEF y
  <2> QED
    BY <2>3, <2>4, <2>5, <2>6
<1> HIDE DEF Q
<1>5. FoldLeft(ServerPaused, g, q) \in Q[n]
  BY <1>2, <1>3, <1>4, ServerStays
<1> QED
  BY <1>1, <1>5 DEF Q

\* Commands do not move a client's world.
LEMMA ClientSame ==
    ASSUME NEW w \in World, NEW q \in Seq(Cmd)
    PROVE  LET h == FoldLeft(ClientPaused, w, q)
           IN  /\ h \in World /\ h.frame = w.frame /\ h.given = w.given
               /\ h.cached = w.cached /\ h.passed = w.passed
<1> DEFINE n == Len(q)
           Q == [i \in 0 .. n |-> {x \in World : /\ x.frame = w.frame /\ x.given = w.given
                                        /\ x.cached = w.cached /\ x.passed = w.passed}]
<1>1. n \in Nat /\ \A i \in 1 .. n : q[i] \in Cmd
  OBVIOUS
<1>2. Q \in [0 .. n -> SUBSET World]
  OBVIOUS
<1>3. w \in Q[0]
  BY <1>1
<1>4. ASSUME NEW i \in 1 .. n, NEW x \in Q[i - 1]
      PROVE  ClientPaused(x, q[i]) \in Q[i]
  <2>1. x \in World /\ q[i] \in Cmd /\ x.frame = w.frame /\ x.given = w.given
        /\ x.cached = w.cached /\ x.passed = w.passed
    BY <1>1
  <2>2. ClientPaused(x, q[i]) \in World
    BY <2>1, ClientPausedType
  <2> QED
    BY <2>1, <2>2, <1>1, ClientStep
<1> HIDE DEF Q
<1>5. FoldLeft(ClientPaused, w, q) \in Q[n]
  BY <1>2, <1>3, <1>4, ClientStays
<1> QED
  BY <1>1, <1>5 DEF Q

\* A client that is given pauses and no resume is paused.
LEMMA ClientStands ==
    ASSUME NEW w \in World, NEW q \in Seq(Cmd),
           \A i \in DOMAIN q : q[i] \in Orders \/ IsPause(q[i]), w.paused
    PROVE  FoldLeft(ClientPaused, w, q).paused
<1> DEFINE n == Len(q)
           Q == [i \in 0 .. n |-> {x \in World : x.paused}]
<1>1. n \in Nat /\ \A i \in 1 .. n : q[i] \in Cmd
  OBVIOUS
<1>2. Q \in [0 .. n -> SUBSET World]
  OBVIOUS
<1>3. w \in Q[0]
  BY <1>1
<1>4. ASSUME NEW i \in 1 .. n, NEW x \in Q[i - 1]
      PROVE  ClientPaused(x, q[i]) \in Q[i]
  <2>1. x \in World /\ q[i] \in Cmd /\ x.paused /\ (q[i] \in Orders \/ IsPause(q[i]))
    BY <1>1
  <2>2. ClientPaused(x, q[i]) \in World
    BY <2>1, ClientPausedType
  <2> QED
    BY <2>1, <2>2, <1>1, ClientStep
<1> HIDE DEF Q
<1>5. FoldLeft(ClientPaused, w, q) \in Q[n]
  BY <1>2, <1>3, <1>4, ClientStays
<1> QED
  BY <1>1, <1>5 DEF Q

\* One pause is enough.
LEMMA ClientPauses ==
    ASSUME NEW w \in World, NEW q \in Seq(Cmd),
           \A i \in DOMAIN q : q[i] \in Orders \/ IsPause(q[i]),
           NEW k \in DOMAIN q, IsPause(q[k])
    PROVE  FoldLeft(ClientPaused, w, q).paused
<1> DEFINE n == Len(q)
           Q == [i \in 0 .. n |-> IF i < k THEN World ELSE {x \in World : x.paused}]
<1>1. n \in Nat /\ \A i \in 1 .. n : q[i] \in Cmd
  OBVIOUS
<1>2. Q \in [0 .. n -> SUBSET World]
  OBVIOUS
<1>3. w \in Q[0]
  BY <1>1
<1>4. ASSUME NEW i \in 1 .. n, NEW x \in Q[i - 1]
      PROVE  ClientPaused(x, q[i]) \in Q[i]
  <2> DEFINE y == ClientPaused(x, q[i])
  <2>1. x \in World /\ q[i] \in Cmd /\ (q[i] \in Orders \/ IsPause(q[i]))
    BY <1>1
  <2>2. y \in World
    BY <2>1, ClientPausedType
  <2>3. k \in 1 .. n /\ i \in 0 .. n /\ i - 1 \in 0 .. n
    BY <1>1
  <2>4. CASE i < k
    BY <2>2, <2>3, <2>4
  <2>5. CASE i = k
    <3>1. IsPause(q[i]) /\ q[i] \notin Orders
      BY <2>5 DEF IsPause, Orders
    <3>2. y.paused
      BY <2>1, <3>1, ClientStep
    <3> QED
      BY <2>2, <2>3, <2>5, <3>2
  <2>6. CASE i > k
    <3>1. x.paused
      BY <2>3, <2>6
    <3>2. y.paused
      BY <2>1, <3>1, ClientStep
    <3> QED
      BY <2>2, <2>3, <2>6, <3>2
  <2> QED
    BY <2>3, <2>4, <2>5, <2>6
<1> HIDE DEF Q
<1>5. FoldLeft(ClientPaused, w, q) \in Q[n]
  BY <1>2, <1>3, <1>4, ClientStays
<1> QED
  BY <1>1, <1>5 DEF Q

-----------------------------------------------------------------------------
(* Steps that leave the server alone. *)

LEMMA LogTypes ==
    ASSUME Types
    PROVE  /\ Len(log) \in Nat /\ DOMAIN log = 1 .. Len(log) /\ game.frame \in Nat
           /\ \A n \in DOMAIN log : /\ n \in Nat \ {0}
                                   /\ log[n] \in Entry
                                   /\ log[n].frame \in Nat /\ log[n].frame # 0
                                   /\ log[n].cmds \in Seq(Cmd)
                                   /\ log[n].paused \in BOOLEAN /\ log[n].forJoin \in BOOLEAN
<1>1. log \in Seq(Entry) /\ game.frame \in Nat
  BY DEF Types, Game
<1>2. Len(log) \in Nat /\ DOMAIN log = 1 .. Len(log)
  BY <1>1
<1>3. \A n \in DOMAIN log : log[n] \in Entry
  BY <1>1
<1>4. \A e \in Entry : /\ e.frame \in Nat /\ e.frame # 0 /\ e.cmds \in Seq(Cmd)
                       /\ e.paused \in BOOLEAN /\ e.forJoin \in BOOLEAN
  BY DEF Entry
<1> QED
  BY <1>1, <1>2, <1>3, <1>4

\* What is in slot y before the step is in slot x after it.
Moved(x, y) ==
    /\ connected'[x] = connected[y]
    /\ ready'[x] = ready[y]
    /\ joining'[x] = joining[y]
    /\ granted'[x] = granted[y]
    /\ toServer'[x] = toServer[y]
    /\ toClient'[x] = toClient[y]
    /\ stage'[x] = stage[y]
    /\ world'[x] = world[y]

LEMMA MovedSlot ==
    ASSUME NEW x, NEW y, Moved(x, y), PerSlot(y), log' = log, saved' = saved,
           game'.frame = game.frame, game'.paused = game.paused, game'.forJoin = game.forJoin
    PROVE  PerSlot(x)' /\ (HasSave(x)' => HasSave(y))
<1> USE DEF Moved, Told, Loaded
<1>1. SlotInv(x)'
  BY DEF PerSlot, SlotInv
<1>2. SaveInv(x)'
  BY DEF PerSlot, SaveInv, Ordering, HasOrder
<1>3. LoadedInv(x)'
  BY DEF PerSlot, LoadedInv, Ordering, HasOrder
<1>4. ListInv(x)'
  BY DEF PerSlot, ListInv, Pending, Under
<1>5. ClientInv(x)'
  BY DEF PerSlot, ClientInv, Pending, Under, Ordering, HasOrder, Held
<1>6. HasSave(x)' => HasSave(y)
  BY DEF HasSave
<1> QED
  BY <1>1, <1>2, <1>3, <1>4, <1>5, <1>6 DEF PerSlot

LEMMA SameHost ==
    ASSUME IInv, UNCHANGED <<game, at, requested, log, saved>>,
           \A x \in Slot : HasSave(x)' => \E y \in Slot : HasSave(y)
    PROVE  RequestInv' /\ HostInv' /\ LogInv'
<1>1. RequestInv'
  BY DEF IInv, RequestInv
<1>2. HostInv'
  BY DEF IInv, HostInv
<1>3. LogInv'
  BY DEF IInv, LogInv, Before, Held, HasOrder
<1> QED
  BY <1>1, <1>2, <1>3

\* One slot changes.
LEMMA OneSlot ==
    ASSUME IInv, Types', UNCHANGED <<game, at, requested, log, saved>>,
           NEW s \in Slot, \A x \in Slot \ {s} : Moved(x, x),
           PerSlot(s)', HasSave(s)' => HasSave(s)
    PROVE  IInv'
<1>1. ASSUME NEW x \in Slot, x # s
      PROVE  PerSlot(x)' /\ (HasSave(x)' => HasSave(x))
  <2>1. Moved(x, x) /\ PerSlot(x)
    BY <1>1 DEF IInv
  <2> QED
    BY <2>1, MovedSlot
<1>2. RequestInv' /\ HostInv' /\ LogInv'
  BY <1>1, SameHost
<1>3. \A x \in Slot : PerSlot(x)'
  BY <1>1
<1> QED
  BY <1>2, <1>3 DEF IInv

\* A connection that is closed.
LEMMA CloseKeeps ==
    ASSUME IInv, NEW s \in Slot, Close(s), UNCHANGED <<host, budget>>
    PROVE  IInv'
<1>1. Types'
  <2>1. NoGame \in World
    BY DEF NoGame, World
  <2> QED
    BY <2>1 DEF IInv, Types, Close, who, host, Stage
<1>2. /\ ~connected'[s] /\ ~ready'[s] /\ ~joining'[s] /\ ~granted'[s]
      /\ toServer'[s] = <<>> /\ toClient'[s] = <<>>
      /\ stage'[s] = "out" /\ world'[s] = NoGame
  BY DEF IInv, Types, Close
<1>3. PerSlot(s)'
  BY <1>2 DEF PerSlot, SlotInv, SaveInv, LoadedInv, ListInv, ClientInv, Told, Loaded
<1>4. ~HasSave(s)'
  BY <1>2 DEF HasSave, Told, Loaded
<1>5. \A x \in Slot \ {s} : Moved(x, x)
  BY DEF IInv, Types, Close, Moved
<1> QED
  BY <1>1, <1>3, <1>4, <1>5, OneSlot DEF host

LEMMA AcceptKeeps ==
    ASSUME IInv, NEW s \in Slot, Accept(s)
    PROVE  IInv'
<1>1. Types'
  BY DEF IInv, Types, Accept, wires, host, Stage
<1>2. /\ ~connected[s] /\ stage[s] = "out" /\ ~granted[s] /\ world[s] = NoGame
      /\ toServer[s] = <<>> /\ toClient[s] = <<>>
  BY DEF IInv, PerSlot, SlotInv, Accept
<1>3. /\ connected'[s] /\ ~ready'[s] /\ ~granted'[s] /\ joining' = joining
      /\ toServer'[s] = <<>> /\ toClient'[s] = <<>>
      /\ stage'[s] = "connecting" /\ world'[s] = NoGame
  BY <1>2 DEF IInv, Types, Accept, wires
<1>4. PerSlot(s)'
  BY <1>3 DEF PerSlot, SlotInv, SaveInv, LoadedInv, ListInv, ClientInv, Told, Loaded
<1>5. ~HasSave(s)'
  BY <1>3 DEF HasSave, Told, Loaded
<1>6. \A x \in Slot \ {s} : Moved(x, x)
  BY DEF IInv, Types, Accept, Moved, wires
<1> QED
  BY <1>1, <1>4, <1>5, <1>6, OneSlot DEF host, Accept

\* The flags of a join are set in a slot that is not ready: the client's own, or one
\* that nobody is connected to.
LEMMA SlotIntroKeeps ==
    ASSUME IInv, NEW s \in Slot, SlotIntro(s)
    PROVE  IInv'
<1>1. PICK p \in Slot :
          LET old  == FindSlotForUUID(p)
              slot == IF old = None THEN s ELSE old
          IN  /\ stage[s] = "connecting"
              /\ stage' = [stage EXCEPT ![s] = "lobby"]
              /\ uuid' = [uuid EXCEPT ![s] = p]
              /\ moveTo' = [moveTo EXCEPT ![s] = old]
              /\ joining' = [joining EXCEPT ![slot] = TRUE]
              /\ ready' = [ready EXCEPT ![slot] = FALSE]
              /\ sentSave' = [sentSave EXCEPT ![slot] = FALSE]
              /\ setup' = [setup EXCEPT ![slot] = TRUE]
              /\ UNCHANGED <<connected, launch, unPause, wires, granted, world, host, budget>>
  BY DEF SlotIntro
<1> DEFINE old  == FindSlotForUUID(p)
           slot == IF old = None THEN s ELSE old
<1>2. old = None \/ (old \in Slot /\ ~connected[old])
  <2> DEFINE T == SlotsLeftBy(p)
  <2>1. CASE T = {}
    BY <2>1 DEF FindSlotForUUID
  <2>2. CASE T # {}
    <3>1. T \in SUBSET Nat
      BY SlotAssumption DEF SlotsLeftBy
    <3>2. PICK m \in T : \A y \in T : m <= y
      BY <2>2, <3>1, LeastNumber
    <3> HIDE DEF T
    <3>3. Min(T) \in T
      BY <3>2 DEF Min
    <3>4. Min(T) \in Slot /\ ~connected[Min(T)]
      BY <3>3 DEF T, SlotsLeftBy
    <3> QED
      BY <2>2, <3>4 DEF T, FindSlotForUUID
  <2> QED
    BY <2>1, <2>2
<1> HIDE DEF old
<1>3. slot \in Slot /\ ~ready[slot] /\ ~ready[s] /\ (slot # s => ~connected[slot])
  <2>1. ~ready[s]
    BY <1>1 DEF IInv, PerSlot, SlotInv
  <2>2. old # None => ~ready[old]
    BY <1>2 DEF IInv, PerSlot, SlotInv
  <2> QED
    BY <1>2, <2>1, <2>2
<1>4. /\ stage' = [stage EXCEPT ![s] = "lobby"]
      /\ uuid' = [uuid EXCEPT ![s] = p]
      /\ moveTo' = [moveTo EXCEPT ![s] = old]
      /\ joining' = [joining EXCEPT ![slot] = TRUE]
      /\ ready' = [ready EXCEPT ![slot] = FALSE]
      /\ sentSave' = [sentSave EXCEPT ![slot] = FALSE]
      /\ setup' = [setup EXCEPT ![slot] = TRUE]
      /\ stage[s] = "connecting"
      /\ UNCHANGED <<connected, launch, unPause, wires, granted, world, host, budget>>
  BY <1>1 DEF old
<1> HIDE DEF slot
<1>5. Types'
  BY <1>2, <1>3, <1>4 DEF IInv, Types, wires, host, Stage
<1>6. ready' = ready
  BY <1>3, <1>4 DEF IInv, Types
<1>7. UNCHANGED <<connected, toServer, toClient, granted, world, game, at, requested, log, saved>>
  BY <1>4 DEF wires, host
<1>8. ASSUME NEW x \in Slot
      PROVE  PerSlot(x)' /\ (HasSave(x)' => HasSave(x))
  <2>1. stage'[x] = stage[x] \/ (x = s /\ stage'[s] = "lobby" /\ stage[s] = "connecting")
    BY <1>4 DEF IInv, Types
  <2>2. joining'[x] => ~ready[x]
    <3>1. x = slot \/ joining'[x] = joining[x]
      <4> HIDE DEF slot
      <4>1. joining \in [Slot -> BOOLEAN] /\ joining' = [joining EXCEPT ![slot] = TRUE]
        BY <1>4 DEF IInv, Types, slot
      <4> QED
        BY <4>1
    <3>2. SlotInv(x)
      BY DEF IInv, PerSlot
    <3> QED
      BY <1>3, <3>1, <3>2 DEF SlotInv
  <2>3. SlotInv(x)'
    BY <1>6, <1>7, <2>1, <2>2 DEF IInv, PerSlot, SlotInv
  <2>4. SaveInv(x)'
    BY <1>6, <1>7 DEF IInv, PerSlot, SaveInv, Told, Ordering, HasOrder
  <2>5. Loaded(x)' = Loaded(x)
    BY <2>1 DEF Loaded
  <2>6. LoadedInv(x)'
    BY <1>6, <1>7, <2>5 DEF IInv, PerSlot, LoadedInv, Ordering, HasOrder
  <2>7. ListInv(x)'
    BY <1>7, <2>5 DEF IInv, PerSlot, ListInv, Pending, Under
  <2>8. ClientInv(x)'
    BY <1>7, <2>5 DEF IInv, PerSlot, ClientInv, Pending, Under, Ordering, HasOrder, Held
  <2>9. HasSave(x)' => HasSave(x)
    BY <1>6, <1>7, <2>5 DEF HasSave, Told
  <2> QED
    BY <2>3, <2>4, <2>6, <2>7, <2>8, <2>9 DEF PerSlot
<1>9. RequestInv' /\ HostInv' /\ LogInv'
  BY <1>7, <1>8, SameHost
<1> QED
  BY <1>5, <1>8, <1>9 DEF IInv

\* Two slots change places, with all that is theirs.
LEMMA SwitchSlotKeeps ==
    ASSUME IInv, NEW s \in Slot, SwitchSlot(s)
    PROVE  IInv'
<1> DEFINE t == moveTo[s]
           Other(x) == IF x = s THEN t ELSE IF x = t THEN s ELSE x
<1>1. t \in Slot
  BY DEF IInv, Types, SwitchSlot
<1>2. CASE connected[t]
  <2>1. Types'
    BY <1>1, <1>2 DEF IInv, Types, SwitchSlot, flags, wires, peers, host
  <2>2. \A x \in Slot : Moved(x, x)
    BY <1>2 DEF SwitchSlot, Moved, flags, wires, peers
  <2>3. UNCHANGED <<game, at, requested, log, saved>>
    BY DEF SwitchSlot, host
  <2>4. \A x \in Slot : PerSlot(x)' /\ (HasSave(x)' => HasSave(x))
    BY <2>2, <2>3, MovedSlot DEF IInv
  <2> QED
    BY <2>1, <2>3, <2>4, SameHost DEF IInv
<1>3. CASE ~connected[t]
  <2>1. \A x \in Slot : Other(x) \in Slot
    BY <1>1
  <2>2. /\ moveTo' = [x \in Slot |-> IF x = t THEN None ELSE Other(moveTo[Other(x)])]
        /\ connected' = [x \in Slot |-> connected[Other(x)]]
        /\ ready' = [x \in Slot |-> ready[Other(x)]]
        /\ joining' = [x \in Slot |-> joining[Other(x)]]
        /\ launch' = [x \in Slot |-> launch[Other(x)]]
        /\ setup' = [x \in Slot |-> setup[Other(x)]]
        /\ unPause' = [x \in Slot |-> unPause[Other(x)]]
        /\ sentSave' = [x \in Slot |-> sentSave[Other(x)]]
        /\ uuid' = [x \in Slot |-> uuid[Other(x)]]
        /\ toServer' = [x \in Slot |-> toServer[Other(x)]]
        /\ toClient' = [x \in Slot |-> toClient[Other(x)]]
        /\ stage' = [x \in Slot |-> stage[Other(x)]]
        /\ granted' = [x \in Slot |-> granted[Other(x)]]
        /\ world' = [x \in Slot |-> world[Other(x)]]
        /\ UNCHANGED <<game, at, requested, log, saved>>
    BY <1>3 DEF SwitchSlot, host
  <2>3. \A x \in Slot \cup {None} : Other(x) \in Slot \cup {None}
    BY <1>1
  <2> HIDE DEF Other, t
  <2>4. Types'
    BY <2>1, <2>2, <2>3 DEF IInv, Types
  <2>5. \A x \in Slot : Moved(x, Other(x))
    BY <2>2 DEF Moved
  <2>6. \A x \in Slot : PerSlot(x)' /\ (HasSave(x)' => HasSave(Other(x)))
    BY <2>1, <2>2, <2>5, MovedSlot DEF IInv
  <2> QED
    BY <2>1, <2>2, <2>4, <2>6, SameHost DEF IInv
<1> QED
  BY <1>2, <1>3

\* A client that is on the way into the game has a message for the server.
LEMMA LaunchKeeps ==
    ASSUME IInv, NEW s \in Slot, Launch(s)
    PROVE  IInv'
<1>1. Types'
  BY DEF IInv, Types, Launch, flags, who, host, Stage
<1>2. /\ stage[s] = "lobby" /\ stage'[s] = "launched"
      /\ toServer'[s] = Append(toServer[s], "launch")
      /\ toServer[s] \in Seq(Cmd \cup {"launch", "ready"})
      /\ UNCHANGED <<connected, ready, joining, granted, toClient, world, log, game, saved>>
  BY DEF IInv, Types, Launch, flags, host
<1>3. PerSlot(s)
  BY DEF IInv
<1>4. SlotInv(s)'
  BY <1>2, <1>3 DEF PerSlot, SlotInv
<1>5. PerSlot(s)'
  BY <1>2, <1>3, <1>4
     DEF PerSlot, SaveInv, LoadedInv, ListInv, ClientInv, Told, Loaded, Ordering, HasOrder
<1>6. HasSave(s)' => HasSave(s)
  BY <1>2 DEF HasSave, Told, Loaded
<1>7. \A x \in Slot \ {s} : Moved(x, x)
  BY DEF IInv, Types, Launch, Moved, flags
<1> QED
  BY <1>1, <1>5, <1>6, <1>7, OneSlot DEF Launch, host

LEMMA LobbyReadyKeeps ==
    ASSUME IInv, NEW s \in Slot, LobbyReady(s)
    PROVE  IInv'
<1>1. Types'
  BY DEF IInv, Types, LobbyReady, flags, who, host
<1>2. /\ stage[s] \in {"lobby", "launched"} /\ granted'[s]
      /\ toClient[s] \in Seq(Nat) /\ toClient[s] # <<>> /\ toClient'[s] = Tail(toClient[s])
      /\ UNCHANGED <<connected, ready, joining, toServer, stage, world, log, game, saved>>
  BY DEF IInv, Types, LobbyReady, flags, host
<1>3. PerSlot(s)
  BY DEF IInv
<1>4. Told(s) /\ HasSave(s)
  BY <1>2, <1>3 DEF PerSlot, SlotInv, Told, HasSave
<1>5. SlotInv(s)'
  BY <1>2, <1>3 DEF PerSlot, SlotInv
<1>6. SaveInv(s)'
  BY <1>2, <1>3, <1>4 DEF PerSlot, SaveInv, Ordering, HasOrder
<1>7. PerSlot(s)'
  BY <1>2, <1>5, <1>6 DEF PerSlot, LoadedInv, ListInv, ClientInv, Loaded
<1>8. \A x \in Slot \ {s} : Moved(x, x)
  BY DEF IInv, Types, LobbyReady, Moved, flags
<1> QED
  BY <1>1, <1>4, <1>7, <1>8, OneSlot DEF LobbyReady, host

\* A client that loads the saved game is where the server is, and the server stands still.
LEMMA LoadKeeps ==
    ASSUME IInv, NEW s \in Slot, Load(s)
    PROVE  IInv'
<1> DEFINE k == saved.given
           g == [i \in 1 .. k |-> i]
           w == [NoGame EXCEPT !.frame = saved.frame, !.given = g, !.paused = TRUE]
<1>1. /\ k \in Nat /\ saved.frame \in Nat /\ g \in Seq(Nat) /\ Len(g) = k /\ DOMAIN g = 1 .. k
      /\ log \in Seq(Entry)
  BY DEF IInv, Types
<1>2. /\ stage[s] = "launched" /\ granted[s]
      /\ stage' = [stage EXCEPT ![s] = "barrier"]
      /\ granted' = [granted EXCEPT ![s] = FALSE]
      /\ world' = [world EXCEPT ![s] = w]
      /\ toServer' = [toServer EXCEPT ![s] = Append(@, "ready")]
      /\ UNCHANGED <<flags, who, toClient, host, budget>>
  BY DEF Load
<1>3. NoGame \in World /\ NoGame.cached = <<>> /\ ~NoGame.passed
  BY DEF NoGame, World
<1>4. /\ w \in World
      /\ w.frame = saved.frame /\ w.given = g /\ w.cached = <<>> /\ ~w.passed /\ w.paused
  <2> HIDE DEF g
  <2> QED
    BY <1>1, <1>3 DEF World
<1> HIDE DEF w
<1>5. Types'
  BY <1>2, <1>4 DEF IInv, Types, flags, who, host, Stage
<1>6. /\ stage'[s] = "barrier" /\ ~granted'[s] /\ world'[s] = w
      /\ toServer'[s] = Append(toServer[s], "ready")
      /\ toServer[s] \in Seq(Cmd \cup {"launch", "ready"})
      /\ toClient[s] \in Seq(Nat)
      /\ UNCHANGED <<connected, ready, joining, toClient, log, game, saved>>
  BY <1>2 DEF IInv, Types, flags, host
<1>7. PerSlot(s)
  BY DEF IInv
<1>8. /\ connected[s] /\ ~ready[s] /\ Told(s) /\ HasSave(s)
      /\ \A i \in DOMAIN toClient[s] : toClient[s][i] = 0
  BY <1>2, <1>7 DEF PerSlot, SlotInv, Told, HasSave
<1>9. /\ saved.frame = game.frame
      /\ k > 0 /\ k <= Len(log)
      /\ log[k].frame = game.frame
      /\ log[k].forJoin
      /\ \A n \in Ordering : n <= k
  BY <1>7, <1>8 DEF IInv, HostInv, PerSlot, SaveInv
<1>10. Under(s)' = {}
  BY <1>6, <1>8 DEF Under, Range
<1>11. Range(w.given) = 1 .. k /\ Range(w.cached) = {}
  BY <1>1, <1>4 DEF Range
<1>12. SlotInv(s)'
  BY <1>2, <1>6, <1>7, <1>8 DEF PerSlot, SlotInv
<1>13. SaveInv(s)'
  BY <1>6, <1>9 DEF SaveInv, Ordering, HasOrder
<1> HIDE DEF g, k
<1>14. LoadedInv(s)'
  BY <1>1, <1>4, <1>6, <1>9 DEF LoadedInv, Ordering, HasOrder, g
<1>15. ListInv(s)'
  <2>1. Pending(s)' = {}
    BY <1>6, <1>10, <1>11 DEF Pending
  <2>2. \A i \in DOMAIN toClient[s]' : toClient[s][i]' = 0
    BY <1>6, <1>8
  <2>3. 1 .. k \subseteq DOMAIN log'
    BY <1>1, <1>6, <1>9
  <2>4. \A i, j \in DOMAIN w.given : i < j => w.given[i] < w.given[j]
    BY <1>1, <1>4 DEF g
  <2>5. DOMAIN w.cached = {}
    BY <1>4
  <2> QED
    BY <1>6, <1>10, <1>11, <2>1, <2>2, <2>3, <2>4, <2>5 DEF ListInv
<1>16. ClientInv(s)'
  <2>1. \A n \in DOMAIN log : log[n].frame <= game.frame
    BY DEF IInv, LogInv
  <2>2. game.frame \in Nat /\ \A n \in DOMAIN log : n \in Nat \ {0} /\ log[n].frame \in Nat
    BY LogTypes DEF IInv
  <2>3. \A n \in Ordering' : n \in 1 .. k
    BY <1>6, <1>9, <2>2 DEF Ordering, HasOrder
  <2>4. \A n \in 1 .. k : n \in DOMAIN log
    BY <1>1, <1>9
  <2> DEFINE c == world'[s]
  <2>5. /\ c.frame = game.frame /\ Range(c.given) = 1 .. k /\ ~c.passed /\ c.paused
        /\ k \in 1 .. k
    BY <1>1, <1>4, <1>6, <1>9, <1>11
  <2> HIDE DEF c
  <2>6. \A n \in DOMAIN log : ~ (log[n].frame > c.frame)
    BY <2>1, <2>2, <2>5
  <2>7. c.frame <= game.frame
    BY <2>2, <2>5
  <2>8. \E n \in 1 .. k : log[n].frame = c.frame
    BY <1>9, <2>5
  <2>9. \A n \in 1 .. k : log[n].frame <= c.frame
    BY <2>1, <2>4, <2>5
  <2> QED
    BY <1>6, <2>3, <2>5, <2>6, <2>7, <2>8, <2>9 DEF ClientInv, c
<1>17. \A x \in Slot \ {s} : Moved(x, x)
  BY <1>2 DEF IInv, Types, Moved, flags
<1>18. PerSlot(s)'
  BY <1>12, <1>13, <1>14, <1>15, <1>16 DEF PerSlot
<1> QED
  BY <1>2, <1>5, <1>8, <1>17, <1>18, OneSlot DEF host

\* A client that is in the game, or has the saved game, gets the answer to its Ready.
LEMMA StartPlayingKeeps ==
    ASSUME IInv, NEW s \in Slot, StartPlaying(s)
    PROVE  IInv'
<1>1. Types'
  BY DEF IInv, Types, StartPlaying, flags, who, host, Stage
<1>2. /\ stage[s] = "barrier" /\ stage'[s] = "playing"
      /\ toClient[s] \in Seq(Nat) /\ toClient[s] # <<>> /\ toClient'[s] = Tail(toClient[s])
      /\ toServer[s] \in Seq(Cmd \cup {"launch", "ready"})
      /\ toServer'[s] = Append(toServer[s], "ready")
      /\ UNCHANGED <<connected, ready, joining, granted, world, log, game, saved>>
  BY DEF IInv, Types, StartPlaying, flags, host
<1>3. PerSlot(s)
  BY DEF IInv
<1>4. SlotInv(s)'
  BY <1>2, <1>3 DEF PerSlot, SlotInv
<1>5. toClient[s][1] = 0
  BY <1>2, <1>3 DEF PerSlot, SlotInv
<1>6. Loaded(s) /\ Loaded(s)'
  BY <1>2 DEF Loaded
<1>7. Told(s)' => Told(s)
  BY <1>2 DEF Told
<1>8. SaveInv(s)'
  BY <1>2, <1>3, <1>7 DEF PerSlot, SaveInv, Ordering, HasOrder
<1>9. LoadedInv(s)'
  BY <1>2, <1>3, <1>6 DEF PerSlot, LoadedInv, Ordering, HasOrder
<1>10. Under(s)' = Under(s)
  <2> DEFINE q == toClient[s]
  <2>1. /\ DOMAIN q = 1 .. Len(q) /\ Len(q) \in Nat \ {0}
        /\ DOMAIN Tail(q) = 1 .. Len(q) - 1
        /\ \A i \in DOMAIN Tail(q) : Tail(q)[i] = q[i + 1]
    BY <1>2
  <2> HIDE DEF q
  <2>2. ASSUME NEW i \in DOMAIN q, q[i] # 0 PROVE q[i] \in Range(Tail(q))
    <3>1. i - 1 \in DOMAIN Tail(q) /\ Tail(q)[i - 1] = q[i]
      BY <1>5, <2>1, <2>2 DEF q
    <3> QED
      BY <3>1 DEF Range
  <2>3. ASSUME NEW i \in DOMAIN Tail(q) PROVE Tail(q)[i] \in Range(q)
    <3>1. i + 1 \in DOMAIN q
      BY <2>1
    <3> QED
      BY <2>1, <3>1 DEF Range
  <2>4. {n \in Range(Tail(q)) : n # 0} = {n \in Range(q) : n # 0}
    BY <2>2, <2>3 DEF Range
  <2> QED
    BY <1>2, <2>4 DEF Under, q
<1>11. ListInv(s)'
  <2> DEFINE q == toClient[s]
  <2>1. /\ DOMAIN Tail(q) = 1 .. Len(q) - 1 /\ Len(q) \in Nat /\ DOMAIN q = 1 .. Len(q)
        /\ \A i \in DOMAIN Tail(q) : Tail(q)[i] = q[i + 1] /\ i + 1 \in DOMAIN q
    BY <1>2
  <2>2. \A i, j \in DOMAIN q : i < j /\ q[i] # 0 /\ q[j] # 0 => q[i] < q[j]
    BY <1>3, <1>6 DEF PerSlot, ListInv
  <2> HIDE DEF q
  <2>3. \A i, j \in DOMAIN Tail(q) :
            i < j /\ Tail(q)[i] # 0 /\ Tail(q)[j] # 0 => Tail(q)[i] < Tail(q)[j]
    BY <2>1, <2>2
  <2> QED
    BY <1>2, <1>3, <1>6, <1>10, <2>3 DEF PerSlot, ListInv, Pending, q
<1>12. ClientInv(s)'
  BY <1>2, <1>3, <1>6, <1>10 DEF PerSlot, ClientInv, Pending, Ordering, HasOrder, Held
<1>13. HasSave(s)' => HasSave(s)
  BY <1>2, <1>6 DEF HasSave
<1>14. \A x \in Slot \ {s} : Moved(x, x)
  BY DEF IInv, Types, StartPlaying, Moved, flags
<1>15. PerSlot(s)'
  BY <1>4, <1>8, <1>9, <1>11, <1>12 DEF PerSlot
<1> QED
  BY <1>1, <1>13, <1>14, <1>15, OneSlot DEF StartPlaying, host

LEMMA ClientOrderKeeps ==
    ASSUME IInv, NEW s \in Slot, ClientOrder(s)
    PROVE  IInv'
<1>1. Types'
  BY DEF IInv, Types, ClientOrder, flags, who, host, peers, Cmd, Orders
<1>2. /\ stage[s] = "playing"
      /\ toServer'[s] = Append(toServer[s], "clientOrder")
      /\ toServer[s] \in Seq(Cmd \cup {"launch", "ready"})
      /\ UNCHANGED <<connected, ready, joining, granted, toClient, stage, world, log, game,
                     saved>>
  BY DEF IInv, Types, ClientOrder, flags, host, peers
<1>3. PerSlot(s)
  BY DEF IInv
<1>4. SlotInv(s)'
  BY <1>2, <1>3 DEF PerSlot, SlotInv
<1>5. SaveInv(s)'
  BY <1>2, <1>3 DEF PerSlot, SaveInv, Told, Ordering, HasOrder
<1>6. LoadedInv(s)' /\ ListInv(s)'
  BY <1>2, <1>3 DEF PerSlot, LoadedInv, ListInv, Loaded, Ordering, HasOrder, Pending, Under
<1>7. ClientInv(s)'
  BY <1>2, <1>3 DEF PerSlot, ClientInv, Loaded, Ordering, HasOrder, Pending, Under, Held
<1>8. HasSave(s)' => HasSave(s)
  BY <1>2 DEF HasSave, Told, Loaded
<1>9. \A x \in Slot \ {s} : Moved(x, x)
  BY DEF IInv, Types, ClientOrder, Moved, flags, peers
<1>10. PerSlot(s)'
  BY <1>4, <1>5, <1>6, <1>7 DEF PerSlot
<1> QED
  BY <1>1, <1>8, <1>9, <1>10, OneSlot DEF ClientOrder, host

\* A list goes from the channel to the cache.
LEMMA ReceiveListKeeps ==
    ASSUME IInv, NEW s \in Slot, ReceiveList(s)
    PROVE  IInv'
<1> DEFINE q == toClient[s]
           w == world[s]
           c == w.cached
           v == Head(q)
           u == [w EXCEPT !.cached = Append(c, v)]
<1>1. /\ q \in Seq(Nat) /\ q # <<>> /\ v \in Nat /\ v = q[1] /\ v # 0
      /\ c \in Seq(Nat) /\ w \in World
  <2>1. q \in Seq(Nat) /\ w \in World
    BY DEF IInv, Types
  <2>2. q # <<>> /\ v # 0
    BY DEF ReceiveList
  <2>3. c \in Seq(Nat)
    <3> HIDE DEF w
    <3> QED
      BY <2>1 DEF World
  <2> HIDE DEF q, w, c
  <2> QED
    BY <2>1, <2>2, <2>3, TailFacts
<1>2. /\ u \in World /\ u.cached = Append(c, v) /\ u.frame = w.frame /\ u.given = w.given
      /\ u.passed = w.passed /\ u.paused = w.paused
  <2>1. Append(c, v) \in Seq(Nat)
    BY <1>1
  <2>2. \A x \in World, r \in Seq(Nat) :
            LET y == [x EXCEPT !.cached = r]
            IN  /\ y \in World /\ y.cached = r /\ y.frame = x.frame /\ y.given = x.given
                /\ y.passed = x.passed /\ y.paused = x.paused
    BY DEF World
  <2> HIDE DEF w, c, v
  <2> QED
    BY <1>1, <2>1, <2>2
<1>3. /\ stage[s] = "playing"
      /\ toClient' = [toClient EXCEPT ![s] = Tail(q)]
      /\ world' = [world EXCEPT ![s] = u]
      /\ UNCHANGED <<flags, who, toServer, stage, granted, host, budget>>
  BY DEF IInv, Types, ReceiveList
<1> HIDE DEF u
<1>4. Types'
  <2>1. Tail(q) \in Seq(Nat)
    BY <1>1
  <2> HIDE DEF q
  <2> QED
    BY <1>2, <1>3, <2>1 DEF IInv, Types, flags, who, host
<1>5. /\ toClient'[s] = Tail(q) /\ world'[s] = u
      /\ UNCHANGED <<connected, ready, joining, granted, toServer, stage, log, game, saved>>
  BY <1>3 DEF IInv, Types, flags, host
<1>6. PerSlot(s)
  BY DEF IInv
<1>7. Loaded(s) /\ Loaded(s)' /\ ready[s] /\ connected[s]
  BY <1>1, <1>3, <1>5, <1>6 DEF PerSlot, SlotInv, Loaded
<1>8. SlotInv(s)'
  BY <1>3, <1>5, <1>6, <1>7 DEF PerSlot, SlotInv
<1>9. SaveInv(s)' /\ LoadedInv(s)'
  BY <1>5, <1>7 DEF SaveInv, LoadedInv, Told
<1>10. /\ DOMAIN q = 1 .. Len(q) /\ Len(q) \in Nat \ {0}
       /\ DOMAIN Tail(q) = 1 .. Len(q) - 1
       /\ \A i \in DOMAIN Tail(q) : Tail(q)[i] = q[i + 1] /\ i + 1 \in DOMAIN q
  <2> HIDE DEF q
  <2> QED
    BY <1>1, TailFacts
<1>11. /\ DOMAIN c = 1 .. Len(c) /\ Len(c) \in Nat
       /\ DOMAIN u.cached = 1 .. Len(c) + 1
       /\ \A i \in DOMAIN c : u.cached[i] = c[i]
       /\ u.cached[Len(c) + 1] = v
  <2> HIDE DEF c, v
  <2> QED
    BY <1>1, <1>2, AppendFacts
<1>12. Range(u.cached) = Range(c) \cup {v}
  <2> HIDE DEF c, v
  <2>1. \A i \in DOMAIN u.cached : u.cached[i] \in Range(c) \cup {v}
    BY <1>11 DEF Range
  <2>2. \A i \in DOMAIN c : c[i] \in Range(u.cached)
    BY <1>11 DEF Range
  <2>3. v \in Range(u.cached)
    BY <1>11 DEF Range
  <2> QED
    BY <2>1, <2>2, <2>3 DEF Range
<1>13. v \in Under(s) /\ Under(s) = Under(s)' \cup {v}
  <2>1. Under(s) = {n \in Range(q) : n # 0} /\ Under(s)' = {n \in Range(Tail(q)) : n # 0}
    BY <1>5 DEF Under
  <2>2. v \in Range(q)
    <3> HIDE DEF q, v
    <3> QED
      BY <1>1, <1>10 DEF Range
  <2>3. \A i \in DOMAIN Tail(q) : Tail(q)[i] \in Range(q)
    BY <1>10 DEF Range
  <2>4. ASSUME NEW i \in DOMAIN q PROVE q[i] \in Range(Tail(q)) \cup {v}
    <3>1. CASE i = 1
      BY <1>1, <3>1
    <3>2. CASE i # 1
      <4>1. i - 1 \in DOMAIN Tail(q) /\ Tail(q)[i - 1] = q[i]
        BY <1>10, <3>2
      <4> QED
        BY <4>1 DEF Range
    <3> QED
      BY <3>1, <3>2
  <2> HIDE DEF q, v
  <2>5. \A n \in Range(q) : n \in Range(Tail(q)) \cup {v}
    BY <2>4 DEF Range
  <2>6. \A n \in Range(Tail(q)) : n \in Range(q)
    BY <2>3 DEF Range
  <2> QED
    BY <1>1, <2>1, <2>2, <2>5, <2>6
<1>14. \A n \in Under(s)' : v < n
  <2> SUFFICES ASSUME NEW n \in Under(s)' PROVE v < n
    OBVIOUS
  <2>1. PICK i \in DOMAIN Tail(q) : n = Tail(q)[i] /\ n # 0
    BY <1>5 DEF Under, Range
  <2>2. n = q[i + 1] /\ 1 < i + 1 /\ 1 \in DOMAIN q /\ i + 1 \in DOMAIN q
    BY <1>10, <2>1
  <2> QED
    BY <1>1, <1>6, <1>7, <2>1, <2>2 DEF PerSlot, ListInv
<1>15. Pending(s)' = Pending(s)
  BY <1>5, <1>12, <1>13 DEF Pending
<1> HIDE DEF q, v, w, c
<1>16. ListInv(s)'
  <2>0. ListInv(s) /\ w = world[s] /\ c = w.cached
    BY <1>6 DEF PerSlot, w, c
  <2>1. \A i, j \in DOMAIN u.cached : i < j => u.cached[i] < u.cached[j]
    <3> SUFFICES ASSUME NEW i \in DOMAIN u.cached, NEW j \in DOMAIN u.cached, i < j
                 PROVE  u.cached[i] < u.cached[j]
      OBVIOUS
    <3>1. i \in DOMAIN c
      BY <1>11
    <3>2. CASE j \in DOMAIN c
      BY <1>7, <1>11, <2>0, <3>1, <3>2 DEF ListInv
    <3>3. CASE j \notin DOMAIN c
      <4>1. u.cached[j] = v /\ c[i] \in Range(c)
        BY <1>11, <3>1, <3>3 DEF Range
      <4>2. c[i] < v
        BY <1>7, <1>13, <2>0, <4>1 DEF ListInv
      <4> QED
        BY <1>11, <3>1, <4>1, <4>2
    <3> QED
      BY <3>2, <3>3
  <2>2. \A i, j \in DOMAIN Tail(q) :
            i < j /\ Tail(q)[i] # 0 /\ Tail(q)[j] # 0 => Tail(q)[i] < Tail(q)[j]
    <3>1. \A i, j \in DOMAIN Tail(q) :
              /\ Tail(q)[i] = q[i + 1] /\ Tail(q)[j] = q[j + 1]
              /\ i + 1 \in DOMAIN q /\ j + 1 \in DOMAIN q
              /\ i < j => i + 1 < j + 1
      BY <1>10
    <3>2. \A i, j \in DOMAIN q : i < j /\ q[i] # 0 /\ q[j] # 0 => q[i] < q[j]
      BY <1>7, <2>0 DEF ListInv, q
    <3> QED
      BY <3>1, <3>2
  <2>3. Range(u.given) \cup Pending(s)' \subseteq DOMAIN log
    BY <1>2, <1>7, <1>15, <2>0 DEF ListInv
  <2>4. \A m \in Range(u.cached) \cup Range(u.given), n \in Under(s)' : m < n
    BY <1>2, <1>7, <1>12, <1>13, <1>14, <2>0 DEF ListInv
  <2>5. \A m \in Range(u.given), n \in Range(u.cached) : log[n].frame >= u.frame => m < n
    BY <1>2, <1>7, <1>12, <1>13, <2>0 DEF ListInv
  <2>6. \A i, j \in DOMAIN u.given : i < j => u.given[i] < u.given[j]
    BY <1>2, <1>7, <2>0 DEF ListInv
  <2> QED
    BY <1>5, <2>1, <2>2, <2>3, <2>4, <2>5, <2>6 DEF ListInv
<1>17. ClientInv(s)'
  BY <1>2, <1>5, <1>6, <1>7, <1>15 DEF PerSlot, ClientInv, Ordering, HasOrder, Held, w
<1>18. ~HasSave(s)'
  BY <1>5, <1>7 DEF HasSave
<1>19. \A x \in Slot \ {s} : Moved(x, x)
  BY <1>3 DEF IInv, Types, Moved, flags
<1>20. PerSlot(s)'
  BY <1>8, <1>9, <1>16, <1>17 DEF PerSlot
<1> QED
  BY <1>3, <1>4, <1>18, <1>19, <1>20, OneSlot DEF host

\* A client says that it is ready when it has loaded the saved game.
LEMMA SlotReceiveKeeps ==
    ASSUME IInv, NEW s \in Slot, SlotReceive(s)
    PROVE  IInv'
<1> DEFINE q == toServer[s]
<1>1. /\ q \in Seq(Cmd \cup {"launch", "ready"}) /\ q # <<>>
      /\ toServer' = [toServer EXCEPT ![s] = Tail(q)]
      /\ UNCHANGED <<who, peers, game, at, log, saved, budget>>
  BY DEF IInv, Types, SlotReceive
<1>2. PerSlot(s)
  BY DEF IInv
<1>3. Head(q) = q[1] /\ 1 \in DOMAIN q
  BY <1>1
<1>4. Head(q) \in {"launch", "ready", "clientOrder"}
  BY <1>2, <1>3 DEF PerSlot, SlotInv
<1>5. \/ UNCHANGED <<connected, ready, joining, toClient, requested>>
      \/ /\ q[1] = "ready" /\ joining[s]
         /\ toClient' = [toClient EXCEPT ![s] = Append(@, 0)]
         /\ ready' = [ready EXCEPT ![s] = TRUE]
         /\ joining' = [joining EXCEPT ![s] = FALSE]
         /\ UNCHANGED <<connected, requested>>
      \/ /\ q[1] = "clientOrder"
         /\ requested' = Append(requested, "clientOrder")
         /\ UNCHANGED <<connected, ready, joining, toClient>>
  BY <1>3, <1>4 DEF SlotReceive, flags, Cmd, Orders
<1>6. Types'
  <2>1. Tail(q) \in Seq(Cmd \cup {"launch", "ready"})
    BY <1>1
  <2>2. "clientOrder" \in Cmd
    BY DEF Cmd, Orders
  <2>3. UNCHANGED <<uuid, moveTo, stage, granted, world, game, at, log, saved>>
    BY <1>1 DEF who, peers
  <2>4. toServer' \in [Slot -> Seq(Cmd \cup {"launch", "ready"})]
    BY <1>1, <2>1 DEF IInv, Types
  <2>5. /\ launch' \in [Slot -> BOOLEAN] /\ setup' \in [Slot -> BOOLEAN]
        /\ unPause' \in [Slot -> BOOLEAN] /\ sentSave' \in [Slot -> BOOLEAN]
    BY DEF IInv, Types, SlotReceive, flags
  <2>6. /\ connected' \in [Slot -> BOOLEAN] /\ ready' \in [Slot -> BOOLEAN]
        /\ joining' \in [Slot -> BOOLEAN] /\ toClient' \in [Slot -> Seq(Nat)]
        /\ requested' \in Seq(Cmd)
    <3>1. requested \in Seq(Cmd) /\ toClient \in [Slot -> Seq(Nat)]
      BY DEF IInv, Types
    <3>2. requested' \in Seq(Cmd)
      <4>1. Append(requested, "clientOrder") \in Seq(Cmd)
        BY <2>2, <3>1, AppendFacts
      <4> QED
        BY <1>5, <3>1, <4>1
    <3>3. toClient' \in [Slot -> Seq(Nat)]
      <4>1. Append(toClient[s], 0) \in Seq(Nat)
        BY <3>1
      <4> QED
        BY <1>5, <3>1, <4>1
    <3>4. /\ connected' \in [Slot -> BOOLEAN] /\ ready' \in [Slot -> BOOLEAN]
          /\ joining' \in [Slot -> BOOLEAN]
      BY <1>5 DEF IInv, Types
    <3> QED
      BY <3>2, <3>3, <3>4
  <2> QED
    BY <2>3, <2>4, <2>5, <2>6 DEF IInv, Types
<1>7. /\ toServer'[s] = Tail(q)
      /\ DOMAIN Tail(q) = 1 .. Len(q) - 1 /\ Len(q) \in Nat /\ DOMAIN q = 1 .. Len(q)
      /\ \A i \in DOMAIN Tail(q) : Tail(q)[i] = q[i + 1] /\ i + 1 \in DOMAIN q
      /\ UNCHANGED <<stage, granted, world, game, at, log, saved>>
  BY <1>1 DEF IInv, Types, peers
<1> HIDE DEF q
<1>8. \A i \in DOMAIN toServer'[s] : \E j \in DOMAIN toServer[s] :
          toServer'[s][i] = toServer[s][j]
  BY <1>7 DEF q
<1>9. \A x \in Slot \ {s} : Moved(x, x)
  BY <1>1, <1>5 DEF IInv, Types, Moved, peers
<1>10. CASE UNCHANGED <<connected, ready, joining, toClient, requested>>
  <2>1. SlotInv(s)'
    BY <1>2, <1>7, <1>8, <1>10 DEF PerSlot, SlotInv
  <2>2. SaveInv(s)' /\ LoadedInv(s)'
    BY <1>2, <1>7, <1>10 DEF PerSlot, SaveInv, LoadedInv, Told, Loaded, Ordering, HasOrder
  <2>3. ListInv(s)' /\ ClientInv(s)'
    BY <1>2, <1>7, <1>10
       DEF PerSlot, ListInv, ClientInv, Loaded, Pending, Under, Ordering, HasOrder, Held
  <2>4. HasSave(s)' => HasSave(s)
    BY <1>7, <1>10 DEF HasSave, Told, Loaded
  <2>5. PerSlot(s)'
    BY <2>1, <2>2, <2>3 DEF PerSlot
  <2> QED
    BY <1>6, <1>7, <1>9, <1>10, <2>4, <2>5, OneSlot
<1>11. CASE /\ q[1] = "ready" /\ joining[s]
            /\ toClient' = [toClient EXCEPT ![s] = Append(@, 0)]
            /\ ready' = [ready EXCEPT ![s] = TRUE]
            /\ joining' = [joining EXCEPT ![s] = FALSE]
            /\ UNCHANGED <<connected, requested>>
  <2> DEFINE r == toClient[s]
  <2>1. Loaded(s) /\ Loaded(s)' /\ ~ready[s]
    BY <1>2, <1>3, <1>7, <1>11 DEF q, PerSlot, SlotInv, Loaded
  <2>2. /\ ready'[s] /\ ~joining'[s] /\ r \in Seq(Nat) /\ toClient'[s] = Append(r, 0)
    BY <1>11 DEF IInv, Types
  <2>3. /\ DOMAIN toClient'[s] = 1 .. Len(r) + 1 /\ DOMAIN r = 1 .. Len(r) /\ Len(r) \in Nat
        /\ \A i \in DOMAIN r : toClient'[s][i] = r[i]
        /\ toClient'[s][Len(r) + 1] = 0
    BY <2>2
  <2> HIDE DEF r
  <2>4. \A i \in DOMAIN toClient'[s] : toClient'[s][i] = 0
    BY <1>2, <2>1, <2>3 DEF PerSlot, SlotInv, r
  <2>5. connected[s] /\ connected'[s]
    BY <1>2, <1>11, <2>1 DEF PerSlot, SlotInv, Loaded
  <2>6. toClient'[s] # <<>> /\ toClient'[s][1] = 0
    BY <2>3, <2>4
  <2>7. SlotInv(s)'
    BY <1>2, <1>7, <1>8, <2>1, <2>2, <2>4, <2>5, <2>6 DEF PerSlot, SlotInv, Loaded
  <2>8. SaveInv(s)' /\ LoadedInv(s)' /\ ~HasSave(s)'
    BY <2>2 DEF SaveInv, LoadedInv, Told, HasSave
  <2>9. Under(s) = {} /\ Under(s)' = {}
    <3>1. \A i \in DOMAIN r : r[i] = 0
      BY <1>2, <2>1 DEF PerSlot, SlotInv, r
    <3> QED
      BY <2>4, <3>1 DEF Under, Range, r
  <2>10. ListInv(s)'
    BY <1>2, <1>7, <2>1, <2>4, <2>9 DEF PerSlot, ListInv, Pending
  <2>11. ClientInv(s)'
    BY <1>2, <1>7, <2>1, <2>9 DEF PerSlot, ClientInv, Pending, Ordering, HasOrder, Held
  <2>12. PerSlot(s)'
    BY <2>7, <2>8, <2>10, <2>11 DEF PerSlot
  <2> QED
    BY <1>6, <1>7, <1>9, <1>11, <2>8, <2>12, OneSlot
<1>12. CASE /\ q[1] = "clientOrder"
            /\ requested' = Append(requested, "clientOrder")
            /\ UNCHANGED <<connected, ready, joining, toClient>>
  <2>1. SlotInv(s)'
    BY <1>2, <1>7, <1>8, <1>12 DEF PerSlot, SlotInv
  <2>2. SaveInv(s)' /\ LoadedInv(s)'
    BY <1>2, <1>7, <1>12 DEF PerSlot, SaveInv, LoadedInv, Told, Loaded, Ordering, HasOrder
  <2>3. ListInv(s)' /\ ClientInv(s)'
    BY <1>2, <1>7, <1>12
       DEF PerSlot, ListInv, ClientInv, Loaded, Pending, Under, Ordering, HasOrder, Held
  <2>4. \A x \in Slot : PerSlot(x)'
    <3>1. PerSlot(s)'
      BY <2>1, <2>2, <2>3 DEF PerSlot
    <3>2. \A x \in Slot \ {s} : PerSlot(x)'
      BY <1>7, <1>9, MovedSlot DEF IInv
    <3> QED
      BY <3>1, <3>2
  <2>5. \A x \in Slot : HasSave(x)' => HasSave(x)
    BY <1>7, <1>12 DEF HasSave, Told, Loaded
  <2>6. requested \in Seq(Cmd)
    BY DEF IInv, Types
  <2>7. \A i \in DOMAIN requested' : \/ requested'[i] = "clientOrder"
                                     \/ i \in DOMAIN requested /\ requested'[i] = requested[i]
    BY <1>12, <2>6
  <2>8. RequestInv'
    BY <1>7, <2>7 DEF IInv, RequestInv
  <2>9. HostInv'
    BY <1>7, <2>5, <2>7 DEF IInv, HostInv
  <2>10. LogInv'
    BY <1>7 DEF IInv, LogInv, Before, Held, HasOrder
  <2> QED
    BY <1>6, <2>4, <2>8, <2>9, <2>10 DEF IInv
<1> QED
  BY <1>5, <1>10, <1>11, <1>12

-----------------------------------------------------------------------------
(* The clients' worlds. *)

\* The last of a list of lists is the greatest.
LEMMA LastIsGreatest ==
    ASSUME NEW q \in Seq(Nat), \A i, j \in DOMAIN q : i < j => q[i] < q[j], Range(q) # {}
    PROVE  \E m \in Range(q) : \A n \in Range(q) : n <= m
<1>1. DOMAIN q = 1 .. Len(q) /\ Len(q) \in Nat /\ \A i \in DOMAIN q : q[i] \in Nat
  OBVIOUS
<1>2. Len(q) \in DOMAIN q
  <2>1. PICK i \in DOMAIN q : TRUE
    BY DEF Range
  <2> QED
    BY <1>1, <2>1
<1>3. \A i \in DOMAIN q : q[i] <= q[Len(q)]
  <2> TAKE i \in DOMAIN q
  <2>1. CASE i = Len(q)
    BY <1>1, <2>1
  <2>2. CASE i < Len(q)
    BY <1>1, <1>2, <2>2
  <2> QED
    BY <1>1, <2>1, <2>2
<1> QED
  BY <1>2, <1>3 DEF Range

\* A world that has been given lists of its frame has been given a last one of it, which
\* is the last of all that it has been given.
LEMMA LastOfFrame ==
    ASSUME IInv, NEW s \in Slot, Loaded(s),
           NEW n \in Range(world[s].given), log[n].frame = world[s].frame
    PROVE  \E m \in Range(world[s].given) :
               log[m].frame = world[s].frame /\ \A k \in Range(world[s].given) : k <= m
<1> DEFINE w == world[s]
           G == Range(w.given)
<1>1. w.given \in Seq(Nat) /\ \A i, j \in DOMAIN w.given : i < j => w.given[i] < w.given[j]
  BY DEF IInv, Types, World, PerSlot, ListInv
<1>2. PICK m \in G : \A k \in G : k <= m
  BY <1>1, LastIsGreatest
<1>3. G \subseteq DOMAIN log /\ \A k \in G : log[k].frame <= w.frame
  BY DEF IInv, PerSlot, ListInv, ClientInv
<1>4. \A i, j \in DOMAIN log : i < j => log[i].frame <= log[j].frame
  BY DEF IInv, LogInv
<1>5. n \in DOMAIN log /\ m \in DOMAIN log /\ n \in Nat /\ m \in Nat /\ n <= m
      /\ log[n].frame \in Nat /\ log[m].frame \in Nat
  <2>1. Types
    BY DEF IInv
  <2> QED
    BY <1>2, <1>3, <2>1, LogTypes
<1>6. log[n].frame <= log[m].frame
  BY <1>4, <1>5
<1>7. log[m].frame = w.frame
  <2>1. log[m].frame <= w.frame /\ w.frame = log[n].frame
    BY <1>2, <1>3
  <2> QED
    BY <1>5, <1>6, <2>1
<1> QED
  BY <1>2, <1>7

\* A world moves on with the orders of its frame: were one still to come, the list before
\* it would be one that left the game paused.
LEMMA MoveKeeps ==
    ASSUME IInv, NEW s \in Slot, Move(s)
    PROVE  IInv'
<1> DEFINE w == world[s]
           G == Range(w.given)
           u == [w EXCEPT !.frame = w.frame + 1, !.passed = FALSE]
<1>1. w \in World /\ w.frame \in Nat
  BY DEF IInv, Types, World
<1>2. /\ u \in World /\ u.frame = w.frame + 1 /\ u.given = w.given /\ u.cached = w.cached
      /\ ~u.passed /\ u.paused = w.paused
  <2>1. \A x \in World, f \in Nat :
            LET y == [x EXCEPT !.frame = f, !.passed = FALSE]
            IN  /\ y \in World /\ y.frame = f /\ y.given = x.given
                /\ y.cached = x.cached /\ ~y.passed /\ y.paused = x.paused
    BY DEF World
  <2>2. w.frame + 1 \in Nat
    BY <1>1
  <2> HIDE DEF w
  <2> QED
    BY <1>1, <2>1, <2>2
<1>3. /\ stage[s] = "playing" /\ w.passed /\ ~w.paused
      /\ world' = [world EXCEPT ![s] = u]
      /\ UNCHANGED <<flags, who, wires, stage, granted, host, budget>>
  BY DEF IInv, Types, Move
<1> HIDE DEF u
<1>4. Types'
  BY <1>2, <1>3 DEF IInv, Types, flags, who, wires, host
<1>5. /\ world'[s] = u
      /\ UNCHANGED <<connected, ready, joining, granted, toServer, toClient, stage, log, game,
                     saved>>
  BY <1>3 DEF IInv, Types, flags, wires, host
<1>6. PerSlot(s) /\ LogInv
  BY DEF IInv
<1>7. Loaded(s) /\ Loaded(s)' /\ ready[s]
  <2>1. Loaded(s) /\ Loaded(s)'
    BY <1>3, <1>5 DEF Loaded
  <2> QED
    BY <1>3, <1>6, <2>1 DEF PerSlot, LoadedInv
<1>8. SlotInv(s)'
  BY <1>3, <1>5, <1>6 DEF PerSlot, SlotInv
<1>9. SaveInv(s)' /\ LoadedInv(s)' /\ ~HasSave(s)'
  BY <1>5, <1>7 DEF SaveInv, LoadedInv, Told, HasSave
<1>10. Pending(s)' = Pending(s) /\ Under(s)' = Under(s)
  BY <1>2, <1>5 DEF Pending, Under
<1>11. /\ Len(log) \in Nat /\ DOMAIN log = 1 .. Len(log) /\ game.frame \in Nat
       /\ \A n \in DOMAIN log : n \in Nat \ {0} /\ log[n].frame \in Nat /\ log[n].frame # 0
  BY LogTypes DEF IInv
<1>12. G \subseteq DOMAIN log /\ Pending(s) \subseteq DOMAIN log
  BY <1>6, <1>7 DEF PerSlot, ListInv
<1>13. ListInv(s)'
  <2>1. \A m \in Range(w.given), n \in Range(w.cached) :
            log[n].frame >= u.frame => m < n
    <3> TAKE m \in Range(w.given), n \in Range(w.cached)
    <3>1. n \in DOMAIN log
      BY <1>12 DEF Pending
    <3>2. log[n].frame >= u.frame => log[n].frame >= w.frame
      BY <1>1, <1>2, <1>11, <3>1
    <3> QED
      BY <1>6, <1>7, <3>2 DEF PerSlot, ListInv
  <2> QED
    BY <1>2, <1>5, <1>6, <1>7, <1>10, <2>1 DEF PerSlot, ListInv
\* The last list given at the frame left nobody paused, and orders after it.
<1>14. w.frame = 0 \/ \E n \in G : log[n].frame = w.frame
  BY <1>3, <1>6, <1>7 DEF PerSlot, ClientInv
<1>15. ASSUME NEW n \in G, log[n].frame = w.frame
       PROVE  \E m \in G : log[m].frame = w.frame /\ ~Held(m) /\ \A k \in G : k <= m
  <2>1. PICK m \in G : log[m].frame = w.frame /\ \A k \in G : k <= m
    BY <1>7, <1>15, LastOfFrame
  <2>2. ~Held(m)
    BY <1>3, <1>6, <1>7, <2>1 DEF PerSlot, ClientInv
  <2> QED
    BY <2>1, <2>2
<1>16. ClientInv(s)'
  <2>0. ClientInv(s) /\ w = world[s] /\ G = Range(w.given)
    BY <1>6 DEF PerSlot
  <2> HIDE DEF w, G
  <2>1. Ordering' = Ordering /\ Ordering \subseteq DOMAIN log
    BY <1>5 DEF Ordering, HasOrder
  <2>2. ASSUME NEW n \in Ordering, log[n].frame < u.frame PROVE n \in G
    <3>1. n \in DOMAIN log
      BY <2>1
    <3>2. CASE log[n].frame < w.frame
      BY <1>7, <2>0, <3>2 DEF ClientInv
    <3>3. CASE log[n].frame = w.frame
      <4>1. PICK n1 \in G : log[n1].frame = w.frame
        BY <1>11, <1>14, <3>1, <3>3
      <4>2. PICK m \in G : log[m].frame = w.frame /\ ~Held(m) /\ \A k \in G : k <= m
        BY <1>15, <4>1
      <4>3. m \in DOMAIN log
        BY <1>12, <4>2 DEF G, w
      <4>4. CASE n < m
        BY <1>7, <2>0, <4>2, <4>4 DEF ClientInv
      <4>5. CASE n = m
        BY <4>2, <4>5
      <4>6. CASE m < n
        <5>1. Before(m, n) /\ HasOrder(n)
          BY <3>3, <4>2, <4>6 DEF Before, Ordering
        <5> QED
          BY <1>6, <3>1, <4>2, <4>3, <5>1 DEF LogInv
      <4> QED
        BY <1>11, <3>1, <4>3, <4>4, <4>5, <4>6
    <3> QED
      BY <1>1, <1>2, <1>11, <2>2, <3>1, <3>2, <3>3
  <2>3. ASSUME NEW n \in G PROVE log[n].frame <= u.frame /\ log[n].frame # u.frame
    <3>1. n \in DOMAIN log
      BY <1>12 DEF G, w
    <3>2. log[n].frame <= w.frame
      BY <1>7, <2>0, <2>3 DEF ClientInv
    <3> QED
      BY <1>1, <1>2, <1>11, <3>1, <3>2
  <2>4. u.frame <= game.frame \/ (u.frame = game.frame + 1 /\ ~(game.paused /\ ~game.forJoin))
    <3>1. w.frame <= game.frame \/ w.frame = game.frame + 1
      BY <1>7, <2>0 DEF ClientInv
    <3>2. CASE w.frame < game.frame
      BY <1>1, <1>2, <1>11, <3>2
    <3>3. CASE w.frame = game.frame
      <4>1. CASE w.frame = 0
        <5>1. log = <<>>
          <6> SUFFICES ASSUME log # <<>> PROVE FALSE
            OBVIOUS
          <6>1. log[Len(log)].frame = 0
            BY <1>6, <3>3, <4>1 DEF LogInv
          <6>2. Len(log) \in DOMAIN log
            <7>1. log \in Seq(Entry)
              BY DEF IInv, Types
            <7> QED
              BY <7>1
          <6> QED
            BY <1>11, <6>1, <6>2
        <5>2. ~game.paused
          BY <1>6, <5>1 DEF LogInv
        <5> QED
          BY <1>1, <1>2, <3>3, <5>2
      <4>2. CASE w.frame # 0
        <5>1. PICK n1 \in G : log[n1].frame = w.frame
          BY <1>14, <4>2
        <5>2. PICK m \in G : log[m].frame = w.frame /\ ~Held(m) /\ \A k \in G : k <= m
          BY <1>15, <5>1
        <5>3. m \in DOMAIN log
          BY <1>12, <5>2 DEF G, w
        <5> DEFINE l == Len(log)
        <5>4. log # <<>> /\ l \in DOMAIN log /\ m <= l
          BY <1>11, <5>3
        <5>5. log[l].frame = game.frame /\ log[l].paused = game.paused
              /\ log[l].forJoin = game.forJoin
          BY <1>6, <5>4 DEF LogInv
        <5>6. Held(l) => Held(m)
          <6>1. CASE l = m
            BY <6>1
          <6>2. CASE m < l
            <7>1. Before(m, l)
              BY <3>3, <5>2, <5>5, <6>2 DEF Before
            <7> QED
              BY <1>6, <5>3, <5>4, <7>1 DEF LogInv
          <6> QED
            BY <1>11, <5>3, <5>4, <6>1, <6>2
        <5>7. ~(game.paused /\ ~game.forJoin)
          BY <5>2, <5>5, <5>6 DEF Held
        <5> QED
          BY <1>1, <1>2, <3>3, <5>7
      <4> QED
        BY <4>1, <4>2
    <3>4. CASE w.frame = game.frame + 1
      <4>1. PICK n1 \in G : log[n1].frame = w.frame
        BY <1>1, <1>11, <1>14, <3>4
      <4>2. n1 \in DOMAIN log
        BY <1>12, <4>1 DEF G, w
      <4>3. log[n1].frame <= game.frame
        BY <1>6, <4>2 DEF LogInv
      <4> QED
        BY <1>11, <3>4, <4>1, <4>2, <4>3
    <3> QED
      BY <1>1, <1>11, <3>1, <3>2, <3>3, <3>4
  <2>5. ASSUME NEW n \in DOMAIN log, log[n].frame >= u.frame PROVE n \in Pending(s)
    <3>1. log[n].frame > w.frame
      BY <1>1, <1>2, <1>11, <2>5
    <3> QED
      BY <1>7, <2>0, <3>1 DEF ClientInv
  <2>6. \A n \in DOMAIN log : log[n].frame > u.frame \/ log[n].frame = u.frame => n \in Pending(s)
    BY <1>1, <1>2, <1>11, <2>5
  <2>7. /\ Ordering \subseteq G \cup Pending(s)
        /\ \A m \in G, n \in Ordering : n < m => n \in G
    BY <1>7, <2>0 DEF ClientInv
  <2>8. world'[s] = u /\ Range(u.given) = G /\ log' = log /\ game' = game
    BY <1>2, <1>5 DEF G
  <2>9. \A n \in DOMAIN log : Held(n)' = Held(n)
    BY <1>5 DEF Held
  <2>10. \A n \in G : log[n].frame # u.frame
    BY <2>3
  <2> QED
    BY <1>2, <1>10, <2>1, <2>2, <2>3, <2>4, <2>6, <2>7, <2>8, <2>9, <2>10 DEF ClientInv
<1>17. \A x \in Slot \ {s} : Moved(x, x)
  BY <1>3 DEF IInv, Types, Moved, flags, wires
<1>18. PerSlot(s)'
  BY <1>8, <1>9, <1>13, <1>16 DEF PerSlot
<1> QED
  BY <1>3, <1>4, <1>9, <1>17, <1>18, OneSlot DEF host

Due(w)      == {n \in DOMAIN log : log[n].frame = w.frame}
Batch(w)    == Among(w.cached, Due(w))
Commands(w) == FlattenSeq([i \in DOMAIN Batch(w) |-> log[Batch(w)[i]].cmds])
Obeyed(w)   == FoldLeft(ClientPaused, w, Commands(w))
Given(w)    == [Obeyed(w) EXCEPT !.given = @ \o Batch(w),
                                 !.cached = Among(@, DOMAIN log \ Due(w)),
                                 !.passed = TRUE]

\* What is given, and what is kept.
LEMMA GivenWorld ==
    ASSUME Types, NEW w \in World
    PROVE  /\ Batch(w) \in Seq(Nat) /\ Range(Batch(w)) = Range(w.cached) \cap Due(w)
           /\ Commands(w) \in Seq(Cmd)
           /\ Range(Commands(w)) = UNION {Range(log[n].cmds) : n \in Range(Batch(w))}
           /\ Obeyed(w) \in World
           /\ Given(w) \in World /\ Given(w).frame = w.frame /\ Given(w).passed
           /\ Given(w).given = w.given \o Batch(w)
           /\ Given(w).cached = Among(w.cached, DOMAIN log \ Due(w))
           /\ Given(w).paused = Obeyed(w).paused
<1> DEFINE b == Batch(w)
           ss == [i \in DOMAIN b |-> log[b[i]].cmds]
<1>1. w.cached \in Seq(Nat) /\ w.given \in Seq(Nat)
  BY DEF World
<1>2. b \in Seq(Nat) /\ Range(b) = Range(w.cached) \cap Due(w)
  BY <1>1, AmongRange DEF Batch
<1>3. \A n \in DOMAIN log : log[n].cmds \in Seq(Cmd)
  BY LogTypes
<1>4. \A i \in DOMAIN b : b[i] \in DOMAIN log
  BY <1>2 DEF Range, Due
<1> HIDE DEF b
<1>5. DOMAIN ss = DOMAIN b /\ \A i \in DOMAIN b : ss[i] = log[b[i]].cmds
  OBVIOUS
<1>6. ss \in Seq(Seq(Cmd))
  BY <1>2, <1>3, <1>4
<1>7. Commands(w) = FlattenSeq(ss)
  BY DEF Commands, b
<1> HIDE DEF ss
<1>8. Commands(w) \in Seq(Cmd) /\ Range(Commands(w)) = UNION {Range(ss[i]) : i \in DOMAIN ss}
  BY <1>6, <1>7, FlattenRange
<1>9. UNION {Range(ss[i]) : i \in DOMAIN ss} = UNION {Range(log[n].cmds) : n \in Range(b)}
  <2>1. {Range(ss[i]) : i \in DOMAIN ss} = {Range(log[n].cmds) : n \in Range(b)}
    <3>1. \A i \in DOMAIN b : b[i] \in Range(b) /\ Range(ss[i]) = Range(log[b[i]].cmds)
      BY <1>5 DEF Range
    <3>2. \A n \in Range(b) : \E i \in DOMAIN b : n = b[i]
      BY DEF Range
    <3> QED
      BY <1>5, <3>1, <3>2
  <2> QED
    BY <2>1
<1> DEFINE h == Obeyed(w)
<1>10. /\ h \in World /\ h.frame = w.frame /\ h.given = w.given
       /\ h.cached = w.cached
  BY <1>8, ClientSame DEF Obeyed
<1> HIDE DEF h
<1> DEFINE p0 == w.given \o b
           r0 == Among(w.cached, DOMAIN log \ Due(w))
<1>11. r0 \in Seq(Nat) /\ p0 \in Seq(Nat)
  BY <1>1, <1>2, AmongRange
<1>12. Given(w) = [h EXCEPT !.given = p0, !.cached = r0, !.passed = TRUE]
  <2>1. Given(w) = [h EXCEPT !.given = h.given \o b,
                             !.cached = Among(h.cached, DOMAIN log \ Due(w)), !.passed = TRUE]
    BY DEF Given, h, b
  <2> QED
    BY <1>10, <2>1
<1> HIDE DEF p0, r0
<1>13. /\ Given(w) \in World /\ Given(w).frame = w.frame /\ Given(w).passed
       /\ Given(w).given = p0 /\ Given(w).cached = r0 /\ Given(w).paused = h.paused
  <2> DEFINE y == [h EXCEPT !.given = p0, !.cached = r0, !.passed = TRUE]
  <2>1. /\ y \in World /\ y.frame = h.frame /\ y.passed /\ y.given = p0
        /\ y.cached = r0 /\ y.paused = h.paused
    BY <1>10, <1>11 DEF World
  <2>2. Given(w) = y
    BY <1>12
  <2> HIDE DEF y
  <2> QED
    BY <1>10, <2>1, <2>2
<1> QED
  BY <1>2, <1>8, <1>9, <1>10, <1>13 DEF b, h, p0, r0

LEMMA GiveKeeps ==
    ASSUME IInv, NEW s \in Slot, Give(s)
    PROVE  IInv'
<1> DEFINE w == world[s]
           G == Range(w.given)
           C == Range(w.cached)
           u == Given(w)
           B == Range(Batch(w))
<1>1. w \in World /\ w.frame \in Nat /\ w.given \in Seq(Nat) /\ w.cached \in Seq(Nat)
  BY DEF IInv, Types, World
<1>2. /\ stage[s] = "playing" /\ Batch(w) # <<>>
      /\ world' = [world EXCEPT ![s] = u]
      /\ UNCHANGED <<flags, who, wires, stage, granted, host, budget>>
  BY DEF Give, Given, Obeyed, Commands, Batch, Due
<1>3. /\ u \in World /\ u.frame = w.frame /\ u.passed
      /\ u.given = w.given \o Batch(w) /\ u.cached = Among(w.cached, DOMAIN log \ Due(w))
      /\ u.paused = Obeyed(w).paused
      /\ Batch(w) \in Seq(Nat) /\ B = C \cap Due(w)
      /\ Commands(w) \in Seq(Cmd)
      /\ Range(Commands(w)) = UNION {Range(log[n].cmds) : n \in B}
  BY <1>1, GivenWorld DEF IInv
<1> HIDE DEF u
<1>4. Types'
  BY <1>2, <1>3 DEF IInv, Types, flags, who, wires, host
<1>5. /\ world'[s] = u
      /\ UNCHANGED <<connected, ready, joining, granted, toServer, toClient, stage, log, game,
                     saved>>
  BY <1>2 DEF IInv, Types, flags, wires, host
<1>6. PerSlot(s) /\ LogInv
  BY DEF IInv
<1>7. B # {}
  BY <1>2, <1>3 DEF Range
<1>8. Loaded(s) /\ Loaded(s)' /\ ready[s]
  <2>1. Loaded(s) /\ Loaded(s)'
    BY <1>2, <1>5 DEF Loaded
  <2>2. w.cached # <<>>
    <3>1. PICK n \in C : TRUE
      BY <1>3, <1>7
    <3>2. PICK i \in DOMAIN w.cached : n = w.cached[i]
      BY <3>1 DEF Range
    <3> QED
      BY <3>2
  <2> QED
    BY <1>6, <2>1, <2>2 DEF PerSlot, LoadedInv
<1>9. SlotInv(s)'
  BY <1>2, <1>5, <1>6 DEF PerSlot, SlotInv
<1>10. SaveInv(s)' /\ LoadedInv(s)' /\ ~HasSave(s)'
  BY <1>5, <1>8 DEF SaveInv, LoadedInv, Told, HasSave
<1>11. /\ Len(log) \in Nat /\ DOMAIN log = 1 .. Len(log) /\ game.frame \in Nat
       /\ \A n \in DOMAIN log : n \in Nat \ {0} /\ log[n].frame \in Nat /\ log[n].frame # 0
  BY LogTypes DEF IInv
<1>12. Range(u.given) = G \cup B /\ Range(u.cached) = C \ Due(w)
  <2>1. Range(u.given) = G \cup B
    BY <1>1, <1>3, RangeOfConcat
  <2>2. Range(u.cached) = C \cap (DOMAIN log \ Due(w))
    BY <1>1, <1>3, AmongRange
  <2>3. C \subseteq DOMAIN log
    BY <1>6, <1>8 DEF PerSlot, ListInv, Pending
  <2> QED
    BY <2>1, <2>2, <2>3
<1>13. /\ G \subseteq DOMAIN log /\ C \subseteq DOMAIN log
       /\ Under(s) \subseteq DOMAIN log /\ Pending(s) = C \cup Under(s)
       /\ Under(s)' = Under(s)
       /\ Pending(s)' = (C \ Due(w)) \cup Under(s)
  BY <1>5, <1>6, <1>8, <1>12 DEF PerSlot, ListInv, Pending, Under
<1>14. \A n \in DOMAIN log : n \in Due(w) <=> log[n].frame = w.frame
  BY DEF Due
<1>15. \A m \in G, n \in B : m < n
  <2> TAKE m \in G, n \in B
  <2>1. n \in C /\ log[n].frame = w.frame /\ n \in DOMAIN log
    BY <1>3, <1>13, <1>14
  <2>2. log[n].frame >= w.frame
    BY <1>1, <2>1
  <2> QED
    BY <1>6, <1>8, <2>1, <2>2 DEF PerSlot, ListInv
<1> HIDE DEF B, C, G
\* Lists that all leave the server paused bring a pause or find one.
<1>16. ASSUME NEW n \in B, \A k \in B : k <= n, Held(n)
       PROVE  u.paused
  <2>0. B \subseteq DOMAIN log /\ \A k \in B : log[k].frame = w.frame
    BY <1>3, <1>13, <1>14
  <2>1. ASSUME NEW k \in B PROVE Held(k)
    <3>1. k <= n /\ k \in DOMAIN log /\ n \in DOMAIN log /\ log[k].frame = log[n].frame
      BY <1>16, <2>0
    <3>2. k = n \/ k < n
      BY <1>11, <3>1
    <3>3. CASE k < n
      BY <1>6, <1>16, <3>1, <3>3 DEF LogInv, Before
    <3> QED
      BY <1>16, <3>2, <3>3
  <2>2. ASSUME NEW k \in B, NEW c \in Range(log[k].cmds) PROVE c \in Orders \/ IsPause(c)
    <3>1. k \in DOMAIN log /\ Held(k)
      BY <2>0, <2>1
    <3> QED
      BY <1>6, <3>1, <2>2 DEF LogInv
  <2>3. \A i \in DOMAIN Commands(w) : Commands(w)[i] \in Orders \/ IsPause(Commands(w)[i])
    <3> TAKE i \in DOMAIN Commands(w)
    <3>1. Commands(w)[i] \in Range(Commands(w))
      BY DEF Range
    <3> QED
      BY <1>3, <2>2, <3>1
  <2>4. CASE \E m \in G : log[m].frame = w.frame
    <3>1. PICK m \in G : log[m].frame = w.frame /\ \A k \in G : k <= m
      BY <1>8, <2>4, LastOfFrame DEF G
    <3>2. m \in DOMAIN log /\ n \in DOMAIN log /\ Before(m, n)
      BY <1>13, <1>15, <1>16, <2>0, <3>1 DEF Before
    <3>3. Held(m)
      BY <1>6, <1>16, <3>2 DEF LogInv
    <3>4. w.paused
      BY <1>6, <1>8, <3>1, <3>3 DEF PerSlot, ClientInv, G
    <3>5. Obeyed(w).paused
      BY <1>1, <1>3, <2>3, <3>4, ClientStands DEF Obeyed
    <3> QED
      BY <1>3, <3>5
  <2>5. CASE ~ \E m \in G : log[m].frame = w.frame
    <3>1. \A m \in Due(w) : m \in Pending(s)
      BY <1>6, <1>8, <1>14, <2>5 DEF PerSlot, ClientInv, G, Due
    <3>2. Due(w) \in SUBSET Nat /\ n \in Due(w)
      BY <1>3, <1>11 DEF Due
    <3>3. PICK m \in Due(w) : \A k \in Due(w) : m <= k
      BY <3>2, LeastNumber
    <3>4. m \in B
      <4>1. m \notin Under(s)
        <5>1. m \in Under(s) => n < m
          BY <1>3, <1>6, <1>8 DEF PerSlot, ListInv, C
        <5>2. m <= n /\ m \in Nat /\ n \in Nat
          BY <3>2, <3>3
        <5> QED
          BY <5>1, <5>2
      <4> QED
        BY <1>3, <1>13, <3>1, <3>3, <4>1
    <3>5. m \in DOMAIN log /\ log[m].paused /\ ~ \E k \in DOMAIN log : Before(k, m)
      <4>1. m \in DOMAIN log /\ log[m].paused
        BY <2>0, <2>1, <3>4 DEF Held
      <4>2. ASSUME NEW k \in DOMAIN log, Before(k, m) PROVE FALSE
        <5>1. k \in Due(w) /\ k < m
          BY <1>14, <3>3, <4>1, <4>2 DEF Before
        <5> QED
          BY <1>11, <3>3, <4>1, <5>1
      <4> QED
        BY <4>1, <4>2
    <3>6. PICK c \in Range(log[m].cmds) : IsPause(c)
      BY <1>6, <3>5 DEF LogInv
    <3>7. c \in Range(Commands(w))
      BY <1>3, <3>4
    <3>8. PICK k \in DOMAIN Commands(w) : c = Commands(w)[k]
      BY <3>7 DEF Range
    <3>9. Obeyed(w).paused
      BY <1>1, <1>3, <2>3, <3>6, <3>8, ClientPauses DEF Obeyed
    <3> QED
      BY <1>3, <3>9
  <2> QED
    BY <2>4, <2>5
<1>17. ListInv(s)'
  <2>0. ListInv(s) /\ w.given \in Seq(Nat) /\ Batch(w) \in Seq(Nat)
    BY <1>1, <1>3, <1>6 DEF PerSlot
  <2>1. \A i, j \in DOMAIN u.given : i < j => u.given[i] < u.given[j]
    <3>1. \A i, j \in DOMAIN w.given : i < j => w.given[i] < w.given[j]
      BY <1>8, <2>0 DEF ListInv
    <3>2. \A i, j \in DOMAIN Batch(w) : i < j => Batch(w)[i] < Batch(w)[j]
      <4>1. \A i, j \in DOMAIN w.cached : i < j => w.cached[i] < w.cached[j]
        BY <1>8, <2>0 DEF ListInv
      <4> QED
        BY <1>1, <4>1, AmongAscends DEF Batch
    <3>3. \A m \in Range(w.given), n \in Range(Batch(w)) : m < n
      BY <1>15 DEF G, B
    <3> QED
      BY <1>3, <2>0, <3>1, <3>2, <3>3, ConcatAscends
  <2>2. \A i, j \in DOMAIN u.cached : i < j => u.cached[i] < u.cached[j]
    <3>1. \A i, j \in DOMAIN w.cached : i < j => w.cached[i] < w.cached[j]
      BY <1>8, <2>0 DEF ListInv
    <3> QED
      BY <1>1, <1>3, <3>1, AmongAscends
  <2>3. Range(u.given) \cup Pending(s)' \subseteq DOMAIN log
    BY <1>3, <1>12, <1>13
  <2>4. \A m \in Range(u.cached) \cup Range(u.given), n \in Under(s) : m < n
    <3>1. \A m \in C \cup G, n \in Under(s) : m < n
      BY <1>8, <2>0 DEF ListInv, C, G
    <3> QED
      BY <1>3, <1>12, <3>1
  <2>5. ASSUME NEW m \in Range(u.given), NEW n \in Range(u.cached), log[n].frame >= u.frame
        PROVE  m < n
    <3>1. n \in C /\ n \notin Due(w) /\ n \in DOMAIN log /\ log[n].frame >= w.frame
      BY <1>3, <1>12, <1>13, <2>5
    <3>2. CASE m \in G
      BY <1>8, <2>0, <3>1, <3>2 DEF ListInv, C, G
    <3>3. CASE m \in B
      <4>1. m \in DOMAIN log /\ log[m].frame = w.frame
        BY <1>3, <1>13, <1>14, <3>3
      <4>2. log[n].frame > log[m].frame
        BY <1>1, <1>11, <1>14, <3>1, <4>1
      <4>3. ~ (n < m) /\ n # m
        <5>1. n < m => log[n].frame <= log[m].frame
          BY <1>6, <3>1, <4>1 DEF LogInv
        <5> QED
          BY <1>11, <3>1, <4>1, <4>2, <5>1
      <4> QED
        BY <1>11, <3>1, <4>1, <4>3
    <3> QED
      BY <1>12, <3>2, <3>3
  <2>6. \A i, j \in DOMAIN toClient[s] :
            i < j /\ toClient[s][i] # 0 /\ toClient[s][j] # 0 => toClient[s][i] < toClient[s][j]
    BY <1>8, <2>0 DEF ListInv
  <2> QED
    BY <1>5, <1>13, <2>1, <2>2, <2>3, <2>4, <2>5, <2>6 DEF ListInv
<1>18. ClientInv(s)'
  <2>0. ClientInv(s) /\ Ordering' = Ordering /\ Ordering \subseteq DOMAIN log
    BY <1>5, <1>6 DEF PerSlot, Ordering, HasOrder
  <2> DEFINE H == G \cup B
  <2>1. H \cup Pending(s)' = G \cup Pending(s) /\ G \subseteq H
    BY <1>3, <1>13
  <2>2. Ordering \subseteq H \cup Pending(s)'
    BY <1>8, <2>0, <2>1 DEF ClientInv, G
  <2>3. \A n \in Ordering : log[n].frame < u.frame => n \in H
    BY <1>3, <1>8, <2>0 DEF ClientInv, G
  <2>4. ASSUME NEW m \in H, NEW n \in Ordering, n < m PROVE n \in H
    <3>1. CASE m \in G
      BY <1>8, <2>0, <2>4, <3>1 DEF ClientInv, G
    <3>2. CASE m \in B
      <4>1. m \in C /\ m \in DOMAIN log /\ n \in DOMAIN log /\ log[m].frame = w.frame
        BY <1>3, <1>13, <1>14, <2>0, <3>2
      <4>2. log[n].frame <= w.frame
        BY <1>6, <2>4, <4>1 DEF LogInv
      <4>3. n \in G \/ n \in C \/ n \in Under(s)
        BY <1>8, <1>13, <2>0 DEF ClientInv, G
      <4>4. n \in Under(s) => m < n
        BY <1>6, <1>8, <4>1 DEF PerSlot, ListInv, C
      <4>5. CASE n \in C
        <5>1. CASE log[n].frame = w.frame
          BY <1>3, <1>14, <4>1, <4>5, <5>1
        <5>2. CASE log[n].frame # w.frame
          BY <1>1, <1>3, <1>11, <2>3, <4>1, <4>2, <5>2
        <5> QED
          BY <5>1, <5>2
      <4> QED
        BY <1>11, <2>4, <4>1, <4>3, <4>4, <4>5
    <3> QED
      BY <3>1, <3>2
  <2>5. \A n \in H : log[n].frame <= u.frame
    <3> TAKE n \in H
    <3>1. CASE n \in G
      BY <1>3, <1>8, <2>0, <3>1 DEF ClientInv, G
    <3>2. CASE n \in B
      BY <1>1, <1>3, <1>13, <1>14, <3>2
    <3> QED
      BY <3>1, <3>2
  <2>6. \E n \in H : log[n].frame = u.frame
    BY <1>3, <1>7, <1>13, <1>14
  <2>7. u.frame <= game.frame \/ (u.frame = game.frame + 1 /\ ~(game.paused /\ ~game.forJoin))
    BY <1>3, <1>8, <2>0 DEF ClientInv
  <2>8. \A n \in DOMAIN log : log[n].frame > u.frame => n \in Pending(s)'
    <3> SUFFICES ASSUME NEW n \in DOMAIN log, log[n].frame > u.frame
                 PROVE  n \in Pending(s)'
      OBVIOUS
    <3>1. n \in Pending(s)
      BY <1>3, <1>8, <2>0 DEF ClientInv
    <3>2. n \notin Due(w)
      BY <1>1, <1>3, <1>11, <1>14
    <3> QED
      BY <1>13, <3>1, <3>2
  <2>9. ASSUME NEW n \in H, \A m \in H : m <= n, Held(n) PROVE u.paused
    <3>1. n \in B
      <4>1. PICK m \in B : TRUE
        BY <1>7
      <4>2. m <= n /\ m \in DOMAIN log
        BY <1>3, <1>13, <2>9
      <4>3. n \in G => n < m /\ n \in DOMAIN log
        BY <1>13, <1>15
      <4> QED
        BY <1>11, <4>2, <4>3
    <3> QED
      BY <1>16, <2>9, <3>1
  <2>10. Range(u.given) = H
    BY <1>12
  <2> HIDE DEF H
  <2>11. \A n \in H : Held(n)' = Held(n)
    BY <1>5 DEF Held
  <2> QED
    BY <1>5, <2>0, <2>2, <2>3, <2>4, <2>5, <2>6, <2>7, <2>8, <2>9, <2>10, <2>11 DEF ClientInv
<1>19. \A x \in Slot \ {s} : Moved(x, x)
  BY <1>2 DEF IInv, Types, Moved, flags, wires
<1>20. PerSlot(s)'
  BY <1>9, <1>10, <1>17, <1>18 DEF PerSlot
<1> QED
  BY <1>2, <1>4, <1>10, <1>19, <1>20, OneSlot DEF host

-----------------------------------------------------------------------------
(* The server's steps. *)

\* Steps of the server that move no world and pause none.
LEMMA SameGame ==
    ASSUME IInv, Types',
           UNCHANGED <<connected, ready, joining, wires, peers, log, saved>>,
           game'.frame = game.frame, game'.paused = game.paused, game'.forJoin = game.forJoin,
           RequestInv', at' \in {"unpausing", "saving", "sending"} => game.forJoin,
           at' = "sending" => saved = [frame |-> game.frame, given |-> Len(log)],
           (\E s \in Slot : HasSave(s)) =>
               at' # "unpausing" /\ \A i \in DOMAIN requested' : requested'[i] # "joinResume"
    PROVE  IInv'
<1>1. ASSUME NEW x \in Slot PROVE PerSlot(x)' /\ (HasSave(x)' => HasSave(x))
  <2>1. Moved(x, x) /\ PerSlot(x)
    BY DEF IInv, Moved, wires, peers
  <2> QED
    BY <2>1, MovedSlot
<1>2. LogInv'
  BY DEF IInv, LogInv, Before, Held, HasOrder
<1>3. HostInv'
  <2>1. HostInv
    BY DEF IInv
  <2>2. saved'.given <= Len(log')
    BY <2>1 DEF HostInv
  <2>3. game'.forJoin => game'.paused
    BY <2>1 DEF HostInv
  <2>4. (\E s \in Slot : HasSave(s)') => \E s \in Slot : HasSave(s)
    BY <1>1
  <2> QED
    BY <2>1, <2>2, <2>3, <2>4 DEF HostInv
<1> QED
  BY <1>1, <1>2, <1>3 DEF IInv

\* What is added to the requested commands.
LEMMA RequestMore ==
    ASSUME IInv, NEW c \in Cmd, requested' = Append(requested, c),
           game'.paused = game.paused, game'.forJoin = game.forJoin,
           c = "pause" => ~game.paused,
           c = "resume" => game.paused,
           c = "joinPause" => ~game.forJoin,
           c = "joinResume" => game.forJoin /\ at' = "update",
           c = "order" => ~game.forJoin,
           at = "update" => at' = "update"
    PROVE  /\ requested' \in Seq(Cmd)
           /\ RequestInv'
           /\ \A i \in DOMAIN requested' :
                  requested'[i] = c \/ \E j \in DOMAIN requested : requested'[i] = requested[j]
<1>1. requested \in Seq(Cmd)
  BY DEF IInv, Types
<1>2. requested' \in Seq(Cmd)
  BY <1>1
<1>3. \A i \in DOMAIN requested' :
          requested'[i] = c \/ (i \in DOMAIN requested /\ requested'[i] = requested[i])
  BY <1>1
<1>4. RequestInv'
  BY <1>3 DEF IInv, RequestInv
<1> QED
  BY <1>2, <1>3, <1>4

LEMMA HostOrderKeeps ==
    ASSUME IInv, HostOrder
    PROVE  IInv'
<1>1. "order" \in Cmd
  BY DEF Cmd, Orders
<1>2. /\ requested' = Append(requested, "order") /\ ~game.forJoin
      /\ UNCHANGED <<flags, who, wires, peers, game, at, log, saved>>
  BY DEF HostOrder
<1>3. /\ requested' \in Seq(Cmd) /\ RequestInv'
      /\ \A i \in DOMAIN requested' :
             requested'[i] = "order" \/ \E j \in DOMAIN requested : requested'[i] = requested[j]
  BY <1>1, <1>2, RequestMore
<1>4. Types'
  BY <1>2, <1>3 DEF IInv, Types, flags, who, wires, peers
<1>5. /\ at \in {"unpausing", "saving", "sending"} => game.forJoin
      /\ at = "sending" => saved = [frame |-> game.frame, given |-> Len(log)]
      /\ (\E s \in Slot : HasSave(s)) =>
             at # "unpausing" /\ \A i \in DOMAIN requested : requested[i] # "joinResume"
  BY DEF IInv, HostInv
<1> QED
  BY <1>2, <1>3, <1>4, <1>5, SameGame DEF flags

LEMMA HostToggleKeeps ==
    ASSUME IInv, HostToggle
    PROVE  IInv'
<1> DEFINE c == IF game.paused THEN "resume" ELSE "pause"
<1>1. c \in Cmd
  BY DEF Cmd
<1>2. /\ requested' = Append(requested, c)
      /\ UNCHANGED <<flags, who, wires, peers, game, at, log, saved>>
  BY DEF HostToggle
<1>3. /\ c = "pause" => ~game.paused
      /\ c = "resume" => game.paused
      /\ c \notin {"joinPause", "joinResume", "order"}
  OBVIOUS
<1> HIDE DEF c
<1>4. /\ requested' \in Seq(Cmd) /\ RequestInv'
      /\ \A i \in DOMAIN requested' :
             requested'[i] = c \/ \E j \in DOMAIN requested : requested'[i] = requested[j]
  BY <1>1, <1>2, <1>3, RequestMore
<1>5. Types'
  BY <1>2, <1>4 DEF IInv, Types, flags, who, wires, peers
<1>6. /\ at \in {"unpausing", "saving", "sending"} => game.forJoin
      /\ at = "sending" => saved = [frame |-> game.frame, given |-> Len(log)]
      /\ (\E s \in Slot : HasSave(s)) =>
             at # "unpausing" /\ \A i \in DOMAIN requested : requested[i] # "joinResume"
  BY DEF IInv, HostInv
<1> QED
  BY <1>2, <1>3, <1>4, <1>5, <1>6, SameGame DEF flags

\* A game that is not paused has no end of a join pause requested.
LEMMA UpdateBetweenFramesKeeps ==
    ASSUME IInv, UpdateBetweenFrames
    PROVE  IInv'
<1>1. /\ ~game.paused /\ at' = "join"
      /\ UNCHANGED <<flags, who, wires, peers, game, requested, log, saved>>
  BY DEF UpdateBetweenFrames
<1>2. Types'
  BY <1>1 DEF IInv, Types, flags, who, wires, peers
<1>3. RequestInv'
  BY <1>1 DEF IInv, HostInv, RequestInv
<1>4. /\ at \in {"unpausing", "saving", "sending"} => game.forJoin
      /\ at = "sending" => saved = [frame |-> game.frame, given |-> Len(log)]
      /\ (\E s \in Slot : HasSave(s)) =>
             at # "unpausing" /\ \A i \in DOMAIN requested : requested[i] # "joinResume"
  BY DEF IInv, HostInv
<1> QED
  BY <1>1, <1>2, <1>3, <1>4, SameGame DEF flags

LEMMA RequestResumeKeeps ==
    ASSUME IInv, RequestResume
    PROVE  IInv'
<1>1. /\ at = "unpausing" /\ at' = "update"
      /\ unPause' = [s \in Slot |-> FALSE]
      /\ UNCHANGED <<connected, ready, joining, launch, setup, sentSave, who, wires,
                     peers, log, saved>>
  BY DEF RequestResume
<1>2. game.forJoin /\ ~ \E s \in Slot : HasSave(s)
  BY <1>1 DEF IInv, HostInv
<1>3. CASE /\ requested' = Append(requested, "joinResume")
           /\ game' = [game EXCEPT !.resumeSent = TRUE]
  <2>1. game \in Game
    BY DEF IInv, Types
  <2>2. /\ game' \in Game /\ game'.frame = game.frame /\ game'.paused = game.paused
        /\ game'.forJoin = game.forJoin
    BY <1>3, <2>1 DEF Game
  <2>3. "joinResume" \in Cmd
    BY DEF Cmd
  <2>4. requested' \in Seq(Cmd) /\ RequestInv'
    BY <1>1, <1>2, <1>3, <2>2, <2>3, RequestMore
  <2>5. Types'
    BY <1>1, <2>2, <2>4 DEF IInv, Types, who, wires, peers
  <2> QED
    BY <1>1, <1>2, <2>2, <2>4, <2>5, SameGame
<1>4. CASE UNCHANGED <<requested, game>>
  <2>1. Types'
    BY <1>1, <1>4 DEF IInv, Types, who, wires, peers
  <2>2. RequestInv'
    BY <1>1, <1>4 DEF IInv, RequestInv
  <2> QED
    BY <1>1, <1>2, <1>4, <2>1, <2>2, SameGame
<1> QED
  BY <1>3, <1>4 DEF RequestResume

\* Only a slot that is not ready waits for the saved game, so the join pause goes on.
LEMMA JoinUpdateKeeps ==
    ASSUME IInv, JoinUpdate
    PROVE  IInv'
<1>1. /\ at = "join"
      /\ UNCHANGED <<connected, ready, joining, unPause, sentSave, who, wires, peers,
                     log, saved>>
  BY DEF JoinUpdate
<1>2. game \in Game /\ RequestInv /\ HostInv
  BY DEF IInv, Types
<1>3. \A i \in DOMAIN requested : requested[i] # "joinResume"
  BY <1>1, <1>2 DEF RequestInv
<1>4. setup' \in [Slot -> BOOLEAN] /\ launch' \in [Slot -> BOOLEAN]
  <2>1. setup \in [Slot -> BOOLEAN] /\ launch \in [Slot -> BOOLEAN]
    BY DEF IInv, Types
  <2>2. setup' = setup \/ setup' = [s \in Slot |-> FALSE]
    BY DEF JoinUpdate
  <2>3. AfterFlags => launch' = launch \/ \E s \in Slot : launch' = [launch EXCEPT ![s] = FALSE]
    BY DEF AfterFlags
  <2>4. AfterFlags \/ launch' = launch
    BY DEF JoinUpdate
  <2> QED
    BY <2>1, <2>2, <2>3, <2>4
<1>5. CASE AfterFlags /\ UNCHANGED requested
  <2>1. /\ game' \in Game /\ game'.frame = game.frame /\ game'.paused = game.paused
        /\ game'.forJoin = game.forJoin
    BY <1>2, <1>5 DEF AfterFlags, Game
  <2>2. at' \in {"update", "unpausing", "saving"} /\ (at' # "update" => game.forJoin)
    BY <1>5 DEF AfterFlags
  <2>3. at' = "unpausing" => ~ \E s \in Slot : HasSave(s)
    <3> SUFFICES ASSUME at' = "unpausing", NEW s \in Slot, HasSave(s) PROVE FALSE
      OBVIOUS
    <3>1. GetUnPauseForInGameConnection
      BY <1>5 DEF AfterFlags
    <3>2. connected[s] /\ ~ready[s]
      BY DEF IInv, PerSlot, SlotInv, HasSave, Told, Loaded
    <3> QED
      BY <3>1, <3>2 DEF GetUnPauseForInGameConnection
  <2>4. Types'
    BY <1>1, <1>4, <1>5, <2>1, <2>2 DEF IInv, Types, who, wires, peers
  <2>5. RequestInv'
    BY <1>2, <1>3, <1>5, <2>1 DEF RequestInv
  <2> QED
    BY <1>1, <1>3, <1>5, <2>1, <2>2, <2>3, <2>4, <2>5, SameGame
<1>6. CASE /\ ~game.forJoin /\ at' = "update"
           /\ requested' = Append(requested, "joinPause")
           /\ game' = [game EXCEPT !.pauseSent = TRUE]
  <2>1. /\ game' \in Game /\ game'.frame = game.frame /\ game'.paused = game.paused
        /\ game'.forJoin = game.forJoin
    BY <1>2, <1>6 DEF Game
  <2>2. "joinPause" \in Cmd
    BY DEF Cmd
  <2>3. requested' \in Seq(Cmd) /\ RequestInv'
    BY <1>6, <2>1, <2>2, RequestMore
  <2>4. Types'
    BY <1>1, <1>4, <1>6, <2>1, <2>3 DEF IInv, Types, who, wires, peers
  <2>5. ~ \E s \in Slot : HasSave(s)
    BY <1>2, <1>6 DEF HostInv
  <2> QED
    BY <1>1, <1>6, <2>1, <2>3, <2>4, <2>5, SameGame
<1> QED
  BY <1>5, <1>6 DEF JoinUpdate

\* What a game that stands in a join pause has saved: where it is, with all its orders.
LEMMA StandingSave ==
    ASSUME IInv, game.forJoin, saved' = [frame |-> game.frame, given |-> Len(log)]
    PROVE  /\ Len(log) > 0 /\ log[Len(log)].frame = game.frame /\ log[Len(log)].forJoin
           /\ saved'.frame = game.frame /\ saved'.given = Len(log) /\ Len(log) \in Nat
           /\ \A n \in Ordering : n <= Len(log)
<1>1. Len(log) \in Nat /\ DOMAIN log = 1 .. Len(log) /\ log \in Seq(Entry)
  BY LogTypes DEF IInv, Types
<1>2. log # <<>>
  BY DEF IInv, HostInv, LogInv
<1>3. Len(log) > 0
  BY <1>1, <1>2
<1>4. log[Len(log)].frame = game.frame /\ log[Len(log)].forJoin
  BY <1>2 DEF IInv, LogInv
<1>5. \A n \in Ordering : n <= Len(log)
  BY <1>1 DEF Ordering
<1> QED
  BY <1>1, <1>3, <1>4, <1>5

LEMMA SaveGameKeeps ==
    ASSUME IInv, SaveGame
    PROVE  IInv'
<1>1. /\ at = "saving" /\ at' = "sending"
      /\ saved' = [frame |-> game.frame, given |-> Len(log)]
      /\ UNCHANGED <<connected, ready, joining, launch, setup, unPause, sentSave,
                     uuid, moveTo, toServer, toClient, stage, granted, world,
                     game, requested, log>>
  BY DEF SaveGame, flags, who, wires, peers
<1>2. game.forJoin
  BY <1>1 DEF IInv, HostInv
<1>3. /\ Len(log) > 0 /\ log[Len(log)].frame = game.frame /\ log[Len(log)].forJoin
      /\ saved'.frame = game.frame /\ saved'.given = Len(log) /\ Len(log) \in Nat
      /\ \A n \in Ordering : n <= Len(log)
  BY <1>1, <1>2, StandingSave
<1>4. Types'
  <2>1. game.frame \in Nat
    BY LogTypes DEF IInv
  <2> QED
    BY <1>1, <1>3, <2>1 DEF IInv, Types
<1>5. RequestInv'
  BY <1>1 DEF IInv, RequestInv
<1>6. LogInv'
  BY <1>1 DEF IInv, LogInv, Before, Held, HasOrder
<1>7. \A x \in Slot : HasSave(x)' => HasSave(x)
  BY <1>1 DEF HasSave, Told, Loaded
<1>8. HostInv'
  BY <1>1, <1>2, <1>3, <1>7 DEF IInv, HostInv
<1>9. ASSUME NEW x \in Slot PROVE PerSlot(x)'
  <2>1. PerSlot(x)
    BY DEF IInv
  <2>2. SlotInv(x)'
    BY <1>1, <2>1 DEF PerSlot, SlotInv
  <2>3. SaveInv(x)'
    BY <1>1, <1>3 DEF SaveInv, Ordering, HasOrder
  <2>4. LoadedInv(x)' /\ ListInv(x)'
    BY <1>1, <2>1 DEF PerSlot, LoadedInv, ListInv, Loaded, Ordering, HasOrder, Pending, Under
  <2>5. ClientInv(x)'
    BY <1>1, <2>1 DEF PerSlot, ClientInv, Loaded, Ordering, HasOrder, Pending, Under, Held
  <2> QED
    BY <2>2, <2>3, <2>4, <2>5 DEF PerSlot
<1> QED
  BY <1>4, <1>5, <1>6, <1>8, <1>9 DEF IInv

\* What a client is told of is what the server has just saved.
LEMMA SendSaveKeeps ==
    ASSUME IInv, SendSave
    PROVE  IInv'
<1> DEFINE told == {s \in Slot : joining[s] /\ ~sentSave[s]}
<1>1. /\ at = "sending" /\ at' = "update"
      /\ toClient' = [s \in Slot |-> IF s \in told /\ connected[s] THEN Append(toClient[s], 0)
                                                  ELSE toClient[s]]
      /\ sentSave' = [s \in Slot |-> sentSave[s] \/ s \in told]
      /\ UNCHANGED <<connected, ready, joining, launch, setup, unPause, uuid, moveTo, toServer,
                     stage, granted, world, game, requested, log, saved>>
  BY DEF SendSave, who, peers
<1>2. game.forJoin /\ saved' = [frame |-> game.frame, given |-> Len(log)]
  BY <1>1 DEF IInv, HostInv
<1>3. /\ Len(log) > 0 /\ log[Len(log)].frame = game.frame /\ log[Len(log)].forJoin
      /\ saved'.frame = game.frame /\ saved'.given = Len(log) /\ Len(log) \in Nat
      /\ \A n \in Ordering : n <= Len(log)
  BY <1>2, StandingSave
<1>4. ASSUME NEW x \in Slot
      PROVE  /\ toClient[x] \in Seq(Nat) /\ toClient'[x] \in Seq(Nat)
             /\ \/ toClient'[x] = toClient[x]
                \/ joining[x] /\ connected[x] /\ toClient'[x] = Append(toClient[x], 0)
  <2>1. toClient[x] \in Seq(Nat)
    BY DEF IInv, Types
  <2>2. Append(toClient[x], 0) \in Seq(Nat)
    BY <2>1
  <2> QED
    BY <1>1, <2>1, <2>2
<1> HIDE DEF told
<1>5. Types'
  <2>1. toClient' \in [Slot -> Seq(Nat)]
    <3>1. \A x \in Slot : toClient'[x] \in Seq(Nat)
      BY <1>4
    <3> QED
      BY <1>1, <3>1
  <2>2. sentSave' \in [Slot -> BOOLEAN]
    BY <1>1 DEF IInv, Types
  <2> QED
    BY <1>1, <2>1, <2>2 DEF IInv, Types
<1>6. \A i \in DOMAIN requested : requested[i] # "joinResume"
  BY <1>1 DEF IInv, RequestInv
<1>7. RequestInv'
  BY <1>1, <1>6 DEF IInv, RequestInv
<1>8. LogInv'
  BY <1>1 DEF IInv, LogInv, Before, Held, HasOrder
<1>9. HostInv'
  BY <1>1, <1>2, <1>6 DEF IInv, HostInv
<1>10. ASSUME NEW x \in Slot PROVE PerSlot(x)'
  <2> DEFINE q == toClient[x]
             r == toClient'[x]
  <2>1. PerSlot(x)
    BY DEF IInv
  <2>2. \/ r = q
        \/ /\ ~ready[x] /\ connected[x]
           /\ \A i \in DOMAIN r : r[i] = 0
           /\ r # <<>> /\ Under(x)' = {} /\ Under(x) = {}
    <3>1. CASE r # q
      <4>1. joining[x] /\ connected[x] /\ r = Append(q, 0) /\ q \in Seq(Nat)
        BY <1>4, <3>1
      <4>2. ~ready[x] /\ \A i \in DOMAIN q : q[i] = 0
        BY <2>1, <4>1 DEF PerSlot, SlotInv
      <4>3. r # <<>> /\ \A i \in DOMAIN r : r[i] = 0
        BY <4>1, <4>2
      <4>4. Under(x)' = {} /\ Under(x) = {}
        BY <4>2, <4>3 DEF Under, Range
      <4> QED
        BY <4>1, <4>2, <4>3, <4>4
    <3> QED
      BY <3>1
  <2>3. r \in Seq(Nat)
    BY <1>4
  <2> HIDE DEF q, r
  <2>4. SlotInv(x)'
    <3>1. r # <<>> /\ (\A i \in DOMAIN r : r[i] = 0) => r[1] = 0
      BY <2>3
    <3> QED
      BY <1>1, <2>1, <2>2, <3>1 DEF PerSlot, SlotInv, q, r
  <2>5. SaveInv(x)'
    BY <1>1, <1>3 DEF SaveInv, Ordering, HasOrder
  <2>6. LoadedInv(x)'
    BY <1>1, <2>1 DEF PerSlot, LoadedInv, Loaded, Ordering, HasOrder
  <2>7. Under(x)' = Under(x)
    BY <2>2 DEF Under, q, r
  <2>8. \A i, j \in DOMAIN r : i < j /\ r[i] # 0 /\ r[j] # 0 /\ Loaded(x) => r[i] < r[j]
    BY <2>1, <2>2 DEF PerSlot, ListInv, q
  <2>9. ListInv(x)'
    BY <1>1, <2>1, <2>7, <2>8 DEF PerSlot, ListInv, Loaded, Pending, r
  <2>10. ClientInv(x)'
    BY <1>1, <2>1, <2>7 DEF PerSlot, ClientInv, Loaded, Ordering, HasOrder, Pending, Held
  <2> QED
    BY <2>4, <2>5, <2>6, <2>9, <2>10 DEF PerSlot
<1> QED
  BY <1>5, <1>7, <1>8, <1>9, <1>10 DEF IInv

\* The list the server broadcasts: what is known of it before it is in the log.
NewFrame == IF game.paused THEN game.frame ELSE game.frame + 1
NewGame  == FoldLeft(ServerPaused, [game EXCEPT !.frame = NewFrame], Reverse(requested))

LEMMA NewList ==
    ASSUME IInv
    PROVE  /\ Reverse(requested) \in Seq(Cmd)
           /\ Range(Reverse(requested)) = Range(requested)
           /\ NewGame \in Game /\ NewGame.frame = NewFrame
           /\ NewGame.forJoin => NewGame.paused
           /\ (\E s \in Slot : HasSave(s)) => NewGame.forJoin
           /\ ~game.paused =>
                  /\ \A c \in Range(requested) : c \in Orders \/ IsPause(c)
                  /\ NewGame.paused => \E c \in Range(requested) : IsPause(c)
           /\ game.forJoin => ~ (NewGame.paused /\ ~NewGame.forJoin)
           /\ game.paused /\ NewGame.paused /\ ~NewGame.forJoin => Range(requested) \subseteq Orders
<1> DEFINE q == Reverse(requested)
           n == Len(requested)
           g == [game EXCEPT !.frame = NewFrame]
<1>1. requested \in Seq(Cmd) /\ n \in Nat /\ DOMAIN requested = 1 .. n
  BY DEF IInv, Types
<1>2. q \in Seq(Cmd) /\ DOMAIN q = 1 .. n /\ \A i \in 1 .. n : q[i] = requested[(n - i) + 1]
  BY <1>1 DEF Reverse
<1> HIDE DEF q, n
<1>3. Range(q) = Range(requested)
  <2>1. \A i \in 1 .. n : q[i] \in Range(requested)
    BY <1>1, <1>2 DEF Range
  <2>2. ASSUME NEW i \in 1 .. n PROVE requested[i] \in Range(q)
    <3>1. (n - i) + 1 \in 1 .. n /\ (n - ((n - i) + 1)) + 1 = i
      BY <1>1
    <3>2. q[(n - i) + 1] = requested[i]
      BY <1>2, <3>1
    <3> QED
      BY <1>2, <3>1, <3>2 DEF Range
  <2> QED
    BY <1>1, <1>2, <2>1, <2>2 DEF Range
<1>4. \A i \in DOMAIN q : q[i] \in Range(requested) /\ q[i] \in Cmd
  <2>1. \A i \in DOMAIN q : q[i] \in Range(q)
    BY DEF Range
  <2>2. q \in Seq(Cmd)
    BY <1>2
  <2>3. \A i \in DOMAIN q : q[i] \in Cmd
    BY <2>2
  <2> QED
    BY <1>3, <2>1, <2>3
<1>5. game \in Game /\ NewFrame \in Nat
  BY DEF IInv, Types, Game, NewFrame
<1>6. /\ g \in Game /\ g.frame = NewFrame /\ g.paused = game.paused /\ g.forJoin = game.forJoin
  BY <1>5 DEF Game
<1>7. NewGame = FoldLeft(ServerPaused, g, q)
  BY DEF NewGame, q
<1> HIDE DEF g
<1>8. HostInv /\ RequestInv
  BY DEF IInv
<1>9. /\ game.forJoin => game.paused
      /\ \A c \in Range(requested) :
             /\ c \in Cmd
             /\ c = "pause" => ~game.paused
             /\ c = "resume" => game.paused
             /\ c = "joinPause" => ~game.forJoin
             /\ c = "joinResume" => game.forJoin
             /\ c = "order" => ~game.forJoin
  BY <1>1, <1>8 DEF HostInv, RequestInv, Range
<1>10. NewGame \in Game /\ NewGame.frame = NewFrame /\ (NewGame.forJoin => NewGame.paused)
  BY <1>2, <1>6, <1>7, <1>9, ServerSame
<1>11. ASSUME NEW s \in Slot, HasSave(s) PROVE NewGame.forJoin
  <2>1. game.forJoin /\ \A i \in DOMAIN requested : requested[i] # "joinResume"
    BY <1>8, <1>11 DEF HostInv
  <2>2. \A i \in DOMAIN q : q[i] # "joinResume"
    BY <1>4, <2>1 DEF Range
  <2>3. connected[s] /\ ~ready[s]
    BY <1>11 DEF IInv, PerSlot, SlotInv, HasSave, Told, Loaded
  <2>4. g.forJoin /\ g.paused
    BY <1>6, <1>9, <2>1
  <2> QED
    BY <1>2, <1>6, <1>7, <2>2, <2>3, <2>4, ServerStands
<1>12. ~game.paused => \A c \in Range(requested) : c \in Orders \/ IsPause(c)
  BY <1>9 DEF Cmd, IsPause
<1>13. ASSUME ~game.paused, NewGame.paused PROVE \E c \in Range(requested) : IsPause(c)
  <2>1. \E i \in DOMAIN q : IsPause(q[i])
    BY <1>2, <1>6, <1>7, <1>13, ServerRuns
  <2> QED
    BY <1>4, <2>1
<1>14. ASSUME game.forJoin PROVE ~ (NewGame.paused /\ ~NewGame.forJoin)
  <2>1. \A i \in DOMAIN q : q[i] \in Orders \cup {"resume", "joinResume"}
    <3>1. \A c \in Range(requested) : c \in Orders \cup {"resume", "joinResume"}
      BY <1>9, <1>14 DEF Cmd
    <3> QED
      BY <1>4, <3>1
  <2> QED
    BY <1>2, <1>6, <1>7, <1>14, <2>1, ServerEndsJoin
<1>15. ASSUME game.paused, NewGame.paused, ~NewGame.forJoin
       PROVE  Range(requested) \subseteq Orders
  <2>1. ~game.forJoin
    BY <1>14, <1>15
  <2>2. \A c \in Range(requested) : c \in Orders \cup {"resume", "joinPause"}
    BY <1>9, <1>15, <2>1 DEF Cmd
  <2>3. \A i \in DOMAIN q : q[i] \in Orders \cup {"resume", "joinPause"}
    BY <1>4, <2>2
  <2>4. \A i \in DOMAIN q : q[i] \in Orders
    BY <1>2, <1>6, <1>7, <1>15, <2>3, ServerEndsHeld
  <2> QED
    BY <1>3, <2>4 DEF Range
<1> QED
  BY <1>2, <1>3, <1>10, <1>11, <1>12, <1>13, <1>14, <1>15 DEF q

\* The server's world moves to the next frame, or stands and takes commands.
LEMMA ServerFrameKeeps ==
    ASSUME IInv, ServerFrame
    PROVE  IInv'
<1> DEFINE q == Reverse(requested)
           f == NewFrame
           g == NewGame
           e == [frame |-> f, cmds |-> q, paused |-> g.paused, forJoin |-> g.forJoin]
<1>0. PICK N : N = Len(log) + 1
  OBVIOUS
<1>1. /\ at = "update" /\ at' = "join" /\ game' = g /\ requested' = <<>>
      /\ UNCHANGED <<connected, ready, joining, launch, setup, unPause, sentSave, uuid, moveTo,
                     toServer, stage, granted, world, saved>>
  BY DEF ServerFrame, NewGame, NewFrame, flags, who, peers
<1>2. \/ game.paused /\ q = <<>> /\ UNCHANGED <<log, toClient>>
      \/ /\ log' = Append(log, e)
         /\ toClient' = [s \in Slot |-> IF ready[s] THEN Append(toClient[s], N)
                                                    ELSE toClient[s]]
  BY <1>0 DEF ServerFrame, NewGame, NewFrame
<1>3. /\ q \in Seq(Cmd)
      /\ Range(q) = Range(requested)
      /\ g \in Game /\ g.frame = f
      /\ g.forJoin => g.paused
      /\ (\E s \in Slot : HasSave(s)) => g.forJoin
      /\ ~game.paused =>
             /\ \A c \in Range(requested) : c \in Orders \/ IsPause(c)
             /\ g.paused => \E c \in Range(requested) : IsPause(c)
      /\ game.forJoin => ~ (g.paused /\ ~g.forJoin)
      /\ game.paused /\ g.paused /\ ~g.forJoin => Range(requested) \subseteq Orders
  BY NewList
<1>4. RequestInv' /\ Len(<<>>) = 0 /\ requested' \in Seq(Cmd)
  BY <1>1 DEF RequestInv
<1>5. CASE game.paused /\ q = <<>> /\ UNCHANGED <<log, toClient>>
  <2>1. g = game
    <3>1. game \in Game /\ f = game.frame
      BY <1>5 DEF IInv, Types, NewFrame
    <3>2. [game EXCEPT !.frame = f] = game
      BY <3>1 DEF Game
    <3>3. FoldLeft(ServerPaused, game, <<>>) = game
      <4> DEFINE Q == [i \in 0 .. 0 |-> {game}]
      <4>1. Q \in [0 .. Len(<<>>) -> SUBSET Game] /\ game \in Q[0] /\ <<>> \in Seq(Cmd)
        BY <3>1
      <4>2. \A i \in 1 .. Len(<<>>) : \A x \in Q[i - 1] : ServerPaused(x, <<>>[i]) \in Q[i]
        OBVIOUS
      <4> HIDE DEF Q
      <4>3. FoldLeft(ServerPaused, game, <<>>) \in Q[Len(<<>>)]
        BY <4>1, <4>2, ServerStays
      <4> QED
        BY <4>3 DEF Q
    <3> QED
      BY <1>5, <3>2, <3>3 DEF NewGame
  <2>2. Types'
    BY <1>1, <1>3, <1>4, <1>5 DEF IInv, Types
  <2>3. UNCHANGED <<connected, ready, joining, wires, peers, log, saved>> /\ game' = game
    BY <1>1, <1>5, <2>1 DEF wires, peers
  <2>4. \A i \in DOMAIN requested' : requested'[i] # "joinResume"
    BY <1>1
  <2> QED
    BY <1>1, <1>4, <2>2, <2>3, <2>4, SameGame
<1>6. CASE /\ log' = Append(log, e)
           /\ toClient' = [s \in Slot |-> IF ready[s] THEN Append(toClient[s], N)
                                                      ELSE toClient[s]]
  <2>1. /\ Len(log) \in Nat /\ DOMAIN log = 1 .. Len(log) /\ game.frame \in Nat
        /\ \A n \in DOMAIN log : n \in Nat \ {0} /\ log[n].frame \in Nat /\ log[n].frame # 0
    BY LogTypes DEF IInv
  <2>2. log \in Seq(Entry) /\ game \in Game /\ HostInv /\ LogInv /\ RequestInv
    BY DEF IInv, Types
  <2>3. \A i \in DOMAIN requested : requested[i] = "order" => ~game.forJoin
    BY <2>2 DEF RequestInv
  <2>4. /\ game.paused => /\ f = game.frame /\ log # <<>>
                          /\ Len(log) \in DOMAIN log /\ log[Len(log)].frame = game.frame
                          /\ log[Len(log)].paused = game.paused
                          /\ log[Len(log)].forJoin = game.forJoin
        /\ ~game.paused => f = game.frame + 1
        /\ f \in Nat /\ f # 0
    <3>1. CASE game.paused
      <4>1. f = game.frame /\ log # <<>>
        BY <2>2, <3>1 DEF LogInv, NewFrame
      <4>2. Len(log) \in DOMAIN log
        BY <2>1, <2>2, <4>1
      <4> QED
        BY <2>1, <2>2, <3>1, <4>1, <4>2 DEF LogInv
    <3>2. CASE ~game.paused
      BY <2>1, <3>2 DEF NewFrame
    <3> QED
      BY <3>1, <3>2
  <2>5. g.paused \in BOOLEAN /\ g.forJoin \in BOOLEAN
    BY <1>3 DEF Game
  <2> HIDE DEF q, f, g
  <2>6. e \in Entry /\ e.frame = f /\ e.cmds = q /\ e.paused = g.paused /\ e.forJoin = g.forJoin
    BY <1>3, <2>4, <2>5 DEF Entry
  <2> HIDE DEF e
  <2>7. /\ log' \in Seq(Entry) /\ Len(log') = N /\ DOMAIN log' = 1 .. N /\ log'[N] = e
        /\ \A n \in DOMAIN log : log'[n] = log[n]
    BY <1>0, <1>6, <2>1, <2>2, <2>6
  <2>8. /\ N \in Nat /\ N \notin DOMAIN log /\ \A n \in DOMAIN log : n < N
        /\ DOMAIN log' = DOMAIN log \cup {N}
    BY <1>0, <2>1, <2>7
  <2>9. log' # <<>>
    BY <2>8
  \* The new list and the old ones.
  <2>10. \A n \in DOMAIN log : HasOrder(n)' = HasOrder(n) /\ Held(n)' = Held(n)
    BY <2>7 DEF HasOrder, Held
  <2>11. /\ HasOrder(N)' = ("order" \in Range(requested))
         /\ Held(N)' = (g.paused /\ ~g.forJoin)
    BY <1>3, <2>6, <2>7 DEF HasOrder, Held
  <2>12. HasOrder(N)' => ~game.forJoin
    BY <2>3, <2>11 DEF Range
  <2>13. \A n \in DOMAIN log : log[n].frame <= game.frame /\ log[n].frame <= f
    BY <2>1, <2>2, <2>4 DEF LogInv
  <2>14. \A m \in DOMAIN log : log[m].frame = f => game.paused
    BY <2>1, <2>4, <2>13
  <2>15. ASSUME NEW m \in DOMAIN log, log[m].frame = f, HasOrder(N)' \/ Held(N)'
         PROVE  Held(m)
    <3> DEFINE l == Len(log)
    <3>1. game.paused /\ ~game.forJoin
      BY <1>3, <2>11, <2>12, <2>14, <2>15
    <3>2. l \in DOMAIN log /\ log[l].frame = f /\ Held(l)
      BY <2>4, <3>1 DEF Held
    <3>4. m < l \/ m = l
      BY <2>1
    <3>3. m < l => Held(m)
      BY <2>2, <2>15, <3>2 DEF LogInv, Before
    <3> QED
      BY <3>2, <3>3, <3>4
  <2>16. Ordering' \subseteq Ordering \cup {N} /\ Ordering \subseteq Ordering'
    BY <2>8, <2>10 DEF Ordering
  <2>17. \A m, n \in DOMAIN log : Before(m, n)' = Before(m, n)
    BY <2>7 DEF Before
  <2>18. \A m, n \in DOMAIN log' : Before(m, n)' =>
             \/ m \in DOMAIN log /\ n \in DOMAIN log /\ Before(m, n)
             \/ m \in DOMAIN log /\ n = N /\ log[m].frame = f
    <3> SUFFICES ASSUME NEW m \in DOMAIN log', NEW n \in DOMAIN log', Before(m, n)'
                 PROVE  \/ m \in DOMAIN log /\ n \in DOMAIN log /\ Before(m, n)
                        \/ m \in DOMAIN log /\ n = N /\ log[m].frame = f
      OBVIOUS
    <3>1. m < n /\ log'[m].frame = log'[n].frame
      BY DEF Before
    <3>2. m \in DOMAIN log
      BY <2>1, <2>8, <3>1
    <3>3. CASE n \in DOMAIN log
      BY <2>17, <3>2, <3>3
    <3>4. CASE n = N
      BY <2>6, <2>7, <3>1, <3>2, <3>4
    <3> QED
      BY <2>8, <3>2, <3>3, <3>4
  <2>19. LogInv'
    <3>1. \A n \in DOMAIN log' : log'[n].frame <= game'.frame
      <4> SUFFICES ASSUME NEW n \in DOMAIN log' PROVE log'[n].frame <= f
        BY <1>1, <1>3
      <4>1. CASE n \in DOMAIN log
        BY <2>7, <2>13, <4>1
      <4>2. CASE n = N
        BY <2>4, <2>6, <2>7, <4>2
      <4> QED
        BY <2>8, <4>1, <4>2
    <3>2. \A m, n \in DOMAIN log' : m < n => log'[m].frame <= log'[n].frame
      <4> SUFFICES ASSUME NEW m \in DOMAIN log', NEW n \in DOMAIN log', m < n
                   PROVE  log'[m].frame <= log'[n].frame
        OBVIOUS
      <4>1. m \in DOMAIN log
        BY <2>1, <2>8
      <4>2. CASE n \in DOMAIN log
        BY <2>2, <2>7, <4>1, <4>2 DEF LogInv
      <4>3. CASE n = N
        BY <2>6, <2>7, <2>13, <4>1, <4>3
      <4> QED
        BY <2>8, <4>2, <4>3
    <3>3. /\ log'[Len(log')].frame = game'.frame
          /\ log'[Len(log')].paused = game'.paused
          /\ log'[Len(log')].forJoin = game'.forJoin
      BY <1>1, <1>3, <2>6, <2>7
    <3>4. \A m, n \in DOMAIN log' :
              Before(m, n)' /\ (HasOrder(n)' \/ Held(n)') => Held(m)'
      <4> SUFFICES ASSUME NEW m \in DOMAIN log', NEW n \in DOMAIN log',
                          Before(m, n)', HasOrder(n)' \/ Held(n)'
                   PROVE  Held(m)'
        OBVIOUS
      <4>1. CASE m \in DOMAIN log /\ n \in DOMAIN log /\ Before(m, n)
        BY <2>2, <2>10, <4>1 DEF LogInv
      <4>2. CASE m \in DOMAIN log /\ n = N /\ log[m].frame = f
        BY <2>10, <2>15, <4>2
      <4> QED
        BY <2>18, <4>1, <4>2
    <3>5. \A m, n \in DOMAIN log' :
              Before(m, n)' /\ Held(n)' => Range(log'[n].cmds) \subseteq Orders
      <4> SUFFICES ASSUME NEW m \in DOMAIN log', NEW n \in DOMAIN log', Before(m, n)', Held(n)'
                   PROVE  Range(log'[n].cmds) \subseteq Orders
        OBVIOUS
      <4>1. CASE m \in DOMAIN log /\ n \in DOMAIN log /\ Before(m, n)
        BY <2>2, <2>7, <2>10, <4>1 DEF LogInv
      <4>2. CASE m \in DOMAIN log /\ n = N /\ log[m].frame = f
        BY <1>3, <2>6, <2>7, <2>11, <2>14, <4>2
      <4> QED
        BY <2>18, <4>1, <4>2
    <3>6. ASSUME NEW n \in DOMAIN log'
          PROVE  \/ \E m \in DOMAIN log' : Before(m, n)'
                 \/ /\ \A c \in Range(log'[n].cmds) : c \in Orders \/ IsPause(c)
                    /\ log'[n].paused => \E c \in Range(log'[n].cmds) : IsPause(c)
      <4>1. CASE n \in DOMAIN log
        <5>1. \/ \E m \in DOMAIN log : Before(m, n)
              \/ /\ \A c \in Range(log[n].cmds) : c \in Orders \/ IsPause(c)
                 /\ log[n].paused => \E c \in Range(log[n].cmds) : IsPause(c)
          BY <2>2, <4>1 DEF LogInv
        <5>2. \A m \in DOMAIN log : Before(m, n) => m \in DOMAIN log' /\ Before(m, n)'
          BY <2>8, <2>17, <4>1
        <5> QED
          BY <2>7, <4>1, <5>1, <5>2
      <4>2. CASE n = N /\ game.paused
        <5>1. PICK l \in DOMAIN log : log[l].frame = f
          BY <2>4, <4>2
        <5>2. l \in DOMAIN log' /\ Before(l, n)'
          BY <2>6, <2>7, <2>8, <4>2, <5>1 DEF Before
        <5> QED
          BY <5>2
      <4>3. CASE n = N /\ ~game.paused
        BY <1>3, <2>6, <2>7, <4>3
      <4> QED
        BY <2>8, <4>1, <4>2, <4>3
    <3> QED
      BY <2>9, <3>1, <3>2, <3>3, <3>4, <3>5, <3>6 DEF LogInv
  \* Nobody who has the saved game misses an order.
  <2>20. \A x \in Slot : HasSave(x)' <=> HasSave(x)
    <3> TAKE x \in Slot
    <3>1. ~ready[x] => toClient'[x] = toClient[x]
      BY <1>6
    <3> QED
      BY <1>1, <3>1 DEF HasSave, Told, Loaded
  <2>21. (\E x \in Slot : HasSave(x)) => /\ game.forJoin /\ f = game.frame /\ g.forJoin
                                        /\ N \notin Ordering'
    <3>1. (\E x \in Slot : HasSave(x)) => game.forJoin /\ game.paused
      BY <2>2 DEF HostInv
    <3> QED
      BY <1>3, <2>4, <2>12, <3>1 DEF Ordering
  <2>22. HostInv'
    <3>1. saved'.given <= Len(log')
      <4>1. saved.given \in Nat /\ saved.given <= Len(log)
        BY <2>2 DEF HostInv, IInv, Types
      <4> QED
        BY <1>0, <1>1, <2>1, <2>7, <4>1
    <3>2. \A i \in DOMAIN requested' : requested'[i] # "joinResume"
      BY <1>1
    <3> QED
      BY <1>1, <1>3, <2>20, <3>1, <3>2 DEF HostInv
  <2>23. Types'
    <3>1. toClient' \in [Slot -> Seq(Nat)]
      <4>1. \A x \in Slot : toClient[x] \in Seq(Nat) /\ Append(toClient[x], N) \in Seq(Nat)
        BY <2>8 DEF IInv, Types
      <4> QED
        BY <1>6, <4>1
    <3> QED
      BY <1>1, <1>3, <1>4, <2>7, <3>1 DEF IInv, Types
  <2>24. ASSUME NEW x \in Slot PROVE PerSlot(x)'
    <3> DEFINE w == world[x]
               G == Range(w.given)
               r == toClient'[x]
    <3>1. PerSlot(x) /\ w \in World /\ w.frame \in Nat /\ toClient[x] \in Seq(Nat)
      BY DEF IInv, Types, World
    <3>2. \/ ~ready[x] /\ r = toClient[x]
          \/ /\ ready[x] /\ Loaded(x) /\ r = Append(toClient[x], N)
      BY <1>6, <3>1 DEF PerSlot, SlotInv, Loaded
    <3>3. /\ Loaded(x)' = Loaded(x) /\ ready' = ready
      BY <1>1 DEF Loaded
    <3>4. SlotInv(x)'
      <4>1. CASE ~ready[x]
        BY <1>1, <3>1, <3>2, <4>1 DEF PerSlot, SlotInv
      <4>2. CASE ready[x]
        <5>1. r # <<>> /\ (toClient[x] # <<>> => r[1] = toClient[x][1])
          BY <3>1, <3>2, <4>2
        <5>2. connected[x] /\ (stage[x] = "barrier" => toClient[x] # <<>>)
          BY <3>1, <4>2 DEF PerSlot, SlotInv
        <5> HIDE DEF r
        <5> QED
          BY <1>1, <3>1, <4>2, <5>1, <5>2 DEF PerSlot, SlotInv, r
      <4> QED
        BY <4>1, <4>2
    <3>5. SaveInv(x)'
      <4> SUFFICES ASSUME Told(x)' PROVE SaveInv(x)'
        BY DEF SaveInv
      <4>1. ~ready[x] /\ r = toClient[x] /\ Told(x)
        BY <1>1, <3>2 DEF Told
      <4>2. HasSave(x)
        BY <4>1 DEF HasSave
      <4>3. saved.given \in DOMAIN log
        <5>1. saved.given \in Nat /\ saved.given <= Len(log)
          BY <2>2 DEF HostInv, IInv, Types
        <5> QED
          BY <2>1, <3>1, <4>1, <5>1 DEF PerSlot, SaveInv
      <4>4. Ordering' = Ordering
        BY <2>16, <2>21, <4>2
      <4> QED
        BY <1>1, <1>3, <2>7, <2>21, <3>1, <4>1, <4>2, <4>3, <4>4 DEF PerSlot, SaveInv
    <3>6. LoadedInv(x)'
      <4> SUFFICES ASSUME Loaded(x), ~ready[x] PROVE LoadedInv(x)'
        BY <3>3 DEF LoadedInv
      <4>1. HasSave(x)
        BY DEF HasSave
      <4>2. Ordering' = Ordering /\ game'.frame = game.frame
        BY <1>1, <1>3, <2>16, <2>21, <4>1
      <4> DEFINE k == Len(w.given)
      <4>3. /\ w.frame = game.frame /\ w.paused /\ ~w.passed /\ w.cached = <<>>
            /\ k > 0 /\ k <= Len(log)
            /\ w.given = [i \in 1 .. k |-> i]
            /\ log[k].frame = game.frame /\ log[k].forJoin
            /\ \A n \in Ordering : n <= k
        BY <3>1 DEF PerSlot, LoadedInv
      <4>4. k \in Nat
        BY <3>1 DEF World
      <4>5. k \in DOMAIN log /\ k <= Len(log')
        BY <1>0, <2>1, <2>7, <4>3, <4>4
      <4>6. log'[k] = log[k] /\ world'[x] = w
        BY <1>1, <2>7, <4>5
      <4> HIDE DEF w
      <4> QED
        BY <4>2, <4>3, <4>5, <4>6 DEF LoadedInv
    <3>7. /\ Under(x)' = IF ready[x] THEN Under(x) \cup {N} ELSE Under(x)
          /\ world'[x] = w /\ Under(x) \subseteq Pending(x) /\ Under(x)' \subseteq Pending(x)'
          /\ Pending(x)' = IF ready[x] THEN Pending(x) \cup {N} ELSE Pending(x)
      <4>1. N # 0
        BY <1>0, <2>1
      <4>2. Under(x)' = IF ready[x] THEN Under(x) \cup {N} ELSE Under(x)
        <5>1. CASE ~ready[x]
          BY <3>2, <5>1 DEF Under
        <5>2. CASE ready[x]
          <6> DEFINE c == toClient[x]
          <6>1. /\ DOMAIN c = 1 .. Len(c) /\ Len(c) \in Nat /\ DOMAIN r = 1 .. Len(c) + 1
                /\ \A i \in DOMAIN c : r[i] = c[i]
                /\ r[Len(c) + 1] = N
            <7>1. c \in Seq(Nat) /\ N \in Nat /\ r = Append(c, N)
              BY <2>8, <3>1, <3>2, <5>2
            <7> HIDE DEF c, r
            <7> QED
              BY <7>1, AppendFacts
          <6> HIDE DEF r, c
          <6>2. \A i \in DOMAIN r : r[i] \in Range(c) \cup {N}
            BY <6>1 DEF Range
          <6>3. \A i \in DOMAIN c : c[i] \in Range(r)
            BY <6>1 DEF Range
          <6>4. N \in Range(r)
            BY <6>1 DEF Range
          <6>5. Range(r) = Range(c) \cup {N}
            BY <6>2, <6>3, <6>4 DEF Range
          <6> QED
            BY <4>1, <5>2, <6>5 DEF Under, r, c
        <5> QED
          BY <5>1, <5>2
      <4> QED
        BY <1>1, <4>2 DEF Pending
    <3>8. ListInv(x)'
      <4> SUFFICES ASSUME Loaded(x) PROVE ListInv(x)'
        BY <3>3 DEF ListInv
      <4>1. Range(w.given) \cup Pending(x)' \subseteq DOMAIN log'
        BY <2>8, <3>1, <3>7 DEF PerSlot, ListInv
      <4>2. \A i, j \in DOMAIN r : i < j /\ r[i] # 0 /\ r[j] # 0 => r[i] < r[j]
        <5>1. \A i, j \in DOMAIN toClient[x] :
                  i < j /\ toClient[x][i] # 0 /\ toClient[x][j] # 0 => toClient[x][i] < toClient[x][j]
          BY <3>1 DEF PerSlot, ListInv
        <5>2. CASE ~ready[x]
          BY <3>2, <5>1, <5>2
        <5>3. CASE ready[x]
          <6> DEFINE c == toClient[x]
          <6>1. /\ DOMAIN c = 1 .. Len(c) /\ Len(c) \in Nat /\ DOMAIN r = 1 .. Len(c) + 1
                /\ \A i \in DOMAIN c : r[i] = c[i]
                /\ r[Len(c) + 1] = N
            <7>1. c \in Seq(Nat) /\ N \in Nat /\ r = Append(c, N)
              BY <2>8, <3>1, <3>2, <5>3
            <7> HIDE DEF c, r
            <7> QED
              BY <7>1, AppendFacts
          <6>2. \A i \in DOMAIN c : c[i] # 0 => c[i] < N
            <7>1. \A i \in DOMAIN c : c[i] # 0 => c[i] \in Under(x)
              BY DEF Under, Range
            <7>2. Under(x) \subseteq DOMAIN log
              BY <3>1, <3>7 DEF PerSlot, ListInv
            <7> QED
              BY <2>8, <7>1, <7>2
          <6> HIDE DEF r
          <6> SUFFICES ASSUME NEW i \in DOMAIN r, NEW j \in DOMAIN r, i < j, r[i] # 0, r[j] # 0
                       PROVE  r[i] < r[j]
            OBVIOUS
          <6>3. i \in DOMAIN c /\ (j \in DOMAIN c \/ j = Len(c) + 1)
            BY <6>1
          <6>4. CASE j \in DOMAIN c
            BY <5>1, <6>1, <6>3, <6>4
          <6>5. CASE j = Len(c) + 1
            BY <6>1, <6>2, <6>3, <6>5
          <6> QED
            BY <6>3, <6>4, <6>5
        <5> QED
          BY <5>2, <5>3
      <4>3. \A m \in Range(w.cached) \cup Range(w.given), n \in Under(x)' : m < n
        <5>1. \A m \in Range(w.cached) \cup Range(w.given) : m \in DOMAIN log
          BY <3>1 DEF PerSlot, ListInv, Pending
        <5>2. \A m \in Range(w.cached) \cup Range(w.given), n \in Under(x) : m < n
          BY <3>1 DEF PerSlot, ListInv
        <5> QED
          BY <2>8, <3>7, <5>1, <5>2
      <4>4. ASSUME NEW m \in Range(w.given), NEW n \in Range(w.cached),
                   log'[n].frame >= w.frame
            PROVE  m < n
        <5>1. n \in DOMAIN log
          BY <3>1 DEF PerSlot, ListInv, Pending
        <5> QED
          BY <2>7, <3>1, <4>4, <5>1 DEF PerSlot, ListInv
      <4>5. /\ \A i, j \in DOMAIN w.given : i < j => w.given[i] < w.given[j]
            /\ \A i, j \in DOMAIN w.cached : i < j => w.cached[i] < w.cached[j]
        BY <3>1 DEF PerSlot, ListInv
      <4> HIDE DEF w
      <4> QED
        BY <3>7, <4>1, <4>2, <4>3, <4>4, <4>5 DEF ListInv
    <3>9. ClientInv(x)'
      <4> SUFFICES ASSUME Loaded(x) PROVE ClientInv(x)'
        BY <3>3 DEF ClientInv
      <4>1. ClientInv(x) /\ G \subseteq DOMAIN log
        BY <3>1 DEF PerSlot, ListInv
      <4>2. ~ready[x] => HasSave(x)
        BY DEF HasSave
      <4>3. /\ Ordering \subseteq G \cup Pending(x)
            /\ \A n \in Ordering : log[n].frame < w.frame => n \in G
            /\ \A m \in G, n \in Ordering : n < m => n \in G
            /\ \A n \in G : log[n].frame <= w.frame
            /\ w.passed => w.frame = 0 \/ \E n \in G : log[n].frame = w.frame
            /\ w.frame <= game.frame
                  \/ (w.frame = game.frame + 1 /\ ~(game.paused /\ ~game.forJoin))
            /\ \A n \in DOMAIN log : log[n].frame > w.frame => n \in Pending(x)
            /\ \/ \E n \in G : log[n].frame = w.frame
               \/ \A n \in DOMAIN log : log[n].frame = w.frame => n \in Pending(x)
            /\ \A n \in G : log[n].frame = w.frame /\ (\A m \in G : m <= n) /\ Held(n) => w.paused
        BY <4>1 DEF ClientInv
      <4>4. ~ready[x] => /\ w.frame = game.frame /\ \E n \in G : log[n].frame = w.frame
        <5> SUFFICES ASSUME ~ready[x] PROVE w.frame = game.frame /\ \E n \in G : log[n].frame = w.frame
          OBVIOUS
        <5> DEFINE k == Len(w.given)
        <5>1. /\ w.frame = game.frame /\ k > 0 /\ w.given = [i \in 1 .. k |-> i]
              /\ log[k].frame = game.frame
          BY <3>1 DEF PerSlot, LoadedInv
        <5>2. k \in Nat
          BY <3>1 DEF World
        <5>3. k \in G
          BY <5>1, <5>2 DEF Range
        <5> QED
          BY <5>1, <5>3
      <4> HIDE DEF w, G
      <4>5. \A n \in G : log'[n] = log[n] /\ n \in DOMAIN log /\ n < N
        BY <2>7, <2>8, <4>1
      <4>6. Ordering' \subseteq G \cup Pending(x)'
        <5>1. CASE ready[x]
          BY <2>16, <3>7, <4>3, <5>1
        <5>2. CASE ~ready[x]
          BY <2>16, <2>21, <3>7, <4>2, <4>3, <5>2
        <5> QED
          BY <5>1, <5>2
      <4>7. ASSUME NEW n \in Ordering', log'[n].frame < w.frame PROVE n \in G
        <5>1. CASE n \in DOMAIN log
          <6>1. n \in Ordering
            BY <2>10, <5>1 DEF Ordering
          <6> QED
            BY <2>7, <4>3, <4>7, <5>1, <6>1
        <5>2. CASE n = N
          <6>1. ~game.forJoin /\ f < w.frame
            BY <2>6, <2>7, <2>12, <4>7, <5>2 DEF Ordering
          <6>2. w.frame \in Nat
            BY <3>1 DEF w
          <6>3. game.paused => FALSE
            BY <2>1, <2>4, <4>3, <6>1, <6>2
          <6>4. ~game.paused => FALSE
            BY <2>1, <2>4, <4>3, <6>1, <6>2
          <6> QED
            BY <6>3, <6>4
        <5>3. n \in DOMAIN log'
          BY DEF Ordering
        <5> QED
          BY <2>8, <5>1, <5>2, <5>3
      <4>8. \A m \in G, n \in Ordering' : n < m => n \in G
        <5> SUFFICES ASSUME NEW m \in G, NEW n \in Ordering', n < m PROVE n \in G
          OBVIOUS
        <5>1. n # N
          BY <2>1, <2>8, <4>5
        <5> QED
          BY <2>16, <4>3, <5>1
      <4>9. g.frame = f /\ (w.frame <= f \/ (w.frame = f + 1 /\ ~(g.paused /\ ~g.forJoin)))
        <5>1. w.frame \in Nat
          BY <3>1 DEF w
        <5>2. CASE game.paused
          BY <1>3, <2>4, <4>3, <5>2
        <5>3. CASE ~game.paused
          BY <1>3, <2>1, <2>4, <4>3, <5>1, <5>3
        <5> QED
          BY <5>2, <5>3
      <4>10. ASSUME NEW n \in DOMAIN log', log'[n].frame > w.frame PROVE n \in Pending(x)'
        <5>1. CASE n \in DOMAIN log
          BY <2>7, <3>7, <4>3, <4>10, <5>1
        <5>2. CASE n = N
          <6>1. f > w.frame
            BY <2>6, <2>7, <4>10, <5>2
          <6>2. ready[x]
            BY <2>1, <2>21, <4>2, <4>4, <6>1
          <6> QED
            BY <3>7, <5>2, <6>2
        <5> QED
          BY <2>8, <5>1, <5>2
      <4>11. \/ \E n \in G : log'[n].frame = w.frame
             \/ \A n \in DOMAIN log' : log'[n].frame = w.frame => n \in Pending(x)'
        <5>1. CASE \E n \in G : log[n].frame = w.frame
          BY <4>5, <5>1
        <5>2. CASE ~ \E n \in G : log[n].frame = w.frame
          BY <2>7, <2>8, <3>7, <4>3, <4>4, <5>2
        <5> QED
          BY <5>1, <5>2
      <4>12. \A n \in G : /\ Held(n)' = Held(n) /\ log'[n].frame = log[n].frame
        BY <2>10, <4>5
      <4>13. world'[x] = w /\ Range(w.given) = G /\ game' = g
        BY <1>1, <3>7 DEF G, w
      <4> QED
        BY <4>3, <4>6, <4>7, <4>8, <4>9, <4>10, <4>11, <4>12, <4>13 DEF ClientInv
    <3> QED
      BY <3>4, <3>5, <3>6, <3>8, <3>9 DEF PerSlot
  <2> QED
    BY <1>4, <2>19, <2>22, <2>23, <2>24 DEF IInv
<1> QED
  BY <1>2, <1>5, <1>6

-----------------------------------------------------------------------------
(* The invariant. *)

\* A world before its first frame.
LEMMA NoGameWith ==
    ASSUME NEW b \in BOOLEAN
    PROVE  LET w == [NoGame EXCEPT !.passed = b]
           IN  /\ w \in World /\ w.frame = 0 /\ w.given = <<>> /\ w.cached = <<>>
               /\ ~b => w = NoGame
<1>1. NoGame \in World /\ NoGame.frame = 0 /\ NoGame.given = <<>> /\ NoGame.cached = <<>>
      /\ NoGame.passed = FALSE
  BY DEF NoGame, World
<1>2. \A x \in World :
          LET w == [x EXCEPT !.passed = b]
          IN  /\ w \in World /\ w.frame = x.frame /\ w.given = x.given /\ w.cached = x.cached
              /\ b = x.passed => w = x
  BY DEF World
<1>3. ~b => b = FALSE
  OBVIOUS
<1> QED
  BY <1>1, <1>2, <1>3

LEMMA InitInv ==
    ASSUME Init
    PROVE  IInv
<1>1. log = <<>> /\ DOMAIN log = {} /\ Len(log) = 0 /\ Ordering = {}
  BY DEF Init, Ordering
<1>2. Types
  <2>1. world \in [Slot -> World]
    <3>1. ASSUME NEW s \in Slot PROVE [NoGame EXCEPT !.passed = s \in Veteran] \in World
      <4>1. (s \in Veteran) \in BOOLEAN
        OBVIOUS
      <4> QED
        BY <4>1, NoGameWith
    <3>2. world = [s \in Slot |-> [NoGame EXCEPT !.passed = s \in Veteran]]
      BY DEF Init
    <3> QED
      BY <3>1, <3>2, Zenon
  <2>2. game \in Game /\ saved \in [frame : Nat, given : Nat]
    BY DEF Init, Game
  <2>3. /\ requested \in Seq(Cmd) /\ log \in Seq(Entry)
        /\ toServer \in [Slot -> Seq(Cmd \cup {"launch", "ready"})]
        /\ toClient \in [Slot -> Seq(Nat)]
    BY DEF Init
  <2>4. uuid \in [Slot -> Slot \cup {None}] /\ moveTo \in [Slot -> Slot \cup {None}]
    BY DEF Init
  <2>5. stage \in [Slot -> Stage]
    BY DEF Init, Stage
  <2> QED
    BY <2>1, <2>2, <2>3, <2>4, <2>5 DEF Init, Types
<1>3. RequestInv
  BY DEF Init, RequestInv
<1>4. \A s \in Slot : ~HasSave(s)
  BY DEF Init, HasSave, Loaded, Told
<1>5. HostInv
  BY <1>1, <1>4 DEF Init, HostInv
<1>6. LogInv
  BY <1>1 DEF Init, LogInv
<1>7. ASSUME NEW s \in Slot PROVE PerSlot(s)
  <2>1. /\ connected[s] = (s \in Veteran) /\ ready[s] = (s \in Veteran)
        /\ ~joining[s] /\ ~granted[s] /\ toServer[s] = <<>> /\ toClient[s] = <<>>
        /\ stage[s] = IF s \in Veteran THEN "playing" ELSE "out"
    BY DEF Init
  <2>2. /\ world[s].frame = 0 /\ world[s].given = <<>> /\ world[s].cached = <<>>
        /\ s \notin Veteran => world[s] = NoGame
    <3> DEFINE b == s \in Veteran
    <3>1. world[s] = [NoGame EXCEPT !.passed = b]
      BY DEF Init
    <3>2. b \in BOOLEAN
      OBVIOUS
    <3>3. b <=> s \in Veteran
      OBVIOUS
    <3> HIDE DEF b
    <3> QED
      BY <3>1, <3>2, <3>3, NoGameWith
  <2>3. SlotInv(s)
    <3>1. CASE s \in Veteran
      <4>1. connected[s] /\ ready[s] /\ stage[s] = "playing"
        BY <2>1, <3>1
      <4> QED
        BY <2>1, <4>1 DEF SlotInv
    <3>2. CASE s \notin Veteran
      <4>1. ~connected[s] /\ ~ready[s] /\ stage[s] = "out" /\ world[s] = NoGame
        BY <2>1, <2>2, <3>2
      <4> QED
        BY <2>1, <4>1 DEF SlotInv
    <3> QED
      BY <3>1, <3>2
  <2>4. SaveInv(s) /\ LoadedInv(s)
    BY <2>1 DEF SaveInv, LoadedInv, Told, Loaded
  <2>5. Range(world[s].given) = {} /\ Pending(s) = {} /\ Under(s) = {}
    BY <2>1, <2>2 DEF Pending, Under, Range
  <2>6. ListInv(s)
    BY <2>1, <2>2, <2>5 DEF ListInv, Range
  <2>7. game.frame = 0
    BY DEF Init
  <2>8. ClientInv(s)
    BY <1>1, <2>1, <2>2, <2>5, <2>7 DEF ClientInv
  <2> QED
    BY <2>3, <2>4, <2>6, <2>8 DEF PerSlot
<1> QED
  BY <1>2, <1>3, <1>5, <1>6, <1>7 DEF IInv

LEMMA NextKeeps ==
    ASSUME IInv, [Next]_vars
    PROVE  IInv'
<1>1. CASE HostStep
  BY <1>1, ServerFrameKeeps, UpdateBetweenFramesKeeps, JoinUpdateKeeps, RequestResumeKeeps,
     SaveGameKeeps, SendSaveKeeps DEF HostStep
<1>2. CASE HostOrder \/ HostToggle
  BY <1>2, HostOrderKeeps, HostToggleKeeps
<1>3. ASSUME NEW s \in Slot, Newcomer(s) PROVE IInv'
  <2>1. CASE RefuseLaunch(s)
    BY <2>1, CloseKeeps DEF RefuseLaunch
  <2> QED
    BY <1>3, <2>1, SlotIntroKeeps, SwitchSlotKeeps, SlotReceiveKeeps, LobbyReadyKeeps,
       LoadKeeps, StartPlayingKeeps DEF Newcomer
<1>4. ASSUME NEW s \in Slot, Play(s) PROVE IInv'
  <2>1. CASE QuitOnReady(s)
    BY <2>1, CloseKeeps DEF QuitOnReady
  <2> QED
    BY <1>4, <2>1, ReceiveListKeeps, GiveKeeps, MoveKeeps DEF Play
<1>5. ASSUME NEW s \in Slot, Disconnect(s) PROVE IInv'
  BY <1>5, CloseKeeps DEF Disconnect
<1>6. CASE UNCHANGED vars
  <2>1. UNCHANGED <<flags, who, wires, peers, host>>
    BY <1>6 DEF vars
  <2>2. Types'
    BY <2>1 DEF IInv, Types, flags, who, wires, peers, host
  <2>3. (\E s \in Slot : HasSave(s)) =>
            at' # "unpausing" /\ \A i \in DOMAIN requested' : requested'[i] # "joinResume"
    BY <2>1 DEF IInv, HostInv, host
  <2>4. RequestInv'
    BY <2>1 DEF IInv, RequestInv, host
  <2>5. /\ at' \in {"unpausing", "saving", "sending"} => game.forJoin
        /\ at' = "sending" => saved = [frame |-> game.frame, given |-> Len(log)]
    BY <2>1 DEF IInv, HostInv, host
  <2> QED
    BY <2>1, <2>2, <2>3, <2>4, <2>5, SameGame DEF flags, who, host
<1> QED
  BY <1>1, <1>2, <1>3, <1>4, <1>5, <1>6, AcceptKeeps, LaunchKeeps, ClientOrderKeeps DEF Next

\* IInv is an inductive invariant.
THEOREM Invariant == Spec => []IInv
<1>1. Init => IInv
  BY InitInv
<1>2. IInv /\ [Next]_vars => IInv'
  BY NextKeeps
<1> QED
  BY <1>1, <1>2, PTL DEF Spec

-----------------------------------------------------------------------------
(* What the invariant says of the properties. *)

\* The variables keep their types: what is under way to a client, in its cache or given
\* to its world are lists that the server has broadcast (TypeOK).
THEOREM TypeCorrect == Spec => []TypeOK
<1>1. ASSUME IInv PROVE TypeOK
  <2>1. Types /\ \A s \in Slot : PerSlot(s)
    BY <1>1 DEF IInv
  <2>2. Len(log) \in Nat /\ DOMAIN log = 1 .. Len(log)
    BY <2>1, LogTypes
  <2>3. \A f \in {connected, ready, joining, launch, setup, unPause, sentSave, granted} :
            f \in [Slot -> BOOLEAN]
    BY <2>1 DEF Types
  <2>4. ASSUME NEW s \in Slot
        PROVE  /\ toClient[s] \in Seq(0 .. Len(log))
               /\ world[s].frame \in Nat /\ world[s].paused \in BOOLEAN
               /\ world[s].given \in Seq(DOMAIN log)
               /\ world[s].cached \in Seq(DOMAIN log)
    <3> DEFINE c == toClient[s]
               w == world[s]
    <3>1. c \in Seq(Nat) /\ w \in World
      BY <2>1 DEF Types
    <3>2. /\ w.frame \in Nat /\ w.paused \in BOOLEAN
          /\ w.given \in Seq(Nat) /\ w.cached \in Seq(Nat)
      BY <3>1 DEF World
    <3>3. \A i \in DOMAIN c : c[i] = 0 \/ c[i] \in DOMAIN log
      <4>1. CASE ~ready[s]
        BY <2>1, <4>1 DEF PerSlot, SlotInv
      <4>2. CASE ready[s]
        <5>1. Loaded(s)
          BY <2>1, <4>2 DEF PerSlot, SlotInv, Loaded
        <5>2. Under(s) \subseteq DOMAIN log
          BY <2>1, <5>1 DEF PerSlot, ListInv, Pending
        <5> QED
          BY <5>2 DEF Under, Range
      <4> QED
        BY <4>1, <4>2
    <3>4. \A i \in DOMAIN c : c[i] \in 0 .. Len(log)
      BY <2>2, <3>3
    <3>5. /\ \A i \in DOMAIN w.given : w.given[i] \in DOMAIN log
          /\ \A i \in DOMAIN w.cached : w.cached[i] \in DOMAIN log
      <4>1. CASE Loaded(s)
        BY <2>1, <4>1 DEF PerSlot, ListInv, Pending, Range
      <4>2. CASE ~Loaded(s)
        <5>1. w.given = <<>> /\ w.cached = <<>>
          BY <2>1, <4>2 DEF PerSlot, SlotInv, Loaded, NoGame
        <5> QED
          BY <5>1
      <4> QED
        BY <4>1, <4>2
    <3> HIDE DEF c, w
    <3>6. \A S, q : q \in Seq(Nat) /\ (\A i \in DOMAIN q : q[i] \in S) => q \in Seq(S)
      OBVIOUS
    <3>7. c \in Seq(0 .. Len(log))
      BY <3>1, <3>4, <3>6
    <3>8. w.given \in Seq(DOMAIN log) /\ w.cached \in Seq(DOMAIN log)
      BY <3>2, <3>5, <3>6
    <3> QED
      BY <3>2, <3>7, <3>8 DEF c, w
  <2>5. toClient \in [Slot -> Seq(0 .. Len(log))]
    BY <2>1, <2>4 DEF Types
  <2>6. saved.given \in 0 .. Len(log)
    <3>1. saved.given \in Nat /\ saved.given <= Len(log)
      BY <1>1 DEF IInv, Types, HostInv
    <3> QED
      BY <2>2, <3>1
  <2> QED
    BY <2>1, <2>3, <2>4, <2>5, <2>6 DEF Types, TypeOK, Game
<1> QED
  BY <1>1, Invariant, PTL

\* The worlds agree: whoever plays, from the start or through the saved game, has been
\* given the host's orders in the server's order, each once and none left out in between
\* (WorldsAgree).
THEOREM WorldsAgreeHolds == Spec => []WorldsAgree
<1>1. ASSUME IInv PROVE WorldsAgree
  <2> SUFFICES ASSUME NEW s \in Slot, stage[s] = "playing",
                      NEW i \in DOMAIN world[s].given, HasOrder(world[s].given[i])
               PROVE  {world[s].given[j] : j \in 1 .. i - 1} \cap Ordering
                          = (1 .. world[s].given[i] - 1) \cap Ordering
    BY DEF WorldsAgree
  <2> DEFINE q == world[s].given
  <2>1. /\ Types /\ ListInv(s) /\ ClientInv(s) /\ Loaded(s)
    BY <1>1 DEF IInv, PerSlot, Loaded
  <2>2. q \in Seq(Nat)
    BY <2>1 DEF Types, World
  <2>3. /\ Range(q) \subseteq DOMAIN log
        /\ \A j, k \in DOMAIN q : j < k => q[j] < q[k]
        /\ \A m \in Range(q), n \in Ordering : n < m => n \in Range(q)
    BY <2>1 DEF ListInv, ClientInv
  <2>4. \A n \in DOMAIN log : n \in Nat \ {0}
    BY <2>1, LogTypes
  <2>5. Ordering \subseteq DOMAIN log
    BY DEF Ordering
  <2> HIDE DEF q
  <2>6. /\ DOMAIN q = 1 .. Len(q) /\ Len(q) \in Nat
        /\ \A j \in DOMAIN q : q[j] \in Nat \ {0} /\ q[j] \in Range(q)
    BY <2>2, <2>3, <2>4 DEF Range
  <2>7. i \in DOMAIN q
    BY DEF q
  <2>8. ASSUME NEW j \in 1 .. i - 1 PROVE q[j] \in 1 .. q[i] - 1
    <3>1. j \in DOMAIN q /\ j < i
      BY <2>6, <2>7
    <3> QED
      BY <2>3, <2>6, <2>7, <3>1
  <2>9. ASSUME NEW n \in Ordering, n < q[i] PROVE \E j \in 1 .. i - 1 : n = q[j]
    <3>1. PICK j \in DOMAIN q : n = q[j]
      BY <2>3, <2>6, <2>7, <2>9 DEF Range
    <3>2. ~ (i <= j)
      BY <2>3, <2>6, <2>7, <2>9, <3>1
    <3> QED
      BY <2>6, <2>7, <3>1, <3>2
  <2>10. \A n \in Ordering : n \in 1 .. q[i] - 1 => n < q[i]
    BY <2>6, <2>7
  <2> QED
    BY <2>8, <2>9, <2>10 DEF q
<1> QED
  BY <1>1, Invariant, PTL

\* No world leaves a frame without the orders the host gave at that frame
\* (NothingLeftBehind).
THEOREM NothingLeftBehindHolds == Spec => []NothingLeftBehind
<1>1. ASSUME IInv PROVE NothingLeftBehind
  <2> SUFFICES ASSUME NEW s \in Slot, stage[s] = "playing"
               PROVE  \A n \in Ordering :
                          log[n].frame < world[s].frame => n \in Range(world[s].given)
    BY DEF NothingLeftBehind
  <2> QED
    BY <1>1 DEF IInv, PerSlot, Loaded, ClientInv
<1> QED
  BY <1>1, Invariant, PTL

\* The server's world does not move on while a client that has the saved game is not yet
\* in the game (StandsStillForNewcomer): the join pause stands, because its end is not
\* requested and the host's own resume is refused.
THEOREM StandsStillHolds == Spec => StandsStillForNewcomer
<1>1. ASSUME IInv, [Next]_vars, NEW s \in Slot, stage[s] = "barrier", ~ready[s]
      PROVE  game'.frame = game.frame
  <2>1. HasSave(s)
    BY <1>1 DEF HasSave, Loaded
  <2>2. game.paused /\ game \in Game
    BY <1>1, <2>1 DEF IInv, HostInv, Types
  <2>3. CASE ServerFrame
    <3>1. game' = NewGame
      BY <2>3 DEF ServerFrame, NewGame, NewFrame
    <3>2. NewGame.frame = game.frame
      BY <1>1, <2>2, NewList DEF NewFrame
    <3> QED
      BY <3>1, <3>2
  <2>4. \A b \in BOOLEAN : /\ [game EXCEPT !.pauseSent = b].frame = game.frame
                           /\ [game EXCEPT !.resumeSent = b].frame = game.frame
    BY <2>2 DEF Game
  <2>5. CASE JoinUpdate
    BY <2>4, <2>5 DEF JoinUpdate, AfterFlags
  <2>6. CASE RequestResume
    BY <2>4, <2>6 DEF RequestResume
  <2>7. CASE UpdateBetweenFrames \/ SaveGame \/ SendSave \/ HostOrder \/ HostToggle
    BY <2>7 DEF UpdateBetweenFrames, SaveGame, SendSave, HostOrder, HostToggle
  <2>8. ASSUME NEW x \in Slot, \/ Accept(x) \/ Launch(x) \/ Newcomer(x) \/ Play(x)
                                \/ ClientOrder(x) \/ Disconnect(x)
        PROVE  game' = game
    BY <2>8 DEF Accept, Launch, Newcomer, SlotIntro, SwitchSlot, RefuseLaunch, SlotReceive,
       LobbyReady, Load, StartPlaying, Play, ReceiveList, QuitOnReady, Give, Move,
       ClientOrder, Disconnect, host
  <2>9. CASE UNCHANGED vars
    BY <2>9 DEF vars, host
  <2> QED
    BY <1>1, <2>3, <2>5, <2>6, <2>7, <2>8, <2>9 DEF Next, HostStep
<1>2. IInv /\ [Next]_vars
          => [(\E s \in Slot : stage[s] = "barrier" /\ ~ready[s])
                 => game'.frame = game.frame]_vars
  BY <1>1
<1> QED
  BY <1>2, Invariant, PTL DEF Spec, StandsStillForNewcomer

\* Whoever is on the way into the game or in it keeps its slot until it leaves
\* (KeepsItsSlot): what is known of a slot changes only while nobody is in it.
THEOREM KeepsItsSlotHolds == Spec => KeepsItsSlot
<1>1. ASSUME IInv, [Next]_vars, NEW s \in Slot, stage[s] \in {"barrier", "playing"}
      PROVE  stage'[s] = "out" \/ uuid'[s] = uuid[s]
  <2>1. Types /\ connected[s]
    BY <1>1 DEF IInv, PerSlot, SlotInv
  <2>2. ASSUME NEW x \in Slot, Accept(x) PROVE uuid'[s] = uuid[s]
    BY <2>1, <2>2 DEF Accept, Types
  <2>3. ASSUME NEW x \in Slot, SlotIntro(x) PROVE uuid'[s] = uuid[s]
    BY <1>1, <2>1, <2>3 DEF SlotIntro, Types
  <2>4. ASSUME NEW x \in Slot, SwitchSlot(x)
        PROVE  stage'[s] = "out" \/ uuid'[s] = uuid[s]
    <3> DEFINE t == moveTo[x]
               Other(y) == IF y = x THEN t ELSE IF y = t THEN x ELSE y
    <3>1. t \in Slot
      BY <2>1, <2>4 DEF SwitchSlot, Types
    <3>2. CASE connected[t]
      BY <2>4, <3>2 DEF SwitchSlot
    <3>3. CASE ~connected[t]
      <4>1. stage[t] = "out" /\ t # s
        BY <1>1, <2>1, <3>1, <3>3 DEF IInv, PerSlot, SlotInv
      <4>2. uuid'[s] = uuid[Other(s)] /\ stage'[s] = stage[Other(s)]
        BY <2>4, <3>3 DEF SwitchSlot
      <4> QED
        BY <4>1, <4>2
    <3> QED
      BY <3>2, <3>3
  <2>5. ASSUME HostStep \/ HostOrder \/ HostToggle PROVE uuid' = uuid
    BY <2>5 DEF HostStep, ServerFrame, UpdateBetweenFrames, JoinUpdate, RequestResume,
       SaveGame, SendSave, HostOrder, HostToggle, who
  <2>6. ASSUME NEW x \in Slot, \/ Launch(x) \/ RefuseLaunch(x) \/ SlotReceive(x)
                                \/ LobbyReady(x) \/ Load(x) \/ StartPlaying(x) \/ Play(x)
                                \/ ClientOrder(x) \/ Disconnect(x)
        PROVE  uuid' = uuid
    BY <2>6 DEF Launch, RefuseLaunch, SlotReceive, LobbyReady, Load, StartPlaying, Play,
       ReceiveList, QuitOnReady, Give, Move, ClientOrder, Disconnect, Close, who
  <2>7. CASE UNCHANGED vars
    BY <2>7 DEF vars, who
  <2> QED
    BY <1>1, <2>2, <2>3, <2>4, <2>5, <2>6, <2>7 DEF Next, Newcomer
<1>2. IInv /\ [Next]_vars
          => [\A s \in Slot : stage[s] \in {"barrier", "playing"}
                 => stage'[s] = "out" \/ uuid'[s] = uuid[s]]_vars
  BY <1>1
<1> QED
  BY <1>2, Invariant, PTL DEF Spec, KeepsItsSlot

-----------------------------------------------------------------------------
(* The pause of the only client. *)

\* The pause after the first k of the commands q when it was b before them: what the last
\* of them that is no order says.
SettlesTo(q, k, b, r) ==
    \/ (r <=> b) /\ \A i \in 1 .. k : q[i] \in Orders
    \/ \E i \in 1 .. k : /\ q[i] \notin Orders /\ (r <=> IsPause(q[i]))
                         /\ \A j \in i + 1 .. k : q[j] \in Orders
Settles(q, b, r) == SettlesTo(q, Len(q), b, r)

LEMMA SettlesStep ==
    ASSUME NEW q, NEW k \in Nat \ {0}, NEW b, NEW r, NEW t, SettlesTo(q, k - 1, b, r),
           \/ q[k] \in Orders /\ (t <=> r)
           \/ q[k] \notin Orders /\ (t <=> IsPause(q[k]))
    PROVE  SettlesTo(q, k, b, t)
<1>1. CASE q[k] \notin Orders
  <2>1. k \in 1 .. k /\ (t <=> IsPause(q[k])) /\ \A j \in k + 1 .. k : q[j] \in Orders
    BY <1>1
  <2> QED
    BY <1>1, <2>1 DEF SettlesTo
<1>2. CASE q[k] \in Orders
  <2>1. \A j \in 1 .. k : j \in 1 .. k - 1 \/ j = k
    OBVIOUS
  <2>2. CASE (r <=> b) /\ \A i \in 1 .. k - 1 : q[i] \in Orders
    BY <1>2, <2>1, <2>2 DEF SettlesTo
  <2>3. ASSUME NEW i \in 1 .. k - 1, q[i] \notin Orders, r <=> IsPause(q[i]),
               \A j \in i + 1 .. k - 1 : q[j] \in Orders
        PROVE  SettlesTo(q, k, b, t)
    <3>1. i \in 1 .. k /\ \A j \in i + 1 .. k : j \in i + 1 .. k - 1 \/ j = k
      OBVIOUS
    <3> QED
      BY <1>2, <2>3, <3>1 DEF SettlesTo
  <2> QED
    BY <2>2, <2>3 DEF SettlesTo
<1> QED
  BY <1>1, <1>2

\* It is one pause.
LEMMA SettlesOnce ==
    ASSUME NEW q \in Seq(Cmd), NEW b, NEW r, NEW t, Settles(q, b, r), Settles(q, b, t)
    PROVE  r <=> t
<1> DEFINE k == Len(q)
<1>1. k \in Nat
  OBVIOUS
<1> HIDE DEF k
<1>2. SettlesTo(q, k, b, r) /\ SettlesTo(q, k, b, t)
  BY DEF Settles, k
<1>3. CASE \A i \in 1 .. k : q[i] \in Orders
  BY <1>2, <1>3 DEF SettlesTo
<1>4. CASE \E i \in 1 .. k : q[i] \notin Orders
  <2>1. PICK i \in 1 .. k : /\ q[i] \notin Orders /\ (r <=> IsPause(q[i]))
                            /\ \A j \in i + 1 .. k : q[j] \in Orders
    BY <1>2, <1>4 DEF SettlesTo
  <2>2. PICK j \in 1 .. k : /\ q[j] \notin Orders /\ (t <=> IsPause(q[j]))
                            /\ \A l \in j + 1 .. k : q[l] \in Orders
    BY <1>2, <1>4 DEF SettlesTo
  <2>3. j \notin i + 1 .. k /\ i \notin j + 1 .. k
    BY <2>1, <2>2
  <2>4. i = j
    BY <1>1, <2>3
  <2> QED
    BY <2>1, <2>2, <2>4
<1> QED
  BY <1>3, <1>4

LEMMA SettlesConcat ==
    ASSUME NEW q \in Seq(Cmd), NEW p \in Seq(Cmd), NEW a, NEW b, NEW c,
           Settles(q, a, b), Settles(p, b, c)
    PROVE  Settles(q \o p, a, c)
<1> DEFINE m == Len(q)
           n == Len(p)
           x == q \o p
<1>1. /\ m \in Nat /\ n \in Nat /\ Len(x) = m + n
      /\ \A i \in 1 .. m : x[i] = q[i]
      /\ \A i \in 1 .. n : x[m + i] = p[i]
  OBVIOUS
<1> HIDE DEF m, n, x
<1>2. SettlesTo(q, m, a, b) /\ SettlesTo(p, n, b, c)
  BY DEF Settles, m, n
<1>3. \A i \in 1 .. m + n : i \in 1 .. m \/ (i - m \in 1 .. n /\ m + (i - m) = i)
  BY <1>1
<1>4. CASE (c <=> b) /\ \A i \in 1 .. n : p[i] \in Orders
  <2>1. \A i \in m + 1 .. m + n : x[i] \in Orders
    <3> TAKE i \in m + 1 .. m + n
    <3>1. i - m \in 1 .. n /\ m + (i - m) = i
      BY <1>1
    <3> QED
      BY <1>1, <1>4, <3>1
  <2>2. CASE (b <=> a) /\ \A i \in 1 .. m : q[i] \in Orders
    <3>1. \A i \in 1 .. m + n : i \in 1 .. m \/ i \in m + 1 .. m + n
      BY <1>1
    <3>2. \A i \in 1 .. m + n : x[i] \in Orders
      BY <1>1, <2>1, <2>2, <3>1
    <3> QED
      BY <1>1, <1>4, <2>2, <3>2 DEF SettlesTo, Settles, x
  <2>3. ASSUME NEW i \in 1 .. m, q[i] \notin Orders, b <=> IsPause(q[i]),
               \A j \in i + 1 .. m : q[j] \in Orders
        PROVE  SettlesTo(x, m + n, a, c)
    <3>1. i \in 1 .. m + n /\ x[i] = q[i]
      BY <1>1
    <3>2. \A j \in i + 1 .. m + n : j \in i + 1 .. m \/ j \in m + 1 .. m + n
      BY <1>1
    <3>3. \A j \in i + 1 .. m : j \in 1 .. m
      BY <1>1
    <3>4. \A j \in i + 1 .. m + n : x[j] \in Orders
      BY <1>1, <2>1, <2>3, <3>2, <3>3
    <3> QED
      BY <1>4, <2>3, <3>1, <3>4 DEF SettlesTo
  <2> QED
    BY <1>1, <1>2, <2>2, <2>3 DEF SettlesTo, Settles, x
<1>5. ASSUME NEW i \in 1 .. n, p[i] \notin Orders, c <=> IsPause(p[i]),
             \A j \in i + 1 .. n : p[j] \in Orders
      PROVE  SettlesTo(x, m + n, a, c)
  <2>1. m + i \in 1 .. m + n /\ x[m + i] = p[i]
    BY <1>1
  <2>2. \A j \in m + i + 1 .. m + n : x[j] \in Orders
    <3> TAKE j \in m + i + 1 .. m + n
    <3>1. j - m \in i + 1 .. n /\ j - m \in 1 .. n /\ m + (j - m) = j
      BY <1>1
    <3> QED
      BY <1>1, <1>5, <3>1
  <2> QED
    BY <1>5, <2>1, <2>2 DEF SettlesTo
<1> QED
  BY <1>1, <1>2, <1>4, <1>5 DEF SettlesTo, Settles, x

\* A server that refuses nothing and a client are paused by the commands alike.
LEMMA ServerSettles ==
    ASSUME NEW g \in Game, NEW q \in Seq(Cmd), \A s \in Slot : connected[s] => ready[s]
    PROVE  Settles(q, g.paused, FoldLeft(ServerPaused, g, q).paused)
<1> DEFINE n == Len(q)
           Q == [i \in 0 .. n |-> {x \in Game : SettlesTo(q, i, g.paused, x.paused)}]
<1>1. n \in Nat /\ \A i \in 1 .. n : q[i] \in Cmd
  OBVIOUS
<1>2. Q \in [0 .. n -> SUBSET Game]
  OBVIOUS
<1>3. g \in Q[0]
  BY <1>1 DEF SettlesTo
<1>4. ASSUME NEW i \in 1 .. n, NEW x \in Q[i - 1]
      PROVE  ServerPaused(x, q[i]) \in Q[i]
  <2> DEFINE y == ServerPaused(x, q[i])
  <2>1. x \in Game /\ q[i] \in Cmd /\ SettlesTo(q, i - 1, g.paused, x.paused)
        /\ i \in Nat \ {0} /\ i \in 0 .. n
    BY <1>1
  <2>2. y \in Game
    BY <2>1, ServerPausedType
  <2>3. ~Refused(x, q[i])
    BY DEF Refused
  <2>4. \/ q[i] \in Orders /\ (y.paused <=> x.paused)
        \/ q[i] \notin Orders /\ (y.paused <=> IsPause(q[i]))
    BY <2>1, <2>3, ServerStep
  <2> HIDE DEF y
  <2>5. SettlesTo(q, i, g.paused, y.paused)
    BY <2>1, <2>4, SettlesStep
  <2> QED
    BY <2>1, <2>2, <2>5 DEF y
<1> HIDE DEF Q
<1>5. FoldLeft(ServerPaused, g, q) \in Q[n]
  BY <1>2, <1>3, <1>4, ServerStays
<1> QED
  BY <1>1, <1>5 DEF Q, Settles

LEMMA ClientSettles ==
    ASSUME NEW w \in World, NEW q \in Seq(Cmd)
    PROVE  Settles(q, w.paused, FoldLeft(ClientPaused, w, q).paused)
<1> DEFINE n == Len(q)
           Q == [i \in 0 .. n |-> {x \in World : SettlesTo(q, i, w.paused, x.paused)}]
<1>1. n \in Nat /\ \A i \in 1 .. n : q[i] \in Cmd
  OBVIOUS
<1>2. Q \in [0 .. n -> SUBSET World]
  OBVIOUS
<1>3. w \in Q[0]
  BY <1>1 DEF SettlesTo
<1>4. ASSUME NEW i \in 1 .. n, NEW x \in Q[i - 1]
      PROVE  ClientPaused(x, q[i]) \in Q[i]
  <2> DEFINE y == ClientPaused(x, q[i])
  <2>1. x \in World /\ q[i] \in Cmd /\ SettlesTo(q, i - 1, w.paused, x.paused)
        /\ i \in Nat \ {0} /\ i \in 0 .. n
    BY <1>1
  <2>2. y \in World
    BY <2>1, ClientPausedType
  <2>3. \/ q[i] \in Orders /\ (y.paused <=> x.paused)
        \/ q[i] \notin Orders /\ (y.paused <=> IsPause(q[i]))
    BY <2>1, ClientStep
  <2> HIDE DEF y
  <2>4. SettlesTo(q, i, w.paused, y.paused)
    BY <2>1, <2>3, SettlesStep
  <2> QED
    BY <2>1, <2>2, <2>4 DEF y
<1> HIDE DEF Q
<1>5. FoldLeft(ClientPaused, w, q) \in Q[n]
  BY <1>2, <1>3, <1>4, ClientStays
<1> QED
  BY <1>1, <1>5 DEF Q, Settles

\* The commands of several lists one after the other.
LEMMA SettlesFlatten ==
    ASSUME NEW ss \in Seq(Seq(Cmd)), NEW P \in [0 .. Len(ss) -> BOOLEAN],
           \A i \in 1 .. Len(ss) : Settles(ss[i], P[i - 1], P[i])
    PROVE  Settles(FlattenSeq(ss), P[0], P[Len(ss)])
<1> DEFINE n == Len(ss)
<1>1. PICK f : FlattenSteps(f, ss, Cmd) /\ f[n] = FlattenSeq(ss)
  BY FlattenTrace
<1>2. /\ f \in [0 .. n -> Seq(Cmd)]
      /\ f[0] = <<>>
      /\ \A i \in 1 .. n : f[i] = f[i - 1] \o ss[i]
  BY <1>1 DEF FlattenSteps
<1>3. n \in Nat /\ \A i \in 1 .. n : ss[i] \in Seq(Cmd) /\ Settles(ss[i], P[i - 1], P[i])
  OBVIOUS
<1> HIDE DEF n
<1> DEFINE T == {i \in Nat : i <= n => Settles(f[i], P[0], P[i])}
<1>4. 0 \in T
  <2>1. Len(<<>>) = 0 /\ 1 .. 0 = {}
    OBVIOUS
  <2> QED
    BY <1>2, <2>1 DEF Settles, SettlesTo
<1>5. ASSUME NEW i \in Nat, i \in T PROVE i + 1 \in T
  <2> SUFFICES ASSUME i + 1 <= n
               PROVE  Settles(f[i + 1], P[0], P[i + 1])
    OBVIOUS
  <2>1. /\ i + 1 \in 1 .. n /\ (i + 1) - 1 = i /\ i \in 0 .. n
        /\ Settles(f[i], P[0], P[i])
    BY <1>3, <1>5
  <2>2. f[i] \in Seq(Cmd) /\ ss[i + 1] \in Seq(Cmd) /\ f[i + 1] = f[i] \o ss[i + 1]
        /\ Settles(ss[i + 1], P[i], P[i + 1])
    BY <1>2, <1>3, <2>1
  <2> QED
    BY <2>1, <2>2, SettlesConcat
<1> HIDE DEF T
<1>6. Nat \subseteq T
  BY <1>4, <1>5, Induction
<1>7. Settles(f[n], P[0], P[n])
  BY <1>3, <1>6 DEF T
<1> QED
  BY <1>1, <1>7 DEF n

\* An ascending list of the numbers from g to m has them one after the other.
LEMMA Consecutive ==
    ASSUME NEW q \in Seq(Nat), q # <<>>, NEW g \in Nat, NEW m \in Nat,
           \A i, j \in DOMAIN q : i < j => q[i] < q[j], Range(q) = g + 1 .. m
    PROVE  /\ Len(q) \in Nat \ {0} /\ DOMAIN q = 1 .. Len(q)
           /\ q[1] = g + 1 /\ q[Len(q)] = m
           /\ \A i \in 2 .. Len(q) : q[i] = q[i - 1] + 1
<1> DEFINE n == Len(q)
<1>1. n \in Nat \ {0} /\ DOMAIN q = 1 .. n /\ \A i \in 1 .. n : q[i] \in Nat
  OBVIOUS
<1>2. \A i \in 1 .. n : q[i] \in g + 1 .. m
  BY <1>1 DEF Range
<1>3. \A k \in g + 1 .. m : \E i \in 1 .. n : k = q[i]
  BY <1>1 DEF Range
<1> HIDE DEF n
<1>4. q[1] = g + 1
  <2>1. 1 \in 1 .. n /\ g + 1 \in g + 1 .. m
    BY <1>1, <1>2
  <2>2. PICK i \in 1 .. n : g + 1 = q[i]
    BY <1>3, <2>1
  <2>3. CASE 1 < i
    <3>1. q[1] < q[i] /\ q[1] \in g + 1 .. m
      BY <1>1, <1>2, <2>1, <2>3
    <3> QED
      BY <2>2, <3>1
  <2> QED
    BY <2>2, <2>3
<1>5. q[n] = m
  <2>1. n \in 1 .. n /\ q[n] \in g + 1 .. m /\ m \in g + 1 .. m
    BY <1>1, <1>2
  <2>2. PICK i \in 1 .. n : m = q[i]
    BY <1>3, <2>1
  <2>3. CASE i < n
    <3>1. q[i] < q[n]
      BY <1>1, <2>1, <2>3
    <3> QED
      BY <2>1, <2>2, <3>1
  <2> QED
    BY <1>1, <2>2, <2>3
<1>6. ASSUME NEW i \in 2 .. n PROVE q[i] = q[i - 1] + 1
  <2>1. i \in 1 .. n /\ i - 1 \in 1 .. n /\ i - 1 < i
    BY <1>1
  <2>2. /\ q[i - 1] < q[i] /\ q[i] \in g + 1 .. m /\ q[i - 1] \in g + 1 .. m
    BY <1>1, <1>2, <2>1
  <2>3. PICK j \in 1 .. n : q[i - 1] + 1 = q[j]
    <3>1. q[i - 1] + 1 \in g + 1 .. m
      BY <2>2
    <3> QED
      BY <1>3, <3>1
  <2>4. ~ (j < i)
    <3>1. CASE j < i - 1
      <4>1. q[j] < q[i - 1]
        BY <1>1, <2>1, <3>1
      <4> QED
        BY <2>2, <2>3, <4>1
    <3>2. CASE j = i - 1
      BY <2>2, <2>3, <3>2
    <3> QED
      BY <2>1, <3>1, <3>2
  <2>5. ~ (i < j)
    <3>1. CASE i < j
      <4>1. q[i] < q[i - 1] + 1
        BY <1>1, <2>1, <2>3, <3>1
      <4>2. q[i] \in Nat /\ q[i - 1] \in Nat /\ q[i - 1] < q[i]
        BY <1>1, <2>2
      <4> QED
        BY <4>1, <4>2
    <3> QED
      BY <3>1
  <2> QED
    BY <2>1, <2>3, <2>4, <2>5
<1> QED
  BY <1>1, <1>4, <1>5, <1>6 DEF n

\* Whether the server was paused after list n.
PausedBy(n) == n # 0 /\ log[n].paused

\* A frame gets another list only if the server was paused after the one before.
RepeatInv == \A m, n \in DOMAIN log : Before(m, n) => log[m].paused

\* The last list that a client was given.
Latest(s) == IF world[s].given = <<>> THEN 0 ELSE Last(world[s].given)

\* The lists that a client has not been given: up to g those it is never sent, because it
\* was not ready, all of them for a paused game; then those in its cache, up to h, and
\* those under way.
Split(s, g, h) ==
    LET w == world[s]
    IN  /\ g = Latest(s) \/ \A n \in Latest(s) .. g : PausedBy(n)
        /\ ~ready[s] => g = Len(log)
        /\ Range(w.cached) = g + 1 .. h
        /\ Under(s) = h + 1 .. Len(log)
        /\ \A n \in g + 1 .. Len(log) :
               /\ log[n].frame >= w.frame
               /\ Settles(log[n].cmds, PausedBy(n - 1), log[n].paused)

\* The only client of a game has been given a pause if the server was paused by the list.
Alone(s) ==
    /\ RepeatInv
    /\ Told(s) => \A n \in saved.given .. Len(log) : log[n].paused
    /\ Loaded(s) =>
           /\ world[s].paused <=> PausedBy(Latest(s))
           /\ world[s].paused => log[Latest(s)].frame = world[s].frame
           /\ \E g, h \in Nat : /\ Latest(s) <= g /\ g <= h /\ h <= Len(log)
                                /\ Split(s, g, h)

\* Nothing that counts changes.
LEMMA StillAlone ==
    ASSUME NEW s, Alone(s), log' = log,
           Told(s)' => \A n \in saved'.given .. Len(log) : log[n].paused,
           Loaded(s)' => /\ Loaded(s) /\ world'[s] = world[s] /\ Under(s)' = Under(s)
                         /\ ready[s] => ready'[s]
    PROVE  Alone(s)'
<1>1. RepeatInv'
  BY DEF Alone, RepeatInv, Before
<1>2. ASSUME Loaded(s)'
      PROVE  /\ (world[s].paused <=> PausedBy(Latest(s)))'
             /\ (world[s].paused => log[Latest(s)].frame = world[s].frame)'
             /\ \E g, h \in Nat : /\ Latest(s)' <= g /\ g <= h /\ h <= Len(log')
                                  /\ Split(s, g, h)'
  <2>1. Loaded(s) /\ world'[s] = world[s] /\ Under(s)' = Under(s) /\ (ready[s] => ready'[s])
    BY <1>2
  <2>2. Latest(s)' = Latest(s) /\ \A n : PausedBy(n)' = PausedBy(n)
    BY <2>1 DEF Latest, PausedBy
  <2>3. PICK g, h \in Nat : Latest(s) <= g /\ g <= h /\ h <= Len(log) /\ Split(s, g, h)
    BY <2>1 DEF Alone
  <2>4. Split(s, g, h)'
    BY <2>1, <2>2, <2>3 DEF Split
  <2> QED
    BY <2>1, <2>2, <2>3, <2>4 DEF Alone
<1> QED
  BY <1>1, <1>2 DEF Alone

\* A client alone is paused as the server was after the lists that it is not sent.
LEMMA AloneFacts ==
    ASSUME IInv, NEW s \in Slot, Alone(s), Loaded(s)
    PROVE  \E g, h \in Nat :
              /\ Latest(s) \in Nat /\ Latest(s) <= g /\ g <= h /\ h <= Len(log)
              /\ Split(s, g, h)
              /\ PausedBy(g) <=> PausedBy(Latest(s))
              /\ world[s].given # <<>> => Latest(s) \in Range(world[s].given)
              /\ \A n \in Range(world[s].given) : n <= Latest(s)
<1> DEFINE q == world[s].given
<1>1. /\ q \in Seq(Nat) /\ \A i, j \in DOMAIN q : i < j => q[i] < q[j]
      /\ Len(log) \in Nat
  BY LogTypes DEF IInv, Types, World, PerSlot, ListInv
<1>2. PICK g, h \in Nat : Latest(s) <= g /\ g <= h /\ h <= Len(log) /\ Split(s, g, h)
  BY DEF Alone
<1>3. Latest(s) = IF q = <<>> THEN 0 ELSE q[Len(q)]
  BY DEF Latest, Last
<1> HIDE DEF q
<1>4. /\ DOMAIN q = 1 .. Len(q) /\ Len(q) \in Nat /\ \A i \in DOMAIN q : q[i] \in Nat
      /\ q # <<>> => Len(q) \in DOMAIN q
  BY <1>1
<1>5. Latest(s) \in Nat /\ (q # <<>> => Latest(s) \in Range(q))
  BY <1>3, <1>4 DEF Range
<1>6. ASSUME NEW n \in Range(q) PROVE n <= Latest(s)
  <2>1. PICK i \in DOMAIN q : n = q[i]
    BY DEF Range
  <2>2. q # <<>> /\ Latest(s) = q[Len(q)]
    BY <1>3, <2>1
  <2>3. CASE i = Len(q)
    BY <1>4, <2>1, <2>2, <2>3
  <2>4. CASE i < Len(q)
    <3>1. q[i] < q[Len(q)]
      BY <1>1, <1>4, <2>2, <2>4
    <3> QED
      BY <1>4, <2>1, <2>2, <3>1
  <2> QED
    BY <1>4, <2>1, <2>3, <2>4
<1>7. PausedBy(g) <=> PausedBy(Latest(s))
  <2>1. CASE g = Latest(s)
    BY <2>1
  <2>2. CASE \A n \in Latest(s) .. g : PausedBy(n)
    <3>1. g \in Latest(s) .. g /\ Latest(s) \in Latest(s) .. g
      BY <1>2, <1>5
    <3> QED
      BY <2>2, <3>1
  <2> QED
    BY <1>2, <2>1, <2>2 DEF Split
<1> QED
  BY <1>2, <1>5, <1>6, <1>7 DEF q

\* The steps of a client that is not in the game, and the ends of its connection.
LEMMA OutsideAlone ==
    ASSUME IInv, IInv', NEW s \in Slot, Slot = {s}, Alone(s),
           \/ Accept(s) \/ SlotIntro(s) \/ SwitchSlot(s) \/ Launch(s) \/ LobbyReady(s)
           \/ RefuseLaunch(s) \/ QuitOnReady(s) \/ Disconnect(s)
    PROVE  Alone(s)'
<1>0. /\ Types /\ SlotInv(s) /\ SlotInv(s)' /\ UNCHANGED <<log, saved>>
  BY DEF IInv, PerSlot, Accept, SlotIntro, SwitchSlot, Launch, LobbyReady, RefuseLaunch,
     QuitOnReady, Disconnect, host
<1>1. CASE Accept(s) \/ RefuseLaunch(s) \/ QuitOnReady(s) \/ Disconnect(s)
  <2>1. CASE Accept(s)
    <3>1. ~connected[s] /\ stage[s] = "out" /\ ~granted[s] /\ toClient[s] = <<>>
      BY <1>0, <2>1 DEF Accept, SlotInv
    <3>2. toClient' = toClient /\ granted' = granted /\ stage'[s] = "connecting"
      BY <1>0, <2>1 DEF Accept, wires, Types
    <3>3. ~Told(s)' /\ ~Loaded(s)'
      BY <3>1, <3>2 DEF Told, Loaded
    <3> QED
      BY <1>0, <3>3, StillAlone
  <2>2. CASE Close(s)
    <3>1. ~connected'[s] /\ stage'[s] = "out"
      BY <1>0, <2>2 DEF Close, Types
    <3>2. ~Told(s)' /\ ~Loaded(s)'
      BY <3>1 DEF Told, Loaded
    <3> QED
      BY <1>0, <3>2, StillAlone
  <2> QED
    BY <1>1, <2>1, <2>2 DEF RefuseLaunch, QuitOnReady, Disconnect
<1>2. CASE SlotIntro(s)
  <2>1. stage[s] = "connecting" /\ stage'[s] = "lobby"
    BY <1>0, <1>2 DEF SlotIntro, Types
  <2>2. UNCHANGED <<connected, toClient, granted>> /\ ~ready[s]
    BY <1>0, <1>2, <2>1 DEF SlotIntro, wires, SlotInv
  <2>3. (Told(s)' => Told(s)) /\ ~Loaded(s)'
    BY <2>1, <2>2 DEF Told, Loaded
  <2> QED
    BY <1>0, <2>3, StillAlone DEF Alone
<1>3. CASE SwitchSlot(s)
  <2>1. moveTo[s] = s
    BY <1>0, <1>3 DEF SwitchSlot, Types
  <2>2. /\ connected'[s] = connected[s] /\ ready'[s] = ready[s] /\ granted'[s] = granted[s]
        /\ toClient'[s] = toClient[s] /\ stage'[s] = stage[s] /\ world'[s] = world[s]
    BY <1>3, <2>1 DEF SwitchSlot, flags, wires, peers
  <2> QED
    BY <1>0, <2>2, StillAlone DEF Alone, Told, Loaded, Under
<1>4. CASE Launch(s) \/ LobbyReady(s)
  <2>1. /\ stage[s] \in {"lobby", "launched"} /\ stage'[s] \in {"lobby", "launched"}
        /\ connected' = connected /\ ready' = ready
        /\ ~ready[s]
    BY <1>0, <1>4 DEF Launch, LobbyReady, flags, Types, SlotInv
  <2>2. Told(s)' => Told(s)
    <3>1. CASE Launch(s)
      BY <2>1, <3>1 DEF Launch, Told
    <3>2. CASE LobbyReady(s)
      BY <1>0, <2>1, <3>2 DEF LobbyReady, Told, SlotInv
    <3> QED
      BY <1>4, <3>1, <3>2
  <2>3. ~Loaded(s)'
    BY <2>1 DEF Loaded
  <2> QED
    BY <1>0, <2>2, <2>3, StillAlone DEF Alone
<1> QED
  BY <1>1, <1>2, <1>3, <1>4

\* Messages that are no command list.
LEMMA MessagesAlone ==
    ASSUME IInv, IInv', NEW s \in Slot, Alone(s),
           SlotReceive(s) \/ StartPlaying(s) \/ ClientOrder(s)
    PROVE  Alone(s)'
<1>0. /\ Types /\ SlotInv(s) /\ SlotInv(s)' /\ UNCHANGED <<log, saved, world, connected>>
      /\ toClient[s] \in Seq(Nat)
  BY DEF IInv, Types, PerSlot, SlotReceive, StartPlaying, ClientOrder, host, peers, flags
<1>1. CASE SlotReceive(s)
  <2>1. stage' = stage /\ granted' = granted
    BY <1>1 DEF SlotReceive, peers
  <2>2. \/ ready' = ready /\ toClient' = toClient
        \/ ready'[s] /\ toClient'[s] = Append(toClient[s], 0)
    BY <1>0, <1>1 DEF SlotReceive, Types, flags
  <2>3. Under(s)' = Under(s)
    <3>1. Range(Append(toClient[s], 0)) = Range(toClient[s]) \cup {0}
      <4> DEFINE q == toClient[s]
                 r == Append(q, 0)
      <4>1. /\ DOMAIN q = 1 .. Len(q) /\ DOMAIN r = 1 .. Len(q) + 1 /\ Len(q) \in Nat
            /\ \A i \in DOMAIN q : r[i] = q[i]
            /\ r[Len(q) + 1] = 0
        BY <1>0
      <4> HIDE DEF q, r
      <4>2. \A i \in DOMAIN r : r[i] \in Range(q) \cup {0}
        BY <4>1 DEF Range
      <4>3. 0 \in Range(r) /\ \A i \in DOMAIN q : q[i] \in Range(r)
        BY <4>1 DEF Range
      <4>4. Range(r) = Range(q) \cup {0}
        BY <4>2, <4>3 DEF Range
      <4> QED
        BY <4>4 DEF q, r
    <3> QED
      BY <2>2, <3>1 DEF Under
  <2>4. Told(s)' => Told(s)
    BY <1>0, <2>1, <2>2 DEF Told
  <2> QED
    BY <1>0, <2>1, <2>2, <2>3, <2>4, StillAlone DEF Alone, Loaded
<1>2. CASE StartPlaying(s)
  <2>1. /\ stage[s] = "barrier" /\ toClient[s] # <<>> /\ toClient'[s] = Tail(toClient[s])
        /\ UNCHANGED <<ready, granted>>
    BY <1>0, <1>2 DEF StartPlaying, flags, Types
  <2>2. toClient[s][1] = 0
    BY <1>0, <2>1 DEF SlotInv
  <2>3. Under(s)' = Under(s)
    <3> DEFINE q == toClient[s]
               r == Tail(q)
    <3>1. /\ DOMAIN q = 1 .. Len(q) /\ Len(q) \in Nat \ {0}
          /\ DOMAIN r = 1 .. Len(q) - 1
          /\ \A i \in DOMAIN r : r[i] = q[i + 1] /\ i + 1 \in DOMAIN q
      BY <1>0, <2>1, TailFacts
    <3>2. q[1] = 0
      BY <2>2
    <3> HIDE DEF q, r
    <3>3. \A i \in DOMAIN r : r[i] \in Range(q)
      BY <3>1 DEF Range
    <3>4. ASSUME NEW i \in DOMAIN q, q[i] # 0 PROVE q[i] \in Range(r)
      <4>1. i - 1 \in DOMAIN r /\ r[i - 1] = q[i]
        BY <3>1, <3>2, <3>4
      <4> QED
        BY <4>1 DEF Range
    <3>5. {n \in Range(r) : n # 0} = {n \in Range(q) : n # 0}
      BY <3>3, <3>4 DEF Range
    <3> QED
      BY <2>1, <3>5 DEF Under, q, r
  <2>4. (Told(s)' => Told(s)) /\ Loaded(s)
    BY <1>0, <2>1 DEF Told, Loaded
  <2> QED
    BY <1>0, <2>1, <2>3, <2>4, StillAlone DEF Alone
<1>3. CASE ClientOrder(s)
  <2>1. UNCHANGED <<ready, granted, stage, toClient>>
    BY <1>3 DEF ClientOrder, flags, peers
  <2> QED
    BY <1>0, <2>1, StillAlone DEF Alone, Told, Loaded, Under
<1> QED
  BY <1>1, <1>2, <1>3

\* Steps of the server that broadcast no list.
LEMMA HostAlone ==
    ASSUME IInv, IInv', NEW s \in Slot, Alone(s),
           \/ UpdateBetweenFrames \/ JoinUpdate \/ RequestResume \/ SaveGame \/ SendSave
           \/ HostOrder \/ HostToggle
    PROVE  Alone(s)'
<1>0. /\ Types /\ SlotInv(s) /\ toClient[s] \in Seq(Nat)
      /\ UNCHANGED <<log, world, connected, ready, granted, stage>>
  BY DEF IInv, Types, PerSlot, UpdateBetweenFrames, JoinUpdate, RequestResume, SaveGame,
     SendSave, HostOrder, HostToggle, peers, flags
<1>1. CASE toClient' = toClient /\ saved' = saved
  BY <1>0, <1>1, StillAlone DEF Alone, Told, Loaded, Under
<1>2. CASE SaveGame \/ SendSave
  <2>1. game.forJoin /\ saved' = [frame |-> game.frame, given |-> Len(log)]
    BY <1>2 DEF IInv, HostInv, SaveGame, SendSave
  <2>2. log # <<>> /\ Len(log) \in Nat /\ log[Len(log)].paused
    <3>1. game.paused /\ log # <<>>
      BY <2>1 DEF IInv, HostInv, LogInv
    <3> QED
      BY <1>0, <3>1, LogTypes DEF IInv, LogInv
  <2>3. \A n \in saved'.given .. Len(log) : log[n].paused
    <3>1. saved'.given = Len(log)
      BY <2>1
    <3>2. \A n \in Len(log) .. Len(log) : n = Len(log)
      BY <2>2
    <3> QED
      BY <2>2, <3>1, <3>2
  <2>4. Under(s)' = Under(s)
    <3>1. CASE toClient'[s] = toClient[s]
      BY <3>1 DEF Under
    <3>2. CASE joining[s] /\ toClient'[s] = Append(toClient[s], 0)
      <4>1. \A i \in DOMAIN toClient[s] : toClient[s][i] = 0
        BY <1>0, <3>2 DEF SlotInv
      <4>2. \A i \in DOMAIN toClient'[s] : toClient'[s][i] = 0
        BY <1>0, <3>2, <4>1
      <4> QED
        BY <4>1, <4>2 DEF Under, Range
    <3> QED
      BY <1>0, <1>2, <3>1, <3>2 DEF SaveGame, SendSave, wires, Types
  <2> QED
    BY <1>0, <2>3, <2>4, StillAlone DEF Loaded
<1> QED
  BY <1>1, <1>2 DEF UpdateBetweenFrames, JoinUpdate, RequestResume, HostOrder, HostToggle, wires

\* A client that loads the saved game is paused, as the server has been since it saved.
LEMMA LoadAlone ==
    ASSUME IInv, IInv', NEW s \in Slot, Alone(s), Load(s)
    PROVE  Alone(s)'
<1> DEFINE k == saved.given
           w == world'[s]
<1>1. /\ UNCHANGED <<log, saved, connected, ready, toClient>>
      /\ stage[s] = "launched" /\ granted[s] /\ stage'[s] = "barrier"
      /\ w = [NoGame EXCEPT !.frame = saved.frame, !.given = [i \in 1 .. k |-> i],
                            !.paused = TRUE]
      /\ ~granted'[s]
  BY DEF IInv, Types, Load, flags, host
<1>2. ~ready[s] /\ connected[s] /\ Told(s)
  BY <1>1 DEF IInv, PerSlot, SlotInv, Told
<1>3. /\ saved.frame = game.frame /\ k > 0 /\ log[k].frame = game.frame
      /\ k \in Nat /\ k <= Len(log) /\ Len(log) \in Nat
  BY <1>2, LogTypes DEF IInv, Types, PerSlot, SaveInv, HostInv
<1>4. \A n \in k .. Len(log) : log[n].paused
  BY <1>2 DEF Alone
<1>5. w.given = [i \in 1 .. k |-> i] /\ w.paused /\ w.frame = saved.frame /\ w.cached = <<>>
  BY <1>1 DEF NoGame
<1> HIDE DEF w, k
<1>6. Latest(s)' = k
  <2> DEFINE g == [i \in 1 .. k |-> i]
  <2>1. Len(g) = k /\ g[k] = k /\ g # <<>>
    BY <1>3
  <2> HIDE DEF g
  <2> QED
    BY <1>5, <2>1 DEF Latest, Last, w, g
<1>7. \A i \in DOMAIN toClient[s] : toClient[s][i] = 0
  BY <1>2 DEF IInv, PerSlot, SlotInv
<1>8. Under(s)' = {} /\ Range(w.cached) = {}
  BY <1>1, <1>5, <1>7 DEF Under, Range
<1>9. RepeatInv'
  BY <1>1 DEF Alone, RepeatInv, Before
<1>10. \A n \in k .. Len(log) : PausedBy(n)'
  BY <1>1, <1>3, <1>4 DEF PausedBy
<1>11. Split(s, Len(log), Len(log))'
  <2>1. Len(log) + 1 .. Len(log) = {}
    BY <1>3
  <2> QED
    BY <1>1, <1>6, <1>8, <1>10, <2>1 DEF Split, w
<1>12. (PausedBy(Latest(s)))'
  <2>1. k \in k .. Len(log)
    BY <1>3
  <2> QED
    BY <1>6, <1>10, <2>1 DEF PausedBy
<1>13. (log[Latest(s)].frame)' = w.frame
  BY <1>1, <1>3, <1>5, <1>6
<1>14. Told(s)' => \A n \in saved'.given .. Len(log') : log'[n].paused
  BY <1>1, <1>4 DEF k
<1>15. \E g, h \in Nat : /\ Latest(s)' <= g /\ g <= h /\ h <= Len(log')
                         /\ Split(s, g, h)'
  BY <1>1, <1>3, <1>6, <1>11
<1> QED
  BY <1>5, <1>9, <1>12, <1>13, <1>14, <1>15 DEF Alone, w

\* A list goes from the channel to the cache, behind all that are there.
LEMMA ReceiveAlone ==
    ASSUME IInv, IInv', NEW s \in Slot, Alone(s), ReceiveList(s)
    PROVE  Alone(s)'
<1> DEFINE q == toClient[s]
           w == world[s]
           u == world'[s]
           v == Head(q)
<1>1. /\ stage[s] = "playing" /\ q # <<>> /\ v # 0 /\ q \in Seq(Nat) /\ w \in World
      /\ toClient'[s] = Tail(q)
      /\ u = [w EXCEPT !.cached = Append(@, v)]
      /\ UNCHANGED <<log, saved, connected, ready, granted, stage>>
  BY DEF IInv, Types, ReceiveList, flags, host
<1>2. /\ u.given = w.given /\ u.paused = w.paused /\ u.frame = w.frame
      /\ u.cached = Append(w.cached, v) /\ w.cached \in Seq(Nat)
  <2> HIDE DEF v, w
  <2> QED
    BY <1>1 DEF World
<1>3. Loaded(s) /\ Loaded(s)' /\ (Told(s)' => Told(s))
  BY <1>1 DEF Loaded, Told
<1> HIDE DEF w, u
<1>4. PICK g, h \in Nat :
          /\ Latest(s) <= g /\ g <= h /\ h <= Len(log) /\ Split(s, g, h)
  BY <1>3 DEF Alone
<1>5. /\ DOMAIN q = 1 .. Len(q) /\ Len(q) \in Nat \ {0} /\ v = q[1] /\ v \in Nat
      /\ DOMAIN Tail(q) = 1 .. Len(q) - 1
      /\ \A i \in DOMAIN Tail(q) : Tail(q)[i] = q[i + 1] /\ i + 1 \in DOMAIN q
  <2> HIDE DEF q
  <2> QED
    BY <1>1, TailFacts
<1> HIDE DEF q, v
<1>6. Range(u.cached) = Range(w.cached) \cup {v}
  <2> DEFINE c == w.cached
             d == u.cached
  <2>1. /\ DOMAIN c = 1 .. Len(c) /\ Len(c) \in Nat
        /\ DOMAIN d = 1 .. Len(c) + 1
        /\ \A i \in DOMAIN c : d[i] = c[i]
        /\ d[Len(c) + 1] = v
    BY <1>2, <1>5, AppendFacts
  <2> HIDE DEF c, d
  <2>2. \A i \in DOMAIN d : d[i] \in Range(c) \cup {v}
    BY <2>1 DEF Range
  <2>3. v \in Range(d) /\ \A i \in DOMAIN c : c[i] \in Range(d)
    BY <2>1 DEF Range
  <2>4. Range(d) = Range(c) \cup {v}
    BY <2>2, <2>3 DEF Range
  <2> QED
    BY <2>4 DEF c, d
<1>7. \A i \in DOMAIN q : q[i] # 0 /\ i # 1 => v < q[i]
  <2> TAKE i \in DOMAIN q
  <2>1. \A j, k \in DOMAIN q : j < k /\ q[j] # 0 /\ q[k] # 0 => q[j] < q[k]
    BY <1>3 DEF IInv, PerSlot, ListInv, q
  <2>2. v # 0
    BY <1>1
  <2> QED
    BY <1>5, <2>1, <2>2
<1>8. v \in Under(s) /\ Under(s)' = Under(s) \ {v}
  <2>1. Under(s) = {n \in Range(q) : n # 0} /\ Under(s)' = {n \in Range(Tail(q)) : n # 0}
    BY <1>1 DEF Under, q
  <2>2. v \in Range(q) /\ v # 0
    <3>1. 1 \in DOMAIN q
      BY <1>5
    <3> QED
      BY <1>1, <1>5, <3>1 DEF Range
  <2>3. ASSUME NEW i \in DOMAIN Tail(q), Tail(q)[i] # 0
        PROVE  Tail(q)[i] \in Range(q) \ {v}
    <3>1. Tail(q)[i] = q[i + 1] /\ i + 1 \in DOMAIN q /\ i + 1 # 1
      BY <1>5
    <3>2. v < q[i + 1] /\ q[i + 1] \in Range(q)
      BY <1>7, <2>3, <3>1 DEF Range
    <3> QED
      BY <1>5, <3>1, <3>2
  <2>4. ASSUME NEW i \in DOMAIN q, q[i] # v PROVE q[i] \in Range(Tail(q))
    <3>1. i - 1 \in DOMAIN Tail(q) /\ Tail(q)[i - 1] = q[i]
      BY <1>5, <2>4
    <3> QED
      BY <3>1 DEF Range
  <2>5. \A n \in Range(Tail(q)) : n # 0 => n \in Range(q) \ {v}
    BY <2>3 DEF Range
  <2>6. \A n \in Range(q) : n # v => n \in Range(Tail(q))
    BY <2>4 DEF Range
  <2> QED
    BY <2>1, <2>2, <2>5, <2>6
<1>9. \A n \in Under(s)' : v < n
  <2> TAKE n \in Under(s)'
  <2>1. n \in Under(s) /\ n # v
    BY <1>8
  <2>2. PICK i \in DOMAIN q : n = q[i] /\ n # 0
    BY <2>1 DEF Under, Range, q
  <2> QED
    BY <1>5, <1>7, <2>1, <2>2
<1>10. Len(log) \in Nat
  BY LogTypes DEF IInv
<1>11. v = h + 1 /\ h + 1 <= Len(log)
  <2>1. Under(s) = h + 1 .. Len(log)
    BY <1>4 DEF Split
  <2>2. v \in h + 1 .. Len(log)
    BY <1>8, <2>1
  <2>3. CASE v # h + 1
    <3>1. h + 1 \in Under(s)'
      BY <1>8, <1>10, <2>1, <2>2, <2>3
    <3>2. v < h + 1
      BY <1>9, <3>1
    <3> QED
      BY <2>2, <3>2
  <2> QED
    BY <1>10, <2>2, <2>3
<1>12. Latest(s)' = Latest(s) /\ \A n : PausedBy(n)' = PausedBy(n)
  BY <1>1, <1>2 DEF Latest, PausedBy, u, w
<1>13. Split(s, g, h + 1)'
  <2>1. Range(u.cached) = g + 1 .. h + 1
    <3>1. Range(w.cached) = g + 1 .. h
      BY <1>4 DEF Split, w
    <3> QED
      BY <1>4, <1>6, <1>11, <3>1
  <2>2. Under(s)' = (h + 1) + 1 .. Len(log)
    <3>1. Under(s) = h + 1 .. Len(log)
      BY <1>4 DEF Split
    <3> QED
      BY <1>8, <1>10, <1>11, <3>1
  <2> QED
    BY <1>1, <1>2, <1>4, <1>12, <2>1, <2>2 DEF Split, u, w
<1>14. RepeatInv'
  BY <1>1 DEF Alone, RepeatInv, Before
<1>15. \E i, j \in Nat : /\ Latest(s)' <= i /\ i <= j /\ j <= Len(log')
                         /\ Split(s, i, j)'
  <2>1. h + 1 \in Nat /\ g <= h + 1
    BY <1>4
  <2> QED
    BY <1>1, <1>4, <1>11, <1>12, <1>13, <2>1
<1> QED
  BY <1>1, <1>2, <1>3, <1>12, <1>14, <1>15 DEF Alone, u, w

\* A world that moves is not paused, so it has been given all that there will be for its
\* frame.
LEMMA MoveAlone ==
    ASSUME IInv, IInv', NEW s \in Slot, Alone(s), Move(s)
    PROVE  Alone(s)'
<1> DEFINE w == world[s]
           u == world'[s]
<1>1. /\ stage[s] = "playing" /\ w.passed /\ ~w.paused /\ w \in World
      /\ u = [w EXCEPT !.frame = @ + 1, !.passed = FALSE]
      /\ UNCHANGED <<log, saved, connected, ready, granted, stage, toClient>>
  BY DEF IInv, Types, Move, flags, wires, host
<1>2. /\ u.given = w.given /\ u.paused = w.paused /\ u.frame = w.frame + 1
      /\ u.cached = w.cached /\ w.frame \in Nat
  <2> HIDE DEF w
  <2> QED
    BY <1>1 DEF World
<1> HIDE DEF u
<1>3. Loaded(s) /\ Loaded(s)' /\ (Told(s)' => Told(s)) /\ Under(s)' = Under(s)
  BY <1>1 DEF Loaded, Told, Under
<1>4. PICK g, h \in Nat :
          /\ Latest(s) \in Nat /\ Latest(s) <= g /\ g <= h /\ h <= Len(log)
          /\ Split(s, g, h)
          /\ PausedBy(g) <=> PausedBy(Latest(s))
          /\ w.given # <<>> => Latest(s) \in Range(w.given)
          /\ \A n \in Range(w.given) : n <= Latest(s)
  BY <1>3, AloneFacts
<1>5. ~PausedBy(Latest(s))
  BY <1>1, <1>3 DEF Alone
<1>6. g = Latest(s)
  <2>1. g \in Latest(s) .. g
    BY <1>4
  <2> QED
    BY <1>4, <1>5, <2>1 DEF Split
<1>7. /\ Len(log) \in Nat /\ DOMAIN log = 1 .. Len(log)
      /\ \A n \in DOMAIN log : n \in Nat \ {0} /\ log[n].frame \in Nat /\ log[n].frame # 0
  BY LogTypes DEF IInv
<1>8. LogInv /\ ListInv(s) /\ ClientInv(s)
  BY DEF IInv, PerSlot
<1>9. ASSUME NEW n \in g + 1 .. Len(log) PROVE log[n].frame >= w.frame + 1
  <2>1. n \in DOMAIN log /\ log[n].frame >= w.frame
    <3>1. n \in DOMAIN log
      BY <1>4, <1>7
    <3>2. log[n].frame >= w.frame
      BY <1>4 DEF Split
    <3> QED
      BY <3>1, <3>2
  <2>2. CASE log[n].frame = w.frame
    <3>1. w.frame # 0
      BY <1>7, <2>1, <2>2
    <3>2. PICK m \in Range(w.given) : log[m].frame = w.frame
      BY <1>1, <1>3, <1>8, <3>1 DEF ClientInv
    <3>3. w.given # <<>>
      BY <3>2 DEF Range
    <3>4. /\ Latest(s) \in Range(w.given) /\ m <= Latest(s) /\ Range(w.given) \subseteq DOMAIN log
      BY <1>3, <1>4, <1>8, <3>3 DEF ListInv
    <3>5. log[Latest(s)].frame <= w.frame /\ log[m].frame <= log[Latest(s)].frame
      <4>1. log[Latest(s)].frame <= w.frame
        BY <1>3, <1>8, <3>4 DEF ClientInv
      <4>2. m = Latest(s) \/ m < Latest(s)
        BY <1>7, <3>4
      <4> QED
        BY <1>7, <1>8, <3>4, <4>1, <4>2 DEF LogInv
    <3>6. Latest(s) \in DOMAIN log /\ Latest(s) < n /\ log[Latest(s)].frame = log[n].frame
      BY <1>2, <1>4, <1>6, <1>7, <2>2, <3>2, <3>4, <3>5
    <3>7. log[Latest(s)].paused
      BY <2>1, <3>6 DEF Alone, RepeatInv, Before
    <3> QED
      BY <1>5, <1>7, <3>6, <3>7 DEF PausedBy
  <2> QED
    BY <1>2, <1>7, <2>1, <2>2
<1>10. Latest(s)' = Latest(s) /\ \A n : PausedBy(n)' = PausedBy(n)
  BY <1>1, <1>2 DEF Latest, PausedBy, u, w
<1>11. Split(s, g, h)'
  BY <1>1, <1>2, <1>3, <1>4, <1>9, <1>10 DEF Split, u
<1>12. RepeatInv'
  BY <1>1 DEF Alone, RepeatInv, Before
<1> QED
  BY <1>1, <1>2, <1>3, <1>4, <1>10, <1>11, <1>12 DEF Alone, u

\* The lists of a frame are given together, and the client is paused as the server was
\* after the last of them.
LEMMA GiveAlone ==
    ASSUME IInv, IInv', NEW s \in Slot, Alone(s), Give(s)
    PROVE  Alone(s)'
<1> DEFINE w == world[s]
           u == world'[s]
           b == Batch(w)
           n == Len(b)
           m == b[n]
<1>1. /\ stage[s] = "playing" /\ b # <<>> /\ w \in World
      /\ u = Given(w)
      /\ UNCHANGED <<log, saved, connected, ready, granted, stage, toClient>>
  BY DEF IInv, Types, Give, Given, Obeyed, Commands, Batch, Due, flags, wires, host
<1>2. /\ u.frame = w.frame /\ u.given = w.given \o b
      /\ u.cached = Among(w.cached, DOMAIN log \ Due(w))
      /\ u.paused = Obeyed(w).paused
      /\ b \in Seq(Nat) /\ Range(b) = Range(w.cached) \cap Due(w)
      /\ Commands(w) \in Seq(Cmd)
      /\ w.frame \in Nat /\ w.given \in Seq(Nat) /\ w.cached \in Seq(Nat)
      /\ w.paused \in BOOLEAN
  <2> HIDE DEF w
  <2> QED
    BY <1>1, GivenWorld DEF IInv, World
<1> HIDE DEF u
<1>3. Loaded(s) /\ Loaded(s)' /\ (Told(s)' => Told(s)) /\ Under(s)' = Under(s)
  BY <1>1 DEF Loaded, Told, Under
<1>4. PICK g, h \in Nat :
          /\ Latest(s) \in Nat /\ Latest(s) <= g /\ g <= h /\ h <= Len(log)
          /\ Split(s, g, h)
          /\ PausedBy(g) <=> PausedBy(Latest(s))
  BY <1>3, AloneFacts
<1>5. w.paused <=> PausedBy(g)
  BY <1>3, <1>4 DEF Alone
<1>6. /\ Len(log) \in Nat /\ DOMAIN log = 1 .. Len(log)
      /\ \A k \in DOMAIN log : /\ k \in Nat \ {0} /\ log[k].frame \in Nat
                               /\ log[k].cmds \in Seq(Cmd) /\ log[k].paused \in BOOLEAN
  BY LogTypes DEF IInv
<1>7. \A i, j \in DOMAIN b : i < j => b[i] < b[j]
  <2>1. \A i, j \in DOMAIN w.cached : i < j => w.cached[i] < w.cached[j]
    BY <1>3 DEF IInv, PerSlot, ListInv
  <2> HIDE DEF w
  <2> QED
    BY <1>2, <2>1, AmongAscends DEF Batch
<1>8. /\ Range(w.cached) = g + 1 .. h
      /\ \A k \in g + 1 .. Len(log) : /\ log[k].frame >= w.frame
                                      /\ Settles(log[k].cmds, PausedBy(k - 1), log[k].paused)
      /\ ~ready[s] => g = Len(log)
      /\ Under(s) = h + 1 .. Len(log)
  BY <1>4 DEF Split
<1>9. \A k \in DOMAIN log : k \in Due(w) <=> log[k].frame = w.frame
  BY DEF Due
<1> HIDE DEF w, b
<1>10. /\ n \in Nat \ {0} /\ DOMAIN b = 1 .. n /\ \A i \in 1 .. n : b[i] \in Nat
  BY <1>1, <1>2
<1>11. m \in Range(b) /\ \A k \in Range(b) : k <= m
  <2>1. n \in DOMAIN b
    BY <1>10
  <2>2. ASSUME NEW i \in DOMAIN b PROVE b[i] <= m
    <3>1. CASE i = n
      BY <1>10, <3>1
    <3>2. CASE i < n
      BY <1>7, <1>10, <2>1, <3>2
    <3> QED
      BY <1>10, <3>1, <3>2
  <2> QED
    BY <2>1, <2>2 DEF Range
<1> HIDE DEF n, m
<1>12. m \in g + 1 .. h /\ m \in DOMAIN log /\ log[m].frame = w.frame /\ m \in Nat \ {0}
  <2>1. m \in g + 1 .. h /\ m \in Due(w)
    BY <1>2, <1>8, <1>11
  <2>2. m \in DOMAIN log
    BY <1>4, <1>6, <2>1
  <2> QED
    BY <1>6, <1>9, <2>1, <2>2
<1>13. Range(b) = g + 1 .. m
  <2>1. ASSUME NEW k \in Range(b) PROVE k \in g + 1 .. m
    <3>1. k \in g + 1 .. h /\ k <= m
      BY <1>2, <1>8, <1>11, <2>1
    <3> QED
      BY <1>4, <1>12, <3>1
  <2>2. ASSUME NEW k \in g + 1 .. m PROVE k \in Range(b)
    <3>1. k \in g + 1 .. h /\ k \in g + 1 .. Len(log) /\ k \in DOMAIN log /\ k <= m
      BY <1>4, <1>6, <1>12
    <3>2. log[k].frame >= w.frame
      BY <1>8, <3>1
    <3>3. k = m \/ k < m
      BY <1>6, <1>12, <3>1
    <3>4. log[k].frame <= log[m].frame
      BY <1>6, <1>12, <3>1, <3>3 DEF IInv, LogInv
    <3>5. log[k].frame = w.frame
      BY <1>2, <1>6, <1>12, <3>1, <3>2, <3>4
    <3> QED
      BY <1>2, <1>8, <1>9, <3>1, <3>5
  <2> QED
    BY <2>1, <2>2
<1>14. /\ b[1] = g + 1 /\ \A i \in 2 .. n : b[i] = b[i - 1] + 1
  BY <1>1, <1>2, <1>7, <1>12, <1>13, Consecutive DEF n
<1> DEFINE ss == [i \in DOMAIN b |-> log[b[i]].cmds]
           P  == [i \in 0 .. n |-> IF i = 0 THEN w.paused ELSE log[b[i]].paused]
<1>15. \A i \in 1 .. n : b[i] \in DOMAIN log /\ b[i] \in g + 1 .. Len(log)
  <2> TAKE i \in 1 .. n
  <2>1. b[i] \in Range(b)
    BY <1>10 DEF Range
  <2>2. b[i] \in g + 1 .. m
    BY <1>13, <2>1
  <2> QED
    BY <1>4, <1>6, <1>12, <2>2
<1>16. ss \in Seq(Seq(Cmd)) /\ Len(ss) = n /\ Commands(w) = FlattenSeq(ss)
  <2>1. \A i \in 1 .. n : ss[i] \in Seq(Cmd)
    BY <1>6, <1>10, <1>15
  <2>2. Commands(w) = FlattenSeq(ss)
    BY DEF Commands, b
  <2> QED
    BY <1>10, <2>1, <2>2
<1>17. P \in [0 .. n -> BOOLEAN]
  BY <1>2, <1>6, <1>15
<1>18. ASSUME NEW i \in 1 .. n PROVE Settles(ss[i], P[i - 1], P[i])
  <2> DEFINE k == b[i]
  <2>1. Settles(log[k].cmds, PausedBy(k - 1), log[k].paused)
    BY <1>8, <1>15
  <2>2. i \in 0 .. n /\ i - 1 \in 0 .. n /\ i # 0
    BY <1>10
  <2>3. ss[i] = log[k].cmds /\ P[i] = log[k].paused
    BY <1>10, <2>2
  <2>4. P[i - 1] <=> PausedBy(k - 1)
    <3>1. CASE i = 1
      <4>1. k - 1 = g /\ i - 1 = 0
        BY <1>4, <1>14, <3>1
      <4> QED
        BY <1>5, <2>2, <4>1
    <3>2. CASE i # 1
      <4>1. i \in 2 .. n /\ i - 1 \in 1 .. n /\ i - 1 # 0
        BY <1>10, <3>2
      <4>2. k - 1 = b[i - 1] /\ b[i - 1] # 0
        BY <1>6, <1>10, <1>14, <1>15, <4>1
      <4>3. P[i - 1] = log[b[i - 1]].paused
        BY <2>2, <4>1
      <4> QED
        BY <4>2, <4>3 DEF PausedBy
    <3> QED
      BY <3>1, <3>2
  <2> HIDE DEF k, ss, P
  <2> QED
    BY <2>1, <2>3, <2>4 DEF Settles, SettlesTo
<1>19. P[0] = w.paused /\ P[n] = log[m].paused
  BY <1>10 DEF m
<1> HIDE DEF ss, P
<1>20. Settles(Commands(w), w.paused, log[m].paused)
  BY <1>16, <1>17, <1>18, <1>19, SettlesFlatten
<1>21. Settles(Commands(w), w.paused, u.paused)
  BY <1>1, <1>2, ClientSettles DEF Obeyed
<1>22. u.paused <=> log[m].paused
  BY <1>2, <1>20, <1>21, SettlesOnce
<1>23. Latest(s)' = m
  <2>1. /\ Len(w.given \o b) = Len(w.given) + n /\ (w.given \o b)[Len(w.given) + n] = b[n]
        /\ w.given \o b # <<>>
    BY <1>2, <1>10 DEF n
  <2> QED
    BY <1>2, <2>1 DEF Latest, Last, u, m
<1>24. Range(u.cached) = m + 1 .. h
  <2>1. Range(u.cached) = Range(w.cached) \cap (DOMAIN log \ Due(w))
    BY <1>2, AmongRange
  <2>2. \A k \in g + 1 .. h : k \in DOMAIN log
    BY <1>4, <1>6
  <2>3. \A k \in g + 1 .. h : k \in Due(w) <=> k \in g + 1 .. m
    BY <1>2, <1>8, <1>13
  <2>4. m + 1 .. h = {k \in g + 1 .. h : k \notin g + 1 .. m}
    BY <1>4, <1>12
  <2> QED
    BY <1>8, <2>1, <2>2, <2>3, <2>4
<1>25. \A k : PausedBy(k)' = PausedBy(k)
  BY <1>1 DEF PausedBy
<1>26. ready[s]
  BY <1>4, <1>6, <1>8, <1>12
<1>31. PICK M : M = m
  OBVIOUS
<1>27. Split(s, M, h)'
  <2>1. \A k \in m + 1 .. Len(log) : k \in g + 1 .. Len(log)
    BY <1>4, <1>12
  <2>2. \A k \in m + 1 .. Len(log') :
            /\ log'[k].frame >= u.frame
            /\ Settles(log[k].cmds, PausedBy(k - 1), log[k].paused)'
    <3> TAKE k \in m + 1 .. Len(log')
    <3>1. k \in g + 1 .. Len(log)
      BY <1>1, <2>1
    <3>2. Settles(log[k].cmds, PausedBy(k - 1), log[k].paused)
      BY <1>8, <3>1
    <3>3. Settles(log[k].cmds, PausedBy(k - 1), log[k].paused)'
      BY <1>1, <1>25, <3>2 DEF Settles, SettlesTo
    <3> QED
      BY <1>1, <1>2, <1>8, <3>1, <3>3
  <2>3. ready'[s] /\ Under(s)' = h + 1 .. Len(log')
    BY <1>1, <1>3, <1>8, <1>26
  <2> QED
    BY <1>23, <1>24, <1>31, <2>2, <2>3 DEF Split, u
<1>28. RepeatInv'
  BY <1>1 DEF Alone, RepeatInv, Before
<1>29. /\ (world[s].paused <=> PausedBy(Latest(s)))'
       /\ (log[Latest(s)].frame = world[s].frame)'
  BY <1>1, <1>2, <1>12, <1>22, <1>23 DEF PausedBy, u
<1>30. \E i, j \in Nat : /\ Latest(s)' <= i /\ i <= j /\ j <= Len(log')
                         /\ Split(s, i, j)'
  <2>1. M \in Nat /\ M <= M /\ M <= h /\ Latest(s)' = M
    BY <1>4, <1>12, <1>23, <1>31
  <2> QED
    BY <1>1, <1>4, <1>27, <2>1
<1> QED
  BY <1>1, <1>3, <1>28, <1>29, <1>30 DEF Alone

LEMMA Below ==
    ASSUME NEW k \in Nat, NEW i \in 1 .. k, i # k
    PROVE  k \in 1 .. k /\ i < k
  OBVIOUS

LEMMA Squeezed ==
    ASSUME NEW k \in Nat, NEW h \in Nat, k <= h, h <= k
    PROVE  h = k
  OBVIOUS

\* The next list says of the pause what its commands say: nothing is refused if the only
\* client is ready, and the server stays paused if it is not.
LEMMA FrameAlone ==
    ASSUME IInv, IInv', NEW s \in Slot, Slot = {s}, Alone(s), ServerFrame
    PROVE  Alone(s)'
<1> DEFINE q == Reverse(requested)
           w == world[s]
           e == [frame |-> NewFrame, cmds |-> q, paused |-> NewGame.paused,
                 forJoin |-> NewGame.forJoin]
<1>0. PICK N : N = Len(log) + 1
  OBVIOUS
<1>1. UNCHANGED <<connected, ready, granted, stage, world, saved>> /\ game' = NewGame
  BY DEF ServerFrame, NewGame, NewFrame, flags, peers
<1>2. \/ UNCHANGED <<log, toClient>>
      \/ /\ log' = Append(log, e)
         /\ toClient' = [x \in Slot |-> IF ready[x] THEN Append(toClient[x], N)
                                                    ELSE toClient[x]]
  BY <1>0 DEF ServerFrame, NewGame, NewFrame
<1>3. CASE UNCHANGED <<log, toClient>>
  BY <1>1, <1>3, StillAlone DEF Alone, Told, Loaded, Under
<1>4. CASE /\ log' = Append(log, e)
           /\ toClient' = [x \in Slot |-> IF ready[x] THEN Append(toClient[x], N)
                                                      ELSE toClient[x]]
  <2>1. /\ Len(log) \in Nat /\ DOMAIN log = 1 .. Len(log) /\ game.frame \in Nat
        /\ \A n \in DOMAIN log : n \in Nat \ {0} /\ log[n].frame \in Nat /\ log[n].frame # 0
    BY LogTypes DEF IInv
  <2>2. /\ q \in Seq(Cmd) /\ NewGame \in Game
        /\ (\E x \in Slot : HasSave(x)) => NewGame.paused
        /\ game \in Game /\ HostInv /\ LogInv /\ PerSlot(s) /\ log \in Seq(Entry)
        /\ toClient[s] \in Seq(Nat)
    BY NewList DEF IInv, Types
  <2> HIDE DEF q
  <2>3. /\ Len(log') = N /\ DOMAIN log' = 1 .. N /\ N \in Nat \ {0}
        /\ \A n \in DOMAIN log : log'[n] = log[n]
        /\ log'[N].frame = NewFrame /\ log'[N].cmds = q
        /\ log'[N].paused = NewGame.paused
    <3> HIDE DEF e
    <3>1. /\ Len(log') = N /\ DOMAIN log' = 1 .. N /\ N \in Nat \ {0}
          /\ \A n \in DOMAIN log : log'[n] = log[n]
          /\ log'[N] = e
      BY <1>0, <1>4, <2>1, <2>2
    <3> QED
      BY <3>1 DEF e
  <2> HIDE DEF e
  <2>4. /\ game.paused => /\ log # <<>> /\ log[Len(log)].frame = game.frame
                          /\ log[Len(log)].paused
        /\ log # <<>> => (log[Len(log)].paused <=> game.paused)
        /\ \A n \in DOMAIN log : log[n].frame <= game.frame
        /\ log # <<>> => Len(log) \in DOMAIN log
    <3>1. log # <<>> => Len(log) \in DOMAIN log
      BY <2>1, <2>2
    <3> QED
      BY <2>2, <3>1 DEF LogInv
  <2>5. /\ \A n \in 0 .. Len(log) : PausedBy(n)' <=> PausedBy(n)
        /\ PausedBy(N)' <=> NewGame.paused
        /\ PausedBy(Len(log)) <=> game.paused
    <3>1. \A n \in 0 .. Len(log) : PausedBy(n)' <=> PausedBy(n)
      BY <2>1, <2>3 DEF PausedBy
    <3>2. PausedBy(N)' <=> NewGame.paused
      BY <2>3 DEF PausedBy
    <3>3. log # <<>> <=> Len(log) # 0
      BY <2>2
    <3>4. PausedBy(Len(log)) <=> game.paused
      BY <2>4, <3>3 DEF PausedBy
    <3> QED
      BY <3>1, <3>2, <3>4
  <2>6. RepeatInv'
    <3> SUFFICES ASSUME NEW i \in 1 .. N, NEW j \in 1 .. N, i < j,
                        log'[i].frame = log'[j].frame
                 PROVE  log'[i].paused
      BY <2>3 DEF RepeatInv, Before
    <3>1. i \in DOMAIN log /\ log'[i] = log[i]
      BY <1>0, <2>1, <2>3
    <3>2. CASE j # N
      <4>1. j \in DOMAIN log /\ log'[j] = log[j]
        BY <1>0, <2>1, <2>3, <3>2
      <4> QED
        BY <3>1, <4>1 DEF Alone, RepeatInv, Before
    <3>3. CASE j = N
      <4>1. log[i].frame = NewFrame /\ log[i].frame <= game.frame
        BY <2>3, <2>4, <3>1, <3>3
      <4>2. game.paused /\ log[i].frame = game.frame
        BY <2>1, <4>1 DEF NewFrame
      <4>3. CASE i = Len(log)
        BY <2>4, <3>1, <4>2, <4>3
      <4>4. CASE i # Len(log)
        <5>1. i \in 1 .. Len(log) /\ Len(log) \in Nat
          BY <2>1, <3>1
        <5>2. Len(log) \in DOMAIN log /\ i < Len(log)
          BY <2>1, <4>4, <5>1, Below, Zenon
        <5>3. log # <<>>
          BY <5>1
        <5>4. log[i].paused
          BY <2>4, <3>1, <4>2, <5>2, <5>3 DEF Alone, RepeatInv, Before
        <5> QED
          BY <3>1, <5>4
      <4> QED
        BY <4>3, <4>4
    <3> QED
      BY <3>2, <3>3
  <2>7. ASSUME Told(s)', NEW n \in saved'.given .. Len(log') PROVE log'[n].paused
    <3>1. Told(s) /\ HasSave(s)
      BY <1>1, <1>4, <2>7 DEF Told, HasSave
    <3>2. saved.given > 0 /\ saved.given \in Nat
      BY <2>2, <3>1 DEF IInv, Types, PerSlot, SaveInv
    <3>3. CASE n = N
      BY <2>2, <2>3, <3>1, <3>3
    <3>4. CASE n # N
      <4>1. n \in saved.given .. Len(log) /\ n \in DOMAIN log
        BY <1>0, <1>1, <2>1, <2>3, <2>7, <3>2, <3>4
      <4> QED
        BY <2>3, <3>1, <4>1 DEF Alone
    <3> QED
      BY <3>3, <3>4
  <2>8. CASE ~Loaded(s)
    BY <1>1, <2>6, <2>7, <2>8 DEF Alone, Loaded
  <2>9. CASE Loaded(s)
    <3>1. PICK g, h \in Nat :
              /\ Latest(s) \in Nat /\ Latest(s) <= g /\ g <= h /\ h <= Len(log)
              /\ Split(s, g, h)
              /\ PausedBy(g) <=> PausedBy(Latest(s))
      BY <2>9, AloneFacts
    <3>2. /\ Latest(s)' = Latest(s)
          /\ w.paused <=> PausedBy(Latest(s))
          /\ w.paused => log[Latest(s)].frame = w.frame
      BY <1>1, <2>9 DEF Alone, Latest
    <3>3. PausedBy(Latest(s))' <=> PausedBy(Latest(s))
      BY <2>1, <2>5, <3>1, <3>2 DEF PausedBy
    <3>4. w.paused => Latest(s) \in DOMAIN log
      BY <2>1, <3>1, <3>2 DEF PausedBy
    <3>5. /\ g = Latest(s) \/ \A n \in Latest(s) .. g : PausedBy(n)
          /\ ~ready[s] => g = Len(log)
          /\ Range(w.cached) = g + 1 .. h
          /\ Under(s) = h + 1 .. Len(log)
          /\ \A n \in g + 1 .. Len(log) :
                 /\ log[n].frame >= w.frame
                 /\ Settles(log[n].cmds, PausedBy(n - 1), log[n].paused)
      BY <3>1 DEF Split
    <3>6. CASE ready[s]
      <4>1. Under(s)' = h + 1 .. N
        <5>1. toClient'[s] = Append(toClient[s], N)
          BY <1>4, <3>6
        <5>2. Range(Append(toClient[s], N)) = Range(toClient[s]) \cup {N}
          <6> DEFINE p == toClient[s]
                     r == Append(p, N)
          <6>1. /\ DOMAIN p = 1 .. Len(p) /\ Len(p) \in Nat
                /\ DOMAIN r = 1 .. Len(p) + 1
                /\ \A i \in DOMAIN p : r[i] = p[i]
                /\ r[Len(p) + 1] = N
            BY <2>2, <2>3, AppendFacts
          <6> HIDE DEF p, r
          <6>2. \A i \in DOMAIN r : r[i] \in Range(p) \cup {N}
            BY <6>1 DEF Range
          <6>3. N \in Range(r) /\ \A i \in DOMAIN p : p[i] \in Range(r)
            BY <6>1 DEF Range
          <6>4. Range(r) = Range(p) \cup {N}
            BY <6>2, <6>3 DEF Range
          <6> QED
            BY <6>4 DEF p, r
        <5>3. Under(s)' = Under(s) \cup {N}
          BY <2>3, <5>1, <5>2 DEF Under
        <5> QED
          BY <1>0, <2>1, <3>1, <3>5, <5>3
      <4>2. NewFrame >= w.frame
        <5>1. /\ w.frame \in Nat
              /\ w.frame <= game.frame
                 \/ (w.frame = game.frame + 1 /\ ~(game.paused /\ ~game.forJoin))
          BY <2>2, <2>9 DEF IInv, Types, World, PerSlot, ClientInv
        <5>2. CASE ~ (w.frame <= game.frame) /\ game.paused
          <6>1. Len(log) \in DOMAIN log /\ log[Len(log)].frame = game.frame
            BY <2>4, <5>2
          <6>2. ~ (Len(log) \in g + 1 .. Len(log))
            BY <2>1, <3>5, <5>1, <5>2, <6>1
          <6>3. g = Len(log)
            BY <2>1, <3>1, <6>1, <6>2
          <6>4. w.paused
            BY <2>5, <3>1, <3>2, <5>2, <6>3
          <6>5. log[Latest(s)].frame = w.frame /\ log[Latest(s)].frame <= game.frame
            BY <2>4, <3>2, <3>4, <6>4
          <6>6. w.frame <= game.frame
            BY <6>5, Zenon
          <6> QED
            BY <5>2, <6>6, Zenon
        <5> QED
          BY <2>1, <5>1, <5>2 DEF NewFrame
      <4>3. Settles(q, PausedBy(N - 1), PausedBy(N)')
        <5> DEFINE x == [game EXCEPT !.frame = NewFrame]
        <5>1. x \in Game /\ x.paused = game.paused
          <6>1. NewFrame \in Nat
            BY <2>1 DEF NewFrame
          <6>2. game \in Game
            BY <2>2
          <6> QED
            BY <6>1, <6>2 DEF Game
        <5>2. NewGame = FoldLeft(ServerPaused, x, q)
          BY DEF NewGame, q
        <5> HIDE DEF x
        <5>3. \A y \in Slot : connected[y] => ready[y]
          BY <3>6
        <5>4. Settles(q, x.paused, NewGame.paused)
          BY <2>2, <5>1, <5>2, <5>3, ServerSettles
        <5>5. N - 1 = Len(log)
          BY <1>0, <2>1
        <5> QED
          BY <2>5, <5>1, <5>4, <5>5 DEF Settles, SettlesTo
      <4>4. ASSUME NEW n \in g + 1 .. N
            PROVE  /\ log'[n].frame >= w.frame
                   /\ Settles(log[n].cmds, PausedBy(n - 1), log[n].paused)'
        <5>1. n - 1 \in 0 .. Len(log)
          BY <1>0, <2>1, <3>1
        <5>2. PausedBy(n - 1)' <=> PausedBy(n - 1)
          BY <2>5, <5>1
        <5>3. CASE n = N
          <6>1. PausedBy(N)' <=> log'[N].paused
            BY <2>3 DEF PausedBy
          <6>2. Settles(q, PausedBy(n - 1)', log'[n].paused)
            BY <4>3, <5>2, <5>3, <6>1 DEF Settles, SettlesTo
          <6>3. Settles(log[n].cmds, PausedBy(n - 1), log[n].paused)'
            BY <2>3, <5>3, <6>2 DEF Settles, SettlesTo
          <6> QED
            BY <2>3, <4>2, <5>3, <6>3
        <5>4. CASE n # N
          <6>1. n \in g + 1 .. Len(log) /\ n \in DOMAIN log
            BY <1>0, <2>1, <3>1, <5>4
          <6>2. log'[n] = log[n]
            BY <2>3, <6>1
          <6>3. Settles(log[n].cmds, PausedBy(n - 1), log[n].paused)
            BY <3>5, <6>1
          <6>4. Settles(log[n].cmds, PausedBy(n - 1), log[n].paused)'
            BY <5>2, <6>2, <6>3 DEF Settles, SettlesTo
          <6> QED
            BY <3>5, <6>1, <6>2, <6>4
        <5> QED
          BY <5>3, <5>4
      <4>5. g # Latest(s)' => \A n \in Latest(s)' .. g : PausedBy(n)'
        <5>1. \A n \in Latest(s) .. g : n \in 0 .. Len(log)
          BY <2>1, <3>1
        <5> QED
          BY <2>5, <3>2, <3>5, <5>1
      <4>6. Split(s, g, h)'
        BY <1>1, <2>3, <3>2, <3>5, <3>6, <4>1, <4>4, <4>5 DEF Split
      <4>7. \E i, j \in Nat : /\ Latest(s)' <= i /\ i <= j /\ j <= Len(log')
                              /\ Split(s, i, j)'
        <5>1. h <= N
          BY <1>0, <2>1, <3>1
        <5> QED
          BY <2>3, <3>1, <3>2, <4>6, <5>1
      <4> QED
        BY <1>1, <2>3, <2>6, <2>7, <3>2, <3>3, <3>4, <4>7 DEF Alone
    <3>7. CASE ~ready[s]
      <4>1. HasSave(s) /\ w.paused /\ NewGame.paused
        BY <2>2, <2>9, <3>7 DEF HasSave, PerSlot, LoadedInv
      <4>2. g = Len(log) /\ h = Len(log)
        <5>1. g = Len(log)
          BY <3>5, <3>7
        <5>2. Len(log) <= h
          BY <3>1, <5>1
        <5> QED
          BY <2>1, <3>1, <5>1, <5>2, Squeezed, Zenon
      <4>3. \A n \in Latest(s)' .. N : PausedBy(n)'
        <5> TAKE n \in Latest(s)' .. N
        <5>1. CASE n = N
          BY <2>5, <4>1, <5>1
        <5>2. CASE n # N
          <6>1. n \in Latest(s) .. g /\ n \in 0 .. Len(log)
            BY <1>0, <2>1, <3>1, <3>2, <4>2, <5>2
          <6>2. g = Latest(s) => n = Latest(s)
            BY <3>1, <6>1
          <6>3. PausedBy(n)
            BY <3>2, <3>5, <4>1, <6>1, <6>2
          <6> QED
            BY <2>5, <6>1, <6>3
        <5> QED
          BY <5>1, <5>2
      <4>4. Under(s)' = {} /\ Range(w.cached) = {}
        <5>1. Len(log) + 1 .. Len(log) = {}
          BY <2>1
        <5>2. toClient'[s] = toClient[s]
          BY <1>4, <3>7
        <5> QED
          BY <3>5, <4>2, <5>1, <5>2 DEF Under
      <4>5. Split(s, N, N)'
        <5>1. N + 1 .. N = {}
          BY <2>3
        <5> QED
          BY <1>1, <2>3, <4>3, <4>4, <5>1 DEF Split
      <4>6. \E i, j \in Nat : /\ Latest(s)' <= i /\ i <= j /\ j <= Len(log')
                              /\ Split(s, i, j)'
        <5>1. Latest(s)' <= N /\ N <= N
          BY <1>0, <2>1, <3>1, <3>2
        <5> QED
          BY <2>3, <4>5, <5>1
      <4> QED
        BY <1>1, <2>3, <2>6, <2>7, <3>2, <3>3, <3>4, <4>6 DEF Alone
    <3> QED
      BY <3>6, <3>7
  <2> QED
    BY <2>8, <2>9
<1> QED
  BY <1>2, <1>3, <1>4

LEMMA AloneInit ==
    ASSUME Init, NEW s \in Slot
    PROVE  Alone(s)
<1>1. log = <<>> /\ DOMAIN log = {} /\ Len(log) = 0 /\ RepeatInv
  BY DEF Init, RepeatInv
<1>2. /\ connected[s] = (s \in Veteran) /\ ready[s] = (s \in Veteran)
      /\ ~granted[s] /\ toClient[s] = <<>>
      /\ stage[s] = IF s \in Veteran THEN "playing" ELSE "out"
  BY DEF Init
<1>3. ~Told(s)
  BY <1>2 DEF Told
<1>4. /\ world[s].frame = 0 /\ world[s].given = <<>> /\ world[s].cached = <<>>
      /\ world[s].paused = FALSE
  <2> DEFINE b == s \in Veteran
  <2>1. world[s] = [NoGame EXCEPT !.passed = b]
    BY DEF Init
  <2>2. b \in BOOLEAN
    OBVIOUS
  <2> HIDE DEF b
  <2>3. \A x : [NoGame EXCEPT !.passed = x].paused = FALSE
    BY DEF NoGame
  <2> QED
    BY <2>1, <2>2, <2>3, NoGameWith
<1>5. Latest(s) = 0 /\ ~PausedBy(0)
  BY <1>4 DEF Latest, PausedBy
<1>6. ASSUME Loaded(s) PROVE Split(s, 0, 0)
  <2>1. ready[s]
    BY <1>2, <1>6 DEF Loaded
  <2>2. Range(world[s].cached) = {} /\ Under(s) = {}
    BY <1>2, <1>4 DEF Under, Range
  <2>3. 0 + 1 .. 0 = {}
    OBVIOUS
  <2> QED
    BY <1>1, <1>5, <2>1, <2>2, <2>3 DEF Split
<1>7. Loaded(s) => \E g, h \in Nat : /\ Latest(s) <= g /\ g <= h /\ h <= Len(log)
                                     /\ Split(s, g, h)
  <2>1. 0 \in Nat /\ 0 <= 0
    OBVIOUS
  <2> QED
    BY <1>1, <1>5, <1>6, <2>1
<1> QED
  BY <1>1, <1>3, <1>4, <1>5, <1>7 DEF Alone

LEMMA AloneKeeps ==
    ASSUME IInv, IInv', [Next]_vars, NEW s \in Slot, Slot = {s}, Alone(s)
    PROVE  Alone(s)'
<1>1. CASE HostStep \/ HostOrder \/ HostToggle
  BY <1>1, FrameAlone, HostAlone DEF HostStep
<1>2. ASSUME NEW x \in Slot,
             \/ Accept(x) \/ Launch(x) \/ Newcomer(x) \/ Play(x)
             \/ ClientOrder(x) \/ Disconnect(x)
      PROVE  Alone(s)'
  <2>1. x = s
    OBVIOUS
  <2>2. CASE \/ Accept(s) \/ SlotIntro(s) \/ SwitchSlot(s) \/ Launch(s) \/ LobbyReady(s)
             \/ RefuseLaunch(s) \/ QuitOnReady(s) \/ Disconnect(s)
    BY <2>2, OutsideAlone
  <2>3. CASE SlotReceive(s) \/ StartPlaying(s) \/ ClientOrder(s)
    BY <2>3, MessagesAlone
  <2>4. CASE Load(s) \/ ReceiveList(s) \/ Give(s) \/ Move(s)
    BY <2>4, LoadAlone, ReceiveAlone, GiveAlone, MoveAlone
  <2> QED
    BY <1>2, <2>1, <2>2, <2>3, <2>4 DEF Newcomer, Play
<1>3. CASE UNCHANGED vars
  <2>1. UNCHANGED <<connected, ready, granted, toClient, stage, world, log, saved>>
    BY <1>3 DEF vars, flags, who, wires, peers, host
  <2> QED
    BY <2>1, StillAlone DEF Alone, Told, Loaded, Under
<1> QED
  BY <1>1, <1>2, <1>3 DEF Next

\* It holds of the client when the game has one slot only.
OnlyInv == \A s \in Slot : Slot = {s} => Alone(s)

\* The only client of a game is paused after a command list if, and only if, the server
\* was when it broadcast that list, through any number of joins and of pauses by either
\* (PauseAgrees: what Game::setPaused refuses while somebody joins is never sent to a
\* client that takes it).
THEOREM PauseAgreesHolds == Spec => []PauseAgrees
<1>1. Init => OnlyInv
  BY AloneInit DEF OnlyInv
<1>2. IInv /\ IInv' /\ [Next]_vars /\ OnlyInv => OnlyInv'
  BY AloneKeeps DEF OnlyInv
<1>3. ASSUME IInv, OnlyInv PROVE PauseAgrees
  <2> SUFFICES ASSUME NEW s \in Slot, Slot = {s}, stage[s] = "playing",
                      world[s].given # <<>>
               PROVE  world[s].paused = log[Last(world[s].given)].paused
    BY DEF PauseAgrees
  <2>1. Alone(s) /\ Loaded(s) /\ Types /\ ListInv(s)
    BY <1>3 DEF OnlyInv, IInv, PerSlot, Loaded
  <2>2. Latest(s) \in Range(world[s].given)
    BY <1>3, <2>1, AloneFacts
  <2>3. Latest(s) \in DOMAIN log /\ Latest(s) # 0 /\ log[Latest(s)] \in Entry
    BY <2>1, <2>2, LogTypes DEF ListInv
  <2>4. world[s].paused <=> log[Latest(s)].paused
    BY <2>1, <2>3 DEF Alone, PausedBy
  <2>5. world[s].paused \in BOOLEAN /\ log[Latest(s)].paused \in BOOLEAN
    BY <2>1, <2>3 DEF Types, World, Entry
  <2>6. Latest(s) = Last(world[s].given)
    BY DEF Latest
  <2> QED
    BY <2>4, <2>5, <2>6
<1> QED
  BY <1>1, <1>2, <1>3, Invariant, PTL DEF Spec
=============================================================================
