------------------------------ MODULE TeamVote ------------------------------
(***************************************************************************)
(* Players who change their team in a network game.  Every machine has a   *)
(* world of its own and gives it the same commands in the same order.  Who *)
(* wants to join a team of others asks its members: each machine keeps the *)
(* votes in its world.  A member's vote is noted in the world of its own   *)
(* machine when it is cast and travels as a command to all of them.        *)
(*                                                                         *)
(* Abstractions.                                                           *)
(*   - Lockstep is a log of commands that every machine gives in order,    *)
(*     no client ahead of the server; a request enters the log when it is  *)
(*     made, and what a machine has not given yet is on its way.           *)
(*   - A join is its pause, the newcomer's copy of the saved game and the  *)
(*     resume (InGameJoin has the rest).                                   *)
(*   - Computer players vote as the player of the server's machine does.   *)
(*   - Observers, the end of a game and the messages are left out.         *)
(***************************************************************************)
EXTENDS Naturals, Sequences, FiniteSets

CONSTANTS
    Faction,     \* the factions, by number
    Machine,
    Server,
    Newcomer,    \* machines that are not there from the start
    Owner,       \* the machine of each faction's player
    Asker,       \* the factions whose players ask to change
    Team,        \* team numbers
    InitTeam,
    MaxCommands, \* bound on the log
    None

ASSUME FactionAssumption ==
    /\ Faction \subseteq Nat
    /\ Asker \subseteq Faction
    /\ Owner \in [Faction -> Machine]
    /\ InitTeam \in [Faction -> Team]
ASSUME MachineAssumption ==
    /\ Newcomer \subseteq Machine
    /\ Server \in Machine \ Newcomer
ASSUME TeamAssumption == Team \subseteq Nat /\ MaxCommands \in Nat
ASSUME NoneAssumption == None \notin [new : Team, voted : BOOLEAN, allow : BOOLEAN, given : BOOLEAN]

VARIABLES
    team,   \* of each machine: the team of each faction
    vote,   \* of each machine: switchTeamVotes of each faction, by who asks
    mute,   \* of each machine: pauseNetworkCommands
    log,    \* the commands of the game
    done,   \* how many of them each machine has given
    away,   \* newcomers that have not joined yet
    thrown, \* machines that have met a vote nobody had asked for
    ahead   \* machines that have counted a vote before its command was given

vars == <<team, vote, mute, log, done, away, thrown, ahead>>

Switch == [kind : {"switch"}, by : Faction, team : Team]
VoteCommand == [kind : {"vote"}, by : Faction, about : Faction, yes : BOOLEAN]
PauseResume == [kind : {"pause", "resume"}]
Command == Switch \cup VoteCommand \cup PauseResume

\* given tells whether the vote's command has been given: the code does not know it.
Vote == [new : Team, voted : BOOLEAN, allow : BOOLEAN, given : BOOLEAN]

Playing(m) == m \notin away \cup thrown

-----------------------------------------------------------------------------
Init ==
    /\ team = [m \in Machine |-> InitTeam]
    /\ vote = [m \in Machine |-> [v \in Faction |-> [f \in Faction |-> None]]]
    /\ mute = [m \in Machine |-> FALSE]
    /\ log = << >>
    /\ done = [m \in Machine |-> 0]
    /\ away = Newcomer
    /\ thrown = {}
    /\ ahead = {}

-----------------------------------------------------------------------------
(* Players. *)

Members(m, t) == {i \in Faction : team[m][i] = t}

\* The first team nobody has.
FirstUnusedTeamNumber(m) ==
    {t \in Team : Members(m, t) = {} /\ \A u \in Team : Members(m, u) = {} => t <= u}

\* The menu has the teams of the others and a new one.
Offered(f) == {team[Owner[f]][i] : i \in Faction} \ {team[Owner[f]][f]}

Push(c) ==
    /\ Len(log) < MaxCommands
    /\ log' = Append(log, c)

TrySwitchTeam(f, t) ==
    /\ f \in Asker
    /\ Playing(Owner[f])
    /\ ~mute[Owner[f]]
    /\ t \in Offered(f) \cup FirstUnusedTeamNumber(Owner[f])
    /\ Push([kind |-> "switch", by |-> f, team |-> t])
    /\ UNCHANGED <<team, vote, mute, done, away, thrown, ahead>>

\* Who asks v and has not been answered.
Pending(m, v) == {f \in Faction : vote[m][v][f] # None /\ ~vote[m][v][f].voted}

\* The first of them.
FirstSwitchTeamVote(m, v) == {f \in Pending(m, v) : \A g \in Pending(m, v) : f <= g}

\* v's player answers.  The vote is noted at once; its command is sent unless commands are
\* held back for a join.
AnswerSwitchTeamVote(v, f, yes) ==
    LET m == Owner[v]
    IN  /\ Playing(m)
        /\ f \in FirstSwitchTeamVote(m, v)
        /\ vote' = [vote EXCEPT ![m][v][f] = [@ EXCEPT !.voted = TRUE, !.allow = yes, !.given = FALSE]]
        /\ IF mute[m]
              THEN UNCHANGED log
              ELSE Push([kind |-> "vote", by |-> v, about |-> f, yes |-> yes])
        /\ UNCHANGED <<team, mute, done, away, thrown, ahead>>

-----------------------------------------------------------------------------
(* Commands given to a machine's world. *)

\* The next command of m, of the given kind.
Gives(m, kind) ==
    /\ Playing(m)
    /\ done[m] < Len(log)
    /\ m # Server => done[m] < done[Server]
    /\ log[done[m] + 1].kind = kind
    /\ done' = [done EXCEPT ![m] = @ + 1]

NextCommand(m) == log[done[m] + 1]

\* Mutant of AutoJoinTeam: it asks the server's world.
AutoJoinTeamOfServer(m, t) == Members(Server, t) = {}

\* Nobody is in the team.
AutoJoinTeam(m, t) == Members(m, t) = {}

\* Mutant of Ask: only the members whose players sit at this machine are asked.
AskOwnPlayers(m, f, t) ==
    [i \in Faction |-> IF i \in Members(m, t) /\ Owner[i] = m
        THEN [vote[m][i] EXCEPT ![f] = [new |-> t, voted |-> FALSE, allow |-> FALSE, given |-> FALSE]]
        ELSE vote[m][i]]

\* Every member of t has to vote about f.
Ask(m, f, t) ==
    [i \in Faction |-> IF i \in Members(m, t)
        THEN [vote[m][i] EXCEPT ![f] = [new |-> t, voted |-> FALSE, allow |-> FALSE, given |-> FALSE]]
        ELSE vote[m][i]]

\* Who asks joins an empty team; otherwise its members have to vote.
GiveSwitchTeam(m) ==
    /\ Gives(m, "switch")
    /\ LET f == NextCommand(m).by
           t == NextCommand(m).team
       IN  IF AutoJoinTeam(m, t)
              THEN /\ team' = [team EXCEPT ![m][f] = t]
                   /\ vote' = vote
              ELSE /\ team' = team
                   /\ vote' = [vote EXCEPT ![m] = Ask(m, f, t)]
    /\ UNCHANGED <<mute, log, away, thrown, ahead>>

\* The votes of the members of t about f, with those of v as they are to be.
Voted(m, t, f, v) == {i \in Members(m, t) : vote[m][i][f] # None /\ (vote[m][i][f].voted \/ i = v)}
VotedYes(m, t, f, v, yes) ==
    {i \in Voted(m, t, f, v) : IF i = v THEN yes ELSE vote[m][i][f].allow}

\* "Join the new team if > 50 % said yes"
Majority(yes, members) == 2 * yes > members

\* Mutant of Joins: the faction the counting loop stopped at changes its team.
JoinsLastCounted(m, c) == CHOOSE i \in Faction : \A j \in Faction : j <= i

\* Who changes its team by the vote.
Joins(m, c) == c.about

GiveSwitchTeamVote(m) ==
    /\ Gives(m, "vote")
    /\ vote[m][NextCommand(m).by][NextCommand(m).about] # None
    /\ LET c == NextCommand(m)
           t == vote[m][c.by][c.about].new
           yes == VotedYes(m, t, c.about, c.by, c.yes)
       IN  /\ vote' = [vote EXCEPT ![m][c.by][c.about] = [new |-> t, voted |-> TRUE,
                                                          allow |-> c.yes, given |-> TRUE]]
           /\ team' = IF Majority(Cardinality(yes), Cardinality(Members(m, t)))
                         THEN [team EXCEPT ![m][Joins(m, c)] = t]
                         ELSE team
           /\ ahead' = IF \E i \in Voted(m, t, c.about, c.by) \ {c.by} : ~vote[m][i][c.about].given
                          THEN ahead \cup {m} ELSE ahead
    /\ UNCHANGED <<mute, log, away, thrown>>

\* "vote == NULL": the game ends there.
ThrowVoteIsNull(m) ==
    /\ Gives(m, "vote")
    /\ vote[m][NextCommand(m).by][NextCommand(m).about] = None
    /\ thrown' = thrown \cup {m}
    /\ UNCHANGED <<team, vote, mute, log, away, ahead>>

\* The pause of a join holds commands back, its end lets them go.
GivePauseResume(m) ==
    /\ \E kind \in {"pause", "resume"} :
          /\ Gives(m, kind)
          /\ mute' = [mute EXCEPT ![m] = kind = "pause"]
    /\ UNCHANGED <<team, vote, log, away, thrown, ahead>>

-----------------------------------------------------------------------------
(* A join. *)

Paused == \E k \in 1 .. Len(log) : log[k].kind = "pause" /\ \A j \in k .. Len(log) : log[j].kind # "resume"

PauseForJoin ==
    /\ away # {}
    /\ ~Paused
    /\ Playing(Server)
    /\ Push([kind |-> "pause"])
    /\ UNCHANGED <<team, vote, mute, done, away, thrown, ahead>>

\* The newcomer loads what the server has saved: the votes are not in it.
LoadGame(m) ==
    /\ m \in away
    /\ mute[Server]
    /\ done[Server] = Len(log)
    /\ team' = [team EXCEPT ![m] = team[Server]]
    /\ mute' = [mute EXCEPT ![m] = TRUE]
    /\ done' = [done EXCEPT ![m] = done[Server]]
    /\ away' = away \ {m}
    /\ UNCHANGED <<vote, log, thrown, ahead>>

ResumeAfterJoin ==
    /\ mute[Server]
    /\ Paused
    /\ Push([kind |-> "resume"])
    /\ UNCHANGED <<team, vote, mute, done, away, thrown, ahead>>

Next ==
    \/ \E f \in Faction, t \in Team : TrySwitchTeam(f, t)
    \/ \E v, f \in Faction, yes \in BOOLEAN : AnswerSwitchTeamVote(v, f, yes)
    \/ \E m \in Machine : GiveSwitchTeam(m)
    \/ \E m \in Machine : GiveSwitchTeamVote(m)
    \/ \E m \in Machine : ThrowVoteIsNull(m)
    \/ \E m \in Machine : GivePauseResume(m)
    \/ PauseForJoin
    \/ \E m \in Machine : LoadGame(m)
    \/ ResumeAfterJoin

Spec == Init /\ [][Next]_vars

-----------------------------------------------------------------------------
(* Properties. *)

TypeOK ==
    /\ team \in [Machine -> [Faction -> Team]]
    /\ vote \in [Machine -> [Faction -> [Faction -> Vote \cup {None}]]]
    /\ mute \in [Machine -> BOOLEAN]
    /\ log \in Seq(Command) /\ Len(log) <= MaxCommands
    /\ done \in [Machine -> 0 .. Len(log)]
    /\ away \subseteq Newcomer
    /\ thrown \subseteq Machine
    /\ ahead \subseteq Machine

\* On every machine a faction is in the team it began with or in one for which its
\* own player has asked, by a command the machine has given.
AskedFor(m, f, t) ==
    \E k \in 1 .. done[m] : log[k] = [kind |-> "switch", by |-> f, team |-> t]

OnlyWhoAsks ==
    \A m \in Machine \ away, f \in Faction :
        team[m][f] = InitTeam[f] \/ AskedFor(m, f, team[m][f])

Veteran == Machine \ Newcomer

\* Two machines that were there from the start and have given the same commands have the
\* same teams, unless one has counted a vote it had only noted.
TeamsAgreeInStep ==
    \A m, n \in Veteran \ ahead : done[m] = done[n] => team[m] = team[n]

\* As long as no machine has done so, every vote finds what it answers on the machines
\* that were there from the start.
VotesAreFound == ahead \subseteq Newcomer => thrown \subseteq Newcomer

\* The machines have the same teams when they have given the same commands.
TeamsAgree ==
    \A m, n \in Veteran : done[m] = done[n] => team[m] = team[n]
=============================================================================
