--------------------------- MODULE TeamVoteProofs ---------------------------
(***************************************************************************)
(* Proofs about TeamVote, for any factions, machines and commands: no      *)
(* machine moves a faction to a team its player has not asked for, however *)
(* votes are cast early, late, twice or for an older request.  What makes  *)
(* it so is that every vote kept by a world is about a request that world  *)
(* has been given.  Machines that count no vote before its command agree   *)
(* at the same place of the log: their worlds follow one history, which is *)
(* a function of the log alone.                                            *)
(***************************************************************************)
EXTENDS TeamVote, TLAPS

USE FactionAssumption, MachineAssumption, TeamAssumption, NoneAssumption

VotesAreAskedFor ==
    \A m \in Machine, v \in Faction, f \in Faction :
        vote[m][v][f] # None => AskedFor(m, f, vote[m][v][f].new)

IInv == TypeOK /\ OnlyWhoAsks /\ VotesAreAskedFor

-----------------------------------------------------------------------------
(* Types. *)

LEMMA NextCommandType ==
    ASSUME TypeOK, NEW m \in Machine, done[m] < Len(log)
    PROVE  NextCommand(m) \in Command /\ done[m] + 1 \in 1 .. Len(log)
  BY DEF TypeOK, NextCommand

LEMMA SwitchType ==
    ASSUME NEW c \in Command, c.kind = "switch"
    PROVE  /\ c.by \in Faction /\ c.team \in Team
           /\ c = [kind |-> "switch", by |-> c.by, team |-> c.team]
  BY DEF Command, Switch, VoteCommand, PauseResume

LEMMA SwitchEffect ==
    ASSUME TypeOK, NEW m \in Machine, GiveSwitchTeam(m)
    PROVE  \E f \in Faction, t \in Team :
             /\ NextCommand(m) = [kind |-> "switch", by |-> f, team |-> t]
             /\ \/ team' = [team EXCEPT ![m][f] = t] /\ vote' = vote
                \/ team' = team /\ vote' = [vote EXCEPT ![m] = Ask(m, f, t)]
<1> DEFINE f == NextCommand(m).by
           t == NextCommand(m).team
<1>1. done[m] < Len(log) /\ NextCommand(m).kind = "switch"
  BY DEF GiveSwitchTeam, Gives, NextCommand
<1>2. /\ f \in Faction /\ t \in Team
      /\ NextCommand(m) = [kind |-> "switch", by |-> f, team |-> t]
  BY <1>1, NextCommandType, SwitchType
<1>3. \/ team' = [team EXCEPT ![m][f] = t] /\ vote' = vote
      \/ team' = team /\ vote' = [vote EXCEPT ![m] = Ask(m, f, t)]
  BY Zenon DEF GiveSwitchTeam
<1> HIDE DEF f, t
<1> QED
  BY <1>2, <1>3

LEMMA VoteCommandType ==
    ASSUME NEW c \in Command, c.kind = "vote"
    PROVE  c.by \in Faction /\ c.about \in Faction /\ c.yes \in BOOLEAN
  BY DEF Command, Switch, VoteCommand, PauseResume

LEMMA PushType ==
    ASSUME TypeOK, NEW c \in Command, Push(c)
    PROVE  /\ log' \in Seq(Command) /\ Len(log') <= MaxCommands
           /\ done \in [Machine -> 0 .. Len(log')]
           /\ \A k \in 1 .. Len(log) : log'[k] = log[k]
  BY DEF TypeOK, Push

LEMMA GivesType ==
    ASSUME TypeOK, NEW m \in Machine, NEW kind, Gives(m, kind), UNCHANGED log
    PROVE  /\ done' \in [Machine -> 0 .. Len(log')]
           /\ \A n \in Machine : done[n] <= done'[n]
           /\ NextCommand(m) \in Command /\ NextCommand(m).kind = kind
           /\ done'[m] = done[m] + 1 /\ log'[done'[m]] = NextCommand(m)
           /\ done'[m] \in 1 .. done'[m]
  BY DEF TypeOK, Gives, NextCommand

LEMMA AskType ==
    ASSUME TypeOK, NEW m \in Machine, NEW f \in Faction, NEW t \in Team
    PROVE  Ask(m, f, t) \in [Faction -> [Faction -> Vote \cup {None}]]
  BY DEF TypeOK, Ask, Vote

LEMMA TeamType ==
    ASSUME TypeOK, NEW m \in Machine, NEW f \in Faction, NEW t \in Team,
           team' = team \/ team' = [team EXCEPT ![m][f] = t]
    PROVE  team' \in [Machine -> [Faction -> Team]]
<1>1. team \in [Machine -> [Faction -> Team]]
  BY DEF TypeOK
<1>2. [team[m] EXCEPT ![f] = t] \in [Faction -> Team]
  BY <1>1
<1>3. [team EXCEPT ![m] = [team[m] EXCEPT ![f] = t]] \in [Machine -> [Faction -> Team]]
  BY <1>1, <1>2
<1> QED
  BY <1>1, <1>3

LEMMA VoteType ==
    ASSUME TypeOK, NEW m \in Machine, NEW v \in Faction, NEW f \in Faction, vote[m][v][f] # None
    PROVE  vote[m][v][f] \in Vote /\ vote[m][v][f].new \in Team
<1>1. vote \in [Machine -> [Faction -> [Faction -> Vote \cup {None}]]]
  BY DEF TypeOK
<1>2. vote[m][v][f] \in Vote
  BY <1>1
<1> QED
  BY <1>2 DEF Vote

LEMMA TypeStep == TypeOK /\ [Next]_vars => TypeOK'
<1> SUFFICES ASSUME TypeOK, [Next]_vars PROVE TypeOK'
  OBVIOUS
<1>1. ASSUME NEW f \in Faction, NEW t \in Team, TrySwitchTeam(f, t) PROVE TypeOK'
  <2>1. [kind |-> "switch", by |-> f, team |-> t] \in Command
    BY DEF Command, Switch
  <2> QED
    BY <1>1, <2>1, PushType DEF TrySwitchTeam, TypeOK
<1>2. ASSUME NEW v \in Faction, NEW f \in Faction, NEW yes \in BOOLEAN,
             AnswerSwitchTeamVote(v, f, yes)
      PROVE  TypeOK'
  <2> DEFINE m == Owner[v]
             c == [kind |-> "vote", by |-> v, about |-> f, yes |-> yes]
  <2>1. m \in Machine /\ c \in Command
    BY DEF Command, VoteCommand
  <2>2. vote[m][v][f] \in Vote
    BY <1>2, <2>1 DEF AnswerSwitchTeamVote, FirstSwitchTeamVote, Pending, TypeOK
  <2>3. [vote[m][v][f] EXCEPT !.voted = TRUE, !.allow = yes, !.given = FALSE] \in Vote
    BY <2>2 DEF Vote
  <2>4. vote' \in [Machine -> [Faction -> [Faction -> Vote \cup {None}]]]
    BY <1>2, <2>1, <2>3 DEF AnswerSwitchTeamVote, TypeOK
  <2>5. log' \in Seq(Command) /\ Len(log') <= MaxCommands /\ done \in [Machine -> 0 .. Len(log')]
    BY <1>2, <2>1, PushType DEF AnswerSwitchTeamVote, TypeOK
  <2> QED
    BY <1>2, <2>4, <2>5 DEF AnswerSwitchTeamVote, TypeOK
<1>3. ASSUME NEW m \in Machine, GiveSwitchTeam(m) PROVE TypeOK'
  <2>1. done' \in [Machine -> 0 .. Len(log')]
    BY <1>3, GivesType DEF GiveSwitchTeam
  <2>2. PICK f \in Faction, t \in Team :
           \/ team' = [team EXCEPT ![m][f] = t] /\ vote' = vote
           \/ team' = team /\ vote' = [vote EXCEPT ![m] = Ask(m, f, t)]
    BY <1>3, SwitchEffect
  <2>3. team' \in [Machine -> [Faction -> Team]]
    BY <2>2, TeamType
  <2>4. Ask(m, f, t) \in [Faction -> [Faction -> Vote \cup {None}]]
    BY AskType
  <2>5. vote' \in [Machine -> [Faction -> [Faction -> Vote \cup {None}]]]
    BY <2>2, <2>4 DEF TypeOK
  <2> QED
    BY <1>3, <2>1, <2>3, <2>5 DEF GiveSwitchTeam, TypeOK
<1>4. ASSUME NEW m \in Machine, GiveSwitchTeamVote(m) PROVE TypeOK'
  <2> DEFINE c == NextCommand(m)
             t == vote[m][c.by][c.about].new
  <2>1. c.by \in Faction /\ c.about \in Faction /\ c.yes \in BOOLEAN
        /\ done' \in [Machine -> 0 .. Len(log')]
    BY <1>4, GivesType, VoteCommandType DEF GiveSwitchTeamVote
  <2>2. vote[m][c.by][c.about] \in Vote /\ t \in Team
    <3>1. vote[m][c.by][c.about] # None
      BY <1>4 DEF GiveSwitchTeamVote
    <3> QED BY <2>1, <3>1, VoteType
  <2>3. [new |-> t, voted |-> TRUE, allow |-> c.yes, given |-> TRUE] \in Vote
    BY <2>1, <2>2 DEF Vote
  <2>4. vote' = [vote EXCEPT ![m][c.by][c.about] =
                    [new |-> t, voted |-> TRUE, allow |-> c.yes, given |-> TRUE]]
    BY <1>4 DEF GiveSwitchTeamVote
  <2>5. vote' \in [Machine -> [Faction -> [Faction -> Vote \cup {None}]]]
    BY <2>1, <2>3, <2>4 DEF TypeOK
  <2>6. team' = team \/ team' = [team EXCEPT ![m][c.about] = t]
    BY <1>4 DEF GiveSwitchTeamVote, Joins
  <2> HIDE DEF c, t
  <2>7. team' \in [Machine -> [Faction -> Team]]
    BY <2>1, <2>2, <2>6, TeamType
  <2>8. ahead' \subseteq Machine
    BY <1>4 DEF GiveSwitchTeamVote, TypeOK
  <2> QED
    BY <1>4, <2>1, <2>5, <2>7, <2>8 DEF GiveSwitchTeamVote, TypeOK
<1>5. ASSUME NEW m \in Machine, ThrowVoteIsNull(m) PROVE TypeOK'
  BY <1>5, GivesType DEF ThrowVoteIsNull, TypeOK
<1>6. ASSUME NEW m \in Machine, GivePauseResume(m) PROVE TypeOK'
  BY <1>6, GivesType DEF GivePauseResume, TypeOK
<1>7. ASSUME PauseForJoin PROVE TypeOK'
  <2>1. [kind |-> "pause"] \in Command
    BY DEF Command, PauseResume
  <2> QED
    BY <1>7, <2>1, PushType DEF PauseForJoin, TypeOK
<1>8. ASSUME NEW m \in Machine, LoadGame(m) PROVE TypeOK'
  BY <1>8 DEF LoadGame, TypeOK
<1>9. ASSUME ResumeAfterJoin PROVE TypeOK'
  <2>1. [kind |-> "resume"] \in Command
    BY DEF Command, PauseResume
  <2> QED
    BY <1>9, <2>1, PushType DEF ResumeAfterJoin, TypeOK
<1>10. ASSUME UNCHANGED vars PROVE TypeOK'
  BY <1>10 DEF vars, TypeOK
<1> QED
  BY <1>1, <1>2, <1>3, <1>4, <1>5, <1>6, <1>7, <1>8, <1>9, <1>10 DEF Next

LEMMA InitType == Init => TypeOK
  BY DEF Init, TypeOK

\* The team, votes, commands and places have the types of the code's maps and lists.
THEOREM TypeCorrect == Spec => []TypeOK
<1> QED BY InitType, TypeStep, PTL DEF Spec

-----------------------------------------------------------------------------
(* Only who asks changes its team. *)

\* What a machine has been given it stays given.
LEMMA AskedForStays ==
    ASSUME TypeOK, TypeOK', NEW m \in Machine, NEW f, NEW t, AskedFor(m, f, t),
           done[m] <= done'[m], \A k \in 1 .. Len(log) : log'[k] = log[k]
    PROVE  AskedFor(m, f, t)'
<1>1. PICK k \in 1 .. done[m] : log[k] = [kind |-> "switch", by |-> f, team |-> t]
  BY DEF AskedFor
<1>2. k \in 1 .. Len(log) /\ k \in 1 .. done'[m]
  BY DEF TypeOK
<1> QED
  BY <1>1, <1>2 DEF AskedFor

\* A step that moves nobody and asks nobody keeps what has been asked for.
LEMMA NothingNew ==
    ASSUME IInv, TypeOK', away' = away, team' = team,
           \A m \in Machine : done[m] <= done'[m],
           \A k \in 1 .. Len(log) : log'[k] = log[k],
           \A m \in Machine, v \in Faction, f \in Faction :
              vote'[m][v][f] # None => vote[m][v][f] # None /\ vote'[m][v][f].new = vote[m][v][f].new
    PROVE  IInv'
<1>1. OnlyWhoAsks'
  BY AskedForStays DEF IInv, OnlyWhoAsks
<1>2. VotesAreAskedFor'
  BY AskedForStays DEF IInv, VotesAreAskedFor
<1> QED
  BY <1>1, <1>2 DEF IInv

LEMMA IInvStep == IInv /\ [Next]_vars => IInv'
<1> SUFFICES ASSUME IInv, [Next]_vars PROVE IInv'
  OBVIOUS
<1>a. TypeOK /\ TypeOK'
  BY TypeStep DEF IInv
<1>b. \A m \in Machine : done[m] <= done[m]
  BY <1>a DEF TypeOK
<1>p. ASSUME NEW c \in Command, Push(c), UNCHANGED <<team, done, away, vote>> PROVE IInv'
  BY <1>a, <1>b, <1>p, PushType, NothingNew
<1>1. ASSUME NEW f \in Faction, NEW t \in Team, TrySwitchTeam(f, t) PROVE IInv'
  <2>1. [kind |-> "switch", by |-> f, team |-> t] \in Command
    BY DEF Command, Switch
  <2> QED
    BY <1>1, <1>p, <2>1 DEF TrySwitchTeam
<1>2. ASSUME NEW v \in Faction, NEW f \in Faction, NEW yes \in BOOLEAN,
             AnswerSwitchTeamVote(v, f, yes)
      PROVE  IInv'
  <2> DEFINE m == Owner[v]
             c == [kind |-> "vote", by |-> v, about |-> f, yes |-> yes]
             new == [vote[m][v][f] EXCEPT !.voted = TRUE, !.allow = yes, !.given = FALSE]
  <2>1. m \in Machine /\ c \in Command
    BY DEF Command, VoteCommand
  <2>2. vote[m][v][f] \in Vote /\ vote[m][v][f] # None
    BY <1>2, <1>a, <2>1 DEF AnswerSwitchTeamVote, FirstSwitchTeamVote, Pending, TypeOK
  <2>3. new.new = vote[m][v][f].new
    BY <2>2 DEF Vote
  <2>4. vote' = [vote EXCEPT ![m][v][f] = new]
    BY <1>2 DEF AnswerSwitchTeamVote
  <2>5. \A n \in Machine, w \in Faction, g \in Faction :
           vote'[n][w][g] # None => vote[n][w][g] # None /\ vote'[n][w][g].new = vote[n][w][g].new
    <3> HIDE DEF new, m
    <3> TAKE n \in Machine, w \in Faction, g \in Faction
    <3>1. vote \in [Machine -> [Faction -> [Faction -> Vote \cup {None}]]]
      BY <1>a DEF TypeOK
    <3>2. vote'[n][w][g] = IF n = m /\ w = v /\ g = f THEN new ELSE vote[n][w][g]
      BY <2>1, <2>4, <3>1
    <3> QED
      BY <2>2, <2>3, <3>2
  <2>6. \A k \in 1 .. Len(log) : log'[k] = log[k]
    BY <1>2, <1>a, <2>1, PushType DEF AnswerSwitchTeamVote
  <2> QED
    BY <1>2, <1>a, <1>b, <2>5, <2>6, NothingNew DEF AnswerSwitchTeamVote
<1>3. ASSUME NEW m \in Machine, GiveSwitchTeam(m) PROVE IInv'
  <2>0. PICK f \in Faction, t \in Team :
           /\ NextCommand(m) = [kind |-> "switch", by |-> f, team |-> t]
           /\ \/ team' = [team EXCEPT ![m][f] = t] /\ vote' = vote
              \/ team' = team /\ vote' = [vote EXCEPT ![m] = Ask(m, f, t)]
    BY <1>3, <1>a, SwitchEffect
  <2>1. /\ done'[m] \in 1 .. done'[m]
        /\ log'[done'[m]] = [kind |-> "switch", by |-> f, team |-> t]
        /\ \A n \in Machine : done[n] <= done'[n]
    BY <1>3, <1>a, <2>0, GivesType DEF GiveSwitchTeam
  <2>2. AskedFor(m, f, t)'
    BY <2>1 DEF AskedFor
  <2>3. log' = log /\ away' = away
    BY <1>3 DEF GiveSwitchTeam
  <2>4. ASSUME NEW n \in Machine, NEW g, NEW u, AskedFor(n, g, u) PROVE AskedFor(n, g, u)'
    BY <1>a, <2>1, <2>3, <2>4, AskedForStays
  <2>5. CASE team' = [team EXCEPT ![m][f] = t] /\ vote' = vote
    <3>2. OnlyWhoAsks'
      <4> SUFFICES ASSUME NEW n \in Machine, n \notin away, NEW g \in Faction
                   PROVE  (team[n][g] = InitTeam[g] \/ AskedFor(n, g, team[n][g]))'
        BY <2>3 DEF OnlyWhoAsks
      <4>1. CASE n = m /\ g = f
        <5>1. team'[n][g] = t
          BY <1>a, <2>5, <4>1 DEF TypeOK
        <5> QED BY <2>2, <4>1, <5>1 DEF AskedFor
      <4>2. CASE ~(n = m /\ g = f)
        <5>1. team'[n][g] = team[n][g]
          BY <1>a, <2>5, <4>2 DEF TypeOK
        <5>2. team[n][g] = InitTeam[g] \/ AskedFor(n, g, team[n][g])
          BY DEF IInv, OnlyWhoAsks
        <5>3. CASE AskedFor(n, g, team[n][g])
          BY <2>4, <5>1, <5>3 DEF AskedFor
        <5> QED BY <5>1, <5>2, <5>3
      <4> QED BY <4>1, <4>2
    <3>3. VotesAreAskedFor'
      BY <2>4, <2>5 DEF IInv, VotesAreAskedFor, AskedFor
    <3> QED BY <1>a, <3>2, <3>3 DEF IInv
  <2>6. CASE team' = team /\ vote' = [vote EXCEPT ![m] = Ask(m, f, t)]
    <3>2. OnlyWhoAsks'
      BY <2>3, <2>4, <2>6 DEF IInv, OnlyWhoAsks, AskedFor
    <3>3. ASSUME NEW n \in Machine, NEW v \in Faction, NEW g \in Faction, vote'[n][v][g] # None
          PROVE  AskedFor(n, g, vote[n][v][g].new)'
      <4>1. CASE vote'[n][v][g] = vote[n][v][g]
        <5>1. AskedFor(n, g, vote[n][v][g].new)
          BY <3>3, <4>1 DEF IInv, VotesAreAskedFor
        <5> QED BY <2>4, <4>1, <5>1 DEF AskedFor
      <4>2. CASE vote'[n][v][g] # vote[n][v][g]
        <5>1. n = m
          BY <1>a, <2>6, <4>2 DEF TypeOK
        <5>2. vote'[n][v][g] = Ask(m, f, t)[v][g]
          BY <1>a, <2>6, <5>1 DEF TypeOK
        <5>3. g = f /\ vote'[n][v][g].new = t
          BY <1>a, <4>2, <5>1, <5>2 DEF TypeOK, Ask
        <5> QED BY <2>2, <5>1, <5>3 DEF AskedFor
      <4> QED BY <4>1, <4>2
    <3> QED BY <1>a, <3>2, <3>3 DEF IInv, VotesAreAskedFor
  <2> QED BY <2>0, <2>5, <2>6
<1>4. ASSUME NEW m \in Machine, GiveSwitchTeamVote(m) PROVE IInv'
  <2> DEFINE c == NextCommand(m)
             t == vote[m][c.by][c.about].new
             new == [new |-> t, voted |-> TRUE, allow |-> c.yes, given |-> TRUE]
  <2>1. /\ c.by \in Faction /\ c.about \in Faction
        /\ \A n \in Machine : done[n] <= done'[n]
    BY <1>4, <1>a, GivesType, VoteCommandType DEF GiveSwitchTeamVote
  <2>2. vote[m][c.by][c.about] # None
    BY <1>4 DEF GiveSwitchTeamVote
  <2>3. log' = log /\ away' = away
    BY <1>4 DEF GiveSwitchTeamVote
  <2>4. ASSUME NEW n \in Machine, NEW g, NEW u, AskedFor(n, g, u) PROVE AskedFor(n, g, u)'
    BY <1>a, <2>1, <2>3, <2>4, AskedForStays
  <2>5. AskedFor(m, c.about, t)
    BY <2>1, <2>2 DEF IInv, VotesAreAskedFor
  <2>6. vote' = [vote EXCEPT ![m][c.by][c.about] = new]
    BY <1>4 DEF GiveSwitchTeamVote
  <2>7. team' = team \/ team' = [team EXCEPT ![m][c.about] = t]
    BY <1>4 DEF GiveSwitchTeamVote, Joins
  <2> HIDE DEF c, t
  <2>8. ASSUME NEW n \in Machine, n \notin away, NEW g \in Faction
        PROVE  (team[n][g] = InitTeam[g] \/ AskedFor(n, g, team[n][g]))'
    <3>1. CASE team'[n][g] = team[n][g]
      <4>1. team[n][g] = InitTeam[g] \/ AskedFor(n, g, team[n][g])
        BY <2>8 DEF IInv, OnlyWhoAsks
      <4> QED BY <2>4, <3>1, <4>1 DEF AskedFor
    <3>2. CASE team'[n][g] # team[n][g]
      <4>1. n = m /\ g = c.about /\ team'[n][g] = t
        BY <1>a, <2>1, <2>7, <3>2 DEF TypeOK
      <4> QED BY <2>4, <2>5, <4>1 DEF AskedFor
    <3> QED BY <3>1, <3>2
  <2>9. ASSUME NEW n \in Machine, NEW v \in Faction, NEW g \in Faction, vote'[n][v][g] # None
        PROVE  AskedFor(n, g, vote[n][v][g].new)'
    <3>1. CASE vote'[n][v][g] = vote[n][v][g]
      <4>1. AskedFor(n, g, vote[n][v][g].new)
        BY <2>9, <3>1 DEF IInv, VotesAreAskedFor
      <4> QED BY <2>4, <3>1, <4>1 DEF AskedFor
    <3>2. CASE vote'[n][v][g] # vote[n][v][g]
      <4>1. n = m /\ v = c.by /\ g = c.about /\ vote'[n][v][g] = new
        BY <1>a, <2>1, <2>6, <3>2 DEF TypeOK
      <4>2. vote'[n][v][g].new = t
        BY <4>1
      <4> QED BY <2>4, <2>5, <4>1, <4>2 DEF AskedFor
    <3> QED BY <3>1, <3>2
  <2> QED
    BY <1>a, <2>3, <2>8, <2>9 DEF IInv, OnlyWhoAsks, VotesAreAskedFor
<1>5. ASSUME NEW m \in Machine, ThrowVoteIsNull(m) PROVE IInv'
  BY <1>5, <1>a, GivesType, NothingNew DEF ThrowVoteIsNull
<1>6. ASSUME NEW m \in Machine, GivePauseResume(m) PROVE IInv'
  BY <1>6, <1>a, GivesType, NothingNew DEF GivePauseResume
<1>7. ASSUME PauseForJoin PROVE IInv'
  <2>1. [kind |-> "pause"] \in Command
    BY DEF Command, PauseResume
  <2> QED
    BY <1>7, <1>p, <2>1 DEF PauseForJoin
<1>8. ASSUME NEW m \in Machine, LoadGame(m) PROVE IInv'
  <2>1. /\ team' = [team EXCEPT ![m] = team[Server]]
        /\ done' = [done EXCEPT ![m] = done[Server]]
        /\ away' = away \ {m} /\ m \in away
        /\ log' = log /\ vote' = vote /\ done[Server] = Len(log)
    BY <1>8 DEF LoadGame
  <2>2. Server \in Machine \ away /\ \A n \in Machine : done[n] <= done'[n]
    BY <1>a, <2>1 DEF TypeOK
  <2>3. ASSUME NEW n \in Machine, NEW g, NEW u, AskedFor(n, g, u) PROVE AskedFor(n, g, u)'
    BY <1>a, <2>1, <2>2, <2>3, AskedForStays
  <2>4. VotesAreAskedFor'
    <3>1. ASSUME NEW n \in Machine, NEW v \in Faction, NEW g \in Faction, vote'[n][v][g] # None
          PROVE  AskedFor(n, g, vote[n][v][g].new)'
      <4>1. AskedFor(n, g, vote[n][v][g].new) /\ vote'[n][v][g] = vote[n][v][g]
        BY <2>1, <3>1 DEF IInv, VotesAreAskedFor
      <4> QED BY <2>3, <4>1 DEF AskedFor
    <3> QED BY <3>1 DEF VotesAreAskedFor
  <2>5. ASSUME NEW n \in Machine, n \notin away', NEW g \in Faction
        PROVE  (team[n][g] = InitTeam[g] \/ AskedFor(n, g, team[n][g]))'
    <3>1. CASE n = m
      <4>1. team'[n][g] = team[Server][g] /\ done'[n] = done[Server]
        BY <1>a, <2>1, <3>1 DEF TypeOK
      <4>2. team[Server][g] = InitTeam[g] \/ AskedFor(Server, g, team[Server][g])
        BY <2>2 DEF IInv, OnlyWhoAsks
      <4> QED BY <2>1, <4>1, <4>2 DEF AskedFor
    <3>2. CASE n # m
      <4>1. n \notin away /\ team'[n][g] = team[n][g]
        BY <1>a, <2>1, <2>5, <3>2 DEF TypeOK
      <4>2. team[n][g] = InitTeam[g] \/ AskedFor(n, g, team[n][g])
        BY <4>1 DEF IInv, OnlyWhoAsks
      <4> QED BY <2>3, <4>1, <4>2 DEF AskedFor
    <3> QED BY <3>1, <3>2
  <2>6. OnlyWhoAsks'
    BY <2>5 DEF OnlyWhoAsks
  <2> QED BY <1>a, <2>4, <2>6 DEF IInv
<1>9. ASSUME ResumeAfterJoin PROVE IInv'
  <2>1. [kind |-> "resume"] \in Command
    BY DEF Command, PauseResume
  <2> QED
    BY <1>9, <1>p, <2>1 DEF ResumeAfterJoin
<1>10. ASSUME UNCHANGED vars PROVE IInv'
  BY <1>10 DEF vars, IInv, TypeOK, OnlyWhoAsks, VotesAreAskedFor, AskedFor
<1> QED
  BY <1>1, <1>2, <1>3, <1>4, <1>5, <1>6, <1>7, <1>8, <1>9, <1>10 DEF Next

LEMMA InitIInv == Init => IInv
  BY InitType DEF Init, IInv, OnlyWhoAsks, VotesAreAskedFor, TypeOK

\* No faction is moved to a team its own player has not asked for: neither by the votes of
\* others (giveNetworkCommand counts them for the faction of the request) nor by a join.
THEOREM OnlyWhoAsksHolds == Spec => []OnlyWhoAsks
<1>1. IInv => OnlyWhoAsks
  BY DEF IInv
<1> QED BY InitIInv, IInvStep, <1>1, PTL DEF Spec

-----------------------------------------------------------------------------
(***************************************************************************)
(* Machines that have given the same commands have the same teams, unless  *)
(* one has counted a vote before its command was given.  What such a       *)
(* machine knows by commands alone, the teams, who was asked for what and  *)
(* the votes that were given, is decided by the commands: there is one     *)
(* history of it for all machines, and each is at its place in it.         *)
(***************************************************************************)

\* What is known before any command, and after the command c.
Nothing == [team |-> InitTeam,
            vote |-> [v \in Faction |-> [f \in Faction |->
                        [asked |-> FALSE, new |-> 0, given |-> FALSE, allow |-> FALSE]]]]

Together(s, t) == {i \in Faction : s.team[i] = t}

AfterSwitch(s, c) ==
    IF Together(s, c.team) = {}
       THEN [team |-> [g \in Faction |-> IF g = c.by THEN c.team ELSE s.team[g]],
             vote |-> s.vote]
       ELSE [team |-> s.team,
             vote |-> [v \in Faction |-> [g \in Faction |->
                         IF v \in Together(s, c.team) /\ g = c.by
                            THEN [asked |-> TRUE, new |-> c.team,
                                  given |-> FALSE, allow |-> FALSE]
                            ELSE s.vote[v][g]]]]

\* The members of the team t who have said yes about f, when v's command says yes.
GivenYes(s, t, f, v, yes) ==
    {i \in Together(s, t) :
        /\ s.vote[i][f].asked
        /\ \/ i = v /\ yes
           \/ i # v /\ s.vote[i][f].given /\ s.vote[i][f].allow}

AfterVote(s, c) ==
    LET t == s.vote[c.by][c.about].new
        yes == GivenYes(s, t, c.about, c.by, c.yes)
        joins == Majority(Cardinality(yes), Cardinality(Together(s, t)))
    IN  [team |-> [g \in Faction |-> IF g = c.about /\ joins THEN t ELSE s.team[g]],
         vote |-> [v \in Faction |-> [g \in Faction |->
                     IF v = c.by /\ g = c.about
                        THEN [asked |-> TRUE, new |-> t, given |-> TRUE, allow |-> c.yes]
                        ELSE s.vote[v][g]]]]

After(s, c) ==
    IF c.kind = "switch" THEN AfterSwitch(s, c)
    ELSE IF c.kind = "vote" /\ s.vote[c.by][c.about].asked THEN AfterVote(s, c)
    ELSE s

\* The world of m has what s has; a vote its command has not confirmed counts
\* for nothing.
SameVote(x, y) ==
    /\ x # None <=> y.asked
    /\ x # None => /\ x.new = y.new
                   /\ x.given <=> y.given
                   /\ x.given => (x.allow <=> y.allow)

Matches(m, s) ==
    /\ \A f \in Faction : team[m][f] = s.team[f]
    /\ \A v \in Faction, f \in Faction : SameVote(vote[m][v][f], s.vote[v][f])

\* Only a vote that was cast is confirmed.
GivenWasCast ==
    \A m \in Machine, v \in Faction, f \in Faction :
        vote[m][v][f] # None /\ vote[m][v][f].given => vote[m][v][f].voted

\* H is a history of the log, and the machines are at their places in it.
Unfolds(H) == /\ H[0] = Nothing
              /\ \A k \in 0 .. Len(log) - 1 : H[k + 1] = After(H[k], log[k + 1])

InPlace(H) == \A m \in Veteran \ ahead : Matches(m, H[done[m]])

\* Who has been asked stays asked.
StaysAsked(H) ==
    \A j, k \in 0 .. Len(log) : j <= k =>
        \A v, f \in Faction : H[j].vote[v][f].asked => H[k].vote[v][f].asked

\* Newcomers only watch, and no machine from the start has counted early.
Orderly == /\ \A f \in Faction : Owner[f] \in Veteran
           /\ ahead \subseteq Newcomer

\* Then a vote's command always answers what was asked before it.
AnswersAsked(H) ==
    Orderly => \A k \in 0 .. Len(log) - 1 :
        log[k + 1].kind = "vote" => H[k].vote[log[k + 1].by][log[k + 1].about].asked

History(H) == Unfolds(H) /\ InPlace(H) /\ StaysAsked(H) /\ AnswersAsked(H)

HistoryInv == /\ TypeOK
              /\ GivenWasCast
              /\ \E H : History(H)
              /\ Orderly => thrown \subseteq Newcomer

\* Who is in a team, in a world and in the history.
LEMMA SameTogether ==
    ASSUME NEW m, NEW s, Matches(m, s), NEW t
    PROVE  Members(m, t) = Together(s, t)
  BY DEF Matches, Members, Together

\* A command asks nobody to forget.
LEMMA AfterStaysAsked ==
    ASSUME NEW s, NEW c, NEW v \in Faction, NEW f \in Faction, s.vote[v][f].asked
    PROVE  After(s, c).vote[v][f].asked
<1>1. CASE c.kind = "switch"
  <2>1. After(s, c) = AfterSwitch(s, c)
    BY <1>1 DEF After
  <2>2. CASE Together(s, c.team) = {}
    BY <2>1, <2>2 DEF AfterSwitch
  <2>3. CASE Together(s, c.team) # {}
    <3>1. After(s, c).vote[v][f] = IF v \in Together(s, c.team) /\ f = c.by
                                      THEN [asked |-> TRUE, new |-> c.team,
                                            given |-> FALSE, allow |-> FALSE]
                                      ELSE s.vote[v][f]
      BY <2>1, <2>3 DEF AfterSwitch
    <3>2. CASE v \in Together(s, c.team) /\ f = c.by
      BY <3>1, <3>2
    <3>3. CASE ~(v \in Together(s, c.team) /\ f = c.by)
      BY <3>1, <3>3
    <3> QED
      BY <3>2, <3>3
  <2> QED
    BY <2>2, <2>3
<1>2. CASE c.kind # "switch" /\ c.kind = "vote" /\ s.vote[c.by][c.about].asked
  <2>1. After(s, c) = AfterVote(s, c)
    BY <1>2 DEF After
  <2> DEFINE n == [asked |-> TRUE, new |-> s.vote[c.by][c.about].new,
                   given |-> TRUE, allow |-> c.yes]
  <2>2. After(s, c).vote[v][f] = IF v = c.by /\ f = c.about THEN n ELSE s.vote[v][f]
    BY <2>1 DEF AfterVote
  <2>3. n.asked
    OBVIOUS
  <2> HIDE DEF n
  <2>4. CASE v = c.by /\ f = c.about
    BY <2>2, <2>3, <2>4
  <2>5. CASE ~(v = c.by /\ f = c.about)
    BY <2>2, <2>5
  <2> QED
    BY <2>4, <2>5
<1>3. CASE c.kind # "switch" /\ ~(c.kind = "vote" /\ s.vote[c.by][c.about].asked)
  <2>1. After(s, c) = s
    BY <1>3 DEF After
  <2> QED
    BY <2>1
<1> QED
  BY <1>1, <1>2, <1>3

\* A machine that is given a request goes on as the history does.
LEMMA SwitchMatches ==
    ASSUME TypeOK, NEW m \in Machine, GiveSwitchTeam(m), NEW s, Matches(m, s),
           NEW c, c = NextCommand(m)
    PROVE  Matches(m, After(s, c))'
<1> DEFINE f == c.by
           t == c.team
           w == After(s, c)
<1>1. c.kind = "switch" /\ f \in Faction /\ t \in Team
  <2>1. done[m] < Len(log) /\ c.kind = "switch"
    BY DEF GiveSwitchTeam, Gives, NextCommand
  <2> QED
    BY <2>1, NextCommandType, SwitchType
<1>2. w = AfterSwitch(s, c)
  BY <1>1 DEF After
<1>3. \/ /\ Members(m, t) = {}
         /\ team' = [team EXCEPT ![m][f] = t] /\ vote' = vote
      \/ /\ Members(m, t) # {}
         /\ team' = team /\ vote' = [vote EXCEPT ![m] = Ask(m, f, t)]
  BY Zenon DEF GiveSwitchTeam, AutoJoinTeam
<1>4. Members(m, t) = Together(s, t)
  BY SameTogether
<1> HIDE DEF w
<1>6. ASSUME NEW g \in Faction PROVE team'[m][g] = w.team[g]
  <2>1. team[m][g] = s.team[g]
    BY DEF Matches
  <2>2. CASE Members(m, t) = {}
    <3>1. team'[m][g] = IF g = f THEN t ELSE team[m][g]
      BY <1>1, <1>3, <2>2 DEF TypeOK
    <3>2. w.team[g] = IF g = f THEN t ELSE s.team[g]
      BY <1>4, <1>2, <2>2 DEF AfterSwitch
    <3> QED
      BY <2>1, <3>1, <3>2
  <2>3. CASE Members(m, t) # {}
    <3>1. w.team = s.team
      BY <1>4, <1>2, <2>3 DEF AfterSwitch
    <3> QED
      BY <1>3, <2>1, <2>3, <3>1
  <2> QED
    BY <2>2, <2>3
<1>7. ASSUME NEW v \in Faction, NEW g \in Faction
      PROVE  SameVote(vote'[m][v][g], w.vote[v][g])
  <2>1. SameVote(vote[m][v][g], s.vote[v][g])
    BY DEF Matches
  <2>2. CASE Members(m, t) = {}
    <3>1. w.vote = s.vote
      BY <1>4, <1>2, <2>2 DEF AfterSwitch
    <3> QED
      BY <1>3, <2>1, <2>2, <3>1
  <2>3. CASE Members(m, t) # {}
    <3> DEFINE x == [new |-> t, voted |-> FALSE, allow |-> FALSE, given |-> FALSE]
               y == [asked |-> TRUE, new |-> t, given |-> FALSE, allow |-> FALSE]
    <3>1. vote'[m][v][g] = IF v \in Members(m, t) /\ g = f THEN x ELSE vote[m][v][g]
      <4>1. vote'[m] = Ask(m, f, t)
        BY <1>3, <2>3 DEF TypeOK
      <4>2. Ask(m, f, t)[v] = IF v \in Members(m, t) THEN [vote[m][v] EXCEPT ![f] = x]
                                                     ELSE vote[m][v]
        BY DEF Ask
      <4>3. vote[m][v] \in [Faction -> Vote \cup {None}]
        BY DEF TypeOK
      <4> HIDE DEF x
      <4> QED
        BY <4>1, <4>2, <4>3
    <3>2. w.vote[v][g] = IF v \in Together(s, t) /\ g = f THEN y ELSE s.vote[v][g]
      BY <1>4, <1>2, <2>3 DEF AfterSwitch
    <3>3. SameVote(x, y)
      <4>1. x \in Vote
        BY <1>1 DEF Vote
      <4>2. x # None
        BY <4>1 DEF Vote
      <4> QED
        BY <4>2 DEF SameVote
    <3> HIDE DEF x, y
    <3> QED
      BY <1>4, <2>1, <3>1, <3>2, <3>3
  <2> QED
    BY <2>2, <2>3
<1>8. (\A v \in Faction, g \in Faction : SameVote(vote[m][v][g], w.vote[v][g]))'
  BY <1>7
<1>9. (\A g \in Faction : team[m][g] = w.team[g])'
  BY <1>6
<1> QED
  BY <1>8, <1>9 DEF Matches, w

\* A machine that counts only votes that were given counts as the history does.
LEMMA SameCount ==
    ASSUME TypeOK, GivenWasCast, NEW m \in Machine, NEW s, Matches(m, s),
           NEW t, NEW f \in Faction, NEW v \in Faction, NEW yes \in BOOLEAN,
           \A i \in Voted(m, t, f, v) \ {v} : vote[m][i][f].given
    PROVE  VotedYes(m, t, f, v, yes) = GivenYes(s, t, f, v, yes)
<1>1. Members(m, t) = Together(s, t)
  BY SameTogether
<1>2. ASSUME NEW i \in Members(m, t)
      PROVE  i \in VotedYes(m, t, f, v, yes) <=> i \in GivenYes(s, t, f, v, yes)
  <2>1. i \in Faction /\ i \in Together(s, t)
    BY <1>1 DEF Members
  <2>2. SameVote(vote[m][i][f], s.vote[i][f])
    BY <2>1 DEF Matches
  <2>3. vote[m][i][f] # None /\ vote[m][i][f].given => vote[m][i][f].voted
    BY <2>1 DEF GivenWasCast
  <2>4. i \in GivenYes(s, t, f, v, yes)
           <=> /\ s.vote[i][f].asked
               /\ \/ i = v /\ yes
                  \/ i # v /\ s.vote[i][f].given /\ s.vote[i][f].allow
    BY <2>1 DEF GivenYes
  <2>5. i \in Voted(m, t, f, v) <=> vote[m][i][f] # None /\ (vote[m][i][f].voted \/ i = v)
    BY DEF Voted
  <2>6. i \in VotedYes(m, t, f, v, yes)
           <=> /\ i \in Voted(m, t, f, v)
               /\ \/ i = v /\ yes
                  \/ i # v /\ vote[m][i][f].allow
    BY DEF VotedYes
  <2>7. i \in Voted(m, t, f, v) /\ i # v => vote[m][i][f].given
    OBVIOUS
  <2>8. CASE i = v
    BY <2>2, <2>4, <2>5, <2>6, <2>8 DEF SameVote
  <2>9. CASE i # v
    BY <2>2, <2>3, <2>4, <2>5, <2>6, <2>7, <2>9 DEF SameVote
  <2> QED
    BY <2>8, <2>9
<1>3. /\ \A i \in VotedYes(m, t, f, v, yes) : i \in Members(m, t)
      /\ \A i \in GivenYes(s, t, f, v, yes) : i \in Members(m, t)
  BY <1>1 DEF VotedYes, Voted, GivenYes
<1> QED
  BY <1>2, <1>3

\* A machine that is given a vote's command, and has not counted early, goes on
\* as the history does.
LEMMA VoteMatches ==
    ASSUME TypeOK, GivenWasCast, NEW m \in Machine, GiveSwitchTeamVote(m), m \notin ahead',
           NEW s, Matches(m, s), NEW c, c = NextCommand(m)
    PROVE  Matches(m, After(s, c))'
<1> DEFINE v == c.by
           f == c.about
           t == vote[m][v][f].new
           yes == VotedYes(m, t, f, v, c.yes)
           joins == Majority(Cardinality(yes), Cardinality(Members(m, t)))
           x == [new |-> t, voted |-> TRUE, allow |-> c.yes, given |-> TRUE]
           w == After(s, c)
<1>1. c.kind = "vote" /\ v \in Faction /\ f \in Faction /\ c.yes \in BOOLEAN
  <2>1. done[m] < Len(log) /\ c.kind = "vote"
    BY DEF GiveSwitchTeamVote, Gives, NextCommand
  <2> QED
    BY <2>1, NextCommandType, VoteCommandType
<1>2. /\ vote[m][v][f] # None
      /\ vote' = [vote EXCEPT ![m][v][f] = x]
      /\ team' = IF joins THEN [team EXCEPT ![m][f] = t] ELSE team
      /\ ahead' = IF \E i \in Voted(m, t, f, v) \ {v} : ~vote[m][i][f].given
                     THEN ahead \cup {m} ELSE ahead
  BY DEF GiveSwitchTeamVote, Joins
<1>3. \A i \in Voted(m, t, f, v) \ {v} : vote[m][i][f].given
  BY <1>2
<1>4. SameVote(vote[m][v][f], s.vote[v][f])
  BY <1>1 DEF Matches
<1>5. s.vote[v][f].asked /\ t = s.vote[v][f].new /\ t \in Team
  BY <1>1, <1>2, <1>4, VoteType DEF SameVote
<1>6. w = AfterVote(s, c)
  BY <1>1, <1>5 DEF After
<1> HIDE DEF t
<1>7. yes = GivenYes(s, t, f, v, c.yes)
  <2> HIDE DEF v, f
  <2>1. \A i \in Voted(m, t, f, v) \ {v} : vote[m][i][f].given
    BY <1>3
  <2> QED
    BY <1>1, <2>1, SameCount
<1>8. Members(m, t) = Together(s, t)
  BY SameTogether
<1> DEFINE y == [asked |-> TRUE, new |-> t, given |-> TRUE, allow |-> c.yes]
<1>9. ASSUME NEW g \in Faction
      PROVE  w.team[g] = IF g = f /\ joins THEN t ELSE s.team[g]
  <2> DEFINE r == s.vote[v][f].new
             most == Majority(Cardinality(GivenYes(s, r, f, v, c.yes)),
                              Cardinality(Together(s, r)))
  <2>1. w.team = [h \in Faction |-> IF h = f /\ most THEN r ELSE s.team[h]]
    BY <1>6 DEF AfterVote
  <2>2. most = joins
    BY <1>5, <1>7, <1>8
  <2> HIDE DEF most, joins
  <2> QED
    BY <1>5, <2>1, <2>2
<1>10. ASSUME NEW u \in Faction, NEW g \in Faction
       PROVE  w.vote[u][g] = IF u = v /\ g = f THEN y ELSE s.vote[u][g]
  BY <1>5, <1>6, <1>10 DEF AfterVote
<1>11. SameVote(x, y)
  <2>1. x \in Vote
    BY <1>1, <1>5 DEF Vote
  <2>2. x # None
    BY <2>1 DEF Vote
  <2> QED
    BY <2>2 DEF SameVote
<1> HIDE DEF w, x, y, yes, joins
<1>12. ASSUME NEW g \in Faction PROVE team'[m][g] = w.team[g]
  <2>1. team'[m][g] = IF g = f /\ joins THEN t ELSE team[m][g]
    BY <1>1, <1>2, <1>5 DEF TypeOK
  <2>2. team[m][g] = s.team[g]
    BY DEF Matches
  <2> QED
    BY <1>9, <2>1, <2>2
<1>13. ASSUME NEW u \in Faction, NEW g \in Faction
       PROVE  SameVote(vote'[m][u][g], w.vote[u][g])
  <2>1. vote'[m][u][g] = IF u = v /\ g = f THEN x ELSE vote[m][u][g]
    BY <1>1, <1>2 DEF TypeOK
  <2>2. SameVote(vote[m][u][g], s.vote[u][g])
    BY DEF Matches
  <2> QED
    BY <1>10, <1>11, <2>1, <2>2
<1>14. (\A u \in Faction, g \in Faction : SameVote(vote[m][u][g], After(s, c).vote[u][g]))'
  BY <1>13 DEF w
<1>15. (\A g \in Faction : team[m][g] = After(s, c).team[g])'
  BY <1>12 DEF w
<1> QED
  BY <1>14, <1>15 DEF Matches

\* A command that is not given to the teams, or a vote's that nobody was asked
\* for, leaves the history as it is, as it does the world.
LEMMA OtherMatches ==
    ASSUME NEW m \in Machine, NEW s, Matches(m, s), UNCHANGED <<team, vote>>,
           NEW c, \/ c.kind \notin {"switch", "vote"}
                  \/ /\ c.kind = "vote" /\ c.by \in Faction /\ c.about \in Faction
                     /\ vote[m][c.by][c.about] = None
    PROVE  Matches(m, After(s, c))'
<1>1. After(s, c) = s
  <2>1. CASE c.kind \notin {"switch", "vote"}
    BY <2>1 DEF After
  <2>2. CASE /\ c.kind = "vote" /\ c.by \in Faction /\ c.about \in Faction
             /\ vote[m][c.by][c.about] = None
    <3>1. SameVote(vote[m][c.by][c.about], s.vote[c.by][c.about])
      BY <2>2 DEF Matches
    <3> QED
      BY <2>2, <3>1 DEF After, SameVote
  <2> QED
    BY <2>1, <2>2
<1> QED
  BY <1>1 DEF Matches

\* A step that gives m its next command and leaves the other machines and the
\* log alone keeps the history.
LEMMA GivingKeeps ==
    ASSUME TypeOK, NEW H, History(H), NEW m \in Machine, NEW kind, Gives(m, kind),
           log' = log, ahead \subseteq ahead',
           \A n \in Machine : n # m => team'[n] = team[n] /\ vote'[n] = vote[n],
           NEW k, k = done[m], NEW c, c = NextCommand(m),
           ASSUME m \in Veteran, m \notin ahead', Matches(m, H[k])
           PROVE  Matches(m, After(H[k], c))'
    PROVE  History(H)'
<1>1. /\ done[m] \in Nat /\ done[m] < Len(log) /\ Len(log) \in Nat
      /\ done'[m] = done[m] + 1 /\ \A n \in Machine : n # m => done'[n] = done[n]
  BY DEF TypeOK, Gives
<1>2. Unfolds(H)' /\ StaysAsked(H)'
  BY DEF History, Unfolds, StaysAsked
<1>3. AnswersAsked(H)'
  BY DEF History, AnswersAsked, Orderly
<1>4. ASSUME NEW n \in Veteran, n \notin ahead'
      PROVE  Matches(n, H[done[n]])'
  <2>1. n \in Machine /\ n \notin ahead /\ Matches(n, H[done[n]])
    BY <1>4 DEF History, InPlace, Veteran
  <2>2. CASE n # m
    BY <1>1, <2>1, <2>2 DEF Matches
  <2>3. CASE n = m
    <3>1. Matches(m, After(H[k], c))'
      BY <1>4, <2>1, <2>3
    <3>2. H[k + 1] = After(H[k], c)
      <4>1. k \in 0 .. Len(log) - 1
        BY <1>1
      <4> QED
        BY <4>1 DEF History, Unfolds, NextCommand
    <3>3. done'[n] = k + 1
      BY <1>1, <2>3
    <3>4. Matches(m, H[k + 1])'
      BY <3>1, <3>2
    <3> QED
      BY <2>3, <3>3, <3>4 DEF Matches
  <2> QED
    BY <2>2, <2>3
<1> QED
  BY <1>2, <1>3, <1>4 DEF History, InPlace

\* A step that only lets a player note a vote, or does nothing to the worlds,
\* keeps the history.
LEMMA NotingKeeps ==
    ASSUME NEW H, History(H), UNCHANGED <<team, done, log, ahead>>,
           \A m \in Veteran, v \in Faction, f \in Faction : \A y :
               SameVote(vote[m][v][f], y) => SameVote(vote'[m][v][f], y)
    PROVE  History(H)'
<1>1. InPlace(H)'
  <2> SUFFICES ASSUME NEW m \in Veteran, m \notin ahead
               PROVE  Matches(m, H[done[m]])'
    BY DEF InPlace
  <2>1. Matches(m, H[done[m]])
    BY DEF History, InPlace
  <2> QED
    BY <2>1 DEF Matches
<1> QED
  BY <1>1 DEF History, Unfolds, StaysAsked, AnswersAsked, Orderly

\* A new command makes the history longer.
LEMMA PushKeeps ==
    ASSUME TypeOK, NEW H, History(H), NEW c \in Command, Push(c),
           UNCHANGED <<team, done, ahead>>,
           \A m \in Veteran, v \in Faction, f \in Faction : \A y :
               SameVote(vote[m][v][f], y) => SameVote(vote'[m][v][f], y),
           Orderly /\ c.kind = "vote" => H[Len(log)].vote[c.by][c.about].asked
    PROVE  \E G : History(G)'
<1>1. PICK n \in Nat : n = Len(log)
  BY DEF TypeOK
<1> DEFINE G == [k \in Nat |-> IF k = n + 1 THEN After(H[n], c) ELSE H[k]]
<1>2. /\ \A k \in 0 .. n : G[k] = H[k]
      /\ G[n + 1] = After(H[n], c)
  BY <1>1
<1>3. /\ Len(log') = n + 1 /\ log'[n + 1] = c
      /\ \A k \in 1 .. n : log'[k] = log[k]
  BY <1>1 DEF Push, TypeOK
<1> HIDE DEF G
<1>4. \A k \in 0 .. n - 1 : k + 1 \in 1 .. n /\ k \in 0 .. n /\ k + 1 \in 0 .. n
  BY <1>1
<1>5. \A k \in 0 .. n : k # n => k \in 0 .. n - 1
  BY <1>1
<1>6. Unfolds(G)'
  <2>1. G[0] = Nothing
    BY <1>1, <1>2 DEF History, Unfolds
  <2>2. ASSUME NEW k \in 0 .. n
        PROVE  G[k + 1] = After(G[k], log'[k + 1])
    <3>1. CASE k = n
      BY <1>1, <1>2, <1>3, <3>1
    <3>2. CASE k # n
      BY <1>1, <1>2, <1>3, <1>4, <1>5, <3>2 DEF History, Unfolds
    <3> QED
      BY <3>1, <3>2
  <2>3. (n + 1) - 1 = n
    BY <1>1
  <2> QED
    BY <1>3, <2>1, <2>2, <2>3 DEF Unfolds
<1>7. InPlace(G)'
  <2> SUFFICES ASSUME NEW m \in Veteran, m \notin ahead
               PROVE  Matches(m, G[done[m]])'
    BY DEF InPlace
  <2>1. Matches(m, H[done[m]])
    BY DEF History, InPlace
  <2>2. done[m] \in 0 .. n
    BY <1>1 DEF TypeOK, Veteran
  <2>3. PICK s : s = H[done[m]]
    OBVIOUS
  <2>4. Matches(m, s)'
    BY <2>1, <2>3 DEF Matches
  <2>5. (G[done[m]])' = s
    BY <1>2, <2>2, <2>3
  <2> QED
    BY <2>4, <2>5 DEF Matches
<1>8. StaysAsked(G)'
  <2> SUFFICES ASSUME NEW j \in 0 .. n + 1, NEW k \in 0 .. n + 1, j <= k,
                      NEW v \in Faction, NEW f \in Faction, G[j].vote[v][f].asked
               PROVE  G[k].vote[v][f].asked
    BY <1>3 DEF StaysAsked
  <2>1. CASE k # n + 1
    <3>1. j \in 0 .. n /\ k \in 0 .. n
      BY <1>1, <2>1
    <3> QED
      BY <1>1, <1>2, <3>1 DEF History, StaysAsked
  <2>2. CASE k = n + 1 /\ j # n + 1
    <3>1. j \in 0 .. n /\ n \in 0 .. n /\ j <= n
      BY <1>1, <2>2
    <3>2. H[n].vote[v][f].asked
      BY <1>1, <1>2, <3>1 DEF History, StaysAsked
    <3> QED
      BY <1>2, <2>2, <3>2, AfterStaysAsked
  <2> QED
    BY <2>1, <2>2
<1>9. AnswersAsked(G)'
  <2> SUFFICES ASSUME Orderly, NEW k \in 0 .. n, log'[k + 1].kind = "vote"
               PROVE  G[k].vote[log'[k + 1].by][log'[k + 1].about].asked
    <3>1. (n + 1) - 1 = n
      BY <1>1
    <3> QED
      BY <1>3, <3>1 DEF AnswersAsked, Orderly
  <2>1. CASE k = n
    BY <1>1, <1>2, <1>3, <2>1
  <2>2. CASE k # n
    BY <1>1, <1>2, <1>3, <1>4, <1>5, <2>2 DEF History, AnswersAsked
  <2> QED
    BY <2>1, <2>2
<1> QED
  BY <1>6, <1>7, <1>8, <1>9 DEF History

\* A player's answer is about a vote that was asked for and not cast before: what
\* is known by commands stays the same.
LEMMA AnswerKeeps ==
    ASSUME HistoryInv, NEW v \in Faction, NEW f \in Faction, NEW yes \in BOOLEAN,
           AnswerSwitchTeamVote(v, f, yes)
    PROVE  GivenWasCast' /\ \E H : History(H)'
<1> DEFINE m == Owner[v]
           c == [kind |-> "vote", by |-> v, about |-> f, yes |-> yes]
           x == vote[m][v][f]
           new == [x EXCEPT !.voted = TRUE, !.allow = yes, !.given = FALSE]
<1>1. m \in Machine /\ c \in Command /\ TypeOK
  BY DEF Command, VoteCommand, HistoryInv
<1>2. x # None /\ ~x.voted /\ x \in Vote
  <2>1. x # None /\ ~x.voted
    BY DEF AnswerSwitchTeamVote, FirstSwitchTeamVote, Pending
  <2> QED
    BY <1>1, <2>1, VoteType
<1>3. ~x.given
  BY <1>1, <1>2 DEF HistoryInv, GivenWasCast
<1>4. vote' = [vote EXCEPT ![m][v][f] = new]
  BY DEF AnswerSwitchTeamVote
<1>5. /\ new \in Vote /\ new # None
      /\ new.new = x.new /\ new.voted = TRUE /\ new.given = FALSE
  <2>1. /\ new \in Vote /\ new.new = x.new /\ new.voted = TRUE /\ new.given = FALSE
    BY <1>2 DEF Vote
  <2> QED
    BY <2>1 DEF Vote
<1> HIDE DEF new
<1>6. \A n \in Machine, w \in Faction, g \in Faction :
          \/ n = m /\ w = v /\ g = f /\ vote'[n][w][g] = new
          \/ vote'[n][w][g] = vote[n][w][g]
  <2> HIDE DEF m
  <2> QED
    BY <1>1, <1>4 DEF TypeOK
<1>7. GivenWasCast'
  <2> SUFFICES ASSUME NEW n \in Machine, NEW w \in Faction, NEW g \in Faction,
                      vote'[n][w][g] # None, vote'[n][w][g].given
               PROVE  vote'[n][w][g].voted
    BY DEF GivenWasCast
  <2>1. CASE vote'[n][w][g] = new
    BY <1>5, <2>1
  <2>2. CASE vote'[n][w][g] = vote[n][w][g]
    BY <2>2 DEF HistoryInv, GivenWasCast
  <2> QED
    BY <1>6, <2>1, <2>2
<1>8. ASSUME NEW n \in Veteran, NEW w \in Faction, NEW g \in Faction, NEW y,
             SameVote(vote[n][w][g], y)
      PROVE  SameVote(vote'[n][w][g], y)
  <2>0. n \in Machine
    BY DEF Veteran
  <2>1. CASE n = m /\ w = v /\ g = f /\ vote'[n][w][g] = new
    BY <1>2, <1>3, <1>5, <1>8, <2>1 DEF SameVote
  <2>2. CASE vote'[n][w][g] = vote[n][w][g]
    BY <1>8, <2>2
  <2> QED
    BY <1>6, <2>0, <2>1, <2>2
<1>9. PICK H : History(H)
  BY DEF HistoryInv
<1>10. UNCHANGED <<team, done, ahead>>
  BY DEF AnswerSwitchTeamVote
<1>11. log' = log \/ Push(c)
  BY DEF AnswerSwitchTeamVote
<1>12. ASSUME Orderly
       PROVE  H[Len(log)].vote[v][f].asked
  <2>1. m \in Veteran \ ahead
    BY <1>1, <1>12 DEF Orderly, Veteran
  <2>2. Matches(m, H[done[m]])
    BY <1>9, <2>1 DEF History, InPlace
  <2>3. H[done[m]].vote[v][f].asked
    BY <1>2, <2>2 DEF Matches, SameVote
  <2>4. done[m] \in 0 .. Len(log) /\ Len(log) \in 0 .. Len(log) /\ done[m] <= Len(log)
    BY <1>1 DEF TypeOK
  <2> QED
    BY <1>9, <2>3, <2>4 DEF History, StaysAsked
<1>e. \A n \in Veteran, w \in Faction, g \in Faction : \A y :
          SameVote(vote[n][w][g], y) => SameVote(vote'[n][w][g], y)
  BY <1>8
<1>13. CASE log' = log
  BY <1>e, <1>7, <1>9, <1>10, <1>13, NotingKeeps
<1>14. CASE Push(c)
  <2>1. c.kind = "vote" /\ c.by = v /\ c.about = f
    OBVIOUS
  <2> HIDE DEF c
  <2>2. Orderly /\ c.kind = "vote" => H[Len(log)].vote[c.by][c.about].asked
    BY <1>12, <2>1
  <2>3. c \in Command /\ TypeOK
    BY <1>1
  <2> QED
    BY <1>e, <1>7, <1>9, <1>10, <1>14, <2>2, <2>3, PushKeeps
<1> QED
  BY <1>7, <1>11, <1>13, <1>14

\* Every step keeps the history.
LEMMA HistoryStep == HistoryInv /\ [Next]_vars => HistoryInv'
<1> SUFFICES ASSUME HistoryInv, [Next]_vars PROVE HistoryInv'
  OBVIOUS
<1>a. TypeOK /\ TypeOK' /\ GivenWasCast
  BY TypeStep DEF HistoryInv
<1>b. PICK H : History(H)
  BY DEF HistoryInv
<1>c. ASSUME thrown' = thrown, ahead \subseteq ahead', GivenWasCast', \E G : History(G)'
      PROVE  HistoryInv'
  BY <1>a, <1>c DEF HistoryInv, Orderly
<1>d. ASSUME vote' = vote PROVE GivenWasCast'
  BY <1>a, <1>d DEF GivenWasCast
<1>e. ASSUME vote' = vote
      PROVE  \A m \in Veteran, v \in Faction, f \in Faction : \A y :
                 SameVote(vote[m][v][f], y) => SameVote(vote'[m][v][f], y)
  BY <1>e
<1>1. ASSUME NEW c \in Command, Push(c), c.kind # "vote",
             UNCHANGED <<team, vote, done, thrown, ahead>>
      PROVE  HistoryInv'
  BY <1>1, <1>a, <1>b, <1>c, <1>d, <1>e, PushKeeps
<1>2. ASSUME NEW f \in Faction, NEW t \in Team, TrySwitchTeam(f, t) PROVE HistoryInv'
  <2> DEFINE c == [kind |-> "switch", by |-> f, team |-> t]
  <2>1. c \in Command /\ c.kind # "vote"
    BY DEF Command, Switch
  <2>2. Push(c) /\ UNCHANGED <<team, vote, done, thrown, ahead>>
    BY <1>2 DEF TrySwitchTeam
  <2> HIDE DEF c
  <2> QED
    BY <1>1, <2>1, <2>2
<1>3. CASE PauseForJoin
  <2> DEFINE c == [kind |-> "pause"]
  <2>1. c \in Command /\ c.kind # "vote"
    BY DEF Command, PauseResume
  <2>2. Push(c) /\ UNCHANGED <<team, vote, done, thrown, ahead>>
    BY <1>3 DEF PauseForJoin
  <2> HIDE DEF c
  <2> QED
    BY <1>1, <2>1, <2>2
<1>4. CASE ResumeAfterJoin
  <2> DEFINE c == [kind |-> "resume"]
  <2>1. c \in Command /\ c.kind # "vote"
    BY DEF Command, PauseResume
  <2>2. Push(c) /\ UNCHANGED <<team, vote, done, thrown, ahead>>
    BY <1>4 DEF ResumeAfterJoin
  <2> HIDE DEF c
  <2> QED
    BY <1>1, <2>1, <2>2
<1>5. ASSUME NEW v \in Faction, NEW f \in Faction, NEW yes \in BOOLEAN,
             AnswerSwitchTeamVote(v, f, yes)
      PROVE  HistoryInv'
  <2>1. thrown' = thrown /\ ahead' = ahead
    BY <1>5 DEF AnswerSwitchTeamVote
  <2> QED
    BY <1>5, <1>c, <2>1, AnswerKeeps
<1>6. ASSUME NEW m \in Machine, GiveSwitchTeam(m) PROVE HistoryInv'
  <2>1. PICK k : k = done[m]
    OBVIOUS
  <2>2. PICK c : c = NextCommand(m)
    OBVIOUS
  <2>3. Gives(m, "switch") /\ log' = log /\ ahead' = ahead /\ thrown' = thrown
    BY <1>6 DEF GiveSwitchTeam
  <2>4. PICK f \in Faction, t \in Team :
           \/ team' = [team EXCEPT ![m][f] = t] /\ vote' = vote
           \/ team' = team /\ vote' = [vote EXCEPT ![m] = Ask(m, f, t)]
    BY <1>6, <1>a, SwitchEffect
  <2>5. \A n \in Machine : n # m => team'[n] = team[n] /\ vote'[n] = vote[n]
    BY <1>a, <2>4 DEF TypeOK
  <2>6. ASSUME Matches(m, H[k]) PROVE Matches(m, After(H[k], c))'
    BY <1>6, <1>a, <2>2, <2>6, SwitchMatches
  <2>7. History(H)'
    BY <1>a, <1>b, <2>1, <2>2, <2>3, <2>5, <2>6, GivingKeeps
  <2>8. GivenWasCast'
    <3> SUFFICES ASSUME NEW n \in Machine, NEW w \in Faction, NEW g \in Faction,
                        vote'[n][w][g] # None, vote'[n][w][g].given
                 PROVE  vote'[n][w][g].voted
      BY DEF GivenWasCast
    <3>1. CASE vote'[n][w][g] = vote[n][w][g]
      BY <1>a, <3>1 DEF GivenWasCast
    <3>2. CASE vote'[n][w][g] # vote[n][w][g]
      <4>1. n = m /\ vote' = [vote EXCEPT ![m] = Ask(m, f, t)]
        BY <2>4, <2>5, <3>2
      <4>2. vote'[n][w][g] = Ask(m, f, t)[w][g]
        BY <1>a, <4>1 DEF TypeOK
      <4>3. vote'[n][w][g] = [new |-> t, voted |-> FALSE, allow |-> FALSE, given |-> FALSE]
        BY <1>a, <3>2, <4>1, <4>2 DEF TypeOK, Ask
      <4> QED
        BY <4>3
    <3> QED
      BY <3>1, <3>2
  <2> QED
    BY <1>c, <2>3, <2>7, <2>8
<1>7. ASSUME NEW m \in Machine, GiveSwitchTeamVote(m) PROVE HistoryInv'
  <2>1. PICK k : k = done[m]
    OBVIOUS
  <2>2. PICK c : c = NextCommand(m)
    OBVIOUS
  <2> DEFINE t == vote[m][c.by][c.about].new
             x == [new |-> t, voted |-> TRUE, allow |-> c.yes, given |-> TRUE]
  <2>3. /\ Gives(m, "vote") /\ log' = log /\ ahead \subseteq ahead' /\ thrown' = thrown
        /\ vote' = [vote EXCEPT ![m][c.by][c.about] = x]
        /\ team' = team \/ team' = [team EXCEPT ![m][c.about] = t]
    BY <1>7, <2>2 DEF GiveSwitchTeamVote, Joins
  <2>4. c.by \in Faction /\ c.about \in Faction
    BY <1>a, <2>2, <2>3, GivesType, VoteCommandType
  <2> HIDE DEF x, t
  <2>5. \A n \in Machine : n # m => team'[n] = team[n] /\ vote'[n] = vote[n]
    BY <1>a, <2>3, <2>4 DEF TypeOK
  <2>6. ASSUME m \notin ahead', Matches(m, H[k]) PROVE Matches(m, After(H[k], c))'
    BY <1>7, <1>a, <2>2, <2>6, VoteMatches
  <2>7. History(H)'
    BY <1>a, <1>b, <2>1, <2>2, <2>3, <2>5, <2>6, GivingKeeps
  <2>8. GivenWasCast'
    <3> SUFFICES ASSUME NEW n \in Machine, NEW w \in Faction, NEW g \in Faction,
                        vote'[n][w][g] # None, vote'[n][w][g].given
                 PROVE  vote'[n][w][g].voted
      BY DEF GivenWasCast
    <3>1. CASE vote'[n][w][g] = vote[n][w][g]
      BY <1>a, <3>1 DEF GivenWasCast
    <3>2. CASE vote'[n][w][g] # vote[n][w][g]
      <4>1. vote'[n][w][g] = x
        BY <1>a, <2>3, <2>4, <3>2 DEF TypeOK
      <4> QED
        BY <4>1 DEF x
    <3> QED
      BY <3>1, <3>2
  <2> QED
    BY <1>c, <2>3, <2>7, <2>8
<1>8. ASSUME NEW m \in Machine, ThrowVoteIsNull(m) PROVE HistoryInv'
  <2>1. PICK k : k = done[m]
    OBVIOUS
  <2>2. PICK c : c = NextCommand(m)
    OBVIOUS
  <2>3. /\ Gives(m, "vote") /\ UNCHANGED <<team, vote, log, ahead>>
        /\ thrown' = thrown \cup {m} /\ vote[m][c.by][c.about] = None
    BY <1>8, <2>2 DEF ThrowVoteIsNull
  <2>4. c.kind = "vote" /\ c.by \in Faction /\ c.about \in Faction
    BY <1>a, <2>2, <2>3, GivesType, VoteCommandType
  <2>5. ASSUME Matches(m, H[k]) PROVE Matches(m, After(H[k], c))'
    BY <2>3, <2>4, <2>5, OtherMatches
  <2>6. History(H)'
    BY <1>a, <1>b, <2>1, <2>2, <2>3, <2>5, GivingKeeps
  <2>7. ASSUME Orderly PROVE m \in Newcomer
    <3> SUFFICES ASSUME m \in Veteran \ ahead PROVE FALSE
      BY <2>7 DEF Orderly, Veteran
    <3>1. k \in 0 .. Len(log) - 1 /\ log[k + 1] = c
      BY <1>a, <2>1, <2>2, <2>3 DEF Gives, NextCommand, TypeOK
    <3>2. H[k].vote[c.by][c.about].asked
      BY <1>b, <2>4, <2>7, <3>1 DEF History, AnswersAsked
    <3>3. Matches(m, H[k])
      BY <1>b, <2>1 DEF History, InPlace
    <3>4. SameVote(vote[m][c.by][c.about], H[k].vote[c.by][c.about])
      BY <2>4, <3>3 DEF Matches
    <3> QED
      BY <2>3, <3>2, <3>4 DEF SameVote
  <2>8. Orderly' => thrown' \subseteq Newcomer
    BY <2>3, <2>7 DEF HistoryInv, Orderly
  <2> QED
    BY <1>a, <1>d, <2>3, <2>6, <2>8 DEF HistoryInv
<1>9. ASSUME NEW m \in Machine, GivePauseResume(m) PROVE HistoryInv'
  <2>1. PICK k : k = done[m]
    OBVIOUS
  <2>2. PICK c : c = NextCommand(m)
    OBVIOUS
  <2>3. PICK kind \in {"pause", "resume"} : Gives(m, kind)
    BY <1>9 DEF GivePauseResume
  <2>4. UNCHANGED <<team, vote, log, ahead, thrown>>
    BY <1>9 DEF GivePauseResume
  <2>5. c.kind \notin {"switch", "vote"}
    BY <2>2, <2>3 DEF Gives, NextCommand
  <2>6. ASSUME Matches(m, H[k]) PROVE Matches(m, After(H[k], c))'
    BY <2>4, <2>5, <2>6, OtherMatches
  <2>7. History(H)'
    BY <1>a, <1>b, <2>1, <2>2, <2>3, <2>4, <2>6, GivingKeeps
  <2> QED
    BY <1>c, <1>d, <2>4, <2>7
<1>10. ASSUME NEW m \in Machine, LoadGame(m) PROVE HistoryInv'
  <2>1. /\ m \in away /\ UNCHANGED <<vote, log, thrown, ahead>>
        /\ team' = [team EXCEPT ![m] = team[Server]]
        /\ done' = [done EXCEPT ![m] = done[Server]]
    BY <1>10 DEF LoadGame
  <2>2. \A n \in Veteran : n # m /\ team'[n] = team[n] /\ done'[n] = done[n]
    BY <1>a, <2>1 DEF TypeOK, Veteran
  <2>3. InPlace(H)'
    <3> SUFFICES ASSUME NEW n \in Veteran, n \notin ahead
                 PROVE  Matches(n, H[done[n]])'
      BY <2>1 DEF InPlace
    <3>1. Matches(n, H[done[n]])
      BY <1>b DEF History, InPlace
    <3> QED
      BY <2>1, <2>2, <3>1 DEF Matches
  <2>4. History(H)'
    BY <1>b, <2>1, <2>3 DEF History, Unfolds, StaysAsked, AnswersAsked, Orderly
  <2> QED
    BY <1>c, <1>d, <2>1, <2>4
<1>11. CASE UNCHANGED vars
  <2>1. UNCHANGED <<team, vote, done, log, thrown, ahead>>
    BY <1>11 DEF vars
  <2> QED
    BY <1>b, <1>c, <1>d, <1>e, <2>1, NotingKeeps
<1> QED
  BY <1>2, <1>3, <1>4, <1>5, <1>6, <1>7, <1>8, <1>9, <1>10, <1>11 DEF Next

\* At first nothing is known.
LEMMA HistoryInit == Init => HistoryInv
<1> SUFFICES ASSUME Init PROVE HistoryInv
  OBVIOUS
<1>1. TypeOK
  BY InitType
<1>2. GivenWasCast
  BY DEF Init, GivenWasCast
<1> DEFINE H == [k \in Nat |-> Nothing]
<1>3. H[0] = Nothing /\ Len(log) = 0
  BY DEF Init
<1>4. \A m \in Machine : Matches(m, Nothing) /\ done[m] = 0
  <2> TAKE m \in Machine
  <2>1. ASSUME NEW v \in Faction, NEW f \in Faction
        PROVE  SameVote(vote[m][v][f], Nothing.vote[v][f])
    <3>1. vote[m][v][f] = None /\ ~Nothing.vote[v][f].asked
      BY DEF Init, Nothing
    <3> QED
      BY <3>1 DEF SameVote
  <2>2. \A f \in Faction : team[m][f] = Nothing.team[f]
    BY DEF Init, Nothing
  <2> QED
    BY <2>1, <2>2 DEF Init, Matches
<1> HIDE DEF H
<1>5. History(H)
  <2>1. \A k \in 0 .. Len(log) - 1 : FALSE
    BY <1>3
  <2>2. \A j, k \in 0 .. Len(log) : j = k
    BY <1>3
  <2>3. Unfolds(H) /\ AnswersAsked(H)
    BY <1>3, <2>1 DEF Unfolds, AnswersAsked
  <2>4. StaysAsked(H)
    BY <2>2 DEF StaysAsked
  <2>5. InPlace(H)
    BY <1>3, <1>4 DEF InPlace, Veteran
  <2> QED
    BY <2>3, <2>4, <2>5 DEF History
<1>6. thrown = {}
  BY DEF Init
<1> QED
  BY <1>1, <1>2, <1>5, <1>6 DEF HistoryInv

\* Machines that were there from the start and have given the same commands have
\* the same teams, unless one of them has counted a vote that its own player had
\* only noted: the early vote is the one way in which teams come apart.
THEOREM TeamsAgreeInStepHolds == Spec => []TeamsAgreeInStep
<1>1. HistoryInv => TeamsAgreeInStep
  <2> SUFFICES ASSUME HistoryInv, NEW m \in Veteran \ ahead, NEW n \in Veteran \ ahead,
                      done[m] = done[n]
               PROVE  team[m] = team[n]
    BY DEF TeamsAgreeInStep
  <2>1. PICK H : InPlace(H)
    BY DEF HistoryInv, History
  <2>2. Matches(m, H[done[m]]) /\ Matches(n, H[done[m]])
    BY <2>1 DEF InPlace
  <2>3. \A f \in Faction : team[m][f] = team[n][f]
    BY <2>2 DEF Matches
  <2>4. team[m] \in [Faction -> Team] /\ team[n] \in [Faction -> Team]
    BY DEF HistoryInv, TypeOK, Veteran
  <2>5. team[m] = [f \in Faction |-> team[m][f]] /\ team[n] = [f \in Faction |-> team[n][f]]
    BY <2>4
  <2> QED
    BY <2>3, <2>5, Zenon
<1> QED
  BY <1>1, HistoryInit, HistoryStep, PTL DEF Spec

\* Where newcomers only watch, and as long as no machine that was there from the
\* start has counted early, none of these meets a vote nobody has asked for, the
\* exception that ends the game.
THEOREM VotesAreFoundHolds ==
    ASSUME \A f \in Faction : Owner[f] \in Veteran
    PROVE  Spec => []VotesAreFound
<1>1. HistoryInv => VotesAreFound
  BY DEF HistoryInv, Orderly, VotesAreFound
<1> QED
  BY <1>1, HistoryInit, HistoryStep, PTL DEF Spec
=============================================================================
