----------------------------- MODULE MCTeamVote -----------------------------
(* Three factions: the first is alone, the others are a team.  The second is played on *)
(* the server's machine, the others on a client's; a newcomer may join to watch.       *)
EXTENDS TeamVote

Factions == 1 .. 3
Teams == 0 .. 3
Owners == <<"client", "server", "client">>
InitTeams == <<0, 1, 1>>
Askers == {1, 2}
=============================================================================
