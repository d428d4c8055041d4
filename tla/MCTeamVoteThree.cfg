CONSTANTS
    Faction <- Factions
    Machine = {"server", "client", "newcomer"}
    Server = "server"
    Newcomer = {"newcomer"}
    Owner <- Owners
    Asker <- Askers
    Team <- Teams
    InitTeam <- InitTeams
    MaxCommands = 5
    None = None
SPECIFICATION Spec
INVARIANTS
    OnlyWhoAsks
    TeamsAgreeInStep
    VotesAreFound
CHECK_DEADLOCK FALSE
