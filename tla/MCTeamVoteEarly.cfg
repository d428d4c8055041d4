CONSTANTS
    Faction <- Factions
    Machine = {"server", "client"}
    Server = "server"
    Newcomer = {}
    Owner <- Owners
    Asker <- Askers
    Team <- Teams
    InitTeam <- InitTeams
    MaxCommands = 4
    None = None
SPECIFICATION Spec
INVARIANTS TeamsAgree
CHECK_DEADLOCK FALSE
