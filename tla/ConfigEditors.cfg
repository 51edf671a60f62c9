SPECIFICATION Spec
CONSTANTS
    Schema = {"pvp", "motd"}
    Motd = "motd"
    Words = {"", "plain", "hex", "cut"}
    Hashed = {"hex"}
    Cut = "cut"
    Typed <- MCTyped
    DefaultMotd <- MCDefaultMotd
    Custom = {"mod"}
    BadKey = "a=b"
    Values <- MCValues
    Servers = {"lobby", "games"}
    Lobby = "lobby"
    Own = "own"
    Standard = "standard"
    Texts <- MCTexts
    Template <- MCTemplate
    Preset <- On
    Absent = Absent
    None = None
    MaxInputs = 4
    MaxFails = 1
    MaxOthers = 1
INVARIANTS SavesWhatWasMeant KnowsTheFile
PROPERTY OtherLineKept
CHECK_DEADLOCK FALSE
