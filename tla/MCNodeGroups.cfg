SPECIFICATION GroupsFairSpec
CONSTANTS
    house_lan = house_lan
    office_lan = office_lan
    localhost = localhost
    Universe = {0, 1, 109, 110}
    Interface = {house_lan, office_lan, localhost}
    Loopback = localhost
    DefaultInterface = office_lan
INVARIANTS
    GroupsTypeOK
    RecordedIsJoined
PROPERTIES
    TicksKeepWantedGroups
    ListensAgain
