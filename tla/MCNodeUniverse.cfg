SPECIFICATION GroupsSpec
CONSTANTS
    house_lan = house_lan
    office_lan = office_lan
    localhost = localhost
    Universe = {1, 109}
    Interface = {house_lan, office_lan, localhost}
    Loopback = localhost
    DefaultInterface = office_lan
INVARIANT ReportsItsUniverse
