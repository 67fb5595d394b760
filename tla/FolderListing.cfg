SPECIFICATION Spec
CONSTANTS
    home = home
    docs = docs
    share = share
    network = network
    Home = home
    Network = network
    Locations <- MCLocations
    Shares <- MCShares
    Changing <- MCChanging
    Above <- MCAbove
    MaxSteps = 2
    MaxChanges = 2
    MaxSearches = 1
CONSTRAINT
    OneOfThem
INVARIANTS
    TypeOK
    RowsBelong
    BusyWhileListing
    UpToDate
PROPERTIES
    MountOnlyWhenAsked
