SPECIFICATION CountersSpec
CONSTANTS
    Addresses = {"user", "lan", "dns"}
    Callers = {"parser", "other"}
    parser = "parser"
    systemIPs = {}
    dnsServers = {"dns"}
    privateNets <- MCPrivateNets
    maxCacheSize = 2
    NoAddress = "none"
    Lines <- MCLines
    Readers = {"asn", "city"}
    RootOf <- MCRootOf
    ASNOf <- MCASNOf
    CountryOf <- MCCountryOf
    CityOf <- MCCityOf
    MaxTracked <- MCMaxTracked
    BeforeCleanup <- MCBeforeCleanup
    NoKey = ""
    MaxLines = 3
INVARIANTS
    CountersTypeOK
    IndexMatchesList
    MostRecentCached
    CountedSinceCut
    MapsBounded
    ConnectionsHaveASN
PROPERTY ImplementsPureFilter
