SPECIFICATION FairSpec
CONSTANTS
    http = http
    dns = dns
    n1 = n1
    Keys = {http, dns}
    NameOf <- MCNameOf
    Active <- MCActive
    Entries <- MCEntries
    Threshold = 2
    Readers = {1}
    Scenarios <- MCScenarios
    MaxHistory = 2
    MaxResults <- MCMaxResults
    MaxRestarts <- MCMaxRestarts
INVARIANTS
    RingsOK
    OrderIndexesChecks
    DownMarked
    FailReported
    SummariesAgree
PROPERTIES
    ImplementsWindow
    PagesCatchUp
