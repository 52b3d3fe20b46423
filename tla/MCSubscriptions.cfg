CONSTANTS
    c1 = c1
    c2 = c2
    a1 = a1
    a2 = a2
    pers = pers
    pers2 = pers2
    n1 = n1
    n2 = n2
    e1 = e1
    e2 = e2
    r1 = r1
    r2 = r2
    h1 = h1
    none = none
    Clients <- MCClients
    Catalogue <- MCCatalogue
    Agents <- MCAgents
    Currencies = {"USD", "EUR"}
    Priced <- MCPriced
    Phones = {n1, n2}
    Emails = {e1, e2}
    Nothing = none
    Hired = {h1}
    Requests = {r1, r2}
    Calls <- MCCalls
    InitialHires <- MCHires
    InitialPhones <- MCPhones
    InitialUsers <- MCUsers
    InitialCurrency <- MCCurrency
    MaxRequests = 2
    MaxFaults = 1

SPECIFICATION Spec
INVARIANTS TypeOK Unique PhonesAccountedFor MixedOnlyByConversion
PROPERTIES ArchivedUnlessRaced RequestsEnd
CHECK_DEADLOCK FALSE
