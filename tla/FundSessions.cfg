SPECIFICATION Spec
CONSTANTS
    bank = bank  brankas = brankas   there = there  back = back
    dues = dues  gift = gift  bill = bill  s1 = s1  s2 = s2
    NoLocation = NoLocation
    Sessions = {s1, s2}
    Locations = {bank, brankas}
    Rank <- IdOrder
    Share <- OneAndTwo
    Transfers = {there, back}
    From <- MCFrom
    To <- MCTo
    Sum <- OneUnit
    Entries = {dues, gift, bill}
    Type <- MCType
    Place <- MCPlace
    Amount <- MCAmount
    Opening <- OneAndTwo
    Kas = 4
    Requests <- Handlers
    MaxRequests = 2
SYMMETRY Interchangeable
INVARIANTS TypeOK NoOverdraft TransferReturnedOnce TransfersDoNotDeadlock AllocationsCovered
PROPERTY TransfersBetweenActive
CHECK_DEADLOCK FALSE
