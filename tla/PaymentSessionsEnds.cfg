SPECIFICATION Spec
CONSTANTS
    jan = jan  feb = feb  iuran = iuran  p1 = p1  p2 = p2  p3 = p3  kas = kas  s1 = s1  s2 = s2
    NoLocation = NoLocation
    Sessions = {s1, s2}
    Bills = {jan, feb}
    Rank <- JanBeforeFeb
    Dues = {iuran}
    DueOf <- OneDue
    Amount <- TwoUnits
    PaymentIds = {p1, p2}
    Alloc <- Overlapping
    Single = {p2}
    Locations = {}
    Opening <- OneUnitThere
    Requests <- BillHandlers
    MaxRequests = 2
PROPERTY EveryRequestEnds
CHECK_DEADLOCK FALSE
