SPECIFICATION Spec
CONSTANTS
    jan = jan  feb = feb  iuran = iuran  p1 = p1  p2 = p2  p3 = p3  kas = kas  s1 = s1  s2 = s2
    NoLocation = NoLocation
    Sessions = {s1, s2}
    Bills = {jan, feb}
    Rank <- JanBeforeFeb
    Dues = {iuran}
    DueOf <- OneDue
    Amount <- TwoUnits
    PaymentIds = {p1, p2, p3}
    Alloc <- Overlapping
    Single = {p2}
    Locations = {kas}
    Opening <- OneUnitThere
    Requests <- AllRequests
    MaxRequests = 2
SYMMETRY Interchangeable
INVARIANTS TypeOK NoOverpayment StatusAgrees NoOverdraft
PROPERTY ImplementsContract
CHECK_DEADLOCK FALSE
