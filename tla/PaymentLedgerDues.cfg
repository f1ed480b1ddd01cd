SPECIFICATION Spec
CONSTANTS
    jan = jan  feb = feb  tetangga = tetangga  rumah = rumah
    iuran = iuran  home = home
    warga = warga  bendahara = bendahara  ketua = ketua
    p1 = p1  p2 = p2  p3 = p3  kas = kas
    NoLocation = NoLocation  NoPayment = NoPayment  NoUser = NoUser
    NoDue = NoDue  NoOccupancy = NoOccupancy
    Bills = {jan, tetangga}
    Dues = {iuran}
    Occupancies = {home, rumah}
    Users = {warga, bendahara}
    Warga = {warga}
    Staff = {bendahara}
    PaymentIds = {p1}
    Locations = {kas}
    DueOf <- MCDueOf
    OccOf <- NextDoor
    PeriodOf <- MCPeriodOf
    Amount <- FlipAmount
    DueType <- MCDueType
    HomeOf <- MCHomeOf
    DueSettings <- Flips
    TenureEdits <- Moves
    ManualAmounts = {1}
    MaxPay = 1
    MaxBillsPerPayment = 12
    MaxManual = 1
    MaxLedger = 3
INVARIANTS UnpaidFollowsTenure NoOverdraft
PROPERTY PaidBillsKept
CHECK_DEADLOCK FALSE
