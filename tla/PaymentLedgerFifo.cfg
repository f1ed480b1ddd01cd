SPECIFICATION Spec
CONSTANTS
    jan = jan  feb = feb  tetangga = tetangga  rumah = rumah
    iuran = iuran  home = home
    warga = warga  bendahara = bendahara  ketua = ketua
    p1 = p1  p2 = p2  p3 = p3  kas = kas
    NoLocation = NoLocation  NoPayment = NoPayment  NoUser = NoUser
    NoDue = NoDue  NoOccupancy = NoOccupancy
    Bills = {jan, feb}
    Dues = {iuran}
    Occupancies = {home}
    Users = {warga, bendahara}
    Warga = {warga}
    Staff = {bendahara}
    PaymentIds = {p1, p2}
    Locations = {}
    DueOf <- MCDueOf
    OccOf <- MCOccOf
    PeriodOf <- MCPeriodOf
    Amount <- MCAmount
    DueType <- MCDueType
    HomeOf <- MCHomeOf
    DueSettings <- FullRule
    TenureEdits = {}
    ManualAmounts = {}
    MaxPay = 2
    MaxBillsPerPayment = 12
    MaxManual = 0
    MaxLedger = 3
PROPERTY FifoApproval
CHECK_DEADLOCK FALSE
