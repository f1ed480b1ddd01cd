SPECIFICATION Spec
CONSTANTS
    pay = pay  other = other  multi = multi  generate = generate
    k1 = k1  k2 = k2  i1 = i1  i2 = i2  c1 = c1  c2 = c2  Nobody = Nobody
    Calls = {c1, c2}
    Requests = {pay, other, multi, generate}
    InTx = {pay, other}
    Keys = {k1, k2}
    KeyOf <- SentUnder
    Instances = {i1, i2}
    Connections = 2
INVARIANTS TypeOK PaidOncePerKey AnswersAreTrue CopiesAgree
PROPERTY EveryCallEnds
CHECK_DEADLOCK FALSE
