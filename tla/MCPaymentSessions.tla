-------------------------- MODULE MCPaymentSessions --------------------------
(* A small instance of PaymentSessions: two bills of one due, two units each. *)
EXTENDS PaymentSessions, TLC

CONSTANTS jan, feb, iuran, p1, p2, p3, kas, s1, s2

JanBeforeFeb == [b \in Bills |-> IF b = jan THEN 1 ELSE 2]
OneDue == [b \in Bills |-> iuran]
TwoUnits == [b \in Bills |-> 2]

\* p1 covers both months and p2 fills the second: they do not fit together.
\* p3 is a donation.
Overlapping == [p \in PaymentIds |->
    [b \in Bills |-> IF p = p1 THEN 1 ELSE IF p = p2 /\ b = feb THEN 2 ELSE 0]]

OneUnitThere == [l \in Locations |-> 1]

Bookings == {"staff pay", "warga pay"} \X {p1, p2} \X {NoLocation}
Donations == {"donate"} \X {p3} \X Dues
Decisions == {"approve", "reject", "reverse", "undo"} \X PaymentIds \X {NoLocation}
             \cup {"approve"} \X PaymentIds \X Locations
BillRequests == {"cancel"} \X Bills \X {NoLocation}
Expenses == {"pay out"} \X Locations \X {NoLocation}

BillHandlers == Bookings \cup Decisions \cup BillRequests
AllRequests == BillHandlers \cup Donations \cup Expenses

Interchangeable == Permutations(Sessions)
=============================================================================
