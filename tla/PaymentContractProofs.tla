------------------------ MODULE PaymentContractProofs ------------------------
(***************************************************************************)
(* PaymentLedger implements PaymentContract: every step of its handlers,   *)
(* seen through the refinement mapping, is one decision on one payment or  *)
(* nothing.                                                                *)
(***************************************************************************)
EXTENDS PaymentRulesProofs

-----------------------------------------------------------------------------
(* What the contract sees of the tables. *)

StatusOf == [p \in PaymentIds |-> payments[p].status]
AllocOf == [p \in PaymentIds |-> payments[p].alloc]
AmountOf == [p \in PaymentIds |-> payments[p].amount]
CreditOf == [b \in Bills |-> ApprovedIn(payments, b)]

\* The cash posted for payments is counted, so it must be finite.
CashFinite == /\ IsFiniteSet(CashUnits("payment"))
              /\ IsFiniteSet(CashUnits("payment_reversal"))

-----------------------------------------------------------------------------
(* The cash. *)

\* A unit of cash belongs to a row of the ledger with the note.
LEMMA CashUnit ==
    ASSUME NEW note
    PROVE  \A x : x \in CashUnits(note) <=>
              \E i \in 1 .. Len(ledger) : /\ ledger[i].note = note
                                          /\ x \in {i} \X (1 .. ledger[i].amount)
BY DEF CashUnits

\* After a step too.
LEMMA CashUnitAfter ==
    ASSUME NEW note
    PROVE  \A x : x \in CashUnits(note)' <=>
              \E i \in 1 .. Len(ledger') : /\ ledger'[i].note = note
                                           /\ x \in {i} \X (1 .. ledger'[i].amount)
BY DEF CashUnits

\* An interval of n units has n members, whoever they belong to.
LEMMA UnitsOf ==
    ASSUME NEW x, NEW n \in Nat
    PROVE  IsFiniteSet({x} \X (1 .. n)) /\ Cardinality({x} \X (1 .. n)) = n
<1>1. IsFiniteSet({x}) /\ Cardinality({x}) = 1
  BY FS_Singleton
<1>2. IsFiniteSet(1 .. n) /\ Cardinality(1 .. n) = n
  <2>1. Cardinality(1 .. n) = IF 1 > n THEN 0 ELSE n - 1 + 1
    BY FS_Interval
  <2> QED
    BY <2>1, FS_Interval
<1>3. /\ IsFiniteSet({x} \X (1 .. n))
      /\ Cardinality({x} \X (1 .. n)) = Cardinality({x}) * Cardinality(1 .. n)
  BY <1>1, <1>2, FS_Product
<1> QED
  BY <1>1, <1>2, <1>3

\* A posting adds its amount to the cash posted under its note.
LEMMA PostedCash ==
    ASSUME TypeOK, NEW type, NEW amt \in Nat, NEW q, NEW r, NEW loc, NEW n,
           TransactionCreate(type, amt, q, r, loc, n),
           NEW note, IsFiniteSet(CashUnits(note))
    PROVE  /\ IsFiniteSet(CashUnits(note)')
           /\ Cardinality(CashUnits(note)')
                 = Cardinality(CashUnits(note)) + (IF note = n THEN amt ELSE 0)
<1> DEFINE old == CashUnits(note)
           k == Len(ledger) + 1
           new == {k} \X (1 .. amt)
<1>1. /\ Len(ledger) \in Nat /\ Len(ledger') = k
      /\ \A i \in 1 .. Len(ledger) : ledger'[i] = ledger[i]
      /\ ledger'[k].amount = amt /\ ledger'[k].note = n
  BY Posted
<1>2. /\ 1 .. Len(ledger') = (1 .. Len(ledger)) \cup {k}
      /\ k \notin 1 .. Len(ledger)
  BY <1>1
<1>3. Cardinality(old) \in Nat
  BY FS_CardinalityType
<1>4. CASE note # n
  <2>1. \A x : x \in CashUnits(note)' <=> x \in CashUnits(note)
    BY <1>1, <1>2, <1>4, CashUnit, CashUnitAfter
  <2>2. CashUnits(note)' = old
    BY <2>1
  <2> QED
    BY <1>3, <1>4, <2>2
<1>5. CASE note = n
  <2>1. \A x : x \in CashUnits(note)' <=> x \in old \/ x \in new
    BY <1>1, <1>2, <1>5, CashUnit, CashUnitAfter
  <2>2. CashUnits(note)' = old \cup new
    BY <2>1
  <2>3. old \cap new = {}
    BY <1>2, CashUnit
  <2>4. IsFiniteSet(new) /\ Cardinality(new) = amt
    BY UnitsOf
  <2>5. /\ IsFiniteSet(old \cup new)
        /\ Cardinality(old \cup new)
              = Cardinality(old) + Cardinality(new) - Cardinality(old \cap new)
    BY <2>4, FS_Union
  <2>6. Cardinality(old \cap new) = 0
    BY <2>3, FS_EmptySet
  <2>7. Cardinality(old \cup new) = Cardinality(old) + amt
    <3> HIDE DEF old, new
    <3> QED
      BY <1>3, <2>4, <2>5, <2>6
  <2> QED
    BY <1>5, <2>2, <2>5, <2>7
<1> QED
  BY <1>4, <1>5

\* What a posting does to the cash of the contract.
LEMMA CashMoves ==
    ASSUME TypeOK, CashFinite, NEW type, NEW amt \in Nat, NEW q, NEW r, NEW loc, NEW n,
           TransactionCreate(type, amt, q, r, loc, n)
    PROVE  /\ CashFinite'
           /\ n = "payment" => PaymentCash' = PaymentCash + 1 * amt
           /\ n = "payment_reversal" => PaymentCash' = PaymentCash + (-1) * amt
           /\ n \notin {"payment", "payment_reversal"} => PaymentCash' = PaymentCash
<1> DEFINE in == CashUnits("payment")
           back == CashUnits("payment_reversal")
<1>1. /\ IsFiniteSet(in') /\ IsFiniteSet(back')
      /\ Cardinality(in') = Cardinality(in) + (IF "payment" = n THEN amt ELSE 0)
      /\ Cardinality(back') = Cardinality(back) + (IF "payment_reversal" = n THEN amt ELSE 0)
  BY PostedCash DEF CashFinite
<1>2. Cardinality(in) \in Nat /\ Cardinality(back) \in Nat
  BY FS_CardinalityType DEF CashFinite
<1>3. CashFinite'
  BY <1>1 DEF CashFinite
<1>4. /\ PaymentCash = Cardinality(in) - Cardinality(back)
      /\ PaymentCash' = Cardinality(in') - Cardinality(back')
  BY DEF PaymentCash
<1> HIDE DEF in, back
<1>5. /\ n = "payment" => PaymentCash' = PaymentCash + 1 * amt
      /\ n = "payment_reversal" => PaymentCash' = PaymentCash + (-1) * amt
      /\ n \notin {"payment", "payment_reversal"} => PaymentCash' = PaymentCash
  BY <1>1, <1>2, <1>4
<1> QED
  BY <1>3, <1>5

\* No posting, no change of the cash.
LEMMA CashStays ==
    ASSUME CashFinite, ledger' = ledger
    PROVE  CashFinite' /\ PaymentCash' = PaymentCash
<1>1. \A note : CashUnits(note)' = CashUnits(note)
  BY DEF CashUnits
<1> QED
  BY <1>1 DEF CashFinite, PaymentCash

-----------------------------------------------------------------------------
(* The amounts. *)

\* What the contract and the code say a payment adds up to is the same.
LEMMA SameTotal ==
    ASSUME NEW a \in Allocation
    PROVE  Contract!Total(a) = AllocTotal(a)
<1>1. \A b \in Bills : a[b] \in 0 .. MaxPay
  BY DEF Allocation
<1>2. UNION {{b} \X (1 .. a[b]) : b \in Bills}
         = {x \in Bills \X (1 .. MaxPay) : x[2] <= a[x[1]]}
  <2>1. \A x : x \in UNION {{b} \X (1 .. a[b]) : b \in Bills}
                  <=> \E b \in Bills : x \in {b} \X (1 .. a[b])
    OBVIOUS
  <2>2. \A x : (\E b \in Bills : x \in {b} \X (1 .. a[b]))
                  <=> x \in {y \in Bills \X (1 .. MaxPay) : y[2] <= a[y[1]]}
    BY <1>1, Bounds
  <2> QED
    BY <2>1, <2>2
<1>3. \A S : Contract!Cardinality(S) = Cardinality(S)
  BY DEF Contract!Cardinality, Cardinality
<1> QED
  BY <1>2, <1>3 DEF Contract!Total, AllocTotal

\* A payment for one bill adds up to its amount.
LEMMA OneTotal ==
    ASSUME NEW b \in Bills, NEW amt \in 1 .. MaxPay
    PROVE  AllocTotal(One(b, amt)) = amt
<1> DEFINE a == One(b, amt)
<1>1. amt \in Nat /\ amt <= MaxPay
  BY Bounds
<1>2. a[b] = amt /\ \A c \in Bills : c # b => a[c] = 0
  BY OneIs
<1> HIDE DEF a
<1>3. {x \in Bills \X (1 .. MaxPay) : x[2] <= a[x[1]]} = {b} \X (1 .. amt)
  BY <1>1, <1>2, Bounds
<1>4. Cardinality({b} \X (1 .. amt)) = amt
  BY <1>1, UnitsOf
<1> QED
  BY <1>3, <1>4 DEF AllocTotal, a

\* A payment is entered with the amount its allocation adds up to, unless it
\* is a donation.
Sums(p) == \/ payments'[p].alloc = NoAllocation
           \/ payments'[p].amount = AllocTotal(payments'[p].alloc)

\* Recording enters a payment of the right amount.
LEMMA EntrySums ==
    ASSUME TypeOK, RecordActions
    PROVE  \E p \in PaymentIds : PaymentStep(p) /\ Sums(p)
<1>1. PICK p \in PaymentIds : PaymentStep(p)
  BY RecordSteps
<1>2. payments'[p] # payments[p]
  BY <1>1 DEF PaymentStep, Entered, Decided, Withdrawn
<1>3. PICK q \in PaymentIds, u \in Users :
         \/ \E b \in Bills, amt \in 1 .. MaxPay :
               StaffPayBill(q, u, b, amt) \/ WargaPayBill(q, u, b, amt)
         \/ \E d \in Dues, amt \in 1 .. MaxPay : Donate(q, u, d, amt)
         \/ \E alloc \in Allocation : StaffPayPeriods(q, u, alloc) \/ WargaPayPeriods(q, u, alloc)
  BY DEF RecordActions
<1>4. PICK row : payments' = [payments EXCEPT ![q] = row]
  BY <1>3 DEF StaffPayBill, WargaPayBill, Donate, StaffPayPeriods, WargaPayPeriods
<1>5. p = q
  BY <1>2, <1>4 DEF TypeOK
<1>6. ASSUME NEW b \in Bills, NEW amt \in 1 .. MaxPay,
             StaffPayBill(q, u, b, amt) \/ WargaPayBill(q, u, b, amt)
      PROVE  Sums(q)
  <2>1. payments'[q].alloc = One(b, amt) /\ payments'[q].amount = amt
    BY <1>6 DEF StaffPayBill, WargaPayBill, NewPayment, TypeOK
  <2> QED
    BY <2>1, OneTotal DEF Sums
<1>7. ASSUME NEW d \in Dues, NEW amt \in 1 .. MaxPay, Donate(q, u, d, amt)
      PROVE  Sums(q)
  BY <1>7 DEF Donate, NewPayment, TypeOK, Sums
<1>8. ASSUME NEW alloc \in Allocation,
             StaffPayPeriods(q, u, alloc) \/ WargaPayPeriods(q, u, alloc)
      PROVE  Sums(q)
  BY <1>8 DEF StaffPayPeriods, WargaPayPeriods, NewPayment, TypeOK, Sums
<1>9. Sums(q)
  BY <1>3, <1>6, <1>7, <1>8
<1> QED
  BY <1>1, <1>5, <1>9

-----------------------------------------------------------------------------
(* The steps. *)

\* One payment changes, and the contract sees it change.
LEMMA OneSeen ==
    ASSUME TypeOK, NEW p \in PaymentIds,
           \A q \in PaymentIds \ {p} : payments'[q] = payments[q]
    PROVE  /\ StatusOf' = [StatusOf EXCEPT ![p] = payments'[p].status]
           /\ AllocOf' = [AllocOf EXCEPT ![p] = payments'[p].alloc]
           /\ AmountOf' = [AmountOf EXCEPT ![p] = payments'[p].amount]
           /\ AllocOf'[p] = payments'[p].alloc /\ AmountOf'[p] = payments'[p].amount
           /\ StatusOf[p] = payments[p].status
           /\ AllocOf[p] = payments[p].alloc /\ AmountOf[p] = payments[p].amount
BY DEF StatusOf, AllocOf, AmountOf

\* With the same claim it sees only the status change.
LEMMA ClaimSeen ==
    ASSUME NEW p \in PaymentIds, SameClaim(p),
           \A q \in PaymentIds \ {p} : payments'[q] = payments[q]
    PROVE  AllocOf' = AllocOf /\ AmountOf' = AmountOf
BY DEF SameClaim, AllocOf, AmountOf

\* A payment that becomes approved is credited to its bills, ...
LEMMA Credited ==
    ASSUME TypeOK, TypeOK', NEW p \in PaymentIds,
           \A q \in PaymentIds \ {p} : payments'[q] = payments[q],
           payments[p].status # "APPROVED", payments'[p].status = "APPROVED"
    PROVE  CreditOf' = [b \in Bills |-> CreditOf[b] + 1 * payments'[p].alloc[b]]
<1>1. ASSUME NEW b \in Bills
      PROVE  CreditOf'[b] = CreditOf[b] + 1 * payments'[p].alloc[b]
  <2>1. payments'[p].alloc[b] \in 0 .. MaxPay
    BY DEF TypeOK, PaymentRow, Allocation
  <2>2. ApprovedIn(payments', b) = ApprovedIn(payments, b) + payments'[p].alloc[b]
    BY <2>1, ApprovedAdded
  <2>3. payments'[p].alloc[b] \in Nat
    BY <2>1, Bounds
  <2>4. CreditOf'[b] = ApprovedIn(payments', b) /\ CreditOf[b] = ApprovedIn(payments, b)
    BY DEF CreditOf
  <2> QED
    BY <2>2, <2>3, <2>4
<1>2. CreditOf' = [b \in Bills |-> CreditOf'[b]]
  BY DEF CreditOf
<1> QED
  BY <1>1, <1>2

\* ... one that stops being approved is taken off them, ...
LEMMA Debited ==
    ASSUME TypeOK, NEW p \in PaymentIds,
           \A q \in PaymentIds \ {p} : payments'[q] = payments[q],
           payments[p].status = "APPROVED", payments'[p].status # "APPROVED"
    PROVE  CreditOf' = [b \in Bills |-> CreditOf[b] + (-1) * payments[p].alloc[b]]
<1>1. ASSUME NEW b \in Bills
      PROVE  CreditOf'[b] = CreditOf[b] + (-1) * payments[p].alloc[b]
  <2>1. payments[p].alloc[b] \in 0 .. MaxPay
    BY DEF TypeOK, PaymentRow, Allocation
  <2>2. ApprovedIn(payments, b) = ApprovedIn(payments', b) + payments[p].alloc[b]
    <3>1. \A q \in PaymentIds \ {p} : payments[q] = payments'[q]
      OBVIOUS
    <3> QED
      BY ONLY <2>1, <3>1, ApprovedAdded, p \in PaymentIds, b \in Bills,
         payments[p].status = "APPROVED", payments'[p].status # "APPROVED"
  <2>3. payments[p].alloc[b] \in Nat
    BY <2>1, Bounds
  <2>4. ApprovedIn(payments', b) \in Nat
    BY ApprovedInNat
  <2>5. CreditOf'[b] = ApprovedIn(payments', b) /\ CreditOf[b] = ApprovedIn(payments, b)
    BY DEF CreditOf
  <2> QED
    BY <2>2, <2>3, <2>4, <2>5
<1>2. CreditOf' = [b \in Bills |-> CreditOf'[b]]
  BY DEF CreditOf
<1> QED
  BY <1>1, <1>2

\* ... and any other leaves the credit of all bills alone.
LEMMA CreditStays ==
    ASSUME NEW p \in PaymentIds,
           \A q \in PaymentIds \ {p} : payments'[q] = payments[q],
           payments[p].status # "APPROVED", payments'[p].status # "APPROVED"
    PROVE  CreditOf' = CreditOf
<1>1. \A b \in Bills : ApprovedIn(payments', b) = ApprovedIn(payments, b)
  BY ApprovedKept
<1> QED
  BY <1>1 DEF CreditOf

\* The income of an approval reaches the cash.
LEMMA IncomeSeen ==
    ASSUME TypeOK, TypeOK', CashFinite, NEW p \in PaymentIds, Posts(p)
    PROVE  CashFinite' /\ PaymentCash' = PaymentCash + 1 * payments'[p].amount
<1>1. payments'[p].amount \in Nat
  BY DEF TypeOK, PaymentRow
<1>2. PICK amt, loc : /\ amt \in Nat /\ amt = payments'[p].amount
                      /\ TransactionCreate("income", amt, p, 0, loc, "payment")
  BY <1>1 DEF Posts, PostPaymentIncome
<1>3. CashFinite' /\ PaymentCash' = PaymentCash + 1 * amt
  BY <1>2, CashMoves
<1> QED
  BY <1>2, <1>3

\* A payment is entered: submitted, or recorded with its money.
LEMMA EnterStep ==
    ASSUME TypeOK, TypeOK', CashFinite, NEW p \in PaymentIds,
           \A q \in PaymentIds \ {p} : payments'[q] = payments[q], Entered(p), Sums(p)
    PROVE  CashFinite' /\ Contract!Next
<1>1. /\ payments[p].status = "none" /\ payments'[p].status \in {"PENDING", "APPROVED"}
      /\ PostsIfApproved(p)
  BY DEF Entered
<1>2. /\ payments'[p].alloc \in Allocation /\ payments'[p].amount \in Nat
  BY DEF TypeOK, PaymentRow
<1>3. payments'[p].alloc \in [Bills -> Nat]
  BY <1>2, Bounds DEF Allocation
<1>4. \/ payments'[p].alloc = Contract!NothingPaid
      \/ payments'[p].amount = Contract!Total(payments'[p].alloc)
  BY <1>2, SameTotal DEF Sums, NoAllocation, Contract!NothingPaid
<1>5. ASSUME NEW s, s = payments'[p].status
      PROVE  Contract!Enter(p, s)
  BY <1>1, <1>2, <1>3, <1>4, <1>5, OneSeen DEF Contract!Enter, StatusOf, AllocOf, AmountOf
<1>6. CASE payments'[p].status = "APPROVED"
  <2>1. CashFinite' /\ PaymentCash' = PaymentCash + 1 * payments'[p].amount
    BY <1>1, <1>6, IncomeSeen DEF PostsIfApproved
  <2>2. CreditOf' = [b \in Bills |-> CreditOf[b] + 1 * payments'[p].alloc[b]]
    BY <1>1, <1>6, Credited
  <2>3. Contract!Record(p)
    BY <1>5, <1>6, <2>1, <2>2, OneSeen
       DEF Contract!Record, Contract!Recognise, CreditOf, AllocOf, AmountOf
  <2> QED
    BY <2>1, <2>3 DEF Contract!Next
<1>7. CASE payments'[p].status = "PENDING"
  <2>1. CashFinite' /\ PaymentCash' = PaymentCash
    BY <1>1, <1>7, CashStays DEF PostsIfApproved
  <2>2. CreditOf' = CreditOf
    BY <1>1, <1>7, CreditStays
  <2>3. Contract!Submit(p)
    BY <1>5, <1>7, <2>1, <2>2 DEF Contract!Submit, CreditOf
  <2> QED
    BY <2>1, <2>3 DEF Contract!Next
<1> QED
  BY <1>1, <1>6, <1>7

\* A pending payment is approved with its money, or rejected.
LEMMA DecideStep ==
    ASSUME TypeOK, TypeOK', CashFinite, NEW p \in PaymentIds,
           \A q \in PaymentIds \ {p} : payments'[q] = payments[q], Decided(p)
    PROVE  CashFinite' /\ Contract!Next
<1>1. /\ payments[p].status = "PENDING" /\ payments'[p].status \in {"APPROVED", "REJECTED"}
      /\ SameClaim(p) /\ PostsIfApproved(p)
  BY DEF Decided
<1>2. /\ StatusOf' = [StatusOf EXCEPT ![p] = payments'[p].status]
      /\ StatusOf[p] = "PENDING"
      /\ AllocOf' = AllocOf /\ AmountOf' = AmountOf
      /\ AllocOf[p] = payments'[p].alloc /\ AmountOf[p] = payments'[p].amount
  BY <1>1, OneSeen, ClaimSeen DEF SameClaim
<1>3. CASE payments'[p].status = "APPROVED"
  <2>1. CashFinite' /\ PaymentCash' = PaymentCash + 1 * payments'[p].amount
    BY <1>1, <1>3, IncomeSeen DEF PostsIfApproved
  <2>2. CreditOf' = [b \in Bills |-> CreditOf[b] + 1 * payments'[p].alloc[b]]
    BY <1>1, <1>3, Credited
  <2>3. Contract!Approve(p)
    BY <1>2, <1>3, <2>1, <2>2
       DEF Contract!Approve, Contract!Recognise, CreditOf, StatusOf, AllocOf, AmountOf
  <2> QED
    BY <2>1, <2>3 DEF Contract!Next
<1>4. CASE payments'[p].status = "REJECTED"
  <2>1. CashFinite' /\ PaymentCash' = PaymentCash
    BY <1>1, <1>4, CashStays DEF PostsIfApproved
  <2>2. CreditOf' = CreditOf
    BY <1>1, <1>4, CreditStays
  <2>3. Contract!Reject(p)
    BY <1>2, <1>4, <2>1, <2>2 DEF Contract!Reject, CreditOf, StatusOf, AllocOf, AmountOf
  <2> QED
    BY <2>1, <2>3 DEF Contract!Next
<1> QED
  BY <1>1, <1>3, <1>4

\* An approved payment is reversed, and its money is taken back.
LEMMA ReverseStep ==
    ASSUME TypeOK, CashFinite, NEW p \in PaymentIds,
           \A q \in PaymentIds \ {p} : payments'[q] = payments[q], Withdrawn(p)
    PROVE  CashFinite' /\ Contract!Next
<1>1. /\ payments[p].status = "APPROVED" /\ payments'[p].status = "REVERSED" /\ SameClaim(p)
      /\ \E i \in 1 .. Len(ledger) :
            TransactionCreate("expense", payments[p].amount, p, i, ledger[i].location,
                              "payment_reversal")
  BY DEF Withdrawn
<1>2. /\ StatusOf' = [StatusOf EXCEPT ![p] = payments'[p].status]
      /\ StatusOf[p] = "APPROVED"
      /\ AllocOf' = AllocOf /\ AmountOf' = AmountOf
      /\ AllocOf[p] = payments[p].alloc /\ AmountOf[p] = payments[p].amount
  BY <1>1, OneSeen, ClaimSeen
<1>3. payments[p].amount \in Nat
  BY DEF TypeOK, PaymentRow
<1>4. PICK amt, i, loc :
         /\ amt \in Nat /\ amt = payments[p].amount
         /\ TransactionCreate("expense", amt, p, i, loc, "payment_reversal")
  BY <1>1, <1>3
<1>5. CashFinite' /\ PaymentCash' = PaymentCash + (-1) * amt
  BY <1>4, CashMoves
<1>6. CreditOf' = [b \in Bills |-> CreditOf[b] + (-1) * payments[p].alloc[b]]
  BY <1>1, Debited
<1>7. Contract!Reverse(p)
  BY <1>1, <1>2, <1>4, <1>5, <1>6
     DEF Contract!Reverse, Contract!Recognise, CreditOf, StatusOf, AllocOf, AmountOf
<1> QED
  BY <1>5, <1>7 DEF Contract!Next

\* Nothing happens to any payment.
LEMMA QuietStep ==
    ASSUME payments' = payments, PaymentCash' = PaymentCash
    PROVE  UNCHANGED Contract!contract
<1>1. /\ StatusOf' = StatusOf /\ AllocOf' = AllocOf /\ AmountOf' = AmountOf
      /\ CreditOf' = CreditOf
  BY DEF StatusOf, AllocOf, AmountOf, CreditOf, ApprovedIn, Units
<1> QED
  BY <1>1 DEF Contract!contract, StatusOf, AllocOf, AmountOf, CreditOf

\* A row posted by hand is none of a payment's cash.
LEMMA HandQuiet ==
    ASSUME TypeOK, CashFinite, payments' = payments,
           \/ \E i \in 1 .. Len(ledger) : ReverseTransaction(i)
           \/ \E type \in {"income", "expense"}, amt \in ManualAmounts, loc \in AnyLocation :
                 CreateManualTransaction(type, amt, loc)
    PROVE  CashFinite' /\ UNCHANGED Contract!contract
<1>1. CASE \E i \in 1 .. Len(ledger) : ReverseTransaction(i)
  <2>1. PICK i \in 1 .. Len(ledger) : ReverseTransaction(i)
    BY <1>1
  <2>2. ledger[i] \in LedgerRow
    BY DEF TypeOK
  <2>3. PICK type, amt, q, loc :
           amt \in Nat /\ TransactionCreate(type, amt, q, i, loc, "hand_reversal")
    BY <2>1, <2>2 DEF ReverseTransaction, LedgerRow
  <2>4. CashFinite' /\ PaymentCash' = PaymentCash
    BY <2>3, CashMoves
  <2> QED
    BY <2>4, QuietStep
<1>2. CASE \E type \in {"income", "expense"}, amt \in ManualAmounts, loc \in AnyLocation :
              CreateManualTransaction(type, amt, loc)
  <2>1. PICK type, amt, loc :
           amt \in Nat /\ TransactionCreate(type, amt, NoPayment, 0, loc, "manual")
    BY <1>2, Bounds DEF CreateManualTransaction
  <2>2. CashFinite' /\ PaymentCash' = PaymentCash
    BY <2>1, CashMoves
  <2> QED
    BY <2>2, QuietStep
<1> QED
  BY <1>1, <1>2

\* Only recording enters payments.
LEMMA NoEntry ==
    ASSUME TypeOK, VerifyActions \/ LedgerActions, NEW p \in PaymentIds
    PROVE  ~Entered(p)
<1>1. SUFFICES ASSUME payments[p].status = "none"
               PROVE  payments'[p] = payments[p]
  BY DEF Entered
<1>2. CASE VerifyActions
  <2>1. PICK q \in PaymentIds, v \in Users :
           \/ RejectPayment(q, v)
           \/ \E loc \in AnyLocation : \/ ApproveDonation(q, v, loc)
                                       \/ VerifySinglePayment(q, v, loc)
                                       \/ VerifyMultiPeriodPayment(q, v, loc)
    BY <1>2 DEF VerifyActions
  <2>2. payments[q].status = "PENDING"
    BY <2>1 DEF RejectPayment, ApproveDonation, VerifySinglePayment, VerifyMultiPeriodPayment,
                Verifiable
  <2>3. \E s : payments' = PaymentVerify(q, v, s)
    BY <2>1 DEF RejectPayment, ApproveDonation, VerifySinglePayment, VerifyMultiPeriodPayment
  <2> QED
    BY <1>1, <2>2, <2>3 DEF PaymentVerify, TypeOK
<1>3. CASE LedgerActions
  <2>1. CASE \E q \in PaymentIds : ReverseApprovedPayment(q)
    BY <1>1, <2>1 DEF ReverseApprovedPayment, TypeOK
  <2>2. CASE payments' = payments
    BY <2>2
  <2> QED
    BY <1>3, <2>1, <2>2 DEF LedgerActions, ReverseTransaction, CreateManualTransaction
<1> QED
  BY <1>2, <1>3

\* Every step is a step of the contract, or none.
LEMMA ContractStep ==
    ASSUME TypeOK, TypeOK', CashFinite, [Next]_vars
    PROVE  CashFinite' /\ [Contract!Next]_(Contract!contract)
<1>1. CASE RecordActions
  <2>1. PICK p \in PaymentIds : PaymentStep(p) /\ Sums(p)
    BY <1>1, EntrySums
  <2>2. Entered(p) \/ Decided(p) \/ Withdrawn(p)
    BY <2>1 DEF PaymentStep
  <2> QED
    BY <2>1, <2>2, EnterStep, DecideStep, ReverseStep DEF PaymentStep
<1>2. ASSUME NEW p \in PaymentIds, PaymentStep(p), ~Entered(p)
      PROVE  CashFinite' /\ Contract!Next
  BY <1>2, DecideStep, ReverseStep DEF PaymentStep
<1>3. CASE VerifyActions
  <2>1. PICK p \in PaymentIds : PaymentStep(p) /\ ~Entered(p)
    BY <1>3, VerifySteps, NoEntry
  <2> QED
    BY <2>1, <1>2
<1>4. CASE LedgerActions
  <2>1. CASE \E p \in PaymentIds : PaymentStep(p) /\ ~Entered(p)
    BY <2>1, <1>2
  <2>2. CASE /\ UNCHANGED <<payments, bills>>
             /\ \/ \E i \in 1 .. Len(ledger) : ReverseTransaction(i)
                \/ \E type \in {"income", "expense"}, amt \in ManualAmounts,
                      loc \in AnyLocation : CreateManualTransaction(type, amt, loc)
    BY <2>2, HandQuiet
  <2> QED
    BY <1>4, <2>1, <2>2, LedgerSteps, NoEntry
<1>5. CASE DueActions \/ ExpireVoluntaryDues \/ BillActions \/ UNCHANGED vars
  <2>1. payments' = payments /\ CashFinite' /\ PaymentCash' = PaymentCash
    BY <1>5, OtherSteps, CashStays
  <2> QED
    BY <2>1, QuietStep
<1> QED
  BY <1>1, <1>3, <1>4, <1>5 DEF Next

\* The tables start as the contract does: no payment, no money.
LEMMA ContractStarts == Init => CashFinite /\ Contract!Init
<1> SUFFICES ASSUME Init
             PROVE  CashFinite /\ Contract!Init
  OBVIOUS
<1>1. \A p \in PaymentIds : /\ payments[p].status = "none" /\ payments[p].amount = 0
                            /\ payments[p].alloc = NoAllocation
  BY DEF Init, NewPayment
<1>2. Cardinality({}) = 0 /\ IsFiniteSet({})
  BY FS_EmptySet
<1>3. \A note : CashUnits(note) = {}
  BY DEF Init, CashUnits
<1>4. PaymentCash = 0 /\ CashFinite
  BY <1>2, <1>3 DEF PaymentCash, CashFinite
<1>5. \A b \in Bills : ApprovedIn(payments, b) = 0
  <2>1. \A b \in Bills : Units(payments, b, "APPROVED") = {}
    BY <1>1 DEF Units
  <2> QED
    BY <1>2, <2>1 DEF ApprovedIn
<1> QED
  BY <1>1, <1>4, <1>5 DEF Contract!Init, Contract!NothingPaid, NoAllocation

\* The handlers implement the contract: a payment is decided once, and its
\* money reaches every bill it covers and the KAS in the same step, and leaves
\* them in the same step, whatever else happens in between.
THEOREM KeepsContract == Spec => ImplementsContract
<1>1. TypeOK /\ TypeOK' /\ CashFinite /\ [Next]_vars
         => CashFinite' /\ [Contract!Next]_(Contract!contract)
  BY ContractStep
<1>2. Spec => []TypeOK
  BY TypeCorrect
<1> QED
  BY <1>1, <1>2, ContractStarts, PTL DEF Spec, ImplementsContract, Contract!Spec
=============================================================================
