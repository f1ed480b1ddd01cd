------------------------- MODULE PaymentLedgerProofs -------------------------
(***************************************************************************)
(* Theorems about PaymentLedger, for every set of bills, payments, users   *)
(* and locations and every value of the bounds.                            *)
(***************************************************************************)
EXTENDS PaymentLedger, FiniteSetTheorems, TLAPS

-----------------------------------------------------------------------------
(* The sums over payment rows are cardinalities of finite sets. *)

\* The units of a bill in any status are finite, as payments and amounts are.
LEMMA UnitsFinite ==
    ASSUME NEW ps, NEW b, NEW status
    PROVE  IsFiniteSet(Units(ps, b, status))
<1>a. IsFiniteSet(1 .. MaxPay)
  BY Bounds, FS_Interval
<1>b. IsFiniteSet(PaymentIds)
  BY FiniteRows
<1>1. IsFiniteSet(PaymentIds \X (1 .. MaxPay))
  BY <1>a, <1>b, FS_Product
<1>2. Units(ps, b, status) \in SUBSET (PaymentIds \X (1 .. MaxPay))
  BY DEF Units
<1> QED
  BY <1>1, <1>2, FS_Subset

\* The approved money on a bill is a natural number.
LEMMA ApprovedInNat ==
    ASSUME NEW ps, NEW b
    PROVE  ApprovedIn(ps, b) \in Nat
BY UnitsFinite, FS_CardinalityType DEF ApprovedIn

\* So is what an allocation adds up to.
LEMMA AllocTotalNat ==
    ASSUME NEW alloc
    PROVE  AllocTotal(alloc) \in Nat
<1>a. IsFiniteSet(1 .. MaxPay)
  BY Bounds, FS_Interval
<1>b. IsFiniteSet(Bills)
  BY FiniteRows
<1>1. IsFiniteSet(Bills \X (1 .. MaxPay))
  BY <1>a, <1>b, FS_Product
<1>2. {x \in Bills \X (1 .. MaxPay) : x[2] <= alloc[x[1]]} \in SUBSET (Bills \X (1 .. MaxPay))
  OBVIOUS
<1> QED
  BY <1>1, <1>2, FS_Subset, FS_CardinalityType DEF AllocTotal

-----------------------------------------------------------------------------
(* Type correctness. *)

\* The row a new payment is inserted with is well formed.
LEMMA NewPaymentType ==
    ASSUME NEW kind \in {"single", "multi", "donation"}, NEW d \in Dues \cup {NoDue},
           NEW alloc \in Allocation, NEW amt \in Nat, NEW u \in Users \cup {NoUser},
           NEW status \in PaymentStatuses
    PROVE  NewPayment(kind, d, alloc, amt, u, status) \in PaymentRow
BY DEF NewPayment, PaymentRow

\* A bill whose status is recomputed stays a bill.
LEMMA ReconciledType ==
    ASSUME NEW row \in BillRow, NEW b, NEW total
    PROVE  Reconciled(row, b, total) \in BillRow
BY DEF Reconciled, BillRow, BillStatuses

\* A payment for one bill is an allocation.
LEMMA OneType ==
    ASSUME NEW b \in Bills, NEW amt \in 1 .. MaxPay
    PROVE  One(b, amt) \in Allocation
BY Bounds DEF One, Allocation

\* Posting a well-formed row keeps the ledger and the balances well formed.
LEMMA TransactionCreateType ==
    ASSUME TypeOK, NEW type \in {"income", "expense"}, NEW amt \in Nat,
           NEW p \in PaymentIds \cup {NoPayment}, NEW reversed \in Nat,
           NEW loc \in AnyLocation,
           NEW note \in {"manual", "payment", "payment_reversal", "hand_reversal"},
           TransactionCreate(type, amt, p, reversed, loc, note)
    PROVE  ledger' \in Seq(LedgerRow) /\ balance' \in [Locations -> Int]
<1>1. ledger' \in Seq(LedgerRow)
  BY DEF TransactionCreate, TypeOK, LedgerRow, AnyLocation
<1>2. balance' \in [Locations -> Int]
  BY DEF TransactionCreate, TypeOK, Delta, AnyLocation
<1> QED
  BY <1>1, <1>2

\* Editing, deactivating and expiring dues keeps the tables well formed.
LEMMA DueStepsType ==
    ASSUME TypeOK, DueActions \/ ExpireVoluntaryDues
    PROVE  TypeOK'
<1>1. ASSUME NEW d \in Dues, NEW row \in DueSettings, UpdateDue(d, row) PROVE TypeOK'
  BY <1>1, Actors DEF UpdateDue, TypeOK
<1>2. ASSUME NEW d \in Dues, DeactivateDue(d) PROVE TypeOK'
  BY <1>2 DEF DeactivateDue, TypeOK, DueRow
<1>3. ASSUME NEW d \in Dues, DeadlinePasses(d) PROVE TypeOK'
  BY <1>3 DEF DeadlinePasses, TypeOK, DueRow
<1>4. CASE ExpireVoluntaryDues
  BY <1>4 DEF ExpireVoluntaryDues, TypeOK, DueRow
<1> QED
  BY <1>1, <1>2, <1>3, <1>4 DEF DueActions

\* A bill whose obligation is recomputed stays a bill.
LEMMA ObligatoryRowType ==
    ASSUME NEW row \in BillRow, NEW t, NEW S
    PROVE  [row EXCEPT !.obligatory = t \in S] \in BillRow
<1>1. \A x \in BOOLEAN : [row EXCEPT !.obligatory = x] \in BillRow
  BY DEF BillRow
<1>2. (t \in S) \in BOOLEAN
  OBVIOUS
<1> QED
  BY ONLY <1>1, <1>2, Zenon

\* A bill that synchronisation issues or refreshes is a bill.
LEMMA UnpaidRowType ==
    ASSUME NEW row \in BillRow, NEW t, NEW S
    PROVE  [row EXCEPT !.status = "unpaid", !.obligatory = t \in S] \in BillRow
<1>1. \A x \in BOOLEAN : [row EXCEPT !.status = "unpaid", !.obligatory = x] \in BillRow
  BY DEF BillRow, BillStatuses
<1>2. (t \in S) \in BOOLEAN
  OBVIOUS
<1> QED
  BY ONLY <1>1, <1>2, Zenon

\* Issuing, editing and cancelling bills keeps the tables well formed.
LEMMA BillStepsType ==
    ASSUME TypeOK, BillActions
    PROVE  TypeOK'
<1>1. \A S : BillCreate(S) \in [Bills -> BillRow]
  BY DEF BillCreate, TypeOK, BillRow, BillStatuses
<1>2. ASSUME NEW bs \in [Bills -> BillRow], NEW occs, NEW ten
      PROVE  Synced(bs, occs, ten) \in [Bills -> BillRow]
  <2>1. ASSUME NEW b \in Bills
        PROVE  [bs[b] EXCEPT !.status = "unpaid",
                             !.obligatory = PeriodOf[b] \in ten[OccOf[b]].span] \in BillRow
    BY UnpaidRowType
  <2>2. \A b \in Bills : bs[b] \in BillRow
    OBVIOUS
  <2> QED
    BY <2>1, <2>2 DEF Synced
<1>3. ASSUME NEW d \in Dues, NEW t \in Periods, NEW occs \in SUBSET Occupancies,
             GenerateBills(d, t, occs)
      PROVE  TypeOK'
  BY <1>1, <1>3 DEF GenerateBills, TypeOK
<1>4. ASSUME NEW b \in Bills, CreateBill(b) PROVE TypeOK'
  BY <1>1, <1>4 DEF CreateBill, TypeOK
<1>5. ASSUME NEW b \in Bills, CancelBill(b) PROVE TypeOK'
  BY <1>5 DEF CancelBill, TypeOK, BillRow, BillStatuses
<1>6. ASSUME NEW b \in Bills, NEW a \in BOOLEAN, UpdateBillStatus(b, a) PROVE TypeOK'
  BY <1>6 DEF UpdateBillStatus, TypeOK, BillRow
<1>7. ASSUME NEW d \in Dues, NEW t \in Periods, NEW a \in BOOLEAN,
             UpdateDuePeriodStatus(d, t, a)
      PROVE  TypeOK'
  BY <1>7 DEF UpdateDuePeriodStatus, TypeOK, BillRow
<1>8. ASSUME NEW o \in Occupancies, NEW e \in TenureEdits,
             UpdateOccupancyDates(o, e[1], e[2], e[3])
      PROVE  TypeOK'
  <2> DEFINE span == {t \in Periods : e[1] <= t /\ (e[3] \/ t <= e[2])}
  <2>1. RecomputedForUnpaid(o, span) \in [Bills -> BillRow]
    <3>1. ASSUME NEW b \in Bills
          PROVE  [bills[b] EXCEPT !.obligatory = PeriodOf[b] \in span] \in BillRow
      BY ObligatoryRowType DEF TypeOK
    <3>2. \A b \in Bills : bills[b] \in BillRow
      BY DEF TypeOK
    <3> QED
      BY <3>1, <3>2 DEF RecomputedForUnpaid
  <2>2. bills' \in [Bills -> BillRow]
    BY <1>2, <1>8, <2>1 DEF UpdateOccupancyDates
  <2>3. e[3] \in BOOLEAN
    BY Bounds
  <2>4. tenure' \in [Occupancies -> TenureRow]
    BY <1>8, <2>3 DEF UpdateOccupancyDates, TypeOK, TenureRow
  <2> QED
    BY <1>8, <2>2, <2>4 DEF UpdateOccupancyDates, TypeOK
<1>9. ASSUME NEW occs \in SUBSET Occupancies, ListBills(occs) PROVE TypeOK'
  BY <1>2, <1>9 DEF ListBills, TypeOK
<1> QED
  BY <1>3, <1>4, <1>5, <1>6, <1>7, <1>8, <1>9 DEF BillActions

\* Recording payments and donations keeps the tables well formed.
LEMMA RecordStepsType ==
    ASSUME TypeOK, RecordActions
    PROVE  TypeOK'
<1> USE DEF AnyLocation
<1>1. ASSUME NEW p \in PaymentIds, NEW row \in PaymentRow, payments' = [payments EXCEPT ![p] = row]
      PROVE  payments' \in [PaymentIds -> PaymentRow]
  BY <1>1 DEF TypeOK
<1>2. PICK p \in PaymentIds, u \in Users :
         \/ \E b \in Bills, amt \in 1 .. MaxPay : StaffPayBill(p, u, b, amt) \/ WargaPayBill(p, u, b, amt)
         \/ \E d \in Dues, amt \in 1 .. MaxPay : Donate(p, u, d, amt)
         \/ \E alloc \in Allocation : StaffPayPeriods(p, u, alloc) \/ WargaPayPeriods(p, u, alloc)
  BY DEF RecordActions
<1>3. NoAllocation \in Allocation
  BY Bounds DEF NoAllocation, Allocation
<1>4. ASSUME NEW b \in Bills, NEW amt \in 1 .. MaxPay, StaffPayBill(p, u, b, amt) PROVE TypeOK'
  <2>1. amt \in Nat /\ One(b, amt) \in Allocation
    BY OneType, Bounds
  <2>2. payments' \in [PaymentIds -> PaymentRow]
    BY <1>1, <1>4, <2>1, NewPaymentType DEF StaffPayBill, PaymentStatuses
  <2>3. bills' \in [Bills -> BillRow]
    BY <1>4 DEF StaffPayBill, TypeOK, SettledStatus, BillRow, BillStatuses
  <2>4. TransactionCreate("income", amt, p, 0, NoLocation, "payment")
    BY <1>4 DEF StaffPayBill, PostPaymentIncome
  <2>5. ledger' \in Seq(LedgerRow) /\ balance' \in [Locations -> Int]
    BY <2>1, <2>4, TransactionCreateType
  <2> QED
    BY <1>4, <2>2, <2>3, <2>5 DEF StaffPayBill, TypeOK
<1>5. ASSUME NEW b \in Bills, NEW amt \in 1 .. MaxPay, WargaPayBill(p, u, b, amt) PROVE TypeOK'
  <2>1. amt \in Nat /\ One(b, amt) \in Allocation
    BY OneType, Bounds
  <2>2. payments' \in [PaymentIds -> PaymentRow]
    BY <1>1, <1>5, <2>1, NewPaymentType DEF WargaPayBill, PaymentStatuses
  <2> QED
    BY <1>5, <2>2 DEF WargaPayBill, TypeOK
<1>6. ASSUME NEW d \in Dues, NEW amt \in 1 .. MaxPay, Donate(p, u, d, amt) PROVE TypeOK'
  <2>1. amt \in Nat
    BY Bounds
  <2>2. payments' \in [PaymentIds -> PaymentRow]
    BY <1>1, <1>3, <1>6, <2>1, NewPaymentType DEF Donate, PaymentStatuses
  <2>3. ledger' \in Seq(LedgerRow) /\ balance' \in [Locations -> Int]
    <3>1. CASE PostPaymentIncome(p, amt, NoLocation)
      BY <2>1, <3>1, TransactionCreateType DEF PostPaymentIncome
    <3>2. CASE UNCHANGED <<ledger, balance>>
      BY <3>2 DEF TypeOK
    <3> QED
      BY <1>6, <3>1, <3>2 DEF Donate
  <2> QED
    BY <1>6, <2>2, <2>3 DEF Donate, TypeOK
<1>7. ASSUME NEW alloc \in Allocation, StaffPayPeriods(p, u, alloc) PROVE TypeOK'
  <2>1. AllocTotal(alloc) \in Nat
    BY AllocTotalNat
  <2>2. payments' \in [PaymentIds -> PaymentRow]
    BY <1>1, <1>7, <2>1, NewPaymentType DEF StaffPayPeriods, PaymentStatuses
  <2>3. bills' \in [Bills -> BillRow]
    BY <1>7 DEF StaffPayPeriods, TypeOK, SettleAll, SettledStatus, BillRow, BillStatuses
  <2>4. TransactionCreate("income", AllocTotal(alloc), p, 0, NoLocation, "payment")
    BY <1>7 DEF StaffPayPeriods, PostPaymentIncome
  <2>5. ledger' \in Seq(LedgerRow) /\ balance' \in [Locations -> Int]
    BY <2>1, <2>4, TransactionCreateType
  <2> QED
    BY <1>7, <2>2, <2>3, <2>5 DEF StaffPayPeriods, TypeOK
<1>8. ASSUME NEW alloc \in Allocation, WargaPayPeriods(p, u, alloc) PROVE TypeOK'
  <2>1. payments' \in [PaymentIds -> PaymentRow]
    BY <1>1, <1>8, AllocTotalNat, NewPaymentType DEF WargaPayPeriods, PaymentStatuses
  <2> QED
    BY <1>8, <2>1 DEF WargaPayPeriods, TypeOK
<1> QED
  BY <1>2, <1>4, <1>5, <1>6, <1>7, <1>8
\* Deciding on a payment keeps the payment rows well formed.
LEMMA PaymentVerifyType ==
    ASSUME TypeOK, NEW p \in PaymentIds, NEW v \in Users, NEW status \in PaymentStatuses
    PROVE  PaymentVerify(p, v, status) \in [PaymentIds -> PaymentRow]
<1>1. ASSUME NEW row \in PaymentRow
      PROVE  [row EXCEPT !.status = status, !.verified_by = v] \in PaymentRow
  BY DEF PaymentRow
<1>2. [payments[p] EXCEPT !.status = status, !.verified_by = v] \in PaymentRow
  BY <1>1 DEF TypeOK
<1>3. PaymentVerify(p, v, status) =
         [payments EXCEPT ![p] = [payments[p] EXCEPT !.status = status, !.verified_by = v]]
  BY DEF PaymentVerify, TypeOK, PaymentRow
<1> QED
  BY <1>2, <1>3 DEF TypeOK

\* Recomputing the statuses of bills keeps the bill rows well formed.
LEMMA ReconcileBillsType ==
    ASSUME TypeOK, NEW ps, NEW touched
    PROVE  ReconcileBills(ps, touched) \in [Bills -> BillRow]
BY ReconciledType DEF ReconcileBills, TypeOK

\* Approving and rejecting keeps the tables well formed.
LEMMA VerifyStepsType ==
    ASSUME TypeOK, VerifyActions
    PROVE  TypeOK'
<1>1. PICK p \in PaymentIds, v \in Users :
         \/ RejectPayment(p, v)
         \/ \E loc \in AnyLocation : \/ ApproveDonation(p, v, loc)
                                     \/ VerifySinglePayment(p, v, loc)
                                     \/ VerifyMultiPeriodPayment(p, v, loc)
  BY DEF VerifyActions
<1>2. payments[p].amount \in Nat /\ payments[p].alloc \in Allocation
  BY DEF TypeOK, PaymentRow
<1>3. ASSUME NEW loc \in AnyLocation, PostPaymentIncome(p, payments[p].amount, loc)
      PROVE  ledger' \in Seq(LedgerRow) /\ balance' \in [Locations -> Int]
  <2>1. TransactionCreate("income", payments[p].amount, p, 0, loc, "payment")
    BY <1>3 DEF PostPaymentIncome
  <2> QED
    BY <1>2, <2>1, TransactionCreateType
<1>4. CASE RejectPayment(p, v)
  <2>1. payments' \in [PaymentIds -> PaymentRow]
    BY <1>4, PaymentVerifyType DEF RejectPayment, PaymentStatuses
  <2>2. bills' \in [Bills -> BillRow]
    BY <1>4, ReconcileBillsType DEF RejectPayment
  <2> QED
    BY <1>4, <2>1, <2>2 DEF RejectPayment, TypeOK
<1>5. ASSUME NEW loc \in AnyLocation, ApproveDonation(p, v, loc) PROVE TypeOK'
  <2>1. payments' \in [PaymentIds -> PaymentRow]
    BY <1>5, PaymentVerifyType DEF ApproveDonation, PaymentStatuses
  <2> QED
    BY <1>3, <1>5, <2>1 DEF ApproveDonation, TypeOK
<1>6. ASSUME NEW loc \in AnyLocation, VerifySinglePayment(p, v, loc) PROVE TypeOK'
  <2>1. payments' \in [PaymentIds -> PaymentRow]
    BY <1>6, PaymentVerifyType DEF VerifySinglePayment, PaymentStatuses
  <2>2. /\ bills' \in [Bills -> BillRow]
        /\ ledger' \in Seq(LedgerRow) /\ balance' \in [Locations -> Int]
    <3>1. CASE UNCHANGED <<bills, ledger, balance>>
      BY <3>1 DEF TypeOK
    <3>2. CASE PostPaymentIncome(p, payments[p].amount, loc)
               /\ \E b \in Bills : bills' = [bills EXCEPT ![b].status =
                      IF Voluntary(b) THEN "paid"
                      ELSE SettledStatus(b, GetApprovedPaymentTotal(b) + payments[p].amount)]
      BY <1>3, <3>2 DEF TypeOK, SettledStatus, BillRow, BillStatuses
    <3> QED
      BY <1>6, <3>1, <3>2 DEF VerifySinglePayment, Covers
  <2> QED
    BY <1>6, <2>1, <2>2 DEF VerifySinglePayment, TypeOK
<1>7. ASSUME NEW loc \in AnyLocation, VerifyMultiPeriodPayment(p, v, loc) PROVE TypeOK'
  <2>1. payments' \in [PaymentIds -> PaymentRow]
    BY <1>7, PaymentVerifyType DEF VerifyMultiPeriodPayment, PaymentStatuses
  <2>2. bills' \in [Bills -> BillRow]
    BY <1>7 DEF VerifyMultiPeriodPayment, TypeOK, SettleAll, SettledStatus, BillRow, BillStatuses
  <2> QED
    BY <1>3, <1>7, <2>1, <2>2 DEF VerifyMultiPeriodPayment, TypeOK
<1> QED
  BY <1>1, <1>4, <1>5, <1>6, <1>7

\* Reversals and manual entries keep the tables well formed.
LEMMA LedgerStepsType ==
    ASSUME TypeOK, LedgerActions
    PROVE  TypeOK'
<1>1. ASSUME NEW i \in 1 .. Len(ledger)
      PROVE  ledger[i] \in LedgerRow /\ i \in Nat
  BY DEF TypeOK
<1>2. ASSUME NEW p \in PaymentIds, ReverseApprovedPayment(p) PROVE TypeOK'
  <2>1. payments' \in [PaymentIds -> PaymentRow]
    <3>1. ASSUME NEW row \in PaymentRow PROVE [row EXCEPT !.status = "REVERSED"] \in PaymentRow
      BY DEF PaymentRow, PaymentStatuses
    <3>2. payments' = [payments EXCEPT ![p].status = "REVERSED"]
      BY <1>2 DEF ReverseApprovedPayment
    <3> QED
      BY <3>1, <3>2 DEF TypeOK
  <2>2. bills' \in [Bills -> BillRow]
    BY <1>2, ReconcileBillsType DEF ReverseApprovedPayment
  <2>3. PICK i \in 1 .. Len(ledger) :
           TransactionCreate("expense", payments[p].amount, p, i, ledger[i].location,
                             "payment_reversal")
    BY <1>2 DEF ReverseApprovedPayment
  <2>4. payments[p].amount \in Nat /\ ledger[i].location \in AnyLocation
    BY <1>1 DEF TypeOK, PaymentRow, LedgerRow, AnyLocation
  <2>5. ledger' \in Seq(LedgerRow) /\ balance' \in [Locations -> Int]
    BY <1>1, <2>3, <2>4, TransactionCreateType
  <2> QED
    BY <1>2, <2>1, <2>2, <2>5 DEF ReverseApprovedPayment, TypeOK
<1>3. ASSUME NEW i \in 1 .. Len(ledger), ReverseTransaction(i) PROVE TypeOK'
  <2> DEFINE type == IF ledger[i].type = "income" THEN "expense" ELSE "income"
  <2>1. /\ type \in {"income", "expense"} /\ ledger[i].amount \in Nat
        /\ ledger[i].payment \in PaymentIds \cup {NoPayment}
        /\ ledger[i].location \in AnyLocation
    BY <1>1 DEF LedgerRow, AnyLocation
  <2>2. TransactionCreate(type, ledger[i].amount, ledger[i].payment, i,
                          ledger[i].location, "hand_reversal")
    BY <1>3 DEF ReverseTransaction
  <2>3. ledger' \in Seq(LedgerRow) /\ balance' \in [Locations -> Int]
    <3> HIDE DEF type
    <3> QED
      BY <1>1, <2>1, <2>2, TransactionCreateType
  <2> QED
    BY <1>3, <2>3 DEF ReverseTransaction, TypeOK
<1>4. ASSUME NEW type \in {"income", "expense"}, NEW amt \in ManualAmounts,
             NEW loc \in AnyLocation, CreateManualTransaction(type, amt, loc)
      PROVE  TypeOK'
  <2>1. amt \in Nat
    BY Bounds
  <2>2. ledger' \in Seq(LedgerRow) /\ balance' \in [Locations -> Int]
    BY <1>4, <2>1, TransactionCreateType DEF CreateManualTransaction
  <2> QED
    BY <1>4, <2>2 DEF CreateManualTransaction, TypeOK
<1> QED
  BY <1>2, <1>3, <1>4 DEF LedgerActions

\* The tables start well formed.
LEMMA InitType == Init => TypeOK
<1> SUFFICES ASSUME Init PROVE TypeOK
  OBVIOUS
<1>1. dues \in [Dues -> DueRow]
  BY Actors DEF Init
<1>2. bills \in [Bills -> BillRow] /\ tenure \in [Occupancies -> TenureRow]
  BY DEF Init, BillRow, BillStatuses, TenureRow
<1>3. NoAllocation \in Allocation
  BY Bounds DEF NoAllocation, Allocation
<1>4. NewPayment("single", NoDue, NoAllocation, 0, NoUser, "none") \in PaymentRow
  BY <1>3, NewPaymentType DEF PaymentStatuses
<1>5. payments \in [PaymentIds -> PaymentRow]
  BY <1>4 DEF Init
<1>6. ledger \in Seq(LedgerRow) /\ balance \in [Locations -> Int] /\ wasVoluntary \subseteq Dues
  BY DEF Init
<1> QED
  BY <1>1, <1>2, <1>5, <1>6 DEF TypeOK

\* Every step keeps the tables well formed.
LEMMA StepType == TypeOK /\ [Next]_vars => TypeOK'
<1>1. CASE UNCHANGED vars
  BY <1>1 DEF vars, TypeOK
<1> QED
  BY <1>1, DueStepsType, BillStepsType, RecordStepsType, VerifyStepsType, LedgerStepsType
     DEF Next

\* In every reachable state every table holds well-formed rows.
THEOREM TypeCorrect == Spec => []TypeOK
BY InitType, StepType, PTL DEF Spec
-----------------------------------------------------------------------------
(* How the approved total of a bill moves when one payment row changes. *)

\* A payment that was not approved, and is not now, moves no total.
LEMMA ApprovedKept ==
    ASSUME NEW ps, NEW qs, NEW p \in PaymentIds, NEW b \in Bills,
           \A q \in PaymentIds \ {p} : qs[q] = ps[q],
           ps[p].status # "APPROVED", qs[p].status # "APPROVED"
    PROVE  ApprovedIn(qs, b) = ApprovedIn(ps, b)
<1>1. Units(qs, b, "APPROVED") = Units(ps, b, "APPROVED")
  BY DEF Units
<1> QED
  BY <1>1 DEF ApprovedIn

\* Approving a payment adds its allocation to the total of each bill.
LEMMA ApprovedAdded ==
    ASSUME NEW ps, NEW qs, NEW p \in PaymentIds, NEW b \in Bills,
           \A q \in PaymentIds \ {p} : qs[q] = ps[q],
           ps[p].status # "APPROVED", qs[p].status = "APPROVED",
           qs[p].alloc[b] \in 0 .. MaxPay
    PROVE  ApprovedIn(qs, b) = ApprovedIn(ps, b) + qs[p].alloc[b]
<1> DEFINE n == qs[p].alloc[b]
           new == {p} \X (1 .. n)
           old == Units(ps, b, "APPROVED")
<1>1. n \in Nat /\ n <= MaxPay
  BY Bounds
<1>2. Units(qs, b, "APPROVED") = old \cup new
  BY <1>1, Bounds DEF Units
<1>3. old \cap new = {}
  BY DEF Units
<1>4. IsFiniteSet({p}) /\ Cardinality({p}) = 1
  BY FS_Singleton
<1>5. IsFiniteSet(1 .. n) /\ Cardinality(1 .. n) = n
  <2> HIDE DEF n
  <2>1. Cardinality(1 .. n) = IF 1 > n THEN 0 ELSE n - 1 + 1
    BY <1>1, FS_Interval
  <2> QED
    BY <1>1, <2>1, FS_Interval
<1>6. IsFiniteSet(new) /\ Cardinality(new) = Cardinality({p}) * Cardinality(1 .. n)
  BY <1>4, <1>5, FS_Product
<1>7. Cardinality(new) = n
  BY <1>1, <1>4, <1>5, <1>6
<1>8. IsFiniteSet(old) /\ Cardinality(old) \in Nat
  BY UnitsFinite, FS_CardinalityType
<1>9. Cardinality(old \cup new) = Cardinality(old) + Cardinality(new) - Cardinality(old \cap new)
  BY <1>6, <1>8, FS_Union
<1>10. Cardinality(old \cap new) = 0
  BY <1>3, FS_EmptySet
<1> HIDE DEF n, new, old
<1>11. Cardinality(old \cup new) = Cardinality(old) + n
  BY <1>1, <1>7, <1>8, <1>9, <1>10
<1> QED
  BY <1>2, <1>11 DEF ApprovedIn, old, n

-----------------------------------------------------------------------------
(* No overpayment, and bill statuses that agree with the payments. *)

\* A due that is voluntary now was voluntary at some time.
VoluntaryRemembered == \A d \in Dues : dues[d].voluntary => d \in wasVoluntary

\* A payment for one bill is allocated to that bill, a donation to none.
PaymentShapes ==
    \A p \in PaymentIds : payments[p].status # "none" =>
       /\ payments[p].kind = "single" =>
             \E b \in Bills : /\ payments[p].amount \in 1 .. MaxPay
                              /\ payments[p].alloc = One(b, payments[p].amount)
       /\ payments[p].kind = "donation" => payments[p].alloc = NoAllocation

\* Both properties are inductive once it is known that voluntary dues are
\* remembered (a voluntary bill is paid by any amount) and what an approval
\* adds to which bill.
MoneyInv == /\ TypeOK
            /\ VoluntaryRemembered
            /\ PaymentShapes
            /\ NoOverpayment
            /\ StatusAgrees

\* Steps that leave payments alone may issue a bill, cancel an unpaid one, or
\* let a due become voluntary.
LEMMA PaymentsUntouched ==
    ASSUME MoneyInv, TypeOK', VoluntaryRemembered',
           UNCHANGED payments, wasVoluntary \subseteq wasVoluntary',
           \A b \in Bills : \/ bills'[b].status = bills[b].status
                            \/ /\ bills[b].status \notin {"partial", "paid"}
                               /\ bills'[b].status \notin {"partial", "paid"}
    PROVE  MoneyInv'
<1>1. PaymentShapes'
  BY DEF MoneyInv, PaymentShapes
<1>2. NoOverpayment'
  BY DEF MoneyInv, NoOverpayment
<1>3. StatusAgrees'
  <2> SUFFICES ASSUME NEW b \in Bills
               PROVE  StatusFits(b, bills[b].status, ApprovedIn(payments, b))'
    BY DEF StatusAgrees
  <2>1. StatusFits(b, bills[b].status, ApprovedIn(payments, b))
    BY DEF MoneyInv, StatusAgrees
  <2>2. ApprovedIn(payments', b) = ApprovedIn(payments, b) /\ ApprovedIn(payments, b) \in Nat
    BY ApprovedInNat
  <2>3. Amount[b] \in Nat
    BY BillColumns
  <2> HIDE DEF ApprovedIn
  <2> QED
    BY <2>1, <2>2, <2>3 DEF StatusFits
<1> QED
  BY <1>1, <1>2, <1>3 DEF MoneyInv

\* Money a is approved on top of what bill b already has.
LEMMA SettledFits ==
    ASSUME NEW b \in Bills, NEW total \in Nat, NEW a \in Nat, a > 0, MoneyInv,
           NEW status,
           \/ Voluntary(b) /\ status = "paid"
           \/ status = SettledStatus(b, total + a)
    PROVE  StatusFits(b, status, total + a)
<1>1. Amount[b] \in Nat /\ DueOf[b] \in Dues
  BY BillColumns
<1>2. CASE Voluntary(b) /\ status = "paid"
  BY <1>1, <1>2 DEF StatusFits, MoneyInv, VoluntaryRemembered, Voluntary
<1>3. CASE status = SettledStatus(b, total + a)
  BY <1>1, <1>3 DEF StatusFits, SettledStatus
<1> QED
  BY <1>2, <1>3

\* A recomputed status fits the total it was computed from.
LEMMA ReconciledFits ==
    ASSUME NEW b \in Bills, NEW row \in BillRow, NEW total \in Nat,
           row.status = "cancelled" => total = 0
    PROVE  StatusFits(b, Reconciled(row, b, total).status, total)
<1>1. Amount[b] \in Nat
  BY BillColumns
<1> QED
  BY <1>1 DEF StatusFits, Reconciled, BillRow

\* A payment p becomes approved, and the bills it covers are settled.
LEMMA ApprovalStep ==
    ASSUME MoneyInv, TypeOK', PaymentShapes', UNCHANGED <<dues, wasVoluntary>>,
           NEW p \in PaymentIds, NEW a \in Allocation,
           \A q \in PaymentIds \ {p} : payments'[q] = payments[q],
           payments[p].status # "APPROVED", payments'[p].status = "APPROVED",
           payments'[p].alloc = a,
           \A b \in Bills : a[b] = 0 => bills'[b] = bills[b],
           \A b \in Bills : a[b] > 0 =>
              \/ Voluntary(b) /\ bills'[b].status = "paid"
              \/ bills'[b].status = SettledStatus(b, ApprovedIn(payments, b) + a[b]),
           \A b \in Bills : a[b] > 0 /\ ~Voluntary(b) => a[b] <= Amount[b] - ApprovedIn(payments, b)
    PROVE  MoneyInv'
<1>1. ASSUME NEW b \in Bills
      PROVE  /\ a[b] \in Nat /\ a[b] \in 0 .. MaxPay /\ Amount[b] \in Nat
             /\ ApprovedIn(payments, b) \in Nat
             /\ ApprovedIn(payments', b) = ApprovedIn(payments, b) + a[b]
  <2>1. a[b] \in 0 .. MaxPay /\ Amount[b] \in Nat
    BY BillColumns DEF Allocation
  <2>2. payments'[p].alloc[b] \in 0 .. MaxPay
    BY <2>1
  <2>3. ApprovedIn(payments', b) = ApprovedIn(payments, b) + payments'[p].alloc[b]
    BY ONLY <2>2, ApprovedAdded, p \in PaymentIds, b \in Bills,
       \A q \in PaymentIds \ {p} : payments'[q] = payments[q],
       payments[p].status # "APPROVED", payments'[p].status = "APPROVED"
  <2> QED
    BY <2>1, <2>3, Bounds, ApprovedInNat
<1>2. NoOverpayment'
  <2> SUFFICES ASSUME NEW b \in Bills, DueOf[b] \notin wasVoluntary
               PROVE  ApprovedIn(payments', b) <= Amount[b]
    BY DEF NoOverpayment
  <2>1. ~Voluntary(b)
    BY BillColumns DEF MoneyInv, VoluntaryRemembered, Voluntary
  <2>2. ApprovedIn(payments, b) <= Amount[b]
    BY DEF MoneyInv, NoOverpayment
  <2>3. CASE a[b] = 0
    BY <1>1, <2>2, <2>3
  <2>4. CASE a[b] > 0
    <3>1. a[b] <= Amount[b] - ApprovedIn(payments, b)
      BY <2>1, <2>4
    <3> QED
      BY <1>1, <3>1
  <2> QED
    BY <1>1, <2>3, <2>4
<1>3. StatusAgrees'
  <2> SUFFICES ASSUME NEW b \in Bills
               PROVE  StatusFits(b, bills[b].status, ApprovedIn(payments, b))'
    BY DEF StatusAgrees
  <2> DEFINE total == ApprovedIn(payments, b)
  <2>1. CASE a[b] = 0
    <3>1. StatusFits(b, bills[b].status, total)
      BY DEF MoneyInv, StatusAgrees
    <3>2. ApprovedIn(payments', b) = total /\ bills'[b] = bills[b]
      BY <1>1, <2>1
    <3> QED
      BY <3>1, <3>2 DEF StatusFits
  <2>2. CASE a[b] > 0
    <3>1. \/ Voluntary(b) /\ bills'[b].status = "paid"
          \/ bills'[b].status = SettledStatus(b, total + a[b])
      BY <2>2
    <3>2. ApprovedIn(payments', b) = total + a[b] /\ total \in Nat /\ a[b] \in Nat
      BY <1>1
    <3> HIDE DEF total
    <3>3. StatusFits(b, bills'[b].status, total + a[b])
      BY <2>2, <3>1, <3>2, SettledFits
    <3> QED
      BY <3>2, <3>3 DEF StatusFits
  <2> QED
    BY <1>1, <2>1, <2>2
<1>4. VoluntaryRemembered'
  BY DEF MoneyInv, VoluntaryRemembered
<1> QED
  BY <1>2, <1>3, <1>4 DEF MoneyInv

\* A payment p that is not approved stays so, and bills are left alone or
\* reconciled with totals that did not change.
LEMMA NoApprovalStep ==
    ASSUME MoneyInv, TypeOK', PaymentShapes', UNCHANGED <<dues, wasVoluntary>>,
           NEW p \in PaymentIds,
           \A q \in PaymentIds \ {p} : payments'[q] = payments[q],
           payments[p].status # "APPROVED", payments'[p].status # "APPROVED",
           NEW touched, bills' = bills \/ bills' = ReconcileBills(payments', touched)
    PROVE  MoneyInv'
<1>1. ASSUME NEW b \in Bills
      PROVE  ApprovedIn(payments', b) = ApprovedIn(payments, b) /\ ApprovedIn(payments, b) \in Nat
  BY ApprovedKept, ApprovedInNat
<1>2. NoOverpayment'
  BY <1>1 DEF MoneyInv, NoOverpayment
<1>3. StatusAgrees'
  <2> SUFFICES ASSUME NEW b \in Bills
               PROVE  StatusFits(b, bills[b].status, ApprovedIn(payments, b))'
    BY DEF StatusAgrees
  <2>1. StatusFits(b, bills[b].status, ApprovedIn(payments, b))
    BY DEF MoneyInv, StatusAgrees
  <2>2. bills[b] \in BillRow
    BY DEF MoneyInv, TypeOK
  <2>3. CASE bills'[b] = bills[b]
    BY <1>1, <2>1, <2>3 DEF StatusFits
  <2>4. CASE bills'[b] = Reconciled(bills[b], b, ApprovedIn(payments', b))
    <3>1. bills[b].status = "cancelled" => ApprovedIn(payments', b) = 0
      BY <1>1, <2>1 DEF StatusFits
    <3>2. ApprovedIn(payments', b) \in Nat
      BY <1>1
    <3>3. StatusFits(b, Reconciled(bills[b], b, ApprovedIn(payments', b)).status,
                     ApprovedIn(payments', b))
      BY <2>2, <3>1, <3>2, ReconciledFits
    <3> QED
      BY <2>4, <3>3 DEF StatusFits
  <2> QED
    BY <2>3, <2>4 DEF ReconcileBills
<1>4. VoluntaryRemembered'
  BY DEF MoneyInv, VoluntaryRemembered
<1> QED
  BY <1>2, <1>3, <1>4 DEF MoneyInv

\* An approved payment p is withdrawn, and the bills it covered are reconciled.
LEMMA WithdrawalStep ==
    ASSUME MoneyInv, TypeOK', PaymentShapes', UNCHANGED <<dues, wasVoluntary>>,
           NEW p \in PaymentIds,
           \A q \in PaymentIds \ {p} : payments'[q] = payments[q],
           payments[p].status = "APPROVED", payments'[p].status # "APPROVED",
           bills' = ReconcileBills(payments', Covers(payments[p].alloc))
    PROVE  MoneyInv'
<1> DEFINE a == payments[p].alloc
<1>1. ASSUME NEW b \in Bills
      PROVE  /\ a[b] \in Nat /\ Amount[b] \in Nat
             /\ ApprovedIn(payments, b) \in Nat /\ ApprovedIn(payments', b) \in Nat
             /\ ApprovedIn(payments, b) = ApprovedIn(payments', b) + a[b]
  <2>1. a[b] \in 0 .. MaxPay /\ Amount[b] \in Nat
    BY BillColumns DEF MoneyInv, TypeOK, PaymentRow, Allocation
  <2>2. \A q \in PaymentIds \ {p} : payments[q] = payments'[q]
    OBVIOUS
  <2>3. ApprovedIn(payments, b) = ApprovedIn(payments', b) + payments[p].alloc[b]
    BY ONLY <2>1, <2>2, ApprovedAdded, p \in PaymentIds, b \in Bills,
       payments[p].status = "APPROVED", payments'[p].status # "APPROVED"
  <2> QED
    BY <2>1, <2>3, Bounds, ApprovedInNat
<1>2. NoOverpayment'
  BY <1>1 DEF MoneyInv, NoOverpayment
<1>3. StatusAgrees'
  <2> SUFFICES ASSUME NEW b \in Bills
               PROVE  StatusFits(b, bills[b].status, ApprovedIn(payments, b))'
    BY DEF StatusAgrees
  <2>1. StatusFits(b, bills[b].status, ApprovedIn(payments, b))
    BY DEF MoneyInv, StatusAgrees
  <2>2. bills[b] \in BillRow
    BY DEF MoneyInv, TypeOK
  <2>3. CASE b \notin Covers(a)
    <3>1. bills'[b] = bills[b]
      BY <2>3 DEF ReconcileBills
    <3>2. ApprovedIn(payments', b) = ApprovedIn(payments, b)
      BY <1>1, <2>3 DEF Covers
    <3> QED
      BY <2>1, <3>1, <3>2 DEF StatusFits
  <2>4. CASE b \in Covers(a)
    <3>1. bills'[b] = Reconciled(bills[b], b, ApprovedIn(payments', b))
      BY <2>4 DEF ReconcileBills
    <3>2. bills[b].status = "cancelled" => ApprovedIn(payments', b) = 0
      BY <1>1, <2>1 DEF StatusFits
    <3>3. StatusFits(b, Reconciled(bills[b], b, ApprovedIn(payments', b)).status,
                     ApprovedIn(payments', b))
      BY <1>1, <2>2, <3>2, ReconciledFits
    <3> QED
      BY <3>1, <3>3 DEF StatusFits
  <2> QED
    BY <2>3, <2>4
<1>4. VoluntaryRemembered'
  BY DEF MoneyInv, VoluntaryRemembered
<1> QED
  BY <1>2, <1>3, <1>4 DEF MoneyInv
\* A payment row keeps its shape whatever its status becomes.
LEMMA ShapesKept ==
    ASSUME MoneyInv, NEW p \in PaymentIds, payments[p].status # "none",
           \A q \in PaymentIds \ {p} : payments'[q] = payments[q],
           payments'[p].kind = payments[p].kind, payments'[p].alloc = payments[p].alloc,
           payments'[p].amount = payments[p].amount
    PROVE  PaymentShapes'
<1> SUFFICES ASSUME NEW q \in PaymentIds, payments'[q].status # "none"
             PROVE  /\ payments'[q].kind = "single" =>
                          \E b \in Bills : /\ payments'[q].amount \in 1 .. MaxPay
                                           /\ payments'[q].alloc = One(b, payments'[q].amount)
                    /\ payments'[q].kind = "donation" => payments'[q].alloc = NoAllocation
  BY DEF PaymentShapes
<1>1. CASE q = p
  BY <1>1 DEF MoneyInv, PaymentShapes
<1>2. CASE q # p
  BY <1>2 DEF MoneyInv, PaymentShapes
<1> QED
  BY <1>1, <1>2

\* A decision changes one payment's status, and neither its money nor its bills.
LEMMA VerifyKeepsRow ==
    ASSUME TypeOK, NEW p \in PaymentIds, NEW v, NEW status
    PROVE  LET ps == PaymentVerify(p, v, status)
           IN /\ \A q \in PaymentIds \ {p} : ps[q] = payments[q]
              /\ ps[p].status = status /\ ps[p].kind = payments[p].kind
              /\ ps[p].alloc = payments[p].alloc /\ ps[p].amount = payments[p].amount
BY DEF PaymentVerify, TypeOK, PaymentRow

\* Editing dues keeps the invariant about money.
LEMMA DueStepsMoney ==
    ASSUME MoneyInv, TypeOK', DueActions \/ ExpireVoluntaryDues
    PROVE  MoneyInv'
<1> USE DEF MoneyInv
<1>1. ASSUME NEW d \in Dues, NEW row \in DueSettings, UpdateDue(d, row) PROVE MoneyInv'
  <2>1. VoluntaryRemembered'
    BY <1>1 DEF UpdateDue, VoluntaryRemembered, TypeOK
  <2>2. UNCHANGED <<payments, bills>> /\ wasVoluntary \subseteq wasVoluntary'
    BY <1>1 DEF UpdateDue
  <2> QED
    BY <2>1, <2>2, PaymentsUntouched
<1>2. ASSUME NEW d \in Dues, DeactivateDue(d) \/ DeadlinePasses(d) PROVE MoneyInv'
  <2>1. VoluntaryRemembered'
    BY <1>2 DEF DeactivateDue, DeadlinePasses, VoluntaryRemembered, TypeOK, DueRow
  <2>2. UNCHANGED <<payments, bills, wasVoluntary>>
    BY <1>2 DEF DeactivateDue, DeadlinePasses
  <2> QED
    BY <2>1, <2>2, PaymentsUntouched
<1>3. CASE ExpireVoluntaryDues
  <2>1. VoluntaryRemembered'
    BY <1>3 DEF ExpireVoluntaryDues, VoluntaryRemembered, TypeOK, DueRow
  <2>2. UNCHANGED <<payments, bills, wasVoluntary>>
    BY <1>3 DEF ExpireVoluntaryDues
  <2> QED
    BY <2>1, <2>2, PaymentsUntouched
<1> QED
  BY <1>1, <1>2, <1>3 DEF DueActions

\* Only absent and unpaid bills are issued or synchronised.
LEMMA IssuedOnlyIfOpen ==
    ASSUME NEW S, NEW b \in Bills, BillCreate(S)[b].status # bills[b].status
    PROVE  bills[b].status = "absent" /\ BillCreate(S)[b].status = "unpaid"
BY DEF BillCreate, Issued

\* Synchronisation changes the status of a bill only by issuing it.
LEMMA SyncedOnlyIfOpen ==
    ASSUME NEW bs \in [Bills -> BillRow], NEW occs, NEW ten, NEW b \in Bills,
           Synced(bs, occs, ten)[b].status # bs[b].status
    PROVE  bs[b].status = "absent" /\ Synced(bs, occs, ten)[b].status = "unpaid"
<1>1. ASSUME NEW x \in BOOLEAN
      PROVE  [bs[b] EXCEPT !.status = "unpaid", !.obligatory = x].status = "unpaid"
  BY DEF BillRow
<1>2. (PeriodOf[b] \in ten[OccOf[b]].span) \in BOOLEAN
  OBVIOUS
<1>3. [bs[b] EXCEPT !.status = "unpaid",
                    !.obligatory = PeriodOf[b] \in ten[OccOf[b]].span].status = "unpaid"
  BY ONLY <1>1, <1>2, Zenon
<1>4. \/ Synced(bs, occs, ten)[b] = bs[b]
      \/ /\ bs[b].status \in {"absent", "unpaid"}
         /\ Synced(bs, occs, ten)[b] =
               [bs[b] EXCEPT !.status = "unpaid",
                             !.obligatory = PeriodOf[b] \in ten[OccOf[b]].span]
  BY DEF Synced
<1> QED
  BY <1>3, <1>4

\* Issuing, editing and cancelling bills keeps the invariant about money.
LEMMA BillStepsMoney ==
    ASSUME MoneyInv, TypeOK', BillActions
    PROVE  MoneyInv'
<1> DEFINE money == {"partial", "paid"}
           Untouched(b) == \/ bills'[b].status = bills[b].status
                           \/ bills[b].status \notin money /\ bills'[b].status \notin money
<1>1. UNCHANGED <<dues, payments, wasVoluntary>>
  BY DEF BillActions, GenerateBills, CreateBill, CancelBill, UpdateBillStatus,
         UpdateDuePeriodStatus, UpdateOccupancyDates, ListBills
<1>2. ASSUME NEW S, bills' = BillCreate(S), NEW b \in Bills PROVE Untouched(b)
  BY <1>2, IssuedOnlyIfOpen
<1>3. ASSUME NEW occs, NEW ten, NEW bs \in [Bills -> BillRow], NEW b \in Bills,
             bs[b].status = bills[b].status, bills' = Synced(bs, occs, ten)
      PROVE  Untouched(b)
  BY <1>3, SyncedOnlyIfOpen
<1>4. \A b \in Bills : bills[b] \in BillRow
  BY DEF MoneyInv, TypeOK
<1>5. ASSUME NEW c \in Bills,
             CreateBill(c) \/ CancelBill(c) \/ \E x \in BOOLEAN : UpdateBillStatus(c, x)
      PROVE  \A b \in Bills : Untouched(b)
  <2>1. CASE CreateBill(c)
    BY <1>2, <2>1 DEF CreateBill
  <2>2. CASE CancelBill(c)
    BY <1>4, <2>2 DEF CancelBill, MoneyInv, TypeOK, BillRow
  <2>3. CASE \E x \in BOOLEAN : UpdateBillStatus(c, x)
    BY <1>4, <2>3 DEF UpdateBillStatus, MoneyInv, TypeOK, BillRow
  <2> QED
    BY <1>5, <2>1, <2>2, <2>3
<1>6. ASSUME NEW d \in Dues, NEW t \in Periods,
             \/ \E occs \in SUBSET Occupancies : GenerateBills(d, t, occs)
             \/ \E x \in BOOLEAN : UpdateDuePeriodStatus(d, t, x)
      PROVE  \A b \in Bills : Untouched(b)
  <2>1. CASE \E occs \in SUBSET Occupancies : GenerateBills(d, t, occs)
    BY <1>2, <2>1 DEF GenerateBills
  <2>2. CASE \E x \in BOOLEAN : UpdateDuePeriodStatus(d, t, x)
    BY <1>4, <2>2 DEF UpdateDuePeriodStatus, BillRow
  <2> QED
    BY <1>6, <2>1, <2>2
<1>7. ASSUME NEW o, NEW first, NEW last, NEW open, UpdateOccupancyDates(o, first, last, open)
      PROVE  \A b \in Bills : Untouched(b)
  <2>1. PICK span : bills' = Synced(RecomputedForUnpaid(o, span), {o}, tenure')
    BY <1>7 DEF UpdateOccupancyDates
  <2>2. RecomputedForUnpaid(o, span) \in [Bills -> BillRow]
    BY <1>4, ObligatoryRowType DEF RecomputedForUnpaid
  <2>3. \A b \in Bills : RecomputedForUnpaid(o, span)[b].status = bills[b].status
    BY <1>4 DEF RecomputedForUnpaid, BillRow
  <2> QED
    BY <1>3, <2>1, <2>2, <2>3
<1>8. ASSUME NEW occs, ListBills(occs) PROVE \A b \in Bills : Untouched(b)
  BY <1>3, <1>8 DEF ListBills, MoneyInv, TypeOK
<1>9. \A b \in Bills : Untouched(b)
  BY <1>5, <1>6, <1>7, <1>8 DEF BillActions
<1>10. VoluntaryRemembered'
  BY <1>1 DEF MoneyInv, VoluntaryRemembered
<1> QED
  BY <1>1, <1>9, <1>10, PaymentsUntouched

\* Inserting a payment row of good shape.
LEMMA InsertedShapes ==
    ASSUME MoneyInv, NEW p \in PaymentIds,
           \A q \in PaymentIds \ {p} : payments'[q] = payments[q],
           payments'[p].kind = "single" =>
              \E b \in Bills : /\ payments'[p].amount \in 1 .. MaxPay
                               /\ payments'[p].alloc = One(b, payments'[p].amount),
           payments'[p].kind = "donation" => payments'[p].alloc = NoAllocation
    PROVE  PaymentShapes'
<1> SUFFICES ASSUME NEW q \in PaymentIds, payments'[q].status # "none"
             PROVE  /\ payments'[q].kind = "single" =>
                          \E b \in Bills : /\ payments'[q].amount \in 1 .. MaxPay
                                           /\ payments'[q].alloc = One(b, payments'[q].amount)
                    /\ payments'[q].kind = "donation" => payments'[q].alloc = NoAllocation
  BY DEF PaymentShapes
<1>1. CASE q = p
  BY <1>1
<1>2. CASE q # p
  BY <1>2 DEF MoneyInv, PaymentShapes
<1> QED
  BY <1>1, <1>2

\* A payment for one bill covers that bill, with the whole amount.
LEMMA OneIs ==
    ASSUME NEW b \in Bills, NEW amt \in 1 .. MaxPay
    PROVE  /\ One(b, amt) \in Allocation /\ One(b, amt)[b] = amt
           /\ \A c \in Bills : c # b => One(b, amt)[c] = 0
           /\ Covers(One(b, amt)) = {b}
BY OneType, Bounds DEF One, Covers

\* Approving money for one bill.
LEMMA OneBillApproval ==
    ASSUME MoneyInv, TypeOK', PaymentShapes', UNCHANGED <<dues, wasVoluntary>>,
           NEW p \in PaymentIds, NEW b \in Bills, NEW amt \in 1 .. MaxPay,
           \A q \in PaymentIds \ {p} : payments'[q] = payments[q],
           payments[p].status # "APPROVED", payments'[p].status = "APPROVED",
           payments'[p].alloc = One(b, amt),
           Voluntary(b) \/ amt <= Amount[b] - GetApprovedPaymentTotal(b),
           bills' = [bills EXCEPT ![b].status =
                        IF Voluntary(b) THEN "paid"
                        ELSE SettledStatus(b, GetApprovedPaymentTotal(b) + amt)]
    PROVE  MoneyInv'
<1> DEFINE a == One(b, amt)
<1>1. a \in Allocation /\ a[b] = amt /\ \A c \in Bills : c # b => a[c] = 0
  BY OneIs
<1>2. bills[b] \in BillRow
  BY DEF MoneyInv, TypeOK
<1>3. bills'[b].status = IF Voluntary(b) THEN "paid"
                         ELSE SettledStatus(b, ApprovedIn(payments, b) + a[b])
  BY <1>1, <1>2 DEF MoneyInv, TypeOK, BillRow, GetApprovedPaymentTotal
<1>4. \A c \in Bills : c # b => bills'[c] = bills[c]
  BY DEF MoneyInv, TypeOK
<1>5. amt > 0 /\ payments'[p].alloc = a
  BY Bounds
<1>6. Voluntary(b) \/ a[b] <= Amount[b] - ApprovedIn(payments, b)
  BY <1>1 DEF GetApprovedPaymentTotal
<1> HIDE DEF a
<1>7. \A c \in Bills : a[c] = 0 => bills'[c] = bills[c]
  BY <1>1, <1>4, <1>5
<1>8. \A c \in Bills : a[c] > 0 => c = b
  BY <1>1
<1>9. \A c \in Bills : a[c] > 0 =>
         \/ Voluntary(c) /\ bills'[c].status = "paid"
         \/ bills'[c].status = SettledStatus(c, ApprovedIn(payments, c) + a[c])
  BY <1>3, <1>8
<1>10. \A c \in Bills : a[c] > 0 /\ ~Voluntary(c) => a[c] <= Amount[c] - ApprovedIn(payments, c)
  BY <1>6, <1>8
<1> QED
  BY <1>1, <1>5, <1>7, <1>9, <1>10, ApprovalStep

\* Approving an allocation over several bills.
LEMMA PeriodsApproval ==
    ASSUME MoneyInv, TypeOK', PaymentShapes', UNCHANGED <<dues, wasVoluntary>>,
           NEW p \in PaymentIds, NEW a \in Allocation,
           \A q \in PaymentIds \ {p} : payments'[q] = payments[q],
           payments[p].status # "APPROVED", payments'[p].status = "APPROVED",
           payments'[p].alloc = a,
           \A b \in Covers(a) : a[b] <= Amount[b] - GetApprovedPaymentTotal(b),
           bills' = SettleAll(a)
    PROVE  MoneyInv'
<1>1. ASSUME NEW b \in Bills
      PROVE  /\ a[b] \in Nat /\ bills[b] \in BillRow
             /\ a[b] = 0 => bills'[b] = bills[b]
             /\ a[b] > 0 => bills'[b].status = SettledStatus(b, ApprovedIn(payments, b) + a[b])
  <2>1. a[b] \in Nat /\ bills[b] \in BillRow
    BY Bounds DEF Allocation, MoneyInv, TypeOK
  <2> QED
    BY <2>1 DEF SettleAll, GetApprovedPaymentTotal, BillRow
<1>2. \A b \in Bills : a[b] > 0 /\ ~Voluntary(b) => a[b] <= Amount[b] - ApprovedIn(payments, b)
  BY DEF Covers, GetApprovedPaymentTotal
<1> QED
  BY <1>1, <1>2, ApprovalStep

\* Recording payments keeps the invariant about money.
LEMMA RecordStepsMoney ==
    ASSUME MoneyInv, TypeOK', RecordActions
    PROVE  MoneyInv'
<1>1. PICK p \in PaymentIds, u \in Users :
         \/ \E b \in Bills, amt \in 1 .. MaxPay : StaffPayBill(p, u, b, amt) \/ WargaPayBill(p, u, b, amt)
         \/ \E d \in Dues, amt \in 1 .. MaxPay : Donate(p, u, d, amt)
         \/ \E alloc \in Allocation : StaffPayPeriods(p, u, alloc) \/ WargaPayPeriods(p, u, alloc)
  BY DEF RecordActions
<1>2. ASSUME NEW b \in Bills, NEW amt \in 1 .. MaxPay, StaffPayBill(p, u, b, amt)
      PROVE  MoneyInv'
  <2>1. payments' = [payments EXCEPT ![p] =
                        NewPayment("single", NoDue, One(b, amt), amt, u, "APPROVED")]
    BY <1>2 DEF StaffPayBill
  <2>2. /\ \A q \in PaymentIds \ {p} : payments'[q] = payments[q]
        /\ payments'[p].status = "APPROVED" /\ payments'[p].alloc = One(b, amt)
        /\ payments'[p].kind = "single" /\ payments'[p].amount = amt
    BY <2>1 DEF MoneyInv, TypeOK, NewPayment
  <2>s. PaymentShapes'
    BY <2>2, InsertedShapes
  <2>3. Voluntary(b) \/ amt <= Amount[b] - GetApprovedPaymentTotal(b)
    BY <1>2 DEF StaffPayBill, AcceptsAmount
  <2> QED
    BY <1>2, <2>2, <2>s, <2>3, OneBillApproval DEF StaffPayBill
<1>3. ASSUME NEW b \in Bills, NEW amt \in 1 .. MaxPay, WargaPayBill(p, u, b, amt)
      PROVE  MoneyInv'
  <2>1. payments' = [payments EXCEPT ![p] =
                        NewPayment("single", NoDue, One(b, amt), amt, u, "PENDING")]
    BY <1>3 DEF WargaPayBill
  <2>2. /\ \A q \in PaymentIds \ {p} : payments'[q] = payments[q]
        /\ payments'[p].status = "PENDING"
        /\ payments'[p].kind = "single" /\ payments'[p].amount = amt
        /\ payments'[p].alloc = One(b, amt)
    BY <2>1 DEF MoneyInv, TypeOK, NewPayment
  <2>s. PaymentShapes'
    BY <2>2, InsertedShapes
  <2> QED
    BY <1>3, <2>2, <2>s, NoApprovalStep DEF WargaPayBill
<1>4. ASSUME NEW d \in Dues, NEW amt \in 1 .. MaxPay, Donate(p, u, d, amt)
      PROVE  MoneyInv'
  <2>1. PICK status \in {"APPROVED", "PENDING"} :
           payments' = [payments EXCEPT ![p] =
                          NewPayment("donation", d, NoAllocation, amt, u, status)]
    BY <1>4 DEF Donate
  <2>2. /\ \A q \in PaymentIds \ {p} : payments'[q] = payments[q]
        /\ payments'[p].status = status /\ payments'[p].alloc = NoAllocation
        /\ payments'[p].kind = "donation"
    BY <2>1 DEF MoneyInv, TypeOK, NewPayment
  <2>s. PaymentShapes'
    BY <2>2, InsertedShapes
  <2>3. /\ NoAllocation \in Allocation /\ \A b \in Bills : NoAllocation[b] = 0
    BY Bounds DEF NoAllocation, Allocation
  <2>4. payments[p].status # "APPROVED" /\ bills' = bills /\ UNCHANGED <<dues, wasVoluntary>>
    BY <1>4 DEF Donate
  <2>5. CASE status = "PENDING"
    BY <2>2, <2>s, <2>4, <2>5, NoApprovalStep
  <2>6. CASE status = "APPROVED"
    BY <2>2, <2>s, <2>3, <2>4, <2>6, ApprovalStep
  <2> QED
    BY <2>5, <2>6
<1>5. ASSUME NEW alloc \in Allocation, StaffPayPeriods(p, u, alloc)
      PROVE  MoneyInv'
  <2>1. payments' = [payments EXCEPT ![p] =
                        NewPayment("multi", NoDue, alloc, AllocTotal(alloc), u, "APPROVED")]
    BY <1>5 DEF StaffPayPeriods
  <2>2. /\ \A q \in PaymentIds \ {p} : payments'[q] = payments[q]
        /\ payments'[p].status = "APPROVED" /\ payments'[p].alloc = alloc
        /\ payments'[p].kind = "multi"
    BY <2>1 DEF MoneyInv, TypeOK, NewPayment
  <2>s. PaymentShapes'
    BY <2>2, InsertedShapes
  <2>3. \A b \in Covers(alloc) : alloc[b] <= Amount[b] - GetApprovedPaymentTotal(b)
    <3>1. \A b \in Covers(alloc) : alloc[b] <= Amount[b] - GetApprovedPaymentTotal(b) - 0
      <4> DEFINE none == [b \in Bills |-> 0]
      <4>1. MultiPayable(alloc, none)
        BY <1>5 DEF StaffPayPeriods
      <4>2. \A b \in Covers(alloc) :
               AcceptsAmount(b, alloc[b], Amount[b] - GetApprovedPaymentTotal(b) - none[b])
        BY <4>1, Zenon DEF MultiPayable
      <4>3. \A b \in Covers(alloc) : none[b] = 0
        BY DEF Covers
      <4> HIDE DEF none
      <4> QED
        BY <4>2, <4>3 DEF AcceptsAmount
    <3>2. \A b \in Covers(alloc) : Amount[b] \in Nat /\ GetApprovedPaymentTotal(b) \in Nat
      BY BillColumns, ApprovedInNat DEF Covers, GetApprovedPaymentTotal
    <3> QED
      BY <3>1, <3>2
  <2> QED
    BY <1>5, <2>2, <2>s, <2>3, PeriodsApproval DEF StaffPayPeriods
<1>6. ASSUME NEW alloc \in Allocation, WargaPayPeriods(p, u, alloc)
      PROVE  MoneyInv'
  <2>1. payments' = [payments EXCEPT ![p] =
                        NewPayment("multi", NoDue, alloc, AllocTotal(alloc), u, "PENDING")]
    BY <1>6 DEF WargaPayPeriods
  <2>2. /\ \A q \in PaymentIds \ {p} : payments'[q] = payments[q]
        /\ payments'[p].status = "PENDING"
        /\ payments'[p].kind = "multi"
    BY <2>1 DEF MoneyInv, TypeOK, NewPayment
  <2>s. PaymentShapes'
    BY <2>2, InsertedShapes
  <2> QED
    BY <1>6, <2>2, <2>s, NoApprovalStep DEF WargaPayPeriods
<1> QED
  BY <1>1, <1>2, <1>3, <1>4, <1>5, <1>6

\* Approving and rejecting keeps the invariant about money.
LEMMA VerifyStepsMoney ==
    ASSUME MoneyInv, TypeOK', VerifyActions
    PROVE  MoneyInv'
<1>1. PICK p \in PaymentIds, v \in Users :
         \/ RejectPayment(p, v)
         \/ \E loc \in AnyLocation : \/ ApproveDonation(p, v, loc)
                                     \/ VerifySinglePayment(p, v, loc)
                                     \/ VerifyMultiPeriodPayment(p, v, loc)
  BY DEF VerifyActions
<1>2. /\ payments[p].status = "PENDING"
      /\ UNCHANGED <<dues, wasVoluntary>>
      /\ payments' = PaymentVerify(p, v, "REJECTED") \/ payments' = PaymentVerify(p, v, "APPROVED")
  BY <1>1 DEF RejectPayment, ApproveDonation, VerifySinglePayment, VerifyMultiPeriodPayment,
              Verifiable
<1>3. /\ \A q \in PaymentIds \ {p} : payments'[q] = payments[q]
      /\ payments'[p].kind = payments[p].kind /\ payments'[p].alloc = payments[p].alloc
      /\ payments'[p].amount = payments[p].amount
      /\ payments' = PaymentVerify(p, v, "REJECTED") => payments'[p].status = "REJECTED"
      /\ payments' = PaymentVerify(p, v, "APPROVED") => payments'[p].status = "APPROVED"
  BY <1>2, VerifyKeepsRow DEF MoneyInv
<1>4. PaymentShapes'
  BY <1>2, <1>3, ShapesKept
<1>5. payments[p].alloc \in Allocation
  BY DEF MoneyInv, TypeOK, PaymentRow
<1>6. ASSUME payments' = PaymentVerify(p, v, "REJECTED"),
             bills' = bills \/ bills' = ReconcileBills(payments', Covers(payments[p].alloc))
      PROVE  MoneyInv'
  BY <1>2, <1>3, <1>4, <1>6, NoApprovalStep
<1>7. CASE RejectPayment(p, v)
  BY <1>6, <1>7 DEF RejectPayment
<1>8. ASSUME NEW loc \in AnyLocation, ApproveDonation(p, v, loc)
      PROVE  MoneyInv'
  <2>1. /\ payments' = PaymentVerify(p, v, "APPROVED") /\ bills' = bills
        /\ payments[p].kind = "donation"
    BY <1>8 DEF ApproveDonation
  <2>2. payments[p].alloc = NoAllocation
    BY <1>2, <2>1 DEF MoneyInv, PaymentShapes
  <2>3. \A b \in Bills : payments[p].alloc[b] = 0
    BY <2>2 DEF NoAllocation
  <2> QED
    BY <1>2, <1>3, <1>4, <1>5, <2>1, <2>3, ApprovalStep
<1>9. ASSUME NEW loc \in AnyLocation, VerifySinglePayment(p, v, loc)
      PROVE  MoneyInv'
  <2>1. PICK b \in Covers(payments[p].alloc) :
           \/ payments' = PaymentVerify(p, v, "REJECTED") /\ bills' = bills
           \/ /\ Voluntary(b) \/ payments[p].amount <= Amount[b] - GetApprovedPaymentTotal(b)
              /\ payments' = PaymentVerify(p, v, "APPROVED")
              /\ bills' = [bills EXCEPT ![b].status =
                             IF Voluntary(b) THEN "paid"
                             ELSE SettledStatus(b, GetApprovedPaymentTotal(b) + payments[p].amount)]
    BY <1>9 DEF VerifySinglePayment
  <2>2. PICK c \in Bills : /\ payments[p].amount \in 1 .. MaxPay
                           /\ payments[p].alloc = One(c, payments[p].amount)
    <3>1. payments[p].kind = "single"
      BY <1>9 DEF VerifySinglePayment
    <3> QED
      BY <1>2, <3>1 DEF MoneyInv, PaymentShapes
  <2>3. b = c /\ b \in Bills
    BY <2>1, <2>2, OneIs
  <2>4. payments'[p].alloc = One(b, payments[p].amount)
    BY <1>3, <2>2, <2>3
  <2>5. CASE payments' = PaymentVerify(p, v, "REJECTED") /\ bills' = bills
    BY <1>6, <2>5
  <2>6. CASE /\ Voluntary(b) \/ payments[p].amount <= Amount[b] - GetApprovedPaymentTotal(b)
             /\ payments' = PaymentVerify(p, v, "APPROVED")
             /\ bills' = [bills EXCEPT ![b].status =
                            IF Voluntary(b) THEN "paid"
                            ELSE SettledStatus(b, GetApprovedPaymentTotal(b) + payments[p].amount)]
    BY <1>2, <1>3, <1>4, <2>2, <2>3, <2>4, <2>6, OneBillApproval
  <2> QED
    BY <2>1, <2>5, <2>6
<1>10. ASSUME NEW loc \in AnyLocation, VerifyMultiPeriodPayment(p, v, loc)
       PROVE  MoneyInv'
  <2>1. /\ payments' = PaymentVerify(p, v, "APPROVED") /\ bills' = SettleAll(payments[p].alloc)
        /\ \A b \in Covers(payments[p].alloc) :
              payments[p].alloc[b] <= Amount[b] - GetApprovedPaymentTotal(b)
    BY <1>10 DEF VerifyMultiPeriodPayment
  <2> QED
    BY <1>2, <1>3, <1>4, <1>5, <2>1, PeriodsApproval
<1> QED
  BY <1>1, <1>7, <1>8, <1>9, <1>10

\* Reversals and manual entries keep the invariant about money.
LEMMA LedgerStepsMoney ==
    ASSUME MoneyInv, TypeOK', LedgerActions
    PROVE  MoneyInv'
<1>1. ASSUME NEW p \in PaymentIds, ReverseApprovedPayment(p)
      PROVE  MoneyInv'
  <2>1. /\ payments[p].status = "APPROVED" /\ UNCHANGED <<dues, wasVoluntary>>
        /\ payments' = [payments EXCEPT ![p].status = "REVERSED"]
        /\ bills' = ReconcileBills(payments', Covers(payments[p].alloc))
    BY <1>1 DEF ReverseApprovedPayment
  <2>2. /\ \A q \in PaymentIds \ {p} : payments'[q] = payments[q]
        /\ payments'[p].status = "REVERSED"
        /\ payments'[p].kind = payments[p].kind /\ payments'[p].alloc = payments[p].alloc
        /\ payments'[p].amount = payments[p].amount
    BY <2>1 DEF MoneyInv, TypeOK, PaymentRow
  <2>3. PaymentShapes'
    BY <2>1, <2>2, ShapesKept
  <2> QED
    BY <2>1, <2>2, <2>3, WithdrawalStep
<1>2. ASSUME UNCHANGED <<dues, bills, payments, wasVoluntary>>
      PROVE  MoneyInv'
  <2>1. VoluntaryRemembered'
    BY <1>2 DEF MoneyInv, VoluntaryRemembered
  <2> QED
    BY <1>2, <2>1, PaymentsUntouched
<1>3. ASSUME NEW i \in 1 .. Len(ledger), ReverseTransaction(i) PROVE MoneyInv'
  BY <1>2, <1>3 DEF ReverseTransaction
<1>4. ASSUME NEW type, NEW amt, NEW loc, CreateManualTransaction(type, amt, loc) PROVE MoneyInv'
  BY <1>2, <1>4 DEF CreateManualTransaction
<1> QED
  BY <1>1, <1>3, <1>4 DEF LedgerActions

\* The invariant about money holds at the start.
LEMMA InitMoney == Init => MoneyInv
<1> SUFFICES ASSUME Init PROVE MoneyInv
  OBVIOUS
<1>1. VoluntaryRemembered
  BY DEF Init, VoluntaryRemembered
<1>2. \A p \in PaymentIds : payments[p].status = "none"
  BY DEF Init, NewPayment
<1>3. PaymentShapes
  BY <1>2 DEF PaymentShapes
<1>4. ASSUME NEW b \in Bills
      PROVE  ApprovedIn(payments, b) = 0 /\ bills[b].status = "absent" /\ Amount[b] \in Nat
  <2>1. Units(payments, b, "APPROVED") = {}
    BY <1>2 DEF Units
  <2> QED
    BY <2>1, FS_EmptySet, BillColumns DEF ApprovedIn, Init
<1>5. NoOverpayment
  BY <1>4 DEF NoOverpayment
<1>6. StatusAgrees
  BY <1>4 DEF StatusAgrees, StatusFits
<1> QED
  BY <1>1, <1>3, <1>5, <1>6, InitType DEF MoneyInv

\* Every step keeps the invariant about money.
LEMMA StepMoney == MoneyInv /\ [Next]_vars => MoneyInv'
<1> SUFFICES ASSUME MoneyInv, [Next]_vars PROVE MoneyInv'
  OBVIOUS
<1>1. TypeOK'
  BY StepType DEF MoneyInv
<1>2. CASE UNCHANGED vars
  <2>1. VoluntaryRemembered' /\ UNCHANGED <<bills, payments, wasVoluntary>>
    BY <1>2 DEF vars, MoneyInv, VoluntaryRemembered
  <2> QED
    BY <1>1, <2>1, PaymentsUntouched
<1>3. CASE Next
  BY <1>1, <1>3, DueStepsMoney, BillStepsMoney, RecordStepsMoney, VerifyStepsMoney,
     LedgerStepsMoney DEF Next
<1> QED
  BY <1>2, <1>3

\* The invariant about money always holds.
LEMMA MoneyInvariant == Spec => []MoneyInv
BY InitMoney, StepMoney, PTL DEF Spec

\* In every reachable state the approved money on a bill of a due that was
\* never voluntary stays within the amount billed: the guards of the four
\* handlers that approve money read totals that are still right when they act.
THEOREM NeverOverpaid == Spec => []NoOverpayment
<1>1. MoneyInv => NoOverpayment
  BY DEF MoneyInv
<1> QED
  BY <1>1, MoneyInvariant, PTL

\* In every reachable state the stored status of every bill agrees with the
\* approved payments that cover it, whichever handler wrote it last.
THEOREM StatusesAgree == Spec => []StatusAgrees
<1>1. MoneyInv => StatusAgrees
  BY DEF MoneyInv
<1> QED
  BY <1>1, MoneyInvariant, PTL
-----------------------------------------------------------------------------
(* Fund locations never go negative. *)

\* A posting whose outflow was checked leaves no location below zero.
LEMMA PostingKeepsBalance ==
    ASSUME TypeOK, NoOverdraft, NEW type \in {"income", "expense"}, NEW amt \in Nat, NEW p,
           NEW reversed, NEW loc, NEW note,
           TransactionCreate(type, amt, p, reversed, loc, note),
           type = "expense" => CanSpend(loc, amt)
    PROVE  NoOverdraft'
<1> SUFFICES ASSUME NEW l \in Locations PROVE balance'[l] >= 0
  BY DEF NoOverdraft
<1>1. balance[l] \in Int /\ balance[l] >= 0
  BY DEF TypeOK, NoOverdraft
<1>2. CASE loc = l
  <2>1. balance'[l] = balance[l] + Delta(type, amt)
    BY <1>2, NullRows DEF TransactionCreate, TypeOK
  <2>2. CASE type = "income"
    BY <1>1, <2>1, <2>2 DEF Delta
  <2>3. CASE type = "expense"
    <3>1. balance[l] >= amt
      BY <1>2, <2>3, NullRows DEF CanSpend
    <3> QED
      BY <1>1, <2>1, <2>3, <3>1 DEF Delta
  <2> QED
    BY <2>2, <2>3
<1>3. CASE loc # l
  <2>1. balance'[l] = balance[l]
    BY <1>3 DEF TransactionCreate, TypeOK
  <2> QED
    BY <1>1, <2>1
<1> QED
  BY <1>2, <1>3

\* Nor does the income of a payment.
LEMMA IncomeKeepsBalance ==
    ASSUME TypeOK, NoOverdraft, NEW p, NEW amt \in Nat, NEW loc, PostPaymentIncome(p, amt, loc)
    PROVE  NoOverdraft'
BY PostingKeepsBalance DEF PostPaymentIncome

\* No step leaves a location below zero.
LEMMA StepOverdraft == TypeOK /\ NoOverdraft /\ [Next]_vars => NoOverdraft'
<1> SUFFICES ASSUME TypeOK, NoOverdraft, [Next]_vars PROVE NoOverdraft'
  OBVIOUS
<1>1. ASSUME UNCHANGED balance PROVE NoOverdraft'
  BY <1>1 DEF NoOverdraft
<1>2. ASSUME UNCHANGED vars \/ DueActions \/ ExpireVoluntaryDues \/ BillActions
      PROVE  NoOverdraft'
  <2>1. UNCHANGED balance
    BY <1>2 DEF vars, DueActions, UpdateDue, DeactivateDue, DeadlinePasses, ExpireVoluntaryDues,
                BillActions, GenerateBills, CreateBill, CancelBill, UpdateBillStatus,
                UpdateDuePeriodStatus, UpdateOccupancyDates, ListBills
  <2> QED
    BY <1>1, <2>1
<1>3. CASE RecordActions
  <2>1. UNCHANGED balance \/ \E q \in PaymentIds, n \in Nat : PostPaymentIncome(q, n, NoLocation)
    <3>1. PICK p \in PaymentIds, u \in Users :
             \/ \E b \in Bills, amt \in 1 .. MaxPay :
                   StaffPayBill(p, u, b, amt) \/ WargaPayBill(p, u, b, amt)
             \/ \E d \in Dues, amt \in 1 .. MaxPay : Donate(p, u, d, amt)
             \/ \E alloc \in Allocation : StaffPayPeriods(p, u, alloc) \/ WargaPayPeriods(p, u, alloc)
      BY <1>3 DEF RecordActions
    <3>2. ASSUME NEW b \in Bills, NEW amt \in 1 .. MaxPay,
                 StaffPayBill(p, u, b, amt) \/ WargaPayBill(p, u, b, amt)
          PROVE  UNCHANGED balance \/ (PostPaymentIncome(p, amt, NoLocation) /\ amt \in Nat)
      BY <3>2 DEF StaffPayBill, WargaPayBill
    <3>3. ASSUME NEW d \in Dues, NEW amt \in 1 .. MaxPay, Donate(p, u, d, amt)
          PROVE  UNCHANGED balance \/ (PostPaymentIncome(p, amt, NoLocation) /\ amt \in Nat)
      BY <3>3 DEF Donate
    <3>4. ASSUME NEW alloc \in Allocation,
                 StaffPayPeriods(p, u, alloc) \/ WargaPayPeriods(p, u, alloc)
          PROVE  UNCHANGED balance
                 \/ (/\ PostPaymentIncome(p, AllocTotal(alloc), NoLocation)
                     /\ AllocTotal(alloc) \in Nat)
      BY <3>4, AllocTotalNat DEF StaffPayPeriods, WargaPayPeriods
    <3> QED
      BY <3>1, <3>2, <3>3, <3>4
  <2> QED
    BY <1>1, <2>1, IncomeKeepsBalance
<1>4. CASE VerifyActions
  <2>1. UNCHANGED balance
        \/ \E p \in PaymentIds, loc \in AnyLocation : PostPaymentIncome(p, payments[p].amount, loc)
    BY <1>4 DEF VerifyActions, RejectPayment, ApproveDonation, VerifySinglePayment,
                VerifyMultiPeriodPayment
  <2>2. \A p \in PaymentIds : payments[p].amount \in Nat
    BY DEF TypeOK, PaymentRow
  <2> QED
    BY <1>1, <2>1, <2>2, IncomeKeepsBalance
<1>5. CASE LedgerActions
  <2>1. ASSUME NEW p \in PaymentIds, ReverseApprovedPayment(p) PROVE NoOverdraft'
    <3>1. PICK i \in 1 .. Len(ledger) :
             /\ CanSpend(ledger[i].location, payments[p].amount)
             /\ TransactionCreate("expense", payments[p].amount, p, i, ledger[i].location,
                                  "payment_reversal")
      BY <2>1 DEF ReverseApprovedPayment
    <3>2. payments[p].amount \in Nat
      BY DEF TypeOK, PaymentRow
    <3> QED
      BY <3>1, <3>2, PostingKeepsBalance
  <2>2. ASSUME NEW i \in 1 .. Len(ledger), ReverseTransaction(i) PROVE NoOverdraft'
    <3>1. ledger[i] \in LedgerRow
      BY DEF TypeOK
    <3>2. PICK type \in {"income", "expense"} :
             /\ TransactionCreate(type, ledger[i].amount, ledger[i].payment, i,
                                  ledger[i].location, "hand_reversal")
             /\ type = "expense" => CanSpend(ledger[i].location, ledger[i].amount)
      BY <2>2, <3>1 DEF ReverseTransaction, LedgerRow
    <3> QED
      BY <3>1, <3>2, PostingKeepsBalance DEF LedgerRow
  <2>3. ASSUME NEW type \in {"income", "expense"}, NEW amt \in ManualAmounts, NEW loc,
               CreateManualTransaction(type, amt, loc)
        PROVE  NoOverdraft'
    BY <2>3, Bounds, PostingKeepsBalance DEF CreateManualTransaction
  <2> QED
    BY <1>5, <2>1, <2>2, <2>3 DEF LedgerActions
<1> QED
  BY <1>2, <1>3, <1>4, <1>5 DEF Next

\* In every reachable state no fund location has paid out more than it took
\* in, whatever mixture of manual entries, approvals and both kinds of reversal
\* is posted to it.
THEOREM NeverOverdrawn == Spec => []NoOverdraft
<1>1. Init => NoOverdraft
  BY DEF Init, NoOverdraft
<1> QED
  BY <1>1, StepOverdraft, TypeCorrect, PTL DEF Spec
=============================================================================
