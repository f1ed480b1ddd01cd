--------------------------- MODULE PaymentContract ---------------------------
(***************************************************************************)
(* What the payment subsystem promises its users, without saying how.      *)
(* Every payment is recorded at once or waits for one decision; money is   *)
(* recognised, on the bills and in the KAS together, at the moment the     *)
(* payment becomes approved, is taken back when it is reversed, and at no  *)
(* other moment.  PaymentLedger implements this contract.                  *)
(***************************************************************************)
EXTENDS Integers, FiniteSets

CONSTANTS Bills, PaymentIds

VARIABLES
    status, \* status[p]: where payment p stands
    alloc,  \* alloc[p][b]: what p pays on bill b
    amount, \* amount[p]: all p pays, on bills or as a donation
    credit, \* credit[b]: money recognised on bill b
    cash    \* money recognised in the KAS for payments

contract == <<status, alloc, amount, credit, cash>>

NothingPaid == [b \in Bills |-> 0]

Init ==
    /\ status = [p \in PaymentIds |-> "none"]
    /\ alloc = [p \in PaymentIds |-> NothingPaid]
    /\ amount = [p \in PaymentIds |-> 0]
    /\ credit = NothingPaid
    /\ cash = 0

\* The money of p, on bills and in the KAS, is recognised (sign = 1) or taken
\* back (sign = -1).
Recognise(a, n, sign) ==
    /\ credit' = [b \in Bills |-> credit[b] + sign * a[b]]
    /\ cash' = cash + sign * n

Total(a) == Cardinality(UNION {{b} \X (1 .. a[b]) : b \in Bills})

\* Payment p comes into being, for bills or as a donation.
Enter(p, s) ==
    /\ status[p] = "none"
    /\ status' = [status EXCEPT ![p] = s]
    /\ alloc' = [alloc EXCEPT ![p] = alloc'[p]] /\ alloc'[p] \in [Bills -> Nat]
    /\ amount' = [amount EXCEPT ![p] = amount'[p]] /\ amount'[p] \in Nat
    /\ alloc'[p] = NothingPaid \/ amount'[p] = Total(alloc'[p])

Submit(p) == Enter(p, "PENDING") /\ UNCHANGED <<credit, cash>>

Record(p) == Enter(p, "APPROVED") /\ Recognise(alloc'[p], amount'[p], 1)

Approve(p) ==
    /\ status[p] = "PENDING"
    /\ status' = [status EXCEPT ![p] = "APPROVED"]
    /\ Recognise(alloc[p], amount[p], 1)
    /\ UNCHANGED <<alloc, amount>>

Reject(p) ==
    /\ status[p] = "PENDING"
    /\ status' = [status EXCEPT ![p] = "REJECTED"]
    /\ UNCHANGED <<alloc, amount, credit, cash>>

Reverse(p) ==
    /\ status[p] = "APPROVED"
    /\ status' = [status EXCEPT ![p] = "REVERSED"]
    /\ Recognise(alloc[p], amount[p], -1)
    /\ UNCHANGED <<alloc, amount>>

Next ==
    \E p \in PaymentIds : Submit(p) \/ Record(p) \/ Approve(p) \/ Reject(p) \/ Reverse(p)

Spec == Init /\ [][Next]_contract
=============================================================================
