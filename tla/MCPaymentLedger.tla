--------------------------- MODULE MCPaymentLedger ---------------------------
(* Small instances of PaymentLedger. *)
EXTENDS PaymentLedger, TLC

CONSTANTS jan, feb, tetangga, iuran, home, rumah, warga, bendahara, ketua, p1, p2, p3, kas

Regular(rule) == [active |-> TRUE, voluntary |-> FALSE, expired |-> FALSE,
                  rp0 |-> FALSE, rule |-> rule]
Sukarela(rp0) == [active |-> TRUE, voluntary |-> TRUE, expired |-> FALSE,
                  rp0 |-> rp0, rule |-> "partial"]

\* Two bills of one occupancy and one due, two units each.
MCDueOf == [b \in Bills |-> iuran]
MCOccOf == [b \in Bills |-> home]
MCPeriodOf == [b \in Bills |-> IF b = feb THEN 2 ELSE 1]
MCAmount == [b \in Bills |-> 2]
MCDueType == [d \in Dues |-> "regular"]
MCHomeOf == [u \in Users |-> IF u = warga THEN home ELSE NoOccupancy]

\* Bills of a due as it becomes voluntary and back: only jan was issued with an amount.
FlipAmount == [b \in Bills |-> IF b = jan THEN 1 ELSE 0]

\* tetangga is the neighbour's bill for the period of jan.
NextDoor == [b \in Bills |-> IF b = tetangga THEN rumah ELSE home]
MultiMonth == [d \in Dues |-> "multi_month"]

FullRule == {Regular("full")}
PartialRule == {Regular("partial")}
BothRules == FullRule \cup PartialRule
Flips == {Regular("partial"), Sukarela(TRUE)}

\* The household moves in a month later, leaves after the first, or stays.
Moves == {<<1, 2, TRUE>>, <<2, 2, TRUE>>, <<1, 1, FALSE>>}

Permutable == Permutations(PaymentIds)
=============================================================================
