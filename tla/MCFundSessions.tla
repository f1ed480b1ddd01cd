---------------------------- MODULE MCFundSessions ----------------------------
(* A small instance of FundSessions: two locations in any state, transfers in *)
(* both directions, and an entry of every type.                               *)
EXTENDS FundSessions, TLC

CONSTANTS bank, brankas, there, back, dues, gift, bill, s1, s2

IdOrder == [l \in Locations |-> IF l = bank THEN 1 ELSE 2]
OneAndTwo == [l \in Locations |-> IF l = bank THEN 1 ELSE 2]

MCFrom == [t \in Transfers |-> IF t = there THEN bank ELSE brankas]
MCTo == [t \in Transfers |-> IF t = there THEN brankas ELSE bank]
OneUnit == [t \in Transfers |-> 1]

\* dues is the income of an approval, gift an income of no location, bill an expense.
MCType == [e \in Entries |-> IF e = dues THEN "payment" ELSE IF e = gift THEN "income" ELSE "expense"]
MCPlace == [e \in Entries |-> IF e = gift THEN NoLocation ELSE bank]
MCAmount == [e \in Entries |-> 1]

Interchangeable == Permutations(Sessions)
=============================================================================
