------------------------- MODULE MCJournalLifecycle -------------------------
(* Instances of JournalLifecycle for TLC: a maker and another user; lines  *)
(* that balance in two ways, that do not balance, and a single line.       *)
EXTENDS JournalLifecycle

CONSTANTS ann, bob, r1, r2, main, rev1, rev2, cash, income

Debit(account, amount) == [account |-> account, debit |-> amount, credit |-> 0]
Credit(account, amount) == [account |-> account, debit |-> 0, credit |-> amount]

Sale == <<Debit(cash, 2), Credit(income, 2)>>
SplitSale == <<Debit(cash, 1), Debit(cash, 1), Credit(income, 2)>>
Lopsided == <<Debit(cash, 2), Credit(income, 1)>>
OneLine == <<Debit(cash, 2)>>

SerialContents == {Sale, SplitSale, Lopsided, OneLine}
OverlapContents == {Sale, Lopsided}

ReversalSymmetry == Permutations({rev1, rev2})
OverlapSymmetry == ReversalSymmetry \union Permutations(Requests)
=============================================================================
