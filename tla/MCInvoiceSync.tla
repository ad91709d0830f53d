----------------------------- MODULE MCInvoiceSync -----------------------------
EXTENDS InvoiceSync, TLC

CONSTANTS d1, d2, w1, w2, a1, a2, a3

Symmetry == Permutations(Docs) \cup Permutations(Workers) \cup Permutations(Amounts)

\* Of the two amounts, which are interchangeable, a1 is the first, and people change the
\* invoice once: its amount, the customer's name, what is paid, or that it is deleted.
OneChange ==
  /\ inv # None /\ used["edit"] = 0 => inv.amount = a1
  /\ used["edit"] + used["delete"] + used["other"] <= 1
================================================================================
