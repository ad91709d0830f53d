\* A notification of two invoices and a customer, a signal, a pass or statement that
\* rejects, and a failed start, a broken LISTEN or a lost answer.
CONSTANTS
  i1 = i1  i2 = i2  customer = customer
  Entities = {i1, i2, customer}
  Invoices = {i1, i2}
  Notification <- TheNotification
  MaxRejects = 1
  MaxSignals = 1
  MaxLosses = 1
SPECIFICATION FairSpec
INVARIANTS TypeOK DrainedMeansDrained
PROPERTIES HandledIsNotRepeated EveryInvoiceIsHandled SignalEndsProcess
