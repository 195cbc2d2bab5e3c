SPECIFICATION Spec
CONSTANTS
  t1 = t1
  t2 = t2
  t3 = t3
  q1 = q1
  q2 = q2
  i1 = i1
  i2 = i2
  Thread <- Threads
  Queue <- Queues
  Item <- Items
  None = None
  MaximumCount <- OneAndTwo
SYMMETRY Symmetry
INVARIANTS
  QueuesConsistent
  NoIdleEntry
