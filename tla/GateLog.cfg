\* Two threads of one client, one of another client of their process and one of
\* another process write a row of two pieces each; any of them may fail and
\* either process may be killed. All of that ends.
SPECIFICATION Spec
CONSTANTS
  t1 = t1
  t2 = t2
  t3 = t3
  t4 = t4
  c1 = c1
  c2 = c2
  c3 = c3
  p1 = p1
  p2 = p2
  Threads = {t1, t2, t3, t4}
  ClientOf <- ThreeClients
  ProcessOf <- Hosts
  Pieces = 2
  NoThread = NoThread
INVARIANTS
  TypeOK
  RowsDoNotMix
  RecordedRowsAreThere
CHECK_DEADLOCK FALSE
