SPECIFICATION Spec
CONSTANTS
  Tasks = {t1, t2}
  Conns = {c1, c2}
  MaxConnectionsPerHost = 1
  MaxPermits = 2
  MaxRequests = 2
  Cleaner = Cleaner
  NoOne = NoOne
INVARIANTS PermitsAccounted LentOnce
PROPERTY StuckIsReclaimed
