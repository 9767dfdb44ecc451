SPECIFICATION FairSpec
CONSTANTS
  Session = {s1, s2}
  State = {l1}
  Thread = {t1, t2}
  None = None
  MaxTokens = 3
  Faults = {"lost", "restart"}
  MaxFaults = 1
INVARIANTS
  NoReplay
  LoginOnce
  OneRefresh
PROPERTIES
  GoneStaysGone
  RequestsEnd
