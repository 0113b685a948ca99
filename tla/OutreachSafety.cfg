SPECIFICATION Spec
SYMMETRY Symmetry
CONSTANTS
  Creators = {c1, c2}
  Keys = {1, 2}
  MaxSends = 2
  Copies = {m1, m2}
  MaxRetries = 1
  MaxFaults = 1
  Faults = {"lost worker", "redelivery", "database", "retry broker", "api broker", "api crash", "abandoned"}
INVARIANTS OneCurrentDelivery OneSender AcceptanceIsFinal NothingStranded AnswerIsLast ReportsAreTrue
PROPERTIES ImplementsMail
CHECK_DEADLOCK FALSE
