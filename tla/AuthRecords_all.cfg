CONSTANTS
  k1 = k1
  k2 = k2
  a = a
  q1 = q1
  q2 = q2
  Keys <- MCKeys
  KeyLists <- MCKeyLists
  Emails <- MCEmails
  Requests <- MCRequests
  NoRecord = NoRecord
  Torn = Torn
  NoEmail = NoEmail
  MaxCalls = 2
  MaxEdits = 1
  MaxCrashes = 1

SPECIFICATION Spec

SYMMETRY MCSymmetry

INVARIANTS
  TypeOK
  RecordsKept

PROPERTIES
  Materialized

CHECK_DEADLOCK FALSE
