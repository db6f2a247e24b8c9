SPECIFICATION Spec
CONSTANTS
  Runs = {p1, p2, p3}
  Signatures = {s1, s2}
  NoSignature = NoSignature
  Absent = Absent
  Partial = Partial
  MAX_POLLS = 2
INVARIANTS TypeOK OneSubmission SubmissionRecorded ReceiptIsFinal
PROPERTIES PublishEnds
CHECK_DEADLOCK FALSE
