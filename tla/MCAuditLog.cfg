SPECIFICATION Spec
CONSTANT Requests = {r1, r2, r3, r4, r5}
SYMMETRY Interchangeable
INVARIANTS Linked CheckpointDescribesTheLog HonestAnswers FreshRecordsSurvive HeldAtWork
PROPERTY ImplementsAuditTrail
CHECK_DEADLOCK FALSE
