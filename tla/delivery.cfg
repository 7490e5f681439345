SPECIFICATION Spec
CONSTANT MaxAttempts = 2
INVARIANTS CopiesExplained BothPathsFailed EditReported
CHECK_DEADLOCK FALSE
