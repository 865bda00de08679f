SPECIFICATION Spec
INVARIANTS MovementStaysFlagged
