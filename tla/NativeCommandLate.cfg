SPECIFICATION Spec
INVARIANT LateSuccessIsTimeout
