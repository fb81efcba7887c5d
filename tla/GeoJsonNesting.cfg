SPECIFICATION ValuesSpec
CONSTANTS
  Topics = {"nested text"}
  None = None
  Null = Null
INVARIANT AcceptsNoMoreThanBefore
