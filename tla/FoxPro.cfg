SPECIFICATION ValuesSpec
CONSTANTS
  Topics = {"files"}
  None = None
  Null = Null
INVARIANT ExactEndIsAdmitted
