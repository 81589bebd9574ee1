CONSTANTS
  MaxLines <- MCFewMaxLines
  Lines <- MCLines

SPECIFICATION Spec

INVARIANT StrictLifecycle
