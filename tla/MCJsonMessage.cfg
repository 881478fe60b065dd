CONSTANTS
  Chars <- MCChars
  MaxLen = 2
SPECIFICATION Spec
INVARIANT MessageDecodesToText
