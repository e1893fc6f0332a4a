\* The constants of the code: base 30 s, cap 10 min, shift 8.  Ten errors pass
\* both the cap (at 6) and the largest shift (at 9).
CONSTANTS
  Callers = {c1, c2, c3}
  MaxSuspend = 20
  MaxExpShift = 8
  ErrsBound = 11
SPECIFICATION BreakerSpec
INVARIANTS
  BreakerTypeOK
  WindowIsEarned
  OnlyFaultsSuspend
PROPERTIES
  ErrorsNeverShorten
  SuspensionEnds
