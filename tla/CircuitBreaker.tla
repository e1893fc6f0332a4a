--------------------------- MODULE CircuitBreaker ---------------------------
(***************************************************************************)
(* The circuit breaker and its Resilient wrapper, which the repository has *)
(* twice: maps/resilient.go around a maps backend, search/circuitbreaker.go *)
(* around a search provider.  They differ in whom they charge for a call   *)
(* that the caller itself abandoned.                                       *)
(*                                                                         *)
(* A call is not atomic: it reads the window under the lock, leaves the    *)
(* lock for the whole backend call, and takes it again to record how that  *)
(* went, so that any number of calls admitted earlier end while the        *)
(* breaker is open.  suspendUntil is kept as the time that is left of it,  *)
(* in units of the base suspension (30 s).                                 *)
(***************************************************************************)
EXTENDS Integers, FiniteSets

CONSTANTS
  Callers,       \* concurrent users of one wrapper
  MaxSuspend,    \* resilientMaxSuspend in units of the base: 20
  MaxExpShift,   \* resilientMaxExpShift: 8
  ErrsBound      \* where the error counter saturates: the window no longer grows

ASSUME BreakerAssumption ==
  /\ MaxSuspend \in Nat \ {0}
  /\ MaxExpShift \in Nat
  /\ ErrsBound \in Nat /\ ErrsBound > MaxExpShift

\* Arithmetic, stated for the proofs: the powers are positive and grow.
ASSUME PowersAssumption ==
  \A m, n \in 0..MaxExpShift : 2 ^ m \in Nat \ {0} /\ (m <= n => 2 ^ m <= 2 ^ n)

VARIABLES
  chargesCancelled,  \* search's wrapper (TRUE) or the maps' (FALSE)
  consecutiveErrs,
  left,              \* suspendUntil minus now; 0: not suspended
  calling,           \* the callers inside inner.Check or inner.Search
  faulted            \* history: the backend itself failed since the last success

breakerVars == <<chargesCancelled, consecutiveErrs, left, calling, faulted>>

BreakerTypeOK ==
  /\ chargesCancelled \in BOOLEAN
  /\ consecutiveErrs \in 0..ErrsBound
  /\ left \in 0..MaxSuspend
  /\ calling \subseteq Callers
  /\ faulted \in BOOLEAN

Least(a, b) == IF a <= b THEN a ELSE b

BUG_NoCap(errs) == 2 ^ Least(errs - 1, MaxExpShift)
BUG_WrapsAround(errs) == Least(2 ^ ((errs - 1) % MaxExpShift), MaxSuspend)

\* The window after the given number of consecutive errors.
Backoff(errs) == Least(2 ^ Least(errs - 1, MaxExpShift), MaxSuspend)

BUG_AlwaysAdmits == TRUE

\* ~isSuspended()
Admits == left = 0

\* Check and Search up to the backend call; a refused call is over at once.
Call(c) ==
  /\ c \notin calling
  /\ Admits
  /\ calling' = calling \cup {c}
  /\ UNCHANGED <<chargesCancelled, consecutiveErrs, left, faulted>>

RecordError ==
  /\ consecutiveErrs' = Least(consecutiveErrs + 1, ErrsBound)
  /\ left' = Backoff(consecutiveErrs')

BUG_KeepsWindow == consecutiveErrs' = 0 /\ UNCHANGED left

RecordSuccess ==
  /\ consecutiveErrs' = 0
  /\ left' = 0

\* A result, PlaceNotFound included, is a success.
Succeed(c) ==
  /\ c \in calling
  /\ RecordSuccess
  /\ calling' = calling \ {c}
  /\ faulted' = FALSE
  /\ UNCHANGED chargesCancelled

\* An error, the call's own timeout, or (maps) a nil result without an error.
Fail(c) ==
  /\ c \in calling
  /\ RecordError
  /\ calling' = calling \ {c}
  /\ faulted' = TRUE
  /\ UNCHANGED chargesCancelled

BUG_ChargesAll == TRUE

\* Is an error charged when the caller's own context is done?
ChargesAbandoned == chargesCancelled

\* The caller's context ends, and the backend call with it.
Abandon(c) ==
  /\ c \in calling
  /\ IF ChargesAbandoned THEN RecordError ELSE UNCHANGED <<consecutiveErrs, left>>
  /\ calling' = calling \ {c}
  /\ UNCHANGED <<chargesCancelled, faulted>>

\* The base suspension passes.
Tick ==
  /\ left > 0
  /\ left' = left - 1
  /\ UNCHANGED <<chargesCancelled, consecutiveErrs, calling, faulted>>

BreakerInit ==
  /\ chargesCancelled \in BOOLEAN
  /\ consecutiveErrs = 0
  /\ left = 0
  /\ calling = {}
  /\ faulted = FALSE

BreakerNext ==
  \/ \E c \in Callers : Call(c) \/ Succeed(c) \/ Fail(c) \/ Abandon(c)
  \/ Tick

\* Time passes.  Nothing makes a backend answer or a caller call.
BreakerSpec == BreakerInit /\ [][BreakerNext]_breakerVars /\ WF_breakerVars(Tick)

(***************************************************************************)
(* Properties.                                                             *)
(***************************************************************************)
\* The window and the counter tell the same story although they are written by
\* calls that overlap: nobody is refused unless the last recorded call failed,
\* and never for longer than the errors since the last success call for.
WindowIsEarned ==
  /\ left > 0 => consecutiveErrs > 0
  /\ consecutiveErrs > 0 => left <= Backoff(consecutiveErrs)

\* "A parent cancellation or deadline is not the backend's fault" (maps
\* Resilient.Check): callers that give up, however many, never suspend a maps
\* backend that has not itself failed since its last answer.
OnlyFaultsSuspend == ~chargesCancelled /\ left > 0 => faulted

\* "After each error the suspend duration doubles, capped": a late failure of a
\* call admitted before the breaker opened may extend the window, and only a
\* success may cut it short.
ErrorsNeverShorten ==
  [][left' < left =>
       \/ left' = left - 1 /\ UNCHANGED <<consecutiveErrs, calling>>
       \/ consecutiveErrs' = 0]_breakerVars

\* A suspension comes to an end: a step that leaves a backend suspended ends one
\* of the calls that were in flight, which may extend the window, or else takes
\* time off it; nothing admits another call.
SuspensionRunsOut ==
  [][left > 0 /\ left' > 0 =>
       \/ calling' \subseteq calling /\ calling' # calling
       \/ calling' = calling /\ left' < left]_breakerVars

\* A suspended backend is tried again: the calls still in flight when it was
\* suspended can extend the window, but there are only so many of them.
SuspensionEnds == left > 0 ~> left = 0

=============================================================================
