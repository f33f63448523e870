---------------------------- MODULE SlidingWindow ----------------------------
(***************************************************************************)
(* The arithmetic of app/ratelimit.py's sliding-window counter: which      *)
(* window an instant falls in, and whether one more request fits.          *)
(*                                                                         *)
(* Time is an integer number of ticks and a window is named by its index,  *)
(* so that the code's store key "scope:identifier:start" is the index      *)
(* start \div Window.  The code computes its estimate in floating point;   *)
(* here it is exact, scaled by Window so that it stays an integer:         *)
(*                                                                         *)
(*   Window * (previous * (1 - elapsed) + current + 1)                     *)
(***************************************************************************)
EXTENDS Integers

CONSTANTS
  Limit,    \* requests admitted per window (settings.*_limit)
  Window    \* length of a window in ticks (settings.*_window_seconds)

ASSUME QuotaAssumption ==
  /\ Limit \in Nat \ {0}
  /\ Window \in Nat \ {0}

(* current_start, as an index: int(now // window_seconds).                 *)
WindowOf(t) == t \div Window

(* now - current_start.                                                    *)
Elapsed(t) == t % Window

(* Mistakes the runs must notice: the request being judged is left out, as *)
(* peek once did; the previous window is left out of the estimate.         *)
EstimateWithoutRequest(previous, current, t) ==
  previous * (Window - Elapsed(t)) + current * Window
EstimateOfFixedWindow(previous, current, t) == (current + 1) * Window

(* `estimate`, scaled by Window.  The + 1 is the request being judged.     *)
Estimate(previous, current, t) ==
  previous * (Window - Elapsed(t)) + (current + 1) * Window

(* allowed = estimate <= limit                                             *)
Admits(previous, current, t) ==
  Estimate(previous, current, t) <= Limit * Window

(* Ticks until the window in which t falls ends.                           *)
UntilWindowEnd(t) == Window - Elapsed(t)

=============================================================================
