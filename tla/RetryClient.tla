----------------------------- MODULE RetryClient -----------------------------
(***************************************************************************)
(* One client alone on a limit key, and what the Retry-After of a 429 is   *)
(* worth to it.  The other headers of Decision.headers() go out on a 429   *)
(* only, like Retry-After: an admitted request is told nothing, and a      *)
(* refused one that it has none left.                                      *)
(*                                                                         *)
(* Only the current window and the one before it are ever read, so time is *)
(* kept as the phase inside the current window and the two counters; the   *)
(* clock can then run for ever.  A request is one step: requests that race *)
(* or outlast a window are RateLimiter's subject.                          *)
(***************************************************************************)
EXTENDS SlidingWindow

CONSTANTS
  TicksPerSecond   \* time.time() is finer than the seconds of the headers

ASSUME SecondsAssumption ==
  /\ TicksPerSecond \in Nat \ {0}
  /\ Window % TicksPerSecond = 0

VARIABLES
  honours,  \* does the client wait for Retry-After, or retry every second?
  phase,    \* time.time() - current_start
  previous, \* the stored count of the window before
  current,  \* the stored count of this window
  wait,     \* ticks until the client asks again
  refusals, \* 429s since the last admitted request, up to Patience
  waited    \* ticks since the first of them, up to Patience

vars == <<honours, phase, previous, current, wait, refusals, waited>>

(* Bound: where the client stops counting.  More than any wait it meets.   *)
Patience == 3 * Window
OneMore(n) == IF n < Patience THEN n + 1 ELSE n

-----------------------------------------------------------------------------
(* Mistakes the runs must notice: reset_seconds without max(1, ...); a     *)
(* refusal that is counted; a window that ends and is not left behind.     *)
ResetSecondsFromZero == UntilWindowEnd(phase) \div TicksPerSecond

(* reset_seconds = max(1, int(current_start + window_seconds - now))       *)
ResetSeconds ==
  LET seconds == UntilWindowEnd(phase) \div TicksPerSecond
  IN  IF seconds < 1 THEN 1 ELSE seconds

(* How long the client stays away after a 429.                             *)
BackOff == TicksPerSecond * (IF honours THEN ResetSeconds ELSE 1)

Init ==
  /\ honours \in BOOLEAN
  /\ phase \in 0 .. Window - 1
  /\ previous = 0
  /\ current = 0
  /\ wait = 0
  /\ refusals = 0
  /\ waited = 0

(* The client asks and is served.                                          *)
Served ==
  /\ wait = 0
  /\ Admits(previous, current, phase)
  /\ current' = current + 1
  /\ refusals' = 0
  /\ waited' = 0
  /\ UNCHANGED <<honours, phase, previous, wait>>

RefuseAndCount ==
  /\ wait = 0
  /\ ~ Admits(previous, current, phase)
  /\ wait' = BackOff
  /\ current' = current + 1
  /\ refusals' = OneMore(refusals)
  /\ UNCHANGED <<honours, phase, previous, waited>>

(* The client asks and gets a 429.                                         *)
TooManyRequests ==
  /\ wait = 0
  /\ ~ Admits(previous, current, phase)
  /\ wait' = BackOff
  /\ refusals' = OneMore(refusals)
  /\ UNCHANGED <<honours, phase, previous, current, waited>>

NextWindowStale ==
  IF phase + 1 < Window
    THEN phase' = phase + 1 /\ UNCHANGED <<previous, current>>
    ELSE phase' = 0 /\ previous' = current /\ UNCHANGED current

(* The keys that are read move on with the clock: a new window starts from *)
(* an absent item.                                                         *)
NextWindow ==
  IF phase + 1 < Window
    THEN phase' = phase + 1 /\ UNCHANGED <<previous, current>>
    ELSE phase' = 0 /\ previous' = current /\ current' = 0

(* Time passes.  A refused client comes back the moment its wait is over;  *)
(* one that was served asks again whenever it likes.                       *)
Tick ==
  /\ refusals > 0 => wait > 0
  /\ wait' = IF wait > 0 THEN wait - 1 ELSE 0
  /\ waited' = IF refusals > 0 THEN OneMore(waited) ELSE 0
  /\ NextWindow
  /\ UNCHANGED <<honours, refusals>>

Next == Served \/ TooManyRequests \/ Tick

(* Time never stops, and a refused client does come back.                  *)
Spec ==
  /\ Init /\ [][Next]_vars
  /\ WF_vars(Tick)
  /\ WF_vars(refusals > 0 /\ (Served \/ TooManyRequests))

-----------------------------------------------------------------------------
TypeOK ==
  /\ honours \in BOOLEAN
  /\ phase \in 0 .. Window - 1
  /\ previous \in 0 .. Limit
  /\ current \in 0 .. Limit
  /\ wait \in 0 .. Window
  /\ refusals \in 0 .. Patience
  /\ waited \in 0 .. Patience

(* A client that honours Retry-After is refused a second time when it      *)
(* comes back (the full window behind it still weighs), and once more when *)
(* the truncation of reset_seconds brings it back a moment early.  That is *)
(* under any limit above one; a limit of one refuses it a fourth time.     *)
RefusalsBounded == honours => refusals <= 3

(* ... and is served at the latest as the second window after its first    *)
(* refusal begins.                                                         *)
WaitBounded == honours => waited <= 2 * Window

(* A client that ignores Retry-After and retries every second is served    *)
(* as soon as one more request fits beside what the previous window still  *)
(* weighs: a window for its burst to become the previous one, 1/Limit of   *)
(* a window for one of its requests to age out, and a second to notice.    *)
HammeringWaitBounded ==
  ~ honours =>
    waited * Limit <= (Limit + 1) * Window + Limit * TicksPerSecond

(* Every refused client is served again, whatever it did with its 429s.    *)
Recovers == refusals > 0 ~> refusals = 0

(* README.md:1330: honouring Retry-After returns the quota "as documented".*)
RetryAfterIsEnough == honours => refusals <= 1

=============================================================================
