-------------------------- MODULE RetryClientProofs --------------------------
(***************************************************************************)
(* What TLAPS proves of RetryClient, for every limit and for a window of   *)
(* any number of seconds of any number of ticks.                           *)
(***************************************************************************)
EXTENDS RetryClient, TLAPS

(* ---- Arithmetic ------------------------------------------------------- *)

LEMMA Constants ==
  /\ Limit \in Nat /\ Limit >= 1
  /\ Window \in Nat /\ Window >= 1
  /\ TicksPerSecond \in Nat /\ TicksPerSecond >= 1 /\ TicksPerSecond <= Window
  /\ Patience \in Nat /\ Patience = 3 * Window
<1>1. /\ Limit \in Nat /\ Limit >= 1
      /\ Window \in Nat /\ Window >= 1
      /\ TicksPerSecond \in Nat /\ TicksPerSecond >= 1
  BY QuotaAssumption, SecondsAssumption
<1>2. CASE Window < TicksPerSecond
  <2>1. Window % TicksPerSecond = Window
    BY <1>1, <1>2
  <2> QED
    BY <1>1, <2>1, SecondsAssumption
<1>3. Patience \in Nat /\ Patience = 3 * Window
  BY <1>1 DEF Patience
<1> QED
  BY <1>1, <1>2, <1>3

(* Inside a window the clock shows the phase itself.                       *)
LEMMA PhaseElapsed ==
  ASSUME NEW t \in 0 .. Window - 1
  PROVE  /\ Elapsed(t) = t
         /\ UntilWindowEnd(t) = Window - t
BY Constants DEF Elapsed, UntilWindowEnd

(* What admission says of the counters.                                    *)
LEMMA AdmitsMeans ==
  ASSUME NEW p \in Nat, NEW c \in Nat, NEW t \in 0 .. Window - 1
  PROVE  /\ Admits(p, c, t) <=> p * (Window - t) + (c + 1) * Window <= Limit * Window
         /\ p * (Window - t) \in Nat /\ (c + 1) * Window \in Nat
         /\ Limit * Window \in Nat
<1>1. Window - t \in Nat
  BY Constants
<1> QED
  BY <1>1, Constants, PhaseElapsed DEF Admits, Estimate

(* ---- Types ------------------------------------------------------------ *)

(* How long a refused client stays away: whole seconds, one at least, and  *)
(* either up to the last second of the window or, from within that second, *)
(* one more.                                                               *)
LEMMA BackOffMeans ==
  ASSUME TypeOK
  PROVE  /\ BackOff \in Nat /\ TicksPerSecond <= BackOff /\ BackOff <= Window
         /\ \E n \in Nat : BackOff = n * TicksPerSecond
         /\ ~ honours => BackOff = TicksPerSecond
         /\ honours => /\ Window - TicksPerSecond < phase + BackOff
                       /\ phase + BackOff <= Window \/ BackOff = TicksPerSecond
<1> DEFINE rest == Window - phase
           n == rest \div TicksPerSecond
<1>1. phase \in 0 .. Window - 1 /\ rest \in Nat /\ rest >= 1 /\ rest <= Window
      /\ phase = Window - rest /\ UntilWindowEnd(phase) = rest
  BY Constants, PhaseElapsed DEF TypeOK
<1> HIDE DEF rest
<1>2. /\ n \in Nat /\ n * TicksPerSecond \in Nat
      /\ n * TicksPerSecond <= rest /\ rest < n * TicksPerSecond + TicksPerSecond
  BY <1>1, Constants
<1>3. ResetSeconds = IF n < 1 THEN 1 ELSE n
  BY <1>1 DEF ResetSeconds
<1> HIDE DEF n
<1>4. 1 * TicksPerSecond = TicksPerSecond
  BY Constants
<1>5. CASE ~ honours
  <2>1. BackOff = 1 * TicksPerSecond
    BY <1>5, Constants DEF BackOff
  <2> QED
    BY <1>4, <1>5, <2>1, Constants
<1>6. CASE honours /\ n < 1
  <2>1. BackOff = 1 * TicksPerSecond
    BY <1>3, <1>6, Constants DEF BackOff
  <2>2. n = 0 /\ 0 * TicksPerSecond = 0
    BY <1>2, <1>6, Constants
  <2>3. rest < TicksPerSecond
    BY <1>1, <1>2, <2>2, Constants
  <2>4. Window - TicksPerSecond < phase + BackOff
    BY <1>1, <1>4, <2>1, <2>3, Constants
  <2> QED
    BY <1>4, <1>6, <2>1, <2>4, Constants
<1>7. CASE honours /\ ~ (n < 1)
  <2>1. BackOff = n * TicksPerSecond
    BY <1>2, <1>3, <1>7, Constants DEF BackOff
  <2>2. TicksPerSecond <= n * TicksPerSecond
    <3>1. (n - 1) * TicksPerSecond >= 0 /\ n - 1 \in Nat
      BY <1>2, <1>7, Constants
    <3>2. (n - 1) * TicksPerSecond = n * TicksPerSecond - TicksPerSecond
      BY <1>2, Constants
    <3> QED
      BY <1>2, <3>1, <3>2, Constants
  <2>3. phase + BackOff <= Window /\ Window - TicksPerSecond < phase + BackOff
    BY <1>1, <1>2, <2>1, Constants
  <2> QED
    BY <1>1, <1>2, <1>7, <2>1, <2>2, <2>3, Constants
<1> QED
  BY <1>5, <1>6, <1>7

(* An admitted request finds its counter below the limit.                  *)
LEMMA ServedFits ==
  ASSUME TypeOK, Served
  PROVE  current + 1 \in 0 .. Limit
<1>1. /\ previous \in Nat /\ current \in Nat /\ phase \in 0 .. Window - 1
      /\ current + 1 \in Nat
  BY Constants DEF TypeOK
<1>2. (current + 1) * Window <= Limit * Window
  BY <1>1, AdmitsMeans DEF Served
<1> QED
  BY <1>1, <1>2, Constants

LEMMA TypeInit == Init => TypeOK
BY Constants DEF Init, TypeOK

(* One more, and never past the bound.                                     *)
LEMMA OneMoreMeans ==
  ASSUME NEW n \in 0 .. Patience
  PROVE  /\ OneMore(n) \in 1 .. Patience /\ OneMore(n) <= n + 1
         /\ n < Patience => OneMore(n) = n + 1
BY Constants DEF OneMore

(* The clock: the window goes on, or the next one begins.                  *)
LEMMA TickMeans ==
  ASSUME TypeOK, Tick
  PROVE  \/ /\ phase + 1 < Window
            /\ phase' = phase + 1 /\ previous' = previous /\ current' = current
         \/ /\ phase = Window - 1
            /\ phase' = 0 /\ previous' = current /\ current' = 0
BY Constants DEF TypeOK, Tick, NextWindow

LEMMA TypeStep ==
  ASSUME TypeOK, [Next]_vars
  PROVE  TypeOK'
<1>0. \A n \in 0 .. Patience : OneMore(n) \in 0 .. Patience
  BY OneMoreMeans, Constants
<1>1. CASE Served
  <2>1. /\ current' = current + 1 /\ refusals' = 0 /\ waited' = 0
        /\ UNCHANGED <<honours, phase, previous, wait>>
    BY <1>1 DEF Served
  <2>2. current + 1 \in 0 .. Limit /\ 0 \in 0 .. Patience
    BY <1>1, ServedFits, Constants
  <2> QED
    BY <2>1, <2>2 DEF TypeOK
<1>2. CASE TooManyRequests
  <2>1. /\ wait' = BackOff /\ refusals' = OneMore(refusals)
        /\ UNCHANGED <<honours, phase, previous, current, waited>>
    BY <1>2 DEF TooManyRequests
  <2>2. BackOff \in 0 .. Window
    BY BackOffMeans, Constants
  <2>3. OneMore(refusals) \in 0 .. Patience
    BY <1>0 DEF TypeOK
  <2> QED
    BY <2>1, <2>2, <2>3 DEF TypeOK
<1>3. CASE Tick
  <2>1. phase' \in 0 .. Window - 1 /\ previous' \in 0 .. Limit /\ current' \in 0 .. Limit
    BY <1>3, TickMeans, Constants DEF TypeOK
  <2>2. wait' \in 0 .. Window
    BY <1>3, Constants DEF Tick, TypeOK
  <2>3. waited' \in 0 .. Patience
    <3>1. waited' = OneMore(waited) \/ waited' = 0
      BY <1>3 DEF Tick
    <3>2. OneMore(waited) \in 0 .. Patience /\ 0 \in 0 .. Patience
      BY <1>0, Constants DEF TypeOK
    <3> QED
      BY <3>1, <3>2
  <2>4. UNCHANGED <<honours, refusals>>
    BY <1>3 DEF Tick
  <2> QED
    BY <2>1, <2>2, <2>3, <2>4 DEF TypeOK
<1>4. CASE UNCHANGED vars
  BY <1>4 DEF vars, TypeOK
<1> QED
  BY <1>1, <1>2, <1>3, <1>4 DEF Next

(* The counters of a client alone on its key never pass the limit, and no  *)
(* wait is longer than a window.                                           *)
THEOREM TypeCorrect == Spec => []TypeOK
BY TypeInit, TypeStep, PTL DEF Spec

(* ---- How long a refused client waits ----------------------------------- *)

(* Counted from the beginning of the present window: when the client will  *)
(* be back.  Counted from its first refusal: when that will be, and how    *)
(* long ago the present window began (negative or zero in the window of    *)
(* the first refusal, up to a window in the next one, more after that).    *)
Return == phase + wait
Due == waited + wait
Lead == waited - phase

Seconds(n) == \E k \in Nat : n = k * TicksPerSecond

(* Nobody counts while this client waits: the window after that of the     *)
(* first refusal has no count of its own, and the one after it finds none. *)
LeftBehind ==
  /\ refusals = 0 => waited = 0
  /\ Lead >= 1 => current = 0
  /\ Lead > Window => previous = 0

(* Honouring Retry-After, the client waits whole seconds, and never past   *)
(* the second window.                                                      *)
PoliteWait == honours /\ refusals > 0 => Due <= 2 * Window /\ Seconds(Due)

(* It comes back at the end of the window of its first refusal, perhaps    *)
(* twice, or in the first second of the next, where the full window behind *)
(* it may refuse it once more; and after that, late enough to be served.   *)
PoliteRefusals ==
  Limit >= 2 /\ honours /\ refusals > 0 =>
    /\ refusals <= 3
    /\ Lead <= 0 =>
         /\ refusals <= 2
         /\ Window - TicksPerSecond < Return /\ Return < Window + TicksPerSecond
         /\ refusals = 2 => Window < Return
    /\ Lead >= 1 /\ Lead <= Window =>
         (refusals <= 2 /\ Return < TicksPerSecond) \/ Window <= 2 * Return

(* Retrying every second, it is refused in the next window only while one  *)
(* of the Limit requests behind it has yet to age out.                     *)
Hammering ==
  ~ honours /\ refusals > 0 =>
    /\ Limit * Due <= (Limit + 1) * Window + Limit * TicksPerSecond
    /\ Lead <= 0 => Return < Window + TicksPerSecond
    /\ Lead >= 1 /\ Lead <= Window =>
         Limit * Return < Window + Limit * TicksPerSecond

WInv == TypeOK /\ LeftBehind /\ PoliteWait /\ PoliteRefusals /\ Hammering

LEMMA WaitTypes ==
  ASSUME TypeOK
  PROVE  /\ TypeOK /\ phase \in 0 .. Window - 1 /\ phase \in Nat
         /\ previous \in Nat /\ current \in Nat
         /\ previous <= Limit /\ current <= Limit
         /\ wait \in Nat /\ waited \in Nat /\ waited <= Patience
         /\ refusals \in Nat /\ refusals \in 0 .. Patience
         /\ Return \in Nat /\ Due \in Nat /\ Lead \in Int
         /\ Lead <= waited /\ 0 < Lead + Window /\ waited = Lead + phase
         /\ Due = Lead + Return
BY Constants DEF TypeOK, Return, Due, Lead

(* The bound on waited is never reached: the client is back before.        *)
LEMMA NotCapped ==
  ASSUME WInv, refusals > 0, wait > 0
  PROVE  waited < Patience
<1>1. TypeOK /\ PoliteWait /\ Hammering
  BY DEF WInv
<1>2. waited < Due
  BY <1>1, WaitTypes DEF Due
<1>3. CASE honours
  BY <1>1, <1>2, <1>3, WaitTypes, Constants DEF PoliteWait
<1>4. CASE ~ honours
  <2>1. Limit * Due <= (Limit + 1) * Window + Limit * TicksPerSecond
    BY <1>1, <1>4 DEF Hammering
  <2>2. (Limit + 1) * Window = Limit * Window + Window
    BY Constants
  <2>3. Window <= Limit * Window
    <3>1. (Limit - 1) * Window >= 0 /\ (Limit - 1) * Window = Limit * Window - Window
      BY Constants
    <3> QED
      BY <3>1, Constants
  <2>4. Limit * TicksPerSecond <= Limit * Window
    <3>1. /\ Limit * (Window - TicksPerSecond) >= 0
          /\ Limit * (Window - TicksPerSecond)
               = Limit * Window - Limit * TicksPerSecond
      BY Constants
    <3> QED
      BY <3>1, Constants
  <2>5. /\ Limit * Window \in Nat /\ Limit * TicksPerSecond \in Nat
        /\ Due \in Nat /\ Limit * Due \in Nat
    BY <1>1, WaitTypes, Constants
  <2>6. Limit * Due <= Limit * (3 * Window)
    <3>1. Limit * (3 * Window) = 3 * (Limit * Window)
      BY Constants
    <3> QED
      BY <2>1, <2>2, <2>3, <2>4, <2>5, <3>1, Constants
  <2>7. Due <= 3 * Window
    BY <2>5, <2>6, Constants
  <2> QED
    BY <1>1, <1>2, <2>5, <2>7, WaitTypes, Constants
<1> QED
  BY <1>3, <1>4

(* A tick brings a refused client nearer; whatever it waits for stays put. *)
LEMMA TickWaiting ==
  ASSUME WInv, Tick, refusals > 0
  PROVE  /\ wait > 0 /\ Due' = Due /\ refusals' = refusals /\ honours' = honours
         /\ waited' = waited + 1
         /\ \/ /\ Return' = Return /\ Lead' = Lead
               /\ current' = current /\ previous' = previous
            \/ /\ Return' = Return - Window /\ Lead' = Lead + Window
               /\ current' = 0 /\ previous' = current
<1>1. TypeOK /\ wait > 0 /\ wait \in Nat /\ waited \in 0 .. Patience
  BY WaitTypes, Constants DEF WInv, Tick
<1>2. wait' = wait - 1 /\ waited' = waited + 1
  BY <1>1, NotCapped, OneMoreMeans DEF Tick
<1>3. refusals' = refusals /\ honours' = honours
  BY DEF Tick
<1>4. Due' = Due
  BY <1>1, <1>2, Constants DEF Due
<1>5. phase \in Nat /\ Window \in Nat
  BY <1>1, WaitTypes, Constants
<1>6. CASE /\ phase + 1 < Window
           /\ phase' = phase + 1 /\ previous' = previous /\ current' = current
  BY <1>1, <1>2, <1>3, <1>4, <1>5, <1>6, Constants DEF Return, Lead
<1>7. CASE /\ phase = Window - 1
           /\ phase' = 0 /\ previous' = current /\ current' = 0
  BY <1>1, <1>2, <1>3, <1>4, <1>5, <1>7, Constants DEF Return, Lead
<1> QED
  BY <1>1, <1>6, <1>7, TickMeans

(* A refusal: the client waits from here, in a window that still finds     *)
(* something counted.                                                      *)
LEMMA RefusedMeans ==
  ASSUME TypeOK, LeftBehind, TooManyRequests
  PROVE  /\ wait = 0 /\ Return = phase /\ Due = waited
         /\ Return' = phase + BackOff /\ Due' = waited + BackOff /\ Lead' = Lead
         /\ refusals' = OneMore(refusals) /\ honours' = honours
         /\ OneMore(refusals) \in Nat /\ OneMore(refusals) >= 1
         /\ OneMore(refusals) <= refusals + 1
         /\ Lead <= Window
         /\ refusals = 0 => waited = 0 /\ Lead <= 0
<1>1. /\ wait = 0 /\ wait' = BackOff /\ refusals' = OneMore(refusals)
      /\ UNCHANGED <<honours, phase, previous, current, waited>>
      /\ ~ Admits(previous, current, phase)
  BY DEF TooManyRequests
<1>2. BackOff \in Nat
  BY WaitTypes, BackOffMeans
<1>3. Return = phase /\ Due = waited
  BY <1>1, WaitTypes DEF Return, Due
<1>4. Return' = phase + BackOff /\ Due' = waited + BackOff /\ Lead' = Lead
  BY <1>1 DEF Return, Due, Lead
<1>5. /\ OneMore(refusals) \in Nat /\ OneMore(refusals) >= 1
      /\ OneMore(refusals) <= refusals + 1
  BY WaitTypes, OneMoreMeans, Constants
<1>6. Lead <= Window
  <2>1. CASE Lead > Window
    <3>1. previous = 0 /\ current = 0
      BY <2>1, WaitTypes, Constants DEF LeftBehind
    <3>2. Admits(0, 0, phase)
      <4>1. Window - phase \in Nat /\ 0 * (Window - phase) = 0
        BY WaitTypes, Constants
      <4>2. (0 + 1) * Window <= Limit * Window
        <5>1. (Limit - 1) * Window >= 0 /\ (Limit - 1) * Window = Limit * Window - Window
          BY Constants
        <5> QED
          BY <5>1, Constants
      <4> QED
        BY <4>1, <4>2, WaitTypes, AdmitsMeans, Constants
    <3> QED
      BY <1>1, <3>1, <3>2
  <2> QED
    BY <2>1, WaitTypes, Constants
<1>7. refusals = 0 => waited = 0 /\ Lead <= 0
  BY WaitTypes DEF LeftBehind, Lead
<1> QED
  BY <1>1, <1>3, <1>4, <1>5, <1>6, <1>7

LEMMA LeftBehindStep ==
  ASSUME WInv, [Next]_vars
  PROVE  LeftBehind'
<1>0. TypeOK /\ LeftBehind
  BY DEF WInv
<1>1. CASE Served \/ (Tick /\ ~ (refusals > 0))
  <2>1. waited' = 0
    BY <1>1 DEF Served, Tick
  <2>2. phase' \in Nat
    BY <1>0, <1>1, TypeStep, Constants DEF TypeOK
  <2>3. ~ (Lead' >= 1) /\ ~ (Lead' > Window)
    <3> DEFINE t == phase'
    <3>1. t \in Nat /\ Lead' = 0 - t
      BY <2>1, <2>2 DEF Lead
    <3> HIDE DEF t
    <3> QED
      BY <3>1, Constants
  <2> QED
    BY <2>1, <2>3 DEF LeftBehind
<1>2. CASE TooManyRequests
  <2>1. /\ Lead' = Lead /\ refusals' = OneMore(refusals)
        /\ OneMore(refusals) >= 1 /\ OneMore(refusals) \in Nat
    BY <1>0, <1>2, RefusedMeans
  <2>2. current' = current /\ previous' = previous /\ refusals' # 0
    BY <1>2, <2>1 DEF TooManyRequests
  <2> QED
    BY <1>0, <2>1, <2>2 DEF LeftBehind
<1>3. CASE Tick /\ refusals > 0
  <2>1. refusals' = refusals /\ refusals # 0
    BY <1>3, TickWaiting
  <2>2. CASE /\ Return' = Return /\ Lead' = Lead
             /\ current' = current /\ previous' = previous
    BY <1>0, <2>1, <2>2 DEF LeftBehind
  <2>3. CASE /\ Return' = Return - Window /\ Lead' = Lead + Window
             /\ current' = 0 /\ previous' = current
    <3>1. Lead + Window > Window => current = 0
      BY <1>0, WaitTypes, Constants DEF LeftBehind
    <3> QED
      BY <2>1, <2>3, <3>1 DEF LeftBehind
  <2> QED
    BY <1>3, <2>2, <2>3, TickWaiting
<1>4. CASE UNCHANGED vars
  BY <1>0, <1>4 DEF vars, LeftBehind, Lead
<1> QED
  BY <1>1, <1>2, <1>3, <1>4 DEF Next

(* Whole seconds short of a number of whole seconds leave one more.        *)
LEMMA OneMoreSecond ==
  ASSUME NEW n \in Nat, Seconds(n), n < 2 * Window
  PROVE  n + TicksPerSecond <= 2 * Window
<1>1. PICK k \in Nat : n = k * TicksPerSecond
  BY DEF Seconds
<1> DEFINE w == Window \div TicksPerSecond
<1>2. w \in Nat /\ Window = w * TicksPerSecond
  BY Constants, SecondsAssumption
<1> HIDE DEF w
<1>3. 2 * Window = (2 * w) * TicksPerSecond
  BY <1>2, Constants
<1>4. k * TicksPerSecond < (2 * w) * TicksPerSecond
  BY <1>1, <1>3
<1>5. k < 2 * w
  BY <1>2, <1>4, Constants
<1>6. (2 * w - (k + 1)) * TicksPerSecond >= 0
  BY <1>2, <1>5, Constants
<1>7. (2 * w - (k + 1)) * TicksPerSecond
        = (2 * w) * TicksPerSecond - (k * TicksPerSecond + TicksPerSecond)
  BY <1>2, Constants
<1> QED
  BY <1>1, <1>2, <1>3, <1>6, <1>7, Constants

LEMMA SecondsAdd ==
  ASSUME NEW m \in Nat, NEW n \in Nat, Seconds(m), Seconds(n)
  PROVE  Seconds(m + n)
<1>1. PICK j \in Nat, k \in Nat : m = j * TicksPerSecond /\ n = k * TicksPerSecond
  BY DEF Seconds
<1>2. j + k \in Nat /\ m + n = (j + k) * TicksPerSecond
  BY <1>1, Constants
<1> QED
  BY <1>2 DEF Seconds

LEMMA PoliteWaitStep ==
  ASSUME WInv, [Next]_vars
  PROVE  PoliteWait'
<1>0. TypeOK /\ LeftBehind /\ PoliteWait
  BY DEF WInv
<1>1. CASE Served \/ (Tick /\ ~ (refusals > 0))
  <2>1. ~ (refusals' > 0)
    BY <1>1 DEF Served, Tick
  <2> QED
    BY <2>1 DEF PoliteWait
<1>2. CASE TooManyRequests
  <2> SUFFICES ASSUME honours PROVE Due' <= 2 * Window /\ Seconds(Due')
    BY <1>0, <1>2, RefusedMeans DEF PoliteWait, Seconds
  <2>1. Due' = waited + BackOff /\ Due = waited /\ Lead <= Window
    BY <1>0, <1>2, RefusedMeans
  <2>2. /\ BackOff \in Nat /\ Seconds(BackOff)
        /\ phase + BackOff <= Window \/ BackOff = TicksPerSecond
    BY <1>0, BackOffMeans, WaitTypes DEF Seconds
  <2>3. waited < 2 * Window /\ waited <= Window + phase /\ waited \in Nat /\ phase \in Nat
    BY <1>0, <2>1, WaitTypes, Constants
  <2>4. Seconds(waited)
    <3>1. CASE refusals > 0
      BY <1>0, <2>1, <3>1 DEF PoliteWait
    <3>2. CASE ~ (refusals > 0)
      <4>1. waited = 0
        BY <1>0, <1>2, <3>2, WaitTypes, RefusedMeans
      <4>2. 0 = 0 * TicksPerSecond
        BY Constants
      <4> QED
        BY <4>1, <4>2 DEF Seconds
    <3> QED
      BY <3>1, <3>2
  <2>5. Seconds(waited + BackOff)
    BY <2>2, <2>3, <2>4, SecondsAdd
  <2>6. waited + BackOff <= 2 * Window
    <3>1. CASE phase + BackOff <= Window
      BY <2>2, <2>3, <3>1, Constants
    <3>2. CASE BackOff = TicksPerSecond
      BY <2>3, <2>4, <3>2, OneMoreSecond
    <3> QED
      BY <2>2, <3>1, <3>2
  <2> QED
    BY <2>1, <2>5, <2>6
<1>3. CASE Tick /\ refusals > 0
  BY <1>0, <1>3, TickWaiting DEF PoliteWait, Seconds
<1>4. CASE UNCHANGED vars
  BY <1>0, <1>4 DEF vars, PoliteWait, Due, Seconds
<1> QED
  BY <1>1, <1>2, <1>3, <1>4 DEF Next

(* From the second half of a window on, a client that finds nothing        *)
(* counted in it is served, whatever the previous one holds: two requests  *)
(* fit at least.                                                           *)
LEMMA ServedLate ==
  ASSUME Limit >= 2, NEW p \in Nat, p <= Limit, NEW t \in 0 .. Window - 1,
         Window <= 2 * t
  PROVE  Admits(p, 0, t)
<1> DEFINE age == Window - t
<1>1. age \in Nat /\ 2 * age <= Window
  BY Constants
<1> HIDE DEF age
<1>2. p * age <= Limit * age
  <2>1. (Limit - p) * age >= 0 /\ (Limit - p) * age = Limit * age - p * age
    BY <1>1, Constants
  <2>2. Limit * age \in Nat /\ p * age \in Nat
    BY <1>1, Constants
  <2> QED
    BY <2>1, <2>2
<1>3. 2 * (Limit * age) <= Limit * Window
  <2>1. /\ Limit * (Window - 2 * age) >= 0
        /\ Limit * (Window - 2 * age) = Limit * Window - 2 * (Limit * age)
    BY <1>1, Constants
  <2>2. Limit * age \in Nat /\ Limit * Window \in Nat
    BY <1>1, Constants
  <2> QED
    BY <2>1, <2>2
<1>4. 2 * Window <= Limit * Window
  <2>1. (Limit - 2) * Window >= 0 /\ (Limit - 2) * Window = Limit * Window - 2 * Window
    BY Constants
  <2> QED
    BY <2>1, Constants
<1>5. p * age + (0 + 1) * Window <= Limit * Window
  <2>1. (0 + 1) * Window = Window
    BY Constants
  <2>2. /\ p * age \in Nat /\ Limit * age \in Nat /\ Limit * Window \in Nat
        /\ Window \in Nat
    BY <1>1, Constants
  <2> QED
    BY <1>2, <1>3, <1>4, <2>1, <2>2
<1> QED
  BY <1>5, AdmitsMeans DEF age

LEMMA PoliteRefusalsStep ==
  ASSUME WInv, [Next]_vars
  PROVE  PoliteRefusals'
<1>0. TypeOK /\ LeftBehind /\ PoliteRefusals
  BY DEF WInv
<1>1. CASE Served \/ (Tick /\ ~ (refusals > 0))
  <2>1. ~ (refusals' > 0)
    BY <1>1 DEF Served, Tick
  <2> QED
    BY <2>1 DEF PoliteRefusals
<1>2. CASE TooManyRequests
  <2> DEFINE back == phase + BackOff
             times == OneMore(refusals)
  <2>1. SUFFICES ASSUME Limit >= 2, honours
        PROVE  /\ times <= 3
               /\ Lead <= 0 =>
                    /\ times <= 2
                    /\ Window - TicksPerSecond < back /\ back < Window + TicksPerSecond
                    /\ times = 2 => Window < back
               /\ Lead >= 1 /\ Lead <= Window =>
                    (times <= 2 /\ back < TicksPerSecond) \/ Window <= 2 * back
    BY <1>0, <1>2, RefusedMeans DEF PoliteRefusals
  <2>2. /\ Return = phase /\ times \in Nat /\ times >= 1 /\ times <= refusals + 1
        /\ Lead <= Window /\ (refusals = 0 => Lead <= 0)
    BY <1>0, <1>2, RefusedMeans
  <2>3. /\ BackOff \in Nat /\ TicksPerSecond <= BackOff
        /\ Window - TicksPerSecond < back
        /\ back <= Window \/ BackOff = TicksPerSecond
        /\ phase \in Nat /\ phase < Window /\ back \in Nat
        /\ refusals \in Nat /\ Lead \in Int
    BY <2>1, <1>0, BackOffMeans, WaitTypes, Constants
  <2>4. back < Window + TicksPerSecond /\ Window <= 2 * back
    BY <2>3, Constants
  <2>5. refusals > 0 =>
          /\ Lead <= 0 =>
               /\ Window - TicksPerSecond < phase
               /\ refusals <= 2 /\ refusals # 2
          /\ Lead >= 1 => refusals <= 2
    <3>1. ASSUME refusals > 0, Lead <= 0
          PROVE  Window - TicksPerSecond < phase /\ refusals <= 2 /\ refusals # 2
      BY <1>0, <2>1, <2>2, <2>3, <3>1, Constants DEF PoliteRefusals
    <3>2. ASSUME refusals > 0, Lead >= 1
          PROVE  refusals <= 2
      <4>1. (refusals <= 2 /\ phase < TicksPerSecond) \/ Window <= 2 * phase
        BY <1>0, <2>1, <2>2, <2>3, <3>2 DEF PoliteRefusals
      <4>2. CASE Window <= 2 * phase
        <5>1. current = 0 /\ previous \in Nat /\ previous <= Limit
              /\ phase \in 0 .. Window - 1
          BY <1>0, <3>2, WaitTypes DEF LeftBehind
        <5>2. Admits(previous, 0, phase)
          BY <2>1, <4>2, <5>1, ServedLate
        <5> QED
          BY <1>2, <5>1, <5>2 DEF TooManyRequests
      <4> QED
        BY <4>1, <4>2
    <3> QED
      BY <3>1, <3>2
  <2>6. Lead <= 0 /\ refusals > 0 => Window < back
    BY <2>3, <2>5, Constants
  <2>7. Lead <= 0 => times <= 2
    BY <2>2, <2>3, <2>5
  <2>8. Lead <= 0 /\ times = 2 => Window < back
    BY <2>2, <2>3, <2>6
  <2>9. times <= 3
    BY <2>2, <2>3, <2>5
  <2> HIDE DEF back, times
  <2> QED
    BY <2>3, <2>4, <2>7, <2>8, <2>9
<1>3. CASE Tick /\ refusals > 0
  <2>1. /\ Return \in Nat /\ Lead \in Int /\ refusals \in Nat /\ 0 < Lead + Window
        /\ TicksPerSecond \in Nat /\ Window \in Nat /\ TicksPerSecond <= Window
    BY <1>0, WaitTypes, Constants
  <2>2. refusals' = refusals /\ honours' = honours
    BY <1>3, TickWaiting
  <2>3. CASE Return' = Return /\ Lead' = Lead
    BY <1>0, <2>2, <2>3 DEF PoliteRefusals
  <2>4. CASE Return' = Return - Window /\ Lead' = Lead + Window
    <3> SUFFICES ASSUME Limit >= 2, honours
        PROVE  /\ refusals <= 3
               /\ ~ (Lead + Window <= 0)
               /\ Lead + Window >= 1 /\ Lead + Window <= Window =>
                    refusals <= 2 /\ Return - Window < TicksPerSecond
      BY <2>2, <2>4 DEF PoliteRefusals
    <3>1. ~ (Lead + Window <= 0) /\ (Lead + Window <= Window => Lead <= 0)
      BY <2>1
    <3>2. /\ refusals <= 3
          /\ Lead <= 0 => refusals <= 2 /\ Return < Window + TicksPerSecond
      BY <1>0, <1>3 DEF PoliteRefusals
    <3> QED
      BY <2>1, <3>1, <3>2
  <2> QED
    BY <1>3, <2>3, <2>4, TickWaiting
<1>4. CASE UNCHANGED vars
  BY <1>0, <1>4 DEF vars, PoliteRefusals, Return, Lead
<1> QED
  BY <1>1, <1>2, <1>3, <1>4 DEF Next

LEMMA HammeringStep ==
  ASSUME WInv, [Next]_vars
  PROVE  Hammering'
<1>0. TypeOK /\ LeftBehind /\ Hammering
  BY DEF WInv
<1> DEFINE most == Limit * TicksPerSecond
           share == Limit * Window
<1>a. /\ most \in Nat /\ share \in Nat
      /\ (Limit + 1) * Window = share + Window
      /\ TicksPerSecond <= most
  <2>1. (Limit - 1) * TicksPerSecond >= 0
        /\ (Limit - 1) * TicksPerSecond = Limit * TicksPerSecond - TicksPerSecond
    BY Constants
  <2>2. /\ Limit * TicksPerSecond \in Nat /\ Limit * Window \in Nat
        /\ (Limit + 1) * Window = Limit * Window + Window
    BY Constants
  <2> QED
    BY <2>1, <2>2, Constants
<1>1. CASE Served \/ (Tick /\ ~ (refusals > 0))
  <2>1. ~ (refusals' > 0)
    BY <1>1 DEF Served, Tick
  <2> QED
    BY <2>1 DEF Hammering
<1>2. CASE TooManyRequests
  <2> DEFINE back == phase + TicksPerSecond
  <2>1. SUFFICES ASSUME ~ honours
        PROVE  /\ Limit * (waited + TicksPerSecond) <= (share + Window) + most
               /\ Lead <= 0 => back < Window + TicksPerSecond
               /\ Lead >= 1 /\ Lead <= Window => Limit * back < Window + most
    <3>1. ~ honours => BackOff = TicksPerSecond
      BY <1>0, BackOffMeans, WaitTypes
    <3> QED
      BY <1>0, <1>2, <1>a, <3>1, RefusedMeans DEF Hammering
  <2>2. /\ phase \in Nat /\ phase < Window /\ Lead \in Int /\ waited = Lead + phase
        /\ waited \in Nat /\ Lead <= Window /\ phase \in 0 .. Window - 1
    BY <1>0, <1>2, WaitTypes, RefusedMeans, Constants
  <2>3. back < Window + TicksPerSecond
    BY <2>2, Constants
  <2>4. /\ Limit * back = Limit * phase + most
        /\ Limit * (waited + TicksPerSecond) = Limit * Lead + Limit * phase + most
    <3>1. waited + TicksPerSecond = Lead + back
      BY <2>2, Constants
    <3>2. Limit * (Lead + back) = Limit * Lead + Limit * back
      BY <2>2, Constants
    <3>3. Limit * back = Limit * phase + most
      BY <2>2, Constants
    <3> QED
      BY <2>2, <3>1, <3>2, <3>3, Constants
  <2>5. Limit * phase < share
    <3>1. Limit * (Window - phase) > 0
          /\ Limit * (Window - phase) = share - Limit * phase
      BY <2>2, Constants
    <3> QED
      BY <2>2, <3>1, Constants
  <2>6. /\ Limit * phase \in Nat /\ Limit * Lead \in Int
        /\ Limit * Lead <= share
        /\ Lead <= 0 => Limit * Lead <= 0
    <3>1. Limit * (Window - Lead) >= 0 /\ Limit * (Window - Lead) = share - Limit * Lead
      BY <2>2, Constants
    <3>2. Lead <= 0 => Limit * Lead <= 0
      BY <2>2, Constants
    <3> QED
      BY <2>2, <3>1, <3>2, Constants
  <2>7. Lead >= 1 => Limit * phase < Window
    <3> SUFFICES ASSUME Lead >= 1 PROVE Limit * phase < Window
      OBVIOUS
    <3>1. current = 0 /\ previous \in Nat /\ previous <= Limit
          /\ ~ Admits(previous, current, phase)
      BY <1>0, <1>2, WaitTypes DEF LeftBehind, TooManyRequests
    <3> DEFINE age == Window - phase
    <3>2. age \in Nat /\ phase = Window - age
      BY <2>2, Constants
    <3>3. ~ (previous * age + (0 + 1) * Window <= share)
      BY <2>2, <3>1, AdmitsMeans
    <3> HIDE DEF age
    <3>4. (Limit - previous) * age >= 0
          /\ (Limit - previous) * age = Limit * age - previous * age
      BY <3>1, <3>2, Constants
    <3>5. Limit * phase = share - Limit * age
      BY <3>2, Constants
    <3>6. (0 + 1) * Window = Window
      BY Constants
    <3>7. Limit * age \in Nat /\ previous * age \in Nat
      BY <3>1, <3>2, Constants
    <3> HIDE DEF share
    <3> QED
      BY <1>a, <2>6, <3>3, <3>4, <3>5, <3>6, <3>7, Constants
  <2> HIDE DEF most, share, back
  <2>8. Limit * (waited + TicksPerSecond) <= (share + Window) + most
    <3>1. CASE Lead <= 0
      BY <1>a, <2>4, <2>5, <2>6, <3>1, Constants
    <3>2. CASE Lead >= 1
      BY <1>a, <2>4, <2>6, <2>7, <3>2, Constants
    <3> QED
      BY <2>2, <3>1, <3>2
  <2>9. Lead >= 1 => Limit * back < Window + most
    BY <1>a, <2>4, <2>6, <2>7, Constants
  <2> QED
    BY <2>3, <2>8, <2>9
<1>3. CASE Tick /\ refusals > 0
  <2>1. /\ Return \in Nat /\ Lead \in Int /\ 0 < Lead + Window
    BY <1>0, WaitTypes
  <2>2. refusals' = refusals /\ honours' = honours /\ Due' = Due
    BY <1>3, TickWaiting
  <2>3. CASE Return' = Return /\ Lead' = Lead
    BY <1>0, <2>2, <2>3 DEF Hammering
  <2>4. CASE Return' = Return - Window /\ Lead' = Lead + Window
    <3> SUFFICES ASSUME ~ honours
        PROVE  /\ Limit * Due <= (Limit + 1) * Window + Limit * TicksPerSecond
               /\ ~ (Lead + Window <= 0)
               /\ Lead + Window >= 1 /\ Lead + Window <= Window =>
                    Limit * (Return - Window) < Window + Limit * TicksPerSecond
      BY <2>2, <2>4 DEF Hammering
    <3>1. /\ Limit * Due <= (Limit + 1) * Window + Limit * TicksPerSecond
          /\ Lead <= 0 => Return < Window + TicksPerSecond
      BY <1>0, <1>3 DEF Hammering
    <3>2. ~ (Lead + Window <= 0) /\ (Lead + Window <= Window => Lead <= 0)
      BY <2>1, Constants
    <3>3. ASSUME Return < Window + TicksPerSecond
          PROVE  Limit * (Return - Window) < Window + Limit * TicksPerSecond
      <4>1. /\ Limit * (TicksPerSecond - (Return - Window)) > 0
            /\ Limit * (TicksPerSecond - (Return - Window))
                 = Limit * TicksPerSecond - Limit * (Return - Window)
        BY <2>1, <3>3, Constants
      <4>2. Limit * (Return - Window) \in Int
        BY <2>1, Constants
      <4> QED
        BY <1>a, <4>1, <4>2, Constants
    <3> QED
      BY <3>1, <3>2, <3>3
  <2> QED
    BY <1>3, <2>3, <2>4, TickWaiting
<1>4. CASE UNCHANGED vars
  BY <1>0, <1>4 DEF vars, Hammering, Due, Return, Lead
<1> QED
  BY <1>1, <1>2, <1>3, <1>4 DEF Next

LEMMA WInvInit == Init => WInv
<1> SUFFICES ASSUME Init PROVE WInv
  OBVIOUS
<1>1. TypeOK
  BY TypeInit
<1>2. refusals = 0 /\ waited = 0 /\ ~ (refusals > 0)
  BY DEF Init
<1>3. ~ (Lead >= 1) /\ ~ (Lead > Window)
  BY <1>1, <1>2, WaitTypes, Constants
<1> QED
  BY <1>1, <1>2, <1>3 DEF WInv, LeftBehind, PoliteWait, PoliteRefusals, Hammering

LEMMA WInvStep == WInv /\ [Next]_vars => WInv'
BY TypeStep, LeftBehindStep, PoliteWaitStep, PoliteRefusalsStep, HammeringStep DEF WInv

LEMMA WInvInvariant == Spec => []WInv
BY WInvInit, WInvStep, PTL DEF Spec

(* A client that honours Retry-After is served at the latest as the second *)
(* window after its first refusal begins.                                  *)
THEOREM PoliteWaitIsBounded == Spec => []WaitBounded
<1>1. WInv => WaitBounded
  <2> SUFFICES ASSUME WInv, honours PROVE waited <= 2 * Window
    BY DEF WaitBounded
  <2>1. TypeOK /\ LeftBehind /\ PoliteWait
    BY DEF WInv
  <2>2. CASE refusals > 0
    BY <2>1, <2>2, WaitTypes, Constants DEF PoliteWait, Due
  <2>3. CASE ~ (refusals > 0)
    BY <2>1, <2>3, WaitTypes, Constants DEF LeftBehind
  <2> QED
    BY <2>2, <2>3
<1> QED
  BY <1>1, WInvInvariant, PTL

(* ... and is refused three times at most on the way, under any limit that *)
(* lets two requests into a window.                                        *)
THEOREM PoliteRefusalsAreBounded ==
  ASSUME Limit >= 2
  PROVE  Spec => []RefusalsBounded
<1>1. WInv => RefusalsBounded
  <2> SUFFICES ASSUME WInv, honours PROVE refusals <= 3
    BY DEF RefusalsBounded
  <2>1. TypeOK /\ PoliteRefusals
    BY DEF WInv
  <2>2. CASE refusals > 0
    BY <2>1, <2>2 DEF PoliteRefusals
  <2>3. CASE ~ (refusals > 0)
    BY <2>1, <2>3, WaitTypes
  <2> QED
    BY <2>2, <2>3
<1> QED
  BY <1>1, WInvInvariant, PTL

(* A client that ignores Retry-After and retries every second waits for a  *)
(* window, the share of one request in another, and a second.              *)
THEOREM HammeringIsBounded == Spec => []HammeringWaitBounded
<1>1. WInv => HammeringWaitBounded
  <2> SUFFICES ASSUME WInv, ~ honours
               PROVE  waited * Limit <= (Limit + 1) * Window + Limit * TicksPerSecond
    BY DEF HammeringWaitBounded
  <2>1. TypeOK /\ LeftBehind /\ Hammering
    BY DEF WInv
  <2>2. waited \in Nat /\ Due \in Nat /\ waited <= Due
    BY <2>1, WaitTypes DEF Due
  <2>3. /\ waited * Limit = Limit * waited /\ Limit * waited \in Nat
        /\ Limit * Due \in Nat
    BY <2>2, Constants
  <2>4. CASE refusals > 0
    <3>1. Limit * Due <= (Limit + 1) * Window + Limit * TicksPerSecond
      BY <2>1, <2>4 DEF Hammering
    <3>2. Limit * (Due - waited) >= 0
          /\ Limit * (Due - waited) = Limit * Due - Limit * waited
      BY <2>2, Constants
    <3>3. (Limit + 1) * Window + Limit * TicksPerSecond \in Nat
      BY Constants
    <3> QED
      BY <2>3, <3>1, <3>2, <3>3
  <2>5. CASE ~ (refusals > 0)
    <3>1. waited = 0
      BY <2>1, <2>5, WaitTypes DEF LeftBehind
    <3>2. 0 * Limit = 0 /\ (Limit + 1) * Window + Limit * TicksPerSecond \in Nat
      BY Constants
    <3> QED
      BY <3>1, <3>2
  <2> QED
    BY <2>4, <2>5
<1> QED
  BY <1>1, WInvInvariant, PTL

=============================================================================
