----------------------------- MODULE OlsrClock -----------------------------
(***************************************************************************)
(* The internal clock of olsrd (src/src/olsr_clock.c).  It counts          *)
(* milliseconds since startup in an unsigned word, from a wall clock that  *)
(* the operator or NTP may set forwards and backwards.                     *)
(*                                                                         *)
(* A struct timeval is one integer, its value in microseconds; the code    *)
(* keeps tv_usec normalised, so Sec and Usec recover its fields.           *)
(***************************************************************************)
EXTENDS Integers

CONSTANTS HalfWord,      \* 2^31 in the code: half of the uint32_t range
          MsPerSec,      \* MSEC_PER_SEC, 1000
          UsecPerMs,     \* USEC_PER_MSEC, 1000
          MaxGap,        \* seconds the wall clock may advance at once, 60
          WallTimes      \* values of gettimeofday() (a bound of the model)

ASSUME ClockAssumption ==
  /\ HalfWord \in Nat \ {0} /\ MsPerSec \in Nat \ {0} /\ UsecPerMs \in Nat \ {0}
  /\ MaxGap \in Nat /\ WallTimes \subseteq Nat
  /\ (MaxGap + 1) * MsPerSec < HalfWord

VARIABLES first_tv,      \* the wall time that stands for clock 0
          last_tv,       \* the wall time of the last update
          now_times      \* the clock

vars == <<first_tv, last_tv, now_times>>

Word == 2 * HalfWord
U32 == 0 .. Word - 1

UsecPerSec == MsPerSec * UsecPerMs
Sec(tv) == tv \div UsecPerSec
Usec(tv) == tv % UsecPerSec

\* Integer division of C, which truncates towards zero.
Truncate(x, d) == IF x >= 0 THEN x \div d ELSE -((-x) \div d)

\* (a.tv_sec - b.tv_sec) * 1000 + (a.tv_usec - b.tv_usec) / 1000
Millis(a, b) == (Sec(a) - Sec(b)) * MsPerSec + Truncate(Usec(a) - Usec(b), UsecPerMs)

\* Mutant: only forward jumps are noticed.
TimeJumpForward(tv) == Sec(tv) - Sec(last_tv) > MaxGap

\* Time went backwards, or forwards by more than MaxGap seconds.
TimeJump(tv) == tv < last_tv \/ Sec(tv) - Sec(last_tv) > MaxGap

olsr_clock_init(tv) ==
  /\ first_tv = tv
  /\ last_tv = tv
  /\ now_times = Millis(tv, tv) % Word

\* Mutant: the base of the clock is moved by the jump without the elapsed time.
RebaseForgets(tv) == tv

\* The base that makes the clock read one millisecond more than it did.
Rebase(tv) ==
  LET t == (Millis(last_tv, first_tv) + 1) % Word
  IN  tv - (t \div MsPerSec) * UsecPerSec - (t % MsPerSec) * UsecPerMs

olsr_clock_update(tv) ==
  /\ first_tv' = IF TimeJump(tv) THEN Rebase(tv) ELSE first_tv
  /\ last_tv' = tv
  /\ now_times' = Millis(tv, first_tv') % Word

Init == \E tv \in WallTimes : olsr_clock_init(tv)
Next == \E tv \in WallTimes : olsr_clock_update(tv)
Spec == Init /\ [][Next]_vars
-----------------------------------------------------------------------------
\* Mutant: a comparison that does not know about the overflow of the clock.
IsPastPlain(absolute) == absolute <= now_times

olsr_clock_isPast(absolute) ==
  IF absolute > now_times THEN absolute - now_times > HalfWord
  ELSE now_times - absolute <= HalfWord
-----------------------------------------------------------------------------
(* Every variable has its type. *)
TypeOK ==
  /\ first_tv \in Int
  /\ last_tv \in WallTimes
  /\ now_times \in U32

(* Whatever is done to the wall clock, an update never moves the clock back, and
   moves it forward by at most MaxGap + 1 seconds: timers cannot fire in bursts or
   be put off because somebody set the time (main.c: "to avoid any undesired side
   effects if the system clock changes"). *)
ClockAdvances == [][(now_times' - now_times) % Word \in 0 .. (MaxGap + 1) * MsPerSec]_vars

(* Between two jumps the clock follows the wall clock to less than a millisecond,
   although it subtracts and rounds seconds and microseconds separately. *)
ClockAccurate ==
  LET elapsed == last_tv - first_tv
  IN  /\ elapsed >= 0
      /\ \E ms \in {elapsed \div UsecPerMs, (elapsed + UsecPerMs - 1) \div UsecPerMs} :
           now_times = ms % Word

(* A timestamp less than half a word away is past exactly when its time has come,
   at every reading of the clock, also across its overflow. *)
IsPastExact ==
  \A d \in 1 - HalfWord .. HalfWord - 1 :
    olsr_clock_isPast((now_times + d) % Word) <=> d <= 0

=============================================================================
