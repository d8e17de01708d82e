------------------------------- MODULE Vtime -------------------------------
(***************************************************************************)
(* The one-byte mantissa/exponent code in which OLSR messages carry their  *)
(* validity times and intervals (olsr_clock_encode_olsrv1() and            *)
(* olsr_clock_decode_olsrv1() in src/src/olsr_clock.c), with the code's    *)
(* own constants.  The state is a time that is sent and received again     *)
(* and again: what a node decodes is what it configures its timers with.   *)
(***************************************************************************)
EXTENDS Integers

CONSTANT Intervals       \* times in milliseconds (a bound of the model)

ASSUME IntervalAssumption == Intervals \subseteq Nat

VARIABLE interval        \* the time a node works with

Code == 0 .. 255

\* How often interval must be halved to fall below 62.
Halvings(i) == CHOOSE n \in 0 .. 32 :
                 /\ i \div 2^n < 62
                 /\ \A k \in 0 .. n - 1 : i \div 2^k >= 62

\* Mutant: the mantissa is taken from a shift that is one too small.
EncodeShift(i) ==
  LET n == Halvings(i)
  IN  IF n = 0 THEN 0
      ELSE IF n - 1 > 15 THEN 15 * 16 + 15
      ELSE (((i \div 2^n) - 31) * 16 + (n - 1)) % 256

\* (a << 4) + b with b = n - 1 and a = (interval >> (b + 2)) - 15.
olsr_clock_encode_olsrv1(i) ==
  LET n == Halvings(i)
  IN  IF n = 0 THEN 0
      ELSE IF n - 1 > 15 THEN 15 * 16 + 15
      ELSE ((i \div 2^(n + 1)) - 15) * 16 + (n - 1)

olsr_clock_decode_olsrv1(me) ==
  LET a == me \div 16
      b == me % 16
  IN  IF b >= 8 THEN (16 + a) * 2^(b - 8) * 1000
      ELSE ((16 + a) * 1000) \div 2^(8 - b)

Shortest == olsr_clock_decode_olsrv1(0)
Longest == olsr_clock_decode_olsrv1(255)

\* A message leaves one node with the time and reaches another.
Transmit == interval' = olsr_clock_decode_olsrv1(olsr_clock_encode_olsrv1(interval))
-----------------------------------------------------------------------------
(* Every time has a one-byte code, and a time is decoded to one that differs by at
   most one part in 16, within the range the code has. *)
CodeClose ==
  /\ olsr_clock_encode_olsrv1(interval) \in Code
  /\ LET back == olsr_clock_decode_olsrv1(olsr_clock_encode_olsrv1(interval))
     IN  /\ interval <= Shortest => back = Shortest
         /\ interval >= Longest => back = Longest
         /\ interval \in Shortest .. Longest =>
              16 * back \in 15 * interval .. 17 * interval

=============================================================================
