---------------------------- MODULE MCArithmetic ----------------------------
(* Instances of OlsrClock, Vtime and TcBorder for TLC.  The clock: a second of 12
   microseconds, a clock word that overflows after 32 milliseconds, eight seconds of
   wall time.  The time code, with its own constants: every interval up to 2.5 seconds
   and around every value that a code stands for, up to past the longest one.  The
   border flags: every table of at most MaxNbrs neighbors with addresses of four bits,
   of which a part is advertised.  The three do not share state: a behavior is one of
   the clock, one of an interval, or one of a neighbor table. *)
EXTENDS OlsrClock, Vtime, TcBorder

CONSTANT MaxNbrs

VARIABLES nbrs,          \* a neighbor table
          adv            \* the neighbors advertised in TC messages

MCWallTimes == 0 .. 95

MCIntervals ==
  0 .. 2500
    \cup UNION {LET v == olsr_clock_decode_olsrv1(me)
                IN  {v - 1, v, v + 1, v + v \div 64, v + v \div 32} : me \in Code}
    \cup {62 * 2^16 - 1, 8000000, 2000000000}

MCInit ==
  \/ Init /\ interval = 0 /\ nbrs = {} /\ adv = {}
  \/ olsr_clock_init(0) /\ interval \in Intervals /\ nbrs = {} /\ adv = {}
  \/ /\ olsr_clock_init(0) /\ interval = 0
     /\ nbrs \in {s \in SUBSET (1 .. 2^Bits - 2) : Cardinality(s) <= MaxNbrs}
     /\ adv \in SUBSET nbrs

MCNext ==
  \/ interval = 0 /\ nbrs = {} /\ Next /\ UNCHANGED <<interval, nbrs, adv>>
  \/ Transmit /\ UNCHANGED <<vars, nbrs, adv>>

MCSpec == MCInit /\ [][MCNext]_<<vars, interval, nbrs, adv>>
-----------------------------------------------------------------------------
Tcs == olsr_output_lq_tc(nbrs, adv)
Speaking == {f \in DOMAIN Tcs : Tcs[f].edges # {}}

(* Every advertised neighbor is in one fragment, and the range a receiver computes for a
   fragment holds no edge of another one: whatever the order in which fragments arrive,
   none revokes what another announces. *)
BordersSeparate ==
  /\ adv = UNION {Tcs[f].edges : f \in DOMAIN Tcs}
  /\ \A f \in Speaking, g \in DOMAIN Tcs :
       f # g => Tcs[g].edges \cap (Tcs[f].edges \cup Claims(Tcs[f])) = {}

(* When every neighbor is advertised, the ranges of the fragments leave no gap: an edge
   that is withdrawn lies in one of them. *)
BordersCover ==
  adv = nbrs /\ adv # {} => 1 .. 2^Bits - 2 \subseteq UNION {Claims(Tcs[f]) : f \in Speaking}
=============================================================================
