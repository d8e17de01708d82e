------------------------------ MODULE TcBorder ------------------------------
(***************************************************************************)
(* The border flags of fragmented TC messages (src/src/tc_set.c).  A TC    *)
(* that does not fit into a packet is sent in fragments; each carries two  *)
(* flags from which the receiver computes the range of addresses the       *)
(* fragment speaks for, and in which it may drop what is not mentioned.    *)
(*                                                                         *)
(* An address is a number of Bits bits; the code works on the bytes of it, *)
(* from the most significant one.                                          *)
(***************************************************************************)
EXTENDS Integers, FiniteSets

CONSTANTS Bits,          \* 8 * ipsize
          MaxEdges       \* edges that fit into one message

ASSUME BorderAssumption == Bits \in 1 .. 254 /\ MaxEdges \in Nat \ {0}

Address == 0 .. 2^Bits - 1
Open == 255              \* the flag 0xff: nothing lies beyond

\* Mutant: the lowest bit in which the two addresses differ.
calculate_border_flag_low(lower, higher) ==
  1 + CHOOSE p \in 0 .. Bits - 1 :
        /\ (lower \div 2^p) % 2 # (higher \div 2^p) % 2
        /\ lower % 2^p = higher % 2^p

\* One more than the highest bit in which two different addresses differ.
calculate_border_flag(lower, higher) ==
  1 + CHOOSE p \in 0 .. Bits - 1 :
        /\ lower \div 2^p # higher \div 2^p
        /\ lower \div 2^(p + 1) = higher \div 2^(p + 1)

\* Mutant: the bits below the flag's are kept.
BorderIpKeeps(flag, ip) == LET p == flag - 1 IN IF (ip \div 2^p) % 2 = 1 THEN ip ELSE ip + 2^p

\* The bits below the flag's are cleared, the flag's bit is set.
BorderIp(flag, ip) == LET p == flag - 1 IN 2^(p + 1) * (ip \div 2^(p + 1)) + 2^p

\* olsr_calculate_tc_border(), from the first and the last address of a fragment.
LowerBorder(flag, ip) == IF flag = Open THEN 0 ELSE BorderIp(flag, ip)
UpperBorder(flag, ip) == IF flag = Open THEN 2^Bits - 1 ELSE BorderIp(flag, ip)
-----------------------------------------------------------------------------
\* The k-th address of a set, and the one that follows an address.
Nth(ips, k) == CHOOSE a \in ips : Cardinality({b \in ips : b < a}) = k - 1
Following(ips, ip) == CHOOSE a \in ips : ip < a /\ \A b \in ips : ip < b => a <= b

\* olsr_output_lq_tc_internal(): after each MaxEdges advertised neighbors, the next
\* neighbor of the table, advertised or not, starts a new fragment.
Splits(nbrs, adv, f) ==
  Cardinality(adv) >= f * MaxEdges /\ \E a \in nbrs : Nth(adv, f * MaxEdges) < a

SplitFlag(nbrs, adv, f) ==
  LET prevNbr == Nth(adv, f * MaxEdges)
  IN  calculate_border_flag(prevNbr, Following(nbrs, prevNbr))

\* The f-th fragment, from 0, of a node's TC.
Fragment(nbrs, adv, f) ==
  [edges |-> {a \in adv : Cardinality({b \in adv : b < a}) \div MaxEdges = f},
   lower |-> IF f = 0 THEN Open ELSE SplitFlag(nbrs, adv, f),
   upper |-> IF Splits(nbrs, adv, f + 1) THEN SplitFlag(nbrs, adv, f + 1) ELSE Open]

olsr_output_lq_tc(nbrs, adv) ==
  [f \in {g \in 0 .. Cardinality(adv) : g = 0 \/ Splits(nbrs, adv, g)} |->
     Fragment(nbrs, adv, f)]

\* The addresses a fragment with edges speaks for, as its receiver computes them.
Claims(m) ==
  LET first == Nth(m.edges, 1)
      last == Nth(m.edges, Cardinality(m.edges))
  IN  {a \in Address : LowerBorder(m.lower, first) <= a /\ a < UpperBorder(m.upper, last)}
=============================================================================
