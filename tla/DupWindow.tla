----------------------------- MODULE DupWindow -----------------------------
(***************************************************************************)
(* The duplicate filter of olsrd as a pure function: what one call of      *)
(* olsr_is_duplicate_message() (src/src/duplicate_set.c) answers for an    *)
(* entry and a sequence number, and what it leaves in the entry.           *)
(*                                                                         *)
(* The 32-bit bitmap of an entry is the set of its set bit positions: bit  *)
(* i stands for the sequence number i behind the newest one, seqnr.        *)
(***************************************************************************)
EXTENDS Integers

CONSTANTS HalfSpace,    \* half of the sequence number space, 2^15 in the code
          WindowBits,   \* width of the bitmap, 32 in the code
          TooLowMax     \* "much too old" answers in a row before a reset, 16

ASSUME WindowAssumption ==
  /\ HalfSpace \in Nat \ {0}
  /\ WindowBits \in Nat \ {0}
  /\ TooLowMax \in Nat
  /\ 2 * WindowBits <= HalfSpace

SeqSpace == 2 * HalfSpace
SeqNo == 0 .. SeqSpace - 1
Bits == 0 .. WindowBits - 1

Status == {"NEW_OLSR_MESSAGE", "OLD_OLSR_MESSAGE", "DUPLICATE_OLSR_MESSAGE",
           "TOO_OLD_OLSR_MESSAGE", "RESET_SEQNO_OLSR_MESSAGE"}

DupEntry == [seqnr : SeqNo, array : SUBSET Bits, too_low_counter : 0 .. TooLowMax]

\* The signed distance from other to reference on the circle of sequence numbers.
olsr_seqno_diff(reference, other) ==
  LET diff == reference - other
  IN  IF diff >= HalfSpace THEN diff - SeqSpace
      ELSE IF diff < -HalfSpace THEN diff + SeqSpace
      ELSE diff

\* array <<= diff: the bits that leave the word are lost.
ShiftLeft(array, diff) == {i \in Bits : i - diff \in array}

\* A fresh entry: its bitmap is empty, the bit of the creating message included.
olsr_create_duplicate_entry(seqno) ==
  [seqnr |-> seqno, array |-> {}, too_low_counter |-> 0]

\* Mutant: the counter is compared before it is incremented.
MuchTooOldLate(entry, seqno) ==
  IF entry.too_low_counter > TooLowMax
  THEN [status |-> "RESET_SEQNO_OLSR_MESSAGE",
        entry  |-> [seqnr |-> seqno, array |-> {0}, too_low_counter |-> 0]]
  ELSE [status |-> "TOO_OLD_OLSR_MESSAGE",
        entry  |-> [entry EXCEPT !.too_low_counter = @ + 1]]

\* Mutant: a reset clears the bitmap (array = 0), the bit of the new number included.
MuchTooOldClears(entry, seqno) ==
  IF entry.too_low_counter + 1 > TooLowMax
  THEN [status |-> "RESET_SEQNO_OLSR_MESSAGE",
        entry  |-> [seqnr |-> seqno, array |-> {}, too_low_counter |-> 0]]
  ELSE [status |-> "TOO_OLD_OLSR_MESSAGE",
        entry  |-> [entry EXCEPT !.too_low_counter = @ + 1]]

\* The answer to a sequence number more than a window behind the newest one.
MuchTooOld(entry, seqno) ==
  IF entry.too_low_counter + 1 > TooLowMax
  THEN [status |-> "RESET_SEQNO_OLSR_MESSAGE",
        entry  |-> [seqnr |-> seqno, array |-> {0}, too_low_counter |-> 0]]
  ELSE [status |-> "TOO_OLD_OLSR_MESSAGE",
        entry  |-> [entry EXCEPT !.too_low_counter = @ + 1]]

\* The answer to a sequence number inside the window: bit is its position.
InWindow(entry, bit) ==
  [status |-> IF bit \in entry.array THEN "DUPLICATE_OLSR_MESSAGE" ELSE "OLD_OLSR_MESSAGE",
   entry  |-> [entry EXCEPT !.array = @ \cup {bit}, !.too_low_counter = 0]]

\* Mutant: the bitmap is cleared whenever the window moves.
NewestForgets(entry, seqno, diff) ==
  [status |-> "NEW_OLSR_MESSAGE",
   entry  |-> [seqnr |-> seqno, array |-> {0}, too_low_counter |-> 0]]

\* The answer to a sequence number newer than every one seen: the window moves.
Newest(entry, seqno, diff) ==
  [status |-> "NEW_OLSR_MESSAGE",
   entry  |-> [seqnr |-> seqno,
               array |-> {0} \cup (IF diff < WindowBits THEN ShiftLeft(entry.array, diff) ELSE {}),
               too_low_counter |-> 0]]

\* Mutant: the difference does not wrap around.
CheckEntryNoWrap(entry, seqno) ==
  LET diff == seqno - entry.seqnr
  IN  IF diff < -(WindowBits - 1) THEN MuchTooOld(entry, seqno)
      ELSE IF diff <= 0 THEN InWindow(entry, -diff)
      ELSE Newest(entry, seqno, diff)

\* The answer for an entry that exists.
CheckEntry(entry, seqno) ==
  LET diff == olsr_seqno_diff(seqno, entry.seqnr)
  IN  IF diff < -(WindowBits - 1) THEN MuchTooOld(entry, seqno)
      ELSE IF diff <= 0 THEN InWindow(entry, -diff)
      ELSE Newest(entry, seqno, diff)

\* olsr_is_duplicate_message() returns false: the message is to be handled.
Accepted(status) ==
  status \in {"NEW_OLSR_MESSAGE", "OLD_OLSR_MESSAGE", "RESET_SEQNO_OLSR_MESSAGE"}
=============================================================================
