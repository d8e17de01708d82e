---------------------------- MODULE DuplicateSet ----------------------------
(***************************************************************************)
(* The duplicate set of olsrd (src/src/duplicate_set.c): one entry per     *)
(* originator in each of the two trees, forward_set and processing_set.    *)
(* A key is one (tree, originator) pair.  Messages arrive with any         *)
(* sequence number in any order: the network loses, repeats and reorders   *)
(* them, and an originator may restart with any number.                    *)
(*                                                                         *)
(* got and pending are history variables; the code does not have them.     *)
(* A lifetime of an entry starts when it is created or reset.              *)
(***************************************************************************)
EXTENDS DupWindow

CONSTANTS Keys,      \* the (tree, originator) pairs
          NoEntry,   \* avl_find() returns NULL
          NoSeqNo    \* no sequence number

ASSUME MarkerAssumption == NoEntry \notin DupEntry /\ NoEntry \notin Keys /\ NoSeqNo \notin SeqNo

VARIABLES dup,       \* the entry of each key, or NoEntry
          last,      \* the last call of olsr_is_duplicate_message() and its answer
          got,       \* numbers accepted in this lifetime, less than a window old
          pending    \* the number that created the entry, while its bit is not set

vars == <<dup, last, got, pending>>

NoCall == [key |-> NoEntry, seqno |-> NoSeqNo, status |-> NoSeqNo]
Calls == [key : Keys, seqno : SeqNo, status : Status]

Init ==
  /\ dup = [k \in Keys |-> NoEntry]
  /\ last = NoCall
  /\ got = [k \in Keys |-> {}]
  /\ pending = [k \in Keys |-> NoSeqNo]

\* What is still inside the window whose newest number is top.
StillInWindow(numbers, top) == {x \in numbers : olsr_seqno_diff(top, x) \in Bits}

\* No entry for the originator yet: create one and start its timer.
FirstMessage(k, s) ==
  /\ dup[k] = NoEntry
  /\ dup' = [dup EXCEPT ![k] = olsr_create_duplicate_entry(s)]
  /\ last' = [key |-> k, seqno |-> s, status |-> "NEW_OLSR_MESSAGE"]
  /\ got' = [got EXCEPT ![k] = {s}]
  /\ pending' = [pending EXCEPT ![k] = s]

\* The history of key k after the filter answered status to number s.
Remember(k, s, status) ==
  /\ got' = [got EXCEPT ![k] =
               IF status = "RESET_SEQNO_OLSR_MESSAGE" THEN {s}
               ELSE IF status = "NEW_OLSR_MESSAGE" THEN StillInWindow(@, s) \cup {s}
               ELSE IF status = "OLD_OLSR_MESSAGE" THEN @ \cup {s}
               ELSE @]
  /\ pending' = [pending EXCEPT ![k] =
               IF status = "RESET_SEQNO_OLSR_MESSAGE" \/ (s = @ /\ Accepted(status))
               THEN NoSeqNo ELSE @]

\* There is an entry: refresh its timer and compare with its window.
NextMessage(k, s) ==
  /\ dup[k] # NoEntry
  /\ LET answer == CheckEntry(dup[k], s)
     IN  /\ dup' = [dup EXCEPT ![k] = answer.entry]
         /\ last' = [key |-> k, seqno |-> s, status |-> answer.status]
         /\ Remember(k, s, answer.status)

olsr_is_duplicate_message(k, s) == FirstMessage(k, s) \/ NextMessage(k, s)

\* The entry's timer fires: no message of the originator came for its interval.
olsr_expire_duplicate_entry(k) ==
  /\ dup[k] # NoEntry
  /\ dup' = [dup EXCEPT ![k] = NoEntry]
  /\ last' = NoCall
  /\ got' = [got EXCEPT ![k] = {}]
  /\ pending' = [pending EXCEPT ![k] = NoSeqNo]

\* Shutdown of the daemon (which may be started again).
olsr_flush_duplicate_entries ==
  /\ \E k \in Keys : dup[k] # NoEntry
  /\ dup' = [k \in Keys |-> NoEntry]
  /\ last' = NoCall
  /\ got' = [k \in Keys |-> {}]
  /\ pending' = [k \in Keys |-> NoSeqNo]

Next ==
  \/ \E k \in Keys, s \in SeqNo : olsr_is_duplicate_message(k, s)
  \/ \E k \in Keys : olsr_expire_duplicate_entry(k)
  \/ olsr_flush_duplicate_entries

Spec == Init /\ [][Next]_vars
-----------------------------------------------------------------------------
(* Every variable has its type. *)
TypeOK ==
  /\ dup \in [Keys -> DupEntry \cup {NoEntry}]
  /\ last \in Calls \cup {NoCall}
  /\ got \in [Keys -> SUBSET SeqNo]
  /\ pending \in [Keys -> SeqNo \cup {NoSeqNo}]

(* The bitmap of an entry is exact: its set bits are the numbers accepted in this
   lifetime that are still inside the window, and no others, except that the
   number that created the entry has no bit (olsr_create_duplicate_entry() starts
   with array = 0) until it is received again. *)
BitmapExact ==
  \A k \in Keys : dup[k] # NoEntry =>
    \A x \in SeqNo :
      olsr_seqno_diff(dup[k].seqnr, x) \in dup[k].array
        <=> x \in got[k] /\ x # pending[k]

(* olsr_is_duplicate_message() lets a number through a second time only when the
   number created the entry, or when the call resets the window after too many
   numbers that were much too old. *)
NoReplay ==
  [][\A k \in Keys :
       last'.key = k /\ last'.status \in {"NEW_OLSR_MESSAGE", "OLD_OLSR_MESSAGE"}
         => last'.seqno \notin got[k] \/ last'.seqno = pending[k]]_vars

(* The history holds only numbers the window still covers, and a key without an
   entry has no history: the filter never forgets a number it still covers. *)
HistoryInWindow ==
  \A k \in Keys :
    IF dup[k] = NoEntry THEN got[k] = {}
    ELSE \A x \in got[k] : olsr_seqno_diff(dup[k].seqnr, x) \in Bits

(* The newest number of an entry never moves backwards on the circle, except by a
   reset: an old or repeated message cannot make the filter forget newer ones. *)
NewestNeverBack ==
  [][\A k \in Keys :
       dup[k] # NoEntry /\ dup'[k] # NoEntry /\ last'.status # "RESET_SEQNO_OLSR_MESSAGE"
         => olsr_seqno_diff(dup'[k].seqnr, dup[k].seqnr) \in 0 .. HalfSpace - 1]_vars
=============================================================================
