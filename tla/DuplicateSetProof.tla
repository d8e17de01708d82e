------------------------- MODULE DuplicateSetProof -------------------------
(***************************************************************************)
(* Proofs about the duplicate set for every size of the sequence number    *)
(* space, of the window and of the reset threshold, and any set of         *)
(* originators.  The inductive invariant is TypeOK, HistoryInWindow and    *)
(* BitmapExact together: BitmapExact alone does not say that a number      *)
(* that leaves the window also leaves the history.                         *)
(***************************************************************************)
EXTENDS DuplicateSet, TLAPS

IInv == TypeOK /\ HistoryInWindow /\ BitmapExact

(* The distance of two numbers lies in the signed half circle; it is zero only for
   equal numbers. *)
LEMMA DiffRange ==
  ASSUME NEW a \in SeqNo, NEW b \in SeqNo
  PROVE  /\ olsr_seqno_diff(a, b) \in -HalfSpace .. HalfSpace - 1
         /\ olsr_seqno_diff(a, b) = 0 <=> a = b
  BY WindowAssumption DEF SeqNo, SeqSpace, olsr_seqno_diff

(* Unless two numbers are exactly half a circle apart, swapping them negates the
   distance. *)
LEMMA DiffNegates ==
  ASSUME NEW a \in SeqNo, NEW b \in SeqNo, olsr_seqno_diff(a, b) # -HalfSpace
  PROVE  olsr_seqno_diff(b, a) = -olsr_seqno_diff(a, b)
  BY WindowAssumption DEF SeqNo, SeqSpace, olsr_seqno_diff

(* Numbers at the same distance of a third are equal: a bit stands for one number. *)
LEMMA DiffInjective ==
  ASSUME NEW a \in SeqNo, NEW x \in SeqNo, NEW y \in SeqNo,
         olsr_seqno_diff(a, x) = olsr_seqno_diff(a, y)
  PROVE  x = y
  BY WindowAssumption DEF SeqNo, SeqSpace, olsr_seqno_diff

(* Moving the newest number from top to s by less than a window moves every number
   the new window covers by as many bits: the shift of the bitmap is exact. *)
LEMMA DiffShift ==
  ASSUME NEW top \in SeqNo, NEW s \in SeqNo, NEW x \in SeqNo,
         olsr_seqno_diff(s, top) > 0, olsr_seqno_diff(s, top) < WindowBits,
         olsr_seqno_diff(s, x) \in Bits
  PROVE  olsr_seqno_diff(top, x) = olsr_seqno_diff(s, x) - olsr_seqno_diff(s, top)
  BY WindowAssumption DEF SeqNo, SeqSpace, Bits, olsr_seqno_diff

(* Moving it by a window or more leaves no number of the old window in the new one:
   clearing the bitmap is exact. *)
LEMMA DiffJump ==
  ASSUME NEW top \in SeqNo, NEW s \in SeqNo, NEW x \in SeqNo,
         olsr_seqno_diff(s, top) >= WindowBits,
         olsr_seqno_diff(top, x) \in Bits
  PROVE  olsr_seqno_diff(s, x) \notin Bits
  BY WindowAssumption DEF SeqNo, SeqSpace, Bits, olsr_seqno_diff

(* The filter answers with a status and leaves a well-formed entry. *)
LEMMA CheckEntryType ==
  ASSUME NEW e \in DupEntry, NEW s \in SeqNo
  PROVE  /\ CheckEntry(e, s).entry \in DupEntry
         /\ CheckEntry(e, s).status \in Status
<1> DEFINE d == olsr_seqno_diff(s, e.seqnr)
<1>0. e.seqnr \in SeqNo /\ e.array \subseteq Bits /\ e.too_low_counter \in 0 .. TooLowMax
  BY DEF DupEntry
<1>1. d \in -HalfSpace .. HalfSpace - 1
  BY <1>0, DiffRange
<1>2. 0 \in Bits
  BY WindowAssumption DEF Bits
<1> HIDE DEF d
<1>3. CASE d < -(WindowBits - 1)
  BY <1>0, <1>1, <1>2, <1>3, WindowAssumption DEF CheckEntry, MuchTooOld, DupEntry, Status, d
<1>4. CASE ~(d < -(WindowBits - 1)) /\ d <= 0
  <2>1. -d \in Bits
    BY <1>1, <1>4, WindowAssumption DEF Bits
  <2>2. CheckEntry(e, s) = InWindow(e, -d)
    BY <1>4 DEF CheckEntry, d
  <2>3. e.array \cup {-d} \subseteq Bits /\ 0 \in 0 .. TooLowMax
    BY <1>0, <2>1, WindowAssumption
  <2>4. InWindow(e, -d).entry = [e EXCEPT !.array = @ \cup {-d}, !.too_low_counter = 0]
    BY DEF InWindow
  <2>5. InWindow(e, -d).entry \in DupEntry
    BY <1>0, <2>3, <2>4 DEF DupEntry
  <2>6. InWindow(e, -d).status \in Status
    BY DEF InWindow, Status
  <2> QED
    BY <2>2, <2>5, <2>6
<1>5. CASE ~(d < -(WindowBits - 1)) /\ ~(d <= 0)
  BY <1>0, <1>2, <1>5, WindowAssumption DEF CheckEntry, Newest, ShiftLeft, DupEntry, Status, d
<1> QED
  BY <1>3, <1>4, <1>5

(* What one answer of the filter does to one entry and its history.  IE says of an
   entry e, a history g and a creating number c what IInv says of a key. *)
IE(e, g, c) ==
  /\ \A x \in g : olsr_seqno_diff(e.seqnr, x) \in Bits
  /\ \A x \in SeqNo : olsr_seqno_diff(e.seqnr, x) \in e.array <=> x \in g /\ x # c

(* A number more than a window old leaves the entry as it was, or starts it anew. *)
LEMMA TooOldKeeps ==
  ASSUME NEW e \in DupEntry, NEW s \in SeqNo, NEW g \in SUBSET SeqNo,
         NEW c \in SeqNo \cup {NoSeqNo}, IE(e, g, c)
  PROVE  IF MuchTooOld(e, s).status = "RESET_SEQNO_OLSR_MESSAGE"
         THEN IE(MuchTooOld(e, s).entry, {s}, NoSeqNo)
         ELSE IE(MuchTooOld(e, s).entry, g, c)
<1>1. CASE e.too_low_counter + 1 > TooLowMax
  <2> DEFINE r == [seqnr |-> s, array |-> {0}, too_low_counter |-> 0]
  <2>1. MuchTooOld(e, s).entry = r /\ MuchTooOld(e, s).status = "RESET_SEQNO_OLSR_MESSAGE"
    BY <1>1 DEF MuchTooOld
  <2>2. 0 \in Bits /\ s # NoSeqNo
    BY WindowAssumption, MarkerAssumption DEF Bits
  <2>3. r.seqnr = s /\ r.array = {0}
    OBVIOUS
  <2> HIDE DEF r
  <2>4. IE(r, {s}, NoSeqNo)
    BY <2>2, <2>3, DiffRange DEF IE
  <2> QED
    BY <2>1, <2>4
<1>2. CASE ~(e.too_low_counter + 1 > TooLowMax)
  <2>1. /\ MuchTooOld(e, s).status = "TOO_OLD_OLSR_MESSAGE"
        /\ MuchTooOld(e, s).entry.seqnr = e.seqnr
        /\ MuchTooOld(e, s).entry.array = e.array
    BY <1>2 DEF MuchTooOld, DupEntry
  <2> QED
    BY <2>1 DEF IE
<1> QED
  BY <1>1, <1>2

(* A number inside the window: its bit is found set, or is set now. *)
LEMMA InWindowKeeps ==
  ASSUME NEW e \in DupEntry, NEW s \in SeqNo, NEW g \in SUBSET SeqNo,
         NEW c \in SeqNo \cup {NoSeqNo}, IE(e, g, c),
         NEW bit \in Bits, bit = olsr_seqno_diff(e.seqnr, s)
  PROVE  IF InWindow(e, bit).status = "OLD_OLSR_MESSAGE"
         THEN /\ IE(InWindow(e, bit).entry, g \cup {s}, IF s = c THEN NoSeqNo ELSE c)
              /\ s \notin g \/ s = c
         ELSE IE(InWindow(e, bit).entry, g, c)
<1>0. e.seqnr \in SeqNo /\ s # NoSeqNo
  BY MarkerAssumption DEF DupEntry
<1>1. /\ InWindow(e, bit).entry.seqnr = e.seqnr
      /\ InWindow(e, bit).entry.array = e.array \cup {bit}
  BY DEF InWindow, DupEntry
<1>2. ASSUME NEW x \in SeqNo
      PROVE  olsr_seqno_diff(e.seqnr, x) = bit <=> x = s
  BY <1>0, DiffInjective
<1>3. CASE bit \in e.array
  <2>1. InWindow(e, bit).status = "DUPLICATE_OLSR_MESSAGE"
    BY <1>3 DEF InWindow
  <2>2. e.array \cup {bit} = e.array
    BY <1>3
  <2> QED
    BY <1>1, <2>1, <2>2 DEF IE
<1>4. CASE bit \notin e.array
  <2>1. InWindow(e, bit).status = "OLD_OLSR_MESSAGE"
    BY <1>4 DEF InWindow
  <2>2. s \notin g \/ s = c
    BY <1>4 DEF IE
  <2>3. IE(InWindow(e, bit).entry, g \cup {s}, IF s = c THEN NoSeqNo ELSE c)
    BY <1>0, <1>1, <1>2, MarkerAssumption DEF IE
  <2> QED
    BY <2>1, <2>2, <2>3
<1> QED
  BY <1>3, <1>4

(* A number newer than all: the window moves and the bitmap moves with it. *)
LEMMA NewestKeeps ==
  ASSUME NEW e \in DupEntry, NEW s \in SeqNo, NEW g \in SUBSET SeqNo,
         NEW c \in SeqNo \cup {NoSeqNo}, IE(e, g, c),
         olsr_seqno_diff(s, e.seqnr) > 0
  PROVE  /\ IE(Newest(e, s, olsr_seqno_diff(s, e.seqnr)).entry,
               StillInWindow(g, s) \cup {s}, IF s = c THEN NoSeqNo ELSE c)
         /\ s \notin g
<1> DEFINE d == olsr_seqno_diff(s, e.seqnr)
           n == Newest(e, s, d).entry
<1>0. e.seqnr \in SeqNo /\ e.array \subseteq Bits /\ s # NoSeqNo /\ 0 \in Bits
  BY WindowAssumption, MarkerAssumption DEF DupEntry, Bits
<1>1. d \in -HalfSpace .. HalfSpace - 1 /\ d > 0
  BY <1>0, DiffRange
<1>2. s \notin g
  <2>1. olsr_seqno_diff(e.seqnr, s) = -d
    BY <1>0, <1>1, DiffNegates, WindowAssumption
  <2>2. -d \notin Bits
    BY <1>1 DEF Bits
  <2> QED
    BY <2>1, <2>2 DEF IE
<1>3. /\ n.seqnr = s
      /\ n.array = {0} \cup (IF d < WindowBits THEN ShiftLeft(e.array, d) ELSE {})
  BY DEF Newest
<1> HIDE DEF n
<1>4. \A x \in StillInWindow(g, s) \cup {s} : olsr_seqno_diff(s, x) \in Bits
  BY <1>0, DiffRange DEF StillInWindow
<1>5. ASSUME NEW x \in SeqNo
      PROVE  olsr_seqno_diff(s, x) \in n.array
               <=> x \in StillInWindow(g, s) \cup {s} /\ x # (IF s = c THEN NoSeqNo ELSE c)
  <2>1. CASE x = s
    BY <1>0, <1>3, <2>1, DiffRange
  <2>2. CASE x # s /\ d < WindowBits
    <3>1. olsr_seqno_diff(s, x) # 0
      BY <2>2, DiffRange
    <3>2. olsr_seqno_diff(s, x) \in n.array
            <=> olsr_seqno_diff(s, x) \in Bits /\ olsr_seqno_diff(s, x) - d \in e.array
      BY <1>3, <2>2, <3>1 DEF ShiftLeft
    <3>3. olsr_seqno_diff(s, x) \in Bits
            => olsr_seqno_diff(e.seqnr, x) = olsr_seqno_diff(s, x) - d
      BY <1>0, <1>1, <2>2, DiffShift
    <3>4. olsr_seqno_diff(e.seqnr, x) \in e.array <=> x \in g /\ x # c
      BY DEF IE
    <3>5. x # c <=> x # (IF s = c THEN NoSeqNo ELSE c)
      BY <2>2, MarkerAssumption
    <3> HIDE DEF d
    <3> QED
      BY <2>2, <3>2, <3>3, <3>4, <3>5 DEF StillInWindow
  <2>3. CASE x # s /\ ~(d < WindowBits)
    <3>1. olsr_seqno_diff(s, x) \notin n.array
      BY <1>3, <2>3, DiffRange
    <3>2. x \in g => olsr_seqno_diff(s, x) \notin Bits
      BY <1>0, <1>1, <2>3, DiffJump, WindowAssumption DEF IE
    <3> QED
      BY <2>3, <3>1, <3>2 DEF StillInWindow
  <2> QED
    BY <2>1, <2>2, <2>3
<1> QED
  BY <1>2, <1>3, <1>4, <1>5 DEF IE, n

(* The inductive invariant, key by key. *)
LEMMA IInvByKey ==
  ASSUME TypeOK
  PROVE  IInv <=> \A k \in Keys : IF dup[k] = NoEntry THEN got[k] = {}
                                  ELSE IE(dup[k], got[k], pending[k])
  BY DEF IInv, HistoryInWindow, BitmapExact, IE

(* What olsr_is_duplicate_message() does to an entry that exists. *)
LEMMA NextMessageStep ==
  ASSUME IInv, NEW k \in Keys, NEW s \in SeqNo, NextMessage(k, s)
  PROVE  /\ IE(dup'[k], got'[k], pending'[k])
         /\ got'[k] \in SUBSET SeqNo
         /\ pending'[k] \in SeqNo \cup {NoSeqNo}
         /\ last'.status \in {"NEW_OLSR_MESSAGE", "OLD_OLSR_MESSAGE"}
               => s \notin got[k] \/ s = pending[k]
         /\ last'.status # "RESET_SEQNO_OLSR_MESSAGE"
               => olsr_seqno_diff(dup'[k].seqnr, dup[k].seqnr) \in 0 .. HalfSpace - 1
<1> DEFINE e == dup[k]
           g == got[k]
           c == pending[k]
           a == CheckEntry(e, s)
           d == olsr_seqno_diff(s, e.seqnr)
<1>0. /\ e \in DupEntry /\ g \in SUBSET SeqNo /\ c \in SeqNo \cup {NoSeqNo}
      /\ e.seqnr \in SeqNo /\ IE(e, g, c)
  BY IInvByKey DEF IInv, TypeOK, NextMessage, DupEntry
<1>1. /\ dup'[k] = a.entry /\ last'.status = a.status
      /\ got'[k] = IF a.status = "RESET_SEQNO_OLSR_MESSAGE" THEN {s}
                   ELSE IF a.status = "NEW_OLSR_MESSAGE" THEN StillInWindow(g, s) \cup {s}
                   ELSE IF a.status = "OLD_OLSR_MESSAGE" THEN g \cup {s}
                   ELSE g
      /\ pending'[k] = IF a.status = "RESET_SEQNO_OLSR_MESSAGE" \/ (s = c /\ Accepted(a.status))
                       THEN NoSeqNo ELSE c
  BY DEF NextMessage, Remember, IInv, TypeOK
<1>2. d \in -HalfSpace .. HalfSpace - 1
  BY <1>0, DiffRange
<1>3. olsr_seqno_diff(e.seqnr, e.seqnr) = 0 /\ 0 \in 0 .. HalfSpace - 1
  BY <1>0, DiffRange, WindowAssumption
<1>4. got'[k] \in SUBSET SeqNo /\ pending'[k] \in SeqNo \cup {NoSeqNo}
  BY <1>0, <1>1 DEF StillInWindow
<1>5. CASE d < -(WindowBits - 1)
  <2>1. a = MuchTooOld(e, s)
    BY <1>5 DEF CheckEntry
  <2>2. \/ a.status = "RESET_SEQNO_OLSR_MESSAGE"
        \/ a.status = "TOO_OLD_OLSR_MESSAGE" /\ a.entry.seqnr = e.seqnr
    BY <1>0, <2>1 DEF MuchTooOld, DupEntry
  <2>3. IF a.status = "RESET_SEQNO_OLSR_MESSAGE" THEN IE(a.entry, {s}, NoSeqNo)
        ELSE IE(a.entry, g, c)
    BY <1>0, <2>1, TooOldKeeps
  <2> HIDE DEF a, g, c
  <2> QED
    BY <1>1, <1>3, <1>4, <2>2, <2>3 DEF Accepted
<1>6. CASE ~(d < -(WindowBits - 1)) /\ d <= 0
  <2>1. a = InWindow(e, -d)
    BY <1>6 DEF CheckEntry
  <2>2. -d \in Bits /\ -d = olsr_seqno_diff(e.seqnr, s)
    BY <1>0, <1>2, <1>6, DiffNegates, WindowAssumption DEF Bits
  <2>3. /\ a.status \in {"OLD_OLSR_MESSAGE", "DUPLICATE_OLSR_MESSAGE"}
        /\ a.entry.seqnr = e.seqnr
    <3>1. a.status \in {"OLD_OLSR_MESSAGE", "DUPLICATE_OLSR_MESSAGE"}
      BY <2>1 DEF InWindow
    <3>2. a.entry = [e EXCEPT !.array = @ \cup {-d}, !.too_low_counter = 0]
      BY <2>1 DEF InWindow
    <3> QED
      BY <1>0, <3>1, <3>2 DEF DupEntry
  <2>4. IF a.status = "OLD_OLSR_MESSAGE"
        THEN /\ IE(a.entry, g \cup {s}, IF s = c THEN NoSeqNo ELSE c)
             /\ s \notin g \/ s = c
        ELSE IE(a.entry, g, c)
    BY <1>0, <2>1, <2>2, InWindowKeeps
  <2> HIDE DEF a, d
  <2> QED
    BY <1>1, <1>3, <1>4, <2>3, <2>4 DEF Accepted
<1>7. CASE ~(d < -(WindowBits - 1)) /\ ~(d <= 0)
  <2>1. a = Newest(e, s, d) /\ d > 0
    BY <1>2, <1>7 DEF CheckEntry
  <2>2. a.status = "NEW_OLSR_MESSAGE" /\ a.entry.seqnr = s
    BY <2>1 DEF Newest
  <2>3. /\ IE(a.entry, StillInWindow(g, s) \cup {s}, IF s = c THEN NoSeqNo ELSE c)
        /\ s \notin g
    BY <1>0, <2>1, NewestKeeps
  <2>4. d \in 0 .. HalfSpace - 1
    BY <1>2, <2>1
  <2> HIDE DEF a
  <2> QED
    BY <1>1, <1>4, <2>2, <2>3, <2>4 DEF Accepted
<1> QED
  BY <1>5, <1>6, <1>7

(* Every variable keeps its type in every behaviour of the duplicate set. *)
THEOREM TypeCorrect == Spec => []TypeOK
<1>1. Init => TypeOK
  BY DEF Init, TypeOK
<1>2. TypeOK /\ [Next]_vars => TypeOK'
  <2> SUFFICES ASSUME TypeOK, [Next]_vars PROVE TypeOK'
    OBVIOUS
  <2>1. ASSUME NEW k \in Keys, NEW s \in SeqNo, FirstMessage(k, s) PROVE TypeOK'
    <3>1. olsr_create_duplicate_entry(s) \in DupEntry
      BY WindowAssumption DEF olsr_create_duplicate_entry, DupEntry
    <3> QED
      BY <2>1, <3>1 DEF TypeOK, FirstMessage, Calls, Status
  <2>2. ASSUME NEW k \in Keys, NEW s \in SeqNo, NextMessage(k, s) PROVE TypeOK'
    <3>1. CheckEntry(dup[k], s).entry \in DupEntry /\ CheckEntry(dup[k], s).status \in Status
      BY <2>2, CheckEntryType DEF TypeOK, NextMessage
    <3>2. dup' \in [Keys -> DupEntry \cup {NoEntry}] /\ last' \in Calls
      BY <2>2, <3>1 DEF TypeOK, NextMessage, Calls
    <3>3. got' \in [Keys -> SUBSET SeqNo] /\ pending' \in [Keys -> SeqNo \cup {NoSeqNo}]
      BY <2>2 DEF TypeOK, NextMessage, Remember, StillInWindow
    <3> QED
      BY <3>2, <3>3 DEF TypeOK
  <2>3. ASSUME NEW k \in Keys, olsr_expire_duplicate_entry(k) PROVE TypeOK'
    BY <2>3 DEF TypeOK, olsr_expire_duplicate_entry
  <2>4. CASE olsr_flush_duplicate_entries
    BY <2>4 DEF TypeOK, olsr_flush_duplicate_entries
  <2>5. CASE UNCHANGED vars
    BY <2>5 DEF TypeOK, vars
  <2> QED
    BY <2>1, <2>2, <2>3, <2>4, <2>5 DEF Next, olsr_is_duplicate_message
<1> QED
  BY <1>1, <1>2, PTL DEF Spec

(* Only the key of the call changes: the other keys keep what IInv says of them. *)
LEMMA StepKeepsIInv ==
  ASSUME IInv, TypeOK', [Next]_vars
  PROVE  IInv'
<1> DEFINE Good(k) == IF dup[k] = NoEntry THEN got[k] = {}
                      ELSE IE(dup[k], got[k], pending[k])
<1>0. TypeOK /\ \A k \in Keys : Good(k)
  BY IInvByKey DEF IInv
<1> SUFFICES ASSUME NEW k \in Keys PROVE Good(k)'
  BY IInvByKey DEF IInv, HistoryInWindow, BitmapExact, IE
<1>1. ASSUME NEW j \in Keys, NEW s \in SeqNo, FirstMessage(j, s) PROVE Good(k)'
  <2>1. CASE j = k
    <3> DEFINE n == olsr_create_duplicate_entry(s)
    <3>1. dup'[k] = n /\ got'[k] = {s} /\ pending'[k] = s
      BY <1>0, <1>1, <2>1 DEF FirstMessage, TypeOK
    <3>2. n.seqnr = s /\ n.array = {} /\ 0 \in Bits
      BY WindowAssumption DEF olsr_create_duplicate_entry, Bits
    <3> HIDE DEF n
    <3>3. IE(n, {s}, s)
      BY <3>2, DiffRange DEF IE
    <3>4. dup'[k] # NoEntry
      BY <3>1, WindowAssumption, MarkerAssumption DEF n, olsr_create_duplicate_entry, DupEntry
    <3> QED
      BY <3>1, <3>3, <3>4 DEF IE
  <2>2. CASE j # k
    BY <1>0, <1>1, <2>2 DEF FirstMessage, TypeOK, IE
  <2> QED
    BY <2>1, <2>2
<1>2. ASSUME NEW j \in Keys, NEW s \in SeqNo, NextMessage(j, s) PROVE Good(k)'
  <2>1. CASE j = k
    <3>1. IE(dup'[k], got'[k], pending'[k])
      BY <1>2, <2>1, NextMessageStep
    <3>2. dup'[k] # NoEntry
      BY <1>0, <1>2, <2>1, CheckEntryType, MarkerAssumption DEF NextMessage, TypeOK
    <3> QED
      BY <3>1, <3>2 DEF IE
  <2>2. CASE j # k
    BY <1>0, <1>2, <2>2 DEF NextMessage, Remember, TypeOK, IE
  <2> QED
    BY <2>1, <2>2
<1>3. ASSUME NEW j \in Keys, olsr_expire_duplicate_entry(j) PROVE Good(k)'
  <2>1. CASE j = k
    BY <1>0, <1>3, <2>1 DEF olsr_expire_duplicate_entry, TypeOK
  <2>2. CASE j # k
    BY <1>0, <1>3, <2>2 DEF olsr_expire_duplicate_entry, TypeOK, IE
  <2> QED
    BY <2>1, <2>2
<1>4. CASE olsr_flush_duplicate_entries
  BY <1>4 DEF olsr_flush_duplicate_entries
<1>5. CASE UNCHANGED vars
  BY <1>0, <1>5 DEF vars, IE
<1> QED
  BY <1>1, <1>2, <1>3, <1>4, <1>5 DEF Next, olsr_is_duplicate_message

(* The inductive invariant holds in every reachable state. *)
THEOREM Invariant == Spec => []IInv
<1>1. Init => IInv
  BY IInvByKey DEF Init, IInv, TypeOK, HistoryInWindow, BitmapExact
<1>2. IInv /\ TypeOK' /\ [Next]_vars => IInv'
  BY StepKeepsIInv
<1> QED
  BY <1>1, <1>2, TypeCorrect, PTL DEF Spec

(* In every reachable state the bitmap of an entry is exact (BitmapExact): no number
   that was accepted and is still covered is forgotten, and none is marked that was
   not accepted, through shifts, jumps, wrap-around, resets and expiries. *)
THEOREM BitmapIsExact == Spec => []BitmapExact
<1>1. IInv => BitmapExact
  BY DEF IInv
<1> QED
  BY <1>1, Invariant, PTL

(* The history never leaves the window (HistoryInWindow). *)
THEOREM HistoryStaysInWindow == Spec => []HistoryInWindow
<1>1. IInv => HistoryInWindow
  BY DEF IInv
<1> QED
  BY <1>1, Invariant, PTL

(* The filter lets a number it still covers through a second time only if the number
   created the entry, or in a reset (NoReplay). *)
THEOREM NoMessageTwice == Spec => NoReplay
<1> DEFINE A == \A k \in Keys :
                  last'.key = k /\ last'.status \in {"NEW_OLSR_MESSAGE", "OLD_OLSR_MESSAGE"}
                    => last'.seqno \notin got[k] \/ last'.seqno = pending[k]
<1>1. IInv /\ [Next]_vars => [A]_vars
  <2> SUFFICES ASSUME IInv, Next, NEW k \in Keys,
                      last'.key = k, last'.status \in {"NEW_OLSR_MESSAGE", "OLD_OLSR_MESSAGE"}
               PROVE  last'.seqno \notin got[k] \/ last'.seqno = pending[k]
    OBVIOUS
  <2>1. ASSUME NEW j \in Keys, NEW s \in SeqNo, FirstMessage(j, s)
        PROVE  last'.seqno \notin got[k] \/ last'.seqno = pending[k]
    BY <2>1 DEF FirstMessage, IInv, HistoryInWindow
  <2>2. ASSUME NEW j \in Keys, NEW s \in SeqNo, NextMessage(j, s)
        PROVE  last'.seqno \notin got[k] \/ last'.seqno = pending[k]
    <3>1. j = k /\ last'.seqno = s
      BY <2>2 DEF NextMessage
    <3> QED
      BY <2>2, <3>1, NextMessageStep
  <2>3. ASSUME NEW j \in Keys, olsr_expire_duplicate_entry(j) PROVE FALSE
    BY <2>3, MarkerAssumption DEF olsr_expire_duplicate_entry, NoCall
  <2>4. CASE olsr_flush_duplicate_entries
    BY <2>4, MarkerAssumption DEF olsr_flush_duplicate_entries, NoCall
  <2> QED
    BY <2>1, <2>2, <2>3, <2>4 DEF Next, olsr_is_duplicate_message
<1>2. [][A]_vars => NoReplay
  BY DEF NoReplay
<1> HIDE DEF A
<1> QED
  BY <1>1, <1>2, Invariant, PTL DEF Spec

(* No message, however old or repeated, moves the newest number of an entry back,
   except by a reset (NewestNeverBack). *)
THEOREM NewestMovesForward == Spec => NewestNeverBack
<1> DEFINE A == \A k \in Keys :
       dup[k] # NoEntry /\ dup'[k] # NoEntry /\ last'.status # "RESET_SEQNO_OLSR_MESSAGE"
         => olsr_seqno_diff(dup'[k].seqnr, dup[k].seqnr) \in 0 .. HalfSpace - 1
<1>1. IInv /\ [Next]_vars => [A]_vars
  <2> SUFFICES ASSUME IInv, Next, NEW k \in Keys, dup[k] # NoEntry, dup'[k] # NoEntry,
                      last'.status # "RESET_SEQNO_OLSR_MESSAGE"
               PROVE  olsr_seqno_diff(dup'[k].seqnr, dup[k].seqnr) \in 0 .. HalfSpace - 1
    OBVIOUS
  <2>0. dup[k].seqnr \in SeqNo
    BY DEF IInv, TypeOK, DupEntry
  <2>1. CASE dup'[k] = dup[k]
    BY <2>0, <2>1, DiffRange, WindowAssumption
  <2>2. ASSUME NEW j \in Keys, NEW s \in SeqNo, FirstMessage(j, s) PROVE dup'[k] = dup[k]
    BY <2>2 DEF FirstMessage, IInv, TypeOK
  <2>3. ASSUME NEW j \in Keys, NEW s \in SeqNo, NextMessage(j, s), j # k
        PROVE  dup'[k] = dup[k]
    BY <2>3 DEF NextMessage, IInv, TypeOK
  <2>4. ASSUME NEW s \in SeqNo, NextMessage(k, s)
        PROVE  olsr_seqno_diff(dup'[k].seqnr, dup[k].seqnr) \in 0 .. HalfSpace - 1
    BY <2>4, NextMessageStep
  <2>5. ASSUME NEW j \in Keys, olsr_expire_duplicate_entry(j) PROVE dup'[k] = dup[k]
    BY <2>5 DEF olsr_expire_duplicate_entry, IInv, TypeOK
  <2>6. CASE olsr_flush_duplicate_entries
    BY <2>6 DEF olsr_flush_duplicate_entries
  <2> QED
    BY <2>1, <2>2, <2>3, <2>4, <2>5, <2>6 DEF Next, olsr_is_duplicate_message
<1>2. [][A]_vars => NewestNeverBack
  BY DEF NewestNeverBack
<1> HIDE DEF A
<1> QED
  BY <1>1, <1>2, Invariant, PTL DEF Spec
=============================================================================
