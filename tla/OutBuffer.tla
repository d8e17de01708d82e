----------------------------- MODULE OutBuffer -----------------------------
(***************************************************************************)
(* The output buffers of the interfaces (src/src/net_olsr.c), with all     *)
(* that fills and empties them: the generators of HELLO, TC, MID and HNA   *)
(* messages, the forwarding loop of olsr_forward_message() and the hold    *)
(* timer that sends what was collected.                                    *)
(*                                                                         *)
(* A message is its number, in the order of creation, and its size; every  *)
(* HELLO is number Hello.  The packet sequence number is left out: it only *)
(* counts the packets.  newest and refused are history variables.           *)
(***************************************************************************)
EXTENDS Integers, Sequences, SequencesExt

CONSTANTS Ifaces,
          Ether,         \* the interfaces configured with mode "ether"
          Mtus,          \* values of netbuf.maxsize
          Sizes,         \* sizes of messages
          MaxMsgs        \* messages created, HELLOs aside (a bound of the model)

ASSUME BufferAssumption ==
  /\ Ether \subseteq Ifaces /\ Mtus \subseteq Nat /\ Sizes \subseteq Nat \ {0}
  /\ MaxMsgs \in Nat

VARIABLES up,        \* the interfaces that exist
          netbuf,    \* their buffers: maxsize, pending, and buff, the messages in it
          hold,      \* the interfaces with buffer_hold_timer # NULL
          created,   \* messages created so far
          newest,    \* the last message that left the buffer of an interface
          refused    \* the messages the last step could not queue, with their interface

vars == <<up, netbuf, hold, created, newest, refused>>

Hello == 0
NoBuffer == [maxsize |-> 0, pending |-> 0, buff |-> <<>>]

Message == [id : 0..MaxMsgs, size : Sizes]

Init ==
  /\ up = {}
  /\ netbuf = [i \in Ifaces |-> NoBuffer]
  /\ hold = {}
  /\ created = 0
  /\ newest = [i \in Ifaces |-> 0]
  /\ refused = {}
-----------------------------------------------------------------------------
(* The functions of net_olsr.c work on the record of one interface:
   b the buffer, h whether the hold timer runs, n and r its history. *)
Local(i) == [b |-> netbuf[i], h |-> i \in hold, n |-> newest[i], r |-> {}]

NoHellos(q) == SelectSeq(q, LAMBDA m : m.id # Hello)

\* The newest message of a packet, or what was the newest before.
Newest(q, n) == LET own == NoHellos(q) IN IF own = <<>> THEN n ELSE Last(own).id

\* Mutant: the packet stays in the buffer when sendto() fails.
net_output_keeps(x) ==
  [x EXCEPT !.n = Newest(x.b.buff, @)]

\* net_output(): the buffer is empty afterwards, whatever sendto() returned.
net_output(x) ==
  [x EXCEPT !.b = [@ EXCEPT !.pending = 0, !.buff = <<>>],
            !.n = Newest(x.b.buff, @)]

net_outbuffer_bytes_left(x) == x.b.maxsize - x.b.pending

\* Mutant: what is pending is left out of the test for room.
RefusesBlind(x, m) == m.size > x.b.maxsize

Refuses(x, m) == x.b.pending + m.size > x.b.maxsize

Queue(x, m) == [x EXCEPT !.b = [@ EXCEPT !.pending = @ + m.size, !.buff = Append(@, m)]]

\* net_outbuffer_push() when its caller ignores, or only logs, that it failed.
net_outbuffer_push(x, m) == IF Refuses(x, m) THEN [x EXCEPT !.r = {m}] ELSE Queue(x, m)

set_buffer_timer(x) == [x EXCEPT !.h = TRUE]

\* The new state when the interfaces of ifs become f[i].
Commit(ifs, f) ==
  /\ netbuf' = [i \in Ifaces |-> IF i \in ifs THEN f[i].b ELSE netbuf[i]]
  /\ hold' = {i \in Ifaces : IF i \in ifs THEN f[i].h ELSE i \in hold}
  /\ newest' = [i \in Ifaces |-> IF i \in ifs THEN f[i].n ELSE newest[i]]
  /\ refused' = UNION {{<<i, m>> : m \in f[i].r} : i \in ifs}

CommitOne(i, x) == Commit({i}, [j \in {i} |-> x])
-----------------------------------------------------------------------------
\* add_interface(): a new record, its timer running, and net_add_buffer().
add_interface(i) ==
  /\ i \notin up
  /\ up' = up \cup {i}
  /\ \E m \in Mtus :
       CommitOne(i, set_buffer_timer([Local(i) EXCEPT !.b = [NoBuffer EXCEPT !.maxsize = m]]))
  /\ UNCHANGED created

\* remove_interface(): net_remove_buffer() sends what is pending, then the timer stops.
remove_interface(i) ==
  /\ i \in up
  /\ up' = up \ {i}
  /\ CommitOne(i, [net_output(Local(i)) EXCEPT !.b = NoBuffer, !.h = FALSE])
  /\ UNCHANGED created

\* chk_if_changed(): net_remove_buffer(), net_add_buffer() with the new MTU; with the
\* same one after a check that could not read it and set int_mtu to 0.
chk_if_changed(i) ==
  /\ i \in up
  /\ \E m \in Mtus : CommitOne(i, [net_output(Local(i)) EXCEPT !.b = [NoBuffer EXCEPT !.maxsize = m]])
  /\ UNCHANGED <<up, created>>

\* Mutant: a HELLO that finds no room does not empty the buffer.
generate_hello_idle(i) ==
  /\ i \in up
  /\ \E size \in Sizes :
       LET x == Local(i)
       IN  IF net_outbuffer_bytes_left(x) < size THEN CommitOne(i, x)
           ELSE CommitOne(i, net_output(net_outbuffer_push(x, [id |-> Hello, size |-> size])))
  /\ UNCHANGED <<up, created>>

\* generate_hello(): makes room, adds the HELLO and sends at once.
generate_hello(i) ==
  /\ i \in up
  /\ \E size \in Sizes :
       LET x == Local(i)
           room == IF net_outbuffer_bytes_left(x) < size THEN net_output(x) ELSE x
       IN  CommitOne(i, net_output(net_outbuffer_push(room, [id |-> Hello, size |-> size])))
  /\ UNCHANGED <<up, created>>

\* A message of the node itself, sent on interface i.
SendTo(i, m) ==
  LET x == Local(i)
      room == IF net_outbuffer_bytes_left(x) < m.size
              THEN set_buffer_timer(net_output(x)) ELSE x
  IN  net_outbuffer_push(room, m)

\* The ends of olsr_output_lq_tc_internal(), generate_mid() and generate_hna().
Generate(size) ==
  /\ created < MaxMsgs
  /\ created' = created + 1
  /\ Commit(up, [i \in up |-> SendTo(i, [id |-> created', size |-> size])])
  /\ UNCHANGED up

\* Mutant: no second attempt after the buffer was sent.
ForwardTo_once(i, in_if, m) ==
  LET x == Local(i)
  IN  IF x.b.pending # 0
      THEN IF i = in_if /\ in_if \in Ether THEN x
           ELSE IF Refuses(x, m) THEN set_buffer_timer([net_output(x) EXCEPT !.r = {m}])
           ELSE Queue(x, m)
      ELSE net_outbuffer_push(set_buffer_timer(x), m)

\* The body of the loop over the interfaces in olsr_forward_message().
ForwardTo(i, in_if, m) ==
  LET x == Local(i)
  IN  IF x.b.pending # 0
      THEN IF i = in_if /\ in_if \in Ether THEN x
           ELSE IF Refuses(x, m) THEN net_outbuffer_push(set_buffer_timer(net_output(x)), m)
           ELSE Queue(x, m)
      ELSE net_outbuffer_push(set_buffer_timer(x), m)

\* olsr_forward_message() of a message that came in on in_if and passed all its checks.
olsr_forward_message(in_if, size) ==
  LET m == [id |-> created + 1, size |-> size]
  IN  /\ in_if \in up
      /\ created < MaxMsgs
      /\ created' = created + 1
      /\ Commit(up, [i \in up |-> ForwardTo(i, in_if, m)])
      /\ UNCHANGED up

\* The pointer to the timer is cleared, then the buffer goes out.
olsr_expire_buffer_timer(i) ==
  /\ i \in hold
  /\ CommitOne(i, net_output([Local(i) EXCEPT !.h = FALSE]))
  /\ UNCHANGED <<up, created>>

Next ==
  \/ \E i \in Ifaces : \/ add_interface(i) \/ remove_interface(i) \/ chk_if_changed(i)
                       \/ generate_hello(i) \/ olsr_expire_buffer_timer(i)
  \/ \E size \in Sizes : Generate(size)
  \/ \E i \in Ifaces, size \in Sizes : olsr_forward_message(i, size)

\* hello_gen_timer is periodic, and the timer wheel fires every timer that is set.
Fairness == \A i \in Ifaces : WF_vars(generate_hello(i)) /\ WF_vars(olsr_expire_buffer_timer(i))

Spec == Init /\ [][Next]_vars /\ Fairness
-----------------------------------------------------------------------------
SizeSum(q) == FoldSeq(LAMBDA m, sum : m.size + sum, 0, q)

(* Types; an interface that is gone has an empty buffer and no hold timer that would
   touch its freed record (remove_interface()). *)
TypeOK ==
  /\ up \subseteq Ifaces /\ hold \subseteq up
  /\ created \in 0..MaxMsgs
  /\ \A i \in Ifaces :
       /\ netbuf[i] \in [maxsize : Mtus \cup {0}, pending : Nat, buff : Seq(Message)]
       /\ newest[i] \in 0..MaxMsgs
       /\ i \notin up => netbuf[i] = NoBuffer

(* A buffer never grows over the MTU, whichever of the five writers fills it, and its
   counter is the size of what it holds. *)
BufferExact ==
  \A i \in Ifaces :
    /\ netbuf[i].pending <= netbuf[i].maxsize
    /\ netbuf[i].pending = SizeSum(netbuf[i].buff)

(* On every interface the messages leave in the order in which they were queued and
   none leaves twice: not after a failed send, not over a change of the MTU.  The
   duplicate set of the receivers rejects what comes more than 32 messages late. *)
OrderKept ==
  \A i \in Ifaces :
    LET q == NoHellos(netbuf[i].buff)
    IN  /\ \A j, k \in DOMAIN q : j < k => q[j].id < q[k].id
        /\ \A j \in DOMAIN q : q[j].id > newest[i]

(* A message is dropped only where it is bigger than the MTU.  For want of room: the
   buffer is sent, and the push repeated, before any writer gives up.  Once queued: it
   leaves its buffer only in a packet, also when the MTU changes or the interface goes. *)
DropsOnlyOversized ==
  [][ /\ \A d \in refused' : d[2].size > netbuf'[d[1]].maxsize
      /\ \A i \in Ifaces : \A m \in ToSet(NoHellos(netbuf[i].buff)) :
           m \in ToSet(netbuf'[i].buff) \/ m.id <= newest'[i] ]_vars

(* What waits in a buffer leaves it: the periodic HELLO of the interface takes along
   what no hold timer covers. *)
BufferDrains == \A i \in Ifaces : netbuf[i].pending > 0 ~> netbuf[i].pending = 0
=============================================================================
