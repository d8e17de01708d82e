------------------------------ MODULE Flooding ------------------------------
(***************************************************************************)
(* How messages of one originator spread: parse_packet() and               *)
(* olsr_forward_message() (src/src/parser.c) of every node, with the two   *)
(* duplicate filters of each (DupWindow).  Links are symmetric and stay;   *)
(* each node has chosen multipoint relays (MPRs) that reach all its        *)
(* two-hop neighbors, as MprSelection does, and its neighbors know.  A     *)
(* packet carries one message; OutBuffer models how they are collected.    *)
(*                                                                         *)
(* The radio delivers copies in any order.  A copy that is lost is one     *)
(* that stays on the air: what holds in every state holds with losses.     *)
(* ttl_sent, processed and forwarded are history variables.                *)
(***************************************************************************)
EXTENDS DupWindow, FiniteSets

CONSTANTS NodeCount,    \* nodes are numbered, the originator is 1
          Networks,     \* links, lower number first, MPRs, the number of messages, and
                        \* whether the nodes know the originator already
          Ttls,         \* the ttl a message may start with
          FirstSeqNo, MaxMessages, NoEntry

Nodes == 1 .. NodeCount
Origin == 1
Sent == 1 .. MaxMessages
Nbrs(net, n) == {m \in Nodes : <<m, n>> \in net.links \/ <<n, m>> \in net.links}
TwoHop(net, n) == {m \in Nodes \ ({n} \cup Nbrs(net, n)) : Nbrs(net, m) \cap Nbrs(net, n) # {}}

\* The MPRs of each node are neighbors and reach all its two-hop neighbors.
Covering(net) ==
  \A n \in Nodes : /\ net.mprs[n] \subseteq Nbrs(net, n)
                   /\ \A m \in TwoHop(net, n) : net.mprs[n] \cap Nbrs(net, m) # {}

ASSUME FloodingAssumption ==
  /\ NodeCount \in Nat \ {0} /\ MaxMessages \in 1 .. WindowBits
  /\ Networks \subseteq [links : SUBSET (Nodes \X Nodes), mprs : [Nodes -> SUBSET Nodes],
                  messages : Sent, known : BOOLEAN]
  /\ \A net \in Networks : Covering(net)
  /\ Ttls \subseteq 1 .. 255 /\ FirstSeqNo \in SeqNo /\ NoEntry \notin DupEntry

VARIABLES network,                   \* one of Networks
          processing_set, forward_set,
          air,                       \* copies on their way
          ttl_sent,                  \* of each message so far, in the order of sending
          processed, forwarded       \* how often, for each node and message

vars == <<network, processing_set, forward_set, air, ttl_sent, processed, forwarded>>

SeqNoOf(i) == (FirstSeqNo + i - 1) % SeqSpace
Copy == [from : Nodes, to : Nodes, msg : Sent, ttl : 1 .. 255, hopcnt : 0 .. 255]

\* The entry of a node that has seen copies of the message before the first one.
KnownEntry ==
  [seqnr |-> (FirstSeqNo - 1) % SeqSpace, array |-> {0}, too_low_counter |-> 0]

Init ==
  /\ network \in Networks
  /\ processing_set = [n \in Nodes |-> IF network.known THEN KnownEntry ELSE NoEntry]
  /\ forward_set = processing_set
  /\ air = {} /\ ttl_sent = [i \in Sent |-> 0]
  /\ processed = [n \in Nodes |-> [i \in Sent |-> 0]]
  /\ forwarded = [n \in Nodes |-> [i \in Sent |-> 0]]

\* Nodes do not process or forward messages of their own, nor ones with a bad ttl.
Ignored(c) == c.to = Origin \/ c.ttl = 0 \/ c.ttl + c.hopcnt > 255

\* The copies n sends.  One that its receiver ignores leaves no trace there.
Broadcast(n, i, ttl, hopcnt) ==
  {c \in {[from |-> n, to |-> m, msg |-> i, ttl |-> ttl, hopcnt |-> hopcnt] : m \in Nbrs(network, n)} :
     ~Ignored(c)}

\* The originator sends its next message.
Originate(i, ttl) ==
  /\ i <= network.messages /\ ttl_sent[i] = 0 /\ \A j \in Sent : j < i => ttl_sent[j] # 0
  /\ ttl_sent' = [ttl_sent EXCEPT ![i] = ttl]
  /\ air' = air \cup Broadcast(Origin, i, ttl, 0)
  /\ UNCHANGED <<network, processing_set, forward_set, processed, forwarded>>

\* Mutant: every copy is new.
Filter_open(entry, seqno) ==
  [entry |-> olsr_create_duplicate_entry(seqno), status |-> "NEW_OLSR_MESSAGE"]

\* olsr_is_duplicate_message() for one of the two sets.
Filter(entry, seqno) ==
  IF entry = NoEntry
  THEN [entry |-> olsr_create_duplicate_entry(seqno), status |-> "NEW_OLSR_MESSAGE"]
  ELSE CheckEntry(entry, seqno)

\* Mutant: the filter is asked before it is known whether the sender chose us.
olsr_forward_message_eager(c) ==
  LET n == c.to
      dup == Filter(forward_set[n], SeqNoOf(c.msg))
      relay == n \in network.mprs[c.from] /\ Accepted(dup.status) /\ c.ttl - 1 # 0
  IN  /\ forward_set' = [forward_set EXCEPT ![n] = dup.entry]
      /\ forwarded' = [forwarded EXCEPT ![n][c.msg] = IF relay THEN @ + 1 ELSE @]
      /\ air' = (air \ {c}) \cup IF relay THEN Broadcast(n, c.msg, c.ttl - 1, c.hopcnt + 1) ELSE {}

\* A copy from a neighbor that chose us as MPR is forwarded once, while its ttl lasts; the
\* filter notes it also when the ttl is used up.
olsr_forward_message(c) ==
  LET n == c.to
      dup == Filter(forward_set[n], SeqNoOf(c.msg))
      chosen == n \in network.mprs[c.from]
      relay == chosen /\ Accepted(dup.status) /\ c.ttl - 1 # 0
  IN  /\ forward_set' = IF chosen THEN [forward_set EXCEPT ![n] = dup.entry] ELSE forward_set
      /\ forwarded' = [forwarded EXCEPT ![n][c.msg] = IF relay THEN @ + 1 ELSE @]
      /\ air' = (air \ {c}) \cup IF relay THEN Broadcast(n, c.msg, c.ttl - 1, c.hopcnt + 1) ELSE {}

\* A copy arrives.
parse_packet(c) ==
  /\ LET dup == Filter(processing_set[c.to], SeqNoOf(c.msg))
     IN  /\ processing_set' = [processing_set EXCEPT ![c.to] = dup.entry]
         /\ processed' = [processed EXCEPT ![c.to][c.msg] = IF Accepted(dup.status) THEN @ + 1 ELSE @]
  /\ olsr_forward_message(c)
  /\ UNCHANGED <<network, ttl_sent>>

Next ==
  \/ \E i \in Sent, ttl \in Ttls : Originate(i, ttl)
  \/ \E c \in air : parse_packet(c)

Spec == Init /\ [][Next]_vars
-----------------------------------------------------------------------------
\* Types; the ttl of a copy on the air is never used up.
TypeOK ==
  /\ air \subseteq Copy
  /\ \A n \in Nodes : {processing_set[n], forward_set[n]} \subseteq DupEntry \cup {NoEntry}
  /\ ttl_sent \in [Sent -> Ttls \cup {0}]

\* Nodes at most k hops away from the originator.
Within(k) ==
  LET ball[i \in 0 .. k] ==
        IF i = 0 THEN {Origin} ELSE UNION {{n} \cup Nbrs(network, n) : n \in ball[i - 1]}
  IN  ball[k]

\* When nothing is on the way any more, every node has processed every message that started
\* with enough ttl for any way around, although only MPRs forward it, whichever way it came
\* first, and also when the next message overtook it.
Flooded ==
  air = {} =>
    \A i \in Sent : ttl_sent[i] >= NodeCount =>
      \A n \in Within(NodeCount) \ {Origin} : processed[n][i] > 0

\* The filters of a node let a second copy pass for one message at most, the one that
\* created the entry, and never a third.
AtMostTwice ==
  \A n \in Nodes :
    /\ \A i \in Sent : processed[n][i] <= 2 /\ forwarded[n][i] <= 2
    /\ Cardinality({i \in Sent : processed[n][i] = 2}) <= 1
    /\ Cardinality({i \in Sent : forwarded[n][i] = 2}) <= 1

=============================================================================
