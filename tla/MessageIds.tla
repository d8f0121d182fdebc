----------------------------- MODULE MessageIds -----------------------------
(***************************************************************************)
(* The ids of messages and conversations.  Milky has no message ids: the   *)
(* adapter packs scene, sequence number and peer in one integer            *)
(* (msg_enid(), msg_deid()).  The widths are scaled down: PeerSlot stands  *)
(* for 2^64, SeqSlot for the 2^64 that msg_enid() leaves for the sequence  *)
(* number, SeqMask for the 2^32 that msg_deid() reads of it, SceneMask for *)
(* 2^16.                                                                   *)
(***************************************************************************)
EXTENDS Integers

CONSTANTS Self,       \* the peer number of the bot itself
          PeerSlot, SeqSlot, SeqMask, SceneMask

ASSUME IdsAssumption ==
  /\ PeerSlot \in Nat /\ SeqMask \in Nat /\ SeqSlot \in Nat /\ SceneMask \in Nat
  /\ 1 < PeerSlot /\ 1 < SeqMask /\ SeqMask < SeqSlot /\ 1 < SceneMask
  /\ SeqSlot % SeqMask = 0
  /\ Self \in 0..PeerSlot - 1

Adapters == {"onebot", "milky", "feishu"}
Kinds == <<"private", "group">>       \* by scene: 0 and 1
Absent == -2                          \* what the platform leaves out

\* (A plausible slip: the scene packed above the 32 bits that are read of the number.)
EncodeNarrow(scene, seq, peer) == (scene * SeqMask + seq) * PeerSlot + peer

Encode(scene, seq, peer) == (scene * SeqSlot + seq) * PeerSlot + peer
SceneOf(id) == (id \div (SeqSlot * PeerSlot)) % SceneMask
SequenceOf(id) == (id \div PeerSlot) % SeqMask
PeerOf(id)  == id % PeerSlot
SceneNumber(m) == IF m.kind = "group" THEN 1 ELSE 0
IdOf(m) == Encode(SceneNumber(m), m.seq, m.peer)

\* An id below 2^64 is not packed: neither is that of message 0 of a direct chat.
NotPacked(id) == id < PeerSlot \/ SceneOf(id) > 1

\* The message the platform is asked for by an id that msg_deid() unpacks.  What
\* is packed in 64 bits and read with a mask of 32 is another number above it.
Unpacked(id) == [kind |-> Kinds[SceneOf(id) + 1], seq |-> SequenceOf(id), peer |-> PeerOf(id)]

\* The message an adapter comes to by the id of m: Milky's is told by what
\* the mask leaves of its number.
ReadAs(a, m) == IF a = "milky" THEN [m EXCEPT !.seq = m.seq % SeqMask] ELSE m

\* Feishu's chat ids name direct chats and groups alike, the other platforms
\* number users and groups apart.
Chat(a, kind, peer) == IF a # "feishu" THEN peer
                       ELSE 2 * peer + (IF kind = "group" THEN 1 ELSE 0)
=============================================================================
