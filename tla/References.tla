----------------------------- MODULE References -----------------------------
(***************************************************************************)
(* The message a reply refers to: resolve_reference() of the OneBot, Milky *)
(* and Feishu adapters with the helpers of adapters/resolution.py, and the *)
(* recall of a message by its id (del_message()).  The caller says which   *)
(* conversation it expects the message to be of; the platform answers,     *)
(* fails or stays silent, and messages vanish while it is asked.  What the *)
(* platform says of a message may lack parts.                              *)
(***************************************************************************)
EXTENDS MessageIds, Sequences, SequencesExt

CONSTANTS Messages    \* the messages of the platform: [kind, peer, seq]

Malformed == -1       \* an id that is no decimal number

ASSUME MessagesAssumption ==
  Messages \subseteq [kind : {"private", "group"}, seq : 0..SeqSlot - 1,
                     peer : (0..PeerSlot - 1) \ {Self}]

VARIABLES adapter,    \* the adapter that is asked
          request,    \* [protocol, id, timeout, kind, peer]: what it is asked
          rpc,        \* "start", "asked", "done"
          asked,      \* the message the platform is asked for: a set of one, or {}
          result,     \* [status, code, found]; before the end, Pending
          store,      \* the messages that exist
          meant, hit  \* the messages whose recall was wanted; the recalled ones

refVars == <<adapter, request, rpc, asked, result, store, meant, hit>>

-----------------------------------------------------------------------------
(* What is refused before the platform is asked, in each adapter's order. *)

Wrong(status, code) == [status |-> status, code |-> code, found |-> {}]
Pending == Wrong("pending", "none")
Rejected(code) == Wrong("rejected", code)

OtherProtocol(q) == <<~q.protocol, Rejected("conversation_mismatch")>>
BadTimeout(q)    == <<~q.timeout, Rejected("invalid_timeout")>>
BadId(wrong)     == <<wrong, Rejected("invalid_id")>>

\* Milky knows the conversation from the id alone.
OtherConversation(q) ==
  <<Unpacked(q.id).kind # q.kind \/ PeerOf(q.id) # q.peer, Rejected("conversation_mismatch")>>

Refusals(a, q) ==
  CASE a = "onebot" -> <<OtherProtocol(q), BadTimeout(q), BadId(q.id = Malformed)>>
    [] a = "feishu" -> <<OtherProtocol(q), BadId(q.id = Malformed), BadTimeout(q)>>
    [] a = "milky"  ->
         IF q.id = Malformed \/ NotPacked(q.id)
         THEN <<OtherProtocol(q), BadId(TRUE)>>
         ELSE <<OtherProtocol(q), OtherConversation(q), BadTimeout(q)>>

First(checks) == SelectInSeq(checks, LAMBDA c : c[1])   \* 0: none applies

\* The id of a platform without packed ids names a message by its place.
NamedBy(a, id) == IF a = "milky" THEN Unpacked(id)
                  ELSE CHOOSE m \in Messages : IdOf(m) = id
Known(a, id) == a = "milky" \/ \E m \in Messages : IdOf(m) = id

-----------------------------------------------------------------------------
(* reference_success(): the identity the platform reported, against the    *)
(* expected one.                                                           *)

\* (A plausible slip: only the kind of conversation is compared.)
ConcludeByKind(q, kind, chat, sender, m) ==
  IF chat = Absent \/ sender = Absent THEN Wrong("error", "malformed_response")
  ELSE IF kind # q.kind THEN Rejected("conversation_mismatch")
  ELSE [status |-> "ok", code |-> "none", found |-> {m}]

Conclude(q, kind, chat, sender, m) ==
  IF chat = Absent \/ sender = Absent THEN Wrong("error", "malformed_response")
  ELSE IF kind # q.kind \/ chat # Chat(adapter, q.kind, q.peer)
  THEN Rejected("conversation_mismatch")
  ELSE [status |-> "ok", code |-> "none", found |-> {m}]

Reported(x) == {x, Absent}
Senders(m) == IF m.kind = "private" THEN {m.peer, Self, Absent} ELSE {m.peer, Absent}

\* onebot_reference_identity(): a private message is of its target, or of its
\* sender unless that is the bot.  An unknown kind or peer is malformed.
OneBotResults(q, m) ==
  { Conclude(q, m.kind,
             IF m.kind = "group" \/ target # Absent THEN target
             ELSE IF sender = Self THEN Absent ELSE sender, sender, m)
      : target \in Reported(m.peer), sender \in Senders(m) }
  \cup { Wrong("error", "malformed_response") }

\* Feishu: what is not reported as a direct chat is taken for a group.
FeishuResults(q, m) ==
  { Conclude(q, IF type = "private" THEN "private" ELSE "group", chat, sender, m)
      : type \in {m.kind, "unreported"}, chat \in Reported(Chat("feishu", m.kind, m.peer)), sender \in Senders(m) }
  \cup { Wrong("error", "malformed_response") }

\* Milky: the conversation is the id's, whatever the answer says of it.
MilkyResults(q, m) ==
  { Conclude(q, m.kind, PeerOf(q.id), sender, m) : sender \in Senders(m) }

Results(a, q, m) == CASE a = "onebot" -> OneBotResults(q, m)
                      [] a = "feishu" -> FeishuResults(q, m)
                      [] a = "milky"  -> MilkyResults(q, m)
Failures(a) == {Wrong("error", "upstream_error")}
               \cup (IF a = "feishu" THEN {Wrong("not_found", "reference_not_found"),
                                           Wrong("error", "malformed_response")} ELSE {})

-----------------------------------------------------------------------------
Ids == {Malformed} \cup 0..Encode(2, SeqSlot - 1, PeerSlot - 1)
Requests == [protocol : BOOLEAN, timeout : BOOLEAN, id : Ids,
             kind : {"private", "group"}, peer : (1..PeerSlot - 1) \ {Self}]

RefInit ==
  /\ adapter \in Adapters
  /\ request \in Requests
  /\ rpc = "start" /\ asked = {} /\ result = Pending
  /\ store = Messages /\ meant = {} /\ hit = {}

Keep == UNCHANGED <<adapter, request>>

Refuse ==
  /\ rpc = "start" /\ First(Refusals(adapter, request)) > 0
  /\ result' = Refusals(adapter, request)[First(Refusals(adapter, request))][2]
  /\ rpc' = "done" /\ Keep /\ UNCHANGED <<asked, store, meant, hit>>

Ask ==
  /\ rpc = "start" /\ First(Refusals(adapter, request)) = 0
  /\ asked' = IF Known(adapter, request.id) THEN {NamedBy(adapter, request.id)} ELSE {}
  /\ rpc' = "asked" /\ Keep /\ UNCHANGED <<result, store, meant, hit>>

\* The platform answers for a message that exists, ...
Answered ==
  /\ rpc = "asked"
  /\ \E m \in asked \cap store : result' \in Results(adapter, request, m)
  /\ rpc' = "done" /\ Keep /\ UNCHANGED <<asked, store, meant, hit>>

\* ... or reports an error, raises, or stays silent until the deadline.
Failed ==
  /\ rpc = "asked"
  /\ result' \in Failures(adapter) \cup {Wrong("error", "timeout")}
  /\ rpc' = "done" /\ Keep /\ UNCHANGED <<asked, store, meant, hit>>

\* del_message(): the bot recalls a message by the id it has of it.
Recall(m) ==
  /\ adapter = "milky" /\ m \in Messages /\ m \notin meant
  /\ ~NotPacked(IdOf(m))
  /\ meant' = meant \cup {m}
  /\ LET x == Unpacked(IdOf(m))
     IN  store' = store \ {x} /\ hit' = hit \cup (store \cap {x})
  /\ Keep /\ UNCHANGED <<rpc, asked, result>>

\* Anybody else on the platform deletes a message.
Vanish(m) ==
  /\ rpc # "done" /\ m \in store
  /\ store' = store \ {m} /\ Keep /\ UNCHANGED <<rpc, asked, result, meant, hit>>

RefNext == Refuse \/ Ask \/ Answered \/ Failed \/ (\E m \in Messages : Recall(m) \/ Vanish(m))
RefSpec == RefInit /\ [][RefNext]_refVars

-----------------------------------------------------------------------------
RefTypeOK ==
  /\ adapter \in Adapters /\ request \in Requests
  /\ rpc \in {"start", "asked", "done"}
  /\ store \subseteq Messages /\ meant \subseteq Messages /\ hit \subseteq Messages
  /\ result # Pending <=> rpc = "done"

\* A resolved reference is a message of the conversation the caller expects, and
\* the one its id names, on Milky but for the bits of its number that msg_deid()
\* masks out: neither what the platform leaves out nor an id of another
\* conversation leads to a message of somebody else's.
SameConversation ==
  rpc = "done" /\ result.status = "ok" =>
    /\ \A m \in result.found : m.kind = request.kind /\ m.peer = request.peer
    /\ \A m \in Messages : request.id = IdOf(m) => result.found = {ReadAs(adapter, m)}

\* A recall by the id the bot got for a message deletes no message of another
\* conversation, and in this one the message itself, if the mask of msg_deid()
\* holds its number.  Nothing keeps the number below the mask: of a larger one
\* the recall hits the message whose number is what the mask leaves of it.
RecallHitsNamed ==
  \A x \in hit : \E m \in meant :
    /\ x.kind = m.kind /\ x.peer = m.peer
    /\ IF m.seq < SeqMask THEN x = m ELSE x.seq < m.seq /\ (m.seq - x.seq) % SeqMask = 0
=============================================================================
