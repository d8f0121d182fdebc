-------------------------- MODULE EventTranslation --------------------------
(***************************************************************************)
(* From a frame of the platform to the answer of a handler: what the       *)
(* listener makes of the frame (MilkyHttpConnection.recv(), the OneBot     *)
(* __handler, build_hyper_event()), the event EventManager.new() makes of  *)
(* that, and the handler's answers, which know the event alone: a message  *)
(* sent to Target.from_event(), the decision on a request, and the         *)
(* resolution of a quoted or the event's own message in the conversation   *)
(* ConversationKey.from_event().                                           *)
(*                                                                         *)
(* `fact` is what happened on the platform and `lacks` what its report     *)
(* leaves out.  Peers number users and groups alike; on Feishu users have  *)
(* the peer number as open id and chats an id of their own.                *)
(***************************************************************************)
EXTENDS MessageIds

CONSTANTS Peers,      \* users and groups
          Numbers     \* sequence numbers of messages and of notifications

ASSUME FramesAssumption == Peers \subseteq 1..PeerSlot - 1 /\ Numbers \subseteq 0..SeqSlot - 1

VARIABLES protocol, fact, lacks,
          epc,        \* "framed", "translated", "handled", "dropped", "failed"
          data,       \* the dictionary of OneBot's form: a set of one, or {}
          event,      \* the Event object: a set of one, or {}
          replies,    \* where answers went: [kind, peer]
          accepted,   \* the notifications that were decided
          sought      \* what became of resolve_reference(): [which, status, message]

eventVars == <<protocol, fact, lacks, epc, data, event, replies, accepted, sought>>

-----------------------------------------------------------------------------
(* Facts and their reports. *)

JoinRequests == {"join", "invitation"}
Notices == {"group_increase", "group_decrease", "group_recall", "unheard"}
Carried(p) ==
  CASE p = "onebot" -> {"message", "meta"} \cup Notices \cup JoinRequests
    [] p = "milky"  -> {"message", "meta", "group_increase", "group_decrease"} \cup JoinRequests
    [] p = "feishu" -> {"message", "menu", "unheard"}

\* A direct message may reach the bot by way of a group (OneBot's temporary chats).
Facts(p) ==
  { f \in [what : Carried(p), kind : {"private", "group"}, chat : Peers,
           sender : Peers \cup {Self}, seq : Numbers, quote : {Absent} \cup Numbers,
           via : {Absent} \cup Peers, filtered : BOOLEAN] :
      /\ f.quote # Absent => f.what = "message"
      /\ f.via # Absent => p = "onebot" /\ f.what = "message" /\ f.kind = "private"
      /\ f.filtered => f.what \in JoinRequests
      /\ f.kind = "private" => f.what \in {"message", "menu"} /\ f.sender \in {f.chat, Self}
      /\ f.what = "menu" => f.kind = "private" /\ f.sender = f.chat }

\* The conversation of a group message is always reported.
Omissible(p, f) ==
  CASE p = "onebot" -> {"message_id", "message", "sender", "type"}
    [] p = "milky" /\ f.what = "message" ->
         {"segments", "scene", "sender_id", "message_seq", "seq"}
         \cup (IF f.kind = "private" THEN {"peer_id"} ELSE {})
    [] p = "milky" /\ f.what # "message" -> {"group_id", "user_id", "notification_seq"}
    [] p = "feishu" -> {"open_id"} \cup (IF f.kind = "private" THEN {"chat_type"} ELSE {})

Announced(f) == [group |-> f.chat, seq |-> f.seq, type |-> f.what, filtered |-> f.filtered]
Scene(f) == IF f.kind = "group" THEN 1 ELSE 0

-----------------------------------------------------------------------------
(* Dictionaries.  A conversation of Absent is filled in by the __handler.  *)

Entry(post, type, group, user) ==
  [post |-> post, type |-> type, group |-> group, user |-> user, conversation |-> Absent,
   id |-> Absent, quote |-> Absent, body |-> TRUE, sender |-> TRUE, flag |-> {}]

\* `message_seq or seq`: a number 0 counts as missing, unless "seq" has it too.
MilkyNumber(f, l) ==
  IF "message_seq" \notin l /\ f.seq # 0 THEN f.seq
  ELSE IF "seq" \notin l THEN f.seq ELSE Absent

\* (A plausible slip: replies are translated with the default scene.)
MilkyQuoteAsFriend(f, peer) ==
  IF f.quote \in {Absent, 0} THEN Absent ELSE Encode(0, f.quote, peer)

MilkyQuote(f, peer) ==
  IF f.quote \in {Absent, 0} THEN Absent ELSE Encode(Scene(f), f.quote, peer)

MilkyMessage(f, l) ==
  LET peer == IF "peer_id" \in l THEN f.sender ELSE f.chat
  IN  [Entry("message", f.kind, IF f.kind = "group" THEN peer ELSE 0, f.sender)
         EXCEPT !.id = Encode(Scene(f), MilkyNumber(f, l), peer),
                !.quote = MilkyQuote(f, peer)]

MilkyData(f, l) ==
  CASE f.what = "message" ->
         IF l \cap {"segments", "scene", "sender_id"} # {} \/ MilkyNumber(f, l) = Absent
         THEN {} ELSE {MilkyMessage(f, l)}
    [] f.what \in Notices ->
         IF l \cap {"group_id", "user_id"} # {} THEN {}
         ELSE {Entry("notice", f.what, f.chat, f.sender)}
    [] f.what \in JoinRequests ->
         IF l # {} THEN {}
         ELSE {[Entry("request", "group", f.chat, f.sender) EXCEPT !.flag = {Announced(f)}]}
    [] f.what = "meta" -> {}

\* The frame is the dictionary; what the bot does itself and meta events are no events.
OneBotData(f, l) ==
  IF f.what = "meta" \/ f.sender = Self THEN {}
  ELSE { LET post == CASE f.what = "message" -> "message"
                       [] f.what \in Notices -> "notice"
                       [] f.what \in JoinRequests -> "request"
             type == CASE post = "message" -> f.kind
                       [] post = "notice"  -> f.what
                       [] post = "request" -> "group"
         IN  [Entry(post, IF "type" \in l THEN "missing" ELSE type,
                    IF f.kind = "group" THEN f.chat ELSE f.via, f.sender)
                EXCEPT !.id = IF "message_id" \in l THEN Absent ELSE f.seq,
                       !.quote = f.quote, !.body = "message" \notin l, !.sender = "sender" \notin l,
                       !.flag = IF post = "request" THEN {Announced(f)} ELSE {}] }

\* Feishu: an unknown sender has an empty open id; a click in the bot's menu is
\* a private message with its own id.
FeishuData(f, l) ==
  LET user == IF "open_id" \in l THEN Absent ELSE f.sender
  IN  CASE f.what = "message" ->
             {[Entry("message", f.kind, IF f.kind = "group" THEN Chat("feishu", "group", f.chat) ELSE Absent, user)
                 EXCEPT !.conversation = Chat("feishu", f.kind, f.chat),
                        !.id = f.seq, !.quote = f.quote]}
        [] f.what = "menu" ->
             {[Entry("message", "private", Absent, user) EXCEPT !.conversation = user, !.id = f.seq]}
        [] f.what = "unheard" -> {}

Translated(p, f, l) == CASE p = "onebot" -> OneBotData(f, l)
                         [] p = "milky"  -> MilkyData(f, l)
                         [] p = "feishu" -> FeishuData(f, l)

\* __handler(): a group of 0 is none to Milky; Feishu sets the conversation itself.
DefaultConversation(p, d) ==
  IF d.conversation # Absent THEN d.conversation
  ELSE IF d.group # Absent /\ ~(p = "milky" /\ d.group = 0) THEN d.group ELSE d.user

-----------------------------------------------------------------------------
(* EventManager.new() and the constructors of the events. *)

EventClasses ==
  [message |-> {"private", "group"},
   notice  |-> {"group_upload", "group_admin", "group_decrease", "group_increase", "group_ban",
                "friend_add", "group_recall", "friend_recall", "notify", "essence", "reaction",
                "bot_menu", "bot_online"},
   request |-> {"friend", "group"}]

\* A class reads more than an Event does: the message's id, then its segments,
\* then its sender.  No type at all raises, and so does a missing id or sender.
HasClass(d) == d.type \in EventClasses[d.post]
NamesMessage == {"private", "group", "group_recall", "friend_recall", "essence", "reaction"}
Constructible(p, d) ==
  /\ d.type # "missing"
  /\ ~(p = "feishu" /\ d.user = Absent)
  /\ HasClass(d) /\ d.post # "request" /\ d.type \in NamesMessage => d.id # Absent
  /\ HasClass(d) /\ d.post = "message" /\ d.body => d.sender

\* A KeyError makes an UnrecognizedEvent: that of an unknown type, and as well
\* that of gen_message() over a message without segments.
Recognized(d) == HasClass(d) /\ (d.post = "message" => d.body)

\* (A plausible slip: a private message keeps the group it came by.)
KeepGroup(d) == d.group

\* Event.__init__(): the group of a private message is no group of the event.
EventGroup(d) == IF d.post = "message" /\ d.type = "private" THEN Absent ELSE d.group

Made(p, d) ==
  [post |-> d.post, group |-> EventGroup(d), user |-> d.user,
   conversation |-> DefaultConversation(p, d), id |-> IF Recognized(d) THEN d.id ELSE Absent,
   quote |-> IF Recognized(d) THEN d.quote ELSE Absent, flag |-> d.flag]

-----------------------------------------------------------------------------
(* What a handler makes of an event. *)

\* Target.from_event() and its send(): to the group if there is one, else to the user.
Target(e) == IF e.group # Absent THEN [kind |-> "group", peer |-> e.group]
             ELSE [kind |-> "private", peer |-> e.user]

\* ConversationKey.from_event()
Key(e) == [kind |-> IF e.group # Absent THEN "group" ELSE "private", peer |-> e.conversation]

\* Milky takes the conversation from the id; the others are told it by the
\* platform (reference_success()), which finds the message meant.
Resolution(p, f, e, id, seq) ==
  LET asked == IF p = "milky" THEN Unpacked(id) ELSE [kind |-> f.kind, seq |-> seq, peer |-> f.chat]
  IN  IF p = "milky" /\ NotPacked(id) THEN [status |-> "invalid", message |-> {}]
      ELSE IF [kind |-> asked.kind, peer |-> Chat(p, asked.kind, asked.peer)] # Key(e)
      THEN [status |-> "mismatch", message |-> {}]
      ELSE [status |-> "found", message |-> {asked}]

-----------------------------------------------------------------------------
EventInit ==
  /\ protocol \in Adapters /\ fact \in Facts(protocol) /\ lacks \in SUBSET Omissible(protocol, fact)
  /\ epc = "framed" /\ data = {} /\ event = {} /\ replies = {} /\ accepted = {} /\ sought = {}

Fixed == UNCHANGED <<protocol, fact, lacks>>

Receive ==
  /\ epc = "framed"
  /\ data' = Translated(protocol, fact, lacks)
  /\ epc' = IF data' = {} THEN "dropped" ELSE "translated"
  /\ Fixed /\ UNCHANGED <<event, replies, accepted, sought>>

\* What the constructor raises ends the thread of the event alone.
Construct ==
  /\ epc = "translated"
  /\ \E d \in data :
       IF Constructible(protocol, d)
       THEN event' = {Made(protocol, d)} /\ epc' = "handled"
       ELSE epc' = "failed" /\ UNCHANGED event
  /\ Fixed /\ UNCHANGED <<data, replies, accepted, sought>>

\* Feishu's chat ids are unpacked by the platform.
ReplyTo ==
  /\ epc = "handled" /\ replies = {}
  /\ \E e \in event :
       /\ Target(e).peer # Absent
       /\ replies' = IF protocol = "feishu" /\ Target(e).kind = "group"
                     THEN {c \in [kind : {"private", "group"}, peer : Peers] :
                             Chat("feishu", c.kind, c.peer) = Target(e).peer}
                     ELSE {Target(e)}
  /\ Fixed /\ UNCHANGED <<epc, data, event, accepted, sought>>

\* set_group_add_request() with the event's flag.
Decide ==
  /\ epc = "handled" /\ accepted = {}
  /\ \E e \in event : e.post = "request" /\ accepted' = e.flag
  /\ Fixed /\ UNCHANGED <<epc, data, event, replies, sought>>

Resolve(which) ==
  /\ epc = "handled" /\ ~\E s \in sought : s.which = which
  /\ \E e \in event :
       LET id  == IF which = "own" THEN e.id ELSE e.quote
           seq == IF which = "own" THEN fact.seq ELSE fact.quote
           r   == Resolution(protocol, fact, e, id, seq)
       IN  /\ e.post = "message" /\ id # Absent
           /\ sought' = sought \cup {[which |-> which, status |-> r.status, message |-> r.message]}
  /\ Fixed /\ UNCHANGED <<epc, data, event, replies, accepted>>

EventNext == Receive \/ Construct \/ ReplyTo \/ Decide \/ Resolve("own") \/ Resolve("quoted")
EventSpec == EventInit /\ [][EventNext]_eventVars

-----------------------------------------------------------------------------
EventTypeOK ==
  /\ protocol \in Adapters /\ fact \in Facts(protocol) /\ lacks \subseteq Omissible(protocol, fact)
  /\ epc \in {"framed", "translated", "handled", "dropped", "failed"}
  /\ accepted \subseteq {Announced(fact)}
  /\ \A r \in replies : r.kind \in {"private", "group"} /\ r.peer \in Peers \cup {Self}

\* What a handler answers reaches whom the event is about: a message by anybody
\* but the bot is answered in its own conversation, a notice or a request in its
\* group, and the decision on a request is on the notification it announced.
AnswerGoesBack ==
  /\ fact.sender # Self => replies \subseteq {[kind |-> fact.kind, peer |-> fact.chat]}
  /\ accepted \subseteq {Announced(fact)}

\* A handler that resolves the event's own message, or the one it quotes, in the
\* conversation of the event finds that very message, on Milky but for the bits
\* of its number that msg_deid() masks out.  Message 0 of a direct
\* chat has no id Milky could unpack, a click in a menu is no message, and a
\* message that came by way of a group has the group as its conversation.
QuoteResolves ==
  fact.what = "message" /\ fact.sender # Self /\ fact.via = Absent =>
    \A s \in sought :
      LET seq == IF s.which = "own" THEN fact.seq ELSE fact.quote
      IN  \/ s.message = {ReadAs(protocol, [kind |-> fact.kind, seq |-> seq, peer |-> fact.chat])}
          \/ protocol = "milky" /\ fact.kind = "private" /\ seq = 0
=============================================================================
