------------------------------ MODULE FeishuSend ------------------------------
(***************************************************************************)
(* Actions.send() of the Feishu adapter: images and records go first, each *)
(* as a message of its own; what is text, and a notice for each part that  *)
(* could not be sent, goes last as one message, the only one that can be a *)
(* reply.                                                                  *)
(***************************************************************************)
EXTENDS Naturals, Sequences, SequencesExt

CONSTANT MaxParts   \* bound: parts of a message

ASSUME FeishuSendAssumption == MaxParts \in Nat

VARIABLES
  parts,      \* the segments: replies, media (images, records), text (all others), blanks
  upc,        \* where send() is
  at,         \* the segment that send() is at
  replyTo,    \* reply_to_id, a segment; 0 is None
  textParts,  \* the segments that have gone into text_parts
  sentIds,    \* sent_message_ids; 0 is an empty id
  chat,       \* the messages in the conversation: what they show, what they answer
  returnedId

uvars == <<parts, upc, at, replyTo, textParts, sentIds, chat, returnedId>>

PartKinds == {"reply", "media", "text", "blank"}

UInit ==
  /\ parts \in UNION {[1 .. n -> PartKinds] : n \in 0 .. MaxParts}
  /\ upc = "parts" /\ at = 1
  /\ replyTo = 0 /\ textParts = <<>> /\ sentIds = <<>>
  /\ chat = <<>> /\ returnedId = 0

\* Neither group_id nor user_id.
NoTarget ==
  /\ upc = "parts" /\ at = 1
  /\ upc' = "raised"
  /\ UNCHANGED <<parts, at, replyTo, textParts, sentIds, chat, returnedId>>

AtPart(kind) == upc = "parts" /\ at <= Len(parts) /\ parts[at] = kind
NextPart == upc' = "parts" /\ at' = at + 1 /\ UNCHANGED <<parts, returnedId>>

TakeReply ==
  /\ AtPart("reply") /\ NextPart
  /\ replyTo' = at
  /\ UNCHANGED <<textParts, sentIds, chat>>

TakeText ==
  /\ AtPart("text") \/ AtPart("blank")
  /\ NextPart
  /\ textParts' = Append(textParts, at)
  /\ UNCHANGED <<replyTo, sentIds, chat>>

\* upload_image(), upload_audio(), or the file is a key of Feishu already.
Uploaded ==
  /\ AtPart("media")
  /\ upc' = "sending"
  /\ UNCHANGED <<parts, at, replyTo, textParts, sentIds, chat, returnedId>>

\* What a request that is processed adds to the conversation.
Shown(processed, message) == IF processed THEN Append(chat, message) ELSE chat
ItsId(message, hasId) == IF hasId THEN Len(chat) + 1 ELSE 0

Media == [of |-> <<at>>, answers |-> 0]

SendMedia(hasId) ==
  /\ upc = "sending" /\ NextPart
  /\ chat' = Shown(TRUE, Media)
  /\ sentIds' = Append(sentIds, ItsId(Media, hasId))
  /\ UNCHANGED <<replyTo, textParts>>

Notice == Append(textParts, at)

UploadFails ==
  /\ AtPart("media") /\ NextPart
  /\ textParts' = Notice
  /\ UNCHANGED <<replyTo, sentIds, chat>>

\* Also when the message is there and only the answer is lost.
SendFails(processed) ==
  /\ upc = "sending" /\ NextPart
  /\ chat' = Shown(processed, Media)
  /\ textParts' = Notice
  /\ UNCHANGED <<replyTo, sentIds>>

----------------------------------------------------------------------------
Text == [of |-> textParts, answers |-> replyTo]
PartsDone == upc = "parts" /\ at > Len(parts)

\* The text is stripped.
HasText == \E i \in 1 .. Len(textParts) : parts[textParts[i]] # "blank"

NoText ==
  /\ PartsDone /\ ~HasText
  /\ upc' = "concluding"
  /\ UNCHANGED <<parts, at, replyTo, textParts, sentIds, chat, returnedId>>

SendText(hasId) ==
  /\ PartsDone /\ HasText
  /\ upc' = "concluding"
  /\ chat' = Shown(TRUE, Text)
  /\ sentIds' = Append(sentIds, ItsId(Text, hasId))
  /\ UNCHANGED <<parts, at, replyTo, textParts, returnedId>>

\* The exception reaches the caller, whatever has been sent already.
TextFails(processed) ==
  /\ PartsDone /\ HasText
  /\ upc' = "raised"
  /\ chat' = Shown(processed, Text)
  /\ UNCHANGED <<parts, at, replyTo, textParts, sentIds, returnedId>>

\* The id is the last that is not empty; _put_result() and _fetch_ret() hand it
\* over under an echo of its own.
LastId ==
  LET filled == {i \in 1 .. Len(sentIds) : sentIds[i] # 0}
  IN IF filled = {} THEN 0 ELSE sentIds[Max(filled)]

Hand ==
  /\ upc = "concluding"
  /\ upc' = "returned"
  /\ returnedId' = LastId
  /\ UNCHANGED <<parts, at, replyTo, textParts, sentIds, chat>>

UNext ==
  \/ NoTarget \/ TakeReply \/ TakeText \/ Uploaded \/ UploadFails \/ NoText \/ Hand
  \/ \E hasId \in BOOLEAN : SendMedia(hasId) \/ SendText(hasId)
  \/ \E processed \in BOOLEAN : SendFails(processed) \/ TextFails(processed)

USpec == UInit /\ [][UNext]_uvars

----------------------------------------------------------------------------
UTypeOK ==
  /\ upc \in {"parts", "sending", "concluding", "returned", "raised"}
  /\ at \in 1 .. MaxParts + 1 /\ replyTo \in 0 .. MaxParts
  /\ textParts \in Seq(1 .. MaxParts)
  /\ sentIds \in Seq(0 .. MaxParts + 1) /\ returnedId \in 0 .. MaxParts + 1
  /\ chat \in Seq([of : Seq(1 .. MaxParts), answers : 0 .. MaxParts])

\* When send() returns, every part of the message is in the conversation, by
\* itself or in the text, in which the parts keep their order; the id is that of a
\* message of the conversation; and a reply is kept if there is any text.
EachPartShown ==
  upc = "returned" =>
    /\ \A i \in 1 .. Len(parts) :
         parts[i] \in {"media", "text"} => \E k \in 1 .. Len(chat) : Contains(chat[k].of, i)
    /\ \A k \in 1 .. Len(chat) : \A i, j \in 1 .. Len(chat[k].of) :
         i < j => chat[k].of[i] < chat[k].of[j]
    /\ returnedId # 0 => returnedId \in 1 .. Len(chat)
    /\ (\E i \in 1 .. Len(parts) : parts[i] = "reply") /\ HasText
         => parts[Last(chat).answers] = "reply"
=============================================================================
