------------------------------ MODULE MilkySend ------------------------------
(***************************************************************************)
(* Actions.send() of the Milky adapter: a message that is too long, or     *)
(* that the server refuses, is sent in other forms (Milky.py), and every   *)
(* request is repeated when its answer is lost (MilkyLib/translator.py).   *)
(*                                                                         *)
(* Of a text only the positions count: a chunk is the first and the last   *)
(* of its characters, numbered from 1, and a line is known by the position *)
(* of its end.  The server is open: it may process a request whose answer  *)
(* is lost, and refuse or fail as it likes.                                *)
(***************************************************************************)
EXTENDS Integers, Sequences, SequencesExt

CONSTANTS
  Texts,          \* a set of texts, each the ends of its lines
  Limit,          \* MILKY_TEXT_CHUNK_LIMIT
  RecoveryLimit,  \* MILKY_TEXT_RECOVERY_CHUNK_LIMIT
  Attempts,       \* of http_send()
  MaxFaults       \* bound: requests without a good answer

ASSUME MilkySendAssumption ==
  /\ {Limit, RecoveryLimit, Attempts} \subseteq Nat \ {0}
  /\ MaxFaults \in Nat /\ Texts \subseteq Seq(Nat \ {0})
  /\ \A text \in Texts : \A i \in 2 .. Len(text) : text[i - 1] < text[i]

VARIABLES
  msg,        \* the message: its text, and how many replies and other segments
  spc,        \* where send() is
  plan,       \* the form that is being sent
  rest,       \* the payloads of that form from the current one on
  packet,     \* number of the current packet, for its echo
  attempt,    \* of the current packet
  res,        \* the last answer
  adopted,    \* the packet and answer that send() goes by
  reports,    \* answers that wait under their echo
  received,   \* what the server has processed, in order
  faults

svars == <<msg, spc, plan, rest, packet, attempt, res, adopted, reports, received, faults>>

Length(text) == IF text = <<>> THEN 0 ELSE Last(text)
Chars(first, last) == [first |-> first, last |-> last]

Messages == [text : Texts, replies : 0 .. 2, others : 0 .. 1]

Whole(m) == [replies |-> m.replies, text |-> Chars(1, Length(m.text)), others |-> m.others]
WithoutReply(m) == [m EXCEPT !.replies = 0]

----------------------------------------------------------------------------
(* Forms of a message.                                                      *)

\* A line from `first` to `last`, cut regardless of what is in it.
Slices(first, last, limit) ==
  LET n == (last - first) \div limit + 1
  IN [k \in 1 .. n |->
        Chars(first + (k - 1) * limit, IF k = n THEN last ELSE first + k * limit - 1)]

\* The chunks when `current`, from `acc.from` to `end`, is one of them.
Flushed(acc, end) ==
  IF acc.from > end THEN acc.chunks ELSE Append(acc.chunks, Chars(acc.from, end))

\* One more line, from `first` to `last`; lines stay together where they fit.
AddLine(acc, first, last, limit) ==
  IF last - first + 1 > limit
  THEN [chunks |-> Flushed(acc, first - 1) \o Slices(first, last, limit), from |-> last + 1]
  ELSE IF last - acc.from + 1 > limit
  THEN [chunks |-> Flushed(acc, first - 1), from |-> first]
  ELSE acc

\* _split_text().
SplitText(text, limit) ==
  LET lines[i \in 0 .. Len(text)] ==
        IF i = 0 THEN [chunks |-> <<>>, from |-> 1]
        ELSE AddLine(lines[i - 1], IF i = 1 THEN 1 ELSE text[i - 1] + 1, text[i], limit)
  IN IF Length(text) <= limit THEN <<Chars(1, Length(text))>>
     ELSE Flushed(lines[Len(text)], Length(text))

\* _text_chunk_payloads(): nothing unless the message is text, with a reply at
\* most, of several chunks.  A reply goes with the first one.
ChunkPayloads(m, limit) ==
  LET chunks == SplitText(m.text, limit)
  IN IF m.others > 0 \/ m.replies > 1 \/ Len(chunks) <= 1 THEN <<>>
     ELSE [i \in 1 .. Len(chunks) |->
             [replies |-> IF i = 1 THEN m.replies ELSE 0, text |-> chunks[i], others |-> 0]]

Payloads(m) ==
  IF ChunkPayloads(m, Limit) # <<>> THEN ChunkPayloads(m, Limit) ELSE <<Whole(m)>>

----------------------------------------------------------------------------
Answers == [kind : {"ok", "no_seq", "rejection", "failure"}, seq : Nat]
Successful(answer) == answer.kind \in {"ok", "no_seq"}
NoAnswer == [packet |-> 0, res |-> [kind |-> "failure", seq |-> 0]]

SInit ==
  /\ msg \in Messages
  /\ spc = "start" /\ plan = "first" /\ rest = <<>>
  /\ packet = 0 /\ attempt = 1
  /\ res = NoAnswer.res /\ adopted = NoAnswer
  /\ reports = {} /\ received = <<>> /\ faults = 0

SendForm(name, payloads) ==
  /\ plan' = name
  /\ rest' = payloads
  /\ packet' = packet + 1
  /\ attempt' = 1
  /\ spc' = "posting"
  /\ UNCHANGED <<msg, res, reports, received, faults>>

\* A segment cannot be converted, there is none, or there is no target.
Refuse ==
  /\ spc = "start"
  /\ spc' = "refused"
  /\ UNCHANGED <<msg, plan, rest, packet, attempt, res, adopted, reports, received, faults>>

Begin ==
  /\ spc = "start"
  /\ Whole(msg) # [replies |-> 0, text |-> Chars(1, 0), others |-> 0]
  /\ SendForm("first", Payloads(msg))
  /\ UNCHANGED adopted

(***************************************************************************)
(* One request of http_send().  A connection or read error, and a 502, 503 *)
(* or 504 of a gateway, lose the answer: the request is repeated, without  *)
(* regard to whether the server has processed it.  Codes 400 and 500 are   *)
(* rejections of the payload, also when a crash of the server sends them.  *)
(***************************************************************************)
Repeats(answer) == answer = "lost" /\ attempt < Attempts

Post(answer, processed) ==
  /\ spc = "posting"
  /\ answer \in {"ok", "no_seq"} => processed
  /\ answer # "ok" => faults < MaxFaults
  /\ faults' = IF answer = "ok" THEN faults ELSE faults + 1
  /\ received' = IF processed THEN Append(received, Head(rest)) ELSE received
  /\ IF Repeats(answer)
     THEN attempt' = attempt + 1 /\ UNCHANGED <<spc, res, reports>>
     ELSE /\ res' = [kind |-> IF answer = "lost" THEN "failure" ELSE answer,
                     seq |-> IF answer = "ok" THEN Len(received') ELSE 0]
          /\ reports' = reports \union {[packet |-> packet, res |-> res']}
          /\ spc' = "answered"
          /\ UNCHANGED attempt
  /\ UNCHANGED <<msg, plan, rest, packet, adopted>>

\* (A plausible slip: a chunk is sent although the one before it failed.)
ChunksGoOn == Len(rest) > 1

\* _send_text_chunks() stops at the first failure.
MoreChunks == Successful(res) /\ Len(rest) > 1

NextChunk ==
  /\ spc = "answered" /\ MoreChunks
  /\ SendForm(plan, Tail(rest))
  /\ UNCHANGED adopted

----------------------------------------------------------------------------
(* The end of a form.  Another one counts only when it succeeds.            *)

FormEnds == spc = "answered" /\ ~MoreChunks
Outcome == IF plan = "first" \/ Successful(res) THEN [packet |-> packet, res |-> res] ELSE adopted

FallsBack ==
  /\ plan = "first" /\ Outcome.res.kind = "rejection"
  /\ msg.replies > 0 /\ (msg.text # <<>> \/ msg.others > 0)

Fallback ==
  /\ FormEnds /\ FallsBack
  /\ adopted' = Outcome
  /\ SendForm("fallback", Payloads(WithoutReply(msg)))

Smaller == ChunkPayloads(WithoutReply(msg), RecoveryLimit)
Recovers == plan # "recovery" /\ ~FallsBack /\ ~Successful(Outcome.res) /\ Smaller # <<>>

Recover ==
  /\ FormEnds /\ Recovers
  /\ adopted' = Outcome
  /\ SendForm("recovery", Smaller)

Conclude ==
  /\ FormEnds /\ ~FallsBack /\ ~Recovers
  /\ adopted' = Outcome
  /\ spc' = IF Outcome.res.kind = "ok" THEN "fetching" ELSE "failed"
  /\ UNCHANGED <<msg, plan, rest, packet, attempt, res, reports, received, faults>>

\* _fetch_ret(): reports.get() without a deadline, on the thread of the loop.
Fetch ==
  /\ spc = "fetching"
  /\ \E report \in reports :
       /\ report.packet = adopted.packet
       /\ reports' = reports \ {report}
       /\ res' = report.res
  /\ spc' = "returned"
  /\ UNCHANGED <<msg, plan, rest, packet, attempt, adopted, received, faults>>

SNext ==
  \/ Refuse \/ Begin
  \/ \E answer \in {"ok", "no_seq", "rejection", "failure", "lost"}, processed \in BOOLEAN :
       Post(answer, processed)
  \/ NextChunk \/ Fallback \/ Recover \/ Conclude \/ Fetch

\* A request ends after its timeout at the latest.
SFairness == WF_svars(SNext)
SSpec == SInit /\ [][SNext]_svars /\ SFairness

----------------------------------------------------------------------------
Payload == [replies : 0 .. 2, text : [first : Nat, last : Nat], others : 0 .. 1]
Packets == [packet : Nat, res : Answers]

STypeOK ==
  /\ msg \in Messages
  /\ spc \in {"start", "posting", "answered", "fetching", "returned", "failed", "refused"}
  /\ plan \in {"first", "fallback", "recovery"}
  /\ rest \in Seq(Payload) /\ (spc \in {"posting", "answered"} => rest # <<>>)
  /\ packet \in Nat /\ attempt \in 1 .. Attempts
  /\ res \in Answers /\ adopted \in Packets /\ reports \subseteq Packets
  /\ received \in Seq(Payload) /\ faults \in 0 .. MaxFaults

\* What may follow a chunk: the same again, or the one that goes on where it ends.
Follows(q, p) == q = p \/ q.text.first = p.text.last + 1

\* Whatever is lost, refused or sent again, the recipient never sees a part of
\* the text before the part that precedes it: each chunk begins the text,
\* repeats the chunk before it, or goes on where that one ends.
NoGaps ==
  \A i \in 1 .. Len(received) :
    \/ received[i].text.first = 1
    \/ i > 1 /\ Follows(received[i], received[i - 1])

\* When send() returns, the last thing that the recipient has seen is the whole
\* message, up to repetitions of a chunk, in the form without the reply only
\* after a fault; and the id is that of the message with its last chunk.
Delivered ==
  spc = "returned" =>
    /\ res.seq = Len(received)
    /\ Len(received) > 0 /\ Last(received).text.last = Length(msg.text)
    /\ \E k \in 1 .. Len(received) :
         /\ \A i \in k + 1 .. Len(received) : Follows(received[i], received[i - 1])
         /\ received[k].text.first = 1 /\ received[k].others = msg.others
         /\ received[k].replies = msg.replies \/ faults > 0

\* send() returns or raises, whatever is lost; it does not wait for a report.
SendEnds == <>(spc \in {"returned", "failed", "refused"})
=============================================================================
