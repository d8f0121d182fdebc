------------------------------ MODULE ApiCalls ------------------------------
(***************************************************************************)
(* The calls of the adapters' APIs, other than send(): what each operation *)
(* refuses before anything leaves the bot, which requests are repeated,    *)
(* what becomes of their reports, and the mailbox (`reports`) where a      *)
(* report lies until its caller takes it, or a later put() finds it older  *)
(* than the mailbox keeps one.                                             *)
(*                                                                         *)
(* OneBot's requests travel over a websocket, where the report is another  *)
(* frame, or over HTTP, where send() puts the response in the queue that   *)
(* run() reads.  Milky and Feishu answer the request itself.               *)
(***************************************************************************)
EXTENDS Naturals, FiniteSets

CONSTANTS Callers,       \* tasks, each of which makes one call
          MaxAttempts    \* http_send(): how often Milky's requests are posted

ASSUME ApiAssumption == MaxAttempts \in Nat \ {0}

VARIABLES api,           \* "websocket", "http" (both OneBot), "milky", "feishu"
          call,          \* of each caller: [pc, manner, fills, attempt, done, report]
          link,          \* of each caller: what is under way, "nothing", "request", "report"
          mail           \* of each caller: the report that lies there, a set of one, or {}

apiVars == <<api, call, link, mail>>

-----------------------------------------------------------------------------
(* The operations, by manner:                                              *)
(*   told        the request is posted; its report is looked at by nobody  *)
(*   ordered     a report that is no success raises ActionFailedError      *)
(*   asked       the report is awaited and returned                        *)
(*   forwarded   ordered, and the report, which names the message, returned *)
(*   local       the adapter writes the report itself                      *)
(*   swallowed   a failure is passed over                                  *)
(*   caught      a failure becomes a report                                *)
(*   ignored, unsupported                                                  *)

OneBotMessages ==
  [del_message |-> "told", set_group_kick |-> "told", set_group_ban |-> "told",
   get_login_info |-> "asked", get_version_info |-> "asked", send_forward_msg |-> "asked",
   get_forward_msg |-> "asked", forward_solve |-> "asked", send_group_forward_msg |-> "asked"]
OneBotGroups ==
  [set_group_add_request |-> "told", get_stranger_info |-> "asked",
   get_group_member_info |-> "asked", get_group_info |-> "asked", get_status |-> "asked",
   set_essence_msg |-> "told", set_group_special_title |-> "told", get_msg |-> "asked",
   send_callback |-> "told"]
OneBotCustom == [custom |-> "told"]

MilkyMessages ==
  [del_message |-> "ordered", set_group_kick |-> "ordered", set_group_ban |-> "ordered",
   get_login_info |-> "asked", get_version_info |-> "asked", send_forward_msg |-> "unsupported",
   get_forward_msg |-> "asked", forward_solve |-> "asked", send_group_forward_msg |-> "forwarded"]
MilkyGroups ==
  [set_group_add_request |-> "ordered", get_stranger_info |-> "asked",
   get_group_member_info |-> "asked", get_group_info |-> "asked", get_status |-> "asked",
   set_essence_msg |-> "ordered", set_group_special_title |-> "ordered"]
MilkyOthers == [get_msg |-> "asked", send_callback |-> "unsupported", custom |-> "told"]

FeishuMessages ==
  [del_message |-> "swallowed", set_group_kick |-> "ignored", set_group_ban |-> "ignored",
   get_login_info |-> "local", get_version_info |-> "local", send_forward_msg |-> "unsupported",
   get_forward_msg |-> "unsupported", forward_solve |-> "ignored",
   send_group_forward_msg |-> "unsupported"]
FeishuGroups ==
  [set_group_add_request |-> "ignored", get_stranger_info |-> "asked",
   get_group_member_info |-> "local", get_group_info |-> "asked", get_status |-> "local",
   set_essence_msg |-> "ignored", set_group_special_title |-> "ignored", get_msg |-> "asked",
   send_callback |-> "ignored"]
FeishuCustom == [custom |-> "caught"]

And(f, g) == [op \in DOMAIN f \union DOMAIN g |-> IF op \in DOMAIN f THEN f[op] ELSE g[op]]

MannerOf(a) ==
  CASE a = "milky"  -> And(MilkyMessages, And(MilkyGroups, MilkyOthers))
    [] a = "feishu" -> And(FeishuMessages, And(FeishuGroups, FeishuCustom))
    [] OTHER        -> And(OneBotMessages, And(OneBotGroups, OneBotCustom))

\* _numeric_id(), msg_deid(), the flag of a request, the nodes of a forward:
\* what may be refused.  Feishu takes every id for a string.
Checks(a) ==
  {op \in DOMAIN MannerOf(a) :
     /\ a # "feishu" /\ op \notin {"get_login_info", "get_version_info", "send_forward_msg",
                                   "get_forward_msg", "get_status", "custom"}
     /\ a # "milky" => op # "set_group_add_request"
     /\ a = "milky" => op # "forward_solve"}

\* Where the adapter fills in what the platform's data leave out.
Fills(a) ==
  CASE a = "milky"  -> {"get_version_info", "get_stranger_info", "get_group_member_info",
                        "get_group_info", "get_status", "get_forward_msg", "forward_solve"}
    [] a = "feishu" -> DOMAIN MannerOf(a)
    [] OTHER        -> {"get_status", "get_forward_msg", "forward_solve", "send_forward_msg"}

-----------------------------------------------------------------------------
\* Data are "whole", in "part" or "none"; a failed request may have some.
Report(ok, data) == [ok |-> ok, data |-> data]
Failure == Report(FALSE, "none")
Reports == {Failure, Report(FALSE, "part"), Report(TRUE, "part"), Report(TRUE, "whole")}

\* Ret and the responses: no data make an object without fields, a missing
\* field a KeyError.
Builds(r, fills) == r.data # "part" \/ fills

ApiInit ==
  /\ api \in {"websocket", "http", "milky", "feishu"}
  /\ call = [c \in Callers |-> [pc |-> "idle", manner |-> "told", fills |-> FALSE,
                                attempt |-> 1, done |-> 0, report |-> Failure]]
  /\ link = [c \in Callers |-> "nothing"] /\ mail = [c \in Callers |-> {}]

Goes(c, pc) == call' = [call EXCEPT ![c].pc = pc]

\* A call that ends leaves nothing of itself but what it did and its report.
Ends(c, pc) == call' = [call EXCEPT ![c].pc = pc, ![c].report = Failure, ![c].fills = FALSE,
                                    ![c].attempt = 1]

\* put() drops what has lain there too long, whoever puts.
Kept(c) == {m \in mail[c] : ~m.old}
MailWith(c, r) == [[d \in Callers |-> Kept(d)] EXCEPT ![c] = {[report |-> r, old |-> FALSE]}]

StartPc(manner) == CASE manner = "unsupported" -> "refused"
                     [] manner = "ignored"     -> "returned"
                     [] manner = "local"       -> "reported"
                     [] OTHER                  -> "posting"

StartCall(c) ==
  /\ call[c].pc = "idle"
  /\ \E op \in DOMAIN MannerOf(api), good \in BOOLEAN :
       LET manner == MannerOf(api)[op]
       IN  call' = [call EXCEPT ![c].manner = manner, ![c].fills = op \in Fills(api),
                                ![c].pc = IF ~good /\ op \in Checks(api) THEN "refused"
                                          ELSE StartPc(manner),
                                ![c].report = IF manner = "local" THEN Report(TRUE, "whole")
                                              ELSE Failure]
  /\ UNCHANGED <<api, link, mail>>

Sent(c) == IF call[c].manner = "told" THEN "returned" ELSE "awaiting"

PostFrame(c) ==
  /\ api = "websocket" /\ call[c].pc = "posting"
  /\ \/ Goes(c, "raised") /\ UNCHANGED link
     \/ Goes(c, Sent(c)) /\ link' = [link EXCEPT ![c] = "request"]
  /\ UNCHANGED <<api, mail>>

\* Whether the platform did what it was told, whatever comes of its answer.
Carried(c, acted) == call[c].done + (IF acted THEN 1 ELSE 0)

Serve(c) ==
  /\ link[c] = "request" /\ link' = [link EXCEPT ![c] = "report"]
  /\ \E r \in Reports : call' = [call EXCEPT ![c].report = r, ![c].done = Carried(c, r.ok)]
  /\ UNCHANGED <<api, mail>>

\* httpx raises, or the response is no JSON: either way the platform may have acted.
PostHttp(c) ==
  /\ api = "http" /\ call[c].pc = "posting"
  /\ \E r \in Reports :
       \/ call' = [call EXCEPT ![c].pc = "raised", ![c].done = Carried(c, r.ok)] /\ UNCHANGED link
       \/ /\ call' = [call EXCEPT ![c].pc = Sent(c), ![c].report = r, ![c].done = Carried(c, r.ok)]
          /\ link' = [link EXCEPT ![c] = "report"]
  /\ UNCHANGED <<api, mail>>

\* (A plausible slip: attempts are counted from 0.)
LastFromZero(c) == call[c].attempt > MaxAttempts

LastAttempt(c) == call[c].attempt = MaxAttempts

\* http_send() posts again after an error of the transport, or a gateway's; a
\* response that is no JSON object counts as a failure.
PostMilky(c) ==
  /\ api = "milky" /\ call[c].pc = "posting"
  /\ \E r \in Reports, acted \in BOOLEAN :
       \/ /\ r.ok => acted
          /\ call' = [call EXCEPT ![c].pc = "reported", ![c].report = r,
                                  ![c].done = Carried(c, acted)]
       \/ call' = [call EXCEPT ![c].done = Carried(c, acted), ![c].report = Failure,
                               ![c].pc = IF LastAttempt(c) THEN "reported" ELSE "posting",
                               ![c].attempt = IF LastAttempt(c) THEN @ ELSE @ + 1]
  /\ UNCHANGED <<api, link, mail>>

\* FeishuClient: an HTTP error and a code other than 0 raise.
PostFeishu(c) ==
  /\ api = "feishu" /\ call[c].pc = "posting"
  /\ \E acted \in BOOLEAN, answered \in BOOLEAN :
       call' = [call EXCEPT
         ![c].done = IF acted THEN @ + 1 ELSE @,
         ![c].report = IF acted /\ answered THEN Report(TRUE, "whole") ELSE Failure,
         ![c].pc = CASE call[c].manner = "swallowed" -> "returned"
                     [] call[c].manner = "caught" -> "reported"
                     [] call[c].manner \notin {"swallowed", "caught"} /\ acted /\ answered ->
                          "reported"
                     [] OTHER -> "raised"]
  /\ UNCHANGED <<api, link, mail>>

\* (A plausible slip: any report counts as a success.)
AnyReport(r) == TRUE

Successful(r) == r.ok

\* send_to() and _put_result() put the report, whether or not anybody fetches it.
PutReport(c) ==
  /\ call[c].pc = "reported" /\ mail' = MailWith(c, call[c].report)
  /\ LET manner == call[c].manner  r == call[c].report
     IN  CASE manner = "ordered"   -> Ends(c, IF Successful(r) THEN "returned" ELSE "raised")
           [] manner = "forwarded" -> IF Successful(r) /\ r.data = "whole"
                                      THEN Goes(c, "fetching") ELSE Ends(c, "raised")
           [] manner \in {"told", "caught"} -> Ends(c, "returned")
           [] OTHER -> Goes(c, "fetching")
  /\ UNCHANGED <<api, link>>

\* OneBot's run() hands a frame or a response to its handler, or they are lost.
DeliverReport(c) ==
  /\ link[c] = "report" /\ link' = [link EXCEPT ![c] = "nothing"]
  /\ mail' = MailWith(c, call[c].report) /\ UNCHANGED <<api, call>>
LoseReport(c) ==
  /\ link[c] # "nothing" /\ link' = [link EXCEPT ![c] = "nothing"] /\ UNCHANGED <<api, call, mail>>

\* _fetch_ret(): OneBot awaits, the others take what they have put themselves.
FetchReport(c) ==
  /\ call[c].pc \in {"fetching", "awaiting"} /\ mail' = [mail EXCEPT ![c] = {}]
  /\ \E m \in mail[c] :
       Ends(c, IF Builds(m.report, call[c].fills) THEN "returned" ELSE "raised")
  /\ UNCHANGED <<api, link>>
AwaitTimeout(c) ==
  /\ call[c].pc = "awaiting" /\ Goes(c, "raised") /\ UNCHANGED <<api, link, mail>>

\* A fetch follows its put at once, and OneBot's deadline is below the mailbox's.
GrowOld(c) ==
  /\ call[c].pc \notin {"fetching", "awaiting"}
  /\ mail' = [mail EXCEPT ![c] = {[m EXCEPT !.old = TRUE] : m \in @}]
  /\ UNCHANGED <<api, call, link>>

CallStep(c) ==
  \/ StartCall(c) \/ PostFrame(c) \/ PostHttp(c) \/ PostMilky(c) \/ PostFeishu(c)
  \/ PutReport(c) \/ FetchReport(c) \/ AwaitTimeout(c)
ApiNext == \E c \in Callers : \/ CallStep(c) \/ GrowOld(c)
                              \/ Serve(c) \/ DeliverReport(c) \/ LoseReport(c)
ApiSpec == ApiInit /\ [][ApiNext]_apiVars

-----------------------------------------------------------------------------
ApiTypeOK ==
  /\ api \in {"websocket", "http", "milky", "feishu"}
  /\ \A c \in Callers :
       /\ call[c].pc \in {"idle", "refused", "posting", "reported", "fetching", "awaiting",
                          "returned", "raised"}
       /\ call[c].attempt \in 1..MaxAttempts /\ call[c].report \in Reports
       /\ link[c] \in {"nothing", "request", "report"}
       /\ Cardinality(mail[c]) < 2 /\ \A m \in mail[c] : m.report \in Reports

\* A call that is refused has not reached the platform; one whose report the
\* adapter looks at returns only when the platform has done what it was told;
\* a platform is asked once, and by Milky's adapter as often as it may repeat;
\* and who fetches what the adapter put finds it there, or would wait for ever.
CallsKeepTheirWord ==
  \A c \in Callers :
    /\ call[c].pc = "refused" => call[c].done = 0 /\ link[c] = "nothing"
    /\ call[c].pc = "returned" /\ call[c].manner \in {"ordered", "forwarded"} => call[c].done > 0
    /\ call[c].done <= (IF api = "milky" THEN MaxAttempts ELSE 1)
    /\ call[c].pc = "fetching" => mail[c] # {}
=============================================================================
