----------------------------- MODULE FeishuToken -----------------------------
(***************************************************************************)
(* get_tenant_access_token() of the Feishu client: handler threads share a *)
(* token and its expiry, two attributes that no lock guards.               *)
(*                                                                         *)
(* A token is told from others by the time at which it ends to be valid.   *)
(* The server says how long that is with each answer: it may issue a new   *)
(* token or repeat the one it has issued, with what is left of its life,   *)
(* and may leave either of the two out.                                    *)
(***************************************************************************)
EXTENDS Naturals

CONSTANTS
  Clients,    \* threads that are about to make a request
  Lives,      \* what may be left of a token's life when the server answers
  Shortest,   \* no life is shorter,
  Life,       \* and none longer, than these; the default of `expire` (7200)
  Skew,       \* token_refresh_skew_seconds
  MaxDelay,   \* bound: from the answer of the server, or the test, to the return
  MaxInstant  \* bound of the clock

\* Three threads may be late one after the other: one that writes its token over
\* that of another, the other that stamps it, one that has found it fresh.
ASSUME FeishuTokenAssumption ==
  /\ {Shortest, Life, Skew, MaxDelay, MaxInstant} \subseteq Nat
  /\ Shortest <= Life /\ Lives \subseteq Shortest .. Life
  /\ 3 * MaxDelay <= Skew /\ 2 * MaxDelay < Shortest

VARIABLES
  instant,    \* time.time()
  token,      \* _tenant_access_token; 0 is the empty one
  expireAt,   \* _tenant_token_expire_at
  tpc,        \* [Clients -> where the request is]
  given,      \* [Clients -> the token in its payload, or the one it was given]
  said,       \* [Clients -> `expire`, of its payload or the default]
  asOf,       \* [Clients -> when the server answered, or the test was made]
  stamped,    \* history: the end of the token that expireAt was stamped for
  mixed       \* history: threads that found another token under that expiry

tvars == <<instant, token, expireAt, tpc, given, said, asOf, stamped, mixed>>

KInit ==
  /\ instant = 0
  /\ token = 0 /\ expireAt = 0
  /\ tpc = [r \in Clients |-> "idle"]
  /\ given = [r \in Clients |-> 0] /\ asOf = [r \in Clients |-> 0]
  /\ said = [r \in Clients |-> Life]
  /\ stamped = 0 /\ mixed = {}

Moves(r, from, to) == tpc[r] = from /\ tpc' = [tpc EXCEPT ![r] = to]
Holding == {"writing", "stamping", "returning"}
Cache == <<token, expireAt, stamped>>

Elapse ==
  /\ instant < MaxInstant
  /\ \A r \in Clients : tpc[r] \in Holding => instant < asOf[r] + MaxDelay
  /\ instant' = instant + 1
  /\ UNCHANGED <<Cache, tpc, given, said, asOf, mixed>>

\* (A plausible slip: the skew is forgotten.)
FreshUnskewed == token # 0 /\ instant < expireAt

Fresh == token # 0 /\ instant + Skew < expireAt

UseCached(r) ==
  /\ Moves(r, "idle", "returning") /\ Fresh
  /\ asOf' = [asOf EXCEPT ![r] = instant]
  /\ mixed' = IF token = stamped THEN mixed ELSE mixed \union {r}
  /\ UNCHANGED <<instant, Cache, given, said>>

AskToken(r) ==
  /\ Moves(r, "idle", "asking") /\ ~Fresh
  /\ UNCHANGED <<instant, Cache, given, said, asOf, mixed>>

\* `payload.get("expire", 7200) or 7200`, and a token or none.
Issued(r) ==
  /\ Moves(r, "asking", "writing")
  /\ \E life \in Lives, hasToken \in BOOLEAN, hasExpire \in BOOLEAN :
       /\ given' = [given EXCEPT ![r] = IF hasToken THEN instant + life ELSE 0]
       /\ said' = [said EXCEPT ![r] = IF hasExpire THEN life ELSE Life]
  /\ asOf' = [asOf EXCEPT ![r] = instant]
  /\ UNCHANGED <<instant, Cache, mixed>>

\* _request() raises, and so does the caller.
AskTokenFails(r) ==
  /\ Moves(r, "asking", "idle")
  /\ UNCHANGED <<instant, Cache, given, said, asOf, mixed>>

Write(r) ==
  /\ Moves(r, "writing", "stamping")
  /\ token' = given[r] /\ given' = [given EXCEPT ![r] = 0]
  /\ UNCHANGED <<instant, expireAt, stamped, said, asOf, mixed>>

\* By the time of the assignment, not of the answer.
Stamp(r) ==
  /\ Moves(r, "stamping", "returning")
  /\ expireAt' = instant + said[r]
  /\ stamped' = asOf[r] + said[r]
  /\ said' = [said EXCEPT ![r] = Life]
  /\ UNCHANGED <<instant, token, given, asOf, mixed>>

\* The attribute is read again: another thread may have written it since.
GiveToken(r) ==
  /\ Moves(r, "returning", "using")
  /\ given' = [given EXCEPT ![r] = token]
  /\ asOf' = [asOf EXCEPT ![r] = instant]
  /\ UNCHANGED <<instant, Cache, said, mixed>>

\* The request itself, of _request(), has been answered.
ClientDone(r) ==
  /\ Moves(r, "using", "idle")
  /\ given' = [given EXCEPT ![r] = 0] /\ asOf' = [asOf EXCEPT ![r] = 0]
  /\ mixed' = mixed \ {r}
  /\ UNCHANGED <<instant, Cache, said>>

KNext ==
  \/ Elapse
  \/ \E r \in Clients :
       \/ UseCached(r) \/ AskToken(r) \/ Issued(r) \/ AskTokenFails(r)
       \/ Write(r) \/ Stamp(r) \/ GiveToken(r) \/ ClientDone(r)

KSpec == KInit /\ [][KNext]_tvars

----------------------------------------------------------------------------
KTypeOK ==
  /\ instant \in 0 .. MaxInstant
  /\ token \in Nat /\ expireAt \in Nat /\ stamped \in Nat
  /\ tpc \in [Clients -> Holding \union {"idle", "asking", "using"}]
  /\ given \in [Clients -> Nat] /\ asOf \in [Clients -> Nat]
  /\ said \in [Clients -> Shortest .. Life] /\ mixed \subseteq Clients

\* Threads that find the cache stale at the same time write tokens and expiries
\* of their own over each other's, in any order and late.  A request gets an
\* expired token only if its thread found that token under an expiry that was
\* stamped for another one (or that the server had not told); and even then the
\* token ended less than the difference of two lives ago.
TokenInTime ==
  \A r \in Clients : tpc[r] = "using" /\ given[r] # 0 =>
    /\ asOf[r] < given[r] \/ r \in mixed
    /\ asOf[r] < given[r] + (Life - Shortest)
=============================================================================
