--------------------------- MODULE MediaResolution ---------------------------
(***************************************************************************)
(* The resolution of a medium that a message points to (adapters/media.py):*)
(* a download that follows redirects, an inline base64 text, a local file. *)
(* Names are looked up and files measured before the content is read, and  *)
(* both may have changed by then; a server may answer anything, or nothing.*)
(* Bytes are counted in units of a chunk's size.                           *)
(***************************************************************************)
EXTENDS Naturals

CONSTANTS Origins,       \* scheme, host and port of a server
          Allowed,       \* policy.allowed_remote_origins
          MaxBytes, MaxRedirects, TotalTimeout,   \* of the policy
          MaxContent     \* bound: size of a content

ASSUME MediaAssumption ==
  /\ Allowed \subseteq Origins
  /\ MaxBytes \in Nat \ {0} /\ MaxRedirects \in Nat
  /\ TotalTimeout \in Nat \ {0} /\ MaxContent \in Nat

VARIABLES source,      \* "remote", "data", "local", "adapter"
          mpc,         \* "start", "fetch", "body", "check", "read", "finish", "done"
          origin,      \* origin of current_url
          hops,        \* redirect_count
          lookup,      \* what a name is now resolved to: by origin, a public address?
          pinned,      \* the records of _PinnedResolver: by origin, public, private or none
          contacted,   \* the origins a request has gone to, and the address it went to
          content,     \* size of what is behind the locator, as it is now
          quality,     \* what _sniff_mime() and the declared type say of it
          size,        \* bytes read into memory
          clock, outcome

mediaVars == <<source, mpc, origin, hops, lookup, pinned, contacted, content, quality, size,
               clock, outcome>>

Qualities == {"good", "unsupported", "mismatch"}
NoOutcome == <<"pending", "none">>
Failure(status, code) == <<status, code>>
Ok == <<"ok", "none">>

MediaInit ==
  /\ source \in {"remote", "data", "local", "adapter"}
  /\ mpc = "start" /\ hops = 0 /\ size = 0 /\ clock = 0
  /\ origin \in Origins
  /\ lookup \in [Origins -> {"public", "private"}]
  /\ pinned = [o \in Origins |-> "none"] /\ contacted = {}
  /\ content \in 0..MaxContent /\ quality \in Qualities
  /\ outcome = NoOutcome

\* The coroutine has not ended; it ends with one outcome.
At(where) == mpc = where
World == UNCHANGED <<source, content, quality, lookup, clock>>
Goto(where) == mpc' = where /\ UNCHANGED outcome
End(result) == mpc' = "done" /\ outcome' = result

-----------------------------------------------------------------------------
(* _finish_media(): what is checked of the bytes that were read. *)

Finished(n, q) ==
  CASE n > MaxBytes       -> Failure("rejected", "too_large")
    [] n <= MaxBytes /\ q = "unsupported" -> Failure("rejected", "mime_unsupported")
    [] n <= MaxBytes /\ q = "mismatch"    -> Failure("rejected", "mime_mismatch")
    [] n <= MaxBytes /\ q = "good"        -> Ok

Finish ==
  /\ At("finish") /\ End(Finished(size, quality))
  /\ World /\ UNCHANGED <<origin, hops, pinned, contacted, size>>

-----------------------------------------------------------------------------
(* _resolve_remote(): one turn of its loop validates, asks and follows. *)

\* _validate_remote_target() and pin(): credentials, a scheme other than HTTP
\* and an origin or an address that is not allowed end it; so does a failed lookup.
Refused ==
  /\ At("start") /\ source = "remote"
  /\ \/ End(Failure("rejected", "scheme_not_allowed"))
     \/ End(Failure("rejected", "origin_not_allowed"))
     \/ End(Failure("error", "upstream_error"))
  /\ World /\ UNCHANGED <<origin, hops, pinned, contacted, size>>

Validate ==
  /\ At("start") /\ source = "remote"
  /\ origin \in Allowed /\ lookup[origin] = "public"
  /\ pinned' = [pinned EXCEPT ![origin] = lookup[origin]]
  /\ Goto("fetch") /\ World /\ UNCHANGED <<origin, hops, contacted, size>>

\* (A plausible slip: the connection resolves the name a second time.)
AddressAgain == lookup[origin]

\* _PinnedResolver.resolve(): the address a connection goes to.
Address == pinned[origin]

Contact == contacted' = contacted \cup {<<origin, Address>>}

\* The request fails, or is answered with a status that ends it.
Denied ==
  /\ At("fetch") /\ Contact
  /\ \E f \in {<<"error", "upstream_denied">>, <<"not_found", "media_not_found">>,
               <<"error", "upstream_error">>, <<"error", "timeout">>} : End(f)
  /\ World /\ UNCHANGED <<origin, hops, pinned, size>>

\* The check of redirect_count, before the redirect is followed.
MayFollow == hops < MaxRedirects

Redirect(to) ==
  /\ At("fetch") /\ Contact
  /\ IF MayFollow THEN Goto("start") /\ origin' = to /\ hops' = hops + 1
     ELSE End(Failure("rejected", "redirect_limit")) /\ UNCHANGED <<origin, hops>>
  /\ World /\ UNCHANGED <<pinned, size>>

\* Without a location; one that urljoin() cannot parse raises a ValueError that
\* nothing here catches.
RedirectNowhere ==
  /\ At("fetch") /\ Contact
  /\ \/ End(Failure("error", "malformed_response"))
     \/ MayFollow /\ End(<<"raised", "value_error">>)
  /\ World /\ UNCHANGED <<origin, hops, pinned, size>>

\* A declared length is absent, malformed, or any number: nothing makes it the
\* length of the content.
Declared(n) ==
  /\ At("fetch") /\ Contact
  /\ IF n > MaxBytes THEN End(Failure("rejected", "too_large")) ELSE Goto("body")
  /\ World /\ UNCHANGED <<origin, hops, pinned, size>>

Chunk ==
  /\ At("body") /\ size < content
  /\ size' = size + 1
  /\ IF size + 1 > MaxBytes THEN End(Failure("rejected", "too_large")) ELSE Goto("body")
  /\ World /\ UNCHANGED <<origin, hops, pinned, contacted>>

LastChunk ==
  /\ At("body") /\ size = content
  /\ Goto("finish") /\ World /\ UNCHANGED <<origin, hops, pinned, contacted, size>>

Breaks ==
  /\ At("body")
  /\ End(Failure("error", "upstream_error")) \/ End(Failure("error", "timeout"))
  /\ World /\ UNCHANGED <<origin, hops, pinned, contacted, size>>

Expires == clock >= TotalTimeout

\* wait_for(): the download is cancelled wherever it is.
Timeout ==
  /\ source = "remote" /\ mpc # "done" /\ Expires
  /\ End(Failure("error", "timeout"))
  /\ World /\ UNCHANGED <<origin, hops, pinned, contacted, size>>

-----------------------------------------------------------------------------
(* _resolve_data(): base64 text, measured before it is decoded. *)

Encoded(n) == 4 * ((n + 2) \div 3)
PayloadLimit == 4 * ((MaxBytes + 2) \div 3) + 8

Inline ==
  /\ At("start") /\ source = "data"
  /\ \/ /\ End(Failure("rejected", "invalid_source")) \/ End(Failure("rejected", "decode_failed"))
        /\ UNCHANGED size
     \/ /\ Encoded(content) > PayloadLimit
        /\ End(Failure("rejected", "too_large")) /\ UNCHANGED size
     \/ /\ Encoded(content) <= PayloadLimit
        /\ size' = content /\ Goto("finish")
  /\ World /\ UNCHANGED <<origin, hops, pinned, contacted>>

-----------------------------------------------------------------------------
(* _resolve_local(): the file is measured, then read in another thread.    *)

Open ==
  /\ At("start") /\ source = "local"
  /\ \/ Goto("check") \/ End(Failure("rejected", "local_path_denied"))
  /\ World /\ UNCHANGED <<origin, hops, pinned, contacted, size>>

Stat ==
  /\ At("check")
  /\ \/ content > MaxBytes /\ End(Failure("rejected", "too_large"))
     \/ content <= MaxBytes /\ Goto("read")
     \/ End(Failure("error", "upstream_error"))
  /\ World /\ UNCHANGED <<origin, hops, pinned, contacted, size>>

\* (A plausible slip: no byte more than the limit is read.)
ReadToLimit == IF content < MaxBytes THEN content ELSE MaxBytes

\* read_limited()
ReadLimited == IF content < MaxBytes + 1 THEN content ELSE MaxBytes + 1

Read ==
  /\ At("read")
  /\ \/ size' = ReadLimited /\ Goto("finish")
     \/ UNCHANGED size /\ End(Failure("error", "upstream_error"))
  /\ World /\ UNCHANGED <<origin, hops, pinned, contacted>>

Unsupported ==
  /\ At("start") /\ source = "adapter"
  /\ End(Failure("unsupported", "capability_unavailable"))
  /\ World /\ UNCHANGED <<origin, hops, pinned, contacted, size>>

-----------------------------------------------------------------------------
(* The world moves while the coroutine waits. *)

\* A file grows until it is read; a server sends what it likes.
Grow ==
  /\ mpc \in {"check", "read", "body"} /\ content < MaxContent
  /\ content' = content + 1
  /\ UNCHANGED <<source, mpc, origin, hops, lookup, pinned, contacted, quality, size, clock,
                 outcome>>

Relookup(o) ==
  /\ source = "remote" /\ mpc # "done"
  /\ lookup' = [lookup EXCEPT ![o] = IF @ = "public" THEN "private" ELSE "public"]
  /\ UNCHANGED <<source, mpc, origin, hops, pinned, contacted, content, quality, size, clock,
                 outcome>>

MediaTick ==
  /\ mpc # "done" /\ clock < TotalTimeout
  /\ clock' = clock + 1
  /\ UNCHANGED <<source, mpc, origin, hops, lookup, pinned, contacted, content, quality, size,
                 outcome>>

Local == Open \/ Stat \/ Read \/ Inline \/ Unsupported \/ Finish
Remote == \/ Refused \/ Validate \/ Denied \/ RedirectNowhere \/ Chunk \/ LastChunk \/ Breaks
          \/ \E o \in Origins : Redirect(o)
          \/ \E n \in {0, MaxBytes + 1} : Declared(n)

MediaNext == Local \/ Remote \/ Timeout \/ Grow \/ MediaTick \/ \E o \in Origins : Relookup(o)

\* A file is read and bytes in memory are checked; time passes, and the timer
\* of wait_for() fires.  Nothing is assumed of a server.
MediaFairness == WF_mediaVars(Local) /\ WF_mediaVars(MediaTick) /\ WF_mediaVars(Timeout)

MediaSpec == MediaInit /\ [][MediaNext]_mediaVars /\ MediaFairness

-----------------------------------------------------------------------------
MediaTypeOK ==
  /\ mpc \in {"start", "fetch", "body", "check", "read", "finish", "done"}
  /\ origin \in Origins /\ hops \in Nat /\ clock \in 0..TotalTimeout
  /\ size \in 0..MaxContent /\ (outcome # NoOutcome <=> mpc = "done")

\* A request goes only to origins of the policy and to the address that was
\* validated for them, although the name may resolve to another one by then,
\* and it is redirected no more often than the policy says.
WithinPolicy ==
  /\ \A c \in contacted : c[1] \in Allowed /\ c[2] = "public"
  /\ hops <= MaxRedirects

\* What is returned is the whole content, never what fits of a content that is
\* larger or that has grown since it was measured; and a reader holds at most
\* one unit more than the limit in memory, whatever the declared length is.
WholeAndBounded ==
  /\ outcome = Ok => size = content /\ size <= MaxBytes
  /\ source # "data" => size <= MaxBytes + 1

\* A resolution ends, whatever the server does.
MediaEnds == <>(mpc = "done")
=============================================================================
