---------------------------- MODULE HttpOutcome ----------------------------
(***************************************************************************)
(* How the answer of a web site becomes the outcome of a fetch, on the two *)
(* paths it can take: read by the Worker itself (cf-http), or read by an   *)
(* executor (gcp-http, home-http), sent back as a payload and interpreted  *)
(* by the Worker.                                                          *)
(*                                                                         *)
(* A response is [status, over, captcha, location]: over says that the     *)
(* body is longer than maxBytes, captcha that headers or body look like a  *)
(* challenge.  Bodies and the other headers are left out.                  *)
(***************************************************************************)
EXTENDS Integers

NoUrl == "no url"
NoStatus == 0     \* status: null

\* shared/types.ts
NeverProceedable == {"blocked_by_robots", "ssrf_blocked", "not_found", "auth_required",
                     "too_large", "captcha_challenge"}
DefaultProceedable == {"network_error", "timeout", "http_5xx", "executor_unavailable"}

Success(status, url) ==
  [ok |-> TRUE, class |-> "success", status |-> status, url |-> url]

Failure(class, status) ==
  [ok |-> FALSE, class |-> class, status |-> status, url |-> NoUrl]

IsRedirect(status) == status \in {301, 302, 303, 307, 308}

\* The statuses whose body is read, up to maxBytes
BodyIsRead(status) == status \in 200..299 \/ status = 403

\* handleTerminalResponse
Terminal(resp, url) ==
  LET s == resp.status IN
  CASE s = 304                        -> Success(s, url)
    [] s \in {401, 407}               -> Failure("auth_required", s)
    [] BodyIsRead(s) /\ resp.over     -> Failure("too_large", s)
    [] s = 403 /\ ~resp.over          -> Failure(IF resp.captcha THEN "captcha_challenge"
                                                                 ELSE "http_403", s)
    [] s \in {404, 410}               -> Failure("not_found", s)
    [] s = 429                        -> Failure("http_429", s)
    [] s \in 500..599                 -> Failure("http_5xx", s)
    [] s \in 200..299 /\ ~resp.over   -> Success(s, url)
    [] OTHER                          -> Failure("network_error", s)

\* What the executor sends back of a response: it reads every body, and cuts
\* off a long one instead of refusing it.
ExecutorPayload(resp, url) ==
  [kind |-> "response", status |-> resp.status, url |-> url, truncated |-> resp.over,
   captcha |-> resp.captcha]

ExecutorError(class) == [kind |-> "error", class |-> class]

\* Mutant of FromPayload: truncation is not looked at.
FromPayloadIgnoringTruncation(payload, allowed) ==
  IF payload.kind = "error" THEN Failure(payload.class, NoStatus)
  ELSE IF payload.status \notin 200..599 THEN Failure("internal_error", NoStatus)
  ELSE IF payload.url \notin allowed THEN Failure("ssrf_blocked", NoStatus)
  ELSE Terminal([status |-> payload.status, over |-> FALSE, captcha |-> payload.captcha],
                payload.url)

\* outcomeFromExecutorPayload; allowed is the set of final URLs the guard
\* accepts (every URL where the caller passes no guard).
FromPayload(payload, allowed) ==
  CASE payload.kind = "error" ->
         IF payload.class \in {"ssrf_blocked", "timeout", "network_error", "too_large"}
         THEN Failure(payload.class, NoStatus) ELSE Failure("internal_error", NoStatus)
    [] payload.kind = "response" /\ payload.status \notin 200..599 ->
         Failure("internal_error", NoStatus)
    [] payload.kind = "response" /\ payload.status \in 200..599 ->
         IF payload.url \notin allowed THEN Failure("ssrf_blocked", NoStatus)
         ELSE IF payload.truncated /\ BodyIsRead(payload.status)
         THEN Failure("too_large", payload.status)
         ELSE Terminal([status |-> payload.status, over |-> FALSE,
                        captcha |-> payload.captcha], payload.url)
=============================================================================
