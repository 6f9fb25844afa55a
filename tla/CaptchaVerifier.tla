-------------------------- MODULE CaptchaVerifier --------------------------
(***************************************************************************)
(* The verification of captcha tokens by an HTTP service                   *)
(* (src/CaptchaVerifier.hpp): one connection, one request at a time, the   *)
(* others in a queue, retries after failures, and settings that may change *)
(* at any time.                                                            *)
(*                                                                         *)
(* Each action is a handler on strand_, or a completion handler together   *)
(* with the function it dispatches to strand_.  Operations in progress are *)
(* kept in ops; an operation on a stream that is not connected fails, any  *)
(* other may fail or, even if the stream was closed since, have succeeded. *)
(* Verify captures token by reference: when it is posted instead of run at *)
(* once it reads a dangling string_view, here an arbitrary choice of empty *)
(* or not.                                                                 *)
(*                                                                         *)
(* Left out: the header fields of req_ (host, method, content type), which *)
(* SetSettings changes at once, even while req_ is being written; the      *)
(* settings of an operation here are those of its connection and its body. *)
(***************************************************************************)
EXTENDS Integers, SequencesExt, FiniteSets

CONSTANTS
    MaxRequests,   \* bound: calls of Verify
    Captchas,      \* settings: records of enabled and https
    MaxSettings,   \* bound: calls of SetSettings
    max_fail_count_

ASSUME CaptchaConstants ==
    /\ MaxRequests \in Nat
    /\ Captchas \subseteq [enabled : BOOLEAN, https : BOOLEAN]
    /\ MaxSettings \in Nat
    /\ max_fail_count_ \in Nat \ {0}

VARIABLES
    request_,          \* sequence of the request in progress: std::optional
    queue_,
    settings_,         \* std::unique_ptr: version 0 is nullptr
    pending_settings_,
    failed_count_,
    stream_,           \* is_open: "open" or "connected"
    host,              \* settings stream_ was opened for
    ops,               \* asynchronous operations in progress
    last,              \* history: number of SetSettings calls
    calls,             \* history: number of Verify calls
    overtaken,         \* history: SetSettings was called during a resolution
    accepted,          \* history: requests for the service, in order
    answers            \* history: request -> results passed to its callback

captchaVars == <<request_, queue_, settings_, pending_settings_, failed_count_,
                 stream_, host, ops, last, calls, overtaken,
                 accepted, answers>>

history == <<last, calls, overtaken, accepted>>

Requests == 1..MaxRequests   \* in the order of their calls
Settings == [version : 0..MaxSettings, enabled : BOOLEAN, https : BOOLEAN]
NoSettings == [version |-> 0, enabled |-> FALSE, https |-> FALSE]
AcceptedRequests == [request : Requests, version : 0..MaxSettings]
Kinds == {"resolve", "connect", "handshake", "write", "read", "wait"}
Operations == [kind : Kinds, settings : Settings, alive : BOOLEAN]

CaptchaInit ==
    /\ request_ = << >>
    /\ queue_ = << >>
    /\ settings_ = NoSettings
    /\ pending_settings_ = NoSettings
    /\ failed_count_ = 0
    /\ stream_ = "closed"
    /\ host = 0
    /\ ops = << >>
    /\ last = 0
    /\ calls = 0
    /\ overtaken = FALSE
    /\ accepted = << >>
    /\ answers = [r \in Requests |-> << >>]

IsSet(settings) == settings.version # 0

Operation(kind, settings, alive) ==
    [kind |-> kind, settings |-> settings, alive |-> alive]

(* ops without the operation that completed, with the one it starts. *)
Completed(i) == RemoveAt(ops, i)
Continued(i, kind, alive) ==
    [ops EXCEPT ![i] = Operation(kind, ops[i].settings, alive)]

Answer(request, result) ==
    [answers EXCEPT ![request] = Append(@, result)]

(* Mutant of SetSettings: the stream is not closed. *)
SetSettingsKeepsStream(captcha) ==
    /\ last < MaxSettings
    /\ last' = last + 1
    /\ pending_settings_' = [version |-> last + 1,
                             enabled |-> captcha.enabled, https |-> captcha.https]
    /\ overtaken' = (overtaken \/ \E i \in DOMAIN ops : ops[i].kind = "resolve")
    /\ UNCHANGED <<stream_, request_, queue_, settings_, failed_count_, host, ops, calls,
                   accepted, answers>>

(* Close the socket in case the host changed. *)
SetSettings(captcha) ==
    /\ last < MaxSettings
    /\ last' = last + 1
    /\ pending_settings_' = [version |-> last + 1,
                             enabled |-> captcha.enabled, https |-> captcha.https]
    /\ overtaken' = (overtaken \/ \E i \in DOMAIN ops : ops[i].kind = "resolve")
    /\ stream_' = "closed"
    /\ UNCHANGED <<request_, queue_, settings_, failed_count_, host, ops, calls,
                   accepted, answers>>

(* Connect: takes over the new settings and resolves their host. *)
Connect(rest) ==
    LET settings == IF IsSet(pending_settings_) THEN pending_settings_ ELSE settings_
    IN  /\ settings_' = settings
        /\ pending_settings_' = NoSettings
        /\ failed_count_' = IF IsSet(pending_settings_) THEN 0 ELSE failed_count_
        /\ ops' = Append(rest, Operation("resolve", settings, FALSE))

SendRequest(rest) ==
    /\ failed_count_' = 0
    /\ ops' = Append(rest, Operation("write", settings_, stream_ = "connected"))
    /\ UNCHANGED <<settings_, pending_settings_>>

(* Mutant of Verify: a request in progress is not waited for. *)
VerifyAtOnce(r, token_empty) ==
    LET settings == IF IsSet(pending_settings_) THEN pending_settings_ ELSE settings_
        request == [request |-> r, version |-> settings.version]
    IN
    /\ r = calls + 1
    /\ calls' = r
    /\ settings.enabled /\ ~token_empty
    /\ accepted' = Append(accepted, request)
    /\ request_' = <<request>>
    /\ IF stream_ # "closed" THEN SendRequest(ops) ELSE Connect(ops)
    /\ UNCHANGED <<queue_, stream_, host, last, overtaken, answers>>

Verify(r, token_empty) ==
    LET settings == IF IsSet(pending_settings_) THEN pending_settings_ ELSE settings_
        request == [request |-> r, version |-> settings.version]
    IN
    /\ r = calls + 1
    /\ calls' = r
    /\ IF ~IsSet(settings) \/ ~settings.enabled \/ token_empty
       THEN /\ answers' = Answer(r, ~IsSet(settings) \/ ~settings.enabled)
            /\ UNCHANGED <<request_, queue_, settings_, pending_settings_,
                           failed_count_, ops, accepted>>
       ELSE /\ accepted' = Append(accepted, request)
            /\ UNCHANGED answers
            /\ IF request_ # << >>
               THEN /\ queue_' = Append(queue_, request)
                    /\ UNCHANGED <<request_, settings_, pending_settings_,
                                   failed_count_, ops>>
               ELSE /\ request_' = <<request>>
                    /\ IF stream_ # "closed" THEN SendRequest(ops) ELSE Connect(ops)
                    /\ UNCHANGED queue_
    /\ UNCHANGED <<stream_, host, last, overtaken>>

(* The callbacks of all of rejected are called with false. *)
RejectAll(rejected) ==
    [r \in Requests |->
        LET calls_of_r == {i \in DOMAIN rejected : rejected[i].request = r}
        IN  answers[r] \o [n \in 1..Cardinality(calls_of_r) |-> FALSE]]

(* Mutant of Retry: the current request is rejected twice. *)
RetryRejectsTwice(rest) ==
    IF failed_count_ + 1 >= max_fail_count_
    THEN /\ failed_count_' = failed_count_ + 1
         /\ answers' = RejectAll(request_ \o request_ \o queue_)
         /\ request_' = << >>
         /\ queue_' = << >>
         /\ ops' = rest
    ELSE /\ failed_count_' = failed_count_ + 1
         /\ ops' = Append(rest, Operation("wait", settings_, FALSE))
         /\ UNCHANGED <<request_, queue_, answers>>

(* Retry: after max_fail_count_ failures in a row every request is         *)
(* rejected, otherwise retry_timer_ is waited for before Connect.          *)
Retry(rest) ==
    /\ failed_count_' = failed_count_ + 1
    /\ IF failed_count_ + 1 >= max_fail_count_
       THEN /\ answers' = RejectAll(request_ \o queue_)
            /\ request_' = << >>
            /\ queue_' = << >>
            /\ ops' = rest
       ELSE /\ ops' = Append(rest, Operation("wait", settings_, FALSE))
            /\ UNCHANGED <<request_, queue_, answers>>

-----------------------------------------------------------------------------
(* Completion handlers; i is the operation that completes. *)
ResolveHandler(i, found) ==
    /\ ops[i].kind = "resolve"
    /\ ops' = Continued(i, "connect", found)
    /\ IF found
       THEN stream_' = "open" /\ host' = ops[i].settings.version
       ELSE UNCHANGED <<stream_, host>>
    /\ UNCHANGED <<request_, queue_, settings_, pending_settings_, failed_count_,
                   history, answers>>

ConnectHandler(i) ==
    /\ ops[i].kind = "connect"
    /\ ops[i].alive
    /\ stream_' = IF stream_ = "open" THEN "connected" ELSE stream_
    /\ IF ops[i].settings.https
       THEN /\ ops' = Continued(i, "handshake", TRUE)
            /\ UNCHANGED <<settings_, pending_settings_, failed_count_>>
       ELSE /\ failed_count_' = 0
            /\ ops' = Append(Completed(i),
                             Operation("write", settings_, stream_' = "connected"))
            /\ UNCHANGED <<settings_, pending_settings_>>
    /\ UNCHANGED <<request_, queue_, host, history, answers>>

HandshakeHandler(i) ==
    /\ ops[i].kind = "handshake"
    /\ SendRequest(Completed(i))
    /\ UNCHANGED <<request_, queue_, stream_, host, history, answers>>

WriteHandler(i) ==
    /\ ops[i].kind = "write"
    /\ ops[i].alive
    /\ ops' = Continued(i, "read", TRUE)
    /\ UNCHANGED <<request_, queue_, settings_, pending_settings_, failed_count_,
                   stream_, host, history, answers>>

(* Mutant of ReadHandler: the queue is left alone. *)
ReadHandlerForgetsQueue(i, success) ==
    /\ ops[i].kind = "read"
    /\ answers' = Answer(Head(request_).request, success)
    /\ request_' = << >>
    /\ ops' = Completed(i)
    /\ UNCHANGED <<queue_, settings_, pending_settings_, failed_count_,
                   stream_, host, history>>

(* The answer of the service, then the next request. *)
ReadHandler(i, success) ==
    /\ ops[i].kind = "read"
    /\ answers' = Answer(Head(request_).request, success)
    /\ IF queue_ = << >>
       THEN /\ request_' = << >>
            /\ ops' = Completed(i)
            /\ UNCHANGED <<queue_, settings_, pending_settings_, failed_count_>>
       ELSE /\ request_' = <<Head(queue_)>>
            /\ queue_' = Tail(queue_)
            /\ SendRequest(Completed(i))
    /\ UNCHANGED <<stream_, host, history>>

(* Any operation but the resolution and the wait may end with an error. *)
FailureHandler(i) ==
    /\ ops[i].kind \in {"connect", "handshake", "write", "read"}
    /\ Retry(Completed(i))
    /\ UNCHANGED <<settings_, pending_settings_, stream_, host, history>>

RetryTimerHandler(i) ==
    /\ ops[i].kind = "wait"
    /\ Connect(Completed(i))
    /\ UNCHANGED <<request_, queue_, stream_, host, history, answers>>

Succeeds(i) ==
    \/ ResolveHandler(i, TRUE)
    \/ ConnectHandler(i)
    \/ HandshakeHandler(i)
    \/ WriteHandler(i)
    \/ \E success \in BOOLEAN : ReadHandler(i, success)
    \/ RetryTimerHandler(i)

Fails(i) ==
    \/ ResolveHandler(i, FALSE)
    \/ FailureHandler(i)

Completion == \E i \in DOMAIN ops : Succeeds(i) \/ Fails(i)

CaptchaNext ==
    \/ \E captcha \in Captchas : SetSettings(captcha)
    \/ \E r \in Requests, token_empty \in BOOLEAN : Verify(r, token_empty)
    \/ Completion

CaptchaSpec == CaptchaInit /\ [][CaptchaNext]_captchaVars

(* io_context completes every operation, one way or the other. *)
CaptchaFairSpec == CaptchaSpec /\ WF_captchaVars(Completion)
-----------------------------------------------------------------------------
(* settings_ is dereferenced by every operation. *)
CaptchaTypeOK ==
    /\ ops # << >> => IsSet(settings_)
    /\ request_ \in Seq(AcceptedRequests) /\ Len(request_) <= 1
    /\ queue_ \in Seq(AcceptedRequests)
    /\ settings_ \in Settings
    /\ pending_settings_ \in Settings
    /\ failed_count_ \in Nat
    /\ stream_ \in {"closed", "open", "connected"}
    /\ host \in 0..MaxSettings
    /\ ops \in Seq(Operations)
    /\ last \in 0..MaxSettings
    /\ calls \in 0..MaxRequests
    /\ overtaken \in BOOLEAN
    /\ accepted \in Seq(AcceptedRequests)
    /\ answers \in [Requests -> Seq(BOOLEAN)]

(* The requests that wait are the last ones accepted; the others, and only *)
(* they, have been answered.                                               *)
Waiting == request_ \o queue_

OthersAreAnswered ==
    LET n == Len(accepted) - Len(Waiting) IN
    /\ n >= 0
    /\ \A k \in 1..Len(Waiting) : Waiting[k] = accepted[n + k]
    /\ \A i \in 1..Len(accepted) : answers[accepted[i].request] # << >> <=> i <= n

(* The callback of Verify is called once and not twice, whichever of an    *)
(* answer, a retry and a rejection of everything comes when; requests are  *)
(* answered in the order they came, and none is forgotten.                 *)
AnsweredOnceInOrder ==
    /\ \A r \in Requests : Len(answers[r]) <= 1
    /\ OthersAreAnswered

(* req_, response_, buffer_ and stream_ are shared by all requests: one    *)
(* operation is in progress while there is a request, and none otherwise.  *)
OneOperation ==
    Len(ops) = Len(request_)

(* The invariant of the connection: one operation for one request, with    *)
(* settings to dereference.                                                *)
CaptchaInv == CaptchaTypeOK /\ OneOperation

(* "Close the socket in case the host changed": a request that came after  *)
(* a change of the settings is sent with the new ones, to their host.      *)
SentWithCurrentSettings ==
    \A i \in DOMAIN ops :
        ops[i].kind = "write" /\ ops[i].alive =>
            /\ ops[i].settings.version >= Head(request_).version
            /\ ops[i].settings.version = host

(* That holds for changes at any point of a request, a retry or a          *)
(* rejection, except while a host is being resolved: only then is there no *)
(* socket to close.                                                        *)
SentWithCurrentSettingsUnlessOvertaken ==
    overtaken \/ SentWithCurrentSettings

(* Every accepted request is answered or rejected some day, whatever fails *)
(* how often, unless requests are sent for ever: SendRequest clears        *)
(* failed_count_, so only a service that is reached every time and never   *)
(* answers keeps a request waiting.                                        *)
AnsweredOrSentForever ==
    \A r \in Requests :
        \/ (\E i \in DOMAIN accepted : accepted[i].request = r) ~> answers[r] # << >>
        \/ []<>(\E i \in DOMAIN ops : ops[i].kind = "write")

(* Not kept: "Reject all captcha verification requests because the tokens  *)
(* may have timed out" is not reached by a write or a read that fails      *)
(* every time.                                                             *)
AllAnswered ==
    \A r \in Requests :
        (\E i \in DOMAIN accepted : accepted[i].request = r) ~> answers[r] # << >>
=============================================================================
