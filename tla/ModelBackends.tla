----------------------------- MODULE ModelBackends -----------------------------
(***************************************************************************)
(* models/command_backend.py and models/openai_compatible.py: what one     *)
(* exchange of a model backend comes to, and what of it the gateway tells  *)
(* apart.                                                                  *)
(*                                                                         *)
(* An exchange ends with a response, with a BackendError, which is one of  *)
(* the failures below, or with another exception ("escapes").              *)
(* A failure keeps its kind, whether the backend named a delay, and        *)
(* whether the output may be corrected.                                    *)
(***************************************************************************)
EXTENDS Naturals, Sequences

Response == [kind |-> "response", waits |-> FALSE, corrects |-> FALSE]

\* The exception is no BackendError: the request of the gateway ends with it.
Escapes == [Response EXCEPT !.kind = "escapes"]

Failure(kind) == [Response EXCEPT !.kind = kind]
-------------------------------------------------------------------------------
(* CommandBackend: a command line that writes its last message to a file    *)

\* _command_failure_kind: the first group of markers that the output of a
\* failed command contains decides.
Diagnoses == <<<<"schema", "SCHEMA_INVALID">>,
               <<"read_only_state", "BACKEND_MISCONFIGURED">>,
               <<"auth", "AUTH_FAILED">>,
               <<"rate", "RATE_LIMITED">>,
               <<"overload", "OVERLOADED">>,
               <<"network", "NETWORK_UNAVAILABLE">>>>

Markers == {Diagnoses[i][1] : i \in DOMAIN Diagnoses}

CommandFailureKind(output) ==
    LET found == {i \in DOMAIN Diagnoses : Diagnoses[i][1] \in output}
    IN  IF found = {} THEN "PROCESS_INTERRUPTED"
        ELSE Diagnoses[CHOOSE i \in found : \A j \in found : i <= j][2]

\* How a command can go: state is its state directory ("none" when the backend
\* asks for none), ends what run_supervised_process reports, output what a failed
\* command wrote, and file what the file of the last message holds.
Commands == [state : {"none", "unset", "missing", "unwritable", "ready"},
             ends : {"not_found", "cancelled", "timed_out", "failed", "done"},
             output : SUBSET Markers,
             file : {"absent", "undecodable", "text"}]

StateRootFails(command) == command.state \in {"unset", "missing", "unwritable"}

\* CommandBackend.exchange.  A rate limit of a command names no delay.
CommandExchange(command) ==
    IF StateRootFails(command) THEN Failure("BACKEND_MISCONFIGURED")
    ELSE CASE command.ends = "not_found" -> Failure("BACKEND_UNAVAILABLE")
           [] command.ends = "cancelled" -> Escapes
           [] command.ends = "timed_out" -> Failure("TIMEOUT")
           [] command.ends = "failed" -> Failure(CommandFailureKind(command.output))
           [] command.ends = "done" /\ command.file = "absent" ->
                Failure("SCHEMA_INVALID")
           [] command.ends = "done" /\ command.file = "undecodable" -> Escapes
           [] command.ends = "done" /\ command.file = "text" -> Response
-------------------------------------------------------------------------------
(* OpenAICompatibleBackend: one POST of urllib                              *)

\* A status of every class that _kind_for_status tells apart.
Statuses == {400, 401, 403, 404, 429, 500, 502, 503, 529}

KindForStatus(status) ==
    CASE status \in {401, 403} -> "AUTH_FAILED"
      [] status = 429 -> "RATE_LIMITED"
      [] status \in {502, 503, 529} -> "OVERLOADED"
      [] OTHER -> "NETWORK_UNAVAILABLE"

\* _http_error.  _retry_after reads a number of seconds; a date is no delay.
HttpError(status, retryAfter) ==
    [Failure(KindForStatus(status)) EXCEPT !.waits = retryAfter = "seconds"]

\* OpenAICompatibleBackend.exchange.  urllib wraps what fails while the request
\* is sent; a connection that the server drops while the answer is read is
\* wrapped by nobody.
HttpExchanges ==
    {Failure("BACKEND_MISCONFIGURED")}                    \* _api_key: not set
        \cup {HttpError(status, retryAfter) :
                status \in Statuses, retryAfter \in {"absent", "date", "seconds"}}
        \cup {Failure("TIMEOUT"), Failure("NETWORK_UNAVAILABLE")}
        \cup {Escapes}                                    \* cancelled, or dropped
        \cup {Failure("SCHEMA_INVALID")}                  \* invalid envelope
        \cup {Response}
-------------------------------------------------------------------------------
(* What the gateway makes of an exchange                                    *)

Exchanges == HttpExchanges \cup {CommandExchange(command) : command \in Commands}

\* A response of another backend or model is refused for good; one whose text
\* does not fit the schema may be corrected.
Refusals == {Failure("SCHEMA_INVALID"),
             [Failure("SCHEMA_INVALID") EXCEPT !.corrects = TRUE]}

\* Every BackendError that a round of the gateway can see.
Failures ==
    (Exchanges \ {Response, Escapes})
        \cup IF Response \in Exchanges THEN Refusals ELSE {}

\* The failures that the circuit counts and _retry_delay spaces out.
Outages == {"OVERLOADED", "NETWORK_UNAVAILABLE", "TIMEOUT", "PROCESS_INTERRUPTED"}

\* The retryable flag of a BackendError is not looked at.
AnswerOf(failure) ==
    IF failure.kind \in Outages THEN "outage"
    ELSE IF failure.kind = "RATE_LIMITED" /\ failure.waits THEN "rate_limited"
    ELSE IF failure.corrects THEN "misfit"
    ELSE "final"
===============================================================================
